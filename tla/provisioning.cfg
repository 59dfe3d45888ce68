SPECIFICATION Spec
CONSTANTS
  lamp = lamp
  relay = relay
  None = None
  Devices = {lamp, relay}
  Careless = {lamp}
  Oob <- MCOob
  Elements <- MCElements
  Models <- MCModels
  Values = {None, "label", "typo"}
  MaxRuns = 2
  MaxFaults = 2
  Toggles = 1
CHECK_DEADLOCK FALSE
INVARIANTS RecordedIsProvisioned AddressesDisjoint NoSeqTwice
PROPERTY HonestHandshakeRecords
