------------------------------- MODULE ProvPdu -------------------------------
(***************************************************************************)
(* The provisioning PDUs: their fields, and what decode makes of the       *)
(* octets of one.  What is on the wire is the padding bits and the number  *)
(* of parameter octets beside the PDU they would make.                     *)
(***************************************************************************)
EXTENDS Naturals

Invite == [type |-> "invite"]
Capabilities(elements, p256, static) == [type |-> "capabilities", elements |-> elements, p256 |-> p256, static |-> static]
Start(method) == [type |-> "start", method |-> method]
PublicKey(value) == [type |-> "public_key", value |-> value]
Confirmation(value) == [type |-> "confirmation", value |-> value]
Random(value) == [type |-> "random", value |-> value]
Data(addr, under) == [type |-> "data", addr |-> addr, under |-> under]   \* encrypted under the session key
Complete == [type |-> "complete"]
Failed == [type |-> "failed"]

\* _LAYOUT: the octets of parameters of each type; any other type is unknown.
Layout == [invite |-> 1, capabilities |-> 11, start |-> 5, public_key |-> 64, confirmation |-> 16,
           random |-> 16, data |-> 33, complete |-> 0, failed |-> 1]

\* encode.
Octets(pdu) == [padding |-> 0, length |-> Layout[pdu.type], pdu |-> pdu]

\* decode raises on padding bits, an unknown type or another length.
Decodes(octets) ==
  /\ octets.padding = 0
  /\ octets.pdu.type \in DOMAIN Layout
  /\ octets.length = Layout[octets.pdu.type]
=============================================================================
