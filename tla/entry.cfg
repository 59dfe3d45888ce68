\* Two entries, exports of one network that gain and lose lamps, another network.
\* Address 11 is the preferred source, and a remote's in one of the exports.
SPECIFICATION Spec
CONSTANTS
  UnicastMax = 11
  NoAddress = NoAddress
  Entries = {e1, e2}
  Documents <- MCDocuments
  Contents <- MCContents
  OldEntries <- MCOldEntries
  SrcChoices = {4}
  MaxSent = 1
  FormsWait = TRUE
  Lower <- MCLower
  Absent = Absent
  None = None
SYMMETRY EntrySymmetry
INVARIANTS EveryMirrorIsAChoice CursorAhead SourceIsNobodys KeyTheLampsKnow LampsAnswer
