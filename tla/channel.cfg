SPECIFICATION Spec
CONSTANTS
  wide = wide
  narrow = narrow
  joins = joins
  None = None
  Links = {wide, narrow, joins}
  First = {wide, narrow}
  Mtu <- MCMtu
  Sizes = {3}
  MaxPdus = 5
CHECK_DEADLOCK FALSE
INVARIANTS EveryLinkHasAnOwner GroupSetLeft JoinedLinksAnswer
PROPERTIES ImplementsFifo FlushEnds
