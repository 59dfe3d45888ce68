\* Two nodes, a client more than there are slots, both keep-alive settings: a
\* drop, a reconnect or a late join may be under way when the entry is unloaded.
SPECIFICATION FairSpec
CONSTANTS
  Nodes = {n1, n2}
  Clients = {c1, c2, c3}
  MaxExtra = 1
  KeepAlives = {TRUE, FALSE}
  CancelAt = {"connect", "call"}
  None = None
INVARIANTS NoLeakedLink LinksAreTracked
PROPERTY StopFreesEverySlot
