\* Two nodes, one of them between two scanners; a tick is the limit on an advert's age.
SPECIFICATION FairDiscoverySpec
CONSTANTS
  n1 = n1
  n2 = n2
  s1 = s1
  s2 = s2
  Nodes = {n1, n2}
  Scanners = {s1, s2}
  Near <- MCNear
  Timestamped = {s1, s2}
  MaxAge = 1
  Retry = 2
  FirstLook = 1
  ProbeEvery = 1
  MaxExtra = 1
  Forever = TRUE
  Nothing = Nothing
INVARIANT LiveNodeIsFound
PROPERTY StragglersAreTried
