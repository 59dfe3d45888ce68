\* A table of two for three sources, one of which also sends to a group.
SPECIFICATION Spec
CONSTANTS
  s1 = s1
  s2 = s2
  s3 = s3
  t1 = t1
  t2 = t2
  t3 = t3
  t4 = t4
  Transfers = {t1, t2, t3, t4}
  Source <- MCSource
  SegN <- MCSegN
  ToGroup = {t2}
  MaxSources = 2
  MaxCopies = 2
  None = None
INVARIANTS TableIsBounded NothingInvented DeliveredOnce ConfirmedIsDelivered
\* Nothing comes after close().
CHECK_DEADLOCK FALSE
