\* Two calls behind the lock overlap with one that is not, over one link that
\* loses, repeats and volunteers messages.
SPECIFICATION FairRequestSpec
CONSTANTS
  r1 = r1
  r2 = r2
  r3 = r3
  Requests = {r1, r2, r3}
  Links = {l1}
  Retries <- OneRead
  Commands = {r1, r2}
  MaxOdd = 1
  Nothing = Nothing
  TimedOut = TimedOut
INVARIANTS AnswersInOrder PairedExactly
PROPERTY EveryCallRuns
