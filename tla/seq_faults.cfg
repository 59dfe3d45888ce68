\* Writes that fail, acknowledgments nobody reads back, IV Updates at any time.
SPECIFICATION Spec
CONSTANTS
  Margin = 6
  CmdPdus = 2
  WriteWindow = 1
  SeqLimit = 10
  MaxIv = 1
  InitFiles = {"legacy"}
  InitSeq = 1
  IdleAcks = 1
  IvSettles = FALSE
  WritesFail = TRUE
  None = None
INVARIANT CursorNeverLost
PROPERTY IvNeverRegresses
\* SeqLimit bounds the restarts: a cursor past it is not loaded again.
CHECK_DEADLOCK FALSE
