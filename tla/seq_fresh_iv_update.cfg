\* A first installation whose export carries an old IV Index.
SPECIFICATION Spec
CONSTANTS
  Margin = 8
  CmdPdus = 2
  WriteWindow = 1
  SeqLimit = 12
  MaxIv = 1
  InitFiles = {"none"}
  InitSeq = 0
  IdleAcks = 0
  IvSettles = FALSE
  WritesFail = FALSE
  None = None
INVARIANT NoSeqReuse
\* SeqLimit bounds the restarts: a cursor past it is not loaded again.
CHECK_DEADLOCK FALSE
