\* Crashes anywhere, every write lands, IV Updates, a cursor in the old file or
\* a first installation.
\* The margin just covers half of itself, a command and the window.
SPECIFICATION Spec
CONSTANTS
  Margin = 6
  CmdPdus = 3
  WriteWindow = 1
  SeqLimit = 16
  MaxIv = 2
  InitFiles = {"legacy", "none"}
  InitSeq = 1
  IdleAcks = 0
  IvSettles = TRUE
  WritesFail = FALSE
  None = None
INVARIANTS NoSeqReuse CrashLossUnderMargin HeldLinkUsesAdoptedIv
\* SeqLimit bounds the restarts: a cursor past it is not loaded again.
CHECK_DEADLOCK FALSE
