--------------------------- MODULE MCSeqCursor ---------------------------
(* Small instances of SeqCursor for TLC: the cfg files give the constants. *)
EXTENDS SeqCursor
=============================================================================
