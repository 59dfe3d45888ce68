------------------------------ MODULE SeqAuth ------------------------------
(***************************************************************************)
(* _seq_auth of node.py: the SEQ of the first segment of a message, from   *)
(* the SEQ of any of its segments and the 13 bits of it they carry.        *)
(***************************************************************************)
EXTENDS Integers

Window == 8192

\* (seq & ~0x1FFF) | seq_zero, one window down when that is ahead of seq.
SeqAuthOf(seq, seqZero) ==
  LET near == seqZero + (seq - (seq % Window)) IN
  IF near > seq THEN near - Window ELSE near
=============================================================================
