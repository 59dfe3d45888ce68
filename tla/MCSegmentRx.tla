---------------------------- MODULE MCSegmentRx ----------------------------
(* Small instances of SegmentRx for TLC. *)
EXTENDS SegmentRx, TLC

CONSTANTS s1, s2, s3, t1, t2, t3, t4

\* Three sources for the table; one of them has two messages for us and one
\* for a group.
MCSource == t1 :> s1 @@ t2 :> s1 @@ t3 :> s2 @@ t4 :> s3
MCSegN == t1 :> 1 @@ t2 :> 0 @@ t3 :> 1 @@ t4 :> 0
=============================================================================
