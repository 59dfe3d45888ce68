--------------------------- MODULE MCMeshRequest ---------------------------
(* Small instances of MeshRequest for TLC. *)
EXTENDS MeshRequest

CONSTANTS r1, r2, r3

\* A read retransmits once, a set never does.
OneRead == [r \in Requests |-> IF r = r1 THEN 1 ELSE 0]
=============================================================================
