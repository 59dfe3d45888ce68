---------------------------- MODULE MCDiscovery ----------------------------
(* A node between two scanners, and one in range of the first only. *)
EXTENDS Discovery, TLC
CONSTANTS n1, n2, s1, s2
MCNear == (n1 :> {s1, s2}) @@ (n2 :> {s1})
=============================================================================
