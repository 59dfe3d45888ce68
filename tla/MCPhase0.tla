------------------------------ MODULE MCPhase0 ------------------------------
(* A lamp of two elements with a static OOB value that checks nothing, and a relay. *)
EXTENDS Phase0, TLC
CONSTANTS lamp, relay
MCOob == (lamp :> "label") @@ (relay :> None)
MCElements == (lamp :> 2) @@ (relay :> 0)
MCModels == (lamp :> {"lightness"}) @@ (relay :> {"onoff", "lightness"})
=============================================================================
