------------------------------ MODULE MCChannel ------------------------------
(* A wide link and a narrow one, and a third that may join. *)
EXTENDS Channel, TLC
CONSTANTS wide, narrow, joins
MCMtu == (wide :> 4) @@ (narrow :> 2) @@ (joins :> 3)
=============================================================================
