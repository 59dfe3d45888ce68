------------------------------ MODULE Session ------------------------------
(***************************************************************************)
(* What the coordinator's lock promises of its one controller: it comes up *)
(* only where none is held, one call at a time uses it, nobody takes it    *)
(* away from under a call, and a coordinator that has stopped has none.    *)
(* What a call reads back at its end is then what it began with.           *)
(***************************************************************************)
CONSTANT Restarts   \* the process may die, and start again

VARIABLES
  held,      \* a controller, with its links, is held
  calling,   \* a call uses it
  stopped

sessionVars == <<held, calling, stopped>>

\* A connect ends; a command goes on to its call with the lock it has.
Up == ~ stopped /\ ~ held /\ held' /\ calling' \in BOOLEAN /\ UNCHANGED stopped

Begin == ~ stopped /\ held /\ ~ calling /\ calling' /\ UNCHANGED <<held, stopped>>

\* The call itself may find that the controller has to go.
End == calling /\ ~ calling' /\ held' \in BOOLEAN /\ UNCHANGED stopped

TearDown == held /\ ~ calling /\ ~ held' /\ UNCHANGED <<calling, stopped>>

Stop == ~ stopped /\ ~ calling /\ stopped' /\ ~ held' /\ UNCHANGED calling

Die == Restarts /\ stopped' /\ ~ held' /\ ~ calling'
Start == Restarts /\ stopped /\ ~ stopped' /\ UNCHANGED <<held, calling>>

SessionInit == ~ held /\ ~ calling /\ stopped \in BOOLEAN

SessionNext == Up \/ Begin \/ End \/ TearDown \/ Stop \/ Die \/ Start

SessionSpec == SessionInit /\ [][SessionNext]_sessionVars
=============================================================================
