-------------------------------- MODULE Fifo --------------------------------
(***************************************************************************)
(* What the sending side promises of each of its links: the messages it    *)
(* was given come out whole, in the order they were given, with none left  *)
(* out and none twice, from the first on a link held from the start and    *)
(* from some later one on a link that joined, until the link is closed.    *)
(***************************************************************************)
EXTENDS Naturals, Sequences

CONSTANTS
  Links,
  First      \* the links held from the start

VARIABLES
  given,     \* how many messages were given
  got,       \* the numbers of those that came out of each link
  closed     \* the links nothing more comes out of

fifoVars == <<given, got, closed>>

\* The messages that may come out of l next.
Next(l) ==
  IF got[l] # <<>> THEN {got[l][Len(got[l])] + 1} ELSE IF l \in First THEN {1} ELSE 1 .. given

Deliver(l) ==
  /\ l \notin closed
  /\ \E n \in Next(l) : n <= given /\ got' = [got EXCEPT ![l] = Append(@, n)]
  /\ UNCHANGED <<given, closed>>

\* More is given, and links are closed for good; one start of the program does both.
GiveOrClose == given' >= given /\ closed \subseteq closed' /\ UNCHANGED got

FifoInit == given = 0 /\ got = [l \in Links |-> <<>>] /\ closed = {}

FifoSpec == FifoInit /\ [][GiveOrClose \/ (\E l \in Links : Deliver(l))]_fifoVars
=============================================================================
