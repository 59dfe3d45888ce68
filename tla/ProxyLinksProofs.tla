-------------------------- MODULE ProxyLinksProofs --------------------------
(***************************************************************************)
(* That no GATT client is left without an owner, and that the lists kept   *)
(* of the links agree, for any nodes, clients and limit of extra links.    *)
(***************************************************************************)
EXTENDS ProxyLinks, ListLemmas

----------------------------------------------------------------------------
(***************************************************************************)
(* The inductive invariant.                                                *)
(***************************************************************************)

\* What the holder of the lock has in its hands, by the await it is at.
HolderFits ==
  /\ op.kind = "free" => op.at = "none"
  /\ op.at \in {"connect", "extras", "start"} => ~ live
  /\ op.then = "connect" => op.at = "close" /\ ~ live
  /\ IsInjective(op.own)
  /\ op.at \in {"extras", "start"} =>
       /\ Len(op.own) <= MaxExtra + 1
       /\ \A c, d \in Range(op.own) : c # d => node[c] # node[d]
  /\ op.at # "start" => op.good = <<>>
  /\ op.at = "start" =>
       /\ Range(op.good) \subseteq Range(op.own) /\ Range(op.todo) \subseteq Range(op.own)
       /\ Range(op.good) \cap Range(op.todo) = {}
       /\ IsInjective(op.good) /\ IsInjective(op.todo)
       /\ Len(op.good) + Len(op.todo) <= Len(op.own)

\* No client is held twice.
HeldOnce ==
  /\ IsInjective(extras) /\ main \notin Range(extras) /\ IsInjective(bearers)
  /\ ~ live => extras = <<>>

\* Whose a client is: the coordinator's, the lock holder's or a late join's.  Nobody
\* shares one, and unless the task of a command is cancelled while it has links that
\* it has not handed over, each has somebody.
IsHeld(c) == c = main \/ c \in Range(extras)
IsOpening(c) == op.at \in {"extras", "start"} /\ c \in Range(op.own)
IsJoining(c) == \E n \in Nodes : joins[n].at \in {"queued", "adding"} /\ joins[n].client = c
Alive(c) == link[c] \in {"open", "dropped"}

OwnedOnce ==
  \A c \in Clients :
    /\ IsHeld(c) \/ IsOpening(c) \/ IsJoining(c) => Alive(c)
    /\ ~ (IsHeld(c) /\ IsOpening(c)) /\ ~ (IsHeld(c) /\ IsJoining(c)) /\ ~ (IsOpening(c) /\ IsJoining(c))

CancelledSafely == CancelAt \subseteq {"connect", "call"}

NoneLost == CancelledSafely => \A c \in Clients : Alive(c) => IsHeld(c) \/ IsOpening(c) \/ IsJoining(c)

\* A client that is open has the slot of a node.
OpenHasNode == \A c \in Clients : Alive(c) => node[c] \in Nodes

\* A late join has a client of its node, and what it found under the lock stays
\* so until it adds it.
JoinsFit ==
  \A n \in Nodes :
    /\ joins[n].at \in {"queued", "adding"} => joins[n].client \in Clients /\ node[joins[n].client] = n
    /\ joins[n].at = "adding" =>
         /\ op.at = "add" /\ live /\ n \notin Range(addresses) /\ Len(addresses) <= MaxExtra
         /\ \A m \in Nodes : joins[m].at = "adding" => m = n

\* The addresses are the nodes of the links in use: of the extra links, and before
\* them of the main one if the fan-out has it.
Shift == IF main \in linked THEN 1 ELSE 0

ListsAgree ==
  live =>
    /\ Range(bearers) = linked /\ Range(extras) \subseteq linked /\ linked \subseteq {main} \cup Range(extras)
    /\ Len(addresses) = Len(extras) + Shift
    /\ main \in linked => addresses[1] = node[main]
    /\ \A i \in 1 .. Len(extras) : addresses[i + Shift] = node[extras[i]]
    /\ IsInjective(addresses) /\ Len(addresses) <= MaxExtra + 1
    /\ bearers # <<>> /\ ~ dead => main \in linked
    /\ bearers = <<>> => dead

IInv ==
  /\ TypeOK /\ HolderFits /\ HeldOnce /\ OwnedOnce /\ NoneLost /\ OpenHasNode /\ JoinsFit /\ ListsAgree

----------------------------------------------------------------------------
(***************************************************************************)
(* What the properties say in the invariant's terms.                       *)
(***************************************************************************)

LEMMA HeldIs ==
  ASSUME TypeOK, HeldOnce
  PROVE  /\ Held \in Seq(Clients) /\ IsInjective(Held) /\ \A c \in Clients : c \in Range(Held) <=> IsHeld(c)
         /\ Range(Held) \subseteq Clients
         /\ live => /\ main \in Clients /\ Held = <<main>> \o extras /\ Len(Held) = Len(extras) + 1 /\ Held[1] = main
                    /\ \A i \in 1 .. Len(extras) : Held[i + 1] = extras[i]
<1>1. extras \in Seq(Clients) /\ IsInjective(extras) /\ main \notin Range(extras) /\ None \notin Clients
      /\ main \in Clients \cup {None} /\ (live <=> main # None) /\ Range(extras) \subseteq Clients
  BY LinksAssumption DEF TypeOK, HeldOnce, Range
<1>2. CASE main = None
  <2>1. Held = extras
    BY <1>2 DEF Held
  <2>2. QED
    BY <1>1, <1>2, <2>1 DEF IsHeld
<1>3. CASE main # None
  <2>1. main \in Clients /\ Held = <<main>> \o extras
    BY <1>1, <1>3 DEF Held
  <2>2. /\ <<main>> \o extras \in Seq(Clients) /\ IsInjective(<<main>> \o extras)
        /\ Range(<<main>> \o extras) = {main} \cup Range(extras)
        /\ Len(<<main>> \o extras) = Len(extras) + 1 /\ (<<main>> \o extras)[1] = main
        /\ \A i \in 1 .. Len(extras) : (<<main>> \o extras)[i + 1] = extras[i]
    BY <1>1, <2>1, ConsNew
  <2>3. \A c : c \in {main} \cup Range(extras) <=> IsHeld(c)
    BY DEF IsHeld
  <2>4. QED
    BY <1>1, <2>1, <2>2, <2>3
<1>4. QED
  BY <1>2, <1>3

LEMMA NoneLostIs == IInv /\ CancelledSafely => NoLeakedLink
<1> SUFFICES ASSUME IInv, CancelledSafely PROVE NoLeakedLink
  OBVIOUS
<1>1. Range(Held) \subseteq Clients /\ \A c \in Clients : c \in Range(Held) <=> IsHeld(c)
  BY HeldIs DEF IInv
<1>2. Opening \subseteq Clients /\ \A c \in Clients : c \in Opening <=> IsOpening(c)
  BY DEF Opening, IsOpening, IInv, TypeOK, Range
<1>3. Joining \subseteq Clients /\ \A c \in Clients : c \in Joining <=> IsJoining(c)
  BY DEF Joining, IsJoining, IInv, JoinsFit
<1>4. \A c \in Clients :
        /\ Alive(c) <=> IsHeld(c) \/ IsOpening(c) \/ IsJoining(c)
        /\ ~ (IsHeld(c) /\ IsOpening(c)) /\ ~ (IsHeld(c) /\ IsJoining(c)) /\ ~ (IsOpening(c) /\ IsJoining(c))
  BY DEF IInv, OwnedOnce, NoneLost
<1>5. {c \in Clients : link[c] \in {"open", "dropped"}} = {c \in Clients : Alive(c)}
  BY DEF Alive
<1>6. QED
  BY <1>1, <1>2, <1>3, <1>4, <1>5 DEF NoLeakedLink

LEMMA ListsAgreeIs == IInv => LinksAreTracked
<1> SUFFICES ASSUME IInv, live PROVE LinksAreTracked
  BY DEF LinksAreTracked
<1> DEFINE used == IF main \in linked THEN Held ELSE extras
<1>1. /\ Range(bearers) = linked /\ Range(extras) \subseteq linked /\ linked \subseteq {main} \cup Range(extras)
      /\ Len(addresses) = Len(extras) + Shift
      /\ main \in linked => addresses[1] = node[main]
      /\ \A i \in 1 .. Len(extras) : addresses[i + Shift] = node[extras[i]]
      /\ IsInjective(addresses) /\ Len(addresses) <= MaxExtra + 1
      /\ bearers # <<>> /\ ~ dead => main \in linked
      /\ addresses \in Seq(Nodes) /\ extras \in Seq(Clients)
  BY DEF IInv, ListsAgree, TypeOK
<1>2. /\ Held \in Seq(Clients) /\ \A c \in Clients : c \in Range(Held) <=> IsHeld(c)
      /\ Len(Held) = Len(extras) + 1 /\ Held[1] = main
      /\ \A i \in 1 .. Len(extras) : Held[i + 1] = extras[i]
      /\ main \in Clients /\ Range(Held) \subseteq Clients
  BY HeldIs DEF IInv
<1>3. CASE main \in linked
  <2>1. Shift = 1 /\ used = Held
    BY <1>3 DEF Shift
  <2>2. \A i \in 1 .. Len(Held) : addresses[i] = node[Held[i]]
    <3>1. SUFFICES ASSUME NEW i \in 1 .. Len(Held) PROVE addresses[i] = node[Held[i]]
      OBVIOUS
    <3>2. CASE i = 1
      BY <1>1, <1>2, <1>3, <3>2
    <3>3. CASE i # 1
      <4>1. i - 1 \in 1 .. Len(extras) /\ (i - 1) + 1 = i
        BY <1>1, <1>2, <3>3
      <4>2. addresses[i] = node[extras[i - 1]]
        BY <1>1, <2>1, <4>1
      <4>3. Held[i] = extras[i - 1]
        BY <1>2, <4>1
      <4>4. QED
        BY <4>2, <4>3, Zenon
    <3>4. QED
      BY <3>2, <3>3
  <2>3. addresses = [i \in 1 .. Len(Held) |-> node[Held[i]]]
    <3>1. addresses = [i \in 1 .. Len(addresses) |-> addresses[i]] /\ Len(addresses) = Len(Held)
      BY <1>1, <1>2, <2>1
    <3>2. QED
      BY <2>2, <3>1
  <2>4. linked = Range(Held)
    <3>1. linked \subseteq Clients
      BY DEF IInv, TypeOK
    <3>2. QED
      BY <1>1, <1>2, <1>3, <3>1 DEF IsHeld
  <2>5. QED
    BY <1>1, <2>1, <2>3, <2>4 DEF LinksAreTracked
<1>4. CASE main \notin linked
  <2>1. Shift = 0 /\ used = extras
    BY <1>4 DEF Shift
  <2>2. addresses = [i \in 1 .. Len(extras) |-> node[extras[i]]]
    <3>1. addresses = [i \in 1 .. Len(addresses) |-> addresses[i]] /\ Len(addresses) = Len(extras)
      BY <1>1, <2>1
    <3>2. \A i \in 1 .. Len(extras) : addresses[i] = node[extras[i]]
      BY <1>1, <2>1
    <3>3. QED
      BY <3>1, <3>2
  <2>3. linked = Range(extras)
    BY <1>1, <1>4
  <2>4. QED
    BY <1>1, <2>1, <2>2, <2>3 DEF LinksAreTracked
<1>5. QED
  BY <1>3, <1>4

----------------------------------------------------------------------------
(***************************************************************************)
(* What a step leaves as it is.                                            *)
(***************************************************************************)

LEMMA InitHolds == Init => IInv
<1> SUFFICES ASSUME Init PROVE IInv
  OBVIOUS
<1>1. <<>> \in Seq(Clients) /\ <<>> \in Seq(Nodes) /\ Range(<<>>) = {} /\ IsInjective(<<>>)
  BY DEF Range, IsInjective
<1>2. TypeOK
  <2>1. Free \in [kind : Kinds, at : Stages, own : Seq(Clients), todo : Seq(Clients),
            good : Seq(Clients), then : {"end", "connect", "gone"}]
    BY <1>1 DEF Free, Kinds, Stages
  <2>2. NoJoin \in [at : JoinStages, client : Clients \cup {None}, stale : BOOLEAN]
    BY DEF NoJoin, JoinStages
  <2>3. forever \in BOOLEAN
    BY LinksAssumption DEF Init
  <2>4. QED
    BY <1>1, <2>1, <2>2, <2>3 DEF Init, TypeOK, LinkStates
<1>3. HolderFits /\ HeldOnce
  BY <1>1 DEF Init, HolderFits, HeldOnce, Free
<1>4. OwnedOnce /\ NoneLost /\ OpenHasNode
  <2>1. \A c \in Clients : ~ Alive(c) /\ ~ IsHeld(c) /\ ~ IsOpening(c) /\ ~ IsJoining(c)
    BY <1>1, LinksAssumption DEF Init, Alive, IsHeld, IsOpening, IsJoining, Free, NoJoin
  <2>2. QED
    BY <2>1 DEF OwnedOnce, NoneLost, OpenHasNode
<1>5. JoinsFit /\ ListsAgree
  BY DEF Init, JoinsFit, ListsAgree, NoJoin
<1>6. QED
  BY <1>2, <1>3, <1>4, <1>5 DEF IInv

\* The lists say the same of the same links.
LEMMA ListsStay ==
  ASSUME IInv, UNCHANGED <<main, extras, addresses, live, bearers>>,
         live => linked' = linked /\ (dead' = dead \/ (dead' = TRUE)),
         \A c \in Clients : IsHeld(c) => node'[c] = node[c]
  PROVE  HeldOnce' /\ ListsAgree'
<1>1. HeldOnce'
  BY DEF IInv, HeldOnce
<1>2. CASE live
  <2>1. main \in Clients /\ extras \in Seq(Clients)
    BY <1>2 DEF IInv, TypeOK
  <2>2. node'[main] = node[main] /\ \A i \in 1 .. Len(extras) : node'[extras[i]] = node[extras[i]]
    <3>1. \A i \in 1 .. Len(extras) : extras[i] \in Clients /\ extras[i] \in Range(extras)
      BY <2>1 DEF Range
    <3>2. QED
      BY <2>1, <3>1 DEF IsHeld
  <2>3. Shift' = Shift /\ linked' = linked
    BY <1>2 DEF Shift
  <2>4. QED
    BY <1>1, <1>2, <2>2, <2>3 DEF IInv, ListsAgree
<1>3. CASE ~ live
  BY <1>1, <1>3 DEF ListsAgree
<1>4. QED
  BY <1>2, <1>3

\* So do the late joins.
LEMMA JoinsStay ==
  ASSUME IInv, UNCHANGED <<addresses, live>>, UNCHANGED joins \/ \A n \in Nodes : joins'[n].at \in {"queued", "adding"} => joins'[n] = joins[n],
         op.at = "add" => op'.at = "add",
         \A c \in Clients : IsJoining(c) => node'[c] = node[c]
  PROVE  JoinsFit'
<1>1. \A n \in Nodes : joins'[n].at \in {"queued", "adding"} => joins'[n] = joins[n]
  OBVIOUS
<1>2. \A n \in Nodes : joins[n].at \in {"queued", "adding"} => joins[n].client \in Clients /\ IsJoining(joins[n].client)
  BY DEF IInv, JoinsFit, IsJoining
<1>3. QED
  BY <1>1, <1>2 DEF IInv, JoinsFit

\* The steps that move no client from one owner to another.
LEMMA NothingMoves ==
  ASSUME IInv, TypeOK', UNCHANGED <<node, main, extras, addresses, linked, live, bearers, op, joins>>,
         dead' = dead \/ dead' = TRUE, \A c \in Clients : Alive(c)' <=> Alive(c)
  PROVE  IInv'
<1>1. HolderFits'
  BY DEF IInv, HolderFits
<1>2. HeldOnce' /\ ListsAgree'
  BY ListsStay
<1>3. JoinsFit'
  BY JoinsStay
<1>4. \A c \in Clients : (IsHeld(c)' <=> IsHeld(c)) /\ (IsOpening(c)' <=> IsOpening(c)) /\ (IsJoining(c)' <=> IsJoining(c))
  BY DEF IsHeld, IsOpening, IsJoining
<1>5. OwnedOnce' /\ NoneLost' /\ OpenHasNode'
  BY <1>4 DEF IInv, OwnedOnce, NoneLost, OpenHasNode
<1>6. QED
  BY <1>1, <1>2, <1>3, <1>5 DEF IInv

LEMMA AsideKeeps ==
  ASSUME IInv, UNCHANGED forever,
         \/ \E c \in Clients : Drop(c) \/ LateSubscribeFails(c)
         \/ SendFailsEverywhere \/ AskStop
  PROVE  IInv'
<1>1. CASE \E c \in Clients : Drop(c)
  <2>1. PICK c \in Clients : Drop(c)
    BY <1>1
  <2>2. /\ link[c] = "open" /\ link' = [link EXCEPT ![c] = "dropped"] /\ reconnects' \in {reconnects, reconnects \cup {c}}
        /\ UNCHANGED <<node, main, extras, addresses, linked, live, bearers, deaf, dead, watched, op, joins, stopping>>
    BY <2>1 DEF Drop, held, fanout
  <2>3. /\ link' \in [Clients -> LinkStates]
        /\ \A d \in Clients : link'[d] = IF d = c THEN "dropped" ELSE link[d]
    BY <2>2 DEF IInv, TypeOK, LinkStates
  <2>4. TypeOK'
    BY <2>2, <2>3 DEF IInv, TypeOK
  <2>5. \A d \in Clients : Alive(d)' <=> Alive(d)
    BY <2>2, <2>3 DEF Alive
  <2>6. QED
    BY <2>2, <2>4, <2>5, NothingMoves
<1>2. CASE \E c \in Clients : LateSubscribeFails(c)
  <2>1. PICK c \in Clients : LateSubscribeFails(c)
    BY <1>2
  <2>2. /\ deaf' = deaf \cup {c}
        /\ UNCHANGED <<link, node, main, extras, addresses, linked, live, bearers, dead, watched, reconnects, op, joins, stopping>>
    BY <2>1 DEF LateSubscribeFails, held
  <2>3. TypeOK'
    BY <2>2 DEF IInv, TypeOK
  <2>4. \A d \in Clients : Alive(d)' <=> Alive(d)
    BY <2>2 DEF Alive
  <2>5. QED
    BY <2>2, <2>3, <2>4, NothingMoves
<1>3. CASE SendFailsEverywhere \/ AskStop
  <2>1. /\ dead' = dead \/ dead' = TRUE
        /\ stopping' = stopping \/ stopping' = "asked"
        /\ UNCHANGED <<link, node, main, extras, addresses, linked, live, bearers, deaf, watched, reconnects, op, joins>>
    BY <1>3 DEF SendFailsEverywhere, AskStop, held, fanout
  <2>2. TypeOK'
    BY <2>1 DEF IInv, TypeOK
  <2>3. \A d \in Clients : Alive(d)' <=> Alive(d)
    BY <2>1 DEF Alive
  <2>4. QED
    BY <2>1, <2>2, <2>3, NothingMoves
<1>4. QED
  BY <1>1, <1>2, <1>3

LEMMA DisconnectDoneKeeps ==
  ASSUME IInv, UNCHANGED forever, NEW c \in Clients, DisconnectDone(c)
  PROVE  IInv'
<1> DEFINE own == RemoveFirst(op.own, c)
<1>1. /\ link[c] = "closing" /\ link' = [link EXCEPT ![c] = "unused"] /\ node' = [node EXCEPT ![c] = None]
      /\ deaf' = deaf \ {c} /\ watched' = watched \ {c} /\ op' = [op EXCEPT !.own = own]
      /\ UNCHANGED <<main, extras, addresses, linked, live, bearers, dead, reconnects, joins, stopping>>
  BY DEF DisconnectDone, held
<1>2. /\ own \in Seq(Clients) /\ IsInjective(own)
      /\ c \notin Range(op.own) => own = op.own
  <2>1. op.own \in Seq(Clients) /\ IsInjective(op.own)
    BY DEF IInv, TypeOK, HolderFits
  <2>2. QED
    BY <2>1, RemoveFirstProperties
<1> HIDE DEF own
<1>3. /\ op'.kind = op.kind /\ op'.at = op.at /\ op'.own = own /\ op'.todo = op.todo /\ op'.good = op.good
      /\ op'.then = op.then
      /\ op' \in [kind : Kinds, at : Stages, own : Seq(Clients), todo : Seq(Clients),
            good : Seq(Clients), then : {"end", "connect", "gone"}]
  BY <1>1, <1>2 DEF IInv, TypeOK
<1>4. /\ link' \in [Clients -> LinkStates] /\ node' \in [Clients -> Nodes \cup {None}]
      /\ \A d \in Clients : d # c => link'[d] = link[d] /\ node'[d] = node[d]
      /\ link'[c] = "unused"
  BY <1>1 DEF IInv, TypeOK, LinkStates
<1>5. TypeOK'
  BY <1>1, <1>3, <1>4 DEF IInv, TypeOK
<1>6. ~ IsHeld(c) /\ ~ IsOpening(c) /\ ~ IsJoining(c) /\ ~ Alive(c)
  BY <1>1 DEF IInv, OwnedOnce, Alive
<1>7. op.at \in {"extras", "start"} => own = op.own /\ c \notin Range(op.own)
  BY <1>2, <1>6 DEF IsOpening
<1>8. HolderFits'
  <2>1. op.at \in {"extras", "start"} => \A d \in Range(op.own) : d \in Clients /\ node'[d] = node[d]
    BY <1>4, <1>7 DEF IInv, TypeOK, Range
  <2>2. QED
    BY <1>1, <1>2, <1>3, <1>7, <2>1 DEF IInv, HolderFits
<1>9. \A d \in Clients : IsHeld(d) \/ IsJoining(d) => node'[d] = node[d]
  BY <1>4, <1>6
<1>10. HeldOnce' /\ ListsAgree'
  BY <1>1, <1>9, ListsStay
<1>11. JoinsFit'
  BY <1>1, <1>3, <1>9, JoinsStay
<1>12. \A d \in Clients : /\ IsHeld(d)' <=> IsHeld(d)
                          /\ IsOpening(d)' <=> IsOpening(d)
                          /\ IsJoining(d)' <=> IsJoining(d)
                          /\ Alive(d)' <=> Alive(d)
                          /\ Alive(d) => node'[d] = node[d]
  BY <1>1, <1>3, <1>4, <1>6, <1>7 DEF IsHeld, IsOpening, IsJoining, Alive
<1>13. OwnedOnce' /\ NoneLost' /\ OpenHasNode'
  BY <1>12 DEF IInv, OwnedOnce, NoneLost, OpenHasNode
<1>14. QED
  BY <1>5, <1>8, <1>10, <1>11, <1>13 DEF IInv

\* A link that the fan-out gives up leaves the lists together with its address.
LEMMA DroppedListsAgree ==
  ASSUME IInv, live, ~ dead, NEW c \in Range(bearers), LinkDropped(c), live' = live,
         bearers' = RemoveFirst(bearers, c), dead' = (bearers' = <<>>), node' = node
  PROVE  /\ HeldOnce' /\ ListsAgree' /\ c \in Clients
         /\ main' \in Clients /\ extras' \in Seq(Clients) /\ addresses' \in Seq(Nodes) /\ bearers' \in Seq(Clients)
         /\ Range(addresses') \subseteq Range(addresses) /\ Len(addresses') <= Len(addresses)
         /\ \/ UNCHANGED <<main, extras, link>>
            \/ /\ link' = Closing({c}) /\ \A d : d = main' \/ d \in Range(extras') <=> IsHeld(d) /\ d # c
<1>1. /\ bearers \in Seq(Clients) /\ IsInjective(bearers) /\ extras \in Seq(Clients) /\ IsInjective(extras)
      /\ main \in Clients /\ main \notin Range(extras) /\ addresses \in Seq(Nodes) /\ IsInjective(addresses)
      /\ linked \subseteq Clients
  BY DEF IInv, TypeOK, HeldOnce, ListsAgree
<1>2. bearers # <<>>
  BY <1>1 DEF Range
<1>3. /\ Range(bearers) = linked /\ Range(extras) \subseteq linked /\ linked \subseteq {main} \cup Range(extras)
      /\ main \in linked /\ Shift = 1 /\ c \in linked /\ c \in Clients
      /\ Len(addresses) = Len(extras) + 1 /\ addresses[1] = node[main]
      /\ \A i \in 1 .. Len(extras) : addresses[i + 1] = node[extras[i]]
      /\ Len(addresses) <= MaxExtra + 1 /\ Len(extras) \in Nat
  BY <1>1, <1>2 DEF IInv, ListsAgree, Shift
<1>4. /\ bearers' \in Seq(Clients) /\ IsInjective(bearers') /\ Range(bearers') = linked'
      /\ linked' = linked \ {c}
  BY <1>1, <1>3, RemoveFirstProperties DEF LinkDropped
<1>5. ASSUME NEW k \in 1 .. Len(addresses), addresses[k] = node[c]
      PROVE  /\ addresses' \in Seq(Nodes) /\ IsInjective(addresses') /\ Range(addresses') \subseteq Range(addresses)
             /\ Len(addresses') = Len(addresses) - 1 /\ Len(addresses') <= Len(addresses)
             /\ \A i \in 1 .. Len(addresses) - 1 : addresses'[i] = IF i < k THEN addresses[i] ELSE addresses[i + 1]
  <2>1. addresses' = RemoveFirst(addresses, node[c])
    BY DEF LinkDropped
  <2>2. node[c] \in Range(addresses)
    BY <1>1, <1>5 DEF Range
  <2>3. /\ addresses' \in Seq(Nodes) /\ IsInjective(addresses') /\ Range(addresses') = Range(addresses) \ {node[c]}
        /\ Len(addresses') = Len(addresses) - 1
    BY <1>1, <2>1, <2>2, RemoveFirstProperties
  <2>4. \A i \in 1 .. Len(addresses) - 1 :
          RemoveFirst(addresses, addresses[k])[i] = IF i < k THEN addresses[i] ELSE addresses[i + 1]
    BY <1>1, RemoveFirstAt
  <2>5. addresses' = RemoveFirst(addresses, addresses[k])
    BY <1>5, <2>1
  <2>6. Len(addresses') <= Len(addresses)
    BY <1>1, <2>3
  <2>7. QED
    BY <2>3, <2>4, <2>5, <2>6
<1>6. CASE c = main /\ extras = <<>> /\ UNCHANGED <<main, extras, link>>
  <2>1. Range(bearers') = {} /\ main' \notin linked' /\ linked' = {} /\ Range(extras) = {} /\ Len(extras) = 0
    <3>1. Range(<<>>) = {} /\ Len(<<>>) = 0
      BY DEF Range
    <3>2. Range(extras) = {} /\ Len(extras) = 0
      BY <3>1, <1>6
    <3>3. linked' = {}
      BY <3>2, <1>3, <1>4, <1>6
    <3>4. QED
      BY <3>2, <3>3, <1>4
  <2>2. bearers' = <<>>
    BY <1>4, <2>1 DEF Range
  <2>3. 1 \in 1 .. Len(addresses) /\ addresses[1] = node[c]
    BY <1>3, <1>6
  <2>4. /\ addresses' \in Seq(Nodes) /\ IsInjective(addresses') /\ Range(addresses') \subseteq Range(addresses)
        /\ Len(addresses') = 0 /\ Len(addresses') <= Len(addresses)
    BY <1>3, <1>5, <2>1, <2>3
  <2>5. Shift' = 0
    BY <2>1 DEF Shift
  <2>6. ListsAgree'
    <3>1. \A i \in 1 .. Len(extras') : FALSE
      BY <1>6, <2>1
    <3>2. Len(addresses') = Len(extras') + Shift' /\ Len(addresses') <= MaxExtra + 1
      BY <1>6, <2>1, <2>4, <2>5, LinksAssumption
    <3>3. dead'
      BY <2>2
    <3>4. QED
      BY <1>4, <1>6, <2>1, <2>2, <2>4, <3>1, <3>2, <3>3 DEF ListsAgree
  <2>7. HeldOnce'
    BY <1>1, <1>4, <1>6 DEF HeldOnce, IInv
  <2>8. QED
    BY <1>1, <1>3, <1>4, <1>6, <2>4, <2>6, <2>7
<1>7. CASE c = main /\ extras # <<>> /\ main' = Head(extras) /\ extras' = Tail(extras) /\ link' = Closing({c})
  <2>1. /\ main' = extras[1] /\ main' \in Clients /\ main' \in Range(extras)
        /\ extras' \in Seq(Clients) /\ IsInjective(extras') /\ Range(extras') = Range(extras) \ {main'}
        /\ Len(extras) > 0 /\ Len(extras') = Len(extras) - 1
        /\ \A i \in 1 .. Len(extras) - 1 : extras'[i] = extras[i + 1]
    BY <1>1, <1>7, TailOfInjective
  <2>2. 1 \in 1 .. Len(addresses) /\ addresses[1] = node[c]
    BY <1>3, <1>7
  <2>3. /\ addresses' \in Seq(Nodes) /\ IsInjective(addresses') /\ Range(addresses') \subseteq Range(addresses)
        /\ Len(addresses') = Len(addresses) - 1 /\ Len(addresses') <= Len(addresses)
        /\ \A i \in 1 .. Len(addresses) - 1 : addresses'[i] = IF i < 1 THEN addresses[i] ELSE addresses[i + 1]
    BY <1>5, <2>2
  <2>4. \A i \in 1 .. Len(extras) : addresses'[i] = node[extras[i]]
    BY <1>3, <2>3
  <2>5. Shift' = 1 /\ main' \in linked' /\ main' # c
    BY <1>1, <1>3, <1>4, <1>7, <2>1 DEF Shift
  <2>6. \A i \in 1 .. Len(extras') : addresses'[i + 1] = node[extras'[i]]
    BY <1>3, <2>1, <2>4
  <2>7. addresses'[1] = node[main']
    BY <1>3, <2>1, <2>4
  <2>8. ListsAgree'
    <3>1. Range(extras') \subseteq linked' /\ linked' \subseteq {main'} \cup Range(extras')
      BY <1>1, <1>3, <1>4, <1>7, <2>1
    <3>2. bearers' # <<>>
      BY <1>4, <2>5 DEF Range
    <3>3. Len(addresses') = Len(extras') + 1 /\ Len(addresses') <= MaxExtra + 1
      BY <1>1, <1>3, <2>1, <2>3, LinksAssumption
    <3>4. QED
      BY <1>4, <2>3, <2>5, <2>6, <2>7, <3>1, <3>2, <3>3 DEF ListsAgree
  <2>9. HeldOnce'
    BY <1>4, <2>1 DEF HeldOnce
  <2>10. \A d : d = main' \/ d \in Range(extras') <=> IsHeld(d) /\ d # c
    BY <1>1, <1>7, <2>1 DEF IsHeld
  <2>11. QED
    BY <1>3, <1>4, <1>7, <2>1, <2>3, <2>8, <2>9, <2>10
<1>8. CASE c # main /\ extras' = RemoveFirst(extras, c) /\ link' = Closing({c}) /\ UNCHANGED main
  <2>1. c \in Range(extras)
    BY <1>3, <1>8
  <2>2. PICK j \in 1 .. Len(extras) : extras[j] = c
    BY <1>1, <2>1 DEF Range
  <2>3. /\ extras' \in Seq(Clients) /\ IsInjective(extras') /\ Range(extras') = Range(extras) \ {c}
        /\ Len(extras') = Len(extras) - 1
        /\ \A i \in 1 .. Len(extras) - 1 : extras'[i] = IF i < j THEN extras[i] ELSE extras[i + 1]
    BY <1>1, <1>8, <2>1, <2>2, RemoveFirstProperties, RemoveFirstAt
  <2>4. j + 1 \in 1 .. Len(addresses) /\ addresses[j + 1] = node[c]
    BY <1>3, <2>2
  <2>5. /\ addresses' \in Seq(Nodes) /\ IsInjective(addresses') /\ Range(addresses') \subseteq Range(addresses)
        /\ Len(addresses') = Len(addresses) - 1 /\ Len(addresses') <= Len(addresses)
        /\ \A i \in 1 .. Len(addresses) - 1 : addresses'[i] = IF i < j + 1 THEN addresses[i] ELSE addresses[i + 1]
    BY <1>5, <2>4
  <2>6. addresses'[1] = node[main]
    BY <1>3, <2>2, <2>5
  <2>7. \A i \in 1 .. Len(extras) - 1 : addresses'[i + 1] = node[extras'[i]]
    <3>1. SUFFICES ASSUME NEW i \in 1 .. Len(extras) - 1 PROVE addresses'[i + 1] = node[extras'[i]]
      OBVIOUS
    <3>2. i + 1 \in 1 .. Len(addresses) - 1 /\ i \in 1 .. Len(extras) /\ i + 1 \in 1 .. Len(extras)
      BY <1>3
    <3>3. CASE i < j
      <4>1. addresses'[i + 1] = addresses[i + 1] /\ extras'[i] = extras[i]
        BY <2>3, <2>5, <3>2, <3>3
      <4>2. QED
        BY <1>3, <3>2, <4>1
    <3>4. CASE i >= j
      <4>1. addresses'[i + 1] = addresses[(i + 1) + 1] /\ extras'[i] = extras[i + 1]
        BY <2>3, <2>5, <3>2, <3>4
      <4>2. QED
        BY <1>3, <3>2, <4>1
    <3>5. QED
      BY <3>3, <3>4
  <2>8. Shift' = 1 /\ main \in linked'
    BY <1>3, <1>4, <1>8 DEF Shift
  <2>9. ListsAgree'
    <3>1. Range(extras') \subseteq linked' /\ linked' \subseteq {main} \cup Range(extras')
      BY <1>3, <1>4, <2>3
    <3>2. bearers' # <<>>
      BY <1>4, <2>8 DEF Range
    <3>3. Len(addresses') = Len(extras') + 1 /\ Len(addresses') <= MaxExtra + 1 /\ Len(extras') = Len(extras) - 1
      BY <1>1, <1>3, <2>3, <2>5, LinksAssumption
    <3>4. QED
      BY <1>4, <1>8, <2>5, <2>6, <2>7, <2>8, <3>1, <3>2, <3>3 DEF ListsAgree
  <2>10. HeldOnce'
    BY <1>1, <1>4, <1>8, <2>3 DEF HeldOnce
  <2>11. \A d : d = main' \/ d \in Range(extras') <=> IsHeld(d) /\ d # c
    BY <1>8, <2>3 DEF IsHeld
  <2>12. QED
    BY <1>1, <1>3, <1>4, <1>8, <2>3, <2>5, <2>9, <2>10, <2>11
<1>9. QED
  BY <1>6, <1>7, <1>8 DEF LinkDropped

\* A step that leaves the lists and the nodes alone, and takes clients only from
\* the holder of the lock.
LEMMA HandsKeep ==
  ASSUME IInv, TypeOK', HolderFits', UNCHANGED <<node, main, extras, addresses, live, bearers>>,
         live => linked' = linked, dead' = dead \/ dead' = TRUE,
         \A n \in Nodes : joins'[n].at \in {"queued", "adding"} <=> joins[n].at \in {"queued", "adding"},
         \A n \in Nodes : joins'[n].at \in {"queued", "adding"} => joins'[n] = joins[n],
         op.at = "add" => op'.at = "add",
         \A c \in Clients : Alive(c)' => Alive(c),
         \A c \in Clients : IsOpening(c)' => IsOpening(c),
         \A c \in Clients : IsHeld(c) \/ IsOpening(c)' \/ IsJoining(c) => Alive(c)',
         CancelledSafely => \A c \in Clients : Alive(c)' /\ IsOpening(c) => IsOpening(c)'
  PROVE  IInv'
<1>1. HeldOnce' /\ ListsAgree'
  BY ListsStay
<1>2. JoinsFit'
  BY JoinsStay
<1>3. \A c : IsHeld(c)' <=> IsHeld(c)
  BY DEF IsHeld
<1>4. \A c : IsJoining(c)' <=> IsJoining(c)
  BY DEF IsJoining
<1>5. OwnedOnce' /\ NoneLost' /\ OpenHasNode'
  <2>1. OwnedOnce'
    BY <1>3, <1>4 DEF IInv, OwnedOnce
  <2>2. NoneLost'
    BY <1>3, <1>4 DEF IInv, NoneLost, CancelledSafely
  <2>3. OpenHasNode'
    BY DEF IInv, OpenHasNode
  <2>4. QED
    BY <2>1, <2>2, <2>3
<1>6. QED
  BY <1>1, <1>2, <1>5 DEF IInv

LEMMA SendDropsOneKeeps ==
  ASSUME IInv, UNCHANGED forever, NEW c \in Clients, SendDropsOne(c)
  PROVE  IInv'
<1>1. /\ live /\ ~ dead /\ c \in Range(bearers) /\ LinkDropped(c) /\ bearers' = RemoveFirst(bearers, c)
      /\ dead' = (bearers' = <<>>) /\ linked' = linked \ {c}
      /\ UNCHANGED <<node, live, deaf, watched, reconnects, op, joins, stopping>>
  BY DEF SendDropsOne, LinkDropped
<1>2. /\ HeldOnce' /\ ListsAgree'
      /\ main' \in Clients /\ extras' \in Seq(Clients) /\ addresses' \in Seq(Nodes) /\ bearers' \in Seq(Clients)
      /\ Range(addresses') \subseteq Range(addresses) /\ Len(addresses') <= Len(addresses)
      /\ \/ UNCHANGED <<main, extras, link>>
         \/ /\ link' = Closing({c}) /\ \A d : d = main' \/ d \in Range(extras') <=> IsHeld(d) /\ d # c
  BY <1>1, DroppedListsAgree
<1>3. link' \in [Clients -> LinkStates] /\ \A d \in Clients : d # c => link'[d] = link[d]
  BY <1>2 DEF Closing, IInv, TypeOK, LinkStates
<1>4. TypeOK'
  <2>1. main' # None
    BY <1>2, LinksAssumption
  <2>2. dead' \in BOOLEAN
    BY <1>1
  <2>3. QED
    BY <1>1, <1>2, <1>3, <2>1, <2>2 DEF IInv, TypeOK
<1>5. HolderFits'
  BY <1>1 DEF IInv, HolderFits
<1>6. IsHeld(c)
  BY <1>1 DEF IInv, ListsAgree, IsHeld
<1>7. \A d \in Clients : (IsOpening(d)' <=> IsOpening(d)) /\ (IsJoining(d)' <=> IsJoining(d))
  BY <1>1 DEF IsOpening, IsJoining
<1>8. OwnedOnce' /\ NoneLost' /\ OpenHasNode'
  <2>1. CASE UNCHANGED <<main, extras, link>>
    <3>1. \A d \in Clients : (IsHeld(d)' <=> IsHeld(d)) /\ (Alive(d)' <=> Alive(d))
      BY <2>1 DEF IsHeld, Alive
    <3>2. QED
      BY <1>1, <1>7, <3>1 DEF IInv, OwnedOnce, NoneLost, OpenHasNode, CancelledSafely
  <2>2. CASE /\ link' = Closing({c}) /\ \A d : d = main' \/ d \in Range(extras') <=> IsHeld(d) /\ d # c
    <3>1. \A d \in Clients : (IsHeld(d)' <=> IsHeld(d) /\ d # c) /\ (Alive(d)' <=> Alive(d) /\ d # c)
      BY <2>2 DEF IsHeld, Alive, Closing
    <3>2. ~ IsOpening(c) /\ ~ IsJoining(c)
      BY <1>6 DEF IInv, OwnedOnce
    <3>3. OwnedOnce'
      BY <1>7, <3>1, <3>2 DEF IInv, OwnedOnce
    <3>4. NoneLost'
      BY <1>7, <3>1, <3>2 DEF IInv, NoneLost, CancelledSafely
    <3>5. OpenHasNode'
      BY <1>1, <3>1 DEF IInv, OpenHasNode
    <3>6. QED
      BY <3>3, <3>4, <3>5
  <2>3. QED
    BY <1>2, <2>1, <2>2
<1>9. JoinsFit'
  <2>1. Len(addresses) \in Nat /\ Len(addresses') \in Nat /\ MaxExtra \in Nat
    BY <1>2, LinksAssumption DEF IInv, TypeOK
  <2>2. QED
    BY <1>1, <1>2, <2>1 DEF IInv, JoinsFit
<1>10. QED
  BY <1>2, <1>4, <1>5, <1>8, <1>9 DEF IInv

----------------------------------------------------------------------------
(***************************************************************************)
(* Teardown, and what the tasks do that take the lock.                     *)
(***************************************************************************)

LEMMA TearDownKeeps ==
  ASSUME IInv, UNCHANGED forever, NEW kind \in Kinds \ {"free"}, NEW then \in {"end", "connect", "gone"},
         TearDown(kind, then), op.at \in {"none", "call"},
         reconnects' \subseteq reconnects, stopping' = stopping
  PROVE  IInv'
<1>1. /\ op' = [kind |-> kind, at |-> "close", own |-> Held, todo |-> <<>>, good |-> <<>>, then |-> then]
      /\ link' = Closing(Range(Held))
      /\ main' = None /\ extras' = <<>> /\ linked' = {} /\ live' = FALSE /\ bearers' = <<>> /\ dead' = FALSE
      /\ joins' = [n \in Nodes |-> [joins[n] EXCEPT !.stale = @ \/ joins[n].at # "none"]]
      /\ UNCHANGED <<node, addresses, deaf, watched>>
  BY DEF TearDown, Free
<1>2. Held \in Seq(Clients) /\ IsInjective(Held) /\ \A c \in Clients : c \in Range(Held) <=> IsHeld(c)
  BY HeldIs DEF IInv
<1>3. <<>> \in Seq(Clients) /\ Range(<<>>) = {} /\ IsInjective(<<>>)
  BY DEF Range, IsInjective
<1>4. /\ joins' \in [Nodes -> [at : JoinStages, client : Clients \cup {None}, stale : BOOLEAN]]
      /\ \A n \in Nodes : joins'[n].at = joins[n].at /\ joins'[n].client = joins[n].client
  BY <1>1 DEF IInv, TypeOK
<1>5. TypeOK'
  <2>1. link' \in [Clients -> LinkStates]
    BY <1>1 DEF Closing, IInv, TypeOK, LinkStates
  <2>2. op' \in [kind : Kinds, at : Stages, own : Seq(Clients), todo : Seq(Clients),
            good : Seq(Clients), then : {"end", "connect", "gone"}]
    BY <1>1, <1>2, <1>3 DEF Stages
  <2>3. QED
    BY <1>1, <1>3, <1>4, <2>1, <2>2 DEF IInv, TypeOK
<1>6. HolderFits' /\ HeldOnce' /\ ListsAgree'
  BY <1>1, <1>2, <1>3 DEF HolderFits, HeldOnce, ListsAgree
<1>7. \A c \in Clients :
        /\ ~ IsHeld(c)' /\ ~ IsOpening(c)' /\ ~ IsOpening(c) /\ (IsJoining(c)' <=> IsJoining(c))
        /\ Alive(c)' <=> Alive(c) /\ ~ IsHeld(c)
  <2>1. \A c \in Clients : ~ IsHeld(c)'
    BY <1>1, <1>3, LinksAssumption DEF IsHeld
  <2>2. \A c \in Clients : ~ IsOpening(c)' /\ ~ IsOpening(c)
    BY <1>1 DEF IsOpening
  <2>3. \A c \in Clients : IsJoining(c)' <=> IsJoining(c)
    BY <1>4 DEF IsJoining
  <2>4. \A c \in Clients : Alive(c)' <=> Alive(c) /\ ~ IsHeld(c)
    BY <1>1, <1>2 DEF Alive, Closing
  <2>5. QED
    BY <2>1, <2>2, <2>3, <2>4
<1>8. OwnedOnce' /\ NoneLost' /\ OpenHasNode'
  BY <1>1, <1>7 DEF IInv, OwnedOnce, NoneLost, OpenHasNode, CancelledSafely
<1>9. JoinsFit'
  BY <1>1, <1>4 DEF IInv, JoinsFit
<1>10. QED
  BY <1>5, <1>6, <1>8, <1>9 DEF IInv

\* The holder goes to a stage where it has no client in its hands.
LEMMA HolderMoves ==
  ASSUME IInv, UNCHANGED forever, UNCHANGED <<link, node, held, fanout, watched, joins>>,
         NEW kind \in Kinds, NEW at \in {"none", "connect", "call"},
         op' = [kind |-> kind, at |-> at, own |-> <<>>, todo |-> <<>>, good |-> <<>>, then |-> "end"],
         kind = "free" => at = "none", at = "connect" => ~ live,
         op.at # "add", CancelledSafely => op.at \notin {"extras", "start"},
         reconnects' \subseteq reconnects, stopping' = stopping
  PROVE  IInv'
<1>1. UNCHANGED <<main, extras, addresses, linked, live, bearers, deaf, dead>>
  BY DEF held, fanout
<1>2. <<>> \in Seq(Clients) /\ IsInjective(<<>>)
  BY DEF IsInjective
<1>3. TypeOK'
  <2>1. op' \in [kind : Kinds, at : Stages, own : Seq(Clients), todo : Seq(Clients),
            good : Seq(Clients), then : {"end", "connect", "gone"}]
    BY <1>2 DEF Stages
  <2>2. QED
    BY <1>1, <2>1 DEF IInv, TypeOK
<1>4. HolderFits'
  BY <1>1, <1>2 DEF HolderFits
<1>5. \A c \in Clients : ~ IsOpening(c)' /\ (CancelledSafely => ~ IsOpening(c)) /\ (Alive(c)' <=> Alive(c))
  BY DEF IsOpening, Alive
<1>6. \A c \in Clients : IsHeld(c) \/ IsJoining(c) => Alive(c)
  BY DEF IInv, OwnedOnce
<1>7. QED
  BY <1>1, <1>3, <1>4, <1>5, <1>6, HandsKeep

LEMMA EnterKeeps ==
  ASSUME IInv, UNCHANGED forever, NEW kind \in {"command", "probe"}, NEW usable \in {"none", "call"},
         LockFree, Enter(kind, usable), UNCHANGED <<reconnects, stopping>>
  PROVE  IInv'
<1>1. op.at = "none" /\ kind \in Kinds \ {"free"}
  BY DEF LockFree, IInv, HolderFits, Kinds
<1>2. CASE live /\ Usable /\ op' = [Free EXCEPT !.kind = kind, !.at = usable]
           /\ UNCHANGED <<link, node, held, fanout, watched, joins>>
  <2>1. op' = [kind |-> kind, at |-> usable, own |-> <<>>, todo |-> <<>>, good |-> <<>>, then |-> "end"]
    BY <1>2 DEF Free
  <2>2. QED
    BY <1>1, <1>2, <2>1, HolderMoves
<1>3. CASE TearDown(kind, "connect")
  BY <1>1, <1>3, TearDownKeeps
<1>4. CASE ~ live /\ op' = [Free EXCEPT !.kind = kind, !.at = "connect"]
           /\ UNCHANGED <<link, node, held, fanout, watched, joins>>
  <2>1. op' = [kind |-> kind, at |-> "connect", own |-> <<>>, todo |-> <<>>, good |-> <<>>, then |-> "end"]
    BY <1>4 DEF Free
  <2>2. QED
    BY <1>1, <1>4, <2>1, HolderMoves
<1>5. QED
  BY <1>2, <1>3, <1>4 DEF Enter

LEMMA LockTaken ==
  ASSUME IInv, UNCHANGED forever,
         \/ CommandBegin \/ ProbeBegin \/ IdleTimeout \/ StopBegin \/ CommandEnds \/ ProbeEnds
         \/ ConnectFails \/ Cancelled
         \/ \E c \in Clients : ReconnectBegin(c)
  PROVE  IInv'
<1>1. LockFree => op.at = "none"
  BY DEF LockFree, IInv, HolderFits
<1>2. {"idle", "stop", "reconnect", "command", "probe"} \subseteq Kinds \ {"free"} /\ "free" \in Kinds
  BY DEF Kinds
<1>3. Free = [kind |-> "free", at |-> "none", own |-> <<>>, todo |-> <<>>, good |-> <<>>, then |-> "end"]
  BY DEF Free
<1>4. CASE CommandBegin
  BY <1>4, EnterKeeps DEF CommandBegin
<1>5. CASE ProbeBegin
  BY <1>5, EnterKeeps DEF ProbeBegin
<1>6. CASE IdleTimeout
  BY <1>1, <1>2, <1>6, TearDownKeeps DEF IdleTimeout
<1>7. CASE StopBegin
  BY <1>1, <1>2, <1>7, TearDownKeeps DEF StopBegin
<1>8. CASE ProbeEnds
  BY <1>2, <1>8, TearDownKeeps DEF ProbeEnds
<1>9. CASE CommandEnds
  <2>1. CASE TearDown("command", "end")
    BY <1>2, <1>9, <2>1, TearDownKeeps DEF CommandEnds
  <2>2. CASE op' = Free /\ UNCHANGED <<link, node, held, fanout, watched, joins>>
    BY <1>2, <1>3, <1>9, <2>2, HolderMoves DEF CommandEnds
  <2>3. QED
    BY <1>9, <2>1, <2>2 DEF CommandEnds
<1>10. CASE ConnectFails
  BY <1>2, <1>3, <1>10, HolderMoves DEF ConnectFails
<1>11. CASE Cancelled
  <2>1. op.at # "add" /\ (CancelledSafely => op.at \notin {"extras", "start"})
    BY <1>11, LinksAssumption DEF Cancelled, CancelledSafely
  <2>2. QED
    BY <1>2, <1>3, <1>11, <2>1, HolderMoves DEF Cancelled
<1>12. CASE \E c \in Clients : ReconnectBegin(c)
  <2>1. PICK c \in Clients : ReconnectBegin(c)
    BY <1>12
  <2>2. reconnects' \subseteq reconnects /\ stopping' = stopping /\ op.at = "none"
    BY <1>1, <2>1 DEF ReconnectBegin
  <2>3. CASE TearDown("reconnect", "connect")
    BY <1>2, <2>2, <2>3, TearDownKeeps
  <2>4. CASE UNCHANGED <<link, node, held, fanout, watched, op, joins>>
    <3>1. /\ UNCHANGED <<link, node, main, extras, addresses, linked, live, bearers, deaf, dead, watched, op, joins>>
      BY <2>4 DEF held, fanout
    <3>2. TypeOK'
      BY <2>2, <3>1 DEF IInv, TypeOK
    <3>3. \A d \in Clients : Alive(d)' <=> Alive(d)
      BY <3>1 DEF Alive
    <3>4. QED
      BY <3>1, <3>2, <3>3, NothingMoves
  <2>5. QED
    BY <2>1, <2>3, <2>4 DEF ReconnectBegin
<1>13. QED
  BY <1>4, <1>5, <1>6, <1>7, <1>8, <1>9, <1>10, <1>11, <1>12

----------------------------------------------------------------------------
(***************************************************************************)
(* Connecting: what the holder of the lock has in its hands.               *)
(***************************************************************************)

LEMMA CloseEndsKeeps ==
  ASSUME IInv, UNCHANGED forever, CloseEnds
  PROVE  IInv'
<1>1. /\ op.at = "close" /\ op.own = <<>>
      /\ op' = IF op.then = "connect" /\ ~ (op.kind = "reconnect" /\ Stopped)
               THEN [op EXCEPT !.at = "connect", !.then = "end"] ELSE Free
      /\ stopping' = IF op.then = "gone" THEN "gone" ELSE stopping
      /\ joins' = [n \in Nodes |-> IF joins[n].at = "closing" THEN NoJoin ELSE joins[n]]
      /\ UNCHANGED <<link, node, main, extras, addresses, linked, live, bearers, deaf, dead, watched, reconnects>>
  BY DEF CloseEnds, held, fanout
<1>2. <<>> \in Seq(Clients) /\ IsInjective(<<>>)
  BY DEF IsInjective
<1>3. /\ joins' \in [Nodes -> [at : JoinStages, client : Clients \cup {None}, stale : BOOLEAN]]
      /\ \A n \in Nodes : joins'[n].at \in {"queued", "adding"} <=> joins[n].at \in {"queued", "adding"}
      /\ \A n \in Nodes : joins'[n].at \in {"queued", "adding"} => joins'[n] = joins[n]
  <2>1. NoJoin \in [at : JoinStages, client : Clients \cup {None}, stale : BOOLEAN] /\ NoJoin.at = "none"
    BY DEF NoJoin, JoinStages
  <2>2. QED
    BY <1>1, <2>1 DEF IInv, TypeOK
<1>4. op' \in [kind : Kinds, at : Stages, own : Seq(Clients), todo : Seq(Clients),
            good : Seq(Clients), then : {"end", "connect", "gone"}]
  BY <1>1, <1>2 DEF IInv, TypeOK, Free, Kinds, Stages
<1>5. stopping' \in {"no", "asked", "gone"}
  BY <1>1 DEF IInv, TypeOK
<1>6. TypeOK'
  BY <1>1, <1>3, <1>4, <1>5 DEF IInv, TypeOK
<1>7. HolderFits' /\ op'.at \in {"none", "connect"}
  <2>1. CASE op' = Free
    BY <1>2, <2>1 DEF Free, HolderFits
  <2>2. CASE op.then = "connect" /\ op' = [op EXCEPT !.at = "connect", !.then = "end"]
    <3>1. op'.at = "connect" /\ op'.then = "end" /\ op'.own = op.own /\ op'.kind = op.kind /\ op'.good = op.good
      BY <2>2 DEF IInv, TypeOK
    <3>2. ~ live /\ op.kind # "free" /\ op.good = <<>>
      BY <1>1, <2>2 DEF IInv, HolderFits
    <3>3. QED
      BY <1>1, <1>2, <3>1, <3>2 DEF HolderFits
  <2>3. QED
    BY <1>1, <2>1, <2>2
<1>8. \A c \in Clients : ~ IsOpening(c)' /\ ~ IsOpening(c) /\ (Alive(c)' <=> Alive(c))
  BY <1>1, <1>7 DEF IsOpening, Alive
<1>9. \A c \in Clients : IsHeld(c) \/ IsJoining(c) => Alive(c)
  BY DEF IInv, OwnedOnce
<1>10. QED
  BY <1>1, <1>3, <1>6, <1>7, <1>8, <1>9, HandsKeep

\* What Open does: one client that was nobody's is linked to a node.
LEMMA OpenFacts ==
  ASSUME IInv, NEW c \in Clients, NEW n \in Nodes, Open(c, n)
  PROVE  /\ ~ Alive(c) /\ ~ IsHeld(c) /\ ~ IsOpening(c) /\ ~ IsJoining(c)
         /\ link' \in [Clients -> LinkStates] /\ node' \in [Clients -> Nodes \cup {None}]
         /\ Alive(c)' /\ node'[c] = n
         /\ \A d \in Clients : d # c => (Alive(d)' <=> Alive(d)) /\ node'[d] = node[d]
<1>1. c \in Unused /\ link' = [link EXCEPT ![c] = "open"] /\ node' = [node EXCEPT ![c] = n]
  <2>1. Unused # {} /\ c = CHOOSE d \in Unused : TRUE
    BY DEF Open
  <2>2. \E d \in Unused : TRUE
    BY <2>1
  <2>3. c \in Unused
    BY <2>1, <2>2
  <2>4. QED
    BY <2>3 DEF Open
<1>2. link[c] = "unused"
  BY <1>1 DEF Unused
<1>3. QED
  BY <1>1, <1>2 DEF IInv, TypeOK, OwnedOnce, Alive, LinkStates

LEMMA ConnectKeeps ==
  ASSUME IInv, UNCHANGED forever, ConnectMain \/ ConnectExtra
  PROVE  IInv'
<1>1. PICK c \in Clients, n \in Nodes :
        /\ Open(c, n)
        /\ \/ op.at = "connect" /\ op' = [op EXCEPT !.at = "extras", !.own = <<c>>]
           \/ /\ op.at = "extras" /\ Len(op.own) <= MaxExtra /\ \A d \in Range(op.own) : node[d] # n
              /\ op' = [op EXCEPT !.own = Append(@, c)]
        /\ UNCHANGED <<main, extras, addresses, linked, live, bearers, deaf, dead, watched, reconnects, joins, stopping>>
  BY DEF ConnectMain, ConnectExtra, held, fanout
<1>2. /\ ~ Alive(c) /\ ~ IsHeld(c) /\ ~ IsOpening(c) /\ ~ IsJoining(c)
      /\ link' \in [Clients -> LinkStates] /\ node' \in [Clients -> Nodes \cup {None}]
      /\ Alive(c)' /\ node'[c] = n
      /\ \A d \in Clients : d # c => (Alive(d)' <=> Alive(d)) /\ node'[d] = node[d]
  BY <1>1, OpenFacts
<1>3. /\ op.own \in Seq(Clients) /\ IsInjective(op.own) /\ MaxExtra \in Nat /\ Len(op.own) \in Nat
      /\ op.at \in {"connect", "extras"} => ~ live /\ op.kind # "free" /\ op.then # "connect" /\ op.good = <<>>
      /\ op.at = "extras" => \A d, e \in Range(op.own) : d # e => node[d] # node[e]
      /\ Range(op.own) \subseteq Clients
  <2>1. /\ op.own \in Seq(Clients) /\ MaxExtra \in Nat /\ Len(op.own) \in Nat /\ Range(op.own) \subseteq Clients
    BY LinksAssumption DEF IInv, TypeOK, Range
  <2>2. QED
    BY <2>1 DEF IInv, HolderFits
<1>4. /\ op'.own \in Seq(Clients) /\ IsInjective(op'.own) /\ Len(op'.own) <= MaxExtra + 1
      /\ \A d \in Clients : d \in Range(op'.own) <=> d = c \/ IsOpening(d)
      /\ Range(op'.own) \subseteq Clients
      /\ \A d, e \in Range(op'.own) : d # e => node'[d] # node'[e]
      /\ op'.at = "extras" /\ op'.kind = op.kind /\ op'.todo = op.todo /\ op'.good = op.good /\ op'.then = op.then
      /\ op.at \in {"connect", "extras"}
  <2>1. CASE op.at = "connect" /\ op' = [op EXCEPT !.at = "extras", !.own = <<c>>]
    <3>1. <<c>> \in Seq(Clients) /\ IsInjective(<<c>>) /\ Range(<<c>>) = {c} /\ Len(<<c>>) = 1
      BY DEF IsInjective, Range
    <3>2. op'.own = <<c>> /\ op'.at = "extras" /\ op'.kind = op.kind /\ op'.todo = op.todo /\ op'.good = op.good /\ op'.then = op.then
      BY <2>1 DEF IInv, TypeOK
    <3>3. \A d \in Clients : ~ IsOpening(d)
      BY <2>1 DEF IsOpening
    <3>4. QED
      BY <1>3, <2>1, <3>1, <3>2, <3>3
  <2>2. CASE /\ op.at = "extras" /\ Len(op.own) <= MaxExtra /\ \A d \in Range(op.own) : node[d] # n
             /\ op' = [op EXCEPT !.own = Append(@, c)]
    <3>1. c \notin Range(op.own)
      BY <1>2, <2>2 DEF IsOpening
    <3>2. /\ Append(op.own, c) \in Seq(Clients) /\ IsInjective(Append(op.own, c))
          /\ Range(Append(op.own, c)) = Range(op.own) \cup {c} /\ Len(Append(op.own, c)) = Len(op.own) + 1
      BY <1>3, <3>1, AppendNew
    <3>3. op'.own = Append(op.own, c) /\ op'.at = "extras" /\ op'.kind = op.kind /\ op'.todo = op.todo /\ op'.good = op.good /\ op'.then = op.then
      BY <2>2 DEF IInv, TypeOK
    <3>4. \A d, e \in Range(op'.own) : d # e => node'[d] # node'[e]
      BY <1>2, <1>3, <2>2, <3>1, <3>2, <3>3
    <3>5. \A d \in Clients : d \in Range(op'.own) <=> d = c \/ IsOpening(d)
      BY <2>2, <3>2, <3>3 DEF IsOpening
    <3>6. QED
      BY <1>3, <2>2, <3>2, <3>3, <3>4, <3>5
  <2>3. QED
    BY <1>1, <2>1, <2>2
<1>5. TypeOK'
  <2>1. op' \in [kind : Kinds, at : Stages, own : Seq(Clients), todo : Seq(Clients),
            good : Seq(Clients), then : {"end", "connect", "gone"}]
    <3>1. op' = [kind |-> op'.kind, at |-> op'.at, own |-> op'.own, todo |-> op'.todo, good |-> op'.good, then |-> op'.then]
      BY <1>1 DEF IInv, TypeOK
    <3>2. QED
      BY <1>4, <3>1 DEF IInv, TypeOK, Stages
  <2>2. QED
    BY <1>1, <1>2, <2>1 DEF IInv, TypeOK
<1>6. HolderFits'
  BY <1>1, <1>3, <1>4 DEF HolderFits
<1>7. \A d \in Clients : IsHeld(d) \/ IsJoining(d) => node'[d] = node[d]
  BY <1>2
<1>8. HeldOnce' /\ ListsAgree'
  BY <1>1, <1>7, ListsStay
<1>9. JoinsFit'
  BY <1>1, <1>4, <1>7, JoinsStay
<1>10. \A d \in Clients : /\ IsHeld(d)' <=> IsHeld(d)
                          /\ IsJoining(d)' <=> IsJoining(d)
                          /\ IsOpening(d)' <=> d = c \/ IsOpening(d)
                          /\ Alive(d)' <=> d = c \/ Alive(d)
  BY <1>1, <1>2, <1>4 DEF IsHeld, IsJoining, IsOpening
<1>11. OwnedOnce'
  BY <1>2, <1>10 DEF IInv, OwnedOnce
<1>12. NoneLost' /\ OpenHasNode'
  BY <1>2, <1>10 DEF IInv, NoneLost, OpenHasNode, CancelledSafely
<1>13. QED
  BY <1>5, <1>6, <1>8, <1>9, <1>11, <1>12 DEF IInv

LEMMA ExtrasDoneKeeps ==
  ASSUME IInv, UNCHANGED forever, ExtrasDone
  PROVE  IInv'
<1>1. /\ op.at = "extras" /\ op' = [op EXCEPT !.at = "start", !.todo = op.own] /\ linked' = Range(op.own)
      /\ UNCHANGED <<link, node, main, extras, addresses, live, bearers, deaf, dead, watched, reconnects, joins, stopping>>
  BY DEF ExtrasDone, fanout
<1>2. ~ live /\ op.own \in Seq(Clients) /\ Range(op.own) \subseteq Clients
  BY <1>1 DEF IInv, HolderFits, TypeOK, Range
<1>3. /\ op'.kind = op.kind /\ op'.at = "start" /\ op'.own = op.own /\ op'.todo = op.own /\ op'.good = op.good
      /\ op'.then = op.then
      /\ op' \in [kind : Kinds, at : Stages, own : Seq(Clients), todo : Seq(Clients),
            good : Seq(Clients), then : {"end", "connect", "gone"}]
  BY <1>1, <1>2 DEF IInv, TypeOK, Stages
<1>4. TypeOK'
  BY <1>1, <1>2, <1>3 DEF IInv, TypeOK
<1>5. HolderFits'
  <2>1. Range(<<>>) = {} /\ IsInjective(<<>>) /\ Len(<<>>) = 0 /\ op.good = <<>> /\ Len(op.own) \in Nat
    BY <1>1, <1>2 DEF IInv, HolderFits, Range, IsInjective
  <2>2. QED
    BY <1>1, <1>2, <1>3, <2>1 DEF IInv, HolderFits
<1>6. \A c \in Clients : (IsOpening(c)' <=> IsOpening(c)) /\ (Alive(c)' <=> Alive(c))
  BY <1>1, <1>3 DEF IsOpening, Alive
<1>7. \A c \in Clients : IsHeld(c) \/ IsOpening(c) \/ IsJoining(c) => Alive(c)
  BY DEF IInv, OwnedOnce
<1>8. QED
  BY <1>1, <1>2, <1>4, <1>5, <1>6, <1>7, HandsKeep

LEMMA SubscribeKeeps ==
  ASSUME IInv, UNCHANGED forever, Subscribe
  PROVE  IInv'
<1>1. /\ op.at = "start" /\ op.todo # <<>>
      /\ \/ op' = [op EXCEPT !.todo = Tail(@), !.good = Append(@, Head(op.todo))]
         \/ op' = [op EXCEPT !.todo = Tail(@)]
      /\ UNCHANGED <<link, node, main, extras, addresses, linked, live, bearers, deaf, dead, watched, reconnects,
                     joins, stopping>>
  BY DEF Subscribe, held, fanout
<1>2. /\ op.todo \in Seq(Clients) /\ op.good \in Seq(Clients) /\ Len(op.good) \in Nat /\ Len(op.todo) \in Nat
      /\ Len(op.own) \in Nat
  BY DEF IInv, TypeOK
<1>3. /\ Range(op.good) \subseteq Range(op.own) /\ Range(op.todo) \subseteq Range(op.own)
      /\ Range(op.good) \cap Range(op.todo) = {}
      /\ IsInjective(op.good) /\ IsInjective(op.todo)
      /\ Len(op.good) + Len(op.todo) <= Len(op.own)
  BY <1>1 DEF IInv, HolderFits
<1>4. /\ Head(op.todo) \in Clients /\ Head(op.todo) \in Range(op.todo)
      /\ Tail(op.todo) \in Seq(Clients) /\ IsInjective(Tail(op.todo))
      /\ Range(Tail(op.todo)) = Range(op.todo) \ {Head(op.todo)} /\ Len(Tail(op.todo)) = Len(op.todo) - 1
  BY <1>1, <1>2, <1>3, TailOfInjective
<1>5. /\ Append(op.good, Head(op.todo)) \in Seq(Clients) /\ IsInjective(Append(op.good, Head(op.todo)))
      /\ Range(Append(op.good, Head(op.todo))) = Range(op.good) \cup {Head(op.todo)}
      /\ Len(Append(op.good, Head(op.todo))) = Len(op.good) + 1
  <2>1. Head(op.todo) \notin Range(op.good)
    BY <1>3, <1>4
  <2>2. QED
    BY <1>2, <1>3, <1>4, <2>1, AppendNew
<1>6. /\ op'.kind = op.kind /\ op'.at = op.at /\ op'.own = op.own /\ op'.then = op.then
      /\ op'.todo = Tail(op.todo) /\ op'.good \in {op.good, Append(op.good, Head(op.todo))}
      /\ op' = [kind |-> op'.kind, at |-> op'.at, own |-> op'.own, todo |-> op'.todo, good |-> op'.good, then |-> op'.then]
  BY <1>1 DEF IInv, TypeOK
<1>7. op' \in [kind : Kinds, at : Stages, own : Seq(Clients), todo : Seq(Clients),
            good : Seq(Clients), then : {"end", "connect", "gone"}]
  <2>1. op'.good \in Seq(Clients)
    BY <1>2, <1>5, <1>6
  <2>2. QED
    BY <1>4, <1>6, <2>1 DEF IInv, TypeOK
<1>8. /\ Range(op'.good) \subseteq Range(op'.own) /\ Range(op'.todo) \subseteq Range(op'.own)
      /\ Range(op'.good) \cap Range(op'.todo) = {}
      /\ IsInjective(op'.good) /\ IsInjective(op'.todo)
      /\ Len(op'.good) + Len(op'.todo) <= Len(op'.own)
  <2>1. Len(op.good) + 1 + (Len(op.todo) - 1) <= Len(op.own) /\ Len(op.good) + (Len(op.todo) - 1) <= Len(op.own)
    <3>1. \A x, y, z \in Nat : x + y <= z => x + 1 + (y - 1) <= z /\ x + (y - 1) <= z
      OBVIOUS
    <3>2. Len(op.good) + Len(op.todo) <= Len(op.own)
      BY <1>3
    <3>3. QED
      BY <1>2, <3>1, <3>2, Zenon
  <2>2. CASE op'.good = op.good
    BY <1>3, <1>4, <1>6, <2>1, <2>2
  <2>3. CASE op'.good = Append(op.good, Head(op.todo))
    <3>1. Len(op'.good) = Len(op.good) + 1 /\ Len(op'.todo) = Len(op.todo) - 1
      BY <1>4, <1>5, <1>6, <2>3
    <3>2. IsInjective(op'.good) /\ IsInjective(op'.todo) /\ op'.own = op.own
      BY <1>4, <1>5, <1>6, <2>3
    <3>3. Range(op'.good) = Range(op.good) \cup {Head(op.todo)} /\ Range(op'.todo) = Range(op.todo) \ {Head(op.todo)}
      BY <1>4, <1>5, <1>6, <2>3
    <3>4. QED
      BY <1>3, <1>4, <2>1, <3>1, <3>2, <3>3
  <2>4. QED
    BY <1>6, <2>2, <2>3
<1>9. TypeOK'
  BY <1>1, <1>7 DEF IInv, TypeOK
<1>10. HolderFits'
  BY <1>1, <1>6, <1>8 DEF IInv, HolderFits
<1>11. \A c \in Clients : (IsOpening(c)' <=> IsOpening(c)) /\ (Alive(c)' <=> Alive(c))
  BY <1>1, <1>6 DEF IsOpening, Alive
<1>12. \A c \in Clients : IsHeld(c) \/ IsOpening(c) \/ IsJoining(c) => Alive(c)
  BY DEF IInv, OwnedOnce
<1>13. QED
  BY <1>1, <1>6, <1>9, <1>10, <1>11, <1>12, HandsKeep

LEMMA StartFailsKeeps ==
  ASSUME IInv, UNCHANGED forever, StartFails
  PROVE  IInv'
<1>1. /\ op.at = "start" /\ linked' = {} /\ link' = Closing(Range(op.own))
      /\ op' = [kind |-> op.kind, at |-> "close", own |-> op.own, todo |-> <<>>, good |-> <<>>, then |-> "end"]
      /\ UNCHANGED <<node, main, extras, addresses, live, bearers, deaf, dead, watched, reconnects, joins, stopping>>
  BY DEF StartFails, fanout, Free
<1>2. op.own \in Seq(Clients) /\ IsInjective(op.own) /\ ~ live /\ op.kind \in Kinds /\ op.kind # "free"
  BY <1>1 DEF IInv, TypeOK, HolderFits
<1>3. TypeOK'
  <2>1. <<>> \in Seq(Clients)
    OBVIOUS
  <2>2. op' \in [kind : Kinds, at : Stages, own : Seq(Clients), todo : Seq(Clients),
            good : Seq(Clients), then : {"end", "connect", "gone"}]
    BY <1>1, <1>2, <2>1 DEF Stages
  <2>3. link' \in [Clients -> LinkStates]
    BY <1>1 DEF Closing, LinkStates, IInv, TypeOK
  <2>4. QED
    BY <1>1, <2>2, <2>3 DEF IInv, TypeOK
<1>4. HolderFits'
  BY <1>1, <1>2 DEF HolderFits
<1>5. \A c \in Clients : ~ IsOpening(c)' /\ (Alive(c)' <=> Alive(c) /\ ~ IsOpening(c))
  BY <1>1 DEF IsOpening, Alive, Closing
<1>6. \A c \in Clients : IsHeld(c) \/ IsJoining(c) => Alive(c) /\ ~ IsOpening(c)
  BY DEF IInv, OwnedOnce
<1>7. QED
  BY <1>1, <1>2, <1>3, <1>4, <1>5, <1>6, HandsKeep

LEMMA StartEndsKeeps ==
  ASSUME IInv, UNCHANGED forever, StartEnds
  PROVE  IInv'
<1> DEFINE good == op.good
           own == op.own
<1>1. /\ op.at = "start" /\ good # <<>>
      /\ main' = Head(good) /\ extras' = Tail(good)
      /\ addresses' = [i \in DOMAIN good |-> node[good[i]]]
      /\ linked' = Range(good) /\ live' = TRUE /\ bearers' = good /\ dead' = FALSE
      /\ watched' = watched \cup Range(good)
      /\ link' = Closing(Range(own) \ Range(good))
      /\ op' = [kind |-> op.kind, at |-> "call", own |-> <<>>, todo |-> <<>>, good |-> <<>>, then |-> "end"] \/ op' = Free
      /\ UNCHANGED <<node, deaf, reconnects, joins, stopping>>
  BY DEF StartEnds, Free
<1>2. /\ good \in Seq(Clients) /\ IsInjective(good) /\ Range(good) \subseteq Range(own)
      /\ own \in Seq(Clients) /\ Len(good) <= Len(own) /\ Len(own) <= MaxExtra + 1 /\ Len(good) \in Nat
      /\ \A c, d \in Range(own) : c # d => node[c] # node[d]
      /\ ~ live /\ main = None /\ extras = <<>> /\ op.kind \in Kinds /\ op.kind # "free"
      /\ Range(own) \subseteq Clients /\ MaxExtra \in Nat
  <2>1. /\ good \in Seq(Clients) /\ own \in Seq(Clients) /\ Range(own) \subseteq Clients /\ op.kind \in Kinds
        /\ Len(good) \in Nat /\ Len(op.todo) \in Nat /\ Len(own) \in Nat /\ (live <=> main # None) /\ MaxExtra \in Nat
    BY LinksAssumption DEF IInv, TypeOK, Range
  <2>2. /\ IsInjective(good) /\ Range(good) \subseteq Range(own) /\ Len(good) + Len(op.todo) <= Len(own)
        /\ Len(own) <= MaxExtra + 1 /\ \A c, d \in Range(own) : c # d => node[c] # node[d]
        /\ ~ live /\ op.kind # "free"
    BY <1>1 DEF IInv, HolderFits
  <2>3. extras = <<>>
    BY <2>2 DEF IInv, HeldOnce
  <2>4. Len(good) <= Len(own)
    <3>1. \A x, y, z \in Nat : x + y <= z => x <= z
      OBVIOUS
    <3>2. QED
      BY <2>1, <2>2, <3>1, Zenon
  <2>5. QED
    BY <2>1, <2>2, <2>3, <2>4
<1>3. /\ Head(good) = good[1] /\ Head(good) \in Clients /\ Head(good) \in Range(good)
      /\ Tail(good) \in Seq(Clients) /\ IsInjective(Tail(good)) /\ Range(Tail(good)) = Range(good) \ {Head(good)}
      /\ Len(good) > 0 /\ Len(Tail(good)) = Len(good) - 1
      /\ \A i \in 1 .. Len(good) - 1 : Tail(good)[i] = good[i + 1]
  BY <1>1, <1>2, TailOfInjective
<1>4. \A c \in Clients : c \in Range(own) <=> IsOpening(c)
  BY <1>1 DEF IsOpening
<1> HIDE DEF good, own
<1>5. /\ addresses' \in Seq(Nodes) /\ Len(addresses') = Len(good) /\ IsInjective(addresses')
      /\ \A i \in 1 .. Len(good) : addresses'[i] = node[good[i]]
  <2>1. \A i \in 1 .. Len(good) : good[i] \in Range(own) /\ node[good[i]] \in Nodes
    <3>1. \A c \in Range(own) : node[c] \in Nodes
      BY <1>2, <1>4 DEF IInv, OwnedOnce, OpenHasNode
    <3>2. \A i \in 1 .. Len(good) : good[i] \in Range(good)
      BY <1>2 DEF Range
    <3>3. QED
      BY <1>2, <3>1, <3>2
  <2>2. addresses' = [i \in 1 .. Len(good) |-> node[good[i]]]
    BY <1>1, <1>2
  <2>3. addresses' \in Seq(Nodes) /\ Len(addresses') = Len(good) /\ \A i \in 1 .. Len(good) : addresses'[i] = node[good[i]]
    BY <1>2, <2>1, <2>2
  <2>4. IsInjective(addresses')
    <3>1. \A i, j \in 1 .. Len(good) : good[i] = good[j] => i = j
      BY <1>2 DEF IsInjective
    <3>2. \A i, j \in 1 .. Len(good) : node[good[i]] = node[good[j]] => i = j
      BY <1>2, <2>1, <3>1
    <3>3. DOMAIN addresses' = 1 .. Len(good)
      BY <2>2
    <3>4. QED
      BY <2>3, <3>2, <3>3 DEF IsInjective
  <2>5. QED
    BY <2>3, <2>4
<1>6. TypeOK'
  <2>1. <<>> \in Seq(Clients)
    OBVIOUS
  <2>2. op' \in [kind : Kinds, at : Stages, own : Seq(Clients), todo : Seq(Clients),
            good : Seq(Clients), then : {"end", "connect", "gone"}]
    <3>1. Free \in [kind : Kinds, at : Stages, own : Seq(Clients), todo : Seq(Clients),
            good : Seq(Clients), then : {"end", "connect", "gone"}]
      BY <2>1 DEF Stages, Free, Kinds
    <3>2. [kind |-> op.kind, at |-> "call", own |-> <<>>, todo |-> <<>>, good |-> <<>>, then |-> "end"]
            \in [kind : Kinds, at : Stages, own : Seq(Clients), todo : Seq(Clients),
                good : Seq(Clients), then : {"end", "connect", "gone"}]
      BY <1>2, <2>1 DEF Stages
    <3>3. QED
      BY <1>1, <3>1, <3>2
  <2>3. link' \in [Clients -> LinkStates]
    BY <1>1 DEF Closing, LinkStates, IInv, TypeOK
  <2>4. main' \in Clients /\ main' # None /\ Range(good) \subseteq Clients
    BY <1>1, <1>2, <1>3, LinksAssumption
  <2>5. QED
    BY <1>1, <1>2, <1>3, <1>5, <2>2, <2>3, <2>4 DEF IInv, TypeOK
<1>7. HolderFits'
  <2>1. IsInjective(<<>>)
    BY DEF IsInjective
  <2>2. CASE op' = Free
    BY <2>1, <2>2 DEF HolderFits, Free
  <2>3. CASE op' = [kind |-> op.kind, at |-> "call", own |-> <<>>, todo |-> <<>>, good |-> <<>>, then |-> "end"]
    BY <1>2, <2>1, <2>3 DEF HolderFits
  <2>4. QED
    BY <1>1, <2>2, <2>3
<1>8. HeldOnce'
  BY <1>1, <1>2, <1>3 DEF HeldOnce
<1>9. \A c \in Clients : /\ ~ IsHeld(c) /\ (IsHeld(c)' <=> c \in Range(good))
                         /\ ~ IsOpening(c)' /\ (IsJoining(c)' <=> IsJoining(c))
                         /\ Alive(c)' <=> Alive(c) /\ (c \in Range(own) => c \in Range(good))
  <2>1. \A c \in Clients : ~ IsHeld(c)
    <3>1. Range(<<>>) = {}
      BY DEF Range
    <3>2. QED
      BY <1>2, <3>1, LinksAssumption DEF IsHeld
  <2>2. \A c \in Clients : IsHeld(c)' <=> c \in Range(good)
    BY <1>1, <1>3 DEF IsHeld
  <2>3. \A c \in Clients : ~ IsOpening(c)'
    BY <1>1 DEF IsOpening, Free
  <2>4. \A c \in Clients : IsJoining(c)' <=> IsJoining(c)
    BY <1>1 DEF IsJoining
  <2>5. \A c \in Clients : Alive(c)' <=> Alive(c) /\ (c \in Range(own) => c \in Range(good))
    BY <1>1 DEF Alive, Closing
  <2>6. QED
    BY <2>1, <2>2, <2>3, <2>4, <2>5
<1>10. OwnedOnce'
  BY <1>2, <1>4, <1>9 DEF IInv, OwnedOnce
<1>11. NoneLost' /\ OpenHasNode'
  BY <1>1, <1>4, <1>9 DEF IInv, NoneLost, OpenHasNode, CancelledSafely
<1>12. JoinsFit'
  BY <1>1 DEF IInv, JoinsFit
<1>13. ListsAgree'
  <2>1. Shift' = 1 /\ main' \in linked'
    BY <1>1, <1>3 DEF Shift
  <2>2. Range(extras') \subseteq linked' /\ linked' \subseteq {main'} \cup Range(extras')
    BY <1>1, <1>3
  <2>3. Len(addresses') = Len(extras') + 1 /\ Len(addresses') <= MaxExtra + 1
    <3>1. Len(own) \in Nat
      BY <1>2
    <3>2. QED
      BY <1>1, <1>2, <1>3, <1>5, <3>1
  <2>4. addresses'[1] = node[main'] /\ \A i \in 1 .. Len(extras') : addresses'[i + 1] = node[extras'[i]]
    BY <1>1, <1>2, <1>3, <1>5
  <2>5. bearers' # <<>>
    BY <1>1
  <2>6. QED
    BY <1>1, <1>5, <2>1, <2>2, <2>3, <2>4, <2>5 DEF ListsAgree
<1>14. QED
  BY <1>6, <1>7, <1>8, <1>10, <1>11, <1>12, <1>13 DEF IInv

----------------------------------------------------------------------------
(***************************************************************************)
(* Late joins.                                                             *)
(***************************************************************************)

\* A late join begins, or ends without a client.
LEMMA JoinAsideKeeps ==
  ASSUME IInv, UNCHANGED forever, NEW n \in Nodes, JoinStart(n) \/ JoinConnectFails(n)
  PROVE  IInv'
<1>1. /\ joins[n].at \in {"none", "connecting"}
      /\ \/ joins' = [joins EXCEPT ![n] = [NoJoin EXCEPT !.at = "connecting"]]
         \/ joins' = [joins EXCEPT ![n] = NoJoin]
      /\ UNCHANGED <<link, node, main, extras, addresses, linked, live, bearers, deaf, dead, watched, reconnects,
                     op, stopping>>
  BY DEF JoinStart, JoinConnectFails, held, fanout
<1>2. /\ joins' \in [Nodes -> [at : JoinStages, client : Clients \cup {None}, stale : BOOLEAN]]
      /\ joins'[n].at \in {"none", "connecting"} /\ \A m \in Nodes : m # n => joins'[m] = joins[m]
  <2>1. /\ NoJoin \in [at : JoinStages, client : Clients \cup {None}, stale : BOOLEAN]
        /\ [NoJoin EXCEPT !.at = "connecting"] \in [at : JoinStages, client : Clients \cup {None}, stale : BOOLEAN]
        /\ NoJoin.at = "none" /\ [NoJoin EXCEPT !.at = "connecting"].at = "connecting"
    BY DEF NoJoin, JoinStages
  <2>2. joins \in [Nodes -> [at : JoinStages, client : Clients \cup {None}, stale : BOOLEAN]]
    BY DEF IInv, TypeOK
  <2>3. \A j \in [at : JoinStages, client : Clients \cup {None}, stale : BOOLEAN] :
          joins' = [joins EXCEPT ![n] = j] =>
            /\ joins' \in [Nodes -> [at : JoinStages, client : Clients \cup {None}, stale : BOOLEAN]]
            /\ joins'[n] = j /\ \A m \in Nodes : m # n => joins'[m] = joins[m]
    BY <2>2
  <2>4. QED
    BY <1>1, <2>1, <2>3, Zenon
<1>3. TypeOK'
  BY <1>1, <1>2 DEF IInv, TypeOK
<1>4. HolderFits'
  BY <1>1 DEF IInv, HolderFits
<1>5. \A c \in Clients : (IsOpening(c)' <=> IsOpening(c)) /\ (Alive(c)' <=> Alive(c))
  BY <1>1 DEF IsOpening, Alive
<1>6. \A c \in Clients : IsHeld(c) \/ IsOpening(c) \/ IsJoining(c) => Alive(c)
  BY DEF IInv, OwnedOnce
<1>7. \A m \in Nodes : /\ joins'[m].at \in {"queued", "adding"} <=> joins[m].at \in {"queued", "adding"}
                       /\ joins'[m].at \in {"queued", "adding"} => joins'[m] = joins[m]
  BY <1>1, <1>2
<1>8. QED
  BY <1>1, <1>3, <1>4, <1>5, <1>6, <1>7, HandsKeep

LEMMA JoinConnectsKeeps ==
  ASSUME IInv, UNCHANGED forever, NEW n \in Nodes, JoinConnects(n)
  PROVE  IInv'
<1>1. PICK c \in Clients :
        /\ joins[n].at = "connecting" /\ Open(c, n)
        /\ joins' = [joins EXCEPT ![n].at = "queued", ![n].client = c]
        /\ UNCHANGED <<main, extras, addresses, linked, live, bearers, deaf, dead, watched, reconnects, op, stopping>>
  BY DEF JoinConnects, held, fanout
<1>2. /\ ~ Alive(c) /\ ~ IsHeld(c) /\ ~ IsOpening(c) /\ ~ IsJoining(c)
      /\ link' \in [Clients -> LinkStates] /\ node' \in [Clients -> Nodes \cup {None}]
      /\ Alive(c)' /\ node'[c] = n
      /\ \A d \in Clients : d # c => (Alive(d)' <=> Alive(d)) /\ node'[d] = node[d]
  BY <1>1, OpenFacts
<1>3. /\ joins' \in [Nodes -> [at : JoinStages, client : Clients \cup {None}, stale : BOOLEAN]]
      /\ joins'[n].at = "queued" /\ joins'[n].client = c /\ \A m \in Nodes : m # n => joins'[m] = joins[m]
  BY <1>1 DEF IInv, TypeOK, JoinStages
<1>4. TypeOK'
  BY <1>1, <1>2, <1>3 DEF IInv, TypeOK
<1>5. HolderFits'
  <2>1. op.at \in {"extras", "start"} => \A d \in Range(op.own) : node'[d] = node[d]
    <3>1. op.at \in {"extras", "start"} => c \notin Range(op.own) /\ Range(op.own) \subseteq Clients
      BY <1>2 DEF IsOpening, IInv, TypeOK, Range
    <3>2. QED
      BY <1>2, <3>1
  <2>2. op' = op /\ live' = live
    BY <1>1
  <2>3. op.at \in {"extras", "start"} => \A d, e \in Range(op.own) : d # e => node'[d] # node'[e]
    BY <2>1 DEF IInv, HolderFits
  <2>4. QED
    BY <2>2, <2>3 DEF IInv, HolderFits
<1>6. HeldOnce' /\ ListsAgree'
  <2>1. \A d \in Clients : IsHeld(d) => node'[d] = node[d]
    BY <1>2
  <2>2. QED
    BY <1>1, <2>1, ListsStay
<1>7. \A d \in Clients : /\ IsHeld(d)' <=> IsHeld(d)
                         /\ IsOpening(d)' <=> IsOpening(d)
                         /\ IsJoining(d)' <=> d = c \/ IsJoining(d)
                         /\ Alive(d)' <=> d = c \/ Alive(d)
  <2>1. \A d \in Clients : IsJoining(d)' <=> d = c \/ IsJoining(d)
    BY <1>1, <1>3 DEF IsJoining
  <2>2. QED
    BY <1>1, <1>2, <2>1 DEF IsHeld, IsOpening
<1>8. OwnedOnce'
  BY <1>2, <1>7 DEF IInv, OwnedOnce
<1>9. NoneLost' /\ OpenHasNode'
  BY <1>2, <1>7 DEF IInv, NoneLost, OpenHasNode, CancelledSafely
<1>10. JoinsFit'
  <2>1. \A m \in Nodes : m # n /\ joins[m].at \in {"queued", "adding"} =>
          joins[m].client \in Clients /\ joins[m].client # c /\ node[joins[m].client] = m
    BY <1>2 DEF IInv, JoinsFit, IsJoining
  <2>2. QED
    BY <1>1, <1>2, <1>3, <2>1 DEF IInv, JoinsFit
<1>11. QED
  BY <1>4, <1>5, <1>6, <1>8, <1>9, <1>10 DEF IInv

\* The client of a late join is closed under the lock.
LEMMA JoinGivesUp ==
  ASSUME IInv, UNCHANGED forever, NEW n \in Nodes, joins[n].at \in {"queued", "adding"},
         \A m \in Nodes : joins[m].at = "adding" => m = n, op.at \in {"none", "add"},
         link' = Closing({joins[n].client}), joins' = [joins EXCEPT ![n].at = "closing"],
         NEW kind \in Kinds \ {"free"}, NEW todo \in Seq(Clients), NEW then \in {"end", "gone"},
         op' = [kind |-> kind, at |-> "close", own |-> <<joins[n].client>>, todo |-> todo, good |-> <<>>, then |-> then],
         UNCHANGED <<node, held, fanout, watched, reconnects, stopping>>
  PROVE  IInv'
<1> DEFINE c == joins[n].client
<1>1. c \in Clients /\ node[c] = n /\ IsJoining(c)
  BY DEF IInv, JoinsFit, IsJoining
<1>2. UNCHANGED <<main, extras, addresses, linked, live, bearers, deaf, dead>>
  BY DEF held, fanout
<1>3. /\ joins' \in [Nodes -> [at : JoinStages, client : Clients \cup {None}, stale : BOOLEAN]]
      /\ joins'[n].at = "closing" /\ \A m \in Nodes : m # n => joins'[m] = joins[m]
  BY DEF IInv, TypeOK, JoinStages
<1>4. <<c>> \in Seq(Clients) /\ IsInjective(<<c>>) /\ <<>> \in Seq(Clients)
  BY <1>1 DEF IsInjective
<1>5. TypeOK'
  <2>1. link' \in [Clients -> LinkStates]
    BY DEF Closing, LinkStates, IInv, TypeOK
  <2>2. op' \in [kind : Kinds, at : Stages, own : Seq(Clients), todo : Seq(Clients),
            good : Seq(Clients), then : {"end", "connect", "gone"}]
    BY <1>4 DEF Stages, IInv, TypeOK
  <2>3. QED
    BY <1>2, <1>3, <2>1, <2>2 DEF IInv, TypeOK
<1>6. HolderFits'
  BY <1>4 DEF HolderFits
<1>7. HeldOnce' /\ ListsAgree'
  BY <1>2, ListsStay
<1>8. JoinsFit'
  BY <1>2, <1>3 DEF IInv, JoinsFit
<1>9. \A m \in Nodes : m # n /\ joins[m].at \in {"queued", "adding"} => joins[m].client # c
  BY <1>1 DEF IInv, JoinsFit
<1>10. \A d \in Clients : /\ IsHeld(d)' <=> IsHeld(d)
                          /\ ~ IsOpening(d)' /\ ~ IsOpening(d)
                          /\ IsJoining(d)' <=> IsJoining(d) /\ d # c
                          /\ Alive(d)' <=> Alive(d) /\ d # c
  <2>1. \A d \in Clients : IsJoining(d)' <=> IsJoining(d) /\ d # c
    BY <1>3, <1>9 DEF IsJoining
  <2>2. \A d \in Clients : Alive(d)' <=> Alive(d) /\ d # c
    BY DEF Alive, Closing
  <2>3. \A d \in Clients : ~ IsOpening(d)' /\ ~ IsOpening(d) /\ (IsHeld(d)' <=> IsHeld(d))
    BY <1>2 DEF IsOpening, IsHeld
  <2>4. QED
    BY <2>1, <2>2, <2>3
<1>11. OwnedOnce' /\ NoneLost' /\ OpenHasNode'
  <2>1. OwnedOnce'
    BY <1>1, <1>10 DEF IInv, OwnedOnce
  <2>2. NoneLost'
    BY <1>1, <1>10 DEF IInv, NoneLost, OwnedOnce, CancelledSafely
  <2>3. OpenHasNode'
    BY <1>10 DEF IInv, OpenHasNode
  <2>4. QED
    BY <2>1, <2>2, <2>3
<1>12. QED
  BY <1>5, <1>6, <1>7, <1>8, <1>11 DEF IInv

LEMMA JoinTakesLockKeeps ==
  ASSUME IInv, UNCHANGED forever, NEW n \in Nodes, JoinTakesLock(n)
  PROVE  IInv'
<1>1. /\ LockFree /\ joins[n].at = "queued" /\ op.at = "none" /\ \A m \in Nodes : joins[m].at # "adding"
      /\ UNCHANGED <<node, held, fanout, watched, reconnects, stopping>>
  BY DEF JoinTakesLock, LockFree, IInv, HolderFits, JoinsFit
<1>2. CASE /\ StillWanted(n)
           /\ op' = [Free EXCEPT !.kind = "join", !.at = "add"]
           /\ joins' = [joins EXCEPT ![n].at = "adding"] /\ UNCHANGED link
  <2>1. UNCHANGED <<main, extras, addresses, linked, live, bearers, deaf, dead>>
    BY <1>1 DEF held, fanout
  <2>2. op' = [kind |-> "join", at |-> "add", own |-> <<>>, todo |-> <<>>, good |-> <<>>, then |-> "end"]
    BY <1>2 DEF Free
  <2>3. <<>> \in Seq(Clients) /\ IsInjective(<<>>)
    BY DEF IsInjective
  <2>4. /\ joins' \in [Nodes -> [at : JoinStages, client : Clients \cup {None}, stale : BOOLEAN]]
        /\ joins'[n].at = "adding" /\ joins'[n].client = joins[n].client /\ \A m \in Nodes : m # n => joins'[m] = joins[m]
    BY <1>2 DEF IInv, TypeOK, JoinStages
  <2>5. TypeOK'
    <3>1. op' \in [kind : Kinds, at : Stages, own : Seq(Clients), todo : Seq(Clients),
              good : Seq(Clients), then : {"end", "connect", "gone"}]
      BY <2>2, <2>3 DEF Kinds, Stages
    <3>2. QED
      BY <1>1, <1>2, <2>1, <2>4, <3>1 DEF IInv, TypeOK
  <2>6. HolderFits'
    BY <2>2, <2>3 DEF HolderFits
  <2>7. HeldOnce' /\ ListsAgree'
    BY <1>1, <2>1, ListsStay
  <2>8. JoinsFit'
    BY <1>1, <1>2, <2>1, <2>2, <2>4 DEF IInv, JoinsFit, StillWanted
  <2>9. \A d \in Clients : /\ IsHeld(d)' <=> IsHeld(d)
                           /\ ~ IsOpening(d)' /\ ~ IsOpening(d)
                           /\ IsJoining(d)' <=> IsJoining(d)
                           /\ Alive(d)' <=> Alive(d)
    <3>1. \A d \in Clients : IsJoining(d)' <=> IsJoining(d)
      BY <1>1, <2>4 DEF IsJoining
    <3>2. QED
      BY <1>1, <1>2, <2>1, <2>2, <3>1 DEF IsHeld, IsOpening, Alive
  <2>10. OwnedOnce' /\ NoneLost' /\ OpenHasNode'
    BY <1>1, <2>9 DEF IInv, OwnedOnce, NoneLost, OpenHasNode, CancelledSafely
  <2>11. QED
    BY <2>5, <2>6, <2>7, <2>8, <2>10 DEF IInv
<1>3. CASE /\ op' = [Free EXCEPT !.kind = "join", !.at = "close", !.own = <<joins[n].client>>]
           /\ link' = Closing({joins[n].client}) /\ joins' = [joins EXCEPT ![n].at = "closing"]
  <2>1. "join" \in Kinds \ {"free"} /\ <<>> \in Seq(Clients)
    BY DEF Kinds
  <2>2. op' = [kind |-> "join", at |-> "close", own |-> <<joins[n].client>>, todo |-> <<>>, good |-> <<>>, then |-> "end"]
    BY <1>3 DEF Free
  <2>3. QED
    BY <1>1, <1>3, <2>1, <2>2, JoinGivesUp
<1>4. QED
  BY <1>2, <1>3 DEF JoinTakesLock

LEMMA JoinAddsKeeps ==
  ASSUME IInv, UNCHANGED forever, NEW n \in Nodes, JoinAdds(n)
  PROVE  IInv'
<1> DEFINE c == joins[n].client
<1>1. /\ joins[n].at = "adding"
      /\ bearers' = Append(bearers, c) /\ linked' = linked \cup {c} /\ extras' = Append(extras, c)
      /\ watched' = watched \cup {c} /\ addresses' = Append(addresses, n)
      /\ op' = Free /\ joins' = [joins EXCEPT ![n] = NoJoin]
      /\ UNCHANGED <<link, node, main, live, deaf, dead, reconnects, stopping>>
  BY DEF JoinAdds
<1>2. /\ c \in Clients /\ node[c] = n /\ IsJoining(c) /\ op.at = "add" /\ live
      /\ n \notin Range(addresses) /\ Len(addresses) <= MaxExtra
      /\ \A m \in Nodes : joins[m].at = "adding" => m = n
  BY <1>1 DEF IInv, JoinsFit, IsJoining
<1>3. \A m \in Nodes : m # n /\ joins[m].at \in {"queued", "adding"} => joins[m].client # c
  BY <1>2 DEF IInv, JoinsFit
<1> HIDE DEF c
<1>4. ~ IsHeld(c) /\ ~ IsOpening(c) /\ c # main /\ c \notin Range(extras)
  BY <1>2 DEF IInv, OwnedOnce, IsHeld
<1>5. /\ bearers \in Seq(Clients) /\ extras \in Seq(Clients) /\ addresses \in Seq(Nodes)
      /\ IsInjective(bearers) /\ IsInjective(extras) /\ main \notin Range(extras) /\ main \in Clients
      /\ Len(extras) \in Nat /\ Len(addresses) \in Nat /\ MaxExtra \in Nat
  BY <1>2, LinksAssumption DEF IInv, TypeOK, HeldOnce
<1>6. /\ Range(bearers) = linked /\ Range(extras) \subseteq linked /\ linked \subseteq {main} \cup Range(extras)
      /\ Len(addresses) = Len(extras) + Shift
      /\ main \in linked => addresses[1] = node[main]
      /\ \A i \in 1 .. Len(extras) : addresses[i + Shift] = node[extras[i]]
      /\ IsInjective(addresses)
      /\ bearers # <<>> /\ ~ dead => main \in linked
      /\ bearers = <<>> => dead
  BY <1>2 DEF IInv, ListsAgree
<1>7. c \notin Range(bearers)
  BY <1>4, <1>6
<1>8. /\ bearers' \in Seq(Clients) /\ IsInjective(bearers') /\ Range(bearers') = Range(bearers) \cup {c}
      /\ extras' \in Seq(Clients) /\ IsInjective(extras') /\ Range(extras') = Range(extras) \cup {c}
      /\ Len(extras') = Len(extras) + 1
      /\ addresses' \in Seq(Nodes) /\ IsInjective(addresses') /\ Len(addresses') = Len(addresses) + 1
      /\ bearers' # <<>>
  <2>1. bearers' \in Seq(Clients) /\ IsInjective(bearers') /\ Range(bearers') = Range(bearers) \cup {c}
    BY <1>1, <1>2, <1>5, <1>7, AppendNew
  <2>2. extras' \in Seq(Clients) /\ IsInjective(extras') /\ Range(extras') = Range(extras) \cup {c} /\ Len(extras') = Len(extras) + 1
    BY <1>1, <1>2, <1>4, <1>5, AppendNew
  <2>3. addresses' \in Seq(Nodes) /\ IsInjective(addresses') /\ Len(addresses') = Len(addresses) + 1
    BY <1>1, <1>2, <1>5, <1>6, AppendNew
  <2>4. bearers' # <<>>
    BY <2>1 DEF Range
  <2>5. QED
    BY <2>1, <2>2, <2>3, <2>4
<1>9. /\ extras'[Len(extras) + 1] = c /\ \A i \in 1 .. Len(extras) : extras'[i] = extras[i]
      /\ addresses'[Len(addresses) + 1] = n /\ \A i \in 1 .. Len(addresses) : addresses'[i] = addresses[i]
  BY <1>1, <1>5
<1>10. Shift' = Shift /\ Shift \in {0, 1} /\ (main \in linked <=> Shift = 1) /\ (main' \in linked' <=> main \in linked)
  BY <1>1, <1>4 DEF Shift
<1>11. /\ joins' \in [Nodes -> [at : JoinStages, client : Clients \cup {None}, stale : BOOLEAN]]
       /\ joins'[n].at = "none" /\ \A m \in Nodes : m # n => joins'[m] = joins[m]
  <2>1. NoJoin \in [at : JoinStages, client : Clients \cup {None}, stale : BOOLEAN] /\ NoJoin.at = "none"
    BY DEF NoJoin, JoinStages
  <2>2. joins \in [Nodes -> [at : JoinStages, client : Clients \cup {None}, stale : BOOLEAN]]
    BY DEF IInv, TypeOK
  <2>3. QED
    BY <1>1, <2>1, <2>2
<1>12. TypeOK'
  <2>1. Free \in [kind : Kinds, at : Stages, own : Seq(Clients), todo : Seq(Clients),
            good : Seq(Clients), then : {"end", "connect", "gone"}]
    <3>1. <<>> \in Seq(Clients)
      OBVIOUS
    <3>2. QED
      BY <3>1 DEF Free, Kinds, Stages
  <2>2. QED
    BY <1>1, <1>2, <1>8, <1>11, <2>1 DEF IInv, TypeOK
<1>13. HolderFits'
  <2>1. IsInjective(<<>>)
    BY DEF IsInjective
  <2>2. QED
    BY <1>1, <2>1 DEF HolderFits, Free
<1>14. HeldOnce'
  BY <1>1, <1>2, <1>4, <1>5, <1>8 DEF HeldOnce
<1>15. ListsAgree'
  <2>1. Range(bearers') = linked' /\ Range(extras') \subseteq linked' /\ linked' \subseteq {main'} \cup Range(extras')
    BY <1>1, <1>6, <1>8
  <2>2. Len(addresses') = Len(extras') + Shift' /\ Len(addresses') <= MaxExtra + 1
    BY <1>2, <1>5, <1>6, <1>8, <1>10
  <2>3. main' \in linked' => addresses'[1] = node[main']
    <3>1. main \in linked => 1 \in 1 .. Len(addresses)
      BY <1>5, <1>6, <1>10
    <3>2. QED
      BY <1>1, <1>6, <1>9, <1>10, <3>1
  <2>4. \A i \in 1 .. Len(extras') : addresses'[i + Shift'] = node[extras'[i]]
    <3>1. SUFFICES ASSUME NEW i \in 1 .. Len(extras') PROVE addresses'[i + Shift] = node[extras'[i]]
      BY <1>10
    <3>2. CASE i \in 1 .. Len(extras)
      <4>1. i + Shift \in 1 .. Len(addresses)
        BY <1>5, <1>6, <1>10, <3>2
      <4>2. QED
        BY <1>6, <1>9, <3>2, <4>1
    <3>3. CASE i = Len(extras) + 1
      <4>1. i + Shift = Len(addresses) + 1
        BY <1>5, <1>6, <1>10, <3>3
      <4>2. QED
        BY <1>2, <1>9, <3>3, <4>1
    <3>4. QED
      BY <1>5, <1>8, <3>2, <3>3
  <2>5. bearers' # <<>> /\ ~ dead' => main' \in linked'
    BY <1>1, <1>6, <1>10
  <2>6. node' = node
    BY <1>1
  <2>7. QED
    BY <1>8, <2>1, <2>2, <2>3, <2>4, <2>5, <2>6 DEF ListsAgree
<1>16. JoinsFit'
  <2>1. \A m \in Nodes : joins'[m].at # "adding"
    BY <1>2, <1>11
  <2>2. QED
    BY <1>1, <1>11, <2>1 DEF IInv, JoinsFit
<1>17. \A d \in Clients : /\ IsHeld(d)' <=> d = c \/ IsHeld(d)
                          /\ ~ IsOpening(d)' /\ ~ IsOpening(d)
                          /\ IsJoining(d)' <=> IsJoining(d) /\ d # c
                          /\ Alive(d)' <=> Alive(d)
  <2>1. \A d \in Clients : IsJoining(d)' <=> IsJoining(d) /\ d # c
    BY <1>3, <1>11 DEF IsJoining, c
  <2>2. \A d \in Clients : ~ IsOpening(d)' /\ ~ IsOpening(d)
    BY <1>1, <1>2 DEF IsOpening, Free
  <2>3. \A d \in Clients : (IsHeld(d)' <=> d = c \/ IsHeld(d)) /\ (Alive(d)' <=> Alive(d))
    BY <1>1, <1>8 DEF IsHeld, Alive
  <2>4. QED
    BY <2>1, <2>2, <2>3
<1>18. OwnedOnce' /\ NoneLost' /\ OpenHasNode'
  <2>1. OwnedOnce'
    BY <1>2, <1>17 DEF IInv, OwnedOnce
  <2>2. NoneLost'
    BY <1>17 DEF IInv, NoneLost, CancelledSafely
  <2>3. OpenHasNode'
    BY <1>1, <1>17 DEF IInv, OpenHasNode
  <2>4. QED
    BY <2>1, <2>2, <2>3
<1>19. QED
  BY <1>12, <1>13, <1>14, <1>15, <1>16, <1>18 DEF IInv

LEMMA JoinAddFailsKeeps ==
  ASSUME IInv, UNCHANGED forever, NEW n \in Nodes, JoinAddFails(n)
  PROVE  IInv'
<1>1. /\ joins[n].at = "adding" /\ op' = [op EXCEPT !.at = "close", !.own = <<joins[n].client>>]
      /\ link' = Closing({joins[n].client}) /\ joins' = [joins EXCEPT ![n].at = "closing"]
      /\ UNCHANGED <<node, held, fanout, watched, reconnects, stopping>>
  BY DEF JoinAddFails
<1>2. /\ op.at = "add" /\ \A m \in Nodes : joins[m].at = "adding" => m = n
  BY <1>1 DEF IInv, JoinsFit
<1>3. op.kind \in Kinds \ {"free"} /\ op.then \in {"end", "gone"} /\ op.todo \in Seq(Clients) /\ op.good = <<>>
  BY <1>2 DEF IInv, TypeOK, HolderFits
<1>4. op' = [kind |-> op.kind, at |-> "close", own |-> <<joins[n].client>>, todo |-> op.todo, good |-> <<>>, then |-> op.then]
  BY <1>1, <1>3 DEF IInv, TypeOK
<1>5. QED
  BY <1>1, <1>2, <1>3, <1>4, JoinGivesUp

----------------------------------------------------------------------------
(***************************************************************************)
(* The theorems.                                                           *)
(***************************************************************************)

LEMMA NextKeeps == IInv /\ [Next]_vars => IInv'
<1> SUFFICES ASSUME IInv, [Next]_vars PROVE IInv'
  OBVIOUS
<1>1. CASE UNCHANGED vars
  <2>1. UNCHANGED <<forever, link, node, main, extras, addresses, linked, live, bearers, deaf, dead, watched,
                    reconnects, op, joins, stopping>>
    BY <1>1 DEF vars, held, fanout
  <2>2. TypeOK'
    BY <2>1 DEF IInv, TypeOK
  <2>3. \A c \in Clients : Alive(c)' <=> Alive(c)
    BY <2>1 DEF Alive
  <2>4. QED
    BY <2>1, <2>2, <2>3, NothingMoves
<1>2. CASE Kept(Step)
  <2>1. UNCHANGED forever /\ Step
    BY <1>2 DEF Kept
  <2>2. CASE Gatt
    <3>1. CASE \E c \in Clients : Drop(c) \/ LateSubscribeFails(c)
      BY <2>1, <3>1, AsideKeeps
    <3>2. CASE \E c \in Clients : SendDropsOne(c)
      BY <2>1, <3>2, SendDropsOneKeeps
    <3>3. QED
      BY <2>2, <3>1, <3>2 DEF Gatt
  <2>3. CASE SendFailsEverywhere \/ AskStop
    BY <2>1, <2>3, AsideKeeps
  <2>4. CASE CommandBegin \/ ProbeBegin \/ IdleTimeout \/ StopBegin \/ Cancelled
    BY <2>1, <2>4, LockTaken
  <2>5. CASE \E c \in Clients : ReconnectBegin(c) \/ DisconnectDone(c)
    <3>1. CASE \E c \in Clients : ReconnectBegin(c)
      BY <2>1, <3>1, LockTaken
    <3>2. CASE \E c \in Clients : DisconnectDone(c)
      BY <2>1, <3>2, DisconnectDoneKeeps
    <3>3. QED
      BY <2>5, <3>1, <3>2
  <2>6. CASE \E n \in Nodes : JoinStart(n)
    BY <2>1, <2>6, JoinAsideKeeps
  <2>7. CASE Late
    <3>1. PICK n \in Nodes :
            JoinConnects(n) \/ JoinConnectFails(n) \/ JoinTakesLock(n) \/ JoinAdds(n) \/ JoinAddFails(n)
      BY <2>7 DEF Late
    <3>2. QED
      BY <2>1, <3>1, JoinConnectsKeeps, JoinAsideKeeps, JoinTakesLockKeeps, JoinAddsKeeps, JoinAddFailsKeeps
  <2>8. CASE Locked
    <3>1. CASE CommandEnds \/ ProbeEnds \/ ConnectFails
      BY <2>1, <3>1, LockTaken
    <3>2. CASE ConnectMain \/ ConnectExtra
      BY <2>1, <3>2, ConnectKeeps
    <3>3. QED
      BY <2>1, <2>8, <3>1, <3>2, CloseEndsKeeps, ExtrasDoneKeeps, SubscribeKeeps, StartFailsKeeps, StartEndsKeeps
         DEF Locked
  <2>9. QED
    BY <2>1, <2>2, <2>3, <2>4, <2>5, <2>6, <2>7, <2>8 DEF Step
<1>3. QED
  BY <1>1, <1>2 DEF Next, Finished

\* What the coordinator, the holder of its lock and the late joins know of the links
\* fits together at every await, for any nodes, limit of extra links and number of
\* links in flight, wherever a command may be cancelled.
THEOREM LinksAgree == Spec => []IInv
<1>1. Init => IInv
  BY InitHolds
<1>2. IInv /\ [Next]_vars => IInv'
  BY NextKeeps
<1>3. QED
  BY <1>1, <1>2, PTL DEF Spec

\* No GATT client is left open with nobody to close it, and none has two owners, as
\* long as no command is cancelled while it has links that it has not handed over
\* (the cleanup of a failed connect does not run for a cancelled one).
THEOREM NoLinkLeaked ==
  ASSUME CancelledSafely
  PROVE  Spec => []NoLeakedLink
<1>1. IInv => NoLeakedLink
  BY NoneLostIs
<1>2. Spec => []IInv
  BY LinksAgree
<1>3. QED
  BY <1>1, <1>2, PTL

\* The addresses, which late join trusts, are at all times the nodes of the links in
\* use, once each and within the limit, and the drop handler knows just these links;
\* cancelled commands included.
THEOREM ListsStayTracked == Spec => []LinksAreTracked
<1>1. IInv => LinksAreTracked
  BY ListsAgreeIs
<1>2. Spec => []IInv
  BY LinksAgree
<1>3. QED
  BY <1>1, <1>2, PTL
----------------------------------------------------------------------------
(***************************************************************************)
(* The lock and its one controller: ProxyLinks implements Session.         *)
(***************************************************************************)

InUse == {"call", "add"}
Opens == {"connect", "extras", "start"}

\* A call and a late join that adds its link have a controller; once async_stop has
\* torn it down, whoever gets the lock closes what is left and goes.
LockFits ==
  /\ op.at \in InUse => live
  /\ op.then = "gone" => op.at = "close" /\ ~ live /\ stopping = "asked"
  /\ stopping = "gone" => ~ live /\ op.at \in {"none", "close"} /\ op.then # "connect"

GoesOn == LockFits' /\ [Lock!SessionNext]_Lock!sessionVars

\* A step that the others do not see.
LEMMA Unseen ==
  ASSUME LockFits, live' = live, stopping' = stopping,
         op'.then = op.then, op'.at = op.at \/ {op.at, op'.at} \subseteq Opens
  PROVE  GoesOn
<1>1. (op'.at \in InUse) = (op.at \in InUse)
  BY DEF InUse, Opens
<1>2. LockFits'
  BY <1>1 DEF LockFits, Opens
<1>3. UNCHANGED Lock!sessionVars
  BY <1>1 DEF Lock!sessionVars, InUse
<1>4. QED
  BY <1>2, <1>3 DEF GoesOn

\* The holder ends what it did with the controller, or had no use of it.
LEMMA LetsGo ==
  ASSUME LockFits, TypeOK, live' = live, stopping' = stopping, op'.at \in {"none", "close"}, op'.then = "end"
  PROVE  GoesOn
<1>1. LockFits'
  BY DEF LockFits, InUse
<1>2. op'.at \notin InUse /\ live \in BOOLEAN
  BY DEF InUse, TypeOK
<1>3. CASE op.at \in InUse
  <2>1. Lock!End
    BY <1>2, <1>3 DEF Lock!End, InUse
  <2>2. QED
    BY <1>1, <2>1 DEF GoesOn, Lock!SessionNext
<1>4. CASE op.at \notin InUse
  <2>1. UNCHANGED Lock!sessionVars
    BY <1>2, <1>4 DEF Lock!sessionVars, InUse
  <2>2. QED
    BY <1>1, <2>1 DEF GoesOn
<1>5. QED
  BY <1>3, <1>4

\* _teardown, by the one that holds the lock.
LEMMA TakesDown ==
  ASSUME LockFits, live \in BOOLEAN, NEW kind, NEW then, TearDown(kind, then), stopping' = stopping,
         then \in {"end", "connect", "gone"},
         then = "connect" => stopping # "gone", then = "gone" => stopping = "asked"
  PROVE  GoesOn
<1>1. op'.at = "close" /\ op'.then = then /\ ~ live' /\ live' = FALSE
  BY DEF TearDown, Free
<1>2. LockFits'
  BY <1>1 DEF LockFits, InUse
<1>3. CASE op.at \in InUse
  <2>1. Lock!End
    BY <1>1, <1>3 DEF Lock!End, InUse
  <2>2. QED
    BY <1>2, <2>1 DEF GoesOn, Lock!SessionNext
<1>4. CASE op.at \notin InUse /\ live
  <2>1. Lock!TearDown
    BY <1>1, <1>4 DEF Lock!TearDown, InUse
  <2>2. QED
    BY <1>2, <2>1 DEF GoesOn, Lock!SessionNext
<1>5. CASE ~ live
  <2>1. op.at \notin InUse
    BY <1>5 DEF LockFits
  <2>2. live' = live /\ op'.at \notin InUse
    BY <1>1, <1>5 DEF InUse
  <2>3. UNCHANGED Lock!sessionVars
    BY <2>1, <2>2 DEF Lock!sessionVars, InUse
  <2>4. QED
    BY <1>2, <2>3 DEF GoesOn
<1>6. QED
  BY <1>3, <1>4, <1>5

\* The lock is taken to connect.
LEMMA GoesToConnect ==
  ASSUME LockFits, ~ live, live' = live, stopping' = stopping, stopping # "gone",
         op'.at = "connect", op'.then = "end"
  PROVE  GoesOn
<1>1. op.at \notin InUse /\ op'.at \notin InUse
  BY DEF LockFits, InUse
<1>2. LockFits'
  BY <1>1 DEF LockFits
<1>3. UNCHANGED Lock!sessionVars
  BY <1>1 DEF Lock!sessionVars, InUse
<1>4. QED
  BY <1>2, <1>3 DEF GoesOn

\* The lock is taken to use the controller that is held.
LEMMA GoesToUse ==
  ASSUME LockFits, live, live' = live, stopping' = stopping, op.at = "none",
         op'.at \in InUse, op'.then = "end"
  PROVE  GoesOn
<1>1. stopping # "gone"
  BY DEF LockFits
<1>2. LockFits'
  BY <1>1 DEF LockFits
<1>3. Lock!Begin
  BY <1>1 DEF Lock!Begin, InUse
<1>4. QED
  BY <1>2, <1>3 DEF GoesOn, Lock!SessionNext

LEMMA LockStep ==
  ASSUME IInv, LockFits, Step
  PROVE  GoesOn
<1>1. /\ TypeOK /\ live \in BOOLEAN
      /\ op \in [kind : Kinds, at : Stages, own : Seq(Clients), todo : Seq(Clients),
                 good : Seq(Clients), then : {"end", "connect", "gone"}]
  BY DEF IInv, TypeOK
<1>2. /\ LockFree => op.at = "none"
      /\ Free.at = "none" /\ Free.then = "end"
      /\ \A kind, at : /\ [Free EXCEPT !.kind = kind, !.at = at].at = at
                       /\ [Free EXCEPT !.kind = kind, !.at = at].then = "end"
  BY DEF LockFree, Free, IInv, HolderFits
<1>3. CASE Gatt \/ SendFailsEverywhere \/ (\E n \in Nodes : JoinStart(n) \/ JoinConnects(n) \/ JoinConnectFails(n))
  <2>1. live' = live /\ stopping' = stopping /\ op' = op
    BY <1>3 DEF Gatt, Drop, LateSubscribeFails, SendDropsOne, SendFailsEverywhere, JoinStart, JoinConnects,
                JoinConnectFails, held
  <2>2. QED
    BY <2>1, Unseen
<1>4. CASE (\E c \in Clients : DisconnectDone(c)) \/ ConnectMain \/ ConnectExtra \/ ExtrasDone \/ Subscribe
  <2>1. /\ live' = live /\ stopping' = stopping /\ op'.then = op.then
        /\ op'.at = op.at \/ {op.at, op'.at} \subseteq Opens
    BY <1>1, <1>4 DEF DisconnectDone, ConnectMain, ConnectExtra, ExtrasDone, Subscribe, held, Opens
  <2>2. QED
    BY <2>1, Unseen
<1>5. CASE AskStop
  <2>1. live' = live /\ op' = op /\ stopping = "no" /\ stopping' = "asked"
    BY <1>5 DEF AskStop, held
  <2>2. LockFits'
    BY <2>1 DEF LockFits
  <2>3. UNCHANGED Lock!sessionVars
    BY <2>1 DEF Lock!sessionVars
  <2>4. QED
    BY <2>2, <2>3 DEF GoesOn
<1>6. ASSUME NEW kind \in {"command", "probe"}, NEW usable \in {"none", "call"},
             usable = "none" => ~ live,
             LockFree, ~ Stopped, Enter(kind, usable), UNCHANGED <<reconnects, stopping>>
      PROVE  GoesOn
  <2>1. stopping' = stopping /\ stopping # "gone"
    BY <1>6 DEF Stopped
  <2>2. CASE TearDown(kind, "connect")
    BY <1>1, <2>1, <2>2, TakesDown
  <2>3. CASE live /\ op' = [Free EXCEPT !.kind = kind, !.at = usable] /\ live' = live
    BY <1>2, <1>6, <2>1, <2>3, GoesToUse DEF InUse
  <2>4. CASE ~ live /\ op' = [Free EXCEPT !.kind = kind, !.at = "connect"] /\ live' = live
    BY <1>2, <2>1, <2>4, GoesToConnect
  <2>5. QED
    BY <1>6, <2>2, <2>3, <2>4 DEF Enter, held
<1>7. CASE CommandBegin \/ ProbeBegin
  BY <1>6, <1>7 DEF CommandBegin, ProbeBegin
<1>8. CASE IdleTimeout \/ StopBegin \/ ProbeEnds
  <2>1. CASE IdleTimeout
    BY <1>1, <2>1, TakesDown DEF IdleTimeout
  <2>2. CASE StopBegin
    BY <1>1, <2>2, TakesDown DEF StopBegin
  <2>3. CASE ProbeEnds
    BY <1>1, <2>3, TakesDown DEF ProbeEnds
  <2>4. QED
    BY <1>8, <2>1, <2>2, <2>3
<1>9. ASSUME NEW c \in Clients, ReconnectBegin(c) PROVE GoesOn
  <2>1. stopping' = stopping
    BY <1>9 DEF ReconnectBegin
  <2>2. CASE ~ Stopped /\ TearDown("reconnect", "connect")
    BY <1>1, <2>1, <2>2, TakesDown DEF Stopped
  <2>3. CASE UNCHANGED <<link, node, held, fanout, watched, op, joins>>
    <3>1. live' = live /\ op' = op
      BY <2>3 DEF held
    <3>2. QED
      BY <2>1, <3>1, Unseen
  <2>4. QED
    BY <1>9, <2>2, <2>3 DEF ReconnectBegin
<1>10. CASE Cancelled \/ ConnectFails \/ StartFails
  <2>1. /\ live' = live /\ stopping' = stopping /\ op'.at \in {"none", "close"} /\ op'.then = "end"
    <3>1. CASE Cancelled \/ ConnectFails
      BY <1>2, <3>1 DEF Cancelled, ConnectFails, held
    <3>2. CASE StartFails
      <4>1. op' = [Free EXCEPT !.kind = op.kind, !.at = "close", !.own = op.own]
            /\ live' = live /\ stopping' = stopping
        BY <3>2 DEF StartFails
      <4>2. QED
        BY <4>1 DEF Free
    <3>3. QED
      BY <1>10, <3>1, <3>2
  <2>2. QED
    BY <1>1, <2>1, LetsGo
<1>11. CASE CommandEnds
  <2>1. stopping' = stopping
    BY <1>11 DEF CommandEnds
  <2>2. CASE TearDown("command", "end")
    BY <1>1, <2>1, <2>2, TakesDown
  <2>3. CASE op' = Free /\ live' = live
    BY <1>1, <1>2, <2>1, <2>3, LetsGo
  <2>4. QED
    BY <1>11, <2>2, <2>3 DEF CommandEnds, held
<1>12. CASE CloseEnds
  <2>1. /\ op.at = "close" /\ live' = live
        /\ op' = IF op.then = "connect" /\ ~ (op.kind = "reconnect" /\ Stopped)
                 THEN [op EXCEPT !.at = "connect", !.then = "end"] ELSE Free
        /\ stopping' = IF op.then = "gone" THEN "gone" ELSE stopping
    BY <1>12 DEF CloseEnds, held
  <2>2. CASE op.then = "gone"
    <3>1. op' = Free /\ stopping' = "gone" /\ stopping = "asked" /\ ~ live
      BY <2>1, <2>2 DEF LockFits
    <3>2. LockFits'
      BY <1>2, <2>1, <3>1 DEF LockFits, InUse
    <3>3. Lock!Stop
      BY <1>2, <2>1, <3>1 DEF Lock!Stop
    <3>4. QED
      BY <3>2, <3>3 DEF GoesOn, Lock!SessionNext
  <2>3. CASE op.then # "gone" /\ op' = Free
    BY <1>1, <1>2, <2>1, <2>3, LetsGo
  <2>4. CASE op.then = "connect" /\ op' = [op EXCEPT !.at = "connect", !.then = "end"]
    <3>1. op'.at = "connect" /\ op'.then = "end"
      BY <1>1, <2>4
    <3>2. ~ live /\ stopping # "gone" /\ stopping' = stopping
      BY <2>1, <2>4 DEF IInv, HolderFits, LockFits
    <3>3. QED
      BY <2>1, <3>1, <3>2, GoesToConnect
  <2>5. QED
    BY <2>1, <2>2, <2>3, <2>4
<1>13. CASE StartEnds
  <2>1. /\ op.at = "start" /\ ~ live /\ live' = TRUE /\ stopping' = stopping
        /\ op'.at \in {"none", "call"} /\ op'.then = "end"
    BY <1>13 DEF StartEnds, Free, IInv, HolderFits
  <2>2. stopping # "gone"
    BY <2>1 DEF LockFits
  <2>3. LockFits'
    BY <2>1, <2>2 DEF LockFits
  <2>4. Lock!Up
    BY <2>1, <2>2 DEF Lock!Up
  <2>5. QED
    BY <2>3, <2>4 DEF GoesOn, Lock!SessionNext
<1>14. ASSUME NEW n \in Nodes, JoinTakesLock(n) PROVE GoesOn
  <2>1. LockFree /\ live' = live /\ stopping' = stopping
    BY <1>14 DEF JoinTakesLock, held
  <2>2. CASE StillWanted(n) /\ op' = [Free EXCEPT !.kind = "join", !.at = "add"]
    BY <1>2, <2>1, <2>2, GoesToUse DEF StillWanted, InUse
  <2>3. CASE op' = [Free EXCEPT !.kind = "join", !.at = "close", !.own = <<joins[n].client>>]
    <3>1. op'.at = "close" /\ op'.then = "end"
      BY <2>3 DEF Free
    <3>2. QED
      BY <1>1, <2>1, <3>1, LetsGo
  <2>4. QED
    BY <1>14, <2>2, <2>3 DEF JoinTakesLock
<1>15. ASSUME NEW n \in Nodes, JoinAdds(n) \/ JoinAddFails(n) PROVE GoesOn
  <2>1. op.at = "add" /\ op.then = "end"
    BY <1>1, <1>15 DEF JoinAdds, JoinAddFails, IInv, JoinsFit, HolderFits, LockFits
  <2>2. /\ live' = live /\ stopping' = stopping /\ op'.at \in {"none", "close"} /\ op'.then = "end"
    BY <1>1, <1>2, <1>15, <2>1 DEF JoinAdds, JoinAddFails, held
  <2>3. QED
    BY <1>1, <2>2, LetsGo
<1>16. QED
  BY <1>3, <1>4, <1>5, <1>7, <1>8, <1>9, <1>10, <1>11, <1>12, <1>13, <1>14, <1>15 DEF Step, Late, Locked, Gatt

LEMMA LockGoesOn ==
  ASSUME IInv, LockFits, [Next]_vars
  PROVE  GoesOn
<1>1. CASE Step
  BY <1>1, LockStep
<1>2. CASE UNCHANGED vars
  BY <1>2, Unseen DEF vars, held
<1>3. QED
  BY <1>1, <1>2 DEF Next, Kept, Finished

\* Session is what commands, probes, reconnects, late joins, the idle timer and the stop
\* make of the lock, at every await: nobody connects beside a controller that is held or
\* tears one down under a call, and after async_stop none comes up (_run_connected,
\* _ensure_connected, _async_join_late, _teardown).
THEOREM LinksAreASession == Spec => ImplementsSession
<1>1. Init => LockFits /\ Lock!SessionInit
  BY DEF Init, LockFits, Free, InUse, Lock!SessionInit
<1>2. IInv /\ LockFits /\ [Next]_vars => LockFits' /\ [Lock!SessionNext]_Lock!sessionVars
  BY LockGoesOn DEF GoesOn
<1>3. QED
  BY <1>1, <1>2, LinksAgree, PTL DEF Spec, ImplementsSession, Lock!SessionSpec

\* The safety half of StopFreesEverySlot: once async_stop has returned, a slot is taken
\* only by a late join that was in flight, which closes its link itself (async_stop,
\* _async_join_late); if no command is cancelled while it has links of its own.
THEOREM StopFreesTheRest ==
  ASSUME CancelledSafely
  PROVE  Spec => []StopLeavesOnlyJoins
<1>1. Init => LockFits
  BY DEF Init, LockFits, Free, InUse
<1>2. IInv /\ LockFits /\ [Next]_vars => LockFits'
  BY LockGoesOn DEF GoesOn
<1>3. IInv /\ LockFits => StopLeavesOnlyJoins
  <2>1. SUFFICES ASSUME IInv, LockFits, stopping = "gone", NEW c \in Clients, Alive(c)
                 PROVE  c \in Joining
    BY DEF StopLeavesOnlyJoins, Alive
  <2>2. IsHeld(c) \/ IsOpening(c) \/ IsJoining(c)
    BY <2>1 DEF IInv, NoneLost
  <2>3. ~ IsOpening(c)
    BY <2>1 DEF LockFits, IsOpening
  <2>4. ~ IsHeld(c)
    <3>1. main = None /\ extras = <<>>
      BY <2>1 DEF LockFits, IInv, TypeOK, HeldOnce
    <3>2. Range(extras) = {}
      BY <3>1 DEF Range
    <3>3. QED
      BY <3>1, <3>2, LinksAssumption DEF IsHeld
  <2>5. PICK n \in Nodes : joins[n].at \in {"queued", "adding"} /\ joins[n].client = c
    BY <2>2, <2>3, <2>4 DEF IsJoining
  <2>6. QED
    BY <2>5 DEF Joining
<1>4. QED
  BY <1>1, <1>2, <1>3, LinksAgree, PTL DEF Spec
=============================================================================
