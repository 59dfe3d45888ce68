----------------------------- MODULE ProxyLinks -----------------------------
(***************************************************************************)
(* The GATT links a coordinator holds with CONF_ALL_PROXIES: one fan-out   *)
(* over a main link and up to MaxExtra others, each the only proxy slot of *)
(* its node.                                                               *)
(*                                                                         *)
(* Everything that opens or tears down links runs under the coordinator's  *)
(* lock and awaits in the middle; three things do not wait for the lock:   *)
(* a link that drops (bleak's callback), a bearer the fan-out stops using  *)
(* (_on_link_dropped, from the TX pump) and the connect of a late join.    *)
(*                                                                         *)
(* A client is one BleakClient and the bearer made from it.  Client values *)
(* are reused once a client is closed and nothing refers to it.            *)
(***************************************************************************)
EXTENDS Integers, Sequences, FiniteSets, SequencesExt, Functions

CONSTANTS
  Nodes,        \* proxy nodes of the network, one slot each
  Clients,      \* bound: clients in existence at a time
  MaxExtra,     \* MAX_EXTRA_LINKS
  KeepAlives,   \* of TRUE (keep-alive 0) and FALSE: the option of the entry
  CancelAt,     \* where a command's task may be cancelled from outside
  None

ASSUME LinksAssumption ==
  /\ MaxExtra \in Nat
  /\ KeepAlives \subseteq BOOLEAN
  /\ CancelAt \subseteq {"connect", "extras", "start", "call"}
  /\ None \notin Clients \cup Nodes

VARIABLES
  forever,    \* _idle_timeout <= 0
  link,       \* [Clients -> state of the GATT link]
  node,       \* [Clients -> the node it is linked to]
  main,       \* _client
  extras,     \* _extra_clients
  addresses,  \* _proxy_addresses
  linked,     \* the clients in _link_by_bearer
  live,       \* TRUE while _controller and _fanout are set
  bearers,    \* FanoutBearer._bearers
  deaf,       \* bearers whose subscribe failed after its grace period
  dead,       \* the pump, or the whole fan-out, has failed
  watched,    \* clients with a disconnected callback
  reconnects, \* clients a reconnect task is waiting for
  op,         \* who holds the lock, and where it awaits
  joins,      \* [Nodes -> the late join of that node]
  stopping    \* "no", "asked" (_stopped), "gone" (async_stop returned)

held    == <<main, extras, addresses, linked, live>>
fanout  == <<bearers, deaf, dead>>
vars    == <<forever, link, node, held, fanout, watched, reconnects, op, joins, stopping>>

LinkStates == {"unused", "open", "dropped", "closing"}
Kinds == {"free", "command", "probe", "reconnect", "idle", "stop", "join"}
Stages == {"none", "connect", "extras", "start", "call", "add", "close"}
JoinStages == {"none", "connecting", "queued", "adding", "closing"}

Free == [kind |-> "free", at |-> "none", own |-> <<>>, todo |-> <<>>, good |-> <<>>,
         then |-> "end"]
NoJoin == [at |-> "none", client |-> None, stale |-> FALSE]

Held == IF main = None THEN extras ELSE <<main>> \o extras
Holds(c) == c \in Range(Held)

LockFree == op.kind = "free"
Stopped == stopping # "no"

----------------------------------------------------------------------------
(***************************************************************************)
(* GATT links.                                                             *)
(***************************************************************************)

\* A node has one slot: taken from the connect until the link has dropped or
\* its disconnect has finished.
SlotFree(n) == \A c \in Clients : link[c] \in {"open", "closing"} => node[c] # n

\* Clients differ by name only: the next one is any that nothing refers to.
Unused == {c \in Clients \ reconnects : link[c] = "unused"}

Open(c, n) ==
  /\ Unused # {} /\ c = CHOOSE d \in Unused : TRUE
  /\ SlotFree(n)
  /\ link' = [link EXCEPT ![c] = "open"]
  /\ node' = [node EXCEPT ![c] = n]

\* client.disconnect() is called on every client of cs.
Closing(cs) == [c \in Clients |-> IF c \in cs THEN "closing" ELSE link[c]]

\* _disconnect has finished: the client is gone, and whoever awaited it goes
\* on when it was the last.
DisconnectDone(c) ==
  /\ link[c] = "closing"
  /\ link' = [link EXCEPT ![c] = "unused"] /\ node' = [node EXCEPT ![c] = None]
  /\ deaf' = deaf \ {c} /\ watched' = watched \ {c}
  /\ op' = [op EXCEPT !.own = RemoveFirst(@, c)]
  /\ UNCHANGED <<held, bearers, dead, reconnects, joins, stopping>>

\* The link drops under us.  _on_client_disconnected acts on it only for a
\* held link, with a callback set, under keep-alive 0, before async_stop.
Drop(c) ==
  /\ link[c] = "open"
  /\ link' = [link EXCEPT ![c] = "dropped"]
  /\ reconnects' =
       IF c \in watched /\ Holds(c) /\ forever /\ ~ Stopped
       THEN reconnects \cup {c} ELSE reconnects
  /\ UNCHANGED <<node, held, fanout, watched, op, joins, stopping>>

\* GattBearer._on_late_subscribe, with an error.
LateSubscribeFails(c) ==
  /\ live /\ c \in Range(bearers) \ deaf
  /\ deaf' = deaf \cup {c}
  /\ UNCHANGED <<link, node, held, bearers, dead, watched, reconnects, op, joins, stopping>>

----------------------------------------------------------------------------
(***************************************************************************)
(* The fan-out drops a child: _on_link_dropped, run by the pump's task.    *)
(***************************************************************************)

\* Slip: the dropped main link keeps its role.
LinkDroppedWithoutPromotion(c) ==
  /\ linked' = linked \ {c}
  /\ addresses' = RemoveFirst(addresses, node[c])
  /\ extras' = RemoveFirst(extras, c)
  /\ UNCHANGED main
  /\ link' = IF c = main THEN link ELSE Closing({c})

\* The slot is freed in the background, except that of a main link nobody
\* can replace: teardown frees that one.
LinkDropped(c) ==
  /\ linked' = linked \ {c}
  /\ addresses' = RemoveFirst(addresses, node[c])
  /\ \/ /\ c = main /\ extras = <<>>
        /\ UNCHANGED <<main, extras, link>>
     \/ /\ c = main /\ extras # <<>>
        /\ main' = Head(extras) /\ extras' = Tail(extras)
        /\ link' = Closing({c})
     \/ /\ c # main
        /\ extras' = RemoveFirst(extras, c)
        /\ link' = Closing({c})
        /\ UNCHANGED main

Failed == dead \/ Range(bearers) \subseteq deaf

\* FanoutBearer.send drops one child: a deaf one before the write, one whose
\* write failed after it.  Several at once are several of these.
SendDropsOne(c) ==
  /\ live /\ ~ dead
  /\ c \in Range(bearers)
  /\ \/ c \in deaf
     \/ c \notin deaf /\ Range(bearers) \cap deaf = {} /\ Len(bearers) > 1
  /\ bearers' = RemoveFirst(bearers, c)
  /\ dead' = (bearers' = <<>>)
  /\ LinkDropped(c)
  /\ UNCHANGED <<node, live, deaf, watched, reconnects, op, joins, stopping>>

\* No child took the write: the fan-out is dead, its children are kept.
SendFailsEverywhere ==
  /\ live /\ ~ dead
  /\ bearers # <<>> /\ Range(bearers) \cap deaf = {}
  /\ dead' = TRUE
  /\ UNCHANGED <<link, node, held, bearers, deaf, watched, reconnects, op, joins, stopping>>

----------------------------------------------------------------------------
(***************************************************************************)
(* Under the lock.                                                         *)
(***************************************************************************)

\* _teardown: the references go first, then each client is disconnected.
\* The addresses stay; a join that is under way sees another fan-out.
TearDown(kind, then) ==
  /\ op' = [Free EXCEPT !.kind = kind, !.at = "close", !.own = Held, !.then = then]
  /\ link' = Closing(Range(Held))
  /\ main' = None /\ extras' = <<>> /\ linked' = {} /\ live' = FALSE
  /\ bearers' = <<>> /\ dead' = FALSE
  /\ joins' = [n \in Nodes |-> [joins[n] EXCEPT !.stale = @ \/ joins[n].at # "none"]]
  /\ UNCHANGED <<node, addresses, deaf, watched>>

Usable == live /\ link[main] = "open" /\ ~ Failed

\* Where _ensure_connected starts for a caller of that kind.
Enter(kind, usable) ==
  \/ /\ live /\ Usable
     /\ op' = [Free EXCEPT !.kind = kind, !.at = usable]
     /\ UNCHANGED <<link, node, held, fanout, watched, joins>>
  \/ /\ live /\ ~ Usable
     /\ TearDown(kind, "connect")
  \/ /\ ~ live
     /\ op' = [Free EXCEPT !.kind = kind, !.at = "connect"]
     /\ UNCHANGED <<link, node, held, fanout, watched, joins>>

\* _run_connected, up to its call.  After async_stop it returns at once.
CommandBegin ==
  /\ LockFree /\ ~ Stopped
  /\ Enter("command", "call")
  /\ UNCHANGED <<reconnects, stopping>>

\* _async_probe: only when nothing is held.
ProbeBegin ==
  /\ LockFree /\ ~ Stopped /\ ~ live
  /\ Enter("probe", "none")
  /\ UNCHANGED <<reconnects, stopping>>

\* _async_reconnect: somebody may have been there first.
ReconnectBegin(c) ==
  /\ LockFree /\ c \in reconnects
  /\ reconnects' = reconnects \ {c}
  /\ \/ ~ Stopped /\ Holds(c) /\ TearDown("reconnect", "connect")
     \/ /\ Stopped \/ ~ Holds(c)
        /\ UNCHANGED <<link, node, held, fanout, watched, op, joins>>
  /\ UNCHANGED stopping

\* _idle_callback.
IdleTimeout ==
  /\ LockFree /\ live /\ ~ forever
  /\ TearDown("idle", "end")
  /\ UNCHANGED <<reconnects, stopping>>

AskStop ==
  /\ stopping = "no" /\ stopping' = "asked"
  /\ UNCHANGED <<link, node, held, fanout, watched, reconnects, op, joins>>

\* async_stop gets the lock.
StopBegin ==
  /\ LockFree /\ stopping = "asked"
  /\ TearDown("stop", "gone")
  /\ UNCHANGED <<reconnects, stopping>>

\* The clients this holder awaited are closed.  A reconnect calls
\* _ensure_connected now, which looks at _stopped; for a command that is past.
CloseEnds ==
  /\ op.at = "close" /\ op.own = <<>>
  /\ op' = IF op.then = "connect" /\ ~ (op.kind = "reconnect" /\ Stopped)
           THEN [op EXCEPT !.at = "connect", !.then = "end"] ELSE Free
  /\ stopping' = IF op.then = "gone" THEN "gone" ELSE stopping
  /\ joins' = [n \in Nodes |-> IF joins[n].at = "closing" THEN NoJoin ELSE joins[n]]
  /\ UNCHANGED <<link, node, held, fanout, watched, reconnects>>

(***************************************************************************)
(* _ensure_connected.  _stopped was looked at when it began, not again.    *)
(***************************************************************************)

\* No node is heard, or the main link cannot be opened.
ConnectFails ==
  /\ op.at = "connect"
  /\ op' = Free
  /\ UNCHANGED <<link, node, held, fanout, watched, reconnects, joins, stopping>>

ConnectMain ==
  /\ op.at = "connect"
  /\ \E c \in Clients, n \in Nodes :
       /\ Open(c, n)
       /\ op' = [op EXCEPT !.at = "extras", !.own = <<c>>]
  /\ UNCHANGED <<held, fanout, watched, reconnects, joins, stopping>>

\* _connect_extra_links: one link more, as many times as the limit allows.
ConnectExtra ==
  /\ op.at = "extras" /\ Len(op.own) <= MaxExtra
  /\ \E c \in Clients, n \in Nodes :
       /\ \A d \in Range(op.own) : node[d] # n
       /\ Open(c, n)
       /\ op' = [op EXCEPT !.own = Append(@, c)]
  /\ UNCHANGED <<held, fanout, watched, reconnects, joins, stopping>>

\* The fan-out is built over what connected.
ExtrasDone ==
  /\ op.at = "extras"
  /\ op' = [op EXCEPT !.at = "start", !.todo = op.own]
  /\ linked' = Range(op.own)
  /\ UNCHANGED <<link, node, main, extras, addresses, live, fanout, watched, reconnects,
                 joins, stopping>>

\* FanoutBearer.start, one link after the other.  A client that has dropped
\* cannot subscribe; one whose subscribe stays unconfirmed counts as subscribed.
Subscribe ==
  /\ op.at = "start" /\ op.todo # <<>>
  /\ \/ /\ link[Head(op.todo)] = "open"
        /\ op' = [op EXCEPT !.todo = Tail(@), !.good = Append(@, Head(op.todo))]
     \/ op' = [op EXCEPT !.todo = Tail(@)]
  /\ UNCHANGED <<link, node, held, fanout, watched, reconnects, joins, stopping>>

\* Slip: the extra links are forgotten when the main one cannot be used.
StartFailsMainOnly ==
  /\ op.at = "start"
  /\ linked' = {}
  /\ link' = Closing({Head(op.own)})
  /\ op' = [Free EXCEPT !.kind = op.kind, !.at = "close", !.own = <<Head(op.own)>>]
  /\ UNCHANGED <<node, main, extras, addresses, live, fanout, watched, reconnects,
                 joins, stopping>>

\* No link could subscribe, or the budget ran out: every client is closed.
StartFails ==
  /\ op.at = "start"
  /\ linked' = {}
  /\ link' = Closing(Range(op.own))
  /\ op' = [Free EXCEPT !.kind = op.kind, !.at = "close", !.own = op.own]
  /\ UNCHANGED <<node, main, extras, addresses, live, fanout, watched, reconnects,
                 joins, stopping>>

\* The links that subscribed become the held ones, the first of them the main
\* one; the others are freed.  Only now does a drop have a callback.  A probe
\* under a timed keep-alive goes on to hand the links back.
StartEnds ==
  /\ op.at = "start" /\ op.todo = <<>> /\ op.good # <<>>
  /\ main' = Head(op.good) /\ extras' = Tail(op.good)
  /\ addresses' = [i \in DOMAIN op.good |-> node[op.good[i]]]
  /\ linked' = Range(op.good)
  /\ live' = TRUE
  /\ bearers' = op.good /\ dead' = FALSE
  /\ watched' = watched \cup Range(op.good)
  /\ link' = Closing(Range(op.own) \ Range(op.good))
  /\ op' = IF op.kind = "command" \/ (op.kind = "probe" /\ ~ forever)
           THEN [Free EXCEPT !.kind = op.kind, !.at = "call"] ELSE Free
  /\ UNCHANGED <<node, deaf, reconnects, joins, stopping>>

\* The end of a command: an error or a dead transport costs the link.
CommandEnds ==
  /\ op.at = "call" /\ op.kind = "command"
  /\ \/ ~ Failed /\ op' = Free
        /\ UNCHANGED <<link, node, held, fanout, watched, joins>>
     \/ TearDown("command", "end")
  /\ UNCHANGED <<reconnects, stopping>>

ProbeEnds ==
  /\ op.at = "call" /\ op.kind = "probe"
  /\ TearDown("probe", "end")
  /\ UNCHANGED <<reconnects, stopping>>

\* A command's task is cancelled: CancelledError is no Exception, so the
\* cleanup of _ensure_connected does not run.
Cancelled ==
  /\ op.kind = "command" /\ op.at \in CancelAt
  /\ op' = Free
  /\ UNCHANGED <<link, node, held, fanout, watched, reconnects, joins, stopping>>

----------------------------------------------------------------------------
(***************************************************************************)
(* Late joins: _maybe_join_late, _async_join_late.                         *)
(***************************************************************************)

JoinStart(n) ==
  /\ ~ Stopped /\ live
  /\ joins[n].at = "none"
  /\ n \notin Range(addresses) /\ Len(addresses) <= MaxExtra
  /\ joins' = [joins EXCEPT ![n] = [NoJoin EXCEPT !.at = "connecting"]]
  /\ UNCHANGED <<link, node, held, fanout, watched, reconnects, op, stopping>>

\* The connect runs outside the lock.
JoinConnects(n) ==
  /\ joins[n].at = "connecting"
  /\ \E c \in Clients :
       /\ Open(c, n)
       /\ joins' = [joins EXCEPT ![n].at = "queued", ![n].client = c]
  /\ UNCHANGED <<held, fanout, watched, reconnects, op, stopping>>

JoinConnectFails(n) ==
  /\ joins[n].at = "connecting"
  /\ joins' = [joins EXCEPT ![n] = NoJoin]
  /\ UNCHANGED <<link, node, held, fanout, watched, reconnects, op, stopping>>

\* Slip: what held before the connect is taken to hold under the lock.
JoinTakesLockUnchecked(n) ==
  /\ LockFree /\ joins[n].at = "queued"
  /\ op' = [Free EXCEPT !.kind = "join", !.at = "add"]
  /\ joins' = [joins EXCEPT ![n].at = "adding"]
  /\ UNCHANGED <<link, node, held, fanout, watched, reconnects, stopping>>

StillWanted(n) ==
  /\ ~ Stopped /\ ~ joins[n].stale /\ live
  /\ n \notin Range(addresses) /\ Len(addresses) <= MaxExtra

\* A client that has dropped meanwhile cannot subscribe.
JoinTakesLock(n) ==
  /\ LockFree /\ joins[n].at = "queued"
  /\ \/ /\ StillWanted(n) /\ link[joins[n].client] = "open"
        /\ op' = [Free EXCEPT !.kind = "join", !.at = "add"]
        /\ joins' = [joins EXCEPT ![n].at = "adding"]
        /\ UNCHANGED link
     \/ /\ ~ StillWanted(n) \/ link[joins[n].client] = "dropped"
        /\ op' = [Free EXCEPT !.kind = "join", !.at = "close", !.own = <<joins[n].client>>]
        /\ link' = Closing({joins[n].client})
        /\ joins' = [joins EXCEPT ![n].at = "closing"]
  /\ UNCHANGED <<node, held, fanout, watched, reconnects, stopping>>

\* fanout.add succeeded: nothing awaits between here and the filter refresh.
JoinAdds(n) ==
  /\ joins[n].at = "adding"
  /\ LET c == joins[n].client IN
     /\ bearers' = Append(bearers, c)
     /\ linked' = linked \cup {c}
     /\ extras' = Append(extras, c)
     /\ watched' = watched \cup {c}
     /\ addresses' = Append(addresses, n)
  /\ op' = Free
  /\ joins' = [joins EXCEPT ![n] = NoJoin]
  /\ UNCHANGED <<link, node, main, live, deaf, dead, reconnects, stopping>>

JoinAddFails(n) ==
  /\ joins[n].at = "adding"
  /\ op' = [op EXCEPT !.at = "close", !.own = <<joins[n].client>>]
  /\ link' = Closing({joins[n].client})
  /\ joins' = [joins EXCEPT ![n].at = "closing"]
  /\ UNCHANGED <<node, held, fanout, watched, reconnects, stopping>>

----------------------------------------------------------------------------
Init ==
  /\ forever \in KeepAlives
  /\ link = [c \in Clients |-> "unused"]
  /\ node = [c \in Clients |-> None]
  /\ main = None /\ extras = <<>> /\ addresses = <<>> /\ linked = {} /\ live = FALSE
  /\ bearers = <<>> /\ deaf = {} /\ dead = FALSE
  /\ watched = {} /\ reconnects = {}
  /\ op = Free
  /\ joins = [n \in Nodes |-> NoJoin]
  /\ stopping = "no"

\* async_stop has returned and every task has run out.
Finished ==
  /\ stopping = "gone" /\ LockFree /\ reconnects = {}
  /\ \A n \in Nodes : joins[n].at = "none"
  /\ \A c \in Clients : link[c] # "closing"
  /\ UNCHANGED vars

Gatt == \E c \in Clients : Drop(c) \/ LateSubscribeFails(c) \/ SendDropsOne(c)

Late == \E n \in Nodes :
  JoinConnects(n) \/ JoinConnectFails(n) \/ JoinTakesLock(n) \/ JoinAdds(n) \/ JoinAddFails(n)

Locked ==
  \/ CloseEnds
  \/ ConnectFails \/ ConnectMain \/ ConnectExtra \/ ExtrasDone
  \/ Subscribe \/ StartFails \/ StartEnds
  \/ CommandEnds \/ ProbeEnds

Step ==
  \/ Gatt \/ SendFailsEverywhere
  \/ CommandBegin \/ ProbeBegin \/ IdleTimeout \/ AskStop \/ StopBegin \/ Cancelled
  \/ \E c \in Clients : ReconnectBegin(c) \/ DisconnectDone(c)
  \/ \E n \in Nodes : JoinStart(n)
  \/ Late \/ Locked

\* The keep-alive is read once, when the entry is loaded.
Kept(A) == A /\ UNCHANGED forever

Next == Kept(Step) \/ Finished

Spec == Init /\ [][Next]_vars

\* Every await ends: connects and subscribes have a timeout, a disconnect
\* returns, and the loop runs every task that is ready.
Fairness ==
  /\ WF_vars(Kept(Locked)) /\ WF_vars(Kept(Late))
  /\ WF_vars(Kept(StopBegin))
  /\ \A c \in Clients : WF_vars(Kept(DisconnectDone(c))) /\ WF_vars(Kept(ReconnectBegin(c)))

FairSpec == Spec /\ Fairness

----------------------------------------------------------------------------
(***************************************************************************)
(* Properties.                                                             *)
(***************************************************************************)

TypeOK ==
  /\ forever \in BOOLEAN
  /\ link \in [Clients -> LinkStates] /\ node \in [Clients -> Nodes \cup {None}]
  /\ main \in Clients \cup {None} /\ extras \in Seq(Clients)
  /\ addresses \in Seq(Nodes) /\ linked \subseteq Clients
  /\ live \in BOOLEAN /\ (live <=> main # None)
  /\ bearers \in Seq(Clients) /\ deaf \subseteq Clients /\ dead \in BOOLEAN
  /\ watched \subseteq Clients /\ reconnects \subseteq Clients
  /\ op \in [kind : Kinds, at : Stages, own : Seq(Clients), todo : Seq(Clients),
            good : Seq(Clients), then : {"end", "connect", "gone"}]
  /\ joins \in [Nodes -> [at : JoinStages, client : Clients \cup {None}, stale : BOOLEAN]]
  /\ stopping \in {"no", "asked", "gone"}

Joining == {joins[n].client : n \in {m \in Nodes : joins[m].at \in {"queued", "adding"}}}
Opening == IF op.at \in {"extras", "start"} THEN Range(op.own) ELSE {}

\* No GATT client is ever left open with nobody to close it: each one is held,
\* being set up by the holder of the lock, or in the hands of a late join,
\* and of one of them only.
NoLeakedLink ==
  /\ {c \in Clients : link[c] \in {"open", "dropped"}}
       = Range(Held) \cup Opening \cup Joining
  /\ Range(Held) \cap (Opening \cup Joining) = {} /\ Opening \cap Joining = {}

\* The lists kept of the links agree, whatever dropped or joined in between.
\* Under a live controller the addresses, which late join trusts, are the nodes
\* of the links in use, in their order, no node twice and never more than the
\* limit.  In use are what the fan-out sends through: every extra link, and the
\* main one unless the fan-out gave it up with nobody to replace it; that is how
\* the drop handler knows a link, and the main client is one of them for as long
\* as the fan-out has any.
LinksAreTracked ==
  live =>
    LET used == IF main \in linked THEN Held ELSE extras IN
    /\ addresses = [i \in 1 .. Len(used) |-> node[used[i]]]
    /\ IsInjective(addresses) /\ Len(addresses) <= MaxExtra + 1
    /\ Range(bearers) = linked /\ linked = Range(used)
    /\ bearers # <<>> /\ ~ dead => main \in linked

\* The lock as the others see it: what is torn down was handed over, and only the holder
\* of the lock hands over (_ensure_connected, _run_connected, _teardown).
Lock == INSTANCE Session WITH
  held <- live, calling <- op.at \in {"call", "add"}, stopped <- stopping = "gone", Restarts <- FALSE

ImplementsSession == Lock!SessionSpec

\* Once async_stop has returned, a slot is taken only by a late join that was in flight:
\* the joins are tasks of their own, nobody waits for them (_async_join_late, async_stop).
StopLeavesOnlyJoins ==
  stopping = "gone" => \A c \in Clients : link[c] \in {"open", "dropped"} => c \in Joining

\* Stopping frees every slot for good, whatever was in flight: a connect under
\* the lock, a late join outside it, a disconnect in the background.
StopFreesEverySlot ==
  stopping = "asked" ~> [](stopping = "gone" /\ \A c \in Clients : link[c] = "unused")
=============================================================================
