------------------------------ MODULE Discovery ------------------------------
(***************************************************************************)
(* How a coordinator finds the proxy nodes of its network, with            *)
(* CONF_ALL_PROXIES: what the scanners hear, what Home Assistant's merged  *)
(* snapshot says of it, the rule that takes an old advert for silence, and *)
(* the looks that bring a late node into the held links.                   *)
(*                                                                         *)
(* A node is on the air while it is powered and nobody holds its one slot. *)
(* Time is counted in ticks; an age of Long is any age above the limit.    *)
(* What connecting does under the lock is ProxyLinks, when it is tried is  *)
(* Recovery.                                                               *)
(***************************************************************************)
EXTENDS Integers, FiniteSets, FiniteSetsExt, Functions

CONSTANTS
  Nodes,       \* proxy nodes that advertise our Network ID
  Scanners,    \* connectable Bluetooth proxies and adapters
  Near,        \* [Nodes -> the scanners in range of that node]
  Timestamped, \* the scanners that keep a timestamp per device
  MaxAge,      \* PROXY_ADVERT_MAX_AGE
  Retry,       \* LATE_LINK_RETRY
  FirstLook,   \* LATE_LINK_FIRST_LOOK
  ProbeEvery,  \* PROBE_INTERVAL_AVAILABLE
  MaxExtra,    \* MAX_EXTRA_LINKS
  Forever,     \* TRUE under keep-alive 0: a drop reconnects at once
  Nothing

ASSUME DiscoveryAssumption ==
  /\ Timestamped \subseteq Scanners
  /\ Near \in [Nodes -> (SUBSET Scanners) \ {{}}]
  /\ {MaxAge, Retry, FirstLook, ProbeEvery} \subseteq Nat \ {0}
  /\ MaxExtra \in Nat /\ Forever \in BOOLEAN
  /\ Nothing \notin Nodes \cup Scanners

VARIABLES
  free,     \* the nodes that are powered and whose slot no app holds
  lastHeard,\* [Nodes -> [Scanners -> age of what that scanner last heard]]
  merged,   \* [Nodes -> the snapshot's entry: the scanner owning it, its age]
  main,     \* the node of the main link
  extras,   \* the nodes of the other links
  lost,     \* links that have dropped and are still listed
  ended,    \* age of _link_ended_at
  late,     \* [Nodes -> age of _late_link_attempts]
  joining,  \* _joining
  stale,    \* joins begun under a fan-out that is gone
  look,     \* ticks to the late look, None when not armed
  probe,    \* ticks to the next probe
  released  \* history: [Nodes -> how long ago a link of ours to it ended]

air   == <<free, lastHeard, merged>>
links == <<main, extras, lost>>
joins == <<late, joining, stale>>
discoveryVars == <<air, links, ended, joins, look, probe, released>>

Long == MaxAge + 1
Older(age, limit) == IF age < limit THEN age + 1 ELSE age

Up == main # Nothing
HeldNodes == (extras \cup {main}) \ {Nothing}
OnAir(n) == n \in free \ (HeldNodes \ lost)

----------------------------------------------------------------------------
(***************************************************************************)
(* The air.                                                                *)
(***************************************************************************)

\* What scanners hear of a node in a tick.  The merged entry follows its owner;
\* another scanner may take it over, or leave it as it is.
Advert(n, by) ==
  /\ OnAir(n) /\ by # {} /\ \A s \in Scanners : lastHeard[n][s] > 0
  /\ lastHeard' = [lastHeard EXCEPT ![n] = [s \in Scanners |-> IF s \in by THEN 0 ELSE @[s]]]
  /\ \/ \E s \in by : merged' = [merged EXCEPT ![n] = [by |-> s, age |-> 0]]
     \/ merged[n].by \notin by \cup {Nothing} /\ UNCHANGED merged
  /\ UNCHANGED <<free, links, ended, joins, look, probe, released>>

\* An app takes or leaves a slot; a lamp is switched off or on.
Switch(n) ==
  /\ n \in free => n \notin HeldNodes \ lost
  /\ free' = IF n \in free THEN free \ {n} ELSE free \cup {n}
  /\ UNCHANGED <<lastHeard, merged, links, ended, joins, look, probe, released>>

\* Home Assistant drops an entry nobody has heard for long.
Forget(n) ==
  /\ merged[n].by # Nothing /\ \A s \in Scanners : lastHeard[n][s] = Long
  /\ merged' = [merged EXCEPT ![n] = [by |-> Nothing, age |-> Long]]
  /\ UNCHANGED <<free, lastHeard, links, ended, joins, look, probe, released>>

\* A node on the air is heard by some scanner in every tick; one whose slot
\* we have just freed may take up to MaxAge to be back.
Audible(n) ==
  OnAir(n) => (\E s \in Scanners : lastHeard[n][s] = 0) \/ released[n] < MaxAge

\* Timers that are due fire before time goes on, and under keep-alive 0 a drop
\* has been answered by then: the fan-out let go of the link, or all are torn
\* down.
Tick ==
  /\ \A n \in Nodes : Audible(n)
  /\ look # 0 /\ probe # 0
  /\ Forever => lost = {}
  /\ lastHeard' = [n \in Nodes |-> [s \in Scanners |-> Older(lastHeard[n][s], Long)]]
  /\ merged' = [n \in Nodes |-> [merged[n] EXCEPT !.age = Older(@, Long)]]
  /\ ended' = Older(ended, MaxAge)
  /\ late' = [n \in Nodes |-> Older(late[n], Retry)]
  /\ released' = [n \in Nodes |-> Older(released[n], MaxAge)]
  /\ look' = IF look = Nothing THEN Nothing ELSE look - 1
  /\ probe' = probe - 1
  /\ UNCHANGED <<free, links, joining, stale>>

----------------------------------------------------------------------------
(***************************************************************************)
(* The snapshot.                                                           *)
(***************************************************************************)

\* Slip: the merged entry's own age, whoever else hears the node.
MergedAge(n) == merged[n].age

\* The scanners are asked only once the entry itself says stale.
AdvertAge(n) ==
  IF merged[n].age <= MaxAge THEN merged[n].age
  ELSE Min({merged[n].age} \cup {lastHeard[n][s] : s \in Timestamped})

\* find_proxy_addresses, with the limit on the age lifted or not.
FindProxies(lifted, exclude) ==
  {n \in Nodes \ exclude : merged[n].by # Nothing /\ (lifted \/ AdvertAge(n) <= MaxAge)}

HeldTheSlotRecently == ended < MaxAge

----------------------------------------------------------------------------
(***************************************************************************)
(* The links.                                                              *)
(***************************************************************************)

\* _ensure_connected: one node, and what connects of the others, the most the
\* limit allows.  The late look is armed anew.
Connect(n, others) ==
  /\ ~ Up
  /\ n \in FindProxies(HeldTheSlotRecently, {}) \cap free
  /\ others \subseteq FindProxies(HeldTheSlotRecently, {n}) \cap free
  /\ Cardinality(others) <= MaxExtra
  /\ main' = n /\ extras' = others
  /\ look' = FirstLook
  /\ UNCHANGED <<air, lost, ended, joins, probe, released>>

Release(nodes) == released' = [n \in Nodes |-> IF n \in nodes THEN 0 ELSE released[n]]

\* _on_client_disconnected.
LinkDrops(n) ==
  /\ n \in HeldNodes \ lost
  /\ lost' = lost \cup {n}
  /\ ended' = 0
  /\ Release({n})
  /\ UNCHANGED <<air, main, extras, joins, look, probe>>

\* _teardown: an idle timer, an error, or the start of a reconnect.  A main
\* link that had dropped was marked when it did.
TearDown ==
  /\ Up
  /\ main' = Nothing /\ extras' = {} /\ lost' = {}
  /\ ended' = IF main \in lost THEN ended ELSE 0
  /\ Release(HeldNodes \ lost)
  /\ stale' = joining
  /\ UNCHANGED <<air, late, joining, look, probe>>

\* _on_link_dropped: the fan-out goes on without n, and it becomes a late-join
\* candidate after Retry.  This marks no end of a link.
FanoutDrops(n) ==
  /\ n \in HeldNodes /\ HeldNodes # {n}
  /\ \/ n = main /\ \E next \in extras : main' = next /\ extras' = extras \ {next}
     \/ n # main /\ extras' = extras \ {n} /\ UNCHANGED main
  /\ lost' = lost \ {n}
  /\ Release({n} \ lost)
  /\ late' = [late EXCEPT ![n] = 0]
  /\ UNCHANGED <<air, ended, joining, stale, look, probe>>

----------------------------------------------------------------------------
(***************************************************************************)
(* Late joins.                                                             *)
(***************************************************************************)

\* _maybe_join_late, for each of the nodes.
MaybeJoinLate(nodes) ==
  LET start == {n \in nodes : Up /\ n \notin HeldNodes \cup joining /\ late[n] = Retry
                                /\ Cardinality(HeldNodes) <= MaxExtra} IN
  /\ joining' = joining \cup start
  /\ late' = [n \in Nodes |-> IF n \in start THEN 0 ELSE late[n]]
  /\ UNCHANGED stale

\* The advert callback.  Home Assistant need not call it for an advert that
\* says what the one before said.
ProxySeen(n) ==
  /\ \E s \in Scanners : lastHeard[n][s] = 0
  /\ OnAir(n)
  /\ MaybeJoinLate({n})
  /\ UNCHANGED <<air, links, ended, look, probe, released>>

JoinLateNodes == MaybeJoinLate(FindProxies(FALSE, HeldNodes))

LateLook ==
  /\ look = 0 /\ look' = Nothing
  /\ JoinLateNodes
  /\ UNCHANGED <<air, links, ended, probe, released>>

\* Slip: the periodic tick only probes.
ProbeOnly ==
  /\ probe = 0 /\ probe' = ProbeEvery
  /\ UNCHANGED <<air, links, ended, joins, look, released>>

\* _probe_callback, up to the probe itself.
ProbeFires ==
  /\ probe = 0 /\ probe' = ProbeEvery
  /\ JoinLateNodes
  /\ UNCHANGED <<air, links, ended, look, released>>

\* _async_join_late ends.  A join of a fan-out that is gone, or without room,
\* is closed again.
JoinEnds(n) ==
  /\ n \in joining
  /\ joining' = joining \ {n} /\ stale' = stale \ {n}
  /\ \/ /\ OnAir(n) /\ Up /\ n \notin stale \cup HeldNodes
        /\ Cardinality(HeldNodes) <= MaxExtra
        /\ extras' = extras \cup {n}
     \/ UNCHANGED extras
  /\ UNCHANGED <<air, main, lost, ended, late, look, probe, released>>

----------------------------------------------------------------------------
DiscoveryInit ==
  /\ free \in SUBSET Nodes
  /\ lastHeard = [n \in Nodes |-> [s \in Scanners |-> Long]]
  /\ merged = [n \in Nodes |-> [by |-> Nothing, age |-> Long]]
  /\ main = Nothing /\ extras = {} /\ lost = {}
  /\ ended = MaxAge
  /\ late = [n \in Nodes |-> Retry] /\ joining = {} /\ stale = {}
  /\ look = Nothing /\ probe = ProbeEvery
  /\ released = [n \in Nodes |-> MaxAge]

DiscoveryNext ==
  \/ Tick \/ TearDown \/ LateLook \/ ProbeFires
  \/ \E n \in Nodes :
       \/ Switch(n) \/ Forget(n) \/ LinkDrops(n) \/ FanoutDrops(n)
       \/ ProxySeen(n) \/ JoinEnds(n)
       \/ \E by \in SUBSET Near[n] : Advert(n, by)
       \/ \E others \in SUBSET (Nodes \ {n}) : Connect(n, others)

DiscoverySpec == DiscoveryInit /\ [][DiscoveryNext]_discoveryVars

\* Time passes whatever the nodes do, a node on the air is heard, timers fire,
\* connects end, and under keep-alive 0 a drop is answered.  The advert callback
\* is promised nothing.
Fairness ==
  /\ SF_discoveryVars(Tick) /\ WF_discoveryVars(LateLook) /\ WF_discoveryVars(ProbeFires)
  /\ WF_discoveryVars(Forever /\ lost # {} /\ TearDown)
  /\ \A n \in Nodes : WF_discoveryVars(JoinEnds(n)) /\ WF_discoveryVars(\E by \in SUBSET Near[n] : Advert(n, by))

FairDiscoverySpec == DiscoverySpec /\ Fairness

----------------------------------------------------------------------------
(***************************************************************************)
(* Properties.                                                             *)
(***************************************************************************)

\* While nothing is held, the lookup misses no live node: neither one that
\* some scanner still hears, whichever scanner owns the merged entry, nor one
\* that has been silent only because a link of ours held its slot until now
\* (and Home Assistant has not forgotten it).
LiveNodeIsFound ==
  ~ Up =>
    \A n \in free :
      \/ merged[n].by = Nothing
      \/ released[n] >= MaxAge /\ \A s \in Scanners : lastHeard[n][s] > MaxAge
      \/ n \in FindProxies(HeldTheSlotRecently, {})

\* A look at the snapshot, the late one or that of the periodic tick, passes over no
\* straggler: with room for it, a node beside the held links that a scanner with
\* timestamps has heard of late is dialled, unless it was within Retry, whichever
\* scanner owns its entry (_join_late_nodes, _maybe_join_late).
LooksMissNobody ==
  [][(LateLook \/ ProbeFires) /\ Up /\ Cardinality(HeldNodes) <= MaxExtra =>
       \A n \in Nodes \ HeldNodes :
         late[n] = Retry /\ (\E s \in Timestamped : lastHeard[n][s] <= MaxAge)
           => n \in joining']_discoveryVars

\* A node that stays on the air beside the held links, with room for it, is
\* dialled again and again until it joins, although its unchanging advert may
\* never be announced a second time.
StragglersAreTried ==
  \A n \in Nodes :
    []<>(~ OnAir(n) \/ ~ Up \/ Cardinality(HeldNodes) > MaxExtra \/ n \in HeldNodes \cup joining)
=============================================================================
