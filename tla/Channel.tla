------------------------------- MODULE Channel -------------------------------
(***************************************************************************)
(* The sending side, from a PDU queued by the controller to the frames the *)
(* proxies put together: the BearerPump, the FanoutBearer over several     *)
(* links, a GattBearer on each, and the proxy filter that the first        *)
(* messages of a link claim.                                               *)
(*                                                                         *)
(* The writes of one message run concurrently over the links, and one      *)
(* after the other on a link; each may fail.  A subscribe may be confirmed, *)
(* refused, or neither in time: then it is taken for granted, and may      *)
(* still fail.                                                             *)
(***************************************************************************)
EXTENDS ProxyPdu

CONSTANTS
  Links,
  First,     \* the links held when the controller starts
  Mtu,       \* the frame each can carry (GattBearer.max_frame)
  Sizes,     \* the sizes of a network PDU
  MaxPdus    \* bound: PDUs queued

ASSUME ChannelAssumption ==
  /\ First \subseteq Links /\ First # {} /\ Mtu \in [Links -> Nat \ {0, 1}]
  /\ Sizes \subseteq Nat \ {0} /\ MaxPdus \in Nat

VARIABLES
  sent,        \* history: the PDUs queued, in order: what each is and its size
  queue,       \* BearerPump._queue, of their numbers
  held,        \* the PDU in the pump's hands, 0 if none
  unfinished,  \* the queue's unfinished tasks
  pump,        \* "unstarted", "running", "dead", "stopped"
  bearers,     \* FanoutBearer._bearers
  sub,         \* the subscribe of each link: "none", "late", "ok", "refused", "failed"
  out,         \* the frames each link has still to write of the PDU in hand
  result,      \* how its write went: "none", "pending", "ok", "error"
  dead,        \* FanoutBearer._dead
  freed,       \* the links the owner was told to free (on_drop)
  flush,       \* a flush: "none", "waiting", "done"
  mark,        \* history: the PDUs queued when it was called
  peer,        \* the proxy's reassembler of each link
  got,         \* history: the numbers of the messages each proxy put together
  filter       \* its accept list: "empty", "cleared", "ours"

vars == <<sent, queue, held, unfinished, pump, bearers, sub, out, result, dead, freed, flush, mark,
          peer, got, filter>>
sender == <<queue, held, unfinished, pump>>
fanout == <<bearers, sub, dead, freed>>
proxies == <<peer, got, filter>>

----------------------------------------------------------------------------
(***************************************************************************)
(* Queueing.                                                               *)
(***************************************************************************)

Queued(kinds) ==
  /\ sent' = sent \o kinds
  /\ queue' = queue \o [i \in 1 .. Len(kinds) |-> Len(sent) + i]
  /\ unfinished' = unfinished + Len(kinds)

\* A network PDU: a command, an acknowledgment.
Put(size) ==
  /\ pump # "unstarted" /\ Len(sent) < MaxPdus
  /\ Queued(<<[kind |-> "net", size |-> size]>>)
  /\ UNCHANGED <<held, pump, fanout, out, result, flush, mark, proxies>>

\* _configure_filter: clear the accept list, then add our address to it.
FilterClaim == <<[kind |-> "clear", size |-> 1], [kind |-> "add", size |-> 2]>>

----------------------------------------------------------------------------
(***************************************************************************)
(* Links: GattBearer.start, FanoutBearer.start, add.                       *)
(***************************************************************************)

Outcomes == {"ok", "late", "refused"}
Live == {l \in bearers : sub[l] # "failed"}
Failure == Live = {} \/ dead        \* FanoutBearer.failure
Failed == pump = "dead" \/ Failure  \* MeshController.failed

Drop(ls) == bearers' = bearers \ ls /\ freed' = freed \cup ls

\* One link of the first after the other; the last one ends the controller's start.
Start(l, outcome) ==
  LET refused == {k \in bearers : (IF k = l THEN outcome ELSE sub[k]) = "refused"} IN
  /\ pump = "unstarted" /\ sub[l] = "none" /\ l \in bearers
  /\ sub' = [sub EXCEPT ![l] = outcome]
  /\ IF \E k \in bearers \ {l} : sub[k] = "none"
     THEN UNCHANGED <<sent, queue, unfinished, pump, bearers, freed>>
     ELSE IF refused = bearers
     THEN pump' = "stopped" /\ UNCHANGED <<sent, queue, unfinished, bearers, freed>>
     ELSE pump' = "running" /\ Drop(refused) /\ Queued(FilterClaim)
  /\ UNCHANGED <<held, out, result, dead, flush, mark, proxies>>

JoinUnclaimed(l, outcome) ==   \* Slip: the filter of the new link is not claimed.
  /\ pump \in {"running", "dead"} /\ flush = "none" /\ sub[l] = "none" /\ l \notin First
  /\ sub' = [sub EXCEPT ![l] = outcome]
  /\ bearers' = IF outcome = "refused" THEN bearers ELSE bearers \cup {l}
  /\ UNCHANGED <<sent, queue, unfinished, held, pump, freed, dead, out, result, flush, mark, proxies>>

\* A link joins, under the coordinator's lock; the filter is claimed on all of them.
Join(l, outcome) ==
  /\ pump \in {"running", "dead"} /\ flush = "none" /\ sub[l] = "none" /\ l \notin First
  /\ Len(sent) + 2 <= MaxPdus
  /\ sub' = [sub EXCEPT ![l] = outcome]
  /\ IF outcome = "refused" THEN UNCHANGED <<sent, queue, unfinished, bearers>>
     ELSE bearers' = bearers \cup {l} /\ Queued(FilterClaim)
  /\ UNCHANGED <<held, pump, freed, dead, out, result, flush, mark, proxies>>

\* _on_late_subscribe.
LateSubscribe(l, outcome) ==
  /\ sub[l] = "late" /\ outcome \in {"ok", "failed"} /\ pump # "stopped"
  /\ sub' = [sub EXCEPT ![l] = outcome]
  /\ UNCHANGED <<sent, sender, bearers, dead, freed, out, result, flush, mark, proxies>>

----------------------------------------------------------------------------
(***************************************************************************)
(* Sending.                                                                *)
(***************************************************************************)

\* The octets of the n-th PDU, told apart from all others.
Payload(n) == [i \in 1 .. sent[n].size |-> <<n, i>>]
Type(n) == IF sent[n].kind = "net" THEN "network" ELSE "config"

Die == pump' = "dead" /\ held' = 0

\* _run takes the next PDU, and FanoutBearer.send begins: links that stopped
\* receiving are dropped, the others get their frames to write.
Take ==
  /\ pump = "running" /\ held = 0 /\ queue # <<>>
  /\ queue' = Tail(queue)
  /\ Drop(bearers \ Live)
  /\ IF Live = {} THEN Die /\ UNCHANGED <<out, result>>
     ELSE /\ held' = Head(queue) /\ pump' = pump
          /\ out' = [l \in Links |-> IF l \notin Live THEN <<>>
                                     ELSE Segment(Type(Head(queue)), Payload(Head(queue)), Mtu[l])]
          /\ result' = [l \in Links |-> IF l \in Live THEN "pending" ELSE "none"]
  /\ UNCHANGED <<sent, unfinished, sub, dead, flush, mark, proxies>>

\* What the proxy makes of a message.
Filtered(l, message) ==
  IF message.type # "config" THEN filter[l]
  ELSE IF sent[Head(message.payload)[1]].kind = "clear" THEN "cleared" ELSE "ours"

\* GattBearer.send writes a frame, and the proxy has it.
Write(l) ==
  LET fed == Feed(peer[l], Head(out[l])) IN
  /\ out[l] # <<>>
  /\ out' = [out EXCEPT ![l] = Tail(@)]
  /\ result' = IF Len(out[l]) = 1 THEN [result EXCEPT ![l] = "ok"] ELSE result
  /\ peer' = [peer EXCEPT ![l] = fed.state]
  /\ got' = IF fed.message = NoMessage THEN got ELSE [got EXCEPT ![l] = Append(@, Head(fed.message.payload)[1])]
  /\ filter' = [filter EXCEPT ![l] = Filtered(l, fed.message)]
  /\ UNCHANGED <<sent, sender, fanout, flush, mark>>

WriteFails(l) ==
  /\ out[l] # <<>>
  /\ out' = [out EXCEPT ![l] = <<>>] /\ result' = [result EXCEPT ![l] = "error"]
  /\ UNCHANGED <<sent, sender, fanout, flush, mark, proxies>>

Flushed == IF flush = "waiting" /\ unfinished' = 0 THEN "done" ELSE flush

SendEndsAnyway ==   \* Slip: a message that no link took is logged, and counts as sent.
  /\ held # 0 /\ \A l \in Links : result[l] # "pending"
  /\ result' = [l \in Links |-> "none"]
  /\ held' = 0 /\ unfinished' = unfinished - 1 /\ flush' = Flushed
  /\ IF \A l \in Links : result[l] # "ok" THEN UNCHANGED <<bearers, freed>>
     ELSE Drop({l \in Links : result[l] = "error"})
  /\ UNCHANGED <<sent, queue, sub, out, mark, proxies, pump, dead>>

SendEndsUncounted ==   \* Slip: a message that some link did not take is not counted.
  LET failed == {l \in Links : result[l] = "error"} IN
  /\ held # 0 /\ \A l \in Links : result[l] # "pending"
  /\ result' = [l \in Links |-> "none"]
  /\ IF \A l \in Links : result[l] # "ok"
     THEN Die /\ dead' = TRUE /\ UNCHANGED <<unfinished, bearers, freed, flush>>
     ELSE /\ Drop(failed) /\ held' = 0 /\ unfinished' = IF failed = {} THEN unfinished - 1 ELSE unfinished
          /\ flush' = Flushed /\ UNCHANGED <<pump, dead>>
  /\ UNCHANGED <<sent, queue, sub, out, mark, proxies>>

SendEndsKeeping ==   \* Slip: a link whose write failed stays in use.
  /\ held # 0 /\ \A l \in Links : result[l] # "pending"
  /\ result' = [l \in Links |-> "none"]
  /\ IF \A l \in Links : result[l] # "ok"
     THEN Die /\ dead' = TRUE /\ UNCHANGED <<unfinished, flush>>
     ELSE /\ held' = 0 /\ unfinished' = unfinished - 1
          /\ flush' = Flushed /\ UNCHANGED <<pump, dead>>
  /\ UNCHANGED <<sent, queue, bearers, freed, sub, out, mark, proxies>>

\* The gather of the writes: a link that failed is dropped; when all did, the
\* fan-out is dead, the pump with it, and nobody counts the PDU as done.
SendEnds ==
  /\ held # 0 /\ \A l \in Links : result[l] # "pending"
  /\ result' = [l \in Links |-> "none"]
  /\ IF \A l \in Links : result[l] # "ok"
     THEN Die /\ dead' = TRUE /\ UNCHANGED <<unfinished, bearers, freed, flush>>
     ELSE /\ Drop({l \in Links : result[l] = "error"})
          /\ held' = 0 /\ unfinished' = unfinished - 1
          /\ flush' = Flushed /\ UNCHANGED <<pump, dead>>
  /\ UNCHANGED <<sent, queue, sub, out, mark, proxies>>

----------------------------------------------------------------------------
(***************************************************************************)
(* The group Set's flush, and the end.                                     *)
(***************************************************************************)

\* A group Set: queued, and waited for.
Flush(size) ==
  /\ pump \in {"running", "dead"} /\ flush = "none" /\ Len(sent) < MaxPdus
  /\ Queued(<<[kind |-> "net", size |-> size]>>)
  /\ flush' = "waiting" /\ mark' = Len(sent) + 1
  /\ UNCHANGED <<held, pump, fanout, out, result, proxies>>

FlushReturns ==
  /\ flush = "done" /\ flush' = "none"
  /\ UNCHANGED <<sent, sender, fanout, out, result, mark, proxies>>

\* COMMAND_TIMEOUT, a disconnect or an unload: the controller is stopped.
Stop ==
  /\ pump \in {"running", "dead"}
  /\ pump' = "stopped" /\ held' = 0 /\ flush' = "none"
  /\ out' = [l \in Links |-> <<>>] /\ result' = [l \in Links |-> "none"]
  /\ UNCHANGED <<sent, queue, unfinished, fanout, mark, proxies>>

----------------------------------------------------------------------------
Init ==
  /\ sent = <<>> /\ queue = <<>> /\ held = 0 /\ unfinished = 0 /\ pump = "unstarted"
  /\ bearers = First /\ sub = [l \in Links |-> "none"]
  /\ out = [l \in Links |-> <<>>] /\ result = [l \in Links |-> "none"]
  /\ dead = FALSE /\ freed = {} /\ flush = "none" /\ mark = 0
  /\ peer = [l \in Links |-> Reset] /\ got = [l \in Links |-> <<>>] /\ filter = [l \in Links |-> "empty"]

Sending == Take \/ SendEnds \/ (\E l \in Links : Write(l) \/ WriteFails(l))

Act ==
  \/ \E size \in Sizes : Put(size) \/ Flush(size)
  \/ \E l \in Links, outcome \in Outcomes : Start(l, outcome) \/ Join(l, outcome)
  \/ \E l \in Links, outcome \in {"ok", "failed"} : LateSubscribe(l, outcome)
  \/ Sending \/ FlushReturns \/ Stop

\* The pump's task is scheduled, and a write ends one way or the other.
Spec == Init /\ [][Act]_vars /\ WF_vars(Sending)

----------------------------------------------------------------------------
(***************************************************************************)
(* Properties.                                                             *)
(***************************************************************************)

\* The queue's books: what is queued or in hand is not finished, and a pump that died
\* took a PDU with it that never will be; the same PDU is on its way to every link.
Books ==
  /\ pump \in {"unstarted", "running"} => unfinished = Len(queue) + (IF held = 0 THEN 0 ELSE 1)
  /\ pump \in {"dead", "stopped"} => held = 0 /\ unfinished >= Len(queue)
  /\ \A l \in Links : out[l] # <<>> => held # 0 /\ result[l] = "pending" /\ sub[l] # "none"
  /\ flush = "waiting" => unfinished > 0
  /\ flush # "none" => mark \in 1 .. Len(sent)

\* A link is in use or its owner was told to free it, never both and never neither:
\* one left in between keeps its node's only proxy slot for good (FanoutBearer._drop).
\* Between two messages no link in use has half of one.
EveryLinkHasAnOwner ==
  /\ bearers \cap freed = {}
  /\ pump = "running" => \A l \in First : l \in bearers \cup freed
  /\ pump = "running" /\ held = 0 => \A l \in bearers : peer[l] = Reset

\* A group Set that is reported as sent went out whole on some link: async_set_group_*
\* answers "not failed" after its flush.
GroupSetLeft == flush = "done" /\ ~ Failed => \E l \in Links : \E i \in DOMAIN got[l] : got[l][i] = mark

\* No message of the mesh goes through a proxy while its accept list lacks our address,
\* except through a link that joins before its first claim: a clear is followed by
\* its add before anything else ("both messages are queued on the ordered TX pump
\* ahead of any command"; "the next message refills it").
FilterBeforeCommand ==
  \A l \in Links : \A i \in DOMAIN got[l] :
    sent[got[l][i]].kind = "net" =>
      LET claims == {j \in 1 .. i - 1 : sent[got[l][j]].kind # "net"} IN
      IF claims = {} THEN l \notin First
      ELSE sent[got[l][CHOOSE j \in claims : \A k \in claims : k <= j]].kind = "add"

\* A link that joined and took part in everything since has claimed its filter too.
JoinedLinksAnswer ==
  \A l \in bearers \ First :
    pump = "running" /\ queue = <<>> /\ held = 0 /\ sub[l] \in {"ok", "late"} => filter[l] = "ours"

\* The detailed sending side is a Fifo per link; a stopped pump or a dead one closes
\* them all.
Closed == freed \cup {l \in Links : sub[l] = "refused"} \cup (IF pump \in {"dead", "stopped"} THEN Links ELSE {})
Queue == INSTANCE Fifo WITH given <- Len(sent), closed <- Closed
ImplementsFifo == Queue!FifoSpec

\* A flush ends, unless the pump died under it: then only the command's timeout does.
FlushEnds == flush = "waiting" ~> flush # "waiting" \/ pump # "running"
=============================================================================
