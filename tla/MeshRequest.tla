---------------------------- MODULE MeshRequest ----------------------------
(***************************************************************************)
(* MeshNode.request: how a call is paired with an answer, in a mesh whose  *)
(* access messages carry no correlation.                                   *)
(*                                                                         *)
(* All requests here are for one source address and one opcode: others     *)
(* never meet in the list of waiters.  Requests reach the node over every  *)
(* link and the node drops the second copy, so the model sends them once;  *)
(* what the node says is heard by the proxy of every link, and each link   *)
(* delivers what it forwards in order, but on its own time.                *)
(*                                                                         *)
(* The same MeshNode reassembles segments (SegmentRx): the names both have *)
(* carry Request here, so that one module can extend the two.              *)
(***************************************************************************)
EXTENDS Integers, Sequences, FiniteSets, SequencesExt, Functions

CONSTANTS
  Requests,    \* calls of MeshNode.request
  Links,       \* proxy links the answers come back over
  Retries,     \* [Requests -> retransmissions of that call]
  Commands,    \* the calls made behind the coordinator's lock
  MaxOdd,      \* bound: messages lost, repeated or sent unasked
  Nothing,
  TimedOut

ASSUME RequestAssumption ==
  /\ Retries \in [Requests -> Nat] /\ Commands \subseteq Requests
  /\ MaxOdd \in Nat
  /\ Nothing \notin Requests \cup Nat /\ TimedOut \notin Requests \cup Nat /\ Nothing # TimedOut

VARIABLES
  lock,     \* the call the coordinator's lock is held for
  phase,    \* [Requests -> where the call is]
  tries,    \* [Requests -> send_access calls made]
  begun,    \* history: the calls in the order they began
  waiters,  \* _waiters
  fut,      \* [Requests -> the answer set in its future]
  toNode,   \* requests on their way to the node
  said,     \* the Statuses of the node, in its SEQ order: whom each answers
  air,      \* [Links -> SEQ numbers of the Statuses on their way to us]
  lastSeq,  \* _last_rx_seq of the node
  odd,      \* bound: how many of those there were
  calm,     \* history: no call timed out, nothing was lost or said unasked
  got       \* [Requests -> what the call returned]

requestVars == <<lock, phase, tries, begun, waiters, fut, toNode, said, air, lastSeq, odd, calm, got>>

Phases == {"idle", "waiting", "late", "done"}

----------------------------------------------------------------------------
(***************************************************************************)
(* request().                                                              *)
(***************************************************************************)

Send(r) ==
  /\ tries' = [tries EXCEPT ![r] = @ + 1]
  /\ toNode' = Append(toNode, r)

Begin(r) ==
  /\ phase[r] = "idle"
  /\ r \in Commands => lock = Nothing
  /\ lock' = IF r \in Commands THEN r ELSE lock
  /\ phase' = [phase EXCEPT ![r] = "waiting"]
  /\ begun' = Append(begun, r)
  /\ waiters' = Append(waiters, r)
  /\ Send(r)
  /\ UNCHANGED <<fut, said, air, lastSeq, odd, got, calm>>

\* The finally clause, and the end of the coordinator's command.
Leave(r) ==
  /\ phase' = [phase EXCEPT ![r] = "done"]
  /\ waiters' = RemoveFirst(waiters, r)
  /\ lock' = IF lock = r THEN Nothing ELSE lock

\* The wait is over with the future set: the call returns its answer.
Return(r) ==
  /\ phase[r] = "waiting" /\ fut[r] # Nothing
  /\ got' = [got EXCEPT ![r] = fut[r]]
  /\ Leave(r)
  /\ UNCHANGED <<tries, begun, fut, toNode, said, air, lastSeq, odd, calm>>

\* The timeout fires.  The call only goes on when the loop runs its task: an
\* answer may be set in between.
TimeoutFires(r) ==
  /\ phase[r] = "waiting" /\ fut[r] = Nothing
  /\ calm' = FALSE
  /\ phase' = [phase EXCEPT ![r] = "late"]
  /\ UNCHANGED <<lock, tries, begun, waiters, fut, toNode, said, air, lastSeq, odd, got>>

\* The next attempt is sent before the future is looked at again.
Retry(r) ==
  /\ phase[r] = "late" /\ tries[r] <= Retries[r]
  /\ Send(r)
  /\ phase' = [phase EXCEPT ![r] = "waiting"]
  /\ UNCHANGED <<lock, begun, waiters, fut, said, air, lastSeq, odd, got, calm>>

\* Slip: a timed-out command goes back with the lock.
GiveUpHoldingLock(r) ==
  /\ phase[r] = "late" /\ tries[r] > Retries[r]
  /\ got' = [got EXCEPT ![r] = IF fut[r] = Nothing THEN TimedOut ELSE fut[r]]
  /\ phase' = [phase EXCEPT ![r] = "done"]
  /\ waiters' = RemoveFirst(waiters, r)
  /\ UNCHANGED <<lock, tries, begun, fut, toNode, said, air, lastSeq, odd, calm>>

\* No attempt is left: an answer set meanwhile still counts.
GiveUp(r) ==
  /\ phase[r] = "late" /\ tries[r] > Retries[r]
  /\ got' = [got EXCEPT ![r] = IF fut[r] = Nothing THEN TimedOut ELSE fut[r]]
  /\ Leave(r)
  /\ UNCHANGED <<tries, begun, fut, toNode, said, air, lastSeq, odd, calm>>

\* COMMAND_TIMEOUT, or the caller's task is cancelled: nothing is returned.
Cancelled(r) ==
  /\ phase[r] \in {"waiting", "late"}
  /\ calm' = FALSE
  /\ Leave(r)
  /\ UNCHANGED <<tries, begun, fut, toNode, said, air, lastSeq, odd, got>>

----------------------------------------------------------------------------
(***************************************************************************)
(* The node and the mesh in between.                                       *)
(***************************************************************************)

\* A new Status, heard by every proxy.
Say(whom) ==
  /\ said' = Append(said, whom)
  /\ air' = [l \in Links |-> Append(air[l], Len(said) + 1)]

Answer ==
  /\ toNode # <<>>
  /\ toNode' = Tail(toNode)
  /\ Say(Head(toNode))
  /\ UNCHANGED <<lock, phase, tries, begun, waiters, fut, lastSeq, odd, got, calm>>

Odd == odd < MaxOdd /\ odd' = odd + 1

RequestLost ==
  /\ Odd /\ calm' = FALSE
  /\ toNode # <<>>
  /\ toNode' = Tail(toNode)
  /\ UNCHANGED <<lock, phase, tries, begun, waiters, fut, said, air, lastSeq, got>>

\* Somebody else switched the lamp: a Status nobody asked for.
Publish ==
  /\ Odd /\ calm' = FALSE
  /\ Say(Nothing)
  /\ UNCHANGED <<lock, phase, tries, begun, waiters, fut, toNode, lastSeq, got>>

StatusLost(l) ==
  /\ Odd /\ calm' = FALSE
  /\ air[l] # <<>>
  /\ air' = [air EXCEPT ![l] = Tail(@)]
  /\ UNCHANGED <<lock, phase, tries, begun, waiters, fut, toNode, said, lastSeq, got>>

\* A relay repeats a network PDU.
Echo(l) ==
  /\ Odd
  /\ air[l] # <<>>
  /\ air' = [air EXCEPT ![l] = <<Head(@)>> \o @]
  /\ UNCHANGED <<lock, phase, tries, begun, waiters, fut, toNode, said, lastSeq, got, calm>>

----------------------------------------------------------------------------
(***************************************************************************)
(* handle_network_pdu and _deliver.                                        *)
(***************************************************************************)

\* Slip: every copy is taken for news.
AnyNews(s) == TRUE

News(s) == s # lastSeq

\* Slip: the newest waiter takes the answer.
DeliverNewest(s) ==
  LET open == SelectSeq(waiters, LAMBDA r : fut[r] = Nothing) IN
  fut' = IF open = <<>> THEN fut ELSE [fut EXCEPT ![Last(open)] = s]

\* The oldest waiter whose future is not done takes the answer.
Deliver(s) ==
  \/ \E i \in DOMAIN waiters :
       /\ fut[waiters[i]] = Nothing /\ \A j \in 1 .. i - 1 : fut[waiters[j]] # Nothing
       /\ fut' = [fut EXCEPT ![waiters[i]] = s]
  \/ (\A i \in DOMAIN waiters : fut[waiters[i]] # Nothing) /\ UNCHANGED fut

Receive(l) ==
  /\ air[l] # <<>>
  /\ air' = [air EXCEPT ![l] = Tail(@)]
  /\ LET s == Head(air[l]) IN
     \/ News(s) /\ lastSeq' = s /\ Deliver(s)
     \/ ~ News(s) /\ UNCHANGED <<lastSeq, fut>>
  /\ UNCHANGED <<lock, phase, tries, begun, waiters, toNode, said, odd, got, calm>>

----------------------------------------------------------------------------
RequestInit ==
  /\ lock = Nothing
  /\ phase = [r \in Requests |-> "idle"]
  /\ tries = [r \in Requests |-> 0]
  /\ begun = <<>> /\ waiters = <<>>
  /\ fut = [r \in Requests |-> Nothing]
  /\ toNode = <<>> /\ said = <<>>
  /\ air = [l \in Links |-> <<>>]
  /\ lastSeq = 0 /\ odd = 0 /\ calm = TRUE
  /\ got = [r \in Requests |-> Nothing]

Call(r) == Begin(r) \/ Return(r) \/ TimeoutFires(r) \/ Retry(r) \/ GiveUp(r)
Mesh == Answer \/ RequestLost \/ Publish
Link(l) == StatusLost(l) \/ Echo(l) \/ Receive(l)

Finished == (\A r \in Requests : phase[r] = "done") /\ UNCHANGED requestVars

RequestNext ==
  \/ \E r \in Requests : Call(r) \/ Cancelled(r)
  \/ Mesh
  \/ \E l \in Links : Link(l)
  \/ Finished

RequestSpec == RequestInit /\ [][RequestNext]_requestVars

\* A timer fires and the loop runs every task that is ready.  Nothing is asked
\* of the network.
FairRequestSpec == RequestSpec /\ \A r \in Requests : WF_requestVars(Call(r))

----------------------------------------------------------------------------
(***************************************************************************)
(* Properties.                                                             *)
(***************************************************************************)

Seqs == 0 .. Len(said)

RequestTypeOK ==
  /\ lock \in Requests \cup {Nothing}
  /\ phase \in [Requests -> Phases]
  /\ tries \in [Requests -> Nat] /\ \A r \in Requests : tries[r] <= Retries[r] + 1
  /\ begun \in Seq(Requests) /\ waiters \in Seq(Requests) /\ toNode \in Seq(Requests)
  /\ fut \in [Requests -> Seqs \cup {Nothing}]
  /\ said \in Seq(Requests \cup {Nothing})
  /\ air \in [Links -> Seq(Seqs)] /\ lastSeq \in Seqs /\ odd \in 0 .. MaxOdd /\ calm \in BOOLEAN
  /\ got \in [Requests -> Seqs \cup {Nothing, TimedOut}]

\* The list of waiters holds exactly the calls under way, in the order they
\* began: nothing is left behind to swallow the answer of a later call,
\* however a call ends.
WaitersAreTheCalls ==
  /\ IsInjective(waiters)
  /\ Range(waiters) = {r \in Requests : phase[r] \in {"waiting", "late"}}
  /\ \A a, b \in DOMAIN waiters, i, j \in DOMAIN begun :
       begun[i] = waiters[a] /\ begun[j] = waiters[b] /\ a < b => i < j

\* "in FIFO order": of two calls that were answered, the one that began first
\* has the earlier Status; in particular no Status answers two calls.
AnswersInOrder ==
  \A i, j \in DOMAIN begun :
    /\ i < j
    /\ fut[begun[i]] # Nothing /\ fut[begun[j]] # Nothing
    => fut[begun[i]] < fut[begun[j]]

\* As long as no call has timed out, nothing was lost and nothing was said
\* unasked, each call gets the Status the node sent for it, whatever overlaps.
PairedExactly == calm => \A r \in Requests : got[r] \in Seqs => said[got[r]] = r

\* A call that reports a timeout never had an answer: one that is set between
\* the timer and the caller's turn is not thrown away, and none is set later.
TimeoutIsHonest == \A r \in Requests : got[r] = TimedOut => fut[r] = Nothing

\* Every call gets its turn behind the lock and ends, answered or not, though
\* the network never owes anything.
EveryCallRuns == \A r \in Requests : <>(phase[r] = "done")
=============================================================================
