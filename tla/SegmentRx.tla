----------------------------- MODULE SegmentRx -----------------------------
(***************************************************************************)
(* Segmented messages on their way in: one SegmentAssembler per source,    *)
(* its acknowledgment and incomplete timers, and the table of sources.     *)
(*                                                                         *)
(* Sources repeat what they have not seen acknowledged, and relays delay   *)
(* it: the segments of every transfer arrive in any order, any number of   *)
(* times.  The code tells transfers apart by AKF, AID, SZMIC, SeqZero and  *)
(* SegN: here, two transfers never agree on all of those.                  *)
(***************************************************************************)
EXTENDS Integers, Sequences, FiniteSets, SequencesExt, Functions

CONSTANTS
  Transfers,   \* segmented messages
  Source,      \* [Transfers -> the address they come from]
  SegN,        \* [Transfers -> SegN]
  ToGroup,     \* the transfers sent to a group address
  MaxSources,  \* MAX_TRACKED_SEGMENT_SOURCES
  MaxCopies,   \* bound: deliveries of one transfer
  None

Sources == {Source[t] : t \in Transfers}
Segments(t) == 0 .. SegN[t]

ASSUME TransfersAssumption ==
  /\ SegN \in [Transfers -> Nat]
  /\ DOMAIN Source = Transfers
  /\ ToGroup \subseteq Transfers
  /\ MaxSources \in Nat \ {0} /\ MaxCopies \in Nat
  /\ None \notin Transfers

VARIABLES
  table,      \* the sources in _assemblers, oldest first
  current,    \* [Sources -> the transfer the assembler tracks]
  parts,      \* [Sources -> SegO of the segments it has]
  complete,   \* [Sources -> _complete]
  ackTimer,   \* the sources in _ack_timers whose timer has not run
  dropTimer,  \* the sources in _incomplete_timers whose timer has not run
  bearer,     \* "up", "stopping" (MeshController.stop), "closed"
  confirmed,  \* [Transfers -> segments the sender saw acknowledged]
  heard,      \* history: [Transfers -> segments that ever arrived]
  delivered,  \* history: [Transfers -> deliveries]
  forgotten   \* history: transfers whose state was given up for another's

vars == <<table, current, parts, complete, ackTimer, dropTimer, bearer,
          confirmed, heard, delivered, forgotten>>

assembly == <<table, current, parts, complete>>
timers == <<ackTimer, dropTimer>>

Pending(s) == current[s] # None /\ ~ complete[s]

----------------------------------------------------------------------------
(***************************************************************************)
(* Acknowledgments.                                                        *)
(***************************************************************************)

\* Slip: the bitfield is one segment ahead.
BlockAckAhead(has) == has \cup {Cardinality(has)}

BlockAck(has) == has

\* _send_segment_ack for what the assembler of s tracks when it is called.  It
\* may be lost, and is once the pump has stopped.
SendAck(t, has) ==
  \/ UNCHANGED confirmed
  \/ /\ bearer = "up"
     /\ confirmed' = [confirmed EXCEPT ![t] = @ \cup (BlockAck(has) \cap Segments(t))]

AckTimerFires(s) ==
  /\ s \in ackTimer
  /\ ackTimer' = ackTimer \ {s}
  /\ SendAck(current[s], parts[s])
  /\ UNCHANGED <<assembly, dropTimer, bearer, heard, delivered, forgotten>>

\* _abandon_transfer.
Abandon(s) ==
  /\ s \in dropTimer
  /\ dropTimer' = dropTimer \ {s} /\ ackTimer' = ackTimer \ {s}
  /\ table' = RemoveFirst(table, s)
  /\ current' = [current EXCEPT ![s] = None]
  /\ parts' = [parts EXCEPT ![s] = {}]
  /\ complete' = [complete EXCEPT ![s] = FALSE]
  /\ forgotten' = forgotten \cup {current[s]}
  /\ UNCHANGED <<bearer, confirmed, heard, delivered>>

----------------------------------------------------------------------------
(***************************************************************************)
(* A segment arrives: _assembler_for, add, _on_segment_for_us.             *)
(***************************************************************************)

\* The oldest source with nothing in flight, or else the oldest.
Victim ==
  LET idle == SelectInSeq(table, LAMBDA s : ~ Pending(s)) IN
  IF idle # 0 THEN table[idle] ELSE Head(table)

NoRoom(s) == s \notin Range(table) /\ Len(table) >= MaxSources

Evicted(s) == IF NoRoom(s) THEN {Victim} ELSE {}

\* Slip: the parts of the transfer before are kept.
HasNowMixed(s, t, i) == parts[s] \cup {i}

\* Segments of another transfer restart the assembly.
HasNow(s, t, i) == (IF current[s] = t THEN parts[s] ELSE {}) \cup {i}

WasComplete(s, t) == current[s] = t /\ complete[s]

\* Slip: a repeated segment of a delivered transfer counts as news.
DeliversAgain(s, t, i) == HasNow(s, t, i) = Segments(t)

\* add() returns the message: all segments are there for the first time.
Delivers(s, t, i) == ~ WasComplete(s, t) /\ HasNow(s, t, i) = Segments(t)

\* The timers of s that this segment stops.
Quieten(s, gone) == [ack |-> ackTimer \ (gone \cup {s}), drop |-> dropTimer \ (gone \cup {s})]

\* Slip: no timer bounds what has not arrived.
TimersWithoutDrop(s, t, gone, whole) ==
  LET rest == Quieten(s, gone) IN
  /\ ackTimer' = IF whole THEN rest.ack ELSE rest.ack \cup {s}
  /\ dropTimer' = rest.drop

\* A segment to us starts the timers of its source again, or stops them with
\* the last segment; one to a group address leaves them alone.
Timers(s, t, gone, whole) ==
  IF t \in ToGroup
  THEN ackTimer' = ackTimer \ gone /\ dropTimer' = dropTimer \ gone
  ELSE LET rest == Quieten(s, gone) IN
       /\ ackTimer' = IF whole THEN rest.ack ELSE rest.ack \cup {s}
       /\ dropTimer' = IF whole THEN rest.drop ELSE rest.drop \cup {s}

Segment(t, i) ==
  /\ bearer # "closed"
  /\ LET s == Source[t]
         gone == Evicted(s)
         has == HasNow(s, t, i)
         whole == WasComplete(s, t) \/ Delivers(s, t, i)
         left == {current[v] : v \in gone} \cup (IF current[s] = t THEN {} ELSE {current[s]})
     IN
     /\ Delivers(s, t, i) => delivered[t] < MaxCopies
     /\ table' = IF s \in Range(table) THEN table
                 ELSE Append(IF gone = {} THEN table ELSE RemoveFirst(table, Victim), s)
     /\ current' = [v \in Sources |->
                      IF v = s THEN t ELSE IF v \in gone THEN None ELSE current[v]]
     /\ parts' = [v \in Sources |-> IF v = s THEN has ELSE IF v \in gone THEN {} ELSE parts[v]]
     /\ complete' = [v \in Sources |->
                       IF v = s THEN whole ELSE v \notin gone /\ complete[v]]
     /\ heard' = [heard EXCEPT ![t] = @ \cup {i}]
     /\ delivered' = IF Delivers(s, t, i) THEN [delivered EXCEPT ![t] = @ + 1] ELSE delivered
     /\ forgotten' = forgotten \cup (left \ {None})
     /\ Timers(s, t, gone, whole)
     /\ IF t \notin ToGroup /\ whole THEN SendAck(t, has) ELSE UNCHANGED confirmed
  /\ UNCHANGED bearer

----------------------------------------------------------------------------
(***************************************************************************)
(* MeshController.stop: the pump, then the bearer, and close() last.       *)
(***************************************************************************)

StopBearer ==
  /\ bearer = "up" /\ bearer' = "stopping"
  /\ UNCHANGED <<assembly, timers, confirmed, heard, delivered, forgotten>>

Close ==
  /\ bearer = "stopping" /\ bearer' = "closed"
  /\ ackTimer' = {} /\ dropTimer' = {}
  /\ table' = <<>> /\ current' = [s \in Sources |-> None]
  /\ parts' = [s \in Sources |-> {}] /\ complete' = [s \in Sources |-> FALSE]
  /\ UNCHANGED <<confirmed, heard, delivered, forgotten>>

----------------------------------------------------------------------------
Init ==
  /\ table = <<>>
  /\ current = [s \in Sources |-> None]
  /\ parts = [s \in Sources |-> {}]
  /\ complete = [s \in Sources |-> FALSE]
  /\ ackTimer = {} /\ dropTimer = {}
  /\ bearer = "up"
  /\ confirmed = [t \in Transfers |-> {}] /\ heard = [t \in Transfers |-> {}]
  /\ delivered = [t \in Transfers |-> 0]
  /\ forgotten = {}

Next ==
  \/ \E t \in Transfers : \E i \in Segments(t) : Segment(t, i)
  \/ \E s \in Sources : AckTimerFires(s) \/ Abandon(s)
  \/ StopBearer \/ Close

Spec == Init /\ [][Next]_vars

----------------------------------------------------------------------------
(***************************************************************************)
(* Properties.                                                             *)
(***************************************************************************)

TypeOK ==
  /\ table \in Seq(Sources) /\ current \in [Sources -> Transfers \cup {None}]
  /\ parts \in [Sources -> SUBSET Nat] /\ complete \in [Sources -> BOOLEAN]
  /\ ackTimer \subseteq Sources /\ dropTimer \subseteq Sources
  /\ bearer \in {"up", "stopping", "closed"}
  /\ confirmed \in [Transfers -> SUBSET Nat] /\ heard \in [Transfers -> SUBSET Nat]
  /\ delivered \in [Transfers -> 0 .. MaxCopies]
  /\ forgotten \subseteq Transfers
  /\ \A t \in Transfers : confirmed[t] \cup heard[t] \subseteq Segments(t)

\* "without a cap the table would gain one for every node": it never holds more
\* than the limit, and a timer never outlives the entry it was started for,
\* whether that ends by eviction, by its timer or by close().  "so an abandoned
\* transfer cannot complete minutes later": while a message to us lacks a
\* segment, a timer is running that will give it up.
TableIsBounded ==
  /\ Len(table) <= MaxSources /\ IsInjective(table)
  /\ ackTimer \cup dropTimer \subseteq Range(table)
  /\ \A s \in Sources :
       /\ current[s] # None => s \in Range(table)
       /\ Pending(s) /\ current[s] \notin ToGroup => s \in dropTimer

\* No segment is acknowledged and no message delivered that did not arrive,
\* however transfers of one source interleave.
NothingInvented ==
  \A t \in Transfers :
    confirmed[t] \subseteq heard[t] /\ (delivered[t] > 0 => heard[t] = Segments(t))

\* "retransmits, and those segments must be re-acknowledged rather than
\* reassembled into a duplicate delivery": a message comes up twice only if its
\* state was given up in between.
DeliveredOnce == \A t \in Transfers : delivered[t] > 1 => t \in forgotten

\* A sender that saw every segment acknowledged was understood, unless its
\* transfer was given up on the way.
ConfirmedIsDelivered ==
  \A t \in Transfers :
    confirmed[t] = Segments(t) /\ t \notin forgotten => delivered[t] > 0

\* "Only ever called for segments addressed to our own unicast".
GroupNeverAcked == \A t \in ToGroup : confirmed[t] = {}
=============================================================================
