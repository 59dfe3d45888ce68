----------------------------- MODULE NodeProofs -----------------------------
(***************************************************************************)
(* What a MeshNode promises about the messages that come in: the safety of *)
(* SegmentRx for every number of sources, every size of the table and      *)
(* every set of transfers; the arithmetic of SeqAuth; and the safety of    *)
(* MeshRequest for every set of calls, of retries and of commands.         *)
(***************************************************************************)
EXTENDS SegmentRx, SeqAuth, MeshRequest, ListLemmas

----------------------------------------------------------------------------
(***************************************************************************)
(* The inductive invariant.                                                *)
(***************************************************************************)

\* The table has the sources whose assembler tracks a transfer, one of theirs.
Tracked ==
  /\ \A s \in Sources :
       /\ s \in Range(table) <=> current[s] # None
       /\ current[s] # None => Source[current[s]] = s
  /\ bearer = "closed" => table = <<>>

\* What an assembler holds has arrived, and it is complete when it has it all.
Assembled ==
  \A s \in Sources :
    /\ current[s] = None => ~ complete[s]
    /\ current[s] # None =>
         /\ parts[s] \subseteq heard[current[s]]
         /\ complete[s] <=> parts[s] = Segments(current[s])
         /\ complete[s] => delivered[current[s]] > 0

\* A transfer whose state was never given up is the one its source is at, or
\* one that nothing is known of; only what is there was acknowledged.
FirstLife ==
  \A t \in Transfers \ forgotten :
    bearer # "closed" =>
      IF current[Source[t]] = t
      THEN /\ confirmed[t] \subseteq parts[Source[t]]
           /\ delivered[t] = IF complete[Source[t]] THEN 1 ELSE 0
      ELSE confirmed[t] = {} /\ delivered[t] = 0

Promises == NothingInvented /\ DeliveredOnce /\ ConfirmedIsDelivered

IInv == TypeOK /\ TableIsBounded /\ Tracked /\ Assembled /\ FirstLife /\ Promises
----------------------------------------------------------------------------
(***************************************************************************)
(* What the operators do.                                                  *)
(***************************************************************************)

LEMMA SourceOf ==
  ASSUME NEW t \in Transfers
  PROVE  Source[t] \in Sources /\ t # None /\ Segments(t) \subseteq Nat /\ Segments(t) # {}
  BY TransfersAssumption DEF Sources, Segments

\* An acknowledgment says no more than what the assembler has (_send_segment_ack).
LEMMA AckSaysWhatIsThere ==
  ASSUME TypeOK, NEW t \in Transfers, NEW has, SendAck(t, has)
  PROVE  /\ confirmed' \in [Transfers -> SUBSET Nat]
         /\ \A u \in Transfers : u # t => confirmed'[u] = confirmed[u]
         /\ confirmed'[t] \subseteq confirmed[t] \cup (has \cap Segments(t))
  <1>1. CASE UNCHANGED confirmed
    BY <1>1 DEF TypeOK
  <1>2. CASE confirmed' = [confirmed EXCEPT ![t] = @ \cup (has \cap Segments(t))]
    BY <1>2, SourceOf DEF TypeOK
  <1>3. QED
    BY <1>1, <1>2 DEF SendAck, BlockAck

\* The source that makes room is one of the table (_evict_one_source).
LEMMA VictimIsTracked ==
  ASSUME TypeOK, table # <<>>
  PROVE  Victim \in Range(table)
  <1> DEFINE I == {i \in 1 .. Len(table) : ~ Pending(table[i])}
  <1>1. Len(table) \in Nat /\ 1 \in 1 .. Len(table)
    BY DEF TypeOK
  <1>2. I # {} => Min(I) \in I
    BY <1>1, MinIsLeast
  <1>3. SelectInSeq(table, LAMBDA s : ~ Pending(s)) = IF I # {} THEN Min(I) ELSE 0
    BY DEF SelectInSeq
  <1> DEFINE k == SelectInSeq(table, LAMBDA s : ~ Pending(s))
  <1>4. k = 0 \/ k \in 1 .. Len(table)
    BY <1>2, <1>3
  <1>5. Victim = IF k # 0 THEN table[k] ELSE Head(table)
    BY DEF Victim
  <1> HIDE DEF k
  <1>6. Head(table) = table[1]
    BY DEF TypeOK
  <1>7. QED
    BY <1>1, <1>4, <1>5, <1>6 DEF Range, TypeOK

\* The table takes a source in without growing past its limit (_assembler_for).
LEMMA TableMakesRoom ==
  ASSUME TypeOK, TableIsBounded, NEW t \in Transfers, NEW i \in Segments(t), Segment(t, i)
  PROVE  /\ table' \in Seq(Sources) /\ Len(table') <= MaxSources /\ IsInjective(table)'
         /\ Evicted(Source[t]) \subseteq Range(table) /\ Source[t] \notin Evicted(Source[t])
         /\ Range(table)' = (Range(table) \ Evicted(Source[t])) \cup {Source[t]}
  <1> DEFINE s == Source[t]  gone == Evicted(s)
             kept == IF gone = {} THEN table ELSE RemoveFirst(table, Victim)
  <1>1. /\ s \in Sources /\ table \in Seq(Sources) /\ IsInjective(table)
        /\ Len(table) \in Nat /\ Len(table) <= MaxSources /\ MaxSources \in Nat \ {0}
    BY SourceOf, TransfersAssumption DEF TypeOK, TableIsBounded
  <1>2. table' = IF s \in Range(table) THEN table ELSE Append(kept, s)
    BY DEF Segment
  <1>3. CASE s \in Range(table)
    <2>1. gone = {}
      BY <1>3 DEF Evicted, NoRoom
    <2>2. QED
      BY <1>1, <1>2, <1>3, <2>1
  <1>4. CASE s \notin Range(table)
    <2>1. /\ kept \in Seq(Sources) /\ IsInjective(kept) /\ Len(kept) < MaxSources
          /\ gone \subseteq Range(table) /\ Range(kept) = Range(table) \ gone
      <3>1. CASE Len(table) >= MaxSources
        <4>1. gone = {Victim} /\ kept = RemoveFirst(table, Victim)
          BY <1>4, <3>1 DEF Evicted, NoRoom
        <4>2. table # <<>>
          BY <3>1, <1>1
        <4>3. Victim \in Range(table)
          BY <4>2, VictimIsTracked
        <4>4. /\ kept \in Seq(Sources) /\ IsInjective(kept) /\ Range(kept) = Range(table) \ {Victim}
              /\ Len(kept) = Len(table) - 1
          BY <1>1, <4>1, <4>3, RemoveFirstProperties
        <4>5. QED
          BY <1>1, <4>1, <4>3, <4>4
      <3>2. CASE Len(table) < MaxSources
        <4>1. gone = {} /\ kept = table
          BY <1>1, <3>2 DEF Evicted, NoRoom
        <4>2. QED
          BY <1>1, <3>2, <4>1
      <3>3. QED
        BY <1>1, <3>1, <3>2
    <2> HIDE DEF kept, gone
    <2>2. s \notin Range(kept) /\ table' = Append(kept, s)
      BY <2>1, <1>2, <1>4
    <2>3. /\ table' \in Seq(Sources) /\ IsInjective(table') /\ Range(table') = Range(kept) \cup {s}
          /\ Len(table') = Len(kept) + 1
      BY <1>1, <2>1, <2>2, AppendNew
    <2>4. Len(kept) \in Nat
      BY <2>1
    <2>5. QED
      BY <1>1, <1>4, <2>1, <2>3, <2>4 DEF gone
  <1>5. QED
    BY <1>3, <1>4

----------------------------------------------------------------------------
(***************************************************************************)
(* A segment arrives.                                                      *)
(***************************************************************************)

\* What it leaves of the state, each variable on its own.
LEMMA SegmentEffect ==
  ASSUME IInv, NEW t \in Transfers, NEW i \in Segments(t), Segment(t, i),
         NEW s, s = Source[t], NEW gone, gone = Evicted(s),
         NEW has, has = HasNow(s, t, i), NEW news, news = Delivers(s, t, i),
         NEW whole, whole = (WasComplete(s, t) \/ news)
  PROVE  /\ s \in Sources /\ gone \subseteq Sources /\ s \notin gone
         /\ bearer # "closed" /\ bearer' = bearer
         /\ current' = [v \in Sources |-> IF v = s THEN t ELSE IF v \in gone THEN None ELSE current[v]]
         /\ parts' = [v \in Sources |-> IF v = s THEN has ELSE IF v \in gone THEN {} ELSE parts[v]]
         /\ complete' = [v \in Sources |-> IF v = s THEN whole ELSE v \notin gone /\ complete[v]]
         /\ heard' = [heard EXCEPT ![t] = @ \cup {i}]
         /\ delivered' = IF news THEN [delivered EXCEPT ![t] = @ + 1] ELSE delivered
         /\ news => delivered[t] < MaxCopies
         /\ \A u \in Transfers :
              u \in forgotten' <=>
                u \in forgotten \/ \E v \in gone \cup {s} : current[v] = u /\ ~ (v = s /\ u = t)
         /\ forgotten' \subseteq Transfers
         /\ confirmed' \in [Transfers -> SUBSET Nat]
         /\ \A u \in Transfers : u # t => confirmed'[u] = confirmed[u]
         /\ confirmed'[t] \subseteq confirmed[t] \cup (has \cap Segments(t))
  <1>1. s \in Sources /\ gone \subseteq Range(table) /\ s \notin gone
    BY TableMakesRoom, SourceOf DEF IInv
  <1>2. Range(table) \subseteq Sources
    BY DEF IInv, TypeOK, Range
  <1>3. /\ bearer # "closed" /\ bearer' = bearer
        /\ current' = [v \in Sources |-> IF v = s THEN t ELSE IF v \in gone THEN None ELSE current[v]]
        /\ parts' = [v \in Sources |-> IF v = s THEN has ELSE IF v \in gone THEN {} ELSE parts[v]]
        /\ complete' = [v \in Sources |-> IF v = s THEN whole ELSE v \notin gone /\ complete[v]]
        /\ heard' = [heard EXCEPT ![t] = @ \cup {i}]
        /\ delivered' = IF news THEN [delivered EXCEPT ![t] = @ + 1] ELSE delivered
        /\ news => delivered[t] < MaxCopies
    BY DEF Segment
  <1>4. forgotten' = forgotten \cup
          (({current[v] : v \in gone} \cup (IF current[s] = t THEN {} ELSE {current[s]})) \ {None})
    BY DEF Segment
  <1>5. \A v \in Sources : current[v] \in Transfers \cup {None}
    BY DEF IInv, TypeOK
  <1>6. \A v \in gone : current[v] # t
    BY <1>1, <1>2, SourceOf DEF IInv, Tracked
  <1>7. /\ forgotten' \subseteq Transfers
        /\ \A u \in Transfers :
             u \in forgotten' <=>
               u \in forgotten \/ \E v \in gone \cup {s} : current[v] = u /\ ~ (v = s /\ u = t)
    BY <1>1, <1>2, <1>4, <1>5, <1>6, SourceOf DEF IInv, TypeOK
  <1>8. SendAck(t, has) \/ confirmed' = confirmed
    BY DEF Segment
  <1>9. /\ confirmed' \in [Transfers -> SUBSET Nat]
        /\ \A u \in Transfers : u # t => confirmed'[u] = confirmed[u]
        /\ confirmed'[t] \subseteq confirmed[t] \cup (has \cap Segments(t))
    BY <1>8, AckSaysWhatIsThere DEF IInv, TypeOK
  <1>10. QED
    BY <1>1, <1>2, <1>3, <1>7, <1>9

LEMMA SegmentKeepsTypes ==
  ASSUME IInv, NEW t \in Transfers, NEW i \in Segments(t), Segment(t, i)
  PROVE  TypeOK'
  <1> DEFINE s == Source[t]  gone == Evicted(s)  has == HasNow(s, t, i)
             news == Delivers(s, t, i)  whole == WasComplete(s, t) \/ news
  <1> HIDE DEF gone, has, news, whole
  <1>1. /\ s \in Sources /\ gone \subseteq Sources
        /\ bearer' = bearer
        /\ current' = [v \in Sources |-> IF v = s THEN t ELSE IF v \in gone THEN None ELSE current[v]]
        /\ parts' = [v \in Sources |-> IF v = s THEN has ELSE IF v \in gone THEN {} ELSE parts[v]]
        /\ complete' = [v \in Sources |-> IF v = s THEN whole ELSE v \notin gone /\ complete[v]]
        /\ heard' = [heard EXCEPT ![t] = @ \cup {i}]
        /\ delivered' = IF news THEN [delivered EXCEPT ![t] = @ + 1] ELSE delivered
        /\ news => delivered[t] < MaxCopies
        /\ forgotten' \subseteq Transfers
        /\ confirmed' \in [Transfers -> SUBSET Nat]
        /\ \A u \in Transfers : u # t => confirmed'[u] = confirmed[u]
        /\ confirmed'[t] \subseteq confirmed[t] \cup (has \cap Segments(t))
    BY SegmentEffect DEF gone, has, news, whole
  <1>2. table' \in Seq(Sources)
    BY TableMakesRoom DEF IInv
  <1>3. i \in Nat /\ has \in SUBSET Nat /\ whole \in BOOLEAN
    BY <1>1, SourceOf DEF IInv, TypeOK, has, HasNow, whole, WasComplete, Delivers, news
  <1>4. current' \in [Sources -> Transfers \cup {None}] /\ parts' \in [Sources -> SUBSET Nat]
    BY <1>1, <1>3 DEF IInv, TypeOK
  <1>5. complete' \in [Sources -> BOOLEAN]
    BY <1>1, <1>3 DEF IInv, TypeOK
  <1>6. delivered' \in [Transfers -> 0 .. MaxCopies]
    BY <1>1, TransfersAssumption DEF IInv, TypeOK
  <1>7. heard' \in [Transfers -> SUBSET Nat]
    BY <1>1, <1>3 DEF IInv, TypeOK
  <1>8. \A u \in Transfers : confirmed'[u] \cup heard'[u] \subseteq Segments(u)
    BY <1>1 DEF IInv, TypeOK
  <1>9. ackTimer' \subseteq Sources /\ dropTimer' \subseteq Sources
    <2>1. Timers(s, t, gone, whole)
      BY DEF Segment, gone, whole, news
    <2>2. QED
      BY <1>1, <2>1 DEF Timers, Quieten, IInv, TypeOK
  <1>10. QED
    BY <1>1, <1>2, <1>4, <1>5, <1>6, <1>7, <1>8, <1>9 DEF IInv, TypeOK

LEMMA SegmentKeepsTheBounds ==
  ASSUME IInv, NEW t \in Transfers, NEW i \in Segments(t), Segment(t, i)
  PROVE  TableIsBounded' /\ Tracked'
  <1> DEFINE s == Source[t]  gone == Evicted(s)
             whole == WasComplete(s, t) \/ Delivers(s, t, i)
  <1>1. /\ s \in Sources /\ gone \subseteq Sources /\ s \notin gone
        /\ bearer # "closed" /\ bearer' = bearer
        /\ current' = [v \in Sources |-> IF v = s THEN t ELSE IF v \in gone THEN None ELSE current[v]]
        /\ complete' = [v \in Sources |-> IF v = s THEN whole ELSE v \notin gone /\ complete[v]]
    BY SegmentEffect
  <1>2. /\ Len(table') <= MaxSources /\ IsInjective(table')
        /\ Range(table') = (Range(table) \ gone) \cup {s}
    BY TableMakesRoom DEF IInv
  <1>3. Timers(s, t, gone, whole)
    BY DEF Segment
  <1> HIDE DEF gone, whole
  <1>4. /\ ackTimer' \cup dropTimer' \subseteq ((ackTimer \cup dropTimer) \ gone) \cup {s}
        /\ dropTimer \ (gone \cup {s}) \subseteq dropTimer'
        /\ t \notin ToGroup /\ ~ whole => s \in dropTimer'
    BY <1>1, <1>3 DEF Timers, Quieten
  <1>5. ackTimer' \cup dropTimer' \subseteq Range(table')
    BY <1>2, <1>4 DEF IInv, TableIsBounded
  <1>6. ASSUME NEW v \in Sources
        PROVE  /\ v \in Range(table') <=> current'[v] # None
               /\ current'[v] # None => Source[current'[v]] = v
               /\ current'[v] # None /\ ~ complete'[v] /\ current'[v] \notin ToGroup => v \in dropTimer'
    <2>1. CASE v = s
      BY <1>1, <1>2, <1>4, <2>1, SourceOf
    <2>2. CASE v \in gone
      BY <1>1, <1>2, <2>2
    <2>3. CASE v # s /\ v \notin gone
      BY <1>1, <1>2, <1>4, <2>3 DEF IInv, Tracked, TableIsBounded, Pending
    <2>4. QED
      BY <2>1, <2>2, <2>3
  <1>7. QED
    BY <1>1, <1>2, <1>5, <1>6 DEF TableIsBounded, Tracked, Pending

LEMMA SegmentKeepsThePromises ==
  ASSUME IInv, NEW t \in Transfers, NEW i \in Segments(t), Segment(t, i)
  PROVE  Assembled' /\ FirstLife' /\ Promises'
  <1> DEFINE s == Source[t]  gone == Evicted(s)  has == HasNow(s, t, i)
             news == Delivers(s, t, i)  whole == WasComplete(s, t) \/ news
  <1>1. /\ s \in Sources /\ gone \subseteq Sources /\ s \notin gone
        /\ bearer # "closed" /\ bearer' = bearer
        /\ current' = [v \in Sources |-> IF v = s THEN t ELSE IF v \in gone THEN None ELSE current[v]]
        /\ parts' = [v \in Sources |-> IF v = s THEN has ELSE IF v \in gone THEN {} ELSE parts[v]]
        /\ complete' = [v \in Sources |-> IF v = s THEN whole ELSE v \notin gone /\ complete[v]]
        /\ heard' = [heard EXCEPT ![t] = @ \cup {i}]
        /\ delivered' = IF news THEN [delivered EXCEPT ![t] = @ + 1] ELSE delivered
        /\ \A u \in Transfers :
             u \in forgotten' <=>
               u \in forgotten \/ \E v \in gone \cup {s} : current[v] = u /\ ~ (v = s /\ u = t)
        /\ confirmed' \in [Transfers -> SUBSET Nat]
        /\ \A u \in Transfers : u # t => confirmed'[u] = confirmed[u]
        /\ confirmed'[t] \subseteq confirmed[t] \cup (has \cap Segments(t))
    BY SegmentEffect
  <1>2. /\ has = (IF current[s] = t THEN parts[s] ELSE {}) \cup {i}
        /\ news = (~ (current[s] = t /\ complete[s]) /\ has = Segments(t))
        /\ whole = ((current[s] = t /\ complete[s]) \/ news)
    BY DEF HasNow, Delivers, WasComplete
  <1> HIDE DEF gone, has, news, whole
  <1>3. /\ delivered \in [Transfers -> Nat] /\ heard \in [Transfers -> SUBSET Nat]
        /\ \A u \in Transfers : heard[u] \subseteq Segments(u)
        /\ \A v \in Sources : current[v] \in Transfers \cup {None} /\ complete[v] \in BOOLEAN
    BY TransfersAssumption DEF IInv, TypeOK
  <1>4. \A v \in Sources :
          current[v] # None =>
            /\ parts[v] \subseteq heard[current[v]]
            /\ complete[v] <=> parts[v] = Segments(current[v])
            /\ complete[v] => delivered[current[v]] > 0
    BY DEF IInv, Assembled
  <1>5. \A v \in Sources : current[v] # None => Source[current[v]] = v
    BY DEF IInv, Tracked
  <1>6. \A u \in Transfers : delivered'[u] >= delivered[u] /\ heard[u] \subseteq heard'[u]
    BY <1>1, <1>3
  <1>7. has \subseteq heard'[t] /\ heard'[t] \subseteq Segments(t)
    BY <1>1, <1>2, <1>3, <1>4, SourceOf
  <1>8. whole <=> has = Segments(t)
    <2>1. CASE current[s] = t /\ complete[s]
      <3>1. parts[s] = Segments(t)
        BY <1>1, <1>4, <2>1, SourceOf
      <3>2. has = Segments(t) /\ whole
        BY <1>2, <2>1, <3>1
      <3>3. QED
        BY <3>2
    <2>2. CASE ~ (current[s] = t /\ complete[s])
      BY <1>2, <2>2
    <2>3. QED
      BY <2>1, <2>2
  <1>9. whole => delivered'[t] > 0
    BY <1>1, <1>2, <1>3, <1>4, SourceOf
  <1>10. Assembled'
    <2>1. SUFFICES ASSUME NEW v \in Sources
                   PROVE  /\ current'[v] = None => ~ complete'[v]
                          /\ current'[v] # None =>
                               /\ parts'[v] \subseteq heard'[current'[v]]
                               /\ complete'[v] <=> parts'[v] = Segments(current'[v])
                               /\ complete'[v] => delivered'[current'[v]] > 0
      BY DEF Assembled
    <2>2. CASE v = s
      BY <1>1, <1>7, <1>8, <1>9, <2>2, SourceOf
    <2>3. CASE v \in gone
      BY <1>1, <2>3
    <2>4. CASE v # s /\ v \notin gone
      <3>1. current'[v] = current[v] /\ parts'[v] = parts[v] /\ complete'[v] = complete[v]
        BY <1>1, <1>3, <2>4
      <3>2. current[v] = None => ~ complete[v]
        BY DEF IInv, Assembled
      <3>3. CASE current[v] # None
        <4>1. current[v] \in Transfers
          BY <3>3, <1>3
        <4>2. delivered'[current[v]] >= delivered[current[v]] /\ heard[current[v]] \subseteq heard'[current[v]]
          BY <4>1, <1>6
        <4>3. delivered[current[v]] \in Nat /\ delivered'[current[v]] \in Nat
          BY <4>1, <1>1, <1>3
        <4>4. QED
          BY <3>1, <3>3, <4>2, <4>3, <1>4
      <3>4. QED
        BY <3>1, <3>2, <3>3
    <2>5. QED
      BY <2>2, <2>3, <2>4
  <1>11. FirstLife'
    <2>1. SUFFICES ASSUME NEW u \in Transfers, u \notin forgotten'
                   PROVE  IF current'[Source[u]] = u
                          THEN /\ confirmed'[u] \subseteq parts'[Source[u]]
                               /\ delivered'[u] = IF complete'[Source[u]] THEN 1 ELSE 0
                          ELSE confirmed'[u] = {} /\ delivered'[u] = 0
      BY DEF FirstLife
    <2>2. u \notin forgotten /\ \A v \in gone \cup {s} : current[v] = u => v = s /\ u = t
      BY <1>1, <2>1
    <2>3. IF current[Source[u]] = u
          THEN /\ confirmed[u] \subseteq parts[Source[u]]
               /\ delivered[u] = IF complete[Source[u]] THEN 1 ELSE 0
          ELSE confirmed[u] = {} /\ delivered[u] = 0
      BY <2>2, <1>1 DEF IInv, FirstLife
    <2>4. CASE u = t
      <3>1. current'[s] = t /\ parts'[s] = has /\ complete'[s] = whole
        BY <1>1
      <3>2. confirmed[t] \subseteq has
        BY <2>3, <2>4, <1>2
      <3>3. delivered'[t] = IF whole THEN 1 ELSE 0
        <4>1. CASE current[s] = t /\ complete[s]
          BY <1>1, <1>2, <1>3, <2>3, <2>4, <4>1
        <4>2. CASE ~ (current[s] = t /\ complete[s])
          <5>1. delivered[t] = 0 /\ whole = news
            BY <1>2, <2>3, <2>4, <4>2
          <5>2. QED
            BY <1>1, <1>3, <5>1
        <4>3. QED
          BY <4>1, <4>2
      <3>4. QED
        BY <3>1, <3>2, <3>3, <1>1, <2>4
    <2>5. CASE u # t
      <3>1. confirmed'[u] = confirmed[u] /\ delivered'[u] = delivered[u]
        BY <1>1, <1>3, <2>5
      <3>2. CASE current[Source[u]] = u
        <4>1. Source[u] \in Sources /\ Source[u] \notin gone \cup {s}
          BY <2>2, <2>5, <3>2, SourceOf
        <4>2. QED
          BY <1>1, <2>3, <3>1, <3>2, <4>1
      <3>3. CASE current[Source[u]] # u
        <4>1. current'[Source[u]] # u
          BY <1>1, <2>5, <3>3, SourceOf
        <4>2. QED
          BY <2>3, <3>1, <3>3, <4>1
      <3>4. QED
        BY <3>2, <3>3
    <2>6. QED
      BY <2>4, <2>5
  <1>12. NothingInvented'
    <2>1. SUFFICES ASSUME NEW u \in Transfers
                   PROVE  confirmed'[u] \subseteq heard'[u] /\ (delivered'[u] > 0 => heard'[u] = Segments(u))
      BY DEF NothingInvented
    <2>2. confirmed[u] \subseteq heard[u] /\ (delivered[u] > 0 => heard[u] = Segments(u))
      BY DEF IInv, Promises, NothingInvented
    <2>3. CASE u = t
      <3>1. confirmed'[t] \subseteq heard'[t]
        BY <1>1, <1>6, <1>7, <2>2, <2>3
      <3>2. CASE news
        <4>1. has = Segments(t)
          BY <1>2, <3>2
        <4>2. heard'[t] = Segments(t)
          BY <4>1, <1>7
        <4>3. QED
          BY <2>3, <3>1, <4>2
      <3>3. CASE ~ news
        <4>1. delivered'[t] = delivered[t]
          BY <1>1, <3>3
        <4>2. delivered[t] > 0 => heard'[t] = Segments(t)
          BY <1>6, <1>7, <2>2, <2>3
        <4>3. QED
          BY <2>3, <3>1, <4>1, <4>2
      <3>4. QED
        BY <3>2, <3>3
    <2>4. CASE u # t
      BY <1>1, <1>3, <2>2, <2>4
    <2>5. QED
      BY <2>3, <2>4
  <1>13. DeliveredOnce' /\ ConfirmedIsDelivered'
    <2>1. SUFFICES ASSUME NEW u \in Transfers, u \notin forgotten'
                   PROVE  delivered'[u] <= 1 /\ (confirmed'[u] = Segments(u) => delivered'[u] > 0)
      <3>1. \A u \in Transfers : delivered'[u] \in Nat
        BY <1>1, <1>3
      <3>2. QED
        BY <2>1, <3>1 DEF DeliveredOnce, ConfirmedIsDelivered
    <2>2. Source[u] \in Sources /\ bearer' # "closed" /\ Segments(u) # {}
      BY <1>1, SourceOf
    <2>3. CASE current'[Source[u]] = u
      <3>1. confirmed'[u] \subseteq parts'[Source[u]] /\ delivered'[u] = IF complete'[Source[u]] THEN 1 ELSE 0
        BY <1>11, <2>1, <2>2, <2>3 DEF FirstLife
      <3>2. /\ parts'[Source[u]] \subseteq heard'[u]
            /\ complete'[Source[u]] <=> parts'[Source[u]] = Segments(u)
        BY <1>10, <2>2, <2>3, SourceOf DEF Assembled
      <3>3. heard'[u] \subseteq Segments(u)
        BY <1>1, <1>3, <1>7
      <3>4. complete'[Source[u]] \in BOOLEAN
        BY <1>1, <1>2, <1>3, <2>2
      <3>5. delivered'[u] \in {0, 1}
        BY <3>1
      <3>6. ASSUME confirmed'[u] = Segments(u) PROVE delivered'[u] > 0
        <4>1. parts'[Source[u]] = Segments(u)
          BY <3>1, <3>2, <3>3, <3>6
        <4>2. complete'[Source[u]]
          BY <3>2, <4>1
        <4>3. QED
          BY <3>1, <4>2
      <3>7. QED
        BY <3>5, <3>6
    <2>4. CASE current'[Source[u]] # u
      <3>1. confirmed'[u] = {} /\ delivered'[u] = 0
        BY <1>11, <2>1, <2>2, <2>4 DEF FirstLife
      <3>2. QED
        BY <3>1, <2>2
    <2>5. QED
      BY <2>3, <2>4
  <1>14. QED
    BY <1>10, <1>11, <1>12, <1>13 DEF Promises

----------------------------------------------------------------------------
(***************************************************************************)
(* The timers, and the end.                                                *)
(***************************************************************************)

LEMMA AckTimerKeepsIInv ==
  ASSUME IInv, NEW s \in Sources, AckTimerFires(s)
  PROVE  IInv'
  <1> DEFINE t == current[s]
  <1>1. /\ s \in ackTimer /\ ackTimer' = ackTimer \ {s} /\ SendAck(t, parts[s])
        /\ UNCHANGED <<table, current, parts, complete, dropTimer, bearer, heard, delivered, forgotten>>
    BY DEF AckTimerFires, assembly
  <1>2. t \in Transfers /\ Source[t] = s /\ parts[s] \subseteq heard[t]
    BY <1>1 DEF IInv, TypeOK, TableIsBounded, Tracked, Assembled
  <1> HIDE DEF t
  <1>3. /\ confirmed' \in [Transfers -> SUBSET Nat]
        /\ \A u \in Transfers : u # t => confirmed'[u] = confirmed[u]
        /\ confirmed'[t] \subseteq confirmed[t] \cup (parts[s] \cap Segments(t))
    BY <1>1, <1>2, AckSaysWhatIsThere DEF IInv
  <1>4. current[s] = t
    BY DEF t
  <1>5. TypeOK'
    BY <1>1, <1>2, <1>3 DEF IInv, TypeOK
  <1>6. TableIsBounded' /\ Tracked' /\ Assembled'
    BY <1>1 DEF IInv, TableIsBounded, Tracked, Assembled, Pending
  <1>7. FirstLife'
    BY <1>1, <1>2, <1>3, <1>4 DEF IInv, FirstLife
  <1>8. NothingInvented'
    BY <1>1, <1>2, <1>3 DEF IInv, Promises, NothingInvented
  <1>9. DeliveredOnce'
    BY <1>1 DEF IInv, Promises, DeliveredOnce
  <1>10. ConfirmedIsDelivered'
    <2>1. SUFFICES ASSUME NEW u \in Transfers, u \notin forgotten, confirmed'[u] = Segments(u)
                   PROVE  delivered[u] > 0
      BY <1>1 DEF ConfirmedIsDelivered
    <2>2. CASE u # t
      BY <2>1, <2>2, <1>3 DEF IInv, Promises, ConfirmedIsDelivered
    <2>3. CASE u = t
      <3>1. bearer # "closed"
        BY <1>1 DEF IInv, Tracked, TableIsBounded, Range
      <3>2. confirmed[t] \subseteq parts[s]
        BY <1>2, <1>4, <2>1, <2>3, <3>1 DEF IInv, FirstLife
      <3>3. parts[s] = Segments(t)
        <4>1. confirmed'[t] = Segments(t)
          BY <2>1, <2>3
        <4>2. Segments(t) \subseteq parts[s]
          BY <1>3, <3>2, <4>1, Zenon
        <4>3. heard[t] \subseteq Segments(t)
          BY <1>2 DEF IInv, TypeOK
        <4>4. QED
          BY <1>2, <4>2, <4>3, Zenon
      <3>4. complete[s]
        BY <1>2, <1>4, <3>3, SourceOf DEF IInv, Assembled
      <3>5. QED
        BY <1>2, <1>4, <2>3, <3>4, SourceOf DEF IInv, Assembled
    <2>4. QED
      BY <2>2, <2>3
  <1>11. QED
    BY <1>5, <1>6, <1>7, <1>8, <1>9, <1>10 DEF IInv, Promises

LEMMA AbandonKeepsIInv ==
  ASSUME IInv, NEW s \in Sources, Abandon(s)
  PROVE  IInv'
  <1>1. /\ s \in dropTimer /\ dropTimer' = dropTimer \ {s} /\ ackTimer' = ackTimer \ {s}
        /\ table' = RemoveFirst(table, s)
        /\ current' = [current EXCEPT ![s] = None] /\ parts' = [parts EXCEPT ![s] = {}]
        /\ complete' = [complete EXCEPT ![s] = FALSE]
        /\ forgotten' = forgotten \cup {current[s]}
        /\ UNCHANGED <<bearer, confirmed, heard, delivered>>
    BY DEF Abandon
  <1>2. s \in Range(table) /\ table \in Seq(Sources) /\ IsInjective(table)
    BY <1>1 DEF IInv, TypeOK, TableIsBounded
  <1>3. /\ table' \in Seq(Sources) /\ IsInjective(table') /\ Range(table') = Range(table) \ {s}
        /\ Len(table') = Len(table) - 1
    BY <1>1, <1>2, RemoveFirstProperties
  <1>4. current[s] \in Transfers /\ Source[current[s]] = s
    BY <1>2 DEF IInv, TypeOK, Tracked
  <1>5. /\ \A v \in Sources : current'[v] = IF v = s THEN None ELSE current[v]
        /\ \A v \in Sources : parts'[v] = IF v = s THEN {} ELSE parts[v]
        /\ \A v \in Sources : complete'[v] = IF v = s THEN FALSE ELSE complete[v]
    BY <1>1 DEF IInv, TypeOK
  <1>6. TypeOK'
    BY <1>1, <1>3, <1>4 DEF IInv, TypeOK
  <1>7. TableIsBounded'
    <2>1. Len(table') <= MaxSources
      <3>1. Len(table) \in Nat /\ Len(table) <= MaxSources /\ MaxSources \in Nat
        BY <1>2, TransfersAssumption DEF IInv, TableIsBounded
      <3>2. QED
        BY <1>3, <3>1
    <2>2. ackTimer' \cup dropTimer' \subseteq Range(table')
      BY <1>1, <1>3 DEF IInv, TableIsBounded
    <2>3. ASSUME NEW v \in Sources
          PROVE  /\ current'[v] # None => v \in Range(table')
                 /\ current'[v] # None /\ ~ complete'[v] /\ current'[v] \notin ToGroup => v \in dropTimer'
      BY <1>1, <1>3, <1>5 DEF IInv, TableIsBounded, Pending
    <2>4. QED
      BY <1>3, <2>1, <2>2, <2>3 DEF TableIsBounded, Pending
  <1>8. Tracked'
    <2>1. bearer # "closed"
      BY <1>2 DEF IInv, Tracked, Range
    <2>2. QED
      BY <1>1, <1>3, <1>5, <2>1 DEF IInv, Tracked
  <1>9. Assembled'
    BY <1>1, <1>5 DEF IInv, Assembled
  <1>10. FirstLife'
    <2>1. SUFFICES ASSUME NEW t \in Transfers, t \notin forgotten', bearer' # "closed"
                   PROVE  IF current'[Source[t]] = t
                          THEN /\ confirmed'[t] \subseteq parts'[Source[t]]
                               /\ delivered'[t] = IF complete'[Source[t]] THEN 1 ELSE 0
                          ELSE confirmed'[t] = {} /\ delivered'[t] = 0
      BY DEF FirstLife
    <2>2. t \notin forgotten /\ t # current[s]
      BY <1>1, <2>1
    <2>3. CASE Source[t] = s
      BY <1>1, <1>5, <2>1, <2>2, <2>3, SourceOf DEF IInv, FirstLife
    <2>4. CASE Source[t] # s
      BY <1>1, <1>5, <2>1, <2>2, <2>4, SourceOf DEF IInv, FirstLife
    <2>5. QED
      BY <2>3, <2>4
  <1>11. Promises'
    BY <1>1 DEF IInv, Promises, NothingInvented, DeliveredOnce, ConfirmedIsDelivered
  <1>12. QED
    BY <1>6, <1>7, <1>8, <1>9, <1>10, <1>11 DEF IInv

LEMMA CloseKeepsIInv ==
  ASSUME IInv, Close
  PROVE  IInv'
  <1>1. /\ bearer' = "closed" /\ ackTimer' = {} /\ dropTimer' = {} /\ table' = <<>>
        /\ current' = [s \in Sources |-> None] /\ parts' = [s \in Sources |-> {}]
        /\ complete' = [s \in Sources |-> FALSE]
        /\ UNCHANGED <<confirmed, heard, delivered, forgotten>>
    BY DEF Close
  <1>2. TypeOK'
    BY <1>1 DEF IInv, TypeOK
  <1>3. Len(table') = 0 /\ Range(table') = {} /\ IsInjective(table')
    BY <1>1 DEF Range, IsInjective
  <1>4. TableIsBounded' /\ Tracked'
    BY <1>1, <1>3, TransfersAssumption DEF TableIsBounded, Tracked, Pending
  <1>5. Assembled' /\ FirstLife'
    BY <1>1 DEF Assembled, FirstLife
  <1>6. Promises'
    BY <1>1 DEF IInv, Promises, NothingInvented, DeliveredOnce, ConfirmedIsDelivered
  <1>7. QED
    BY <1>2, <1>4, <1>5, <1>6 DEF IInv

LEMMA StopBearerKeepsIInv ==
  ASSUME IInv, StopBearer
  PROVE  IInv'
  BY DEF IInv, StopBearer, assembly, timers, TypeOK, TableIsBounded, Pending, Tracked, Assembled,
         FirstLife, Promises, NothingInvented, DeliveredOnce, ConfirmedIsDelivered

LEMMA StutterKeepsIInv ==
  ASSUME IInv, UNCHANGED vars
  PROVE  IInv'
  BY DEF IInv, vars, TypeOK, TableIsBounded, Pending, Tracked, Assembled, FirstLife, Promises,
         NothingInvented, DeliveredOnce, ConfirmedIsDelivered

----------------------------------------------------------------------------
(***************************************************************************)
(* The theorems.                                                           *)
(***************************************************************************)

LEMMA InitIInv == Init => IInv
  <1> SUFFICES ASSUME Init PROVE IInv
    OBVIOUS
  <1>1. Len(table) = 0 /\ Range(table) = {} /\ IsInjective(table)
    BY DEF Init, Range, IsInjective
  <1>2. TypeOK
    BY TransfersAssumption DEF Init, TypeOK
  <1>3. TableIsBounded /\ Tracked /\ Assembled
    BY <1>1, TransfersAssumption DEF Init, TableIsBounded, Pending, Tracked, Assembled
  <1>4. FirstLife
    BY SourceOf DEF Init, FirstLife
  <1>5. Promises
    BY SourceOf DEF Init, Promises, NothingInvented, DeliveredOnce, ConfirmedIsDelivered
  <1>6. QED
    BY <1>2, <1>3, <1>4, <1>5 DEF IInv

LEMMA NextIInv == IInv /\ [Next]_vars => IInv'
  <1> SUFFICES ASSUME IInv, [Next]_vars PROVE IInv'
    OBVIOUS
  <1>1. ASSUME NEW t \in Transfers, NEW i \in Segments(t), Segment(t, i) PROVE IInv'
    BY <1>1, SegmentKeepsTypes, SegmentKeepsTheBounds, SegmentKeepsThePromises DEF IInv
  <1>2. ASSUME NEW s \in Sources, AckTimerFires(s) PROVE IInv'
    BY <1>2, AckTimerKeepsIInv
  <1>3. ASSUME NEW s \in Sources, Abandon(s) PROVE IInv'
    BY <1>3, AbandonKeepsIInv
  <1>4. CASE StopBearer
    BY <1>4, StopBearerKeepsIInv
  <1>5. CASE Close
    BY <1>5, CloseKeepsIInv
  <1>6. CASE UNCHANGED vars
    BY <1>6, StutterKeepsIInv
  <1>7. QED
    BY <1>1, <1>2, <1>3, <1>4, <1>5, <1>6 DEF Next

\* The invariant holds in every behaviour: what an assembler of node.py knows
\* of its source, the timers that run and what was delivered always agree.
THEOREM AssemblersAgree == Spec => []IInv
  <1>1. QED
    BY InitIInv, NextIInv, PTL DEF Spec

\* Whatever order segments come in and however many sources there are, the
\* table of _assembler_for stays within its limit, no timer outlives its entry,
\* and a message to us that lacks a segment will be given up.
THEOREM TableBounded == Spec => []TableIsBounded
  <1>1. IInv => TableIsBounded
    BY DEF IInv
  <1>2. QED
    BY <1>1, AssemblersAgree, PTL

\* No segment is acknowledged and no message delivered that did not arrive.
THEOREM NeverInvents == Spec => []NothingInvented
  <1>1. IInv => NothingInvented
    BY DEF IInv, Promises
  <1>2. QED
    BY <1>1, AssemblersAgree, PTL

\* Retransmissions of a delivered transfer are acknowledged again, never
\* delivered again, unless the transfer's state was given up for another's.
THEOREM NoSecondDelivery == Spec => []DeliveredOnce
  <1>1. IInv => DeliveredOnce
    BY DEF IInv, Promises
  <1>2. QED
    BY <1>1, AssemblersAgree, PTL

\* A sender that saw all its segments acknowledged was understood, unless the
\* transfer was given up on the way.
THEOREM ConfirmedWasDelivered == Spec => []ConfirmedIsDelivered
  <1>1. IInv => ConfirmedIsDelivered
    BY DEF IInv, Promises
  <1>2. QED
    BY <1>1, AssemblersAgree, PTL

----------------------------------------------------------------------------
\* Two numbers less than a window apart lie in the same window or in the next.
LEMMA NextWindow ==
  ASSUME NEW a \in Int, NEW b \in Int, NEW x \in Int, NEW y \in Int,
         0 <= x, x < 8192, 0 <= y, y < 8192,
         8192 * a + x <= 8192 * b + y, 8192 * b + y < 8192 * a + x + 8192
  PROVE  a <= b /\ b <= a + 1
PROOF
<1>1. ASSUME b < a PROVE FALSE
  BY <1>1, SMT
<1>2. ASSUME a + 1 < b PROVE FALSE
  BY <1>2, SMT
<1> QED BY <1>1, <1>2, SMT

\* What a sender relies on: whatever segment of a message arrives last, the
\* message is decrypted under the SEQ of the first, as long as the last left
\* within 0x1FFF of it ("any later segment's SEQ is at most 0x1FFF greater").
THEOREM SeqAuthRecoversFirst ==
  ASSUME NEW first \in Nat, NEW seq \in Nat, first <= seq, seq < first + Window
  PROVE  SeqAuthOf(seq, first % Window) = first
PROOF
<1> DEFINE fq == first \div Window  fr == first % Window
           sq == seq \div Window    sr == seq % Window
<1>1. first = Window * fq + fr /\ fq \in Int /\ fr \in 0 .. 8191
  BY DEF Window
<1>2. seq = Window * sq + sr /\ sq \in Int /\ sr \in 0 .. 8191
  BY DEF Window
<1>3. SeqAuthOf(seq, fr) =
        IF fr + Window * sq > seq THEN (fr + Window * sq) - Window ELSE fr + Window * sq
  <2>1. seq - (seq % Window) = Window * sq
    BY <1>2 DEF Window
  <2> QED BY <2>1 DEF SeqAuthOf
<1> HIDE DEF fq, fr, sq, sr
<1>4. fq <= sq /\ sq <= fq + 1
  <2>1. 8192 * fq + fr <= 8192 * sq + sr /\ 8192 * sq + sr < 8192 * fq + fr + 8192
    BY <1>1, <1>2 DEF Window
  <2>2. fr \in Int /\ sr \in Int /\ 0 <= fr /\ fr < 8192 /\ 0 <= sr /\ sr < 8192
    BY <1>1, <1>2
  <2> QED BY <1>1, <1>2, <2>1, <2>2, NextWindow
<1>5. SeqAuthOf(seq, fr) = first
  BY <1>1, <1>2, <1>3, <1>4 DEF Window
<1> QED BY <1>5 DEF fr

----------------------------------------------------------------------------
(***************************************************************************)
(* request(): the inductive invariant.                                     *)
(***************************************************************************)

\* The calls whose finally clause has not run.
Unfinished(r) == phase[r] \in {"waiting", "late"}

\* The calls that have begun, once each, and the waiters among them.
CallsFit ==
  /\ IsInjective(begun)
  /\ Range(begun) = {r \in Requests : phase[r] # "idle"}
  /\ IsInjective(waiters)
  /\ Range(waiters) = {r \in Requests : Unfinished(r)}
  /\ \A a, b \in DOMAIN waiters, i, j \in DOMAIN begun :
       begun[i] = waiters[a] /\ begun[j] = waiters[b] /\ a < b => i < j

\* The Statuses on a link are in the node's order, the next one first, and what a
\* future holds was delivered.
InOrder(q, low, high) ==
  /\ \A i \in 1 .. Len(q) : low <= q[i] /\ q[i] \in 1 .. high
  /\ \A i, j \in 1 .. Len(q) : i < j => q[i] <= q[j]

AirInOrder ==
  /\ \A l \in Links : InOrder(air[l], lastSeq, Len(said))
  /\ \A r \in Requests : fut[r] # Nothing => fut[r] \in 1 .. lastSeq

\* Of two calls, the one that began first was answered first, or ended without.
OlderFirst ==
  /\ \A r \in Requests : fut[r] # Nothing => phase[r] # "idle"
  /\ \A i, j \in DOMAIN begun : i < j /\ fut[begun[j]] # Nothing =>
       \/ fut[begun[i]] # Nothing /\ fut[begun[i]] < fut[begun[j]]
       \/ fut[begun[i]] = Nothing /\ phase[begun[i]] = "done"

\* What a call returned is what its future holds, and nothing is set later.
ReturnsItsFuture ==
  \A r \in Requests :
    /\ phase[r] = "idle" => tries[r] = 0
    /\ got[r] # Nothing => phase[r] = "done"
    /\ got[r] = TimedOut => fut[r] = Nothing
    /\ got[r] \in Nat => fut[r] = got[r]

\* As long as all is calm, the node answers the calls in the order they began, and
\* no Status on its way is missing.
CalmPairs ==
  calm =>
    /\ \A r \in Requests : phase[r] # "late" /\ (phase[r] = "done" => fut[r] # Nothing)
    /\ Len(begun) = Len(said) + Len(toNode)
    /\ \A k \in 1 .. Len(said) : said[k] = begun[k]
    /\ \A k \in 1 .. Len(toNode) : toNode[k] = begun[Len(said) + k]
    /\ \A k \in 1 .. Len(begun) : fut[begun[k]] = IF k <= lastSeq THEN k ELSE Nothing
    /\ \A l \in Links, s \in lastSeq + 1 .. Len(said) : s \in Range(air[l])

\* With several links the copies of two Statuses reach the node's lastSeq mixed, and
\* the order really breaks: only an immediate repeat is dropped.
OneLink == \A k, l \in Links : k = l

\* What holds over any number of links, and what needs one.
CallsInv == RequestTypeOK /\ CallsFit /\ ReturnsItsFuture
OrderInv == AirInOrder /\ OlderFirst /\ CalmPairs

----------------------------------------------------------------------------
(***************************************************************************)
(* How calls begin, wait and end.                                          *)
(***************************************************************************)

\* How a call changes the books.
Ends(r) ==
  /\ Unfinished(r)
  /\ phase' = [phase EXCEPT ![r] = "done"] /\ waiters' = RemoveFirst(waiters, r)
  /\ got' = got \/ (got' = [got EXCEPT ![r] = fut[r]] /\ fut[r] # Nothing) \/ (got' = [got EXCEPT ![r] = TimedOut] /\ fut[r] = Nothing)
  /\ calm' \in BOOLEAN /\ (calm' => calm /\ (fut[r] # Nothing \/ phase[r] = "late"))
  /\ lock' \in {lock, Nothing}
  /\ UNCHANGED <<tries, begun, fut, toNode, said, air, lastSeq, odd>>

LEMMA CallEnds ==
  ASSUME NEW r \in Requests, RequestTypeOK, Return(r) \/ GiveUp(r) \/ Cancelled(r)
  PROVE  Ends(r)
<1>1. waiters' = RemoveFirst(waiters, r) /\ phase' = [phase EXCEPT ![r] = "done"] /\ lock' \in {lock, Nothing}
  BY DEF Return, GiveUp, Cancelled, Leave
<1>2. CASE Return(r)
  BY <1>1, <1>2 DEF Return, Ends, Unfinished, RequestTypeOK
<1>3. CASE GiveUp(r)
  BY <1>1, <1>3 DEF GiveUp, Ends, Unfinished, RequestTypeOK
<1>4. CASE Cancelled(r)
  BY <1>1, <1>4 DEF Cancelled, Ends, Unfinished, RequestTypeOK
<1>5. QED
  BY <1>2, <1>3, <1>4

LEMMA RequestStarts ==
  ASSUME RequestInit
  PROVE  CallsInv /\ OrderInv
<1>1. /\ <<>> \in Seq(Requests) /\ <<>> \in Seq(Requests \cup {Nothing}) /\ <<>> \in Seq(0 .. 0)
      /\ IsInjective(<<>>) /\ Range(<<>>) = {} /\ Len(<<>>) = 0 /\ DOMAIN <<>> = {}
  BY DEF IsInjective, Range
<1>2. RequestTypeOK
  <2>1. Seqs = 0 .. 0
    BY <1>1 DEF Seqs, RequestInit
  <2>2. \A r \in Requests : tries[r] <= Retries[r] + 1
    BY RequestAssumption DEF RequestInit
  <2>3. QED
    BY <1>1, <2>1, <2>2, RequestAssumption DEF RequestInit, RequestTypeOK, Phases
<1>3. CallsFit /\ ReturnsItsFuture
  <2>3. CallsFit
    BY <1>1 DEF RequestInit, CallsFit, Unfinished
  <2>4. ReturnsItsFuture
    BY RequestAssumption DEF RequestInit, ReturnsItsFuture
  <2>5. QED
    BY <2>3, <2>4
<1>4. AirInOrder /\ OlderFirst
  BY <1>1 DEF RequestInit, AirInOrder, OlderFirst, InOrder
<1>5. CalmPairs
  BY <1>1 DEF RequestInit, CalmPairs
<1>6. QED
  BY <1>2, <1>3, <1>4, <1>5 DEF CallsInv, OrderInv

LEMMA CallsFitMeans == CallsFit => WaitersAreTheCalls
  BY DEF CallsFit, WaitersAreTheCalls, Range, IsInjective, Unfinished

LEMMA CallEndsKeeps ==
  ASSUME CallsInv, NEW r \in Requests, Ends(r)
  PROVE  CallsInv' /\ (OrderInv => OrderInv')
<1>1. /\ phase' = [phase EXCEPT ![r] = "done"] /\ waiters' = RemoveFirst(waiters, r)
      /\ got' = got \/ (got' = [got EXCEPT ![r] = fut[r]] /\ fut[r] # Nothing) \/ (got' = [got EXCEPT ![r] = TimedOut] /\ fut[r] = Nothing)
      /\ calm' \in BOOLEAN /\ (calm' => calm /\ (fut[r] # Nothing \/ phase[r] = "late"))
      /\ lock' \in {lock, Nothing} /\ phase[r] \in {"waiting", "late"}
      /\ UNCHANGED <<tries, begun, fut, toNode, said, air, lastSeq, odd>>
  BY DEF Ends, Unfinished
<1>2. /\ waiters \in Seq(Requests) /\ IsInjective(waiters) /\ Range(waiters) = {x \in Requests : Unfinished(x)}
      /\ begun \in Seq(Requests) /\ Len(waiters) \in Nat
  BY DEF CallsInv, CallsFit, RequestTypeOK
<1>3. PICK k \in 1 .. Len(waiters) : waiters[k] = r
  <2>1. r \in Range(waiters)
    BY <1>1, <1>2 DEF Unfinished
  <2>2. QED
    BY <1>2, <2>1 DEF Range
<1>4. /\ waiters' \in Seq(Requests) /\ IsInjective(waiters') /\ Range(waiters') = Range(waiters) \ {r}
      /\ Len(waiters') = Len(waiters) - 1
      /\ \A i \in 1 .. Len(waiters) - 1 : waiters'[i] = IF i < k THEN waiters[i] ELSE waiters[i + 1]
  <2>1. /\ RemoveFirst(waiters, r) \in Seq(Requests) /\ IsInjective(RemoveFirst(waiters, r))
        /\ Range(RemoveFirst(waiters, r)) = Range(waiters) \ {r}
    BY <1>2, RemoveFirstProperties
  <2>2. /\ Len(RemoveFirst(waiters, waiters[k])) = Len(waiters) - 1
        /\ \A i \in 1 .. Len(waiters) - 1 :
             RemoveFirst(waiters, waiters[k])[i] = IF i < k THEN waiters[i] ELSE waiters[i + 1]
    BY <1>2, RemoveFirstAt
  <2>3. QED
    BY <1>1, <1>3, <2>1, <2>2
<1>5. phase' \in [Requests -> Phases] /\ phase'[r] = "done" /\ \A x \in Requests : x # r => phase'[x] = phase[x]
  BY <1>1 DEF CallsInv, RequestTypeOK, Phases
<1>6. RequestTypeOK'
  <2>1. Seqs' = Seqs
    BY <1>1 DEF Seqs
  <2>2. got' \in [Requests -> Seqs \cup {Nothing, TimedOut}]
    BY <1>1 DEF CallsInv, RequestTypeOK
  <2>3. QED
    BY <1>1, <1>4, <1>5, <2>1, <2>2 DEF CallsInv, RequestTypeOK
<1>7. CallsFit'
  <2>1. Range(begun) = {x \in Requests : phase'[x] # "idle"}
    BY <1>1, <1>5 DEF CallsInv, CallsFit
  <2>2. Range(waiters') = {x \in Requests : Unfinished(x)'}
    BY <1>2, <1>4, <1>5 DEF Unfinished
  <2>3. \A a, b \in 1 .. Len(waiters'), i, j \in 1 .. Len(begun) :
          begun[i] = waiters'[a] /\ begun[j] = waiters'[b] /\ a < b => i < j
    <3>1. SUFFICES ASSUME NEW a \in 1 .. Len(waiters'), NEW b \in 1 .. Len(waiters'), NEW i \in 1 .. Len(begun), NEW j \in 1 .. Len(begun),
                          begun[i] = waiters'[a], begun[j] = waiters'[b], a < b
                   PROVE  i < j
      OBVIOUS
    <3>2. PICK c \in 1 .. Len(waiters), d \in 1 .. Len(waiters) : waiters'[a] = waiters[c] /\ waiters'[b] = waiters[d] /\ c < d
      <4>0. Len(waiters) \in Nat /\ Len(waiters') = Len(waiters) - 1
        BY <1>2, <1>4
      <4>1. /\ a \in 1 .. Len(waiters) - 1 /\ b \in 1 .. Len(waiters) - 1
            /\ a \in 1 .. Len(waiters) /\ a + 1 \in 1 .. Len(waiters) /\ b \in 1 .. Len(waiters) /\ b + 1 \in 1 .. Len(waiters)
        BY <4>0
      <4>2. CASE a < k /\ b < k
        BY <1>4, <3>1, <4>1, <4>2
      <4>3. CASE a < k /\ ~ (b < k)
        <5>1. waiters'[a] = waiters[a] /\ waiters'[b] = waiters[b + 1] /\ a < b + 1
          BY <1>4, <3>1, <4>1, <4>3
        <5>2. QED
          BY <4>1, <5>1
      <4>4. CASE ~ (a < k) /\ ~ (b < k)
        <5>1. waiters'[a] = waiters[a + 1] /\ waiters'[b] = waiters[b + 1]
          BY <1>4, <4>1, <4>4
        <5>2. a + 1 < b + 1
          BY <3>1
        <5>3. QED
          BY <4>1, <5>1, <5>2
      <4>5. a < k \/ ~ (b < k)
        BY <3>1
      <4>6. QED
        BY <4>2, <4>3, <4>4, <4>5
    <3>3. \A x, y \in 1 .. Len(waiters) : begun[i] = waiters[x] /\ begun[j] = waiters[y] /\ x < y => i < j
      <4>1. DOMAIN waiters = 1 .. Len(waiters) /\ DOMAIN begun = 1 .. Len(begun)
        BY <1>2
      <4>2. QED
        BY <4>1 DEF CallsInv, CallsFit
    <3>4. QED
      BY <3>1, <3>2, <3>3
  <2>4. DOMAIN waiters' = 1 .. Len(waiters') /\ DOMAIN begun = 1 .. Len(begun)
    BY <1>2, <1>4
  <2>5. IsInjective(begun)
    BY DEF CallsInv, CallsFit
  <2>6. QED
    <3>1. begun' = begun /\ IsInjective(waiters')
      BY <1>1, <1>4
    <3>2. QED
      BY <2>1, <2>2, <2>3, <2>4, <2>5, <3>1 DEF CallsFit
<1>8. ReturnsItsFuture'
  <2>1. \A x \in Requests : x # r => got'[x] = got[x]
    BY <1>1 DEF CallsInv, RequestTypeOK
  <2>2. got[r] = Nothing
    BY <1>1 DEF CallsInv, ReturnsItsFuture
  <2>3. got'[r] \in {Nothing, TimedOut, fut[r]} /\ (got'[r] = TimedOut => fut[r] = Nothing) /\ (got'[r] \in Nat => got'[r] = fut[r])
    <3>1. fut[r] # TimedOut
      BY RequestAssumption DEF CallsInv, RequestTypeOK, Seqs
    <3>2. CASE got' = got
      BY <2>2, <3>2, RequestAssumption
    <3>3. CASE got' = [got EXCEPT ![r] = fut[r]]
      BY <3>1, <3>3 DEF CallsInv, RequestTypeOK
    <3>4. CASE got' = [got EXCEPT ![r] = TimedOut] /\ fut[r] = Nothing
      BY <3>4, RequestAssumption DEF CallsInv, RequestTypeOK
    <3>5. QED
      BY <1>1, <3>2, <3>3, <3>4
  <2>4. QED
    BY <1>1, <1>5, <2>1, <2>3 DEF CallsInv, ReturnsItsFuture
<1>9. ASSUME OrderInv PROVE OrderInv'
  <2>1. AirInOrder'
    BY <1>1, <1>9 DEF OrderInv, AirInOrder, InOrder
  <2>2. OlderFirst'
    <3>1. \A i \in DOMAIN begun : begun[i] \in Requests
      BY <1>2
    <3>2. QED
      BY <1>1, <1>5, <1>9, <3>1 DEF OrderInv, OlderFirst
  <2>3. CalmPairs'
    BY <1>1, <1>5, <1>9 DEF OrderInv, CalmPairs
  <2>4. QED
    BY <2>1, <2>2, <2>3 DEF OrderInv
<1>10. QED
  BY <1>6, <1>7, <1>8, <1>9 DEF CallsInv

LEMMA BeginKeeps ==
  ASSUME CallsInv, NEW r \in Requests, Begin(r)
  PROVE  CallsInv' /\ (OrderInv => OrderInv')
<1>1. /\ phase[r] = "idle" /\ lock' = IF r \in Commands THEN r ELSE lock
      /\ phase' = [phase EXCEPT ![r] = "waiting"]
      /\ begun' = Append(begun, r) /\ waiters' = Append(waiters, r) /\ toNode' = Append(toNode, r)
      /\ tries' = [tries EXCEPT ![r] = @ + 1]
      /\ UNCHANGED <<fut, said, air, lastSeq, odd, got, calm>>
  BY DEF Begin, Send
<1>2. /\ begun \in Seq(Requests) /\ IsInjective(begun) /\ Range(begun) = {x \in Requests : phase[x] # "idle"}
      /\ waiters \in Seq(Requests) /\ IsInjective(waiters) /\ Range(waiters) = {x \in Requests : Unfinished(x)}
      /\ Len(begun) \in Nat /\ Len(waiters) \in Nat /\ toNode \in Seq(Requests)
  BY DEF CallsInv, CallsFit, RequestTypeOK
<1>3. r \notin Range(begun) /\ r \notin Range(waiters)
  BY <1>1, <1>2 DEF Unfinished
<1>4. /\ begun' \in Seq(Requests) /\ IsInjective(begun') /\ Range(begun') = Range(begun) \cup {r}
      /\ Len(begun') = Len(begun) + 1
      /\ begun'[Len(begun) + 1] = r /\ \A i \in 1 .. Len(begun) : begun'[i] = begun[i]
  <2>1. /\ begun' \in Seq(Requests) /\ IsInjective(begun') /\ Range(begun') = Range(begun) \cup {r} /\ Len(begun') = Len(begun) + 1
    BY <1>1, <1>2, <1>3, AppendNew
  <2>2. QED
    BY <1>1, <1>2, <2>1
<1>5. /\ waiters' \in Seq(Requests) /\ IsInjective(waiters') /\ Range(waiters') = Range(waiters) \cup {r}
      /\ Len(waiters') = Len(waiters) + 1
      /\ waiters'[Len(waiters) + 1] = r /\ \A i \in 1 .. Len(waiters) : waiters'[i] = waiters[i]
  <2>1. /\ waiters' \in Seq(Requests) /\ IsInjective(waiters') /\ Range(waiters') = Range(waiters) \cup {r} /\ Len(waiters') = Len(waiters) + 1
    BY <1>1, <1>2, <1>3, AppendNew
  <2>2. QED
    BY <1>1, <1>2, <2>1
<1>6. phase' \in [Requests -> Phases] /\ phase'[r] = "waiting" /\ \A x \in Requests : x # r => phase'[x] = phase[x]
  BY <1>1 DEF CallsInv, RequestTypeOK, Phases
<1>7. RequestTypeOK'
  <2>1. Seqs' = Seqs
    BY <1>1 DEF Seqs
  <2>2. tries' \in [Requests -> Nat] /\ \A x \in Requests : tries'[x] <= Retries[x] + 1
    <3>1. tries[r] = 0
      BY <1>1 DEF CallsInv, RequestTypeOK, ReturnsItsFuture
    <3>2. Retries[r] \in Nat
      BY RequestAssumption
    <3>3. tries' \in [Requests -> Nat] /\ tries'[r] = 1 /\ \A x \in Requests : x # r => tries'[x] = tries[x]
      BY <1>1, <3>1 DEF CallsInv, RequestTypeOK
    <3>4. \A x \in Requests : tries[x] <= Retries[x] + 1
      BY DEF CallsInv, RequestTypeOK
    <3>5. 1 <= Retries[r] + 1
      BY <3>2
    <3>6. QED
      BY <3>3, <3>4, <3>5
  <2>3. lock' \in Requests \cup {Nothing} /\ toNode' \in Seq(Requests)
    BY <1>1, <1>2 DEF CallsInv, RequestTypeOK
  <2>4. QED
    BY <1>1, <1>4, <1>5, <1>6, <2>1, <2>2, <2>3 DEF CallsInv, RequestTypeOK
<1>8. CallsFit'
  <2>1. Range(begun') = {x \in Requests : phase'[x] # "idle"}
    BY <1>1, <1>2, <1>4, <1>6
  <2>2. Range(waiters') = {x \in Requests : Unfinished(x)'}
    BY <1>2, <1>5, <1>6 DEF Unfinished
  <2>3. \A a, b \in 1 .. Len(waiters'), i, j \in 1 .. Len(begun') :
          begun'[i] = waiters'[a] /\ begun'[j] = waiters'[b] /\ a < b => i < j
    <3>1. SUFFICES ASSUME NEW a \in 1 .. Len(waiters'), NEW b \in 1 .. Len(waiters'), NEW i \in 1 .. Len(begun'), NEW j \in 1 .. Len(begun'),
                          begun'[i] = waiters'[a], begun'[j] = waiters'[b], a < b
                   PROVE  i < j
      OBVIOUS
    <3>2. a \in 1 .. Len(waiters) /\ waiters'[a] \in Range(waiters)
      <4>1. a \in 1 .. Len(waiters)
        BY <1>2, <1>5, <3>1
      <4>0. DOMAIN waiters = 1 .. Len(waiters)
        BY <1>2
      <4>2. waiters'[a] = waiters[a] /\ a \in DOMAIN waiters
        BY <1>5, <4>0, <4>1
      <4>3. QED
        BY <4>1, <4>2 DEF Range
    <3>3. i \in 1 .. Len(begun)
      <4>1. i # Len(begun) + 1
        BY <1>3, <1>4, <3>1, <3>2
      <4>2. QED
        BY <1>2, <1>4, <4>1
    <3>4. CASE j = Len(begun) + 1
      BY <1>2, <3>3, <3>4
    <3>5. CASE j \in 1 .. Len(begun)
      <4>1. b \in 1 .. Len(waiters)
        <5>1. begun'[j] \in Range(begun)
          <6>0. DOMAIN begun = 1 .. Len(begun)
            BY <1>2
          <6>1. begun'[j] = begun[j] /\ j \in DOMAIN begun
            BY <1>4, <3>5, <6>0
          <6>2. QED
            BY <6>1 DEF Range
        <5>2. b # Len(waiters) + 1
          BY <1>3, <1>5, <3>1, <5>1
        <5>3. QED
          BY <1>2, <1>5, <5>2
      <4>2. \A x, y \in 1 .. Len(waiters), u, v \in 1 .. Len(begun) : begun[u] = waiters[x] /\ begun[v] = waiters[y] /\ x < y => u < v
        <5>1. DOMAIN waiters = 1 .. Len(waiters) /\ DOMAIN begun = 1 .. Len(begun)
          BY <1>2
        <5>2. QED
          BY <5>1 DEF CallsInv, CallsFit
      <4>3. begun[i] = waiters[a] /\ begun[j] = waiters[b]
        BY <1>4, <1>5, <3>1, <3>2, <3>3, <3>5, <4>1
      <4>4. QED
        BY <3>1, <3>2, <3>3, <3>5, <4>1, <4>2, <4>3
    <3>6. j = Len(begun) + 1 \/ j \in 1 .. Len(begun)
      BY <1>2, <1>4
    <3>7. QED
      BY <3>4, <3>5, <3>6
  <2>4. DOMAIN waiters' = 1 .. Len(waiters') /\ DOMAIN begun' = 1 .. Len(begun')
    BY <1>4, <1>5
  <2>5. QED
    BY <1>4, <1>5, <2>1, <2>2, <2>3, <2>4 DEF CallsFit
<1>9. ReturnsItsFuture'
  BY <1>1, <1>6 DEF CallsInv, ReturnsItsFuture, RequestTypeOK
<1>10. ASSUME OrderInv PROVE OrderInv'
  <2>1. AirInOrder'
    BY <1>1, <1>10 DEF OrderInv, AirInOrder, InOrder
  <2>2. fut[r] = Nothing
    BY <1>1, <1>10 DEF OrderInv, OlderFirst
  <2>3. OlderFirst'
    <3>1. \A x \in Requests : fut[x] # Nothing => phase'[x] # "idle"
      BY <1>6, <1>10, <2>2 DEF OrderInv, OlderFirst
    <3>2. \A i, j \in 1 .. Len(begun') : i < j /\ fut[begun'[j]] # Nothing =>
             \/ fut[begun'[i]] # Nothing /\ fut[begun'[i]] < fut[begun'[j]]
             \/ fut[begun'[i]] = Nothing /\ phase'[begun'[i]] = "done"
      <4>1. SUFFICES ASSUME NEW i \in 1 .. Len(begun'), NEW j \in 1 .. Len(begun'), i < j, fut[begun'[j]] # Nothing
                     PROVE  \/ fut[begun'[i]] # Nothing /\ fut[begun'[i]] < fut[begun'[j]]
                            \/ fut[begun'[i]] = Nothing /\ phase'[begun'[i]] = "done"
        OBVIOUS
      <4>2. j \in 1 .. Len(begun) /\ i \in 1 .. Len(begun)
        <5>1. j # Len(begun) + 1
          BY <1>4, <2>2, <4>1
        <5>2. Len(begun') = Len(begun) + 1 /\ Len(begun) \in Nat
          BY <1>2, <1>4
        <5>3. QED
          BY <4>1, <5>1, <5>2
      <4>3. begun'[i] = begun[i] /\ begun'[j] = begun[j] /\ begun[i] \in Requests /\ begun[i] # r
        <5>1. begun[i] \in Range(begun)
          BY <1>2, <4>2 DEF Range
        <5>2. QED
          BY <1>2, <1>3, <1>4, <4>2, <5>1
      <4>4. phase'[begun[i]] = phase[begun[i]]
        BY <1>6, <4>3
      <4>5. \A u, v \in 1 .. Len(begun) : u < v /\ fut[begun[v]] # Nothing =>
             \/ fut[begun[u]] # Nothing /\ fut[begun[u]] < fut[begun[v]]
             \/ fut[begun[u]] = Nothing /\ phase[begun[u]] = "done"
        <5>1. DOMAIN begun = 1 .. Len(begun)
          BY <1>2
        <5>2. QED
          BY <1>10, <5>1 DEF OrderInv, OlderFirst
      <4>6. QED
        BY <4>1, <4>2, <4>3, <4>4, <4>5
    <3>3. DOMAIN begun' = 1 .. Len(begun')
      BY <1>4
    <3>4. QED
      BY <1>1, <3>1, <3>2, <3>3 DEF OlderFirst
  <2>4. ASSUME calm PROVE CalmPairs'
    <3>1. /\ \A x \in Requests : phase[x] # "late" /\ (phase[x] = "done" => fut[x] # Nothing)
          /\ Len(begun) = Len(said) + Len(toNode)
          /\ \A k \in 1 .. Len(said) : said[k] = begun[k]
          /\ \A k \in 1 .. Len(toNode) : toNode[k] = begun[Len(said) + k]
          /\ \A k \in 1 .. Len(begun) : fut[begun[k]] = IF k <= lastSeq THEN k ELSE Nothing
          /\ \A l \in Links, s \in lastSeq + 1 .. Len(said) : s \in Range(air[l])
      BY <1>10, <2>4 DEF OrderInv, CalmPairs
    <3>2. Len(said) \in Nat /\ Len(toNode) \in Nat /\ lastSeq \in 0 .. Len(said)
      BY DEF CallsInv, RequestTypeOK, Seqs
    <3>3. Len(toNode') = Len(toNode) + 1 /\ toNode'[Len(toNode) + 1] = r /\ \A k \in 1 .. Len(toNode) : toNode'[k] = toNode[k]
      BY <1>1, <1>2
    <3>4. \A x \in Requests : phase'[x] # "late" /\ (phase'[x] = "done" => fut[x] # Nothing)
      BY <1>6, <3>1
    <3>5. Len(begun') = Len(said) + Len(toNode')
      BY <1>4, <3>1, <3>2, <3>3
    <3>6. \A k \in 1 .. Len(said) : said[k] = begun'[k]
      <4>1. \A k \in 1 .. Len(said) : k \in 1 .. Len(begun)
        BY <3>1, <3>2
      <4>2. QED
        BY <1>4, <3>1, <4>1
    <3>7. \A k \in 1 .. Len(toNode') : toNode'[k] = begun'[Len(said) + k]
      <4>1. SUFFICES ASSUME NEW k \in 1 .. Len(toNode') PROVE toNode'[k] = begun'[Len(said) + k]
        OBVIOUS
      <4>2. CASE k = Len(toNode) + 1
        <5>1. Len(said) + k = Len(begun) + 1
          BY <3>1, <3>2, <4>2
        <5>2. QED
          BY <1>4, <3>3, <4>2, <5>1
      <4>3. CASE k \in 1 .. Len(toNode)
        <5>1. Len(said) + k \in 1 .. Len(begun)
          BY <3>1, <3>2, <4>3
        <5>2. QED
          BY <1>4, <3>1, <3>3, <4>3, <5>1
      <4>4. QED
        BY <3>2, <3>3, <4>2, <4>3
    <3>8. \A k \in 1 .. Len(begun') : fut[begun'[k]] = IF k <= lastSeq THEN k ELSE Nothing
      <4>1. SUFFICES ASSUME NEW k \in 1 .. Len(begun') PROVE fut[begun'[k]] = IF k <= lastSeq THEN k ELSE Nothing
        OBVIOUS
      <4>2. CASE k = Len(begun) + 1
        <5>1. ~ (k <= lastSeq)
          BY <3>1, <3>2, <4>2
        <5>2. QED
          BY <1>4, <2>2, <4>2, <5>1
      <4>3. CASE k \in 1 .. Len(begun)
        BY <1>4, <3>1, <4>3
      <4>4. QED
        BY <1>2, <1>4, <4>2, <4>3
    <3>9. QED
      BY <1>1, <3>1, <3>4, <3>5, <3>6, <3>7, <3>8 DEF CalmPairs
  <2>5. QED
    BY <1>1, <2>1, <2>3, <2>4 DEF OrderInv, CalmPairs
<1>11. QED
  BY <1>7, <1>8, <1>9, <1>10 DEF CallsInv

LEMMA TimeoutKeeps ==
  ASSUME CallsInv, NEW r \in Requests, TimeoutFires(r) \/ Retry(r)
  PROVE  CallsInv' /\ (OrderInv => OrderInv')
<1>1. /\ Unfinished(r) /\ phase' \in {[phase EXCEPT ![r] = "late"], [phase EXCEPT ![r] = "waiting"]}
      /\ UNCHANGED <<lock, begun, waiters, fut, said, air, lastSeq, odd, got>>
      /\ calm' \in BOOLEAN /\ (calm' => calm /\ phase[r] = "late")
  <2>1. CASE TimeoutFires(r)
    BY <2>1 DEF TimeoutFires, Unfinished
  <2>2. CASE Retry(r)
    <3>1. calm \in BOOLEAN
      BY DEF CallsInv, RequestTypeOK
    <3>2. QED
      BY <2>2, <3>1 DEF Retry, Unfinished
  <2>3. QED
    BY <2>1, <2>2
<1>2. /\ phase' \in [Requests -> Phases] /\ \A x \in Requests : x # r => phase'[x] = phase[x]
      /\ phase'[r] \in {"waiting", "late"} /\ phase[r] \in {"waiting", "late"}
  BY <1>1 DEF CallsInv, RequestTypeOK, Phases, Unfinished
<1>3. /\ tries' \in [Requests -> Nat] /\ \A x \in Requests : tries'[x] <= Retries[x] + 1
      /\ toNode' \in Seq(Requests)
  <2>1. CASE TimeoutFires(r)
    BY <2>1 DEF TimeoutFires, CallsInv, RequestTypeOK
  <2>2. CASE Retry(r)
    <3>1. tries[r] <= Retries[r] /\ tries' = [tries EXCEPT ![r] = @ + 1] /\ toNode' = Append(toNode, r)
      BY <2>2 DEF Retry, Send
    <3>2. Retries[r] \in Nat
      BY RequestAssumption
    <3>3. QED
      BY <3>1, <3>2 DEF CallsInv, RequestTypeOK
  <2>3. QED
    BY <2>1, <2>2
<1>4. RequestTypeOK'
  <2>1. Seqs' = Seqs
    BY <1>1 DEF Seqs
  <2>2. QED
    BY <1>1, <1>2, <1>3, <2>1 DEF CallsInv, RequestTypeOK
<1>5. CallsFit'
  <2>1. {x \in Requests : phase'[x] # "idle"} = {x \in Requests : phase[x] # "idle"}
    BY <1>2
  <2>2. {x \in Requests : Unfinished(x)'} = {x \in Requests : Unfinished(x)}
    BY <1>2 DEF Unfinished
  <2>3. QED
    BY <1>1, <2>1, <2>2 DEF CallsInv, CallsFit
<1>6. ReturnsItsFuture'
  <2>1. \A x \in Requests : phase'[x] = "idle" => tries'[x] = tries[x]
    BY <1>2 DEF TimeoutFires, Retry, Send, CallsInv, RequestTypeOK
  <2>2. QED
    BY <1>1, <1>2, <2>1 DEF CallsInv, ReturnsItsFuture
<1>7. ASSUME OrderInv PROVE OrderInv'
  <2>1. AirInOrder'
    BY <1>1, <1>7 DEF OrderInv, AirInOrder, InOrder
  <2>2. OlderFirst'
    <3>1. \A i \in DOMAIN begun : begun[i] \in Requests
      BY DEF CallsInv, RequestTypeOK
    <3>2. QED
      BY <1>1, <1>2, <1>7, <3>1 DEF OrderInv, OlderFirst
  <2>3. ~ calm'
    BY <1>1, <1>7 DEF OrderInv, CalmPairs
  <2>4. QED
    BY <2>1, <2>2, <2>3 DEF OrderInv, CalmPairs
<1>8. QED
  BY <1>4, <1>5, <1>6, <1>7 DEF CallsInv
----------------------------------------------------------------------------
(***************************************************************************)
(* What is on a link.                                                      *)
(***************************************************************************)
LEMMA TailInOrder ==
  ASSUME NEW low \in Nat, NEW high \in Nat, NEW q \in Seq(0 .. high), q # <<>>, InOrder(q, low, high)
  PROVE  /\ Head(q) \in 1 .. high /\ low <= Head(q)
         /\ Tail(q) \in Seq(0 .. high) /\ InOrder(Tail(q), Head(q), high) /\ InOrder(Tail(q), low, high)
         /\ \A i \in 1 .. Len(q) : Head(q) <= q[i]
         /\ \A e \in Range(q) : e # Head(q) => e \in Range(Tail(q))
<1> DEFINE t == Tail(q)
<1>1. /\ Len(q) \in Nat /\ Len(q) > 0 /\ Len(t) = Len(q) - 1 /\ Head(q) = q[1] /\ t \in Seq(0 .. high)
      /\ \A i \in 1 .. Len(q) - 1 : t[i] = q[i + 1]
      /\ DOMAIN q = 1 .. Len(q)
  OBVIOUS
<1>2. DOMAIN t = 1 .. Len(q) - 1
  BY <1>1
<1> HIDE DEF t
<1>3. /\ \A i \in 1 .. Len(q) : low <= q[i] /\ q[i] \in 1 .. high
      /\ \A i, j \in 1 .. Len(q) : i < j => q[i] <= q[j]
  BY DEF InOrder
<1>4. 1 \in 1 .. Len(q) /\ \A i \in 1 .. Len(q) - 1 : i \in 1 .. Len(q) /\ i + 1 \in 1 .. Len(q) /\ 1 < i + 1
  BY <1>1
<1>5. q[1] \in 1 .. high /\ low <= q[1]
  BY <1>3, <1>4
<1>6. \A i \in 1 .. Len(q) : q[1] <= q[i]
  BY <1>3, <1>4, <1>5
<1>7. \A i \in 1 .. Len(t) : low <= t[i] /\ q[1] <= t[i] /\ t[i] \in 1 .. high
  BY <1>1, <1>3, <1>4, <1>6
<1>8. \A i, j \in 1 .. Len(t) : i < j => t[i] <= t[j]
  <2>1. SUFFICES ASSUME NEW i \in 1 .. Len(q) - 1, NEW j \in 1 .. Len(q) - 1, i < j PROVE t[i] <= t[j]
    BY <1>1
  <2>2. i + 1 < j + 1
    BY <2>1
  <2>3. QED
    BY <1>1, <1>3, <1>4, <2>2
<1>9. \A e \in Range(q) : e # q[1] => e \in Range(t)
  <2>1. SUFFICES ASSUME NEW k \in 1 .. Len(q), q[k] # q[1] PROVE q[k] \in Range(t)
    BY <1>1 DEF Range
  <2>2. k - 1 \in 1 .. Len(q) - 1 /\ (k - 1) + 1 = k
    BY <1>1, <2>1
  <2>3. t[k - 1] = q[k]
    BY <1>1, <2>2
  <2>4. QED
    BY <1>2, <2>2, <2>3 DEF Range
<1>10. QED
  BY <1>1, <1>5, <1>6, <1>7, <1>8, <1>9 DEF InOrder, t

LEMMA AppendInOrder ==
  ASSUME NEW low \in Nat, NEW high \in Nat, low <= high, NEW q \in Seq(0 .. high), InOrder(q, low, high)
  PROVE  /\ Append(q, high + 1) \in Seq(0 .. high + 1) /\ InOrder(Append(q, high + 1), low, high + 1)
         /\ high + 1 \in Range(Append(q, high + 1)) /\ Range(q) \subseteq Range(Append(q, high + 1))
<1> DEFINE a == Append(q, high + 1)
<1>1. /\ Len(q) \in Nat /\ Len(a) = Len(q) + 1 /\ a[Len(q) + 1] = high + 1
      /\ \A i \in 1 .. Len(q) : a[i] = q[i] /\ q[i] \in 0 .. high
      /\ DOMAIN q = 1 .. Len(q) /\ DOMAIN a = 1 .. Len(q) + 1 /\ a \in Seq(0 .. high + 1)
  <2>1. 0 .. high \subseteq 0 .. high + 1 /\ high + 1 \in 0 .. high + 1
    OBVIOUS
  <2>2. q \in Seq(0 .. high + 1)
    BY <2>1
  <2>3. QED
    BY <2>1, <2>2
<1> HIDE DEF a
<1>2. /\ \A i \in 1 .. Len(q) : low <= q[i] /\ q[i] \in 1 .. high
      /\ \A i, j \in 1 .. Len(q) : i < j => q[i] <= q[j]
  BY DEF InOrder
<1>3. \A i \in 1 .. Len(q) + 1 : i \in 1 .. Len(q) \/ i = Len(q) + 1
  BY <1>1
<1>4. \A i \in 1 .. Len(q) + 1 : low <= a[i] /\ a[i] \in 1 .. high + 1
  <2>1. low <= high + 1 /\ high + 1 \in 1 .. high + 1
    OBVIOUS
  <2>2. QED
    BY <1>1, <1>2, <1>3, <2>1
<1>5. \A i, j \in 1 .. Len(q) + 1 : i < j => a[i] <= a[j]
  <2>1. SUFFICES ASSUME NEW i \in 1 .. Len(q) + 1, NEW j \in 1 .. Len(q) + 1, i < j PROVE a[i] <= a[j]
    OBVIOUS
  <2>2. i \in 1 .. Len(q)
    BY <1>1, <2>1
  <2>3. CASE j = Len(q) + 1
    BY <1>1, <2>2, <2>3
  <2>4. CASE j \in 1 .. Len(q)
    BY <1>1, <1>2, <2>1, <2>2, <2>4
  <2>5. QED
    BY <1>3, <2>3, <2>4
<1>6. Range(q) \subseteq Range(a) /\ high + 1 \in Range(a)
  <2>1. Len(q) + 1 \in 1 .. Len(q) + 1 /\ 1 .. Len(q) \subseteq 1 .. Len(q) + 1
    BY <1>1
  <2>2. QED
    BY <1>1, <2>1 DEF Range
<1>7. QED
  BY <1>1, <1>4, <1>5, <1>6 DEF InOrder, a

LEMMA RepeatInOrder ==
  ASSUME NEW low \in Nat, NEW high \in Nat, NEW q \in Seq(0 .. high), q # <<>>, InOrder(q, low, high)
  PROVE  /\ <<Head(q)>> \o q \in Seq(0 .. high) /\ InOrder(<<Head(q)>> \o q, low, high)
         /\ Range(q) \subseteq Range(<<Head(q)>> \o q)
<1> DEFINE c == <<Head(q)>> \o q
<1>1. /\ Len(q) \in Nat /\ Len(q) > 0 /\ Len(c) = Len(q) + 1 /\ c[1] = q[1]
      /\ \A i \in 1 .. Len(q) : c[i + 1] = q[i]
      /\ DOMAIN q = 1 .. Len(q) /\ DOMAIN c = 1 .. Len(q) + 1 /\ c \in Seq(0 .. high)
  OBVIOUS
<1> HIDE DEF c
<1>2. /\ \A i \in 1 .. Len(q) : low <= q[i] /\ q[i] \in 1 .. high
      /\ \A i, j \in 1 .. Len(q) : i < j => q[i] <= q[j]
  BY DEF InOrder
<1>3. \A i \in 1 .. Len(q) + 1 : i = 1 \/ (i - 1 \in 1 .. Len(q) /\ (i - 1) + 1 = i)
  BY <1>1
<1>4. 1 \in 1 .. Len(q) /\ \A i \in 1 .. Len(q) : q[1] <= q[i]
  BY <1>1, <1>2
<1>5. \A i \in 1 .. Len(q) + 1 : c[i] = q[1] \/ (i - 1 \in 1 .. Len(q) /\ c[i] = q[i - 1])
  BY <1>1, <1>3
<1>6. \A i \in 1 .. Len(q) + 1 : low <= c[i] /\ c[i] \in 1 .. high
  BY <1>2, <1>4, <1>5
<1>7. \A i, j \in 1 .. Len(q) + 1 : i < j => c[i] <= c[j]
  <2>1. SUFFICES ASSUME NEW i \in 1 .. Len(q) + 1, NEW j \in 1 .. Len(q) + 1, i < j PROVE c[i] <= c[j]
    OBVIOUS
  <2>2. j - 1 \in 1 .. Len(q) /\ c[j] = q[j - 1]
    <3>1. j # 1
      BY <1>1, <2>1
    <3>2. j - 1 \in 1 .. Len(q) /\ (j - 1) + 1 = j
      BY <1>3, <3>1
    <3>3. QED
      BY <1>1, <3>2
  <2>3. CASE i = 1
    BY <1>1, <1>4, <2>2, <2>3
  <2>4. CASE i # 1
    <3>1. i - 1 \in 1 .. Len(q) /\ (i - 1) + 1 = i
      BY <1>3, <2>4
    <3>2. c[i] = q[i - 1]
      BY <1>1, <3>1
    <3>3. i - 1 < j - 1
      BY <2>1
    <3>4. QED
      BY <1>2, <2>2, <3>1, <3>2, <3>3
  <2>5. QED
    BY <2>3, <2>4
<1>8. Range(q) \subseteq Range(c)
  <2>1. \A i \in 1 .. Len(q) : i + 1 \in 1 .. Len(q) + 1
    BY <1>1
  <2>2. SUFFICES ASSUME NEW i \in 1 .. Len(q) PROVE q[i] \in Range(c)
    BY <1>1 DEF Range
  <2>3. i + 1 \in DOMAIN c /\ c[i + 1] = q[i]
    BY <1>1, <2>1
  <2>4. QED
    BY <2>3 DEF Range
<1>9. QED
  BY <1>1, <1>6, <1>7, <1>8 DEF InOrder, c

----------------------------------------------------------------------------
(***************************************************************************)
(* The mesh and the links.                                                 *)
(***************************************************************************)
LEMMA MeshKeepsCalls ==
  ASSUME CallsInv, Len(said') >= Len(said), said' \in Seq(Requests \cup {Nothing}), toNode' \in Seq(Requests),
         air' \in [Links -> Seq(0 .. Len(said'))], odd' \in 0 .. MaxOdd, calm' \in BOOLEAN,
         UNCHANGED <<lock, phase, tries, begun, waiters, fut, lastSeq, got>>
  PROVE  CallsInv'
<1>1. RequestTypeOK'
  <2>1. Seqs = 0 .. Len(said) /\ Seqs' = 0 .. Len(said') /\ Len(said) \in Nat /\ Len(said') \in Nat
    BY DEF Seqs, CallsInv, RequestTypeOK
  <2>2. Seqs \subseteq Seqs'
    BY <2>1
  <2>3. /\ fut \in [Requests -> Seqs \cup {Nothing}] /\ lastSeq \in Seqs
        /\ got \in [Requests -> Seqs \cup {Nothing, TimedOut}]
    BY DEF CallsInv, RequestTypeOK
  <2>4. /\ fut \in [Requests -> Seqs' \cup {Nothing}] /\ lastSeq \in Seqs'
        /\ got \in [Requests -> Seqs' \cup {Nothing, TimedOut}]
    BY <2>2, <2>3
  <2>5. air' \in [Links -> Seq(Seqs')]
    BY <2>1
  <2>6. QED
    BY <2>4, <2>5 DEF CallsInv, RequestTypeOK
<1>2. CallsFit'
  BY DEF CallsInv, CallsFit, Unfinished
<1>3. ReturnsItsFuture'
  BY DEF CallsInv, ReturnsItsFuture
<1>4. QED
  BY <1>1, <1>2, <1>3 DEF CallsInv

\* The types the lemmas on the links need.
LEMMA AirTypes ==
  ASSUME CallsInv
  PROVE  /\ Len(said) \in Nat /\ lastSeq \in Nat /\ lastSeq <= Len(said) /\ said \in Seq(Requests \cup {Nothing})
         /\ toNode \in Seq(Requests) /\ air \in [Links -> Seq(0 .. Len(said))] /\ odd \in 0 .. MaxOdd /\ calm \in BOOLEAN
         /\ begun \in Seq(Requests) /\ waiters \in Seq(Requests) /\ DOMAIN begun = 1 .. Len(begun) /\ DOMAIN waiters = 1 .. Len(waiters)
         /\ Len(begun) \in Nat /\ Len(waiters) \in Nat /\ Len(toNode) \in Nat
<1>1. Seqs = 0 .. Len(said) /\ said \in Seq(Requests \cup {Nothing})
  BY DEF CallsInv, RequestTypeOK, Seqs
<1>2. Len(said) \in Nat
  BY <1>1
<1>3. lastSeq \in Nat /\ lastSeq <= Len(said)
  BY <1>1, <1>2 DEF CallsInv, RequestTypeOK
<1>4. /\ toNode \in Seq(Requests) /\ air \in [Links -> Seq(0 .. Len(said))] /\ odd \in 0 .. MaxOdd /\ calm \in BOOLEAN
      /\ begun \in Seq(Requests) /\ waiters \in Seq(Requests)
  BY <1>1 DEF CallsInv, RequestTypeOK
<1>5. QED
  BY <1>1, <1>2, <1>3, <1>4

\* A Status is said: it is the last on every link.
LEMMA SayKeeps ==
  ASSUME CallsInv, NEW whom \in Requests \cup {Nothing}, Say(whom)
  PROVE  /\ Len(said') = Len(said) + 1 /\ said' \in Seq(Requests \cup {Nothing})
         /\ said'[Len(said) + 1] = whom /\ \A k \in 1 .. Len(said) : said'[k] = said[k]
         /\ air' \in [Links -> Seq(0 .. Len(said'))]
         /\ (OrderInv => \A l \in Links : /\ InOrder(air'[l], lastSeq, Len(said'))
                                          /\ Len(said') \in Range(air'[l]) /\ Range(air[l]) \subseteq Range(air'[l]))
<1>1. said' = Append(said, whom) /\ air' = [l \in Links |-> Append(air[l], Len(said) + 1)]
  BY DEF Say
<1>2. /\ Len(said) \in Nat /\ lastSeq \in Nat /\ lastSeq <= Len(said) /\ said \in Seq(Requests \cup {Nothing})
      /\ air \in [Links -> Seq(0 .. Len(said))]
  BY AirTypes
<1>3. /\ Len(said') = Len(said) + 1 /\ said' \in Seq(Requests \cup {Nothing})
      /\ said'[Len(said) + 1] = whom /\ \A k \in 1 .. Len(said) : said'[k] = said[k]
  BY <1>1, <1>2
<1>4. air' \in [Links -> Seq(0 .. Len(said'))]
  <2>1. SUFFICES ASSUME NEW l \in Links PROVE Append(air[l], Len(said) + 1) \in Seq(0 .. Len(said) + 1)
    BY <1>1, <1>3
  <2>2. 0 .. Len(said) \subseteq 0 .. Len(said) + 1 /\ Len(said) + 1 \in 0 .. Len(said) + 1 /\ air[l] \in Seq(0 .. Len(said))
    BY <1>2
  <2>3. air[l] \in Seq(0 .. Len(said) + 1)
    BY <2>2
  <2>4. QED
    BY <2>2, <2>3
<1>5. ASSUME OrderInv, NEW l \in Links
      PROVE  /\ InOrder(air'[l], lastSeq, Len(said'))
             /\ Len(said') \in Range(air'[l]) /\ Range(air[l]) \subseteq Range(air'[l])
  <2>1. InOrder(air[l], lastSeq, Len(said)) /\ air[l] \in Seq(0 .. Len(said)) /\ air'[l] = Append(air[l], Len(said) + 1)
    BY <1>1, <1>2, <1>5 DEF OrderInv, AirInOrder
  <2>2. QED
    BY <1>2, <1>3, <2>1, AppendInOrder
<1>6. QED
  BY <1>3, <1>4, <1>5

LEMMA AnswerKeeps ==
  ASSUME CallsInv, Answer
  PROVE  CallsInv' /\ (OrderInv => OrderInv')
<1>1. /\ toNode # <<>> /\ toNode' = Tail(toNode) /\ Say(Head(toNode))
      /\ UNCHANGED <<lock, phase, tries, begun, waiters, fut, lastSeq, odd, got, calm>>
  BY DEF Answer
<1>2. /\ Len(said) \in Nat /\ lastSeq \in Nat /\ lastSeq <= Len(said)
      /\ toNode \in Seq(Requests) /\ odd \in 0 .. MaxOdd /\ calm \in BOOLEAN /\ Len(toNode) \in Nat
  BY AirTypes
<1>3. /\ Head(toNode) \in Requests /\ Head(toNode) = toNode[1] /\ toNode' \in Seq(Requests) /\ Len(toNode) > 0
      /\ Len(toNode') = Len(toNode) - 1 /\ \A k \in 1 .. Len(toNode) - 1 : toNode'[k] = toNode[k + 1]
  BY <1>1, <1>2
<1>4. /\ Len(said') = Len(said) + 1 /\ said' \in Seq(Requests \cup {Nothing})
      /\ said'[Len(said) + 1] = toNode[1] /\ \A k \in 1 .. Len(said) : said'[k] = said[k]
      /\ air' \in [Links -> Seq(0 .. Len(said'))]
      /\ (OrderInv => \A l \in Links : /\ InOrder(air'[l], lastSeq, Len(said'))
                                       /\ Len(said') \in Range(air'[l]) /\ Range(air[l]) \subseteq Range(air'[l]))
  <2>1. Head(toNode) \in Requests \cup {Nothing}
    BY <1>3
  <2>2. QED
    BY <1>1, <1>3, <2>1, SayKeeps
<1>5. CallsInv'
  <2>1. Len(said') >= Len(said)
    BY <1>2, <1>4
  <2>2. odd' \in 0 .. MaxOdd /\ calm' \in BOOLEAN
    BY <1>1, <1>2
  <2>3. QED
    BY <1>1, <1>3, <1>4, <2>1, <2>2, MeshKeepsCalls
<1>6. ASSUME OrderInv PROVE OrderInv'
  <2>1. AirInOrder'
    BY <1>1, <1>4, <1>6 DEF OrderInv, AirInOrder
  <2>2. OlderFirst'
    BY <1>1, <1>6 DEF OrderInv, OlderFirst
  <2>3. ASSUME calm PROVE CalmPairs'
    <3>1. /\ \A x \in Requests : phase[x] # "late" /\ (phase[x] = "done" => fut[x] # Nothing)
          /\ Len(begun) = Len(said) + Len(toNode)
          /\ \A k \in 1 .. Len(said) : said[k] = begun[k]
          /\ \A k \in 1 .. Len(toNode) : toNode[k] = begun[Len(said) + k]
          /\ \A k \in 1 .. Len(begun) : fut[begun[k]] = IF k <= lastSeq THEN k ELSE Nothing
          /\ \A l \in Links, s \in lastSeq + 1 .. Len(said) : s \in Range(air[l])
      BY <1>6, <2>3 DEF OrderInv, CalmPairs
    <3>2. Len(begun) = Len(said') + Len(toNode')
      BY <1>2, <1>3, <1>4, <3>1
    <3>3. \A k \in 1 .. Len(said') : said'[k] = begun[k]
      <4>1. 1 \in 1 .. Len(toNode)
        BY <1>2, <1>3
      <4>2. said'[Len(said) + 1] = begun[Len(said) + 1]
        BY <1>4, <3>1, <4>1
      <4>3. \A k \in 1 .. Len(said') : k \in 1 .. Len(said) \/ k = Len(said) + 1
        BY <1>2, <1>4
      <4>4. QED
        BY <1>4, <3>1, <4>2, <4>3
    <3>4. \A k \in 1 .. Len(toNode') : toNode'[k] = begun[Len(said') + k]
      <4>1. SUFFICES ASSUME NEW k \in 1 .. Len(toNode) - 1 PROVE toNode'[k] = begun[Len(said') + k]
        BY <1>3
      <4>2. k + 1 \in 1 .. Len(toNode) /\ Len(said) + (k + 1) = (Len(said) + 1) + k
        BY <1>2
      <4>3. QED
        BY <1>3, <1>4, <3>1, <4>2
    <3>5. \A l \in Links, s \in lastSeq + 1 .. Len(said') : s \in Range(air'[l])
      <4>1. SUFFICES ASSUME NEW l \in Links, NEW s \in lastSeq + 1 .. Len(said') PROVE s \in Range(air'[l])
        OBVIOUS
      <4>2. s \in lastSeq + 1 .. Len(said) \/ s = Len(said')
        BY <1>2, <1>4
      <4>3. QED
        BY <1>4, <1>6, <3>1, <4>2
    <3>6. QED
      BY <1>1, <3>1, <3>2, <3>3, <3>4, <3>5 DEF CalmPairs
  <2>4. QED
    BY <1>1, <2>1, <2>2, <2>3 DEF OrderInv, CalmPairs
<1>7. QED
  BY <1>5, <1>6

\* What is lost, repeated or said unasked.
LEMMA OddKeeps ==
  ASSUME CallsInv,
         RequestLost \/ Publish \/ (\E l \in Links : StatusLost(l) \/ Echo(l))
  PROVE  CallsInv' /\ (OrderInv => OrderInv')
<1>1. odd < MaxOdd /\ odd' = odd + 1 /\ UNCHANGED <<lock, phase, tries, begun, waiters, fut, lastSeq, got>>
  BY DEF RequestLost, Publish, StatusLost, Echo, Odd
<1>2. /\ Len(said) \in Nat /\ lastSeq \in Nat /\ lastSeq <= Len(said) /\ said \in Seq(Requests \cup {Nothing})
      /\ toNode \in Seq(Requests) /\ air \in [Links -> Seq(0 .. Len(said))] /\ odd \in 0 .. MaxOdd /\ calm \in BOOLEAN
  BY AirTypes
<1>3. odd' \in 0 .. MaxOdd
  <2>1. MaxOdd \in Nat
    BY RequestAssumption
  <2>2. QED
    BY <1>1, <1>2, <2>1
<1>4. ASSUME OrderInv PROVE OlderFirst'
  BY <1>1, <1>4 DEF OrderInv, OlderFirst
<1>5. CASE RequestLost
  <2>1. calm' = FALSE /\ toNode' = Tail(toNode) /\ toNode # <<>> /\ UNCHANGED <<said, air>>
    BY <1>5 DEF RequestLost
  <2>2. toNode' \in Seq(Requests)
    <3>1. \A q \in Seq(Requests) : q # <<>> => Tail(q) \in Seq(Requests)
      OBVIOUS
    <3>2. QED
      BY <1>2, <2>1, <3>1
  <2>3. CallsInv'
    <3>1. said' = said /\ said' \in Seq(Requests \cup {Nothing}) /\ air' \in [Links -> Seq(0 .. Len(said'))] /\ calm' \in BOOLEAN
      BY <1>2, <2>1
    <3>2. Len(said') >= Len(said)
      BY <1>2, <3>1
    <3>3. QED
      BY <1>1, <1>3, <2>2, <3>1, <3>2, MeshKeepsCalls
  <2>4. ASSUME OrderInv PROVE AirInOrder' /\ CalmPairs'
    BY <1>1, <2>1, <2>4 DEF OrderInv, AirInOrder, CalmPairs
  <2>5. QED
    BY <1>4, <2>3, <2>4 DEF OrderInv
<1>6. CASE Publish
  <2>1. calm' = FALSE /\ Say(Nothing) /\ UNCHANGED toNode
    BY <1>6 DEF Publish
  <2>2. /\ Len(said') = Len(said) + 1 /\ said' \in Seq(Requests \cup {Nothing})
        /\ air' \in [Links -> Seq(0 .. Len(said'))]
        /\ (OrderInv => \A l \in Links : InOrder(air'[l], lastSeq, Len(said')))
    <3>1. Nothing \in Requests \cup {Nothing}
      OBVIOUS
    <3>2. QED
      BY <2>1, <3>1, SayKeeps
  <2>3. CallsInv'
    <3>1. toNode' \in Seq(Requests) /\ calm' \in BOOLEAN
      BY <1>2, <2>1
    <3>2. Len(said') >= Len(said)
      BY <1>2, <2>2
    <3>3. QED
      BY <1>1, <1>3, <2>2, <3>1, <3>2, MeshKeepsCalls
  <2>4. ASSUME OrderInv PROVE AirInOrder' /\ CalmPairs'
    BY <1>1, <2>1, <2>2, <2>4 DEF OrderInv, AirInOrder, CalmPairs
  <2>5. QED
    BY <1>4, <2>3, <2>4 DEF OrderInv
<1>7. ASSUME NEW l \in Links, StatusLost(l) PROVE CallsInv' /\ (OrderInv => OrderInv')
  <2>1. calm' = FALSE /\ air' = [air EXCEPT ![l] = Tail(@)] /\ air[l] # <<>> /\ UNCHANGED <<toNode, said>>
    BY <1>7 DEF StatusLost
  <2>2. air' \in [Links -> Seq(0 .. Len(said'))]
    <3>1. Tail(air[l]) \in Seq(0 .. Len(said))
      <4>1. \A q \in Seq(0 .. Len(said)) : q # <<>> => Tail(q) \in Seq(0 .. Len(said))
        OBVIOUS
      <4>2. QED
        BY <1>2, <2>1, <4>1
    <3>2. QED
      BY <1>2, <2>1, <3>1
  <2>3. CallsInv'
    <3>1. said' = said /\ said' \in Seq(Requests \cup {Nothing}) /\ toNode' \in Seq(Requests) /\ calm' \in BOOLEAN
      BY <1>2, <2>1
    <3>2. Len(said') >= Len(said)
      BY <1>2, <3>1
    <3>3. QED
      BY <1>1, <1>3, <2>2, <3>1, <3>2, MeshKeepsCalls
  <2>4. ASSUME OrderInv PROVE AirInOrder'
    <3>1. InOrder(Tail(air[l]), lastSeq, Len(said))
      <4>1. air[l] \in Seq(0 .. Len(said)) /\ InOrder(air[l], lastSeq, Len(said))
        BY <1>2, <2>4 DEF OrderInv, AirInOrder
      <4>2. QED
        BY <1>2, <2>1, <4>1, TailInOrder
    <3>2. \A k \in Links : InOrder(air'[k], lastSeq, Len(said))
      BY <1>2, <2>1, <2>4, <3>1 DEF OrderInv, AirInOrder
    <3>3. QED
      BY <1>1, <2>1, <2>4, <3>2 DEF OrderInv, AirInOrder
  <2>5. QED
    BY <1>4, <2>1, <2>3, <2>4 DEF OrderInv, CalmPairs
<1>8. ASSUME NEW l \in Links, Echo(l) PROVE CallsInv' /\ (OrderInv => OrderInv')
  <2>1. air' = [air EXCEPT ![l] = <<Head(@)>> \o @] /\ air[l] # <<>> /\ UNCHANGED <<toNode, said, calm>>
    BY <1>8 DEF Echo
  <2>2. air' \in [Links -> Seq(0 .. Len(said'))]
    <3>1. <<Head(air[l])>> \o air[l] \in Seq(0 .. Len(said))
      <4>1. air[l] \in Seq(0 .. Len(said))
        BY <1>2
      <4>2. QED
        BY <2>1, <4>1
    <3>2. QED
      BY <1>2, <2>1, <3>1
  <2>3. CallsInv'
    <3>1. Len(said') >= Len(said) /\ said' \in Seq(Requests \cup {Nothing}) /\ toNode' \in Seq(Requests) /\ calm' \in BOOLEAN
      BY <1>2, <2>1
    <3>2. QED
      BY <1>1, <1>3, <2>2, <3>1, MeshKeepsCalls
  <2>4. ASSUME OrderInv PROVE AirInOrder' /\ CalmPairs'
    <3>1. InOrder(<<Head(air[l])>> \o air[l], lastSeq, Len(said)) /\ Range(air[l]) \subseteq Range(<<Head(air[l])>> \o air[l])
      <4>1. air[l] \in Seq(0 .. Len(said)) /\ InOrder(air[l], lastSeq, Len(said))
        BY <1>2, <2>4 DEF OrderInv, AirInOrder
      <4>2. QED
        BY <1>2, <2>1, <4>1, RepeatInOrder
    <3>2. \A k \in Links : InOrder(air'[k], lastSeq, Len(said)) /\ Range(air[k]) \subseteq Range(air'[k])
      BY <1>2, <2>1, <2>4, <3>1 DEF OrderInv, AirInOrder
    <3>3. AirInOrder'
      BY <1>1, <2>1, <2>4, <3>2 DEF OrderInv, AirInOrder
    <3>4. CalmPairs'
      BY <1>1, <2>1, <2>4, <3>2 DEF OrderInv, CalmPairs
    <3>5. QED
      BY <3>3, <3>4
  <2>5. QED
    BY <1>4, <2>3, <2>4 DEF OrderInv
<1>9. QED
  BY <1>5, <1>6, <1>7, <1>8

----------------------------------------------------------------------------
(***************************************************************************)
(* A Status arrives.                                                       *)
(***************************************************************************)

\* The oldest open waiter takes the answer; what it says about the lists.
LEMMA DeliverMeans ==
  ASSUME CallsInv, NEW s, Deliver(s)
  PROVE  \/ /\ fut' = fut /\ \A r \in Requests : Unfinished(r) => fut[r] # Nothing
         \/ \E m \in 1 .. Len(begun) :
              /\ Unfinished(begun[m]) /\ begun[m] \in Requests /\ fut[begun[m]] = Nothing
              /\ fut' = [fut EXCEPT ![begun[m]] = s]
              /\ \A k \in 1 .. Len(begun) : k < m => ~ Unfinished(begun[k]) \/ fut[begun[k]] # Nothing
<1>1. /\ begun \in Seq(Requests) /\ waiters \in Seq(Requests) /\ DOMAIN begun = 1 .. Len(begun) /\ DOMAIN waiters = 1 .. Len(waiters)
      /\ Len(begun) \in Nat /\ Len(waiters) \in Nat
  BY AirTypes
<1>2. /\ IsInjective(begun) /\ Range(begun) = {r \in Requests : phase[r] # "idle"}
      /\ IsInjective(waiters) /\ Range(waiters) = {r \in Requests : Unfinished(r)}
      /\ \A a, b \in 1 .. Len(waiters), i, j \in 1 .. Len(begun) : begun[i] = waiters[a] /\ begun[j] = waiters[b] /\ a < b => i < j
  BY <1>1 DEF CallsInv, CallsFit
<1>3. \A r \in Requests : Unfinished(r) => \E a \in 1 .. Len(waiters) : waiters[a] = r
  <2>1. SUFFICES ASSUME NEW r \in Requests, Unfinished(r) PROVE \E a \in 1 .. Len(waiters) : waiters[a] = r
    OBVIOUS
  <2>2. r \in Range(waiters)
    BY <1>2, <2>1
  <2>3. QED
    BY <1>1, <2>2 DEF Range
<1>4. CASE (\A i \in 1 .. Len(waiters) : fut[waiters[i]] # Nothing) /\ fut' = fut
  BY <1>3, <1>4
<1>5. ASSUME NEW a \in 1 .. Len(waiters), fut[waiters[a]] = Nothing, \A j \in 1 .. a - 1 : fut[waiters[j]] # Nothing,
             fut' = [fut EXCEPT ![waiters[a]] = s]
      PROVE  \E m \in 1 .. Len(begun) :
              /\ Unfinished(begun[m]) /\ begun[m] \in Requests /\ fut[begun[m]] = Nothing
              /\ fut' = [fut EXCEPT ![begun[m]] = s]
              /\ \A k \in 1 .. Len(begun) : k < m => ~ Unfinished(begun[k]) \/ fut[begun[k]] # Nothing
  <2>1. waiters[a] \in Requests /\ Unfinished(waiters[a])
    <3>1. waiters[a] \in Range(waiters)
      BY <1>1 DEF Range
    <3>2. QED
      BY <1>2, <3>1
  <2>2. waiters[a] \in Range(begun)
    BY <1>2, <2>1 DEF Unfinished
  <2>3. PICK m \in 1 .. Len(begun) : begun[m] = waiters[a]
    BY <1>1, <2>2 DEF Range
  <2>4. ASSUME NEW k \in 1 .. Len(begun), k < m, Unfinished(begun[k]) PROVE fut[begun[k]] # Nothing
    <3>1. begun[k] \in Requests
      BY <1>1
    <3>2. PICK c \in 1 .. Len(waiters) : waiters[c] = begun[k]
      BY <1>3, <2>4, <3>1
    <3>3. ~ (a < c)
      <4>1. ~ (m < k)
        BY <2>4
      <4>2. QED
        BY <1>2, <2>3, <3>2, <4>1
    <3>4. a # c
      <4>1. k # m
        BY <2>4
      <4>2. begun[k] # begun[m]
        BY <1>1, <1>2, <4>1 DEF IsInjective
      <4>3. QED
        BY <2>3, <3>2, <4>2
    <3>5. c \in 1 .. a - 1
      BY <3>3, <3>4
    <3>6. QED
      BY <1>5, <3>2, <3>5
  <2>5. QED
    BY <1>5, <2>1, <2>3, <2>4
<1>6. QED
  <2>1. \/ (\A i \in 1 .. Len(waiters) : fut[waiters[i]] # Nothing) /\ fut' = fut
        \/ \E i \in 1 .. Len(waiters) :
             /\ fut[waiters[i]] = Nothing /\ \A j \in 1 .. i - 1 : fut[waiters[j]] # Nothing
             /\ fut' = [fut EXCEPT ![waiters[i]] = s]
    BY <1>1 DEF Deliver
  <2>2. QED
    BY <1>4, <1>5, <2>1

LEMMA ReceiveKeepsCalls ==
  ASSUME CallsInv, NEW l \in Links, Receive(l)
  PROVE  CallsInv'
<1>1. /\ air[l] # <<>> /\ air' = [air EXCEPT ![l] = Tail(@)]
      /\ UNCHANGED <<lock, phase, tries, begun, waiters, toNode, said, odd, got, calm>>
      /\ \/ lastSeq' = Head(air[l]) /\ Deliver(Head(air[l]))
         \/ UNCHANGED <<lastSeq, fut>>
  BY DEF Receive
<1>2. /\ Len(said) \in Nat /\ lastSeq \in Nat /\ lastSeq <= Len(said) /\ air \in [Links -> Seq(0 .. Len(said))]
  BY AirTypes
<1>3. Head(air[l]) \in 0 .. Len(said) /\ Tail(air[l]) \in Seq(0 .. Len(said))
  <2>1. \A q \in Seq(0 .. Len(said)) : q # <<>> => Head(q) \in 0 .. Len(said) /\ Tail(q) \in Seq(0 .. Len(said))
    OBVIOUS
  <2>2. QED
    BY <1>1, <1>2, <2>1
<1>4. Seqs = 0 .. Len(said) /\ Seqs' = 0 .. Len(said)
  BY <1>1 DEF Seqs
<1>5. lastSeq' \in 0 .. Len(said) /\ air' \in [Links -> Seq(0 .. Len(said))]
  BY <1>1, <1>2, <1>3
<1>6. /\ fut' \in [Requests -> 0 .. Len(said) \cup {Nothing}]
      /\ \A r \in Requests : phase[r] \notin {"waiting", "late"} => fut'[r] = fut[r]
  <2>1. fut \in [Requests -> 0 .. Len(said) \cup {Nothing}]
    BY <1>4 DEF CallsInv, RequestTypeOK
  <2>2. CASE fut' = fut
    BY <2>1, <2>2
  <2>3. CASE \E m \in 1 .. Len(begun) :
              /\ Unfinished(begun[m]) /\ begun[m] \in Requests /\ fut' = [fut EXCEPT ![begun[m]] = Head(air[l])]
    <3>1. PICK r \in Requests : Unfinished(r) /\ fut' = [fut EXCEPT ![r] = Head(air[l])]
      BY <2>3
    <3>2. QED
      BY <1>3, <2>1, <3>1 DEF Unfinished
  <2>4. QED
    BY <1>1, <2>2, <2>3, DeliverMeans
<1>7. RequestTypeOK'
  BY <1>1, <1>4, <1>5, <1>6 DEF CallsInv, RequestTypeOK
<1>8. CallsFit'
  BY <1>1 DEF CallsInv, CallsFit, Unfinished
<1>9. ReturnsItsFuture'
  <2>1. SUFFICES ASSUME NEW r \in Requests
                 PROVE  /\ phase[r] = "idle" => tries[r] = 0
                        /\ got[r] # Nothing => phase[r] = "done"
                        /\ got[r] = TimedOut => fut'[r] = Nothing
                        /\ got[r] \in Nat => fut'[r] = got[r]
    BY <1>1 DEF ReturnsItsFuture
  <2>2. /\ phase[r] = "idle" => tries[r] = 0
        /\ got[r] # Nothing => phase[r] = "done"
        /\ got[r] = TimedOut => fut[r] = Nothing
        /\ got[r] \in Nat => fut[r] = got[r]
    BY DEF CallsInv, ReturnsItsFuture
  <2>3. Nothing \notin Nat /\ Nothing # TimedOut
    BY RequestAssumption
  <2>4. got[r] = TimedOut \/ got[r] \in Nat => fut'[r] = fut[r]
    BY <1>6, <2>2, <2>3
  <2>5. QED
    BY <2>2, <2>4
<1>10. QED
  BY <1>7, <1>8, <1>9 DEF CallsInv

LEMMA ReceiveKeepsOrder ==
  ASSUME OneLink, CallsInv, OrderInv, NEW l \in Links, Receive(l)
  PROVE  OrderInv'
<1> DEFINE s == Head(air[l])
<1>1. /\ air[l] # <<>> /\ air' = [air EXCEPT ![l] = Tail(@)]
      /\ UNCHANGED <<phase, begun, toNode, said, calm>>
      /\ \/ s # lastSeq /\ lastSeq' = s /\ Deliver(s)
         \/ s = lastSeq /\ UNCHANGED <<lastSeq, fut>>
  BY DEF Receive, News
<1>2. /\ Len(said) \in Nat /\ lastSeq \in Nat /\ lastSeq <= Len(said) /\ air \in [Links -> Seq(0 .. Len(said))]
      /\ begun \in Seq(Requests) /\ DOMAIN begun = 1 .. Len(begun) /\ Len(begun) \in Nat /\ Len(toNode) \in Nat
  BY AirTypes
<1>3. /\ s \in 1 .. Len(said) /\ lastSeq <= s /\ InOrder(Tail(air[l]), s, Len(said))
      /\ \A i \in 1 .. Len(air[l]) : s <= air[l][i]
      /\ \A e \in Range(air[l]) : e # s => e \in Range(Tail(air[l]))
  <2>1. InOrder(air[l], lastSeq, Len(said)) /\ air[l] \in Seq(0 .. Len(said))
    BY <1>2 DEF OrderInv, AirInOrder
  <2>2. QED
    BY <1>1, <1>2, <2>1, TailInOrder
<1>4. \A e \in Range(air[l]) : s <= e
  <2>1. DOMAIN air[l] = 1 .. Len(air[l])
    BY <1>2
  <2>2. QED
    BY <1>3, <2>1 DEF Range
<1> HIDE DEF s
\* The Status is the next one: the number of the last one is now s.
<1>5. lastSeq' = s
  BY <1>1
<1>6. \A k \in Links : InOrder(air'[k], s, Len(said)) /\ \A e \in Range(air[k]) : e # s => e \in Range(air'[k])
  <2>1. SUFFICES ASSUME NEW k \in Links PROVE InOrder(air'[k], s, Len(said)) /\ \A e \in Range(air[k]) : e # s => e \in Range(air'[k])
    OBVIOUS
  <2>2. k = l
    BY DEF OneLink
  <2>3. air'[l] = Tail(air[l])
    BY <1>1, <1>2
  <2>4. QED
    BY <1>3, <2>2, <2>3
<1>7. /\ \A r \in Requests : fut[r] # Nothing => fut[r] \in 1 .. lastSeq /\ phase[r] # "idle"
      /\ \A i, j \in 1 .. Len(begun) : i < j /\ fut[begun[j]] # Nothing =>
           \/ fut[begun[i]] # Nothing /\ fut[begun[i]] < fut[begun[j]]
           \/ fut[begun[i]] = Nothing /\ phase[begun[i]] = "done"
      /\ fut \in [Requests -> 0 .. Len(said) \cup {Nothing}] /\ Nothing \notin Nat
      /\ \A i \in 1 .. Len(begun) : begun[i] \in Requests /\ phase[begun[i]] # "idle"
      /\ \A i, j \in 1 .. Len(begun) : begun[i] = begun[j] => i = j
  <2>1. \A r \in Requests : fut[r] # Nothing => fut[r] \in 1 .. lastSeq /\ phase[r] # "idle"
    BY DEF OrderInv, AirInOrder, OlderFirst
  <2>2. \A i, j \in 1 .. Len(begun) : i < j /\ fut[begun[j]] # Nothing =>
           \/ fut[begun[i]] # Nothing /\ fut[begun[i]] < fut[begun[j]]
           \/ fut[begun[i]] = Nothing /\ phase[begun[i]] = "done"
    BY <1>2 DEF OrderInv, OlderFirst
  <2>3. fut \in [Requests -> 0 .. Len(said) \cup {Nothing}] /\ Nothing \notin Nat
    BY RequestAssumption DEF CallsInv, RequestTypeOK, Seqs
  <2>4. Range(begun) = {r \in Requests : phase[r] # "idle"} /\ IsInjective(begun)
    BY DEF CallsInv, CallsFit
  <2>5. \A i \in 1 .. Len(begun) : begun[i] \in Range(begun)
    BY <1>2 DEF Range
  <2>6. \A i, j \in 1 .. Len(begun) : begun[i] = begun[j] => i = j
    BY <1>2, <2>4 DEF IsInjective
  <2>7. QED
    BY <2>1, <2>2, <2>3, <2>4, <2>5, <2>6
<1>8. ASSUME calm
      PROVE  /\ \A x \in Requests : phase[x] # "late" /\ (phase[x] = "done" => fut[x] # Nothing)
             /\ Len(begun) = Len(said) + Len(toNode)
             /\ \A k \in 1 .. Len(said) : said[k] = begun[k]
             /\ \A k \in 1 .. Len(toNode) : toNode[k] = begun[Len(said) + k]
             /\ \A k \in 1 .. Len(begun) : fut[begun[k]] = IF k <= lastSeq THEN k ELSE Nothing
             /\ \A k \in Links, e \in lastSeq + 1 .. Len(said) : e \in Range(air[k])
  BY <1>8 DEF OrderInv, CalmPairs
<1>9. ASSUME calm PROVE \A k \in Links, e \in s + 1 .. Len(said) : e \in Range(air'[k])
  <2>1. SUFFICES ASSUME NEW k \in Links, NEW e \in s + 1 .. Len(said) PROVE e \in Range(air'[k])
    OBVIOUS
  <2>2. e \in lastSeq + 1 .. Len(said) /\ e # s
    BY <1>2, <1>3
  <2>3. QED
    BY <1>6, <1>8, <1>9, <2>2
<1>10. CASE fut' = fut /\ (lastSeq = s \/ \A r \in Requests : Unfinished(r) => fut[r] # Nothing)
  <2>1. AirInOrder'
    <3>1. \A r \in Requests : fut[r] # Nothing => fut[r] \in 1 .. s
      BY <1>2, <1>3, <1>7
    <3>2. QED
      BY <1>1, <1>5, <1>6, <1>10, <3>1 DEF AirInOrder
  <2>2. OlderFirst'
    BY <1>1, <1>10 DEF OrderInv, OlderFirst
  <2>3. ASSUME calm PROVE CalmPairs'
    <3>1. lastSeq = s
      <4>1. SUFFICES ASSUME lastSeq < s, \A r \in Requests : Unfinished(r) => fut[r] # Nothing PROVE FALSE
        BY <1>2, <1>3, <1>10
      <4>2. s \in 1 .. Len(begun)
        BY <1>2, <1>3, <1>8, <2>3
      <4>3. fut[begun[s]] = Nothing
        BY <1>2, <1>3, <1>8, <2>3, <4>1, <4>2
      <4>4. Unfinished(begun[s])
        <5>1. phase[begun[s]] \in {"idle", "waiting", "late", "done"}
          BY <1>7, <4>2 DEF CallsInv, RequestTypeOK, Phases
        <5>2. QED
          BY <1>7, <1>8, <2>3, <4>2, <4>3, <5>1 DEF Unfinished
      <4>5. QED
        BY <1>7, <4>1, <4>2, <4>3, <4>4
    <3>2. QED
      BY <1>1, <1>5, <1>8, <1>9, <1>10, <2>3, <3>1 DEF CalmPairs
  <2>4. QED
    BY <1>1, <2>1, <2>2, <2>3 DEF OrderInv, CalmPairs
<1>11. ASSUME s # lastSeq, NEW m \in 1 .. Len(begun), Unfinished(begun[m]), fut[begun[m]] = Nothing,
              fut' = [fut EXCEPT ![begun[m]] = s],
              \A k \in 1 .. Len(begun) : k < m => ~ Unfinished(begun[k]) \/ fut[begun[k]] # Nothing
       PROVE  OrderInv'
  <2>1. /\ fut'[begun[m]] = s /\ s # Nothing /\ lastSeq < s
        /\ \A r \in Requests : r # begun[m] => fut'[r] = fut[r]
    <3>1. fut'[begun[m]] = s /\ \A r \in Requests : r # begun[m] => fut'[r] = fut[r]
      BY <1>7, <1>11
    <3>2. s \in Nat /\ lastSeq < s
      BY <1>2, <1>3, <1>11
    <3>3. QED
      BY <1>7, <3>1, <3>2
  <2>2. \A i \in 1 .. Len(begun) : i # m => fut'[begun[i]] = fut[begun[i]]
    BY <1>7, <2>1
  <2>3. AirInOrder'
    <3>1. \A r \in Requests : fut'[r] # Nothing => fut'[r] \in 1 .. s
      <4>1. s \in 1 .. s /\ 1 .. lastSeq \subseteq 1 .. s
        BY <1>2, <1>3
      <4>2. QED
        BY <1>7, <2>1, <4>1
    <3>2. QED
      BY <1>1, <1>5, <1>6, <3>1 DEF AirInOrder
  <2>4. OlderFirst'
    <3>1. \A r \in Requests : fut'[r] # Nothing => phase[r] # "idle"
      BY <1>7, <2>1
    <3>2. \A i, j \in 1 .. Len(begun) : i < j /\ fut'[begun[j]] # Nothing =>
           \/ fut'[begun[i]] # Nothing /\ fut'[begun[i]] < fut'[begun[j]]
           \/ fut'[begun[i]] = Nothing /\ phase[begun[i]] = "done"
      <4>1. SUFFICES ASSUME NEW i \in 1 .. Len(begun), NEW j \in 1 .. Len(begun), i < j, fut'[begun[j]] # Nothing
                     PROVE  \/ fut'[begun[i]] # Nothing /\ fut'[begun[i]] < fut'[begun[j]]
                            \/ fut'[begun[i]] = Nothing /\ phase[begun[i]] = "done"
        OBVIOUS
      <4>2. CASE j = m
        <5>1. i # m /\ i < m
          BY <4>1, <4>2
        <5>2. CASE fut[begun[i]] # Nothing
          <6>1. fut[begun[i]] \in 1 .. lastSeq
            BY <1>7, <5>2
          <6>2. fut[begun[i]] < s
            BY <1>2, <1>3, <2>1, <6>1
          <6>3. QED
            BY <2>1, <2>2, <4>2, <5>1, <5>2, <6>2
        <5>3. CASE fut[begun[i]] = Nothing
          <6>1. ~ Unfinished(begun[i])
            BY <1>11, <5>1, <5>3
          <6>2. phase[begun[i]] \in {"idle", "waiting", "late", "done"}
            BY <1>7 DEF CallsInv, RequestTypeOK, Phases
          <6>3. QED
            BY <1>7, <2>2, <5>1, <5>3, <6>1, <6>2 DEF Unfinished
        <5>4. QED
          BY <5>2, <5>3
      <4>3. CASE i = m
        <5>1. j # m
          BY <4>1, <4>3
        <5>2. fut[begun[j]] # Nothing
          BY <2>2, <4>1, <5>1
        <5>3. fut[begun[m]] = Nothing /\ phase[begun[m]] # "done"
          BY <1>11 DEF Unfinished
        <5>4. QED
          BY <1>7, <4>1, <4>3, <5>2, <5>3
      <4>4. CASE i # m /\ j # m
        BY <1>7, <2>2, <4>1, <4>4
      <4>5. QED
        BY <4>2, <4>3, <4>4
    <3>3. QED
      BY <1>1, <1>2, <3>1, <3>2 DEF OlderFirst
  <2>5. ASSUME calm PROVE CalmPairs'
    <3>1. s = lastSeq + 1
      <4>1. lastSeq + 1 \in lastSeq + 1 .. Len(said)
        BY <1>2, <1>3, <2>1
      <4>2. s <= lastSeq + 1
        BY <1>4, <1>8, <2>5, <4>1
      <4>3. QED
        BY <1>2, <1>3, <2>1, <4>2
    <3>2. m = s
      <4>1. s \in 1 .. Len(begun)
        BY <1>2, <1>3, <1>8, <2>5
      <4>2. ~ (m <= lastSeq)
        <5>1. fut[begun[m]] = IF m <= lastSeq THEN m ELSE Nothing
          BY <1>8, <2>5
        <5>2. m \in Nat
          OBVIOUS
        <5>3. QED
          BY <1>7, <1>11, <5>1, <5>2
      <4>3. ~ (s < m)
        <5>1. fut[begun[s]] = Nothing
          <6>1. ~ (s <= lastSeq)
            BY <1>2, <3>1
          <6>2. QED
            BY <1>8, <2>5, <4>1, <6>1
        <5>2. phase[begun[s]] \in {"idle", "waiting", "late", "done"}
          BY <1>7, <4>1 DEF CallsInv, RequestTypeOK, Phases
        <5>3. Unfinished(begun[s])
          BY <1>7, <1>8, <2>5, <4>1, <5>1, <5>2 DEF Unfinished
        <5>4. QED
          BY <1>11, <4>1, <5>1, <5>3
      <4>4. QED
        BY <1>2, <3>1, <4>2, <4>3
    <3>3. \A k \in 1 .. Len(begun) : fut'[begun[k]] = IF k <= s THEN k ELSE Nothing
      <4>1. SUFFICES ASSUME NEW k \in 1 .. Len(begun) PROVE fut'[begun[k]] = IF k <= s THEN k ELSE Nothing
        OBVIOUS
      <4>2. CASE k = m
        BY <2>1, <3>2, <4>2
      <4>3. CASE k # m
        <5>1. k <= lastSeq <=> k <= s
          BY <1>2, <3>1, <3>2, <4>3
        <5>2. QED
          BY <1>8, <2>2, <2>5, <4>3, <5>1
      <4>4. QED
        BY <4>2, <4>3
    <3>4. \A x \in Requests : phase[x] # "late" /\ (phase[x] = "done" => fut'[x] # Nothing)
      BY <1>8, <2>1, <2>5
    <3>5. QED
      BY <1>1, <1>5, <1>8, <1>9, <2>5, <3>3, <3>4 DEF CalmPairs
  <2>6. QED
    BY <1>1, <2>3, <2>4, <2>5 DEF OrderInv, CalmPairs
<1>12. QED
  BY <1>1, <1>10, <1>11, DeliverMeans

----------------------------------------------------------------------------
(***************************************************************************)
(* Theorems.                                                               *)
(***************************************************************************)
LEMMA RequestStepKeeps ==
  ASSUME CallsInv, [RequestNext]_requestVars
  PROVE  CallsInv' /\ (OneLink /\ OrderInv => OrderInv')
<1>1. ASSUME NEW r \in Requests, Call(r) \/ Cancelled(r)
      PROVE  CallsInv' /\ (OneLink /\ OrderInv => OrderInv')
  <2>1. CASE Begin(r)
    BY <2>1, BeginKeeps
  <2>2. CASE Return(r) \/ GiveUp(r) \/ Cancelled(r)
    <3>1. Ends(r)
      BY <2>2, CallEnds DEF CallsInv
    <3>2. QED
      BY <3>1, CallEndsKeeps
  <2>3. CASE TimeoutFires(r) \/ Retry(r)
    BY <2>3, TimeoutKeeps
  <2>4. QED
    BY <1>1, <2>1, <2>2, <2>3 DEF Call
<1>2. CASE Answer
  BY <1>2, AnswerKeeps
<1>3. CASE RequestLost \/ Publish \/ (\E l \in Links : StatusLost(l) \/ Echo(l))
  BY <1>3, OddKeeps
<1>4. ASSUME NEW l \in Links, Receive(l)
      PROVE  CallsInv' /\ (OneLink /\ OrderInv => OrderInv')
  <2>1. CallsInv'
    BY <1>4, ReceiveKeepsCalls
  <2>2. ASSUME OneLink, OrderInv PROVE OrderInv'
    BY <1>4, <2>2, ReceiveKeepsOrder
  <2>3. QED
    BY <2>1, <2>2
<1>5. CASE UNCHANGED requestVars
  <2>1. UNCHANGED <<lock, phase, tries, begun, waiters, fut, toNode, said, air, lastSeq, odd, calm, got>>
    BY <1>5 DEF requestVars
  <2>2. CallsInv'
    BY <2>1 DEF CallsInv, CallsFit, Unfinished, ReturnsItsFuture, RequestTypeOK, Seqs
  <2>3. OrderInv => OrderInv'
    BY <2>1 DEF OrderInv, AirInOrder, OlderFirst, CalmPairs
  <2>4. QED
    BY <2>2, <2>3
<1>6. QED
  <2>1. CASE RequestNext
    BY <1>1, <1>2, <1>3, <1>4, <1>5, <2>1 DEF RequestNext, Mesh, Link, Finished
  <2>2. QED
    BY <1>5, <2>1

\* request() in node.py, over any number of links: the list of waiters holds
\* exactly the calls under way, in the order they began, and what a call has
\* returned is what its future holds.
THEOREM CallsAgree ==
  RequestSpec => []CallsInv
<1>1. RequestInit => CallsInv
  BY RequestStarts
<1>2. CallsInv /\ [RequestNext]_requestVars => CallsInv'
  BY RequestStepKeeps
<1>3. QED
  BY <1>1, <1>2, PTL DEF RequestSpec

\* The finally clause of request(): no call that ended stays in _waiters to swallow
\* the answer of a later one, and none under way is missing.
THEOREM WaitersStayTheCalls ==
  RequestSpec => []WaitersAreTheCalls
<1>1. CallsInv => WaitersAreTheCalls
  BY CallsFitMeans DEF CallsInv
<1>2. QED
  BY <1>1, CallsAgree, PTL

\* The look at the future after the last attempt: a call that reports a timeout
\* never had an answer, and none is set in its future later.
THEOREM TimeoutStaysHonest ==
  RequestSpec => []TimeoutIsHonest
<1>1. CallsInv => TimeoutIsHonest
  BY DEF CallsInv, ReturnsItsFuture, TimeoutIsHonest
<1>2. QED
  BY <1>1, CallsAgree, PTL

LEMMA OrderStays ==
  ASSUME OneLink
  PROVE  RequestSpec => [](CallsInv /\ OrderInv)
<1>1. RequestInit => CallsInv /\ OrderInv
  BY RequestStarts
<1>2. CallsInv /\ OrderInv /\ [RequestNext]_requestVars => (CallsInv /\ OrderInv)'
  BY RequestStepKeeps
<1>3. QED
  BY <1>1, <1>2, PTL DEF RequestSpec

\* "in FIFO order" (node.py): over one link, of two answered calls the one that
\* began first has the earlier Status, and no Status answers two calls, whatever is
\* lost, repeated, said unasked, late or cancelled.
THEOREM AnswersStayInOrder ==
  ASSUME OneLink
  PROVE  RequestSpec => []AnswersInOrder
<1>1. CallsInv /\ OrderInv => AnswersInOrder
  <2>1. SUFFICES ASSUME CallsInv, OrderInv, NEW i \in DOMAIN begun, NEW j \in DOMAIN begun,
                        i < j, fut[begun[i]] # Nothing, fut[begun[j]] # Nothing
                 PROVE  fut[begun[i]] < fut[begun[j]]
    BY DEF AnswersInOrder
  <2>2. QED
    BY <2>1 DEF OrderInv, OlderFirst
<1>2. QED
  BY <1>1, OrderStays, PTL

\* Over one link, as long as no call has timed out, nothing was lost and nothing was
\* said unasked, each call gets the Status the node sent for it, whatever overlaps.
THEOREM PairedExactlyAlways ==
  ASSUME OneLink
  PROVE  RequestSpec => []PairedExactly
<1>1. CallsInv /\ OrderInv => PairedExactly
  <2>1. SUFFICES ASSUME CallsInv, OrderInv, calm, NEW r \in Requests, got[r] \in Seqs
                 PROVE  said[got[r]] = r
    BY DEF PairedExactly
  <2>2. /\ Len(said) \in Nat /\ lastSeq \in Nat /\ lastSeq <= Len(said)
        /\ DOMAIN begun = 1 .. Len(begun) /\ Len(begun) \in Nat /\ Len(toNode) \in Nat
    BY <2>1, AirTypes
  <2>3. got[r] \in Nat /\ Nothing \notin Nat
    BY <2>1, <2>2, RequestAssumption DEF Seqs
  <2>4. fut[r] = got[r] /\ fut[r] # Nothing /\ phase[r] # "idle"
    BY <2>1, <2>3 DEF CallsInv, ReturnsItsFuture
  <2>5. PICK k \in 1 .. Len(begun) : begun[k] = r
    <3>1. r \in Range(begun)
      BY <2>1, <2>4 DEF CallsInv, CallsFit
    <3>2. QED
      BY <2>2, <3>1 DEF Range
  <2>6. /\ fut[begun[k]] = IF k <= lastSeq THEN k ELSE Nothing
        /\ \A n \in 1 .. Len(said) : said[n] = begun[n]
    BY <2>1 DEF OrderInv, CalmPairs
  <2>7. fut[r] = k /\ k <= lastSeq
    BY <2>4, <2>5, <2>6
  <2>8. k \in 1 .. Len(said)
    BY <2>2, <2>7
  <2>9. QED
    BY <2>4, <2>5, <2>6, <2>7, <2>8
<1>2. QED
  BY <1>1, OrderStays, PTL
=============================================================================
