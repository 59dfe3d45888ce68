------------------------- MODULE SeqCursorProofs -------------------------
(***************************************************************************)
(* What SeqCursor promises for every margin, every size of command, every  *)
(* number of IV Updates and every interleaving with crashes:               *)
(* type correctness without any assumption, and the guarantees about the   *)
(* numbers under Faultless.                                                *)
(***************************************************************************)
EXTENDS SeqCursor, TLAPS

----------------------------------------------------------------------------
(***************************************************************************)
(* Lemmas on the operators.                                                *)
(***************************************************************************)

\* next_seq never goes back and never spends more than it was asked for.
LEMMA AdvanceBounds ==
  ASSUME NEW s \in Nat, NEW n \in Nat
  PROVE  /\ Advance(s, n) \in Nat
         /\ s <= Advance(s, n)
         /\ Advance(s, n) <= s + n
  BY BoundsAssumption DEF Advance

\* The sizes the bounds of a command and of the debounce rest on.
LEMMA Sizes ==
  /\ Half \in Nat /\ 1 <= Half
  /\ Burst \in Nat /\ CmdPdus <= Burst /\ FilterPdus <= Burst
  /\ FilterPdus \in Nat
  BY BoundsAssumption DEF Half, Burst, FilterPdus

----------------------------------------------------------------------------
(***************************************************************************)
(* Type correctness.                                                       *)
(***************************************************************************)

LEMMA TypeInit == Init => TypeOK
  <1> SUFFICES ASSUME Init PROVE TypeOK
    OBVIOUS
  <1>1. 0 \in Ivs /\ [seq |-> InitSeq, iv |-> 0] \in Cursor
    BY BoundsAssumption DEF Ivs, Cursor
  <1>2. disk \in Cursor \cup {None} /\ legacy \in Cursor \cup {None}
    BY <1>1 DEF Init, Files
  <1>3. spent \in [Ivs -> Nat]
    BY BoundsAssumption DEF Init, Files
  <1>4. window \in 0..WriteWindow /\ sent \in -1..CmdPdus /\ acks \in 0..IdleAcks
    BY BoundsAssumption DEF Init
  <1>5. beacon \in Ivs \cup {NoBeacon} /\ iv \in Ivs /\ txIv \in Ivs
    BY <1>1 DEF Init
  <1>6. QED
    BY <1>2, <1>3, <1>4, <1>5 DEF Init, TypeOK, Stages

LEMMA TypeStarting == TypeOK /\ Starting => TypeOK'
  <1> SUFFICES ASSUME TypeOK, Starting PROVE TypeOK'
    OBVIOUS
  <1> USE BoundsAssumption DEF TypeOK, Stages, Ivs, NoBeacon, Cursor, files, memory, timer, link
  <1>1. CASE LoadStored
    BY <1>1, NoneAssumption DEF LoadStored, Seed
  <1>2. CASE LoadLegacy
    BY <1>2, NoneAssumption DEF LoadLegacy, Seed
  <1>3. CASE RemoveLegacy
    BY <1>3 DEF RemoveLegacy
  <1>4. CASE LoadNothing
    BY <1>4 DEF LoadNothing
  <1>5. CASE FlushAtStart
    BY <1>5 DEF FlushAtStart, Write
  <1>6. QED
    BY <1>1, <1>2, <1>3, <1>4, <1>5 DEF Starting

LEMMA TypeRunning == TypeOK /\ Running => TypeOK'
  <1> SUFFICES ASSUME TypeOK, Running PROVE TypeOK'
    OBVIOUS
  <1> USE BoundsAssumption DEF TypeOK, Stages, Ivs, NoBeacon, Cursor, files, memory, timer, link
  <1>1. CASE Connect
    <2>1. Advance(seq, FilterPdus) \in Nat
      BY Sizes, AdvanceBounds
    <2>2. QED
      <3>1. window' = 0 /\ write' \in {"debounced", "urgent"} /\ seq' = txSeq'
        BY <1>1 DEF Connect, PersistAfter, Persist
      <3>2. spent' \in [Ivs -> Nat]
        BY <1>1, <2>1 DEF Connect, SpendUpTo
      <3>3. /\ UNCHANGED <<up, disk, legacy, iv, saved, sent>>
            /\ live' = TRUE /\ txIv' = iv /\ beacon' = NoBeacon /\ cut' = FALSE /\ acks' = 0
            /\ txSeq' \in Nat
        BY <1>1, <2>1 DEF Connect
      <3>4. beacon' \in Ivs \cup {NoBeacon} /\ window' \in 0..WriteWindow /\ acks' \in 0..IdleAcks
        BY <3>1, <3>3
      <3>5. QED
        BY <3>1, <3>2, <3>3, <3>4
  <1>2. CASE JoinLate
    <2>1. Advance(txSeq, FilterPdus) \in Nat
      BY Sizes, AdvanceBounds
    <2>2. QED
      BY <1>2, <2>1, Sizes DEF JoinLate, Emit, SpendUpTo, PersistAfter, Persist, WindowAllows
  <1>3. CASE Teardown
    BY <1>3 DEF Teardown
  <1>4. CASE CommandBegin
    BY <1>4 DEF CommandBegin
  <1>5. CASE CommandSend
    <2>1. Advance(txSeq, 1) \in Nat
      BY AdvanceBounds
    <2>2. QED
      BY <1>5, <2>1 DEF CommandSend, Emit, SpendUpTo, CountInWindow, WindowAllows
  <1>6. ASSUME NEW how \in Endings, CommandEnd(how) PROVE TypeOK'
    BY <1>6 DEF CommandEnd, PersistAfter, Persist, Newer
  <1>7. CASE Beacon
    BY <1>7 DEF Beacon
  <1>8. CASE AckOutsideCommand
    <2>1. Advance(txSeq, 1) \in Nat
      BY AdvanceBounds
    <2>2. QED
      BY <1>8, <2>1 DEF AckOutsideCommand, Emit, SpendUpTo, CountInWindow, WindowAllows
  <1>9. CASE DelayedWrite
    BY <1>9 DEF DelayedWrite, Write
  <1>10. QED
    BY <1>1, <1>2, <1>3, <1>4, <1>5, <1>6, <1>7, <1>8, <1>9 DEF Running

\* What dies with the process restarts well typed.
LEMMA ForgetType ==
  ASSUME Forget
  PROVE  /\ seq' \in Nat /\ iv' \in Ivs /\ saved' \in Nat
         /\ write' \in {"none", "debounced", "urgent"} /\ window' \in 0..WriteWindow
         /\ live' \in BOOLEAN /\ txSeq' \in Nat /\ txIv' \in Ivs
         /\ beacon' \in Ivs \cup {NoBeacon} /\ cut' \in BOOLEAN
         /\ sent' \in -1..CmdPdus
         /\ acks' \in 0..IdleAcks
  <1>1. window' \in 0..WriteWindow /\ sent' \in -1..CmdPdus /\ acks' \in 0..IdleAcks
    BY BoundsAssumption DEF Forget
  <1>2. iv' \in Ivs /\ txIv' \in Ivs
    BY BoundsAssumption DEF Forget, Ivs
  <1>3. QED
    BY <1>1, <1>2 DEF Forget

LEMMA TypeNext == TypeOK /\ [Next]_vars => TypeOK'
  <1> SUFFICES ASSUME TypeOK, [Next]_vars PROVE TypeOK'
    OBVIOUS
  <1>1. CASE Starting
    BY <1>1, TypeStarting
  <1>2. CASE Running
    BY <1>2, TypeRunning
  <1>3. CASE Stop
    <2>1. disk' \in Cursor \cup {None}
      BY <1>3 DEF Stop, TypeOK, Cursor
    <2>2. QED
      BY <1>3, <2>1, ForgetType DEF Stop, TypeOK, Stages
  <1>4. CASE Crash
    BY <1>4, ForgetType DEF Crash, TypeOK, Stages, files
  <1>5. CASE UNCHANGED vars
    BY <1>5 DEF vars, files, memory, timer, link, TypeOK
  <1>6. QED
    BY <1>1, <1>2, <1>3, <1>4, <1>5 DEF Next

\* Every variable keeps its type, whatever fails.
THEOREM TypeCorrect == Spec => []TypeOK
  <1>1. QED
    BY TypeInit, TypeNext, PTL DEF Spec

----------------------------------------------------------------------------
(***************************************************************************)
(* The inductive invariant.                                                *)
(***************************************************************************)

LEMMA SafeInit == Faultless /\ Init => SafeCursor
  <1> SUFFICES ASSUME Faultless, Init PROVE SafeCursor
    OBVIOUS
  <1>0. PICK file \in InitFiles : Files(file)
    BY DEF Init
  <1> DEFINE stored == [seq |-> InitSeq, iv |-> 0]
  <1>1. TypeOK
    BY TypeInit
  <1>2. \A i \in Ivs : i > 0 => spent[i] = 0
    BY <1>0 DEF Files, Ivs
  <1>3. spent[0] = IF file # "none" THEN InitSeq ELSE 0
    BY <1>0, BoundsAssumption DEF Files, Ivs
  <1>4. Covers(stored)
    BY <1>2, <1>3, BoundsAssumption DEF Covers, NothingUnderNewer, Ivs
  <1>5. disk \in {stored, None} /\ legacy \in {stored, None}
    BY <1>0 DEF Files
  <1>6. disk = None /\ legacy = None => file = "none"
    <2>1. stored \in Cursor
      BY BoundsAssumption DEF Cursor, Ivs
    <2>2. stored # None
      BY <2>1, NoneAssumption
    <2>3. QED
      BY <1>0, <2>2, BoundsAssumption DEF Files
  <1>7. FilesCover
    BY <1>2, <1>3, <1>4, <1>5, <1>6, BoundsAssumption DEF FilesCover, Ivs
  <1>8. QED
    BY <1>1, <1>7
    DEF Init, Faultless, SafeCursor, MemoryCovers, LinkFollowsMemory, WriteKeepsUp, StartIsQuiet

LEMMA SafeStarting == Faultless /\ SafeCursor /\ Starting => SafeCursor'
  <1> SUFFICES ASSUME Faultless, SafeCursor, Starting PROVE SafeCursor'
    OBVIOUS
  <1>0. TypeOK' /\ TypeOK
    BY TypeStarting DEF SafeCursor
  <1> USE BoundsAssumption
      DEF files, memory, timer, link, Covers, NothingUnderNewer,
          FilesCover, MemoryCovers, LinkFollowsMemory, WriteKeepsUp, StartIsQuiet
  <1>1. CASE LoadStored
    BY <1>0, <1>1 DEF LoadStored, Seed, SafeCursor, TypeOK, Cursor
  <1>2. CASE LoadLegacy
    BY <1>0, <1>2 DEF LoadLegacy, Seed, SafeCursor, TypeOK, Cursor, Faultless
  <1>3. CASE RemoveLegacy
    BY <1>0, <1>3 DEF RemoveLegacy, SafeCursor
  <1>4. CASE LoadNothing
    BY <1>0, <1>4 DEF LoadNothing, SafeCursor, TypeOK, Ivs
  <1>5. CASE FlushAtStart
    <2>1. disk' = [seq |-> seq, iv |-> iv] /\ disk' # None
      BY <1>0, <1>5, NoneAssumption
      DEF FlushAtStart, Write, Faultless, TypeOK, Cursor
    <2>2. QED
      BY <1>0, <1>5, <2>1, Sizes DEF FlushAtStart, Write, SafeCursor, UrgentInReach, TypeOK, Ivs
  <1>6. QED
    BY <1>1, <1>2, <1>3, <1>4, <1>5 DEF Starting

\* What holds under a held link, in one place.
LEMMA HeldLink ==
  ASSUME SafeCursor, TypeOK, live
  PROVE  /\ up = "running" /\ disk \in Cursor /\ disk # None /\ saved = disk.seq
         /\ txIv <= disk.iv /\ disk.iv <= iv
         /\ seq <= txSeq /\ spent[txIv] <= txSeq /\ NothingUnderNewer(txIv)
         /\ disk.iv = iv => saved <= seq
         /\ disk.iv = iv /\ write # "urgent" => seq - saved < Half
         /\ disk.iv < iv => write = "urgent" /\ txIv < iv
         /\ UrgentInReach
         /\ txIv = iv /\ sent = -1 => txSeq = seq
         /\ txIv = iv /\ sent # -1 => txSeq <= seq + sent
  <1>1. up = "running" /\ disk # None
    BY DEF SafeCursor, LinkFollowsMemory, WriteKeepsUp
  <1>2. disk \in Cursor
    BY <1>1 DEF TypeOK
  <1>3. QED
    BY <1>1, <1>2 DEF SafeCursor, LinkFollowsMemory, WriteKeepsUp

\* The numbers these facts are about.
LEMMA Indexes ==
  ASSUME TypeOK
  PROVE  /\ iv \in Int /\ txIv \in Int /\ beacon \in Int
         /\ iv \in Ivs /\ txIv \in Ivs
         /\ seq \in Nat /\ txSeq \in Nat /\ saved \in Nat /\ window \in Nat
         /\ sent \in Int /\ sent >= -1 /\ sent <= CmdPdus
         /\ spent \in [Ivs -> Nat]
         /\ disk # None => disk \in Cursor /\ disk.iv \in Int /\ disk.iv \in Ivs /\ disk.seq \in Nat
  BY BoundsAssumption DEF TypeOK, Ivs, NoBeacon, Cursor

\* The live controller stays within reach of the file under the same index.
LEMMA InReach ==
  ASSUME Faultless, SafeCursor, TypeOK, live, txIv = disk.iv, NEW n \in Nat, WindowAllows(n),
         IF sent = -1 THEN n <= Burst ELSE sent + n <= CmdPdus
  PROVE  /\ write = "urgent" => txSeq + n <= saved + Half - 1 + Burst + window + n
         /\ write # "urgent" => txSeq + n <= saved + Half - 1 + Burst
         /\ txSeq + n <= saved + Margin
  <1>0. Half - 1 + Burst + WriteWindow <= Margin /\ Margin \in Nat /\ WriteWindow \in Nat
        /\ CmdPdus \in Nat
    BY BoundsAssumption DEF Faultless
  <1>1. CASE write = "urgent"
    <2>1. txSeq <= saved + Half - 1 + Burst + window /\ window + n <= WriteWindow
      BY <1>1, HeldLink DEF UrgentInReach, WindowAllows
    <2>2. QED
      BY <1>0, <1>1, <2>1, Sizes, Indexes
  <1>2. CASE write # "urgent"
    <2>1. disk.iv = iv /\ txIv = iv /\ seq - saved < Half
      BY <1>2, HeldLink, Indexes
    <2>2. txSeq + n <= seq + Burst
      BY <2>1, HeldLink, Sizes, Indexes, <1>0
    <2>3. QED
      BY <1>0, <1>2, <2>1, <2>2, Sizes, Indexes
  <1>3. QED
    BY <1>1, <1>2

\* The controller sends n PDUs of a command or of a filter refresh: what it
\* spends it spends under its own index, and the file still covers it.
LEMMA EmitSpends ==
  ASSUME Faultless, SafeCursor, TypeOK, NEW n \in Nat, Emit(n), UNCHANGED files,
         IF sent = -1 THEN n <= Burst ELSE sent + n <= CmdPdus
  PROVE  /\ txSeq' \in Nat /\ txSeq <= txSeq' /\ txSeq' <= txSeq + n
         /\ spent'[txIv] <= txSeq'
         /\ \A i \in Ivs : i > txIv => spent'[i] = 0
         /\ FilesCover'
  <1>1. txSeq' \in Nat /\ txSeq <= txSeq' /\ txSeq' <= txSeq + n
    BY AdvanceBounds, Indexes DEF Emit
  <1>2. live /\ spent[txIv] <= txSeq /\ spent' = [spent EXCEPT ![txIv] = IF @ < txSeq' THEN txSeq' ELSE @]
    BY HeldLink DEF Emit, SpendUpTo
  <1>3. spent'[txIv] <= txSeq' /\ \A i \in Ivs : i # txIv => spent'[i] = spent[i]
    BY <1>1, <1>2, Indexes
  <1>4. \A i \in Ivs : i > txIv => spent'[i] = 0
    <2>1. \A i \in Ivs : i > txIv => i # txIv
      BY Indexes DEF Ivs
    <2>2. QED
      BY <1>2, <1>3, <2>1, HeldLink DEF NothingUnderNewer
  <1>5. disk' = disk /\ disk # None /\ disk \in Cursor /\ saved = disk.seq /\ txIv <= disk.iv
    BY <1>2, HeldLink DEF files
  <1>6. spent'[disk.iv] <= disk.seq + Margin
    <2>1. CASE txIv = disk.iv
      <3>1. txSeq + n <= saved + Margin
        BY <1>2, <2>1, InReach DEF Emit
      <3>2. spent'[txIv] \in Nat
        BY <1>1, <1>2, Indexes
      <3>3. QED
        BY <1>1, <1>3, <1>5, <2>1, <3>1, <3>2, Indexes, BoundsAssumption
    <2>2. CASE txIv # disk.iv
      <3>1. spent'[disk.iv] = 0
        BY <1>4, <1>5, <2>2, Indexes
      <3>2. QED
        BY <1>5, <3>1, Indexes, BoundsAssumption
    <2>3. QED
      BY <2>1, <2>2
  <1>7. \A i \in Ivs : i > disk.iv => spent'[i] = 0
    <2>1. \A i \in Ivs : i > disk.iv => i > txIv
      BY <1>5, Indexes DEF Ivs
    <2>2. QED
      BY <1>4, <2>1
  <1>8. FilesCover'
    BY <1>5, <1>6, <1>7 DEF FilesCover, Covers, NothingUnderNewer
  <1>9. QED
    BY <1>1, <1>3, <1>4, <1>8

\* A fresh controller over the memory.
LEMMA SafeConnect ==
  ASSUME Faultless, SafeCursor, TypeOK, TypeOK', Connect
  PROVE  SafeCursor'
  <1>1. /\ up = "running" /\ up' = "running" /\ sent = -1 /\ sent' = -1 /\ ~ live /\ live'
        /\ write # "urgent" /\ txIv' = iv /\ beacon' = NoBeacon /\ acks' = 0
        /\ UNCHANGED <<disk, legacy, iv, saved>>
    BY DEF Connect, LockFree, files
  <1>2. disk.iv = iv /\ saved = disk.seq /\ disk # None
    <2>1. disk # None /\ disk.iv <= iv /\ saved = disk.seq /\ ~ (disk.iv < iv)
      BY <1>1 DEF SafeCursor, WriteKeepsUp
    <2>2. QED
      BY <2>1, Indexes
  <1>3. saved <= seq /\ seq - saved < Half
    BY <1>1, <1>2 DEF SafeCursor, WriteKeepsUp
  <1>4. spent[iv] <= seq /\ NothingUnderNewer(iv)
    BY <1>1 DEF SafeCursor, MemoryCovers
  <1>5. txSeq' \in Nat /\ seq <= txSeq' /\ txSeq' <= seq + FilterPdus /\ seq' = txSeq'
    BY AdvanceBounds, Sizes, Indexes DEF Connect
  <1>6. /\ spent'[iv] <= txSeq'
        /\ \A i \in Ivs : i # iv => spent'[i] = spent[i]
    BY <1>4, <1>5, Indexes DEF Connect, SpendUpTo
  <1>7. txSeq' <= saved + Half - 1 + Burst /\ txSeq' <= saved + Margin
    BY <1>3, <1>5, Sizes, Indexes, BoundsAssumption DEF Faultless
  <1>8. \A i \in Ivs : i > iv => spent'[i] = 0
    BY <1>4, <1>6, Indexes DEF NothingUnderNewer, Ivs
  <1>9. FilesCover'
    <2>1. spent'[disk.iv] <= disk.seq + Margin
      BY <1>2, <1>5, <1>6, <1>7, Indexes, BoundsAssumption DEF TypeOK
    <2>2. QED
      BY <1>1, <1>2, <1>8, <2>1 DEF FilesCover, Covers, NothingUnderNewer
  <1>10. LinkFollowsMemory'
    BY <1>1, <1>2, <1>5, <1>6, <1>8, Indexes
    DEF LinkFollowsMemory, NothingUnderNewer, NoBeacon, Ivs
  <1>11. WriteKeepsUp'
    <2>1. write' # "urgent" => seq' - saved < Half
      BY <1>1, <1>3, <1>5, Sizes, Indexes DEF Connect, PersistAfter, Persist, Urgent
    <2>2. window' = 0
      BY <1>1 DEF Connect, PersistAfter
    <2>3. UrgentInReach'
      BY <1>1, <1>7, <2>2, Sizes, Indexes, <1>5 DEF UrgentInReach
    <2>4. saved' <= seq'
      BY <1>1, <1>3, <1>5, Indexes
    <2>5. disk' # None /\ disk'.iv = iv' /\ saved' = disk'.seq /\ iv' \in Int
      BY <1>1, <1>2, Indexes
    <2>6. QED
      BY <1>1, <2>1, <2>3, <2>4, <2>5 DEF WriteKeepsUp
  <1>12. QED
    BY <1>1, <1>9, <1>10, <1>11 DEF SafeCursor, MemoryCovers, StartIsQuiet

\* What _persist does to the write's books, the link held or not.
LEMMA PersistKeepsUp ==
  ASSUME SafeCursor, TypeOK, TypeOK', live, sent' = -1,
         NEW n \in Nat, PersistAfter(seq', n), disk.iv = iv,
         UNCHANGED <<up, disk, iv, saved, txIv>>,
         seq' = txSeq', txSeq <= txSeq',
         txIv = iv => txSeq' <= saved + Half - 1 + Burst +
                                (IF write = "urgent" THEN window + n ELSE 0)
  PROVE  WriteKeepsUp'
  <1>1. /\ up' = "running" /\ disk' # None /\ disk'.iv = iv' /\ saved' = disk'.seq
        /\ disk = disk' /\ saved <= seq /\ seq <= txSeq
    BY HeldLink
  <1>2. saved' <= seq' /\ iv' \in Int
    BY <1>1, Indexes DEF TypeOK
  <1>3. write' # "urgent" => seq' - saved' < Half
    BY <1>2, Sizes, Indexes DEF PersistAfter, Persist, Urgent, TypeOK
  <1>4. window' = IF write = "urgent" THEN window + n ELSE 0
    BY DEF PersistAfter
  <1>5. UrgentInReach'
    BY <1>1, <1>4 DEF UrgentInReach
  <1>6. QED
    BY <1>1, <1>2, <1>3, <1>5 DEF WriteKeepsUp

\* The filter claimed again, then read back and persisted.
LEMMA SafeJoinLate ==
  ASSUME Faultless, SafeCursor, TypeOK, TypeOK', JoinLate
  PROVE  SafeCursor'
  <1>1. /\ live /\ live' /\ up = "running" /\ up' = "running" /\ sent = -1 /\ sent' = -1
        /\ seq' = txSeq' /\ UNCHANGED <<disk, legacy, iv, saved, txIv, beacon, cut, acks>>
    BY DEF JoinLate, LockFree, Emit, files
  <1>2. /\ txSeq' \in Nat /\ txSeq <= txSeq' /\ txSeq' <= txSeq + FilterPdus
        /\ spent'[txIv] <= txSeq'
        /\ \A i \in Ivs : i > txIv => spent'[i] = 0
        /\ FilesCover'
    BY <1>1, EmitSpends, Sizes DEF JoinLate
  <1>3. WindowAllows(FilterPdus)
    BY DEF JoinLate, Emit
  <1>4. LinkFollowsMemory'
    BY <1>1, <1>2, Indexes DEF SafeCursor, LinkFollowsMemory, NothingUnderNewer
  <1>5. WriteKeepsUp'
    <2>1. CASE disk.iv = iv
      <3>1. txIv = iv => txSeq' <= saved + Half - 1 + Burst +
                                  (IF write = "urgent" THEN window + FilterPdus ELSE 0)
        BY <1>1, <1>2, <1>3, <2>1, InReach, Sizes, Indexes
      <3>2. PersistAfter(seq', FilterPdus) /\ UNCHANGED up
        BY DEF JoinLate
      <3>3. QED
        BY <1>1, <1>2, <2>1, <3>1, <3>2, Sizes, PersistKeepsUp
    <2>2. CASE disk.iv # iv
      <3>1. disk.iv < iv /\ write = "urgent" /\ txIv < iv /\ disk # None /\ saved = disk.seq
        BY <1>1, <2>2, HeldLink, Indexes
      <3>2. write' = "urgent" /\ window' = window + FilterPdus
        BY <3>1 DEF JoinLate, PersistAfter, Persist
      <3>3. txIv = disk.iv => txSeq' <= saved + Half - 1 + Burst + window'
        BY <1>1, <1>2, <1>3, <3>1, <3>2, InReach, Sizes, Indexes
      <3>4. QED
        BY <1>1, <3>1, <3>2, <3>3, Indexes DEF WriteKeepsUp, UrgentInReach
    <2>3. QED
      BY <2>1, <2>2
  <1>6. QED
    BY <1>1, <1>2, <1>4, <1>5 DEF SafeCursor, MemoryCovers, StartIsQuiet

\* One more PDU of a command: at most CmdPdus above the memory.
LEMMA SafeCommandSend ==
  ASSUME Faultless, SafeCursor, TypeOK, TypeOK', CommandSend
  PROVE  SafeCursor'
  <1>1. /\ live /\ live' /\ up = "running" /\ up' = "running"
        /\ sent # -1 /\ sent' = sent + 1 /\ sent' <= CmdPdus /\ sent' # -1
        /\ UNCHANGED <<disk, legacy, seq, iv, saved, write, txIv, beacon, cut, acks>>
    BY BoundsAssumption, HeldLink
    DEF CommandSend, Emit, files, memory, TypeOK
  <1>2. /\ txSeq' \in Nat /\ txSeq <= txSeq' /\ txSeq' <= txSeq + 1
        /\ spent'[txIv] <= txSeq'
        /\ \A i \in Ivs : i > txIv => spent'[i] = 0
        /\ FilesCover'
    BY <1>1, EmitSpends, Indexes DEF CommandSend
  <1>3. WindowAllows(1) /\ CountInWindow(1)
    BY DEF CommandSend, Emit
  <1>4. LinkFollowsMemory'
    BY <1>1, <1>2, Indexes DEF SafeCursor, LinkFollowsMemory, NothingUnderNewer
  <1>5. UrgentInReach'
    <2>1. CASE write = "urgent" /\ txIv = disk.iv
      BY <1>1, <1>2, <1>3, <2>1, InReach, Sizes, Indexes DEF UrgentInReach, CountInWindow
    <2>2. QED
      BY <1>1, <2>1 DEF UrgentInReach
  <1>6. WriteKeepsUp'
    BY <1>1, <1>5 DEF SafeCursor, WriteKeepsUp
  <1>7. QED
    BY <1>1, <1>2, <1>4, <1>6 DEF SafeCursor, MemoryCovers, StartIsQuiet

\* The cursor read back, the newer index adopted, the pair persisted; the link
\* goes, stays, or stays behind.
LEMMA SafeCommandEnd ==
  ASSUME Faultless, SafeCursor, TypeOK, TypeOK', NEW how \in Endings, CommandEnd(how)
  PROVE  SafeCursor'
  <1>1. /\ live /\ up = "running" /\ up' = "running" /\ sent # -1 /\ sent' = -1
        /\ UNCHANGED <<disk, legacy, saved, txSeq, txIv, beacon, acks, spent>>
        /\ PersistAfter(seq', 0)
    BY HeldLink DEF CommandEnd, files, SafeCursor, LinkFollowsMemory
  <1>2. /\ acks = 0
        /\ beacon > iv => saved > 0 /\ disk.iv = iv
    BY <1>1 DEF SafeCursor, LinkFollowsMemory
  <1>3. FilesCover'
    BY <1>1 DEF SafeCursor, FilesCover, Covers, NothingUnderNewer
  <1>4. CASE Newer
    <2>1. /\ seq' = 0 /\ iv' = beacon /\ iv < iv' /\ saved > 0 /\ disk.iv = iv
          /\ live' => cut'
      BY <1>1, <1>2, <1>4 DEF CommandEnd, Newer
    <2>2. write' = "urgent" /\ window' = IF write = "urgent" THEN window ELSE 0
      BY <1>1, <2>1, Indexes DEF Urgent, PersistAfter, Persist
    <2>3. txIv < iv'
      BY <1>1, <2>1, HeldLink, Indexes DEF TypeOK
    <2>4. spent[iv'] = 0 /\ NothingUnderNewer(iv')
      BY <1>1, <2>1, <2>3, HeldLink, Indexes DEF NothingUnderNewer, TypeOK, Ivs
    <2>5. UrgentInReach'
      <3>1. CASE txIv = disk.iv
        <4>1. WindowAllows(0)
          BY <1>1, Indexes, BoundsAssumption DEF WindowAllows, TypeOK
        <4>2. txSeq <= saved + Half - 1 + Burst + window'
          BY <1>1, <2>2, <3>1, <4>1, InReach, Indexes, Sizes
        <4>3. QED
          BY <1>1, <4>2 DEF UrgentInReach
      <3>2. QED
        BY <1>1, <3>1 DEF UrgentInReach
    <2>6. disk' # None /\ disk'.iv < iv' /\ saved' = disk'.seq /\ iv' \in Int
      BY <1>1, <2>1, HeldLink, Indexes DEF TypeOK
    <2>7. WriteKeepsUp'
      BY <1>1, <2>2, <2>3, <2>5, <2>6, HeldLink, Indexes DEF WriteKeepsUp
    <2>8. LinkFollowsMemory'
      <3>1. UNCHANGED txIv /\ ~ (beacon' > iv')
        BY <1>1, <2>1, Indexes DEF TypeOK
      <3>2. NothingUnderNewer(txIv)' /\ spent'[txIv'] <= txSeq' /\ seq' <= txSeq' /\ txIv' <= iv'
            /\ txIv' # iv' /\ txIv' <= disk'.iv
        BY <1>1, <2>1, <2>3, <3>1, HeldLink, Indexes DEF NothingUnderNewer, TypeOK
      <3>3. QED
        BY <1>1, <1>2, <2>1, <3>1, <3>2 DEF LinkFollowsMemory
    <2>9. QED
      BY <1>1, <1>3, <2>1, <2>4, <2>7, <2>8
      DEF SafeCursor, MemoryCovers, NothingUnderNewer, StartIsQuiet
  <1>5. CASE ~ Newer
    <2>1. seq' = txSeq /\ iv' = iv /\ seq' = txSeq' /\ cut' = cut
      BY <1>1, <1>5 DEF CommandEnd, TypeOK
    <2>2. WindowAllows(0)
      BY <1>1, Indexes, BoundsAssumption DEF WindowAllows, TypeOK
    <2>3. txIv = disk.iv =>
            /\ write = "urgent" => txSeq <= saved + Half - 1 + Burst + window
            /\ write # "urgent" => txSeq <= saved + Half - 1 + Burst
      BY <1>1, <2>2, InReach, Indexes, Sizes
    <2>4. WriteKeepsUp'
      <3>1. CASE disk.iv = iv
        <4>1. txIv = iv => txSeq' <= saved + Half - 1 + Burst +
                                    (IF write = "urgent" THEN window + 0 ELSE 0)
          BY <1>1, <2>3, <3>1, Indexes, Sizes
        <4>2. QED
          BY <1>1, <2>1, <3>1, <4>1, Indexes, PersistKeepsUp
      <3>2. CASE disk.iv # iv
        <4>1. disk.iv < iv /\ write = "urgent" /\ txIv < iv /\ disk # None /\ saved = disk.seq
          BY <1>1, <3>2, HeldLink, Indexes
        <4>2. write' = "urgent" /\ window' = window
          BY <1>1, <4>1, Indexes DEF PersistAfter, Persist
        <4>3. QED
          BY <1>1, <2>1, <2>3, <4>1, <4>2, Indexes DEF WriteKeepsUp, UrgentInReach
      <3>3. QED
        BY <3>1, <3>2
    <2>5. LinkFollowsMemory'
      BY <1>1, <1>2, <2>1, HeldLink, Indexes
      DEF SafeCursor, LinkFollowsMemory, NothingUnderNewer
    <2>6. MemoryCovers'
      <3>1. spent[iv] <= txSeq /\ NothingUnderNewer(iv)
        BY <1>1, HeldLink, Indexes DEF NothingUnderNewer, Ivs
      <3>2. QED
        BY <1>1, <2>1, <3>1 DEF MemoryCovers, NothingUnderNewer
    <2>7. QED
      BY <1>1, <1>3, <2>4, <2>5, <2>6 DEF SafeCursor, StartIsQuiet
  <1>6. QED
    BY <1>4, <1>5

\* A held link that goes leaves a memory the next one can start from.
LEMMA SafeTeardown ==
  ASSUME Faultless, SafeCursor, TypeOK, TypeOK', Teardown
  PROVE  SafeCursor'
  <1>1. /\ live /\ ~ live' /\ up = "running" /\ up' = "running" /\ sent = -1 /\ sent' = -1
        /\ UNCHANGED <<disk, legacy, seq, iv, saved, write, window, acks, spent>>
    BY DEF Teardown, LockFree, files, memory, timer
  <1>2. spent[iv] <= seq /\ NothingUnderNewer(iv)
    BY <1>1, HeldLink, Indexes DEF NothingUnderNewer, Ivs
  <1>3. QED
    BY <1>1, <1>2
    DEF SafeCursor, FilesCover, Covers, MemoryCovers, LinkFollowsMemory, WriteKeepsUp,
        UrgentInReach, NothingUnderNewer, StartIsQuiet

\* The delayed write, between two commands or in the middle of one.
LEMMA SafeDelayedWrite ==
  ASSUME Faultless, SafeCursor, TypeOK, TypeOK', DelayedWrite
  PROVE  SafeCursor'
  <1>1. /\ up = "running" /\ up' = "running" /\ disk' = [seq |-> seq, iv |-> iv]
        /\ saved' = seq /\ write' = "none" /\ window' = 0
        /\ UNCHANGED <<legacy, seq, iv, live, txSeq, txIv, beacon, cut, sent, acks, spent>>
    BY DEF DelayedWrite, Write, Faultless, link
  <1>2. disk' # None
    BY <1>1, NoneAssumption DEF Cursor, TypeOK
  <1>3. spent[iv] <= seq + Margin /\ NothingUnderNewer(iv)
    <2>1. CASE live /\ txIv = iv
      <3>1. txSeq <= seq + Burst
        BY <2>1, HeldLink, Sizes, Indexes, BoundsAssumption
      <3>2. QED
        BY <2>1, <3>1, HeldLink, Sizes, Indexes, BoundsAssumption DEF Faultless
    <2>2. CASE live /\ txIv # iv
      <3>1. txIv < iv
        BY <2>2, HeldLink, Indexes
      <3>2. spent[iv] = 0 /\ NothingUnderNewer(iv)
        BY <2>2, <3>1, HeldLink, Indexes DEF NothingUnderNewer, Ivs
      <3>3. QED
        BY <3>2, Indexes, BoundsAssumption
    <2>3. CASE ~ live
      BY <1>1, <2>3, Indexes, BoundsAssumption DEF SafeCursor, MemoryCovers
    <2>4. QED
      BY <2>1, <2>2, <2>3
  <1>4. FilesCover'
    BY <1>1, <1>2, <1>3 DEF FilesCover, Covers, NothingUnderNewer
  <1>5. WriteKeepsUp'
    BY <1>1, <1>2, Sizes, Indexes DEF WriteKeepsUp, UrgentInReach
  <1>6. LinkFollowsMemory'
    <2>1. live => txIv <= iv
      BY HeldLink, Indexes
    <2>2. live /\ beacon > iv => saved' > 0
      <3>1. SUFFICES ASSUME live, beacon > iv PROVE saved' > 0
        OBVIOUS
      <3>2. saved > 0 /\ disk.iv = iv
        BY <3>1 DEF SafeCursor, LinkFollowsMemory
      <3>3. QED
        BY <1>1, <3>1, <3>2, HeldLink, Indexes
    <2>3. QED
      BY <1>1, <1>2, <2>1, <2>2, HeldLink
      DEF SafeCursor, LinkFollowsMemory, NothingUnderNewer
  <1>7. QED
    BY <1>1, <1>4, <1>5, <1>6
    DEF SafeCursor, MemoryCovers, NothingUnderNewer, StartIsQuiet

LEMMA SafeRunning == Faultless /\ SafeCursor /\ Running => SafeCursor'
  <1> SUFFICES ASSUME Faultless, SafeCursor, Running PROVE SafeCursor'
    OBVIOUS
  <1>0. TypeOK' /\ TypeOK
    BY TypeRunning DEF SafeCursor
  <1>1. CASE Connect
    BY <1>0, <1>1, SafeConnect
  <1>2. CASE JoinLate
    BY <1>0, <1>2, SafeJoinLate
  <1>3. CASE Teardown
    BY <1>0, <1>3, SafeTeardown
  <1>4. CASE CommandBegin
    BY <1>0, <1>4
    DEF CommandBegin, LockFree, SafeCursor, FilesCover, Covers, MemoryCovers,
        LinkFollowsMemory, WriteKeepsUp, UrgentInReach, NothingUnderNewer, StartIsQuiet,
        files, memory, timer, link, TypeOK
  <1>5. CASE CommandSend
    BY <1>0, <1>5, SafeCommandSend
  <1>6. ASSUME NEW how \in Endings, CommandEnd(how) PROVE SafeCursor'
    BY <1>0, <1>6, SafeCommandEnd
  <1>7. CASE Beacon
    BY <1>0, <1>7
    DEF Beacon, SafeCursor, FilesCover, Covers, MemoryCovers, LinkFollowsMemory,
        WriteKeepsUp, UrgentInReach, NothingUnderNewer, StartIsQuiet, Faultless,
        files, memory, timer
  <1>8. CASE AckOutsideCommand
    BY <1>0, <1>8 DEF AckOutsideCommand, Faultless, TypeOK
  <1>9. CASE DelayedWrite
    BY <1>0, <1>9, SafeDelayedWrite
  <1>10. QED
    BY <1>1, <1>2, <1>3, <1>4, <1>5, <1>6, <1>7, <1>8, <1>9 DEF Running

LEMMA SafeNext == Faultless /\ SafeCursor /\ [Next]_vars => SafeCursor'
  <1> SUFFICES ASSUME Faultless, SafeCursor, [Next]_vars PROVE SafeCursor'
    OBVIOUS
  <1>0. TypeOK' /\ TypeOK
    BY TypeNext DEF SafeCursor
  <1>1. CASE Starting
    BY <1>1, SafeStarting
  <1>2. CASE Running
    BY <1>2, SafeRunning
  <1>3. CASE Stop
    <2>1. /\ disk' = [seq |-> seq, iv |-> iv] /\ UNCHANGED <<legacy, spent>>
          /\ up = "running" /\ sent = -1 /\ up' = "down"
      BY <1>3 DEF Stop, LockFree, Faultless
    <2>2. disk' # None
      BY <1>0, <2>1, NoneAssumption DEF Cursor, TypeOK
    <2>3. spent[iv] <= seq /\ NothingUnderNewer(iv)
      BY <1>0, <2>1, HeldLink, Indexes DEF SafeCursor, MemoryCovers, NothingUnderNewer, Ivs
    <2>4. FilesCover'
      BY <1>0, <2>1, <2>2, <2>3, BoundsAssumption
      DEF FilesCover, Covers, NothingUnderNewer, TypeOK
    <2>5. QED
      BY <1>0, <1>3, <2>1, <2>4
      DEF Stop, Forget, SafeCursor, MemoryCovers, LinkFollowsMemory, WriteKeepsUp, StartIsQuiet
  <1>4. CASE Crash
    BY <1>0, <1>4
    DEF Crash, Forget, files, SafeCursor, FilesCover, Covers, NothingUnderNewer,
        MemoryCovers, LinkFollowsMemory, WriteKeepsUp, StartIsQuiet
  <1>5. CASE UNCHANGED vars
    BY <1>0, <1>5
    DEF vars, files, memory, timer, link, SafeCursor, FilesCover, Covers,
        NothingUnderNewer, MemoryCovers, LinkFollowsMemory, WriteKeepsUp, UrgentInReach,
        StartIsQuiet
  <1>6. QED
    BY <1>1, <1>2, <1>3, <1>4, <1>5 DEF Next

\* The invariant behind the guarantees: memory, link and files never drift
\* further apart than the margin.
THEOREM SafeCursorAlways == ASSUME Faultless PROVE Spec => []SafeCursor
  <1>1. Init => SafeCursor
    BY SafeInit
  <1>2. SafeCursor /\ [Next]_vars => SafeCursor'
    BY SafeNext
  <1>3. QED
    BY <1>1, <1>2, PTL DEF Spec

\* No number goes out twice under one IV Index, across commands, links,
\* restarts and crashes (_run_connected, _ensure_connected, _load_state).
THEOREM NoSeqReuseAlways == ASSUME Faultless PROVE Spec => []NoSeqReuse
  <1>1. SafeCursor => NoSeqReuse
    BY DEF SafeCursor, MemoryCovers, LinkFollowsMemory, NoSeqReuse, NextSeq, NextIv
  <1>2. QED
    BY <1>1, SafeCursorAlways, PTL

\* The margin applied by _load_state covers what _persist leaves unwritten.
THEOREM CrashLossAlwaysUnderMargin ==
  ASSUME Faultless PROVE Spec => []CrashLossUnderMargin
  <1>1. SafeCursor => CrashLossUnderMargin
    BY DEF SafeCursor, FilesCover, Covers, NothingUnderNewer, CrashLossUnderMargin
  <1>2. QED
    BY <1>1, SafeCursorAlways, PTL

\* Between commands the held link encrypts with the index in use; one that a
\* cancelled command left on an older index has nobody using the newer one
\* beside it (_run_connected).
THEOREM HeldLinkCurrentUnlessCut ==
  ASSUME Faultless PROVE Spec => []HeldLinkUsesAdoptedIv
  <1>1. SafeCursor => HeldLinkUsesAdoptedIv
    <2>1. SUFFICES ASSUME SafeCursor, live, txIv # iv
                   PROVE  cut /\ txIv < iv /\ spent[iv] = 0
      BY DEF HeldLinkUsesAdoptedIv
    <2>2. TypeOK /\ cut
      BY <2>1 DEF SafeCursor, LinkFollowsMemory
    <2>3. txIv < iv
      BY <2>1, <2>2, HeldLink, Indexes
    <2>4. QED
      BY <2>1, <2>2, <2>3, HeldLink, Indexes DEF NothingUnderNewer
  <1>2. QED
    BY <1>1, SafeCursorAlways, PTL

----------------------------------------------------------------------------
(***************************************************************************)
(* What holds whatever fails.                                              *)
(***************************************************************************)

\* The files of a subnet that had one, and the index on disk behind memory's.
FilesKept ==
  /\ TypeOK /\ CursorNeverLost
  /\ up = "migrated" => disk # None
  /\ up # "down" /\ disk # None => disk.iv <= iv

LEMMA FilesKeptInit == Init => FilesKept
  <1> SUFFICES ASSUME Init PROVE FilesKept
    OBVIOUS
  <1>1. [seq |-> InitSeq, iv |-> 0] # None
    <2>1. [seq |-> InitSeq, iv |-> 0] \in Cursor
      BY BoundsAssumption DEF Cursor, Ivs
    <2>2. QED
      BY <2>1, NoneAssumption
  <1>2. QED
    BY <1>1, TypeInit, BoundsAssumption DEF Init, Files, FilesKept, CursorNeverLost

\* A write puts the pair of the memory on disk, or fails.
LEMMA WriteKeeps ==
  ASSUME TypeOK, Write
  PROVE  /\ disk' = disk \/ disk' = [seq |-> seq, iv |-> iv]
         /\ [seq |-> seq, iv |-> iv] # None
         /\ UNCHANGED legacy
  BY NoneAssumption DEF Write, TypeOK, Cursor

LEMMA FilesKeptNext == FilesKept /\ [Next]_vars => FilesKept'
  <1> SUFFICES ASSUME FilesKept, [Next]_vars PROVE FilesKept'
    OBVIOUS
  <1>0. TypeOK /\ TypeOK'
    BY TypeNext DEF FilesKept
  <1> USE DEF FilesKept, CursorNeverLost, files, memory, timer, link
  <1>1. CASE Starting
    <2>1. CASE LoadStored
      BY <1>0, <2>1 DEF LoadStored, Seed, TypeOK, Cursor, Ivs
    <2>2. CASE LoadLegacy
      BY <1>0, <2>2 DEF LoadLegacy, Seed, TypeOK, Cursor, Ivs
    <2>3. CASE RemoveLegacy
      BY <1>0, <2>3 DEF RemoveLegacy
    <2>4. CASE LoadNothing
      BY <1>0, <2>4 DEF LoadNothing
    <2>5. CASE FlushAtStart
      BY <1>0, <2>5, WriteKeeps DEF FlushAtStart, TypeOK, Cursor, Ivs
    <2>6. QED
      BY <1>1, <2>1, <2>2, <2>3, <2>4, <2>5 DEF Starting
  <1>2. CASE Running
    <2>1. ASSUME UNCHANGED <<up, files>>, iv' >= iv PROVE FilesKept'
      <3>1. disk # None => disk.iv \in Int /\ iv \in Int /\ iv' \in Int
        BY <1>0, BoundsAssumption DEF TypeOK, Cursor, Ivs
      <3>2. QED
        BY <1>0, <2>1, <3>1
    <2>2. CASE DelayedWrite
      <3>1. /\ UNCHANGED <<up, iv>> /\ up = "running" /\ legacy' = legacy
            /\ disk' = disk \/ disk' = [seq |-> seq, iv |-> iv]
            /\ [seq |-> seq, iv |-> iv] # None
        BY <1>0, <2>2, WriteKeeps DEF DelayedWrite
      <3>2. disk' # None => disk'.iv <= iv'
        <4>1. CASE disk' = disk
          BY <1>0, <3>1, <4>1
        <4>2. CASE disk' = [seq |-> seq, iv |-> iv]
          BY <1>0, <3>1, <4>2, Indexes
        <4>3. QED
          BY <3>1, <4>1, <4>2
      <3>3. QED
        BY <1>0, <3>1, <3>2
    <2>3. ASSUME NEW how \in Endings, CommandEnd(how) PROVE FilesKept'
      BY <1>0, <2>1, <2>3 DEF CommandEnd, Newer, TypeOK, Ivs
    <2>4. CASE Connect \/ JoinLate \/ Teardown \/ CommandBegin \/ CommandSend
      BY <1>0, <2>1, <2>4
      DEF Connect, JoinLate, Teardown, CommandBegin, CommandSend, TypeOK, Ivs
    <2>5. CASE Beacon \/ AckOutsideCommand
      BY <1>0, <2>1, <2>5 DEF Beacon, AckOutsideCommand, TypeOK, Ivs
    <2>6. QED
      BY <1>2, <2>2, <2>3, <2>4, <2>5 DEF Running
  <1>3. CASE Stop
    <2>1. disk' = disk \/ disk' = [seq |-> seq, iv |-> iv]
      BY <1>3 DEF Stop
    <2>2. [seq |-> seq, iv |-> iv] # None
      BY <1>0, NoneAssumption DEF TypeOK, Cursor
    <2>3. QED
      BY <1>0, <1>3, <2>1, <2>2 DEF Stop
  <1>4. CASE Crash
    BY <1>0, <1>4 DEF Crash
  <1>5. CASE UNCHANGED vars
    BY <1>0, <1>5 DEF vars
  <1>6. QED
    BY <1>1, <1>2, <1>3, <1>4, <1>5 DEF Next

\* The move to the new file loses no cursor, whatever write fails and
\* wherever the process dies (_load_state).
THEOREM CursorIsNeverLost == Spec => []CursorNeverLost
  <1>1. FilesKept => CursorNeverLost
    BY DEF FilesKept
  <1>2. QED
    BY <1>1, FilesKeptInit, FilesKeptNext, PTL DEF Spec

\* A step that leaves FilesKept leaves both indexes where they were or above.
LEMMA IvStep ==
  ASSUME FilesKept, FilesKept', [Next]_vars
  PROVE  /\ up = "running" /\ up' = "running" => iv' >= iv
         /\ disk # None => disk' # None /\ disk'.iv >= disk.iv
  <1>0. TypeOK /\ TypeOK'
    BY DEF FilesKept
  <1>1. \A c \in Cursor : c.iv \in Int
    BY BoundsAssumption DEF Cursor, Ivs
  <1>2. iv \in Int /\ [seq |-> seq, iv |-> iv] \in Cursor
    BY <1>0, BoundsAssumption DEF TypeOK, Cursor, Ivs
  <1>3. ASSUME disk # None,
               disk' = disk \/ (up # "down" /\ disk' = [seq |-> seq, iv |-> iv])
        PROVE  disk' # None /\ disk'.iv >= disk.iv
    BY <1>0, <1>1, <1>2, <1>3, NoneAssumption DEF FilesKept, TypeOK
  <1>4. disk # None =>
          disk' = disk \/ (up # "down" /\ disk' = [seq |-> seq, iv |-> iv])
    BY DEF Next, Starting, Running, LoadStored, LoadLegacy, RemoveLegacy, LoadNothing,
           FlushAtStart, Connect, JoinLate, Teardown, CommandBegin, CommandSend,
           CommandEnd, Beacon, AckOutsideCommand, DelayedWrite, Write, Stop, LockFree,
           Crash, vars, files
  <1>5. ASSUME up = "running", up' = "running" PROVE iv' >= iv
    <2>1. CASE \E how \in Endings : CommandEnd(how)
      BY <1>0, <2>1 DEF CommandEnd, Newer, TypeOK, Ivs
    <2>2. CASE UNCHANGED iv
      BY <1>2, <2>2
    <2>3. CASE Stop \/ Crash \/ Starting
      BY <1>5, <2>3
      DEF Stop, Crash, Starting, LoadStored, LoadLegacy, RemoveLegacy, LoadNothing,
          FlushAtStart
    <2>4. QED
      BY <2>1, <2>2, <2>3
      DEF Next, Running, Connect, JoinLate, Teardown, CommandBegin, CommandSend,
          Beacon, AckOutsideCommand, DelayedWrite, vars, memory
  <1>6. QED
    BY <1>3, <1>4, <1>5

\* A node that missed an IV Update never takes memory or disk back to its
\* index, crashes and failed writes included (_adopt_iv_index).
THEOREM IvNeverGoesBack == Spec => IvNeverRegresses
  <1>1. FilesKept /\ FilesKept' /\ [Next]_vars =>
          [ /\ up = "running" /\ up' = "running" => iv' >= iv
            /\ disk # None => disk' # None /\ disk'.iv >= disk.iv ]_vars
    BY IvStep
  <1>2. QED
    BY <1>1, FilesKeptInit, FilesKeptNext, PTL DEF Spec, IvNeverRegresses
----------------------------------------------------------------------------
(***************************************************************************)
(* The lock and its one controller: SeqCursor implements Session.          *)
(***************************************************************************)

\* A command has a controller, and only a coordinator that runs has either.
LockFits ==
  /\ sent # -1 => live
  /\ live => up = "running"

LEMMA LockStep ==
  ASSUME TypeOK, LockFits, [Next]_vars
  PROVE  LockFits' /\ [Lock!SessionNext]_Lock!sessionVars
  <1> USE DEF LockFits
  <1>1. live \in BOOLEAN /\ sent \in Int
    BY BoundsAssumption DEF TypeOK
  <1>2. ASSUME up' = up, live' = live, (sent' = -1) = (sent = -1)
        PROVE  LockFits' /\ [Lock!SessionNext]_Lock!sessionVars
    BY <1>2 DEF Lock!sessionVars
  <1>3. CASE JoinLate \/ CommandSend \/ Beacon \/ AckOutsideCommand \/ DelayedWrite \/ UNCHANGED vars
    <2>1. up' = up /\ live' = live /\ (sent' = -1) = (sent = -1)
      BY <1>1, <1>3, BoundsAssumption
      DEF JoinLate, CommandSend, Beacon, AckOutsideCommand, DelayedWrite, Emit, LockFree, link, vars
    <2>2. QED
      BY <1>2, <2>1
  <1>4. CASE Connect
    <2>1. up = "running" /\ up' = up /\ ~ live /\ live' = TRUE /\ sent = -1 /\ sent' = -1
      BY <1>4 DEF Connect, LockFree
    <2>2. QED
      BY <2>1 DEF Lock!SessionNext, Lock!Up
  <1>5. CASE CommandBegin
    <2>1. up = "running" /\ up' = up /\ live /\ live' = live /\ sent = -1 /\ sent' = 0
      BY <1>5 DEF CommandBegin, LockFree, link
    <2>2. QED
      BY <2>1 DEF Lock!SessionNext, Lock!Begin
  <1>6. ASSUME NEW how \in Endings, CommandEnd(how)
        PROVE  LockFits' /\ [Lock!SessionNext]_Lock!sessionVars
    <2>1. sent # -1 /\ sent' = -1 /\ up' = up /\ live' \in BOOLEAN /\ (live' => live)
      BY <1>6 DEF CommandEnd
    <2>2. QED
      BY <2>1 DEF Lock!SessionNext, Lock!End
  <1>7. CASE Teardown
    <2>1. up' = up /\ live /\ live' = FALSE /\ sent = -1 /\ sent' = -1
      BY <1>7 DEF Teardown, LockFree
    <2>2. QED
      BY <2>1 DEF Lock!SessionNext, Lock!TearDown
  <1>8. CASE Stop
    <2>1. up = "running" /\ up' = "down" /\ live' = FALSE /\ sent = -1 /\ sent' = -1
      BY <1>8 DEF Stop, Forget, LockFree
    <2>2. QED
      BY <2>1 DEF Lock!SessionNext, Lock!Stop
  <1>9. CASE Crash
    <2>1. up' = "down" /\ live' = FALSE /\ sent' = -1
      BY <1>9 DEF Crash, Forget
    <2>2. QED
      BY <2>1 DEF Lock!SessionNext, Lock!Die
  <1>10. CASE Starting
    <2>1. up # "running" /\ live' = live /\ sent' = sent
      BY <1>10 DEF Starting, LoadStored, LoadLegacy, RemoveLegacy, LoadNothing, FlushAtStart, Seed, link
    <2>2. CASE up' = "running"
      BY <2>1, <2>2 DEF Lock!SessionNext, Lock!Start
    <2>3. CASE up' # "running"
      BY <2>1, <2>3 DEF Lock!sessionVars
    <2>4. QED
      BY <2>2, <2>3
  <1>11. QED
    BY <1>3, <1>4, <1>5, <1>6, <1>7, <1>8, <1>9, <1>10 DEF Next, Running

\* Session is what SeqCursor takes for granted of the lock, with crashes and restarts: a
\* cursor goes to one controller at a time, and what a command reads back at its end is
\* the cursor of the controller it began with (_ensure_connected, _run_connected).
THEOREM CursorIsASession == Spec => ImplementsSession
  <1>1. Init => LockFits /\ Lock!SessionInit
    BY DEF Init, LockFits, Lock!SessionInit
  <1>2. TypeOK /\ LockFits /\ [Next]_vars => LockFits' /\ [Lock!SessionNext]_Lock!sessionVars
    BY LockStep
  <1>3. QED
    BY <1>1, <1>2, TypeCorrect, PTL DEF Spec, ImplementsSession, Lock!SessionSpec
=============================================================================
