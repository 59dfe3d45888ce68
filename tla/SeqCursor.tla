----------------------------- MODULE SeqCursor -----------------------------
(***************************************************************************)
(* The SEQ cursor and the IV Index of one mesh subnet, and the way they    *)
(* travel between the three places that hold them:                         *)
(*                                                                         *)
(*   disk, legacy        the coordinator's Store files, which survive a    *)
(*                       crash (_load_state, _flush_state, _persist);      *)
(*   seq, iv, saved      the coordinator's memory (_seq, _iv_index,        *)
(*                       _saved_seq);                                      *)
(*   txSeq, txIv, beacon the live MeshController, seeded from memory when  *)
(*                       a link comes up and read back after a command.    *)
(*                                                                         *)
(* Every PDU that leaves takes the next number of the live controller      *)
(* (NetworkContext.next_seq).  A node drops a number at or below the       *)
(* highest it accepted under that IV Index, so `spent' remembers, for each *)
(* IV Index, the first number nobody has used yet.                         *)
(***************************************************************************)
EXTENDS Integers

CONSTANTS
  Margin,        \* SEQ_SAFETY_MARGIN
  CmdPdus,       \* most PDUs one command makes the controller send
  WriteWindow,   \* PDUs that may leave before an urgent write is on disk
  SeqLimit,      \* the last 24-bit SEQ, 0xFFFFFF in the code
  MaxIv,         \* bound: the highest IV Index a beacon announces
  InitFiles,     \* of "new", "legacy", "none": which file may hold the cursor
  InitSeq,       \* the cursor that file holds at first
  IdleAcks,      \* bound: Segment Acks sent outside commands, per link
  IvSettles,     \* TRUE when a new IV Index comes only once a cursor above 0
                 \* is stored under the one in use
  WritesFail,    \* TRUE when a write to the Store may fail
  None           \* no file

Ivs == 0..MaxIv
NoBeacon == -1
FilterPdus == 2                  \* _configure_filter: set type, add address
Half == Margin \div 2
Burst == IF CmdPdus < FilterPdus THEN FilterPdus ELSE CmdPdus

Cursor == [seq : Nat, iv : Ivs]

ASSUME BoundsAssumption ==
  /\ Margin \in Nat \ {0, 1}
  /\ CmdPdus \in Nat \ {0}
  /\ WriteWindow \in Nat
  /\ SeqLimit \in Nat
  /\ MaxIv \in Nat
  /\ IdleAcks \in Nat
  /\ InitFiles \subseteq {"new", "legacy", "none"}
  /\ InitSeq \in Nat
  /\ WritesFail \in BOOLEAN /\ IvSettles \in BOOLEAN

ASSUME NoneAssumption == None \notin Cursor

VARIABLES
  up,       \* "down", "migrated", "loaded" or "running"
  disk,     \* the Store keyed on the network
  legacy,   \* the Store keyed on the entry, up to v0.9.0
  seq, iv, saved,
  write,    \* the delayed write: "none", "debounced" or "urgent"
  window,   \* PDUs sent since the urgent write was asked for
  live,     \* TRUE while a controller is held
  txSeq, txIv, beacon,
  cut,      \* history: a cancelled command adopted an index and left this
            \* controller on the one before
  sent,     \* PDUs of the command that holds the lock; -1 when none does
  acks,     \* Segment Acks this link sent outside commands
  spent     \* history: [IV Index -> first number not used under it]

files  == <<disk, legacy>>
memory == <<seq, iv, saved>>
timer  == <<write, window>>
link   == <<live, txSeq, txIv, beacon, cut>>
vars   == <<up, files, memory, timer, link, sent, acks, spent>>

Stages == {"down", "migrated", "loaded", "running"}

TypeOK ==
  /\ up \in Stages
  /\ disk \in Cursor \cup {None} /\ legacy \in Cursor \cup {None}
  /\ seq \in Nat /\ iv \in Ivs /\ saved \in Nat
  /\ write \in {"none", "debounced", "urgent"} /\ window \in 0..WriteWindow
  /\ live \in BOOLEAN /\ txSeq \in Nat /\ txIv \in Ivs
  /\ beacon \in Ivs \cup {NoBeacon} /\ cut \in BOOLEAN
  /\ sent \in -1..CmdPdus
  /\ acks \in 0..IdleAcks
  /\ spent \in [Ivs -> Nat]

(***************************************************************************)
(* Spending numbers.  next_seq refuses once the 24 bits are used up.       *)
(***************************************************************************)

\* The cursor after up to n PDUs from s: what is refused spends nothing.
Advance(s, n) ==
  IF s + n <= SeqLimit + 1 THEN s + n
  ELSE IF s <= SeqLimit THEN SeqLimit + 1 ELSE s

\* Everything below s is used under IV Index i.
SpendUpTo(i, s) ==
  spent' = [spent EXCEPT ![i] = IF @ < s THEN s ELSE @]

\* An urgent write is asked of the Store with no delay: WriteWindow bounds
\* how many PDUs the radio gets out before the file is written.
WindowAllows(n) == write = "urgent" => window + n <= WriteWindow
CountInWindow(n) == window' = IF write = "urgent" THEN window + n ELSE window

\* The live controller sends n PDUs.
Emit(n) ==
  /\ live
  /\ WindowAllows(n)
  /\ txSeq' = Advance(txSeq, n)
  /\ SpendUpTo(txIv, txSeq')

(***************************************************************************)
(* _persist: ask for a debounced write of cursor s, or for one at once     *)
(* when s is half a margin ahead of the disk or behind it.  A write asked   *)
(* for at once is under way, and a later call does not put it off.         *)
(***************************************************************************)
Urgent(s) == ~ (0 <= s - saved /\ s - saved < Half)

\* Slip: the debounce is taken for every write.
PersistLazily(s) == write' = "debounced"

Persist(s) == write' = IF write = "urgent" \/ Urgent(s) THEN "urgent" ELSE "debounced"

\* The PDUs in flight with an urgent request count from the first request.
PersistAfter(s, n) ==
  /\ Persist(s)
  /\ window' = IF write = "urgent" THEN window + n ELSE 0

----------------------------------------------------------------------------
(***************************************************************************)
(* Starting: _load_state, then _flush_state.                               *)
(***************************************************************************)

Forget ==   \* what dies with the process
  /\ seq' = 0 /\ iv' = 0 /\ saved' = 0
  /\ write' = "none" /\ window' = 0
  /\ live' = FALSE /\ txSeq' = 0 /\ txIv' = 0 /\ beacon' = NoBeacon
  /\ cut' = FALSE /\ sent' = -1 /\ acks' = 0

\* The margin is applied here, once per start.  The bound on the stored
\* cursor only stops restarts of a subnet whose numbers are used up.
Seed(cursor) ==
  /\ cursor.seq <= SeqLimit
  /\ seq' = cursor.seq + Margin
  /\ iv' = cursor.iv
  /\ UNCHANGED <<saved, timer, link, sent, acks, spent>>

LoadStored ==
  /\ up = "down" /\ disk # None
  /\ Seed(disk)
  /\ up' = "loaded"
  /\ UNCHANGED files

\* Slip: the old file goes first.
LoadLegacyAfterRemoval ==
  /\ up = "down" /\ disk = None /\ legacy # None
  /\ Seed(legacy)
  /\ up' = "loaded" /\ legacy' = None
  /\ UNCHANGED disk

\* The cursor moves to its new file before the old one goes.
LoadLegacy ==
  /\ up = "down" /\ disk = None /\ legacy # None
  /\ Seed(legacy)
  /\ \/ disk' = legacy /\ up' = "migrated"
     \/ WritesFail /\ up' = "loaded" /\ UNCHANGED disk
  /\ UNCHANGED legacy

RemoveLegacy ==
  /\ up = "migrated"
  /\ legacy' = None
  /\ up' = "loaded"
  /\ UNCHANGED <<disk, memory, timer, link, sent, acks, spent>>

\* A first installation: SEQ 0 under the IV Index of the export.
LoadNothing ==
  /\ up = "down" /\ disk = None /\ legacy = None
  /\ seq' = 0 /\ iv' = 0
  /\ up' = "loaded"
  /\ UNCHANGED <<files, saved, timer, link, sent, acks, spent>>

\* _state_to_save notes the value as saved before the write is known good.
Write ==
  /\ saved' = seq
  /\ write' = "none" /\ window' = 0
  /\ \/ disk' = [seq |-> seq, iv |-> iv]
     \/ WritesFail /\ UNCHANGED disk
  /\ UNCHANGED legacy

FlushAtStart ==
  /\ up = "loaded"
  /\ Write
  /\ up' = "running"
  /\ UNCHANGED <<seq, iv, link, sent, acks, spent>>

(***************************************************************************)
(* Running.  Connect, JoinLate, Command* and Teardown happen under the     *)
(* coordinator's lock: sent # -1 says a command holds it.                  *)
(***************************************************************************)
LockFree == up = "running" /\ sent = -1

\* Slip: the two PDUs of the filter setup are not read back.
ConnectForgetting ==
  /\ LockFree /\ ~ live /\ write # "urgent"
  /\ live' = TRUE
  /\ txIv' = iv /\ beacon' = NoBeacon /\ cut' = FALSE
  /\ txSeq' = Advance(seq, FilterPdus)
  /\ SpendUpTo(iv, txSeq')
  /\ acks' = 0
  /\ UNCHANGED <<up, files, memory, timer, sent>>

\* _ensure_connected: a fresh controller takes over the cursor, start()
\* claims the proxy filter, and memory follows at once.  A GATT connection
\* outlasts a write asked for now, so none is in flight.
Connect ==
  /\ LockFree /\ ~ live /\ write # "urgent"
  /\ live' = TRUE
  /\ txIv' = iv /\ beacon' = NoBeacon /\ cut' = FALSE
  /\ txSeq' = Advance(seq, FilterPdus)
  /\ seq' = txSeq'
  /\ SpendUpTo(iv, txSeq')
  /\ PersistAfter(seq', 0)
  /\ acks' = 0
  /\ UNCHANGED <<up, files, iv, saved, sent>>

\* _async_join_late: refresh_proxy_filter on the links held now.
JoinLate ==
  /\ LockFree
  /\ Emit(FilterPdus)
  /\ seq' = txSeq'
  /\ PersistAfter(seq', FilterPdus)
  /\ UNCHANGED <<up, files, iv, saved, live, txIv, beacon, cut, sent, acks>>

\* _handle_beacon: the last authenticated beacon, from whichever node.
Beacon ==
  /\ live
  /\ \E announced \in Ivs :
       /\ IvSettles /\ announced > iv =>
            disk # None /\ disk.iv = iv /\ disk.seq > 0
       /\ beacon' = announced
  /\ UNCHANGED <<up, files, memory, timer, live, txSeq, txIv, cut, sent, acks, spent>>

CommandBegin ==
  /\ LockFree /\ live
  /\ sent' = 0
  /\ UNCHANGED <<up, files, memory, timer, link, acks, spent>>

\* One PDU of the command, or a Segment Ack that answers it.
CommandSend ==
  /\ sent \in 0..CmdPdus - 1
  /\ Emit(1)
  /\ CountInWindow(1)
  /\ sent' = sent + 1
  /\ UNCHANGED <<up, files, memory, write, live, txIv, beacon, cut, acks>>

\* Slip: any index but ours is adopted, the absent beacon's included.
Different == beacon # iv

Newer == beacon > iv

\* How a call ends: it returns, it raises, or its caller is cancelled, which
\* no handler catches (Home Assistant restarts a script in the middle of it).
Endings == {"done", "failed", "cancelled"}

\* Slip: the link outlives the index it encrypts with.
CommandEndKeepingLink(how) ==
  /\ sent # -1
  /\ seq' = IF Newer THEN 0 ELSE txSeq
  /\ iv' = IF Newer THEN beacon ELSE iv
  /\ PersistAfter(seq', 0)
  /\ live' = (live /\ how # "failed")
  /\ cut' = (cut \/ (Newer /\ how = "cancelled"))
  /\ sent' = -1
  /\ UNCHANGED <<up, files, saved, txSeq, txIv, beacon, acks, spent>>

\* The finally block of _run_connected: read the cursor back, adopt a newer
\* IV Index (which restarts the cursor), and only then persist the pair.
\* The link goes when the index changed, or when the command failed on it;
\* a cancelled command leaves after the finally block, with the link up.
CommandEnd(how) ==
  /\ sent # -1
  /\ seq' = IF Newer THEN 0 ELSE txSeq
  /\ iv' = IF Newer THEN beacon ELSE iv
  /\ PersistAfter(seq', 0)
  /\ live' = (live /\ how # "failed" /\ (Newer => how = "cancelled"))
  /\ cut' = (cut \/ (Newer /\ how = "cancelled"))
  /\ sent' = -1
  /\ UNCHANGED <<up, files, saved, txSeq, txIv, beacon, acks, spent>>

\* _send_segment_ack, called by the receive path with no command running:
\* a late or repeated segment of an answer addressed to us.
AckOutsideCommand ==
  /\ LockFree /\ acks < IdleAcks
  /\ Emit(1)
  /\ CountInWindow(1)
  /\ acks' = acks + 1
  /\ UNCHANGED <<up, files, memory, write, live, txIv, beacon, cut, sent>>

\* _teardown from the idle timer, a probe, a dropped or a dead link: the
\* controller goes and its cursor is not read back.
Teardown ==
  /\ LockFree /\ live
  /\ live' = FALSE
  /\ UNCHANGED <<up, files, memory, timer, txSeq, txIv, beacon, cut, sent, acks, spent>>

\* The Store's delayed write.
DelayedWrite ==
  /\ up = "running" /\ write # "none"
  /\ Write
  /\ UNCHANGED <<up, seq, iv, link, sent, acks, spent>>

\* async_stop: the link goes, then memory is flushed.
Stop ==
  /\ LockFree
  /\ \/ disk' = [seq |-> seq, iv |-> iv]
     \/ WritesFail /\ UNCHANGED disk
  /\ Forget
  /\ up' = "down"
  /\ UNCHANGED <<legacy, spent>>

Crash ==
  /\ up # "down"
  /\ Forget
  /\ up' = "down"
  /\ UNCHANGED <<files, spent>>

----------------------------------------------------------------------------
Files(file) ==
  LET stored == [seq |-> InitSeq, iv |-> 0] IN
  /\ disk = IF file = "new" THEN stored ELSE None
  /\ legacy = IF file = "legacy" THEN stored ELSE None
  /\ spent = [i \in Ivs |-> IF i = 0 /\ file # "none" THEN InitSeq ELSE 0]

Init ==
  /\ up = "down"
  /\ \E file \in InitFiles : Files(file)
  /\ seq = 0 /\ iv = 0 /\ saved = 0
  /\ write = "none" /\ window = 0
  /\ live = FALSE /\ txSeq = 0 /\ txIv = 0 /\ beacon = NoBeacon
  /\ cut = FALSE /\ sent = -1 /\ acks = 0

Starting == LoadStored \/ LoadLegacy \/ RemoveLegacy \/ LoadNothing \/ FlushAtStart

Running ==
  \/ Connect \/ JoinLate \/ Teardown
  \/ CommandBegin \/ CommandSend \/ \E how \in Endings : CommandEnd(how)
  \/ Beacon \/ AckOutsideCommand
  \/ DelayedWrite

Next == Starting \/ Running \/ Stop \/ Crash

Spec == Init /\ [][Next]_vars

----------------------------------------------------------------------------
(***************************************************************************)
(* Properties.                                                             *)
(***************************************************************************)

\* No number is used twice under one IV Index: the next one to go out, by the
\* live controller or by the one the memory would start, is above everything
\* an earlier command, controller or process sent.
NextSeq == IF live THEN txSeq ELSE seq
NextIv == IF live THEN txIv ELSE iv
NoSeqReuse == up = "running" => spent[NextIv] <= NextSeq

\* What a crash loses stays under the margin: a start from the file on disk
\* lands on a number nobody has used, and nothing was ever sent under an IV
\* Index the file does not know of.
CrashLossUnderMargin ==
  disk # None =>
    /\ spent[disk.iv] <= disk.seq + Margin
    /\ \A i \in Ivs : i > disk.iv => spent[i] = 0

\* Between commands the link that is held encrypts with the index in use, or it
\* is one a cancelled command left on an older index: then nobody has sent
\* anything under the index in use, which a fresh controller starts at.
HeldLinkUsesAdoptedIv ==
  live /\ sent = -1 =>
    \/ txIv = iv
    \/ cut /\ txIv < iv /\ spent[iv] = 0

\* A node that missed an IV Update cannot take us back to its index: within
\* one process the index only grows, and so does the one on disk for ever.
IvNeverRegresses ==
  [][ /\ up = "running" /\ up' = "running" => iv' >= iv
      /\ disk # None => disk' # None /\ disk'.iv >= disk.iv ]_vars

\* Moving the cursor out of its old file never loses it, whatever write
\* fails and wherever the process dies.
CursorNeverLost == "none" \notin InitFiles => disk # None \/ legacy # None

\* The lock as the others see it: a cursor goes to the one controller that is held, and
\* what a command reads back is of the controller it began with.
Lock == INSTANCE Session WITH
  held <- live, calling <- sent # -1, stopped <- up # "running", Restarts <- TRUE

ImplementsSession == Lock!SessionSpec

----------------------------------------------------------------------------
(***************************************************************************)
(* What the guarantees rest on, and the inductive invariant behind them.   *)
(***************************************************************************)

\* Every write lands, nothing is sent outside the lock, the IV Index settles,
\* and the margin covers what the debounce leaves behind, one command and
\* the window of an urgent write.
Faultless ==
  /\ ~ WritesFail /\ IdleAcks = 0 /\ IvSettles
  /\ Half - 1 + Burst + WriteWindow <= Margin

NothingUnderNewer(i) == \A j \in Ivs : j > i => spent[j] = 0

\* A start from file c lands above everything sent.
Covers(c) == spent[c.iv] <= c.seq + Margin /\ NothingUnderNewer(c.iv)

FilesCover ==
  /\ disk # None => Covers(disk)
  /\ disk = None /\ legacy # None => Covers(legacy)
  /\ disk = None /\ legacy = None => \A i \in Ivs : spent[i] = 0

\* Without a controller the memory is what the next one starts from.
MemoryCovers ==
  up # "down" /\ ~ live => spent[iv] <= seq /\ NothingUnderNewer(iv)

LinkFollowsMemory ==
  /\ live => /\ up = "running" /\ txIv <= iv /\ NothingUnderNewer(txIv)
             /\ spent[txIv] <= txSeq /\ seq <= txSeq
             /\ disk # None => txIv <= disk.iv
             /\ beacon > iv => saved > 0 /\ disk # None /\ disk.iv = iv
             /\ txIv # iv => cut
             /\ txIv = iv /\ sent = -1 => txSeq = seq
             /\ txIv = iv /\ sent # -1 => txSeq <= seq + sent
  /\ sent # -1 => live
  /\ acks = 0

\* While an urgent write is under way the live controller stays within reach
\* of the file it replaces.
UrgentInReach ==
  write = "urgent" /\ live /\ txIv = disk.iv =>
    txSeq <= saved + Half - 1 + Burst + window

\* How far the air may be ahead of the file, in each state of the write.
WriteKeepsUp ==
  up = "running" =>
    /\ disk # None /\ disk.iv <= iv /\ saved = disk.seq
    /\ disk.iv = iv => saved <= seq
    /\ disk.iv = iv /\ write # "urgent" => seq - saved < Half
    /\ disk.iv < iv => write = "urgent" /\ (live => txIv < iv)
    /\ UrgentInReach

\* Between its stages a start touches nothing but the files.
StartIsQuiet ==
  /\ up # "running" => ~ live /\ sent = -1 /\ write = "none"
  /\ up \in {"migrated", "loaded"} =>
       /\ disk # None => disk.iv = iv
       /\ disk = None => legacy = None
  /\ up = "migrated" => disk # None

SafeCursor ==
  /\ TypeOK
  /\ FilesCover /\ MemoryCovers /\ LinkFollowsMemory
  /\ WriteKeepsUp /\ StartIsQuiet
=============================================================================
