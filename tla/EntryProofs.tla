----------------------------- MODULE EntryProofs -----------------------------
(***************************************************************************)
(* The safety of Entry, for every number of entries, every set of exports  *)
(* and everything the user may enter; and of the lookup of Discovery, for  *)
(* all nodes, scanners and intervals.  The two share no variable.          *)
(***************************************************************************)
EXTENDS Entry, Discovery, ListLemmas

----------------------------------------------------------------------------
(***************************************************************************)
(* The inductive invariant.                                                *)
(***************************************************************************)

IsCoordinator(c) ==
  /\ DOMAIN c = {"doc", "src", "key", "inverted", "seq"}
  /\ c.doc \in Usable /\ c.seq \in Nat /\ c.inverted \in SUBSET LampAddresses

NetworksOK ==
  /\ saved \in [Names \cup Entries -> Nat] /\ heard \in [NetKeys -> Nat]
  /\ named \in [NetKeys -> SUBSET Names] /\ crossed \in SUBSET Names

TypeOK ==
  /\ entry \in [Entries -> StoredEntries \cup {None}]
  /\ stage \in [Entries -> {"none", "pending", "loaded", "reload", "stuck", "error"}]
  /\ DOMAIN coord = Entries /\ \A e \in Entries : coord[e] # None => IsCoordinator(coord[e])
  /\ form \in [Entries -> {None} \cup SUBSET LampAddresses]
  /\ NetworksOK
  /\ choice \in [Entries -> [LampAddresses -> {"none", "on", "off"}]]
  /\ seeded \in [Entries -> SUBSET LampAddresses]

\* An entry's export has its id, which no other entry has.
OneEntryPerId ==
  \A e \in Entries :
    /\ entry[e] = None <=> stage[e] = "none"
    /\ entry[e] # None /\ entry[e].doc \in Usable => IsIdOf(entry[e].uid, entry[e].doc)
    /\ \A o \in Entries \ {e} : entry[e] # None /\ entry[o] # None => entry[e].uid # entry[o].uid

\* An entry that waits for set-up, or whose set-up failed, has no coordinator.
StagesFollow == \A e \in Entries : stage[e] \in {"pending", "error"} => coord[e] = None

\* While nothing is stored of the mirrored lamps, nothing was said of them.
NothingSaid ==
  \A e \in Entries :
    entry[e] = None \/ entry[e].inverted = Absent =>
      seeded[e] = {} /\ \A a \in LampAddresses : choice[e][a] = "none"

\* An open form lists the lamps of the export that is stored.
FormsFollow ==
  \A e \in Entries :
    form[e] # None => entry[e] # None /\ (FormsWait => form[e] = CtlLamps(entry[e].doc))

\* The names a subnet was driven under, and the files two coordinators share, are noted.
NamesNoted ==
  /\ \A e \in Running : Name(coord[e].doc) \in named[NetKey(coord[e].doc)]
  /\ \A e, o \in Running :
       e # o /\ Name(coord[e].doc) = Name(coord[o].doc) => Name(coord[e].doc) \in crossed

\* What the subnets of one name heard is in its file, and what its file holds its
\* coordinator starts from, unless two have kept it at once.
FileAhead ==
  /\ \A k \in NetKeys : named[k] = {} => heard[k] = 0
  /\ \A k \in NetKeys, n \in Names \ crossed : named[k] = {n} => saved[n] >= heard[k]
  /\ \A e \in Running :
       Name(coord[e].doc) \notin crossed => coord[e].seq >= saved[Name(coord[e].doc)]

\* What the coordinators that run are bound to.
Driving == NamesNoted /\ FileAhead /\ CursorAhead /\ SourceIsNobodys /\ KeyTheLampsKnow

\* How the entries, their stages and their coordinators go together.
Stages == OneEntryPerId /\ StagesFollow

IInv ==
  /\ TypeOK /\ Stages /\ NothingSaid /\ FormsFollow /\ Driving
  /\ FormsWait => EveryMirrorIsAChoice

----------------------------------------------------------------------------
(***************************************************************************)
(* What is derived from an export.                                         *)
(***************************************************************************)

LEMMA UsableNetworks ==
  /\ Usable \subseteq Documents
  /\ \A d \in Usable : NetId(d) \in Networks /\ NetKey(d) \in NetKeys /\ Name(d) \in Names
BY DEF Usable, Net, Networks, NetKeys, Names

LEMMA LampsOfExports ==
  /\ \A d \in Documents : CtlLamps(d) \subseteq LampAddresses
  /\ \A d \in Usable : OldRule(d) \subseteq LampAddresses
<1>1. \A d \in Documents : CtlLamps(d) \subseteq LampAddresses
  BY DEF LampAddresses
<1>2. \A d \in Usable : OldRule(d) \subseteq CtlLamps(d)
  BY DEF OldRule, CtlLamps
<1>3. QED
  BY <1>1, <1>2, UsableNetworks

\* _resolve_src_addr never gives the address of an element.
LEMMA ResolvedIsFree ==
  ASSUME NEW net, NEW configured, ResolveSrcAddr(net, configured) # NoAddress
  PROVE  ResolveSrcAddr(net, configured) \in Unicasts \ UnicastAddresses(net)
<1> DEFINE unused == 1 .. UnicastMax \ UnicastAddresses(net)
<1>1. CASE configured \in Unicasts \ UnicastAddresses(net)
  BY <1>1 DEF ResolveSrcAddr
<1>2. CASE configured \notin Unicasts \ UnicastAddresses(net)
  <2>1. ResolveSrcAddr(net, configured) = FreeUnicast(net, UnicastMax)
    BY <1>2 DEF ResolveSrcAddr
  <2>2. unused # {} /\ FreeUnicast(net, UnicastMax) = Max(unused)
    BY <2>1 DEF FreeUnicast
  <2>3. unused \in SUBSET (1 .. UnicastMax) /\ UnicastMax \in Nat
    BY UnicastAssumption
  <2>4. Max(unused) \in unused
    <3> HIDE DEF unused
    <3>1. QED
      BY <2>2, <2>3, MaxIsGreatest
  <2>5. QED
    BY <2>1, <2>2, <2>4 DEF Unicasts
<1>3. QED
  BY <1>1, <1>2

\* A set of numbers, bounded or not, has a least element.
LEMMA LeastNumber ==
  ASSUME NEW I \in SUBSET Nat, I # {}
  PROVE  \E i \in I : \A j \in I : i <= j
<1>1. PICK k \in I : TRUE
  OBVIOUS
<1> DEFINE J == {i + 1 : i \in {x \in I : x <= k}}
<1>2. J \in SUBSET (1 .. k + 1) /\ J # {} /\ k + 1 \in Nat
  <2>1. k \in Nat
    BY <1>1
  <2>2. k + 1 \in Nat /\ k <= k
    BY <2>1
  <2>3. \A i \in Nat : i <= k => i + 1 \in 1 .. k + 1
    BY <2>1
  <2>4. k + 1 \in J
    BY <1>1, <2>2
  <2>5. J \subseteq 1 .. k + 1
    BY <2>3
  <2>6. QED
    BY <2>2, <2>4, <2>5, Zenon
<1>3. Min(J) \in J /\ \A j \in J : Min(J) <= j
  <2> HIDE DEF J
  <2>1. QED
    BY <1>2, MinIsLeast
<1>4. PICK i \in I : i <= k /\ Min(J) = i + 1
  BY <1>3
<1>5. \A j \in I : i <= j
  <2>1. SUFFICES ASSUME NEW j \in I PROVE i <= j
    OBVIOUS
  <2>2. CASE j <= k
    <3>1. j + 1 \in J
      BY <2>2
    <3>2. i + 1 <= j + 1
      BY <3>1, <1>3, <1>4
    <3>3. QED
      BY <3>2
  <2>3. CASE j > k
    <3>1. i <= k /\ i \in Nat /\ j \in Nat
      BY <1>4
    <3>2. QED
      BY <3>1, <2>3
  <2>4. QED
    BY <2>2, <2>3
<1>6. QED
  BY <1>5

\* app_key_for_models picks, of the keys that are held, one that most models are
\* bound to.
LEMMA ChosenKeyIsMostBound ==
  ASSUME NEW net, NEW ids, IsFiniteSet(BoundAt(net, ids)), Held(net) \subseteq Nat, 1 \in DOMAIN net.appKeys
  PROVE  /\ AppKeyForModels(net, ids) \in Held(net)
         /\ \A i \in Held(net) : Bindings(net, ids, i) <= Bindings(net, ids, AppKeyForModels(net, ids))
<1> DEFINE B(i) == Bindings(net, ids, i)  N == Cardinality(BoundAt(net, ids))
           I == BoundAppKeyIndexes(net, ids) \cap Held(net)
<1>1. \A i : B(i) \in 0 .. N /\ N \in Nat
  <2>1. SUFFICES ASSUME NEW i PROVE B(i) \in 0 .. N /\ N \in Nat
    OBVIOUS
  <2> DEFINE P == {p \in BoundAt(net, ids) : IndexBound(net, p) = i}
  <2>2. P \subseteq BoundAt(net, ids)
    OBVIOUS
  <2>3. IsFiniteSet(P) /\ Cardinality(P) <= N
    BY <2>2, FS_Subset
  <2>4. Cardinality(P) \in Nat /\ N \in Nat
    BY <2>3, FS_CardinalityType
  <2>5. QED
    BY <2>3, <2>4 DEF Bindings
<1>2. \A i \in Held(net) : i \notin I => B(i) = 0
  <2>1. SUFFICES ASSUME NEW i \in Held(net), i \notin I PROVE B(i) = 0
    OBVIOUS
  <2>2. {p \in BoundAt(net, ids) : IndexBound(net, p) = i} = {}
    BY <2>1 DEF BoundAppKeyIndexes
  <2>3. QED
    BY <2>2, FS_EmptySet DEF Bindings
<1>3. AppKeyForModels(net, ids) = IF I = {} THEN net.appKeys[1].index ELSE MostBound(net, ids, I)
  BY DEF AppKeyForModels
<1> HIDE DEF I, B, N
<1>4. CASE I = {}
  <2>1. net.appKeys[1].index \in Held(net)
    BY DEF Held
  <2>2. SUFFICES ASSUME NEW i \in Held(net) PROVE B(i) <= B(net.appKeys[1].index)
    BY <1>3, <1>4, <2>1 DEF B
  <2>3. QED
    BY <1>1, <1>2, <1>4
<1>5. CASE I # {}
  <2> DEFINE Best(i) == \A j \in I : B(i) > B(j) \/ (B(i) = B(j) /\ i <= j)
  <2>1. \E i \in I : Best(i)
    <3> DEFINE C == {B(i) + 1 : i \in I}
    <3>1. C \in SUBSET (1 .. N + 1) /\ C # {} /\ N + 1 \in Nat
      BY <1>1, <1>5
    <3>2. Max(C) \in C /\ \A x \in C : Max(C) >= x
      <4> HIDE DEF C
      <4>1. QED
        BY <3>1, MaxIsGreatest
    <3>3. PICK m \in I : Max(C) = B(m) + 1
      BY <3>2
    <3>4. \A j \in I : B(m) >= B(j)
      <4>1. SUFFICES ASSUME NEW j \in I PROVE B(m) >= B(j)
        OBVIOUS
      <4>2. B(j) + 1 \in C
        OBVIOUS
      <4>3. B(m) + 1 >= B(j) + 1
        BY <4>2, <3>2, <3>3
      <4>4. QED
        BY <4>3, <1>1
    <3> DEFINE J == {i \in I : B(i) = B(m)}
    <3>5. J \in SUBSET Nat /\ J # {}
      BY DEF I
    <3>6. PICK i \in J : \A j \in J : i <= j
      <4> HIDE DEF J
      <4>1. QED
        BY <3>5, LeastNumber
    <3>7. Best(i)
      <4>1. SUFFICES ASSUME NEW j \in I PROVE B(i) > B(j) \/ (B(i) = B(j) /\ i <= j)
        OBVIOUS
      <4>2. B(i) = B(m) /\ B(m) >= B(j) /\ B(j) \in Nat /\ B(m) \in Nat
        BY <3>4, <1>1
      <4>3. B(j) = B(m) => i <= j
        BY <3>6
      <4>4. QED
        BY <4>2, <4>3
    <3>8. QED
      BY <3>7
  <2>2. MostBound(net, ids, I) = CHOOSE i \in I : Best(i)
    BY DEF MostBound, B
  <2>3. MostBound(net, ids, I) \in I /\ Best(MostBound(net, ids, I))
    <3> HIDE DEF Best
    <3>1. QED
      BY <2>1, <2>2
  <2>4. SUFFICES ASSUME NEW i \in Held(net) PROVE B(i) <= B(MostBound(net, ids, I))
    <3>1. MostBound(net, ids, I) \in Held(net)
      BY <2>3 DEF I
    <3>2. QED
      BY <1>3, <1>5, <3>1 DEF B
  <2>5. B(i) \in Nat /\ B(MostBound(net, ids, I)) \in Nat
    BY <1>1
  <2>6. QED
    BY <2>3, <2>5, <1>2
<1>6. QED
  BY <1>4, <1>5

----------------------------------------------------------------------------
(***************************************************************************)
(* The steps.                                                              *)
(***************************************************************************)

\* Where nothing is written or sent and no coordinator is new, those that are left
\* drive as before.
LEMMA FewerDrive ==
  ASSUME IInv, UNCHANGED <<saved, networks>>, \A e \in Entries : coord'[e] # None => coord'[e] = coord[e]
  PROVE  Driving'
<1>1. \A e \in Running' : e \in Running /\ coord'[e] = coord[e]
  BY DEF Running
<1>2. NamesNoted' /\ FileAhead' /\ CursorAhead'
  BY <1>1 DEF IInv, Driving, NamesNoted, FileAhead, CursorAhead, OneBook, networks
<1>3. SourceIsNobodys' /\ KeyTheLampsKnow'
  BY DEF IInv, Driving, SourceIsNobodys, KeyTheLampsKnow
<1>4. QED
  BY <1>2, <1>3 DEF Driving

\* Alone with a file that is ahead of its subnet, a coordinator is ahead too.
LEMMA CursorFollows == TypeOK /\ NamesNoted /\ FileAhead => CursorAhead
<1>1. SUFFICES ASSUME TypeOK, NamesNoted, FileAhead, NEW e \in Running, OneBook(coord[e].doc)
               PROVE  coord[e].seq >= heard[NetKey(coord[e].doc)]
  BY DEF CursorAhead
<1> DEFINE n == Name(coord[e].doc)  k == NetKey(coord[e].doc)
<1>2. e \in Entries /\ IsCoordinator(coord[e])
  <2>1. e \in Entries /\ coord[e] # None
    BY DEF Running
  <2>2. QED
    BY <1>1, <2>1 DEF TypeOK
<1>3. /\ n \in Names \ crossed /\ k \in NetKeys /\ named[k] = {n}
      /\ saved[n] \in Nat /\ heard[k] \in Nat /\ coord[e].seq \in Nat
  BY <1>1, <1>2, UsableNetworks DEF OneBook, IsCoordinator, TypeOK, NetworksOK
<1>4. saved[n] >= heard[k] /\ coord[e].seq >= saved[n]
  BY <1>1, <1>3 DEF FileAhead
<1>5. QED
  BY <1>3, <1>4

LEMMA InitHolds == Init => IInv
<1> SUFFICES ASSUME Init PROVE IInv
  OBVIOUS
<1>1. entry \in [Entries -> {None} \cup {OldEntry(o) : o \in OldEntries}]
  BY DEF Init
<1>2. \A o \in OldEntries :
        /\ OldEntry(o) \in StoredEntries /\ OldEntry(o) # None /\ OldEntry(o).inverted = Absent
        /\ OldEntry(o).doc \in Usable => IsIdOf(OldEntry(o).uid, OldEntry(o).doc)
  BY StorageAssumption DEF OldEntry, StoredEntries
<1>3. /\ entry \in [Entries -> StoredEntries \cup {None}]
      /\ \A e \in Entries : entry[e] # None =>
           /\ entry[e].inverted = Absent
           /\ entry[e].doc \in Usable => IsIdOf(entry[e].uid, entry[e].doc)
  <2> HIDE DEF OldEntry
  <2>1. QED
    BY <1>1, <1>2
<1>4. TypeOK
  BY <1>3 DEF Init, TypeOK, NetworksOK
<1>5. Stages
  BY <1>3 DEF Init, Stages, OneEntryPerId, StagesFollow
<1>6. NothingSaid /\ FormsFollow /\ EveryMirrorIsAChoice
  BY <1>3 DEF Init, NothingSaid, FormsFollow, EveryMirrorIsAChoice
<1>7. Driving
  <2>1. Running = {} /\ \A e \in Entries : coord[e] = None
    BY DEF Init, Running
  <2>2. NamesNoted /\ CursorAhead /\ SourceIsNobodys /\ KeyTheLampsKnow
    BY <2>1 DEF NamesNoted, CursorAhead, SourceIsNobodys, KeyTheLampsKnow
  <2>3. FileAhead
    BY <2>1 DEF Init, FileAhead
  <2>4. QED
    BY <2>2, <2>3 DEF Driving
<1>8. QED
  BY <1>4, <1>5, <1>6, <1>7 DEF IInv

LEMMA ImportKeeps ==
  ASSUME IInv, NEW e \in Entries, NEW d \in Documents, ImportNetwork(e, d)
  PROVE  IInv'
<1> DEFINE r == [doc |-> d, uid |-> NetId(d), inverted |-> {}, src |-> 0]
<1>1. /\ entry[e] = None /\ coord[e] = None /\ d \in Usable /\ entry' = [entry EXCEPT ![e] = r]
      /\ stage' = [stage EXCEPT ![e] = "pending"]
      /\ UNCHANGED <<coord, form, saved, networks, choice, seeded>>
      /\ \A o \in Entries : entry[o] # None => entry[o].uid # NetId(d)
  BY DEF ImportNetwork, history
<1>2. /\ r \in StoredEntries /\ r # None /\ r.inverted = {} /\ r.inverted # Absent
      /\ r.uid = NetId(d) /\ r.doc = d
  <2>1. r \in StoredEntries /\ {} # Absent
    BY <1>1, UsableNetworks, StorageAssumption DEF StoredEntries
  <2>2. QED
    BY <2>1, StorageAssumption
<1> HIDE DEF r
<1>3. TypeOK'
  BY <1>1, <1>2 DEF IInv, TypeOK, NetworksOK, networks
<1>4. Stages'
  <2>1. IsIdOf(NetId(d), d)
    BY DEF IsIdOf
  <2>2. QED
    BY <1>1, <1>2, <2>1 DEF IInv, TypeOK, Stages, OneEntryPerId, StagesFollow
<1>5. NothingSaid' /\ FormsFollow'
  BY <1>1, <1>2 DEF IInv, TypeOK, NothingSaid, FormsFollow
<1>6. EveryMirrorIsAChoice' \/ ~ FormsWait
  BY <1>1, <1>2 DEF IInv, TypeOK, NothingSaid, EveryMirrorIsAChoice
<1>7. Driving'
  BY <1>1, FewerDrive
<1>8. QED
  BY <1>3, <1>4, <1>5, <1>6, <1>7 DEF IInv

\* A reload is of an entry that is there, with a coordinator as before.
LEMMA ReloadedIs ==
  ASSUME IInv, NEW e \in Entries
  PROVE  /\ Reloaded(e) \in [Entries -> {"none", "pending", "loaded", "reload", "stuck", "error"}]
         /\ \A x \in Entries :
              /\ Reloaded(e)[x] = "none" <=> stage[x] = "none"
              /\ Reloaded(e)[x] \in {"pending", "error"} <=> stage[x] \in {"pending", "error"}
BY DEF IInv, TypeOK, Reloaded

LEMMA ReconfigureKeeps ==
  ASSUME IInv, NEW e \in Entries, NEW d \in Documents, Reconfigure(e, d)
  PROVE  IInv'
<1> DEFINE r == [entry[e] EXCEPT !.doc = d]
<1>1. /\ entry[e] # None /\ d \in Usable /\ NetId(d) = entry[e].uid /\ (FormsWait => form[e] = None)
      /\ entry' = [entry EXCEPT ![e] = r] /\ stage' = Reloaded(e)
      /\ UNCHANGED <<coord, form, saved, networks, choice, seeded>>
  BY DEF Reconfigure, history
<1>2. /\ r \in StoredEntries /\ r # None /\ r.doc = d
      /\ r.uid = entry[e].uid /\ r.inverted = entry[e].inverted
  <2>1. entry[e] \in StoredEntries
    BY <1>1 DEF IInv, TypeOK
  <2>2. r \in StoredEntries /\ r.doc = d /\ r.uid = entry[e].uid /\ r.inverted = entry[e].inverted
    BY <2>1 DEF StoredEntries
  <2>3. QED
    BY <2>2, StorageAssumption
<1> HIDE DEF r
<1>3. TypeOK'
  BY <1>1, <1>2, ReloadedIs DEF IInv, TypeOK, NetworksOK, networks
<1>4. OneEntryPerId'
  <2>1. IsIdOf(NetId(d), d)
    BY DEF IsIdOf
  <2>2. QED
    BY <1>1, <1>2, <2>1, ReloadedIs DEF IInv, TypeOK, Stages, OneEntryPerId
<1>5. StagesFollow'
  BY <1>1, ReloadedIs DEF IInv, Stages, StagesFollow
<1>6. NothingSaid' /\ FormsFollow'
  BY <1>1, <1>2 DEF IInv, TypeOK, NothingSaid, FormsFollow
<1>7. FormsWait => EveryMirrorIsAChoice'
  BY <1>1, <1>2 DEF IInv, TypeOK, EveryMirrorIsAChoice
<1>8. Driving'
  BY <1>1, FewerDrive
<1>9. QED
  BY <1>3, <1>4, <1>5, <1>6, <1>7, <1>8 DEF IInv, Stages

LEMMA OpenKeeps ==
  ASSUME IInv, NEW e \in Entries, OpenOptions(e)
  PROVE  IInv'
<1>1. /\ entry[e] # None /\ form' = [form EXCEPT ![e] = CtlLamps(entry[e].doc)]
      /\ UNCHANGED <<entry, stage, coord, saved, networks, choice, seeded>>
  BY DEF OpenOptions, history
<1>2. CtlLamps(entry[e].doc) \in SUBSET LampAddresses
  BY <1>1, LampsOfExports DEF IInv, TypeOK, StoredEntries
<1>3. TypeOK'
  BY <1>1, <1>2 DEF IInv, TypeOK, NetworksOK, networks
<1>4. FormsFollow'
  BY <1>1 DEF IInv, TypeOK, FormsFollow
<1>5. Stages' /\ NothingSaid' /\ (FormsWait => EveryMirrorIsAChoice')
  BY <1>1 DEF IInv, Stages, OneEntryPerId, StagesFollow, NothingSaid, EveryMirrorIsAChoice
<1>6. Driving'
  BY <1>1, FewerDrive
<1>7. QED
  BY <1>3, <1>4, <1>5, <1>6 DEF IInv

\* A lamp the form lists is mirrored when it was ticked, any other as before.
LEMMA SubmitKeeps ==
  ASSUME IInv, NEW e \in Entries, NEW ticked \in SUBSET LampAddresses, NEW src \in SrcChoices,
         SubmitOptions(e, ticked, src)
  PROVE  IInv'
<1> DEFINE m == Merge(e, ticked)
           r == [entry[e] EXCEPT !.inverted = m, !.src = src]
           said == [a \in LampAddresses |->
                      IF a \notin form[e] THEN choice[e][a] ELSE IF a \in ticked THEN "on" ELSE "off"]
<1>1. /\ form[e] # None /\ ticked \subseteq form[e]
      /\ entry' = [entry EXCEPT ![e] = r] /\ form' = [form EXCEPT ![e] = None]
      /\ stage' = IF entry' = entry THEN stage ELSE Reloaded(e)
      /\ choice' = [choice EXCEPT ![e] = said]
      /\ UNCHANGED <<coord, saved, networks, seeded>>
  BY DEF SubmitOptions
<1>2. /\ entry[e] # None /\ entry[e] \in StoredEntries /\ form[e] \in SUBSET LampAddresses
      /\ FormsWait => form[e] = CtlLamps(entry[e].doc)
  BY <1>1 DEF IInv, TypeOK, FormsFollow
<1>3. /\ m \in {Absent} \cup SUBSET LampAddresses
      /\ form[e] = {} => m = entry[e].inverted
      /\ form[e] # {} => m # Absent
      /\ form[e] # {} /\ FormsWait => m = ticked \cup (Stored(e) \ form[e])
  BY <1>2, StorageAssumption DEF Merge, Stored, StoredEntries
<1> HIDE DEF m
<1>4. /\ r \in StoredEntries /\ r # None /\ r.doc = entry[e].doc
      /\ r.uid = entry[e].uid /\ r.inverted = m
  <2>1. /\ r \in StoredEntries /\ r.doc = entry[e].doc /\ r.uid = entry[e].uid /\ r.inverted = m
    BY <1>2, <1>3 DEF StoredEntries
  <2>2. QED
    BY <2>1, StorageAssumption
<1>5. /\ said \in [LampAddresses -> {"none", "on", "off"}]
      /\ \A a \in LampAddresses :
           said[a] = IF a \notin form[e] THEN choice[e][a] ELSE IF a \in ticked THEN "on" ELSE "off"
  BY DEF IInv, TypeOK
<1> HIDE DEF r, said
<1>6. /\ stage' \in [Entries -> {"none", "pending", "loaded", "reload", "stuck", "error"}]
      /\ \A x \in Entries : stage'[x] = stage[x] \/ stage'[x] = Reloaded(e)[x]
  BY <1>1, ReloadedIs DEF IInv, TypeOK
<1>7. TypeOK'
  BY <1>1, <1>4, <1>5, <1>6 DEF IInv, TypeOK, NetworksOK, networks
<1>8. Stages'
  <2>1. OneEntryPerId'
    BY <1>1, <1>2, <1>4, <1>6, ReloadedIs DEF IInv, TypeOK, Stages, OneEntryPerId
  <2>2. StagesFollow'
    BY <1>1, <1>6, ReloadedIs DEF IInv, Stages, StagesFollow
  <2>3. QED
    BY <2>1, <2>2 DEF Stages
<1>9. NothingSaid' /\ FormsFollow'
  <2>1. m = Absent => form[e] = {} /\ entry[e].inverted = Absent
    BY <1>3
  <2>2. NothingSaid'
    BY <1>1, <1>2, <1>4, <1>5, <2>1 DEF IInv, TypeOK, NothingSaid
  <2>3. FormsFollow'
    BY <1>1, <1>2, <1>4 DEF IInv, TypeOK, FormsFollow
  <2>4. QED
    BY <2>2, <2>3
<1>10. FormsWait => EveryMirrorIsAChoice'
  <2> DEFINE On(c) == {a \in LampAddresses : c[a] = "on"}  Kept(c) == {a \in seeded[e] : c[a] = "none"}
  <2>1. SUFFICES ASSUME FormsWait, m # Absent PROVE m = On(said) \cup Kept(said)
    <3>1. \A x \in Entries : x # e =>
            entry'[x] = entry[x] /\ choice'[x] = choice[x] /\ seeded'[x] = seeded[x]
      BY <1>1 DEF IInv, TypeOK
    <3>2. entry'[e] = r /\ choice'[e] = said /\ seeded'[e] = seeded[e]
      BY <1>1 DEF IInv, TypeOK
    <3>3. QED
      BY <2>1, <3>1, <3>2, <1>4 DEF IInv, EveryMirrorIsAChoice
  <2>2. seeded[e] \subseteq LampAddresses
    BY DEF IInv, TypeOK
  <2>3. Stored(e) = On(choice[e]) \cup Kept(choice[e])
    <3>1. CASE entry[e].inverted = Absent
      BY <3>1, <1>2 DEF IInv, NothingSaid, Stored
    <3>2. CASE entry[e].inverted # Absent
      BY <3>2, <1>2, <2>1 DEF IInv, EveryMirrorIsAChoice, Stored
    <3>3. QED
      BY <3>1, <3>2
  <2>4. CASE form[e] = {}
    <3>1. \A a \in LampAddresses : said[a] = choice[e][a]
      BY <2>4, <1>5
    <3>2. m = Stored(e)
      BY <2>4, <1>3, <2>1 DEF Stored
    <3>3. QED
      BY <3>1, <3>2, <2>2, <2>3
  <2>5. CASE form[e] # {}
    <3>1. m = ticked \cup (Stored(e) \ form[e])
      BY <2>5, <1>3, <2>1
    <3>2. On(said) = ticked \cup (On(choice[e]) \ form[e])
      BY <1>1, <1>2, <1>5
    <3>3. Kept(said) = Kept(choice[e]) \ form[e]
      BY <1>1, <1>2, <1>5, <2>2
    <3> HIDE DEF On, Kept
    <3>4. QED
      BY <3>1, <3>2, <3>3, <2>3
  <2>6. QED
    BY <2>4, <2>5
<1>11. Driving'
  BY <1>1, FewerDrive
<1>12. QED
  BY <1>7, <1>8, <1>9, <1>10, <1>11 DEF IInv

\* The cursor is loaded from the file of the name, whichever entry it was of, and a
\* coordinator that keeps that file already is noted.
LEMMA SetUpKeeps ==
  ASSUME IInv, NEW e \in Entries, SetUp(e)
  PROVE  IInv'
<1> DEFINE d == entry[e].doc
           inverted == SeedInvertedCtl(d, entry[e].inverted)
           src == ResolveSrcAddr(Net[d], entry[e].src)
           c == [doc |-> d, src |-> src, key |-> AppKeyForModels(Net[d], Controlled),
                 inverted |-> inverted, seq |-> saved[Store(e, d)]]
           r == [entry[e] EXCEPT !.inverted = inverted]
<1>1. /\ stage[e] = "pending" /\ d \in Usable /\ src # NoAddress
      /\ coord' = [coord EXCEPT ![e] = c] /\ entry' = [entry EXCEPT ![e] = r]
      /\ seeded' = IF entry[e].inverted = Absent THEN [seeded EXCEPT ![e] = OldRule(d)] ELSE seeded
      /\ named' = [named EXCEPT ![NetKey(d)] = named[NetKey(d)] \cup {Name(d)}]
      /\ crossed' = crossed \cup ({Name(d)} \cap {Name(coord[o].doc) : o \in Running \ {e}})
      /\ stage' = [stage EXCEPT ![e] = "loaded"]
      /\ UNCHANGED <<form, saved, heard, choice>>
  BY DEF SetUp
<1>2. entry[e] # None /\ entry[e] \in StoredEntries
  BY <1>1 DEF IInv, TypeOK, Stages, OneEntryPerId
<1>3. /\ OldRule(d) \in SUBSET LampAddresses
      /\ entry[e].inverted = Absent => inverted = OldRule(d)
      /\ entry[e].inverted # Absent => inverted = entry[e].inverted
      /\ inverted \in SUBSET LampAddresses /\ inverted # Absent
  <2>1. OldRule(d) \in SUBSET LampAddresses
    BY <1>1, LampsOfExports
  <2>2. QED
    BY <2>1, <1>2, StorageAssumption DEF SeedInvertedCtl, StoredEntries
<1>4. src \in Unicasts \ UnicastAddresses(Net[d])
  BY <1>1, ResolvedIsFree
<1>5. NetKey(d) \in NetKeys /\ Name(d) \in Names /\ saved[Name(d)] \in Nat
  BY <1>1, UsableNetworks DEF IInv, TypeOK, NetworksOK
<1>6. /\ c.doc = d /\ c.src = src /\ c.seq = saved[Name(d)] /\ IsCoordinator(c)
      /\ c.key = AppKeyForModels(Net[d], Controlled)
  <2>1. /\ DOMAIN c = {"doc", "src", "key", "inverted", "seq"}
        /\ c.doc = d /\ c.src = src /\ c.seq = saved[Name(d)]
        /\ c.key = AppKeyForModels(Net[d], Controlled) /\ c.inverted = inverted
    BY DEF Store
  <2> HIDE DEF c
  <2>2. QED
    BY <2>1, <1>1, <1>3, <1>5 DEF IsCoordinator
<1> HIDE DEF inverted, src, c
<1>7. r \in StoredEntries /\ r # None /\ r.doc = d /\ r.uid = entry[e].uid /\ r.inverted = inverted
  <2>1. r \in StoredEntries /\ r.doc = d /\ r.uid = entry[e].uid /\ r.inverted = inverted
    BY <1>2, <1>3 DEF StoredEntries
  <2>2. QED
    BY <2>1, StorageAssumption
<1> HIDE DEF r
<1>8. TypeOK'
  <2>1. NetworksOK'
    BY <1>1, <1>5 DEF IInv, TypeOK, NetworksOK
  <2>2. QED
    BY <1>1, <1>3, <1>6, <1>7, <2>1 DEF IInv, TypeOK
<1>9. Stages'
  BY <1>1, <1>2, <1>7 DEF IInv, TypeOK, Stages, OneEntryPerId, StagesFollow
<1>10. NothingSaid' /\ FormsFollow'
  BY <1>1, <1>2, <1>3, <1>7 DEF IInv, TypeOK, NothingSaid, FormsFollow
<1>11. FormsWait => EveryMirrorIsAChoice'
  <2>1. CASE entry[e].inverted = Absent
    <3>1. \A a \in LampAddresses : choice[e][a] = "none"
      BY <2>1 DEF IInv, NothingSaid
    <3>2. QED
      BY <1>1, <1>3, <1>7, <2>1, <3>1 DEF IInv, TypeOK, EveryMirrorIsAChoice
  <2>2. CASE entry[e].inverted # Absent
    BY <1>1, <1>2, <1>3, <1>7, <2>2 DEF IInv, TypeOK, EveryMirrorIsAChoice
  <2>3. QED
    BY <2>1, <2>2
<1>12. /\ coord'[e] = c /\ \A x \in Entries \ {e} : coord'[x] = coord[x]
       /\ Running' \subseteq Running \cup {e}
  BY <1>1 DEF IInv, TypeOK, Running
<1>13. NamesNoted'
  <2>1. \A x \in Running' : Name(coord'[x].doc) \in named'[NetKey(coord'[x].doc)]
    BY <1>1, <1>5, <1>6, <1>12 DEF IInv, TypeOK, NetworksOK, Driving, NamesNoted
  <2>2. \A x, o \in Running' :
          x # o /\ Name(coord'[x].doc) = Name(coord'[o].doc) => Name(coord'[x].doc) \in crossed'
    <3>1. SUFFICES ASSUME NEW x \in Running', NEW o \in Running', x # o,
                          Name(coord'[x].doc) = Name(coord'[o].doc)
                   PROVE  Name(coord'[x].doc) \in crossed'
      OBVIOUS
    <3>2. CASE x # e /\ o # e
      BY <1>1, <1>12, <3>1, <3>2 DEF IInv, Driving, NamesNoted, Running
    <3>3. CASE x = e
      BY <1>1, <1>6, <1>12, <3>1, <3>3 DEF Running
    <3>4. CASE o = e
      BY <1>1, <1>6, <1>12, <3>1, <3>4 DEF Running
    <3>5. QED
      BY <3>2, <3>3, <3>4
  <2>3. QED
    BY <2>1, <2>2 DEF NamesNoted
<1>14. FileAhead'
  <2>1. \A k \in NetKeys : named'[k] = {} => heard'[k] = 0
    BY <1>1, <1>5 DEF IInv, TypeOK, NetworksOK, Driving, FileAhead
  <2>2. SUFFICES ASSUME NEW k \in NetKeys, NEW n \in Names \ crossed', named'[k] = {n}
                 PROVE  saved'[n] >= heard'[k]
    <3>1. \A x \in Running' :
            Name(coord'[x].doc) \notin crossed' => coord'[x].seq >= saved'[Name(coord'[x].doc)]
      BY <1>1, <1>5, <1>6, <1>12 DEF IInv, Driving, FileAhead, Running
    <3>2. QED
      BY <2>1, <3>1 DEF FileAhead
  <2>3. n \notin crossed /\ saved' = saved /\ heard' = heard /\ saved[n] \in Nat
    BY <1>1 DEF IInv, TypeOK, NetworksOK
  <2>4. named[k] = {n} \/ named[k] = {}
    BY <1>1, <2>2 DEF IInv, TypeOK, NetworksOK
  <2>5. QED
    BY <2>2, <2>3, <2>4 DEF IInv, Driving, FileAhead
<1>15. CursorAhead' /\ SourceIsNobodys'
  <2>1. TypeOK' /\ NamesNoted' /\ FileAhead'
    BY <1>8, <1>13, <1>14
  <2>2. CursorAhead'
    BY <2>1, CursorFollows, PTL
  <2>3. SourceIsNobodys'
    BY <1>4, <1>6, <1>12 DEF IInv, Driving, SourceIsNobodys
  <2>4. QED
    BY <2>2, <2>3
<1>16. KeyTheLampsKnow'
  <2>1. c.key \in KnownKeys[d]
    <3>1. /\ c.key \in Held(Net[d])
          /\ \A i \in Held(Net[d]) : Bindings(Net[d], Controlled, i) <= Bindings(Net[d], Controlled, c.key)
      BY <1>1, <1>6, ChosenKeyIsMostBound, StorageAssumption
    <3>2. QED
      BY <1>1, <3>1 DEF KnownKeys
  <2>2. QED
    BY <1>6, <1>12, <2>1 DEF IInv, Driving, KeyTheLampsKnow
<1>17. QED
  BY <1>8, <1>9, <1>10, <1>11, <1>13, <1>14, <1>15, <1>16 DEF IInv, Driving

\* What a coordinator sends is above its file, and so above all that was heard under
\* its name, as long as it keeps the file alone.
LEMMA SendKeeps ==
  ASSUME IInv, NEW e \in Entries, Send(e)
  PROVE  IInv'
<1> DEFINE n == Name(coord[e].doc)  k == NetKey(coord[e].doc)  s == coord[e].seq + 1
           r == [coord[e] EXCEPT !.seq = s]
<1>1. /\ coord[e] # None /\ coord' = [coord EXCEPT ![e] = r]
      /\ heard' = [heard EXCEPT ![k] = Max({heard[k], s})]
      /\ saved' = [saved EXCEPT ![n] = s]
      /\ UNCHANGED <<entry, stage, form, named, crossed, choice, seeded>>
  BY DEF Send, Store
<1>2. /\ IsCoordinator(coord[e]) /\ n \in Names /\ k \in NetKeys /\ heard[k] \in Nat
      /\ coord[e].seq \in Nat /\ n \in named[k]
  BY <1>1, UsableNetworks DEF IInv, TypeOK, NetworksOK, IsCoordinator, Driving, NamesNoted, Running
<1>3. s \in Nat /\ Max({heard[k], s}) \in Nat
  <2>1. s \in Nat
    BY <1>2
  <2> HIDE DEF s
  <2>2. QED
    BY <1>2, <2>1 DEF Max
<1>4. heard[k] <= coord[e].seq => Max({heard[k], s}) = s
  <2>1. SUFFICES ASSUME heard[k] <= coord[e].seq PROVE Max({heard[k], s}) = s
    OBVIOUS
  <2>2. s >= heard[k] /\ s # heard[k]
    BY <1>2, <2>1
  <2>3. QED
    BY <1>2, <1>3, <2>2 DEF Max
<1>5. IsCoordinator(r) /\ r.doc = coord[e].doc /\ r.src = coord[e].src /\ r.key = coord[e].key /\ r.seq = s
  BY <1>2 DEF IsCoordinator
<1> DEFINE most == Max({heard[k], s})
<1>6. heard' = [heard EXCEPT ![k] = most] /\ most \in Nat /\ (heard[k] <= coord[e].seq => most = s)
  BY <1>1, <1>3, <1>4
<1>7. s > coord[e].seq
  BY <1>2
<1> HIDE DEF r, s, most
<1>8. TypeOK'
  <2>1. NetworksOK'
    BY <1>1, <1>2, <1>3, <1>6 DEF IInv, TypeOK, NetworksOK
  <2>2. QED
    BY <1>1, <1>5, <2>1 DEF IInv, TypeOK
<1>9. Stages'
  BY <1>1 DEF IInv, TypeOK, Stages, OneEntryPerId, StagesFollow
<1>10. /\ NothingSaid' /\ FormsFollow'
       /\ FormsWait => EveryMirrorIsAChoice'
  BY <1>1 DEF IInv, NothingSaid, FormsFollow, EveryMirrorIsAChoice
<1>11. /\ coord'[e].doc = coord[e].doc /\ coord'[e].seq = s /\ coord'[e].src = coord[e].src
       /\ coord'[e].key = coord[e].key
       /\ \A x \in Entries \ {e} : coord'[x] = coord[x]
       /\ Running' \subseteq Running /\ e \in Running
  BY <1>1, <1>5 DEF IInv, TypeOK, Running
<1>12. NamesNoted'
  BY <1>1, <1>11 DEF IInv, Driving, NamesNoted
<1>13. FileAhead'
  <2>1. \A l \in NetKeys : named'[l] = {} => heard'[l] = 0
    BY <1>1, <1>2, <1>6 DEF IInv, TypeOK, NetworksOK, Driving, FileAhead
  <2>2. ASSUME NEW l \in NetKeys, NEW m \in Names \ crossed', named'[l] = {m}
        PROVE  saved'[m] >= heard'[l]
    <3>1. named[l] = {m} /\ m \in Names \ crossed
      BY <1>1, <2>2
    <3>2. saved[m] >= heard[l] /\ saved[m] \in Nat /\ heard[l] \in Nat
      BY <3>1 DEF IInv, TypeOK, NetworksOK, Driving, FileAhead
    <3>3. CASE m # n
      <4>1. l # k
        BY <1>2, <3>1, <3>3
      <4>2. saved'[m] = saved[m] /\ heard'[l] = heard[l]
        BY <1>1, <1>2, <1>6, <3>3, <4>1 DEF IInv, TypeOK, NetworksOK
      <4>3. QED
        BY <3>2, <4>2
    <3>4. CASE m = n
      <4>1. coord[e].seq >= saved[m]
        BY <1>11, <3>1, <3>4 DEF IInv, Driving, FileAhead
      <4>2. saved'[m] = s
        BY <1>1, <1>2, <3>4 DEF IInv, TypeOK, NetworksOK
      <4>3. heard[l] <= coord[e].seq
        BY <1>2, <3>2, <4>1
      <4>4. heard'[l] = heard[l] \/ heard'[l] = s
        BY <1>2, <1>6, <4>3 DEF IInv, TypeOK, NetworksOK
      <4>5. QED
        BY <1>2, <1>3, <1>7, <3>2, <4>2, <4>3, <4>4
    <3>5. QED
      BY <3>3, <3>4
  <2>3. ASSUME NEW x \in Running', Name(coord'[x].doc) \notin crossed'
        PROVE  coord'[x].seq >= saved'[Name(coord'[x].doc)]
    <3>1. CASE x = e
      BY <1>1, <1>2, <1>3, <1>11, <3>1 DEF IInv, TypeOK, NetworksOK
    <3>2. CASE x # e
      <4>1. coord'[x] = coord[x] /\ x \in Running
        BY <1>11, <3>2 DEF Running
      <4>2. Name(coord[x].doc) # n
        BY <1>1, <1>11, <2>3, <3>2, <4>1 DEF IInv, Driving, NamesNoted
      <4>3. saved'[Name(coord[x].doc)] = saved[Name(coord[x].doc)]
        BY <1>1, <4>2 DEF IInv, TypeOK, NetworksOK
      <4>4. QED
        BY <1>1, <2>3, <4>1, <4>3 DEF IInv, Driving, FileAhead
    <3>3. QED
      BY <3>1, <3>2
  <2>4. QED
    BY <2>1, <2>2, <2>3 DEF FileAhead
<1>14. CursorAhead'
  BY <1>8, <1>12, <1>13, CursorFollows, PTL
<1>15. SourceIsNobodys' /\ KeyTheLampsKnow'
  BY <1>1, <1>11 DEF IInv, Driving, SourceIsNobodys, KeyTheLampsKnow
<1>16. QED
  BY <1>8, <1>9, <1>10, <1>12, <1>13, <1>14, <1>15 DEF IInv, Driving

\* A set-up that fails and an unload touch nothing that is stored.
LEMMA StopKeeps ==
  ASSUME IInv, NEW e \in Entries, SetUpFails(e) \/ Unload(e)
  PROVE  IInv'
<1>1. /\ \/ stage[e] = "pending" /\ stage' = [stage EXCEPT ![e] = "error"] /\ coord' = coord
         \/ stage[e] = "reload" /\ stage' = [stage EXCEPT ![e] = "pending"] /\ coord' = [coord EXCEPT ![e] = None]
         \/ stage[e] = "reload" /\ stage' = [stage EXCEPT ![e] = "stuck"] /\ coord' = coord
      /\ UNCHANGED <<entry, form, saved, networks, choice, seeded>>
  BY DEF SetUpFails, Unload, history
<1>2. /\ DOMAIN coord' = Entries
      /\ \A x \in Entries : coord'[x] # None => coord'[x] = coord[x]
  BY <1>1 DEF IInv, TypeOK
<1>3. TypeOK'
  BY <1>1, <1>2 DEF IInv, TypeOK, NetworksOK, networks
<1>4. Stages'
  BY <1>1, <1>2 DEF IInv, TypeOK, Stages, OneEntryPerId, StagesFollow
<1>5. NothingSaid' /\ FormsFollow' /\ (FormsWait => EveryMirrorIsAChoice')
  BY <1>1 DEF IInv, NothingSaid, FormsFollow, EveryMirrorIsAChoice
<1>6. Driving'
  BY <1>1, <1>2, FewerDrive
<1>7. QED
  BY <1>3, <1>4, <1>5, <1>6 DEF IInv

\* A removal leaves the cursor's file, and now and then the coordinator.
LEMMA RemoveKeeps ==
  ASSUME IInv, NEW e \in Entries, RemoveEntry(e)
  PROVE  IInv'
<1>1. /\ entry' = [entry EXCEPT ![e] = None] /\ stage' = [stage EXCEPT ![e] = "none"]
      /\ coord' = [coord EXCEPT ![e] = None] \/ coord' = coord
      /\ form' = [form EXCEPT ![e] = None]
      /\ choice' = [choice EXCEPT ![e] = [a \in LampAddresses |-> "none"]]
      /\ seeded' = [seeded EXCEPT ![e] = {}] /\ UNCHANGED <<saved, networks>>
  BY DEF RemoveEntry
<1>2. /\ DOMAIN coord' = Entries
      /\ \A x \in Entries : coord'[x] # None => coord'[x] = coord[x]
      /\ \A x \in Entries \ {e} : coord'[x] = coord[x]
  BY <1>1 DEF IInv, TypeOK
<1>3. TypeOK'
  BY <1>1, <1>2 DEF IInv, TypeOK, NetworksOK, networks
<1>4. Stages'
  BY <1>1, <1>2 DEF IInv, TypeOK, Stages, OneEntryPerId, StagesFollow
<1>5. NothingSaid' /\ FormsFollow'
  BY <1>1 DEF IInv, TypeOK, NothingSaid, FormsFollow
<1>6. FormsWait => EveryMirrorIsAChoice'
  BY <1>1 DEF IInv, TypeOK, EveryMirrorIsAChoice
<1>7. Driving'
  BY <1>1, <1>2, FewerDrive
<1>8. QED
  BY <1>3, <1>4, <1>5, <1>6, <1>7 DEF IInv

LEMMA RestartKeeps ==
  ASSUME IInv, Restart
  PROVE  IInv'
<1>1. /\ coord' = [e \in Entries |-> None] /\ form' = [e \in Entries |-> None]
      /\ stage' = [e \in Entries |-> IF entry[e] = None THEN "none" ELSE "pending"]
      /\ UNCHANGED <<entry, saved, networks, choice, seeded>>
  BY DEF Restart, history
<1>2. TypeOK' /\ Stages'
  BY <1>1 DEF IInv, TypeOK, NetworksOK, networks, Stages, OneEntryPerId, StagesFollow
<1>3. NothingSaid' /\ FormsFollow' /\ (FormsWait => EveryMirrorIsAChoice')
  BY <1>1 DEF IInv, NothingSaid, FormsFollow, EveryMirrorIsAChoice
<1>4. Driving'
  BY <1>1, FewerDrive
<1>5. QED
  BY <1>2, <1>3, <1>4 DEF IInv

LEMMA NextKeeps == IInv /\ [Next]_vars => IInv'
<1> SUFFICES ASSUME IInv, [Next]_vars PROVE IInv'
  OBVIOUS
<1>1. CASE UNCHANGED vars
  <2>1. UNCHANGED <<entry, stage, coord, form, saved, networks, choice, seeded>>
    BY <1>1 DEF vars, history
  <2>2. TypeOK' /\ Stages' /\ NothingSaid' /\ FormsFollow' /\ (FormsWait => EveryMirrorIsAChoice')
    BY <2>1 DEF IInv, TypeOK, NetworksOK, networks, Stages, OneEntryPerId, StagesFollow, NothingSaid,
                FormsFollow, EveryMirrorIsAChoice
  <2>3. Driving'
    BY <2>1, FewerDrive
  <2>4. QED
    BY <2>2, <2>3 DEF IInv
<1>2. ASSUME NEW e \in Entries, NEW d \in Documents, ImportNetwork(e, d) \/ Reconfigure(e, d)
      PROVE  IInv'
  BY <1>2, ImportKeeps, ReconfigureKeeps
<1>3. ASSUME NEW e \in Entries, NEW ticked \in SUBSET LampAddresses, NEW src \in SrcChoices,
             SubmitOptions(e, ticked, src)
      PROVE  IInv'
  BY <1>3, SubmitKeeps
<1>4. ASSUME NEW e \in Entries,
             OpenOptions(e) \/ SetUp(e) \/ SetUpFails(e) \/ Send(e) \/ Unload(e) \/ RemoveEntry(e)
      PROVE  IInv'
  BY <1>4, OpenKeeps, SetUpKeeps, StopKeeps, SendKeeps, RemoveKeeps
<1>5. QED
  BY <1>1, <1>2, <1>3, <1>4, RestartKeeps DEF Next

----------------------------------------------------------------------------
(***************************************************************************)
(* The theorems.                                                           *)
(***************************************************************************)

\* What is stored of an entry, what runs of it and what was said of its lamps
\* fit together in every behaviour.
THEOREM EntriesAgree == Spec => []IInv
BY InitHolds, NextKeeps, PTL DEF Spec

\* No choice of a mirrored lamp is undone and none made for the user, unless an
\* export is replaced under an open options form.
THEOREM MirrorsStayChosen ==
  ASSUME FormsWait
  PROVE  Spec => []EveryMirrorIsAChoice
<1>1. IInv => EveryMirrorIsAChoice
  BY DEF IInv
<1>2. QED
  BY <1>1, EntriesAgree, PTL

\* A coordinator never sends a number its subnet has heard, while the subnet has one
\* name and the name one coordinator at a time.
THEOREM CursorStaysAhead == Spec => []CursorAhead
<1>1. IInv => CursorAhead
  BY DEF IInv, Driving
<1>2. QED
  BY <1>1, EntriesAgree, PTL

\* No message is sent from the address of an element.
THEOREM SourceIsAlwaysNobodys == Spec => []SourceIsNobodys
<1>1. IInv => SourceIsNobodys
  BY DEF IInv, Driving
<1>2. QED
  BY <1>1, EntriesAgree, PTL

\* Commands are encrypted with a key that most models are bound to, if any is held.
THEOREM KeyIsAlwaysKnown == Spec => []KeyTheLampsKnow
<1>1. IInv => KeyTheLampsKnow
  BY DEF IInv, Driving
<1>2. QED
  BY <1>1, EntriesAgree, PTL

----------------------------------------------------------------------------
(***************************************************************************)
(* The lights of an export that is well made.                              *)
(***************************************************************************)

\* The first of some elements is one of them, and none of them is before it.
LEMMA FirstIs ==
  ASSUME NEW node, NEW len \in Nat, DOMAIN node.elements = 1 .. len,
         NEW S \in SUBSET DOMAIN node.elements, S # {}
  PROVE  \E i \in S : FirstOf(node, S) = node.elements[i].unicast /\ \A j \in S : i <= j
<1>1. Min(S) \in S /\ \A j \in S : Min(S) <= j
  BY MinIsLeast
<1>2. QED
  BY <1>1 DEF FirstOf

\* What WellMade says of one node.
Orderly(node) ==
  /\ Len(node.elements) \in Nat /\ DOMAIN node.elements = 1..Len(node.elements)
  /\ \A i \in DOMAIN node.elements :
       /\ node.elements[i].index \in Nat /\ node.elements[i].unicast \in Nat
       /\ HasModel(node.elements[i], "ctl") => HasModel(node.elements[i], "lightness")
       /\ \A j \in DOMAIN node.elements : i < j => node.elements[i].index < node.elements[j].index

LEMMA WellMadeNodes ==
  ASSUME NEW net, WellMade(net)
  PROVE  /\ \A n \in DOMAIN net.nodes : Orderly(net.nodes[n])
         /\ \A n, m \in DOMAIN net.nodes :
              \A i \in DOMAIN net.nodes[n].elements, j \in DOMAIN net.nodes[m].elements :
                net.nodes[n].elements[i].unicast = net.nodes[m].elements[j].unicast => n = m /\ i = j
BY DEF WellMade, Orderly

\* An element of the node with this address hosts one of the models.
At(node, address, ids) ==
  \E i \in DOMAIN node.elements :
    node.elements[i].unicast = address /\ \E id \in ids : HasModel(node.elements[i], id)

LEMMA OutputsAre ==
  ASSUME NEW node
  PROVE  /\ Outputs(node) \subseteq DOMAIN node.elements
         /\ \/ /\ Outputs(node) = ElementsForModel(node, "lightness")
               /\ Outputs(node) # {}
            \/ /\ Outputs(node) = ElementsForModel(node, "onoff")
               /\ ElementsForModel(node, "lightness") = {}
BY DEF Outputs, ElementsForModel

\* The first element that hosts a model hosts it.
LEMMA HostIs ==
  ASSUME NEW node, Orderly(node), NEW id, NodeHasModel(node, id)
  PROVE  At(node, FirstOf(node, ElementsForModel(node, id)), {id})
<1>1. ElementsForModel(node, id) \in SUBSET DOMAIN node.elements /\ ElementsForModel(node, id) # {}
  BY DEF NodeHasModel, ElementsForModel
<1>2. PICK i \in ElementsForModel(node, id) :
        FirstOf(node, ElementsForModel(node, id)) = node.elements[i].unicast
  BY <1>1, FirstIs DEF Orderly
<1>3. QED
  BY <1>2 DEF At, ElementsForModel

LEMMA SingleModelUnicast ==
  ASSUME NEW node, Orderly(node), NEW id, NodeHasModel(node, id)
  PROVE  ModelUnicast(node, <<id>>) = FirstOf(node, ElementsForModel(node, id))
<1> DEFINE hosted == {i \in DOMAIN <<id>> : NodeHasModel(node, <<id>>[i])}
<1>1. hosted = {1} /\ <<id>>[1] = id
  OBVIOUS
<1>2. Min({1}) = 1
  <2>1. Min({1}) \in {1}
    BY MinIsLeast, 1 \in Nat, {1} \in SUBSET (1 .. 1)
  <2>2. QED
    BY <2>1
<1>3. QED
  BY <1>1, <1>2 DEF ModelUnicast

LEMMA EitherModelUnicast ==
  ASSUME NEW node, Orderly(node), NEW a, NEW b, NodeHasModel(node, a) \/ NodeHasModel(node, b)
  PROVE  At(node, ModelUnicast(node, <<a, b>>), {a, b})
<1> DEFINE ids == <<a, b>>
           hosted == {i \in DOMAIN ids : NodeHasModel(node, ids[i])}
<1>1. DOMAIN ids = 1 .. 2 /\ ids[1] = a /\ ids[2] = b
  OBVIOUS
<1>2. hosted \in SUBSET (1 .. 2) /\ hosted # {}
  BY <1>1
<1> HIDE DEF ids
<1>3. Min(hosted) \in hosted
  <2> HIDE DEF hosted
  <2>1. QED
    BY <1>2, MinIsLeast, 2 \in Nat
<1>4. PICK id \in {a, b} : ids[Min(hosted)] = id /\ NodeHasModel(node, id)
  BY <1>1, <1>3
<1>5. ModelUnicast(node, ids) = FirstOf(node, ElementsForModel(node, id))
  BY <1>2, <1>4 DEF ModelUnicast
<1>6. At(node, ModelUnicast(node, ids), {id})
  BY <1>4, <1>5, HostIs
<1>7. QED
  BY <1>4, <1>6 DEF At, ids

\* The temperature element of an output is listed after it, before the next one.
LEMMA TempElementIs ==
  ASSUME NEW node, Orderly(node), NEW o \in Outputs(node), TempElementFor(node, o) # NoAddress
  PROVE  \E i \in DOMAIN node.elements :
           /\ TempElementFor(node, o) = node.elements[i].unicast /\ HasModel(node.elements[i], "temp")
           /\ i > o /\ \A p \in Outputs(node) : p > o => i < p
<1> DEFINE after == After(node, o)
           later == after \cap Outputs(node)
           own == {i \in after : later # {} => node.elements[i].index < node.elements[Min(later)].index}
           S == {i \in own \cap ElementsForModel(node, "temp") : \A j \in after \ own : i < j}
<1>1. TempElementFor(node, o) = FirstOf(node, S)
  BY DEF TempElementFor
<1>2. Outputs(node) \subseteq DOMAIN node.elements
  BY OutputsAre
<1>3. after \subseteq DOMAIN node.elements /\ S \subseteq own /\ own \subseteq after
  BY DEF After
<1>4. S # {}
  BY <1>1 DEF FirstOf
<1>5. PICK i \in S : FirstOf(node, S) = node.elements[i].unicast
  <2>1. S \in SUBSET DOMAIN node.elements
    BY <1>3
  <2> HIDE DEF S
  <2>2. QED
    BY <1>4, <2>1, FirstIs DEF Orderly
<1>6. i \in own /\ i \in DOMAIN node.elements /\ HasModel(node.elements[i], "temp")
  BY <1>3, <1>5 DEF ElementsForModel
<1>7. \A j, k \in DOMAIN node.elements : node.elements[j].index < node.elements[k].index => j < k
  BY DEF Orderly
<1>8. \A j, k \in DOMAIN node.elements : j < k => node.elements[j].index < node.elements[k].index
  BY DEF Orderly
<1>9. i > o
  <2>1. node.elements[o].index < node.elements[i].index
    BY <1>2, <1>3, <1>6 DEF After, Orderly
  <2>2. o < i /\ o \in Int /\ i \in Int
    BY <1>2, <1>6, <1>7, <2>1 DEF Orderly
  <2>3. QED
    BY <2>2
<1>10. ASSUME NEW p \in Outputs(node), p > o PROVE i < p
  <2>1. p \in DOMAIN node.elements /\ o \in DOMAIN node.elements
    BY <1>2
  <2>2. node.elements[p].index > node.elements[o].index
    BY <1>8, <1>10, <2>1 DEF Orderly
  <2>3. p \in later
    BY <2>1, <2>2 DEF After
  <2>4. Min(later) \in later /\ Min(later) <= p
    <3>1. later \in SUBSET (1 .. Len(node.elements)) /\ Len(node.elements) \in Nat
      BY <1>2 DEF Orderly
    <3> HIDE DEF later
    <3>2. QED
      BY <2>3, <3>1, MinIsLeast
  <2>5. node.elements[i].index < node.elements[Min(later)].index /\ Min(later) \in DOMAIN node.elements
    BY <1>2, <1>6, <2>3, <2>4
  <2>6. i < Min(later)
    BY <1>6, <1>7, <2>5
  <2>7. QED
    BY <1>6, <2>1, <2>4, <2>5, <2>6 DEF Orderly
<1>11. QED
  BY <1>1, <1>5, <1>6, <1>9, <1>10

\* A light of an output talks to elements of its node that host what it asks for.
LEMMA LightIs ==
  ASSUME NEW node, Orderly(node), NEW inverted, NEW o \in Outputs(node), NEW l,
         l = LightOf(node, o, inverted)
  PROVE  /\ At(node, l.onoff, {"onoff", "lightness"})
         /\ l.mode # "onoff" => At(node, l.lightness, {"lightness"})
         /\ l.mode = "color_temp" => /\ At(node, l.ctl, {"ctl"})
                                     /\ l.temp # NoAddress => At(node, l.temp, {"temp"})
<1>1. o \in DOMAIN node.elements
  BY OutputsAre
<1>2. HasModel(node.elements[o], "onoff") \/ HasModel(node.elements[o], "lightness")
  BY OutputsAre DEF ElementsForModel
<1>3. CASE Cardinality(Outputs(node)) = 1
  <2>1. /\ l.mode = Mode({id \in Dimming : NodeHasModel(node, id)})
        /\ l.onoff = ModelUnicast(node, <<"onoff", "lightness">>)
        /\ l.lightness = ModelUnicast(node, <<"lightness">>) /\ l.ctl = ModelUnicast(node, <<"ctl">>)
        /\ l.temp = FirstOf(node, ElementsForModel(node, "temp"))
    BY <1>3 DEF LightOf, NodeLight
  <2>2. NodeHasModel(node, "ctl") => NodeHasModel(node, "lightness")
    BY DEF NodeHasModel, Orderly
  <2>3. /\ l.mode # "onoff" => NodeHasModel(node, "lightness")
        /\ l.mode = "color_temp" => NodeHasModel(node, "ctl")
    BY <2>1, <2>2 DEF Mode, Dimming
  <2>4. At(node, l.onoff, {"onoff", "lightness"})
    BY <1>1, <1>2, <2>1, EitherModelUnicast DEF NodeHasModel
  <2>5. l.temp # NoAddress => At(node, l.temp, {"temp"})
    <3>1. ElementsForModel(node, "temp") # {} => NodeHasModel(node, "temp")
      BY DEF ElementsForModel, NodeHasModel
    <3>2. QED
      BY <2>1, <3>1, HostIs DEF FirstOf
  <2>6. QED
    BY <2>1, <2>3, <2>4, <2>5, SingleModelUnicast, HostIs
<1>4. CASE Cardinality(Outputs(node)) # 1
  <2>1. /\ l.mode = Mode({id \in Dimming : HasModel(node.elements[o], id)})
        /\ l.onoff = node.elements[o].unicast /\ l.lightness = node.elements[o].unicast
        /\ l.ctl = node.elements[o].unicast /\ l.temp = TempElementFor(node, o)
    BY <1>4 DEF LightOf, ElementLight
  <2>2. /\ l.mode # "onoff" => HasModel(node.elements[o], "lightness")
        /\ l.mode = "color_temp" => HasModel(node.elements[o], "ctl")
    BY <1>1, <2>1 DEF Mode, Dimming, Orderly
  <2>3. l.temp # NoAddress => At(node, l.temp, {"temp"})
    BY <2>1, TempElementIs DEF At
  <2>4. QED
    BY <1>1, <1>2, <2>1, <2>2, <2>3 DEF At
<1>5. QED
  BY <1>3, <1>4

LEMMA UsesIs ==
  ASSUME NEW l, NEW a \in Uses(l)
  PROVE  \/ a = l.onoff
         \/ l.mode # "onoff" /\ a = l.lightness
         \/ l.mode = "color_temp" /\ a = l.ctl
         \/ l.mode = "color_temp" /\ a = l.temp /\ l.temp # NoAddress
<1>2. CASE l.mode = "onoff"
  BY <1>2 DEF Uses
<1>3. CASE l.mode = "color_temp"
  BY <1>3 DEF Uses
<1>4. CASE l.mode \notin {"onoff", "color_temp"}
  BY <1>4 DEF Uses
<1>5. QED
  BY <1>2, <1>3, <1>4

\* All a light sends goes to elements of its node.
LEMMA UsesAreOfTheNode ==
  ASSUME NEW node, Orderly(node), NEW inverted, NEW o \in Outputs(node), NEW l,
         l = LightOf(node, o, inverted), NEW a \in Uses(l)
  PROVE  \E i \in DOMAIN node.elements : a = node.elements[i].unicast
<1>1. /\ At(node, l.onoff, {"onoff", "lightness"})
      /\ l.mode # "onoff" => At(node, l.lightness, {"lightness"})
      /\ l.mode = "color_temp" => /\ At(node, l.ctl, {"ctl"})
                                  /\ l.temp # NoAddress => At(node, l.temp, {"temp"})
  BY LightIs
<1>2. \/ a = l.onoff
      \/ l.mode # "onoff" /\ a = l.lightness
      \/ l.mode = "color_temp" /\ a = l.ctl
      \/ l.mode = "color_temp" /\ a = l.temp /\ l.temp # NoAddress
  BY UsesIs
<1>3. PICK ids : At(node, a, ids)
  BY <1>1, <1>2
<1>4. QED
  BY <1>3 DEF At

\* What one output of several uses: its own element, and a temperature element between
\* it and the next.
LEMMA OutputUses ==
  ASSUME NEW node, Orderly(node), NEW inverted, NEW o \in Outputs(node), NEW l,
         l = LightOf(node, o, inverted), Cardinality(Outputs(node)) # 1, NEW a \in Uses(l)
  PROVE  \E i \in DOMAIN node.elements :
           /\ a = node.elements[i].unicast /\ i >= o
           /\ \A p \in Outputs(node) : p > o => i < p
<1>1. /\ l.onoff = node.elements[o].unicast /\ l.lightness = node.elements[o].unicast
      /\ l.ctl = node.elements[o].unicast /\ l.temp = TempElementFor(node, o)
  BY DEF LightOf, ElementLight
<1>2. o \in DOMAIN node.elements /\ o \in Int
  BY OutputsAre DEF Orderly
<1>3. a = node.elements[o].unicast \/ (a = TempElementFor(node, o) /\ a # NoAddress)
  BY <1>1, UsesIs
<1>4. CASE a = node.elements[o].unicast
  BY <1>2, <1>4
<1>5. CASE a = TempElementFor(node, o) /\ a # NoAddress
  <2>1. PICK i \in DOMAIN node.elements :
           /\ TempElementFor(node, o) = node.elements[i].unicast
           /\ i > o /\ \A p \in Outputs(node) : p > o => i < p
    BY <1>5, TempElementIs
  <2>2. i >= o
    BY <1>2, <2>1 DEF Orderly
  <2>3. QED
    BY <1>5, <2>1, <2>2
<1>6. QED
  BY <1>3, <1>4, <1>5

\* Each light is that of an output of a node.
LEMMA LightsAre ==
  ASSUME NEW net, NEW inverted, NEW l
  PROVE  l \in Lights(net, inverted) <=>
           \E n \in DOMAIN net.nodes : \E o \in Outputs(net.nodes[n]) : l = LightOf(net.nodes[n], o, inverted)
<1>1. \A p : p \in LightsWithElements(net, inverted) <=>
        \E n \in DOMAIN net.nodes : \E o \in Outputs(net.nodes[n]) :
          p = <<LightOf(net.nodes[n], o, inverted), net.nodes[n].elements[o]>>
  BY DEF LightsWithElements, NodeLights, Range
<1>2. ASSUME l \in Lights(net, inverted)
      PROVE  \E n \in DOMAIN net.nodes : \E o \in Outputs(net.nodes[n]) : l = LightOf(net.nodes[n], o, inverted)
  <2>1. PICK p \in LightsWithElements(net, inverted) : l = p[1]
    BY <1>2 DEF Lights
  <2>2. QED
    BY <1>1, <2>1
<1>3. ASSUME NEW n \in DOMAIN net.nodes, NEW o \in Outputs(net.nodes[n]), l = LightOf(net.nodes[n], o, inverted)
      PROVE  l \in Lights(net, inverted)
  <2> DEFINE p == <<LightOf(net.nodes[n], o, inverted), net.nodes[n].elements[o]>>
  <2>1. p \in LightsWithElements(net, inverted)
    BY <1>1
  <2>2. p[1] = l
    BY <1>3
  <2> HIDE DEF p
  <2>3. QED
    BY <2>1, <2>2 DEF Lights
<1>4. QED
  BY <1>2, <1>3

\* No two lights share an element.
LEMMA LightsShareNothing ==
  ASSUME NEW net, WellMade(net), NEW inverted,
         NEW l \in Lights(net, inverted), NEW k \in Lights(net, inverted), l # k
  PROVE  Uses(l) \cap Uses(k) = {}
<1>1. PICK n \in DOMAIN net.nodes : \E o \in Outputs(net.nodes[n]) : l = LightOf(net.nodes[n], o, inverted)
  BY LightsAre
<1>2. PICK o \in Outputs(net.nodes[n]) : l = LightOf(net.nodes[n], o, inverted)
  BY <1>1
<1>3. PICK m \in DOMAIN net.nodes : \E p \in Outputs(net.nodes[m]) : k = LightOf(net.nodes[m], p, inverted)
  BY LightsAre
<1>4. PICK p \in Outputs(net.nodes[m]) : k = LightOf(net.nodes[m], p, inverted)
  BY <1>3
<1>5. Orderly(net.nodes[n]) /\ Orderly(net.nodes[m])
  BY WellMadeNodes
<1>6. SUFFICES ASSUME NEW a \in Uses(l), a \in Uses(k) PROVE FALSE
  OBVIOUS
<1>7. n = m
  <2>1. PICK i \in DOMAIN net.nodes[n].elements : a = net.nodes[n].elements[i].unicast
    BY <1>2, <1>5, UsesAreOfTheNode
  <2>2. PICK j \in DOMAIN net.nodes[m].elements : a = net.nodes[m].elements[j].unicast
    BY <1>4, <1>5, <1>6, UsesAreOfTheNode
  <2>3. QED
    BY <2>1, <2>2, WellMadeNodes
<1> DEFINE node == net.nodes[n]
<1>8. o \in DOMAIN node.elements /\ p \in DOMAIN node.elements /\ o # p /\ o \in Outputs(node) /\ p \in Outputs(node)
  BY <1>2, <1>4, <1>7, OutputsAre
<1>9. Cardinality(Outputs(node)) # 1
  <2>1. IsFiniteSet(Outputs(node))
    <3>1. IsFiniteSet(DOMAIN node.elements)
      BY <1>5, FS_Interval DEF Orderly
    <3>2. QED
      BY <3>1, OutputsAre, FS_Subset
  <2> HIDE DEF node
  <2>2. SUFFICES ASSUME Cardinality(Outputs(node)) = 1 PROVE FALSE
    OBVIOUS
  <2>3. \E x : Outputs(node) = {x}
    BY <2>1, <2>2, FS_Singleton
  <2>4. QED
    BY <1>8, <2>3
<1>10. PICK i \in DOMAIN node.elements :
         /\ a = node.elements[i].unicast /\ i >= o /\ \A q \in Outputs(node) : q > o => i < q
  BY <1>2, <1>5, <1>9, OutputUses
<1>11. PICK j \in DOMAIN node.elements :
         /\ a = node.elements[j].unicast /\ j >= p /\ \A q \in Outputs(node) : q > p => j < q
  BY <1>4, <1>5, <1>6, <1>7, <1>9, OutputUses
<1>12. i = j
  BY <1>10, <1>11, WellMadeNodes
<1>13. i \in Int /\ o \in Int /\ p \in Int
  BY <1>5, <1>8, <1>10 DEF Orderly
<1>14. QED
  BY <1>8, <1>10, <1>11, <1>12, <1>13

\* Every dimmer is driven by a light.
LEMMA DimmersAreLights ==
  ASSUME NEW net, WellMade(net), NEW inverted,
         NEW n \in DOMAIN net.nodes, NEW i \in DOMAIN net.nodes[n].elements,
         HasModel(net.nodes[n].elements[i], "lightness")
  PROVE  \E l \in Lights(net, inverted) : l.lightness = net.nodes[n].elements[i].unicast
<1> DEFINE node == net.nodes[n]  l == LightOf(node, i, inverted)
<1>1. i \in Outputs(node) /\ Outputs(node) = ElementsForModel(node, "lightness") /\ Orderly(node)
  BY WellMadeNodes DEF Outputs, ElementsForModel
<1>2. l \in Lights(net, inverted)
  BY <1>1, LightsAre
<1>3. CASE Cardinality(Outputs(node)) = 1
  <2>1. PICK x : Outputs(node) = {x}
    <3>1. IsFiniteSet(DOMAIN node.elements)
      BY <1>1, FS_Interval DEF Orderly
    <3>2. IsFiniteSet(Outputs(node))
      BY <3>1, OutputsAre, FS_Subset
    <3>3. QED
      BY <1>3, <3>2, FS_Singleton
  <2>2. ElementsForModel(node, "lightness") = {i}
    BY <1>1, <2>1
  <2>3. NodeHasModel(node, "lightness")
    BY DEF NodeHasModel
  <2>4. l.lightness = FirstOf(node, ElementsForModel(node, "lightness"))
    BY <1>1, <1>3, <2>3, SingleModelUnicast DEF LightOf, NodeLight
  <2>5. FirstOf(node, {i}) = node.elements[i].unicast
    <3> HIDE DEF node
    <3>1. {i} \in SUBSET DOMAIN node.elements /\ {i} # {}
      BY <2>2 DEF ElementsForModel
    <3>2. PICK j \in {i} : FirstOf(node, {i}) = node.elements[j].unicast
      BY <1>1, <3>1, FirstIs DEF Orderly
    <3>3. QED
      BY <3>2
  <2>6. QED
    BY <1>2, <2>2, <2>4, <2>5
<1>4. CASE Cardinality(Outputs(node)) # 1
  BY <1>2, <1>4 DEF LightOf, ElementLight
<1>5. QED
  BY <1>3, <1>4

LEMMA HostedIs ==
  ASSUME NEW net, NEW n \in DOMAIN net.nodes, NEW a, NEW ids, At(net.nodes[n], a, ids)
  PROVE  Hosted(net, a, ids)
BY DEF At, Hosted, Range

\* The lights of an export that is well made are answered, whichever are mirrored.
LEMMA LightsOfWellMadeExports ==
  ASSUME NEW d \in Usable, WellMadeExport(d), NEW inverted
  PROVE  LightsAnswer(d, inverted)
<1> DEFINE net == Net[d]  lights == Lights(net, inverted)
<1>1. WellMade(net)
  BY DEF WellMadeExport
<1>2. ASSUME NEW l \in lights
      PROVE  /\ Hosted(net, l.onoff, {"onoff", "lightness"})
             /\ l.mode # "onoff" => Hosted(net, l.lightness, {"lightness"})
             /\ l.mode = "color_temp" =>
                  Hosted(net, l.ctl, {"ctl"}) /\ (l.temp # NoAddress => Hosted(net, l.temp, {"temp"}))
  <2>1. PICK n \in DOMAIN net.nodes : \E o \in Outputs(net.nodes[n]) : l = LightOf(net.nodes[n], o, inverted)
    BY LightsAre
  <2>2. Orderly(net.nodes[n])
    BY <1>1, WellMadeNodes
  <2>3. /\ At(net.nodes[n], l.onoff, {"onoff", "lightness"})
        /\ l.mode # "onoff" => At(net.nodes[n], l.lightness, {"lightness"})
        /\ l.mode = "color_temp" => /\ At(net.nodes[n], l.ctl, {"ctl"})
                                    /\ l.temp # NoAddress => At(net.nodes[n], l.temp, {"temp"})
    BY <2>1, <2>2, LightIs
  <2>4. QED
    BY <2>3, HostedIs
<1>3. \A l, k \in lights : l # k => Uses(l) \cap Uses(k) = {}
  BY <1>1, LightsShareNothing
<1>4. ASSUME NEW a \in UnicastAddresses(net), Hosted(net, a, {"lightness"})
      PROVE  \E l \in lights : l.lightness = a
  <2>1. PICK n \in DOMAIN net.nodes : \E i \in DOMAIN net.nodes[n].elements :
          net.nodes[n].elements[i].unicast = a /\ HasModel(net.nodes[n].elements[i], "lightness")
    BY <1>4 DEF Hosted, Range
  <2>2. PICK i \in DOMAIN net.nodes[n].elements :
          net.nodes[n].elements[i].unicast = a /\ HasModel(net.nodes[n].elements[i], "lightness")
    BY <2>1
  <2>3. \E l \in lights : l.lightness = net.nodes[n].elements[i].unicast
    BY <1>1, <2>2, DimmersAreLights
  <2>4. QED
    BY <2>2, <2>3
<1>5. ASSUME NEW g \in GroupLights(net, inverted)
      PROVE  /\ g.members \subseteq {l.unicast : l \in lights}
             /\ \A r \in Range(Contents[d].groups) : r.type = "all" => r.address # g.address
  <2>1. PICK h \in net.groups : g = [address |-> h.address, members |-> Members(net, inverted, h)]
    BY <1>5 DEF GroupLights
  <2>2. g.members \subseteq {l.unicast : l \in lights}
    BY <2>1 DEF Lights, Members
  <2>3. h \in Range(Contents[d].groups) /\ h.type # "all"
    <3>1. net.groups = ParseGroups(Contents[d].groups)
      BY DEF Net, Usable, FromConnect
    <3>2. QED
      BY <3>1 DEF ParseGroups, WellFormed, Range
  <2>4. \A r \in Range(Contents[d].groups) : r.type = "all" => r.address # g.address
    BY <2>1, <2>3 DEF WellMadeExport
  <2>5. QED
    BY <2>2, <2>4
<1>6. QED
  BY <1>2, <1>3, <1>4, <1>5 DEF LightsAnswer

\* Every command goes to an element that answers it and to one light's elements only,
\* every dimmer has a light, and no group is the pseudo-group of all nodes: for every
\* export that is well made, whatever the user mirrors (light.py, async_setup_entry).
THEOREM LampsAlwaysAnswer ==
  ASSUME \A d \in Usable : WellMadeExport(d)
  PROVE  Spec => []LampsAnswer
<1>1. IInv => LampsAnswer
  <2>1. SUFFICES ASSUME IInv, NEW e \in Entries, coord[e] # None
                 PROVE  <<coord[e].doc, coord[e].inverted>> \in Answered
    BY DEF LampsAnswer
  <2>2. coord[e].doc \in Usable /\ coord[e].inverted \in SUBSET LampAddresses
    BY <2>1 DEF IInv, TypeOK, IsCoordinator
  <2>3. LightsAnswer(coord[e].doc, coord[e].inverted)
    BY <2>2, LightsOfWellMadeExports
  <2>4. QED
    BY <2>2, <2>3 DEF Answered
<1>2. QED
  BY <1>1, EntriesAgree, PTL

----------------------------------------------------------------------------
(***************************************************************************)
(* How the coordinator of an entry finds its nodes (Discovery).            *)
(***************************************************************************)

LEMMA MinOfNumbers ==
  ASSUME NEW I \in SUBSET Nat, I # {}
  PROVE  Min(I) \in I /\ \A j \in I : Min(I) <= j
BY LeastNumber DEF Min

DiscoveryTypeOK ==
  /\ free \subseteq Nodes
  /\ lastHeard \in [Nodes -> [Scanners -> 0 .. Long]]
  /\ merged \in [Nodes -> [by : Scanners \cup {Nothing}, age : 0 .. Long]]
  /\ extras \subseteq Nodes
  /\ ended \in 0 .. MaxAge /\ released \in [Nodes -> 0 .. MaxAge]

\* The merged entry is as old as what its owner last heard.
OwnersAge == \A n \in Nodes : merged[n].by # Nothing => merged[n].age = lastHeard[n][merged[n].by]

\* Without a main link there is none.  Under keep-alive 0 a drop of a link still listed
\* has just been noted, and while nothing is held no link of ours ended after the last
\* end that was noted.
EndsAreNoted ==
  /\ ~ Up => extras = {}
  /\ Forever => /\ lost # {} => ended = 0
                /\ ~ Up => \A n \in Nodes : ended <= released[n]

DiscoveryIInv == DiscoveryTypeOK /\ OwnersAge /\ EndsAreNoted

LEMMA OlderIs ==
  ASSUME NEW limit \in Nat, NEW age \in 0 .. limit
  PROVE  Older(age, limit) \in 0 .. limit /\ age <= Older(age, limit)
BY DEF Older

\* The links are those of nodes, and without any nothing is held.
LEMMA HeldAreUp ==
  ASSUME DiscoveryIInv, HeldNodes # {}
  PROVE  Up
BY DEF DiscoveryIInv, EndsAreNoted, HeldNodes, Up

LEMMA DiscoveryStarts == DiscoveryInit => DiscoveryIInv
<1> SUFFICES ASSUME DiscoveryInit PROVE DiscoveryIInv
  OBVIOUS
<1>1. MaxAge \in Nat /\ Long \in Nat /\ 0 \in 0 .. MaxAge /\ Long \in 0 .. Long /\ MaxAge \in 0 .. MaxAge
  BY DiscoveryAssumption DEF Long
<1>2. DiscoveryTypeOK
  BY <1>1 DEF DiscoveryInit, DiscoveryTypeOK
<1>3. OwnersAge
  BY DEF DiscoveryInit, OwnersAge
<1>4. EndsAreNoted
  BY <1>1 DEF DiscoveryInit, EndsAreNoted, Up
<1>5. QED
  BY <1>2, <1>3, <1>4 DEF DiscoveryIInv

\* A scanner that hears a node again owns its entry, or leaves it to its owner.
LEMMA AdvertKeeps ==
  ASSUME DiscoveryIInv, NEW n \in Nodes, NEW by \in SUBSET Near[n], Advert(n, by)
  PROVE  DiscoveryIInv'
<1>1. by \subseteq Scanners
  BY DiscoveryAssumption
<1>2. 0 \in 0 .. Long /\ Nothing \notin Scanners
  BY DiscoveryAssumption DEF Long
<1>3. /\ lastHeard' \in [Nodes -> [Scanners -> 0 .. Long]]
      /\ \A m \in Nodes : m # n => lastHeard'[m] = lastHeard[m]
      /\ \A s \in Scanners : lastHeard'[n][s] = IF s \in by THEN 0 ELSE lastHeard[n][s]
  BY <1>2 DEF DiscoveryIInv, DiscoveryTypeOK, Advert
<1>4. CASE UNCHANGED merged /\ merged[n].by \notin by \cup {Nothing}
  <2>1. \A m \in Nodes : merged[m].by # Nothing => merged[m].by \in Scanners
    BY DEF DiscoveryIInv, DiscoveryTypeOK
  <2>2. DiscoveryTypeOK'
    BY <1>3, <1>4 DEF DiscoveryIInv, DiscoveryTypeOK, Advert, links
  <2>3. OwnersAge'
    BY <1>3, <1>4, <2>1 DEF DiscoveryIInv, OwnersAge
  <2>4. EndsAreNoted'
    BY DEF DiscoveryIInv, EndsAreNoted, Advert, links, Up
  <2>5. QED
    BY <2>2, <2>3, <2>4 DEF DiscoveryIInv
<1>5. CASE \E s \in by : merged' = [merged EXCEPT ![n] = [by |-> s, age |-> 0]]
  <2>1. PICK s \in by : merged' = [merged EXCEPT ![n] = [by |-> s, age |-> 0]]
    BY <1>5
  <2>2. /\ merged' \in [Nodes -> [by : Scanners \cup {Nothing}, age : 0 .. Long]]
        /\ \A m \in Nodes : m # n => merged'[m] = merged[m]
        /\ merged'[n].by = s /\ merged'[n].age = 0
    BY <1>1, <1>2, <2>1 DEF DiscoveryIInv, DiscoveryTypeOK
  <2>3. DiscoveryTypeOK'
    BY <1>3, <2>2 DEF DiscoveryIInv, DiscoveryTypeOK, Advert, links
  <2>4. OwnersAge'
    BY <1>1, <1>3, <2>2 DEF DiscoveryIInv, OwnersAge
  <2>5. EndsAreNoted'
    BY DEF DiscoveryIInv, EndsAreNoted, Advert, links, Up
  <2>6. QED
    BY <2>3, <2>4, <2>5 DEF DiscoveryIInv
<1>6. QED
  BY <1>4, <1>5 DEF Advert

\* Home Assistant forgets an entry.
LEMMA ForgetKeeps ==
  ASSUME DiscoveryIInv, NEW n \in Nodes, Forget(n)
  PROVE  DiscoveryIInv'
<1>1. Long \in 0 .. Long
  BY DiscoveryAssumption DEF Long
<1>2. /\ merged' \in [Nodes -> [by : Scanners \cup {Nothing}, age : 0 .. Long]]
      /\ \A m \in Nodes : m # n => merged'[m] = merged[m]
      /\ merged'[n].by = Nothing
  BY <1>1 DEF DiscoveryIInv, DiscoveryTypeOK, Forget
<1>3. DiscoveryTypeOK' /\ EndsAreNoted'
  BY <1>2 DEF DiscoveryIInv, DiscoveryTypeOK, EndsAreNoted, Forget, links, Up
<1>4. OwnersAge'
  BY <1>2 DEF DiscoveryIInv, OwnersAge, Forget
<1>5. QED
  BY <1>3, <1>4 DEF DiscoveryIInv

\* Everything ages alike, and the link that ended last stays the youngest end.
LEMMA TickKeeps ==
  ASSUME DiscoveryIInv, Tick
  PROVE  DiscoveryIInv'
<1>1. MaxAge \in Nat /\ Long \in Nat
  BY DiscoveryAssumption DEF Long
<1>2. /\ lastHeard \in [Nodes -> [Scanners -> 0 .. Long]]
      /\ merged \in [Nodes -> [by : Scanners \cup {Nothing}, age : 0 .. Long]]
      /\ ended \in 0 .. MaxAge /\ released \in [Nodes -> 0 .. MaxAge]
  BY DEF DiscoveryIInv, DiscoveryTypeOK
<1>3. /\ \A age \in 0 .. Long : Older(age, Long) \in 0 .. Long
      /\ \A age \in 0 .. MaxAge : Older(age, MaxAge) \in 0 .. MaxAge
  BY <1>1, OlderIs
<1>4. /\ lastHeard' \in [Nodes -> [Scanners -> 0 .. Long]]
      /\ \A n \in Nodes, s \in Scanners : lastHeard'[n][s] = Older(lastHeard[n][s], Long)
  BY <1>2, <1>3 DEF Tick
<1>5. /\ merged' \in [Nodes -> [by : Scanners \cup {Nothing}, age : 0 .. Long]]
      /\ \A n \in Nodes : merged'[n].by = merged[n].by /\ merged'[n].age = Older(merged[n].age, Long)
  BY <1>2, <1>3 DEF Tick
<1>6. /\ ended' \in 0 .. MaxAge /\ released' \in [Nodes -> 0 .. MaxAge]
      /\ ended' = Older(ended, MaxAge) /\ \A n \in Nodes : released'[n] = Older(released[n], MaxAge)
  BY <1>2, <1>3 DEF Tick
<1>7. DiscoveryTypeOK'
  BY <1>4, <1>5, <1>6 DEF DiscoveryIInv, DiscoveryTypeOK, Tick, links
<1>8. OwnersAge'
  BY <1>2, <1>4, <1>5 DEF DiscoveryIInv, OwnersAge
<1>9. EndsAreNoted'
  <2>1. \A a, b \in 0 .. MaxAge : a <= b => Older(a, MaxAge) <= Older(b, MaxAge)
    BY <1>1 DEF Older
  <2>2. /\ main' = main /\ extras' = extras /\ lost' = lost /\ (Forever => lost = {})
    BY DEF Tick, links
  <2>3. QED
    BY <1>2, <1>6, <2>1, <2>2 DEF DiscoveryIInv, EndsAreNoted, Up
<1>10. QED
  BY <1>7, <1>8, <1>9 DEF DiscoveryIInv

\* What happens to the links leaves what was heard alone.
LEMMA LinksKeepAges ==
  ASSUME DiscoveryIInv, UNCHANGED air, extras' \subseteq Nodes,
         ended' \in 0 .. MaxAge, released' \in [Nodes -> 0 .. MaxAge]
  PROVE  DiscoveryTypeOK' /\ OwnersAge'
BY DEF DiscoveryIInv, DiscoveryTypeOK, OwnersAge, air

LEMMA ReleaseIs ==
  ASSUME DiscoveryIInv, NEW nodes, Release(nodes)
  PROVE  released' \in [Nodes -> 0 .. MaxAge]
<1>1. 0 \in 0 .. MaxAge
  BY DiscoveryAssumption
<1>2. QED
  BY <1>1 DEF DiscoveryIInv, DiscoveryTypeOK, Release

\* Links are made, dropped, let go of one by one, and torn down.
LEMMA LinksKeep ==
  ASSUME DiscoveryIInv,
         \/ TearDown
         \/ \E n \in Nodes : \/ LinkDrops(n) \/ FanoutDrops(n) \/ JoinEnds(n)
                             \/ \E others \in SUBSET (Nodes \ {n}) : Connect(n, others)
  PROVE  DiscoveryIInv'
<1>1. /\ ended \in 0 .. MaxAge /\ 0 \in 0 .. MaxAge /\ released \in [Nodes -> 0 .. MaxAge]
      /\ extras \subseteq Nodes /\ Nothing \notin Nodes
  BY DiscoveryAssumption DEF DiscoveryIInv, DiscoveryTypeOK
<1>2. CASE TearDown
  <2>1. /\ UNCHANGED air /\ main' = Nothing /\ extras' = {} /\ lost' = {}
        /\ Release(HeldNodes \ lost) /\ ended' = IF main \in lost THEN ended ELSE 0
    BY <1>2 DEF TearDown
  <2>2. DiscoveryTypeOK' /\ OwnersAge'
    BY <1>1, <2>1, ReleaseIs, LinksKeepAges
  <2>3. Forever => ended' = 0
    BY <2>1 DEF DiscoveryIInv, EndsAreNoted
  <2>4. \A n \in Nodes : 0 <= released'[n]
    BY <2>2 DEF DiscoveryTypeOK
  <2>5. EndsAreNoted'
    BY <2>1, <2>3, <2>4 DEF EndsAreNoted
  <2>6. QED
    BY <2>2, <2>5 DEF DiscoveryIInv
<1>3. ASSUME NEW n \in Nodes, LinkDrops(n) PROVE DiscoveryIInv'
  <2>1. /\ UNCHANGED air /\ main' = main /\ extras' = extras /\ ended' = 0 /\ Release({n}) /\ HeldNodes # {}
    BY <1>3 DEF LinkDrops
  <2>2. Up /\ Up'
    BY <2>1, HeldAreUp DEF Up
  <2>3. DiscoveryTypeOK' /\ OwnersAge'
    BY <1>1, <2>1, ReleaseIs, LinksKeepAges
  <2>4. EndsAreNoted'
    BY <2>1, <2>2 DEF EndsAreNoted
  <2>5. QED
    BY <2>3, <2>4 DEF DiscoveryIInv
<1>4. ASSUME NEW n \in Nodes, FanoutDrops(n) PROVE DiscoveryIInv'
  <2>1. /\ UNCHANGED air /\ ended' = ended /\ lost' = lost \ {n} /\ Release({n} \ lost) /\ HeldNodes # {}
        /\ extras' \subseteq extras /\ (main' \in extras \/ main' = main)
    BY <1>4 DEF FanoutDrops
  <2>2. Up /\ Up'
    BY <1>1, <2>1, HeldAreUp DEF Up
  <2>3. DiscoveryTypeOK' /\ OwnersAge'
    BY <1>1, <2>1, ReleaseIs, LinksKeepAges
  <2>4. EndsAreNoted'
    BY <2>1, <2>2 DEF DiscoveryIInv, EndsAreNoted
  <2>5. QED
    BY <2>3, <2>4 DEF DiscoveryIInv
<1>5. ASSUME NEW n \in Nodes, JoinEnds(n) PROVE DiscoveryIInv'
  <2>1. /\ UNCHANGED air /\ UNCHANGED <<main, lost, ended, released>>
        /\ extras' = extras \/ (Up /\ extras' = extras \cup {n})
    BY <1>5 DEF JoinEnds
  <2>2. DiscoveryTypeOK' /\ OwnersAge'
    BY <1>1, <2>1, LinksKeepAges
  <2>3. EndsAreNoted'
    BY <2>1 DEF DiscoveryIInv, EndsAreNoted, Up
  <2>4. QED
    BY <2>2, <2>3 DEF DiscoveryIInv
<1>6. ASSUME NEW n \in Nodes, NEW others \in SUBSET (Nodes \ {n}), Connect(n, others) PROVE DiscoveryIInv'
  <2>1. /\ UNCHANGED air /\ UNCHANGED <<lost, ended, released>> /\ main' = n /\ extras' \subseteq Nodes
    BY <1>6 DEF Connect
  <2>2. DiscoveryTypeOK' /\ OwnersAge'
    BY <1>1, <2>1, LinksKeepAges
  <2>3. EndsAreNoted'
    BY <1>1, <2>1 DEF DiscoveryIInv, EndsAreNoted, Up
  <2>4. QED
    BY <2>2, <2>3 DEF DiscoveryIInv
<1>7. QED
  BY <1>2, <1>3, <1>4, <1>5, <1>6

\* A slot that is taken or left, and the looks that only start a join.
LEMMA LooksKeep ==
  ASSUME DiscoveryIInv, UNCHANGED <<lastHeard, merged, links, ended, released>>, free' \subseteq Nodes
  PROVE  DiscoveryIInv'
BY DEF DiscoveryIInv, DiscoveryTypeOK, OwnersAge, EndsAreNoted, links, Up

LEMMA DiscoveryNextKeeps == DiscoveryIInv /\ [DiscoveryNext]_discoveryVars => DiscoveryIInv'
<1> SUFFICES ASSUME DiscoveryIInv, [DiscoveryNext]_discoveryVars PROVE DiscoveryIInv'
  OBVIOUS
<1>1. free \subseteq Nodes
  BY DEF DiscoveryIInv, DiscoveryTypeOK
<1>2. CASE Tick
  BY <1>2, TickKeeps
<1>3. CASE \/ TearDown
           \/ \E n \in Nodes : \/ LinkDrops(n) \/ FanoutDrops(n) \/ JoinEnds(n)
                               \/ \E others \in SUBSET (Nodes \ {n}) : Connect(n, others)
  BY <1>3, LinksKeep
<1>4. CASE LateLook \/ ProbeFires \/ \E n \in Nodes : ProxySeen(n)
  <2>1. UNCHANGED <<air, links, ended, released>>
    BY <1>4 DEF LateLook, ProbeFires, ProxySeen
  <2>2. QED
    BY <1>1, <2>1, LooksKeep DEF air
<1>5. ASSUME NEW n \in Nodes, Switch(n) PROVE DiscoveryIInv'
  <2>1. UNCHANGED <<lastHeard, merged, links, ended, released>> /\ free' \subseteq Nodes
    BY <1>1, <1>5 DEF Switch
  <2>2. QED
    BY <2>1, LooksKeep
<1>6. ASSUME NEW n \in Nodes, Forget(n) \/ \E by \in SUBSET Near[n] : Advert(n, by) PROVE DiscoveryIInv'
  BY <1>6, ForgetKeeps, AdvertKeeps
<1>7. CASE UNCHANGED discoveryVars
  <2>1. UNCHANGED <<air, links, ended, released>>
    BY <1>7 DEF discoveryVars
  <2>2. QED
    BY <1>1, <2>1, LooksKeep DEF air
<1>8. QED
  BY <1>2, <1>3, <1>4, <1>5, <1>6, <1>7 DEF DiscoveryNext

\* The inductive invariant of discovery: the snapshot is as old as its owner says, and
\* under keep-alive 0 no link ends without being noted.
THEOREM EndsAreAlwaysNoted == DiscoverySpec => []DiscoveryIInv
<1>1. QED
  BY DiscoveryStarts, DiscoveryNextKeeps, PTL DEF DiscoverySpec

\* What the lookup misses: a node that neither the owner of its entry nor any scanner
\* that keeps timestamps has heard within the limit, and no link of ours held of late.
MissedIsSilent ==
  ~ Up =>
    \A n \in free :
      \/ merged[n].by = Nothing
      \/ released[n] >= MaxAge /\ \A s \in Timestamped \cup {merged[n].by} : lastHeard[n][s] > MaxAge
      \/ n \in FindProxies(HeldTheSlotRecently, {})

LEMMA MissedIs ==
  ASSUME Forever, DiscoveryIInv
  PROVE  MissedIsSilent
<1>1. SUFFICES ASSUME ~ Up, NEW n \in free, merged[n].by # Nothing, n \notin FindProxies(HeldTheSlotRecently, {})
               PROVE  released[n] >= MaxAge /\ \A s \in Timestamped \cup {merged[n].by} : lastHeard[n][s] > MaxAge
  BY DEF MissedIsSilent
<1>2. /\ n \in Nodes /\ merged[n].by \in Scanners /\ merged[n].age \in 0 .. Long
      /\ ended \in 0 .. MaxAge /\ released[n] \in 0 .. MaxAge
      /\ \A s \in Scanners : lastHeard[n][s] \in 0 .. Long
  BY <1>1 DEF DiscoveryIInv, DiscoveryTypeOK
<1>3. MaxAge \in Nat /\ Long \in Nat /\ Timestamped \subseteq Scanners
  BY DiscoveryAssumption DEF Long
<1>4. ~ HeldTheSlotRecently /\ ~ (AdvertAge(n) <= MaxAge)
  BY <1>1, <1>2 DEF FindProxies
<1>5. released[n] >= MaxAge
  <2>1. ended <= released[n] /\ ~ (ended < MaxAge)
    BY <1>1, <1>2, <1>4 DEF DiscoveryIInv, EndsAreNoted, HeldTheSlotRecently
  <2>2. QED
    BY <1>2, <1>3, <2>1
<1> DEFINE told == {merged[n].age} \cup {lastHeard[n][s] : s \in Timestamped}
<1>6. ~ (merged[n].age <= MaxAge) /\ ~ (Min(told) <= MaxAge)
  BY <1>4 DEF AdvertAge
<1>7. \A s \in Timestamped : ~ (lastHeard[n][s] <= MaxAge)
  <2>1. told \subseteq Nat /\ told # {} /\ \A s \in Timestamped : lastHeard[n][s] \in told
    BY <1>2, <1>3
  <2> HIDE DEF told
  <2>2. Min(told) \in Nat /\ \A age \in told : Min(told) <= age
    BY <2>1, MinOfNumbers
  <2>3. \A age \in told : ~ (age <= MaxAge)
    BY <1>3, <1>6, <2>1, <2>2
  <2>4. QED
    BY <2>1, <2>3
<1>8. lastHeard[n][merged[n].by] = merged[n].age
  BY <1>1, <1>2 DEF DiscoveryIInv, OwnersAge
<1>9. \A s \in Timestamped \cup {merged[n].by} : ~ (lastHeard[n][s] <= MaxAge) /\ lastHeard[n][s] \in Nat
  <2>1. \A s \in Scanners : lastHeard[n][s] \in Nat
    BY <1>2
  <2>2. QED
    BY <1>2, <1>3, <1>6, <1>7, <1>8, <2>1
<1>10. QED
  BY <1>3, <1>5, <1>9

\* While nothing is held, a node the lookup passes over is one that has been silent for
\* the owner of its entry and for every scanner with timestamps, and whose slot no link
\* of ours held of late.
THEOREM OnlySilentNodesAreMissed ==
  ASSUME Forever
  PROVE  DiscoverySpec => []MissedIsSilent
<1>1. DiscoveryIInv => MissedIsSilent
  BY MissedIs
<1>2. QED
  BY <1>1, EndsAreAlwaysNoted, PTL

\* Where every scanner keeps timestamps, the lookup misses no live node.
THEOREM LiveNodesAreFound ==
  ASSUME Forever, Timestamped = Scanners
  PROVE  DiscoverySpec => []LiveNodeIsFound
<1>1. DiscoveryIInv => LiveNodeIsFound
  BY MissedIs DEF MissedIsSilent, LiveNodeIsFound
<1>2. QED
  BY <1>1, EndsAreAlwaysNoted, PTL

\* An entry is dropped only once no scanner has heard the node for long.
HeardIsKept == \A n \in Nodes : merged[n].by = Nothing => \A s \in Scanners : lastHeard[n][s] = Long

LEMMA HeardIsKeptStays ==
  ASSUME DiscoveryIInv, HeardIsKept, [DiscoveryNext]_discoveryVars
  PROVE  HeardIsKept'
<1>1. DiscoveryTypeOK /\ Nothing \notin Scanners
  BY DiscoveryAssumption DEF DiscoveryIInv
<1>2. CASE UNCHANGED <<lastHeard, merged>>
  BY <1>2 DEF HeardIsKept
<1>3. CASE Tick
  <2>1. \A n \in Nodes : merged'[n].by = merged[n].by
    BY <1>1, <1>3 DEF Tick, DiscoveryTypeOK
  <2>2. \A n \in Nodes, s \in Scanners : lastHeard'[n][s] = Older(lastHeard[n][s], Long)
    BY <1>3 DEF Tick
  <2>3. Older(Long, Long) = Long
    BY DiscoveryAssumption DEF Older, Long
  <2>4. QED
    BY <2>1, <2>2, <2>3 DEF HeardIsKept
<1>4. ASSUME NEW n \in Nodes, Forget(n) PROVE HeardIsKept'
  BY <1>1, <1>4 DEF Forget, HeardIsKept, DiscoveryTypeOK
<1>5. ASSUME NEW n \in Nodes, NEW by \in SUBSET Near[n], Advert(n, by) PROVE HeardIsKept'
  <2>1. \A m \in Nodes : m # n => lastHeard'[m] = lastHeard[m]
    BY <1>1, <1>5 DEF Advert, DiscoveryTypeOK
  <2>2. by \subseteq Scanners
    BY DiscoveryAssumption
  <2>3. merged'[n].by # Nothing /\ \A m \in Nodes : m # n => merged'[m] = merged[m]
    BY <1>1, <1>5, <2>2 DEF Advert, DiscoveryTypeOK
  <2>4. QED
    BY <2>1, <2>3 DEF HeardIsKept
<1>6. UNCHANGED <<lastHeard, merged>> \/ Tick
      \/ \E n \in Nodes : Forget(n) \/ \E by \in SUBSET Near[n] : Advert(n, by)
  <2>1. CASE TearDown \/ LateLook \/ ProbeFires \/ UNCHANGED discoveryVars
    BY <2>1 DEF TearDown, LateLook, ProbeFires, discoveryVars, air
  <2>2. ASSUME NEW n \in Nodes, Switch(n) \/ LinkDrops(n) \/ FanoutDrops(n) \/ ProxySeen(n) \/ JoinEnds(n)
               \/ \E others \in SUBSET (Nodes \ {n}) : Connect(n, others)
        PROVE  UNCHANGED <<lastHeard, merged>>
    BY <2>2 DEF Switch, LinkDrops, FanoutDrops, ProxySeen, JoinEnds, Connect, air
  <2>3. QED
    BY <2>1, <2>2 DEF DiscoveryNext
<1>7. QED
  BY <1>2, <1>3, <1>4, <1>5, <1>6

\* A node that some scanner with timestamps has heard of late is young enough,
\* whatever its entry says.
LEMMA HeardIsYoung ==
  ASSUME DiscoveryTypeOK, NEW n \in Nodes, NEW s \in Timestamped, lastHeard[n][s] <= MaxAge
  PROVE  AdvertAge(n) <= MaxAge
<1> DEFINE told == {merged[n].age} \cup {lastHeard[n][t] : t \in Timestamped}
<1>1. CASE merged[n].age <= MaxAge
  BY <1>1 DEF AdvertAge
<1>2. CASE ~ (merged[n].age <= MaxAge)
  <2>1. told \subseteq Nat /\ told # {} /\ lastHeard[n][s] \in told /\ MaxAge \in Nat
    <3>1. MaxAge \in Nat /\ Long \in Nat /\ Timestamped \subseteq Scanners
      BY DiscoveryAssumption DEF Long
    <3>2. merged[n].age \in 0 .. Long /\ \A t \in Scanners : lastHeard[n][t] \in 0 .. Long
      BY DEF DiscoveryTypeOK
    <3>3. QED
      BY <3>1, <3>2
  <2>2. AdvertAge(n) = Min(told)
    BY <1>2 DEF AdvertAge
  <2> HIDE DEF told
  <2>3. Min(told) \in Nat /\ Min(told) <= lastHeard[n][s] /\ lastHeard[n][s] \in Nat
    BY <2>1, MinOfNumbers
  <2>4. QED
    BY <2>1, <2>2, <2>3
<1>3. QED
  BY <1>1, <1>2

\* The safety half of StragglersAreTried: neither the late look nor the periodic tick
\* passes over a node that could be joined, for any scanners, limits and keep-alive.
THEOREM NoStragglerIsPassedOver == DiscoverySpec => LooksMissNobody
<1>1. DiscoveryInit => HeardIsKept
  BY DEF DiscoveryInit, HeardIsKept
<1>2. DiscoveryIInv /\ HeardIsKept /\ [DiscoveryNext]_discoveryVars => HeardIsKept'
  BY HeardIsKeptStays
<1>3. ASSUME DiscoveryIInv, HeardIsKept, LateLook \/ ProbeFires, Up, Cardinality(HeldNodes) <= MaxExtra,
             NEW n \in Nodes \ HeldNodes, late[n] = Retry, NEW s \in Timestamped, lastHeard[n][s] <= MaxAge
      PROVE  n \in joining'
  <2>1. AdvertAge(n) <= MaxAge
    BY <1>3, HeardIsYoung DEF DiscoveryIInv
  <2>2. merged[n].by # Nothing
    <3>1. lastHeard[n][s] # Long /\ s \in Scanners
      BY <1>3, DiscoveryAssumption DEF Long
    <3>2. QED
      BY <1>3, <3>1 DEF HeardIsKept
  <2>3. n \in FindProxies(FALSE, HeldNodes)
    BY <1>3, <2>1, <2>2 DEF FindProxies
  <2>4. JoinLateNodes
    BY <1>3 DEF LateLook, ProbeFires
  <2>5. QED
    BY <1>3, <2>3, <2>4 DEF JoinLateNodes, MaybeJoinLate
<1> DEFINE Passes == (LateLook \/ ProbeFires) /\ Up /\ Cardinality(HeldNodes) <= MaxExtra =>
                       \A n \in Nodes \ HeldNodes :
                         late[n] = Retry /\ (\E s \in Timestamped : lastHeard[n][s] <= MaxAge) => n \in joining'
<1>4. DiscoveryIInv /\ HeardIsKept => [Passes]_discoveryVars
  BY <1>3
<1>5. QED
  BY <1>1, <1>2, <1>4, EndsAreAlwaysNoted, PTL DEF DiscoverySpec, LooksMissNobody
=============================================================================
