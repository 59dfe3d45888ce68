-------------------------------- MODULE Entry --------------------------------
(***************************************************************************)
(* The life of a config entry: the import, the reconfigure and the options *)
(* flows, set-up with the seed of the mirrored lamps, unload, removal and  *)
(* restart - and what the running coordinator derives from the stored      *)
(* export.  Home Assistant's part (stages of an entry, unique ids, reload) *)
(* is modelled as this integration uses it.                                *)
(*                                                                         *)
(* An entry is told from another by its unique id; the cursor is kept in a *)
(* file under the network's name; and the nodes refuse an old number by    *)
(* the NetKey it comes under.  The three need not agree.                   *)
(*                                                                         *)
(* The cursor of SeqCursor appears here only as the file it is kept in:    *)
(* when it is written is that module's subject.                            *)
(***************************************************************************)
EXTENDS Lamps

CONSTANTS
  Entries,     \* entry ids
  Documents,   \* names of the exports the user may paste
  Contents,    \* [Documents -> document]
  OldEntries,  \* [doc, uid] of entries that predate the option of mirrored lamps
  SrcChoices,  \* source addresses the user enters, 0 to derive one
  MaxSent,     \* bound: messages sent per network
  FormsWait,   \* TRUE when no export is replaced under an open options form
  Lower(_),    \* a name in lower case
  Absent,      \* the option was never stored
  None

ASSUME EntryAssumption ==
  /\ Contents \in [Documents -> Range(Contents)]
  /\ SrcChoices \subseteq Nat
  /\ MaxSent \in Nat
  /\ FormsWait \in BOOLEAN

VARIABLES
  entry,   \* [Entries -> data and options of the stored entry]
  stage,   \* [Entries -> what Home Assistant has done with it]
  coord,   \* [Entries -> the running coordinator, which may outlive its entry]
  form,    \* [Entries -> the lamps the open options form lists]
  saved,   \* [file -> the SEQ cursor in it]
  heard,   \* [NetKey -> numbers its nodes have heard from us]
  named,   \* [NetKey -> the names it was driven under]
  crossed, \* the names whose file two coordinators have kept at once
  choice,  \* [Entries -> [address -> what the user last said of that lamp]]
  seeded   \* [Entries -> lamps that were mirrored by the old vendor rule]

networks == <<heard, named, crossed>>
history == <<networks, choice, seeded>>
vars == <<entry, stage, coord, form, saved, history>>

----------------------------------------------------------------------------
(***************************************************************************)
(* What is derived from an export.                                         *)
(***************************************************************************)

Controlled == {"onoff", "lightness", "ctl", "temp"}

Net == [d \in {x \in Documents : Parses(Contents[x])} |-> FromConnect(Contents[d])]
Usable == DOMAIN Net

NetId(d) == Identifier(Net[d])
Networks == {NetId(d) : d \in Usable}

\* What the nodes know the network by.
NetKey(d) == Net[d].netKey
NetKeys == {NetKey(d) : d \in Usable}

\* The name its file has, of which upper and lower case make one.
Name(d) == Lower(NetId(d))
Names == {Name(d) : d \in Usable}

CtlLamps(d) == IF d \in Usable THEN {n.unicast : n \in CtlNodes(Net[d])} ELSE {}
LampAddresses == UNION {CtlLamps(d) : d \in Documents}

\* What is stored of an entry.
StoredEntries ==
  [doc : Documents, uid : Networks \cup {o.uid : o \in OldEntries},
   inverted : {Absent} \cup SUBSET LampAddresses, src : SrcChoices \cup {0}]

\* The id of an entry of this export: before 0.4.0 a network without a mesh UUID had
\* the empty one.
IsIdOf(uid, d) == uid = NetId(d) \/ (uid = "" /\ Net[d].uuid = "")

\* An entry has an id of its export's network; an export is finite, its keys are a list
\* and their indexes numbers.
ASSUME StorageAssumption ==
  /\ \A o \in OldEntries : o.doc \in Documents /\ (o.doc \in Usable => IsIdOf(o.uid, o.doc))
  /\ \A d \in Usable : IsFiniteSet(BoundAt(Net[d], Controlled)) /\ Held(Net[d]) \subseteq Nat
                     /\ 1 \in DOMAIN Net[d].appKeys
  /\ \A r \in StoredEntries : r # None
  /\ \A lamps \in SUBSET LampAddresses : lamps # Absent

\* Slip: a configured address is taken at its word.
ResolveAsConfigured(net, configured) ==
  IF configured \in Unicasts THEN configured ELSE FreeUnicast(net, UnicastMax)

\* A configured address that an element owns is refused, not honoured.
ResolveSrcAddr(net, configured) ==
  IF configured \in Unicasts \ UnicastAddresses(net) THEN configured
  ELSE FreeUnicast(net, UnicastMax)

\* Slip: the file of the cursor is the entry's, as it was up to 0.9.0.
StoreOfEntry(e, d) == e

\* The file of the cursor is the network's: it outlives the entry.
Store(e, d) == Name(d)

----------------------------------------------------------------------------
(***************************************************************************)
(* Flows.                                                                  *)
(***************************************************************************)

\* A new entry, with an id nothing has used, is created with the option present and
\* empty.
ImportNetwork(e, d) ==
  /\ entry[e] = None /\ coord[e] = None /\ d \in Usable
  /\ \A o \in Entries : entry[o] # None => entry[o].uid # NetId(d)
  /\ entry' = [entry EXCEPT ![e] = [doc |-> d, uid |-> NetId(d), inverted |-> {}, src |-> 0]]
  /\ stage' = [stage EXCEPT ![e] = "pending"]
  /\ UNCHANGED <<coord, form, saved, history>>

\* A changed entry is unloaded and set up again; one that would not unload
\* stays as it is until the next restart.
Reloaded(e) ==
  [stage EXCEPT ![e] = IF @ = "loaded" THEN "reload" ELSE IF @ = "error" THEN "pending" ELSE @]

\* Another network's export is refused.
Reconfigure(e, d) ==
  /\ entry[e] # None /\ d \in Usable /\ NetId(d) = entry[e].uid
  /\ FormsWait => form[e] = None
  /\ entry' = [entry EXCEPT ![e].doc = d]
  /\ stage' = Reloaded(e)
  /\ UNCHANGED <<coord, form, saved, history>>

OpenOptions(e) ==
  /\ entry[e] # None /\ form[e] = None
  /\ form' = [form EXCEPT ![e] = CtlLamps(entry[e].doc)]
  /\ UNCHANGED <<entry, stage, coord, saved, history>>

Stored(e) == IF entry[e].inverted = Absent THEN {} ELSE entry[e].inverted

\* Slip: the form replaces the whole option.
MergeAsShown(e, ticked) == IF form[e] = {} THEN entry[e].inverted ELSE ticked

\* The form replaces the lamps it lists; a lamp the export has no more keeps
\* its place, and a form without the field leaves the option as it is.
Merge(e, ticked) ==
  IF form[e] = {} THEN entry[e].inverted
  ELSE ticked \cup (Stored(e) \ CtlLamps(entry[e].doc))

\* The entry is reloaded when its options changed.
SubmitOptions(e, ticked, src) ==
  /\ form[e] # None /\ ticked \subseteq form[e]
  /\ entry' = [entry EXCEPT ![e].inverted = Merge(e, ticked), ![e].src = src]
  /\ form' = [form EXCEPT ![e] = None]
  /\ stage' = IF entry' = entry THEN stage ELSE Reloaded(e)
  /\ choice' = [choice EXCEPT ![e] =
       [a \in LampAddresses |->
          IF a \notin form[e] THEN @[a] ELSE IF a \in ticked THEN "on" ELSE "off"]]
  /\ UNCHANGED <<coord, saved, networks, seeded>>

----------------------------------------------------------------------------
(***************************************************************************)
(* Set-up and unload.                                                      *)
(***************************************************************************)

OldRule(d) == {n.unicast : n \in {m \in CtlNodes(Net[d]) : m.cid = "haefele"}}

\* _seed_inverted_ctl: once, for an entry that predates the option.
SeedInvertedCtl(d, inverted) == IF inverted = Absent THEN OldRule(d) ELSE inverted

\* An export this version cannot use is reported, nothing is started.
SetUpFails(e) ==
  /\ stage[e] = "pending"
  /\ \/ entry[e].doc \notin Usable
     \/ /\ entry[e].doc \in Usable
        /\ ResolveSrcAddr(Net[entry[e].doc], entry[e].src) = NoAddress
  /\ stage' = [stage EXCEPT ![e] = "error"]
  /\ UNCHANGED <<entry, coord, form, saved, history>>

Running == {e \in Entries : coord[e] # None}

\* async_setup_entry, with the coordinator's constructor and the load of its
\* cursor.
SetUp(e) ==
  /\ stage[e] = "pending" /\ entry[e].doc \in Usable
  /\ LET d == entry[e].doc
         inverted == SeedInvertedCtl(d, entry[e].inverted)
         src == ResolveSrcAddr(Net[d], entry[e].src)
     IN
     /\ src # NoAddress
     /\ coord' = [coord EXCEPT ![e] =
          [doc |-> d, src |-> src, key |-> AppKeyForModels(Net[d], Controlled),
           inverted |-> inverted, seq |-> saved[Store(e, d)]]]
     /\ entry' = [entry EXCEPT ![e].inverted = inverted]
     /\ seeded' = IF entry[e].inverted = Absent
                  THEN [seeded EXCEPT ![e] = OldRule(d)] ELSE seeded
     /\ named' = [named EXCEPT ![NetKey(d)] = @ \cup {Name(d)}]
     /\ crossed' = crossed \cup ({Name(d)} \cap {Name(coord[o].doc) : o \in Running \ {e}})
  /\ stage' = [stage EXCEPT ![e] = "loaded"]
  /\ UNCHANGED <<form, saved, heard, choice>>

Send(e) ==
  /\ coord[e] # None
  /\ LET k == NetKey(coord[e].doc) IN
     /\ heard[k] < MaxSent /\ coord[e].seq < MaxSent
     /\ heard' = [heard EXCEPT ![k] = Max({@, coord[e].seq + 1})]
  /\ coord' = [coord EXCEPT ![e].seq = @ + 1]
  /\ saved' = [saved EXCEPT ![Store(e, coord[e].doc)] = coord[e].seq + 1]
  /\ UNCHANGED <<entry, stage, form, named, crossed, choice, seeded>>

\* Only when the platforms let go is the coordinator stopped.
Unload(e) ==
  /\ stage[e] = "reload"
  /\ \/ stage' = [stage EXCEPT ![e] = "pending"] /\ coord' = [coord EXCEPT ![e] = None]
     \/ stage' = [stage EXCEPT ![e] = "stuck"] /\ UNCHANGED coord
  /\ UNCHANGED <<entry, form, saved, history>>

\* Removing an entry leaves the cursor's file behind, and the coordinator as well when
\* the platforms do not let go, now or earlier.
RemoveEntry(e) ==
  /\ stage[e] \in {"loaded", "reload", "stuck", "error"}
  /\ entry' = [entry EXCEPT ![e] = None]
  /\ stage' = [stage EXCEPT ![e] = "none"]
  /\ \/ stage[e] # "stuck" /\ coord' = [coord EXCEPT ![e] = None]
     \/ stage[e] # "error" /\ UNCHANGED coord
  /\ form' = [form EXCEPT ![e] = None]
  /\ choice' = [choice EXCEPT ![e] = [a \in LampAddresses |-> "none"]]
  /\ seeded' = [seeded EXCEPT ![e] = {}]
  /\ UNCHANGED <<saved, networks>>

Restart ==
  /\ coord' = [e \in Entries |-> None]
  /\ form' = [e \in Entries |-> None]
  /\ stage' = [e \in Entries |-> IF entry[e] = None THEN "none" ELSE "pending"]
  /\ UNCHANGED <<entry, saved, history>>

----------------------------------------------------------------------------
OldEntry(o) == [doc |-> o.doc, uid |-> o.uid, inverted |-> Absent, src |-> 0]

\* Whatever entries earlier versions made, each with an id of its own.
Init ==
  /\ entry \in [Entries -> {None} \cup {OldEntry(o) : o \in OldEntries}]
  /\ \A e, o \in Entries : e # o /\ entry[e] # None /\ entry[o] # None => entry[e].uid # entry[o].uid
  /\ stage = [e \in Entries |-> IF entry[e] = None THEN "none" ELSE "pending"]
  /\ coord = [e \in Entries |-> None]
  /\ form = [e \in Entries |-> None]
  /\ saved = [f \in Names \cup Entries |-> 0]
  /\ heard = [k \in NetKeys |-> 0] /\ named = [k \in NetKeys |-> {}] /\ crossed = {}
  /\ choice = [e \in Entries |-> [a \in LampAddresses |-> "none"]]
  /\ seeded = [e \in Entries |-> {}]

Next ==
  \/ \E e \in Entries :
       \/ \E d \in Documents : ImportNetwork(e, d) \/ Reconfigure(e, d)
       \/ OpenOptions(e)
       \/ \E ticked \in SUBSET LampAddresses, src \in SrcChoices : SubmitOptions(e, ticked, src)
       \/ SetUp(e) \/ SetUpFails(e) \/ Send(e) \/ Unload(e) \/ RemoveEntry(e)
  \/ Restart

Spec == Init /\ [][Next]_vars

----------------------------------------------------------------------------
(***************************************************************************)
(* Properties.                                                             *)
(***************************************************************************)

\* The lamps an entry mirrors are those the user ticked, and those the old
\* vendor rule mirrored for which the user has said nothing since: through
\* re-imports that lose and bring back a lamp, forms that cannot show it,
\* restarts and failed set-ups, no choice is undone and none is made for him.
EveryMirrorIsAChoice ==
  \A e \in Entries :
    entry[e] # None /\ entry[e].inverted # Absent =>
      entry[e].inverted = {a \in LampAddresses : choice[e][a] = "on"}
                          \cup {a \in seeded[e] : choice[e][a] = "none"}

\* A subnet that was only ever driven under one name, whose file one coordinator at a
\* time has kept.
OneBook(d) == named[NetKey(d)] = {Name(d)} /\ Name(d) \notin crossed

\* No coordinator sends a number that nodes of its subnet have heard: not after the
\* entry was removed and the network imported again under another entry, nor after
\* its NetKey was replaced, as long as the subnet has one name and that name one
\* coordinator at a time.
CursorAhead ==
  \A e \in Running : OneBook(coord[e].doc) => coord[e].seq >= heard[NetKey(coord[e].doc)]

\* "Keyed on the NETWORK", the cursor was to be ahead whatever is removed and imported
\* again.  It is not, where one subnet has two names or one file two coordinators.
CursorAlwaysAhead == \A e \in Running : coord[e].seq >= heard[NetKey(coord[e].doc)]

\* Messages are never sent from the address of an element of the network that
\* is running, whatever is configured and whatever export comes next.
SourceIsNobodys ==
  \A e \in Entries :
    coord[e] # None =>
      coord[e].src \in Unicasts \ UnicastAddresses(Net[coord[e].doc])

\* The keys an export holds that none of its others beats in bindings to the lamps.
KnownKeys ==
  [d \in Usable |->
     {i \in Held(Net[d]) :
        \A j \in Held(Net[d]) : Bindings(Net[d], Controlled, j) <= Bindings(Net[d], Controlled, i)}]

\* Commands are encrypted with a key of the export; when it holds any the lamps are
\* bound to, with the one of those that most models are bound to.
KeyTheLampsKnow ==
  \A e \in Entries : coord[e] # None => coord[e].key \in KnownKeys[coord[e].doc]

Hosted(net, address, ids) ==
  \E el \in UNION {Range(n.elements) : n \in Range(net.nodes)} :
    el.unicast = address /\ \E id \in ids : HasModel(el, id)

\* The addresses a light's commands and reads go to.
Uses(l) ==
  {l.onoff} \cup (IF l.mode = "onoff" THEN {} ELSE {l.lightness})
            \cup (IF l.mode # "color_temp" THEN {} ELSE {l.ctl, l.temp} \ {NoAddress})

\* And no group has the address of the pseudo-group of all nodes.
WellMadeExport(d) ==
  /\ WellMade(Net[d])
  /\ \A r, s \in Range(Contents[d].groups) : r.address = s.address => r.type = s.type

LightsAnswer(d, inverted) ==
  LET net == Net[d]
      lights == Lights(net, inverted)
  IN
  /\ \A l \in lights :
       /\ Hosted(net, l.onoff, {"onoff", "lightness"})
       /\ l.mode # "onoff" => Hosted(net, l.lightness, {"lightness"})
       /\ l.mode = "color_temp" =>
            /\ Hosted(net, l.ctl, {"ctl"})
            /\ l.temp # NoAddress => Hosted(net, l.temp, {"temp"})
  /\ \A l, k \in lights : l # k => Uses(l) \cap Uses(k) = {}
  /\ \A a \in UnicastAddresses(net) :
       Hosted(net, a, {"lightness"}) => \E l \in lights : l.lightness = a
  /\ \A g \in GroupLights(net, inverted) :
       /\ g.members \subseteq {l.unicast : l \in lights}
       /\ \A r \in Range(Contents[d].groups) : r.type = "all" => r.address # g.address

\* The exports, with the lamps mirrored, whose lights are all answered.
Answered ==
  UNION {{<<d, inverted>> : inverted \in {s \in SUBSET LampAddresses : LightsAnswer(d, s)}} : d \in Usable}

\* Every command of a light goes to an element that answers it, every dimmer
\* is driven by exactly one light, no two lights share an element, and a group
\* light commands lights of ours, never the pseudo-group of all nodes.
LampsAnswer ==
  \A e \in Entries : coord[e] # None => <<coord[e].doc, coord[e].inverted>> \in Answered
=============================================================================
