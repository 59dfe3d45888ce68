# A TLA+ development of ha-bluetooth-mesh

`custom_components/bluetooth_mesh` is a Home Assistant integration that drives
Bluetooth Mesh lamps through GATT proxies, on top of the mesh stack in
`src/btmesh`. This directory models the parts of it that are hard to test:
what happens when links, timers, answers, crashes and commands interleave. TLC
checks the models on small instances; TLAPS proves their safety properties, and five
refinements, for every value of the constants.

    tlc -config seq_crash.cfg MCSeqCursor      # one run
    tlapm SeqCursorProofs.tla                  # the proofs

`PROJECT.json` lists the components, the runs, the source lines each definition
stands for (`map`), the slips that show each property can fail (`mutants`), the
hazards of the code, and where the code and its own words disagree (`findings`).

## 1. The system

Everything runs on one asyncio loop: no two statements interleave, but every
`await` lets any other task or callback in. One `asyncio.Lock` in the
coordinator serialises whatever opens or uses a link; it is held across
awaits of a radio, and several things deliberately do not take it.

| component | state it keeps | operations | talks to |
|---|---|---|---|
| **Coordinator: cursor** (`coordinator.py`) | `_seq`, `_iv_index`, `_saved_seq`, the Store file, the file of v0.9.0 | `_load_state`, `_persist`, `_flush_state`, `_adopt_iv_index` | gives the cursor to each `MeshController`, reads it back after a command |
| **Coordinator: links** | `_client`, `_extra_clients`, `_controller`, `_fanout`, `_proxy_addresses`, `_link_by_bearer`, `_joining` | `_ensure_connected`, `_connect_extra_links`, `_async_join_late`, `_on_link_dropped`, `_on_client_disconnected`, `_async_reconnect`, `_teardown`, idle timer, `async_stop` | bleak clients; the fan-out calls back when a bearer drops |
| **Coordinator: recovery** | `_available`, `_fail_count`, `_backoff`, `_next_attempt`, the refusal streak, `_issue_kind`, the probe timer | `_probe_callback`, `_on_proxy_seen`, `_async_probe`, `_set_available`, `_set_unavailable`, `_note_refusal`, `_proxy_restarted` | Bluetooth adverts, Home Assistant's repairs, listeners (the lights) |
| **Discovery** (`mesh_transport.py`, `coordinator.py`) | `_link_ended_at`, `_late_link_attempts`, `_joining`, the late look | `find_proxy_address(es)`, `_advert_age`, `_join_late_nodes`, `_maybe_join_late` | Home Assistant's advert snapshot and its scanners |
| **FanoutBearer** (`fanout.py`) | the bearers in use | `start`, `send`, `add` | one `GattProxyBearer` per link |
| **MeshController** (`controller.py`) | TID, the last beacon, the filter | one method per command, `start`, `stop`, `refresh_proxy_filter` | `MeshNode`, `TxPump` |
| **MeshNode** (`node.py`) | `_waiters`, `_last_rx_seq`, `_assemblers` and two timers per source | `request`, `send_access`, `_handle_network`, `_handle_access`, `close` | its callers; the pump |
| **SegmentAssembler** (`transport.py`) | one transfer of one source | `add`, `block_ack`, `pending` | `MeshNode` |
| **BearerPump**, **GattBearer**, **proxy SAR** | the TX queue; the reassembly buffer | `put`, `flush`, `stop`; `send`, notifications | bleak |
| **Lights** (`light.py`) | shown state, snapshots of group members | commands, refresh, settle, rollback | the coordinator |
| **Config entry** (`__init__.py`, `config_flow.py`) | the stored export, source and options | import, reconfigure, options, set-up, unload, removal | the coordinator it creates |
| **Network model** (`network_model.py`) | none: a parsed export | `free_unicast`, the choice of AppKey, the elements | coordinator, lights |
| **Provisioner** (`provisioner.py`) | the stage of the exchange, its keys | one step per PDU | the provisioning bearer |
| **Provisioning tool** (`phase0/provision_and_toggle.py`) | the state file: keys, devices, SEQ | provision, configure, toggle | `Provisioner`, `MeshNode` |

The hard behaviours, and what makes each component correct:

- *A process may die at any moment*, and what it sent cannot be taken back.
  Nodes drop a number they have seen, in silence. Correct: no number goes out
  twice under one IV Index, whatever crashes, drops or restarts (`SeqCursor`;
  `Phase0` for the tool; `Entry` across removal and re-import).
- *Links come and go outside the lock.* Each node has one slot. Correct: every
  open client has exactly one owner; the address list, the fan-out and the
  clients agree; stopping frees everything (`ProxyLinks`).
- *Four paths reconnect*, and nodes must be left alone after a failure. Correct:
  automatic attempts respect the wait, whatever was queued before it began;
  the repair shown is the one that fits; what answers is found again
  (`Recovery`).
- *A node's silence is ambiguous*: dead, heard by another scanner, or kept quiet
  by our own link. Correct: no live node is overlooked, and one that was
  missed is tried again (`Discovery`).
- *One PDU takes several links at once*, in frames of several sizes. Correct: each
  link is a queue; no link is lost track of; what is reported sent was sent
  (`Channel`).
- *Answers carry no correlation.* They are late, lost, repeated, unasked, or
  heard twice. Correct: calls are answered in order, exactly when the link is
  calm, and nobody is left waiting (`MeshRequest`).
- *Segments arrive in any order from many sources*, with timers running.
  Correct: bounded memory, nothing invented, delivered once (`SegmentRx`,
  `SeqAuth`).
- *A light shows what was asked before it is true.* Correct: once it is quiet it
  shows what its lamp answered, and what was answered is done (`LightState`).
- *Exports, options and restarts rewrite what an entry stores.* Correct: no choice
  is undone, and the keys, addresses and elements in use fit the export
  that is running (`Entry`).
- *A handshake can end half-way on either side.* Correct: what is recorded is
  provisioned, with an address of its own (`Phase0`).

`PROJECT.json` lists each hazard at its line with the properties that cover it,
or why none does.

## 2. The modules

| module | models | run | proofs |
|---|---|---|---|
| `SeqCursor` | SEQ cursor, IV Index, Store files, crash and restart | `seq_crash`, `seq_faults`, `seq_fresh_iv_update` | `SeqCursorProofs` |
| `ProxyLinks` | GATT clients, fan-out, late join, drop, stop | `links` | `ProxyLinksProofs` |
| `Recovery` | probes, back-off, availability, repairs | `recovery` | `IntegrationProofs` |
| `Discovery` | adverts, the snapshot, the silence rule, late looks | `discovery` | `EntryProofs` |
| `MeshRequest` | `request()` and the way back of a Status | `request` | `NodeProofs` |
| `SegmentRx` | reassembly, acknowledgments, the table of sources | `segments` | `NodeProofs` |
| `SeqAuth` | the SEQ a segmented message is decrypted under | | `NodeProofs` |
| `Channel` over `ProxyPdu` | pump, fan-out, bearers, the proxies' reassembly and filters | `channel` | `ChannelProofs` |
| `Fifo` | abstract: a queue per link that may close | by `channel` (`ImplementsFifo`) | `ChannelProofs` |
| `Session` | abstract: the lock and its one controller | refined by `SeqCursor`, `ProxyLinks`, `Recovery`, `LightState` | with each of them |
| `LightState` over `LightMessages` | lights, groups and their lamps | `lights` | `IntegrationProofs` |
| `Entry` over `Lamps`, `NetworkModel` | the life of a config entry and what is derived from its export | `entry` | `EntryProofs` |
| `Phase0` over `Provisioner`, `ProvPdu`, `ConfigMessages` | runs of the provisioning tool | `provisioning` | `Phase0Proofs` |

Each `MC` module only adds definitions that a `.cfg` needs as constants. A
definition whose comment begins with *Slip* is a plausible bug in the one next to
it; no specification uses it, it is there to show that a property notices.
`ListLemmas` has the facts about lists that five of the proof modules share.

The modules meet where the code does. `ProxyLinks` is the lock and the clients;
`Recovery` says when it is entered, `Discovery` with which nodes, `SeqCursor`
what it spends. `Channel` starts where `ProxyLinks` has handed over a set of
bearers and ends where `MeshRequest` begins to wait for an answer; `LightState`
takes `_run_connected` as one call that is answered or not; `Entry` creates and
removes the coordinator that all of these are about. What `SeqCursor`, `ProxyLinks`, `Recovery`
and `LightState` each assume of the lock is one abstract specification, `Session`. The vendored
`custom_components/bluetooth_mesh/btmesh` is a byte-for-byte copy of `src/btmesh`, and
is what the integration imports: `Channel`, `LightState` and `LightMessages` map the
copy, the other modules the original.

### Session

The coordinator has one lock, one controller under it, and four modules that look at
it from a side of their own: the number it begins with, its links, when it comes up, what its calls
do. `Session` is what they have in common: a controller comes up only where none is
held, one call at a time uses it, nobody takes it from under a call, and a coordinator
that has stopped holds none. Each of the four says in its own variables what `held`,
`calling` and `stopped` are (`ImplementsSession`, `CallsImplementSession`), and is proved
to implement it. So `SeqCursor` may hand a cursor to a controller in one step and read it
back in another: in `ProxyLinks`, where the same connect has an await per link and a command may
be cancelled in it, nobody else gets between. A connect in flight is
hidden here, since two of the four connect in one step. `Restarts` lets the process die
(`SeqCursor`); elsewhere it does not. Added to `links.cfg`, `recovery.cfg`,
`seq_crash.cfg`, `seq_faults.cfg` and `lights.cfg` these properties hold.

### SeqCursor

`disk` and `legacy` are the files; `seq`, `iv`, `saved` the coordinator's memory;
`txSeq`, `txIv`, `beacon` the live controller. `LoadStored`, `LoadLegacy`, `RemoveLegacy`,
`LoadNothing` and `FlushAtStart` follow `async_start`, one action per await. `Connect`, `JoinLate`, `CommandBegin`, `CommandSend`, `CommandEnd`,
`Teardown` and `AckOutsideCommand` spend numbers or read them back. A command ends done, failed or
cancelled (`Endings`): `_run_connected` handles `Exception`, which a cancellation is not, so a
cancelled command leaves after the `finally` block, where a newer IV Index has been adopted, and
never reaches the teardown that belongs to it (`coordinator.py:1096`). `cut` marks the link that
stays then, on the older index. `DelayedWrite` is the Store's timer; `Stop` and `Crash` end the process. What a PDU says is left out: only its
number counts. `spent` is a history variable: per IV Index, the first number
nobody has used.

- `NoSeqReuse`: what goes out next is above all that went out before.
- `CrashLossUnderMargin`: a start from the file on disk would be, too.
- `HeldLinkUsesAdoptedIv`: between commands the held link encrypts with the index in use, or a
  cancelled command left it on an older one while nobody has sent anything under the one in use.
- `IvNeverRegresses`, `CursorNeverLost`.
- `SafeCursor`: the inductive strengthening of the first three, proved (section 3).

`seq_crash` has crashes and IV Updates but no failing write; `seq_faults` adds
failing writes and acknowledgments sent between commands. What cannot hold then is not
claimed: after a failed write no margin is promised. Bounds: `Margin = 6`
with `CmdPdus = 3` and `WriteWindow = 1` makes the margin exactly what is needed
(`Half - 1 + Burst + WriteWindow = 2 + 3 + 1`), so one PDU more breaks the
property; `SeqLimit = 16` (10 in `seq_faults`) allows two restarts with commands between them and is
the 24-bit limit as well, so that it is reached; `MaxIv = 2` allows an update upon
an update.

*Timing assumed.* A write of the Store is atomic (it writes a new file and
renames it). An urgent write lands before more than `WriteWindow` PDUs have left:
the code asks for it with a delay of 0, and nothing waits for it. It is not put off either: a later
`_persist` may ask for a longer delay, but the Store's own timer of 0 has run by then. `Connect` does
not happen while such a write is pending: a connect takes seconds. `IvSettles` says
that a new IV Index is announced only when the one in use is on disk with a cursor above 0:
the specification of Mesh keeps an index for at least 96 hours. With the values
of the code, `SEQ_SAFETY_MARGIN = 32`, the theorem's hypothesis is
`15 + Burst + WriteWindow <= 32`.

### ProxyLinks

A client is one `BleakClient` with its bearer. `op` says who holds the lock and at
which await; a step of the holder is one action up to the next await
(`ConnectMain`, `ConnectExtra`, `ExtrasDone`, `Subscribe`, `StartEnds`,
`CommandEnds`, ...). Outside the lock: `Drop` (bleak's callback), `LinkDropped` (from
the pump, when the fan-out gives a bearer up), the connect of a late join, and
disconnects in the background. `Cancelled` ends a command's task at one of the
awaits of `CancelAt`.

`links` has two nodes, a client more than there are slots, and both settings of
keep-alive, so a drop, a reconnect and a late join can each be under way when
the entry is unloaded.

- `NoLeakedLink`: each open client has exactly one owner.
- `LinksAreTracked`: addresses, fan-out and clients, which code elsewhere trusts to
  agree, do: the addresses are the nodes of the links in use, once each, within
  the limit, and the fan-out's callback knows just these links.
- `StopFreesEverySlot`: after `async_stop` every slot becomes free and stays so. Its safety half,
  `StopLeavesOnlyJoins`, is proved: once it has returned, only late joins in flight have a link.

Fairness: every await ends, because connects and calls have timeouts and a
disconnect returns; nothing is assumed of drops, adverts or commands. With two
nodes the limit of extra links never bites; three nodes are out of reach of the
liveness check. A new client is any unused one that no reconnect still names.

### Recovery

The link is one value here (`none`, `up`, `dropped`, `dead`); the lock is `op`, the tasks
that wait for it `queue`. Time is counted in retry intervals: `Tick` counts down
the wait and the probe timer; a timer that has run out may be late. `NoteRefusal`,
`SetUnavailable`, `BackOff` and `SetAvailable` are the four functions that
keep the books, called in the order of the code by `Miss`, `ConnectFails` and
`ConnectSucceeds`. `answers` is the world: while it is FALSE an attempt
misses or fails, and who refused is chosen freely.

- `NoAttemptInsideWait`: nothing automatic connects inside the wait. The probe
  checks it under the lock; the watchdog does not, and the property shows
  the comment's argument for that: a drop follows a success, which cleared it.
- `RepairMatchesOutage`, `LinkClearsTheSlate`: counters, repair and availability
  agree in every order of misses, refusals, successes and stops.
- `AccusedForAReason`: `outcomes` remembers who refused; a proxy is named only
  after that many refusals of its own in a row.
- `Recovers`, `PermanentLinkReturns`: once a node answers, the timer alone
  brings availability, and with keep-alive 0 the link, back. `ProbeComesBack`, their safety half, is
  proved: the chain of timer and probe neither ends nor doubles.

Bounds: `Threshold` and `StuckAt` are 2 (3 and 3 in the code: equal there too, so
that both repairs can be the first); counters stop there because nothing
above is told apart. `Cap = 4` gives two doublings; `ProbeSlow = 3` is unequal to
every wait. Fairness: time passes, timers run, a connect and a call end with their
timeouts, and a task that waits for the lock gets it (strong fairness: `asyncio.Lock`
serves in turn, but commands may take it in between). Adverts and
commands owe nothing.

### Discovery

`free` are the nodes that are powered and whose one slot no app holds; a node is
on the air while it is free and not linked to us. `heard` is each scanner's own
timestamp, `entry` Home Assistant's merged one with the scanner that owns it:
`Advert` may leave an entry with an owner that no longer hears the node,
which is what freezes its age. `FindProxies`, `AdvertAge` and `HeldTheSlotRecently` are the
lookup; `Connect`, `LinkDrops`, `FanoutDrops` and `TearDown` move the links and stamp their
end; `ProxySeen`, `LateLook`, `ProbeFires` and `JoinEnds` the late joins. `released` is a
history: how long ago a link of ours to a node ended.

- `LiveNodeIsFound`: while nothing is held, the lookup misses no node that some
  scanner hears, nor one that was silent only because we held it.
- `StragglersAreTried`: a node that stays on the air beside the held links, with
  room for it, is joined, or dialled again and again, without a second advert callback.
  Its safety half, `LooksMissNobody`, is proved: no look at the snapshot passes over one.

Bounds: a node between two scanners and one in range of the first only make a
frozen entry and one straggler (`Near`). A tick is the limit on an advert's age,
30 s; `FirstLook` and `Retry` are the code's one and two ticks, an age above the limit is
one value (`Long`), and the probe is 1 tick where the code has 4, which also
passes and takes three times as long. Fairness: time passes (strongly: other
steps keep disabling it for a moment), timers and joins end, a node on the air
is heard, a drop is answered by a reconnect. The advert callback is promised
nothing. Assumed: every node advertises our Network ID, scanners are
connectable, the order in which the snapshot lists nodes is arbitrary. A scanner without
timestamps (`Timestamped`, local adapters before habluetooth 5) leaves the merged
age standing; the run has none.

### MeshRequest

All requests are to one node with one answer opcode, since others never meet in
the list of waiters. `phase` follows `request()`: waiting in `wait_for`; `late` when the
timer has cancelled the future but the caller has not run yet; done. `said` is the node's
own sequence of Statuses; `air` what each link still has to deliver. `MaxOdd`
bounds messages lost, repeated or said unasked.

`request`: two commands behind the lock and one call that is not (a refresh of
configuration), one link. `AnswersInOrder`; `PairedExactly` while `calm`;
`EveryCallRuns` under fairness of the loop's own steps only. `Deliver` walks the waiters as
the code does: the first whose future is not done takes the Status. The names this
module shares with `SegmentRx` carry `Request`, so that `NodeProofs` extends both. A Status that comes
after its call has timed out does answer the next call to that node: there is
nothing in the message to tell, so no property denies it.

### SegmentRx and SeqAuth

`table` is the `OrderedDict` of assemblers; `current`, `parts` and `complete` the
assembler of each source; `ackTimer` and `dropTimer` the timers that run. Any segment of
any transfer may arrive at any moment, any number of times. Four transfers
from three sources, one to a group, at a table for two: evictions, restarts and
single-segment messages all happen. `MaxCopies = 2` stops at the second delivery of
a message, which is what `DeliveredOnce` is about.

`TableIsBounded` (the limit, and that each timer has its entry and each pending entry
its timer), `NothingInvented`, `DeliveredOnce`, `ConfirmedIsDelivered`. Deliveries are counted
where the assembler returns a message: one that then fails to decrypt has been
acknowledged already, which is listed as a hazard.

`SeqAuth` is the arithmetic of `_seq_auth` on its own.

### Channel, ProxyPdu and Fifo

`Put`, `Take`, `Flush` and `Stop` are `BearerPump`; `Start`, `Join`, `SendEnds` and `Drop`
`FanoutBearer`; `Write`, `WriteFails` and `LateSubscribe` one `GattBearer` each. `ProxyPdu` cuts
a payload into frames and has the proxy's reassembler, so what a proxy puts together
(`got`) comes out of its frames and is not assumed. `Filtered` is the proxy's accept
list. A PDU is its number, kind and size; `mark` remembers what was queued
when a flush was called.

- `ImplementsFifo`: with `got` for what each link delivered, every step is a step
  of `Fifo`: what comes out of a link is what was put in, in order, once, with no gap,
  from the first PDU on or, for a link that joins, from some later one on; a closed
  link delivers no more.
- `EveryLinkHasAnOwner`: a link is in use or its owner was told to free it, and
  between two messages no link in use has half a frame.
- `GroupSetLeft`: a flush that did not fail put the group Set out whole on some link.
- `JoinedLinksAnswer`: a link that joined has claimed its filter too.
- `FlushEnds`: a flush ends unless the pump dies under it.

Bounds: frames of 4, 2 and 3 octets cut a PDU of 3 into one, three and two;
five PDUs are two filter claims and a command. Fairness: the pump's task runs and
a write ends, one way or the other. The exception in `FlushEnds` is real:
`task_done()` is never called for the PDU a dying pump held, and the command's timeout
is what ends the wait. `Queue.join()` also waits for PDUs queued after the flush began.

### LightState and LightMessages

`cache` is what each entity shows, `written` what Home Assistant was last told, `seen` what
the group rendered of it; `lamp` is the lamps. A command is a record in `cmd`, with the call it
is at; `holder` has the lock and `reply` is what its call will return: the
parsed Status, or nothing when it was lost or did not parse (`LightMessages` has what
each parser demands, and which answers a command of the controller waits for). `Send`/`Answer` are one call of a
light, `SendGroup`/`AnswerGroup` of a group, `SendRefresh`/`AnswerRefresh` of the re-read that
`Reconnect` starts. `CommandCancelled` ends a command of a light or of a group at whatever it awaits,
the lock or its answer: its coroutine has no `try`, so nothing settles and nothing is put back.
Lamps fade, change by a wall switch, and may scale their
temperature the other way round (`Inverted`): then what is shown is what is sent, mirrored around the
middle of the limits the light exposes (`pivot`, the sum of the two). These are assumed at first
(`Assumed`) and replaced once by the lamp's own (`Ranges`), under whatever is shown or under way then;
what a Set carries is worked out before it waits for the lock (`carries`) and is kept to what the message
can say (`Sent`).

- `UnansweredIsNoState`: a light with nothing under way shows an on-state that its
  lamp answered, a group Set carried or a cancelled command left, or what it showed before.
- `ShownIsTrue`: and it is what the lamp does, for every attribute not touched
  since by anyone else; a temperature, as the limits exposed now mirror it. After a cancelled command
  nothing vouches for what it touched, until a read has answered; after a range that moves the
  mirror, nothing for a temperature.
- `DoneMeansDone`: a command whose calls were all answered has done what it says.

`spoiled` and `said` are histories for the first two: `spoiled` marks attributes for
which nothing vouches, after a change from outside, a Set met with silence, a cancelled command or a moved
mirror.
Bounds: a lamp with temperature, a relay the user disabled, the group over both; one
command at a time beside refreshes; two commands (`MaxTurns`) and one change from
outside, unreadable Status, drop (a pump that fails under a group's PDU among them) or cancelled
command (`MaxOdds`). The run compares states by `View`, without what no step and no property of the run reads: `written`,
`seen` and `cut`, which are `NothingUnwritten`'s, and what a command cannot fall back to any more.
`MCTunable` in place of `MCMode` has the temperature on the main element. A
message carries one of two temperatures. The range a lamp answers with (`MCRanges`) is refused as invalid,
or moves the mirror from the middle of the two to the lower one, which puts a temperature the light has
shown outside what can be sent.

### Entry, Lamps and NetworkModel

`NetworkModel` parses a document (a record of what the export says, entries that do
not parse marked so) and has `free_unicast`, the choice of AppKey and the groups;
`Lamps` has which lights exist and which element each of their messages goes to.
`Entry` runs `ImportNetwork`, `Reconfigure`, `OpenOptions`, `SubmitOptions`, `SetUp`,
`SetUpFails`, `Send`, `Unload`, `RemoveEntry` and `Restart` over two entries and five exports:
one that splits a lamp over elements, one that grew, one that lost nodes and got a new NetKey, one of
the same subnet without a mesh UUID, and a broken one; the UUID of the others is in upper case, so that
the file's name differs from it. What stands for the network is a different thing in three places: Home Assistant tells entries
apart by their unique id (`uid`); the cursor's file has its name, in lower case (`Name`, `Store`);
and the nodes refuse an old number by the NetKey it comes under (`NetKey`, `heard`). Where the
three do not agree is part of the model: an entry from before 0.4.0 may have the empty id
(`IsIdOf`), exports of one subnet may have different ids, and an entry that is removed leaves its
coordinator running when the platforms would not unload (`RemoveEntry`).

- `EveryMirrorIsAChoice`: the mirrored lamps are those the user ticked, and those
  the seed mirrored about which the user has said nothing.
- `CursorAhead`: no coordinator sends a number that the nodes under its NetKey have heard, as long
  as the subnet was driven under one name (`named`) and that name's file had one coordinator at a time
  (`crossed`). Without the exceptions it is false, in four ways: section 4.
- `SourceIsNobodys`: messages never come from the address of an element.
- `KeyTheLampsKnow`: the AppKey is the one most models are bound to, of those held.
- `LampsAnswer`: messages go to elements that have the model, every dimmer is
  driven by one light, no group is the pseudo-group of all nodes.

The elements, nodes and groups a parser keeps are sets of positions in the document, since
what does not parse is skipped and only the order of the rest matters. `WellMade` is
what an export says of a network that follows the Mesh specification: the elements of a node are
listed in the order of their indexes, each has an address nobody shares, and a CTL server comes with the
Lightness server it extends; `WellMadeExport` adds that no group has the address of the
pseudo-group. `MCEntry` assumes it, so TLC evaluates it for the five exports.

The saved cursor is written with each message: when it is written is the subject of
`SeqCursor`. `StoredEntries` is the shape of what Home Assistant stores, and `MostBound` the
choice among the held keys, each named because the proofs speak of it.
Bounds: one message per subnet (`MaxSent`) is enough to be heard twice; one source to enter, that some of the
exports own. `FormsWait` keeps an export from being replaced under an open
options form. Entries are interchangeable, so the symmetry is sound (no
liveness in that run).

### Phase0, Provisioner, ProvPdu and ConfigMessages

`HandlePdu` of `Provisioner` is `handle_pdu`, a function from a state and a PDU to the next
state and what is sent; keys, randoms and confirmations are terms, equal only
if made from the same parts. `ProvPdu` and `ConfigMessages` say what each PDU carries
and what the decoders refuse. `Phase0` is the tool around it: `RunBegins` loads the
state file, `Found` picks a device, `ToDevice`, `ToUs`, `Lost`, `Stray` and `WriteFails` carry the handshake,
`Recorded` writes the device, `Ask`, `Leaves` and the answers configure and toggle. `NoFile` is the state file before the first save. A
run ends by its `finally` (`Ends`, which saves), or is `Killed`, which saves
nothing.

- `RecordedIsProvisioned`: what the file says of a device is true of it.
- `AddressesDisjoint`: recorded nodes share no address, all elements counted, nor
  will the next.
- `NoSeqTwice`: no number leaves twice, over runs and kills.
- `HonestHandshakeRecords`: a handshake that meets no fault is recorded.

Bounds: two runs, two faults (PDUs lost or stray, failed writes), a lamp of two elements with a
label and a relay without; the user may mistype the label. Fairness: PDUs that
are on their way arrive. A stray Complete only comes after the device has become a node,
since before that no device says it; a reset is only of nodes nobody recorded.

## 3. What is proved

`SeqCursorProofs` (for all constants that satisfy the named assumptions of `SeqCursor`):

- `TypeCorrect`: `Spec => []TypeOK`.
- `SafeCursorAlways`: under `Faultless`, `SafeCursor` is invariant. `Faultless` is a
  hypothesis about constants only: writes land, nothing is sent between commands,
  the IV Index settles, and the margin covers half of itself less one, one command or
  filter set-up, and the window of an urgent write.
- `NoSeqReuseAlways`, `CrashLossAlwaysUnderMargin`, `HeldLinkCurrentUnlessCut` (`HeldLinkUsesAdoptedIv`) follow.
- `CursorIsNeverLost` and `IvNeverGoesBack` hold without `Faultless`; so does
  `CursorIsASession` (`Spec => ImplementsSession`), whatever write fails and wherever the
  process dies.

Why `SafeCursor` is needed: `NoSeqReuse` says nothing of the file, so it does not
survive a crash; `CrashLossUnderMargin` says nothing of how far the air is
ahead of the file, so it does not survive a command. `WriteKeepsUp` bounds that
distance in each state of the write: less than half a margin while a write is
merely delayed, and half a margin, a burst and the window while one is urgent; a link that a cancelled
command left is not newer than the file. `MemoryCovers` and
`LinkFollowsMemory` carry `NoSeqReuse` from controller to memory to controller;
`StartIsQuiet` says that a start sends nothing before its flush. The proof has
one lemma per action; the arithmetic is in each lemma's last step.

`IntegrationProofs` has `Recovery` first (for all constants that satisfy `RecoveryAssumption`:
any thresholds, intervals, cap and set of proxies):

- `SafeRecoveryAlways`: `SafeRecovery` is invariant. From it `RecoveryTypes`,
  `LinkAlwaysClearsTheSlate`, `RepairAlwaysMatchesOutage` and `StoppedForGood`.
- `WaitIsHonoured` (`Spec => NoAttemptInsideWait`), `WaitEndsEarlyForAReason`
  (`Spec => WaitEndsForAReason`) and `AccusedIsGuilty` (`Spec => AccusedForAReason`), about steps.
- `ProbeAlwaysComesBack`: `ProbeComesBack` is invariant.
- `RecoveryIsASession`: `Spec => ImplementsSession`.

Why `SafeRecovery` is needed: that the watchdog starts outside the wait follows
from no gate of its own. `LockMatchesLink` says that a watchdog waits only for a link
that is still held (whoever drops it in between finds its client replaced), and
`LinkClearsTheSlate` that a held link has no wait; `LockMatchesLink` also keeps a
failed attempt from happening beside a link. `StreakIsRemembered` ties the counter
`_refusals` to the attempts it counts: without it a counter that has reached
`STUCK_PROXY_FAILURES` says nothing of who refused. One lemma shows each of
`SetUnavailable`, `BackOff`, `NoteRefusal` and `Schedule` to keep its part of the
books, `EnsureKeeps` puts them together for whoever takes the lock, and
`QuietKeeps` covers the steps that leave the books alone.

Then `LightState`, for all lights, groups, modes, brightnesses, temperatures, and any number of
commands at a time:

- `LightsKeepTheirBooks`: `LightInv`, the invariant, which has `LightTypeOK` in it.
- `QuietLightsShowTheTruth` (`ShownIsTrue`) and `AnsweredCommandsAreObeyed` (`DoneMeansDone`, about steps).
- `SilenceLeavesNoState` (`UnansweredIsNoState`), with the hypothesis `OneCommand`: no two commands run at a
  time. With two it is false (section 4).
- `NothingStaysUnwritten` (`NothingUnwritten`): what a quiet light shows is what Home Assistant was told, and
  what a group over it has rendered, except a light whose own command was cancelled and that
  nothing has written since (`cut`). `WrittenInv` says who still owes a write: a command of the
  light's own between two of its calls, or a read that has had its first answer.
- `CallsAreASession`: `LightSpec => CallsImplementSession`.

Why `LightInv` is needed: `ShownIsTrue` speaks of lights with nothing under way only, so it says
nothing of what a command leaves when it ends. `FallsBackTo` is the state a light would be
left in were no further call of its command answered, from the snapshot or the optimistic
request by attribute; `LeftAlone` says of a command nothing else has touched that this state is
true wherever something vouches for it. `InFlight` says that the answer a command or a refresh has
not taken yet is what the lamp is; `Resting` is the claim for the lights without a command, those
whose refresh is under way included. A second command or a change from outside makes the first no longer
alone (`Disturbed`), and then nothing vouches for its lights until they are read again: that is why
`ShownIsTrue` needs no `OneCommand`. `SaidInv`, for `SilenceLeavesNoState`, is the same about `said`: what a
snapshot or an answer in flight has for the on-state is one of those the light may show.

`NodeProofs`, about a `MeshNode`:

- For all transfers, sources, lengths, table sizes: `AssemblersAgree` (the invariant), `TableBounded`,
  `NeverInvents`, `NoSecondDelivery`, `ConfirmedWasDelivered`. The properties speak of histories; what ties
  these to the node is `FirstLife`: a transfer that was never given up is either the one
  its source's assembler is at, with the acknowledged segments among those that are
  held, or one nothing is known of. `Tracked` says that the table has just the sources
  with an assembler, `Assembled` that "complete" means all segments and a delivery.
- `SeqAuthRecoversFirst`: whichever segment comes last, with any `seq` less than 8192 above
  the first segment's, the function returns the first segment's SEQ. Rests on `NextWindow`,
  about quotients by 8192.
- For all calls, retransmissions and commands, and any number of links: `CallsAgree`, and from it
  `WaitersStayTheCalls` and `TimeoutStaysHonest`. For one link (`OneLink`, a hypothesis on the constant
  `Links`) `AnswersStayInOrder` and `PairedExactlyAlways`. With two links both are false
  (section 4), so the hypothesis is where the code's word ends. `AirInOrder` says that what a
  link still has to deliver is in the node's order and not before the last one taken;
  `OlderFirst` that a call which began before an answered one was answered earlier or has ended
  without; `CalmPairs` that without a fault the Statuses said and the requests on their way are,
  in order, those of the calls that have begun.

`Phase0Proofs`, for all devices, AuthValues, numbers of runs and faults: `BooksAgree` (the invariant),
`NoSeqLeavesTwice`, `AddressesAlwaysDisjoint`, `RecordedAreProvisioned`, `DataOnlyAfterProof`. `FileFollows` says
that a run knows nothing the file does not have, except which model it bound, which is why a kill
loses no number; `SeqAhead` puts the file ahead of the pump and the pump ahead of the air.
`RecordedIsProvisioned` needs the handshake followed to its end: `Partner`, `DataArrives`, `CapsArrive`
and `ProofsArrive` tie what is on its way to the state of the Provisioner, so that
the tool sees Complete only from a node that has the address the file gets.

`EntryProofs`, for all entries, exports that `StorageAssumption` admits and whatever the user enters:
`EntriesAgree` (the invariant), `CursorStaysAhead` (`CursorAhead`), `SourceIsAlwaysNobodys`, `KeyIsAlwaysKnown`, and, with the hypothesis
`FormsWait`, `MirrorsStayChosen`: without it the property is false (section 4). `LampsAlwaysAnswer` (`LampsAnswer`) has the
hypothesis that every export a coordinator can run on is well made: an export in which two nodes share an
address, or one that lists the elements of a node in another order, makes it false, and the code
does not look. The proof follows a light from its output: the element its messages go to is the
output itself or, for the temperature, the first one behind it that hosts the model, before the next output. `StorageAssumption` is that an entry from before the options
has an id of its export's network, which is the empty one where an early version found no mesh UUID, that an export binds
finitely many keys, that its keys are a list and their indexes numbers, and that what is stored is
none of the values for nothing. `FileAhead` says of a subnet with one name that its file is ahead of it,
and of a coordinator that keeps a file alone that it is not behind the file; `NamesNoted` that `named`
and `crossed` miss no coordinator that runs. So nothing is assumed of which ids may meet:
two entries on one file are noted, not excluded. `OneEntryPerId` says what ids do promise. `FormsFollow` says that an open
form shows the lamps of the export that is stored. The lemmas on `NetworkModel` show that
`free_unicast` returns an address of no element, or none, and that `MostBound` exists.

The module goes on with `Discovery`, for all nodes, scanners, intervals and limits of extra links: `EndsAreAlwaysNoted`
(`DiscoveryIInv`, the invariant), `OnlySilentNodesAreMissed` and `LiveNodesAreFound` (`LiveNodeIsFound`). `OwnersAge` says that
the merged entry is as old as what its owner last heard, so an entry that is too old was heard
by another scanner only; `EndsAreNoted` that no link of ours ended after the last end that was noted, which is
why the exception of the silence rule covers the nodes we held. Both theorems have the hypothesis `Forever`, keep-alive 0:
without it the property is false (section 4). The second also has `Timestamped = Scanners`, as in the run: where a scanner keeps
no timestamps, `OnlySilentNodesAreMissed` says what is left, that a node passed over has been
silent for the owner of its entry. `NoStragglerIsPassedOver` (`LooksMissNobody`, about steps) needs neither: it rests on
`HeardIsKept`, that an entry is gone only once no scanner has heard its node for long.

`ChannelProofs`, for all links, frame sizes, PDU sizes and numbers of PDUs: `ChannelAgrees` (the invariant),
`EveryLinkOwned`, `GroupSetsLeave`, `JoinedAnswer`, `ClaimedBeforeCommand`, and `LinksAreFifos`: `Spec => ImplementsFifo`,
the refinement. `SegmentBegins` describes the frames a PDU is cut into and one lemma what the proxy's
reassembler does with the next of them; `UnderWay` says that the frames left of the PDU in
hand go on where the proxy's buffer ends. So a message comes out when its last frame
does and not before. `QueueInOrder` and `NoneLeftOut` number the PDUs: the queue has those that follow,
and a link's last one is the one before the PDU in hand. Each step of `Channel` is
then a `Deliver` of one link, a `GiveOrClose`, or a stutter.

`ProxyLinksProofs`, for all nodes, clients in flight, limits of extra links: `LinksAgree` (the invariant,
wherever a command may be cancelled), `ListsStayTracked`, and `NoLinkLeaked`, with the hypothesis
`CancelledSafely`: `CancelAt` has none of the awaits at which the lock holder has links that
it has not handed over. Without it the property is false: section 4. `OwnedOnce` and `NoneLost` say
for each client that is alive who has it: the coordinator, the lock holder (by the await it
is at, `HolderFits`) or a late join, exactly one of them. `ListsAgree` is positional: the
addresses are the nodes of the main link, while the fan-out has it, and of the extra links
in order. `JoinsFit` says what a late join found under the lock stays so until it adds its link.
`LinksAreASession` (`Spec => ImplementsSession`), wherever a command is cancelled, and `StopFreesTheRest`
(`StopLeavesOnlyJoins`), under `CancelledSafely`, need one thing more, `LockFits`: a call and a late join that adds
its link have a controller, and once `async_stop` has torn it down whoever gets the lock only closes what is left.

`ListLemmas` has `Append`, `Tail`, removal, concatenation and their ranges, for lists that hold nothing
twice and for any, and `Min` and `Max` of sets of numbers up to a bound. The library
proves such facts by induction with an operator as parameter, which is not available here:
they are proved from the positions, and a least element by an infinite descent on finite sets.

The invariants were found with TLC, on the instances of the runs; they are no run's
invariants now that they are proved for every instance.

Only model-checked: liveness (`StopFreesEverySlot`, `EveryCallRuns`, `Recovers`, `PermanentLinkReturns`,
`StragglersAreTried`, `FlushEnds`, `HonestHandshakeRecords`) stays with TLC for good: the prover has no rule
for it here. Of the first, the third and the fifth the safety half is proved. Induction over data and recursive
operators are out of reach too; none of the modules uses `RECURSIVE`.

Some properties are stated in the modules and belong to no run, because a stronger or a
more telling one of the same module has the place: `TypeOK` of each module,
`WaitersAreTheCalls` and `TimeoutIsHonest` (`MeshRequest`), `Books` and `FilterBeforeCommand` (`Channel`),
`NothingUnwritten` (`LightState`), `DataAfterProof` (`Phase0`), `WaitEndsForAReason`, `ProbeComesBack` and `StaysStopped`
(`Recovery`), `StopLeavesOnlyJoins` (`ProxyLinks`), `LooksMissNobody` (`Discovery`), `ImplementsSession` and
`CallsImplementSession`. All are proved, and added to the `.cfg` of their module's run they hold
(`lights` then without its `VIEW`).

## 4. Where the code and its words disagree

`seq_fresh_iv_update` ends in a counterexample: a cursor restarted from 0 to 0 is not
seen as restarted (`coordinator.py:1418`), and its write waits 10 s.

The others below are found by TLC when a constant of a run or a definition is changed, or a
stated property added, as said; the run itself stays where the code keeps its word.

| change to a run | violated | what the code does |
|---|---|---|
| `seq_crash`: `IdleAcks = 1`, `MaxIv = 0` | `NoSeqReuse` | Numbers spent by a Segment Ack between commands are not read back when the link is torn down (`node.py:297`); the next link uses them again. |
| `seq_crash`: `HeldLinkUsesAdoptedIv` without its second case | `HeldLinkUsesAdoptedIv` | The teardown of a link on an old IV Index is behind the `finally` block (`coordinator.py:1096`), where a cancelled command does not come; "drop it so the next command rebuilds a controller on the new one" (1097). The next command runs on the old link, its numbers are read back as if they were of the new index (1088), and the idle timer is not armed until then. |
| `links`: `CancelAt = {"start"}` | `NoLeakedLink` | The cleanup of a failed connect catches `Exception` (`coordinator.py:928`), not the cancellation of its task at the subscribe. |
| `request`: two links, `MaxOdd = 0`, every request a command | `AnswersInOrder` | Only an immediate repeat is dropped (`node.py:260`): with another Status between its two copies, one Status answers two calls. |
| `segments`: add `GroupNeverAcked` | `GroupNeverAcked` | The acknowledgment timer (`node.py:377`) holds the assembler, and acknowledges a group message that has taken its place; "only ever called for segments addressed to our own unicast" (`node.py:302`). |
| `lights`: add `SettlesOnAnswer` | `SettlesOnAnswer` | A re-read that answers while a set-lightness is under way is what the light shows after it (`light.py:665`), though the class says it settles "on what the node answered" (`light.py:208`). |
| `lights`: `Commands = {c1, c2}` | `UnansweredIsNoState` | Each of two overlapping commands takes what the other shows for the state to fall back to (`light.py:646`); "a Set that times out is not a state" (`light.py:211`). |
| `lights`: `CommandCancelled` without its change of `said` | `UnansweredIsNoState` | A cancelled command (a restarted script) leaves what it showed: `async_turn_on` and its siblings have no `try` around their awaits (`light.py:665`); "a Set that times out is not a state" (`light.py:211`). |
| `lights`: `Moves` FALSE, so that a range leaves the shown temperature vouched for | `ShownIsTrue` | The range moves the mirror's pivot and leaves the temperature shown as the old one mirrored it (`light.py:453`), until the read behind it answers. It is noted as read before it is asked for (`light.py:448`): when its answer is lost, the light mirrors around the assumed limits for good, which the comment at 444 accepts. |
| `provisioning`: add `ConfiguresUntilBound` | `ConfiguresUntilBound` | The control model is noted before its bind succeeds (`provision_and_toggle.py:661`), and that note is how `--toggle-only` knows of a bind; the comment at 813 says a run "still (re)configures when no successful bind was ever recorded". |
| `entry`: `FormsWait = FALSE` | `EveryMirrorIsAChoice` | What the form could not show is worked out when it is submitted, from the export of that moment (`config_flow.py:197`): a lamp that was re-imported meanwhile loses its mirror, against "keep it rather than drop a choice nobody saw". |
| `entry`: add `CursorAlwaysAhead` | `CursorAlwaysAhead` | "Keyed on the NETWORK, not on the config entry" (`coordinator.py:229`), the cursor can still be behind: (a) an entry from before 0.4.0 keeps its empty unique id, so the network is imported a second time beside it (`config_flow.py:111`), and two coordinators keep one file; (b) exports of one subnet with and without a mesh UUID have two files; (c), with a sixth export that differs from the first in the case of its UUID: such UUIDs are two entries and one file (`coordinator.py:237`); (d) an entry whose platforms would not unload is removed, and its coordinator runs on (`__init__.py:110`) beside that of the re-imported network. |
| `discovery`: `Forever = FALSE` | `LiveNodeIsFound` | `_teardown` notes the end of a main link that is still up (`coordinator.py:1176`). If the main link dropped half a minute before, the extra links that end here leave their nodes taken for silent, which `_held_the_slot_recently` is there to prevent. |

Seen while modelling, in the code's behaviour as modelled or next to it:

- Links. A link that drops between its subscribe and `set_disconnected_callback` is noticed
  by the next command only, even with keep-alive 0; so is a pump that died while
  the link stays up. The address list changes when an extra link is promoted
  (`coordinator.py:755`) without telling listeners, so the sensor shows the old proxy.
- Recovery. A refusal streak can span a restart of the accused proxy when no
  advert was acted on in between.
- Discovery. In the seconds after a link ended the silence rule is lifted for all
  nodes, so one that died long ago may be dialled first.
- Sending. `refresh_proxy_filter` clears the filter before it adds to it; between the two, or
  for as long as the second write fails, the proxy forwards nothing.
  `FanoutBearer` says a message is segmented once, but each child does it for its own frame.
- Lights. A refresh can read brightness 0 between an off command and its settling. A
  rollback restores what was shown before it, over news of other attributes. A
  Lightness Status of 0 counts as lit. A member restored by a group's failed Set loses
  what it was told meanwhile. A refresh that finds no link and
  reconnects is not started again by that new link (`coordinator.py:1489`).
- Entry. Addresses in the option of mirrored lamps outlive the lamp: one that takes the
  address later arrives mirrored. The list holds node addresses; a light of a node with
  several outputs is looked up by its element's (`light.py:186`), so only its first
  output, if that is the node's primary element, can be mirrored. An entry that has the empty id
  is never reconfigured: every export is of another network then (`config_flow.py:151`).
- Provisioning tool. A lost Complete leaves a node nobody recorded, whose address the
  next device gets too. A stray PDU after Complete, before the tool's task runs,
  throws a provisioned device's key away. `control_model` is one key for all devices of the file.

## 5. Not modelled, and why

Byte formats and cryptography (`crypto.py`, `beacon.py`, `proxy_config.py`, the encodings of
`access.py` and `prov_pdu.py`) have no state and are pinned by published vectors; of `access.py` and
`prov_pdu.py` the models have what the parsers refuse. Keys in `Phase0` are terms. Forms,
diagnostics and the proxy sensor only show what other parts hold. The other tools of `phase0` and
`scripts` are not part of the integration. The TID of a command and the milliseconds of a
transition are left out. The
stand-alone transports of `bearer.py` (scanning, ESPHome wiring) are used by the
tools only; a connect is one step of `Phase0`.

Abstractions worth remembering: `Discovery` connects in one step (how it may fail half-way is
`ProxyLinks`), and a failed connect changes nothing there; `LightState` has no lock
queue (who gets the lock is free), and a Status there answers the call it was sent for: `MeshRequest` says
when that is so (`PairedExactly`, while the link is calm), and that after a timeout a late Status may answer
the next call; `Recovery` has one link; `Entry` writes the cursor at once.

## 6. Plan

Every module is written, every run checked, and every safety property of the runs proved. What is left:

1. that the parts fit is shown for the lock and its controller (`Session`); not for the answer of a
   call, which `LightState` takes from its lamp and `MeshRequest` from a list of waiters. A
   refinement would need the lamps' Statuses in `MeshRequest`, with late ones in `LightState`;
2. liveness, which TLC checks on the instances of the runs only;
3. the five hazards without a property in `PROJECT.json`: the property that would cover each is false of
   the code as it stands, as their notes and section 4 say.
