------------------------------- MODULE Phase0 -------------------------------
(***************************************************************************)
(* The provisioning tool: runs of provision_and_toggle over a state file,  *)
(* each provisioning a device (or taking a recorded one, --toggle-only),   *)
(* configuring it and switching it, against devices that may refuse, err   *)
(* or fall silent, over links that may fail; and the crash of a run.       *)
(*                                                                         *)
(* A run ends by its finally clause, which saves its state (Ends), or is   *)
(* killed (Killed).                                                        *)
(***************************************************************************)
EXTENDS Provisioner, ConfigMessages, Integers, FiniteSets

CONSTANTS
  Devices,
  Oob,        \* the static OOB value of each, None without
  Careless,   \* those that may go on without checking our confirmation
  Elements,   \* how many elements each has
  Models,     \* the control models of its primary element, of {"onoff", "lightness"}
  Values,     \* what --static-oob may be, None without
  MaxRuns,    \* bound: runs of the tool
  MaxFaults,  \* bound: lost or stray PDUs and failed writes
  Toggles     \* the Sets of a toggle loop

ASSUME Phase0Assumption ==
  /\ Elements \in [Devices -> Nat] /\ Models \in [Devices -> SUBSET {"onoff", "lightness"}]
  /\ MaxRuns \in Nat /\ MaxFaults \in Nat /\ Toggles \in Nat \ {0} /\ None \in Values

VARIABLES
  file,       \* the state file, NoFile before the first run
  state,      \* the run's copy of it, Fresh between two runs
  pc,         \* where the run is: "off", "scan", "handshake", "proxy", "appkey",
              \* "composition", "bind", "toggle"
  run,        \* what it is about: its device and address, whether it is --toggle-only
  prov,       \* its Provisioner
  done,       \* the Event, and
  errors,     \* the errors, that the handshake ends with
  toDevice,   \* the PDUs on their way to the device
  toUs,       \* and back
  pump,       \* the network PDUs put on the pump: what they ask, and their SEQ
  answers,    \* the answers on their way back
  request,    \* the attempts of the request under way, and the Sets done
  device,     \* the devices
  onAir,      \* history: the highest SEQ that left, -1 before the first
  bound,      \* history: a bind succeeded, as far as the tool knows
  runs, faults,
  faulty      \* history: this run met a fault

vars == <<file, state, pc, run, prov, done, errors, toDevice, toUs, pump, answers, request, device,
          onAir, bound, runs, faults, faulty>>
handshake == <<prov, done, errors, toDevice, toUs>>
session == <<pump, answers, request>>
history == <<onAir, bound, runs, faults, faulty>>

Max0(n) == IF n > 1 THEN n ELSE 1
Put(f, x, v) == [y \in DOMAIN f \cup {x} |-> IF y = x THEN v ELSE f[y]]

NoRun == [device |-> None, addr |-> 0, toggleOnly |-> FALSE, reaches |-> FALSE]
NoProvisioner == NewProvisioner(0, 0, None)
NoRequest == [attempts |-> 0, toggled |-> 0]
Beacon == [stage |-> "beacon", s |-> 0, method |-> None, peer |-> None, conf |-> None, addr |-> 0, key |-> None,
           bound |-> {}, rpl |-> -1]
Fresh == [devices |-> <<>>, next |-> 2, seq |-> 0, control |-> None]
NoFile == [Fresh EXCEPT !.next = 0]

----------------------------------------------------------------------------
(***************************************************************************)
(* The ends of a run.                                                      *)
(***************************************************************************)

Off == /\ pc' = "off" /\ state' = Fresh /\ run' = NoRun /\ prov' = NoProvisioner /\ done' = FALSE /\ errors' = FALSE
       /\ toDevice' = <<>> /\ toUs' = <<>> /\ pump' = <<>> /\ answers' = <<>> /\ request' = NoRequest

\* async_main's finally, after a failure, a success or a keyboard interrupt.
Ends == Off /\ file' = state

\* A failure the run diagnoses.
Fails == Ends /\ faulty' = TRUE /\ UNCHANGED <<device, onAir, bound, runs, faults>>

Interrupted == pc # "off" /\ Fails
Killed == pc # "off" /\ Off /\ faulty' = TRUE /\ UNCHANGED <<file, device, onAir, bound, runs, faults>>

----------------------------------------------------------------------------
(***************************************************************************)
(* A run begins.                                                           *)
(***************************************************************************)

\* load_or_create_state, which saves a new state.
Loaded == IF file = NoFile THEN Fresh ELSE file

\* pick_device: the last one, or the one named.
Pickable == DOMAIN Loaded.devices

\* A run, that is to provision a device or take a recorded one; it ends at once when
\* there is none.
RunBegins(toggleOnly) ==
  /\ pc = "off" /\ runs < MaxRuns
  /\ file' = Loaded
  /\ IF toggleOnly /\ Pickable = {} THEN UNCHANGED <<pc, run, state>>
     ELSE /\ state' = Loaded
          /\ IF ~ toggleOnly THEN pc' = "scan" /\ run' = NoRun
             ELSE \E u \in Pickable :
                    /\ pc' = "proxy"
                    /\ run' = [device |-> Loaded.devices[u].device, addr |-> u, toggleOnly |-> TRUE, reaches |-> FALSE]
  /\ runs' = runs + 1 /\ faulty' = FALSE
  /\ UNCHANGED <<handshake, session, device, onAir, bound, faults>>

\* provision: a beacon of d is seen and the link is up; the session's objects exist
\* before the Invite leaves.
Found(d, oob) ==
  LET begun == Begin(NewProvisioner(runs, state.next, oob)) IN
  /\ pc = "scan" /\ device[d].stage # "node" /\ pc' = "handshake"
  /\ run' = [run EXCEPT !.device = d, !.addr = state.next]
  /\ prov' = begun.p /\ toDevice' = begun.emitted
  /\ device' = [device EXCEPT ![d] = [Beacon EXCEPT !.s = runs]]
  /\ UNCHANGED <<file, state, done, errors, toUs, session, history>>

\* No beacon, or no link in GATT_SESSION_ATTEMPTS attempts.
NotFound == pc \in {"scan", "proxy"} /\ Fails

----------------------------------------------------------------------------
(***************************************************************************)
(* The handshake.                                                          *)
(***************************************************************************)

\* The device takes a PDU: an honest device's side of the protocol.
Caps(d) == Capabilities(Elements[d], TRUE, Oob[d] # None)
AuthOf(d) == IF device[d].method = "static" THEN Oob[d] ELSE Zeros
SaltOf(d) == Salt(Caps(d), device[d].method, Secret(device[d].peer, Key(d, device[d].s)))
KeyOf(d) == DeviceKey(SaltOf(d), Nonce("us", device[d].s), Nonce(d, device[d].s))

DeviceTakes(d, pdu) ==
  LET me == device[d]
      becomes(new, replies) ==
        device' = [device EXCEPT ![d] = new] /\ toUs' = toUs \o [i \in DOMAIN replies |-> Octets(replies[i])] IN
  \/ pdu.type = "invite" /\ becomes([me EXCEPT !.stage = "invited"], <<Caps(d)>>)
  \/ pdu.type = "start" /\ becomes([me EXCEPT !.stage = "started", !.method = pdu.method], <<>>)
  \/ /\ pdu.type = "public_key"
     /\ becomes([me EXCEPT !.stage = "keyed", !.peer = pdu.value],
                <<PublicKey(Key(d, me.s))>>)
  \/ /\ pdu.type = "confirmation"
     /\ becomes([me EXCEPT !.stage = "confirmed", !.conf = pdu.value],
                <<Confirmation(Proof(SaltOf(d), Nonce(d, me.s), AuthOf(d)))>>)
  \/ /\ pdu.type = "random"
     /\ LET proven == me.conf = Proof(SaltOf(d), pdu.value, AuthOf(d)) IN
        \/ /\ proven \/ d \in Careless
           /\ becomes([me EXCEPT !.stage = "checked"], <<Random(Nonce(d, me.s))>>)
        \/ ~ proven /\ becomes([Beacon EXCEPT !.s = me.s], <<Failed>>)
  \/ /\ pdu.type = "data"
     /\ IF pdu.under = KeyOf(d)
        THEN becomes([Beacon EXCEPT !.stage = "node", !.addr = pdu.addr, !.key = KeyOf(d)], <<Complete>>)
        ELSE becomes([Beacon EXCEPT !.s = me.s], <<Failed>>)

\* A step the device is not at, it refuses.
Turn == [invite |-> "beacon", start |-> "invited", public_key |-> "started", confirmation |-> "keyed",
         random |-> "confirmed", data |-> "checked"]

ToDevice ==
  /\ pc = "handshake" /\ toDevice # <<>>
  /\ LET d == run.device
         pdu == Head(toDevice) IN
     IF Turn[pdu.type] = device[d].stage THEN DeviceTakes(d, pdu)
     ELSE toUs' = Append(toUs, Octets(Failed)) /\ UNCHANGED device
  /\ toDevice' = Tail(toDevice)
  /\ UNCHANGED <<file, state, pc, run, prov, done, errors, session, history>>

\* on_message: an error or DONE wakes the waiter.
ToUs ==
  LET step == HandlePdu(prov, Head(toUs)) IN
  /\ pc = "handshake" /\ toUs # <<>>
  /\ prov' = step.p /\ toDevice' = toDevice \o step.emitted /\ toUs' = Tail(toUs)
  /\ errors' = (errors \/ step.raised)
  /\ done' = (done \/ step.raised \/ (step.p.state = "DONE" /\ prov.state # "DONE"))
  /\ UNCHANGED <<file, state, pc, run, session, device, history>>

Fault == faults < MaxFaults /\ faults' = faults + 1 /\ faulty' = TRUE

\* A PDU is lost, or the device says something out of its turn (a Complete twice,
\* which it never says before it is a node); a write fails.
Lost ==
  /\ pc = "handshake" /\ Fault
  /\ \/ toDevice # <<>> /\ toDevice' = Tail(toDevice) /\ UNCHANGED toUs
     \/ toUs # <<>> /\ toUs' = Tail(toUs) /\ UNCHANGED toDevice
  /\ UNCHANGED <<file, state, pc, run, prov, done, errors, session, device, onAir, bound, runs>>

Strays ==
  {Octets(Complete), Octets(Failed),
   [Octets(Complete) EXCEPT !.padding = 1], [Octets(Complete) EXCEPT !.length = 1],
   [padding |-> 0, length |-> 0, pdu |-> [type |-> "reserved"]]}

Stray(octets) ==
  /\ pc = "handshake" /\ Fault /\ (octets.pdu = Complete => device[run.device].stage = "node")
  /\ toUs' = Append(toUs, octets)
  /\ UNCHANGED <<file, state, pc, run, prov, done, errors, toDevice, session, device, onAir, bound, runs>>

WriteFails ==
  /\ pc = "handshake" /\ toDevice # <<>> /\ Fault
  /\ toDevice' = <<>> /\ errors' = TRUE /\ done' = TRUE
  /\ UNCHANGED <<file, state, pc, run, prov, toUs, session, device, onAir, bound, runs>>

TimesOut == pc = "handshake" /\ ~ done /\ Fails

GivesUp == done /\ errors /\ Ends /\ UNCHANGED <<device, history>>

\* The address after a node that took the run's, of a number of elements.
AddressOnly(addr, elements) == addr + 1   \* Slip: the node's other elements are not counted.
NextAddress(addr, elements) == addr + Max0(elements)

\* Milestone A: the device is recorded.  What it says while the session is taken down
\* finds a Provisioner that is DONE, and errors nobody reads any more.
Recorded ==
  /\ done /\ ~ errors
  /\ state' = [state EXCEPT !.devices = Put(@, run.addr, [device |-> run.device, key |-> prov.key]),
                            !.next = NextAddress(run.addr, prov.caps.elements)]
  /\ file' = state'
  /\ pc' = "proxy" /\ prov' = NoProvisioner /\ done' = FALSE /\ toDevice' = <<>> /\ toUs' = <<>>
  /\ UNCHANGED <<run, errors, session, device, history>>

----------------------------------------------------------------------------
(***************************************************************************)
(* The mesh session.                                                       *)
(***************************************************************************)

\* _find_proxy_target: a node of ours, or one taken for ours by its Node Identity.
\* --toggle-only configures when no control model is recorded.
Linked(ours) ==
  /\ pc = "proxy"
  /\ run' = [run EXCEPT !.reaches = ours]
  /\ pc' = IF ~ run.toggleOnly \/ state.control = None THEN "appkey" ELSE "toggle"
  /\ faulty' = (faulty \/ ~ ours)
  /\ UNCHANGED <<file, state, handshake, session, device, onAir, bound, runs, faults>>

\* The message of each step: AppKey Add, Composition Data Get, Model App Bind, and the
\* Sets of toggle_loop, to the model noted as the control model.
ControlSet(model) == [op |-> "toggle", model |-> model]

Message(step) ==
  CASE step = "appkey" -> AppKeyAdd(0, 0)
    [] step = "composition" -> CompositionGet
    [] step = "bind" -> ModelAppBind(run.addr, 0, state.control)
    [] OTHER -> ControlSet(state.control)

\* What it takes of the network layer; the AppKey is sent in two segments.
Pdus(step) == IF step = "appkey" THEN 2 ELSE 1
Sent(message, n) == [i \in 1 .. n |-> [message |-> message, seq |-> state.seq + i - 1, last |-> i = n]]

PutUnsaved(message, n) ==   \* Slip: the SEQ is saved when the run ends.
  /\ pump' = pump \o Sent(message, n)
  /\ state' = [state EXCEPT !.seq = @ + n] /\ UNCHANGED file

\* send_network_pdu: put, and the SEQ saved before the pump's task can run.
PutSaved(message, n) ==
  /\ pump' = pump \o Sent(message, n)
  /\ state' = [state EXCEPT !.seq = @ + n]
  /\ file' = state'

Steps == {"appkey", "composition", "bind", "toggle"}

\* node.request: two attempts.
Ask ==
  /\ pc \in Steps /\ request.attempts < 2
  /\ PutSaved(Message(pc), Pdus(pc))
  /\ request' = [request EXCEPT !.attempts = @ + 1]
  /\ UNCHANGED <<pc, run, handshake, answers, device, history>>

NoAnswer == pc \in Steps /\ request.attempts = 2 /\ Fails

\* What a node answers a message it knows: a Status, with an error or not, or one that
\* is cut short; an unbound model hears no Set.
Element(models) == [models |-> models, counted |-> Cardinality(models), given |-> Cardinality(models)]
Cut(element) == [element EXCEPT !.given = 0]
Page == [i \in 1 .. Words |-> 0]

Says(message, d) ==
  CASE message.op = "appkey" -> {<<status, message.netkey, message.appkey>> : status \in {0, 6}}
    [] message.op = "bind" -> {<<status, message.element, message.appkey, message.model>> : status \in {0, 2}}
    [] message.op = "composition" -> {Append(Page, Element(Models[d])), Append(Page, Cut(Element(Models[d])))}
    [] message.op = "toggle" /\ message.model \in device[d].bound -> {<<TRUE>>}
    [] OTHER -> {}

Becomes(message, f, me) ==
  IF message.op = "bind" /\ f[1] = 0 THEN [me EXCEPT !.bound = @ \cup {message.model}] ELSE me

\* The pump writes a PDU, and the node takes it, unless the link is to somebody else
\* or it is a replay.
Leaves ==
  LET q == Head(pump)
      d == run.device
      heard == run.reaches /\ q.seq > device[d].rpl /\ device[d].stage = "node"
      says == IF heard /\ q.last THEN Says(q.message, d) ELSE {} IN
  /\ pump # <<>> /\ pump' = Tail(pump) /\ onAir' = q.seq
  /\ LET me == IF heard THEN [device[d] EXCEPT !.rpl = q.seq] ELSE device[d] IN
     \/ says = {} /\ device' = [device EXCEPT ![d] = me] /\ UNCHANGED answers
     \/ \E f \in says :
          /\ device' = [device EXCEPT ![d] = Becomes(q.message, f, me)]
          /\ answers' = Append(answers, [what |-> q.message.op, status |-> f])
  /\ UNCHANGED <<file, state, pc, run, handshake, request, bound, runs, faults, faulty>>

AnswerLost ==
  /\ answers # <<>> /\ Fault /\ answers' = Tail(answers)
  /\ UNCHANGED <<file, state, pc, run, handshake, pump, request, device, onAir, bound, runs>>

\* What the step makes of its Status: one that does not parse, or with another code
\* than Success, ends the run.
Succeeds(step, f) ==
  CASE step = "appkey" -> ParsesAppKey(f) /\ AppKeyStatus(f).status = 0
    [] step = "bind" -> ParsesModelApp(f) /\ ModelAppStatus(f).status = 0
    [] step = "composition" -> ParsesComposition(f)
    [] OTHER -> TRUE

\* The answer of the step it is for; a late one of an earlier step goes by.
Stale == answers # <<>> /\ Head(answers).what # pc
Answered(step) ==
  answers # <<>> /\ Head(answers).what = step /\ Succeeds(step, Head(answers).status) /\ pc = step
Refused ==
  pc \in Steps /\ answers # <<>> /\ Head(answers).what = pc /\ ~ Succeeds(pc, Head(answers).status) /\ Fails

GoesBy ==
  /\ Stale /\ answers' = Tail(answers)
  /\ UNCHANGED <<file, state, pc, run, handshake, pump, request, device, history>>

Next(step) == pc' = step /\ answers' = Tail(answers) /\ request' = [request EXCEPT !.attempts = 0]

AppKeyStored ==
  /\ Answered("appkey") /\ Next("composition")
  /\ UNCHANGED <<file, state, run, handshake, pump, device, history>>

\* _pick_control_model, of the primary element.
Pickables(comp) == IF comp.elements = <<>> THEN {} ELSE comp.elements[1].models
Preferred(models) == IF "onoff" \in models THEN "onoff" ELSE "lightness"

\* The segmented answer is acknowledged first.
Composed ==
  LET models == Pickables(CompositionData(Head(answers).status)) IN
  /\ Answered("composition")
  /\ IF models = {} THEN Fails
     ELSE /\ Next("bind")
          /\ pump' = Append(pump, [message |-> [op |-> "ack"], seq |-> state.seq, last |-> TRUE])
          /\ state' = [state EXCEPT !.seq = @ + 1, !.control = Preferred(models)]
          /\ file' = [state EXCEPT !.seq = @ + 1]
          /\ UNCHANGED <<run, handshake, device, history>>

Bound ==
  /\ Answered("bind") /\ Next("toggle") /\ bound' = TRUE
  /\ UNCHANGED <<file, state, run, handshake, pump, device, onAir, runs, faults, faulty>>

Toggled ==
  /\ Answered("toggle")
  /\ IF request.toggled + 1 = Toggles
     THEN Ends /\ UNCHANGED <<device, history>>
     ELSE /\ answers' = Tail(answers)
          /\ request' = [attempts |-> 0, toggled |-> request.toggled + 1]
          /\ UNCHANGED <<file, state, pc, run, handshake, pump, device, history>>

\* External: an unrecorded node is reset.
Reset(d) ==
  /\ device[d].stage = "node" /\ pc = "off"
  /\ \A u \in DOMAIN file.devices : file.devices[u].device # d
  /\ device' = [device EXCEPT ![d] = Beacon]
  /\ UNCHANGED <<file, state, pc, run, handshake, session, history>>

----------------------------------------------------------------------------
Init ==
  /\ file = NoFile /\ state = Fresh /\ pc = "off" /\ run = NoRun /\ prov = NoProvisioner
  /\ done = FALSE /\ errors = FALSE /\ toDevice = <<>> /\ toUs = <<>>
  /\ pump = <<>> /\ answers = <<>> /\ request = NoRequest /\ device = [d \in Devices |-> Beacon]
  /\ onAir = -1 /\ bound = FALSE /\ runs = 0 /\ faults = 0 /\ faulty = FALSE

Handshake == ToDevice \/ ToUs \/ TimesOut \/ GivesUp \/ Recorded
Session == Ask \/ NoAnswer \/ Refused \/ GoesBy \/ AppKeyStored \/ Composed \/ Bound \/ Toggled
             \/ Leaves

Act ==
  \/ \E toggleOnly \in BOOLEAN : RunBegins(toggleOnly)
  \/ \E d \in Devices, oob \in Values : Found(d, oob)
  \/ NotFound \/ Interrupted \/ Killed
  \/ Handshake \/ Lost \/ WriteFails \/ (\E octets \in Strays : Stray(octets))
  \/ (\E ours \in BOOLEAN : Linked(ours)) \/ Session \/ AnswerLost
  \/ \E d \in Devices : Reset(d)

\* What is on its way arrives, and the tool goes on; nobody has to start a run.
Spec == Init /\ [][Act]_vars /\ WF_vars(ToDevice \/ ToUs \/ GivesUp \/ Recorded)

----------------------------------------------------------------------------
(***************************************************************************)
(* Properties.                                                             *)
(***************************************************************************)

\* A device in the state file is a node that has the address and the device key the
\* file has for it: the tool can talk to all it recorded, whatever was lost, said
\* twice or killed.
RecordedIsProvisioned ==
  \A u \in DOMAIN file.devices :
    LET d == device[file.devices[u].device] IN d.stage = "node" /\ d.addr = u /\ d.key = file.devices[u].key

\* No two recorded nodes share an address, each taking one for every element, nor does
\* the next node to provision ("a future device in this state file cannot overlap
\* the lamp's secondary elements").
AddressesDisjoint ==
  LET range(u) == u .. u + Max0(Elements[file.devices[u].device]) - 1 IN
  \A u \in DOMAIN file.devices :
    /\ \A v \in DOMAIN file.devices \ {u} : range(u) \cap range(v) = {}
    /\ \A a \in range(u) : 1 < a /\ a < file.next

\* The network key leaves for a device only after it showed that it knows the AuthValue
\* the tool uses.
DataAfterProof ==
  (pc = "handshake" /\ prov.state \in {"WAIT_COMPLETE", "DONE"}) =>
    (prov.method = "static" => prov.auth = Oob[run.device])

\* No SEQ leaves twice, whatever run it is of and however the last one ended: "a
\* replayed SEQ after a crash would be silently ignored by the node".
NoSeqTwice == \A i \in DOMAIN pump : pump[i].seq > onAir /\ \A j \in 1 .. i - 1 : pump[i].seq > pump[j].seq

\* A handshake that meets no fault, with a device whose AuthValue is the one given to
\* the tool, is recorded.
HonestHandshakeRecords ==
  pc = "handshake" /\ Oob[run.device] \in {None, prov.oob} /\ ~ faulty ~> faulty \/ pc = "proxy"

\* "--toggle-only still (re)configures when no successful bind was ever recorded".
ConfiguresUntilBound == pc = "toggle" => bound
=============================================================================
