---------------------------- MODULE Phase0Proofs ----------------------------
(***************************************************************************)
(* The safety of the provisioning tool, for every set of devices, whatever *)
(* number of runs and faults, and every AuthValue typed.                   *)
(***************************************************************************)
EXTENDS Phase0, ListLemmas

----------------------------------------------------------------------------
(***************************************************************************)
(* The inductive invariant.                                                *)
(***************************************************************************)

IsFile(f) ==
  /\ DOMAIN f = {"devices", "next", "seq", "control"}
  /\ f.next \in Nat /\ f.seq \in Nat /\ DOMAIN f.devices \subseteq Nat
  /\ \A u \in DOMAIN f.devices : f.devices[u].device \in Devices

IsDevice(me) == DOMAIN me = {"stage", "s", "method", "peer", "conf", "addr", "key", "bound", "rpl"}

IsProvisioner(p) ==
  DOMAIN p = {"state", "s", "addr", "oob", "caps", "method", "auth", "salt", "theirs", "key"}

IsRun(r) == DOMAIN r = {"device", "addr", "toggleOnly", "reaches"}

TypeOK ==
  /\ IsFile(file) /\ IsFile(state) /\ IsRun(run) /\ IsProvisioner(prov)
  /\ DOMAIN device = Devices /\ \A d \in Devices : IsDevice(device[d])
  /\ pump \in Seq(Range(pump)) /\ toDevice \in Seq(Range(toDevice)) /\ toUs \in Seq(Range(toUs))
  /\ \A i \in DOMAIN pump : pump[i].seq \in Nat
  /\ onAir \in Int /\ done \in BOOLEAN /\ errors \in BOOLEAN

\* What a run knows beside the control model is in the file, and the addresses it
\* gives start at 2.
FileFollows ==
  /\ IF pc = "off" THEN state = Fresh
     ELSE /\ file.devices = state.devices /\ file.next = state.next /\ file.seq = state.seq
          /\ file # NoFile
  /\ file # NoFile => file.next > 1

\* The handshake and the mesh session are each in their own part of a run.
Quiet ==
  /\ pc \in {"off", "scan", "handshake"} => pump = <<>>
  /\ pc # "handshake" => toUs = <<>> /\ ~ done

\* The file is ahead of what is on the pump, and that of what left.
SeqAhead ==
  /\ NoSeqTwice
  /\ onAir < file.seq
  /\ \A i \in DOMAIN pump : pump[i].seq < file.seq

\* The states after Data left, those that know the capabilities, and those that know the salt.
Given == {"WAIT_COMPLETE", "DONE", "FAILED"}
Known == {"WAIT_PUBLIC_KEY", "WAIT_CONFIRMATION", "WAIT_RANDOM", "WAIT_COMPLETE", "DONE"}
Salted == Known \ {"WAIT_PUBLIC_KEY"}

\* Whom the handshake is with, and what it is to give.
Partner ==
  /\ run.device \in Devices /\ run.addr = state.next /\ prov.addr = run.addr
  /\ \A u \in DOMAIN state.devices : state.devices[u].device # run.device

\* The device becomes a node with the Data that were sent, and says Complete only then.
DataArrives ==
  LET me == device[run.device] IN
  /\ \A pdu \in Range(toDevice) :
       pdu.type = "data" => pdu.addr = run.addr /\ pdu.under = prov.key /\ prov.state \in Given
  /\ me.stage = "node" => me.addr = run.addr /\ me.key = prov.key /\ prov.state \in Given
  /\ \A o \in Range(toUs) : o.pdu.type = "complete" => me.stage = "node"
  /\ prov.state = "DONE" => me.stage = "node"
  /\ done /\ ~ errors => prov.state = "DONE"

\* The Provisioner counts the elements the device has.
CapsArrive ==
  /\ \A o \in Range(toUs) : o.pdu.type = "capabilities" => o.pdu = Caps(run.device)
  /\ prov.state \in Known => prov.caps = Caps(run.device)

\* What was checked under a static value was made with the device's.
Honest(proof) == proof.salt.method = "static" => proof.auth = Oob[run.device]
ProofsArrive ==
  /\ \A o \in Range(toUs) : o.pdu.type = "confirmation" => Honest(o.pdu.value)
  /\ prov.state \in Salted => prov.salt.method = prov.method
  /\ prov.state = "WAIT_RANDOM" => Honest(prov.theirs)
  /\ DataAfterProof

HandshakeHolds == pc = "handshake" => Partner /\ DataArrives /\ CapsArrive /\ ProofsArrive

IInv == TypeOK /\ FileFollows /\ Quiet /\ SeqAhead /\ AddressesDisjoint /\ RecordedIsProvisioned /\ HandshakeHolds

----------------------------------------------------------------------------
(***************************************************************************)
(* The steps.                                                              *)
(***************************************************************************)

LEMMA FreshIsFile == IsFile(Fresh) /\ DOMAIN Fresh.devices = {} /\ IsFile(NoFile) /\ DOMAIN NoFile.devices = {}
  BY DEF IsFile, Fresh, NoFile

LEMMA InitHolds == Init => IInv
<1> SUFFICES ASSUME Init PROVE IInv
  OBVIOUS
<1>1. TypeOK
  <2>1. DOMAIN device = Devices /\ \A d \in Devices : IsDevice(device[d])
    BY DEF Init, IsDevice, Beacon
  <2>2. IsRun(run) /\ IsProvisioner(prov)
    BY DEF Init, IsRun, NoRun, IsProvisioner, NoProvisioner, NewProvisioner
  <2>3. pump \in Seq(Range(pump)) /\ toDevice \in Seq(Range(toDevice)) /\ toUs \in Seq(Range(toUs))
    BY ListRange DEF Init
  <2>4. (\A i \in DOMAIN pump : pump[i].seq \in Nat) /\ onAir \in Int /\ done \in BOOLEAN /\ errors \in BOOLEAN
    <3>1. DOMAIN pump = {} /\ onAir \in Int
      BY DEF Init
    <3>2. done \in BOOLEAN /\ errors \in BOOLEAN
      BY Zenon DEF Init
    <3>3. QED
      BY <3>1, <3>2, Zenon
  <2>5. IsFile(file) /\ IsFile(state)
    BY FreshIsFile DEF Init
  <2>6. QED
    BY <2>1, <2>2, <2>3, <2>4, <2>5, Zenon DEF TypeOK
<1>2. FileFollows /\ Quiet /\ SeqAhead /\ AddressesDisjoint /\ RecordedIsProvisioned /\ HandshakeHolds
  BY FreshIsFile DEF Init, FileFollows, Quiet, SeqAhead, NoSeqTwice, AddressesDisjoint, RecordedIsProvisioned,
       HandshakeHolds, NoFile, Fresh
<1>3. QED
  BY <1>1, <1>2 DEF IInv

\* A run ends, saved or killed.
LEMMA EndKeeps ==
  ASSUME IInv, pc # "off", Off, file' = file \/ file' = state, UNCHANGED <<device, onAir>>
  PROVE  IInv'
<1>1. TypeOK'
  <2>1. IsRun(run') /\ IsProvisioner(prov')
    BY DEF Off, IsRun, NoRun, IsProvisioner, NoProvisioner, NewProvisioner
  <2>2. pump' \in Seq(Range(pump')) /\ toDevice' \in Seq(Range(toDevice')) /\ toUs' \in Seq(Range(toUs'))
    BY ListRange DEF Off
  <2>3. IsFile(file') /\ IsFile(state')
    BY FreshIsFile DEF IInv, TypeOK, Off
  <2>4. /\ \A i \in DOMAIN pump' : pump'[i].seq \in Nat
        /\ onAir' \in Int /\ done' \in BOOLEAN /\ errors' \in BOOLEAN
    <3>1. DOMAIN pump' = {} /\ onAir' \in Int
      BY DEF IInv, TypeOK, Off
    <3>2. done' \in BOOLEAN /\ errors' \in BOOLEAN
      BY Zenon DEF Off
    <3>3. QED
      BY <3>1, <3>2, Zenon
  <2>5. DOMAIN device' = Devices /\ \A d \in Devices : IsDevice(device'[d])
    BY DEF IInv, TypeOK
  <2>6. QED
    BY <2>1, <2>2, <2>3, <2>4, <2>5, Zenon DEF TypeOK, IsFile, IsRun, IsProvisioner, IsDevice
<1>2. file'.devices = file.devices /\ file'.next = file.next /\ file'.seq = file.seq
  BY DEF IInv, FileFollows
<1>3. FileFollows' /\ Quiet'
  BY <1>2 DEF IInv, FileFollows, Quiet, Off, NoFile, Fresh
<1>4. SeqAhead'
  BY <1>2 DEF IInv, SeqAhead, NoSeqTwice, Off
<1>5. AddressesDisjoint' /\ RecordedIsProvisioned'
  BY <1>2 DEF IInv, AddressesDisjoint, RecordedIsProvisioned
<1>6. HandshakeHolds'
  BY DEF HandshakeHolds, Off
<1>7. QED
  BY <1>1, <1>3, <1>4, <1>5, <1>6 DEF IInv

\* A run begins.
LEMMA BeginKeeps ==
  ASSUME IInv, NEW toggleOnly \in BOOLEAN, RunBegins(toggleOnly)
  PROVE  IInv'
<1>1. /\ file' = IF file = NoFile THEN Fresh ELSE file
      /\ (file' = state' /\ pc' \in {"scan", "proxy"}) \/ (pc' = "off" /\ state' = state)
      /\ pump = <<>> /\ pc = "off" /\ ~ done
  <2>1. pc = "off" /\ pump = <<>> /\ ~ done /\ file' = Loaded
    BY DEF IInv, FileFollows, Quiet, RunBegins
  <2>2. CASE toggleOnly /\ Pickable = {}
    BY <2>1, <2>2 DEF RunBegins, Loaded
  <2>3. CASE ~ (toggleOnly /\ Pickable = {})
    <3>1. state' = Loaded /\ (pc' = "scan" \/ pc' = "proxy")
      BY <2>3, Zenon DEF RunBegins
    <3>2. QED
      BY <2>1, <3>1 DEF Loaded
  <2>4. QED
    BY <2>2, <2>3
<1>2. IsFile(file') /\ IsFile(state') /\ IsRun(run')
  BY <1>1, FreshIsFile DEF IInv, TypeOK, RunBegins, IsRun, NoRun
<1>3. TypeOK'
  BY <1>2 DEF IInv, TypeOK, RunBegins, handshake, session, IsFile, IsRun
<1>4. file' # NoFile /\ file'.next > 1
  BY <1>1 DEF IInv, FileFollows, Fresh, NoFile
<1>5. FileFollows' /\ Quiet'
  BY <1>1, <1>4 DEF IInv, FileFollows, Quiet, RunBegins, handshake, session
<1>6. file'.seq = file.seq /\ file'.devices = file.devices /\ (file = NoFile \/ file'.next = file.next)
  BY <1>1 DEF NoFile, Fresh
<1>7. SeqAhead'
  BY <1>6 DEF IInv, SeqAhead, NoSeqTwice, RunBegins, session
<1>8. AddressesDisjoint' /\ RecordedIsProvisioned'
  BY <1>6, <1>1, FreshIsFile DEF IInv, AddressesDisjoint, RecordedIsProvisioned, RunBegins
<1>9. QED
  BY <1>1, <1>3, <1>5, <1>7, <1>8 DEF IInv, HandshakeHolds

\* A device is found: the first PDU leaves, and nothing is known of it yet.
LEMMA FoundKeeps ==
  ASSUME IInv, NEW d \in Devices, NEW oob \in Values, Found(d, oob)
  PROVE  IInv'
<1> DEFINE p == [NewProvisioner(runs, state.next, oob) EXCEPT !.state = "WAIT_CAPABILITIES"]
<1>1. /\ pc = "scan" /\ pc' = "handshake" /\ device[d].stage # "node"
      /\ run' = [run EXCEPT !.device = d, !.addr = state.next]
      /\ prov' = p /\ toDevice' = <<Invite>>
      /\ device' = [device EXCEPT ![d] = [Beacon EXCEPT !.s = runs]]
      /\ UNCHANGED <<file, state, done, errors, toUs, pump, onAir>>
  BY DEF Found, Begin, Outcome, session, history
<1>2. p = [state |-> "WAIT_CAPABILITIES", s |-> runs, addr |-> state.next, oob |-> oob, caps |-> None, method |-> None,
           auth |-> None, salt |-> None, theirs |-> None, key |-> None]
  BY DEF NewProvisioner
<1> HIDE DEF p
<1>3. toDevice' \in Seq(Range(toDevice')) /\ Range(toDevice') = {Invite}
  BY <1>1, ListRange
<1>4. run'.device = d /\ run'.addr = state.next /\ IsRun(run')
  BY <1>1 DEF IInv, TypeOK, IsRun
<1>5. /\ DOMAIN device' = Devices
      /\ IsDevice(device'[d]) /\ device'[d].stage = "beacon"
      /\ \A x \in Devices \ {d} : device'[x] = device[x]
  <2>2. IsDevice([Beacon EXCEPT !.s = runs]) /\ [Beacon EXCEPT !.s = runs].stage = "beacon"
    BY DEF Beacon, IsDevice
  <2> DEFINE b == [Beacon EXCEPT !.s = runs]
  <2>3. device' = [device EXCEPT ![d] = b]
    BY <1>1
  <2>4. IsDevice(b) /\ b.stage = "beacon"
    BY <2>2
  <2> HIDE DEF b
  <2>5. QED
    BY <2>3, <2>4 DEF IInv, TypeOK
<1>6. TypeOK'
  <2>1. IsProvisioner(prov')
    BY <1>1, <1>2 DEF IsProvisioner
  <2>2. \A x \in Devices : IsDevice(device'[x])
    BY <1>5 DEF IInv, TypeOK, IsDevice
  <2>3. /\ IsFile(file') /\ IsFile(state') /\ (\A i \in DOMAIN pump' : pump'[i].seq \in Nat)
        /\ onAir' \in Int /\ done' \in BOOLEAN /\ errors' \in BOOLEAN
        /\ pump' \in Seq(Range(pump')) /\ toUs' \in Seq(Range(toUs'))
    BY <1>1 DEF IInv, TypeOK, IsFile
  <2>4. QED
    BY <2>1, <2>2, <2>3, <1>3, <1>4, <1>5, Zenon DEF TypeOK, IsFile, IsRun, IsProvisioner, IsDevice
<1>7. FileFollows' /\ Quiet' /\ SeqAhead' /\ AddressesDisjoint'
  BY <1>1 DEF IInv, FileFollows, Quiet, SeqAhead, NoSeqTwice, AddressesDisjoint
<1>8. \A u \in DOMAIN file.devices : file.devices[u].device \in Devices \ {d}
  BY <1>1 DEF IInv, RecordedIsProvisioned, TypeOK, IsFile
<1>9. RecordedIsProvisioned'
  BY <1>1, <1>5, <1>8 DEF IInv, RecordedIsProvisioned
<1>10. HandshakeHolds'
  <2>1. toUs = <<>> /\ ~ done
    BY <1>1 DEF IInv, Quiet
  <2>2. Partner'
    BY <1>1, <1>2, <1>4, <1>8 DEF Partner, IInv, FileFollows
  <2>3. DataArrives'
    BY <1>1, <1>2, <1>3, <1>4, <1>5, <2>1, ListRange DEF DataArrives, Invite, Given
  <2>4. CapsArrive'
    BY <1>1, <1>2, <2>1, ListRange DEF CapsArrive, Known
  <2>5. ProofsArrive'
    BY <1>1, <1>2, <2>1, ListRange DEF ProofsArrive, Known, Salted, DataAfterProof
  <2>6. QED
    BY <2>2, <2>3, <2>4, <2>5 DEF HandshakeHolds
<1>11. QED
  BY <1>6, <1>7, <1>9, <1>10 DEF IInv

----------------------------------------------------------------------------
(***************************************************************************)
(* The handshake.                                                          *)
(***************************************************************************)

\* What a handshake step leaves of the invariant when it keeps its own part.
LEMMA HandshakeKeeps ==
  ASSUME IInv, pc = "handshake", UNCHANGED <<file, state, pc, run, pump, onAir>>, TypeOK',
         \A x \in Devices \ {run.device} : device'[x] = device[x],
         Partner => Partner', DataArrives', CapsArrive', ProofsArrive'
  PROVE  IInv'
<1>1. FileFollows' /\ Quiet' /\ SeqAhead' /\ AddressesDisjoint'
  BY DEF IInv, FileFollows, Quiet, SeqAhead, NoSeqTwice, AddressesDisjoint
<1>2. Partner
  BY DEF IInv, HandshakeHolds
<1>3. \A u \in DOMAIN file.devices : file.devices[u].device \in Devices \ {run.device}
  BY <1>2 DEF IInv, FileFollows, Partner, TypeOK, IsFile
<1>4. RecordedIsProvisioned'
  BY <1>3 DEF IInv, RecordedIsProvisioned
<1>5. QED
  BY <1>1, <1>2, <1>4 DEF IInv, HandshakeHolds

\* What handle_pdu makes of a Provisioner: it gives up, or takes the PDU it waits for.
GaveUp(p, r) ==
  /\ r.raised /\ r.emitted = <<>> /\ IsProvisioner(r.p)
  /\ r.p.addr = p.addr /\ r.p.key = p.key /\ r.p.method = p.method /\ r.p.auth = p.auth
  /\ IF p.state = "DONE" THEN r.p = p ELSE r.p.state = "FAILED"

Took(p, pdu, next, q) ==
  /\ pdu.type \in DOMAIN Expected /\ Expected[pdu.type] = p.state /\ q.state = next
  /\ IsProvisioner(q) /\ q.addr = p.addr

LEMMA RaiseGivesUp ==
  ASSUME NEW p, IsProvisioner(p)
  PROVE  GaveUp(p, Raise(p)) /\ \A c : p.state # "DONE" => GaveUp(p, Raise([p EXCEPT !.caps = c]))
<1>1. GaveUp(p, Raise(p))
  BY DEF GaveUp, Raise, IsProvisioner
<1>2. ASSUME NEW c, p.state # "DONE" PROVE GaveUp(p, Raise([p EXCEPT !.caps = c]))
  <2> DEFINE q == [p EXCEPT !.caps = c]
  <2>1. /\ IsProvisioner(q) /\ q.addr = p.addr /\ q.key = p.key /\ q.state = p.state
        /\ q.method = p.method /\ q.auth = p.auth
    BY DEF IsProvisioner
  <2> HIDE DEF q
  <2>2. GaveUp(q, Raise(q))
    BY <2>1 DEF GaveUp, Raise, IsProvisioner
  <2>3. GaveUp(p, Raise(q))
    BY <2>1, <2>2, <1>2 DEF GaveUp
  <2>4. QED
    BY <2>3 DEF q
<1>3. QED
  BY <1>1, <1>2

Outcomes(p, o, r) ==
  \/ GaveUp(p, r)
  \/ \E q, method :
       /\ r = Outcome(q, <<Start(method), PublicKey(Key("us", p.s))>>)
       /\ Took(p, o.pdu, "WAIT_PUBLIC_KEY", q) /\ o.pdu.type = "capabilities" /\ q.caps = o.pdu
  \/ \E q, x :
       /\ r = Outcome(q, <<Confirmation(x)>>)
       /\ Took(p, o.pdu, "WAIT_CONFIRMATION", q) /\ o.pdu.type = "public_key" /\ q.caps = p.caps
       /\ q.salt.method = q.method
  \/ \E q, x :
       /\ r = Outcome(q, <<Random(x)>>)
       /\ Took(p, o.pdu, "WAIT_RANDOM", q) /\ o.pdu.type = "confirmation"
       /\ q = [p EXCEPT !.state = "WAIT_RANDOM", !.theirs = o.pdu.value]
  \/ \E q :
       /\ r = Outcome(q, <<Data(p.addr, q.key)>>)
       /\ Took(p, o.pdu, "WAIT_COMPLETE", q) /\ o.pdu.type = "random" /\ q.caps = p.caps
       /\ q.salt = p.salt /\ q.method = p.method /\ q.auth = p.auth
       /\ Proof(p.salt, o.pdu.value, p.auth) = p.theirs
  \/ \E q :
       /\ r = Outcome(q, <<>>)
       /\ Took(p, o.pdu, "DONE", q) /\ o.pdu.type = "complete"
       /\ q = [p EXCEPT !.state = "DONE"]

LEMMA HandleOutcomes ==
  ASSUME NEW p, IsProvisioner(p), NEW o, NEW r, r = HandlePdu(p, o)
  PROVE  Outcomes(p, o, r)
<1> DEFINE pdu == o.pdu
<1>1. CASE ~ Decodes(o) \/ pdu.type \notin DOMAIN Expected \/ p.state # Expected[pdu.type]
  <2>1. r = Raise(p)
    BY <1>1 DEF HandlePdu
  <2>2. QED
    BY <2>1, RaiseGivesUp DEF Outcomes
<1>2. CASE Decodes(o) /\ pdu.type \in DOMAIN Expected /\ p.state = Expected[pdu.type]
  <2>0. /\ pdu.type \in {"capabilities", "public_key", "confirmation", "random", "complete"}
        /\ p.state # "DONE"
    BY <1>2 DEF Expected
  <2>1. CASE pdu.type = "capabilities"
    <3>1. r = OnCapabilities(p, pdu)
      BY <1>2, <2>1 DEF HandlePdu
    <3>2. CASE ~ pdu.p256
      <4>1. r = Raise([p EXCEPT !.caps = pdu])
        BY <3>1, <3>2, Zenon DEF OnCapabilities
      <4>2. QED
        <5>1. p.state # "DONE"
          BY <2>0
        <5>2. GaveUp(p, Raise([p EXCEPT !.caps = pdu]))
          BY <5>1, RaiseGivesUp, Zenon
        <5>3. QED
          BY <4>1, <5>2, Zenon DEF Outcomes
    <3>3. CASE pdu.p256
      <4>1. PICK method, auth :
              r = Outcome([p EXCEPT !.state = "WAIT_PUBLIC_KEY", !.caps = pdu, !.method = method, !.auth = auth],
                          <<Start(method), PublicKey(Key("us", p.s))>>)
        BY <3>1, <3>3, Zenon DEF OnCapabilities
      <4> DEFINE q == [p EXCEPT !.state = "WAIT_PUBLIC_KEY", !.caps = pdu, !.method = method, !.auth = auth]
      <4>2. IsProvisioner(q) /\ q.state = "WAIT_PUBLIC_KEY" /\ q.addr = p.addr /\ q.caps = pdu
        BY DEF IsProvisioner
      <4> HIDE DEF q
      <4>3. r = Outcome(q, <<Start(method), PublicKey(Key("us", p.s))>>)
        BY <4>1 DEF q
      <4>4. Took(p, pdu, "WAIT_PUBLIC_KEY", q)
        BY <4>2, <1>2 DEF Took
      <4>5. QED
        BY <2>1, <4>2, <4>3, <4>4, Zenon DEF Outcomes
    <3>4. QED
      BY <3>2, <3>3
  <2>2. CASE pdu.type = "public_key"
    <3>1. r = OnPublicKey(p, pdu)
      BY <1>2, <2>2 DEF HandlePdu
    <3>2. CASE pdu.value = Key("us", p.s)
      BY <3>1, <3>2, RaiseGivesUp DEF OnPublicKey, Outcomes
    <3>3. CASE pdu.value # Key("us", p.s)
      <4> DEFINE q == [p EXCEPT !.state = "WAIT_CONFIRMATION",
                                !.salt = Salt(p.caps, p.method, Secret(Key("us", p.s), pdu.value))]
      <4>1. r = Outcome(q, <<Confirmation(Ours(q))>>)
        BY <3>1, <3>3 DEF OnPublicKey
      <4>2. /\ IsProvisioner(q) /\ q.state = "WAIT_CONFIRMATION" /\ q.addr = p.addr /\ q.caps = p.caps
            /\ q.salt.method = q.method
        BY DEF IsProvisioner, Salt
      <4> HIDE DEF q
      <4>3. Took(p, pdu, "WAIT_CONFIRMATION", q)
        BY <4>2, <1>2 DEF Took
      <4>4. QED
        BY <2>2, <4>1, <4>2, <4>3, Zenon DEF Outcomes
    <3>4. QED
      BY <3>2, <3>3
  <2>3. CASE pdu.type = "confirmation"
    <3>1. r = OnConfirmation(p, pdu)
      BY <1>2, <2>3 DEF HandlePdu
    <3>2. CASE pdu.value = Ours(p)
      BY <3>1, <3>2, RaiseGivesUp DEF OnConfirmation, Outcomes
    <3>3. CASE pdu.value # Ours(p)
      <4> DEFINE q == [p EXCEPT !.state = "WAIT_RANDOM", !.theirs = pdu.value]
      <4>1. r = Outcome(q, <<Random(Nonce("us", p.s))>>)
        BY <3>1, <3>3 DEF OnConfirmation
      <4>2. IsProvisioner(q) /\ q.state = "WAIT_RANDOM" /\ q.addr = p.addr
        BY DEF IsProvisioner
      <4>3. Took(p, pdu, "WAIT_RANDOM", q)
        BY <4>2, <1>2 DEF Took
      <4>4. QED
        BY <2>3, <4>1, <4>3, Zenon DEF Outcomes
    <3>4. QED
      BY <3>2, <3>3
  <2>4. CASE pdu.type = "random"
    <3>1. r = OnRandom(p, pdu)
      BY <1>2, <2>4 DEF HandlePdu
    <3>2. CASE ~ Proven(p, pdu)
      BY <3>1, <3>2, RaiseGivesUp DEF OnRandom, Outcomes
    <3>3. CASE Proven(p, pdu)
      <4> DEFINE key == DeviceKey(p.salt, Nonce("us", p.s), pdu.value)
                 q == [p EXCEPT !.state = "WAIT_COMPLETE", !.key = key]
      <4>1. r = Outcome(q, <<Data(p.addr, key)>>)
        BY <3>1, <3>3 DEF OnRandom, Gives
      <4> HIDE DEF key
      <4>2. /\ IsProvisioner(q) /\ q.state = "WAIT_COMPLETE" /\ q.addr = p.addr /\ q.key = key
            /\ q.caps = p.caps /\ q.salt = p.salt /\ q.method = p.method /\ q.auth = p.auth
        BY DEF IsProvisioner
      <4> HIDE DEF q
      <4>3. Took(p, pdu, "WAIT_COMPLETE", q)
        BY <4>2, <1>2 DEF Took
      <4>4. Proof(p.salt, pdu.value, p.auth) = p.theirs
        BY <3>3 DEF Proven
      <4>5. QED
        BY <2>4, <4>1, <4>2, <4>3, <4>4, Zenon DEF Outcomes
    <3>4. QED
      BY <3>2, <3>3
  <2>5. CASE pdu.type = "complete"
    <3> DEFINE q == [p EXCEPT !.state = "DONE"]
    <3>1. r = Outcome(q, <<>>)
      BY <1>2, <2>5 DEF HandlePdu, OnComplete
    <3>2. IsProvisioner(q) /\ q.state = "DONE" /\ q.addr = p.addr
      BY DEF IsProvisioner
    <3>3. Took(p, pdu, "DONE", q)
      BY <3>2, <1>2 DEF Took
    <3>4. QED
      BY <2>5, <3>1, <3>3, Zenon DEF Outcomes
  <2>6. QED
    BY <2>0, <2>1, <2>2, <2>3, <2>4, <2>5, Zenon
<1>3. QED
  BY <1>1, <1>2

\* The device's PDU reaches the tool.
LEMMA ToUsKeeps ==
  ASSUME IInv, ToUs
  PROVE  IInv'
<1> DEFINE o == Head(toUs)  r == HandlePdu(prov, o)
<1>1. /\ pc = "handshake" /\ toUs # <<>>
      /\ prov' = r.p /\ toDevice' = toDevice \o r.emitted /\ toUs' = Tail(toUs)
      /\ errors' = (errors \/ r.raised)
      /\ done' = (done \/ r.raised \/ (r.p.state = "DONE" /\ prov.state # "DONE"))
      /\ UNCHANGED <<file, state, pc, run, pump, onAir, device>>
  BY DEF ToUs, session, history
<1>2. /\ o \in Range(toUs) /\ toUs' \in Seq(Range(toUs')) /\ Range(toUs') \subseteq Range(toUs)
  BY <1>1, TailRange DEF IInv, TypeOK
<1>3. IsProvisioner(prov) /\ Partner /\ DataArrives /\ CapsArrive /\ ProofsArrive
  BY <1>1 DEF IInv, TypeOK, HandshakeHolds
<1> HIDE DEF r, o
<1> DEFINE Step == /\ IsProvisioner(r.p) /\ r.emitted \in Seq(Range(r.emitted))
                   /\ r.p.addr = prov.addr
                   /\ \A pdu \in Range(r.emitted) :
                        pdu.type = "data" => /\ pdu.addr = prov.addr /\ pdu.under = r.p.key
                                             /\ r.p.state \in Given
                   /\ r.p.key # prov.key => prov.state \notin Given
                   /\ prov.state \in Given => r.p.state \in Given
                   /\ prov.state = "DONE" => r.p.state = "DONE"
                   /\ r.p.state = "DONE" => prov.state = "DONE" \/ o.pdu.type = "complete"
                   /\ r.p.state \in Known => r.p.caps = Caps(run.device)
                   /\ r.p.state \in Salted => r.p.salt.method = r.p.method
                   /\ r.p.state = "WAIT_RANDOM" => Honest(r.p.theirs)
                   /\ r.p.state \in {"WAIT_COMPLETE", "DONE"} =>
                        (r.p.method = "static" => r.p.auth = Oob[run.device])
<1>4. Step
  <2>1. CASE GaveUp(prov, r)
    <3>1. r.emitted \in Seq(Range(r.emitted)) /\ Range(r.emitted) = {}
      BY <2>1, ListRange DEF GaveUp
    <3>2. QED
      BY <2>1, <3>1, <1>1, <1>3 DEF GaveUp, Given, Known, Salted, CapsArrive, ProofsArrive, DataAfterProof
  <2>2. ASSUME NEW q, NEW method, r = Outcome(q, <<Start(method), PublicKey(Key("us", prov.s))>>),
               Took(prov, o.pdu, "WAIT_PUBLIC_KEY", q), o.pdu.type = "capabilities", q.caps = o.pdu
        PROVE  Step
    <3>1. /\ r.emitted \in Seq(Range(r.emitted))
          /\ Range(r.emitted) = {Start(method), PublicKey(Key("us", prov.s))}
          /\ r.p = q
      BY <2>2, ListRange DEF Outcome
    <3>2. prov.state = "WAIT_CAPABILITIES"
      BY <2>2 DEF Took, Expected
    <3>3. q.caps = Caps(run.device)
      BY <2>2, <1>2, <1>3 DEF CapsArrive
    <3>4. QED
      BY <2>2, <3>1, <3>2, <3>3 DEF Took, Start, PublicKey, Given, Salted, Known
  <2>3. ASSUME NEW q, NEW x, r = Outcome(q, <<Confirmation(x)>>),
               Took(prov, o.pdu, "WAIT_CONFIRMATION", q), o.pdu.type = "public_key", q.caps = prov.caps,
               q.salt.method = q.method
        PROVE  Step
    <3>1. r.emitted \in Seq(Range(r.emitted)) /\ Range(r.emitted) = {Confirmation(x)} /\ r.p = q
      BY <2>3, ListRange DEF Outcome
    <3>2. prov.state = "WAIT_PUBLIC_KEY"
      BY <2>3 DEF Took, Expected
    <3>3. q.caps = Caps(run.device)
      BY <2>3, <3>2, <1>3 DEF CapsArrive, Known
    <3>4. QED
      BY <2>3, <3>1, <3>2, <3>3 DEF Took, Confirmation, Given, Salted, Known
  <2>4. ASSUME NEW q, NEW x, r = Outcome(q, <<Random(x)>>),
               Took(prov, o.pdu, "WAIT_RANDOM", q), o.pdu.type = "confirmation",
               q = [prov EXCEPT !.state = "WAIT_RANDOM", !.theirs = o.pdu.value]
        PROVE  Step
    <3>1. r.emitted \in Seq(Range(r.emitted)) /\ Range(r.emitted) = {Random(x)} /\ r.p = q
      BY <2>4, ListRange DEF Outcome
    <3>2. prov.state = "WAIT_CONFIRMATION"
      BY <2>4 DEF Took, Expected
    <3>3. q.caps = prov.caps /\ q.salt = prov.salt /\ q.method = prov.method /\ q.theirs = o.pdu.value
      BY <2>4, <1>3 DEF IsProvisioner
    <3>4. Honest(o.pdu.value) /\ prov.caps = Caps(run.device) /\ prov.salt.method = prov.method
      BY <2>4, <3>2, <1>2, <1>3 DEF CapsArrive, ProofsArrive, Known, Salted
    <3>5. IsProvisioner(q) /\ q.state = "WAIT_RANDOM" /\ q.addr = prov.addr
      BY <2>4 DEF Took
    <3>6. Honest(q.theirs)
      BY <3>3, <3>4
    <3>7. QED
      BY <3>1, <3>2, <3>3, <3>4, <3>5, <3>6 DEF Random, Given, Salted, Known
  <2>5. ASSUME NEW q, r = Outcome(q, <<Data(prov.addr, q.key)>>),
               Took(prov, o.pdu, "WAIT_COMPLETE", q), o.pdu.type = "random", q.caps = prov.caps,
               q.salt = prov.salt, q.method = prov.method, q.auth = prov.auth,
               Proof(prov.salt, o.pdu.value, prov.auth) = prov.theirs
        PROVE  Step
    <3>1. /\ r.emitted \in Seq(Range(r.emitted)) /\ Range(r.emitted) = {Data(prov.addr, q.key)}
          /\ r.p = q
      BY <2>5, ListRange DEF Outcome
    <3>2. prov.state = "WAIT_RANDOM"
      BY <2>5 DEF Took, Expected
    <3>3. prov.caps = Caps(run.device) /\ prov.salt.method = prov.method /\ Honest(prov.theirs)
      BY <3>2, <1>3 DEF CapsArrive, ProofsArrive, Known, Salted
    <3>4. prov.theirs.salt = prov.salt /\ prov.theirs.auth = prov.auth
      BY <2>5 DEF Proof
    <3>5. prov.method = "static" => prov.auth = Oob[run.device]
      BY <3>3, <3>4 DEF Honest
    <3>6. QED
      BY <2>5, <3>1, <3>2, <3>3, <3>5 DEF Took, Data, Given, Salted, Known
  <2>6. ASSUME NEW q, r = Outcome(q, <<>>), Took(prov, o.pdu, "DONE", q), o.pdu.type = "complete",
               q = [prov EXCEPT !.state = "DONE"]
        PROVE  Step
    <3>1. r.emitted \in Seq(Range(r.emitted)) /\ Range(r.emitted) = {} /\ r.p = q
      BY <2>6, ListRange DEF Outcome
    <3>2. prov.state = "WAIT_COMPLETE"
      BY <2>6 DEF Took, Expected
    <3>3. /\ q.caps = prov.caps /\ q.salt = prov.salt /\ q.method = prov.method /\ q.auth = prov.auth
          /\ q.key = prov.key
      BY <2>6, <1>3 DEF IsProvisioner
    <3>4. /\ prov.caps = Caps(run.device) /\ prov.salt.method = prov.method
          /\ prov.method = "static" => prov.auth = Oob[run.device]
      BY <3>2, <1>1, <1>3 DEF CapsArrive, ProofsArrive, Known, Salted, DataAfterProof
    <3>5. QED
      BY <2>6, <3>1, <3>2, <3>3, <3>4 DEF Took, Given, Salted, Known
  <2> HIDE DEF Step
  <2>7. r = HandlePdu(prov, o)
    BY DEF r
  <2>8. Outcomes(prov, o, r)
    BY <1>3, <2>7, HandleOutcomes, Zenon
  <2>9. QED
    BY <2>1, <2>2, <2>3, <2>4, <2>5, <2>6, <2>8, Zenon DEF Outcomes
<1>5. /\ toDevice' \in Seq(Range(toDevice')) /\ Range(toDevice') = Range(toDevice) \cup Range(r.emitted)
  BY <1>1, <1>4, ConcatRange DEF IInv, TypeOK
<1>6. TypeOK'
  <2>1. errors' \in BOOLEAN /\ done' \in BOOLEAN
    BY <1>1, Zenon
  <2>2. QED
    BY <1>1, <1>2, <1>4, <1>5, <2>1 DEF IInv, TypeOK, IsFile, IsRun, IsDevice, IsProvisioner
<1>7. Partner'
  BY <1>1, <1>3, <1>4 DEF Partner
<1>8. DataArrives'
  BY <1>1, <1>2, <1>3, <1>4, <1>5 DEF DataArrives, Partner
<1>9. CapsArrive' /\ ProofsArrive'
  BY <1>1, <1>2, <1>3, <1>4 DEF CapsArrive, ProofsArrive, DataAfterProof, Caps, Honest
<1>10. QED
  BY <1>1, <1>6, <1>7, <1>8, <1>9, HandshakeKeeps

\* What a device makes of a PDU: it answers with one at most, and is a node after
\* the Data only.
DeviceBecomes(d, pdu) ==
  \E me, replies :
    /\ device' = [device EXCEPT ![d] = me] /\ IsDevice(me)
    /\ toUs' = toUs \o [i \in DOMAIN replies |-> Octets(replies[i])]
    /\ me.stage = "node" => pdu.type = "data" /\ me.addr = pdu.addr /\ me.key = pdu.under
    /\ \/ replies = <<>>
       \/ \E r : /\ replies = <<r>>
                 /\ r.type = "capabilities" => r = Caps(d)
                 /\ r.type = "complete" => me.stage = "node"
                 /\ r.type = "confirmation" => (r.value.salt.method = "static" => r.value.auth = Oob[d])

LEMMA DeviceAnswers ==
  ASSUME NEW d \in Devices, NEW pdu, DOMAIN device = Devices, IsDevice(device[d]), device[d].stage # "node",
         DeviceTakes(d, pdu)
  PROVE  DeviceBecomes(d, pdu)
<1> DEFINE me == device[d]
           Becomes_(new, replies) ==
             /\ device' = [device EXCEPT ![d] = new]
             /\ toUs' = toUs \o [i \in DOMAIN replies |-> Octets(replies[i])]
           Good(new, r) ==
             /\ IsDevice(new)
             /\ new.stage = "node" => pdu.type = "data" /\ new.addr = pdu.addr /\ new.key = pdu.under
             /\ r.type = "capabilities" => r = Caps(d)
             /\ r.type = "complete" => new.stage = "node"
             /\ r.type = "confirmation" => (r.value.salt.method = "static" => r.value.auth = Oob[d])
<1>1. ASSUME NEW new, NEW r, Becomes_(new, <<r>>), Good(new, r)
      PROVE  DeviceBecomes(d, pdu)
  BY <1>1, Zenon DEF DeviceBecomes
<1>2. ASSUME NEW new, Becomes_(new, <<>>), IsDevice(new), new.stage # "node"
      PROVE  DeviceBecomes(d, pdu)
  BY <1>2, Zenon DEF DeviceBecomes
<1> DEFINE B == [Beacon EXCEPT !.s = me.s]
<1>3. IsDevice(B) /\ B.stage = "beacon" /\ Failed.type = "failed"
  BY DEF IsDevice, Beacon, Failed
<1>4. \/ pdu.type = "invite" /\ Becomes_([me EXCEPT !.stage = "invited"], <<Caps(d)>>)
      \/ pdu.type = "start" /\ Becomes_([me EXCEPT !.stage = "started", !.method = pdu.method], <<>>)
      \/ Becomes_([me EXCEPT !.stage = "keyed", !.peer = pdu.value], <<PublicKey(Key(d, me.s))>>)
      \/ Becomes_([me EXCEPT !.stage = "confirmed", !.conf = pdu.value],
                  <<Confirmation(Proof(SaltOf(d), Nonce(d, me.s), AuthOf(d)))>>)
      \/ Becomes_([me EXCEPT !.stage = "checked"], <<Random(Nonce(d, me.s))>>)
      \/ Becomes_(B, <<Failed>>)
      \/ /\ pdu.type = "data" /\ pdu.under = KeyOf(d)
         /\ Becomes_([Beacon EXCEPT !.stage = "node", !.addr = pdu.addr, !.key = KeyOf(d)], <<Complete>>)
  BY Zenon DEF DeviceTakes
<1>5. Good([me EXCEPT !.stage = "invited"], Caps(d))
  BY DEF IsDevice, Caps, Capabilities
<1>6. IsDevice([me EXCEPT !.stage = "started", !.method = pdu.method])
      /\ [me EXCEPT !.stage = "started", !.method = pdu.method].stage # "node"
  BY DEF IsDevice
<1>7. Good([me EXCEPT !.stage = "keyed", !.peer = pdu.value], PublicKey(Key(d, me.s)))
  BY DEF IsDevice, PublicKey
<1>8. Good([me EXCEPT !.stage = "confirmed", !.conf = pdu.value],
           Confirmation(Proof(SaltOf(d), Nonce(d, me.s), AuthOf(d))))
  BY DEF IsDevice, Confirmation, Proof, SaltOf, Salt, AuthOf
<1>9. Good([me EXCEPT !.stage = "checked"], Random(Nonce(d, me.s)))
  BY DEF IsDevice, Random
<1>10. Good(B, Failed)
  BY <1>3
<1>11. pdu.type = "data" /\ pdu.under = KeyOf(d) =>
         Good([Beacon EXCEPT !.stage = "node", !.addr = pdu.addr, !.key = KeyOf(d)], Complete)
  BY DEF IsDevice, Beacon, Complete
<1> HIDE DEF Becomes_, Good, B
<1>12. QED
  BY <1>1, <1>2, <1>4, <1>5, <1>6, <1>7, <1>8, <1>9, <1>10, <1>11, Zenon

\* A PDU reaches the device, which answers it or refuses it.
LEMMA ToDeviceKeeps ==
  ASSUME IInv, ToDevice
  PROVE  IInv'
<1> DEFINE d == run.device  pdu == Head(toDevice)
<1>1. /\ pc = "handshake" /\ toDevice # <<>> /\ toDevice' = Tail(toDevice)
      /\ IF Turn[pdu.type] = device[d].stage THEN DeviceTakes(d, pdu)
         ELSE toUs' = Append(toUs, Octets(Failed)) /\ UNCHANGED device
      /\ UNCHANGED <<file, state, pc, run, prov, done, errors, pump, onAir>>
  BY DEF ToDevice, session, history
<1>2. pdu \in Range(toDevice) /\ toDevice' \in Seq(Range(toDevice')) /\ Range(toDevice') \subseteq Range(toDevice)
  BY <1>1, TailRange DEF IInv, TypeOK
<1>3. /\ d \in Devices /\ DOMAIN device = Devices /\ IsDevice(device[d])
      /\ Partner /\ DataArrives /\ CapsArrive /\ ProofsArrive
  BY <1>1 DEF IInv, TypeOK, HandshakeHolds, Partner
<1> DEFINE Step(me, new) ==
             /\ IsDevice(me) /\ device'[d] = me /\ DOMAIN device' = Devices
             /\ \A x \in Devices \ {d} : device'[x] = device[x]
             /\ toUs' \in Seq(Range(toUs')) /\ Range(toUs') = Range(toUs) \cup new
             /\ me.stage = "node" => \/ me = device[d]
                                     \/ pdu.type = "data" /\ me.addr = pdu.addr /\ me.key = pdu.under
             /\ device[d].stage = "node" => me = device[d]
             /\ \A o \in new : /\ o.pdu.type = "complete" => me.stage = "node"
                               /\ o.pdu.type = "capabilities" => o.pdu = Caps(d)
                               /\ o.pdu.type = "confirmation" => Honest(o.pdu.value)
<1>4. \E me, new : Step(me, new)
  <2>1. CASE Turn[pdu.type] = device[d].stage
    <3>1. DeviceTakes(d, pdu)
      BY <1>1, <2>1
    <3>2. pdu.type \in {"invite", "start", "public_key", "confirmation", "random", "data"}
      BY <3>1, Zenon DEF DeviceTakes
    <3>3. device[d].stage # "node"
      BY <2>1, <3>2 DEF Turn
    <3>4. DeviceBecomes(d, pdu)
      BY <1>3, <3>1, <3>3, DeviceAnswers
    <3>5. PICK me, replies :
           /\ device' = [device EXCEPT ![d] = me] /\ IsDevice(me)
           /\ toUs' = toUs \o [i \in DOMAIN replies |-> Octets(replies[i])]
           /\ me.stage = "node" => pdu.type = "data" /\ me.addr = pdu.addr /\ me.key = pdu.under
           /\ \/ replies = <<>>
              \/ \E r : /\ replies = <<r>>
                        /\ r.type = "capabilities" => r = Caps(d)
                        /\ r.type = "complete" => me.stage = "node"
                        /\ r.type = "confirmation" => (r.value.salt.method = "static" => r.value.auth = Oob[d])
      BY <3>4, Zenon DEF DeviceBecomes
    <3> DEFINE octets == [i \in DOMAIN replies |-> Octets(replies[i])]
    <3>6. PICK new : /\ octets \in Seq(Range(octets)) /\ Range(octets) = new
                     /\ \A o \in new : /\ o.pdu.type = "complete" => me.stage = "node"
                                       /\ o.pdu.type = "capabilities" => o.pdu = Caps(d)
                                       /\ o.pdu.type = "confirmation" => Honest(o.pdu.value)
      <4>1. CASE replies = <<>>
        <5>1. octets = <<>>
          BY <4>1
        <5>2. QED
          BY <5>1, ListRange, Zenon
      <4>2. ASSUME NEW r, replies = <<r>>,
                   r.type = "capabilities" => r = Caps(d), r.type = "complete" => me.stage = "node",
                   r.type = "confirmation" => (r.value.salt.method = "static" => r.value.auth = Oob[d])
            PROVE  \E new : /\ octets \in Seq(Range(octets)) /\ Range(octets) = new
                            /\ \A o \in new : /\ o.pdu.type = "complete" => me.stage = "node"
                                              /\ o.pdu.type = "capabilities" => o.pdu = Caps(d)
                                              /\ o.pdu.type = "confirmation" => Honest(o.pdu.value)
        <5>1. octets = <<Octets(r)>>
          BY <4>2
        <5>2. octets \in Seq(Range(octets)) /\ Range(octets) = {Octets(r)}
          BY <5>1, ListRange, Zenon
        <5>3. Octets(r).pdu = r
          BY DEF Octets
        <5>4. \A o \in {Octets(r)} : /\ o.pdu.type = "complete" => me.stage = "node"
                                     /\ o.pdu.type = "capabilities" => o.pdu = Caps(d)
                                     /\ o.pdu.type = "confirmation" => Honest(o.pdu.value)
          BY <4>2, <5>3 DEF Honest
        <5>5. QED
          BY <5>2, <5>4, Zenon
      <4>3. QED
        BY <3>5, <4>1, <4>2, Zenon
    <3>7. toUs' = toUs \o octets
      BY <3>5
    <3> HIDE DEF octets
    <3>8. toUs' \in Seq(Range(toUs')) /\ Range(toUs') = Range(toUs) \cup new
      BY <3>6, <3>7, ConcatRange DEF IInv, TypeOK
    <3>9. /\ device'[d] = me /\ DOMAIN device' = Devices
          /\ \A x \in Devices \ {d} : device'[x] = device[x]
      BY <1>3, <3>5
    <3>10. Step(me, new)
      BY <3>3, <3>5, <3>6, <3>8, <3>9, Zenon
    <3> HIDE DEF Step
    <3>11. QED
      BY <3>10, Zenon
  <2>2. CASE Turn[pdu.type] # device[d].stage
    <3>1. toUs' = Append(toUs, Octets(Failed)) /\ device' = device
      BY <1>1, <2>2
    <3>2. toUs' \in Seq(Range(toUs')) /\ Range(toUs') = Range(toUs) \cup {Octets(Failed)}
      BY <3>1, AppendRange DEF IInv, TypeOK
    <3>3. Octets(Failed).pdu.type = "failed"
      BY DEF Octets, Failed
    <3>4. Step(device[d], {Octets(Failed)})
      BY <1>3, <3>1, <3>2, <3>3
    <3> HIDE DEF Step
    <3>5. QED
      BY <3>4, Zenon
  <2>3. QED
    BY <2>1, <2>2
<1>5. PICK me, new : Step(me, new)
  BY <1>4, Zenon
<1> HIDE DEF pdu
<1>6. TypeOK'
  <2>1. \A x \in Devices : IsDevice(device'[x])
    BY <1>5 DEF IInv, TypeOK, IsDevice
  <2>2. QED
    BY <1>1, <1>2, <1>5, <2>1 DEF IInv, TypeOK, IsFile, IsRun, IsProvisioner
<1>7. Partner'
  BY <1>1, <1>3 DEF Partner
<1>8. DataArrives'
  BY <1>1, <1>2, <1>3, <1>5 DEF DataArrives
<1>9. CapsArrive' /\ ProofsArrive'
  BY <1>1, <1>3, <1>5 DEF CapsArrive, ProofsArrive, DataAfterProof, Caps, Honest
<1>10. QED
  BY <1>1, <1>5, <1>6, <1>7, <1>8, <1>9, HandshakeKeeps

\* What is lost, said out of turn, or cannot be written.
LEMMA FaultKeeps ==
  ASSUME IInv, Lost \/ WriteFails \/ \E octets \in Strays : Stray(octets)
  PROVE  IInv'
<1> DEFINE Step ==
             /\ pc = "handshake" /\ UNCHANGED <<file, state, pc, run, prov, pump, onAir, device>>
             /\ errors' \in BOOLEAN /\ done' \in BOOLEAN
             /\ (errors' = errors /\ done' = done) \/ errors'
             /\ toDevice' \in Seq(Range(toDevice')) /\ Range(toDevice') \subseteq Range(toDevice)
             /\ toUs' \in Seq(Range(toUs'))
             /\ \A o \in Range(toUs') :
                  \/ o \in Range(toUs)
                  \/ /\ o.pdu.type # "capabilities" /\ o.pdu.type # "confirmation"
                     /\ o.pdu.type = "complete" => device[run.device].stage = "node"
<1>1. Step
  <2>1. CASE Lost
    <3>1. /\ pc = "handshake" /\ UNCHANGED <<file, state, pc, run, prov, pump, onAir, device, done, errors>>
          /\ \/ toDevice # <<>> /\ toDevice' = Tail(toDevice) /\ UNCHANGED toUs
             \/ toUs # <<>> /\ toUs' = Tail(toUs) /\ UNCHANGED toDevice
      BY <2>1 DEF Lost, session
    <3>2. QED
      BY <3>1, TailRange DEF IInv, TypeOK
  <2>2. CASE WriteFails
    <3>1. /\ pc = "handshake" /\ UNCHANGED <<file, state, pc, run, prov, pump, onAir, device, toUs>>
          /\ toDevice' = <<>>
      BY <2>2 DEF WriteFails, session
    <3>2. errors' /\ errors' \in BOOLEAN /\ done' \in BOOLEAN
      BY <2>2, Zenon DEF WriteFails
    <3>3. QED
      BY <3>1, <3>2, ListRange DEF IInv, TypeOK
  <2>3. ASSUME NEW octets \in Strays, Stray(octets)
        PROVE  Step
    <3>1. /\ pc = "handshake" /\ (octets.pdu = Complete => device[run.device].stage = "node")
          /\ toUs' = Append(toUs, octets)
          /\ UNCHANGED <<file, state, pc, run, prov, pump, onAir, device, toDevice, done, errors>>
      BY <2>3 DEF Stray, session
    <3>2. /\ octets.pdu.type # "capabilities" /\ octets.pdu.type # "confirmation"
          /\ octets.pdu.type = "complete" => octets.pdu = Complete
      BY DEF Strays, Octets, Complete, Failed
    <3>3. toUs' \in Seq(Range(toUs')) /\ Range(toUs') = Range(toUs) \cup {octets}
      BY <3>1, AppendRange DEF IInv, TypeOK
    <3>4. QED
      BY <3>1, <3>2, <3>3 DEF IInv, TypeOK
  <2>4. QED
    BY <2>1, <2>2, <2>3
<1>2. Partner /\ DataArrives /\ CapsArrive /\ ProofsArrive
  BY <1>1 DEF IInv, HandshakeHolds
<1>3. TypeOK'
  BY <1>1 DEF IInv, TypeOK, IsFile, IsRun, IsDevice, IsProvisioner
<1>4. Partner'
  BY <1>1, <1>2 DEF Partner
<1>5. DataArrives'
  BY <1>1, <1>2 DEF DataArrives
<1>6. CapsArrive' /\ ProofsArrive'
  BY <1>1, <1>2 DEF CapsArrive, ProofsArrive, DataAfterProof, Caps, Honest
<1>7. QED
  BY <1>1, <1>3, <1>4, <1>5, <1>6, HandshakeKeeps

\* The device is recorded.
LEMMA RecordedKeeps ==
  ASSUME IInv, Recorded
  PROVE  IInv'
<1> DEFINE d == run.device  a == run.addr
<1>1. /\ done /\ ~ errors /\ file' = state'
      /\ state' = [state EXCEPT !.devices = Put(@, a, [device |-> d, key |-> prov.key]),
                                !.next = NextAddress(a, prov.caps.elements)]
      /\ pc' = "proxy" /\ prov' = NoProvisioner /\ done' = FALSE /\ toDevice' = <<>> /\ toUs' = <<>>
      /\ UNCHANGED <<run, errors, pump, device, onAir>>
  BY DEF Recorded, session, history
<1>2. /\ pc = "handshake" /\ Partner /\ DataArrives /\ CapsArrive
      /\ file.devices = state.devices /\ file.next = state.next /\ file.seq = state.seq /\ file.next > 1
  BY <1>1 DEF IInv, Quiet, FileFollows, HandshakeHolds
<1>3. /\ d \in Devices /\ a = file.next /\ a \in Nat /\ a > 1
      /\ device[d].stage = "node" /\ device[d].addr = a /\ device[d].key = prov.key
      /\ prov.caps = Caps(d)
      /\ \A u \in DOMAIN file.devices : file.devices[u].device # d
  BY <1>1, <1>2 DEF Partner, DataArrives, CapsArrive, Known, IInv, TypeOK, IsFile
<1> DEFINE size == Max0(Elements[d])
<1>4. size \in Nat /\ size >= 1 /\ NextAddress(a, prov.caps.elements) = a + size
  BY <1>3, Phase0Assumption DEF NextAddress, Caps, Capabilities, Max0
<1> DEFINE new == [device |-> d, key |-> prov.key]  devices == Put(file.devices, a, new)
<1>5. /\ file'.devices = devices /\ file'.next = a + size /\ file'.seq = file.seq
      /\ DOMAIN file' = {"devices", "next", "seq", "control"}
  BY <1>1, <1>2, <1>4 DEF IInv, TypeOK, IsFile
<1>6. /\ DOMAIN devices = DOMAIN file.devices \cup {a} /\ devices[a] = new
      /\ \A u \in DOMAIN file.devices \ {a} : devices[u] = file.devices[u]
  BY DEF Put
<1>7. new.device = d /\ new.key = prov.key
  OBVIOUS
<1> HIDE DEF d, a, size, new, devices
<1>8. TypeOK'
  <2>1. IsFile(file') /\ IsFile(state')
    <3>1. DOMAIN file.devices \subseteq Nat /\ \A u \in DOMAIN file.devices : file.devices[u].device \in Devices
      BY DEF IInv, TypeOK, IsFile
    <3>2. DOMAIN devices \subseteq Nat /\ \A u \in DOMAIN devices : devices[u].device \in Devices
      BY <1>3, <1>6, <1>7, <3>1
    <3>3. a + size \in Nat /\ file.seq \in Nat
      BY <1>3, <1>4 DEF IInv, TypeOK, IsFile
    <3>4. QED
      BY <1>1, <1>5, <3>2, <3>3 DEF IsFile
  <2>2. IsProvisioner(prov')
    BY <1>1 DEF NoProvisioner, NewProvisioner, IsProvisioner
  <2>3. toDevice' \in Seq(Range(toDevice')) /\ toUs' \in Seq(Range(toUs'))
    BY <1>1, ListRange
  <2>4. done' \in BOOLEAN
    BY <1>1, Zenon
  <2>5. QED
    BY <1>1, <2>1, <2>2, <2>3, <2>4 DEF IInv, TypeOK, IsRun, IsDevice, IsProvisioner, IsFile
<1>9. FileFollows' /\ Quiet'
  <2>1. file'.next > 1 /\ NoFile.next = 0
    BY <1>3, <1>4, <1>5 DEF NoFile, Fresh
  <2>2. FileFollows'
    <3>1. file' = state' /\ pc' = "proxy"
      BY <1>1
    <3>2. QED
      BY <2>1, <3>1 DEF FileFollows
  <2>3. Quiet'
    BY <1>1 DEF Quiet
  <2>4. QED
    BY <2>2, <2>3
<1>10. SeqAhead'
  BY <1>1, <1>5 DEF IInv, SeqAhead, NoSeqTwice
<1>11. AddressesDisjoint'
  <2> DEFINE range(u) == u .. u + Max0(Elements[devices[u].device]) - 1
  <2>1. \A u \in DOMAIN file.devices : u \in Nat /\ file.devices[u].device \in Devices
    BY DEF IInv, TypeOK, IsFile
  <2>2. \A u \in DOMAIN file.devices : Max0(Elements[file.devices[u].device]) \in Nat
                                       /\ Max0(Elements[file.devices[u].device]) >= 1
    BY <2>1, Phase0Assumption DEF Max0
  <2>3. \A u \in DOMAIN file.devices : u # a /\ \A x \in u .. u + Max0(Elements[file.devices[u].device]) - 1 : x < a /\ 1 < x
    BY <1>3, <2>1, <2>2 DEF IInv, AddressesDisjoint
  <2>4. \A u \in DOMAIN file.devices : range(u) = u .. u + Max0(Elements[file.devices[u].device]) - 1
    BY <1>6, <2>3
  <2>5. range(a) = a .. a + size - 1
    BY <1>6, <1>7 DEF size
  <2>5x. \A u \in DOMAIN file.devices : range(u) \subseteq Int
    BY <2>1, <2>2, <2>4
  <2> HIDE DEF range
  <2>6. \A u \in DOMAIN devices : \A x \in range(u) : 1 < x /\ x < a + size
    <3>1. \A x \in range(a) : 1 < x /\ x < a + size
      BY <1>3, <1>4, <2>5
    <3>2. ASSUME NEW u \in DOMAIN file.devices, NEW x \in range(u) PROVE 1 < x /\ x < a + size
      <4>1. x \in u .. u + Max0(Elements[file.devices[u].device]) - 1 /\ x \in Int
        BY <2>4, <2>5x
      <4>2. 1 < x /\ x < a
        BY <2>3, <4>1
      <4>3. QED
        BY <4>1, <4>2, <1>3, <1>4
    <3>3. QED
      BY <1>6, <3>1, <3>2
  <2>7. \A u, v \in DOMAIN file.devices : u # v => range(u) \cap range(v) = {}
    BY <2>4 DEF IInv, AddressesDisjoint
  <2>8. \A u \in DOMAIN file.devices : range(u) \cap range(a) = {}
    <3>1. SUFFICES ASSUME NEW u \in DOMAIN file.devices, NEW x \in range(u), x \in range(a) PROVE FALSE
      OBVIOUS
    <3>2. x \in u .. u + Max0(Elements[file.devices[u].device]) - 1
      BY <2>4
    <3>3. x < a /\ x \in Int /\ a <= x
      BY <1>3, <1>4, <2>3, <2>5, <3>1, <3>2
    <3>4. QED
      BY <1>3, <3>3
  <2>9. \A u, v \in DOMAIN devices : u # v => range(u) \cap range(v) = {}
    BY <1>6, <2>7, <2>8
  <2>10. QED
    BY <1>5, <2>6, <2>9 DEF AddressesDisjoint, range
<1>12. RecordedIsProvisioned'
  BY <1>1, <1>3, <1>5, <1>6, <1>7 DEF IInv, RecordedIsProvisioned
<1>13. QED
  BY <1>1, <1>8, <1>9, <1>10, <1>11, <1>12 DEF IInv, HandshakeHolds

----------------------------------------------------------------------------
(***************************************************************************)
(* The mesh session.                                                       *)
(***************************************************************************)

Early == {"off", "scan", "handshake"}

\* A step that only moves the run on within its session.
LEMMA MoveKeeps ==
  ASSUME IInv, IsRun(run'), (pc' = pc /\ run' = run) \/ (pc \notin Early /\ pc' \notin Early),
         UNCHANGED <<file, state, prov, done, errors, toDevice, toUs, pump, device, onAir>>
  PROVE  IInv'
<1>1. TypeOK'
  BY DEF IInv, TypeOK, IsFile, IsRun, IsDevice, IsProvisioner
<1>2. FileFollows' /\ Quiet' /\ SeqAhead' /\ AddressesDisjoint' /\ RecordedIsProvisioned'
  BY DEF IInv, FileFollows, Quiet, SeqAhead, NoSeqTwice, AddressesDisjoint, RecordedIsProvisioned, Early
<1>3. HandshakeHolds'
  <2>1. CASE pc' = pc /\ run' = run
    BY <2>1 DEF IInv, HandshakeHolds, Partner, DataArrives, CapsArrive, ProofsArrive, DataAfterProof, Caps, Honest
  <2>2. CASE pc' \notin Early
    BY <2>2 DEF HandshakeHolds, Early
  <2>3. QED
    BY <2>1, <2>2
<1>4. QED
  BY <1>1, <1>2, <1>3 DEF IInv

\* PDUs are put on the pump, under the next numbers, which the file is past at once.
LEMMA PutKeeps ==
  ASSUME IInv, pc \notin Early, pc' \notin Early, NEW n \in Nat, NEW new,
         new \in Seq(Range(new)), Len(new) = n, \A i \in 1 .. n : new[i].seq = state.seq + i - 1,
         pump' = pump \o new,
         DOMAIN state' = DOMAIN state, DOMAIN file' = DOMAIN state,
         state'.devices = state.devices, state'.next = state.next, state'.seq = state.seq + n,
         file'.devices = state.devices, file'.next = state.next, file'.seq = state.seq + n,
         UNCHANGED <<run, prov, done, errors, toDevice, toUs, device, onAir>>
  PROVE  IInv'
<1>1. /\ pump' \in Seq(Range(pump')) /\ Len(pump') = Len(pump) + n /\ DOMAIN pump' = 1 .. Len(pump')
      /\ Len(pump) \in Nat /\ DOMAIN pump = 1 .. Len(pump)
      /\ \A i \in 1 .. Len(pump') : pump'[i] = IF i <= Len(pump) THEN pump[i] ELSE new[i - Len(pump)]
  <2>1. pump \in Seq(Range(pump))
    BY DEF IInv, TypeOK
  <2>2. pump' \in Seq(Range(pump'))
    BY <2>1, ConcatRange
  <2>3. QED
    BY <2>1, <2>2, ConcatRange, LenProperties
<1>2. /\ state.devices = file.devices /\ state.next = file.next /\ state.seq = file.seq /\ file.next > 1
      /\ state.seq \in Nat /\ IsFile(state)
  BY DEF IInv, FileFollows, Early, TypeOK, IsFile
<1>3. ASSUME NEW i \in 1 .. Len(pump')
      PROVE  /\ i <= Len(pump) => pump'[i] = pump[i] /\ i \in DOMAIN pump
             /\ i > Len(pump) => pump'[i].seq = state.seq + (i - Len(pump)) - 1 /\ i - Len(pump) \in 1 .. n
  BY <1>1
<1>4. ASSUME NEW i \in 1 .. Len(pump') PROVE pump'[i].seq \in Nat
  <2>1. CASE i <= Len(pump)
    BY <2>1, <1>3 DEF IInv, TypeOK
  <2>2. CASE i > Len(pump)
    <3>1. pump'[i].seq = state.seq + (i - Len(pump)) - 1 /\ i - Len(pump) \in 1 .. n
      BY <2>2, <1>3
    <3>2. \A k \in 1 .. n : state.seq + k - 1 \in Nat
      BY <1>2
    <3>3. QED
      BY <3>1, <3>2
  <2>3. QED
    BY <2>1, <2>2, <1>1
<1>5. TypeOK'
  <2>1. IsFile(file') /\ IsFile(state')
    BY <1>2 DEF IsFile
  <2>2. QED
    BY <1>1, <1>4, <2>1 DEF IInv, TypeOK, IsRun, IsDevice, IsProvisioner
<1>6. FileFollows' /\ Quiet'
  BY <1>2 DEF IInv, FileFollows, Quiet, Early, NoFile, Fresh
<1>7. SeqAhead'
  <2>1. \A i \in DOMAIN pump : pump[i].seq > onAir /\ pump[i].seq < state.seq /\ pump[i].seq \in Nat
    BY <1>2 DEF IInv, SeqAhead, NoSeqTwice, TypeOK
  <2>2. \A i \in DOMAIN pump : \A j \in 1 .. i - 1 : pump[i].seq > pump[j].seq
    BY DEF IInv, SeqAhead, NoSeqTwice
  <2>3. onAir < state.seq /\ onAir \in Int
    BY <1>2 DEF IInv, SeqAhead, TypeOK
  <2>4. ASSUME NEW i \in 1 .. Len(pump')
        PROVE  /\ pump'[i].seq > onAir /\ pump'[i].seq < state.seq + n
               /\ \A j \in 1 .. i - 1 : pump'[i].seq > pump'[j].seq
    <3>1. CASE i <= Len(pump)
      BY <3>1, <1>1, <1>2, <1>3, <2>1, <2>2, <2>3
    <3>2. CASE i > Len(pump)
      <4>1. pump'[i].seq = state.seq + (i - Len(pump)) - 1 /\ i - Len(pump) \in 1 .. n
        BY <3>2, <1>3
      <4>2. pump'[i].seq >= state.seq /\ pump'[i].seq < state.seq + n /\ pump'[i].seq \in Nat
        BY <4>1, <1>1, <1>2, <1>4
      <4>3. ASSUME NEW j \in 1 .. i - 1 PROVE pump'[i].seq > pump'[j].seq
        <5>1. CASE j <= Len(pump)
          <6>1. j \in DOMAIN pump /\ j \in 1 .. Len(pump')
            BY <5>1, <3>2, <1>1
          <6>2. pump'[j].seq < state.seq /\ pump'[j].seq \in Nat
            BY <6>1, <5>1, <1>3, <2>1
          <6>3. \A a, b, c \in Nat : a >= c /\ b < c => a > b
            OBVIOUS
          <6>4. QED
            BY <6>2, <6>3, <4>2, <1>2, Zenon
        <5>2. CASE j > Len(pump)
          BY <5>2, <3>2, <4>1, <1>1, <1>2, <1>3
        <5>3. QED
          BY <5>1, <5>2, <1>1
      <4>4. QED
        <5>1. pump'[i].seq > onAir
          BY <4>2, <1>2, <2>3
        <5>2. QED
          BY <5>1, <4>2, <4>3
    <3>3. QED
      BY <3>1, <3>2, <1>1
  <2>5. QED
    <3>1. onAir' < file'.seq
      BY <2>3, <1>2
    <3>2. \A i \in DOMAIN pump' : pump'[i].seq < file'.seq
      BY <1>1, <2>4
    <3>3. NoSeqTwice'
      BY <1>1, <2>4 DEF NoSeqTwice
    <3>4. QED
      BY <3>1, <3>2, <3>3 DEF SeqAhead
<1>8. AddressesDisjoint' /\ RecordedIsProvisioned'
  BY <1>2 DEF IInv, AddressesDisjoint, RecordedIsProvisioned
<1>9. QED
  BY <1>5, <1>6, <1>7, <1>8 DEF IInv, HandshakeHolds, Early

\* The pump writes a PDU.
LEMMA LeavesKeeps ==
  ASSUME IInv, Leaves
  PROVE  IInv'
<1> DEFINE q == Head(pump)  d == run.device
<1>1. /\ pump # <<>> /\ pump' = Tail(pump) /\ onAir' = q.seq
      /\ UNCHANGED <<file, state, pc, run, prov, done, errors, toDevice, toUs>>
  BY DEF Leaves, handshake
<1>2. pc \notin Early
  BY <1>1 DEF IInv, Quiet, Early
<1> DEFINE heard == run.reaches /\ q.seq > device[d].rpl /\ device[d].stage = "node"
           me == IF heard THEN [device[d] EXCEPT !.rpl = q.seq] ELSE device[d]
<1>3. PICK new : /\ device' = [device EXCEPT ![d] = new]
                 /\ new = me \/ \E f : new = Becomes(q.message, f, me)
  BY Zenon DEF Leaves
<1>4. ASSUME d \in Devices
      PROVE  IsDevice(new) /\ new.stage = device[d].stage /\ new.addr = device[d].addr /\ new.key = device[d].key
  <2>1. /\ IsDevice(me) /\ me.stage = device[d].stage /\ me.addr = device[d].addr /\ me.key = device[d].key
    BY <1>4 DEF IInv, TypeOK, IsDevice
  <2> HIDE DEF me
  <2>2. ASSUME NEW f PROVE LET b == Becomes(q.message, f, me) IN
          IsDevice(b) /\ b.stage = me.stage /\ b.addr = me.addr /\ b.key = me.key
    BY <2>1 DEF Becomes, IsDevice
  <2>3. QED
    BY <1>3, <2>1, <2>2
<1> HIDE DEF q, heard, me
<1>5. /\ DOMAIN device' = Devices
      /\ \A x \in Devices : /\ IsDevice(device'[x]) /\ device'[x].stage = device[x].stage
                            /\ device'[x].addr = device[x].addr /\ device'[x].key = device[x].key
  <2>1. DOMAIN device' = Devices /\ \A x \in Devices \ {d} : device'[x] = device[x]
    BY <1>3 DEF IInv, TypeOK
  <2>2. d \in Devices => device'[d] = new
    BY <1>3 DEF IInv, TypeOK
  <2>3. \A x \in Devices : IsDevice(device[x])
    BY DEF IInv, TypeOK
  <2>4. QED
    BY <1>4, <2>1, <2>2, <2>3
<1>6. /\ pump \in Seq(Range(pump)) /\ pump' \in Seq(Range(pump')) /\ q = pump[1]
      /\ Len(pump) \in Nat /\ Len(pump) > 0 /\ DOMAIN pump = 1 .. Len(pump) /\ DOMAIN pump' = 1 .. Len(pump) - 1
      /\ \A i \in 1 .. Len(pump) - 1 : pump'[i] = pump[i + 1]
  <2>1. pump \in Seq(Range(pump))
    BY DEF IInv, TypeOK
  <2>2. /\ q = pump[1] /\ pump' \in Seq(Range(pump')) /\ Len(pump) > 0 /\ Len(pump') = Len(pump) - 1
        /\ \A i \in 1 .. Len(pump) - 1 : pump'[i] = pump[i + 1]
    BY <1>1, <2>1, TailRange, Zenon DEF q
  <2>3. QED
    BY <2>1, <2>2, LenProperties
<1>7. \A i \in DOMAIN pump : pump[i].seq \in Nat
  BY DEF IInv, TypeOK
<1>8. TypeOK'
  <2>1. onAir' \in Int /\ \A i \in DOMAIN pump' : pump'[i].seq \in Nat
    BY <1>1, <1>6, <1>7
  <2>2. QED
    BY <1>1, <1>5, <1>6, <2>1 DEF IInv, TypeOK, IsFile, IsRun, IsProvisioner
<1>9. FileFollows' /\ Quiet'
  BY <1>1, <1>2 DEF IInv, FileFollows, Quiet, Early
<1>10. SeqAhead'
  <2>1. \A i \in DOMAIN pump : pump[i].seq < file.seq /\ \A j \in 1 .. i - 1 : pump[i].seq > pump[j].seq
    BY DEF IInv, SeqAhead, NoSeqTwice
  <2>2. ASSUME NEW i \in 1 .. Len(pump) - 1
        PROVE  /\ pump'[i].seq > onAir' /\ pump'[i].seq < file'.seq
               /\ \A j \in 1 .. i - 1 : pump'[i].seq > pump'[j].seq
    <3>1. i + 1 \in DOMAIN pump /\ 1 \in 1 .. (i + 1) - 1
      BY <1>6
    <3>2. pump[i + 1].seq > pump[1].seq /\ pump[i + 1].seq < file.seq
      BY <2>1, <3>1
    <3>3. ASSUME NEW j \in 1 .. i - 1 PROVE pump'[i].seq > pump'[j].seq
      <4>1. j \in 1 .. Len(pump) - 1 /\ j + 1 \in 1 .. (i + 1) - 1
        BY <1>6
      <4>2. QED
        BY <1>6, <2>1, <3>1, <4>1
    <3>4. QED
      BY <1>1, <1>6, <3>2, <3>3
  <2>3. onAir' < file'.seq
    <3>1. 1 \in DOMAIN pump
      BY <1>6
    <3>2. QED
      BY <1>1, <1>6, <2>1, <3>1
  <2>4. QED
    BY <1>6, <2>2, <2>3 DEF SeqAhead, NoSeqTwice
<1>11. AddressesDisjoint'
  BY <1>1 DEF IInv, AddressesDisjoint
<1>12. RecordedIsProvisioned'
  BY <1>1, <1>5 DEF IInv, RecordedIsProvisioned, TypeOK, IsFile
<1>13. HandshakeHolds'
  BY <1>1, <1>2 DEF HandshakeHolds, Early
<1>14. QED
  BY <1>8, <1>9, <1>10, <1>11, <1>12, <1>13 DEF IInv

\* A node nobody recorded is reset.
LEMMA ResetKeeps ==
  ASSUME IInv, NEW d \in Devices, Reset(d)
  PROVE  IInv'
<1>1. /\ pc = "off" /\ \A u \in DOMAIN file.devices : file.devices[u].device # d
      /\ device' = [device EXCEPT ![d] = Beacon]
      /\ UNCHANGED <<file, state, pc, run, prov, done, errors, toDevice, toUs, pump, onAir>>
  BY DEF Reset, handshake, session, history
<1>2. DOMAIN device' = Devices /\ device'[d] = Beacon /\ \A x \in Devices \ {d} : device'[x] = device[x]
  BY <1>1 DEF IInv, TypeOK
<1>3. IsDevice(Beacon)
  BY DEF IsDevice, Beacon
<1> HIDE DEF Beacon
<1>4. TypeOK'
  <2>1. \A x \in Devices : IsDevice(device'[x])
    BY <1>2, <1>3 DEF IInv, TypeOK, IsDevice
  <2>2. QED
    BY <1>1, <1>2, <2>1 DEF IInv, TypeOK, IsFile, IsRun, IsProvisioner
<1>5. FileFollows' /\ Quiet' /\ SeqAhead' /\ AddressesDisjoint'
  BY <1>1 DEF IInv, FileFollows, Quiet, SeqAhead, NoSeqTwice, AddressesDisjoint
<1>6. RecordedIsProvisioned'
  BY <1>1, <1>2 DEF IInv, RecordedIsProvisioned, TypeOK, IsFile
<1>7. QED
  BY <1>1, <1>4, <1>5, <1>6 DEF IInv, HandshakeHolds

----------------------------------------------------------------------------
(***************************************************************************)
(* All steps.                                                              *)
(***************************************************************************)

LEMMA FailKeeps ==
  ASSUME IInv, pc # "off", Fails
  PROVE  IInv'
<1>1. Off /\ file' = state /\ UNCHANGED <<device, onAir>>
  BY DEF Fails, Ends
<1>2. QED
  BY <1>1, EndKeeps

\* The steps of a session that has its link.
LEMMA SessionKeeps ==
  ASSUME IInv, Session
  PROVE  IInv'
<1>1. CASE Ask
  <2> DEFINE n == Pdus(pc)  new == Sent(Message(pc), n)
  <2>1. /\ pc \in Steps /\ pump' = pump \o new /\ state' = [state EXCEPT !.seq = @ + n] /\ file' = state'
        /\ UNCHANGED <<pc, run, prov, done, errors, toDevice, toUs, device, onAir>>
    BY <1>1 DEF Ask, PutSaved, handshake, history
  <2>2. n \in Nat
    BY DEF Pdus
  <2>3. new \in Seq(Range(new)) /\ Len(new) = n /\ \A i \in 1 .. n : new[i].seq = state.seq + i - 1
    <3> DEFINE at(i) == [message |-> Message(pc), seq |-> state.seq + i - 1, last |-> i = n]
    <3>1. new = [i \in 1 .. n |-> at(i)] /\ \A i \in 1 .. n : at(i).seq = state.seq + i - 1
      BY DEF Sent
    <3> HIDE DEF at, new, n
    <3>2. new \in Seq({at(i) : i \in 1 .. n}) /\ Len(new) = n
      BY <2>2, <3>1
    <3>3. new \in Seq(Range(new))
      BY <3>2, SeqOfRange, Zenon
    <3>4. QED
      BY <3>1, <3>2, <3>3
  <2> HIDE DEF n, new
  <2>4. /\ DOMAIN state' = DOMAIN state /\ state'.devices = state.devices /\ state'.next = state.next
        /\ state'.seq = state.seq + n
    BY <2>1 DEF IInv, TypeOK, IsFile
  <2>5. pc \notin Early
    BY <2>1 DEF Steps, Early
  <2>6. QED
    BY <2>1, <2>2, <2>3, <2>4, <2>5, PutKeeps
<1>2. CASE NoAnswer \/ Refused
  <2>1. Fails /\ pc # "off"
    BY <1>2 DEF NoAnswer, Refused, Steps
  <2>2. QED
    BY <2>1, FailKeeps
<1>3. CASE GoesBy
  <2>1. UNCHANGED <<file, state, pc, run, prov, done, errors, toDevice, toUs, pump, device, onAir>>
    BY <1>3 DEF GoesBy, handshake, history
  <2>2. QED
    BY <2>1, MoveKeeps DEF IInv, TypeOK, IsRun
<1>4. CASE AppKeyStored
  <2>1. /\ UNCHANGED <<file, state, run, prov, done, errors, toDevice, toUs, pump, device, onAir>>
        /\ pc \notin Early /\ pc' \notin Early
    BY <1>4 DEF AppKeyStored, Answered, Next, handshake, history, Early
  <2>2. QED
    BY <2>1, MoveKeeps DEF IInv, TypeOK, IsRun
<1>5. CASE Composed
  <2> DEFINE models == Pickables(CompositionData(Head(answers).status))
             new == <<[message |-> [op |-> "ack"], seq |-> state.seq, last |-> TRUE]>>
  <2>1. pc = "composition"
    BY <1>5 DEF Composed, Answered
  <2>2. CASE models = {}
    BY <1>5, <2>1, <2>2, FailKeeps DEF Composed
  <2>3. CASE models # {}
    <3>1. /\ pc' = "bind" /\ pump' = Append(pump, new[1])
          /\ state' = [state EXCEPT !.seq = @ + 1, !.control = Preferred(models)]
          /\ file' = [state EXCEPT !.seq = @ + 1]
          /\ UNCHANGED <<run, prov, done, errors, toDevice, toUs, device, onAir>>
      BY <1>5, <2>3 DEF Composed, Next, handshake, history
    <3>2. new \in Seq(Range(new)) /\ Len(new) = 1 /\ \A i \in 1 .. 1 : new[i].seq = state.seq + i - 1
      <4>1. new \in Seq(Range(new))
        BY ListRange
      <4>2. state.seq \in Nat
        BY DEF IInv, TypeOK, IsFile
      <4>3. QED
        BY <4>1, <4>2
    <3>3. pump' = pump \o new
      <4>1. pump \in Seq(Range(pump))
        BY DEF IInv, TypeOK
      <4>2. new = <<new[1]>>
        OBVIOUS
      <4> HIDE DEF new
      <4>3. QED
        BY <3>1, <4>1, <4>2, AppendRange
    <3> HIDE DEF new, models
    <3>4. /\ DOMAIN state' = DOMAIN state /\ state'.devices = state.devices /\ state'.next = state.next
          /\ state'.seq = state.seq + 1
          /\ DOMAIN file' = DOMAIN state /\ file'.devices = state.devices /\ file'.next = state.next
          /\ file'.seq = state.seq + 1
      BY <3>1 DEF IInv, TypeOK, IsFile
    <3>5. pc \notin Early /\ pc' \notin Early
      BY <2>1, <3>1 DEF Early
    <3>6. QED
      BY <3>1, <3>2, <3>3, <3>4, <3>5, PutKeeps
  <2>4. QED
    BY <2>2, <2>3
<1>6. CASE Bound
  <2>1. /\ UNCHANGED <<file, state, run, prov, done, errors, toDevice, toUs, pump, device, onAir>>
        /\ pc \notin Early /\ pc' \notin Early
    BY <1>6 DEF Bound, Answered, Next, handshake, Early
  <2>2. QED
    BY <2>1, MoveKeeps DEF IInv, TypeOK, IsRun
<1>7. CASE Toggled
  <2>1. pc = "toggle"
    BY <1>7 DEF Toggled, Answered
  <2>2. CASE request.toggled + 1 = Toggles
    <3>1. Off /\ file' = state /\ UNCHANGED <<device, onAir>>
      BY <1>7, <2>2 DEF Toggled, Ends, history
    <3>2. QED
      BY <2>1, <3>1, EndKeeps
  <2>3. CASE request.toggled + 1 # Toggles
    <3>1. UNCHANGED <<file, state, pc, run, prov, done, errors, toDevice, toUs, pump, device, onAir>>
      BY <1>7, <2>3 DEF Toggled, handshake, history
    <3>2. QED
      BY <3>1, MoveKeeps DEF IInv, TypeOK, IsRun
  <2>4. QED
    BY <2>2, <2>3
<1>8. CASE Leaves
  BY <1>8, LeavesKeeps
<1>9. QED
  BY <1>1, <1>2, <1>3, <1>4, <1>5, <1>6, <1>7, <1>8 DEF Session

LEMMA StepKeeps ==
  ASSUME IInv, [Act]_vars
  PROVE  IInv'
<1>1. ASSUME NEW toggleOnly \in BOOLEAN, RunBegins(toggleOnly) PROVE IInv'
  BY <1>1, BeginKeeps
<1>2. ASSUME NEW d \in Devices, NEW oob \in Values, Found(d, oob) PROVE IInv'
  BY <1>2, FoundKeeps
<1>3. CASE NotFound \/ Interrupted
  <2>1. Fails /\ pc # "off"
    BY <1>3 DEF NotFound, Interrupted
  <2>2. QED
    BY <2>1, FailKeeps
<1>4. CASE Killed
  BY <1>4, EndKeeps DEF Killed
<1>5. CASE ToDevice
  BY <1>5, ToDeviceKeeps
<1>6. CASE ToUs
  BY <1>6, ToUsKeeps
<1>7. CASE TimesOut
  <2>1. Fails /\ pc # "off"
    BY <1>7 DEF TimesOut
  <2>2. QED
    BY <2>1, FailKeeps
<1>8. CASE GivesUp
  <2>1. done /\ Off /\ file' = state /\ UNCHANGED <<device, onAir>>
    BY <1>8 DEF GivesUp, Ends, history
  <2>2. pc # "off"
    BY <2>1 DEF IInv, Quiet
  <2>3. QED
    BY <2>1, <2>2, EndKeeps
<1>9. CASE Recorded
  BY <1>9, RecordedKeeps
<1>10. CASE Lost \/ WriteFails \/ \E octets \in Strays : Stray(octets)
  BY <1>10, FaultKeeps
<1>11. ASSUME NEW ours \in BOOLEAN, Linked(ours) PROVE IInv'
  <2>1. /\ UNCHANGED <<file, state, prov, done, errors, toDevice, toUs, pump, device, onAir>>
        /\ pc \notin Early /\ pc' \notin Early /\ run' = [run EXCEPT !.reaches = ours]
    BY <1>11 DEF Linked, handshake, session, Early
  <2>2. IsRun(run')
    BY <2>1 DEF IInv, TypeOK, IsRun
  <2>3. QED
    BY <2>1, <2>2, MoveKeeps
<1>12. CASE Session
  BY <1>12, SessionKeeps
<1>13. CASE AnswerLost
  <2>1. UNCHANGED <<file, state, pc, run, prov, done, errors, toDevice, toUs, pump, device, onAir>>
    BY <1>13 DEF AnswerLost, handshake
  <2>2. QED
    BY <2>1, MoveKeeps DEF IInv, TypeOK, IsRun
<1>14. ASSUME NEW d \in Devices, Reset(d) PROVE IInv'
  BY <1>14, ResetKeeps
<1>15. CASE UNCHANGED vars
  <2>1. UNCHANGED <<file, state, pc, run, prov, done, errors, toDevice, toUs, pump, device, onAir>>
    BY <1>15 DEF vars
  <2>2. QED
    BY <2>1, MoveKeeps DEF IInv, TypeOK, IsRun
<1>16. QED
  BY <1>1, <1>2, <1>3, <1>4, <1>5, <1>6, <1>7, <1>8, <1>9, <1>10, <1>11, <1>12, <1>13, <1>14, <1>15
     DEF Act, Handshake

----------------------------------------------------------------------------
(***************************************************************************)
(* The theorems.                                                           *)
(***************************************************************************)

\* What the file, the run, the pump and the devices know of each other.
THEOREM BooksAgree == Spec => []IInv
<1>1. IInv /\ [Act]_vars => IInv'
  BY StepKeeps
<1>2. QED
  BY <1>1, InitHolds, PTL DEF Spec

\* No SEQ leaves twice, whatever run it is of and however the last one ended.
THEOREM NoSeqLeavesTwice == Spec => []NoSeqTwice
<1>1. IInv => NoSeqTwice
  BY DEF IInv, SeqAhead
<1>2. QED
  BY <1>1, BooksAgree, PTL

\* No two recorded nodes share an address, nor does the next one to provision.
THEOREM AddressesAlwaysDisjoint == Spec => []AddressesDisjoint
<1>1. IInv => AddressesDisjoint
  BY DEF IInv
<1>2. QED
  BY <1>1, BooksAgree, PTL

\* A device in the state file is a node, with the address and the key the file has.
THEOREM RecordedAreProvisioned == Spec => []RecordedIsProvisioned
<1>1. IInv => RecordedIsProvisioned
  BY DEF IInv
<1>2. QED
  BY <1>1, BooksAgree, PTL

\* The network key leaves for a device only after it showed that it knows the
\* AuthValue the tool uses.
THEOREM DataOnlyAfterProof == Spec => []DataAfterProof
<1>1. IInv => DataAfterProof
  BY DEF IInv, HandshakeHolds, ProofsArrive, DataAfterProof
<1>2. QED
  BY <1>1, BooksAgree, PTL
=============================================================================
