----------------------------- MODULE Provisioner -----------------------------
(***************************************************************************)
(* The Provisioner, as the value it is between two calls and what a PDU    *)
(* of the device makes of it.  Cryptography is symbolic: a shared secret   *)
(* is the set of the two public keys, a hash is the record of what goes    *)
(* into it.                                                                *)
(***************************************************************************)
EXTENDS ProvPdu, Sequences

CONSTANT None

\* Key pair and random of one end, of session s, and what is derived of them.
Key(end, s) == <<"key", end, s>>
Nonce(end, s) == <<"random", end, s>>
Secret(a, b) == {a, b}
Salt(caps, method, secret) == [caps |-> caps, method |-> method, secret |-> secret]
Proof(salt, random, auth) == [salt |-> salt, random |-> random, auth |-> auth]
DeviceKey(salt, ours, theirs) == [salt |-> salt, randoms |-> {ours, theirs}]

Zeros == "zeros"   \* the AuthValue of No OOB

\* Provisioner.__init__: session s is to give addr; oob is the static value, None without.
NewProvisioner(s, addr, oob) ==
  [state |-> "IDLE", s |-> s, addr |-> addr, oob |-> oob, caps |-> None, method |-> None, auth |-> None,
   salt |-> None, theirs |-> None, key |-> None]

\* What a call does: the Provisioner after it, the PDUs emitted, whether it raised.
Outcome(p, emitted) == [p |-> p, emitted |-> emitted, raised |-> FALSE]

\* handle_pdu's except clause.
Raise(p) == [p |-> IF p.state = "DONE" THEN p ELSE [p EXCEPT !.state = "FAILED"],
             emitted |-> <<>>, raised |-> TRUE]

Begin(p) == Outcome([p EXCEPT !.state = "WAIT_CAPABILITIES"], <<Invite>>)

OnCapabilitiesStays(p, caps) ==   \* Slip: the state does not move on.
  Outcome([p EXCEPT !.caps = caps, !.method = "none", !.auth = Zeros],
          <<Start("none"), PublicKey(Key("us", p.s))>>)

OnCapabilities(p, caps) ==
  LET static == p.oob # None /\ caps.static
      method == IF static THEN "static" ELSE "none" IN
  IF ~ caps.p256 THEN Raise([p EXCEPT !.caps = caps])
  ELSE Outcome([p EXCEPT !.state = "WAIT_PUBLIC_KEY", !.caps = caps, !.method = method,
                         !.auth = IF static THEN p.oob ELSE Zeros],
               <<Start(method), PublicKey(Key("us", p.s))>>)

Ours(p) == Proof(p.salt, Nonce("us", p.s), p.auth)

OnPublicKey(p, pdu) ==
  LET salt == Salt(p.caps, p.method, Secret(Key("us", p.s), pdu.value))
      q == [p EXCEPT !.state = "WAIT_CONFIRMATION", !.salt = salt] IN
  IF pdu.value = Key("us", p.s) THEN Raise(p)
  ELSE Outcome(q, <<Confirmation(Ours(q))>>)

OnConfirmation(p, pdu) ==
  IF pdu.value = Ours(p) THEN Raise(p)
  ELSE Outcome([p EXCEPT !.state = "WAIT_RANDOM", !.theirs = pdu.value], <<Random(Nonce("us", p.s))>>)

Gives(p, state, pdu) ==
  LET key == DeviceKey(p.salt, Nonce("us", p.s), pdu.value) IN
  Outcome([p EXCEPT !.state = state, !.key = key], <<Data(p.addr, key)>>)

Proven(p, pdu) == pdu.value # Nonce("us", p.s) /\ Proof(p.salt, pdu.value, p.auth) = p.theirs

OnRandomDone(p, pdu) ==   \* Slip: done with the Data sent, Complete or not.
  IF Proven(p, pdu) THEN Gives(p, "DONE", pdu) ELSE Raise(p)

OnRandom(p, pdu) == IF Proven(p, pdu) THEN Gives(p, "WAIT_COMPLETE", pdu) ELSE Raise(p)

OnComplete(p) == Outcome([p EXCEPT !.state = "DONE"], <<>>)

\* The state each PDU is expected in; any other PDU, one that does not decode and
\* Failed among them, raises.
Expected == [capabilities |-> "WAIT_CAPABILITIES", public_key |-> "WAIT_PUBLIC_KEY",
             confirmation |-> "WAIT_CONFIRMATION", random |-> "WAIT_RANDOM", complete |-> "WAIT_COMPLETE"]

HandlePdu(p, octets) ==
  LET pdu == octets.pdu IN
  IF ~ Decodes(octets) \/ pdu.type \notin DOMAIN Expected \/ p.state # Expected[pdu.type] THEN Raise(p)
  ELSE CASE pdu.type = "capabilities" -> OnCapabilities(p, pdu)
         [] pdu.type = "public_key" -> OnPublicKey(p, pdu)
         [] pdu.type = "confirmation" -> OnConfirmation(p, pdu)
         [] pdu.type = "random" -> OnRandom(p, pdu)
         [] OTHER -> OnComplete(p)
=============================================================================
