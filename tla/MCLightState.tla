---------------------------- MODULE MCLightState ----------------------------
(* A tunable lamp that mirrors its temperature, a relay, and the group over both. *)
EXTENDS LightState, TLC
CONSTANTS strip, relay, c1, c2
MCMode == (strip :> "ctlTemp") @@ (relay :> "onoff")
MCTunable == (strip :> "ctl") @@ (relay :> "onoff")
MCRanges == (strip :> {<<0, 1, 1>>, <<1, 0, 0>>}) @@ (relay :> {})

\* What a command may still fall back to.
Before(q) ==
  CASE q.light = Group -> [l \in Lights |-> <<q.was[l].on, q.was[l].bri>>]
    [] q.call = "onoff" -> q.was.on
    [] OTHER -> <<q.was.on, q.was.bri, q.was.temp>>

\* What the steps and the properties of the run read: of written, seen and cut, and
\* of what a command cannot fall back to, they read nothing.
View ==
  <<cache, ranged, refresh, holder, reply, linked, lamp, spoiled, said, acts,
    [c \in Commands |-> IF cmd[c] = Idle THEN Idle ELSE [cmd[c] EXCEPT !.was = Before(cmd[c])]]>>
=============================================================================
