---------------------------- MODULE LightMessages ----------------------------
(***************************************************************************)
(* The application messages a light is driven with: what a Set carries,    *)
(* what is read of a Status, and what the controller returns of it.        *)
(*                                                                         *)
(* A Set is a record.  A Status is the sequence of its fields, and its     *)
(* length says what it is: the short form has the present state alone, the *)
(* long form, of a lamp in a transition, the target and the time left too. *)
(***************************************************************************)
EXTENDS Naturals, Sequences

CONSTANT Nothing

\* The messages to a light, of which a group address gets the unacknowledged form:
\* generic_onoff_set, light_lightness_set, light_ctl_set, light_ctl_temperature_set,
\* and the Gets.
OnOffSet(on, ack) == [op |-> "onoff", set |-> TRUE, ack |-> ack, on |-> on]
LightnessSet(b, ack) == [op |-> "lightness", set |-> TRUE, ack |-> ack, bri |-> b]
CtlSet(b, k) == [op |-> "ctl", set |-> TRUE, ack |-> TRUE, bri |-> b, temp |-> k]
TemperatureSet(k) == [op |-> "temp", set |-> TRUE, ack |-> TRUE, temp |-> k]
Get(op) == [op |-> op, set |-> FALSE, ack |-> TRUE]

----------------------------------------------------------------------------
\* The lengths _expect_params takes of each Status; it raises on any other.
Lengths == [onoff |-> {1, 3}, lightness |-> {1, 3}, ctl |-> {2, 5}, temp |-> {2, 5}, range |-> {3}]
Parses(op, f) == Len(f) \in Lengths[op]

\* parse_generic_onoff_status, parse_light_lightness_status: state, target, time.
Single(f) == [present |-> f[1], target |-> IF Len(f) = 1 THEN Nothing ELSE f[2]]

\* parse_light_ctl_status: lightness and temperature, their targets, time.
Ctl(f) == [present |-> f[2], target |-> IF Len(f) = 2 THEN Nothing ELSE f[4]]

TempShifted(f) == [present |-> f[1], target |-> IF Len(f) = 2 THEN Nothing ELSE f[2]]   \* Slip: the delta UV.

\* parse_light_ctl_temperature_status: temperature and delta UV, their targets, time.
Temp(f) == [present |-> f[1], target |-> IF Len(f) = 2 THEN Nothing ELSE f[3]]

\* parse_light_ctl_temperature_range_status.
Range(f) == [code |-> f[1], min |-> f[2], max |-> f[3]]

\* _settled: the target while a transition runs, which is where it ends.
Settled(status) == IF status.target = Nothing THEN status.present ELSE status.target

----------------------------------------------------------------------------
\* What the controller's calls return of a Status that parses.
SetOnOff(f) == Settled(Single(f))
SetLightness(f) == Settled(Single(f))
SetCtl(f) == Settled(Ctl(f))
SetTemperature(f) == Settled(Temp(f))

\* get_onoff and get_lightness look at the present state only.
GetOnOff(f) == Single(f).present
GetLightness(f) == Single(f).present
GetCtl(f) == Settled(Ctl(f))
GetTemperature(f) == Settled(Temp(f))

\* get_ctl_temperature_range: a node that has no valid range says so in its code.
GetRange(f) == IF Range(f).code = 0 THEN <<Range(f).min, Range(f).max>> ELSE Nothing

Returned(message, f) ==
  CASE message.op = "onoff" -> IF message.set THEN SetOnOff(f) ELSE GetOnOff(f)
    [] message.op = "lightness" -> IF message.set THEN SetLightness(f) ELSE GetLightness(f)
    [] message.op = "ctl" -> IF message.set THEN SetCtl(f) ELSE GetCtl(f)
    [] message.op = "temp" -> IF message.set THEN SetTemperature(f) ELSE GetTemperature(f)
    [] OTHER -> GetRange(f)
=============================================================================
