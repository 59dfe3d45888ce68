----------------------------- MODULE LightState -----------------------------
(***************************************************************************)
(* What the lights show, against what the lamps do: commands that show     *)
(* their request at once and settle on the answer, or take it back; the    *)
(* re-read after every new link; and a group that shows its command on its *)
(* members and puts them back when it never left.                          *)
(*                                                                         *)
(* A command is a coroutine: between two of its calls anything else may    *)
(* run, and at each await its caller may cancel it, and it is gone without *)
(* settling anything.  The calls themselves go one at a time, behind the   *)
(* coordinator's lock; a lamp that changes during a call changes before or *)
(* after it.  Brightness and temperature are members of small sets; of the *)
(* arithmetic only the inverted scale of some lamps matters (Kelvin), and  *)
(* of the limits a light exposes only their sum, around which it is        *)
(* mirrored.                                                               *)
(***************************************************************************)
EXTENDS LightMessages, FiniteSets, Integers

CONSTANTS
  Lights,     \* MeshLight entities
  Mode,       \* Mode[l]: "onoff", "level", "ctl", "ctlTemp" (its own Temperature server)
  Inverted,   \* the lights marked as mapping temperature inversely
  Disabled,   \* lights the user disabled: the group still reaches them
  Grouped,    \* the members of the group
  Commands,   \* command coroutines that may run at a time
  Levels,     \* brightnesses of a lit lamp, the largest being full
  Default,    \* the level a lamp jumps to when it is only told "on"
  Temps,      \* 1 .. n: the temperatures a message carries
  Assumed,    \* the sum of the limits a light exposes before it has read its own
  Ranges,     \* Ranges[l]: the Statuses a lamp may answer to a range Get
  MaxTurns,   \* bound: commands
  MaxOdds,    \* bound: changes from outside, Statuses that do not parse, drops,
              \* commands cancelled
  Group

ASSUME LightsAssumption ==
  /\ Mode \in [Lights -> {"onoff", "level", "ctl", "ctlTemp"}]
  /\ Inverted \subseteq Lights /\ Disabled \subseteq Lights /\ Grouped \subseteq Lights
  /\ Levels \subseteq Nat \ {0} /\ Default \in Levels /\ Group \notin Lights
  /\ \E b \in Levels : \A c \in Levels : c <= b
  /\ Cardinality(Temps) \in Nat \ {0} /\ Temps = 1 .. Cardinality(Temps)
  /\ Assumed \in Nat /\ DOMAIN Ranges = Lights
  /\ \A l \in Lights : \A f \in Ranges[l] : f \in Nat \X Nat \X Nat
  /\ Commands \cap Lights = {}
  /\ {MaxTurns, MaxOdds} \subseteq Nat

ASSUME NothingAssumption == Nothing \notin Lights \cup Commands \cup {Group} \cup BOOLEAN \cup Nat

VARIABLES
  cache,     \* _is_on, _brightness, _color_temp_kelvin of every light, and its mirror's
             \* pivot: the sum of the two limits it exposes
  written,   \* what Home Assistant was last told of it
  seen,      \* what the group last rendered of it
  ranged,    \* _range_read
  cmd,       \* the command coroutines
  refresh,   \* _refresh_task of every light: the call it waits for, "idle"
  holder,    \* whose call holds the lock
  reply,     \* what that call will return
  linked,    \* a link is held
  lamp,      \* the lamps themselves
  spoiled,   \* history: the attributes of a light nothing vouches for
  said,      \* history: the on-states a light may show: its own when it was last quiet,
             \* those its lamp answered since, those a group Set carried, and those a
             \* cancelled command left standing
  cut,       \* history: lights whose own command was cancelled, and not written since
  turns,     \* how many commands, and
  odds       \* how many of what MaxOdds bounds, so far

acts == <<turns, odds>>
lightVars == <<cache, written, seen, ranged, cmd, refresh, holder, reply, linked, lamp, spoiled, said, cut, acts>>

Idle == [light |-> Nothing]
Mid == 1 + CHOOSE b \in Levels : \A c \in Levels : c <= b   \* what a fading lamp reports
Full == Mid - 1
Attributes == {"on", "bri", "temp"}
Added == Lights \ Disabled
Dims(l) == Mode[l] # "onoff"
HasTemp(l) == Mode[l] \in {"ctl", "ctlTemp"}
GroupDims == \E l \in Grouped : Dims(l)
GroupSwitches == \E l \in Grouped : ~ Dims(l)

Touched(q) == IF q.light = Group THEN Grouped ELSE {q.light} \cap Lights
Commanding(l) == {c \in Commands : l \in Touched(cmd[c])}
Quiet(l) == Commanding(l) = {} /\ refresh[l] = "idle"

\* _mesh_kelvin, _ha_kelvin: the same reflection both ways, around the middle of the
\* limits the light exposes now (_mirror).
Kelvin(l, k) == IF l \in Inverted THEN cache[l].pivot - k ELSE k

\* What is sent for it: the controller keeps to what a message can carry.
Sent(l, k) ==
  LET mesh == Kelvin(l, k)
      n == Cardinality(Temps) IN
  IF mesh < 1 THEN 1 ELSE IF mesh > n THEN n ELSE mesh

----------------------------------------------------------------------------
(***************************************************************************)
(* What is shown.                                                          *)
(***************************************************************************)

Told(ls, now) == [l \in Lights |-> IF l \in ls \cap Added THEN now[l] ELSE written[l]]

\* _write_state of the lights ls, which now are as in now: Home Assistant is told of
\* each that was added to it, and the group renders its members again.
Write(ls, now) ==
  /\ cache' = now
  /\ written' = Told(ls, now)
  /\ seen' = IF ls \cap Grouped = {} THEN seen ELSE now
  /\ cut' = cut \ ls

Unwritten(now) == cache' = now /\ UNCHANGED <<written, seen, cut>>

\* _handle_availability of every light on a new link: each is written, and read
\* again unless a read is under way (_schedule_refresh).
NewLink ==
  /\ Write(Added, cache)
  /\ refresh' = [l \in Lights |-> IF l \in Added /\ refresh[l] = "idle" THEN "onoff" ELSE refresh[l]]

\* A command starts on the lights ls, within the bound.
Act(ls) ==
  /\ turns < MaxTurns /\ turns' = turns + 1 /\ UNCHANGED odds
  /\ said' = [l \in Lights |-> IF l \in ls /\ Quiet(l) THEN {cache[l].on} ELSE said[l]]

Odd == odds < MaxOdds /\ odds' = odds + 1 /\ UNCHANGED turns

\* Something else happens to the lights ls: a command there is no longer alone.
Alone(ls) == \A l \in ls : Quiet(l)
Disturbed(ls) ==
  [c \in Commands |-> IF Touched(cmd[c]) \cap ls # {} THEN [cmd[c] EXCEPT !.alone = FALSE] ELSE cmd[c]]

----------------------------------------------------------------------------
(***************************************************************************)
(* The lamps: what a message does to one, and the Status it answers.       *)
(***************************************************************************)

\* What a lamp is after a message it heard.
Switched(x, on) == [x EXCEPT !.on = on, !.level = IF on THEN Default ELSE @]
Dimmed(x, b) == [x EXCEPT !.on = TRUE, !.level = b]
Tuned(x, k) == [x EXCEPT !.temp = k]

Hears(x, message) ==
  CASE message.op = "onoff" -> Switched(x, message.on)
    [] message.op = "lightness" -> Dimmed(x, message.bri)
    [] message.op = "temp" -> Tuned(x, message.temp)
    [] OTHER -> Tuned(Dimmed(x, message.bri), message.temp)

\* The Status a lamp answers: with its targets while it fades.
Says(x, op) ==
  LET level == IF x.on THEN x.level ELSE 0 IN
  CASE op = "onoff" -> IF x.fading THEN <<TRUE, x.on, 1>> ELSE <<x.on>>
    [] op = "lightness" -> IF x.fading THEN <<Mid, level, 1>> ELSE <<level>>
    [] op = "ctl" -> IF x.fading THEN <<Mid, 0, level, x.temp, 1>> ELSE <<level, x.temp>>
    [] OTHER -> IF x.fading THEN <<0, 0, x.temp, 0, 1>> ELSE <<x.temp, 0>>

----------------------------------------------------------------------------
(***************************************************************************)
(* A command of one light.                                                 *)
(***************************************************************************)

\* The light is told on or off, with a brightness b and a temperature k, or neither.
Request(l, on, b, k) ==
  [cache[l] EXCEPT !.on = on, !.bri = IF b = Nothing THEN @ ELSE b, !.temp = IF k = Nothing THEN @ ELSE k]

TempCall(l) == IF Mode[l] = "ctl" THEN "ctl" ELSE "temp"

\* The lightness a Light CTL Set has to carry for a light that shows the brightness b.
Carried(b) == IF b \in {Nothing, 0} THEN Full ELSE b

\* What a Set of the temperature k carries: worked out before the lock is waited for.
Carries(l, k, b) == [bri |-> Carried(b), temp |-> Sent(l, k)]

Command(light, on, b, k, was, call) ==
  [light |-> light, on |-> on, bri |-> b, temp |-> k, was |-> was, call |-> call,
   carries |-> IF call \in {"ctl", "temp"} THEN Carries(light, k, was.bri) ELSE Nothing,
   lit |-> FALSE, answered |-> TRUE, alone |-> Alone(Touched([light |-> light]))]

\* async_turn_on, up to its first await.
TurnOn(c, l, b, k) ==
  /\ cmd[c] = Idle /\ l \in Added /\ Act({l})
  /\ b # Nothing => Dims(l)
  /\ k # Nothing => HasTemp(l)
  /\ Write({l}, [cache EXCEPT ![l] = Request(l, TRUE, b, k)])
  /\ cmd' = [Disturbed({l}) EXCEPT ![c] =
       Command(l, TRUE, b, k, cache[l],
               IF b # Nothing THEN "lightness" ELSE IF k # Nothing THEN TempCall(l) ELSE "onoff")]
  /\ UNCHANGED <<ranged, refresh, holder, reply, linked, lamp, spoiled>>

\* async_turn_off, up to its await.
TurnOff(c, l) ==
  /\ cmd[c] = Idle /\ l \in Added /\ Act({l})
  /\ Write({l}, [cache EXCEPT ![l].on = FALSE])
  /\ cmd' = [Disturbed({l}) EXCEPT ![c] = Command(l, FALSE, Nothing, Nothing, cache[l], "onoff")]
  /\ UNCHANGED <<ranged, refresh, holder, reply, linked, lamp, spoiled>>

NextCallTempOnly(q) ==   \* Slip: the temperature is all that is asked for.
  IF q.call = "lightness" /\ q.temp # Nothing THEN TempCall(q.light) ELSE "done"

\* The call after the one just answered.  A lightness lights the lamp; a
\* temperature alone does not, so a lamp that was off is also switched on.
NextCall(q) ==
  CASE q.call = "lightness" /\ q.temp # Nothing -> TempCall(q.light)
    [] q.call = "temp" /\ q.bri = Nothing /\ q.was.on # TRUE -> "onoff"
    [] OTHER -> "done"

SettleOptimistic(q, r, shown) ==   \* Slip: silence is taken for consent.
  CASE q.call = "onoff" -> [shown EXCEPT !.on = IF r = Nothing THEN @ ELSE r]
    [] q.call = "lightness" -> [shown EXCEPT !.bri = IF r = Nothing THEN @ ELSE r]
    [] OTHER -> [shown EXCEPT !.temp = IF r = Nothing THEN @ ELSE Kelvin(q.light, r)]

\* Each attribute settles on its Status, else on what it was.
Settle(q, r, shown) ==
  CASE q.call = "onoff" -> [shown EXCEPT !.on = IF r = Nothing THEN q.was.on ELSE r]
    [] q.call = "lightness" -> [shown EXCEPT !.bri = IF r = Nothing THEN q.was.bri ELSE r]
    [] OTHER -> [shown EXCEPT !.temp = IF r = Nothing THEN q.was.temp ELSE Kelvin(q.light, r)]

Lit(q, r) == q.lit \/ (q.call \in {"lightness", "ctl"} /\ r # Nothing)

\* Nothing that lights the lamp was acknowledged: the tap's "on" is taken back.
Unlit(q, r, shown) ==
  IF q.call # "onoff" /\ ~ Lit(q, r) THEN [shown EXCEPT !.on = q.was.on] ELSE shown

----------------------------------------------------------------------------
(***************************************************************************)
(* Its calls (_run_connected).                                             *)
(***************************************************************************)

\* The lock is taken by x, without a link one cannot be made: nothing is sent.
NoLink(x) ==
  /\ ~ linked /\ holder' = x /\ reply' = Nothing
  /\ UNCHANGED <<cache, written, seen, ranged, cmd, refresh, linked, lamp, spoiled, said, cut, acts>>

\* The lock is taken by x, and there is a link, or there is one now.
Connected(x) ==
  /\ holder' = x
  /\ IF linked THEN UNCHANGED <<cache, written, seen, cut, refresh>> ELSE NewLink

\* The message meets silence, or a Status with the fields f: one that does not parse
\* raises, and the link is torn down.
Silence == reply' = Nothing /\ linked' = TRUE /\ UNCHANGED acts
Status(message, f) ==
  IF Parses(message.op, f) THEN reply' = Returned(message, f) /\ linked' = TRUE /\ UNCHANGED acts
  ELSE reply' = Nothing /\ linked' = FALSE /\ Odd

Garbled == <<>>

\* The Set a command sends next, to its light or to the group.
Message(q) ==
  CASE q.call = "onoff" -> OnOffSet(q.on, q.light # Group)
    [] q.call = "lightness" -> LightnessSet(q.bri, q.light # Group)
    [] q.call = "temp" -> TemperatureSet(q.carries.temp)
    [] OTHER -> CtlSet(q.carries.bri, q.carries.temp)

\* The lamp l after it: it heard it, and may fade there; a node may answer an OnOff
\* that it did not obey.
After(l, message) ==
  {[Hears(lamp[l], message) EXCEPT !.fading = fading] : fading \in IF Dims(l) THEN BOOLEAN ELSE {FALSE}}
    \cup IF message.op = "onoff" THEN {lamp[l]} ELSE {}

Changes(call) ==
  CASE call = "temp" -> {"temp"} [] call = "ctl" -> Attributes [] OTHER -> {"on", "bri"}

\* The Set of a light's command: heard or not, answered or not.
Send(c) ==
  LET q == cmd[c]
      message == Message(q) IN
  /\ holder = Nothing /\ q.light \in Lights
  /\ \/ NoLink(c)
     \/ /\ Connected(c)
        /\ \/ lamp' = lamp /\ Silence
           \/ \E x \in After(q.light, message) :
                /\ lamp' = [lamp EXCEPT ![q.light] = x]
                /\ Silence \/ \E f \in {Says(x, message.op), Garbled} : Status(message, f)
        /\ spoiled' = [spoiled EXCEPT ![q.light] = @ \cup Changes(q.call)]
        /\ UNCHANGED <<ranged, cmd, said>>

\* What the answers of an undisturbed command vouch for.
Vouched(q) ==
  CASE q.call = "onoff" -> {"on"} [] q.call = "lightness" -> {"on", "bri"}
    [] q.call = "temp" -> {"temp"}
    [] OTHER -> {"on", "temp"} \cup (IF q.carries.bri = cache[q.light].bri THEN {"bri"} ELSE {})

\* The call returns, and the coroutine goes on to its next await.
Answer(c) ==
  LET q == cmd[c]
      l == q.light
      next == NextCall(q)
      settled == Settle(q, reply, cache[l])
      given == reply # Nothing
  IN
  /\ holder = c /\ l \in Lights
  /\ holder' = Nothing /\ reply' = Nothing
  /\ IF next = "done"
     THEN /\ cmd' = [cmd EXCEPT ![c] = Idle]
          /\ Write({l}, [cache EXCEPT ![l] = Unlit(q, reply, settled)])
     ELSE /\ cmd' = [cmd EXCEPT ![c] =
               [q EXCEPT !.call = next, !.lit = Lit(q, reply), !.answered = @ /\ given,
                         !.carries = IF next = "onoff" THEN Nothing ELSE Carries(l, q.temp, settled.bri)]]
          /\ Unwritten([cache EXCEPT ![l] = settled])
  /\ spoiled' = [spoiled EXCEPT ![l] = CASE given /\ q.alone -> @ \ Vouched(q)
                                         [] ~ q.alone -> Attributes [] OTHER -> @]
  /\ said' = IF ~ given \/ q.call = "temp" THEN said
             ELSE [said EXCEPT ![l] = @ \cup {IF q.call = "onoff" THEN reply ELSE TRUE}]
  /\ UNCHANGED <<ranged, refresh, linked, lamp, acts>>

----------------------------------------------------------------------------
(***************************************************************************)
(* Reading a light back: async_refresh_state, _refresh_ctl.                *)
(***************************************************************************)

\* The Get it waits for: a lamp without a Temperature server answers Light CTL.
Asked(l) == Get(IF refresh[l] = "temp" THEN TempCall(l) ELSE refresh[l])

\* The Statuses the lamp may answer to it: a node that has no valid range says so.
Answers(l, op) == IF op = "range" THEN Ranges[l] ELSE {Says(lamp[l], op)}

SendRefresh(l) ==
  /\ holder = Nothing /\ refresh[l] # "idle"
  /\ \/ NoLink(l)
     \/ /\ Connected(l)
        /\ Silence \/ \E f \in Answers(l, Asked(l).op) \cup {Garbled} : Status(Asked(l), f)
        /\ UNCHANGED <<ranged, cmd, lamp, spoiled, said>>

\* _refresh_ctl, of a light that has a temperature; the range is asked for once.
Temperature(l) == IF ~ HasTemp(l) THEN "idle" ELSE IF ranged[l] THEN "temp" ELSE "range"

\* "never invent a state from silence": a read that gets no on-state ends there,
\* and an off lamp is not asked for its lightness.
AfterRead(l) ==
  CASE refresh[l] = "onoff" -> IF reply = TRUE /\ Dims(l) THEN "lightness" ELSE Temperature(l)
    [] refresh[l] = "lightness" -> Temperature(l)
    [] refresh[l] = "range" -> "temp"
    [] OTHER -> "idle"

Read(l) ==
  IF reply = Nothing THEN cache
  ELSE CASE refresh[l] = "onoff" -> [cache EXCEPT ![l].on = reply]
         [] refresh[l] = "lightness" -> [cache EXCEPT ![l].bri = reply]
         [] refresh[l] = "temp" -> [cache EXCEPT ![l].temp = Kelvin(l, reply)]
         [] OTHER -> [cache EXCEPT ![l].pivot = reply[1] + reply[2]]

\* What the answer to a read vouches for.
Reads(call) ==
  CASE call = "onoff" -> {"on"} [] call = "lightness" -> {"bri"} [] call = "temp" -> {"temp"} [] OTHER -> {}

\* The pivot of an inverted light moves, and what it shows was mirrored around the old
\* one: nothing vouches for that until its temperature is read.
Moves(l) == l \in Inverted /\ Read(l)[l].pivot # cache[l].pivot

AnswerRefresh(l) ==
  LET call == refresh[l]
      silent == call = "onoff" /\ reply = Nothing
      next == IF silent THEN "idle" ELSE AfterRead(l)
  IN
  /\ holder = l /\ call # "idle"
  /\ holder' = Nothing /\ reply' = Nothing
  /\ refresh' = [refresh EXCEPT ![l] = next]
  /\ ranged' = [ranged EXCEPT ![l] = @ \/ next = "range"]
  /\ IF next = "idle" /\ ~ silent THEN Write({l}, Read(l)) ELSE Unwritten(Read(l))
  /\ cmd' = Disturbed({l})
  /\ spoiled' = [spoiled EXCEPT ![l] =
       (IF lamp[l].fading THEN @ \cup {"on", "bri"} ELSE IF reply # Nothing THEN @ \ Reads(call) ELSE @)
         \cup (IF Moves(l) THEN {"temp"} ELSE {})]
  /\ said' = IF call = "onoff" /\ ~ silent THEN [said EXCEPT ![l] = @ \cup {reply}] ELSE said
  /\ UNCHANGED <<linked, lamp, acts>>

----------------------------------------------------------------------------
(***************************************************************************)
(* The group: MeshGroupLight.                                              *)
(***************************************************************************)

\* _push_to_members: a member that cannot dim is only told on or off.
Pushed(on, b) ==
  [l \in Lights |-> IF l \notin Grouped THEN cache[l] ELSE Request(l, on, IF Dims(l) THEN b ELSE Nothing, Nothing)]

\* OnOff goes first, for the members that hear nothing of a lightness.
FirstGroupCall(b) == IF b # Nothing /\ ~ GroupSwitches THEN "lightness" ELSE "onoff"
AfterGroupCall(q) == IF q.call = "onoff" /\ q.bri # Nothing THEN "lightness" ELSE "done"

\* async_turn_on, async_turn_off of the group, up to the first await.
GroupTurn(c, on, b) ==
  /\ cmd[c] = Idle /\ Grouped # {} /\ Act(Grouped)
  /\ b # Nothing => on /\ GroupDims
  /\ Write(Grouped, Pushed(on, b))
  /\ cmd' = [Disturbed(Grouped) EXCEPT ![c] = Command(Group, on, b, Nothing, cache, FirstGroupCall(b))]
  /\ UNCHANGED <<ranged, refresh, holder, reply, linked, lamp, spoiled>>

\* One unacknowledged Set, as a lamp hears it.
GroupHeard(q, l) == IF q.call = "onoff" \/ Dims(l) THEN Hears(lamp[l], Message(q)) ELSE lamp[l]

\* The PDU reaches all the lamps or some; the pump may fail with it, before or after,
\* and then the link is dropped.
SendGroup(c) ==
  LET q == cmd[c] IN
  /\ holder = Nothing /\ q.light = Group
  /\ \/ NoLink(c)
     \/ /\ Connected(c)
        /\ \E reached \in SUBSET Grouped :
             /\ lamp' = [l \in Lights |-> IF l \in reached THEN GroupHeard(q, l) ELSE lamp[l]]
             /\ cmd' = [cmd EXCEPT ![c].answered = @ /\ reached = Grouped]
        /\ \/ linked' = TRUE /\ reply' = TRUE /\ UNCHANGED acts
           \/ linked' = FALSE /\ reply' = Nothing /\ Odd
        /\ spoiled' = [l \in Lights |-> spoiled[l] \cup (IF l \in Grouped THEN {"on", "bri"} ELSE {})]
        /\ UNCHANGED <<ranged, said>>

\* _roll_back; the OnOff that did leave still lit them all.
RolledBack(q) ==
  [l \in Lights |->
     IF l \notin Grouped THEN cache[l]
     ELSE [cache[l] EXCEPT !.bri = q.was[l].bri, !.on = IF q.lit THEN TRUE ELSE q.was[l].on]]

AnswerGroup(c) ==
  LET q == cmd[c]
      left == reply # Nothing
      next == IF left THEN AfterGroupCall(q) ELSE "done"
      shown == IF q.bri # Nothing /\ next = "done" THEN {"on", "bri"} ELSE {"on"}
  IN
  /\ holder = c /\ q.light = Group
  /\ holder' = Nothing /\ reply' = Nothing
  /\ cmd' = [cmd EXCEPT ![c] = IF next = "done" THEN Idle ELSE [q EXCEPT !.call = next, !.lit = TRUE]]
  /\ IF left THEN UNCHANGED <<cache, written, seen, cut>> ELSE Write(Grouped, RolledBack(q))
  /\ said' = IF ~ left THEN said
             ELSE [l \in Lights |-> IF l \in Grouped THEN said[l] \cup {q.on} ELSE said[l]]
  /\ spoiled' = [l \in Lights |->
       IF l \notin Grouped THEN spoiled[l]
       ELSE IF ~ q.alone THEN Attributes
       ELSE IF left /\ q.answered THEN spoiled[l] \ (IF Dims(l) THEN shown ELSE {"on"})
       ELSE spoiled[l]]
  /\ UNCHANGED <<ranged, refresh, linked, lamp, acts>>

----------------------------------------------------------------------------
(***************************************************************************)
(* The caller of a command is cancelled: a restarted script, a timeout.    *)
(***************************************************************************)

\* The coroutine is gone from the await it is at: on the lock, or in the call that
\* holds it.  Nothing settles and nothing is put back, so what the command showed
\* stays, with nothing to vouch for it; the link stays too (_run_connected).
CommandCancelled(c) ==
  LET q == cmd[c]
      ls == Touched(q) IN
  /\ q # Idle /\ Odd
  /\ cmd' = [cmd EXCEPT ![c] = Idle]
  /\ IF holder = c THEN holder' = Nothing /\ reply' = Nothing ELSE UNCHANGED <<holder, reply>>
  /\ spoiled' = [l \in Lights |-> IF l \in ls THEN Attributes ELSE spoiled[l]]
  /\ said' = [l \in Lights |-> IF l \in ls THEN said[l] \cup {q.on} ELSE said[l]]
  /\ cut' = cut \cup (Lights \cap {q.light})
  /\ UNCHANGED <<cache, written, seen, ranged, refresh, linked, lamp>>

----------------------------------------------------------------------------
(***************************************************************************)
(* The world.                                                              *)
(***************************************************************************)

\* A probe, or the watchdog, makes a link.
Reconnect ==
  /\ holder = Nothing /\ ~ linked /\ linked' = TRUE
  /\ NewLink
  /\ UNCHANGED <<ranged, cmd, holder, reply, lamp, spoiled, said, acts>>

\* A drop in the middle of a call is a call without answer and a drop after it.
LinkDrops ==
  /\ linked /\ holder = Nothing
  /\ linked' = FALSE /\ Odd
  /\ UNCHANGED <<cache, written, seen, ranged, cmd, refresh, holder, reply, lamp, spoiled, said, cut>>

\* The vendor app, a wall switch.
Outside(l) ==
  /\ holder = Nothing
  /\ lamp' = [lamp EXCEPT ![l].on = ~ @]
  /\ spoiled' = [spoiled EXCEPT ![l] = Attributes]
  /\ cmd' = Disturbed({l}) /\ Odd
  /\ UNCHANGED <<cache, written, seen, ranged, refresh, holder, reply, linked, said, cut>>

FadeEnds(l) ==
  /\ lamp[l].fading /\ holder = Nothing
  /\ lamp' = [lamp EXCEPT ![l].fading = FALSE]
  /\ UNCHANGED <<cache, written, seen, ranged, cmd, refresh, holder, reply, linked, spoiled, said, cut, acts>>

----------------------------------------------------------------------------
Unknown == [on |-> Nothing, bri |-> Nothing, temp |-> Nothing, pivot |-> Assumed]

LightInit ==
  /\ cache = [l \in Lights |-> Unknown] /\ written = cache /\ seen = cache
  /\ ranged = [l \in Lights |-> FALSE]
  /\ cmd = [c \in Commands |-> Idle] /\ refresh = [l \in Lights |-> "idle"]
  /\ holder = Nothing /\ reply = Nothing /\ linked = FALSE
  /\ lamp = [l \in Lights |-> [on |-> FALSE, level |-> Default, temp |-> 1, fading |-> FALSE]]
  /\ spoiled = [l \in Lights |-> Attributes]
  /\ said = [l \in Lights |-> {Nothing}] /\ cut = {} /\ turns = 0 /\ odds = 0

LightNext ==
  \/ \E c \in Commands :
       \/ \E l \in Lights, b \in Levels \cup {Nothing}, k \in Temps \cup {Nothing} : TurnOn(c, l, b, k)
       \/ \E l \in Lights : TurnOff(c, l)
       \/ \E on \in BOOLEAN, b \in Levels \cup {Nothing} : GroupTurn(c, on, b)
       \/ Send(c) \/ Answer(c) \/ SendGroup(c) \/ AnswerGroup(c) \/ CommandCancelled(c)
  \/ \E l \in Lights : SendRefresh(l) \/ AnswerRefresh(l) \/ Outside(l) \/ FadeEnds(l)
  \/ Reconnect \/ LinkDrops

LightSpec == LightInit /\ [][LightNext]_lightVars

----------------------------------------------------------------------------
(***************************************************************************)
(* Properties.                                                             *)
(***************************************************************************)

Shown == [on : BOOLEAN \cup {Nothing}, bri : Levels \cup {0, Mid, Nothing}, temp : Int \cup {Nothing}, pivot : Nat]

\* A command at one of its calls, with what its lights showed before it.
IsCommand(q) ==
  /\ DOMAIN q = {"light", "on", "bri", "temp", "was", "call", "carries", "lit", "answered", "alone"}
  /\ {q.on, q.lit, q.answered, q.alone} \subseteq BOOLEAN
  /\ q.bri \in Levels \cup {Nothing} /\ q.temp \in Temps \cup {Nothing}
  /\ q.call \in {"ctl", "temp"} => q.carries \in [bri : Levels \cup {Mid}, temp : Temps]
  /\ \/ q.light \in Lights /\ q.was \in Shown /\ q.call \in {"onoff", "lightness", "ctl", "temp"}
     \/ q.light = Group /\ q.was \in [Lights -> Shown] /\ q.call \in {"onoff", "lightness"}

\* Every variable has its shape.
LightTypeOK ==
  /\ cache \in [Lights -> Shown] /\ written \in [Lights -> Shown] /\ seen \in [Lights -> Shown]
  /\ ranged \in [Lights -> BOOLEAN]
  /\ DOMAIN cmd = Commands /\ \A c \in Commands : cmd[c] = Idle \/ IsCommand(cmd[c])
  /\ refresh \in [Lights -> {"idle", "onoff", "lightness", "range", "temp"}]
  /\ holder \in Commands \cup Lights \cup {Nothing} /\ linked \in BOOLEAN
  /\ lamp \in [Lights -> [on : BOOLEAN, level : Levels \cup {Mid}, temp : Temps, fading : BOOLEAN]]
  /\ spoiled \in [Lights -> SUBSET Attributes] /\ said \in [Lights -> SUBSET (BOOLEAN \cup {Nothing})]
  /\ cut \subseteq Lights
  /\ turns \in 0 .. MaxTurns /\ odds \in 0 .. MaxOdds

\* Once a light has no command and no read under way, an on-state it shows is one
\* its lamp answered, or one a group Set carried to it, or one of a command that was
\* cancelled: a Set that was met with silence leaves no state behind (_settle_onoff,
\* the end of async_turn_on, _roll_back).
UnansweredIsNoState == \A l \in Lights : Quiet(l) => cache[l].on \in said[l]

\* And what it shows is what its lamp does, for every attribute that was answered
\* or read since anything else touched the lamp: a brightness is compared while the
\* lamp is lit, a temperature as the limits the light exposes now mirror it.
ShownIsTrue ==
  \A l \in Lights : Quiet(l) =>
    /\ "on" \notin spoiled[l] => cache[l].on = lamp[l].on
    /\ "bri" \notin spoiled[l] /\ lamp[l].on => cache[l].bri = lamp[l].level
    /\ "temp" \notin spoiled[l] => cache[l].temp = Kelvin(l, lamp[l].temp)

\* Home Assistant was told of what a quiet light shows, and the group over it has
\* rendered it, also for a light the user disabled (_write_state).  A command that was
\* cancelled between two of its calls leaves what the first settled unwritten.
NothingUnwritten ==
  \A l \in Lights \ cut : Quiet(l) =>
    /\ l \in Added => written[l] = cache[l]
    /\ l \in Grouped => seen[l] = cache[l]

\* What a command asked of the lamp l.  A temperature alone does not light a lamp
\* that was wrongly shown as on.
Obeyed(q, l, x) ==
  /\ "on" \notin spoiled[l] \/ q.call # "temp" \/ q.bri # Nothing => x.on = q.on
  /\ q.bri # Nothing /\ Dims(l) => x.level = q.bri
  /\ q.temp # Nothing => x.temp = Sent(l, q.temp)

\* The command c ends of itself, alone to the end, with an answer to each of its calls;
\* a node may answer an OnOff that it did not obey.
Finished(c) ==
  LET q == cmd[c] IN
  /\ q # Idle /\ cmd'[c] = Idle /\ (Answer(c) \/ AnswerGroup(c))
  /\ reply # Nothing /\ q.answered /\ q.alone
  /\ q.light # Group /\ q.call = "onoff" => reply = q.on

\* A command of which every call was answered has done what it says, to each of its
\* lamps: a temperature for a lamp that is off lights it too, and the OnOff that a
\* mixed group needs does not undo its brightness.
DoneMeansDone ==
  [][\A c \in Commands : Finished(c) => \A l \in Touched(cmd[c]) : Obeyed(cmd[c], l, lamp[l])]_lightVars

\* The lock as the others see it: a call that holds it without a link uses nothing.
OneLink == INSTANCE Session WITH
  held <- linked, calling <- linked /\ holder # Nothing, stopped <- FALSE, Restarts <- FALSE

CallsImplementSession == OneLink!SessionSpec

\* "the cached is_on / brightness / color_temp_kelvin settle on what the node
\* *answered* in its Status" (light.py, MeshLight): when a command ends with an
\* answer to each of its calls, the light shows the lamp it lit as lit.
SettlesOnAnswer ==
  [][\A c \in Commands :
       cmd[c] # Idle /\ cmd'[c] = Idle /\ Answer(c) /\ cmd[c].call = "lightness"
         /\ reply # Nothing => cache'[cmd[c].light].on = TRUE]_lightVars
=============================================================================
