------------------------------ MODULE Recovery ------------------------------
(***************************************************************************)
(* How the coordinator finds its way back to the mesh: the periodic probe, *)
(* the push discovery, the watchdog of a permanent link, the wait that     *)
(* GATT failures impose on all of them, the availability that the lights   *)
(* read, and the repair that is on screen.                                 *)
(*                                                                         *)
(* What a link is made of is in ProxyLinks; here it is one value.  Time is *)
(* counted in retry intervals, PROBE_INTERVAL_UNAVAILABLE.                 *)
(***************************************************************************)
EXTENDS Integers

CONSTANTS
  Proxies,      \* the Bluetooth proxies a refusal can be pinned on
  KeepAlives,   \* the values of "keep-alive is 0" to consider
  Threshold,    \* UNREACHABLE_THRESHOLD
  StuckAt,      \* STUCK_PROXY_FAILURES
  ProbeSlow,    \* PROBE_INTERVAL_AVAILABLE
  Cap,          \* CONNECT_BACKOFF_CAP
  None

Base == 1       \* CONNECT_BACKOFF_BASE is one retry interval

ASSUME RecoveryAssumption ==
  /\ KeepAlives \subseteq BOOLEAN
  /\ Threshold \in Nat \ {0} /\ StuckAt \in Nat \ {0}
  /\ ProbeSlow \in Nat \ {0} /\ Cap \in Nat \ {0}
  /\ None \notin Proxies \cup {"unreachable", "stuck"} /\ None \notin Nat

VARIABLES
  forever,    \* keep-alive 0
  available,  \* _available
  fails,      \* _fail_count, up to Threshold: beyond it nothing changes
  backoff,    \* _backoff
  wait,       \* what is left until _next_attempt
  timer,      \* what is left on the probe timer, None without one
  queue,      \* the tasks of the coordinator that wait for the lock
  op,         \* who holds the lock: "free", "call" (a command on its link),
              \* or whose connect is in flight
  link,       \* "none"; "up"; "dropped", "dead" (the pump): held, but useless
  refusals,   \* _refusals, up to StuckAt
  path,       \* _refused_path
  scanner,    \* that proxy's scanner now: "same", "gone", "new"
  issue,      \* _issue_kind
  stopping,   \* "no", "asked" (async_stop runs), "gone"
  answers,    \* a node advertises and accepts
  outcomes    \* history: who refused the last StuckAt attempts, None if nobody

vars == <<forever, available, fails, backoff, wait, timer, queue, op, link,
          refusals, path, scanner, issue, stopping, answers, outcomes>>

verdict == <<available, fails, issue>>
pace == <<backoff, wait>>
blame == <<refusals, path, scanner, outcomes>>
still == <<forever, stopping, answers>>

Stopped == stopping # "no"
Least(a, b) == IF a < b THEN a ELSE b
Most(a, b) == IF a < b THEN b ELSE a

----------------------------------------------------------------------------
(***************************************************************************)
(* What an attempt leaves behind.                                          *)
(***************************************************************************)

\* _set_available: every new link clears the slate.
SetAvailableKeepingWait ==   \* Slip: the wait stays.
  /\ available' = TRUE /\ fails' = 0 /\ issue' = None
  /\ refusals' = 0 /\ path' = None /\ scanner' = "same"
  /\ UNCHANGED pace

SetAvailable ==
  /\ available' = TRUE /\ fails' = 0 /\ issue' = None
  /\ refusals' = 0 /\ path' = None /\ scanner' = "same"
  /\ backoff' = 0 /\ wait' = 0

Repair == IF refusals' = StuckAt THEN "stuck" ELSE "unreachable"

\* Slip: the repair only goes up when the flag flips.
SetUnavailableOnFlip ==
  /\ fails' = Least(fails + 1, Threshold)
  /\ available' = IF fails' = Threshold THEN FALSE ELSE available
  /\ issue' = IF available /\ fails' = Threshold THEN Repair ELSE issue

\* _set_unavailable, _raise_proxy_issue.
SetUnavailable ==
  /\ fails' = Least(fails + 1, Threshold)
  /\ available' = IF fails' = Threshold THEN FALSE ELSE available
  /\ issue' = IF fails' = Threshold THEN Repair ELSE issue

ForgetRefusals == refusals' = 0 /\ path' = None /\ scanner' = "same"

\* Slip: a refusal through another proxy goes on with the count.
NoteRefusalOfAnyone(p) ==
  IF p = None THEN ForgetRefusals
  ELSE refusals' = Least(refusals + 1, StuckAt) /\ path' = p /\ scanner' = "same"

\* _note_refusal.  p is None when the failure was slow, or the path full or
\* not the only one.
NoteRefusal(p) ==
  IF p = None THEN ForgetRefusals
  ELSE /\ refusals' = IF path \in {None, p} THEN Least(refusals + 1, StuckAt) ELSE 1
       /\ path' = p /\ scanner' = "same"

\* The history moves on by one attempt.
Remember(p) ==
  outcomes' = [i \in 1 .. StuckAt |-> IF i < StuckAt THEN outcomes[i + 1] ELSE p]

\* _back_off.
BackOff ==
  /\ backoff' = IF backoff = 0 THEN Base ELSE Least(2 * backoff, Cap)
  /\ wait' = backoff'

----------------------------------------------------------------------------
(***************************************************************************)
(* The probe timer.                                                        *)
(***************************************************************************)

WantsLinkIfUnavailable(l) == FALSE   \* Slip: availability is all that counts.

\* _wants_link with the link l.
WantsLink(l) == ~ Stopped /\ forever /\ l = "none"

Delay == IF ~ available' \/ WantsLink(link') THEN Most(Base, wait') ELSE ProbeSlow

\* _schedule_probe, where the callback ends.
Schedule == timer' = IF Stopped THEN None ELSE Delay

\* What the holder of the lock does when it lets go of it.
Release(kind) ==
  /\ op' = "free"
  /\ IF kind = "tick" THEN Schedule ELSE UNCHANGED timer

\* Slip: nothing to do is a reason not to come back.
ProbeTimerOnce ==
  /\ timer = 0
  /\ timer' = None
  /\ queue' = IF (~ available \/ WantsLink(link)) /\ wait = 0
              THEN queue \cup {"tick"} ELSE queue
  /\ UNCHANGED <<verdict, pace, blame, op, link, still>>

\* _probe_callback, up to the lock.
ProbeTimer ==
  /\ timer = 0
  /\ UNCHANGED <<verdict, pace, blame, op, link, still>>
  /\ IF (~ available \/ WantsLink(link)) /\ wait = 0
     THEN queue' = queue \cup {"tick"} /\ timer' = None
     ELSE queue' = queue /\ Schedule

----------------------------------------------------------------------------
(***************************************************************************)
(* Connecting: _ensure_connected, called with the lock just taken.         *)
(***************************************************************************)

\* A watchdog that waits for the lock finds its client replaced and returns.
WithoutReconnect(q) == q \ {"reconnect"}

\* No proxy has been heard: a miss that never reached the radio.
Miss(kind) ==
  /\ ~ answers
  /\ link' = "none"
  /\ ForgetRefusals /\ Remember(None) /\ SetUnavailable
  /\ UNCHANGED pace
  /\ Release(kind)

StartConnect(kind) ==
  /\ link' = "none"
  /\ op' = kind
  /\ UNCHANGED <<verdict, pace, blame, timer>>

EnsureConnected(kind) == Miss(kind) \/ StartConnect(kind)

ConnectFails ==
  /\ op \notin {"free", "call"} /\ ~ answers
  /\ \E p \in Proxies \cup {None} : NoteRefusal(p) /\ Remember(p)
  /\ SetUnavailable /\ BackOff
  /\ UNCHANGED <<queue, link, still>>
  /\ Release(op)

\* A probe of a timed keep-alive hands the slot straight back.  A link can
\* drop before its callback is set: nobody is told.
ConnectSucceeds ==
  /\ op \notin {"free", "call"} /\ answers
  /\ SetAvailable
  /\ Remember(None)
  /\ link' \in IF forever \/ op = "command" THEN {"up", "dropped"} ELSE {"none"}
  /\ IF op = "command" THEN op' = "call" /\ UNCHANGED timer ELSE Release(op)
  /\ UNCHANGED <<queue, still>>

\* The task of a command is cancelled while it connects: no miss is counted.
Cancelled ==
  /\ op = "command" /\ op' = "free"
  /\ UNCHANGED <<verdict, pace, blame, timer, queue, link, still>>

----------------------------------------------------------------------------
(***************************************************************************)
(* Who takes the lock.                                                     *)
(***************************************************************************)

\* _run_connected.
CommandBegin ==
  /\ op = "free" /\ ~ Stopped
  /\ IF link = "up"
     THEN op' = "call" /\ UNCHANGED <<link, timer, verdict, pace, blame, queue>>
     ELSE EnsureConnected("command") /\ queue' = WithoutReconnect(queue)
  /\ UNCHANGED still

\* A call that fails, finds its pump dead or meets a new IV Index drops the link.
CallEnds ==
  /\ op = "call"
  /\ \/ /\ link # "dead"
        /\ UNCHANGED <<link, queue>>
     \/ link' = "none" /\ queue' = WithoutReconnect(queue)
  /\ op' = "free"
  /\ UNCHANGED <<verdict, pace, blame, timer, still>>

\* Slip: the wait is not looked at again under the lock.
ProbeIsIdleUnchecked == Stopped \/ link # "none"

\* _async_probe: nothing left to do once it holds the lock.
ProbeIsIdle == Stopped \/ link # "none" \/ wait > 0

ProbeBegin(kind) ==
  /\ op = "free" /\ kind \in queue
  /\ queue' = queue \ {kind}
  /\ IF ProbeIsIdle
     THEN UNCHANGED <<link, verdict, pace, blame>> /\ Release(kind)
     ELSE EnsureConnected(kind)
  /\ UNCHANGED still

\* _async_reconnect: not held back by the wait.
ReconnectBegin ==
  /\ op = "free" /\ "reconnect" \in queue
  /\ queue' = queue \ {"reconnect"}
  /\ IF Stopped
     THEN UNCHANGED <<op, timer, link, verdict, pace, blame>>
     ELSE EnsureConnected("reconnect")
  /\ UNCHANGED still

\* _idle_callback of a timed keep-alive.
IdleTimeout ==
  /\ op = "free" /\ ~ forever /\ ~ Stopped /\ link # "none"
  /\ link' = "none"
  /\ UNCHANGED <<verdict, pace, blame, timer, queue, op, still>>

\* async_stop, up to the lock.
AskStop ==
  /\ stopping = "no"
  /\ stopping' = "asked" /\ timer' = None
  /\ UNCHANGED <<forever, verdict, pace, blame, queue, op, link, answers>>

StopBegin ==
  /\ op = "free" /\ stopping = "asked"
  /\ stopping' = "gone"
  /\ link' = "none" /\ queue' = WithoutReconnect(queue)
  /\ available' = FALSE /\ issue' = None
  /\ UNCHANGED <<forever, fails, pace, blame, timer, op, answers>>

----------------------------------------------------------------------------
(***************************************************************************)
(* What happens to it.                                                     *)
(***************************************************************************)

Tick ==
  /\ wait > 0 \/ timer \notin {None, 0}
  /\ wait' = Most(wait - 1, 0)
  /\ timer' = IF timer \in {None, 0} THEN timer ELSE timer - 1
  /\ UNCHANGED <<verdict, backoff, blame, queue, op, link, still>>

\* _on_client_disconnected.  No reconnect once Home Assistant closes.
Drop ==
  /\ link \in {"up", "dead"}
  /\ link' = "dropped"
  /\ queue' \in {queue} \cup (IF forever /\ ~ Stopped THEN {queue \cup {"reconnect"}} ELSE {})
  /\ UNCHANGED <<verdict, pace, blame, timer, op, still>>

PumpDies ==
  /\ link = "up" /\ link' = "dead"
  /\ UNCHANGED <<verdict, pace, blame, timer, queue, op, still>>

\* _proxy_restarted.
Restarted == path # None /\ scanner = "new"

\* _on_proxy_seen.
Advert ==
  /\ op = "free" /\ ~ Stopped
  /\ ~ available \/ WantsLink(link)
  /\ IF Restarted
     THEN ForgetRefusals /\ backoff' = 0 /\ wait' = 0
     ELSE UNCHANGED <<refusals, path, scanner, pace>>
  /\ queue' = IF wait' = 0 THEN queue \cup {"probe"} ELSE queue
  /\ UNCHANGED <<verdict, outcomes, timer, op, link, still>>

\* The accused proxy leaves Home Assistant, and registers again.
ScannerChanges ==
  /\ path # None
  /\ scanner' = IF scanner = "gone" THEN "new" ELSE "gone"
  /\ UNCHANGED <<verdict, pace, refusals, path, outcomes, timer, queue, op, link, still>>

WorldChanges ==
  /\ answers' = ~ answers
  /\ UNCHANGED <<forever, stopping, verdict, pace, blame, timer, queue, op, link>>

----------------------------------------------------------------------------
\* async_start: "start" is the initial probe.
Init ==
  /\ forever \in KeepAlives
  /\ available = FALSE /\ fails = 0 /\ issue = None
  /\ backoff = 0 /\ wait = 0 /\ timer = Base
  /\ queue = {"start"} /\ op = "free" /\ link = "none"
  /\ refusals = 0 /\ path = None /\ scanner = "same"
  /\ outcomes = [i \in 1 .. StuckAt |-> None]
  /\ stopping = "no" /\ answers \in BOOLEAN

Connect == ConnectFails \/ ConnectSucceeds

Next ==
  \/ Tick \/ ProbeTimer
  \/ \E kind \in {"start", "probe", "tick"} : ProbeBegin(kind)
  \/ ReconnectBegin \/ CommandBegin
  \/ ConnectFails \/ ConnectSucceeds \/ Cancelled \/ CallEnds
  \/ IdleTimeout \/ AskStop \/ StopBegin
  \/ Drop \/ PumpDies \/ Advert \/ ScannerChanges \/ WorldChanges

\* asyncio.Lock serves its waiters in turn, whoever else comes; a connect and a
\* call end with their timeouts, CONNECT_TIMEOUT and COMMAND_TIMEOUT.  Nothing
\* is asked of adverts, commands or the idle timer.
Fairness ==
  /\ WF_vars(Tick) /\ WF_vars(ProbeTimer)
  /\ WF_vars(Connect) /\ WF_vars(CallEnds)
  /\ SF_vars(ProbeBegin("start")) /\ SF_vars(ProbeBegin("probe")) /\ SF_vars(ProbeBegin("tick"))
  /\ SF_vars(ReconnectBegin) /\ SF_vars(StopBegin)

Spec == Init /\ [][Next]_vars
FairSpec == Spec /\ Fairness

----------------------------------------------------------------------------
(***************************************************************************)
(* Properties.                                                             *)
(***************************************************************************)

TypeOK ==
  /\ forever \in BOOLEAN /\ available \in BOOLEAN /\ answers \in BOOLEAN
  /\ fails \in 0 .. Threshold /\ refusals \in 0 .. StuckAt
  /\ backoff \in 0 .. Cap /\ wait \in 0 .. backoff
  /\ timer \in 0 .. Most(ProbeSlow, Cap) \cup {None}
  /\ queue \subseteq {"start", "probe", "tick", "reconnect"}
  /\ op \in {"free", "call", "command", "start", "probe", "tick", "reconnect"}
  /\ link \in {"none", "up", "dropped", "dead"}
  /\ path \in Proxies \cup {None} /\ scanner \in {"same", "gone", "new"}
  /\ issue \in {"unreachable", "stuck", None}
  /\ stopping \in {"no", "asked", "gone"}
  /\ outcomes \in [1 .. StuckAt -> Proxies \cup {None}]

\* "consecutive GATT failures widen the wait before the next attempt ... and
\* every path honours that wait": whatever was queued when an attempt failed,
\* no automatic one starts inside the wait.  The watchdog of a dropped link is
\* not gated, "because a drop follows a success, which cleared the wait".
NoAttemptInsideWait ==
  [][op = "free" /\ op' \in {"start", "probe", "tick", "reconnect"} => wait = 0]_vars

\* While a link is held nothing of the last outage is left: a failed attempt
\* never happens beside a link, whoever made it.
LinkClearsTheSlate ==
  link # "none" =>
    /\ fails = 0 /\ issue = None
    /\ wait = 0 /\ backoff = 0 /\ refusals = 0
    /\ available

\* A repair is on screen exactly while the misses in a row have reached the
\* threshold, and the lights are never available then.
RepairMatchesOutage ==
  /\ stopping # "gone" => (issue # None <=> fails = Threshold)
  /\ available => fails < Threshold

\* "every attempt failed against the SAME source ... this many times in a
\* row": a proxy is only accused when the last StuckAt attempts, with no miss
\* and no success among them, were all its refusals.
AccusedForAReason ==
  [][issue' = "stuck" /\ issue # "stuck" =>
       path' # None /\ \A i \in 1 .. StuckAt : outcomes'[i] = path']_vars

\* A wait is cut short by a link, or by the accused proxy being back: "None is a
\* proxy that is GONE, not one that came back".
WaitEndsForAReason ==
  [][wait' < wait - 1 => (op # "free" /\ available') \/ scanner = "new"]_vars

\* A stopped coordinator never connects again, has no timer, no repair, and
\* calls nothing available, whatever was waiting for the lock.
StaysStopped ==
  stopping = "gone" =>
    link = "none" /\ op = "free" /\ timer = None /\ issue = None /\ ~ available

\* The chain of probes neither ends nor doubles until the coordinator is stopped: the
\* timer runs exactly while no probe of its own waits or is under way (_schedule_probe
\* at every end of _probe_callback's task), so what goes quiet is looked for again.
ProbeComesBack ==
  ~ Stopped =>
    /\ timer = None <=> "tick" \in queue \/ op = "tick"
    /\ ~ ("tick" \in queue /\ op = "tick")

\* Why: a connect is in flight beside no link, the watchdog waits only for a
\* link that is still held, and the streak is what the history ends with.
LockMatchesLink ==
  /\ op \notin {"free", "call"} => link = "none"
  /\ "reconnect" \in queue => link # "none" /\ forever
  /\ Stopped => timer = None

StreakIsRemembered ==
  /\ refusals > 0 => path # None
  /\ \A i \in 1 .. StuckAt : i > StuckAt - refusals => outcomes[i] = path

\* The inductive invariant behind the safety properties above.
SafeRecovery ==
  /\ TypeOK /\ LockMatchesLink /\ StreakIsRemembered
  /\ LinkClearsTheSlate /\ RepairMatchesOutage /\ StaysStopped

\* The lock as the others see it: an attempt is in flight beside no link, and a call
\* keeps its link until it ends.
Lock == INSTANCE Session WITH
  held <- link # "none", calling <- op = "call", stopped <- stopping = "gone", Restarts <- FALSE

ImplementsSession == Lock!SessionSpec

\* Once a node answers, the lights become available and stay so, with no
\* advert and no command needed.
Recovers == <>[](answers /\ ~ Stopped) => <>[]available

\* "A missing permanent link is its own reason to recover, whatever the
\* availability flag says."
PermanentLinkReturns ==
  <>[](answers /\ ~ Stopped) => [](forever /\ link = "none" => <>(link # "none"))
=============================================================================
