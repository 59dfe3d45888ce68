-------------------------- MODULE IntegrationProofs --------------------------
(***************************************************************************)
(* The safety of what a user of the integration meets: the coordinator     *)
(* that finds its way back to the mesh (Recovery), and the lights that     *)
(* show what the lamps do (LightState).                                    *)
(*                                                                         *)
(* Recovery comes first, for every threshold, cap and set of proxies.  One *)
(* lemma per group of actions shows that SafeRecovery is preserved; what   *)
(* an attempt does to the books is shown once, for the four operators that *)
(* keep them.                                                              *)
(*                                                                         *)
(* LightState follows, for every set of lights, brightnesses, temperatures *)
(* and commands at a time.  The two share no variable.                     *)
(***************************************************************************)
EXTENDS Recovery, LightState, TLAPS

Kinds == {"start", "probe", "tick"}

----------------------------------------------------------------------------
(***************************************************************************)
(* What the operators leave behind.                                        *)
(***************************************************************************)

\* A miss counts up to the threshold, and the repair follows the count (_set_unavailable).
LEMMA MissBooks ==
  ASSUME TypeOK, SetUnavailable
  PROVE  /\ available' \in BOOLEAN /\ fails' \in 0 .. Threshold
         /\ issue' \in {"unreachable", "stuck", None}
         /\ available' => fails' < Threshold
         /\ fails' # Threshold => fails < Threshold /\ issue' = issue
         /\ fails' = Threshold => issue' # None
         /\ issue' = "stuck" /\ issue # "stuck" => refusals' = StuckAt
  <1>1. fails \in 0 .. Threshold /\ Threshold \in Nat \ {0} /\ available \in BOOLEAN
    BY RecoveryAssumption DEF TypeOK
  <1>2. /\ fails' \in 0 .. Threshold
        /\ fails' # Threshold => fails < Threshold
    BY <1>1 DEF SetUnavailable, Least
  <1>3. /\ available' \in BOOLEAN
        /\ available' => fails' # Threshold
    BY <1>1 DEF SetUnavailable
  <1>4. /\ issue' \in {"unreachable", "stuck", None}
        /\ fails' # Threshold => issue' = issue
        /\ fails' = Threshold => issue' # None
        /\ issue' = "stuck" /\ issue # "stuck" => refusals' = StuckAt
    BY RecoveryAssumption DEF TypeOK, SetUnavailable, Repair
  <1>5. fails' # Threshold => fails' < Threshold
    BY <1>1, <1>2
  <1>6. QED
    BY <1>2, <1>3, <1>4, <1>5

\* The wait of a failure is inside the cap (_back_off).
LEMMA BackOffBounds ==
  ASSUME TypeOK, BackOff
  PROVE  backoff' \in 0 .. Cap /\ wait' \in 0 .. backoff'
  BY RecoveryAssumption DEF TypeOK, BackOff, Least, Base

\* The history takes one more attempt.
LEMMA HistoryMoves ==
  ASSUME TypeOK, NEW p \in Proxies \cup {None}, Remember(p)
  PROVE  /\ outcomes' \in [1 .. StuckAt -> Proxies \cup {None}]
         /\ outcomes'[StuckAt] = p
         /\ \A i \in 1 .. StuckAt : i < StuckAt => outcomes'[i] = outcomes[i + 1]
  <1>1. \A i \in 1 .. StuckAt : i < StuckAt => i + 1 \in 1 .. StuckAt
    BY RecoveryAssumption
  <1>2. StuckAt \in 1 .. StuckAt
    BY RecoveryAssumption
  <1>3. QED
    BY <1>1, <1>2 DEF TypeOK, Remember

\* A forgotten streak claims nothing of the history.
LEMMA ForgottenStreak ==
  ASSUME ForgetRefusals
  PROVE  StreakIsRemembered' /\ refusals' = 0 /\ path' = None /\ scanner' = "same"
  BY RecoveryAssumption DEF ForgetRefusals, StreakIsRemembered

\* Where the streak reaches, one attempt later.
LEMMA Trail ==
  ASSUME NEW n \in Nat, NEW a \in Nat, NEW b \in Nat, b <= a + 1,
         NEW i \in Nat, i > n - b, i < n
  PROVE  b > 1 /\ i + 1 > n - a
  OBVIOUS

\* A refusal extends the streak and the history alike.
LEMMA StreakGrows ==
  ASSUME TypeOK, StreakIsRemembered, NEW p \in Proxies \cup {None},
         NoteRefusal(p), Remember(p)
  PROVE  /\ StreakIsRemembered'
         /\ refusals' \in 0 .. StuckAt /\ path' \in Proxies \cup {None} /\ scanner' = "same"
  <1>1. CASE p = None
    <2>1. ForgetRefusals
      BY <1>1 DEF NoteRefusal
    <2>2. QED
      BY <2>1, ForgottenStreak, RecoveryAssumption
  <1>2. CASE p # None
    <2>1. /\ refusals' = (IF path \in {None, p} THEN Least(refusals + 1, StuckAt) ELSE 1)
          /\ path' = p /\ scanner' = "same"
      BY <1>2 DEF NoteRefusal
    <2>0. StuckAt \in Nat \ {0} /\ refusals \in 0 .. StuckAt
      BY RecoveryAssumption DEF TypeOK
    <2>2. refusals' \in 0 .. StuckAt /\ refusals' <= refusals + 1
      BY <2>0, <2>1 DEF Least
    <2>3. path = p \/ refusals' <= 1
      BY <2>0, <2>1 DEF StreakIsRemembered, Least
    <2>4. ASSUME NEW i \in 1 .. StuckAt, i > StuckAt - refusals'
          PROVE  outcomes'[i] = path'
      <3>1. CASE i = StuckAt
        BY <3>1, <2>1, HistoryMoves
      <3>2. CASE i < StuckAt
        <4>1. path = p /\ i + 1 \in 1 .. StuckAt /\ i + 1 > StuckAt - refusals
          <5>0. refusals' \in Nat /\ i \in Nat /\ StuckAt \in Nat /\ refusals \in Nat
            BY <2>2, <2>0
          <5>1. i > StuckAt - refusals'
            BY <2>4, Zenon
          <5>2. refusals' > 1 /\ i + 1 > StuckAt - refusals
            BY <5>0, <5>1, <3>2, <2>2, Trail, Zenon
          <5>3. path = p
            BY <5>2, <2>2, <2>3
          <5>4. i + 1 \in 1 .. StuckAt
            BY <3>2, <2>0
          <5>5. QED
            BY <5>2, <5>3, <5>4
        <4>2. outcomes[i + 1] = p
          BY <4>1 DEF StreakIsRemembered
        <4>3. QED
          BY <4>2, <3>2, <2>1, HistoryMoves
      <3>3. QED
        BY <3>1, <3>2, RecoveryAssumption
    <2>5. QED
      BY <2>1, <2>2, <2>4, <1>2 DEF StreakIsRemembered
  <1>3. QED
    BY <1>1, <1>2

----------------------------------------------------------------------------
(***************************************************************************)
(* Letting go of the lock.                                                 *)
(***************************************************************************)

\* The two shapes of a timer: none, or something left to wait.
TimerType == timer \in 0 .. Most(ProbeSlow, Cap) \cup {None}

\* A new timer is inside the two intervals, and a stopped coordinator has none (_schedule_probe).
LEMMA ScheduleBounds ==
  ASSUME TypeOK, Schedule, wait' \in 0 .. Cap
  PROVE  TimerType' /\ (Stopped => timer' = None)
  <1>1. Delay \in 0 .. Most(ProbeSlow, Cap)
    BY RecoveryAssumption DEF Delay, Most, Base
  <1>2. QED
    BY <1>1 DEF Schedule, TimerType

\* Whoever lets go of the lock leaves a timer of that kind (_probe_callback).
LEMMA ReleaseBounds ==
  ASSUME TypeOK, Stopped => timer = None, wait' \in 0 .. Cap,
         NEW kind, Release(kind)
  PROVE  TimerType' /\ (Stopped => timer' = None) /\ op' = "free"
  <1>1. CASE kind = "tick"
    BY <1>1, ScheduleBounds DEF Release
  <1>2. CASE kind # "tick"
    BY <1>2 DEF Release, TypeOK, TimerType, Most
  <1>3. QED
    BY <1>1, <1>2

----------------------------------------------------------------------------
(***************************************************************************)
(* Taking the lock.                                                        *)
(***************************************************************************)

Takers == {"start", "probe", "tick", "reconnect", "command"}

\* What a taker of the lock leaves: it is stopped by nobody, holds no link, and
\* the watchdog does not wait any more.
Taking(kind) ==
  /\ op = "free" /\ ~ Stopped /\ UNCHANGED still
  /\ queue' \subseteq queue /\ "reconnect" \notin queue'

\* A miss that never reached the radio.
LEMMA MissKeeps ==
  ASSUME SafeRecovery, NEW kind \in Takers, Taking(kind), Miss(kind)
  PROVE  SafeRecovery'
  <1> USE DEF SafeRecovery
  <1>1. ~ Stopped /\ stopping' = stopping /\ forever' = forever /\ answers' = answers
    BY DEF Taking, still
  <1>2. /\ link' = "none"
        /\ ForgetRefusals /\ Remember(None) /\ SetUnavailable
        /\ backoff' = backoff /\ wait' = wait /\ Release(kind)
    BY DEF Miss, pace
  <1>3. wait' \in 0 .. Cap
    BY <1>2, RecoveryAssumption DEF TypeOK
  <1>4. TimerType' /\ op' = "free"
    BY <1>1, <1>2, <1>3, ReleaseBounds
  <1>5. outcomes' \in [1 .. StuckAt -> Proxies \cup {None}]
    BY <1>2, HistoryMoves
  <1>6. /\ available' \in BOOLEAN /\ fails' \in 0 .. Threshold
        /\ issue' \in {"unreachable", "stuck", None}
        /\ available' => fails' < Threshold
    BY <1>2, MissBooks
  <1>7. TypeOK'
    <2>1. queue' \subseteq {"start", "probe", "tick", "reconnect"}
      BY DEF Taking, TypeOK
    <2>2. refusals' \in 0 .. StuckAt /\ path' \in Proxies \cup {None} /\ scanner' = "same"
      BY <1>2, ForgottenStreak, RecoveryAssumption
    <2>3. /\ forever' \in BOOLEAN /\ answers' \in BOOLEAN
          /\ stopping' \in {"no", "asked", "gone"}
          /\ backoff' \in 0 .. Cap /\ wait' \in 0 .. backoff'
      BY <1>1, <1>2 DEF TypeOK
    <2>4. QED
      BY <1>2, <1>4, <1>5, <1>6, <2>1, <2>2, <2>3 DEF TypeOK, TimerType, Most
  <1>8. LockMatchesLink'
    BY <1>1, <1>4 DEF LockMatchesLink, Taking, Stopped
  <1>9. StreakIsRemembered'
    BY <1>2, ForgottenStreak
  <1>10. LinkClearsTheSlate' /\ StaysStopped'
    BY <1>1, <1>2 DEF LinkClearsTheSlate, StaysStopped, Stopped
  <1>11. RepairMatchesOutage'
    <2>1. issue' # None <=> fails' = Threshold
      <3>1. issue # None <=> fails = Threshold
        BY <1>1 DEF RepairMatchesOutage, Stopped
      <3>2. /\ fails' # Threshold => fails < Threshold /\ issue' = issue
            /\ fails' = Threshold => issue' # None
        BY <1>2, MissBooks
      <3>3. Threshold \in Nat /\ fails \in Nat
        BY RecoveryAssumption DEF TypeOK
      <3>4. fails < Threshold => fails # Threshold
        BY <3>3
      <3>5. QED
        BY <3>1, <3>2, <3>4
    <2>2. QED
      BY <2>1, <1>6 DEF RepairMatchesOutage
  <1>12. QED
    BY <1>7, <1>8, <1>9, <1>10, <1>11

\* A connect that goes out leaves the books as they were (_ensure_connected).
LEMMA StartKeeps ==
  ASSUME SafeRecovery, NEW kind \in Takers, Taking(kind), StartConnect(kind)
  PROVE  SafeRecovery'
  <1> USE DEF SafeRecovery
  <1>1. /\ forever' = forever /\ stopping' = stopping /\ answers' = answers
        /\ available' = available /\ fails' = fails /\ issue' = issue
        /\ backoff' = backoff /\ wait' = wait /\ timer' = timer
        /\ refusals' = refusals /\ path' = path /\ scanner' = scanner /\ outcomes' = outcomes
        /\ link' = "none" /\ op' = kind /\ ~ Stopped
    BY DEF Taking, StartConnect, still, verdict, pace, blame
  <1>2. TypeOK'
    BY <1>1 DEF TypeOK, Taking, Takers, Most
  <1>3. LockMatchesLink' /\ LinkClearsTheSlate' /\ StaysStopped'
    BY <1>1 DEF LockMatchesLink, LinkClearsTheSlate, StaysStopped, Taking, Stopped
  <1>4. StreakIsRemembered' /\ RepairMatchesOutage'
    BY <1>1 DEF StreakIsRemembered, RepairMatchesOutage
  <1>5. QED
    BY <1>2, <1>3, <1>4

\* Either way in, _ensure_connected keeps the invariant.
LEMMA EnsureKeeps ==
  ASSUME SafeRecovery, NEW kind \in Takers, Taking(kind), EnsureConnected(kind)
  PROVE  SafeRecovery'
  BY MissKeeps, StartKeeps DEF EnsureConnected

----------------------------------------------------------------------------
(***************************************************************************)
(* How a connect ends.                                                     *)
(***************************************************************************)

\* A refused or timed-out connect keeps the books together.
LEMMA ConnectFailsKeeps == SafeRecovery /\ ConnectFails => SafeRecovery'
  <1> SUFFICES ASSUME SafeRecovery, ConnectFails PROVE SafeRecovery'
    OBVIOUS
  <1> USE DEF SafeRecovery
  <1>1. /\ link' = link /\ queue' = queue
        /\ forever' = forever /\ stopping' = stopping /\ answers' = answers
        /\ op \notin {"free", "call"} /\ SetUnavailable /\ BackOff /\ Release(op)
    BY DEF ConnectFails, still
  <1>2. PICK p \in Proxies \cup {None} : NoteRefusal(p) /\ Remember(p)
    BY DEF ConnectFails
  <1>3. link = "none" /\ stopping # "gone"
    BY <1>1 DEF LockMatchesLink, StaysStopped
  <1>4. backoff' \in 0 .. Cap /\ wait' \in 0 .. backoff' /\ wait' \in 0 .. Cap
    BY <1>1, BackOffBounds, RecoveryAssumption
  <1>5. TimerType' /\ (Stopped => timer' = None) /\ op' = "free"
    BY <1>1, <1>4, ReleaseBounds DEF LockMatchesLink
  <1>6. /\ StreakIsRemembered'
        /\ refusals' \in 0 .. StuckAt /\ path' \in Proxies \cup {None} /\ scanner' = "same"
    BY <1>2, StreakGrows
  <1>7. outcomes' \in [1 .. StuckAt -> Proxies \cup {None}]
    BY <1>2, HistoryMoves
  <1>8. /\ available' \in BOOLEAN /\ fails' \in 0 .. Threshold
        /\ issue' \in {"unreachable", "stuck", None}
        /\ available' => fails' < Threshold
        /\ fails' # Threshold => fails < Threshold /\ issue' = issue
        /\ fails' = Threshold => issue' # None
    BY <1>1, MissBooks
  <1>9. TypeOK'
    BY <1>1, <1>4, <1>5, <1>6, <1>7, <1>8 DEF TypeOK, TimerType, Most
  <1>10. LockMatchesLink' /\ LinkClearsTheSlate' /\ StaysStopped'
    BY <1>1, <1>3, <1>5 DEF LockMatchesLink, LinkClearsTheSlate, StaysStopped, Stopped
  <1>11. RepairMatchesOutage'
    <2>1. issue # None <=> fails = Threshold
      BY <1>3 DEF RepairMatchesOutage
    <2>2. fails < Threshold => fails # Threshold
      BY RecoveryAssumption DEF TypeOK
    <2>3. QED
      BY <1>8, <2>1, <2>2 DEF RepairMatchesOutage
  <1>12. QED
    BY <1>6, <1>9, <1>10, <1>11

\* A new link clears them.
LEMMA ConnectSucceedsKeeps == SafeRecovery /\ ConnectSucceeds => SafeRecovery'
  <1> SUFFICES ASSUME SafeRecovery, ConnectSucceeds PROVE SafeRecovery'
    OBVIOUS
  <1> USE DEF SafeRecovery
  <1>1. /\ queue' = queue /\ op \notin {"free", "call"}
        /\ forever' = forever /\ stopping' = stopping /\ answers' = answers
        /\ SetAvailable /\ Remember(None)
        /\ link' \in {"none", "up", "dropped"}
    BY DEF ConnectSucceeds, still
  <1>2. link = "none" /\ stopping # "gone" /\ "reconnect" \notin queue
    BY <1>1 DEF LockMatchesLink, StaysStopped
  <1>3. /\ available' = TRUE /\ fails' = 0 /\ issue' = None
        /\ backoff' = 0 /\ wait' = 0
        /\ refusals' = 0 /\ path' = None /\ scanner' = "same"
    BY <1>1 DEF SetAvailable
  <1>4. /\ TimerType' /\ (Stopped => timer' = None)
        /\ op' \in {"free", "call"}
    <2>1. CASE op = "command"
      BY <2>1 DEF ConnectSucceeds, LockMatchesLink, TypeOK, TimerType, Most
    <2>2. CASE op # "command"
      <3>1. Release(op) /\ wait' \in 0 .. Cap
        BY <1>3, <2>2, RecoveryAssumption DEF ConnectSucceeds
      <3>2. QED
        BY <3>1, ReleaseBounds DEF LockMatchesLink
    <2>3. QED
      BY <2>1, <2>2
  <1>5. outcomes' \in [1 .. StuckAt -> Proxies \cup {None}]
    BY <1>1, HistoryMoves
  <1>6. TypeOK'
    BY <1>1, <1>3, <1>4, <1>5, RecoveryAssumption DEF TypeOK, TimerType, Most
  <1>7. LockMatchesLink' /\ StaysStopped'
    BY <1>1, <1>2, <1>4 DEF LockMatchesLink, StaysStopped, Stopped
  <1>8. LinkClearsTheSlate'
    BY <1>3 DEF LinkClearsTheSlate
  <1>9. StreakIsRemembered'
    BY <1>3, RecoveryAssumption DEF StreakIsRemembered
  <1>10. RepairMatchesOutage'
    BY <1>3, RecoveryAssumption DEF RepairMatchesOutage
  <1>11. QED
    BY <1>6, <1>7, <1>8, <1>9, <1>10

----------------------------------------------------------------------------
(***************************************************************************)
(* The steps that leave the books alone.                                   *)
(***************************************************************************)

Books == <<verdict, blame, backoff>>

\* With the books and the wait as they were, or shorter, the timer of a stopped
\* coordinator gone and the lock free, only the link and the queue are left to
\* look at.
LEMMA QuietKeeps ==
  ASSUME SafeRecovery, UNCHANGED Books, UNCHANGED still,
         wait' \in 0 .. wait, TimerType', Stopped => timer' = None,
         queue' \subseteq {"start", "probe", "tick", "reconnect"},
         op' \in {"free", "call", "command", "start", "probe", "tick", "reconnect"},
         op' \notin {"free", "call"} => link' = "none",
         link' \in {"none", "up", "dropped", "dead"},
         "reconnect" \in queue' => link' # "none" /\ forever,
         link' # "none" => link # "none",
         stopping = "gone" => op' = "free" /\ link' = "none"
  PROVE  SafeRecovery'
  <1> USE DEF SafeRecovery
  <1>1. /\ forever' = forever /\ stopping' = stopping /\ answers' = answers
        /\ available' = available /\ fails' = fails /\ issue' = issue /\ backoff' = backoff
        /\ refusals' = refusals /\ path' = path /\ scanner' = scanner /\ outcomes' = outcomes
    BY DEF Books, still, verdict, blame
  <1>2. wait' \in 0 .. backoff' /\ (wait = 0 => wait' = 0)
    BY <1>1 DEF TypeOK
  <1>3. TypeOK'
    BY <1>1, <1>2 DEF TypeOK, TimerType, Most
  <1>4. LockMatchesLink' /\ StaysStopped'
    BY <1>1 DEF LockMatchesLink, StaysStopped, Stopped
  <1>5. LinkClearsTheSlate'
    BY <1>1, <1>2 DEF LinkClearsTheSlate
  <1>6. StreakIsRemembered' /\ RepairMatchesOutage'
    BY <1>1 DEF StreakIsRemembered, RepairMatchesOutage
  <1>7. QED
    BY <1>3, <1>4, <1>5, <1>6

\* Time only shortens the wait and the timer.
LEMMA TickKeeps == SafeRecovery /\ Tick => SafeRecovery'
  <1> SUFFICES ASSUME SafeRecovery, Tick PROVE SafeRecovery'
    OBVIOUS
  <1>1. /\ UNCHANGED Books /\ UNCHANGED still /\ UNCHANGED <<queue, op, link>>
        /\ wait' = Most(wait - 1, 0)
        /\ timer' = IF timer \in {None, 0} THEN timer ELSE timer - 1
    BY DEF Tick, Books
  <1>2. wait' \in 0 .. wait
    <2>1. wait \in Nat
      BY RecoveryAssumption DEF SafeRecovery, TypeOK
    <2>2. QED
      BY <1>1, <2>1 DEF Most
  <1>3. TimerType'
    <2>1. Most(ProbeSlow, Cap) \in Nat /\ timer \in 0 .. Most(ProbeSlow, Cap) \cup {None}
      BY RecoveryAssumption DEF SafeRecovery, TypeOK, Most
    <2>2. CASE timer \in {None, 0}
      BY <1>1, <2>1, <2>2 DEF TimerType, Most
    <2>3. CASE timer \notin {None, 0}
      BY <1>1, <2>1, <2>3 DEF TimerType, Most
    <2>4. QED
      BY <2>2, <2>3
  <1>4. Stopped => timer' = None
    BY <1>1 DEF SafeRecovery, LockMatchesLink
  <1>5. QED
    BY <1>1, <1>2, <1>3, <1>4, QuietKeeps
       DEF SafeRecovery, TypeOK, LockMatchesLink, StaysStopped

\* The wait does not move.
LEMMA PaceHolds ==
  ASSUME SafeRecovery, wait' = wait
  PROVE  wait' \in 0 .. wait /\ wait' \in 0 .. Cap
  BY RecoveryAssumption DEF SafeRecovery, TypeOK

\* Nor does the timer.
LEMMA TimerHolds ==
  ASSUME SafeRecovery, timer' = timer
  PROVE  TimerType' /\ (Stopped => timer' = None)
  BY DEF SafeRecovery, TypeOK, LockMatchesLink, TimerType, Most

\* The probe timer queues a tick or sets itself again (_probe_callback).
LEMMA ProbeTimerKeeps == SafeRecovery /\ ProbeTimer => SafeRecovery'
  <1> SUFFICES ASSUME SafeRecovery, ProbeTimer PROVE SafeRecovery'
    OBVIOUS
  <1>1. UNCHANGED Books /\ UNCHANGED still /\ UNCHANGED <<op, link>> /\ wait' = wait
    BY DEF ProbeTimer, Books, pace
  <1>2. queue' \subseteq queue \cup {"tick"}
    BY DEF ProbeTimer
  <1>3. TimerType' /\ (Stopped => timer' = None)
    <2>1. CASE timer' = None
      BY <2>1 DEF TimerType
    <2>2. CASE Schedule
      BY <1>1, <2>2, PaceHolds, ScheduleBounds DEF SafeRecovery
    <2>3. QED
      BY <2>1, <2>2 DEF ProbeTimer
  <1>4. QED
    BY <1>1, <1>2, <1>3, PaceHolds, QuietKeeps
       DEF SafeRecovery, TypeOK, LockMatchesLink, StaysStopped

\* A probe that gets the lock lets go of it, or connects (_async_probe).
LEMMA ProbeBeginKeeps ==
  ASSUME SafeRecovery, NEW kind \in Kinds, ProbeBegin(kind)
  PROVE  SafeRecovery'
  <1>1. op = "free" /\ queue' = queue \ {kind} /\ UNCHANGED still
    BY DEF ProbeBegin
  <1>2. CASE ProbeIsIdle
    <2>1. UNCHANGED Books /\ wait' = wait /\ link' = link /\ Release(kind)
      BY <1>2 DEF ProbeBegin, Books, pace
    <2>2. TimerType' /\ (Stopped => timer' = None) /\ op' = "free"
      BY <2>1, PaceHolds, ReleaseBounds DEF SafeRecovery, LockMatchesLink
    <2>3. QED
      BY <1>1, <2>1, <2>2, PaceHolds, QuietKeeps
         DEF SafeRecovery, TypeOK, LockMatchesLink, StaysStopped
  <1>3. CASE ~ ProbeIsIdle
    <2>1. EnsureConnected(kind) /\ kind \in Takers
      BY <1>3 DEF ProbeBegin, Kinds, Takers
    <2>2. Taking(kind)
      BY <1>1, <1>3 DEF Taking, ProbeIsIdle, SafeRecovery, LockMatchesLink
    <2>3. QED
      BY <2>1, <2>2, EnsureKeeps
  <1>4. QED
    BY <1>2, <1>3

\* The watchdog that gets the lock returns, or connects (_async_reconnect).
LEMMA ReconnectBeginKeeps == SafeRecovery /\ ReconnectBegin => SafeRecovery'
  <1> SUFFICES ASSUME SafeRecovery, ReconnectBegin PROVE SafeRecovery'
    OBVIOUS
  <1>1. op = "free" /\ queue' = queue \ {"reconnect"} /\ UNCHANGED still
    BY DEF ReconnectBegin
  <1>2. CASE Stopped
    <2>1. UNCHANGED Books /\ wait' = wait /\ UNCHANGED <<op, timer, link>>
      BY <1>2 DEF ReconnectBegin, Books, pace
    <2>2. QED
      BY <1>1, <2>1, PaceHolds, TimerHolds, QuietKeeps
         DEF SafeRecovery, TypeOK, LockMatchesLink, StaysStopped
  <1>3. CASE ~ Stopped
    BY <1>1, <1>3, EnsureKeeps DEF ReconnectBegin, Taking, Takers
  <1>4. QED
    BY <1>2, <1>3

\* A command that gets the lock calls on its link, or connects (_run_connected).
LEMMA CommandBeginKeeps == SafeRecovery /\ CommandBegin => SafeRecovery'
  <1> SUFFICES ASSUME SafeRecovery, CommandBegin PROVE SafeRecovery'
    OBVIOUS
  <1>1. op = "free" /\ ~ Stopped /\ UNCHANGED still
    BY DEF CommandBegin
  <1>2. CASE link = "up"
    <2>1. UNCHANGED Books /\ wait' = wait /\ UNCHANGED <<link, timer, queue>> /\ op' = "call"
      BY <1>2 DEF CommandBegin, Books, pace
    <2>2. QED
      BY <1>1, <2>1, PaceHolds, TimerHolds, QuietKeeps
         DEF SafeRecovery, TypeOK, LockMatchesLink, Stopped
  <1>3. CASE link # "up"
    BY <1>1, <1>3, EnsureKeeps DEF CommandBegin, Taking, Takers, WithoutReconnect
  <1>4. QED
    BY <1>2, <1>3

\* A holder of the lock, a timeout or the radio changes what the link is worth.
LEMMA LinkStepKeeps ==
  SafeRecovery /\ (Cancelled \/ CallEnds \/ IdleTimeout \/ Drop \/ PumpDies) => SafeRecovery'
  <1> SUFFICES ASSUME SafeRecovery,
                      Cancelled \/ CallEnds \/ IdleTimeout \/ Drop \/ PumpDies
               PROVE  SafeRecovery'
    OBVIOUS
  <1>1. UNCHANGED Books /\ UNCHANGED still /\ wait' = wait /\ timer' = timer
    BY DEF Cancelled, CallEnds, IdleTimeout, Drop, PumpDies, Books, pace
  <1>2. wait' \in 0 .. wait /\ TimerType' /\ (Stopped => timer' = None)
    BY <1>1, PaceHolds, TimerHolds
  <1> USE DEF SafeRecovery
  <1>3. CASE Cancelled
    BY <1>1, <1>2, <1>3, QuietKeeps DEF Cancelled, TypeOK, LockMatchesLink, StaysStopped
  <1>4. CASE CallEnds
    BY <1>1, <1>2, <1>4, QuietKeeps
       DEF CallEnds, WithoutReconnect, TypeOK, LockMatchesLink, StaysStopped
  <1>5. CASE IdleTimeout
    BY <1>1, <1>2, <1>5, QuietKeeps DEF IdleTimeout, TypeOK, LockMatchesLink, StaysStopped
  <1>6. CASE Drop
    BY <1>1, <1>2, <1>6, QuietKeeps DEF Drop, TypeOK, LockMatchesLink, StaysStopped
  <1>7. CASE PumpDies
    BY <1>1, <1>2, <1>7, QuietKeeps DEF PumpDies, TypeOK, LockMatchesLink, StaysStopped
  <1>8. QED
    BY <1>3, <1>4, <1>5, <1>6, <1>7

----------------------------------------------------------------------------
(***************************************************************************)
(* Stopping, adverts, and the world.                                       *)
(***************************************************************************)

\* async_stop, before and after it has the lock.
LEMMA StopKeeps == SafeRecovery /\ (AskStop \/ StopBegin) => SafeRecovery'
  <1> SUFFICES ASSUME SafeRecovery, AskStop \/ StopBegin PROVE SafeRecovery'
    OBVIOUS
  <1> USE DEF SafeRecovery
  <1>1. /\ forever' = forever /\ answers' = answers /\ fails' = fails
        /\ backoff' = backoff /\ wait' = wait
        /\ refusals' = refusals /\ path' = path /\ scanner' = scanner /\ outcomes' = outcomes
        /\ op' = op /\ timer' = None /\ queue' \subseteq queue
    BY DEF AskStop, StopBegin, verdict, pace, blame, LockMatchesLink, Stopped, WithoutReconnect
  <1>2. /\ link' \in {"none", link} /\ stopping' \in {"asked", "gone"}
        /\ available' \in {FALSE, available} /\ issue' \in {None, issue}
    BY DEF AskStop, StopBegin, verdict
  <1>3. TypeOK'
    <2>1. available' \in BOOLEAN /\ forever' \in BOOLEAN /\ answers' \in BOOLEAN
      BY <1>1, <1>2, Zenon DEF TypeOK
    <2>2. issue' \in {"unreachable", "stuck", None}
      BY <1>2 DEF TypeOK
    <2>3. QED
      BY <1>1, <1>2, <2>1, <2>2 DEF TypeOK, Most
  <1>4. LockMatchesLink'
    BY <1>1, <1>2 DEF LockMatchesLink, AskStop, StopBegin, WithoutReconnect, Stopped
  <1>5. StreakIsRemembered'
    BY <1>1 DEF StreakIsRemembered
  <1>6. LinkClearsTheSlate' /\ RepairMatchesOutage' /\ StaysStopped'
    BY <1>1 DEF LinkClearsTheSlate, RepairMatchesOutage, StaysStopped, AskStop, StopBegin, verdict
  <1>7. QED
    BY <1>3, <1>4, <1>5, <1>6

\* An advert forgets at most the wait and the streak (_on_proxy_seen).
LEMMA AdvertKeeps == SafeRecovery /\ Advert => SafeRecovery'
  <1> SUFFICES ASSUME SafeRecovery, Advert PROVE SafeRecovery'
    OBVIOUS
  <1>1. /\ ~ Stopped /\ op = "free" /\ op' = op /\ link' = link /\ timer' = timer
        /\ UNCHANGED <<verdict, outcomes, still>> /\ queue' \subseteq queue \cup {"probe"}
    BY DEF Advert
  <1>2. CASE Restarted
    <2>1. ForgetRefusals /\ backoff' = 0 /\ wait' = 0
      BY <1>2 DEF Advert
    <2>2. /\ available' = available /\ fails' = fails /\ issue' = issue /\ outcomes' = outcomes
          /\ forever' = forever /\ stopping' = stopping /\ answers' = answers
      BY <1>1 DEF verdict, still
    <2>3. refusals' = 0 /\ path' = None /\ scanner' = "same"
      BY <2>1 DEF ForgetRefusals
    <2>4. TypeOK'
      BY <1>1, <2>1, <2>2, <2>3, RecoveryAssumption DEF SafeRecovery, TypeOK, Most
    <2>5. LockMatchesLink' /\ LinkClearsTheSlate' /\ RepairMatchesOutage' /\ StaysStopped'
      BY <1>1, <2>1, <2>2, <2>3
         DEF SafeRecovery, LockMatchesLink, LinkClearsTheSlate, RepairMatchesOutage,
             StaysStopped, Stopped
    <2>6. StreakIsRemembered'
      BY <2>1, ForgottenStreak
    <2>7. QED
      BY <2>4, <2>5, <2>6 DEF SafeRecovery
  <1>3. CASE ~ Restarted
    <2>1. UNCHANGED Books /\ UNCHANGED still /\ wait' = wait
      BY <1>1, <1>3 DEF Advert, Books, pace, blame
    <2>2. QED
      BY <1>1, <2>1, PaceHolds, TimerHolds, QuietKeeps
         DEF SafeRecovery, TypeOK, LockMatchesLink, Stopped
  <1>4. QED
    BY <1>2, <1>3

\* What the proxies and the nodes do is no business of the books.
LEMMA WorldKeeps == SafeRecovery /\ (ScannerChanges \/ WorldChanges) => SafeRecovery'
  <1> SUFFICES ASSUME SafeRecovery, ScannerChanges \/ WorldChanges PROVE SafeRecovery'
    OBVIOUS
  <1> USE DEF SafeRecovery
  <1>1. /\ forever' = forever /\ stopping' = stopping
        /\ available' = available /\ fails' = fails /\ issue' = issue
        /\ backoff' = backoff /\ wait' = wait /\ timer' = timer
        /\ queue' = queue /\ op' = op /\ link' = link
        /\ refusals' = refusals /\ path' = path /\ outcomes' = outcomes
    BY DEF ScannerChanges, WorldChanges, still, verdict, pace, blame
  <1>2. answers' \in BOOLEAN /\ scanner' \in {"same", "gone", "new"}
    BY DEF ScannerChanges, WorldChanges, still, blame, TypeOK
  <1>3. TypeOK'
    BY <1>1, <1>2 DEF TypeOK, Most
  <1>4. LockMatchesLink' /\ LinkClearsTheSlate' /\ StaysStopped'
    BY <1>1 DEF LockMatchesLink, LinkClearsTheSlate, StaysStopped, Stopped
  <1>5. StreakIsRemembered' /\ RepairMatchesOutage'
    BY <1>1 DEF StreakIsRemembered, RepairMatchesOutage
  <1>6. QED
    BY <1>3, <1>4, <1>5

----------------------------------------------------------------------------
(***************************************************************************)
(* The invariant and what follows from it.                                 *)
(***************************************************************************)

\* What async_start begins with.
LEMMA SafeInit == Init => SafeRecovery
  <1> SUFFICES ASSUME Init PROVE SafeRecovery
    OBVIOUS
  <1>1. TypeOK
    <2>1. forever \in BOOLEAN /\ available \in BOOLEAN /\ answers \in BOOLEAN
      BY RecoveryAssumption DEF Init
    <2>2. timer \in 0 .. Most(ProbeSlow, Cap)
      BY RecoveryAssumption DEF Init, Base, Most
    <2>3. outcomes \in [1 .. StuckAt -> Proxies \cup {None}]
      BY DEF Init
    <2>4. QED
      BY <2>1, <2>2, <2>3, RecoveryAssumption DEF Init, TypeOK
  <1>2. LockMatchesLink /\ LinkClearsTheSlate /\ StaysStopped
    BY DEF Init, LockMatchesLink, LinkClearsTheSlate, StaysStopped, Stopped
  <1>3. StreakIsRemembered /\ RepairMatchesOutage
    BY RecoveryAssumption DEF Init, StreakIsRemembered, RepairMatchesOutage
  <1>4. QED
    BY <1>1, <1>2, <1>3 DEF SafeRecovery

\* A step that changes nothing.
LEMMA StutterKeeps == SafeRecovery /\ UNCHANGED vars => SafeRecovery'
  BY DEF vars, SafeRecovery, TypeOK, LockMatchesLink, StreakIsRemembered,
         LinkClearsTheSlate, RepairMatchesOutage, StaysStopped, Stopped, Most

\* Every step of the coordinator keeps the invariant.
LEMMA SafeStep == SafeRecovery /\ [Next]_vars => SafeRecovery'
  <1> SUFFICES ASSUME SafeRecovery, [Next]_vars PROVE SafeRecovery'
    OBVIOUS
  <1>1. CASE Tick
    BY <1>1, TickKeeps
  <1>2. CASE ProbeTimer
    BY <1>2, ProbeTimerKeeps
  <1>3. ASSUME NEW kind \in Kinds, ProbeBegin(kind) PROVE SafeRecovery'
    BY <1>3, ProbeBeginKeeps
  <1>4. CASE ReconnectBegin
    BY <1>4, ReconnectBeginKeeps
  <1>5. CASE CommandBegin
    BY <1>5, CommandBeginKeeps
  <1>6. CASE ConnectFails
    BY <1>6, ConnectFailsKeeps
  <1>7. CASE ConnectSucceeds
    BY <1>7, ConnectSucceedsKeeps
  <1>8. CASE Cancelled \/ CallEnds \/ IdleTimeout \/ Drop \/ PumpDies
    BY <1>8, LinkStepKeeps
  <1>9. CASE AskStop \/ StopBegin
    BY <1>9, StopKeeps
  <1>10. CASE Advert
    BY <1>10, AdvertKeeps
  <1>11. CASE ScannerChanges \/ WorldChanges
    BY <1>11, WorldKeeps
  <1>12. CASE UNCHANGED vars
    BY <1>12, StutterKeeps
  <1>13. QED
    BY <1>1, <1>2, <1>3, <1>4, <1>5, <1>6, <1>7, <1>8, <1>9, <1>10, <1>11, <1>12
       DEF Next, Kinds

\* What the coordinator knows fits together at every step: the books of an
\* attempt (_set_available, _set_unavailable, _note_refusal, _back_off), the
\* lock, the link and the timer.
THEOREM SafeRecoveryAlways == Spec => []SafeRecovery
  BY SafeInit, SafeStep, PTL DEF Spec

\* Every variable keeps its range: the wait inside the cap, the streak inside
\* STUCK_PROXY_FAILURES.
THEOREM RecoveryTypes == Spec => []TypeOK
  <1>1. SafeRecovery => TypeOK
    BY DEF SafeRecovery
  <1>2. QED
    BY <1>1, SafeRecoveryAlways, PTL

\* While a link is held nothing of the last outage is left.
THEOREM LinkAlwaysClearsTheSlate == Spec => []LinkClearsTheSlate
  <1>1. SafeRecovery => LinkClearsTheSlate
    BY DEF SafeRecovery
  <1>2. QED
    BY <1>1, SafeRecoveryAlways, PTL

\* The repair is on screen exactly while the misses in a row have reached
\* UNREACHABLE_THRESHOLD.
THEOREM RepairAlwaysMatchesOutage == Spec => []RepairMatchesOutage
  <1>1. SafeRecovery => RepairMatchesOutage
    BY DEF SafeRecovery
  <1>2. QED
    BY <1>1, SafeRecoveryAlways, PTL

\* After async_stop nothing connects, nothing is timed, nothing is available.
THEOREM StoppedForGood == Spec => []StaysStopped
  <1>1. SafeRecovery => StaysStopped
    BY DEF SafeRecovery
  <1>2. QED
    BY <1>1, SafeRecoveryAlways, PTL

----------------------------------------------------------------------------
(***************************************************************************)
(* The three promises about steps.                                         *)
(***************************************************************************)

\* No automatic attempt starts inside the wait, the watchdog of a dropped link
\* included: a link is still held when its turn comes, and a link clears the wait.
THEOREM WaitIsHonoured == Spec => NoAttemptInsideWait
  <1>1. ASSUME SafeRecovery, [Next]_vars, op = "free",
               op' \in {"start", "probe", "tick", "reconnect"}
        PROVE  wait = 0
    <2>1. CASE ReconnectBegin
      BY <1>1, <2>1 DEF ReconnectBegin, SafeRecovery, LockMatchesLink, LinkClearsTheSlate
    <2>2. ASSUME NEW kind \in Kinds, ProbeBegin(kind) PROVE wait = 0
      <3>1. wait \in Nat
        BY <1>1, RecoveryAssumption DEF SafeRecovery, TypeOK
      <3>2. ~ (wait > 0)
        BY <1>1, <2>2 DEF ProbeBegin, Release, ProbeIsIdle
      <3>3. QED
        BY <3>1, <3>2
    <2>3. CASE CommandBegin
      BY <1>1, <2>3 DEF CommandBegin, EnsureConnected, Miss, StartConnect, Release
    <2>4. CASE Advert \/ ScannerChanges \/ WorldChanges \/ UNCHANGED vars
      BY <1>1, <2>4 DEF Advert, ScannerChanges, WorldChanges, vars
    <2>5. CASE Tick \/ ProbeTimer \/ AskStop \/ StopBegin
      BY <1>1, <2>5 DEF Tick, ProbeTimer, AskStop, StopBegin
    <2>6. CASE Cancelled \/ CallEnds \/ IdleTimeout \/ Drop \/ PumpDies
      BY <1>1, <2>6 DEF Cancelled, CallEnds, IdleTimeout, Drop, PumpDies
    <2>7. CASE ConnectFails \/ ConnectSucceeds
      BY <1>1, <2>7 DEF ConnectFails, ConnectSucceeds
    <2>8. QED
      BY <1>1, <2>1, <2>2, <2>3, <2>4, <2>5, <2>6, <2>7 DEF Next, Kinds
  <1>2. SafeRecovery /\ [Next]_vars
        => [op = "free" /\ op' \in {"start", "probe", "tick", "reconnect"} => wait = 0]_vars
    BY <1>1
  <1>3. QED
    BY <1>2, SafeRecoveryAlways, PTL DEF Spec, NoAttemptInsideWait

\* A wait is cut short by a link or by the accused proxy being back, and by
\* nothing else: one more failure only makes it longer (_back_off).
THEOREM WaitEndsEarlyForAReason == Spec => WaitEndsForAReason
  <1>1. ASSUME SafeRecovery, [Next]_vars, wait' < wait - 1
        PROVE  (op # "free" /\ available') \/ scanner = "new"
    <2>1. backoff \in 0 .. Cap /\ wait \in 0 .. backoff /\ Cap \in Nat \ {0} /\ wait' # wait
      BY <1>1, RecoveryAssumption DEF SafeRecovery, TypeOK
    <2>2. ASSUME NEW kind, EnsureConnected(kind) PROVE FALSE
      BY <2>1, <2>2 DEF EnsureConnected, Miss, StartConnect, pace
    <2>3. CASE Tick
      BY <1>1, <2>1, <2>3 DEF Tick, Most
    <2>4. CASE ConnectFails
      <3>1. /\ backoff' = IF backoff = 0 THEN 1 ELSE Least(2 * backoff, Cap)
            /\ wait' = backoff'
        BY <2>4 DEF ConnectFails, BackOff, Base
      <3>2. wait' >= wait
        BY <2>1, <3>1 DEF Least
      <3>3. wait' \in Nat
        BY <2>1, <3>1 DEF Least
      <3>4. QED
        BY <1>1, <2>1, <3>2, <3>3
    <2>5. CASE ConnectSucceeds
      BY <2>5 DEF ConnectSucceeds, SetAvailable
    <2>6. CASE Advert
      BY <2>1, <2>6 DEF Advert, Restarted, pace
    <2>7. CASE ReconnectBegin \/ CommandBegin
      BY <2>1, <2>2, <2>7 DEF ReconnectBegin, CommandBegin, pace
    <2>8. ASSUME NEW kind \in Kinds, ProbeBegin(kind) PROVE FALSE
      BY <2>1, <2>2, <2>8 DEF ProbeBegin, pace
    <2>9. CASE ProbeTimer \/ Cancelled \/ CallEnds \/ IdleTimeout \/ AskStop \/ StopBegin
      BY <2>1, <2>9 DEF ProbeTimer, Cancelled, CallEnds, IdleTimeout, AskStop, StopBegin, pace
    <2>10. CASE Drop \/ PumpDies \/ ScannerChanges \/ WorldChanges \/ UNCHANGED vars
      BY <2>1, <2>10 DEF Drop, PumpDies, ScannerChanges, WorldChanges, pace, vars
    <2>11. QED
      BY <1>1, <2>3, <2>4, <2>5, <2>6, <2>7, <2>8, <2>9, <2>10 DEF Next, Kinds
  <1>2. SafeRecovery /\ [Next]_vars
        => [wait' < wait - 1 => (op # "free" /\ available') \/ scanner = "new"]_vars
    BY <1>1
  <1>3. QED
    BY <1>2, SafeRecoveryAlways, PTL DEF Spec, WaitEndsForAReason

\* Only an attempt that failed puts a repair up.
LEMMA WhoAccuses == [Next]_vars => SetUnavailable \/ issue' \in {None, issue}
  <1> SUFFICES ASSUME [Next]_vars, ~ SetUnavailable PROVE issue' \in {None, issue}
    OBVIOUS
  <1>1. ASSUME NEW kind, EnsureConnected(kind) PROVE issue' \in {None, issue}
    BY <1>1 DEF EnsureConnected, Miss, StartConnect, verdict
  <1>2. CASE ReconnectBegin
    BY <1>1, <1>2 DEF ReconnectBegin, verdict
  <1>3. ASSUME NEW kind \in Kinds, ProbeBegin(kind) PROVE issue' \in {None, issue}
    BY <1>1, <1>3 DEF ProbeBegin, verdict
  <1>4. CASE CommandBegin
    BY <1>1, <1>4 DEF CommandBegin, verdict
  <1>5. CASE ConnectFails \/ ConnectSucceeds
    BY <1>5 DEF ConnectFails, ConnectSucceeds, SetAvailable
  <1>6. CASE AskStop \/ StopBegin
    BY <1>6 DEF AskStop, StopBegin, verdict
  <1>7. CASE Tick \/ ProbeTimer \/ Advert \/ ScannerChanges \/ WorldChanges \/ UNCHANGED vars
    BY <1>7 DEF Tick, ProbeTimer, Advert, ScannerChanges, WorldChanges, vars, verdict
  <1>8. CASE Cancelled \/ CallEnds \/ IdleTimeout \/ Drop \/ PumpDies
    BY <1>8 DEF Cancelled, CallEnds, IdleTimeout, Drop, PumpDies, verdict
  <1>9. QED
    BY <1>2, <1>3, <1>4, <1>5, <1>6, <1>7, <1>8 DEF Next, Kinds

\* A proxy is accused only when it refused each of the last
\* STUCK_PROXY_FAILURES attempts.
THEOREM AccusedIsGuilty == Spec => AccusedForAReason
  <1>1. ASSUME SafeRecovery, SafeRecovery', [Next]_vars,
               issue' = "stuck", issue # "stuck"
        PROVE  path' # None /\ \A i \in 1 .. StuckAt : outcomes'[i] = path'
    <2>1. SetUnavailable
      BY <1>1, WhoAccuses, RecoveryAssumption
    <2>2. refusals' = StuckAt
      BY <1>1, <2>1, MissBooks DEF SafeRecovery
    <2>3. StreakIsRemembered'
      BY <1>1 DEF SafeRecovery
    <2>4. StuckAt > 0 /\ \A i \in 1 .. StuckAt : i > StuckAt - StuckAt
      BY RecoveryAssumption
    <2>5. QED
      BY <2>2, <2>3, <2>4 DEF StreakIsRemembered
  <1>2. SafeRecovery /\ SafeRecovery' /\ [Next]_vars
        => [issue' = "stuck" /\ issue # "stuck" =>
              path' # None /\ \A i \in 1 .. StuckAt : outcomes'[i] = path']_vars
    BY <1>1
  <1>3. QED
    BY <1>2, SafeRecoveryAlways, PTL DEF Spec, AccusedForAReason

----------------------------------------------------------------------------
(***************************************************************************)
(* The chain of probes.                                                    *)
(***************************************************************************)

\* A probe of the timer that ends sets the timer again; another holder of the lock
\* leaves it alone.
LEMMA ReleaseChain ==
  ASSUME ~ Stopped, NEW kind, Release(kind), wait' \in Nat
  PROVE  op' = "free" /\ IF kind = "tick" THEN timer' # None ELSE timer' = timer
  <1>1. CASE kind = "tick"
    <2>1. Delay \in Nat
      BY <1>1, RecoveryAssumption DEF Delay, Most, Base
    <2>2. QED
      BY <1>1, <2>1, RecoveryAssumption DEF Release, Schedule
  <1>2. QED
    BY <1>1 DEF Release

LEMMA EnsureChain ==
  ASSUME SafeRecovery', ~ Stopped, NEW kind, EnsureConnected(kind)
  PROVE  \/ op' = kind /\ timer' = timer
         \/ op' = "free" /\ IF kind = "tick" THEN timer' # None ELSE timer' = timer
  <1>1. wait' \in Nat
    BY RecoveryAssumption DEF SafeRecovery, TypeOK
  <1>2. QED
    BY <1>1, ReleaseChain DEF EnsureConnected, Miss, StartConnect

LEMMA ChainStep ==
  ASSUME SafeRecovery, SafeRecovery', ProbeComesBack, [Next]_vars
  PROVE  ProbeComesBack'
  <1> SUFFICES ASSUME ~ Stopped' PROVE ProbeComesBack'
    BY DEF ProbeComesBack
  <1>1. ~ Stopped
    BY DEF Next, vars, Tick, ProbeTimer, ProbeBegin, ReconnectBegin, CommandBegin, ConnectFails, ConnectSucceeds,
           Cancelled, CallEnds, IdleTimeout, AskStop, StopBegin, Drop, PumpDies, Advert, ScannerChanges,
           WorldChanges, still, Stopped
  <1>2. /\ timer = None <=> "tick" \in queue \/ op = "tick"
        /\ ~ ("tick" \in queue /\ op = "tick")
    BY <1>1 DEF ProbeComesBack
  <1>3. /\ wait' \in Nat /\ (timer \in Nat \/ timer = None) /\ None \notin Nat
        /\ op \in {"free", "call", "command", "start", "probe", "tick", "reconnect"}
    BY RecoveryAssumption DEF SafeRecovery, TypeOK, Most
  <1>4. CASE Tick
    BY <1>2, <1>3, <1>4 DEF Tick, ProbeComesBack
  <1>5. CASE ProbeTimer
    <2>1. Delay \in Nat
      BY <1>3, RecoveryAssumption DEF Delay, Most, Base
    <2>2. QED
      BY <1>1, <1>2, <1>3, <1>5, <2>1 DEF ProbeTimer, Schedule, ProbeComesBack
  <1>6. ASSUME NEW kind \in Kinds, ProbeBegin(kind) PROVE ProbeComesBack'
    <2>1. op = "free" /\ kind \in queue /\ queue' = queue \ {kind}
      BY <1>6 DEF ProbeBegin
    <2>2. \/ op' = kind /\ timer' = timer
          \/ op' = "free" /\ IF kind = "tick" THEN timer' # None ELSE timer' = timer
      BY <1>1, <1>3, <1>6, EnsureChain, ReleaseChain DEF ProbeBegin
    <2>3. QED
      BY <1>2, <2>1, <2>2 DEF ProbeComesBack, Kinds
  <1>7. CASE ReconnectBegin
    <2>1. op = "free" /\ queue' = queue \ {"reconnect"} /\ EnsureConnected("reconnect")
      BY <1>1, <1>7 DEF ReconnectBegin
    <2>2. QED
      BY <1>1, <1>2, <2>1, EnsureChain DEF ProbeComesBack
  <1>8. CASE CommandBegin
    <2>1. op = "free" /\ queue' \in {queue, queue \ {"reconnect"}}
      BY <1>8 DEF CommandBegin, WithoutReconnect
    <2>2. op' \in {"call", "command", "free"} /\ timer' = timer
      BY <1>1, <1>8, EnsureChain DEF CommandBegin
    <2>3. QED
      BY <1>2, <2>1, <2>2 DEF ProbeComesBack
  <1>9. CASE ConnectFails
    <2>1. Release(op) /\ queue' = queue
      BY <1>9 DEF ConnectFails
    <2>2. QED
      BY <1>1, <1>2, <1>3, <2>1, ReleaseChain DEF ProbeComesBack
  <1>10. CASE ConnectSucceeds
    <2>1. queue' = queue /\ ((op = "command" /\ op' = "call" /\ timer' = timer) \/ Release(op))
      BY <1>10 DEF ConnectSucceeds
    <2>2. QED
      BY <1>1, <1>2, <1>3, <2>1, ReleaseChain DEF ProbeComesBack
  <1>11. CASE Cancelled \/ CallEnds \/ IdleTimeout
    BY <1>2, <1>11 DEF Cancelled, CallEnds, IdleTimeout, WithoutReconnect, ProbeComesBack
  <1>12. CASE AskStop \/ StopBegin
    BY <1>12 DEF AskStop, StopBegin, Stopped
  <1>13. CASE Drop \/ PumpDies \/ Advert
    BY <1>2, <1>13 DEF Drop, PumpDies, Advert, ProbeComesBack
  <1>14. CASE ScannerChanges \/ WorldChanges \/ UNCHANGED vars
    BY <1>2, <1>14 DEF ScannerChanges, WorldChanges, vars, ProbeComesBack
  <1>15. QED
    BY <1>4, <1>5, <1>6, <1>7, <1>8, <1>9, <1>10, <1>11, <1>12, <1>13, <1>14 DEF Next, Kinds

\* The safety half of Recovers: until it is stopped, the coordinator has either its timer
\* or the one probe that the timer began, and that one sets the timer again whether it
\* misses, fails, connects or finds nothing to do (_probe_callback, _schedule_probe).
THEOREM ProbeAlwaysComesBack == Spec => []ProbeComesBack
  <1>1. Init => ProbeComesBack
    BY RecoveryAssumption DEF Init, ProbeComesBack, Base
  <1>2. SafeRecovery /\ SafeRecovery' /\ ProbeComesBack /\ [Next]_vars => ProbeComesBack'
    BY ChainStep
  <1>3. QED
    BY <1>1, <1>2, SafeRecoveryAlways, PTL DEF Spec

----------------------------------------------------------------------------
(***************************************************************************)
(* The lock and its one link: Recovery implements Session.                 *)
(***************************************************************************)

CallHasLink == op = "call" => link # "none"

\* How a step moves the link: one that keeps what Session sees, or one of its actions.
LEMMA SessionSees ==
  ASSUME (link' = "none") = (link = "none"), (op' = "call") = (op = "call"), stopping' = stopping
  PROVE  [Lock!SessionNext]_Lock!sessionVars
  BY DEF Lock!sessionVars

\* Taking the lock leaves no link, and is no call yet.
LEMMA EnsureIsAside ==
  ASSUME NEW kind \in Takers, EnsureConnected(kind), op = "free", stopping' = stopping
  PROVE  CallHasLink' /\ [Lock!SessionNext]_Lock!sessionVars
  <1>1. link' = "none" /\ op' # "call"
    BY DEF EnsureConnected, Miss, StartConnect, Release, Takers
  <1>2. CASE link = "none"
    BY <1>1, <1>2, SessionSees DEF CallHasLink
  <1>3. CASE link # "none"
    BY <1>1, <1>3 DEF CallHasLink, Lock!SessionNext, Lock!TearDown
  <1>4. QED
    BY <1>2, <1>3

LEMMA RecoveryStepIsSessions ==
  ASSUME SafeRecovery, CallHasLink, [Next]_vars
  PROVE  CallHasLink' /\ [Lock!SessionNext]_Lock!sessionVars
  <1> USE DEF CallHasLink
  <1>1. CASE Tick \/ ProbeTimer \/ AskStop \/ Advert \/ ScannerChanges \/ WorldChanges \/ UNCHANGED vars
    <2>1. link' = link /\ op' = op
      BY <1>1 DEF Tick, ProbeTimer, AskStop, Advert, ScannerChanges, WorldChanges, vars
    <2>2. CASE stopping' = stopping
      BY <2>1, <2>2, SessionSees
    <2>3. CASE stopping' # stopping
      <3>1. stopping = "no" /\ stopping' = "asked"
        BY <1>1, <2>3 DEF Tick, ProbeTimer, AskStop, Advert, ScannerChanges, WorldChanges, vars, still
      <3>2. QED
        BY <2>1, <3>1 DEF Lock!sessionVars
    <2>4. QED
      BY <2>2, <2>3
  <1>2. CASE Drop \/ PumpDies \/ Cancelled \/ ConnectFails
    <2>1. /\ (link' = "none") = (link = "none") /\ stopping' = stopping
          /\ (op' = "call") = (op = "call")
      BY <1>2 DEF Drop, PumpDies, Cancelled, ConnectFails, Release, still
    <2>2. QED
      BY <2>1, SessionSees
  <1>3. ASSUME NEW kind \in Kinds, ProbeBegin(kind) PROVE CallHasLink' /\ [Lock!SessionNext]_Lock!sessionVars
    <2>1. op = "free" /\ stopping' = stopping
      BY <1>3 DEF ProbeBegin, still
    <2>2. CASE ProbeIsIdle
      <3>1. link' = link /\ op' = "free"
        BY <1>3, <2>2 DEF ProbeBegin, Release
      <3>2. QED
        BY <2>1, <3>1, SessionSees
    <2>3. CASE ~ ProbeIsIdle
      BY <1>3, <2>1, <2>3, EnsureIsAside DEF ProbeBegin, Kinds, Takers
    <2>4. QED
      BY <2>2, <2>3
  <1>4. CASE ReconnectBegin
    <2>1. op = "free" /\ stopping' = stopping
      BY <1>4 DEF ReconnectBegin, still
    <2>2. CASE Stopped
      <3>1. link' = link /\ op' = op
        BY <1>4, <2>2 DEF ReconnectBegin
      <3>2. QED
        BY <2>1, <3>1, SessionSees
    <2>3. CASE ~ Stopped
      BY <1>4, <2>1, <2>3, EnsureIsAside DEF ReconnectBegin, Takers
    <2>4. QED
      BY <2>2, <2>3
  <1>5. CASE CommandBegin
    <2>1. op = "free" /\ stopping' = stopping /\ stopping # "gone"
      BY <1>5 DEF CommandBegin, Stopped, still
    <2>2. CASE link = "up"
      <3>1. link' = link /\ op' = "call"
        BY <1>5, <2>2 DEF CommandBegin
      <3>2. QED
        BY <2>1, <2>2, <3>1 DEF Lock!SessionNext, Lock!Begin
    <2>3. CASE link # "up"
      BY <1>5, <2>1, <2>3, EnsureIsAside DEF CommandBegin, Takers
    <2>4. QED
      BY <2>2, <2>3
  <1>6. CASE ConnectSucceeds
    <2>1. /\ link = "none" /\ op # "call" /\ stopping' = stopping /\ stopping # "gone"
          /\ link' \in {"none", "up", "dropped"}
          /\ op = "command" => link' # "none" /\ op' = "call"
          /\ op # "command" => op' = "free"
      BY <1>6 DEF ConnectSucceeds, Release, still, SafeRecovery, LockMatchesLink, StaysStopped
    <2>2. CASE link' = "none"
      BY <2>1, <2>2, SessionSees
    <2>3. CASE link' # "none"
      BY <2>1, <2>3 DEF Lock!SessionNext, Lock!Up
    <2>4. QED
      BY <2>2, <2>3
  <1>7. CASE CallEnds
    <2>1. op = "call" /\ op' = "free" /\ stopping' = stopping
      BY <1>7 DEF CallEnds, still
    <2>2. QED
      BY <2>1 DEF Lock!SessionNext, Lock!End
  <1>8. CASE IdleTimeout
    <2>1. op = "free" /\ op' = op /\ link # "none" /\ link' = "none" /\ stopping' = stopping
      BY <1>8 DEF IdleTimeout, still
    <2>2. QED
      BY <2>1 DEF Lock!SessionNext, Lock!TearDown
  <1>9. CASE StopBegin
    <2>1. op = "free" /\ op' = op /\ link' = "none" /\ stopping = "asked" /\ stopping' = "gone"
      BY <1>9 DEF StopBegin
    <2>2. QED
      BY <2>1 DEF Lock!SessionNext, Lock!Stop
  <1>10. QED
    BY <1>1, <1>2, <1>3, <1>4, <1>5, <1>6, <1>7, <1>8, <1>9 DEF Next, Kinds

\* Session is what the probes, the watchdog, commands, the idle timer and the stop make
\* of the lock: an attempt is in flight beside no link, and nobody takes the link from
\* under a call (_run_connected, _async_probe, _async_reconnect, _idle_callback, async_stop).
THEOREM RecoveryIsASession == Spec => ImplementsSession
  <1>1. Init => CallHasLink /\ Lock!SessionInit
    BY DEF Init, CallHasLink, Lock!SessionInit
  <1>2. SafeRecovery /\ CallHasLink /\ [Next]_vars => CallHasLink' /\ [Lock!SessionNext]_Lock!sessionVars
    BY RecoveryStepIsSessions
  <1>3. QED
    BY <1>1, <1>2, SafeRecoveryAlways, PTL DEF Spec, ImplementsSession, Lock!SessionSpec

----------------------------------------------------------------------------
(***************************************************************************)
(* The invariant of LightState.                                            *)
(*                                                                         *)
(* A command is alone while nothing else touches its lights.  Each light   *)
(* it has would fall back to a state that is true as far as anything       *)
(* vouches for it, were no further call answered; an answer in flight says *)
(* what the lamp is; a light without a command shows the truth already.    *)
(***************************************************************************)

Was(q, l) == IF q.light = Group THEN q.was[l] ELSE q.was

\* The brightness, the temperature of the command's lights are still to settle.
BriDue(q) == q.light = Group \/ q.call = "lightness"
TempDue(q) == q.light # Group /\ q.temp # Nothing /\ q.call # "onoff"

FallsBackTo(q, l) ==
  [on |-> IF q.lit THEN cache[l].on ELSE Was(q, l).on,
   bri |-> IF BriDue(q) THEN Was(q, l).bri ELSE cache[l].bri,
   temp |-> IF TempDue(q) THEN Was(q, l).temp ELSE cache[l].temp]

\* A light that shows x shows what its lamp does, as far as anything vouches for it.
ShowsTrue(l, x) ==
  /\ "on" \notin spoiled[l] => x.on = lamp[l].on
  /\ "bri" \notin spoiled[l] /\ lamp[l].on => x.bri = lamp[l].level
  /\ "temp" \notin spoiled[l] => x.temp = Kelvin(l, lamp[l].temp)

\* Which calls a command makes, in which order.
CommandFits(q) ==
  /\ q.call = "lightness" => q.bri # Nothing
  /\ q.call \in {"ctl", "temp"} => q.temp # Nothing
  /\ q.bri # Nothing \/ q.temp # Nothing => q.on
  /\ q.lit => q.bri # Nothing
  /\ q.light # Group =>
       /\ q.call = "onoff" => ~ q.lit /\ q.bri = Nothing
       /\ q.call = "lightness" => ~ q.lit
  /\ q.light = Group =>
       /\ q.temp = Nothing
       /\ q.call = "lightness" /\ ~ q.lit => \A l \in Grouped : Dims(l)

\* What an undisturbed command has left of the light l.
LeftAlone(q, l) ==
  /\ cache[l].on = q.on
  /\ ShowsTrue(l, FallsBackTo(q, l))
  /\ q.light = Group =>
       /\ q.bri # Nothing /\ Dims(l) => cache[l].bri = q.bri
       /\ q.lit /\ q.answered => lamp[l].on = q.on
  /\ q.light # Group /\ q.call \in {"ctl", "temp"} => q.carries = Carries(l, q.temp, cache[l].bri)
  /\ q.light # Group /\ q.answered =>
       /\ q.call \in {"ctl", "temp"} /\ q.bri # Nothing =>
            cache[l].bri = q.bri /\ lamp[l].on = TRUE /\ lamp[l].level = q.bri
       /\ q.call = "onoff" /\ q.temp # Nothing => lamp[l].temp = Sent(l, q.temp)

\* What the answer to the call of the command q says of its lamp l.
AnsweredTrue(q, l) ==
  /\ Changes(q.call) \subseteq spoiled[l]
  /\ q.light # Group =>
       /\ q.call = "onoff" => reply = lamp[l].on
       /\ q.call = "lightness" => lamp[l].on = TRUE /\ lamp[l].level = q.bri /\ reply = q.bri
       /\ q.call \in {"ctl", "temp"} => reply = lamp[l].temp /\ reply = q.carries.temp
       /\ q.call = "ctl" => lamp[l].on = TRUE /\ lamp[l].level = q.carries.bri
  /\ q.light = Group /\ q.answered /\ q.alone =>
       /\ lamp[l].on = q.on
       /\ q.call = "lightness" /\ Dims(l) => lamp[l].level = q.bri

\* What the answer to a read says.
ReadTrue(l) ==
  /\ refresh[l] = "onoff" => reply \in BOOLEAN /\ (~ lamp[l].fading => reply = lamp[l].on)
  /\ refresh[l] = "lightness" =>
       reply \in Levels \cup {0, Mid} /\ (~ lamp[l].fading /\ lamp[l].on => reply = lamp[l].level)
  /\ refresh[l] = "temp" => reply = lamp[l].temp
  /\ refresh[l] = "range" => reply[1] \in Nat /\ reply[2] \in Nat

Exclusive ==
  \A c, d \in Commands :
    c # d /\ cmd[c] # Idle /\ cmd[c].alone => Touched(cmd[c]) \cap Touched(cmd[d]) = {}

HolderCommands == holder \in Commands => cmd[holder] # Idle
CommandsFit == \A c \in Commands : cmd[c] # Idle => CommandFits(cmd[c])
Undisturbed == \A c \in Commands : \A l \in Touched(cmd[c]) : cmd[c].alone => LeftAlone(cmd[c], l)
InFlight ==
  reply # Nothing =>
    /\ \A c \in Commands : holder = c => \A l \in Touched(cmd[c]) : AnsweredTrue(cmd[c], l)
    /\ \A l \in Lights : holder = l => ReadTrue(l)
Resting == \A l \in Lights : Commanding(l) = {} => ShowsTrue(l, cache[l])

LightBooks == HolderCommands /\ CommandsFit /\ Exclusive
LightInv == LightTypeOK /\ LightBooks /\ Undisturbed /\ InFlight /\ Resting

----------------------------------------------------------------------------
(***************************************************************************)
(* The values.                                                             *)
(***************************************************************************)

LEMMA NothingIs ==
  /\ Nothing \notin BOOLEAN /\ Nothing \notin Nat /\ Nothing \notin Levels /\ Nothing \notin Temps
  /\ Nothing \notin Lights /\ Nothing \notin Commands /\ Nothing # Group
  /\ Commands \cap Lights = {} /\ Group \notin Lights /\ 0 \notin Levels
<1>1. Temps \subseteq Nat /\ Levels \subseteq Nat
  BY LightsAssumption
<1>2. QED
  BY <1>1, LightsAssumption, NothingAssumption

LEMMA LevelsAre ==
  /\ Full \in Levels /\ Mid = Full + 1 /\ Mid \in Nat /\ Mid # 0 /\ Mid # Nothing /\ Default \in Levels
<1> DEFINE top == CHOOSE b \in Levels : \A c \in Levels : c <= b
<1>1. top \in Levels
  BY LightsAssumption
<1> HIDE DEF top
<1>2. top \in Nat
  BY <1>1, LightsAssumption
<1>3. Mid = 1 + top
  BY DEF Mid, top
<1>4. Full = top
  BY <1>2, <1>3 DEF Full
<1>5. QED
  BY <1>1, <1>2, <1>3, <1>4, LightsAssumption, NothingIs

\* What a light shows, and what is sent for it.
LEMMA KelvinIs ==
  ASSUME LightTypeOK, NEW l \in Lights
  PROVE  /\ cache[l].pivot \in Nat
         /\ \A k \in Temps : Kelvin(l, k) \in Int /\ Sent(l, k) \in Temps
<1> DEFINE n == Cardinality(Temps)
<1>1. n \in Nat \ {0} /\ Temps = 1 .. n
  BY LightsAssumption
<1>2. cache[l].pivot \in Nat
  BY DEF LightTypeOK, Shown
<1> HIDE DEF n
<1>3. SUFFICES ASSUME NEW k \in Temps PROVE Kelvin(l, k) \in Int /\ Sent(l, k) \in Temps
  BY <1>2
<1>4. Kelvin(l, k) \in Int
  BY <1>1, <1>2 DEF Kelvin
<1>5. Sent(l, k) = IF Kelvin(l, k) < 1 THEN 1 ELSE IF Kelvin(l, k) > n THEN n ELSE Kelvin(l, k)
  BY DEF Sent, n
<1>6. QED
  BY <1>1, <1>4, <1>5

\* They depend on the middle of its limits alone.
LEMMA MirrorKeeps ==
  ASSUME NEW l, cache'[l].pivot = cache[l].pivot
  PROVE  \A k : Kelvin(l, k)' = Kelvin(l, k) /\ Sent(l, k)' = Sent(l, k)
BY DEF Kelvin, Sent

\* Who is touched by what.
LEMMA TouchedIs ==
  /\ Touched(Idle) = {}
  /\ \A q : Touched(q) \subseteq Lights
  /\ \A q : q.light = Group => Touched(q) = Grouped
  /\ \A q : q.light \in Lights => Touched(q) = {q.light} /\ q.light # Group
<1>1. Idle.light = Nothing
  BY DEF Idle
<1>2. QED
  BY <1>1, NothingIs, LightsAssumption DEF Touched

\* A command that something disturbs is the same but for that.
Same(q, r) ==
  /\ r.light = q.light /\ r.on = q.on /\ r.bri = q.bri /\ r.temp = q.temp /\ r.was = q.was
  /\ r.call = q.call /\ r.carries = q.carries /\ r.lit = q.lit /\ r.answered = q.answered

LEMMA DisturbedIs ==
  ASSUME LightTypeOK, NEW ls
  PROVE  /\ DOMAIN Disturbed(ls) = Commands
         /\ \A c \in Commands :
              /\ Disturbed(ls)[c] = Idle <=> cmd[c] = Idle
              /\ Same(cmd[c], Disturbed(ls)[c]) /\ Touched(Disturbed(ls)[c]) = Touched(cmd[c])
              /\ cmd[c] # Idle => IsCommand(Disturbed(ls)[c])
              /\ Touched(cmd[c]) \cap ls = {} => Disturbed(ls)[c] = cmd[c]
              /\ Touched(cmd[c]) \cap ls # {} => ~ Disturbed(ls)[c].alone
<1>1. DOMAIN Disturbed(ls) = Commands
  BY DEF Disturbed
<1>2. SUFFICES ASSUME NEW c \in Commands
               PROVE  /\ Disturbed(ls)[c] = Idle <=> cmd[c] = Idle
                      /\ Same(cmd[c], Disturbed(ls)[c]) /\ Touched(Disturbed(ls)[c]) = Touched(cmd[c])
                      /\ cmd[c] # Idle => IsCommand(Disturbed(ls)[c])
                      /\ Touched(cmd[c]) \cap ls = {} => Disturbed(ls)[c] = cmd[c]
                      /\ Touched(cmd[c]) \cap ls # {} => ~ Disturbed(ls)[c].alone
  BY <1>1
<1> DEFINE q == cmd[c]  r == [q EXCEPT !.alone = FALSE]
<1>3. q = Idle \/ IsCommand(q)
  BY DEF LightTypeOK
<1>4. Disturbed(ls)[c] = IF Touched(q) \cap ls # {} THEN r ELSE q
  BY DEF Disturbed
<1>5. CASE Touched(q) \cap ls = {}
  BY <1>3, <1>4, <1>5 DEF Same
<1>6. CASE Touched(q) \cap ls # {}
  <2>1. IsCommand(q)
    BY <1>3, <1>6, TouchedIs
  <2>2. IsCommand(r) /\ Same(q, r) /\ r.alone = FALSE
    BY <2>1 DEF IsCommand, Same
  <2>3. q # Idle /\ r # Idle
    <3>1. DOMAIN Idle = {"light"} /\ "on" \in DOMAIN q /\ "on" \in DOMAIN r
      BY <2>1, <2>2 DEF IsCommand, Idle
    <3>2. QED
      BY <3>1
  <2>4. Touched(r) = Touched(q)
    BY <2>2 DEF Same, Touched
  <2>5. QED
    BY <1>4, <1>6, <2>2, <2>3, <2>4
<1>7. QED
  BY <1>5, <1>6

----------------------------------------------------------------------------
(***************************************************************************)
(* The lamps, and what is read of the Status they answer.                  *)
(***************************************************************************)

LampStates == [on : BOOLEAN, level : Levels \cup {Mid}, temp : Temps, fading : BOOLEAN]

\* The short and the long form of a Status of one state.
LEMMA SingleIs ==
  /\ \A a : Single(<<a>>).present = a /\ (a # Nothing => Settled(Single(<<a>>)) = a)
  /\ \A a, b, c : Single(<<a, b, c>>).present = a /\ (b # Nothing => Settled(Single(<<a, b, c>>)) = b)
BY DEF Single, Settled

\* What the controller returns of the Status of the lamp x.
LEMMA SaysIs ==
  ASSUME NEW x \in LampStates, NEW message
  PROVE  LET r == Returned(message, Says(x, message.op)) IN
         /\ message.op = "onoff" /\ message.set => r = x.on
         /\ message.op = "lightness" /\ message.set => r = IF x.on THEN x.level ELSE 0
         /\ message.op \in {"ctl", "temp"} => r = x.temp
         /\ message.op = "onoff" /\ ~ message.set => r \in BOOLEAN /\ (~ x.fading => r = x.on)
         /\ message.op = "lightness" /\ ~ message.set =>
              r \in Levels \cup {0, Mid} /\ (~ x.fading /\ x.on => r = x.level)
<1>1. /\ x.on \in BOOLEAN /\ x.level \in Levels \cup {Mid} /\ x.temp \in Temps /\ x.fading \in BOOLEAN
      /\ x.on # Nothing /\ x.level # Nothing /\ x.temp # Nothing /\ 0 # Nothing
  BY NothingIs, LevelsAre DEF LampStates
<1> DEFINE level == IF x.on THEN x.level ELSE 0
<1>2. level # Nothing /\ level \in Levels \cup {0, Mid} /\ (x.on => level = x.level)
  BY <1>1
<1> HIDE DEF level
<1>3. CASE message.op = "onoff"
  <2>1. Says(x, "onoff") = IF x.fading THEN <<TRUE, x.on, 1>> ELSE <<x.on>>
    BY DEF Says
  <2>2. Settled(Single(Says(x, "onoff"))) = x.on
    <3>1. CASE x.fading
      <4>1. Says(x, "onoff") = <<TRUE, x.on, 1>>
        BY <2>1, <3>1, Zenon
      <4>2. \A b : b # Nothing => Settled(Single(<<TRUE, b, 1>>)) = b
        BY SingleIs, Zenon
      <4>3. Settled(Single(<<TRUE, x.on, 1>>)) = x.on
        BY <1>1, <4>2, Zenon
      <4>4. QED
        BY <4>1, <4>3, Zenon
    <3>2. CASE ~ x.fading
      <4>1. Says(x, "onoff") = <<x.on>>
        BY <2>1, <3>2, Zenon
      <4>2. QED
        BY <1>1, <4>1, SingleIs, Zenon
    <3>3. QED
      BY <3>1, <3>2
  <2>3. Single(Says(x, "onoff")).present = IF x.fading THEN TRUE ELSE x.on
    <3>1. CASE x.fading
      BY <2>1, <3>1, SingleIs, Zenon
    <3>2. CASE ~ x.fading
      BY <2>1, <3>2, SingleIs, Zenon
    <3>3. QED
      BY <3>1, <3>2
  <2>4. QED
    BY <1>1, <1>3, <2>2, <2>3 DEF Returned, SetOnOff, GetOnOff
<1>4. CASE message.op = "lightness"
  <2>1. Says(x, "lightness") = IF x.fading THEN <<Mid, level, 1>> ELSE <<level>>
    BY DEF Says, level
  <2>2. Settled(Single(Says(x, "lightness"))) = level
    BY <1>1, <1>2, <2>1 DEF Settled, Single
  <2>3. Single(Says(x, "lightness")).present = IF x.fading THEN Mid ELSE level
    BY <1>1, <2>1 DEF Single
  <2>4. QED
    BY <1>1, <1>2, <1>4, <2>2, <2>3 DEF Returned, SetLightness, GetLightness, level
<1>5. CASE message.op = "ctl"
  <2>1. Says(x, "ctl") = IF x.fading THEN <<Mid, 0, level, x.temp, 1>> ELSE <<level, x.temp>>
    BY DEF Says, level
  <2>2. Settled(Ctl(Says(x, "ctl"))) = x.temp
    BY <1>1, <2>1 DEF Settled, Ctl
  <2>3. QED
    BY <1>5, <2>2 DEF Returned, SetCtl, GetCtl
<1>6. CASE message.op = "temp"
  <2>1. Says(x, "temp") = IF x.fading THEN <<0, 0, x.temp, 0, 1>> ELSE <<x.temp, 0>>
    BY DEF Says
  <2>2. Settled(Temp(Says(x, "temp"))) = x.temp
    BY <1>1, <2>1 DEF Settled, Temp
  <2>3. QED
    BY <1>6, <2>2 DEF Returned, SetTemperature, GetTemperature
<1>7. QED
  BY <1>3, <1>4, <1>5, <1>6

\* A reply is one the lamp gave: nothing of an unreadable Status is returned.
LEMMA StatusIs ==
  ASSUME NEW message, NEW S, Silence \/ \E f \in S \cup {Garbled} : Status(message, f),
         message.op \in {"onoff", "lightness", "ctl", "temp", "range"}, reply' # Nothing
  PROVE  \E f \in S : reply' = Returned(message, f)
<1>1. PICK f \in S \cup {Garbled} : Status(message, f)
  BY DEF Silence
<1>2. Parses(message.op, f)
  BY <1>1 DEF Status
<1>3. 0 \notin Lengths[message.op]
  BY DEF Lengths
<1>4. f # Garbled
  <2>1. Len(Garbled) = 0
    BY DEF Garbled
  <2>2. QED
    BY <1>2, <1>3, <2>1 DEF Parses
<1>5. QED
  BY <1>1, <1>2, <1>4 DEF Status

LEMMA LinkAfter ==
  ASSUME LightTypeOK, NEW message, NEW S, Silence \/ \E f \in S : Status(message, f)
  PROVE  linked' \in BOOLEAN /\ turns' \in 0 .. MaxTurns /\ odds' \in 0 .. MaxOdds
<1>1. turns \in 0 .. MaxTurns /\ odds \in 0 .. MaxOdds /\ MaxOdds \in Nat
  BY LightsAssumption DEF LightTypeOK
<1>2. UNCHANGED acts \/ Odd
  BY DEF Silence, Status
<1>3. turns' \in 0 .. MaxTurns /\ odds' \in 0 .. MaxOdds
  <2>1. CASE UNCHANGED acts
    BY <1>1, <2>1 DEF acts
  <2>2. CASE Odd
    BY <1>1, <2>2 DEF Odd
  <2>3. QED
    BY <1>2, <2>1, <2>2
<1>4. linked' \in BOOLEAN
  BY DEF Silence, Status
<1>5. QED
  BY <1>3, <1>4

\* What a lamp is after a Set.
LEMMA SwitchedIs ==
  ASSUME NEW x \in LampStates, NEW on \in BOOLEAN
  PROVE  Switched(x, on) \in LampStates /\ Switched(x, on).on = on /\ Switched(x, on).temp = x.temp
BY LevelsAre DEF Switched, LampStates

LEMMA DimmedIs ==
  ASSUME NEW x \in LampStates, NEW b \in Levels \cup {Mid}
  PROVE  /\ Dimmed(x, b) \in LampStates /\ Dimmed(x, b).on = TRUE /\ Dimmed(x, b).level = b
         /\ Dimmed(x, b).temp = x.temp
BY DEF Dimmed, LampStates

LEMMA TunedIs ==
  ASSUME NEW x \in LampStates, NEW k \in Temps
  PROVE  /\ Tuned(x, k) \in LampStates /\ Tuned(x, k).on = x.on /\ Tuned(x, k).level = x.level
         /\ Tuned(x, k).temp = k
BY DEF Tuned, LampStates

LEMMA CarriesIs ==
  ASSUME LightTypeOK, NEW l \in Lights, NEW k \in Temps, NEW b \in Levels \cup {0, Mid, Nothing}
  PROVE  /\ Carries(l, k, b) \in [bri : Levels \cup {Mid}, temp : Temps]
         /\ Carries(l, k, b).temp = Sent(l, k) /\ Carries(l, k, b).bri = Carried(b)
         /\ b \in Levels => Carried(b) = b
<1>1. Carried(b) \in Levels \cup {Mid} /\ (b \in Levels => Carried(b) = b)
  BY LevelsAre, NothingIs DEF Carried
<1>2. Sent(l, k) \in Temps
  BY KelvinIs
<1>3. QED
  BY <1>1, <1>2 DEF Carries

\* What the Set of a light's command makes of the lamp.
SetMakes(q, l, x) ==
  /\ x \in LampStates
  /\ q.call \in {"onoff", "lightness"} => x.temp = lamp[l].temp
  /\ q.call = "lightness" => x.on = TRUE /\ x.level = q.bri
  /\ q.call = "temp" => x.on = lamp[l].on /\ x.level = lamp[l].level
  /\ q.call = "ctl" => x.on = TRUE /\ x.level = q.carries.bri
  /\ q.call \in {"ctl", "temp"} => x.temp = q.carries.temp

LEMMA AfterIs ==
  ASSUME LightTypeOK, NEW q, IsCommand(q), CommandFits(q), NEW l \in Lights, q.light = l,
         NEW x \in After(l, Message(q))
  PROVE  SetMakes(q, l, x) /\ Message(q).op = q.call /\ Message(q).set = TRUE
<1>1. /\ q.on \in BOOLEAN /\ q.call \in {"onoff", "lightness", "ctl", "temp"} /\ q.light # Group
      /\ q.call = "lightness" => q.bri \in Levels
      /\ q.call \in {"ctl", "temp"} => q.carries.bri \in Levels \cup {Mid} /\ q.carries.temp \in Temps
  BY NothingIs DEF IsCommand, CommandFits
<1>2. lamp[l] \in LampStates
  BY DEF LightTypeOK, LampStates
<1> DEFINE heard == Hears(lamp[l], Message(q))
<1>3. \/ \E fading \in BOOLEAN : x = [heard EXCEPT !.fading = fading]
      \/ Message(q).op = "onoff" /\ x = lamp[l]
  <2>1. (IF Dims(l) THEN BOOLEAN ELSE {FALSE}) \subseteq BOOLEAN
    OBVIOUS
  <2>2. QED
    BY <2>1 DEF After
<1>4. ASSUME heard \in LampStates
      PROVE  \/ Message(q).op = "onoff" /\ x = lamp[l]
             \/ x \in LampStates /\ x.on = heard.on /\ x.level = heard.level /\ x.temp = heard.temp
  <2> HIDE DEF heard
  <2>1. QED
    BY <1>3, <1>4 DEF LampStates
<1>5. CASE q.call = "onoff"
  <2>1. Message(q) = OnOffSet(q.on, q.light # Group)
    BY <1>5 DEF Message
  <2>2. Message(q).op = "onoff" /\ Message(q).set = TRUE /\ Message(q).on = q.on
    BY <2>1 DEF OnOffSet
  <2>3. heard = Switched(lamp[l], q.on)
    BY <2>2 DEF Hears
  <2>4. heard \in LampStates /\ heard.temp = lamp[l].temp
    BY <1>1, <1>2, <2>3, SwitchedIs
  <2>5. QED
    BY <1>2, <1>4, <1>5, <2>2, <2>4 DEF SetMakes
<1>6. CASE q.call = "lightness"
  <2>1. Message(q) = LightnessSet(q.bri, q.light # Group)
    BY <1>6 DEF Message
  <2>2. Message(q).op = "lightness" /\ Message(q).set = TRUE /\ Message(q).bri = q.bri
    BY <2>1 DEF LightnessSet
  <2>3. heard = Dimmed(lamp[l], q.bri)
    BY <2>2 DEF Hears
  <2>4. heard \in LampStates /\ heard.on = TRUE /\ heard.level = q.bri /\ heard.temp = lamp[l].temp
    <3>1. q.bri \in Levels \cup {Mid}
      BY <1>1, <1>6
    <3> DEFINE y == Dimmed(lamp[l], q.bri)
    <3>2. y \in LampStates /\ y.on = TRUE /\ y.level = q.bri /\ y.temp = lamp[l].temp
      BY <1>2, <3>1, DimmedIs
    <3>3. heard = y
      BY <2>3
    <3> HIDE DEF y, heard
    <3>4. QED
      BY <3>2, <3>3, Zenon
  <2>5. x \in LampStates /\ x.on = heard.on /\ x.level = heard.level /\ x.temp = heard.temp
    BY <1>4, <2>2, <2>4
  <2>6. QED
    BY <1>6, <2>2, <2>4, <2>5 DEF SetMakes
<1>7. CASE q.call = "temp"
  <2>1. Message(q) = TemperatureSet(q.carries.temp)
    BY <1>7 DEF Message
  <2>2. Message(q).op = "temp" /\ Message(q).set = TRUE /\ Message(q).temp = q.carries.temp
    BY <2>1 DEF TemperatureSet
  <2>3. heard = Tuned(lamp[l], q.carries.temp)
    BY <2>2 DEF Hears
  <2>4. /\ heard \in LampStates /\ heard.on = lamp[l].on /\ heard.level = lamp[l].level
        /\ heard.temp = q.carries.temp
    BY <1>1, <1>2, <1>7, <2>3, TunedIs
  <2>5. x \in LampStates /\ x.on = heard.on /\ x.level = heard.level /\ x.temp = heard.temp
    BY <1>4, <2>2, <2>4
  <2>6. QED
    BY <1>7, <2>2, <2>4, <2>5 DEF SetMakes
<1>8. CASE q.call = "ctl"
  <2>1. Message(q) = CtlSet(q.carries.bri, q.carries.temp)
    BY <1>8 DEF Message
  <2>2. /\ Message(q).op = "ctl" /\ Message(q).set = TRUE /\ Message(q).temp = q.carries.temp
        /\ Message(q).bri = q.carries.bri
    BY <2>1 DEF CtlSet
  <2>3. heard = Tuned(Dimmed(lamp[l], q.carries.bri), q.carries.temp)
    BY <2>2 DEF Hears
  <2>4. /\ heard \in LampStates /\ heard.on = TRUE /\ heard.level = q.carries.bri
        /\ heard.temp = q.carries.temp
    <3> DEFINE y == Dimmed(lamp[l], q.carries.bri)
    <3>1. y \in LampStates /\ y.on = TRUE /\ y.level = q.carries.bri
      BY <1>1, <1>2, <1>8, DimmedIs
    <3> HIDE DEF y
    <3>2. QED
      BY <1>1, <1>8, <2>3, <3>1, TunedIs DEF y
  <2>5. x \in LampStates /\ x.on = heard.on /\ x.level = heard.level /\ x.temp = heard.temp
    BY <1>4, <2>2, <2>4
  <2>6. QED
    BY <1>8, <2>2, <2>4, <2>5 DEF SetMakes
<1>9. QED
  BY <1>1, <1>5, <1>6, <1>7, <1>8

----------------------------------------------------------------------------
(***************************************************************************)
(* What an action does not touch.                                          *)
(***************************************************************************)

LEMMA ToldIs ==
  ASSUME LightTypeOK, NEW ls, NEW now \in [Lights -> Shown]
  PROVE  Told(ls, now) \in [Lights -> Shown]
BY DEF Told, LightTypeOK

LEMMA WriteIs ==
  ASSUME LightTypeOK, NEW ls, NEW now \in [Lights -> Shown], Write(ls, now)
  PROVE  /\ cache' = now /\ cache' \in [Lights -> Shown] /\ written' \in [Lights -> Shown]
         /\ seen' \in [Lights -> Shown] /\ cut' \subseteq Lights
BY ToldIs DEF Write, LightTypeOK

\* A new link writes what is shown already, and starts reads where there is none.
LEMMA NewLinkIs ==
  ASSUME LightTypeOK, NewLink
  PROVE  /\ cache' = cache /\ written' \in [Lights -> Shown] /\ seen' \in [Lights -> Shown]
         /\ cut' \subseteq Lights
         /\ refresh' \in [Lights -> {"idle", "onoff", "lightness", "range", "temp"}]
         /\ \A l \in Lights : refresh[l] # "idle" => refresh'[l] = refresh[l]
<1>1. cache \in [Lights -> Shown]
  BY DEF LightTypeOK
<1>2. cache' = cache /\ written' \in [Lights -> Shown] /\ seen' \in [Lights -> Shown] /\ cut' \subseteq Lights
  BY <1>1, WriteIs DEF NewLink
<1>3. /\ refresh' \in [Lights -> {"idle", "onoff", "lightness", "range", "temp"}]
      /\ \A l \in Lights : refresh[l] # "idle" => refresh'[l] = refresh[l]
  BY DEF NewLink, LightTypeOK
<1>4. QED
  BY <1>2, <1>3

LEMMA ConnectedIs ==
  ASSUME LightTypeOK, NEW x, Connected(x)
  PROVE  /\ holder' = x /\ cache' = cache /\ written' \in [Lights -> Shown] /\ seen' \in [Lights -> Shown]
         /\ cut' \subseteq Lights
         /\ refresh' \in [Lights -> {"idle", "onoff", "lightness", "range", "temp"}]
         /\ \A l \in Lights : refresh[l] # "idle" => refresh'[l] = refresh[l]
<1>1. CASE linked
  BY <1>1 DEF Connected, LightTypeOK
<1>2. CASE ~ linked
  BY <1>2, NewLinkIs DEF Connected
<1>3. QED
  BY <1>1, <1>2

\* The truth of a light is in what it shows, in its lamp and in what vouches for it.
LEMMA TruthKeeps ==
  ASSUME NEW l \in Lights, NEW x, ShowsTrue(l, x), UNCHANGED lamp[l], spoiled[l] \subseteq spoiled'[l],
         cache'[l].pivot = cache[l].pivot
  PROVE  ShowsTrue(l, x)'
BY DEF ShowsTrue, Kelvin

\* Neither what the light shows nor what its lamp does changes.
Unmoved(l) ==
  /\ cache'[l] = cache[l] /\ spoiled'[l] = spoiled[l]
  /\ lamp'[l].on = lamp[l].on /\ lamp'[l].level = lamp[l].level /\ lamp'[l].temp = lamp[l].temp

\* An undisturbed command goes on undisturbed where nothing of its lights changes.
LEMMA OthersKeep ==
  ASSUME LightInv, NEW ls, NEW d \in Commands,
         cmd'[d].alone => cmd'[d] = cmd[d] /\ Touched(cmd[d]) \cap ls = {},
         Touched(cmd'[d]) = Touched(cmd[d]),
         \A l \in Lights \ ls : Unmoved(l)
  PROVE  \A l \in Touched(cmd'[d]) : cmd'[d].alone => LeftAlone(cmd[d], l)'
<1>1. SUFFICES ASSUME NEW l \in Touched(cmd'[d]), cmd'[d].alone PROVE LeftAlone(cmd[d], l)'
  OBVIOUS
<1>2. l \in Touched(cmd[d]) /\ l \in Lights /\ l \notin ls /\ cmd'[d] = cmd[d]
  BY <1>1, TouchedIs
<1>3. LeftAlone(cmd[d], l)
  BY <1>1, <1>2 DEF LightInv, Undisturbed
<1>4. Unmoved(l) /\ UNCHANGED cmd[d]
  BY <1>2
<1>5. QED
  BY <1>3, <1>4 DEF Unmoved, LeftAlone, ShowsTrue, FallsBackTo, Was, BriDue, TempDue, Kelvin, Sent, Carries, Dims

\* Which lights have a command, when the commands c is not among keep theirs.
LEMMA CommandingIs ==
  ASSUME NEW l \in Lights
  PROVE  Commanding(l) = {} <=> \A c \in Commands : l \notin Touched(cmd[c])
BY DEF Commanding

----------------------------------------------------------------------------
(***************************************************************************)
(* A command starts.                                                       *)
(***************************************************************************)

LEMMA StartKeepsLights ==
  ASSUME LightInv, NEW c \in Commands, NEW q, NEW ls, cmd[c] = Idle,
         cmd' = [Disturbed(ls) EXCEPT ![c] = q], q # Idle, CommandFits(q), Touched(q) = ls,
         q.alone => Alone(ls), ~ q.lit,
         UNCHANGED <<holder, reply, lamp, spoiled, refresh>>,
         \A l \in Lights \ ls : UNCHANGED cache[l],
         \A l \in ls : /\ cache'[l].on = q.on /\ cache'[l].pivot = cache[l].pivot /\ Was(q, l) = cache[l]
                       /\ q.light # Group /\ q.call \in {"ctl", "temp"} =>
                            q.carries = Carries(l, q.temp, cache[l].bri)
                       /\ BriDue(q) \/ cache'[l].bri = cache[l].bri
                       /\ TempDue(q) \/ cache'[l].temp = cache[l].temp
                       /\ q.light = Group /\ q.bri # Nothing /\ Dims(l) => cache'[l].bri = q.bri,
         q.light # Group => /\ q.call \in {"ctl", "temp"} => q.bri = Nothing
                            /\ q.call = "onoff" => q.temp = Nothing
  PROVE  LightBooks' /\ Undisturbed' /\ InFlight' /\ Resting'
<1>1. ls \subseteq Lights
  BY TouchedIs
<1>2. /\ cmd'[c] = q /\ DOMAIN cmd' = Commands
      /\ \A d \in Commands : d # c => cmd'[d] = Disturbed(ls)[d]
  BY DisturbedIs DEF LightInv
<1>3. \A d \in Commands : d # c =>
        /\ cmd'[d] = Idle <=> cmd[d] = Idle
        /\ Same(cmd[d], cmd'[d]) /\ Touched(cmd'[d]) = Touched(cmd[d])
        /\ Touched(cmd[d]) \cap ls = {} => cmd'[d] = cmd[d]
        /\ Touched(cmd[d]) \cap ls # {} => ~ cmd'[d].alone
  BY <1>2, DisturbedIs DEF LightInv
<1>4. \A d \in Commands : d # c /\ cmd'[d].alone => cmd'[d] = cmd[d] /\ Touched(cmd[d]) \cap ls = {}
  BY <1>3
<1>5. Touched(cmd[c]) = {}
  BY TouchedIs
<1>6. q.alone => \A d \in Commands : Touched(cmd[d]) \cap ls = {}
  <2>1. SUFFICES ASSUME q.alone, NEW d \in Commands, NEW l \in ls PROVE l \notin Touched(cmd[d])
    OBVIOUS
  <2>2. Commanding(l) = {}
    BY <2>1 DEF Alone, Quiet
  <2>3. QED
    BY <1>1, <2>2, CommandingIs
<1>7. LightBooks'
  <2>1. HolderCommands'
    BY <1>2, <1>3 DEF LightInv, LightBooks, HolderCommands
  <2>2. CommandsFit'
    BY <1>2, <1>3 DEF LightInv, LightBooks, CommandsFit, CommandFits, Same
  <2>3. Exclusive'
    <3>1. SUFFICES ASSUME NEW d \in Commands, NEW e \in Commands, d # e, cmd'[d] # Idle, cmd'[d].alone
                   PROVE  Touched(cmd'[d]) \cap Touched(cmd'[e]) = {}
      BY DEF Exclusive, Touched, Idle
    <3>2. CASE d = c
      BY <1>2, <1>3, <1>6, <3>1, <3>2
    <3>3. CASE d # c /\ e = c
      BY <1>2, <1>3, <3>1, <3>3
    <3>4. CASE d # c /\ e # c
      BY <1>3, <3>1, <3>4 DEF LightInv, LightBooks, Exclusive
    <3>5. QED
      BY <3>2, <3>3, <3>4
  <2>4. QED
    BY <2>1, <2>2, <2>3 DEF LightBooks
<1>8. Undisturbed'
  <2>1. \A l \in Lights \ ls : Unmoved(l)
    BY DEF Unmoved
  <2>2. ASSUME NEW d \in Commands, d # c
        PROVE  \A l \in Touched(cmd'[d]) : cmd'[d].alone => LeftAlone(cmd[d], l)'
    BY <1>3, <1>4, <2>1, <2>2, OthersKeep
  <2>3. ASSUME NEW l \in ls, q.alone PROVE LeftAlone(cmd[c], l)'
    <3>1. Commanding(l) = {} /\ l \in Lights
      BY <1>1, <2>3 DEF Alone, Quiet
    <3>2. ShowsTrue(l, cache[l])
      BY <3>1 DEF LightInv, Resting
    <3>3. /\ (FallsBackTo(cmd[c], l)').on = cache[l].on /\ (FallsBackTo(cmd[c], l)').bri = cache[l].bri
          /\ (FallsBackTo(cmd[c], l)').temp = cache[l].temp
      BY <1>2, <2>3 DEF FallsBackTo, Was, BriDue, TempDue
    <3>4. ShowsTrue(l, FallsBackTo(cmd[c], l))'
      BY <2>3, <3>2, <3>3 DEF ShowsTrue, Kelvin
    <3>5. q.light # Group /\ q.call \in {"ctl", "temp"} => q.carries = Carries(l, q.temp, cache'[l].bri)
      BY <2>3 DEF BriDue
    <3>6. Carries(l, cmd[c].temp, cache[l].bri)' = Carries(l, q.temp, cache'[l].bri)
      <4>1. \A k : Sent(l, k)' = Sent(l, k)
        BY <2>3, MirrorKeeps
      <4>2. cmd'[c].temp = q.temp
        BY <1>2
      <4>3. QED
        BY <4>1, <4>2 DEF Carries
    <3>7. QED
      BY <1>2, <2>3, <3>4, <3>5, <3>6 DEF LeftAlone
  <2>4. QED
    BY <1>2, <2>2, <2>3 DEF Undisturbed, Touched
<1>9. InFlight'
  <2>1. SUFFICES ASSUME reply # Nothing PROVE InFlight'
    BY DEF InFlight
  <2>2. ASSUME NEW d \in Commands, holder = d, NEW l \in Touched(cmd'[d]) PROVE AnsweredTrue(cmd[d], l)'
    <3>1. d # c /\ l \in Touched(cmd[d]) /\ l \in Lights
      BY <1>3, <2>2, TouchedIs DEF LightInv, LightBooks, HolderCommands
    <3>2. AnsweredTrue(cmd[d], l)
      BY <2>1, <2>2, <3>1 DEF LightInv, InFlight
    <3>3. Same(cmd[d], cmd'[d]) /\ (cmd'[d].alone => cmd[d].alone)
      BY <1>3, <1>4, <3>1
    <3>4. QED
      BY <3>2, <3>3 DEF AnsweredTrue, Same, Changes, Dims
  <2>3. ASSUME NEW l \in Lights, holder = l PROVE ReadTrue(l)'
    BY <2>1, <2>3 DEF LightInv, InFlight, ReadTrue
  <2>4. QED
    BY <2>2, <2>3 DEF InFlight, Touched
<1>10. Resting'
  <2>1. SUFFICES ASSUME NEW l \in Lights, Commanding(l)' = {} PROVE ShowsTrue(l, cache[l])'
    BY DEF Resting
  <2>2. \A d \in Commands : l \notin Touched(cmd'[d])
    BY <2>1 DEF Commanding, Touched
  <2>3. l \notin ls /\ \A d \in Commands : l \notin Touched(cmd[d])
    BY <1>2, <1>3, <1>5, <2>2
  <2>4. ShowsTrue(l, cache[l])
    BY <2>3, CommandingIs DEF LightInv, Resting
  <2>5. UNCHANGED <<cache[l], lamp[l], spoiled[l]>>
    BY <2>3
  <2>6. QED
    BY <2>4, <2>5 DEF ShowsTrue, Kelvin
<1>11. QED
  BY <1>7, <1>8, <1>9, <1>10

----------------------------------------------------------------------------
(***************************************************************************)
(* A step elsewhere, and a step of the command c.                          *)
(***************************************************************************)

\* The commands other than c go on as they were, or are disturbed; c goes on, or
\* ends; nothing of the lights outside ls changes.
LEMMA StepKeeps ==
  ASSUME LightInv, NEW c, NEW ls,
         \A d \in Commands : d # c =>
           /\ cmd'[d] = Idle <=> cmd[d] = Idle
           /\ Same(cmd[d], cmd'[d]) /\ Touched(cmd'[d]) = Touched(cmd[d])
           /\ cmd'[d].alone => cmd'[d] = cmd[d] /\ Touched(cmd[d]) \cap ls = {},
         c \in Commands =>
           \/ cmd'[c] = Idle /\ Touched(cmd[c]) \subseteq ls
           \/ /\ cmd'[c] # Idle /\ cmd[c] # Idle /\ CommandFits(cmd'[c]) /\ Touched(cmd'[c]) = Touched(cmd[c])
              /\ cmd'[c].alone = cmd[c].alone
              /\ \A l \in Touched(cmd'[c]) : cmd'[c].alone => LeftAlone(cmd[c], l)',
         \A l \in Lights \ ls : Unmoved(l),
         \A l \in Lights \cap ls : Commanding(l)' = {} => ShowsTrue(l, cache[l])',
         holder' \in Commands => cmd'[holder'] # Idle
  PROVE  LightBooks' /\ Undisturbed' /\ Resting'
<1>1. HolderCommands'
  BY DEF HolderCommands
<1>2. CommandsFit'
  BY DEF LightInv, LightBooks, CommandsFit, CommandFits, Same
<1>3. Exclusive'
  <2>1. SUFFICES ASSUME NEW d \in Commands, NEW e \in Commands, d # e, cmd'[d] # Idle, cmd'[d].alone
                 PROVE  Touched(cmd'[d]) \cap Touched(cmd'[e]) = {}
    BY DEF Exclusive, Touched, Idle
  <2>2. cmd[d] # Idle /\ cmd[d].alone /\ Touched(cmd'[d]) = Touched(cmd[d])
    BY <2>1
  <2>3. Touched(cmd[d]) \cap Touched(cmd[e]) = {}
    BY <2>1, <2>2 DEF LightInv, LightBooks, Exclusive
  <2>4. Touched(cmd'[e]) = Touched(cmd[e]) \/ Touched(cmd'[e]) = {}
    BY TouchedIs
  <2>5. QED
    BY <2>2, <2>3, <2>4
<1>4. Undisturbed'
  <2>1. ASSUME NEW d \in Commands, d # c
        PROVE  \A l \in Touched(cmd'[d]) : cmd'[d].alone => LeftAlone(cmd[d], l)'
    BY <2>1, OthersKeep
  <2>2. c \in Commands => \A l \in Touched(cmd'[c]) : cmd'[c].alone => LeftAlone(cmd[c], l)'
    BY TouchedIs
  <2>3. QED
    BY <2>1, <2>2 DEF Undisturbed, Touched
<1>5. Resting'
  <2>1. SUFFICES ASSUME NEW l \in Lights, Commanding(l)' = {} PROVE ShowsTrue(l, cache[l])'
    BY DEF Resting
  <2>2. CASE l \in ls
    BY <2>1, <2>2
  <2>3. CASE l \notin ls
    <3>1. \A d \in Commands : l \notin Touched(cmd'[d])
      BY <2>1 DEF Commanding, Touched
    <3>2. \A d \in Commands : l \notin Touched(cmd[d])
      BY <2>3, <3>1
    <3>3. ShowsTrue(l, cache[l])
      BY <3>2, CommandingIs DEF LightInv, Resting
    <3>4. QED
      BY <2>3, <3>3 DEF ShowsTrue, Kelvin, Unmoved
  <2>4. QED
    BY <2>2, <2>3
<1>6. QED
  BY <1>1, <1>2, <1>3, <1>4, <1>5 DEF LightBooks

\* Something outside the commands happens to the lights ls.
LEMMA WorldKeepsLights ==
  ASSUME LightInv, NEW ls, \A d \in Commands : cmd'[d] = Disturbed(ls)[d],
         \A l \in Lights \ ls : Unmoved(l),
         \A l \in Lights \cap ls : Commanding(l) = {} => ShowsTrue(l, cache[l])',
         holder' \in Commands => cmd[holder'] # Idle
  PROVE  LightBooks' /\ Undisturbed' /\ Resting'
<1>1. /\ Nothing \notin Commands
      /\ \A d \in Commands :
           /\ cmd'[d] = Idle <=> cmd[d] = Idle
           /\ Same(cmd[d], cmd'[d]) /\ Touched(cmd'[d]) = Touched(cmd[d])
           /\ cmd'[d].alone => cmd'[d] = cmd[d] /\ Touched(cmd[d]) \cap ls = {}
  BY DisturbedIs, NothingIs DEF LightInv
<1>2. \A l \in Lights \cap ls : Commanding(l)' = {} => ShowsTrue(l, cache[l])'
  <2>1. SUFFICES ASSUME NEW l \in Lights \cap ls, Commanding(l)' = {} PROVE Commanding(l) = {}
    OBVIOUS
  <2>2. \A d \in Commands : l \notin Touched(cmd'[d])
    BY <2>1 DEF Commanding, Touched
  <2>3. QED
    BY <1>1, <2>2, CommandingIs
<1>3. holder' \in Commands => cmd'[holder'] # Idle
  BY <1>1
<1>4. QED
  BY <1>1, <1>2, <1>3, StepKeeps

\* The commands that are alone share no light with another.
LEMMA ApartIs ==
  ASSUME LightInv, NEW c \in Commands, cmd[c] # Idle
  PROVE  \A d \in Commands : d # c /\ cmd[d].alone => Touched(cmd[d]) \cap Touched(cmd[c]) = {}
<1>1. SUFFICES ASSUME NEW d \in Commands, d # c, cmd[d].alone
               PROVE  Touched(cmd[d]) \cap Touched(cmd[c]) = {}
  OBVIOUS
<1>2. CASE cmd[d] = Idle
  BY <1>2, TouchedIs
<1>3. CASE cmd[d] # Idle
  BY <1>1, <1>3 DEF LightInv, LightBooks, Exclusive
<1>4. QED
  BY <1>2, <1>3

----------------------------------------------------------------------------
(***************************************************************************)
(* Calls that are not made, links, drops, fades.                           *)
(***************************************************************************)

LEMMA UnmovedKeeps ==
  ASSUME LightInv, UNCHANGED cmd, \A l \in Lights : Unmoved(l), holder' \in Commands => cmd[holder'] # Idle
  PROVE  LightBooks' /\ Undisturbed' /\ Resting'
<1>1. \A d \in Commands : cmd'[d] = Disturbed({})[d]
  BY DisturbedIs DEF LightInv
<1>2. QED
  BY <1>1, WorldKeepsLights

\* Nothing is in flight.
LEMMA NoneInFlight ==
  ASSUME reply' = Nothing \/ holder' = Nothing
  PROVE  InFlight'
BY NothingIs DEF InFlight

LEMMA NoLinkKeeps ==
  ASSUME LightInv, NEW x \in Commands \cup Lights, x \in Commands => cmd[x] # Idle, NoLink(x)
  PROVE  LightInv'
<1>1. UNCHANGED <<cache, written, seen, ranged, cmd, refresh, linked, lamp, spoiled, said, cut, turns, odds>>
  BY DEF NoLink, acts
<1>2. LightTypeOK'
  BY <1>1 DEF LightInv, LightTypeOK, IsCommand, Idle, Shown, NoLink
<1>3. \A l \in Lights : Unmoved(l)
  BY <1>1 DEF Unmoved
<1>4. LightBooks' /\ Undisturbed' /\ Resting'
  BY <1>1, <1>3, UnmovedKeeps DEF NoLink
<1>5. QED
  BY <1>2, <1>4, NoneInFlight DEF LightInv, NoLink

LEMMA ReconnectKeeps ==
  ASSUME LightInv, Reconnect
  PROVE  LightInv'
<1>1. /\ UNCHANGED <<ranged, cmd, holder, reply, lamp, spoiled, said, turns, odds>>
      /\ holder = Nothing /\ linked' = TRUE
  BY DEF Reconnect, acts
<1>2. /\ cache' = cache /\ written' \in [Lights -> Shown] /\ seen' \in [Lights -> Shown] /\ cut' \subseteq Lights
      /\ refresh' \in [Lights -> {"idle", "onoff", "lightness", "range", "temp"}]
  BY NewLinkIs DEF LightInv, Reconnect
<1>3. LightTypeOK'
  BY <1>1, <1>2 DEF LightInv, LightTypeOK, IsCommand, Idle, Shown
<1>4. \A l \in Lights : Unmoved(l)
  BY <1>1, <1>2 DEF Unmoved
<1>5. LightBooks' /\ Undisturbed' /\ Resting'
  BY <1>1, <1>4, UnmovedKeeps, NothingIs
<1>6. QED
  BY <1>1, <1>3, <1>5, NoneInFlight DEF LightInv

LEMMA LinkDropsKeeps ==
  ASSUME LightInv, LinkDrops
  PROVE  LightInv'
<1>1. /\ UNCHANGED <<cache, written, seen, ranged, cmd, refresh, holder, reply, lamp, spoiled, said, cut, turns>>
      /\ holder = Nothing /\ linked' = FALSE /\ odds < MaxOdds /\ odds' = odds + 1
  BY DEF LinkDrops, Odd
<1>2. odds' \in 0 .. MaxOdds
  BY <1>1, LightsAssumption DEF LightInv, LightTypeOK
<1>3. LightTypeOK'
  BY <1>1, <1>2 DEF LightInv, LightTypeOK, IsCommand, Idle, Shown
<1>4. \A l \in Lights : Unmoved(l)
  BY <1>1 DEF Unmoved
<1>5. LightBooks' /\ Undisturbed' /\ Resting'
  BY <1>1, <1>4, UnmovedKeeps, NothingIs
<1>6. QED
  BY <1>1, <1>3, <1>5, NoneInFlight DEF LightInv

LEMMA FadeEndsKeeps ==
  ASSUME LightInv, NEW l \in Lights, FadeEnds(l)
  PROVE  LightInv'
<1>1. /\ UNCHANGED <<cache, written, seen, ranged, cmd, refresh, holder, reply, linked, spoiled, said, cut>>
      /\ UNCHANGED <<turns, odds>>
      /\ holder = Nothing /\ lamp' = [lamp EXCEPT ![l].fading = FALSE]
  BY DEF FadeEnds, acts
<1>2. lamp \in [Lights -> LampStates]
  BY DEF LightInv, LightTypeOK, LampStates
<1>3. /\ lamp' \in [Lights -> LampStates]
      /\ \A m \in Lights : /\ lamp'[m].on = lamp[m].on /\ lamp'[m].level = lamp[m].level
                           /\ lamp'[m].temp = lamp[m].temp
  BY <1>1, <1>2 DEF LampStates
<1>4. LightTypeOK'
  BY <1>1, <1>3 DEF LightInv, LightTypeOK, IsCommand, Idle, Shown, LampStates
<1>5. \A m \in Lights : Unmoved(m)
  BY <1>1, <1>3 DEF Unmoved
<1>6. LightBooks' /\ Undisturbed' /\ Resting'
  BY <1>1, <1>5, UnmovedKeeps, NothingIs
<1>7. QED
  BY <1>1, <1>4, <1>6, NoneInFlight DEF LightInv

LEMMA OutsideKeeps ==
  ASSUME LightInv, NEW l \in Lights, Outside(l)
  PROVE  LightInv'
<1>1. /\ UNCHANGED <<cache, written, seen, ranged, refresh, holder, reply, linked, said, cut, turns>>
      /\ holder = Nothing /\ lamp' = [lamp EXCEPT ![l].on = ~ @] /\ cmd' = Disturbed({l})
      /\ spoiled' = [spoiled EXCEPT ![l] = Attributes] /\ odds < MaxOdds /\ odds' = odds + 1
  BY DEF Outside, Odd
<1>2. lamp \in [Lights -> LampStates] /\ spoiled \in [Lights -> SUBSET Attributes]
  BY DEF LightInv, LightTypeOK, LampStates
<1>3. lamp' \in [Lights -> LampStates] /\ \A m \in Lights : m # l => lamp'[m] = lamp[m]
  BY <1>1, <1>2 DEF LampStates
<1>4. /\ spoiled' \in [Lights -> SUBSET Attributes] /\ spoiled'[l] = Attributes
      /\ \A m \in Lights : m # l => spoiled'[m] = spoiled[m]
  BY <1>1, <1>2
<1>5. LightTypeOK'
  <2>1. DOMAIN cmd' = Commands /\ \A c \in Commands : cmd'[c] = Idle \/ IsCommand(cmd'[c])
    BY <1>1, DisturbedIs DEF LightInv
  <2>2. odds' \in 0 .. MaxOdds
    BY <1>1, LightsAssumption DEF LightInv, LightTypeOK
  <2>3. QED
    BY <1>1, <1>3, <1>4, <2>1, <2>2 DEF LightInv, LightTypeOK, IsCommand, Idle, Shown, LampStates
<1>6. \A m \in Lights \ {l} : Unmoved(m)
  BY <1>1, <1>3, <1>4 DEF Unmoved
<1>7. ShowsTrue(l, cache[l])'
  BY <1>4 DEF ShowsTrue, Attributes
<1>8. LightBooks' /\ Undisturbed' /\ Resting'
  BY <1>1, <1>6, <1>7, WorldKeepsLights, NothingIs
<1>9. QED
  BY <1>1, <1>5, <1>8, NoneInFlight DEF LightInv

----------------------------------------------------------------------------
(***************************************************************************)
(* Reading a light back.                                                   *)
(***************************************************************************)

LEMMA SendRefreshKeeps ==
  ASSUME LightInv, NEW l \in Lights, SendRefresh(l)
  PROVE  LightInv'
<1>1. l \notin Commands /\ refresh[l] \in {"onoff", "lightness", "range", "temp"} /\ LightTypeOK
  BY NothingIs DEF LightInv, LightTypeOK, SendRefresh
<1>2. CASE NoLink(l)
  BY <1>1, <1>2, NoLinkKeeps
<1>3. CASE ~ NoLink(l)
  <2> DEFINE asked == Asked(l)
  <2>1. /\ Connected(l) /\ UNCHANGED <<ranged, cmd, lamp, spoiled, said>>
        /\ Silence \/ \E f \in Answers(l, asked.op) \cup {Garbled} : Status(asked, f)
    BY <1>3 DEF SendRefresh
  <2>2. asked.op = (IF refresh[l] = "temp" THEN TempCall(l) ELSE refresh[l]) /\ asked.set = FALSE
    BY DEF Asked, Get
  <2>3. /\ refresh[l] = "temp" => asked.op \in {"ctl", "temp"}
        /\ refresh[l] # "temp" => asked.op = refresh[l]
    BY <2>2 DEF TempCall
  <2>4. asked.op \in {"onoff", "lightness", "ctl", "temp", "range"}
    BY <1>1, <2>3
  <2> HIDE DEF asked
  <2>5. /\ holder' = l /\ cache' = cache /\ written' \in [Lights -> Shown] /\ seen' \in [Lights -> Shown]
        /\ cut' \subseteq Lights
        /\ refresh' \in [Lights -> {"idle", "onoff", "lightness", "range", "temp"}]
        /\ refresh'[l] = refresh[l]
    BY <1>1, <2>1, ConnectedIs
  <2>6. linked' \in BOOLEAN /\ turns' \in 0 .. MaxTurns /\ odds' \in 0 .. MaxOdds
    BY <1>1, <2>1, LinkAfter
  <2>7. LightTypeOK'
    BY <1>1, <2>1, <2>5, <2>6 DEF LightTypeOK, IsCommand, Idle, Shown
  <2>8. \A m \in Lights : Unmoved(m)
    BY <2>1, <2>5 DEF Unmoved
  <2>9. LightBooks' /\ Undisturbed' /\ Resting'
    BY <1>1, <2>1, <2>5, <2>8, UnmovedKeeps
  <2>10. ASSUME reply' # Nothing PROVE ReadTrue(l)'
    <3>1. PICK f \in Answers(l, asked.op) : reply' = Returned(asked, f)
      BY <2>1, <2>4, <2>10, StatusIs
    <3>2. lamp'[l] = lamp[l] /\ refresh'[l] = refresh[l] /\ lamp[l] \in LampStates
      BY <1>1, <2>1, <2>5 DEF LightTypeOK, LampStates
    <3>3. CASE refresh[l] = "range"
      <4>1. f \in Nat \X Nat \X Nat /\ asked.op = "range"
        BY <2>3, <3>1, <3>3, LightsAssumption DEF Answers
      <4>2. f[2] \in Nat /\ f[3] \in Nat /\ reply' = GetRange(f)
        BY <3>1, <4>1 DEF Returned
      <4>3. reply' = <<f[2], f[3]>>
        BY <2>10, <4>2 DEF GetRange, Range
      <4>4. QED
        BY <3>2, <3>3, <4>2, <4>3 DEF ReadTrue
    <3>4. CASE refresh[l] # "range"
      <4> DEFINE r == Returned(asked, Says(lamp[l], asked.op))
      <4>1. reply' = r
        BY <1>1, <2>3, <3>1, <3>4 DEF Answers
      <4>2. /\ asked.op \in {"ctl", "temp"} => r = lamp[l].temp
            /\ asked.op = "onoff" /\ ~ asked.set => r \in BOOLEAN /\ (~ lamp[l].fading => r = lamp[l].on)
            /\ asked.op = "lightness" /\ ~ asked.set =>
                 r \in Levels \cup {0, Mid} /\ (~ lamp[l].fading /\ lamp[l].on => r = lamp[l].level)
        BY <3>2, SaysIs
      <4> HIDE DEF r
      <4>3. refresh[l] = "onoff" => reply' \in BOOLEAN /\ (~ lamp[l].fading => reply' = lamp[l].on)
        BY <2>2, <2>3, <4>1, <4>2
      <4>4. refresh[l] = "lightness" =>
              reply' \in Levels \cup {0, Mid} /\ (~ lamp[l].fading /\ lamp[l].on => reply' = lamp[l].level)
        BY <2>2, <2>3, <4>1, <4>2
      <4>5. refresh[l] = "temp" => reply' = lamp[l].temp
        BY <2>3, <4>1, <4>2
      <4>6. QED
        BY <3>2, <3>4, <4>3, <4>4, <4>5 DEF ReadTrue
    <3>5. QED
      BY <3>3, <3>4
  <2>11. InFlight'
    BY <1>1, <2>5, <2>10 DEF InFlight
  <2>12. QED
    BY <2>7, <2>9, <2>11 DEF LightInv
<1>4. QED
  BY <1>2, <1>3

\* What a read makes of what the light shows, and what of that is true.
LEMMA ReadIs ==
  ASSUME LightTypeOK, NEW l \in Lights, reply # Nothing, ReadTrue(l), refresh[l] # "idle"
  PROVE  /\ Read(l) \in [Lights -> Shown] /\ \A m \in Lights \ {l} : Read(l)[m] = cache[m]
         /\ refresh[l] = "onoff" => Read(l)[l] = [cache[l] EXCEPT !.on = reply]
         /\ refresh[l] = "lightness" => Read(l)[l] = [cache[l] EXCEPT !.bri = reply]
         /\ refresh[l] = "temp" => Read(l)[l] = [cache[l] EXCEPT !.temp = Kelvin(l, lamp[l].temp)]
         /\ refresh[l] = "range" => Read(l)[l] = [cache[l] EXCEPT !.pivot = reply[1] + reply[2]]
<1>1. cache \in [Lights -> Shown] /\ cache[l] \in Shown
  BY DEF LightTypeOK
<1>2. lamp[l].temp \in Temps /\ Kelvin(l, lamp[l].temp) \in Int
  BY KelvinIs DEF LightTypeOK
<1>3. refresh[l] \in {"onoff", "lightness", "range", "temp"}
  BY DEF LightTypeOK
<1>4. CASE refresh[l] = "onoff"
  <2>1. Read(l) = [cache EXCEPT ![l] = [cache[l] EXCEPT !.on = reply]]
    BY <1>1, <1>4 DEF Read
  <2>2. reply \in BOOLEAN
    BY <1>4 DEF ReadTrue
  <2>3. [cache[l] EXCEPT !.on = reply] \in Shown
    BY <1>1, <2>2 DEF Shown
  <2>4. QED
    BY <1>1, <1>4, <2>1, <2>3
<1>5. CASE refresh[l] = "lightness"
  <2>1. Read(l) = [cache EXCEPT ![l] = [cache[l] EXCEPT !.bri = reply]]
    BY <1>1, <1>5 DEF Read
  <2>2. reply \in Levels \cup {0, Mid}
    BY <1>5 DEF ReadTrue
  <2>3. [cache[l] EXCEPT !.bri = reply] \in Shown
    BY <1>1, <2>2 DEF Shown
  <2>4. QED
    BY <1>1, <1>5, <2>1, <2>3
<1>6. CASE refresh[l] = "temp"
  <2>1. Read(l) = [cache EXCEPT ![l] = [cache[l] EXCEPT !.temp = Kelvin(l, reply)]]
    BY <1>1, <1>6 DEF Read
  <2>2. reply = lamp[l].temp
    BY <1>6 DEF ReadTrue
  <2>3. [cache[l] EXCEPT !.temp = Kelvin(l, reply)] \in Shown
    BY <1>1, <1>2, <2>2 DEF Shown
  <2>4. QED
    BY <1>1, <1>6, <2>1, <2>2, <2>3
<1>7. CASE refresh[l] = "range"
  <2> DEFINE pivot == reply[1] + reply[2]
  <2>1. Read(l) = [cache EXCEPT ![l] = [cache[l] EXCEPT !.pivot = pivot]]
    BY <1>1, <1>7 DEF Read
  <2>2. pivot \in Nat
    BY <1>7 DEF ReadTrue
  <2> HIDE DEF pivot
  <2>3. [cache[l] EXCEPT !.pivot = pivot] \in Shown
    BY <1>1, <2>2 DEF Shown
  <2>4. QED
    BY <1>1, <1>7, <2>1, <2>3 DEF pivot
<1>8. QED
  BY <1>3, <1>4, <1>5, <1>6, <1>7

LEMMA AnswerRefreshKeeps ==
  ASSUME LightInv, NEW l \in Lights, AnswerRefresh(l)
  PROVE  LightInv'
<1> DEFINE call == refresh[l]
           silent == call = "onoff" /\ reply = Nothing
           next == IF silent THEN "idle" ELSE AfterRead(l)
           vouched == IF lamp[l].fading THEN spoiled[l] \cup {"on", "bri"}
                      ELSE IF reply # Nothing THEN spoiled[l] \ Reads(call) ELSE spoiled[l]
           left == vouched \cup (IF Moves(l) THEN {"temp"} ELSE {})
<1>1. /\ holder = l /\ call # "idle" /\ holder' = Nothing /\ reply' = Nothing
      /\ refresh' = [refresh EXCEPT ![l] = next]
      /\ ranged' = [ranged EXCEPT ![l] = @ \/ next = "range"]
      /\ IF next = "idle" /\ ~ silent THEN Write({l}, Read(l)) ELSE Unwritten(Read(l))
      /\ cmd' = Disturbed({l}) /\ spoiled' = [spoiled EXCEPT ![l] = left]
      /\ said' = IF call = "onoff" /\ ~ silent THEN [said EXCEPT ![l] = @ \cup {reply}] ELSE said
      /\ UNCHANGED <<linked, lamp, turns, odds>>
  BY DEF AnswerRefresh, acts
<1>2. /\ LightTypeOK /\ call \in {"onoff", "lightness", "range", "temp"}
      /\ spoiled \in [Lights -> SUBSET Attributes] /\ cache \in [Lights -> Shown]
  BY <1>1 DEF LightInv, LightTypeOK
<1>3. reply # Nothing => ReadTrue(l)
  BY <1>1 DEF LightInv, InFlight
<1>4. Read(l) \in [Lights -> Shown] /\ \A m \in Lights \ {l} : Read(l)[m] = cache[m]
  <2>1. CASE reply = Nothing
    BY <1>2, <2>1 DEF Read
  <2>2. CASE reply # Nothing
    BY <1>1, <1>2, <1>3, <2>2, ReadIs
  <2>3. QED
    BY <2>1, <2>2
<1>5. cache' = Read(l) /\ written' \in [Lights -> Shown] /\ seen' \in [Lights -> Shown] /\ cut' \subseteq Lights
  <2>1. CASE Write({l}, Read(l))
    BY <1>2, <1>4, <2>1, WriteIs
  <2>2. CASE Unwritten(Read(l))
    BY <1>2, <2>2 DEF Unwritten, LightTypeOK
  <2>3. QED
    BY <1>1, <2>1, <2>2
<1>6. next \in {"idle", "lightness", "range", "temp"}
  BY DEF AfterRead, Temperature
<1>7. left \in SUBSET Attributes
  <2>1. spoiled[l] \subseteq Attributes /\ {"on", "bri", "temp"} = Attributes
    BY <1>2 DEF Attributes
  <2>2. QED
    BY <2>1
<1>8. call = "onoff" /\ ~ silent => reply \in BOOLEAN
  BY <1>3 DEF ReadTrue
<1>9. spoiled'[l] = left /\ \A m \in Lights \ {l} : spoiled'[m] = spoiled[m]
  BY <1>1, <1>2
<1> HIDE DEF left, vouched, next, silent
<1>10. LightTypeOK'
  <2>1. DOMAIN cmd' = Commands /\ \A c \in Commands : cmd'[c] = Idle \/ IsCommand(cmd'[c])
    BY <1>1, <1>2, DisturbedIs
  <2>2. refresh' \in [Lights -> {"idle", "onoff", "lightness", "range", "temp"}]
    BY <1>1, <1>2, <1>6 DEF LightTypeOK
  <2>3. spoiled' \in [Lights -> SUBSET Attributes]
    BY <1>1, <1>2, <1>7
  <2>4. said' \in [Lights -> SUBSET (BOOLEAN \cup {Nothing})]
    BY <1>1, <1>2, <1>8 DEF LightTypeOK
  <2>5. ranged' \in [Lights -> BOOLEAN]
    BY <1>1, <1>2 DEF LightTypeOK
  <2>6. cache' \in [Lights -> Shown]
    BY <1>4, <1>5
  <2>7. QED
    BY <1>1, <1>2, <1>5, <2>1, <2>2, <2>3, <2>4, <2>5, <2>6 DEF LightTypeOK, IsCommand, Idle, Shown
<1>11. \A m \in Lights \ {l} : Unmoved(m)
  BY <1>1, <1>4, <1>5, <1>9 DEF Unmoved
<1>12. ASSUME Commanding(l) = {} PROVE ShowsTrue(l, cache[l])'
  <2>1. ShowsTrue(l, cache[l])
    BY <1>12 DEF LightInv, Resting
  <2>2. lamp'[l] = lamp[l] /\ cache[l] \in Shown
    BY <1>1, <1>2
  <2>3. vouched \subseteq spoiled'[l] /\ (Moves(l) => "temp" \in spoiled'[l])
    BY <1>9 DEF left
  <2>4. CASE reply = Nothing
    <3>1. cache'[l] = cache[l] /\ spoiled[l] \subseteq spoiled'[l]
      BY <1>5, <2>3, <2>4 DEF Read, vouched
    <3>2. QED
      BY <2>1, <2>2, <3>1 DEF ShowsTrue, Kelvin
  <2>5. CASE reply # Nothing
    <3>1. /\ call = "onoff" => cache'[l] = [cache[l] EXCEPT !.on = reply]
          /\ call = "lightness" => cache'[l] = [cache[l] EXCEPT !.bri = reply]
          /\ call = "temp" => cache'[l] = [cache[l] EXCEPT !.temp = Kelvin(l, lamp[l].temp)]
          /\ call = "range" => cache'[l] = [cache[l] EXCEPT !.pivot = reply[1] + reply[2]]
      BY <1>1, <1>2, <1>3, <1>5, <2>5, ReadIs
    <3>2. vouched = IF lamp[l].fading THEN spoiled[l] \cup {"on", "bri"} ELSE spoiled[l] \ Reads(call)
      BY <2>5 DEF vouched
    <3>3. CASE call = "onoff"
      BY <1>3, <2>1, <2>2, <2>3, <2>5, <3>1, <3>2, <3>3 DEF ShowsTrue, Kelvin, Shown, ReadTrue, Reads
    <3>4. CASE call = "lightness"
      BY <1>3, <2>1, <2>2, <2>3, <2>5, <3>1, <3>2, <3>4 DEF ShowsTrue, Kelvin, Shown, ReadTrue, Reads
    <3>5. CASE call = "temp"
      BY <2>1, <2>2, <2>3, <3>1, <3>2, <3>5 DEF ShowsTrue, Kelvin, Shown, Reads
    <3>6. CASE call = "range"
      <4>1. /\ cache'[l].on = cache[l].on /\ cache'[l].bri = cache[l].bri /\ cache'[l].temp = cache[l].temp
            /\ cache' = Read(l) /\ spoiled[l] \subseteq spoiled'[l]
        BY <1>5, <2>2, <2>3, <3>1, <3>2, <3>6 DEF Shown, Reads
      <4>2. ~ Moves(l) => Kelvin(l, lamp[l].temp)' = Kelvin(l, lamp[l].temp)
        BY <2>2, <4>1 DEF Moves, Kelvin
      <4>3. QED
        BY <2>1, <2>2, <2>3, <4>1, <4>2 DEF ShowsTrue
    <3>7. QED
      BY <1>2, <3>3, <3>4, <3>5, <3>6
  <2>6. QED
    BY <2>4, <2>5
<1>13. LightBooks' /\ Undisturbed' /\ Resting'
  BY <1>1, <1>11, <1>12, WorldKeepsLights, NothingIs
<1>14. QED
  BY <1>1, <1>10, <1>13, NoneInFlight DEF LightInv

\* A command that starts is no idle one, and is alone if its lights are quiet.
LEMMA CommandIs ==
  ASSUME NEW q, NEW light,
         DOMAIN q = {"light", "on", "bri", "temp", "was", "call", "carries", "lit", "answered", "alone"},
         q.light = light, q.alone = Alone(Touched([light |-> light]))
  PROVE  /\ Touched(q) = Touched([light |-> light]) /\ q # Idle /\ q.alone \in BOOLEAN
         /\ q.alone => Alone(Touched(q))
<1>1. Touched(q) = Touched([light |-> light])
  BY DEF Touched
<1>2. q.alone \in BOOLEAN
  BY DEF Alone
<1>3. q # Idle
  <2>1. DOMAIN Idle = {"light"} /\ "on" \in DOMAIN q
    BY DEF Idle
  <2>2. QED
    BY <2>1
<1>4. q.alone => Alone(Touched(q))
  BY <1>1
<1>5. QED
  BY <1>1, <1>2, <1>3, <1>4

LEMMA ActIs ==
  ASSUME LightTypeOK, NEW ls, Act(ls)
  PROVE  /\ turns' \in 0 .. MaxTurns /\ odds' = odds
         /\ said' \in [Lights -> SUBSET (BOOLEAN \cup {Nothing})]
<1>1. turns < MaxTurns /\ turns' = turns + 1 /\ turns \in 0 .. MaxTurns /\ MaxTurns \in Nat
  BY LightsAssumption DEF Act, LightTypeOK
<1>2. \A l \in Lights : {cache[l].on} \in SUBSET (BOOLEAN \cup {Nothing})
  BY DEF LightTypeOK, Shown
<1>3. said' \in [Lights -> SUBSET (BOOLEAN \cup {Nothing})]
  BY <1>2 DEF Act, LightTypeOK
<1>4. QED
  BY <1>1, <1>3 DEF Act

\* The shapes after a command has started.
LEMMA StartTypes ==
  ASSUME LightTypeOK, NEW c \in Commands, NEW q, NEW ls, NEW now \in [Lights -> Shown],
         Act(ls), Write(ls, now), IsCommand(q), cmd' = [Disturbed(ls) EXCEPT ![c] = q],
         UNCHANGED <<ranged, refresh, holder, reply, linked, lamp, spoiled>>
  PROVE  LightTypeOK'
<1>1. /\ DOMAIN cmd' = Commands
      /\ \A d \in Commands : cmd'[d] = Idle \/ IsCommand(cmd'[d])
  BY DisturbedIs
<1>2. /\ cache' \in [Lights -> Shown] /\ written' \in [Lights -> Shown] /\ seen' \in [Lights -> Shown]
      /\ cut' \subseteq Lights
  BY WriteIs
<1>3. QED
  BY <1>1, <1>2, ActIs DEF LightTypeOK, IsCommand, Idle, Shown

LEMMA TurnOnKeeps ==
  ASSUME LightInv, NEW c \in Commands, NEW l \in Lights, NEW b \in Levels \cup {Nothing},
         NEW k \in Temps \cup {Nothing}, TurnOn(c, l, b, k)
  PROVE  LightInv'
<1> DEFINE call == IF b # Nothing THEN "lightness" ELSE IF k # Nothing THEN TempCall(l) ELSE "onoff"
           q == Command(l, TRUE, b, k, cache[l], call)
           asked == Request(l, TRUE, b, k)
           now == [cache EXCEPT ![l] = asked]
<1>1. /\ LightTypeOK /\ cache \in [Lights -> Shown] /\ cache[l] \in Shown
      /\ cmd[c] = Idle /\ Act({l}) /\ Write({l}, now) /\ cmd' = [Disturbed({l}) EXCEPT ![c] = q]
      /\ UNCHANGED <<ranged, refresh, holder, reply, linked, lamp, spoiled>>
  BY DEF LightInv, LightTypeOK, TurnOn
<1>2. /\ asked \in Shown /\ asked.on = TRUE /\ asked.pivot = cache[l].pivot
      /\ b = Nothing => asked.bri = cache[l].bri
      /\ k = Nothing => asked.temp = cache[l].temp
  <2>1. Temps \subseteq Int
    BY LightsAssumption
  <2>2. QED
    BY <1>1, <2>1 DEF Request, Shown
<1>3. /\ call \in {"onoff", "lightness", "ctl", "temp"}
      /\ call = "lightness" <=> b # Nothing
      /\ call \in {"ctl", "temp"} <=> b = Nothing /\ k # Nothing
  BY DEF TempCall
<1> HIDE DEF call, asked
<1>4. now \in [Lights -> Shown] /\ now[l] = asked /\ \A m \in Lights \ {l} : now[m] = cache[m]
  BY <1>1, <1>2
<1>5. /\ DOMAIN q = {"light", "on", "bri", "temp", "was", "call", "carries", "lit", "answered", "alone"}
      /\ q.light = l /\ q.on = TRUE /\ q.bri = b /\ q.temp = k /\ q.was = cache[l] /\ q.call = call
      /\ q.call \in {"ctl", "temp"} => q.carries = Carries(l, k, cache[l].bri)
      /\ q.lit = FALSE /\ q.answered = TRUE /\ q.alone \in BOOLEAN
      /\ q # Idle /\ Touched(q) = {l} /\ (q.alone => Alone({l})) /\ q.light # Group
  <2>1. Touched([light |-> l]) = {l} /\ l # Group
    BY TouchedIs, NothingIs DEF Touched
  <2>2. /\ DOMAIN q = {"light", "on", "bri", "temp", "was", "call", "carries", "lit", "answered", "alone"}
        /\ q.light = l /\ q.on = TRUE /\ q.bri = b /\ q.temp = k /\ q.was = cache[l] /\ q.call = call
        /\ q.call \in {"ctl", "temp"} => q.carries = Carries(l, k, cache[l].bri)
        /\ q.lit = FALSE /\ q.answered = TRUE /\ q.alone = Alone(Touched([light |-> l]))
    BY DEF Command
  <2> HIDE DEF q
  <2>3. /\ Touched(q) = Touched([light |-> l]) /\ q # Idle /\ q.alone \in BOOLEAN
        /\ q.alone => Alone(Touched(q))
    BY <2>2, CommandIs
  <2>4. QED
    BY <2>1, <2>2, <2>3
<1> HIDE DEF q, now
<1>6. IsCommand(q)
  <2>1. q.call \in {"ctl", "temp"} => q.carries \in [bri : Levels \cup {Mid}, temp : Temps]
    <3>1. cache[l].bri \in Levels \cup {0, Mid, Nothing}
      BY <1>1 DEF Shown
    <3>2. QED
      BY <1>1, <1>3, <1>5, <3>1, CarriesIs
  <2>2. QED
    BY <1>1, <1>3, <1>5, <2>1 DEF IsCommand
<1>7. CommandFits(q)
  BY <1>3, <1>5 DEF CommandFits
<1>8. cache' = now
  BY <1>1 DEF Write
<1>9. LightTypeOK'
  BY <1>1, <1>4, <1>6, StartTypes
<1>10. /\ cache'[l].on = q.on /\ cache'[l].pivot = cache[l].pivot /\ Was(q, l) = cache[l]
       /\ BriDue(q) \/ cache'[l].bri = cache[l].bri
       /\ TempDue(q) \/ cache'[l].temp = cache[l].temp
  BY <1>2, <1>3, <1>4, <1>5, <1>8 DEF Was, BriDue, TempDue
<1>11. LightBooks' /\ Undisturbed' /\ InFlight' /\ Resting'
  <2>1. \A m \in Lights \ {l} : UNCHANGED cache[m]
    BY <1>4, <1>8
  <2>2. q.light # Group => /\ q.call \in {"ctl", "temp"} => q.bri = Nothing
                           /\ q.call = "onoff" => q.temp = Nothing
    BY <1>3, <1>5
  <2>3. \A m \in {l} :
          /\ cache'[m].on = q.on /\ cache'[m].pivot = cache[m].pivot /\ Was(q, m) = cache[m]
          /\ q.light # Group /\ q.call \in {"ctl", "temp"} => q.carries = Carries(m, q.temp, cache[m].bri)
          /\ BriDue(q) \/ cache'[m].bri = cache[m].bri
          /\ TempDue(q) \/ cache'[m].temp = cache[m].temp
          /\ q.light = Group /\ q.bri # Nothing /\ Dims(m) => cache'[m].bri = q.bri
    BY <1>5, <1>10
  <2>4. ~ q.lit /\ UNCHANGED <<holder, reply, lamp, spoiled, refresh>>
    BY <1>1, <1>5
  <2>5. QED
    BY <1>1, <1>5, <1>7, <2>1, <2>2, <2>3, <2>4, StartKeepsLights
<1>12. QED
  BY <1>9, <1>11 DEF LightInv

LEMMA TurnOffKeeps ==
  ASSUME LightInv, NEW c \in Commands, NEW l \in Lights, TurnOff(c, l)
  PROVE  LightInv'
<1> DEFINE q == Command(l, FALSE, Nothing, Nothing, cache[l], "onoff")
           now == [cache EXCEPT ![l].on = FALSE]
<1>1. /\ LightTypeOK /\ cache \in [Lights -> Shown] /\ cache[l] \in Shown
      /\ cmd[c] = Idle /\ Act({l}) /\ Write({l}, now) /\ cmd' = [Disturbed({l}) EXCEPT ![c] = q]
      /\ UNCHANGED <<ranged, refresh, holder, reply, linked, lamp, spoiled>>
  BY DEF LightInv, LightTypeOK, TurnOff
<1>2. /\ now \in [Lights -> Shown] /\ \A m \in Lights \ {l} : now[m] = cache[m]
      /\ now[l].on = FALSE /\ now[l].bri = cache[l].bri /\ now[l].temp = cache[l].temp
      /\ now[l].pivot = cache[l].pivot
  BY <1>1 DEF Shown
<1>3. /\ DOMAIN q = {"light", "on", "bri", "temp", "was", "call", "carries", "lit", "answered", "alone"}
      /\ q.light = l /\ q.on = FALSE /\ q.bri = Nothing /\ q.temp = Nothing /\ q.was = cache[l]
      /\ q.call = "onoff" /\ q.lit = FALSE /\ q.answered = TRUE /\ q.alone \in BOOLEAN
      /\ q # Idle /\ Touched(q) = {l} /\ (q.alone => Alone({l})) /\ q.light # Group
  <2>1. Touched([light |-> l]) = {l} /\ l # Group
    BY TouchedIs, NothingIs DEF Touched
  <2>2. /\ DOMAIN q = {"light", "on", "bri", "temp", "was", "call", "carries", "lit", "answered", "alone"}
        /\ q.light = l /\ q.on = FALSE /\ q.bri = Nothing /\ q.temp = Nothing /\ q.was = cache[l]
        /\ q.call = "onoff"
        /\ q.lit = FALSE /\ q.answered = TRUE /\ q.alone = Alone(Touched([light |-> l]))
    BY DEF Command
  <2> HIDE DEF q
  <2>3. /\ Touched(q) = Touched([light |-> l]) /\ q # Idle /\ q.alone \in BOOLEAN
        /\ q.alone => Alone(Touched(q))
    BY <2>2, CommandIs
  <2>4. QED
    BY <2>1, <2>2, <2>3
<1> HIDE DEF q, now
<1>4. IsCommand(q) /\ CommandFits(q)
  BY <1>1, <1>3 DEF IsCommand, CommandFits
<1>5. cache' = now
  BY <1>1 DEF Write
<1>6. LightTypeOK'
  BY <1>1, <1>2, <1>4, StartTypes
<1>7. /\ cache'[l].on = q.on /\ cache'[l].pivot = cache[l].pivot /\ Was(q, l) = cache[l]
      /\ cache'[l].bri = cache[l].bri /\ cache'[l].temp = cache[l].temp
  BY <1>2, <1>3, <1>5 DEF Was
<1>8. LightBooks' /\ Undisturbed' /\ InFlight' /\ Resting'
  <2>1. \A m \in Lights \ {l} : UNCHANGED cache[m]
    BY <1>2, <1>5
  <2>2. q.light # Group => /\ q.call \in {"ctl", "temp"} => q.bri = Nothing
                           /\ q.call = "onoff" => q.temp = Nothing
    BY <1>3
  <2>3. \A m \in {l} :
          /\ cache'[m].on = q.on /\ cache'[m].pivot = cache[m].pivot /\ Was(q, m) = cache[m]
          /\ q.light # Group /\ q.call \in {"ctl", "temp"} => q.carries = Carries(m, q.temp, cache[m].bri)
          /\ BriDue(q) \/ cache'[m].bri = cache[m].bri
          /\ TempDue(q) \/ cache'[m].temp = cache[m].temp
          /\ q.light = Group /\ q.bri # Nothing /\ Dims(m) => cache'[m].bri = q.bri
    BY <1>3, <1>7
  <2>4. ~ q.lit /\ UNCHANGED <<holder, reply, lamp, spoiled, refresh>>
    BY <1>1, <1>3
  <2>5. QED
    BY <1>1, <1>3, <1>4, <2>1, <2>2, <2>3, <2>4, StartKeepsLights
<1>9. QED
  BY <1>6, <1>8 DEF LightInv

LEMMA GroupTurnKeeps ==
  ASSUME LightInv, NEW c \in Commands, NEW on \in BOOLEAN, NEW b \in Levels \cup {Nothing}, GroupTurn(c, on, b)
  PROVE  LightInv'
<1> DEFINE call == FirstGroupCall(b)
           q == Command(Group, on, b, Nothing, cache, call)
           now == Pushed(on, b)
<1>1. /\ LightTypeOK /\ cache \in [Lights -> Shown] /\ cmd[c] = Idle /\ Act(Grouped) /\ Write(Grouped, now)
      /\ cmd' = [Disturbed(Grouped) EXCEPT ![c] = q] /\ (b # Nothing => on)
      /\ UNCHANGED <<ranged, refresh, holder, reply, linked, lamp, spoiled>>
  BY DEF LightInv, LightTypeOK, GroupTurn
<1>2. /\ now \in [Lights -> Shown] /\ \A l \in Lights \ Grouped : now[l] = cache[l]
      /\ \A l \in Lights \cap Grouped :
           /\ now[l].on = on /\ now[l].temp = cache[l].temp /\ now[l].pivot = cache[l].pivot
           /\ b # Nothing /\ Dims(l) => now[l].bri = b
  <2>1. \A l \in Lights \ Grouped : now[l] = cache[l]
    BY DEF Pushed
  <2>2. ASSUME NEW l \in Lights \cap Grouped
        PROVE  /\ now[l] \in Shown /\ now[l].on = on /\ now[l].temp = cache[l].temp
               /\ now[l].pivot = cache[l].pivot
               /\ b # Nothing /\ Dims(l) => now[l].bri = b
    <3> DEFINE x == IF Dims(l) THEN b ELSE Nothing
    <3>1. now[l] = Request(l, on, x, Nothing) /\ cache[l] \in Shown
      BY <1>1, <2>2 DEF Pushed
    <3>2. x \in Levels \cup {Nothing} /\ (Dims(l) => x = b)
      OBVIOUS
    <3> HIDE DEF x
    <3>3. /\ Request(l, on, x, Nothing) \in Shown /\ Request(l, on, x, Nothing).on = on
          /\ Request(l, on, x, Nothing).temp = cache[l].temp
          /\ Request(l, on, x, Nothing).pivot = cache[l].pivot
          /\ x # Nothing => Request(l, on, x, Nothing).bri = x
      BY <3>1, <3>2 DEF Request, Shown
    <3> HIDE DEF now
    <3>4. QED
      BY <3>1, <3>2, <3>3
  <2>3. \A l \in Lights : now[l] \in Shown
    BY <1>1, <2>1, <2>2
  <2>4. DOMAIN now = Lights /\ now = [l \in Lights |-> now[l]]
    BY DEF Pushed
  <2> HIDE DEF now
  <2>5. QED
    BY <2>1, <2>2, <2>3, <2>4
<1>3. call \in {"onoff", "lightness"} /\ (call = "lightness" => b # Nothing /\ ~ GroupSwitches)
  BY DEF FirstGroupCall
<1> HIDE DEF call, now
<1>4. /\ DOMAIN q = {"light", "on", "bri", "temp", "was", "call", "carries", "lit", "answered", "alone"}
      /\ q.light = Group /\ q.on = on /\ q.bri = b /\ q.temp = Nothing /\ q.was = cache
      /\ q.call = call /\ q.lit = FALSE /\ q.answered = TRUE /\ q.alone \in BOOLEAN
      /\ q # Idle /\ Touched(q) = Grouped /\ (q.alone => Alone(Grouped))
  <2>1. Touched([light |-> Group]) = Grouped
    BY DEF Touched
  <2>2. /\ DOMAIN q = {"light", "on", "bri", "temp", "was", "call", "carries", "lit", "answered", "alone"}
        /\ q.light = Group /\ q.on = on /\ q.bri = b /\ q.temp = Nothing /\ q.was = cache /\ q.call = call
        /\ q.lit = FALSE /\ q.answered = TRUE /\ q.alone = Alone(Touched([light |-> Group]))
    BY DEF Command
  <2> HIDE DEF q
  <2>3. /\ Touched(q) = Touched([light |-> Group]) /\ q # Idle /\ q.alone \in BOOLEAN
        /\ q.alone => Alone(Touched(q))
    BY <2>2, CommandIs
  <2>4. QED
    BY <2>1, <2>2, <2>3
<1> HIDE DEF q
<1>5. IsCommand(q)
  BY <1>1, <1>3, <1>4 DEF IsCommand
<1>6. CommandFits(q)
  BY <1>1, <1>3, <1>4, LightsAssumption DEF CommandFits, GroupSwitches
<1>7. cache' = now
  BY <1>1 DEF Write
<1>8. LightTypeOK'
  BY <1>1, <1>2, <1>5, StartTypes
<1>9. \A l \in Grouped :
        /\ cache'[l].on = q.on /\ cache'[l].pivot = cache[l].pivot /\ Was(q, l) = cache[l]
        /\ BriDue(q) \/ cache'[l].bri = cache[l].bri
        /\ cache'[l].temp = cache[l].temp
        /\ q.light = Group /\ q.bri # Nothing /\ Dims(l) => cache'[l].bri = q.bri
  BY <1>2, <1>4, <1>7, LightsAssumption DEF Was, BriDue
<1>10. LightBooks' /\ Undisturbed' /\ InFlight' /\ Resting'
  <2>1. \A m \in Lights \ Grouped : UNCHANGED cache[m]
    BY <1>2, <1>7
  <2>2. /\ cmd[c] = Idle /\ cmd' = [Disturbed(Grouped) EXCEPT ![c] = q]
        /\ UNCHANGED <<holder, reply, lamp, spoiled, refresh>>
    BY <1>1
  <2>3. /\ q # Idle /\ CommandFits(q) /\ Touched(q) = Grouped /\ (q.alone => Alone(Grouped))
        /\ ~ q.lit /\ q.light = Group
    BY <1>4, <1>6
  <2>4. \A l \in Grouped :
          /\ cache'[l].on = q.on /\ cache'[l].pivot = cache[l].pivot /\ Was(q, l) = cache[l]
          /\ q.light # Group /\ q.call \in {"ctl", "temp"} => q.carries = Carries(l, q.temp, cache[l].bri)
          /\ BriDue(q) \/ cache'[l].bri = cache[l].bri
          /\ TempDue(q) \/ cache'[l].temp = cache[l].temp
          /\ q.light = Group /\ q.bri # Nothing /\ Dims(l) => cache'[l].bri = q.bri
    BY <1>9, <2>3
  <2>5. q.light # Group => /\ q.call \in {"ctl", "temp"} => q.bri = Nothing
                           /\ q.call = "onoff" => q.temp = Nothing
    BY <2>3
  <2>6. QED
    BY <2>1, <2>2, <2>3, <2>4, <2>5, StartKeepsLights
<1>11. QED
  BY <1>8, <1>10 DEF LightInv

----------------------------------------------------------------------------
(***************************************************************************)
(* The calls of a light's command.                                         *)
(***************************************************************************)

LEMMA LightCommandIs ==
  ASSUME LightInv, NEW c \in Commands, cmd[c].light \in Lights \cup {Group}
  PROVE  /\ cmd[c] # Idle /\ IsCommand(cmd[c]) /\ CommandFits(cmd[c])
         /\ cmd[c].light \in Lights =>
              cmd[c].light # Group /\ Touched(cmd[c]) = {cmd[c].light} /\ cmd[c].was \in Shown
         /\ cmd[c].light = Group => Touched(cmd[c]) = Grouped /\ cmd[c].was \in [Lights -> Shown]
<1>1. Idle.light = Nothing
  BY DEF Idle
<1>2. cmd[c] # Idle
  BY <1>1, NothingIs
<1>3. IsCommand(cmd[c]) /\ CommandFits(cmd[c])
  BY <1>2 DEF LightInv, LightTypeOK, LightBooks, CommandsFit
<1>4. QED
  BY <1>2, <1>3, TouchedIs, NothingIs DEF IsCommand

LEMMA ChangesIs ==
  ASSUME NEW call \in {"onoff", "lightness", "ctl", "temp"}
  PROVE  /\ Changes(call) \subseteq Attributes
         /\ "on" \in Changes(call) <=> call # "temp"
         /\ "bri" \in Changes(call) <=> call # "temp"
         /\ "temp" \in Changes(call) <=> call \in {"ctl", "temp"}
BY DEF Changes, Attributes

\* A Set, obeyed or lost, leaves what an undisturbed command falls back to as true as
\* it was, where the Set does not reach.
LEMMA SetLeaves ==
  ASSUME LightInv, NEW c \in Commands, NEW l \in Lights, cmd[c].light = l, LeftAlone(cmd[c], l),
         UNCHANGED <<cache[l], cmd[c]>>, spoiled'[l] = spoiled[l] \cup Changes(cmd[c].call),
         lamp'[l] = lamp[l] \/ SetMakes(cmd[c], l, lamp'[l])
  PROVE  LeftAlone(cmd[c], l)'
<1> DEFINE q == cmd[c]
<1>1. /\ IsCommand(q) /\ CommandFits(q) /\ q.light # Group
      /\ q.call \in {"onoff", "lightness", "ctl", "temp"}
  BY LightCommandIs DEF IsCommand
<1>2. FallsBackTo(cmd[c], l)' = FallsBackTo(cmd[c], l)
  BY DEF FallsBackTo, BriDue, TempDue, Was
<1>3. /\ q.call \in {"onoff", "lightness"} => lamp'[l].temp = lamp[l].temp
      /\ q.call = "temp" => lamp'[l].on = lamp[l].on /\ lamp'[l].level = lamp[l].level
  BY DEF SetMakes
<1>4. /\ "on" \notin spoiled'[l] => q.call = "temp" /\ "on" \notin spoiled[l]
      /\ "bri" \notin spoiled'[l] => q.call = "temp" /\ "bri" \notin spoiled[l]
      /\ "temp" \notin spoiled'[l] => q.call \in {"onoff", "lightness"} /\ "temp" \notin spoiled[l]
  BY <1>1, ChangesIs
<1>5. ShowsTrue(l, FallsBackTo(cmd[c], l))'
  <2> DEFINE x == FallsBackTo(cmd[c], l)
  <2>1. ShowsTrue(l, x) /\ x' = x
    BY <1>2 DEF LeftAlone
  <2> HIDE DEF x
  <2>2. ShowsTrue(l, x)'
    BY <1>3, <1>4, <2>1 DEF ShowsTrue, Kelvin
  <2>3. QED
    BY <2>2 DEF x
<1>6. ASSUME q.answered, q.call \in {"ctl", "temp"}, q.bri # Nothing
      PROVE  cache[l].bri = q.bri /\ lamp'[l].on = TRUE /\ lamp'[l].level = q.bri
  <2>1. cache[l].bri = q.bri /\ lamp[l].on = TRUE /\ lamp[l].level = q.bri
    BY <1>1, <1>6 DEF LeftAlone
  <2>2. q.carries.bri = cache[l].bri
    <3>1. q.carries = Carries(l, q.temp, cache[l].bri) /\ q.temp \in Temps /\ q.bri \in Levels
      BY <1>1, <1>6 DEF LeftAlone, IsCommand, CommandFits
    <3>2. QED
      BY <2>1, <3>1, CarriesIs DEF LightInv
  <2>3. QED
    BY <1>6, <2>1, <2>2 DEF SetMakes
<1>7. ASSUME q.answered, q.call = "onoff", q.temp # Nothing PROVE lamp'[l].temp = Sent(l, q.temp)
  BY <1>1, <1>3, <1>7 DEF LeftAlone
<1>8. /\ cache[l].on = q.on
      /\ q.call \in {"ctl", "temp"} => q.carries = Carries(l, q.temp, cache[l].bri)
  BY <1>1 DEF LeftAlone
<1>9. QED
  BY <1>1, <1>5, <1>6, <1>7, <1>8 DEF LeftAlone, Carries, Sent, Kelvin

LEMMA SendKeeps ==
  ASSUME LightInv, NEW c \in Commands, Send(c)
  PROVE  LightInv'
<1> DEFINE q == cmd[c]  l == cmd[c].light  message == Message(q)
<1>1. /\ l \in Lights /\ l # Group /\ Touched(q) = {l} /\ q # Idle /\ IsCommand(q) /\ CommandFits(q)
      /\ q.call \in {"onoff", "lightness", "ctl", "temp"} /\ LightTypeOK
      /\ c \notin Lights
  BY LightCommandIs, NothingIs DEF Send, IsCommand, LightInv
<1>2. CASE NoLink(c)
  BY <1>1, <1>2, NoLinkKeeps
<1>3. CASE ~ NoLink(c)
  <2>1. /\ Connected(c) /\ UNCHANGED <<ranged, cmd, said>>
        /\ spoiled' = [spoiled EXCEPT ![l] = @ \cup Changes(q.call)]
        /\ \/ lamp' = lamp /\ Silence
           \/ \E x \in After(l, message) :
                /\ lamp' = [lamp EXCEPT ![l] = x]
                /\ Silence \/ \E f \in {Says(x, message.op), Garbled} : Status(message, f)
    BY <1>3 DEF Send
  <2>2. /\ holder' = c /\ cache' = cache /\ written' \in [Lights -> Shown] /\ seen' \in [Lights -> Shown]
        /\ cut' \subseteq Lights
        /\ refresh' \in [Lights -> {"idle", "onoff", "lightness", "range", "temp"}]
    BY <1>1, <2>1, ConnectedIs
  <2>3. lamp \in [Lights -> LampStates] /\ spoiled \in [Lights -> SUBSET Attributes]
    BY <1>1 DEF LightTypeOK, LampStates
  <2>4. /\ spoiled' \in [Lights -> SUBSET Attributes] /\ spoiled'[l] = spoiled[l] \cup Changes(q.call)
        /\ \A m \in Lights \ {l} : spoiled'[m] = spoiled[m]
    BY <1>1, <2>1, <2>3, ChangesIs
  <2> HIDE DEF message
  <2>5. /\ linked' \in BOOLEAN /\ turns' \in 0 .. MaxTurns /\ odds' \in 0 .. MaxOdds
        /\ lamp' \in [Lights -> LampStates] /\ \A m \in Lights \ {l} : lamp'[m] = lamp[m]
        /\ lamp'[l] = lamp[l] \/ SetMakes(q, l, lamp'[l])
        /\ reply' # Nothing =>
             /\ SetMakes(q, l, lamp'[l])
             /\ reply' = Returned(message, Says(lamp'[l], q.call)) /\ message.op = q.call /\ message.set
    <3>1. CASE lamp' = lamp /\ Silence
      <4>1. linked' \in BOOLEAN /\ turns' \in 0 .. MaxTurns /\ odds' \in 0 .. MaxOdds
        BY <1>1, <3>1, LinkAfter
      <4>2. QED
        BY <2>3, <3>1, <4>1 DEF Silence
    <3>2. CASE \E x \in After(l, message) :
                 /\ lamp' = [lamp EXCEPT ![l] = x]
                 /\ Silence \/ \E f \in {Says(x, message.op), Garbled} : Status(message, f)
      <4>1. PICK x \in After(l, message) :
              /\ lamp' = [lamp EXCEPT ![l] = x]
              /\ Silence \/ \E f \in {Says(x, message.op), Garbled} : Status(message, f)
        BY <3>2
      <4>2. linked' \in BOOLEAN /\ turns' \in 0 .. MaxTurns /\ odds' \in 0 .. MaxOdds
        BY <1>1, <4>1, LinkAfter, Zenon
      <4>3. SetMakes(q, l, x) /\ message.op = q.call /\ message.set = TRUE
        BY <1>1, AfterIs DEF message
      <4>4. /\ lamp' \in [Lights -> LampStates] /\ lamp'[l] = x
            /\ \A m \in Lights \ {l} : lamp'[m] = lamp[m]
        BY <1>1, <2>3, <4>1, <4>3 DEF SetMakes
      <4>5. reply' # Nothing => reply' = Returned(message, Says(x, message.op))
        <5> DEFINE S == {Says(x, message.op)}
        <5>1. Silence \/ \E f \in S \cup {Garbled} : Status(message, f)
          BY <4>1
        <5>2. message.op \in {"onoff", "lightness", "ctl", "temp", "range"}
          BY <1>1, <4>3
        <5> HIDE DEF S
        <5>3. reply' # Nothing => \E f \in S : reply' = Returned(message, f)
          BY <5>1, <5>2, StatusIs
        <5>4. QED
          BY <5>3 DEF S
      <4>6. QED
        BY <4>2, <4>3, <4>4, <4>5
    <3>3. QED
      BY <2>1, <3>1, <3>2
  <2>6. LightTypeOK'
    BY <1>1, <2>1, <2>2, <2>4, <2>5 DEF LightTypeOK, IsCommand, Idle, Shown, LampStates
  <2>7. LightBooks' /\ Undisturbed' /\ Resting'
    <3>1. \A m \in Lights \ {l} : Unmoved(m)
      BY <2>2, <2>4, <2>5 DEF Unmoved
    <3>2. \A d \in Commands : d # c =>
            /\ cmd'[d] = Idle <=> cmd[d] = Idle
            /\ Same(cmd[d], cmd'[d]) /\ Touched(cmd'[d]) = Touched(cmd[d])
            /\ cmd'[d].alone => cmd'[d] = cmd[d] /\ Touched(cmd[d]) \cap {l} = {}
      BY <1>1, <2>1, ApartIs DEF Same
    <3>3. \A m \in Touched(cmd'[c]) : cmd'[c].alone => LeftAlone(cmd[c], m)'
      <4>1. SUFFICES ASSUME cmd[c].alone PROVE LeftAlone(cmd[c], l)'
        BY <1>1, <2>1
      <4>2. LeftAlone(cmd[c], l)
        BY <1>1, <4>1 DEF LightInv, Undisturbed
      <4>3. QED
        BY <1>1, <2>1, <2>2, <2>4, <2>5, <4>2, SetLeaves
    <3>5. \A m \in Lights \cap {l} : Commanding(m)' = {} => ShowsTrue(m, cache[m])'
      <4>1. SUFFICES ASSUME NEW m, m = l PROVE Commanding(m)' # {}
        OBVIOUS
      <4>2. c \in {d \in Commands : m \in Touched(cmd'[d])}
        BY <1>1, <2>1, <4>1
      <4>3. QED
        BY <4>2 DEF Commanding, Touched
    <3>6. cmd'[c] = q /\ holder' = c
      BY <2>1, <2>2
    <3>7. QED
      BY <1>1, <3>1, <3>2, <3>3, <3>5, <3>6, StepKeeps
  <2>8. InFlight'
    <3>1. SUFFICES ASSUME reply' # Nothing PROVE AnsweredTrue(cmd[c], l)'
      BY <1>1, <2>1, <2>2 DEF InFlight, Touched
    <3> DEFINE y == lamp'[l]
    <3>2. /\ SetMakes(q, l, y) /\ y \in LampStates /\ message.op = q.call /\ message.set
          /\ reply' = Returned(message, Says(y, message.op))
      BY <2>5, <3>1 DEF SetMakes
    <3>3. /\ q.call = "onoff" => reply' = y.on
          /\ q.call = "lightness" => reply' = IF y.on THEN y.level ELSE 0
          /\ q.call \in {"ctl", "temp"} => reply' = y.temp
      BY <3>2, SaysIs
    <3>4. Changes(q.call) \subseteq spoiled'[l]
      BY <2>4
    <3> HIDE DEF y
    <3>6. /\ q.call = "onoff" => reply' = y.on
          /\ q.call = "lightness" => y.on = TRUE /\ y.level = q.bri /\ reply' = q.bri
          /\ q.call \in {"ctl", "temp"} => reply' = y.temp /\ reply' = q.carries.temp
          /\ q.call = "ctl" => y.on = TRUE /\ y.level = q.carries.bri
      BY <3>2, <3>3 DEF SetMakes
    <3>7. QED
      BY <1>1, <2>1, <3>4, <3>6 DEF AnsweredTrue, Changes, y
  <2>9. QED
    BY <2>6, <2>7, <2>8 DEF LightInv
<1>4. QED
  BY <1>2, <1>3

\* What an answer, or none, makes of what the light shows.
LEMMA SettleIs ==
  ASSUME LightInv, NEW c \in Commands, NEW l \in Lights, cmd[c].light = l,
         reply # Nothing => AnsweredTrue(cmd[c], l),
         NEW x, x = Settle(cmd[c], reply, cache[l]), NEW y, y = Unlit(cmd[c], reply, x)
  PROVE  LET q == cmd[c] IN
         /\ x \in Shown /\ y \in Shown /\ x.pivot = cache[l].pivot /\ y.pivot = cache[l].pivot
         /\ q.call = "onoff" =>
              /\ x = [cache[l] EXCEPT !.on = IF reply = Nothing THEN q.was.on ELSE reply]
              /\ y = x
         /\ q.call # "onoff" => x.on = cache[l].on
         /\ q.call = "lightness" => x.bri = (IF reply = Nothing THEN q.was.bri ELSE reply)
         /\ q.call # "lightness" => x.bri = cache[l].bri
         /\ q.call \in {"ctl", "temp"} =>
              x.temp = IF reply = Nothing THEN q.was.temp ELSE Kelvin(l, reply)
         /\ q.call \notin {"ctl", "temp"} => x.temp = cache[l].temp
         /\ y.bri = x.bri /\ y.temp = x.temp
         /\ q.call # "onoff" => y.on = IF Lit(q, reply) THEN cache[l].on ELSE q.was.on
<1> DEFINE q == cmd[c]
<1>1. /\ IsCommand(q) /\ CommandFits(q) /\ q.was \in Shown /\ cache[l] \in Shown
      /\ q.call \in {"onoff", "lightness", "ctl", "temp"} /\ q.light = l /\ q.light # Group
      /\ lamp[l].on \in BOOLEAN /\ lamp[l].temp \in Temps /\ Kelvin(l, lamp[l].temp) \in Int
  BY LightCommandIs, KelvinIs DEF IsCommand, LightInv, LightTypeOK
<1>2. /\ reply # Nothing /\ q.call = "onoff" => reply \in BOOLEAN
      /\ reply # Nothing /\ q.call = "lightness" => reply \in Levels
      /\ reply # Nothing /\ q.call \in {"ctl", "temp"} => Kelvin(l, reply) \in Int
  BY <1>1, NothingIs DEF AnsweredTrue, CommandFits, IsCommand
<1> HIDE DEF q
<1>3. CASE q.call = "onoff"
  <2>1. x = [cache[l] EXCEPT !.on = IF reply = Nothing THEN q.was.on ELSE reply]
    BY <1>3 DEF Settle, q
  <2>2. y = x
    BY <1>3 DEF Unlit, q
  <2>3. (IF reply = Nothing THEN q.was.on ELSE reply) \in BOOLEAN \cup {Nothing}
    BY <1>1, <1>2, <1>3 DEF Shown
  <2>4. x \in Shown /\ x.bri = cache[l].bri /\ x.temp = cache[l].temp /\ x.pivot = cache[l].pivot
    BY <1>1, <2>1, <2>3 DEF Shown
  <2>5. QED
    BY <1>3, <2>1, <2>2, <2>4 DEF q
<1>4. CASE q.call # "onoff"
  <2>1. x \in Shown /\ x.on = cache[l].on /\ x.pivot = cache[l].pivot
    <3>1. CASE q.call = "lightness"
      BY <1>1, <1>2, <3>1 DEF Settle, Shown, q
    <3>2. CASE q.call \in {"ctl", "temp"}
      BY <1>1, <1>2, <3>2 DEF Settle, Shown, q
    <3>3. QED
      BY <1>1, <1>4, <3>1, <3>2
  <2>2. /\ q.call = "lightness" => x.bri = (IF reply = Nothing THEN q.was.bri ELSE reply)
        /\ q.call # "lightness" => x.bri = cache[l].bri
        /\ q.call \in {"ctl", "temp"} => x.temp = IF reply = Nothing THEN q.was.temp ELSE Kelvin(l, reply)
        /\ q.call \notin {"ctl", "temp"} => x.temp = cache[l].temp
    <3>1. CASE q.call = "lightness"
      BY <1>1, <3>1 DEF Settle, Shown, q
    <3>2. CASE q.call \in {"ctl", "temp"}
      BY <1>1, <3>2 DEF Settle, Shown, q
    <3>3. QED
      BY <1>1, <1>4, <3>1, <3>2
  <2>3. y = IF Lit(q, reply) THEN x ELSE [x EXCEPT !.on = q.was.on]
    BY <1>4 DEF Unlit, q
  <2>4. /\ y \in Shown /\ y.bri = x.bri /\ y.temp = x.temp /\ y.pivot = x.pivot
        /\ y.on = IF Lit(q, reply) THEN cache[l].on ELSE q.was.on
    <3> DEFINE lit == Lit(q, reply)
    <3>1. y = IF lit THEN x ELSE [x EXCEPT !.on = q.was.on]
      BY <2>3
    <3> HIDE DEF lit
    <3>2. /\ y \in Shown /\ y.bri = x.bri /\ y.temp = x.temp /\ y.pivot = x.pivot
          /\ y.on = IF lit THEN cache[l].on ELSE q.was.on
      BY <1>1, <2>1, <3>1 DEF Shown
    <3>3. QED
      BY <3>2 DEF lit
  <2>5. QED
    BY <1>4, <2>1, <2>2, <2>4 DEF q
<1>5. QED
  BY <1>3, <1>4

\* When an undisturbed command ends, its light shows the truth.
LEMMA EndsTrue ==
  ASSUME LightInv, NEW c \in Commands, NEW l \in Lights, cmd[c].light = l,
         reply # Nothing => AnsweredTrue(cmd[c], l), LeftAlone(cmd[c], l), cmd[c].alone,
         NextCall(cmd[c]) = "done", lamp'[l] = lamp[l],
         cache'[l] = Unlit(cmd[c], reply, Settle(cmd[c], reply, cache[l])),
         spoiled'[l] = IF reply # Nothing THEN spoiled[l] \ Vouched(cmd[c]) ELSE spoiled[l]
  PROVE  ShowsTrue(l, cache[l])'
<1> DEFINE q == cmd[c]  x == Settle(cmd[c], reply, cache[l])  y == cache'[l]  f == FallsBackTo(q, l)
<1>1. /\ CommandFits(q) /\ q.was \in Shown /\ q.call \in {"onoff", "lightness", "ctl", "temp"}
      /\ q.light = l /\ q.light # Group /\ q.on \in BOOLEAN /\ q.bri \in Levels \cup {Nothing}
  BY LightCommandIs DEF IsCommand
<1>2. /\ q.call = "onoff" =>
           /\ x = [cache[l] EXCEPT !.on = IF reply = Nothing THEN q.was.on ELSE reply]
           /\ y = x
      /\ q.call = "lightness" => x.bri = (IF reply = Nothing THEN q.was.bri ELSE reply)
      /\ q.call # "lightness" => x.bri = cache[l].bri
      /\ q.call \in {"ctl", "temp"} => x.temp = IF reply = Nothing THEN q.was.temp ELSE Kelvin(l, reply)
      /\ q.call \notin {"ctl", "temp"} => x.temp = cache[l].temp
      /\ y.bri = x.bri /\ y.temp = x.temp /\ y.pivot = cache[l].pivot
      /\ q.call # "onoff" => y.on = IF Lit(q, reply) THEN cache[l].on ELSE q.was.on
  BY SettleIs
<1>3. cache[l] \in Shown /\ cache[l].on = q.on /\ ShowsTrue(l, f)
  BY DEF LeftAlone, LightInv, LightTypeOK
<1>4. /\ f.on = IF q.lit THEN cache[l].on ELSE q.was.on
      /\ f.bri = IF q.call = "lightness" THEN q.was.bri ELSE cache[l].bri
      /\ f.temp = IF q.temp # Nothing /\ q.call # "onoff" THEN q.was.temp ELSE cache[l].temp
  BY <1>1 DEF FallsBackTo, Was, BriDue, TempDue
<1> HIDE DEF q, x, y, f
<1>5. q.call = "lightness" => q.temp = Nothing
  BY DEF NextCall, TempCall, q
<1>6. CASE reply = Nothing
  <2>1. y.on = f.on /\ y.bri = f.bri /\ y.temp = f.temp
    <3>1. CASE q.call = "onoff"
      BY <1>1, <1>2, <1>3, <1>4, <1>6, <3>1 DEF CommandFits, Shown
    <3>2. CASE q.call = "lightness"
      BY <1>1, <1>2, <1>4, <1>5, <1>6, <3>2 DEF CommandFits, Lit
    <3>3. CASE q.call \in {"ctl", "temp"}
      BY <1>1, <1>2, <1>4, <1>6, <3>3 DEF CommandFits, Lit
    <3>4. QED
      BY <1>1, <3>1, <3>2, <3>3
  <2>2. QED
    BY <1>2, <1>3, <1>6, <2>1 DEF ShowsTrue, Kelvin, y
<1>7. CASE reply # Nothing
  <2>1. AnsweredTrue(q, l) /\ q.alone /\ spoiled'[l] = spoiled[l] \ Vouched(q)
    BY <1>7 DEF q
  <2>2. CASE q.call = "onoff"
    <3>1. reply = lamp[l].on /\ {"on", "bri"} \subseteq spoiled[l] /\ Vouched(q) = {"on"}
      BY <1>1, <2>1, <2>2 DEF AnsweredTrue, Vouched, Changes
    <3>2. y = [cache[l] EXCEPT !.on = reply]
      BY <1>2, <1>7, <2>2
    <3>3. y.on = lamp[l].on /\ y.temp = cache[l].temp /\ f.temp = cache[l].temp
      BY <1>3, <1>4, <2>2, <3>1, <3>2 DEF Shown
    <3>4. QED
      BY <1>2, <1>3, <2>1, <3>1, <3>3 DEF ShowsTrue, Kelvin, y
  <2>3. CASE q.call = "lightness"
    <3>1. /\ lamp[l].on = TRUE /\ lamp[l].level = q.bri /\ reply = q.bri /\ Vouched(q) = {"on", "bri"}
      BY <1>1, <2>1, <2>3 DEF AnsweredTrue, Vouched
    <3>2. y.on = q.on /\ q.on = TRUE
      BY <1>1, <1>2, <1>3, <1>7, <2>3 DEF Lit, CommandFits
    <3>3. y.bri = lamp[l].level /\ y.temp = f.temp
      BY <1>2, <1>4, <1>5, <1>7, <2>3, <3>1
    <3>4. QED
      BY <1>2, <1>3, <2>1, <3>1, <3>2, <3>3 DEF ShowsTrue, Kelvin, y
  <2>4. CASE q.call = "ctl"
    <3>1. /\ reply = lamp[l].temp /\ lamp[l].on = TRUE /\ lamp[l].level = q.carries.bri
          /\ "bri" \in spoiled[l]
          /\ Vouched(q) = {"on", "temp"} \cup (IF q.carries.bri = cache[l].bri THEN {"bri"} ELSE {})
      BY <1>1, <2>1, <2>4 DEF AnsweredTrue, Vouched, Changes, Attributes
    <3>2. y.on = q.on /\ q.on = TRUE
      BY <1>1, <1>2, <1>3, <1>7, <2>4 DEF Lit, CommandFits
    <3>3. y.bri = cache[l].bri /\ y.temp = Kelvin(l, lamp[l].temp)
      BY <1>2, <1>7, <2>4, <3>1
    <3>4. "bri" \notin spoiled'[l] => y.bri = lamp[l].level
      BY <2>1, <3>1, <3>3
    <3>5. QED
      BY <1>2, <3>1, <3>2, <3>3, <3>4 DEF ShowsTrue, Kelvin, y
  <2>5. CASE q.call = "temp"
    <3>1. reply = lamp[l].temp /\ Vouched(q) = {"temp"}
      BY <1>1, <2>1, <2>5 DEF AnsweredTrue, Vouched
    <3>2. y.on = f.on /\ y.bri = f.bri /\ y.temp = Kelvin(l, lamp[l].temp)
      BY <1>2, <1>4, <1>7, <2>5, <3>1 DEF Lit
    <3>3. QED
      BY <1>2, <1>3, <2>1, <3>1, <3>2 DEF ShowsTrue, Kelvin, y
  <2>6. QED
    BY <1>1, <2>2, <2>3, <2>4, <2>5
<1>8. QED
  BY <1>6, <1>7

\* The call that follows.
LEMMA NextCallIs ==
  ASSUME NEW q, IsCommand(q), CommandFits(q), q.light \in Lights, NextCall(q) # "done"
  PROVE  \/ q.call = "lightness" /\ q.temp # Nothing /\ NextCall(q) \in {"ctl", "temp"}
         \/ q.call = "temp" /\ q.bri = Nothing /\ q.lit = FALSE /\ NextCall(q) = "onoff"
<1>1. q.lit \in BOOLEAN /\ (q.lit => q.bri # Nothing)
  BY DEF IsCommand, CommandFits
<1>2. QED
  BY <1>1 DEF NextCall, TempCall

\* An undisturbed command goes on to its next call.
LEMMA GoesOn ==
  ASSUME LightInv, NEW c \in Commands, NEW l \in Lights, cmd[c].light = l,
         reply # Nothing => AnsweredTrue(cmd[c], l), LeftAlone(cmd[c], l), cmd[c].alone,
         NextCall(cmd[c]) # "done", lamp'[l] = lamp[l],
         NEW carries, NextCall(cmd[c]) # "onoff" => carries = Carries(l, cmd[c].temp, cache'[l].bri),
         cmd'[c] = [cmd[c] EXCEPT !.call = NextCall(cmd[c]), !.lit = Lit(cmd[c], reply),
                                  !.answered = @ /\ reply # Nothing, !.carries = carries],
         cache'[l] = Settle(cmd[c], reply, cache[l]),
         spoiled'[l] = IF reply # Nothing THEN spoiled[l] \ Vouched(cmd[c]) ELSE spoiled[l]
  PROVE  LeftAlone(cmd[c], l)'
<1> DEFINE q == cmd[c]  x == cache'[l]  f == FallsBackTo(q, l)  r == cmd'[c]  g == FallsBackTo(cmd[c], l)'
           next == NextCall(q)
<1>0. IsCommand(cmd[c]) /\ CommandFits(cmd[c]) /\ cmd[c].light \in Lights
  BY LightCommandIs
<1>1. /\ IsCommand(q) /\ CommandFits(q) /\ q.was \in Shown /\ q.call \in {"onoff", "lightness", "ctl", "temp"}
      /\ q.light = l /\ q.light # Group /\ q.on \in BOOLEAN /\ q.bri \in Levels \cup {Nothing}
  BY LightCommandIs DEF IsCommand
<1>2. /\ q.call # "onoff" => x.on = cache[l].on
      /\ q.call = "lightness" => x.bri = (IF reply = Nothing THEN q.was.bri ELSE reply)
      /\ q.call # "lightness" => x.bri = cache[l].bri
      /\ q.call \in {"ctl", "temp"} => x.temp = IF reply = Nothing THEN q.was.temp ELSE Kelvin(l, reply)
      /\ q.call \notin {"ctl", "temp"} => x.temp = cache[l].temp
      /\ x.pivot = cache[l].pivot
  BY SettleIs
<1>3. /\ cache[l] \in Shown /\ cache[l].on = q.on /\ ShowsTrue(l, f)
      /\ q.light # Group /\ q.call \in {"ctl", "temp"} => q.carries = Carries(l, q.temp, cache[l].bri)
  BY DEF LeftAlone, LightInv, LightTypeOK
<1>4. /\ f.on = IF q.lit THEN cache[l].on ELSE q.was.on
      /\ f.bri = IF q.call = "lightness" THEN q.was.bri ELSE cache[l].bri
      /\ f.temp = IF q.temp # Nothing /\ q.call # "onoff" THEN q.was.temp ELSE cache[l].temp
  BY <1>1 DEF FallsBackTo, Was, BriDue, TempDue
<1>5. \/ q.call = "lightness" /\ q.temp # Nothing /\ next \in {"ctl", "temp"}
      \/ q.call = "temp" /\ q.bri = Nothing /\ q.lit = FALSE /\ next = "onoff"
  BY <1>0, NextCallIs, Zenon
<1>6. /\ r.light = l /\ r.on = q.on /\ r.bri = q.bri /\ r.temp = q.temp /\ r.was = q.was
      /\ r.call = next /\ r.lit = Lit(q, reply) /\ r.alone = q.alone
      /\ r.answered = (q.answered /\ reply # Nothing) /\ r.carries = carries
  BY <1>1 DEF IsCommand
<1>7. /\ g.on = IF r.lit THEN x.on ELSE q.was.on
      /\ g.bri = IF next = "lightness" THEN q.was.bri ELSE x.bri
      /\ g.temp = IF q.temp # Nothing /\ next # "onoff" THEN q.was.temp ELSE x.temp
  BY <1>1, <1>6 DEF FallsBackTo, Was, BriDue, TempDue
<1>8. LeftAlone(cmd[c], l)' =
        ( /\ x.on = r.on
          /\ ShowsTrue(l, FallsBackTo(cmd[c], l))'
          /\ r.light = Group =>
               /\ r.bri # Nothing /\ Dims(l) => x.bri = r.bri
               /\ r.lit /\ r.answered => lamp'[l].on = r.on
          /\ r.light # Group /\ r.call \in {"ctl", "temp"} => r.carries = Carries(l, r.temp, x.bri)
          /\ r.light # Group /\ r.answered =>
               /\ r.call \in {"ctl", "temp"} /\ r.bri # Nothing =>
                    x.bri = r.bri /\ lamp'[l].on = TRUE /\ lamp'[l].level = r.bri
               /\ r.call = "onoff" /\ r.temp # Nothing => lamp'[l].temp = Sent(l, r.temp) )
  BY <1>2 DEF LeftAlone, Carries, Sent, Kelvin, Dims
<1>9. ShowsTrue(l, FallsBackTo(cmd[c], l))' =
        ( /\ "on" \notin spoiled'[l] => g.on = lamp'[l].on
          /\ "bri" \notin spoiled'[l] /\ lamp'[l].on => g.bri = lamp'[l].level
          /\ "temp" \notin spoiled'[l] => g.temp = Kelvin(l, lamp'[l].temp) )
  BY <1>2 DEF ShowsTrue, Kelvin
<1>10. reply # Nothing => AnsweredTrue(q, l) /\ q.alone /\ spoiled'[l] = spoiled[l] \ Vouched(q)
  OBVIOUS
<1>11. /\ lamp'[l] = lamp[l]
       /\ reply = Nothing => spoiled'[l] = spoiled[l]
       /\ next # "onoff" => carries = Carries(l, q.temp, x.bri)
  OBVIOUS
<1> HIDE DEF q, x, f, r, g, next
<1>12. CASE q.call = "lightness" /\ q.temp # Nothing /\ next \in {"ctl", "temp"}
  <2>1. q.lit = FALSE /\ q.on = TRUE
    BY <1>1, <1>12 DEF CommandFits, IsCommand
  <2>2. CASE reply = Nothing
    <3>1. r.lit = FALSE /\ ~ r.answered
      BY <1>6, <2>1, <2>2 DEF Lit
    <3>2. g.on = f.on /\ g.bri = f.bri /\ g.temp = f.temp
      BY <1>2, <1>4, <1>7, <1>12, <2>1, <2>2, <3>1
    <3>3. ShowsTrue(l, FallsBackTo(cmd[c], l))'
      BY <1>3, <1>9, <1>11, <2>2, <3>2 DEF ShowsTrue
    <3>4. QED
      BY <1>1, <1>2, <1>3, <1>6, <1>8, <1>11, <1>12, <3>1, <3>3
  <2>3. CASE reply # Nothing
    <3>1. /\ lamp[l].on = TRUE /\ lamp[l].level = q.bri /\ reply = q.bri /\ Vouched(q) = {"on", "bri"}
      BY <1>1, <1>10, <1>12, <2>3 DEF AnsweredTrue, Vouched
    <3>2. r.lit = TRUE
      BY <1>6, <1>12, <2>3 DEF Lit
    <3>3. g.on = TRUE /\ g.bri = q.bri /\ g.temp = f.temp /\ x.bri = q.bri
      BY <1>2, <1>3, <1>4, <1>7, <1>12, <2>1, <2>3, <3>1, <3>2
    <3>4. ShowsTrue(l, FallsBackTo(cmd[c], l))'
      BY <1>3, <1>9, <1>10, <1>11, <2>3, <3>1, <3>3 DEF ShowsTrue
    <3>5. QED
      BY <1>1, <1>2, <1>3, <1>6, <1>8, <1>11, <1>12, <3>1, <3>3, <3>4
  <2>4. QED
    BY <2>2, <2>3
<1>13. CASE q.call = "temp" /\ q.bri = Nothing /\ q.lit = FALSE /\ next = "onoff"
  <2>1. r.lit = FALSE /\ q.temp # Nothing
    BY <1>1, <1>6, <1>13 DEF Lit, CommandFits
  <2>2. g.on = f.on /\ g.bri = f.bri
    BY <1>2, <1>4, <1>7, <1>13, <2>1
  <2>3. CASE reply = Nothing
    <3>1. g.temp = f.temp /\ ~ r.answered
      BY <1>2, <1>4, <1>6, <1>7, <1>13, <2>1, <2>3
    <3>2. ShowsTrue(l, FallsBackTo(cmd[c], l))'
      BY <1>3, <1>9, <1>11, <2>2, <2>3, <3>1 DEF ShowsTrue
    <3>3. QED
      BY <1>1, <1>2, <1>3, <1>6, <1>8, <1>13, <3>1, <3>2
  <2>4. CASE reply # Nothing
    <3>1. reply = lamp[l].temp /\ reply = Sent(l, q.temp) /\ Vouched(q) = {"temp"}
      <4>1. reply = lamp[l].temp /\ reply = q.carries.temp /\ Vouched(q) = {"temp"}
        BY <1>1, <1>10, <1>13, <2>4 DEF AnsweredTrue, Vouched
      <4>2. q.carries.temp = Sent(l, q.temp)
        BY <1>1, <1>3, <1>13 DEF Carries
      <4>3. QED
        BY <4>1, <4>2
    <3>2. g.temp = Kelvin(l, lamp[l].temp)
      BY <1>2, <1>7, <1>13, <2>4, <3>1
    <3>3. ShowsTrue(l, FallsBackTo(cmd[c], l))'
      BY <1>3, <1>9, <1>10, <1>11, <2>2, <2>4, <3>1, <3>2 DEF ShowsTrue
    <3>4. QED
      BY <1>1, <1>2, <1>3, <1>6, <1>8, <1>11, <1>13, <3>1, <3>3
  <2>5. QED
    BY <2>3, <2>4
<1>14. QED
  BY <1>5, <1>12, <1>13

LEMMA AnswerKeeps ==
  ASSUME LightInv, NEW c \in Commands, Answer(c)
  PROVE  LightInv'
<1>1. PICK l \in Lights : l = cmd[c].light
  BY DEF Answer
<1> DEFINE q == cmd[c]
           next == NextCall(q)
           settled == Settle(q, reply, cache[l])
           done == Unlit(q, reply, settled)
           given == reply # Nothing
           gone == CASE given /\ q.alone -> spoiled[l] \ Vouched(q)
                     [] ~ q.alone -> Attributes [] OTHER -> spoiled[l]
           carries == IF next = "onoff" THEN Nothing ELSE Carries(l, q.temp, settled.bri)
           r == [q EXCEPT !.call = next, !.lit = Lit(q, reply), !.answered = @ /\ given, !.carries = carries]
<1>2. /\ holder = c /\ holder' = Nothing /\ reply' = Nothing
      /\ IF next = "done"
         THEN /\ cmd' = [cmd EXCEPT ![c] = Idle] /\ Write({l}, [cache EXCEPT ![l] = done])
         ELSE /\ cmd' = [cmd EXCEPT ![c] = r] /\ Unwritten([cache EXCEPT ![l] = settled])
      /\ spoiled' = [spoiled EXCEPT ![l] = gone]
      /\ said' = IF ~ given \/ q.call = "temp" THEN said
                 ELSE [said EXCEPT ![l] = @ \cup {IF q.call = "onoff" THEN reply ELSE TRUE}]
      /\ UNCHANGED <<ranged, refresh, linked, lamp, turns, odds>>
  BY <1>1 DEF Answer, acts
<1>3. /\ LightTypeOK /\ Touched(q) = {l} /\ q # Idle /\ IsCommand(q) /\ CommandFits(q) /\ q.was \in Shown
      /\ q.call \in {"onoff", "lightness", "ctl", "temp"} /\ q.light = l /\ q.light # Group
      /\ cache \in [Lights -> Shown] /\ spoiled \in [Lights -> SUBSET Attributes]
      /\ q.alone \in BOOLEAN /\ q.lit \in BOOLEAN /\ q.answered \in BOOLEAN
  BY <1>1, LightCommandIs DEF IsCommand, LightInv, LightTypeOK
<1>4. given => AnsweredTrue(q, l)
  BY <1>2, <1>3 DEF LightInv, InFlight
<1>5. settled \in Shown /\ done \in Shown
  BY <1>1, <1>4, SettleIs
<1>19. next # "onoff" => carries = Carries(l, q.temp, settled.bri)
  OBVIOUS
<1>6. /\ gone \subseteq Attributes
      /\ given /\ q.alone => gone = spoiled[l] \ Vouched(q)
      /\ ~ q.alone => gone = Attributes
      /\ ~ given /\ q.alone => gone = spoiled[l]
  BY <1>3
<1>7. next # "done" => /\ IsCommand(r) /\ CommandFits(r) /\ r # Idle /\ r.light = q.light
                       /\ r.alone = q.alone /\ Touched(r) = {l}
  <2>1. SUFFICES ASSUME next # "done" PROVE /\ IsCommand(r) /\ CommandFits(r) /\ r # Idle /\ r.light = q.light
                                            /\ r.alone = q.alone /\ Touched(r) = {l}
    OBVIOUS
  <2>2. \/ q.call = "lightness" /\ q.temp # Nothing /\ next \in {"ctl", "temp"}
        \/ q.call = "temp" /\ q.bri = Nothing /\ q.lit = FALSE /\ next = "onoff"
    BY <1>3, <2>1, NextCallIs
  <2> HIDE DEF next, carries, settled
  <2>3. /\ DOMAIN r = DOMAIN q /\ r.light = l /\ r.on = q.on /\ r.bri = q.bri /\ r.temp = q.temp
        /\ r.was = q.was /\ r.call = next /\ r.lit = Lit(q, reply) /\ r.alone = q.alone
        /\ r.answered = (q.answered /\ given) /\ r.carries = carries
    BY <1>3 DEF IsCommand
  <2>4. Lit(q, reply) \in BOOLEAN /\ (q.answered /\ given) \in BOOLEAN
    BY DEF Lit
  <2> HIDE DEF r, given
  <2>5. IsCommand(r)
    <3>1. settled.bri \in Levels \cup {0, Mid, Nothing} /\ (q.temp # Nothing => q.temp \in Temps)
      BY <1>3, <1>5 DEF Shown, IsCommand
    <3>2. r.call \in {"ctl", "temp"} => r.carries \in [bri : Levels \cup {Mid}, temp : Temps]
      BY <1>3, <1>19, <2>2, <2>3, <3>1, CarriesIs
    <3>3. QED
      BY <1>3, <2>2, <2>3, <2>4, <3>2 DEF IsCommand
  <2>6. CASE q.call = "lightness" /\ q.temp # Nothing /\ next \in {"ctl", "temp"}
    <3>1. CommandFits(r)
      BY <1>3, <2>3, <2>6 DEF CommandFits
    <3>2. QED
      BY <1>3, <2>3, <2>5, <3>1, TouchedIs DEF IsCommand, Idle
  <2>7. CASE q.call = "temp" /\ q.bri = Nothing /\ q.lit = FALSE /\ next = "onoff"
    <3>1. r.lit = FALSE
      BY <2>3, <2>7 DEF Lit
    <3>2. CommandFits(r)
      BY <1>3, <2>3, <2>7, <3>1 DEF CommandFits
    <3>3. QED
      BY <1>3, <2>3, <2>5, <3>2, TouchedIs DEF IsCommand, Idle
  <2>8. QED
    BY <2>2, <2>6, <2>7
<1>8. given /\ q.call # "temp" => (IF q.call = "onoff" THEN reply ELSE TRUE) \in BOOLEAN
  <2>1. lamp[l].on \in BOOLEAN
    BY <1>3 DEF LightTypeOK
  <2>2. QED
    BY <1>3, <1>4, <2>1 DEF AnsweredTrue
<1> HIDE DEF q, next, settled, done, given, gone, carries, r
<1>9. /\ cache' \in [Lights -> Shown] /\ written' \in [Lights -> Shown] /\ seen' \in [Lights -> Shown]
      /\ cut' \subseteq Lights
      /\ next = "done" => cache'[l] = done
      /\ next # "done" => cache'[l] = settled
      /\ \A m \in Lights \ {l} : cache'[m] = cache[m]
  <2>1. CASE next = "done"
    <3> DEFINE now == [cache EXCEPT ![l] = done]
    <3>1. now \in [Lights -> Shown] /\ now[l] = done /\ \A m \in Lights \ {l} : now[m] = cache[m]
      BY <1>3, <1>5
    <3>2. Write({l}, now)
      BY <1>2, <2>1
    <3> HIDE DEF now
    <3>3. QED
      BY <1>3, <2>1, <3>1, <3>2, WriteIs
  <2>2. CASE next # "done"
    BY <1>2, <1>3, <1>5, <2>2 DEF Unwritten, LightTypeOK
  <2>3. QED
    BY <2>1, <2>2
<1>10. /\ spoiled' \in [Lights -> SUBSET Attributes] /\ spoiled'[l] = gone
       /\ \A m \in Lights \ {l} : spoiled'[m] = spoiled[m]
  BY <1>2, <1>3, <1>6
<1>11. /\ DOMAIN cmd' = Commands /\ \A d \in Commands \ {c} : cmd'[d] = cmd[d]
       /\ cmd'[c] = IF next = "done" THEN Idle ELSE r
  BY <1>2, <1>3 DEF LightTypeOK
<1>12. LightTypeOK'
  <2>1. \A d \in Commands : cmd'[d] = Idle \/ IsCommand(cmd'[d])
    BY <1>3, <1>7, <1>11 DEF LightTypeOK
  <2>2. said' \in [Lights -> SUBSET (BOOLEAN \cup {Nothing})]
    BY <1>2, <1>3, <1>8 DEF LightTypeOK
  <2>3. QED
    BY <1>2, <1>3, <1>9, <1>10, <1>11, <2>1, <2>2 DEF LightTypeOK, IsCommand, Idle, Shown
<1>13. \A m \in Lights \ {l} : Unmoved(m)
  BY <1>2, <1>9, <1>10 DEF Unmoved
<1>14. q.alone => LeftAlone(q, l)
  BY <1>3 DEF LightInv, Undisturbed, q
<1>15. next = "done" => ShowsTrue(l, cache[l])'
  <2>1. SUFFICES ASSUME next = "done" PROVE ShowsTrue(l, cache[l])'
    OBVIOUS
  <2>2. CASE ~ q.alone
    BY <1>6, <1>10, <2>2 DEF ShowsTrue, Attributes
  <2>3. CASE q.alone
    <3>1. spoiled'[l] = IF reply # Nothing THEN spoiled[l] \ Vouched(q) ELSE spoiled[l]
      BY <1>6, <1>10, <2>3 DEF given
    <3>2. lamp'[l] = lamp[l] /\ cache'[l] = Unlit(cmd[c], reply, Settle(cmd[c], reply, cache[l]))
      BY <1>2, <1>9, <2>1 DEF done, settled, q
    <3>3. QED
      BY <1>1, <1>4, <1>14, <2>1, <2>3, <3>1, <3>2, EndsTrue DEF q, given, next
  <2>4. QED
    BY <2>2, <2>3
<1>16. next # "done" /\ q.alone => LeftAlone(cmd[c], l)'
  <2>1. SUFFICES ASSUME next # "done", q.alone PROVE LeftAlone(cmd[c], l)'
    OBVIOUS
  <2>2. spoiled'[l] = IF reply # Nothing THEN spoiled[l] \ Vouched(q) ELSE spoiled[l]
    BY <1>6, <1>10, <2>1 DEF given
  <2>3. lamp'[l] = lamp[l] /\ cache'[l] = Settle(cmd[c], reply, cache[l])
    BY <1>2, <1>9, <2>1 DEF settled, q
  <2>4. cmd'[c] = [cmd[c] EXCEPT !.call = NextCall(cmd[c]), !.lit = Lit(cmd[c], reply),
                                 !.answered = @ /\ reply # Nothing, !.carries = carries]
    BY <1>11, <2>1 DEF r, q, next, given
  <2>5. NextCall(cmd[c]) # "onoff" => carries = Carries(l, cmd[c].temp, cache'[l].bri)
    BY <1>9, <1>19, <2>1 DEF q, next
  <2>6. QED
    BY <1>1, <1>4, <1>14, <2>1, <2>2, <2>3, <2>4, <2>5, GoesOn DEF q, given, next
<1>17. LightBooks' /\ Undisturbed' /\ Resting'
  <2>1. \A d \in Commands : d # c =>
          /\ cmd'[d] = Idle <=> cmd[d] = Idle
          /\ Same(cmd[d], cmd'[d]) /\ Touched(cmd'[d]) = Touched(cmd[d])
          /\ cmd'[d].alone => cmd'[d] = cmd[d] /\ Touched(cmd[d]) \cap {l} = {}
    BY <1>3, <1>11, ApartIs DEF Same, q
  <2>2. Touched(cmd[c]) = {l} /\ cmd[c] # Idle /\ cmd[c].alone = q.alone
    BY <1>3 DEF q
  <2>3. \A m \in Lights \cap {l} : Commanding(m)' = {} => ShowsTrue(m, cache[m])'
    <3>1. CASE next = "done"
      BY <1>15, <3>1
    <3>2. CASE next # "done"
      <4>1. c \in {d \in Commands : l \in Touched(cmd'[d])}
        BY <1>7, <1>11, <3>2
      <4>2. QED
        BY <4>1 DEF Commanding, Touched
    <3>3. QED
      BY <3>1, <3>2
  <2>4. \/ cmd'[c] = Idle /\ Touched(cmd[c]) \subseteq {l}
        \/ /\ cmd'[c] # Idle /\ cmd[c] # Idle /\ CommandFits(cmd'[c]) /\ Touched(cmd'[c]) = Touched(cmd[c])
           /\ cmd'[c].alone = cmd[c].alone
           /\ \A m \in Touched(cmd'[c]) : cmd'[c].alone => LeftAlone(cmd[c], m)'
    BY <1>7, <1>11, <1>16, <2>2
  <2>5. holder' \notin Commands
    BY <1>2, NothingIs
  <2>6. QED
    BY <1>13, <2>1, <2>3, <2>4, <2>5, StepKeeps
<1>18. QED
  BY <1>2, <1>12, <1>17, NoneInFlight DEF LightInv

----------------------------------------------------------------------------
(***************************************************************************)
(* The calls of the group's command.                                       *)
(***************************************************************************)

LEMMA GroupHeardIs ==
  ASSUME LightTypeOK, NEW q, IsCommand(q), CommandFits(q), q.light = Group, NEW l \in Lights
  PROVE  LET y == GroupHeard(q, l) IN
         /\ y \in LampStates /\ y.temp = lamp[l].temp /\ q.call \in {"onoff", "lightness"}
         /\ q.call = "onoff" => y.on = q.on
         /\ q.call = "lightness" /\ Dims(l) => y.on = TRUE /\ y.level = q.bri
         /\ q.call = "lightness" /\ ~ Dims(l) => y = lamp[l]
<1> DEFINE y == GroupHeard(q, l)
<1>1. /\ lamp[l] \in LampStates /\ q.on \in BOOLEAN /\ q.call \in {"onoff", "lightness"}
      /\ q.call = "lightness" => q.bri \in Levels \cup {Mid}
  BY NothingIs DEF LightTypeOK, LampStates, IsCommand, CommandFits
<1>2. CASE q.call = "onoff"
  <2>1. Message(q) = OnOffSet(q.on, q.light # Group)
    BY <1>2 DEF Message
  <2>2. Message(q).op = "onoff" /\ Message(q).on = q.on
    BY <2>1 DEF OnOffSet
  <2>3. y = Switched(lamp[l], q.on)
    BY <1>2, <2>2 DEF Hears, GroupHeard
  <2> HIDE DEF y
  <2>4. y \in LampStates /\ y.on = q.on /\ y.temp = lamp[l].temp
    BY <1>1, <2>3, SwitchedIs
  <2>5. QED
    BY <1>2, <2>4 DEF y
<1>3. CASE q.call = "lightness" /\ Dims(l)
  <2>1. Message(q) = LightnessSet(q.bri, q.light # Group)
    BY <1>3 DEF Message
  <2>2. Message(q).op = "lightness" /\ Message(q).bri = q.bri
    BY <2>1 DEF LightnessSet
  <2>3. y = Dimmed(lamp[l], q.bri)
    BY <1>3, <2>2 DEF Hears, GroupHeard
  <2> HIDE DEF y
  <2>4. q.bri \in Levels \cup {Mid}
    BY <1>1, <1>3
  <2> DEFINE z == Dimmed(lamp[l], q.bri)
  <2>5. z \in LampStates /\ z.on = TRUE /\ z.level = q.bri /\ z.temp = lamp[l].temp
    BY <1>1, <2>4, DimmedIs
  <2> HIDE DEF z
  <2>6. y = z
    BY <2>3 DEF z
  <2>7. y \in LampStates /\ y.on = TRUE /\ y.level = q.bri /\ y.temp = lamp[l].temp
    BY <2>5, <2>6, Zenon
  <2>8. QED
    BY <1>3, <2>7 DEF y
<1>4. CASE q.call = "lightness" /\ ~ Dims(l)
  BY <1>1, <1>4 DEF GroupHeard
<1>5. QED
  BY <1>1, <1>2, <1>3, <1>4

LEMMA SendGroupKeeps ==
  ASSUME LightInv, NEW c \in Commands, SendGroup(c)
  PROVE  LightInv'
<1> DEFINE q == cmd[c]
<1>1. /\ Touched(q) = Grouped /\ q # Idle /\ IsCommand(q) /\ CommandFits(q) /\ q.light = Group
      /\ q.call \in {"onoff", "lightness"} /\ q.on \in BOOLEAN /\ q.alone \in BOOLEAN /\ q.answered \in BOOLEAN
      /\ LightTypeOK /\ c \notin Lights /\ Grouped \subseteq Lights /\ Group \notin Lights
  BY LightCommandIs, NothingIs, LightsAssumption DEF SendGroup, IsCommand, LightInv
<1>2. CASE NoLink(c)
  BY <1>1, <1>2, NoLinkKeeps
<1>3. CASE ~ NoLink(c)
  <2>1. PICK reached \in SUBSET Grouped :
          /\ lamp' = [l \in Lights |-> IF l \in reached THEN GroupHeard(q, l) ELSE lamp[l]]
          /\ cmd' = [cmd EXCEPT ![c].answered = @ /\ reached = Grouped]
    BY <1>3 DEF SendGroup
  <2>2. /\ Connected(c) /\ linked' \in BOOLEAN /\ UNCHANGED <<ranged, said>> /\ (UNCHANGED acts \/ Odd)
        /\ spoiled' = [l \in Lights |-> spoiled[l] \cup (IF l \in Grouped THEN {"on", "bri"} ELSE {})]
    BY <1>3 DEF SendGroup
  <2>3. /\ holder' = c /\ cache' = cache /\ written' \in [Lights -> Shown] /\ seen' \in [Lights -> Shown]
        /\ cut' \subseteq Lights
        /\ refresh' \in [Lights -> {"idle", "onoff", "lightness", "range", "temp"}]
    BY <1>1, <2>2, ConnectedIs
  <2> DEFINE r == cmd'[c]
  <2>4. /\ DOMAIN cmd' = Commands /\ \A d \in Commands \ {c} : cmd'[d] = cmd[d]
        /\ r = [q EXCEPT !.answered = q.answered /\ reached = Grouped]
    BY <1>1, <2>1 DEF LightTypeOK
  <2>5. /\ r.light = Group /\ r.on = q.on /\ r.bri = q.bri /\ r.temp = q.temp /\ r.was = q.was
        /\ r.call = q.call /\ r.lit = q.lit /\ r.alone = q.alone /\ DOMAIN r = DOMAIN q
        /\ r.answered = (q.answered /\ reached = Grouped)
    BY <1>1, <2>4 DEF IsCommand
  <2> HIDE DEF r
  <2>6. IsCommand(r) /\ CommandFits(r) /\ r # Idle /\ Touched(r) = Grouped
    <3>1. r.answered \in BOOLEAN
      BY <2>5
    <3>2. IsCommand(r)
      BY <1>1, <2>5, <3>1 DEF IsCommand
    <3>3. CommandFits(r)
      BY <1>1, <2>5 DEF CommandFits
    <3>4. r # Idle
      BY <3>2 DEF IsCommand, Idle
    <3>5. QED
      BY <2>5, <3>2, <3>3, <3>4, TouchedIs
  <2>7. /\ lamp \in [Lights -> LampStates] /\ spoiled \in [Lights -> SUBSET Attributes]
        /\ cache \in [Lights -> Shown]
    BY <1>1 DEF LightTypeOK, LampStates
  <2>8. \A l \in Lights : lamp'[l] = lamp[l] \/ (l \in reached /\ lamp'[l] = GroupHeard(q, l))
    BY <2>1
  <2>9. lamp' \in [Lights -> LampStates] /\ \A l \in Lights : lamp'[l].temp = lamp[l].temp
    <3>1. \A l \in Lights : GroupHeard(q, l) \in LampStates /\ GroupHeard(q, l).temp = lamp[l].temp
      BY <1>1, GroupHeardIs
    <3>2. QED
      BY <2>1, <2>7, <3>1
  <2>10. spoiled' \in [Lights -> SUBSET Attributes]
    <3>1. {"on", "bri"} \subseteq Attributes
      BY DEF Attributes
    <3>2. QED
      BY <2>2, <2>7, <3>1
  <2>11. LightTypeOK'
    <3>1. \A d \in Commands : cmd'[d] = Idle \/ IsCommand(cmd'[d])
      BY <1>1, <2>4, <2>6 DEF LightTypeOK, r
    <3>2. turns' \in 0 .. MaxTurns /\ odds' \in 0 .. MaxOdds
      <4>1. turns \in 0 .. MaxTurns /\ odds \in 0 .. MaxOdds /\ MaxOdds \in Nat
        BY <1>1, LightsAssumption DEF LightTypeOK
      <4>2. CASE UNCHANGED acts
        BY <4>1, <4>2 DEF acts
      <4>3. CASE Odd
        BY <4>1, <4>3 DEF Odd
      <4>4. QED
        BY <2>2, <4>2, <4>3
    <3>3. QED
      BY <1>1, <2>2, <2>3, <2>4, <2>9, <2>10, <3>1, <3>2 DEF LightTypeOK, IsCommand, Idle, Shown, LampStates
  <2>12. \A l \in Grouped : spoiled'[l] = spoiled[l] \cup {"on", "bri"}
    BY <1>1, <2>2
  <2>13. ASSUME NEW l \in Grouped, q.alone PROVE LeftAlone(cmd[c], l)'
    <3>1. LeftAlone(q, l) /\ l \in Lights
      BY <1>1, <2>13 DEF LightInv, Undisturbed
    <3>2. FallsBackTo(cmd[c], l)' = FallsBackTo(q, l)
      <4>1. r.light = q.light /\ r.call = q.call /\ r.temp = q.temp /\ r.was = q.was /\ r.lit = q.lit
        BY <1>1, <2>5, Zenon
      <4> HIDE DEF q
      <4>2. BriDue(r) = BriDue(q)
        BY <4>1, Zenon DEF BriDue
      <4>3. TempDue(r) = TempDue(q)
        BY <4>1, Zenon DEF TempDue
      <4>4. Was(r, l) = Was(q, l)
        BY <4>1, Zenon DEF Was
      <4>5. /\ r.lit = q.lit /\ BriDue(r) = BriDue(q) /\ TempDue(r) = TempDue(q) /\ Was(r, l) = Was(q, l)
            /\ cache' = cache
        BY <2>3, <4>1, <4>2, <4>3, <4>4, Zenon
      <4>6. FallsBackTo(cmd[c], l)' =
              [on |-> IF r.lit THEN cache'[l].on ELSE Was(r, l).on,
               bri |-> IF BriDue(r) THEN Was(r, l).bri ELSE cache'[l].bri,
               temp |-> IF TempDue(r) THEN Was(r, l).temp ELSE cache'[l].temp]
        BY DEF FallsBackTo, BriDue, TempDue, Was, r
      <4>7. QED
        BY <4>5, <4>6 DEF FallsBackTo
    <3> DEFINE f == FallsBackTo(q, l)
    <3>3. ShowsTrue(l, f)
      BY <3>1 DEF LeftAlone
    <3>4. "temp" \notin spoiled'[l] => f.temp = Kelvin(l, lamp'[l].temp)
      BY <2>9, <2>12, <3>1, <3>3 DEF ShowsTrue
    <3>5. ShowsTrue(l, FallsBackTo(cmd[c], l))'
      <4>1. Kelvin(l, lamp[l].temp)' = Kelvin(l, lamp'[l].temp)
        BY <2>3 DEF Kelvin
      <4>2. QED
        BY <2>12, <3>2, <3>4, <4>1 DEF ShowsTrue
    <3>6. ASSUME q.lit, r.answered PROVE lamp'[l].on = q.on
      <4>1. lamp[l].on = q.on /\ q.on = TRUE
        BY <1>1, <2>5, <3>1, <3>6 DEF LeftAlone, CommandFits
      <4>2. CASE lamp'[l] = lamp[l]
        BY <4>1, <4>2
      <4>3. CASE lamp'[l] = GroupHeard(q, l)
        <5> DEFINE y == GroupHeard(q, l)
        <5>1. /\ q.call = "onoff" => y.on = q.on
              /\ q.call = "lightness" /\ Dims(l) => y.on = TRUE
              /\ q.call = "lightness" /\ ~ Dims(l) => y = lamp[l]
          BY <1>1, <3>1, GroupHeardIs
        <5> HIDE DEF y
        <5>2. lamp'[l] = y
          BY <4>3 DEF y
        <5>3. QED
          BY <1>1, <4>1, <5>1, <5>2
      <4>4. QED
        BY <2>8, <3>1, <4>2, <4>3
    <3>7. r.bri # Nothing /\ Dims(l) => cache'[l].bri = r.bri
      BY <1>1, <2>3, <2>5, <3>1 DEF LeftAlone
    <3>8. cache'[l].on = r.on /\ (r.lit /\ r.answered => lamp'[l].on = r.on)
      BY <2>3, <2>5, <3>1, <3>6 DEF LeftAlone
    <3>9. QED
      BY <2>5, <3>5, <3>7, <3>8 DEF LeftAlone, Dims, r
  <2>14. LightBooks' /\ Undisturbed' /\ Resting'
    <3>1. \A l \in Lights \ Grouped : Unmoved(l)
      BY <2>1, <2>2, <2>3, <2>7 DEF Unmoved
    <3>2. \A d \in Commands : d # c =>
            /\ cmd'[d] = Idle <=> cmd[d] = Idle
            /\ Same(cmd[d], cmd'[d]) /\ Touched(cmd'[d]) = Touched(cmd[d])
            /\ cmd'[d].alone => cmd'[d] = cmd[d] /\ Touched(cmd[d]) \cap Grouped = {}
      BY <1>1, <2>4, ApartIs DEF Same
    <3>3. /\ cmd'[c] # Idle /\ cmd[c] # Idle /\ CommandFits(cmd'[c]) /\ Touched(cmd'[c]) = Touched(cmd[c])
          /\ cmd'[c].alone = cmd[c].alone
          /\ \A l \in Touched(cmd'[c]) : cmd'[c].alone => LeftAlone(cmd[c], l)'
      BY <1>1, <2>5, <2>6, <2>13 DEF r
    <3>4. \A l \in Lights \cap Grouped : Commanding(l)' = {} => ShowsTrue(l, cache[l])'
      <4>1. SUFFICES ASSUME NEW l \in Grouped PROVE Commanding(l)' # {}
        OBVIOUS
      <4>2. c \in {d \in Commands : l \in Touched(cmd'[d])}
        BY <2>6 DEF r
      <4>3. QED
        BY <4>2 DEF Commanding, Touched
    <3>5. holder' = c /\ cmd'[c] # Idle
      BY <2>3, <3>3
    <3>6. QED
      BY <3>1, <3>2, <3>3, <3>4, <3>5, StepKeeps
  <2>15. InFlight'
    <3>1. SUFFICES ASSUME NEW l \in Grouped PROVE AnsweredTrue(cmd[c], l)'
      BY <1>1, <2>3, <2>6 DEF InFlight, Touched, r
    <3>2. Changes(q.call) \subseteq spoiled'[l] /\ l \in Lights
      BY <1>1, <2>12 DEF Changes
    <3>3. ASSUME r.answered, q.alone
          PROVE  lamp'[l].on = q.on /\ (q.call = "lightness" /\ Dims(l) => lamp'[l].level = q.bri)
      <4> DEFINE y == GroupHeard(q, l)
      <4>1. reached = Grouped /\ q.answered
        BY <2>5, <3>3
      <4>2. lamp'[l] = y
        BY <2>1, <3>2, <4>1
      <4>3. /\ q.call = "onoff" => y.on = q.on
            /\ q.call = "lightness" /\ Dims(l) => y.on = TRUE /\ y.level = q.bri
            /\ q.call = "lightness" /\ ~ Dims(l) => y = lamp[l]
        BY <1>1, <3>2, GroupHeardIs
      <4> HIDE DEF y
      <4>4. CASE q.call = "onoff"
        BY <4>2, <4>3, <4>4
      <4>5. CASE q.call = "lightness" /\ Dims(l)
        <5>1. q.on = TRUE
          BY <1>1, <4>5 DEF CommandFits
        <5>2. QED
          BY <4>2, <4>3, <4>5, <5>1
      <4>6. CASE q.call = "lightness" /\ ~ Dims(l)
        <5>1. q.lit
          BY <1>1, <3>1, <4>6 DEF CommandFits
        <5>2. LeftAlone(q, l)
          BY <1>1, <3>3 DEF LightInv, Undisturbed
        <5>3. lamp[l].on = q.on
          BY <1>1, <4>1, <5>1, <5>2 DEF LeftAlone
        <5>4. QED
          BY <4>2, <4>3, <4>6, <5>3
      <4>7. QED
        BY <1>1, <4>4, <4>5, <4>6
    <3>4. QED
      BY <2>5, <3>2, <3>3 DEF AnsweredTrue, Changes, Dims, r
  <2>16. QED
    BY <2>11, <2>14, <2>15 DEF LightInv
<1>4. QED
  BY <1>2, <1>3

LEMMA AnswerGroupKeeps ==
  ASSUME LightInv, NEW c \in Commands, AnswerGroup(c)
  PROVE  LightInv'
<1> DEFINE q == cmd[c]
           left == reply # Nothing
           next == IF left THEN AfterGroupCall(q) ELSE "done"
           shown == IF q.bri # Nothing /\ next = "done" THEN {"on", "bri"} ELSE {"on"}
           s == [q EXCEPT !.call = next, !.lit = TRUE]
           r == cmd'[c]
<1>1. /\ holder = c /\ holder' = Nothing /\ reply' = Nothing
      /\ cmd' = [cmd EXCEPT ![c] = IF next = "done" THEN Idle ELSE s]
      /\ IF left THEN UNCHANGED <<cache, written, seen, cut>> ELSE Write(Grouped, RolledBack(q))
      /\ said' = IF ~ left THEN said
                 ELSE [l \in Lights |-> IF l \in Grouped THEN said[l] \cup {q.on} ELSE said[l]]
      /\ spoiled' = [l \in Lights |->
           IF l \notin Grouped THEN spoiled[l]
           ELSE IF ~ q.alone THEN Attributes
           ELSE IF left /\ q.answered THEN spoiled[l] \ (IF Dims(l) THEN shown ELSE {"on"})
           ELSE spoiled[l]]
      /\ UNCHANGED <<ranged, refresh, linked, lamp, turns, odds>>
  BY DEF AnswerGroup, acts
<1>2. /\ Touched(q) = Grouped /\ q # Idle /\ IsCommand(q) /\ CommandFits(q) /\ q.light = Group
      /\ q.was \in [Lights -> Shown] /\ q.call \in {"onoff", "lightness"} /\ q.on \in BOOLEAN
      /\ q.alone \in BOOLEAN /\ q.answered \in BOOLEAN /\ q.lit \in BOOLEAN
      /\ LightTypeOK /\ Grouped \subseteq Lights /\ Group \notin Lights
      /\ cache \in [Lights -> Shown] /\ spoiled \in [Lights -> SUBSET Attributes]
  BY LightCommandIs, NothingIs, LightsAssumption DEF AnswerGroup, IsCommand, LightInv, LightTypeOK
<1>3. \A l \in Grouped : left => AnsweredTrue(q, l)
  BY <1>1, <1>2 DEF LightInv, InFlight
<1>4. \A l \in Grouped : q.alone => LeftAlone(q, l)
  BY <1>2 DEF LightInv, Undisturbed
<1>5. next # "done" => left /\ next = "lightness" /\ q.call = "onoff" /\ q.bri # Nothing
  BY DEF AfterGroupCall
<1>6. next = "done" /\ left /\ q.bri # Nothing => q.call = "lightness"
  BY <1>2 DEF AfterGroupCall
<1>7. /\ DOMAIN cmd' = Commands /\ \A d \in Commands \ {c} : cmd'[d] = cmd[d]
      /\ r = IF next = "done" THEN Idle ELSE s
  BY <1>1, <1>2 DEF LightTypeOK
<1> HIDE DEF next
<1>8. next # "done" =>
        /\ DOMAIN r = DOMAIN q /\ r.light = Group /\ r.on = q.on /\ r.bri = q.bri /\ r.temp = q.temp
        /\ r.was = q.was /\ r.call = next /\ r.lit = TRUE /\ r.alone = q.alone /\ r.answered = q.answered
  BY <1>2, <1>7 DEF IsCommand
<1> HIDE DEF r, s, shown
<1>9. next # "done" => IsCommand(r) /\ CommandFits(r) /\ r # Idle /\ Touched(r) = Grouped
  <2>1. SUFFICES ASSUME next # "done" PROVE IsCommand(r) /\ CommandFits(r) /\ r # Idle /\ Touched(r) = Grouped
    OBVIOUS
  <2>2. IsCommand(r)
    BY <1>2, <1>5, <1>8, <2>1 DEF IsCommand
  <2>3. CommandFits(r)
    BY <1>2, <1>5, <1>8, <2>1 DEF CommandFits
  <2>4. r # Idle
    BY <2>2 DEF IsCommand, Idle
  <2>5. QED
    BY <1>8, <2>1, <2>2, <2>3, <2>4, TouchedIs
<1>10. /\ RolledBack(q) \in [Lights -> Shown] /\ \A l \in Lights \ Grouped : RolledBack(q)[l] = cache[l]
       /\ \A l \in Grouped :
            /\ RolledBack(q)[l].bri = q.was[l].bri /\ RolledBack(q)[l].temp = cache[l].temp
            /\ RolledBack(q)[l].pivot = cache[l].pivot
            /\ RolledBack(q)[l].on = IF q.lit THEN TRUE ELSE q.was[l].on
  <2> HIDE DEF q
  <2>1. \A l \in Lights : cache[l] \in Shown /\ q.was[l] \in Shown
    BY <1>2
  <2> DEFINE back(l) == [cache[l] EXCEPT !.bri = q.was[l].bri, !.on = IF q.lit THEN TRUE ELSE q.was[l].on]
  <2>2. \A l \in Lights :
          /\ back(l) \in Shown /\ back(l).bri = q.was[l].bri /\ back(l).temp = cache[l].temp
          /\ back(l).pivot = cache[l].pivot
          /\ back(l).on = IF q.lit THEN TRUE ELSE q.was[l].on
    BY <2>1 DEF Shown
  <2>3. RolledBack(q) = [l \in Lights |-> IF l \notin Grouped THEN cache[l] ELSE back(l)]
    BY DEF RolledBack
  <2> DEFINE w == RolledBack(q)
  <2>4. /\ w = [l \in Lights |-> w[l]]
        /\ \A l \in Lights : w[l] = IF l \notin Grouped THEN cache[l] ELSE back(l)
    BY <2>3
  <2> HIDE DEF back, w
  <2>5. \A l \in Lights : w[l] \in Shown
    BY <2>1, <2>2, <2>4
  <2>6. w \in [Lights -> Shown]
    BY <2>4, <2>5
  <2>7. \A l \in Grouped : w[l] = back(l)
    BY <1>2, <2>4
  <2>8. \A l \in Grouped : /\ w[l].bri = q.was[l].bri /\ w[l].temp = cache[l].temp
                            /\ w[l].pivot = cache[l].pivot
                            /\ w[l].on = IF q.lit THEN TRUE ELSE q.was[l].on
    BY <1>2, <2>2, <2>7
  <2>9. QED
    BY <2>4, <2>6, <2>8 DEF w
<1>11. /\ cache' \in [Lights -> Shown] /\ written' \in [Lights -> Shown] /\ seen' \in [Lights -> Shown]
       /\ cut' \subseteq Lights
       /\ left => cache' = cache
       /\ ~ left => cache' = RolledBack(q)
  <2>1. CASE left
    BY <1>1, <1>2, <2>1 DEF LightTypeOK
  <2>2. CASE ~ left
    BY <1>1, <1>2, <1>10, <2>2, WriteIs
  <2>3. QED
    BY <2>1, <2>2
<1>12. LightTypeOK'
  <2>1. spoiled' \in [Lights -> SUBSET Attributes]
    BY <1>1, <1>2
  <2>2. said' \in [Lights -> SUBSET (BOOLEAN \cup {Nothing})]
    <3>1. {q.on} \subseteq BOOLEAN
      BY <1>2
    <3>2. QED
      BY <1>1, <1>2, <3>1 DEF LightTypeOK
  <2>3. \A d \in Commands : cmd'[d] = Idle \/ IsCommand(cmd'[d])
    BY <1>2, <1>7, <1>9 DEF LightTypeOK, r
  <2>4. QED
    BY <1>1, <1>2, <1>7, <1>11, <2>1, <2>2, <2>3 DEF LightTypeOK, IsCommand, Idle, Shown
<1>13. \A l \in Lights \ Grouped : Unmoved(l)
  BY <1>1, <1>2, <1>10, <1>11 DEF Unmoved
<1>14. ASSUME NEW l \in Grouped, q.alone
       PROVE  /\ LeftAlone(q, l) /\ l \in Lights /\ cache[l].on = q.on
              /\ "temp" \notin spoiled[l] => cache[l].temp = Kelvin(l, lamp[l].temp)
              /\ left => {"on", "bri"} \subseteq spoiled[l]
              /\ left /\ q.answered => lamp[l].on = q.on
              /\ left /\ q.answered /\ q.call = "lightness" /\ Dims(l) => lamp[l].level = q.bri
              /\ ~ left \/ ~ q.answered => spoiled'[l] = spoiled[l]
              /\ left /\ q.answered => spoiled'[l] = spoiled[l] \ (IF Dims(l) THEN shown ELSE {"on"})
  <2>1. LeftAlone(q, l) /\ l \in Lights
    BY <1>2, <1>4, <1>14
  <2>2. FallsBackTo(q, l).temp = cache[l].temp
    BY <1>2 DEF FallsBackTo, TempDue
  <2>3. ShowsTrue(l, FallsBackTo(q, l)) /\ cache[l].on = q.on
    BY <2>1 DEF LeftAlone
  <2>4. left => AnsweredTrue(q, l)
    BY <1>3, <1>14
  <2>5. Changes(q.call) = {"on", "bri"}
    BY <1>2 DEF Changes
  <2>6. left /\ q.answered =>
          lamp[l].on = q.on /\ (q.call = "lightness" /\ Dims(l) => lamp[l].level = q.bri)
    BY <1>2, <1>14, <2>4 DEF AnsweredTrue
  <2>7. /\ ~ left \/ ~ q.answered => spoiled'[l] = spoiled[l]
        /\ left /\ q.answered => spoiled'[l] = spoiled[l] \ (IF Dims(l) THEN shown ELSE {"on"})
    BY <1>1, <1>2, <1>14, <2>1
  <2>8. QED
    BY <2>1, <2>2, <2>3, <2>4, <2>5, <2>6, <2>7 DEF ShowsTrue, AnsweredTrue
<1>15. ASSUME NEW l \in Grouped, next = "done" PROVE ShowsTrue(l, cache[l])'
  <2>1. CASE ~ q.alone
    <3>1. spoiled'[l] = Attributes
      BY <1>1, <1>2, <2>1
    <3>2. QED
      BY <3>1 DEF ShowsTrue, Attributes
  <2>2. CASE q.alone /\ left /\ q.answered
    <3>1. cache'[l] = cache[l] /\ lamp'[l] = lamp[l]
      BY <1>1, <1>11, <2>2
    <3>2. "bri" \notin spoiled'[l] => q.bri # Nothing /\ Dims(l)
      BY <1>14, <2>2 DEF shown
    <3>3. "bri" \notin spoiled'[l] => cache[l].bri = q.bri /\ lamp[l].level = q.bri
      BY <1>2, <1>6, <1>14, <1>15, <2>2, <3>2 DEF LeftAlone
    <3>4. "temp" \notin spoiled'[l] => "temp" \notin spoiled[l]
      BY <1>14, <2>2 DEF shown
    <3>5. QED
      BY <1>14, <2>2, <3>1, <3>3, <3>4 DEF ShowsTrue, Kelvin
  <2>3. CASE q.alone /\ left /\ ~ q.answered
    <3>1. cache'[l] = cache[l] /\ lamp'[l] = lamp[l]
      BY <1>1, <1>11, <2>3
    <3>2. QED
      BY <1>14, <2>3, <3>1 DEF ShowsTrue, Kelvin
  <2>4. CASE q.alone /\ ~ left
    <3> DEFINE f == FallsBackTo(q, l)
    <3>1. /\ cache'[l].bri = q.was[l].bri /\ cache'[l].temp = cache[l].temp
          /\ cache'[l].pivot = cache[l].pivot
          /\ cache'[l].on = IF q.lit THEN TRUE ELSE q.was[l].on
      BY <1>10, <1>11, <2>4
    <3>2. /\ f.on = IF q.lit THEN cache[l].on ELSE q.was[l].on
          /\ f.bri = q.was[l].bri /\ f.temp = cache[l].temp
      BY <1>2 DEF FallsBackTo, TempDue, BriDue, Was
    <3>3. q.lit => cache[l].on = TRUE
      BY <1>2, <1>14, <2>4 DEF CommandFits
    <3>4. ShowsTrue(l, f) /\ spoiled'[l] = spoiled[l] /\ lamp'[l] = lamp[l]
      BY <1>1, <1>14, <2>4 DEF LeftAlone
    <3> HIDE DEF f
    <3>5. cache'[l].on = f.on /\ cache'[l].bri = f.bri /\ cache'[l].temp = f.temp
      BY <1>2, <3>1, <3>2, <3>3
    <3>6. QED
      BY <3>1, <3>4, <3>5 DEF ShowsTrue, Kelvin
  <2>5. QED
    BY <1>2, <2>1, <2>2, <2>3, <2>4
<1>16. ASSUME NEW l \in Grouped, next # "done", q.alone PROVE LeftAlone(cmd[c], l)'
  <2>1. left /\ q.call = "onoff" /\ q.bri # Nothing /\ cache' = cache /\ lamp' = lamp
    BY <1>1, <1>5, <1>11, <1>16
  <2> DEFINE g == FallsBackTo(cmd[c], l)'
  <2>2. g.on = cache[l].on /\ g.temp = cache[l].temp
    BY <1>8, <1>16, <2>1 DEF FallsBackTo, TempDue, r
  <2>3. shown = {"on"}
    BY <1>16 DEF shown
  <2>4. /\ "on" \notin spoiled'[l] => cache[l].on = lamp[l].on
        /\ "bri" \in spoiled'[l]
        /\ "temp" \notin spoiled'[l] => cache[l].temp = Kelvin(l, lamp[l].temp)
    <3>1. CASE q.answered
      BY <1>14, <1>16, <2>1, <2>3, <3>1
    <3>2. CASE ~ q.answered
      BY <1>14, <1>16, <2>1, <3>2
    <3>3. QED
      BY <3>1, <3>2
  <2> HIDE DEF g
  <2>5. ShowsTrue(l, FallsBackTo(cmd[c], l))'
    <3>1. ShowsTrue(l, FallsBackTo(cmd[c], l))' =
            ( /\ "on" \notin spoiled'[l] => g.on = lamp'[l].on
              /\ "bri" \notin spoiled'[l] /\ lamp'[l].on => g.bri = lamp'[l].level
              /\ "temp" \notin spoiled'[l] => g.temp = Kelvin(l, lamp'[l].temp) )
      BY <2>1 DEF ShowsTrue, Kelvin, g
    <3>2. QED
      BY <2>1, <2>2, <2>4, <3>1
  <2>6. r.bri # Nothing /\ Dims(l) => cache[l].bri = r.bri
    BY <1>2, <1>8, <1>14, <1>16 DEF LeftAlone
  <2>7. r.answered => lamp[l].on = r.on
    BY <1>8, <1>14, <1>16, <2>1
  <2>8. cache[l].on = r.on /\ r.light = Group
    BY <1>8, <1>14, <1>16
  <2>9. QED
    BY <2>1, <2>5, <2>6, <2>7, <2>8 DEF LeftAlone, Dims, r
<1>17. LightBooks' /\ Undisturbed' /\ Resting'
  <2>1. \A d \in Commands : d # c =>
          /\ cmd'[d] = Idle <=> cmd[d] = Idle
          /\ Same(cmd[d], cmd'[d]) /\ Touched(cmd'[d]) = Touched(cmd[d])
          /\ cmd'[d].alone => cmd'[d] = cmd[d] /\ Touched(cmd[d]) \cap Grouped = {}
    BY <1>2, <1>7, ApartIs DEF Same
  <2>2. \/ cmd'[c] = Idle /\ Touched(cmd[c]) \subseteq Grouped
        \/ /\ cmd'[c] # Idle /\ cmd[c] # Idle /\ CommandFits(cmd'[c]) /\ Touched(cmd'[c]) = Touched(cmd[c])
           /\ cmd'[c].alone = cmd[c].alone
           /\ \A l \in Touched(cmd'[c]) : cmd'[c].alone => LeftAlone(cmd[c], l)'
    BY <1>2, <1>7, <1>8, <1>9, <1>16 DEF r
  <2>3. \A l \in Lights \cap Grouped : Commanding(l)' = {} => ShowsTrue(l, cache[l])'
    <3>1. CASE next = "done"
      BY <1>15, <3>1
    <3>2. CASE next # "done"
      <4>1. SUFFICES ASSUME NEW l \in Grouped PROVE Commanding(l)' # {}
        OBVIOUS
      <4>2. c \in {d \in Commands : l \in Touched(cmd'[d])}
        BY <1>9, <3>2 DEF r
      <4>3. QED
        BY <4>2 DEF Commanding, Touched
    <3>3. QED
      BY <3>1, <3>2
  <2>4. holder' \notin Commands
    BY <1>1, NothingIs
  <2>5. QED
    BY <1>13, <2>1, <2>2, <2>3, <2>4, StepKeeps
<1>18. QED
  BY <1>1, <1>12, <1>17, NoneInFlight DEF LightInv

----------------------------------------------------------------------------
(***************************************************************************)
(* A command is cancelled.                                                 *)
(***************************************************************************)

LEMMA CancelledKeeps ==
  ASSUME LightInv, NEW c \in Commands, CommandCancelled(c)
  PROVE  LightInv'
<1> DEFINE q == cmd[c]  ls == Touched(q)
<1>1. /\ q # Idle /\ cmd' = [cmd EXCEPT ![c] = Idle] /\ odds < MaxOdds /\ odds' = odds + 1
      /\ IF holder = c THEN holder' = Nothing /\ reply' = Nothing ELSE UNCHANGED <<holder, reply>>
      /\ spoiled' = [l \in Lights |-> IF l \in ls THEN Attributes ELSE spoiled[l]]
      /\ said' = [l \in Lights |-> IF l \in ls THEN said[l] \cup {q.on} ELSE said[l]]
      /\ cut' = cut \cup (Lights \cap {q.light})
      /\ UNCHANGED <<cache, written, seen, ranged, refresh, linked, lamp, turns>>
  BY DEF CommandCancelled, Odd
<1>2. /\ LightTypeOK /\ IsCommand(q) /\ q.on \in BOOLEAN /\ ls \subseteq Lights
      /\ spoiled \in [Lights -> SUBSET Attributes]
  BY <1>1, TouchedIs DEF LightInv, LightTypeOK, IsCommand
<1> HIDE DEF q, ls
<1>3. /\ DOMAIN cmd' = Commands /\ cmd'[c] = Idle /\ \A d \in Commands \ {c} : cmd'[d] = cmd[d]
  BY <1>1, <1>2 DEF LightTypeOK
<1>4. LightTypeOK'
  <2>1. spoiled' \in [Lights -> SUBSET Attributes]
    BY <1>1, <1>2
  <2>2. said' \in [Lights -> SUBSET (BOOLEAN \cup {Nothing})]
    <3>1. {q.on} \subseteq BOOLEAN
      BY <1>2
    <3>2. QED
      BY <1>1, <1>2, <3>1 DEF LightTypeOK
  <2>3. \A d \in Commands : cmd'[d] = Idle \/ IsCommand(cmd'[d])
    BY <1>2, <1>3 DEF LightTypeOK
  <2>4. odds' \in 0 .. MaxOdds
    BY <1>1, <1>2, LightsAssumption DEF LightTypeOK
  <2>5. holder' \in Commands \cup Lights \cup {Nothing} /\ cut' \subseteq Lights
    BY <1>1, <1>2 DEF LightTypeOK
  <2>6. QED
    BY <1>1, <1>2, <1>3, <2>1, <2>2, <2>3, <2>4, <2>5 DEF LightTypeOK, IsCommand, Idle, Shown
<1>5. \A l \in Lights \ ls : Unmoved(l)
  BY <1>1 DEF Unmoved
<1>6. LightBooks' /\ Undisturbed' /\ Resting'
  <2>1. \A d \in Commands : d # c =>
          /\ cmd'[d] = Idle <=> cmd[d] = Idle
          /\ Same(cmd[d], cmd'[d]) /\ Touched(cmd'[d]) = Touched(cmd[d])
          /\ cmd'[d].alone => cmd'[d] = cmd[d] /\ Touched(cmd[d]) \cap ls = {}
    BY <1>1, <1>3, ApartIs DEF Same, q, ls
  <2>2. cmd'[c] = Idle /\ Touched(cmd[c]) \subseteq ls
    BY <1>3 DEF q, ls
  <2>3. \A l \in Lights \cap ls : Commanding(l)' = {} => ShowsTrue(l, cache[l])'
    BY <1>1 DEF ShowsTrue, Attributes
  <2>4. holder' \in Commands => cmd'[holder'] # Idle
    <3>1. CASE holder = c
      BY <1>1, <3>1, NothingIs
    <3>2. CASE holder # c
      BY <1>1, <1>3, <3>2 DEF LightInv, LightBooks, HolderCommands
    <3>3. QED
      BY <3>1, <3>2
  <2>5. QED
    BY <1>5, <2>1, <2>2, <2>3, <2>4, StepKeeps
<1>7. InFlight'
  <2>1. CASE holder = c
    BY <1>1, <2>1, NoneInFlight
  <2>2. CASE holder # c
    <3>1. SUFFICES ASSUME reply # Nothing PROVE InFlight'
      BY <1>1, <2>2 DEF InFlight
    <3>2. holder' = holder /\ reply' = reply
      BY <1>1, <2>2
    <3>3. ASSUME NEW d \in Commands, holder = d, NEW l \in Touched(cmd'[d]) PROVE AnsweredTrue(cmd[d], l)'
      <4>1. cmd'[d] = cmd[d] /\ l \in Lights
        BY <1>3, <2>2, <3>3, TouchedIs
      <4>2. AnsweredTrue(cmd[d], l)
        BY <3>1, <3>3, <4>1 DEF LightInv, InFlight
      <4>3. Changes(cmd[d].call) \subseteq spoiled'[l] /\ UNCHANGED <<lamp, reply>>
        <5>1. Changes(cmd[d].call) \subseteq Attributes /\ Changes(cmd[d].call) \subseteq spoiled[l]
          BY <4>2 DEF AnsweredTrue, Changes, Attributes
        <5>2. QED
          BY <1>1, <3>2, <4>1, <5>1
      <4>4. QED
        BY <4>1, <4>2, <4>3 DEF AnsweredTrue, Changes, Dims
    <3>4. ASSUME NEW l \in Lights, holder = l PROVE ReadTrue(l)'
      BY <1>1, <3>1, <3>2, <3>4 DEF LightInv, InFlight, ReadTrue
    <3>5. QED
      BY <3>2, <3>3, <3>4 DEF InFlight, Touched
  <2>3. QED
    BY <2>1, <2>2
<1>8. QED
  BY <1>4, <1>6, <1>7 DEF LightInv

----------------------------------------------------------------------------
(***************************************************************************)
(* The invariant always holds.                                             *)
(***************************************************************************)

LEMMA LightInitInv ==
  ASSUME LightInit
  PROVE  LightInv
<1>1. \A c \in Commands : cmd[c] = Idle /\ Touched(cmd[c]) = {}
  BY TouchedIs DEF LightInit
<1>2. LightTypeOK
  <2>1. Unknown \in Shown
    BY LightsAssumption DEF Unknown, Shown
  <2>2. [on |-> FALSE, level |-> Default, temp |-> 1, fading |-> FALSE] \in LampStates
    <3>1. 1 \in Temps
      BY LightsAssumption
    <3>2. QED
      BY <3>1, LevelsAre DEF LampStates
  <2>3. turns \in 0 .. MaxTurns /\ odds \in 0 .. MaxOdds
    BY LightsAssumption DEF LightInit
  <2>4. DOMAIN cmd = Commands
    BY DEF LightInit
  <2>5. lamp \in [Lights -> LampStates]
    BY <2>2 DEF LightInit
  <2>6. cache \in [Lights -> Shown] /\ written \in [Lights -> Shown] /\ seen \in [Lights -> Shown]
    BY <2>1 DEF LightInit
  <2>7. QED
    BY <1>1, <2>3, <2>4, <2>5, <2>6 DEF LightTypeOK, LightInit, LampStates
<1>3. LightBooks
  BY <1>1, NothingIs DEF LightBooks, HolderCommands, CommandsFit, Exclusive, LightInit
<1>4. Undisturbed /\ InFlight
  BY <1>1 DEF Undisturbed, InFlight, LightInit
<1>5. Resting
  BY DEF Resting, ShowsTrue, LightInit, Attributes
<1>6. QED
  BY <1>2, <1>3, <1>4, <1>5 DEF LightInv

LEMMA LightStutters ==
  ASSUME LightInv, UNCHANGED lightVars
  PROVE  LightInv'
<1>1. /\ UNCHANGED <<cache, written, seen, ranged, cmd, refresh, holder, reply, linked, lamp, spoiled, said, cut>>
      /\ UNCHANGED <<turns, odds>>
  BY DEF lightVars, acts
<1>2. LightTypeOK'
  BY <1>1 DEF LightInv, LightTypeOK, IsCommand, Idle, Shown
<1>3. LightBooks' /\ Undisturbed' /\ Resting'
  <2>1. \A l \in Lights : Unmoved(l)
    BY <1>1 DEF Unmoved
  <2>2. holder' \in Commands => cmd[holder'] # Idle
    BY <1>1 DEF LightInv, LightBooks, HolderCommands
  <2>3. QED
    BY <1>1, <2>1, <2>2, UnmovedKeeps
<1>4. InFlight'
  BY <1>1 DEF LightInv, InFlight, AnsweredTrue, ReadTrue, Touched, Changes, Dims
<1>5. QED
  BY <1>2, <1>3, <1>4 DEF LightInv

LEMMA LightStepInv ==
  ASSUME LightInv, [LightNext]_lightVars
  PROVE  LightInv'
<1>1. CASE UNCHANGED lightVars
  BY <1>1, LightStutters
<1>2. ASSUME NEW c \in Commands, NEW l \in Lights, NEW b \in Levels \cup {Nothing},
             NEW k \in Temps \cup {Nothing}, TurnOn(c, l, b, k)
      PROVE  LightInv'
  BY <1>2, TurnOnKeeps
<1>3. ASSUME NEW c \in Commands, NEW l \in Lights, TurnOff(c, l) PROVE LightInv'
  BY <1>3, TurnOffKeeps
<1>4. ASSUME NEW c \in Commands, NEW on \in BOOLEAN, NEW b \in Levels \cup {Nothing}, GroupTurn(c, on, b)
      PROVE  LightInv'
  BY <1>4, GroupTurnKeeps
<1>5. ASSUME NEW c \in Commands, Send(c) \/ Answer(c) \/ SendGroup(c) \/ AnswerGroup(c) PROVE LightInv'
  BY <1>5, SendKeeps, AnswerKeeps, SendGroupKeeps, AnswerGroupKeeps
<1>9. ASSUME NEW c \in Commands, CommandCancelled(c) PROVE LightInv'
  BY <1>9, CancelledKeeps
<1>6. ASSUME NEW l \in Lights, SendRefresh(l) \/ AnswerRefresh(l) \/ Outside(l) \/ FadeEnds(l) PROVE LightInv'
  BY <1>6, SendRefreshKeeps, AnswerRefreshKeeps, OutsideKeeps, FadeEndsKeeps
<1>7. CASE Reconnect \/ LinkDrops
  BY <1>7, ReconnectKeeps, LinkDropsKeeps
<1>8. QED
  BY <1>1, <1>2, <1>3, <1>4, <1>5, <1>6, <1>7, <1>9 DEF LightNext

\* Every variable keeps its shape, each undisturbed command falls back to what is
\* true, and each answer in flight says what the lamp is.
THEOREM LightsKeepTheirBooks == LightSpec => []LightInv
<1>1. LightInit => LightInv
  BY LightInitInv
<1>2. LightInv /\ [LightNext]_lightVars => LightInv'
  BY LightStepInv
<1>3. QED
  BY <1>1, <1>2, PTL DEF LightSpec

\* A light without a command and without a read under way shows what its lamp does,
\* for every attribute that was answered or read since anything else touched the
\* lamp, whatever commands overlapped or were cancelled, and a temperature as the
\* limits exposed now mirror it (light.py, the settling of every answer; _mirror).
THEOREM QuietLightsShowTheTruth == LightSpec => []ShownIsTrue
<1>1. LightInv => ShownIsTrue
  BY DEF LightInv, Resting, ShowsTrue, ShownIsTrue, Quiet
<1>2. QED
  BY <1>1, LightsKeepTheirBooks, PTL

\* Each light of a command that is done has done what it says.
LEMMA DoneIs ==
  ASSUME LightInv, NEW c \in Commands, Answer(c) \/ AnswerGroup(c), Finished(c), NEW l \in Touched(cmd[c])
  PROVE  Obeyed(cmd[c], l, lamp[l])
<1> DEFINE q == cmd[c]
<1>1. /\ q # Idle /\ cmd'[c] = Idle /\ reply # Nothing /\ q.answered /\ q.alone
      /\ q.light # Group /\ q.call = "onoff" => reply = q.on
      /\ holder = c /\ q.light \in Lights \cup {Group}
  BY DEF Finished, Answer, AnswerGroup
<1>2. /\ IsCommand(q) /\ CommandFits(q) /\ LightTypeOK /\ l \in Lights /\ q.on \in BOOLEAN
      /\ q.bri \in Levels \cup {Nothing} /\ DOMAIN cmd = Commands
  BY <1>1, LightCommandIs, TouchedIs DEF IsCommand, LightInv, LightTypeOK
<1>3. AnsweredTrue(q, l) /\ LeftAlone(q, l)
  BY <1>1 DEF LightInv, InFlight, Undisturbed
<1>4. DOMAIN Idle = {"light"} /\ "on" \in DOMAIN q
  BY <1>2 DEF Idle, IsCommand
<1> HIDE DEF q
<1>8. q.light # Group /\ q.call \in {"ctl", "temp"} => q.carries.temp = Sent(l, q.temp)
  BY <1>1, <1>3 DEF LeftAlone, Carries
<1>5. CASE q.light # Group
  <2>1. /\ q.light = l /\ q.was \in Shown /\ q.call \in {"onoff", "lightness", "ctl", "temp"}
        /\ Answer(c)
    <3>1. ~ AnswerGroup(c) /\ q.light \in Lights
      BY <1>1, <1>5 DEF AnswerGroup, q
    <3>2. QED
      BY <1>2, <1>5, <3>1, LightCommandIs DEF q, IsCommand
  <2>2. NextCall(q) = "done"
    <3>1. SUFFICES ASSUME NextCall(q) # "done" PROVE FALSE
      OBVIOUS
    <3>2. cmd' = [cmd EXCEPT ![c] =
                   [q EXCEPT !.call = NextCall(q), !.lit = Lit(q, reply), !.answered = @ /\ reply # Nothing,
                             !.carries = IF NextCall(q) = "onoff" THEN Nothing
                                         ELSE Carries(q.light, q.temp, Settle(q, reply, cache[q.light]).bri)]]
      BY <2>1, <3>1 DEF Answer, q
    <3>3. DOMAIN cmd'[c] = DOMAIN q
      BY <1>2, <3>2
    <3>4. QED
      BY <1>1, <1>4, <3>3
  <2>3. CASE q.call = "onoff"
    <3>1. lamp[l].on = q.on /\ q.bri = Nothing
      BY <1>1, <1>2, <1>3, <1>5, <2>3 DEF AnsweredTrue, CommandFits
    <3>2. q.temp # Nothing => lamp[l].temp = Sent(l, q.temp)
      BY <1>1, <1>3, <1>5, <2>3 DEF LeftAlone
    <3>3. QED
      BY <3>1, <3>2 DEF Obeyed, q
  <2>4. CASE q.call = "lightness"
    <3>1. lamp[l].on = TRUE /\ lamp[l].level = q.bri /\ q.on = TRUE
      BY <1>2, <1>3, <1>5, <2>4 DEF AnsweredTrue, CommandFits
    <3>2. q.temp = Nothing
      BY <2>2, <2>4 DEF NextCall, TempCall
    <3>3. QED
      BY <3>1, <3>2 DEF Obeyed, q
  <2>5. CASE q.call = "ctl"
    <3>1. /\ lamp[l].on = TRUE /\ q.on = TRUE /\ lamp[l].temp = Sent(l, q.temp)
      BY <1>1, <1>2, <1>3, <1>5, <1>8, <2>5 DEF AnsweredTrue, CommandFits
    <3>2. q.bri # Nothing => lamp[l].level = q.bri
      BY <1>1, <1>3, <1>5, <2>5 DEF LeftAlone
    <3>3. QED
      BY <3>1, <3>2 DEF Obeyed, q
  <2>6. CASE q.call = "temp"
    <3>1. lamp[l].temp = Sent(l, q.temp) /\ q.on = TRUE
      BY <1>2, <1>3, <1>5, <1>8, <2>6 DEF AnsweredTrue, CommandFits
    <3>2. q.bri # Nothing => lamp[l].on = TRUE /\ lamp[l].level = q.bri
      BY <1>1, <1>3, <1>5, <2>6 DEF LeftAlone
    <3>3. q.bri = Nothing /\ "on" \notin spoiled[l] => lamp[l].on = TRUE
      <4>1. SUFFICES ASSUME q.bri = Nothing, "on" \notin spoiled[l] PROVE lamp[l].on = TRUE
        OBVIOUS
      <4>2. ~ q.lit /\ q.was.on = TRUE
        BY <1>2, <2>2, <2>6, <4>1 DEF CommandFits, NextCall
      <4>3. FallsBackTo(q, l).on = TRUE
        BY <1>5, <4>2 DEF FallsBackTo, Was
      <4>4. QED
        BY <1>3, <4>1, <4>3 DEF LeftAlone, ShowsTrue
    <3>4. QED
      BY <2>6, <3>1, <3>2, <3>3 DEF Obeyed, q
  <2>7. QED
    BY <2>1, <2>3, <2>4, <2>5, <2>6
<1>6. CASE q.light = Group
  <2>1. AnswerGroup(c) /\ q.call \in {"onoff", "lightness"}
    <3>1. ~ Answer(c)
      BY <1>6, NothingIs DEF Answer, q
    <3>2. QED
      BY <1>2, <1>6, <3>1, NothingIs DEF IsCommand
  <2>2. AfterGroupCall(q) = "done"
    <3>1. SUFFICES ASSUME AfterGroupCall(q) # "done" PROVE FALSE
      OBVIOUS
    <3>2. cmd'[c] = [q EXCEPT !.call = AfterGroupCall(q), !.lit = TRUE]
      BY <1>1, <1>2, <2>1, <3>1 DEF AnswerGroup, q
    <3>3. DOMAIN cmd'[c] = DOMAIN q
      BY <3>2
    <3>4. QED
      BY <1>1, <1>4, <3>3
  <2>3. q.bri # Nothing => q.call = "lightness"
    BY <2>1, <2>2 DEF AfterGroupCall
  <2>4. lamp[l].on = q.on /\ (q.call = "lightness" /\ Dims(l) => lamp[l].level = q.bri)
    BY <1>1, <1>3, <1>6 DEF AnsweredTrue
  <2>5. q.temp = Nothing
    BY <1>2, <1>6 DEF CommandFits
  <2>6. QED
    BY <2>3, <2>4, <2>5 DEF Obeyed, q
<1>7. QED
  BY <1>5, <1>6

\* A command of which every call was answered, alone to the end, has done to each
\* of its lamps what it says, in any number of calls and for any lights (light.py,
\* async_turn_on; MeshGroupLight.async_turn_on).
THEOREM AnsweredCommandsAreObeyed == LightSpec => DoneMeansDone
<1>1. LightInv /\ [LightNext]_lightVars =>
        [\A c \in Commands : Finished(c) => \A l \in Touched(cmd[c]) : Obeyed(cmd[c], l, lamp[l])]_lightVars
  <2>1. SUFFICES ASSUME LightInv, [LightNext]_lightVars, NEW c \in Commands, Finished(c),
                        NEW l \in Touched(cmd[c])
                 PROVE  Obeyed(cmd[c], l, lamp[l])
    OBVIOUS
  <2>2. Answer(c) \/ AnswerGroup(c)
    BY <2>1 DEF Finished
  <2>3. QED
    BY <2>1, <2>2, DoneIs
<1>2. QED
  BY <1>1, LightsKeepTheirBooks, PTL DEF LightSpec, DoneMeansDone

----------------------------------------------------------------------------
(***************************************************************************)
(* Silence leaves no state behind, when one command runs at a time.  Two   *)
(* that overlap each take the other's request for what was there before.   *)
(***************************************************************************)

OneCommand == \A c, d \in Commands : c = d

\* Where the on-state of a light comes from: what it falls back to was answered, and
\* what it shows was, or is the request.
Backed(q, l) ==
  /\ Was(q, l).on \in said[l]
  /\ cache[l].on \in said[l] \cup {q.on}
  /\ q.lit => TRUE \in said[l]

SaidOf(l) ==
  /\ Commanding(l) = {} => cache[l].on \in said[l]
  /\ \A c \in Commands : l \in Touched(cmd[c]) => Backed(cmd[c], l)

SaidInv == \A l \in Lights : SaidOf(l)

\* What was answered stays answered, and an on-state that is new was answered.
OnKept(l) ==
  said[l] \subseteq said'[l] /\ (cache'[l].on = cache[l].on \/ cache'[l].on \in said'[l])

\* A step of the command c on its lights ls, or of none.
LEMMA SaidKeeps ==
  ASSUME LightInv, SaidInv, NEW ls, NEW c,
         \A d \in Commands : d # c => Same(cmd[d], cmd'[d]) /\ Touched(cmd'[d]) = Touched(cmd[d]),
         c \in Commands => Touched(cmd[c]) \subseteq ls /\ Touched(cmd'[c]) \subseteq ls,
         \A l \in Lights \ ls : OnKept(l), \A l \in Lights \cap ls : SaidOf(l)'
  PROVE  SaidInv'
<1>1. SUFFICES ASSUME NEW l \in Lights PROVE SaidOf(l)'
  BY DEF SaidInv
<1>2. CASE l \in ls
  BY <1>2
<1>3. CASE l \notin ls
  <2>1. \A d \in Commands : l \in Touched(cmd'[d]) <=> l \in Touched(cmd[d])
    BY <1>3
  <2>2. Commanding(l)' = {} => Commanding(l) = {}
    BY <2>1 DEF Commanding, Touched
  <2>3. /\ said[l] \subseteq said'[l] /\ (cache'[l].on = cache[l].on \/ cache'[l].on \in said'[l])
        /\ Commanding(l) = {} => cache[l].on \in said[l]
    BY <1>3 DEF SaidInv, SaidOf, OnKept
  <2>4. ASSUME NEW d \in Commands, l \in Touched(cmd'[d]) PROVE Backed(cmd[d], l)'
    <3>1. d # c /\ Backed(cmd[d], l) /\ Same(cmd[d], cmd'[d])
      BY <1>3, <2>1, <2>4 DEF SaidInv, SaidOf
    <3>2. Was(cmd[d], l)' = Was(cmd[d], l)
      BY <3>1 DEF Same, Was
    <3>3. cmd'[d].on = cmd[d].on /\ cmd'[d].lit = cmd[d].lit
      BY <3>1 DEF Same
    <3>4. QED
      BY <2>3, <3>1, <3>2, <3>3 DEF Backed
  <2>5. QED
    BY <2>2, <2>3, <2>4 DEF SaidOf, Touched
<1>4. QED
  BY <1>2, <1>3

LEMMA SaidUntouched ==
  ASSUME LightInv, SaidInv,
         \A d \in Commands : Same(cmd[d], cmd'[d]) /\ Touched(cmd'[d]) = Touched(cmd[d]),
         \A l \in Lights : OnKept(l)
  PROVE  SaidInv'
BY SaidKeeps, NothingIs

\* A command starts on the lights ls.
LEMMA SaidStarts ==
  ASSUME OneCommand, LightInv, SaidInv, NEW c \in Commands, NEW ls, cmd[c] = Idle, Act(ls),
         Touched(cmd'[c]) = ls, ~ cmd'[c].lit, \A l \in Lights \ ls : cache'[l].on = cache[l].on,
         \A l \in ls : Was(cmd'[c], l).on = cache[l].on /\ cache'[l].on = cmd'[c].on
  PROVE  SaidInv'
<1>1. \A d \in Commands : d = c
  BY DEF OneCommand
<1>2. Touched(cmd[c]) = {} /\ ls \subseteq Lights
  BY TouchedIs
<1>3. \A l \in Lights : Commanding(l) = {} /\ cache[l].on \in said[l]
  BY <1>1, <1>2, CommandingIs DEF SaidInv, SaidOf
<1>4. \A l \in Lights : said'[l] = IF l \in ls /\ Quiet(l) THEN {cache[l].on} ELSE said[l]
  BY DEF Act
<1>5. \A l \in Lights : cache[l].on \in said'[l]
  BY <1>3, <1>4
<1>6. \A l \in Lights \cap ls : Commanding(l)' # {}
  <2>1. SUFFICES ASSUME NEW l \in ls PROVE Commanding(l)' # {}
    OBVIOUS
  <2>2. c \in {d \in Commands : l \in Touched(cmd'[d])}
    OBVIOUS
  <2>3. QED
    BY <2>2 DEF Commanding, Touched
<1>7. \A l \in Lights \cap ls : Backed(cmd[c], l)'
  <2>1. SUFFICES ASSUME NEW l \in Lights \cap ls PROVE Backed(cmd[c], l)'
    OBVIOUS
  <2>2. Was(cmd[c], l)' = Was(cmd'[c], l)
    BY DEF Was
  <2>3. QED
    BY <1>5, <2>2 DEF Backed
<1>8. \A l \in Lights \ ls : OnKept(l)
  BY <1>4 DEF OnKept
<1>9. \A l \in Lights \cap ls : SaidOf(l)'
  BY <1>1, <1>6, <1>7 DEF SaidOf, Touched
<1>10. \A d \in Commands : d # c => Same(cmd[d], cmd'[d]) /\ Touched(cmd'[d]) = Touched(cmd[d])
  BY <1>1
<1>11. c \in Commands => Touched(cmd[c]) \subseteq ls /\ Touched(cmd'[c]) \subseteq ls
  BY <1>2
<1>12. QED
  BY <1>8, <1>9, <1>10, <1>11, SaidKeeps

LEMMA SaidTurnOn ==
  ASSUME OneCommand, LightInv, SaidInv, NEW c \in Commands, NEW l \in Lights, NEW b, NEW k, TurnOn(c, l, b, k)
  PROVE  SaidInv'
<1> DEFINE call == IF b # Nothing THEN "lightness" ELSE IF k # Nothing THEN TempCall(l) ELSE "onoff"
           q == Command(l, TRUE, b, k, cache[l], call)
           asked == Request(l, TRUE, b, k)
<1>1. /\ cache \in [Lights -> Shown] /\ cmd[c] = Idle /\ Act({l}) /\ cache' = [cache EXCEPT ![l] = asked]
      /\ cmd' = [Disturbed({l}) EXCEPT ![c] = q]
  BY DEF LightInv, LightTypeOK, TurnOn, Write
<1>2. asked.on = TRUE
  BY <1>1 DEF Request, Shown
<1>3. cmd'[c] = q
  BY <1>1, DisturbedIs DEF LightInv
<1>4. q.light = l /\ q.on = TRUE /\ q.was = cache[l] /\ q.lit = FALSE
  BY DEF Command
<1> HIDE DEF q, asked
<1>5. Touched(q) = {l} /\ q.light # Group
  BY <1>4, TouchedIs
<1>6. Was(q, l) = cache[l]
  BY <1>4, <1>5 DEF Was
<1>7. cache'[l].on = TRUE /\ \A m \in Lights \ {l} : cache'[m].on = cache[m].on
  BY <1>1, <1>2
<1>8. \A m \in {l} : Was(cmd'[c], m).on = cache[m].on /\ cache'[m].on = cmd'[c].on
  BY <1>3, <1>4, <1>6, <1>7
<1>9. Touched(cmd'[c]) = {l} /\ ~ cmd'[c].lit /\ cmd[c] = Idle /\ Act({l})
  BY <1>1, <1>3, <1>4, <1>5
<1>10. \A m \in Lights \ {l} : cache'[m].on = cache[m].on
  BY <1>7
<1>11. QED
  BY <1>8, <1>9, <1>10, SaidStarts

LEMMA SaidTurnOff ==
  ASSUME OneCommand, LightInv, SaidInv, NEW c \in Commands, NEW l \in Lights, TurnOff(c, l)
  PROVE  SaidInv'
<1> DEFINE q == Command(l, FALSE, Nothing, Nothing, cache[l], "onoff")
<1>1. /\ cache \in [Lights -> Shown] /\ cmd[c] = Idle /\ Act({l}) /\ cache' = [cache EXCEPT ![l].on = FALSE]
      /\ cmd' = [Disturbed({l}) EXCEPT ![c] = q]
  BY DEF LightInv, LightTypeOK, TurnOff, Write
<1>2. cache'[l].on = FALSE /\ \A m \in Lights \ {l} : cache'[m].on = cache[m].on
  BY <1>1 DEF Shown
<1>3. cmd'[c] = q
  BY <1>1, DisturbedIs DEF LightInv
<1>4. q.light = l /\ q.on = FALSE /\ q.was = cache[l] /\ q.lit = FALSE
  BY DEF Command
<1> HIDE DEF q
<1>5. Touched(q) = {l} /\ q.light # Group
  BY <1>4, TouchedIs
<1>6. Was(q, l) = cache[l]
  BY <1>4, <1>5 DEF Was
<1>7. \A m \in {l} : Was(cmd'[c], m).on = cache[m].on /\ cache'[m].on = cmd'[c].on
  BY <1>2, <1>3, <1>4, <1>6
<1>8. Touched(cmd'[c]) = {l} /\ ~ cmd'[c].lit /\ cmd[c] = Idle /\ Act({l})
  BY <1>1, <1>3, <1>4, <1>5
<1>9. \A m \in Lights \ {l} : cache'[m].on = cache[m].on
  BY <1>2
<1>10. QED
  BY <1>7, <1>8, <1>9, SaidStarts

LEMMA SaidGroupTurn ==
  ASSUME OneCommand, LightInv, SaidInv, NEW c \in Commands, NEW on \in BOOLEAN, NEW b, GroupTurn(c, on, b)
  PROVE  SaidInv'
<1> DEFINE q == Command(Group, on, b, Nothing, cache, FirstGroupCall(b))
<1>1. /\ cache \in [Lights -> Shown] /\ cmd[c] = Idle /\ Act(Grouped) /\ cache' = Pushed(on, b)
      /\ cmd' = [Disturbed(Grouped) EXCEPT ![c] = q]
  BY DEF LightInv, LightTypeOK, GroupTurn, Write
<1>2. /\ \A l \in Lights \ Grouped : cache'[l].on = cache[l].on
      /\ \A l \in Lights \cap Grouped : cache'[l].on = on
  BY <1>1 DEF Pushed, Request, Shown
<1>3. cmd'[c] = q
  BY <1>1, DisturbedIs DEF LightInv
<1>4. q.light = Group /\ q.on = on /\ q.was = cache /\ q.lit = FALSE
  BY DEF Command
<1> HIDE DEF q
<1>5. Touched(q) = Grouped /\ Grouped \subseteq Lights
  BY <1>4, TouchedIs
<1>6. \A l \in Grouped : Was(q, l) = cache[l]
  BY <1>4 DEF Was
<1>7. \A l \in Grouped : Was(cmd'[c], l).on = cache[l].on /\ cache'[l].on = cmd'[c].on
  BY <1>2, <1>3, <1>4, <1>5, <1>6
<1>8. QED
  BY <1>1, <1>2, <1>3, <1>4, <1>5, <1>7, SaidStarts

LEMMA SaidSends ==
  ASSUME OneCommand, LightInv, SaidInv,
         \/ \E c \in Commands : Send(c) \/ SendGroup(c)
         \/ \E l \in Lights : SendRefresh(l)
  PROVE  SaidInv'
<1>1. LightTypeOK
  BY DEF LightInv
<1>2. ASSUME UNCHANGED <<cache, cmd, said>> PROVE SaidInv'
  BY <1>2, SaidUntouched DEF OnKept, Same
<1>3. ASSUME NEW x, NoLink(x) PROVE SaidInv'
  BY <1>2, <1>3 DEF NoLink
<1>4. ASSUME NEW c \in Commands, Send(c) PROVE SaidInv'
  <2>1. CASE NoLink(c)
    BY <1>3, <2>1
  <2>2. CASE ~ NoLink(c)
    <3>1. Connected(c) /\ UNCHANGED <<cmd, said>>
      BY <1>4, <2>2 DEF Send
    <3>2. QED
      BY <1>1, <1>2, <3>1, ConnectedIs
  <2>3. QED
    BY <2>1, <2>2
<1>5. ASSUME NEW l \in Lights, SendRefresh(l) PROVE SaidInv'
  <2>1. CASE NoLink(l)
    BY <1>3, <2>1
  <2>2. CASE ~ NoLink(l)
    <3>1. Connected(l) /\ UNCHANGED <<cmd, said>>
      BY <1>5, <2>2 DEF SendRefresh
    <3>2. QED
      BY <1>1, <1>2, <3>1, ConnectedIs
  <2>3. QED
    BY <2>1, <2>2
<1>6. ASSUME NEW c \in Commands, SendGroup(c) PROVE SaidInv'
  <2>1. CASE NoLink(c)
    BY <1>3, <2>1
  <2>2. CASE ~ NoLink(c)
    <3> DEFINE q == cmd[c]  r == cmd'[c]
    <3>1. PICK reached : cmd' = [cmd EXCEPT ![c].answered = @ /\ reached = Grouped]
      BY <1>6, <2>2 DEF SendGroup
    <3>2. Connected(c) /\ said' = said /\ q.light = Group
      BY <1>6, <2>2 DEF SendGroup
    <3>3. cache' = cache
      BY <1>1, <3>2, ConnectedIs
    <3>4. IsCommand(q) /\ Touched(q) = Grouped /\ Grouped \subseteq Lights
      BY <3>2, LightCommandIs, LightsAssumption
    <3>5. r.light = Group /\ r.on = q.on /\ r.was = q.was /\ r.lit = q.lit
      BY <1>1, <3>1, <3>2, <3>4 DEF LightTypeOK, IsCommand
    <3>6. Touched(r) = Grouped
      BY <3>5, TouchedIs
    <3>7. \A d \in Commands : d = c
      BY DEF OneCommand
    <3>8. ASSUME NEW l \in Grouped PROVE SaidOf(l)'
      <4>1. Backed(q, l)
        BY <3>4, <3>8 DEF SaidInv, SaidOf
      <4>2. Was(r, l) = Was(q, l)
        BY <3>2, <3>5 DEF Was
      <4>3. Backed(cmd[c], l)'
        <5>1. Backed(cmd[c], l)' = ( /\ Was(r, l).on \in said'[l]
                                     /\ cache'[l].on \in said'[l] \cup {r.on}
                                     /\ r.lit => TRUE \in said'[l] )
          BY DEF Backed, Was
        <5> HIDE DEF r
        <5>2. QED
          BY <3>2, <3>3, <3>5, <4>1, <4>2, <5>1 DEF Backed
      <4>4. c \in {d \in Commands : l \in Touched(cmd'[d])}
        BY <3>6
      <4>5. QED
        BY <3>7, <4>3, <4>4 DEF SaidOf, Commanding, Touched
    <3>9. \A l \in Lights \ Grouped : OnKept(l)
      BY <3>2, <3>3 DEF OnKept
    <3>10. \A d \in Commands : d # c => Same(cmd[d], cmd'[d]) /\ Touched(cmd'[d]) = Touched(cmd[d])
      BY <3>7
    <3>11. c \in Commands => Touched(cmd[c]) \subseteq Grouped /\ Touched(cmd'[c]) \subseteq Grouped
      BY <3>4, <3>6
    <3>12. \A l \in Lights \cap Grouped : SaidOf(l)'
      BY <3>8
    <3>13. QED
      BY <3>9, <3>10, <3>11, <3>12, SaidKeeps
  <2>3. QED
    BY <2>1, <2>2
<1>7. QED
  BY <1>4, <1>5, <1>6

LEMMA SaidAnswerRefresh ==
  ASSUME LightInv, SaidInv, NEW l \in Lights, AnswerRefresh(l)
  PROVE  SaidInv'
<1> DEFINE call == refresh[l]  silent == call = "onoff" /\ reply = Nothing
<1>1. /\ LightTypeOK /\ cache \in [Lights -> Shown] /\ said \in [Lights -> SUBSET (BOOLEAN \cup {Nothing})]
      /\ cache' = Read(l) /\ cmd' = Disturbed({l}) /\ holder = l /\ call # "idle"
      /\ said' = IF call = "onoff" /\ ~ silent THEN [said EXCEPT ![l] = @ \cup {reply}] ELSE said
  BY DEF LightInv, LightTypeOK, AnswerRefresh, Write, Unwritten
<1>2. \A d \in Commands : Same(cmd[d], cmd'[d]) /\ Touched(cmd'[d]) = Touched(cmd[d])
  BY <1>1, DisturbedIs
<1>3. \A m \in Lights : OnKept(m)
  <2>1. CASE reply = Nothing
    BY <1>1, <2>1 DEF Read, OnKept
  <2>2. CASE reply # Nothing
    <3>1. ReadTrue(l)
      BY <1>1, <2>2 DEF LightInv, InFlight
    <3>2. /\ \A m \in Lights \ {l} : cache'[m] = cache[m]
          /\ call = "onoff" => cache'[l] = [cache[l] EXCEPT !.on = reply]
          /\ call = "lightness" => cache'[l] = [cache[l] EXCEPT !.bri = reply]
          /\ call = "temp" => cache'[l] = [cache[l] EXCEPT !.temp = Kelvin(l, lamp[l].temp)]
          /\ call = "range" => cache'[l] = [cache[l] EXCEPT !.pivot = reply[1] + reply[2]]
      BY <1>1, <2>2, <3>1, ReadIs
    <3>3. cache[l] \in Shown /\ call \in {"onoff", "lightness", "range", "temp"}
      BY <1>1 DEF LightTypeOK
    <3>4. \A m \in Lights : said[m] \subseteq said'[m]
      BY <1>1
    <3>5. CASE call = "onoff"
      <4>1. cache'[l].on = reply
        BY <3>2, <3>3, <3>5 DEF Shown
      <4>2. reply \in said'[l]
        BY <1>1, <2>2, <3>5
      <4>3. QED
        BY <3>2, <3>4, <4>1, <4>2 DEF OnKept
    <3>6. CASE call # "onoff"
      <4>1. cache'[l].on = cache[l].on
        BY <3>2, <3>3, <3>6 DEF Shown
      <4>2. QED
        BY <3>2, <3>4, <4>1 DEF OnKept
    <3>7. QED
      BY <3>5, <3>6
  <2>3. QED
    BY <2>1, <2>2
<1>4. QED
  BY <1>2, <1>3, SaidUntouched

LEMMA SaidAnswer ==
  ASSUME OneCommand, LightInv, SaidInv, NEW c \in Commands, Answer(c)
  PROVE  SaidInv'
<1>1. PICK l \in Lights : l = cmd[c].light
  BY DEF Answer
<1> DEFINE q == cmd[c]
           x == Settle(q, reply, cache[l])
           y == Unlit(q, reply, x)
           next == NextCall(q)
           given == reply # Nothing
           r == cmd'[c]
<1>2. /\ LightTypeOK /\ Touched(q) = {l} /\ q # Idle /\ IsCommand(q) /\ CommandFits(q) /\ q.was \in Shown
      /\ q.call \in {"onoff", "lightness", "ctl", "temp"} /\ q.light = l /\ q.light # Group
      /\ cache \in [Lights -> Shown] /\ said \in [Lights -> SUBSET (BOOLEAN \cup {Nothing})]
      /\ q.on \in BOOLEAN /\ q.lit \in BOOLEAN /\ DOMAIN cmd = Commands
  BY <1>1, LightCommandIs DEF IsCommand, LightInv, LightTypeOK
<1>3. reply # Nothing => AnsweredTrue(cmd[c], l)
  BY <1>2 DEF LightInv, InFlight, Answer
<1>4. /\ cache' = [cache EXCEPT ![l] = IF next = "done" THEN y ELSE x]
      /\ r = IF next = "done" THEN Idle
             ELSE [q EXCEPT !.call = next, !.lit = Lit(q, reply), !.answered = @ /\ given,
                            !.carries = IF next = "onoff" THEN Nothing ELSE Carries(l, q.temp, x.bri)]
      /\ said' = IF ~ given \/ q.call = "temp" THEN said
                 ELSE [said EXCEPT ![l] = @ \cup {IF q.call = "onoff" THEN reply ELSE TRUE}]
  BY <1>1, <1>2 DEF Answer, Write, Unwritten
<1>5. /\ q.call = "onoff" => x = [cache[l] EXCEPT !.on = IF reply = Nothing THEN q.was.on ELSE reply]
                             /\ y = x
      /\ q.call # "onoff" => x.on = cache[l].on
      /\ q.call # "onoff" => y.on = IF Lit(q, reply) THEN cache[l].on ELSE q.was.on
  BY <1>1, <1>3, SettleIs
<1>6. Backed(q, l)
  BY <1>2 DEF SaidInv, SaidOf
<1>7. Was(q, l) = q.was
  BY <1>2 DEF Was
<1>8. \A d \in Commands : d = c
  BY DEF OneCommand
<1>9. /\ said[l] \subseteq said'[l]
      /\ given /\ q.call = "onoff" => reply \in said'[l]
      /\ given /\ q.call \in {"lightness", "ctl"} => TRUE \in said'[l]
  BY <1>2, <1>4
<1>10. cache'[l] = IF next = "done" THEN y ELSE x
  BY <1>2, <1>4
<1>11. Lit(q, reply) => TRUE \in said'[l]
  BY <1>6, <1>9 DEF Backed, Lit
<1>12. q.call # "onoff" => q.on = TRUE
  BY <1>2 DEF CommandFits
<1> HIDE DEF q, x, y, next, given
<1>13. CASE next = "done"
  <2>1. Touched(r) = {}
    BY <1>4, <1>13, TouchedIs
  <2>2. cache'[l].on \in said'[l]
    <3>1. CASE q.call = "onoff"
      <4>1. cache'[l] = [cache[l] EXCEPT !.on = IF reply = Nothing THEN q.was.on ELSE reply]
        BY <1>5, <1>10, <1>13, <3>1
      <4>2. cache[l] \in Shown
        BY <1>2
      <4>3. cache'[l].on = IF reply = Nothing THEN q.was.on ELSE reply
        BY <4>1, <4>2 DEF Shown
      <4>4. QED
        BY <1>6, <1>7, <1>9, <3>1, <4>3 DEF Backed, given
    <3>2. CASE q.call # "onoff"
      <4>1. cache'[l].on = IF Lit(q, reply) THEN cache[l].on ELSE q.was.on
        BY <1>5, <1>10, <1>13, <3>2
      <4>2. QED
        BY <1>6, <1>7, <1>9, <1>11, <1>12, <3>2, <4>1 DEF Backed
    <3>3. QED
      BY <3>1, <3>2
  <2>3. SaidOf(l)'
    BY <1>8, <2>1, <2>2 DEF SaidOf, Touched
  <2>4. \A m \in Lights \ {l} : OnKept(m)
    BY <1>2, <1>4 DEF OnKept
  <2>5. \A d \in Commands : d # c => Same(cmd[d], cmd'[d]) /\ Touched(cmd'[d]) = Touched(cmd[d])
    BY <1>8
  <2>6. c \in Commands => Touched(cmd[c]) \subseteq {l} /\ Touched(cmd'[c]) \subseteq {l}
    BY <1>2, <2>1 DEF q
  <2>7. \A m \in Lights \cap {l} : SaidOf(m)'
    BY <2>3
  <2>8. QED
    BY <2>4, <2>5, <2>6, <2>7, SaidKeeps
<1>14. CASE next # "done"
  <2>1. /\ r.light = l /\ r.on = q.on /\ r.was = q.was /\ r.lit = Lit(q, reply)
    BY <1>2, <1>4, <1>14 DEF IsCommand
  <2> HIDE DEF r
  <2>2. Touched(r) = {l} /\ Was(r, l) = q.was
    BY <1>2, <2>1, TouchedIs DEF Was
  <2>3. q.call # "onoff"
    BY <1>14 DEF NextCall, next
  <2>4. cache'[l].on = cache[l].on
    BY <1>5, <1>10, <1>14, <2>3
  <2>5. Backed(cmd[c], l)'
    <3>1. Backed(cmd[c], l)' = ( /\ Was(r, l).on \in said'[l]
                                 /\ cache'[l].on \in said'[l] \cup {r.on}
                                 /\ r.lit => TRUE \in said'[l] )
      BY DEF Backed, Was, r
    <3>2. Was(r, l).on \in said'[l]
      BY <1>6, <1>7, <1>9, <2>2 DEF Backed
    <3>3. cache'[l].on \in said'[l] \cup {r.on}
      BY <1>6, <1>9, <2>1, <2>4 DEF Backed
    <3>4. r.lit => TRUE \in said'[l]
      BY <1>11, <2>1
    <3>5. QED
      BY <3>1, <3>2, <3>3, <3>4
  <2>6. SaidOf(l)'
    <3>1. c \in {d \in Commands : l \in Touched(cmd'[d])}
      BY <2>2 DEF r
    <3>2. QED
      BY <1>8, <2>5, <3>1 DEF SaidOf, Commanding, Touched
  <2>7. \A m \in Lights \ {l} : OnKept(m)
    BY <1>2, <1>4 DEF OnKept
  <2>8. \A d \in Commands : d # c => Same(cmd[d], cmd'[d]) /\ Touched(cmd'[d]) = Touched(cmd[d])
    BY <1>8
  <2>9. c \in Commands => Touched(cmd[c]) \subseteq {l} /\ Touched(cmd'[c]) \subseteq {l}
    BY <1>2, <2>2 DEF q, r
  <2>10. \A m \in Lights \cap {l} : SaidOf(m)'
    BY <2>6
  <2>11. QED
    BY <2>7, <2>8, <2>9, <2>10, SaidKeeps
<1>15. QED
  BY <1>13, <1>14

LEMMA SaidAnswerGroup ==
  ASSUME OneCommand, LightInv, SaidInv, NEW c \in Commands, AnswerGroup(c)
  PROVE  SaidInv'
<1> DEFINE q == cmd[c]
           left == reply # Nothing
           next == IF left THEN AfterGroupCall(q) ELSE "done"
           r == cmd'[c]
<1>1. /\ LightTypeOK /\ Touched(q) = Grouped /\ q # Idle /\ IsCommand(q) /\ CommandFits(q) /\ q.light = Group
      /\ q.was \in [Lights -> Shown] /\ q.on \in BOOLEAN /\ q.lit \in BOOLEAN /\ Grouped \subseteq Lights
      /\ cache \in [Lights -> Shown] /\ said \in [Lights -> SUBSET (BOOLEAN \cup {Nothing})]
      /\ DOMAIN cmd = Commands
  BY LightCommandIs, LightsAssumption DEF AnswerGroup, IsCommand, LightInv, LightTypeOK
<1>2. /\ left => cache' = cache
      /\ ~ left => cache' = RolledBack(q)
      /\ r = IF next = "done" THEN Idle ELSE [q EXCEPT !.call = next, !.lit = TRUE]
      /\ said' = IF ~ left THEN said
                 ELSE [l \in Lights |-> IF l \in Grouped THEN said[l] \cup {q.on} ELSE said[l]]
  BY <1>1 DEF AnswerGroup, Write
<1>3. \A d \in Commands : d = c
  BY DEF OneCommand
<1>4. \A l \in Grouped : Backed(q, l) /\ Was(q, l) = q.was[l]
  BY <1>1 DEF SaidInv, SaidOf, Was
<1>5. next # "done" => left /\ q.bri # Nothing
  BY DEF AfterGroupCall
<1>6. next # "done" => q.on = TRUE
  BY <1>1, <1>5 DEF CommandFits
<1> HIDE DEF next
<1>7. next # "done" => r.light = Group /\ r.on = q.on /\ r.was = q.was /\ r.lit = TRUE
  BY <1>1, <1>2 DEF IsCommand
<1> HIDE DEF r, q
<1>8. \A l \in Lights \ Grouped : OnKept(l)
  BY <1>1, <1>2 DEF OnKept, RolledBack
<1>9. ASSUME NEW l \in Grouped, left
      PROVE  said[l] \subseteq said'[l] /\ q.on \in said'[l] /\ cache'[l].on = cache[l].on
  BY <1>1, <1>2, <1>9
<1>10. ASSUME NEW l \in Grouped, ~ left PROVE cache'[l].on \in said'[l]
  <2>1. l \in Lights /\ cache[l] \in Shown /\ q.was[l] \in Shown /\ said' = said
    BY <1>1, <1>2, <1>10
  <2> DEFINE back == [cache[l] EXCEPT !.bri = q.was[l].bri, !.on = IF q.lit THEN TRUE ELSE q.was[l].on]
  <2>2. cache'[l] = back
    BY <1>2, <1>10, <2>1 DEF RolledBack
  <2>3. back.on = IF q.lit THEN TRUE ELSE q.was[l].on
    BY <1>1, <2>1 DEF Shown
  <2> HIDE DEF back
  <2>4. QED
    BY <1>1, <1>4, <2>1, <2>2, <2>3 DEF Backed
<1>11. CASE next = "done"
  <2>1. Touched(r) = {}
    BY <1>2, <1>11, TouchedIs
  <2>2. ASSUME NEW l \in Grouped PROVE cache'[l].on \in said'[l]
    BY <1>4, <1>9, <1>10, <2>2 DEF Backed
  <2>3. \A l \in Lights \cap Grouped : SaidOf(l)'
    BY <1>3, <2>1, <2>2 DEF SaidOf, Touched, r
  <2>4. \A d \in Commands : d # c => Same(cmd[d], cmd'[d]) /\ Touched(cmd'[d]) = Touched(cmd[d])
    BY <1>3
  <2>5. c \in Commands => Touched(cmd[c]) \subseteq Grouped /\ Touched(cmd'[c]) \subseteq Grouped
    BY <1>1, <2>1 DEF q, r
  <2>6. QED
    BY <1>8, <2>3, <2>4, <2>5, SaidKeeps
<1>12. CASE next # "done"
  <2>1. Touched(r) = Grouped /\ \A l \in Grouped : Was(r, l) = q.was[l]
    BY <1>7, <1>12, TouchedIs DEF Was
  <2>2. ASSUME NEW l \in Grouped PROVE SaidOf(l)'
    <3>1. said[l] \subseteq said'[l] /\ q.on \in said'[l] /\ cache'[l].on = cache[l].on
      BY <1>5, <1>9, <1>12, <2>2
    <3>2. Backed(cmd[c], l)' = ( /\ Was(r, l).on \in said'[l]
                                 /\ cache'[l].on \in said'[l] \cup {r.on}
                                 /\ r.lit => TRUE \in said'[l] )
      BY DEF Backed, Was, r
    <3>3. Was(r, l).on \in said'[l]
      BY <1>4, <2>1, <3>1 DEF Backed
    <3>4. cache'[l].on \in said'[l] \cup {r.on}
      BY <1>4, <1>7, <1>12, <3>1 DEF Backed
    <3>5. TRUE \in said'[l]
      BY <1>6, <1>12, <3>1
    <3>6. Backed(cmd[c], l)'
      BY <3>2, <3>3, <3>4, <3>5
    <3>7. c \in {d \in Commands : l \in Touched(cmd'[d])}
      BY <2>1 DEF r
    <3>8. QED
      BY <1>3, <3>6, <3>7 DEF SaidOf, Commanding, Touched
  <2>3. \A l \in Lights \cap Grouped : SaidOf(l)'
    BY <2>2
  <2>4. \A d \in Commands : d # c => Same(cmd[d], cmd'[d]) /\ Touched(cmd'[d]) = Touched(cmd[d])
    BY <1>3
  <2>5. c \in Commands => Touched(cmd[c]) \subseteq Grouped /\ Touched(cmd'[c]) \subseteq Grouped
    BY <1>1, <2>1 DEF q, r
  <2>6. QED
    BY <1>8, <2>3, <2>4, <2>5, SaidKeeps
<1>13. QED
  BY <1>11, <1>12

\* What a cancelled command asked for is one of the states its lights may show.
LEMMA SaidCancelled ==
  ASSUME OneCommand, LightInv, SaidInv, NEW c \in Commands, CommandCancelled(c)
  PROVE  SaidInv'
<1> DEFINE q == cmd[c]  ls == Touched(q)
<1>1. /\ cmd' = [cmd EXCEPT ![c] = Idle] /\ cache' = cache
      /\ said' = [l \in Lights |-> IF l \in ls THEN said[l] \cup {q.on} ELSE said[l]]
  BY DEF CommandCancelled
<1>2. DOMAIN cmd = Commands
  BY DEF LightInv, LightTypeOK
<1> HIDE DEF q, ls
<1>3. cmd'[c] = Idle /\ Touched(cmd'[c]) = {}
  BY <1>1, <1>2, TouchedIs
<1>4. \A d \in Commands : d = c
  BY DEF OneCommand
<1>5. ASSUME NEW l \in Lights \cap ls PROVE SaidOf(l)'
  <2>1. Backed(q, l)
    BY <1>5 DEF SaidInv, SaidOf, ls, q
  <2>2. cache'[l].on \in said'[l]
    BY <1>1, <1>5, <2>1 DEF Backed
  <2>3. QED
    BY <1>3, <1>4, <2>2 DEF SaidOf, Touched
<1>6. \A l \in Lights \ ls : OnKept(l)
  BY <1>1 DEF OnKept
<1>7. \A d \in Commands : d # c => Same(cmd[d], cmd'[d]) /\ Touched(cmd'[d]) = Touched(cmd[d])
  BY <1>4
<1>8. c \in Commands => Touched(cmd[c]) \subseteq ls /\ Touched(cmd'[c]) \subseteq ls
  BY <1>3 DEF ls, q
<1>9. \A l \in Lights \cap ls : SaidOf(l)'
  BY <1>5
<1>10. QED
  BY <1>6, <1>7, <1>8, <1>9, SaidKeeps

LEMMA SaidStep ==
  ASSUME OneCommand, LightInv, SaidInv, [LightNext]_lightVars
  PROVE  SaidInv'
<1>1. LightTypeOK
  BY DEF LightInv
<1>2. ASSUME UNCHANGED <<cache, said>>,
             \A d \in Commands : Same(cmd[d], cmd'[d]) /\ Touched(cmd'[d]) = Touched(cmd[d])
      PROVE  SaidInv'
  BY <1>2, SaidUntouched DEF OnKept
<1>18. ASSUME NEW c \in Commands, CommandCancelled(c) PROVE SaidInv'
  BY <1>18, SaidCancelled
<1>3. ASSUME UNCHANGED <<cache, cmd, said>> PROVE SaidInv'
  BY <1>2, <1>3 DEF Same
<1>4. CASE UNCHANGED lightVars
  BY <1>3, <1>4 DEF lightVars
<1>5. ASSUME NEW c \in Commands, NEW l \in Lights, NEW b \in Levels \cup {Nothing},
             NEW k \in Temps \cup {Nothing}, TurnOn(c, l, b, k)
      PROVE  SaidInv'
  BY <1>5, SaidTurnOn
<1>6. ASSUME NEW c \in Commands, NEW l \in Lights, TurnOff(c, l) PROVE SaidInv'
  BY <1>6, SaidTurnOff
<1>7. ASSUME NEW c \in Commands, NEW on \in BOOLEAN, NEW b \in Levels \cup {Nothing}, GroupTurn(c, on, b)
      PROVE  SaidInv'
  BY <1>7, SaidGroupTurn
<1>8. ASSUME NEW c \in Commands, Send(c) \/ SendGroup(c) PROVE SaidInv'
  BY <1>8, SaidSends
<1>9. ASSUME NEW c \in Commands, Answer(c) PROVE SaidInv'
  BY <1>9, SaidAnswer
<1>10. ASSUME NEW c \in Commands, AnswerGroup(c) PROVE SaidInv'
  BY <1>10, SaidAnswerGroup
<1>11. ASSUME NEW l \in Lights, SendRefresh(l) PROVE SaidInv'
  BY <1>11, SaidSends
<1>12. ASSUME NEW l \in Lights, AnswerRefresh(l) PROVE SaidInv'
  BY <1>12, SaidAnswerRefresh
<1>13. ASSUME NEW l \in Lights, Outside(l) PROVE SaidInv'
  <2>1. cmd' = Disturbed({l}) /\ UNCHANGED <<cache, said>>
    BY <1>13 DEF Outside
  <2>2. QED
    BY <1>1, <1>2, <2>1, DisturbedIs
<1>14. ASSUME NEW l \in Lights, FadeEnds(l) PROVE SaidInv'
  BY <1>3, <1>14 DEF FadeEnds
<1>15. CASE Reconnect
  <2>1. NewLink /\ UNCHANGED <<cmd, said>>
    BY <1>15 DEF Reconnect
  <2>2. QED
    BY <1>1, <1>3, <2>1, NewLinkIs
<1>16. CASE LinkDrops
  BY <1>3, <1>16 DEF LinkDrops
<1>17. QED
  BY <1>4, <1>5, <1>6, <1>7, <1>8, <1>9, <1>10, <1>11, <1>12, <1>13, <1>14, <1>15, <1>16, <1>18 DEF LightNext

\* When commands do not overlap, a light at rest shows an on-state that its lamp
\* answered, that a group Set carried or that a cancelled command left standing:
\* whatever met with silence was taken back (light.py, _settle_onoff and the end of
\* async_turn_on; MeshGroupLight._roll_back).
THEOREM SilenceLeavesNoState ==
  ASSUME OneCommand
  PROVE  LightSpec => []UnansweredIsNoState
<1>1. LightInit => SaidInv
  <2>1. SUFFICES ASSUME LightInit, NEW l \in Lights PROVE SaidOf(l)
    BY DEF SaidInv
  <2>2. cache[l].on = Nothing /\ said[l] = {Nothing}
    BY <2>1 DEF LightInit, Unknown
  <2>3. \A c \in Commands : Touched(cmd[c]) = {}
    BY <2>1, TouchedIs DEF LightInit
  <2>4. QED
    BY <2>2, <2>3 DEF SaidOf
<1>2. LightInv /\ SaidInv /\ [LightNext]_lightVars => SaidInv'
  BY OneCommand, SaidStep
<1>3. SaidInv => UnansweredIsNoState
  BY DEF SaidInv, SaidOf, UnansweredIsNoState, Quiet
<1>4. QED
  BY <1>1, <1>2, <1>3, LightsKeepTheirBooks, PTL DEF LightSpec
----------------------------------------------------------------------------
(***************************************************************************)
(* What Home Assistant and the group were told.                            *)
(*                                                                         *)
(* Every state reaches the cache before it is written: a coroutine settles *)
(* an answer and goes on to its next call, and writes only at its end.     *)
(* Who owes a write is therefore a command of that one light, or a read    *)
(* past its first answer; a group's command owes none.                     *)
(***************************************************************************)

ItsOwn(l) == {c \in Commands : cmd[c].light = l}
Owing(l) == ItsOwn(l) # {} \/ refresh[l] \notin {"idle", "onoff"}

WrittenOf(l) ==
  /\ l \in Added => written[l] = cache[l]
  /\ l \in Grouped => seen[l] = cache[l]

WrittenInv == \A l \in Lights : l \notin cut /\ ~ Owing(l) => WrittenOf(l)

\* A write leaves nothing to write of the lights it is for.
LEMMA WriteTells ==
  ASSUME LightTypeOK, NEW ls, NEW now, Write(ls, now), NEW m \in Lights, m \notin cut',
         m \in ls \/ (now[m] = cache[m] /\ (m \notin cut => WrittenOf(m)))
  PROVE  WrittenOf(m)'
<1>1. /\ cache' = now /\ seen' = (IF ls \cap Grouped = {} THEN seen ELSE now)
      /\ written'[m] = IF m \in ls \cap Added THEN now[m] ELSE written[m]
      /\ m \in ls \/ WrittenOf(m)
  BY DEF Write, Told
<1>2. Grouped \subseteq Lights
  BY LightsAssumption
<1>3. QED
  BY <1>1, <1>2 DEF WrittenOf, Added

\* Who owes a write after a step that leaves the commands their lights.
LEMMA OwingHolds ==
  ASSUME \A c \in Commands : cmd'[c].light = cmd[c].light, NEW m \in Lights,
         refresh'[m] \in {"idle", "onoff"} => refresh[m] \in {"idle", "onoff"}, ~ Owing(m)'
  PROVE  ~ Owing(m)
BY DEF Owing, ItsOwn

\* One command, whose own light is written or was none: the others owe what they owed.
LEMMA OwingMoves ==
  ASSUME NEW c \in Commands, \A d \in Commands \ {c} : cmd'[d].light = cmd[d].light,
         NEW m \in Lights, m # cmd[c].light, refresh' = refresh, ~ Owing(m)'
  PROVE  ~ Owing(m)
BY DEF Owing, ItsOwn

LEMMA WrittenTurns ==
  ASSUME LightInv, WrittenInv, NEW c \in Commands,
         (\E l \in Lights : \E b, k : TurnOn(c, l, b, k)) \/ (\E l \in Lights : TurnOff(c, l))
           \/ (\E on, b : GroupTurn(c, on, b))
  PROVE  WrittenInv'
<1>1. LightTypeOK /\ cache \in [Lights -> Shown] /\ DOMAIN cmd = Commands
  BY DEF LightInv, LightTypeOK
<1> DEFINE Starts(ls) ==
             /\ cmd[c] = Idle /\ refresh' = refresh
             /\ \A d \in Commands \ {c} : cmd'[d] = Disturbed(ls)[d]
             /\ \E now : Write(ls, now) /\ \A m \in Lights \ ls : now[m] = cache[m]
<1>2. PICK ls : Starts(ls)
  <2>1. ASSUME NEW l \in Lights, NEW b, NEW k, TurnOn(c, l, b, k) PROVE Starts({l})
    BY <1>1, <2>1, DisturbedIs DEF TurnOn
  <2>2. ASSUME NEW l \in Lights, TurnOff(c, l) PROVE Starts({l})
    BY <1>1, <2>2, DisturbedIs DEF TurnOff
  <2>3. ASSUME NEW on, NEW b, GroupTurn(c, on, b) PROVE Starts(Grouped)
    BY <1>1, <2>3, DisturbedIs DEF GroupTurn, Pushed
  <2> HIDE DEF Starts
  <2>4. QED
    BY <2>1, <2>2, <2>3
<1>3. PICK now : Write(ls, now) /\ \A m \in Lights \ ls : now[m] = cache[m]
  BY <1>2
<1>4. \A d \in Commands \ {c} : cmd'[d].light = cmd[d].light
  BY <1>1, <1>2, DisturbedIs DEF Same
<1>5. SUFFICES ASSUME NEW m \in Lights, m \notin cut', ~ Owing(m)' PROVE WrittenOf(m)'
  BY DEF WrittenInv
<1>6. cmd[c].light = Nothing /\ m # Nothing
  BY <1>2, NothingIs DEF Idle
<1>7. ~ Owing(m)
  BY <1>2, <1>4, <1>5, <1>6, OwingMoves
<1>8. QED
  BY <1>1, <1>3, <1>5, <1>7, WriteTells DEF WrittenInv

\* A call of a command or of a read, and a link that is made under it.
LEMMA WrittenLinks ==
  ASSUME LightInv, WrittenInv,
         (UNCHANGED <<cache, written, seen, cut, refresh>>) \/ NewLink,
         \A c \in Commands : cmd'[c].light = cmd[c].light
  PROVE  WrittenInv'
<1>1. LightTypeOK /\ refresh \in [Lights -> {"idle", "onoff", "lightness", "range", "temp"}]
  BY DEF LightInv, LightTypeOK
<1>2. SUFFICES ASSUME NEW m \in Lights, m \notin cut', ~ Owing(m)' PROVE WrittenOf(m)'
  BY DEF WrittenInv
<1>3. refresh'[m] \in {"idle", "onoff"} => refresh[m] \in {"idle", "onoff"}
  BY <1>1 DEF NewLink
<1>4. m \notin cut => WrittenOf(m)
  BY <1>2, <1>3, OwingHolds DEF WrittenInv
<1>5. CASE UNCHANGED <<cache, written, seen, cut, refresh>>
  BY <1>2, <1>4, <1>5 DEF WrittenOf
<1>6. CASE NewLink
  BY <1>1, <1>2, <1>4, <1>6, WriteTells DEF NewLink
<1>7. QED
  BY <1>5, <1>6

LEMMA WrittenAnswer ==
  ASSUME LightInv, WrittenInv, NEW c \in Commands, Answer(c)
  PROVE  WrittenInv'
<1> DEFINE l == cmd[c].light
           done == NextCall(cmd[c]) = "done"
           settled == Settle(cmd[c], reply, cache[l])
           ended == [cache EXCEPT ![l] = Unlit(cmd[c], reply, settled)]
<1>1. LightTypeOK /\ cache \in [Lights -> Shown] /\ DOMAIN cmd = Commands
  BY DEF LightInv, LightTypeOK
<1>2. /\ l \in Lights /\ refresh' = refresh
      /\ \A d \in Commands \ {c} : cmd'[d] = cmd[d]
      /\ done => Write({l}, ended)
      /\ ~ done => /\ cmd'[c].light = l
                   /\ Unwritten([cache EXCEPT ![l] = settled])
  <2>1. cmd[c] # Idle
    BY NothingIs DEF Answer, Idle
  <2>2. DOMAIN cmd[c] = {"light", "on", "bri", "temp", "was", "call", "carries", "lit", "answered", "alone"}
    BY <1>1, <2>1 DEF LightTypeOK, IsCommand
  <2>3. QED
    BY <1>1, <2>2 DEF Answer
<1>3. SUFFICES ASSUME NEW m \in Lights, m \notin cut', ~ Owing(m)' PROVE WrittenOf(m)'
  BY DEF WrittenInv
<1>4. CASE m = l
  <2>1. done
    BY <1>2, <1>3, <1>4 DEF Owing, ItsOwn
  <2>2. QED
    BY <1>1, <1>2, <1>3, <1>4, <2>1, WriteTells
<1>5. CASE m # l
  <2>1. m \notin cut => WrittenOf(m)
    BY <1>2, <1>3, <1>5, OwingMoves DEF WrittenInv
  <2>2. CASE done
    <3>1. ended[m] = cache[m]
      BY <1>1, <1>5
    <3>2. Write({l}, ended)
      BY <1>2, <2>2
    <3> HIDE DEF ended, l
    <3>3. QED
      BY <1>1, <1>3, <2>1, <3>1, <3>2, WriteTells
  <2>3. CASE ~ done
    BY <1>1, <1>2, <1>3, <1>5, <2>1, <2>3 DEF Unwritten, WrittenOf
  <2>4. QED
    BY <2>2, <2>3
<1>6. QED
  BY <1>4, <1>5

LEMMA WrittenAnswerGroup ==
  ASSUME LightInv, WrittenInv, NEW c \in Commands, AnswerGroup(c)
  PROVE  WrittenInv'
<1>1. LightTypeOK /\ cache \in [Lights -> Shown] /\ DOMAIN cmd = Commands
  BY DEF LightInv, LightTypeOK
<1>2. /\ cmd[c].light = Group /\ refresh' = refresh
      /\ \A d \in Commands \ {c} : cmd'[d] = cmd[d]
      /\ UNCHANGED <<cache, written, seen, cut>> \/ Write(Grouped, RolledBack(cmd[c]))
  BY <1>1 DEF AnswerGroup
<1>3. SUFFICES ASSUME NEW m \in Lights, m \notin cut', ~ Owing(m)' PROVE WrittenOf(m)'
  BY DEF WrittenInv
<1>4. m \notin cut => WrittenOf(m)
  BY <1>2, <1>3, NothingIs, OwingMoves DEF WrittenInv
<1>5. CASE UNCHANGED <<cache, written, seen, cut>>
  BY <1>3, <1>4, <1>5 DEF WrittenOf
<1>6. CASE Write(Grouped, RolledBack(cmd[c]))
  <2>1. m \notin Grouped => RolledBack(cmd[c])[m] = cache[m]
    BY DEF RolledBack
  <2>2. QED
    BY <1>1, <1>3, <1>4, <1>6, <2>1, WriteTells
<1>7. QED
  BY <1>2, <1>5, <1>6

LEMMA WrittenAnswerRefresh ==
  ASSUME LightInv, WrittenInv, NEW l \in Lights, AnswerRefresh(l)
  PROVE  WrittenInv'
<1> DEFINE call == refresh[l]
           silent == call = "onoff" /\ reply = Nothing
           next == IF silent THEN "idle" ELSE AfterRead(l)
<1>1. /\ LightTypeOK /\ cache \in [Lights -> Shown]
      /\ refresh \in [Lights -> {"idle", "onoff", "lightness", "range", "temp"}] /\ reply = reply
  BY DEF LightInv, LightTypeOK
<1>2. /\ refresh' = [refresh EXCEPT ![l] = next] /\ cmd' = Disturbed({l}) /\ call # "idle"
      /\ IF next = "idle" /\ ~ silent THEN Write({l}, Read(l)) ELSE Unwritten(Read(l))
  BY DEF AnswerRefresh
<1>3. \A m \in Lights \ {l} : Read(l)[m] = cache[m]
  BY <1>1 DEF Read
<1>4. \A c \in Commands : cmd'[c].light = cmd[c].light
  BY <1>1, <1>2, DisturbedIs DEF Same
<1>5. next # "onoff"
  BY DEF AfterRead, Temperature
<1>6. SUFFICES ASSUME NEW m \in Lights, m \notin cut', ~ Owing(m)' PROVE WrittenOf(m)'
  BY DEF WrittenInv
<1>7. CASE m # l
  <2>1. m \notin cut => WrittenOf(m)
    BY <1>1, <1>2, <1>4, <1>6, <1>7, OwingHolds DEF WrittenInv
  <2>2. QED
    BY <1>1, <1>2, <1>3, <1>6, <1>7, <2>1, WriteTells DEF Unwritten, WrittenOf
<1>8. CASE m = l
  <2>1. refresh'[l] = next /\ refresh'[l] \in {"idle", "onoff"}
    BY <1>1, <1>2, <1>6, <1>8 DEF Owing
  <2>2. CASE silent
    <3>1. Unwritten(cache)
      BY <1>2, <2>2 DEF Read
    <3>2. m \notin cut => WrittenOf(m)
      BY <1>4, <1>6, <1>8, <2>2, OwingHolds DEF WrittenInv
    <3>3. QED
      BY <1>6, <3>1, <3>2 DEF Unwritten, WrittenOf
  <2>3. CASE ~ silent
    BY <1>1, <1>2, <1>5, <1>6, <1>8, <2>1, <2>3, WriteTells
  <2>4. QED
    BY <2>2, <2>3
<1>9. QED
  BY <1>7, <1>8

\* A cancelled command of one light may owe what it settled; the others owe what they owed.
LEMMA WrittenCancelled ==
  ASSUME LightInv, WrittenInv, NEW c \in Commands, CommandCancelled(c)
  PROVE  WrittenInv'
<1>1. /\ \A d \in Commands \ {c} : cmd'[d].light = cmd[d].light
      /\ cut' = cut \cup (Lights \cap {cmd[c].light}) /\ UNCHANGED <<cache, written, seen, refresh>>
  BY DEF CommandCancelled, LightInv, LightTypeOK
<1>2. SUFFICES ASSUME NEW m \in Lights, m \notin cut', ~ Owing(m)' PROVE WrittenOf(m)'
  BY DEF WrittenInv
<1>3. m # cmd[c].light /\ m \notin cut
  BY <1>1, <1>2
<1>4. WrittenOf(m)
  BY <1>1, <1>2, <1>3, OwingMoves DEF WrittenInv
<1>5. QED
  BY <1>1, <1>4 DEF WrittenOf

LEMMA WrittenStep ==
  ASSUME LightInv, WrittenInv, [LightNext]_lightVars
  PROVE  WrittenInv'
<1>1. LightTypeOK
  BY DEF LightInv
<1>16. ASSUME NEW c \in Commands, CommandCancelled(c) PROVE WrittenInv'
  BY <1>16, WrittenCancelled
<1>2. ASSUME UNCHANGED <<cmd, cache, written, seen, cut, refresh>> PROVE WrittenInv'
  BY <1>2, WrittenLinks
<1>3. CASE UNCHANGED lightVars
  BY <1>2, <1>3 DEF lightVars
<1>4. ASSUME NEW c \in Commands, NEW l \in Lights, NEW b \in Levels \cup {Nothing},
             NEW k \in Temps \cup {Nothing}, TurnOn(c, l, b, k)
      PROVE  WrittenInv'
  BY <1>4, WrittenTurns
<1>5. ASSUME NEW c \in Commands, NEW l \in Lights, TurnOff(c, l) PROVE WrittenInv'
  BY <1>5, WrittenTurns
<1>6. ASSUME NEW c \in Commands, NEW on \in BOOLEAN, NEW b \in Levels \cup {Nothing}, GroupTurn(c, on, b)
      PROVE  WrittenInv'
  BY <1>6, WrittenTurns
<1>7. ASSUME NEW c \in Commands, Send(c) PROVE WrittenInv'
  BY <1>7, WrittenLinks DEF Send, NoLink, Connected
<1>8. ASSUME NEW c \in Commands, SendGroup(c) PROVE WrittenInv'
  <2>1. \A d \in Commands : cmd'[d].light = cmd[d].light
    <3>1. CASE UNCHANGED cmd
      BY <3>1
    <3>2. CASE \E a : cmd' = [cmd EXCEPT ![c].answered = a]
      <4>1. PICK a : cmd' = [cmd EXCEPT ![c].answered = a]
        BY <3>2
      <4>2. cmd'[c] = [cmd[c] EXCEPT !.answered = a] /\ \A d \in Commands \ {c} : cmd'[d] = cmd[d]
        BY <1>1, <4>1 DEF LightTypeOK
      <4>3. cmd'[c].light = cmd[c].light
        BY <1>1, <4>2 DEF LightTypeOK, IsCommand, Idle
      <4>4. QED
        BY <4>2, <4>3
    <3>3. QED
      BY <1>8, <3>1, <3>2 DEF SendGroup, NoLink
  <2>2. QED
    BY <1>8, <2>1, WrittenLinks DEF SendGroup, NoLink, Connected
<1>9. ASSUME NEW c \in Commands, Answer(c) \/ AnswerGroup(c) PROVE WrittenInv'
  BY <1>9, WrittenAnswer, WrittenAnswerGroup
<1>10. ASSUME NEW l \in Lights, SendRefresh(l) PROVE WrittenInv'
  BY <1>10, WrittenLinks DEF SendRefresh, NoLink, Connected
<1>11. ASSUME NEW l \in Lights, AnswerRefresh(l) PROVE WrittenInv'
  BY <1>11, WrittenAnswerRefresh
<1>12. ASSUME NEW l \in Lights, Outside(l) PROVE WrittenInv'
  <2>1. cmd' = Disturbed({l}) /\ UNCHANGED <<cache, written, seen, cut, refresh>>
    BY <1>12 DEF Outside
  <2>2. QED
    BY <1>1, <2>1, DisturbedIs, WrittenLinks DEF Same
<1>13. CASE (\E l \in Lights : FadeEnds(l)) \/ LinkDrops
  BY <1>2, <1>13 DEF FadeEnds, LinkDrops
<1>14. CASE Reconnect
  BY <1>14, WrittenLinks DEF Reconnect
<1>15. QED
  BY <1>3, <1>4, <1>5, <1>6, <1>7, <1>8, <1>9, <1>10, <1>11, <1>12, <1>13, <1>14, <1>16 DEF LightNext

\* Home Assistant was told of all that a light at rest shows, and the group over it
\* rendered it, whatever commands, reads and new links overlapped, except a light
\* whose own command was cancelled and that nothing has written since (light.py,
\* _write_state and its callers).
THEOREM NothingStaysUnwritten == LightSpec => []NothingUnwritten
<1>1. LightInit => WrittenInv
  BY DEF LightInit, WrittenInv, WrittenOf
<1>2. LightInv /\ WrittenInv /\ [LightNext]_lightVars => WrittenInv'
  BY WrittenStep
<1>3. WrittenInv => NothingUnwritten
  BY TouchedIs DEF WrittenInv, WrittenOf, Owing, ItsOwn, NothingUnwritten, Quiet, Commanding
<1>4. QED
  BY <1>1, <1>2, <1>3, LightsKeepTheirBooks, PTL DEF LightSpec
----------------------------------------------------------------------------
(***************************************************************************)
(* The lock and its one link: LightState implements Session.               *)
(***************************************************************************)

\* While a call holds the lock the link stays; between calls it comes and goes.
LEMMA CallsComeAndGo ==
  ASSUME LightInv, [LightNext]_lightVars
  PROVE  \/ UNCHANGED <<linked, holder>>
         \/ holder = Nothing
         \/ holder # Nothing /\ holder' = Nothing /\ linked' = linked
<1>1. CASE UNCHANGED lightVars
  BY <1>1 DEF lightVars
<1>2. ASSUME NEW c \in Commands,
             \/ \E l \in Lights, b \in Levels \cup {Nothing}, k \in Temps \cup {Nothing} : TurnOn(c, l, b, k)
             \/ \E l \in Lights : TurnOff(c, l)
             \/ \E on \in BOOLEAN, b \in Levels \cup {Nothing} : GroupTurn(c, on, b)
      PROVE  UNCHANGED <<linked, holder>>
  BY <1>2 DEF TurnOn, TurnOff, GroupTurn
<1>3. ASSUME NEW c \in Commands, Send(c) \/ SendGroup(c) PROVE holder = Nothing
  BY <1>3 DEF Send, SendGroup
<1>4. ASSUME NEW c \in Commands, Answer(c) \/ AnswerGroup(c)
      PROVE  holder # Nothing /\ holder' = Nothing /\ linked' = linked
  BY <1>4, NothingIs DEF Answer, AnswerGroup
<1>5. ASSUME NEW l \in Lights, AnswerRefresh(l)
      PROVE  holder # Nothing /\ holder' = Nothing /\ linked' = linked
  BY <1>5, NothingIs DEF AnswerRefresh
<1>6. ASSUME NEW l \in Lights, SendRefresh(l) \/ Outside(l) \/ FadeEnds(l) PROVE holder = Nothing
  BY <1>6 DEF SendRefresh, Outside, FadeEnds
<1>7. CASE Reconnect \/ LinkDrops
  BY <1>7 DEF Reconnect, LinkDrops
<1>9. ASSUME NEW c \in Commands, CommandCancelled(c)
      PROVE  UNCHANGED <<linked, holder>> \/ (holder # Nothing /\ holder' = Nothing /\ linked' = linked)
  BY <1>9, NothingIs DEF CommandCancelled
<1>8. QED
  BY <1>1, <1>2, <1>3, <1>4, <1>5, <1>6, <1>7, <1>9 DEF LightNext

\* A call of a light or a group ends with the link it went out on, or was sent on none;
\* only between calls is one made or lost (_run_connected).
THEOREM CallsAreASession == LightSpec => CallsImplementSession
<1>1. LightInit => OneLink!SessionInit
  BY DEF LightInit, OneLink!SessionInit
<1>2. LightInv /\ LightInv' /\ [LightNext]_lightVars => [OneLink!SessionNext]_OneLink!sessionVars
  <2>1. SUFFICES ASSUME LightInv, LightInv', [LightNext]_lightVars
                 PROVE  [OneLink!SessionNext]_OneLink!sessionVars
    OBVIOUS
  <2>2. linked \in BOOLEAN /\ linked' \in BOOLEAN
    BY <2>1 DEF LightInv, LightTypeOK
  <2>3. CASE UNCHANGED <<linked, holder>>
    BY <2>3 DEF OneLink!sessionVars
  <2>4. CASE holder = Nothing
    <3>1. CASE linked /\ linked' /\ holder' # Nothing
      BY <2>4, <3>1 DEF OneLink!SessionNext, OneLink!Begin
    <3>2. CASE linked /\ ~ linked'
      BY <2>4, <3>2 DEF OneLink!SessionNext, OneLink!TearDown
    <3>3. CASE ~ linked /\ linked'
      BY <2>4, <3>3 DEF OneLink!SessionNext, OneLink!Up
    <3>4. CASE (linked <=> linked') /\ (linked' => holder' = Nothing)
      BY <2>2, <2>4, <3>4 DEF OneLink!sessionVars
    <3>5. QED
      BY <3>1, <3>2, <3>3, <3>4
  <2>5. CASE holder # Nothing /\ holder' = Nothing /\ linked' = linked
    <3>1. CASE linked
      BY <2>2, <2>5, <3>1 DEF OneLink!SessionNext, OneLink!End
    <3>2. CASE ~ linked
      BY <2>5, <3>2 DEF OneLink!sessionVars
    <3>3. QED
      BY <3>1, <3>2
  <2>6. QED
    BY <2>1, <2>3, <2>4, <2>5, CallsComeAndGo
<1>3. QED
  BY <1>1, <1>2, LightsKeepTheirBooks, PTL DEF LightSpec, CallsImplementSession, OneLink!SessionSpec
=============================================================================
