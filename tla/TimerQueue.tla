------------------------------ MODULE TimerQueue ------------------------------
(***************************************************************************)
(* mylib::TimerQueue (src/netlib/reactor/TimerQueue.cc): the timers of one *)
(* EventLoop, behind one timerfd that the loop polls with its channels.    *)
(*                                                                         *)
(* Times are relative: due[t] is how far timer t's expiration_ lies ahead, *)
(* and timerfd how far the expiration that the kernel is set to does; a    *)
(* Tick brings all of them nearer, so that no clock grows.  A tick is the  *)
(* shortest time that the descriptor is ever set to (100 microseconds), or *)
(* longer.  The wall clock, Timestamp::now, may fall behind the kernel's   *)
(* monotonic one, which makes the descriptor readable too early; it is not *)
(* set forward.                                                            *)
(***************************************************************************)
EXTENDS Integers

CONSTANTS Timer,      \* the Timer objects; one identity for each call of addTimer
          Interval,   \* interval_: zero for a timer that does not repeat
          Delay,      \* how far ahead its first expiration is
          NoTimer     \* no callback is running

ASSUME TimerAssumption ==
    /\ NoTimer \notin Timer
    /\ Interval \in [Timer -> Nat]
    /\ Delay \in [Timer -> Nat]

VARIABLES
    life,       \* how far each Timer object is
    due,        \* expiration_, from now
    timers,     \* timers_
    timerfd,    \* the kernel's timer: Disarmed, or the ticks until it is readable
    active,     \* the timer's channel is in activeChannels_, not yet handled
    pc,         \* where the loop thread stands
    toRun,      \* of handleRead's local expired: the timers still to run,
    ran,        \* those that have run or are running,
    current,    \* the one whose callback is running,
    since       \* and the time since handleRead took its now

timerVars == <<life, due, timers, timerfd, active, pc, toRun, ran, current, since>>

loopVars == <<active, pc, toRun, ran, current, since>>

Disarmed == -1
Floor    == 1       \* howMuchTimeFromNow sets no less
Later(a, b) == IF a >= b THEN a ELSE b
-----------------------------------------------------------------------------
TimerInit ==
    /\ life = [t \in Timer |-> "new"]
    /\ due = [t \in Timer |-> 0]
    /\ timers = {}
    /\ timerfd = Disarmed
    /\ active = FALSE
    /\ pc = "starting"
    /\ toRun = {} /\ ran = {} /\ current = NoTimer
    /\ since = 0

\* t is the first of the set s.
Earliest(t, s, d) == t \in s /\ \A u \in s : d[t] <= d[u]

\* resetTimerfd(timerfd_, expiration), when the expiration is n ticks away.
ResetTimerfd(n) == timerfd' = Later(n, Floor)

\* addTimer's functor for a timer n ticks away: insert, and resetTimerfd if it is the
\* earliest now.  Of two expirations that have both passed either may be the earlier.
Insert(t, n) ==
    /\ timers' = timers \cup {t}
    /\ \/ (\A u \in timers : n < due[u] \/ n = 0) /\ ResetTimerfd(n)
       \/ (\E u \in timers : due[u] <= n) /\ UNCHANGED timerfd
-----------------------------------------------------------------------------
(* addTimer, from runAfter and runEvery. *)

\* By the loop's thread, before loop() or in a callback.
AddTimer(t) ==
    /\ life[t] = "new"
    /\ pc \in {"starting", "events", "functors"} \/ current # NoTimer
    /\ life' = [life EXCEPT ![t] = "live"]
    /\ due' = [due EXCEPT ![t] = Delay[t]]
    /\ Insert(t, Delay[t])
    /\ UNCHANGED loopVars

\* By another thread: the expiration is set, and the rest is handed to the loop.
QueueTimer(t) ==
    /\ life[t] = "new"
    /\ life' = [life EXCEPT ![t] = "queued"]
    /\ due' = [due EXCEPT ![t] = Delay[t]]
    /\ UNCHANGED <<timers, timerfd, loopVars>>

\* The functor runs.
AddTimerInLoop(t) ==
    /\ pc = "functors"
    /\ life[t] = "queued"
    /\ life' = [life EXCEPT ![t] = "live"]
    /\ Insert(t, due[t])
    /\ UNCHANGED <<due, loopVars>>
-----------------------------------------------------------------------------
(* The loop. *)

EnterLoop ==
    /\ pc = "starting"
    /\ pc' = "poll"
    /\ UNCHANGED <<life, due, timers, timerfd, active, toRun, ran, current, since>>

\* epoll_wait returns for the timer's channel, perhaps with others.
PollTimer ==
    /\ pc = "poll"
    /\ timerfd = 0
    /\ active' = TRUE
    /\ pc' = "events"
    /\ UNCHANGED <<life, due, timers, timerfd, toRun, ran, current, since>>

\* It returns for other channels, for the wakeup or after kPollTimeMs.
PollOther ==
    /\ pc = "poll"
    /\ timerfd # 0
    /\ pc' = "events"
    /\ UNCHANGED <<life, due, timers, timerfd, active, toRun, ran, current, since>>

\* handleRead up to the callbacks: the descriptor is read, which fails if another
\* handler of the same pass has set it anew, and getExpired takes what has expired.
HandleRead ==
    /\ pc = "events" /\ active
    /\ active' = FALSE
    /\ timerfd' = IF timerfd = 0 THEN Disarmed ELSE timerfd
    /\ toRun' = {t \in timers : due[t] = 0}
    /\ timers' = timers \ toRun'
    /\ since' = 0
    /\ pc' = "expired"
    /\ UNCHANGED <<life, due, ran, current>>

\* it->second->run()
RunTimer(t) ==
    /\ pc = "expired" /\ current = NoTimer
    /\ t \in toRun
    /\ current' = t
    /\ toRun' = toRun \ {t}
    /\ ran' = ran \cup {t}
    /\ UNCHANGED <<life, due, timers, timerfd, active, pc, since>>

\* The callback returns.
EndTimer ==
    /\ current # NoTimer
    /\ current' = NoTimer
    /\ UNCHANGED <<life, due, timers, timerfd, active, pc, toRun, ran, since>>

Repeats(t) == Interval[t] > 0

\* restart: from handleRead's now, which the callbacks have left behind.
Restart(t) == Later(Interval[t] - since, 0)

\* Seeded bug: reset sets the descriptor only if a timer has run.
ResetIfRan ==
    /\ pc = "expired" /\ toRun = {} /\ current = NoTimer
    /\ due' = [t \in Timer |-> IF t \in ran /\ Repeats(t) THEN Restart(t) ELSE due[t]]
    /\ timers' = timers \cup {t \in ran : Repeats(t)}
    /\ life' = [t \in Timer |-> IF t \in ran /\ ~Repeats(t) THEN "deleted" ELSE life[t]]
    /\ IF timers' = {} \/ ran = {} THEN UNCHANGED timerfd
       ELSE \E t \in Timer : Earliest(t, timers', due') /\ ResetTimerfd(due'[t])
    /\ ran' = {} /\ since' = 0
    /\ pc' = "events"
    /\ UNCHANGED <<active, toRun, current>>

\* Seeded bug: a repeating timer is deleted if it was too late for its next expiration.
ResetForgetsLate ==
    /\ pc = "expired" /\ toRun = {} /\ current = NoTimer
    /\ LET again == {t \in ran : Restart(t) > 0} IN
       /\ due' = [t \in Timer |-> IF t \in again THEN Restart(t) ELSE due[t]]
       /\ timers' = timers \cup again
       /\ life' = [t \in Timer |-> IF t \in ran \ again THEN "deleted" ELSE life[t]]
    /\ IF timers' = {} THEN UNCHANGED timerfd
       ELSE \E t \in Timer : Earliest(t, timers', due') /\ ResetTimerfd(due'[t])
    /\ ran' = {} /\ since' = 0
    /\ pc' = "events"
    /\ UNCHANGED <<active, toRun, current>>

\* reset: the repeating ones go back, the others are deleted, and the descriptor is
\* set to the earliest of all.
Reset ==
    /\ pc = "expired" /\ toRun = {} /\ current = NoTimer
    /\ due' = [t \in Timer |-> IF t \in ran /\ Repeats(t) THEN Restart(t) ELSE due[t]]
    /\ timers' = timers \cup {t \in ran : Repeats(t)}
    /\ life' = [t \in Timer |-> IF t \in ran /\ ~Repeats(t) THEN "deleted" ELSE life[t]]
    /\ IF timers' = {} THEN UNCHANGED timerfd
       ELSE \E t \in Timer : Earliest(t, timers', due') /\ ResetTimerfd(due'[t])
    /\ ran' = {} /\ since' = 0
    /\ pc' = "events"
    /\ UNCHANGED <<active, toRun, current>>

\* Every active channel has been handled; then the functors run.
BeginFunctors ==
    /\ pc = "events" /\ ~active
    /\ pc' = "functors"
    /\ UNCHANGED <<life, due, timers, timerfd, active, toRun, ran, current, since>>

\* What was queued when the pass began has run by its end; what came later may wait.
EndFunctors ==
    /\ pc = "functors"
    /\ pc' = "poll"
    /\ UNCHANGED <<life, due, timers, timerfd, active, toRun, ran, current, since>>
-----------------------------------------------------------------------------
\* How long handleRead's now may lie back before it makes no difference any more.
MaxInterval == CHOOSE n \in {Interval[t] : t \in Timer} : \A t \in Timer : Interval[t] <= n

Tick ==
    /\ due' = [t \in Timer |-> Later(due[t] - 1, 0)]
    /\ timerfd' = IF timerfd > 0 THEN timerfd - 1 ELSE timerfd
    /\ since' = IF pc = "expired" /\ since < MaxInterval THEN since + 1 ELSE since
    /\ UNCHANGED <<life, timers, active, pc, toRun, ran, current>>

\* The kernel's clock has gone on, and the wall clock not.
Lag ==
    /\ timerfd > 0
    /\ timerfd' = timerfd - 1
    /\ UNCHANGED <<life, due, timers, loopVars>>

LoopStep ==
    \/ EnterLoop \/ PollTimer \/ HandleRead \/ EndTimer \/ Reset
    \/ BeginFunctors \/ EndFunctors
    \/ \E t \in Timer : RunTimer(t)

TimerNext ==
    \/ LoopStep
    \/ PollOther
    \/ Tick \/ Lag
    \/ \E t \in Timer : AddTimer(t) \/ QueueTimer(t) \/ AddTimerInLoop(t)

TimerSpec == TimerInit /\ [][TimerNext]_timerVars

\* Time passes, the thread is scheduled, a callback returns, and a functor is run by the
\* pass that follows it or by the one after (module EventLoop, whose wakeup ends the poll
\* that a queued functor finds).  Nothing is assumed of other channels or of new timers.
QueuedTimers == {t \in Timer : life[t] = "queued"}
TimerFairness ==
    /\ WF_timerVars(Tick)
    /\ WF_timerVars(LoopStep)
    /\ WF_timerVars(PollOther /\ QueuedTimers # {})
    /\ \A t \in Timer : SF_timerVars(AddTimerInLoop(t))

TimerFairSpec == TimerSpec /\ TimerFairness
-----------------------------------------------------------------------------
TimerTypeOK ==
    /\ life \in [Timer -> {"new", "queued", "live", "deleted"}]
    /\ due \in [Timer -> Nat]
    /\ timers \subseteq Timer
    /\ timerfd \in Nat \cup {Disarmed}
    /\ active \in BOOLEAN
    /\ pc \in {"starting", "poll", "events", "expired", "functors"}
    /\ toRun \subseteq Timer /\ ran \subseteq Timer
    /\ current \in Timer \cup {NoTimer}
    /\ since \in Nat
    /\ pc # "expired" => toRun = {} /\ ran = {} /\ current = NoTimer
    /\ current # NoTimer => current \in ran

\* The loop never sleeps past a timer (TimerQueue.cc:76-110, 134-146): outside of
\* handleRead the descriptor is set, to the earliest expiration or to the shortest time
\* there is, whatever was read, expired, added or missed before.
Armed ==
    pc # "expired" =>
        \A t \in timers : timerfd # Disarmed /\ (timerfd <= due[t] \/ timerfd <= Floor)

\* No timer is lost, run twice in a pass or used after it is deleted (TimerQueue.cc:90-132):
\* each that has been added is in the list, or waits, or has run, in exactly one place.
OnePlace ==
    \A t \in Timer :
        /\ life[t] = "live" <=> t \in timers \cup toRun \cup ran
        /\ t \in timers => t \notin toRun \cup ran
        /\ t \in toRun => t \notin ran

\* TimerTypeOK, Armed and OnePlace together are inductive.
TimerInv == TimerTypeOK /\ Armed /\ OnePlace

\* A timer that has been added runs, and a repeating one again and again, however long
\* the callbacks take (TimerQueue.cc:76-110).
EveryTimerRuns ==
    \A t \in Timer :
        (\/ life[t] \in {"queued", "live"} /\ t \notin ran
         \/ life[t] # "new" /\ Repeats(t)) ~> current = t
=============================================================================
