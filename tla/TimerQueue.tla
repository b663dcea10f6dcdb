----------------------------- MODULE TimerQueue -----------------------------
(***************************************************************************)
(* The timers of one EventLoop (Ryugu/net/TimerQueue.{h,cpp}, Timer.{h,    *)
(* cpp}): the ordered set of timers, the one timerfd armed for the         *)
(* earliest of them, and the two clocks involved.  Due dates are read from *)
(* the wall clock (gettimeofday), which may be set; the timerfd counts on  *)
(* CLOCK_MONOTONIC, which may not.                                         *)
(*                                                                         *)
(* A unit of time is 100 microseconds, the least delay timeFromNow gives   *)
(* the timerfd.  addTimer does not look at the calling thread; this module *)
(* assumes, as the two TODOs of the code do, that it is the loop's.        *)
(***************************************************************************)
EXTENDS Integers, FiniteSets

CONSTANTS Timers,               \* the Timer objects, one per call of addTimer
          Moments,              \* the due dates runAt is called with
          Delays,               \* the delays runAfter and runEvery are called with
          MinDelay,             \* the lower bound of timeFromNow, in units
          MaxTime,              \* bound: the monotonic clock stops here
          MaxClockSets,         \* bound: how often the wall clock is set
          HandlersTakeTime      \* whether time passes inside handleRead

ASSUME DelayAssumption == MinDelay \in Nat \ {0}
ASSUME InputAssumption == Moments \subseteq Int /\ Delays \subseteq Nat
ASSUME BoundAssumption == MaxTime \in Nat /\ MaxClockSets \in Nat
ASSUME HandlerAssumption == HandlersTakeTime \in BOOLEAN

VARIABLES
    wall,           \* gettimeofday
    mono,           \* CLOCK_MONOTONIC
    clockSets,      \* how often wall was set
    timers,         \* TimerQueue::timers, a set of entries <when, timer>
    activeTimers,   \* TimerQueue::activeTimers
    interval,       \* Timer::interval of every timer
    repeat,         \* Timer::repeat of every timer
    life,           \* "unborn", "alive", "deleted"
    fdDeadline,     \* when the timerfd expires or expired unread; 0 is disarmed
    reported,       \* epoll_wait reported the timerfd, handleRead still to come
    pc,             \* "reading" and "callbacks" in handleRead, else "outside"
    handlerNow,     \* the local variable now of handleRead
    expired,        \* the local vector expired of handleRead
    toRun,          \* the entries of expired whose callback has still to run
    ranAt           \* history: handlerNow of the timer's last run; 0 is none so far

clocks == <<wall, mono, clockSets>>
queue == <<timers, activeTimers, interval, repeat, life>>
handler == <<pc, handlerNow, expired, toRun>>
vars == <<clocks, queue, fdDeadline, reported, handler, ranAt>>

Disarmed == 0

Entry(when, timer) == [when |-> when, timer |-> timer]
TimerOf(entries) == {e.timer : e \in entries}

Init ==
    /\ wall = 1
    /\ mono = 1
    /\ clockSets = 0
    /\ timers = {}
    /\ activeTimers = {}
    /\ interval = [t \in Timers |-> 0]
    /\ repeat = [t \in Timers |-> FALSE]
    /\ life = [t \in Timers |-> "unborn"]
    /\ fdDeadline = Disarmed
    /\ reported = FALSE
    /\ pc = "outside"
    /\ handlerNow = 0
    /\ expired = {}
    /\ toRun = {}
    /\ ranAt = [t \in Timers |-> 0]

-----------------------------------------------------------------------------
\* Bugs a change of this code could introduce, each the mutated form of a
\* definition below.

\* reset called inside the loop over the expired timers.
NeverWaits == TRUE

\* The timerfd armed for the first timer only.
IsFirst(when) == timers = {}

\* Timers due within the resolution of the timerfd run now.
DueSoon(e) == e.when <= handlerNow + MinDelay

\* restart goes on from the timer's due date, to catch up on a late loop.
CatchUp(e) == e.when + interval[e.timer]

\* reset that restarts the timers and leaves the timerfd alone.
NoRearm(entries) == UNCHANGED fdDeadline

\* activeTimers keeps what expired.
KeepActive(entries) == activeTimers

-----------------------------------------------------------------------------
\* The microseconds resetTimerfd gives to the timerfd, from now.
TimeFromNow(when) == IF when - wall < MinDelay THEN MinDelay ELSE when - wall

\* insert returns whether the new timer is the earliest.
EarliestChanged(when) == \A e \in timers : when < e.when

\* The user's code runs in the loop thread outside of the timer queue, and in
\* the callbacks of the timers.
InUserCode == pc = "outside" \/ (pc = "callbacks" /\ toRun # expired)

AddTimer(t, when, every, repeats) ==
    /\ InUserCode
    /\ mono < MaxTime   \* bound: none is added when time has stopped
    /\ life[t] = "unborn"
    /\ life' = [life EXCEPT ![t] = "alive"]
    /\ interval' = [interval EXCEPT ![t] = every]
    /\ repeat' = [repeat EXCEPT ![t] = repeats]
    /\ timers' = timers \cup {Entry(when, t)}
    /\ activeTimers' = activeTimers \cup {t}
    /\ fdDeadline' = IF EarliestChanged(when) THEN mono + TimeFromNow(when)
                                              ELSE fdDeadline
    /\ UNCHANGED <<clocks, reported, handler, ranAt>>

RunAt(t, when) == AddTimer(t, when, 0, FALSE)
RunAfter(t, delay) == RunAt(t, wall + delay)

\* An interval may be too short to count: Timestamp::addTime truncates it and adds
\* nothing, and the timer still repeats.
RunEvery(t, every) == AddTimer(t, wall + every, every, TRUE)

-----------------------------------------------------------------------------
FdReadable == fdDeadline # Disarmed /\ fdDeadline <= mono

\* epoll_wait reports the timerfd.  Handlers of the same round may still run
\* before handleRead and add timers, and arming the timerfd makes it unreadable.
PollTimerfd ==
    /\ pc = "outside"
    /\ ~reported
    /\ FdReadable
    /\ reported' = TRUE
    /\ UNCHANGED <<clocks, queue, fdDeadline, handler, ranAt>>

\* handleRead takes its now ...
HandleRead ==
    /\ pc = "outside"
    /\ reported
    /\ reported' = FALSE
    /\ handlerNow' = wall
    /\ pc' = "reading"
    /\ UNCHANGED <<clocks, queue, fdDeadline, expired, toRun, ranAt>>

\* Every timer up to and including now.
Due(e) == e.when <= handlerNow
StillActive(entries) == activeTimers \ TimerOf(entries)

\* ... and only then reads the timerfd, which takes away whatever expired until
\* this moment, and calls getExpired.  The read fails with EAGAIN when the
\* timerfd was armed anew since epoll_wait.
GetExpired ==
    /\ pc = "reading"
    /\ fdDeadline' = IF FdReadable THEN Disarmed ELSE fdDeadline
    /\ expired' = {e \in timers : Due(e)}
    /\ toRun' = expired'
    /\ timers' = timers \ expired'
    /\ activeTimers' = StillActive(expired')
    /\ pc' = "callbacks"
    /\ UNCHANGED <<clocks, interval, repeat, life, reported, handlerNow, ranAt>>

\* The callback of the earliest expired timer; among equal dates the address of
\* the Timer decides.
RunTimer ==
    /\ pc = "callbacks"
    /\ \E e \in toRun :
        /\ \A f \in toRun : e.when <= f.when
        /\ toRun' = toRun \ {e}
        /\ ranAt' = [ranAt EXCEPT ![e.timer] = handlerNow]
    /\ UNCHANGED <<clocks, queue, fdDeadline, reported, pc, handlerNow, expired>>

\* isRepeat() and not in cancelingTimers, which nothing ever fills.
RunsAgain(t) == repeat[t]

\* restart takes handleRead's now and not the date the timer was due at.
NextDate(e) == handlerNow + interval[e.timer]

\* The end of reset: the timerfd is armed for the earliest timer, if its due
\* date isValid().
Rearm(entries) ==
    \/ entries = {} /\ UNCHANGED fdDeadline
    \/ \E first \in entries :
        /\ \A e \in entries : first.when <= e.when
        /\ fdDeadline' = IF first.when > 0 THEN mono + TimeFromNow(first.when)
                                           ELSE fdDeadline

\* handleRead calls reset behind its loop.
BatchDone == toRun = {}

\* reset: timers that repeat start again from handleRead's now, the others go.
Reset ==
    /\ pc = "callbacks"
    /\ BatchDone
    /\ pc' = "outside"
    /\ expired' = {}
    /\ LET again == {e \in expired : RunsAgain(e.timer)}
       IN /\ timers' = timers \cup {Entry(NextDate(e), e.timer) : e \in again}
          /\ activeTimers' = activeTimers \cup TimerOf(again)
          /\ life' = [t \in Timers |-> IF t \in TimerOf(expired \ again) THEN "deleted"
                                                                         ELSE life[t]]
    /\ Rearm(timers')
    /\ UNCHANGED <<clocks, interval, repeat, reported, handlerNow, toRun, ranAt>>

-----------------------------------------------------------------------------
\* The environment: both clocks advance, while epoll_wait sleeps or while code runs.
Tick ==
    /\ mono < MaxTime
    /\ pc # "outside" => HandlersTakeTime
    /\ mono' = mono + 1
    /\ wall' = wall + 1
    /\ UNCHANGED <<clockSets, queue, fdDeadline, reported, handler, ranAt>>

\* The administrator or NTP steps the wall clock.
SetClock ==
    /\ clockSets < MaxClockSets
    /\ clockSets' = clockSets + 1
    /\ wall' \in 1..MaxTime
    /\ UNCHANGED <<mono, queue, fdDeadline, reported, handler, ranAt>>

LoopStep == PollTimerfd \/ HandleRead \/ GetExpired \/ RunTimer \/ Reset

Next ==
    \/ \E t \in Timers :
        \/ \E when \in Moments : RunAt(t, when)
        \/ \E delay \in Delays : RunAfter(t, delay) \/ RunEvery(t, delay)
    \/ LoopStep
    \/ Tick
    \/ SetClock

Spec == Init /\ [][Next]_vars

\* The loop thread polls and its callbacks return; time goes on.
FairSpec == Spec /\ WF_vars(LoopStep) /\ WF_vars(Tick)

-----------------------------------------------------------------------------
Entries == [when : Int, timer : Timers]

TypeOK ==
    /\ wall \in Nat \ {0}
    /\ mono \in Nat \ {0}
    /\ clockSets \in Nat
    /\ timers \subseteq Entries
    /\ activeTimers \subseteq Timers
    /\ interval \in [Timers -> Nat]
    /\ repeat \in [Timers -> BOOLEAN]
    /\ life \in [Timers -> {"unborn", "alive", "deleted"}]
    /\ fdDeadline \in Nat
    /\ reported \in BOOLEAN
    /\ pc \in {"outside", "reading", "callbacks"}
    /\ handlerNow \in Nat
    /\ expired \subseteq Entries
    /\ toRun \subseteq expired
    /\ ranAt \in [Timers -> Nat]

\* Every timer is owned by exactly one place: the two sets of the queue hold
\* the same timers (the assertions timers.size() == activeTimers.size() of
\* insert and getExpired), each under one due date only, never together with the
\* batch being run; a timer of either is not deleted yet (the raw Timer* stays
\* valid), and one of neither is deleted or was never added (nothing leaks).
HeldOnce ==
    /\ activeTimers = TimerOf(timers)
    /\ TimerOf(timers) \cap TimerOf(expired) = {}
    /\ \A e, f \in timers \cup expired : e.timer = f.timer => e = f
    /\ \A t \in Timers : life[t] = "alive" <=> t \in TimerOf(timers \cup expired)

\* The timerfd goes off soon enough for e: at its due date, or MinDelay from now
\* if it is due already.  Once the clock was set it only goes off at some time.
Alarmed(e) ==
    /\ fdDeadline # Disarmed
    /\ clockSets = 0 => fdDeadline <= e.when \/ fdDeadline <= mono + MinDelay

\* Whenever the loop may block in epoll_wait every queued timer has its alarm.
\* Adding from a callback, an earliest timer added between epoll_wait and
\* handleRead, an expiry between its now and its read of the timerfd, a batch
\* that repeats: none of them (addTimerInLoop, reset and
\* resetTimerfd) leaves a timer without.
Timely == pc = "outside" => \A e \in timers : Alarmed(e)

\* No callback runs before its due date, unless the clock was set.
NeverEarly == [][clockSets = 0 => \A e \in toRun \ toRun' : e.when <= wall]_vars

\* A timer of runAt and runAfter runs at most once.  One of runEvery runs in batches
\* whose nows are at least its interval apart: a loop that comes late skips runs,
\* it never catches up in a burst, whatever is done to the clock meanwhile.
RunsSpaced ==
    [][\A t \in TimerOf(toRun \ toRun') :
          ranAt[t] # 0 => repeat[t] /\ handlerNow >= ranAt[t] + interval[t]]_vars

\* A queued timer whose date lies within the modelled time is run.  Checked with
\* callbacks that take no time and a clock that is never set, so that the bound
\* on time does not cut the last callback off.
DueTimersRun ==
    \A t \in Timers :
        (\E e \in timers : e.timer = t /\ e.when <= MaxTime /\ ranAt[t] = 0) ~> (ranAt[t] > 0)
=============================================================================
