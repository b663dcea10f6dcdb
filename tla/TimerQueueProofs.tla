-------------------------- MODULE TimerQueueProofs --------------------------
(***************************************************************************)
(* Theorems about TimerQueue, for any timers, due dates and delays.        *)
(***************************************************************************)
EXTENDS TimerQueue, TLAPS

(***************************************************************************)
(* Type correctness.  That fdDeadline stays a natural number is the part   *)
(* with content: timeFromNow never gives the timerfd a negative delay.     *)
(***************************************************************************)
THEOREM TypeCorrect == Spec => []TypeOK
<1>1. Init => TypeOK
  <2> SUFFICES ASSUME Init PROVE TypeOK
    OBVIOUS
  <2>1. /\ wall \in Nat \ {0} /\ mono \in Nat \ {0} /\ clockSets \in Nat
        /\ fdDeadline \in Nat /\ handlerNow \in Nat
        /\ interval \in [Timers -> Nat] /\ ranAt \in [Timers -> Nat]
    BY DEF Init, Disarmed
  <2>2. /\ repeat \in [Timers -> BOOLEAN]
        /\ life \in [Timers -> {"unborn", "alive", "deleted"}]
    BY DEF Init
  <2> QED
    BY <2>1, <2>2, Zenon DEF Init, TypeOK
<1>2. TypeOK /\ [Next]_vars => TypeOK'
  <2> SUFFICES ASSUME TypeOK, [Next]_vars PROVE TypeOK'
    OBVIOUS
  <2> USE DEF TypeOK, Entries
  <2>1. \A when \in Int : TimeFromNow(when) \in Nat
    BY DelayAssumption DEF TimeFromNow
  <2>2. ASSUME NEW t \in Timers, NEW when \in Int, NEW every \in Nat, NEW repeats \in BOOLEAN,
               AddTimer(t, when, every, repeats)
        PROVE  TypeOK'
    BY <2>1, <2>2 DEF AddTimer, Entry, clocks, handler
  <2>3. ASSUME NEW t \in Timers, NEW when \in Moments, RunAt(t, when) PROVE TypeOK'
    BY <2>2, <2>3, InputAssumption DEF RunAt
  <2>4. ASSUME NEW t \in Timers, NEW delay \in Delays, RunAfter(t, delay) PROVE TypeOK'
    <3>1. wall + delay \in Int
      BY InputAssumption
    <3> QED
      BY <2>2, <2>4, <3>1, Zenon DEF RunAfter, RunAt
  <2>5. ASSUME NEW t \in Timers, NEW delay \in Delays, RunEvery(t, delay) PROVE TypeOK'
    <3>1. wall + delay \in Int /\ delay \in Nat
      BY InputAssumption
    <3> QED
      BY <2>2, <2>5, <3>1, Zenon DEF RunEvery
  <2>6. CASE PollTimerfd
    BY <2>6 DEF PollTimerfd, clocks, queue, handler
  <2>7. CASE HandleRead
    BY <2>7 DEF HandleRead, clocks, queue
  <2>13. CASE GetExpired
    BY <2>13 DEF GetExpired, Disarmed, StillActive, clocks
  <2>8. CASE RunTimer
    BY <2>8 DEF RunTimer, clocks, queue
  <2>9. CASE Reset
    <3> DEFINE again == {e \in expired : RunsAgain(e.timer)}
    <3>1. \A e \in again : NextDate(e) \in Int /\ e.timer \in Timers
      BY DEF NextDate
    <3>2. timers' \subseteq Entries
      BY <2>9, <3>1 DEF Reset, Entry
    <3>3. activeTimers' \subseteq Timers
      BY <2>9, <3>1 DEF Reset, TimerOf
    <3>4. fdDeadline' \in Nat
      BY <2>1, <2>9, <3>2 DEF Reset, Rearm, clocks
    <3>5. life' \in [Timers -> {"unborn", "alive", "deleted"}]
      BY <2>9 DEF Reset
    <3> QED
      BY <2>9, <3>2, <3>3, <3>4, <3>5 DEF Reset, BatchDone, clocks
  <2>10. CASE Tick
    BY <2>10 DEF Tick, queue, handler
  <2>11. CASE SetClock
    BY <2>11, BoundAssumption DEF SetClock, queue, handler
  <2>12. CASE UNCHANGED vars
    BY <2>12 DEF vars, clocks, queue, handler
  <2> QED
    BY <2>3, <2>4, <2>5, <2>6, <2>7, <2>8, <2>9, <2>10, <2>11, <2>12, <2>13 DEF Next, LoopStep
<1> QED
  BY <1>1, <1>2, PTL DEF Spec

(***************************************************************************)
(* Every kind of call of addTimer is an AddTimer with inputs of the right  *)
(* type, so that each proof below treats the three of them once.           *)
(***************************************************************************)
LEMMA AddTimerCases ==
    ASSUME wall \in Nat, NEW t \in Timers,
           \/ \E when \in Moments : RunAt(t, when)
           \/ \E delay \in Delays : RunAfter(t, delay) \/ RunEvery(t, delay)
    PROVE  \E when \in Int, every \in Nat, repeats \in BOOLEAN :
               /\ AddTimer(t, when, every, repeats)
               /\ repeats => when = wall + every
<1>1. ASSUME NEW when \in Moments, RunAt(t, when)
      PROVE  AddTimer(t, when, 0, FALSE) /\ when \in Int
  BY <1>1, InputAssumption DEF RunAt
<1>2. ASSUME NEW delay \in Delays, RunAfter(t, delay)
      PROVE  AddTimer(t, wall + delay, 0, FALSE) /\ wall + delay \in Int
  <2>1. wall + delay \in Int
    BY InputAssumption
  <2> QED
    BY <1>2, <2>1, Zenon DEF RunAfter, RunAt
<1>3. ASSUME NEW delay \in Delays, RunEvery(t, delay)
      PROVE  AddTimer(t, wall + delay, delay, TRUE) /\ wall + delay \in Int /\ delay \in Nat
  <2>1. wall + delay \in Int /\ delay \in Nat
    BY InputAssumption
  <2> QED
    BY <1>3, <2>1, Zenon DEF RunEvery
<1>4. 0 \in Nat
  OBVIOUS
<1> QED
  BY <1>1, <1>2, <1>3, <1>4, Zenon

-----------------------------------------------------------------------------
(***************************************************************************)
(* The alarm.                                                              *)
(***************************************************************************)

\* reset does not arm the timerfd for a due date that is not valid.  Such a timer
\* can only have been added by a callback of the round: getExpired took every
\* other one, and addTimer armed the timerfd for it.
AlarmInv ==
    /\ Timely
    /\ clockSets = 0 => wall = mono
    /\ pc # "outside" => handlerNow > 0
    /\ pc = "callbacks" => \A e \in timers : e.when <= 0 => Alarmed(e)

(***************************************************************************)
(* Arming the timerfd for a date gives their alarm to all later dates.     *)
(***************************************************************************)
LEMMA ArmedForAll ==
    ASSUME TypeOK, clockSets = 0 => wall = mono, NEW when \in Int,
           fdDeadline' = mono + TimeFromNow(when), UNCHANGED <<mono, clockSets>>,
           NEW e \in Entries, when <= e.when
    PROVE  Alarmed(e)'
BY DelayAssumption DEF TypeOK, TimeFromNow, Alarmed, Disarmed, Entries

(***************************************************************************)
(* A timer that need not be armed for shares the alarm of an earlier one.  *)
(***************************************************************************)
LEMMA SharedAlarm ==
    ASSUME TypeOK, NEW e \in Entries, NEW f \in Entries, Alarmed(e), e.when <= f.when
    PROVE  Alarmed(f)
BY DelayAssumption DEF TypeOK, Alarmed, Entries

(***************************************************************************)
(* While the loop may block, every queued timer has its alarm.             *)
(***************************************************************************)
THEOREM AlarmsAreTimely == Spec => []Timely
<1>1. Init => AlarmInv
  BY DEF Init, AlarmInv, Timely
<1>2. TypeOK /\ TypeOK' /\ AlarmInv /\ [Next]_vars => AlarmInv'
  <2> SUFFICES ASSUME TypeOK, TypeOK', AlarmInv, [Next]_vars PROVE AlarmInv'
    OBVIOUS
  <2>1. ASSUME NEW t \in Timers, NEW when \in Int, NEW every \in Nat, NEW repeats \in BOOLEAN,
               AddTimer(t, when, every, repeats)
        PROVE  AlarmInv'
    <3>1. /\ timers' = timers \cup {Entry(when, t)}
          /\ UNCHANGED <<wall, mono, clockSets, pc, handlerNow>>
      BY <2>1 DEF AddTimer, clocks, handler
    <3>2. Entry(when, t) \in Entries /\ Entry(when, t).when = when /\ timers \subseteq Entries
      BY DEF Entry, Entries, TypeOK
    <3>3. CASE EarliestChanged(when)
      <4>1. fdDeadline' = mono + TimeFromNow(when)
        BY <2>1, <3>3 DEF AddTimer
      <4>2. \A e \in timers' : e \in Entries /\ when <= e.when
        BY <3>1, <3>2, <3>3 DEF EarliestChanged, Entries
      <4>3. \A e \in timers' : Alarmed(e)'
        BY <3>1, <4>1, <4>2, ArmedForAll DEF AlarmInv
      <4> QED
        BY <3>1, <4>3 DEF AlarmInv, Timely
    <3>4. CASE ~EarliestChanged(when)
      <4>1. UNCHANGED <<fdDeadline, mono, clockSets>>
        BY <2>1, <3>1, <3>4 DEF AddTimer
      <4>2. PICK first \in timers : first.when <= when
        BY <3>2, <3>4 DEF EarliestChanged, Entries
      <4>3. Alarmed(first) => Alarmed(Entry(when, t))
        BY <3>2, <4>2, SharedAlarm
      <4>4. \A e : Alarmed(e) => Alarmed(e)'
        BY <4>1 DEF Alarmed
      <4>5. when <= 0 => first.when <= 0
        BY <3>2, <4>2 DEF Entries
      <4>6. pc = "outside" => \A e \in timers' : Alarmed(e)'
        BY <3>1, <4>2, <4>3, <4>4 DEF AlarmInv, Timely
      <4>7. pc = "callbacks" => \A e \in timers' : e.when <= 0 => Alarmed(e)'
        BY <3>1, <3>2, <4>2, <4>3, <4>4, <4>5 DEF AlarmInv
      <4> QED
        BY <3>1, <4>6, <4>7 DEF AlarmInv, Timely
    <3> QED
      BY <3>3, <3>4
  <2>2. ASSUME NEW t \in Timers,
               \/ \E when \in Moments : RunAt(t, when)
               \/ \E delay \in Delays : RunAfter(t, delay) \/ RunEvery(t, delay)
        PROVE  AlarmInv'
    BY <2>1, <2>2, AddTimerCases DEF TypeOK
  <2>3. ASSUME UNCHANGED <<clocks, queue, fdDeadline, pc, handlerNow>> PROVE AlarmInv'
    BY <2>3 DEF AlarmInv, Timely, Alarmed, clocks, queue
  <2>4. CASE PollTimerfd
    BY <2>3, <2>4 DEF PollTimerfd, handler
  <2>5. CASE HandleRead
    BY <2>5 DEF HandleRead, AlarmInv, Timely, clocks, TypeOK
  <2>11. CASE GetExpired
    <3>1. pc' = "callbacks" /\ handlerNow > 0 /\ UNCHANGED <<wall, mono, clockSets, handlerNow>>
      BY <2>11 DEF GetExpired, AlarmInv, clocks
    <3>2. \A e \in timers' : e.when > 0
      BY <2>11, <3>1 DEF GetExpired, Due, TypeOK, Entries
    <3>3. timers' \subseteq Entries
      BY DEF TypeOK
    <3> QED
      BY <3>1, <3>2, <3>3 DEF AlarmInv, Timely, TypeOK, Entries
  <2>6. CASE RunTimer
    BY <2>3, <2>6 DEF RunTimer, handler
  <2>7. CASE Reset
    <3>1. /\ pc = "callbacks" /\ pc' = "outside" /\ Rearm(timers')
          /\ UNCHANGED <<wall, mono, clockSets>>
      BY <2>7 DEF Reset, clocks
    <3>2. timers \subseteq Entries /\ timers' \subseteq Entries
      BY DEF TypeOK
    <3>3. \A e \in timers' : e \in timers \/ e.when > 0
      <4>1. \A e \in expired : NextDate(e) > 0
        BY <2>7 DEF Reset, NextDate, AlarmInv, TypeOK, Entries
      <4> QED
        BY <2>7, <4>1 DEF Reset, Entry
    <3>4. CASE timers' = {}
      BY <3>1, <3>4 DEF AlarmInv, Timely
    <3>5. CASE timers' # {}
      <4>1. PICK first \in timers' :
                /\ \A e \in timers' : first.when <= e.when
                /\ fdDeadline' = IF first.when > 0 THEN mono + TimeFromNow(first.when)
                                                   ELSE fdDeadline
        BY <3>1, <3>5, Zenon DEF Rearm
      <4>2. first \in Entries /\ first.when \in Int
        BY <3>2 DEF Entries
      <4>3. CASE first.when > 0
        <5>1. \A e \in timers' : Alarmed(e)'
          BY <3>1, <3>2, <4>1, <4>2, <4>3, ArmedForAll DEF AlarmInv
        <5> QED
          BY <3>1, <5>1 DEF AlarmInv, Timely
      <4>4. CASE ~(first.when > 0)
        <5>1. fdDeadline' = fdDeadline /\ first.when <= 0
          BY <4>1, <4>2, <4>4
        <5>2. Alarmed(first)
          BY <3>1, <3>3, <4>4, <5>1 DEF AlarmInv
        <5>3. \A e \in timers' : Alarmed(e)
          BY <3>2, <4>1, <5>2, SharedAlarm
        <5>4. \A e : Alarmed(e) => Alarmed(e)'
          BY <3>1, <5>1 DEF Alarmed
        <5> QED
          BY <3>1, <5>3, <5>4 DEF AlarmInv, Timely
      <4> QED
        BY <4>3, <4>4
    <3> QED
      BY <3>4, <3>5
  <2>8. CASE Tick
    <3>1. \A e \in timers : Alarmed(e) => Alarmed(e)'
      BY <2>8, DelayAssumption DEF Tick, Alarmed, TypeOK, Entries
    <3> QED
      BY <2>8, <3>1 DEF Tick, AlarmInv, Timely, TypeOK, queue, handler
  <2>9. CASE SetClock
    <3>1. clockSets' # 0
      BY <2>9 DEF SetClock, TypeOK
    <3>2. \A e \in timers : Alarmed(e) => Alarmed(e)'
      BY <2>9, <3>1 DEF SetClock, Alarmed
    <3> QED
      BY <2>9, <3>1, <3>2 DEF SetClock, AlarmInv, Timely, queue, handler
  <2>10. CASE UNCHANGED vars
    BY <2>3, <2>10 DEF vars, handler
  <2> QED
    BY <2>2, <2>4, <2>5, <2>6, <2>7, <2>8, <2>9, <2>10, <2>11 DEF Next, LoopStep
<1>3. AlarmInv => Timely
  BY DEF AlarmInv
<1> QED
  BY <1>1, <1>2, <1>3, TypeCorrect, PTL DEF Spec

-----------------------------------------------------------------------------
(***************************************************************************)
(* Ownership of the Timer objects.                                         *)
(***************************************************************************)

\* Between two rounds no batch is left over.
OwnerInv ==
    /\ HeldOnce
    /\ pc # "callbacks" => expired = {}

(***************************************************************************)
(* Timers move between the queue and the batch as a whole.                 *)
(***************************************************************************)
LEMMA OwnerInvariant == Spec => []OwnerInv
<1>1. Init => OwnerInv
  BY DEF Init, OwnerInv, HeldOnce, TimerOf
<1>2. TypeOK /\ OwnerInv /\ [Next]_vars => OwnerInv'
  <2> SUFFICES ASSUME TypeOK, OwnerInv, [Next]_vars PROVE OwnerInv'
    OBVIOUS
  <2>1. ASSUME NEW t \in Timers, NEW when \in Int, NEW every \in Nat, NEW repeats \in BOOLEAN,
               AddTimer(t, when, every, repeats)
        PROVE  OwnerInv'
    <3>1. /\ timers' = timers \cup {Entry(when, t)} /\ Entry(when, t).timer = t
          /\ activeTimers' = activeTimers \cup {t}
          /\ UNCHANGED <<pc, expired>>
          /\ life[t] = "unborn"
          /\ life' = [life EXCEPT ![t] = "alive"]
      BY <2>1 DEF AddTimer, handler, Entry
    <3>2. \A e \in timers \cup expired : e.timer # t
      BY <3>1 DEF OwnerInv, HeldOnce, TimerOf
    <3>3. activeTimers' = TimerOf(timers')
      BY <3>1 DEF OwnerInv, HeldOnce, TimerOf
    <3>4. TimerOf(timers') \cap TimerOf(expired') = {}
      BY <3>1, <3>2 DEF OwnerInv, HeldOnce, TimerOf
    <3>5. \A e, f \in timers' \cup expired' : e.timer = f.timer => e = f
      BY <3>1, <3>2 DEF OwnerInv, HeldOnce
    <3>6. \A u \in Timers : life'[u] = "alive" <=> u \in TimerOf(timers' \cup expired')
      BY <3>1 DEF OwnerInv, HeldOnce, TimerOf, TypeOK
    <3> QED
      BY <3>1, <3>3, <3>4, <3>5, <3>6 DEF OwnerInv, HeldOnce
  <2>2. ASSUME NEW t \in Timers,
               \/ \E when \in Moments : RunAt(t, when)
               \/ \E delay \in Delays : RunAfter(t, delay) \/ RunEvery(t, delay)
        PROVE  OwnerInv'
    BY <2>1, <2>2, AddTimerCases DEF TypeOK
  <2>3. ASSUME UNCHANGED <<queue, pc, expired>> PROVE OwnerInv'
    BY <2>3 DEF OwnerInv, HeldOnce, TimerOf, queue
  <2>4. CASE GetExpired
    <3>1. /\ expired = {}
          /\ timers' \cup expired' = timers
          /\ timers' \cap expired' = {}
          /\ activeTimers' = activeTimers \ TimerOf(expired')
          /\ pc' = "callbacks"
          /\ life' = life
      BY <2>4 DEF GetExpired, StillActive, OwnerInv
    <3>2. \A e, f \in timers' \cup expired' : e.timer = f.timer => e = f
      BY <3>1 DEF OwnerInv, HeldOnce
    <3>3. TimerOf(timers') \cap TimerOf(expired') = {}
      BY <3>1, <3>2 DEF TimerOf
    <3>4. activeTimers' = TimerOf(timers')
      BY <3>1, <3>3 DEF OwnerInv, HeldOnce, TimerOf
    <3>5. \A t \in Timers : life'[t] = "alive" <=> t \in TimerOf(timers' \cup expired')
      BY <3>1 DEF OwnerInv, HeldOnce
    <3> QED
      BY <3>1, <3>2, <3>3, <3>4, <3>5 DEF OwnerInv, HeldOnce
  <2>5. CASE Reset
    <3> DEFINE again == {e \in expired : RunsAgain(e.timer)}
               restarted == {Entry(NextDate(e), e.timer) : e \in again}
    <3>1. /\ expired' = {} /\ pc' = "outside"
          /\ timers' = timers \cup restarted
          /\ activeTimers' = activeTimers \cup TimerOf(again)
          /\ life' = [t \in Timers |-> IF t \in TimerOf(expired \ again) THEN "deleted"
                                                                         ELSE life[t]]
      BY <2>5 DEF Reset
    <3>2. TimerOf(restarted) = TimerOf(again)
      <4>1. \A e \in again : Entry(NextDate(e), e.timer) \in restarted
        OBVIOUS
      <4>2. \A when, t : Entry(when, t).timer = t
        BY DEF Entry
      <4>3. \A f \in restarted : \E e \in again : f.timer = e.timer
        BY <4>2
      <4> HIDE DEF restarted, again
      <4> QED
        BY <4>1, <4>2, <4>3 DEF TimerOf
    <3>3. \A f, g \in restarted : f.timer = g.timer => f = g
      <4>1. \A e, d \in expired : e.timer = d.timer => e = d
        BY DEF OwnerInv, HeldOnce
      <4> QED
        BY <4>1 DEF Entry
    <3>4. TimerOf(timers') = TimerOf(timers) \cup TimerOf(again)
      BY <3>1, <3>2 DEF TimerOf
    <3>5. ASSUME NEW e \in timers', NEW f \in timers', e.timer = f.timer PROVE e = f
      <4>1. \A g \in timers : g.timer \in TimerOf(timers)
        BY DEF TimerOf
      <4>2. \A g \in restarted : g.timer \in TimerOf(expired)
        BY DEF Entry, TimerOf
      <4>3. TimerOf(timers) \cap TimerOf(expired) = {}
        BY DEF OwnerInv, HeldOnce
      <4>4. \A g, h \in timers : g.timer = h.timer => g = h
        BY DEF OwnerInv, HeldOnce
      <4> HIDE DEF restarted
      <4> QED
        BY <3>1, <3>3, <3>5, <4>1, <4>2, <4>3, <4>4
    <3>8. TimerOf(expired \ again) = TimerOf(expired) \ TimerOf(again)
      BY DEF TimerOf
    <3>9. TimerOf(again) \subseteq TimerOf(expired)
      BY DEF TimerOf
    <3>6. \A t \in Timers : life'[t] = "alive" <=> t \in TimerOf(timers')
      <4>1. TimerOf(timers \cup expired) = TimerOf(timers) \cup TimerOf(expired)
        BY DEF TimerOf
      <4>2. \A t \in Timers : life[t] = "alive" <=> t \in TimerOf(timers) \cup TimerOf(expired)
        BY <4>1 DEF OwnerInv, HeldOnce
      <4> QED
        BY <3>1, <3>4, <3>8, <3>9, <4>2 DEF OwnerInv, HeldOnce
    <3>7. timers' \cup expired' = timers' /\ TimerOf(expired') = {}
      BY <3>1 DEF TimerOf
    <3> QED
      BY <3>1, <3>4, <3>5, <3>6, <3>7 DEF OwnerInv, HeldOnce
  <2>6. CASE PollTimerfd
    BY <2>3, <2>6 DEF PollTimerfd, handler
  <2>10. CASE HandleRead
    BY <2>10 DEF HandleRead, OwnerInv, HeldOnce, TimerOf, queue
  <2>7. CASE RunTimer
    BY <2>3, <2>7 DEF RunTimer
  <2>8. CASE Tick \/ SetClock
    BY <2>3, <2>8 DEF Tick, SetClock, handler
  <2>9. CASE UNCHANGED vars
    BY <2>3, <2>9 DEF vars, handler
  <2> QED
    BY <2>2, <2>4, <2>5, <2>6, <2>7, <2>8, <2>9, <2>10 DEF Next, LoopStep
<1> QED
  BY <1>1, <1>2, TypeCorrect, PTL DEF Spec

(***************************************************************************)
(* Every timer is in one place: the two sets of the queue agree, no timer  *)
(* is queued twice, none is freed while somebody holds it, none leaks.     *)
(***************************************************************************)
THEOREM TimersHeldOnce == Spec => []HeldOnce
<1>1. OwnerInv => HeldOnce
  BY DEF OwnerInv
<1> QED
  BY <1>1, OwnerInvariant, PTL

-----------------------------------------------------------------------------
(***************************************************************************)
(* Due dates.                                                              *)
(***************************************************************************)

\* What is left of the batch was due when handleRead looked at the clock, and
\* the clock has not gone back since.  Outside of the callbacks nothing is left.
DueInv ==
    /\ pc # "callbacks" => toRun = {}
    /\ \A e \in toRun : e.when <= handlerNow
    /\ clockSets = 0 => handlerNow <= wall

(***************************************************************************)
(* The batch is selected by handleRead's now, and time does not go back.   *)
(***************************************************************************)
LEMMA DueInvariant == Spec => []DueInv
<1>1. Init => DueInv
  BY DEF Init, DueInv
<1>2. TypeOK /\ TypeOK' /\ DueInv /\ [Next]_vars => DueInv'
  <2> SUFFICES ASSUME TypeOK, TypeOK', DueInv, [Next]_vars PROVE DueInv'
    OBVIOUS
  <2>1. ASSUME UNCHANGED <<wall, clockSets, handlerNow>>, toRun' \subseteq toRun,
               pc' = pc \/ toRun' = {}
        PROVE  DueInv'
    BY <2>1 DEF DueInv
  <2>2. ASSUME NEW t \in Timers, NEW when \in Int, NEW every \in Nat, NEW repeats \in BOOLEAN,
               AddTimer(t, when, every, repeats)
        PROVE  DueInv'
    BY <2>1, <2>2 DEF AddTimer, clocks, handler
  <2>3. ASSUME NEW t \in Timers,
               \/ \E when \in Moments : RunAt(t, when)
               \/ \E delay \in Delays : RunAfter(t, delay) \/ RunEvery(t, delay)
        PROVE  DueInv'
    BY <2>2, <2>3, AddTimerCases DEF TypeOK
  <2>4. CASE PollTimerfd
    BY <2>1, <2>4 DEF PollTimerfd, clocks, handler
  <2>5. CASE HandleRead
    BY <2>5 DEF HandleRead, DueInv, clocks, TypeOK
  <2>11. CASE GetExpired
    BY <2>11 DEF GetExpired, Due, DueInv, clocks, TypeOK
  <2>6. CASE RunTimer
    BY <2>1, <2>6 DEF RunTimer, clocks
  <2>7. CASE Reset
    BY <2>1, <2>7 DEF Reset, BatchDone, clocks
  <2>8. CASE Tick
    BY <2>8 DEF Tick, DueInv, handler, TypeOK
  <2>9. CASE SetClock
    BY <2>9 DEF SetClock, DueInv, handler, TypeOK
  <2>10. CASE UNCHANGED vars
    BY <2>1, <2>10 DEF vars, clocks, handler
  <2> QED
    BY <2>3, <2>4, <2>5, <2>6, <2>7, <2>8, <2>9, <2>10, <2>11 DEF Next, LoopStep
<1> QED
  BY <1>1, <1>2, TypeCorrect, PTL DEF Spec

(***************************************************************************)
(* No callback runs before its due date, unless the clock was set.         *)
(***************************************************************************)
THEOREM CallbacksAreNotEarly == Spec => NeverEarly
<1>1. TypeOK /\ DueInv =>
        (clockSets = 0 => \A e \in toRun \ toRun' : e.when <= wall)
  BY DEF TypeOK, Entries, DueInv
<1> QED
  BY <1>1, DueInvariant, TypeCorrect, PTL DEF Spec, NeverEarly

-----------------------------------------------------------------------------
(***************************************************************************)
(* How often callbacks run.                                                *)
(***************************************************************************)

\* The timer of e never ran, or it repeats and e waits an interval longer.
MayRun(e) ==
    LET t == e.timer
    IN ranAt[t] # 0 => repeat[t] /\ e.when >= ranAt[t] + interval[t]

RunsInv ==
    /\ \A t \in Timers : life[t] = "unborn" => ranAt[t] = 0
    /\ \A e \in timers \cup toRun : MayRun(e)
    /\ \A e \in expired \ toRun : ranAt[e.timer] = handlerNow

(***************************************************************************)
(* addTimer: a new timer has not run.                                      *)
(***************************************************************************)
LEMMA AddTimerRuns ==
    ASSUME TypeOK, OwnerInv, RunsInv,
           NEW t \in Timers, NEW when \in Int, NEW every \in Nat, NEW repeats \in BOOLEAN,
           AddTimer(t, when, every, repeats)
    PROVE  RunsInv'
<1>1. /\ life[t] = "unborn" /\ life' = [life EXCEPT ![t] = "alive"]
      /\ interval' = [interval EXCEPT ![t] = every]
      /\ repeat' = [repeat EXCEPT ![t] = repeats]
      /\ timers' = timers \cup {Entry(when, t)}
      /\ UNCHANGED <<expired, toRun, handlerNow, ranAt>>
  BY DEF AddTimer, handler
<1>2. ranAt[t] = 0
  BY <1>1 DEF RunsInv
<1>3. \A u \in Timers \ {t} : /\ interval'[u] = interval[u] /\ repeat'[u] = repeat[u]
                              /\ life'[u] = life[u]
  BY <1>1 DEF TypeOK
<1>4. \A e \in timers \cup expired : e.timer \in Timers \ {t}
  BY <1>1 DEF OwnerInv, HeldOnce, TimerOf, TypeOK, Entries
<1>5. \A u \in Timers : life'[u] = "unborn" => ranAt'[u] = 0
  BY <1>1, <1>2, <1>3 DEF RunsInv
<1>6. ASSUME NEW e \in timers' \cup toRun' PROVE MayRun(e)'
  <2>1. CASE e \in timers \cup toRun
    <3>1. MayRun(e) /\ e.timer \in Timers \ {t}
      BY <1>4, <2>1 DEF RunsInv, TypeOK
    <3> QED
      BY <1>1, <1>3, <3>1 DEF MayRun
  <2>2. CASE e = Entry(when, t)
    BY <1>1, <1>2, <2>2 DEF MayRun, Entry
  <2> QED
    BY <1>1, <1>6, <2>1, <2>2
<1> QED
  BY <1>1, <1>5, <1>6 DEF RunsInv

(***************************************************************************)
(* A callback: no other entry is of its timer.                             *)
(***************************************************************************)
LEMMA RunTimerRuns ==
    ASSUME TypeOK, OwnerInv, RunsInv, RunTimer PROVE RunsInv'
<1>1. PICK e \in toRun : /\ toRun' = toRun \ {e}
                         /\ ranAt' = [ranAt EXCEPT ![e.timer] = handlerNow]
  BY DEF RunTimer
<1>2. UNCHANGED <<timers, repeat, interval, life, expired, handlerNow>>
  BY DEF RunTimer, queue
<1>3. e \in expired /\ e.timer \in Timers
  BY DEF TypeOK, Entries
<1>4. /\ ranAt'[e.timer] = handlerNow
      /\ \A u \in Timers \ {e.timer} : ranAt'[u] = ranAt[u]
  BY <1>1, <1>3 DEF TypeOK
<1>5. \A f \in (timers \cup expired) \ {e} : f.timer \in Timers \ {e.timer}
  BY <1>3 DEF OwnerInv, HeldOnce, TypeOK, Entries
<1>6. e \notin timers
  BY <1>3 DEF OwnerInv, HeldOnce, TimerOf
<1>7. \A u \in Timers : life'[u] = "unborn" => ranAt'[u] = 0
  <2>1. life[e.timer] = "alive"
    BY <1>3 DEF OwnerInv, HeldOnce, TimerOf
  <2> QED
    BY <1>2, <1>4, <2>1 DEF RunsInv
<1>8. ASSUME NEW f \in timers' \cup toRun' PROVE MayRun(f)'
  <2>1. f \in timers \cup toRun /\ f.timer \in Timers \ {e.timer}
    BY <1>1, <1>2, <1>5, <1>6, <1>8 DEF TypeOK
  <2> QED
    BY <1>2, <1>4, <2>1 DEF RunsInv, MayRun
<1>9. ASSUME NEW f \in expired' \ toRun' PROVE ranAt'[f.timer] = handlerNow'
  <2>1. f = e \/ (f \in expired \ toRun /\ f.timer \in Timers \ {e.timer})
    BY <1>1, <1>2, <1>5, <1>9
  <2> QED
    BY <1>2, <1>4, <2>1 DEF RunsInv
<1> QED
  BY <1>7, <1>8, <1>9 DEF RunsInv

(***************************************************************************)
(* reset: an interval is added to the now the batch was selected by, which *)
(* is also the now its timers ran at.                                      *)
(***************************************************************************)
LEMMA ResetRuns ==
    ASSUME TypeOK, RunsInv, Reset PROVE RunsInv'
<1> DEFINE again == {e \in expired : RunsAgain(e.timer)}
           restarted == {Entry(NextDate(e), e.timer) : e \in again}
<1>1. /\ expired' = {} /\ toRun = {} /\ timers' = timers \cup restarted
      /\ life' = [t \in Timers |-> IF t \in TimerOf(expired \ again) THEN "deleted"
                                                                     ELSE life[t]]
      /\ UNCHANGED <<interval, repeat, toRun, ranAt>>
  BY DEF Reset, BatchDone
<1>2. \A u \in Timers : life'[u] = "unborn" => ranAt'[u] = 0
  BY <1>1 DEF RunsInv
<1>3. ASSUME NEW f \in restarted PROVE MayRun(f)'
  <2>1. PICK e \in again : f = Entry(NextDate(e), e.timer)
    OBVIOUS
  <2>2. f.timer = e.timer /\ f.when = handlerNow + interval[e.timer] /\ repeat[e.timer]
    BY <2>1 DEF Entry, NextDate, RunsAgain
  <2>3. ranAt[e.timer] = handlerNow
    BY <1>1 DEF RunsInv
  <2>4. f.when >= ranAt[e.timer] + interval[e.timer]
    <3>1. e.timer \in Timers
      BY DEF TypeOK, Entries
    <3>2. handlerNow \in Nat /\ interval[e.timer] \in Nat
      BY <3>1 DEF TypeOK
    <3> QED
      BY <2>2, <2>3, <3>2
  <2> HIDE DEF again, restarted
  <2> QED
    BY <1>1, <2>2, <2>4 DEF MayRun
<1>4. ASSUME NEW f \in timers' \cup toRun' PROVE MayRun(f)'
  <2> HIDE DEF restarted
  <2>1. CASE f \in timers
    BY <1>1, <2>1 DEF RunsInv, MayRun
  <2> QED
    BY <1>1, <1>3, <1>4, <2>1
<1> QED
  BY <1>1, <1>2, <1>4 DEF RunsInv

(***************************************************************************)
(* Every step keeps the distance between the runs.                         *)
(***************************************************************************)
LEMMA NextRuns ==
    TypeOK /\ OwnerInv /\ RunsInv /\ [Next]_vars => RunsInv'
<1> SUFFICES ASSUME TypeOK, OwnerInv, RunsInv, [Next]_vars PROVE RunsInv'
  OBVIOUS
<1>1. ASSUME NEW t \in Timers,
             \/ \E when \in Moments : RunAt(t, when)
             \/ \E delay \in Delays : RunAfter(t, delay) \/ RunEvery(t, delay)
      PROVE  RunsInv'
  <2>1. PICK when \in Int, every \in Nat, repeats \in BOOLEAN :
            AddTimer(t, when, every, repeats)
    BY <1>1, AddTimerCases DEF TypeOK
  <2> QED
    BY <2>1, AddTimerRuns
<1>2. ASSUME UNCHANGED <<queue, expired, toRun, handlerNow, ranAt>>
      PROVE  RunsInv'
  BY <1>2 DEF RunsInv, MayRun, queue
<1>3. CASE PollTimerfd
  BY <1>2, <1>3 DEF PollTimerfd, handler
<1>4. CASE HandleRead
  <2>1. expired = {} /\ UNCHANGED <<queue, expired, toRun, ranAt>>
    BY <1>4 DEF HandleRead, OwnerInv
  <2> QED
    BY <2>1 DEF RunsInv, MayRun, queue
<1>5. CASE GetExpired
  <2>1. /\ expired' \ toRun' = {} /\ timers' \cup toRun' \subseteq timers
        /\ UNCHANGED <<interval, repeat, life, ranAt>>
    BY <1>5 DEF GetExpired
  <2> QED
    BY <2>1 DEF RunsInv, MayRun
<1>6. CASE RunTimer
  BY <1>6, RunTimerRuns
<1>7. CASE Reset
  BY <1>7, ResetRuns
<1>8. CASE Tick \/ SetClock
  BY <1>2, <1>8 DEF Tick, SetClock, handler
<1>9. CASE UNCHANGED vars
  BY <1>2, <1>9 DEF vars, handler
<1> QED
  BY <1>1, <1>3, <1>4, <1>5, <1>6, <1>7, <1>8, <1>9 DEF Next, LoopStep

(***************************************************************************)
(* A timer runs once, or again an interval later, whatever the clock does. *)
(***************************************************************************)
THEOREM RunsStaySpaced == Spec => RunsSpaced
<1>1. Init => RunsInv
  BY DEF Init, RunsInv
<1>2. ASSUME TypeOK, DueInv, RunsInv, NEW t \in TimerOf(toRun \ toRun'), ranAt[t] # 0
      PROVE  repeat[t] /\ handlerNow >= ranAt[t] + interval[t]
  <2>1. PICK e \in toRun : e.timer = t
    BY DEF TimerOf
  <2>2. /\ e.when <= handlerNow /\ repeat[t] /\ e.when >= ranAt[t] + interval[t]
    BY <1>2, <2>1 DEF DueInv, RunsInv, MayRun
  <2>3. /\ e.when \in Int /\ handlerNow \in Nat /\ ranAt[t] \in Nat /\ interval[t] \in Nat
    <3>1. e \in Entries
      BY <1>2 DEF TypeOK
    <3>2. e.when \in Int /\ t \in Timers
      BY <2>1, <3>1 DEF Entries
    <3> QED
      BY <1>2, <3>2 DEF TypeOK
  <2> QED
    BY <2>2, <2>3
<1>3. TypeOK /\ DueInv /\ RunsInv =>
        \A t \in TimerOf(toRun \ toRun') :
            ranAt[t] # 0 => repeat[t] /\ handlerNow >= ranAt[t] + interval[t]
  BY <1>2
<1> QED
  BY <1>1, <1>3, NextRuns, OwnerInvariant, DueInvariant, TypeCorrect, PTL DEF Spec, RunsSpaced
=============================================================================
