--------------------------- MODULE EventLoopProofs ---------------------------
(***************************************************************************)
(* Theorems about EventLoop, for any number of threads and functors.       *)
(***************************************************************************)
EXTENDS EventLoop, SequenceTheorems, TLAPS

(***************************************************************************)
(* Type correctness of the whole state: the queue, the eventfd, the loop   *)
(* thread's position and what each thread still owes.                      *)
(***************************************************************************)
THEOREM TypeCorrect == Spec => []TypeOK
<1>1. Init => TypeOK
  <2> SUFFICES ASSUME Init PROVE TypeOK
    OBVIOUS
  <2>1. <<>> \in Seq(Tasks)
    BY EmptySeq
  <2>2. owedWakeups \in [Threads -> 0..2] /\ wakeupfd \in Nat /\ loopPc \in LoopPoints
    BY DEF Init, LoopPoints
  <2> QED
    BY <2>1, <2>2, Zenon DEF Init, TypeOK
<1>2. TypeOK /\ [Next]_vars => TypeOK'
  <2> SUFFICES ASSUME TypeOK, [Next]_vars PROVE TypeOK'
    OBVIOUS
  <2> USE DEF TypeOK, LoopPoints
  <2>1. ASSUME NEW t \in Threads, NEW task \in Tasks, NEW owed \in 0..2, Push(t, task, owed)
        PROVE  TypeOK'
    BY <2>1 DEF Push
  <2>2. ASSUME NEW t \in Threads, NEW task \in Tasks, QueueInLoop(t, task) PROVE TypeOK'
    BY <2>1, <2>2 DEF QueueInLoop
  <2>3. ASSUME NEW t \in Threads, NEW task \in Tasks, RunInLoop(t, task) PROVE TypeOK'
    BY <2>1, <2>3 DEF RunInLoop
  <2>4. ASSUME NEW t \in Threads, Wakeup(t) PROVE TypeOK'
    BY <2>4 DEF Wakeup, queueVars, historyVars
  <2>5. ASSUME NEW task \in Tasks, SelfQueueInLoop(task) PROVE TypeOK'
    BY <2>5 DEF SelfQueueInLoop
  <2>6. ASSUME NEW task \in Tasks, SelfRunInLoop(task) PROVE TypeOK'
    BY <2>6 DEF SelfRunInLoop, queueVars
  <2>7. CASE Stop
    BY <2>7 DEF Stop, queueVars, historyVars
  <2>8. CASE PollOther \/ PollNothing \/ PollWakeup
    BY <2>8 DEF PollOther, PollNothing, PollWakeup, LoopGoesTo, queueVars, historyVars
  <2>9. CASE StartLoop \/ TestStop
    BY <2>9 DEF StartLoop, TestStop, LoopGoesTo, queueVars, historyVars
  <2>10. CASE HandleEventfdRead
    BY <2>10 DEF HandleEventfdRead, queueVars, historyVars
  <2>15. CASE HandlersReturn
    BY <2>15 DEF HandlersReturn, LoopGoesTo, queueVars, historyVars
  <2>11. CASE SwapFunctors
    BY <2>11 DEF SwapFunctors, LoopGoesTo, historyVars
  <2>12. CASE RunFunctor
    BY <2>12 DEF RunFunctor
  <2>13. CASE FunctorsDone
    BY <2>13 DEF FunctorsDone, historyVars
  <2>14. CASE UNCHANGED vars
    BY <2>14 DEF vars, queueVars, historyVars
  <2> QED
    BY <2>2, <2>3, <2>4, <2>5, <2>6, <2>7, <2>8, <2>9, <2>10, <2>11, <2>12, <2>13, <2>14, <2>15
    DEF Next, LoopStep
<1> QED
  BY <1>1, <1>2, PTL DEF Spec

-----------------------------------------------------------------------------
(***************************************************************************)
(* The order of the queue.                                                 *)
(***************************************************************************)

\* Outside of the functor phase the local vector of doPendingFunctors is empty,
\* so that SwapFunctors overwrites nothing.
OrderInv ==
    /\ ExactlyOnceInOrder
    /\ loopPc \notin {"iterate", "functor"} => functors = <<>>

(***************************************************************************)
(* Moving the head of the batch to the end of what ran changes nothing of  *)
(* the whole.                                                              *)
(***************************************************************************)
LEMMA MoveHead ==
    ASSUME NEW S, NEW ran \in Seq(S), NEW batch \in Seq(S), batch # <<>>, NEW rest \in Seq(S)
    PROVE  Append(ran, Head(batch)) \o Tail(batch) \o rest = ran \o batch \o rest
<1> DEFINE left == Append(ran, Head(batch)) \o Tail(batch)
           right == ran \o batch
<1>1. Head(batch) \in S /\ Tail(batch) \in Seq(S) /\ Len(Tail(batch)) = Len(batch) - 1
      /\ Len(batch) \in Nat \ {0} /\ Len(ran) \in Nat
      /\ Head(batch) = batch[1]
      /\ \A i \in 1..Len(Tail(batch)) : Tail(batch)[i] = batch[i + 1]
  BY HeadTailProperties, EmptySeq, LenProperties
<1>2. Append(ran, Head(batch)) \in Seq(S) /\ Len(Append(ran, Head(batch))) = Len(ran) + 1
      /\ \A i \in 1..(Len(ran) + 1) :
            Append(ran, Head(batch))[i] = IF i <= Len(ran) THEN ran[i] ELSE Head(batch)
  BY <1>1, AppendProperties
<1>3. left \in Seq(S) /\ Len(left) = Len(ran) + Len(batch)
      /\ \A i \in 1..Len(left) :
            left[i] = IF i <= Len(ran) + 1 THEN Append(ran, Head(batch))[i]
                                           ELSE Tail(batch)[i - (Len(ran) + 1)]
  BY <1>1, <1>2, ConcatProperties
<1>4. right \in Seq(S) /\ Len(right) = Len(ran) + Len(batch)
      /\ \A i \in 1..Len(right) :
            right[i] = IF i <= Len(ran) THEN ran[i] ELSE batch[i - Len(ran)]
  BY ConcatProperties
<1>5. ASSUME NEW i \in 1..Len(left) PROVE left[i] = right[i]
  <2>1. i \in 1..(Len(ran) + Len(batch)) /\ Len(right) = Len(left)
    BY <1>3, <1>4
  <2>2. CASE i <= Len(ran)
    BY <1>1, <1>2, <1>3, <1>4, <2>1, <2>2
  <2>3. CASE i = Len(ran) + 1
    BY <1>1, <1>2, <1>3, <1>4, <2>1, <2>3
  <2>4. CASE i > Len(ran) + 1
    BY <1>1, <1>3, <1>4, <2>1, <2>4
  <2> QED
    BY <1>1, <2>1, <2>2, <2>3, <2>4
<1>6. left = right
  BY <1>3, <1>4, <1>5, SeqEqual
<1> QED
  BY <1>6

(***************************************************************************)
(* Exactly once, in order: what entered the queue is what ran, followed by *)
(* the rest of the batch, followed by what is pending.                     *)
(***************************************************************************)
THEOREM Order == Spec => []ExactlyOnceInOrder
<1>1. Init => OrderInv
  BY EmptySeq, ConcatEmptySeq DEF Init, OrderInv, ExactlyOnceInOrder
<1>2. TypeOK /\ OrderInv /\ [Next]_vars => OrderInv'
  <2> SUFFICES ASSUME TypeOK, OrderInv, [Next]_vars PROVE OrderInv'
    OBVIOUS
  <2>1. ASSUME NEW task \in Tasks, accepted' = Append(accepted, task),
               pendingFunctors' = Append(pendingFunctors, task),
               UNCHANGED <<executed, functors, loopPc>>
        PROVE  OrderInv'
    <3>1. executed \o functors \in Seq(Tasks)
      BY ConcatProperties DEF TypeOK
    <3>2. executed \o functors \o Append(pendingFunctors, task)
            = Append(executed \o functors \o pendingFunctors, task)
      <4>1. Append(pendingFunctors, task) = pendingFunctors \o <<task>>
        BY AppendIsConcat DEF TypeOK
      <4>2. executed \o functors \o pendingFunctors \in Seq(Tasks)
        BY <3>1, ConcatProperties DEF TypeOK
      <4>3. Append(executed \o functors \o pendingFunctors, task)
              = (executed \o functors \o pendingFunctors) \o <<task>>
        BY <4>2, AppendIsConcat
      <4>4. <<task>> \in Seq(Tasks)
        OBVIOUS
      <4> QED
        BY <3>1, <4>1, <4>3, <4>4, ConcatAssociative DEF TypeOK
    <3> QED
      BY <2>1, <3>2 DEF OrderInv, ExactlyOnceInOrder
  <2>2. ASSUME UNCHANGED <<queueVars, accepted, executed>>,
               loopPc \in {"iterate", "functor"} => loopPc' \in {"iterate", "functor"}
        PROVE  OrderInv'
    BY <2>2 DEF OrderInv, ExactlyOnceInOrder, queueVars
  <2>3. ASSUME NEW t \in Threads, NEW task \in Tasks,
               QueueInLoop(t, task) \/ RunInLoop(t, task)
        PROVE  OrderInv'
    BY <2>1, <2>3 DEF QueueInLoop, RunInLoop, Push
  <2>4. ASSUME NEW t \in Threads, Wakeup(t) PROVE OrderInv'
    BY <2>2, <2>4 DEF Wakeup, historyVars
  <2>5. ASSUME NEW task \in Tasks, SelfQueueInLoop(task) PROVE OrderInv'
    BY <2>1, <2>5 DEF SelfQueueInLoop
  <2>6. ASSUME NEW task \in Tasks, SelfRunInLoop(task) PROVE OrderInv'
    BY <2>2, <2>6 DEF SelfRunInLoop
  <2>7. CASE Stop
    BY <2>2, <2>7 DEF Stop, historyVars
  <2>8. CASE PollOther \/ PollNothing \/ PollWakeup
    BY <2>2, <2>8 DEF PollOther, PollNothing, PollWakeup, LoopGoesTo, historyVars
  <2>9. CASE StartLoop \/ TestStop
    BY <2>2, <2>9 DEF StartLoop, TestStop, LoopGoesTo, historyVars
  <2>10. CASE HandleEventfdRead \/ HandlersReturn
    BY <2>2, <2>10 DEF HandleEventfdRead, HandlersReturn, LoopGoesTo, historyVars
  <2>11. CASE SwapFunctors
    <3>1. functors = <<>> /\ functors' = pendingFunctors /\ pendingFunctors' = <<>>
          /\ executed' = executed /\ accepted' = accepted /\ loopPc' = "iterate"
      BY <2>11 DEF SwapFunctors, LoopGoesTo, OrderInv, historyVars
    <3>2. executed \o <<>> = executed
      BY ConcatEmptySeq DEF TypeOK
    <3>3. executed \o pendingFunctors \o <<>> = executed \o pendingFunctors
      BY ConcatProperties, ConcatEmptySeq DEF TypeOK
    <3> QED
      BY <3>1, <3>2, <3>3 DEF OrderInv, ExactlyOnceInOrder
  <2>12. CASE RunFunctor
    BY <2>12, MoveHead DEF RunFunctor, OrderInv, ExactlyOnceInOrder, TypeOK
  <2>13. CASE FunctorsDone
    BY <2>13 DEF FunctorsDone, OrderInv, ExactlyOnceInOrder, historyVars
  <2>14. CASE UNCHANGED vars
    BY <2>2, <2>14 DEF vars, historyVars
  <2> QED
    BY <2>3, <2>4, <2>5, <2>6, <2>7, <2>8, <2>9, <2>10, <2>11, <2>12, <2>13, <2>14
    DEF Next, LoopStep
<1>3. OrderInv => ExactlyOnceInOrder
  BY DEF OrderInv
<1> QED
  BY <1>1, <1>2, <1>3, TypeCorrect, PTL DEF Spec

-----------------------------------------------------------------------------
(***************************************************************************)
(* Wakeups.                                                                *)
(***************************************************************************)

\* Every pending functor was announced, except in the two phases after which
\* doPendingFunctors looks at the queue anyway; and a functor that queues
\* another one runs with callingPendingFunctors set.
WakeupInv ==
    /\ loopPc \in {"iterate", "functor"} => callingPendingFunctors
    /\ loopPc \in {"setup", "test", "poll", "iterate", "functor"} =>
           \A i \in DOMAIN pendingFunctors :
               pendingFunctors[i] \in unannounced \/ WakeupOnItsWay

(***************************************************************************)
(* No lost wakeup: the loop does not block in epoll_wait over a functor,   *)
(* unless the eventfd is readable, a thread is about to write it, or the   *)
(* functor was queued unannounced before loop().                           *)
(***************************************************************************)
THEOREM WakeupsAreNotLost == Spec => []NoLostWakeup
<1>1. Init => WakeupInv
  BY DEF Init, WakeupInv
<1>2. TypeOK /\ WakeupInv /\ [Next]_vars => WakeupInv'
  <2> SUFFICES ASSUME TypeOK, WakeupInv, [Next]_vars PROVE WakeupInv'
    OBVIOUS
  <2>1. ASSUME NEW t \in Threads, NEW task \in Tasks, NEW owed \in {1, 2}, Push(t, task, owed)
        PROVE  WakeupInv'
    <3>1. owedWakeups'[t] > 0
      BY <2>1 DEF Push, TypeOK
    <3>2. WakeupOnItsWay'
      BY <3>1 DEF WakeupOnItsWay
    <3> QED
      BY <2>1, <3>2, Zenon DEF WakeupInv, Push
  <2>2. ASSUME UNCHANGED <<queueVars, unannounced>>,
               loopPc' \in {"setup", "test", "poll", "iterate", "functor"} =>
                   loopPc \in {"setup", "test", "poll", "iterate", "functor"},
               loopPc' \in {"iterate", "functor"} => loopPc \in {"iterate", "functor"},
               WakeupOnItsWay => WakeupOnItsWay'
        PROVE  WakeupInv'
    BY <2>2, Zenon DEF WakeupInv, queueVars
  <2>3. ASSUME NEW t \in Threads, NEW task \in Tasks,
               QueueInLoop(t, task) \/ RunInLoop(t, task)
        PROVE  WakeupInv'
    BY <2>1, <2>3 DEF QueueInLoop, RunInLoop
  <2>4. ASSUME NEW t \in Threads, Wakeup(t) PROVE WakeupInv'
    <3>1. WakeupOnItsWay'
      BY <2>4 DEF Wakeup, WakeupOnItsWay, TypeOK
    <3> QED
      BY <2>2, <2>4, <3>1 DEF Wakeup, historyVars
  <2>5. ASSUME NEW task \in Tasks, SelfQueueInLoop(task) PROVE WakeupInv'
    <3>1. /\ WakeupOnItsWay => WakeupOnItsWay'
          /\ callingPendingFunctors => WakeupOnItsWay'
      BY <2>5 DEF SelfQueueInLoop, SelfWakes, WakeupOnItsWay, TypeOK
    <3>2. CASE callingPendingFunctors
      BY <2>5, <3>1, <3>2, Zenon DEF SelfQueueInLoop, WakeupInv
    <3>3. CASE ~callingPendingFunctors /\ loopPc # "setup"
      BY <2>5, <3>3 DEF SelfQueueInLoop, WakeupInv, UserPoints
    <3>4. CASE ~callingPendingFunctors /\ loopPc = "setup"
      <4>1. /\ loopPc' = "setup"
            /\ unannounced' = unannounced \cup {task}
            /\ pendingFunctors' = Append(pendingFunctors, task)
        BY <2>5, <3>4, Zenon DEF SelfQueueInLoop, SelfWakes
      <4>2. ASSUME NEW i \in DOMAIN pendingFunctors'
            PROVE  \/ i \in DOMAIN pendingFunctors /\ pendingFunctors'[i] = pendingFunctors[i]
                   \/ pendingFunctors'[i] = task
        <5>1. /\ DOMAIN pendingFunctors = 1..Len(pendingFunctors)
              /\ Len(pendingFunctors) \in Nat
              /\ DOMAIN pendingFunctors' = 1..(Len(pendingFunctors) + 1)
          BY <4>1, LenProperties, AppendProperties DEF TypeOK
        <5> QED
          BY <4>1, <4>2, <5>1, AppendProperties DEF TypeOK
      <4>3. \A i \in DOMAIN pendingFunctors :
                pendingFunctors[i] \in unannounced \/ WakeupOnItsWay
        BY <3>4 DEF WakeupInv
      <4>4. \A i \in DOMAIN pendingFunctors' :
                pendingFunctors'[i] \in unannounced' \/ WakeupOnItsWay'
        BY <3>1, <4>1, <4>2, <4>3, Zenon
      <4> QED
        BY <4>1, <4>4 DEF WakeupInv
    <3> QED
      BY <3>2, <3>3, <3>4
  <2>6. ASSUME NEW task \in Tasks, SelfRunInLoop(task) PROVE WakeupInv'
    BY <2>2, <2>6 DEF SelfRunInLoop, WakeupOnItsWay
  <2>7. CASE Stop
    BY <2>2, <2>7 DEF Stop, historyVars, WakeupOnItsWay
  <2>8. CASE PollOther \/ PollNothing \/ PollWakeup
    BY <2>2, <2>8 DEF PollOther, PollNothing, PollWakeup, LoopGoesTo, historyVars,
                      WakeupOnItsWay
  <2>9. CASE StartLoop \/ TestStop
    BY <2>2, <2>9 DEF StartLoop, TestStop, LoopGoesTo, historyVars, WakeupOnItsWay
  <2>10. CASE HandleEventfdRead \/ HandlersReturn
    BY <2>10, Zenon DEF HandleEventfdRead, HandlersReturn, LoopGoesTo, WakeupInv
  <2>11. CASE SwapFunctors
    BY <2>11 DEF SwapFunctors, LoopGoesTo, WakeupInv
  <2>12. CASE RunFunctor
    <3>1. /\ UNCHANGED <<pendingFunctors, callingPendingFunctors, unannounced>>
          /\ loopPc \in {"iterate", "functor"}
          /\ WakeupOnItsWay' <=> WakeupOnItsWay
      BY <2>12 DEF RunFunctor, WakeupOnItsWay
    <3> QED
      BY <3>1, Zenon DEF WakeupInv
  <2>13. CASE FunctorsDone
    <3>1. /\ UNCHANGED <<pendingFunctors, unannounced>>
          /\ loopPc \in {"iterate", "functor"}
          /\ loopPc' = "test"
          /\ WakeupOnItsWay' <=> WakeupOnItsWay
      BY <2>13 DEF FunctorsDone, historyVars, WakeupOnItsWay
    <3> QED
      BY <3>1 DEF WakeupInv
  <2>14. CASE UNCHANGED vars
    BY <2>2, <2>14 DEF vars, historyVars, WakeupOnItsWay
  <2> QED
    BY <2>3, <2>4, <2>5, <2>6, <2>7, <2>8, <2>9, <2>10, <2>11, <2>12, <2>13, <2>14
    DEF Next, LoopStep
<1>3. WakeupInv => NoLostWakeup
  BY DEF WakeupInv, NoLostWakeup
<1> QED
  BY <1>1, <1>2, <1>3, TypeCorrect, PTL DEF Spec

-----------------------------------------------------------------------------
(***************************************************************************)
(* Refinement.                                                             *)
(***************************************************************************)

\* The head of the batch is the oldest accepted functor that has not run.
LEMMA HeadIsOldest ==
    ASSUME NEW S, NEW ran \in Seq(S), NEW batch \in Seq(S), batch # <<>>, NEW rest \in Seq(S)
    PROVE  /\ Len(ran) < Len(ran \o batch \o rest)
           /\ (ran \o batch \o rest)[Len(ran) + 1] = Head(batch)
<1>1. Head(batch) = batch[1] /\ Len(batch) \in Nat \ {0} /\ Len(ran) \in Nat /\ Len(rest) \in Nat
  BY EmptySeq, LenProperties
<1>2. ran \o batch \in Seq(S) /\ Len(ran \o batch) = Len(ran) + Len(batch)
      /\ (ran \o batch)[Len(ran) + 1] = batch[1]
  BY <1>1, ConcatProperties
<1>3. Len(ran \o batch \o rest) = Len(ran) + Len(batch) + Len(rest)
      /\ (ran \o batch \o rest)[Len(ran) + 1] = (ran \o batch)[Len(ran) + 1]
  BY <1>1, <1>2, ConcatProperties
<1> QED
  BY <1>1, <1>2, <1>3

(***************************************************************************)
(* queueInLoop, the swap and the loop implement the abstract executor:     *)
(* whatever the threads do, functors are executed one at a time, in the    *)
(* order they were accepted, and none after the loop has returned.         *)
(***************************************************************************)
THEOREM Refinement == Spec => ImplementsTaskExecutor
<1> USE DEF Executor!absVars
<1>1. Init => Executor!Init
  BY DEF Init, Executor!Init
<1>2. TypeOK /\ ExactlyOnceInOrder /\ [Next]_vars => [Executor!Next]_Executor!absVars
  <2> SUFFICES ASSUME TypeOK, ExactlyOnceInOrder, [Next]_vars
               PROVE  Executor!Next \/ UNCHANGED Executor!absVars
    OBVIOUS
  <2>1. ASSUME NEW task \in Tasks, accepted' = Append(accepted, task),
               UNCHANGED <<executed, loopPc>>
        PROVE  Executor!Next
    BY <2>1 DEF Executor!Next, Executor!Accept
  <2>2. ASSUME UNCHANGED <<accepted, executed>>, loopPc # "exited", loopPc' # "exited"
        PROVE  UNCHANGED Executor!absVars
    BY <2>2
  <2>3. ASSUME NEW t \in Threads, NEW task \in Tasks,
               QueueInLoop(t, task) \/ RunInLoop(t, task)
        PROVE  Executor!Next
    BY <2>1, <2>3 DEF QueueInLoop, RunInLoop, Push
  <2>4. ASSUME NEW t \in Threads, Wakeup(t) PROVE UNCHANGED Executor!absVars
    BY <2>4 DEF Wakeup, historyVars
  <2>5. ASSUME NEW task \in Tasks, SelfQueueInLoop(task) PROVE Executor!Next
    BY <2>1, <2>5 DEF SelfQueueInLoop
  <2>6. ASSUME NEW task \in Tasks, SelfRunInLoop(task) PROVE UNCHANGED Executor!absVars
    BY <2>6 DEF SelfRunInLoop
  <2>7. CASE Stop
    BY <2>7 DEF Stop, historyVars
  <2>8. CASE PollOther \/ PollNothing \/ PollWakeup \/ StartLoop
    BY <2>2, <2>8 DEF PollOther, PollNothing, PollWakeup, StartLoop, LoopGoesTo, historyVars
  <2>9. CASE TestStop
    <3>1. CASE isStop
      BY <2>9, <3>1 DEF TestStop, LoopGoesTo, historyVars, Executor!Next, Executor!Finish
    <3>2. CASE ~isStop
      BY <2>2, <2>9, <3>2 DEF TestStop, LoopGoesTo, historyVars
    <3> QED
      BY <3>1, <3>2
  <2>10. CASE HandleEventfdRead \/ HandlersReturn
    BY <2>2, <2>10 DEF HandleEventfdRead, HandlersReturn, LoopGoesTo, historyVars
  <2>11. CASE SwapFunctors
    BY <2>2, <2>11 DEF SwapFunctors, LoopGoesTo, historyVars
  <2>12. CASE RunFunctor
    <3>1. /\ Len(executed) < Len(accepted)
          /\ accepted[Len(executed) + 1] = Head(functors)
      BY <2>12, HeadIsOldest DEF RunFunctor, TypeOK, ExactlyOnceInOrder
    <3> QED
      BY <2>12, <3>1 DEF RunFunctor, Executor!Next, Executor!Execute
  <2>13. CASE FunctorsDone
    BY <2>2, <2>13 DEF FunctorsDone, historyVars
  <2>14. CASE UNCHANGED vars
    BY <2>14 DEF vars, historyVars
  <2> QED
    BY <2>3, <2>4, <2>5, <2>6, <2>7, <2>8, <2>9, <2>10, <2>11, <2>12, <2>13, <2>14
    DEF Next, LoopStep
<1> QED
  BY <1>1, <1>2, TypeCorrect, Order, PTL DEF Spec, ImplementsTaskExecutor, Executor!Spec
=============================================================================
