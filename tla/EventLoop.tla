------------------------------ MODULE EventLoop ------------------------------
(***************************************************************************)
(* One EventLoop (Ryugu/net/EventLoop.{h,cpp}): the thread that runs       *)
(* loop(), its queue of pending functors, the eventfd that gets the thread *)
(* out of epoll_wait, and the other threads that hand functors over with   *)
(* queueInLoop and runInLoop.                                              *)
(*                                                                         *)
(* A task stands for one call of queueInLoop or runInLoop, so no task is   *)
(* handed over twice.  The body of a handler or of a functor is arbitrary: *)
(* while the loop thread is inside one it may itself call queueInLoop,     *)
(* runInLoop or stop any number of times.                                  *)
(***************************************************************************)
EXTENDS Naturals, Sequences, Functions

CONSTANTS Threads,      \* the threads other than the loop thread
          Tasks         \* the calls of queueInLoop and runInLoop

VARIABLES
    pendingFunctors,        \* EventLoop::pendingFunctors, guarded by mutex
    functors,               \* the local vector of doPendingFunctors, minus what ran
    callingPendingFunctors, \* the member of that name, not set by the constructor
    wakeupfd,               \* the counter of the eventfd
    isStop,
    loopPc,                 \* where the loop thread is
    wakeupActive,           \* epoll_wait reported the eventfd and it was not read yet
    owedWakeups,            \* wakeup() calls a thread has still to make
    accepted,               \* history: tasks in the order they entered the queue
    executed,               \* history: tasks in the order doPendingFunctors ran them
    direct,                 \* history: tasks run inside runInLoop itself
    unannounced             \* history: tasks queued with no wakeup before loop()

queueVars == <<pendingFunctors, functors, callingPendingFunctors>>
historyVars == <<accepted, executed, direct, unannounced>>
vars == <<queueVars, wakeupfd, isStop, loopPc, wakeupActive, owedWakeups, historyVars>>

\* The points of the loop thread: "setup" before loop() is called, "test" at
\* while (!isStop), "poll" in epoll_wait, "handlers" while epoll's events are
\* dispatched, "pending" on entry of doPendingFunctors, "iterate" between its
\* swap and its first functor, "functor" inside or just after a functor.
LoopPoints ==
    {"setup", "test", "poll", "handlers", "pending", "iterate", "functor", "exited"}

\* The loop thread runs the code of its user only here.
UserPoints == {"setup", "handlers", "functor", "exited"}

\* callingPendingFunctors holds whatever the memory held: the constructor's
\* initialiser list leaves it out.
Init ==
    /\ pendingFunctors = <<>>
    /\ functors = <<>>
    /\ callingPendingFunctors \in BOOLEAN
    /\ wakeupfd = 0
    /\ isStop = FALSE
    /\ loopPc = "setup"
    /\ wakeupActive = FALSE
    /\ owedWakeups = [t \in Threads |-> 0]
    /\ accepted = <<>>
    /\ executed = <<>>
    /\ direct = {}
    /\ unannounced = {}

Fresh(task) == task \notin Range(accepted) \cup direct

-----------------------------------------------------------------------------
\* Bugs a change of this code could introduce, each the mutated form of a
\* definition below.

\* An eventfd written by a thread that owes it nothing.
WakeupUnasked(t) ==
    /\ wakeupfd' = wakeupfd + 1
    /\ owedWakeups' = [owedWakeups EXCEPT ![t] = @ - 1]
    /\ UNCHANGED <<queueVars, isStop, loopPc, wakeupActive, historyVars>>

\* queueInLoop that leaves the wakeup to runInLoop.
QueueWithoutWakeup(t, task) ==
    /\ owedWakeups[t] = 0
    /\ Fresh(task)
    /\ pendingFunctors' = Append(pendingFunctors, task)
    /\ accepted' = Append(accepted, task)
    /\ UNCHANGED <<functors, callingPendingFunctors, wakeupfd, isStop, loopPc,
                   wakeupActive, owedWakeups, executed, direct, unannounced>>

\* if (!isInLoopThread()) alone: a functor queued by a functor waits.
NeverSelfWakes == FALSE

\* functors = pendingFunctors, where the code swaps.
CopyFunctors ==
    /\ loopPc = "pending"
    /\ loopPc' = "iterate"
    /\ callingPendingFunctors' = TRUE
    /\ functors' = pendingFunctors
    /\ UNCHANGED <<pendingFunctors, wakeupfd, isStop, wakeupActive, owedWakeups,
                   historyVars>>

\* One functor per round, the rest of the batch destroyed with the vector.
RunFirstFunctorOnly ==
    /\ loopPc \in {"iterate", "functor"}
    /\ functors # <<>>
    /\ loopPc' = "functor"
    /\ functors' = <<>>
    /\ executed' = Append(executed, Head(functors))
    /\ UNCHANGED <<pendingFunctors, callingPendingFunctors, wakeupfd, isStop,
                   wakeupActive, owedWakeups, accepted, direct, unannounced>>

\* The batch run from its back.
RunNewestFunctor ==
    /\ loopPc \in {"iterate", "functor"}
    /\ functors # <<>>
    /\ loopPc' = "functor"
    /\ functors' = SubSeq(functors, 1, Len(functors) - 1)
    /\ executed' = Append(executed, functors[Len(functors)])
    /\ UNCHANGED <<pendingFunctors, callingPendingFunctors, wakeupfd, isStop,
                   wakeupActive, owedWakeups, accepted, direct, unannounced>>

\* while (!isStop || there was work): a busy loop is never left.
TestStopWhenIdle ==
    /\ loopPc = "test"
    /\ loopPc' = IF isStop /\ wakeupfd = 0 THEN "exited" ELSE "poll"
    /\ UNCHANGED <<queueVars, wakeupfd, isStop, wakeupActive, owedWakeups, historyVars>>

-----------------------------------------------------------------------------
\* The other threads.

\* The critical section of queueInLoop.  Outside of it the thread still has
\* `owed` calls of wakeup() to make before the call returns.
Push(t, task, owed) ==
    /\ owedWakeups[t] = 0
    /\ Fresh(task)
    /\ pendingFunctors' = Append(pendingFunctors, task)
    /\ accepted' = Append(accepted, task)
    /\ owedWakeups' = [owedWakeups EXCEPT ![t] = owed]
    /\ UNCHANGED <<functors, callingPendingFunctors, wakeupfd, isStop, loopPc,
                   wakeupActive, executed, direct, unannounced>>

\* queueInLoop called by a thread that is not the loop's: it wakes the loop.
QueueInLoop(t, task) == Push(t, task, 1)

\* runInLoop called by such a thread: queueInLoop, and then one more wakeup.
RunInLoop(t, task) == Push(t, task, 2)

\* One write to the eventfd.
Wakeup(t) ==
    /\ owedWakeups[t] > 0
    /\ wakeupfd' = wakeupfd + 1
    /\ owedWakeups' = [owedWakeups EXCEPT ![t] = @ - 1]
    /\ UNCHANGED <<queueVars, isStop, loopPc, wakeupActive, historyVars>>

\* stop(), from any thread; it wakes nobody.
Stop ==
    /\ ~isStop
    /\ isStop' = TRUE
    /\ UNCHANGED <<queueVars, wakeupfd, loopPc, wakeupActive, owedWakeups, historyVars>>

-----------------------------------------------------------------------------
\* The loop thread, inside a handler, a functor, or outside loop().

\* The condition under which queueInLoop, called by the loop thread, wakes it.
SelfWakes == callingPendingFunctors

SelfQueueInLoop(task) ==
    /\ loopPc \in UserPoints
    /\ Fresh(task)
    /\ pendingFunctors' = Append(pendingFunctors, task)
    /\ accepted' = Append(accepted, task)
    /\ wakeupfd' = IF SelfWakes THEN wakeupfd + 1 ELSE wakeupfd
    /\ unannounced' = IF loopPc = "setup" /\ ~SelfWakes THEN unannounced \cup {task}
                                                       ELSE unannounced
    /\ UNCHANGED <<functors, callingPendingFunctors, isStop, loopPc, wakeupActive,
                   owedWakeups, executed, direct>>

\* runInLoop called by the loop thread calls the functor at once.
SelfRunInLoop(task) ==
    /\ loopPc \in UserPoints
    /\ Fresh(task)
    /\ direct' = direct \cup {task}
    /\ UNCHANGED <<queueVars, wakeupfd, isStop, loopPc, wakeupActive, owedWakeups,
                   accepted, executed, unannounced>>

-----------------------------------------------------------------------------
\* The loop thread, inside loop().

LoopGoesTo(from, to) ==
    /\ loopPc = from
    /\ loopPc' = to

StartLoop ==
    /\ LoopGoesTo("setup", "test")
    /\ UNCHANGED <<queueVars, wakeupfd, isStop, wakeupActive, owedWakeups, historyVars>>

TestStop ==
    /\ LoopGoesTo("test", IF isStop THEN "exited" ELSE "poll")
    /\ UNCHANGED <<queueVars, wakeupfd, isStop, wakeupActive, owedWakeups, historyVars>>

\* epoll_wait returns with the eventfd among the ready descriptors.
PollWakeup ==
    /\ LoopGoesTo("poll", "handlers")
    /\ wakeupfd > 0
    /\ wakeupActive' = TRUE
    /\ UNCHANGED <<queueVars, wakeupfd, isStop, owedWakeups, historyVars>>

\* epoll_wait returns with other descriptors only: the eventfd is not ready, or
\* cstMaxChannels - 1 others filled the array.
PollOther ==
    /\ LoopGoesTo("poll", "handlers")
    /\ UNCHANGED <<queueVars, wakeupfd, isStop, wakeupActive, owedWakeups, historyVars>>

\* epoll_wait returns 0 after 500 ms, or -1 when a signal interrupts it.
PollNothing ==
    /\ LoopGoesTo("poll", "pending")
    /\ UNCHANGED <<queueVars, wakeupfd, isStop, wakeupActive, owedWakeups, historyVars>>

\* A read of an eventfd empties its counter.
HandleEventfdRead ==
    /\ loopPc = "handlers"
    /\ wakeupActive
    /\ wakeupfd' = 0
    /\ wakeupActive' = FALSE
    /\ UNCHANGED <<queueVars, isStop, loopPc, owedWakeups, historyVars>>

HandlersReturn ==
    /\ ~wakeupActive
    /\ LoopGoesTo("handlers", "pending")
    /\ UNCHANGED <<queueVars, wakeupfd, isStop, wakeupActive, owedWakeups, historyVars>>

\* doPendingFunctors up to the end of its critical section.
SwapFunctors ==
    /\ LoopGoesTo("pending", "iterate")
    /\ callingPendingFunctors' = TRUE
    /\ functors' = pendingFunctors
    /\ pendingFunctors' = <<>>
    /\ UNCHANGED <<wakeupfd, isStop, wakeupActive, owedWakeups, historyVars>>

RunFunctor ==
    /\ loopPc \in {"iterate", "functor"}
    /\ functors # <<>>
    /\ loopPc' = "functor"
    /\ functors' = Tail(functors)
    /\ executed' = Append(executed, Head(functors))
    /\ UNCHANGED <<pendingFunctors, callingPendingFunctors, wakeupfd, isStop,
                   wakeupActive, owedWakeups, accepted, direct, unannounced>>

FunctorsDone ==
    /\ loopPc \in {"iterate", "functor"}
    /\ functors = <<>>
    /\ loopPc' = "test"
    /\ callingPendingFunctors' = FALSE
    /\ UNCHANGED <<pendingFunctors, functors, wakeupfd, isStop, wakeupActive,
                   owedWakeups, historyVars>>

-----------------------------------------------------------------------------

\* What the loop thread does by itself once its handlers and functors return.
LoopStep ==
    \/ StartLoop \/ TestStop \/ PollWakeup \/ HandleEventfdRead \/ HandlersReturn
    \/ SwapFunctors \/ RunFunctor \/ FunctorsDone

Next ==
    \/ \E t \in Threads, task \in Tasks : QueueInLoop(t, task) \/ RunInLoop(t, task)
    \/ \E t \in Threads : Wakeup(t)
    \/ \E task \in Tasks : SelfQueueInLoop(task) \/ SelfRunInLoop(task)
    \/ Stop
    \/ PollOther
    \/ PollNothing
    \/ LoopStep

Spec == Init /\ [][Next]_vars

\* Handlers and functors return, and a thread inside queueInLoop gets on with
\* it.  No fairness on PollNothing: the 500 ms timeout is not relied upon.
PromptSpec ==
    /\ Spec
    /\ WF_vars(LoopStep)
    /\ \A t \in Threads : WF_vars(Wakeup(t))

\* The timeout of epoll_wait.
TimeoutFires == WF_vars(LoopStep \/ PollNothing)

-----------------------------------------------------------------------------

TypeOK ==
    /\ pendingFunctors \in Seq(Tasks)
    /\ functors \in Seq(Tasks)
    /\ callingPendingFunctors \in BOOLEAN
    /\ wakeupfd \in Nat
    /\ isStop \in BOOLEAN
    /\ loopPc \in LoopPoints
    /\ wakeupActive \in BOOLEAN
    /\ owedWakeups \in [Threads -> 0..2]
    /\ accepted \in Seq(Tasks)
    /\ executed \in Seq(Tasks)
    /\ direct \subseteq Tasks
    /\ unannounced \subseteq Tasks

\* Exactly once, in order: at every moment the tasks that entered the queue are
\* those already executed, then the rest of the batch, then the pending ones.
\* Neither the swap of doPendingFunctors nor a concurrent push loses,
\* duplicates or reorders a functor (EventLoop.cpp, queueInLoop against
\* doPendingFunctors).
ExactlyOnceInOrder == accepted = executed \o functors \o pendingFunctors

\* Somebody has written, or is about to write, to the eventfd.
WakeupOnItsWay == wakeupfd > 0 \/ \E t \in Threads : owedWakeups[t] > 0

\* No lost wakeup: the loop never blocks in epoll_wait over a queued functor
\* unless the eventfd is readable or its writer is between the push and the
\* write.  The one exception the code has are functors the loop's own thread
\* queued before loop(), when the unset callingPendingFunctors read as false.
NoLostWakeup ==
    loopPc = "poll" =>
        \A i \in DOMAIN pendingFunctors :
            pendingFunctors[i] \in unannounced \/ WakeupOnItsWay

\* The queue implements the abstract executor.
Executor == INSTANCE TaskExecutor WITH over <- (loopPc = "exited")
ImplementsTaskExecutor == Executor!Spec

\* Under PromptSpec: every functor that entered the queue runs, without the
\* timeout of epoll_wait ever being needed, unless the loop is told to stop.
PromptExecution ==
    \A task \in Tasks :
        (task \in Range(accepted) \ unannounced) ~> (task \in Range(executed) \/ isStop)

\* With the timeout every functor runs, also those queued without a wakeup before
\* loop(), or the loop is left.
EveryTaskRunsOrLoopExits ==
    TimeoutFires =>
        \A task \in Tasks :
            (task \in Range(accepted)) ~> (task \in Range(executed) \/ loopPc = "exited")

\* stop() writes nothing to the eventfd, so leaving the loop may need the timeout;
\* with it, a loop told to stop is left.
StopIsObeyed == TimeoutFires => (isStop ~> (loopPc = "exited"))
=============================================================================
