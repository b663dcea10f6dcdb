----------------------------- MODULE LoopThread -----------------------------
(***************************************************************************)
(* The threads of a server program from TcpServer::start to the end of     *)
(* main: EventLoopThread and EventLoopThreadPool start one loop per        *)
(* thread, the main loop accepts connections and gives them to the loops   *)
(* in turn, someone stops the main loop, and the destructors run in the    *)
(* order of the members of TcpServer: its body, the acceptor, the pool     *)
(* with one EventLoopThread after the other, connMap_; the main loop was   *)
(* constructed before the server and goes last.                            *)
(*                                                                         *)
(* A connection is reduced to what crosses threads: connectEstablished,    *)
(* handleClose and connectDestroyed in its own loop, connMap_ in the main  *)
(* one.  A program that dereferences a loop that does not exist, or        *)
(* destroys a joinable std::thread, is not followed any further.           *)
(***************************************************************************)
EXTENDS Naturals, Sequences, FiniteSets

CONSTANTS MaxThreads,   \* bound: what setThreadNum is given
          Conns         \* connections, each accepted at most once

ASSUME MaxThreadsAssumption == MaxThreads \in Nat

Threads == 1..MaxThreads
Main == 0
Loops == Threads \cup {Main}

VARIABLES
    numThreads,     \* EventLoopThreadPool::numThreads
    pc,             \* what the main thread is doing
    current,        \* the EventLoopThread it is starting or destroying
    handlers,       \* EventLoopThreadPool::handlers
    next,           \* EventLoopThreadPool::next
    at,             \* where each loop, and the thread around it, is
    loopPtr,        \* EventLoopThread::loop is not null
    isStop,         \* EventLoop::isStop
    stage,          \* of each connection
    loopOf,         \* its loop, Main before it is accepted
    connMap,        \* TcpServer::connMap_
    queue,          \* EventLoop::pendingFunctors
    batch,          \* what doPendingFunctors has still to run
    toDestroy,      \* what ~TcpServer has still to iterate over
    stoppedInside   \* history: io loops that a callback of theirs stopped

poolVars == <<numThreads, handlers, next>>
threadVars == <<at, loopPtr, isStop>>
connVars == <<stage, loopOf, connMap>>
functorVars == <<queue, batch>>
mainData == <<current, toDestroy>>
mainVars == <<pc, mainData>>
vars == <<poolVars, threadVars, connVars, functorVars, mainVars, stoppedInside>>

Functor(kind, c) == [kind |-> kind, conn |-> c]

\* The main loop and the server are constructed, start() is called next.
Init ==
    /\ numThreads \in 0..MaxThreads
    /\ pc = "start"
    /\ current = 1
    /\ handlers = <<>>
    /\ next = 0
    /\ at = [l \in Loops |-> IF l = Main THEN "constructed" ELSE "none"]
    /\ loopPtr = [t \in Threads |-> FALSE]
    /\ isStop = [l \in Loops |-> FALSE]
    /\ stage = [c \in Conns |-> "none"]
    /\ loopOf = [c \in Conns |-> Main]
    /\ connMap = {}
    /\ queue = [l \in Loops |-> <<>>]
    /\ batch = [l \in Loops |-> <<>>]
    /\ toDestroy = {}
    /\ stoppedInside = {}

\* There is no EventLoop behind the pointer: not yet, or no longer.
Missing(l) == at[l] \in {"none", "created", "ended"}

-----------------------------------------------------------------------------
\* Bugs a change of this code could introduce, each the mutated form of a
\* definition below.

\* start that waits for the thread but not for its loop.
WaitForNothing(t) == TRUE

\* threadFunc without notify_one.
NotifyNobody == pc

\* epoll_wait without its timeout: stop() alone does not wake a loop.
WhenSomethingHappens(l) ==
    queue[l] # <<>> \/ l = Main \/ \E c \in Conns : loopOf[c] = l /\ stage[c] = "open"

\* ~EventLoopThread that waits for loop() to return and not for the thread.
WhenLoopCleared(t) == ~loopPtr[t]

\* getOneLoop that compares before it counts.
WrapLate(n) == IF n >= Len(handlers) THEN 0 ELSE n + 1

\* getOneLoop that does not count.
StaysFirst(n) == n

\* ~TcpServer that calls connectDestroyed itself.
DestroyHere(l, functor) ==
    stage' = [stage EXCEPT ![functor.conn] = "destroyed"] /\ UNCHANGED <<queue, pc>>

-----------------------------------------------------------------------------
\* The main thread until it runs its loop.

\* EventLoopThreadPool::start, one EventLoopThread::start per thread.
StartThread ==
    /\ pc = "start"
    /\ current <= numThreads
    /\ at' = [at EXCEPT ![current] = "created"]
    /\ pc' = "check"
    /\ UNCHANGED <<poolVars, loopPtr, isStop, connVars, functorVars, mainData, stoppedInside>>

\* while (loop == nullptr) condition.wait(mux), with the mutex held.
Published(t) == loopPtr[t]
CheckLoop ==
    /\ pc = "check"
    /\ IF Published(current)
         THEN /\ handlers' = Append(handlers, current)
              /\ current' = current + 1
              /\ pc' = "start"
         ELSE /\ pc' = "blocked"
              /\ UNCHANGED <<handlers, current>>
    /\ UNCHANGED <<numThreads, next, threadVars, connVars, functorVars, toDestroy, stoppedInside>>

SpuriousWakeup ==
    /\ pc = "blocked"
    /\ pc' = "check"
    /\ UNCHANGED <<poolVars, threadVars, connVars, functorVars, mainData, stoppedInside>>

\* listen, in the main thread, whose next call is loop().
Listen ==
    /\ pc = "start"
    /\ current > numThreads
    /\ pc' = "loop"
    /\ at' = [at EXCEPT ![Main] = "test"]
    /\ UNCHANGED <<poolVars, loopPtr, isStop, connVars, functorVars, mainData, stoppedInside>>

-----------------------------------------------------------------------------
\* EventLoopThread::threadFunc around the loop.

ConstructLoop(t) ==
    /\ at[t] = "created"
    /\ at' = [at EXCEPT ![t] = "constructed"]
    /\ UNCHANGED <<poolVars, loopPtr, isStop, connVars, functorVars, mainVars, stoppedInside>>

\* notify_one.
Woken == IF pc = "blocked" THEN "check" ELSE pc

Publish(t) ==
    /\ at[t] = "constructed"
    /\ loopPtr' = [loopPtr EXCEPT ![t] = TRUE]
    /\ pc' = Woken
    /\ at' = [at EXCEPT ![t] = "test"]
    /\ UNCHANGED <<poolVars, isStop, connVars, functorVars, mainData, stoppedInside>>

ClearLoop(t) ==
    /\ at[t] = "left"
    /\ loopPtr' = [loopPtr EXCEPT ![t] = FALSE]
    /\ at' = [at EXCEPT ![t] = "cleared"]
    /\ UNCHANGED <<poolVars, isStop, connVars, functorVars, mainVars, stoppedInside>>

\* ~EventLoop drops the functors that did not run, and the thread ends.
EndThread(t) ==
    /\ at[t] = "cleared"
    /\ at' = [at EXCEPT ![t] = "ended"]
    /\ queue' = [queue EXCEPT ![t] = <<>>]
    /\ UNCHANGED <<poolVars, loopPtr, isStop, connVars, batch, mainVars, stoppedInside>>

-----------------------------------------------------------------------------
\* The loops.

Enter(l, point) == at' = [at EXCEPT ![l] = point]

TestStop(l) ==
    /\ at[l] = "test"
    /\ Enter(l, IF isStop[l] THEN "left" ELSE "poll")
    /\ UNCHANGED <<poolVars, loopPtr, isStop, connVars, functorVars, mainVars, stoppedInside>>

\* With its timeout of 500 ms epoll_wait always returns.
PollReturns(l) == TRUE
Poll(l) ==
    /\ at[l] = "poll"
    /\ PollReturns(l)
    /\ Enter(l, "dispatch")
    /\ UNCHANGED <<poolVars, loopPtr, isStop, connVars, functorVars, mainVars, stoppedInside>>

SwapFunctors(l) ==
    /\ at[l] = "dispatch"
    /\ Enter(l, "functors")
    /\ batch' = [batch EXCEPT ![l] = queue[l]]
    /\ queue' = [queue EXCEPT ![l] = <<>>]
    /\ UNCHANGED <<poolVars, loopPtr, isStop, connVars, mainVars, stoppedInside>>

FunctorsDone(l) ==
    /\ at[l] = "functors"
    /\ batch[l] = <<>>
    /\ Enter(l, "test")
    /\ UNCHANGED <<poolVars, loopPtr, isStop, connVars, functorVars, mainVars, stoppedInside>>

NextFunctor(l, kind) ==
    /\ at[l] = "functors"
    /\ batch[l] # <<>>
    /\ Head(batch[l]).kind = kind
    /\ batch' = [batch EXCEPT ![l] = Tail(@)]
    /\ UNCHANGED <<poolVars, threadVars, loopOf, mainData, stoppedInside>>

Push(l, functor) == queue' = [queue EXCEPT ![l] = Append(@, functor)]

\* queueInLoop from another thread, on a pointer the server kept.
Reach(l, functor) ==
    IF Missing(l) THEN pc' = "dangling" /\ UNCHANGED queue
                  ELSE Push(l, functor) /\ UNCHANGED pc

\* connectEstablished and connectDestroyed.
RunInOwnLoop(l) ==
    \/ /\ NextFunctor(l, "establish")
       /\ stage' = [stage EXCEPT ![Head(batch[l]).conn] = "open"]
       /\ UNCHANGED <<connMap, queue, pc>>
    \/ /\ NextFunctor(l, "destroy")
       /\ stage' = [stage EXCEPT ![Head(batch[l]).conn] = "destroyed"]
       /\ UNCHANGED <<connMap, queue, pc>>

\* removeConnectionInLoop.
Remove(c) ==
    /\ connMap' = connMap \ {c}
    /\ Reach(loopOf[c], Functor("destroy", c))

RunRemove ==
    /\ NextFunctor(Main, "remove")
    /\ Remove(Head(batch[Main]).conn)
    /\ UNCHANGED stage

\* handleClose, of a handler or between the functors of a batch, in forceCloseInLoop.
Close(l, c) ==
    /\ at[l] \in {"dispatch", "functors"}
    /\ loopOf[c] = l
    /\ stage[c] = "open"
    /\ stage' = [stage EXCEPT ![c] = "closed"]
    /\ IF l = Main THEN Remove(c)
                   ELSE Push(Main, Functor("remove", c)) /\ UNCHANGED <<connMap, pc>>
    /\ UNCHANGED <<poolVars, threadVars, loopOf, batch, mainData, stoppedInside>>

\* getOneLoop, and its increment of next with the wrap around.
Chosen == IF handlers = <<>> THEN Main ELSE handlers[next + 1]
Following(n) == IF n + 1 >= Len(handlers) THEN 0 ELSE n + 1

\* newConnection.
Accept(c) ==
    /\ at[Main] = "dispatch"
    /\ stage[c] = "none"
    /\ next' = IF handlers = <<>> THEN next ELSE Following(next)
    /\ loopOf' = [loopOf EXCEPT ![c] = Chosen]
    /\ connMap' = connMap \cup {c}
    /\ stage' = [stage EXCEPT ![c] = IF Chosen = Main THEN "open" ELSE "connecting"]
    /\ \/ Chosen = Main /\ UNCHANGED <<queue, pc>>
       \/ Chosen # Main /\ Reach(Chosen, Functor("establish", c))
    /\ UNCHANGED <<numThreads, handlers, threadVars, batch, mainData, stoppedInside>>

\* A message callback stops the main loop, as those of the examples do, or the
\* loop it runs in.
CallbackStops(l, stopped) ==
    /\ at[l] = "dispatch"
    /\ \E c \in Conns : loopOf[c] = l /\ stage[c] = "open"
    /\ ~isStop[stopped]
    /\ isStop' = [isStop EXCEPT ![stopped] = TRUE]
    /\ stoppedInside' = stoppedInside \cup ({stopped} \ {Main})
    /\ UNCHANGED <<poolVars, at, loopPtr, connVars, functorVars, mainVars>>

-----------------------------------------------------------------------------
\* The destructors, in the main thread.

\* ~TcpServer: connectDestroyed by runInLoop for every connection of connMap_.
BeginDestructor ==
    /\ pc = "loop"
    /\ at[Main] = "left"
    /\ pc' = "server"
    /\ toDestroy' = connMap
    /\ UNCHANGED <<poolVars, threadVars, connVars, functorVars, current, stoppedInside>>

RunInLoop(l, functor) ==
    \/ /\ l = Main
       /\ stage' = [stage EXCEPT ![functor.conn] = "destroyed"]
       /\ UNCHANGED <<queue, pc>>
    \/ l # Main /\ Reach(l, functor) /\ UNCHANGED stage

DestroyConnection(c) ==
    /\ pc = "server"
    /\ c \in toDestroy
    /\ toDestroy' = toDestroy \ {c}
    /\ RunInLoop(loopOf[c], Functor("destroy", c))
    /\ UNCHANGED <<poolVars, threadVars, loopOf, connMap, batch, current, stoppedInside>>

\* ~Acceptor.
DestroyAcceptor ==
    /\ pc = "server"
    /\ toDestroy = {}
    /\ pc' = "pool"
    /\ current' = 1
    /\ UNCHANGED <<poolVars, threadVars, connVars, functorVars, toDestroy, stoppedInside>>

\* ~EventLoopThread reads loop without the mutex.  If it is null, the thread is
\* neither joined nor detached, and its destructor ends the program.
ReadLoop ==
    /\ pc = "pool"
    /\ current <= numThreads
    /\ pc' = IF loopPtr[current] THEN "stop" ELSE "terminated"
    /\ UNCHANGED <<poolVars, threadVars, connVars, functorVars, mainData, stoppedInside>>

StopLoop ==
    /\ pc = "stop"
    /\ IF Missing(current)
         THEN pc' = "dangling" /\ UNCHANGED isStop
         ELSE pc' = "join" /\ isStop' = [isStop EXCEPT ![current] = TRUE]
    /\ UNCHANGED <<poolVars, at, loopPtr, connVars, functorVars, mainData, stoppedInside>>

Joinable(t) == at[t] = "ended"
Join ==
    /\ pc = "join"
    /\ Joinable(current)
    /\ pc' = "pool"
    /\ current' = current + 1
    /\ UNCHANGED <<poolVars, threadVars, connVars, functorVars, toDestroy, stoppedInside>>

\* connMap_ and then the main loop, with the functors it did not run.
DestroyRest ==
    /\ pc = "pool"
    /\ current > numThreads
    /\ pc' = "over"
    /\ connMap' = {}
    /\ at' = [at EXCEPT ![Main] = "ended"]
    /\ queue' = [queue EXCEPT ![Main] = <<>>]
    /\ UNCHANGED <<poolVars, loopPtr, isStop, stage, loopOf, batch, mainData, stoppedInside>>

-----------------------------------------------------------------------------
MainStep ==
    \/ StartThread \/ CheckLoop \/ Listen
    \/ BeginDestructor \/ (\E c \in Conns : DestroyConnection(c)) \/ DestroyAcceptor
    \/ ReadLoop \/ StopLoop \/ Join \/ DestroyRest

ThreadStep(t) == ConstructLoop(t) \/ Publish(t) \/ ClearLoop(t) \/ EndThread(t)

LoopStep(l) ==
    TestStop(l) \/ Poll(l) \/ SwapFunctors(l) \/ FunctorsDone(l) \/ RunInOwnLoop(l)

Next ==
    \/ MainStep \/ SpuriousWakeup \/ RunRemove
    \/ \E t \in Threads : ThreadStep(t)
    \/ \E l \in Loops : LoopStep(l)
    \/ \E l \in Loops : \E stopped \in {l, Main} : CallbackStops(l, stopped)
    \/ \E c \in Conns : Accept(c) \/ \E l \in Loops : Close(l, c)

Spec == Init /\ [][Next]_vars

\* Every thread is scheduled, and epoll_wait and callbacks return.
FairSpec ==
    /\ Spec
    /\ WF_vars(MainStep)
    /\ \A t \in Threads : WF_vars(ThreadStep(t))
    /\ \A l \in Loops : WF_vars(LoopStep(l) \/ (l = Main /\ RunRemove))

-----------------------------------------------------------------------------
Functors == [kind : {"establish", "remove", "destroy"}, conn : Conns]
Points == {"none", "created", "constructed", "test", "poll", "dispatch", "functors", "left",
           "cleared", "ended"}
Ends == {"over", "terminated", "dangling"}

TypeOK ==
    /\ numThreads \in 0..MaxThreads
    /\ pc \in {"start", "check", "blocked", "loop", "server", "pool", "stop", "join"} \cup Ends
    /\ current \in 1..(MaxThreads + 1)
    /\ handlers \in Seq(Threads)
    /\ next = 0 \/ next \in 1..(Len(handlers) - 1)
    /\ at \in [Loops -> Points]
    /\ loopPtr \in [Threads -> BOOLEAN]
    /\ isStop \in [Loops -> BOOLEAN]
    /\ stage \in [Conns -> {"none", "connecting", "open", "closed", "destroyed"}]
    /\ loopOf \in [Conns -> Loops]
    /\ connMap \subseteq Conns
    /\ queue \in [Loops -> Seq(Functors)]
    /\ batch \in [Loops -> Seq(Functors)]
    /\ toDestroy \subseteq Conns
    /\ stoppedInside \subseteq Threads

\* The pointers to loops, that of each EventLoopThread and those the pool keeps:
\* unless a callback stopped an io loop, the main thread uses none of a loop that
\* is not there yet or no longer, and finds every thread joinable.
EndsCleanly == pc \in {"terminated", "dangling"} => stoppedInside # {}

\* The threads of the pool run callbacks that hold the server (closeCb) and the
\* main loop (removeConnection): both outlive them.
ServerOutlivesThreads == pc = "over" => \A t \in Threads : at[t] \in {"none", "ended"}

Given(t) == Cardinality({c \in Conns : loopOf[c] = t})

\* The connections are dealt out evenly: no loop of the pool was given more than
\* one connection more than another, however starts and accepts went.
Balanced ==
    pc \notin {"start", "check", "blocked"} =>
        \A t, u \in 1..numThreads : Given(t) <= Given(u) + 1

\* connectDestroyed is the last of a connection and finds it established: an
\* establish that runs after it would add a channel to epoll that no one takes
\* away.
DestroyedLast ==
    [][\A c \in Conns :
           /\ stage[c] = "destroyed" => stage'[c] = "destroyed"
           /\ stage'[c] = "destroyed" => stage[c] # "connecting"]_vars

\* start() returns: the notification is not lost, whichever of the two threads
\* takes the mutex first.
StartReturns == pc = "start" ~> pc = "loop"

\* Once the main loop is stopped the program ends, io loops that have nothing to
\* do included, though stop() does not wake them.
EndReached == isStop[Main] ~> pc \in Ends
=============================================================================
