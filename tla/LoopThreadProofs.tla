-------------------------- MODULE LoopThreadProofs --------------------------
(***************************************************************************)
(* Theorems about LoopThread, for any number of threads and connections.   *)
(***************************************************************************)
EXTENDS LoopThread, SequenceTheorems, FiniteSetTheorems, TLAPS

(***************************************************************************)
(* The loop of the next connection is one of the program's, and next stays *)
(* an index of handlers.                                                   *)
(***************************************************************************)
LEMMA RoundRobin ==
    ASSUME TypeOK
    PROVE  /\ Chosen \in Loops
           /\ handlers # <<>> => \E i \in DOMAIN handlers : Chosen = handlers[i]
           /\ handlers # <<>> =>
                  Following(next) = 0 \/ Following(next) \in 1..(Len(handlers) - 1)
<1>1. CASE handlers = <<>>
  BY <1>1 DEF Chosen, Loops
<1>2. CASE handlers # <<>>
  <2>1. Len(handlers) \in Nat \ {0} /\ DOMAIN handlers = 1..Len(handlers)
    BY <1>2, EmptySeq, LenProperties DEF TypeOK
  <2>2. next + 1 \in DOMAIN handlers /\ next \in Nat
    BY <2>1 DEF TypeOK
  <2>3. handlers[next + 1] \in Threads
    BY <2>2, ElementOfSeq DEF TypeOK
  <2>4. Following(next) = 0 \/ Following(next) \in 1..(Len(handlers) - 1)
    BY <2>1, <2>2 DEF Following
  <2> QED
    BY <1>2, <2>2, <2>3, <2>4 DEF Chosen, Loops
<1> QED
  BY <1>1, <1>2

(***************************************************************************)
(* What doPendingFunctors runs next is a functor, and leaves functors.     *)
(***************************************************************************)
LEMMA TakeFunctor ==
    ASSUME TypeOK, NEW l \in Loops, batch[l] # <<>>
    PROVE  Head(batch[l]) \in Functors /\ Head(batch[l]).conn \in Conns
           /\ Tail(batch[l]) \in Seq(Functors)
<1>1. batch[l] \in Seq(Functors)
  BY DEF TypeOK
<1>2. Head(batch[l]) \in Functors /\ Tail(batch[l]) \in Seq(Functors)
  BY <1>1, HeadTailProperties
<1> QED
  BY <1>2 DEF Functors

\* Whenever the main thread is busy with an EventLoopThread, it is one of the pool's.
CurrentIsThread == pc \in {"check", "blocked", "stop", "join"} => current <= numThreads

TypeInv == TypeOK /\ CurrentIsThread

(***************************************************************************)
(* Type correctness with what it rests on: current may be one more than    *)
(* the last thread, but not while the main thread is at work on it.        *)
(***************************************************************************)
LEMMA TypeInvariant == Spec => []TypeInv
<1> USE MaxThreadsAssumption
<1>1. Init => TypeInv
  <2> SUFFICES ASSUME Init PROVE TypeInv
    OBVIOUS
  <2>1. <<>> \in Seq(Functors) /\ <<>> \in Seq(Threads)
    BY EmptySeq
  <2> QED
    BY <2>1 DEF Init, TypeInv, CurrentIsThread, TypeOK, Loops, Points, Ends
<1>2. TypeInv /\ [Next]_vars => TypeInv'
  <2> SUFFICES ASSUME TypeInv, [Next]_vars PROVE TypeInv'
    OBVIOUS
  <2> USE DEF TypeInv, CurrentIsThread, TypeOK, Points, Ends, poolVars, threadVars, connVars, functorVars, mainVars, mainData
  <2>1. Main \in Loops /\ Threads \subseteq Loops /\ <<>> \in Seq(Functors)
    BY EmptySeq DEF Loops
  <2>2. ASSUME NEW l \in Loops, NEW kind \in {"establish", "remove", "destroy"}, NEW c \in Conns
        PROVE  [queue EXCEPT ![l] = Append(@, Functor(kind, c))] \in [Loops -> Seq(Functors)]
    <3>1. Functor(kind, c) \in Functors
      BY DEF Functor, Functors
    <3>2. Append(queue[l], Functor(kind, c)) \in Seq(Functors)
      BY <3>1, AppendProperties
    <3> QED
      BY <3>2
  <2>3. ASSUME NEW l \in Loops, NEW kind \in {"establish", "remove", "destroy"}, NEW c \in Conns,
               Reach(l, Functor(kind, c))
        PROVE  queue' \in [Loops -> Seq(Functors)] /\ pc' \in {pc, "dangling"}
    <3>1. CASE Missing(l)
      BY <2>3, <3>1 DEF Reach
    <3>2. CASE ~Missing(l)
      <4>1. queue' = [queue EXCEPT ![l] = Append(@, Functor(kind, c))] /\ pc' = pc
        BY <2>3, <3>2, Zenon DEF Reach, Push
      <4> QED
        BY <2>2, <4>1, Zenon
    <3> QED
      BY <3>1, <3>2
  <2>4. ASSUME NEW c \in Conns, Remove(c)
        PROVE  /\ queue' \in [Loops -> Seq(Functors)]
               /\ pc' \in {pc, "dangling"}
               /\ connMap' \subseteq Conns
    <3>1. loopOf[c] \in Loops
      OBVIOUS
    <3> QED
      BY <2>3, <2>4, <3>1 DEF Remove
  <2>5. CASE MainStep
    <3>1. CASE StartThread
      BY <2>1, <3>1 DEF StartThread, Threads
    <3>7. CASE Listen
      BY <2>1, <3>7 DEF Listen
    <3>8. CASE ReadLoop
      BY <3>8 DEF ReadLoop
    <3>9. CASE DestroyAcceptor
      BY <3>9 DEF DestroyAcceptor
    <3>2. CASE CheckLoop
      <4>1. CASE Published(current)
        <5>1. /\ handlers' = Append(handlers, current)
              /\ current' = current + 1
              /\ pc' = "start"
              /\ UNCHANGED <<numThreads, next, threadVars, connVars, functorVars, toDestroy,
                             stoppedInside>>
          BY <3>2, <4>1 DEF CheckLoop
        <5>2. current \in Threads
          BY <3>2 DEF CheckLoop, CurrentIsThread, Threads
        <5>3. handlers' \in Seq(Threads) /\ Len(handlers') = Len(handlers) + 1
              /\ Len(handlers) \in Nat
          BY <5>1, <5>2, AppendProperties, LenProperties
        <5> QED
          BY <5>1, <5>2, <5>3 DEF Threads
      <4>2. CASE ~Published(current)
        BY <3>2, <4>2 DEF CheckLoop
      <4> QED
        BY <4>1, <4>2
    <3>3. CASE BeginDestructor
      BY <3>3 DEF BeginDestructor
    <3>4. ASSUME NEW c \in Conns, DestroyConnection(c) PROVE TypeInv'
      <4>1. loopOf[c] \in Loops
        OBVIOUS
      <4>2. Functor("destroy", c).conn = c
        BY DEF Functor
      <4>3. /\ queue' \in [Loops -> Seq(Functors)]
            /\ pc' \in {pc, "dangling"}
            /\ stage' \in [Conns -> {"none", "connecting", "open", "closed", "destroyed"}]
        BY <2>3, <3>4, <4>1, <4>2 DEF DestroyConnection, RunInLoop
      <4> QED
        BY <3>4, <4>3 DEF DestroyConnection
    <3>5. CASE StopLoop
      BY <2>1, <3>5 DEF StopLoop
    <3>10. CASE Join
      BY <3>10 DEF Join
    <3>6. CASE DestroyRest
      BY <2>1, <3>6 DEF DestroyRest
    <3> QED
      BY <2>5, <3>1, <3>2, <3>3, <3>4, <3>5, <3>6, <3>7, <3>8, <3>9, <3>10
      DEF MainStep
  <2>6. ASSUME NEW t \in Threads, ThreadStep(t) PROVE TypeInv'
    <3>1. CASE ConstructLoop(t)
      BY <2>1, <3>1 DEF ConstructLoop
    <3>2. CASE Publish(t)
      BY <2>1, <3>2 DEF Publish, Woken
    <3>3. CASE ClearLoop(t)
      BY <2>1, <3>3 DEF ClearLoop
    <3>4. CASE EndThread(t)
      BY <2>1, <3>4 DEF EndThread
    <3> QED
      BY <2>6, <3>1, <3>2, <3>3, <3>4 DEF ThreadStep
  <2>7. ASSUME NEW l \in Loops, LoopStep(l) PROVE TypeInv'
    <3>1. CASE TestStop(l) \/ Poll(l) \/ FunctorsDone(l)
      BY <3>1 DEF TestStop, Poll, FunctorsDone, Enter
    <3>2. CASE SwapFunctors(l)
      BY <2>1, <3>2 DEF SwapFunctors, Enter
    <3>3. CASE RunInOwnLoop(l)
      <4>1. batch[l] # <<>>
        BY <3>3 DEF RunInOwnLoop, NextFunctor
      <4>2. Head(batch[l]).conn \in Conns /\ Tail(batch[l]) \in Seq(Functors)
        BY <4>1, TakeFunctor
      <4>3. /\ batch' = [batch EXCEPT ![l] = Tail(batch[l])]
            /\ \E point \in {"open", "destroyed"} :
                   stage' = [stage EXCEPT ![Head(batch[l]).conn] = point]
            /\ UNCHANGED <<poolVars, threadVars, loopOf, connMap, queue, mainVars, stoppedInside>>
        BY <3>3, Zenon DEF RunInOwnLoop, NextFunctor
      <4>4. batch' \in [Loops -> Seq(Functors)]
        BY <4>2, <4>3
      <4>5. stage' \in [Conns -> {"none", "connecting", "open", "closed", "destroyed"}]
        BY <4>2, <4>3
      <4> QED
        BY <4>3, <4>4, <4>5
    <3> QED
      BY <2>7, <3>1, <3>2, <3>3 DEF LoopStep
  <2>8. CASE SpuriousWakeup
    BY <2>8 DEF SpuriousWakeup
  <2>9. CASE RunRemove
    BY <2>1, <2>4, <2>9, TakeFunctor DEF RunRemove, NextFunctor
  <2>10. ASSUME NEW l \in Loops, NEW stopped \in {l, Main}, CallbackStops(l, stopped) PROVE TypeInv'
    BY <2>1, <2>10 DEF CallbackStops, Loops
  <2>11. ASSUME NEW c \in Conns, Accept(c) PROVE TypeInv'
    <3>1. queue' \in [Loops -> Seq(Functors)] /\ pc' \in {pc, "dangling"}
      BY <2>3, <2>11, RoundRobin DEF Accept
    <3>2. next' = 0 \/ next' \in 1..(Len(handlers) - 1)
      BY <2>11, RoundRobin DEF Accept
    <3> QED
      BY <2>11, <3>1, <3>2, RoundRobin DEF Accept
  <2>12. ASSUME NEW c \in Conns, NEW l \in Loops, Close(l, c) PROVE TypeInv'
    <3>1. /\ queue' \in [Loops -> Seq(Functors)]
          /\ pc' \in {pc, "dangling"}
          /\ connMap' \subseteq Conns
      <4>1. CASE l = Main
        <5>1. Remove(c)
          BY <2>12, <4>1 DEF Close
        <5> QED
          BY <2>4, <5>1
      <4>2. CASE l # Main
        <5>1. queue' = [queue EXCEPT ![Main] = Append(@, Functor("remove", c))]
              /\ UNCHANGED <<connMap, pc>>
          BY <2>12, <4>2 DEF Close, Push
        <5> QED
          BY <2>1, <2>2, <5>1
      <4> QED
        BY <4>1, <4>2
    <3> QED
      BY <2>12, <3>1 DEF Close
  <2>13. CASE UNCHANGED vars
    BY <2>13 DEF vars
  <2> QED
    BY <2>5, <2>6, <2>7, <2>8, <2>9, <2>10, <2>11, <2>12, <2>13 DEF Next
<1> QED
  BY <1>1, <1>2, PTL DEF Spec

(***************************************************************************)
(* Type correctness: of the queues, the places of all threads and the      *)
(* round robin index.                                                      *)
(***************************************************************************)
THEOREM TypeCorrect == Spec => []TypeOK
BY TypeInvariant, PTL DEF TypeInv

-----------------------------------------------------------------------------
(***************************************************************************)
(* What outlives what.                                                     *)
(***************************************************************************)

\* A thread that the destructor of the pool has passed is over for good, and one
\* that was not asked for never begins.
JoinInv ==
    /\ \A t \in Threads : t > numThreads => at[t] = "none"
    /\ pc \in {"pool", "stop", "join"} =>
           \A t \in Threads : t < current /\ t <= numThreads => at[t] = "ended"
    /\ ServerOutlivesThreads

(***************************************************************************)
(* When the server and the main loop are gone no thread of the pool is     *)
(* left, whenever the threads were started, stopped or stopped themselves. *)
(***************************************************************************)
THEOREM ThreadsEndFirst == Spec => []ServerOutlivesThreads
<1> USE MaxThreadsAssumption
<1>1. Init => JoinInv
  BY DEF Init, JoinInv, ServerOutlivesThreads, Loops, Threads, Main
<1>2. TypeInv /\ JoinInv /\ [Next]_vars => JoinInv'
  <2> SUFFICES ASSUME TypeInv, JoinInv, [Next]_vars PROVE JoinInv'
    OBVIOUS
  <2> USE DEF TypeInv, CurrentIsThread, JoinInv, ServerOutlivesThreads, poolVars, threadVars,
              connVars, functorVars, mainVars, mainData
  <2>1. /\ at \in [Loops -> Points] /\ current \in 1..(MaxThreads + 1)
        /\ numThreads \in 0..MaxThreads
        /\ Threads = 1..MaxThreads /\ Loops = Threads \cup {0} /\ Main = 0
    BY DEF TypeOK, Threads, Loops, Main
  <2>2. ASSUME UNCHANGED <<numThreads, current, at>>, pc' \in {pc, "dangling"} PROVE JoinInv'
    BY <2>2
  <2>3. ASSUME NEW l, NEW functor, Reach(l, functor) PROVE pc' \in {pc, "dangling"}
    BY <2>3 DEF Reach
  <2>4. CASE StartThread
    BY <2>1, <2>4 DEF StartThread
  <2>5. CASE CheckLoop
    BY <2>5 DEF CheckLoop
  <2>6. CASE Listen
    BY <2>1, <2>6 DEF Listen
  <2>7. CASE BeginDestructor
    BY <2>7 DEF BeginDestructor
  <2>8. ASSUME NEW c \in Conns, DestroyConnection(c) PROVE JoinInv'
    <3>1. pc' \in {pc, "dangling"}
      BY <2>3, <2>8 DEF DestroyConnection, RunInLoop
    <3> QED
      BY <2>2, <2>8, <3>1 DEF DestroyConnection
  <2>9. CASE DestroyAcceptor
    BY <2>1, <2>9 DEF DestroyAcceptor
  <2>10. CASE ReadLoop \/ StopLoop
    BY <2>10 DEF ReadLoop, StopLoop
  <2>11. CASE Join
    BY <2>1, <2>11 DEF Join, Joinable
  <2>12. CASE DestroyRest
    BY <2>1, <2>12 DEF DestroyRest
  <2>13. ASSUME NEW t \in Threads, ThreadStep(t) PROVE JoinInv'
    <3>1. CASE ConstructLoop(t)
      BY <2>1, <3>1 DEF ConstructLoop
    <3>2. CASE Publish(t)
      BY <2>1, <3>2 DEF Publish, Woken
    <3>3. CASE ClearLoop(t)
      BY <2>1, <3>3 DEF ClearLoop
    <3>4. CASE EndThread(t)
      BY <2>1, <3>4 DEF EndThread
    <3> QED
      BY <2>13, <3>1, <3>2, <3>3, <3>4 DEF ThreadStep
  <2>14. ASSUME NEW l \in Loops, LoopStep(l) PROVE JoinInv'
    <3>1. ASSUME NEW point, at[l] \in {"test", "poll", "dispatch", "functors"},
                 at' = [at EXCEPT ![l] = point], UNCHANGED <<numThreads, current, pc>>
          PROVE  JoinInv'
      BY <2>1, <3>1
    <3>2. CASE TestStop(l) \/ Poll(l) \/ SwapFunctors(l) \/ FunctorsDone(l)
      BY <3>1, <3>2 DEF TestStop, Poll, SwapFunctors, FunctorsDone, Enter
    <3>3. CASE RunInOwnLoop(l)
      BY <2>2, <3>3 DEF RunInOwnLoop, NextFunctor
    <3> QED
      BY <2>14, <3>2, <3>3 DEF LoopStep
  <2>15. CASE SpuriousWakeup
    BY <2>15 DEF SpuriousWakeup
  <2>16. CASE RunRemove
    BY <2>2, <2>3, <2>16 DEF RunRemove, NextFunctor, Remove
  <2>17. ASSUME NEW l \in Loops, NEW stopped \in {l, Main}, CallbackStops(l, stopped)
         PROVE  JoinInv'
    BY <2>2, <2>17 DEF CallbackStops
  <2>18. ASSUME NEW c \in Conns, Accept(c) PROVE JoinInv'
    <3>1. pc' \in {pc, "dangling"}
      BY <2>3, <2>18 DEF Accept
    <3> QED
      BY <2>2, <2>18, <3>1 DEF Accept
  <2>19. ASSUME NEW c \in Conns, NEW l \in Loops, Close(l, c) PROVE JoinInv'
    <3>1. pc' \in {pc, "dangling"}
      BY <2>3, <2>19 DEF Close, Remove
    <3> QED
      BY <2>2, <2>19, <3>1 DEF Close
  <2>20. CASE UNCHANGED vars
    BY <2>20 DEF vars
  <2> QED
    BY <2>4, <2>5, <2>6, <2>7, <2>8, <2>9, <2>10, <2>11, <2>12, <2>13, <2>14, <2>15, <2>16,
       <2>17, <2>18, <2>19, <2>20 DEF Next, MainStep
<1>3. JoinInv => ServerOutlivesThreads
  BY DEF JoinInv
<1> QED
  BY <1>1, <1>2, <1>3, TypeInvariant, PTL DEF Spec

-----------------------------------------------------------------------------
(***************************************************************************)
(* The pointers to loops.                                                  *)
(***************************************************************************)

Starting == {"start", "check", "blocked"}
Running == {"test", "poll", "dispatch", "functors"}

\* The threads whose loop start() has returned.
HandedOut == {t \in Threads : t <= numThreads /\ (pc \in Starting => t < current)}

\* The threads that start() has still to create.
Later(t) ==
    \/ pc = "start" /\ t >= current
    \/ pc \in {"check", "blocked"} /\ t > current

\* The threads that ~EventLoopThread has told to stop.
Told(t) ==
    \/ pc = "join" /\ t <= current
    \/ pc \in {"pool", "stop"} /\ t < current
    \/ pc = "over"

\* Each EventLoopThread's pointer is set exactly while its loop is to be found,
\* which is so before it is handed out, and only loops that were are kept.
KeptInv ==
    /\ pc \in Starting => current <= numThreads + 1
    /\ at[Main] \in Running => pc \in {"loop", "dangling"}
    /\ \A t \in Threads : loopPtr[t] <=> at[t] \in Running \cup {"left"}
    /\ \A t \in HandedOut : at[t] \notin {"none", "created", "constructed"}
    /\ \A i \in DOMAIN handlers : handlers[i] \in HandedOut
    /\ \A c \in Conns : loopOf[c] \in HandedOut \cup {Main}
    /\ \A t \in Threads : Later(t) => at[t] = "none"

\* As long as no callback stops its own loop, a loop is left only when it was told.
StopInv ==
    /\ pc \notin {"terminated", "dangling"}
    /\ \A t \in Threads : isStop[t] => Told(t)
    /\ \A t \in Threads : at[t] \in {"left", "cleared", "ended"} => isStop[t]

PointerInv == KeptInv /\ (stoppedInside = {} => StopInv)

(***************************************************************************)
(* The server finds the loops it kept, until it begins to stop them.       *)
(***************************************************************************)
LEMMA KeptLoopsAreThere ==
    ASSUME TypeInv, PointerInv, stoppedInside = {}, NEW l \in HandedOut \cup {Main},
           pc \in {"loop", "server"}, l = Main => at[Main] \in Running
    PROVE  ~Missing(l)
<1>1. CASE l = Main
  BY <1>1 DEF Missing, Running
<1>2. CASE l \in HandedOut
  <2>1. l \in Threads /\ at[l] \notin {"none", "created", "constructed"} /\ ~isStop[l]
    BY <1>2 DEF PointerInv, KeptInv, StopInv, HandedOut, Told
  <2> QED
    BY <2>1 DEF PointerInv, StopInv, Missing
<1> QED
  BY <1>1, <1>2

(***************************************************************************)
(* A step that hands a functor to such a loop does not end badly.          *)
(***************************************************************************)
LEMMA ReachKeepsOn ==
    ASSUME TypeInv, PointerInv, NEW l \in HandedOut \cup {Main}, NEW functor,
           pc \in {"loop", "server", "dangling"}, l = Main => at[Main] \in Running,
           Reach(l, functor)
    PROVE  pc' \in {pc, "dangling"} /\ (stoppedInside = {} => pc' = pc)
<1>1. CASE stoppedInside = {}
  <2>1. pc \in {"loop", "server"}
    BY <1>1 DEF PointerInv, StopInv
  <2> QED
    BY <1>1, <2>1, KeptLoopsAreThere DEF Reach
<1>2. CASE stoppedInside # {}
  BY <1>2 DEF Reach
<1> QED
  BY <1>1, <1>2

(***************************************************************************)
(* Every step keeps the pointers and what stops the loops.                 *)
(***************************************************************************)
LEMMA PointerInvariant == Spec => []PointerInv
<1> USE MaxThreadsAssumption
<1>1. Init => PointerInv
  <2> SUFFICES ASSUME Init PROVE PointerInv
    OBVIOUS
  <2>1. HandedOut = {} /\ DOMAIN handlers = {}
    BY EmptySeq DEF Init, HandedOut, Starting, Threads
  <2> QED
    BY <2>1 DEF Init, PointerInv, KeptInv, StopInv, Later, Starting, Running, Loops, Threads, Main
<1>2. TypeInv /\ PointerInv /\ [Next]_vars => PointerInv'
  <2> SUFFICES ASSUME TypeInv, PointerInv, [Next]_vars PROVE PointerInv'
    OBVIOUS
  <2> USE DEF PointerInv, KeptInv, StopInv, Told, Later, HandedOut, Starting, Running, poolVars,
              threadVars, connVars, functorVars, mainVars, mainData
  <2>1. /\ at \in [Loops -> Points] /\ isStop \in [Loops -> BOOLEAN]
        /\ loopPtr \in [Threads -> BOOLEAN] /\ current \in 1..(MaxThreads + 1)
        /\ numThreads \in 0..MaxThreads /\ handlers \in Seq(Threads)
        /\ loopOf \in [Conns -> Loops]
        /\ pc \in {"check", "blocked", "stop", "join"} => current <= numThreads
        /\ Threads = 1..MaxThreads /\ Loops = Threads \cup {0} /\ Main = 0
    BY DEF TypeInv, CurrentIsThread, TypeOK, Threads, Loops, Main
  <2>2. ASSUME UNCHANGED <<numThreads, current, at, loopPtr, isStop, handlers, loopOf,
                           stoppedInside>>,
               pc \in {"loop", "server", "dangling"},
               pc' \in {pc, "dangling"}, stoppedInside = {} => pc' = pc,
               at[Main] \in Running => pc # "server"
        PROVE  PointerInv'
    BY <2>2
  <2>3. CASE StartThread
    <3>1. /\ pc = "start" /\ pc' = "check" /\ current \in Threads
          /\ at' = [at EXCEPT ![current] = "created"]
          /\ UNCHANGED <<numThreads, current, loopPtr, isStop, handlers, loopOf, stoppedInside>>
      BY <2>1, <2>3 DEF StartThread
    <3>2. HandedOut' = HandedOut /\ current \notin HandedOut
      BY <2>1, <3>1
    <3>3. at[current] = "none" /\ ~loopPtr[current]
      <4>1. Later(current)
        BY <2>1, <3>1
      <4>2. at[current] = "none"
        BY <3>1, <4>1
      <4> QED
        BY <3>1, <4>2
    <3>4. \A t \in Threads : at'[t] = IF t = current THEN "created" ELSE at[t]
      BY <2>1, <3>1
    <3>5. KeptInv'
      <4>1. \A t \in Threads : loopPtr'[t] <=> at'[t] \in Running \cup {"left"}
        BY <3>1, <3>3, <3>4
      <4>2. \A t \in HandedOut' : at'[t] \notin {"none", "created", "constructed"}
        BY <3>2, <3>4
      <4>3. \A t \in Threads : Later(t)' => at'[t] = "none"
        BY <2>1, <3>1, <3>4
      <4>4. at'[Main] = at[Main]
        BY <2>1, <3>1
      <4> QED
        BY <3>1, <3>2, <4>1, <4>2, <4>3, <4>4
    <3>6. (stoppedInside = {} => StopInv)'
      BY <2>1, <3>1, <3>3, <3>4
    <3> QED
      BY <3>5, <3>6
  <2>4. CASE CheckLoop
    <3>1. CASE Published(current)
      <4>1. /\ handlers' = Append(handlers, current) /\ current' = current + 1 /\ pc' = "start"
            /\ UNCHANGED <<numThreads, threadVars, connVars, stoppedInside>>
        BY <2>4, <3>1 DEF CheckLoop
      <4>2. current \in Threads /\ at[current] \in Running \cup {"left"}
        BY <2>1, <2>4, <3>1 DEF CheckLoop, Published
      <4>3. HandedOut' = HandedOut \cup {current}
        BY <2>1, <2>4, <4>1, <4>2 DEF CheckLoop
      <4>4. \A i \in DOMAIN handlers' : handlers'[i] \in HandedOut'
        <5>1. /\ DOMAIN handlers = 1..Len(handlers) /\ Len(handlers) \in Nat
              /\ DOMAIN handlers' = 1..(Len(handlers) + 1)
              /\ \A i \in 1..Len(handlers) : handlers'[i] = handlers[i]
              /\ handlers'[Len(handlers) + 1] = current
          BY <2>1, <4>1, <4>2, AppendProperties, LenProperties
        <5> QED
          BY <4>3, <5>1
      <4>5. /\ \A t \in HandedOut' : at'[t] \notin {"none", "created", "constructed"}
            /\ \A c \in Conns : loopOf'[c] \in HandedOut' \cup {Main}
        BY <4>1, <4>2, <4>3
      <4> QED
        BY <2>1, <2>4, <4>1, <4>4, <4>5 DEF CheckLoop
    <3>2. CASE ~Published(current)
      BY <2>4, <3>2 DEF CheckLoop
    <3> QED
      BY <3>1, <3>2
  <2>5. CASE Listen
    BY <2>1, <2>5 DEF Listen
  <2>6. CASE BeginDestructor
    BY <2>6 DEF BeginDestructor
  <2>7. ASSUME NEW c \in Conns, DestroyConnection(c) PROVE PointerInv'
    <3>1. pc = "server" /\ loopOf[c] \in HandedOut \cup {Main}
      BY <2>7 DEF DestroyConnection
    <3>2. pc' \in {pc, "dangling"} /\ (stoppedInside = {} => pc' = pc)
      <4>1. CASE loopOf[c] = Main
        BY <2>7, <4>1 DEF DestroyConnection, RunInLoop
      <4>2. CASE loopOf[c] # Main
        <5>1. Reach(loopOf[c], Functor("destroy", c))
          BY <2>7, <4>2 DEF DestroyConnection, RunInLoop
        <5> QED
          BY <3>1, <4>2, <5>1, ReachKeepsOn
      <4> QED
        BY <4>1, <4>2
    <3>3. UNCHANGED <<numThreads, current, at, loopPtr, isStop, handlers, loopOf, stoppedInside>>
      BY <2>7 DEF DestroyConnection
    <3> QED
      BY <2>2, <3>1, <3>2, <3>3
  <2>8. CASE DestroyAcceptor
    BY <2>8 DEF DestroyAcceptor
  <2>9. CASE ReadLoop
    <3>1. current \in Threads /\ current \in HandedOut
      BY <2>1, <2>9 DEF ReadLoop
    <3>2. stoppedInside = {} => loopPtr[current]
      <4>1. SUFFICES ASSUME stoppedInside = {} PROVE loopPtr[current]
        OBVIOUS
      <4>2. ~isStop[current]
        BY <2>1, <2>9, <3>1, <4>1 DEF ReadLoop
      <4>3. at[current] \in Points
        BY <2>1, <3>1
      <4> QED
        BY <3>1, <4>1, <4>2, <4>3 DEF Points
    <3> QED
      BY <2>1, <2>9, <3>2 DEF ReadLoop
  <2>10. CASE StopLoop
    <3>1. current \in Threads /\ current \in HandedOut
      BY <2>1, <2>10 DEF StopLoop
    <3>2. stoppedInside = {} => ~Missing(current)
      BY <2>1, <2>10, <3>1 DEF StopLoop, Missing
    <3>3. CASE Missing(current)
      BY <2>10, <3>2, <3>3 DEF StopLoop
    <3>4. CASE ~Missing(current)
      <4>1. /\ pc = "stop" /\ pc' = "join" /\ isStop' = [isStop EXCEPT ![current] = TRUE]
            /\ UNCHANGED <<numThreads, current, at, loopPtr, handlers, loopOf, stoppedInside>>
        BY <2>10, <3>4 DEF StopLoop
      <4>2. HandedOut' = HandedOut
        BY <4>1
      <4>3. \A t \in Threads : isStop'[t] <=> t = current \/ isStop[t]
        BY <2>1, <3>1, <4>1
      <4>4. \A t \in Threads : Told(t)' <=> t <= current
        BY <4>1
      <4>5. KeptInv'
        BY <4>1, <4>2
      <4>6. (stoppedInside = {} => StopInv)'
        <5>1. SUFFICES ASSUME stoppedInside = {} PROVE StopInv'
          BY <4>1
        <5>2. \A t \in Threads : isStop'[t] => Told(t)'
          BY <2>1, <4>1, <4>3, <4>4, <5>1
        <5>3. \A t \in Threads : at'[t] \in {"left", "cleared", "ended"} => isStop'[t]
          BY <4>1, <4>3, <5>1
        <5> QED
          BY <4>1, <5>2, <5>3
      <4> QED
        BY <4>5, <4>6
    <3> QED
      BY <3>3, <3>4
  <2>11. CASE Join
    BY <2>1, <2>11 DEF Join
  <2>12. CASE DestroyRest
    BY <2>1, <2>12 DEF DestroyRest
  <2>13. ASSUME NEW t \in Threads, ThreadStep(t) PROVE PointerInv'
    <3>1. CASE ConstructLoop(t)
      BY <2>1, <3>1 DEF ConstructLoop
    <3>2. CASE Publish(t)
      BY <2>1, <3>2 DEF Publish, Woken
    <3>3. CASE ClearLoop(t)
      BY <2>1, <3>3 DEF ClearLoop
    <3>4. CASE EndThread(t)
      BY <2>1, <3>4 DEF EndThread
    <3> QED
      BY <2>13, <3>1, <3>2, <3>3, <3>4 DEF ThreadStep
  <2>14. ASSUME NEW l \in Loops, LoopStep(l) PROVE PointerInv'
    <3>1. ASSUME NEW point \in Running \cup {"left"}, at[l] \in Running,
                 at' = [at EXCEPT ![l] = point],
                 point = "left" => isStop[l],
                 UNCHANGED <<poolVars, loopPtr, isStop, loopOf, mainVars, stoppedInside>>
          PROVE  PointerInv'
      BY <2>1, <3>1
    <3>2. CASE TestStop(l)
      BY <3>1, <3>2 DEF TestStop, Enter
    <3>3. CASE Poll(l) \/ SwapFunctors(l) \/ FunctorsDone(l)
      BY <3>1, <3>3 DEF Poll, SwapFunctors, FunctorsDone, Enter
    <3>4. CASE RunInOwnLoop(l)
      BY <3>4 DEF RunInOwnLoop, NextFunctor
    <3> QED
      BY <2>14, <3>2, <3>3, <3>4 DEF LoopStep
  <2>15. CASE SpuriousWakeup
    BY <2>15 DEF SpuriousWakeup
  <2>16. ASSUME NEW c \in Conns, at[Main] \in Running, Remove(c)
         PROVE  pc' \in {pc, "dangling"} /\ (stoppedInside = {} => pc' = pc)
    BY <2>16, ReachKeepsOn DEF Remove
  <2>17. CASE RunRemove
    <3>1. at[Main] = "functors" /\ Head(batch[Main]).conn \in Conns
      BY <2>1, <2>17, TakeFunctor DEF RunRemove, NextFunctor, TypeInv
    <3>2. pc' \in {pc, "dangling"} /\ (stoppedInside = {} => pc' = pc)
      BY <2>16, <2>17, <3>1 DEF RunRemove
    <3> QED
      BY <2>2, <2>17, <3>1, <3>2 DEF RunRemove, NextFunctor
  <2>18. ASSUME NEW l \in Loops, NEW stopped \in {l, Main}, CallbackStops(l, stopped)
         PROVE  PointerInv'
    <3>1. CASE stopped = Main
      BY <2>1, <2>18, <3>1 DEF CallbackStops
    <3>2. CASE stopped # Main
      BY <2>18, <3>2 DEF CallbackStops
    <3> QED
      BY <3>1, <3>2
  <2>19. ASSUME NEW c \in Conns, Accept(c) PROVE PointerInv'
    <3>1. Chosen \in HandedOut \cup {Main}
      BY RoundRobin DEF TypeInv, Chosen
    <3>2. at[Main] = "dispatch" /\ pc \in {"loop", "dangling"}
      BY <2>19 DEF Accept
    <3>3. pc' \in {pc, "dangling"} /\ (stoppedInside = {} => pc' = pc)
      BY <2>19, <3>1, <3>2, ReachKeepsOn DEF Accept
    <3>4. \A d \in Conns : loopOf'[d] \in HandedOut \cup {Main}
      BY <2>1, <2>19, <3>1 DEF Accept
    <3>5. UNCHANGED <<numThreads, current, at, loopPtr, isStop, handlers, stoppedInside>>
      BY <2>19 DEF Accept
    <3> QED
      BY <3>2, <3>3, <3>4, <3>5
  <2>20. ASSUME NEW c \in Conns, NEW l \in Loops, Close(l, c) PROVE PointerInv'
    <3>1. CASE l = Main
      <4>1. at[Main] \in {"dispatch", "functors"} /\ Remove(c)
        BY <2>20, <3>1 DEF Close
      <4>2. pc' \in {pc, "dangling"} /\ (stoppedInside = {} => pc' = pc)
        BY <2>16, <4>1
      <4> QED
        BY <2>2, <2>20, <4>1, <4>2 DEF Close
    <3>2. CASE l # Main
      BY <2>20, <3>2 DEF Close
    <3> QED
      BY <3>1, <3>2
  <2>21. CASE UNCHANGED vars
    BY <2>21 DEF vars
  <2> QED
    BY <2>3, <2>4, <2>5, <2>6, <2>7, <2>8, <2>9, <2>10, <2>11, <2>12, <2>13, <2>14, <2>15,
       <2>17, <2>18, <2>19, <2>20, <2>21 DEF Next, MainStep
<1> QED
  BY <1>1, <1>2, TypeInvariant, PTL DEF Spec

(***************************************************************************)
(* Unless a callback stopped an io loop, the main thread never uses a      *)
(* loop that is not there yet or no longer, in start, newConnection,       *)
(* removeConnection and the destructors, and joins every thread.           *)
(***************************************************************************)
THEOREM PointersAreLive == Spec => []EndsCleanly
<1>1. PointerInv => EndsCleanly
  BY DEF PointerInv, StopInv, EndsCleanly
<1> QED
  BY <1>1, PointerInvariant, PTL

-----------------------------------------------------------------------------
(***************************************************************************)
(* The round robin.                                                        *)
(***************************************************************************)

GivenTo(t) == {c \in Conns : loopOf[c] = t}

\* The pool keeps its threads in their order.
HandlersInv ==
    /\ \A i \in DOMAIN handlers : handlers[i] = i
    /\ Len(handlers) = IF pc \in Starting THEN current - 1 ELSE numThreads

\* The loops before next were given one connection more than those from next on.
DealtInv ==
    /\ \A c \in Conns : stage[c] = "none" => loopOf[c] = Main
    /\ pc \in Starting => next = 0 /\ \A c \in Conns : loopOf[c] = Main
    /\ pc \notin Starting =>
           \E n \in Nat : \A t \in 1..numThreads :
               /\ IsFiniteSet(GivenTo(t))
               /\ Given(t) = IF t <= next THEN n + 1 ELSE n

RoundInv == HandlersInv /\ DealtInv

(***************************************************************************)
(* Before the first connection nothing was given to any loop.              *)
(***************************************************************************)
LEMMA NothingGiven ==
    ASSUME \A c \in Conns : loopOf[c] = Main, NEW t \in Threads
    PROVE  IsFiniteSet(GivenTo(t)) /\ Given(t) = 0
<1>1. GivenTo(t) = {}
  BY DEF GivenTo, Threads, Main
<1> QED
  BY <1>1, FS_EmptySet DEF Given, GivenTo

(***************************************************************************)
(* newConnection gives the connection to the loop at next and goes on to   *)
(* the following one.                                                      *)
(***************************************************************************)
LEMMA AcceptDeals ==
    ASSUME TypeInv, PointerInv, RoundInv, NEW c \in Conns, Accept(c)
    PROVE  RoundInv'
<1>1. /\ at[Main] = "dispatch" /\ stage[c] = "none"
      /\ next' = IF handlers = <<>> THEN next ELSE Following(next)
      /\ loopOf' = [loopOf EXCEPT ![c] = Chosen]
      /\ stage' = [stage EXCEPT ![c] = IF Chosen = Main THEN "open" ELSE "connecting"]
      /\ pc' \in {pc, "dangling"}
      /\ UNCHANGED <<numThreads, handlers, current>>
  BY DEF Accept, Reach, mainData
<1>2. pc \notin Starting /\ pc' \notin Starting /\ Len(handlers) = numThreads
  BY <1>1 DEF PointerInv, KeptInv, Running, Starting, RoundInv, HandlersInv
<1>3. /\ handlers \in Seq(Threads) /\ loopOf \in [Conns -> Loops] /\ numThreads \in 0..MaxThreads
      /\ next = 0 \/ next \in 1..(Len(handlers) - 1)
      /\ stage \in [Conns -> {"none", "connecting", "open", "closed", "destroyed"}]
  BY DEF TypeInv, TypeOK
<1>4. HandlersInv'
  BY <1>1, <1>2 DEF RoundInv, HandlersInv
<1>5. (\A d \in Conns : stage[d] = "none" => loopOf[d] = Main)'
  BY <1>1, <1>3 DEF RoundInv, DealtInv
<1>6. PICK n \in Nat : \A t \in 1..numThreads :
          IsFiniteSet(GivenTo(t)) /\ Given(t) = IF t <= next THEN n + 1 ELSE n
  BY <1>2 DEF RoundInv, DealtInv
<1>7. CASE handlers = <<>>
  <2>1. numThreads = 0
    BY <1>2, <1>7, EmptySeq
  <2>2. 1..numThreads' = {}
    BY <1>1, <2>1
  <2> QED
    BY <1>2, <1>4, <1>5, <1>6, <2>2 DEF RoundInv, DealtInv
<1>8. CASE handlers # <<>>
  <2>1. numThreads \in Nat \ {0} /\ DOMAIN handlers = 1..numThreads
    BY <1>2, <1>3, <1>8, EmptySeq, LenProperties
  <2>2. next \in Nat /\ next + 1 \in 1..numThreads
    BY <1>2, <1>3, <2>1
  <2>3. PICK k \in 1..numThreads : k = next + 1 /\ Chosen = k
    BY <1>8, <2>1, <2>2 DEF Chosen, RoundInv, HandlersInv
  <2>4. loopOf[c] = Main /\ Main \notin 1..numThreads
    BY <1>1, <2>1 DEF RoundInv, DealtInv, Main
  <2>5. GivenTo(k)' = GivenTo(k) \cup {c} /\ c \notin GivenTo(k)
    BY <1>1, <1>3, <2>3, <2>4 DEF GivenTo
  <2>6. ASSUME NEW t \in 1..numThreads, t # k PROVE GivenTo(t)' = GivenTo(t)
    BY <1>1, <1>3, <2>3, <2>4, <2>6 DEF GivenTo
  <2>7. IsFiniteSet(GivenTo(k)) /\ Given(k) = n
    <3>1. ~(k <= next)
      BY <2>2, <2>3
    <3> QED
      BY <1>6, <3>1
  <2>8. IsFiniteSet(GivenTo(k)') /\ Given(k)' = n + 1
    <3>1. IsFiniteSet(GivenTo(k) \cup {c}) /\ Cardinality(GivenTo(k) \cup {c}) = n + 1
      BY <2>5, <2>7, FS_AddElement DEF Given, GivenTo
    <3> QED
      BY <2>5, <3>1 DEF Given, GivenTo
  <2>9. ASSUME NEW t \in 1..numThreads
        PROVE  IsFiniteSet(GivenTo(t)') /\ Given(t)' = IF t <= next + 1 THEN n + 1 ELSE n
    <3>1. CASE t = k
      <4>1. t <= next + 1
        BY <2>2, <2>3, <3>1
      <4> QED
        BY <2>8, <3>1, <4>1
    <3>2. CASE t # k
      <4>1. t <= next <=> t <= next + 1
        BY <2>2, <2>3, <3>2
      <4>2. IsFiniteSet(GivenTo(t)') /\ Given(t)' = Given(t)
        BY <1>6, <2>6, <3>2 DEF Given, GivenTo
      <4> QED
        BY <1>6, <4>1, <4>2
    <3> QED
      BY <3>1, <3>2
  <2>10. \E m \in Nat : \A t \in 1..numThreads :
             IsFiniteSet(GivenTo(t)') /\ Given(t)' = IF t <= next' THEN m + 1 ELSE m
    <3>1. CASE next + 1 >= numThreads
      <4>1. next' = 0 /\ \A t \in 1..numThreads : t <= next + 1 /\ ~(t <= next')
        BY <1>1, <1>2, <1>8, <2>2, <3>1 DEF Following
      <4>2. n + 1 \in Nat
        BY <1>6
      <4> QED
        BY <2>9, <4>1, <4>2
    <3>2. CASE ~(next + 1 >= numThreads)
      <4>1. next' = next + 1
        BY <1>1, <1>2, <1>8, <2>2, <3>2 DEF Following
      <4> QED
        BY <1>6, <2>9, <4>1
    <3> QED
      BY <3>1, <3>2
  <2> QED
    BY <1>1, <1>2, <1>4, <1>5, <2>10 DEF RoundInv, DealtInv
<1> QED
  BY <1>7, <1>8

(***************************************************************************)
(* Every step keeps the deal.                                              *)
(***************************************************************************)
LEMMA NextDeals == TypeInv /\ PointerInv /\ RoundInv /\ [Next]_vars => RoundInv'
<1> SUFFICES ASSUME TypeInv, PointerInv, RoundInv, [Next]_vars PROVE RoundInv'
  OBVIOUS
<1> USE DEF poolVars, threadVars, connVars, functorVars, mainVars, mainData
<1>1. ASSUME UNCHANGED <<poolVars, loopOf>>,
             \A c \in Conns : stage'[c] = "none" => stage[c] = "none",
             pc \in Starting <=> pc' \in Starting,
             pc \in Starting => current' = current
      PROVE  RoundInv'
  BY <1>1 DEF RoundInv, HandlersInv, DealtInv, GivenTo, Given
<1>2. ASSUME NEW l, NEW functor, Reach(l, functor) PROVE pc' \in {pc, "dangling"}
  BY <1>2 DEF Reach
<1>3. ASSUME UNCHANGED <<poolVars, current, loopOf>>, pc \notin Starting,
             pc' \in {pc, "dangling"}, \A c \in Conns : stage'[c] = "none" => stage[c] = "none"
      PROVE  RoundInv'
  BY <1>1, <1>3 DEF Starting
<1>4. /\ stage \in [Conns -> {"none", "connecting", "open", "closed", "destroyed"}]
      /\ current \in 1..(MaxThreads + 1) /\ numThreads \in 0..MaxThreads /\ MaxThreads \in Nat
      /\ handlers \in Seq(Threads)
  BY MaxThreadsAssumption DEF TypeInv, TypeOK
<1>5. at[Main] \in Running => pc \notin Starting
  BY DEF PointerInv, KeptInv, Running, Starting
<1>6. CASE StartThread
  BY <1>1, <1>6 DEF StartThread, Starting
<1>7. CASE CheckLoop
  <2>1. CASE Published(current)
    <3>1. /\ pc = "check" /\ pc' = "start"
          /\ handlers' = Append(handlers, current) /\ current' = current + 1
          /\ UNCHANGED <<numThreads, next, stage, loopOf>>
      BY <1>7, <2>1 DEF CheckLoop
    <3>2. Len(handlers) = current - 1
      BY <3>1 DEF RoundInv, HandlersInv, Starting
    <3>3. current \in Threads
      BY <1>4, <3>1 DEF TypeInv, CurrentIsThread, Threads
    <3>4. /\ DOMAIN handlers' = 1..current /\ Len(handlers') = current
          /\ \A i \in 1..(current - 1) : handlers'[i] = handlers[i]
          /\ handlers'[current] = current
      BY <1>4, <3>1, <3>2, <3>3, AppendProperties, LenProperties
    <3>5. \A i \in 1..(current - 1) : handlers[i] = i
      BY <1>4, <3>2, LenProperties DEF RoundInv, HandlersInv
    <3>6. HandlersInv'
      BY <1>4, <3>1, <3>4, <3>5 DEF HandlersInv, Starting
    <3> QED
      BY <3>1, <3>6 DEF RoundInv, DealtInv, Starting
  <2>2. CASE ~Published(current)
    BY <1>1, <1>7, <2>2 DEF CheckLoop, Starting
  <2> QED
    BY <2>1, <2>2
<1>8. CASE Listen
  <2>1. /\ pc = "start" /\ pc' = "loop" /\ current > numThreads
        /\ UNCHANGED <<numThreads, handlers, next, current, stage, loopOf>>
    BY <1>8 DEF Listen
  <2>2. current - 1 = numThreads
    BY <1>4, <2>1 DEF PointerInv, KeptInv, Starting
  <2>3. HandlersInv'
    BY <2>1, <2>2 DEF RoundInv, HandlersInv, Starting
  <2>4. next = 0 /\ \A c \in Conns : loopOf[c] = Main
    BY <2>1 DEF RoundInv, DealtInv, Starting
  <2>5. ASSUME NEW t \in 1..numThreads
        PROVE  IsFiniteSet(GivenTo(t)) /\ Given(t) = 0 /\ ~(t <= next)
    <3>1. t \in Threads /\ ~(t <= next)
      BY <1>4, <2>4 DEF Threads
    <3> QED
      BY <2>4, <3>1, NothingGiven
  <2>6. ASSUME NEW t \in 1..numThreads'
        PROVE  IsFiniteSet(GivenTo(t)') /\ Given(t)' = IF t <= next' THEN 0 + 1 ELSE 0
    BY <2>1, <2>5 DEF GivenTo, Given
  <2>7. \E n \in Nat : \A t \in 1..numThreads' :
            IsFiniteSet(GivenTo(t)') /\ Given(t)' = IF t <= next' THEN n + 1 ELSE n
    BY <2>6
  <2>8. \A c \in Conns : stage'[c] = "none" => loopOf'[c] = Main
    BY <2>1, <2>4
  <2> QED
    BY <2>1, <2>3, <2>7, <2>8 DEF RoundInv, DealtInv, Starting
<1>9. CASE BeginDestructor \/ DestroyAcceptor \/ ReadLoop \/ StopLoop \/ Join \/ DestroyRest
  <2>1. /\ pc \notin Starting /\ pc' \notin Starting /\ UNCHANGED <<poolVars, stage, loopOf>>
    BY <1>9 DEF BeginDestructor, DestroyAcceptor, ReadLoop, StopLoop, Join, DestroyRest, Starting
  <2> QED
    BY <1>1, <2>1
<1>10. ASSUME NEW c \in Conns, DestroyConnection(c) PROVE RoundInv'
  <2>1. Functor("destroy", c).conn = c
    BY DEF Functor
  <2>2. pc' \in {pc, "dangling"} /\ \A d \in Conns : stage'[d] = "none" => stage[d] = "none"
    BY <1>2, <1>4, <1>10, <2>1 DEF DestroyConnection, RunInLoop
  <2> QED
    BY <1>3, <1>10, <2>2 DEF DestroyConnection, Starting
<1>11. ASSUME NEW t \in Threads, ThreadStep(t) PROVE RoundInv'
  BY <1>1, <1>11
  DEF ThreadStep, ConstructLoop, Publish, Woken, ClearLoop, EndThread, Starting
<1>12. ASSUME NEW l \in Loops, LoopStep(l) PROVE RoundInv'
  <2>1. CASE TestStop(l) \/ Poll(l) \/ SwapFunctors(l) \/ FunctorsDone(l)
    BY <1>1, <2>1 DEF TestStop, Poll, SwapFunctors, FunctorsDone, Enter
  <2>2. CASE RunInOwnLoop(l)
    <3>1. UNCHANGED <<poolVars, loopOf, pc, current>>
      BY <2>2 DEF RunInOwnLoop, NextFunctor
    <3>2. \A d \in Conns : stage'[d] = "none" => stage[d] = "none"
      BY <1>4, <2>2 DEF RunInOwnLoop
    <3> QED
      BY <1>1, <3>1, <3>2
  <2> QED
    BY <1>12, <2>1, <2>2 DEF LoopStep
<1>13. CASE SpuriousWakeup
  BY <1>1, <1>13 DEF SpuriousWakeup, Starting
<1>14. CASE RunRemove
  <2>1. at[Main] = "functors" /\ UNCHANGED <<poolVars, current, loopOf, stage>>
    BY <1>14 DEF RunRemove, NextFunctor
  <2>2. pc' \in {pc, "dangling"}
    BY <1>2, <1>14 DEF RunRemove, Remove
  <2> QED
    BY <1>3, <1>5, <2>1, <2>2 DEF Running
<1>15. ASSUME NEW l \in Loops, NEW stopped \in {l, Main}, CallbackStops(l, stopped)
       PROVE  RoundInv'
  BY <1>1, <1>15 DEF CallbackStops
<1>16. ASSUME NEW c \in Conns, Accept(c) PROVE RoundInv'
  BY <1>16, AcceptDeals
<1>17. ASSUME NEW c \in Conns, NEW l \in Loops, Close(l, c) PROVE RoundInv'
  <2>1. UNCHANGED <<poolVars, current, loopOf>> /\ \A d \in Conns : stage'[d] = "none" => stage[d] = "none"
    BY <1>4, <1>17 DEF Close
  <2>2. CASE l = Main
    <3>1. pc' \in {pc, "dangling"} /\ at[Main] \in Running
      BY <1>2, <1>17, <2>2 DEF Close, Remove, Running
    <3> QED
      BY <1>3, <1>5, <2>1, <3>1
  <2>3. CASE l # Main
    <3>1. pc' = pc
      BY <1>17, <2>3 DEF Close
    <3> QED
      BY <1>1, <2>1, <3>1
  <2> QED
    BY <2>2, <2>3
<1>18. CASE UNCHANGED vars
  BY <1>1, <1>18 DEF vars
<1> QED
  BY <1>6, <1>7, <1>8, <1>9, <1>10, <1>11, <1>12, <1>13, <1>14, <1>15, <1>16, <1>17, <1>18
  DEF Next, MainStep

(***************************************************************************)
(* No loop of the pool gets more than one connection more than another.    *)
(***************************************************************************)
THEOREM DealtEvenly == Spec => []Balanced
<1>1. Init => RoundInv
  <2> SUFFICES ASSUME Init PROVE RoundInv
    OBVIOUS
  <2>1. handlers = <<>> /\ DOMAIN handlers = {} /\ Len(handlers) = 0 /\ current - 1 = 0
    BY EmptySeq DEF Init
  <2> QED
    BY <2>1 DEF Init, RoundInv, HandlersInv, DealtInv, Starting
<1>2. TypeInv /\ RoundInv => Balanced
  <2> SUFFICES ASSUME TypeInv, RoundInv, pc \notin Starting,
                      NEW t \in 1..numThreads, NEW u \in 1..numThreads
               PROVE  Given(t) <= Given(u) + 1
    BY DEF Balanced, Starting
  <2>1. PICK n \in Nat : \A v \in 1..numThreads :
            Given(v) = IF v <= next THEN n + 1 ELSE n
    BY DEF RoundInv, DealtInv
  <2>2. Given(t) \in {n, n + 1} /\ Given(u) \in {n, n + 1}
    BY <2>1
  <2> QED
    BY <2>2
<1> QED
  BY <1>1, <1>2, NextDeals, PointerInvariant, TypeInvariant, PTL DEF Spec

-----------------------------------------------------------------------------
(***************************************************************************)
(* The order of what a connection's loop has to do for it.                 *)
(***************************************************************************)

\* What each loop has still to run, in this order.
Queued(b, q) == [l \in Loops |-> b[l] \o q[l]]
Pending == Queued(batch, queue)

Gone == {t \in Threads : at[t] = "ended"}

Stages == {"none", "connecting", "open", "closed", "destroyed"}

\* Of the functors p that loop l has to run, with the connections at the stages
\* st in the loops lo: connectEstablished and connectDestroyed run in the loop of
\* the connection, and nothing about a connection is before its establish.
Ordered(l, s, st, lo) ==
    \A i \in 1..Len(s) :
        /\ st[s[i].conn] # "none"
        /\ s[i].kind # "remove" => lo[s[i].conn] = l
        /\ s[i].kind = "establish" =>
               /\ st[s[i].conn] = "connecting"
               /\ \A j \in 1..(i - 1) : s[j].conn # s[i].conn

Awaits(c, s) == \E i \in 1..Len(s) : s[i] = Functor("establish", c)

\* A connection that connects waits for its establish, or its loop is gone.
InOrder(p, st, lo, gone) ==
    /\ p \in [Loops -> Seq(Functors)] /\ st \in [Conns -> Stages] /\ lo \in [Conns -> Loops]
    /\ \A l \in Loops : Ordered(l, p[l], st, lo)
    /\ \A c \in Conns : st[c] = "connecting" =>
           lo[c] # Main /\ (lo[c] \in gone \/ Awaits(c, p[lo[c]]))

\* Only a loop in doPendingFunctors has a batch, and what the server knows of
\* was accepted.
OrderInv ==
    /\ \A l \in Loops : at[l] # "functors" => batch[l] = <<>>
    /\ \A c \in connMap \cup toDestroy : stage[c] # "none"
    /\ InOrder(Pending, stage, loopOf, Gone)

(***************************************************************************)
(* A functor is taken from the front of what is pending.                   *)
(***************************************************************************)
LEMMA TailOfConcat ==
    ASSUME NEW S, NEW s \in Seq(S), NEW t \in Seq(S), s # <<>>
    PROVE  s \o t # <<>> /\ Head(s \o t) = Head(s) /\ Tail(s \o t) = Tail(s) \o t
<1>1. Len(s) \in Nat \ {0} /\ Len(t) \in Nat /\ s \o t \in Seq(S) /\ Len(s \o t) = Len(s) + Len(t)
  BY EmptySeq, LenProperties, ConcatProperties
<1>2. \A i \in 1..(Len(s) + Len(t)) : (s \o t)[i] = IF i <= Len(s) THEN s[i] ELSE t[i - Len(s)]
  BY ConcatProperties
<1>3. s \o t # <<>>
  BY <1>1, EmptySeq
<1>4. Head(s \o t) = Head(s)
  <2>1. Head(s) = s[1] /\ Head(s \o t) = (s \o t)[1]
    BY <1>1, <1>3, HeadTailProperties
  <2> QED
    BY <1>1, <1>2, <2>1
<1>5. /\ Tail(s) \in Seq(S) /\ Len(Tail(s)) = Len(s) - 1
      /\ \A i \in 1..(Len(s) - 1) : Tail(s)[i] = s[i + 1]
  BY HeadTailProperties
<1>6. /\ Tail(s \o t) \in Seq(S) /\ Len(Tail(s \o t)) = Len(s) + Len(t) - 1
      /\ \A i \in 1..(Len(s) + Len(t) - 1) : Tail(s \o t)[i] = (s \o t)[i + 1]
  BY <1>1, <1>3, HeadTailProperties
<1>7. /\ Tail(s) \o t \in Seq(S) /\ Len(Tail(s) \o t) = Len(s) - 1 + Len(t)
      /\ \A i \in 1..(Len(s) - 1 + Len(t)) :
             (Tail(s) \o t)[i] = IF i <= Len(s) - 1 THEN Tail(s)[i] ELSE t[i - (Len(s) - 1)]
  BY <1>5, ConcatProperties
<1>8. \A i \in 1..Len(Tail(s \o t)) : Tail(s \o t)[i] = (Tail(s) \o t)[i]
  <2> SUFFICES ASSUME NEW i \in 1..Len(Tail(s \o t)) PROVE Tail(s \o t)[i] = (Tail(s) \o t)[i]
    OBVIOUS
  <2>1. /\ i \in 1..(Len(s) + Len(t) - 1) /\ i \in 1..(Len(s) - 1 + Len(t))
        /\ i + 1 \in 1..(Len(s) + Len(t))
    BY <1>1, <1>6
  <2>2. Tail(s \o t)[i] = IF i + 1 <= Len(s) THEN s[i + 1] ELSE t[i + 1 - Len(s)]
    BY <1>2, <1>6, <2>1
  <2>3. (Tail(s) \o t)[i] = IF i <= Len(s) - 1 THEN Tail(s)[i] ELSE t[i - (Len(s) - 1)]
    BY <1>7, <2>1
  <2>4. (i + 1 <= Len(s) <=> i <= Len(s) - 1) /\ i + 1 - Len(s) = i - (Len(s) - 1)
    BY <1>1, <2>1
  <2>5. i <= Len(s) - 1 => i \in 1..(Len(s) - 1)
    BY <1>1, <2>1
  <2> QED
    BY <1>5, <2>2, <2>3, <2>4, <2>5
<1>9. Len(Tail(s \o t)) = Len(Tail(s) \o t)
  BY <1>1, <1>6, <1>7
<1> QED
  BY <1>3, <1>4, <1>6, <1>7, <1>8, <1>9, SeqEqual

(***************************************************************************)
(* A functor that is no establish is put behind what is pending.           *)
(***************************************************************************)
LEMMA PutBehind ==
    ASSUME NEW p, NEW st, NEW lo, NEW gone, InOrder(p, st, lo, gone),
           NEW l \in Loops, NEW f \in Functors, f.kind # "establish",
           st[f.conn] # "none", f.kind # "remove" => lo[f.conn] = l
    PROVE  InOrder([p EXCEPT ![l] = Append(@, f)], st, lo, gone)
<1> DEFINE q == [p EXCEPT ![l] = Append(@, f)]
<1>1. p \in [Loops -> Seq(Functors)] /\ p[l] \in Seq(Functors)
  BY DEF InOrder
<1>2. /\ Append(p[l], f) \in Seq(Functors) /\ Len(Append(p[l], f)) = Len(p[l]) + 1
      /\ Len(p[l]) \in Nat /\ Append(p[l], f)[Len(p[l]) + 1] = f
      /\ \A i \in 1..Len(p[l]) : Append(p[l], f)[i] = p[l][i]
  BY <1>1, AppendProperties, LenProperties
<1>3. q[l] = Append(p[l], f) /\ \A m \in Loops : m # l => q[m] = p[m]
  BY <1>1
<1>4. q \in [Loops -> Seq(Functors)]
  BY <1>1, <1>2
<1> HIDE DEF q
<1>5. ASSUME NEW m \in Loops PROVE Ordered(m, q[m], st, lo)
  <2>1. CASE m = l
    <3>1. ASSUME NEW i \in 1..(Len(p[l]) + 1)
          PROVE  \/ /\ i \in 1..Len(p[l]) /\ q[l][i] = p[l][i]
                    /\ \A j \in 1..(i - 1) : q[l][j] = p[l][j]
                 \/ q[l][i] = f
      BY <1>2, <1>3
    <3>2. Ordered(l, p[l], st, lo)
      BY DEF InOrder
    <3>3. ASSUME NEW i \in 1..(Len(p[l]) + 1)
          PROVE  /\ st[q[l][i].conn] # "none"
                 /\ q[l][i].kind # "remove" => lo[q[l][i].conn] = l
                 /\ q[l][i].kind = "establish" =>
                        /\ st[q[l][i].conn] = "connecting"
                        /\ \A j \in 1..(i - 1) : q[l][j].conn # q[l][i].conn
      BY <3>1, <3>2 DEF Ordered
    <3> QED
      BY <1>2, <1>3, <2>1, <3>3 DEF Ordered
  <2>2. CASE m # l
    BY <1>3, <2>2 DEF InOrder
  <2> QED
    BY <2>1, <2>2
<1>6. ASSUME NEW c \in Conns, st[c] = "connecting"
      PROVE  lo[c] # Main /\ (lo[c] \in gone \/ Awaits(c, q[lo[c]]))
  <2>1. lo[c] \in Loops /\ lo[c] # Main /\ (lo[c] \in gone \/ Awaits(c, p[lo[c]]))
    BY <1>6 DEF InOrder
  <2>2. CASE lo[c] = l
    BY <1>2, <1>3, <2>1, <2>2 DEF Awaits
  <2>3. CASE lo[c] # l
    BY <1>3, <2>1, <2>3
  <2> QED
    BY <2>1, <2>2, <2>3
<1> QED
  BY <1>4, <1>5, <1>6 DEF InOrder, q

(***************************************************************************)
(* A connection that does not wait for its establish goes on to a later    *)
(* stage.                                                                  *)
(***************************************************************************)
LEMMA GoesOn ==
    ASSUME NEW p, NEW st, NEW lo, NEW gone, InOrder(p, st, lo, gone),
           NEW c \in Conns, st[c] # "connecting", NEW x \in {"open", "closed", "destroyed"}
    PROVE  InOrder(p, [st EXCEPT ![c] = x], lo, gone)
<1>1. st \in [Conns -> Stages] /\ x \in Stages
  BY DEF InOrder, Stages
<1>2. [st EXCEPT ![c] = x] \in [Conns -> Stages]
  BY <1>1
<1>3. \A d \in Conns : [st EXCEPT ![c] = x][d] = IF d = c THEN x ELSE st[d]
  BY <1>1
<1>4. ASSUME NEW l \in Loops PROVE Ordered(l, p[l], [st EXCEPT ![c] = x], lo)
  <2>1. ASSUME NEW i \in 1..Len(p[l]) PROVE p[l][i].conn \in Conns
    <3>1. p[l] \in Seq(Functors)
      BY DEF InOrder
    <3>2. p[l][i] \in Functors
      BY <3>1, ElementOfSeq
    <3> QED
      BY <3>2 DEF Functors
  <2>2. Ordered(l, p[l], st, lo)
    BY DEF InOrder
  <2> QED
    BY <1>3, <2>1, <2>2 DEF Ordered
<1> QED
  BY <1>2, <1>3, <1>4 DEF InOrder

(***************************************************************************)
(* A loop takes the first of its functors: the connection leaves           *)
(* connecting with it, or the functor only removes it from the map.        *)
(***************************************************************************)
LEMMA TakeFirst ==
    ASSUME NEW p, NEW st, NEW lo, NEW gone, InOrder(p, st, lo, gone),
           NEW l \in Loops, p[l] # <<>>, l \notin gone, NEW x,
           IF Head(p[l]).kind = "remove" THEN x = st[Head(p[l]).conn]
                                         ELSE x \in {"open", "destroyed"}
    PROVE  /\ Head(p[l]).kind = "destroy" => st[Head(p[l]).conn] # "connecting"
           /\ Head(p[l]).kind = "establish" => st[Head(p[l]).conn] = "connecting"
           /\ InOrder([p EXCEPT ![l] = Tail(@)], [st EXCEPT ![Head(p[l]).conn] = x], lo, gone)
<1> DEFINE c == Head(p[l]).conn
           q == [p EXCEPT ![l] = Tail(@)]
           sx == [st EXCEPT ![c] = x]
<1>1. /\ p \in [Loops -> Seq(Functors)] /\ p[l] \in Seq(Functors) /\ st \in [Conns -> Stages]
      /\ lo \in [Conns -> Loops]
  BY DEF InOrder
<1>2. /\ Len(p[l]) \in Nat \ {0} /\ Head(p[l]) = p[l][1] /\ p[l][1] \in Functors
      /\ Tail(p[l]) \in Seq(Functors) /\ Len(Tail(p[l])) = Len(p[l]) - 1
      /\ \A i \in 1..(Len(p[l]) - 1) : Tail(p[l])[i] = p[l][i + 1]
  BY <1>1, EmptySeq, LenProperties, HeadTailProperties
<1>3. /\ c \in Conns /\ c = p[l][1].conn
      /\ IF p[l][1].kind = "remove" THEN x = st[c] ELSE x \in {"open", "destroyed"}
  BY <1>2 DEF Functors
<1>4. q[l] = Tail(p[l]) /\ \A m \in Loops : m # l => q[m] = p[m]
  BY <1>1
<1>5. \A d \in Conns : sx[d] = IF d = c THEN x ELSE st[d]
  BY <1>1
<1>6. q \in [Loops -> Seq(Functors)] /\ sx \in [Conns -> Stages]
  <2>1. x \in Stages
    BY <1>1, <1>3 DEF Stages
  <2> QED
    BY <1>1, <1>2, <1>3, <2>1
<1>7. /\ st[c] # "none"
      /\ p[l][1].kind # "remove" => lo[c] = l
      /\ p[l][1].kind = "establish" => st[c] = "connecting"
  <2>1. Ordered(l, p[l], st, lo)
    BY DEF InOrder
  <2> QED
    BY <1>2, <1>3, <2>1 DEF Ordered
<1> HIDE DEF c, q, sx
<1>8. ASSUME st[c] = "connecting", p[l][1].kind # "remove" PROVE p[l][1].kind = "establish"
  <2>1. PICK i \in 1..Len(p[l]) : p[l][i] = Functor("establish", c)
    BY <1>3, <1>7, <1>8 DEF InOrder, Awaits
  <2>2. p[l][i].kind = "establish" /\ p[l][i].conn = c
    BY <2>1 DEF Functor
  <2>3. Ordered(l, p[l], st, lo)
    BY DEF InOrder
  <2>4. \A j \in 1..(i - 1) : p[l][j].conn # c
    BY <2>2, <2>3 DEF Ordered
  <2>5. i = 1
    BY <1>2, <1>3, <2>1, <2>4
  <2> QED
    BY <2>2, <2>5
<1>9. ASSUME NEW m \in Loops PROVE Ordered(m, q[m], sx, lo)
  <2>1. ASSUME NEW i \in 1..Len(p[m]) PROVE p[m][i].conn \in Conns
    <3>1. p[m] \in Seq(Functors)
      BY <1>1
    <3>2. p[m][i] \in Functors
      BY <3>1, ElementOfSeq
    <3> QED
      BY <3>2 DEF Functors
  <2>2. Ordered(m, p[m], st, lo)
    BY DEF InOrder
  <2>3. CASE m = l
    <3> SUFFICES ASSUME NEW i \in 1..(Len(p[l]) - 1)
                 PROVE  /\ sx[q[l][i].conn] # "none"
                        /\ q[l][i].kind # "remove" => lo[q[l][i].conn] = l
                        /\ q[l][i].kind = "establish" =>
                               /\ sx[q[l][i].conn] = "connecting"
                               /\ \A j \in 1..(i - 1) : q[l][j].conn # q[l][i].conn
      BY <1>2, <1>4, <2>3 DEF Ordered
    <3>1. i + 1 \in 1..Len(p[l]) /\ 1 \in 1..i /\ q[l][i] = p[l][i + 1] /\ i + 1 - 1 = i
      BY <1>2, <1>4
    <3>2. \A j \in 1..(i - 1) : q[l][j] = p[l][j + 1] /\ j + 1 \in 1..i
      BY <1>2, <1>4
    <3>3. /\ st[p[l][i + 1].conn] # "none"
          /\ p[l][i + 1].kind # "remove" => lo[p[l][i + 1].conn] = l
          /\ p[l][i + 1].kind = "establish" =>
                 /\ st[p[l][i + 1].conn] = "connecting"
                 /\ \A j \in 1..i : p[l][j].conn # p[l][i + 1].conn
      BY <2>2, <2>3, <3>1 DEF Ordered
    <3>4. p[l][i + 1].conn \in Conns
      BY <2>1, <2>3, <3>1
    <3>5. x # "none"
      BY <1>3, <1>7
    <3>6. /\ sx[q[l][i].conn] # "none"
          /\ q[l][i].kind # "remove" => lo[q[l][i].conn] = l
      BY <1>5, <3>1, <3>3, <3>4, <3>5
    <3>7. ASSUME q[l][i].kind = "establish"
          PROVE  /\ sx[q[l][i].conn] = "connecting"
                 /\ \A j \in 1..(i - 1) : q[l][j].conn # q[l][i].conn
      <4>1. \A j \in 1..i : p[l][j].conn # p[l][i + 1].conn
        BY <3>1, <3>3, <3>7
      <4>2. p[l][i + 1].conn # c /\ st[p[l][i + 1].conn] = "connecting"
        BY <1>3, <3>1, <3>3, <3>7, <4>1
      <4> QED
        BY <1>5, <3>1, <3>2, <3>4, <4>1, <4>2
    <3> QED
      BY <3>6, <3>7
  <2>4. CASE m # l
    <3>1. x # "none" /\ (x # st[c] => lo[c] # m)
      BY <1>3, <1>7, <2>4
    <3>2. ASSUME NEW i \in 1..Len(p[m])
          PROVE  /\ sx[p[m][i].conn] # "none"
                 /\ p[m][i].kind = "establish" => sx[p[m][i].conn] = "connecting"
      <4>1. /\ st[p[m][i].conn] # "none"
            /\ p[m][i].kind # "remove" => lo[p[m][i].conn] = m
            /\ p[m][i].kind = "establish" => st[p[m][i].conn] = "connecting"
        BY <2>2 DEF Ordered
      <4>2. CASE p[m][i].conn = c
        BY <1>3, <1>5, <3>1, <4>1, <4>2
      <4>3. CASE p[m][i].conn # c
        BY <1>5, <2>1, <4>1, <4>3
      <4> QED
        BY <4>2, <4>3
    <3> QED
      BY <1>4, <2>2, <2>4, <3>2 DEF Ordered
  <2> QED
    BY <2>3, <2>4
<1>10. ASSUME NEW d \in Conns, sx[d] = "connecting"
       PROVE  lo[d] # Main /\ (lo[d] \in gone \/ Awaits(d, q[lo[d]]))
  <2>1. st[d] = "connecting" /\ (d # c \/ p[l][1].kind = "remove")
    BY <1>3, <1>5, <1>10
  <2>2. lo[d] \in Loops /\ lo[d] # Main /\ (lo[d] \in gone \/ Awaits(d, p[lo[d]]))
    BY <2>1 DEF InOrder
  <2>3. CASE lo[d] = l /\ Awaits(d, p[l])
    <3>1. PICK i \in 1..Len(p[l]) : p[l][i] = Functor("establish", d)
      BY <2>3 DEF Awaits
    <3>2. i # 1
      BY <1>3, <2>1, <3>1 DEF Functor
    <3>3. i - 1 \in 1..(Len(p[l]) - 1) /\ i - 1 + 1 = i
      BY <1>2, <3>2
    <3>4. q[l][i - 1] = Functor("establish", d) /\ i - 1 \in 1..Len(q[l])
      BY <1>2, <1>4, <3>1, <3>3
    <3>5. Awaits(d, q[l])
      BY <3>4 DEF Awaits
    <3> QED
      BY <2>2, <2>3, <3>5
  <2>4. CASE lo[d] # l
    BY <1>4, <2>2, <2>4
  <2> QED
    BY <2>2, <2>3, <2>4
<1> QED
  BY <1>1, <1>2, <1>6, <1>7, <1>8, <1>9, <1>10 DEF InOrder, c, q, sx

(***************************************************************************)
(* Nothing about a connection that was not accepted is pending.            *)
(***************************************************************************)
LEMMA NothingPending ==
    ASSUME NEW p, NEW st, NEW lo, NEW gone, InOrder(p, st, lo, gone),
           NEW c \in Conns, st[c] = "none", NEW l \in Loops, NEW i \in 1..Len(p[l])
    PROVE  p[l][i].conn # c /\ p[l][i].conn \in Conns
<1>1. p[l] \in Seq(Functors) /\ Ordered(l, p[l], st, lo)
  BY DEF InOrder
<1>2. p[l][i] \in Functors
  BY <1>1, ElementOfSeq
<1> QED
  BY <1>1, <1>2 DEF Ordered, Functors

(***************************************************************************)
(* A connection is given a loop.                                           *)
(***************************************************************************)
LEMMA GivenLoop ==
    ASSUME NEW p, NEW st, NEW lo, NEW gone, InOrder(p, st, lo, gone),
           NEW c \in Conns, st[c] = "none", NEW l \in Loops, NEW x \in {"open", "connecting"},
           x = "connecting" => l # Main /\ l \in gone
    PROVE  InOrder(p, [st EXCEPT ![c] = x], [lo EXCEPT ![c] = l], gone)
<1>1. /\ st \in [Conns -> Stages] /\ lo \in [Conns -> Loops] /\ x \in Stages
      /\ p \in [Loops -> Seq(Functors)]
  BY DEF InOrder, Stages
<1> DEFINE sx == [st EXCEPT ![c] = x]
           lx == [lo EXCEPT ![c] = l]
<1>2. sx \in [Conns -> Stages] /\ lx \in [Conns -> Loops]
  BY <1>1
<1>3. /\ sx[c] = x /\ lx[c] = l
      /\ \A d \in Conns : d # c => sx[d] = st[d] /\ lx[d] = lo[d]
  BY <1>1
<1> HIDE DEF sx, lx
<1>4. ASSUME NEW m \in Loops PROVE Ordered(m, p[m], sx, lx)
  <2>1. Ordered(m, p[m], st, lo)
    BY DEF InOrder
  <2>2. \A i \in 1..Len(p[m]) : p[m][i].conn # c /\ p[m][i].conn \in Conns
    BY NothingPending
  <2>3. \A i \in 1..Len(p[m]) : sx[p[m][i].conn] = st[p[m][i].conn] /\ lx[p[m][i].conn] = lo[p[m][i].conn]
    BY <1>3, <2>2
  <2> QED
    BY <2>1, <2>3 DEF Ordered
<1>5. ASSUME NEW d \in Conns, sx[d] = "connecting"
      PROVE  lx[d] # Main /\ (lx[d] \in gone \/ Awaits(d, p[lx[d]]))
  <2>1. CASE d = c
    BY <1>3, <1>5, <2>1
  <2>2. CASE d # c
    BY <1>3, <1>5, <2>2 DEF InOrder
  <2> QED
    BY <2>1, <2>2
<1> QED
  BY <1>1, <1>2, <1>4, <1>5 DEF InOrder, sx, lx

(***************************************************************************)
(* A connection is given a loop that has to establish it.                  *)
(***************************************************************************)
LEMMA GivenToPool ==
    ASSUME NEW p, NEW st, NEW lo, NEW gone, InOrder(p, st, lo, gone),
           NEW c \in Conns, st[c] = "none", NEW l \in Loops, l # Main
    PROVE  InOrder([p EXCEPT ![l] = Append(@, Functor("establish", c))],
                   [st EXCEPT ![c] = "connecting"], [lo EXCEPT ![c] = l], gone)
<1> DEFINE f == Functor("establish", c)
           q == [p EXCEPT ![l] = Append(@, f)]
           sx == [st EXCEPT ![c] = "connecting"]
           lx == [lo EXCEPT ![c] = l]
<1>1. /\ st \in [Conns -> Stages] /\ lo \in [Conns -> Loops] /\ "connecting" \in Stages
      /\ p \in [Loops -> Seq(Functors)] /\ p[l] \in Seq(Functors)
      /\ f \in Functors /\ f.conn = c /\ f.kind = "establish"
  BY DEF InOrder, Stages, Functors, Functor
<1>2. sx \in [Conns -> Stages] /\ lx \in [Conns -> Loops]
  BY <1>1
<1>3. /\ sx[c] = "connecting" /\ lx[c] = l
      /\ \A d \in Conns : d # c => sx[d] = st[d] /\ lx[d] = lo[d]
  BY <1>1
<1> HIDE DEF f
<1>4. /\ Append(p[l], f) \in Seq(Functors) /\ Len(Append(p[l], f)) = Len(p[l]) + 1
      /\ Len(p[l]) \in Nat /\ Append(p[l], f)[Len(p[l]) + 1] = f
      /\ \A i \in 1..Len(p[l]) : Append(p[l], f)[i] = p[l][i]
  BY <1>1, AppendProperties, LenProperties
<1>5. /\ q[l] = Append(p[l], f) /\ \A m \in Loops : m # l => q[m] = p[m]
      /\ q \in [Loops -> Seq(Functors)]
  BY <1>1, <1>4
<1> HIDE DEF q, sx, lx
<1>6. ASSUME NEW m \in Loops PROVE Ordered(m, p[m], sx, lx)
  <2>1. Ordered(m, p[m], st, lo)
    BY DEF InOrder
  <2>2. \A i \in 1..Len(p[m]) : p[m][i].conn # c /\ p[m][i].conn \in Conns
    BY NothingPending
  <2>3. \A i \in 1..Len(p[m]) : sx[p[m][i].conn] = st[p[m][i].conn] /\ lx[p[m][i].conn] = lo[p[m][i].conn]
    BY <1>3, <2>2
  <2> QED
    BY <2>1, <2>3 DEF Ordered
<1>7. ASSUME NEW m \in Loops PROVE Ordered(m, q[m], sx, lx)
  <2>1. CASE m = l
    <3>1. ASSUME NEW i \in 1..(Len(p[l]) + 1)
          PROVE  \/ /\ i \in 1..Len(p[l]) /\ q[l][i] = p[l][i]
                    /\ \A j \in 1..(i - 1) : q[l][j] = p[l][j]
                 \/ /\ q[l][i] = f
                    /\ \A j \in 1..(i - 1) : j \in 1..Len(p[l]) /\ q[l][j] = p[l][j]
      BY <1>4, <1>5
    <3>2. Ordered(l, p[l], sx, lx) /\ \A i \in 1..Len(p[l]) : p[l][i].conn # c
      BY <1>6, NothingPending
    <3>3. ASSUME NEW i \in 1..(Len(p[l]) + 1)
          PROVE  /\ sx[q[l][i].conn] # "none"
                 /\ q[l][i].kind # "remove" => lx[q[l][i].conn] = l
                 /\ q[l][i].kind = "establish" =>
                        /\ sx[q[l][i].conn] = "connecting"
                        /\ \A j \in 1..(i - 1) : q[l][j].conn # q[l][i].conn
      <4>1. CASE i \in 1..Len(p[l]) /\ q[l][i] = p[l][i] /\ \A j \in 1..(i - 1) : q[l][j] = p[l][j]
        BY <3>2, <4>1 DEF Ordered
      <4>2. CASE /\ q[l][i] = f
                 /\ \A j \in 1..(i - 1) : j \in 1..Len(p[l]) /\ q[l][j] = p[l][j]
        <5>1. q[l][i].conn = c
          BY <1>1, <4>2
        <5>2. \A j \in 1..(i - 1) : q[l][j].conn # c
          BY <3>2, <4>2
        <5> QED
          BY <1>1, <1>3, <5>1, <5>2
      <4> QED
        BY <3>1, <4>1, <4>2
    <3> QED
      BY <1>4, <1>5, <2>1, <3>3 DEF Ordered
  <2>2. CASE m # l
    BY <1>5, <1>6, <2>2
  <2> QED
    BY <2>1, <2>2
<1>8. ASSUME NEW d \in Conns, sx[d] = "connecting"
      PROVE  lx[d] # Main /\ (lx[d] \in gone \/ Awaits(d, q[lx[d]]))
  <2>1. CASE d = c
    <3>1. q[l][Len(p[l]) + 1] = Functor("establish", d) /\ Len(p[l]) + 1 \in 1..Len(q[l])
      BY <1>4, <1>5, <2>1 DEF f
    <3> QED
      BY <1>3, <2>1, <3>1 DEF Awaits
  <2>2. CASE d # c
    <3>1. /\ lx[d] = lo[d] /\ lo[d] \in Loops /\ lo[d] # Main
          /\ lo[d] \in gone \/ Awaits(d, p[lo[d]])
      BY <1>3, <1>8, <2>2 DEF InOrder
    <3>2. CASE lo[d] = l
      BY <1>4, <1>5, <3>1, <3>2 DEF Awaits
    <3>3. CASE lo[d] # l
      BY <1>5, <3>1, <3>3
    <3> QED
      BY <3>2, <3>3
  <2> QED
    BY <2>1, <2>2
<1> QED
  BY <1>2, <1>5, <1>7, <1>8 DEF InOrder, f, q, sx, lx

(***************************************************************************)
(* A loop that is gone, and the main loop at the end, drop their functors. *)
(***************************************************************************)
LEMMA Dropped ==
    ASSUME NEW p, NEW st, NEW lo, NEW gone, InOrder(p, st, lo, gone),
           NEW more, NEW l \in Loops, l = Main \/ l \in gone \cup more
    PROVE  InOrder([p EXCEPT ![l] = <<>>], st, lo, gone \cup more)
<1>1. p \in [Loops -> Seq(Functors)] /\ <<>> \in Seq(Functors) /\ Len(<<>>) = 0
  BY EmptySeq DEF InOrder
<1> DEFINE q == [p EXCEPT ![l] = <<>>]
<1>2. /\ q \in [Loops -> Seq(Functors)] /\ q[l] = <<>>
      /\ \A m \in Loops : m # l => q[m] = p[m]
  BY <1>1
<1> HIDE DEF q
<1>3. ASSUME NEW m \in Loops PROVE Ordered(m, q[m], st, lo)
  <2>1. CASE m = l
    <3>1. 1..Len(q[m]) = {}
      BY <1>1, <1>2, <2>1
    <3> QED
      BY <3>1 DEF Ordered
  <2>2. CASE m # l
    BY <1>2, <2>2 DEF InOrder
  <2> QED
    BY <2>1, <2>2
<1>4. ASSUME NEW c \in Conns, st[c] = "connecting"
      PROVE  lo[c] # Main /\ (lo[c] \in gone \cup more \/ Awaits(c, q[lo[c]]))
  <2>1. lo[c] \in Loops /\ lo[c] # Main /\ (lo[c] \in gone \/ Awaits(c, p[lo[c]]))
    BY <1>4 DEF InOrder
  <2> QED
    BY <1>2, <2>1
<1> QED
  BY <1>2, <1>3, <1>4 DEF InOrder, q

(***************************************************************************)
(* What is put behind the second part is put behind the whole.             *)
(***************************************************************************)
LEMMA AppendToConcat ==
    ASSUME NEW S, NEW s \in Seq(S), NEW t \in Seq(S), NEW e \in S
    PROVE  s \o Append(t, e) = Append(s \o t, e)
<1>1. /\ <<e>> \in Seq(S) /\ s \o t \in Seq(S)
      /\ Append(t, e) = t \o <<e>>
  BY ConcatProperties, AppendIsConcat
<1>2. Append(s \o t, e) = (s \o t) \o <<e>>
  BY <1>1, AppendIsConcat
<1> QED
  BY <1>1, <1>2, ConcatAssociative

(***************************************************************************)
(* What is put into the queue of a loop is the last the loop will run.     *)
(***************************************************************************)
LEMMA PushedLast ==
    ASSUME TypeInv, NEW b \in [Loops -> Seq(Functors)], NEW l \in Loops, NEW f \in Functors,
           Push(l, f), NEW p, p = Queued(b, queue)
    PROVE  Queued(b, queue') = [p EXCEPT ![l] = Append(@, f)]
<1>1. /\ queue \in [Loops -> Seq(Functors)]
      /\ queue' = [queue EXCEPT ![l] = Append(@, f)]
  BY DEF TypeInv, TypeOK, Push
<1>2. queue'[l] = Append(queue[l], f) /\ \A m \in Loops : m # l => queue'[m] = queue[m]
  BY <1>1
<1>3. b[l] \o queue'[l] = Append(b[l] \o queue[l], f)
  <2>1. b[l] \in Seq(Functors) /\ queue[l] \in Seq(Functors)
    BY <1>1
  <2> QED
    BY <1>2, <2>1, AppendToConcat
<1> QED
  BY <1>2, <1>3 DEF Queued

(***************************************************************************)
(* A functor that is no establish goes to its loop, if that is there.      *)
(***************************************************************************)
LEMMA ReachKeepsOrder ==
    ASSUME TypeInv, NEW b \in [Loops -> Seq(Functors)], NEW st, NEW lo, NEW gone,
           InOrder(Queued(b, queue), st, lo, gone),
           NEW l \in Loops, NEW f \in Functors, f.kind # "establish",
           st[f.conn] # "none", f.kind # "remove" => lo[f.conn] = l,
           Reach(l, f) \/ Push(l, f)
    PROVE  InOrder(Queued(b, queue'), st, lo, gone)
<1>1. PICK p : p = Queued(b, queue)
  OBVIOUS
<1>2. CASE queue' = queue
  BY <1>2
<1>3. CASE Push(l, f)
  <2>1. Queued(b, queue') = [p EXCEPT ![l] = Append(@, f)]
    BY <1>1, <1>3, PushedLast
  <2>2. InOrder([p EXCEPT ![l] = Append(@, f)], st, lo, gone)
    BY <1>1, PutBehind
  <2> QED
    BY <2>1, <2>2
<1> QED
  BY <1>2, <1>3 DEF Reach

(***************************************************************************)
(* doPendingFunctors takes a functor from its batch and runs it.           *)
(***************************************************************************)
LEMMA TakeKeepsOrder ==
    ASSUME TypeInv, OrderInv, NEW l \in Loops,
           NEW kind \in {"establish", "remove", "destroy"}, NextFunctor(l, kind), NEW x,
           IF kind = "remove" THEN x = stage[Head(batch[l]).conn]
                              ELSE x \in {"open", "destroyed"}
    PROVE  /\ kind = "destroy" => stage[Head(batch[l]).conn] # "connecting"
           /\ kind = "establish" => stage[Head(batch[l]).conn] = "connecting"
           /\ stage[Head(batch[l]).conn] # "none"
           /\ Head(batch[l]).conn \in Conns
           /\ InOrder(Queued(batch', queue), [stage EXCEPT ![Head(batch[l]).conn] = x],
                      loopOf, Gone)
<1>1. /\ batch \in [Loops -> Seq(Functors)] /\ queue \in [Loops -> Seq(Functors)]
      /\ at[l] = "functors" /\ batch[l] # <<>> /\ Head(batch[l]).kind = kind
      /\ batch' = [batch EXCEPT ![l] = Tail(@)]
  BY DEF TypeInv, TypeOK, NextFunctor
<1>2. batch'[l] = Tail(batch[l]) /\ \A m \in Loops : m # l => batch'[m] = batch[m]
  BY <1>1
<1>3. PICK p : p = Pending
  OBVIOUS
<1>4. p[l] = batch[l] \o queue[l]
  BY <1>3 DEF Pending, Queued
<1>5. /\ p[l] # <<>> /\ Head(p[l]) = Head(batch[l])
      /\ Tail(p[l]) = Tail(batch[l]) \o queue[l]
  <2>1. batch[l] \in Seq(Functors) /\ queue[l] \in Seq(Functors)
    BY <1>1
  <2> QED
    BY <1>1, <1>4, <2>1, TailOfConcat
<1>6. Queued(batch', queue) = [p EXCEPT ![l] = Tail(@)]
  BY <1>2, <1>3, <1>5 DEF Pending, Queued
<1>7. InOrder(p, stage, loopOf, Gone) /\ l \notin Gone
  BY <1>1, <1>3 DEF OrderInv, Gone
<1>8. /\ kind = "destroy" => stage[Head(p[l]).conn] # "connecting"
      /\ kind = "establish" => stage[Head(p[l]).conn] = "connecting"
      /\ InOrder([p EXCEPT ![l] = Tail(@)], [stage EXCEPT ![Head(p[l]).conn] = x], loopOf, Gone)
  BY <1>1, <1>5, <1>7, TakeFirst
<1>9. Head(p[l]).conn \in Conns /\ stage[Head(p[l]).conn] # "none"
  <2>1. p[l] \in Seq(Functors) /\ Ordered(l, p[l], stage, loopOf)
    BY <1>7 DEF InOrder
  <2>2. Head(p[l]) = p[l][1] /\ 1 \in 1..Len(p[l]) /\ Head(p[l]) \in Functors
    BY <1>5, <2>1, EmptySeq, HeadTailProperties
  <2> QED
    BY <2>1, <2>2 DEF Ordered, Functors
<1> QED
  BY <1>5, <1>6, <1>8, <1>9

\* What DestroyedLast says of a step.
DestroyedStays ==
    \A c \in Conns :
        /\ stage[c] = "destroyed" => stage'[c] = "destroyed"
        /\ stage'[c] = "destroyed" => stage[c] # "connecting"

(***************************************************************************)
(* newConnection keeps the order.                                          *)
(***************************************************************************)
LEMMA AcceptKeepsOrder ==
    ASSUME TypeInv, PointerInv, OrderInv, NEW c \in Conns, Accept(c)
    PROVE  InOrder(Queued(batch', queue'), stage', loopOf', Gone)
<1>1. /\ batch \in [Loops -> Seq(Functors)] /\ at[Main] = "dispatch" /\ stage[c] = "none"
      /\ batch' = batch /\ loopOf' = [loopOf EXCEPT ![c] = Chosen]
      /\ stage' = [stage EXCEPT ![c] = IF Chosen = Main THEN "open" ELSE "connecting"]
  BY DEF Accept, TypeInv, TypeOK
<1>2. Chosen \in Loops /\ (Chosen # Main => at[Chosen] \notin {"none", "created"})
  <2>1. Chosen \in Loops /\ (handlers # <<>> => \E i \in DOMAIN handlers : Chosen = handlers[i])
    BY RoundRobin DEF TypeInv
  <2>2. handlers = <<>> => Chosen = Main
    BY DEF Chosen
  <2>3. \A i \in DOMAIN handlers : at[handlers[i]] \notin {"none", "created"}
    BY DEF PointerInv, KeptInv
  <2> QED
    BY <2>1, <2>2, <2>3
<1>3. PICK p : p = Queued(batch, queue)
  OBVIOUS
<1>4. InOrder(p, stage, loopOf, Gone)
  BY <1>3 DEF OrderInv, Pending
<1>5. CASE Chosen = Main
  <2>1. queue' = queue
    BY <1>5 DEF Accept
  <2>2. InOrder(p, [stage EXCEPT ![c] = "open"], [loopOf EXCEPT ![c] = Main], Gone)
    BY <1>1, <1>2, <1>4, <1>5, GivenLoop
  <2> QED
    BY <1>1, <1>3, <1>5, <2>1, <2>2
<1>6. CASE Chosen # Main
  <2>1. Reach(Chosen, Functor("establish", c)) /\ Functor("establish", c) \in Functors
    BY <1>6 DEF Accept, Functor, Functors
  <2>2. CASE Missing(Chosen)
    <3>1. Chosen \in Gone /\ queue' = queue
      BY <1>2, <1>6, <2>1, <2>2 DEF Missing, Reach, Gone, Loops
    <3>2. InOrder(p, [stage EXCEPT ![c] = "connecting"], [loopOf EXCEPT ![c] = Chosen], Gone)
      BY <1>1, <1>2, <1>4, <1>6, <3>1, GivenLoop
    <3> QED
      BY <1>1, <1>3, <1>6, <3>1, <3>2
  <2>3. CASE ~Missing(Chosen)
    <3>1. Push(Chosen, Functor("establish", c))
      BY <2>1, <2>3 DEF Reach
    <3>2. Queued(batch, queue') = [p EXCEPT ![Chosen] = Append(@, Functor("establish", c))]
      BY <1>1, <1>2, <1>3, <2>1, <3>1, PushedLast
    <3>3. InOrder([p EXCEPT ![Chosen] = Append(@, Functor("establish", c))],
                  [stage EXCEPT ![c] = "connecting"], [loopOf EXCEPT ![c] = Chosen], Gone)
      BY <1>1, <1>2, <1>4, <1>6, GivenToPool
    <3> QED
      BY <1>1, <1>6, <3>2, <3>3
  <2> QED
    BY <2>2, <2>3
<1> QED
  BY <1>5, <1>6

(***************************************************************************)
(* Every step keeps the order, and by it connectDestroyed comes last.      *)
(***************************************************************************)
LEMMA NextKeepsOrder ==
    ASSUME TypeInv, PointerInv, OrderInv, [Next]_vars
    PROVE  OrderInv' /\ DestroyedStays
<1> USE DEF poolVars, threadVars, connVars, functorVars, mainVars, mainData
<1>1. /\ batch \in [Loops -> Seq(Functors)] /\ queue \in [Loops -> Seq(Functors)]
      /\ stage \in [Conns -> Stages] /\ loopOf \in [Conns -> Loops] /\ at \in [Loops -> Points]
      /\ Main \in Loops /\ Threads \subseteq Loops /\ Main \notin Threads
      /\ toDestroy \subseteq Conns /\ connMap \subseteq Conns
  BY DEF TypeInv, TypeOK, Stages, Loops, Threads, Main
<1>2. /\ \A l \in Loops : at[l] # "functors" => batch[l] = <<>>
      /\ \A c \in connMap \cup toDestroy : stage[c] # "none"
      /\ InOrder(Queued(batch, queue), stage, loopOf, Gone)
  BY DEF OrderInv, Pending
<1>3. ASSUME UNCHANGED <<stage, loopOf, queue, batch>>,
             connMap' \cup toDestroy' \subseteq connMap \cup toDestroy,
             \A l \in Loops : at'[l] # "functors" => at[l] # "functors" \/ batch[l] = <<>>,
             \A t \in Threads : at[t] = "ended" <=> at'[t] = "ended"
      PROVE  OrderInv' /\ DestroyedStays
  <2>1. Gone' = Gone
    BY <1>3 DEF Gone
  <2>2. InOrder(Queued(batch', queue'), stage', loopOf', Gone')
    BY <1>2, <1>3, <2>1
  <2>3. \A c \in connMap' \cup toDestroy' : stage'[c] # "none"
    BY <1>2, <1>3
  <2>4. \A l \in Loops : at'[l] # "functors" => batch'[l] = <<>>
    BY <1>2, <1>3
  <2>5. DestroyedStays
    BY <1>3 DEF DestroyedStays
  <2> QED
    BY <2>2, <2>3, <2>4, <2>5 DEF OrderInv, Pending
<1>4. ASSUME NEW l \in Loops, NEW point \in Points, at[l] \notin {"functors", "ended"},
             point # "ended", at' = [at EXCEPT ![l] = point],
             UNCHANGED <<connVars, functorVars, toDestroy>>
      PROVE  OrderInv' /\ DestroyedStays
  <2>1. \A m \in Loops : at'[m] = IF m = l THEN point ELSE at[m]
    BY <1>1, <1>4
  <2> QED
    BY <1>1, <1>3, <1>4, <2>1
<1>5. ASSUME UNCHANGED <<at, connVars, functorVars, toDestroy>>
      PROVE  OrderInv' /\ DestroyedStays
  BY <1>3, <1>5
<1>6. ASSUME UNCHANGED at, \A l \in Loops : at[l] # "functors" => batch'[l] = <<>>,
             \A c \in connMap' \cup toDestroy' : stage'[c] # "none",
             InOrder(Queued(batch', queue'), stage', loopOf', Gone)
      PROVE  OrderInv'
  <2>1. Gone' = Gone
    BY <1>6 DEF Gone
  <2> QED
    BY <1>6, <2>1 DEF OrderInv, Pending
<1>7. pc \in {"start", "pool"} => at[Main] # "functors"
  BY DEF PointerInv, KeptInv, Running
<1>8. CASE StartThread
  <2>1. current \in Threads /\ at[current] = "none"
    BY <1>8, MaxThreadsAssumption
    DEF StartThread, TypeInv, TypeOK, PointerInv, KeptInv, Later, Threads
  <2> QED
    BY <1>1, <1>4, <1>8, <2>1 DEF StartThread, Points
<1>9. CASE Listen
  <2>1. \A l \in Loops : at'[l] = IF l = Main THEN "test" ELSE at[l]
    BY <1>1, <1>9 DEF Listen
  <2> QED
    BY <1>1, <1>3, <1>7, <1>9, <2>1 DEF Listen
<1>10. CASE CheckLoop \/ DestroyAcceptor \/ ReadLoop \/ StopLoop \/ Join \/ SpuriousWakeup
  BY <1>5, <1>10 DEF CheckLoop, DestroyAcceptor, ReadLoop, StopLoop, Join, SpuriousWakeup
<1>11. CASE BeginDestructor
  BY <1>3, <1>11 DEF BeginDestructor
<1>12. CASE DestroyRest
  <2>1. /\ batch[Main] = <<>> /\ batch' = batch /\ queue' = [queue EXCEPT ![Main] = <<>>]
        /\ at' = [at EXCEPT ![Main] = "ended"] /\ connMap' = {}
        /\ UNCHANGED <<stage, loopOf, toDestroy>>
    BY <1>1, <1>2, <1>7, <1>12 DEF DestroyRest
  <2>2. Gone' = Gone \cup {}
    BY <1>1, <2>1 DEF Gone
  <2>3. PICK p : p = Queued(batch, queue)
    OBVIOUS
  <2>4. Queued(batch', queue') = [p EXCEPT ![Main] = <<>>]
    <3>1. /\ queue'[Main] = <<>> /\ \A m \in Loops : m # Main => queue'[m] = queue[m]
          /\ <<>> \o <<>> = <<>>
      BY <1>1, <2>1
    <3>2. p = [m \in Loops |-> batch[m] \o queue[m]]
      BY <2>3 DEF Queued
    <3>3. ASSUME NEW m \in Loops
          PROVE  batch'[m] \o queue'[m] = IF m = Main THEN <<>> ELSE p[m]
      <4>1. CASE m = Main
        <5>1. batch'[m] = <<>> /\ queue'[m] = <<>>
          BY <2>1, <3>1, <4>1
        <5> QED
          BY <3>1, <4>1, <5>1
      <4>2. CASE m # Main
        <5>1. batch'[m] = batch[m] /\ queue'[m] = queue[m] /\ p[m] = batch[m] \o queue[m]
          BY <2>1, <3>1, <3>2, <4>2
        <5> QED
          BY <4>2, <5>1
      <4> QED
        BY <4>1, <4>2
    <3>4. Queued(batch', queue') = [m \in Loops |-> IF m = Main THEN <<>> ELSE p[m]]
      BY <3>3 DEF Queued
    <3> QED
      BY <3>2, <3>4
  <2>5. InOrder([p EXCEPT ![Main] = <<>>], stage, loopOf, Gone \cup {})
    BY <1>1, <1>2, <2>3, Dropped
  <2>6. \A l \in Loops : at'[l] # "functors" => batch'[l] = <<>>
    BY <1>1, <1>2, <2>1
  <2> QED
    BY <1>2, <2>1, <2>2, <2>4, <2>5, <2>6 DEF OrderInv, Pending, DestroyedStays
<1>13. ASSUME NEW c \in Conns, DestroyConnection(c) PROVE OrderInv' /\ DestroyedStays
  <2>1. /\ c \in toDestroy /\ toDestroy' = toDestroy \ {c} /\ stage[c] # "none"
        /\ RunInLoop(loopOf[c], Functor("destroy", c)) /\ UNCHANGED <<at, loopOf, connMap, batch>>
        /\ Functor("destroy", c) \in Functors /\ Functor("destroy", c).conn = c
        /\ Functor("destroy", c).kind = "destroy"
    BY <1>2, <1>13 DEF DestroyConnection, Functor, Functors
  <2>2. CASE loopOf[c] = Main /\ stage' = [stage EXCEPT ![c] = "destroyed"] /\ UNCHANGED queue
    <3>1. stage[c] # "connecting"
      BY <1>2, <2>2 DEF InOrder
    <3>2. InOrder(Queued(batch, queue), [stage EXCEPT ![c] = "destroyed"], loopOf, Gone)
      BY <1>2, <3>1, GoesOn
    <3>3. InOrder(Queued(batch', queue'), stage', loopOf', Gone)
      BY <2>1, <2>2, <3>2
    <3>4. \A d \in Conns : stage'[d] = IF d = c THEN "destroyed" ELSE stage[d]
      BY <1>1, <2>2
    <3> QED
      BY <1>1, <1>2, <1>6, <2>1, <3>1, <3>3, <3>4 DEF DestroyedStays
  <2>3. CASE Reach(loopOf[c], Functor("destroy", c)) /\ UNCHANGED stage
    <3>1. loopOf[c] \in Loops
      BY <1>1
    <3>2. InOrder(Queued(batch, queue'), stage, loopOf, Gone)
      BY <1>1, <1>2, <2>1, <2>3, <3>1, ReachKeepsOrder
    <3>3. InOrder(Queued(batch', queue'), stage', loopOf', Gone)
      BY <2>1, <2>3, <3>2
    <3> QED
      BY <1>2, <1>6, <2>1, <2>3, <3>3 DEF DestroyedStays
  <2> QED
    BY <2>1, <2>2, <2>3 DEF RunInLoop
<1>14. ASSUME NEW t \in Threads, ConstructLoop(t) \/ Publish(t) \/ ClearLoop(t)
       PROVE  OrderInv' /\ DestroyedStays
  <2>1. PICK point \in Points : /\ point # "ended" /\ at' = [at EXCEPT ![t] = point]
                                /\ at[t] \notin {"functors", "ended"}
    BY <1>14 DEF ConstructLoop, Publish, ClearLoop, Points
  <2> QED
    BY <1>1, <1>4, <1>14, <2>1 DEF ConstructLoop, Publish, ClearLoop
<1>15. ASSUME NEW t \in Threads, EndThread(t) PROVE OrderInv' /\ DestroyedStays
  <2>1. /\ batch[t] = <<>> /\ batch' = batch /\ queue' = [queue EXCEPT ![t] = <<>>]
        /\ at' = [at EXCEPT ![t] = "ended"] /\ at[t] = "cleared"
        /\ UNCHANGED <<stage, loopOf, connMap, toDestroy>>
    BY <1>1, <1>2, <1>15 DEF EndThread
  <2>2. Gone' = Gone \cup {t}
    BY <1>1, <2>1 DEF Gone
  <2>3. PICK p : p = Queued(batch, queue)
    OBVIOUS
  <2>4. Queued(batch', queue') = [p EXCEPT ![t] = <<>>]
    <3>1. /\ queue'[t] = <<>> /\ \A m \in Loops : m # t => queue'[m] = queue[m]
          /\ <<>> \o <<>> = <<>>
      BY <1>1, <2>1
    <3>2. p = [m \in Loops |-> batch[m] \o queue[m]]
      BY <2>3 DEF Queued
    <3>3. ASSUME NEW m \in Loops
          PROVE  batch'[m] \o queue'[m] = IF m = t THEN <<>> ELSE p[m]
      <4>1. CASE m = t
        <5>1. batch'[m] = <<>> /\ queue'[m] = <<>>
          BY <2>1, <3>1, <4>1
        <5> QED
          BY <3>1, <4>1, <5>1
      <4>2. CASE m # t
        <5>1. batch'[m] = batch[m] /\ queue'[m] = queue[m] /\ p[m] = batch[m] \o queue[m]
          BY <2>1, <3>1, <3>2, <4>2
        <5> QED
          BY <4>2, <5>1
      <4> QED
        BY <4>1, <4>2
    <3>4. Queued(batch', queue') = [m \in Loops |-> IF m = t THEN <<>> ELSE p[m]]
      BY <3>3 DEF Queued
    <3> QED
      BY <3>2, <3>4
  <2>5. InOrder([p EXCEPT ![t] = <<>>], stage, loopOf, Gone \cup {t})
    BY <1>1, <1>2, <2>3, Dropped
  <2>6. \A l \in Loops : at'[l] # "functors" => batch'[l] = <<>>
    BY <1>1, <1>2, <2>1
  <2> QED
    BY <1>2, <2>1, <2>2, <2>4, <2>5, <2>6 DEF OrderInv, Pending, DestroyedStays
<1>16. ASSUME NEW l \in Loops, TestStop(l) \/ Poll(l) PROVE OrderInv' /\ DestroyedStays
  <2>1. PICK point \in Points : /\ point # "ended" /\ at' = [at EXCEPT ![l] = point]
                                /\ at[l] \notin {"functors", "ended"}
    BY <1>16 DEF TestStop, Poll, Enter, Points
  <2> QED
    BY <1>4, <1>16, <2>1 DEF TestStop, Poll
<1>17. ASSUME NEW l \in Loops, FunctorsDone(l) PROVE OrderInv' /\ DestroyedStays
  <2>1. \A m \in Loops : at'[m] = IF m = l THEN "test" ELSE at[m]
    BY <1>1, <1>17 DEF FunctorsDone, Enter
  <2> QED
    BY <1>1, <1>3, <1>17, <2>1 DEF FunctorsDone
<1>18. ASSUME NEW l \in Loops, SwapFunctors(l) PROVE OrderInv' /\ DestroyedStays
  <2>1. /\ at[l] = "dispatch" /\ at' = [at EXCEPT ![l] = "functors"] /\ batch[l] = <<>>
        /\ batch' = [batch EXCEPT ![l] = queue[l]] /\ queue' = [queue EXCEPT ![l] = <<>>]
        /\ UNCHANGED <<connVars, toDestroy>>
    BY <1>2, <1>18 DEF SwapFunctors, Enter
  <2>2. Gone' = Gone
    BY <1>1, <2>1 DEF Gone
  <2>3. Queued(batch', queue') = Queued(batch, queue)
    <3>1. /\ batch'[l] = queue[l] /\ queue'[l] = <<>>
          /\ \A m \in Loops : m # l => batch'[m] = batch[m] /\ queue'[m] = queue[m]
      BY <1>1, <2>1
    <3>2. queue[l] \in Seq(Functors)
      BY <1>1
    <3>3. queue[l] \o <<>> = <<>> \o queue[l]
      BY <3>2, ConcatEmptySeq
    <3>4. \A m \in Loops : batch'[m] \o queue'[m] = batch[m] \o queue[m]
      BY <2>1, <3>1, <3>3
    <3> QED
      BY <3>4 DEF Queued
  <2>4. \A m \in Loops : at'[m] # "functors" => batch'[m] = <<>>
    BY <1>1, <1>2, <2>1
  <2> QED
    BY <1>2, <2>1, <2>2, <2>3, <2>4 DEF OrderInv, Pending, DestroyedStays
<1>19. ASSUME NEW l \in Loops, RunInOwnLoop(l) PROVE OrderInv' /\ DestroyedStays
  <2>1. PICK x \in {"open", "destroyed"}, kind \in {"establish", "destroy"} :
            /\ NextFunctor(l, kind) /\ (x = "destroyed" <=> kind = "destroy")
            /\ stage' = [stage EXCEPT ![Head(batch[l]).conn] = x]
            /\ UNCHANGED <<connMap, queue>>
    BY <1>19 DEF RunInOwnLoop
  <2>2. PICK c : c = Head(batch[l]).conn
    OBVIOUS
  <2>3. /\ kind = "destroy" => stage[c] # "connecting"
        /\ kind = "establish" => stage[c] = "connecting"
        /\ c \in Conns
        /\ InOrder(Queued(batch', queue), [stage EXCEPT ![c] = x], loopOf, Gone)
    BY <2>1, <2>2, TakeKeepsOrder
  <2>4. /\ at' = at /\ at[l] = "functors" /\ batch' = [batch EXCEPT ![l] = Tail(@)]
        /\ UNCHANGED <<loopOf, toDestroy>>
    BY <2>1 DEF NextFunctor
  <2>5. \A d \in Conns : stage'[d] = IF d = c THEN x ELSE stage[d]
    BY <1>1, <2>1, <2>2
  <2>6. InOrder(Queued(batch', queue'), stage', loopOf', Gone)
    BY <2>1, <2>2, <2>3, <2>4
  <2>7. \A m \in Loops : at[m] # "functors" => batch'[m] = <<>>
    BY <1>1, <1>2, <2>4
  <2>8. \A d \in connMap' \cup toDestroy' : stage'[d] # "none"
    BY <1>1, <1>2, <2>1, <2>4, <2>5
  <2>9. DestroyedStays
    BY <2>1, <2>3, <2>5 DEF DestroyedStays
  <2> QED
    BY <1>6, <2>4, <2>6, <2>7, <2>8, <2>9
<1>20. CASE RunRemove
  <2>1. PICK c : c = Head(batch[Main]).conn
    OBVIOUS
  <2>2. /\ NextFunctor(Main, "remove") /\ Remove(c) /\ UNCHANGED stage
    BY <1>20, <2>1 DEF RunRemove
  <2>3. /\ c \in Conns /\ stage[c] # "none"
        /\ InOrder(Queued(batch', queue), [stage EXCEPT ![c] = stage[c]], loopOf, Gone)
    BY <1>1, <2>1, <2>2, TakeKeepsOrder
  <2>4. /\ at' = at /\ at[Main] = "functors" /\ batch[Main] # <<>>
        /\ batch' = [batch EXCEPT ![Main] = Tail(@)] /\ UNCHANGED <<loopOf, toDestroy>>
        /\ connMap' = connMap \ {c} /\ Reach(loopOf[c], Functor("destroy", c))
    BY <2>2 DEF NextFunctor, Remove
  <2>5. [stage EXCEPT ![c] = stage[c]] = stage
    BY <1>1
  <2>6. batch' \in [Loops -> Seq(Functors)]
    BY <1>1, <2>4, TakeFunctor DEF TypeInv
  <2>7. /\ Functor("destroy", c) \in Functors /\ Functor("destroy", c).conn = c
        /\ Functor("destroy", c).kind = "destroy" /\ loopOf[c] \in Loops
    BY <1>1, <2>3 DEF Functor, Functors
  <2>8. InOrder(Queued(batch', queue'), stage, loopOf, Gone)
    <3>1. InOrder(Queued(batch', queue), stage, loopOf, Gone)
      BY <2>3, <2>5
    <3> QED
      BY <2>3, <2>4, <2>6, <2>7, <3>1, ReachKeepsOrder
  <2>9. \A m \in Loops : at[m] # "functors" => batch'[m] = <<>>
    BY <1>1, <1>2, <2>4
  <2> QED
    BY <1>2, <1>6, <2>2, <2>4, <2>8, <2>9 DEF DestroyedStays
<1>21. ASSUME NEW l \in Loops, NEW stopped \in {l, Main}, CallbackStops(l, stopped)
       PROVE  OrderInv' /\ DestroyedStays
  BY <1>5, <1>21 DEF CallbackStops
<1>22. ASSUME NEW c \in Conns, Accept(c) PROVE OrderInv' /\ DestroyedStays
  <2>1. /\ stage[c] = "none" /\ connMap' = connMap \cup {c} /\ UNCHANGED <<at, batch, toDestroy>>
        /\ stage' = [stage EXCEPT ![c] = IF Chosen = Main THEN "open" ELSE "connecting"]
    BY <1>22 DEF Accept
  <2>2. \A d \in Conns :
            stage'[d] = IF d = c THEN IF Chosen = Main THEN "open" ELSE "connecting" ELSE stage[d]
    BY <1>1, <2>1
  <2>3. InOrder(Queued(batch', queue'), stage', loopOf', Gone)
    BY <1>22, AcceptKeepsOrder
  <2>4. \A d \in connMap' \cup toDestroy' : stage'[d] # "none"
    BY <1>1, <1>2, <2>1, <2>2
  <2> QED
    BY <1>2, <1>6, <2>1, <2>2, <2>3, <2>4 DEF DestroyedStays
<1>23. ASSUME NEW c \in Conns, NEW l \in Loops, Close(l, c) PROVE OrderInv' /\ DestroyedStays
  <2>1. /\ loopOf[c] = l /\ stage[c] = "open" /\ stage' = [stage EXCEPT ![c] = "closed"]
        /\ UNCHANGED <<at, batch, loopOf, toDestroy>>
    BY <1>23 DEF Close
  <2>2. \A d \in Conns : stage'[d] = IF d = c THEN "closed" ELSE stage[d]
    BY <1>1, <2>1
  <2>3. InOrder(Queued(batch, queue), stage', loopOf, Gone)
    <3>1. InOrder(Queued(batch, queue), [stage EXCEPT ![c] = "closed"], loopOf, Gone)
      BY <1>2, <2>1, GoesOn
    <3> QED
      BY <2>1, <3>1
  <2>4. InOrder(Queued(batch, queue'), stage', loopOf, Gone) /\ connMap' \subseteq connMap
    <3>1. CASE l = Main
      <4>1. Reach(l, Functor("destroy", c)) /\ connMap' = connMap \ {c}
        BY <1>23, <2>1, <3>1 DEF Close, Remove
      <4>2. /\ Functor("destroy", c) \in Functors /\ Functor("destroy", c).conn = c
            /\ Functor("destroy", c).kind = "destroy" /\ stage'[c] # "none"
        BY <2>2 DEF Functor, Functors
      <4> QED
        BY <1>1, <2>1, <2>3, <4>1, <4>2, ReachKeepsOrder
    <3>2. CASE l # Main
      <4>1. Push(Main, Functor("remove", c)) /\ connMap' = connMap
        BY <1>23, <3>2 DEF Close
      <4>2. /\ Functor("remove", c) \in Functors /\ Functor("remove", c).conn = c
            /\ Functor("remove", c).kind = "remove" /\ stage'[c] # "none"
        BY <2>2 DEF Functor, Functors
      <4> QED
        BY <1>1, <2>3, <4>1, <4>2, ReachKeepsOrder
    <3> QED
      BY <3>1, <3>2
  <2>5. InOrder(Queued(batch', queue'), stage', loopOf', Gone)
    BY <2>1, <2>4
  <2>6. \A d \in connMap' \cup toDestroy' : stage'[d] # "none"
    BY <1>1, <1>2, <2>1, <2>2, <2>4
  <2> QED
    BY <1>2, <1>6, <2>1, <2>2, <2>5, <2>6 DEF DestroyedStays
<1>24. CASE UNCHANGED vars
  BY <1>5, <1>24 DEF vars
<1> QED
  BY <1>8, <1>9, <1>10, <1>11, <1>12, <1>13, <1>14, <1>15, <1>16, <1>17, <1>18, <1>19, <1>20,
     <1>21, <1>22, <1>23, <1>24 DEF Next, MainStep, ThreadStep, LoopStep

(***************************************************************************)
(* connectDestroyed is the last of a connection and finds it established.  *)
(***************************************************************************)
THEOREM DestroyedComesLast == Spec => DestroyedLast
<1>1. Init => OrderInv
  <2> SUFFICES ASSUME Init PROVE OrderInv
    OBVIOUS
  <2>1. /\ \A l \in Loops : batch[l] = <<>> /\ queue[l] = <<>>
        /\ connMap = {} /\ toDestroy = {} /\ Main \in Loops
        /\ stage = [c \in Conns |-> "none"] /\ loopOf = [c \in Conns |-> Main]
    BY DEF Init, Loops
  <2>2. <<>> \in Seq(Functors) /\ 1..Len(<<>>) = {} /\ <<>> \o <<>> = <<>>
    BY EmptySeq
  <2>3. \A l \in Loops : Pending[l] = <<>>
    BY <2>1, <2>2 DEF Pending, Queued
  <2>4. Pending \in [Loops -> Seq(Functors)]
    BY <2>1, <2>2 DEF Pending, Queued
  <2>5. \A l \in Loops : Ordered(l, Pending[l], stage, loopOf)
    BY <2>2, <2>3 DEF Ordered
  <2> QED
    BY <2>1, <2>4, <2>5 DEF OrderInv, InOrder, Stages
<1>2. TypeInv /\ PointerInv /\ OrderInv /\ [Next]_vars => OrderInv'
  BY NextKeepsOrder
<1>3. TypeInv /\ PointerInv /\ OrderInv /\ [Next]_vars =>
          [\A c \in Conns :
              /\ stage[c] = "destroyed" => stage'[c] = "destroyed"
              /\ stage'[c] = "destroyed" => stage[c] # "connecting"]_vars
  BY NextKeepsOrder DEF DestroyedStays
<1> QED
  BY <1>1, <1>2, <1>3, PointerInvariant, TypeInvariant, PTL DEF Spec, DestroyedLast
=============================================================================
