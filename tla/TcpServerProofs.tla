--------------------------- MODULE TcpServerProofs ---------------------------
(***************************************************************************)
(* Theorems about TcpServer, for any connections, descriptors, loops and   *)
(* threads: types, the lifetime of channels, the connection map, the       *)
(* assertions of TcpConn and the single close.                             *)
(*                                                                         *)
(* The order is that of the argument: the types (TypeInv), the inductive   *)
(* invariant (ServerInv), which actions write which variable (Writers),    *)
(* what a step may do to one connection, loop, descriptor or thread        *)
(* (Moves), and then each part of the invariant from the moves alone.      *)
(***************************************************************************)
EXTENDS TcpServer, SequenceTheorems, TLAPS

\* A thread in the middle of a call holds its connection and has counted the call.
CallInv ==
    \A u \in Users : userCall[u] # NoCall =>
        /\ userCall[u].op # "none" /\ userCall[u].step # "none"
        /\ userConn[u] # NoConn
        /\ calls[u] > 0

\* The batch is empty outside of doPendingFunctors, the array of epoll_wait outside
\* of the dispatch.
PhaseInv ==
    \A l \in Loops :
        /\ ran[l] <= Len(batch[l])
        /\ phase[l] # "functors" => batch[l] = <<>>
        /\ phase[l] # "dispatch" => active[l] = {}

TypeInv == TypeOK /\ CallInv /\ PhaseInv

(***************************************************************************)
(* The records that stand for a place in the code.                         *)
(***************************************************************************)
LEMMA FrameFacts ==
    /\ Idle.conn = NoConn /\ Idle.at = "loop"
    /\ \A c : Callback(c).conn = c /\ Callback(c).at = "callback"
    /\ \A c : Closing(c).conn = c /\ Closing(c).at = "closing"
    /\ \A c, d : Callback(c) # Closing(d) /\ Callback(c) # Idle /\ Closing(c) # Idle
    /\ \A c, d : Closing(c) = Closing(d) <=> c = d
BY DEF Idle, Callback, Closing

\* A functor is what it was made of.
LEMMA FunctorFacts ==
    /\ \A kind, c : Functor(kind, c).kind = kind /\ Functor(kind, c).conn = c
    /\ \A kind \in {"establish", "remove", "destroy", "forceClose", "send", "shutdown"} :
           \A c \in Conns : Functor(kind, c) \in Functors
BY DEF Functor, Functors

(***************************************************************************)
(* What a loop is in the middle of concerns a connection of the program.   *)
(***************************************************************************)
LEMMA FrameConn ==
    ASSUME TypeOK, NEW l \in Loops, frame[l].at # "loop"
    PROVE  /\ frame[l].conn \in Conns
           /\ frame[l].at = "callback" => frame[l] = Callback(frame[l].conn)
           /\ frame[l].at = "closing" => frame[l] = Closing(frame[l].conn)
<1>1. frame[l] \in {Idle} \cup {Callback(c) : c \in Conns} \cup {Closing(c) : c \in Conns}
  BY DEF TypeOK
<1> QED
  BY <1>1, FrameFacts

\* The connection a loop is in the middle of is one of the program's.
LEMMA FrameNamed ==
    ASSUME TypeOK, NEW l \in Loops, frame[l].conn # NoConn PROVE frame[l].conn \in Conns
<1>1. frame[l] \in {Idle} \cup {Callback(c) : c \in Conns} \cup {Closing(c) : c \in Conns}
  BY DEF TypeOK
<1> QED
  BY <1>1, FrameFacts

(***************************************************************************)
(* The functor doPendingFunctors runs next.                                *)
(***************************************************************************)
LEMMA NextFunctorFacts ==
    ASSUME TypeInv, NEW l \in Loops, ran[l] < Len(batch[l])
    PROVE  /\ ran[l] + 1 \in (ran[l] + 1)..Len(batch[l]) /\ ran[l] + 1 \in DOMAIN batch[l]
           /\ NextFunctor(l) \in Functors /\ NextFunctor(l).conn \in Conns
           /\ NextFunctor(l) = Functor(NextFunctor(l).kind, NextFunctor(l).conn)
<1>1. batch[l] \in Seq(Functors) /\ ran[l] \in Nat /\ Len(batch[l]) \in Nat
      /\ DOMAIN batch[l] = 1..Len(batch[l])
  BY LenProperties DEF TypeInv, TypeOK
<1>2. NextFunctor(l) \in Functors
  BY <1>1, ElementOfSeq DEF NextFunctor
<1> QED
  BY <1>1, <1>2 DEF Functors, Functor

(***************************************************************************)
(* Pushing a functor keeps the type of the queues.                         *)
(***************************************************************************)
LEMMA PushType ==
    ASSUME TypeOK, NEW l \in Loops, NEW functor \in Functors, Push(l, functor)
    PROVE  queue' \in [Loops -> Seq(Functors)]
<1>1. Append(queue[l], functor) \in Seq(Functors)
  BY AppendProperties DEF TypeOK
<1> QED
  BY <1>1 DEF Push, TypeOK

\* removeConnectionInLoop keeps the types of the queues and of the map.
LEMMA RemoveType ==
    ASSUME TypeOK, NEW c \in Conns, Remove(c)
    PROVE  queue' \in [Loops -> Seq(Functors)] /\ connMap' \in [Fds -> Conns \cup {NoConn}]
<1>1. Functor("destroy", c) \in Functors /\ loopOf[c] \in Loops
  BY FunctorFacts DEF TypeOK
<1>2. queue' \in [Loops -> Seq(Functors)]
  BY <1>1, PushType DEF Remove
<1> QED
  BY <1>2 DEF Remove, TypeOK

ChannelType ==
    /\ reading \in [Conns -> BOOLEAN]
    /\ writing \in [Conns -> BOOLEAN]
    /\ inLoop \in [Conns -> BOOLEAN]
    /\ epoll \subseteq Conns

FrameType == [Loops -> {Idle} \cup {Callback(c) : c \in Conns} \cup {Closing(c) : c \in Conns}]
CallType == [op : {"none", "send", "shutdown", "forceClose"}, step : {"none", "set", "queue"}]

\* What may be done to a channel keeps the types of its flags.
LEMMA ChannelTypes ==
    ASSUME TypeOK, NEW c \in Conns,
           \/ EnableRead(c) \/ EnableWrite(c) \/ DisableAll(c) \/ SendInLoop(c)
           \/ UNCHANGED epollVars
    PROVE  ChannelType'
<1>1. ASSUME ChannelUpdate(c) PROVE inLoop' \in [Conns -> BOOLEAN] /\ epoll' \subseteq Conns
  BY <1>1 DEF TypeOK, ChannelUpdate
<1>2. CASE EnableRead(c)
  BY <1>1, <1>2 DEF TypeOK, EnableRead, ChannelType
<1>3. CASE EnableWrite(c)
  BY <1>1, <1>3 DEF TypeOK, EnableWrite, ChannelType
<1>4. CASE DisableAll(c)
  BY <1>1, <1>4 DEF TypeOK, DisableAll, ChannelType
<1>5. CASE UNCHANGED epollVars
  BY <1>5 DEF TypeOK, epollVars, ChannelType
<1> QED
  BY <1>2, <1>3, <1>4, <1>5 DEF SendInLoop

\* So does handleClose, with those of the queues and of the map.
LEMMA HandleCloseType ==
    ASSUME TypeOK, NEW l \in Loops, NEW c \in Conns, HandleClose(l, c)
    PROVE  /\ queue' \in [Loops -> Seq(Functors)] /\ connMap' \in [Fds -> Conns \cup {NoConn}]
           /\ ChannelType'
           /\ frame' = [frame EXCEPT ![l] = Closing(c)]
<1>1. Functor("remove", c) \in Functors /\ Main \in Loops
  BY FunctorFacts DEF Loops
<1>2. CASE l = Main
  <2>1. Remove(c) /\ DisableAll(c) /\ frame' = [frame EXCEPT ![l] = Closing(c)]
    BY <1>2 DEF HandleClose
  <2>2. ChannelType'
    BY <2>1, ChannelTypes
  <2> QED
    BY <2>1, <2>2, RemoveType
<1>3. CASE l # Main
  <2>1. Push(Main, Functor("remove", c)) /\ UNCHANGED connMap /\ DisableAll(c)
        /\ frame' = [frame EXCEPT ![l] = Closing(c)]
    BY <1>3 DEF HandleClose
  <2>2. queue' \in [Loops -> Seq(Functors)]
    BY <1>1, <2>1, PushType
  <2>3. ChannelType'
    BY <2>1, ChannelTypes
  <2> QED
    BY <2>1, <2>2, <2>3 DEF TypeOK
<1> QED
  BY <1>2, <1>3

(***************************************************************************)
(* Type correctness, with what it rests on: a call in progress has a       *)
(* connection, and doPendingFunctors never runs off the end of its vector. *)
(***************************************************************************)
LEMMA TypeInvariant == Spec => []TypeInv
<1> USE NamesAssumption, CallsAssumption
<1>1. Init => TypeInv
  <2> SUFFICES ASSUME Init PROVE TypeInv
    OBVIOUS
  <2>1. <<>> \in Seq(Functors) /\ Len(<<>>) = 0 /\ Main \in Loops
    BY EmptySeq DEF Loops
  <2>2. \A u \in Users : userCall[u] = NoCall
    BY DEF Init
  <2>3. TypeOK
    BY <2>1 DEF Init, TypeOK, States, NoCall
  <2>4. PhaseInv
    BY <2>1 DEF Init, PhaseInv
  <2> QED
    BY <2>2, <2>3, <2>4 DEF TypeInv, CallInv
<1>2. TypeInv /\ [Next]_vars => TypeInv'
  <2> SUFFICES ASSUME TypeInv, [Next]_vars PROVE TypeInv'
    OBVIOUS
  <2> USE DEF TypeInv
  <2>u. ASSUME UNCHANGED userVars PROVE CallInv'
    BY <2>u DEF CallInv, userVars
  <2>p. ASSUME UNCHANGED <<loopVars, batchVars>> PROVE PhaseInv'
    BY <2>p DEF PhaseInv, loopVars, batchVars
  <2>s. \A s \in {"Connecting", "Connected", "DisConnecting", "DisConnected"}, c \in Conns :
            [state EXCEPT ![c] = s] \in [Conns -> States]
    BY DEF TypeOK, States
  <2>f. \A l \in Loops, c \in Conns :
            /\ [frame EXCEPT ![l] = Idle] \in FrameType
            /\ [frame EXCEPT ![l] = Callback(c)] \in FrameType
            /\ [frame EXCEPT ![l] = Closing(c)] \in FrameType
    BY DEF TypeOK, FrameType
  <2>1. ASSUME NEW l \in Loops, LoopStep(l) PROVE TypeInv'
    <3>1. CASE Poll(l)
      <4>1. CallInv'
        BY <2>u, <3>1 DEF Poll, worldVars
      <4>2. active' \in [Loops -> SUBSET (Conns \cup {Acceptor})]
        BY <3>1 DEF Poll, TypeOK, Registered
      <4>3. PhaseInv'
        BY <3>1 DEF Poll, PhaseInv, TypeOK, batchVars
      <4>4. TypeOK'
        BY <3>1, <4>2 DEF Poll, TypeOK, connVars, epollVars, batchVars, worldVars, userVars
      <4> QED
        BY <4>1, <4>3, <4>4
    <3>2. CASE SwapFunctors(l)
      <4>1. CallInv'
        BY <2>u, <3>2 DEF SwapFunctors, worldVars
      <4>2. <<>> \in Seq(Functors) /\ Len(queue[l]) \in Nat
        BY EmptySeq, LenProperties DEF TypeOK
      <4>3. PhaseInv'
        BY <3>2, <4>2 DEF SwapFunctors, PhaseInv, TypeOK
      <4>4. TypeOK'
        BY <3>2, <4>2 DEF SwapFunctors, TypeOK, connVars, epollVars, worldVars, userVars
      <4> QED
        BY <4>1, <4>3, <4>4
    <3>3. CASE FunctorsDone(l)
      <4>1. CallInv'
        BY <2>u, <3>3 DEF FunctorsDone, worldVars
      <4>2. <<>> \in Seq(Functors) /\ Len(<<>>) = 0
        BY EmptySeq
      <4>3. PhaseInv'
        BY <3>3, <4>2 DEF FunctorsDone, PhaseInv, TypeOK
      <4>4. TypeOK'
        BY <3>3, <4>2 DEF FunctorsDone, TypeOK, connVars, epollVars, worldVars, userVars
      <4> QED
        BY <4>1, <4>3, <4>4
    <3>4. CASE CloseDone(l)
      <4>1. CallInv' /\ PhaseInv'
        BY <2>u, <2>p, <3>4 DEF CloseDone, worldVars
      <4>2. frame[l].conn \in Conns
        BY <3>4, FrameConn DEF CloseDone
      <4>3. TypeOK'
        BY <2>s, <2>f, <3>4, <4>2
        DEF CloseDone, TypeOK, FrameType, connVars, epollVars, loopVars, batchVars, worldVars,
            userVars
      <4> QED
        BY <4>1, <4>3
    <3>5. CASE CallbackReturns(l)
      <4>1. CallInv' /\ PhaseInv'
        BY <2>u, <2>p, <3>5 DEF CallbackReturns, worldVars
      <4>2. TypeOK'
        BY <2>f, <3>5
        DEF CallbackReturns, TypeOK, FrameType, connVars, epollVars, loopVars, batchVars,
            worldVars, userVars
      <4> QED
        BY <4>1, <4>2
    <3>6. ASSUME NEW c \in Conns, Dispatch(l, c) PROVE TypeInv'
      <4>1. CallInv'
        BY <2>u, <3>6 DEF Dispatch, worldVars
      <4>2. active' \in [Loops -> SUBSET (Conns \cup {Acceptor})] /\ PhaseInv'
        BY <3>6 DEF Dispatch, PhaseInv, TypeOK, batchVars
      <4>3. /\ queue' \in [Loops -> Seq(Functors)]
            /\ connMap' \in [Fds -> Conns \cup {NoConn}]
            /\ ChannelType'
            /\ frame' \in FrameType
        <5>1. CASE HandleClose(l, c)
          BY <2>f, <5>1, HandleCloseType
        <5>2. CASE UNCHANGED <<connMap, queue, epollVars>>
                   /\ (UNCHANGED frame \/ frame' = [frame EXCEPT ![l] = Callback(c)])
          <6>1. ChannelType'
            BY <5>2, ChannelTypes
          <6>2. frame \in FrameType
            BY DEF TypeOK, FrameType
          <6>3. frame' \in FrameType
            BY <2>f, <5>2, <6>2
          <6> QED
            BY <5>2, <6>1, <6>3 DEF TypeOK
        <5> QED
          BY <3>6, <5>1, <5>2 DEF Dispatch
      <4>4. TypeOK'
        BY <3>6, <4>2, <4>3
        DEF Dispatch, TypeOK, ChannelType, FrameType, connVars, batchVars, worldVars, userVars
      <4> QED
        BY <4>1, <4>2, <4>4
    <3>7. ASSUME NEW kind, RunFunctor(l, kind)
          PROVE  /\ CallInv' /\ PhaseInv' /\ ran' \in [Loops -> Nat]
                 /\ NextFunctor(l).conn \in Conns
                 /\ UNCHANGED <<connVars, loopVars, batch, worldVars>>
      <4>1. CallInv'
        BY <2>u, <3>7 DEF RunFunctor, worldVars
      <4>2. NextFunctor(l).conn \in Conns
        BY <3>7, NextFunctorFacts DEF RunFunctor
      <4>3. Len(batch[l]) \in Nat
        BY LenProperties DEF TypeOK
      <4>4. PhaseInv' /\ ran' \in [Loops -> Nat]
        BY <3>7, <4>3 DEF RunFunctor, PhaseInv, TypeOK, loopVars
      <4> QED
        BY <3>7, <4>1, <4>2, <4>4 DEF RunFunctor
    <3>8. CASE RunEstablish(l)
      <4>1. Establish(l, NextFunctor(l).conn) /\ UNCHANGED <<connMap, queue>>
        BY <3>8 DEF RunEstablish
      <4>2. RunFunctor(l, "establish")
        BY <3>8 DEF RunEstablish
      <4>3. ChannelType'
        BY <3>7, <4>1, <4>2, ChannelTypes DEF Establish
      <4>4. TypeOK'
        BY <2>s, <2>f, <3>7, <4>1, <4>2, <4>3
        DEF Establish, TypeOK, ChannelType, FrameType, connVars, loopVars, worldVars, userVars
      <4> QED
        BY <3>7, <4>2, <4>4
    <3>9. CASE RunRemove(l)
      <4>1. Remove(NextFunctor(l).conn) /\ UNCHANGED <<state, epollVars, frame>>
        BY <3>9 DEF RunRemove
      <4>2. RunFunctor(l, "remove")
        BY <3>9 DEF RunRemove
      <4>3. queue' \in [Loops -> Seq(Functors)] /\ connMap' \in [Fds -> Conns \cup {NoConn}]
        BY <3>7, <4>1, <4>2, RemoveType
      <4>4. TypeOK'
        BY <3>7, <4>1, <4>2, <4>3
        DEF TypeOK, connVars, epollVars, loopVars, worldVars, userVars
      <4> QED
        BY <3>7, <4>2, <4>4
    <3>10. CASE RunDestroy(l)
      <4>1. Destroy(NextFunctor(l).conn) /\ UNCHANGED <<connMap, queue, frame>>
        BY <3>10 DEF RunDestroy
      <4>2. RunFunctor(l, "destroy")
        BY <3>10 DEF RunDestroy
      <4>3. ChannelType' /\ state' \in [Conns -> States] /\ UNCHANGED inLoop
        <5>1. NextFunctor(l).conn \in Conns /\ UNCHANGED inLoop /\ epoll' \subseteq Conns
          BY <3>7, <4>1, <4>2 DEF Destroy, ChannelRemove, TypeOK
        <5>2. CASE state[NextFunctor(l).conn] = "Connected"
          <6>1. /\ state' = [state EXCEPT ![NextFunctor(l).conn] = "DisConnected"]
                /\ reading' = [reading EXCEPT ![NextFunctor(l).conn] = FALSE]
                /\ writing' = [writing EXCEPT ![NextFunctor(l).conn] = FALSE]
            BY <4>1, <5>2 DEF Destroy
          <6> QED
            BY <2>s, <5>1, <6>1 DEF ChannelType, TypeOK
        <5>3. CASE state[NextFunctor(l).conn] # "Connected"
          BY <4>1, <5>1, <5>3 DEF Destroy, ChannelType, TypeOK
        <5> QED
          BY <5>1, <5>2, <5>3
      <4>4. TypeOK'
        BY <3>7, <4>1, <4>2, <4>3
        DEF TypeOK, ChannelType, connVars, loopVars, worldVars, userVars
      <4> QED
        BY <3>7, <4>2, <4>4
    <3>11. CASE RunForceClose(l)
      <4>1. RunFunctor(l, "forceClose") /\ UNCHANGED state
        BY <3>11 DEF RunForceClose
      <4>2. NextFunctor(l).conn \in Conns
        BY <3>7, <4>1
      <4>3. /\ queue' \in [Loops -> Seq(Functors)]
            /\ connMap' \in [Fds -> Conns \cup {NoConn}]
            /\ ChannelType'
            /\ frame' \in FrameType
        <5>1. CASE HandleClose(l, NextFunctor(l).conn)
          BY <2>f, <4>2, <5>1, HandleCloseType
        <5>2. CASE UNCHANGED <<connMap, queue, epollVars, frame>>
          BY <4>2, <5>2, ChannelTypes DEF TypeOK, FrameType
        <5> QED
          BY <3>11, <5>1, <5>2 DEF RunForceClose
      <4>4. TypeOK'
        BY <3>7, <4>1, <4>3
        DEF TypeOK, ChannelType, FrameType, connVars, loopVars, worldVars, userVars
      <4> QED
        BY <3>7, <4>1, <4>4
    <3>12. CASE RunSend(l)
      <4>1. SendInLoop(NextFunctor(l).conn) /\ UNCHANGED <<connMap, state, queue, frame>>
        BY <3>12 DEF RunSend
      <4>2. RunFunctor(l, "send")
        BY <3>12 DEF RunSend
      <4>3. ChannelType'
        BY <3>7, <4>1, <4>2, ChannelTypes
      <4>4. TypeOK'
        BY <3>7, <4>1, <4>2, <4>3
        DEF TypeOK, ChannelType, connVars, loopVars, worldVars, userVars
      <4> QED
        BY <3>7, <4>2, <4>4
    <3>13. CASE RunShutdown(l)
      <4>1. RunFunctor(l, "shutdown") /\ UNCHANGED <<connMap, state, queue, epollVars, frame>>
        BY <3>13 DEF RunShutdown
      <4>2. TypeOK'
        BY <3>7, <4>1 DEF TypeOK, connVars, epollVars, loopVars, worldVars, userVars
      <4> QED
        BY <3>7, <4>1, <4>2
    <3> QED
      BY <2>1, <3>1, <3>2, <3>3, <3>4, <3>5, <3>6, <3>8, <3>9, <3>10, <3>11, <3>12, <3>13
      DEF LoopStep
  <2>2. ASSUME NEW l \in Loops, CallbackStep(l) PROVE TypeInv'
    <3>0. InCallback(l) => frame[l].conn \in Conns
      BY FrameConn DEF InCallback
    <3>1. ASSUME NEW u \in Users, CallbackHandsOver(l, u) PROVE TypeInv'
      <4>1. userCall[u] = NoCall
        BY <3>1 DEF CallbackHandsOver, CallInv
      <4>2. CallInv' /\ PhaseInv'
        BY <2>p, <3>0, <3>1, <4>1 DEF CallbackHandsOver, CallInv, TypeOK
      <4>3. TypeOK'
        BY <3>0, <3>1
        DEF CallbackHandsOver, TypeOK, connVars, epollVars, loopVars, batchVars
      <4> QED
        BY <4>2, <4>3
    <3>2. CASE CallbackSends(l)
      <4>1. CallInv' /\ PhaseInv'
        BY <2>u, <2>p, <3>2 DEF CallbackSends, worldVars
      <4>2. ChannelType'
        BY <3>0, <3>2, ChannelTypes DEF CallbackSends
      <4>3. TypeOK'
        BY <3>2, <4>2
        DEF CallbackSends, TypeOK, ChannelType, connVars, loopVars, batchVars,
            worldVars, userVars
      <4> QED
        BY <4>1, <4>3
    <3>3. CASE CallbackShutsDown(l)
      <4>1. CallInv' /\ PhaseInv'
        BY <2>u, <2>p, <3>3 DEF CallbackShutsDown, worldVars
      <4>2. TypeOK'
        BY <2>s, <3>0, <3>3
        DEF CallbackShutsDown, TypeOK, connVars, epollVars, loopVars, batchVars,
            worldVars, userVars
      <4> QED
        BY <4>1, <4>2
    <3>4. CASE CallbackForcesClose(l)
      <4>1. CallInv' /\ PhaseInv'
        BY <2>u, <2>p, <3>4 DEF CallbackForcesClose, worldVars
      <4>2. queue' \in [Loops -> Seq(Functors)]
        BY <3>0, <3>4, PushType, FunctorFacts DEF CallbackForcesClose
      <4>3. TypeOK'
        BY <2>f, <2>s, <3>0, <3>4, <4>2
        DEF CallbackForcesClose, TypeOK, FrameType, connVars, epollVars, loopVars, batchVars,
            worldVars, userVars
      <4> QED
        BY <4>1, <4>3
    <3> QED
      BY <2>2, <3>1, <3>2, <3>3, <3>4 DEF CallbackStep
  <2>3. ASSUME NEW c \in Conns, NEW f \in Fds, NEW l \in Loops, Accept(c, f, l) PROVE TypeInv'
    <3>1. CallInv' /\ PhaseInv'
      BY <2>3, <2>u DEF Accept, PhaseInv, TypeOK, batchVars, worldVars
    <3>2. /\ queue' \in [Loops -> Seq(Functors)] /\ ChannelType'
          /\ state' \in [Conns -> States] /\ frame' \in FrameType
      <4>1. CASE l = Main
        <5>1. Establish(l, c) /\ UNCHANGED queue
          BY <2>3, <4>1 DEF Accept
        <5>2. ChannelType'
          BY <5>1, ChannelTypes DEF Establish
        <5> QED
          BY <2>f, <2>s, <5>1, <5>2 DEF Establish, TypeOK
      <4>2. CASE l # Main
        <5>1. queue' \in [Loops -> Seq(Functors)]
          BY <2>3, <4>2, PushType, FunctorFacts DEF Accept
        <5>2. ChannelType' /\ frame' \in FrameType
          BY <2>3, <4>2, ChannelTypes DEF Accept, TypeOK, FrameType
        <5> QED
          BY <2>3, <2>s, <4>2, <5>1, <5>2, SMTT(60) DEF Accept
      <4> QED
        BY <4>1, <4>2
    <3>3. TypeOK'
      BY <2>3, <3>2
      DEF Accept, TypeOK, ChannelType, FrameType, batchVars, worldVars, userVars
    <3> QED
      BY <3>1, <3>3
  <2>4. CASE AcceptFails
    <3>1. CallInv'
      BY <2>4, <2>u DEF AcceptFails, worldVars
    <3>2. PhaseInv' /\ active' \in [Loops -> SUBSET (Conns \cup {Acceptor})]
      BY <2>4 DEF AcceptFails, PhaseInv, TypeOK, batchVars
    <3>3. TypeOK'
      BY <2>4, <3>2
      DEF AcceptFails, TypeOK, connVars, epollVars, batchVars, worldVars, userVars
    <3> QED
      BY <3>1, <3>2, <3>3
  <2>5. ASSUME NEW c \in Conns, PeerCloses(c) PROVE TypeInv'
    <3>1. CallInv' /\ PhaseInv'
      BY <2>5, <2>u, <2>p DEF PeerCloses
    <3>2. TypeOK'
      BY <2>5
      DEF PeerCloses, TypeOK, connVars, epollVars, loopVars, batchVars, userVars
    <3> QED
      BY <3>1, <3>2
  <2>6. ASSUME NEW u \in Users, NEW op \in {"send", "shutdown", "forceClose"}, UserTests(u, op)
        PROVE  TypeInv'
    <3>1. PhaseInv'
      BY <2>6, <2>p DEF UserTests
    <3>2. userCall' \in [Users -> CallType] /\ calls' \in [Users -> 0..MaxCalls]
      BY <2>6 DEF UserTests, FirstStep, TypeOK, CallType
    <3>3. CallInv'
      BY <2>6 DEF UserTests, FirstStep, CallInv, TypeOK, NoCall
    <3>4. TypeOK'
      BY <2>6, <3>2
      DEF UserTests, TypeOK, CallType, connVars, epollVars, loopVars, batchVars
    <3> QED
      BY <3>1, <3>3, <3>4
  <2>7. ASSUME NEW u \in Users, UserStep(u) PROVE TypeInv'
    <3>1. CASE UserSets(u)
      <4>1. PhaseInv'
        BY <2>p, <3>1 DEF UserSets
      <4>2. userCall[u] # NoCall /\ userConn[u] \in Conns
        BY <3>1 DEF UserSets, CallInv, NoCall, TypeOK
      <4>3. userCall' \in [Users -> CallType]
        BY <3>1 DEF UserSets, TypeOK, CallType
      <4>4. CallInv'
        BY <3>1, <4>2 DEF UserSets, CallInv, TypeOK, NoCall
      <4>5. TypeOK'
        BY <2>s, <3>1, <4>2, <4>3
        DEF UserSets, TypeOK, CallType, connVars, epollVars, loopVars, batchVars
      <4> QED
        BY <4>1, <4>4, <4>5
    <3>2. CASE UserQueues(u)
      <4>1. PhaseInv'
        BY <2>p, <3>2 DEF UserQueues
      <4>2. userCall[u] # NoCall /\ userConn[u] \in Conns /\ loopOf[userConn[u]] \in Loops
            /\ userCall[u].op \in {"send", "shutdown", "forceClose"}
        BY <3>2 DEF UserQueues, CallInv, NoCall, TypeOK
      <4>3. queue' \in [Loops -> Seq(Functors)]
        BY <3>2, <4>2, PushType, FunctorFacts DEF UserQueues
      <4>4. userCall' \in [Users -> CallType]
        BY <3>2 DEF UserQueues, TypeOK, CallType, NoCall
      <4>5. CallInv'
        BY <3>2 DEF UserQueues, CallInv, TypeOK
      <4>6. TypeOK'
        BY <3>2, <4>3, <4>4
        DEF UserQueues, TypeOK, CallType, connVars, epollVars, loopVars, batchVars
      <4> QED
        BY <4>1, <4>5, <4>6
    <3>3. CASE UserReleases(u)
      <4>1. PhaseInv'
        BY <2>p, <3>3 DEF UserReleases
      <4>2. CallInv'
        BY <3>3 DEF UserReleases, CallInv, TypeOK
      <4>3. TypeOK'
        BY <3>3 DEF UserReleases, TypeOK, connVars, epollVars, loopVars, batchVars
      <4> QED
        BY <4>1, <4>2, <4>3
    <3> QED
      BY <2>7, <3>1, <3>2, <3>3 DEF UserStep
  <2>8. CASE UNCHANGED vars
    <3>1. CallInv' /\ PhaseInv'
      BY <2>8, <2>u, <2>p DEF vars, worldVars
    <3>2. TypeOK'
      BY <2>8 DEF vars, TypeOK, connVars, epollVars, loopVars, batchVars, worldVars, userVars
    <3> QED
      BY <3>1, <3>2
  <2> QED
    BY <2>1, <2>2, <2>3, <2>4, <2>5, <2>6, <2>7, <2>8 DEF Next
<1> QED
  BY <1>1, <1>2, PTL DEF Spec

-----------------------------------------------------------------------------
(***************************************************************************)
(* The invariant.                                                          *)
(***************************************************************************)

\* What the functors of a loop refer to, whether they ran or not.
Held(l) == Range(queue[l]) \cup Range(batch[l])

\* The functors of the batch that did not run yet.
Left(l) == {batch[l][i] : i \in (ran[l] + 1)..Len(batch[l])}

Fresh(c) == state[c] \in {"none", "Connecting"}
Mapped(c) == connMap[fdOf[c]] = c

\* Whatever refers to a connection refers to one that was constructed.
KnownInv ==
    /\ \A c \in Conns : Constructed(c) => fdOf[c] \in Fds
    /\ \A f \in Fds : connMap[f] # NoConn => Constructed(connMap[f]) /\ fdOf[connMap[f]] = f
    /\ \A l \in Loops : \A functor \in Held(l) : Constructed(functor.conn)
    /\ \A l \in Loops : frame[l].conn # NoConn => Constructed(frame[l].conn)
    /\ \A u \in Users : userConn[u] # NoConn => Constructed(userConn[u])

\* Every functor is in the loop it was meant for, and a loop handles only channels
\* of its own that are in epoll.
PlaceInv ==
    /\ \A l \in Loops : \A functor \in Held(l) :
           l = IF functor.kind = "remove" THEN Main ELSE loopOf[functor.conn]
    /\ \A l \in Loops : frame[l].conn # NoConn => loopOf[frame[l].conn] = l
    /\ \A l \in Loops : \A c \in active[l] \ {Acceptor} : c \in epoll /\ loopOf[c] = l

\* Before connectEstablished nothing else happens to a connection.
FreshInv ==
    /\ \A c \in Conns : Fresh(c) =>
           /\ ~reading[c] /\ c \notin epoll
           /\ \A l \in Loops : frame[l].conn # c
           /\ \A u \in Users : userConn[u] # c
           /\ \A l \in Loops : \A functor \in StillToRun(l) :
                  functor.conn = c => functor.kind = "establish"
    /\ \A c \in Conns : ~Fresh(c) => inLoop[c]
    /\ \A l \in Loops : \A functor \in StillToRun(l) :
           functor.kind = "establish" => state[functor.conn] = "Connecting"

\* connectEstablished runs once: a queue q and what is left of a batch b of which r
\* functors ran hold its functor in one place.
Once(q, b, r) ==
    /\ \A i, j \in DOMAIN q : q[i].kind = "establish" /\ q[i] = q[j] => i = j
    /\ \A i, j \in (r + 1)..Len(b) : b[i].kind = "establish" /\ b[i] = b[j] => i = j
    /\ \A i \in DOMAIN q, j \in (r + 1)..Len(b) : q[i].kind = "establish" => q[i] # b[j]

OnceInv == \A l \in Loops : Once(queue[l], batch[l], ran[l])

\* A descriptor belongs to one connection as long as anyone holds that.
OwnerInv == \A c \in Conns : Alive(c) => connMap[fdOf[c]] \in {c, NoConn}

\* A channel that reads is that of an open connection, and one being taken away
\* does not read any more.
ReadingInv ==
    /\ \A c \in Conns : reading[c] => state[c] \in {"Connected", "DisConnecting"}
    /\ \A c \in Conns : Leaving(c) \/ (\E l \in Loops : frame[l] = Closing(c)) => ~reading[c]

\* A channel is in epoll until connectDestroyed, which is still to come.
EpollInv == \A c \in epoll : Mapped(c) \/ Leaving(c)

\* What captured a plain this is covered by a reference of another thread, which
\* keeps it, by the assumption in UserReleases.
RawInv == \A c \in Conns : RawPending(c) => \E u \in Users : userConn[u] = c

\* Without other threads an open connection reads until handleClose.
QuietInv ==
    (\A u \in Users : calls[u] = 0) =>
        \A c \in Conns :
            state[c] \in {"Connected", "DisConnecting"} /\ frame[loopOf[c]] # Closing(c) =>
                reading[c]

ServerInv ==
    /\ KnownInv /\ PlaceInv /\ FreshInv /\ OnceInv /\ OwnerInv
    /\ ReadingInv /\ OpenMeansMapped /\ EpollInv /\ RawInv /\ QuietInv

-----------------------------------------------------------------------------
(***************************************************************************)
(* What the invariant says of the connections something refers to.         *)
(***************************************************************************)

\* The four ways to hold a reference.
LEMMA AliveMeans ==
    ASSUME TypeInv, NEW c \in Conns
    PROVE  Alive(c) <=>
               /\ Constructed(c)
               /\ \/ \E f \in Fds : connMap[f] = c
                  \/ \E l \in Loops : frame[l].conn = c
                  \/ \E l \in Loops : \E functor \in Held(l) :
                         HoldsRef(functor) /\ functor.conn = c
                  \/ \E u \in Users : userConn[u] = c
BY DEF TypeInv, TypeOK, Alive, Range, Captured, Held

\* The functors still to run are those of the queue and of the rest of the batch.
LEMMA StillToRunIsHeld ==
    ASSUME TypeInv, NEW l \in Loops
    PROVE  /\ StillToRun(l) = Range(queue[l]) \cup Left(l)
           /\ StillToRun(l) \subseteq Held(l)
           /\ Held(l) \subseteq Functors
<1>1. /\ batch[l] \in Seq(Functors) /\ ran[l] \in Nat /\ Len(batch[l]) \in Nat
      /\ DOMAIN batch[l] = 1..Len(batch[l])
      /\ queue[l] \in Seq(Functors) /\ Len(queue[l]) \in Nat
      /\ DOMAIN queue[l] = 1..Len(queue[l])
  BY LenProperties DEF TypeInv, TypeOK
<1>2. Left(l) \subseteq Range(batch[l])
  BY <1>1 DEF Left, Range
<1>3. Range(batch[l]) \subseteq Functors /\ Range(queue[l]) \subseteq Functors
  BY <1>1, ElementOfSeq DEF Range
<1>4. StillToRun(l) = Range(queue[l]) \cup Left(l)
  BY DEF StillToRun, Left
<1> QED
  BY <1>2, <1>3, <1>4 DEF Held

(***************************************************************************)
(* The raw pointers of epoll are those of connections that are alive.      *)
(***************************************************************************)
LEMMA EpollIsAlive ==
    ASSUME TypeInv, ServerInv, NEW c \in epoll
    PROVE  c \in Conns /\ Alive(c) /\ ~Fresh(c)
<1>1. c \in Conns /\ ~Fresh(c) /\ Constructed(c)
  BY DEF TypeInv, TypeOK, ServerInv, FreshInv, Fresh, Constructed
<1>2. CASE Mapped(c)
  <2>1. fdOf[c] \in Fds
    BY <1>1 DEF ServerInv, KnownInv
  <2> QED
    BY <1>1, <1>2, <2>1, AliveMeans DEF Mapped
<1>3. CASE Leaving(c)
  <2>1. PICK l \in Loops : \E functor \in StillToRun(l) :
            functor.conn = c /\ functor.kind \in {"remove", "destroy"}
    BY <1>3 DEF Leaving
  <2>2. \E functor \in Held(l) : HoldsRef(functor) /\ functor.conn = c
    BY <2>1, StillToRunIsHeld DEF HoldsRef
  <2> QED
    BY <1>1, <2>2, AliveMeans
<1> QED
  BY <1>1, <1>2, <1>3 DEF ServerInv, EpollInv

\* A channel epoll_wait reported is that of a living connection of this loop.
LEMMA ActiveIsAlive ==
    ASSUME TypeInv, ServerInv, NEW l \in Loops, NEW c \in Conns, c \in active[l]
    PROVE  Alive(c) /\ ~Fresh(c) /\ loopOf[c] = l /\ c \in epoll
<1>1. c \in epoll /\ loopOf[c] = l
  BY NamesAssumption DEF ServerInv, PlaceInv
<1> QED
  BY <1>1, EpollIsAlive

\* So is the one whose handler runs.
LEMMA FrameIsAlive ==
    ASSUME TypeInv, ServerInv, NEW l \in Loops, NEW c \in Conns, frame[l].conn = c
    PROVE  Alive(c) /\ ~Fresh(c) /\ loopOf[c] = l
<1>1. c # NoConn /\ ~Fresh(c) /\ Constructed(c) /\ loopOf[c] = l
  BY NamesAssumption DEF ServerInv, FreshInv, KnownInv, PlaceInv
<1> QED
  BY <1>1, AliveMeans

\* So is one another thread holds, once it was established.
LEMMA UserIsAlive ==
    ASSUME TypeInv, ServerInv, NEW u \in Users, NEW c \in Conns, userConn[u] = c
    PROVE  Alive(c) /\ ~Fresh(c)
<1>1. c # NoConn /\ ~Fresh(c) /\ Constructed(c)
  BY NamesAssumption DEF ServerInv, FreshInv, KnownInv
<1> QED
  BY <1>1, AliveMeans

(***************************************************************************)
(* A functor that runs finds its connection alive, that of send and        *)
(* shutdown because of the thread that called them.                        *)
(***************************************************************************)
LEMMA NextIsAlive ==
    ASSUME TypeInv, ServerInv, NEW l \in Loops, NEW kind, RunFunctor(l, kind)
    PROVE  /\ NextFunctor(l) \in Left(l) /\ NextFunctor(l) \in StillToRun(l)
           /\ NextFunctor(l) \in Functors
           /\ NextFunctor(l).conn \in Conns /\ NextFunctor(l).kind = kind
           /\ Alive(NextFunctor(l).conn)
           /\ kind # "establish" => ~Fresh(NextFunctor(l).conn)
           /\ kind = "establish" => state[NextFunctor(l).conn] = "Connecting"
           /\ l = IF kind = "remove" THEN Main ELSE loopOf[NextFunctor(l).conn]
<1> DEFINE functor == NextFunctor(l)
<1>1. /\ ran[l] + 1 \in (ran[l] + 1)..Len(batch[l])
      /\ functor \in Functors /\ functor.conn \in Conns /\ functor.kind = kind
  BY NextFunctorFacts DEF RunFunctor
<1>2. functor \in Left(l)
  BY <1>1 DEF Left, NextFunctor
<1>3. functor \in StillToRun(l) /\ functor \in Held(l)
  BY <1>2, StillToRunIsHeld
<1>4. Constructed(functor.conn) /\ l = IF kind = "remove" THEN Main ELSE loopOf[functor.conn]
  BY <1>1, <1>3 DEF ServerInv, KnownInv, PlaceInv
<1>5. /\ kind # "establish" => ~Fresh(functor.conn)
      /\ kind = "establish" => state[functor.conn] = "Connecting"
  BY <1>1, <1>3 DEF ServerInv, FreshInv
<1>6. CASE HoldsRef(functor)
  <2>1. Alive(functor.conn)
    BY <1>1, <1>3, <1>4, <1>6, AliveMeans
  <2> QED
    BY <1>1, <1>2, <1>3, <1>4, <1>5, <2>1
<1>7. CASE ~HoldsRef(functor)
  <2>1. RawPending(functor.conn)
    BY <1>3, <1>7 DEF RawPending
  <2>2. \E u \in Users : userConn[u] = functor.conn
    BY <1>1, <2>1 DEF ServerInv, RawInv
  <2>3. Alive(functor.conn)
    BY <1>1, <2>2, UserIsAlive
  <2> QED
    BY <1>1, <1>2, <1>3, <1>4, <1>5, <2>3
<1> QED
  BY <1>6, <1>7

-----------------------------------------------------------------------------
(***************************************************************************)
(* What a step may do to the functors.                                     *)
(***************************************************************************)

\* Queues that stay hold the same functors.
LEMMA QueuesStay ==
    ASSUME UNCHANGED <<queue, batchVars>>, NEW m
    PROVE  Held(m)' = Held(m) /\ StillToRun(m)' = StillToRun(m)
BY DEF Held, StillToRun, batchVars

\* A push adds one functor to one queue.
LEMMA PushRange ==
    ASSUME TypeInv, NEW l \in Loops, NEW functor \in Functors, Push(l, functor),
           NEW m \in Loops
    PROVE  Range(queue[m])' = Range(queue[m]) \cup (IF m = l THEN {functor} ELSE {})
<1>1. /\ queue[m] \in Seq(Functors) /\ Len(queue[m]) \in Nat
      /\ DOMAIN queue[m] = 1..Len(queue[m])
  BY LenProperties DEF TypeInv, TypeOK
<1>2. CASE m = l
  <2>1. queue'[m] = Append(queue[m], functor)
    BY <1>2 DEF Push, TypeInv, TypeOK
  <2>2. /\ Append(queue[m], functor) \in Seq(Functors)
        /\ Len(Append(queue[m], functor)) = Len(queue[m]) + 1
        /\ \A i \in 1..Len(queue[m]) : Append(queue[m], functor)[i] = queue[m][i]
        /\ Append(queue[m], functor)[Len(queue[m]) + 1] = functor
    BY <1>1, AppendProperties
  <2>3. DOMAIN queue'[m] = 1..(Len(queue[m]) + 1)
    BY <2>1, <2>2, LenProperties
  <2> QED
    BY <1>1, <1>2, <2>1, <2>2, <2>3 DEF Range
<1>3. CASE m # l
  BY <1>3 DEF Push, TypeInv, TypeOK, Range
<1> QED
  BY <1>2, <1>3

\* Nothing else is added or lost by a push.
LEMMA PushOnly ==
    ASSUME TypeInv, NEW l \in Loops, NEW functor \in Functors, Push(l, functor),
           UNCHANGED batchVars, NEW m \in Loops
    PROVE  /\ Held(m)' = Held(m) \cup (IF m = l THEN {functor} ELSE {})
           /\ StillToRun(m)' = StillToRun(m) \cup (IF m = l THEN {functor} ELSE {})
<1>1. Range(queue[m])' = Range(queue[m]) \cup (IF m = l THEN {functor} ELSE {})
  BY PushRange
<1>2. Range(batch[m])' = Range(batch[m]) /\ Left(m)' = Left(m)
  BY DEF batchVars, Left, Range
<1>3. StillToRun(m) = Range(queue[m]) \cup Left(m)
  BY DEF StillToRun, Left
<1>4. StillToRun(m)' = Range(queue[m])' \cup Left(m)'
  BY DEF StillToRun, Left
<1>5. Held(m)' = Range(queue[m])' \cup Range(batch[m])'
  BY DEF Held
<1> QED
  BY <1>1, <1>2, <1>3, <1>4, <1>5 DEF Held

\* Running a functor takes that one, and no other, from what is left of the batch.
LEMMA RunLeaves ==
    ASSUME TypeInv, NEW l \in Loops, NEW kind, RunFunctor(l, kind), NEW m \in Loops
    PROVE  /\ Range(batch[m])' = Range(batch[m])
           /\ Left(m)' \subseteq Left(m)
           /\ \A functor \in Left(m) : functor \in Left(m)' \/ (m = l /\ functor = NextFunctor(l))
<1>1. /\ UNCHANGED batch /\ ran' = [ran EXCEPT ![l] = @ + 1]
      /\ ran \in [Loops -> Nat] /\ Len(batch[m]) \in Nat
  BY LenProperties DEF RunFunctor, TypeInv, TypeOK
<1>2. CASE m = l
  BY <1>1, <1>2 DEF Left, NextFunctor, Range
<1>3. CASE m # l
  BY <1>1, <1>3 DEF Left, Range
<1> QED
  BY <1>2, <1>3

\* The same of all the functors of a loop, when nothing is pushed.
LEMMA RunOnly ==
    ASSUME TypeInv, NEW l \in Loops, NEW kind, RunFunctor(l, kind), UNCHANGED queue,
           NEW m \in Loops
    PROVE  /\ Held(m)' = Held(m)
           /\ StillToRun(m)' \subseteq StillToRun(m)
           /\ \A functor \in StillToRun(m) :
                  functor \in StillToRun(m)' \/ (m = l /\ functor = NextFunctor(l))
BY RunLeaves DEF Held, StillToRun, Left

\* The same when the functor that runs pushes another.
LEMMA RunAndPush ==
    ASSUME TypeInv, NEW l \in Loops, NEW kind, RunFunctor(l, kind),
           NEW k \in Loops, NEW pushed \in Functors, Push(k, pushed),
           NEW m \in Loops
    PROVE  /\ Held(m)' = Held(m) \cup (IF m = k THEN {pushed} ELSE {})
           /\ StillToRun(m)' \subseteq StillToRun(m) \cup (IF m = k THEN {pushed} ELSE {})
           /\ \A functor \in StillToRun(m) :
                  functor \in StillToRun(m)' \/ (m = l /\ functor = NextFunctor(l))
           /\ m = k => pushed \in StillToRun(m)'
<1>1. Range(queue[m])' = Range(queue[m]) \cup (IF m = k THEN {pushed} ELSE {})
  BY PushRange
<1>2. /\ Range(batch[m])' = Range(batch[m])
      /\ Left(m)' \subseteq Left(m)
      /\ \A functor \in Left(m) : functor \in Left(m)' \/ (m = l /\ functor = NextFunctor(l))
  BY RunLeaves
<1>3. StillToRun(m) = Range(queue[m]) \cup Left(m)
  BY DEF StillToRun, Left
<1>4. StillToRun(m)' = Range(queue[m])' \cup Left(m)'
  BY DEF StillToRun, Left
<1>5. Held(m)' = Range(queue[m])' \cup Range(batch[m])'
  BY DEF Held
<1> QED
  BY <1>1, <1>2, <1>3, <1>4, <1>5 DEF Held

\* doPendingFunctors takes the queue without losing a functor.
LEMMA SwapKeeps ==
    ASSUME TypeInv, NEW l \in Loops, SwapFunctors(l), NEW m \in Loops
    PROVE  Held(m)' = Held(m) /\ StillToRun(m)' = StillToRun(m)
<1>1. /\ queue \in [Loops -> Seq(Functors)] /\ batch \in [Loops -> Seq(Functors)]
      /\ ran \in [Loops -> Nat] /\ Range(<<>>) = {} /\ Len(<<>>) = 0
  BY EmptySeq DEF TypeInv, TypeOK, Range
<1>2. CASE m = l
  <2>1. /\ batch[m] = <<>> /\ Len(batch[m]) = 0
        /\ batch'[m] = queue[m] /\ queue'[m] = <<>> /\ ran'[m] = 0
    BY <1>1, <1>2 DEF SwapFunctors, TypeInv, PhaseInv
  <2>2. Len(queue[m]) \in Nat /\ DOMAIN queue[m] = 1..Len(queue[m])
    BY <1>1, LenProperties
  <2>3. StillToRun(m) = Range(queue[m])
    BY <1>1, <2>1 DEF StillToRun
  <2>4. StillToRun(m)' = Range(queue[m])
    <3>1. StillToRun(m)' = Range(<<>>) \cup {queue[m][i] : i \in (0 + 1)..Len(queue[m])}
      BY <2>1 DEF StillToRun
    <3> QED
      BY <1>1, <2>2, <3>1 DEF Range
  <2> QED
    BY <1>1, <2>1, <2>3, <2>4 DEF Held
<1>3. CASE m # l
  <2>1. batch'[m] = batch[m] /\ queue'[m] = queue[m] /\ ran'[m] = ran[m]
    BY <1>1, <1>3 DEF SwapFunctors
  <2> QED
    BY <2>1 DEF Held, StillToRun
<1> QED
  BY <1>2, <1>3

\* The end of doPendingFunctors drops functors that ran.
LEMMA DoneKeeps ==
    ASSUME TypeInv, NEW l \in Loops, FunctorsDone(l), NEW m \in Loops
    PROVE  Held(m)' \subseteq Held(m) /\ StillToRun(m)' = StillToRun(m)
<1>1. /\ batch \in [Loops -> Seq(Functors)] /\ ran \in [Loops -> Nat]
      /\ Range(<<>>) = {} /\ Len(<<>>) = 0 /\ UNCHANGED queue
  BY EmptySeq DEF TypeInv, TypeOK, Range, FunctorsDone
<1>2. CASE m = l
  <2>1. batch'[m] = <<>> /\ ran'[m] = 0 /\ ran[m] = Len(batch[m])
    BY <1>1, <1>2 DEF FunctorsDone
  <2>2. StillToRun(m) = Range(queue[m])
    BY <1>1, <2>1 DEF StillToRun
  <2>3. StillToRun(m)' = Range(queue[m])
    BY <1>1, <2>1 DEF StillToRun
  <2> QED
    BY <1>1, <2>1, <2>2, <2>3 DEF Held
<1>3. CASE m # l
  <2>1. batch'[m] = batch[m] /\ ran'[m] = ran[m]
    BY <1>1, <1>3 DEF FunctorsDone
  <2> QED
    BY <1>1, <2>1 DEF Held, StillToRun
<1> QED
  BY <1>2, <1>3

(***************************************************************************)
(* handleClose: the channel reads no more, epoll keeps it, and the functor *)
(* that will take the connection away is on its way.                       *)
(***************************************************************************)
LEMMA HandleCloseEffect ==
    ASSUME TypeInv, ServerInv, NEW l \in Loops, NEW c \in Conns, ~Fresh(c), HandleClose(l, c)
    PROVE  /\ reading' = [reading EXCEPT ![c] = FALSE]
           /\ UNCHANGED <<inLoop, epoll>>
           /\ frame' = [frame EXCEPT ![l] = Closing(c)]
           /\ \/ /\ Push(Main, Functor("remove", c))
                 /\ UNCHANGED connMap
              \/ Remove(c)
<1>1. inLoop[c] /\ inLoop \in [Conns -> BOOLEAN]
  BY DEF TypeInv, TypeOK, ServerInv, FreshInv
<1>2. DisableAll(c)
  BY DEF HandleClose
<1>3. UNCHANGED <<inLoop, epoll>>
  BY <1>1, <1>2 DEF DisableAll, ChannelUpdate
<1> QED
  BY <1>2, <1>3 DEF HandleClose, DisableAll

\* A functor may come from newConnection, for a connection that was not there, from
\* one that is being closed and will not read again, or from a call on one that is
\* known to a user.
Sent(l, functor) ==
    LET c == functor.conn
    IN \/ /\ functor.kind = "establish"
          /\ state[c] = "none" /\ state'[c] = "Connecting" /\ loopOf'[c] = l
       \/ /\ functor.kind \in {"remove", "destroy", "forceClose"}
          /\ Alive(c) /\ ~Fresh(c)
          /\ functor.kind # "forceClose" => ~reading'[c]
          /\ l = IF functor.kind = "remove" THEN Main ELSE loopOf[c]
       \/ /\ functor.kind \in {"send", "shutdown"}
          /\ ~Fresh(c)
          /\ \E u \in Users : userConn[u] = c /\ userConn'[u] = c
          /\ l = loopOf[c]

\* The loop runs its next functor.
Takes(l) ==
    /\ RunFunctor(l, NextFunctor(l).kind)
    /\ NextFunctor(l).kind = "remove" => RunRemove(l)
    /\ NextFunctor(l).kind = "destroy" => RunDestroy(l)

Pushes(l, functor) == Push(l, functor) /\ Sent(l, functor)

QueueWriters ==
    \/ UNCHANGED <<queue, batchVars>>
    \/ \E l \in Loops : SwapFunctors(l) \/ FunctorsDone(l)
    \/ \E l \in Loops : Takes(l) /\ UNCHANGED queue
    \/ \E l \in Loops, functor \in Functors : Pushes(l, functor) /\ UNCHANGED batchVars
    \/ \E l, k \in Loops, functor \in Functors : Takes(l) /\ Pushes(k, functor)

\* A functor leaves the loop by running.
FunctorsMove ==
    \A l \in Loops :
        /\ \A functor \in Held(l)' : functor \in Held(l) \/ Sent(l, functor)
        /\ \A functor \in StillToRun(l)' : functor \in StillToRun(l) \/ Sent(l, functor)
        /\ \A functor \in StillToRun(l) :
               functor \in StillToRun(l)' \/ (functor = NextFunctor(l) /\ Takes(l))

\* Which actions touch the functors, and which functors they send.
LEMMA QueueWrites ==
    ASSUME TypeInv, TypeInv', ServerInv, [Next]_vars PROVE QueueWriters
<1>1. Main \in Loops /\ \A c \in Conns : loopOf[c] \in Loops
  BY DEF Loops, TypeInv, TypeOK
<1>2. ASSUME UNCHANGED <<queue, batchVars>> PROVE QueueWriters
  BY <1>2 DEF QueueWriters
<1>3. ASSUME NEW l \in Loops, NEW functor \in Functors, Push(l, functor), UNCHANGED batchVars,
             Sent(l, functor)
      PROVE  QueueWriters
  BY <1>3 DEF QueueWriters, Pushes
<1>4. ASSUME NEW l \in Loops, NEW kind, RunFunctor(l, kind), UNCHANGED queue,
             kind # "remove", kind = "destroy" => RunDestroy(l)
      PROVE  QueueWriters
  <2>1. NextFunctor(l).kind = kind
    BY <1>4 DEF RunFunctor
  <2> QED
    BY <1>4, <2>1 DEF QueueWriters, Takes
<1>5. ASSUME NEW l \in Loops, NEW kind, RunFunctor(l, kind),
             kind # "destroy", kind = "remove" => RunRemove(l),
             NEW k \in Loops, NEW functor \in Functors, Push(k, functor), Sent(k, functor)
      PROVE  QueueWriters
  <2>1. NextFunctor(l).kind = kind
    BY <1>5 DEF RunFunctor
  <2> QED
    BY <1>5, <2>1 DEF QueueWriters, Takes, Pushes
<1>6. ASSUME NEW l \in Loops, NEW c \in Conns, Alive(c), ~Fresh(c), HandleClose(l, c)
      PROVE  \E k \in Loops, functor \in Functors : Push(k, functor) /\ Sent(k, functor)
  <2>1. ~reading'[c]
    <3>1. reading' = [reading EXCEPT ![c] = FALSE]
      BY <1>6, HandleCloseEffect
    <3> QED
      BY <3>1 DEF TypeInv, TypeOK
  <2>2. CASE Push(Main, Functor("remove", c))
    BY <1>1, <1>6, <2>1, <2>2, FunctorFacts DEF Sent
  <2>3. CASE Push(loopOf[c], Functor("destroy", c))
    BY <1>1, <1>6, <2>1, <2>3, FunctorFacts DEF Sent
  <2> QED
    BY <1>6, <2>2, <2>3, HandleCloseEffect DEF Remove
<1>7. ASSUME NEW l \in Loops, LoopStep(l) PROVE QueueWriters
  <2>1. CASE Poll(l) \/ CloseDone(l) \/ CallbackReturns(l)
    BY <1>2, <2>1 DEF Poll, CloseDone, CallbackReturns
  <2>2. CASE SwapFunctors(l) \/ FunctorsDone(l)
    BY <2>2 DEF QueueWriters
  <2>4. ASSUME NEW c \in Conns, Dispatch(l, c) PROVE QueueWriters
    <3>1. CASE UNCHANGED queue
      BY <1>2, <2>4, <3>1 DEF Dispatch
    <3>2. CASE HandleClose(l, c)
      BY <1>3, <1>6, <2>4, <3>2, ActiveIsAlive DEF Dispatch
    <3> QED
      BY <2>4, <3>1, <3>2 DEF Dispatch
  <2>5. CASE RunEstablish(l)
    BY <1>4, <2>5 DEF RunEstablish
  <2>6. CASE RunRemove(l)
    <3>1. /\ RunFunctor(l, "remove")
          /\ Push(loopOf[NextFunctor(l).conn], Functor("destroy", NextFunctor(l).conn))
      BY <2>6 DEF RunRemove, Remove
    <3>2. /\ Alive(NextFunctor(l).conn) /\ ~Fresh(NextFunctor(l).conn)
          /\ NextFunctor(l).conn \in Conns
          /\ Leaving(NextFunctor(l).conn) /\ UNCHANGED reading
      BY <2>6, <3>1, NextIsAlive DEF Leaving, RunRemove, epollVars
    <3>3. ~reading'[NextFunctor(l).conn]
      BY <3>2 DEF ServerInv, ReadingInv
    <3>4. Sent(loopOf[NextFunctor(l).conn], Functor("destroy", NextFunctor(l).conn))
      BY <3>2, <3>3, FunctorFacts DEF Sent
    <3> QED
      BY <1>1, <1>5, <2>6, <3>1, <3>2, <3>4, FunctorFacts
  <2>7. CASE RunDestroy(l)
    BY <1>4, <2>7 DEF RunDestroy
  <2>8. CASE RunForceClose(l)
    <3>1. RunFunctor(l, "forceClose")
      BY <2>8 DEF RunForceClose
    <3>2. CASE UNCHANGED queue
      BY <1>4, <3>1, <3>2
    <3>3. CASE HandleClose(l, NextFunctor(l).conn)
      BY <1>5, <1>6, <3>1, <3>3, NextIsAlive
    <3> QED
      BY <2>8, <3>2, <3>3 DEF RunForceClose
  <2>9. CASE RunSend(l)
    BY <1>4, <2>9 DEF RunSend
  <2>10. CASE RunShutdown(l)
    BY <1>4, <2>10 DEF RunShutdown
  <2> QED
    BY <1>7, <2>1, <2>2, <2>4, <2>5, <2>6, <2>7, <2>8, <2>9, <2>10 DEF LoopStep
<1>8. ASSUME NEW l \in Loops, CallbackStep(l) PROVE QueueWriters
  <2>1. CASE CallbackForcesClose(l)
    <3>1. frame[l].conn \in Conns
      BY <2>1, FrameConn DEF CallbackForcesClose, InCallback, TypeInv
    <3>2. Alive(frame[l].conn) /\ ~Fresh(frame[l].conn) /\ loopOf[frame[l].conn] = l
      BY <3>1, FrameIsAlive
    <3>3. Sent(l, Functor("forceClose", frame[l].conn))
      BY <3>2, FunctorFacts DEF Sent
    <3> QED
      BY <1>3, <2>1, <3>1, <3>3, FunctorFacts DEF CallbackForcesClose
  <2>2. CASE (\E u \in Users : CallbackHandsOver(l, u)) \/ CallbackSends(l) \/ CallbackShutsDown(l)
    BY <1>2, <2>2 DEF CallbackHandsOver, CallbackSends, CallbackShutsDown
  <2> QED
    BY <1>8, <2>1, <2>2 DEF CallbackStep
<1>9. ASSUME NEW c \in Conns, NEW f \in Fds, NEW l \in Loops, Accept(c, f, l) PROVE QueueWriters
  <2>1. CASE l = Main
    BY <1>2, <1>9, <2>1 DEF Accept
  <2>2. CASE l # Main
    <3>1. /\ state[c] = "none" /\ state'[c] = "Connecting" /\ loopOf'[c] = l
          /\ Push(l, Functor("establish", c)) /\ UNCHANGED batchVars
      BY <1>9, <2>2 DEF Accept, Constructed, TypeInv, TypeOK
    <3>2. Sent(l, Functor("establish", c))
      BY <3>1, FunctorFacts DEF Sent
    <3> QED
      BY <1>3, <3>1, <3>2, FunctorFacts
  <2> QED
    BY <2>1, <2>2
<1>10. CASE AcceptFails \/ \E c \in Conns : PeerCloses(c)
  BY <1>2, <1>10 DEF AcceptFails, PeerCloses
<1>11. ASSUME NEW u \in Users, NEW op, UserTests(u, op) PROVE QueueWriters
  BY <1>2, <1>11 DEF UserTests
<1>12. ASSUME NEW u \in Users, UserStep(u) PROVE QueueWriters
  <2>1. CASE UserQueues(u)
    <3>1. /\ userConn[u] \in Conns
          /\ userCall[u].op \in {"send", "shutdown", "forceClose"}
      BY <2>1 DEF UserQueues, TypeInv, CallInv, NoCall, TypeOK
    <3>2. Alive(userConn[u]) /\ ~Fresh(userConn[u]) /\ UNCHANGED userConn
      BY <2>1, <3>1, UserIsAlive DEF UserQueues
    <3>3. Sent(loopOf[userConn[u]], Functor(userCall[u].op, userConn[u]))
      BY <3>1, <3>2, FunctorFacts DEF Sent
    <3> QED
      BY <1>1, <1>3, <2>1, <3>1, <3>3, FunctorFacts DEF UserQueues
  <2>2. CASE UserSets(u) \/ UserReleases(u)
    BY <1>2, <2>2 DEF UserSets, UserReleases
  <2> QED
    BY <1>12, <2>1, <2>2 DEF UserStep
<1>13. CASE UNCHANGED vars
  BY <1>2, <1>13 DEF vars
<1> QED
  BY <1>7, <1>8, <1>9, <1>10, <1>11, <1>12, <1>13 DEF Next

\* Hence how the functors of the loops may change in a step.
LEMMA FunctorStep ==
    ASSUME TypeInv, TypeInv', QueueWriters PROVE FunctorsMove
<1>1. CASE UNCHANGED <<queue, batchVars>>
  BY <1>1, QueuesStay DEF FunctorsMove
<1>2. ASSUME NEW l \in Loops, SwapFunctors(l) PROVE FunctorsMove
  BY <1>2, SwapKeeps DEF FunctorsMove
<1>3. ASSUME NEW l \in Loops, FunctorsDone(l) PROVE FunctorsMove
  BY <1>3, DoneKeeps DEF FunctorsMove
<1>4. ASSUME NEW l \in Loops, Takes(l), UNCHANGED queue PROVE FunctorsMove
  BY <1>4, RunOnly DEF FunctorsMove, Takes
<1>5. ASSUME NEW l \in Loops, NEW functor \in Functors, Pushes(l, functor), UNCHANGED batchVars
      PROVE  FunctorsMove
  BY <1>5, PushOnly DEF FunctorsMove, Pushes
<1>6. ASSUME NEW l \in Loops, NEW k \in Loops, NEW functor \in Functors,
             Takes(l), Pushes(k, functor)
      PROVE  FunctorsMove
  BY <1>6, RunAndPush DEF FunctorsMove, Takes, Pushes
<1> QED
  BY <1>1, <1>2, <1>3, <1>4, <1>5, <1>6 DEF QueueWriters

-----------------------------------------------------------------------------
(***************************************************************************)
(* Which actions write which variables.                                    *)
(***************************************************************************)

Accepts == \E c \in Conns, f \in Fds, l \in Loops : Accept(c, f, l)

\* handleClose starts, of a connection that is open.
StartsClose(l, c) ==
    /\ loopOf[c] = l /\ Closable(c) /\ Alive(c) /\ ~Fresh(c) /\ frame[l] = Idle
    /\ HandleClose(l, c)
    /\ UNCHANGED <<state, connVars>>

\* messageCb is called.
StartsCallback(l, c) ==
    /\ loopOf[c] = l /\ Alive(c) /\ ~Fresh(c) /\ frame[l] = Idle
    /\ frame' = [frame EXCEPT ![l] = Callback(c)]
    /\ UNCHANGED <<state, connVars>>

EndsCallback(l) ==
    /\ InCallback(l)
    /\ frame' = [frame EXCEPT ![l] = Idle]

StartsWrite(c) == ~Fresh(c) /\ EnableWrite(c) /\ UNCHANGED state

SomeClose == \E l \in Loops, c \in Conns : StartsClose(l, c)

StateWriters ==
    \/ UNCHANGED state
    \/ \E l \in Loops : \/ CloseDone(l) \/ RunEstablish(l) \/ RunDestroy(l)
                        \/ CallbackShutsDown(l) \/ CallbackForcesClose(l)
    \/ \E u \in Users : UserSets(u)
    \/ Accepts

ChannelWriters ==
    \/ UNCHANGED epollVars
    \/ \E l \in Loops : RunEstablish(l) \/ RunDestroy(l)
    \/ \E c \in Conns : StartsWrite(c)
    \/ SomeClose \/ Accepts

FrameWriters ==
    \/ UNCHANGED frame
    \/ \E l \in Loops : CloseDone(l) \/ RunEstablish(l) \/ EndsCallback(l)
    \/ \E l \in Loops, c \in Conns : StartsCallback(l, c)
    \/ SomeClose \/ Accepts

MapWriters ==
    \/ UNCHANGED connMap
    \/ \E l \in Loops : RunRemove(l)
    \/ SomeClose \/ Accepts

ConnWriters == UNCHANGED connVars \/ Accepts

ActiveWriters ==
    \/ \A l \in Loops : active'[l] \subseteq active[l]
    \/ \E l \in Loops : Poll(l)

UserWriters ==
    \/ UNCHANGED userConn
    \/ \E l \in Loops, u \in Users : CallbackHandsOver(l, u)
    \/ \E u \in Users : UserReleases(u)

Writers ==
    /\ StateWriters /\ ChannelWriters /\ FrameWriters /\ MapWriters
    /\ ConnWriters /\ ActiveWriters /\ UserWriters
    /\ \A u \in Users : calls[u] <= calls'[u]

\* Every step writes each variable through one of these.
LEMMA WhoWrites ==
    ASSUME TypeInv, TypeInv', ServerInv, [Next]_vars PROVE Writers
<1> USE DEF Writers, StateWriters, ChannelWriters, FrameWriters, MapWriters, ConnWriters,
            ActiveWriters, UserWriters
<1>1. \A u \in Users : calls[u] \in Nat
  BY CallsAssumption DEF TypeInv, TypeOK
<1>2. ASSUME UNCHANGED calls PROVE \A u \in Users : calls[u] <= calls'[u]
  BY <1>1, <1>2
<1>3. ASSUME NEW l \in Loops, NEW kind, RunFunctor(l, kind)
      PROVE  /\ UNCHANGED <<connVars, active, userConn, calls>>
             /\ NextFunctor(l).conn \in Conns /\ Alive(NextFunctor(l).conn)
             /\ kind # "establish" => ~Fresh(NextFunctor(l).conn)
             /\ kind # "remove" => loopOf[NextFunctor(l).conn] = l
             /\ frame[l] = Idle
  BY <1>3, NextIsAlive DEF RunFunctor, loopVars, worldVars, userVars
<1>4. ASSUME NEW l \in Loops, CallbackStep(l) \/ EndsCallback(l)
      PROVE  /\ frame[l].conn \in Conns /\ Alive(frame[l].conn) /\ ~Fresh(frame[l].conn)
             /\ loopOf[frame[l].conn] = l
  <2>1. InCallback(l)
    BY <1>4 DEF EndsCallback, CallbackStep, CallbackHandsOver, CallbackSends,
                CallbackShutsDown, CallbackForcesClose
  <2>2. frame[l].conn \in Conns
    BY <2>1, FrameConn DEF InCallback, TypeInv
  <2> QED
    BY <2>2, FrameIsAlive
<1>5. ASSUME NEW l \in Loops, LoopStep(l) PROVE Writers
  <2>1. CASE Poll(l)
    BY <1>2, <2>1 DEF Poll, worldVars, userVars
  <2>2. CASE SwapFunctors(l)
    BY <1>2, <2>2 DEF SwapFunctors, worldVars, userVars
  <2>3. CASE FunctorsDone(l)
    BY <1>2, <2>3 DEF FunctorsDone, worldVars, userVars
  <2>4. CASE CloseDone(l)
    BY <1>2, <2>4 DEF CloseDone, loopVars, worldVars, userVars
  <2>5. CASE CallbackReturns(l)
    BY <1>2, <2>5 DEF CallbackReturns, EndsCallback, loopVars, worldVars, userVars
  <2>6. ASSUME NEW c \in Conns, Dispatch(l, c) PROVE Writers
    <3>1. /\ Alive(c) /\ ~Fresh(c) /\ loopOf[c] = l /\ frame[l] = Idle
          /\ UNCHANGED <<state, connVars, userConn, calls>>
      BY <2>6, ActiveIsAlive DEF Dispatch, worldVars, userVars
    <3>2. \A k \in Loops : active'[k] \subseteq active[k]
      BY <2>6 DEF Dispatch, TypeInv, TypeOK
    <3>3. CASE HandleClose(l, c) /\ reading[c]
      <4>1. StartsClose(l, c)
        BY <3>1, <3>3 DEF StartsClose, ServerInv, ReadingInv, Closable
      <4> QED
        BY <1>2, <3>1, <3>2, <4>1 DEF SomeClose
    <3>4. CASE UNCHANGED <<connMap, epollVars>> /\ frame' = [frame EXCEPT ![l] = Callback(c)]
      BY <1>2, <3>1, <3>2, <3>4 DEF StartsCallback
    <3>5. CASE UNCHANGED <<connMap, epollVars, frame>>
      BY <1>2, <3>1, <3>2, <3>5
    <3> QED
      BY <2>6, <3>3, <3>4, <3>5 DEF Dispatch
  <2>7. CASE RunEstablish(l)
    BY <1>2, <1>3, <2>7 DEF RunEstablish
  <2>8. CASE RunRemove(l)
    BY <1>2, <1>3, <2>8 DEF RunRemove
  <2>9. CASE RunDestroy(l)
    BY <1>2, <1>3, <2>9 DEF RunDestroy
  <2>10. CASE RunForceClose(l)
    <3>1. RunFunctor(l, "forceClose") /\ UNCHANGED state
      BY <2>10 DEF RunForceClose
    <3>2. CASE Closable(NextFunctor(l).conn) /\ HandleClose(l, NextFunctor(l).conn)
      <4>1. SomeClose
        BY <1>3, <3>1, <3>2 DEF SomeClose, StartsClose
      <4> QED
        BY <1>2, <1>3, <3>1, <4>1
    <3>3. CASE UNCHANGED <<connMap, epollVars, frame>>
      BY <1>2, <1>3, <3>1, <3>3
    <3> QED
      BY <2>10, <3>2, <3>3 DEF RunForceClose
  <2>11. CASE RunSend(l)
    <3>1. RunFunctor(l, "send") /\ UNCHANGED <<connMap, state, frame>>
      BY <2>11 DEF RunSend
    <3>2. UNCHANGED epollVars \/ StartsWrite(NextFunctor(l).conn)
      BY <1>3, <2>11, <3>1 DEF RunSend, SendInLoop, StartsWrite
    <3> QED
      BY <1>2, <1>3, <3>1, <3>2
  <2>12. CASE RunShutdown(l)
    BY <1>2, <1>3, <2>12 DEF RunShutdown
  <2> QED
    BY <1>5, <2>1, <2>2, <2>3, <2>4, <2>5, <2>6, <2>7, <2>8, <2>9, <2>10, <2>11, <2>12
    DEF LoopStep
<1>6. ASSUME NEW l \in Loops, CallbackStep(l) PROVE Writers
  <2>1. ASSUME NEW u \in Users, CallbackHandsOver(l, u) PROVE Writers
    BY <1>2, <2>1 DEF CallbackHandsOver, EndsCallback, loopVars
  <2>2. CASE CallbackSends(l)
    <3>1. UNCHANGED epollVars \/ StartsWrite(frame[l].conn)
      BY <1>4, <1>6, <2>2 DEF CallbackSends, SendInLoop, StartsWrite
    <3> QED
      BY <1>2, <1>4, <1>6, <2>2, <3>1
      DEF CallbackSends, loopVars, worldVars, userVars
  <2>3. CASE CallbackShutsDown(l)
    BY <1>2, <2>3 DEF CallbackShutsDown, loopVars, worldVars, userVars
  <2>4. CASE CallbackForcesClose(l)
    BY <1>2, <2>4 DEF CallbackForcesClose, EndsCallback, loopVars, worldVars, userVars
  <2> QED
    BY <1>6, <2>1, <2>2, <2>3, <2>4 DEF CallbackStep
<1>7. CASE Accepts
  <2>1. PICK c \in Conns, f \in Fds, l \in Loops : Accept(c, f, l)
    BY <1>7 DEF Accepts
  <2>2. (\A k \in Loops : active'[k] \subseteq active[k]) /\ UNCHANGED <<userConn, calls>>
    BY <2>1 DEF Accept, worldVars, userVars, TypeInv, TypeOK
  <2> QED
    BY <1>2, <1>7, <2>2
<1>8. CASE AcceptFails
  <2>1. \A k \in Loops : active'[k] \subseteq active[k]
    BY <1>8 DEF AcceptFails, TypeInv, TypeOK
  <2> QED
    BY <1>2, <1>8, <2>1 DEF AcceptFails, worldVars, userVars
<1>9. ASSUME NEW c \in Conns, PeerCloses(c) PROVE Writers
  BY <1>2, <1>9 DEF PeerCloses, loopVars, userVars
<1>10. ASSUME NEW u \in Users, NEW op, UserTests(u, op) PROVE Writers
  <2>1. \A v \in Users : calls[v] <= calls'[v]
    BY <1>1, <1>10 DEF UserTests, TypeInv, TypeOK
  <2> QED
    BY <1>10, <2>1 DEF UserTests, loopVars
<1>11. ASSUME NEW u \in Users, UserStep(u) PROVE Writers
  <2>1. CASE UserSets(u)
    BY <1>2, <2>1 DEF UserSets, loopVars
  <2>2. CASE UserQueues(u)
    BY <1>2, <2>2 DEF UserQueues, loopVars
  <2>3. CASE UserReleases(u)
    BY <1>2, <2>3 DEF UserReleases, loopVars
  <2> QED
    BY <1>11, <2>1, <2>2, <2>3 DEF UserStep
<1>12. CASE UNCHANGED vars
  BY <1>2, <1>12 DEF vars, loopVars, worldVars, userVars
<1> QED
  BY <1>5, <1>6, <1>7, <1>8, <1>9, <1>10, <1>11, <1>12 DEF Next, Accepts
-----------------------------------------------------------------------------
(***************************************************************************)
(* What a step may do to a connection, a loop, a descriptor or a thread.   *)
(***************************************************************************)

\* newConnection gives a connection its descriptor and its loop, for good.
PlaceMoves(c) ==
    IF Constructed(c)
      THEN fdOf'[c] = fdOf[c] /\ loopOf'[c] = loopOf[c] /\ Constructed(c)'
      ELSE \/ ~Constructed(c)'
           \/ \E f \in FreeFds :
                 fdOf'[c] = f /\ connMap'[f] = c /\ state'[c] \in {"Connecting", "Connected"}

\* A connection that was established goes on to DisConnecting and DisConnected, and
\* a connection is established by newConnection or by its functor.
StateMoves(c) ==
    \/ state'[c] = state[c]
    \/ ~Fresh(c) /\ state'[c] = "DisConnected" /\ ~reading'[c]
    \/ /\ ~Fresh(c) /\ state'[c] = "DisConnecting"
       /\ Closable(c) \/ \E u \in Users : calls[u] > 0
    \/ /\ state[c] = "Connecting" /\ state'[c] = "Connected" /\ reading'[c]
       /\ RunEstablish(loopOf[c]) /\ NextFunctor(loopOf[c]) = Functor("establish", c)
    \/ state[c] = "none" /\ state'[c] = "Connecting" /\ ~reading'[c]
    \/ state[c] = "none" /\ state'[c] = "Connected" /\ reading'[c]

ChannelMoves(c) ==
    /\ reading'[c] => reading[c] \/ (Fresh(c) /\ state'[c] = "Connected")
    /\ reading[c] => \/ reading'[c] \/ state'[c] = "DisConnected"
                     \/ frame'[loopOf[c]] = Closing(c)
    /\ inLoop[c] \/ (Fresh(c) /\ ~Fresh(c)') => inLoop'[c]
    /\ c \in epoll' => c \in epoll \/ (Fresh(c) /\ ~Fresh(c)')
    /\ c \in epoll /\ c \notin epoll' => RunDestroy(loopOf[c])

FrameMoves(l) ==
    \/ frame'[l] = frame[l]
    \/ frame'[l] = Idle /\ \A c \in Conns : frame[l] = Closing(c) => state'[c] = "DisConnected"
    \/ \E c \in Conns :
          /\ frame[l] = Idle /\ loopOf'[c] = l /\ ~Fresh(c)' /\ (Constructed(c) => Alive(c))
          /\ \/ frame'[l] = Callback(c)
             \/ frame'[l] = Closing(c) /\ ~reading'[c] /\ Closable(c)

\* An entry of the map is made for a descriptor that no one has, and erased for
\* its owner, with the functor that will take that away queued.
MapMoves(f) ==
    \/ connMap'[f] = connMap[f]
    \/ \E c \in Conns :
          /\ Alive(c) /\ ~Fresh(c) /\ fdOf[c] = f /\ ~reading'[c] /\ connMap'[f] = NoConn
          /\ Functor("destroy", c) \in StillToRun(loopOf[c])'
    \/ \E c \in Conns :
          /\ f \in FreeFds /\ fdOf'[c] = f /\ connMap'[f] = c
          /\ ~Constructed(c) /\ Constructed(c)'

UserMoves(u) ==
    \/ userConn'[u] = userConn[u]
    \/ userConn'[u] = NoConn /\ ~RawPending(userConn[u])
    \/ userConn[u] = NoConn /\ \E l \in Loops : userConn'[u] = frame[l].conn

ActiveMoves(l) ==
    \A c \in active'[l] \ {Acceptor} :
        c \in active[l] \/ (c \in epoll /\ c \in epoll' /\ loopOf[c] = l)

Moves ==
    /\ \A c \in Conns : PlaceMoves(c) /\ StateMoves(c) /\ ChannelMoves(c)
    /\ \A l \in Loops : FrameMoves(l) /\ ActiveMoves(l)
    /\ \A f \in Fds : MapMoves(f)
    /\ \A u \in Users : UserMoves(u) /\ calls[u] <= calls'[u]
    /\ FunctorsMove /\ QueueWriters

\* newConnection, in both of its forms: with and without io loops.
LEMMA AcceptEffect ==
    ASSUME TypeInv, ServerInv, NEW c \in Conns, NEW f \in Fds, NEW l \in Loops, Accept(c, f, l)
    PROVE  /\ state[c] = "none" /\ f \in FreeFds
           /\ fdOf' = [fdOf EXCEPT ![c] = f] /\ loopOf' = [loopOf EXCEPT ![c] = l]
           /\ connMap' = [connMap EXCEPT ![f] = c]
           /\ \/ /\ l = Main /\ frame[l] = Idle
                 /\ state' = [state EXCEPT ![c] = "Connected"]
                 /\ reading' = [reading EXCEPT ![c] = TRUE]
                 /\ inLoop' = [inLoop EXCEPT ![c] = TRUE]
                 /\ epoll \subseteq epoll' /\ epoll' \subseteq epoll \cup {c}
                 /\ frame' = [frame EXCEPT ![l] = Callback(c)]
              \/ /\ state' = [state EXCEPT ![c] = "Connecting"]
                 /\ UNCHANGED <<reading, inLoop, epoll, frame>>
<1>1. CASE l = Main
  BY <1>1 DEF Accept, Constructed, Establish, EnableRead, ChannelUpdate
<1>2. CASE l # Main
  BY <1>2 DEF Accept, Constructed, epollVars
<1> QED
  BY <1>1, <1>2

\* connectEstablished, run from its functor.
LEMMA EstablishEffect ==
    ASSUME TypeInv, ServerInv, NEW l \in Loops, RunEstablish(l)
    PROVE  \E c \in Conns :
               /\ NextFunctor(l) = Functor("establish", c) /\ loopOf[c] = l
               /\ Alive(c) /\ state[c] = "Connecting" /\ frame[l] = Idle
               /\ state' = [state EXCEPT ![c] = "Connected"]
               /\ reading' = [reading EXCEPT ![c] = TRUE]
               /\ inLoop' = [inLoop EXCEPT ![c] = TRUE]
               /\ epoll \subseteq epoll' /\ epoll' \subseteq epoll \cup {c}
               /\ frame' = [frame EXCEPT ![l] = Callback(c)]
               /\ UNCHANGED connVars
<1>1. RunFunctor(l, "establish") /\ Establish(l, NextFunctor(l).conn)
  BY DEF RunEstablish
<1>2. /\ NextFunctor(l).conn \in Conns /\ NextFunctor(l).kind = "establish"
      /\ loopOf[NextFunctor(l).conn] = l
      /\ Alive(NextFunctor(l).conn) /\ state[NextFunctor(l).conn] = "Connecting"
  BY <1>1, NextIsAlive
<1>3. NextFunctor(l) = Functor("establish", NextFunctor(l).conn)
  BY <1>1, <1>2, NextFunctorFacts DEF RunFunctor
<1> QED
  BY <1>1, <1>2, <1>3 DEF RunFunctor, Establish, EnableRead, ChannelUpdate

\* connectDestroyed finds a channel that does not read any more.
LEMMA DestroyEffect ==
    ASSUME TypeInv, ServerInv, NEW l \in Loops, RunDestroy(l)
    PROVE  \E c \in Conns :
               /\ NextFunctor(l) = Functor("destroy", c) /\ loopOf[c] = l
               /\ Alive(c) /\ ~Fresh(c) /\ ~reading[c]
               /\ epoll' = epoll \ {c} /\ UNCHANGED inLoop
               /\ \/ UNCHANGED <<state, reading>>
                  \/ /\ state' = [state EXCEPT ![c] = "DisConnected"]
                     /\ reading' = [reading EXCEPT ![c] = FALSE]
               /\ UNCHANGED connVars
<1>1. RunFunctor(l, "destroy") /\ Destroy(NextFunctor(l).conn)
  BY DEF RunDestroy
<1>2. /\ NextFunctor(l).conn \in Conns /\ NextFunctor(l).kind = "destroy"
      /\ loopOf[NextFunctor(l).conn] = l /\ NextFunctor(l) \in StillToRun(l)
      /\ Alive(NextFunctor(l).conn) /\ ~Fresh(NextFunctor(l).conn)
  BY <1>1, NextIsAlive
<1>3. NextFunctor(l) = Functor("destroy", NextFunctor(l).conn)
  BY <1>1, <1>2, NextFunctorFacts DEF RunFunctor
<1>4. ~reading[NextFunctor(l).conn]
  BY <1>2 DEF ServerInv, ReadingInv, Leaving
<1> QED
  BY <1>1, <1>2, <1>3, <1>4 DEF RunFunctor, Destroy, ChannelRemove

\* handleClose up to closeCb.
LEMMA StartsCloseEffect ==
    ASSUME TypeInv, ServerInv, NEW l \in Loops, NEW c \in Conns, StartsClose(l, c)
    PROVE  /\ loopOf[c] = l /\ Closable(c) /\ Alive(c) /\ ~Fresh(c) /\ frame[l] = Idle
           /\ reading' = [reading EXCEPT ![c] = FALSE]
           /\ UNCHANGED <<inLoop, epoll, state, connVars>>
           /\ frame' = [frame EXCEPT ![l] = Closing(c)]
           /\ \/ UNCHANGED connMap
              \/ Remove(c)
BY HandleCloseEffect DEF StartsClose

\* The rest of handleClose.
LEMMA CloseDoneEffect ==
    ASSUME TypeInv, ServerInv, NEW l \in Loops, CloseDone(l)
    PROVE  \E c \in Conns :
               /\ frame[l] = Closing(c) /\ ~Fresh(c) /\ ~reading[c]
               /\ state' = [state EXCEPT ![c] = "DisConnected"]
               /\ frame' = [frame EXCEPT ![l] = Idle]
               /\ UNCHANGED <<connMap, connVars, epollVars>>
<1>1. frame[l].at = "closing"
  BY DEF CloseDone
<1>2. frame[l].conn \in Conns /\ frame[l] = Closing(frame[l].conn)
  BY <1>1, FrameConn DEF TypeInv
<1>3. ~Fresh(frame[l].conn) /\ ~reading[frame[l].conn]
  BY <1>2, FrameIsAlive DEF ServerInv, ReadingInv
<1> QED
  BY <1>2, <1>3 DEF CloseDone

\* shutdown and forceClose from a callback.
LEMMA CallbackSetsEffect ==
    ASSUME TypeInv, ServerInv, NEW l \in Loops, CallbackShutsDown(l) \/ CallbackForcesClose(l)
    PROVE  \E c \in Conns :
               /\ ~Fresh(c) /\ Closable(c)
               /\ state' = [state EXCEPT ![c] = "DisConnecting"]
<1>1. InCallback(l)
  BY DEF CallbackShutsDown, CallbackForcesClose
<1>2. frame[l].conn \in Conns /\ ~Fresh(frame[l].conn)
  BY <1>1, FrameConn, FrameIsAlive DEF InCallback, TypeInv
<1> QED
  BY <1>2 DEF CallbackShutsDown, CallbackForcesClose, Closable

\* shutdown and forceClose of another thread.
LEMMA UserSetsEffect ==
    ASSUME TypeInv, ServerInv, NEW u \in Users, UserSets(u)
    PROVE  \E c \in Conns :
               /\ ~Fresh(c) /\ calls[u] > 0
               /\ state' = [state EXCEPT ![c] = "DisConnecting"]
<1>1. userCall[u] # NoCall
  BY DEF UserSets, NoCall
<1>2. userConn[u] \in Conns /\ calls[u] > 0
  BY <1>1 DEF TypeInv, CallInv, TypeOK
<1> QED
  BY <1>2, UserIsAlive DEF UserSets

\* Descriptor and loop are given once.
LEMMA PlaceStep ==
    ASSUME TypeInv, TypeInv', ServerInv, Writers, NEW c \in Conns
    PROVE  PlaceMoves(c)
<1>1. CASE Accepts
  <2>1. PICK d \in Conns, f \in Fds, l \in Loops : Accept(d, f, l)
    BY <1>1 DEF Accepts
  <2>2. /\ state[d] = "none" /\ f \in FreeFds
        /\ fdOf' = [fdOf EXCEPT ![d] = f] /\ loopOf' = [loopOf EXCEPT ![d] = l]
        /\ connMap' = [connMap EXCEPT ![f] = d]
        /\ \/ state' = [state EXCEPT ![d] = "Connected"]
           \/ state' = [state EXCEPT ![d] = "Connecting"]
    BY <2>1, AcceptEffect
  <2> QED
    BY <2>2 DEF PlaceMoves, Constructed, TypeInv, TypeOK
<1>2. CASE UNCHANGED connVars /\ ~Accepts
  <2>1. UNCHANGED <<fdOf, loopOf>>
    BY <1>2 DEF connVars
  <2>2. Constructed(c) <=> Constructed(c)'
    <3>0. ASSUME NEW d \in Conns, state[d] # "none",
                 NEW s \in States \ {"none"}, state' = [state EXCEPT ![d] = s]
          PROVE  Constructed(c) <=> Constructed(c)'
      BY <3>0 DEF Constructed, TypeInv, TypeOK
    <3>1. CASE UNCHANGED state
      BY <3>1 DEF Constructed
    <3>2. ASSUME NEW l \in Loops, CloseDone(l) PROVE Constructed(c) <=> Constructed(c)'
      BY <3>0, <3>2, CloseDoneEffect DEF Fresh, States
    <3>3. ASSUME NEW l \in Loops, RunEstablish(l) PROVE Constructed(c) <=> Constructed(c)'
      BY <3>0, <3>3, EstablishEffect DEF States
    <3>4. ASSUME NEW l \in Loops, RunDestroy(l) PROVE Constructed(c) <=> Constructed(c)'
      BY <3>0, <3>1, <3>4, DestroyEffect DEF Fresh, States
    <3>5. ASSUME NEW l \in Loops, CallbackShutsDown(l) \/ CallbackForcesClose(l)
          PROVE  Constructed(c) <=> Constructed(c)'
      BY <3>0, <3>5, CallbackSetsEffect DEF Fresh, States
    <3>6. ASSUME NEW u \in Users, UserSets(u) PROVE Constructed(c) <=> Constructed(c)'
      BY <3>0, <3>6, UserSetsEffect DEF Fresh, States
    <3> QED
      BY <1>2, <3>1, <3>2, <3>3, <3>4, <3>5, <3>6 DEF Writers, StateWriters
  <2> QED
    BY <2>1, <2>2 DEF PlaceMoves
<1> QED
  BY <1>1, <1>2 DEF Writers, ConnWriters

\* The states a connection goes through.
LEMMA StateStep ==
    ASSUME TypeInv, TypeInv', ServerInv, Writers, NEW c \in Conns
    PROVE  StateMoves(c)
<1> USE DEF StateMoves
<1>1. CASE UNCHANGED state
  BY <1>1
<1>2. ASSUME NEW l \in Loops, CloseDone(l) PROVE StateMoves(c)
  <2>1. PICK d \in Conns : /\ ~Fresh(d) /\ ~reading[d] /\ UNCHANGED epollVars
                           /\ state' = [state EXCEPT ![d] = "DisConnected"]
    BY <1>2, CloseDoneEffect
  <2> QED
    BY <2>1 DEF epollVars, TypeInv, TypeOK
<1>3. ASSUME NEW l \in Loops, RunEstablish(l) PROVE StateMoves(c)
  <2>1. PICK d \in Conns : /\ NextFunctor(l) = Functor("establish", d) /\ loopOf[d] = l
                           /\ state[d] = "Connecting"
                           /\ state' = [state EXCEPT ![d] = "Connected"]
                           /\ reading' = [reading EXCEPT ![d] = TRUE]
    BY <1>3, EstablishEffect
  <2> QED
    BY <1>3, <2>1 DEF TypeInv, TypeOK
<1>4. ASSUME NEW l \in Loops, RunDestroy(l) PROVE StateMoves(c)
  <2>1. PICK d \in Conns : /\ ~Fresh(d)
                           /\ \/ UNCHANGED <<state, reading>>
                              \/ /\ state' = [state EXCEPT ![d] = "DisConnected"]
                                 /\ reading' = [reading EXCEPT ![d] = FALSE]
    BY <1>4, DestroyEffect
  <2> QED
    BY <1>1, <2>1 DEF TypeInv, TypeOK
<1>5. ASSUME NEW l \in Loops, CallbackShutsDown(l) \/ CallbackForcesClose(l) PROVE StateMoves(c)
  <2>1. PICK d \in Conns : /\ ~Fresh(d) /\ Closable(d)
                           /\ state' = [state EXCEPT ![d] = "DisConnecting"]
    BY <1>5, CallbackSetsEffect
  <2> QED
    BY <2>1 DEF TypeInv, TypeOK
<1>6. ASSUME NEW u \in Users, UserSets(u) PROVE StateMoves(c)
  <2>1. PICK d \in Conns : /\ ~Fresh(d) /\ calls[u] > 0
                           /\ state' = [state EXCEPT ![d] = "DisConnecting"]
    BY <1>6, UserSetsEffect
  <2> QED
    BY <2>1 DEF TypeInv, TypeOK
<1>7. CASE Accepts
  <2>1. PICK d \in Conns, f \in Fds, l \in Loops : Accept(d, f, l)
    BY <1>7 DEF Accepts
  <2>2. /\ state[d] = "none"
        /\ \/ /\ state' = [state EXCEPT ![d] = "Connected"]
              /\ reading' = [reading EXCEPT ![d] = TRUE]
           \/ /\ state' = [state EXCEPT ![d] = "Connecting"]
              /\ UNCHANGED reading
    BY <2>1, AcceptEffect
  <2>3. ~reading[d]
    BY <2>2 DEF ServerInv, FreshInv, Fresh
  <2> QED
    BY <2>2, <2>3 DEF TypeInv, TypeOK
<1> QED
  BY <1>1, <1>2, <1>3, <1>4, <1>5, <1>6, <1>7 DEF Writers, StateWriters

\* The flags of a channel and its place in epoll.
LEMMA ChannelStep ==
    ASSUME TypeInv, TypeInv', ServerInv, Writers, NEW c \in Conns
    PROVE  ChannelMoves(c)
<1>1. ASSUME UNCHANGED state PROVE Fresh(c)' <=> Fresh(c)
  BY <1>1 DEF Fresh
<1>2. StateMoves(c) /\ PlaceMoves(c)
  BY StateStep, PlaceStep
<1>3. ASSUME UNCHANGED epollVars PROVE ChannelMoves(c)
  <2>1. UNCHANGED <<reading, inLoop, epoll>>
    BY <1>3 DEF epollVars
  <2>2. Fresh(c) => Fresh(c)'
    <3>1. ~reading[c] \/ ~Fresh(c)
      BY DEF ServerInv, FreshInv
    <3> QED
      BY <1>2, <2>1, <3>1 DEF StateMoves, Fresh
  <2> QED
    BY <2>1, <2>2 DEF ChannelMoves
<1>4. ASSUME NEW l \in Loops, RunEstablish(l) PROVE ChannelMoves(c)
  <2>1. PICK d \in Conns : /\ Fresh(d)
                           /\ state' = [state EXCEPT ![d] = "Connected"]
                           /\ reading' = [reading EXCEPT ![d] = TRUE]
                           /\ inLoop' = [inLoop EXCEPT ![d] = TRUE]
                           /\ epoll \subseteq epoll' /\ epoll' \subseteq epoll \cup {d}
    BY <1>4, EstablishEffect DEF Fresh
  <2> QED
    BY <2>1 DEF ChannelMoves, Fresh, TypeInv, TypeOK
<1>5. ASSUME NEW l \in Loops, RunDestroy(l) PROVE ChannelMoves(c)
  <2>1. PICK d \in Conns : /\ ~Fresh(d) /\ ~reading[d] /\ loopOf[d] = l
                           /\ epoll' = epoll \ {d} /\ UNCHANGED inLoop
                           /\ \/ UNCHANGED <<state, reading>>
                              \/ /\ state' = [state EXCEPT ![d] = "DisConnected"]
                                 /\ reading' = [reading EXCEPT ![d] = FALSE]
    BY <1>5, DestroyEffect
  <2> QED
    BY <1>5, <2>1 DEF ChannelMoves, Fresh, TypeInv, TypeOK
<1>6. ASSUME NEW d \in Conns, StartsWrite(d) PROVE ChannelMoves(c)
  <2>1. inLoop[d]
    BY <1>6 DEF StartsWrite, ServerInv, FreshInv
  <2>2. UNCHANGED <<reading, inLoop, epoll, state>>
    BY <1>6, <2>1 DEF StartsWrite, EnableWrite, ChannelUpdate, TypeInv, TypeOK
  <2> QED
    BY <1>1, <2>2 DEF ChannelMoves
<1>7. ASSUME NEW l \in Loops, NEW d \in Conns, StartsClose(l, d) PROVE ChannelMoves(c)
  <2>1. /\ loopOf[d] = l
        /\ reading' = [reading EXCEPT ![d] = FALSE]
        /\ UNCHANGED <<inLoop, epoll, state>>
        /\ frame' = [frame EXCEPT ![l] = Closing(d)]
    BY <1>7, StartsCloseEffect
  <2> QED
    BY <1>1, <2>1 DEF ChannelMoves, TypeInv, TypeOK
<1>8. CASE Accepts
  <2>1. PICK d \in Conns, f \in Fds, l \in Loops : Accept(d, f, l)
    BY <1>8 DEF Accepts
  <2>2. /\ state[d] = "none"
        /\ \/ /\ state' = [state EXCEPT ![d] = "Connected"]
              /\ reading' = [reading EXCEPT ![d] = TRUE]
              /\ inLoop' = [inLoop EXCEPT ![d] = TRUE]
              /\ epoll \subseteq epoll' /\ epoll' \subseteq epoll \cup {d}
           \/ /\ state' = [state EXCEPT ![d] = "Connecting"]
              /\ UNCHANGED <<reading, inLoop, epoll>>
    BY <2>1, AcceptEffect
  <2>3. CASE UNCHANGED <<reading, inLoop, epoll>> /\ state' = [state EXCEPT ![d] = "Connecting"]
    BY <2>2, <2>3 DEF ChannelMoves, Fresh, TypeInv, TypeOK
  <2>4. CASE /\ state' = [state EXCEPT ![d] = "Connected"]
             /\ reading' = [reading EXCEPT ![d] = TRUE]
             /\ inLoop' = [inLoop EXCEPT ![d] = TRUE]
             /\ epoll \subseteq epoll' /\ epoll' \subseteq epoll \cup {d}
    BY <2>2, <2>4 DEF ChannelMoves, Fresh, TypeInv, TypeOK
  <2> QED
    BY <2>2, <2>3, <2>4
<1> QED
  BY <1>3, <1>4, <1>5, <1>6, <1>7, <1>8 DEF Writers, ChannelWriters, SomeClose

\* What a loop turns to.
LEMMA FrameStep ==
    ASSUME TypeInv, TypeInv', ServerInv, Writers, NEW l \in Loops
    PROVE  FrameMoves(l)
<1> USE DEF FrameMoves
<1>1. CASE UNCHANGED frame
  BY <1>1
<1>2. ASSUME NEW k \in Loops, CloseDone(k) PROVE FrameMoves(l)
  <2>1. PICK d \in Conns : /\ frame[k] = Closing(d)
                           /\ state' = [state EXCEPT ![d] = "DisConnected"]
                           /\ frame' = [frame EXCEPT ![k] = Idle]
    BY <1>2, CloseDoneEffect
  <2>2. \A c \in Conns : frame[k] = Closing(c) => state'[c] = "DisConnected"
    <3>1. \A c \in Conns : frame[k] = Closing(c) => c = d
      BY <2>1 DEF Closing
    <3>2. state'[d] = "DisConnected"
      BY <2>1 DEF TypeInv, TypeOK
    <3> QED
      BY <3>1, <3>2
  <2> QED
    BY <2>1, <2>2 DEF TypeInv, TypeOK
<1>3. ASSUME NEW k \in Loops, RunEstablish(k) PROVE FrameMoves(l)
  <2>1. PICK d \in Conns : /\ loopOf[d] = k /\ Alive(d) /\ UNCHANGED connVars
                           /\ frame[k] = Idle
                           /\ state' = [state EXCEPT ![d] = "Connected"]
                           /\ frame' = [frame EXCEPT ![k] = Callback(d)]
    BY <1>3, EstablishEffect
  <2> QED
    BY <2>1 DEF Fresh, connVars, TypeInv, TypeOK
<1>4. ASSUME NEW k \in Loops, EndsCallback(k) PROVE FrameMoves(l)
  <2>1. \A c \in Conns : frame[k] # Closing(c)
    BY <1>4, FrameFacts DEF EndsCallback, InCallback
  <2> QED
    BY <1>4, <2>1 DEF EndsCallback, TypeInv, TypeOK
<1>5. ASSUME NEW k \in Loops, NEW d \in Conns, StartsCallback(k, d) PROVE FrameMoves(l)
  BY <1>5 DEF StartsCallback, Fresh, connVars, TypeInv, TypeOK
<1>6. ASSUME NEW k \in Loops, NEW d \in Conns, StartsClose(k, d) PROVE FrameMoves(l)
  <2>1. /\ loopOf[d] = k /\ Closable(d) /\ Alive(d) /\ ~Fresh(d) /\ frame[k] = Idle
        /\ reading' = [reading EXCEPT ![d] = FALSE]
        /\ UNCHANGED <<state, connVars>>
        /\ frame' = [frame EXCEPT ![k] = Closing(d)]
    BY <1>6, StartsCloseEffect
  <2>2. ~reading'[d] /\ ~Fresh(d)'
    BY <2>1 DEF Fresh, TypeInv, TypeOK
  <2> QED
    BY <2>1, <2>2 DEF connVars, TypeInv, TypeOK
<1>7. CASE Accepts
  <2>1. PICK d \in Conns, f \in Fds, k \in Loops : Accept(d, f, k)
    BY <1>7 DEF Accepts
  <2>2. /\ state[d] = "none" /\ loopOf' = [loopOf EXCEPT ![d] = k]
        /\ \/ UNCHANGED frame
           \/ /\ state' = [state EXCEPT ![d] = "Connected"] /\ frame[k] = Idle
              /\ frame' = [frame EXCEPT ![k] = Callback(d)]
    BY <2>1, AcceptEffect
  <2>3. CASE /\ state' = [state EXCEPT ![d] = "Connected"] /\ frame[k] = Idle
             /\ frame' = [frame EXCEPT ![k] = Callback(d)]
    <3>1. loopOf'[d] = k /\ ~Fresh(d)' /\ ~Constructed(d)
      BY <2>2, <2>3 DEF Fresh, Constructed, TypeInv, TypeOK
    <3> QED
      BY <2>3, <3>1 DEF TypeInv, TypeOK
  <2> QED
    BY <1>1, <2>2, <2>3
<1> QED
  BY <1>1, <1>2, <1>3, <1>4, <1>5, <1>6, <1>7 DEF Writers, FrameWriters, SomeClose

\* removeConnectionInLoop leaves the functor of connectDestroyed in the loop.
LEMMA RemoveQueues ==
    ASSUME TypeInv, NEW c \in Conns, Remove(c), UNCHANGED loopOf
    PROVE  Functor("destroy", c) \in StillToRun(loopOf[c])'
<1>1. /\ Push(loopOf[c], Functor("destroy", c))
      /\ loopOf[c] \in Loops /\ Functor("destroy", c) \in Functors
  <2>1. Functor("destroy", c) \in Functors
    BY FunctorFacts
  <2> QED
    BY <2>1 DEF Remove, TypeInv, TypeOK
<1>2. ASSUME NEW l \in Loops, l = loopOf[c]
      PROVE  Functor("destroy", c) \in StillToRun(l)'
  <2>1. Functor("destroy", c) \in Range(queue[l])'
    BY <1>1, <1>2, PushRange
  <2> QED
    BY <2>1 DEF StillToRun
<1> QED
  BY <1>1, <1>2

\* Hence what it does to the map.
LEMMA RemoveEffect ==
    ASSUME TypeInv, ServerInv, NEW c \in Conns, Alive(c), ~Fresh(c), ~reading'[c], Remove(c),
           UNCHANGED loopOf, NEW f \in Fds
    PROVE  MapMoves(f)
<1>1. connMap' = [connMap EXCEPT ![fdOf[c]] = NoConn]
  BY DEF Remove
<1> QED
  BY <1>1, RemoveQueues DEF MapMoves, TypeInv, TypeOK

\* The entries of the map.
LEMMA MapStep ==
    ASSUME TypeInv, TypeInv', ServerInv, Writers, NEW f \in Fds
    PROVE  MapMoves(f)
<1>1. CASE UNCHANGED connMap
  BY <1>1 DEF MapMoves
<1>2. ASSUME NEW l \in Loops, RunRemove(l) PROVE MapMoves(f)
  <2> DEFINE c == NextFunctor(l).conn
  <2>1. RunFunctor(l, "remove") /\ Remove(c) /\ UNCHANGED <<reading, loopOf>>
    BY <1>2 DEF RunRemove, RunFunctor, epollVars, connVars
  <2>2. /\ NextFunctor(l) \in StillToRun(l) /\ NextFunctor(l).kind = "remove"
        /\ c \in Conns /\ Alive(c) /\ ~Fresh(c)
    BY <2>1, NextIsAlive
  <2>3. ~reading'[c]
    BY <2>1, <2>2 DEF ServerInv, ReadingInv, Leaving
  <2> QED
    BY <2>1, <2>2, <2>3, RemoveEffect
<1>3. ASSUME NEW l \in Loops, NEW c \in Conns, StartsClose(l, c) PROVE MapMoves(f)
  <2>1. /\ Alive(c) /\ ~Fresh(c) /\ reading' = [reading EXCEPT ![c] = FALSE]
        /\ UNCHANGED connVars /\ (UNCHANGED connMap \/ Remove(c))
    BY <1>3, StartsCloseEffect
  <2>2. ~reading'[c] /\ UNCHANGED loopOf
    BY <2>1 DEF connVars, TypeInv, TypeOK
  <2> QED
    BY <1>1, <2>1, <2>2, RemoveEffect
<1>4. CASE Accepts
  <2>1. PICK d \in Conns, g \in Fds, l \in Loops : Accept(d, g, l)
    BY <1>4 DEF Accepts
  <2>2. /\ state[d] = "none" /\ g \in FreeFds
        /\ fdOf' = [fdOf EXCEPT ![d] = g] /\ connMap' = [connMap EXCEPT ![g] = d]
        /\ \/ state' = [state EXCEPT ![d] = "Connected"]
           \/ state' = [state EXCEPT ![d] = "Connecting"]
    BY <2>1, AcceptEffect
  <2>3. ~Constructed(d) /\ Constructed(d)'
    BY <2>2 DEF Constructed, TypeInv, TypeOK
  <2> QED
    BY <2>2, <2>3 DEF MapMoves, TypeInv, TypeOK
<1> QED
  BY <1>1, <1>2, <1>3, <1>4 DEF Writers, MapWriters, SomeClose

\* The references of the other threads.
LEMMA UserConnStep ==
    ASSUME TypeInv, TypeInv', ServerInv, Writers, NEW u \in Users
    PROVE  UserMoves(u)
<1> USE DEF UserMoves
<1>1. CASE UNCHANGED userConn
  BY <1>1
<1>2. ASSUME NEW l \in Loops, NEW v \in Users, CallbackHandsOver(l, v) PROVE UserMoves(u)
  BY <1>2 DEF CallbackHandsOver, TypeInv, TypeOK
<1>3. ASSUME NEW v \in Users, UserReleases(v) PROVE UserMoves(u)
  BY <1>3 DEF UserReleases, TypeInv, TypeOK
<1> QED
  BY <1>1, <1>2, <1>3 DEF Writers, UserWriters

\* The array epoll_wait filled.
LEMMA ActiveStep ==
    ASSUME TypeInv, TypeInv', ServerInv, Writers, NEW l \in Loops
    PROVE  ActiveMoves(l)
<1>1. ASSUME NEW k \in Loops, Poll(k) PROVE ActiveMoves(l)
  <2>1. /\ UNCHANGED epoll
        /\ \E ready \in SUBSET (Registered(k) \cup {Acceptor}) :
              active' = [active EXCEPT ![k] = ready]
    BY <1>1 DEF Poll, epollVars
  <2> QED
    BY <2>1 DEF ActiveMoves, Registered, TypeInv, TypeOK
<1> QED
  BY <1>1 DEF Writers, ActiveWriters, ActiveMoves

\* All of these, of every step.
LEMMA StepMoves ==
    ASSUME TypeInv, TypeInv', ServerInv, [Next]_vars PROVE Moves
<1>1. Writers
  BY WhoWrites
<1>2. ASSUME NEW c \in Conns PROVE PlaceMoves(c) /\ StateMoves(c) /\ ChannelMoves(c)
  BY <1>1, PlaceStep, StateStep, ChannelStep
<1>3. ASSUME NEW l \in Loops PROVE FrameMoves(l) /\ ActiveMoves(l)
  BY <1>1, FrameStep, ActiveStep
<1>4. ASSUME NEW f \in Fds PROVE MapMoves(f)
  BY <1>1, MapStep
<1>5. ASSUME NEW u \in Users PROVE UserMoves(u) /\ calls[u] <= calls'[u]
  BY <1>1, UserConnStep DEF Writers
<1> QED
  BY <1>2, <1>3, <1>4, <1>5, QueueWrites, FunctorStep DEF Moves
-----------------------------------------------------------------------------
(***************************************************************************)
(* The invariant is preserved, part by part.                               *)
(***************************************************************************)

\* Every part but OnceInv depends on the step only through what it may do.
Step == TypeInv /\ TypeInv' /\ ServerInv /\ [Next]_vars /\ Moves

\* A connection whose last reference went is never referred to again.
LEMMA NothingIsRevived ==
    ASSUME Step, NEW c \in Conns, Constructed(c), Alive(c)'
    PROVE  Alive(c)
<1> USE DEF Step
<1>1. PlaceMoves(c)
  BY DEF Moves
<1>2. ASSUME NEW f \in Fds, connMap'[f] = c PROVE Alive(c)
  <2>1. connMap'[f] = connMap[f]
    BY <1>2, NamesAssumption DEF Moves, MapMoves
  <2> QED
    BY <1>2, <2>1, AliveMeans
<1>3. ASSUME NEW l \in Loops, frame'[l].conn = c PROVE Alive(c)
  <2>1. FrameMoves(l)
    BY DEF Moves
  <2>2. CASE frame'[l] = frame[l]
    BY <1>3, <2>2, AliveMeans
  <2>3. CASE frame'[l] = Idle
    BY <1>3, <2>3, NamesAssumption, FrameFacts
  <2>4. ASSUME NEW d \in Conns, Constructed(d) => Alive(d),
               frame'[l] = Callback(d) \/ frame'[l] = Closing(d)
        PROVE  Alive(c)
    BY <1>3, <2>4, FrameFacts
  <2> QED
    BY <2>1, <2>2, <2>3, <2>4 DEF FrameMoves
<1>4. ASSUME NEW l \in Loops, NEW functor \in Held(l)', HoldsRef(functor), functor.conn = c
      PROVE  Alive(c)
  <2>1. CASE functor \in Held(l)
    BY <1>4, <2>1, AliveMeans
  <2>2. CASE Sent(l, functor)
    <3>1. \A u \in Users : userConn[u] = c => Alive(c)
      BY UserIsAlive
    <3> QED
      BY <1>4, <2>2, <3>1 DEF Sent, Constructed
  <2> QED
    BY <2>1, <2>2 DEF Moves, FunctorsMove
<1>5. ASSUME NEW u \in Users, userConn'[u] = c PROVE Alive(c)
  <2>1. UserMoves(u)
    BY DEF Moves
  <2>2. userConn[u] = c \/ \E l \in Loops : frame[l].conn = c
    BY <1>5, <2>1, NamesAssumption DEF UserMoves
  <2> QED
    BY <2>2, AliveMeans
<1>6. \/ \E f \in Fds : connMap'[f] = c
      \/ \E l \in Loops : frame'[l].conn = c
      \/ \E l \in Loops : \E functor \in Held(l)' : HoldsRef(functor) /\ functor.conn = c
      \/ \E u \in Users : userConn'[u] = c
  BY DEF TypeInv, TypeOK, Alive, Range, Captured, Held
<1> QED
  BY <1>2, <1>3, <1>4, <1>5, <1>6

\* References lead to constructed connections.
LEMMA KnownStep == ASSUME Step PROVE KnownInv'
<1> USE DEF Step
<1>1. \A c \in Conns : Constructed(c)' => fdOf'[c] \in Fds
  BY DEF Moves, PlaceMoves, FreeFds, ServerInv, KnownInv
<1>2. \A c \in Conns : Constructed(c) => Constructed(c)' /\ fdOf'[c] = fdOf[c]
  BY DEF Moves, PlaceMoves
<1>3. ASSUME NEW f \in Fds, connMap'[f] # NoConn
      PROVE  state'[connMap'[f]] # "none" /\ fdOf'[connMap'[f]] = f
  <2>1. MapMoves(f)
    BY DEF Moves
  <2>2. CASE connMap'[f] = connMap[f]
    <3>1. connMap[f] \in Conns /\ Constructed(connMap[f]) /\ fdOf[connMap[f]] = f
      BY <1>3, <2>2 DEF ServerInv, KnownInv, TypeInv, TypeOK
    <3> QED
      BY <1>2, <2>2, <3>1 DEF Constructed
  <2>3. ASSUME NEW c \in Conns, fdOf'[c] = f, connMap'[f] = c, Constructed(c)'
        PROVE  state'[connMap'[f]] # "none" /\ fdOf'[connMap'[f]] = f
    BY <2>3 DEF Constructed
  <2> QED
    BY <1>3, <2>1, <2>2, <2>3 DEF MapMoves
<1>4. ASSUME NEW l \in Loops, NEW functor \in Held(l)' PROVE state'[functor.conn] # "none"
  <2>1. functor.conn \in Conns
    <3>1. queue'[l] \in Seq(Functors) /\ batch'[l] \in Seq(Functors)
      BY DEF TypeInv, TypeOK
    <3>2. functor \in Functors
      BY <3>1, ElementOfSeq, LenProperties DEF Held, Range
    <3> QED
      BY <3>2 DEF Functors
  <2>2. CASE functor \in Held(l)
    BY <1>2, <2>1, <2>2 DEF ServerInv, KnownInv, Constructed
  <2>3. CASE Sent(l, functor)
    BY <1>2, <2>1, <2>3 DEF Sent, Constructed, Fresh
  <2> QED
    BY <2>2, <2>3 DEF Moves, FunctorsMove
<1>5. ASSUME NEW l \in Loops, frame'[l].conn # NoConn PROVE state'[frame'[l].conn] # "none"
  <2>1. FrameMoves(l)
    BY DEF Moves
  <2>2. CASE frame'[l] = frame[l]
    <3>1. frame[l].conn \in Conns
      BY <1>5, <2>2, FrameNamed DEF TypeInv
    <3> QED
      BY <1>2, <1>5, <2>2, <3>1 DEF ServerInv, KnownInv, Constructed
  <2>3. CASE frame'[l] = Idle
    BY <1>5, <2>3, FrameFacts
  <2>4. ASSUME NEW d \in Conns, ~Fresh(d)', frame'[l] = Callback(d) \/ frame'[l] = Closing(d)
        PROVE  state'[frame'[l].conn] # "none"
    BY <2>4, FrameFacts DEF Fresh, Constructed
  <2> QED
    BY <2>1, <2>2, <2>3, <2>4 DEF FrameMoves
<1>6. ASSUME NEW u \in Users, userConn'[u] # NoConn PROVE state'[userConn'[u]] # "none"
  <2>1. UserMoves(u) /\ userConn'[u] \in Conns
    BY <1>6 DEF Moves, TypeInv, TypeOK
  <2>2. userConn'[u] = userConn[u] \/ \E l \in Loops : userConn'[u] = frame[l].conn
    BY <1>6, <2>1 DEF UserMoves
  <2>3. \E c \in Conns : c = userConn'[u] /\ Constructed(c)
    BY <1>6, <2>1, <2>2 DEF ServerInv, KnownInv
  <2> QED
    BY <1>2, <2>3 DEF Constructed
<1> QED
  BY <1>1, <1>3, <1>4, <1>5, <1>6 DEF KnownInv, Constructed

\* A functor that is nowhere yet may be pushed.
LEMMA OncePush ==
    ASSUME NEW q \in Seq(Functors), NEW b \in Seq(Functors), NEW r \in Nat, Once(q, b, r),
           NEW functor \in Functors,
           functor.kind = "establish" =>
               /\ \A i \in DOMAIN q : q[i] # functor
               /\ \A j \in (r + 1)..Len(b) : b[j] # functor
    PROVE  Once(Append(q, functor), b, r)
<1>1. /\ DOMAIN q = 1..Len(q) /\ Len(q) \in Nat
      /\ DOMAIN Append(q, functor) = 1..(Len(q) + 1)
      /\ \A i \in 1..Len(q) : Append(q, functor)[i] = q[i]
      /\ Append(q, functor)[Len(q) + 1] = functor
  BY AppendProperties, LenProperties

<1>2. ASSUME NEW i \in 1..(Len(q) + 1), NEW j \in 1..(Len(q) + 1),
             Append(q, functor)[i].kind = "establish",
             Append(q, functor)[i] = Append(q, functor)[j]
      PROVE  i = j
  <2>1. CASE i = Len(q) + 1 /\ j # Len(q) + 1
    BY <1>1, <1>2, <2>1
  <2>2. CASE i # Len(q) + 1 /\ j = Len(q) + 1
    BY <1>1, <1>2, <2>2
  <2>3. CASE i # Len(q) + 1 /\ j # Len(q) + 1
    BY <1>1, <1>2, <2>3 DEF Once
  <2> QED
    BY <2>1, <2>2, <2>3
<1>3. ASSUME NEW i \in 1..(Len(q) + 1), NEW j \in (r + 1)..Len(b),
             Append(q, functor)[i].kind = "establish"
      PROVE  Append(q, functor)[i] # b[j]
  BY <1>1, <1>3 DEF Once
<1> QED
  BY <1>1, <1>2, <1>3 DEF Once

\* A functor may be taken.
LEMMA OnceTake ==
    ASSUME NEW q, NEW b \in Seq(Functors), NEW r \in Nat, Once(q, b, r)
    PROVE  Once(q, b, r + 1)
<1>1. Len(b) \in Nat
  BY LenProperties
<1>2. \A i \in (r + 1 + 1)..Len(b) : i \in (r + 1)..Len(b)
  BY <1>1
<1> QED
  BY <1>2 DEF Once

\* connectEstablished is in one place.
LEMMA OnceStep == ASSUME Step PROVE OnceInv'
<1> USE DEF Step
<1>1. /\ \A l \in Loops : /\ queue[l] \in Seq(Functors) /\ batch[l] \in Seq(Functors)
                          /\ ran[l] \in Nat /\ Once(queue[l], batch[l], ran[l])
                          /\ Len(queue[l]) \in Nat /\ DOMAIN queue[l] = 1..Len(queue[l])
      /\ Len(<<>>) = 0 /\ DOMAIN <<>> = {}
  BY EmptySeq, LenProperties DEF TypeInv, TypeOK, ServerInv, OnceInv
<1>2. CASE UNCHANGED <<queue, batchVars>>
  BY <1>1, <1>2 DEF OnceInv, batchVars
<1>3. ASSUME NEW l \in Loops, NEW k \in Loops, NEW functor \in Functors, Pushes(l, functor)
      PROVE  Once(queue'[k], batch[k], ran[k])
  <2>1. CASE k # l
    BY <1>1, <1>3, <2>1 DEF Pushes, Push, TypeInv, TypeOK
  <2>2. CASE k = l
    <3>1. queue'[k] = Append(queue[k], functor)
      BY <1>3, <2>2 DEF Pushes, Push, TypeInv, TypeOK
    <3>2. functor.kind = "establish" => functor \notin StillToRun(k)
      <4>1. functor.kind = "establish" => state[functor.conn] = "none"
        BY <1>3 DEF Pushes, Sent
      <4>2. functor \in Held(k) => state[functor.conn] # "none"
        BY DEF ServerInv, KnownInv, Constructed
      <4> QED
        BY <4>1, <4>2, StillToRunIsHeld
    <3>3. functor.kind = "establish" =>
              /\ \A i \in DOMAIN queue[k] : queue[k][i] # functor
              /\ \A j \in (ran[k] + 1)..Len(batch[k]) : batch[k][j] # functor
      BY <3>2 DEF StillToRun, Range
    <3>4. /\ queue[k] \in Seq(Functors) /\ batch[k] \in Seq(Functors)
          /\ ran[k] \in Nat /\ Once(queue[k], batch[k], ran[k])
      BY <1>1
    <3>5. Once(Append(queue[k], functor), batch[k], ran[k])
      BY <3>3, <3>4, OncePush
    <3> QED
      BY <3>1, <3>5
  <2> QED
    BY <2>1, <2>2
<1>4. ASSUME NEW l \in Loops, NEW k \in Loops, Takes(l)
      PROVE  batch'[k] = batch[k] /\ ran'[k] \in {ran[k], ran[k] + 1}
  BY <1>4 DEF Takes, RunFunctor, TypeInv, TypeOK
<1>5. ASSUME NEW l \in Loops, SwapFunctors(l) PROVE OnceInv'
  <2>1. ASSUME NEW k \in Loops, k # l PROVE Once(queue[k], batch[k], ran[k])'
    BY <1>1, <1>5, <2>1 DEF SwapFunctors, TypeInv, TypeOK
  <2>2. queue'[l] = <<>> /\ batch'[l] = queue[l] /\ ran'[l] = 0
    BY <1>5 DEF SwapFunctors, TypeInv, TypeOK
  <2>3. Once(<<>>, queue[l], 0)
    BY <1>1 DEF Once
  <2> QED
    BY <2>1, <2>2, <2>3 DEF OnceInv
<1>6. ASSUME NEW l \in Loops, FunctorsDone(l) PROVE OnceInv'
  <2>1. ASSUME NEW k \in Loops, k # l PROVE Once(queue[k], batch[k], ran[k])'
    BY <1>1, <1>6, <2>1 DEF FunctorsDone, TypeInv, TypeOK
  <2>2. queue'[l] = queue[l] /\ batch'[l] = <<>> /\ ran'[l] = 0
    BY <1>6 DEF FunctorsDone, TypeInv, TypeOK
  <2>3. Once(queue[l], <<>>, 0)
    BY <1>1 DEF Once
  <2> QED
    BY <2>1, <2>2, <2>3 DEF OnceInv
<1>7. ASSUME NEW l \in Loops, Takes(l), UNCHANGED queue PROVE OnceInv'
  BY <1>1, <1>4, <1>7, OnceTake DEF OnceInv
<1>8. ASSUME NEW l \in Loops, NEW functor \in Functors, Pushes(l, functor), UNCHANGED batchVars
      PROVE  OnceInv'
  BY <1>3, <1>8 DEF OnceInv, batchVars
<1>9. ASSUME NEW l \in Loops, NEW k \in Loops, NEW functor \in Functors,
             Takes(l), Pushes(k, functor)
      PROVE  OnceInv'
  <2> SUFFICES ASSUME NEW m \in Loops PROVE Once(queue'[m], batch'[m], ran'[m])
    BY DEF OnceInv
  <2>1. Once(queue'[m], batch[m], ran[m]) /\ queue'[m] \in Seq(Functors)
    BY <1>3, <1>9 DEF TypeInv, TypeOK
  <2> QED
    BY <1>1, <1>4, <1>9, <2>1, OnceTake
<1> QED
  BY <1>2, <1>5, <1>6, <1>7, <1>8, <1>9 DEF Moves, QueueWriters

\* connectEstablished, once run, is not to be run again.
LEMMA EstablishTaken ==
    ASSUME TypeInv, ServerInv, NEW l \in Loops, RunEstablish(l)
    PROVE  NextFunctor(l) \notin StillToRun(l)'
<1>1. /\ UNCHANGED <<queue, batch>> /\ ran' = [ran EXCEPT ![l] = @ + 1]
      /\ NextFunctor(l).kind = "establish" /\ ran[l] < Len(batch[l])
      /\ ran[l] \in Nat /\ Len(batch[l]) \in Nat
  BY LenProperties DEF RunEstablish, RunFunctor, TypeInv, TypeOK
<1>2. ran'[l] = ran[l] + 1 /\ ran[l] + 1 \in (ran[l] + 1)..Len(batch[l])
  BY <1>1 DEF TypeInv, TypeOK
<1>3. Once(queue[l], batch[l], ran[l])
  BY DEF ServerInv, OnceInv
<1>4. \A i \in DOMAIN queue[l] : queue[l][i] # NextFunctor(l)
  BY <1>1, <1>2, <1>3 DEF Once, NextFunctor
<1>5. \A i \in (ran[l] + 1 + 1)..Len(batch[l]) : batch[l][i] # NextFunctor(l)
  BY <1>1, <1>2, <1>3 DEF Once, NextFunctor
<1>6. StillToRun(l)' = Range(queue[l]) \cup {batch[l][i] : i \in (ran[l] + 1 + 1)..Len(batch[l])}
  BY <1>1, <1>2 DEF StillToRun
<1> QED
  BY <1>4, <1>5, <1>6 DEF Range

\* Functors, handlers and reported channels are in the loop they belong to.
LEMMA PlaceInvStep == ASSUME Step PROVE PlaceInv'
<1> USE DEF Step
<1>1. \A c \in Conns : Constructed(c) => loopOf'[c] = loopOf[c]
  BY DEF Moves, PlaceMoves
<1>2. ASSUME NEW l \in Loops, NEW functor \in Held(l)'
      PROVE  l = IF functor.kind = "remove" THEN Main ELSE loopOf'[functor.conn]
  <2>1. CASE functor \in Held(l)
    <3>1. functor.conn \in Conns /\ Constructed(functor.conn)
      BY <2>1, StillToRunIsHeld DEF Functors, ServerInv, KnownInv
    <3> QED
      BY <1>1, <2>1, <3>1 DEF ServerInv, PlaceInv
  <2>2. CASE Sent(l, functor)
    <3>1. functor.conn \in Conns
      <4>1. queue'[l] \in Seq(Functors) /\ batch'[l] \in Seq(Functors)
        BY DEF TypeInv, TypeOK
      <4>2. functor \in Functors
        BY <1>2, <4>1, ElementOfSeq, LenProperties DEF Held, Range
      <4> QED
        BY <4>2 DEF Functors
    <3> QED
      BY <1>1, <2>2, <3>1 DEF Sent, Fresh, Constructed
  <2> QED
    BY <1>2, <2>1, <2>2 DEF Moves, FunctorsMove
<1>3. ASSUME NEW l \in Loops, frame'[l].conn # NoConn PROVE loopOf'[frame'[l].conn] = l
  <2>1. FrameMoves(l)
    BY DEF Moves
  <2>2. CASE frame'[l] = frame[l]
    <3>1. frame[l].conn \in Conns /\ Constructed(frame[l].conn) /\ loopOf[frame[l].conn] = l
      BY <1>3, <2>2, FrameNamed DEF TypeInv, ServerInv, KnownInv, PlaceInv
    <3> QED
      BY <1>1, <2>2, <3>1
  <2>3. CASE frame'[l] = Idle
    BY <1>3, <2>3, FrameFacts
  <2>4. ASSUME NEW d \in Conns, loopOf'[d] = l, frame'[l] = Callback(d) \/ frame'[l] = Closing(d)
        PROVE  loopOf'[frame'[l].conn] = l
    BY <2>4, FrameFacts
  <2> QED
    BY <2>1, <2>2, <2>3, <2>4 DEF FrameMoves
<1>4. ASSUME NEW l \in Loops, NEW c \in active'[l] \ {Acceptor}
      PROVE  c \in epoll' /\ loopOf'[c] = l
  <2>1. c \in Conns /\ (c \in active[l] \/ (c \in epoll /\ c \in epoll' /\ loopOf[c] = l))
    BY DEF Moves, ActiveMoves, TypeInv, TypeOK
  <2>2. c \in epoll /\ loopOf[c] = l
    BY <2>1, <1>4 DEF ServerInv, PlaceInv
  <2>3. Constructed(c)
    BY <2>1, <2>2, EpollIsAlive DEF Alive
  <2>4. c \notin epoll' => c \in active[l] /\ RunDestroy(l)
    BY <2>1, <2>2 DEF Moves, ChannelMoves
  <2>5. RunDestroy(l) => active[l] = {}
    BY DEF RunDestroy, RunFunctor, TypeInv, PhaseInv
  <2> QED
    BY <1>1, <2>1, <2>2, <2>3, <2>4, <2>5
<1> QED
  BY <1>2, <1>3, <1>4 DEF PlaceInv

\* Nothing happens to a connection before connectEstablished.
LEMMA FreshStep == ASSUME Step PROVE FreshInv'
<1> USE DEF Step
<1>1. ASSUME NEW c \in Conns PROVE StateMoves(c) /\ ChannelMoves(c) /\ PlaceMoves(c)
  BY DEF Moves
<1>2. ASSUME NEW c \in Conns, Fresh(c)'
      PROVE  /\ Fresh(c) /\ ~reading'[c] /\ c \notin epoll'
             /\ \A l \in Loops : frame'[l].conn # c
             /\ \A u \in Users : userConn'[u] # c
             /\ \A l \in Loops : \A functor \in StillToRun(l)' :
                    functor.conn = c => functor.kind = "establish"
  <2>1. Fresh(c) /\ state'[c] # "Connected"
    BY <1>1, <1>2 DEF StateMoves, Fresh
  <2>2. ~reading'[c] /\ c \notin epoll'
    BY <1>1, <1>2, <2>1 DEF ChannelMoves, ServerInv, FreshInv
  <2>3. ASSUME NEW l \in Loops, frame'[l].conn = c PROVE FALSE
    <3>1. FrameMoves(l)
      BY DEF Moves
    <3>2. frame'[l] # frame[l]
      BY <2>1, <2>3 DEF ServerInv, FreshInv
    <3>3. frame'[l] # Idle
      BY <2>3, NamesAssumption, FrameFacts
    <3>4. PICK d \in Conns : ~Fresh(d)' /\ (frame'[l] = Callback(d) \/ frame'[l] = Closing(d))
      BY <3>1, <3>2, <3>3 DEF FrameMoves
    <3>5. c = d
      BY <2>3, <3>4, FrameFacts
    <3> QED
      BY <1>2, <3>4, <3>5 DEF Fresh
  <2>4. ASSUME NEW u \in Users, userConn'[u] = c PROVE FALSE
    <3>1. UserMoves(u)
      BY DEF Moves
    <3>2. userConn[u] = c \/ \E l \in Loops : frame[l].conn = c
      BY <2>4, <3>1, NamesAssumption DEF UserMoves
    <3> QED
      BY <2>1, <3>2 DEF ServerInv, FreshInv
  <2>5. ASSUME NEW l \in Loops, NEW functor \in StillToRun(l)', functor.conn = c
        PROVE  functor.kind = "establish"
    BY <2>1, <2>5 DEF Moves, FunctorsMove, Sent, ServerInv, FreshInv
  <2> QED
    BY <2>1, <2>2, <2>3, <2>4, <2>5
<1>3. ASSUME NEW c \in Conns, ~Fresh(c)' PROVE inLoop'[c]
  BY <1>1, <1>3 DEF ChannelMoves, ServerInv, FreshInv
<1>4. ASSUME NEW l \in Loops, NEW functor \in StillToRun(l)', functor.kind = "establish"
      PROVE  state'[functor.conn] = "Connecting"
  <2> DEFINE c == functor.conn
  <2>1. CASE Sent(l, functor)
    BY <1>4, <2>1 DEF Sent
  <2>2. CASE functor \in StillToRun(l)
    <3>1. /\ c \in Conns /\ state[c] = "Connecting" /\ loopOf[c] = l
          /\ functor = Functor("establish", c)
      BY <1>4, <2>2, StillToRunIsHeld DEF Functors, Functor, ServerInv, FreshInv, PlaceInv
    <3>2. ~(RunEstablish(l) /\ NextFunctor(l) = functor)
      BY <1>4, EstablishTaken
    <3> QED
      BY <1>1, <3>1, <3>2 DEF StateMoves, Fresh
  <2> QED
    BY <1>4, <2>1, <2>2 DEF Moves, FunctorsMove
<1> QED
  BY <1>2, <1>3, <1>4 DEF FreshInv

\* The entry of a descriptor is its living owner's.
LEMMA OwnerStep == ASSUME Step PROVE OwnerInv'
<1> USE DEF Step
<1> SUFFICES ASSUME NEW c \in Conns, Alive(c)' PROVE connMap'[fdOf'[c]] \in {c, NoConn}
  BY DEF OwnerInv
<1>1. PlaceMoves(c) /\ Constructed(c)'
  BY DEF Moves, Alive
<1>2. CASE ~Constructed(c)
  BY <1>1, <1>2 DEF PlaceMoves
<1>3. CASE Constructed(c)
  <2>1. Alive(c) /\ fdOf'[c] = fdOf[c] /\ fdOf[c] \in Fds /\ connMap[fdOf[c]] \in {c, NoConn}
    BY <1>1, <1>3, NothingIsRevived DEF PlaceMoves, ServerInv, KnownInv, OwnerInv
  <2>2. fdOf[c] \notin FreeFds
    BY <2>1 DEF FreeFds
  <2> QED
    BY <2>1, <2>2 DEF Moves, MapMoves
<1> QED
  BY <1>2, <1>3

\* Only the owner's entry is erased or taken over.
LEMMA MappedStays ==
    ASSUME Step, NEW c \in Conns, Constructed(c), Mapped(c)
    PROVE  \/ Mapped(c)'
           \/ /\ ~Fresh(c) /\ ~reading'[c]
              /\ Functor("destroy", c) \in StillToRun(loopOf[c])'
<1> USE DEF Step
<1>1. fdOf'[c] = fdOf[c] /\ fdOf[c] \in Fds /\ connMap[fdOf[c]] = c
  BY DEF Moves, PlaceMoves, ServerInv, KnownInv, Mapped
<1>2. Alive(c)
  BY <1>1, AliveMeans
<1>3. fdOf[c] \notin FreeFds
  BY <1>1, <1>2 DEF FreeFds
<1>4. \A d \in Conns : Alive(d) /\ fdOf[d] = fdOf[c] => d = c
  BY <1>1, NamesAssumption DEF ServerInv, OwnerInv
<1>5. MapMoves(fdOf[c])
  BY <1>1 DEF Moves
<1> QED
  BY <1>1, <1>3, <1>4, <1>5 DEF MapMoves, Mapped

\* Open connections stay in the map.
LEMMA MappedStep == ASSUME Step PROVE OpenMeansMapped'
<1> USE DEF Step
<1> SUFFICES ASSUME NEW c \in Conns, reading'[c] \/ state'[c] = "Connecting"
             PROVE  connMap'[fdOf'[c]] = c
  BY DEF OpenMeansMapped
<1>1. PlaceMoves(c) /\ StateMoves(c) /\ ChannelMoves(c)
  BY DEF Moves
<1>2. CASE ~Constructed(c)
  <2>1. Constructed(c)'
    BY <1>1, <1>2 DEF StateMoves, ChannelMoves, Constructed, ServerInv, FreshInv, Fresh
  <2> QED
    BY <1>1, <1>2, <2>1 DEF PlaceMoves
<1>3. CASE Constructed(c)
  <2>1. reading[c] \/ state[c] = "Connecting"
    BY <1>1, <1>3 DEF StateMoves, ChannelMoves, Constructed, Fresh
  <2>2. Mapped(c)
    BY <2>1 DEF ServerInv, OpenMeansMapped, Mapped
  <2>3. ~Fresh(c) => reading'[c]
    BY <1>1 DEF StateMoves, Fresh
  <2> QED
    BY <1>3, <2>2, <2>3, MappedStays DEF Mapped
<1> QED
  BY <1>2, <1>3

\* Only open connections read, and none that is being taken away.
LEMMA ReadingStep == ASSUME Step PROVE ReadingInv'
<1> USE DEF Step
<1>1. ASSUME NEW c \in Conns PROVE StateMoves(c) /\ ChannelMoves(c)
  BY DEF Moves
<1>2. ASSUME NEW c \in Conns, reading'[c] PROVE state'[c] \in {"Connected", "DisConnecting"}
  BY <1>1, <1>2 DEF StateMoves, ChannelMoves, Fresh, ServerInv, ReadingInv
<1>3. ASSUME NEW c \in Conns, ~Fresh(c), ~reading[c] PROVE ~reading'[c]
  BY <1>1, <1>3 DEF ChannelMoves
<1>4. ASSUME NEW c \in Conns, Leaving(c)' PROVE ~reading'[c]
  <2>1. PICK l \in Loops : \E functor \in StillToRun(l)' :
            functor.conn = c /\ functor.kind \in {"remove", "destroy"}
    BY <1>4 DEF Leaving
  <2>2. PICK functor \in StillToRun(l)' :
            functor.conn = c /\ functor.kind \in {"remove", "destroy"}
    BY <2>1
  <2>3. CASE Sent(l, functor)
    BY <2>2, <2>3 DEF Sent
  <2>4. CASE functor \in StillToRun(l)
    BY <1>3, <2>2, <2>4 DEF Leaving, ServerInv, FreshInv, ReadingInv
  <2> QED
    BY <2>2, <2>3, <2>4 DEF Moves, FunctorsMove
<1>5. ASSUME NEW c \in Conns, NEW l \in Loops, frame'[l] = Closing(c) PROVE ~reading'[c]
  <2>1. FrameMoves(l)
    BY DEF Moves
  <2>2. CASE frame'[l] = frame[l]
    <3>1. frame[l] = Closing(c) /\ frame[l].conn = c
      BY <1>5, <2>2, FrameFacts
    <3> QED
      BY <1>3, <3>1, FrameIsAlive DEF ServerInv, ReadingInv
  <2>3. CASE frame'[l] # frame[l]
    <3>1. frame'[l] # Idle /\ \A d \in Conns : /\ frame'[l] # Callback(d)
                                               /\ frame'[l] = Closing(d) => d = c
      BY <1>5 DEF Idle, Callback, Closing
    <3> QED
      BY <2>1, <2>3, <3>1 DEF FrameMoves
  <2> QED
    BY <2>2, <2>3
<1> QED
  BY <1>2, <1>4, <1>5 DEF ReadingInv

\* What is in epoll is in the map or on its way out.
LEMMA EpollStep == ASSUME Step, OpenMeansMapped' PROVE EpollInv'
<1> USE DEF Step
<1> SUFFICES ASSUME NEW c \in epoll' PROVE Mapped(c)' \/ Leaving(c)'
  BY DEF EpollInv
<1>1. c \in Conns /\ StateMoves(c) /\ ChannelMoves(c) /\ PlaceMoves(c)
  BY DEF Moves, TypeInv, TypeOK
<1>2. CASE c \notin epoll
  <2>1. Fresh(c) /\ ~Fresh(c)'
    BY <1>1, <1>2 DEF ChannelMoves
  <2>2. reading'[c]
    BY <1>1, <2>1 DEF StateMoves, Fresh
  <2> QED
    BY <1>1, <2>2 DEF OpenMeansMapped, Mapped
<1>3. ASSUME NEW l \in Loops, NEW functor \in StillToRun(l)', functor.conn = c,
             functor.kind \in {"remove", "destroy"}
      PROVE  Leaving(c)'
  BY <1>3 DEF Leaving
<1>4. CASE c \in epoll
  <2>1. ~Fresh(c) /\ Constructed(c) /\ loopOf'[c] = loopOf[c] /\ loopOf[c] \in Loops
    BY <1>1, <1>4, EpollIsAlive DEF PlaceMoves, Alive, TypeInv, TypeOK
  <2>2. ASSUME Functor("destroy", c) \in StillToRun(loopOf[c])' PROVE Leaving(c)'
    BY <1>3, <2>1, <2>2, FunctorFacts
  <2>3. CASE Mapped(c)
    BY <1>1, <2>1, <2>2, <2>3, MappedStays
  <2>4. CASE Leaving(c)
    <3>1. PICK l \in Loops : \E functor \in StillToRun(l) :
              functor.conn = c /\ functor.kind \in {"remove", "destroy"}
      BY <2>4 DEF Leaving
    <3>2. PICK functor \in StillToRun(l) :
              functor.conn = c /\ functor.kind \in {"remove", "destroy"}
      BY <3>1
    <3>3. CASE functor \in StillToRun(l)'
      BY <1>3, <3>2, <3>3
    <3>4. CASE functor = NextFunctor(l) /\ RunDestroy(l)
      <4>1. PICK d \in Conns : NextFunctor(l) = Functor("destroy", d) /\ epoll' = epoll \ {d}
        BY <3>4, DestroyEffect
      <4>2. d = c
        BY <3>2, <3>4, <4>1, FunctorFacts
      <4> QED
        BY <4>1, <4>2
    <3>5. CASE functor = NextFunctor(l) /\ RunRemove(l)
      <4>1. Remove(c) /\ UNCHANGED loopOf
        BY <3>2, <3>5 DEF RunRemove, RunFunctor, connVars
      <4>2. Functor("destroy", c) \in StillToRun(loopOf[c])'
        BY <1>1, <2>1, <4>1, RemoveQueues
      <4> QED
        BY <2>2, <4>2
    <3> QED
      BY <3>2, <3>3, <3>4, <3>5 DEF Moves, FunctorsMove, Takes
  <2> QED
    BY <1>4, <2>3, <2>4 DEF ServerInv, EpollInv
<1> QED
  BY <1>2, <1>4

\* The functors of send and shutdown stay covered by a reference.
LEMMA RawStep == ASSUME Step PROVE RawInv'
<1> USE DEF Step
<1> SUFFICES ASSUME NEW c \in Conns, RawPending(c)' PROVE \E u \in Users : userConn'[u] = c
  BY DEF RawInv
<1>1. PICK l \in Loops : \E functor \in StillToRun(l)' : functor.conn = c /\ ~HoldsRef(functor)
  BY DEF RawPending, HoldsRef
<1>2. PICK functor \in StillToRun(l)' : functor.conn = c /\ ~HoldsRef(functor)
  BY <1>1
<1>3. CASE Sent(l, functor)
  BY <1>2, <1>3 DEF Sent, HoldsRef
<1>4. CASE functor \in StillToRun(l)
  <2>1. RawPending(c)
    BY <1>2, <1>4 DEF RawPending
  <2>2. PICK u \in Users : userConn[u] = c
    BY <2>1 DEF ServerInv, RawInv
  <2>3. UserMoves(u)
    BY DEF Moves
  <2> QED
    BY <2>1, <2>2, <2>3, NamesAssumption DEF UserMoves
<1> QED
  BY <1>2, <1>3, <1>4 DEF Moves, FunctorsMove

\* Without other threads, open connections read.
LEMMA QuietStep == ASSUME Step PROVE QuietInv'
<1> USE DEF Step
<1> SUFFICES ASSUME \A u \in Users : calls'[u] = 0, NEW c \in Conns,
                    state'[c] \in {"Connected", "DisConnecting"},
                    frame'[loopOf'[c]] # Closing(c)
             PROVE  reading'[c]
  BY DEF QuietInv
<1>1. StateMoves(c) /\ ChannelMoves(c) /\ PlaceMoves(c) /\ FrameMoves(loopOf[c])
  BY DEF Moves, TypeInv, TypeOK
<1>2. \A u \in Users : calls[u] = 0
  <2>1. ASSUME NEW u \in Users PROVE calls[u] = 0
    <3>1. calls[u] \in Nat /\ calls'[u] = 0 /\ calls[u] <= calls'[u]
      BY CallsAssumption DEF Moves, TypeInv, TypeOK
    <3> QED
      BY <3>1
  <2> QED
    BY <2>1
<1>3. CASE Closable(c)
  <2>1. Constructed(c)
    BY <1>3 DEF Closable, Constructed
  <2>2. loopOf'[c] = loopOf[c]
    BY <1>1, <2>1 DEF PlaceMoves
  <2>3. frame[loopOf[c]] # Closing(c)
    <3>1. Idle # Closing(c)
      BY FrameFacts
    <3>2. state'[c] # "DisConnected"
      OBVIOUS
    <3> QED
      BY <1>1, <2>2, <3>1, <3>2 DEF FrameMoves
  <2>4. reading[c]
    BY <1>2, <1>3, <2>3 DEF ServerInv, QuietInv, Closable
  <2> QED
    BY <1>1, <2>2, <2>4 DEF ChannelMoves
<1>4. CASE ~Closable(c)
  BY <1>1, <1>2, <1>4 DEF StateMoves, Closable
<1> QED
  BY <1>3, <1>4

-----------------------------------------------------------------------------
(***************************************************************************)
(* The theorems.                                                           *)
(***************************************************************************)

\* A server without connections.
LEMMA InitServerInv == Init => ServerInv
<1> SUFFICES ASSUME Init PROVE ServerInv
  OBVIOUS
<1>1. /\ \A l \in Loops : queue[l] = <<>> /\ batch[l] = <<>> /\ ran[l] = 0 /\ frame[l] = Idle
                          /\ active[l] = {}
      /\ \A c \in Conns : state[c] = "none" /\ ~reading[c]
      /\ \A f \in Fds : connMap[f] = NoConn
      /\ \A u \in Users : userConn[u] = NoConn
      /\ epoll = {} /\ loopOf \in [Conns -> Loops]
  BY DEF Init, Loops
<1>2. Range(<<>>) = {} /\ Len(<<>>) = 0 /\ DOMAIN <<>> = {}
  BY EmptySeq DEF Range
<1>3. \A l \in Loops : Held(l) = {} /\ StillToRun(l) = {}
  BY <1>1, <1>2 DEF Held, StillToRun
<1>4. \A c \in Conns : ~Alive(c) /\ Fresh(c) /\ ~Leaving(c) /\ ~RawPending(c)
  BY <1>1, <1>3 DEF Alive, Constructed, Fresh, Leaving, RawPending
<1>5. KnownInv /\ PlaceInv
  BY <1>1, <1>3, FrameFacts DEF KnownInv, PlaceInv, Constructed
<1>6. FreshInv
  BY <1>1, <1>3, <1>4, FrameFacts, NamesAssumption DEF FreshInv
<1>7. OnceInv
  BY <1>1, <1>2 DEF OnceInv, Once
<1>8. OwnerInv /\ EpollInv /\ RawInv
  BY <1>1, <1>4 DEF OwnerInv, EpollInv, RawInv
<1>9. ReadingInv /\ QuietInv
  BY <1>1, <1>4, FrameFacts DEF ReadingInv, QuietInv
<1>10. OpenMeansMapped
  BY <1>1 DEF OpenMeansMapped
<1> QED
  BY <1>5, <1>6, <1>7, <1>8, <1>9, <1>10 DEF ServerInv

\* The parts together.
LEMMA NextServerInv ==
    ASSUME TypeInv, TypeInv', ServerInv, [Next]_vars PROVE ServerInv' /\ Moves
<1>1. Step
  BY StepMoves DEF Step
<1>2. KnownInv' /\ PlaceInv' /\ FreshInv' /\ OnceInv' /\ OwnerInv'
  BY <1>1, KnownStep, PlaceInvStep, FreshStep, OnceStep, OwnerStep
<1>3. ReadingInv' /\ OpenMeansMapped' /\ RawInv' /\ QuietInv'
  BY <1>1, ReadingStep, MappedStep, RawStep, QuietStep
<1>4. EpollInv'
  BY <1>1, <1>3, EpollStep
<1>5. Moves
  BY <1>1 DEF Step
<1> QED
  BY <1>2, <1>3, <1>4, <1>5 DEF ServerInv

\* The inductive invariant.
LEMMA Invariant == Spec => [](TypeInv /\ ServerInv)
<1>1. TypeInv /\ TypeInv' /\ ServerInv /\ [Next]_vars => ServerInv'
  BY NextServerInv
<1> QED
  BY <1>1, InitServerInv, TypeInvariant, PTL DEF Spec

\* Type correctness.
THEOREM TypeCorrect == Spec => []TypeOK
<1>1. TypeInv => TypeOK
  BY DEF TypeInv
<1> QED
  BY <1>1, TypeInvariant, PTL

\* The raw Channel* of epoll and of activeChannels never dangle (Poller.cpp,
\* Channel.cpp): whatever the callbacks, the peers and the other threads do, the
\* connection lives until connectDestroyed took its channel out.  The plain this
\* of send and shutdown is not spoken of: that other threads keep a reference until
\* those functors ran is assumed (UserReleases).
THEOREM ChannelsStayAlive == Spec => []ChannelsAlive
<1>1. TypeInv /\ ServerInv => ChannelsAlive
  <2> SUFFICES ASSUME TypeInv, ServerInv PROVE ChannelsAlive
    OBVIOUS
  <2>1. \A c \in epoll : Alive(c)
    BY EpollIsAlive
  <2>2. \A l \in Loops : \A c \in active[l] \ {Acceptor} : Alive(c)
    BY <2>1 DEF ServerInv, PlaceInv
  <2> QED
    BY <2>1, <2>2 DEF ChannelsAlive
<1> QED
  BY <1>1, Invariant, PTL

\* connMap_ and the descriptors (TcpServer.cpp): an entry names its own
\* connection, accept never meets one, and an erase hits no later connection.
THEOREM MapStaysFaithful == Spec => []MapFaithful
<1>1. TypeInv /\ ServerInv => MapFaithful
  <2> SUFFICES ASSUME TypeInv, ServerInv PROVE MapFaithful
    OBVIOUS
  <2>1. ASSUME NEW f \in Fds, connMap[f] # NoConn
        PROVE  fdOf[connMap[f]] = f /\ f \notin FreeFds
    <3>1. connMap[f] \in Conns /\ Constructed(connMap[f]) /\ fdOf[connMap[f]] = f
      BY <2>1 DEF TypeInv, TypeOK, ServerInv, KnownInv
    <3>2. Alive(connMap[f])
      BY <3>1, AliveMeans
    <3> QED
      BY <3>1, <3>2 DEF FreeFds
  <2>2. ASSUME NEW l \in Loops, NEW functor \in StillToRun(l), functor.kind = "remove"
        PROVE  connMap[fdOf[functor.conn]] \in {functor.conn, NoConn}
    <3>1. functor \in Held(l) /\ functor.conn \in Conns /\ HoldsRef(functor)
      BY <2>2, StillToRunIsHeld DEF Functors, HoldsRef
    <3>2. Constructed(functor.conn)
      BY <3>1 DEF ServerInv, KnownInv
    <3>3. Alive(functor.conn)
      BY <3>1, <3>2, AliveMeans
    <3> QED
      BY <3>1, <3>3 DEF ServerInv, OwnerInv
  <2> QED
    BY <2>1, <2>2 DEF MapFaithful
<1> QED
  BY <1>1, Invariant, PTL

\* The server holds a reference to every connection that may still read.
THEOREM OpenStaysMapped == Spec => []OpenMeansMapped
<1>1. ServerInv => OpenMeansMapped
  BY DEF ServerInv
<1> QED
  BY <1>1, Invariant, PTL

\* handleClose starts from the idle loop of an open connection.
LEMMA ClosesWhen ==
    ASSUME TypeInv, Moves, NEW l \in Loops, NEW c \in Conns, Closes(l, c)
    PROVE  Closable(c) /\ loopOf'[c] = l /\ frame[l] = Idle
<1>1. FrameMoves(l) /\ frame'[l] # frame[l] /\ frame'[l] = Closing(c)
  BY DEF Moves, Closes
<1>2. /\ frame'[l] # Idle
      /\ \A d \in Conns : frame'[l] # Callback(d) /\ (frame'[l] = Closing(d) => d = c)
  BY <1>1 DEF Idle, Callback, Closing
<1> QED
  BY <1>1, <1>2 DEF FrameMoves

\* The assertions of connectEstablished and handleClose (TcpConn.cpp:54, 155),
\* on every path that leads to a close.
THEOREM AssertionsAlwaysHold == Spec => AssertionsHold
<1>1. ASSUME TypeInv, TypeInv', ServerInv, [Next]_vars
      PROVE  /\ \A l \in Loops, c \in Conns :
                    Closes(l, c) => state[c] \in {"Connected", "DisConnecting"}
             /\ \A c \in Conns : state[c] # "Connected" /\ state'[c] = "Connected" =>
                    state[c] \in {"none", "Connecting"}
  <2>1. Moves
    BY <1>1, NextServerInv
  <2>2. \A l \in Loops, c \in Conns : Closes(l, c) => state[c] \in {"Connected", "DisConnecting"}
    BY <1>1, <2>1, ClosesWhen DEF Closable
  <2>3. \A c \in Conns : state[c] # "Connected" /\ state'[c] = "Connected" =>
            state[c] \in {"none", "Connecting"}
    BY <2>1 DEF Moves, StateMoves
  <2> QED
    BY <2>2, <2>3
<1> QED
  BY <1>1, Invariant, PTL DEF Spec, AssertionsHold

\* Without other threads handleClose runs once for a connection: it finds it in
\* the map and not yet on its way out.
THEOREM ClosedOnlyOnce == Spec => ClosedOnce
<1>1. ASSUME TypeInv, TypeInv', ServerInv, [Next]_vars
      PROVE  \A l \in Loops, c \in Conns :
                 Closes(l, c) /\ (\A u \in Users : calls[u] = 0) =>
                     connMap[fdOf[c]] = c /\ ~Leaving(c)
  <2> SUFFICES ASSUME NEW l \in Loops, NEW c \in Conns, Closes(l, c),
                      \A u \in Users : calls[u] = 0
               PROVE  connMap[fdOf[c]] = c /\ ~Leaving(c)
    OBVIOUS
  <2>1. Moves
    BY <1>1, NextServerInv
  <2>2. Closable(c) /\ loopOf'[c] = l /\ frame[l] = Idle
    BY <1>1, <2>1, ClosesWhen
  <2>3. loopOf[c] = l
    BY <2>1, <2>2 DEF Moves, PlaceMoves, Closable, Constructed
  <2>4. frame[loopOf[c]] # Closing(c)
    BY <2>2, <2>3, FrameFacts
  <2>5. reading[c]
    BY <1>1, <2>2, <2>4 DEF ServerInv, QuietInv, Closable
  <2> QED
    BY <1>1, <2>5 DEF ServerInv, ReadingInv, OpenMeansMapped
<1> QED
  BY <1>1, Invariant, PTL DEF Spec, ClosedOnce
=============================================================================
