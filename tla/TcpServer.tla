------------------------------ MODULE TcpServer ------------------------------
(***************************************************************************)
(* The life of the connections of a TcpServer (Ryugu/net/TcpServer.cpp,    *)
(* TcpConn.cpp, Acceptor.cpp) over the loops that run it: the main loop    *)
(* accepts connections and owns connMap_, each connection lives in one io  *)
(* loop (the main one if the server has no threads), and other threads     *)
(* that were handed a connection may send, shut it down or force it        *)
(* closed.  A loop is reduced to the three phases the other modules        *)
(* justify: epoll_wait, the dispatch of the channels it reported, and      *)
(* doPendingFunctors, with a queue that is first in first out.             *)
(*                                                                         *)
(* A connection is one shared_ptr<TcpConn>: it is alive as long as someone *)
(* holds a reference, and its destructor, which closes the descriptor, is  *)
(* part of the step that drops the last one.  A closed descriptor leaves   *)
(* epoll by itself and may be returned by the next accept.                 *)
(***************************************************************************)
EXTENDS Naturals, Sequences, FiniteSets, Functions

CONSTANTS Conns,            \* TcpConn objects, each constructed at most once
          Fds,              \* the descriptors accept may return
          Main,             \* TcpServer::loop_
          Pools,            \* the loops getOneLoop may choose from, one such set
                            \* for every number of threads the server may be given
          Users,            \* other threads that use connections
          MaxReported,      \* Poller's cstMaxChannels - 1, the room epoll_wait is given
          MaxCalls,         \* bound: calls made by each of the other threads
          NoConn, NoFd, Acceptor

ASSUME PoolAssumption == \A pool \in Pools : pool # {} /\ (Main \in pool => pool = {Main})
ASSUME NamesAssumption == NoConn \notin Conns /\ NoFd \notin Fds /\ Acceptor \notin Conns
ASSUME ReportAssumption == MaxReported \in Nat \ {0}
ASSUME CallsAssumption == MaxCalls \in Nat

Loops == (UNION Pools) \cup {Main}

VARIABLES
    ioLoops,        \* the loops of the thread pool, Main alone if it has no threads
    connMap,        \* TcpServer::connMap_
    fdOf, loopOf,   \* the descriptor and the loop of each connection
    state,          \* TcpConn::state_, "none" before the constructor
    reading,        \* the read and write interest of the connection's channel
    writing,
    inLoop,         \* Channel::inLoop_
    epoll,          \* channels added to and not deleted from their loop's epoll
    phase,          \* of each loop: "poll", "dispatch" or "functors"
    active,         \* channels of Epoll::activeChannels still to be dispatched
    queue,          \* EventLoop::pendingFunctors
    batch, ran,     \* the vector doPendingFunctors iterates over, how many ran
    frame,          \* what the loop is in the middle of
    peerClosed,     \* the peer closed its end, and what it had sent was read
    userConn,       \* the reference each of the other threads holds
    userCall,       \* the call it is in the middle of
    calls           \* how many it made

epollVars == <<reading, writing, inLoop, epoll>>
loopVars == <<phase, active>>
userVars == <<userConn, userCall, calls>>
worldVars == <<peerClosed, userVars>>
batchVars == <<batch, ran>>
connVars == <<ioLoops, fdOf, loopOf>>
vars == <<connMap, connVars, state, epollVars, loopVars, queue, batchVars, frame, worldVars>>

Idle == [at |-> "loop", conn |-> NoConn]
Callback(c) == [at |-> "callback", conn |-> c]      \* in connCb or messageCb
Closing(c) == [at |-> "closing", conn |-> c]        \* in handleClose, after closeCb

NoCall == [op |-> "none", step |-> "none"]

Functor(kind, c) == [kind |-> kind, conn |-> c]

Init ==
    /\ ioLoops \in Pools
    /\ connMap = [f \in Fds |-> NoConn]
    /\ fdOf = [c \in Conns |-> NoFd]
    /\ loopOf = [c \in Conns |-> Main]
    /\ state = [c \in Conns |-> "none"]
    /\ reading = [c \in Conns |-> FALSE]
    /\ writing = [c \in Conns |-> FALSE]
    /\ inLoop = [c \in Conns |-> FALSE]
    /\ epoll = {}
    /\ phase = [l \in Loops |-> "poll"]
    /\ active = [l \in Loops |-> {}]
    /\ queue = [l \in Loops |-> <<>>]
    /\ batch = [l \in Loops |-> <<>>]
    /\ ran = [l \in Loops |-> 0]
    /\ frame = [l \in Loops |-> Idle]
    /\ peerClosed = [c \in Conns |-> FALSE]
    /\ userConn = [u \in Users |-> NoConn]
    /\ userCall = [u \in Users |-> NoCall]
    /\ calls = [u \in Users |-> 0]

-----------------------------------------------------------------------------
\* Bugs a change of this code could introduce, each the mutated form of a
\* definition below.

\* removeConnection that captures its argument by reference, against the comment
\* in it.
RemoveHoldsNothing(functor) == functor.kind \in {"establish", "destroy", "forceClose"}

\* epoll told the descriptor instead of the channel.
UpdateByFd(c) ==
    /\ inLoop' = [inLoop EXCEPT ![c] = TRUE]
    /\ epoll' = IF inLoop[c] THEN epoll ELSE epoll \cup {fdOf[c]}

\* connectDestroyed that also resets inLoop_, so that a late enableWrite adds the
\* channel again.
DestroyResetsInLoop(c) ==
    /\ IF state[c] = "Connected"
         THEN /\ state' = [state EXCEPT ![c] = "DisConnected"]
              /\ reading' = [reading EXCEPT ![c] = FALSE]
              /\ writing' = [writing EXCEPT ![c] = FALSE]
         ELSE UNCHANGED <<state, reading, writing>>
    /\ epoll' = epoll \ {c}
    /\ inLoop' = [inLoop EXCEPT ![c] = FALSE]

\* handleClose without enableAll(false).
DisableNothing(c) == UNCHANGED epollVars

\* forceCloseInLoop and forceClose that do not look at the state.
AlwaysClosable(c) == state[c] # "none"

\* removeConnectionInLoop that forgets the map.
RemoveNothing(c) ==
    /\ UNCHANGED connMap
    /\ queue' = [queue EXCEPT ![loopOf[c]] = Append(@, Functor("destroy", c))]

-----------------------------------------------------------------------------
\* Who holds a reference to a connection.

\* The lambdas of newConnection, removeConnection, removeConnectionInLoop and
\* forceClose capture the shared_ptr, those of send and shutdown a plain this.
HoldsRef(functor) == functor.kind \in {"establish", "remove", "destroy", "forceClose"}

\* A functor keeps what it captured until its vector is destroyed, at the end of
\* doPendingFunctors.
Captured(l) == {functor \in Range(queue[l]) \cup Range(batch[l]) : HoldsRef(functor)}

Constructed(c) == state[c] # "none"

Alive(c) ==
    /\ Constructed(c)
    /\ \/ c \in Range(connMap)
       \/ \E l \in Loops : frame[l].conn = c \/ \E functor \in Captured(l) : functor.conn = c
       \/ \E u \in Users : userConn[u] = c

FreeFds == {f \in Fds : \A c \in Conns : fdOf[c] = f => ~Alive(c)}

\* Functors that did not run yet, those among them that hold nothing, and those
\* that take a closed connection away.
StillToRun(l) == Range(queue[l]) \cup {batch[l][i] : i \in (ran[l] + 1)..Len(batch[l])}
RawPending(c) ==
    \E l \in Loops : \E functor \in StillToRun(l) : functor.conn = c /\ ~HoldsRef(functor)
Leaving(c) ==
    \E l \in Loops : \E functor \in StillToRun(l) :
        functor.conn = c /\ functor.kind \in {"remove", "destroy"}

-----------------------------------------------------------------------------
\* Channel and Poller.

\* Channel::update: the first one adds the channel to epoll, all later ones
\* modify it, which fails (and is logged) once it was removed: Channel::remove
\* leaves inLoop_ as it is.
ChannelUpdate(c) ==
    /\ inLoop' = [inLoop EXCEPT ![c] = TRUE]
    /\ epoll' = IF inLoop[c] THEN epoll ELSE epoll \cup {c}

EnableRead(c) ==
    /\ reading' = [reading EXCEPT ![c] = TRUE]
    /\ ChannelUpdate(c)
    /\ UNCHANGED writing

EnableWrite(c) ==
    /\ writing' = [writing EXCEPT ![c] = TRUE]
    /\ ChannelUpdate(c)
    /\ UNCHANGED reading

DisableAll(c) ==
    /\ reading' = [reading EXCEPT ![c] = FALSE]
    /\ writing' = [writing EXCEPT ![c] = FALSE]
    /\ ChannelUpdate(c)

\* Channel::remove.
ChannelRemove(c) == epoll' = epoll \ {c} /\ UNCHANGED inLoop

Registered(l) == {c \in epoll : loopOf[c] = l /\ Alive(c)}

\* The channels epoll_wait reports as long as they fit: level triggered, the end of
\* the stream is reported until it was read.
AtEnd(l) == {c \in Registered(l) : reading[c] /\ peerClosed[c]}

\* epoll_wait returns, because something is ready, because of a wakeup or after
\* its timeout.
Poll(l) ==
    /\ phase[l] = "poll"
    /\ phase' = [phase EXCEPT ![l] = "dispatch"]
    /\ \E ready \in SUBSET (Registered(l) \cup (IF l = Main THEN {Acceptor} ELSE {})) :
        /\ Cardinality(ready) <= MaxReported
        /\ AtEnd(l) \subseteq ready \/ Cardinality(ready) = MaxReported
        /\ active' = [active EXCEPT ![l] = ready]
    /\ UNCHANGED <<connMap, connVars, state, epollVars, queue, batchVars, frame, worldVars>>

\* All channels were dispatched: doPendingFunctors takes the queue.
SwapFunctors(l) ==
    /\ phase[l] = "dispatch"
    /\ active[l] = {}
    /\ frame[l] = Idle
    /\ phase' = [phase EXCEPT ![l] = "functors"]
    /\ batch' = [batch EXCEPT ![l] = queue[l]]
    /\ queue' = [queue EXCEPT ![l] = <<>>]
    /\ ran' = [ran EXCEPT ![l] = 0]
    /\ UNCHANGED <<connMap, connVars, state, epollVars, active, frame, worldVars>>

FunctorsDone(l) ==
    /\ phase[l] = "functors"
    /\ ran[l] = Len(batch[l])
    /\ frame[l] = Idle
    /\ phase' = [phase EXCEPT ![l] = "poll"]
    /\ batch' = [batch EXCEPT ![l] = <<>>]
    /\ ran' = [ran EXCEPT ![l] = 0]
    /\ UNCHANGED <<connMap, connVars, state, epollVars, active, queue, frame, worldVars>>

Push(l, functor) == queue' = [queue EXCEPT ![l] = Append(@, functor)]

-----------------------------------------------------------------------------
\* Operations of a connection, inside the functor or handler that runs them.

\* connectEstablished; connCb is the user's.
Establish(l, c) ==
    /\ state' = [state EXCEPT ![c] = "Connected"]
    /\ EnableRead(c)
    /\ frame' = [frame EXCEPT ![l] = Callback(c)]

\* removeConnectionInLoop, in the main loop.
Remove(c) ==
    /\ connMap' = [connMap EXCEPT ![fdOf[c]] = NoConn]
    /\ Push(loopOf[c], Functor("destroy", c))

\* handleClose up to and including closeCb, that is removeConnection, which runs
\* in the main loop: at once if that is where we are.
HandleClose(l, c) ==
    /\ DisableAll(c)
    /\ frame' = [frame EXCEPT ![l] = Closing(c)]
    /\ IF l = Main THEN Remove(c)
                   ELSE Push(Main, Functor("remove", c)) /\ UNCHANGED connMap

\* setState(DisConnected), the rest of handleClose.
CloseDone(l) ==
    /\ frame[l].at = "closing"
    /\ state' = [state EXCEPT ![frame[l].conn] = "DisConnected"]
    /\ frame' = [frame EXCEPT ![l] = Idle]
    /\ UNCHANGED <<connMap, connVars, epollVars, loopVars, queue, batchVars, worldVars>>

\* connectDestroyed.
Destroy(c) ==
    /\ IF state[c] = "Connected"
         THEN /\ state' = [state EXCEPT ![c] = "DisConnected"]
              /\ reading' = [reading EXCEPT ![c] = FALSE]
              /\ writing' = [writing EXCEPT ![c] = FALSE]
         ELSE UNCHANGED <<state, reading, writing>>
    /\ ChannelRemove(c)

\* sendInLoop: what the socket does not take is left to handleWrite.
SendInLoop(c) ==
    \/ UNCHANGED epollVars
    \/ EnableWrite(c)

\* send's test of state_, in the thread that calls it.
MaySend(s) == s = "Connected"

Closable(c) == state[c] \in {"Connected", "DisConnecting"}

-----------------------------------------------------------------------------
\* The dispatch of channels.

\* Acceptor::handleRead and newConnection.  The constructor of Channel and the
\* pool's round robin choice of a loop have no effect the properties see.
Accept(c, f, l) ==
    /\ phase[Main] = "dispatch"
    /\ frame[Main] = Idle
    /\ Acceptor \in active[Main]
    /\ active' = [active EXCEPT ![Main] = @ \ {Acceptor}]
    /\ ~Constructed(c)
    /\ f \in FreeFds
    /\ l \in ioLoops
    /\ fdOf' = [fdOf EXCEPT ![c] = f]
    /\ loopOf' = [loopOf EXCEPT ![c] = l]
    /\ connMap' = [connMap EXCEPT ![f] = c]
    /\ IF l = Main
         THEN Establish(l, c) /\ UNCHANGED queue
         ELSE /\ state' = [state EXCEPT ![c] = "Connecting"]
              /\ Push(l, Functor("establish", c))
              /\ UNCHANGED <<epollVars, frame>>
    /\ UNCHANGED <<ioLoops, phase, batchVars, worldVars>>

\* accept fails: the peer is gone, or there is no descriptor left.
AcceptFails ==
    /\ phase[Main] = "dispatch"
    /\ frame[Main] = Idle
    /\ Acceptor \in active[Main]
    /\ active' = [active EXCEPT ![Main] = @ \ {Acceptor}]
    /\ UNCHANGED <<connMap, connVars, state, epollVars, phase, queue, batchVars, frame,
                   worldVars>>

\* Epoll::loopOnce calls the handlers the channel is interested in now, whatever
\* was reported.  handleRead reads data, the end of the stream, or nothing.
Dispatch(l, c) ==
    /\ phase[l] = "dispatch"
    /\ frame[l] = Idle
    /\ c \in active[l]
    /\ active' = [active EXCEPT ![l] = @ \ {c}]
    /\ \/ /\ reading[c]
          /\ peerClosed[c]
          /\ HandleClose(l, c)
       \/ /\ reading[c]
          /\ ~peerClosed[c]
          /\ frame' = [frame EXCEPT ![l] = Callback(c)]
          /\ UNCHANGED <<connMap, queue, epollVars>>
       \/ /\ ~(reading[c] /\ peerClosed[c])
          /\ UNCHANGED <<connMap, queue, epollVars, frame>>
    /\ UNCHANGED <<connVars, state, phase, batchVars, worldVars>>

-----------------------------------------------------------------------------
\* doPendingFunctors.

NextFunctor(l) == batch[l][ran[l] + 1]

RunFunctor(l, kind) ==
    /\ phase[l] = "functors"
    /\ frame[l] = Idle
    /\ ran[l] < Len(batch[l])
    /\ NextFunctor(l).kind = kind
    /\ ran' = [ran EXCEPT ![l] = @ + 1]
    /\ UNCHANGED <<connVars, loopVars, batch, worldVars>>

RunEstablish(l) ==
    /\ RunFunctor(l, "establish")
    /\ Establish(l, NextFunctor(l).conn)
    /\ UNCHANGED <<connMap, queue>>

RunRemove(l) ==
    /\ RunFunctor(l, "remove")
    /\ Remove(NextFunctor(l).conn)
    /\ UNCHANGED <<state, epollVars, frame>>

RunDestroy(l) ==
    /\ RunFunctor(l, "destroy")
    /\ Destroy(NextFunctor(l).conn)
    /\ UNCHANGED <<connMap, queue, frame>>

\* forceCloseInLoop.
RunForceClose(l) ==
    /\ RunFunctor(l, "forceClose")
    /\ IF Closable(NextFunctor(l).conn)
         THEN HandleClose(l, NextFunctor(l).conn)
         ELSE UNCHANGED <<connMap, queue, epollVars, frame>>
    /\ UNCHANGED state

RunSend(l) ==
    /\ RunFunctor(l, "send")
    /\ SendInLoop(NextFunctor(l).conn)
    /\ UNCHANGED <<connMap, state, queue, frame>>

\* shutdownInLoop closes the write end of the socket.
RunShutdown(l) ==
    /\ RunFunctor(l, "shutdown")
    /\ UNCHANGED <<connMap, state, queue, epollVars, frame>>

-----------------------------------------------------------------------------
\* The user's callbacks, which run in the connection's loop and may make several
\* calls, and the peer.  A forceClose is taken for the last of them: what follows
\* it finds the connection DisConnecting and does nothing, but for another
\* forceClose, which other threads may add.

InCallback(l) == frame[l].at = "callback"

CallbackReturns(l) ==
    /\ InCallback(l)
    /\ frame' = [frame EXCEPT ![l] = Idle]
    /\ UNCHANGED <<connMap, connVars, state, epollVars, loopVars, queue, batchVars, worldVars>>

\* The callback gives its shared_ptr to another thread, as the last thing it does
\* with it: the loop and the thread still meet in each later callback.
CallbackHandsOver(l, u) ==
    /\ InCallback(l)
    /\ userConn[u] = NoConn
    /\ calls[u] < MaxCalls
    /\ userConn' = [userConn EXCEPT ![u] = frame[l].conn]
    /\ frame' = [frame EXCEPT ![l] = Idle]
    /\ UNCHANGED <<connMap, connVars, state, epollVars, loopVars, queue, batchVars,
                   peerClosed, userCall, calls>>

CallbackSends(l) ==
    /\ InCallback(l)
    /\ MaySend(state[frame[l].conn])
    /\ SendInLoop(frame[l].conn)
    /\ UNCHANGED <<connMap, connVars, state, loopVars, queue, batchVars, frame, worldVars>>

\* shutdown: shutdownInLoop runs at once.
CallbackShutsDown(l) ==
    /\ InCallback(l)
    /\ state[frame[l].conn] = "Connected"
    /\ state' = [state EXCEPT ![frame[l].conn] = "DisConnecting"]
    /\ UNCHANGED <<connMap, connVars, epollVars, loopVars, queue, batchVars, frame, worldVars>>

\* forceClose: forceCloseInLoop is queued even so.
CallbackForcesClose(l) ==
    /\ InCallback(l)
    /\ Closable(frame[l].conn)
    /\ state' = [state EXCEPT ![frame[l].conn] = "DisConnecting"]
    /\ Push(l, Functor("forceClose", frame[l].conn))
    /\ frame' = [frame EXCEPT ![l] = Idle]
    /\ UNCHANGED <<connMap, connVars, epollVars, loopVars, batchVars, worldVars>>

PeerCloses(c) ==
    /\ Alive(c)
    /\ ~peerClosed[c]
    /\ peerClosed' = [peerClosed EXCEPT ![c] = TRUE]
    /\ UNCHANGED <<connMap, connVars, state, epollVars, loopVars, queue, batchVars, frame,
                   userVars>>

-----------------------------------------------------------------------------
\* The other threads.  state_ is read, then written, then the functor is queued,
\* and the loop may run between any two of these.

Permits(op, s) ==
    CASE op = "send" -> MaySend(s)
      [] op = "shutdown" -> s = "Connected"
      [] op = "forceClose" -> s \in {"Connected", "DisConnecting"}

\* send does not write state_.
FirstStep(op) == IF op = "send" THEN "queue" ELSE "set"

UserTests(u, op) ==
    /\ userConn[u] # NoConn
    /\ userCall[u] = NoCall
    /\ calls[u] < MaxCalls
    /\ calls' = [calls EXCEPT ![u] = @ + 1]
    /\ Permits(op, state[userConn[u]])
    /\ userCall' = [userCall EXCEPT ![u] = [op |-> op, step |-> FirstStep(op)]]
    /\ UNCHANGED <<connMap, connVars, state, epollVars, loopVars, queue, batchVars, frame,
                   peerClosed, userConn>>

UserSets(u) ==
    /\ userCall[u].step = "set"
    /\ state' = [state EXCEPT ![userConn[u]] = "DisConnecting"]
    /\ userCall' = [userCall EXCEPT ![u].step = "queue"]
    /\ UNCHANGED <<connMap, connVars, epollVars, loopVars, queue, batchVars, frame,
                   peerClosed, userConn, calls>>

UserQueues(u) ==
    /\ userCall[u].step = "queue"
    /\ Push(loopOf[userConn[u]], Functor(userCall[u].op, userConn[u]))
    /\ userCall' = [userCall EXCEPT ![u] = NoCall]
    /\ UNCHANGED <<connMap, connVars, state, epollVars, loopVars, batchVars, frame,
                   peerClosed, userConn, calls>>

\* The functors of send and shutdown capture a plain this.  That they find it
\* alive is an assumption on the user: a thread keeps its reference until the
\* functors that need it ran.
UserReleases(u) ==
    /\ userConn[u] # NoConn
    /\ userCall[u] = NoCall
    /\ ~RawPending(userConn[u])
    /\ userConn' = [userConn EXCEPT ![u] = NoConn]
    /\ UNCHANGED <<connMap, connVars, state, epollVars, loopVars, queue, batchVars, frame,
                   peerClosed, userCall, calls>>

-----------------------------------------------------------------------------
LoopStep(l) ==
    \/ Poll(l) \/ SwapFunctors(l) \/ FunctorsDone(l) \/ CloseDone(l) \/ CallbackReturns(l)
    \/ \E c \in Conns : Dispatch(l, c)
    \/ RunEstablish(l) \/ RunRemove(l) \/ RunDestroy(l)
    \/ RunForceClose(l) \/ RunSend(l) \/ RunShutdown(l)

CallbackStep(l) ==
    \/ \E u \in Users : CallbackHandsOver(l, u)
    \/ CallbackSends(l) \/ CallbackShutsDown(l) \/ CallbackForcesClose(l)

UserStep(u) == UserSets(u) \/ UserQueues(u) \/ UserReleases(u)

Next ==
    \/ \E l \in Loops : LoopStep(l) \/ CallbackStep(l)
    \/ \E c \in Conns, f \in Fds, l \in Loops : Accept(c, f, l)
    \/ AcceptFails
    \/ \E c \in Conns : PeerCloses(c)
    \/ \E u \in Users, op \in {"send", "shutdown", "forceClose"} : UserTests(u, op)
    \/ \E u \in Users : UserStep(u)

Spec == Init /\ [][Next]_vars

\* Every loop gets on, callbacks return, accept returns, and other threads
\* finish their calls and let go of their connection.
FairSpec ==
    /\ Spec
    /\ \A l \in Loops : WF_vars(LoopStep(l) \/ (l = Main /\ AcceptFails))
    /\ \A u \in Users : WF_vars(UserStep(u))

-----------------------------------------------------------------------------
States == {"none", "Connecting", "Connected", "DisConnecting", "DisConnected"}
Functors == [kind : {"establish", "remove", "destroy", "forceClose", "send", "shutdown"},
             conn : Conns]

TypeOK ==
    /\ ioLoops \in Pools
    /\ connMap \in [Fds -> Conns \cup {NoConn}]
    /\ fdOf \in [Conns -> Fds \cup {NoFd}]
    /\ loopOf \in [Conns -> Loops]
    /\ state \in [Conns -> States]
    /\ reading \in [Conns -> BOOLEAN]
    /\ writing \in [Conns -> BOOLEAN]
    /\ inLoop \in [Conns -> BOOLEAN]
    /\ epoll \subseteq Conns
    /\ phase \in [Loops -> {"poll", "dispatch", "functors"}]
    /\ active \in [Loops -> SUBSET (Conns \cup {Acceptor})]
    /\ queue \in [Loops -> Seq(Functors)]
    /\ batch \in [Loops -> Seq(Functors)]
    /\ ran \in [Loops -> Nat]
    /\ frame \in [Loops -> {Idle} \cup {Callback(c) : c \in Conns} \cup {Closing(c) : c \in Conns}]
    /\ peerClosed \in [Conns -> BOOLEAN]
    /\ userConn \in [Users -> Conns \cup {NoConn}]
    /\ userCall \in [Users -> [op : {"none", "send", "shutdown", "forceClose"},
                               step : {"none", "set", "queue"}]]
    /\ calls \in [Users -> 0..MaxCalls]

\* The raw Channel* of epoll and of activeChannels: epoll never holds the channel
\* of a connection that is gone (connectDestroyed ran before the last reference
\* went), and neither does the array epoll_wait filled, whatever the callbacks of
\* the round and the other threads do before its turn comes.
ChannelsAlive ==
    /\ \A c \in epoll : Alive(c)
    /\ \A l \in Loops : \A c \in active[l] \ {Acceptor} : Alive(c)

\* connMap_ is keyed by descriptor and its entries are erased by key, later and
\* in another thread than the close.  An entry names its own connection, a
\* descriptor that accept may return has none, and an erase still to come cannot
\* hit the entry of a later connection on the same descriptor.
MapFaithful ==
    /\ \A f \in Fds : connMap[f] # NoConn => fdOf[connMap[f]] = f /\ f \notin FreeFds
    /\ \A l \in Loops : \A functor \in StillToRun(l) :
           functor.kind = "remove" => connMap[fdOf[functor.conn]] \in {functor.conn, NoConn}

\* The server holds a reference (TcpServer.h:52) to every connection from its
\* acceptance until its channel is disabled for good.
OpenMeansMapped ==
    \A c \in Conns : reading[c] \/ state[c] = "Connecting" => connMap[fdOf[c]] = c

\* handleClose starts in loop l, for connection c.
Closes(l, c) == frame[l] # Closing(c) /\ frame'[l] = Closing(c)

\* The assertions of TcpConn.cpp: connectEstablished finds a connection no one
\* has closed yet (54), and handleClose one that is open (155), whichever of the
\* end of the stream, a forceClose from a callback and one from another thread
\* come first.
AssertionsHold ==
    [][/\ \A l \in Loops, c \in Conns :
              Closes(l, c) => state[c] \in {"Connected", "DisConnecting"}
       /\ \A c \in Conns : state[c] # "Connected" /\ state'[c] = "Connected" =>
              state[c] \in {"none", "Connecting"}]_vars

\* As long as only callbacks of its own loop use a connection, it is closed
\* once: closeCb, which is TcpServer::removeConnection, is not called again.
\* (Another thread that tests state_ before, and writes it after handleClose,
\* makes a second handleClose possible; MapFaithful and ChannelsAlive hold then
\* as well.)
ClosedOnce ==
    [][\A l \in Loops, c \in Conns :
           Closes(l, c) /\ (\A u \in Users : calls[u] = 0) =>
               connMap[fdOf[c]] = c /\ ~Leaving(c)]_vars

\* Nothing leaks: once its peer has closed, every connection is destroyed and its
\* descriptor closed.
Released == \A c \in Conns : peerClosed[c] ~> ~Alive(c)
=============================================================================
