----------------------------- MODULE ConnOutput -----------------------------
(***************************************************************************)
(* The output of one connection (Ryugu/net/TcpConn.cpp): send, the buffer  *)
(* for what the socket does not take, handleWrite, and the ways in which a *)
(* connection ends under it: shutdown, forceClose, the peer's FIN or RST,  *)
(* and connectDestroyed.                                                   *)
(*                                                                         *)
(* All of it runs in the loop thread of the connection, except that send,  *)
(* shutdown and forceClose look at state_ in the thread that calls them.   *)
(* They look and write in one step here; the races for state_ are in       *)
(* TcpServer, and so is the life of the object, which is there throughout. *)
(*                                                                         *)
(* The bytes a user sends are numbered in the order sendInLoop gets them,  *)
(* so that the peer should see 1, 2, 3, ...  The kernel's buffer of the    *)
(* socket takes what it has room for, and the peer makes room by reading.  *)
(***************************************************************************)
EXTENDS Buffer

CONSTANTS Lengths,      \* the lengths of the messages sent
          SocketRoom,   \* the size of the kernel's buffer
          MaxBytes,     \* bound: bytes handed to sendInLoop
          MaxLate       \* bound: other threads inside send at the same time

ASSUME LengthAssumption == Lengths \subseteq Nat \ {0}
ASSUME RoomAssumption == SocketRoom \in Nat \ {0}
ASSUME BoundAssumption == MaxBytes \in Nat /\ MaxLate \in Nat

VARIABLES
    assertsOn,      \* whether the program was built with its assertions
    process,        \* "runs", or what ended it: "assert", "SIGPIPE"
    state,          \* TcpConn::state_, from Connected on
    lateSends,      \* other threads that saw Connected and are still to sendInLoop
    toRun,          \* functors of the connection in its loop: "shutdown", "forceClose"
    turn,           \* "read" between the two handlers of one dispatch, else "loop"
    registered,     \* epoll knows the channel
    reading,        \* the channel is interested in EPOLLIN
    writing,        \* the channel is interested in EPOLLOUT
    writeBuf,       \* TcpConn::writeBuf
    room,           \* room in the kernel's buffer
    shut,           \* we closed our write end
    ended,          \* the peer closed its own, and what came before was read
    reset,          \* the peer reset the connection
    sockError,      \* the socket still has to report the reset as an error
    wire,           \* the bytes given to the kernel, in order
    asked,          \* history: how many bytes sendInLoop got
    rewound         \* history: a write from the buffer began before bg

threadVars == <<state, lateSends, toRun>>
channelVars == <<turn, registered, reading>>
bufferVars == <<writing, writeBuf>>
socketVars == <<room, shut, ended, reset, sockError>>
streamVars == <<wire, asked, rewound>>
vars == <<assertsOn, process, threadVars, channelVars, bufferVars, socketVars, streamVars>>

Init ==
    /\ assertsOn \in BOOLEAN
    /\ process = "runs"
    /\ state = "Connected" /\ lateSends = 0 /\ toRun = {}
    /\ turn = "loop" /\ registered = TRUE /\ reading = TRUE
    /\ writing = FALSE /\ writeBuf = EmptyBuffer
    /\ room = SocketRoom
    /\ shut = FALSE /\ ended = FALSE /\ reset = FALSE /\ sockError = FALSE
    /\ wire = <<>> /\ asked = 0 /\ rewound = FALSE

Bytes(from, n) == [i \in 1..n |-> from + i]
Lesser(m, n) == IF m < n THEN m ELSE n

-----------------------------------------------------------------------------
\* Bugs a change of this code could introduce, each the mutated form of a
\* definition below.

\* A new message overtakes what waits in the buffer.
AlwaysAtOnce == TRUE

\* The part the socket took is put into the buffer as well.
KeepAll(bytes, sended) == bytes

\* enableWrite(true) forgotten.
WatchNothing(rest) == UNCHANGED writing

\* The bytes written are consumed by readOutToFd and again by its caller.
ConsumeTwice(n) == Consume(writeBuf, n + n)

-----------------------------------------------------------------------------
\* The loop's thread is between two handlers or functors.
InLoop == process = "runs" /\ turn = "loop"

\* sendInLoop writes at once only if nothing waits to be written.
MayWriteAtOnce == ~writing /\ IsEmpty(writeBuf)

Rest(bytes, sended) == SubSeq(bytes, sended + 1, Len(bytes))

\* What the socket did not take makes the channel wait for EPOLLOUT.
Watch(rest) == writing' = (writing \/ rest # <<>>)

\* A write to a socket that may send no more raises SIGPIPE, which nothing in the
\* program ignores; but the first call after a reset reports ECONNRESET instead.
Kills == (shut \/ reset) /\ ~sockError
Killed == process' = "SIGPIPE" /\ UNCHANGED <<bufferVars, socketVars, streamVars>>

\* How many of n bytes a write takes: what there is room for (none of them is EAGAIN),
\* none if it fails.
Taken(n) == IF sockError THEN 0 ELSE Lesser(n, room)

\* The first n bytes go to the kernel.
Write(bytes, n) ==
    /\ wire' = wire \o SubSeq(bytes, 1, n)
    /\ room' = room - n

\* sendInLoop.  A write that fails is one that took nothing; the vector grows to
\* fit.
SendInLoop(len) ==
    /\ asked + len <= MaxBytes
    /\ UNCHANGED <<assertsOn, channelVars, shut, ended, reset, rewound>>
    /\ \/ /\ MayWriteAtOnce /\ Kills
          /\ Killed
       \/ LET bytes == Bytes(asked, len)
              sended == IF MayWriteAtOnce THEN Taken(len) ELSE 0
              rest == Rest(bytes, sended)
          IN /\ ~(MayWriteAtOnce /\ Kills)
             /\ asked' = asked + len
             /\ Write(bytes, sended)
             /\ sockError' = (sockError /\ ~MayWriteAtOnce)
             /\ Watch(rest)
             /\ \E cap \in 0..MaxBytes :
                    /\ AllowedCapacity(writeBuf, rest, cap)
                    /\ writeBuf' = WriteIn(writeBuf, rest, cap)
             /\ UNCHANGED process

\* send, called in the loop thread.
Send(len) ==
    /\ InLoop
    /\ state = "Connected"
    /\ SendInLoop(len)
    /\ UNCHANGED threadVars

\* send, called in another thread: it tests state_, and sendInLoop runs later, also
\* on a connection that was closed since.
LateSendTests ==
    /\ process = "runs"
    /\ state = "Connected"
    /\ lateSends < MaxLate
    /\ lateSends' = lateSends + 1
    /\ UNCHANGED <<assertsOn, process, state, toRun, channelVars, bufferVars, socketVars,
                   streamVars>>

LateSend(len) ==
    /\ InLoop
    /\ lateSends > 0
    /\ lateSends' = lateSends - 1
    /\ SendInLoop(len)
    /\ UNCHANGED <<state, toRun>>

-----------------------------------------------------------------------------
\* What readOutToFd passes to write: size() bytes, from getData().
ToWrite == SubSeq(writeBuf.data, 1, Size(writeBuf))

Consumed(n) == Consume(writeBuf, n)

\* What readOutToFd returns for n bytes written: sended, which it never assigns.
ReadOutResult(n) == 0

\* Epoll::loopOnce goes by the interest of a channel that was reported for whatever
\* reason, and calls handleWrite before handleRead.
HandleWrite ==
    /\ InLoop
    /\ registered /\ writing
    /\ ~(IsEmpty(writeBuf) /\ assertsOn)
    /\ turn' = IF reading THEN "read" ELSE "loop"
    /\ \/ Kills /\ Killed
       \/ LET n == Taken(Size(writeBuf))
          IN /\ ~Kills
             /\ Write(ToWrite, n)
             /\ sockError' = FALSE
             /\ writeBuf' = Consumed(n)
             /\ writing' = ~(ReadOutResult(n) > 0 /\ IsEmpty(writeBuf'))
             /\ rewound' = (rewound \/ (n > 0 /\ writeBuf.bg > 0))
             /\ UNCHANGED <<process, shut, ended, reset, asked>>
    /\ UNCHANGED <<assertsOn, threadVars, registered, reading>>

\* assert(!writeBuf.empty()) fails.
HandleWriteAborts ==
    /\ InLoop
    /\ registered /\ writing
    /\ IsEmpty(writeBuf) /\ assertsOn
    /\ process' = "assert"
    /\ UNCHANGED <<assertsOn, threadVars, channelVars, bufferVars, socketVars, streamVars>>

\* handleClose ends the interest in both events, whatever waits in the buffer.
HandleClose ==
    /\ state' = "DisConnected"
    /\ reading' = FALSE /\ writing' = FALSE

\* handleRead comes next in the dispatch of a channel that is interested in EPOLLIN.
\* The read returns data or EAGAIN, the error, or 0.
HandleRead ==
    /\ process = "runs"
    /\ registered /\ reading
    /\ turn = "read" \/ ~writing
    /\ turn' = "loop"
    /\ \/ /\ ~ended
          /\ UNCHANGED <<state, reading, writing, sockError>>
       \/ /\ ~ended /\ sockError
          /\ sockError' = FALSE
          /\ UNCHANGED <<state, reading, writing>>
       \/ /\ ended \/ (reset /\ ~sockError)
          /\ HandleClose
          /\ UNCHANGED sockError
    /\ UNCHANGED <<assertsOn, process, lateSends, toRun, registered, writeBuf, room, shut,
                   ended, reset, streamVars>>

-----------------------------------------------------------------------------
\* shutdown sets the state in the calling thread ...
Shutdown ==
    /\ process = "runs"
    /\ state = "Connected"
    /\ state' = "DisConnecting"
    /\ toRun' = toRun \cup {"shutdown"}
    /\ UNCHANGED <<assertsOn, process, lateSends, channelVars, bufferVars, socketVars,
                   streamVars>>

\* ... and shutdownInLoop closes the write end, whatever waits in the buffer.
ShutdownInLoop ==
    /\ InLoop
    /\ "shutdown" \in toRun
    /\ toRun' = toRun \ {"shutdown"}
    /\ shut' = TRUE
    /\ UNCHANGED <<assertsOn, process, state, lateSends, channelVars, bufferVars, room, ended,
                   reset, sockError, streamVars>>

ForceClose ==
    /\ process = "runs"
    /\ state \in {"Connected", "DisConnecting"}
    /\ state' = "DisConnecting"
    /\ toRun' = toRun \cup {"forceClose"}
    /\ UNCHANGED <<assertsOn, process, lateSends, channelVars, bufferVars, socketVars,
                   streamVars>>

ForceCloseInLoop ==
    /\ InLoop
    /\ "forceClose" \in toRun
    /\ toRun' = toRun \ {"forceClose"}
    /\ \/ state \in {"Connected", "DisConnecting"} /\ HandleClose
       \/ state = "DisConnected" /\ UNCHANGED <<state, reading, writing>>
    /\ UNCHANGED <<assertsOn, process, lateSends, turn, registered, writeBuf, socketVars,
                   streamVars>>

\* connectDestroyed, after a close or from ~TcpServer.
ConnectDestroyed ==
    /\ InLoop
    /\ registered
    /\ registered' = FALSE
    /\ \/ state = "Connected" /\ HandleClose
       \/ state # "Connected" /\ UNCHANGED <<state, reading, writing>>
    /\ UNCHANGED <<assertsOn, process, lateSends, toRun, turn, writeBuf, socketVars,
                   streamVars>>

-----------------------------------------------------------------------------
\* The peer.
PeerReads ==
    /\ process = "runs"
    /\ ~reset
    /\ room < SocketRoom
    /\ room' \in (room + 1)..SocketRoom
    /\ UNCHANGED <<assertsOn, process, threadVars, channelVars, bufferVars, shut, ended, reset,
                   sockError, streamVars>>

\* Its FIN; it may go on reading.
PeerEnds ==
    /\ process = "runs"
    /\ ~ended /\ ~reset
    /\ ended' = TRUE
    /\ UNCHANGED <<assertsOn, process, threadVars, channelVars, bufferVars, room, shut, reset,
                   sockError, streamVars>>

\* Its RST.  Behind a FIN the kernel's error is EPIPE, which is not reported apart
\* from the signal.
PeerResets ==
    /\ process = "runs"
    /\ ~reset
    /\ reset' = TRUE
    /\ sockError' \in IF ended THEN BOOLEAN ELSE {TRUE}
    /\ UNCHANGED <<assertsOn, process, threadVars, channelVars, bufferVars, room, shut, ended,
                   streamVars>>

Dispatch == HandleWrite \/ HandleWriteAborts \/ HandleRead

Next ==
    \/ \E len \in Lengths : Send(len) \/ LateSend(len)
    \/ LateSendTests
    \/ Dispatch
    \/ Shutdown \/ ShutdownInLoop
    \/ ForceClose \/ ForceCloseInLoop \/ ConnectDestroyed
    \/ PeerReads \/ PeerEnds \/ PeerResets

Spec == Init /\ [][Next]_vars

\* What level triggered epoll reports until it is dealt with: the end of the stream,
\* an error, or, if it is watched for, room (or that there is no use for it).
Reported ==
    \/ turn = "read"
    \/ reading /\ ended
    \/ reset
    \/ writing /\ (room > 0 \/ shut)

\* The loop dispatches what is reported and the peer reads.
FairSpec ==
    /\ Spec
    /\ WF_vars(Reported /\ Dispatch)
    /\ WF_vars(PeerReads)

\* A peer that closes once it has read all of what was sent before a shutdown.
ClosingSpec ==
    /\ FairSpec
    /\ WF_vars(ShutdownInLoop)
    /\ WF_vars(shut /\ room = SocketRoom /\ PeerEnds)

-----------------------------------------------------------------------------
TypeOK ==
    /\ assertsOn \in BOOLEAN
    /\ process \in {"runs", "assert", "SIGPIPE"}
    /\ state \in {"Connected", "DisConnecting", "DisConnected"}
    /\ lateSends \in 0..MaxLate
    /\ toRun \subseteq {"shutdown", "forceClose"}
    /\ turn \in {"loop", "read"}
    /\ registered \in BOOLEAN /\ reading \in BOOLEAN /\ writing \in BOOLEAN
    /\ writeBuf.data \in Seq(Nat)
    /\ WellFormed(writeBuf)
    /\ room \in 0..SocketRoom
    /\ shut \in BOOLEAN /\ ended \in BOOLEAN /\ reset \in BOOLEAN /\ sockError \in BOOLEAN
    /\ wire \in Seq(Nat)
    /\ asked \in 0..MaxBytes
    /\ rewound \in BOOLEAN

\* sendInLoop and handleWrite agree on what is left: the buffer holds the bytes
\* behind those the kernel was said to have taken, each once and in order, across
\* direct, partial and failed writes and growth of the buffer.  (Which bytes the
\* kernel was given instead of those is another matter, see StreamInOrder.)
RestIsKept == Contents(writeBuf) = Bytes(Len(wire), asked - Len(wire))

\* Bytes that wait in the buffer of a connection that was not closed have EPOLLOUT
\* watched, so that handleWrite will come for them.  handleClose ends that, and the
\* bytes stay behind (TcpConn.cpp:156).
PendingIsWatched == registered /\ reading /\ ~IsEmpty(writeBuf) => writing

\* The stream is in order until handleWrite writes from a buffer it has consumed
\* from before: direct writes never overtake the buffer (TcpConn.cpp:115), and a
\* partial or failed direct write leaves exactly the rest.
InOrderUntilRewound == ~rewound => wire \o Contents(writeBuf) = Bytes(0, asked)

\* Nobody ends the connection: neither side, not by halves, nor the process.
Undisturbed == process = "runs" /\ state = "Connected" /\ ~ended /\ ~reset

\* As long as the peer reads and nobody ends the connection, what waits in the
\* buffer is written.  A close by either side, even by halves, leaves it behind.
Drained == ~IsEmpty(writeBuf) ~> (IsEmpty(writeBuf) \/ ~Undisturbed)

\* What the comment in sendInLoop promises (TcpConn.cpp:115): the order of the
\* bytes is never mixed up.
StreamInOrder == wire = Bytes(0, Len(wire))

\* The assertion of handleWrite (TcpConn.cpp:67): it is called only while there is
\* something to write.
WriteAssertion == process # "assert"

\* How the comment above shutdownInLoop (TcpConn.cpp:206) says that a connection
\* ends: the write end is closed, the peer reads all and closes, and read returns 0
\* here.  It says nothing of a peer that resets or a server that is destroyed first,
\* and a failed assertion is the business of WriteAssertion.
ShutdownEndsInClose ==
    shut ~> \/ state = "DisConnected"
            \/ reset \/ ~registered \/ process = "assert"
=============================================================================
