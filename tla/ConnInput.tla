----------------------------- MODULE ConnInput ------------------------------
(***************************************************************************)
(* The input of one connection and the two programs of the repository that *)
(* read it: TcpConn::handleRead fills readBuf and calls the message        *)
(* callback, which is that of the echo server (examples/Test/test.cpp) or  *)
(* that of the web server (examples/WebServer: WebServer::onMessage, the   *)
(* parser in HttpContext, onRequest).                                      *)
(*                                                                         *)
(* A byte stands for a piece of a request that contains no smaller piece   *)
(* the parser looks for: a word with the space behind it, a version, a     *)
(* header field with its colon, a CR, an LF.  The stream may be cut into   *)
(* reads between any two of them.  All of it runs in the loop of the       *)
(* connection; assertions are on, as in the build of the repository.       *)
(***************************************************************************)
EXTENDS Buffer, SequencesExt

CONSTANTS Requests,     \* what a client may send, each a sequence of pieces
          MaxRequests,  \* bound: requests sent on the connection
          MaxCapacity   \* bound: of the vector behind readBuf

Words == {"GET ", "/ ", "/quit "}           \* the pieces that end in a space
Versions == {"HTTP/1.0", "HTTP/1.1"}
Fields == {"Host:x"}                       \* the pieces with a colon
Byte == Words \cup Versions \cup Fields \cup {"quit", "CR", "LF"}

ASSUME RequestAssumption == Requests \subseteq Seq(Byte)
ASSUME BoundAssumption == MaxRequests \in Nat /\ MaxCapacity \in Nat

VARIABLES
    app,            \* the message callback: "echo" or "http"
    sent,           \* the requests the client sent
    inFlight,       \* what of them was not read yet
    readBuf,        \* TcpConn::readBuf
    inMessage,      \* the message callback is running
    parseState,     \* HttpContext::state_
    request,        \* HttpContext::request_
    quit,           \* HttpContext::close_
    connState,      \* TcpConn::state_, of an established connection
    stopped,        \* stop() of the main loop was called
    process,        \* "runs", or the function whose assertion ended it
    wire,           \* what was sent back, in order
    handled,        \* history: the requests given to httpCB_
    refused,        \* history: a line was answered with 400
    wholeReads      \* history: each read so far brought one well-formed request

contextVars == <<parseState, request, quit>>
historyVars == <<handled, refused, wholeReads>>
vars == <<app, sent, inFlight, readBuf, inMessage, contextVars, connState, stopped,
          process, wire, historyVars>>

NoRequest == [method |-> FALSE, path |-> "none", version |-> "none", fields |-> {}]

Init ==
    /\ app \in {"echo", "http"}
    /\ sent = <<>>
    /\ inFlight = <<>>
    /\ readBuf = EmptyBuffer
    /\ inMessage = FALSE
    /\ parseState = "requestLine"
    /\ request = NoRequest
    /\ quit = FALSE
    /\ connState = "Connected"
    /\ stopped = FALSE
    /\ process = "runs"
    /\ wire = <<>>
    /\ handled = <<>>
    /\ refused = FALSE
    /\ wholeReads = TRUE

-----------------------------------------------------------------------------
\* Buffer::find("\r\n"): the number of pieces before the first CRLF.  If there is
\* none it returns the end, as std::search does, and not null.
Find(bytes) ==
    LET found == {i \in 1..(Len(bytes) - 1) : bytes[i] = "CR" /\ bytes[i + 1] = "LF"}
    IN IF found = {} THEN Len(bytes) ELSE (CHOOSE i \in found : \A j \in found : i <= j) - 1

FirstLine(bytes) == SubSeq(bytes, 1, Find(bytes))
Line == FirstLine(Contents(readBuf))

\* parseRequestLine calls setMethod if there is a space, and goes on to the path
\* if the method is one it knows.
CallsSetMethod(line) == \E i \in DOMAIN line : line[i] \in Words
HasMethod(line) == line # <<>> /\ line[1] = "GET "
HasPath(line) == HasMethod(line) /\ \E i \in 2..Len(line) : line[i] \in Words

\* Whatever is in front of the next space is the path, and only a version may
\* follow.  A path of several pieces is "other".
Path(line) == IF line[2] \in Words THEN line[2] ELSE "other"
IsRequestLine(line) ==
    /\ HasPath(line)
    /\ \A i \in 2..(Len(line) - 2) : line[i] \notin Words
    /\ line[Len(line)] \in Versions

-----------------------------------------------------------------------------
\* Bugs a change of this code could introduce, each the mutated form of a
\* definition below.

\* reset that leaves the request of before.
KeepRequest == request

\* reset that goes over the fields it knows and forgets the headers.
KeepFields == [NoRequest EXCEPT !.fields = request.fields]

\* send that tests for a closed connection only.
OpenForSending == connState # "DisConnected"

\* The line is consumed and its LF is not.
LeaveLF(line) == Len(line) + 1

\* The path up to the end of the line, and not up to the next space.
PathToEnd(line) ==
    [request EXCEPT !.method = IF CallsSetMethod(line) THEN HasMethod(line) ELSE @,
                    !.path = IF HasPath(line) THEN line[Len(line)] ELSE @,
                    !.version = IF IsRequestLine(line) THEN line[Len(line)] ELSE @]

\* readOutAsString that consumes one byte whatever it returned.
TakeOneByte(b) == [bytes |-> Contents(b), rest |-> Consume(b, 1)]

-----------------------------------------------------------------------------
\* What it stores, whether or not it succeeds.
Parsed(line) ==
    [request EXCEPT !.method = IF CallsSetMethod(line) THEN HasMethod(line) ELSE @,
                    !.path = IF HasPath(line) THEN Path(line) ELSE @,
                    !.version = IF IsRequestLine(line) THEN line[Len(line)] ELSE @]
Quits(line) == quit \/ (HasPath(line) /\ line[2] = "/quit ")

\* consumeUntil(crlf + 2) and its assertion pos <= getEnd().
LineLength(line) == Len(line) + 2
MayConsume(line) == LineLength(line) <= Size(readBuf)
ConsumeLine(line) == readBuf' = Consume(readBuf, LineLength(line))

-----------------------------------------------------------------------------
\* handleRead takes what one read(2) returns, and calls the message callback.
HandleRead(n) ==
    /\ process = "runs" /\ ~inMessage
    /\ n <= Len(inFlight)
    /\ LET chunk == SubSeq(inFlight, 1, n)
       IN /\ \E cap \in 0..MaxCapacity :
                 /\ AllowedCapacity(readBuf, chunk, cap)
                 /\ readBuf' = WriteIn(readBuf, chunk, cap)
          /\ wholeReads' = (wholeReads /\ chunk \in Requests /\ IsRequestLine(FirstLine(chunk)))
    /\ inFlight' = SubSeq(inFlight, n + 1, Len(inFlight))
    /\ inMessage' = TRUE
    /\ UNCHANGED <<app, sent, contextVars, connState, stopped, process, wire, handled, refused>>

\* send and shutdown, called in the connection's loop.
MaySend == connState = "Connected"
Respond(bytes, closes) ==
    /\ wire' = IF MaySend THEN wire \o bytes ELSE wire
    /\ connState' = IF MaySend /\ closes THEN "DisConnecting" ELSE connState

-----------------------------------------------------------------------------
\* The echo server sends back what getInput returns, and stops the program if
\* that is all of "quit\r\n".
GetInput(b) == [bytes |-> Contents(b), rest |-> ReadOut(b, Size(b))]

EchoOnMessage ==
    /\ inMessage /\ app = "echo"
    /\ readBuf' = GetInput(readBuf).rest
    /\ Respond(GetInput(readBuf).bytes, FALSE)
    /\ stopped' = (stopped \/ GetInput(readBuf).bytes = <<"quit", "CR", "LF">>)
    /\ inMessage' = FALSE
    /\ UNCHANGED <<app, sent, inFlight, contextVars, process, historyVars>>

-----------------------------------------------------------------------------
\* The web server: the rounds of parseRequest's loop, and what onMessage does
\* after it.

Parsing(s) == process = "runs" /\ inMessage /\ app = "http" /\ parseState = s

\* setMethod asserts that the method is not set yet.
MethodFree(line) == CallsSetMethod(line) => ~request.method

RequestLine ==
    /\ Parsing("requestLine")
    /\ MethodFree(Line)
    /\ IsRequestLine(Line)
    /\ MayConsume(Line)
    /\ request' = Parsed(Line)
    /\ quit' = Quits(Line)
    /\ ConsumeLine(Line)
    /\ parseState' = "headers"
    /\ UNCHANGED <<app, sent, inFlight, inMessage, connState, stopped, process, wire, historyVars>>

HeaderLine ==
    /\ Parsing("headers")
    /\ MayConsume(Line)
    /\ \E i \in DOMAIN Line : Line[i] \in Fields
    /\ request' = [request EXCEPT !.fields = @ \cup (Range(Line) \cap Fields)]
    /\ ConsumeLine(Line)
    /\ UNCHANGED <<app, sent, inFlight, inMessage, parseState, quit, connState, stopped, process,
                   wire, historyVars>>

\* A line without a colon ends the headers.
EmptyLine ==
    /\ Parsing("headers")
    /\ MayConsume(Line)
    /\ \A i \in DOMAIN Line : Line[i] \notin Fields
    /\ ConsumeLine(Line)
    /\ parseState' = "gotAll"
    /\ UNCHANGED <<app, sent, inFlight, inMessage, request, quit, connState, stopped, process,
                   wire, historyVars>>

\* A line that is no request line stays in the buffer.
BadRequestLine ==
    /\ Parsing("requestLine")
    /\ MethodFree(Line)
    /\ ~IsRequestLine(Line)
    /\ request' = Parsed(Line)
    /\ quit' = Quits(Line)
    /\ Respond(<<"400">>, TRUE)
    /\ stopped' = (stopped \/ quit')
    /\ refused' = TRUE
    /\ inMessage' = FALSE
    /\ UNCHANGED <<app, sent, inFlight, readBuf, parseState, process, handled, wholeReads>>

\* HttpContext::reset; close_ stays as it is.
FreshRequest == NoRequest

\* onRequest: HTTP/1.0 closes, and so may httpCB_ (a path that is not found).  The
\* header it looks for to decide is "Conneciton", which no client sends.
OnRequest(callbackCloses) ==
    LET closes == request.version = "HTTP/1.0" \/ callbackCloses
    IN /\ Parsing("gotAll")
       /\ Respond(<<IF closes THEN "response, close" ELSE "response">>, closes)
       /\ handled' = Append(handled, request)
       /\ request' = FreshRequest
       /\ parseState' = "requestLine"
       /\ stopped' = (stopped \/ quit)
       /\ inMessage' = FALSE
       /\ UNCHANGED <<app, sent, inFlight, readBuf, quit, process, refused, wholeReads>>

SetMethodAborts ==
    /\ Parsing("requestLine")
    /\ ~MethodFree(Line)
    /\ process' = "setMethod"
    /\ UNCHANGED <<app, sent, inFlight, readBuf, inMessage, contextVars, connState, stopped,
                   wire, historyVars>>

ConsumeUntilAborts ==
    /\ \/ Parsing("requestLine") /\ MethodFree(Line) /\ IsRequestLine(Line)
       \/ Parsing("headers")
    /\ ~MayConsume(Line)
    /\ process' = "consumeUntil"
    /\ UNCHANGED <<app, sent, inFlight, readBuf, inMessage, contextVars, connState, stopped,
                   wire, historyVars>>

-----------------------------------------------------------------------------
ClientSends(r) ==
    /\ Len(sent) < MaxRequests
    /\ sent' = Append(sent, r)
    /\ inFlight' = inFlight \o r
    /\ UNCHANGED <<app, readBuf, inMessage, contextVars, connState, stopped, process, wire,
                   historyVars>>

Next ==
    \/ \E r \in Requests : ClientSends(r)
    \/ \E n \in 1..Len(inFlight) : HandleRead(n)
    \/ EchoOnMessage
    \/ RequestLine \/ HeaderLine \/ EmptyLine \/ BadRequestLine
    \/ \E closes \in BOOLEAN : OnRequest(closes)
    \/ SetMethodAborts \/ ConsumeUntilAborts

Spec == Init /\ [][Next]_vars

-----------------------------------------------------------------------------
Answers == {"400", "response", "response, close"}
RequestType == [method : BOOLEAN, path : Words \cup {"none", "other"}, version : Versions \cup {"none"},
                fields : SUBSET Fields]

TypeOK ==
    /\ app \in {"echo", "http"}
    /\ sent \in Seq(Requests)
    /\ inFlight \in Seq(Byte)
    /\ readBuf.data \in Seq(Byte)
    /\ inMessage \in BOOLEAN
    /\ parseState \in {"requestLine", "headers", "gotAll"}
    /\ request \in RequestType
    /\ quit \in BOOLEAN
    /\ connState \in {"Connected", "DisConnecting"}
    /\ stopped \in BOOLEAN
    /\ process \in {"runs", "setMethod", "consumeUntil"}
    /\ wire \in Seq(Byte \cup Answers)
    /\ handled \in Seq(RequestType)
    /\ refused \in BOOLEAN
    /\ wholeReads \in BOOLEAN

\* bg, ed and the vector agree (Buffer.h:42), so that size() does not wrap around
\* and the bytes behind ed are those the next writeIn appends, whichever mix of
\* reads, leftovers and consumed lines the vector went through.
BufferWellFormed == WellFormed(readBuf)

\* For its user the input buffer is a queue of bytes.
Queue == INSTANCE ByteQueue WITH contents <- Contents(readBuf)
ImplementsByteQueue == Queue!Spec

\* No byte of the stream is skipped or looked at twice: between two messages the
\* buffer and the bytes in flight are exactly the requests not handled yet, from
\* the beginning of the first one (web server), or what was not sent back (echo).
\* A pipelined request waits there for the next read.
NothingSkipped ==
    process = "runs" /\ ~inMessage =>
        CASE app = "http" ->
                 /\ parseState = "requestLine"
                 /\ FlattenSeq(SubSeq(sent, Len(handled) + 1, Len(sent))) =
                        Contents(readBuf) \o inFlight
          [] app = "echo" -> wire \o inFlight = FlattenSeq(sent)

\* What the parser takes for one request: a line, and if that is a request line,
\* with a path of one piece, lines with a field up to the first without one.
Grammatical(r) ==
    /\ Find(r) < Len(r)
    /\ IsRequestLine(FirstLine(r)) =>
           /\ Find(r) = 3 /\ Len(r) > 5
           /\ \A k \in 5..(Len(r) - 1) : r[k - 1] = "CR" /\ r[k] = "LF" =>
                  LET rest == SubSeq(r, k + 1, Len(r))
                  IN /\ Find(rest) < Len(rest)
                     /\ (\E i \in 1..Find(rest) : rest[i] \in Fields) <=>
                            Find(rest) + 2 < Len(rest)

\* What the client meant by a request.
Meaning(r) == [method |-> TRUE, path |-> r[2], version |-> r[3], fields |-> Range(r) \cap Fields]

\* httpCB_ gets the requests in the order the client sent them, each with its own
\* path, version and headers and nothing left of the one before, however the
\* stream was cut.
HandledAsSent == \A i \in DOMAIN handled : handled[i] = Meaning(sent[i])

\* An answer that announces the end of the connection is the last: no response
\* follows a 400 or a "Connection: close", though requests that were pipelined are
\* still parsed and handled.
NothingAfterClose ==
    \A i \in DOMAIN wire : wire[i] \in {"400", "response, close"} => i = Len(wire)

\* The assertion of setMethod (HttpRequest.h:31): HttpContext::reset makes room for
\* the next request, so that it can fail only after a line that was refused,
\* whose method stays and whose text is parsed again.
MethodSetOnce == process = "setMethod" => refused

\* If each read brings one request, none is refused and none fails an assertion:
\* all of them are handled when their read was.
WholeRequestsHandled ==
    wholeReads /\ app = "http" =>
        /\ process = "runs"
        /\ ~refused
        /\ ~inMessage => IsEmpty(readBuf)

\* The assertion of consumeUntil (Buffer.cpp:113): what is consumed is in the buffer.
ConsumeAssertion == process # "consumeUntil"
=============================================================================
