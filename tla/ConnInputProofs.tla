--------------------------- MODULE ConnInputProofs ---------------------------
(***************************************************************************)
(* Theorems about ConnInput, for clients that send anything, cut into      *)
(* reads anywhere.                                                         *)
(***************************************************************************)
EXTENDS ConnInput, BufferProofs

\* The buffer is a record in which bg, ed and the vector agree, and holds bytes.
TypeInv == TypeOK /\ readBuf \in Buffers(Byte)

\* A method is left in the request only by a line that was refused.
MethodInv ==
    /\ parseState = "requestLine" /\ request.method => refused
    /\ MethodSetOnce

\* The answers that announce the end of the connection; while it is connected none
\* of them was sent.
Closing == {"400", "response, close"}
ClosingInv ==
    /\ connState = "Connected" => \A i \in DOMAIN wire : wire[i] \notin Closing
    /\ NothingAfterClose

InputInv == TypeInv /\ MethodInv /\ ClosingInv

-----------------------------------------------------------------------------
(***************************************************************************)
(* The line the parser looks at, and what the handlers do to the buffer.   *)
(***************************************************************************)

\* Where the line ends, with or without a CRLF behind it.
LEMMA FindInside ==
    ASSUME NEW S, NEW bytes \in Seq(S)
    PROVE  Find(bytes) \in 0..Len(bytes)
<1> DEFINE found == {i \in 1..(Len(bytes) - 1) : bytes[i] = "CR" /\ bytes[i + 1] = "LF"}
           least == CHOOSE i \in found : \A j \in found : i <= j
<1>1. Find(bytes) = IF found = {} THEN Len(bytes) ELSE least - 1
  BY DEF Find
<1>2. Len(bytes) \in Nat
  BY LenProperties
<1>3. found \subseteq Nat /\ found \subseteq 1..(Len(bytes) - 1)
  BY <1>2
<1> HIDE DEF found
<1>4. CASE found = {}
  BY <1>1, <1>2, <1>4
<1>5. CASE found # {}
  <2>1. \E i \in found : \A j \in found : i <= j
    BY <1>3, <1>5, LeastOf
  <2>2. least \in found
    BY <2>1
  <2> HIDE DEF least
  <2>3. least \in 1..(Len(bytes) - 1)
    BY <1>3, <2>2
  <2> QED
    BY <1>1, <1>2, <1>5, <2>3
<1> QED
  BY <1>4, <1>5

\* The line is a part of the buffer.
LEMMA LineInside ==
    ASSUME TypeInv
    PROVE  Line \in Seq(Byte) /\ Len(Line) \in 0..Size(readBuf)
<1> DEFINE c == Contents(readBuf)
<1>1. c \in Seq(Byte) /\ Len(c) = Size(readBuf) /\ Size(readBuf) \in Nat
  BY ContentsOfBuffer DEF TypeInv
<1>2. Line = SubSeq(c, 1, Find(c))
  BY DEF Line, FirstLine
<1> HIDE DEF c
<1>3. Find(c) \in 0..Len(c)
  BY <1>1, FindInside
<1> QED
  BY <1>1, <1>2, <1>3, CutInTwo

\* consumeUntil(crlf + 2), if its assertion holds, takes the line and the CRLF.
LEMMA ConsumeLineEffect ==
    ASSUME TypeInv, MayConsume(Line), ConsumeLine(Line)
    PROVE  /\ LineLength(Line) \in 0..Size(readBuf)
           /\ readBuf' \in Buffers(Byte)
           /\ Contents(readBuf') =
                  SubSeq(Contents(readBuf), LineLength(Line) + 1, Size(readBuf))
<1>1. readBuf \in Buffers(Byte) /\ Size(readBuf) \in Nat /\ Len(Line) \in Nat
  BY LineInside, ContentsOfBuffer DEF TypeInv
<1>2. LineLength(Line) \in 0..Size(readBuf)
  BY <1>1 DEF LineLength, MayConsume
<1>3. readBuf' = Consume(readBuf, LineLength(Line))
  BY DEF ConsumeLine
<1> QED
  BY <1>1, <1>2, <1>3, ConsumeTakes

\* handleRead moves the first bytes in flight behind those in the buffer.
LEMMA HandleReadEffect ==
    ASSUME TypeInv, NEW n \in 1..Len(inFlight), HandleRead(n)
    PROVE  /\ SubSeq(inFlight, 1, n) \in Seq(Byte) /\ inFlight' \in Seq(Byte)
           /\ SubSeq(inFlight, 1, n) \o inFlight' = inFlight
           /\ readBuf' \in Buffers(Byte)
           /\ Contents(readBuf') = Contents(readBuf) \o SubSeq(inFlight, 1, n)
<1> DEFINE chunk == SubSeq(inFlight, 1, n)
<1>1. inFlight \in Seq(Byte) /\ Len(inFlight) \in Nat /\ readBuf \in Buffers(Byte)
  BY LenProperties DEF TypeInv, TypeOK
<1>2. n \in 0..Len(inFlight) /\ inFlight' = SubSeq(inFlight, n + 1, Len(inFlight))
  BY <1>1 DEF HandleRead
<1>3. /\ chunk \in Seq(Byte) /\ inFlight' \in Seq(Byte)
      /\ chunk \o inFlight' = inFlight
  BY <1>1, <1>2, CutInTwo
<1>4. PICK cap \in 0..MaxCapacity :
          AllowedCapacity(readBuf, chunk, cap) /\ readBuf' = WriteIn(readBuf, chunk, cap)
  BY DEF HandleRead
<1>5. cap \in Nat
  BY BoundAssumption
<1> HIDE DEF chunk
<1>6. readBuf' \in Buffers(Byte) /\ Contents(readBuf') = Contents(readBuf) \o chunk
  BY <1>1, <1>3, <1>4, <1>5, WriteInAppends
<1> QED
  BY <1>3, <1>6 DEF chunk

\* getInput returns all there is and leaves nothing.
LEMMA GetInputEffect ==
    ASSUME TypeInv
    PROVE  /\ GetInput(readBuf).bytes = Contents(readBuf)
           /\ Contents(readBuf) \in Seq(Byte)
           /\ GetInput(readBuf).rest \in Buffers(Byte)
           /\ Contents(GetInput(readBuf).rest) =
                  SubSeq(Contents(readBuf), Size(readBuf) + 1, Size(readBuf))
<1>1. /\ readBuf \in Buffers(Byte) /\ Size(readBuf) \in Nat
      /\ Contents(readBuf) \in Seq(Byte)
  BY ContentsOfBuffer DEF TypeInv
<1>2. /\ GetInput(readBuf).bytes = Contents(readBuf)
      /\ GetInput(readBuf).rest = Consume(readBuf, Size(readBuf))
  BY <1>1 DEF GetInput, ReadOut
<1>3. Size(readBuf) \in 0..Size(readBuf)
  BY <1>1
<1> QED
  BY <1>1, <1>2, <1>3, ConsumeTakes

-----------------------------------------------------------------------------
(***************************************************************************)
(* The answers.                                                            *)
(***************************************************************************)

\* send appends its bytes or does nothing; shutdown ends the sending.
LEMMA RespondEffect ==
    ASSUME TypeInv, ClosingInv, NEW bytes \in Seq(Byte \cup Answers), NEW closes \in BOOLEAN,
           Respond(bytes, closes),
           \/ /\ \A i \in DOMAIN bytes : bytes[i] \notin Closing
              /\ ~closes
           \/ Len(bytes) = 1 /\ closes
    PROVE  /\ wire' \in Seq(Byte \cup Answers)
           /\ connState' \in {"Connected", "DisConnecting"}
           /\ ClosingInv'
<1>1. wire \in Seq(Byte \cup Answers) /\ connState \in {"Connected", "DisConnecting"}
  BY DEF TypeInv, TypeOK
<1>2. CASE ~MaySend
  <2>1. UNCHANGED <<wire, connState>>
    BY <1>2 DEF Respond
  <2> QED
    BY <1>1, <2>1 DEF ClosingInv, NothingAfterClose
<1>3. CASE MaySend
  <2>1. /\ wire' = wire \o bytes
        /\ connState' = IF closes THEN "DisConnecting" ELSE connState
    BY <1>3 DEF Respond
  <2>2. /\ wire' \in Seq(Byte \cup Answers) /\ Len(wire') = Len(wire) + Len(bytes)
        /\ Len(wire) \in Nat /\ Len(bytes) \in Nat
        /\ DOMAIN wire = 1..Len(wire) /\ DOMAIN bytes = 1..Len(bytes)
        /\ DOMAIN wire' = 1..Len(wire')
    BY <1>1, <2>1, ConcatProperties, LenProperties
  <2>3. \A i \in 1..Len(wire') : wire'[i] = IF i <= Len(wire) THEN wire[i] ELSE bytes[i - Len(wire)]
    BY <1>1, <2>1, <2>2, ConcatProperties
  <2>4. \A i \in 1..Len(wire) : wire[i] \notin Closing
    BY <1>3, <2>2 DEF ClosingInv, MaySend
  <2>5. CASE closes /\ Len(bytes) = 1
    <3>1. connState' = "DisConnecting"
      BY <2>1, <2>5
    <3>2. ASSUME NEW i \in 1..Len(wire'), wire'[i] \in Closing PROVE i = Len(wire')
      <4>1. ~(i <= Len(wire))
        BY <2>2, <2>3, <2>4, <3>2
      <4> QED
        BY <2>2, <2>5, <4>1
    <3> QED
      BY <2>2, <3>1, <3>2 DEF ClosingInv, NothingAfterClose, Closing
  <2>6. CASE ~closes /\ \A i \in DOMAIN bytes : bytes[i] \notin Closing
    <3>1. connState' = connState
      BY <2>1, <2>6
    <3>2. ASSUME NEW i \in 1..Len(wire') PROVE wire'[i] \notin Closing
      <4>1. CASE i <= Len(wire)
        BY <2>2, <2>3, <2>4, <4>1
      <4>2. CASE ~(i <= Len(wire))
        <5>1. i - Len(wire) \in 1..Len(bytes)
          BY <2>2, <4>2
        <5> QED
          BY <2>2, <2>3, <2>6, <4>2, <5>1
      <4> QED
        BY <4>1, <4>2
    <3> QED
      BY <1>1, <2>2, <3>1, <3>2 DEF ClosingInv, NothingAfterClose, Closing
  <2>7. connState' \in {"Connected", "DisConnecting"}
    BY <1>1, <2>1
  <2> QED
    BY <2>2, <2>5, <2>6, <2>7
<1> QED
  BY <1>2, <1>3

-----------------------------------------------------------------------------
(***************************************************************************)
(* The invariant.                                                          *)
(***************************************************************************)

\* At first there is nothing.
LEMMA InitInput == Init => InputInv
<1> SUFFICES ASSUME Init PROVE InputInv
  OBVIOUS
<1>1. readBuf \in Buffers(Byte)
  BY EmptyIsBuffer DEF Init
<1>2. readBuf.data \in Seq(Byte)
  BY <1>1 DEF Buffers
<1>3. /\ wire = <<>> /\ sent = <<>> /\ inFlight = <<>> /\ handled = <<>>
      /\ <<>> \in Seq(Byte \cup Answers) /\ <<>> \in Seq(Requests) /\ <<>> \in Seq(Byte)
      /\ <<>> \in Seq(RequestType) /\ DOMAIN <<>> = {}
  BY EmptySeq DEF Init
<1>4. request \in RequestType /\ ~request.method
  BY DEF Init, NoRequest, RequestType
<1>5. TypeInv
  BY <1>1, <1>2, <1>3, <1>4 DEF Init, TypeInv, TypeOK
<1>6. MethodInv
  BY <1>4 DEF Init, MethodInv, MethodSetOnce
<1>7. ClosingInv
  BY <1>3 DEF ClosingInv, NothingAfterClose
<1> QED
  BY <1>5, <1>6, <1>7 DEF InputInv

\* What parseRequestLine stores is a request.
LEMMA ParsedType ==
    ASSUME request \in RequestType, NEW line
    PROVE  Parsed(line) \in RequestType
<1>1. HasMethod(line) \in BOOLEAN
  BY DEF HasMethod
<1>2. Path(line) \in Words \cup {"other"}
  BY DEF Path
<1>3. IsRequestLine(line) => line[Len(line)] \in Versions
  BY DEF IsRequestLine
<1> DEFINE m == IF CallsSetMethod(line) THEN HasMethod(line) ELSE request.method
           p == IF HasPath(line) THEN Path(line) ELSE request.path
           v == IF IsRequestLine(line) THEN line[Len(line)] ELSE request.version
<1>4. m \in BOOLEAN /\ p \in Words \cup {"none", "other"} /\ v \in Versions \cup {"none"}
  BY <1>1, <1>2, <1>3 DEF RequestType
<1>5. Parsed(line) = [request EXCEPT !.method = m, !.path = p, !.version = v]
  BY DEF Parsed
<1> HIDE DEF m, p, v
<1> QED
  BY <1>4, <1>5 DEF RequestType

\* What the steps of the parser that consume a line share: they move only the buffer
\* and the parser's state.
LEMMA LineTaken ==
    ASSUME InputInv, MayConsume(Line), ConsumeLine(Line),
           request' \in RequestType, quit' \in BOOLEAN,
           parseState' \in {"headers", "gotAll"},
           UNCHANGED <<app, sent, inFlight, inMessage, connState, stopped, process, wire,
                       historyVars>>
    PROVE  InputInv'
<1>1. TypeInv /\ MethodInv /\ ClosingInv
  BY DEF InputInv
<1>2. readBuf' \in Buffers(Byte)
  BY <1>1, ConsumeLineEffect
<1>3. readBuf'.data \in Seq(Byte)
  BY <1>2 DEF Buffers
<1>4. TypeInv'
  BY <1>1, <1>2, <1>3 DEF TypeInv, TypeOK, historyVars
<1>5. MethodInv' /\ ClosingInv'
  BY <1>1 DEF MethodInv, MethodSetOnce, ClosingInv, NothingAfterClose, historyVars
<1> QED
  BY <1>4, <1>5 DEF InputInv

\* handleRead.
LEMMA HandleReadKeeps ==
    ASSUME InputInv, NEW n \in 1..Len(inFlight), HandleRead(n)
    PROVE  InputInv'
<1>1. TypeInv /\ MethodInv /\ ClosingInv
  BY DEF InputInv
<1>2. inFlight' \in Seq(Byte) /\ readBuf' \in Buffers(Byte)
  BY <1>1, HandleReadEffect
<1>3. readBuf'.data \in Seq(Byte)
  BY <1>2 DEF Buffers
<1>4. /\ inMessage' = TRUE /\ wholeReads' \in BOOLEAN
      /\ UNCHANGED <<app, sent, contextVars, connState, stopped, process, wire, handled, refused>>
  <2>1. wholeReads' = (wholeReads /\ SubSeq(inFlight, 1, n) \in Requests
                       /\ IsRequestLine(FirstLine(SubSeq(inFlight, 1, n))))
    BY DEF HandleRead
  <2>2. wholeReads' \in BOOLEAN
    BY <2>1
  <2> QED
    BY <2>2 DEF HandleRead
<1>5. TypeInv'
  BY <1>1, <1>2, <1>3, <1>4 DEF TypeInv, TypeOK, contextVars
<1>6. MethodInv' /\ ClosingInv'
  BY <1>1, <1>4 DEF MethodInv, MethodSetOnce, ClosingInv, NothingAfterClose, contextVars
<1> QED
  BY <1>5, <1>6 DEF InputInv

\* The echo server's message callback.
LEMMA EchoKeeps ==
    ASSUME InputInv, EchoOnMessage PROVE InputInv'
<1>1. TypeInv /\ MethodInv /\ ClosingInv
  BY DEF InputInv
<1> DEFINE bytes == GetInput(readBuf).bytes
<1>2. bytes \in Seq(Byte) /\ GetInput(readBuf).rest \in Buffers(Byte)
  BY <1>1, GetInputEffect
<1>3. readBuf' \in Buffers(Byte) /\ readBuf'.data \in Seq(Byte)
  BY <1>2 DEF EchoOnMessage, Buffers
<1>4. /\ Respond(bytes, FALSE) /\ inMessage' = FALSE
      /\ stopped' = (stopped \/ bytes = <<"quit", "CR", "LF">>)
      /\ UNCHANGED <<app, sent, inFlight, contextVars, process, historyVars>>
  BY DEF EchoOnMessage
<1> HIDE DEF bytes
<1>5. bytes \in Seq(Byte \cup Answers) /\ \A i \in DOMAIN bytes : bytes[i] \in Byte
  BY <1>2
<1>6. \A b \in Byte : b \notin Closing
  BY DEF Byte, Words, Versions, Fields, Closing
<1>7. /\ wire' \in Seq(Byte \cup Answers)
      /\ connState' \in {"Connected", "DisConnecting"}
      /\ ClosingInv'
  BY <1>1, <1>4, <1>5, <1>6, RespondEffect
<1>8. TypeInv'
  BY <1>1, <1>3, <1>4, <1>7 DEF TypeInv, TypeOK, contextVars, historyVars
<1>9. MethodInv'
  BY <1>1, <1>4 DEF MethodInv, MethodSetOnce, contextVars, historyVars
<1> QED
  BY <1>7, <1>8, <1>9 DEF InputInv

\* A line that is no request line is answered with 400.
LEMMA BadRequestLineKeeps ==
    ASSUME InputInv, BadRequestLine PROVE InputInv'
<1>1. TypeInv /\ MethodInv /\ ClosingInv
  BY DEF InputInv
<1>2. Respond(<<"400">>, TRUE)
  BY DEF BadRequestLine
<1>3. <<"400">> \in Seq(Byte \cup Answers) /\ Len(<<"400">>) = 1
  BY DEF Answers
<1>4. /\ wire' \in Seq(Byte \cup Answers)
      /\ connState' \in {"Connected", "DisConnecting"}
      /\ ClosingInv'
  BY <1>1, <1>2, <1>3, RespondEffect
<1>5. request' \in RequestType
  BY <1>1, ParsedType DEF BadRequestLine, TypeInv, TypeOK
<1>6. quit' \in BOOLEAN /\ stopped' \in BOOLEAN
  <2>1. quit' = (quit \/ (HasPath(Line) /\ Line[2] = "/quit "))
    BY DEF BadRequestLine, Quits
  <2>2. stopped' = (stopped \/ quit')
    BY DEF BadRequestLine
  <2> QED
    BY <2>1, <2>2
<1>7. /\ refused' = TRUE /\ inMessage' = FALSE
      /\ UNCHANGED <<app, sent, inFlight, readBuf, parseState, process, handled, wholeReads>>
  BY DEF BadRequestLine
<1>8. TypeInv'
  BY <1>1, <1>4, <1>5, <1>6, <1>7 DEF TypeInv, TypeOK
<1>9. MethodInv'
  BY <1>7 DEF MethodInv, MethodSetOnce
<1> QED
  BY <1>4, <1>8, <1>9 DEF InputInv

\* onRequest.
LEMMA OnRequestKeeps ==
    ASSUME InputInv, NEW callbackCloses \in BOOLEAN, OnRequest(callbackCloses)
    PROVE  InputInv'
<1> DEFINE closes == request.version = "HTTP/1.0" \/ callbackCloses
           answer == IF closes THEN "response, close" ELSE "response"
<1>1. TypeInv /\ MethodInv /\ ClosingInv
  BY DEF InputInv
<1>2. /\ Respond(<<answer>>, closes)
      /\ handled' = Append(handled, request) /\ request' = NoRequest
      /\ parseState' = "requestLine" /\ inMessage' = FALSE
      /\ stopped' = (stopped \/ quit)
      /\ UNCHANGED <<app, sent, inFlight, readBuf, quit, process, refused, wholeReads>>
  BY DEF OnRequest, FreshRequest
<1>3. /\ closes \in BOOLEAN /\ answer \in Answers
      /\ ~closes => answer \notin Closing
  BY DEF Answers, Closing
<1> HIDE DEF closes, answer
<1>4. /\ <<answer>> \in Seq(Byte \cup Answers) /\ Len(<<answer>>) = 1
      /\ ~closes => \A i \in DOMAIN <<answer>> : <<answer>>[i] \notin Closing
  BY <1>3
<1>5. /\ wire' \in Seq(Byte \cup Answers)
      /\ connState' \in {"Connected", "DisConnecting"}
      /\ ClosingInv'
  BY <1>1, <1>2, <1>3, <1>4, RespondEffect
<1>6. request' \in RequestType /\ ~request'.method
  BY <1>2 DEF NoRequest, RequestType
<1>7. handled' \in Seq(RequestType)
  BY <1>1, <1>2, AppendProperties DEF TypeInv, TypeOK
<1>8. stopped' \in BOOLEAN
  BY <1>2
<1>9. TypeInv'
  BY <1>1, <1>2, <1>5, <1>6, <1>7, <1>8 DEF TypeInv, TypeOK
<1>10. MethodInv'
  BY <1>1, <1>2, <1>6 DEF MethodInv, MethodSetOnce
<1> QED
  BY <1>5, <1>9, <1>10 DEF InputInv

\* Every step keeps the invariant.
LEMMA NextInput == InputInv /\ [Next]_vars => InputInv'
<1> SUFFICES ASSUME InputInv, [Next]_vars PROVE InputInv'
  OBVIOUS
<1>t. TypeInv /\ MethodInv /\ ClosingInv
  BY DEF InputInv
<1>1. ASSUME NEW r \in Requests, ClientSends(r) PROVE InputInv'
  <2>1. sent' \in Seq(Requests) /\ inFlight' \in Seq(Byte)
    <3>1. sent \in Seq(Requests) /\ inFlight \in Seq(Byte) /\ r \in Seq(Byte)
      BY <1>t, RequestAssumption DEF TypeInv, TypeOK
    <3>2. sent' = Append(sent, r) /\ inFlight' = inFlight \o r
      BY <1>1 DEF ClientSends
    <3> QED
      BY <3>1, <3>2, AppendProperties, ConcatProperties
  <2>2. UNCHANGED <<app, readBuf, inMessage, contextVars, connState, stopped, process, wire,
                    historyVars>>
    BY <1>1 DEF ClientSends
  <2> QED
    BY <1>t, <2>1, <2>2
    DEF InputInv, TypeInv, TypeOK, MethodInv, MethodSetOnce, ClosingInv, NothingAfterClose,
        contextVars, historyVars
<1>2. ASSUME NEW n \in 1..Len(inFlight), HandleRead(n) PROVE InputInv'
  BY <1>2, HandleReadKeeps
<1>3. CASE EchoOnMessage
  BY <1>3, EchoKeeps
<1>4. CASE RequestLine
  <2>1. request' \in RequestType
    BY <1>t, <1>4, ParsedType DEF RequestLine, TypeInv, TypeOK
  <2>2. quit' \in BOOLEAN
    <3>1. quit' = (quit \/ (HasPath(Line) /\ Line[2] = "/quit "))
      BY <1>4 DEF RequestLine, Quits
    <3> QED
      BY <3>1
  <2> QED
    BY <1>4, <2>1, <2>2, LineTaken DEF RequestLine
<1>5. CASE HeaderLine
  <2>1. request' \in RequestType /\ quit' \in BOOLEAN
    <3>1. request \in RequestType /\ quit \in BOOLEAN
      BY <1>t DEF TypeInv, TypeOK
    <3>2. request' = [request EXCEPT !.fields = request.fields \cup (Range(Line) \cap Fields)]
      BY <1>5 DEF HeaderLine
    <3>3. quit' = quit
      BY <1>5 DEF HeaderLine
    <3> QED
      BY <3>1, <3>2, <3>3 DEF RequestType
  <2>2. parseState' = "headers"
    BY <1>5 DEF HeaderLine, Parsing
  <2> QED
    BY <1>5, <2>1, <2>2, LineTaken DEF HeaderLine
<1>6. CASE EmptyLine
  <2>1. request' \in RequestType /\ quit' \in BOOLEAN
    BY <1>t, <1>6 DEF EmptyLine, TypeInv, TypeOK
  <2> QED
    BY <1>6, <2>1, LineTaken DEF EmptyLine
<1>7. CASE BadRequestLine
  BY <1>7, BadRequestLineKeeps
<1>8. ASSUME NEW closes \in BOOLEAN, OnRequest(closes) PROVE InputInv'
  BY <1>8, OnRequestKeeps
<1>9. CASE SetMethodAborts
  <2>1. refused
    BY <1>t, <1>9 DEF SetMethodAborts, Parsing, MethodFree, MethodInv
  <2>2. /\ process' = "setMethod"
        /\ UNCHANGED <<app, sent, inFlight, readBuf, inMessage, contextVars, connState, stopped,
                       wire, historyVars>>
    BY <1>9 DEF SetMethodAborts
  <2> QED
    BY <1>t, <2>1, <2>2
    DEF InputInv, TypeInv, TypeOK, MethodInv, MethodSetOnce, ClosingInv, NothingAfterClose,
        contextVars, historyVars
<1>10. CASE ConsumeUntilAborts
  <2>1. /\ process' = "consumeUntil"
        /\ UNCHANGED <<app, sent, inFlight, readBuf, inMessage, contextVars, connState, stopped,
                       wire, historyVars>>
    BY <1>10 DEF ConsumeUntilAborts
  <2> QED
    BY <1>t, <2>1
    DEF InputInv, TypeInv, TypeOK, MethodInv, MethodSetOnce, ClosingInv, NothingAfterClose,
        contextVars, historyVars
<1>11. CASE UNCHANGED vars
  BY <1>t, <1>11
  DEF InputInv, TypeInv, TypeOK, MethodInv, MethodSetOnce, ClosingInv, NothingAfterClose,
      vars, contextVars, historyVars
<1> QED
  BY <1>1, <1>2, <1>3, <1>4, <1>5, <1>6, <1>7, <1>8, <1>9, <1>10, <1>11 DEF Next

\* So it holds in every state.
LEMMA InputInvariant == Spec => []InputInv
  BY InitInput, NextInput, PTL DEF Spec

-----------------------------------------------------------------------------
(***************************************************************************)
(* The theorems.                                                           *)
(***************************************************************************)

\* Type correctness.
THEOREM TypeCorrect == Spec => []TypeOK
<1>1. InputInv => TypeOK
  BY DEF InputInv, TypeInv
<1> QED
  BY <1>1, InputInvariant, PTL

\* bg, ed and the vector of readBuf agree after any mix of reads, leftovers and
\* consumed lines (Buffer.h, Buffer.cpp).
THEOREM BufferStaysWellFormed == Spec => []BufferWellFormed
<1>1. InputInv => BufferWellFormed
  BY DEF InputInv, TypeInv, Buffers, BufferWellFormed
<1> QED
  BY <1>1, InputInvariant, PTL

\* The assertion of setMethod (HttpRequest.h) fails only after a line was refused.
THEOREM MethodIsSetOnce == Spec => []MethodSetOnce
<1>1. InputInv => MethodSetOnce
  BY DEF InputInv, MethodInv
<1> QED
  BY <1>1, InputInvariant, PTL

\* No answer follows one that announces the end of the connection.
THEOREM NothingIsSentAfterClose == Spec => []NothingAfterClose
<1>1. InputInv => NothingAfterClose
  BY DEF InputInv, ClosingInv
<1> QED
  BY <1>1, InputInvariant, PTL

-----------------------------------------------------------------------------
(***************************************************************************)
(* The refinement.                                                         *)
(***************************************************************************)

\* Every step puts bytes behind those in the queue, takes some from its front, or
\* leaves it alone.
LEMMA QueueStep == InputInv /\ [Next]_vars => [Queue!Next]_(Contents(readBuf))
<1> SUFFICES ASSUME InputInv, [Next]_vars PROVE [Queue!Next]_(Contents(readBuf))
  OBVIOUS
<1> DEFINE c == Contents(readBuf)
<1>t. TypeInv
  BY DEF InputInv
<1>c. /\ c \in Seq(Byte) /\ Len(c) = Size(readBuf) /\ Size(readBuf) \in Nat
  BY <1>t, ContentsOfBuffer DEF TypeInv
<1>s. ASSUME UNCHANGED readBuf PROVE c' = c
  BY <1>s
<1>l. ASSUME MayConsume(Line), ConsumeLine(Line) PROVE Queue!Next
  <2>1. /\ LineLength(Line) \in 0..Len(c)
        /\ c' = SubSeq(c, LineLength(Line) + 1, Len(c))
    BY <1>t, <1>c, <1>l, ConsumeLineEffect
  <2> QED
    BY <2>1 DEF Queue!Next, Queue!Take
<1>1. ASSUME NEW r \in Requests, ClientSends(r) PROVE c' = c
  BY <1>1, <1>s DEF ClientSends
<1>2. ASSUME NEW n \in 1..Len(inFlight), HandleRead(n) PROVE Queue!Next
  <2> DEFINE chunk == SubSeq(inFlight, 1, n)
  <2>1. chunk \in Seq(Byte) /\ c' = c \o chunk
    BY <1>t, <1>2, HandleReadEffect
  <2> HIDE DEF chunk, c
  <2>2. /\ c' \in Seq(Byte) /\ Len(c) <= Len(c')
    <3>1. c \o chunk \in Seq(Byte) /\ Len(c \o chunk) = Len(c) + Len(chunk)
      BY <1>c, <2>1, ConcatProperties
    <3>2. Len(c) \in Nat /\ Len(chunk) \in Nat
      BY <1>c, <2>1, LenProperties
    <3> QED
      BY <2>1, <3>1, <3>2
  <2>3. SubSeq(c', 1, Len(c)) = c
    BY <1>c, <2>1, FrontOfConcat
  <2> QED
    BY <2>2, <2>3 DEF Queue!Next, Queue!Put, c
<1>3. CASE EchoOnMessage
  <2>1. c' = SubSeq(c, Len(c) + 1, Len(c))
    BY <1>t, <1>c, <1>3, GetInputEffect DEF EchoOnMessage
  <2>2. Len(c) \in 0..Len(c)
    BY <1>c
  <2> QED
    BY <2>1, <2>2 DEF Queue!Next, Queue!Take
<1>4. CASE RequestLine
  BY <1>4, <1>l DEF RequestLine
<1>5. CASE HeaderLine
  BY <1>5, <1>l DEF HeaderLine
<1>6. CASE EmptyLine
  BY <1>6, <1>l DEF EmptyLine
<1>7. CASE BadRequestLine
  BY <1>7, <1>s DEF BadRequestLine
<1>8. ASSUME NEW closes \in BOOLEAN, OnRequest(closes) PROVE c' = c
  BY <1>8, <1>s DEF OnRequest
<1>9. CASE SetMethodAborts
  BY <1>9, <1>s DEF SetMethodAborts
<1>10. CASE ConsumeUntilAborts
  BY <1>10, <1>s DEF ConsumeUntilAborts
<1>11. CASE UNCHANGED vars
  BY <1>11, <1>s DEF vars
<1> QED
  BY <1>1, <1>2, <1>3, <1>4, <1>5, <1>6, <1>7, <1>8, <1>9, <1>10, <1>11 DEF Next

\* For its users readBuf is a queue of bytes: writeIn puts behind, and getInput and
\* consumeUntil take from the front, whatever the vector does.
THEOREM BufferIsAQueue == Spec => ImplementsByteQueue
<1>1. Init => Queue!Init
  BY EmptyIsBuffer DEF Init, Queue!Init
<1> QED
  BY <1>1, QueueStep, InputInvariant, PTL DEF Spec, ImplementsByteQueue, Queue!Spec

-----------------------------------------------------------------------------
(***************************************************************************)
(* The lines of a stream: where the first one ends does not depend on how  *)
(* much of what follows it has arrived.                                    *)
(***************************************************************************)

\* The first CRLF of these bytes comes after n pieces.
EndsAt(bytes, n) ==
    /\ n + 2 <= Len(bytes)
    /\ bytes[n + 1] = "CR" /\ bytes[n + 2] = "LF"
    /\ \A i \in 1..n : ~(bytes[i] = "CR" /\ bytes[i + 1] = "LF")

\* What follows the first line and its CRLF.
OtherLines(bytes) == SubSeq(bytes, Find(bytes) + 3, Len(bytes))

\* What find returns, if it is not the end, is the first CRLF.
LEMMA FindFound ==
    ASSUME NEW bytes \in Seq(Byte), Find(bytes) < Len(bytes)
    PROVE  Find(bytes) \in Nat /\ EndsAt(bytes, Find(bytes))
<1> DEFINE found == {i \in 1..(Len(bytes) - 1) : bytes[i] = "CR" /\ bytes[i + 1] = "LF"}
           least == CHOOSE i \in found : \A j \in found : i <= j
<1>1. Find(bytes) = IF found = {} THEN Len(bytes) ELSE least - 1
  BY DEF Find
<1>2. Len(bytes) \in Nat
  BY LenProperties
<1>3. found \subseteq Nat /\ \A i : i \in found <=> /\ i \in 1..(Len(bytes) - 1)
                                                    /\ bytes[i] = "CR" /\ bytes[i + 1] = "LF"
  BY <1>2
<1> HIDE DEF found
<1>4. found # {}
  BY <1>1, <1>2
<1>5. \E i \in found : \A j \in found : i <= j
  BY <1>3, <1>4, LeastOf
<1>6. least \in found /\ \A j \in found : least <= j
  BY <1>5
<1> HIDE DEF least
<1>7. /\ least \in 1..(Len(bytes) - 1) /\ bytes[least] = "CR" /\ bytes[least + 1] = "LF"
      /\ Find(bytes) = least - 1
  BY <1>1, <1>3, <1>4, <1>6
<1>8. PICK n : n = least - 1
  OBVIOUS
<1>9. n \in Nat /\ n + 1 = least /\ n + 2 = least + 1 /\ n + 2 <= Len(bytes)
  BY <1>2, <1>7, <1>8
<1>10. ASSUME NEW i \in 1..n, bytes[i] = "CR", bytes[i + 1] = "LF" PROVE FALSE
  <2>1. i \in 1..(Len(bytes) - 1) /\ ~(least <= i)
    BY <1>2, <1>7, <1>9
  <2>2. i \in found
    BY <1>3, <1>10, <2>1
  <2> QED
    BY <1>6, <2>1, <2>2
<1>11. EndsAt(bytes, n)
  BY <1>7, <1>9, <1>10 DEF EndsAt
<1> QED
  BY <1>7, <1>8, <1>9, <1>11

\* The first CRLF is where find finds it.
LEMMA FindIs ==
    ASSUME NEW bytes \in Seq(Byte), NEW n \in Nat, EndsAt(bytes, n)
    PROVE  Find(bytes) = n
<1> DEFINE found == {i \in 1..(Len(bytes) - 1) : bytes[i] = "CR" /\ bytes[i + 1] = "LF"}
           least == CHOOSE i \in found : \A j \in found : i <= j
<1>1. Find(bytes) = IF found = {} THEN Len(bytes) ELSE least - 1
  BY DEF Find
<1>2. Len(bytes) \in Nat /\ n + 2 <= Len(bytes)
  BY LenProperties DEF EndsAt
<1>3. found \subseteq Nat /\ \A i : i \in found <=> /\ i \in 1..(Len(bytes) - 1)
                                                    /\ bytes[i] = "CR" /\ bytes[i + 1] = "LF"
  BY <1>2
<1> HIDE DEF found
<1>4. n + 1 \in found
  <2>1. n + 1 \in 1..(Len(bytes) - 1) /\ n + 1 + 1 = n + 2
    BY <1>2
  <2> QED
    BY <1>3, <2>1 DEF EndsAt
<1>5. \E i \in found : \A j \in found : i <= j
  BY <1>3, <1>4, LeastOf
<1>6. least \in found /\ \A j \in found : least <= j
  BY <1>5
<1> HIDE DEF least
<1>7. least \in Nat /\ least <= n + 1 /\ least \in 1..(Len(bytes) - 1)
  BY <1>3, <1>4, <1>6
<1>8. least \notin 1..n
  BY <1>3, <1>6 DEF EndsAt
<1>9. least = n + 1 /\ least - 1 = n
  BY <1>2, <1>7, <1>8
<1> QED
  BY <1>1, <1>4, <1>9

\* What comes behind a complete line does not change the line.
LEMMA LineStays ==
    ASSUME NEW c \in Seq(Byte), NEW f \in Seq(Byte), Find(c) < Len(c)
    PROVE  /\ FirstLine(c \o f) = FirstLine(c)
           /\ OtherLines(c \o f) = OtherLines(c) \o f
<1>1. PICK n \in Nat : n = Find(c) /\ EndsAt(c, n)
  BY FindFound
<1> DEFINE s == c \o f
<1>2. /\ s \in Seq(Byte) /\ Len(s) = Len(c) + Len(f) /\ Len(c) \in Nat /\ Len(f) \in Nat
      /\ n + 2 <= Len(c)
  BY <1>1, LenProperties, ConcatProperties DEF EndsAt
<1>3. \A i \in 1..Len(c) : s[i] = c[i]
  <2>1. \A i \in 1..(Len(c) + Len(f)) : s[i] = IF i <= Len(c) THEN c[i] ELSE f[i - Len(c)]
    BY ConcatProperties
  <2> HIDE DEF s
  <2> QED
    BY <1>2, <2>1
<1>4. SubSeq(s, n + 2 + 1, Len(c) + Len(f)) = SubSeq(c, n + 2 + 1, Len(c)) \o f
  <2>1. PICK m \in Nat : m = n + 2
    OBVIOUS
  <2>2. SubSeq(c \o f, m + 1, Len(c) + Len(f)) = SubSeq(c, m + 1, Len(c)) \o f
    BY <1>2, <2>1, BehindIsOutside
  <2> QED
    BY <2>1, <2>2
<1>5. SubSeq(s, 1, n) = SubSeq(c, 1, n)
  <2>1. n \in 0..Len(s) /\ n \in 0..Len(c)
    BY <1>2
  <2> HIDE DEF s
  <2>2. /\ SubSeq(s, 1, n) \in Seq(Byte) /\ Len(SubSeq(s, 1, n)) = n
        /\ SubSeq(c, 1, n) \in Seq(Byte) /\ Len(SubSeq(c, 1, n)) = n
    BY <1>2, <2>1, CutInTwo
  <2>3. \A i \in 1..n : SubSeq(s, 1, n)[i] = SubSeq(c, 1, n)[i]
    BY <1>2, <1>3
  <2> QED
    BY <2>2, <2>3, SeqEqual
<1> HIDE DEF s
<1>6. EndsAt(s, n)
  <2>1. n + 1 \in 1..Len(c) /\ n + 2 \in 1..Len(c)
    BY <1>2
  <2>2. \A i \in 1..n : i \in 1..Len(c) /\ i + 1 \in 1..Len(c)
    BY <1>2
  <2>3. n + 2 <= Len(s)
    BY <1>2
  <2> QED
    BY <1>1, <1>3, <2>1, <2>2, <2>3 DEF EndsAt
<1>7. Find(s) = n
  BY <1>2, <1>6, FindIs
<1>8. FirstLine(s) = FirstLine(c)
  BY <1>1, <1>5, <1>7 DEF FirstLine
<1>9. OtherLines(s) = OtherLines(c) \o f
  <2>1. n + 2 + 1 = n + 3
    OBVIOUS
  <2> QED
    BY <1>1, <1>2, <1>4, <1>7, <2>1 DEF OtherLines
<1> QED
  BY <1>8, <1>9 DEF s

-----------------------------------------------------------------------------
\* r has a request line, and piece k ends one of its lines but the last.
AfterLine(r, k) ==
    /\ IsRequestLine(FirstLine(r))
    /\ k \in 5..(Len(r) - 1)
    /\ r[k - 1] = "CR" /\ r[k] = "LF"

\* What is left of r behind piece k, and the fields before it.
Behind(r, k) == SubSeq(r, k + 1, Len(r))
FieldsTo(r, k) == {r[i] : i \in 1..k} \cap Fields

\* The pieces of a line are those of the request.
LEMMA LineOf ==
    ASSUME NEW r \in Seq(Byte), Find(r) < Len(r)
    PROVE  /\ Len(FirstLine(r)) = Find(r) /\ FirstLine(r) \in Seq(Byte)
           /\ DOMAIN FirstLine(r) = 1..Find(r)
           /\ \A i \in 1..Find(r) : FirstLine(r)[i] = r[i]
<1>1. PICK n \in Nat : n = Find(r) /\ EndsAt(r, n)
  BY FindFound
<1>2. Len(r) \in Nat /\ n \in 0..Len(r)
  BY <1>1, LenProperties DEF EndsAt
<1>3. FirstLine(r) = SubSeq(r, 1, n)
  BY <1>1 DEF FirstLine
<1>4. SubSeq(r, 1, n) \in Seq(Byte) /\ Len(SubSeq(r, 1, n)) = n
  BY <1>2, CutInTwo
<1>5. \A i \in 1..n : SubSeq(r, 1, n)[i] = r[i]
  BY <1>2
<1>6. DOMAIN SubSeq(r, 1, n) = 1..n
  BY <1>4
<1> QED
  BY <1>1, <1>3, <1>4, <1>5, <1>6

\* A CR, an LF, a word and a version are no fields.
LEMMA NoField ==
    /\ "CR" \notin Fields /\ "LF" \notin Fields
    /\ \A x \in Words \cup Versions : x \notin Fields
BY DEF Words, Versions, Fields

\* A request line with a path of one piece.
LEMMA ThreePieces ==
    ASSUME NEW line, Len(line) = 3, IsRequestLine(line)
    PROVE  /\ HasMethod(line) /\ HasPath(line) /\ line[1] = "GET "
           /\ line[2] \in Words /\ Path(line) = line[2] /\ line[3] \in Versions
<1>1. HasMethod(line) /\ HasPath(line) /\ line[1] = "GET " /\ line[3] \in Versions
  BY DEF IsRequestLine, HasPath, HasMethod
<1>2. line[3] \notin Words
  BY <1>1 DEF Words, Versions
<1>3. PICK i \in 2..3 : line[i] \in Words
  BY <1>1 DEF HasPath
<1>4. i = 2
  BY <1>2, <1>3
<1> QED
  BY <1>1, <1>3, <1>4 DEF Path

\* A request line has three pieces, and headers follow it.
LEMMA AfterRequestLine ==
    ASSUME NEW r \in Seq(Byte), Grammatical(r), IsRequestLine(FirstLine(r))
    PROVE  /\ OtherLines(r) = Behind(r, 5) /\ AfterLine(r, 5) /\ FieldsTo(r, 5) = {}
           /\ r[1] = "GET " /\ FirstLine(r)[2] = r[2] /\ FirstLine(r)[3] = r[3]
           /\ Len(FirstLine(r)) = 3
<1>1. Find(r) < Len(r) /\ Len(r) > 5
  BY DEF Grammatical
<1>2. /\ Len(FirstLine(r)) = Find(r)
      /\ \A i \in 1..Find(r) : FirstLine(r)[i] = r[i]
      /\ EndsAt(r, Find(r))
  BY <1>1, LineOf, FindFound
<1>3. Find(r) = 3
  BY DEF Grammatical
<1>4. /\ r[1] = "GET " /\ FirstLine(r)[2] = r[2] /\ FirstLine(r)[3] = r[3]
      /\ r[2] \in Words /\ r[3] \in Versions
  <2>1. \A i \in {1, 2, 3} : FirstLine(r)[i] = r[i]
    BY <1>2, <1>3
  <2> QED
    BY <1>2, <1>3, <2>1, ThreePieces
<1>5. r[4] = "CR" /\ r[5] = "LF"
  <2>1. 3 + 1 = 4 /\ 3 + 2 = 5
    OBVIOUS
  <2>2. EndsAt(r, 3)
    BY <1>2, <1>3
  <2> QED
    BY <2>1, <2>2 DEF EndsAt
<1>6. AfterLine(r, 5)
  <2>1. Len(r) \in Nat
    BY LenProperties
  <2>2. 5 \in 5..(Len(r) - 1) /\ 5 - 1 = 4
    BY <1>1, <2>1
  <2> QED
    BY <1>5, <2>2 DEF AfterLine
<1>7. FieldsTo(r, 5) = {}
  <2>1. r[1] \in Words /\ r[2] \in Words /\ r[3] \in Versions
    BY <1>4 DEF Words
  <2>2. \A i \in 1..5 : r[i] \notin Fields
    <3>1. \A i \in 1..5 : i = 1 \/ i = 2 \/ i = 3 \/ i = 4 \/ i = 5
      OBVIOUS
    <3> QED
      BY <1>5, <2>1, <3>1, NoField
  <2> QED
    BY <2>2 DEF FieldsTo
<1>8. OtherLines(r) = Behind(r, 5)
  <2>1. 3 + 3 = 5 + 1
    OBVIOUS
  <2> QED
    BY <1>3, <2>1 DEF OtherLines, Behind
<1> QED
  BY <1>2, <1>3, <1>4, <1>6, <1>7, <1>8

\* The next line of the headers: with a field it is followed by another, and without
\* one it is the last of the request.
LEMMA AfterHeaderLine ==
    ASSUME NEW r \in Seq(Byte), Grammatical(r), NEW k, AfterLine(r, k)
    PROVE  LET rest == Behind(r, k)
               line == FirstLine(rest)
               n == Find(rest)
           IN /\ rest \in Seq(Byte) /\ n < Len(rest)
              /\ OtherLines(rest) = Behind(r, k + n + 2)
              /\ FieldsTo(r, k + n + 2) = FieldsTo(r, k) \cup (Range(line) \cap Fields)
              /\ (\E i \in DOMAIN line : line[i] \in Fields) => AfterLine(r, k + n + 2)
              /\ (\A i \in DOMAIN line : line[i] \notin Fields) => 
                     /\ Behind(r, k + n + 2) = <<>>
                     /\ FieldsTo(r, k) = Range(r) \cap Fields
<1> DEFINE rest == Behind(r, k)
           line == FirstLine(rest)
<1>1. Len(r) \in Nat /\ k \in 5..(Len(r) - 1) /\ k \in 0..Len(r) /\ IsRequestLine(FirstLine(r))
  BY LenProperties DEF AfterLine
<1>2. rest \in Seq(Byte) /\ Len(rest) = Len(r) - k /\ Len(rest) \in Nat
  <2>1. rest \in Seq(Byte) /\ Len(rest) = Len(r) - k
    BY <1>1, CutInTwo DEF Behind
  <2> QED
    BY <1>1, <2>1
<1>3. \A i \in 1..Len(rest) : rest[i] = r[k + i]
  <2>1. rest = SubSeq(r, k + 1, Len(r))
    BY DEF Behind
  <2> HIDE DEF rest
  <2> QED
    BY <1>1, <1>2, <2>1
<1>4. /\ Find(rest) < Len(rest)
      /\ (\E i \in 1..Find(rest) : rest[i] \in Fields) <=> Find(rest) + 2 < Len(rest)
  BY <1>1 DEF Grammatical, AfterLine, Behind
<1> HIDE DEF rest
<1>5. PICK n \in Nat : n = Find(rest) /\ EndsAt(rest, n)
  BY <1>2, <1>4, FindFound
<1>6. n + 2 <= Len(rest) /\ rest[n + 1] = "CR" /\ rest[n + 2] = "LF"
  BY <1>5 DEF EndsAt
<1>7. DOMAIN line = 1..n /\ \A i \in 1..n : line[i] = rest[i]
  BY <1>2, <1>4, <1>5, LineOf
<1> HIDE DEF line
<1>8. SubSeq(rest, n + 3, Len(rest)) = Behind(r, k + n + 2)
  <2>1. PICK m \in 0..Len(rest) : m = n + 2
    BY <1>6
  <2>2. PICK q \in 0..Len(r) : q = k + m
    BY <1>1, <1>2
  <2> DEFINE u == SubSeq(rest, m + 1, Len(rest))
             v == SubSeq(r, q + 1, Len(r))
  <2>3. u \in Seq(Byte) /\ Len(u) = Len(rest) - m /\ v \in Seq(Byte) /\ Len(v) = Len(r) - q
    BY <1>2, CutInTwo
  <2>4. \A i \in 1..(Len(rest) - m) : u[i] = rest[m + i]
    BY <1>2
  <2>5. \A i \in 1..(Len(r) - q) : v[i] = r[q + i]
    BY <1>1
  <2> HIDE DEF u, v
  <2>6. \A i \in 1..Len(u) : u[i] = v[i]
    <3> SUFFICES ASSUME NEW i \in 1..Len(u) PROVE u[i] = v[i]
      OBVIOUS
    <3>1. PICK j : j = m + i
      OBVIOUS
    <3>2. /\ i \in 1..(Len(rest) - m) /\ i \in 1..(Len(r) - q) /\ j \in 1..Len(rest)
          /\ k + j = q + i
      BY <1>1, <1>2, <2>2, <2>3, <3>1
    <3> QED
      BY <1>3, <2>4, <2>5, <3>1, <3>2
  <2>7. Len(u) = Len(v)
    BY <1>1, <1>2, <2>2, <2>3
  <2>8. u = v
    BY <2>3, <2>6, <2>7, SeqEqual
  <2>9. m + 1 = n + 3 /\ q = k + n + 2
    BY <1>1, <2>1, <2>2
  <2> QED
    BY <2>8, <2>9 DEF u, v, Behind
<1>9. Range(line) = {line[i] : i \in DOMAIN line}
  BY DEF Range
<1>10. FieldsTo(r, k + n + 2) = FieldsTo(r, k) \cup (Range(line) \cap Fields)
  <2>1. ASSUME NEW x \in Fields, NEW j \in 1..(k + n + 2), x = r[j]
        PROVE  x \in FieldsTo(r, k) \cup Range(line)
    <3>1. CASE j <= k
      <4>1. j \in 1..k
        BY <1>1, <3>1
      <4> QED
        BY <2>1, <4>1 DEF FieldsTo
    <3>2. CASE j > k
      <4>1. PICK i : i = j - k
        OBVIOUS
      <4>2. i \in 1..(n + 2) /\ k + i = j /\ i \in 1..Len(rest)
        BY <1>1, <1>2, <1>6, <3>2, <4>1
      <4>3. x = rest[i]
        BY <1>3, <2>1, <4>2
      <4>4. i # n + 1 /\ i # n + 2
        BY <1>6, <4>3, NoField
      <4>5. i \in 1..n
        BY <4>2, <4>4
      <4> QED
        BY <1>7, <1>9, <4>3, <4>5
    <3> QED
      BY <1>1, <3>1, <3>2
  <2>2. ASSUME NEW x \in FieldsTo(r, k) PROVE x \in FieldsTo(r, k + n + 2)
    <3>1. PICK j \in 1..k : x = r[j] /\ x \in Fields
      BY <2>2 DEF FieldsTo
    <3>2. j \in 1..(k + n + 2)
      BY <1>1
    <3> QED
      BY <3>1, <3>2 DEF FieldsTo
  <2>3. ASSUME NEW x \in Range(line), x \in Fields PROVE x \in FieldsTo(r, k + n + 2)
    <3>1. PICK i \in 1..n : x = line[i]
      BY <1>7, <1>9
    <3>2. i \in 1..Len(rest) /\ k + i \in 1..(k + n + 2)
      BY <1>1, <1>2, <1>6
    <3>3. x = r[k + i]
      BY <1>3, <1>7, <3>1, <3>2
    <3> QED
      BY <2>3, <3>2, <3>3 DEF FieldsTo
  <2>4. FieldsTo(r, k) \subseteq Fields
    BY DEF FieldsTo
  <2>5. \A x \in FieldsTo(r, k + n + 2) : x \in Fields /\ \E j \in 1..(k + n + 2) : x = r[j]
    BY DEF FieldsTo
  <2> QED
    BY <2>1, <2>2, <2>3, <2>4, <2>5
<1>11. (\E i \in DOMAIN line : line[i] \in Fields) <=> n + 2 < Len(rest)
  BY <1>4, <1>5, <1>7
<1>12. ASSUME \E i \in DOMAIN line : line[i] \in Fields PROVE AfterLine(r, k + n + 2)
  <2>1. PICK q : q = k + n + 2
    OBVIOUS
  <2>2. /\ q \in 5..(Len(r) - 1) /\ q = k + (n + 2) /\ q - 1 = k + (n + 1)
        /\ n + 1 \in 1..Len(rest) /\ n + 2 \in 1..Len(rest)
    BY <1>1, <1>2, <1>11, <1>12, <2>1
  <2>3. r[q - 1] = "CR" /\ r[q] = "LF"
    BY <1>3, <1>6, <2>2
  <2> QED
    BY <1>1, <2>1, <2>2, <2>3 DEF AfterLine
<1>13. ASSUME \A i \in DOMAIN line : line[i] \notin Fields
       PROVE  Behind(r, k + n + 2) = <<>> /\ FieldsTo(r, k) = Range(r) \cap Fields
  <2>1. k + n + 2 = Len(r) /\ Len(r) \in 0..Len(r)
    BY <1>1, <1>2, <1>6, <1>11, <1>13
  <2>2. Behind(r, Len(r)) = <<>>
    <3>1. /\ SubSeq(r, Len(r) + 1, Len(r)) \in Seq(Byte)
          /\ Len(SubSeq(r, Len(r) + 1, Len(r))) = 0
      <4>1. Len(r) - Len(r) = 0
        BY <1>1
      <4> QED
        BY <2>1, <4>1, CutInTwo
    <3> QED
      BY <3>1, EmptySeq DEF Behind
  <2>3. FieldsTo(r, Len(r)) = Range(r) \cap Fields
    BY DEF FieldsTo, Range
  <2>4. Range(line) \cap Fields = {}
    BY <1>9, <1>13
  <2> QED
    BY <1>10, <2>1, <2>2, <2>3, <2>4
<1>14. OtherLines(rest) = Behind(r, k + n + 2)
  BY <1>5, <1>8 DEF OtherLines
<1> QED
  BY <1>2, <1>4, <1>5, <1>14, <1>9, <1>10, <1>12, <1>13 DEF rest, line

-----------------------------------------------------------------------------
(***************************************************************************)
(* The stream: what is on its way to the parser is the rest of what the    *)
(* client sent, from the place the parser has reached.                     *)
(***************************************************************************)

\* The bytes of the requests of s behind the first k, and those on their way to the
\* parser.
Left(s, k) == FlattenSeq(SubSeq(s, k + 1, Len(s)))
Arriving == Contents(readBuf) \o inFlight

\* The request the parser is in, and what it knows of it at piece k.
Current == sent[Len(handled) + 1]
MeaningTo(r, k) ==
    [method |-> TRUE, path |-> r[2], version |-> r[3], fields |-> FieldsTo(r, k)]

AtLine == Arriving = Left(sent, Len(handled)) /\ request.fields = {}
InHeaders ==
    /\ inMessage /\ Len(handled) < Len(sent)
    /\ \E k \in Nat : /\ AfterLine(Current, k)
                      /\ Arriving = Behind(Current, k) \o Left(sent, Len(handled) + 1)
                      /\ request = MeaningTo(Current, k)
AtEnd ==
    /\ inMessage /\ Len(handled) < Len(sent)
    /\ Arriving = Left(sent, Len(handled) + 1)
    /\ request = Meaning(Current)

\* What is still to come is the rest of the request the parser is in, and what
\* the parser knows of it is what it has read.
ParserInv ==
    app = "http" /\ process = "runs" =>
        /\ parseState = "requestLine" => AtLine
        /\ parseState = "headers" => InHeaders
        /\ parseState = "gotAll" => AtEnd

HandledInv == Len(handled) <= Len(sent) /\ HandledAsSent

EchoInv ==
    app = "echo" =>
        /\ connState = "Connected"
        /\ wire \o Arriving = FlattenSeq(sent)
        /\ ~inMessage => Contents(readBuf) = <<>>

\* When each read brings a request, the buffer holds the rest of one.
WholeMessage ==
    /\ parseState = "requestLine" =>
           Contents(readBuf) \in Requests /\ IsRequestLine(FirstLine(Contents(readBuf)))
    /\ parseState = "headers" =>
           \E r \in Requests : \E k \in Nat : AfterLine(r, k) /\ Contents(readBuf) = Behind(r, k)
    /\ parseState = "gotAll" => Contents(readBuf) = <<>>
WholeInv ==
    wholeReads /\ app = "http" =>
        /\ process = "runs" /\ ~refused
        /\ ~inMessage => parseState = "requestLine" /\ Contents(readBuf) = <<>>
        /\ inMessage => WholeMessage

StreamInv == ParserInv /\ HandledInv /\ EchoInv /\ WholeInv

AllGrammatical == \A r \in Requests : Grammatical(r)

-----------------------------------------------------------------------------
\* What the client sent consists of requests.
LEMMA SentRequests ==
    ASSUME TypeInv
    PROVE  /\ sent \in Seq(Seq(Byte)) /\ Len(sent) \in Nat
           /\ \A i \in 1..Len(sent) : sent[i] \in Requests /\ sent[i] \in Seq(Byte)
<1>1. sent \in Seq(Requests) /\ Len(sent) \in Nat
  BY LenProperties DEF TypeInv, TypeOK
<1>2. \A i \in 1..Len(sent) : sent[i] \in Requests
  BY <1>1, ElementOfSeq
<1>3. \A i \in 1..Len(sent) : sent[i] \in Seq(Byte)
  BY <1>2, RequestAssumption
<1>4. sent \in Seq(Seq(Byte))
  <2>1. Requests \subseteq Seq(Byte)
    BY RequestAssumption
  <2> QED
    BY <1>1, <2>1, SeqMonotonic
<1> QED
  BY <1>1, <1>2, <1>3, <1>4

\* The requests behind the first k begin with the next one.
LEMMA LeftStep ==
    ASSUME TypeInv, NEW k \in Nat, k < Len(sent)
    PROVE  /\ sent[k + 1] \in Requests /\ sent[k + 1] \in Seq(Byte)
           /\ Left(sent, k + 1) \in Seq(Byte)
           /\ Left(sent, k) = sent[k + 1] \o Left(sent, k + 1)
<1>1. sent \in Seq(Seq(Byte)) /\ k + 1 \in 1..Len(sent) /\ k + 1 + 1 = k + 2
  BY SentRequests
<1>2. /\ FlattenSeq(SubSeq(sent, k + 2, Len(sent))) \in Seq(Byte)
      /\ FlattenSeq(SubSeq(sent, k + 1, Len(sent))) =
             sent[k + 1] \o FlattenSeq(SubSeq(sent, k + 2, Len(sent)))
  BY <1>1, FlattenStep
<1>3. Left(sent, k + 1) = FlattenSeq(SubSeq(sent, k + 2, Len(sent)))
  BY <1>1 DEF Left
<1> QED
  BY <1>1, <1>2, <1>3, SentRequests DEF Left

\* Nothing is left behind the last.
LEMMA LeftEnd ==
    ASSUME TypeInv
    PROVE  Left(sent, Len(sent)) = <<>>
<1>1. sent \in Seq(Seq(Byte)) /\ Len(sent) \in 0..Len(sent) /\ Len(sent) - Len(sent) = 0
  BY SentRequests
<1> DEFINE u == SubSeq(sent, Len(sent) + 1, Len(sent))
<1>2. u \in Seq(Seq(Byte)) /\ Len(u) = 0
  BY <1>1, CutInTwo
<1>3. u = <<>>
  BY <1>2, EmptySeq
<1> QED
  BY <1>3 DEF Left, FlattenSeq

\* The pieces that arrive are pieces.
LEMMA ArrivingType ==
    ASSUME TypeInv
    PROVE  /\ Contents(readBuf) \in Seq(Byte) /\ inFlight \in Seq(Byte)
           /\ Len(Contents(readBuf)) = Size(readBuf) /\ Size(readBuf) \in Nat
           /\ Arriving \in Seq(Byte) /\ handled \in Seq(RequestType) /\ Len(handled) \in Nat
<1>1. /\ Contents(readBuf) \in Seq(Byte) /\ inFlight \in Seq(Byte)
      /\ Len(Contents(readBuf)) = Size(readBuf) /\ Size(readBuf) \in Nat
  BY ContentsOfBuffer DEF TypeInv, TypeOK
<1>2. handled \in Seq(RequestType) /\ Len(handled) \in Nat
  BY LenProperties DEF TypeInv, TypeOK
<1> QED
  BY <1>1, <1>2, ConcatProperties DEF Arriving

\* A line that may be consumed is complete, and one that is complete may be consumed.
LEMMA CompleteLine ==
    ASSUME TypeInv
    PROVE  /\ Len(Line) = Find(Contents(readBuf)) /\ Len(Line) \in Nat
           /\ MayConsume(Line) <=> Find(Contents(readBuf)) < Len(Contents(readBuf))
<1> DEFINE c == Contents(readBuf)
<1>1. c \in Seq(Byte) /\ Len(c) = Size(readBuf) /\ Size(readBuf) \in Nat /\ Line = FirstLine(c)
  BY ArrivingType DEF Line
<1> HIDE DEF c
<1>2. Find(c) \in 0..Len(c)
  BY <1>1, FindInside
<1>3. Len(Line) = Find(c)
  BY <1>1, <1>2, CutInTwo DEF FirstLine
<1>4. MayConsume(Line) <=> Find(c) + 2 <= Len(c)
  BY <1>1, <1>3 DEF MayConsume, LineLength
<1>5. Find(c) < Len(c) => Find(c) + 2 <= Len(c)
  BY <1>1, FindFound DEF EndsAt
<1> QED
  BY <1>1, <1>2, <1>3, <1>4, <1>5 DEF c

\* A line of the request is looked at, and consumed with its CRLF, wherever the
\* stream was cut.
LEMMA LineConsumed ==
    ASSUME TypeInv, MayConsume(Line), ConsumeLine(Line), inFlight' = inFlight,
           NEW r \in Seq(Byte), NEW more \in Seq(Byte), Find(r) < Len(r), Arriving = r \o more
    PROVE  /\ Line = FirstLine(r)
           /\ Arriving' = OtherLines(r) \o more
<1> DEFINE c == Contents(readBuf)
<1>1. c \in Seq(Byte) /\ inFlight \in Seq(Byte) /\ Find(c) < Len(c) /\ Len(Line) = Find(c)
  BY ArrivingType, CompleteLine
<1>2. Arriving = c \o inFlight /\ Arriving = r \o more
  BY DEF Arriving
<1>3. Contents(readBuf') = SubSeq(c, LineLength(Line) + 1, Size(readBuf))
  BY ConsumeLineEffect
<1>4. Size(readBuf) = Len(c) /\ Line = FirstLine(c)
  BY ArrivingType DEF Line
<1>5. Arriving' = Contents(readBuf') \o inFlight
  BY DEF Arriving
<1> HIDE DEF c
<1>6. FirstLine(Arriving) = FirstLine(c) /\ OtherLines(Arriving) = OtherLines(c) \o inFlight
  BY <1>1, <1>2, LineStays
<1>7. FirstLine(Arriving) = FirstLine(r) /\ OtherLines(Arriving) = OtherLines(r) \o more
  BY <1>2, LineStays
<1>8. OtherLines(c) = SubSeq(c, LineLength(Line) + 1, Size(readBuf))
  <2>1. LineLength(Line) + 1 = Find(c) + 3
    BY <1>1, CompleteLine DEF LineLength, c
  <2> QED
    BY <1>4, <2>1 DEF OtherLines
<1> QED
  BY <1>3, <1>4, <1>5, <1>6, <1>7, <1>8

\* The parser is at the beginning of a request that is there: the line it looks at is
\* the request's.
LEMMA AtRequest ==
    ASSUME TypeInv, AllGrammatical, AtLine, HandledInv, MayConsume(Line), ConsumeLine(Line),
           inFlight' = inFlight
    PROVE  /\ Len(handled) < Len(sent) /\ Current \in Requests /\ Current \in Seq(Byte)
           /\ Line = FirstLine(Current)
           /\ Arriving' = OtherLines(Current) \o Left(sent, Len(handled) + 1)
<1>1. PICK k \in Nat : k = Len(handled)
  BY ArrivingType
<1>2. k <= Len(sent) /\ Arriving = Left(sent, k) /\ Len(sent) \in Nat
  BY <1>1, SentRequests DEF AtLine, HandledInv
<1>3. Arriving # <<>>
  <2>1. /\ Contents(readBuf) \in Seq(Byte) /\ inFlight \in Seq(Byte)
        /\ Find(Contents(readBuf)) < Len(Contents(readBuf)) /\ Find(Contents(readBuf)) \in Nat
    BY ArrivingType, CompleteLine
  <2>2. Contents(readBuf) # <<>>
    BY <2>1, EmptySeq
  <2>3. Len(Arriving) = Len(Contents(readBuf)) + Len(inFlight) /\ Len(inFlight) \in Nat
    BY <2>1, ConcatProperties, LenProperties DEF Arriving
  <2>4. Len(Arriving) # 0
    BY <2>1, <2>3
  <2> QED
    BY <2>4, EmptySeq
<1>4. k < Len(sent)
  <2>1. k # Len(sent)
    BY <1>2, <1>3, LeftEnd
  <2> QED
    BY <1>2, <2>1
<1>5. /\ sent[k + 1] \in Requests /\ sent[k + 1] \in Seq(Byte) /\ Left(sent, k + 1) \in Seq(Byte)
      /\ Left(sent, k) = sent[k + 1] \o Left(sent, k + 1)
  BY <1>4, LeftStep
<1>6. Find(sent[k + 1]) < Len(sent[k + 1])
  BY <1>5 DEF AllGrammatical, Grammatical
<1>7. PICK r \in Seq(Byte), more \in Seq(Byte) : r = sent[k + 1] /\ more = Left(sent, k + 1)
  BY <1>5
<1>8. Arriving = r \o more /\ Find(r) < Len(r)
  BY <1>2, <1>5, <1>6, <1>7
<1>9. Line = FirstLine(r) /\ Arriving' = OtherLines(r) \o more
  BY <1>8, LineConsumed
<1> QED
  BY <1>1, <1>4, <1>5, <1>7, <1>9 DEF Current

\* The parser is in the headers: the line it looks at is the request's next.
LEMMA AtHeader ==
    ASSUME TypeInv, AllGrammatical, Len(handled) < Len(sent),
           MayConsume(Line), ConsumeLine(Line), inFlight' = inFlight,
           NEW k \in Nat, AfterLine(Current, k),
           Arriving = Behind(Current, k) \o Left(sent, Len(handled) + 1)
    PROVE  LET next == k + Find(Behind(Current, k)) + 2
           IN /\ next \in Nat
              /\ Arriving' = Behind(Current, next) \o Left(sent, Len(handled) + 1)
              /\ FieldsTo(Current, next) = FieldsTo(Current, k) \cup (Range(Line) \cap Fields)
              /\ (\E i \in DOMAIN Line : Line[i] \in Fields) => AfterLine(Current, next)
              /\ (\A i \in DOMAIN Line : Line[i] \notin Fields) =>
                     /\ Arriving' = Left(sent, Len(handled) + 1)
                     /\ FieldsTo(Current, k) = Range(Current) \cap Fields
<1>1. PICK h \in Nat : h = Len(handled)
  BY ArrivingType
<1>2. /\ Current \in Requests /\ Current \in Seq(Byte)
      /\ Left(sent, Len(handled) + 1) \in Seq(Byte)
  BY <1>1, LeftStep DEF Current
<1>3. PICK r \in Seq(Byte), more \in Seq(Byte) :
          r = Current /\ more = Left(sent, Len(handled) + 1)
  BY <1>2
<1>4. Grammatical(r) /\ AfterLine(r, k)
  BY <1>2, <1>3 DEF AllGrammatical
<1> DEFINE line == FirstLine(Behind(r, k))
           n == Find(Behind(r, k))
<1>5. /\ Behind(r, k) \in Seq(Byte) /\ n < Len(Behind(r, k))
      /\ OtherLines(Behind(r, k)) = Behind(r, k + n + 2)
      /\ FieldsTo(r, k + n + 2) = FieldsTo(r, k) \cup (Range(line) \cap Fields)
      /\ (\E i \in DOMAIN line : line[i] \in Fields) => AfterLine(r, k + n + 2)
      /\ (\A i \in DOMAIN line : line[i] \notin Fields) =>
             /\ Behind(r, k + n + 2) = <<>>
             /\ FieldsTo(r, k) = Range(r) \cap Fields
  BY <1>4, AfterHeaderLine
<1>6. n \in Nat
  BY <1>5, FindFound
<1>7. Line = line /\ Arriving' = OtherLines(Behind(r, k)) \o more
  <2>1. PICK b \in Seq(Byte) : b = Behind(r, k)
    BY <1>5
  <2>2. Find(b) < Len(b) /\ Arriving = b \o more
    BY <1>3, <1>5, <2>1
  <2>3. Line = FirstLine(b) /\ Arriving' = OtherLines(b) \o more
    BY <2>2, LineConsumed
  <2> QED
    BY <2>1, <2>3
<1>8. <<>> \o more = more
  BY ConcatEmptySeq
<1> HIDE DEF line, n
<1>9. k + n + 2 \in Nat
  BY <1>6
<1>10. Arriving' = Behind(r, k + n + 2) \o more
  BY <1>5, <1>7
<1>11. (\A i \in DOMAIN Line : Line[i] \notin Fields) =>
           Arriving' = more /\ FieldsTo(r, k) = Range(r) \cap Fields
  BY <1>5, <1>7, <1>8, <1>10
<1>12. /\ FieldsTo(r, k + n + 2) = FieldsTo(r, k) \cup (Range(Line) \cap Fields)
       /\ (\E i \in DOMAIN Line : Line[i] \in Fields) => AfterLine(r, k + n + 2)
  BY <1>5, <1>7
<1> QED
  BY <1>3, <1>9, <1>10, <1>11, <1>12 DEF n

-----------------------------------------------------------------------------
(***************************************************************************)
(* Every step keeps it.                                                    *)
(***************************************************************************)

\* Bytes that are put together in two ways.
LEMMA Together ==
    ASSUME NEW B
    PROVE  \A x, y, z \in Seq(B) : \A u, v : u = x \o y /\ v = y \o z => u \o z = x \o v
<1> SUFFICES ASSUME NEW x \in Seq(B), NEW y \in Seq(B), NEW z \in Seq(B)
             PROVE  (x \o y) \o z = x \o (y \o z)
  OBVIOUS
<1> QED
  BY ConcatAssociative

\* The client sends a request: it comes behind those that are left.
LEMMA ClientSendsStream ==
    ASSUME TypeInv, StreamInv, NEW r \in Requests, ClientSends(r)
    PROVE  StreamInv'
<1>1. /\ r \in Seq(Byte) /\ sent' = Append(sent, r) /\ inFlight' = inFlight \o r
      /\ UNCHANGED <<app, readBuf, inMessage, contextVars, connState, stopped, process, wire,
                     historyVars>>
  BY RequestAssumption DEF ClientSends
<1>2. /\ sent \in Seq(Seq(Byte)) /\ Len(sent) \in Nat /\ Len(sent') = Len(sent) + 1
      /\ \A i \in 1..Len(sent) : sent'[i] = sent[i]
  BY <1>1, SentRequests, AppendProperties
<1>3. ASSUME NEW k \in Nat, k <= Len(sent)
      PROVE  Left(sent, k) \in Seq(Byte) /\ Left(sent', k) = Left(sent, k) \o r
  BY <1>1, <1>2, <1>3, FlattenLeft DEF Left
<1>4. Len(handled) \in Nat /\ Len(handled) <= Len(sent) /\ HandledAsSent
  BY ArrivingType DEF StreamInv, HandledInv
<1>5. Arriving' = Arriving \o r
  <2>1. PICK c \in Seq(Byte), f \in Seq(Byte) : c = Contents(readBuf) /\ f = inFlight
    BY ArrivingType
  <2>2. PICK u, v : u = c \o f /\ v = f \o r
    OBVIOUS
  <2>3. u \o r = c \o v
    BY <1>1, <2>2, Together
  <2>4. Arriving' = c \o v
    BY <1>1, <2>1, <2>2 DEF Arriving
  <2>5. Arriving = u
    BY <2>1, <2>2 DEF Arriving
  <2> QED
    BY <2>3, <2>4, <2>5
<1>6. ParserInv'
  <2> SUFFICES ASSUME app = "http", process = "runs"
               PROVE  /\ parseState = "requestLine" => AtLine'
                      /\ parseState = "headers" => InHeaders'
                      /\ parseState = "gotAll" => AtEnd'
    BY <1>1 DEF ParserInv, contextVars
  <2>1. ASSUME parseState = "requestLine" PROVE AtLine'
    <3>1. Arriving = Left(sent, Len(handled)) /\ request.fields = {}
      BY <2>1 DEF StreamInv, ParserInv, AtLine
    <3>2. Left(sent', Len(handled)) = Left(sent, Len(handled)) \o r
      BY <1>3, <1>4
    <3> QED
      BY <1>1, <1>5, <3>1, <3>2 DEF AtLine, contextVars, historyVars
  <2>2. ASSUME Len(handled) < Len(sent)
        PROVE  /\ Current' = Current /\ Left(sent, Len(handled) + 1) \in Seq(Byte)
               /\ Left(sent', Len(handled) + 1) = Left(sent, Len(handled) + 1) \o r
               /\ Len(handled') < Len(sent') /\ Current \in Seq(Byte) /\ Len(handled') = Len(handled)
    <3>1. /\ Len(handled) + 1 \in 1..Len(sent) /\ Len(handled) + 1 \in Nat
          /\ Len(handled) + 1 <= Len(sent) /\ Len(handled) < Len(sent')
      BY <1>2, <1>4, <2>2
    <3>2. Current' = Current
      BY <1>1, <1>2, <3>1 DEF Current, historyVars
    <3>3. Current \in Seq(Byte)
      BY <3>1, SentRequests DEF Current
    <3> QED
      BY <1>1, <1>3, <3>1, <3>2, <3>3 DEF historyVars
  <2>3. ASSUME parseState = "headers" PROVE InHeaders'
    <3>1. inMessage /\ Len(handled) < Len(sent)
      BY <2>3 DEF StreamInv, ParserInv, InHeaders
    <3>2. PICK k \in Nat : /\ AfterLine(Current, k)
                           /\ Arriving = Behind(Current, k) \o Left(sent, Len(handled) + 1)
                           /\ request = MeaningTo(Current, k)
      BY <2>3 DEF StreamInv, ParserInv, InHeaders
    <3>3. Behind(Current, k) \in Seq(Byte)
      <4>1. Current \in Seq(Byte) /\ k \in 0..Len(Current)
        BY <2>2, <3>1, <3>2, LenProperties DEF AfterLine
      <4> QED
        BY <4>1, CutInTwo DEF Behind
    <3>4. PICK b \in Seq(Byte), l \in Seq(Byte) :
              b = Behind(Current, k) /\ l = Left(sent, Len(handled) + 1)
      BY <2>2, <3>1, <3>3
    <3>5. PICK u, v : u = b \o l /\ v = l \o r
      OBVIOUS
    <3>6. u \o r = b \o v
      BY <1>1, <3>5, Together
    <3>7. Arriving' = b \o v /\ Left(sent', Len(handled) + 1) = v
      BY <1>5, <2>2, <3>1, <3>2, <3>4, <3>5, <3>6
    <3>8. Arriving' = Behind(Current, k)' \o Left(sent', Len(handled') + 1)
      BY <2>2, <3>1, <3>4, <3>7 DEF Behind
    <3>9. AfterLine(Current, k)' /\ request' = MeaningTo(Current, k)'
      BY <1>1, <2>2, <3>1, <3>2 DEF AfterLine, MeaningTo, FieldsTo, contextVars
    <3> QED
      BY <1>1, <2>2, <3>1, <3>8, <3>9 DEF InHeaders
  <2>4. ASSUME parseState = "gotAll" PROVE AtEnd'
    <3>1. /\ inMessage /\ Len(handled) < Len(sent)
          /\ Arriving = Left(sent, Len(handled) + 1)
          /\ request = Meaning(Current)
      BY <2>4 DEF StreamInv, ParserInv, AtEnd
    <3>2. request' = Meaning(Current)'
      BY <1>1, <2>2, <3>1 DEF Meaning, contextVars
    <3>3. Arriving' = Left(sent', Len(handled') + 1)
      BY <1>5, <2>2, <3>1
    <3> QED
      BY <1>1, <2>2, <3>1, <3>2, <3>3 DEF AtEnd
  <2> QED
    BY <2>1, <2>3, <2>4
<1>7. HandledInv'
  <2>1. handled' = handled /\ DOMAIN handled = 1..Len(handled)
    BY <1>1, ArrivingType DEF historyVars
  <2>2. \A i \in DOMAIN handled : sent'[i] = sent[i]
    BY <1>2, <1>4, <2>1
  <2>3. HandledAsSent'
    BY <1>4, <2>1, <2>2 DEF HandledAsSent
  <2> QED
    BY <1>2, <1>4, <2>1, <2>3 DEF HandledInv
<1>8. EchoInv'
  <2> SUFFICES ASSUME app = "echo"
               PROVE  /\ connState = "Connected"
                      /\ (wire \o Arriving = FlattenSeq(sent))'
                      /\ ~inMessage => Contents(readBuf) = <<>>
    BY <1>1 DEF EchoInv
  <2>1. /\ connState = "Connected" /\ wire \o Arriving = FlattenSeq(sent)
        /\ ~inMessage => Contents(readBuf) = <<>>
    BY DEF StreamInv, EchoInv
  <2>2. FlattenSeq(sent') = FlattenSeq(sent) \o r
    BY <1>1, <1>2, FlattenAppend
  <2>3. PICK w \in Seq(Byte \cup Answers), a \in Seq(Byte \cup Answers) : w = wire /\ a = Arriving
    <3>1. Byte \subseteq Byte \cup Answers
      OBVIOUS
    <3> QED
      BY <3>1, ArrivingType, SeqMonotonic DEF TypeInv, TypeOK
  <2>4. r \in Seq(Byte \cup Answers)
    <3>1. Byte \subseteq Byte \cup Answers
      OBVIOUS
    <3> QED
      BY <1>1, <3>1, SeqMonotonic
  <2>5. PICK u, v : u = w \o a /\ v = a \o r
    OBVIOUS
  <2>6. u \o r = w \o v
    BY <2>4, <2>5, Together
  <2>7. wire' = w /\ Arriving' = v /\ FlattenSeq(sent) = u
    BY <1>1, <1>5, <2>1, <2>3, <2>5
  <2>8. wire' \o Arriving' = FlattenSeq(sent')
    BY <2>2, <2>6, <2>7
  <2> QED
    BY <2>1, <2>8
<1>9. WholeInv'
  BY <1>1 DEF StreamInv, WholeInv, WholeMessage, contextVars, historyVars
<1> QED
  BY <1>6, <1>7, <1>8, <1>9 DEF StreamInv

\* handleRead: what was in flight is in the buffer, and nothing else changes.
LEMMA HandleReadStream ==
    ASSUME TypeInv, StreamInv, NEW n \in 1..Len(inFlight), HandleRead(n)
    PROVE  StreamInv'
<1> DEFINE chunk == SubSeq(inFlight, 1, n)
<1>1. /\ chunk \in Seq(Byte) /\ inFlight' \in Seq(Byte) /\ chunk \o inFlight' = inFlight
      /\ Contents(readBuf') = Contents(readBuf) \o chunk
  BY HandleReadEffect
<1>2. wholeReads' = (wholeReads /\ chunk \in Requests /\ IsRequestLine(FirstLine(chunk)))
  BY DEF HandleRead
<1>3. /\ process = "runs" /\ ~inMessage /\ inMessage' = TRUE
      /\ UNCHANGED <<app, sent, contextVars, connState, stopped, process, wire, handled, refused>>
  BY DEF HandleRead
<1> HIDE DEF chunk
<1>4. Arriving' = Arriving
  <2>1. PICK c \in Seq(Byte), x \in Seq(Byte), f \in Seq(Byte) :
            c = Contents(readBuf) /\ x = chunk /\ f = inFlight'
    BY <1>1, ArrivingType
  <2>2. PICK u, v : u = c \o x /\ v = x \o f
    OBVIOUS
  <2>3. u \o f = c \o v
    BY <2>2, Together
  <2>4. Arriving' = u \o f /\ Arriving = c \o v
    BY <1>1, <2>1, <2>2 DEF Arriving
  <2> QED
    BY <2>3, <2>4
<1>5. ParserInv'
  <2> SUFFICES ASSUME app = "http"
               PROVE  /\ parseState = "requestLine" => AtLine'
                      /\ parseState # "headers" /\ parseState # "gotAll"
    BY <1>3 DEF ParserInv, contextVars
  <2>1. parseState # "headers" /\ parseState # "gotAll"
    BY <1>3 DEF StreamInv, ParserInv, InHeaders, AtEnd
  <2>2. parseState = "requestLine" => AtLine
    BY <1>3 DEF StreamInv, ParserInv
  <2> QED
    BY <1>3, <1>4, <2>1, <2>2 DEF AtLine, contextVars
<1>6. HandledInv'
  BY <1>3 DEF StreamInv, HandledInv, HandledAsSent
<1>7. EchoInv'
  BY <1>3, <1>4 DEF StreamInv, EchoInv
<1>8. WholeInv'
  <2> SUFFICES ASSUME wholeReads', app = "http"
               PROVE  process = "runs" /\ ~refused /\ WholeMessage'
    BY <1>3 DEF WholeInv
  <2>1. wholeReads /\ chunk \in Requests /\ IsRequestLine(FirstLine(chunk))
    BY <1>2
  <2>2. ~refused /\ parseState = "requestLine" /\ Contents(readBuf) = <<>>
    BY <1>3, <2>1 DEF StreamInv, WholeInv
  <2>3. Contents(readBuf') = chunk
    <3>1. <<>> \o chunk = chunk
      BY <1>1, ConcatEmptySeq
    <3> QED
      BY <1>1, <2>2, <3>1
  <2> QED
    BY <1>3, <2>1, <2>2, <2>3 DEF WholeMessage, contextVars
<1> QED
  BY <1>5, <1>6, <1>7, <1>8 DEF StreamInv

\* The echo server sends back all it has.
LEMMA EchoStream ==
    ASSUME TypeInv, StreamInv, EchoOnMessage
    PROVE  StreamInv'
<1>1. /\ GetInput(readBuf).bytes = Contents(readBuf)
      /\ Contents(GetInput(readBuf).rest) =
             SubSeq(Contents(readBuf), Size(readBuf) + 1, Size(readBuf))
  BY GetInputEffect
<1>2. Contents(readBuf') = SubSeq(Contents(readBuf), Size(readBuf) + 1, Size(readBuf))
  BY <1>1 DEF EchoOnMessage
<1>3. /\ app = "echo" /\ Respond(Contents(readBuf), FALSE) /\ inMessage' = FALSE
      /\ UNCHANGED <<app, sent, inFlight, contextVars, process, historyVars>>
  BY <1>1 DEF EchoOnMessage
<1>4. PICK c \in Seq(Byte), f \in Seq(Byte) :
          c = Contents(readBuf) /\ f = inFlight /\ Len(c) = Size(readBuf)
  BY ArrivingType
<1>5. Contents(readBuf') = <<>>
  <2>1. Len(c) \in 0..Len(c) /\ Len(c) - Len(c) = 0
    BY LenProperties
  <2>2. /\ SubSeq(c, Len(c) + 1, Len(c)) \in Seq(Byte)
        /\ Len(SubSeq(c, Len(c) + 1, Len(c))) = 0
    BY <2>1, CutInTwo
  <2>3. SubSeq(c, Len(c) + 1, Len(c)) = <<>>
    BY <2>2, EmptySeq
  <2> QED
    BY <1>2, <1>4, <2>3
<1>6. connState = "Connected" /\ wire \o Arriving = FlattenSeq(sent)
  BY <1>3 DEF StreamInv, EchoInv
<1>7. connState' = "Connected" /\ wire' = wire \o c
  BY <1>3, <1>4, <1>6 DEF Respond, MaySend
<1>8. Arriving' = f
  <2>1. Arriving' = Contents(readBuf') \o inFlight'
    BY DEF Arriving
  <2>2. Arriving' = <<>> \o f
    BY <1>3, <1>4, <1>5, <2>1
  <2> QED
    BY <2>2, ConcatEmptySeq
<1>9. wire' \o Arriving' = FlattenSeq(sent')
  <2>1. Byte \subseteq Byte \cup Answers
    OBVIOUS
  <2>2. PICK w \in Seq(Byte \cup Answers) : w = wire
    BY DEF TypeInv, TypeOK
  <2>3. c \in Seq(Byte \cup Answers) /\ f \in Seq(Byte \cup Answers)
    BY <2>1, SeqMonotonic
  <2>4. PICK u, v : u = w \o c /\ v = c \o f
    OBVIOUS
  <2>5. u \o f = w \o v
    BY <2>3, <2>4, Together
  <2>6. wire' = u /\ Arriving = v
    BY <1>4, <1>7, <2>2, <2>4 DEF Arriving
  <2> QED
    BY <1>3, <1>6, <1>8, <2>2, <2>5, <2>6
<1>10. EchoInv'
  BY <1>5, <1>7, <1>9 DEF EchoInv
<1>11. ParserInv' /\ WholeInv'
  BY <1>3 DEF ParserInv, WholeInv
<1>12. HandledInv'
  BY <1>3 DEF StreamInv, HandledInv, HandledAsSent, historyVars
<1> QED
  BY <1>10, <1>11, <1>12 DEF StreamInv

-----------------------------------------------------------------------------
\* The rest of a request that was read at once: its line is consumed, and what
\* follows it is left.
LEMMA WholeLine ==
    ASSUME TypeInv, MayConsume(Line), ConsumeLine(Line)
    PROVE  /\ Line = FirstLine(Contents(readBuf))
           /\ Contents(readBuf') = OtherLines(Contents(readBuf))
<1>1. /\ Contents(readBuf') = SubSeq(Contents(readBuf), LineLength(Line) + 1, Size(readBuf))
      /\ Size(readBuf) = Len(Contents(readBuf)) /\ Line = FirstLine(Contents(readBuf))
  BY ConsumeLineEffect, ArrivingType DEF Line
<1>2. LineLength(Line) + 1 = Find(Contents(readBuf)) + 3
  BY CompleteLine DEF LineLength
<1> QED
  BY <1>1, <1>2 DEF OtherLines

\* The request line.
LEMMA RequestLineStream ==
    ASSUME TypeInv, AllGrammatical, StreamInv, RequestLine
    PROVE  StreamInv'
<1>1. /\ app = "http" /\ process = "runs" /\ inMessage /\ parseState = "requestLine"
      /\ IsRequestLine(Line) /\ MayConsume(Line) /\ ConsumeLine(Line) /\ parseState' = "headers"
      /\ UNCHANGED <<app, sent, inFlight, inMessage, connState, stopped, process, wire, historyVars>>
  BY DEF RequestLine, Parsing
<1>2. AtLine /\ HandledInv
  BY <1>1 DEF StreamInv, ParserInv
<1>3. /\ Len(handled) < Len(sent) /\ Current \in Requests /\ Current \in Seq(Byte)
      /\ Line = FirstLine(Current)
      /\ Arriving' = OtherLines(Current) \o Left(sent, Len(handled) + 1)
  BY <1>1, <1>2, AtRequest
<1>4. Grammatical(Current) /\ IsRequestLine(FirstLine(Current))
  BY <1>1, <1>3 DEF AllGrammatical
<1>5. PICK r \in Seq(Byte) : r = Current
  BY <1>3
<1>6. /\ OtherLines(r) = Behind(r, 5) /\ AfterLine(r, 5) /\ FieldsTo(r, 5) = {}
      /\ r[1] = "GET " /\ FirstLine(r)[2] = r[2] /\ FirstLine(r)[3] = r[3]
      /\ Len(FirstLine(r)) = 3
  BY <1>4, <1>5, AfterRequestLine
<1>7. request' = MeaningTo(r, 5)
  <2>1. /\ CallsSetMethod(Line) /\ HasMethod(Line) /\ HasPath(Line)
        /\ Len(Line) = 3 /\ Path(Line) = Line[2]
    <3>1. /\ HasMethod(Line) /\ HasPath(Line) /\ Len(Line) = 3 /\ Line[1] = "GET "
          /\ Path(Line) = Line[2]
      BY <1>1, <1>3, <1>5, <1>6, ThreePieces
    <3>2. 1 \in DOMAIN Line
      <4>1. Line \in Seq(Byte)
        BY LineInside
      <4>2. DOMAIN Line = 1..Len(Line)
        BY <4>1, LenProperties
      <4>3. DOMAIN Line = 1..3
        BY <3>1, <4>2
      <4>4. 1 \in 1..3
        OBVIOUS
      <4> QED
        BY <4>3, <4>4, Zenon
    <3> QED
      BY <3>1, <3>2 DEF CallsSetMethod, Words
  <2>2. request' = [request EXCEPT !.method = IF CallsSetMethod(Line) THEN HasMethod(Line) ELSE @,
                                   !.path = IF HasPath(Line) THEN Path(Line) ELSE @,
                                   !.version = IF IsRequestLine(Line) THEN Line[Len(Line)] ELSE @]
    BY DEF RequestLine, Parsed
  <2>3. request' = [request EXCEPT !.method = TRUE, !.path = r[2], !.version = r[3]]
    BY <1>1, <1>3, <1>5, <1>6, <2>1, <2>2
  <2>4. request \in RequestType /\ request.fields = {}
    BY <1>2 DEF TypeInv, TypeOK, AtLine
  <2> QED
    BY <1>6, <2>3, <2>4 DEF RequestType, MeaningTo
<1>8. UNCHANGED <<Current, handled>>
  BY <1>1 DEF Current, historyVars
<1>9. ParserInv'
  <2>1. Arriving' = Behind(Current, 5) \o Left(sent, Len(handled) + 1)
    BY <1>3, <1>5, <1>6
  <2>2. /\ AfterLine(Current, 5)' /\ Arriving' = (Behind(Current, 5) \o Left(sent, Len(handled) + 1))'
        /\ request' = MeaningTo(Current, 5)'
    BY <1>1, <1>5, <1>6, <1>7, <1>8, <2>1 DEF AfterLine, Behind, MeaningTo, FieldsTo
  <2>3. InHeaders'
    BY <1>1, <1>3, <1>8, <2>2 DEF InHeaders
  <2> QED
    BY <1>1, <2>3 DEF ParserInv
<1>10. HandledInv' /\ EchoInv'
  BY <1>1, <1>2 DEF HandledInv, HandledAsSent, EchoInv, historyVars
<1>11. WholeInv'
  <2> SUFFICES ASSUME wholeReads PROVE ~refused /\ WholeMessage'
    BY <1>1 DEF WholeInv, historyVars
  <2>1. ~refused /\ Contents(readBuf) \in Requests
    BY <1>1 DEF StreamInv, WholeInv, WholeMessage
  <2>2. PICK q \in Requests : q = Contents(readBuf) /\ q \in Seq(Byte) /\ Grammatical(q)
    BY <2>1, RequestAssumption DEF AllGrammatical
  <2>3. Line = FirstLine(q) /\ Contents(readBuf') = OtherLines(q)
    BY <1>1, <2>2, WholeLine
  <2>4. OtherLines(q) = Behind(q, 5) /\ AfterLine(q, 5)
    BY <1>1, <2>2, <2>3, AfterRequestLine
  <2> QED
    BY <1>1, <2>1, <2>3, <2>4 DEF WholeMessage
<1> QED
  BY <1>9, <1>10, <1>11 DEF StreamInv

\* What the lines of the headers share.
LEMMA HeaderFacts ==
    ASSUME TypeInv, AllGrammatical, StreamInv, Parsing("headers"), MayConsume(Line), ConsumeLine(Line)
    PROVE  /\ Len(handled) < Len(sent)
           /\ \E k \in Nat : /\ AfterLine(Current, k) /\ request = MeaningTo(Current, k)
                             /\ Arriving = Behind(Current, k) \o Left(sent, Len(handled) + 1)
           /\ wholeReads => \E q \in Requests : \E k, next \in Nat :
                  /\ AfterLine(q, k) /\ Contents(readBuf') = Behind(q, next)
                  /\ (\E i \in DOMAIN Line : Line[i] \in Fields) => AfterLine(q, next)
                  /\ (\A i \in DOMAIN Line : Line[i] \notin Fields) => Contents(readBuf') = <<>>
<1>1. app = "http" /\ process = "runs" /\ inMessage /\ parseState = "headers"
  BY DEF Parsing
<1>2. InHeaders
  BY <1>1 DEF StreamInv, ParserInv
<1>3. ASSUME wholeReads
      PROVE  \E q \in Requests : \E k, next \in Nat :
                 /\ AfterLine(q, k) /\ Contents(readBuf') = Behind(q, next)
                 /\ (\E i \in DOMAIN Line : Line[i] \in Fields) => AfterLine(q, next)
                 /\ (\A i \in DOMAIN Line : Line[i] \notin Fields) => Contents(readBuf') = <<>>
  <2>1. PICK q \in Requests, k \in Nat : AfterLine(q, k) /\ Contents(readBuf) = Behind(q, k)
    BY <1>1, <1>3 DEF StreamInv, WholeInv, WholeMessage
  <2>2. q \in Seq(Byte) /\ Grammatical(q)
    BY RequestAssumption DEF AllGrammatical
  <2> DEFINE line == FirstLine(Behind(q, k))
             n == Find(Behind(q, k))
  <2>3. /\ Behind(q, k) \in Seq(Byte) /\ n < Len(Behind(q, k))
        /\ OtherLines(Behind(q, k)) = Behind(q, k + n + 2)
        /\ (\E i \in DOMAIN line : line[i] \in Fields) => AfterLine(q, k + n + 2)
        /\ (\A i \in DOMAIN line : line[i] \notin Fields) => Behind(q, k + n + 2) = <<>>
    BY <2>1, <2>2, AfterHeaderLine
  <2>4. n \in Nat
    BY <2>3, FindFound
  <2>5. Line = line /\ Contents(readBuf') = OtherLines(Behind(q, k))
    BY <2>1, WholeLine
  <2> HIDE DEF line, n
  <2>6. PICK next \in Nat : next = k + n + 2
    BY <2>4
  <2>7. /\ AfterLine(q, k) /\ Contents(readBuf') = Behind(q, next)
        /\ (\E i \in DOMAIN Line : Line[i] \in Fields) => AfterLine(q, next)
        /\ (\A i \in DOMAIN Line : Line[i] \notin Fields) => Contents(readBuf') = <<>>
    BY <2>1, <2>3, <2>5, <2>6
  <2> QED
    BY <2>7
<1> QED
  BY <1>2, <1>3 DEF InHeaders

\* A header field.
LEMMA HeaderLineStream ==
    ASSUME TypeInv, AllGrammatical, StreamInv, HeaderLine
    PROVE  StreamInv'
<1>1. /\ app = "http" /\ process = "runs" /\ inMessage /\ parseState = "headers"
      /\ Parsing("headers") /\ MayConsume(Line) /\ ConsumeLine(Line)
      /\ \E i \in DOMAIN Line : Line[i] \in Fields
      /\ UNCHANGED <<app, sent, inFlight, inMessage, parseState, quit, connState, stopped, process,
                     wire, historyVars>>
  BY DEF HeaderLine, Parsing
<1>2. Len(handled) < Len(sent) /\ HandledInv
  BY <1>1, HeaderFacts DEF StreamInv
<1>3. PICK k \in Nat : /\ AfterLine(Current, k) /\ request = MeaningTo(Current, k)
                       /\ Arriving = Behind(Current, k) \o Left(sent, Len(handled) + 1)
  BY <1>1, HeaderFacts
<1>4. PICK next \in Nat :
          /\ Arriving' = Behind(Current, next) \o Left(sent, Len(handled) + 1)
          /\ FieldsTo(Current, next) = FieldsTo(Current, k) \cup (Range(Line) \cap Fields)
          /\ AfterLine(Current, next)
  BY <1>1, <1>2, <1>3, AtHeader
<1>5. request' = MeaningTo(Current, next)
  <2>1. request' = [request EXCEPT !.fields = request.fields \cup (Range(Line) \cap Fields)]
    BY DEF HeaderLine
  <2> QED
    BY <1>3, <1>4, <2>1 DEF MeaningTo
<1>6. UNCHANGED <<Current, handled>>
  BY <1>1 DEF Current, historyVars
<1>7. ParserInv'
  <2>1. /\ AfterLine(Current, next)'
        /\ Arriving' = (Behind(Current, next) \o Left(sent, Len(handled) + 1))'
        /\ request' = MeaningTo(Current, next)'
    BY <1>1, <1>4, <1>5, <1>6 DEF AfterLine, Behind, MeaningTo, FieldsTo
  <2>2. InHeaders'
    BY <1>1, <1>2, <1>6, <2>1 DEF InHeaders
  <2> QED
    BY <1>1, <2>2 DEF ParserInv
<1>8. HandledInv' /\ EchoInv'
  BY <1>1, <1>2 DEF HandledInv, HandledAsSent, EchoInv, historyVars
<1>9. WholeInv'
  <2> SUFFICES ASSUME wholeReads PROVE ~refused /\ WholeMessage'
    BY <1>1 DEF WholeInv, historyVars
  <2>1. ~refused
    BY <1>1 DEF StreamInv, WholeInv
  <2>2. \E q \in Requests : \E m \in Nat : AfterLine(q, m) /\ Contents(readBuf') = Behind(q, m)
    BY <1>1, HeaderFacts
  <2> QED
    BY <1>1, <2>1, <2>2 DEF WholeMessage
<1> QED
  BY <1>7, <1>8, <1>9 DEF StreamInv

\* The line that ends the headers ends the request.
LEMMA EmptyLineStream ==
    ASSUME TypeInv, AllGrammatical, StreamInv, EmptyLine
    PROVE  StreamInv'
<1>1. /\ app = "http" /\ process = "runs" /\ inMessage /\ parseState = "headers"
      /\ Parsing("headers") /\ MayConsume(Line) /\ ConsumeLine(Line) /\ parseState' = "gotAll"
      /\ \A i \in DOMAIN Line : Line[i] \notin Fields
      /\ UNCHANGED <<app, sent, inFlight, inMessage, request, quit, connState, stopped, process,
                     wire, historyVars>>
  BY DEF EmptyLine, Parsing
<1>2. Len(handled) < Len(sent) /\ HandledInv
  BY <1>1, HeaderFacts DEF StreamInv
<1>3. PICK k \in Nat : /\ AfterLine(Current, k) /\ request = MeaningTo(Current, k)
                       /\ Arriving = Behind(Current, k) \o Left(sent, Len(handled) + 1)
  BY <1>1, HeaderFacts
<1>4. /\ Arriving' = Left(sent, Len(handled) + 1)
      /\ FieldsTo(Current, k) = Range(Current) \cap Fields
  BY <1>1, <1>2, <1>3, AtHeader
<1>5. request = Meaning(Current)
  BY <1>3, <1>4 DEF MeaningTo, Meaning
<1>6. UNCHANGED <<Current, handled>>
  BY <1>1 DEF Current, historyVars
<1>7. ParserInv'
  <2>1. Arriving' = Left(sent, Len(handled) + 1)' /\ request' = Meaning(Current)'
    BY <1>1, <1>4, <1>5, <1>6 DEF Meaning
  <2>2. AtEnd'
    BY <1>1, <1>2, <1>6, <2>1 DEF AtEnd
  <2> QED
    BY <1>1, <2>2 DEF ParserInv
<1>8. HandledInv' /\ EchoInv'
  BY <1>1, <1>2 DEF HandledInv, HandledAsSent, EchoInv, historyVars
<1>9. WholeInv'
  <2> SUFFICES ASSUME wholeReads PROVE ~refused /\ WholeMessage'
    BY <1>1 DEF WholeInv, historyVars
  <2>1. ~refused
    BY <1>1 DEF StreamInv, WholeInv
  <2>2. Contents(readBuf') = <<>>
    BY <1>1, HeaderFacts
  <2> QED
    BY <1>1, <2>1, <2>2 DEF WholeMessage
<1> QED
  BY <1>7, <1>8, <1>9 DEF StreamInv

\* A line that is refused stays where it is; no whole request is.
LEMMA BadRequestLineStream ==
    ASSUME TypeInv, StreamInv, BadRequestLine
    PROVE  StreamInv'
<1>1. /\ app = "http" /\ process = "runs" /\ inMessage /\ parseState = "requestLine"
      /\ ~IsRequestLine(Line)
      /\ UNCHANGED <<app, sent, inFlight, readBuf, parseState, process, handled, wholeReads>>
  BY DEF BadRequestLine, Parsing
<1>2. request'.fields = request.fields
  <2>1. request' = Parsed(Line) /\ request \in RequestType
    BY DEF BadRequestLine, TypeInv, TypeOK
  <2> QED
    BY <2>1 DEF Parsed, RequestType
<1>3. AtLine
  BY <1>1 DEF StreamInv, ParserInv
<1>4. ParserInv'
  <2>1. AtLine'
    BY <1>1, <1>2, <1>3 DEF AtLine, Arriving
  <2> QED
    BY <1>1, <2>1 DEF ParserInv
<1>5. HandledInv' /\ EchoInv'
  BY <1>1 DEF StreamInv, HandledInv, HandledAsSent, EchoInv
<1>6. ~wholeReads
  BY <1>1 DEF StreamInv, WholeInv, WholeMessage, Line
<1> QED
  BY <1>1, <1>4, <1>5, <1>6 DEF StreamInv, WholeInv

\* onRequest: the request that was read is the next one that was sent.
LEMMA OnRequestStream ==
    ASSUME TypeInv, StreamInv, NEW callbackCloses \in BOOLEAN, OnRequest(callbackCloses)
    PROVE  StreamInv'
<1>1. /\ app = "http" /\ process = "runs" /\ inMessage /\ parseState = "gotAll"
      /\ handled' = Append(handled, request) /\ request' = NoRequest
      /\ parseState' = "requestLine" /\ inMessage' = FALSE
      /\ UNCHANGED <<app, sent, inFlight, readBuf, quit, process, refused, wholeReads>>
  BY DEF OnRequest, Parsing, FreshRequest
<1>2. /\ Len(handled) < Len(sent) /\ Arriving = Left(sent, Len(handled) + 1)
      /\ request = Meaning(Current)
  BY <1>1 DEF StreamInv, ParserInv, AtEnd
<1>3. /\ handled \in Seq(RequestType) /\ request \in RequestType /\ Len(handled) \in Nat
      /\ Len(sent) \in Nat /\ HandledAsSent
  BY ArrivingType, SentRequests DEF TypeInv, TypeOK, StreamInv, HandledInv
<1>4. /\ Len(handled') = Len(handled) + 1 /\ handled' \in Seq(RequestType)
      /\ handled'[Len(handled) + 1] = request
      /\ \A i \in 1..Len(handled) : handled'[i] = handled[i]
  BY <1>1, <1>3, AppendProperties
<1>5. ParserInv'
  <2>1. request'.fields = {}
    BY <1>1 DEF NoRequest
  <2>2. AtLine'
    BY <1>1, <1>2, <1>4, <2>1 DEF AtLine, Arriving
  <2> QED
    BY <1>1, <2>2 DEF ParserInv
<1>6. HandledInv'
  <2>1. DOMAIN handled' = 1..(Len(handled) + 1) /\ DOMAIN handled = 1..Len(handled)
    BY <1>3, <1>4, LenProperties
  <2>2. ASSUME NEW i \in DOMAIN handled' PROVE handled'[i] = Meaning(sent[i])
    <3>1. CASE i = Len(handled) + 1
      BY <1>2, <1>4, <3>1 DEF Current
    <3>2. CASE i \in 1..Len(handled)
      BY <1>3, <1>4, <2>1, <3>2 DEF HandledAsSent
    <3> QED
      BY <1>3, <2>1, <3>1, <3>2
  <2>3. HandledAsSent'
    BY <1>1, <2>2 DEF HandledAsSent
  <2> QED
    BY <1>1, <1>2, <1>3, <1>4, <2>3 DEF HandledInv
<1>7. EchoInv' /\ WholeInv'
  BY <1>1 DEF StreamInv, EchoInv, WholeInv, WholeMessage
<1> QED
  BY <1>5, <1>6, <1>7 DEF StreamInv

\* No assertion fails while each read brings a request.
LEMMA AbortStream ==
    ASSUME TypeInv, AllGrammatical, MethodInv, StreamInv, SetMethodAborts \/ ConsumeUntilAborts
    PROVE  StreamInv'
<1>1. /\ app = "http" /\ process = "runs" /\ inMessage /\ process' # "runs"
      /\ UNCHANGED <<app, sent, inFlight, readBuf, inMessage, contextVars, connState, stopped,
                     wire, historyVars>>
  BY DEF SetMethodAborts, ConsumeUntilAborts, Parsing
<1>2. ParserInv' /\ EchoInv'
  BY <1>1 DEF ParserInv, EchoInv
<1>3. HandledInv'
  BY <1>1 DEF StreamInv, HandledInv, HandledAsSent, historyVars
<1>4. ~wholeReads
  <2> SUFFICES ASSUME wholeReads PROVE FALSE
    OBVIOUS
  <2>1. ~refused /\ WholeMessage
    BY <1>1 DEF StreamInv, WholeInv
  <2>2. CASE SetMethodAborts
    BY <2>1, <2>2 DEF SetMethodAborts, Parsing, MethodFree, MethodInv
  <2>3. CASE ConsumeUntilAborts
    <3>1. ~MayConsume(Line) /\ (parseState = "requestLine" \/ parseState = "headers")
      BY <2>3 DEF ConsumeUntilAborts, Parsing
    <3>2. CASE parseState = "requestLine"
      BY <2>1, <3>1, <3>2, CompleteLine DEF WholeMessage, AllGrammatical, Grammatical
    <3>3. CASE parseState = "headers"
      <4>1. PICK q \in Requests, k \in Nat : AfterLine(q, k) /\ Contents(readBuf) = Behind(q, k)
        BY <2>1, <3>3 DEF WholeMessage
      <4>2. q \in Seq(Byte) /\ Grammatical(q)
        BY RequestAssumption DEF AllGrammatical
      <4>3. Find(Behind(q, k)) < Len(Behind(q, k))
        BY <4>1, <4>2, AfterHeaderLine
      <4> QED
        BY <3>1, <4>1, <4>3, CompleteLine
    <3> QED
      BY <3>1, <3>2, <3>3
  <2> QED
    BY <2>2, <2>3
<1> QED
  BY <1>1, <1>2, <1>3, <1>4 DEF StreamInv, WholeInv, historyVars

-----------------------------------------------------------------------------
\* At first nothing was sent.
LEMMA InitStream == Init => StreamInv
<1> SUFFICES ASSUME Init PROVE StreamInv
  OBVIOUS
<1>1. InputInv
  BY InitInput
<1>2. TypeInv
  BY <1>1 DEF InputInv
<1>3. Contents(readBuf) = <<>> /\ inFlight = <<>> /\ handled = <<>> /\ sent = <<>> /\ wire = <<>>
  BY EmptyIsBuffer DEF Init
<1>4. Arriving = <<>> /\ wire \o Arriving = <<>>
  <2>1. <<>> \in Seq(Byte)
    BY EmptySeq
  <2>2. <<>> \o <<>> = <<>>
    BY <2>1, ConcatEmptySeq
  <2> QED
    BY <1>3, <2>2 DEF Arriving
<1>5. Len(handled) = 0 /\ Len(sent) = 0 /\ DOMAIN handled = {}
  BY <1>3, EmptySeq
<1>6. Left(sent, Len(handled)) = <<>>
  <2>1. Left(sent, Len(sent)) = <<>>
    BY <1>2, LeftEnd
  <2> QED
    BY <1>5, <2>1
<1>7. ParserInv
  BY <1>4, <1>6 DEF Init, ParserInv, AtLine, NoRequest
<1>8. HandledInv
  BY <1>5 DEF HandledInv, HandledAsSent
<1>9. EchoInv
  <2>1. FlattenSeq(sent) = <<>>
    BY <1>3 DEF FlattenSeq
  <2> QED
    BY <1>3, <1>4, <2>1 DEF Init, EchoInv
<1>10. WholeInv
  BY <1>3 DEF Init, WholeInv, WholeMessage
<1> QED
  BY <1>7, <1>8, <1>9, <1>10 DEF StreamInv

\* Every step keeps the invariant.
LEMMA NextStream ==
    ASSUME AllGrammatical, InputInv, StreamInv, [Next]_vars
    PROVE  StreamInv'
<1>t. TypeInv /\ MethodInv
  BY DEF InputInv
<1>1. ASSUME NEW r \in Requests, ClientSends(r) PROVE StreamInv'
  BY <1>t, <1>1, ClientSendsStream
<1>2. ASSUME NEW n \in 1..Len(inFlight), HandleRead(n) PROVE StreamInv'
  BY <1>t, <1>2, HandleReadStream
<1>3. CASE EchoOnMessage
  BY <1>t, <1>3, EchoStream
<1>4. CASE RequestLine
  BY <1>t, <1>4, RequestLineStream
<1>5. CASE HeaderLine
  BY <1>t, <1>5, HeaderLineStream
<1>6. CASE EmptyLine
  BY <1>t, <1>6, EmptyLineStream
<1>7. CASE BadRequestLine
  BY <1>t, <1>7, BadRequestLineStream
<1>8. ASSUME NEW closes \in BOOLEAN, OnRequest(closes) PROVE StreamInv'
  BY <1>t, <1>8, OnRequestStream
<1>9. CASE SetMethodAborts \/ ConsumeUntilAborts
  BY <1>t, <1>9, AbortStream
<1>10. CASE UNCHANGED vars
  <2>1. UNCHANGED <<app, sent, inFlight, readBuf, inMessage, parseState, request, quit, connState,
                    stopped, process, wire, handled, refused, wholeReads>>
    BY <1>10 DEF vars, contextVars, historyVars
  <2>2. ParserInv'
    BY <2>1 DEF StreamInv, ParserInv, AtLine, InHeaders, AtEnd, Arriving, Current
  <2>3. HandledInv' /\ EchoInv' /\ WholeInv'
    BY <2>1 DEF StreamInv, HandledInv, HandledAsSent, EchoInv, WholeInv, WholeMessage, Arriving
  <2> QED
    BY <2>2, <2>3 DEF StreamInv
<1> QED
  BY <1>1, <1>2, <1>3, <1>4, <1>5, <1>6, <1>7, <1>8, <1>9, <1>10 DEF Next

\* The invariant of the stream, for clients that send what the parser takes for requests.
LEMMA StreamInvariant ==
    ASSUME AllGrammatical
    PROVE  Spec => []StreamInv
<1>1. InputInv /\ StreamInv /\ [Next]_vars => StreamInv'
  BY NextStream
<1> QED
  BY <1>1, InitStream, InputInvariant, PTL DEF Spec

\* No byte is skipped or looked at twice, wherever the stream is cut.
THEOREM StreamIsRead ==
    ASSUME \A r \in Requests : Grammatical(r)
    PROVE  Spec => []NothingSkipped
<1>1. AllGrammatical
  BY DEF AllGrammatical
<1>2. InputInv /\ StreamInv => NothingSkipped
  <2> SUFFICES ASSUME InputInv, StreamInv, process = "runs", ~inMessage
               PROVE  CASE app = "http" ->
                               /\ parseState = "requestLine"
                               /\ FlattenSeq(SubSeq(sent, Len(handled) + 1, Len(sent))) =
                                      Contents(readBuf) \o inFlight
                        [] app = "echo" -> wire \o inFlight = FlattenSeq(sent)
    BY DEF NothingSkipped
  <2>1. /\ app \in {"echo", "http"} /\ parseState \in {"requestLine", "headers", "gotAll"}
        /\ inFlight \in Seq(Byte)
    BY DEF InputInv, TypeInv, TypeOK
  <2>2. CASE app = "http"
    <3>1. parseState = "requestLine"
      BY <2>1, <2>2 DEF StreamInv, ParserInv, InHeaders, AtEnd
    <3>2. Arriving = Left(sent, Len(handled))
      BY <2>2, <3>1 DEF StreamInv, ParserInv, AtLine
    <3> QED
      BY <2>2, <3>1, <3>2 DEF Arriving, Left
  <2>3. CASE app = "echo"
    <3>1. wire \o Arriving = FlattenSeq(sent) /\ Contents(readBuf) = <<>>
      BY <2>3 DEF StreamInv, EchoInv
    <3>2. Arriving = inFlight
      <4>1. <<>> \o inFlight = inFlight
        BY <2>1, ConcatEmptySeq
      <4> QED
        BY <3>1, <4>1 DEF Arriving
    <3> QED
      BY <2>3, <3>1, <3>2
  <2> QED
    BY <2>1, <2>2, <2>3
<1> QED
  BY <1>1, <1>2, StreamInvariant, InputInvariant, PTL

\* The requests are handled in the order they were sent, each with what it says.
THEOREM RequestsKeepTheirMeaning ==
    ASSUME \A r \in Requests : Grammatical(r)
    PROVE  Spec => []HandledAsSent
<1>1. AllGrammatical
  BY DEF AllGrammatical
<1>2. StreamInv => HandledAsSent
  BY DEF StreamInv, HandledInv
<1> QED
  BY <1>1, <1>2, StreamInvariant, PTL

\* A server whose reads bring whole requests handles all of them.
THEOREM WholeRequestsSucceed ==
    ASSUME \A r \in Requests : Grammatical(r)
    PROVE  Spec => []WholeRequestsHandled
<1>1. AllGrammatical
  BY DEF AllGrammatical
<1>2. InputInv /\ StreamInv => WholeRequestsHandled
  <2> SUFFICES ASSUME InputInv, StreamInv, wholeReads, app = "http"
               PROVE  process = "runs" /\ ~refused /\ (~inMessage => IsEmpty(readBuf))
    BY DEF WholeRequestsHandled
  <2>1. /\ process = "runs" /\ ~refused
        /\ ~inMessage => Contents(readBuf) = <<>>
    BY DEF StreamInv, WholeInv
  <2>2. Len(Contents(readBuf)) = Size(readBuf) /\ Len(<<>>) = 0
    BY ArrivingType, EmptySeq DEF InputInv
  <2> QED
    BY <2>1, <2>2 DEF IsEmpty
<1> QED
  BY <1>1, <1>2, StreamInvariant, InputInvariant, PTL
=============================================================================
