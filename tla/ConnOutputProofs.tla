-------------------------- MODULE ConnOutputProofs ---------------------------
(***************************************************************************)
(* Theorems about ConnOutput, for messages of any length, any size of the  *)
(* kernel's buffer, any number of threads inside send and any end of the   *)
(* connection: what waits is what was not yet taken, it is watched, and    *)
(* the order holds until handleWrite writes from a buffer it consumed      *)
(* from.                                                                   *)
(***************************************************************************)
EXTENDS ConnOutput, BufferProofs

\* The buffer is a record in which bg, ed and the vector agree, and holds numbers.
TypeInv == TypeOK /\ writeBuf \in Buffers(Nat)

\* Every byte was either counted as taken by the kernel or waits.
CountInv == asked = Len(wire) + Size(writeBuf)

OutputInv ==
    /\ TypeInv
    /\ CountInv
    /\ RestIsKept /\ PendingIsWatched /\ InOrderUntilRewound

-----------------------------------------------------------------------------
(***************************************************************************)
(* The numbered bytes.                                                     *)
(***************************************************************************)

\* n numbers beginning after from.
LEMMA BytesAre ==
    ASSUME NEW from \in Nat, NEW n \in Nat
    PROVE  /\ Bytes(from, n) \in Seq(Nat) /\ Len(Bytes(from, n)) = n
           /\ \A i \in 1..n : Bytes(from, n)[i] = from + i
<1>1. Bytes(from, n) \in [1..n -> Nat]
  BY DEF Bytes
<1>2. Bytes(from, n) \in Seq(Nat)
  BY <1>1, SeqDef
<1>3. DOMAIN Bytes(from, n) = 1..n
  BY DEF Bytes
<1>4. Len(Bytes(from, n)) = n
  BY <1>2, <1>3, LenProperties
<1> QED
  BY <1>2, <1>4 DEF Bytes

\* A message continues the numbers of those before it.
LEMMA BytesGoOn ==
    ASSUME NEW k \in Nat, NEW m \in Nat, NEW n \in Nat
    PROVE  Bytes(k, m) \o Bytes(k + m, n) = Bytes(k, m + n)
<1> DEFINE s == Bytes(k, m)
           t == Bytes(k + m, n)
           u == Bytes(k, m + n)
<1>0. k + m \in Nat /\ m + n \in Nat
  OBVIOUS
<1>s. s \in Seq(Nat) /\ Len(s) = m /\ \A i \in 1..m : s[i] = k + i
  BY BytesAre
<1>t. t \in Seq(Nat) /\ Len(t) = n /\ \A i \in 1..n : t[i] = k + m + i
  BY <1>0, BytesAre
<1>u. u \in Seq(Nat) /\ Len(u) = m + n /\ \A i \in 1..(m + n) : u[i] = k + i
  BY <1>0, BytesAre
<1> HIDE DEF s, t, u
<1>2. /\ s \o t \in Seq(Nat) /\ Len(s \o t) = m + n
      /\ \A i \in 1..(m + n) : (s \o t)[i] = IF i <= m THEN s[i] ELSE t[i - m]
  BY <1>s, <1>t, ConcatProperties
<1>3. \A i \in 1..(m + n) : (s \o t)[i] = u[i]
  <2> SUFFICES ASSUME NEW i \in 1..(m + n) PROVE (s \o t)[i] = u[i]
    OBVIOUS
  <2>1. CASE i <= m
    BY <1>s, <1>u, <1>2, <2>1
  <2>2. CASE ~(i <= m)
    <3>1. i - m \in 1..n /\ k + m + (i - m) = k + i
      BY <2>2
    <3> QED
      BY <1>t, <1>u, <1>2, <2>2, <3>1
  <2> QED
    BY <2>1, <2>2
<1>4. s \o t = u
  BY <1>u, <1>2, <1>3, SeqEqual
<1> QED
  BY <1>4 DEF s, t, u

\* What is behind the first n of them.
LEMMA BytesBehind ==
    ASSUME NEW k \in Nat, NEW m \in Nat, NEW n \in 0..m
    PROVE  SubSeq(Bytes(k, m), n + 1, m) = Bytes(k + n, m - n)
<1> DEFINE s == Bytes(k, m)
           r == SubSeq(s, n + 1, m)
           u == Bytes(k + n, m - n)
<1>0. k + n \in Nat /\ m - n \in Nat
  OBVIOUS
<1>s. s \in Seq(Nat) /\ Len(s) = m /\ \A i \in 1..m : s[i] = k + i
  BY BytesAre
<1>u. u \in Seq(Nat) /\ Len(u) = m - n /\ \A i \in 1..(m - n) : u[i] = k + n + i
  BY <1>0, BytesAre
<1> HIDE DEF s, u
<1>1. r \in Seq(Nat) /\ Len(r) = m - n
  BY <1>s, CutInTwo
<1>2. \A i \in 1..(m - n) : r[i] = s[n + i]
  BY <1>s
<1>3. \A i \in 1..(m - n) : r[i] = u[i]
  BY <1>s, <1>u, <1>2
<1> HIDE DEF r
<1>4. r = u
  BY <1>1, <1>u, <1>3, SeqEqual
<1> QED
  BY <1>4 DEF s, r, u

-----------------------------------------------------------------------------
(***************************************************************************)
(* What sendInLoop and handleWrite do to the buffer and the socket.        *)
(***************************************************************************)

\* Of len new bytes the kernel takes n, only if nothing waits, and the others wait
\* behind those in the buffer.
LEMMA SendInLoopEffect ==
    ASSUME TypeInv, NEW len \in Lengths, SendInLoop(len)
    PROVE  \/ Killed
           \/ \E n \in 0..len :
                 /\ n <= room /\ (n > 0 => IsEmpty(writeBuf))
                 /\ asked' = asked + len /\ sockError' \in BOOLEAN
                 /\ Write(Bytes(asked, len), n)
                 /\ writeBuf' \in Buffers(Nat)
                 /\ Contents(writeBuf') =
                        Contents(writeBuf) \o SubSeq(Bytes(asked, len), n + 1, len)
                 /\ Size(writeBuf') = Size(writeBuf) + (len - n)
                 /\ writing' = (writing \/ n < len)
                 /\ UNCHANGED process
<1> DEFINE bytes == Bytes(asked, len)
           n == IF MayWriteAtOnce THEN Taken(len) ELSE 0
           rest == SubSeq(bytes, n + 1, len)
<1>1. len \in Nat /\ asked \in Nat /\ room \in Nat
  BY LengthAssumption, BoundAssumption, RoomAssumption DEF TypeInv, TypeOK
<1>2. bytes \in Seq(Nat) /\ Len(bytes) = len
  BY <1>1, BytesAre
<1>3. n \in 0..len /\ n <= room /\ (n > 0 => IsEmpty(writeBuf))
  BY <1>1 DEF Taken, Lesser, MayWriteAtOnce
<1>4. rest \in Seq(Nat) /\ Len(rest) = len - n
  BY <1>2, <1>3, CutInTwo
<1>6. Rest(bytes, n) = rest
  BY <1>2 DEF Rest
<1> HIDE DEF bytes, n, rest
<1>5. rest # <<>> <=> n < len
  <2>1. rest = <<>> <=> Len(rest) = 0
    BY <1>4, EmptySeq
  <2> QED
    BY <1>1, <1>3, <1>4, <2>1
<1>7. \/ Killed
      \/ /\ Write(bytes, n) /\ Watch(rest) /\ UNCHANGED process
         /\ asked' = asked + len /\ sockError' = (sockError /\ ~MayWriteAtOnce)
         /\ \E cap \in 0..MaxBytes :
               /\ AllowedCapacity(writeBuf, rest, cap)
               /\ writeBuf' = WriteIn(writeBuf, rest, cap)
  BY <1>6 DEF SendInLoop, bytes, n
<1>8. ASSUME NEW cap \in 0..MaxBytes, AllowedCapacity(writeBuf, rest, cap),
             writeBuf' = WriteIn(writeBuf, rest, cap)
      PROVE  /\ writeBuf' \in Buffers(Nat)
             /\ Contents(writeBuf') = Contents(writeBuf) \o rest
             /\ Size(writeBuf') = Size(writeBuf) + (len - n)
  <2>1. cap \in Nat /\ writeBuf \in Buffers(Nat)
    BY BoundAssumption DEF TypeInv
  <2> QED
    BY <1>4, <1>8, <2>1, WriteInAppends
<1>9. ASSUME Write(bytes, n), Watch(rest)
      PROVE  Write(bytes, n) /\ writing' = (writing \/ n < len)
  BY <1>5, <1>9 DEF Watch
<1>10. CASE Killed
  BY <1>10
<1>11. CASE /\ Write(bytes, n) /\ Watch(rest) /\ UNCHANGED process
            /\ asked' = asked + len /\ sockError' = (sockError /\ ~MayWriteAtOnce)
            /\ \E cap \in 0..MaxBytes :
                  /\ AllowedCapacity(writeBuf, rest, cap)
                  /\ writeBuf' = WriteIn(writeBuf, rest, cap)
  <2>1. /\ n <= room /\ (n > 0 => IsEmpty(writeBuf))
        /\ asked' = asked + len
        /\ Write(bytes, n)
        /\ writeBuf' \in Buffers(Nat)
        /\ Contents(writeBuf') = Contents(writeBuf) \o rest
        /\ Size(writeBuf') = Size(writeBuf) + (len - n)
        /\ writing' = (writing \/ n < len)
        /\ UNCHANGED process
    BY <1>3, <1>8, <1>9, <1>11
  <2>2. sockError' \in BOOLEAN
    BY <1>11
  <2> QED
    BY <1>3, <2>1, <2>2 DEF bytes, rest
<1> QED
  BY <1>7, <1>10, <1>11

\* n bytes of size() go to the kernel, from the vector's begin, and n are consumed.
LEMMA HandleWriteEffect ==
    ASSUME TypeInv, HandleWrite
    PROVE  \/ Killed
           \/ \E n \in 0..Size(writeBuf) :
                 /\ n <= room
                 /\ Write(ToWrite, n)
                 /\ ToWrite \in Seq(Nat) /\ Len(ToWrite) = Size(writeBuf)
                 /\ writeBuf.bg = 0 => ToWrite = Contents(writeBuf)
                 /\ writeBuf' \in Buffers(Nat)
                 /\ Contents(writeBuf') = SubSeq(Contents(writeBuf), n + 1, Size(writeBuf))
                 /\ Size(writeBuf') = Size(writeBuf) - n
                 /\ writing' /\ sockError' = FALSE
                 /\ rewound' = (rewound \/ (n > 0 /\ writeBuf.bg > 0))
                 /\ UNCHANGED <<process, shut, ended, reset, asked>>
<1> DEFINE n == Taken(Size(writeBuf))
<1>1. /\ writeBuf \in Buffers(Nat) /\ room \in Nat
      /\ writeBuf.data \in Seq(Nat) /\ writeBuf.bg \in Nat
  BY RoomAssumption DEF TypeInv, TypeOK, Buffers
<1>2. /\ Size(writeBuf) \in Nat /\ Size(writeBuf) \in 0..Len(writeBuf.data)
      /\ writeBuf.bg = 0 => Contents(writeBuf) = writeBuf.data
      /\ Len(Contents(writeBuf)) = Size(writeBuf)
  BY <1>1, ContentsOfBuffer
<1>3. n \in 0..Size(writeBuf) /\ n <= room
  BY <1>1, <1>2 DEF Taken, Lesser
<1>4. ToWrite \in Seq(Nat) /\ Len(ToWrite) = Size(writeBuf)
  BY <1>1, <1>2, CutInTwo DEF ToWrite
<1>5. writeBuf.bg = 0 => ToWrite = Contents(writeBuf)
  <2>1. writeBuf.bg = 0 => Len(writeBuf.data) = Size(writeBuf)
    BY <1>2
  <2> QED
    BY <1>1, <1>2, <2>1, SubSeqFull DEF ToWrite
<1>6. /\ Consume(writeBuf, n) \in Buffers(Nat)
      /\ Contents(Consume(writeBuf, n)) = SubSeq(Contents(writeBuf), n + 1, Size(writeBuf))
      /\ Size(Consume(writeBuf, n)) = Size(writeBuf) - n
  BY <1>1, <1>3, ConsumeTakes
<1> HIDE DEF n
<1>7. \/ Killed
      \/ /\ Write(ToWrite, n) /\ writeBuf' = Consume(writeBuf, n)
         /\ writing' = ~(0 > 0 /\ IsEmpty(writeBuf')) /\ sockError' = FALSE
         /\ rewound' = (rewound \/ (n > 0 /\ writeBuf.bg > 0))
         /\ UNCHANGED <<process, shut, ended, reset, asked>>
  BY DEF HandleWrite, n, Consumed, ReadOutResult
<1>8. CASE Killed
  BY <1>8
<1>9. CASE /\ Write(ToWrite, n) /\ writeBuf' = Consume(writeBuf, n)
           /\ writing' = ~(0 > 0 /\ IsEmpty(writeBuf')) /\ sockError' = FALSE
           /\ rewound' = (rewound \/ (n > 0 /\ writeBuf.bg > 0))
           /\ UNCHANGED <<process, shut, ended, reset, asked>>
  <2>1. ~(0 > 0)
    OBVIOUS
  <2>2. writing' = TRUE
    BY <1>9, <2>1
  <2> QED
    BY <1>3, <1>4, <1>5, <1>6, <1>9, <2>2
<1> QED
  BY <1>7, <1>8, <1>9

-----------------------------------------------------------------------------
(***************************************************************************)
(* The invariant.                                                          *)
(***************************************************************************)

\* At first there is nothing to write.
LEMMA InitOutput == Init => OutputInv
<1> SUFFICES ASSUME Init PROVE OutputInv
  OBVIOUS
<1>1. /\ writeBuf \in Buffers(Nat) /\ IsEmpty(writeBuf) /\ Size(writeBuf) = 0
      /\ Contents(writeBuf) = <<>>
  BY EmptyIsBuffer DEF Init
<1>2. wire = <<>> /\ <<>> \in Seq(Nat) /\ Len(<<>>) = 0
  BY EmptySeq DEF Init
<1>3. TypeInv
  <2>1. writeBuf.data \in Seq(Nat) /\ WellFormed(writeBuf)
    BY <1>1 DEF Buffers
  <2>2. lateSends \in 0..MaxLate /\ room \in 0..SocketRoom /\ asked \in 0..MaxBytes
    BY RoomAssumption, BoundAssumption DEF Init
  <2>3. wire \in Seq(Nat)
    BY <1>2
  <2> QED
    BY <1>1, <2>1, <2>2, <2>3 DEF Init, TypeInv, TypeOK
<1>4. CountInv /\ PendingIsWatched
  BY <1>1, <1>2 DEF Init, CountInv, PendingIsWatched
<1>5. Bytes(0, 0) = <<>>
  <2>1. Bytes(0, 0) \in Seq(Nat) /\ Len(Bytes(0, 0)) = 0
    BY BytesAre
  <2> QED
    BY <2>1, EmptySeq
<1>6. InOrderUntilRewound
  <2>1. <<>> \o <<>> = <<>>
    BY <1>2, ConcatEmptySeq
  <2> QED
    BY <1>1, <1>2, <1>5, <2>1 DEF Init, InOrderUntilRewound
<1>7. RestIsKept
  BY <1>1, <1>2, <1>5 DEF Init, RestIsKept
<1> QED
  BY <1>3, <1>4, <1>6, <1>7 DEF OutputInv

\* A step that leaves the buffer and the stream alone, and the interest in both
\* events or ends it.
LEMMA OthersKeep ==
    ASSUME OutputInv, TypeInv', UNCHANGED <<writeBuf, wire, asked, rewound>>,
           registered' => registered,
           reading' => reading /\ writing' = writing
    PROVE  OutputInv'
<1>1. CountInv' /\ RestIsKept' /\ InOrderUntilRewound'
  BY DEF OutputInv, CountInv, RestIsKept, InOrderUntilRewound
<1>2. PendingIsWatched'
  BY DEF OutputInv, PendingIsWatched
<1> QED
  BY <1>1, <1>2 DEF OutputInv

\* A write that raises SIGPIPE.
LEMMA KilledKeeps ==
    ASSUME OutputInv, Killed, turn' \in {"loop", "read"}, lateSends' \in 0..MaxLate,
           UNCHANGED <<assertsOn, state, toRun, registered, reading>>
    PROVE  OutputInv'
<1>1. /\ process' = "SIGPIPE"
      /\ UNCHANGED <<writing, writeBuf, room, shut, ended, reset, sockError, wire, asked, rewound>>
  BY DEF Killed, bufferVars, socketVars, streamVars
<1>2. TypeInv'
  BY <1>1 DEF OutputInv, TypeInv, TypeOK
<1> QED
  BY <1>1, <1>2, OthersKeep

\* sendInLoop, whichever thread called send.
LEMMA SendKeeps ==
    ASSUME OutputInv, process = "runs", NEW len \in Lengths, SendInLoop(len),
           UNCHANGED <<state, toRun>>, lateSends' \in 0..MaxLate
    PROVE  OutputInv'
<1> DEFINE bytes == Bytes(asked, len)
<1>1. /\ TypeInv /\ asked \in Nat /\ len \in Nat /\ wire \in Seq(Nat) /\ room \in Nat
      /\ bytes \in Seq(Nat) /\ Len(bytes) = len
      /\ asked + len \in 0..MaxBytes
      /\ UNCHANGED <<assertsOn, turn, registered, reading, shut, ended, reset, rewound>>
  <2>1. TypeInv /\ asked \in Nat /\ len \in Nat /\ wire \in Seq(Nat) /\ room \in Nat
    BY BoundAssumption, LengthAssumption, RoomAssumption DEF OutputInv, TypeInv, TypeOK
  <2>2. /\ asked + len <= MaxBytes
        /\ UNCHANGED <<assertsOn, turn, registered, reading, shut, ended, reset, rewound>>
    BY DEF SendInLoop, channelVars
  <2>3. asked + len \in 0..MaxBytes
    BY <2>1, <2>2, BoundAssumption
  <2>4. bytes \in Seq(Nat) /\ Len(bytes) = len
    BY <2>1, BytesAre
  <2> HIDE DEF bytes
  <2> QED
    BY <2>1, <2>2, <2>3, <2>4
<1>2. /\ Contents(writeBuf) \in Seq(Nat) /\ Size(writeBuf) \in Nat
      /\ IsEmpty(writeBuf) => Contents(writeBuf) = <<>>
  BY <1>1, ContentsOfBuffer DEF TypeInv
<1> HIDE DEF bytes
<1>3. CASE Killed
  <2>1. turn' \in {"loop", "read"}
    BY <1>1 DEF TypeInv, TypeOK
  <2> QED
    BY <1>1, <1>3, <2>1, KilledKeeps
<1>4. ASSUME NEW n \in 0..len, n <= room, n > 0 => IsEmpty(writeBuf),
             asked' = asked + len, sockError' \in BOOLEAN, Write(bytes, n),
             writeBuf' \in Buffers(Nat),
             Contents(writeBuf') = Contents(writeBuf) \o SubSeq(bytes, n + 1, len),
             Size(writeBuf') = Size(writeBuf) + (len - n),
             writing' = (writing \/ n < len),
             UNCHANGED process
      PROVE  OutputInv'
  <2> DEFINE first == SubSeq(bytes, 1, n)
             rest == SubSeq(bytes, n + 1, len)
  <2>1. /\ first \in Seq(Nat) /\ Len(first) = n
        /\ rest \in Seq(Nat) /\ Len(rest) = len - n /\ first \o rest = bytes
    BY <1>1, CutInTwo
  <2>2. wire' = wire \o first /\ room' = room - n
    BY <1>4 DEF Write
  <2> HIDE DEF first, rest
  <2>3. wire' \in Seq(Nat) /\ Len(wire') = Len(wire) + n /\ Len(wire) \in Nat
    BY <1>1, <2>1, <2>2, ConcatProperties, LenProperties
  <2>4. TypeInv'
    <3>1. room' \in 0..SocketRoom
      BY <1>1, <1>4, <2>2, RoomAssumption DEF TypeInv, TypeOK
    <3>2. writeBuf'.data \in Seq(Nat) /\ WellFormed(writeBuf')
      BY <1>4 DEF Buffers
    <3>3. writing' \in BOOLEAN
      BY <1>1, <1>4 DEF TypeInv, TypeOK
    <3> QED
      BY <1>1, <1>4, <2>3, <3>1, <3>2, <3>3 DEF TypeInv, TypeOK, WellFormed
  <2>5. CountInv'
    BY <1>1, <1>2, <1>4, <2>3 DEF OutputInv, CountInv
  <2>6. RestIsKept'
    <3> DEFINE w == Len(wire)
               size == Size(writeBuf)
    <3>1. /\ w \in Nat /\ size \in Nat /\ asked = w + size /\ n \in Nat /\ len \in Nat
          /\ n <= len /\ asked \in Nat
      BY <1>1, <1>2, <1>4, <2>3 DEF OutputInv, CountInv
    <3>2. Contents(writeBuf) = Bytes(w, size)
      <4>1. asked - w = size
        BY <3>1
      <4>2. Contents(writeBuf) = Bytes(w, asked - w)
        BY DEF OutputInv, RestIsKept
      <4> QED
        BY <4>1, <4>2
    <3>3. rest = Bytes(w + size + n, len - n)
      BY <3>1, BytesBehind DEF rest, bytes
    <3>4. n = 0 \/ size = 0
      BY <1>4, <3>1 DEF IsEmpty
    <3>5. Contents(writeBuf') = Contents(writeBuf) \o rest
      BY <1>4 DEF rest
    <3>6. Len(wire') = w + n /\ asked' = w + size + len
      BY <1>4, <2>3, <3>1
    <3> HIDE DEF w, size
    <3>7. asked' - Len(wire') = size + (len - n)
      BY <3>1, <3>6
    <3>8. CASE n = 0
      <4>1. w + size + n = w + size /\ w + n = w /\ len - n \in Nat
        BY <3>1, <3>8
      <4> DEFINE more == len - n
      <4>2. more \in Nat
        BY <4>1
      <4> HIDE DEF more
      <4>3. Bytes(w, size) \o Bytes(w + size, more) = Bytes(w, size + more)
        BY <3>1, <4>2, BytesGoOn
      <4>4. Bytes(w, size) \o Bytes(w + size, len - n) = Bytes(w, size + (len - n))
        BY <4>3 DEF more
      <4>5. Contents(writeBuf') = Bytes(Len(wire'), asked' - Len(wire'))
        BY <3>2, <3>3, <3>5, <3>6, <3>7, <4>1, <4>4
      <4> QED
        BY <4>5 DEF RestIsKept
    <3>9. CASE size = 0
      <4>1. w + size + n = w + n /\ size + (len - n) = len - n
        BY <3>1, <3>9
      <4>2. Contents(writeBuf) = <<>>
        BY <1>2, <3>9 DEF IsEmpty, size
      <4>3. <<>> \o rest = rest
        BY <2>1, ConcatEmptySeq
      <4>4. Contents(writeBuf') = Bytes(Len(wire'), asked' - Len(wire'))
        BY <3>3, <3>5, <3>6, <3>7, <4>1, <4>2, <4>3
      <4> QED
        BY <4>4 DEF RestIsKept
    <3> QED
      BY <3>4, <3>8, <3>9
  <2>7. PendingIsWatched'
    <3>1. IsEmpty(writeBuf) /\ n = len => IsEmpty(writeBuf')
      BY <1>1, <1>2, <1>4 DEF IsEmpty
    <3>2. registered /\ reading /\ ~IsEmpty(writeBuf) => writing
      BY DEF OutputInv, PendingIsWatched
    <3>3. n = len \/ n < len
      BY <1>1, <1>4
    <3>4. writing' = (writing \/ n < len)
      BY <1>4
    <3>5. registered /\ reading /\ ~IsEmpty(writeBuf') => writing'
      BY <3>1, <3>2, <3>3, <3>4
    <3> QED
      BY <1>1, <3>5 DEF PendingIsWatched
  <2>8. InOrderUntilRewound'
    <3> SUFFICES ASSUME ~rewound PROVE wire' \o Contents(writeBuf') = Bytes(0, asked')
      BY <1>1 DEF InOrderUntilRewound
    <3>1. wire \o Contents(writeBuf) = Bytes(0, asked)
      BY DEF OutputInv, InOrderUntilRewound
    <3>2. Contents(writeBuf') = Contents(writeBuf) \o rest
      BY <1>4 DEF rest
    <3>3. Bytes(0, asked) \o bytes = Bytes(0, asked')
      <4>1. 0 + asked = asked /\ 0 \in Nat
        BY <1>1
      <4>2. Bytes(0, asked) \o Bytes(0 + asked, len) = Bytes(0, asked + len)
        BY <1>1, <4>1, BytesGoOn
      <4> QED
        BY <1>4, <4>1, <4>2 DEF bytes
    <3>4. CASE n = 0
      <4>1. first = <<>> /\ rest = bytes
        <5>1. first = <<>>
          BY <2>1, <3>4, EmptySeq
        <5>2. <<>> \o rest = rest
          BY <2>1, ConcatEmptySeq
        <5>3. first \o rest = bytes
          BY <2>1
        <5> QED
          BY <5>1, <5>2, <5>3
      <4>2. wire' = wire
        <5>1. wire \o <<>> = wire
          BY <1>1, ConcatEmptySeq
        <5> QED
          BY <2>2, <4>1, <5>1
      <4>3. (wire \o Contents(writeBuf)) \o bytes = wire \o (Contents(writeBuf) \o bytes)
        <5>1. wire \in Seq(Nat) /\ Contents(writeBuf) \in Seq(Nat) /\ bytes \in Seq(Nat)
          BY <1>1, <1>2
        <5> QED
          BY <5>1
      <4> QED
        BY <3>1, <3>2, <3>3, <4>1, <4>2, <4>3
    <3>5. CASE n > 0
      <4>1. Contents(writeBuf) = <<>>
        BY <1>2, <1>4, <3>5
      <4>2. Contents(writeBuf') = rest /\ wire = Bytes(0, asked)
        <5>1. wire \o <<>> = wire /\ <<>> \o rest = rest
          BY <1>1, <2>1, ConcatEmptySeq
        <5> QED
          BY <3>1, <3>2, <4>1, <5>1
      <4>3. (wire \o first) \o rest = wire \o (first \o rest)
        <5>1. wire \in Seq(Nat) /\ first \in Seq(Nat) /\ rest \in Seq(Nat)
          BY <1>1, <2>1
        <5> QED
          BY <5>1, ConcatAssociative
      <4> QED
        BY <2>1, <2>2, <3>3, <4>2, <4>3
    <3>6. n = 0 \/ n > 0
      BY <1>1, <1>4
    <3> QED
      BY <3>4, <3>5, <3>6
  <2> QED
    BY <2>4, <2>5, <2>6, <2>7, <2>8 DEF OutputInv
<1> QED
  BY <1>1, <1>3, <1>4, SendInLoopEffect DEF bytes

\* handleWrite.
LEMMA HandleWriteKeeps ==
    ASSUME OutputInv, HandleWrite PROVE OutputInv'
<1>1. /\ TypeInv /\ wire \in Seq(Nat) /\ room \in Nat /\ asked \in Nat /\ process = "runs"
      /\ turn' \in {"loop", "read"} /\ lateSends \in 0..MaxLate
      /\ UNCHANGED <<assertsOn, state, lateSends, toRun, registered, reading>>
  BY BoundAssumption, RoomAssumption
  DEF OutputInv, TypeInv, TypeOK, HandleWrite, InLoop, threadVars
<1>2. /\ Contents(writeBuf) \in Seq(Nat) /\ Size(writeBuf) \in Nat
      /\ Len(Contents(writeBuf)) = Size(writeBuf) /\ writeBuf.bg \in Nat
  BY <1>1, ContentsOfBuffer DEF TypeInv, Buffers
<1>3. CASE Killed
  BY <1>1, <1>3, KilledKeeps
<1>4. ASSUME NEW n \in 0..Size(writeBuf), n <= room, Write(ToWrite, n),
             ToWrite \in Seq(Nat), Len(ToWrite) = Size(writeBuf),
             writeBuf.bg = 0 => ToWrite = Contents(writeBuf),
             writeBuf' \in Buffers(Nat),
             Contents(writeBuf') = SubSeq(Contents(writeBuf), n + 1, Size(writeBuf)),
             Size(writeBuf') = Size(writeBuf) - n, writing', sockError' = FALSE,
             rewound' = (rewound \/ (n > 0 /\ writeBuf.bg > 0)),
             UNCHANGED <<process, shut, ended, reset, asked>>
      PROVE  OutputInv'
  <2> DEFINE first == SubSeq(ToWrite, 1, n)
  <2>1. first \in Seq(Nat) /\ Len(first) = n
    BY <1>4, CutInTwo
  <2>2. wire' = wire \o first /\ room' = room - n
    BY <1>4 DEF Write
  <2>3. wire' \in Seq(Nat) /\ Len(wire') = Len(wire) + n /\ Len(wire) \in Nat
    BY <1>1, <2>1, <2>2, ConcatProperties, LenProperties
  <2>4. TypeInv'
    <3>1. room' \in 0..SocketRoom
      BY <1>1, <1>4, <2>2, RoomAssumption DEF TypeInv, TypeOK
    <3>2. writeBuf'.data \in Seq(Nat) /\ WellFormed(writeBuf')
      BY <1>4 DEF Buffers
    <3>3. writing' \in BOOLEAN /\ rewound' \in BOOLEAN
      <4>1. writing' = TRUE
        BY <1>4
      <4> QED
        BY <1>1, <1>4, <4>1 DEF TypeInv, TypeOK
    <3> QED
      BY <1>1, <1>4, <2>3, <3>1, <3>2, <3>3 DEF TypeInv, TypeOK, WellFormed
  <2>5. CountInv'
    BY <1>1, <1>2, <1>4, <2>3 DEF OutputInv, CountInv
  <2>6. RestIsKept'
    <3> DEFINE w == Len(wire)
               size == Size(writeBuf)
    <3>1. /\ w \in Nat /\ size \in Nat /\ asked = w + size /\ n \in 0..size /\ asked \in Nat
      BY <1>1, <1>2, <1>4, <2>3 DEF OutputInv, CountInv
    <3>2. Contents(writeBuf) = Bytes(w, size)
      <4>1. asked - w = size
        BY <3>1
      <4>2. Contents(writeBuf) = Bytes(w, asked - w)
        BY DEF OutputInv, RestIsKept
      <4> QED
        BY <4>1, <4>2
    <3>3. Contents(writeBuf') = SubSeq(Contents(writeBuf), n + 1, size)
      BY <1>4
    <3>4. Len(wire') = w + n /\ asked' = w + size
      BY <1>4, <2>3, <3>1
    <3> HIDE DEF w, size
    <3>5. asked' - Len(wire') = size - n
      BY <3>1, <3>4
    <3>6. SubSeq(Bytes(w, size), n + 1, size) = Bytes(w + n, size - n)
      BY <3>1, BytesBehind
    <3>7. Contents(writeBuf') = Bytes(Len(wire'), asked' - Len(wire'))
      BY <3>2, <3>3, <3>4, <3>5, <3>6
    <3> QED
      BY <3>7 DEF RestIsKept
  <2>7. PendingIsWatched'
    BY <1>4 DEF PendingIsWatched
  <2>8. InOrderUntilRewound'
    <3> SUFFICES ASSUME ~rewound' PROVE wire' \o Contents(writeBuf') = Bytes(0, asked')
      BY DEF InOrderUntilRewound
    <3>0. ~rewound /\ ~(n > 0 /\ writeBuf.bg > 0)
      BY <1>4
    <3>1. wire \o Contents(writeBuf) = Bytes(0, asked) /\ (n = 0 \/ writeBuf.bg = 0)
      <4>1. wire \o Contents(writeBuf) = Bytes(0, asked)
        BY <1>1, <3>0 DEF OutputInv, InOrderUntilRewound
      <4>2. n = 0 \/ n > 0
        BY <1>2, <1>4
      <4>3. writeBuf.bg = 0 \/ writeBuf.bg > 0
        BY <1>2
      <4> QED
        BY <3>0, <4>1, <4>2, <4>3
    <3>2. first = SubSeq(Contents(writeBuf), 1, n)
      <4>1. CASE n = 0
        BY <1>2, <4>1, SubSeqEmpty
      <4>2. CASE writeBuf.bg = 0
        BY <1>4, <4>2
      <4> QED
        BY <3>1, <4>1, <4>2
    <3>3. /\ first \o Contents(writeBuf') = Contents(writeBuf)
          /\ Contents(writeBuf') \in Seq(Nat)
      <4> DEFINE c == Contents(writeBuf)
      <4>1. c \in Seq(Nat) /\ n \in 0..Len(c) /\ Len(c) = Size(writeBuf)
        BY <1>2, <1>4
      <4>2. first = SubSeq(c, 1, n) /\ Contents(writeBuf') = SubSeq(c, n + 1, Len(c))
        BY <1>4, <3>2, <4>1
      <4> HIDE DEF c, first
      <4>3. SubSeq(c, 1, n) \o SubSeq(c, n + 1, Len(c)) = c /\ SubSeq(c, n + 1, Len(c)) \in Seq(Nat)
        BY <4>1, CutInTwo
      <4> QED
        BY <4>2, <4>3 DEF c
    <3> HIDE DEF first
    <3>4. (wire \o first) \o Contents(writeBuf') = wire \o (first \o Contents(writeBuf'))
      <4>1. wire \in Seq(Nat) /\ first \in Seq(Nat) /\ Contents(writeBuf') \in Seq(Nat)
        BY <1>1, <2>1, <3>3
      <4> QED
        BY <4>1
    <3> QED
      BY <1>1, <1>4, <2>2, <3>1, <3>3, <3>4
  <2> QED
    BY <2>4, <2>5, <2>6, <2>7, <2>8 DEF OutputInv
<1> QED
  BY <1>1, <1>3, <1>4, HandleWriteEffect

\* Every step keeps the invariant.
LEMMA OutputInvariant == Spec => []OutputInv
<1>1. OutputInv /\ [Next]_vars => OutputInv'
  <2> SUFFICES ASSUME OutputInv, [Next]_vars PROVE OutputInv'
    OBVIOUS
  <2>t. TypeInv /\ TypeOK
    BY DEF OutputInv, TypeInv
  <2>1. ASSUME NEW len \in Lengths, Send(len) PROVE OutputInv'
    BY <2>t, <2>1, SendKeeps DEF Send, InLoop, threadVars, TypeOK
  <2>2. ASSUME NEW len \in Lengths, LateSend(len) PROVE OutputInv'
    <3>1. lateSends' \in 0..MaxLate
      BY <2>t, <2>2, BoundAssumption DEF LateSend, TypeOK
    <3> QED
      BY <2>2, <3>1, SendKeeps DEF LateSend, InLoop
  <2>3. CASE HandleWrite
    BY <2>3, HandleWriteKeeps
  <2>4. CASE LateSendTests
    <3>1. TypeInv'
      BY <2>t, <2>4, BoundAssumption
      DEF LateSendTests, TypeInv, TypeOK, threadVars, channelVars, bufferVars, socketVars, streamVars
    <3> QED
      BY <2>4, <3>1, OthersKeep
      DEF LateSendTests, threadVars, channelVars, bufferVars, socketVars, streamVars
  <2>5. CASE HandleWriteAborts
    <3>1. TypeInv'
      BY <2>t, <2>5
      DEF HandleWriteAborts, TypeInv, TypeOK, threadVars, channelVars, bufferVars, socketVars, streamVars
    <3> QED
      BY <2>5, <3>1, OthersKeep
      DEF HandleWriteAborts, threadVars, channelVars, bufferVars, socketVars, streamVars
  <2>6. CASE HandleRead
    <3>1. TypeInv'
      BY <2>t, <2>6
      DEF HandleRead, HandleClose, TypeInv, TypeOK, threadVars, channelVars, bufferVars, socketVars, streamVars
    <3> QED
      BY <2>6, <3>1, OthersKeep
      DEF HandleRead, HandleClose, threadVars, channelVars, bufferVars, socketVars, streamVars
  <2>7. CASE Shutdown
    <3>1. TypeInv'
      BY <2>t, <2>7
      DEF Shutdown, TypeInv, TypeOK, threadVars, channelVars, bufferVars, socketVars, streamVars
    <3> QED
      BY <2>7, <3>1, OthersKeep
      DEF Shutdown, threadVars, channelVars, bufferVars, socketVars, streamVars
  <2>8. CASE ShutdownInLoop
    <3>1. TypeInv'
      BY <2>t, <2>8
      DEF ShutdownInLoop, TypeInv, TypeOK, threadVars, channelVars, bufferVars, socketVars, streamVars
    <3> QED
      BY <2>8, <3>1, OthersKeep
      DEF ShutdownInLoop, threadVars, channelVars, bufferVars, socketVars, streamVars
  <2>9. CASE ForceClose
    <3>1. TypeInv'
      BY <2>t, <2>9
      DEF ForceClose, TypeInv, TypeOK, threadVars, channelVars, bufferVars, socketVars, streamVars
    <3> QED
      BY <2>9, <3>1, OthersKeep
      DEF ForceClose, threadVars, channelVars, bufferVars, socketVars, streamVars
  <2>10. CASE ForceCloseInLoop
    <3>1. /\ state' \in {"Connected", "DisConnecting", "DisConnected"}
          /\ reading' \in BOOLEAN /\ writing' \in BOOLEAN
          /\ toRun' \subseteq toRun /\ registered' \in BOOLEAN
      BY <2>t, <2>10 DEF ForceCloseInLoop, HandleClose, TypeOK
    <3>2. /\ UNCHANGED <<assertsOn, process, lateSends, turn, writeBuf>>
          /\ UNCHANGED <<socketVars, streamVars>>
      BY <2>10 DEF ForceCloseInLoop
    <3>3. TypeInv'
      BY <2>t, <3>1, <3>2 DEF TypeInv, TypeOK, WellFormed, socketVars, streamVars
    <3> QED
      BY <2>10, <3>3, OthersKeep
      DEF ForceCloseInLoop, HandleClose, threadVars, channelVars, bufferVars, socketVars, streamVars
  <2>11. CASE ConnectDestroyed
    <3>1. /\ state' \in {"Connected", "DisConnecting", "DisConnected"}
          /\ reading' \in BOOLEAN /\ writing' \in BOOLEAN
          /\ toRun' \subseteq toRun /\ registered' \in BOOLEAN
      BY <2>t, <2>11 DEF ConnectDestroyed, HandleClose, TypeOK
    <3>2. /\ UNCHANGED <<assertsOn, process, lateSends, turn, writeBuf>>
          /\ UNCHANGED <<socketVars, streamVars>>
      BY <2>11 DEF ConnectDestroyed
    <3>3. TypeInv'
      BY <2>t, <3>1, <3>2 DEF TypeInv, TypeOK, WellFormed, socketVars, streamVars
    <3> QED
      BY <2>11, <3>3, OthersKeep
      DEF ConnectDestroyed, HandleClose, threadVars, channelVars, bufferVars, socketVars, streamVars
  <2>12. CASE PeerReads
    <3>1. TypeInv'
      BY <2>t, <2>12, RoomAssumption
      DEF PeerReads, TypeInv, TypeOK, threadVars, channelVars, bufferVars, socketVars, streamVars
    <3> QED
      BY <2>12, <3>1, OthersKeep
      DEF PeerReads, threadVars, channelVars, bufferVars, socketVars, streamVars
  <2>13. CASE PeerEnds
    <3>1. TypeInv'
      BY <2>t, <2>13
      DEF PeerEnds, TypeInv, TypeOK, threadVars, channelVars, bufferVars, socketVars, streamVars
    <3> QED
      BY <2>13, <3>1, OthersKeep
      DEF PeerEnds, threadVars, channelVars, bufferVars, socketVars, streamVars
  <2>14. CASE PeerResets
    <3>1. TypeInv'
      BY <2>t, <2>14
      DEF PeerResets, TypeInv, TypeOK, threadVars, channelVars, bufferVars, socketVars, streamVars
    <3> QED
      BY <2>14, <3>1, OthersKeep
      DEF PeerResets, threadVars, channelVars, bufferVars, socketVars, streamVars
  <2>15. CASE UNCHANGED vars
    <3>1. TypeInv'
      BY <2>t, <2>15
      DEF vars, TypeInv, TypeOK, threadVars, channelVars, bufferVars, socketVars, streamVars
    <3> QED
      BY <2>15, <3>1, OthersKeep
      DEF vars, threadVars, channelVars, bufferVars, socketVars, streamVars
  <2> QED
    BY <2>1, <2>2, <2>3, <2>4, <2>5, <2>6, <2>7, <2>8, <2>9, <2>10, <2>11, <2>12, <2>13, <2>14, <2>15
    DEF Next, Dispatch
<1> QED
  BY <1>1, InitOutput, PTL DEF Spec

-----------------------------------------------------------------------------
(***************************************************************************)
(* The theorems.                                                           *)
(***************************************************************************)

\* Type correctness.
THEOREM TypeCorrect == Spec => []TypeOK
<1>1. OutputInv => TypeOK
  BY DEF OutputInv, TypeInv
<1> QED
  BY <1>1, OutputInvariant, PTL

\* What waits in writeBuf is what sendInLoop got (TcpConn.cpp:140) without the bytes
\* that a write was said to have taken (TcpConn.cpp:118, Buffer.cpp:78), in order.
THEOREM RestStaysInBuffer == Spec => []RestIsKept
<1>1. OutputInv => RestIsKept
  BY DEF OutputInv
<1> QED
  BY <1>1, OutputInvariant, PTL

\* What waits in the writeBuf of a connection that was not closed has EPOLLOUT
\* watched.
THEOREM PendingStaysWatched == Spec => []PendingIsWatched
<1>1. OutputInv => PendingIsWatched
  BY DEF OutputInv
<1> QED
  BY <1>1, OutputInvariant, PTL

\* The order of the stream, until handleWrite writes from the vector's begin with
\* bg moved.
THEOREM OrderUntilRewound == Spec => []InOrderUntilRewound
<1>1. OutputInv => InOrderUntilRewound
  BY DEF OutputInv
<1> QED
  BY <1>1, OutputInvariant, PTL
=============================================================================
