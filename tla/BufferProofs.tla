---------------------------- MODULE BufferProofs -----------------------------
(***************************************************************************)
(* What the operations of net::Buffer do to the bytes it holds, for any    *)
(* bytes and any capacities: the facts the theorems about a connection's   *)
(* input and output rest on.                                               *)
(***************************************************************************)
EXTENDS Buffer, SequenceFacts

\* A buffer of bytes of S in which bg, ed and the vector agree.
Buffers(S) == {b \in [data : Seq(S), bg : Nat, ed : Nat, cap : Nat] : WellFormed(b)}

-----------------------------------------------------------------------------
(***************************************************************************)
(* The buffer.                                                             *)
(***************************************************************************)

\* An empty buffer is one, and has no bytes.
LEMMA EmptyIsBuffer ==
    ASSUME NEW S
    PROVE  /\ EmptyBuffer \in Buffers(S) /\ IsEmpty(EmptyBuffer) /\ Size(EmptyBuffer) = 0
           /\ Contents(EmptyBuffer) = <<>>
<1>1. EmptyBuffer \in Buffers(S)
  BY EmptySeq DEF EmptyBuffer, Buffers, WellFormed
<1>2. Contents(EmptyBuffer) = <<>>
  BY SubSeqEmpty DEF Contents, EmptyBuffer
<1> QED
  BY <1>1, <1>2 DEF EmptyBuffer, IsEmpty, Size

\* size() is the number of bytes there are.
LEMMA ContentsOfBuffer ==
    ASSUME NEW S, NEW b \in Buffers(S)
    PROVE  /\ Contents(b) \in Seq(S) /\ Len(Contents(b)) = Size(b) /\ Size(b) \in Nat
           /\ Size(b) <= Len(b.data) /\ Len(b.data) \in Nat
           /\ IsEmpty(b) => Contents(b) = <<>>
           /\ b.bg = 0 => Contents(b) = b.data
<1>1. /\ b.data \in Seq(S) /\ b.bg \in Nat /\ b.ed \in Nat /\ b.bg <= b.ed /\ b.ed = Len(b.data)
  BY DEF Buffers, WellFormed
<1>2. b.bg \in 0..Len(b.data)
  BY <1>1
<1>3. Contents(b) \in Seq(S) /\ Len(Contents(b)) = Size(b)
  BY <1>1, <1>2, CutInTwo DEF Contents, Size
<1>4. Size(b) \in Nat /\ Size(b) <= Len(b.data)
  BY <1>1 DEF Size
<1>5. IsEmpty(b) => Contents(b) = <<>>
  BY <1>3, EmptySeq DEF IsEmpty
<1>6. b.bg = 0 => Contents(b) = b.data
  BY <1>1, SubSeqFull DEF Contents
<1> QED
  BY <1>1, <1>3, <1>4, <1>5, <1>6

\* Appending to the vector appends to the bytes, and the vector is one again.
LEMMA AppendedBuffer ==
    ASSUME NEW S, NEW b \in Buffers(S), NEW bytes \in Seq(S), NEW cap \in Nat,
           Len(b.data) + Len(bytes) <= cap
    PROVE  /\ Appended(b, bytes, cap) \in Buffers(S)
           /\ Contents(Appended(b, bytes, cap)) = Contents(b) \o bytes
<1>1. /\ b.data \in Seq(S) /\ b.bg \in Nat /\ b.ed \in Nat /\ b.bg <= b.ed /\ b.ed = Len(b.data)
      /\ Len(bytes) \in Nat
  BY LenProperties DEF Buffers, WellFormed
<1>2. b.data \o bytes \in Seq(S) /\ Len(b.data \o bytes) = Len(b.data) + Len(bytes)
  BY <1>1, ConcatProperties
<1>3. Appended(b, bytes, cap) \in Buffers(S)
  BY <1>1, <1>2 DEF Appended, Buffers, WellFormed
<1>4. /\ Contents(Appended(b, bytes, cap)) = SubSeq(b.data \o bytes, b.bg + 1, b.ed + Len(bytes))
      /\ Contents(b) = SubSeq(b.data, b.bg + 1, b.ed)
  BY DEF Appended, Contents
<1>5. CASE b.bg < Len(b.data)
  <2>1. SubSeq(b.data \o bytes, b.bg + 1, Len(b.data) + Len(bytes))
            = SubSeq(b.data, b.bg + 1, Len(b.data)) \o bytes
    BY <1>1, <1>5, BehindIsOutside
  <2> QED
    BY <1>1, <1>3, <1>4, <2>1
<1>6. CASE b.bg = Len(b.data)
  <2>1. Contents(b) = <<>>
    BY <1>1, <1>4, <1>6, SubSeqEmpty
  <2>2. SubSeq(b.data \o bytes, Len(b.data) + 1, Len(b.data) + Len(bytes)) = bytes
    <3>1. CASE Len(bytes) = 0
      <4>1. bytes = <<>>
        BY <3>1, EmptySeq
      <4>2. /\ Len(b.data) + 1 \in Int /\ Len(b.data) + Len(bytes) \in Int
            /\ Len(b.data) + Len(bytes) < Len(b.data) + 1
        BY <1>1, <3>1
      <4> QED
        BY <4>1, <4>2, SubSeqEmpty
    <3>2. CASE Len(bytes) > 0
      <4>1. /\ Len(b.data) + 1 \in (Len(b.data) + 1)..(Len(b.data) + Len(bytes))
            /\ Len(b.data) + Len(bytes) \in (Len(b.data) + 1)..(Len(b.data) + Len(bytes))
            /\ Len(b.data) + 1 - Len(b.data) = 1
            /\ Len(b.data) + Len(bytes) - Len(b.data) = Len(bytes)
        BY <1>1, <3>2
      <4>2. SubSeq(b.data \o bytes, Len(b.data) + 1, Len(b.data) + Len(bytes))
                = SubSeq(bytes, Len(b.data) + 1 - Len(b.data), Len(b.data) + Len(bytes) - Len(b.data))
        BY <1>1, <4>1, SubSeqOfConcat2
      <4> QED
        BY <4>1, <4>2, SubSeqFull
    <3>3. Len(bytes) = 0 \/ Len(bytes) > 0
      BY <1>1
    <3> QED
      BY <3>1, <3>2, <3>3
  <2>3. <<>> \o bytes = bytes
    BY ConcatEmptySeq
  <2> QED
    BY <1>1, <1>3, <1>4, <1>6, <2>1, <2>2, <2>3
<1> QED
  BY <1>1, <1>5, <1>6

\* Moving the data to the front keeps it.
LEMMA MovedBuffer ==
    ASSUME NEW S, NEW b \in Buffers(S)
    PROVE  /\ MovedForward(b) \in Buffers(S)
           /\ Contents(MovedForward(b)) = Contents(b)
           /\ Len(MovedForward(b).data) = Size(b)
<1>1. /\ Contents(b) \in Seq(S) /\ Len(Contents(b)) = Size(b) /\ Size(b) \in Nat
      /\ Size(b) <= Len(b.data) /\ Len(b.data) \in Nat
  BY ContentsOfBuffer
<1>2. b.cap \in Nat /\ b.ed <= b.cap /\ b.ed = Len(b.data)
  BY DEF Buffers, WellFormed
<1>3. MovedForward(b) \in Buffers(S)
  BY <1>1, <1>2 DEF MovedForward, Buffers, WellFormed
<1>4. MovedForward(b).bg = 0 /\ MovedForward(b).data = Contents(b)
  BY DEF MovedForward
<1> QED
  BY <1>1, <1>3, <1>4, ContentsOfBuffer

\* writeIn puts the new bytes behind those that are there, whether the data moves,
\* the vector grows, or neither.
LEMMA WriteInAppends ==
    ASSUME NEW S, NEW b \in Buffers(S), NEW bytes \in Seq(S), NEW cap \in Nat,
           AllowedCapacity(b, bytes, cap)
    PROVE  /\ WriteIn(b, bytes, cap) \in Buffers(S)
           /\ Contents(WriteIn(b, bytes, cap)) = Contents(b) \o bytes
           /\ Size(WriteIn(b, bytes, cap)) = Size(b) + Len(bytes)
<1>1. b.cap \in Nat /\ Len(bytes) \in Nat /\ Len(b.data) \in Nat /\ Size(b) \in Nat
  BY LenProperties, ContentsOfBuffer DEF Buffers
<1>2. /\ WriteIn(b, bytes, cap) \in Buffers(S)
      /\ Contents(WriteIn(b, bytes, cap)) = Contents(b) \o bytes
  <2>1. CASE MovesForward(b, Len(bytes))
    <3>1. Size(b) + Len(bytes) <= cap
      BY <1>1, <2>1 DEF AllowedCapacity
    <3>2. /\ MovedForward(b) \in Buffers(S) /\ Contents(MovedForward(b)) = Contents(b)
          /\ Len(MovedForward(b).data) + Len(bytes) <= cap
      BY <3>1, MovedBuffer
    <3>3. WriteIn(b, bytes, cap) = Appended(MovedForward(b), bytes, cap)
      BY <2>1 DEF WriteIn
    <3> QED
      BY <3>2, <3>3, AppendedBuffer
  <2>2. CASE ~MovesForward(b, Len(bytes))
    <3>1. Len(b.data) + Len(bytes) <= cap
      BY <1>1, <2>2 DEF AllowedCapacity, Holds
    <3>2. WriteIn(b, bytes, cap) = Appended(b, bytes, cap)
      BY <2>2 DEF WriteIn
    <3> QED
      BY <3>1, <3>2, AppendedBuffer
  <2> QED
    BY <2>1, <2>2
<1>3. Len(Contents(WriteIn(b, bytes, cap))) = Size(WriteIn(b, bytes, cap))
  BY <1>2, ContentsOfBuffer
<1>4. Contents(b) \in Seq(S) /\ Len(Contents(b)) = Size(b)
  BY ContentsOfBuffer
<1>5. Len(Contents(b) \o bytes) = Size(b) + Len(bytes)
  BY <1>4, ConcatProperties
<1> QED
  BY <1>2, <1>3, <1>5

\* Consuming n of the bytes leaves the others, in their order.
LEMMA ConsumeTakes ==
    ASSUME NEW S, NEW b \in Buffers(S), NEW n \in 0..Size(b)
    PROVE  /\ Consume(b, n) \in Buffers(S)
           /\ Contents(Consume(b, n)) = SubSeq(Contents(b), n + 1, Size(b))
           /\ Size(Consume(b, n)) = Size(b) - n
           /\ SubSeq(Contents(b), 1, n) \o Contents(Consume(b, n)) = Contents(b)
<1>1. /\ b \in [data : Seq(S), bg : Nat, ed : Nat, cap : Nat]
      /\ b.data \in Seq(S) /\ b.bg \in Nat /\ b.ed \in Nat /\ b.bg <= b.ed /\ b.ed = Len(b.data)
      /\ b.ed <= b.cap
  BY DEF Buffers, WellFormed
<1>2. /\ Consume(b, n) = [b EXCEPT !.bg = b.bg + n]
      /\ b.bg + n \in Nat /\ b.bg + n <= b.ed
  BY <1>1 DEF Consume, Size
<1>3. Consume(b, n) \in Buffers(S) /\ Size(Consume(b, n)) = Size(b) - n
  BY <1>1, <1>2 DEF Buffers, WellFormed, Size
<1>4. Contents(Consume(b, n)) = SubSeq(b.data, b.bg + n + 1, b.ed)
  BY <1>1, <1>2 DEF Contents
<1>5. Contents(b) \in Seq(S) /\ Len(Contents(b)) = Size(b) /\ Size(b) \in Nat
  BY ContentsOfBuffer
<1>6. Contents(Consume(b, n)) = SubSeq(Contents(b), n + 1, Size(b))
  <2>1. CASE n = Size(b)
    <3>1. b.bg + n + 1 > b.ed /\ n + 1 > Size(b)
      BY <1>1, <2>1 DEF Size
    <3> QED
      BY <1>1, <1>4, <1>5, <3>1, SubSeqEmpty
  <2>2. CASE n # Size(b)
    <3> DEFINE lo == b.bg + 1
               hi == b.ed
    <3>1. /\ lo \in 1..Len(b.data) /\ hi \in 1..Len(b.data)
          /\ n + 1 \in 1..(hi - lo + 1) /\ Size(b) \in 1..(hi - lo + 1)
          /\ lo + (n + 1) - 1 = b.bg + n + 1 /\ lo + Size(b) - 1 = b.ed
      BY <1>1, <1>5, <2>2 DEF Size
    <3> HIDE DEF lo, hi
    <3>2. \A i, j \in 1..(hi - lo + 1) :
              SubSeq(SubSeq(b.data, lo, hi), i, j) = SubSeq(b.data, lo + i - 1, lo + j - 1)
      <4>1. SubSeq(b.data, lo, hi) \in Seq(S) /\ b.data \in Seq(S)
        BY <1>1, <1>5 DEF Contents, lo, hi
      <4> QED
        BY <3>1, <4>1, SubSeqOfSubSeq
    <3> QED
      BY <1>4, <3>1, <3>2 DEF Contents, lo, hi
  <2> QED
    BY <2>1, <2>2
<1>7. SubSeq(Contents(b), 1, n) \o SubSeq(Contents(b), n + 1, Size(b)) = Contents(b)
  BY <1>5, CutInTwo
<1> QED
  BY <1>3, <1>6, <1>7
=============================================================================
