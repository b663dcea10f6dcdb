------------------------------- MODULE Buffer -------------------------------
(***************************************************************************)
(* The operations of net::Buffer (Ryugu/net/Buffer.{h,cpp}) on a value: a  *)
(* vector of which [bg, ed) is the data.  Consuming moves bg; writing in   *)
(* appends to the vector, after moving the data to its front when the room *)
(* behind it is too small.                                                 *)
(***************************************************************************)
EXTENDS Naturals, Sequences

\* buf.size() is the length of data, buf.capacity() is cap.
EmptyBuffer == [data |-> <<>>, bg |-> 0, ed |-> 0, cap |-> 0]

Size(b) == b.ed - b.bg
IsEmpty(b) == Size(b) = 0

\* The bytes from getPeek() to getEnd().
Contents(b) == SubSeq(b.data, b.bg + 1, b.ed)

\* Bugs a change of this code could introduce, each the mutated form of a
\* definition below: the vector keeps its tail when the data is moved to the front,
\* the data is copied from the vector's begin.
MovedWithoutResize(b) ==
    [data |-> Contents(b) \o SubSeq(b.data, Size(b) + 1, b.ed),
     bg |-> 0, ed |-> Size(b), cap |-> b.cap]
MovedFromBegin(b) ==
    [data |-> SubSeq(b.data, 1, Size(b)), bg |-> 0, ed |-> Size(b), cap |-> b.cap]

Consume(b, n) == [b EXCEPT !.bg = @ + n]

\* readOut and readOutAsString take at most what there is.
ReadOut(b, len) == Consume(b, IF len < Size(b) THEN len ELSE Size(b))

MovesForward(b, n) == b.bg # 0 /\ b.cap - Len(b.data) < n

\* std::copy to the front, bg and ed, and buf.resize(sz).
MovedForward(b) == [data |-> Contents(b), bg |-> 0, ed |-> Size(b), cap |-> b.cap]

Appended(b, bytes, cap) ==
    [data |-> b.data \o bytes, bg |-> b.bg, ed |-> b.ed + Len(bytes), cap |-> cap]

\* writeIn, and what append and writeInFromFd do with what they got.  A vector
\* that has to grow has any capacity of at least its new size afterwards.
WriteIn(b, bytes, cap) ==
    Appended(IF MovesForward(b, Len(bytes)) THEN MovedForward(b) ELSE b, bytes, cap)

Holds(b, bytes) == Len(b.data) + Len(bytes)
AllowedCapacity(b, bytes, cap) ==
    LET needed == IF MovesForward(b, Len(bytes)) THEN Size(b) + Len(bytes) ELSE Holds(b, bytes)
    IN IF needed <= b.cap THEN cap = b.cap ELSE cap >= needed

\* What the members assume of each other: all of the vector up to ed is used and
\* nothing behind it.
WellFormed(b) ==
    /\ b.bg <= b.ed
    /\ b.ed = Len(b.data)
    /\ b.ed <= b.cap
=============================================================================
