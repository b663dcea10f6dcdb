----------------------------- MODULE ByteQueue ------------------------------
(***************************************************************************)
(* What a Buffer is for its users: a queue of bytes.  Bytes come out in    *)
(* the order they went in, each of them once.                              *)
(***************************************************************************)
EXTENDS Naturals, Sequences

CONSTANT Byte           \* the values of a byte

VARIABLE contents       \* the bytes in the queue, oldest first

Init == contents = <<>>

Put ==
    /\ contents' \in Seq(Byte)
    /\ Len(contents) <= Len(contents')
    /\ SubSeq(contents', 1, Len(contents)) = contents

Take(n) == contents' = SubSeq(contents, n + 1, Len(contents))

Next == Put \/ \E n \in 0..Len(contents) : Take(n)

Spec == Init /\ [][Next]_contents
=============================================================================
