------------------------------ MODULE ByteQueue ------------------------------
(****************************************************************************)
(* What a RingBuffer promises its two users: a queue of bytes without a     *)
(* limit.  The writer offers a block and it is appended as it is; the       *)
(* reader takes a block and gets the oldest bytes, in order, once.          *)
(****************************************************************************)
EXTENDS Naturals, Sequences

CONSTANT Byte

VARIABLES q,    \* bytes stored and not yet taken
          in,   \* the block being put, empty when the writer is not in put()
          out   \* the block the reader took last

vars == <<q, in, out>>

Init == q = <<>> /\ in = <<>> /\ out = <<>>

Offer ==
    /\ in = <<>>
    /\ in' \in Seq(Byte)
    /\ UNCHANGED <<q, out>>

Put ==
    /\ q' = q \o in
    /\ in' = <<>>
    /\ UNCHANGED out

Take ==
    /\ \E k \in 1..Len(q) :
        /\ out' = SubSeq(q, 1, k)
        /\ q' = SubSeq(q, k + 1, Len(q))
    /\ UNCHANGED in

Next == Offer \/ Put \/ Take

Spec == Init /\ [][Next]_vars

=============================================================================
