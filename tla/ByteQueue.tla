----------------------------- MODULE ByteQueue -----------------------------
(***************************************************************************)
(* What a Buffer promises its users: bytes leave it in the order they were *)
(* appended, unchanged, each once.                                         *)
(***************************************************************************)
EXTENDS Naturals, Sequences

CONSTANT Byte

VARIABLE queue

Init == queue = <<>>

Put(s) == queue' = queue \o s

Get(n) == n <= Len(queue) /\ queue' = SubSeq(queue, n + 1, Len(queue))

Clear == queue' = <<>>

Next == \/ \E s \in Seq(Byte) : Put(s)
        \/ \E n \in Nat : Get(n)
        \/ Clear

Spec == Init /\ [][Next]_queue
=============================================================================
