------------------------------- MODULE Buffer -------------------------------
(***************************************************************************)
(* Buffer.cpp: a vector with a read and a write index, which compacts its  *)
(* contents to the front, or grows, when an append does not fit.  It shows *)
(* its users a ByteQueue.                                                  *)
(*                                                                         *)
(* The compaction is a memcpy whose ranges may overlap (Buffer.cpp:120),   *)
(* which C++ leaves undefined.  The destination is below the source, where *)
(* the copies of the C libraries this builds with, which read each block   *)
(* before they write it and go upwards, give what memmove gives: that is   *)
(* the outcome modelled.                                                   *)
(***************************************************************************)
EXTENDS Naturals, Sequences

CONSTANTS Byte,           \* values of a char
          Zero,           \* '\0', what resize fills with
          kPrePendIndex,
          kInitialSize,
          MaxLen,         \* bound: length of an append
          MaxSize         \* bound: the vector grows to at most this

ASSUME ByteAssumption == Zero \in Byte
ASSUME SizeAssumption ==
  /\ kPrePendIndex \in Nat /\ kInitialSize \in Nat
  /\ kPrePendIndex <= kInitialSize /\ MaxLen \in Nat /\ MaxSize \in Nat

VARIABLES
  size,         \* buffer_.size()
  buffer,       \* contents of buffer_
  read_index,
  write_index

vars == <<size, buffer, read_index, write_index>>

Init ==
  /\ size = kInitialSize
  /\ buffer = [i \in 0..(kInitialSize - 1) |-> Zero]
  /\ read_index = kPrePendIndex /\ write_index = kPrePendIndex

readablebytes == write_index - read_index
writablebytes == size - write_index
prependablebytes == read_index

\* Mutant of Compactable: the reserved prefix is forgotten.
CompactableOverPrefix(len) == writablebytes + prependablebytes >= len

Compactable(len) == writablebytes + prependablebytes >= kPrePendIndex + len

\* Mutant of Compacted: the bytes are taken from begin(), not beginread().
CompactedFromBegin ==
  [i \in 0..(size - 1) |->
     IF i \in kPrePendIndex..(kPrePendIndex + readablebytes - 1)
     THEN buffer[i - kPrePendIndex] ELSE buffer[i]]

\* The contents after the move to the front.
Compacted ==
  [i \in 0..(size - 1) |->
     IF i \in kPrePendIndex..(kPrePendIndex + readablebytes - 1)
     THEN buffer[i - kPrePendIndex + read_index] ELSE buffer[i]]

\* write_index_ after it.
MovedEnd == kPrePendIndex + readablebytes

\* memcpy of s to position at of a vector of n bytes with contents m.
Copied(m, n, at, s) ==
  [i \in 0..(n - 1) |-> IF i \in at..(at + Len(s) - 1) THEN s[i - at + 1]
                        ELSE IF i \in DOMAIN m THEN m[i] ELSE Zero]

\* Append, by the three ways EnsureWritableBytes finds room for s.
AppendFits(s) ==
  /\ writablebytes >= Len(s)
  /\ buffer' = Copied(buffer, size, write_index, s)
  /\ write_index' = write_index + Len(s)
  /\ UNCHANGED <<size, read_index>>

AppendCompacts(s) ==
  /\ writablebytes < Len(s) /\ Compactable(Len(s))
  /\ buffer' = Copied(Compacted, size, MovedEnd, s)
  /\ write_index' = MovedEnd + Len(s)
  /\ read_index' = kPrePendIndex
  /\ UNCHANGED size

AppendGrows(s) ==
  /\ writablebytes < Len(s) /\ ~Compactable(Len(s))
  /\ write_index + Len(s) <= MaxSize
  /\ size' = write_index + Len(s)
  /\ buffer' = Copied(buffer, write_index + Len(s), write_index, s)
  /\ write_index' = write_index + Len(s)
  /\ UNCHANGED read_index

AppendBytes(s) == AppendFits(s) \/ AppendCompacts(s) \/ AppendGrows(s)

\* Retrieve within its assert.
Retrieve(len) ==
  /\ readablebytes >= len
  /\ read_index' = read_index + len
  /\ UNCHANGED <<size, buffer, write_index>>

RetrieveAll ==
  /\ write_index' = kPrePendIndex /\ read_index' = kPrePendIndex
  /\ UNCHANGED <<size, buffer>>

Strings == UNION {[1..len -> Byte] : len \in 0..MaxLen}

Next ==
  \/ \E s \in Strings : AppendBytes(s)
  \/ \E len \in 0..readablebytes : Retrieve(len)
  \/ RetrieveAll

Spec == Init /\ [][Next]_vars

\* The indices stay in order and inside the vector, beyond the reserved prefix.
TypeOK ==
  /\ size \in Nat
  /\ buffer \in [0..(size - 1) -> Byte]
  /\ read_index \in Nat /\ write_index \in Nat
  /\ kPrePendIndex <= read_index /\ read_index <= write_index
  /\ write_index <= size

\* The bytes between the indices.
Readable == [i \in 1..readablebytes |-> buffer[read_index + i - 1]]

Promise == INSTANCE ByteQueue WITH queue <- Readable

\* Whatever was moved, regrown or reused in between: each operation on a Buffer is
\* the same operation on a queue of bytes.
ImplementsByteQueue ==
  /\ Promise!Init
  /\ [][/\ \A s \in Strings : AppendBytes(s) => Promise!Put(s)
        /\ \A len \in 0..readablebytes : Retrieve(len) => Promise!Get(len)
        /\ RetrieveAll => Promise!Clear]_vars
=============================================================================
