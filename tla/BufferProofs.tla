---------------------------- MODULE BufferProofs ----------------------------
(***************************************************************************)
(* Proofs about Buffer, for every size of the vector, prefix and append:   *)
(* the indices stay inside the vector, and each operation is the one on a  *)
(* queue of bytes that its callers take it for.                            *)
(***************************************************************************)
EXTENDS Buffer, TLAPS

LEMMA StringFacts ==
  ASSUME NEW s \in Strings
  PROVE  /\ s \in Seq(Byte) /\ Len(s) \in Nat /\ DOMAIN s = 1..Len(s)
         /\ \A i \in 1..Len(s) : s[i] \in Byte
<1>1. PICK len \in 0..MaxLen : s \in [1..len -> Byte]
  BY DEF Strings
<1>2. len \in Nat
  BY SizeAssumption
<1> QED
  BY <1>1, <1>2

LEMMA TypeInit == ASSUME Init PROVE TypeOK
BY ByteAssumption, SizeAssumption DEF Init, TypeOK

\* The vector after a copy that ends inside it.
LEMMA CopiedType ==
  ASSUME NEW n \in Nat, NEW at \in Nat, NEW s \in Strings,
         NEW k \in Nat, NEW m \in [0..(k - 1) -> Byte]
  PROVE  Copied(m, n, at, s) \in [0..(n - 1) -> Byte]
BY StringFacts, ByteAssumption DEF Copied

LEMMA CompactedType ==
  ASSUME TypeOK PROVE Compacted \in [0..(size - 1) -> Byte]
BY SizeAssumption DEF TypeOK, Compacted, readablebytes

LEMMA TypeNext == ASSUME TypeOK, [Next]_vars PROVE TypeOK'
<1>1. ASSUME NEW s \in Strings, AppendFits(s) PROVE TypeOK'
  <2>1. buffer' \in [0..(size - 1) -> Byte]
    BY <1>1, CopiedType DEF TypeOK, AppendFits
  <2> QED
    BY <1>1, <2>1, StringFacts DEF TypeOK, AppendFits, writablebytes
<1>2. ASSUME NEW s \in Strings, AppendCompacts(s) PROVE TypeOK'
  <2>1. MovedEnd \in Nat /\ kPrePendIndex \in Nat
    BY SizeAssumption DEF TypeOK, MovedEnd, readablebytes
  <2>2. buffer' \in [0..(size - 1) -> Byte]
    BY <1>2, <2>1, CopiedType, CompactedType DEF TypeOK, AppendCompacts
  <2> QED
    BY <1>2, <2>1, <2>2, StringFacts
       DEF TypeOK, AppendCompacts, Compactable, MovedEnd, writablebytes,
           readablebytes, prependablebytes
<1>3. ASSUME NEW s \in Strings, AppendGrows(s) PROVE TypeOK'
  <2>1. size' \in Nat /\ buffer' \in [0..(size' - 1) -> Byte]
    BY <1>3, CopiedType, StringFacts DEF TypeOK, AppendGrows
  <2> QED
    BY <1>3, <2>1, StringFacts DEF TypeOK, AppendGrows
<1>4. ASSUME NEW len \in 0..readablebytes, Retrieve(len) PROVE TypeOK'
  <2>1. /\ len \in Nat /\ len <= write_index - read_index
        /\ read_index' = read_index + len
        /\ UNCHANGED <<size, buffer, write_index>>
    BY <1>4 DEF TypeOK, Retrieve, readablebytes
  <2> QED
    BY <2>1, SizeAssumption DEF TypeOK
<1>5. ASSUME RetrieveAll PROVE TypeOK'
  BY <1>5, SizeAssumption DEF TypeOK, RetrieveAll
<1>6. CASE UNCHANGED vars
  BY <1>6 DEF vars, TypeOK
<1> QED
  BY <1>1, <1>2, <1>3, <1>4, <1>5, <1>6 DEF Next, AppendBytes

\* The indices never cross, leave the vector or enter the reserved prefix.
THEOREM Typing == Spec => []TypeOK
BY TypeInit, TypeNext, PTL DEF Spec
-----------------------------------------------------------------------------
(* Each operation on what the users see *)

LEMMA ReadableFacts ==
  ASSUME TypeOK
  PROVE  /\ readablebytes \in Nat /\ Readable \in Seq(Byte)
         /\ Len(Readable) = readablebytes
         /\ \A i \in 1..readablebytes : Readable[i] = buffer[read_index + i - 1]
<1>1. readablebytes \in Nat
  BY DEF TypeOK, readablebytes
<1>2. \A i \in 1..readablebytes : buffer[read_index + i - 1] \in Byte
  BY SizeAssumption DEF TypeOK, readablebytes
<1> QED
  BY <1>1, <1>2 DEF Readable

\* Two sequences with the same entries are the same.
LEMMA SameEntries ==
  ASSUME NEW S, NEW s \in Seq(S), NEW t \in Seq(S), Len(s) = Len(t),
         \A i \in 1..Len(s) : s[i] = t[i]
  PROVE  s = t
OBVIOUS

LEMMA ConcatEntries ==
  ASSUME NEW S, NEW q \in Seq(S), NEW s \in Seq(S), NEW n, Len(q) = n
  PROVE  /\ q \o s \in Seq(S) /\ Len(q \o s) = n + Len(s)
         /\ \A i \in 1..n : (q \o s)[i] = q[i]
         /\ \A i \in 1..Len(s) : (q \o s)[n + i] = s[i]
OBVIOUS

\* What an append leaves between the indices, when it has put s behind the
\* bytes that were there.
LEMMA AppendReadable ==
  ASSUME TypeOK, TypeOK', NEW s \in Strings,
         readablebytes' = readablebytes + Len(s),
         \A i \in 1..readablebytes :
           buffer'[read_index' + i - 1] = buffer[read_index + i - 1],
         \A i \in 1..Len(s) : buffer'[read_index' + readablebytes + i - 1] = s[i]
  PROVE  Promise!Put(s)
<1> DEFINE q == Readable
           p == Readable'
<1>1. /\ readablebytes \in Nat /\ q \in Seq(Byte) /\ Len(q) = readablebytes
      /\ \A i \in 1..readablebytes : q[i] = buffer[read_index + i - 1]
  BY ReadableFacts
<1>2. /\ p \in Seq(Byte) /\ Len(p) = readablebytes'
      /\ \A i \in 1..readablebytes' : p[i] = buffer'[read_index' + i - 1]
  <2>1. (TypeOK => /\ Readable \in Seq(Byte) /\ Len(Readable) = readablebytes
                   /\ \A i \in 1..readablebytes :
                        Readable[i] = buffer[read_index + i - 1])'
    BY ReadableFacts, PTL
  <2> QED
    BY <2>1
<1>3. s \in Seq(Byte) /\ Len(s) \in Nat
  BY StringFacts
<1> HIDE DEF q, p
<1>4. /\ q \o s \in Seq(Byte) /\ Len(q \o s) = readablebytes + Len(s)
      /\ \A i \in 1..readablebytes : (q \o s)[i] = q[i]
      /\ \A i \in 1..Len(s) : (q \o s)[readablebytes + i] = s[i]
  BY <1>1, <1>3, ConcatEntries
<1>5. ASSUME NEW i \in 1..(readablebytes + Len(s)) PROVE p[i] = (q \o s)[i]
  <2>1. CASE i \in 1..readablebytes
    BY <1>1, <1>2, <1>3, <1>4, <2>1
  <2>2. CASE i \notin 1..readablebytes
    <3>1. PICK j \in 1..Len(s) : i = readablebytes + j
      <4>1. i - readablebytes \in 1..Len(s) /\ i = readablebytes + (i - readablebytes)
        BY <1>1, <1>3, <2>2
      <4> QED
        BY <4>1
    <3>2. read_index' + i - 1 = read_index' + readablebytes + j - 1
      BY <1>1, <3>1 DEF TypeOK
    <3> QED
      BY <1>2, <1>4, <3>1, <3>2
  <2> QED
    BY <2>1, <2>2
<1>6. p = q \o s
  BY <1>2, <1>4, <1>5, SameEntries
<1> QED
  BY <1>6 DEF Promise!Put, p, q

LEMMA AppendPuts ==
  ASSUME TypeOK, TypeOK', NEW s \in Strings, AppendBytes(s)
  PROVE  Promise!Put(s)
<1> USE StringFacts, SizeAssumption
    DEF TypeOK, readablebytes, writablebytes, prependablebytes
<1>1. CASE AppendFits(s)
  <2>1. readablebytes' = readablebytes + Len(s)
    BY <1>1 DEF AppendFits
  <2>2. \A i \in 1..readablebytes :
          buffer'[read_index' + i - 1] = buffer[read_index + i - 1]
    BY <1>1 DEF AppendFits, Copied
  <2>3. \A i \in 1..Len(s) : buffer'[read_index' + readablebytes + i - 1] = s[i]
    BY <1>1 DEF AppendFits, Copied
  <2> QED
    BY <2>1, <2>2, <2>3, AppendReadable
<1>2. CASE AppendCompacts(s)
  <2>1. readablebytes' = readablebytes + Len(s)
    BY <1>2 DEF AppendCompacts, MovedEnd
  <2>2. \A i \in 1..readablebytes :
          buffer'[read_index' + i - 1] = buffer[read_index + i - 1]
    <3>1. /\ read_index' = kPrePendIndex
          /\ buffer' = Copied(Compacted, size, kPrePendIndex + readablebytes, s)
          /\ kPrePendIndex + readablebytes + Len(s) <= size
      BY <1>2 DEF AppendCompacts, MovedEnd, Compactable
    <3>2. ASSUME NEW i \in 1..readablebytes
          PROVE  /\ kPrePendIndex + i - 1 \in 0..(size - 1)
                 /\ kPrePendIndex + i - 1 \in
                      kPrePendIndex..(kPrePendIndex + readablebytes - 1)
                 /\ kPrePendIndex + i - 1 \notin
                      (kPrePendIndex + readablebytes)..
                        (kPrePendIndex + readablebytes + Len(s) - 1)
                 /\ (kPrePendIndex + i - 1) - kPrePendIndex + read_index
                      = read_index + i - 1
      BY <3>1
    <3>3. \A i \in 1..readablebytes :
            Compacted[kPrePendIndex + i - 1] = buffer[read_index + i - 1]
      BY <3>2 DEF Compacted
    <3>4. DOMAIN Compacted = 0..(size - 1)
      BY DEF Compacted
    <3>5. ASSUME NEW i \in 1..readablebytes
          PROVE  buffer'[kPrePendIndex + i - 1] = Compacted[kPrePendIndex + i - 1]
      BY <3>1, <3>2, <3>4 DEF Copied
    <3> QED
      BY <3>1, <3>3, <3>5
  <2>3. \A i \in 1..Len(s) : buffer'[read_index' + readablebytes + i - 1] = s[i]
    <3>1. /\ read_index' = kPrePendIndex
          /\ buffer' = Copied(Compacted, size, kPrePendIndex + readablebytes, s)
          /\ kPrePendIndex + readablebytes + Len(s) <= size
      BY <1>2 DEF AppendCompacts, MovedEnd, Compactable
    <3>2. ASSUME NEW i \in 1..Len(s)
          PROVE  LET at == kPrePendIndex + readablebytes
                 IN  /\ at + i - 1 \in 0..(size - 1)
                     /\ at + i - 1 \in at..(at + Len(s) - 1)
                     /\ at + i - 1 - at + 1 = i
      BY <3>1
    <3> DEFINE at == kPrePendIndex + readablebytes
    <3>3. ASSUME NEW i \in 1..Len(s)
          PROVE  Copied(Compacted, size, at, s)[at + i - 1] = s[at + i - 1 - at + 1]
      BY <3>2 DEF Copied
    <3>4. ASSUME NEW i \in 1..Len(s) PROVE buffer'[at + i - 1] = s[i]
      <4>1. at + i - 1 - at + 1 = i
        BY <3>2
      <4> HIDE DEF at
      <4> QED
        BY <3>1, <3>3, <4>1 DEF at
    <3> QED
      BY <3>1, <3>4
  <2> QED
    BY <2>1, <2>2, <2>3, AppendReadable
<1>3. CASE AppendGrows(s)
  <2>1. readablebytes' = readablebytes + Len(s)
    BY <1>3 DEF AppendGrows
  <2>2. \A i \in 1..readablebytes :
          buffer'[read_index' + i - 1] = buffer[read_index + i - 1]
    BY <1>3 DEF AppendGrows, Copied
  <2>3. \A i \in 1..Len(s) : buffer'[read_index' + readablebytes + i - 1] = s[i]
    BY <1>3 DEF AppendGrows, Copied
  <2> QED
    BY <2>1, <2>2, <2>3, AppendReadable
<1> QED
  BY <1>1, <1>2, <1>3 DEF AppendBytes

LEMMA RetrieveGets ==
  ASSUME TypeOK, TypeOK', NEW len \in 0..readablebytes, Retrieve(len)
  PROVE  Promise!Get(len)
<1> DEFINE q == Readable
           p == Readable'
<1>1. /\ readablebytes \in Nat /\ q \in Seq(Byte) /\ Len(q) = readablebytes
      /\ \A i \in 1..readablebytes : q[i] = buffer[read_index + i - 1]
  BY ReadableFacts
<1>2. /\ p \in Seq(Byte) /\ Len(p) = readablebytes'
      /\ \A i \in 1..readablebytes' : p[i] = buffer'[read_index' + i - 1]
  <2>1. (TypeOK => /\ Readable \in Seq(Byte) /\ Len(Readable) = readablebytes
                   /\ \A i \in 1..readablebytes :
                        Readable[i] = buffer[read_index + i - 1])'
    BY ReadableFacts, PTL
  <2> QED
    BY <2>1
<1>3. /\ readablebytes' = readablebytes - len /\ len \in Nat
      /\ read_index' = read_index + len /\ buffer' = buffer
  BY DEF TypeOK, Retrieve, readablebytes
<1> HIDE DEF q, p
<1>4. /\ SubSeq(q, len + 1, Len(q)) \in Seq(Byte)
      /\ Len(SubSeq(q, len + 1, Len(q))) = readablebytes - len
      /\ \A i \in 1..(readablebytes - len) :
           SubSeq(q, len + 1, Len(q))[i] = q[len + i]
  BY <1>1, <1>3
<1>5. ASSUME NEW i \in 1..(readablebytes - len)
      PROVE  p[i] = SubSeq(q, len + 1, Len(q))[i]
  <2>1. /\ len + i \in 1..readablebytes
        /\ read_index' + i - 1 = read_index + (len + i) - 1
    BY <1>1, <1>3 DEF TypeOK
  <2> QED
    BY <1>1, <1>2, <1>3, <1>4, <2>1
<1>6. p = SubSeq(q, len + 1, Len(q))
  BY <1>2, <1>3, <1>4, <1>5, SameEntries
<1> QED
  BY <1>1, <1>6 DEF Promise!Get, p, q

LEMMA RetrieveAllClears ==
  ASSUME TypeOK, RetrieveAll PROVE Promise!Clear
<1>1. Readable' = [i \in 1..0 |-> buffer'[read_index' + i - 1]]
  BY SizeAssumption DEF RetrieveAll, Readable, readablebytes
<1> QED
  BY <1>1 DEF Promise!Clear
-----------------------------------------------------------------------------
\* A new Buffer is empty.
LEMMA InitEmpty == ASSUME Init PROVE Promise!Init
<1>1. Readable = [i \in 1..0 |-> buffer[read_index + i - 1]]
  BY SizeAssumption DEF Init, Readable, readablebytes
<1> QED
  BY <1>1 DEF Promise!Init

\* Operation by operation, a Buffer is the queue of bytes its users take it for,
\* however its contents are moved and its vector grown in between.
THEOREM OperationsAgree == Spec => ImplementsByteQueue
<1>1. ASSUME TypeOK, TypeOK', [Next]_vars
      PROVE  /\ \A s \in Strings : AppendBytes(s) => Promise!Put(s)
             /\ \A len \in 0..readablebytes : Retrieve(len) => Promise!Get(len)
             /\ RetrieveAll => Promise!Clear
  BY <1>1, AppendPuts, RetrieveGets, RetrieveAllClears
<1> QED
  BY <1>1, InitEmpty, Typing, PTL DEF Spec, ImplementsByteQueue

\* And so its behaviours are behaviours of a queue of bytes.
THEOREM RefinesByteQueue == Spec => Promise!Spec
<1>1. ASSUME TypeOK, TypeOK', [Next]_vars PROVE [Promise!Next]_Readable
  <2>1. CASE UNCHANGED vars
    BY <2>1 DEF vars, Readable, readablebytes
  <2>2. ASSUME NEW s \in Strings, AppendBytes(s) PROVE Promise!Next
    BY <1>1, <2>2, AppendPuts, StringFacts DEF Promise!Next
  <2>3. ASSUME NEW len \in 0..readablebytes, Retrieve(len) PROVE Promise!Next
    BY <1>1, <2>3, RetrieveGets DEF Promise!Next
  <2>4. CASE RetrieveAll
    BY <1>1, <2>4, RetrieveAllClears DEF Promise!Next
  <2> QED
    BY <1>1, <2>1, <2>2, <2>3, <2>4 DEF Next
<1> QED
  BY <1>1, InitEmpty, Typing, PTL DEF Spec, Promise!Spec
=============================================================================
