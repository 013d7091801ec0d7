------------------------- MODULE AsyncLoggingProofs --------------------------
(***************************************************************************)
(* Proofs about AsyncLogging, for every set of lengths, every capacity and *)
(* every number of records and starts: no record is lost, doubled or       *)
(* reordered by the exchange of buffers.                                   *)
(*                                                                         *)
(* The argument is about the spare buffers.  Whatever is not the front     *)
(* buffer is empty or not there; so a record is in the file, in the front  *)
(* buffer or thrown away, and what follows the file's records is what the  *)
(* front buffer holds.  A spare goes away only when Append moves nxt_ over *)
(* a full front buffer, which throws records away.                         *)
(***************************************************************************)
EXTENDS AsyncLogging, SequenceTheorems, TLAPS
-----------------------------------------------------------------------------
(* The inductive invariant, part by part *)

\* A buffer that is not in use is empty, and the writer has its own at hand.
Spares ==
  /\ nxt \in {EmptyBuffer, NoBuffer} /\ new_nxt \in {EmptyBuffer, NoBuffer}
  /\ new_cur \in {EmptyBuffer, NoBuffer}
  /\ writer \in {"test", "waiting"} => new_cur = EmptyBuffer

\* A buffer without records has all of its room.
Roomy == cur.data = <<>> => cur.len = 0

Out == written \o cur.data

\* The records of s are numbered upwards, the last one no higher than n.
Upward(s, n) ==
  /\ \A i, j \in 1..Len(s) : i < j => s[i][1] < s[j][1]
  /\ \A i \in 1..Len(s) : s[i][1] <= n

\* What is written and what will be is in order, and has been appended.
Numbered == Upward(Out, appended)

\* A record is somewhere.
Kept ==
  \A n \in 1..appended :
    (\E i \in 1..Len(Out) : Out[i][1] = n) \/ \E r \in dropped : r[1] = n

\* As long as nothing is thrown away, both spares are there.
Supplied ==
  dropped = {} =>
    nxt # NoBuffer /\ ~crashed /\ (writer \in {"test", "waiting"} => new_nxt # NoBuffer)

IInv == TypeOK /\ Spares /\ Roomy /\ Numbered /\ Kept /\ Supplied
-----------------------------------------------------------------------------
(* Sequences and buffers *)

LEMMA Appended ==
  ASSUME NEW S, NEW s \in Seq(S), NEW t \in Seq(S), NEW r \in S
  PROVE  /\ s \o Append(t, r) \in Seq(S)
         /\ Len(s \o t) \in Nat /\ Len(s \o Append(t, r)) = Len(s \o t) + 1
         /\ \A i \in 1..Len(s \o t) : (s \o Append(t, r))[i] = (s \o t)[i]
         /\ (s \o Append(t, r))[Len(s \o t) + 1] = r
<1> DEFINE u == Append(t, r)
<1>1. /\ u \in Seq(S) /\ Len(u) = Len(t) + 1 /\ u[Len(t) + 1] = r
      /\ \A i \in 1..Len(t) : u[i] = t[i]
  BY AppendProperties
<1>2. Len(s) \in Nat /\ Len(t) \in Nat
  BY LenProperties
<1>3. /\ s \o t \in Seq(S) /\ Len(s \o t) = Len(s) + Len(t)
      /\ \A i \in 1..(Len(s) + Len(t)) :
           (s \o t)[i] = IF i <= Len(s) THEN s[i] ELSE t[i - Len(s)]
  BY ConcatProperties
<1> HIDE DEF u
<1>4. /\ s \o u \in Seq(S) /\ Len(s \o u) = Len(s) + Len(u)
      /\ \A i \in 1..(Len(s) + Len(u)) :
           (s \o u)[i] = IF i <= Len(s) THEN s[i] ELSE u[i - Len(s)]
  BY <1>1, ConcatProperties
<1>5. \A i \in 1..Len(s \o t) : (s \o u)[i] = (s \o t)[i]
  <2> SUFFICES ASSUME NEW i \in 1..Len(s \o t) PROVE (s \o u)[i] = (s \o t)[i]
    OBVIOUS
  <2>1. i \in 1..(Len(s) + Len(t)) /\ i \in 1..(Len(s) + Len(u))
    BY <1>1, <1>2, <1>3
  <2>2. CASE i <= Len(s)
    BY <1>3, <1>4, <2>1, <2>2
  <2>3. CASE i > Len(s)
    <3>1. i - Len(s) \in 1..Len(t)
      BY <1>2, <2>1, <2>3
    <3>2. QED
      BY <1>1, <1>2, <1>3, <1>4, <2>1, <2>3, <3>1
  <2>4. QED
    BY <1>2, <2>1, <2>2, <2>3
<1>6. (s \o u)[Len(s \o t) + 1] = r
  <2>1. Len(s) + Len(t) + 1 \in 1..(Len(s) + Len(u))
    BY <1>1, <1>2
  <2>2. (s \o u)[Len(s) + Len(t) + 1] = u[Len(s) + Len(t) + 1 - Len(s)]
    BY <1>2, <1>4, <2>1
  <2>3. Len(s) + Len(t) + 1 - Len(s) = Len(t) + 1
    BY <1>2
  <2>4. QED
    BY <1>1, <1>3, <2>2, <2>3
<1>7. QED
  BY <1>1, <1>2, <1>3, <1>4, <1>5, <1>6 DEF u

LEMMA EmptyType ==
  /\ EmptyBuffer \in Buffers /\ EmptyBuffer # NoBuffer /\ EmptyBuffer.len = 0
  /\ EmptyBuffer.data = <<>> /\ <<>> \in Seq(Records)
<1>1. <<>> \in Seq(Records)
  BY EmptySeq
<1>2. EmptyBuffer \in Buffers /\ EmptyBuffer.len = 0 /\ EmptyBuffer.data = <<>>
  BY <1>1 DEF EmptyBuffer, Buffers
<1>3. QED
  BY <1>1, <1>2, NoBufferAssumption DEF NoBufferAssumption

LEMMA BufferType ==
  ASSUME NEW b \in Buffers
  PROVE  b.data \in Seq(Records) /\ b.len \in Nat
BY DEF Buffers

LEMMA PutType ==
  ASSUME NEW b \in Buffers, NEW r \in Records
  PROVE  /\ Put(b, r) \in Buffers
         /\ Put(b, r).data = Append(b.data, r) /\ Put(b, r).len = b.len + r[2]
         /\ Append(b.data, r) # <<>>
<1>1. b.data \in Seq(Records) /\ b.len \in Nat
  BY DEF Buffers
<1>2. r[2] \in Nat
  BY SizeAssumption DEF Records, SizeAssumption
<1>3. Append(b.data, r) \in Seq(Records) /\ Append(b.data, r) # <<>>
  BY <1>1, AppendProperties
<1>4. QED
  BY <1>1, <1>2, <1>3 DEF Put, Buffers

LEMMA UpwardAppend ==
  ASSUME NEW s \in Seq(Records), NEW t \in Seq(Records), NEW n \in Nat,
         NEW r \in Records, r[1] = n + 1, Upward(s \o t, n)
  PROVE  Upward(s \o Append(t, r), n + 1)
<1> DEFINE old == s \o t
           new == s \o Append(t, r)
           k == Len(old)
<1>1. /\ k \in Nat /\ Len(new) = k + 1 /\ new[k + 1] = r
      /\ \A i \in 1..k : new[i] = old[i]
  BY Appended
<1>2. \A i \in 1..k : old[i][1] \in Nat /\ old[i][1] <= n
  <2>1. old \in Seq(Records)
    BY ConcatProperties
  <2>2. \A i \in 1..k : old[i] \in Records
    <3> HIDE DEF old
    <3> QED
      BY <2>1, ElementOfSeq
  <2>3. QED
    BY <2>2 DEF Upward, Records
<1>3. \A i, j \in 1..k : i < j => old[i][1] < old[j][1]
  BY DEF Upward
<1> HIDE DEF old, new, k
<1>4. \A i \in 1..Len(new) : new[i][1] <= n + 1
  BY <1>1, <1>2
<1>5. ASSUME NEW i \in 1..Len(new), NEW j \in 1..Len(new), i < j
      PROVE  new[i][1] < new[j][1]
  <2>1. i \in 1..k
    BY <1>1, <1>5
  <2>2. CASE j \in 1..k
    BY <1>1, <1>3, <1>5, <2>1, <2>2
  <2>3. CASE j = k + 1
    BY <1>1, <1>2, <2>1, <2>3
  <2>4. QED
    BY <1>1, <2>2, <2>3
<1>6. QED
  BY <1>4, <1>5 DEF Upward, new

LEMMA UpwardPrefix ==
  ASSUME NEW s \in Seq(Records), NEW t \in Seq(Records), NEW n, Upward(s \o t, n)
  PROVE  Upward(s \o <<>>, n)
<1>1. /\ Len(s) \in Nat /\ Len(t) \in Nat /\ Len(s \o t) = Len(s) + Len(t)
      /\ \A i \in 1..(Len(s) + Len(t)) :
           (s \o t)[i] = IF i <= Len(s) THEN s[i] ELSE t[i - Len(s)]
  BY ConcatProperties
<1>2. \A i \in 1..Len(s) : i \in 1..Len(s \o t) /\ (s \o t)[i] = s[i]
  BY <1>1
<1>3. s \o <<>> = s
  BY ConcatEmptySeq
<1>4. QED
  BY <1>2, <1>3 DEF Upward
-----------------------------------------------------------------------------
(* Each step *)

LEMMA InitIInv == Init => IInv
<1> SUFFICES ASSUME Init PROVE IInv
  OBVIOUS
<1>1. TypeOK
  <2>1. /\ cur \in Buffers /\ cur.len <= Capacity
        /\ nxt \in BufferOrNone /\ new_cur \in BufferOrNone /\ new_nxt \in BufferOrNone
    BY EmptyType, SizeAssumption DEF Init, BufferOrNone, SizeAssumption
  <2>2. running \in BOOLEAN /\ crashed \in BOOLEAN
    BY DEF Init
  <2>3. /\ latch \in Int /\ starts \in 0..MaxStarts /\ appended \in 0..MaxRecords
        /\ dropped \subseteq Records
    BY SizeAssumption DEF Init, SizeAssumption
  <2>4. written \in Seq(Records)
    BY EmptySeq DEF Init
  <2>5. QED
    BY <2>1, <2>2, <2>3, <2>4 DEF Init, TypeOK
<1>2. Out = <<>> /\ Len(Out) = 0
  <2>1. written = <<>> /\ cur.data = <<>>
    BY EmptyType DEF Init
  <2>2. QED
    BY <2>1, EmptyType, ConcatEmptySeq DEF Out
<1>3. Numbered /\ Kept
  BY <1>2 DEF Init, Numbered, Kept, Upward
<1>4. Spares /\ Roomy /\ Supplied
  BY EmptyType DEF Init, Spares, Roomy, Supplied
<1>5. QED
  BY <1>1, <1>3, <1>4 DEF IInv

LEMMA AppendStep ==
  ASSUME IInv, NEW len \in Lengths, AppendRecord(len)
  PROVE  IInv'
<1> DEFINE r == <<appended + 1, len>>
           fresh == IF nxt # NoBuffer THEN nxt ELSE EmptyBuffer
<1>1. /\ appended \in Nat /\ appended' = appended + 1 /\ appended' \in 0..MaxRecords
      /\ r \in Records /\ r[1] = appended + 1 /\ r[2] = len /\ len \in Nat
      /\ MaxRecords \in Nat /\ Capacity \in Nat
  BY SizeAssumption DEF AppendRecord, IInv, TypeOK, Records, SizeAssumption
<1>2. /\ cur \in Buffers /\ cur.data \in Seq(Records) /\ cur.len \in Nat
      /\ written \in Seq(Records) /\ fresh = EmptyBuffer /\ dropped \subseteq Records
      /\ Contents(cur.data) \subseteq Records
  BY BufferType, LenProperties DEF IInv, TypeOK, Spares, Contents
<1>3. UNCHANGED <<new_cur, new_nxt, ownerVars, latch, writer, written, crashed>>
  BY DEF AppendRecord
<1> HIDE DEF r
<1>4. CASE Fits(cur, r)
  <2>1. cur' = Put(cur, r) /\ UNCHANGED <<nxt, dropped>>
    BY <1>4 DEF AppendRecord, r
  <2>2. /\ cur' \in Buffers /\ cur'.data = Append(cur.data, r)
        /\ cur'.len <= Capacity /\ cur'.data # <<>>
    BY <1>1, <1>2, <1>4, <2>1, PutType DEF Fits
  <2>3. TypeOK'
    BY <1>1, <1>3, <2>1, <2>2 DEF IInv, TypeOK, ownerVars
  <2>4. Spares' /\ Roomy' /\ Supplied'
    BY <1>3, <2>1, <2>2 DEF IInv, Spares, Roomy, Supplied
  <2>5. Out' = written \o Append(cur.data, r)
    BY <1>3, <2>2 DEF Out
  <2>6. Numbered'
    BY <1>1, <1>2, <2>5, UpwardAppend DEF IInv, Numbered, Out
  <2>7. Kept'
    <3>1. /\ Len(Out) \in Nat /\ Len(Out') = Len(Out) + 1 /\ Out'[Len(Out) + 1] = r
          /\ \A i \in 1..Len(Out) : Out'[i] = Out[i]
      BY <1>1, <1>2, <2>5, Appended DEF Out
    <3>2. QED
      BY <1>1, <2>1, <3>1 DEF IInv, Kept
  <2>8. QED
    BY <2>3, <2>4, <2>6, <2>7 DEF IInv
<1>5. CASE ~Fits(cur, r)
  <2>1. /\ cur' = PutFresh(EmptyBuffer, r) /\ nxt' = NoBuffer
        /\ dropped' = dropped \union Contents(cur.data)
                        \union (IF Fits(EmptyBuffer, r) THEN {} ELSE {r})
    BY <1>2, <1>5 DEF AppendRecord, r
  <2>2. CASE Fits(EmptyBuffer, r)
    <3>1. /\ cur' \in Buffers /\ cur'.data = Append(<<>>, r)
          /\ cur'.len <= Capacity /\ cur'.data # <<>>
      BY <1>1, <2>1, <2>2, PutType, EmptyType DEF Fits, PutFresh
    <3>2. dropped' = dropped \union Contents(cur.data) /\ dropped' # {}
      <4>1. cur.data # <<>>
        BY <1>1, <1>2, <1>5, <2>2, EmptyType DEF IInv, Roomy, Fits
      <4>2. 1 \in DOMAIN cur.data
        BY <1>2, <4>1, EmptySeq, LenProperties
      <4>3. QED
        BY <2>1, <2>2, <4>2 DEF Contents
    <3>3. TypeOK'
      BY <1>1, <1>2, <1>3, <2>1, <3>1, <3>2 DEF IInv, TypeOK, BufferOrNone, ownerVars
    <3>4. Spares' /\ Roomy' /\ Supplied'
      BY <1>3, <2>1, <3>1, <3>2 DEF IInv, Spares, Roomy, Supplied
    <3>5. Out' = written \o Append(<<>>, r)
      BY <1>3, <3>1 DEF Out
    <3>6. Numbered'
      <4>1. Upward(written \o <<>>, appended)
        BY <1>2, UpwardPrefix DEF IInv, Numbered, Out
      <4>2. QED
        BY <1>1, <1>2, <3>5, <4>1, EmptyType, UpwardAppend DEF Numbered
    <3>7. /\ Len(written) \in Nat /\ Len(Out') = Len(written) + 1
          /\ Out'[Len(written) + 1] = r
          /\ \A i \in 1..Len(written) : Out'[i] = written[i]
      <4>1. written \o <<>> = written
        BY <1>2, ConcatEmptySeq
      <4>2. QED
        BY <1>1, <1>2, <3>5, <4>1, EmptyType, Appended
    <3>8. Kept'
      <4> SUFFICES ASSUME NEW n \in 1..appended'
                   PROVE  \/ \E i \in 1..Len(Out') : Out'[i][1] = n
                          \/ \E x \in dropped' : x[1] = n
        BY DEF Kept
      <4>1. CASE n = appended + 1
        BY <1>1, <3>7, <4>1
      <4>2. CASE n \in 1..appended /\ \E x \in dropped : x[1] = n
        BY <3>2, <4>2
      <4>3. CASE n \in 1..appended /\ \E i \in 1..Len(Out) : Out[i][1] = n
        <5>1. PICK i \in 1..Len(Out) : Out[i][1] = n
          BY <4>3
        <5>2. /\ Len(cur.data) \in Nat /\ Len(Out) = Len(written) + Len(cur.data)
              /\ Out[i] = IF i <= Len(written) THEN written[i]
                          ELSE cur.data[i - Len(written)]
          BY <1>2, <5>1, ConcatProperties DEF Out
        <5>3. CASE i <= Len(written)
          BY <3>7, <5>1, <5>2, <5>3
        <5>4. CASE i > Len(written)
          <6>1. i - Len(written) \in DOMAIN cur.data
            BY <1>2, <3>7, <5>1, <5>2, <5>4, LenProperties
          <6>2. Out[i] \in dropped'
            BY <3>2, <3>7, <5>2, <5>4, <6>1 DEF Contents
          <6>3. QED
            BY <5>1, <6>2
        <5>5. QED
          BY <3>7, <5>1, <5>3, <5>4
      <4>4. QED
        BY <1>1, <4>1, <4>2, <4>3 DEF IInv, Kept
    <3>9. QED
      BY <3>3, <3>4, <3>6, <3>8 DEF IInv
  <2>3. CASE ~Fits(EmptyBuffer, r)
    <3>1. /\ cur' = EmptyBuffer /\ r \in dropped'
          /\ dropped \union Contents(cur.data) \subseteq dropped'
          /\ dropped' \subseteq Records
      BY <1>1, <1>2, <2>1, <2>3 DEF PutFresh
    <3>2. TypeOK'
      BY <1>1, <1>3, <2>1, <3>1, EmptyType DEF IInv, TypeOK, BufferOrNone, ownerVars
    <3>3. Spares' /\ Roomy' /\ Supplied'
      BY <1>3, <2>1, <3>1, EmptyType DEF IInv, Spares, Roomy, Supplied
    <3>4. Out' = written \o <<>> /\ written \o <<>> = written
      BY <1>2, <1>3, <3>1, EmptyType, ConcatEmptySeq DEF Out
    <3>5. Numbered'
      <4>1. Upward(written, appended)
        BY <1>2, <3>4, UpwardPrefix DEF IInv, Numbered, Out
      <4>2. \A i \in 1..Len(written) : written[i][1] \in Nat
        <5>1. \A i \in 1..Len(written) : written[i] \in Records
          BY <1>2, ElementOfSeq
        <5>2. QED
          BY <5>1 DEF Records
      <4>3. QED
        BY <1>1, <3>4, <4>1, <4>2 DEF Numbered, Upward
    <3>6. Kept'
      <4> SUFFICES ASSUME NEW n \in 1..appended'
                   PROVE  \/ \E i \in 1..Len(Out') : Out'[i][1] = n
                          \/ \E x \in dropped' : x[1] = n
        BY DEF Kept
      <4>1. CASE n = appended + 1
        BY <1>1, <3>1, <4>1
      <4>2. CASE n \in 1..appended /\ \E x \in dropped : x[1] = n
        BY <3>1, <4>2
      <4>3. CASE n \in 1..appended /\ \E i \in 1..Len(Out) : Out[i][1] = n
        <5>1. PICK i \in 1..Len(Out) : Out[i][1] = n
          BY <4>3
        <5>2. /\ Len(cur.data) \in Nat /\ Len(Out) = Len(written) + Len(cur.data)
              /\ Len(written) \in Nat
              /\ Out[i] = IF i <= Len(written) THEN written[i]
                          ELSE cur.data[i - Len(written)]
          BY <1>2, <5>1, ConcatProperties DEF Out
        <5>3. CASE i <= Len(written)
          BY <3>4, <5>1, <5>2, <5>3
        <5>4. CASE i > Len(written)
          <6>1. i - Len(written) \in DOMAIN cur.data
            BY <1>2, <5>1, <5>2, <5>4, LenProperties
          <6>2. Out[i] \in dropped'
            BY <3>1, <5>2, <5>4, <6>1 DEF Contents
          <6>3. QED
            BY <5>1, <6>2
        <5>5. QED
          BY <5>1, <5>2, <5>3, <5>4
      <4>4. QED
        BY <1>1, <4>1, <4>2, <4>3 DEF IInv, Kept
    <3>7. QED
      BY <3>2, <3>3, <3>5, <3>6 DEF IInv
  <2>4. QED
    BY <2>2, <2>3
<1>6. QED
  BY <1>4, <1>5

\* The writer takes the front buffer and leaves an empty one.
LEMMA RoundStep ==
  ASSUME IInv, ~crashed, Round
  PROVE  IInv'
<1>1. /\ cur' = EmptyBuffer /\ new_cur' = EmptyBuffer /\ written' = written \o cur.data
      /\ writer = "waiting" /\ writer' = "test"
      /\ UNCHANGED <<appended, dropped, running, owner, starts, latch>>
  BY DEF Round, Cleared, IInv, Spares, ownerVars
<1>2. /\ nxt' \in {EmptyBuffer, NoBuffer} /\ new_nxt' \in {EmptyBuffer, NoBuffer}
      /\ crashed' = (new_nxt' = NoBuffer)
      /\ nxt # NoBuffer => nxt' # NoBuffer /\ new_nxt' = new_nxt
  BY DEF Round, TakesSpare, IInv, Spares
<1>3. cur.data \in Seq(Records) /\ written \in Seq(Records) /\ written' \in Seq(Records)
  BY <1>1, BufferType, ConcatProperties DEF IInv, TypeOK
<1>4. Out' = Out
  <2>1. Out' = written' \o <<>>
    BY <1>1, EmptyType DEF Out
  <2>2. QED
    BY <1>1, <1>3, <2>1, ConcatEmptySeq DEF Out
<1>5. TypeOK'
  <2>1. crashed' \in BOOLEAN
    BY <1>2
  <2>2. QED
    BY <1>1, <1>2, <1>3, <2>1, EmptyType, SizeAssumption
    DEF IInv, TypeOK, BufferOrNone, SizeAssumption
<1>6. Numbered' /\ Kept'
  BY <1>1, <1>4 DEF IInv, Numbered, Kept
<1>7. Spares' /\ Roomy'
  BY <1>1, <1>2, EmptyType DEF Spares, Roomy
<1>8. Supplied'
  BY <1>1, <1>2 DEF IInv, Supplied
<1>9. QED
  BY <1>5, <1>6, <1>7, <1>8 DEF IInv

\* The owner, and the writer where it does not touch the front buffer.
LEMMA OtherStep ==
  ASSUME IInv, Begin \/ TestRunning \/ Start \/ Started \/ Stop \/ Joined \/ UNCHANGED vars
  PROVE  IInv'
<1>1. UNCHANGED <<cur, nxt, appended, dropped, written, crashed>>
  BY DEF Begin, TestRunning, Start, Started, Stop, Joined, vars, frontVars
<1>2. \/ UNCHANGED <<new_cur, new_nxt>>
         /\ (writer' \in {"test", "waiting"} => writer \in {"test", "waiting"})
      \/ new_cur' = EmptyBuffer /\ new_nxt' = EmptyBuffer
  BY DEF Begin, TestRunning, Start, Started, Stop, Joined, vars
<1>3. TypeOK'
  <2>1. running' \in BOOLEAN /\ latch' \in Int /\ starts' \in 0..MaxStarts
    <3>1. running' \in BOOLEAN
      BY DEF Begin, TestRunning, Start, Started, Stop, StopRunning, Joined, vars, ownerVars,
             IInv, TypeOK
    <3>2. latch' \in Int
      BY DEF Begin, TestRunning, Start, Started, Stop, Joined, vars, IInv, TypeOK
    <3>3. starts' \in 0..MaxStarts
      BY SizeAssumption DEF Begin, TestRunning, Start, Started, Stop, Joined, vars, ownerVars,
                            IInv, TypeOK, SizeAssumption
    <3>4. QED
      BY <3>1, <3>2, <3>3
  <2>2. /\ owner' \in {"stopped", "starting", "started", "stopping"}
        /\ writer' \in {"none", "new", "test", "waiting", "ended"}
    BY DEF Begin, TestRunning, Start, Started, Stop, Joined, vars, ownerVars, IInv, TypeOK
  <2>3. new_cur' \in BufferOrNone /\ new_nxt' \in BufferOrNone
    BY <1>2, EmptyType DEF IInv, TypeOK, BufferOrNone
  <2>4. QED
    BY <1>1, <2>1, <2>2, <2>3 DEF IInv, TypeOK
<1>4. Spares' /\ Supplied'
  BY <1>1, <1>2, EmptyType DEF IInv, Spares, Supplied
<1>5. Roomy' /\ Numbered' /\ Kept'
  BY <1>1 DEF IInv, Roomy, Numbered, Kept, Out
<1>6. QED
  BY <1>3, <1>4, <1>5 DEF IInv

LEMMA Inductive == IInv /\ [Next]_vars => IInv'
<1> SUFFICES ASSUME IInv, [Next]_vars PROVE IInv'
  OBVIOUS
<1>1. CASE Next
  BY <1>1, AppendStep, RoundStep, OtherStep DEF Next, WriterStep
<1>2. CASE UNCHANGED vars
  BY <1>2, OtherStep
<1>3. QED
  BY <1>1, <1>2

LEMMA Always == Spec => []IInv
BY InitIInv, Inductive, PTL DEF Spec
-----------------------------------------------------------------------------
(* Theorems *)

\* The front buffer never holds more than it has room for, and every variable has
\* its type.
THEOREM Typing == Spec => []TypeOK
<1>1. IInv => TypeOK
  BY DEF IInv
<1>2. QED
  BY <1>1, Always, PTL

\* The file has the records in the order of Append, none of them twice, however
\* Append, the writer's rounds and the restarts interleave (AsyncLogging::Thread).
THEOREM InOrder == Spec => []WrittenInOrder
<1>1. IInv => WrittenInOrder
  BY DEF IInv, Numbered, Upward, Out, WrittenInOrder
<1>2. QED
  BY <1>1, Always, PTL

\* A record leaves the buffers to the file, or with a full buffer that Append
\* replaces, and in no other way (AsyncLogging::Append).
THEOREM NoneLost == Spec => []Accounted
<1>1. IInv => Accounted
  <2> SUFFICES ASSUME IInv, NEW n \in 1..appended
               PROVE  \E r \in Contents(written \o cur.data) \union dropped : r[1] = n
    BY DEF Accounted
  <2>1. Out \in Seq(Records)
    BY BufferType, ConcatProperties DEF IInv, TypeOK, Out
  <2>2. DOMAIN Out = 1..Len(Out)
    BY <2>1, LenProperties
  <2>3. QED
    BY <2>2 DEF IInv, Kept, Contents, Out
<1>2. QED
  BY <1>1, Always, PTL

\* back() of an empty vector is reached only after Append has thrown a full buffer
\* away (AsyncLogging.cpp:91).
THEOREM OnlyOverflowCrashes == Spec => []CrashNeedsOverflow
<1>1. IInv => CrashNeedsOverflow
  BY DEF IInv, Supplied, CrashNeedsOverflow
<1>2. QED
  BY <1>1, Always, PTL
=============================================================================
