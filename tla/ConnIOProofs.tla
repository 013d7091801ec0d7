---------------------------- MODULE ConnIOProofs ----------------------------
(***************************************************************************)
(* Proofs about ConnIO, for every length of a message, size of the socket, *)
(* number of sending threads and of messages: the invariants of the run    *)
(* conn_io hold in every reachable state.                                  *)
(*                                                                         *)
(* Two arguments.  For the bytes: a message is dropped only when nothing   *)
(* waits in the send buffer, so what waits is always the end of all that   *)
(* was to be sent.  For the order: a thread's messages are in ran, then in *)
(* the functors of this round, then in those still queued, in the order    *)
(* it called Send, the one between the test and QueueOneFunc being last.   *)
(***************************************************************************)
EXTENDS ConnIO, SequenceTheorems, TLAPS

\* p is where r starts.
Starts(p, r) == Len(p) <= Len(r) /\ p = SubSeq(r, 1, Len(p))

\* All that was or is to be written.
Out == wire \o send_buffer
-----------------------------------------------------------------------------
(* The inductive invariant, part by part *)

\* A thread between Send's test and QueueOneFunc has a message to queue.
Counted == \A s \in tested : sent[s] > 0

\* Only a connection with an empty send buffer drops messages.
Waits == send_buffer # <<>> => Out = ran

\* n is the number of a message that s has sent, and not the one in its hand.
Before(s, n) == n <= sent[s] /\ (s \in tested => n < sent[s])

\* The same of the state after the step.
BeforeNext(s, n) == n <= sent'[s] /\ (s \in tested' => n < sent'[s])

\* Who may have queued functors, and with which messages.
QueuedOK(q) == \A i \in 1..Len(q) : q[i][1] \in Others /\ Before(q[i][1], q[i][2])

\* In p, and in q after p, the messages of one thread come in order.
InOrder(q) ==
  \A i, j \in 1..Len(q) : i < j /\ q[i][1] = q[j][1] => q[i][2] <= q[j][2]

RanFirst(q) ==
  \A i \in 1..Len(ran), j \in 1..Len(q) :
    ran[i][1][1] = q[j][1] => ran[i][1][2] <= q[j][2]

Queues ==
  /\ QueuedOK(to_do_list) /\ InOrder(to_do_list) /\ RanFirst(to_do_list)
  /\ QueuedOK(funcs) /\ InOrder(funcs) /\ RanFirst(funcs)
  /\ \A i \in 1..Len(funcs), j \in 1..Len(to_do_list) :
       funcs[i][1] = to_do_list[j][1] => funcs[i][2] <= to_do_list[j][2]
  /\ \A i \in 1..Len(ran) : Before(ran[i][1][1], ran[i][1][2])

IInv ==
  /\ Counted /\ StreamInOrder /\ Waits /\ WriteArmed
  /\ InputInOrder /\ Queues /\ SenderOrder
-----------------------------------------------------------------------------
(* Sequences *)

\* Two sequences with the same entries are the same.
LEMMA SameEntries ==
  ASSUME NEW S, NEW s \in Seq(S), NEW t \in Seq(S), Len(s) = Len(t),
         \A i \in 1..Len(s) : s[i] = t[i]
  PROVE  s = t
OBVIOUS

\* A sequence cut in two, and put together again.
LEMMA Cut ==
  ASSUME NEW S, NEW s \in Seq(S), NEW n \in 0..Len(s)
  PROVE  /\ SubSeq(s, 1, n) \in Seq(S) /\ Len(SubSeq(s, 1, n)) = n
         /\ SubSeq(s, n + 1, Len(s)) \in Seq(S)
         /\ Len(SubSeq(s, n + 1, Len(s))) = Len(s) - n
         /\ SubSeq(s, 1, n) \o SubSeq(s, n + 1, Len(s)) = s
<1> DEFINE a == SubSeq(s, 1, n)
           b == SubSeq(s, n + 1, Len(s))
<1>1. Len(s) \in Nat /\ n \in Nat /\ n <= Len(s) /\ \A i \in 1..Len(s) : s[i] \in S
  OBVIOUS
<1>2. /\ a \in Seq(S) /\ Len(a) = n
      /\ \A i \in 1..n : a[i] = s[i]
  BY <1>1, SubSeqProperties
<1>3. /\ b \in Seq(S) /\ Len(b) = Len(s) - n
      /\ \A i \in 1..(Len(s) - n) : b[i] = s[n + i]
  <2>1. \A i \in (n + 1)..Len(s) : s[i] \in S
    BY <1>1
  <2>2. /\ b \in Seq(S)
        /\ Len(b) = IF n + 1 <= Len(s) THEN Len(s) - (n + 1) + 1 ELSE 0
        /\ \A i \in 1..(Len(s) - (n + 1) + 1) : b[i] = s[(n + 1) + i - 1]
    BY <1>1, <2>1, SubSeqProperties
  <2>3. Len(b) = Len(s) - n
    BY <1>1, <2>2
  <2>4. ASSUME NEW i \in 1..(Len(s) - n) PROVE b[i] = s[n + i]
    <3>1. i \in 1..(Len(s) - (n + 1) + 1) /\ (n + 1) + i - 1 = n + i
      BY <1>1
    <3> QED
      BY <2>2, <3>1
  <2> QED
    BY <2>2, <2>3, <2>4
<1> HIDE DEF a, b
<1>4. /\ a \o b \in Seq(S) /\ Len(a \o b) = Len(s)
      /\ \A i \in 1..Len(s) : (a \o b)[i] = IF i <= n THEN a[i] ELSE b[i - n]
  BY <1>1, <1>2, <1>3, ConcatProperties
<1>5. ASSUME NEW i \in 1..Len(s) PROVE (a \o b)[i] = s[i]
  <2>1. CASE i <= n
    BY <1>1, <1>2, <1>4, <2>1
  <2>2. CASE ~(i <= n)
    <3>1. i - n \in 1..(Len(s) - n) /\ n + (i - n) = i
      BY <1>1, <2>2
    <3> QED
      BY <1>3, <1>4, <2>2, <3>1
  <2> QED
    BY <2>1, <2>2
<1>6. a \o b = s
  BY <1>1, <1>4, <1>5, SameEntries
<1> QED
  BY <1>2, <1>3, <1>6 DEF a, b

\* Where a sequence is put behind another.
LEMMA Behind ==
  ASSUME NEW S, NEW q \in Seq(S), NEW s \in Seq(S)
  PROVE  /\ q \o s \in Seq(S) /\ Len(q \o s) = Len(q) + Len(s)
         /\ \A i \in 1..Len(q) : (q \o s)[i] = q[i]
         /\ \A i \in 1..Len(s) : (q \o s)[Len(q) + i] = s[i]
         /\ \A i \in 1..(Len(q) + Len(s)) : i \notin 1..Len(q) =>
              i - Len(q) \in 1..Len(s) /\ (q \o s)[i] = s[i - Len(q)]
OBVIOUS

\* A sequence starts with itself, and still starts a sequence that has grown.
LEMMA StillStarts ==
  ASSUME NEW S, NEW p \in Seq(S), NEW r \in Seq(S), NEW t \in Seq(S)
  PROVE  /\ Starts(p, p)
         /\ Starts(p, r) => Starts(p, r \o t)
         /\ Starts(p, r) /\ Len(p) = Len(r) => p = r
<1>1. Starts(p, p)
  BY SubSeqFull DEF Starts
<1>2. ASSUME Starts(p, r) PROVE Starts(p, r \o t)
  <2> DEFINE n == Len(p)
  <2>1. /\ n \in Nat /\ n <= Len(r) /\ Len(r) \in Nat /\ Len(t) \in Nat
        /\ p = SubSeq(r, 1, n)
    BY <1>2 DEF Starts
  <2>2. /\ r \o t \in Seq(S) /\ Len(r \o t) = Len(r) + Len(t)
        /\ \A i \in 1..Len(r) : (r \o t)[i] = r[i]
    BY Behind
  <2> DEFINE u == r \o t
  <2> HIDE DEF n, u
  <2>3. /\ SubSeq(r, 1, n) \in Seq(S) /\ Len(SubSeq(r, 1, n)) = n
        /\ \A i \in 1..n : SubSeq(r, 1, n)[i] = r[i]
    BY <2>1, SubSeqProperties
  <2>4. /\ SubSeq(u, 1, n) \in Seq(S) /\ Len(SubSeq(u, 1, n)) = n
        /\ \A i \in 1..n : SubSeq(u, 1, n)[i] = u[i]
    BY <2>1, <2>2, SubSeqProperties DEF u
  <2>5. \A i \in 1..n : u[i] = r[i]
    BY <2>1, <2>2 DEF u
  <2>6. SubSeq(u, 1, n) = SubSeq(r, 1, n)
    BY <2>3, <2>4, <2>5, SameEntries
  <2> QED
    BY <2>1, <2>2, <2>6 DEF Starts, n, u
<1>3. ASSUME Starts(p, r), Len(p) = Len(r) PROVE p = r
  BY <1>3, SubSeqFull DEF Starts
<1> QED
  BY <1>1, <1>2, <1>3

\* The bytes of a message.
LEMMA BytesFacts ==
  ASSUME NEW m \in Messages
  PROVE  /\ Bytes(m) \in Seq(ByteSet) /\ Len(Bytes(m)) = MsgLen
         /\ MsgLen \in Nat /\ MsgLen > 0
         /\ \A i \in 1..MsgLen : Bytes(m)[i][1] = m
<1>1. MsgLen \in Nat /\ MsgLen > 0
  BY SizeAssumption
<1>2. \A i \in 1..MsgLen : <<m, i>> \in ByteSet
  BY DEF ByteSet
<1> QED
  BY <1>1, <1>2 DEF Bytes
-----------------------------------------------------------------------------
(* What SendInLoop does to the bytes *)

\* What write took and what is kept make up the message.
LEMMA TakeAndKeep ==
  ASSUME TypeOK, NEW m \in Messages, NEW n \in 0..MsgLen, send_buffer = <<>>,
         Take(Bytes(m), n), Keep(m, n)
  PROVE  /\ wire' \in Seq(ByteSet) /\ send_buffer' \in Seq(ByteSet)
         /\ Out' = Out \o Bytes(m)
         /\ n < MsgLen => send_buffer' # <<>>
         /\ n = MsgLen => send_buffer' = <<>>
<1> DEFINE B == Bytes(m)
           a == SubSeq(B, 1, n)
           b == SubSeq(B, n + 1, MsgLen)
<1>1. B \in Seq(ByteSet) /\ Len(B) = MsgLen /\ MsgLen \in Nat
  BY BytesFacts
<1> HIDE DEF B
<1>2. /\ a \in Seq(ByteSet) /\ b \in Seq(ByteSet)
      /\ Len(a) = n /\ Len(b) = MsgLen - n /\ a \o b = B
  BY <1>1, Cut
<1>3. wire \in Seq(ByteSet) /\ Out = wire
  BY ConcatEmptySeq DEF TypeOK, Out
<1>4. wire' = wire \o a
  BY DEF Take, B
<1>5. wire \o (a \o b) = (wire \o a) \o b
  <2>1. \A x, y, z \in Seq(ByteSet) : x \o (y \o z) = (x \o y) \o z
    BY ConcatAssociative
  <2> HIDE DEF a, b
  <2> QED
    BY <1>2, <1>3, <2>1
<1>6. CASE n < MsgLen
  <2>1. send_buffer' = <<>> \o b
    BY <1>6 DEF Keep, B
  <2>2. send_buffer' = b
    BY <1>2, <2>1, ConcatEmptySeq
  <2>3. b # <<>>
    BY <1>1, <1>2, <1>6
  <2>4. wire' \in Seq(ByteSet)
    BY <1>2, <1>3, <1>4, Behind
  <2>5. Out' = Out \o B
    BY <1>2, <1>3, <1>4, <1>5, <2>2 DEF Out
  <2>6. n # MsgLen /\ send_buffer' \in Seq(ByteSet) /\ send_buffer' # <<>>
    BY <1>1, <1>2, <1>6, <2>2, <2>3
  <2> QED
    BY <2>4, <2>5, <2>6 DEF B
<1>7. CASE n = MsgLen
  <2>1. send_buffer' = <<>>
    BY <1>1, <1>7 DEF Keep
  <2>2. b = <<>>
    BY <1>1, <1>2, <1>7
  <2>3. a = B
    BY <1>2, <2>2, ConcatEmptySeq
  <2>4. wire' \in Seq(ByteSet) /\ Out' = wire'
    BY <1>2, <1>3, <1>4, <2>1, Behind, ConcatEmptySeq DEF Out
  <2>5. Out' = Out \o B
    BY <1>3, <1>4, <2>3, <2>4
  <2>6. ~(n < MsgLen) /\ send_buffer' \in Seq(ByteSet)
    BY <1>1, <1>7, <2>1
  <2> QED
    BY <2>1, <2>4, <2>5, <2>6 DEF B
<1> QED
  BY <1>1, <1>6, <1>7

\* The whole message is kept.
LEMMA KeepAll ==
  ASSUME TypeOK, NEW m \in Messages, Keep(m, 0), UNCHANGED wire
  PROVE  /\ send_buffer' \in Seq(ByteSet) /\ send_buffer' # <<>>
         /\ Out' = Out \o Bytes(m)
         /\ listen' = listen \union {"out"}
<1> DEFINE B == Bytes(m)
<1>1. B \in Seq(ByteSet) /\ Len(B) = MsgLen /\ MsgLen \in Nat /\ MsgLen > 0
  BY BytesFacts
<1>2. send_buffer' = send_buffer \o SubSeq(B, 1, Len(B)) /\ listen' = listen \union {"out"}
  <2> HIDE DEF B
  <2>1. 0 + 1 = 1 /\ 0 < MsgLen
    BY <1>1
  <2> QED
    BY <1>1, <2>1 DEF Keep, EnableWrite, B
<1> HIDE DEF B
<1>3. send_buffer' = send_buffer \o B
  BY <1>1, <1>2, SubSeqFull
<1>4. wire \in Seq(ByteSet) /\ send_buffer \in Seq(ByteSet)
  BY DEF TypeOK
<1>5. send_buffer' \in Seq(ByteSet) /\ Len(send_buffer') = Len(send_buffer) + Len(B)
  BY <1>1, <1>3, <1>4, Behind
<1>6. send_buffer' # <<>>
  BY <1>1, <1>4, <1>5
<1>7. wire \o (send_buffer \o B) = (wire \o send_buffer) \o B
  BY <1>1, <1>4, ConcatAssociative
<1> QED
  BY <1>2, <1>3, <1>5, <1>6, <1>7 DEF Out, B

\* SendInLoop queues the bytes behind all the others, unless the connection has been
\* reset, nothing waits and they are dropped, or the connection is closed.
LEMMA SendCases ==
  ASSUME TypeOK, WriteArmed, NEW m \in Messages, SendInLoop(m), UNCHANGED state
  PROVE  /\ wire' \in Seq(ByteSet) /\ send_buffer' \in Seq(ByteSet)
         /\ ran' \in Seq(ByteSet) /\ unread' \in 0..SockSize
         /\ link' \in {"up", "timedout", "reset"} /\ listen' \subseteq {"in", "out"}
         /\ WriteArmed'
         /\ ran' = ran \/ ran' = ran \o Bytes(m)
         /\ \/ /\ Out' = Out \o Bytes(m) /\ ran' = ran \o Bytes(m)
               /\ link # "reset" \/ send_buffer # <<>>
            \/ /\ Out' = Out /\ ran' = ran \o Bytes(m) /\ link' = "reset"
               /\ send_buffer = <<>> /\ send_buffer' = <<>>
            \/ UNCHANGED <<wire, send_buffer, ran, link>>
<1>0. /\ wire \in Seq(ByteSet) /\ send_buffer \in Seq(ByteSet) /\ ran \in Seq(ByteSet)
      /\ unread \in 0..SockSize /\ link \in {"up", "timedout", "reset"}
      /\ listen \subseteq {"in", "out"}
      /\ Bytes(m) \in Seq(ByteSet) /\ ran \o Bytes(m) \in Seq(ByteSet)
      /\ MsgLen \in Nat /\ SockSize \in Nat
  <2>1. Bytes(m) \in Seq(ByteSet) /\ ran \in Seq(ByteSet)
    BY BytesFacts DEF TypeOK
  <2> QED
    BY <2>1, Behind, SizeAssumption DEF TypeOK
<1>1. ASSUME state = "kConnected", MayWriteNow, link = "up", link' = link,
             NEW n \in Room(MsgLen), Take(Bytes(m), n), Keep(m, n)
      PROVE  /\ wire' \in Seq(ByteSet) /\ send_buffer' \in Seq(ByteSet)
             /\ ran' = ran \o Bytes(m) /\ unread' \in 0..SockSize
             /\ listen' \subseteq {"in", "out"} /\ Out' = Out \o Bytes(m)
             /\ WriteArmed'
  <2>1. n \in 0..MsgLen /\ unread' = unread + n /\ unread + n <= SockSize
    BY <1>1 DEF Room, Take
  <2>2. send_buffer = <<>> /\ "out" \notin listen
    BY <1>1 DEF MayWriteNow
  <2>3. /\ wire' \in Seq(ByteSet) /\ send_buffer' \in Seq(ByteSet)
        /\ Out' = Out \o Bytes(m)
        /\ n < MsgLen => send_buffer' # <<>>
        /\ n = MsgLen => send_buffer' = <<>>
    BY <1>1, <2>1, <2>2, TakeAndKeep
  <2>4. /\ ran' = ran \o Bytes(m)
        /\ n < MsgLen => listen' = listen \union {"out"}
        /\ ~(n < MsgLen) => listen' = listen
    BY <1>1 DEF Keep, EnableWrite
  <2>5. unread' \in 0..SockSize
    BY <1>0, <2>1
  <2>6. CASE n < MsgLen
    BY <1>0, <2>3, <2>4, <2>5, <2>6 DEF WriteArmed
  <2>7. CASE n = MsgLen
    <3>1. ~(n < MsgLen)
      BY <1>0, <2>7
    <3> QED
      BY <1>0, <2>2, <2>3, <2>4, <2>5, <2>7, <3>1 DEF WriteArmed
  <2> QED
    BY <1>0, <2>1, <2>6, <2>7
<1>2. ASSUME Keep(m, 0), UNCHANGED wire
      PROVE  /\ send_buffer' \in Seq(ByteSet) /\ ran' = ran \o Bytes(m)
             /\ listen' \subseteq {"in", "out"} /\ Out' = Out \o Bytes(m)
             /\ WriteArmed'
  BY <1>0, <1>2, KeepAll DEF Keep, WriteArmed
<1>3. CASE state = "kConnected" /\ MayWriteNow /\ link = "up"
  <2>1. link' = link
    BY <1>3 DEF SendInLoop
  <2>2. CASE \E n \in Room(MsgLen) : Take(Bytes(m), n) /\ Keep(m, n)
    BY <1>0, <1>1, <1>3, <2>1, <2>2
  <2>3. CASE Room(MsgLen) = {} /\ UNCHANGED <<wire, unread>> /\ Keep(m, 0)
    BY <1>0, <1>2, <1>3, <2>1, <2>3
  <2> QED
    BY <1>3, <2>2, <2>3 DEF SendInLoop
<1>4. CASE state = "kConnected" /\ MayWriteNow /\ link # "up"
  <2>1. /\ link' = "reset" /\ UNCHANGED <<wire, unread>> /\ send_buffer = <<>>
        /\ IF link = "reset" THEN Drop(m) ELSE Keep(m, 0)
    BY <1>0, <1>4 DEF SendInLoop, WriteFails, MayWriteNow
  <2>2. CASE link = "reset"
    BY <1>0, <2>1, <2>2 DEF Drop, Out, WriteArmed
  <2>3. CASE link # "reset"
    BY <1>0, <1>2, <2>1, <2>3
  <2> QED
    BY <2>2, <2>3
<1>5. CASE state = "kConnected" /\ ~MayWriteNow
  <2>1. Keep(m, 0) /\ UNCHANGED <<wire, unread, link>>
    BY <1>5 DEF SendInLoop
  <2>2. send_buffer # <<>>
    BY <1>5 DEF MayWriteNow, WriteArmed
  <2> QED
    BY <1>0, <1>2, <2>1, <2>2
<1>6. CASE state # "kConnected"
  BY <1>0, <1>6 DEF SendInLoop, outVars, WriteArmed
<1> QED
  BY <1>3, <1>4, <1>5, <1>6

\* So what is to be written stays the start of what was to be sent.
LEMMA SendStream ==
  ASSUME TypeOK, WriteArmed, StreamInOrder, Waits,
         NEW m \in Messages, SendInLoop(m), UNCHANGED state
  PROVE  StreamInOrder' /\ Waits'
<1>1. /\ Out \in Seq(ByteSet) /\ ran \in Seq(ByteSet) /\ Bytes(m) \in Seq(ByteSet)
  <2>1. wire \in Seq(ByteSet) /\ send_buffer \in Seq(ByteSet) /\ ran \in Seq(ByteSet)
    BY DEF TypeOK
  <2> QED
    BY <2>1, Behind, BytesFacts DEF Out
<1>2. /\ Starts(Out, ran) /\ link # "reset" => Len(Out) = Len(ran)
      /\ Starts(Out, ran)
  BY DEF StreamInOrder, Starts, Out
<1>3. \/ /\ Out' = Out \o Bytes(m) /\ ran' = ran \o Bytes(m)
         /\ link # "reset" \/ send_buffer # <<>>
      \/ /\ Out' = Out /\ ran' = ran \o Bytes(m) /\ link' = "reset"
         /\ send_buffer = <<>> /\ send_buffer' = <<>>
      \/ UNCHANGED <<wire, send_buffer, ran, link>>
  BY SendCases
<1>4. CASE /\ Out' = Out \o Bytes(m) /\ ran' = ran \o Bytes(m)
           /\ link # "reset" \/ send_buffer # <<>>
  <2>1. Out = ran
    BY <1>1, <1>2, <1>4, StillStarts DEF Waits
  <2>2. Out' = ran' /\ ran' \in Seq(ByteSet)
    BY <1>1, <1>4, <2>1, Behind
  <2>3. Starts(ran', ran')
    BY <2>2, StillStarts
  <2> QED
    BY <2>2, <2>3 DEF StreamInOrder, Waits, Starts, Out
<1>5. CASE /\ Out' = Out /\ ran' = ran \o Bytes(m) /\ link' = "reset"
           /\ send_buffer = <<>> /\ send_buffer' = <<>>
  <2>1. Starts(Out, ran \o Bytes(m))
    BY <1>1, <1>2, StillStarts
  <2>2. Starts(Out', ran')
    BY <1>5, <2>1
  <2> QED
    BY <1>5, <2>2 DEF StreamInOrder, Waits, Starts, Out
<1>6. CASE UNCHANGED <<wire, send_buffer, ran, link>>
  BY <1>6 DEF StreamInOrder, Waits, Out
<1> QED
  BY <1>3, <1>4, <1>5, <1>6
-----------------------------------------------------------------------------
(* Types *)

\* The messages that Send makes.
LEMMA NextMessage ==
  ASSUME TypeOK, NEW s \in Threads, sent[s] < MaxSends
  PROVE  <<s, sent[s] + 1>> \in Messages
<1>1. sent[s] + 1 \in 1..MaxSends
  BY SizeAssumption DEF TypeOK
<1> QED
  BY <1>1 DEF Messages

\* One more message counted.
LEMMA SentType ==
  ASSUME TypeOK, NEW s \in Threads, sent[s] < MaxSends,
         sent' = [sent EXCEPT ![s] = @ + 1]
  PROVE  sent' \in [Threads -> 0..MaxSends]
<1>1. sent[s] + 1 \in 0..MaxSends
  BY SizeAssumption DEF TypeOK
<1> QED
  BY <1>1 DEF TypeOK

\* What Read makes of the bytes there are.
LEMMA FillFacts ==
  ASSUME TypeOK, Fill
  PROVE  /\ read_buffer' \in Seq(Nat) /\ Len(read_buffer') = came - got
         /\ \A i \in 1..(came - got) : read_buffer'[i] = got + i
<1>1. came \in Nat /\ got \in Nat /\ came - got \in Nat
  BY DEF TypeOK
<1>2. \A i \in 1..(came - got) : got + i \in Nat
  BY <1>1
<1> QED
  BY <1>1, <1>2 DEF Fill

LEMMA TypeStep ==
  ASSUME TypeOK, Counted, WriteArmed, [Next]_vars PROVE TypeOK' /\ Counted'
<1> USE DEF TypeOK, Counted, outVars, inVars, loopVars, sendVars, netVars
<1>1. CASE Poll
  BY <1>1 DEF Poll
<1>2. CASE HandleMessage
  <2>1. read_buffer' \in Seq(Nat)
    BY <1>2, FillFacts DEF HandleMessage
  <2>2. handed' \in Seq(Nat)
    <3>1. handed \o read_buffer' \in Seq(Nat)
      BY <2>1
    <3> QED
      BY <1>2, <3>1 DEF HandleMessage
  <2>3. state' \in {"kConnected", "kClosed"} /\ listen' \subseteq {"in", "out"}
    BY <1>2 DEF HandleMessage, HandleClose
  <2>4. pc' \in {"poll", "events", "message", "funcs"} /\ events' \subseteq {"in", "out"}
    BY <1>2 DEF HandleMessage
  <2>5. got' = came /\ came \in Nat /\ got' \in 0..came
    BY <1>2 DEF HandleMessage
  <2> QED
    BY <1>2, <2>1, <2>2, <2>3, <2>4, <2>5 DEF HandleMessage
<1>3. CASE Return
  BY <1>3 DEF Return
<1>4. CASE HandleWrite
  <2>1. ASSUME NEW n \in Room(Len(send_buffer)), WriteSome(n)
        PROVE  /\ wire' \in Seq(ByteSet) /\ send_buffer' \in Seq(ByteSet)
               /\ unread' \in 0..SockSize /\ listen' \subseteq {"in", "out"}
    <3>1. n \in 0..Len(send_buffer) /\ n \in Nat /\ unread + n <= SockSize
      BY DEF Room
    <3>2. /\ SubSeq(send_buffer, 1, n) \in Seq(ByteSet)
          /\ SubSeq(send_buffer, n + 1, Len(send_buffer)) \in Seq(ByteSet)
      BY <3>1, Cut
    <3>3. wire' \in Seq(ByteSet)
      BY <2>1, <3>2, Behind DEF WriteSome, Take
    <3>4. unread' \in 0..SockSize
      BY <2>1, <3>1, SizeAssumption DEF WriteSome, Take
    <3> QED
      BY <2>1, <3>2, <3>3, <3>4 DEF WriteSome, DisableWrite
  <2>2. CASE "out" \in listen /\ state = "kConnected"
    <3>1. CASE link = "up" /\ \E n \in Room(Len(send_buffer)) : WriteSome(n)
      BY <1>4, <2>1, <3>1 DEF HandleWrite, WriteSome
    <3>2. CASE WriteError
      BY <1>4, <3>2 DEF HandleWrite, WriteError, WriteFails
    <3> QED
      BY <1>4, <2>2, <3>1, <3>2 DEF HandleWrite
  <2>3. CASE ~("out" \in listen /\ state = "kConnected")
    BY <1>4, <2>3 DEF HandleWrite
  <2> QED
    BY <2>2, <2>3
<1>5. CASE DoToDoList
  BY <1>5 DEF DoToDoList
<1>6. CASE CallFunc
  <2>1. Head(funcs) \in Messages /\ Tail(funcs) \in Seq(Messages)
    BY <1>6 DEF CallFunc
  <2>2. SendInLoop(Head(funcs)) /\ UNCHANGED state
    BY <1>6 DEF CallFunc
  <2>3. /\ wire' \in Seq(ByteSet) /\ send_buffer' \in Seq(ByteSet)
        /\ ran' \in Seq(ByteSet) /\ unread' \in 0..SockSize
        /\ link' \in {"up", "timedout", "reset"} /\ listen' \subseteq {"in", "out"}
    BY <2>1, <2>2, SendCases
  <2> QED
    BY <1>6, <2>1, <2>3 DEF CallFunc
<1>7. CASE EndToDoList
  BY <1>7 DEF EndToDoList
<1>8. CASE Reply
  <2>1. Own \in Threads /\ sent[Own] < MaxSends /\ UNCHANGED state
    BY <1>8 DEF Reply, Threads
  <2>2. <<Own, sent[Own] + 1>> \in Messages /\ SendInLoop(<<Own, sent[Own] + 1>>)
    BY <1>8, <2>1, NextMessage DEF Reply
  <2>3. /\ wire' \in Seq(ByteSet) /\ send_buffer' \in Seq(ByteSet)
        /\ ran' \in Seq(ByteSet) /\ unread' \in 0..SockSize
        /\ link' \in {"up", "timedout", "reset"} /\ listen' \subseteq {"in", "out"}
    BY <2>1, <2>2, SendCases
  <2>4. sent' \in [Threads -> 0..MaxSends]
    BY <1>8, <2>1, SentType DEF Reply
  <2>5. \A s \in tested : sent'[s] > 0
    BY <1>8, OwnAssumption DEF Reply, Threads
  <2> QED
    BY <1>8, <2>3, <2>4, <2>5 DEF Reply
<1>9. CASE CloseInLoop
  BY <1>9 DEF CloseInLoop, HandleClose
<1>10. ASSUME NEW s \in Others, TestState(s) PROVE TypeOK' /\ Counted'
  <2>1. s \in Threads /\ sent[s] < MaxSends /\ sent[s] \in Nat
    BY <1>10 DEF TestState, Threads
  <2>2. sent' \in [Threads -> 0..MaxSends]
    BY <1>10, <2>1, SentType DEF TestState
  <2>3. \A t \in tested' : sent'[t] > 0
    BY <1>10, <2>1 DEF TestState, Threads
  <2> QED
    BY <1>10, <2>2, <2>3 DEF TestState
<1>11. ASSUME NEW s \in Others, QueueSend(s) PROVE TypeOK' /\ Counted'
  <2>1. sent[s] \in 1..MaxSends
    BY <1>11, SizeAssumption DEF QueueSend, Threads
  <2>2. <<s, sent[s]>> \in Messages
    BY <2>1 DEF Messages, Threads
  <2>3. Append(to_do_list, <<s, sent[s]>>) \in Seq(Messages)
    BY <2>2
  <2> QED
    BY <1>11, <2>3 DEF QueueSend, Queued
<1>12. CASE ClientReads
  BY <1>12, SizeAssumption DEF ClientReads
<1>13. CASE ClientSends
  BY <1>13 DEF ClientSends
<1>14. CASE ClientCloses \/ LinkFails
  BY <1>14 DEF ClientCloses, LinkFails
<1>15. CASE UNCHANGED vars
  BY <1>15 DEF vars
<1> QED
  BY <1>1, <1>2, <1>3, <1>4, <1>5, <1>6, <1>7, <1>8, <1>9, <1>10, <1>11, <1>12,
     <1>13, <1>14, <1>15 DEF Next, LoopStep
-----------------------------------------------------------------------------
(* Bytes to the client *)

LEMMA StreamStep ==
  ASSUME TypeOK, Counted, WriteArmed, StreamInOrder, Waits, [Next]_vars
  PROVE  StreamInOrder' /\ Waits' /\ WriteArmed'
<1> USE DEF outVars, inVars, loopVars, sendVars, netVars
<1>1. ASSUME NEW m \in Messages, SendInLoop(m), UNCHANGED state
      PROVE  StreamInOrder' /\ Waits' /\ WriteArmed'
  BY <1>1, SendStream, SendCases
<1>2. ASSUME UNCHANGED <<wire, send_buffer, ran>>, link' = "reset" \/ link' = link \/ link = "up"
      PROVE  StreamInOrder' /\ Waits'
  BY <1>2 DEF StreamInOrder, Waits, Out
<1>3. CASE HandleWrite
  <2>1. ASSUME NEW n \in Room(Len(send_buffer)), WriteSome(n),
               "out" \in listen, UNCHANGED <<state, ran>>
        PROVE  StreamInOrder' /\ Waits' /\ WriteArmed'
    <3>1. n \in 0..Len(send_buffer) /\ send_buffer \in Seq(ByteSet) /\ wire \in Seq(ByteSet)
      BY DEF Room, TypeOK
    <3> DEFINE a == SubSeq(send_buffer, 1, n)
               b == SubSeq(send_buffer, n + 1, Len(send_buffer))
    <3>2. /\ a \in Seq(ByteSet) /\ b \in Seq(ByteSet) /\ a \o b = send_buffer
          /\ Len(b) = Len(send_buffer) - n
      BY <3>1, Cut
    <3>3. wire' = wire \o a /\ send_buffer' = b /\ link' = link
      BY <2>1 DEF WriteSome, Take
    <3>4. wire \o (a \o b) = (wire \o a) \o b
      <4>1. \A x, y, z \in Seq(ByteSet) : x \o (y \o z) = (x \o y) \o z
        BY ConcatAssociative
      <4> HIDE DEF a, b
      <4> QED
        BY <3>1, <3>2, <4>1
    <3> HIDE DEF a, b
    <3>5. Out' = Out
      BY <3>2, <3>3, <3>4 DEF Out
    <3>6. send_buffer' = <<>> <=> n = Len(send_buffer)
      BY <3>1, <3>2, <3>3
    <3>7. "out" \in listen' <=> n # Len(send_buffer)
      BY <2>1 DEF WriteSome, DisableWrite
    <3>8. send_buffer' # <<>> => send_buffer # <<>>
      BY <3>1, <3>2, <3>3
    <3> QED
      BY <2>1, <3>3, <3>5, <3>6, <3>7, <3>8 DEF StreamInOrder, Waits, WriteArmed, Out
  <2>2. CASE "out" \in listen /\ state = "kConnected"
    <3>1. CASE link = "up" /\ \E n \in Room(Len(send_buffer)) : WriteSome(n)
      BY <1>3, <2>1, <2>2, <3>1 DEF HandleWrite
    <3>2. CASE WriteError
      BY <1>2, <1>3, <3>2 DEF HandleWrite, WriteError, WriteFails, WriteArmed
    <3> QED
      BY <1>3, <2>2, <3>1, <3>2 DEF HandleWrite
  <2>3. CASE ~("out" \in listen /\ state = "kConnected")
    BY <1>2, <1>3, <2>3 DEF HandleWrite, WriteArmed
  <2> QED
    BY <2>2, <2>3
<1>4. CASE HandleMessage \/ CloseInLoop
  BY <1>2, <1>4 DEF HandleMessage, CloseInLoop, HandleClose, WriteArmed
<1>5. CASE CallFunc
  <2>1. Head(funcs) \in Messages
    BY <1>5 DEF CallFunc, TypeOK
  <2> QED
    BY <1>1, <1>5, <2>1 DEF CallFunc
<1>6. CASE Reply
  <2>1. <<Own, sent[Own] + 1>> \in Messages
    BY <1>6, NextMessage DEF Reply, Threads
  <2> QED
    BY <1>1, <1>6, <2>1 DEF Reply
<1>7. CASE Poll \/ Return \/ DoToDoList \/ EndToDoList
  BY <1>2, <1>7 DEF Poll, Return, DoToDoList, EndToDoList, WriteArmed
<1>8. CASE \E s \in Others : TestState(s) \/ QueueSend(s)
  BY <1>2, <1>8 DEF TestState, QueueSend, WriteArmed
<1>9. CASE ClientReads \/ ClientSends \/ ClientCloses \/ LinkFails
  BY <1>2, <1>9 DEF ClientReads, ClientSends, ClientCloses, LinkFails, WriteArmed
<1>10. CASE UNCHANGED vars
  BY <1>2, <1>10 DEF vars, WriteArmed
<1> QED
  BY <1>3, <1>4, <1>5, <1>6, <1>7, <1>8, <1>9, <1>10 DEF Next, LoopStep
-----------------------------------------------------------------------------
(* Bytes from the client *)

LEMMA InputStep ==
  ASSUME TypeOK, InputInOrder, [Next]_vars PROVE InputInOrder'
<1> USE DEF outVars, inVars, loopVars, sendVars, netVars, InputInOrder
<1>1. CASE HandleMessage
  <2>1. CASE state' = "kConnected"
    <3>1. state = "kConnected" /\ got' = came /\ handed' = handed \o read_buffer'
      BY <1>1, <2>1 DEF HandleMessage, HandleClose
    <3>2. /\ read_buffer' \in Seq(Nat) /\ Len(read_buffer') = came - got
          /\ \A i \in 1..(came - got) : read_buffer'[i] = got + i
      BY <1>1, FillFacts DEF HandleMessage
    <3>3. /\ handed \in Seq(Nat) /\ Len(handed) = got /\ got \in Nat /\ came \in Nat
          /\ got <= came
      BY <3>1 DEF TypeOK
    <3> DEFINE h == handed
               r == read_buffer'
    <3> HIDE DEF h, r
    <3>4. /\ Len(h \o r) = came
          /\ \A i \in 1..came : (h \o r)[i] = IF i <= got THEN h[i] ELSE r[i - got]
      <4>1. /\ h \in Seq(Nat) /\ r \in Seq(Nat) /\ Len(h) = got /\ Len(r) = came - got
        BY <3>2, <3>3 DEF h, r
      <4>2. /\ Len(h \o r) = Len(h) + Len(r)
            /\ \A i \in 1..(Len(h) + Len(r)) :
                 (h \o r)[i] = IF i <= Len(h) THEN h[i] ELSE r[i - Len(h)]
        BY <4>1, ConcatProperties
      <4>3. Len(h) + Len(r) = came
        BY <3>3, <4>1
      <4> QED
        BY <4>1, <4>2, <4>3
    <3>5. ASSUME NEW i \in 1..came PROVE (h \o r)[i] = i
      <4>1. CASE i <= got
        <5>1. i \in 1..Len(handed)
          BY <3>3, <4>1
        <5> QED
          BY <3>4, <4>1, <5>1 DEF h
      <4>2. CASE ~(i <= got)
        <5>1. i - got \in 1..(came - got) /\ got + (i - got) = i
          BY <3>3, <4>2
        <5> QED
          BY <3>2, <3>4, <4>2, <5>1 DEF r
      <4> QED
        BY <4>1, <4>2
    <3> QED
      BY <3>1, <3>4, <3>5 DEF h, r
  <2>2. CASE state' # "kConnected"
    BY <1>1, <2>2 DEF HandleMessage
  <2> QED
    BY <2>1, <2>2
<1>2. CASE CloseInLoop
  BY <1>2 DEF CloseInLoop, HandleClose
<1>3. CASE Poll \/ Return \/ HandleWrite \/ DoToDoList \/ EndToDoList \/ CallFunc \/ Reply
  BY <1>3 DEF Poll, Return, HandleWrite, DoToDoList, EndToDoList, CallFunc, Reply
<1>4. CASE \E s \in Others : TestState(s) \/ QueueSend(s)
  BY <1>4 DEF TestState, QueueSend
<1>5. CASE ClientReads \/ ClientSends \/ ClientCloses \/ LinkFails
  BY <1>5 DEF ClientReads, ClientSends, ClientCloses, LinkFails
<1>6. CASE UNCHANGED vars
  BY <1>6 DEF vars
<1> QED
  BY <1>1, <1>2, <1>3, <1>4, <1>5, <1>6 DEF Next, LoopStep
-----------------------------------------------------------------------------
(* The order of each thread's messages *)

\* What the elements of the queues and of ran are.
LEMMA Elements ==
  ASSUME TypeOK
  PROVE  /\ \A i \in 1..Len(to_do_list) :
              to_do_list[i] \in Messages /\ to_do_list[i][2] \in Nat
         /\ \A i \in 1..Len(funcs) : funcs[i] \in Messages /\ funcs[i][2] \in Nat
         /\ \A i \in 1..Len(ran) : /\ ran[i][1] \in Messages /\ ran[i][1][2] \in Nat
                                   /\ ran[i][1][1] \in Threads
         /\ \A s \in Threads : sent[s] \in Nat
         /\ Len(to_do_list) \in Nat /\ Len(funcs) \in Nat /\ Len(ran) \in Nat
<1>1. \A m \in Messages : m[1] \in Threads /\ m[2] \in Nat
  BY DEF Messages
<1>2. \A i \in 1..Len(ran) : ran[i] \in ByteSet
  BY DEF TypeOK
<1>3. \A b \in ByteSet : b[1] \in Messages
  BY DEF ByteSet
<1> QED
  BY <1>1, <1>2, <1>3, SizeAssumption DEF TypeOK

\* SendInLoop runs with a message that none of its thread's is later than.
LEMMA RunStep ==
  ASSUME TypeOK, SenderOrder, NEW m \in Messages, ran' = ran \/ ran' = ran \o Bytes(m),
         \A i \in 1..Len(ran) : ran[i][1][1] = m[1] => ran[i][1][2] <= m[2]
  PROVE  /\ \A j \in 1..Len(ran') :
              \/ j \in 1..Len(ran) /\ ran'[j] = ran[j]
              \/ j \notin 1..Len(ran) /\ ran'[j][1] = m
         /\ SenderOrder'
<1>1. \A j \in 1..Len(ran') :
        \/ j \in 1..Len(ran) /\ ran'[j] = ran[j]
        \/ j \notin 1..Len(ran) /\ ran'[j][1] = m
  <2>1. CASE ran' = ran
    BY <2>1
  <2>2. CASE ran' = ran \o Bytes(m)
    <3> DEFINE B == Bytes(m)
    <3>1. ran \in Seq(ByteSet) /\ B \in Seq(ByteSet) /\ Len(B) = MsgLen
          /\ \A i \in 1..Len(B) : B[i][1] = m
      BY BytesFacts DEF TypeOK
    <3> HIDE DEF B
    <3>2. /\ Len(ran \o B) = Len(ran) + Len(B)
          /\ \A i \in 1..Len(ran) : (ran \o B)[i] = ran[i]
          /\ \A i \in 1..(Len(ran) + Len(B)) : i \notin 1..Len(ran) =>
               i - Len(ran) \in 1..Len(B) /\ (ran \o B)[i] = B[i - Len(ran)]
      BY <3>1, Behind
    <3>3. ran' = ran \o B
      BY <2>2 DEF B
    <3> SUFFICES ASSUME NEW j \in 1..Len(ran')
                 PROVE  \/ j \in 1..Len(ran) /\ ran'[j] = ran[j]
                        \/ j \notin 1..Len(ran) /\ ran'[j][1] = m
      OBVIOUS
    <3>4. j \in 1..(Len(ran) + Len(B))
      BY <3>2, <3>3
    <3> QED
      BY <3>1, <3>2, <3>3, <3>4
  <2> QED
    BY <2>1, <2>2
<1>2. SenderOrder'
  <2> SUFFICES ASSUME NEW i \in 1..Len(ran'), NEW j \in 1..Len(ran'), i < j,
                      ran'[i][1][1] = ran'[j][1][1]
               PROVE  ran'[i][1][2] <= ran'[j][1][2]
    BY DEF SenderOrder
  <2>1. m[2] \in Nat /\ Len(ran) \in Nat
    BY Elements DEF Messages
  <2>2. CASE j \in 1..Len(ran)
    <3>1. i \in 1..Len(ran)
      BY <2>1, <2>2
    <3> QED
      BY <1>1, <2>2, <3>1 DEF SenderOrder
  <2>3. CASE j \notin 1..Len(ran) /\ i \in 1..Len(ran)
    BY <1>1, <2>3
  <2>4. CASE j \notin 1..Len(ran) /\ i \notin 1..Len(ran)
    BY <1>1, <2>1, <2>4
  <2> QED
    BY <2>2, <2>3, <2>4
<1> QED
  BY <1>1, <1>2

\* A message of another thread is queued behind those of the thread.
LEMMA QueueStep ==
  ASSUME TypeOK, Queues, SenderOrder, NEW s \in Others, QueueSend(s)
  PROVE  Queues' /\ SenderOrder'
<1> DEFINE m == <<s, sent[s]>>
           q == Append(to_do_list, m)
           n == Len(to_do_list)
<1>1. /\ s \in tested /\ tested' = tested \ {s} /\ to_do_list' = q
      /\ UNCHANGED <<ran, funcs, sent>>
  BY DEF QueueSend, Queued, outVars
<1>2. /\ to_do_list \in Seq(Messages) /\ n \in Nat /\ Len(q) = n + 1
      /\ q[n + 1] = m /\ \A i \in 1..n : q[i] = to_do_list[i]
      /\ s \in Threads /\ sent[s] \in Nat /\ m[1] = s /\ m[2] = sent[s]
  BY SizeAssumption DEF TypeOK, Threads
<1> HIDE DEF m, q, n
<1>3. \A t, k : Before(t, k) => BeforeNext(t, k)
  BY <1>1 DEF Before, BeforeNext
<1>4. BeforeNext(s, sent[s])
  BY <1>1, <1>2 DEF BeforeNext
<1>5. \A k \in Nat : Before(s, k) => k <= sent[s]
  BY DEF Before
<1>6. ASSUME NEW j \in 1..Len(q) PROVE j \in 1..n \/ j = n + 1
  BY <1>2, <1>6
<1>7. ASSUME NEW j \in 1..Len(q)
      PROVE  q[j][1] \in Others /\ BeforeNext(q[j][1], q[j][2])
  <2>1. CASE j \in 1..n
    BY <1>2, <1>3, <2>1 DEF Queues, QueuedOK, n
  <2>2. CASE j = n + 1
    BY <1>2, <1>4, <2>2
  <2> QED
    BY <1>6, <2>1, <2>2
<1>8. InOrder(q)
  <2> SUFFICES ASSUME NEW i \in 1..Len(q), NEW j \in 1..Len(q), i < j, q[i][1] = q[j][1]
               PROVE  q[i][2] <= q[j][2]
    BY DEF InOrder
  <2>1. i \in 1..n
    BY <1>2
  <2>2. CASE j \in 1..n
    BY <1>2, <2>1, <2>2 DEF Queues, InOrder, n
  <2>3. CASE j = n + 1
    BY <1>2, <1>5, <2>1, <2>3, Elements DEF Queues, QueuedOK, n
  <2> QED
    BY <1>6, <2>2, <2>3
<1>9. RanFirst(q)
  <2> SUFFICES ASSUME NEW i \in 1..Len(ran), NEW j \in 1..Len(q), ran[i][1][1] = q[j][1]
               PROVE  ran[i][1][2] <= q[j][2]
    BY DEF RanFirst
  <2>1. CASE j \in 1..n
    BY <1>2, <2>1 DEF Queues, RanFirst, n
  <2>2. CASE j = n + 1
    BY <1>2, <1>5, <2>2, Elements DEF Queues
  <2> QED
    BY <1>6, <2>1, <2>2
<1>10. ASSUME NEW i \in 1..Len(funcs), NEW j \in 1..Len(q), funcs[i][1] = q[j][1]
       PROVE  funcs[i][2] <= q[j][2]
  <2>1. CASE j \in 1..n
    BY <1>2, <1>10, <2>1 DEF Queues, n
  <2>2. CASE j = n + 1
    BY <1>2, <1>5, <1>10, <2>2, Elements DEF Queues, QueuedOK
  <2> QED
    BY <1>6, <2>1, <2>2
<1>11. /\ \A i \in 1..Len(funcs) :
            funcs[i][1] \in Others /\ BeforeNext(funcs[i][1], funcs[i][2])
       /\ \A i \in 1..Len(ran) : BeforeNext(ran[i][1][1], ran[i][1][2])
  BY <1>1, <1>3 DEF Queues, QueuedOK
<1> QED
  BY <1>1, <1>7, <1>8, <1>9, <1>10, <1>11
     DEF Queues, QueuedOK, InOrder, RanFirst, SenderOrder, Before, BeforeNext

\* The next functor of the round is the next message of its thread.
LEMMA CallStep ==
  ASSUME TypeOK, WriteArmed, Queues, SenderOrder, CallFunc
  PROVE  Queues' /\ SenderOrder'
<1> DEFINE m == Head(funcs)
           q == Tail(funcs)
<1>1. /\ m \in Messages /\ funcs # <<>> /\ SendInLoop(m) /\ funcs' = q
      /\ UNCHANGED <<state, sent, tested, to_do_list>>
  BY DEF CallFunc, TypeOK, sendVars
<1>2. /\ Len(funcs) \in Nat /\ Len(funcs) > 0 /\ m = funcs[1]
      /\ Len(q) = Len(funcs) - 1 /\ \A i \in 1..Len(q) : q[i] = funcs[i + 1]
  BY <1>1 DEF TypeOK
<1>3. ran' = ran \/ ran' = ran \o Bytes(m)
  BY <1>1, SendCases
<1> HIDE DEF m, q
<1>4. \A i \in 1..Len(q) : i + 1 \in 1..Len(funcs) /\ i + 1 > 1
  BY <1>2
<1>5. 1 \in 1..Len(funcs) /\ m[1] \in Others /\ Before(m[1], m[2])
  BY <1>2 DEF Queues, QueuedOK
<1>6. \A i \in 1..Len(ran) : ran[i][1][1] = m[1] => ran[i][1][2] <= m[2]
  BY <1>2, <1>5 DEF Queues, RanFirst
<1>7. /\ \A j \in 1..Len(ran') :
           \/ j \in 1..Len(ran) /\ ran'[j] = ran[j]
           \/ j \notin 1..Len(ran) /\ ran'[j][1] = m
      /\ SenderOrder'
  BY <1>1, <1>3, <1>6, RunStep
<1>8. \A t, k : Before(t, k)' <=> Before(t, k)
  BY <1>1 DEF Before
<1>9. QueuedOK(q) /\ InOrder(q)
  <2>1. QueuedOK(q)
    BY <1>2, <1>4 DEF Queues, QueuedOK
  <2>2. ASSUME NEW i \in 1..Len(q), NEW j \in 1..Len(q), i < j, q[i][1] = q[j][1]
        PROVE  q[i][2] <= q[j][2]
    <3>1. i + 1 \in 1..Len(funcs) /\ j + 1 \in 1..Len(funcs) /\ i + 1 < j + 1
      BY <1>4, <2>2
    <3> QED
      BY <1>2, <2>2, <3>1 DEF Queues, InOrder
  <2> QED
    BY <2>1, <2>2 DEF InOrder
<1>10. ASSUME NEW i \in 1..Len(ran'), NEW j \in 1..Len(q), ran'[i][1][1] = q[j][1]
       PROVE  ran'[i][1][2] <= q[j][2]
  <2>1. CASE i \in 1..Len(ran) /\ ran'[i] = ran[i]
    BY <1>2, <1>4, <1>10, <2>1 DEF Queues, RanFirst
  <2>2. CASE ran'[i][1] = m
    BY <1>2, <1>4, <1>5, <1>10, <2>2 DEF Queues, InOrder
  <2> QED
    BY <1>7, <2>1, <2>2
<1>11. ASSUME NEW i \in 1..Len(ran'), NEW j \in 1..Len(to_do_list),
              ran'[i][1][1] = to_do_list[j][1]
       PROVE  ran'[i][1][2] <= to_do_list[j][2]
  <2>1. CASE i \in 1..Len(ran) /\ ran'[i] = ran[i]
    BY <1>11, <2>1 DEF Queues, RanFirst
  <2>2. CASE ran'[i][1] = m
    BY <1>2, <1>5, <1>11, <2>2 DEF Queues
  <2> QED
    BY <1>7, <2>1, <2>2
<1>12. ASSUME NEW i \in 1..Len(q), NEW j \in 1..Len(to_do_list), q[i][1] = to_do_list[j][1]
       PROVE  q[i][2] <= to_do_list[j][2]
  BY <1>2, <1>4, <1>12 DEF Queues
<1>13. ASSUME NEW i \in 1..Len(ran') PROVE Before(ran'[i][1][1], ran'[i][1][2])
  BY <1>5, <1>7 DEF Queues
<1>14. QueuedOK(to_do_list) /\ InOrder(to_do_list)
  BY DEF Queues
<1> QED
  BY <1>1, <1>7, <1>8, <1>9, <1>10, <1>11, <1>12, <1>13, <1>14
     DEF Queues, QueuedOK, InOrder, RanFirst

\* A reply overtakes what is queued, none of which is the connection's own thread's.
LEMMA ReplyStep ==
  ASSUME TypeOK, WriteArmed, Queues, SenderOrder, Reply
  PROVE  Queues' /\ SenderOrder'
<1> DEFINE m == <<Own, sent[Own] + 1>>
<1>1. /\ m \in Messages /\ SendInLoop(m) /\ sent' = [sent EXCEPT ![Own] = sent[Own] + 1]
      /\ UNCHANGED <<state, tested, to_do_list, funcs>>
  BY NextMessage DEF Reply, Threads, loopVars
<1>2. /\ Own \in Threads /\ Own \notin Others /\ Own \notin tested
      /\ sent[Own] \in Nat /\ m[1] = Own /\ m[2] = sent[Own] + 1
  BY OwnAssumption, Elements DEF Threads, TypeOK
<1>3. ran' = ran \/ ran' = ran \o Bytes(m)
  BY <1>1, SendCases
<1> HIDE DEF m
<1>4. \A t \in Threads : t # Own => sent'[t] = sent[t]
  BY <1>1 DEF TypeOK
<1>5. sent'[Own] = sent[Own] + 1
  BY <1>1, <1>2 DEF TypeOK
<1>6. \A i \in 1..Len(ran) : ran[i][1][1] = m[1] => ran[i][1][2] <= m[2]
  BY <1>2, Elements DEF Queues, Before
<1>7. /\ \A j \in 1..Len(ran') :
           \/ j \in 1..Len(ran) /\ ran'[j] = ran[j]
           \/ j \notin 1..Len(ran) /\ ran'[j][1] = m
      /\ SenderOrder'
  BY <1>1, <1>3, <1>6, RunStep
<1>8. ASSUME NEW t \in Threads, NEW k \in Nat, Before(t, k) PROVE BeforeNext(t, k)
  <2>1. CASE t = Own
    BY <1>1, <1>2, <1>5, <1>8, <2>1 DEF Before, BeforeNext
  <2>2. CASE t # Own
    BY <1>1, <1>4, <1>8, <2>2 DEF Before, BeforeNext
  <2> QED
    BY <2>1, <2>2
<1>9. BeforeNext(m[1], m[2])
  BY <1>1, <1>2, <1>5 DEF BeforeNext
<1>10. /\ \A i \in 1..Len(to_do_list) :
            to_do_list[i][1] \in Others /\ BeforeNext(to_do_list[i][1], to_do_list[i][2])
       /\ \A i \in 1..Len(funcs) :
            funcs[i][1] \in Others /\ BeforeNext(funcs[i][1], funcs[i][2])
  BY <1>1, <1>8, Elements DEF Queues, QueuedOK, Threads
<1>11. \A j \in 1..Len(to_do_list) : to_do_list[j][1] # Own
  BY <1>2 DEF Queues, QueuedOK
<1>12. \A j \in 1..Len(funcs) : funcs[j][1] # Own
  BY <1>2 DEF Queues, QueuedOK
<1>13. /\ \A i \in 1..Len(ran'), j \in 1..Len(to_do_list) :
            ran'[i][1][1] = to_do_list[j][1] => ran'[i][1][2] <= to_do_list[j][2]
       /\ \A i \in 1..Len(ran'), j \in 1..Len(funcs) :
            ran'[i][1][1] = funcs[j][1] => ran'[i][1][2] <= funcs[j][2]
  BY <1>1, <1>2, <1>7, <1>11, <1>12 DEF Queues, RanFirst
<1>14. ASSUME NEW i \in 1..Len(ran') PROVE BeforeNext(ran'[i][1][1], ran'[i][1][2])
  BY <1>7, <1>8, <1>9, Elements DEF Queues
<1> QED
  BY <1>1, <1>7, <1>10, <1>13, <1>14 DEF Queues, QueuedOK, InOrder, RanFirst, Before, BeforeNext

LEMMA OrderStep ==
  ASSUME TypeOK, WriteArmed, Queues, SenderOrder, [Next]_vars
  PROVE  Queues' /\ SenderOrder'
<1> USE DEF outVars, inVars, loopVars, sendVars, netVars
<1>1. ASSUME UNCHANGED <<ran, to_do_list, funcs, sent, tested>>
      PROVE  Queues' /\ SenderOrder'
  BY <1>1 DEF Queues, QueuedOK, InOrder, RanFirst, Before, SenderOrder
<1>2. CASE Poll \/ HandleMessage \/ Return \/ HandleWrite \/ EndToDoList \/ CloseInLoop
  <2>1. UNCHANGED <<ran, to_do_list, funcs, sent, tested>>
    BY <1>2 DEF Poll, HandleMessage, Return, HandleWrite, EndToDoList, CloseInLoop
  <2> QED
    BY <1>1, <2>1
<1>3. CASE DoToDoList
  <2>1. funcs' = to_do_list /\ to_do_list' = <<>> /\ UNCHANGED <<ran, sent, tested>>
    BY <1>3 DEF DoToDoList
  <2>2. Len(to_do_list') = 0
    BY <2>1
  <2>3. /\ \A i \in 1..Len(funcs') : /\ funcs'[i][1] \in Others
                                     /\ Before(funcs'[i][1], funcs'[i][2])
        /\ InOrder(funcs') /\ RanFirst(funcs')
    BY <2>1 DEF Queues, QueuedOK
  <2> QED
    BY <2>1, <2>2, <2>3 DEF Queues, QueuedOK, InOrder, RanFirst, Before, SenderOrder
<1>4. CASE CallFunc \/ Reply
  BY <1>4, CallStep, ReplyStep
<1>5. ASSUME NEW s \in Others, TestState(s) PROVE Queues' /\ SenderOrder'
  <2>1. /\ tested' = tested \union {s} /\ s \notin tested
        /\ sent' = [sent EXCEPT ![s] = @ + 1]
        /\ UNCHANGED <<ran, to_do_list, funcs>> /\ s \in Threads
    BY <1>5 DEF TestState, Threads
  <2>2. ASSUME NEW t \in Threads, NEW k \in Nat, Before(t, k) PROVE BeforeNext(t, k)
    <3>1. sent'[t] = IF t = s THEN sent[t] + 1 ELSE sent[t]
      BY <2>1 DEF TypeOK
    <3> QED
      BY <2>1, <2>2, <3>1, Elements DEF Before, BeforeNext
  <2>3. /\ \A i \in 1..Len(to_do_list) :
             to_do_list[i][1] \in Others /\ BeforeNext(to_do_list[i][1], to_do_list[i][2])
        /\ \A i \in 1..Len(funcs) :
             funcs[i][1] \in Others /\ BeforeNext(funcs[i][1], funcs[i][2])
        /\ \A i \in 1..Len(ran) : BeforeNext(ran[i][1][1], ran[i][1][2])
    BY <2>2, Elements DEF Queues, QueuedOK, Threads
  <2> QED
    BY <2>1, <2>3 DEF Queues, QueuedOK, InOrder, RanFirst, Before, BeforeNext, SenderOrder
<1>6. ASSUME NEW s \in Others, QueueSend(s) PROVE Queues' /\ SenderOrder'
  BY <1>6, QueueStep
<1>7. CASE ClientReads \/ ClientSends \/ ClientCloses \/ LinkFails
  BY <1>1, <1>7 DEF ClientReads, ClientSends, ClientCloses, LinkFails
<1>8. CASE UNCHANGED vars
  BY <1>1, <1>8 DEF vars
<1> QED
  BY <1>2, <1>3, <1>4, <1>5, <1>6, <1>7, <1>8 DEF Next, LoopStep
-----------------------------------------------------------------------------
(* Theorems *)

LEMMA Inductive == Spec => [](TypeOK /\ IInv)
<1>1. ASSUME Init PROVE TypeOK /\ IInv
  <2>1. /\ Out = <<>> /\ Len(<<>>) = 0 /\ 1..0 = {}
        /\ SubSeq(<<>>, 1, 0) = <<>>
    <3>1. <<>> \o <<>> = <<>> /\ SubSeq(<<>>, 1, 0) = <<>>
      OBVIOUS
    <3> QED
      BY <1>1, <3>1 DEF Init, Out
  <2>2. TypeOK
    <3>1. \A S : <<>> \in Seq(S)
      OBVIOUS
    <3>2. 0 \in 0..MaxSends /\ 0 \in 0..SockSize /\ 0 \in 0..0 /\ 0 \in Nat
      BY SizeAssumption
    <3>3. sent \in [Threads -> 0..MaxSends] /\ fin \in BOOLEAN /\ aborted \in BOOLEAN
      BY <1>1, <3>2 DEF Init
    <3> QED
      BY <1>1, <3>1, <3>2, <3>3 DEF Init, TypeOK
  <2>3. StreamInOrder /\ Waits
    BY <1>1, <2>1 DEF Init, StreamInOrder, Waits, Out
  <2>4. Counted /\ WriteArmed /\ InputInOrder /\ SenderOrder
    BY <1>1, <2>1 DEF Init, Counted, WriteArmed, InputInOrder, SenderOrder
  <2>5. Queues
    BY <1>1, <2>1 DEF Init, Queues, QueuedOK, InOrder, RanFirst
  <2> QED
    BY <2>2, <2>3, <2>4, <2>5 DEF IInv
<1>2. ASSUME TypeOK, IInv, [Next]_vars PROVE TypeOK' /\ IInv'
  BY <1>2, TypeStep, StreamStep, InputStep, OrderStep DEF IInv
<1> QED
  BY <1>1, <1>2, PTL DEF Spec

\* Every variable keeps its type: the socket is never given more than it takes, and
\* Read never claims bytes that did not come.
THEOREM Typing == Spec => []TypeOK
BY Inductive, PTL

\* The client gets the messages SendInLoop was run with, whole and in that order, as
\* far as it gets them, through partial writes, EAGAIN and failing links; messages
\* are dropped by a reset connection only, and then all that follow.
THEOREM StreamIsInOrder == Spec => []StreamInOrder
<1>1. IInv => StreamInOrder
  BY DEF IInv
<1> QED
  BY <1>1, Inductive, PTL

\* EPOLLOUT is on exactly while an open connection has bytes to write.
THEOREM WriteStaysArmed == Spec => []WriteArmed
<1>1. IInv => WriteArmed
  BY DEF IInv
<1> QED
  BY <1>1, Inductive, PTL

\* The messages of each thread are sent in the order of its calls of Send, through
\* the test of state_, the queue, the swap and the replies that overtake them.
THEOREM SendersKeepOrder == Spec => []SenderOrder
<1>1. IInv => SenderOrder
  BY DEF IInv
<1> QED
  BY <1>1, Inductive, PTL

\* on_message_ is given every byte that was read while the connection was open,
\* once and in order, though Read clears the buffer each time.
THEOREM InputIsInOrder == Spec => []InputInOrder
<1>1. IInv => InputInOrder
  BY DEF IInv
<1> QED
  BY <1>1, Inductive, PTL
-----------------------------------------------------------------------------
(* The modules ConnIO is built on: what it does with its send buffer and its functor *)
(* queue is what Buffer and EventLoop have been shown to do                          *)

SendQueue == INSTANCE ByteQueue WITH Byte <- ByteSet, queue <- send_buffer

\* What SendInLoop does with the send buffer: it appends what was not written.
LEMMA SendPuts ==
  ASSUME TypeOK, NEW m \in Messages, SendInLoop(m)
  PROVE  UNCHANGED send_buffer \/ \E s \in Seq(ByteSet) : SendQueue!Put(s)
<1>1. ASSUME NEW n \in 0..MsgLen, Keep(m, n)
      PROVE  UNCHANGED send_buffer \/ \E s \in Seq(ByteSet) : SendQueue!Put(s)
  <2>1. SubSeq(Bytes(m), n + 1, MsgLen) \in Seq(ByteSet)
    BY BytesFacts, Cut
  <2> QED
    BY <1>1, <2>1 DEF Keep, SendQueue!Put
<1>2. Room(MsgLen) \subseteq 0..MsgLen /\ 0 \in 0..MsgLen
  BY SizeAssumption DEF Room
<1> QED
  BY <1>1, <1>2 DEF SendInLoop, Drop, outVars

\* Through every way of sending and writing, the bytes that wait in send_buffer_ are
\* appended at its end and retrieved from its front and nothing else: what Buffer.cpp
\* does as a vector (RefinesByteQueue of BufferProofs) may take its place.
THEOREM SendBufferIsByteQueue == Spec => SendQueue!Spec
<1>1. Init => SendQueue!Init
  BY DEF Init, SendQueue!Init
<1>2. ASSUME TypeOK, [Next]_vars PROVE [SendQueue!Next]_send_buffer
  <2>1. CASE UNCHANGED send_buffer
    BY <2>1
  <2>2. CASE Reply
    <3>1. <<Own, sent[Own] + 1>> \in Messages
      BY <1>2, <2>2, NextMessage DEF Reply, Threads
    <3> QED
      BY <1>2, <2>2, <3>1, SendPuts DEF Reply, SendQueue!Next
  <2>3. CASE CallFunc
    <3>1. Head(funcs) \in Messages
      BY <1>2, <2>3, HeadTailProperties DEF CallFunc, TypeOK
    <3> QED
      BY <1>2, <2>3, <3>1, SendPuts DEF CallFunc, SendQueue!Next
  <2>4. CASE HandleWrite
    <3>1. ASSUME NEW n \in Room(Len(send_buffer)), WriteSome(n) PROVE SendQueue!Next
      <4>1. n \in Nat /\ n <= Len(send_buffer)
        BY <1>2 DEF Room, TypeOK
      <4>2. send_buffer' = SubSeq(send_buffer, n + 1, Len(send_buffer))
        BY <3>1 DEF WriteSome
      <4> QED
        BY <4>1, <4>2 DEF SendQueue!Next, SendQueue!Get
    <3> QED
      BY <2>1, <2>4, <3>1 DEF HandleWrite, WriteError
  <2>5. CASE UNCHANGED vars
    BY <2>1, <2>5 DEF vars, outVars
  <2>6. CASE \/ Poll \/ HandleMessage \/ Return \/ DoToDoList \/ EndToDoList
             \/ CloseInLoop \/ (\E s \in Others : TestState(s) \/ QueueSend(s))
             \/ ClientReads \/ ClientSends \/ ClientCloses \/ LinkFails
    BY <2>1, <2>6 DEF Poll, HandleMessage, Return, DoToDoList, EndToDoList, CloseInLoop,
       TestState, QueueSend, ClientReads, ClientSends, ClientCloses, LinkFails, outVars
  <2> QED
    BY <1>2, <2>2, <2>3, <2>4, <2>5, <2>6 DEF Next, LoopStep
<1> QED
  BY <1>1, <1>2, Typing, PTL DEF Spec, SendQueue!Spec

\* The functors that are pending: those of this round, and then the list.
Functors == funcs \o to_do_list

\* What TaskQueue calls Submit and Start, of the messages bound in the functors.
SubmitNext(m) ==
  /\ \A i \in DOMAIN Functors : Functors[i] # m
  /\ Functors' = Append(Functors, m)

StartNext ==
  /\ Functors # <<>> /\ SendInLoop(Head(Functors))
  /\ Functors' = Tail(Functors)

\* Only DoToDoList fills calling_funcs_, which the round before has left empty.
Swapped == pc # "funcs" => funcs = <<>>

LEMMA SwappedStep == ASSUME Swapped, [Next]_vars PROVE Swapped'
<1>1. CASE UNCHANGED <<pc, funcs>>
  BY <1>1 DEF Swapped
<1>2. CASE DoToDoList \/ CallFunc \/ EndToDoList
  BY <1>2 DEF DoToDoList, CallFunc, EndToDoList, Swapped
<1>3. CASE Poll \/ HandleMessage \/ Return
  <2>1. UNCHANGED funcs /\ pc # "funcs"
    BY <1>3 DEF Poll, HandleMessage, Return
  <2> QED
    BY <2>1 DEF Swapped
<1>4. CASE \/ HandleWrite \/ Reply \/ CloseInLoop
           \/ (\E s \in Others : TestState(s) \/ QueueSend(s))
           \/ ClientReads \/ ClientSends \/ ClientCloses \/ LinkFails
  <2>1. UNCHANGED <<pc, funcs>>
    BY <1>4 DEF HandleWrite, Reply, CloseInLoop, TestState, QueueSend, ClientReads,
       ClientSends, ClientCloses, LinkFails, loopVars
  <2> QED
    BY <1>1, <2>1
<1>5. CASE UNCHANGED vars
  BY <1>1, <1>5 DEF vars, loopVars
<1> QED
  BY <1>2, <1>3, <1>4, <1>5 DEF Next, LoopStep

\* What the two ends of a concatenation are.
LEMMA Ends ==
  ASSUME NEW S, NEW f \in Seq(S), NEW q \in Seq(S), NEW x \in S
  PROVE  /\ f \o Append(q, x) = Append(f \o q, x)
         /\ f # <<>> => /\ f \o q # <<>> /\ Head(f \o q) = Head(f)
                        /\ Tail(f \o q) = Tail(f) \o q
         /\ <<>> \o q = q /\ q \o <<>> = q
         /\ \A i \in DOMAIN (f \o q) :
              \/ i \in 1..Len(f) /\ (f \o q)[i] = f[i]
              \/ i - Len(f) \in 1..Len(q) /\ (f \o q)[i] = q[i - Len(f)]
OBVIOUS

\* Whoever calls Send and whenever the list is swapped, SendInLoop is run with the
\* message that has been pending longest, once, and no message is handed over while
\* it is pending: ConnIO uses its functors as TaskQueue, which EventLoop implements,
\* lets it (QueueOneFunc, DoToDoList).
THEOREM FunctorsAreTaskQueue ==
  Spec => [][StartNext \/ \E m \in Messages : SubmitNext(m)]_Functors
<1>1. Init => Swapped
  BY DEF Init, Swapped
<1>2. Swapped /\ [Next]_vars => Swapped'
  BY SwappedStep
<1>3. ASSUME TypeOK, IInv, Swapped, [Next]_vars
      PROVE  [StartNext \/ \E m \in Messages : SubmitNext(m)]_Functors
  <2>0. funcs \in Seq(Messages) /\ to_do_list \in Seq(Messages)
    BY <1>3 DEF TypeOK
  <2>1. CASE UNCHANGED <<funcs, to_do_list>>
    BY <2>1 DEF Functors
  <2>2. CASE DoToDoList
    <3>1. funcs = <<>> /\ funcs' = to_do_list /\ to_do_list' = <<>>
      BY <1>3, <2>2 DEF DoToDoList, Swapped
    <3>2. to_do_list \o <<>> = <<>> \o to_do_list
      BY <2>0, ConcatEmptySeq
    <3> QED
      BY <3>1, <3>2 DEF Functors
  <2>3. CASE CallFunc
    <3>1. /\ funcs # <<>> /\ funcs' = Tail(funcs) /\ SendInLoop(Head(funcs))
          /\ UNCHANGED to_do_list
      BY <2>3 DEF CallFunc
    <3>2. Head(funcs) \in Messages
      BY <2>0, <3>1, HeadTailProperties
    <3>3. /\ funcs \o to_do_list # <<>> /\ Head(funcs \o to_do_list) = Head(funcs)
          /\ Tail(funcs \o to_do_list) = Tail(funcs) \o to_do_list
      BY <2>0, <3>1, <3>2, Ends
    <3>4. StartNext
      BY <3>1, <3>3 DEF StartNext, Functors
    <3> QED
      BY <3>4
  <2>4. ASSUME NEW s \in Others, QueueSend(s)
        PROVE  \E m \in Messages : SubmitNext(m)
    <3> DEFINE m == <<s, sent[s]>>
    <3>1. /\ s \in tested /\ sent[s] > 0 /\ UNCHANGED funcs
          /\ to_do_list' = Append(to_do_list, m)
      BY <1>3, <2>4 DEF QueueSend, Queued, IInv, Counted
    <3>2. m \in Messages
      BY <1>3, <3>1, SizeAssumption DEF TypeOK, Messages, Threads
    <3>3. Functors' = Append(Functors, m)
      BY <2>0, <3>1, <3>2, Ends DEF Functors
    <3>4. m[1] = s /\ m[2] = sent[s] /\ sent[s] \in Nat
      BY <1>3, SizeAssumption DEF TypeOK, Threads
    <3> HIDE DEF m
    <3>5. ASSUME NEW q, QueuedOK(q), NEW i \in 1..Len(q) PROVE q[i] # m
      <4>1. q[i][1] = s => q[i][2] < sent[s]
        BY <3>1, <3>5 DEF QueuedOK, Before
      <4> QED
        BY <3>4, <4>1
    <3>6. \A i \in DOMAIN Functors : Functors[i] # m
      <4> SUFFICES ASSUME NEW i \in DOMAIN Functors PROVE Functors[i] # m
        OBVIOUS
      <4>1. QueuedOK(funcs) /\ QueuedOK(to_do_list)
        BY <1>3 DEF IInv, Queues
      <4>2. \/ i \in 1..Len(funcs) /\ Functors[i] = funcs[i]
            \/ /\ i - Len(funcs) \in 1..Len(to_do_list)
               /\ Functors[i] = to_do_list[i - Len(funcs)]
        BY <2>0, <3>2, Ends DEF Functors
      <4> QED
        BY <3>5, <4>1, <4>2
    <3> QED
      BY <3>2, <3>3, <3>6 DEF SubmitNext
  <2>5. CASE \/ Poll \/ HandleMessage \/ Return \/ HandleWrite \/ EndToDoList
             \/ Reply \/ CloseInLoop \/ (\E s \in Others : TestState(s))
             \/ ClientReads \/ ClientSends \/ ClientCloses \/ LinkFails
    <3>1. UNCHANGED <<funcs, to_do_list>>
      BY <2>5 DEF Poll, HandleMessage, Return, HandleWrite, EndToDoList, Reply,
         CloseInLoop, TestState, ClientReads, ClientSends, ClientCloses, LinkFails,
         loopVars
    <3> QED
      BY <2>1, <3>1
  <2>6. CASE UNCHANGED vars
    BY <2>1, <2>6 DEF vars, loopVars
  <2> QED
    BY <1>3, <2>2, <2>3, <2>4, <2>5, <2>6 DEF Next, LoopStep
<1> QED
  BY <1>1, <1>2, <1>3, Inductive, PTL DEF Spec
=============================================================================
