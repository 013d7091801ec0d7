------------------------------- MODULE ConnIO -------------------------------
(***************************************************************************)
(* The bytes of one established connection (TcpConnection.cpp, with the    *)
(* part of Channel.cpp that asks epoll for EPOLLOUT): Read and on_message_ *)
(* on one side; Send from any thread, SendInLoop, the send buffer and      *)
(* HandleWrite on the other; the socket and the client between them.       *)
(*                                                                         *)
(* A byte is named by its message and its place in it, so that loss,       *)
(* repetition and reordering all show.  The buffers are the byte queues    *)
(* Buffer.cpp promises (Buffer.tla).                                       *)
(***************************************************************************)
EXTENDS Naturals, Sequences

CONSTANTS Own,      \* the thread of the connection's loop
          Others,   \* threads of other loops that send to this connection
          MsgLen,   \* bytes of a message
          SockSize, \* bytes the socket holds until the client reads them
          MaxSends, \* bound: messages of each thread
          MaxIn     \* bound: bytes the client sends

ASSUME OwnAssumption == Own \notin Others
ASSUME SizeAssumption ==
  MsgLen \in Nat \ {0} /\ SockSize \in Nat \ {0} /\ MaxSends \in Nat /\ MaxIn \in Nat

VARIABLES
  state,        \* state_
  listen,       \* listen_events_ of the channel, of "in" and "out"
  send_buffer,  \* send_buffer_
  read_buffer,  \* read_buffer_
  pc,           \* the loop: "poll", "events", "message" (on_message_), "funcs"
  events,       \* ready_events_ still to handle in this round
  to_do_list,   \* messages bound in queued SendInLoop functors
  funcs,        \* those of this round still to run
  sent,         \* how many messages each thread has called Send with
  tested,       \* threads between Send's test of state_ and QueueOneFunc
  link,         \* the TCP connection: "up", "timedout" or "reset"
  fin,          \* the client has closed its end
  came, got,    \* bytes from the client: received by the kernel, read
  unread,       \* bytes to the client that the socket still holds
  wire,         \* history: bytes the socket took
  ran,          \* history: bytes of messages SendInLoop found it open for
  handed,       \* history: bytes on_message_ was given
  aborted       \* an assert failed: the process is gone

loopVars == <<pc, events, to_do_list, funcs>>
sendVars == <<sent, tested>>
inVars == <<read_buffer, got, handed>>
netVars == <<link, fin, came, unread>>
outVars == <<send_buffer, listen, wire, ran>>
vars == <<state, outVars, inVars, loopVars, sendVars, netVars, aborted>>

Threads == Others \union {Own}
Messages == Threads \X (1..MaxSends)
Bytes(m) == [i \in 1..MsgLen |-> <<m, i>>]
ByteSet == Messages \X (1..MsgLen)

\* ConnectionEstablished has run: EnableRead.
Init ==
  /\ state = "kConnected" /\ listen = {"in"}
  /\ send_buffer = <<>> /\ read_buffer = <<>>
  /\ pc = "poll" /\ events = {} /\ to_do_list = <<>> /\ funcs = <<>>
  /\ sent = [s \in Threads |-> 0] /\ tested = {}
  /\ link = "up" /\ fin = FALSE /\ came = 0 /\ got = 0 /\ unread = 0
  /\ wire = <<>> /\ ran = <<>> /\ handed = <<>>
  /\ aborted = FALSE
-----------------------------------------------------------------------------
(* The socket *)

\* What epoll would report; errors make both readable and writable.
Ready(e) ==
  \/ link # "up"
  \/ e = "in" /\ (got < came \/ fin)
  \/ e = "out" /\ unread < SockSize

\* write takes some of the bytes of s, from the front.
Take(s, n) ==
  /\ wire' = wire \o SubSeq(s, 1, n)
  /\ unread' = unread + n

\* How many of len bytes it may take; none possible is EAGAIN.
Room(len) == {n \in 0..len : unread + n <= SockSize /\ (n = 0 => len = 0)}

\* A write that fails takes nothing.  The first one after a timeout returns
\* ETIMEDOUT, every later one EPIPE.
WriteFails ==
  /\ link' = IF link = "timedout" THEN "reset" ELSE link
  /\ UNCHANGED <<wire, unread>>
-----------------------------------------------------------------------------
(* Sending *)

\* Mutant of EnableWrite: the channel does not listen for EPOLLOUT.
StillReading == UNCHANGED listen

EnableWrite == listen' = listen \union {"out"}

\* What write left over is appended, and waits for EPOLLOUT.
Keep(m, n) ==
  /\ IF n < MsgLen
     THEN /\ send_buffer' = send_buffer \o SubSeq(Bytes(m), n + 1, MsgLen)
          /\ EnableWrite
     ELSE UNCHANGED <<send_buffer, listen>>
  /\ ran' = ran \o Bytes(m)

\* fault_error_: EPIPE or ECONNRESET, and the message is dropped.
Drop(m) ==
  /\ UNCHANGED <<send_buffer, listen>>
  /\ ran' = ran \o Bytes(m)

\* Mutant of MayWriteNow: SendInLoop writes although older bytes are waiting.
AlwaysWriteNow == TRUE

MayWriteNow == "out" \notin listen /\ send_buffer = <<>>

SendInLoop(m) ==
  \/ /\ state = "kConnected" /\ MayWriteNow /\ link = "up"
     /\ \/ \E n \in Room(MsgLen) : Take(Bytes(m), n) /\ Keep(m, n)
        \/ Room(MsgLen) = {} /\ UNCHANGED <<wire, unread>> /\ Keep(m, 0)
     /\ UNCHANGED link
  \/ /\ state = "kConnected" /\ MayWriteNow /\ link # "up"
     /\ WriteFails
     /\ IF link = "reset" THEN Drop(m) ELSE Keep(m, 0)
  \/ /\ state = "kConnected" /\ ~MayWriteNow
     /\ Keep(m, 0) /\ UNCHANGED <<wire, unread, link>>
  \/ /\ state # "kConnected"
     /\ UNCHANGED <<outVars, unread, link>>

\* Send from another thread: state_ is read there ...
TestState(s) ==
  /\ s \notin tested /\ sent[s] < MaxSends /\ state = "kConnected"
  /\ tested' = tested \union {s}
  /\ sent' = [sent EXCEPT ![s] = @ + 1]
  /\ UNCHANGED <<state, outVars, inVars, loopVars, netVars, aborted>>

\* Mutant of Queued: the functors are run last in, first out.
QueuedFirst(s) == <<<<s, sent[s]>>>> \o to_do_list

Queued(s) == Append(to_do_list, <<s, sent[s]>>)

\* ... and RunOneFunc queues SendInLoop with a copy of the message.
QueueSend(s) ==
  /\ s \in tested
  /\ tested' = tested \ {s}
  /\ to_do_list' = Queued(s)
  /\ UNCHANGED <<state, outVars, inVars, pc, events, funcs, sent, netVars,
                 aborted>>

\* Send by on_message_, on the loop's thread: SendInLoop runs at once.
Reply ==
  /\ pc = "message" /\ sent[Own] < MaxSends /\ state = "kConnected"
  /\ sent' = [sent EXCEPT ![Own] = @ + 1]
  /\ SendInLoop(<<Own, sent[Own] + 1>>)
  /\ UNCHANGED <<state, inVars, loopVars, tested, fin, came, aborted>>

\* Mutant of DisableWrite: EPOLLOUT stays on.
KeepWriting == UNCHANGED listen

DisableWrite == listen' = listen \ {"out"}

\* write, Retrieve, DisableWrite when nothing is left.
WriteSome(n) ==
  /\ Take(send_buffer, n)
  /\ send_buffer' = SubSeq(send_buffer, n + 1, Len(send_buffer))
  /\ IF n = Len(send_buffer) THEN DisableWrite ELSE UNCHANGED listen
  /\ UNCHANGED <<link, aborted>>

\* write returns -1, and Retrieve(-1) runs before the test of it: its assert fails
\* on the largest size_t, whatever errno is.
WriteError ==
  /\ link # "up"
  /\ WriteFails
  /\ aborted' = TRUE
  /\ UNCHANGED <<send_buffer, listen>>

HandleWrite ==
  /\ pc = "events" /\ "in" \notin events /\ "out" \in events
  /\ events' = {}
  /\ IF "out" \in listen /\ state = "kConnected"
     THEN \/ link = "up" /\ \E n \in Room(Len(send_buffer)) : WriteSome(n)
          \/ WriteError
     ELSE UNCHANGED <<send_buffer, listen, wire, unread, link, aborted>>
  /\ UNCHANGED <<state, ran, inVars, pc, to_do_list, funcs, sendVars, fin, came>>
-----------------------------------------------------------------------------
(* Receiving and closing *)

\* HandleClose: DisableAll; what the server then does is in ConnLifecycle.tla.
HandleClose == state' = "kClosed" /\ listen' = {}

\* Mutant of Fill: Read does not start with RetrieveAll.
FillOn == read_buffer' = read_buffer \o [i \in 1..(came - got) |-> got + i]

\* Read: RetrieveAll, then every byte there is.
Fill == read_buffer' = [i \in 1..(came - got) |-> got + i]

\* HandleMessage reads to EAGAIN and starts on_message_; or to the end of the
\* stream or an error, and closes: on_message_ does not get these bytes.
HandleMessage ==
  /\ pc = "events" /\ "in" \in events
  /\ events' = events \ {"in"}
  /\ Fill /\ got' = came
  /\ IF fin \/ link # "up" THEN HandleClose ELSE UNCHANGED <<state, listen>>
  /\ IF state' = "kConnected"
     THEN pc' = "message" /\ handed' = handed \o read_buffer'
     ELSE UNCHANGED <<pc, handed>>
  /\ UNCHANGED <<send_buffer, wire, ran, to_do_list, funcs, sendVars, netVars,
                 aborted>>

\* on_message_ closes the connection, or a timer handled in the same round does.
CloseInLoop ==
  /\ pc \in {"message", "events"} /\ state = "kConnected"
  /\ HandleClose
  /\ UNCHANGED <<send_buffer, wire, ran, inVars, loopVars, sendVars, netVars,
                 aborted>>

Return ==
  /\ pc = "message" /\ pc' = "events"
  /\ UNCHANGED <<state, outVars, inVars, events, to_do_list, funcs, sendVars,
                 netVars, aborted>>
-----------------------------------------------------------------------------
(* The loop *)

Poll ==
  /\ pc = "poll"
  /\ events' = {e \in listen : Ready(e)}
  /\ events' # {} \/ to_do_list # <<>>
  /\ pc' = "events"
  /\ UNCHANGED <<state, outVars, inVars, to_do_list, funcs, sendVars, netVars,
                 aborted>>

DoToDoList ==
  /\ pc = "events" /\ events = {}
  /\ pc' = "funcs" /\ funcs' = to_do_list /\ to_do_list' = <<>>
  /\ UNCHANGED <<state, outVars, inVars, events, sendVars, netVars, aborted>>

CallFunc ==
  /\ pc = "funcs" /\ funcs # <<>>
  /\ funcs' = Tail(funcs)
  /\ SendInLoop(Head(funcs))
  /\ UNCHANGED <<state, inVars, pc, events, to_do_list, sendVars, fin, came,
                 aborted>>

\* Mutant of EndToDoList: the thread leaves its loop after a round.
EndLoop ==
  /\ pc = "funcs" /\ funcs = <<>>
  /\ pc' = "done"
  /\ UNCHANGED <<state, outVars, inVars, events, to_do_list, funcs, sendVars,
                 netVars, aborted>>

EndToDoList ==
  /\ pc = "funcs" /\ funcs = <<>>
  /\ pc' = "poll"
  /\ UNCHANGED <<state, outVars, inVars, events, to_do_list, funcs, sendVars,
                 netVars, aborted>>

LoopStep ==
  \/ Poll \/ HandleMessage \/ Return \/ HandleWrite
  \/ DoToDoList \/ CallFunc \/ EndToDoList
-----------------------------------------------------------------------------
(* The client and the network *)

ClientReads ==
  /\ unread > 0 /\ link = "up"
  /\ unread' \in 0..(unread - 1)
  /\ UNCHANGED <<state, outVars, inVars, loopVars, sendVars, link, fin, came,
                 aborted>>

ClientSends ==
  /\ link = "up" /\ ~fin /\ came < MaxIn
  /\ came' = came + 1
  /\ UNCHANGED <<state, outVars, inVars, loopVars, sendVars, link, fin, unread,
                 aborted>>

ClientCloses ==
  /\ link = "up" /\ fin' = TRUE
  /\ UNCHANGED <<state, outVars, inVars, loopVars, sendVars, link, came, unread,
                 aborted>>

LinkFails ==
  /\ link = "up" /\ link' \in {"timedout", "reset"}
  /\ UNCHANGED <<state, outVars, inVars, loopVars, sendVars, fin, came, unread,
                 aborted>>

Next ==
  /\ ~aborted
  /\ \/ LoopStep \/ Reply \/ CloseInLoop
     \/ \E s \in Others : TestState(s) \/ QueueSend(s)
     \/ ClientReads \/ ClientSends \/ ClientCloses \/ LinkFails

\* The threads are scheduled and on_message_ returns.  A client that reads nothing
\* is owed nothing, so it is assumed to read what it was sent.
Fairness ==
  /\ WF_vars(~aborted /\ LoopStep)
  /\ \A s \in Others : WF_vars(~aborted /\ QueueSend(s))
  /\ WF_vars(~aborted /\ ClientReads)

Spec == Init /\ [][Next]_vars /\ Fairness
-----------------------------------------------------------------------------
(* Properties *)

TypeOK ==
  /\ state \in {"kConnected", "kClosed"}
  /\ listen \subseteq {"in", "out"} /\ events \subseteq {"in", "out"}
  /\ send_buffer \in Seq(ByteSet) /\ wire \in Seq(ByteSet) /\ ran \in Seq(ByteSet)
  /\ read_buffer \in Seq(Nat) /\ handed \in Seq(Nat)
  /\ pc \in {"poll", "events", "message", "funcs"}
  /\ to_do_list \in Seq(Messages) /\ funcs \in Seq(Messages)
  /\ sent \in [Threads -> 0..MaxSends] /\ tested \subseteq Others
  /\ link \in {"up", "timedout", "reset"} /\ fin \in BOOLEAN
  /\ came \in Nat /\ got \in 0..came /\ unread \in 0..SockSize
  /\ aborted \in BOOLEAN

\* What the socket took and what the buffer holds are the messages SendInLoop
\* was run with, whole and in that order, though any of them may have been
\* written in part; and all of them, unless a reset connection made it drop some,
\* after which no later one gets through.
StreamInOrder ==
  LET out == wire \o send_buffer
  IN  /\ Len(out) <= Len(ran) /\ out = SubSeq(ran, 1, Len(out))
      /\ link # "reset" => Len(out) = Len(ran)

\* Each thread's messages reach SendInLoop in the order it called Send, though
\* those of the connection's own thread overtake the queued ones.
SenderOrder ==
  \A i, j \in 1..Len(ran) :
    i < j /\ ran[i][1][1] = ran[j][1][1] => ran[i][1][2] <= ran[j][1][2]

\* An open connection listens for EPOLLOUT exactly while it has bytes to write:
\* else they are stranded, or Poll returns for ever.
WriteArmed ==
  state = "kConnected" => ("out" \in listen <=> send_buffer # <<>>)

\* on_message_ is given every byte read, once and in order, until the connection
\* closes.
InputInOrder ==
  /\ \A i \in 1..Len(handed) : handed[i] = i
  /\ state = "kConnected" => Len(handed) = got

\* A message given to SendInLoop is on the wire in the end, or the connection has
\* been closed, or an assert has ended the process.
Waiting(m) ==
  \/ \E i \in 1..Len(to_do_list) : to_do_list[i] = m
  \/ \E i \in 1..Len(send_buffer) : send_buffer[i][1] = m

OnWire(m) == \E i \in 1..Len(wire) : wire[i] = <<m, MsgLen>>

Delivered ==
  \A m \in Messages : Waiting(m) ~> OnWire(m) \/ state = "kClosed" \/ aborted

\* Retrieve is never asked for more than the buffer holds: the assert of
\* Buffer.cpp:79.
RetrieveInRange == ~aborted
=============================================================================
