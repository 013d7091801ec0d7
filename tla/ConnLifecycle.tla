--------------------------- MODULE ConnLifecycle ---------------------------
(***************************************************************************)
(* The life of a TcpConnection: accepted by the main reactor, established, *)
(* read from and written to on the loop it was given, closed there, erased *)
(* from TcpServer::connections_ by the main reactor, destroyed back on its *)
(* own loop (TcpServer.cpp, TcpConnection.cpp, Channel.cpp, and the part   *)
(* of HttpServer.cpp that keeps, shares and closes connections).           *)
(*                                                                         *)
(* An object owned through shared_ptr lives exactly as long as something   *)
(* refers to it (Referenced).  epoll's data.ptr and the channels Poll has  *)
(* returned are raw pointers and keep nothing alive.                       *)
(*                                                                         *)
(* The functor queues are used as EventLoop.tla shows them to behave; the  *)
(* eventfd is left out.                                                    *)
(***************************************************************************)
EXTENDS Naturals, Sequences

CONSTANTS Conns,      \* TcpConnection objects, one per accepted client
          NoConn,     \* nullptr
          Fds,        \* descriptors accept4 can return
          NoFd,       \* -1
          Loops,      \* every event loop
          Main,       \* the main reactor
          Pool,       \* loops_ in creation order, or <<Main>> without threads
          Ids,        \* login ids, the keys of HttpServer::id_conn_
          AutoClose,  \* auto_close_conn_
          MaxList     \* bound: no Send from another loop to a longer list

ASSUME NoConnAssumption == NoConn \notin Conns
ASSUME NoFdAssumption == NoFd \notin Fds
ASSUME MainAssumption == Main \in Loops
ASSUME PoolAssumption == Pool \in Seq(Loops) /\ Pool # <<>>
ASSUME AutoCloseAssumption == AutoClose \in BOOLEAN
ASSUME MaxListAssumption == MaxList \in Nat

VARIABLES
  created,      \* connections that were ever accepted
  fd,           \* connfd_ of each connection
  loop,         \* loop_ of each connection
  next,         \* EventLoopThreadPool::next_, counted from 1
  state,        \* state_ of each connection
  registered,   \* connections whose channel is in its loop's epoll set
  writing,      \* connections whose channel listens for EPOLLOUT
  connections,  \* TcpServer::connections_
  id_conn,      \* HttpServer::id_conn_
  timers,       \* connections bound in a pending ActiveCloseConn timer
  fired,        \* those bound in a timer that ran and is not yet deleted
  pc,           \* each loop: "poll", "events", "funcs"
  active,       \* each loop: events still to handle of those Poll returned
  to_do_list,   \* each loop: functors <<what, connection>>
  funcs,        \* each loop: functors of this round still to call
  called,       \* each loop: connections bound in functors of this round that
                \* have been called (the vector keeps them to the end of it)
  handling,     \* each loop: the connection whose on_message_ is running
  peer,         \* each loop: another connection that on_message_ has got
  sending,      \* loops that saw peer connected and will hand it SendInLoop
  aborted       \* an assert failed: the process is gone

connVars == <<created, fd, loop, next>>
channelVars == <<state, registered, writing>>
timerVars == <<timers, fired>>
roundVars == <<pc, active, funcs, called>>
messageVars == <<handling, peer, sending>>
vars == <<connVars, channelVars, connections, id_conn, timerVars, roundVars,
          to_do_list, messageVars, aborted>>

ConnOrNone == Conns \union {NoConn}
Functors == {"established", "send", "close", "destroy"} \X Conns

In(f, s) == \E i \in DOMAIN s : s[i] = f
Listed(c, s) == \E what \in {"established", "send", "close", "destroy"} :
                   In(<<what, c>>, s)
Pending(what, c, l) == In(<<what, c>>, to_do_list[l]) \/ In(<<what, c>>, funcs[l])

\* Some shared_ptr owns c: connections_, id_conn_, a bound functor or timer,
\* or a local of the callback that is running.
Referenced(c) ==
  \/ \E f \in Fds : connections[f] = c
  \/ \E id \in Ids : id_conn[id] = c
  \/ c \in timers \union fired
  \/ \E l \in Loops : \/ Listed(c, to_do_list[l]) \/ Listed(c, funcs[l])
                      \/ c \in called[l]
                      \/ handling[l] = c \/ peer[l] = c

\* ~TcpConnection closes connfd_, so the kernel can give out these again.
FreeFds == {f \in Fds : \A c \in created : Referenced(c) => fd[c] # f}

Init ==
  /\ created = {} /\ next = 1
  /\ fd = [c \in Conns |-> NoFd] /\ loop = [c \in Conns |-> Main]
  /\ state = [c \in Conns |-> "kConnected"]
  /\ registered = {} /\ writing = {}
  /\ connections = [f \in Fds |-> NoConn]
  /\ id_conn = [id \in Ids |-> NoConn]
  /\ timers = {} /\ fired = {}
  /\ pc = [l \in Loops |-> "poll"]
  /\ active = [l \in Loops |-> {}]
  /\ to_do_list = [l \in Loops |-> <<>>]
  /\ funcs = [l \in Loops |-> <<>>]
  /\ called = [l \in Loops |-> {}]
  /\ handling = [l \in Loops |-> NoConn]
  /\ peer = [l \in Loops |-> NoConn]
  /\ sending = {}
  /\ aborted = FALSE
-----------------------------------------------------------------------------
(* Effects shared by several handlers *)

Queue(l, what, c) ==
  to_do_list' = [to_do_list EXCEPT ![l] = Append(@, <<what, c>>)]

\* Poller::UpdateChannel: EPOLL_CTL_ADD unless the channel is in the set.
UpdateChannel(c) == registered' = registered \union {c}

\* Mutant of DeleteChannel: ConnectionDestructor without it.
KeepChannel(c) == UNCHANGED registered

DeleteChannel(c) == registered' = registered \ {c}

\* Mutant of EraseAndQueue: connections_.erase is forgotten.
EraseNothing(c) ==
  /\ UNCHANGED connections
  /\ Queue(loop[c], "destroy", c)

\* HandleCloseConnectionInPoller, on the main reactor: erase by descriptor and
\* queue ConnectionDestructor on the connection's loop.  Its assert that the
\* descriptor is there is ErasesItself, below.
EraseAndQueue(c) ==
  /\ connections' = [connections EXCEPT ![fd[c]] = NoConn]
  /\ Queue(loop[c], "destroy", c)

\* Mutant of AlreadyClosed: HandleClose does not look at state_.
NeverClosed(c) == FALSE

AlreadyClosed(c) == state[c] = "kClosed"

\* HandleClose on connection c, by c's loop: the test of state_, DisableAll,
\* then TcpServer::HandleCloseConnection, which is RunOneFunc on the main
\* reactor: at once on its own thread, queued from another.
HandleClose(c) ==
  IF AlreadyClosed(c)
  THEN UNCHANGED <<channelVars, connections, to_do_list>>
  ELSE /\ state' = [state EXCEPT ![c] = "kClosed"]
       /\ writing' = writing \ {c}
       /\ UpdateChannel(c)
       /\ IF loop[c] = Main
          THEN EraseAndQueue(c)
          ELSE Queue(Main, "close", c) /\ UNCHANGED connections

\* Mutant of StillOpen: SendInLoop does not look at state_ again.
AlwaysOpen(c) == TRUE

StillOpen(c) == state[c] = "kConnected"

\* SendInLoop on c's loop.  With bytes left over (in_full = FALSE) it appends
\* them and enables writing; sent in full, faulty or closed it changes nothing
\* kept here.
SendInLoop(c, in_full) ==
  /\ UNCHANGED state
  /\ IF StillOpen(c) /\ ~in_full
     THEN writing' = writing \union {c} /\ UpdateChannel(c)
     ELSE UNCHANGED <<registered, writing>>

\* The thread of l is between two callbacks of its round.
Between(l) == handling[l] = NoConn /\ \A c \in fired : loop[c] # l

-----------------------------------------------------------------------------
(* The round of an event loop *)

\* Events epoll may report on l: readiness of a channel, or a hang-up, which it
\* reports even after DisableAll.  (HandleEvent then calls nothing, which changes
\* as little here as a read of a closed connection.)
Reportable(l) ==
  {<<c, "read">> : c \in {d \in registered : loop[d] = l}}
  \union {<<c, "write">> : c \in {d \in writing : loop[d] = l}}

Poll(l, events) ==
  /\ pc[l] = "poll"
  /\ active' = [active EXCEPT ![l] = events]
  /\ pc' = [pc EXCEPT ![l] = "events"]
  /\ UNCHANGED <<connVars, channelVars, connections, id_conn, timerVars, funcs,
                 called, to_do_list, messageVars, aborted>>

\* DoToDoList up to the swap.
DoToDoList(l) ==
  /\ pc[l] = "events" /\ Between(l) /\ active[l] = {}
  /\ pc' = [pc EXCEPT ![l] = "funcs"]
  /\ funcs' = [funcs EXCEPT ![l] = to_do_list[l]]
  /\ to_do_list' = [to_do_list EXCEPT ![l] = <<>>]
  /\ UNCHANGED <<connVars, channelVars, connections, id_conn, timerVars, active,
                 called, messageVars, aborted>>

\* The end of DoToDoList: the vector of functors goes, and what they held.
EndToDoList(l) ==
  /\ pc[l] = "funcs" /\ funcs[l] = <<>>
  /\ pc' = [pc EXCEPT ![l] = "poll"]
  /\ called' = [called EXCEPT ![l] = {}]
  /\ UNCHANGED <<connVars, channelVars, connections, id_conn, timerVars, active,
                 funcs, to_do_list, messageVars, aborted>>

\* Every functor call starts so.
Call(l, what, c) ==
  /\ pc[l] = "funcs" /\ funcs[l] # <<>> /\ Head(funcs[l]) = <<what, c>>
  /\ funcs' = [funcs EXCEPT ![l] = Tail(@)]
  /\ called' = [called EXCEPT ![l] = @ \union {c}]
  /\ UNCHANGED <<connVars, id_conn, pc, active, messageVars, aborted>>

\* EnableET, EnableRead, Tie, then HttpServer::OnConnection.
ConnectionEstablished(l, c) ==
  /\ Call(l, "established", c)
  /\ UpdateChannel(c)
  /\ timers' = IF AutoClose /\ state[c] = "kConnected"
               THEN timers \union {c} ELSE timers
  /\ UNCHANGED <<state, writing, connections, fired, to_do_list>>

SendQueued(l, c, in_full) ==
  /\ Call(l, "send", c)
  /\ SendInLoop(c, in_full)
  /\ UNCHANGED <<connections, timerVars, to_do_list>>

HandleCloseConnectionInPoller(c) ==
  /\ Call(Main, "close", c)
  /\ EraseAndQueue(c)
  /\ UNCHANGED <<channelVars, timerVars>>

\* DeleteChannel; OnConnection on a closed connection does nothing, for its
\* second test repeats the first (HttpServer.cpp:62).
ConnectionDestructor(l, c) ==
  /\ Call(l, "destroy", c)
  /\ DeleteChannel(c)
  /\ UNCHANGED <<state, writing, connections, timerVars, to_do_list>>

-----------------------------------------------------------------------------
(* Event handlers *)

\* Mutant of NextLoop: next_ is not reset at thread_nums_.
NextWithoutWrap == next + 1

\* EventLoopThreadPool::GetNextLoop's round robin.
NextLoop == IF next = Len(Pool) THEN 1 ELSE next + 1

\* The acceptor's channel: accept4, then TcpServer::HandleNewConnection.
AcceptConnection(c, f) ==
  /\ pc[Main] = "events" /\ Between(Main)
  /\ c \notin created /\ f \in FreeFds
  /\ created' = created \union {c}
  /\ fd' = [fd EXCEPT ![c] = f]
  /\ loop' = [loop EXCEPT ![c] = Pool[next]]
  /\ next' = NextLoop
  /\ connections' = [connections EXCEPT ![f] = c]
  /\ Queue(Pool[next], "established", c)
  /\ UNCHANGED <<channelVars, id_conn, timerVars, roundVars, messageVars,
                 aborted>>

\* accept4 returns -1 (no descriptor left, or the client has gone): the error
\* is printed, -1 is passed on, and HandleNewConnection asserts it is not -1.
AcceptFails ==
  /\ pc[Main] = "events" /\ Between(Main)
  /\ aborted' = TRUE
  /\ UNCHANGED <<connVars, channelVars, connections, id_conn, timerVars,
                 roundVars, to_do_list, messageVars>>

Handle(l, c, what) ==
  /\ pc[l] = "events" /\ Between(l)
  /\ <<c, what>> \in active[l]
  /\ active' = [active EXCEPT ![l] = @ \ {<<c, what>>}]
  /\ UNCHANGED <<connVars, id_conn, timerVars, pc, funcs, called, peer, sending,
                 aborted>>

\* HandleMessage that reads up to EAGAIN: on_message_ starts if still open.
ReadData(l, c) ==
  /\ Handle(l, c, "read")
  /\ handling' = IF state[c] = "kConnected"
                 THEN [handling EXCEPT ![l] = c] ELSE handling
  /\ UNCHANGED <<channelVars, connections, to_do_list>>

\* HandleMessage that reads the end of the stream, or an error.
ReadEnd(l, c) ==
  /\ Handle(l, c, "read")
  /\ HandleClose(c)
  /\ UNCHANGED handling

\* HandleWrite, after HandleMessage of the same event; DisableWrite once the
\* send buffer is empty (in_full).
HandleWrite(l, c, in_full) ==
  /\ Handle(l, c, "write") /\ <<c, "read">> \notin active[l]
  /\ IF c \in writing /\ state[c] = "kConnected" /\ in_full
     THEN writing' = writing \ {c} /\ UpdateChannel(c)
     ELSE UNCHANGED <<writing, registered>>
  /\ UNCHANGED <<state, connections, to_do_list, handling>>

\* An expired timer of HandleRead runs ActiveCloseConn (timestamp_ is never
\* set, so it is always out of date) ...
ActiveCloseConn(l, c) ==
  /\ pc[l] = "events" /\ handling[l] = NoConn
  /\ c \in timers /\ loop[c] = l
  /\ timers' = timers \ {c} /\ fired' = fired \union {c}
  /\ HandleClose(c)
  /\ UNCHANGED <<connVars, id_conn, roundVars, messageVars, aborted>>

\* ... and TimerQueue::ResetTimers deletes the timers that ran.
ResetTimers(l) ==
  /\ \E c \in fired : loop[c] = l
  /\ fired' = {c \in fired : loop[c] # l}
  /\ UNCHANGED <<connVars, channelVars, connections, id_conn, timers, roundVars,
                 to_do_list, messageVars, aborted>>

-----------------------------------------------------------------------------
(* What on_message_ may do on loop l (HttpServer::OnMessage and the business *)
(* code it calls, as far as it reaches connections)                          *)

InMessage(l) == handling[l] # NoConn /\ l \notin sending

\* Send to its own connection: RunOneFunc runs SendInLoop at once.
Reply(l, in_full) ==
  /\ InMessage(l)
  /\ SendInLoop(handling[l], in_full)
  /\ UNCHANGED <<connVars, connections, id_conn, timerVars, roundVars,
                 to_do_list, messageVars, aborted>>

\* HttpServer::HandleCloseConnection of its own connection.
CloseOwn(l) ==
  /\ InMessage(l)
  /\ HandleClose(handling[l])
  /\ UNCHANGED <<connVars, id_conn, timerVars, roundVars, messageVars, aborted>>

\* User::HandleLogin registers the connection under its id ...
AddConn(l, id) ==
  /\ InMessage(l)
  /\ id_conn' = [id_conn EXCEPT ![id] = handling[l]]
  /\ UNCHANGED <<connVars, channelVars, connections, timerVars, roundVars,
                 to_do_list, messageVars, aborted>>

\* ... and HandleLogout removes the id, whichever connection it leads to.
RemoveConn(l, id) ==
  /\ InMessage(l) /\ id_conn[id] # NoConn
  /\ id_conn' = [id_conn EXCEPT ![id] = NoConn]
  /\ UNCHANGED <<connVars, channelVars, connections, timerVars, roundVars,
                 to_do_list, messageVars, aborted>>

\* HandleTransport looks the receiver up ...
GetConn(l, id) ==
  /\ InMessage(l) /\ peer[l] = NoConn /\ id_conn[id] # NoConn
  /\ peer' = [peer EXCEPT ![l] = id_conn[id]]
  /\ UNCHANGED <<connVars, channelVars, connections, id_conn, timerVars,
                 roundVars, to_do_list, handling, sending, aborted>>

\* ... and sends to it.  TcpConnection::Send reads state_ on this thread ...
TestPeer(l) ==
  /\ InMessage(l) /\ peer[l] # NoConn
  /\ state[peer[l]] = "kConnected"
  /\ Len(to_do_list[loop[peer[l]]]) < MaxList
  /\ sending' = sending \union {l}
  /\ UNCHANGED <<connVars, channelVars, connections, id_conn, timerVars,
                 roundVars, to_do_list, handling, peer, aborted>>

\* ... and then RunOneFunc runs or queues SendInLoop.
SendToPeer(l, in_full) ==
  /\ l \in sending
  /\ sending' = sending \ {l}
  /\ IF loop[peer[l]] = l
     THEN SendInLoop(peer[l], in_full) /\ UNCHANGED to_do_list
     ELSE Queue(loop[peer[l]], "send", peer[l]) /\ UNCHANGED channelVars
  /\ UNCHANGED <<connVars, connections, id_conn, timerVars, roundVars, handling,
                 peer, aborted>>

\* on_message_ returns; its locals go.
Return(l) ==
  /\ InMessage(l)
  /\ handling' = [handling EXCEPT ![l] = NoConn]
  /\ peer' = [peer EXCEPT ![l] = NoConn]
  /\ UNCHANGED <<connVars, channelVars, connections, id_conn, timerVars,
                 roundVars, to_do_list, sending, aborted>>

-----------------------------------------------------------------------------
\* A loop with functors or timers wakes up without any client doing anything.
PollForWork(l) ==
  /\ to_do_list[l] # <<>> \/ \E c \in timers : loop[c] = l
  /\ \E events \in SUBSET Reportable(l) : Poll(l, events)

PollForClients(l) ==
  \E events \in SUBSET Reportable(l) : Poll(l, events)

Functor(l) ==
  \E c \in Conns :
    \/ ConnectionEstablished(l, c)
    \/ ConnectionDestructor(l, c)
    \/ l = Main /\ HandleCloseConnectionInPoller(c)
    \/ \E in_full \in BOOLEAN : SendQueued(l, c, in_full)

HandleEvent(l) ==
  \E c \in Conns :
    \/ ReadData(l, c) \/ ReadEnd(l, c)
    \/ \E in_full \in BOOLEAN : HandleWrite(l, c, in_full)

Finish(l) == Return(l) \/ \E in_full \in BOOLEAN : SendToPeer(l, in_full)

LoopStep(l) ==
  \/ PollForWork(l) \/ HandleEvent(l) \/ ResetTimers(l) \/ DoToDoList(l)
  \/ Functor(l) \/ EndToDoList(l) \/ Finish(l)

OnMessage(l) ==
  \/ CloseOwn(l) \/ TestPeer(l) \/ \E in_full \in BOOLEAN : Reply(l, in_full)
  \/ \E id \in Ids : AddConn(l, id) \/ RemoveConn(l, id) \/ GetConn(l, id)

Next ==
  /\ ~aborted
  /\ \/ \E l \in Loops : LoopStep(l) \/ PollForClients(l) \/ OnMessage(l)
     \/ \E l \in Loops, c \in Conns : ActiveCloseConn(l, c)
     \/ AcceptFails \/ \E c \in Conns, f \in Fds : AcceptConnection(c, f)

\* Each loop's thread is scheduled.  A callback returns, however often it calls
\* Send before, and a pending timer expires, after which Poll reports the timerfd
\* every round: so these two are strongly fair.  No client is obliged to anything.
Fairness ==
  /\ \A l \in Loops : /\ WF_vars(~aborted /\ LoopStep(l))
                     /\ SF_vars(~aborted /\ Return(l))
  /\ \A c \in Conns :
       SF_vars(~aborted /\ \E l \in Loops : ActiveCloseConn(l, c))

Spec == Init /\ [][Next]_vars /\ Fairness

-----------------------------------------------------------------------------
(* Properties *)

TypeOK ==
  /\ created \subseteq Conns
  /\ fd \in [Conns -> Fds \union {NoFd}]
  /\ loop \in [Conns -> Loops]
  /\ next \in 1..Len(Pool)
  /\ state \in [Conns -> {"kConnected", "kClosed"}]
  /\ registered \subseteq Conns /\ writing \subseteq Conns
  /\ connections \in [Fds -> ConnOrNone]
  /\ id_conn \in [Ids -> ConnOrNone]
  /\ timers \subseteq Conns /\ fired \subseteq Conns
  /\ pc \in [Loops -> {"poll", "events", "funcs"}]
  /\ active \in [Loops -> SUBSET (Conns \X {"read", "write"})]
  /\ to_do_list \in [Loops -> Seq(Functors)]
  /\ funcs \in [Loops -> Seq(Functors)]
  /\ called \in [Loops -> SUBSET Conns]
  /\ handling \in [Loops -> ConnOrNone]
  /\ peer \in [Loops -> ConnOrNone]
  /\ sending \subseteq Loops
  /\ aborted \in BOOLEAN

\* No raw Channel pointer outlives its connection: neither epoll's data.ptr nor
\* an event of the batch being handled leads to a destroyed TcpConnection,
\* whichever thread drops the last shared_ptr.
NoDanglingChannel ==
  /\ \A c \in registered : Referenced(c)
  /\ \A l \in Loops : \A e \in active[l] : Referenced(e[1])

\* The assert of HandleCloseConnectionInPoller (TcpServer.cpp:68), and more: what
\* it erases is this connection's own entry, not that of a later connection that
\* got the descriptor, and it erases it once.
ErasesItself ==
  \A c \in created :
    state[c] = "kConnected" \/ Pending("close", c, Main)
      => connections[fd[c]] = c

\* A connection that is in no table and has no teardown ahead, and that only a
\* timer, id_conn_ or a sender still keeps, is out of epoll; a late SendInLoop
\* does not put it back.
TornDown(c) ==
  /\ state[c] = "kClosed"
  /\ connections[fd[c]] # c
  /\ ~Pending("close", c, Main) /\ ~Pending("destroy", c, loop[c])

DeregisteredForGood ==
  \A c \in created : TornDown(c) => c \notin registered \union writing

\* A closed connection leaves connections_ and epoll and is then destroyed, which
\* closes its descriptor, unless a login still refers to it.  A timer that binds it
\* delays that, but not for ever.
ClosedDestroyed ==
  \A c \in Conns :
    state[c] = "kClosed"
      ~> \/ TornDown(c) /\ (Referenced(c) => \E id \in Ids : id_conn[id] = c)
         \/ aborted

\* The README promises smart pointers that manage memory and "avoid leaks"
\* (README.md:44).  Logins keep closed connections: OnConnection's cleanup
\* is unreachable, since it repeats the test of the branch before.
ClosedReleased ==
  \A c \in Conns : state[c] = "kClosed" ~> ~Referenced(c) \/ aborted
=============================================================================
