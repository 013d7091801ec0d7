------------------------ MODULE ConnLifecycleProofs ------------------------
(***************************************************************************)
(* Proofs about ConnLifecycle, for every number of clients, descriptors,   *)
(* loops and logins, with and without worker threads: the invariants of    *)
(* the run conn_lifecycle hold in every reachable state.                   *)
(*                                                                         *)
(* The argument follows a connection through four stages: its              *)
(* "established" functor is listed; it is open and used; its "close"       *)
(* functor is listed on the main reactor; its "destroy" functor is listed  *)
(* on its own loop.  Each functor that moves it on is listed once, and     *)
(* while a channel is in epoll one of the last three stages holds, each    *)
(* of which owns a shared_ptr.                                             *)
(***************************************************************************)
EXTENDS ConnLifecycle, TLAPS

What == {"established", "send", "close", "destroy"}

\* f is in s at most once.
Once(f, s) == \A i, j \in DOMAIN s : s[i] = f /\ s[j] = f => i = j

\* It is pending on l at most once.
Unique(what, c, l) ==
  /\ Once(<<what, c>>, to_do_list[l]) /\ Once(<<what, c>>, funcs[l])
  /\ ~(In(<<what, c>>, to_do_list[l]) /\ In(<<what, c>>, funcs[l]))

\* It is pending on some loop.
Due(what, c) == \E l \in Loops : Pending(what, c, l)

\* Something other than connections_ and its queued functors has hold of c.
Used(c) ==
  \/ c \in registered \union writing \union timers \union fired
  \/ \E id \in Ids : id_conn[id] = c
  \/ \E l \in Loops : \/ handling[l] = c \/ peer[l] = c
                      \/ \E what \in {"read", "write"} : <<c, what>> \in active[l]
  \/ Due("send", c)

\* The stages that own a shared_ptr while the channel may be in epoll.
Anchored(c) ==
  \/ state[c] = "kConnected"
  \/ Due("close", c)
  \/ Due("destroy", c)

-----------------------------------------------------------------------------
(* The inductive invariant, part by part *)

\* A connection not accepted yet is listed nowhere.
Fresh ==
  \A c \in Conns : c \notin created =>
    /\ state[c] = "kConnected"
    /\ \A what \in What, l \in Loops : ~Pending(what, c, l)

\* A connection is used from the moment it has been established.
UsedAfter ==
  \A c \in Conns : Used(c) => c \in created /\ ~Due("established", c)

\* connections_ maps a descriptor to a connection that has it.
MapOwns ==
  /\ \A c \in created : fd[c] \in Fds
  /\ \A f \in Fds : connections[f] # NoConn =>
       connections[f] \in created /\ fd[connections[f]] = f

\* Every functor is listed on the loop it belongs to, and those that move the
\* connection on are listed once.
Places ==
  \A c \in Conns, l \in Loops :
    /\ Pending("established", c, l) => l = loop[c]
    /\ Pending("destroy", c, l) => l = loop[c]
    /\ Pending("close", c, l) => l = Main
    /\ Unique("established", c, l) /\ Unique("close", c, l)

\* The stages exclude each other.
Stages ==
  \A c \in created :
    /\ state[c] = "kConnected" =>
         /\ connections[fd[c]] = c
         /\ ~Due("close", c) /\ ~Due("destroy", c)
    /\ Due("close", c) =>
         connections[fd[c]] = c /\ ~Due("destroy", c)
    /\ Due("established", c) => state[c] = "kConnected"

\* Channels in epoll or in a batch of events are anchored.
Anchors ==
  /\ \A c \in registered : Anchored(c)
  /\ \A c \in writing : state[c] = "kConnected"
  /\ \A l \in Loops, c \in Conns, what \in {"read", "write"} :
       <<c, what>> \in active[l] => Anchored(c) /\ loop[c] = l

\* What the loops' threads are doing.
Threads ==
  \A l \in Loops :
    /\ funcs[l] # <<>> => pc[l] = "funcs"
    /\ active[l] # {} => pc[l] = "events"
    /\ handling[l] # NoConn => loop[handling[l]] = l

\* A loop that is about to send has somebody to send to.
Senders == \A l \in sending : peer[l] \in Conns

Core == Fresh /\ MapOwns /\ Places /\ Stages

IInv == Core /\ UsedAfter /\ Anchors /\ Threads /\ Senders
-----------------------------------------------------------------------------
(* Sequences *)

LEMMA InAppend ==
  ASSUME NEW S, NEW s \in Seq(S), NEW x \in S
  PROVE  /\ \A f : In(f, Append(s, x)) <=> In(f, s) \/ f = x
         /\ \A f : Once(f, s) /\ (f # x \/ ~In(f, s)) => Once(f, Append(s, x))
<1>1. /\ DOMAIN s = 1..Len(s) /\ Len(s) \in Nat
      /\ DOMAIN Append(s, x) = 1..(Len(s) + 1)
      /\ \A i \in 1..Len(s) : Append(s, x)[i] = s[i]
      /\ Append(s, x)[Len(s) + 1] = x
  OBVIOUS
<1> QED
  BY <1>1 DEF In, Once

LEMMA InTail ==
  ASSUME NEW S, NEW s \in Seq(S), s # <<>>
  PROVE  /\ \A f : In(f, s) <=> f = Head(s) \/ In(f, Tail(s))
         /\ \A f : Once(f, s) => Once(f, Tail(s))
         /\ Once(Head(s), s) => ~In(Head(s), Tail(s))
<1>1. /\ DOMAIN s = 1..Len(s) /\ Len(s) \in Nat /\ Len(s) > 0
      /\ DOMAIN Tail(s) = 1..(Len(s) - 1)
      /\ \A i \in 1..(Len(s) - 1) : Tail(s)[i] = s[i + 1]
      /\ Head(s) = s[1]
  OBVIOUS
<1>2. ASSUME NEW i \in DOMAIN s, i # 1
      PROVE  i - 1 \in DOMAIN Tail(s) /\ s[i] = Tail(s)[i - 1]
  <2>1. i - 1 \in 1..(Len(s) - 1) /\ (i - 1) + 1 = i
    BY <1>1, <1>2
  <2> QED
    BY <1>1, <2>1
<1>3. \A f : In(f, s) <=> f = Head(s) \/ In(f, Tail(s))
  <2> SUFFICES ASSUME NEW f PROVE In(f, s) <=> f = Head(s) \/ In(f, Tail(s))
    OBVIOUS
  <2>1. ASSUME NEW i \in DOMAIN s, s[i] = f
        PROVE  f = Head(s) \/ In(f, Tail(s))
    BY <1>1, <1>2, <2>1 DEF In
  <2>2. ASSUME NEW i \in DOMAIN Tail(s), Tail(s)[i] = f PROVE In(f, s)
    <3>1. i + 1 \in DOMAIN s /\ s[i + 1] = f
      BY <1>1, <2>2
    <3> QED
      BY <3>1 DEF In
  <2>3. f = Head(s) => In(f, s)
    BY <1>1 DEF In
  <2> QED
    BY <2>1, <2>2, <2>3 DEF In
<1>4. \A f : Once(f, s) => Once(f, Tail(s))
  BY <1>1 DEF Once
<1>5. Once(Head(s), s) => ~In(Head(s), Tail(s))
  BY <1>1 DEF Once, In
<1> QED
  BY <1>3, <1>4, <1>5

LEMMA InEmpty == \A f : ~In(f, <<>>) /\ Once(f, <<>>)
BY DEF In, Once
-----------------------------------------------------------------------------
(* What the steps do to the functors that are listed *)

\* No functor added or called.
LEMMA StillPending ==
  ASSUME UNCHANGED <<to_do_list, funcs>>
  PROVE  \A what \in What, c \in Conns, l \in Loops :
           /\ Pending(what, c, l)' <=> Pending(what, c, l)
           /\ Unique(what, c, l)' <=> Unique(what, c, l)
BY DEF Pending, Unique

\* QueueOneFunc adds one.
LEMMA QueuePending ==
  ASSUME TypeOK, NEW w0 \in What, NEW c0 \in Conns, NEW l0 \in Loops,
         Queue(l0, w0, c0), UNCHANGED funcs
  PROVE  \A what \in What, c \in Conns, l \in Loops :
           /\ Pending(what, c, l)' <=>
                Pending(what, c, l) \/ (what = w0 /\ c = c0 /\ l = l0)
           /\ /\ Unique(what, c, l)
              /\ ~(what = w0 /\ c = c0 /\ l = l0) \/ ~Pending(what, c, l)
              => Unique(what, c, l)'
<1>1. <<w0, c0>> \in Functors /\ to_do_list[l0] \in Seq(Functors)
  BY DEF TypeOK, Functors, What
<1>2. /\ to_do_list'[l0] = Append(to_do_list[l0], <<w0, c0>>)
      /\ \A l \in Loops : l # l0 => to_do_list'[l] = to_do_list[l]
      /\ funcs' = funcs
  BY DEF Queue, TypeOK
<1>3. /\ \A f : In(f, to_do_list'[l0]) <=>
                 In(f, to_do_list[l0]) \/ f = <<w0, c0>>
      /\ \A f : /\ Once(f, to_do_list[l0])
                /\ f # <<w0, c0>> \/ ~In(f, to_do_list[l0])
                => Once(f, to_do_list'[l0])
  <2> DEFINE s == to_do_list[l0]
             x == <<w0, c0>>
  <2>1. s \in Seq(Functors) /\ x \in Functors
    BY <1>1
  <2> HIDE DEF s, x
  <2>2. /\ \A f : In(f, Append(s, x)) <=> In(f, s) \/ f = x
        /\ \A f : Once(f, s) /\ (f # x \/ ~In(f, s)) => Once(f, Append(s, x))
    BY <2>1, InAppend
  <2> USE DEF s, x
  <2> QED
    BY <1>2, <2>2
<1>4. \A what \in What, c \in Conns :
        <<what, c>> = <<w0, c0>> <=> what = w0 /\ c = c0
  OBVIOUS
<1>5. ASSUME NEW what \in What, NEW c \in Conns, NEW l \in Loops
      PROVE  /\ Pending(what, c, l)' <=>
                  Pending(what, c, l) \/ (what = w0 /\ c = c0 /\ l = l0)
             /\ /\ Unique(what, c, l)
                /\ ~(what = w0 /\ c = c0 /\ l = l0) \/ ~Pending(what, c, l)
                => Unique(what, c, l)'
  <2>1. CASE l # l0
    BY <1>2, <2>1 DEF Pending, Unique
  <2>2. CASE l = l0
    BY <1>2, <1>3, <1>4, <2>2 DEF Pending, Unique
  <2> QED
    BY <2>1, <2>2
<1> QED
  BY <1>5

\* A functor of the round is called: one listing of it less.
LEMMA CallPending ==
  ASSUME TypeOK, NEW w0 \in What, NEW c0 \in Conns, NEW l0 \in Loops,
         Call(l0, w0, c0), UNCHANGED to_do_list
  PROVE  /\ Pending(w0, c0, l0)
         /\ Unique(w0, c0, l0) => ~Pending(w0, c0, l0)'
         /\ \A what \in What, c \in Conns, l \in Loops :
              /\ Pending(what, c, l)' => Pending(what, c, l)
              /\ ~(what = w0 /\ c = c0 /\ l = l0) =>
                   (Pending(what, c, l) => Pending(what, c, l)')
              /\ Unique(what, c, l) => Unique(what, c, l)'
<1>1. /\ funcs[l0] \in Seq(Functors) /\ funcs[l0] # <<>>
      /\ Head(funcs[l0]) = <<w0, c0>>
  BY DEF TypeOK, Call
<1>2. /\ funcs'[l0] = Tail(funcs[l0])
      /\ \A l \in Loops : l # l0 => funcs'[l] = funcs[l]
      /\ to_do_list' = to_do_list
  BY DEF Call, TypeOK
<1>3. /\ \A f : In(f, funcs[l0]) <=> f = <<w0, c0>> \/ In(f, funcs'[l0])
      /\ \A f : Once(f, funcs[l0]) => Once(f, funcs'[l0])
      /\ Once(<<w0, c0>>, funcs[l0]) => ~In(<<w0, c0>>, funcs'[l0])
  BY <1>1, <1>2, InTail
<1>4. \A what \in What, c \in Conns :
        <<what, c>> = <<w0, c0>> <=> what = w0 /\ c = c0
  OBVIOUS
<1> QED
  BY <1>2, <1>3, <1>4 DEF Pending, Unique

\* DoToDoList's swap moves functors from one list to the other.
LEMMA SwapPending ==
  ASSUME TypeOK, NEW l0 \in Loops, DoToDoList(l0), funcs[l0] = <<>>
  PROVE  \A what \in What, c \in Conns, l \in Loops :
           /\ Pending(what, c, l)' <=> Pending(what, c, l)
           /\ Unique(what, c, l) => Unique(what, c, l)'
<1>1. /\ funcs'[l0] = to_do_list[l0] /\ to_do_list'[l0] = <<>>
      /\ \A l \in Loops : l # l0 =>
           funcs'[l] = funcs[l] /\ to_do_list'[l] = to_do_list[l]
  BY DEF DoToDoList, TypeOK
<1> QED
  BY <1>1, InEmpty DEF Pending, Unique
-----------------------------------------------------------------------------
(* Types *)

\* Queueing keeps the lists lists of functors.
LEMMA QueueTypes ==
  ASSUME TypeOK, NEW l \in Loops, NEW what \in What, NEW c \in Conns,
         Queue(l, what, c)
  PROVE  to_do_list' \in [Loops -> Seq(Functors)]
<1>1. <<what, c>> \in Functors
  BY DEF Functors, What
<1>2. to_do_list[l] \in Seq(Functors)
  BY DEF TypeOK
<1>3. Append(to_do_list[l], <<what, c>>) \in Seq(Functors)
  BY <1>1, <1>2
<1> QED
  BY <1>3 DEF Queue, TypeOK

LEMMA EraseTypes ==
  ASSUME TypeOK, NEW c \in Conns, EraseAndQueue(c)
  PROVE  /\ connections' \in [Fds -> ConnOrNone]
         /\ to_do_list' \in [Loops -> Seq(Functors)]
<1>1. loop[c] \in Loops /\ "destroy" \in What
  BY DEF TypeOK, What
<1>2. to_do_list' \in [Loops -> Seq(Functors)]
  BY <1>1, QueueTypes DEF EraseAndQueue
<1>3. connections' \in [Fds -> ConnOrNone]
  BY DEF EraseAndQueue, TypeOK, ConnOrNone
<1> QED
  BY <1>2, <1>3

\* HandleClose keeps the types of what it assigns.
LEMMA HandleCloseTypes ==
  ASSUME TypeOK, NEW c \in Conns, HandleClose(c)
  PROVE  /\ state' \in [Conns -> {"kConnected", "kClosed"}]
         /\ registered' \subseteq Conns /\ writing' \subseteq Conns
         /\ connections' \in [Fds -> ConnOrNone]
         /\ to_do_list' \in [Loops -> Seq(Functors)]
<1>1. CASE AlreadyClosed(c)
  BY <1>1 DEF HandleClose, channelVars, TypeOK
<1>2. CASE ~AlreadyClosed(c)
  <2>1. /\ state' \in [Conns -> {"kConnected", "kClosed"}]
        /\ registered' \subseteq Conns /\ writing' \subseteq Conns
    BY <1>2 DEF HandleClose, AlreadyClosed, UpdateChannel, TypeOK
  <2>2. CASE loop[c] = Main
    <3>1. EraseAndQueue(c)
      BY <1>2, <2>2 DEF HandleClose
    <3> QED
      BY <2>1, <3>1, EraseTypes
  <2>3. CASE loop[c] # Main
    <3>1. Queue(Main, "close", c) /\ connections' = connections
      BY <1>2, <2>3 DEF HandleClose
    <3>2. "close" \in What
      BY DEF What
    <3> QED
      BY <2>1, <3>1, <3>2, MainAssumption, QueueTypes DEF TypeOK
  <2> QED
    BY <2>2, <2>3
<1> QED
  BY <1>1, <1>2

\* The step of an open loop or of the acceptor, split into its actions.
LEMMA TypeStep ==
  ASSUME TypeOK, Senders, [Next]_vars PROVE TypeOK'
<1> USE DEF TypeOK, connVars, channelVars, timerVars, roundVars, messageVars,
            ConnOrNone, Functors
<1>1. ASSUME NEW l \in Loops, NEW events \in SUBSET Reportable(l), Poll(l, events) PROVE TypeOK'
  BY <1>1 DEF Poll, Reportable
<1>2. ASSUME NEW l \in Loops, DoToDoList(l) PROVE TypeOK'
  BY <1>2 DEF DoToDoList
<1>3. ASSUME NEW l \in Loops, EndToDoList(l) PROVE TypeOK'
  BY <1>3 DEF EndToDoList
<1>4. ASSUME NEW l \in Loops, NEW c \in Conns, ConnectionEstablished(l, c) PROVE TypeOK'
  <2>1. timers' \subseteq Conns /\ registered' \subseteq Conns
    BY <1>4 DEF ConnectionEstablished, UpdateChannel
  <2>2. /\ funcs' \in [Loops -> Seq(Functors)]
        /\ called' \in [Loops -> SUBSET Conns]
    BY <1>4 DEF ConnectionEstablished, Call
  <2> QED
    BY <1>4, <2>1, <2>2 DEF ConnectionEstablished, Call
<1>5. ASSUME NEW l \in Loops, NEW c \in Conns, NEW b \in BOOLEAN, SendQueued(l, c, b) PROVE TypeOK'
  <2>1. /\ state' = state
        /\ registered' \subseteq Conns /\ writing' \subseteq Conns
    BY <1>5 DEF SendQueued, SendInLoop, StillOpen, UpdateChannel
  <2>2. /\ funcs' \in [Loops -> Seq(Functors)]
        /\ called' \in [Loops -> SUBSET Conns]
    BY <1>5 DEF SendQueued, Call
  <2> QED
    BY <1>5, <2>1, <2>2 DEF SendQueued, Call
<1>6. ASSUME NEW c \in Conns, HandleCloseConnectionInPoller(c) PROVE TypeOK'
  <2>1. /\ connections' \in [Fds -> ConnOrNone]
        /\ to_do_list' \in [Loops -> Seq(Functors)]
    BY <1>6, EraseTypes DEF HandleCloseConnectionInPoller
  <2>2. /\ funcs' \in [Loops -> Seq(Functors)]
        /\ called' \in [Loops -> SUBSET Conns]
    BY <1>6, MainAssumption DEF HandleCloseConnectionInPoller, Call
  <2> QED
    BY <1>6, <2>1, <2>2 DEF HandleCloseConnectionInPoller, Call
<1>7. ASSUME NEW l \in Loops, NEW c \in Conns, ConnectionDestructor(l, c) PROVE TypeOK'
  <2>1. /\ funcs' \in [Loops -> Seq(Functors)]
        /\ called' \in [Loops -> SUBSET Conns]
    BY <1>7 DEF ConnectionDestructor, Call
  <2>2. registered' \subseteq Conns
    BY <1>7 DEF ConnectionDestructor, DeleteChannel
  <2> QED
    BY <1>7, <2>1, <2>2 DEF ConnectionDestructor, Call
<1>8. ASSUME NEW c \in Conns, NEW f \in Fds, AcceptConnection(c, f) PROVE TypeOK'
  <2>1. Pool[next] \in Loops /\ NextLoop \in 1..Len(Pool)
    BY PoolAssumption DEF NextLoop
  <2>2. to_do_list' \in [Loops -> Seq(Functors)]
    BY <1>8, <2>1, QueueTypes DEF AcceptConnection, What
  <2> QED
    BY <1>8, <2>1, <2>2 DEF AcceptConnection
<1>9. ASSUME AcceptFails PROVE TypeOK'
  BY <1>9 DEF AcceptFails
<1>10. ASSUME NEW l \in Loops, NEW c \in Conns, ReadData(l, c) PROVE TypeOK'
  BY <1>10 DEF ReadData, Handle
<1>11. ASSUME NEW l \in Loops, NEW c \in Conns, ReadEnd(l, c) PROVE TypeOK'
  BY <1>11, HandleCloseTypes DEF ReadEnd, Handle
<1>12. ASSUME NEW l \in Loops, NEW c \in Conns, NEW b \in BOOLEAN, HandleWrite(l, c, b) PROVE TypeOK'
  BY <1>12 DEF HandleWrite, Handle, UpdateChannel
<1>13. ASSUME NEW l \in Loops, NEW c \in Conns, ActiveCloseConn(l, c) PROVE TypeOK'
  BY <1>13, HandleCloseTypes DEF ActiveCloseConn
<1>14. ASSUME NEW l \in Loops, ResetTimers(l) PROVE TypeOK'
  BY <1>14 DEF ResetTimers
<1>15. ASSUME NEW l \in Loops, NEW b \in BOOLEAN, Reply(l, b) PROVE TypeOK'
  BY <1>15 DEF Reply, InMessage, SendInLoop, StillOpen, UpdateChannel
<1>16. ASSUME NEW l \in Loops, CloseOwn(l) PROVE TypeOK'
  BY <1>16, HandleCloseTypes DEF CloseOwn, InMessage
<1>17. ASSUME NEW l \in Loops, NEW id \in Ids, AddConn(l, id) PROVE TypeOK'
  BY <1>17 DEF AddConn, InMessage
<1>18. ASSUME NEW l \in Loops, NEW id \in Ids, RemoveConn(l, id) PROVE TypeOK'
  BY <1>18 DEF RemoveConn, InMessage
<1>19. ASSUME NEW l \in Loops, NEW id \in Ids, GetConn(l, id) PROVE TypeOK'
  BY <1>19 DEF GetConn, InMessage
<1>20. ASSUME NEW l \in Loops, TestPeer(l) PROVE TypeOK'
  BY <1>20 DEF TestPeer, InMessage
<1>21. ASSUME NEW l \in Loops, NEW b \in BOOLEAN, SendToPeer(l, b) PROVE TypeOK'
  <2>1. peer[l] \in Conns
    BY <1>21 DEF SendToPeer, Senders
  <2>2. TypeOK'
    <3>1. CASE loop[peer[l]] = l
      BY <1>21, <2>1, <3>1 DEF SendToPeer, SendInLoop, StillOpen, UpdateChannel
    <3>2. CASE loop[peer[l]] # l
      <4>1. to_do_list' \in [Loops -> Seq(Functors)]
        BY <1>21, <2>1, <3>2, QueueTypes DEF SendToPeer, What
      <4> QED
        BY <1>21, <3>2, <4>1 DEF SendToPeer
    <3> QED
      BY <3>1, <3>2
  <2> QED
    BY <2>2
<1>22. ASSUME NEW l \in Loops, Return(l) PROVE TypeOK'
  BY <1>22 DEF Return, InMessage
<1>23. CASE UNCHANGED vars
  BY <1>23 DEF vars
<1> QED
  BY <1>1, <1>2, <1>3, <1>4, <1>5, <1>6, <1>7, <1>8, <1>9, <1>10, <1>11, <1>12, <1>13, <1>14, <1>15, <1>16, <1>17, <1>18, <1>19, <1>20, <1>21, <1>22, <1>23, MainAssumption
     DEF Next, LoopStep, PollForWork, PollForClients, HandleEvent, Functor,
         Finish, OnMessage
-----------------------------------------------------------------------------
(* The steps keep the invariant *)

\* No functor is added, and none is called.
SameLists ==
  \A what \in What, c \in Conns, l \in Loops :
    /\ Pending(what, c, l)' <=> Pending(what, c, l)
    /\ Unique(what, c, l) => Unique(what, c, l)'

LEMMA CoreSame ==
  ASSUME TypeOK, Core, SameLists,
         UNCHANGED <<created, fd, loop, state, connections>>
  PROVE  Core'
<1> USE DEF SameLists, TypeOK, What
<1>1. Fresh' /\ MapOwns'
  BY DEF Core, Fresh, MapOwns
<1>2. Places'
  BY DEF Core, Places
<1>3. Stages'
  BY DEF Core, Stages, Due
<1> QED
  BY <1>1, <1>2, <1>3 DEF Core

\* A step that lists and closes nothing and takes hold only of connections already
\* in use keeps the invariant.
LEMMA QuietStep ==
  ASSUME TypeOK, TypeOK', IInv, SameLists,
         UNCHANGED <<created, fd, loop, state, connections>>,
         \A c \in Conns : Used(c)' => Used(c),
         \A c \in registered' : c \in registered \/ state[c] = "kConnected",
         \A c \in writing' : state[c] = "kConnected",
         \A l \in Loops, c \in Conns, what \in {"read", "write"} :
           <<c, what>> \in active'[l] => Anchored(c) /\ loop[c] = l,
         Threads', Senders'
  PROVE  IInv'
<1>1. Core'
  BY CoreSame DEF IInv
<1>2. /\ \A c \in Conns : Due("established", c)' <=> Due("established", c)
      /\ \A c \in Conns : Anchored(c)' <=> Anchored(c)
  BY DEF SameLists, Due, Anchored, What
<1>3. UsedAfter'
  BY <1>2 DEF IInv, UsedAfter
<1>4. \A c \in registered' : Anchored(c)
  BY DEF IInv, Anchors, Anchored
<1>5. registered' \subseteq Conns
  BY DEF TypeOK
<1>6. Anchors'
  BY <1>2, <1>4, <1>5 DEF Anchors
<1> QED
  BY <1>1, <1>3, <1>6 DEF IInv
\* The steps that list and close nothing: of a round, of the handlers, and of
\* on_message_ while it sends nothing to another loop.
LEMMA QuietActions ==
  ASSUME TypeOK, TypeOK', IInv,
         \/ AcceptFails
         \/ \E l \in Loops :
              \/ \E events \in SUBSET Reportable(l) : Poll(l, events)
              \/ EndToDoList(l) \/ ResetTimers(l) \/ TestPeer(l) \/ Return(l)
              \/ \E c \in Conns : ReadData(l, c)
              \/ \E c \in Conns, b \in BOOLEAN : HandleWrite(l, c, b)
              \/ \E b \in BOOLEAN : Reply(l, b)
              \/ \E id \in Ids : AddConn(l, id) \/ RemoveConn(l, id) \/ GetConn(l, id)
  PROVE  IInv'
<1> USE DEF TypeOK, connVars, channelVars, timerVars, roundVars, messageVars,
            ConnOrNone
<1>1. ASSUME NEW l \in Loops, NEW events \in SUBSET Reportable(l), Poll(l, events) PROVE IInv'
  <2>1. UNCHANGED <<created, fd, loop, state, connections, to_do_list, funcs>>
    BY <1>1 DEF Poll, Reportable
  <2>2. SameLists /\ \A d \in Conns : Due("send", d)' <=> Due("send", d)
    BY <2>1, StillPending DEF SameLists, Due, What
  <2>3. ASSUME NEW d \in Conns, Used(d)' PROVE Used(d)
    <3>1. \A what \in {"read", "write"} :
            <<d, what>> \in events => d \in registered \union writing
      BY DEF Reportable
    <3> QED
      BY <1>1, <2>2, <2>3, <3>1 DEF Used, Poll
  <2>4. /\ \A d \in registered' : d \in registered \/ state[d] = "kConnected"
        /\ \A d \in writing' : state[d] = "kConnected"
    BY <1>1 DEF IInv, Anchors, Poll
  <2>5. \A m \in Loops, d \in Conns, what \in {"read", "write"} :
          <<d, what>> \in active'[m] => Anchored(d) /\ loop[d] = m
    <3>1. \A d \in Conns, what \in {"read", "write"} :
            <<d, what>> \in events => d \in registered \union writing /\ loop[d] = l
      BY DEF Reportable
    <3>2. \A d \in Conns : d \in registered \union writing => Anchored(d)
      BY DEF IInv, Anchors, Anchored
    <3>3. \A m \in Loops : active'[m] = active[m] \/ (m = l /\ active'[m] = events)
      BY <1>1 DEF Poll
    <3>4. \A m \in Loops, d \in Conns, what \in {"read", "write"} :
            <<d, what>> \in active[m] => Anchored(d) /\ loop[d] = m
      BY DEF IInv, Anchors, Anchored
    <3> QED
      BY <3>1, <3>2, <3>3, <3>4
  <2>6. Threads' /\ Senders'
    BY <1>1, <2>1, NoConnAssumption DEF IInv, Threads, Senders, Poll, Reportable
  <2> QED
    BY <2>1, <2>2, <2>3, <2>4, <2>5, <2>6, QuietStep
<1>2. ASSUME NEW l \in Loops, EndToDoList(l) PROVE IInv'
  <2>1. UNCHANGED <<created, fd, loop, state, connections, to_do_list, funcs>>
    BY <1>2 DEF EndToDoList
  <2>2. SameLists /\ \A d \in Conns : Due("send", d)' <=> Due("send", d)
    BY <2>1, StillPending DEF SameLists, Due, What
  <2>3. ASSUME NEW d \in Conns, Used(d)' PROVE Used(d)
    BY <1>2, <2>2, <2>3, NoConnAssumption DEF Used, EndToDoList
  <2>4. /\ \A d \in registered' : d \in registered \/ state[d] = "kConnected"
        /\ \A d \in writing' : state[d] = "kConnected"
    BY <1>2 DEF IInv, Anchors, EndToDoList
  <2>5. \A m \in Loops, d \in Conns, what \in {"read", "write"} :
          <<d, what>> \in active'[m] => Anchored(d) /\ loop[d] = m
    BY <1>2 DEF IInv, Anchors, EndToDoList
  <2>6. Threads' /\ Senders'
    BY <1>2, <2>1, NoConnAssumption DEF IInv, Threads, Senders, EndToDoList
  <2> QED
    BY <2>1, <2>2, <2>3, <2>4, <2>5, <2>6, QuietStep
<1>3. ASSUME AcceptFails PROVE IInv'
  <2>1. UNCHANGED <<created, fd, loop, state, connections, to_do_list, funcs>>
    BY <1>3 DEF AcceptFails
  <2>2. SameLists /\ \A d \in Conns : Due("send", d)' <=> Due("send", d)
    BY <2>1, StillPending DEF SameLists, Due, What
  <2>3. ASSUME NEW d \in Conns, Used(d)' PROVE Used(d)
    BY <1>3, <2>2, <2>3, NoConnAssumption DEF Used, AcceptFails
  <2>4. /\ \A d \in registered' : d \in registered \/ state[d] = "kConnected"
        /\ \A d \in writing' : state[d] = "kConnected"
    BY <1>3 DEF IInv, Anchors, AcceptFails
  <2>5. \A m \in Loops, d \in Conns, what \in {"read", "write"} :
          <<d, what>> \in active'[m] => Anchored(d) /\ loop[d] = m
    BY <1>3 DEF IInv, Anchors, AcceptFails
  <2>6. Threads' /\ Senders'
    BY <1>3, <2>1, NoConnAssumption DEF IInv, Threads, Senders, AcceptFails
  <2> QED
    BY <2>1, <2>2, <2>3, <2>4, <2>5, <2>6, QuietStep
<1>4. ASSUME NEW l \in Loops, NEW c \in Conns, ReadData(l, c) PROVE IInv'
  <2>1. UNCHANGED <<created, fd, loop, state, connections, to_do_list, funcs>>
    BY <1>4 DEF ReadData, Handle
  <2>2. SameLists /\ \A d \in Conns : Due("send", d)' <=> Due("send", d)
    BY <2>1, StillPending DEF SameLists, Due, What
  <2>3. ASSUME NEW d \in Conns, Used(d)' PROVE Used(d)
    BY <1>4, <2>2, <2>3, NoConnAssumption DEF Used, ReadData, Handle
  <2>4. /\ \A d \in registered' : d \in registered \/ state[d] = "kConnected"
        /\ \A d \in writing' : state[d] = "kConnected"
    BY <1>4 DEF IInv, Anchors, ReadData, Handle
  <2>5. \A m \in Loops, d \in Conns, what \in {"read", "write"} :
          <<d, what>> \in active'[m] => Anchored(d) /\ loop[d] = m
    BY <1>4 DEF IInv, Anchors, ReadData, Handle
  <2>6. Threads' /\ Senders'
    <3>1. loop[c] = l
      BY <1>4 DEF IInv, Anchors, ReadData, Handle
    <3>2. Senders' /\ \A m \in Loops : handling'[m] # NoConn => loop'[handling'[m]] = m
      BY <1>4, <2>1, <3>1 DEF IInv, Threads, Senders, ReadData, Handle
    <3>3. \A m \in Loops : active'[m] # {} => active[m] # {}
      BY <1>4 DEF ReadData, Handle
    <3> QED
      BY <1>4, <2>1, <3>2, <3>3 DEF IInv, Threads, ReadData, Handle
  <2> QED
    BY <2>1, <2>2, <2>3, <2>4, <2>5, <2>6, QuietStep
<1>5. ASSUME NEW l \in Loops, NEW c \in Conns, NEW b \in BOOLEAN, HandleWrite(l, c, b) PROVE IInv'
  <2>1. UNCHANGED <<created, fd, loop, state, connections, to_do_list, funcs>>
    BY <1>5 DEF HandleWrite, Handle, UpdateChannel
  <2>2. SameLists /\ \A d \in Conns : Due("send", d)' <=> Due("send", d)
    BY <2>1, StillPending DEF SameLists, Due, What
  <2>3. ASSUME NEW d \in Conns, Used(d)' PROVE Used(d)
    <3>1. Used(c)
      BY <1>5 DEF Used, HandleWrite, Handle
    <3>2. CASE d = c
      BY <3>1, <3>2
    <3>3. CASE d # c
      <4>1. /\ d \in registered' => d \in registered
            /\ d \in writing' => d \in writing
            /\ \A m \in Loops : active'[m] \subseteq active[m]
        BY <1>5, <3>3 DEF HandleWrite, Handle, UpdateChannel
      <4> QED
        BY <1>5, <2>2, <2>3, <4>1 DEF Used, HandleWrite, Handle
    <3> QED
      BY <3>2, <3>3
  <2>4. /\ \A d \in registered' : d \in registered \/ state[d] = "kConnected"
        /\ \A d \in writing' : state[d] = "kConnected"
    BY <1>5 DEF IInv, Anchors, HandleWrite, Handle, UpdateChannel
  <2>5. \A m \in Loops, d \in Conns, what \in {"read", "write"} :
          <<d, what>> \in active'[m] => Anchored(d) /\ loop[d] = m
    BY <1>5 DEF IInv, Anchors, HandleWrite, Handle, UpdateChannel
  <2>6. Threads' /\ Senders'
    BY <1>5, <2>1, NoConnAssumption DEF IInv, Threads, Senders, HandleWrite, Handle, UpdateChannel
  <2> QED
    BY <2>1, <2>2, <2>3, <2>4, <2>5, <2>6, QuietStep
<1>6. ASSUME NEW l \in Loops, ResetTimers(l) PROVE IInv'
  <2>1. UNCHANGED <<created, fd, loop, state, connections, to_do_list, funcs>>
    BY <1>6 DEF ResetTimers
  <2>2. SameLists /\ \A d \in Conns : Due("send", d)' <=> Due("send", d)
    BY <2>1, StillPending DEF SameLists, Due, What
  <2>3. ASSUME NEW d \in Conns, Used(d)' PROVE Used(d)
    BY <1>6, <2>2, <2>3, NoConnAssumption DEF Used, ResetTimers
  <2>4. /\ \A d \in registered' : d \in registered \/ state[d] = "kConnected"
        /\ \A d \in writing' : state[d] = "kConnected"
    BY <1>6 DEF IInv, Anchors, ResetTimers
  <2>5. \A m \in Loops, d \in Conns, what \in {"read", "write"} :
          <<d, what>> \in active'[m] => Anchored(d) /\ loop[d] = m
    BY <1>6 DEF IInv, Anchors, ResetTimers
  <2>6. Threads' /\ Senders'
    BY <1>6, <2>1, NoConnAssumption DEF IInv, Threads, Senders, ResetTimers
  <2> QED
    BY <2>1, <2>2, <2>3, <2>4, <2>5, <2>6, QuietStep
<1>7. ASSUME NEW l \in Loops, NEW b \in BOOLEAN, Reply(l, b) PROVE IInv'
  <2>1. UNCHANGED <<created, fd, loop, state, connections, to_do_list, funcs>>
    BY <1>7 DEF Reply, InMessage, SendInLoop, StillOpen, UpdateChannel
  <2>2. SameLists /\ \A d \in Conns : Due("send", d)' <=> Due("send", d)
    BY <2>1, StillPending DEF SameLists, Due, What
  <2>3. ASSUME NEW d \in Conns, Used(d)' PROVE Used(d)
    <3>1. Used(handling[l])
      BY <1>7 DEF Used, Reply, InMessage
    <3>2. CASE d = handling[l]
      BY <3>1, <3>2
    <3>3. CASE d # handling[l]
      <4>1. /\ d \in registered' => d \in registered
            /\ d \in writing' => d \in writing
        BY <1>7, <3>3 DEF Reply, SendInLoop, UpdateChannel
      <4> QED
        BY <1>7, <2>2, <2>3, <4>1 DEF Used, Reply
    <3> QED
      BY <3>2, <3>3
  <2>4. /\ \A d \in registered' : d \in registered \/ state[d] = "kConnected"
        /\ \A d \in writing' : state[d] = "kConnected"
    BY <1>7 DEF IInv, Anchors, Reply, InMessage, SendInLoop, StillOpen, UpdateChannel
  <2>5. \A m \in Loops, d \in Conns, what \in {"read", "write"} :
          <<d, what>> \in active'[m] => Anchored(d) /\ loop[d] = m
    BY <1>7 DEF IInv, Anchors, Reply, InMessage, SendInLoop, StillOpen, UpdateChannel
  <2>6. Threads' /\ Senders'
    BY <1>7, <2>1, NoConnAssumption DEF IInv, Threads, Senders, Reply, InMessage, SendInLoop, StillOpen, UpdateChannel
  <2> QED
    BY <2>1, <2>2, <2>3, <2>4, <2>5, <2>6, QuietStep
<1>8. ASSUME NEW l \in Loops, NEW id \in Ids, AddConn(l, id) PROVE IInv'
  <2>1. UNCHANGED <<created, fd, loop, state, connections, to_do_list, funcs>>
    BY <1>8 DEF AddConn, InMessage
  <2>2. SameLists /\ \A d \in Conns : Due("send", d)' <=> Due("send", d)
    BY <2>1, StillPending DEF SameLists, Due, What
  <2>3. ASSUME NEW d \in Conns, Used(d)' PROVE Used(d)
    BY <1>8, <2>2, <2>3, NoConnAssumption DEF Used, AddConn, InMessage
  <2>4. /\ \A d \in registered' : d \in registered \/ state[d] = "kConnected"
        /\ \A d \in writing' : state[d] = "kConnected"
    BY <1>8 DEF IInv, Anchors, AddConn, InMessage
  <2>5. \A m \in Loops, d \in Conns, what \in {"read", "write"} :
          <<d, what>> \in active'[m] => Anchored(d) /\ loop[d] = m
    BY <1>8 DEF IInv, Anchors, AddConn, InMessage
  <2>6. Threads' /\ Senders'
    BY <1>8, <2>1, NoConnAssumption DEF IInv, Threads, Senders, AddConn, InMessage
  <2> QED
    BY <2>1, <2>2, <2>3, <2>4, <2>5, <2>6, QuietStep
<1>9. ASSUME NEW l \in Loops, NEW id \in Ids, RemoveConn(l, id) PROVE IInv'
  <2>1. UNCHANGED <<created, fd, loop, state, connections, to_do_list, funcs>>
    BY <1>9 DEF RemoveConn, InMessage
  <2>2. SameLists /\ \A d \in Conns : Due("send", d)' <=> Due("send", d)
    BY <2>1, StillPending DEF SameLists, Due, What
  <2>3. ASSUME NEW d \in Conns, Used(d)' PROVE Used(d)
    BY <1>9, <2>2, <2>3, NoConnAssumption DEF Used, RemoveConn, InMessage
  <2>4. /\ \A d \in registered' : d \in registered \/ state[d] = "kConnected"
        /\ \A d \in writing' : state[d] = "kConnected"
    BY <1>9 DEF IInv, Anchors, RemoveConn, InMessage
  <2>5. \A m \in Loops, d \in Conns, what \in {"read", "write"} :
          <<d, what>> \in active'[m] => Anchored(d) /\ loop[d] = m
    BY <1>9 DEF IInv, Anchors, RemoveConn, InMessage
  <2>6. Threads' /\ Senders'
    BY <1>9, <2>1, NoConnAssumption DEF IInv, Threads, Senders, RemoveConn, InMessage
  <2> QED
    BY <2>1, <2>2, <2>3, <2>4, <2>5, <2>6, QuietStep
<1>10. ASSUME NEW l \in Loops, NEW id \in Ids, GetConn(l, id) PROVE IInv'
  <2>1. UNCHANGED <<created, fd, loop, state, connections, to_do_list, funcs>>
    BY <1>10 DEF GetConn, InMessage
  <2>2. SameLists /\ \A d \in Conns : Due("send", d)' <=> Due("send", d)
    BY <2>1, StillPending DEF SameLists, Due, What
  <2>3. ASSUME NEW d \in Conns, Used(d)' PROVE Used(d)
    BY <1>10, <2>2, <2>3, NoConnAssumption DEF Used, GetConn, InMessage
  <2>4. /\ \A d \in registered' : d \in registered \/ state[d] = "kConnected"
        /\ \A d \in writing' : state[d] = "kConnected"
    BY <1>10 DEF IInv, Anchors, GetConn, InMessage
  <2>5. \A m \in Loops, d \in Conns, what \in {"read", "write"} :
          <<d, what>> \in active'[m] => Anchored(d) /\ loop[d] = m
    BY <1>10 DEF IInv, Anchors, GetConn, InMessage
  <2>6. Threads' /\ Senders'
    BY <1>10, <2>1, NoConnAssumption DEF IInv, Threads, Senders, GetConn, InMessage
  <2> QED
    BY <2>1, <2>2, <2>3, <2>4, <2>5, <2>6, QuietStep
<1>11. ASSUME NEW l \in Loops, TestPeer(l) PROVE IInv'
  <2>1. UNCHANGED <<created, fd, loop, state, connections, to_do_list, funcs>>
    BY <1>11 DEF TestPeer, InMessage
  <2>2. SameLists /\ \A d \in Conns : Due("send", d)' <=> Due("send", d)
    BY <2>1, StillPending DEF SameLists, Due, What
  <2>3. ASSUME NEW d \in Conns, Used(d)' PROVE Used(d)
    BY <1>11, <2>2, <2>3, NoConnAssumption DEF Used, TestPeer, InMessage
  <2>4. /\ \A d \in registered' : d \in registered \/ state[d] = "kConnected"
        /\ \A d \in writing' : state[d] = "kConnected"
    BY <1>11 DEF IInv, Anchors, TestPeer, InMessage
  <2>5. \A m \in Loops, d \in Conns, what \in {"read", "write"} :
          <<d, what>> \in active'[m] => Anchored(d) /\ loop[d] = m
    BY <1>11 DEF IInv, Anchors, TestPeer, InMessage
  <2>6. Threads' /\ Senders'
    BY <1>11, <2>1, NoConnAssumption DEF IInv, Threads, Senders, TestPeer, InMessage
  <2> QED
    BY <2>1, <2>2, <2>3, <2>4, <2>5, <2>6, QuietStep
<1>12. ASSUME NEW l \in Loops, Return(l) PROVE IInv'
  <2>1. UNCHANGED <<created, fd, loop, state, connections, to_do_list, funcs>>
    BY <1>12 DEF Return, InMessage
  <2>2. SameLists /\ \A d \in Conns : Due("send", d)' <=> Due("send", d)
    BY <2>1, StillPending DEF SameLists, Due, What
  <2>3. ASSUME NEW d \in Conns, Used(d)' PROVE Used(d)
    BY <1>12, <2>2, <2>3, NoConnAssumption DEF Used, Return, InMessage
  <2>4. /\ \A d \in registered' : d \in registered \/ state[d] = "kConnected"
        /\ \A d \in writing' : state[d] = "kConnected"
    BY <1>12 DEF IInv, Anchors, Return, InMessage
  <2>5. \A m \in Loops, d \in Conns, what \in {"read", "write"} :
          <<d, what>> \in active'[m] => Anchored(d) /\ loop[d] = m
    BY <1>12 DEF IInv, Anchors, Return, InMessage
  <2>6. Threads' /\ Senders'
    BY <1>12, <2>1, NoConnAssumption DEF IInv, Threads, Senders, Return, InMessage
  <2> QED
    BY <2>1, <2>2, <2>3, <2>4, <2>5, <2>6, QuietStep
<1> QED
  BY <1>1, <1>2, <1>3, <1>4, <1>5, <1>6, <1>7, <1>8, <1>9, <1>10, <1>11, <1>12
\* DoToDoList's swap is quiet: the vector it swaps with is empty.
LEMMA SwapStep ==
  ASSUME TypeOK, TypeOK', IInv, NEW l \in Loops, DoToDoList(l)
  PROVE  IInv'
<1> USE DEF TypeOK, connVars, channelVars, timerVars, messageVars
<1>1. funcs[l] = <<>>
  BY DEF IInv, Threads, DoToDoList
<1>2. SameLists /\ \A d \in Conns : Due("send", d)' <=> Due("send", d)
  BY <1>1, SwapPending DEF SameLists, Due, What
<1>3. UNCHANGED <<created, fd, loop, state, registered, writing, connections,
                  id_conn, timers, fired, active, handling, peer, sending>>
  BY DEF DoToDoList
<1>4. \A d \in Conns : Used(d)' => Used(d)
  BY <1>2, <1>3 DEF Used
<1>5. Threads' /\ Senders'
  BY <1>3 DEF DoToDoList, IInv, Threads, Senders
<1>6. /\ \A d \in writing' : state[d] = "kConnected"
      /\ \A m \in Loops, d \in Conns, what \in {"read", "write"} :
           <<d, what>> \in active'[m] => Anchored(d) /\ loop[d] = m
  BY <1>3 DEF IInv, Anchors
<1> QED
  BY <1>2, <1>3, <1>4, <1>5, <1>6, QuietStep

\* Calling a functor of the round only takes it off the lists.
LEMMA CallCore ==
  ASSUME TypeOK, IInv, NEW l \in Loops, NEW w \in What, NEW c \in Conns,
         Call(l, w, c), UNCHANGED <<to_do_list, state, connections>>
  PROVE  /\ Core' /\ Due(w, c) /\ c \in created
         /\ w \in {"established", "destroy"} => l = loop[c]
         /\ \A what \in What, d \in Conns :
              /\ Due(what, d)' => Due(what, d)
              /\ ~(what = w /\ d = c) => (Due(what, d) => Due(what, d)')
         /\ w = "established" => ~Due(w, c)'
<1>1. /\ Pending(w, c, l)
      /\ Unique(w, c, l) => ~Pending(w, c, l)'
      /\ \A what \in What, d \in Conns, m \in Loops :
           /\ Pending(what, d, m)' => Pending(what, d, m)
           /\ ~(what = w /\ d = c /\ m = l) =>
                (Pending(what, d, m) => Pending(what, d, m)')
           /\ Unique(what, d, m) => Unique(what, d, m)'
  BY CallPending
<1>2. UNCHANGED <<created, fd, loop, next, state, connections>>
  BY DEF Call, connVars
<1>3. Due(w, c) /\ c \in created
  BY <1>1 DEF IInv, Core, Fresh, Due
<1>4. \A what \in What, d \in Conns :
        /\ Due(what, d)' => Due(what, d)
        /\ ~(what = w /\ d = c) => (Due(what, d) => Due(what, d)')
  BY <1>1 DEF Due
<1>5. /\ w \in {"established", "destroy"} => l = loop[c]
      /\ w = "established" => ~Due(w, c)'
  BY <1>1 DEF IInv, Core, Places, Due, What
<1>6. Fresh' /\ MapOwns'
  BY <1>1, <1>2 DEF IInv, Core, Fresh, MapOwns
<1>7. Places'
  BY <1>1, <1>2 DEF IInv, Core, Places, What
<1>8. Stages'
  BY <1>2, <1>4 DEF IInv, Core, Stages, TypeOK, What
<1> QED
  BY <1>3, <1>4, <1>5, <1>6, <1>7, <1>8 DEF Core

\* The called functor's loop is in its "funcs" phase; nothing else moves.
LEMMA CallThreads ==
  ASSUME TypeOK, TypeOK', IInv, NEW l \in Loops, NEW w \in What,
         NEW c \in Conns, Call(l, w, c)
  PROVE  /\ Threads' /\ Senders' /\ active[l] = {}
         /\ UNCHANGED <<created, fd, loop, id_conn, active, handling, peer>>
<1> USE DEF TypeOK
<1>1. /\ UNCHANGED <<created, fd, loop, id_conn, pc, active, handling, peer, sending>>
      /\ pc[l] = "funcs" /\ funcs[l] # <<>>
      /\ \A m \in Loops : m # l => funcs'[m] = funcs[m]
  BY DEF Call, connVars, messageVars
<1> QED
  BY <1>1 DEF IInv, Threads, Senders

LEMMA EstablishedStep ==
  ASSUME TypeOK, TypeOK', IInv, NEW l \in Loops, NEW c \in Conns,
         ConnectionEstablished(l, c)
  PROVE  IInv'
<1>1. /\ Call(l, "established", c) /\ "established" \in What
      /\ UNCHANGED <<to_do_list, state, connections, writing, fired>>
      /\ registered' = registered \union {c} /\ timers' \subseteq timers \union {c}
  BY DEF ConnectionEstablished, UpdateChannel, What
<1>2. /\ Core' /\ Due("established", c) /\ c \in created
      /\ \A what \in What, d \in Conns :
           /\ Due(what, d)' => Due(what, d)
           /\ ~(what = "established" /\ d = c) => (Due(what, d) => Due(what, d)')
      /\ ~Due("established", c)'
  BY <1>1, CallCore
<1>3. /\ Threads' /\ Senders'
      /\ UNCHANGED <<created, fd, loop, id_conn, active, handling, peer>>
  BY <1>1, CallThreads
<1>4. \A d \in Conns : Used(d)' => Used(d) \/ d = c
  BY <1>1, <1>2, <1>3 DEF Used, What
<1>5. UsedAfter'
  BY <1>2, <1>3, <1>4 DEF IInv, UsedAfter, What
<1>6. \A d \in Conns : Anchored(d) => Anchored(d)'
  BY <1>1, <1>2 DEF Anchored, What
<1>7. state[c] = "kConnected"
  BY <1>2 DEF IInv, Core, Stages
<1>8. Anchors'
  BY <1>1, <1>3, <1>6, <1>7 DEF IInv, Anchors, Anchored, TypeOK
<1> QED
  BY <1>2, <1>3, <1>5, <1>8 DEF IInv

LEMMA SendQueuedStep ==
  ASSUME TypeOK, TypeOK', IInv, NEW l \in Loops, NEW c \in Conns,
         NEW b \in BOOLEAN, SendQueued(l, c, b)
  PROVE  IInv'
<1>1. /\ Call(l, "send", c) /\ "send" \in What
      /\ UNCHANGED <<to_do_list, state, connections, timers, fired>>
  BY DEF SendQueued, SendInLoop, timerVars, What
<1>2. /\ registered' \subseteq registered \union {c}
      /\ writing' \subseteq writing \union {c}
      /\ state[c] # "kConnected" => UNCHANGED <<registered, writing>>
  BY DEF SendQueued, SendInLoop, StillOpen, UpdateChannel
<1>3. /\ Core' /\ Due("send", c) /\ c \in created
      /\ \A what \in What, d \in Conns :
           /\ Due(what, d)' => Due(what, d)
           /\ ~(what = "send" /\ d = c) => (Due(what, d) => Due(what, d)')
  BY <1>1, CallCore
<1>4. /\ Threads' /\ Senders'
      /\ UNCHANGED <<created, fd, loop, id_conn, active, handling, peer>>
  BY <1>1, CallThreads
<1>5. \A d \in Conns : Used(d)' => Used(d)
  BY <1>1, <1>2, <1>3, <1>4 DEF Used, What
<1>6. UsedAfter'
  BY <1>3, <1>4, <1>5 DEF IInv, UsedAfter, What
<1>7. \A d \in Conns : Anchored(d) => Anchored(d)'
  BY <1>1, <1>3 DEF Anchored, What
<1>8. Anchors'
  BY <1>1, <1>2, <1>4, <1>7 DEF IInv, Anchors, Anchored, TypeOK
<1> QED
  BY <1>3, <1>4, <1>6, <1>8 DEF IInv

\* The destructor's loop has no event left, so the channel is in no batch.
LEMMA DestructorStep ==
  ASSUME TypeOK, TypeOK', IInv, NEW l \in Loops, NEW c \in Conns,
         ConnectionDestructor(l, c)
  PROVE  IInv'
<1>1. /\ Call(l, "destroy", c) /\ "destroy" \in What
      /\ UNCHANGED <<to_do_list, state, connections, writing, timers, fired>>
      /\ registered' = registered \ {c}
  BY DEF ConnectionDestructor, DeleteChannel, timerVars, What
<1>2. /\ Core' /\ Due("destroy", c) /\ c \in created /\ l = loop[c]
      /\ \A what \in What, d \in Conns :
           /\ Due(what, d)' => Due(what, d)
           /\ ~(what = "destroy" /\ d = c) => (Due(what, d) => Due(what, d)')
  BY <1>1, CallCore
<1>3. /\ Threads' /\ Senders' /\ active[l] = {}
      /\ UNCHANGED <<created, fd, loop, id_conn, active, handling, peer>>
  BY <1>1, CallThreads
<1>4. \A d \in Conns : Used(d)' => Used(d)
  BY <1>1, <1>2, <1>3 DEF Used, What
<1>5. UsedAfter'
  BY <1>2, <1>3, <1>4 DEF IInv, UsedAfter, What
<1>6. \A d \in Conns : d # c /\ Anchored(d) => Anchored(d)'
  BY <1>1, <1>2 DEF Anchored, What
<1>7. \A m \in Loops, what \in {"read", "write"} : <<c, what>> \notin active[m]
  BY <1>2, <1>3 DEF IInv, Anchors
<1>8. Anchors'
  BY <1>1, <1>3, <1>6, <1>7 DEF IInv, Anchors, TypeOK
<1> QED
  BY <1>2, <1>3, <1>5, <1>8 DEF IInv

\* HandleCloseConnectionInPoller calls one functor and lists another.
LEMMA CallQueuePending ==
  ASSUME TypeOK, NEW c \in Conns, Call(Main, "close", c),
         Queue(loop[c], "destroy", c)
  PROVE  /\ Pending("close", c, Main)
         /\ Unique("close", c, Main) => ~Pending("close", c, Main)'
         /\ \A what \in What, d \in Conns, l \in Loops :
              /\ Pending(what, d, l)' =>
                   \/ Pending(what, d, l)
                   \/ what = "destroy" /\ d = c /\ l = loop[c]
              /\ Pending(what, d, l) /\ ~(what = "close" /\ d = c) =>
                   Pending(what, d, l)'
              /\ what # "destroy" /\ Unique(what, d, l) => Unique(what, d, l)'
         /\ Pending("destroy", c, loop[c])'
<1> DEFINE x == <<"destroy", c>>
           y == <<"close", c>>
           s == to_do_list[loop[c]]
           t == funcs[Main]
<1>1. /\ s \in Seq(Functors) /\ t \in Seq(Functors) /\ x \in Functors
      /\ t # <<>> /\ Head(t) = y /\ loop[c] \in Loops
  BY MainAssumption DEF TypeOK, Functors, Call
<1>2. /\ to_do_list'[loop[c]] = Append(s, x) /\ funcs'[Main] = Tail(t)
      /\ \A l \in Loops : l # loop[c] => to_do_list'[l] = to_do_list[l]
      /\ \A l \in Loops : l # Main => funcs'[l] = funcs[l]
  BY MainAssumption DEF Queue, Call, TypeOK
<1> HIDE DEF s, t, x, y
<1>3. /\ \A f : In(f, Append(s, x)) <=> In(f, s) \/ f = x
      /\ \A f : Once(f, s) /\ (f # x \/ ~In(f, s)) => Once(f, Append(s, x))
  BY <1>1, InAppend
<1>4. /\ \A f : In(f, t) <=> f = y \/ In(f, Tail(t))
      /\ \A f : Once(f, t) => Once(f, Tail(t))
      /\ Once(y, t) => ~In(y, Tail(t))
  BY <1>1, InTail
<1>5. \A f : \A l \in Loops :
        /\ In(f, to_do_list'[l]) <=>
             In(f, to_do_list[l]) \/ (l = loop[c] /\ f = x)
        /\ Once(f, to_do_list[l]) /\ f # x => Once(f, to_do_list'[l])
  BY <1>2, <1>3 DEF s
<1>6. \A f : \A l \in Loops :
        /\ In(f, funcs'[l]) => In(f, funcs[l])
        /\ f # y => (In(f, funcs[l]) => In(f, funcs'[l]))
        /\ Once(f, funcs[l]) => Once(f, funcs'[l])
  BY <1>2, <1>4 DEF t
<1>7. /\ In(y, funcs[Main]) /\ (Once(y, funcs[Main]) => ~In(y, funcs'[Main]))
  BY <1>2, <1>4 DEF t
<1>8. /\ \A what \in What, d \in Conns :
           <<what, d>> = x <=> what = "destroy" /\ d = c
      /\ \A what \in What, d \in Conns :
           <<what, d>> = y <=> what = "close" /\ d = c
      /\ x # y
  BY DEF x, y
<1>9. /\ Pending("close", c, Main)
      /\ Unique("close", c, Main) => ~Pending("close", c, Main)'
  BY <1>5, <1>7, <1>8, MainAssumption DEF Pending, Unique, y
<1>10. ASSUME NEW what \in What, NEW d \in Conns, NEW l \in Loops
       PROVE  /\ Pending(what, d, l)' =>
                   \/ Pending(what, d, l)
                   \/ what = "destroy" /\ d = c /\ l = loop[c]
              /\ Pending(what, d, l) /\ ~(what = "close" /\ d = c) =>
                   Pending(what, d, l)'
              /\ what # "destroy" /\ Unique(what, d, l) => Unique(what, d, l)'
  BY <1>5, <1>6, <1>8 DEF Pending, Unique
<1>11. Pending("destroy", c, loop[c])'
  <2>1. UNCHANGED loop
    BY DEF Call, connVars
  <2> QED
    BY <1>1, <1>5, <2>1 DEF Pending, x
<1> QED
  BY <1>9, <1>10, <1>11

\* The erasure: the connection's own entry, whose owner has no other step to take.
LEMMA ErasedOwn ==
  ASSUME TypeOK, MapOwns, NEW c \in created, connections[fd[c]] = c,
         EraseAndQueue(c), UNCHANGED <<created, fd>>
  PROVE  /\ MapOwns'
         /\ \A d \in created : d # c /\ connections[fd[d]] = d =>
              connections'[fd[d]] = d
BY DEF MapOwns, EraseAndQueue, TypeOK, ConnOrNone

LEMMA InPollerStep ==
  ASSUME TypeOK, TypeOK', IInv, NEW c \in Conns,
         HandleCloseConnectionInPoller(c)
  PROVE  IInv'
<1>1. /\ Call(Main, "close", c) /\ Queue(loop[c], "destroy", c)
      /\ EraseAndQueue(c) /\ "close" \in What
      /\ UNCHANGED <<state, registered, writing, timers, fired>>
  BY DEF HandleCloseConnectionInPoller, EraseAndQueue, channelVars, timerVars,
         What
<1>2. /\ Pending("close", c, Main)
      /\ Unique("close", c, Main) => ~Pending("close", c, Main)'
      /\ \A what \in What, d \in Conns, l \in Loops :
           /\ Pending(what, d, l)' =>
                \/ Pending(what, d, l)
                \/ what = "destroy" /\ d = c /\ l = loop[c]
           /\ Pending(what, d, l) /\ ~(what = "close" /\ d = c) =>
                Pending(what, d, l)'
           /\ what # "destroy" /\ Unique(what, d, l) => Unique(what, d, l)'
      /\ Pending("destroy", c, loop[c])'
  BY <1>1, CallQueuePending
<1>3. /\ Threads' /\ Senders' /\ active[Main] = {}
      /\ UNCHANGED <<created, fd, loop, id_conn, active, handling, peer>>
  BY <1>1, CallThreads, MainAssumption
<1>4. /\ c \in created /\ Due("close", c) /\ ~Due("close", c)'
      /\ connections[fd[c]] = c /\ state[c] # "kConnected"
      /\ Due("destroy", c)'
  <2>1. Due("close", c) /\ c \in created
    BY <1>2, MainAssumption DEF IInv, Core, Fresh, Due, What
  <2>2. connections[fd[c]] = c /\ state[c] # "kConnected"
    BY <2>1 DEF IInv, Core, Stages
  <2>3. \A l \in Loops : Pending("close", c, l)' => l = Main
    BY <1>2 DEF IInv, Core, Places, What
  <2>4. ~Due("close", c)'
    BY <1>2, <2>3, MainAssumption DEF IInv, Core, Places, Due
  <2>5. loop[c] \in Loops
    BY DEF TypeOK
  <2>6. Due("destroy", c)'
    BY <1>2, <1>3, <2>5 DEF Due
  <2> QED
    BY <2>1, <2>2, <2>4, <2>6
<1>5. /\ \A what \in What, d \in Conns :
           /\ Due(what, d)' => Due(what, d) \/ (what = "destroy" /\ d = c)
           /\ Due(what, d) /\ ~(what = "close" /\ d = c) => Due(what, d)'
  BY <1>2 DEF Due
<1>6. /\ MapOwns'
      /\ \A d \in created : d # c /\ connections[fd[d]] = d =>
           connections'[fd[d]] = d
  BY <1>1, <1>3, <1>4, ErasedOwn DEF IInv, Core
<1>7. Fresh' /\ Places'
  <2>1. Fresh'
    BY <1>1, <1>2, <1>3, <1>4 DEF IInv, Core, Fresh, TypeOK
  <2>2. Places'
    BY <1>2, <1>3 DEF IInv, Core, Places, What
  <2> QED
    BY <2>1, <2>2
<1>8. Stages'
  BY <1>1, <1>3, <1>4, <1>5, <1>6 DEF IInv, Core, Stages, TypeOK, What
<1>9. UsedAfter'
  <2>1. \A d \in Conns : Used(d)' => Used(d)
    BY <1>1, <1>3, <1>5 DEF Used, What
  <2> QED
    BY <1>3, <1>5, <2>1 DEF IInv, UsedAfter, What
<1>10. Anchors'
  <2>1. \A d \in Conns : Anchored(d) => Anchored(d)'
    BY <1>1, <1>4, <1>5 DEF Anchored, What
  <2> QED
    BY <1>1, <1>3, <2>1 DEF IInv, Anchors, TypeOK
<1> QED
  BY <1>3, <1>6, <1>7, <1>8, <1>9, <1>10 DEF IInv, Core

\* HandleClose of an established connection, from whichever handler.
LEMMA HandleCloseStep ==
  ASSUME TypeOK, TypeOK', IInv, NEW c \in created, ~Due("established", c),
         HandleClose(c),
         UNCHANGED <<created, fd, loop, id_conn, funcs, handling, peer>>,
         timers' \union fired' \subseteq timers \union fired,
         \A l \in Loops : active'[l] \subseteq active[l],
         Threads', Senders'
  PROVE  IInv'
<1>0. c \in Conns /\ loop[c] \in Loops /\ fd[c] \in Fds
  BY DEF TypeOK, IInv, Core, MapOwns
<1>1. CASE AlreadyClosed(c)
  <2>1. UNCHANGED <<state, registered, writing, connections, to_do_list>>
    BY <1>1 DEF HandleClose, channelVars
  <2>2. SameLists /\ \A d \in Conns : Due("send", d)' <=> Due("send", d)
    BY <2>1, StillPending DEF SameLists, Due, What
  <2>3. \A d \in Conns : Used(d)' => Used(d)
    BY <2>1, <2>2 DEF Used
  <2>4. /\ \A d \in writing' : state[d] = "kConnected"
        /\ \A m \in Loops, d \in Conns, what \in {"read", "write"} :
             <<d, what>> \in active'[m] => Anchored(d) /\ loop[d] = m
    BY <2>1 DEF IInv, Anchors
  <2> QED
    BY <2>1, <2>2, <2>3, <2>4, QuietStep
<1>2. CASE ~AlreadyClosed(c)
  <2>1. /\ state[c] = "kConnected"
        /\ state' = [state EXCEPT ![c] = "kClosed"]
        /\ writing' = writing \ {c} /\ registered' = registered \union {c}
    BY <1>0, <1>2 DEF HandleClose, AlreadyClosed, UpdateChannel, TypeOK
  <2>2. /\ connections[fd[c]] = c
        /\ ~Due("close", c) /\ ~Due("destroy", c)
    BY <2>1 DEF IInv, Core, Stages
  <2> DEFINE w == IF loop[c] = Main THEN "destroy" ELSE "close"
             m == IF loop[c] = Main THEN loop[c] ELSE Main
  <2>3. /\ w \in What /\ m \in Loops /\ w \in {"destroy", "close"}
        /\ w = "destroy" => m = loop[c]
        /\ w = "close" => m = Main
        /\ Queue(m, w, c)
    BY <1>0, <1>2, MainAssumption DEF HandleClose, EraseAndQueue, What
  <2>4. /\ w = "close" => connections' = connections
        /\ w = "destroy" => EraseAndQueue(c)
    BY <1>2 DEF HandleClose
  <2> HIDE DEF w, m
  <2>5. \A what \in What, d \in Conns, l \in Loops :
          /\ Pending(what, d, l)' <=>
               Pending(what, d, l) \/ (what = w /\ d = c /\ l = m)
          /\ /\ Unique(what, d, l)
             /\ ~(what = w /\ d = c /\ l = m) \/ ~Pending(what, d, l)
             => Unique(what, d, l)'
    BY <1>0, <2>3, QueuePending
  <2>6. \A what \in What, d \in Conns :
          Due(what, d)' <=> Due(what, d) \/ (what = w /\ d = c)
    BY <2>3, <2>5 DEF Due
  <2>7. ~Pending(w, c, m)
    BY <2>2, <2>3 DEF Due
  <2>8. /\ MapOwns'
        /\ \A d \in created : d # c /\ connections[fd[d]] = d =>
             connections'[fd[d]] = d
        /\ w = "close" => connections'[fd[c]] = c
    <3>1. CASE w = "close"
      BY <2>2, <2>4, <3>1 DEF IInv, Core, MapOwns
    <3>2. CASE w = "destroy"
      BY <2>2, <2>4, <3>2, ErasedOwn DEF IInv, Core
    <3> QED
      BY <2>3, <3>1, <3>2
  <2>9. Fresh'
    BY <1>0, <2>1, <2>5 DEF IInv, Core, Fresh, TypeOK
  <2>10. Places'
    BY <2>3, <2>5, <2>7 DEF IInv, Core, Places, What
  <2>11. Stages'
    BY <1>0, <2>1, <2>2, <2>3, <2>6, <2>8 DEF IInv, Core, Stages, TypeOK, What
  <2>12. UsedAfter'
    <3>1. \A d \in Conns : Used(d)' => Used(d) \/ d = c
      BY <2>1, <2>3, <2>6 DEF Used, What
    <3> QED
      BY <2>3, <2>6, <3>1 DEF IInv, UsedAfter, What
  <2>13. Anchors'
    <3>1. \A d \in Conns : Anchored(d) => Anchored(d)'
      BY <1>0, <2>1, <2>3, <2>6 DEF Anchored, TypeOK, What
    <3>2. Anchored(c)'
      BY <1>0, <2>3, <2>6 DEF Anchored, What
    <3>3. \A d \in writing' : state'[d] = "kConnected"
      BY <1>0, <2>1 DEF IInv, Anchors, TypeOK
    <3> QED
      BY <2>1, <3>1, <3>2, <3>3 DEF IInv, Anchors, TypeOK
  <2> QED
    BY <2>8, <2>9, <2>10, <2>11, <2>12, <2>13 DEF IInv, Core
<1> QED
  BY <1>1, <1>2

\* A new connection is referred to by nothing, and a descriptor the kernel gives
\* out again belongs to no connection that is open or has its erasure ahead.
LEMMA AcceptStep ==
  ASSUME TypeOK, TypeOK', IInv, NEW c \in Conns, NEW f \in Fds,
         AcceptConnection(c, f)
  PROVE  IInv'
<1>1. /\ c \notin created /\ f \in FreeFds
      /\ created' = created \union {c}
      /\ fd' = [fd EXCEPT ![c] = f]
      /\ loop' = [loop EXCEPT ![c] = Pool[next]]
      /\ connections' = [connections EXCEPT ![f] = c]
      /\ Queue(Pool[next], "established", c) /\ "established" \in What
      /\ UNCHANGED <<state, registered, writing, id_conn, timers, fired, pc,
                     active, funcs, called, handling, peer, sending>>
  BY DEF AcceptConnection, channelVars, timerVars, roundVars, messageVars, What
<1>2. Pool[next] \in Loops
  BY PoolAssumption DEF TypeOK
<1>3. \A what \in What, d \in Conns, l \in Loops :
        /\ Pending(what, d, l)' <=>
             \/ Pending(what, d, l)
             \/ what = "established" /\ d = c /\ l = Pool[next]
        /\ /\ Unique(what, d, l)
           /\ \/ ~(what = "established" /\ d = c /\ l = Pool[next])
              \/ ~Pending(what, d, l)
           => Unique(what, d, l)'
  BY <1>1, <1>2, QueuePending
<1>4. /\ state[c] = "kConnected" /\ ~Used(c)
      /\ \A what \in What, l \in Loops : ~Pending(what, c, l)
  BY <1>1 DEF IInv, Core, Fresh, UsedAfter
<1>5. \A what \in What, d \in Conns :
        /\ Due(what, d)' <=> Due(what, d) \/ (what = "established" /\ d = c)
        /\ ~Due(what, c)
  BY <1>2, <1>3, <1>4 DEF Due
<1>6. \A d \in created : connections[fd[d]] = d => fd[d] # f
  <2>1. \A d \in created : connections[fd[d]] = d => Referenced(d)
    BY DEF IInv, Core, MapOwns, Referenced
  <2> QED
    BY <1>1, <2>1 DEF FreeFds
<1>7. MapOwns'
  <2>1. \A d \in created' : fd'[d] \in Fds
    BY <1>1 DEF IInv, Core, MapOwns, TypeOK
  <2>2. ASSUME NEW g \in Fds, connections'[g] # NoConn
        PROVE  connections'[g] \in created' /\ fd'[connections'[g]] = g
    <3>1. CASE g = f
      BY <1>1, <3>1 DEF TypeOK
    <3>2. CASE g # f
      BY <1>1, <2>2, <3>2 DEF IInv, Core, MapOwns, TypeOK
    <3> QED
      BY <3>1, <3>2
  <2> QED
    BY <2>1, <2>2 DEF MapOwns
<1>8. Fresh'
  BY <1>1, <1>3 DEF IInv, Core, Fresh
<1>9. Places'
  BY <1>1, <1>2, <1>3, <1>4 DEF IInv, Core, Places, What, TypeOK
<1>10. Stages'
  <2>1. ASSUME NEW d \in created
        PROVE  /\ d # c /\ d \in Conns /\ fd'[d] = fd[d]
               /\ connections[fd[d]] = d => connections'[fd'[d]] = d
    BY <1>1, <1>6, <2>1 DEF TypeOK, IInv, Core, MapOwns
  <2>2. connections'[fd'[c]] = c
    BY <1>1 DEF TypeOK
  <2> QED
    BY <1>1, <1>4, <1>5, <2>1, <2>2 DEF IInv, Core, Stages, What
<1>11. UsedAfter'
  <2>1. \A d \in Conns : Used(d)' => Used(d)
    BY <1>1, <1>5 DEF Used, What
  <2> QED
    BY <1>1, <1>4, <1>5, <2>1 DEF IInv, UsedAfter, What
<1>12. Anchors'
  <2>1. \A d \in Conns : Anchored(d) => Anchored(d)'
    BY <1>1, <1>5 DEF Anchored, What
  <2>2. ASSUME NEW l \in Loops, NEW d \in Conns, NEW what \in {"read", "write"},
               <<d, what>> \in active[l]
        PROVE  loop'[d] = loop[d]
    BY <1>1, <1>4, <2>2 DEF Used, TypeOK
  <2> QED
    BY <1>1, <2>1, <2>2 DEF IInv, Anchors, TypeOK
<1>13. Threads' /\ Senders'
  <2>1. \A l \in Loops : handling[l] # c
    BY <1>4 DEF Used
  <2> QED
    BY <1>1, <2>1 DEF IInv, Threads, Senders, TypeOK, ConnOrNone
<1> QED
  BY <1>7, <1>8, <1>9, <1>10, <1>11, <1>12, <1>13 DEF IInv, Core

\* A sender holds its peer, so handing it SendInLoop takes hold of nothing new.
LEMMA SendToPeerStep ==
  ASSUME TypeOK, TypeOK', IInv, NEW l \in Loops, NEW b \in BOOLEAN,
         SendToPeer(l, b)
  PROVE  IInv'
<1> DEFINE p == peer[l]
<1>1. /\ l \in sending /\ p \in Conns /\ Used(p) /\ p # NoConn
      /\ UNCHANGED <<created, fd, loop, state, connections, id_conn, timers,
                     fired, pc, active, funcs, handling, peer>>
      /\ sending' \subseteq sending
  BY NoConnAssumption
     DEF SendToPeer, SendInLoop, IInv, Senders, Used, connVars, channelVars,
         timerVars, roundVars
<1>2. Threads' /\ Senders'
  BY <1>1 DEF IInv, Threads, Senders
<1>3. CASE loop[p] = l
  <2>1. /\ UNCHANGED to_do_list
        /\ registered' \subseteq registered \union {p}
        /\ writing' \subseteq writing \union {p}
        /\ state[p] # "kConnected" => UNCHANGED <<registered, writing>>
    BY <1>3 DEF SendToPeer, SendInLoop, StillOpen, UpdateChannel
  <2>2. SameLists /\ \A d \in Conns : Due("send", d)' <=> Due("send", d)
    BY <1>1, <2>1, StillPending DEF SameLists, Due, What
  <2>3. \A d \in Conns : Used(d)' => Used(d)
    BY <1>1, <2>1, <2>2 DEF Used
  <2>4. /\ \A d \in registered' : d \in registered \/ state[d] = "kConnected"
        /\ \A d \in writing' : state[d] = "kConnected"
        /\ \A m \in Loops, d \in Conns, what \in {"read", "write"} :
             <<d, what>> \in active'[m] => Anchored(d) /\ loop[d] = m
    BY <1>1, <2>1 DEF IInv, Anchors
  <2> QED
    BY <1>1, <1>2, <2>2, <2>3, <2>4, QuietStep
<1>4. CASE loop[p] # l
  <2>1. /\ Queue(loop[p], "send", p) /\ "send" \in What /\ loop[p] \in Loops
        /\ UNCHANGED <<registered, writing>>
    BY <1>1, <1>4 DEF SendToPeer, channelVars, What, TypeOK
  <2>2. \A what \in What, d \in Conns, m \in Loops :
          /\ Pending(what, d, m)' <=>
               Pending(what, d, m) \/ (what = "send" /\ d = p /\ m = loop[p])
          /\ /\ Unique(what, d, m)
             /\ ~(what = "send" /\ d = p /\ m = loop[p]) \/ ~Pending(what, d, m)
             => Unique(what, d, m)'
    BY <1>1, <2>1, QueuePending
  <2>3. \A what \in What, d \in Conns :
          Due(what, d)' <=> Due(what, d) \/ (what = "send" /\ d = p)
    BY <2>1, <2>2 DEF Due
  <2>4. p \in created
    BY <1>1 DEF IInv, UsedAfter
  <2>5. Fresh' /\ MapOwns'
    BY <1>1, <2>2, <2>4 DEF IInv, Core, Fresh, MapOwns, What
  <2>6. Places'
    BY <1>1, <2>2 DEF IInv, Core, Places, What
  <2>7. Stages'
    BY <1>1, <2>3 DEF IInv, Core, Stages, TypeOK, What
  <2>8. UsedAfter'
    <3>1. \A d \in Conns : Used(d)' => Used(d)
      BY <1>1, <2>1, <2>3 DEF Used, What
    <3> QED
      BY <1>1, <2>3, <3>1 DEF IInv, UsedAfter, What
  <2>9. Anchors'
    <3>1. \A d \in Conns : Anchored(d) => Anchored(d)'
      BY <1>1, <2>3 DEF Anchored, What
    <3> QED
      BY <1>1, <2>1, <3>1 DEF IInv, Anchors, TypeOK
  <2> QED
    BY <1>2, <2>5, <2>6, <2>7, <2>8, <2>9 DEF IInv, Core
<1> QED
  BY <1>3, <1>4

\* The handlers that may close a connection.
LEMMA ClosingActions ==
  ASSUME TypeOK, TypeOK', IInv, NEW l \in Loops,
         \/ CloseOwn(l)
         \/ \E c \in Conns : ReadEnd(l, c) \/ ActiveCloseConn(l, c)
  PROVE  IInv'
<1> USE DEF connVars, timerVars, roundVars, messageVars
<1>1. \A c \in Conns : Used(c) => c \in created /\ ~Due("established", c)
  BY DEF IInv, UsedAfter
<1>2. ASSUME NEW c \in Conns, ReadEnd(l, c) PROVE IInv'
  <2>1. /\ Used(c) /\ HandleClose(c)
        /\ UNCHANGED <<created, fd, loop, id_conn, timers, fired, funcs, pc,
                       handling, peer, sending>>
        /\ \A m \in Loops : active'[m] \subseteq active[m]
    BY <1>2 DEF ReadEnd, Handle, Used, TypeOK
  <2>2. Threads' /\ Senders'
    BY <2>1 DEF IInv, Threads, Senders
  <2> QED
    BY <1>1, <2>1, <2>2, HandleCloseStep
<1>3. ASSUME NEW c \in Conns, ActiveCloseConn(l, c) PROVE IInv'
  <2>1. /\ Used(c) /\ HandleClose(c)
        /\ UNCHANGED <<created, fd, loop, id_conn, funcs, pc, active, handling,
                       peer, sending>>
        /\ timers' \union fired' \subseteq timers \union fired
    BY <1>3 DEF ActiveCloseConn, Used
  <2>2. Threads' /\ Senders'
    BY <2>1 DEF IInv, Threads, Senders
  <2> QED
    BY <1>1, <2>1, <2>2, HandleCloseStep
<1>4. ASSUME CloseOwn(l) PROVE IInv'
  <2>1. /\ handling[l] \in Conns /\ Used(handling[l]) /\ HandleClose(handling[l])
        /\ UNCHANGED <<created, fd, loop, id_conn, timers, fired, funcs, pc,
                       active, handling, peer, sending>>
    BY <1>4 DEF CloseOwn, InMessage, Used, TypeOK, ConnOrNone
  <2>2. Threads' /\ Senders'
    BY <2>1 DEF IInv, Threads, Senders
  <2> QED
    BY <1>1, <2>1, <2>2, HandleCloseStep
<1> QED
  BY <1>2, <1>3, <1>4
-----------------------------------------------------------------------------
(* The theorems *)

LEMMA InitInv == ASSUME Init PROVE TypeOK /\ IInv
<1> USE DEF Init
<1>1. TypeOK
  <2>1. next \in 1..Len(Pool)
    BY PoolAssumption
  <2>2. /\ to_do_list \in [Loops -> Seq(Functors)]
        /\ funcs \in [Loops -> Seq(Functors)]
    OBVIOUS
  <2> QED
    BY <2>1, <2>2, MainAssumption DEF TypeOK, ConnOrNone
<1>2. \A what \in What, c \in Conns, l \in Loops :
        ~Pending(what, c, l) /\ Unique(what, c, l)
  BY InEmpty DEF Pending, Unique
<1>3. Core
  BY <1>2 DEF Core, Fresh, MapOwns, Places, Stages, What
<1>4. UsedAfter
  <2>1. \A c \in Conns : ~Used(c)
    BY <1>2, NoConnAssumption DEF Used, Due, What
  <2> QED
    BY <2>1 DEF UsedAfter
<1>5. Anchors /\ Threads /\ Senders
  BY DEF Anchors, Threads, Senders
<1> QED
  BY <1>1, <1>3, <1>4, <1>5 DEF IInv

LEMMA StepInv ==
  ASSUME TypeOK, IInv, [Next]_vars PROVE TypeOK' /\ IInv'
<1>1. TypeOK'
  BY TypeStep DEF IInv
<1>2. CASE UNCHANGED vars
  <2>1. UNCHANGED <<created, fd, loop, state, registered, writing, connections,
                    id_conn, timers, fired, pc, active, to_do_list, funcs,
                    handling, peer, sending>>
    BY <1>2 DEF vars, connVars, channelVars, timerVars, roundVars, messageVars
  <2>2. SameLists /\ \A d \in Conns : Due("send", d)' <=> Due("send", d)
    BY <2>1, StillPending DEF SameLists, Due, What
  <2>3. \A d \in Conns : Used(d)' => Used(d)
    BY <2>1, <2>2 DEF Used
  <2>4. Threads' /\ Senders'
    BY <2>1 DEF IInv, Threads, Senders
  <2>5. /\ \A d \in writing' : state[d] = "kConnected"
        /\ \A m \in Loops, d \in Conns, what \in {"read", "write"} :
             <<d, what>> \in active'[m] => Anchored(d) /\ loop[d] = m
    BY <2>1 DEF IInv, Anchors
  <2> QED
    BY <1>1, <2>1, <2>2, <2>3, <2>4, <2>5, QuietStep
<1>3. ASSUME NEW l \in Loops, LoopStep(l) PROVE IInv'
  <2>1. CASE Functor(l)
    BY <1>1, <2>1, EstablishedStep, SendQueuedStep, InPollerStep, DestructorStep
       DEF Functor
  <2>2. CASE HandleEvent(l)
    BY <1>1, <2>2, QuietActions, ClosingActions DEF HandleEvent
  <2>3. CASE Finish(l)
    BY <1>1, <2>3, QuietActions, SendToPeerStep DEF Finish
  <2>4. CASE PollForWork(l) \/ EndToDoList(l) \/ ResetTimers(l)
    BY <1>1, <2>4, QuietActions DEF PollForWork
  <2>5. CASE DoToDoList(l)
    BY <1>1, <2>5, SwapStep
  <2> QED
    BY <1>3, <2>1, <2>2, <2>3, <2>4, <2>5 DEF LoopStep
<1>4. ASSUME NEW l \in Loops, PollForClients(l) \/ OnMessage(l) PROVE IInv'
  BY <1>1, <1>4, QuietActions, ClosingActions DEF PollForClients, OnMessage
<1>5. ASSUME NEW c \in Conns,
             \/ \E l \in Loops : ActiveCloseConn(l, c)
             \/ \E f \in Fds : AcceptConnection(c, f)
      PROVE  IInv'
  BY <1>1, <1>5, ClosingActions, AcceptStep
<1>6. CASE AcceptFails
  BY <1>1, <1>6, QuietActions
<1> QED
  BY <1>1, <1>2, <1>3, <1>4, <1>5, <1>6 DEF Next

LEMMA Inductive == Spec => [](TypeOK /\ IInv)
BY InitInv, StepInv, PTL DEF Spec

\* Every variable keeps its type, whatever the interleaving: among them that a
\* loop's lists hold functors of connections only.
THEOREM Typing == Spec => []TypeOK
BY Inductive, PTL

\* What is anchored is owned: by connections_ while it is open or its erasure is
\* ahead, by a functor while its destructor is.
LEMMA AnchoredOwned ==
  ASSUME TypeOK, IInv, NEW c \in created, Anchored(c) PROVE Referenced(c)
<1>1. c \in Conns /\ fd[c] \in Fds
  BY DEF TypeOK, IInv, Core, MapOwns
<1>2. CASE state[c] = "kConnected" \/ Due("close", c)
  BY <1>1, <1>2 DEF IInv, Core, Stages, Referenced
<1>3. CASE Due("destroy", c)
  BY <1>3 DEF Due, Pending, Referenced, Listed
<1> QED
  BY <1>2, <1>3 DEF Anchored

\* The raw Channel pointers that epoll and Poll's result hold never outlive their
\* connection, on any number of loops and whatever drops the last shared_ptr.
THEOREM NoUseAfterFree == Spec => []NoDanglingChannel
<1>1. ASSUME TypeOK, IInv PROVE NoDanglingChannel
  <2>1. \A c \in registered : Referenced(c)
    BY <1>1, AnchoredOwned DEF IInv, Anchors, UsedAfter, Used, TypeOK
  <2>2. ASSUME NEW l \in Loops, NEW e \in active[l] PROVE Referenced(e[1])
    <3>1. PICK c \in Conns, what \in {"read", "write"} : e = <<c, what>>
      BY <1>1, <2>2 DEF TypeOK
    <3>2. Anchored(c) /\ Used(c)
      BY <1>1, <2>2, <3>1 DEF IInv, Anchors, Used
    <3>3. c \in created
      BY <1>1, <3>2 DEF IInv, UsedAfter
    <3> QED
      BY <1>1, <3>1, <3>2, <3>3, AnchoredOwned
  <2> QED
    BY <2>1, <2>2 DEF NoDanglingChannel
<1> QED
  BY <1>1, Inductive, PTL

\* The main reactor's erase finds the connection it is for, though descriptors are
\* used again as soon as the kernel has them back.
THEOREM EraseFindsItself == Spec => []ErasesItself
<1>1. ASSUME TypeOK, IInv PROVE ErasesItself
  BY <1>1, MainAssumption DEF ErasesItself, IInv, Core, Stages, Due
<1> QED
  BY <1>1, Inductive, PTL

\* After its destructor a connection stays out of epoll, whatever a timer, a
\* login or a late sender still does with it.
THEOREM StaysDeregistered == Spec => []DeregisteredForGood
<1>1. ASSUME TypeOK, IInv PROVE DeregisteredForGood
  <2> SUFFICES ASSUME NEW c \in created, TornDown(c)
               PROVE  c \notin registered \union writing
    BY DEF DeregisteredForGood
  <2>1. c \in Conns /\ state[c] # "kConnected"
    BY <1>1 DEF TypeOK, TornDown
  <2>2. ~Due("close", c) /\ ~Due("destroy", c)
    BY <1>1, <2>1 DEF TornDown, Due, IInv, Core, Places
  <2> QED
    BY <1>1, <2>1, <2>2 DEF IInv, Anchors, Anchored
<1> QED
  BY <1>1, Inductive, PTL
-----------------------------------------------------------------------------
(* A connection is destroyed once, and its descriptor is its own till then *)

\* A functor is queued for c: nobody else gets into a list.
LEMMA QueueListed ==
  ASSUME TypeOK, NEW l \in Loops, NEW what \in What, NEW c \in Conns,
         Queue(l, what, c)
  PROVE  \A d \in Conns, m \in Loops :
           Listed(d, to_do_list'[m]) => Listed(d, to_do_list[m]) \/ d = c
<1>1. <<what, c>> \in Functors
  BY DEF Functors, What
<1>2. ASSUME NEW d \in Conns, NEW m \in Loops, Listed(d, to_do_list'[m])
      PROVE  Listed(d, to_do_list[m]) \/ d = c
  <2>1. to_do_list[m] \in Seq(Functors)
    BY DEF TypeOK
  <2>2. \/ to_do_list'[m] = to_do_list[m]
        \/ to_do_list'[m] = Append(to_do_list[m], <<what, c>>)
    BY DEF Queue, TypeOK
  <2>3. PICK w \in What : In(<<w, d>>, to_do_list'[m])
    BY <1>2 DEF Listed, What
  <2>4. In(<<w, d>>, to_do_list[m]) \/ <<w, d>> = <<what, c>>
    BY <1>1, <2>1, <2>2, <2>3, InAppend
  <2> QED
    BY <2>4 DEF Listed, What
<1> QED
  BY <1>2

\* The functor that is called is listed, and the call lists no other.
LEMMA CallListed ==
  ASSUME TypeOK, NEW l \in Loops, NEW what \in What, NEW c \in Conns,
         Call(l, what, c)
  PROVE  /\ Referenced(c)
         /\ \A d \in Conns, m \in Loops :
              Listed(d, funcs'[m]) \/ d \in called'[m] =>
                Listed(d, funcs[m]) \/ d \in called[m] \/ d = c
<1>1. /\ funcs[l] \in Seq(Functors) /\ funcs[l] # <<>>
      /\ Head(funcs[l]) = <<what, c>>
  BY DEF Call, TypeOK
<1>2. Listed(c, funcs[l])
  BY <1>1, InTail DEF Listed, What
<1>3. ASSUME NEW d \in Conns, NEW m \in Loops,
             Listed(d, funcs'[m]) \/ d \in called'[m]
      PROVE  Listed(d, funcs[m]) \/ d \in called[m] \/ d = c
  <2>1. CASE m = l
    <3>1. funcs'[m] = Tail(funcs[l]) /\ called'[m] = called[l] \union {c}
      BY <2>1 DEF Call, TypeOK
    <3> QED
      BY <1>1, <1>3, <2>1, <3>1, InTail DEF Listed
  <2>2. CASE m # l
    <3>1. funcs'[m] = funcs[m] /\ called'[m] = called[m]
      BY <2>2 DEF Call, TypeOK
    <3> QED
      BY <1>3, <3>1
  <2> QED
    BY <2>1, <2>2
<1> QED
  BY <1>2, <1>3 DEF Referenced

\* HandleClose queues functors for the connection it closes only, and enters
\* nobody into connections_.
LEMMA CloseListed ==
  ASSUME TypeOK, NEW c \in Conns, HandleClose(c)
  PROVE  /\ \A d \in Conns, m \in Loops :
              Listed(d, to_do_list'[m]) => Listed(d, to_do_list[m]) \/ d = c
         /\ \A d \in Conns, f \in Fds :
              connections'[f] = d => connections[f] = d
<1>1. loop[c] \in Loops /\ Main \in Loops /\ {"destroy", "close"} \subseteq What
  BY MainAssumption DEF TypeOK, What
<1>2. CASE UNCHANGED <<connections, to_do_list>>
  BY <1>2
<1>3. CASE EraseAndQueue(c)
  <2>1. \A d \in Conns, f \in Fds : connections'[f] = d => connections[f] = d
    BY <1>3, NoConnAssumption DEF EraseAndQueue, TypeOK
  <2> QED
    BY <1>1, <1>3, <2>1, QueueListed DEF EraseAndQueue
<1>4. CASE Queue(Main, "close", c) /\ UNCHANGED connections
  BY <1>1, <1>4, QueueListed
<1> QED
  BY <1>2, <1>3, <1>4 DEF HandleClose

\* The places a reference to d can be in, all at once.
LEMMA StillUnreferenced ==
  ASSUME NEW d \in Conns, ~Referenced(d),
         \A f \in Fds : connections'[f] = d => connections[f] = d,
         \A id \in Ids : id_conn'[id] = d => id_conn[id] = d,
         d \in timers' \union fired' => d \in timers \union fired,
         \A l \in Loops :
           /\ Listed(d, to_do_list'[l]) =>
                \E m \in Loops : Listed(d, to_do_list[m]) \/ Listed(d, funcs[m])
           /\ Listed(d, funcs'[l]) \/ d \in called'[l] =>
                \E m \in Loops : \/ Listed(d, to_do_list[m]) \/ Listed(d, funcs[m])
                                 \/ d \in called[m]
           /\ handling'[l] = d => handling[l] = d
           /\ peer'[l] = d => peer[l] = d
  PROVE  ~Referenced(d)'
BY DEF Referenced, Listed, In

\* A connection that nothing refers to, so that it has been destroyed, is not
\* referred to again by any step: its destructor runs once.
NeverRevived == [][\A c \in created : ~Referenced(c) => ~Referenced(c)']_vars

\* A connection that has not been destroyed has its descriptor for itself, whatever
\* the kernel gives out: a late send or a close reaches no other client.
OwnDescriptor ==
  \A c, d \in created : Referenced(c) /\ Referenced(d) /\ fd[c] = fd[d] => c = d

\* One action at a time: whoever is referred to next was before, or is accepted.
LEMMA NoRevival ==
  ASSUME TypeOK, IInv, [Next]_vars, NEW d \in created, ~Referenced(d)
  PROVE  ~Referenced(d)'
<1> USE DEF connVars, channelVars, timerVars, roundVars, messageVars
<1>0. d \in Conns
  BY DEF TypeOK
<1>1. CASE UNCHANGED vars
  BY <1>0, <1>1, StillUnreferenced DEF vars
<1>2. ASSUME NEW l \in Loops,
             \/ \E events \in SUBSET Reportable(l) : Poll(l, events)
             \/ EndToDoList(l) \/ ResetTimers(l) \/ TestPeer(l) \/ Return(l)
             \/ \E b \in BOOLEAN : Reply(l, b)
             \/ \E b \in BOOLEAN, c \in Conns : HandleWrite(l, c, b)
      PROVE  ~Referenced(d)'
  <2>1. UNCHANGED <<connections, id_conn, to_do_list, funcs>>
    BY <1>2 DEF Poll, EndToDoList, ResetTimers, TestPeer, Return, Reply,
                HandleWrite, Handle
  <2>2. timers' \union fired' \subseteq timers \union fired
    BY <1>2 DEF Poll, EndToDoList, ResetTimers, TestPeer, Return, Reply,
                HandleWrite, Handle
  <2>3. ASSUME NEW m \in Loops
        PROVE  /\ called'[m] \subseteq called[m]
               /\ handling'[m] = d => handling[m] = d
               /\ peer'[m] = d => peer[m] = d
    BY <1>0, <1>2, NoConnAssumption
       DEF TypeOK, Poll, EndToDoList, ResetTimers, TestPeer, Return, Reply,
           HandleWrite, Handle
  <2> QED
    BY <1>0, <2>1, <2>2, <2>3, StillUnreferenced
<1>3. ASSUME NEW l \in Loops, DoToDoList(l) PROVE ~Referenced(d)'
  <2>1. UNCHANGED <<connections, id_conn, timers, fired, called, handling, peer>>
    BY <1>3 DEF DoToDoList
  <2>2. ASSUME NEW m \in Loops
        PROVE  /\ to_do_list'[m] \in {<<>>, to_do_list[m]}
               /\ funcs'[m] \in {to_do_list[m], funcs[m]}
    BY <1>3 DEF DoToDoList, TypeOK
  <2>3. ~Listed(d, <<>>)
    BY InEmpty DEF Listed
  <2> QED
    BY <1>0, <2>1, <2>2, <2>3, StillUnreferenced
<1>4. ASSUME NEW l \in Loops, NEW c \in Conns, NEW what \in What, Call(l, what, c),
             UNCHANGED fired, timers' \subseteq timers \union {c},
             \A f \in Fds : connections'[f] = d => connections[f] = d,
             \A m \in Loops : Listed(d, to_do_list'[m]) =>
                                Listed(d, to_do_list[m]) \/ d = c
      PROVE  ~Referenced(d)'
  <2>1. d # c
    BY <1>4, CallListed
  <2>2. UNCHANGED <<id_conn, handling, peer>>
    BY <1>4 DEF Call
  <2> QED
    BY <1>0, <1>4, <2>1, <2>2, CallListed, StillUnreferenced
<1>5. ASSUME NEW l \in Loops, Functor(l) PROVE ~Referenced(d)'
  <2>1. PICK c \in Conns :
          \/ ConnectionEstablished(l, c) \/ ConnectionDestructor(l, c)
          \/ l = Main /\ HandleCloseConnectionInPoller(c)
          \/ \E b \in BOOLEAN : SendQueued(l, c, b)
    BY <1>5 DEF Functor
  <2>2. CASE ConnectionEstablished(l, c)
    BY <1>4, <2>2 DEF ConnectionEstablished, What
  <2>3. CASE ConnectionDestructor(l, c)
    BY <1>4, <2>3 DEF ConnectionDestructor, What
  <2>4. CASE \E b \in BOOLEAN : SendQueued(l, c, b)
    BY <1>4, <2>4 DEF SendQueued, What
  <2>5. CASE l = Main /\ HandleCloseConnectionInPoller(c)
    <3>1. /\ Call(l, "close", c) /\ EraseAndQueue(c) /\ UNCHANGED timerVars
          /\ "destroy" \in What /\ "close" \in What /\ loop[c] \in Loops
      BY <2>5 DEF HandleCloseConnectionInPoller, What, TypeOK
    <3>2. \A f \in Fds : connections'[f] = d => connections[f] = d
      BY <1>0, <3>1, NoConnAssumption DEF EraseAndQueue, TypeOK
    <3>3. \A m \in Loops : Listed(d, to_do_list'[m]) =>
                             Listed(d, to_do_list[m]) \/ d = c
      BY <1>0, <3>1, QueueListed DEF EraseAndQueue
    <3> QED
      BY <1>4, <3>1, <3>2, <3>3
  <2> QED
    BY <2>1, <2>2, <2>3, <2>4, <2>5
<1>6. ASSUME NEW c \in Conns, Referenced(c), HandleClose(c),
             UNCHANGED <<id_conn, funcs, called, handling, peer>>,
             timers' \union fired' \subseteq timers \union fired
      PROVE  ~Referenced(d)'
  <2>1. d # c
    BY <1>6
  <2> QED
    BY <1>0, <1>6, <2>1, CloseListed, StillUnreferenced
<1>7. ASSUME NEW l \in Loops, NEW c \in Conns, NEW what \in {"read", "write"},
             <<c, what>> \in active[l]
      PROVE  Referenced(c)
  <2>1. Anchored(c) /\ Used(c)
    BY <1>7 DEF IInv, Anchors, Used
  <2> QED
    BY <1>7, <2>1, AnchoredOwned DEF IInv, UsedAfter
<1>8. ASSUME NEW l \in Loops,
             \/ CloseOwn(l)
             \/ \E c \in Conns : ReadEnd(l, c) \/ ActiveCloseConn(l, c)
      PROVE  ~Referenced(d)'
  <2>1. CASE CloseOwn(l)
    <3>1. handling[l] \in Conns /\ Referenced(handling[l])
      BY <2>1 DEF CloseOwn, InMessage, TypeOK, ConnOrNone, Referenced
    <3> QED
      BY <1>6, <2>1, <3>1 DEF CloseOwn
  <2>2. ASSUME NEW c \in Conns, ReadEnd(l, c) PROVE ~Referenced(d)'
    BY <1>6, <1>7, <2>2 DEF ReadEnd, Handle
  <2>3. ASSUME NEW c \in Conns, ActiveCloseConn(l, c) PROVE ~Referenced(d)'
    <3>1. Referenced(c)
      BY <2>3 DEF ActiveCloseConn, Referenced
    <3>2. timers' \union fired' \subseteq timers \union fired
      BY <2>3 DEF ActiveCloseConn
    <3> QED
      BY <1>6, <2>3, <3>1, <3>2 DEF ActiveCloseConn
  <2> QED
    BY <1>8, <2>1, <2>2, <2>3
<1>9. ASSUME NEW l \in Loops, NEW c \in Conns, ReadData(l, c) PROVE ~Referenced(d)'
  <2>1. d # c
    BY <1>7, <1>9 DEF ReadData, Handle
  <2>2. \A m \in Loops : handling'[m] = d => handling[m] = d
    BY <1>9, <2>1 DEF ReadData, TypeOK
  <2>3. UNCHANGED <<connections, id_conn, timers, fired, to_do_list, funcs, called,
                    peer>>
    BY <1>9 DEF ReadData, Handle
  <2> QED
    BY <1>0, <2>2, <2>3, StillUnreferenced
<1>10. ASSUME NEW l \in Loops, NEW id \in Ids,
              AddConn(l, id) \/ RemoveConn(l, id) \/ GetConn(l, id)
       PROVE  ~Referenced(d)'
  <2>1. UNCHANGED <<connections, timers, fired, to_do_list, funcs, called, handling>>
    BY <1>10 DEF AddConn, RemoveConn, GetConn
  <2>2. handling[l] # d /\ id_conn[id] # d
    BY DEF Referenced
  <2>3. \A i \in Ids : id_conn'[i] = d => id_conn[i] = d
    BY <1>0, <1>10, <2>2, NoConnAssumption DEF AddConn, RemoveConn, GetConn, TypeOK
  <2>4. \A m \in Loops : peer'[m] = d => peer[m] = d
    BY <1>10, <2>2 DEF AddConn, RemoveConn, GetConn, TypeOK
  <2> QED
    BY <1>0, <2>1, <2>3, <2>4, StillUnreferenced
<1>11. ASSUME NEW l \in Loops, NEW b \in BOOLEAN, SendToPeer(l, b)
       PROVE  ~Referenced(d)'
  <2>1. peer[l] \in Conns /\ loop[peer[l]] \in Loops /\ "send" \in What
    BY <1>11 DEF SendToPeer, IInv, Senders, TypeOK, What
  <2>2. peer[l] # d
    BY DEF Referenced
  <2>3. \A m \in Loops : Listed(d, to_do_list'[m]) => Listed(d, to_do_list[m])
    BY <1>0, <1>11, <2>1, <2>2, QueueListed DEF SendToPeer
  <2>4. UNCHANGED <<connections, id_conn, timers, fired, funcs, called, handling,
                    peer>>
    BY <1>11 DEF SendToPeer
  <2> QED
    BY <1>0, <2>3, <2>4, StillUnreferenced
<1>12. ASSUME NEW c \in Conns, NEW f \in Fds, AcceptConnection(c, f)
       PROVE  ~Referenced(d)'
  <2>1. c # d
    BY <1>12 DEF AcceptConnection
  <2>2. \A g \in Fds : connections'[g] = d => connections[g] = d
    BY <1>12, <2>1 DEF AcceptConnection, TypeOK
  <2>3. Pool[next] \in Loops /\ "established" \in What
    BY PoolAssumption DEF TypeOK, What
  <2>4. \A m \in Loops : Listed(d, to_do_list'[m]) => Listed(d, to_do_list[m])
    BY <1>0, <1>12, <2>1, <2>3, QueueListed DEF AcceptConnection
  <2>5. UNCHANGED <<id_conn, timers, fired, funcs, called, handling, peer>>
    BY <1>12 DEF AcceptConnection
  <2> QED
    BY <1>0, <2>2, <2>4, <2>5, StillUnreferenced
<1>13. CASE AcceptFails
  BY <1>0, <1>13, StillUnreferenced DEF AcceptFails
<1>14. ASSUME NEW l \in Loops, LoopStep(l) \/ PollForClients(l) \/ OnMessage(l)
       PROVE  ~Referenced(d)'
  <2>1. CASE PollForWork(l) \/ PollForClients(l)
    BY <1>2, <2>1 DEF PollForWork, PollForClients
  <2>2. CASE HandleEvent(l)
    BY <1>2, <1>8, <1>9, <2>2 DEF HandleEvent
  <2>3. CASE Finish(l)
    BY <1>2, <1>11, <2>3 DEF Finish
  <2>4. CASE OnMessage(l)
    BY <1>2, <1>8, <1>10, <2>4 DEF OnMessage
  <2> QED
    BY <1>2, <1>3, <1>5, <1>14, <2>1, <2>2, <2>3, <2>4 DEF LoopStep
<1> QED
  BY <1>1, <1>8, <1>12, <1>13, <1>14 DEF Next

\* Descriptors are given out by AcceptConnection only, and it takes a free one.
LEMMA DescriptorStep ==
  ASSUME TypeOK, IInv, OwnDescriptor, [Next]_vars PROVE OwnDescriptor'
<1>1. \A d \in created : Referenced(d)' => Referenced(d)
  BY NoRevival
<1>2. CASE UNCHANGED <<created, fd>>
  <2> SUFFICES ASSUME NEW c \in created, NEW d \in created,
                      Referenced(c)', Referenced(d)', fd[c] = fd[d]
               PROVE  c = d
    BY <1>2 DEF OwnDescriptor
  <2> QED
    BY <1>1 DEF OwnDescriptor
<1>3. ASSUME NEW e \in Conns, NEW f \in Fds, AcceptConnection(e, f)
      PROVE  OwnDescriptor'
  <2>1. /\ e \notin created /\ created' = created \union {e}
        /\ \A c \in created : Referenced(c) => fd[c] # f
    BY <1>3 DEF AcceptConnection, FreeFds
  <2>2. fd'[e] = f /\ \A c \in created : fd'[c] = fd[c]
    BY <1>3, <2>1 DEF AcceptConnection, TypeOK
  <2> SUFFICES ASSUME NEW c \in created', NEW d \in created',
                      Referenced(c)', Referenced(d)', fd'[c] = fd'[d]
               PROVE  c = d
    BY DEF OwnDescriptor
  <2>3. CASE c \in created /\ d \in created
    BY <1>1, <2>2, <2>3 DEF OwnDescriptor
  <2>4. CASE c = e \/ d = e
    BY <1>1, <2>1, <2>2, <2>4
  <2> QED
    BY <2>1, <2>3, <2>4
<1>4. UNCHANGED <<created, fd>> \/ \E e \in Conns, f \in Fds : AcceptConnection(e, f)
  <2> USE DEF connVars
  <2>1. CASE UNCHANGED vars
    BY <2>1 DEF vars
  <2>2. ASSUME NEW l \in Loops, LoopStep(l) \/ PollForClients(l) \/ OnMessage(l)
        PROVE  UNCHANGED <<created, fd>>
    <3>1. CASE PollForWork(l) \/ PollForClients(l)
      BY <3>1 DEF PollForWork, PollForClients, Poll
    <3>2. CASE HandleEvent(l)
      BY <3>2 DEF HandleEvent, ReadData, ReadEnd, HandleWrite, Handle
    <3>3. CASE Functor(l)
      BY <3>3 DEF Functor, ConnectionEstablished, ConnectionDestructor,
                  HandleCloseConnectionInPoller, SendQueued, Call
    <3>4. CASE Finish(l)
      BY <3>4 DEF Finish, Return, SendToPeer
    <3>5. CASE ResetTimers(l) \/ DoToDoList(l) \/ EndToDoList(l)
      BY <3>5 DEF ResetTimers, DoToDoList, EndToDoList
    <3>6. CASE OnMessage(l)
      BY <3>6 DEF OnMessage, CloseOwn, TestPeer, Reply, AddConn, RemoveConn, GetConn
    <3> QED
      BY <2>2, <3>1, <3>2, <3>3, <3>4, <3>5, <3>6 DEF LoopStep
  <2>3. ASSUME NEW l \in Loops, NEW c \in Conns, ActiveCloseConn(l, c)
        PROVE  UNCHANGED <<created, fd>>
    BY <2>3 DEF ActiveCloseConn
  <2>4. CASE AcceptFails
    BY <2>4 DEF AcceptFails
  <2> QED
    BY <2>1, <2>2, <2>3, <2>4 DEF Next
<1> QED
  BY <1>2, <1>3, <1>4

\* ~TcpConnection runs once for a connection, whoever of its loop, the main
\* reactor, a sender, a timer or a login drops the last shared_ptr.
THEOREM DestroyedOnce == Spec => NeverRevived
<1>1. ASSUME TypeOK, IInv, [Next]_vars
      PROVE  [\A c \in created : ~Referenced(c) => ~Referenced(c)']_vars
  BY <1>1, NoRevival
<1> QED
  BY <1>1, Inductive, PTL DEF Spec, NeverRevived

\* No two connections that still exist have one descriptor, so that a read, a late
\* send or the close of an old one never reaches a new client.
THEOREM DescriptorsAreOwn == Spec => []OwnDescriptor
<1>1. Init => OwnDescriptor
  BY DEF Init, OwnDescriptor
<1> QED
  BY <1>1, DescriptorStep, Inductive, PTL DEF Spec
=============================================================================
