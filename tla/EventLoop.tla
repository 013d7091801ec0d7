----------------------------- MODULE EventLoop -----------------------------
(***************************************************************************)
(* One EventLoop (src/Code/tcp/EventLoop.cpp): the thread that runs        *)
(*   while(true){ Poll(); HandleEvent() of every active channel;           *)
(*                DoToDoList(); }                                          *)
(* and the other threads that hand it functors with QueueOneFunc, which    *)
(* pushes under mtx_ and then wakes the loop through an eventfd.           *)
(*                                                                         *)
(* Every critical section and every system call is one step, so a thread   *)
(* can be preempted between its push and its write to wakeup_fd_.          *)
(***************************************************************************)
EXTENDS Sequences

CONSTANTS Threads,        \* the threads other than the loop's own
          Tasks,          \* functors, identified one by one
          NoTask,         \* no functor
          IoChannels,     \* channels registered besides the wakeup channel
          Wakeup          \* wakeup_channel_

ASSUME NoTaskAssumption == NoTask \notin Tasks
ASSUME WakeupAssumption == Wakeup \notin IoChannels

Channels == IoChannels \union {Wakeup}

VARIABLES
  pc,             \* where the loop's thread is: "poll", "events", "funcs"
  in_callback,    \* it is inside a channel's handler or inside a functor
  active,         \* events still to handle of those Poll returned
  to_do_list,     \* to_do_list_, guarded by mtx_
  funcs,          \* the local vector of DoToDoList, what is left of it
  calling_funcs,  \* calling_funcs_
  wakeup_fd,      \* the eventfd's counter is not zero (a read resets it)
  io_ready,       \* channels the kernel reports as ready
  unsent,         \* threads between push_back and write(wakeup_fd_)
  running         \* the functor the loop's thread started last

vars == <<pc, in_callback, active, to_do_list, funcs, calling_funcs,
          wakeup_fd, io_ready, unsent, running>>

loopVars == <<pc, in_callback, active>>
queueVars == <<to_do_list, funcs, calling_funcs>>

In(t, s) == \E i \in DOMAIN s : s[i] = t
Queued(t) == In(t, to_do_list) \/ In(t, funcs)

Init ==
  /\ pc = "poll" /\ in_callback = FALSE /\ active = {}
  /\ to_do_list = <<>> /\ funcs = <<>> /\ calling_funcs = FALSE
  /\ wakeup_fd = FALSE /\ io_ready = {} /\ unsent = {}
  /\ running = NoTask

-----------------------------------------------------------------------------
(* Other threads *)

\* QueueOneFunc on another thread, up to the end of the critical section.
\* (A functor object is queued at most once at a time.)
Push(th, t) ==
  /\ th \notin unsent /\ ~Queued(t)
  /\ to_do_list' = Append(to_do_list, t)
  /\ unsent' = unsent \union {th}
  /\ UNCHANGED <<loopVars, funcs, calling_funcs, wakeup_fd, io_ready, running>>

\* The rest of QueueOneFunc: !IsInThreadLoop() holds, so it writes.
Write(th) ==
  /\ th \in unsent
  /\ wakeup_fd' = TRUE
  /\ unsent' = unsent \ {th}
  /\ UNCHANGED <<loopVars, queueVars, io_ready, running>>

\* The kernel finds a channel readable or writable.
IoArrives(ch) ==
  /\ ch \notin io_ready
  /\ io_ready' = io_ready \union {ch}
  /\ UNCHANGED <<loopVars, queueVars, wakeup_fd, unsent, running>>

-----------------------------------------------------------------------------
(* The loop's thread *)

\* Mutant of Ready: all of events_ is walked, not its first nfds entries.
ReadyStale == io_ready \union {Wakeup}

Ready == io_ready \union (IF wakeup_fd THEN {Wakeup} ELSE {})

\* epoll_wait returns when something is ready, with every ready channel (the
\* registration is level-triggered: Channel keeps EPOLLET in a short).
Poll ==
  /\ pc = "poll" /\ (io_ready # {} \/ wakeup_fd)
  /\ active' = Ready
  /\ pc' = "events"
  /\ UNCHANGED <<in_callback, queueVars, wakeup_fd, io_ready, unsent, running>>

\* epoll_wait returns -1 (a signal): no active channels, and on to DoToDoList.
PollInterrupted ==
  /\ pc = "poll" /\ io_ready = {} /\ ~wakeup_fd
  /\ pc' = "events"
  /\ UNCHANGED <<in_callback, active, queueVars, wakeup_fd, io_ready, unsent,
                 running>>

\* EventLoop::Read, the wakeup channel's read callback.
Read ==
  /\ pc = "events" /\ ~in_callback /\ Wakeup \in active
  /\ wakeup_fd' = FALSE
  /\ active' = active \ {Wakeup}
  /\ UNCHANGED <<pc, in_callback, queueVars, io_ready, unsent, running>>

\* HandleEvent of another channel: it reads the descriptor, then runs code.
\* (A descriptor it did not empty is ready again at once: IoArrives.)
HandleEvent(ch) ==
  /\ pc = "events" /\ ~in_callback /\ ch \in active
  /\ active' = active \ {ch}
  /\ io_ready' = io_ready \ {ch}
  /\ in_callback' = TRUE
  /\ UNCHANGED <<pc, queueVars, wakeup_fd, unsent, running>>

\* Mutant of LeftInList: the list is copied, not swapped.
CopiedList == to_do_list

LeftInList == <<>>

\* DoToDoList up to the end of its critical section: swap with an empty vector.
DoToDoList ==
  /\ pc = "events" /\ ~in_callback /\ active = {}
  /\ pc' = "funcs"
  /\ calling_funcs' = TRUE
  /\ funcs' = to_do_list /\ to_do_list' = LeftInList
  /\ UNCHANGED <<in_callback, active, wakeup_fd, io_ready, unsent, running>>

\* One iteration of its for loop: func().
CallFunc ==
  /\ pc = "funcs" /\ ~in_callback /\ funcs # <<>>
  /\ running' = Head(funcs)
  /\ funcs' = Tail(funcs)
  /\ in_callback' = TRUE
  /\ UNCHANGED <<pc, active, to_do_list, calling_funcs, wakeup_fd, io_ready,
                 unsent>>

\* Mutant of EndToDoList: Loop returns after one round.
EndLoop ==
  /\ pc = "funcs" /\ ~in_callback /\ funcs = <<>>
  /\ calling_funcs' = FALSE
  /\ pc' = "returned"
  /\ UNCHANGED <<in_callback, active, to_do_list, funcs, wakeup_fd, io_ready,
                 unsent, running>>

\* Mutant of EndToDoList: it runs functors until the list is empty.
EndWhenEmpty ==
  /\ pc = "funcs" /\ ~in_callback /\ funcs = <<>>
  /\ calling_funcs' = (to_do_list # <<>>)
  /\ pc' = IF to_do_list = <<>> THEN "poll" ELSE "funcs"
  /\ funcs' = to_do_list /\ to_do_list' = <<>>
  /\ UNCHANGED <<in_callback, active, wakeup_fd, io_ready, unsent, running>>

\* The end of DoToDoList, and back to Poll.
EndToDoList ==
  /\ pc = "funcs" /\ ~in_callback /\ funcs = <<>>
  /\ calling_funcs' = FALSE
  /\ pc' = "poll"
  /\ UNCHANGED <<in_callback, active, to_do_list, funcs, wakeup_fd, io_ready,
                 unsent, running>>

\* The handler or functor returns.
Return ==
  /\ in_callback
  /\ in_callback' = FALSE
  /\ UNCHANGED <<pc, active, queueVars, wakeup_fd, io_ready, unsent, running>>

\* Mutant of WakesItself: QueueOneFunc without "|| calling_funcs_".
NeverWakesItself == FALSE

\* QueueOneFunc called by a handler or functor, on the loop's own thread:
\* IsInThreadLoop() holds, so it writes only while calling_funcs_.
WakesItself == calling_funcs

QueueOneFunc(t) ==
  /\ in_callback /\ ~Queued(t)
  /\ to_do_list' = Append(to_do_list, t)
  /\ wakeup_fd' = (wakeup_fd \/ WakesItself)
  /\ UNCHANGED <<loopVars, funcs, calling_funcs, io_ready, unsent, running>>

\* RunOneFunc on the loop's own thread: cb() at once.
RunOneFunc(t) ==
  /\ in_callback /\ ~Queued(t)
  /\ running' = t
  /\ UNCHANGED <<loopVars, queueVars, wakeup_fd, io_ready, unsent>>

-----------------------------------------------------------------------------
LoopStep ==
  \/ Poll \/ Read \/ DoToDoList \/ CallFunc \/ EndToDoList \/ Return
  \/ \E ch \in IoChannels : HandleEvent(ch)

Next ==
  \/ LoopStep \/ PollInterrupted
  \/ \E th \in Threads : Write(th) \/ \E t \in Tasks : Push(th, t)
  \/ \E ch \in IoChannels : IoArrives(ch)
  \/ \E t \in Tasks : QueueOneFunc(t) \/ RunOneFunc(t)

\* The operating system schedules every thread that can run, and a callback
\* returns; nothing obliges a callback to queue, a socket to become ready or a
\* signal to arrive.
Fairness == WF_vars(LoopStep) /\ \A th \in Threads : WF_vars(Write(th))

Spec == Init /\ [][Next]_vars /\ Fairness

-----------------------------------------------------------------------------
(* Properties *)

TypeOK ==
  /\ pc \in {"poll", "events", "funcs"}
  /\ in_callback \in BOOLEAN
  /\ active \subseteq Channels
  /\ to_do_list \in Seq(Tasks)
  /\ funcs \in Seq(Tasks)
  /\ calling_funcs \in BOOLEAN
  /\ wakeup_fd \in BOOLEAN
  /\ io_ready \subseteq IoChannels
  /\ unsent \subseteq Threads
  /\ running \in Tasks \union {NoTask}

\* The loop never sleeps in epoll_wait over a functor nobody will wake it for:
\* while one is listed, the eventfd is readable or a pusher has yet to write.
\* (QueueOneFunc's condition !IsInThreadLoop() || calling_funcs_.)
NoLostWakeup ==
  pc = "poll" /\ to_do_list # <<>> => wakeup_fd \/ unsent # {}

\* The assert in Read (EventLoop.cpp:95) cannot fail: the eventfd is
\* non-blocking, and read fails on a zero counter.
ReadSucceeds == Wakeup \in active => wakeup_fd

\* Functors that queue functors for ever do not keep the loop from its
\* descriptors: DoToDoList swaps the list out and runs that batch only.
IoServed == \A ch \in IoChannels : (ch \in io_ready) ~> (ch \notin io_ready)

-----------------------------------------------------------------------------
\* The loop implements the queue of functors its callers count on.
Promise == INSTANCE TaskQueue WITH pending <- funcs \o to_do_list

\* Every functor is started once, in the order in which it was pushed, and
\* eventually, whatever thread pushed it.
ImplementsTaskQueue == Promise!Spec
=============================================================================
