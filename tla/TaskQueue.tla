----------------------------- MODULE TaskQueue -----------------------------
(***************************************************************************)
(* What an EventLoop promises to the code that hands it functors           *)
(* (EventLoop::RunOneFunc and QueueOneFunc): a functor handed over by any  *)
(* thread is run by the loop's thread, in the order of submission, once,   *)
(* and it is run eventually.  Nothing here mentions eventfd, epoll or the  *)
(* swap of to_do_list_; EventLoop.tla implements this module.              *)
(***************************************************************************)
EXTENDS Sequences

CONSTANTS Tasks,          \* the functors, identified one by one
          NoTask          \* no functor

VARIABLES pending,        \* submitted and not yet started, oldest first
          running         \* the functor the loop's thread started last

vars == <<pending, running>>

Pending(t) == \E i \in DOMAIN pending : pending[i] = t

Init == pending = <<>> /\ running = NoTask

\* A functor object is in the list at most once at a time; it may be handed
\* over again after it has been started.
Submit(t) ==
  /\ ~Pending(t)
  /\ pending' = Append(pending, t)
  /\ UNCHANGED running

Start ==
  /\ pending # <<>>
  /\ running' = Head(pending)
  /\ pending' = Tail(pending)

\* RunOneFunc called on the loop's own thread: run at once, past the queue.
StartInline(t) ==
  /\ running' = t
  /\ UNCHANGED pending

Next == Start \/ \E t \in Tasks : Submit(t) \/ StartInline(t)

Spec == Init /\ [][Next]_vars /\ WF_vars(Start)
=============================================================================
