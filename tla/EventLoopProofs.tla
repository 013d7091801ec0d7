-------------------------- MODULE EventLoopProofs --------------------------
(***************************************************************************)
(* Proofs about EventLoop, for every set of threads, functors and          *)
(* descriptors: a sleeping loop is never left with work nobody will wake   *)
(* it for, the assert in EventLoop::Read holds, and every step is a step   *)
(* of TaskQueue or leaves its variables unchanged.                         *)
(***************************************************************************)
EXTENDS EventLoop, TLAPS

\* calling_funcs_ is exactly "inside DoToDoList"; events are left over only
\* while the loop is handling them; callbacks run in one of the two phases.
Phases ==
  /\ calling_funcs <=> pc = "funcs"
  /\ active # {} => pc = "events"
  /\ in_callback => pc # "poll"
  /\ funcs # <<>> => pc = "funcs"

\* NoLostWakeup, strengthened to every phase: the "events" phase needs no
\* wakeup because DoToDoList comes next.
Woken == to_do_list # <<>> => wakeup_fd \/ unsent # {} \/ pc = "events"

IInv == Phases /\ Woken /\ ReadSucceeds

\* Types hold initially and are kept by every step.
THEOREM Typing == Spec => []TypeOK
<1>1. Init => TypeOK
  <2> SUFFICES ASSUME Init PROVE TypeOK
    OBVIOUS
  <2> USE DEF Init
  <2>1. pc \in {"poll", "events", "funcs"} /\ in_callback \in BOOLEAN
    OBVIOUS
  <2>2. active \subseteq Channels /\ io_ready \subseteq IoChannels
    OBVIOUS
  <2>3. to_do_list \in Seq(Tasks) /\ funcs \in Seq(Tasks)
    OBVIOUS
  <2>4. calling_funcs \in BOOLEAN /\ wakeup_fd \in BOOLEAN
    OBVIOUS
  <2>5. unsent \subseteq Threads /\ running \in Tasks \union {NoTask}
    OBVIOUS
  <2> QED
    BY <2>1, <2>2, <2>3, <2>4, <2>5 DEF TypeOK
<1>2. TypeOK /\ [Next]_vars => TypeOK'
  <2> SUFFICES ASSUME TypeOK, [Next]_vars PROVE TypeOK'
    OBVIOUS
  <2> USE DEF TypeOK, loopVars, queueVars
  <2>1. CASE Poll
    BY <2>1 DEF Poll, Ready, Channels
  <2>2. CASE Read
    BY <2>2 DEF Read
  <2>3. CASE DoToDoList
    BY <2>3 DEF DoToDoList, LeftInList
  <2>4. CASE CallFunc
    BY <2>4 DEF CallFunc
  <2>5. CASE EndToDoList
    BY <2>5 DEF EndToDoList
  <2>6. CASE Return
    BY <2>6 DEF Return
  <2>7. ASSUME NEW ch \in IoChannels, HandleEvent(ch) PROVE TypeOK'
    BY <2>7 DEF HandleEvent
  <2>8. CASE PollInterrupted
    BY <2>8 DEF PollInterrupted
  <2>9. ASSUME NEW th \in Threads, Write(th) PROVE TypeOK'
    BY <2>9 DEF Write
  <2>10. ASSUME NEW th \in Threads, NEW t \in Tasks, Push(th, t) PROVE TypeOK'
    BY <2>10 DEF Push
  <2>11. ASSUME NEW ch \in IoChannels, IoArrives(ch) PROVE TypeOK'
    BY <2>11 DEF IoArrives
  <2>12. ASSUME NEW t \in Tasks, QueueOneFunc(t) PROVE TypeOK'
    BY <2>12 DEF QueueOneFunc, WakesItself
  <2>13. ASSUME NEW t \in Tasks, RunOneFunc(t) PROVE TypeOK'
    BY <2>13 DEF RunOneFunc
  <2>14. CASE UNCHANGED vars
    BY <2>14 DEF vars
  <2> QED
    BY <2>1, <2>2, <2>3, <2>4, <2>5, <2>6, <2>7, <2>8, <2>9, <2>10, <2>11,
       <2>12, <2>13, <2>14 DEF Next, LoopStep
<1> QED
  BY <1>1, <1>2, PTL DEF Spec

\* The strengthening is an invariant.
LEMMA Inductive == Spec => []IInv
<1>1. Init => IInv
  BY DEF Init, IInv, Phases, Woken, ReadSucceeds
<1>2. TypeOK /\ TypeOK' /\ IInv /\ [Next]_vars => IInv'
  <2> SUFFICES ASSUME TypeOK, TypeOK', IInv, [Next]_vars
               PROVE  Phases' /\ Woken' /\ ReadSucceeds'
    BY DEF IInv
  <2> USE DEF IInv, Phases, Woken, ReadSucceeds, loopVars, queueVars
  <2>1. CASE Poll
    BY <2>1, WakeupAssumption DEF Poll, Ready, TypeOK
  <2>2. CASE Read
    BY <2>2 DEF Read
  <2>3. CASE DoToDoList
    BY <2>3 DEF DoToDoList, LeftInList
  <2>4. CASE CallFunc
    BY <2>4 DEF CallFunc
  <2>5. CASE EndToDoList
    BY <2>5 DEF EndToDoList
  <2>6. CASE Return
    BY <2>6 DEF Return
  <2>7. ASSUME NEW ch \in IoChannels, HandleEvent(ch)
        PROVE  Phases' /\ Woken' /\ ReadSucceeds'
    BY <2>7 DEF HandleEvent
  <2>8. CASE PollInterrupted
    BY <2>8 DEF PollInterrupted
  <2>9. ASSUME NEW th \in Threads, Write(th)
        PROVE  Phases' /\ Woken' /\ ReadSucceeds'
    BY <2>9 DEF Write
  <2>10. ASSUME NEW th \in Threads, NEW t \in Tasks, Push(th, t)
         PROVE  Phases' /\ Woken' /\ ReadSucceeds'
    BY <2>10 DEF Push
  <2>11. ASSUME NEW ch \in IoChannels, IoArrives(ch)
         PROVE  Phases' /\ Woken' /\ ReadSucceeds'
    BY <2>11 DEF IoArrives
  <2>12. ASSUME NEW t \in Tasks, QueueOneFunc(t)
         PROVE  Phases' /\ Woken' /\ ReadSucceeds'
    BY <2>12 DEF QueueOneFunc, WakesItself, TypeOK
  <2>13. ASSUME NEW t \in Tasks, RunOneFunc(t)
         PROVE  Phases' /\ Woken' /\ ReadSucceeds'
    BY <2>13 DEF RunOneFunc
  <2>14. CASE UNCHANGED vars
    BY <2>14 DEF vars
  <2> QED
    BY <2>1, <2>2, <2>3, <2>4, <2>5, <2>6, <2>7, <2>8, <2>9, <2>10, <2>11,
       <2>12, <2>13, <2>14 DEF Next, LoopStep
<1> QED
  BY <1>1, <1>2, Typing, PTL DEF Spec

\* While the loop sleeps over a listed functor, its eventfd is readable or a
\* pusher is about to write to it (QueueOneFunc and DoToDoList together).
THEOREM NeverSleepsOverWork == Spec => []NoLostWakeup
<1>1. IInv => NoLostWakeup
  BY DEF IInv, Woken, NoLostWakeup
<1> QED
  BY <1>1, Inductive, PTL

\* The assert of EventLoop::Read holds.
THEOREM ReadNeverFails == Spec => []ReadSucceeds
<1>1. IInv => ReadSucceeds
  BY DEF IInv
<1> QED
  BY <1>1, Inductive, PTL
-----------------------------------------------------------------------------
(* The loop implements TaskQueue (its safety part; TLC checks fairness). *)

\* Two facts about the queue the callers see, funcs \o to_do_list.
LEMMA AppendAtEnd ==
  ASSUME NEW S, NEW f \in Seq(S), NEW q \in Seq(S), NEW t \in S
  PROVE  f \o Append(q, t) = Append(f \o q, t)
OBVIOUS

LEMMA TakeAtFront ==
  ASSUME NEW S, NEW f \in Seq(S), NEW q \in Seq(S), f # <<>>
  PROVE  /\ f \o q # <<>>
         /\ Head(f \o q) = Head(f)
         /\ Tail(f \o q) = Tail(f) \o q
OBVIOUS

LEMMA InConcat ==
  ASSUME NEW S, NEW f \in Seq(S), NEW q \in Seq(S), NEW t,
         ~In(t, f), ~In(t, q)
  PROVE  ~In(t, f \o q)
BY DEF In

\* Each step of the loop is a step of TaskQueue or leaves its queue alone:
\* functors start in the order they were pushed in, each once (the swap and
\* the for loop of DoToDoList; RunOneFunc's shortcut is StartInline).
LEMMA StepRefines ==
  ASSUME TypeOK, Phases, [Next]_vars
  PROVE  [Promise!Next]_(Promise!vars)
<1> USE DEF TypeOK, loopVars, queueVars
<1>1. funcs \in Seq(Tasks) /\ to_do_list \in Seq(Tasks)
  OBVIOUS
<1>2. ASSUME UNCHANGED <<funcs, to_do_list, running>>
      PROVE  UNCHANGED Promise!vars
  BY <1>2 DEF Promise!vars
<1>3. CASE DoToDoList
  <2>1. funcs = <<>> /\ funcs' = to_do_list /\ to_do_list' = <<>>
    BY <1>3 DEF DoToDoList, LeftInList, Phases
  <2>2. funcs' \o to_do_list' = funcs \o to_do_list
    BY <1>1, <2>1
  <2> QED
    BY <1>3, <2>2 DEF DoToDoList, Promise!vars
<1>4. CASE CallFunc
  <2>1. /\ funcs # <<>> /\ funcs' = Tail(funcs) /\ running' = Head(funcs)
        /\ to_do_list' = to_do_list
    BY <1>4 DEF CallFunc
  <2>2. Promise!Start
    BY <1>1, <2>1, TakeAtFront DEF Promise!Start
  <2> QED
    BY <2>2 DEF Promise!Next
<1>5. ASSUME NEW t \in Tasks, ~Queued(t), funcs' = funcs,
             to_do_list' = Append(to_do_list, t), running' = running
      PROVE  Promise!Next
  <2>1. funcs' \o to_do_list' = Append(funcs \o to_do_list, t)
    BY <1>1, <1>5, AppendAtEnd
  <2>2. ~Promise!Pending(t)
    BY <1>1, <1>5, InConcat DEF Queued, In, Promise!Pending
  <2>3. Promise!Submit(t)
    BY <1>5, <2>1, <2>2 DEF Promise!Submit
  <2> QED
    BY <2>3 DEF Promise!Next
<1>6. ASSUME NEW t \in Tasks, RunOneFunc(t) PROVE Promise!Next
  BY <1>6 DEF RunOneFunc, Promise!StartInline, Promise!Next
<1>7. ASSUME NEW th \in Threads, NEW t \in Tasks, Push(th, t)
      PROVE  Promise!Next
  BY <1>7, <1>5 DEF Push
<1>8. ASSUME NEW t \in Tasks, QueueOneFunc(t) PROVE Promise!Next
  BY <1>8, <1>5 DEF QueueOneFunc
<1>9. ASSUME Poll \/ Read \/ EndToDoList \/ Return \/ PollInterrupted
      PROVE  UNCHANGED <<funcs, to_do_list, running>>
  BY <1>9 DEF Poll, Read, EndToDoList, Return, PollInterrupted
<1>10. ASSUME \/ \E ch \in IoChannels : HandleEvent(ch) \/ IoArrives(ch)
              \/ \E th \in Threads : Write(th)
              \/ UNCHANGED vars
       PROVE  UNCHANGED <<funcs, to_do_list, running>>
  BY <1>10 DEF HandleEvent, IoArrives, Write, vars
<1> QED
  BY <1>2, <1>3, <1>4, <1>6, <1>7, <1>8, <1>9, <1>10 DEF Next, LoopStep

\* The safety part of ImplementsTaskQueue.
THEOREM RefinesTaskQueue ==
  Spec => Promise!Init /\ [][Promise!Next]_(Promise!vars)
<1>1. Init => Promise!Init
  BY DEF Init, Promise!Init
<1>2. TypeOK /\ IInv /\ [Next]_vars => [Promise!Next]_(Promise!vars)
  BY StepRefines DEF IInv
<1> QED
  BY <1>1, <1>2, Typing, Inductive, PTL DEF Spec
=============================================================================
