---------------------------- MODULE AsyncLogging ----------------------------
(***************************************************************************)
(* AsyncLogging.cpp: threads append log records to a front buffer under a  *)
(* mutex; a writer thread swaps it out every three seconds, writes it to a *)
(* file and gives the buffers back.  An owner starts and stops the writer  *)
(* (Latch.h).                                                              *)
(*                                                                         *)
(* A record is <<number, length>>, numbered as it is appended.  Which file *)
(* it goes to and when the file is flushed is left out: LogFile reopens    *)
(* the path it has.                                                        *)
(***************************************************************************)
EXTENDS Integers, Sequences

CONSTANTS Lengths,    \* lengths of records
          Capacity,   \* FixedBufferLargerSize
          NoBuffer,   \* an empty unique_ptr
          MaxRecords, \* bound: how many records are appended
          MaxStarts   \* bound: how often Start is called

ASSUME SizeAssumption ==
  /\ Lengths \subseteq Nat \ {0} /\ Capacity \in Nat
  /\ MaxRecords \in Nat /\ MaxStarts \in Nat

Records == (1..MaxRecords) \X Lengths

\* FixedBuffer: data_, and how far cur_ is.
Buffers == [data : Seq(Records), len : Nat]
EmptyBuffer == [data |-> <<>>, len |-> 0]

ASSUME NoBufferAssumption == NoBuffer \notin Buffers

VARIABLES
  cur, nxt,          \* cur_ and nxt_, guarded by mutex_
  new_cur, new_nxt,  \* the writer's own buffers
  running,           \* running_
  latch,             \* count_ of latch_
  owner,             \* the thread that calls Start and Stop
  writer,            \* the writer: "none", "new", "test", "waiting", "ended"
  starts,            \* how often Start was called
  appended,          \* history: number of records appended
  written,           \* history: records written to the file
  dropped,           \* history: records Append has thrown away
  crashed            \* the writer has used a buffer that is not there

frontVars == <<cur, nxt, appended, dropped>>
ownerVars == <<running, owner, starts>>
vars == <<frontVars, new_cur, new_nxt, ownerVars, latch, writer, written, crashed>>

Init ==
  /\ cur = EmptyBuffer /\ nxt = EmptyBuffer /\ new_cur = NoBuffer /\ new_nxt = NoBuffer
  /\ running = FALSE /\ latch = 1 /\ owner = "stopped" /\ writer = "none"
  /\ starts = 0 /\ appended = 0 /\ written = <<>> /\ dropped = {}
  /\ crashed = FALSE
-----------------------------------------------------------------------------
(* The front end *)

Contents(s) == {s[i] : i \in DOMAIN s}

\* Mutant of Fits: the last byte of a buffer is counted twice.
FitsOverByOne(b, r) == b.len + r[2] <= Capacity + 1

Fits(b, r) == b.len + r[2] <= Capacity

Put(b, r) == [data |-> Append(b.data, r), len |-> b.len + r[2]]

\* Mutant of PutFresh: the record that did not fit is not appended again.
PutNothing(b, r) == b

\* FixedBuffer::append to the buffer that replaces cur_.
PutFresh(b, r) == IF Fits(b, r) THEN Put(b, r) ELSE b

\* AsyncLogging::Append.  A full buffer is not handed to the writer: nxt_, or a
\* new one, is moved over it.
AppendRecord(len) ==
  LET r == <<appended + 1, len>>
      fresh == IF nxt # NoBuffer THEN nxt ELSE EmptyBuffer
  IN  /\ appended < MaxRecords /\ appended' = appended + 1
      /\ IF Fits(cur, r)
         THEN cur' = Put(cur, r) /\ UNCHANGED <<nxt, dropped>>
         ELSE /\ cur' = PutFresh(fresh, r) /\ nxt' = NoBuffer
              /\ dropped' = dropped \union Contents(cur.data)
                              \union (IF Fits(fresh, r) THEN {} ELSE {r})
      /\ UNCHANGED <<new_cur, new_nxt, ownerVars, latch, writer, written, crashed>>
-----------------------------------------------------------------------------
(* The owner *)

\* Start, up to latch_.wait().
Start ==
  /\ owner = "stopped" /\ starts < MaxStarts
  /\ starts' = starts + 1 /\ owner' = "starting"
  /\ running' = TRUE /\ writer' = "new"
  /\ UNCHANGED <<frontVars, new_cur, new_nxt, latch, written, crashed>>

Started ==
  /\ owner = "starting" /\ latch <= 0
  /\ owner' = "started"
  /\ UNCHANGED <<frontVars, new_cur, new_nxt, running, starts, latch, writer,
                 written, crashed>>

\* Mutant of StopRunning: Stop forgets running_.
KeepRunning == UNCHANGED running

StopRunning == running' = FALSE

\* Stop, up to join.
Stop ==
  /\ owner = "started" /\ owner' = "stopping"
  /\ StopRunning
  /\ UNCHANGED <<frontVars, new_cur, new_nxt, starts, latch, writer, written,
                 crashed>>

Joined ==
  /\ owner = "stopping" /\ writer = "ended"
  /\ owner' = "stopped" /\ writer' = "none"
  /\ UNCHANGED <<frontVars, new_cur, new_nxt, running, starts, latch, written,
                 crashed>>
-----------------------------------------------------------------------------
(* The writer *)

\* latch_.notify(), and the thread's own two buffers.
Begin ==
  /\ writer = "new" /\ writer' = "test"
  /\ latch' = latch - 1
  /\ new_cur' = EmptyBuffer /\ new_nxt' = EmptyBuffer
  /\ UNCHANGED <<frontVars, ownerVars, written, crashed>>

\* while(running_), read without the mutex.
TestRunning ==
  /\ writer = "test"
  /\ writer' = IF running THEN "waiting" ELSE "ended"
  /\ UNCHANGED <<frontVars, new_cur, new_nxt, ownerVars, latch, written, crashed>>

\* Mutant of WaitEnds: wait instead of wait_until; its predicate is never true.
WaitsForPredicate == FALSE

\* wait_until comes back after three seconds, whatever notifies it before.
WaitEnds == TRUE

\* Mutant of Cleared: the buffer is given back as it is.
NotCleared(b) == b

Cleared(b) == EmptyBuffer

\* Mutant of TakesSpare: nxt_ is replaced without looking.
TakesSpareAlways == TRUE

TakesSpare == nxt = NoBuffer

\* The rest of an iteration, all of it under mutex_.  Only one buffer was swapped
\* out, and it becomes new_cur: if nxt_ has taken new_nxt, back() of an empty vector
\* is dereferenced.
Round ==
  /\ writer = "waiting" /\ WaitEnds
  /\ cur' = new_cur
  /\ nxt' = IF TakesSpare THEN new_nxt ELSE nxt
  /\ new_nxt' = IF TakesSpare THEN NoBuffer ELSE new_nxt
  /\ written' = written \o cur.data
  /\ new_cur' = Cleared(cur)
  /\ crashed' = (new_nxt' = NoBuffer)
  /\ writer' = "test"
  /\ UNCHANGED <<appended, dropped, ownerVars, latch>>

WriterStep == Begin \/ TestRunning \/ Round

Next ==
  /\ ~crashed
  /\ \/ WriterStep \/ Start \/ Started \/ Stop \/ Joined
     \/ \E len \in Lengths : AppendRecord(len)

\* The threads are scheduled; nobody has to log, to start or to stop.
Fairness ==
  /\ WF_vars(~crashed /\ WriterStep)
  /\ WF_vars(~crashed /\ (Started \/ Joined))

Spec == Init /\ [][Next]_vars /\ Fairness
-----------------------------------------------------------------------------
(* Properties *)

BufferOrNone == Buffers \union {NoBuffer}

TypeOK ==
  /\ cur \in Buffers /\ cur.len <= Capacity
  /\ nxt \in BufferOrNone
  /\ new_cur \in BufferOrNone /\ new_nxt \in BufferOrNone
  /\ running \in BOOLEAN /\ latch \in Int /\ crashed \in BOOLEAN
  /\ owner \in {"stopped", "starting", "started", "stopping"}
  /\ writer \in {"none", "new", "test", "waiting", "ended"}
  /\ starts \in 0..MaxStarts /\ appended \in 0..MaxRecords
  /\ written \in Seq(Records) /\ dropped \subseteq Records

\* The file has the records in the order they were appended, none twice, although
\* three buffers go round between the threads and the writer comes and goes.
WrittenInOrder ==
  LET out == written \o cur.data
  IN  \A i, j \in 1..Len(out) : i < j => out[i][1] < out[j][1]

\* A record is in the file, in the front buffer, or was in a buffer that Append
\* threw away because it was full: swapping and stopping lose none.
Accounted ==
  \A n \in 1..appended :
    \E r \in Contents(written \o cur.data) \union dropped : r[1] = n

\* The writer is out of buffers (AsyncLogging.cpp:91) only if Append has replaced
\* a full one.
CrashNeedsOverflow == crashed => dropped # {}

\* While the writer runs, whatever is in the front buffer is written or thrown away.
ReachesFile ==
  \A n \in 1..MaxRecords :
    (\E r \in Contents(cur.data) : r[1] = n) /\ writer # "none"
      ~> \/ \E r \in Contents(written) \union dropped : r[1] = n
         \/ ~running \/ crashed

\* Start comes back from the latch and Stop from the join, also the second time.
OwnerReturns ==
  owner \in {"starting", "stopping"} ~> owner \in {"started", "stopped"} \/ crashed
=============================================================================
