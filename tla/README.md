# chat-webserver in TLA+

A model of the C++ chat server in `src/Code` in TLA+: its reactor (event loops,
channels, connections, buffers, timers), its HTTP/2 sessions, its logins, and its
store of accounts and messages in MySQL and Redis; checked with TLC on small
instances, with the safety properties of every module proved with TLAPS for
every instance. Paths below are relative to `src/Code`.

Run a check with `tlc -config MCConnLifecycle.cfg MCConnLifecycle`, a proof with
`tlapm ConnLifecycleProofs.tla`. `PROJECT.json` lists the runs, which lines each
definition models, the mutants that show each property can fail, the findings,
the hazards and the theorems.

## 1. The system

One process. A main reactor accepts clients; a pool of worker threads, one event
loop each, serves them; a request is handled to the end on the worker's thread,
database calls included. Threads meet in functor queues (a mutex and an eventfd per
loop), in `shared_ptr` counts, in the tables of `HttpServer` and in the connection
pools.

| component | state | operations | what makes it correct |
|---|---|---|---|
| EventLoop, Poller (`tcp`) | `to_do_list_`, `calling_funcs_`, eventfd, epoll set | Loop, RunOneFunc, QueueOneFunc, DoToDoList, Read, Poll, UpdateChannel, DeleteChannel | every functor runs once, in order; the loop never sleeps over one; sockets are not starved |
| Channel (`tcp`) | `listen_events_`, `ready_events_`, `exist_`, `tie_` | Enable/Disable, HandleEvent | read before write; what epoll watches is what the connection wants |
| Acceptor, TcpServer (`tcp`) | `connections_` by descriptor, `next_` of the pool | AcceptConnection, HandleNewConnection, HandleCloseConnection(InPoller) | a closed connection's entry goes, and no other's |
| TcpConnection (`tcp`) | `state_`, both buffers, `context_`, `user_` | ConnectionEstablished/Destructor, HandleMessage, HandleWrite, HandleClose, Send, SendInLoop | alive while epoll or a batch points at it; bytes whole and in order; destroyed in the end |
| Buffer (`tcp`) | vector, `read_index_`, `write_index_` | Append, Retrieve..., RetrieveAll, EnsureWritableBytes | a queue of bytes |
| TimerQueue, Timer (`timer`) | `timers_`, `active_timers_`, timerfd | AddTimer, HandleRead, ResetTimers, ResetTimerFd | every timer runs; the timerfd is never late by the code's doing |
| HttpServer (`http2`) | `id_conn_`, `users_`, `on_close_`, `auto_close_conn_` | OnConnection, OnMessage, Onrequest, ActiveCloseConn, Add/Remove/GetConn, Add/RemoveUser | logins lead to live users and connections, and go with them |
| HttpContext, HttpRequest, HttpResponse (`http2`) | nghttp2 session, streams, `current_id_`, `push_id_`, output buffer | ParseRequest, callbacks, ParseResponse, PushPromise, GetMessage | a complete request is answered once; frames in session order |
| User (`business`) and the dispatcher (`test/http_server.cpp`) | `username_` | register, login, logout, profile, transport, download, upload, recent messages | acts for the connection's user |
| Redis, Mysql (`database`) | `users` hash and message lists in Redis, tables in MySQL | Insert, Select, Update, Delete, GetRecentMsgs | the cache does not outlive or contradict the database |
| MysqlPool, RedisPool (`database`) | `conns_` | Get, Put, WithConnection | a connection is lent to one worker and comes back |
| AsyncLogging, LogFile, LogStream (`log`) | `cur_`, `nxt_`, `buffers_`, `running_` | Append, Thread, Start, Stop, Write | every record written once, in order |

Calls between them: epoll's `data.ptr` leads to a Channel, whose callbacks are bound
to a raw `TcpConnection*`; `HandleMessage` calls `HttpServer::OnMessage`, which parses,
runs the business code and calls `Send`, on its own connection (run at once) or on
another loop's (queued). `HandleClose` goes to the main reactor, which erases the
connection and queues its destructor back to its loop. Idle timers hold a
`shared_ptr` to their connection.

What is hard: threads meet between any two of those steps; raw pointers live beside
`shared_ptr`; descriptors are reused; writes are partial; the timerfd and the timers
are on different clocks; and a clean-up takes three hops over two threads.
The database and its cache are written in two steps without a common lock; one slot
holds the current stream of a session that two threads use; and nothing in the
repository catches an exception, of which the Redis client and a dereferenced empty
reply raise several. `PROJECT.json` lists these hazards line by line, with the property
for each or the reason for none.

## 2. Modules

| module | models | built on |
|---|---|---|
| `TaskQueue` | abstract: what an event loop promises those who hand it functors | |
| `EventLoop` | the round of one loop, other threads' pushes and wakeups | implements `TaskQueue` |
| `EventLoopProofs` | theorems | `EventLoop` |
| `ConnLifecycle` | main reactor and workers: accept, establish, serve, close, erase, destroy; logins, idle timers, senders | the behaviour of `TaskQueue` as sequences |
| `MCConnLifecycle` | instances for TLC | `ConnLifecycle` |
| `ConnLifecycleProofs` | theorems | `ConnLifecycle` |
| `ConnIO` | the bytes of one connection in both directions | buffers as sequences, which is what `Buffer` implements |
| `ConnIOProofs` | theorems | `ConnIO`, `ByteQueue` |
| `ByteQueue` | abstract: a queue of bytes | |
| `Buffer` | the vector with its two indices | implements `ByteQueue` |
| `BufferProofs` | theorems | `Buffer` |
| `TimerQueue` | timers, timerfd, both clocks | |
| `MCTimerQueue` | instance for TLC | `TimerQueue` |
| `TimerQueueProofs` | theorems | `TimerQueue` |
| `AsyncLogging` | the front end and the writer thread of the logger, `Latch` | |
| `AsyncLoggingProofs` | theorems | `AsyncLogging` |
| `Sessions` | `users_`, `id_conn_`, each connection's `user_`, and the handlers that change them | |
| `MCSessions` | instance for TLC | `Sessions` |
| `HttpSession` | one HTTP/2 connection: `OnMessage`, `Onrequest`, `HttpContext`, pushes by other threads | nghttp2 external; `SendInLoop` queued as in `TaskQueue` |
| `MCHttpSession` | view for TLC | `HttpSession` |
| `SessionsProofs` | theorems | `Sessions`, `HttpSession` |
| `ChatStore` | `Redis`, `Mysql` and both pools, several workers, expiry, faults, restarts | MySQL and Redis external |
| `MCChatStore` | instance for TLC | `ChatStore` |
| `ChatStoreProofs` | theorems | `ChatStore` |

The three stateful levels meet through what they promise: `EventLoop` shows the
functor queue to be a FIFO that is always served, and `ConnLifecycle` and `ConnIO` use
it as one, without the eventfd; `Buffer` shows itself to be a byte queue, and `ConnIO`
uses it as one. For `ConnIO` both are theorems of `ConnIOProofs`.

`Sessions`, `HttpSession` and `ChatStore` are three views of what a
handler does, on the tables, on a session and on the store: they share no variable,
since the code holds no lock of one while it uses another, and the only value that
passes between them (is there a connection for this user, does the password match)
is a free choice in the module that receives it.

### EventLoop
`pc` follows the loop's thread through `Loop`: `"poll"` before `epoll_wait`,
`"events"` while channels are handled, `"funcs"` inside `DoToDoList`. A callback is
two steps (`HandleEvent` or `CallFunc`, then `Return`) between which it may call
`QueueOneFunc` and `RunOneFunc` any number of times. A push by another thread is two
steps, `Push` (the critical section) and `Write` (the eventfd), as the code
unlocks in between. The eventfd is a flag: only zero or not matters. `Poll` returns
every ready channel, since registration is level-triggered: `listen_events_` is a
`short` and cannot hold `EPOLLET`.

### ConnLifecycle
One action per handler: `AcceptConnection`, `ConnectionEstablished`, `ReadData`,
`ReadEnd`, `HandleWrite`, `SendQueued`, `HandleCloseConnectionInPoller`,
`ConnectionDestructor`, `ActiveCloseConn`, and what `on_message_` may do (`Reply`,
`CloseOwn`, `AddConn`, `RemoveConn`, `GetConn`, `TestPeer`/`SendToPeer`, `Return`).
`TcpConnection::Send` to a peer is two steps, since `state_` is read on the sender's
thread and the functor queued after. Ownership is not counted: `Referenced(c)` lists
the places a `shared_ptr` can be, including functors that have been called but whose
vector has not yet gone (`called`), and a timer that has run but is not yet deleted
(`fired`). `~TcpConnection` is the moment `Referenced` becomes false; its descriptor
is then free for `AcceptConnection` (`FreeFds`). An assert that fails sets `aborted`,
after which nothing happens.

`on_message_` may do the calls above in any order and number, which is more than the
HTTP code does: the safety properties hold of any business code that uses connections
through them. Bytes are left out (a send is complete or not, an event is data or the
end); `ConnIO` has them.

### ConnIO
A byte is `<<message, place>>`. `SendInLoop` is the code's cases: written in full, in
part, not at all (EAGAIN), not tried because older bytes wait, refused by a
broken connection. `HandleWrite` is `WriteSome` or `WriteError`. The socket holds
`SockSize` bytes until the client reads. A connection may break at any moment, by
reset or by timeout, which differ in the errno the next write reports. History
variables record what the socket took (`wire`), which messages `SendInLoop` was run
with (`ran`) and what `on_message_` was given (`handed`).

### Buffer
`buffer` is the vector's contents; `Append` is its three branches. The indices are
natural numbers. The compaction's `memcpy` may overlap (undefined in C++); it is
modelled as the upward copy the C library makes of it, and says so.

### TimerQueue
Times are relative to the present: `left[t]` is the expiration minus the system clock,
`fd` the ticks until the timerfd goes off. A tick is the 100 microseconds of
`ResetTimerFd`'s floor. `Tick` moves both clocks, `SetClock` only the system clock.
`HandleRead` is three actions, since callbacks run inside it and add timers: taking
the due timers out, `Run` for each, `ResetTimers`. Which of two timers due at the same
time runs first depends on their addresses, so either may.

### AsyncLogging
A buffer is the sequence of its records, `<<number, length>>`, and how many bytes they
take, which is how far `cur_` of `FixedBuffer` is. `AppendRecord` is `Append`;
`Round` is one iteration of `Thread` from the end of the wait on, a single step as
`mutex_` is held through it. `TestRunning` is its own step: `running_` is a plain bool
read without the lock, and the build, which does not optimise, reads it each time. What
`Stop` or `Append` notify does not matter, as the wait's predicate is constantly false
and only the three seconds end it. `buffers_` is left out, being empty whenever
`mutex_` is free. Line 91 takes `back()` of an empty vector when `nxt_` has been given
`new_nxt`: the pointer read is no buffer, and the write through it in line 93 ends the
process (`crashed`). Which file is written and when it is flushed is left out: `LogFile`
reopens the path it has. Nothing in the repository starts the logger; the model is of
the class for any number of records, starts and stops up to its bounds.

### Sessions
A connection's handlers run on its loop's thread, one after the other, and are steps
between the critical sections of `HttpServer`: `Login`, `AddUser`, `SetUser`, `AddConn`,
`SetOnClose`, and `Logout`, `RemoveUser`, `RemoveConn`. A `User` is the number of the
login that made it; `heap` remembers its name and whether `users_` still owns it.
`AddUser` frees the User it replaces. A handler reads `user_` without a lock;
`Use` notes the use of one that is freed, after which the model ends (undefined
behaviour). `Close` logs nobody out, since `on_close_` is called by nobody. `shared`
and `left` record the situations the properties except, which the code does not
prevent: a second connection logs in as the same user, or a connection logs in as
somebody else.

### HttpSession
What the client sends comes in batches; `OnMessage` begins one, `Settings`, `Headers`,
`Data`, `Chunk`, `Reset` and `ResetPromised` are the frames in it (the callbacks of
`HttpContext.cpp`), `StreamError` and `ConnectionError` those that nghttp2 refuses,
`React` is the end of `ParseRequest` and `OnMessage` up to what `Onrequest` does to the
session, `PushToSelf`, `SendToSelf`, `Answer`, `Peek` and `Send` the rest; `stage` is how
far the connection's thread has come. What `Sessions` would call by the same name is
`HttpInit`, `HttpNext`, `HttpSpec` and `HttpTypeOK` here, as `SessionsProofs` extends both.
Other connections' threads may come between any two of them with `Transport`,
`PushMessage`, `PeekPushed`, `TakePushed` and `QueuePushed`, the steps of
`User::HandleTransport`. `GetMessage` is two steps in either thread (`Peek` and `Sends`,
`PeekPushed` and `TakePushed`), for `RetrieveAllAsString` copies the buffer and then
empties it without a lock. Everything nghttp2 puts out is a number, counted as made, so
that it can be followed through `buffer_`, the strings the threads hold, the functor queue
and the socket.

A stream is closed, its request (if it has one) erased and `current_id_` moved by
`on_stream_close_callback`, in four ways: both sides have ended (in `Data`; in `Answer` the
stream is the current one already), the client resets it (`Reset`, and `ResetPromised` for
the streams the server has promised), a push closes it (`Push`), or
`nghttp2_session_send` sends the RST_STREAM for an error in it (`failing`). The last can be
the one at the end of `ParseRequest`, before `OnMessage` looks at `current_id_`, or that of
another thread's push (`Flush`, `Closing`). After a connection error nghttp2 queues a
GOAWAY and reads no more, while `nghttp2_session_mem_recv` reports nothing, so that the
connection goes on (`goaway`).

nghttp2 is external: it answers SETTINGS and PING, takes one response for a stream that is
open, and holds back a body while the window is closed. When the window opens again, the
body's source has gone with the `HttpResponse` on `Onrequest`'s stack (`ResumeBody`), and
the model ends. Two threads inside the session at once are a data race: the calls of
nghttp2 and the buffer's `Append` are taken as one after the other, the mildest outcome,
and `mixed` records that it came to that; `OutputInOrder` then claims nothing, for the
interleavings of `GetMessage` alone already double outputs and lose them.

### ChatStore
Each SQL statement and each Redis command is a step, under the pools' counts. A worker
takes a Redis connection (`GetRedis`), a Mysql one when it needs the database
(`GetMysql`), gives that back before it touches the cache, and the first at the end
(`Return`). `Check` and `Write` are `Mysql::Insert`, `Update` and `Delete`; `Hget`,
`Query`, `Fill`, `Expire`, `Reread` are `Redis::Select`; `Llen`, `Lindex`, `Lrange`,
`Query`, `Rpush`, `Expire`, `Mark` are `GetRecentMsgs`; `Lpush` ends a message's
`Insert`. MySQL may fail a statement, or commit it and lose the answer. Any exception
(an empty reply dereferenced, an `rpush` of nothing, or one that a Redis command throws,
`RedisFails`) ends the process (`aborted`), as nothing in the repository catches one;
`Restart` is the next process on the same MySQL and Redis. The times to live of the
hash and the list run out at any moment.

What `Select` caches is not the row's password but what `SsGet` finds in the row's text,
the first word after the first `password` (`database/Redis.cpp:30-39`): `Token` gives it,
for each user and password. For a password with a blank, which registration allows
(`business/User.cpp:46-52` looks at the length only), that is its first word, and a user
who is called `password` gets another word, too. Such a user can log in after `Insert` or
`Update`, which cache the password whole, and no more once the entry has been filled
from MySQL. `AccountsAgree` says so: the entry is the password or the word of it.

`wrong` has the workers whose answer about an account is no longer, or never was, what
the database says, because another call has committed since, MySQL answered with an error, or
an update met no row; `torn` has the users whose entry such a worker has written, or whose
entry a commit has left behind, as the answer got lost or the process ended. The next
right write of the entry ends that, and so does the expiry. `list_torn` records that a
second call, a fault or the expiry met the list in the middle of a call, or that MySQL
gave rows in another order or not all of them; it ends when the list expires.

Four things about messages the model shows; `RecentInOrder` excepts the first two:
messages of the same second come back from MySQL in any order, so that the cached ones
and the new ones need not fit together; a text of more than 50 bytes cannot be read into
its column and ends the answer early; a list that has every message but not
the closing `"NULL"` makes the `rpush` an empty one, which throws, and the process
ends; and the same text sent twice by the same sender is refused as a record that exists.

The third is a plain sequence of two calls: a first message, and then a look at the recent
ones. `llen` is 1, `lindex` finds no `"NULL"`, MySQL has the one row, and `results.begin()
+ len` is the end: `rpush` of nothing is an error of Redis (`database/Redis.cpp:347`), and
the server is gone. `src/README.md:188` says that errors of the business logic do not
affect the server's stability. `Rpush` has the step, with `aborted = "rpush"`, and no
property claims that it does not happen.

## 3. Runs

| run | instance | properties |
|---|---|---|
| `event_loop` | 2 threads, 3 functors, 1 socket | `NoLostWakeup`, `ReadSucceeds`, `ImplementsTaskQueue` (refinement, with liveness), `IoServed` |
| `conn_lifecycle` | 2 connections, 2 descriptors, main and 2 workers, 1 login, idle timers on | `NoDanglingChannel`, `ErasesItself`, `DeregisteredForGood` |
| `conn_liveness` | 2 connections, main and 1 worker | `ClosedDestroyed` |
| `conn_leak` | 1 connection on the main reactor | `ClosedReleased`: violated |
| `conn_io` | 2 threads, 2 messages each of 3 bytes, a socket of 2 | `StreamInOrder`, `SenderOrder`, `WriteArmed`, `InputInOrder`, `Delivered` |
| `conn_io_assert` | the same | `RetrieveInRange`: violated |
| `buffer` | 2 byte values, vector of 4 growing to 6, appends of up to 3 | `ImplementsByteQueue` |
| `timer_queue` | 3 timers, once or periodic, one setting of the clock either way | `WakeupPending`, `OnePlace`, `PeriodicStays`, `EventuallyRuns` |
| `async_logging` | 5 records of 1 or 2 bytes, buffers of 3, 2 starts | `WrittenInOrder`, `Accounted`, `CrashNeedsOverflow`, `ReachesFile`, `OwnerReturns` |
| `sessions` | 3 connections, 2 users, 4 logins | `FreedNeedsSecondLogin`, `TablesAgree` |
| `http_session` | 3 requests, 2 and 1 push, or 1 and 2; 1 PING; 2 streams reset | `AnsweredOnce`, `OutputInOrder` |
| `chat_store` | 3 workers, 3 Redis and 2 Mysql connections; 2 passwords, one with a blank; 3 calls on an account, 4 on messages (2 at a time), or one of each; 1 fault | `AccountsAgree`, `RecentInOrder`, `NoneStuck` |

Each run also checks its module's `TypeOK` (`HttpTypeOK`), but for the violations and
`conn_liveness`.

**The two violations.** `conn_leak`: `HttpServer::OnConnection` tests `kConnected` in
both branches (`http2/HttpServer.cpp:47,62`), so the clean-up meant for the call from
`ConnectionDestructor` never runs. A client that logs in and closes stays in
`id_conn_`, with its descriptor. The README promises no leaks (`src/README.md:44`).
`conn_io_assert`: `HandleWrite` calls `Retrieve(n)` before testing `n`
(`tcp/TcpConnection.cpp:72`). If the connection breaks after `HandleMessage` has read
up to EAGAIN and before the write of the same event, `n` is -1 and the assert of
`tcp/Buffer.cpp:79` ends the process. (`HandleMessage` comes first and sees an earlier
break.) In `conn_io` that is the end of a behaviour, which `Delivered` allows for.

**Why the bounds are enough.** Two connections are needed for descriptor reuse and for
sending between connections, two workers for the three-thread hops (main, own loop,
sender's loop); `Len(to_do_list) < MaxList` only bounds how many late sends pile up, of
which one suffices to outlive a connection. Two descriptors for two connections let the
second take the first's descriptor or another. Symmetry is used on connections and
descriptors in the safety run only. Three functors and two pushers let a push fall before,
inside and after the swap while another waits. In `ConnIO` a socket smaller than a message
makes every send partial, and two messages from each of two threads give every order of
two senders. In `Buffer`, appends that fit, compact with and without overlap, and grow all
occur within six bytes. Three timers give one that is due, one that is added in a callback
and one that waits. In `Sessions`, three connections let a second login overtake a first
while a third is somebody else's, and four logins let each of two users come back after a
logout. In `HttpSession`, of three streams the first is kept for pushes and two are
answered, in one batch or in two; with two pushes the second finds the first in any of its
places; with two resets a stream is closed by the client or for an error while another
waits to be answered, in the same batch or before. One pusher suffices for every race of
two threads in a session. Once `mixed` or closed nothing is claimed of the outputs, and no
step depends on them, so that `View` leaves them out from there on. In `ChatStore` every
hazard listed is a meeting of two calls, or of a call with an expiry or a fault, on one
account or one list; a third call on the account or two more on the list find what they
have left. One fault lets MySQL or Redis fail, or the process be killed, at each step. Two
Mysql connections let one call commit between the query and the statement of another, and
a third worker wait for one with a Redis connection in hand. In `AsyncLogging`, five
records overflow a buffer with and without a spare, before and after a restart.

**Fairness.** The operating system schedules every thread: weak fairness of each
loop's step as a whole, never of a branch of it. A callback returns although it may
send any number of times, and a pending idle timer expires and is then reported by
every poll: strong fairness of `Return` and `ActiveCloseConn`. `TimerQueue` assumes
that time passes. `ConnIO`'s `Delivered` assumes a client that reads: without that
nothing is owed. `AsyncLogging` assumes that the writer's wait times out and that an
owner whose wait is over goes on. No client, signal or failure is obliged to occur.
The three later modules state no fairness and no liveness: the code promises an answer
to no request that it does not finish itself, and what could keep a worker waiting for
ever is the safety property `NoneStuck`.

Deadlock is checked in `event_loop`, `buffer`, `timer_queue` and `chat_store`, where the
end of the bounded calls is a step of its own (`Finished`). The connection runs
have a bounded number of clients and messages, and end; so do `async_logging`, of
records and starts, and `sessions`, of logins. `http_session` ends when the connection
is closed.

**What the exceptions in the properties tell.** The properties of the three later
modules hold with exceptions, and each exception is a behaviour TLC finds when it
is taken out: a freed `User` needs a second login of the same user on another
connection; messages for a user go elsewhere after one, or after a login as somebody
else; a request stays unanswered if it shares its batch with the handshake, with a
later frame of another stream or with the close of another (by the client or for an
error), if it is the first stream or has itself been reset, or if a push through its
session (a message to oneself is one) comes between, and none is answered after a
connection error; a handler runs again for a body of several DATA frames, for one whose
answer waits for the window, and after a GOAWAY; two threads at once between a session
and the wire put its outputs out of order, twice, or nowhere. The cache has another
account than the database after a race, a fault or an update of a row that has gone,
until the entry's next right write or the end of its time to live; the recent messages
are out of order or incomplete after a race, a fault, an expiry in the middle of a call,
rows of the same second or a text of more than 50 bytes, until the list expires.

## 4. Proofs

Theorems hold for every value of the constants, under the `ASSUME`s of the modules,
which only say that the constants have their kinds (for instance `Main \in Loops`,
`Wakeup \notin IoChannels`, `kPrePendIndex <= kInitialSize`).

**EventLoopProofs.** `Typing`, `NeverSleepsOverWork` (`NoLostWakeup`), `ReadNeverFails`
(`ReadSucceeds`), `RefinesTaskQueue` (the safety part of `ImplementsTaskQueue`).
`NoLostWakeup` is not inductive: a functor may be listed while the loop is past
`epoll_wait`. The invariant adds that inside `DoToDoList`, where `calling_funcs_` is
set, a functor in the new list has a wakeup or a pusher that owes one, and that the
wakeup channel is only in a batch while the eventfd is not zero.

**ConnLifecycleProofs.** `Typing`, `NoUseAfterFree` (`NoDanglingChannel`),
`EraseFindsItself` (`ErasesItself`), `StaysDeregistered` (`DeregisteredForGood`), and two
that no run checks: `DestroyedOnce` (`NeverRevived`) and `DescriptorsAreOwn`
(`OwnDescriptor`). The invariant is a conjunction of named parts:

- `Fresh`: an object not yet accepted is nowhere.
- `MapOwns`: an open connection, or one whose erasure is queued, owns its entry in
  `connections_`; hence two such never share a descriptor.
- `Places`: functors and events are where their connection's loop is.
- `Stages`: a connection passes once through established, open, closing, destroying,
  and at each stage the functor that leads to the next is queued exactly once: the
  shape that makes the erase unique and the registration end.
- `UsedAfter`, `Anchors`: whatever is in epoll or in a batch has an owner that cannot
  go before it: the table entry, a queued functor, or the vector of functors of the
  round its own loop is in.
- `Threads`, `Senders`: what a running callback or a sender between its two steps holds.

The argument for `NoDanglingChannel`: `ConnectionDestructor` runs in the functor phase
of the connection's own loop, after its batch is empty, and takes the channel out of
epoll while the functor vector still owns the connection; before that, the table entry
or the close or destroy functor owns it. A late `SendInLoop` runs after `HandleClose`
on the same thread and finds `kClosed`.

`DestroyedOnce` says that no step refers to a connection that nothing referred to before:
each way to make a reference starts from one, a raw pointer of a batch included, since
those are anchored. So `~TcpConnection` runs once, and as it closes the descriptor,
`AcceptConnection` can get it again only then: no two connections that exist
share one (`DescriptorsAreOwn`), however long a timer or a login keeps a closed one.

**BufferProofs.** `Typing`, `OperationsAgree` (`ImplementsByteQueue`),
`RefinesByteQueue`. The invariant is `TypeOK` itself; the lemmas say what a copy, a
compaction and an index move do to `Readable`.

**ConnIOProofs.** `Typing`, `StreamIsInOrder` (`StreamInOrder`), `WriteStaysArmed`
(`WriteArmed`), `SendersKeepOrder` (`SenderOrder`), `InputIsInOrder` (`InputInOrder`).
`StreamInOrder` says that `wire \o send_buffer` starts `ran`; to keep it through a send,
`Waits` adds that a connection with unsent bytes has dropped none, so that they are
exactly what `ran` ends with. `SenderOrder` speaks of what has run; `Queues` carries it
back to the call of `Send`: in `to_do_list`, in the functors swapped out of it and in
`ran`, and from each of these to the next, the numbers of one thread do not descend, and a
thread between its test of `state_` and its push holds a number above all of them
(`Counted`, `Before`). `Starts` has its lemmas (reflexive, transitive, kept by appending),
so that no action's proof takes a sequence apart byte by byte.

Two more theorems are about the modules `ConnIO` is built on. `SendBufferIsByteQueue`: as
a model of its send buffer, `ConnIO` implements `ByteQueue`, as `Buffer` does by
`RefinesByteQueue`; so `Buffer`'s vector, up to its bounds, may stand for the sequence.
`FunctorsAreTaskQueue`: the functors of this round and the list after them change only as
`TaskQueue` has it, one being added that is not pending (`Queues` again: its number is above
those of its thread), or the oldest being taken and `SendInLoop` run with its message; across
the swap, for which `Swapped` says that the round before has left nothing. `EventLoop` implements
`TaskQueue` by `RefinesTaskQueue`.

**TimerQueueProofs.** `Typing`, `InOnePlace` (`OnePlace`), `WakeupStaysPending`
(`WakeupPending`), `PeriodicTimersStay` (`PeriodicStays`, an action property). The
invariant is `OnePlace` and `WakeupPending` with `Handling`: while callbacks run, no event
of the timerfd is still to be handled. `ResetTimers` sets it for the earliest timer: that there
is one, in a set of any size, is the lemma `Least`, from the well-foundedness of the natural
numbers. `WakeupPending` then holds after `AddTimer` by cases, whether the new
timer is the first to be due or not, and a forward setting of the clock is paid for by `drift`.

**SessionsProofs.** `Typing`, `NoUseOfFreedUser` (`FreedNeedsSecondLogin`), `Agreement`
(`TablesAgree`). Neither safety property is inductive, as handlers stop between critical
sections. The invariant has five parts:

- `Threads`: what a handler between two steps has in hand is what its `pc` says.
- `OneHolder`: a user that is not `shared` is held, or being worked on, by one open
  connection: the fact both properties rest on.
- `Reachable`: a pointer a handler can follow leads to a live User, but for the step
  between `AddUser`, which frees the old one, and `SetUser`.
- `Leaving`, `Entered`: a connection that turns to another user has `left` the one it
  was, and an entry a login has made in `id_conn_` is there when it ends.

`Typing` needs no other invariant than that `heap` is a sequence of Users: `users_` owns
those that live, one for one.

The second half of the module is about `HttpSession`, the other half of `HttpServer`, from
`HttpSpec`: `HttpTyping` (`HttpTypeOK`), `RequestsAnsweredOnce` (`AnsweredOnce`),
`OutputLeavesInOrder` (`OutputInOrder`). For the requests (`Answers`):

- `Waiting`: a stream that has ended, has no answer and was not reset has its request,
  complete. So the request `OnMessage` looks for is there.
- `Owing`: until a connection error, one stream at most is owed an answer in the middle of a
  batch (`Owed`: ended, not answered, not reset, not the first, not `crossed`), and it is the
  current one; when the handler has run it is the active one; nothing is owed once `Answer` is
  done. Each step that moves `current_id_` away from an owed stream makes it `crossed`, the
  closes by a RST_STREAM included, whether the client's (`CloseAnswers`) or one sent at the end
  of `ParseRequest` or in a push (`ReactAnswers`, `PushAnswers`).
- `Asked` and `Settled`: an answer is to a stream that has been handled; and a stream handled
  after it had ended is complete no more, or waits for the window, or is not the current
  one. So no handler runs again, as long as no GOAWAY was sent.

For the output, `Out` is all of it, as a function from each place there could be (the socket,
every place in the functor queue, each pusher's string, `buffer_`) to the numbers there. What
the actions do with it comes down to three operators: `WithOne` (a new output goes to the
end of one place), `Moved` (one place is emptied to the end of another) and `Shifted` (the
first task goes). `WithOneFacts`, `MovedFacts` and `ShiftedFacts` say of each what it keeps: `All`
(nothing is lost), `Single` (nothing is there twice), and `Sorted`, this one if a move overtakes
nothing (`MayMove`). Each action then has only to be shown to be one of these, and its move to
overtake nothing, which is what `Alone` is for: unless `mixed`, one pusher at
most is busy, none while the connection's own thread is at work, and then no task waits
either. Hence also `Copied`: between the two steps of `GetMessage` the copy is what the buffer
still has, so that emptying it is a move (and is none with a second thread there, which is
why all of it is under `~mixed`). `Kept` is the property of `Out`; `OutputInOrder` follows, as
the places there are, are among those there could be.

**ChatStoreProofs.** `Typing`, `NeverStuck` (`NoneStuck`), `CacheAgreement`
(`AccountsAgree`), `NewestFirst` (`RecentInOrder`). The invariant is built in layers:

- `Typed` is `TypeOK` made inductive. `Pools` counts: the Redis connections that are out
  are as many as the workers past `GetRedis` (`Holding`), the Mysql ones as many as those at
  a statement (`Using`). Both sets are finite because the pools are, so that the number of
  workers needs no assumption. `Shapes` says which operation can be at which point.
- `NeverStuck` follows from `Pools` by counting alone: if all who hold a Redis connection
  wait for a Mysql one, nobody uses one, and the pool is full.
- `InStep`: what a call that is not in `wrong` is going to write about an account is what
  the database says: a commit puts the calls it overtakes into `wrong`. `EntryAccounts` is
  the write of an entry, by such a call or by one in `wrong`: it leaves the entry right, or
  its user `torn`.
- `ListKept`: as long as the list is not `list_torn`, one call at most is at it, the list is
  the newest messages down from the last one but a message in the middle of its
  `Insert` (`Listed`), and what a call has learnt of the list still holds (`Knows`, step by step
  of `GetRecentMsgs`).

The proof of each step shows that an answer is in `wrong`, a user `torn` or the list
`list_torn` before the cache is wrong on that account, and that a right write or an expiry
makes it right again. `SsGet` is any function of user and password (`Token`), of which the
proofs need nothing.

**AsyncLoggingProofs.** `Typing`, `InOrder` (`WrittenInOrder`), `NoneLost` (`Accounted`),
`OnlyOverflowCrashes` (`CrashNeedsOverflow`). All follow from `written \o cur.data`: it is
numbered upwards and ends below the next number (`Numbered`), and misses only
what is in `dropped` (`Kept`). `Round` keeps the sequence and `Append` extends it, if the
buffers that come back are empty (`Spares`) and an empty one has all its room (`Roomy`). `Supplied`
says that until a buffer is thrown away both spares are there, so that line 91 finds one.

**Only model-checked.** All liveness (`ImplementsTaskQueue`'s fairness, `IoServed`,
`ClosedDestroyed`, `Delivered`, `EventuallyRuns`, `ReachesFile`, `OwnerReturns`): the
prover does not do fairness and ENABLED. All other properties of the passing runs have a
theorem. No proof is about a recursive definition:
where a model could have summed or folded a sequence, as the bytes in a log buffer, it
keeps the sum as the code does.

## 5. Not modelled

`http1` is an earlier server that no target compiles (`CMakeLists.txt`). The clients and
test programs only drive the server. nghttp2, MySQL and Redis are external, modelled
as the code uses them: header compression, SQL and the Redis protocol are not. Of
the HTTP/2 classes, header values and the bytes of bodies are left out; of the handlers,
files (`Download`; `Upload` is not dispatched) and the building of JSON; of the
database classes, connecting and the validation of fields. The start-up handshake of
`EventLoopThread` comes before any client. Creating and binding the listening socket, formatting,
files, JSON and SQL text are input and output. Loops never end, so their destructors
never run. Asserts are taken to be evaluated: the build sets no `NDEBUG`, without which
`QueueOneFunc` would not wake the loop.

## 6. What could follow

1. `ConnIO` with `Buffer` in it: a module with the vector and its indices in place of
   `send_buffer`, of which `SendBufferIsByteQueue` and `RefinesByteQueue` are the two halves. The
   read buffer would need a step of its own for `RetrieveAll`, which `Fill` does together with
   the `Append` after it.
2. For `ConnLifecycle`, what `FunctorsAreTaskQueue` says, of the queues of all loops at once: there a
   functor that is called may queue another on its own loop in the same step.
