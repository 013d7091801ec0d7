---------------------------- MODULE HttpSession -----------------------------
(***************************************************************************)
(* One HTTP/2 connection: HttpContext and its nghttp2 session, OnMessage   *)
(* and Onrequest of HttpServer, and the threads of other connections that  *)
(* push messages through the same session (User::HandleTransport).         *)
(*                                                                         *)
(* What the client sends comes in batches, one OnMessage each.  A request  *)
(* is its stream.  What one nghttp2_session_send puts into the output      *)
(* buffer is a number, counted as it is made, so that its way to the       *)
(* socket can be followed.  Calls of two threads in the session at once    *)
(* are data races: nghttp2's and Append are taken as if one came after the *)
(* other, the mildest thing they can do; GetMessage, which copies the      *)
(* buffer and then empties it, is two steps.                               *)
(*                                                                         *)
(* Sessions.tla is the other half of HttpServer.  What both would call by  *)
(* one name has another one here (stage, HttpInit, HttpSpec ...), so that  *)
(* a module can extend the two.                                            *)
(***************************************************************************)
EXTENDS Naturals, Sequences, FiniteSets

CONSTANTS Pushers,    \* threads of connections whose users send to this one
          Streams,    \* streams the client opens
          MaxWork,    \* bound: streams opened and messages pushed, together
          MaxPings,   \* bound: PINGs, and SETTINGS made anew
          MaxResets   \* bound: streams reset, by the client or for an error

ASSUME HttpSessionAssumption ==
  /\ Streams \subseteq {n \in Nat : n % 2 = 1}
  /\ {MaxWork, MaxPings, MaxResets} \subseteq Nat

Pushed == 2   \* a stream the server has promised; all are even, none is a request

VARIABLES
  stage,     \* the connection's thread: where it is in OnMessage
  init,      \* handshake_init of this OnMessage
  handshake, \* handshake_done_: 0, 1 or 2
  current,   \* current_id_
  push_id,   \* push_id_
  parse_ok,  \* parse_status_
  requests,  \* requests_[s]: the status of the request, or "none"
  active,    \* the request that Onrequest is about
  ended,     \* streams the client has ended
  answered,  \* streams with a response
  blocked,   \* of those, and the promised ones, those whose body waits for the window
  failing,   \* streams with an error, whose RST_STREAM is still to be sent
  reset,     \* streams closed by a RST_STREAM, the client's or the server's
  goaway,    \* a connection error: "no", "due" (the GOAWAY is to be sent) or "sent"
  pushing,   \* pushing[p]: where p is in HandleTransport
  made,      \* number of outputs made
  buffer,    \* buffer_ of HttpContext
  message,   \* what the connection's own thread copied in GetMessage
  hand,      \* hand[p]: what p copied there
  tasks,     \* SendInLoop of the pushers, queued in the loop
  wire,      \* what was sent
  handled,   \* history: a handler has run for s: "no", "early" (before s had ended),
             \* "once", or "again" though the answer to s did not wait for the window
  batch,     \* history: streams to be answered that ended in this batch
  crossed,   \* history: ... but the handshake, another stream or a push came in
  mixed,     \* history: two threads at once between the session and the wire
  pushes, pings

client == <<ended, pings>>
context == <<handshake, current, push_id, parse_ok, requests>>
session == <<answered, blocked, failing, reset, goaway>>
output == <<made, buffer, message, hand, tasks, wire>>
history == <<handled, batch, crossed, mixed>>
httpVars == <<stage, init, context, active, client, session, pushing, output,
              history, pushes>>

HttpInit ==
  /\ stage = "idle" /\ init = 0 /\ handshake = 0 /\ current = 0 /\ push_id = 0
  /\ parse_ok = TRUE /\ requests = [s \in Streams |-> "none"]
  /\ active = 0
  /\ ended = {} /\ answered = {} /\ blocked = {}
  /\ failing = {} /\ reset = {} /\ goaway = "no"
  /\ pushing = [p \in Pushers |-> "idle"]
  /\ made = 0 /\ buffer = <<>> /\ message = <<>>
  /\ hand = [p \in Pushers |-> <<>>]
  /\ tasks = <<>> /\ wire = <<>>
  /\ handled = [s \in Streams |-> "no"]
  /\ batch = {} /\ crossed = {} /\ mixed = FALSE
  /\ pushes = 0 /\ pings = 0
-----------------------------------------------------------------------------
\* nghttp2 has a stream open exactly while HttpContext has its request.
Open(s) == requests[s] # "none"

Opened == {s \in Streams : Open(s)} \union ended \union reset

CanWork == Cardinality(Opened) + pushes < MaxWork

CanReset(s) == Cardinality(failing \union reset \union {s}) <= MaxResets

\* nghttp2_session_send with something to send: on_send_callback appends it.
Emit == made' = made + 1 /\ buffer' = Append(buffer, made + 1)
EmitNothing == UNCHANGED <<made, buffer>>

\* Mutant of LeftInBuffer: GetMessage copies the buffer.
LeaveAll == buffer

\* RetrieveAll, the second step of GetMessage: whatever is there, it is empty now.
LeftInBuffer == <<>>

GetStatus(s) == IF s \in Streams THEN requests[s] ELSE "none"

\* The streams that nghttp2_session_send closes: it sends their RST_STREAM first.
Closing == IF goaway = "no" THEN failing \ reset ELSE {}

\* on_stream_close_callback makes a closed stream the current one.
Current == IF Closing = {} THEN {current} ELSE Closing

\* RST_STREAMs and the GOAWAY, which nghttp2_session_send sends before what is new.
Flush ==
  /\ failing' = IF goaway = "no" THEN {} ELSE failing
  /\ reset' = reset \union Closing
  /\ goaway' = IF goaway = "due" THEN "sent" ELSE goaway
  /\ requests' = [s \in Streams |-> IF s \in Closing THEN "none" ELSE requests[s]]

FlushSends == goaway = "due" \/ (goaway = "no" /\ failing # {})
-----------------------------------------------------------------------------
(* OnMessage: ParseRequest, one frame after the other *)

\* A batch arrives.  Until the handshake is done, each one makes SETTINGS anew.
OnMessage ==
  /\ stage = "idle" /\ stage' = "parse"
  /\ handshake = 0 => made <= MaxPings
  /\ init' = handshake
  /\ mixed' = (\/ mixed \/ tasks # <<>>
               \/ \E p \in Pushers : pushing[p] # "idle")
  /\ UNCHANGED <<context, active, client, session, pushing, output, handled, batch,
                 crossed, pushes>>

\* After a connection error nghttp2 skips what it is given.
Reading == stage = "parse" /\ parse_ok /\ goaway = "no"

\* The client's SETTINGS.  Later ones are as good as PINGs: they undo the handshake
\* and, with a stream there, the end of the batch does it again.
Settings ==
  /\ Reading /\ handshake = 0
  /\ handshake' = 1
  /\ UNCHANGED <<stage, init, current, push_id, parse_ok, requests, active, client,
                 session, pushing, output, history, pushes>>

\* The client goes on with s: what else ended in this batch is not the last.
About(s, last) ==
  /\ crossed' = crossed \union (batch \ {s})
  /\ batch' = IF last /\ s \notin answered \union {push_id'}
               THEN batch \union {s} ELSE batch
  /\ ended' = IF last THEN ended \union {s} ELSE ended

\* on_begin_headers_callback and on_frame_recv_callback.
Headers(s, last) ==
  /\ Reading /\ handshake # 0
  /\ s \in Streams \ Opened /\ \A t \in Streams : t < s => t \in Opened
  /\ CanWork
  /\ push_id' = IF current = 0 THEN s ELSE push_id
  /\ current' = s
  /\ requests' = [requests EXCEPT ![s] = IF last THEN "complete" ELSE "data"]
  /\ About(s, last)
  /\ UNCHANGED <<stage, init, handshake, parse_ok, active, pings, session,
                 pushing, output, handled, mixed, pushes>>

\* Mutant of RemoveStream: the request of a closed stream stays.
KeepStream(s) == requests

RemoveStream(s) == [requests EXCEPT ![s] = "none"]

\* on_data_chunk_recv_callback; on_frame_recv_callback, for which each DATA frame
\* completes the request; and on_stream_close_callback, if the answer is all sent.
\* Trailers, which AddStream takes for a new request, do what the last DATA does.
Data(s, last) ==
  /\ Reading /\ s \in Streams \ (ended \union failing) /\ Open(s)
  /\ current' = s /\ UNCHANGED push_id
  /\ requests' = IF last /\ s \in answered \ blocked THEN RemoveStream(s)
                  ELSE [requests EXCEPT ![s] = "complete"]
  /\ About(s, last)
  /\ UNCHANGED <<stage, init, handshake, parse_ok, active, pings, session,
                 pushing, output, handled, mixed, pushes>>

\* A part of a DATA frame: on_data_chunk_recv_callback alone.
Chunk(s) ==
  /\ Reading /\ s \in Streams \ (ended \union failing) /\ Open(s)
  /\ current' = s /\ UNCHANGED push_id
  /\ About(s, FALSE)
  /\ UNCHANGED <<stage, init, handshake, parse_ok, requests, active, pings, session,
                 pushing, output, handled, mixed, pushes>>

\* The client's RST_STREAM: on_stream_close_callback.
Reset(s) ==
  /\ Reading /\ Open(s) /\ CanReset(s)
  /\ current' = s /\ requests' = RemoveStream(s)
  /\ reset' = reset \union {s} /\ blocked' = blocked \ {s}
  /\ crossed' = crossed \union (batch \ {s}) /\ batch' = batch \ {s}
  /\ UNCHANGED <<stage, init, handshake, push_id, parse_ok, active, client, answered,
                 failing, goaway, pushing, output, handled, mixed, pushes>>

\* Or the client's RST_STREAM for one of the promised streams, or its GOAWAY, which
\* closes them: RemoveStream returns at once, but the stream is the current one.
ResetPromised ==
  /\ Reading /\ Pushed \in blocked
  /\ current' = Pushed /\ blocked' \in {blocked, blocked \ {Pushed}}
  /\ crossed' = crossed \union batch
  /\ UNCHANGED <<stage, init, handshake, push_id, parse_ok, requests, active, client,
                 answered, failing, reset, goaway, pushing, output, handled, batch,
                 mixed, pushes>>

\* A frame of s that is against the protocol: nghttp2 queues a RST_STREAM, passes over
\* what else there is of s, and calls on_invalid_frame_recv, which prints.  HEADERS that
\* are refused are Headers(s, FALSE) and this.
StreamError(s) ==
  /\ Reading /\ Open(s) /\ s \notin failing /\ CanReset(s)
  /\ failing' = failing \union {s}
  /\ UNCHANGED <<stage, init, context, active, client, answered, blocked, reset,
                 goaway, pushing, output, history, pushes>>

\* One that is an error of the connection: nghttp2 queues a GOAWAY and reads no more,
\* but nghttp2_session_mem_recv reports no error.
ConnectionError ==
  /\ Reading /\ goaway' = "due"
  /\ UNCHANGED <<stage, init, context, active, client, answered, blocked, failing,
                 reset, pushing, output, history, pushes>>

\* Mutant of HandshakeDone: each batch with a stream counts.
HandshakeCounted == IF current # 0 THEN handshake + 1 ELSE handshake

HandshakeDone == IF handshake = 1 /\ current # 0 THEN 2 ELSE handshake

\* WINDOW_UPDATE, and a body goes on: its source is gone, for it was part of the
\* HttpResponse of an Onrequest that has returned.
ResumeBody ==
  /\ Reading /\ blocked \ failing # {} /\ stage' = "undefined"
  /\ UNCHANGED <<init, context, active, client, session, pushing, output, history,
                 pushes>>

\* The end of ParseRequest.  What nghttp2 cannot go on with ends the parsing, for good;
\* nghttp2_session_send sends what SETTINGS, PINGs and errors have queued.
ParseRequest ==
  /\ handshake' = HandshakeDone
  /\ parse_ok' \in IF goaway = "no" THEN {parse_ok, FALSE} ELSE {parse_ok}
  /\ Flush /\ current' \in Current /\ blocked' = blocked \ Closing
  /\ \E pinged \in {FALSE, parse_ok /\ pings < MaxPings /\ goaway = "no"} :
       /\ pings' = IF pinged THEN pings + 1 ELSE pings
       /\ IF FlushSends \/ (init = 0 /\ goaway = "no") \/ pinged THEN Emit ELSE EmitNothing

\* The first batch is for the handshake only, and what ParseRequest made is sent
\* only when the client has opened no stream in it.
Greets == init = 0 /\ handshake' = 1

\* 400, and then the connection is closed.
Refuses == init # 0 /\ ~parse_ok'

\* The first stream is kept for pushes.
Handles ==
  init # 0 /\ parse_ok' /\ current' # push_id /\ GetStatus(current)' = "complete"

\* A handler runs for the active request.
Handled ==
  handled' = [handled EXCEPT ![current'] =
    IF current' \notin ended THEN "early"
    ELSE IF @ = "once" /\ current' \notin blocked /\ goaway # "sent" THEN "again"
    ELSE IF @ = "no" THEN "once" ELSE @]

\* The rest of OnMessage, up to what Onrequest does to the session.  No other thread
\* can tell when in between it steps in.
React ==
  /\ stage = "parse" /\ ParseRequest
  /\ stage' = IF Handles \/ Refuses THEN "answer" ELSE IF Greets THEN "send" ELSE "idle"
  /\ IF Handles THEN Handled /\ active' = current' /\ UNCHANGED batch
     ELSE UNCHANGED handled /\ active' = 0 /\ batch' = {}
  /\ crossed' = IF init = 0 \/ Closing # {} THEN crossed \union batch ELSE crossed
  /\ UNCHANGED <<init, push_id, ended, answered, pushing, message, hand, tasks, wire,
                 mixed, pushes>>
-----------------------------------------------------------------------------
(* Onrequest *)

\* nghttp2 sends no promise with a GOAWAY queued or sent, or on a stream that is closed;
\* and it sends none when the client wants none (its SETTINGS or its GOAWAY).
MayPush == goaway = "no" /\ push_id \notin reset \union failing

\* What a push does to the session of the connection: the promise and the message
\* are sent, and when the promised stream is closed it becomes the current one.
\* A message that is not all sent waits for the window, like the body of an answer.
Push ==
  /\ CanWork /\ pushes' = pushes + 1 /\ Flush
  /\ \/ /\ MayPush /\ Emit
        /\ current' = Pushed /\ blocked' = blocked \ Closing
        /\ crossed' = crossed \union batch \union ({active} \ ({0} \union answered))
     \/ /\ MayPush /\ Emit
        /\ current' \in Current /\ blocked' = (blocked \ Closing) \union {Pushed}
        /\ crossed' = IF Closing # {} THEN crossed \union batch ELSE crossed
     \/ /\ IF FlushSends THEN Emit ELSE EmitNothing
        /\ current' \in Current /\ blocked' = blocked \ Closing
        /\ crossed' = IF Closing # {} THEN crossed \union batch ELSE crossed

\* HandleTransport of a message to the sender: its own session is the one to push
\* through, before there is an answer.
PushToSelf ==
  /\ stage = "answer" /\ active # 0 /\ push_id # 0 /\ stage' = "self"
  /\ Push
  /\ UNCHANGED <<init, handshake, push_id, parse_ok, active, client, answered, pushing,
                 message, hand, tasks, wire, handled, batch, mixed>>

\* Send reads current_id_ anew.
Target == current

\* ParseResponse.  nghttp2 takes one response for a stream that is open; a body
\* that is not all sent waits for the window.
Answer ==
  /\ stage = "answer" /\ stage' = "send"
  /\ IF GetStatus(Target) # "none" /\ Target \notin answered /\ goaway = "no"
     THEN \E fits \in BOOLEAN :
            LET closes == fits /\ Target \in ended IN
            /\ answered' = answered \union {Target}
            /\ crossed' = crossed \ {Target}
            /\ blocked' = IF fits THEN blocked ELSE blocked \union {Target}
            /\ requests' = IF closes THEN RemoveStream(Target) ELSE requests
            /\ Emit
     ELSE UNCHANGED <<answered, crossed, blocked, requests>> /\ EmitNothing
  /\ UNCHANGED <<init, handshake, current, push_id, parse_ok, active, client, failing,
                 reset, goaway, pushing, message, hand, tasks, wire, handled, batch,
                 mixed, pushes>>

\* GetMessage in the connection's own thread, its first step: PeekAllAsString.
Peek ==
  /\ stage \in {"self", "send"}
  /\ stage' = IF stage = "self" THEN "self taken" ELSE "send taken"
  /\ message' = buffer
  /\ UNCHANGED <<init, context, active, client, session, pushing, made, buffer, hand,
                 tasks, wire, history, pushes>>

\* Its second step, and TcpConnection::Send in the connection's own thread.
Sends ==
  /\ wire' = wire \o message /\ message' = <<>> /\ buffer' = LeftInBuffer
  /\ UNCHANGED <<init, context, client, session, pushing, made, hand, tasks, handled,
                 crossed, mixed, pushes>>

SendToSelf ==
  /\ stage = "self taken" /\ stage' = "answer"
  /\ Sends /\ UNCHANGED <<active, batch>>

\* The end of OnMessage: the connection is closed if it could not be read, or if the
\* request wants it.
Send ==
  /\ stage = "send taken"
  /\ stage' \in IF init = 0 THEN {"idle"}
             ELSE IF parse_ok THEN {"idle", "closed"} ELSE {"closed"}
  /\ Sends /\ active' = 0 /\ batch' = {}
-----------------------------------------------------------------------------
(* HandleTransport of another connection, on its thread *)

Busy(p) == pushing[p] # "idle"

\* push_id_ is read; without a stream to push to the handler gives up.
Transport(p) ==
  /\ ~Busy(p) /\ push_id # 0
  /\ pushing' = [pushing EXCEPT ![p] = "push"]
  /\ mixed' = (mixed \/ stage \notin {"idle", "closed"} \/ \E q \in Pushers : Busy(q))
  /\ UNCHANGED <<stage, init, context, active, client, session, output, handled,
                 batch, crossed, pushes>>

PushMessage(p) ==
  /\ pushing[p] = "push" /\ pushing' = [pushing EXCEPT ![p] = "peek"]
  /\ Push
  /\ UNCHANGED <<stage, init, handshake, push_id, parse_ok, active, client, answered,
                 message, hand, tasks, wire, handled, batch, mixed>>

\* GetMessage, in two steps.
PeekPushed(p) ==
  /\ pushing[p] = "peek" /\ pushing' = [pushing EXCEPT ![p] = "take"]
  /\ hand' = [hand EXCEPT ![p] = buffer]
  /\ UNCHANGED <<stage, init, context, active, client, session, made, buffer, message,
                 tasks, wire, history, pushes>>

TakePushed(p) ==
  /\ pushing[p] = "take" /\ pushing' = [pushing EXCEPT ![p] = "queue"]
  /\ buffer' = LeftInBuffer
  /\ UNCHANGED <<stage, init, context, active, client, session, made, message, hand,
                 tasks, wire, history, pushes>>

\* TcpConnection::Send in another thread: QueueOneFunc.
QueuePushed(p) ==
  /\ pushing[p] = "queue" /\ pushing' = [pushing EXCEPT ![p] = "idle"]
  /\ tasks' = Append(tasks, hand[p]) /\ hand' = [hand EXCEPT ![p] = <<>>]
  /\ UNCHANGED <<stage, init, context, active, client, session, made, buffer, message,
                 wire, history, pushes>>

\* The loop runs a task between two OnMessages.
SendInLoop ==
  /\ stage \in {"idle", "closed"} /\ tasks # <<>> /\ tasks' = Tail(tasks)
  /\ wire' = IF stage = "idle" THEN wire \o Head(tasks) ELSE wire
  /\ UNCHANGED <<stage, init, context, active, client, session, pushing, made, buffer,
                 message, hand, history, pushes>>

ReadFrame ==
  \/ Settings \/ ResetPromised \/ ConnectionError
  \/ \E s \in Streams : \/ Chunk(s) \/ Reset(s) \/ StreamError(s)
                       \/ \E last \in BOOLEAN : Headers(s, last) \/ Data(s, last)

HttpNext ==
  /\ stage # "undefined"
  /\ \/ OnMessage \/ ReadFrame \/ ResumeBody \/ React
     \/ PushToSelf \/ Answer \/ Peek \/ SendToSelf \/ Send \/ SendInLoop
     \/ \E p \in Pushers : \/ Transport(p) \/ PushMessage(p) \/ PeekPushed(p)
                           \/ TakePushed(p) \/ QueuePushed(p)

HttpSpec == HttpInit /\ [][HttpNext]_httpVars
-----------------------------------------------------------------------------
(* Properties *)

HttpTypeOK ==
  /\ stage \in {"idle", "parse", "answer", "self", "self taken", "send", "send taken",
               "closed", "undefined"}
  /\ init \in 0..2 /\ handshake \in 0..2 /\ init <= handshake
  /\ current \in Streams \union {0, Pushed} /\ push_id \in Streams \union {0}
  /\ requests \in [Streams -> {"none", "data", "complete"}]
  /\ active \in Streams \union {0}
  /\ active # 0 => requests[active] # "none" \/ active \in answered
  /\ stage \in {"idle", "parse"} => active = 0
  /\ blocked \ {Pushed} \subseteq answered
  /\ {answered, ended, failing, reset, batch, crossed} \subseteq SUBSET Streams
  /\ goaway \in {"no", "due", "sent"}
  /\ stage \notin {"parse", "undefined"} =>
       goaway # "due" /\ (goaway = "no" => failing = {})
  /\ \A s \in reset : requests[s] = "none"
  /\ handled \in [Streams -> {"no", "early", "once", "again"}]
  /\ pushing \in [Pushers -> {"idle", "push", "peek", "take", "queue"}]
  /\ {parse_ok, mixed} \subseteq BOOLEAN
  /\ made \in Nat /\ {wire, buffer, message} \subseteq Seq(Nat)
  /\ tasks \in Seq(Seq(Nat)) /\ hand \in [Pushers -> Seq(Nat)]

\* A request that has ended is answered when OnMessage returns, except: the first
\* stream, which is kept for pushes; a stream that was reset; a request that shares its
\* batch with the handshake, or after which the batch has a frame of another stream or
\* the close of another (reset, for an error or by the client); one a push came between;
\* and after a connection error, or when nghttp2 could not go on.  Its handler runs once,
\* except: a request handled before it had ended, one whose answer waits for the window,
\* and after a GOAWAY (OnMessage, on_frame_recv_callback, on_stream_close_callback).
AnsweredOnce ==
  /\ stage = "idle" /\ parse_ok /\ goaway = "no" =>
       \A s \in ended \ (crossed \union reset) : s \in answered \/ s = push_id
  /\ \A s \in Streams : handled[s] # "again"

\* Where outputs are: sent, in a task, in the string of a pusher, in buffer_.
Places ==
  {<<"wire", 0>>, <<"buffer", 0>>} \union ({"task"} \X DOMAIN tasks)
                                   \union ({"hand"} \X Pushers)

\* What is copied is a pusher's when it is in the buffer no more.
InHand(p) == IF pushing[p] = "queue" THEN hand[p] ELSE <<>>

Held(k) ==
  CASE k[1] = "wire" -> wire [] k[1] = "task" -> tasks[k[2]]
    [] k[1] = "hand" -> InHand(k[2]) [] k[1] = "buffer" -> buffer

\* What is in k leaves before what is in l.
Ahead(k, l) ==
  \/ k[1] = "wire" /\ l[1] # "wire"
  \/ k[1] = "task" /\ (l[1] \in {"hand", "buffer"} \/ (l[1] = "task" /\ k[2] < l[2]))
  \/ k[1] = "hand" /\ l[1] = "buffer"

\* As long as no two threads were between the session and the wire at once, what the
\* session has made leaves once while the connection is open, and in the order in which
\* it was made: header compression depends on it.  When they were, nothing is promised:
\* two GetMessages can take the same output, or one drop what the other's session has
\* just made (GetMessage, HandleTransport, TcpConnection::Send).
OutputInOrder ==
  ~mixed /\ stage # "closed" =>
    /\ UNION {{Held(k)[i] : i \in DOMAIN Held(k)} : k \in Places} = 1..made
    /\ \A k, l \in Places : \A i \in DOMAIN Held(k), j \in DOMAIN Held(l) :
         /\ Held(k)[i] = Held(l)[j] => k = l /\ i = j
         /\ Ahead(k, l) \/ (k = l /\ i < j) => Held(k)[i] < Held(l)[j]
=============================================================================
