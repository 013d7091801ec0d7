----------------------------- MODULE ChatStore ------------------------------
(***************************************************************************)
(* database/: accounts and messages, kept in MySQL and cached in Redis.    *)
(* Workers (I/O threads in a handler) borrow a Redis object from           *)
(* RedisPool, which borrows a Mysql object from MysqlPool for the part of  *)
(* the call that needs the database, and puts it back before it touches    *)
(* the cache.  Each statement and each Redis command is one step.          *)
(*                                                                         *)
(* One conversation is modelled.  A message is its row number in msgs, and *)
(* a content stands for the sender and the text.  MySQL and Redis outlive  *)
(* the server process, which any exception ends: nothing catches one, and  *)
(* every Redis command may throw one.                                      *)
(***************************************************************************)
EXTENDS Naturals, SequencesExt

CONSTANTS Workers,     \* threads that run handlers
          Users, Passwords,
          Words,       \* what SsGet can find in the text of a row
          Token,       \* Token[u][p]: what it finds in the row of u and p
          Contents,    \* sender and text of a message
          Long,        \* those longer than the 50 bytes a column is read into
          Null,        \* "NULL": no such user, the end of a complete list
          Miss,        \* the empty OptionalString of hget
          RedisConns, MysqlConns,  \* sizes of the two pools
          N,           \* kdefaultN, how many recent messages are asked for
          Budgets,     \* bound: how many calls about accounts and messages
          MaxAtOnce,   \* bound: how many of those about messages at a time
          MaxFaults    \* bound: errors of MySQL and Redis, and kills

ASSUME ChatStoreAssumption ==
  /\ Long \subseteq Contents
  /\ Null \notin Passwords \union Nat /\ Miss \notin Passwords \union Words \union {Null}
  /\ Token \in [Users -> [Passwords -> Words]]
  /\ RedisConns \in Nat \ {0} /\ MysqlConns \in Nat \ {0} /\ N \in Nat \ {0}
  /\ Budgets \subseteq Nat \X Nat /\ {MaxAtOnce, MaxFaults} \subseteq Nat

VARIABLES
  users,      \* MySQL: users[u] is the password of u, or Null
  msgs,       \* MySQL: rows of the conversation, [content, date]
  hash,       \* Redis: the hash "users"
  hash_ttl,   \* the hash has a time to live
  list,       \* Redis: the list of the conversation, newest first
  list_ttl,
  redis_free, \* connections in RedisPool::conns_
  mysql_free, \* connections in MysqlPool::conns_
  job,        \* job[w]: the call worker w is in
  pc,         \* pc[w]: what w does next
  len,        \* len[w]: len of GetRecentMsgs
  ans,        \* ans[w]: what the database or the list has given w
  aborted,    \* "no", or where an exception has ended the process
  wrong,      \* history: workers with an answer about an account that is not so
  torn,       \* history: users whose entry was last written by such a worker, or not
              \* written after a commit
  list_torn,  \* history: two calls, a fault or an expiry met at the list
  calls, faults

dbVars == <<users, msgs>>
cacheVars == <<hash, hash_ttl, list, list_ttl>>
poolVars == <<redis_free, mysql_free>>
tornVars == <<wrong, torn, list_torn>>
vars == <<dbVars, cacheVars, poolVars, tornVars, job, pc, len, ans, aborted,
          calls, faults>>

Calls == [op : {"insert", "update"}, user : Users, password : Passwords]
           \union [op : {"select", "delete"}, user : Users]
           \union [op : {"send"}, content : Contents]
           \union [op : {"recent"}]
NoJob == [op |-> "none"]
MsgOps == {"send", "recent"}

Init ==
  /\ users = [u \in Users |-> Null] /\ msgs = <<>>
  /\ hash = [u \in Users |-> Miss] /\ hash_ttl = FALSE
  /\ list = <<>> /\ list_ttl = FALSE
  /\ redis_free = RedisConns /\ mysql_free = MysqlConns
  /\ job = [w \in Workers |-> NoJob] /\ pc = [w \in Workers |-> "idle"]
  /\ len = [w \in Workers |-> 0] /\ ans = [w \in Workers |-> <<>>]
  /\ aborted = "no" /\ wrong = {} /\ torn = {} /\ list_torn = FALSE
  /\ calls = <<0, 0>> /\ faults = 0
-----------------------------------------------------------------------------
(* Who is in the middle of what *)

About(w, u) == job[w].op \in {"insert", "update", "select", "delete"}
                 /\ job[w].user = u

\* w has an answer of the database about u that is not in the cache yet.
Pending(w, u) == About(w, u) /\ pc[w] \in {"hset", "fill"}

\* w relies on the list being as it saw it, or has a row that is not in it.
AtList(w) == \/ job[w].op = "send" /\ pc[w] \in {"lpush", "expire"}
             \/ job[w].op = "recent" /\ pc[w] \notin {"redis", "llen"}

OthersAtList(w) == \E v \in Workers \ {w} : AtList(v)

Goto(w, label) == pc' = [pc EXCEPT ![w] = label]

\* Mutant of PutMysql: a call that ends in the database keeps the connection.
KeepMysql(w, label) ==
  /\ mysql_free' = IF label = "return" THEN mysql_free ELSE mysql_free + 1
  /\ Goto(w, label)

\* The end of MysqlPool::WithConnection, with its next step.
PutMysql(w, label) == mysql_free' = mysql_free + 1 /\ Goto(w, label)

Fault == faults < MaxFaults /\ faults' = faults + 1
NoFault == UNCHANGED faults
-----------------------------------------------------------------------------
(* The pools *)

Call(w, c) ==
  /\ pc[w] = "idle"
  /\ calls' = [calls EXCEPT ![IF c.op \in MsgOps THEN 2 ELSE 1] = @ + 1]
  /\ \E b \in Budgets : calls'[1] <= b[1] /\ calls'[2] <= b[2]
  /\ c.op \in MsgOps => Cardinality({v \in Workers : job[v].op \in MsgOps}) < MaxAtOnce
  /\ job' = [job EXCEPT ![w] = c] /\ Goto(w, "redis")
  /\ UNCHANGED <<dbVars, cacheVars, poolVars, tornVars, len, ans, aborted, faults>>

\* RedisPool::Get, and where the call starts.
GetRedis(w) ==
  /\ pc[w] = "redis" /\ redis_free > 0
  /\ redis_free' = redis_free - 1
  /\ Goto(w, CASE job[w].op = "select" -> "hget"
               [] job[w].op = "recent" -> "llen"
               [] OTHER -> "mysql")
  /\ UNCHANGED <<dbVars, cacheVars, mysql_free, tornVars, job, len, ans, aborted,
                 calls, faults>>

\* MysqlPool::Get, and the statement that comes first.
GetMysql(w) ==
  /\ pc[w] = "mysql" /\ mysql_free > 0
  /\ mysql_free' = mysql_free - 1
  /\ Goto(w, IF job[w].op \in {"select", "recent"} THEN "query" ELSE "check")
  /\ UNCHANGED <<dbVars, cacheVars, redis_free, tornVars, job, len, ans, aborted,
                 calls, faults>>

\* Mutant of PutRedis: the connection is not put back.
LoseRedis == UNCHANGED redis_free

PutRedis == redis_free' = redis_free + 1

\* The end of RedisPool::WithConnection: the handler has its answer.
Return(w) ==
  /\ pc[w] = "return" /\ Goto(w, "idle")
  /\ PutRedis
  /\ job' = [job EXCEPT ![w] = NoJob]
  /\ len' = [len EXCEPT ![w] = 0] /\ ans' = [ans EXCEPT ![w] = <<>>]
  /\ UNCHANGED <<dbVars, cacheVars, mysql_free, tornVars, aborted, calls, faults>>
-----------------------------------------------------------------------------
(* Mysql::Insert, Update and Delete: a query, then the statement *)

\* The query of Insert is for all the fields it is given.  One row of a Long
\* content cannot be read, and counts as none.
Found(c) ==
  CASE c.op = "insert" -> users[c.user] = c.password
    [] c.op = "send" -> /\ c.content \notin Long
                        /\ \E i \in DOMAIN msgs : msgs[i].content = c.content
    [] OTHER -> users[c.user] # Null

\* Insert goes on when there is no such record, Update and Delete when there is.
Proceeds(c, found) == found = (c.op \in {"update", "delete"})

\* An error of the query counts as no record.
Check(w) ==
  /\ pc[w] = "check"
  /\ \E found \in BOOLEAN :
       /\ IF found = Found(job[w]) THEN NoFault ELSE ~found /\ Fault
       /\ IF Proceeds(job[w], found)
          THEN Goto(w, "write") /\ UNCHANGED mysql_free
          ELSE PutMysql(w, "return")
  /\ UNCHANGED <<dbVars, cacheVars, redis_free, tornVars, job, len, ans, aborted,
                 calls>>

Password(c) == IF c.op = "delete" THEN Null ELSE c.password

\* user_id is the primary key.  UPDATE succeeds on no row, too.
KeyTaken(c) == c.op = "insert" /\ users[c.user] # Null
NoRow(c) == c.op = "update" /\ users[c.user] = Null

\* A commit on u makes the answers wrong that other calls have got before.  So is that
\* of an update whose row has gone since the query; and an answer that is lost leaves
\* the entry of u behind.
WriteUser(w) ==
  LET c == job[w]
      u == c.user
      changes == users'[u] # users[u]
  IN \E outcome \in {"done", "failed", "lost"} :
       /\ IF outcome = "done" THEN NoFault ELSE Fault
       /\ users' = IF KeyTaken(c) \/ NoRow(c) \/ outcome = "failed" THEN users
                   ELSE [users EXCEPT ![u] = Password(c)]
       /\ wrong' = wrong
            \union {v \in Workers \ {w} : changes /\ Pending(v, u)}
            \union {v \in {w} : outcome = "done" /\ NoRow(c)}
       /\ torn' = IF outcome = "lost" /\ changes THEN torn \union {u} ELSE torn
       /\ PutMysql(w, IF outcome = "done" /\ ~KeyTaken(c) THEN "hset" ELSE "return")
       /\ UNCHANGED <<msgs, list_torn, ans>>

LastDate == IF msgs = <<>> THEN 0 ELSE msgs[Len(msgs)].date

\* The date is the second of the INSERT: that of the last row, or a later one.
WriteMsg(w) ==
  \E outcome \in {"done", "failed", "lost"}, date \in {LastDate, LastDate + 1} :
    /\ IF outcome = "done" THEN NoFault ELSE Fault
    /\ outcome = "failed" => date = LastDate
    /\ msgs' = IF outcome = "failed" THEN msgs
               ELSE Append(msgs, [content |-> job[w].content, date |-> date])
    /\ list_torn' = (\/ list_torn \/ outcome = "lost"
                     \/ outcome = "done" /\ OthersAtList(w))
    /\ ans' = [ans EXCEPT ![w] = IF outcome = "done" THEN <<Len(msgs')>> ELSE <<>>]
    /\ PutMysql(w, IF outcome = "done" THEN "lpush" ELSE "return")
    /\ UNCHANGED <<users, wrong, torn>>

Write(w) ==
  /\ pc[w] = "write"
  /\ IF job[w].op = "send" THEN WriteMsg(w) ELSE WriteUser(w)
  /\ UNCHANGED <<cacheVars, redis_free, job, len, aborted, calls>>
-----------------------------------------------------------------------------
(* Redis: accounts *)

\* The entry of u is written by w.
Written(w, u) ==
  /\ torn' = IF w \in wrong THEN torn \union {u} ELSE torn \ {u}
  /\ wrong' = wrong \ {w}

\* Mutant of Entry: hsetnx, which leaves an entry that is there as it is.
EntryKept(c) == CASE c.op = "delete" -> Miss
                  [] hash[c.user] # Miss -> hash[c.user]
                  [] OTHER -> c.password

Entry(c) == IF c.op = "delete" THEN Miss ELSE c.password

\* hset of Insert and Update, hdel of Delete: neither gives the hash a TTL.
Hset(w) ==
  LET u == job[w].user IN
  /\ pc[w] = "hset" /\ Goto(w, "return")
  /\ hash' = [hash EXCEPT ![u] = Entry(job[w])]
  /\ hash_ttl' = (hash_ttl /\ \E v \in Users : hash'[v] # Miss)
  /\ Written(w, u)
  /\ UNCHANGED <<dbVars, list, list_ttl, poolVars, list_torn, job, len, ans,
                 aborted, calls, faults>>

Hget(w) ==
  /\ pc[w] = "hget"
  /\ Goto(w, IF hash[job[w].user] = Miss THEN "mysql" ELSE "return")
  /\ UNCHANGED <<dbVars, cacheVars, poolVars, tornVars, job, len, ans, aborted,
                 calls, faults>>

\* Mysql::Select: SsGet finds no password in an answer that was an error.
QueryUser(w) ==
  LET u == job[w].user IN
  \E answer \in {users[u], Null} :
    /\ IF answer = users[u] THEN NoFault ELSE Fault
    /\ ans' = [ans EXCEPT ![w] = <<answer>>]
    /\ wrong' = IF answer = users[u] THEN wrong ELSE wrong \union {w}
    /\ PutMysql(w, "fill")
    /\ UNCHANGED <<torn, list_torn>>

\* SsGet takes one word of the row's text, which is the password as long as that has no
\* blank; it is also another one if the user_id has the word "password".
Filled(u, answer) == IF answer = Null THEN Null ELSE Token[u][answer]

\* CacheFromMysql: hset, then expire, which is for the whole hash.
Fill(w) ==
  LET u == job[w].user IN
  /\ pc[w] = "fill" /\ Goto(w, "expire")
  /\ hash' = [hash EXCEPT ![u] = Filled(u, ans[w][1])]
  /\ hash_ttl' = (hash_ttl /\ \E v \in Users : hash'[v] # Miss)
  /\ Written(w, u)
  /\ UNCHANGED <<dbVars, list, list_ttl, poolVars, list_torn, job, len, ans,
                 aborted, calls, faults>>

\* Select reads its entry back, and dereferences what it gets.
Reread(w) ==
  /\ pc[w] = "reread"
  /\ IF hash[job[w].user] = Miss
     THEN aborted' = "entry" /\ UNCHANGED pc
     ELSE Goto(w, "return") /\ UNCHANGED aborted
  /\ UNCHANGED <<dbVars, cacheVars, poolVars, tornVars, job, len, ans, calls, faults>>
-----------------------------------------------------------------------------
(* Redis: messages *)

Lpush(w) ==
  /\ pc[w] = "lpush" /\ Goto(w, "expire")
  /\ list' = ans[w] \o list
  /\ UNCHANGED <<dbVars, hash, hash_ttl, list_ttl, poolVars, tornVars, job, len,
                 ans, aborted, calls, faults>>

\* The expire that ends a fill, a send and a refill of the list.
Expire(w) ==
  /\ pc[w] = "expire"
  /\ IF job[w].op = "select"
     THEN hash_ttl' = (\E u \in Users : hash[u] # Miss) /\ UNCHANGED list_ttl
     ELSE list_ttl' = (list # <<>>) /\ UNCHANGED hash_ttl
  /\ Goto(w, CASE job[w].op = "select" -> "reread"
               [] job[w].op = "recent" /\ Len(ans[w]) < N -> "mark"
               [] OTHER -> "return")
  /\ UNCHANGED <<dbVars, hash, list, poolVars, tornVars, job, len, ans, aborted,
                 calls, faults>>

\* GetRecentMsgs, up to its first look at the list.
Llen(w) ==
  /\ pc[w] = "llen"
  /\ len' = [len EXCEPT ![w] = Len(list)]
  /\ Goto(w, IF list = <<>> THEN "mysql" ELSE "lindex")
  /\ list_torn' = (list_torn \/ OthersAtList(w))
  /\ UNCHANGED <<dbVars, cacheVars, poolVars, wrong, torn, job, ans, aborted, calls,
                 faults>>

\* lindex of the end, which is dereferenced: a list that ends in "NULL" has all
\* there is, another will do if it is long enough.
Lindex(w) ==
  /\ pc[w] = "lindex"
  /\ IF len[w] > Len(list) THEN aborted' = "end" /\ UNCHANGED pc
     ELSE /\ Goto(w, IF list[len[w]] = Null
                     THEN IF len[w] > 1 THEN "all" ELSE "return"
                     ELSE IF len[w] >= N THEN "newest" ELSE "mysql")
          /\ UNCHANGED aborted
  /\ UNCHANGED <<dbVars, cacheVars, poolVars, tornVars, job, len, ans, calls, faults>>

Lrange(w) ==
  /\ pc[w] \in {"all", "newest"} /\ Goto(w, "return")
  /\ LET last == IF pc[w] = "all" THEN len[w] - 1 ELSE N
     IN ans' = [ans EXCEPT ![w] = SubSeq(list, 1, IF last <= Len(list) THEN last
                                                   ELSE Len(list))]
  /\ UNCHANGED <<dbVars, cacheVars, poolVars, tornVars, job, len, aborted, calls,
                 faults>>

Lesser(m, n) == IF m <= n THEN m ELSE n
Newest(n) == [i \in 1..n |-> Len(msgs) + 1 - i]

\* ORDER BY date DESC LIMIT n: rows of the same second come in any order.
ByDate(n) ==
  LET Before(i, j) == msgs[i].date >= msgs[j].date IN
  {s \in [1..Lesser(n, Len(msgs)) -> DOMAIN msgs] :
     /\ \A i, j \in DOMAIN s : i < j => s[i] # s[j] /\ Before(s[i], s[j])
     /\ \A k \in DOMAIN msgs : k \in ToSet(s) \/ \A i \in DOMAIN s : Before(s[i], k)}

\* SelectMsgs stops at a row it cannot read.
Readable(s) ==
  LET cut == {i \in DOMAIN s : msgs[s[i]].content \in Long}
  IN IF cut = {} THEN s ELSE SubSeq(s, 1, Min(cut) - 1)

QueryMsgs(w) ==
  \E order \in ByDate(N), failed \in BOOLEAN :
    LET results == IF failed THEN <<>> ELSE Readable(order) IN
    /\ IF failed THEN Fault ELSE NoFault
    /\ ans' = [ans EXCEPT ![w] = results]
    /\ list_torn' = (list_torn \/ (~failed /\ results # Newest(Lesser(N, Len(msgs)))))
    /\ PutMysql(w, IF results = <<>> THEN "return" ELSE "rpush")
    /\ UNCHANGED <<wrong, torn>>

Query(w) ==
  /\ pc[w] = "query"
  /\ IF job[w].op = "select" THEN QueryUser(w) ELSE QueryMsgs(w)
  /\ UNCHANGED <<dbVars, cacheVars, redis_free, job, len, aborted, calls>>

\* Mutant of FirstNew: the last message of the list is pushed once more.
FirstNewLessOne(n) == IF n = 0 THEN 1 ELSE n

\* results.begin() + len
FirstNew(n) == n + 1

\* rpush of the results that are not in the list: it throws when there are none,
\* and begin() + len may lie past the end.
Rpush(w) ==
  /\ pc[w] = "rpush"
  /\ IF FirstNew(len[w]) > Len(ans[w])
     THEN aborted' = "rpush" /\ UNCHANGED <<list, pc>>
     ELSE /\ list' = list \o SubSeq(ans[w], FirstNew(len[w]), Len(ans[w]))
          /\ Goto(w, "expire") /\ UNCHANGED aborted
  /\ UNCHANGED <<dbVars, hash, hash_ttl, list_ttl, poolVars, tornVars, job, len,
                 ans, calls, faults>>

Mark(w) ==
  /\ pc[w] = "mark" /\ Goto(w, "return")
  /\ list' = Append(list, Null)
  /\ UNCHANGED <<dbVars, hash, hash_ttl, list_ttl, poolVars, tornVars, job, len,
                 ans, aborted, calls, faults>>
-----------------------------------------------------------------------------
(* Time and faults *)

HashExpires ==
  /\ hash_ttl /\ hash_ttl' = FALSE
  /\ hash' = [u \in Users |-> Miss] /\ torn' = {}
  /\ UNCHANGED <<dbVars, list, list_ttl, poolVars, wrong, list_torn, job, pc, len, ans,
                 aborted, calls, faults>>

ListExpires ==
  /\ list_ttl /\ list_ttl' = FALSE
  /\ list' = <<>>
  /\ list_torn' = \E w \in Workers : AtList(w) /\ (list_torn \/ job[w].op = "recent")
  /\ UNCHANGED <<dbVars, hash, hash_ttl, poolVars, wrong, torn, job, pc, len, ans,
                 aborted, calls, faults>>

\* Where a worker is going to give Redis a command.
RedisCommands == {"hget", "hset", "fill", "expire", "reread", "lpush", "llen", "lindex",
                  "all", "newest", "rpush", "mark"}

\* The command throws sw::redis::Error.  One that Redis has done though its answer got
\* lost is the command's own step, followed by a kill.
RedisFails(w) ==
  /\ pc[w] \in RedisCommands /\ Fault /\ aborted' = "redis"
  /\ UNCHANGED <<dbVars, cacheVars, poolVars, tornVars, job, pc, len, ans, calls>>

\* The process is started again, having aborted or been killed: CreateConns
\* fills the pools, and what a call had still to write is not written.
Restart ==
  /\ IF aborted = "no" THEN Fault ELSE NoFault
  /\ torn' = torn \union {u \in Users : \E w \in Workers : Pending(w, u)}
  /\ wrong' = {}
  /\ list_torn' = (list_torn \/ \E w \in Workers : pc[w] = "lpush")
  /\ redis_free' = RedisConns /\ mysql_free' = MysqlConns
  /\ job' = [w \in Workers |-> NoJob] /\ pc' = [w \in Workers |-> "idle"]
  /\ len' = [w \in Workers |-> 0] /\ ans' = [w \in Workers |-> <<>>]
  /\ aborted' = "no"
  /\ UNCHANGED <<dbVars, cacheVars, calls>>

\* The bound on calls is used up.
Finished ==
  calls \in Budgets /\ (\A w \in Workers : pc[w] = "idle") /\ UNCHANGED vars

Serve(w) ==
  /\ aborted = "no"
  /\ \/ GetRedis(w) \/ GetMysql(w) \/ Return(w) \/ Check(w) \/ Write(w)
     \/ Hset(w) \/ Hget(w) \/ Query(w) \/ Fill(w) \/ Expire(w) \/ Reread(w)
     \/ Lpush(w) \/ Llen(w) \/ Lindex(w) \/ Lrange(w) \/ Rpush(w) \/ Mark(w)
     \/ RedisFails(w)

Next ==
  \/ \E w \in Workers : Serve(w)
  \/ aborted = "no" /\ \E w \in Workers, c \in Calls : Call(w, c)
  \/ HashExpires \/ ListExpires \/ Restart \/ Finished

Spec == Init /\ [][Next]_vars
-----------------------------------------------------------------------------
(* Properties *)

Labels == {"idle", "redis", "mysql", "check", "write", "hset", "hget", "query",
           "fill", "expire", "reread", "lpush", "llen", "lindex", "all", "newest",
           "rpush", "mark", "return"}

\* Every connection is in its pool or with the one worker that took it.
TypeOK ==
  /\ users \in [Users -> Passwords \union {Null}]
  /\ \A i \in DOMAIN msgs : msgs[i] \in [content : Contents, date : 0..Len(msgs)]
  /\ hash \in [Users -> Passwords \union Words \union {Null, Miss}]
  /\ hash_ttl => \E u \in Users : hash[u] # Miss
  /\ list \in Seq((DOMAIN msgs) \union {Null}) /\ (list_ttl => list # <<>>)
  /\ redis_free = RedisConns - Cardinality({w \in Workers : pc[w] \notin {"idle", "redis"}})
  /\ mysql_free = MysqlConns
       - Cardinality({w \in Workers : pc[w] \in {"check", "write", "query"}})
  /\ redis_free >= 0 /\ mysql_free >= 0
  /\ job \in [Workers -> Calls \union {NoJob}] /\ pc \in [Workers -> Labels]
  /\ len \in [Workers -> Nat] /\ aborted \in {"no", "entry", "end", "rpush", "redis"}
  /\ wrong \subseteq Workers /\ torn \subseteq Users /\ list_torn \in BOOLEAN

\* What the cache says of an account is what the database says, or the word of it that
\* SsGet finds, but while a call still has to write it.  The exceptions end with the
\* next right write or with the time to live: the entry was written by a call whose
\* answer another's commit had overtaken, or was that of a MySQL error, or of an update
\* that met no row; or it was not written after a commit, because the answer of MySQL
\* got lost or the process ended (Redis.cpp: Insert, Update, Delete, Select,
\* CacheFromMysql).
AccountsAgree ==
  \A u \in Users \ torn :
    \/ hash[u] \in {Miss, users[u], Filled(u, users[u])}
    \/ \E w \in Workers : Pending(w, u)

\* The list of a conversation has its newest messages, newest first, without a gap,
\* and all of them if it ends in "NULL"; and an answer of GetRecentMsgs has as many of
\* them as were asked for, or is the empty one of a failed query.  The exceptions, until
\* the list expires: another call, a fault or the expiry came between the steps of a
\* call at the list, the rows came in another order, those of one second, or up to one
\* whose text is longer than 50 bytes (Redis.cpp: Insert, GetRecentMsgs).
RecentInOrder ==
  LET complete == list # <<>> /\ Last(list) = Null
      rows == IF complete THEN Front(list) ELSE list
  IN ~list_torn =>
       /\ \/ \E w \in Workers : pc[w] = "lpush"
          \/ rows = Newest(Len(rows)) /\ (complete => Len(rows) = Len(msgs))
       /\ \A w \in Workers : job[w].op = "recent" /\ pc[w] = "return" =>
            \/ ans[w] = <<>>
            \/ ans[w] = Newest(Len(ans[w])) /\ Len(ans[w]) >= Lesser(N, Len(msgs))

\* Some worker can go on as long as a call is under way: one that holds a Redis
\* connection and waits for a Mysql one waits for workers that need no other.
NoneStuck ==
  aborted = "no" /\ (\E w \in Workers : pc[w] # "idle") =>
    \E w \in Workers : \/ pc[w] \notin {"idle", "redis", "mysql"}
                       \/ pc[w] = "redis" /\ redis_free > 0
                       \/ pc[w] = "mysql" /\ mysql_free > 0
=============================================================================
