-------------------------- MODULE ChatStoreProofs ---------------------------
(***************************************************************************)
(* Proofs about ChatStore for every number of workers and connections,     *)
(* every set of users and messages and every bound.                        *)
(***************************************************************************)
EXTENDS ChatStore, FiniteSetTheorems, SequenceTheorems, TLAPS
-----------------------------------------------------------------------------
(* The invariant, part by part *)

Holding == {w \in Workers : pc[w] \notin {"idle", "redis"}}
Using == {w \in Workers : pc[w] \in {"check", "write", "query"}}

\* Which calls reach which point.
Shape(w) ==
  /\ pc[w] = "idle" <=> job[w] = NoJob
  /\ pc[w] \in {"check", "write"} => job[w].op \in {"insert", "update", "delete", "send"}
  /\ pc[w] = "hset" => job[w].op \in {"insert", "update", "delete"}
  /\ pc[w] \in {"hget", "fill", "reread"} => job[w].op = "select"
  /\ pc[w] = "query" => job[w].op \in {"select", "recent"}
  /\ pc[w] = "expire" => job[w].op \in {"select", "send", "recent"}
  /\ pc[w] = "lpush" => job[w].op = "send"
  /\ pc[w] \in {"llen", "lindex", "all", "newest", "rpush", "mark"}
       => job[w].op = "recent"
  /\ pc[w] \in {"idle", "redis", "llen"} => ans[w] = <<>>
  /\ pc[w] = "fill" => ans[w][1] \in Passwords \union {Null}
  /\ pc[w] \in {"lpush", "rpush"} => ans[w] \in Seq(1..Len(msgs))

Shapes == \A w \in Workers : Shape(w)

Stored ==
  /\ users \in [Users -> Passwords \union {Null}]
  /\ msgs \in Seq([content : Contents, date : Nat])
  /\ \A i \in 1..Len(msgs) : msgs[i].date <= Len(msgs)
  /\ hash \in [Users -> Passwords \union Words \union {Null, Miss}]
  /\ hash_ttl => \E u \in Users : hash[u] # Miss
  /\ list \in Seq(1..Len(msgs) \union {Null}) /\ (list_ttl => list # <<>>)

Pools ==
  /\ IsFiniteSet(Holding) /\ IsFiniteSet(Using)
  /\ redis_free \in Nat /\ redis_free = RedisConns - Cardinality(Holding)
  /\ mysql_free \in Nat /\ mysql_free = MysqlConns - Cardinality(Using)

Work ==
  /\ job \in [Workers -> Calls \union {NoJob}] /\ pc \in [Workers -> Labels]
  /\ DOMAIN ans = Workers
  /\ len \in [Workers -> Nat] /\ aborted \in {"no", "entry", "end", "rpush", "redis"}
  /\ wrong \subseteq Workers /\ torn \subseteq Users /\ list_torn \in BOOLEAN

\* TypeOK, with what it needs to be inductive.
Typed == Stored /\ Pools /\ Work /\ Shapes

\* What a call whose answer nothing has overtaken is going to write about an account
\* is what the database says.
InStep ==
  \A w \in Workers \ wrong, u \in Users :
    /\ Pending(w, u) /\ pc[w] = "fill" => ans[w][1] = users[u]
    /\ Pending(w, u) /\ pc[w] = "hset" => users[u] = Password(job[w])

\* The list is the newest of the first n messages, and the "NULL" after all.
Rows(n) ==
  /\ Len(list) <= n + 1
  /\ \A i \in 1..Len(list) : list[i] = IF i = n + 1 THEN Null ELSE n + 1 - i

Unsent == \E w \in Workers : pc[w] = "lpush"
Listed == Rows(IF Unsent THEN Len(msgs) - 1 ELSE Len(msgs))
OneAtList == \A v, w \in Workers : AtList(v) /\ AtList(w) => v = w

\* What a call knows of the list, until another call or an expiry meets it.
Knows(w) ==
  LET complete == Len(list) = Len(msgs) + 1
      wanted == Lesser(N, Len(msgs))
  IN /\ pc[w] = "lpush" => ans[w] = <<Len(msgs)>>
     /\ job[w].op = "recent" =>
          /\ pc[w] = "lindex" => len[w] = Len(list) /\ list # <<>> /\ ans[w] = <<>>
          /\ pc[w] \in {"mysql", "query", "rpush"} =>
               len[w] = Len(list) /\ len[w] < N /\ ~complete
          /\ pc[w] \in {"rpush", "expire"} => ans[w] = Newest(wanted)
          /\ pc[w] = "all" => len[w] = Len(list) /\ complete
          /\ pc[w] = "newest" => len[w] = Len(list) /\ N <= len[w] /\ ~complete
          /\ pc[w] = "expire" => Len(list) = wanted
          /\ pc[w] = "mark" => Len(list) = Len(msgs) /\ ans[w] = Newest(wanted)
          /\ pc[w] = "return" => \/ ans[w] = <<>>
                                 \/ \E n \in Nat : ans[w] = Newest(n) /\ n >= wanted

ListKept == ~list_torn => Listed /\ OneAtList /\ \A w \in Workers : Knows(w)
-----------------------------------------------------------------------------
(* Types *)

\* A call is not NoJob, and has the arguments of its operation.
LEMMA Jobs ==
  ASSUME NEW c \in Calls
  PROVE  /\ c # NoJob
         /\ c.op \in {"insert", "update", "select", "delete", "send", "recent"}
         /\ c.op \in {"insert", "update", "select", "delete"} => c.user \in Users
         /\ c.op \in {"insert", "update"} => c.password \in Passwords
         /\ c.op = "send" => c.content \in Contents
BY DEF Calls, NoJob

\* The parts of Typed say what TypeOK does.
LEMMA TypedGivesTypeOK == Typed => TypeOK
<1> SUFFICES ASSUME Typed PROVE TypeOK
  OBVIOUS
<1>1. /\ redis_free = RedisConns - Cardinality({w \in Workers : pc[w] \notin {"idle", "redis"}})
      /\ mysql_free = MysqlConns
           - Cardinality({w \in Workers : pc[w] \in {"check", "write", "query"}})
      /\ redis_free >= 0 /\ mysql_free >= 0
  BY DEF Typed, Pools, Holding, Using
<1>2. \A i \in DOMAIN msgs : msgs[i] \in [content : Contents, date : 0..Len(msgs)]
  <2> SUFFICES ASSUME NEW i \in DOMAIN msgs
               PROVE  msgs[i] \in [content : Contents, date : 0..Len(msgs)]
    OBVIOUS
  <2>1. /\ msgs[i] \in [content : Contents, date : Nat] /\ Len(msgs) \in Nat
        /\ msgs[i].date <= Len(msgs)
    <3>1. msgs \in Seq([content : Contents, date : Nat]) /\ DOMAIN msgs = 1..Len(msgs)
      BY DEF Typed, Stored
    <3>2. Len(msgs) \in Nat /\ i \in 1..Len(msgs)
      BY <3>1
    <3>3. msgs[i] \in [content : Contents, date : Nat]
      BY <3>1, <3>2, ElementOfSeq
    <3>4. QED
      BY <3>2, <3>3 DEF Typed, Stored
  <2>2. /\ msgs[i] = [content |-> msgs[i].content, date |-> msgs[i].date]
        /\ msgs[i].content \in Contents /\ msgs[i].date \in 0..Len(msgs)
    BY <2>1
  <2>3. QED
    BY ONLY <2>2
<1>3. /\ list \in Seq((DOMAIN msgs) \union {Null}) /\ (list_ttl => list # <<>>)
      /\ users \in [Users -> Passwords \union {Null}]
      /\ hash \in [Users -> Passwords \union Words \union {Null, Miss}]
      /\ hash_ttl => \E u \in Users : hash[u] # Miss
  BY DEF Typed, Stored
<1>4. QED
  BY <1>1, <1>2, <1>3 DEF TypeOK, Typed, Work

LEMMA InitTyped == Init => Typed
<1> SUFFICES ASSUME Init PROVE Typed
  OBVIOUS
<1>1. Stored
  BY DEF Init, Stored
<1>2. Holding = {} /\ Using = {}
  BY DEF Init, Holding, Using
<1>3. Pools
  BY <1>2, FS_EmptySet, ChatStoreAssumption DEF Init, Pools, ChatStoreAssumption
<1>4. Work
  BY DEF Init, Work, Labels
<1>5. Shapes
  BY DEF Init, Shapes, Shape
<1>6. QED
  BY <1>1, <1>3, <1>4, <1>5 DEF Typed

\* One worker goes on: who holds a connection of each pool then.
LEMMA Holders ==
  ASSUME Pools, Work, NEW w \in Workers, NEW l \in Labels, Goto(w, l)
  PROVE  /\ pc' \in [Workers -> Labels] /\ pc'[w] = l
         /\ \A v \in Workers \ {w} : pc'[v] = pc[v]
         /\ IsFiniteSet(Holding') /\ Cardinality(Holding') \in Nat
         /\ Cardinality(Holding') =
              Cardinality(Holding) + (IF l \in {"idle", "redis"} THEN 0 ELSE 1)
                - (IF pc[w] \in {"idle", "redis"} THEN 0 ELSE 1)
         /\ IsFiniteSet(Using') /\ Cardinality(Using') \in Nat
         /\ Cardinality(Using') =
              Cardinality(Using) + (IF l \in {"check", "write", "query"} THEN 1 ELSE 0)
                - (IF pc[w] \in {"check", "write", "query"} THEN 1 ELSE 0)
<1>1. /\ pc' \in [Workers -> Labels] /\ pc'[w] = l
      /\ \A v \in Workers \ {w} : pc'[v] = pc[v]
  BY DEF Goto, Work
<1>2. Holding' = IF l \in {"idle", "redis"} THEN Holding \ {w} ELSE Holding \union {w}
  BY <1>1 DEF Holding
<1>3. Using' = IF l \in {"check", "write", "query"} THEN Using \union {w} ELSE Using \ {w}
  BY <1>1 DEF Using
<1>4. /\ w \in Holding <=> pc[w] \notin {"idle", "redis"}
      /\ w \in Using <=> pc[w] \in {"check", "write", "query"}
  BY DEF Holding, Using
<1>5. /\ IsFiniteSet(Holding) /\ Cardinality(Holding) \in Nat
      /\ IsFiniteSet(Using) /\ Cardinality(Using) \in Nat
  BY FS_CardinalityType DEF Pools
<1>6. /\ IsFiniteSet(Holding') /\ Cardinality(Holding') \in Nat
      /\ IsFiniteSet(Using') /\ Cardinality(Using') \in Nat
  BY <1>2, <1>3, <1>5, FS_AddElement, FS_RemoveElement, FS_CardinalityType
<1>7. /\ Cardinality(Holding \union {w}) =
           IF w \in Holding THEN Cardinality(Holding) ELSE Cardinality(Holding) + 1
      /\ Cardinality(Holding \ {w}) =
           IF w \in Holding THEN Cardinality(Holding) - 1 ELSE Cardinality(Holding)
  BY <1>5, FS_AddElement, FS_RemoveElement
<1>8. /\ Cardinality(Using \union {w}) =
           IF w \in Using THEN Cardinality(Using) ELSE Cardinality(Using) + 1
      /\ Cardinality(Using \ {w}) =
           IF w \in Using THEN Cardinality(Using) - 1 ELSE Cardinality(Using)
  BY <1>5, FS_AddElement, FS_RemoveElement
<1> HIDE DEF Holding, Using
<1>10. Cardinality(Holding') =
        Cardinality(Holding) + (IF l \in {"idle", "redis"} THEN 0 ELSE 1)
          - (IF pc[w] \in {"idle", "redis"} THEN 0 ELSE 1)
  <2>1. CASE l \in {"idle", "redis"}
    BY <2>1, <1>2, <1>4, <1>5, <1>7
  <2>2. CASE l \notin {"idle", "redis"}
    BY <2>2, <1>2, <1>4, <1>5, <1>7
  <2>3. QED
    BY <2>1, <2>2
<1>11. Cardinality(Using') =
        Cardinality(Using) + (IF l \in {"check", "write", "query"} THEN 1 ELSE 0)
          - (IF pc[w] \in {"check", "write", "query"} THEN 1 ELSE 0)
  <2>1. CASE l \in {"check", "write", "query"}
    BY <2>1, <1>3, <1>4, <1>5, <1>8
  <2>2. CASE l \notin {"check", "write", "query"}
    BY <2>2, <1>3, <1>4, <1>5, <1>8
  <2>3. QED
    BY <2>1, <2>2
<1>12. QED
  BY <1>1, <1>6, <1>10, <1>11

\* A worker that goes on with the connections it has.
LEMMA KeepsConns ==
  ASSUME Pools, Work, NEW w \in Workers, NEW l \in Labels, Goto(w, l),
         pc[w] \in {"idle", "redis"} <=> l \in {"idle", "redis"},
         pc[w] \in {"check", "write", "query"} <=> l \in {"check", "write", "query"},
         UNCHANGED poolVars
  PROVE  Pools'
<1>1. /\ IsFiniteSet(Holding') /\ Cardinality(Holding') = Cardinality(Holding)
      /\ IsFiniteSet(Using') /\ Cardinality(Using') = Cardinality(Using)
  <2>1. Cardinality(Holding) \in Nat /\ Cardinality(Using) \in Nat
    BY FS_CardinalityType DEF Pools
  <2>2. QED
    BY <2>1, Holders
<1>2. QED
  BY <1>1 DEF Pools, poolVars

\* One that puts its Mysql connection back.
LEMMA PutsMysql ==
  ASSUME Pools, Work, NEW w \in Workers, NEW l \in {"return", "hset", "lpush", "fill", "rpush"},
         pc[w] \in {"check", "write", "query"}, PutMysql(w, l), UNCHANGED redis_free
  PROVE  Pools'
<1>1. Goto(w, l) /\ l \in Labels /\ mysql_free' = mysql_free + 1
  BY DEF PutMysql, Labels
<1>2. /\ Cardinality(Holding) \in Nat /\ Cardinality(Using) \in Nat
      /\ redis_free = RedisConns - Cardinality(Holding) /\ redis_free \in Nat
      /\ mysql_free = MysqlConns - Cardinality(Using) /\ mysql_free \in Nat
  BY FS_CardinalityType DEF Pools
<1>3. /\ IsFiniteSet(Holding') /\ Cardinality(Holding') = Cardinality(Holding)
      /\ IsFiniteSet(Using') /\ Cardinality(Using') = Cardinality(Using) - 1
  BY <1>1, <1>2, Holders
<1>4. QED
  BY <1>1, <1>2, <1>3, ChatStoreAssumption DEF Pools, ChatStoreAssumption

\* What the others know is as it was.
LEMMA OtherShapes ==
  ASSUME Work, Stored, Shapes, NEW w \in Workers, NEW l \in Labels, Goto(w, l),
         \A v \in Workers \ {w} : job'[v] = job[v] /\ ans'[v] = ans[v],
         Len(msgs') \in Nat, Len(msgs) <= Len(msgs'), Shape(w)'
  PROVE  Shapes'
<1> SUFFICES ASSUME NEW v \in Workers, v # w PROVE Shape(v)'
  BY DEF Shapes
<1>1. Shape(v) /\ pc'[v] = pc[v] /\ job'[v] = job[v] /\ ans'[v] = ans[v]
  BY DEF Shapes, Goto, Work
<1>2. Len(msgs) \in Nat
  BY DEF Stored
<1>3. ans[v] \in Seq(1..Len(msgs)) => ans[v] \in Seq(1..Len(msgs'))
  BY <1>2
<1>4. QED
  BY <1>1, <1>3 DEF Shape

\* A step of one worker that leaves what is stored and its connections alone.
LEMMA GoesOn ==
  ASSUME Typed, NEW w \in Workers, NEW l \in Labels, Goto(w, l),
         pc[w] \in {"idle", "redis"} <=> l \in {"idle", "redis"},
         pc[w] \in {"check", "write", "query"} <=> l \in {"check", "write", "query"},
         UNCHANGED poolVars, Stored', Shape(w)',
         job' \in [Workers -> Calls \union {NoJob}], len' \in [Workers -> Nat],
         \A v \in Workers \ {w} : job'[v] = job[v] /\ ans'[v] = ans[v],
         DOMAIN ans' = Workers, aborted' = aborted,
         wrong' \subseteq Workers, torn' \subseteq Users, list_torn' \in BOOLEAN,
         Len(msgs) <= Len(msgs')
  PROVE  Typed'
<1>1. Pools'
  BY KeepsConns DEF Typed
<1>2. Work'
  BY DEF Typed, Work, Goto
<1>3. Shapes'
  <2>1. Len(msgs') \in Nat
    BY DEF Stored
  <2>2. QED
    BY <2>1, OtherShapes DEF Typed
<1>4. QED
  BY <1>1, <1>2, <1>3 DEF Typed

\* The same of a step that puts a Mysql connection back.
LEMMA GoesOnWithoutMysql ==
  ASSUME Typed, NEW w \in Workers, NEW l \in {"return", "hset", "lpush", "fill", "rpush"},
         pc[w] \in {"check", "write", "query"}, PutMysql(w, l), UNCHANGED redis_free,
         Stored', Shape(w)', UNCHANGED <<job, len, aborted>>,
         DOMAIN ans' = Workers, \A v \in Workers \ {w} : ans'[v] = ans[v],
         wrong' \subseteq Workers, torn' \subseteq Users, list_torn' \in BOOLEAN,
         Len(msgs) <= Len(msgs')
  PROVE  Typed'
<1>1. Pools'
  BY PutsMysql DEF Typed
<1>2. Goto(w, l) /\ l \in Labels
  BY DEF PutMysql, Labels
<1>3. Work'
  BY <1>2 DEF Typed, Work, Goto
<1>4. Shapes'
  <2>1. Len(msgs') \in Nat
    BY DEF Stored
  <2>2. QED
    BY <1>2, <2>1, OtherShapes DEF Typed
<1>5. QED
  BY <1>1, <1>3, <1>4 DEF Typed

LEMMA StoredStays ==
  ASSUME Stored, UNCHANGED <<dbVars, cacheVars>>
  PROVE  Stored' /\ Len(msgs) \in Nat /\ Len(msgs) <= Len(msgs')
<1>1. Stored' /\ msgs' = msgs
  BY DEF Stored, dbVars, cacheVars
<1>2. Len(msgs) \in Nat
  BY DEF Stored
<1>3. QED
  BY <1>1, <1>2

LEMMA CallTyped ==
  ASSUME Typed, NEW w \in Workers, NEW c \in Calls, Call(w, c)
  PROVE  Typed'
<1>1. Stored' /\ Len(msgs) <= Len(msgs')
  BY StoredStays DEF Typed, Call
<1>2. /\ job' \in [Workers -> Calls \union {NoJob}] /\ job'[w] = c
      /\ \A v \in Workers \ {w} : job'[v] = job[v]
  BY DEF Call, Typed, Work
<1>3. pc'[w] = "redis"
  BY DEF Call, Goto, Typed, Work
<1>4. ans'[w] = <<>>
  BY DEF Call, Typed, Shapes, Shape
<1>5. Shape(w)'
  BY <1>2, <1>3, <1>4, Jobs DEF Shape
<1>6. QED
  BY <1>1, <1>2, <1>5, GoesOn DEF Call, Typed, Work, Labels, tornVars

LEMMA GetRedisTyped ==
  ASSUME Typed, NEW w \in Workers, GetRedis(w)
  PROVE  Typed'
<1>1. Stored' /\ Len(msgs) \in Nat /\ Len(msgs) <= Len(msgs')
  BY StoredStays DEF Typed, GetRedis
<1> DEFINE l == CASE job[w].op = "select" -> "hget"
                  [] job[w].op = "recent" -> "llen"
                  [] OTHER -> "mysql"
<1>2. l \in {"hget", "llen", "mysql"} /\ Goto(w, l)
  BY DEF GetRedis
<1>3. Shape(w)'
  <2>1. pc'[w] = l /\ job'[w] = job[w] /\ job[w] # NoJob
    BY <1>2 DEF GetRedis, Goto, Typed, Work, Shapes, Shape
  <2>2. ans'[w] = <<>>
    BY DEF GetRedis, Typed, Shapes, Shape
  <2>3. QED
    BY <2>1, <2>2 DEF Shape
<1> HIDE DEF l
<1>4. Shapes'
  BY <1>1, <1>2, <1>3, OtherShapes DEF GetRedis, Typed, Labels
<1>5. Pools'
  <2>1. Cardinality(Holding) \in Nat /\ Cardinality(Using) \in Nat
    BY FS_CardinalityType DEF Typed, Pools
  <2>2. /\ IsFiniteSet(Holding') /\ Cardinality(Holding') = Cardinality(Holding) + 1
        /\ IsFiniteSet(Using') /\ Cardinality(Using') = Cardinality(Using)
    BY <1>2, <2>1, Holders DEF Typed, Labels, GetRedis
  <2>3. QED
    BY <2>1, <2>2, ChatStoreAssumption DEF Typed, Pools, GetRedis, ChatStoreAssumption
<1>6. Work'
  BY <1>2 DEF Typed, Work, Goto, GetRedis, Labels, tornVars
<1>7. QED
  BY <1>1, <1>4, <1>5, <1>6 DEF Typed

LEMMA GetMysqlTyped ==
  ASSUME Typed, NEW w \in Workers, GetMysql(w)
  PROVE  Typed'
<1>1. Stored' /\ Len(msgs) \in Nat /\ Len(msgs) <= Len(msgs')
  BY StoredStays DEF Typed, GetMysql
<1> DEFINE l == IF job[w].op \in {"select", "recent"} THEN "query" ELSE "check"
<1>2. l \in {"query", "check"} /\ Goto(w, l)
  BY DEF GetMysql
<1>3. Shape(w)'
  <2>1. pc'[w] = l /\ job'[w] = job[w] /\ job[w] # NoJob /\ job[w] \in Calls
    BY <1>2 DEF GetMysql, Goto, Typed, Work, Shapes, Shape
  <2>2. QED
    BY <2>1, Jobs DEF Shape
<1> HIDE DEF l
<1>4. Shapes'
  BY <1>1, <1>2, <1>3, OtherShapes DEF GetMysql, Typed, Labels
<1>5. Pools'
  <2>1. Cardinality(Holding) \in Nat /\ Cardinality(Using) \in Nat
    BY FS_CardinalityType DEF Typed, Pools
  <2>2. /\ IsFiniteSet(Holding') /\ Cardinality(Holding') = Cardinality(Holding)
        /\ IsFiniteSet(Using') /\ Cardinality(Using') = Cardinality(Using) + 1
    BY <1>2, <2>1, Holders DEF Typed, Labels, GetMysql
  <2>3. QED
    BY <2>1, <2>2, ChatStoreAssumption DEF Typed, Pools, GetMysql, ChatStoreAssumption
<1>6. Work'
  BY <1>2 DEF Typed, Work, Goto, GetMysql, Labels, tornVars
<1>7. QED
  BY <1>1, <1>4, <1>5, <1>6 DEF Typed

LEMMA ReturnTyped ==
  ASSUME Typed, NEW w \in Workers, Return(w)
  PROVE  Typed'
<1>1. Stored' /\ Len(msgs) \in Nat /\ Len(msgs) <= Len(msgs')
  BY StoredStays DEF Typed, Return
<1>2. Goto(w, "idle") /\ pc[w] = "return"
  BY DEF Return
<1>3. Shape(w)'
  <2>1. pc'[w] = "idle" /\ job'[w] = NoJob /\ ans'[w] = <<>>
    BY <1>2 DEF Return, Goto, Typed, Work
  <2>2. QED
    BY <2>1 DEF Shape, NoJob
<1>4. \A v \in Workers \ {w} : job'[v] = job[v] /\ ans'[v] = ans[v]
  BY DEF Return, Typed, Work
<1>5. Shapes'
  BY <1>1, <1>2, <1>3, <1>4, OtherShapes DEF Typed, Labels
<1>6. Pools'
  <2>1. Cardinality(Holding) \in Nat /\ Cardinality(Using) \in Nat
    BY FS_CardinalityType DEF Typed, Pools
  <2>2. /\ IsFiniteSet(Holding') /\ Cardinality(Holding') = Cardinality(Holding) - 1
        /\ IsFiniteSet(Using') /\ Cardinality(Using') = Cardinality(Using)
    BY <1>2, <2>1, Holders DEF Typed, Labels
  <2>3. QED
    BY <2>1, <2>2, ChatStoreAssumption
    DEF Typed, Pools, Return, PutRedis, ChatStoreAssumption
<1>7. Work'
  BY <1>2 DEF Typed, Work, Goto, Return, Labels, tornVars
<1>8. QED
  BY <1>1, <1>5, <1>6, <1>7 DEF Typed

LEMMA CheckTyped ==
  ASSUME Typed, NEW w \in Workers, Check(w)
  PROVE  Typed'
<1>1. Stored' /\ Len(msgs) <= Len(msgs')
  BY StoredStays DEF Typed, Check
<1>2. /\ pc[w] = "check" /\ job'[w] = job[w] /\ job[w] # NoJob
      /\ job[w].op \in {"insert", "update", "delete", "send"}
  BY DEF Check, Typed, Shapes, Shape
<1>3. CASE Goto(w, "write") /\ UNCHANGED mysql_free
  <2>1. Shape(w)'
    BY <1>2, <1>3 DEF Shape, Goto, Typed, Work
  <2>2. QED
    BY <1>1, <1>2, <1>3, <2>1, GoesOn
    DEF Check, Typed, Work, Labels, poolVars, tornVars
<1>4. CASE PutMysql(w, "return")
  <2>1. Shape(w)'
    BY <1>2, <1>4 DEF Shape, PutMysql, Goto, Typed, Work
  <2>2. QED
    BY <1>1, <1>2, <1>4, <2>1, GoesOnWithoutMysql DEF Check, Typed, Work, tornVars
<1>5. QED
  BY <1>3, <1>4 DEF Check

LEMMA WriteUserTyped ==
  ASSUME Typed, NEW w \in Workers, Write(w), job[w].op # "send"
  PROVE  Typed'
<1>1. /\ pc[w] = "write" /\ job'[w] = job[w] /\ job[w] # NoJob /\ job[w] \in Calls
      /\ job[w].op \in {"insert", "update", "delete"}
  BY DEF Write, Typed, Shapes, Shape, Work
<1>2. job[w].user \in Users /\ Password(job[w]) \in Passwords \union {Null}
  BY <1>1, Jobs DEF Password
<1>3. WriteUser(w)
  BY DEF Write
<1>4. /\ users' \in [Users -> Passwords \union {Null}]
      /\ wrong' \subseteq Workers /\ torn' \subseteq Users
      /\ UNCHANGED <<msgs, list_torn, ans>>
  BY <1>2, <1>3 DEF WriteUser, Typed, Stored, Work
<1>5. Stored' /\ Len(msgs) <= Len(msgs')
  BY <1>4 DEF Write, Typed, Stored, cacheVars
<1>6. PICK l \in {"hset", "return"} : PutMysql(w, l)
  BY <1>3 DEF WriteUser
<1>7. Shape(w)'
  BY <1>1, <1>6 DEF Shape, PutMysql, Goto, Typed, Work
<1>8. QED
  BY <1>1, <1>4, <1>5, <1>6, <1>7, GoesOnWithoutMysql DEF Write, Typed, Work

LEMMA One ==
  ASSUME NEW S, NEW x \in S
  PROVE  <<x>> \in Seq(S) /\ Len(<<x>>) = 1 /\ <<x>>[1] = x
OBVIOUS

LEMMA WriteMsgTyped ==
  ASSUME Typed, NEW w \in Workers, Write(w), job[w].op = "send"
  PROVE  Typed'
<1>1. /\ pc[w] = "write" /\ job'[w] = job[w] /\ job[w] # NoJob /\ job[w] \in Calls
      /\ job[w].content \in Contents
  BY Jobs DEF Write, Typed, Shapes, Shape, Work, NoJob
<1>2. PICK outcome \in {"done", "failed", "lost"}, date \in {LastDate, LastDate + 1} :
        /\ msgs' = IF outcome = "failed" THEN msgs
                   ELSE Append(msgs, [content |-> job[w].content, date |-> date])
        /\ ans' = [ans EXCEPT ![w] = IF outcome = "done" THEN <<Len(msgs')>> ELSE <<>>]
        /\ PutMysql(w, IF outcome = "done" THEN "lpush" ELSE "return")
        /\ UNCHANGED <<users, wrong, torn>> /\ list_torn' \in BOOLEAN
  <2>1. WriteMsg(w)
    BY DEF Write
  <2>2. QED
    BY <2>1 DEF WriteMsg
<1> DEFINE Row == [content : Contents, date : Nat]
           row == [content |-> job[w].content, date |-> date]
<1>3. /\ msgs \in Seq(Row) /\ Len(msgs) \in Nat
      /\ \A i \in 1..Len(msgs) : msgs[i] \in Row /\ msgs[i].date <= Len(msgs)
  <2>1. msgs \in Seq(Row) /\ Len(msgs) \in Nat
    BY DEF Typed, Stored
  <2>2. \A i \in 1..Len(msgs) : msgs[i] \in Row
    <3> HIDE DEF Row
    <3> QED
      BY <2>1, ElementOfSeq
  <2>3. QED
    BY <2>1, <2>2 DEF Typed, Stored
<1>4. LastDate \in Nat /\ LastDate <= Len(msgs)
  <2>1. CASE msgs = <<>>
    BY <2>1 DEF LastDate
  <2>2. CASE msgs # <<>>
    <3>1. Len(msgs) \in 1..Len(msgs)
      BY <1>3, <2>2, EmptySeq
    <3>2. QED
      BY <1>3, <2>2, <3>1 DEF LastDate
  <2>3. QED
    BY <2>1, <2>2
<1>5. row \in Row /\ row.date <= Len(msgs) + 1
  BY <1>1, <1>3, <1>4
<1>6. CASE outcome = "failed"
  <2>1. Stored' /\ Len(msgs) <= Len(msgs')
    BY <1>2, <1>3, <1>6 DEF Write, Typed, Stored, cacheVars
  <2>2. Shape(w)'
    BY <1>1, <1>2, <1>6 DEF Shape, PutMysql, Goto, Typed, Work
  <2>3. DOMAIN ans' = Workers /\ \A v \in Workers \ {w} : ans'[v] = ans[v]
    BY <1>2 DEF Typed, Work
  <2>4. QED
    BY <1>1, <1>2, <1>6, <2>1, <2>2, <2>3, GoesOnWithoutMysql DEF Write, Typed, Work
<1>7. CASE outcome # "failed"
  <2>1. msgs' = Append(msgs, row)
    BY <1>2, <1>7
  <2>2. /\ msgs' \in Seq(Row) /\ Len(msgs') = Len(msgs) + 1
        /\ \A i \in 1..Len(msgs) : msgs'[i] = msgs[i]
        /\ msgs'[Len(msgs) + 1] = row
    <3> HIDE DEF row, Row
    <3> QED
      BY <2>1, <1>3, <1>5, AppendProperties
  <2>3. \A i \in 1..Len(msgs') : msgs'[i].date <= Len(msgs')
    <3> SUFFICES ASSUME NEW i \in 1..Len(msgs')
                 PROVE  msgs'[i].date <= Len(msgs')
      OBVIOUS
    <3>1. CASE i \in 1..Len(msgs)
      <4>1. msgs'[i] = msgs[i] /\ msgs[i].date <= Len(msgs) /\ msgs[i].date \in Nat
        BY <1>3, <2>2, <3>1
      <4>2. QED
        BY <4>1, <1>3, <2>2
    <3>2. CASE i = Len(msgs) + 1
      BY <1>5, <2>2, <3>2
    <3>3. QED
      BY <1>3, <2>2, <3>1, <3>2
  <2>4. list' \in Seq(1..Len(msgs') \union {Null}) /\ list' = list
    <3>1. list' = list /\ list \in Seq(1..Len(msgs) \union {Null})
      BY DEF Write, cacheVars, Typed, Stored
    <3>2. 1..Len(msgs) \union {Null} \subseteq 1..Len(msgs') \union {Null}
      BY <1>3, <2>2
    <3>3. QED
      BY <3>1, <3>2, SeqMonotonic
  <2>5. Stored'
    BY <1>2, <2>2, <2>3, <2>4 DEF Write, cacheVars, Typed, Stored
  <2>6. DOMAIN ans' = Workers /\ \A v \in Workers \ {w} : ans'[v] = ans[v]
    BY <1>2 DEF Typed, Work
  <2>7. PICK l \in {"lpush", "return"} :
          PutMysql(w, l) /\ (l = "lpush" => ans'[w] = <<Len(msgs')>>)
    BY <1>2 DEF Typed, Work
  <2>8. Shape(w)'
    <3>1. l = "lpush" => ans'[w] \in Seq(1..Len(msgs'))
      <4>1. Len(msgs') \in 1..Len(msgs')
        BY <1>3, <2>2
      <4>2. QED
        BY <2>7, <4>1, One
    <3>2. pc'[w] = l
      BY <2>7 DEF PutMysql, Goto, Typed, Work
    <3>3. QED
      BY <1>1, <2>7, <3>1, <3>2 DEF Shape
  <2>9. /\ wrong' \subseteq Workers /\ torn' \subseteq Users /\ list_torn' \in BOOLEAN
        /\ UNCHANGED <<redis_free, job, len, aborted>> /\ Len(msgs) <= Len(msgs')
    BY <1>2, <1>3, <2>2 DEF Write, Typed, Work
  <2>10. QED
    BY <1>1, <2>5, <2>6, <2>7, <2>8, <2>9, GoesOnWithoutMysql
<1>8. QED
  BY <1>6, <1>7

LEMMA HsetTyped ==
  ASSUME Typed, NEW w \in Workers, Hset(w)
  PROVE  Typed'
<1>1. /\ pc[w] = "hset" /\ job'[w] = job[w] /\ job[w] # NoJob /\ job[w] \in Calls
      /\ job[w].op \in {"insert", "update", "delete"} /\ job[w].user \in Users
  BY Jobs DEF Hset, Typed, Shapes, Shape, Work
<1>2. Entry(job[w]) \in Passwords \union {Miss}
  BY <1>1, Jobs DEF Entry
<1>3. Stored' /\ Len(msgs) <= Len(msgs')
  <2>1. hash' \in [Users -> Passwords \union Words \union {Null, Miss}]
    BY <1>1, <1>2 DEF Hset, Typed, Stored
  <2>2. hash_ttl' => \E v \in Users : hash'[v] # Miss
    BY Zenon DEF Hset
  <2>3. UNCHANGED <<users, msgs, list, list_ttl>> /\ Len(msgs) \in Nat
    BY DEF Hset, dbVars, Typed, Stored
  <2>4. QED
    BY <2>1, <2>2, <2>3 DEF Typed, Stored
<1>4. Shape(w)'
  BY <1>1 DEF Hset, Shape, Goto, Typed, Work
<1>5. QED
  BY <1>1, <1>3, <1>4, GoesOn DEF Hset, Written, Typed, Work, Labels

LEMMA HgetTyped ==
  ASSUME Typed, NEW w \in Workers, Hget(w)
  PROVE  Typed'
<1>1. Stored' /\ Len(msgs) <= Len(msgs')
  BY StoredStays DEF Typed, Hget
<1>2. pc[w] = "hget" /\ job'[w] = job[w] /\ job[w] # NoJob
  BY DEF Hget, Typed, Shapes, Shape
<1>3. PICK l \in {"mysql", "return"} : Goto(w, l)
  BY DEF Hget
<1>4. Shape(w)'
  BY <1>2, <1>3 DEF Shape, Goto, Typed, Work
<1>5. QED
  BY <1>1, <1>2, <1>3, <1>4, GoesOn DEF Hget, Typed, Work, Labels, tornVars

LEMMA FillTyped ==
  ASSUME Typed, NEW w \in Workers, Fill(w)
  PROVE  Typed'
<1>1. /\ pc[w] = "fill" /\ job'[w] = job[w] /\ job[w] # NoJob /\ job[w] \in Calls
      /\ job[w].op = "select" /\ job[w].user \in Users
  BY Jobs DEF Fill, Typed, Shapes, Shape, Work
<1>5. Filled(job[w].user, ans[w][1]) \in Words \union {Null}
  <2>1. ans[w][1] \in Passwords \union {Null}
    BY <1>1 DEF Typed, Shapes, Shape
  <2>2. QED
    BY <1>1, <2>1, ChatStoreAssumption DEF Filled, ChatStoreAssumption
<1>2. Stored' /\ Len(msgs) <= Len(msgs')
  <2>1. hash' \in [Users -> Passwords \union Words \union {Null, Miss}]
    BY <1>1, <1>5 DEF Fill, Typed, Stored
  <2>2. hash_ttl' => \E v \in Users : hash'[v] # Miss
    BY Zenon DEF Fill
  <2>3. UNCHANGED <<users, msgs, list, list_ttl>> /\ Len(msgs) \in Nat
    BY DEF Fill, dbVars, Typed, Stored
  <2>4. QED
    BY <2>1, <2>2, <2>3 DEF Typed, Stored
<1>3. Shape(w)'
  BY <1>1 DEF Fill, Shape, Goto, Typed, Work
<1>4. QED
  BY <1>1, <1>2, <1>3, GoesOn DEF Fill, Written, Typed, Work, Labels

\* An exception leaves everything as it was.
LEMMA AbortTyped ==
  ASSUME Typed, UNCHANGED <<dbVars, cacheVars, poolVars, tornVars, pc, job, len, ans>>,
         aborted' \in {"entry", "end", "rpush", "redis"}
  PROVE  Typed'
<1>1. Stored'
  BY StoredStays DEF Typed
<1>2. Pools'
  BY DEF Typed, Pools, Holding, Using, poolVars
<1>3. Work'
  BY DEF Typed, Work, tornVars
<1>4. Shapes'
  BY DEF Typed, Shapes, Shape, dbVars
<1>5. QED
  BY <1>1, <1>2, <1>3, <1>4 DEF Typed

LEMMA RereadTyped ==
  ASSUME Typed, NEW w \in Workers, Reread(w)
  PROVE  Typed'
<1>1. CASE aborted' = "entry" /\ UNCHANGED pc
  BY <1>1, AbortTyped DEF Reread
<1>2. CASE Goto(w, "return") /\ UNCHANGED aborted
  <2>1. Stored' /\ Len(msgs) <= Len(msgs')
    BY StoredStays DEF Typed, Reread
  <2>2. pc[w] = "reread" /\ job'[w] = job[w] /\ job[w] # NoJob
    BY DEF Reread, Typed, Shapes, Shape
  <2>3. Shape(w)'
    BY <1>2, <2>2 DEF Shape, Goto, Typed, Work
  <2>4. QED
    BY <1>2, <2>1, <2>2, <2>3, GoesOn DEF Reread, Typed, Work, Labels, tornVars
<1>3. QED
  BY <1>1, <1>2 DEF Reread

LEMMA ExpireTyped ==
  ASSUME Typed, NEW w \in Workers, Expire(w)
  PROVE  Typed'
<1>1. /\ pc[w] = "expire" /\ job'[w] = job[w] /\ job[w] # NoJob
      /\ job[w].op \in {"select", "send", "recent"}
  BY DEF Expire, Typed, Shapes, Shape
<1>2. Stored' /\ Len(msgs) <= Len(msgs')
  <2>1. UNCHANGED <<users, msgs, hash, list>>
    BY DEF Expire, dbVars
  <2>2. hash_ttl' => \E u \in Users : hash[u] # Miss
    BY Zenon DEF Expire, Typed, Stored
  <2>3. list_ttl' => list # <<>>
    BY Zenon DEF Expire, Typed, Stored
  <2>4. Len(msgs) \in Nat
    BY DEF Typed, Stored
  <2>5. QED
    BY <2>1, <2>2, <2>3, <2>4 DEF Typed, Stored
<1>3. PICK l \in {"reread", "mark", "return"} :
        /\ Goto(w, l) /\ (l = "reread" <=> job[w].op = "select")
        /\ l = "mark" => job[w].op = "recent"
  BY DEF Expire
<1>4. Shape(w)'
  BY <1>1, <1>3 DEF Shape, Goto, Typed, Work
<1>5. QED
  BY <1>1, <1>2, <1>3, <1>4, GoesOn DEF Expire, Typed, Work, Labels, tornVars

LEMMA LpushTyped ==
  ASSUME Typed, NEW w \in Workers, Lpush(w)
  PROVE  Typed'
<1>1. /\ pc[w] = "lpush" /\ job'[w] = job[w] /\ job[w] # NoJob /\ job[w].op = "send"
      /\ ans[w] \in Seq(1..Len(msgs))
  BY DEF Lpush, Typed, Shapes, Shape
<1>2. UNCHANGED <<users, msgs, hash, hash_ttl, list_ttl>> /\ Len(msgs) \in Nat
  BY DEF Lpush, dbVars, Typed, Stored
<1>3. list' \in Seq(1..Len(msgs) \union {Null}) /\ (list # <<>> => list' # <<>>)
  <2> DEFINE S == 1..Len(msgs) \union {Null}
  <2>1. ans[w] \in Seq(S)
    BY <1>1, SeqMonotonic
  <2>2. list \in Seq(S) /\ list' = ans[w] \o list
    BY DEF Lpush, Typed, Stored
  <2>3. QED
    BY <2>1, <2>2, ConcatProperties, ConcatEqualIffEmpty
<1>4. Stored' /\ Len(msgs) <= Len(msgs')
  BY <1>2, <1>3 DEF Typed, Stored
<1>5. Shape(w)'
  BY <1>1 DEF Lpush, Shape, Goto, Typed, Work
<1>6. QED
  BY <1>1, <1>4, <1>5, GoesOn DEF Lpush, Typed, Work, Labels, tornVars

LEMMA LlenTyped ==
  ASSUME Typed, NEW w \in Workers, Llen(w)
  PROVE  Typed'
<1>1. Stored' /\ Len(msgs) <= Len(msgs')
  BY StoredStays DEF Typed, Llen
<1>2. /\ pc[w] = "llen" /\ job'[w] = job[w] /\ job[w] # NoJob /\ job[w].op = "recent"
  BY DEF Llen, Typed, Shapes, Shape
<1>3. PICK l \in {"mysql", "lindex"} : Goto(w, l)
  BY DEF Llen
<1>4. Shape(w)'
  BY <1>2, <1>3 DEF Shape, Goto, Typed, Work
<1>5. len' \in [Workers -> Nat]
  BY DEF Llen, Typed, Work, Stored
<1>6. wrong' \subseteq Workers /\ torn' \subseteq Users /\ list_torn' \in BOOLEAN
  BY DEF Llen, Typed, Work
<1>7. QED
  BY <1>1, <1>2, <1>3, <1>4, <1>5, <1>6, GoesOn DEF Llen, Typed, Work, Labels

LEMMA LindexTyped ==
  ASSUME Typed, NEW w \in Workers, Lindex(w)
  PROVE  Typed'
<1>1. CASE aborted' = "end" /\ UNCHANGED pc
  BY <1>1, AbortTyped DEF Lindex
<1>2. CASE UNCHANGED aborted /\ ~UNCHANGED pc
  <2>1. Stored' /\ Len(msgs) <= Len(msgs')
    BY StoredStays DEF Typed, Lindex
  <2>2. /\ pc[w] = "lindex" /\ job'[w] = job[w] /\ job[w] # NoJob
        /\ job[w].op = "recent"
    BY DEF Lindex, Typed, Shapes, Shape
  <2>3. PICK l \in {"all", "newest", "mysql", "return"} : Goto(w, l)
    BY <1>2 DEF Lindex
  <2>4. Shape(w)'
    BY <2>2, <2>3 DEF Shape, Goto, Typed, Work
  <2>5. QED
    BY <1>2, <2>1, <2>2, <2>3, <2>4, GoesOn DEF Lindex, Typed, Work, Labels, tornVars
<1>3. CASE UNCHANGED aborted /\ UNCHANGED pc
  <2>1. Stored' /\ Len(msgs) \in Nat
    BY StoredStays DEF Typed, Lindex
  <2>2. QED
    BY <1>3, <2>1 DEF Lindex, Typed, Pools, Holding, Using, poolVars, Work, Shapes, Shape,
                      tornVars, dbVars
<1>4. QED
  BY <1>1, <1>2, <1>3 DEF Lindex

LEMMA LrangeTyped ==
  ASSUME Typed, NEW w \in Workers, Lrange(w)
  PROVE  Typed'
<1>1. Stored' /\ Len(msgs) <= Len(msgs')
  BY StoredStays DEF Typed, Lrange
<1>2. /\ pc[w] \in {"all", "newest"} /\ job'[w] = job[w] /\ job[w] # NoJob
  BY DEF Lrange, Typed, Shapes, Shape
<1>3. Shape(w)'
  BY <1>2 DEF Lrange, Shape, Goto, Typed, Work
<1>4. DOMAIN ans' = Workers /\ \A v \in Workers \ {w} : ans'[v] = ans[v]
  BY DEF Lrange, Typed, Work
<1>5. QED
  BY <1>1, <1>2, <1>3, <1>4, GoesOn DEF Lrange, Typed, Work, Labels, tornVars

LEMMA RpushTyped ==
  ASSUME Typed, NEW w \in Workers, Rpush(w)
  PROVE  Typed'
<1>1. CASE aborted' = "rpush" /\ UNCHANGED <<list, pc>>
  BY <1>1, AbortTyped DEF Rpush, cacheVars
<1>2. CASE /\ FirstNew(len[w]) <= Len(ans[w])
           /\ list' = list \o SubSeq(ans[w], FirstNew(len[w]), Len(ans[w]))
           /\ Goto(w, "expire") /\ UNCHANGED aborted
  <2>1. /\ pc[w] = "rpush" /\ job'[w] = job[w] /\ job[w] # NoJob
        /\ job[w].op = "recent" /\ ans[w] \in Seq(1..Len(msgs))
    BY DEF Rpush, Typed, Shapes, Shape
  <2>2. UNCHANGED <<users, msgs, hash, hash_ttl, list_ttl>> /\ Len(msgs) \in Nat
    BY DEF Rpush, dbVars, Typed, Stored
  <2>3. list' \in Seq(1..Len(msgs) \union {Null}) /\ (list # <<>> => list' # <<>>)
    <3> DEFINE S == 1..Len(msgs) \union {Null}
               m == FirstNew(len[w])
               n == Len(ans[w])
               new == SubSeq(ans[w], m, n)
    <3>1. m \in Int /\ n \in Int /\ 1 <= m
      BY <2>1 DEF FirstNew, Typed, Work
    <3>2. ans[w] \in Seq(S)
      BY <2>1, SeqMonotonic
    <3> HIDE DEF S, m
    <3>3. \A i \in m..n : ans[w][i] \in S
      BY <3>1, <3>2, ElementOfSeq
    <3> HIDE DEF n
    <3>4. new \in Seq(S)
      BY <3>1, <3>3, SubSeqProperties
    <3>5. list \in Seq(S) /\ list' = list \o new
      BY <1>2 DEF Typed, Stored, S, m, n
    <3> HIDE DEF new
    <3>6. list' \in Seq(S) /\ (list # <<>> => list' # <<>>)
      BY <3>4, <3>5, ConcatProperties, ConcatEqualIffEmpty
    <3>7. QED
      BY <3>6 DEF S
  <2>4. Stored' /\ Len(msgs) <= Len(msgs')
    BY <2>2, <2>3 DEF Typed, Stored
  <2>5. Shape(w)'
    BY <1>2, <2>1 DEF Rpush, Shape, Goto, Typed, Work
  <2>6. QED
    BY <1>2, <2>1, <2>4, <2>5, GoesOn DEF Rpush, Typed, Work, Labels, tornVars
<1>3. FirstNew(len[w]) > Len(ans[w]) \/ FirstNew(len[w]) <= Len(ans[w])
  BY DEF FirstNew, Typed, Work, Shapes, Shape, Rpush
<1>4. QED
  BY <1>1, <1>2, <1>3 DEF Rpush

LEMMA MarkTyped ==
  ASSUME Typed, NEW w \in Workers, Mark(w)
  PROVE  Typed'
<1>1. pc[w] = "mark" /\ job'[w] = job[w] /\ job[w] # NoJob
  BY DEF Mark, Typed, Shapes, Shape
<1>2. UNCHANGED <<users, msgs, hash, hash_ttl, list_ttl>> /\ Len(msgs) \in Nat
  BY DEF Mark, dbVars, Typed, Stored
<1>3. list' \in Seq(1..Len(msgs) \union {Null}) /\ list' # <<>>
  <2>1. list \in Seq(1..Len(msgs) \union {Null}) /\ list' = Append(list, Null)
    BY DEF Mark, Typed, Stored
  <2>2. QED
    BY <2>1, AppendProperties
<1>4. Stored' /\ Len(msgs) <= Len(msgs')
  BY <1>2, <1>3 DEF Typed, Stored
<1>5. Shape(w)'
  BY <1>1 DEF Mark, Shape, Goto, Typed, Work
<1>6. QED
  BY <1>1, <1>4, <1>5, GoesOn DEF Mark, Typed, Work, Labels, tornVars

\* A set of numbers from 1 has a least one: Min is one of them.
LEMMA Least ==
  ASSUME NEW S \in SUBSET (Nat \ {0}), S # {}
  PROVE  Min(S) \in S /\ \A i \in S : Min(S) <= i
<1> DEFINE R == OpToRel(<, Nat)
<1>1. IsWellFoundedOn(R, Nat)
  BY NatLessThanWellFounded
<1>2. \E m \in S : \A i \in S : <<i, m>> \notin R
  <2> HIDE DEF R
  <2> QED
    BY <1>1, WFMin
<1>3. PICK m \in S : \A i \in S : ~(i < m)
  BY <1>2 DEF OpToRel
<1>4. \A i \in S : m <= i
  BY <1>3
<1>5. QED
  BY <1>4 DEF Min

\* Rows of an answer are rows of the table.
LEMMA ReadableType ==
  ASSUME Stored, NEW s \in ByDate(N)
  PROVE  Readable(s) \in Seq(1..Len(msgs))
<1> DEFINE k == Lesser(N, Len(msgs))
           cut == {i \in DOMAIN s : msgs[s[i]].content \in Long}
<1>1. DOMAIN msgs = 1..Len(msgs) /\ Len(msgs) \in Nat
  BY DEF Stored
<1>2. k \in Nat
  BY <1>1, ChatStoreAssumption DEF Lesser, ChatStoreAssumption
<1>3. s \in [1..k -> 1..Len(msgs)]
  BY <1>1 DEF ByDate
<1> HIDE DEF k
<1>4. s \in Seq(1..Len(msgs)) /\ Len(s) = k /\ DOMAIN s = 1..k
  BY <1>2, <1>3
<1>5. CASE cut # {}
  <2>1. cut \in SUBSET (Nat \ {0}) /\ cut \subseteq 1..k
    BY <1>2, <1>4
  <2> HIDE DEF cut
  <2>2. Min(cut) \in 1..k
    BY <2>1, <1>5, Least
  <2> DEFINE last == Min(cut) - 1
  <2>3. last \in Int /\ last <= k
    BY <2>2, <1>2
  <2> HIDE DEF last
  <2>4. \A i \in 1..last : s[i] \in 1..Len(msgs)
    BY <2>3, <1>3, <1>2
  <2>5. SubSeq(s, 1, last) \in Seq(1..Len(msgs))
    BY <2>3, <2>4, SubSeqProperties
  <2>6. QED
    BY <2>5, <1>5 DEF Readable, last, cut
<1>6. QED
  BY <1>4, <1>5 DEF Readable

LEMMA QueryUserTyped ==
  ASSUME Typed, NEW w \in Workers, Query(w), job[w].op = "select"
  PROVE  Typed'
<1>1. /\ pc[w] = "query" /\ job'[w] = job[w] /\ job[w] # NoJob /\ job[w] \in Calls
      /\ job[w].user \in Users
  BY Jobs DEF Query, Typed, Shapes, Shape, Work, NoJob
<1>2. PICK answer \in {users[job[w].user], Null} :
        /\ ans' = [ans EXCEPT ![w] = <<answer>>] /\ PutMysql(w, "fill")
        /\ wrong' = IF answer = users[job[w].user] THEN wrong ELSE wrong \union {w}
        /\ UNCHANGED <<torn, list_torn>>
  BY DEF Query, QueryUser
<1>3. answer \in Passwords \union {Null}
  BY <1>1, <1>2 DEF Typed, Stored
<1>4. Stored' /\ Len(msgs) <= Len(msgs')
  BY StoredStays DEF Typed, Query
<1>5. /\ DOMAIN ans' = Workers /\ ans'[w] = <<answer>>
      /\ \A v \in Workers \ {w} : ans'[v] = ans[v]
  BY <1>2 DEF Typed, Work
<1>6. Shape(w)'
  BY <1>1, <1>2, <1>3, <1>5 DEF Query, Shape, PutMysql, Goto, Typed, Work
<1>7. wrong' \subseteq Workers /\ torn' \subseteq Users /\ list_torn' \in BOOLEAN
  BY <1>1, <1>2 DEF Typed, Work
<1>8. QED
  BY <1>1, <1>2, <1>4, <1>5, <1>6, <1>7, GoesOnWithoutMysql DEF Query

LEMMA QueryMsgsTyped ==
  ASSUME Typed, NEW w \in Workers, Query(w), job[w].op # "select"
  PROVE  Typed'
<1>1. /\ pc[w] = "query" /\ job'[w] = job[w] /\ job[w] # NoJob
      /\ job[w].op = "recent"
  BY DEF Query, Typed, Shapes, Shape
<1>2. PICK order \in ByDate(N), failed \in BOOLEAN :
        /\ ans' = [ans EXCEPT ![w] = IF failed THEN <<>> ELSE Readable(order)]
        /\ \E l \in {"return", "rpush"} : PutMysql(w, l)
        /\ UNCHANGED <<wrong, torn>> /\ list_torn' \in BOOLEAN
  <2>1. QueryMsgs(w)
    BY <1>1 DEF Query
  <2>2. QED
    BY <2>1 DEF QueryMsgs
<1>3. (IF failed THEN <<>> ELSE Readable(order)) \in Seq(1..Len(msgs))
  BY ReadableType, EmptySeq DEF Typed
<1>4. Stored' /\ Len(msgs) <= Len(msgs') /\ msgs' = msgs
  BY StoredStays DEF Typed, Query, dbVars
<1>5. /\ DOMAIN ans' = Workers /\ ans'[w] \in Seq(1..Len(msgs'))
      /\ \A v \in Workers \ {w} : ans'[v] = ans[v]
  BY <1>2, <1>3, <1>4 DEF Typed, Work
<1>6. PICK l \in {"return", "rpush"} : PutMysql(w, l)
  BY <1>2
<1>7. Shape(w)'
  <2>1. pc'[w] = l
    BY <1>6 DEF PutMysql, Goto, Typed, Work
  <2>2. QED
    BY <1>1, <1>5, <2>1 DEF Shape
<1>8. wrong' \subseteq Workers /\ torn' \subseteq Users
  BY <1>2 DEF Typed, Work
<1>9. QED
  BY <1>1, <1>2, <1>4, <1>5, <1>6, <1>7, <1>8, GoesOnWithoutMysql DEF Query

LEMMA ExpiryTyped ==
  ASSUME Typed, HashExpires \/ ListExpires
  PROVE  Typed'
<1>1. UNCHANGED <<users, msgs, poolVars, job, pc, len, ans, aborted>>
  BY DEF HashExpires, ListExpires, dbVars
<1>2. Pools' /\ Shapes'
  BY <1>1 DEF Typed, Pools, Holding, Using, poolVars, Shapes, Shape
<1>3. CASE HashExpires
  <2>1. Stored'
    BY <1>1, <1>3 DEF HashExpires, Typed, Stored
  <2>2. Work'
    BY <1>1, <1>3 DEF HashExpires, Typed, Work
  <2>3. QED
    BY <1>2, <2>1, <2>2 DEF Typed
<1>4. CASE ListExpires
  <2>1. Stored'
    BY <1>1, <1>4 DEF ListExpires, Typed, Stored
  <2>2. Work'
    <3>1. list_torn' \in BOOLEAN
      BY <1>4 DEF ListExpires
    <3>2. QED
      BY <1>1, <1>4, <3>1 DEF ListExpires, Typed, Work
  <2>3. QED
    BY <1>2, <2>1, <2>2 DEF Typed
<1>5. QED
  BY <1>3, <1>4

LEMMA RestartTyped ==
  ASSUME Typed, Restart
  PROVE  Typed'
<1>1. Stored'
  BY StoredStays DEF Typed, Restart
<1>2. Holding' = {} /\ Using' = {}
  BY DEF Restart, Holding, Using
<1>3. Pools'
  BY <1>2, FS_EmptySet, ChatStoreAssumption DEF Restart, Pools, ChatStoreAssumption
<1>4. Work'
  <2>1. list_torn' \in BOOLEAN /\ torn' \subseteq Users /\ wrong' = {}
    BY DEF Restart, Typed, Work
  <2>2. QED
    BY <2>1 DEF Restart, Work, Labels
<1>5. Shapes'
  BY DEF Restart, Shapes, Shape, NoJob
<1>6. QED
  BY <1>1, <1>3, <1>4, <1>5 DEF Typed

LEMMA StutterTyped ==
  ASSUME Typed, UNCHANGED vars
  PROVE  Typed'
<1>1. Stored'
  BY StoredStays DEF Typed, vars
<1>2. Pools' /\ Shapes'
  BY DEF Typed, Pools, Holding, Using, Shapes, Shape, vars, poolVars, dbVars
<1>3. Work'
  BY DEF Typed, Work, vars, tornVars
<1>4. QED
  BY <1>1, <1>2, <1>3 DEF Typed

LEMMA TypedStep == Typed /\ [Next]_vars => Typed'
<1> SUFFICES ASSUME Typed, [Next]_vars PROVE Typed'
  OBVIOUS
<1>1. ASSUME NEW w \in Workers, Serve(w)
      PROVE  Typed'
  <2>1. CASE GetRedis(w) \/ GetMysql(w) \/ Return(w) \/ Check(w) \/ Write(w)
    BY <2>1, GetRedisTyped, GetMysqlTyped, ReturnTyped, CheckTyped, WriteUserTyped,
       WriteMsgTyped
  <2>2. CASE Hset(w) \/ Hget(w) \/ Query(w) \/ Fill(w) \/ Expire(w) \/ Reread(w)
    BY <2>2, HsetTyped, HgetTyped, QueryUserTyped, QueryMsgsTyped, FillTyped,
       ExpireTyped, RereadTyped
  <2>3. CASE Lpush(w) \/ Llen(w) \/ Lindex(w) \/ Lrange(w) \/ Rpush(w) \/ Mark(w)
    BY <2>3, LpushTyped, LlenTyped, LindexTyped, LrangeTyped, RpushTyped, MarkTyped
  <2>4. CASE RedisFails(w)
    BY <2>4, AbortTyped DEF RedisFails
  <2>5. QED
    BY <1>1, <2>1, <2>2, <2>3, <2>4 DEF Serve
<1>2. ASSUME NEW w \in Workers, NEW c \in Calls, Call(w, c)
      PROVE  Typed'
  BY <1>2, CallTyped
<1>3. CASE UNCHANGED vars
  BY <1>3, StutterTyped
<1>4. QED
  BY <1>1, <1>2, <1>3, ExpiryTyped, RestartTyped DEF Next, Finished

\* The connections of both pools are accounted for, every call is at a point of
\* its own operation, and the tables hold what they should (TypeOK): for every size
\* of the pools and every number of threads, whichever statement or command fails and
\* whenever the process ends.
THEOREM Typing == Spec => []TypeOK
<1>1. Spec => []Typed
  BY InitTyped, TypedStep, PTL DEF Spec
<1>2. QED
  BY <1>1, TypedGivesTypeOK, PTL

\* Each of the workers that wait for a Mysql connection holds one of Redis, and
\* those that have a Mysql connection wait for nothing: some worker can always go
\* on (RedisPool::Get and MysqlPool::Get, nested by WithConnection).
THEOREM NeverStuck == Spec => []NoneStuck
<1>1. Typed => NoneStuck
  <2> SUFFICES ASSUME Typed, NEW w \in Workers, pc[w] # "idle"
               PROVE  \E v \in Workers : \/ pc[v] \notin {"idle", "redis", "mysql"}
                                         \/ pc[v] = "redis" /\ redis_free > 0
                                         \/ pc[v] = "mysql" /\ mysql_free > 0
    BY DEF NoneStuck
  <2>1. Using # {} \/ mysql_free > 0
    BY FS_EmptySet, ChatStoreAssumption DEF Typed, Pools, ChatStoreAssumption
  <2>2. Holding # {} \/ redis_free > 0
    BY FS_EmptySet, ChatStoreAssumption DEF Typed, Pools, ChatStoreAssumption
  <2>3. ASSUME NEW v \in Workers, pc[v] \notin {"idle", "redis"}
        PROVE  \E x \in Workers : \/ pc[x] \notin {"idle", "redis", "mysql"}
                                  \/ pc[x] = "mysql" /\ mysql_free > 0
    BY <2>1, <2>3 DEF Using
  <2>4. QED
    BY <2>2, <2>3 DEF Holding
<1>2. Spec => []Typed
  BY InitTyped, TypedStep, PTL DEF Spec
<1>3. QED
  BY <1>1, <1>2, PTL
-----------------------------------------------------------------------------
(* Accounts *)

\* A step of w that is no part of writing an entry.
LEMMA AccountsFrame ==
  ASSUME Typed, InStep, AccountsAgree, NEW w \in Workers, NEW l \in Labels, Goto(w, l),
         UNCHANGED <<users, hash, wrong, torn>>,
         \A v \in Workers \ {w} : job'[v] = job[v] /\ ans'[v] = ans[v],
         pc[w] \notin {"hset", "fill"}, l \notin {"hset", "fill"}
  PROVE  InStep' /\ AccountsAgree'
<1>1. pc'[w] = l /\ \A v \in Workers \ {w} : pc'[v] = pc[v]
  BY DEF Goto, Typed, Work
<1>2. InStep'
  <2> SUFFICES ASSUME NEW v \in Workers \ wrong, NEW u \in Users
               PROVE  (/\ Pending(v, u) /\ pc[v] = "fill" => ans[v][1] = users[u]
                       /\ Pending(v, u) /\ pc[v] = "hset" => users[u] = Password(job[v]))'
    BY DEF InStep
  <2>1. CASE v = w
    BY <1>1, <2>1 DEF Pending
  <2>2. CASE v # w
    BY <1>1, <2>2 DEF InStep, Pending, About, Password
  <2>3. QED
    BY <2>1, <2>2
<1>3. AccountsAgree'
  <2> SUFFICES ASSUME NEW u \in Users \ torn,
                      hash[u] \notin {Miss, users[u], Filled(u, users[u])}
               PROVE  \E v \in Workers : Pending(v, u)'
    BY DEF AccountsAgree, Filled
  <2>1. PICK v \in Workers : Pending(v, u)
    BY DEF AccountsAgree
  <2>2. v # w
    BY <2>1 DEF Pending
  <2>3. QED
    BY <1>1, <2>1, <2>2 DEF Pending, About
<1>4. QED
  BY <1>2, <1>3

\* A step that changes nothing an account is about.
LEMMA AccountsSame ==
  ASSUME InStep, AccountsAgree, UNCHANGED <<users, hash, wrong, torn, job, pc, ans>>
  PROVE  InStep' /\ AccountsAgree'
BY DEF InStep, AccountsAgree, Pending, About, Password, Filled

\* A commit makes the answers wrong that others have about u.
LEMMA WriteUserAccounts ==
  ASSUME Typed, InStep, AccountsAgree, NEW w \in Workers, Write(w), job[w].op # "send"
  PROVE  InStep' /\ AccountsAgree'
<1> DEFINE c == job[w]
           u == c.user
           kept == KeyTaken(c) \/ NoRow(c)
<1>1. /\ pc[w] = "write" /\ u \in Users /\ c.op \in {"insert", "update", "delete"}
  BY Jobs DEF Write, Typed, Shapes, Shape, Work, NoJob
<1>2. UNCHANGED <<hash, job, ans>>
  BY DEF Write, WriteUser, cacheVars
<1>3. PICK outcome \in {"done", "failed", "lost"} :
        /\ users' = IF kept \/ outcome = "failed" THEN users
                    ELSE [users EXCEPT ![u] = Password(c)]
        /\ wrong' = wrong
             \union {v \in Workers \ {w} : users'[u] # users[u] /\ Pending(v, u)}
             \union {v \in {w} : outcome = "done" /\ NoRow(c)}
        /\ torn' = IF outcome = "lost" /\ users'[u] # users[u]
                   THEN torn \union {u} ELSE torn
        /\ Goto(w, IF outcome = "done" /\ ~KeyTaken(c) THEN "hset" ELSE "return")
  BY DEF Write, WriteUser, PutMysql
<1>4. /\ torn \subseteq torn' /\ wrong \subseteq wrong'
      /\ \A x \in Users : x # u => users'[x] = users[x]
  BY <1>1, <1>3 DEF Typed, Stored
<1> DEFINE l == IF outcome = "done" /\ ~KeyTaken(c) THEN "hset" ELSE "return"
<1>5. pc'[w] = l /\ \A v \in Workers \ {w} : pc'[v] = pc[v]
  BY <1>3 DEF Goto, Typed, Work
<1>6. \A v \in Workers \ {w}, x \in Users : Pending(v, x)' <=> Pending(v, x)
  BY <1>2, <1>5 DEF Pending, About
<1>7. \A v \in Workers \ {w} : v \notin wrong' /\ Pending(v, u) => users'[u] = users[u]
  BY <1>3
<1>8. l = "hset" /\ w \notin wrong' => users'[u] = Password(c)
  BY <1>1, <1>3 DEF Typed, Stored
<1>9. l # "hset" /\ u \notin torn' => users'[u] = users[u]
  BY <1>3
<1> HIDE DEF kept, l
<1>10. InStep'
  <2> SUFFICES ASSUME NEW v \in Workers \ wrong', NEW x \in Users
               PROVE  (/\ Pending(v, x) /\ pc[v] = "fill" => ans[v][1] = users[x]
                       /\ Pending(v, x) /\ pc[v] = "hset" => users[x] = Password(job[v]))'
    BY DEF InStep
  <2>1. CASE v = w
    <3>1. l \in {"hset", "return"}
      BY DEF l
    <3>2. Pending(v, x)' => x = u /\ l = "hset"
      BY <1>2, <1>5, <2>1, <3>1 DEF Pending, About
    <3>3. QED
      BY <1>2, <1>5, <1>8, <2>1, <3>2 DEF Password
  <2>2. CASE v # w
    <3>1. /\ Pending(v, x) /\ pc[v] = "fill" => ans[v][1] = users[x]
          /\ Pending(v, x) /\ pc[v] = "hset" => users[x] = Password(job[v])
      BY <1>4 DEF InStep
    <3>2. Pending(v, x) => users'[x] = users[x]
      BY <1>4, <1>7, <2>2
    <3>3. QED
      BY <1>2, <1>5, <1>6, <2>2, <3>1, <3>2 DEF Password
  <2>3. QED
    BY <2>1, <2>2
<1>11. AccountsAgree'
  <2> SUFFICES ASSUME NEW x \in Users \ torn',
                      hash[x] \notin {Miss, users'[x], Filled(x, users'[x])}
               PROVE  \E v \in Workers : Pending(v, x)'
    BY <1>2 DEF AccountsAgree, Filled
  <2>1. CASE x = u /\ l = "hset"
    BY <1>1, <1>2, <1>5, <2>1 DEF Pending, About
  <2>2. CASE x # u \/ l # "hset"
    <3>1. hash[x] \notin {Miss, users[x], Filled(x, users[x])}
      BY <1>4, <1>9, <2>2
    <3>2. PICK v \in Workers : Pending(v, x)
      BY <1>4, <3>1 DEF AccountsAgree
    <3>3. v # w
      BY <1>1, <3>2 DEF Pending
    <3>4. QED
      BY <1>6, <3>2, <3>3
  <2>3. QED
    BY <2>1, <2>2
<1>12. QED
  BY <1>10, <1>11

\* One that writes the entry of u: with a right answer the entry is right.
LEMMA EntryAccounts ==
  ASSUME Typed, InStep, AccountsAgree, NEW w \in Workers, NEW u \in Users, About(w, u),
         pc[w] \in {"hset", "fill"}, NEW l \in {"return", "expire"}, Goto(w, l),
         NEW e, hash' = [hash EXCEPT ![u] = e], Written(w, u),
         w \notin wrong => e \in {Miss, users[u], Filled(u, users[u])},
         UNCHANGED <<users, job, ans>>
  PROVE  InStep' /\ AccountsAgree'
<1>1. pc'[w] = l /\ \A v \in Workers \ {w} : pc'[v] = pc[v]
  BY DEF Goto, Typed, Work
<1>2. hash'[u] = e /\ \A x \in Users : x # u => hash'[x] = hash[x]
  BY DEF Typed, Stored
<1>3. \A v \in Workers, x \in Users :
        /\ v # w => (Pending(v, x)' <=> Pending(v, x))
        /\ Pending(w, x) => x = u
        /\ ~Pending(w, x)'
  BY <1>1 DEF Pending, About
<1>4. AccountsAgree'
  <2> SUFFICES ASSUME NEW x \in Users \ torn',
                      hash'[x] \notin {Miss, users[x], Filled(x, users[x])}
               PROVE  \E v \in Workers : Pending(v, x)'
    BY DEF AccountsAgree, Filled
  <2>1. x # u
    BY <1>2 DEF Written
  <2>2. x \notin torn
    BY <2>1 DEF Written
  <2>3. QED
    BY <1>2, <1>3, <2>1, <2>2 DEF AccountsAgree
<1>5. InStep'
  <2> SUFFICES ASSUME NEW v \in Workers \ wrong', NEW x \in Users
               PROVE  (/\ Pending(v, x) /\ pc[v] = "fill" => ans[v][1] = users[x]
                       /\ Pending(v, x) /\ pc[v] = "hset" => users[x] = Password(job[v]))'
    BY DEF InStep
  <2>1. CASE v = w
    BY <1>3, <2>1
  <2>2. CASE v # w
    <3>1. v \notin wrong
      BY <2>2 DEF Written
    <3>2. QED
      BY <1>1, <1>3, <2>2, <3>1 DEF InStep, Password
  <2>3. QED
    BY <2>1, <2>2
<1>6. QED
  BY <1>4, <1>5

LEMMA HsetAccounts ==
  ASSUME Typed, InStep, AccountsAgree, NEW w \in Workers, Hset(w)
  PROVE  InStep' /\ AccountsAgree'
<1> DEFINE c == job[w]
           u == c.user
<1>1. /\ pc[w] = "hset" /\ u \in Users /\ About(w, u)
      /\ c.op \in {"insert", "update", "delete"}
  BY Jobs DEF Hset, Typed, Shapes, Shape, Work, NoJob, About
<1>2. w \notin wrong => Entry(c) \in {Miss, users[u]}
  BY <1>1 DEF InStep, Pending, Entry, Password
<1>3. /\ UNCHANGED <<users, job, ans>> /\ Goto(w, "return") /\ Written(w, u)
      /\ hash' = [hash EXCEPT ![u] = Entry(c)]
  BY DEF Hset, dbVars
<1>4. QED
  BY <1>1, <1>2, <1>3, EntryAccounts

LEMMA FillAccounts ==
  ASSUME Typed, InStep, AccountsAgree, NEW w \in Workers, Fill(w)
  PROVE  InStep' /\ AccountsAgree'
<1> DEFINE u == job[w].user
           e == Filled(u, ans[w][1])
<1>1. pc[w] = "fill" /\ u \in Users /\ About(w, u)
  BY Jobs DEF Fill, Typed, Shapes, Shape, Work, NoJob, About
<1>2. w \notin wrong => e = Filled(u, users[u])
  BY <1>1 DEF InStep, Pending
<1>3. /\ UNCHANGED <<users, job, ans>> /\ Goto(w, "expire") /\ Written(w, u)
      /\ hash' = [hash EXCEPT ![u] = e]
  BY DEF Fill, dbVars
<1> HIDE DEF e
<1>4. QED
  BY <1>1, <1>2, <1>3, EntryAccounts

LEMMA QueryUserAccounts ==
  ASSUME Typed, InStep, AccountsAgree, NEW w \in Workers, Query(w), job[w].op = "select"
  PROVE  InStep' /\ AccountsAgree'
<1> DEFINE u == job[w].user
<1>1. /\ pc[w] = "query" /\ u \in Users
  BY Jobs DEF Query, Typed, Shapes, Shape, Work, NoJob
<1>2. PICK answer \in {users[u], Null} :
        /\ ans' = [ans EXCEPT ![w] = <<answer>>]
        /\ wrong' = IF answer = users[u] THEN wrong ELSE wrong \union {w}
        /\ Goto(w, "fill") /\ UNCHANGED torn
  BY DEF Query, QueryUser, PutMysql
<1>3. UNCHANGED <<users, hash, job, torn>> /\ wrong \subseteq wrong'
  BY <1>2 DEF Query, dbVars, cacheVars
<1>4. /\ pc'[w] = "fill" /\ \A v \in Workers \ {w} : pc'[v] = pc[v]
      /\ ans'[w][1] = answer /\ \A v \in Workers \ {w} : ans'[v] = ans[v]
  BY <1>2 DEF Goto, Typed, Work
<1>5. w \notin wrong' => answer = users[u]
  BY <1>2
<1>6. AccountsAgree'
  <2> SUFFICES ASSUME NEW x \in Users \ torn,
                      hash[x] \notin {Miss, users[x], Filled(x, users[x])}
               PROVE  \E v \in Workers : Pending(v, x)'
    BY <1>3 DEF AccountsAgree, Filled
  <2>1. PICK v \in Workers : Pending(v, x)
    BY DEF AccountsAgree
  <2>2. v # w
    BY <1>1, <2>1 DEF Pending
  <2>3. QED
    BY <1>3, <1>4, <2>1, <2>2 DEF Pending, About
<1>7. InStep'
  <2> SUFFICES ASSUME NEW v \in Workers \ wrong', NEW x \in Users
               PROVE  (/\ Pending(v, x) /\ pc[v] = "fill" => ans[v][1] = users[x]
                       /\ Pending(v, x) /\ pc[v] = "hset" => users[x] = Password(job[v]))'
    BY DEF InStep
  <2>1. CASE v = w
    BY <1>3, <1>4, <1>5, <2>1 DEF Pending, About
  <2>2. CASE v # w
    BY <1>3, <1>4, <2>2 DEF InStep, Pending, About, Password
  <2>3. QED
    BY <2>1, <2>2
<1>8. QED
  BY <1>6, <1>7

LEMMA HashExpiresAccounts ==
  ASSUME InStep, HashExpires
  PROVE  InStep' /\ AccountsAgree'
<1>1. UNCHANGED <<users, wrong, job, pc, ans>> /\ hash' = [u \in Users |-> Miss]
  BY DEF HashExpires, dbVars
<1>2. AccountsAgree'
  BY <1>1 DEF AccountsAgree
<1>3. InStep'
  BY <1>1 DEF InStep, Pending, About, Password
<1>4. QED
  BY <1>2, <1>3

LEMMA RestartAccounts ==
  ASSUME AccountsAgree, Restart
  PROVE  InStep' /\ AccountsAgree'
<1>1. /\ UNCHANGED <<users, hash>> /\ torn \subseteq torn'
      /\ \A u \in Users \ torn', w \in Workers : ~Pending(w, u)
      /\ \A w \in Workers : pc'[w] = "idle"
  BY DEF Restart, dbVars, cacheVars
<1>2. AccountsAgree'
  BY <1>1 DEF AccountsAgree, Filled
<1>3. InStep'
  BY <1>1 DEF InStep, Pending
<1>4. QED
  BY <1>2, <1>3

\* The steps that AccountsFrame is about.
LEMMA OtherAccounts ==
  ASSUME Typed, InStep, AccountsAgree, NEW w \in Workers,
         \/ GetRedis(w) \/ GetMysql(w) \/ Return(w) \/ Check(w)
         \/ Write(w) /\ job[w].op = "send"
         \/ Query(w) /\ job[w].op # "select"
         \/ Hget(w) \/ Expire(w) \/ Reread(w) \/ Lpush(w) \/ Llen(w) \/ Lindex(w)
         \/ Lrange(w) \/ Rpush(w) \/ Mark(w) \/ RedisFails(w)
  PROVE  InStep' /\ AccountsAgree'
<1>1. CASE GetRedis(w) \/ GetMysql(w) \/ Check(w) \/ Hget(w) \/ Expire(w)
  <2>1. PICK l \in Labels \ {"hset", "fill"} : Goto(w, l)
    <3>1. CASE GetRedis(w)
      <4>1. \E l \in {"hget", "llen", "mysql"} : Goto(w, l)
        BY <3>1 DEF GetRedis
      <4>2. QED
        BY <4>1 DEF Labels
    <3>2. CASE GetMysql(w)
      <4>1. \E l \in {"query", "check"} : Goto(w, l)
        BY <3>2 DEF GetMysql
      <4>2. QED
        BY <4>1 DEF Labels
    <3>3. CASE Check(w)
      <4>1. \E l \in {"write", "return"} : Goto(w, l)
        BY <3>3 DEF Check, PutMysql
      <4>2. QED
        BY <4>1 DEF Labels
    <3>4. CASE Hget(w)
      <4>1. \E l \in {"mysql", "return"} : Goto(w, l)
        BY <3>4 DEF Hget
      <4>2. QED
        BY <4>1 DEF Labels
    <3>5. CASE Expire(w)
      <4>1. \E l \in {"reread", "mark", "return"} : Goto(w, l)
        BY <3>5 DEF Expire
      <4>2. QED
        BY <4>1 DEF Labels
    <3>6. QED
      BY <1>1, <3>1, <3>2, <3>3, <3>4, <3>5
  <2>2. /\ UNCHANGED <<users, hash, wrong, torn, job, ans>>
        /\ pc[w] \notin {"hset", "fill"}
    BY <1>1 DEF GetRedis, GetMysql, Check, Hget, Expire, dbVars, cacheVars, tornVars
  <2>3. QED
    BY <2>1, <2>2, AccountsFrame
<1>2. CASE Return(w) \/ Lrange(w)
  <2>1. PICK l \in {"idle", "return"} : Goto(w, l)
    BY <1>2 DEF Return, Lrange
  <2>2. /\ UNCHANGED <<users, hash, wrong, torn>> /\ pc[w] \notin {"hset", "fill"}
        /\ \A v \in Workers \ {w} : job'[v] = job[v] /\ ans'[v] = ans[v]
    BY <1>2 DEF Return, Lrange, dbVars, cacheVars, tornVars, Typed, Work
  <2>3. QED
    BY <2>1, <2>2, AccountsFrame DEF Labels
<1>3. CASE Write(w) /\ job[w].op = "send"
  <2>1. WriteMsg(w)
    BY <1>3 DEF Write
  <2>2. PICK l \in {"lpush", "return"} : Goto(w, l)
    BY <2>1 DEF WriteMsg, PutMysql
  <2>3. /\ UNCHANGED <<users, hash, wrong, torn, job>> /\ pc[w] = "write"
        /\ \A v \in Workers \ {w} : ans'[v] = ans[v]
    BY <1>3, <2>1 DEF Write, WriteMsg, cacheVars, Typed, Work
  <2>4. QED
    BY <2>2, <2>3, AccountsFrame DEF Labels
<1>4. CASE Query(w) /\ job[w].op # "select"
  <2>1. QueryMsgs(w)
    BY <1>4 DEF Query
  <2>2. PICK l \in {"rpush", "return"} : Goto(w, l)
    BY <2>1 DEF QueryMsgs, PutMysql
  <2>3. /\ UNCHANGED <<users, hash, wrong, torn, job>> /\ pc[w] = "query"
        /\ \A v \in Workers \ {w} : ans'[v] = ans[v]
    BY <1>4, <2>1 DEF Query, QueryMsgs, dbVars, cacheVars, Typed, Work
  <2>4. QED
    BY <2>2, <2>3, AccountsFrame DEF Labels
<1>5. CASE Lpush(w) \/ Llen(w) \/ Mark(w)
  <2>1. PICK l \in {"expire", "mysql", "lindex", "return"} : Goto(w, l)
    BY <1>5 DEF Lpush, Llen, Mark
  <2>2. /\ UNCHANGED <<users, hash, wrong, torn, job, ans>>
        /\ pc[w] \notin {"hset", "fill"}
    BY <1>5 DEF Lpush, Llen, Mark, dbVars, cacheVars, tornVars
  <2>3. QED
    BY <2>1, <2>2, AccountsFrame DEF Labels
<1>6. CASE Reread(w) \/ Lindex(w) \/ Rpush(w)
  <2>1. /\ UNCHANGED <<users, hash, wrong, torn, job, ans>>
        /\ pc[w] \notin {"hset", "fill"}
    BY <1>6 DEF Reread, Lindex, Rpush, dbVars, cacheVars, tornVars
  <2>2. CASE UNCHANGED pc
    BY <2>1, <2>2, AccountsSame
  <2>3. CASE ~UNCHANGED pc
    <3>1. PICK l \in {"expire", "mysql", "all", "newest", "return"} : Goto(w, l)
      BY <1>6, <2>3 DEF Reread, Lindex, Rpush
    <3>2. QED
      BY <2>1, <3>1, AccountsFrame DEF Labels
  <2>4. QED
    BY <2>2, <2>3
<1>7. CASE RedisFails(w)
  BY <1>7, AccountsSame DEF RedisFails, dbVars, cacheVars, tornVars
<1>8. QED
  BY <1>1, <1>2, <1>3, <1>4, <1>5, <1>6, <1>7

LEMMA AccountsStep ==
  Typed /\ InStep /\ AccountsAgree /\ [Next]_vars => InStep' /\ AccountsAgree'
<1> SUFFICES ASSUME Typed, InStep, AccountsAgree, [Next]_vars
             PROVE  InStep' /\ AccountsAgree'
  OBVIOUS
<1>1. ASSUME NEW w \in Workers, Serve(w)
      PROVE  InStep' /\ AccountsAgree'
  <2>1. CASE Write(w)
    BY <2>1, WriteUserAccounts, OtherAccounts
  <2>2. CASE Query(w)
    BY <2>2, QueryUserAccounts, OtherAccounts
  <2>3. CASE Hset(w) \/ Fill(w)
    BY <2>3, HsetAccounts, FillAccounts
  <2>4. CASE ~(Write(w) \/ Query(w) \/ Hset(w) \/ Fill(w))
    BY <1>1, <2>4, OtherAccounts DEF Serve
  <2>5. QED
    BY <2>1, <2>2, <2>3, <2>4
<1>2. ASSUME NEW w \in Workers, NEW c \in Calls, Call(w, c)
      PROVE  InStep' /\ AccountsAgree'
  <2>1. /\ UNCHANGED <<users, hash, wrong, torn, ans>>
        /\ pc[w] = "idle" /\ Goto(w, "redis")
        /\ \A v \in Workers \ {w} : job'[v] = job[v]
    BY <1>2 DEF Call, dbVars, cacheVars, tornVars, Typed, Work
  <2>2. QED
    BY <2>1, AccountsFrame DEF Labels
<1>3. CASE ListExpires \/ UNCHANGED vars
  <2>1. UNCHANGED <<users, hash, wrong, torn, job, pc, ans>>
    BY <1>3 DEF ListExpires, vars, dbVars, cacheVars, tornVars
  <2>2. QED
    BY <2>1, AccountsSame
<1>4. QED
  BY <1>1, <1>2, <1>3, HashExpiresAccounts, RestartAccounts DEF Next, Finished

\* What the cache says of an account is what the database says, or the word of it that
\* SsGet finds, whatever the calls, the faults and the expiry do, but while a call still
\* has to write it and until the next right write after a call has written an answer
\* that another's commit had overtaken or that a MySQL fault had spoilt, or has not
\* written after a commit (Redis.cpp: Insert, Update, Delete and CacheFromMysql).
THEOREM CacheAgreement == Spec => []AccountsAgree
<1>1. Init => InStep /\ AccountsAgree
  BY DEF Init, InStep, AccountsAgree, Pending, About, NoJob
<1>2. QED
  BY <1>1, InitTyped, TypedStep, AccountsStep, PTL DEF Spec
-----------------------------------------------------------------------------
(* The list of the conversation *)

LEMMA NewestSeq ==
  ASSUME NEW n \in Nat
  PROVE  /\ Len(Newest(n)) = n /\ DOMAIN Newest(n) = 1..n
         /\ \A i \in 1..n : Newest(n)[i] = Len(msgs) + 1 - i
BY DEF Newest

LEMMA NewestType ==
  ASSUME Stored, NEW n \in 0..Len(msgs)
  PROVE  Newest(n) \in Seq(1..Len(msgs))
<1>1. Len(msgs) \in Nat
  BY DEF Stored
<1>2. \A i \in 1..n : Len(msgs) + 1 - i \in 1..Len(msgs)
  BY <1>1
<1>3. QED
  BY <1>1, <1>2 DEF Newest

LEMMA WantedType ==
  ASSUME Stored
  PROVE  /\ Len(msgs) \in Nat /\ Len(list) \in Nat
         /\ Lesser(N, Len(msgs)) \in 0..Len(msgs) /\ Lesser(N, Len(msgs)) <= N
         /\ Lesser(N, Len(msgs)) < N => Lesser(N, Len(msgs)) = Len(msgs)
<1>1. Len(msgs) \in Nat /\ Len(list) \in Nat /\ N \in Nat
  BY ChatStoreAssumption DEF Stored, ChatStoreAssumption
<1>2. QED
  BY <1>1 DEF Lesser

\* A list with no "NULL" is the newest messages.
LEMMA RowsAreNewest ==
  ASSUME Stored, Rows(Len(msgs)), NEW n \in Nat, n <= Len(list), n <= Len(msgs)
  PROVE  SubSeq(list, 1, n) = Newest(n)
<1>1. Len(msgs) \in Nat /\ Len(list) \in Nat
  BY WantedType
<1>2. \A i \in 1..n : list[i] = Len(msgs) + 1 - i
  BY <1>1 DEF Rows
<1>3. \A i \in 1..n : list[i] \in Nat
  BY <1>1, <1>2
<1>4. /\ SubSeq(list, 1, n) \in Seq(Nat) /\ Len(SubSeq(list, 1, n)) = n
      /\ \A i \in 1..n : SubSeq(list, 1, n)[i] = list[i]
  BY <1>3, SubSeqProperties
<1>5. Newest(n) \in Seq(Nat)
  BY <1>1, NewestType, SeqMonotonic
<1>6. QED
  BY <1>2, <1>4, <1>5, NewestSeq, SeqEqual

\* A step of w that leaves the list and the messages as they are.
LEMMA ListFrame ==
  ASSUME Typed, ListKept, NEW w \in Workers, NEW l \in Labels, Goto(w, l),
         UNCHANGED <<msgs, list>>, list_torn => list_torn',
         \A v \in Workers \ {w} : /\ job'[v] = job[v] /\ ans'[v] = ans[v]
                                 /\ len'[v] = len[v],
         pc[w] # "lpush", l # "lpush",
         ~list_torn' => (AtList(w)' => AtList(w)) /\ Knows(w)'
  PROVE  ListKept'
<1> SUFFICES ASSUME ~list_torn' PROVE Listed' /\ OneAtList' /\ \A v \in Workers : Knows(v)'
  BY DEF ListKept
<1>1. /\ Listed /\ OneAtList /\ \A v \in Workers : Knows(v)
      /\ (AtList(w)' => AtList(w)) /\ Knows(w)'
  BY DEF ListKept
<1>2. pc'[w] = l /\ \A v \in Workers \ {w} : pc'[v] = pc[v]
  BY DEF Goto, Typed, Work
<1>3. Unsent' <=> Unsent
  BY <1>2 DEF Unsent
<1>4. Listed'
  BY <1>1, <1>3 DEF Listed, Rows
<1>5. \A v \in Workers \ {w} : AtList(v)' <=> AtList(v)
  BY <1>2 DEF AtList
<1>6. OneAtList'
  BY <1>1, <1>5 DEF OneAtList
<1>7. ASSUME NEW v \in Workers, v # w
      PROVE  Knows(v)'
  <2>1. Knows(v)
    BY <1>1
  <2>2. QED
    BY <1>2, <1>7, <2>1 DEF Knows, Newest
<1>8. QED
  BY <1>1, <1>4, <1>6, <1>7

\* A step that changes nothing the list is about.
LEMMA ListSame ==
  ASSUME ListKept, UNCHANGED <<msgs, list, list_torn, job, pc, len, ans>>
  PROVE  ListKept'
BY DEF ListKept, Listed, Unsent, Rows, OneAtList, AtList, Knows, Newest

\* Calls about accounts, and the steps of a send that are not about the list.
LEMMA NotAboutList ==
  ASSUME Typed, ListKept, NEW w \in Workers, NEW l \in Labels, Goto(w, l),
         UNCHANGED <<msgs, list, list_torn>>, job'[w].op # "recent",
         \A v \in Workers \ {w} : /\ job'[v] = job[v] /\ ans'[v] = ans[v]
                                 /\ len'[v] = len[v],
         pc[w] # "lpush", l # "lpush", job'[w].op = "send" => l # "expire"
  PROVE  ListKept'
<1>1. pc'[w] = l
  BY DEF Goto, Typed, Work
<1>2. ~AtList(w)' /\ Knows(w)'
  BY <1>1 DEF AtList, Knows
<1>3. QED
  BY <1>2, ListFrame

LEMMA CallList ==
  ASSUME Typed, ListKept, NEW w \in Workers, NEW c \in Calls, Call(w, c)
  PROVE  ListKept'
<1>1. /\ Goto(w, "redis") /\ pc[w] = "idle" /\ UNCHANGED <<msgs, list, list_torn>>
      /\ \A v \in Workers \ {w} : /\ job'[v] = job[v] /\ ans'[v] = ans[v]
                                  /\ len'[v] = len[v]
  BY DEF Call, Typed, Work, dbVars, cacheVars, tornVars
<1>2. pc'[w] = "redis"
  BY <1>1 DEF Goto, Typed, Work
<1>3. ~AtList(w)' /\ Knows(w)'
  BY <1>2 DEF AtList, Knows
<1>4. QED
  BY <1>1, <1>3, ListFrame DEF Labels

\* What each step of GetRecentMsgs that leaves the list alone knows after it.
LEMMA RecentList ==
  ASSUME Typed, ListKept, NEW w \in Workers, job[w].op = "recent",
         GetRedis(w) \/ GetMysql(w) \/ Return(w) \/ Query(w) \/ Expire(w)
           \/ Lindex(w) \/ Lrange(w)
  PROVE  ListKept'
<1>1. /\ UNCHANGED <<msgs, list>> /\ (list_torn => list_torn')
      /\ \A v \in Workers \ {w} : /\ job'[v] = job[v] /\ ans'[v] = ans[v]
                                  /\ len'[v] = len[v]
      /\ pc[w] # "lpush"
  BY DEF GetRedis, GetMysql, Return, Query, QueryMsgs, Expire, Lindex, Lrange, Typed, Work,
         dbVars, cacheVars, tornVars
<1>2. ~list_torn' => Listed /\ OneAtList /\ Knows(w)
  BY <1>1 DEF ListKept
<1> DEFINE wanted == Lesser(N, Len(msgs))
<1>3. /\ Len(msgs) \in Nat /\ Len(list) \in Nat /\ wanted \in 0..Len(msgs)
      /\ wanted <= N /\ (wanted < N => wanted = Len(msgs)) /\ N \in Nat \ {0}
  BY WantedType, ChatStoreAssumption DEF Typed, ChatStoreAssumption
<1>4. AtList(w) <=> pc[w] \notin {"redis", "llen"}
  BY DEF AtList
<1>5. ASSUME ~list_torn', AtList(w)
      PROVE  Rows(Len(msgs))
  <2>1. ASSUME NEW v \in Workers, pc[v] = "lpush"
        PROVE  FALSE
    <3>1. job[v].op = "send"
      BY <2>1 DEF Typed, Shapes, Shape
    <3>2. AtList(v)
      BY <2>1, <3>1 DEF AtList
    <3>3. v = w
      BY <1>2, <1>5, <3>2 DEF OneAtList
    <3>4. QED
      BY <1>1, <2>1, <3>3
  <2>2. QED
    BY <1>2, <1>5, <2>1 DEF Listed, Unsent
<1>6. CASE GetRedis(w)
  <2>1. pc'[w] = "llen" /\ UNCHANGED <<job, ans>> /\ Goto(w, "llen")
    BY <1>6 DEF GetRedis, Goto, Typed, Work
  <2>2. ~AtList(w)' /\ Knows(w)'
    BY <2>1 DEF AtList, Knows
  <2>3. QED
    BY <1>1, <2>1, <2>2, ListFrame DEF Labels
<1>7. CASE GetMysql(w)
  <2>1. /\ pc[w] = "mysql" /\ pc'[w] = "query" /\ UNCHANGED <<job, len, ans>>
        /\ Goto(w, "query")
    BY <1>7 DEF GetMysql, Goto, Typed, Work
  <2>2. ~list_torn' => Knows(w)'
    BY <1>1, <1>2, <2>1 DEF Knows, Newest
  <2>3. QED
    BY <1>1, <1>4, <2>1, <2>2, ListFrame DEF Labels
<1>8. CASE Return(w)
  <2>1. pc'[w] = "idle" /\ job'[w] = NoJob /\ Goto(w, "idle")
    BY <1>8 DEF Return, Goto, Typed, Work
  <2>2. ~AtList(w)' /\ Knows(w)'
    BY <2>1 DEF AtList, Knows, NoJob
  <2>3. QED
    BY <1>1, <2>1, <2>2, ListFrame DEF Labels
<1>9. CASE Query(w)
  <2>1. PICK order \in ByDate(N), failed \in BOOLEAN :
          LET results == IF failed THEN <<>> ELSE Readable(order)
          IN /\ ans' = [ans EXCEPT ![w] = results]
             /\ list_torn' = (list_torn \/ (~failed /\ results # Newest(wanted)))
             /\ Goto(w, IF results = <<>> THEN "return" ELSE "rpush")
    BY <1>9 DEF Query, QueryMsgs, PutMysql
  <2> DEFINE results == IF failed THEN <<>> ELSE Readable(order)
             l == IF results = <<>> THEN "return" ELSE "rpush"
  <2>2. /\ pc[w] = "query" /\ UNCHANGED <<job, len>> /\ Goto(w, l) /\ pc'[w] = l
        /\ ans'[w] = results /\ l \in {"return", "rpush"}
    BY <1>9, <2>1 DEF Query, Goto, Typed, Work
  <2>3. ~list_torn' => results = <<>> \/ results = Newest(wanted)
    BY <2>1
  <2> HIDE DEF results
  <2>4. ~list_torn' => Knows(w)'
    <3>1. results = <<>> => l = "return"
      OBVIOUS
    <3>2. results # <<>> => l = "rpush"
      OBVIOUS
    <3> HIDE DEF l
    <3>3. QED
      BY <1>1, <1>2, <2>2, <2>3, <3>1, <3>2 DEF Knows, Newest
  <2>5. QED
    BY <1>1, <1>4, <2>2, <2>4, ListFrame DEF Labels
<1>10. CASE Expire(w)
  <2> DEFINE l == IF Len(ans[w]) < N THEN "mark" ELSE "return"
  <2>1. /\ pc[w] = "expire" /\ UNCHANGED <<job, len, ans>> /\ Goto(w, l) /\ pc'[w] = l
    BY <1>10 DEF Expire, Goto, Typed, Work
  <2>2. ~list_torn' => Knows(w)'
    <3> SUFFICES ASSUME ~list_torn' PROVE Knows(w)'
      OBVIOUS
    <3>1. ans[w] = Newest(wanted) /\ Len(list) = wanted
      BY <1>2, <2>1 DEF Knows
    <3>2. Len(ans[w]) = wanted
      BY <1>3, <3>1, NewestSeq
    <3>3. l = "mark" => wanted = Len(msgs)
      BY <1>3, <3>2
    <3>4. l \in {"mark", "return"}
      OBVIOUS
    <3> HIDE DEF l
    <3>5. QED
      BY <1>1, <1>3, <2>1, <3>1, <3>3, <3>4 DEF Knows, Newest
  <2>3. QED
    BY <1>1, <1>4, <2>1, <2>2, ListFrame DEF Labels
<1>11. CASE Lindex(w)
  <2>1. CASE UNCHANGED pc
    <3>1. UNCHANGED <<msgs, list, list_torn, job, pc, len, ans>>
      BY <1>11, <2>1 DEF Lindex, dbVars, cacheVars, tornVars
    <3>2. QED
      BY <3>1, ListSame
  <2>2. CASE ~UNCHANGED pc
    <3> DEFINE l == IF list[len[w]] = Null
                    THEN IF len[w] > 1 THEN "all" ELSE "return"
                    ELSE IF len[w] >= N THEN "newest" ELSE "mysql"
    <3>1. /\ pc[w] = "lindex" /\ UNCHANGED <<job, len, ans>> /\ Goto(w, l) /\ pc'[w] = l
      BY <1>11, <2>2 DEF Lindex, Goto, Typed, Work
    <3>2. ~list_torn' => Knows(w)'
      <4> SUFFICES ASSUME ~list_torn' PROVE Knows(w)'
        OBVIOUS
      <4>1. len[w] = Len(list) /\ list # <<>> /\ ans[w] = <<>>
        BY <1>2, <3>1 DEF Knows
      <4>2. Len(list) \in 1..(Len(msgs) + 1)
        <5>1. Rows(Len(msgs)) /\ Len(list) # 0
          BY <1>4, <1>5, <3>1, <4>1, EmptySeq DEF Typed, Stored
        <5>2. QED
          BY <1>3, <5>1 DEF Rows
      <4>3. list[len[w]] = Null <=> Len(list) = Len(msgs) + 1
        <5>1. Rows(Len(msgs)) /\ Null \notin Nat
          BY <1>4, <1>5, <3>1, ChatStoreAssumption DEF ChatStoreAssumption
        <5>2. QED
          BY <1>3, <4>1, <4>2, <5>1 DEF Rows
      <4>4. /\ l = "all" => Len(list) = Len(msgs) + 1
            /\ l = "newest" => N <= Len(list) /\ Len(list) # Len(msgs) + 1
            /\ l = "mysql" => Len(list) < N /\ Len(list) # Len(msgs) + 1
            /\ l \in {"all", "newest", "mysql", "return"}
        BY <1>3, <4>1, <4>3
      <4> HIDE DEF l
      <4>5. QED
        BY <1>1, <1>3, <3>1, <4>1, <4>4 DEF Knows
    <3>3. l \in Labels /\ l # "lpush"
      BY DEF Labels
    <3> HIDE DEF l
    <3>4. QED
      BY <1>1, <1>4, <3>1, <3>2, <3>3, ListFrame
  <2>3. QED
    BY <2>1, <2>2
<1>12. CASE Lrange(w)
  <2> DEFINE last == IF pc[w] = "all" THEN len[w] - 1 ELSE N
             n == IF last <= Len(list) THEN last ELSE Len(list)
  <2>1. /\ pc[w] \in {"all", "newest"} /\ UNCHANGED <<job, len>>
        /\ Goto(w, "return") /\ pc'[w] = "return" /\ ans'[w] = SubSeq(list, 1, n)
    BY <1>12 DEF Lrange, Goto, Typed, Work
  <2>2. ~list_torn' => Knows(w)'
    <3> SUFFICES ASSUME ~list_torn' PROVE Knows(w)'
      OBVIOUS
    <3>1. /\ pc[w] = "all" => len[w] = Len(list) /\ Len(list) = Len(msgs) + 1
          /\ pc[w] = "newest" => /\ len[w] = Len(list) /\ N <= len[w]
                                 /\ Len(list) # Len(msgs) + 1
      BY <1>2 DEF Knows
    <3>2. Rows(Len(msgs)) /\ Len(list) <= Len(msgs) + 1
      BY <1>4, <1>5, <2>1 DEF Rows
    <3>3. n \in Nat /\ n <= Len(list) /\ n <= Len(msgs) /\ n >= wanted
      BY <1>3, <2>1, <3>1, <3>2
    <3> HIDE DEF n
    <3>4. ans'[w] = Newest(n)
      BY <2>1, <3>2, <3>3, RowsAreNewest DEF Typed
    <3>5. QED
      BY <1>1, <2>1, <3>3, <3>4 DEF Knows, Newest
  <2>3. QED
    BY <1>1, <1>4, <2>1, <2>2, ListFrame DEF Labels
<1>13. QED
  BY <1>6, <1>7, <1>8, <1>9, <1>10, <1>11, <1>12

\* Nobody else is at the list: who is not has no row for it, and knows nothing of it.
LEMMA AloneAtList ==
  ASSUME Typed, NEW w \in Workers, NEW l \in Labels, Goto(w, l), Knows(w)',
         \A v \in Workers \ {w} : /\ job'[v] = job[v] /\ ans'[v] = ans[v]
                                 /\ len'[v] = len[v] /\ ~AtList(v)
  PROVE  /\ OneAtList' /\ (Unsent <=> pc[w] = "lpush") /\ (Unsent' <=> l = "lpush")
         /\ \A v \in Workers : Knows(v)'
<1>1. pc'[w] = l /\ \A v \in Workers \ {w} : pc'[v] = pc[v]
  BY DEF Goto, Typed, Work
<1>2. ASSUME NEW v \in Workers, v # w
      PROVE  ~AtList(v)' /\ pc[v] # "lpush" /\ Knows(v)'
  <2>1. pc[v] # "lpush"
    BY <1>2 DEF AtList, Typed, Shapes, Shape
  <2>2. job[v].op = "recent" => pc[v] \in {"redis", "llen"}
    BY <1>2 DEF AtList
  <2>3. QED
    BY <1>1, <1>2, <2>1, <2>2 DEF AtList, Knows
<1>3. QED
  BY <1>1, <1>2 DEF OneAtList, Unsent

LEMMA WriteMsgList ==
  ASSUME Typed, ListKept, NEW w \in Workers, Write(w), job[w].op = "send"
  PROVE  ListKept'
<1>1. WriteMsg(w) /\ pc[w] = "write" /\ UNCHANGED <<list, job, len>>
  BY DEF Write, cacheVars
<1>2. PICK outcome \in {"done", "failed", "lost"}, date \in {LastDate, LastDate + 1} :
        /\ msgs' = IF outcome = "failed" THEN msgs
                   ELSE Append(msgs, [content |-> job[w].content, date |-> date])
        /\ list_torn' = (\/ list_torn \/ outcome = "lost"
                         \/ outcome = "done" /\ OthersAtList(w))
        /\ ans' = [ans EXCEPT ![w] = IF outcome = "done" THEN <<Len(msgs')>> ELSE <<>>]
        /\ Goto(w, IF outcome = "done" THEN "lpush" ELSE "return")
  BY <1>1 DEF WriteMsg, PutMysql
<1>3. \A v \in Workers \ {w} : job'[v] = job[v] /\ ans'[v] = ans[v] /\ len'[v] = len[v]
  BY <1>1, <1>2 DEF Typed, Work
<1>4. CASE outcome = "lost"
  BY <1>2, <1>4 DEF ListKept
<1>5. CASE outcome = "failed"
  <2>1. Goto(w, "return") /\ UNCHANGED <<msgs, list_torn>>
    BY <1>2, <1>5 DEF Typed, Work
  <2>2. QED
    BY <1>1, <1>3, <2>1, NotAboutList DEF Labels
<1>6. CASE outcome = "done"
  <2> SUFFICES ASSUME ~list_torn'
               PROVE  Listed' /\ OneAtList' /\ \A v \in Workers : Knows(v)'
    BY DEF ListKept
  <2>1. /\ ~list_torn /\ \A v \in Workers \ {w} : ~AtList(v)
    BY <1>2, <1>6 DEF OthersAtList
  <2>2. Goto(w, "lpush") /\ ans'[w] = <<Len(msgs')>>
    BY <1>2, <1>6 DEF Typed, Work
  <2>3. Knows(w)'
    BY <1>1, <2>2 DEF Knows
  <2>4. /\ OneAtList' /\ ~Unsent /\ Unsent' /\ \A v \in Workers : Knows(v)'
    BY <1>1, <1>3, <2>1, <2>2, <2>3, AloneAtList DEF Labels
  <2>5. Len(msgs') = Len(msgs) + 1 /\ Len(msgs) \in Nat
    BY <1>2, <1>6 DEF Typed, Stored
  <2>6. Rows(Len(msgs))
    BY <2>1, <2>4 DEF ListKept, Listed
  <2>7. Rows(Len(msgs) - 1)'
    BY <1>1, <2>5, <2>6 DEF Rows
  <2>8. QED
    BY <2>4, <2>7 DEF Listed
<1>7. QED
  BY <1>4, <1>5, <1>6

\* A call that is at the list, untorn, is alone there.
LEMMA Alone ==
  ASSUME Typed, ListKept, ~list_torn, NEW w \in Workers, AtList(w)
  PROVE  /\ \A v \in Workers \ {w} : ~AtList(v)
         /\ Unsent <=> pc[w] = "lpush"
         /\ Listed /\ Knows(w)
<1>1. \A v \in Workers \ {w} : ~AtList(v)
  BY DEF ListKept, OneAtList
<1>2. \A v \in Workers : pc[v] = "lpush" => AtList(v)
  BY DEF Typed, Shapes, Shape, AtList
<1>3. QED
  BY <1>1, <1>2 DEF ListKept, Unsent

LEMMA LpushList ==
  ASSUME Typed, ListKept, NEW w \in Workers, Lpush(w)
  PROVE  ListKept'
<1> SUFFICES ASSUME ~list_torn' PROVE Listed' /\ OneAtList' /\ \A v \in Workers : Knows(v)'
  BY DEF ListKept
<1>1. /\ UNCHANGED <<msgs, job, len, ans, list_torn>> /\ pc[w] = "lpush"
      /\ Goto(w, "expire") /\ list' = ans[w] \o list
  BY DEF Lpush, dbVars, tornVars
<1>2. AtList(w) /\ job[w].op = "send"
  BY <1>1 DEF AtList, Typed, Shapes, Shape
<1>3. /\ \A v \in Workers \ {w} : ~AtList(v)
      /\ Rows(Len(msgs) - 1) /\ ans[w] = <<Len(msgs)>>
  BY <1>1, <1>2, Alone DEF Listed, Knows
<1>4. pc'[w] = "expire"
  BY <1>1 DEF Goto, Typed, Work
<1>5. Knows(w)'
  BY <1>1, <1>2, <1>4 DEF Knows
<1>6. /\ OneAtList' /\ ~Unsent' /\ \A v \in Workers : Knows(v)'
  BY <1>1, <1>3, <1>5, AloneAtList DEF Labels
<1> DEFINE n == Len(msgs)
           S == 1..n \union {Null}
<1>7. n \in Nat /\ n >= 1 /\ n \in S /\ list \in Seq(S)
  <2>1. ans[w] \in Seq(1..n) /\ n \in Nat /\ list \in Seq(S)
    BY <1>1 DEF Typed, Stored, Shapes, Shape
  <2>2. n \in 1..n
    BY <1>3, <2>1, One, ElementOfSeq
  <2>3. QED
    BY <2>1, <2>2
<1> HIDE DEF S
<1>8. /\ Len(list') = Len(list) + 1 /\ list'[1] = n /\ Len(list) \in Nat
      /\ \A i \in 2..(Len(list) + 1) : list'[i] = list[i - 1]
  <2>1. <<n>> \in Seq(S) /\ Len(<<n>>) = 1 /\ <<n>>[1] = n
    BY <1>7, One
  <2>2. list' = <<n>> \o list /\ Len(list) \in Nat
    BY <1>1, <1>3, <1>7
  <2>3. /\ Len(<<n>> \o list) = 1 + Len(list)
        /\ \A i \in 1..(1 + Len(list)) :
             (<<n>> \o list)[i] = IF i <= 1 THEN <<n>>[i] ELSE list[i - 1]
    BY <1>7, <2>1, ConcatProperties
  <2>4. QED
    BY <2>1, <2>2, <2>3
<1>9. Rows(Len(msgs))'
  <2>1. Len(list') <= n + 1
    BY <1>3, <1>7, <1>8 DEF Rows
  <2>2. ASSUME NEW i \in 1..Len(list')
        PROVE  list'[i] = IF i = n + 1 THEN Null ELSE n + 1 - i
    <3>1. CASE i = 1
      BY <1>7, <1>8, <3>1
    <3>2. CASE i # 1
      <4>1. i - 1 \in 1..Len(list) /\ list'[i] = list[i - 1]
        BY <1>8, <3>2
      <4>2. list[i - 1] = IF i - 1 = (n - 1) + 1 THEN Null ELSE (n - 1) + 1 - (i - 1)
        BY <1>3, <4>1 DEF Rows
      <4>3. QED
        BY <1>7, <4>1, <4>2
    <3>3. QED
      BY <3>1, <3>2
  <2>3. QED
    BY <1>1, <2>1, <2>2 DEF Rows
<1>10. QED
  BY <1>6, <1>9 DEF Listed

LEMMA LlenList ==
  ASSUME Typed, ListKept, NEW w \in Workers, Llen(w)
  PROVE  ListKept'
<1> SUFFICES ASSUME ~list_torn' PROVE Listed' /\ OneAtList' /\ \A v \in Workers : Knows(v)'
  BY DEF ListKept
<1>1. /\ UNCHANGED <<msgs, list, job, ans>> /\ pc[w] = "llen" /\ ans[w] = <<>>
      /\ ~list_torn /\ \A v \in Workers \ {w} : ~AtList(v)
  BY DEF Llen, dbVars, cacheVars, OthersAtList, Typed, Shapes, Shape
<1> DEFINE l == IF list = <<>> THEN "mysql" ELSE "lindex"
<1>2. /\ Goto(w, l) /\ pc'[w] = l /\ len'[w] = Len(list)
      /\ \A v \in Workers \ {w} : len'[v] = len[v]
  BY DEF Llen, Goto, Typed, Work
<1>3. /\ list = <<>> => Len(list) = 0 /\ 0 < N
      /\ Len(msgs) \in Nat /\ l \in {"mysql", "lindex"}
      /\ l = "mysql" <=> list = <<>>
  BY ChatStoreAssumption DEF ChatStoreAssumption, Typed, Stored
<1> HIDE DEF l
<1>4. Knows(w)'
  BY <1>1, <1>2, <1>3 DEF Knows
<1>5. /\ OneAtList' /\ ~Unsent /\ ~Unsent' /\ \A v \in Workers : Knows(v)'
  BY <1>1, <1>2, <1>3, <1>4, AloneAtList DEF Labels
<1>6. Rows(Len(msgs))'
  BY <1>1, <1>5 DEF ListKept, Listed, Rows
<1>7. QED
  BY <1>5, <1>6 DEF Listed

LEMMA RpushList ==
  ASSUME Typed, ListKept, NEW w \in Workers, Rpush(w)
  PROVE  ListKept'
<1>1. /\ UNCHANGED <<msgs, job, len, ans, list_torn>> /\ pc[w] = "rpush"
      /\ job[w].op = "recent"
  BY DEF Rpush, dbVars, tornVars, Typed, Shapes, Shape
<1>2. AtList(w)
  BY <1>1 DEF AtList
<1> DEFINE wanted == Lesser(N, Len(msgs))
<1>3. /\ Len(msgs) \in Nat /\ Len(list) \in Nat /\ wanted \in 0..Len(msgs)
      /\ wanted <= N /\ (wanted < N => wanted = Len(msgs)) /\ N \in Nat
  BY WantedType, ChatStoreAssumption DEF Typed, ChatStoreAssumption
<1> HIDE DEF wanted
<1>4. ASSUME ~list_torn
      PROVE  /\ \A v \in Workers \ {w} : ~AtList(v)
             /\ Rows(Len(msgs)) /\ len[w] = Len(list) /\ len[w] < N
             /\ Len(list) <= Len(msgs)
             /\ ans[w] = Newest(wanted) /\ Len(ans[w]) = wanted
  <2>1. /\ \A v \in Workers \ {w} : ~AtList(v)
        /\ Rows(Len(msgs))
        /\ len[w] = Len(list) /\ len[w] < N /\ Len(list) # Len(msgs) + 1
        /\ ans[w] = Newest(wanted)
    BY <1>1, <1>2, <1>4, Alone DEF Listed, Knows, wanted
  <2>2. Len(list) <= Len(msgs) + 1
    BY <2>1 DEF Rows
  <2>3. Len(ans[w]) = wanted
    BY <1>3, <2>1, NewestSeq
  <2>4. Len(list) <= Len(msgs)
    BY <1>3, <2>1, <2>2
  <2>5. QED
    BY <2>1, <2>3, <2>4
<1>5. CASE FirstNew(len[w]) > Len(ans[w])
  <2>1. UNCHANGED <<list, pc>>
    BY <1>5 DEF Rpush
  <2>2. QED
    BY <1>1, <2>1, ListSame
<1>6. CASE /\ FirstNew(len[w]) <= Len(ans[w])
           /\ list' = list \o SubSeq(ans[w], FirstNew(len[w]), Len(ans[w]))
           /\ Goto(w, "expire") /\ UNCHANGED aborted
  <2> SUFFICES ASSUME ~list_torn
               PROVE  Listed' /\ OneAtList' /\ \A v \in Workers : Knows(v)'
    BY <1>1, <1>6 DEF ListKept
  <2> DEFINE k == Len(list)
             S == 1..Len(msgs) \union {Null}
             new == SubSeq(ans[w], k + 1, wanted)
  <2>1. k + 1 <= wanted /\ list' = list \o new
    BY <1>4, <1>6 DEF FirstNew
  <2>2. /\ k \in Nat /\ wanted \in Nat
        /\ ans[w] \in Seq(S) /\ Len(ans[w]) = wanted /\ list \in Seq(S)
        /\ \A i \in 1..wanted : ans[w][i] = Len(msgs) + 1 - i
    <3>1. Newest(wanted) \in Seq(1..Len(msgs))
      BY <1>3, NewestType DEF Typed
    <3>2. Newest(wanted) \in Seq(S)
      BY <3>1, SeqMonotonic
    <3>3. QED
      BY <1>3, <1>4, <3>2, NewestSeq DEF Typed, Stored
  <2> HIDE DEF S, k
  <2>3. /\ new \in Seq(S) /\ Len(new) = wanted - k
        /\ \A i \in 1..(wanted - k) : new[i] = ans[w][k + i]
    <3>1. \A i \in (k + 1)..wanted : ans[w][i] \in S
      BY <2>2, ElementOfSeq
    <3>2. k + 1 \in Int /\ wanted \in Int
      BY <2>2
    <3>3. /\ new \in Seq(S)
          /\ Len(new) = IF k + 1 <= wanted THEN wanted - (k + 1) + 1 ELSE 0
          /\ \A i \in 1..(wanted - (k + 1) + 1) : new[i] = ans[w][(k + 1) + i - 1]
      BY <3>1, <3>2, SubSeqProperties
    <3> HIDE DEF new
    <3>4. \A i \in 1..(wanted - k) : (k + 1) + i - 1 = k + i
      BY <2>2
    <3>5. QED
      BY <2>1, <2>2, <3>3, <3>4
  <2> HIDE DEF new
  <2>4. /\ Len(list') = wanted
        /\ \A i \in 1..wanted : list'[i] = IF i <= k THEN list[i] ELSE new[i - k]
    <3>1. /\ Len(list \o new) = k + Len(new)
          /\ \A i \in 1..(k + Len(new)) :
               (list \o new)[i] = IF i <= k THEN list[i] ELSE new[i - k]
      BY <2>2, <2>3, ConcatProperties DEF k
    <3>2. QED
      BY <2>1, <2>2, <2>3, <3>1
  <2>5. \A i \in 1..wanted : list'[i] = Len(msgs) + 1 - i
    <3> SUFFICES ASSUME NEW i \in 1..wanted PROVE list'[i] = Len(msgs) + 1 - i
      OBVIOUS
    <3>1. CASE i <= k
      <4>1. i \in 1..Len(list) /\ i # Len(msgs) + 1
        BY <1>3, <2>2, <3>1 DEF k
      <4>2. list[i] = Len(msgs) + 1 - i
        BY <1>4, <4>1 DEF Rows
      <4>3. QED
        BY <2>4, <3>1, <4>2
    <3>2. CASE i > k
      <4>1. i - k \in 1..(wanted - k) /\ k + (i - k) = i
        BY <2>2, <3>2
      <4>2. new[i - k] = ans[w][i]
        BY <2>3, <4>1
      <4>3. QED
        BY <2>2, <2>4, <3>2, <4>2
    <3>3. QED
      BY <2>2, <3>1, <3>2
  <2>6. Rows(Len(msgs))'
    BY <1>1, <1>3, <2>4, <2>5 DEF Rows
  <2>7. pc'[w] = "expire"
    BY <1>6 DEF Goto, Typed, Work
  <2>8. Knows(w)'
    BY <1>1, <1>4, <2>4, <2>7 DEF Knows, Newest, wanted
  <2>9. OneAtList' /\ ~Unsent' /\ \A v \in Workers : Knows(v)'
    BY <1>1, <1>4, <1>6, <2>8, AloneAtList DEF Labels
  <2>10. QED
    BY <2>6, <2>9 DEF Listed
<1>7. FirstNew(len[w]) > Len(ans[w]) \/ FirstNew(len[w]) <= Len(ans[w])
  BY <1>1 DEF FirstNew, Typed, Work, Shapes, Shape
<1>8. QED
  BY <1>5, <1>6, <1>7 DEF Rpush

LEMMA MarkList ==
  ASSUME Typed, ListKept, NEW w \in Workers, Mark(w)
  PROVE  ListKept'
<1> SUFFICES ASSUME ~list_torn' PROVE Listed' /\ OneAtList' /\ \A v \in Workers : Knows(v)'
  BY DEF ListKept
<1>1. /\ UNCHANGED <<msgs, job, len, ans, list_torn>> /\ pc[w] = "mark"
      /\ job[w].op = "recent" /\ Goto(w, "return") /\ list' = Append(list, Null)
  BY DEF Mark, dbVars, tornVars, Typed, Shapes, Shape
<1>2. AtList(w)
  BY <1>1 DEF AtList
<1> DEFINE wanted == Lesser(N, Len(msgs))
<1>3. /\ \A v \in Workers \ {w} : ~AtList(v)
      /\ Rows(Len(msgs))
      /\ Len(list) = Len(msgs) /\ ans[w] = Newest(wanted)
  BY <1>1, <1>2, Alone DEF Listed, Knows
<1>4. wanted \in Nat /\ Len(msgs) \in Nat
  BY WantedType DEF Typed
<1>5. /\ Len(list') = Len(list) + 1 /\ list'[Len(list) + 1] = Null
      /\ \A i \in 1..Len(list) : list'[i] = list[i]
  BY <1>1, AppendProperties DEF Typed, Stored
<1>6. Rows(Len(msgs))'
  BY <1>1, <1>3, <1>4, <1>5 DEF Rows
<1>7. pc'[w] = "return"
  BY <1>1 DEF Goto, Typed, Work
<1>8. Knows(w)'
  BY <1>1, <1>3, <1>4, <1>7 DEF Knows, Newest
<1>9. OneAtList' /\ ~Unsent' /\ \A v \in Workers : Knows(v)'
  BY <1>1, <1>3, <1>8, AloneAtList DEF Labels
<1>10. QED
  BY <1>6, <1>9 DEF Listed

LEMMA ListExpiresList ==
  ASSUME Typed, ListKept, ListExpires
  PROVE  ListKept'
<1> SUFFICES ASSUME ~list_torn' PROVE Listed' /\ OneAtList' /\ \A v \in Workers : Knows(v)'
  BY DEF ListKept
<1>1. /\ UNCHANGED <<msgs, job, pc, len, ans>> /\ list' = <<>>
      /\ \A v \in Workers : AtList(v) => ~list_torn /\ job[v].op # "recent"
  BY DEF ListExpires, dbVars
<1>2. Listed'
  <2>1. Len(msgs) \in Nat /\ Len(list') = 0
    BY <1>1 DEF Typed, Stored
  <2>2. QED
    BY <1>1, <2>1 DEF Listed, Rows
<1>3. OneAtList'
  BY <1>1 DEF OneAtList, AtList, ListKept
<1>4. ASSUME NEW v \in Workers
      PROVE  Knows(v)'
  <2>1. CASE AtList(v)
    <3>1. Knows(v)
      BY <1>1, <2>1 DEF ListKept
    <3>2. QED
      BY <1>1, <2>1, <3>1 DEF Knows
  <2>2. CASE ~AtList(v)
    <3>1. /\ pc[v] # "lpush"
          /\ job[v].op = "recent" => pc[v] \in {"redis", "llen"}
      BY <2>2 DEF AtList, Typed, Shapes, Shape
    <3>2. QED
      BY <1>1, <3>1 DEF Knows
  <2>3. QED
    BY <2>1, <2>2
<1>5. QED
  BY <1>2, <1>3, <1>4

LEMMA RestartList ==
  ASSUME Typed, ListKept, Restart
  PROVE  ListKept'
<1> SUFFICES ASSUME ~list_torn' PROVE Listed' /\ OneAtList' /\ \A v \in Workers : Knows(v)'
  BY DEF ListKept
<1>1. /\ UNCHANGED <<msgs, list>> /\ ~list_torn /\ ~Unsent
      /\ \A v \in Workers : pc'[v] = "idle" /\ job'[v] = NoJob
  BY DEF Restart, dbVars, cacheVars, Unsent
<1>2. Listed'
  BY <1>1 DEF ListKept, Listed, Rows, Unsent
<1>3. OneAtList' /\ \A v \in Workers : Knows(v)'
  BY <1>1 DEF OneAtList, AtList, Knows, NoJob
<1>4. QED
  BY <1>2, <1>3

\* The steps that NotAboutList is about.
LEMMA OtherList ==
  ASSUME Typed, ListKept, NEW w \in Workers,
         \/ /\ job[w].op # "recent"
            /\ GetRedis(w) \/ GetMysql(w) \/ Return(w) \/ Expire(w) \/ Query(w)
         \/ Write(w) /\ job[w].op # "send"
         \/ Check(w) \/ Hset(w) \/ Hget(w) \/ Fill(w) \/ Reread(w)
  PROVE  ListKept'
<1>1. CASE Reread(w) /\ UNCHANGED pc
  <2>1. UNCHANGED <<msgs, list, list_torn, job, pc, len, ans>>
    BY <1>1 DEF Reread, dbVars, cacheVars, tornVars
  <2>2. QED
    BY <2>1, ListSame
<1>2. CASE ~(Reread(w) /\ UNCHANGED pc)
  <2>1. /\ UNCHANGED <<msgs, list, list_torn>>
        /\ \A v \in Workers \ {w} : /\ job'[v] = job[v] /\ ans'[v] = ans[v]
                                    /\ len'[v] = len[v]
        /\ pc[w] # "lpush" /\ job'[w].op # "recent"
    <3>1. CASE /\ job[w].op # "recent"
               /\ GetRedis(w) \/ GetMysql(w) \/ Return(w) \/ Expire(w)
      <4>1. CASE Return(w)
        <5>1. /\ UNCHANGED <<msgs, list, list_torn>> /\ pc[w] = "return"
              /\ job' = [job EXCEPT ![w] = NoJob] /\ len' = [len EXCEPT ![w] = 0]
              /\ ans' = [ans EXCEPT ![w] = <<>>]
          BY <4>1 DEF Return, dbVars, cacheVars, tornVars
        <5>2. job'[w] = NoJob /\ NoJob.op # "recent"
          BY <5>1 DEF Typed, Work, NoJob
        <5>3. \A v \in Workers \ {w} : /\ job'[v] = job[v] /\ ans'[v] = ans[v]
                                      /\ len'[v] = len[v]
          BY <5>1 DEF Typed, Work
        <5>4. QED
          BY <5>1, <5>2, <5>3
      <4>2. CASE GetRedis(w) \/ GetMysql(w) \/ Expire(w)
        BY <3>1, <4>2 DEF GetRedis, GetMysql, Expire, dbVars, cacheVars, tornVars
      <4>3. QED
        BY <3>1, <4>1, <4>2
    <3>2. CASE Query(w) /\ job[w].op # "recent"
      <4>1. QueryUser(w)
        BY <3>2 DEF Query, Typed, Shapes, Shape
      <4>2. /\ UNCHANGED <<msgs, list, job, len>> /\ pc[w] = "query"
            /\ UNCHANGED list_torn
        BY <3>2, <4>1 DEF Query, QueryUser, dbVars, cacheVars
      <4>3. \A v \in Workers \ {w} : ans'[v] = ans[v]
        BY <4>1 DEF QueryUser, Typed, Work
      <4>4. QED
        BY <3>2, <4>2, <4>3
    <3>3. CASE Check(w) \/ Hset(w) \/ Hget(w) \/ Fill(w) \/ Reread(w)
      BY <3>3 DEF Check, Hset, Hget, Fill, Reread, dbVars, cacheVars, tornVars, Typed,
                  Shapes, Shape
    <3>4. CASE Write(w) /\ job[w].op # "send"
      <4>1. WriteUser(w)
        BY <3>4 DEF Write
      <4>2. QED
        BY <3>4, <4>1 DEF Write, WriteUser, cacheVars, Typed, Shapes, Shape
    <3>5. QED
      BY <3>1, <3>2, <3>3, <3>4
  <2>2. PICK l \in {"hget", "llen", "mysql", "query", "check", "idle", "reread", "mark",
                    "return", "write", "hset", "fill", "expire"} :
          Goto(w, l) /\ (job'[w].op = "send" => l # "expire")
    <3>1. CASE GetRedis(w) \/ GetMysql(w) \/ Return(w) \/ Expire(w)
      <4>1. \/ \E l \in {"hget", "llen", "mysql"} : Goto(w, l)
            \/ \E l \in {"query", "check"} : Goto(w, l)
            \/ Goto(w, "idle")
            \/ \E l \in {"reread", "mark", "return"} : Goto(w, l)
        BY <3>1 DEF GetRedis, GetMysql, Return, Expire
      <4>2. QED
        BY <4>1
    <3>2. CASE Query(w) /\ job[w].op # "recent"
      <4>1. QueryUser(w)
        BY <3>2 DEF Query, Typed, Shapes, Shape
      <4>2. QED
        BY <4>1 DEF QueryUser, PutMysql
    <3>3. CASE Check(w) \/ Hset(w) \/ Hget(w)
      <4>1. \E l \in {"write", "return", "mysql"} : Goto(w, l)
        BY <3>3 DEF Check, Hset, Hget, PutMysql
      <4>2. QED
        BY <4>1
    <3>4. CASE Reread(w)
      BY <1>2, <3>4 DEF Reread
    <3>5. CASE Fill(w)
      <4>1. Goto(w, "expire") /\ job' = job /\ job[w].op = "select"
        BY <3>5 DEF Fill, Typed, Shapes, Shape
      <4>2. QED
        BY <4>1
    <3>6. CASE Write(w) /\ job[w].op # "send"
      <4>1. \E l \in {"hset", "return"} : Goto(w, l)
        BY <3>6 DEF Write, WriteUser, PutMysql
      <4>2. QED
        BY <4>1
    <3>7. QED
      BY <3>1, <3>2, <3>3, <3>4, <3>5, <3>6
  <2>3. QED
    BY <2>1, <2>2, NotAboutList DEF Labels
<1>3. QED
  BY <1>1, <1>2

LEMMA ListStep == Typed /\ ListKept /\ [Next]_vars => ListKept'
<1> SUFFICES ASSUME Typed, ListKept, [Next]_vars PROVE ListKept'
  OBVIOUS
<1>1. ASSUME NEW w \in Workers, Serve(w)
      PROVE  ListKept'
  <2>1. CASE GetRedis(w) \/ GetMysql(w) \/ Return(w) \/ Expire(w) \/ Query(w)
    BY <2>1, OtherList, RecentList
  <2>2. CASE Check(w) \/ Hset(w) \/ Hget(w) \/ Fill(w) \/ Reread(w)
    BY <2>2, OtherList
  <2>3. CASE Write(w)
    BY <2>3, OtherList, WriteMsgList
  <2>4. CASE Lindex(w) \/ Lrange(w)
    <3>1. job[w].op = "recent"
      BY <2>4 DEF Lindex, Lrange, Typed, Shapes, Shape
    <3>2. QED
      BY <2>4, <3>1, RecentList
  <2>5. CASE Lpush(w) \/ Llen(w) \/ Rpush(w) \/ Mark(w)
    BY <2>5, LpushList, LlenList, RpushList, MarkList
  <2>6. CASE RedisFails(w)
    <3>1. UNCHANGED <<msgs, list, list_torn, job, pc, len, ans>>
      BY <2>6 DEF RedisFails, dbVars, cacheVars, tornVars
    <3>2. QED
      BY <3>1, ListSame
  <2>7. QED
    BY <1>1, <2>1, <2>2, <2>3, <2>4, <2>5, <2>6 DEF Serve
<1>2. CASE HashExpires \/ UNCHANGED vars
  <2>1. UNCHANGED <<msgs, list, list_torn, job, pc, len, ans>>
    BY <1>2 DEF HashExpires, vars, dbVars, cacheVars, tornVars
  <2>2. QED
    BY <2>1, ListSame
<1>3. ASSUME NEW w \in Workers, NEW c \in Calls, Call(w, c)
      PROVE  ListKept'
  BY <1>3, CallList
<1>4. QED
  BY <1>1, <1>2, <1>3, ListExpiresList, RestartList DEF Next, Finished

\* What Listed and Knows say is what RecentInOrder says.
LEMMA KeptInOrder == Typed /\ ListKept => RecentInOrder
<1> SUFFICES ASSUME Typed, ListKept, ~list_torn PROVE RecentInOrder
  BY DEF RecentInOrder
<1> DEFINE complete == list # <<>> /\ Last(list) = Null
           rows == IF complete THEN Front(list) ELSE list
           n == Len(msgs)
           k == Len(list)
<1>1. /\ n \in Nat /\ k \in Nat /\ (list # <<>> <=> k # 0) /\ Null \notin Nat
      /\ \A m \in 0..n : Len(Newest(m)) = m
  BY WantedType, EmptySeq, NewestSeq, ChatStoreAssumption
  DEF Typed, Stored, ChatStoreAssumption
<1>2. ASSUME ~Unsent
      PROVE  rows = Newest(Len(rows)) /\ (complete => Len(rows) = n)
  <2>1. Rows(n) /\ k <= n + 1
    BY <1>2 DEF ListKept, Listed, Rows
  <2>2. complete <=> k = n + 1
    <3>1. k # 0 => list[k] = IF k = n + 1 THEN Null ELSE n + 1 - k
      BY <1>1, <2>1 DEF Rows
    <3>2. k # 0 /\ k # n + 1 => list[k] \in Nat
      BY <1>1, <2>1, <3>1
    <3>3. QED
      BY <1>1, <3>1, <3>2 DEF Last
  <2>3. CASE complete
    <3>1. rows = SubSeq(list, 1, n)
      BY <1>1, <2>2, <2>3 DEF Front
    <3>2. n <= Len(list) /\ n <= Len(msgs)
      BY <1>1, <2>2, <2>3
    <3>3. SubSeq(list, 1, n) = Newest(n)
      BY <1>1, <2>1, <3>2, RowsAreNewest DEF Typed
    <3>4. QED
      BY <1>1, <3>1, <3>3
  <2>4. CASE ~complete
    <3>1. k <= n /\ rows = list /\ SubSeq(list, 1, k) = list
      BY <1>1, <2>1, <2>2, <2>4, SubSeqFull DEF Typed, Stored
    <3>2. QED
      BY <1>1, <2>1, <2>4, <3>1, RowsAreNewest DEF Typed
  <2>5. QED
    BY <2>3, <2>4
<1>3. ASSUME NEW w \in Workers, job[w].op = "recent", pc[w] = "return", ans[w] # <<>>
      PROVE  ans[w] = Newest(Len(ans[w])) /\ Len(ans[w]) >= Lesser(N, n)
  <2>1. PICK m \in Nat : ans[w] = Newest(m) /\ m >= Lesser(N, n)
    BY <1>3 DEF ListKept, Knows
  <2>2. Len(ans[w]) = m
    BY <2>1, NewestSeq
  <2>3. QED
    BY <2>1, <2>2
<1> HIDE DEF complete, rows
<1>4. /\ \/ \E w \in Workers : pc[w] = "lpush"
         \/ rows = Newest(Len(rows)) /\ (complete => Len(rows) = Len(msgs))
      /\ \A w \in Workers : job[w].op = "recent" /\ pc[w] = "return" =>
           \/ ans[w] = <<>>
           \/ ans[w] = Newest(Len(ans[w])) /\ Len(ans[w]) >= Lesser(N, Len(msgs))
  BY <1>2, <1>3 DEF Unsent
<1>5. QED
  BY <1>4 DEF RecentInOrder, complete, rows

\* The cached list of a conversation and what GetRecentMsgs answers are its newest
\* messages in order and without a gap, and "NULL" ends a list that has them all, but
\* when, since the list last expired, another call, a fault or the expiry has come
\* between the steps of a call at it, or rows have come in another order, those of one
\* second, or up to one whose text is longer than 50 bytes (Redis.cpp: Insert of a
\* message and GetRecentMsgs).
THEOREM NewestFirst == Spec => []RecentInOrder
<1>1. Init => ListKept
  BY DEF Init, ListKept, Listed, Unsent, Rows, OneAtList, AtList, Knows, NoJob
<1>2. Spec => [](Typed /\ ListKept)
  BY <1>1, InitTyped, TypedStep, ListStep, PTL DEF Spec
<1>3. QED
  BY <1>2, KeptInOrder, PTL
=============================================================================
