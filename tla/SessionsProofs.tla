--------------------------- MODULE SessionsProofs ---------------------------
(***************************************************************************)
(* Proofs about the two halves of HttpServer: Sessions, for every number   *)
(* of connections, users and logins, and HttpSession, for every number of  *)
(* streams and of threads that push through the session.  The invariants   *)
(* of the runs sessions and http_session hold in every reachable state.    *)
(*                                                                         *)
(* Sessions: the argument is about who holds a user.  An open connection   *)
(* does while its requests are the user's, or while a handler of it adds   *)
(* or removes the user.  Unless the user is shared, one connection at most *)
(* holds it, and only a holder frees the User or changes the tables.       *)
(*                                                                         *)
(* HttpSession: while a batch is at work one request at most is owed an    *)
(* answer, the current one; and as long as no two threads were between the *)
(* session and the wire at once, what GetMessage copied is what it drops,  *)
(* so that outputs change their place in two ways only: a new one is added *)
(* to the buffer, or all of one place goes to the end of the next.         *)
(***************************************************************************)
EXTENDS Sessions, HttpSession, SequenceTheorems, TLAPS

Objects == [name : Users, live : BOOLEAN]

\* c has to do with x.
Holds(c, x) == Is(c, x) \/ Working(c, x)

\* The User u may be used, or its user has been shared.
Usable(u) == heap[u].live \/ heap[u].name \in shared
-----------------------------------------------------------------------------
(* The inductive invariant, part by part *)

\* What a thread that runs a handler has in hand.
Threads ==
  \A c \in Conns :
    /\ pc[c] # "idle" => c \in open /\ \E x \in Users : name[c] = {x}
    /\ pc[c] = "set_user" => new[c] # 0 /\ name[c] = {heap[new[c]].name}
    /\ pc[c] \in {"add_conn", "set_on_close", "remove_user", "remove_conn"} =>
         user[c] # 0 /\ name[c] = {heap[user[c]].name}

\* A user that is not shared is held by one connection at most.
OneHolder ==
  \A x \in Users \ shared : \A c, d \in open :
    Holds(c, x) /\ Holds(d, x) => c = d

\* A User that a handler can reach is usable, but for the connection that has
\* just replaced it or removed it itself.
Reachable ==
  \A c \in open :
    /\ user[c] # 0 /\ pc[c] \notin {"set_user", "remove_conn"} => Usable(user[c])
    /\ pc[c] = "set_user" => Usable(new[c])

\* A connection that becomes another user's has left the one it was.
Leaving ==
  \A c \in open, x \in Users :
    Is(c, x) /\ pc[c] # "idle" /\ ~Working(c, x) => x \in left \union shared

\* The entry in id_conn_ that a login has made is still there when it ends.
Entered ==
  \A c \in open, x \in Users \ (shared \union left) :
    pc[c] = "set_on_close" /\ Working(c, x) => id_conn[x] = c

IInv ==
  /\ misused \subseteq shared
  /\ Threads /\ OneHolder /\ Reachable /\ Leaving /\ Entered /\ TablesAgree

Typed == TypeOK /\ heap \in Seq(Objects)
-----------------------------------------------------------------------------
(* Types *)

\* users_ owns the Users that live, each under the name it was made for.
LEMMA Owned ==
  ASSUME Typed
  PROVE  /\ \A x \in Users :
              /\ users[x] \in 0..Len(heap)
              /\ users[x] # 0 => /\ users[x] \in 1..Len(heap)
                                /\ heap[users[x]].name = x /\ heap[users[x]].live
         /\ \A u \in 1..Len(heap) :
              /\ heap[u] \in Objects /\ heap[u].name \in Users
              /\ heap[u].live => users[heap[u].name] = u
<1>1. /\ Len(heap) \in Nat /\ DOMAIN heap = 1..Len(heap)
      /\ \A u \in 1..Len(heap) : heap[u] \in Objects
  BY DEF Typed
<1>2. ASSUME NEW x \in Users
      PROVE  /\ users[x] \in 0..Len(heap)
             /\ users[x] # 0 => /\ users[x] \in 1..Len(heap)
                               /\ heap[users[x]].name = x /\ heap[users[x]].live
  <2>1. users[x] \in 0..Len(heap)
    BY DEF Typed, TypeOK
  <2>2. ASSUME users[x] # 0 PROVE heap[users[x]].name = x /\ heap[users[x]].live
    <3>1. heap[users[x]] = [name |-> x, live |-> TRUE]
      BY <2>2 DEF Typed, TypeOK
    <3> QED
      BY <3>1
  <2> QED
    BY <1>1, <2>1, <2>2
<1>3. \A u \in 1..Len(heap) : heap[u].name \in Users
  BY <1>1 DEF Objects
<1>4. \A u \in 1..Len(heap) : heap[u].live => users[heap[u].name] = u
  BY <1>1 DEF Typed, TypeOK
<1> QED
  BY <1>1, <1>2, <1>3, <1>4

\* Free changes the live bit of one User, and nothing else.
LEMMA FreeOne ==
  ASSUME NEW h \in Seq(Objects), NEW u \in 0..Len(h)
  PROVE  /\ Free(h, u) \in Seq(Objects) /\ Len(Free(h, u)) = Len(h)
         /\ DOMAIN Free(h, u) = 1..Len(h)
         /\ \A v \in 1..Len(h) : Free(h, u)[v] \in Objects
         /\ \A v \in 1..Len(h) :
              /\ Free(h, u)[v].name = h[v].name
              /\ Free(h, u)[v].live <=> h[v].live /\ v # u
<1>1. /\ Len(h) \in Nat /\ DOMAIN h = 1..Len(h)
      /\ \A v \in 1..Len(h) : h[v] \in Objects
  OBVIOUS
<1>2. CASE u = 0
  BY <1>1, <1>2 DEF Free
<1>3. CASE u # 0
  <2>1. Free(h, u) = [h EXCEPT ![u].live = FALSE] /\ u \in 1..Len(h)
    BY <1>1, <1>3 DEF Free
  <2>2. \A v \in 1..Len(h) :
          Free(h, u)[v] = IF v = u THEN [h[v] EXCEPT !.live = FALSE] ELSE h[v]
    BY <1>1, <2>1
  <2>3. \A v \in 1..Len(h) :
          /\ Free(h, u)[v] \in Objects
          /\ Free(h, u)[v].name = h[v].name
          /\ Free(h, u)[v].live <=> h[v].live /\ v # u
    BY <1>1, <2>2 DEF Objects
  <2>4. DOMAIN Free(h, u) = 1..Len(h)
    BY <1>1, <2>1
  <2>5. Free(h, u) \in [1..Len(h) -> Objects]
    BY <1>1, <2>1, <2>3, <2>4
  <2> QED
    BY <1>1, <2>3, <2>5
<1> QED
  BY <1>2, <1>3

\* What AddUser leaves on the heap.
LEMMA Added ==
  ASSUME Typed, NEW c \in Conns, AddUser(c), NEW x \in Users, name[c] = {x}
  PROVE  /\ heap' \in Seq(Objects) /\ Len(heap') = Len(heap) + 1
         /\ DOMAIN heap' = 1..(Len(heap) + 1)
         /\ \A v \in 1..(Len(heap) + 1) : heap'[v] \in Objects
         /\ heap'[Len(heap) + 1] = [name |-> x, live |-> TRUE]
         /\ \A v \in 1..Len(heap) :
              /\ heap'[v].name = heap[v].name
              /\ heap'[v].live <=> heap[v].live /\ v # users[x]
         /\ users' = [users EXCEPT ![x] = Len(heap) + 1]
         /\ new' = [new EXCEPT ![c] = Len(heap) + 1]
<1> DEFINE h == Free(heap, users[x])
           o == [name |-> x, live |-> TRUE]
<1>1. heap \in Seq(Objects) /\ users[x] \in 0..Len(heap)
  BY DEF Typed, TypeOK
<1>2. /\ h \in Seq(Objects) /\ Len(h) = Len(heap)
      /\ \A v \in 1..Len(heap) :
           /\ h[v].name = heap[v].name
           /\ h[v].live <=> heap[v].live /\ v # users[x]
  BY <1>1, FreeOne
<1>3. /\ heap' = Append(h, o) /\ users' = [users EXCEPT ![x] = Len(heap')]
      /\ new' = [new EXCEPT ![c] = Len(heap')]
  BY DEF AddUser
<1>4. o \in Objects
  BY DEF Objects
<1> HIDE DEF h, o
<1>5. /\ Append(h, o) \in Seq(Objects) /\ Len(Append(h, o)) = Len(h) + 1
      /\ DOMAIN Append(h, o) = 1..(Len(h) + 1)
      /\ \A v \in 1..(Len(h) + 1) : Append(h, o)[v] \in Objects
      /\ Append(h, o)[Len(h) + 1] = o
      /\ \A v \in 1..Len(h) : Append(h, o)[v] = h[v]
  BY <1>2, <1>4
<1> QED
  BY <1>2, <1>3, <1>5 DEF o

\* What RemoveUser leaves there.
LEMMA Removed ==
  ASSUME Typed, NEW c \in Conns, RemoveUser(c), NEW x \in Users, name[c] = {x}
  PROVE  /\ heap' \in Seq(Objects) /\ Len(heap') = Len(heap)
         /\ DOMAIN heap' = 1..Len(heap)
         /\ \A v \in 1..Len(heap) : heap'[v] \in Objects
         /\ \A v \in 1..Len(heap) :
              /\ heap'[v].name = heap[v].name
              /\ heap'[v].live <=> heap[v].live /\ v # users[x]
         /\ users' = [users EXCEPT ![x] = 0]
<1>1. heap \in Seq(Objects) /\ users[x] \in 0..Len(heap)
  BY DEF Typed, TypeOK
<1>2. heap' = Free(heap, users[x]) /\ users' = [users EXCEPT ![x] = 0]
  BY DEF RemoveUser, Erased
<1> QED
  BY <1>1, <1>2, FreeOne

LEMMA TypeStep ==
  ASSUME Typed, Threads, [Next]_vars PROVE Typed'
<1>0. TypeOK /\ heap \in Seq(Objects) /\ Len(heap) \in Nat /\ DOMAIN heap = 1..Len(heap)
  BY DEF Typed
<1> USE DEF tables, thread
<1>1. ASSUME NEW c \in Conns, NEW x \in Users, Login(c, x) PROVE Typed'
  BY <1>0, <1>1 DEF Login, Begin, TypeOK, Typed
<1>2. ASSUME NEW c \in Conns, AddUser(c) PROVE Typed'
  <2>1. PICK x \in Users : name[c] = {x}
    BY <1>2 DEF AddUser, Threads
  <2>2. /\ heap' \in Seq(Objects) /\ Len(heap') = Len(heap) + 1
        /\ DOMAIN heap' = 1..(Len(heap) + 1)
        /\ \A v \in 1..(Len(heap) + 1) : heap'[v] \in Objects
        /\ heap'[Len(heap) + 1] = [name |-> x, live |-> TRUE]
        /\ \A v \in 1..Len(heap) :
             /\ heap'[v].name = heap[v].name
             /\ heap'[v].live <=> heap[v].live /\ v # users[x]
        /\ users' = [users EXCEPT ![x] = Len(heap) + 1]
        /\ new' = [new EXCEPT ![c] = Len(heap) + 1]
    BY <1>2, <2>1, Added
  <2>4. users' \in [Users -> 0..Len(heap')]
    BY <1>0, <2>2 DEF TypeOK
  <2>5. \A y \in Users : users'[y] # 0 => heap'[users'[y]] = [name |-> y, live |-> TRUE]
    <3> SUFFICES ASSUME NEW y \in Users, users'[y] # 0
                 PROVE  heap'[users'[y]] = [name |-> y, live |-> TRUE]
      OBVIOUS
    <3>1. CASE y = x
      <4>1. users'[y] = Len(heap) + 1
        BY <2>2, <3>1 DEF Typed, TypeOK
      <4> QED
        BY <2>2, <3>1, <4>1
    <3>2. CASE y # x
      <4>1. users'[y] = users[y] /\ users[y] \in 1..Len(heap)
        BY <2>2, <3>2, Owned DEF Typed, TypeOK
      <4>2. users[y] # users[x]
        BY <3>2, <4>1, Owned
      <4>3. /\ heap'[users[y]] \in Objects
            /\ heap'[users[y]].name = y /\ heap'[users[y]].live
        BY <1>0, <2>2, <4>1, <4>2, Owned
      <4> QED
        BY <4>1, <4>3 DEF Objects
    <3> QED
      BY <3>1, <3>2
  <2>6. \A u \in 1..(Len(heap) + 1) : heap'[u].live => users'[heap'[u].name] = u
    <3> SUFFICES ASSUME NEW u \in 1..(Len(heap) + 1), heap'[u].live
                 PROVE  users'[heap'[u].name] = u
      OBVIOUS
    <3>1. CASE u = Len(heap) + 1
      BY <2>2, <3>1 DEF Typed, TypeOK
    <3>2. CASE u # Len(heap) + 1
      <4>1. u \in 1..Len(heap) /\ heap[u].live /\ u # users[x]
        BY <1>0, <2>2, <3>2
      <4>2. heap'[u].name = heap[u].name
        BY <2>2, <4>1
      <4>3. /\ heap[u].name \in Users /\ users[heap[u].name] = u
            /\ heap[u].name # x
        BY <4>1, Owned
      <4> QED
        BY <2>2, <4>2, <4>3 DEF Typed, TypeOK
    <3> QED
      BY <3>1, <3>2
  <2>7. new' \in [Conns -> 0..Len(heap')] /\ user' \in [Conns -> 0..Len(heap')]
    BY <1>0, <1>2, <2>2 DEF AddUser, TypeOK
  <2> QED
    BY <1>0, <1>2, <2>2, <2>4, <2>5, <2>6, <2>7
       DEF AddUser, Goto, TypeOK, Typed, Objects
<1>3. ASSUME NEW c \in Conns, SetUser(c) PROVE Typed'
  <2>1. new[c] \in 1..Len(heap) /\ heap[new[c]].name \in Users
    BY <1>0, <1>3 DEF SetUser, Threads, TypeOK
  <2> QED
    BY <1>0, <1>3, <2>1 DEF SetUser, Goto, Use, TypeOK, Typed
<1>4. ASSUME NEW c \in Conns, AddConn(c) PROVE Typed'
  BY <1>0, <1>4 DEF AddConn, Goto, TypeOK, Typed
<1>5. ASSUME NEW c \in Conns, SetOnClose(c) PROVE Typed'
  BY <1>0, <1>5 DEF SetOnClose, End, TypeOK, Typed
<1>6. ASSUME NEW c \in Conns, Logout(c) PROVE Typed'
  <2>1. heap[user[c]].name \in Users
    BY <1>0, <1>6 DEF Logout, LoggedIn, TypeOK
  <2> QED
    BY <1>0, <1>6, <2>1 DEF Logout, Begin, Use, TypeOK, Typed
<1>7. ASSUME NEW c \in Conns, RemoveUser(c) PROVE Typed'
  <2>1. PICK x \in Users : name[c] = {x}
    BY <1>7 DEF RemoveUser, Threads
  <2>2. /\ heap' \in Seq(Objects) /\ Len(heap') = Len(heap)
        /\ DOMAIN heap' = 1..Len(heap)
        /\ \A v \in 1..Len(heap) : heap'[v] \in Objects
        /\ \A v \in 1..Len(heap) :
             /\ heap'[v].name = heap[v].name
             /\ heap'[v].live <=> heap[v].live /\ v # users[x]
        /\ users' = [users EXCEPT ![x] = 0]
    BY <1>7, <2>1, Removed
  <2>4. \A y \in Users : users'[y] # 0 => heap'[users'[y]] = [name |-> y, live |-> TRUE]
    <3> SUFFICES ASSUME NEW y \in Users, users'[y] # 0
                 PROVE  heap'[users'[y]] = [name |-> y, live |-> TRUE]
      OBVIOUS
    <3>1. y # x /\ users'[y] = users[y] /\ users[y] \in 1..Len(heap)
      BY <2>2, Owned DEF Typed, TypeOK
    <3>2. users[y] # users[x]
      BY <3>1, Owned
    <3>3. /\ heap'[users[y]] \in Objects
          /\ heap'[users[y]].name = y /\ heap'[users[y]].live
      BY <2>2, <3>1, <3>2, Owned
    <3> QED
      BY <3>1, <3>3 DEF Objects
  <2>5. \A u \in 1..Len(heap) : heap'[u].live => users'[heap'[u].name] = u
    <3> SUFFICES ASSUME NEW u \in 1..Len(heap), heap'[u].live
                 PROVE  users'[heap'[u].name] = u
      OBVIOUS
    <3>1. heap[u].live /\ u # users[x] /\ heap'[u].name = heap[u].name
      BY <2>2
    <3>2. /\ heap[u].name \in Users /\ users[heap[u].name] = u
          /\ heap[u].name # x
      BY <3>1, Owned
    <3> QED
      BY <2>2, <3>1, <3>2 DEF Typed, TypeOK
  <2> QED
    BY <1>0, <1>7, <2>2, <2>4, <2>5 DEF RemoveUser, Goto, TypeOK, Typed, Objects
<1>8. ASSUME NEW c \in Conns, RemoveConn(c) PROVE Typed'
  BY <1>0, <1>8 DEF RemoveConn, End, WithoutConn, WithoutUser, TypeOK, Typed
<1>9. ASSUME NEW c \in Conns, GetRecentMsgs(c) PROVE Typed'
  <2>1. heap[user[c]].name \in Users
    BY <1>0, <1>9 DEF GetRecentMsgs, LoggedIn, TypeOK
  <2> QED
    BY <1>0, <1>9, <2>1 DEF GetRecentMsgs, Use, TypeOK, Typed
<1>10. ASSUME NEW c \in Conns, Close(c) PROVE Typed'
  BY <1>0, <1>10 DEF Close, TypeOK, Typed
<1>11. CASE UNCHANGED vars
  BY <1>0, <1>11 DEF vars, TypeOK, Typed
<1> QED
  BY <1>1, <1>2, <1>3, <1>4, <1>5, <1>6, <1>7, <1>8, <1>9, <1>10, <1>11
     DEF Next, Handle
-----------------------------------------------------------------------------
(* The steps of a login *)

\* The tables by connection and user, and what the invariants say of them.
LEMMA Shapes ==
  ASSUME Typed
  PROVE  /\ users \in [Users -> Nat] /\ id_conn \in [Users -> Conns \union {NoConn}]
         /\ user \in [Conns -> Nat] /\ new \in [Conns -> Nat]
         /\ open \subseteq Conns /\ name \in [Conns -> SUBSET Users]
         /\ pc \in [Conns -> {"idle", "add_user", "set_user", "add_conn",
                              "set_on_close", "remove_user", "remove_conn"}]
         /\ \A c \in Conns :
              /\ user[c] # 0 => user[c] \in 1..Len(heap) /\ heap[user[c]].name \in Users
              /\ new[c] # 0 => new[c] \in 1..Len(heap) /\ heap[new[c]].name \in Users
<1>1. Len(heap) \in Nat
  BY DEF Typed
<1> QED
  BY <1>1, Owned DEF Typed, TypeOK

\* A login that meets the user on another connection makes the user a shared one;
\* the user the connection was is left.
LEMMA LoginStep ==
  ASSUME Typed, IInv, NEW c \in Conns, NEW x \in Users, Login(c, x)
  PROVE  IInv'
<1>1. /\ c \in open /\ pc[c] = "idle"
      /\ pc' = [pc EXCEPT ![c] = "add_user"] /\ name' = [name EXCEPT ![c] = {x}]
      /\ UNCHANGED <<heap, users, id_conn, user, open, new, misused>>
      /\ shared \subseteq shared'
      /\ x \notin shared' => \A d \in open \ {c} : ~Holds(d, x)
      /\ left' = (left \ {x}) \union {y \in Users \ {x} : Is(c, y)}
  BY DEF Login, Begin, tables, Holds
<1>2. \A d \in Conns, y \in Users :
        /\ Is(d, y)' <=> Is(d, y)
        /\ d # c => (Working(d, y)' <=> Working(d, y))
        /\ Working(c, y)' <=> y = x
        /\ ~Working(c, y)
  BY <1>1, Shapes DEF Is, Working
<1>3. misused' \subseteq shared'
  BY <1>1 DEF IInv
<1>4. Threads'
  BY <1>1, Shapes DEF IInv, Threads
<1>5. OneHolder'
  BY <1>1, <1>2, Shapes DEF IInv, OneHolder, Holds
<1>6. Reachable'
  <2>1. \A u : Usable(u) => Usable(u)'
    BY <1>1 DEF Usable
  <2> QED
    BY <1>1, Shapes DEF IInv, Reachable, Usable
<1>7. Leaving'
  <2> SUFFICES ASSUME NEW d \in open, NEW y \in Users,
                      Is(d, y), pc'[d] # "idle", ~Working(d, y)', y \notin shared'
               PROVE  y \in left'
    BY <1>1, <1>2, Shapes DEF Leaving
  <2>1. CASE d = c
    BY <1>1, <1>2, <2>1 
  <2>2. CASE d # c
    <3>1. y \in left
      BY <1>1, <1>2, <2>2, Shapes DEF IInv, Leaving
    <3>2. y # x
      BY <1>1, <2>2 DEF Holds
    <3> QED
      BY <1>1, <3>1, <3>2
  <2> QED
    BY <2>1, <2>2
<1>8. Entered'
  <2> SUFFICES ASSUME NEW d \in open, NEW y \in Users \ (shared' \union left'),
                      pc'[d] = "set_on_close", Working(d, y)'
               PROVE  id_conn[y] = d
    BY <1>1 DEF Entered
  <2>1. d # c /\ pc[d] = pc'[d] /\ Working(d, y)
    BY <1>1, <1>2, Shapes
  <2>2. y # x
    BY <1>1, <2>1 DEF Holds
  <2>3. y \notin shared \union left
    BY <1>1, <2>2
  <2> QED
    BY <2>1, <2>3 DEF IInv, Entered
<1>9. TablesAgree'
  <2> SUFFICES ASSUME NEW y \in Users \ (shared' \union left'),
                      \A d \in open : ~Working(d, y)'
               PROVE  \A d \in open : /\ id_conn[y] = d <=> Is(d, y)
                                      /\ Is(d, y) => users[y] = user[d]
    BY <1>1, <1>2, Shapes DEF TablesAgree
  <2>1. y # x /\ y \notin shared \union left
    BY <1>1, <1>2
  <2>2. \A d \in open : ~Working(d, y)
    BY <1>2, Shapes
  <2> QED
    BY <2>1, <2>2 DEF IInv, TablesAgree
<1> QED
  BY <1>3, <1>4, <1>5, <1>6, <1>7, <1>8, <1>9 DEF IInv

\* AddUser frees the User that the same connection had, or one that is shared.
LEMMA AddUserStep ==
  ASSUME Typed, IInv, NEW c \in Conns, AddUser(c) PROVE IInv'
<1>1. PICK x \in Users : name[c] = {x} /\ c \in open
  BY DEF AddUser, IInv, Threads
<1>2. /\ Len(heap) \in Nat
      /\ heap'[Len(heap) + 1] = [name |-> x, live |-> TRUE]
      /\ \A v \in 1..Len(heap) :
           /\ heap'[v].name = heap[v].name
           /\ heap'[v].live <=> heap[v].live /\ v # users[x]
      /\ users' = [users EXCEPT ![x] = Len(heap) + 1]
      /\ new' = [new EXCEPT ![c] = Len(heap) + 1]
  BY <1>1, Added DEF Typed
<1>3. /\ pc[c] = "add_user" /\ pc' = [pc EXCEPT ![c] = "set_user"]
      /\ UNCHANGED <<id_conn, user, open, name, shared, left, misused>>
  BY DEF AddUser, Goto
<1>4. \A d \in Conns, y \in Users :
        /\ Is(d, y)' <=> Is(d, y)
        /\ Working(d, y)' <=> Working(d, y)
  BY <1>1, <1>2, <1>3, Shapes DEF Is, Working
<1>5. Working(c, x)
  BY <1>1, <1>3 DEF Working
<1>6. Threads'
  <2> SUFFICES ASSUME NEW d \in Conns
               PROVE  /\ pc'[d] # "idle" => d \in open /\ \E y \in Users : name[d] = {y}
                      /\ pc'[d] = "set_user" =>
                           new'[d] # 0 /\ name[d] = {heap'[new'[d]].name}
                      /\ pc'[d] \in {"add_conn", "set_on_close", "remove_user", "remove_conn"} =>
                           user[d] # 0 /\ name[d] = {heap'[user[d]].name}
    BY <1>3 DEF Threads
  <2>1. CASE d = c
    <3>1. new'[c] = Len(heap) + 1 /\ pc'[c] = "set_user"
      BY <1>2, <1>3, Shapes
    <3> QED
      BY <1>1, <1>2, <2>1, <3>1
  <2>2. CASE d # c
    <3>1. new'[d] = new[d] /\ pc'[d] = pc[d]
      BY <1>2, <1>3, <2>2, Shapes
    <3>2. /\ pc[d] # "idle" => d \in open /\ \E y \in Users : name[d] = {y}
          /\ pc[d] = "set_user" => new[d] # 0 /\ name[d] = {heap[new[d]].name}
          /\ pc[d] \in {"add_conn", "set_on_close", "remove_user", "remove_conn"} =>
               user[d] # 0 /\ name[d] = {heap[user[d]].name}
      BY DEF IInv, Threads
    <3>3. /\ new[d] # 0 => heap'[new[d]].name = heap[new[d]].name
          /\ user[d] # 0 => heap'[user[d]].name = heap[user[d]].name
      BY <1>2, Shapes
    <3> QED
      BY <3>1, <3>2, <3>3
  <2> QED
    BY <2>1, <2>2
<1>7. OneHolder'
  BY <1>3, <1>4, Shapes DEF IInv, OneHolder, Holds
<1>8. Reachable'
  <2> DEFINE Fine(u) == heap'[u].live \/ heap'[u].name \in shared
  <2> SUFFICES ASSUME NEW d \in open
               PROVE  /\ user[d] # 0 /\ pc'[d] \notin {"set_user", "remove_conn"} =>
                           Fine(user[d])
                      /\ pc'[d] = "set_user" => Fine(new'[d])
    BY <1>3 DEF Reachable, Usable
  <2>1. CASE d = c
    <3>1. new'[c] = Len(heap) + 1 /\ pc'[c] = "set_user"
      BY <1>2, <1>3, Shapes
    <3> QED
      BY <1>2, <2>1, <3>1
  <2>2. CASE d # c
    <3>1. pc'[d] = pc[d] /\ new'[d] = new[d] /\ d \in Conns
      BY <1>2, <1>3, <2>2, Shapes
    <3>2. ASSUME NEW u \in 1..Len(heap), Usable(u), heap[u].name = x => Holds(d, x)
          PROVE  Fine(u)
      <4>1. CASE u = users[x]
        <5>1. heap[u].name = x
          BY <4>1, Owned
        <5>2. x \in shared
          BY <1>1, <1>5, <2>2, <3>2, <5>1 DEF IInv, OneHolder, Holds
        <5> QED
          BY <1>2, <5>1, <5>2
      <4>2. CASE u # users[x]
        BY <1>2, <3>2, <4>2 DEF Usable
      <4> QED
        BY <4>1, <4>2
    <3>3. ASSUME user[d] # 0, pc[d] \notin {"set_user", "remove_conn"}
          PROVE  Fine(user[d])
      <4>1. user[d] \in 1..Len(heap) /\ Usable(user[d])
        BY <3>1, <3>3, Shapes DEF IInv, Reachable
      <4>2. heap[user[d]].name = x => Holds(d, x)
        BY <3>3 DEF Holds, Is
      <4> QED
        BY <3>2, <4>1, <4>2
    <3>4. ASSUME pc[d] = "set_user" PROVE Fine(new[d])
      <4>1. new[d] \in 1..Len(heap) /\ Usable(new[d])
        BY <3>1, <3>4, Shapes DEF IInv, Reachable, Threads
      <4>2. heap[new[d]].name = x => Holds(d, x)
        BY <3>1, <3>4 DEF Holds, Working, IInv, Threads
      <4> QED
        BY <3>2, <4>1, <4>2
    <3> QED
      BY <3>1, <3>3, <3>4
  <2> QED
    BY <2>1, <2>2
<1>9. Leaving'
  BY <1>3, <1>4, Shapes DEF IInv, Leaving
<1>10. Entered'
  BY <1>3, <1>4, Shapes DEF IInv, Entered
<1>11. TablesAgree'
  <2> SUFFICES ASSUME NEW y \in Users \ (shared \union left),
                      \A d \in open : ~Working(d, y)
               PROVE  \A d \in open : /\ id_conn[y] = d <=> Is(d, y)
                                      /\ Is(d, y) => users'[y] = user[d]
    BY <1>3, <1>4, Shapes DEF TablesAgree
  <2>1. y # x
    BY <1>1, <1>5
  <2>2. users'[y] = users[y]
    BY <1>2, <2>1, Shapes
  <2> QED
    BY <2>2 DEF IInv, TablesAgree
<1> QED
  BY <1>3, <1>6, <1>7, <1>8, <1>9, <1>10, <1>11 DEF IInv

\* SetUser makes the connection's requests the new user's.
LEMMA SetUserStep ==
  ASSUME Typed, IInv, NEW c \in Conns, SetUser(c) PROVE IInv'
<1>1. /\ pc[c] = "set_user" /\ pc' = [pc EXCEPT ![c] = "add_conn"]
      /\ user' = [user EXCEPT ![c] = new[c]] /\ new' = [new EXCEPT ![c] = 0]
      /\ UNCHANGED <<heap, users, id_conn, open, name, shared, left>>
  BY DEF SetUser, Goto, tables
<1>2. PICK x \in Users : /\ c \in open /\ name[c] = {x}
                         /\ new[c] \in 1..Len(heap) /\ heap[new[c]].name = x
  BY <1>1, Shapes DEF IInv, Threads
<1>3. Working(c, x) /\ Usable(new[c])
  BY <1>1, <1>2 DEF Working, IInv, Reachable
<1>4. \A d \in Conns, y \in Users :
        /\ d # c => (Is(d, y)' <=> Is(d, y))
        /\ Is(c, y)' <=> y = x
        /\ Working(d, y)' <=> Working(d, y)
        /\ Working(c, y) <=> y = x
  <2>1. ASSUME NEW d \in Conns, NEW y \in Users
        PROVE  /\ d # c => (Is(d, y)' <=> Is(d, y))
               /\ Working(d, y)' <=> Working(d, y)
    BY <1>1, Shapes DEF Is, Working
  <2>2. user'[c] = new[c] /\ new[c] # 0
    BY <1>1, <1>2, Shapes
  <2>3. \A y \in Users : (Is(c, y)' <=> y = x) /\ (Working(c, y) <=> y = x)
    BY <1>1, <1>2, <2>2 DEF Is, Working
  <2> QED
    BY <2>1, <2>3
<1>5. misused' \subseteq shared'
  BY <1>1, <1>2, <1>3 DEF SetUser, Use, Usable, IInv
<1>6. Threads'
  BY <1>1, <1>2, Shapes DEF IInv, Threads
<1>7. OneHolder'
  BY <1>1, <1>3, <1>4, Shapes DEF IInv, OneHolder, Holds
<1>8. Reachable'
  <2>1. \A u : Usable(u) => Usable(u)'
    BY <1>1 DEF Usable
  <2>2. user'[c] = new[c] /\ \A d \in Conns \ {c} : user'[d] = user[d] /\ new'[d] = new[d]
    BY <1>1, Shapes
  <2> QED
    BY <1>1, <1>3, <2>1, <2>2, Shapes DEF IInv, Reachable, Usable
<1>9. Leaving'
  BY <1>1, <1>4, Shapes DEF IInv, Leaving
<1>10. Entered'
  BY <1>1, <1>4, Shapes DEF IInv, Entered
<1>11. TablesAgree'
  <2> SUFFICES ASSUME NEW y \in Users \ (shared \union left),
                      \A d \in open : ~Working(d, y)
               PROVE  \A d \in open : /\ id_conn[y] = d <=> Is(d, y)'
                                      /\ Is(d, y)' => users[y] = user'[d]
    BY <1>1, <1>4, Shapes DEF TablesAgree
  <2>1. y # x /\ ~Is(c, y)
    BY <1>1, <1>2, <1>3 DEF IInv, Leaving
  <2>2. \A d \in open : Is(d, y)' <=> Is(d, y)
    BY <1>4, <2>1, Shapes
  <2>3. \A d \in open : Is(d, y) => user'[d] = user[d]
    BY <1>1, <2>1, Shapes
  <2> QED
    BY <2>2, <2>3 DEF IInv, TablesAgree
<1> QED
  BY <1>5, <1>6, <1>7, <1>8, <1>9, <1>10, <1>11 DEF IInv

\* AddConn enters the connection, which is the user's already.
LEMMA AddConnStep ==
  ASSUME Typed, IInv, NEW c \in Conns, AddConn(c) PROVE IInv'
<1>1. /\ pc[c] = "add_conn" /\ pc' = [pc EXCEPT ![c] = "set_on_close"]
      /\ UNCHANGED <<heap, users, user, open, new, name, shared, left, misused>>
  BY DEF AddConn, Goto
<1>2. PICK x \in Users : /\ c \in open /\ name[c] = {x} /\ heap[user[c]].name = x
                         /\ user[c] # 0
  BY <1>1 DEF IInv, Threads
<1>3. Working(c, x) /\ id_conn' = [id_conn EXCEPT ![x] = c]
  BY <1>1, <1>2 DEF Working, AddConn
<1>4. \A d \in Conns, y \in Users :
        /\ Is(d, y)' <=> Is(d, y)
        /\ Working(d, y)' <=> Working(d, y)
        /\ Working(c, y) => y = x
  BY <1>1, <1>2, Shapes DEF Is, Working
<1>5. Threads'
  BY <1>1, <1>2, Shapes DEF IInv, Threads
<1>6. OneHolder'
  BY <1>1, <1>4, Shapes DEF IInv, OneHolder, Holds
<1>7. Reachable'
  <2>1. \A u : Usable(u) => Usable(u)'
    BY <1>1 DEF Usable
  <2> QED
    BY <1>1, <2>1, Shapes DEF IInv, Reachable, Usable
<1>8. Leaving'
  BY <1>1, <1>4, Shapes DEF IInv, Leaving
<1>9. Entered'
  <2> SUFFICES ASSUME NEW d \in open, NEW y \in Users \ (shared \union left),
                      pc'[d] = "set_on_close", Working(d, y)
               PROVE  id_conn'[y] = d
    BY <1>1, <1>4, Shapes DEF Entered
  <2>1. CASE d = c
    BY <1>2, <1>3, <1>4, <2>1, Shapes
  <2>2. CASE d # c
    <3>1. y # x
      BY <1>2, <1>3, <2>2 DEF IInv, OneHolder, Holds
    <3> QED
      BY <1>1, <1>3, <2>2, <3>1, Shapes DEF IInv, Entered
  <2> QED
    BY <2>1, <2>2
<1>10. TablesAgree'
  <2> SUFFICES ASSUME NEW y \in Users \ (shared \union left),
                      \A d \in open : ~Working(d, y)
               PROVE  \A d \in open : /\ id_conn'[y] = d <=> Is(d, y)
                                      /\ Is(d, y) => users[y] = user[d]
    BY <1>1, <1>4, Shapes DEF TablesAgree
  <2>1. y # x
    BY <1>2, <1>3
  <2>2. id_conn'[y] = id_conn[y]
    BY <1>3, <2>1, Shapes
  <2> QED
    BY <2>2 DEF IInv, TablesAgree
<1> QED
  BY <1>1, <1>5, <1>6, <1>7, <1>8, <1>9, <1>10 DEF IInv

\* The last step of a login: from here on the tables have to agree.
LEMMA SetOnCloseStep ==
  ASSUME Typed, IInv, NEW c \in Conns, SetOnClose(c) PROVE IInv'
<1>1. /\ pc[c] = "set_on_close" /\ pc' = [pc EXCEPT ![c] = "idle"]
      /\ name' = [name EXCEPT ![c] = {}]
      /\ UNCHANGED <<heap, users, id_conn, user, open, new, shared, left, misused>>
  BY DEF SetOnClose, End
<1>2. PICK x \in Users : /\ c \in open /\ name[c] = {x}
                         /\ user[c] # 0 /\ heap[user[c]].name = x
  BY <1>1 DEF IInv, Threads
<1>3. Working(c, x) /\ Is(c, x)
  BY <1>1, <1>2 DEF Working, Is
<1>4. \A d \in Conns, y \in Users :
        /\ Is(d, y)' <=> Is(d, y)
        /\ d # c => (Working(d, y)' <=> Working(d, y))
        /\ ~Working(c, y)'
        /\ Working(c, y) => y = x
        /\ Is(c, y) => y = x
  BY <1>1, <1>2, Shapes DEF Is, Working
<1>5. Threads'
  BY <1>1, Shapes DEF IInv, Threads
<1>6. OneHolder'
  BY <1>1, <1>4, Shapes DEF IInv, OneHolder, Holds
<1>7. Reachable'
  <2>1. \A u : Usable(u) => Usable(u)'
    BY <1>1 DEF Usable
  <2> QED
    BY <1>1, <2>1, Shapes DEF IInv, Reachable, Usable
<1>8. Leaving'
  BY <1>1, <1>4, Shapes DEF IInv, Leaving
<1>9. Entered'
  BY <1>1, <1>4, Shapes DEF IInv, Entered
<1>10. TablesAgree'
  <2> SUFFICES ASSUME NEW y \in Users \ (shared \union left),
                      \A d \in open : ~Working(d, y)', NEW d \in open
               PROVE  /\ id_conn[y] = d <=> Is(d, y)
                      /\ Is(d, y) => users[y] = user[d]
    BY <1>1, <1>4, Shapes DEF TablesAgree
  <2>1. CASE y # x
    <3>1. \A e \in open : ~Working(e, y)
      BY <1>4, <2>1, Shapes
    <3> QED
      BY <3>1 DEF IInv, TablesAgree
  <2>2. CASE y = x
    <3>1. id_conn[x] = c
      BY <1>1, <1>2, <1>3, <2>2 DEF IInv, Entered
    <3>2. Is(d, x) => d = c
      BY <1>2, <1>3, <2>2 DEF IInv, OneHolder, Holds
    <3>3. heap[user[c]].live
      BY <1>1, <1>2, <2>2 DEF IInv, Reachable, Usable
    <3>4. users[x] = user[c]
      BY <1>2, <3>3, Shapes, Owned
    <3> QED
      BY <1>3, <2>2, <3>1, <3>2, <3>4
  <2> QED
    BY <2>1, <2>2
<1> QED
  BY <1>1, <1>5, <1>6, <1>7, <1>8, <1>9, <1>10 DEF IInv
-----------------------------------------------------------------------------
(* The steps of a logout, reads and closing *)

\* Logout starts where the connection is the user's, so the user is not left.
LEMMA LogoutStep ==
  ASSUME Typed, IInv, NEW c \in Conns, Logout(c) PROVE IInv'
<1>1. PICK x \in Users :
        /\ c \in open /\ pc[c] = "idle" /\ user[c] # 0 /\ heap[user[c]].name = x
        /\ pc' = [pc EXCEPT ![c] = "remove_user"] /\ name' = [name EXCEPT ![c] = {x}]
        /\ UNCHANGED <<heap, users, id_conn, user, open, new, shared, left>>
  BY Shapes DEF Logout, LoggedIn, Begin, tables
<1>2. Is(c, x)
  BY <1>1 DEF Is
<1>3. \A d \in Conns, y \in Users :
        /\ Is(d, y)' <=> Is(d, y)
        /\ d # c => (Working(d, y)' <=> Working(d, y))
        /\ ~Working(c, y)
        /\ Working(c, y)' <=> y = x
        /\ Is(c, y) => y = x
  <2>1. ASSUME NEW d \in Conns, NEW y \in Users
        PROVE  /\ Is(d, y)' <=> Is(d, y)
               /\ d # c => (Working(d, y)' <=> Working(d, y))
    BY <1>1, Shapes DEF Is, Working
  <2>2. pc'[c] = "remove_user" /\ name'[c] = {x}
    BY <1>1, Shapes
  <2>3. \A y \in Users : /\ ~Working(c, y) /\ (Working(c, y)' <=> y = x)
                         /\ Is(c, y) => y = x
    BY <1>1, <2>2 DEF Is, Working
  <2> QED
    BY <2>1, <2>3
<1>4. misused' \subseteq shared'
  <2>1. Usable(user[c])
    BY <1>1 DEF IInv, Reachable
  <2> QED
    BY <1>1, <2>1 DEF Logout, Use, Usable, IInv
<1>5. Threads'
  BY <1>1, Shapes DEF IInv, Threads
<1>6. OneHolder'
  BY <1>1, <1>2, <1>3, Shapes DEF IInv, OneHolder, Holds
<1>7. Reachable'
  <2>1. \A u : Usable(u) => Usable(u)'
    BY <1>1 DEF Usable
  <2> QED
    BY <1>1, <2>1, Shapes DEF IInv, Reachable, Usable
<1>8. Leaving'
  BY <1>1, <1>3, Shapes DEF IInv, Leaving
<1>9. Entered'
  BY <1>1, <1>3, Shapes DEF IInv, Entered
<1>10. TablesAgree'
  <2> SUFFICES ASSUME NEW y \in Users \ (shared \union left),
                      \A d \in open : ~Working(d, y)'
               PROVE  \A d \in open : /\ id_conn[y] = d <=> Is(d, y)
                                      /\ Is(d, y) => users[y] = user[d]
    BY <1>1, <1>3, Shapes DEF TablesAgree
  <2>1. \A d \in open : ~Working(d, y)
    BY <1>3, Shapes
  <2> QED
    BY <2>1 DEF IInv, TablesAgree
<1> QED
  BY <1>1, <1>4, <1>5, <1>6, <1>7, <1>8, <1>9, <1>10 DEF IInv

\* RemoveUser frees the connection's own User, or one that is shared.
LEMMA RemoveUserStep ==
  ASSUME Typed, IInv, NEW c \in Conns, RemoveUser(c) PROVE IInv'
<1>1. PICK x \in Users : name[c] = {x} /\ c \in open
  BY DEF RemoveUser, IInv, Threads
<1>2. /\ Len(heap) \in Nat
      /\ \A v \in 1..Len(heap) :
           /\ heap'[v].name = heap[v].name
           /\ heap'[v].live <=> heap[v].live /\ v # users[x]
      /\ users' = [users EXCEPT ![x] = 0]
  BY <1>1, Removed DEF Typed
<1>3. /\ pc[c] = "remove_user" /\ pc' = [pc EXCEPT ![c] = "remove_conn"]
      /\ UNCHANGED <<id_conn, user, open, new, name, shared, left, misused>>
  BY DEF RemoveUser, Goto
<1>4. Working(c, x)
  BY <1>1, <1>3 DEF Working
<1>5. \A d \in Conns, y \in Users :
        /\ Is(d, y)' <=> Is(d, y)
        /\ Working(d, y)' <=> Working(d, y)
  BY <1>1, <1>2, <1>3, Shapes DEF Is, Working
<1>6. Threads' /\ OneHolder'
  <2>1. ASSUME NEW d \in Conns
        PROVE  /\ pc'[d] # "idle" => d \in open /\ \E y \in Users : name[d] = {y}
               /\ pc'[d] = "set_user" =>
                    new[d] # 0 /\ name[d] = {heap'[new[d]].name}
               /\ pc'[d] \in {"add_conn", "set_on_close", "remove_user", "remove_conn"} =>
                    user[d] # 0 /\ name[d] = {heap'[user[d]].name}
    <3>1. /\ pc[d] # "idle" => d \in open /\ \E y \in Users : name[d] = {y}
          /\ pc[d] = "set_user" => new[d] # 0 /\ name[d] = {heap[new[d]].name}
          /\ pc[d] \in {"add_conn", "set_on_close", "remove_user", "remove_conn"} =>
               user[d] # 0 /\ name[d] = {heap[user[d]].name}
      BY DEF IInv, Threads
    <3>2. /\ new[d] # 0 => heap'[new[d]].name = heap[new[d]].name
          /\ user[d] # 0 => heap'[user[d]].name = heap[user[d]].name
      BY <1>2, Shapes
    <3>3. IF d = c THEN pc'[d] = "remove_conn" ELSE pc'[d] = pc[d]
      BY <1>3, Shapes
    <3> QED
      BY <1>3, <3>1, <3>2, <3>3
  <2>2. OneHolder'
    BY <1>3, <1>5, Shapes DEF IInv, OneHolder, Holds
  <2> QED
    BY <1>3, <2>1, <2>2 DEF Threads
<1>7. Reachable'
  <2> DEFINE Fine(u) == heap'[u].live \/ heap'[u].name \in shared
  <2> SUFFICES ASSUME NEW d \in open
               PROVE  /\ user[d] # 0 /\ pc'[d] \notin {"set_user", "remove_conn"} =>
                           Fine(user[d])
                      /\ pc'[d] = "set_user" => Fine(new[d])
    BY <1>3 DEF Reachable, Usable
  <2>1. CASE d = c
    BY <1>3, <2>1, Shapes
  <2>2. CASE d # c
    <3>1. pc'[d] = pc[d] /\ d \in Conns
      BY <1>2, <1>3, <2>2, Shapes
    <3>2. ASSUME NEW u \in 1..Len(heap), Usable(u), heap[u].name = x => Holds(d, x)
          PROVE  Fine(u)
      <4>1. CASE u = users[x]
        <5>1. heap[u].name = x
          BY <4>1, Owned
        <5>2. x \in shared
          BY <1>1, <1>4, <2>2, <3>2, <5>1 DEF IInv, OneHolder, Holds
        <5> QED
          BY <1>2, <5>1, <5>2
      <4>2. CASE u # users[x]
        BY <1>2, <3>2, <4>2 DEF Usable
      <4> QED
        BY <4>1, <4>2
    <3>3. ASSUME user[d] # 0, pc[d] \notin {"set_user", "remove_conn"}
          PROVE  Fine(user[d])
      <4>1. user[d] \in 1..Len(heap) /\ Usable(user[d])
        BY <3>1, <3>3, Shapes DEF IInv, Reachable
      <4>2. heap[user[d]].name = x => Holds(d, x)
        BY <3>3 DEF Holds, Is
      <4> QED
        BY <3>2, <4>1, <4>2
    <3>4. ASSUME pc[d] = "set_user" PROVE Fine(new[d])
      <4>1. new[d] \in 1..Len(heap) /\ Usable(new[d])
        BY <3>1, <3>4, Shapes DEF IInv, Reachable, Threads
      <4>2. heap[new[d]].name = x => Holds(d, x)
        BY <3>1, <3>4 DEF Holds, Working, IInv, Threads
      <4> QED
        BY <3>2, <4>1, <4>2
    <3> QED
      BY <3>1, <3>3, <3>4
  <2> QED
    BY <2>1, <2>2
<1>8. Leaving'
  BY <1>3, <1>5, Shapes DEF IInv, Leaving
<1>9. Entered'
  BY <1>3, <1>5, Shapes DEF IInv, Entered
<1>10. TablesAgree'
  <2> SUFFICES ASSUME NEW y \in Users \ (shared \union left),
                      \A d \in open : ~Working(d, y)
               PROVE  \A d \in open : /\ id_conn[y] = d <=> Is(d, y)
                                      /\ Is(d, y) => users'[y] = user[d]
    BY <1>3, <1>5, Shapes DEF TablesAgree
  <2>1. y # x
    BY <1>1, <1>4
  <2>2. users'[y] = users[y]
    BY <1>2, <2>1, Shapes
  <2> QED
    BY <2>2 DEF IInv, TablesAgree
<1> QED
  BY <1>3, <1>6, <1>7, <1>8, <1>9, <1>10 DEF IInv

\* RemoveConn: no table and no connection speaks of the user any more.
LEMMA RemoveConnStep ==
  ASSUME Typed, IInv, NEW c \in Conns, RemoveConn(c) PROVE IInv'
<1>1. PICK x \in Users :
        /\ c \in open /\ pc[c] = "remove_conn" /\ name[c] = {x}
        /\ user[c] # 0 /\ heap[user[c]].name = x
  BY DEF RemoveConn, IInv, Threads
<1>2. /\ pc' = [pc EXCEPT ![c] = "idle"] /\ name' = [name EXCEPT ![c] = {}]
      /\ id_conn' = [id_conn EXCEPT ![x] = NoConn]
      /\ user' = [user EXCEPT ![c] = 0]
      /\ UNCHANGED <<heap, users, open, new, shared, left, misused>>
  BY <1>1 DEF RemoveConn, End, WithoutConn, WithoutUser
<1>3. Working(c, x) /\ Is(c, x)
  BY <1>1 DEF Working, Is
<1>4. \A d \in Conns, y \in Users :
        /\ d # c => (Is(d, y)' <=> Is(d, y))
        /\ d # c => (Working(d, y)' <=> Working(d, y))
        /\ ~Is(c, y)' /\ ~Working(c, y)'
        /\ Working(c, y) => y = x
        /\ Is(c, y) => y = x
  <2>1. ASSUME NEW d \in Conns, NEW y \in Users, d # c
        PROVE  (Is(d, y)' <=> Is(d, y)) /\ (Working(d, y)' <=> Working(d, y))
    BY <1>2, <2>1, Shapes DEF Is, Working
  <2>2. pc'[c] = "idle" /\ user'[c] = 0
    BY <1>2, Shapes
  <2>3. \A y \in Users : /\ ~Is(c, y)' /\ ~Working(c, y)'
                         /\ Working(c, y) => y = x
                         /\ Is(c, y) => y = x
    BY <1>1, <2>2 DEF Is, Working
  <2> QED
    BY <2>1, <2>3
<1>5. Threads'
  BY <1>2, Shapes DEF IInv, Threads
<1>6. OneHolder'
  BY <1>2, <1>4, Shapes DEF IInv, OneHolder, Holds
<1>7. Reachable'
  <2>1. \A u : Usable(u) => Usable(u)'
    BY <1>2 DEF Usable
  <2> QED
    BY <1>2, <2>1, Shapes DEF IInv, Reachable, Usable
<1>8. Leaving'
  BY <1>2, <1>4, Shapes DEF IInv, Leaving
<1>9. Entered'
  <2> SUFFICES ASSUME NEW d \in open, NEW y \in Users \ (shared \union left),
                      pc'[d] = "set_on_close", Working(d, y)'
               PROVE  id_conn'[y] = d
    BY <1>2 DEF Entered
  <2>1. d # c /\ pc[d] = "set_on_close" /\ Working(d, y)
    BY <1>2, <1>4, Shapes
  <2>2. y # x
    BY <1>1, <1>3, <2>1 DEF IInv, OneHolder, Holds
  <2> QED
    BY <1>2, <2>1, <2>2, Shapes DEF IInv, Entered
<1>10. TablesAgree'
  <2> SUFFICES ASSUME NEW y \in Users \ (shared \union left),
                      \A d \in open : ~Working(d, y)', NEW d \in open
               PROVE  /\ id_conn'[y] = d <=> Is(d, y)'
                      /\ Is(d, y)' => users[y] = user'[d]
    BY <1>2, Shapes DEF TablesAgree
  <2>1. CASE y # x
    <3>1. \A e \in open : ~Working(e, y)
      BY <1>4, <2>1, Shapes
    <3>2. id_conn'[y] = id_conn[y] /\ (Is(d, y)' <=> Is(d, y))
      BY <1>2, <1>4, <2>1, Shapes
    <3>3. Is(d, y)' => user'[d] = user[d]
      BY <1>2, <1>4, Shapes
    <3> QED
      BY <3>1, <3>2, <3>3 DEF IInv, TablesAgree
  <2>2. CASE y = x
    <3>1. ~Is(d, x)'
      <4>1. d # c => ~Is(d, x)
        BY <1>1, <1>3, <2>2 DEF IInv, OneHolder, Holds
      <4> QED
        BY <1>1, <1>4, <4>1, Shapes
    <3>2. id_conn'[x] # d
      BY <1>2, SessionsAssumption, Shapes
    <3> QED
      BY <2>2, <3>1, <3>2
  <2> QED
    BY <2>1, <2>2
<1> QED
  BY <1>2, <1>5, <1>6, <1>7, <1>8, <1>9, <1>10 DEF IInv

\* Reading changes no table, and what goes down leaves them as they are.
LEMMA QuietStep ==
  ASSUME Typed, IInv, NEW c \in Conns, GetRecentMsgs(c) \/ Close(c) PROVE IInv'
<1>1. /\ open' \subseteq open
      /\ \A d \in open \ open' : pc[d] = "idle"
      /\ UNCHANGED <<heap, users, id_conn, user, pc, name, new, shared, left>>
  BY DEF GetRecentMsgs, Close, tables, thread
<1>2. misused' \subseteq shared'
  <2>1. CASE GetRecentMsgs(c)
    <3>1. Usable(user[c])
      BY <2>1 DEF GetRecentMsgs, LoggedIn, IInv, Reachable
    <3> QED
      BY <2>1, <3>1 DEF GetRecentMsgs, Use, Usable, IInv
  <2>2. CASE Close(c)
    BY <2>2 DEF Close, IInv
  <2> QED
    BY <2>1, <2>2
<1>3. \A d, y : /\ Is(d, y)' <=> Is(d, y)
                /\ Working(d, y)' <=> Working(d, y)
                /\ Working(d, y) => pc[d] # "idle"
  BY <1>1 DEF Is, Working
<1>4. Threads'
  BY <1>1 DEF IInv, Threads
<1>5. OneHolder'
  BY <1>1, <1>3 DEF IInv, OneHolder, Holds
<1>6. Reachable'
  BY <1>1 DEF IInv, Reachable, Usable
<1>7. Leaving'
  BY <1>1, <1>3 DEF IInv, Leaving
<1>8. Entered'
  BY <1>1, <1>3 DEF IInv, Entered
<1>9. TablesAgree'
  <2> SUFFICES ASSUME NEW y \in Users \ (shared \union left),
                      \A d \in open' : ~Working(d, y)
               PROVE  \A d \in open' : /\ id_conn[y] = d <=> Is(d, y)
                                       /\ Is(d, y) => users[y] = user[d]
    BY <1>1, <1>3 DEF TablesAgree
  <2>1. \A d \in open : ~Working(d, y)
    BY <1>1, <1>3
  <2> QED
    BY <1>1, <2>1 DEF IInv, TablesAgree
<1> QED
  BY <1>2, <1>4, <1>5, <1>6, <1>7, <1>8, <1>9 DEF IInv
-----------------------------------------------------------------------------
(* Theorems *)

LEMMA Inductive == Spec => [](Typed /\ IInv)
<1>1. ASSUME Init PROVE Typed /\ IInv
  <2>1. Typed
    BY <1>1 DEF Init, Typed, TypeOK
  <2>2. Threads /\ OneHolder /\ Reachable /\ Leaving /\ Entered
    BY <1>1 DEF Init, Threads, OneHolder, Holds, Is, Working, Reachable, Leaving, Entered
  <2>3. TablesAgree
    BY <1>1, SessionsAssumption DEF Init, TablesAgree, Is
  <2> QED
    BY <1>1, <2>1, <2>2, <2>3 DEF Init, IInv
<1>2. ASSUME Typed, IInv, [Next]_vars PROVE Typed' /\ IInv'
  <2>1. Typed'
    BY <1>2, TypeStep DEF IInv
  <2>2. ASSUME NEW c \in Conns, Handle(c) \/ Close(c) PROVE IInv'
    <3>1. CASE \E x \in Users : Login(c, x)
      BY <1>2, <3>1, LoginStep
    <3>2. CASE AddUser(c) \/ SetUser(c)
      BY <1>2, <3>2, AddUserStep, SetUserStep
    <3>3. CASE AddConn(c) \/ SetOnClose(c)
      BY <1>2, <3>3, AddConnStep, SetOnCloseStep
    <3>4. CASE Logout(c) \/ RemoveUser(c) \/ RemoveConn(c)
      BY <1>2, <3>4, LogoutStep, RemoveUserStep, RemoveConnStep
    <3>5. CASE GetRecentMsgs(c) \/ Close(c)
      BY <1>2, <3>5, QuietStep
    <3> QED
      BY <2>2, <3>1, <3>2, <3>3, <3>4, <3>5 DEF Handle
  <2>3. ASSUME UNCHANGED vars PROVE IInv'
    <3>1. UNCHANGED <<heap, users, id_conn, user, open, pc, name, new, shared, left, misused>>
      BY <2>3 DEF vars, tables, thread
    <3>2. (Threads /\ OneHolder /\ Reachable)'
      BY <1>2, <3>1 DEF IInv, Threads, OneHolder, Holds, Is, Working, Reachable, Usable
    <3>3. (Leaving /\ Entered /\ TablesAgree)'
      BY <1>2, <3>1 DEF IInv, Leaving, Entered, TablesAgree, Is, Working
    <3> QED
      BY <1>2, <3>1, <3>2, <3>3 DEF IInv
  <2> QED
    BY <1>2, <2>1, <2>2, <2>3 DEF Next
<1> QED
  BY <1>1, <1>2, PTL DEF Spec

\* Every variable keeps its type; users_ owns exactly the Users that live, each
\* under its own name, so none is deleted twice or lost (AddUser, RemoveUser).
THEOREM Typing == Spec => []TypeOK
<1>1. ASSUME Typed PROVE TypeOK
  BY <1>1 DEF Typed
<1> QED
  BY <1>1, Inductive, PTL

\* The raw pointer user_ of an open connection that waits for a request points to
\* a User that lives, and none is used after it was freed, unless its user has
\* been logged in on two open connections at a time.
THEOREM NoUseOfFreedUser == Spec => []FreedNeedsSecondLogin
<1>1. ASSUME Typed, IInv PROVE FreedNeedsSecondLogin
  BY <1>1 DEF IInv, Reachable, Usable, FreedNeedsSecondLogin
<1> QED
  BY <1>1, Inductive, PTL

\* users_, id_conn_ and user_ agree about a user no handler is working on, unless
\* the user has been shared or left.
THEOREM Agreement == Spec => []TablesAgree
<1>1. ASSUME IInv PROVE TablesAgree
  BY <1>1 DEF IInv
<1> QED
  BY <1>1, Inductive, PTL
-----------------------------------------------------------------------------
(* HttpSession: types *)

LEMMA StreamNumbers == 0 \notin Streams /\ Pushed \notin Streams /\ Pushed # 0
<1>1. 0 % 2 # 1 /\ 2 % 2 # 1
  OBVIOUS
<1> QED
  BY <1>1, HttpSessionAssumption DEF HttpSessionAssumption, Pushed

\* HttpTypeOK of the variables of the session, and of those of its output.
SessionTyped ==
  /\ stage \in {"idle", "parse", "answer", "self", "self taken", "send", "send taken",
               "closed", "undefined"}
  /\ init \in 0..2 /\ handshake \in 0..2 /\ init <= handshake
  /\ current \in Streams \union {0, Pushed} /\ push_id \in Streams \union {0}
  /\ requests \in [Streams -> {"none", "data", "complete"}]
  /\ active \in Streams \union {0}
  /\ active # 0 => requests[active] # "none" \/ active \in answered
  /\ stage \in {"idle", "parse"} => active = 0
  /\ blocked \ {Pushed} \subseteq answered
  /\ {answered, ended, failing, reset, batch, crossed} \subseteq SUBSET Streams
  /\ goaway \in {"no", "due", "sent"}
  /\ stage \notin {"parse", "undefined"} =>
       goaway # "due" /\ (goaway = "no" => failing = {})
  /\ \A s \in reset : requests[s] = "none"
  /\ handled \in [Streams -> {"no", "early", "once", "again"}]
  /\ pushing \in [Pushers -> {"idle", "push", "peek", "take", "queue"}]
  /\ parse_ok \in BOOLEAN /\ mixed \in BOOLEAN

OutputTyped ==
  /\ made \in Nat /\ wire \in Seq(Nat) /\ buffer \in Seq(Nat) /\ message \in Seq(Nat)
  /\ tasks \in Seq(Seq(Nat)) /\ hand \in [Pushers -> Seq(Nat)]

LEMMA TypedInTwo == HttpTypeOK <=> SessionTyped /\ OutputTyped
BY DEF HttpTypeOK, SessionTyped, OutputTyped

\* Only while frames are read is there a stream for nghttp2_session_send to close.
LEMMA ClosingFacts ==
  ASSUME SessionTyped
  PROVE  /\ Closing \subseteq Streams /\ Current \subseteq Streams \union {0, Pushed}
         /\ stage \notin {"parse", "undefined"} => Closing = {}
         /\ Closing = {} => Current = {current}
         /\ Closing # {} => Current = Closing /\ goaway = "no"
BY DEF SessionTyped, Closing, Current

LEMMA FlushTypes ==
  ASSUME SessionTyped, Flush
  PROVE  /\ {failing', reset'} \subseteq SUBSET Streams /\ goaway' \in {"no", "sent"}
         /\ goaway' = "no" => failing' = {} /\ goaway = "no"
         /\ goaway = "no" => goaway' = "no"
         /\ requests' \in [Streams -> {"none", "data", "complete"}]
         /\ \A s \in reset' : requests'[s] = "none"
         /\ \A s \in Closing : requests'[s] = "none" /\ s \in reset'
         /\ \A s \in Streams \ Closing : requests'[s] = requests[s]
         /\ \A s \in Streams \ Closing : s \in reset' => s \in reset
         /\ reset \subseteq reset'
         /\ Closing = {} => requests' = requests /\ reset' = reset
BY ClosingFacts DEF SessionTyped, Flush, Closing

LEMMA HandshakeTypes ==
  ASSUME SessionTyped PROVE HandshakeDone \in 0..2 /\ init <= HandshakeDone
<1>1. init \in 0..2 /\ handshake \in 0..2 /\ init <= handshake
  BY DEF SessionTyped
<1> QED
  BY <1>1 DEF HandshakeDone

\* What Push leaves of the session.
LEMMA PushTypes ==
  ASSUME SessionTyped, Push, stage # "undefined"
  PROVE  /\ Flush
         /\ current' \in Streams \union {0, Pushed}
         /\ crossed' \in SUBSET Streams /\ blocked' \ {Pushed} \subseteq answered
         /\ active # 0 => requests'[active] # "none" \/ active \in answered
<1>1. Flush
  BY DEF Push
<1>2. active # 0 => Closing = {}
  BY ClosingFacts DEF SessionTyped
<1>3. active # 0 => requests'[active] # "none" \/ active \in answered
  BY <1>1, <1>2, FlushTypes DEF SessionTyped
<1>4. /\ current' \in Streams \union {0, Pushed}
      /\ crossed' \in SUBSET Streams /\ blocked' \ {Pushed} \subseteq answered
  BY ClosingFacts DEF SessionTyped, Push
<1> QED
  BY <1>1, <1>3, <1>4

LEMMA SessionTypeStep ==
  ASSUME SessionTyped, [HttpNext]_httpVars PROVE SessionTyped'
<1> USE DEF SessionTyped, client, context, session, output, history
<1>1. CASE UNCHANGED httpVars
  BY <1>1 DEF httpVars
<1>2. CASE OnMessage
  BY <1>2 DEF OnMessage
<1>3. CASE Settings
  BY <1>3 DEF Settings, Reading
<1>4. ASSUME NEW s \in Streams, NEW last \in BOOLEAN, Headers(s, last)
      PROVE  SessionTyped'
  <2>1. s \notin reset
    BY <1>4 DEF Headers, Opened
  <2> QED
    BY <1>4, <2>1 DEF Headers, About, Reading
<1>5. ASSUME NEW s \in Streams, NEW last \in BOOLEAN, Data(s, last)
      PROVE  SessionTyped'
  <2>1. s \notin reset
    BY <1>5 DEF Data, Open
  <2> QED
    BY <1>5, <2>1 DEF Data, About, RemoveStream, Reading
<1>6. ASSUME NEW s \in Streams, Chunk(s) PROVE SessionTyped'
  BY <1>6 DEF Chunk, About, Reading
<1>16. ASSUME NEW s \in Streams, Reset(s) PROVE SessionTyped'
  BY <1>16 DEF Reset, RemoveStream, Reading
<1>17. CASE ResetPromised
  BY <1>17 DEF ResetPromised, Reading
<1>18. ASSUME NEW s \in Streams, StreamError(s) PROVE SessionTyped'
  BY <1>18 DEF StreamError, Reading
<1>19. CASE ConnectionError
  BY <1>19 DEF ConnectionError, Reading
<1>7. CASE ResumeBody
  BY <1>7 DEF ResumeBody, Reading
<1>8. CASE React
  <2>0. /\ stage = "parse" /\ Flush /\ current' \in Current
        /\ blocked' = blocked \ Closing
    BY <1>8 DEF React, ParseRequest
  <2>1. current' \in Streams \union {0, Pushed}
    BY <2>0, ClosingFacts
  <2>4. Handles => current' \in Streams /\ requests'[current'] = "complete"
    BY DEF Handles, GetStatus
  <2>2. /\ handshake' \in 0..2 /\ init <= handshake'
        /\ parse_ok' \in BOOLEAN
    <3>1. handshake' = HandshakeDone /\ parse_ok' \in {parse_ok, FALSE}
      BY <1>8 DEF React, ParseRequest
    <3>2. HandshakeDone \in 0..2 /\ init <= HandshakeDone
      BY HandshakeTypes
    <3>3. parse_ok' \in BOOLEAN
      BY <3>1
    <3> QED
      BY <3>1, <3>2, <3>3
  <2>3. handled' \in [Streams -> {"no", "early", "once", "again"}]
    BY <1>8, <2>4 DEF React, Handled
  <2>5. /\ active' \in Streams \union {0}
        /\ active' # 0 => requests'[active'] # "none"
        /\ stage' \in {"idle", "send", "answer"} /\ (stage' = "idle" => active' = 0)
    BY <1>8, <2>4 DEF React
  <2>6. {batch', crossed'} \subseteq SUBSET Streams
    BY <1>8 DEF React
  <2>7. /\ UNCHANGED <<init, push_id, ended, answered, pushing, mixed>>
    BY <1>8 DEF React
  <2>8. /\ {failing', reset'} \subseteq SUBSET Streams /\ goaway' \in {"no", "sent"}
        /\ goaway' = "no" => failing' = {}
        /\ requests' \in [Streams -> {"none", "data", "complete"}]
        /\ \A s \in reset' : requests'[s] = "none"
    BY <2>0, FlushTypes
  <2>9. parse_ok' \in BOOLEAN /\ mixed' \in BOOLEAN
    BY <2>2, <2>7
  <2>10. /\ init' \in 0..2 /\ handshake' \in 0..2 /\ init' <= handshake'
    BY <2>2, <2>7
  <2>11. /\ active' # 0 => requests'[active'] # "none" \/ active' \in answered'
         /\ stage' \in {"idle", "parse"} => active' = 0
         /\ stage' \notin {"parse", "undefined"} =>
              goaway' # "due" /\ (goaway' = "no" => failing' = {})
    BY <2>5, <2>8
  <2>12. /\ blocked' \ {Pushed} \subseteq answered'
         /\ {answered', ended', failing', reset', batch', crossed'} \subseteq SUBSET Streams
    BY <2>0, <2>6, <2>7, <2>8
  <2> QED
    BY <2>1, <2>3, <2>5, <2>7, <2>8, <2>9, <2>10, <2>11, <2>12
<1>9. CASE PushToSelf
  <2>1. /\ stage = "answer" /\ stage' = "self" /\ Push
        /\ UNCHANGED <<init, handshake, push_id, parse_ok, active, ended, answered,
                       pushing, handled, batch, mixed>>
    BY <1>9 DEF PushToSelf
  <2> QED
    BY <2>1, PushTypes, FlushTypes
<1>10. CASE Answer
  <2>1. CASE GetStatus(Target) # "none" /\ Target \notin answered /\ goaway = "no"
    <3>1. Target \in Streams /\ Target # Pushed /\ Target \notin reset
      BY <2>1, StreamNumbers DEF GetStatus
    <3> QED
      BY <1>10, <2>1, <3>1 DEF Answer, RemoveStream
  <2>2. CASE ~(GetStatus(Target) # "none" /\ Target \notin answered /\ goaway = "no")
    BY <1>10, <2>2 DEF Answer
  <2> QED
    BY <2>1, <2>2
<1>20. CASE Peek
  BY <1>20 DEF Peek
<1>21. CASE SendToSelf
  BY <1>21 DEF SendToSelf, Sends
<1>11. CASE Send
  BY <1>11 DEF Send, Sends
<1>12. CASE SendInLoop
  BY <1>12 DEF SendInLoop
<1>13. ASSUME NEW p \in Pushers, Transport(p) PROVE SessionTyped'
  BY <1>13 DEF Transport
<1>14. ASSUME NEW p \in Pushers, PushMessage(p), stage # "undefined" PROVE SessionTyped'
  <2>1. /\ Push /\ pushing' = [pushing EXCEPT ![p] = "peek"]
        /\ UNCHANGED <<stage, init, handshake, push_id, parse_ok, active, ended, answered,
                       handled, batch, mixed>>
    BY <1>14 DEF PushMessage
  <2>2. pushing' \in [Pushers -> {"idle", "push", "peek", "take", "queue"}]
    BY <2>1
  <2>3. Flush
    BY <1>14, <2>1, PushTypes
  <2>4. /\ {failing', reset'} \subseteq SUBSET Streams /\ goaway' \in {"no", "sent"}
        /\ goaway' = "no" => failing' = {}
        /\ requests' \in [Streams -> {"none", "data", "complete"}]
        /\ \A s \in reset' : requests'[s] = "none"
    BY <2>3, FlushTypes
  <2>5. /\ current' \in Streams \union {0, Pushed}
        /\ crossed' \in SUBSET Streams /\ blocked' \ {Pushed} \subseteq answered
        /\ active # 0 => requests'[active] # "none" \/ active \in answered
    BY <1>14, <2>1, PushTypes
  <2> QED
    BY <2>1, <2>2, <2>4, <2>5
<1>15. ASSUME NEW p \in Pushers, PeekPushed(p) \/ TakePushed(p) \/ QueuePushed(p)
       PROVE  SessionTyped'
  BY <1>15 DEF PeekPushed, TakePushed, QueuePushed
<1> QED
  BY <1>1, <1>2, <1>3, <1>4, <1>5, <1>6, <1>7, <1>8, <1>9, <1>10, <1>11, <1>12,
     <1>13, <1>14, <1>15, <1>16, <1>17, <1>18, <1>19, <1>20, <1>21
     DEF HttpNext, ReadFrame
-----------------------------------------------------------------------------
(* Requests and their answers *)

\* push_id_ is given with the first stream.
Started == current = 0 => push_id = 0

\* The request of a stream that has ended waits for its answer, complete.
Waiting == \A s \in ended \ (answered \union reset) : requests[s] = "complete"

\* The requests that should have been answered.
Owed == ended \ (crossed \union reset \union answered \union {push_id})

\* A request is being handled.
Handling == stage \in {"answer", "self", "self taken"}

\* While a batch is at work one request at most is owed: the current one.
Owing ==
  parse_ok /\ goaway = "no" =>
    /\ stage = "parse" => Owed \subseteq batch \intersect {current}
    /\ Handling => Owed \subseteq {current} \intersect {active}
    /\ stage \in {"idle", "send", "send taken"} => Owed = {}

\* An answer is to a request that has been handled.
Asked ==
  parse_ok =>
    /\ \A s \in answered : handled[s] # "no"
    /\ Handling => /\ active # 0 /\ handled[active] # "no"
                   /\ current \in {active, Pushed}

\* A request that was handled when it had ended is complete no more, or waits for
\* the window, or will not be the current one again.
Settled ==
  \A s \in Streams : handled[s] = "once" =>
    /\ s \in ended
    /\ parse_ok /\ goaway # "sent" /\ current = s =>
         \/ s \in blocked
         \/ IF Handling THEN s \notin answered ELSE requests[s] # "complete"

NoneAgain == \A s \in Streams : handled[s] # "again"

Answers == Started /\ Waiting /\ Owing /\ Asked /\ Settled /\ NoneAgain

\* What keeps Answers.
LEMMA AnswersKept ==
  ASSUME Answers,
         UNCHANGED <<parse_ok, ended, answered, push_id, requests, handled, batch,
                     current, active, crossed, blocked, reset>>,
         goaway' = "no" => goaway = "no", goaway' # "sent" => goaway # "sent",
         Handling' <=> Handling, stage' = "parse" => stage = "parse",
         stage' \in {"idle", "send", "send taken"} => stage \in {"idle", "send", "send taken"}
  PROVE  Answers'
<1>1. Owed' = Owed
  BY DEF Owed
<1>2. Owing'
  BY <1>1 DEF Answers, Owing
<1>3. Asked'
  BY DEF Answers, Asked
<1>4. Settled'
  BY DEF Answers, Settled
<1> QED
  BY <1>2, <1>3, <1>4 DEF Answers, Started, Waiting, NoneAgain

LEMMA AnswersSame ==
  ASSUME Answers,
         UNCHANGED <<stage, parse_ok, ended, answered, push_id, requests, handled, batch,
                     current, active, crossed, blocked, reset, goaway>>
  PROVE  Answers'
BY DEF Answers, Started, Waiting, Owing, Owed, Asked, Settled, NoneAgain, Handling

LEMMA FrameAnswers ==
  ASSUME SessionTyped, Answers, stage = "parse", NEW s \in Streams \ ended,
         NEW last \in BOOLEAN, About(s, last), current' = s,
         UNCHANGED <<stage, parse_ok, answered, handled, blocked, active, reset, goaway>>,
         push_id' = (IF current = 0 THEN s ELSE push_id) \/ push_id' = push_id,
         last /\ s \notin answered => requests'[s] = "complete",
         \A t \in Streams : t # s => requests'[t] = requests[t]
  PROVE  Answers'
<1> USE DEF SessionTyped
<1>0. s # 0 /\ s # Pushed /\ 0 \notin Streams
  BY StreamNumbers
<1>1. Started'
  BY <1>0 DEF Started
<1>2. ended' \subseteq ended \union {s} /\ (s \in ended' => last)
  BY DEF About
<1>3. Waiting'
  BY <1>2 DEF Answers, Waiting
<1>4. ASSUME parse_ok, goaway = "no", NEW t \in Owed' PROVE t \in batch' /\ t = s
  <2>1. /\ t \in ended' /\ t \notin crossed' /\ t \notin answered /\ t # push_id'
        /\ t \notin reset
    BY <1>4 DEF Owed
  <2>2. CASE t = s
    BY <1>2, <2>1, <2>2 DEF About
  <2>3. CASE t # s
    <3>1. t \in ended /\ t \notin crossed /\ t \notin batch
      BY <1>2, <2>1, <2>3 DEF About
    <3>2. t # push_id
      BY <1>0, <2>1, <3>1 DEF Answers, Started
    <3>3. t \in Owed
      BY <2>1, <3>1, <3>2 DEF Owed
    <3> QED
      BY <1>4, <3>1, <3>3 DEF Answers, Owing
  <2> QED
    BY <2>2, <2>3
<1>5. Owing'
  BY <1>4 DEF Owing, Handling
<1>6. Asked'
  BY DEF Answers, Asked, Handling
<1>7. Settled'
  <2> SUFFICES ASSUME NEW t \in Streams, handled[t] = "once"
               PROVE  t \in ended' /\ t # s
    BY DEF Settled
  <2>1. t \in ended
    BY DEF Answers, Settled
  <2> QED
    BY <2>1 DEF About
<1> QED
  BY <1>1, <1>3, <1>5, <1>6, <1>7 DEF Answers, NoneAgain

\* What closes a stream while frames are read leaves nothing owed: another stream, or
\* none, is the current one, and the batch is given up.
LEMMA CloseAnswers ==
  ASSUME SessionTyped, Answers, stage = "parse", stage' = "parse",
         UNCHANGED <<parse_ok, ended, answered, push_id, handled, active>>,
         goaway' = "no" => goaway = "no", goaway' # "sent" => goaway # "sent",
         NEW C \in SUBSET Streams, C \subseteq reset', reset \subseteq reset',
         \A s \in C : requests'[s] = "none",
         \A s \in Streams \ C : requests'[s] = requests[s],
         crossed \union (batch \ reset') \subseteq crossed',
         current' \in C \union {Pushed}
  PROVE  Answers'
<1> USE DEF SessionTyped
<1>0. 0 \notin Streams /\ Pushed # 0 /\ Pushed \notin Streams
  BY StreamNumbers
<1>1. Started' /\ NoneAgain'
  BY <1>0 DEF Answers, Started, NoneAgain
<1>2. Waiting'
  BY DEF Answers, Waiting
<1>3. Owed' \subseteq Owed /\ Owed' \intersect batch = {}
  BY DEF Owed
<1>4. parse_ok /\ goaway = "no" => Owed \subseteq batch
  BY DEF Answers, Owing
<1>5. Owing'
  BY <1>3, <1>4 DEF Owing, Handling
<1>6. Asked'
  BY DEF Answers, Asked, Handling
<1>7. Settled'
  BY <1>0 DEF Answers, Settled, Handling
<1> QED
  BY <1>1, <1>2, <1>5, <1>6, <1>7 DEF Answers

\* A push does not leave a request owed that was not.
LEMMA PushAnswers ==
  ASSUME SessionTyped, Answers, Push, stage # "undefined",
         stage' = stage \/ (stage = "answer" /\ stage' = "self"),
         UNCHANGED <<parse_ok, ended, answered, push_id, handled, batch, active>>
  PROVE  Answers'
<1> USE DEF SessionTyped
<1>0. Pushed # 0 /\ Pushed \notin Streams /\ 0 \notin Streams
  BY StreamNumbers
<1>1. Flush
  BY DEF Push
<1>2. /\ goaway' = "no" => goaway = "no"
      /\ goaway' # "sent" => goaway # "sent"
      /\ reset \subseteq reset' /\ Closing \subseteq reset'
      /\ \A s \in Closing : requests'[s] = "none"
      /\ \A s \in Streams \ Closing : requests'[s] = requests[s]
      /\ Closing = {} => requests' = requests /\ reset' = reset
      /\ Closing \subseteq Streams
  <2>1. Closing \subseteq Streams
    BY ClosingFacts
  <2>2. goaway' # "sent" => goaway # "sent"
    BY <1>1 DEF Flush
  <2>3. \A s \in Closing : requests'[s] = "none" /\ s \in reset'
    BY <1>1, FlushTypes
  <2> QED
    BY <1>1, <2>1, <2>2, <2>3, FlushTypes
<1>3. CASE Closing # {}
  <2>1. stage = "parse" /\ stage' = "parse"
    BY <1>3, ClosingFacts
  <2>2. current' \in Closing \union {Pushed}
    BY <1>3, ClosingFacts DEF Push
  <2>3. crossed \union (batch \ reset') \subseteq crossed'
    BY <1>3 DEF Push
  <2> QED
    BY <1>2, <2>1, <2>2, <2>3, CloseAnswers
<1>4. CASE Closing = {}
  <2>1. requests' = requests /\ reset' = reset
    BY <1>2, <1>4
  <2>2. (Handling' <=> Handling) /\ (stage' = "parse" <=> stage = "parse")
        /\ (stage' \in {"idle", "send", "send taken"} <=> stage \in {"idle", "send", "send taken"})
    BY DEF Handling
  <2>3. CASE current' = Pushed /\ blocked' = blocked \ Closing
             /\ crossed' = crossed \union batch \union ({active} \ ({0} \union answered))
    <3>1. Started' /\ Waiting' /\ NoneAgain'
      BY <1>0, <2>1, <2>3 DEF Answers, Started, Waiting, NoneAgain
    <3>2. Owed' \subseteq Owed /\ Owed' \intersect batch = {}
      BY <2>1, <2>3 DEF Owed
    <3>3. active \notin Owed'
      BY <1>0, <2>3 DEF Owed
    <3>4. Owing'
      BY <1>2, <2>2, <3>2, <3>3 DEF Answers, Owing
    <3>5. Asked'
      BY <2>2, <2>3 DEF Answers, Asked
    <3>6. Settled'
      BY <1>0, <2>3 DEF Answers, Settled
    <3> QED
      BY <3>1, <3>4, <3>5, <3>6 DEF Answers
  <2>4. CASE blocked \subseteq blocked' /\ UNCHANGED <<current, crossed>>
    <3>1. Owed' = Owed
      BY <2>1, <2>4 DEF Owed
    <3>2. Owing'
      BY <1>2, <2>2, <2>4, <3>1 DEF Answers, Owing
    <3>3. Asked'
      BY <2>2, <2>4 DEF Answers, Asked
    <3>4. Settled'
      BY <1>2, <2>1, <2>2, <2>4 DEF Answers, Settled
    <3> QED
      BY <2>1, <2>4, <3>2, <3>3, <3>4 DEF Answers, Started, Waiting, NoneAgain
  <2>5. Current = {current}
    BY <1>4, ClosingFacts
  <2> QED
    BY <1>4, <2>3, <2>4, <2>5 DEF Push
<1> QED
  BY <1>3, <1>4

LEMMA ReactAnswers ==
  ASSUME SessionTyped, Answers, React PROVE Answers'
<1> USE DEF SessionTyped
<1>0. 0 \notin Streams /\ Pushed \notin Streams
  BY StreamNumbers
<1>1. /\ stage = "parse" /\ parse_ok' \in {parse_ok, FALSE} /\ Flush
      /\ UNCHANGED <<push_id, ended, answered>>
      /\ current' \in Current /\ blocked' = blocked \ Closing
      /\ crossed' = IF init = 0 \/ Closing # {} THEN crossed \union batch ELSE crossed
  BY DEF React, ParseRequest
<1>2. /\ goaway' = "no" => goaway = "no"
      /\ goaway' # "sent" => goaway = "no"
      /\ reset \subseteq reset'
      /\ \A s \in Closing : requests'[s] = "none" /\ s \in reset'
      /\ \A s \in Streams \ Closing : requests'[s] = requests[s]
      /\ Closing = {} => requests' = requests /\ reset' = reset
      /\ Closing = {} => Current = {current}
      /\ Closing # {} => Current = Closing
      /\ Closing \subseteq Streams
  <2>1. /\ goaway' = "no" => goaway = "no"
        /\ goaway' # "sent" => goaway = "no"
    BY <1>1 DEF Flush
  <2> QED
    BY <1>1, <2>1, FlushTypes, ClosingFacts
<1>3. Started' /\ Waiting'
  <2>1. Waiting'
    BY <1>1, <1>2 DEF Answers, Waiting
  <2>2. current' = 0 => current = 0
    BY <1>0, <1>1, <1>2
  <2> QED
    BY <1>1, <2>1, <2>2 DEF Answers, Started
<1>4. Owed' \subseteq Owed /\ (init = 0 \/ Closing # {} => Owed' \intersect batch = {})
  BY <1>1, <1>2 DEF Owed
<1>5. CASE Handles
  <2>1. /\ current' \in Streams /\ requests'[current'] = "complete" /\ parse_ok /\ parse_ok'
        /\ stage' = "answer" /\ active' = current' /\ Handled
    BY <1>1, <1>5 DEF Handles, GetStatus, React
  <2>2. Closing = {} /\ current' = current /\ requests' = requests /\ blocked' = blocked
    BY <1>1, <1>2, <2>1
  <2>3. Owing'
    BY <1>1, <1>2, <1>4, <2>1, <2>2 DEF Answers, Owing, Handling
  <2>4. current \in ended /\ handled[current] = "once" /\ goaway # "sent" => current \in blocked
    BY <1>1, <2>1, <2>2 DEF Answers, Settled, Handling
  <2>5. handled' = [handled EXCEPT ![current] =
                      IF current \notin ended THEN "early"
                      ELSE IF handled[current] = "no" THEN "once" ELSE handled[current]]
    BY <2>1, <2>2, <2>4 DEF Handled
  <2>6. NoneAgain'
    BY <2>5 DEF Answers, NoneAgain
  <2>7. Asked'
    BY <1>0, <1>1, <2>1, <2>2, <2>5 DEF Answers, Asked, Handling
  <2>8. Settled'
    <3> SUFFICES ASSUME NEW s \in Streams, handled'[s] = "once"
                 PROVE  /\ s \in ended
                        /\ goaway' # "sent" /\ current = s => s \in blocked \/ s \notin answered
      BY <1>1, <2>1, <2>2 DEF Settled, Handling
    <3>1. CASE s # current
      BY <2>5, <3>1 DEF Answers, Settled
    <3>2. CASE s = current
      <4>1. s \in ended /\ handled[s] \in {"no", "once"}
        BY <2>1, <2>2, <2>5, <3>2
      <4>2. handled[s] = "no" => s \notin answered
        BY <2>1 DEF Answers, Asked
      <4>3. goaway' # "sent" => goaway # "sent"
        BY <1>2
      <4> QED
        BY <2>4, <3>2, <4>1, <4>2, <4>3
    <3> QED
      BY <3>1, <3>2
  <2> QED
    BY <1>3, <2>3, <2>6, <2>7, <2>8 DEF Answers
<1>6. CASE ~Handles
  <2>1. /\ handled' = handled /\ (stage' = "answer" => ~parse_ok')
        /\ stage' \in {"answer", "send", "idle"}
    BY <1>6 DEF React, Refuses
  <2>2. parse_ok' /\ goaway' = "no" => Owed' = {}
    <3> SUFFICES ASSUME parse_ok', goaway' = "no", NEW s \in Owed' PROVE FALSE
      OBVIOUS
    <3>1. /\ s \in batch /\ s = current /\ s \in ended \ (answered \union reset)
          /\ s # push_id /\ s \in Streams
      BY <1>1, <1>2, <1>4 DEF Answers, Owing, Owed
    <3>2. init # 0 /\ Closing = {}
      BY <1>4, <3>1
    <3>3. requests[current] = "complete"
      BY <3>1 DEF Answers, Waiting
    <3>4. current' = current /\ requests' = requests
      BY <1>1, <1>2, <3>2
    <3>5. GetStatus(current)' = "complete"
      BY <3>1, <3>3, <3>4 DEF GetStatus
    <3> QED
      BY <1>6, <3>1, <3>2, <3>4, <3>5 DEF Handles
  <2>3. Owing'
    BY <2>1, <2>2 DEF Owing, Handling
  <2>4. parse_ok' => parse_ok
    BY <1>1
  <2>5. Handling' => ~parse_ok'
    BY <2>1 DEF Handling
  <2>6. Asked' /\ NoneAgain'
    BY <1>1, <2>1, <2>4, <2>5, Zenon DEF Answers, Asked, NoneAgain
  <2>7. Settled'
    <3> SUFFICES ASSUME NEW s \in Streams, handled[s] = "once"
                 PROVE  /\ s \in ended
                        /\ parse_ok' /\ goaway' # "sent" /\ current' = s =>
                             s \in blocked' \/ requests'[s] # "complete"
      BY <1>1, <2>1, <2>5 DEF Settled
    <3>1. s \in ended
      BY DEF Answers, Settled
    <3>2. ASSUME parse_ok', goaway' # "sent", current' = s
          PROVE  s \in blocked' \/ requests'[s] # "complete"
      <4>1. CASE Closing # {}
        BY <1>1, <1>2, <3>2, <4>1
      <4>2. CASE Closing = {}
        <5>1. current = s /\ goaway = "no" /\ parse_ok
          BY <1>1, <1>2, <2>4, <3>2, <4>2
        <5>2. s \in blocked \/ requests[s] # "complete"
          BY <1>1, <5>1 DEF Answers, Settled, Handling
        <5> QED
          BY <1>1, <1>2, <4>2, <5>2
      <4> QED
        BY <4>1, <4>2
    <3> QED
      BY <3>1, <3>2
  <2> QED
    BY <1>3, <2>3, <2>6, <2>7 DEF Answers
<1> QED
  BY <1>5, <1>6

LEMMA AnswerAnswers ==
  ASSUME SessionTyped, Answers, Answer PROVE Answers'
<1> USE DEF SessionTyped, Target
<1>0. 0 \notin Streams /\ Pushed \notin Streams
  BY StreamNumbers
<1>1. /\ stage = "answer" /\ stage' = "send"
      /\ UNCHANGED <<parse_ok, ended, push_id, handled, batch, current, active,
                     reset, goaway>>
      /\ Handling /\ ~Handling'
  BY DEF Answer, client, Handling
<1>2. CASE GetStatus(Target) # "none" /\ Target \notin answered /\ goaway = "no"
  <2>1. current \in Streams
    BY <1>2 DEF GetStatus
  <2>2. PICK fits \in BOOLEAN :
          /\ answered' = answered \union {current}
          /\ crossed' = crossed \ {current}
          /\ blocked' = IF fits THEN blocked ELSE blocked \union {current}
          /\ requests' = IF fits /\ current \in ended THEN RemoveStream(current)
                          ELSE requests
    BY <1>2 DEF Answer
  <2>3. Started' /\ Waiting' /\ NoneAgain'
    BY <1>1, <2>2 DEF Answers, Started, Waiting, NoneAgain, RemoveStream
  <2>4. Owed' \subseteq Owed \ {current}
    BY <1>1, <2>2 DEF Owed
  <2>5. Owing'
    BY <1>1, <2>4 DEF Answers, Owing
  <2>6. Asked'
    BY <1>0, <1>1, <2>1, <2>2 DEF Answers, Asked
  <2>7. Settled'
    BY <1>1, <2>1, <2>2 DEF Answers, Settled, RemoveStream
  <2> QED
    BY <2>3, <2>5, <2>6, <2>7 DEF Answers
<1>3. CASE ~(GetStatus(Target) # "none" /\ Target \notin answered /\ goaway = "no")
  <2>1. UNCHANGED <<answered, crossed, blocked, requests>>
    BY <1>3 DEF Answer
  <2>2. Started' /\ Waiting' /\ NoneAgain' /\ Asked'
    BY <1>1, <2>1 DEF Answers, Started, Waiting, NoneAgain, Asked
  <2>3. parse_ok /\ goaway = "no" => Owed = {}
    <3> SUFFICES ASSUME parse_ok, goaway = "no", NEW s \in Owed PROVE FALSE
      OBVIOUS
    <3>1. s = current /\ s \in ended \ (answered \union reset) /\ s \in Streams
      BY <1>1 DEF Answers, Owing, Owed
    <3> QED
      BY <1>3, <3>1 DEF Answers, Waiting, GetStatus
  <2>4. Owing'
    BY <1>1, <2>1, <2>3 DEF Owing, Owed
  <2>5. Settled'
    <3>1. goaway = "no" \/ goaway = "sent"
      BY <1>1
    <3>2. goaway = "no" => \A s \in Streams : current = s => requests[s] = "none" \/ s \in answered
      BY <1>3 DEF GetStatus
    <3> QED
      BY <1>1, <2>1, <3>1, <3>2 DEF Answers, Settled
  <2> QED
    BY <2>2, <2>4, <2>5 DEF Answers
<1> QED
  BY <1>2, <1>3

LEMMA AnswersStep ==
  ASSUME SessionTyped, Answers, [HttpNext]_httpVars PROVE Answers'
<1> USE DEF client, context, session, history
<1>1. CASE UNCHANGED httpVars
  BY <1>1, AnswersSame DEF httpVars
<1>2. CASE OnMessage
  BY <1>2 DEF OnMessage, Answers, Started, Waiting, Owing, Owed, Asked, Settled, NoneAgain,
     Handling
<1>3. CASE Settings
  BY <1>3, AnswersSame DEF Settings
<1>4. ASSUME NEW s \in Streams, NEW last \in BOOLEAN, Headers(s, last)
      PROVE  Answers'
  <2>1. s \notin ended
    BY <1>4 DEF Headers, Opened
  <2>2. /\ last /\ s \notin answered => requests'[s] = "complete"
        /\ \A t \in Streams : t # s => requests'[t] = requests[t]
    BY <1>4 DEF Headers, SessionTyped
  <2> QED
    BY <1>4, <2>1, <2>2, FrameAnswers DEF Headers, Reading
<1>5. ASSUME NEW s \in Streams, NEW last \in BOOLEAN, Data(s, last)
      PROVE  Answers'
  <2>1. /\ last /\ s \notin answered => requests'[s] = "complete"
        /\ \A t \in Streams : t # s => requests'[t] = requests[t]
    BY <1>5 DEF Data, RemoveStream, SessionTyped
  <2> QED
    BY <1>5, <2>1, FrameAnswers DEF Data, Reading
<1>6. ASSUME NEW s \in Streams, Chunk(s) PROVE Answers'
  BY <1>6, FrameAnswers DEF Chunk, Reading
<1>13. ASSUME NEW s \in Streams, Reset(s) PROVE Answers'
  <2> DEFINE C == {s}
  <2>1. /\ C \subseteq Streams /\ C \subseteq reset' /\ reset \subseteq reset'
        /\ \A t \in C : requests'[t] = "none"
        /\ \A t \in Streams \ C : requests'[t] = requests[t]
        /\ crossed \union (batch \ reset') \subseteq crossed'
        /\ current' \in C \union {Pushed}
    BY <1>13 DEF Reset, RemoveStream, SessionTyped
  <2>2. /\ stage = "parse" /\ stage' = "parse" /\ goaway' = goaway
        /\ UNCHANGED <<parse_ok, ended, answered, push_id, handled, active>>
    BY <1>13 DEF Reset, Reading
  <2> HIDE DEF C
  <2> QED
    BY <2>1, <2>2, CloseAnswers
<1>14. CASE ResetPromised
  <2>1. /\ stage = "parse" /\ stage' = "parse" /\ goaway' = goaway
        /\ UNCHANGED <<parse_ok, ended, answered, push_id, handled, active, reset, requests>>
        /\ current' = Pushed /\ crossed' = crossed \union batch
    BY <1>14 DEF ResetPromised, Reading
  <2>2. {} \in SUBSET Streams
    OBVIOUS
  <2> QED
    BY <2>1, <2>2, CloseAnswers
<1>15. ASSUME NEW s \in Streams, StreamError(s) PROVE Answers'
  BY <1>15, AnswersSame DEF StreamError
<1>16. CASE ConnectionError
  <2>1. /\ goaway = "no" /\ stage = "parse" /\ stage' = "parse"
        /\ UNCHANGED <<parse_ok, ended, answered, push_id, requests, handled, batch,
                       current, active, crossed, blocked, reset>>
    BY <1>16 DEF ConnectionError, Reading
  <2>2. Handling' <=> Handling
    BY <2>1 DEF Handling
  <2> QED
    BY <2>1, <2>2, AnswersKept
<1>7. CASE ResumeBody
  BY <1>7 DEF ResumeBody, Reading, Answers, Started, Waiting, Owing, Owed, Asked, Settled,
     NoneAgain, Handling
<1>8. CASE PushToSelf
  BY <1>8, PushAnswers DEF PushToSelf
<1>17. CASE Peek
  <2>1. /\ UNCHANGED <<parse_ok, ended, answered, push_id, requests, handled, batch,
                       current, active, crossed, blocked, reset, goaway>>
        /\ stage' # "parse" /\ stage' # "idle"
        /\ stage' \in {"send", "send taken"} => stage \in {"send", "send taken"}
    BY <1>17 DEF Peek
  <2>2. Handling' <=> Handling
    BY <1>17 DEF Peek, Handling
  <2> QED
    BY <2>1, <2>2, AnswersKept
<1>18. CASE SendToSelf
  <2>1. /\ UNCHANGED <<parse_ok, ended, answered, push_id, requests, handled, batch,
                       current, active, crossed, blocked, reset, goaway>>
        /\ stage' # "parse" /\ stage' # "idle"
        /\ stage' \in {"send", "send taken"} => stage \in {"send", "send taken"}
    BY <1>18 DEF SendToSelf, Sends
  <2>2. Handling' <=> Handling
    BY <1>18 DEF SendToSelf, Handling
  <2> QED
    BY <2>1, <2>2, AnswersKept
<1>9. CASE Send
  BY <1>9 DEF Send, Sends, Answers, Started, Waiting, Owing, Owed, Asked, Settled,
     NoneAgain, Handling
<1>10. CASE SendInLoop
  BY <1>10, AnswersSame DEF SendInLoop
<1>11. ASSUME NEW p \in Pushers, PushMessage(p), stage # "undefined" PROVE Answers'
  BY <1>11, PushAnswers DEF PushMessage
<1>12. ASSUME NEW p \in Pushers, \/ Transport(p) \/ PeekPushed(p)
                                 \/ TakePushed(p) \/ QueuePushed(p)
       PROVE  Answers'
  BY <1>12, AnswersSame DEF Transport, PeekPushed, TakePushed, QueuePushed
<1> QED
  BY <1>1, <1>2, <1>3, <1>4, <1>5, <1>6, <1>7, <1>8, <1>9, <1>10, <1>11, <1>12, <1>13,
     <1>14, <1>15, <1>16, <1>17, <1>18, ReactAnswers, AnswerAnswers DEF HttpNext, ReadFrame

\* AnsweredOnce is what Owing and NoneAgain say of a connection that waits.
LEMMA AnswersOnce == SessionTyped /\ Answers => AnsweredOnce
BY DEF SessionTyped, Answers, Owing, Owed, NoneAgain, AnsweredOnce
-----------------------------------------------------------------------------
(* Outputs on their way: sequences of numbers, by the place they are in *)

Contents(s) == {s[i] : i \in DOMAIN s}
OneToOne(s) == \A i, j \in DOMAIN s : s[i] = s[j] => i = j
Upwards(s) == \A i, j \in DOMAIN s : i < j => s[i] < s[j]
Below(A, B) == \A a \in A, b \in B : a < b

\* Every place there can be.
Keys ==
  {<<"wire", 0>>, <<"buffer", 0>>} \union ({"task"} \X (Nat \ {0}))
                                   \union ({"hand"} \X Pushers)

Queues == [Keys -> Seq(Nat)]

All(q) == UNION {Contents(q[k]) : k \in Keys}

Single(q) ==
  /\ \A k \in Keys : OneToOne(q[k])
  /\ \A k, l \in Keys : k # l => Contents(q[k]) \intersect Contents(q[l]) = {}

Sorted(q) ==
  /\ \A k \in Keys : Upwards(q[k])
  /\ \A k, l \in Keys : Ahead(k, l) => Below(Contents(q[k]), Contents(q[l]))

LEMMA EmptyContents ==
  /\ <<>> \in Seq(Nat) /\ Contents(<<>>) = {} /\ OneToOne(<<>>) /\ Upwards(<<>>)
BY DEF Contents, OneToOne, Upwards

LEMMA Concatenated ==
  ASSUME NEW s \in Seq(Nat), NEW t \in Seq(Nat)
  PROVE  /\ s \o t \in Seq(Nat)
         /\ Contents(s \o t) = Contents(s) \union Contents(t)
         /\ OneToOne(s) /\ OneToOne(t) /\ Contents(s) \intersect Contents(t) = {}
              => OneToOne(s \o t)
         /\ Upwards(s) /\ Upwards(t) /\ Below(Contents(s), Contents(t))
              => Upwards(s \o t)
<1> DEFINE m == Len(s)
           n == Len(t)
           c == s \o t
<1>1. /\ m \in Nat /\ n \in Nat /\ DOMAIN s = 1..m /\ DOMAIN t = 1..n
      /\ c \in Seq(Nat) /\ DOMAIN c = 1..(m + n)
      /\ \A i \in 1..m : i \in DOMAIN c /\ c[i] = s[i]
      /\ \A i \in 1..n : m + i \in DOMAIN c /\ c[m + i] = t[i]
  BY ConcatProperties, LenProperties
<1> HIDE DEF m, n, c
<1>2. \A i \in 1..(m + n) : i \in 1..m \/ (i - m \in 1..n /\ i = m + (i - m))
  BY <1>1
<1>3. Contents(c) = Contents(s) \union Contents(t)
  <2>1. ASSUME NEW x \in Contents(c) PROVE x \in Contents(s) \union Contents(t)
    <3>1. PICK i \in 1..(m + n) : x = c[i]
      BY <1>1 DEF Contents
    <3>2. CASE i \in 1..m
      BY <1>1, <3>1, <3>2 DEF Contents
    <3>3. CASE i - m \in 1..n /\ i = m + (i - m)
      <4>1. c[i] = t[i - m]
        BY <1>1, <3>3
      <4> QED
        BY <1>1, <3>1, <3>3, <4>1 DEF Contents
    <3> QED
      BY <1>2, <3>2, <3>3
  <2>2. Contents(s) \subseteq Contents(c)
    BY <1>1 DEF Contents
  <2>3. Contents(t) \subseteq Contents(c)
    BY <1>1 DEF Contents
  <2> QED
    BY <2>1, <2>2, <2>3
<1>4. \A i \in 1..m : c[i] \in Contents(s)
  BY <1>1 DEF Contents
<1>5. \A i \in 1..n : c[m + i] \in Contents(t)
  BY <1>1 DEF Contents
<1>6. ASSUME OneToOne(s), OneToOne(t), Contents(s) \intersect Contents(t) = {},
             NEW i \in DOMAIN c, NEW j \in DOMAIN c, c[i] = c[j]
      PROVE  i = j
  <2>1. CASE i \in 1..m /\ j \in 1..m
    BY <1>1, <1>6, <2>1 DEF OneToOne
  <2>2. CASE i \notin 1..m /\ j \notin 1..m
    <3>1. /\ i - m \in 1..n /\ i = m + (i - m) /\ j - m \in 1..n /\ j = m + (j - m)
      BY <1>1, <1>2, <2>2
    <3>2. t[i - m] = t[j - m]
      BY <1>1, <1>6, <3>1
    <3>3. i - m = j - m
      BY <1>1, <1>6, <3>1, <3>2 DEF OneToOne
    <3> QED
      BY <3>1, <3>3
  <2>3. CASE i \in 1..m /\ j \notin 1..m
    <3>1. j - m \in 1..n /\ j = m + (j - m)
      BY <1>1, <1>2, <2>3
    <3>2. c[i] \in Contents(s) /\ c[j] \in Contents(t)
      BY <1>4, <1>5, <2>3, <3>1
    <3> QED
      BY <1>6, <3>2
  <2>4. CASE i \notin 1..m /\ j \in 1..m
    <3>1. i - m \in 1..n /\ i = m + (i - m)
      BY <1>1, <1>2, <2>4
    <3>2. c[j] \in Contents(s) /\ c[i] \in Contents(t)
      BY <1>4, <1>5, <2>4, <3>1
    <3> QED
      BY <1>6, <3>2
  <2> QED
    BY <2>1, <2>2, <2>3, <2>4
<1>7. ASSUME Upwards(s), Upwards(t), Below(Contents(s), Contents(t)),
             NEW i \in DOMAIN c, NEW j \in DOMAIN c, i < j
      PROVE  c[i] < c[j]
  <2>1. CASE i \in 1..m /\ j \in 1..m
    BY <1>1, <1>7, <2>1 DEF Upwards
  <2>2. CASE i \notin 1..m
    <3>1. /\ i - m \in 1..n /\ i = m + (i - m) /\ j - m \in 1..n /\ j = m + (j - m)
          /\ i - m < j - m
      BY <1>1, <1>2, <1>7, <2>2
    <3>2. c[i] = t[i - m] /\ c[j] = t[j - m]
      BY <1>1, <3>1
    <3> QED
      BY <1>1, <1>7, <3>1, <3>2 DEF Upwards
  <2>3. CASE i \in 1..m /\ j \notin 1..m
    <3>1. c[i] \in Contents(s) /\ c[j] \in Contents(t)
      BY <1>1, <1>2, <1>4, <1>5, <2>3
    <3> QED
      BY <1>7, <3>1 DEF Below
  <2> QED
    BY <2>1, <2>2, <2>3
<1> QED
  BY <1>1, <1>3, <1>6, <1>7 DEF c, OneToOne, Upwards

LEMMA AppendedOne ==
  ASSUME NEW s \in Seq(Nat), NEW n \in Nat
  PROVE  /\ Append(s, n) = s \o <<n>> /\ <<n>> \in Seq(Nat)
         /\ Contents(<<n>>) = {n} /\ OneToOne(<<n>>) /\ Upwards(<<n>>)
<1>1. Append(s, n) = s \o <<n>> /\ <<n>> \in Seq(Nat)
  BY AppendProperties, AppendIsConcat
<1>2. DOMAIN <<n>> = {1} /\ <<n>>[1] = n
  OBVIOUS
<1> QED
  BY <1>1, <1>2 DEF Contents, OneToOne, Upwards
-----------------------------------------------------------------------------
(* What is done with outputs *)

\* What is in a goes to the end of what is in b.
Moved(q, a, b) == [q EXCEPT ![b] = q[b] \o q[a], ![a] = <<>>]

\* Nothing that stays is overtaken.
MayMove(q, a, b) ==
  /\ Ahead(b, a)
  /\ \A k \in Keys : /\ Ahead(b, k) /\ k # a => Ahead(a, k) \/ q[k] = <<>>
                     /\ Ahead(k, b) => Ahead(k, a)

LEMMA MovedFacts ==
  ASSUME NEW q \in Queues, NEW a \in Keys, NEW b \in Keys, a # b
  PROVE  /\ Moved(q, a, b) \in Queues
         /\ All(Moved(q, a, b)) = All(q)
         /\ Single(q) => Single(Moved(q, a, b))
         /\ Sorted(q) /\ MayMove(q, a, b) => Sorted(Moved(q, a, b))
<1> DEFINE m == Moved(q, a, b)
<1>1. /\ m[b] = q[b] \o q[a] /\ m[a] = <<>>
      /\ \A k \in Keys : k # a /\ k # b => m[k] = q[k]
      /\ DOMAIN m = Keys
  BY DEF Moved, Queues
<1>2. q[a] \in Seq(Nat) /\ q[b] \in Seq(Nat) /\ \A k \in Keys : q[k] \in Seq(Nat)
  BY DEF Queues
<1>3. /\ m[b] \in Seq(Nat) /\ Contents(m[b]) = Contents(q[b]) \union Contents(q[a])
      /\ Contents(m[a]) = {}
  BY <1>1, <1>2, Concatenated, EmptyContents
<1>4. m \in Queues
  <2>1. \A k \in Keys : m[k] \in Seq(Nat)
    BY <1>1, <1>2, <1>3, EmptyContents
  <2> QED
    BY <1>1, <2>1 DEF Queues, Moved
<1> HIDE DEF m
<1>5. All(m) = All(q)
  <2>1. ASSUME NEW x \in All(m) PROVE x \in All(q)
    <3>1. PICK k \in Keys : x \in Contents(m[k])
      BY DEF All
    <3>2. x \in Contents(q[k]) \/ x \in Contents(q[a])
      BY <1>1, <1>3, <3>1
    <3> QED
      BY <3>2 DEF All
  <2>2. ASSUME NEW x \in All(q) PROVE x \in All(m)
    <3>1. PICK k \in Keys : x \in Contents(q[k])
      BY DEF All
    <3>2. x \in Contents(m[k]) \/ x \in Contents(m[b])
      BY <1>1, <1>3, <3>1
    <3> QED
      BY <3>2 DEF All
  <2> QED
    BY <2>1, <2>2
<1>6. ASSUME Single(q) PROVE Single(m)
  <2>1. ASSUME NEW k \in Keys PROVE OneToOne(m[k])
    <3>1. CASE k = a
      BY <1>1, <3>1, EmptyContents
    <3>2. CASE k = b
      <4>1. /\ OneToOne(q[a]) /\ OneToOne(q[b])
            /\ Contents(q[b]) \intersect Contents(q[a]) = {}
        BY <1>6 DEF Single
      <4> QED
        BY <1>1, <1>2, <3>2, <4>1, Concatenated
    <3>3. CASE k # a /\ k # b
      BY <1>1, <1>6, <3>3 DEF Single
    <3> QED
      BY <3>1, <3>2, <3>3
  <2>2. ASSUME NEW k \in Keys, NEW l \in Keys, k # l
        PROVE  Contents(m[k]) \intersect Contents(m[l]) = {}
    BY <1>1, <1>3, <1>6, <2>2 DEF Single
  <2> QED
    BY <2>1, <2>2 DEF Single
<1>7. ASSUME Sorted(q), Ahead(b, a),
             \A k \in Keys : /\ Ahead(b, k) /\ k # a => Ahead(a, k) \/ q[k] = <<>>
                             /\ Ahead(k, b) => Ahead(k, a)
      PROVE  Sorted(m)
  <2>1. \A k \in Keys : Upwards(m[k])
    BY <1>1, <1>2, <1>7, Concatenated, EmptyContents DEF Sorted
  <2>2. ASSUME NEW k \in Keys, NEW l \in Keys, Ahead(k, l)
        PROVE  Below(Contents(m[k]), Contents(m[l]))
    <3>1. CASE k = a \/ l = a
      BY <1>3, <3>1 DEF Below
    <3>2. CASE k # a /\ k # b /\ l # a /\ l # b
      BY <1>1, <1>7, <2>2, <3>2 DEF Sorted
    <3>3. CASE k = b /\ l # a /\ l # b
      <4>1. m[l] = q[l] /\ Below(Contents(q[b]), Contents(q[l]))
        BY <1>1, <1>7, <2>2, <3>3 DEF Sorted
      <4>2. Below(Contents(q[a]), Contents(q[l]))
        BY <1>7, <2>2, <3>3, EmptyContents DEF Sorted, Below
      <4> QED
        BY <1>3, <3>3, <4>1, <4>2 DEF Below
    <3>4. CASE l = b /\ k # a
      <4>1. k # b
        BY <2>2, <3>4 DEF Ahead, Keys
      <4>2. m[k] = q[k] /\ Ahead(k, a)
        BY <1>1, <1>7, <2>2, <3>4, <4>1
      <4>3. /\ Below(Contents(q[k]), Contents(q[b]))
            /\ Below(Contents(q[k]), Contents(q[a]))
        BY <1>7, <2>2, <3>4, <4>2 DEF Sorted
      <4> QED
        BY <1>3, <3>4, <4>2, <4>3 DEF Below
    <3> QED
      BY <3>1, <3>2, <3>3, <3>4
  <2> QED
    BY <2>1, <2>2 DEF Sorted
<1> QED
  BY <1>4, <1>5, <1>6, <1>7 DEF m, MayMove

\* A new output is added in b.
WithOne(q, b, n) == [q EXCEPT ![b] = Append(q[b], n)]

LEMMA WithOneFacts ==
  ASSUME NEW q \in Queues, NEW b \in Keys, NEW n \in Nat, All(q) \subseteq 1..n
  PROVE  /\ WithOne(q, b, n + 1) \in Queues
         /\ All(WithOne(q, b, n + 1)) = All(q) \union {n + 1}
         /\ Single(q) => Single(WithOne(q, b, n + 1))
         /\ Sorted(q) /\ (\A k \in Keys : ~Ahead(b, k)) => Sorted(WithOne(q, b, n + 1))
<1> DEFINE m == WithOne(q, b, n + 1)
<1>1. /\ n + 1 \in Nat /\ m[b] = q[b] \o <<n + 1>>
      /\ \A k \in Keys : k # b => m[k] = q[k]
      /\ \A k \in Keys : q[k] \in Seq(Nat)
      /\ DOMAIN m = Keys
  BY AppendedOne DEF WithOne, Queues
<1>2. /\ <<n + 1>> \in Seq(Nat) /\ Contents(<<n + 1>>) = {n + 1}
      /\ OneToOne(<<n + 1>>) /\ Upwards(<<n + 1>>)
  BY <1>1, AppendedOne
<1>3. m[b] \in Seq(Nat) /\ Contents(m[b]) = Contents(q[b]) \union {n + 1}
  BY <1>1, <1>2, Concatenated
<1>4. \A k \in Keys : Contents(q[k]) \subseteq 1..n
  BY DEF All
<1>5. \A k \in Keys : n + 1 \notin Contents(q[k]) /\ Below(Contents(q[k]), {n + 1})
  BY <1>4 DEF Below
<1>6. m \in Queues
  <2>1. \A k \in Keys : m[k] \in Seq(Nat)
    BY <1>1, <1>3
  <2> QED
    BY <1>1, <2>1 DEF Queues, WithOne
<1> HIDE DEF m
<1>7. All(m) = All(q) \union {n + 1}
  BY <1>1, <1>3 DEF All
<1>8. ASSUME Single(q) PROVE Single(m)
  <2>1. ASSUME NEW k \in Keys PROVE OneToOne(m[k])
    <3>1. CASE k = b
      <4>1. OneToOne(q[b]) /\ Contents(q[b]) \intersect Contents(<<n + 1>>) = {}
        BY <1>2, <1>5, <1>8 DEF Single
      <4>2. OneToOne(q[b] \o <<n + 1>>)
        BY <1>1, <1>2, <4>1, Concatenated
      <4> QED
        BY <1>1, <3>1, <4>2
    <3>2. CASE k # b
      BY <1>1, <1>8, <3>2 DEF Single
    <3> QED
      BY <3>1, <3>2
  <2>2. ASSUME NEW k \in Keys, NEW l \in Keys, k # l
        PROVE  Contents(m[k]) \intersect Contents(m[l]) = {}
    <3>1. Contents(q[k]) \intersect Contents(q[l]) = {}
      BY <1>8, <2>2 DEF Single
    <3>2. /\ Contents(m[k]) = Contents(q[k]) \/ (k = b /\ Contents(m[k]) = Contents(q[k]) \union {n + 1})
          /\ Contents(m[l]) = Contents(q[l]) \/ (l = b /\ Contents(m[l]) = Contents(q[l]) \union {n + 1})
      BY <1>1, <1>3
    <3> QED
      BY <1>5, <2>2, <3>1, <3>2
  <2> QED
    BY <2>1, <2>2 DEF Single
<1>9. ASSUME Sorted(q), \A k \in Keys : ~Ahead(b, k) PROVE Sorted(m)
  <2>1. ASSUME NEW k \in Keys PROVE Upwards(m[k])
    <3>1. CASE k = b
      <4>1. Upwards(q[b]) /\ Below(Contents(q[b]), Contents(<<n + 1>>))
        BY <1>2, <1>5, <1>9 DEF Sorted
      <4> QED
        BY <1>1, <1>2, <3>1, <4>1, Concatenated
    <3>2. CASE k # b
      BY <1>1, <1>9, <3>2 DEF Sorted
    <3> QED
      BY <3>1, <3>2
  <2>2. ASSUME NEW k \in Keys, NEW l \in Keys, Ahead(k, l)
        PROVE  Below(Contents(m[k]), Contents(m[l]))
    <3>1. k # b /\ m[k] = q[k] /\ Below(Contents(q[k]), Contents(q[l]))
      BY <1>1, <1>9, <2>2 DEF Sorted
    <3> QED
      BY <1>1, <1>3, <1>5, <3>1 DEF Below
  <2> QED
    BY <2>1, <2>2 DEF Sorted
<1> QED
  BY <1>6, <1>7, <1>8, <1>9 DEF m
-----------------------------------------------------------------------------
(* The places by name, and what is in them *)

AtWire == <<"wire", 0>>
AtBuffer == <<"buffer", 0>>
AtTask(i) == <<"task", i>>
AtHand(p) == <<"hand", p>>

LEMMA KeyCases ==
  ASSUME NEW k \in Keys
  PROVE  \/ k = AtWire \/ k = AtBuffer
         \/ \E i \in Nat \ {0} : k = AtTask(i)
         \/ \E p \in Pushers : k = AtHand(p)
BY DEF Keys, AtWire, AtBuffer, AtTask, AtHand

LEMMA KeysAre ==
  /\ AtWire \in Keys /\ AtBuffer \in Keys
  /\ \A i \in Nat \ {0} : AtTask(i) \in Keys
  /\ \A p \in Pushers : AtHand(p) \in Keys
BY DEF Keys, AtWire, AtBuffer, AtTask, AtHand

LEMMA KeysDiffer ==
  /\ AtWire # AtBuffer
  /\ \A i : /\ AtTask(i) \notin {AtWire, AtBuffer}
            /\ \A p : AtTask(i) # AtHand(p)
            /\ \A j : AtTask(i) = AtTask(j) => i = j
  /\ \A p : /\ AtHand(p) \notin {AtWire, AtBuffer}
            /\ \A r : AtHand(p) = AtHand(r) => p = r
BY DEF AtWire, AtBuffer, AtTask, AtHand

LEMMA AheadAt ==
  /\ \A k \in Keys : ~Ahead(AtBuffer, k) /\ ~Ahead(k, AtWire)
  /\ \A k \in Keys : k # AtWire => Ahead(AtWire, k)
  /\ \A p, r : Ahead(AtHand(p), AtBuffer) /\ ~Ahead(AtHand(p), AtHand(r))
  /\ \A p, i : Ahead(AtTask(i), AtHand(p)) /\ ~Ahead(AtHand(p), AtTask(i))
  /\ \A i, j \in Nat : Ahead(AtTask(i), AtTask(j)) <=> i < j
  /\ \A i : Ahead(AtTask(i), AtBuffer)
<1>1. \A k \in Keys : ~Ahead(AtBuffer, k) /\ ~Ahead(k, AtWire)
  BY DEF Ahead, AtWire, AtBuffer
<1>2. \A k \in Keys : k # AtWire => Ahead(AtWire, k)
  BY KeyCases DEF Ahead, AtWire, AtBuffer, AtTask, AtHand
<1>3. \A p, r : Ahead(AtHand(p), AtBuffer) /\ ~Ahead(AtHand(p), AtHand(r))
  BY DEF Ahead, AtHand, AtBuffer
<1>4. \A p, i : Ahead(AtTask(i), AtHand(p)) /\ ~Ahead(AtHand(p), AtTask(i))
  BY DEF Ahead, AtHand, AtTask
<1>5. \A i, j \in Nat : Ahead(AtTask(i), AtTask(j)) <=> i < j
  BY DEF Ahead, AtTask
<1>6. \A i : Ahead(AtTask(i), AtBuffer)
  BY DEF Ahead, AtTask, AtBuffer
<1> QED
  BY <1>1, <1>2, <1>3, <1>4, <1>5, <1>6

\* What task i is to send, if there is one.
Task(t, i) == IF i \in DOMAIN t THEN t[i] ELSE <<>>

\* What is in each place, of the values that the variables of the output have.
OutOf(w, b, t, h) ==
  [k \in Keys |-> CASE k[1] = "wire" -> w [] k[1] = "buffer" -> b
                   [] k[1] = "hand" -> h[k[2]]
                   [] OTHER -> Task(t, k[2])]

InHands == [p \in Pushers |-> InHand(p)]

Out == OutOf(wire, buffer, tasks, InHands)

LEMMA OutAt ==
  ASSUME NEW w \in Seq(Nat), NEW b \in Seq(Nat), NEW t \in Seq(Seq(Nat)),
         NEW h \in [Pushers -> Seq(Nat)]
  PROVE  /\ OutOf(w, b, t, h) \in Queues
         /\ OutOf(w, b, t, h)[AtWire] = w
         /\ OutOf(w, b, t, h)[AtBuffer] = b
         /\ \A i \in Nat \ {0} : OutOf(w, b, t, h)[AtTask(i)] = Task(t, i)
         /\ \A p \in Pushers : OutOf(w, b, t, h)[AtHand(p)] = h[p]
<1> DEFINE q == OutOf(w, b, t, h)
<1>1. q[AtWire] = w
  BY KeysAre DEF OutOf, AtWire
<1>2. q[AtBuffer] = b
  BY KeysAre DEF OutOf, AtBuffer
<1>3. \A i \in Nat \ {0} : q[AtTask(i)] = Task(t, i)
  BY KeysAre DEF OutOf, AtTask
<1>4. \A p \in Pushers : q[AtHand(p)] = h[p]
  BY KeysAre DEF OutOf, AtHand
<1>5. ASSUME NEW k \in Keys PROVE q[k] \in Seq(Nat)
  <2>1. CASE k = AtWire \/ k = AtBuffer
    BY <1>1, <1>2, <2>1
  <2>2. ASSUME NEW i \in Nat \ {0}, k = AtTask(i) PROVE q[k] \in Seq(Nat)
    <3>1. Task(t, i) \in Seq(Nat)
      BY EmptyContents DEF Task
    <3> QED
      BY <1>3, <2>2, <3>1
  <2>3. ASSUME NEW p \in Pushers, k = AtHand(p) PROVE q[k] \in Seq(Nat)
    BY <1>4, <2>3
  <2> QED
    BY KeyCases, <2>1, <2>2, <2>3
<1>6. q \in Queues
  BY <1>5 DEF OutOf, Queues
<1> QED
  BY <1>1, <1>2, <1>3, <1>4, <1>6

\* The first task is taken from the queue.
Shifted(q) ==
  [k \in Keys |-> IF k[1] = "task" THEN q[AtTask(k[2] + 1)] ELSE q[k]]

LEMMA ShiftedFacts ==
  ASSUME NEW q \in Queues
  PROVE  /\ Shifted(q) \in Queues
         /\ All(Shifted(q)) \subseteq All(q)
         /\ q[AtTask(1)] = <<>> => All(q) \subseteq All(Shifted(q))
         /\ Single(q) => Single(Shifted(q))
         /\ Sorted(q) => Sorted(Shifted(q))
         /\ Shifted(q)[AtWire] = q[AtWire] /\ Shifted(q)[AtBuffer] = q[AtBuffer]
         /\ \A i \in Nat \ {0} : Shifted(q)[AtTask(i)] = q[AtTask(i + 1)]
         /\ \A p \in Pushers : Shifted(q)[AtHand(p)] = q[AtHand(p)]
<1> DEFINE f(k) == IF k[1] = "task" THEN AtTask(k[2] + 1) ELSE k
           m == Shifted(q)
<1>1. \A k \in Keys : m[k] = q[f(k)]
  BY DEF Shifted
<1>2. /\ f(AtWire) = AtWire /\ f(AtBuffer) = AtBuffer
      /\ \A i : f(AtTask(i)) = AtTask(i + 1)
      /\ \A p : f(AtHand(p)) = AtHand(p)
  BY DEF AtWire, AtBuffer, AtTask, AtHand
<1>3. DOMAIN m = Keys
  BY DEF Shifted
<1>4. \A k : k \in Queues <=> k \in [Keys -> Seq(Nat)]
  BY DEF Queues
<1>5. m = [k \in Keys |-> m[k]]
  BY DEF Shifted
<1> HIDE DEF f, m
<1>6. \A k \in Keys : f(k) \in Keys
  BY <1>2, KeyCases, KeysAre
<1>7. ASSUME NEW k \in Keys, NEW l \in Keys, f(k) = f(l) PROVE k = l
  <2>1. ASSUME NEW i \in Nat \ {0}, k = AtTask(i) PROVE k = l
    <3>1. PICK j \in Nat \ {0} : l = AtTask(j)
      BY <1>2, <1>7, <2>1, KeyCases, KeysDiffer
    <3>2. i + 1 = j + 1
      BY <1>2, <1>7, <2>1, <3>1, KeysDiffer
    <3> QED
      BY <2>1, <3>1, <3>2
  <2>2. ASSUME k \in {AtWire, AtBuffer} \/ \E p \in Pushers : k = AtHand(p)
        PROVE  k = l
    <3>1. f(k) = k
      BY <1>2, <2>2
    <3>2. \A i : k # AtTask(i)
      BY <2>2, KeysDiffer
    <3>3. f(l) = l
      <4>1. \A i : l # AtTask(i)
        BY <1>2, <1>7, <3>1, <3>2
      <4> QED
        BY <1>2, <4>1, KeyCases
    <3> QED
      BY <1>7, <3>1, <3>3
  <2> QED
    BY KeyCases, <2>1, <2>2
<1>8. ASSUME NEW k \in Keys, NEW l \in Keys, Ahead(k, l) PROVE Ahead(f(k), f(l))
  <2>1. l # AtWire /\ k # AtBuffer
    BY <1>8, AheadAt
  <2>2. CASE k = AtWire
    <3>1. f(l) # AtWire
      BY <1>2, <1>7, <2>1, KeysAre
    <3> QED
      BY <1>2, <1>6, <2>2, <3>1, AheadAt
  <2>3. ASSUME NEW p \in Pushers, k = AtHand(p) PROVE Ahead(f(k), f(l))
    <3>1. l = AtBuffer
      BY <1>8, <2>1, <2>3, KeyCases, AheadAt
    <3> QED
      BY <1>2, <2>3, <3>1, AheadAt
  <2>4. ASSUME NEW i \in Nat \ {0}, k = AtTask(i) PROVE Ahead(f(k), f(l))
    <3>1. CASE l = AtBuffer \/ \E p \in Pushers : l = AtHand(p)
      BY <1>2, <2>4, <3>1, AheadAt
    <3>2. ASSUME NEW j \in Nat \ {0}, l = AtTask(j) PROVE Ahead(f(k), f(l))
      <4>1. i + 1 < j + 1 /\ i + 1 \in Nat /\ j + 1 \in Nat
        BY <1>8, <2>4, <3>2, AheadAt
      <4>2. f(k) = AtTask(i + 1) /\ f(l) = AtTask(j + 1)
        BY <1>2, <2>4, <3>2
      <4>3. Ahead(AtTask(i + 1), AtTask(j + 1))
        BY <4>1, AheadAt
      <4> QED
        BY <4>2, <4>3
    <3> QED
      BY <2>1, <3>1, <3>2, KeyCases
  <2> QED
    BY <2>1, <2>2, <2>3, <2>4, KeyCases
<1>9. ASSUME NEW l \in Keys, l # AtTask(1) PROVE \E k \in Keys : f(k) = l
  <2>1. ASSUME NEW i \in Nat \ {0}, l = AtTask(i) PROVE \E k \in Keys : f(k) = l
    <3>1. i - 1 \in Nat \ {0} /\ (i - 1) + 1 = i
      BY <1>9, <2>1
    <3>2. f(AtTask(i - 1)) = AtTask((i - 1) + 1)
      BY <1>2
    <3>3. f(AtTask(i - 1)) = l
      BY <2>1, <3>1, <3>2
    <3> QED
      BY <3>1, <3>3, KeysAre
  <2> QED
    BY <1>2, <2>1, KeyCases
<1>10. m \in Queues
  BY <1>1, <1>4, <1>5, <1>6
<1>11. All(m) \subseteq All(q)
  BY <1>1, <1>6 DEF All
<1>12. ASSUME q[AtTask(1)] = <<>> PROVE All(q) \subseteq All(m)
  <2> SUFFICES ASSUME NEW l \in Keys, NEW x \in Contents(q[l]) PROVE x \in All(m)
    BY DEF All
  <2>1. l # AtTask(1)
    BY <1>12, EmptyContents
  <2>2. PICK k \in Keys : f(k) = l
    BY <1>9, <2>1
  <2> QED
    BY <1>1, <2>2 DEF All
<1>13. Single(q) => Single(m)
  BY <1>1, <1>6, <1>7 DEF Single
<1>14. Sorted(q) => Sorted(m)
  BY <1>1, <1>6, <1>8 DEF Sorted
<1>15. \A i \in Nat \ {0} : m[AtTask(i)] = q[AtTask(i + 1)]
  BY <1>1, <1>2, KeysAre
<1>16. /\ m[AtWire] = q[AtWire] /\ m[AtBuffer] = q[AtBuffer]
       /\ \A p \in Pushers : m[AtHand(p)] = q[AtHand(p)]
  BY <1>1, <1>2, KeysAre
<1> QED
  BY <1>10, <1>11, <1>12, <1>13, <1>14, <1>15, <1>16 DEF m
-----------------------------------------------------------------------------
(* The way of the outputs *)

\* What "no two threads between the session and the wire" comes to.
Alone ==
  ~mixed =>
    /\ \A p, r \in Pushers : Busy(p) /\ Busy(r) => p = r
    /\ (\E p \in Pushers : Busy(p)) \/ tasks # <<>> => stage \in {"idle", "closed"}

\* Between the two steps of GetMessage the copy is what the buffer still has.
Copied ==
  ~mixed =>
    /\ stage \in {"self taken", "send taken"} => message = buffer
    /\ \A p \in Pushers : pushing[p] = "take" => hand[p] = buffer

\* OutputInOrder, of every place there can be.
Kept ==
  ~mixed =>
    /\ All(Out) \subseteq 1..made
    /\ stage # "closed" => 1..made \subseteq All(Out) /\ Single(Out) /\ Sorted(Out)

Outputs == OutputTyped /\ Alone /\ Copied /\ Kept

LEMMA InHandsTyped == OutputTyped => InHands \in [Pushers -> Seq(Nat)]
BY EmptyContents DEF OutputTyped, InHands, InHand

LEMMA OutNow ==
  ASSUME OutputTyped
  PROVE  /\ Out \in Queues /\ Out[AtWire] = wire /\ Out[AtBuffer] = buffer
         /\ \A i \in Nat \ {0} : Out[AtTask(i)] = Task(tasks, i)
         /\ \A p \in Pushers : Out[AtHand(p)] = InHand(p)
<1>1. /\ wire \in Seq(Nat) /\ buffer \in Seq(Nat) /\ tasks \in Seq(Seq(Nat))
      /\ InHands \in [Pushers -> Seq(Nat)]
  BY InHandsTyped DEF OutputTyped
<1>2. /\ Out \in Queues /\ Out[AtWire] = wire /\ Out[AtBuffer] = buffer
      /\ \A i \in Nat \ {0} : Out[AtTask(i)] = Task(tasks, i)
      /\ \A p \in Pushers : Out[AtHand(p)] = InHands[p]
  BY <1>1, OutAt DEF Out
<1>3. \A p \in Pushers : InHands[p] = InHand(p)
  BY DEF InHands
<1> QED
  BY <1>2, <1>3

LEMMA OutThen ==
  ASSUME OutputTyped', NEW q \in Queues, q[AtWire] = wire', q[AtBuffer] = buffer',
         \A i \in Nat \ {0} : q[AtTask(i)] = Task(tasks', i),
         \A p \in Pushers : q[AtHand(p)] = InHand(p)'
  PROVE  Out' = q
<1>1. /\ wire' \in Seq(Nat) /\ buffer' \in Seq(Nat) /\ tasks' \in Seq(Seq(Nat))
      /\ InHands' \in [Pushers -> Seq(Nat)]
  <2>1. ASSUME NEW p \in Pushers PROVE InHand(p)' \in Seq(Nat)
    BY EmptyContents DEF OutputTyped, InHand
  <2>2. InHands' = [p \in Pushers |-> InHand(p)']
    BY DEF InHands
  <2> QED
    BY <2>1, <2>2 DEF OutputTyped
<1>2. /\ Out' \in Queues /\ Out'[AtWire] = wire' /\ Out'[AtBuffer] = buffer'
      /\ \A i \in Nat \ {0} : Out'[AtTask(i)] = Task(tasks', i)
      /\ \A p \in Pushers : Out'[AtHand(p)] = InHands'[p]
  BY <1>1, OutAt DEF Out
<1>3. \A p \in Pushers : InHands'[p] = InHand(p)'
  BY DEF InHands
<1>4. \A k \in Keys : Out'[k] = q[k]
  BY <1>2, <1>3, KeyCases
<1> QED
  BY <1>2, <1>4 DEF Queues

LEMMA TailTasks ==
  ASSUME OutputTyped, tasks # <<>>
  PROVE  /\ Tail(tasks) \in Seq(Seq(Nat)) /\ Head(tasks) \in Seq(Nat)
         /\ Task(tasks, 1) = Head(tasks)
         /\ \A i \in Nat \ {0} : Task(Tail(tasks), i) = Task(tasks, i + 1)
<1>1. tasks \in Seq(Seq(Nat)) /\ Len(tasks) \in Nat \ {0} /\ DOMAIN tasks = 1..Len(tasks)
  BY LenProperties, EmptySeq DEF OutputTyped
<1>2. /\ Tail(tasks) \in Seq(Seq(Nat)) /\ Head(tasks) \in Seq(Nat)
      /\ Len(Tail(tasks)) = Len(tasks) - 1
      /\ \A i \in 1..Len(Tail(tasks)) : Tail(tasks)[i] = tasks[i + 1]
  BY <1>1, HeadTailProperties
<1>3. DOMAIN Tail(tasks) = 1..(Len(tasks) - 1)
  BY <1>2, LenProperties
<1>4. Task(tasks, 1) = Head(tasks)
  BY <1>1 DEF Task
<1>5. ASSUME NEW i \in Nat \ {0} PROVE Task(Tail(tasks), i) = Task(tasks, i + 1)
  <2>1. i \in DOMAIN Tail(tasks) <=> i + 1 \in DOMAIN tasks
    BY <1>1, <1>3
  <2>2. i \in DOMAIN Tail(tasks) => Tail(tasks)[i] = tasks[i + 1]
    BY <1>2, <1>3
  <2> QED
    BY <2>1, <2>2 DEF Task
<1> QED
  BY <1>2, <1>4, <1>5

\* What each step that calls nghttp2_session_send does to the output.
LEMMA EmitsOrNot ==
  ASSUME React \/ Answer \/ PushToSelf \/ \E p \in Pushers : PushMessage(p)
  PROVE  UNCHANGED <<message, hand, tasks, wire, mixed>> /\ (Emit \/ EmitNothing)
<1>1. CASE React
  BY <1>1 DEF React, ParseRequest
<1>2. CASE Answer
  BY <1>2 DEF Answer
<1>3. CASE PushToSelf
  BY <1>3 DEF PushToSelf, Push
<1>4. ASSUME NEW p \in Pushers, PushMessage(p)
      PROVE  UNCHANGED <<message, hand, tasks, wire, mixed>> /\ (Emit \/ EmitNothing)
  BY <1>4 DEF PushMessage, Push
<1> QED
  BY <1>1, <1>2, <1>3, <1>4

LEMMA OutputTypeStep ==
  ASSUME SessionTyped, OutputTyped, [HttpNext]_httpVars PROVE OutputTyped'
<1>1. CASE UNCHANGED output
  BY <1>1 DEF OutputTyped, output
<1>2. CASE \/ OnMessage \/ ReadFrame \/ ResumeBody \/ UNCHANGED httpVars
           \/ \E p \in Pushers : Transport(p)
  <2>1. UNCHANGED output
    BY <1>2 DEF OnMessage, ReadFrame, Settings, Headers, Data, Chunk, Reset,
       ResetPromised, StreamError, ConnectionError, ResumeBody, Transport, httpVars
  <2> QED
    BY <1>1, <2>1
<1>3. CASE React \/ Answer \/ PushToSelf \/ \E p \in Pushers : PushMessage(p)
  <2>1. UNCHANGED <<message, hand, tasks, wire>> /\ (Emit \/ EmitNothing)
    BY <1>3, EmitsOrNot
  <2>2. CASE Emit
    <3>1. made' \in Nat /\ buffer' \in Seq(Nat)
      BY <2>2, AppendProperties DEF OutputTyped, Emit
    <3> QED
      BY <2>1, <3>1 DEF OutputTyped
  <2>3. CASE EmitNothing
    BY <1>1, <2>1, <2>3 DEF EmitNothing, output
  <2> QED
    BY <2>1, <2>2, <2>3
<1>4. CASE Peek
  BY <1>4 DEF Peek, OutputTyped
<1>5. CASE SendToSelf \/ Send
  <2>1. /\ wire' = wire \o message /\ message' = <<>> /\ buffer' = <<>>
        /\ UNCHANGED <<made, hand, tasks>>
    BY <1>5 DEF SendToSelf, Send, Sends, LeftInBuffer
  <2>2. wire' \in Seq(Nat)
    BY <2>1, ConcatProperties DEF OutputTyped
  <2> QED
    BY <2>1, <2>2, EmptyContents DEF OutputTyped
<1>6. ASSUME NEW p \in Pushers, PeekPushed(p) \/ TakePushed(p)
      PROVE  OutputTyped'
  BY <1>6, EmptyContents DEF PeekPushed, TakePushed, LeftInBuffer, OutputTyped
<1>7. ASSUME NEW p \in Pushers, QueuePushed(p) PROVE OutputTyped'
  <2>1. tasks' = Append(tasks, hand[p]) /\ tasks' \in Seq(Seq(Nat))
    BY <1>7, AppendProperties DEF QueuePushed, OutputTyped
  <2>2. hand' \in [Pushers -> Seq(Nat)] /\ UNCHANGED <<made, buffer, message, wire>>
    BY <1>7, EmptyContents DEF QueuePushed, OutputTyped
  <2> QED
    BY <2>1, <2>2 DEF OutputTyped
<1>8. CASE SendInLoop
  <2>1. /\ Tail(tasks) \in Seq(Seq(Nat)) /\ Head(tasks) \in Seq(Nat)
    BY <1>8, TailTasks DEF SendInLoop
  <2>2. wire \o Head(tasks) \in Seq(Nat)
    BY <2>1, ConcatProperties DEF OutputTyped
  <2> QED
    BY <1>8, <2>1, <2>2 DEF SendInLoop, OutputTyped
<1> QED
  BY <1>2, <1>3, <1>4, <1>5, <1>6, <1>7, <1>8 DEF HttpNext

LEMMA KeptSame ==
  ASSUME Kept, UNCHANGED <<made, wire, buffer, tasks>>,
         \A p \in Pushers : InHand(p)' = InHand(p),
         stage' # "closed" => stage # "closed", ~mixed' => ~mixed
  PROVE  Kept'
<1>1. InHands' = InHands
  BY DEF InHands
<1>2. Out' = Out
  BY <1>1 DEF Out
<1> QED
  BY <1>2 DEF Kept

\* nghttp2_session_send.
LEMMA KeptEmit ==
  ASSUME OutputTyped, OutputTyped', Kept, Emit, UNCHANGED <<wire, tasks>>, mixed' = mixed,
         \A p \in Pushers : InHand(p)' = InHand(p), stage' # "closed" => stage # "closed"
  PROVE  Kept'
<1> SUFFICES ASSUME ~mixed PROVE Kept'
  BY DEF Kept
<1> DEFINE q == WithOne(Out, AtBuffer, made + 1)
<1>2. Out \in Queues
  BY OutNow
<1>3. /\ q \in Queues /\ All(q) = All(Out) \union {made + 1}
      /\ Single(Out) => Single(q)
      /\ Sorted(Out) => Sorted(q)
  BY <1>2, WithOneFacts, KeysAre, AheadAt DEF Kept, OutputTyped
<1>4. /\ q[AtBuffer] = Append(buffer, made + 1)
      /\ \A k \in Keys : k # AtBuffer => q[k] = Out[k]
  BY OutNow, KeysAre DEF WithOne, Queues
<1> HIDE DEF q
<1>5. /\ q[AtWire] = wire' /\ q[AtBuffer] = buffer'
      /\ \A i \in Nat \ {0} : q[AtTask(i)] = Task(tasks', i)
      /\ \A p \in Pushers : q[AtHand(p)] = InHand(p)'
  BY <1>4, OutNow, KeysAre, KeysDiffer DEF Emit
<1>7. Out' = q
  BY <1>3, <1>5, OutThen
<1>8. made' = made + 1 /\ made \in Nat /\ 1..(made + 1) = (1..made) \union {made + 1}
  BY DEF Emit, OutputTyped
<1> QED
  BY <1>3, <1>7, <1>8 DEF Kept

LEMMA KeptMoved ==
  ASSUME OutputTyped, Kept, ~mixed, NEW a \in Keys, NEW b \in Keys, a # b,
         Out' = Moved(Out, a, b), made' = made, stage' # "closed" => stage # "closed",
         MayMove(Out, a, b)
  PROVE  Kept'
<1>1. Out \in Queues
  BY OutNow
<1>2. /\ All(Out') = All(Out)
      /\ Single(Out) => Single(Out')
      /\ Sorted(Out) => Sorted(Out')
  BY <1>1, MovedFacts
<1> QED
  BY <1>2 DEF Kept

LEMMA MovedAt ==
  ASSUME NEW q \in Queues, NEW a \in Keys, NEW b \in Keys, a # b
  PROVE  /\ Moved(q, a, b) \in Queues
         /\ Moved(q, a, b)[a] = <<>> /\ Moved(q, a, b)[b] = q[b] \o q[a]
         /\ \A k \in Keys : k # a /\ k # b => Moved(q, a, b)[k] = q[k]
BY MovedFacts DEF Moved, Queues

\* The strings of the pushers and the tasks are empty while the connection's own
\* thread is at work alone.
LEMMA NothingElse ==
  ASSUME OutputTyped, Alone, ~mixed, stage \notin {"idle", "closed"}
  PROVE  \A k \in Keys : k \notin {AtWire, AtBuffer} => Out[k] = <<>>
<1>1. tasks = <<>> /\ \A p \in Pushers : InHand(p) = <<>>
  BY DEF Alone, InHand, Busy
<1>2. \A i \in Nat \ {0} : Task(tasks, i) = <<>>
  BY <1>1 DEF Task
<1> QED
  BY <1>1, <1>2, OutNow, KeyCases

LEMMA KeptSends ==
  ASSUME OutputTyped, OutputTyped', Alone, Copied, Kept, Sends,
         stage \in {"self taken", "send taken"}
  PROVE  Kept'
<1>0. mixed' = mixed
  BY DEF Sends
<1> SUFFICES ASSUME ~mixed PROVE Kept'
  BY <1>0 DEF Kept
<1> DEFINE q == Moved(Out, AtBuffer, AtWire)
<1>1. /\ wire' = wire \o buffer /\ buffer' = <<>>
      /\ UNCHANGED <<made, tasks>>
      /\ \A p \in Pushers : InHand(p)' = InHand(p)
  BY DEF Sends, LeftInBuffer, Copied, InHand
<1>3. /\ q \in Queues /\ q[AtBuffer] = <<>> /\ q[AtWire] = wire \o buffer
      /\ \A k \in Keys : k # AtBuffer /\ k # AtWire => q[k] = Out[k]
  <2>1. Out \in Queues /\ Out[AtWire] = wire /\ Out[AtBuffer] = buffer
    BY OutNow
  <2>2. AtBuffer \in Keys /\ AtWire \in Keys /\ AtBuffer # AtWire
    BY KeysAre, KeysDiffer
  <2> QED
    BY <2>1, <2>2, MovedAt
<1> HIDE DEF q
<1>4. /\ \A i \in Nat \ {0} : q[AtTask(i)] = Task(tasks', i)
      /\ \A p \in Pushers : q[AtHand(p)] = InHand(p)'
  BY <1>1, <1>3, OutNow, KeysAre, KeysDiffer
<1>5. Out' = q
  BY <1>1, <1>3, <1>4, OutThen
<1>6. MayMove(Out, AtBuffer, AtWire)
  <2>1. stage \notin {"idle", "closed"}
    OBVIOUS
  <2>2. \A k \in Keys : k \notin {AtWire, AtBuffer} => Out[k] = <<>>
    BY <2>1, NothingElse
  <2>3. ASSUME NEW k \in Keys
        PROVE  /\ Ahead(AtWire, k) => k # AtWire
               /\ ~Ahead(k, AtWire)
    BY KeyCases, AheadAt
  <2>4. Ahead(AtWire, AtBuffer)
    BY AheadAt, KeysAre, KeysDiffer
  <2> QED
    BY <2>2, <2>3, <2>4 DEF MayMove
<1> QED
  BY <1>1, <1>5, <1>6, KeptMoved, KeysAre, KeysDiffer DEF q

LEMMA KeptTake ==
  ASSUME OutputTyped, OutputTyped', Copied, Kept, SessionTyped,
         NEW p \in Pushers, TakePushed(p)
  PROVE  Kept'
<1>0. mixed' = mixed
  BY DEF TakePushed, history
<1> SUFFICES ASSUME ~mixed PROVE Kept'
  BY <1>0 DEF Kept
<1> DEFINE b == AtHand(p)
           q == Moved(Out, AtBuffer, b)
<1>1. /\ buffer' = <<>> /\ UNCHANGED <<made, tasks, wire, stage>>
      /\ InHand(p) = <<>> /\ InHand(p)' = buffer
      /\ \A r \in Pushers : r # p => InHand(r)' = InHand(r)
  BY DEF TakePushed, LeftInBuffer, Copied, InHand, SessionTyped
<1>2. /\ Out \in Queues /\ Out[b] = InHand(p) /\ Out[AtBuffer] = buffer
      /\ AtBuffer \in Keys /\ b \in Keys /\ AtBuffer # b
  BY OutNow, KeysAre, KeysDiffer
<1> HIDE DEF b
<1>3. /\ q \in Queues /\ q[AtBuffer] = <<>> /\ q[b] = Out[b] \o Out[AtBuffer]
      /\ \A k \in Keys : k # AtBuffer /\ k # b => q[k] = Out[k]
  BY <1>2, MovedAt
<1> HIDE DEF q
<1>4. q[b] = buffer
  <2>1. <<>> \o buffer = buffer
    BY ConcatEmptySeq DEF OutputTyped
  <2>2. Out[b] = <<>> /\ Out[AtBuffer] = buffer
    BY <1>1, <1>2
  <2> QED
    BY <1>3, <2>1, <2>2
<1>5. /\ \A i \in Nat \ {0} : q[AtTask(i)] = Task(tasks', i)
      /\ q[AtWire] = wire' /\ q[AtBuffer] = buffer'
  BY <1>1, <1>3, OutNow, KeysAre, KeysDiffer DEF b
<1>6. \A r \in Pushers : q[AtHand(r)] = InHand(r)'
  <2>1. ASSUME NEW r \in Pushers, r # p PROVE q[AtHand(r)] = InHand(r)'
    BY <1>1, <1>3, <2>1, OutNow, KeysAre, KeysDiffer DEF b
  <2>2. q[AtHand(p)] = InHand(p)'
    BY <1>1, <1>4 DEF b
  <2> QED
    BY <2>1, <2>2
<1>7. Out' = q
  BY <1>3, <1>5, <1>6, OutThen
<1>8. MayMove(Out, AtBuffer, b)
  <2>1. ASSUME NEW k \in Keys PROVE Ahead(AtHand(p), k) => k = AtBuffer
    BY KeyCases, AheadAt, KeysAre
  <2>2. ASSUME NEW k \in Keys PROVE Ahead(k, AtHand(p)) => Ahead(k, AtBuffer)
    BY KeyCases, AheadAt, KeysAre, KeysDiffer
  <2> QED
    BY <2>1, <2>2, AheadAt DEF MayMove, b
<1> QED
  BY <1>1, <1>2, <1>7, <1>8, KeptMoved DEF q

LEMMA KeptQueue ==
  ASSUME OutputTyped, OutputTyped', Alone, Kept, SessionTyped,
         NEW p \in Pushers, QueuePushed(p)
  PROVE  Kept'
<1>0. mixed' = mixed
  BY DEF QueuePushed, history
<1> SUFFICES ASSUME ~mixed PROVE Kept'
  BY <1>0 DEF Kept
<1> DEFINE n == Len(tasks) + 1
           a == AtHand(p)
           b == AtTask(n)
           q == Moved(Out, a, b)
<1>1. /\ tasks' = Append(tasks, hand[p]) /\ InHand(p) = hand[p] /\ InHand(p)' = <<>>
      /\ UNCHANGED <<made, buffer, wire, stage>> /\ Busy(p)
      /\ \A r \in Pushers : r # p => InHand(r)' = InHand(r)
  BY DEF QueuePushed, Busy, InHand, SessionTyped, OutputTyped
<1>3. /\ n \in Nat \ {0} /\ n \notin DOMAIN tasks /\ DOMAIN tasks' = DOMAIN tasks \union {n}
      /\ \A i \in DOMAIN tasks : tasks'[i] = tasks[i] /\ i < n
      /\ tasks'[n] = hand[p]
  <2>1. tasks \in Seq(Seq(Nat)) /\ hand[p] \in Seq(Nat)
    BY DEF OutputTyped
  <2>2. /\ DOMAIN tasks = 1..Len(tasks) /\ Len(tasks) \in Nat
        /\ DOMAIN Append(tasks, hand[p]) = 1..n
        /\ \A i \in 1..Len(tasks) : Append(tasks, hand[p])[i] = tasks[i]
        /\ Append(tasks, hand[p])[n] = hand[p]
    BY <2>1, AppendProperties, LenProperties
  <2> QED
    BY <1>1, <2>2
<1> HIDE DEF n
<1>4. /\ Out \in Queues /\ Out[a] = hand[p] /\ Out[b] = <<>>
      /\ a \in Keys /\ b \in Keys /\ a # b
  BY <1>1, <1>3, OutNow, KeysAre, KeysDiffer DEF Task
<1> HIDE DEF a, b
<1>5. /\ q \in Queues /\ q[a] = <<>> /\ q[b] = Out[b] \o Out[a]
      /\ \A k \in Keys : k # a /\ k # b => q[k] = Out[k]
  BY <1>4, MovedAt
<1> HIDE DEF q
<1>6. q[b] = hand[p]
  <2>1. <<>> \o Out[a] = Out[a]
    BY <1>4, ConcatEmptySeq DEF Queues
  <2> QED
    BY <1>4, <1>5, <2>1
<1>7. q[AtWire] = wire' /\ q[AtBuffer] = buffer'
  BY <1>1, <1>5, OutNow, KeysAre, KeysDiffer DEF a, b
<1>8. \A r \in Pushers : q[AtHand(r)] = InHand(r)'
  <2>1. ASSUME NEW r \in Pushers, r # p PROVE q[AtHand(r)] = InHand(r)'
    BY <1>1, <1>5, <2>1, OutNow, KeysAre, KeysDiffer DEF a, b
  <2>2. q[AtHand(p)] = InHand(p)'
    BY <1>1, <1>5 DEF a
  <2> QED
    BY <2>1, <2>2
<1>9. \A i \in Nat \ {0} : q[AtTask(i)] = Task(tasks', i)
  <2>1. ASSUME NEW i \in Nat \ {0}, i # n PROVE q[AtTask(i)] = Task(tasks', i)
    <3>1. q[AtTask(i)] = Task(tasks, i)
      BY <1>5, <2>1, OutNow, KeysAre, KeysDiffer DEF a, b
    <3>2. Task(tasks', i) = Task(tasks, i)
      BY <1>3, <2>1 DEF Task
    <3> QED
      BY <3>1, <3>2
  <2>2. q[AtTask(n)] = Task(tasks', n)
    BY <1>3, <1>6 DEF Task, b
  <2> QED
    BY <2>1, <2>2
<1>10. Out' = q
  BY <1>5, <1>7, <1>8, <1>9, OutThen
<1>11. MayMove(Out, a, b)
  <2>1. ASSUME NEW k \in Keys, Ahead(AtTask(n), k), k # AtHand(p)
        PROVE  Ahead(AtHand(p), k) \/ Out[k] = <<>>
    <3>1. k # AtWire
      BY <1>3, <2>1, AheadAt, KeysAre
    <3>2. CASE k = AtBuffer
      BY <3>2, AheadAt
    <3>3. ASSUME NEW i \in Nat \ {0}, k = AtTask(i) PROVE Out[k] = <<>>
      <4>1. n < i
        BY <1>3, <2>1, <3>3, AheadAt
      <4>2. i \notin DOMAIN tasks
        BY <1>3, <4>1
      <4> QED
        BY <3>3, <4>2, OutNow DEF Task
    <3>4. ASSUME NEW r \in Pushers, k = AtHand(r) PROVE Out[k] = <<>>
      <4>1. r # p
        BY <2>1, <3>4
      <4>2. ~Busy(r)
        BY <1>1, <4>1 DEF Alone
      <4>3. InHand(r) = <<>>
        BY <4>2 DEF InHand, Busy
      <4> QED
        BY <3>4, <4>3, OutNow
    <3> QED
      BY <3>1, <3>2, <3>3, <3>4, KeyCases
  <2>2. ASSUME NEW k \in Keys, Ahead(k, AtTask(n)) PROVE Ahead(k, AtHand(p))
    BY <1>3, <2>2, KeyCases, AheadAt, KeysAre, KeysDiffer
  <2> QED
    BY <2>1, <2>2, AheadAt DEF MayMove, a, b
<1> QED
  BY <1>1, <1>4, <1>10, <1>11, KeptMoved DEF q

LEMMA KeptInLoop ==
  ASSUME OutputTyped, OutputTyped', Kept, SendInLoop PROVE Kept'
<1>0. mixed' = mixed
  BY DEF SendInLoop, history
<1> SUFFICES ASSUME ~mixed PROVE Kept'
  BY <1>0 DEF Kept
<1>1. /\ stage \in {"idle", "closed"} /\ tasks # <<>> /\ tasks' = Tail(tasks)
      /\ wire' = IF stage = "idle" THEN wire \o Head(tasks) ELSE wire
      /\ UNCHANGED <<made, buffer, stage>>
      /\ \A p \in Pushers : InHand(p)' = InHand(p)
  BY DEF SendInLoop, InHand
<1>3. CASE stage = "idle"
  <2> DEFINE a == AtTask(1)
             q == Moved(Out, a, AtWire)
             r == Shifted(q)
  <2>1. /\ Out \in Queues /\ Out[AtWire] = wire /\ Out[a] = Head(tasks)
        /\ a \in Keys /\ AtWire \in Keys /\ a # AtWire
    BY <1>1, OutNow, TailTasks, KeysAre, KeysDiffer
  <2> HIDE DEF a
  <2>2. /\ q \in Queues /\ q[a] = <<>> /\ q[AtWire] = Out[AtWire] \o Out[a]
        /\ \A k \in Keys : k # a /\ k # AtWire => q[k] = Out[k]
    BY <2>1, MovedAt
  <2>3. All(q) = All(Out) /\ (Single(Out) => Single(q))
    BY <2>1, MovedFacts
  <2>4. Sorted(Out) /\ MayMove(Out, a, AtWire) => Sorted(q)
    BY <2>1, MovedFacts
  <2> HIDE DEF q
  <2>5. /\ r \in Queues /\ r[AtWire] = q[AtWire] /\ r[AtBuffer] = q[AtBuffer]
        /\ \A i \in Nat \ {0} : r[AtTask(i)] = q[AtTask(i + 1)]
        /\ \A p \in Pushers : r[AtHand(p)] = q[AtHand(p)]
    BY <2>2, ShiftedFacts
  <2>6. All(r) = All(q) /\ (Single(q) => Single(r)) /\ (Sorted(q) => Sorted(r))
    BY <2>2, ShiftedFacts DEF a
  <2> HIDE DEF r
  <2>7. r[AtWire] = wire' /\ r[AtBuffer] = buffer'
    BY <1>1, <1>3, <2>1, <2>2, <2>5, OutNow, KeysAre, KeysDiffer DEF a
  <2>8. \A p \in Pushers : r[AtHand(p)] = InHand(p)'
    BY <1>1, <2>2, <2>5, OutNow, KeysAre, KeysDiffer DEF a
  <2>9. ASSUME NEW i \in Nat \ {0} PROVE r[AtTask(i)] = Task(tasks', i)
    <3>1. i + 1 \in Nat \ {0} /\ i + 1 # 1
      OBVIOUS
    <3>2. q[AtTask(i + 1)] = Task(tasks, i + 1)
      BY <2>2, <3>1, OutNow, KeysAre, KeysDiffer DEF a
    <3> QED
      BY <1>1, <2>5, <3>2, TailTasks
  <2>10. Out' = r
    BY <2>5, <2>7, <2>8, <2>9, OutThen
  <2>11. MayMove(Out, a, AtWire)
    <3>1. ASSUME NEW k \in Keys, k # AtTask(1), k # AtWire PROVE Ahead(AtTask(1), k)
      <4>1. ASSUME NEW i \in Nat \ {0}, k = AtTask(i) PROVE Ahead(AtTask(1), k)
        BY <3>1, <4>1, AheadAt
      <4> QED
        BY <3>1, <4>1, KeyCases, AheadAt
    <3> QED
      BY <2>1, <3>1, AheadAt DEF MayMove, a
  <2>12. /\ All(Out') = All(Out)
         /\ Single(Out) => Single(Out')
         /\ Sorted(Out) => Sorted(Out')
    BY <2>3, <2>4, <2>6, <2>10, <2>11
  <2> QED
    BY <1>1, <2>12 DEF Kept
<1>4. CASE stage = "closed"
  <2> DEFINE r == Shifted(Out)
  <2>1. /\ r \in Queues /\ r[AtWire] = Out[AtWire] /\ r[AtBuffer] = Out[AtBuffer]
        /\ \A i \in Nat \ {0} : r[AtTask(i)] = Out[AtTask(i + 1)]
        /\ \A p \in Pushers : r[AtHand(p)] = Out[AtHand(p)]
        /\ All(r) \subseteq All(Out)
    BY OutNow, ShiftedFacts
  <2> HIDE DEF r
  <2>2. /\ r[AtWire] = wire' /\ r[AtBuffer] = buffer'
        /\ \A p \in Pushers : r[AtHand(p)] = InHand(p)'
    BY <1>1, <1>4, <2>1, OutNow
  <2>3. ASSUME NEW i \in Nat \ {0} PROVE r[AtTask(i)] = Task(tasks', i)
    <3>1. i + 1 \in Nat \ {0}
      OBVIOUS
    <3>2. Out[AtTask(i + 1)] = Task(tasks, i + 1)
      BY <3>1, OutNow
    <3> QED
      BY <1>1, <2>1, <3>2, TailTasks
  <2>4. Out' = r
    BY <2>1, <2>2, <2>3, OutThen
  <2> QED
    BY <1>1, <1>4, <2>1, <2>4 DEF Kept
<1> QED
  BY <1>1, <1>3, <1>4

\* Steps that leave the output and the threads at it alone.
LEMMA OutputSame ==
  ASSUME \/ ReadFrame \/ ResumeBody \/ UNCHANGED httpVars
  PROVE  /\ UNCHANGED <<output, pushing, mixed>>
         /\ \/ stage' = stage
            \/ stage \notin {"idle", "closed"} /\ stage' = "undefined"
<1>1. CASE ResumeBody
  BY <1>1 DEF ResumeBody, Reading, history
<1>2. CASE Settings \/ ResetPromised \/ ConnectionError
  BY <1>2 DEF Settings, ResetPromised, ConnectionError, history
<1>3. ASSUME NEW s \in Streams, Chunk(s) \/ Reset(s) \/ StreamError(s)
      PROVE  UNCHANGED <<output, pushing, mixed, stage>>
  BY <1>3 DEF Chunk, Reset, StreamError, history
<1>4. ASSUME NEW s \in Streams, NEW last \in BOOLEAN, Headers(s, last) \/ Data(s, last)
      PROVE  UNCHANGED <<output, pushing, mixed, stage>>
  BY <1>4 DEF Headers, Data
<1>5. CASE UNCHANGED httpVars
  BY <1>5 DEF httpVars, history
<1> QED
  BY <1>1, <1>2, <1>3, <1>4, <1>5 DEF ReadFrame

\* Steps of the connection's own thread between "parse" and the end of OnMessage.
LEMMA OwnSteps ==
  ASSUME React \/ Answer \/ PushToSelf \/ Peek \/ SendToSelf \/ Send
  PROVE  /\ UNCHANGED <<tasks, pushing, hand, mixed>> /\ stage \notin {"idle", "closed"}
         /\ ~Peek => stage' \notin {"self taken", "send taken"}
<1>1. CASE React
  BY <1>1 DEF React
<1>2. CASE Answer
  BY <1>2 DEF Answer
<1>3. CASE PushToSelf
  BY <1>3 DEF PushToSelf
<1>4. CASE Peek
  BY <1>4 DEF Peek, history
<1>5. CASE SendToSelf \/ Send
  BY <1>5 DEF SendToSelf, Send, Sends
<1> QED
  BY <1>1, <1>2, <1>3, <1>4, <1>5

\* Steps of a pusher that has read push_id_.
LEMMA PusherSteps ==
  ASSUME SessionTyped, NEW p \in Pushers,
         PushMessage(p) \/ PeekPushed(p) \/ TakePushed(p) \/ QueuePushed(p)
  PROVE  /\ UNCHANGED <<stage, mixed, message>> /\ Busy(p)
         /\ \A r \in Pushers : r # p => pushing'[r] = pushing[r]
<1>1. CASE PushMessage(p)
  BY <1>1 DEF PushMessage, Push, Busy, SessionTyped
<1>2. CASE PeekPushed(p) \/ TakePushed(p) \/ QueuePushed(p)
  BY <1>2 DEF PeekPushed, TakePushed, QueuePushed, Busy, SessionTyped, history
<1> QED
  BY <1>1, <1>2

LEMMA AloneStep ==
  ASSUME SessionTyped, OutputTyped, Alone, [HttpNext]_httpVars PROVE Alone'
<1>1. CASE UNCHANGED <<stage, tasks, pushing, mixed>>
  BY <1>1 DEF Alone, Busy
<1>2. CASE OnMessage
  BY <1>2 DEF OnMessage, Alone, Busy, output
<1>3. CASE ReadFrame \/ ResumeBody \/ UNCHANGED httpVars
  <2>1. UNCHANGED <<tasks, pushing, mixed>>
    BY <1>3, OutputSame DEF output
  <2>2. stage' = stage \/ stage \notin {"idle", "closed"}
    BY <1>3, OutputSame
  <2> QED
    BY <2>1, <2>2 DEF Alone, Busy
<1>4. CASE React \/ Answer \/ PushToSelf \/ Peek \/ SendToSelf \/ Send
  <2>1. UNCHANGED <<tasks, pushing, mixed>> /\ stage \notin {"idle", "closed"}
    BY <1>4, OwnSteps
  <2> QED
    BY <2>1 DEF Alone, Busy
<1>5. CASE SendInLoop
  BY <1>5 DEF SendInLoop, Alone, Busy, history
<1>6. ASSUME NEW p \in Pushers, Transport(p) PROVE Alone'
  <2>1. /\ pushing' = [pushing EXCEPT ![p] = "push"] /\ UNCHANGED <<stage, tasks>>
        /\ mixed' = (mixed \/ stage \notin {"idle", "closed"} \/ \E r \in Pushers : Busy(r))
    BY <1>6 DEF Transport, output
  <2>2. ~mixed' => stage \in {"idle", "closed"} /\ \A r \in Pushers : ~Busy(r)
    BY <2>1
  <2>3. \A r \in Pushers : Busy(r)' => Busy(r) \/ r = p
    BY <2>1 DEF Busy, SessionTyped
  <2> QED
    BY <2>1, <2>2, <2>3 DEF Alone
<1>7. ASSUME NEW p \in Pushers,
             PushMessage(p) \/ PeekPushed(p) \/ TakePushed(p) \/ QueuePushed(p)
      PROVE  Alone'
  <2>1. UNCHANGED <<stage, mixed>> /\ Busy(p) /\ \A r \in Pushers : Busy(r)' => Busy(r)
    BY <1>7, PusherSteps DEF Busy
  <2> QED
    BY <2>1 DEF Alone
<1> QED
  BY <1>2, <1>3, <1>4, <1>5, <1>6, <1>7 DEF HttpNext

LEMMA CopiedStep ==
  ASSUME SessionTyped, OutputTyped, Alone, Copied, [HttpNext]_httpVars PROVE Copied'
<1>1. CASE UNCHANGED <<buffer, message, hand, pushing>> /\ (~mixed' => ~mixed)
           /\ (stage' \in {"self taken", "send taken"} => stage' = stage)
  BY <1>1 DEF Copied
<1>2. CASE OnMessage
  BY <1>1, <1>2 DEF OnMessage, output
<1>3. CASE ReadFrame \/ ResumeBody \/ UNCHANGED httpVars
  BY <1>1, <1>3, OutputSame DEF output
<1>4. CASE Peek
  BY <1>4 DEF Peek, Copied, history
<1>5. CASE React \/ Answer \/ PushToSelf \/ SendToSelf \/ Send
  <2>1. /\ UNCHANGED <<pushing, mixed>> /\ stage \notin {"idle", "closed"}
        /\ stage' \notin {"self taken", "send taken"}
    <3>1. ~Peek
      BY <1>5 DEF Peek, React, Answer, PushToSelf, SendToSelf, Send
    <3> QED
      BY <1>5, <3>1, OwnSteps
  <2>2. ~mixed => \A p \in Pushers : pushing[p] # "take"
    BY <2>1 DEF Alone, Busy
  <2> QED
    BY <2>1, <2>2 DEF Copied
<1>6. CASE SendInLoop
  BY <1>1, <1>6 DEF SendInLoop, history
<1>7. ASSUME NEW p \in Pushers, Transport(p) PROVE Copied'
  <2>1. /\ UNCHANGED <<buffer, message, hand, stage>> /\ (~mixed' => ~mixed)
        /\ \A r \in Pushers : pushing'[r] = "take" => pushing[r] = "take"
    BY <1>7 DEF Transport, output, SessionTyped
  <2> QED
    BY <2>1 DEF Copied
<1>8. ASSUME NEW p \in Pushers,
             PushMessage(p) \/ PeekPushed(p) \/ TakePushed(p) \/ QueuePushed(p)
      PROVE  Copied'
  <2>1. /\ UNCHANGED <<stage, mixed, message>> /\ Busy(p)
        /\ \A r \in Pushers : r # p => pushing'[r] = pushing[r]
    BY <1>8, PusherSteps
  <2>2. ~mixed => /\ stage \notin {"self taken", "send taken"}
                  /\ \A r \in Pushers : r # p => pushing[r] # "take"
    BY <2>1 DEF Alone, Busy
  <2>3. pushing'[p] = "take" => hand'[p] = buffer'
    BY <1>8 DEF PushMessage, PeekPushed, TakePushed, QueuePushed, SessionTyped, OutputTyped
  <2> QED
    BY <2>1, <2>2, <2>3 DEF Copied
<1> QED
  BY <1>2, <1>3, <1>4, <1>5, <1>6, <1>7, <1>8 DEF HttpNext

LEMMA OutputsStep ==
  ASSUME SessionTyped, Outputs, [HttpNext]_httpVars PROVE Outputs'
<1>1. OutputTyped /\ Alone /\ Copied /\ Kept
  BY DEF Outputs
<1>2. OutputTyped' /\ Alone' /\ Copied'
  BY <1>1, OutputTypeStep, AloneStep, CopiedStep
<1>3. SUFFICES Kept'
  BY <1>2 DEF Outputs
<1>4. CASE OnMessage
  <2>1. /\ UNCHANGED <<made, wire, buffer, tasks, hand, pushing>> /\ stage # "closed"
        /\ ~mixed' => ~mixed
    BY <1>4 DEF OnMessage, output
  <2>2. \A p \in Pushers : InHand(p)' = InHand(p)
    BY <2>1 DEF InHand
  <2> QED
    BY <1>1, <2>1, <2>2, KeptSame
<1>5. CASE ReadFrame \/ ResumeBody \/ UNCHANGED httpVars
  <2>1. /\ UNCHANGED <<made, wire, buffer, tasks, hand, pushing, mixed>>
        /\ stage' # "closed" => stage # "closed"
    BY <1>5, OutputSame DEF output
  <2>2. \A p \in Pushers : InHand(p)' = InHand(p)
    BY <2>1 DEF InHand
  <2> QED
    BY <1>1, <2>1, <2>2, KeptSame
<1>6. CASE React \/ Answer \/ PushToSelf \/ \E p \in Pushers : PushMessage(p)
  <2>1. UNCHANGED <<hand, tasks, wire, mixed>> /\ (Emit \/ EmitNothing)
    BY <1>6, EmitsOrNot
  <2>2. /\ stage' # "closed" => stage # "closed"
        /\ \A p \in Pushers : pushing'[p] = "queue" <=> pushing[p] = "queue"
    BY <1>6 DEF React, Answer, PushToSelf, PushMessage, SessionTyped
  <2>3. \A p \in Pushers : InHand(p)' = InHand(p)
    BY <2>1, <2>2 DEF InHand
  <2>4. CASE Emit
    BY <1>1, <1>2, <2>1, <2>2, <2>3, <2>4, KeptEmit
  <2>5. CASE EmitNothing
    BY <1>1, <2>1, <2>2, <2>3, <2>5, KeptSame DEF EmitNothing
  <2> QED
    BY <2>1, <2>4, <2>5
<1>7. CASE Peek
  <2>1. /\ UNCHANGED <<made, wire, buffer, tasks, hand, pushing, mixed>>
        /\ stage # "closed"
    BY <1>7 DEF Peek, history
  <2>2. \A p \in Pushers : InHand(p)' = InHand(p)
    BY <2>1 DEF InHand
  <2> QED
    BY <1>1, <2>1, <2>2, KeptSame
<1>8. CASE SendToSelf \/ Send
  <2>1. Sends /\ stage \in {"self taken", "send taken"}
    BY <1>8 DEF SendToSelf, Send
  <2> QED
    BY <1>1, <1>2, <2>1, KeptSends
<1>9. CASE SendInLoop
  BY <1>1, <1>2, <1>9, KeptInLoop
<1>10. ASSUME NEW p \in Pushers, Transport(p) \/ PeekPushed(p) PROVE Kept'
  <2>1. /\ UNCHANGED <<made, wire, buffer, tasks, stage>> /\ (~mixed' => ~mixed)
        /\ pushing'[p] # "queue" /\ pushing[p] # "queue"
        /\ \A r \in Pushers : r # p => pushing'[r] = pushing[r] /\ hand'[r] = hand[r]
    <3>1. CASE Transport(p)
      BY <3>1 DEF Transport, Busy, output, SessionTyped
    <3>2. CASE PeekPushed(p)
      <4>1. UNCHANGED <<made, wire, buffer, tasks, stage, mixed>>
        BY <3>2 DEF PeekPushed, history
      <4>2. pushing[p] = "peek" /\ pushing' = [pushing EXCEPT ![p] = "take"]
        BY <3>2 DEF PeekPushed
      <4>3. hand' = [hand EXCEPT ![p] = buffer]
        BY <3>2 DEF PeekPushed
      <4>4. pushing'[p] # "queue" /\ pushing[p] # "queue"
        BY <4>2 DEF SessionTyped
      <4>5. \A r \in Pushers : r # p => pushing'[r] = pushing[r] /\ hand'[r] = hand[r]
        <5>1. \A r \in Pushers : r # p => pushing'[r] = pushing[r]
          BY <4>2 DEF SessionTyped
        <5>2. \A r \in Pushers : r # p => hand'[r] = hand[r]
          BY <4>3 DEF OutputTyped
        <5> QED
          BY <5>1, <5>2
      <4> QED
        BY <4>1, <4>4, <4>5
    <3> QED
      BY <1>10, <3>1, <3>2
  <2>2. \A r \in Pushers : InHand(r)' = InHand(r)
    BY <2>1 DEF InHand
  <2> QED
    BY <1>1, <2>1, <2>2, KeptSame
<1>11. ASSUME NEW p \in Pushers, TakePushed(p) \/ QueuePushed(p) PROVE Kept'
  BY <1>1, <1>2, <1>11, KeptTake, KeptQueue
<1> QED
  BY <1>4, <1>5, <1>6, <1>7, <1>8, <1>9, <1>10, <1>11 DEF HttpNext

\* What Kept says of every place there can be, OutputInOrder says of those there are.
LEMMA KeptInOrder == Outputs => OutputInOrder
<1> SUFFICES ASSUME Outputs, ~mixed, stage # "closed" PROVE OutputInOrder
  BY DEF OutputInOrder
<1>1. OutputTyped /\ Kept /\ DOMAIN tasks \subseteq Nat \ {0}
  BY DEF Outputs, OutputTyped
<1>2. /\ Places \subseteq Keys /\ AtWire \in Places /\ AtBuffer \in Places
      /\ \A i \in DOMAIN tasks : AtTask(i) \in Places
      /\ \A p \in Pushers : AtHand(p) \in Places
  BY <1>1 DEF Places, Keys, AtWire, AtBuffer, AtTask, AtHand
<1>3. /\ Held(AtWire) = wire /\ Held(AtBuffer) = buffer
      /\ \A i : Held(AtTask(i)) = tasks[i]
      /\ \A p : Held(AtHand(p)) = InHand(p)
  BY DEF Held, AtWire, AtBuffer, AtTask, AtHand
<1>4. ASSUME NEW k \in Places PROVE k \in Keys /\ Held(k) = Out[k]
  <2>1. ASSUME NEW i \in Nat \ {0}, k = AtTask(i) PROVE Held(k) = Out[k]
    <3>1. i \in DOMAIN tasks
      BY <2>1 DEF Places, AtTask
    <3> QED
      BY <1>1, <1>3, <2>1, <3>1, OutNow DEF Task
  <2> QED
    BY <1>1, <1>2, <1>3, <2>1, OutNow, KeyCases
<1>5. ASSUME NEW k \in Keys, k \notin Places PROVE Contents(Out[k]) = {}
  <2>1. PICK i \in Nat \ {0} : k = AtTask(i) /\ i \notin DOMAIN tasks
    BY <1>2, <1>5, KeyCases
  <2>2. Out[k] = <<>>
    BY <1>1, <2>1, OutNow DEF Task
  <2> QED
    BY <2>2, EmptyContents
<1>6. UNION {{Held(k)[i] : i \in DOMAIN Held(k)} : k \in Places} = All(Out)
  <2>1. \A k \in Places : {Held(k)[i] : i \in DOMAIN Held(k)} = Contents(Out[k])
    BY <1>4 DEF Contents
  <2>2. UNION {Contents(Out[k]) : k \in Places} = All(Out)
    BY <1>2, <1>5 DEF All
  <2> QED
    BY <2>1, <2>2
<1>7. All(Out) = 1..made /\ Single(Out) /\ Sorted(Out)
  BY <1>1 DEF Kept
<1>8. ASSUME NEW k \in Places, NEW l \in Places,
             NEW i \in DOMAIN Held(k), NEW j \in DOMAIN Held(l)
      PROVE  /\ Held(k)[i] = Held(l)[j] => k = l /\ i = j
             /\ Ahead(k, l) \/ (k = l /\ i < j) => Held(k)[i] < Held(l)[j]
  <2>1. /\ Held(k)[i] \in Contents(Out[k]) /\ Held(l)[j] \in Contents(Out[l])
        /\ k \in Keys /\ l \in Keys /\ Held(k) = Out[k] /\ Held(l) = Out[l]
    BY <1>4 DEF Contents
  <2>2. Held(k)[i] = Held(l)[j] => k = l /\ i = j
    BY <2>1, <1>7 DEF Single, OneToOne
  <2>3. ASSUME Ahead(k, l) PROVE Held(k)[i] < Held(l)[j]
    BY <2>1, <1>7, <2>3 DEF Sorted, Below
  <2>4. ASSUME k = l, i < j PROVE Held(k)[i] < Held(l)[j]
    BY <2>1, <1>7, <2>4 DEF Sorted, Upwards
  <2> QED
    BY <2>2, <2>3, <2>4
<1> QED
  BY <1>6, <1>7, <1>8 DEF OutputInOrder

HttpInv == SessionTyped /\ Answers /\ Outputs

LEMMA HttpBegins == HttpInit => HttpInv
<1> SUFFICES ASSUME HttpInit PROVE HttpInv
  OBVIOUS
<1> USE DEF HttpInit
<1>1. SessionTyped
  <2>1. parse_ok \in BOOLEAN /\ mixed \in BOOLEAN
    BY Zenon
  <2>2. /\ requests \in [Streams -> {"none", "data", "complete"}]
        /\ handled \in [Streams -> {"no", "early", "once", "again"}]
        /\ pushing \in [Pushers -> {"idle", "push", "peek", "take", "queue"}]
    OBVIOUS
  <2>3. init \in 0..2 /\ handshake \in 0..2 /\ init <= handshake
    OBVIOUS
  <2>4. {answered, ended, failing, reset, batch, crossed} \subseteq SUBSET Streams
    OBVIOUS
  <2> QED
    BY <2>1, <2>2, <2>3, <2>4 DEF SessionTyped
<1>2. Answers
  BY DEF Answers, Started, Waiting, Owing, Owed, Handling, Asked, Settled, NoneAgain
<1>3. OutputTyped
  BY EmptyContents DEF OutputTyped
<1>4. Alone /\ Copied
  BY DEF Alone, Copied, Busy
<1>5. ASSUME NEW k \in Keys PROVE Out[k] = <<>>
  <2>1. wire = <<>> /\ buffer = <<>> /\ \A p \in Pushers : InHand(p) = <<>>
    BY DEF InHand
  <2>2. \A i \in Nat \ {0} : Task(tasks, i) = <<>>
    BY DEF Task
  <2> QED
    BY <1>3, <2>1, <2>2, OutNow, KeyCases
<1>6. All(Out) = {}
  BY <1>5, EmptyContents DEF All
<1>7. Single(Out) /\ Sorted(Out)
  BY <1>5, EmptyContents DEF Single, Sorted, Below
<1>8. Kept
  BY <1>6, <1>7 DEF Kept
<1> QED
  BY <1>1, <1>2, <1>3, <1>4, <1>8 DEF HttpInv, Outputs

LEMMA HttpInductive == HttpSpec => []HttpInv
<1>1. HttpInv /\ [HttpNext]_httpVars => HttpInv'
  BY SessionTypeStep, AnswersStep, OutputsStep DEF HttpInv
<1> QED
  BY HttpBegins, <1>1, PTL DEF HttpSpec

\* The variables of a connection and of its session keep their types: no request is
\* handled that is gone and not answered, what waits for the window has an answer, a
\* stream that was reset has no request, and no reset stays to be sent when OnMessage
\* returns (HttpContext, HttpServer::OnMessage and Onrequest).
THEOREM HttpTyping == HttpSpec => []HttpTypeOK
<1>1. HttpInv => HttpTypeOK
  BY TypedInTwo DEF HttpInv, Outputs
<1> QED
  BY <1>1, HttpInductive, PTL

\* Whatever streams a client opens, resets or gets wrong, and however it cuts them into
\* batches, a request that has ended is answered when OnMessage returns, with the
\* exceptions that AnsweredOnce names, and no handler runs a second time for a request
\* whose answer does not wait for the window (HttpServer::OnMessage, HttpContext's
\* callbacks, on_stream_close_callback among them).
THEOREM RequestsAnsweredOnce == HttpSpec => []AnsweredOnce
<1>1. HttpInv => AnsweredOnce
  BY AnswersOnce DEF HttpInv
<1> QED
  BY <1>1, HttpInductive, PTL

\* As long as no two threads were between the session and the wire at once, what
\* nghttp2 has made is neither lost nor sent twice while the connection is open, and it
\* leaves in the order in which it was made, though several threads push one after the
\* other and GetMessage is two steps (HttpContext::GetMessage, User::HandleTransport,
\* TcpConnection::Send).
THEOREM OutputLeavesInOrder == HttpSpec => []OutputInOrder
<1>1. HttpInv => OutputInOrder
  BY KeptInOrder DEF HttpInv
<1> QED
  BY <1>1, HttpInductive, PTL
=============================================================================
