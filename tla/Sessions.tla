------------------------------ MODULE Sessions ------------------------------
(***************************************************************************)
(* Who is logged in where: users_ and id_conn_ of HttpServer, user_ of     *)
(* every TcpConnection, and the handlers of business/User.cpp that use     *)
(* them.  A connection's handlers run on its loop's thread, one at a time; *)
(* those of different connections interleave between critical sections.    *)
(* A User is the number of the login that made it.  What follows the use   *)
(* of a User that has been freed is undefined, so the model ends there.    *)
(***************************************************************************)
EXTENDS Naturals, Sequences

CONSTANTS Conns, Users,
          NoConn,    \* no entry in id_conn_
          MaxLogins  \* bound: how often a login succeeds

ASSUME SessionsAssumption == NoConn \notin Conns /\ MaxLogins \in Nat

VARIABLES
  heap,     \* the User objects made so far, [name, live]
  users,    \* users_[x]: the User it owns, 0 if none
  id_conn,  \* id_conn_[x]
  user,     \* user[c]: user_ of connection c, 0 if null
  open,     \* connections whose state is kConnected
  pc, name, \* what c's thread does next, and about which user
  new,      \* the User that HandleLogin of c has got from AddUser
  on_close, \* whom on_close_ would log out
  shared,   \* history: users a login has met on another connection
  left,     \* history: users whose connection is now another user's
  misused   \* history: users whose freed User has been used

tables == <<users, id_conn, on_close>>
thread == <<pc, name, new>>
vars == <<heap, tables, user, open, thread, shared, left, misused>>

Init ==
  /\ heap = <<>> /\ users = [x \in Users |-> 0]
  /\ id_conn = [x \in Users |-> NoConn] /\ on_close = {}
  /\ user = [c \in Conns |-> 0] /\ open = Conns
  /\ pc = [c \in Conns |-> "idle"] /\ name = [c \in Conns |-> {}]
  /\ new = [c \in Conns |-> 0]
  /\ shared = {} /\ left = {} /\ misused = {}
-----------------------------------------------------------------------------
\* c's requests are x's: user_ points to a User that was made for x.
Is(c, x) == user[c] # 0 /\ heap[user[c]].name = x

\* A handler of c is about to add or remove x.
Working(c, x) == pc[c] # "idle" /\ name[c] = {x}

\* heap with the User u deleted.
Free(h, u) == IF u = 0 THEN h ELSE [h EXCEPT ![u].live = FALSE]

Use(u) == misused' = IF heap[u].live THEN misused ELSE misused \union {heap[u].name}

Begin(c, label, x) ==
  /\ pc' = [pc EXCEPT ![c] = label] /\ name' = [name EXCEPT ![c] = {x}]
Goto(c, label) == pc' = [pc EXCEPT ![c] = label] /\ UNCHANGED name
End(c) ==
  pc' = [pc EXCEPT ![c] = "idle"] /\ name' = [name EXCEPT ![c] = {}]
-----------------------------------------------------------------------------
(* HandleLogin: a login is possible on a connection that has one already *)

\* The password is right.
Login(c, x) ==
  /\ c \in open /\ pc[c] = "idle" /\ Len(heap) < MaxLogins
  /\ Begin(c, "add_user", x)
  /\ shared' = IF \E d \in open \ {c} : Is(d, x) \/ Working(d, x)
               THEN shared \union {x} ELSE shared
  /\ left' = (left \ {x}) \union {y \in Users \ {x} : Is(c, y)}
  /\ UNCHANGED <<heap, tables, user, open, new, misused>>

\* AddUser, under user_mtx_: the unique_ptr in users_ is replaced.
AddUser(c) ==
  /\ pc[c] = "add_user" /\ Goto(c, "set_user")
  /\ \E x \in name[c] :
       /\ heap' = Append(Free(heap, users[x]), [name |-> x, live |-> TRUE])
       /\ users' = [users EXCEPT ![x] = Len(heap')]
  /\ new' = [new EXCEPT ![c] = Len(heap')]
  /\ UNCHANGED <<id_conn, on_close, user, open, shared, left, misused>>

\* SetUsername writes to the User, SetUser points to it.
SetUser(c) ==
  /\ pc[c] = "set_user" /\ Goto(c, "add_conn")
  /\ Use(new[c])
  /\ user' = [user EXCEPT ![c] = new[c]] /\ new' = [new EXCEPT ![c] = 0]
  /\ UNCHANGED <<heap, tables, open, shared, left>>

\* AddConn, under conn_mtx_.
AddConn(c) ==
  /\ pc[c] = "add_conn" /\ Goto(c, "set_on_close")
  /\ \E x \in name[c] : id_conn' = [id_conn EXCEPT ![x] = c]
  /\ UNCHANGED <<heap, users, on_close, user, open, new, shared, left, misused>>

\* One slot for all connections, written without a lock, and never called:
\* OnConnection tests for kConnected twice.
SetOnClose(c) ==
  /\ pc[c] = "set_on_close" /\ End(c)
  /\ on_close' = name[c]
  /\ UNCHANGED <<heap, users, id_conn, user, open, new, shared, left, misused>>
-----------------------------------------------------------------------------
(* Handlers of a connection that is logged in *)

\* RunAfterLogin tests user_ for null only.
LoggedIn(c) == c \in open /\ pc[c] = "idle" /\ user[c] # 0

\* HandleLogout logs out whoever user_ says.
Logout(c) ==
  /\ LoggedIn(c)
  /\ Use(user[c])
  /\ Begin(c, "remove_user", heap[user[c]].name)
  /\ UNCHANGED <<heap, tables, user, open, new, shared, left>>

\* Mutant of Erased: the entry stays when the User is deleted.
NotErased(x) == users[x]

Erased(x) == 0

RemoveUser(c) ==
  /\ pc[c] = "remove_user" /\ Goto(c, "remove_conn")
  /\ \E x \in name[c] :
       /\ heap' = Free(heap, users[x])
       /\ users' = [users EXCEPT ![x] = Erased(x)]
  /\ UNCHANGED <<id_conn, on_close, user, open, new, shared, left, misused>>

\* Mutant of WithoutConn: the entry is left.
WithConn(x) == id_conn

WithoutConn(x) == [id_conn EXCEPT ![x] = NoConn]

\* Mutant of WithoutUser: SetUser(nullptr) is forgotten.
WithUser(c) == user

WithoutUser(c) == [user EXCEPT ![c] = 0]

\* RemoveConn, under conn_mtx_, and the connection's own SetUser(nullptr).
RemoveConn(c) ==
  /\ pc[c] = "remove_conn" /\ End(c)
  /\ \E x \in name[c] : id_conn' = WithoutConn(x)
  /\ user' = WithoutUser(c)
  /\ UNCHANGED <<heap, users, on_close, open, new, shared, left, misused>>
\* GetRecentMsgs reads user_id_ of the User.  Such a read of a User that lives
\* changes nothing, and the other handlers use no member.
GetRecentMsgs(c) ==
  /\ LoggedIn(c)
  /\ Use(user[c]) /\ misused' # misused
  /\ UNCHANGED <<heap, tables, user, open, thread, shared, left>>

\* The connection goes down: nobody is logged out.
Close(c) ==
  /\ c \in open /\ pc[c] = "idle"
  /\ open' = open \ {c}
  /\ UNCHANGED <<heap, tables, user, thread, shared, left, misused>>

Handle(c) ==
  \/ \E x \in Users : Login(c, x)
  \/ AddUser(c) \/ SetUser(c) \/ AddConn(c) \/ SetOnClose(c)
  \/ Logout(c) \/ RemoveUser(c) \/ RemoveConn(c)
  \/ GetRecentMsgs(c)

Next == misused = {} /\ \E c \in Conns : Handle(c) \/ Close(c)

Spec == Init /\ [][Next]_vars
-----------------------------------------------------------------------------
(* Properties *)

TypeOK ==
  /\ \A u \in DOMAIN heap : heap[u] \in [name : Users, live : BOOLEAN]
  /\ users \in [Users -> 0..Len(heap)]
  /\ \A x \in Users : users[x] # 0 => heap[users[x]] = [name |-> x, live |-> TRUE]
  /\ \A u \in DOMAIN heap : heap[u].live => users[heap[u].name] = u
  /\ id_conn \in [Users -> Conns \union {NoConn}] /\ on_close \subseteq Users
  /\ user \in [Conns -> 0..Len(heap)] /\ new \in [Conns -> 0..Len(heap)]
  /\ open \subseteq Conns /\ name \in [Conns -> SUBSET Users]
  /\ pc \in [Conns -> {"idle", "add_user", "set_user", "add_conn", "set_on_close",
                       "remove_user", "remove_conn"}]
  /\ shared \union left \union misused \subseteq Users

\* A User is neither used nor within reach of a handler after it was freed, if
\* its user has been logged in on one open connection at a time: AddUser and
\* RemoveUser free it under their lock, GetUser hands it out without one.
FreedNeedsSecondLogin ==
  /\ misused \subseteq shared
  /\ \A c \in open : pc[c] = "idle" /\ user[c] # 0 =>
       heap[user[c]].live \/ heap[user[c]].name \in shared

\* Messages for a user go to the connection that is logged in as the user, and
\* users_, id_conn_ and user_ agree, if the user has been on one open connection
\* at a time and that one has not logged in as somebody else (AddConn, RemoveConn).
TablesAgree ==
  \A x \in Users \ (shared \union left) :
    (\A c \in open : ~Working(c, x)) =>
      \A c \in open : /\ id_conn[x] = c <=> Is(c, x)
                      /\ Is(c, x) => users[x] = user[c]
=============================================================================
