\* Three connections and two users, who log in four times.  The model stops when
\* the connections are down and where a freed User is used.
SPECIFICATION Spec
CONSTANTS
  Conns = {c1, c2, c3}
  Users = {x, y}
  NoConn = NoConn
  MaxLogins = 4
SYMMETRY Symmetry
INVARIANTS TypeOK FreedNeedsSecondLogin TablesAgree
CHECK_DEADLOCK FALSE
