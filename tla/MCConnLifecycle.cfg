\* Two connections on two worker loops, two descriptors, one login id.
CONSTANTS
  w1 = w1
  w2 = w2
  Conns = {c1, c2}
  NoConn = NoConn
  Fds = {f1, f2}
  NoFd = NoFd
  Loops = {main, w1, w2}
  Main = main
  Pool <- TwoWorkers
  Ids = {id1}
  AutoClose = TRUE
  MaxList = 1
SPECIFICATION Spec
SYMMETRY Symmetry
INVARIANTS
  TypeOK
  NoDanglingChannel
  ErasesItself
  DeregisteredForGood
\* A bounded number of clients: once they are gone, nothing is left to do.
CHECK_DEADLOCK FALSE
