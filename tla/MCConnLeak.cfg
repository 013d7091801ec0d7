\* One connection on the main reactor (SetThreadNums(0)), one login id.
CONSTANTS
  w1 = w1
  w2 = w2
  Conns = {c1}
  NoConn = NoConn
  Fds = {f1}
  NoFd = NoFd
  Loops = {main}
  Main = main
  Pool <- NoWorkers
  Ids = {id1}
  AutoClose = FALSE
  MaxList = 0
SPECIFICATION Spec
PROPERTIES
  ClosedReleased
\* A bounded number of clients: once they are gone, nothing is left to do.
CHECK_DEADLOCK FALSE
