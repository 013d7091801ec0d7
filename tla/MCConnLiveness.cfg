\* Two connections on one worker loop.
CONSTANTS
  w1 = w1
  w2 = w2
  Conns = {c1, c2}
  NoConn = NoConn
  Fds = {f1, f2}
  NoFd = NoFd
  Loops = {main, w1}
  Main = main
  Pool <- OneWorker
  Ids = {id1}
  AutoClose = TRUE
  MaxList = 0
SPECIFICATION Spec
PROPERTIES
  ClosedDestroyed
\* A bounded number of clients: once they are gone, nothing is left to do.
CHECK_DEADLOCK FALSE
