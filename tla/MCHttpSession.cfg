\* Three requests, or two and a message to push, or one and two messages; a PING; and
\* two streams reset.  The connection may stay idle, be closed, or be lost to undefined
\* behaviour: there is no deadlock to find.
SPECIFICATION HttpSpec
CONSTANTS
  Pushers = {p1}
  Streams = {1, 3, 5}
  MaxWork = 3
  MaxPings = 1
  MaxResets = 2
INVARIANTS HttpTypeOK AnsweredOnce OutputInOrder
CHECK_DEADLOCK FALSE
VIEW View
