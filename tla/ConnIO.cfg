\* Two messages of three bytes from each of two threads, a socket that holds two
\* bytes (every message is written in parts), two bytes of input.
SPECIFICATION Spec
CONSTANTS
  Own = own
  Others = {s1}
  MsgLen = 3
  SockSize = 2
  MaxSends = 2
  MaxIn = 2
INVARIANTS TypeOK StreamInOrder SenderOrder WriteArmed InputInOrder
PROPERTY Delivered
\* Messages and input are bounded: with all done, nothing is left to do.
CHECK_DEADLOCK FALSE
