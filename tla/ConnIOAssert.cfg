\* The instance of ConnIO.cfg, asked for the assert of Buffer::Retrieve.
SPECIFICATION Spec
CONSTANTS
  Own = own
  Others = {s1}
  MsgLen = 3
  SockSize = 2
  MaxSends = 2
  MaxIn = 2
\* Messages and input are bounded: with all done, nothing is left to do.
CHECK_DEADLOCK FALSE
INVARIANT RetrieveInRange
