\* Five records of one or two bytes, a buffer of three, two starts: overflow with
\* and without a spare, and a restart, all occur.
SPECIFICATION Spec
CONSTANTS
  Lengths = {1, 2}
  Capacity = 3
  NoBuffer = NoBuffer
  MaxRecords = 5
  MaxStarts = 2
INVARIANTS TypeOK WrittenInOrder Accounted CrashNeedsOverflow
PROPERTIES ReachesFile OwnerReturns
\* Records and starts are bounded: with all done, nothing is left to do.
CHECK_DEADLOCK FALSE
