\* Two byte values, appends of up to three bytes, a vector of four that may grow
\* to six: fits, compacts (overlapping or not) and grows.
SPECIFICATION Spec
CONSTANTS
  Byte = {0, 1}
  Zero = 0
  kPrePendIndex = 1
  kInitialSize = 4
  MaxLen = 3
  MaxSize = 6
INVARIANT TypeOK
PROPERTY ImplementsByteQueue
