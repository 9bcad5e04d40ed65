CONSTANTS
  Modes <- MCModes
  Initial <- MCInitial
  BufSizes = {0, 3}
  Faults <- MCFaults
  WriteSizes = {0, 1, 3, 5}
  ReadSizes = {1, 3}
  Offsets <- MCOffsets
  DEFAULT_BUFFER_SIZE = 2
  MaxOps = 4
SPECIFICATION Spec
   
PROPERTY ImplementsStream
CHECK_DEADLOCK FALSE
