SPECIFICATION Spec
CONSTANTS
  WordBits = 2
  MAX_NUM_DIGITS = 5
  MANTISSA_WIDTH = 3
  EXPONENT_WIDTH = 4
  DESC_ARR_LEN = 2
  BUFF_SIZE = 3
  BLOCK_SIZE = 2
  GROUP = 4
  SIZE_T = 10000
  Families = {"strtold"}
CHECK_DEADLOCK FALSE
INVARIANTS
  LongDoubleIsNearest
