CONSTANTS
  a = a
  b = b
  c = c
  absent = absent
  Names <- ThreeNames
  Absent <- absent
  NUM_INODES = 2
  NUM_DATA_BLOCKS = 3
  MAX_FILE_SIZE = 2
  BLOCKSIZE = 2
  MAX_OPEN_FILES = 1
  Lengths <- SomeLengths
  Seeks <- SomeSeeks
  Bytes <- OneByte
SYMMETRY NameSymmetry
SPECIFICATION Spec
INVARIANT Invariants
PROPERTY Abstract
