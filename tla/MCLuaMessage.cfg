CONSTANTS
  Values <- MCValues
  MaxArgs = 3
  ValuesSize = 4
  ValueSize = 16
  NumberSize = 8
  PointerSize = 8
  MSG_INC_SIZE = 256
  MSG_MAX_SIZE = 2048
SPECIFICATION Spec
INVARIANTS
  StaysInHeap
  WalkFindsCells
  ArrivesInOrder
CHECK_DEADLOCK FALSE
