SPECIFICATION LoopSpec
CONSTANTS
  Sequence <- MCSequence
  Packet <- MCKnocker
  MaxPending = 1
  ReadTimeout = 2
PROPERTIES ServedDespiteOthers
CHECK_DEADLOCK FALSE
