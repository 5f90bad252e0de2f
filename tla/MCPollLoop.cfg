SPECIFICATION LoopSpec
CONSTANTS
  Sequence <- MCSequence
  Packet <- MCPacket
  MaxPending = 2
  ReadTimeout = 1
INVARIANTS LoopTypeOK NoOverdueSurvives ServedInTurn
PROPERTIES IsMailbox OnlySilentDropped EveryPacketServed
CHECK_DEADLOCK FALSE
