SPECIFICATION HSpec
CONSTANTS
  Source = {s1, s2}
  Watched = s1
  NoKnock = NoKnock
  Knock <- MCKnock
  Sequence <- MCSequence
  SequenceWindow = 3
  PartialStateTimeout = 2
  MaxPartialStates = 1
  MaxPayloadSize = 2
  MaxTime = 5
INVARIANTS TypeOK PartialStatesBounded PrefixInv
PROPERTIES OneSourcePerPacket AcceptedOnlyAfterFullSequence FullSequenceAccepted
