SPECIFICATION BSpec
CONSTANTS
  Source = {s1, s2}
  NoPeer = NoPeer
  Knock <- MCKnock
  Sequence <- MCSequence
  SequenceWindow = 2
  PartialStateTimeout = 1
  MaxPartialStates = 1
  MaxPayloadSize = 1
  U32Max = 3
  BurstLimit = 1
  RefillLimit = 1
  Minute = 2
  IpTimeout = 1
  BanTimeout = 2
  MaxTime = 3
SYMMETRY Symmetry
INVARIANTS ServerTypeOK NoPartialStateWhileBanned BansBounded KernelBanCovers
PROPERTIES NoAllowWhileBanned BannedOnlyAfterRefusals
