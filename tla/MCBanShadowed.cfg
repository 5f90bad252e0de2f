SPECIFICATION SetupSpec
CONSTANTS
  Configs <- TwoPorts
  NoConfig = NoConfig
INVARIANTS OnlyAllowedAccepted
