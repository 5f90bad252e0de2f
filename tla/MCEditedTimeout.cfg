SPECIFICATION SetupSpec
CONSTANTS
  Configs <- TwoTimeouts
  NoConfig = NoConfig
INVARIANTS EditedFileCanBeSetUp
