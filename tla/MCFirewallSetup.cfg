SPECIFICATION SetupSpec
CONSTANTS
  Configs <- MCConfigs
  NoConfig = NoConfig
INVARIANTS SetupTypeOK NoDuplicateRules SetupProtects DaemonAdmits ValidatedIsServable
PROPERTIES NeverLockedOut
