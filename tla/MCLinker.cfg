SPECIFICATION Spec
CONSTANTS
  Letters = 2
  Fields = {1, 2, 3}
  Configs <- MCConfigs
INVARIANTS CirclesRefused ChainsComplete AliasesDistinct UniqueNormal TreesSorted MarkedExactly
PROPERTY Ends
CHECK_DEADLOCK FALSE
