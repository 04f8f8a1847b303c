SPECIFICATION Spec
CONSTANTS
  a = a
  b = b
  Req = {a, b}
  InputLen <- TwoChunks
  MaxNew <- Answers
  Rows = 2
  Reserved = 1
  PrefillMeta = 1
  DecodeMeta = 2
  Configs <- FaultConfigs
INVARIANTS TypeOK  BuffersBalanced NoRetraction
PROPERTY AllReturned
CHECK_DEADLOCK FALSE
