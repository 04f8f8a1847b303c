SPECIFICATION Spec
CONSTANTS
  a = a
  b = b
  Req = {a, b}
  InputLen <- TwoChunks
  MaxNew <- Answers
  Rows = 2
  Reserved = 1
  PrefillMeta = 1
  DecodeMeta = 2
  Configs <- FetchConfigs
PROPERTY BootstrapEnds
CHECK_DEADLOCK FALSE
