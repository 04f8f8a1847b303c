SPECIFICATION Spec
CONSTANTS
  r1 = r1
  r2 = r2
  r3 = r3
  Req = {r1, r2, r3}
  NoReq = NoReq
  Configs <- SafetyConfigs
INVARIANTS TypeOK NoCrash MemoryBalanced OnePlace ResultsInStep
PROPERTIES NoTokenAfterFinish UpdateOnlyWhenIdle
CHECK_DEADLOCK FALSE
