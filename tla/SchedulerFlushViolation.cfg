SPECIFICATION Spec
CONSTANTS
  r1 = r1
  r2 = r2
  r3 = r3
  Req = {r1, r2}
  NoReq = NoReq
  Configs <- FlushConfigs
PROPERTY FlushOnlyWhenIdle
