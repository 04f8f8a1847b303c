SPECIFICATION Spec
CONSTANTS
  r1 = r1
  r2 = r2
  r3 = r3
  Req = {r1, r2, r3}
  NoReq = NoReq
  Chunks <- ShortPrompt
  MaxNew <- Answers
  Grammar = {r2}
  MaxRunning = 2
INVARIANTS TypeOK FuturesResolved MaskCurrent ResultMatches
PROPERTY AllGenerated
CHECK_DEADLOCK FALSE
