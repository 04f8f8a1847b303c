SPECIFICATION Spec
CONSTANTS
  Token <- MCToken
  Prompt <- MCPrompt
  Page = {p1, p2, p3, p4, p5}
  Req = {r1, r2, r3}
  MaxLen = 4
  MaxInFlight = 2
  RetractSteps = 1
SYMMETRY Symmetry
INVARIANTS
  TypeOK
  TreeShape
  LockRefExact
  SlotOwnership
  RowsFollowTree
  SizesExact
PROPERTY PrefixPinned
CHECK_DEADLOCK FALSE
