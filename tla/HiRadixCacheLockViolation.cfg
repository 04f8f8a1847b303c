SPECIFICATION Spec
CONSTANTS
  Token = {1, 2}
  Output = {1}
  Page = {1, 2, 3, 4, 5, 6, 7}
  HostSlot = {1, 2, 3, 4, 5, 6, 7, 8}
  Req = {1, 2}
  Prompt <- MCPrompt
  MaxNew <- MCMaxNew
  Configs <- WriteThrough
  LoadThreshold = 1
  MaxRunning = 2
  RetractSteps = 1
  MaxArrivals = 3
  PromptLoader = TRUE
INVARIANT NoCrash
CHECK_DEADLOCK FALSE
