SPECIFICATION MCSpec
CONSTANTS
  f1 = f1
  f2 = f2
  o1 = o1
  o2 = o2
  Files = {f1, f2}
  Project = f1
  Objects = {o1, o2}
  None = None
  Prompts = {1, 2}
  Limits <- MCLimits
  MaxLog = 6
  MaxOutside = 2
INVARIANTS SessionTypeOK HeadIsPrompt TurnNumbersIncrease LimitHolds
PROPERTIES FileOnlyGrows ImplementsConversation
CHECK_DEADLOCK FALSE
