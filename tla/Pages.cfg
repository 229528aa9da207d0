CONSTANT
  Players <- Hands
SPECIFICATION PagesSpec
CHECK_DEADLOCK FALSE
INVARIANTS EditsStayInLimits SettingsAreKept
PROPERTIES PotsDoNotJump
