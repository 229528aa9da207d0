CONSTANTS
  Header <- Header2
  DumpSize <- Dumps
  BufferSize = 24
  Addresses <- Edited
  Limits <- Ranges
  ResendRate = 4
  Channels = {0, 1}
  Setups <- Hosted
SPECIFICATION Spec
CHECK_DEADLOCK FALSE
INVARIANTS EditsReachTheNextUnit
