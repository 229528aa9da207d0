CONSTANTS
  SequenceSteps = 4
  BlockSteps = 2
  PatternBits = 2
  ByteSize = 8
  TicksPerStep = 2
  GrooveSteps = 2
  TicksPerBeat = 2
  LowByte = 2
  DurationTable <- Durations
  Setups <- Playing
SPECIFICATION FairSpec
INVARIANTS PartsStepTogether
PROPERTIES ImplementsClockPulses IndicesInRange EveryKeyIsPlayed IdleClockStops
