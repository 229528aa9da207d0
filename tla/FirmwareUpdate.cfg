SPECIFICATION FairSpec
CONSTANTS
  PageSize = 4
  Unit = 2
  Chunk = 2
  Lengths <- MCLengths
  FlashSize = 12
  Confirmations = 5
  Confirmed = 4
  Byte = 8
  QueryBytes = 2
  Cuts = 2
  Pulls = 1
  Redraws = 1
INVARIANTS CutUpdateIsNotRun CompleteCopyIsTheFile
PROPERTY PatienceRevivesTheCard
