SPECIFICATION MultiSpec
CONSTANTS
  NumParts = 3
  NumCards = 2
  Modes = {"POLY", "SOLO"}
INVARIANTS
  CardsAreShared
  PlayersOwnTheirCards
