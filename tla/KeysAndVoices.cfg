SPECIFICATION PartSpec
CONSTANTS
  MaxNote = 3
  Size = 2
  Cyclic = FALSE
  KeyCapacity = 3
  Velocities = {1, 100}
INVARIANTS
  KeysAgree
  NoteOffFindsSoundingVoice
  VoicesPlayRememberedKeys
PROPERTIES
  KeysAreARecencyStack
  ImplementsRecencyStack
