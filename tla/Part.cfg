SPECIFICATION Spec
CONSTANTS
  MaxNote = 127
  KeyCapacity = 3
  MonoCapacity = 2
  NextVoices = 1
  Setups <- Playing
INVARIANTS
  NoStuckVoice
  VoicesMatchAllocator
  NoteOnOneVoice
  MonoSoundsTop
  GeneratedNoteIsTracked
PROPERTIES
  StepSoundsPressedKeys
  StopReleasesEverything
