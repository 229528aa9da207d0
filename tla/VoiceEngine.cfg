SPECIFICATION FairSpec
CONSTANTS
  Pitches <- Notes
  Choices <- Times
  InitSettings <- InitPatch
  MaxMessages = 3
PROPERTIES
  ReleaseOnlyFades
  GlideStopsAtTarget
  VoiceSettles
