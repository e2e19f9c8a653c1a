SPECIFICATION Spec
CONSTANTS
  DcRate = 16000000
  DcCutoff = 5000
  Frames <- Kinds
  MaxHops = 9
INVARIANTS SoundSurvives QuietEndsBoth
PROPERTIES NoFlapping ImpulseCaught SpeechBridged
