SPECIFICATION Spec
CONSTANTS
  Names <- MCNames
  KValues <- MCKValues
  Sources <- MCSources
  RNames <- MCRNames
  Handles <- MCHandles
INVARIANTS
  ProtectionKept
  ShapesKept
  MeaningKept
  FailuresExplained
