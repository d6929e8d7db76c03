SPECIFICATION Spec
CONSTANTS
  Keys = {a}
  Asked <- Depths
  Records <- Stored
INVARIANT PressAboveRelease
