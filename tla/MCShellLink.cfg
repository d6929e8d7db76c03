CONSTANTS
  Frames <- AllFrames
  NoFrame = NoFrame
  MaxSequence = 2
  Parts = 2
  Studio = TRUE
  MaxLosses = 1
  MaxTimeouts = 1
SPECIFICATION Spec
INVARIANTS NothingMixed
PROPERTIES DeliversInOrder ExecutedOnce
