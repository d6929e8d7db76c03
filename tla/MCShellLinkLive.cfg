CONSTANTS
  Frames <- AllFrames
  NoFrame = NoFrame
  MaxSequence = 6
  Parts = 2
  Studio = FALSE
  MaxLosses = 3
  MaxTimeouts = 0
SPECIFICATION FairSpec
PROPERTIES JobsEnd
