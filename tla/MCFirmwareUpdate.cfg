CONSTANTS
  Images = {"old", "new", "bad"}
  Healthy = {"old", "new"}
  Pages = 2
  Threshold = 3
  MaxTrouble = 5
  MaxMisreads = 1
SPECIFICATION FairSpec
INVARIANTS NeverUncheckedJump UpdateIsWhole CanAlwaysRun
PROPERTIES HealthyIsEarned UpdateEnds
CHECK_DEADLOCK FALSE
