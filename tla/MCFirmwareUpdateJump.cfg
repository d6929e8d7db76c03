CONSTANTS
  Images = {"old", "new", "bad"}
  Healthy = {"old", "new"}
  Pages = 2
  Threshold = 2
  MaxTrouble = 4
  MaxMisreads = 1
SPECIFICATION Spec
INVARIANT FailedInstallIsChecked
CHECK_DEADLOCK FALSE
