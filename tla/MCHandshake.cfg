SPECIFICATION FairSpec
CONSTANTS
  MaxTrouble <- Unbounded
PROPERTIES
  ImplementsSessions
  EventuallyTogether
