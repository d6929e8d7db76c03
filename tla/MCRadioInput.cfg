SPECIFICATION Spec
CONSTANTS
  QueueSize = 3
  SeqMax = 4
  KeyReports = {0, 1}
  ConsumerReports = {0}
  Zero = 0
  Capacity = 2
  MaxTrouble <- Unbounded
  Protocols = {"report", "boot"}
  BatchMax = 2
CONSTRAINT Troubled
INVARIANTS
  WindowKept
  NothingLost
  InFlightIsOldest
  ReleasedBeforeReports
  HostInSync
PROPERTIES
  FollowsSessions
