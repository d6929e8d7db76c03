SPECIFICATION FairSpec
CONSTANTS
  QueueSize = 2
  SeqMax = 4
  KeyReports = {0, 1}
  ConsumerReports = {0}
  Zero = 0
  Capacity = 1
  BatchMax = 1
  CounterMax = 4
  ReplayWindow = 2
  NoSession = none
  Session = {s1, s2}
  AirMax = 2
  MaxTrouble = 1
INVARIANTS
  NonceNeverReused
  NeverReplayed
CHECK_DEADLOCK FALSE
PROPERTIES
  PreparedIsCurrent
  CountersRenewed
