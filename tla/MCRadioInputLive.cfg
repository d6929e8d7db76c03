SPECIFICATION FairSpec
CONSTANTS
  QueueSize = 2
  SeqMax = 4
  KeyReports = {0, 1}
  ConsumerReports = {0}
  Zero = 0
  Capacity = 1
  MaxTrouble = 3
  Protocols = {"report"}
  BatchMax = 1
PROPERTIES
  EventuallyInSync
