SPECIFICATION FairSpec
CONSTANTS
  Keys = {k}
  Setting = {0, 1}
  Default = 0
  Unsaved = none
  MaxTrouble <- Trouble
INVARIANTS KeysAgree SlowIsKnown ReplayUndisturbed
PROPERTIES FullSpeedReturns SettingsSettle
