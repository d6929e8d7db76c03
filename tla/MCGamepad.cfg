SPECIFICATION FairSpec
CONSTANTS
  Positions = 2
  CounterMax = 2
  AirMax = 2
  MaxToggles = 3
  MaxTrouble = 1
PROPERTIES
  NeverBackwards
  PadReleased
  ControllerFollows
