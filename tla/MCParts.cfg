SPECIFICATION PartsSpec
CONSTANTS
  Schedules <- TwoSchedules
  LastSlot = 12
  ReconnectTime = 33
  Pixels = {0, 1}
  Black = 0
  Gains = {1, 2}
  DefaultGain = 1
  Unset = 0
  FullFade = 2
  FadeInTicks = 1
  FadeOutTicks = 2
  MaxRequests = 1
  Keys = {a, b, c}
  FlashSlots = 2
  FlashTicks = 2
  UpdateTicks = 1
  NoKey = none
  Leds = {1, 2}
  Watched = 1
  Depths = {40, 160}
  Hues = {20}
  Values = {100}
  Bright = 255
  FadeFrames = 3
  Waves = 2
  NoSpark = 0
  MaxTouches = 2
  MaxFrames = 4
  Sectors = 2
  RingSlots = 2
  SeqMod = 4
  MaxCrashes = 4
  FlashTrouble = 1
  Default = default
  Cap = cap
  Limits = {user}
  NoOverride = nothing
  ChargerTrouble = 2
  MaxCommands = 1
  Raws = {1, 10, 60}
  ValidLo = 3
  ValidHi = 60
  MinSpan = 21
  MaxSamples = 7
  MaxRestarts = 1
  Parts = 2
  Deadline = 1
  MaxRuns = 2
  PairingTrouble = 3
INVARIANTS
  SameChannel
  ReconnectsInTime
  ArrayIsCurrent
  LightFollowsWant
  OverlayIsCurrent
  EffectsFade
  FlashIsKept
  ChargeIsBounded
  DepthIsKept
  PairIsKept
CHECK_DEADLOCK FALSE
