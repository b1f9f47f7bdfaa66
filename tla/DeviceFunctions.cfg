\* One function at a time; two configurations after the first, two units of water.
SPECIFICATION FunctionSpec
CONSTANTS
  MaxLag = 1
  MaxChanges = 2
  MaxWater = 2
  MaxVolume = 2
  ValveTimeout = 2
  DeadTime = 1
  Tau = 2
  MaxTotalVolume = 2
  LongWait = 2
  PlotConfigs <- SampleConfigs
  Overrides <- SampleOverrides
  MaxDelay = 3
  Delays <- SampleDelays
  MaxCrashes = 2
INVARIANTS FunctionTypeOK AsScheduled WaterSound
PROPERTIES LightHasItsWay
CHECK_DEADLOCK FALSE
