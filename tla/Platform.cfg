\* One part at a time: three configured sensors, two peripherals and two functions, four boots;
\* counts that wrap after eight pulses, three sessions, two bits to a byte.
SPECIFICATION PlatformSpec
CONSTANTS
  MaxPeripherals = 3
  Handlers = {h1, h2}
  PublishInterval = 4
  Debounce = 1
  CollectTime = 2
  WatchdogTimeout = 7
  MaxBoots = 4
  MaxStateChanges = 3
  MaxBuzzes = 3
  Width = 8
  MaxPulses = 10
  MaxResets = 1
  MaxSessions = 3
  Bits = 2
  MaxTransactions = 2
  MeasurementTime = 2
  MaxOperations = 4
  Readers = {"telemetry", "functions"}
  Interval = 2
  Window = 3
  MaxClock = 4
  MaxLevel = 2
  MaxVoltage = 5
  BootThreshold = 4
  ShutdownThreshold = 3
  Averaged = 3
  Listeners = 2
  MaxChanges = 3
INVARIANTS PlatformTypeOK HardwareSound LifeSound MeasuredSound
PROPERTIES Responds
CHECK_DEADLOCK FALSE
