CONSTANTS
  Images = {v1, v2, bad}
  FactoryImage = v1
  Unbootable = {bad}
  NoImage = none
  ImageSize = 2
  MaxAsks = 2
  MaxCommands = 1
  MaxConfigs = 1
  MaxCrashes = 1
SPECIFICATION FairSpec
INVARIANTS TypeOK UpdatesSafe
PROPERTIES SyncExplains UpdatesEnd
