CONSTANTS
  Images = {v1, v2, bad}
  FactoryImage = v1
  Unbootable = {bad}
  NoImage = none
  ImageSize = 2
  MaxAsks = 2
  MaxCommands = 0
  MaxConfigs = 1
  MaxCrashes = 0
SPECIFICATION Spec
INVARIANTS UpgradeFindsNoRequest
