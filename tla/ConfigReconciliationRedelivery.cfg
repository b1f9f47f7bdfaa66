CONSTANTS
  RebootNames = {"device"}
  FunctionNames = {"f", "g"}
  Fingerprints <- MCFingerprints
  NoFingerprint = 0
  FunctionsOf <- MCFunctionsOf
  Faulty <- MCFaulty
  Fragile = {}
  FactorySet <- MCFresh
  Handlers = {h1, h2}
  Updates <- MCUpdatesGood
  Server = "redelivering"
  MaxCrashes = 0
SPECIFICATION Spec
INVARIANT AnnouncedIsDurable
CHECK_DEADLOCK FALSE
