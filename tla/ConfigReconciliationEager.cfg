CONSTANTS
  RebootNames = {"device"}
  FunctionNames = {"f"}
  Fingerprints <- MCFingerprints
  NoFingerprint = 0
  FunctionsOf <- MCFunctionsOf
  Faulty <- MCFaulty
  Fragile = {}
  FactorySet <- MCFresh
  Handlers = {h1}
  Updates <- MCUpdates
  Server = "eager"
  MaxCrashes = 0
SPECIFICATION Spec
INVARIANT ConfirmedBoots
CHECK_DEADLOCK FALSE
