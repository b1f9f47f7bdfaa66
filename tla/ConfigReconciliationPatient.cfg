CONSTANTS
  RebootNames = {"device", "network"}
  FunctionNames = {"f", "g"}
  Fingerprints <- MCFingerprints
  NoFingerprint = 0
  FunctionsOf <- MCFunctionsOf
  Faulty <- MCFaulty
  Fragile = {"g"}
  FactorySet <- MCMigrated
  Handlers = {h1}
  Updates <- MCUpdatesApart
  Server = "patient"
  MaxCrashes = 1
SPECIFICATION FairSpec
INVARIANTS TypeOK RevertTargetKept SetsSound
PROPERTIES HistoryKept ImplementsAtomicConfig Settles
CHECK_DEADLOCK FALSE
