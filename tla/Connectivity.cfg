\* One link at a time, what troubles it, and what a Bluetooth client asks for.
SPECIFICATION ConnectivitySpec
CONSTANTS
  EventQueueSize = 3
  MaxTroubles = 1
  MaxRequests = 2
  MaxChanges = 3
INVARIANTS ConnectivityTypeOK InSyncOnPlausibleTime
PROPERTIES LinkServes BleServes
CHECK_DEADLOCK FALSE
