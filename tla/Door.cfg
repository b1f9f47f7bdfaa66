SPECIFICATION FairSpec
CONSTANTS
  OpenSwitch = openSwitch
  ClosedSwitch = closedSwitch
  Switches = {openSwitch, closedSwitch}
  NoChange = noChange
  None = none
  Travel = 2
  QueueSize = 2
  MaxEvents = 3
INVARIANTS TypeOK DoorSafe
PROPERTIES StaysPut DoorLive
CHECK_DEADLOCK FALSE
