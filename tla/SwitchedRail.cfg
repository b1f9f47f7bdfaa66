CONSTANTS
  RailTasks = {t1, t2}
  Devices = {d1}
  Clients = {c1}
  Handles = {c1}
  HandleOf <- OwnHandles
  RailHandle = rail
  NoTask = none
  MaxUses = 6
SPECIFICATION FairSpec
INVARIANTS TypeOK RailSound
PROPERTIES KeptThroughBatch PowerReturns
CHECK_DEADLOCK FALSE
