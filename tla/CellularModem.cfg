\* Two users of the UART, one transport (and NTP) over two handles, three commands.
SPECIFICATION ModemSpec
CONSTANTS
  MaxCommands = 3
  MaxEvents = 1
  SlowModem = FALSE
  Users = {a, b}
  PowerEventsSize = 2
  MaxUses = 3
  MaxRings = 2
  Transports = {mqtt}
  Handles = {1, 2}
  UnansweredBeforeReset = 2
  MaxUpsets = 1
  None = None
  MaxTime = 5
INVARIANTS ModemTypeOK ModemSound
PROPERTIES ModemServes
CHECK_DEADLOCK FALSE
