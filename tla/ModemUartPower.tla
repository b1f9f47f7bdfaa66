--------------------------- MODULE ModemUartPower ---------------------------
(***************************************************************************)
(* The power of the modem's UART: tasks that hold it while they send       *)
(* commands, the power task that lets it sleep when it is idle and answers *)
(* the modem's ring indicator, and the interrupt of that pin.              *)
(*                                                                         *)
(* With DTR deasserted the modem turns its UART off, and then asserts RI   *)
(* when it has something to say, until its UART is on again - unless it is *)
(* wedged, which keeps RI low.  The lock against light sleep is held       *)
(* exactly while DTR is asserted.                                          *)
(***************************************************************************)
EXTENDS Integers, Sequences, FiniteSets

CONSTANTS
  Users,           \* tasks that send commands
  PowerEventsSize, \* capacity of powerEvents
  MaxUses,         \* bound on the commands sent
  MaxRings         \* bound on how often the modem rings

ASSUME PowerAssumption ==
  /\ PowerEventsSize \in Nat \ {0}
  /\ {MaxUses, MaxRings} \subseteq Nat
  /\ IsFiniteSet(Users)

VARIABLES
  user,            \* per task: "idle", "counted", "asserting" or "using" the UART
  uartUsers,
  dtrAsserted,
  sleepAllowed,    \* may the UART sleep; not before the modem is configured
  idle,            \* UART_IDLE_TIMEOUT has passed since lastActivity
  powerEvents,
  ringSignalled,   \* set by the interrupt
  interruptOn,     \* the interrupt of RI is enabled
  task,            \* the power task: "looking", "waiting", "rearming" or "sleeping"
  waits,           \* how long it waits: "forever" or "shortly"
  ringPending,
  ringStuck,
  lowFor,          \* ringLowSince: "not", "briefly" or RING_STUCK_TIMEOUT ("long")
  modemUart,       \* "on", "turning off" or "off"
  riLow,           \* the modem asserts RI
  wedged,          \* and does not release it
  uses, rings      \* counted for the bounds

userVars == <<user, uartUsers, uses>>
uartVars == <<dtrAsserted, idle, modemUart>>
taskVars == <<task, waits, ringPending, ringStuck, lowFor>>
uartModemVars == <<riLow, wedged, rings>>
powerVars == <<userVars, uartVars, sleepAllowed, powerEvents, ringSignalled, interruptOn, taskVars, uartModemVars>>

PowerTypeOK ==
  /\ user \in [Users -> {"idle", "counted", "asserting", "using"}]
  /\ uartUsers = Cardinality({u \in Users : user[u] # "idle"})
  /\ {dtrAsserted, sleepAllowed, idle, ringSignalled, interruptOn, ringPending, ringStuck, riLow, wedged} \subseteq BOOLEAN
  /\ powerEvents \in Seq({"Ring", "Awake"})
  /\ Len(powerEvents) <= PowerEventsSize
  /\ task \in {"looking", "waiting", "rearming", "sleeping"}
  /\ waits \in {"forever", "shortly"}
  /\ lowFor \in {"not", "briefly", "long"}
  /\ modemUart \in {"on", "turning off", "off"}

PowerInit ==
  /\ user = [u \in Users |-> "idle"] /\ uartUsers = 0 /\ uses = 0
  /\ dtrAsserted = FALSE /\ idle = TRUE /\ modemUart = "off" /\ sleepAllowed = FALSE
  /\ powerEvents = << >> /\ ringSignalled = FALSE /\ interruptOn = FALSE
  /\ task = "looking" /\ waits = "forever" /\ ringPending = FALSE /\ ringStuck = FALSE /\ lowFor = "not"
  /\ riLow = FALSE /\ wedged = FALSE /\ rings = 0

-----------------------------------------------------------------------------
(* The modem, its ring indicator, and time.                                *)

ModemUartFollows ==
  /\ \/ ~dtrAsserted /\ modemUart = "turning off" /\ modemUart' = "off"
     \/ dtrAsserted /\ modemUart # "on" /\ modemUart' = "on"
  /\ UNCHANGED <<userVars, dtrAsserted, idle, sleepAllowed, powerEvents, ringSignalled, interruptOn, taskVars, uartModemVars>>

Ring ==
  /\ modemUart = "off"
  /\ ~riLow
  /\ rings < MaxRings
  /\ rings' = rings + 1
  /\ riLow' = TRUE
  /\ wedged' \in BOOLEAN
  /\ UNCHANGED <<userVars, uartVars, sleepAllowed, powerEvents, ringSignalled, interruptOn, taskVars>>

ReleaseRing ==
  /\ riLow
  /\ modemUart = "on"
  /\ ~wedged
  /\ riLow' = FALSE
  /\ UNCHANGED <<userVars, uartVars, sleepAllowed, powerEvents, ringSignalled, interruptOn, taskVars, wedged, rings>>

\* A wedged modem comes back, with RI released.
Recover ==
  /\ riLow
  /\ wedged
  /\ riLow' = FALSE
  /\ wedged' = FALSE
  /\ UNCHANGED <<userVars, uartVars, sleepAllowed, powerEvents, ringSignalled, interruptOn, taskVars, rings>>

\* UART_IDLE_TIMEOUT is longer than it takes the interrupt, the power task (POWER_CHECK_INTERVAL) and
\* a modem that is well to deal with a ring, and with one that is still queued though it was dealt with.
GetIdle ==
  /\ ~idle
  /\ ~ringSignalled
  /\ \A i \in DOMAIN powerEvents : powerEvents[i] # "Ring"
  /\ dtrAsserted => modemUart = "on"
  /\ riLow => wedged /\ ~interruptOn
  /\ idle' = TRUE
  /\ UNCHANGED <<userVars, dtrAsserted, modemUart, sleepAllowed, powerEvents, ringSignalled, interruptOn, taskVars, uartModemVars>>

\* For contrast: the queue takes any number of events.
EnqueueAlways(event) == powerEvents' = Append(powerEvents, event)

Enqueue(event) ==
  powerEvents' = IF Len(powerEvents) < PowerEventsSize THEN Append(powerEvents, event) ELSE powerEvents

\* Level-triggered, and off from here on until the power task has seen RI released.
handleRingInterrupt ==
  /\ riLow
  /\ interruptOn
  /\ interruptOn' = FALSE
  /\ ringSignalled' = TRUE
  /\ Enqueue("Ring")
  /\ UNCHANGED <<userVars, uartVars, sleepAllowed, taskVars, uartModemVars>>

-----------------------------------------------------------------------------
(* Tasks that use the UART.                                                *)

\* holdUart() counts the user first, so that the power task can't turn the UART off from here on.
HoldUart(u) ==
  /\ user[u] = "idle"
  /\ uses < MaxUses
  /\ uses' = uses + 1
  /\ uartUsers' = uartUsers + 1
  /\ idle' = FALSE
  /\ user' = [user EXCEPT ![u] = IF dtrAsserted THEN "asserting" ELSE "counted"]
  /\ UNCHANGED <<dtrAsserted, modemUart, sleepAllowed, powerEvents, ringSignalled, interruptOn, taskVars, uartModemVars>>

\* If DTR was deasserted, wait out DTR_MIN_OFF_TIME for the modem to finish turning its UART off.
AwaitOff(u) ==
  /\ user[u] = "counted"
  /\ modemUart # "turning off"
  /\ user' = [user EXCEPT ![u] = "asserting"]
  /\ UNCHANGED <<uartUsers, uses, uartVars, sleepAllowed, powerEvents, ringSignalled, interruptOn, taskVars, uartModemVars>>

AssertDtr(u) ==
  /\ user[u] = "asserting"
  /\ user' = [user EXCEPT ![u] = "using"]
  /\ dtrAsserted' = TRUE
  /\ IF dtrAsserted THEN UNCHANGED powerEvents ELSE Enqueue("Awake")
  /\ UNCHANGED <<uartUsers, uses, idle, modemUart, sleepAllowed, ringSignalled, interruptOn, taskVars, uartModemVars>>

ReleaseUart(u) ==
  /\ user[u] = "using"
  /\ modemUart = "on"
  /\ user' = [user EXCEPT ![u] = "idle"]
  /\ uartUsers' = uartUsers - 1
  /\ idle' = FALSE
  /\ UNCHANGED <<uses, dtrAsserted, modemUart, sleepAllowed, powerEvents, ringSignalled, interruptOn, taskVars, uartModemVars>>

\* configure() arms RI and lets the UART sleep, or keeps it on for this boot; a modem that does not
\* answer lets it sleep.
Configure(allowSleep) ==
  /\ ~sleepAllowed
  /\ sleepAllowed' = allowSleep
  /\ interruptOn' = TRUE
  /\ ~interruptOn /\ ~ringPending /\ ~ringSignalled
  /\ idle' = FALSE
  /\ UNCHANGED <<userVars, dtrAsserted, modemUart, powerEvents, ringSignalled, taskVars, uartModemVars>>

-----------------------------------------------------------------------------
(* The power task.                                                         *)

Look ==
  /\ task = "looking"
  /\ waits' = IF dtrAsserted \/ ringPending THEN "shortly" ELSE "forever"
  /\ task' = "waiting"
  /\ UNCHANGED <<userVars, uartVars, sleepAllowed, powerEvents, ringSignalled, interruptOn, ringPending,
                 ringStuck, lowFor, uartModemVars>>

WakeUp ==
  /\ task = "waiting"
  /\ powerEvents # << >> \/ waits = "shortly"
  /\ powerEvents' = IF powerEvents = << >> THEN powerEvents ELSE Tail(powerEvents)
  /\ ringSignalled' = FALSE
  /\ IF ringSignalled \/ (powerEvents # << >> /\ Head(powerEvents) = "Ring")
     THEN /\ dtrAsserted' = TRUE
          /\ idle' = FALSE
          /\ ringPending' = TRUE
     ELSE UNCHANGED <<dtrAsserted, idle, ringPending>>
  /\ task' = IF ringPending' THEN "rearming" ELSE "sleeping"
  /\ UNCHANGED <<userVars, modemUart, sleepAllowed, interruptOn, waits, ringStuck, lowFor, uartModemVars>>

rearmRingIndicator ==
  /\ task = "rearming"
  /\ task' = "sleeping"
  /\ IF riLow
     THEN /\ lowFor' = IF lowFor = "not" THEN "briefly" ELSE lowFor
          /\ ringStuck' = (ringStuck \/ lowFor = "long")
          /\ UNCHANGED <<ringPending, interruptOn>>
     ELSE /\ lowFor' = "not"
          /\ ringStuck' = FALSE
          /\ ringPending' = FALSE
          /\ interruptOn' = TRUE
  /\ UNCHANGED <<userVars, uartVars, sleepAllowed, powerEvents, ringSignalled, waits, uartModemVars>>

RingTimesOut ==
  /\ lowFor = "briefly"
  /\ lowFor' = "long"
  /\ UNCHANGED <<userVars, uartVars, sleepAllowed, powerEvents, ringSignalled, interruptOn, task, waits,
                 ringPending, ringStuck, uartModemVars>>

sleepUartIfIdle ==
  /\ task = "sleeping"
  /\ task' = "looking"
  /\ IF dtrAsserted /\ sleepAllowed /\ uartUsers = 0 /\ ~(ringPending /\ ~ringStuck) /\ idle
     THEN dtrAsserted' = FALSE /\ modemUart' = "turning off"
     ELSE UNCHANGED <<dtrAsserted, modemUart>>
  /\ UNCHANGED <<userVars, idle, sleepAllowed, powerEvents, ringSignalled, interruptOn, waits, ringPending,
                 ringStuck, lowFor, uartModemVars>>

UserStep(u) == AwaitOff(u) \/ AssertDtr(u) \/ ReleaseUart(u)
PowerTask == Look \/ WakeUp \/ rearmRingIndicator \/ sleepUartIfIdle
ModemStep == ModemUartFollows \/ ReleaseRing

PowerNext ==
  \/ \E u \in Users : HoldUart(u) \/ UserStep(u)
  \/ PowerTask \/ ModemStep
  \/ Ring \/ Recover \/ GetIdle \/ RingTimesOut \/ handleRingInterrupt
  \/ \E allowSleep \in BOOLEAN : Configure(allowSleep)

(***************************************************************************)
(* Tasks and interrupts run, timers run out, and the modem's UART follows  *)
(* DTR.                                                                    *)
(***************************************************************************)
PowerFairness ==
  /\ \A u \in Users : WF_powerVars(UserStep(u))
  /\ WF_powerVars(PowerTask) /\ WF_powerVars(ModemUartFollows) /\ WF_powerVars(ReleaseRing)
  /\ WF_powerVars(GetIdle) /\ WF_powerVars(RingTimesOut) /\ WF_powerVars(handleRingInterrupt)

PowerSpec == PowerInit /\ [][PowerNext]_powerVars /\ PowerFairness

-----------------------------------------------------------------------------
(* Properties.                                                             *)

\* Who uses the UART has DTR asserted, and does not send while the modem is still turning its UART
\* off: it could miss what is sent (Nrf9151Driver.hpp:645-646).
UsedUartIsOn ==
  \A u \in Users : user[u] = "using" => dtrAsserted /\ modemUart # "turning off"

\* A ring that the interrupt is armed for, or that it has signalled, is answered, though the queue
\* of the power task may be full of other events.
RingAnswered ==
  riLow /\ ~ringStuck /\ (interruptOn \/ ringSignalled) ~> dtrAsserted \/ ~riLow

\* Once the UART may sleep it is turned off in the end, and the device can light-sleep, also with
\* a ring indicator that is stuck.
UartSleeps == sleepAllowed ~> ~dtrAsserted

=============================================================================
