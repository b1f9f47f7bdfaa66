-------------------------------- MODULE Door --------------------------------
(***************************************************************************)
(* A motorized door between two end switches: the run loop with its motor, *)
(* watchdog and update queue, and whoever puts something in that queue -   *)
(* the function that moves the door, the switches' task, the task of the   *)
(* ESP timers, and a shutdown.                                             *)
(*                                                                         *)
(* The door itself stands somewhere from 0, where the closed switch        *)
(* engages, to Travel, where the open switch does.  It may be stuck, and   *)
(* a switch may lose contact.  The function's schedule is the state it     *)
(* wants, which may change whenever it is evaluated.                       *)
(*                                                                         *)
(* What a task does between two steps that another one can tell apart is   *)
(* one action: Queue::put() with what comes before it, the motor and its   *)
(* watchdog.  stateMutex is held between two actions only by a put() that  *)
(* waits for room, and only then has the run loop to wait for it.          *)
(***************************************************************************)
EXTENDS Naturals, Sequences

-----------------------------------------------------------------------------
(* Debounced switches (SwitchManager.hpp): the interrupt handler of their  *)
(* pins leaves its report in a queue of one element, which a task takes.   *)
(* The handler runs with the edge, before any task does.  Time is left     *)
(* out: any edge may come within the debounce time of the last report.     *)

CONSTANTS
  Switches,
  NoChange      \* the queue is empty

VARIABLES
  engaged,               \* the level of each pin
  lastReportedState,     \* SwitchState::lastReportedState
  switchStateInterrupts  \* the queue of one element

switchVars == <<engaged, lastReportedState, switchStateInterrupts>>

SwitchStateChange == [switch : Switches, engaged : BOOLEAN]

ASSUME NoChangeAssumption == NoChange \notin SwitchStateChange

SwitchesTypeOK ==
  /\ engaged \in [Switches -> BOOLEAN]
  /\ lastReportedState \in [Switches -> BOOLEAN]
  /\ switchStateInterrupts \in SwitchStateChange \cup {NoChange}

\* registerSwitch() reads the levels.
SwitchesInit(levels) ==
  /\ engaged = levels
  /\ lastReportedState = levels
  /\ switchStateInterrupts = NoChange

\* Ignored if it is no news or comes too soon after the last report; otherwise it
\* takes the place of a report that the task has not taken, of whatever switch.
handleSwitchInterrupt(s) ==
  \/ UNCHANGED <<lastReportedState, switchStateInterrupts>>
  \/ /\ engaged'[s] # lastReportedState[s]
     /\ lastReportedState' = [lastReportedState EXCEPT ![s] = engaged'[s]]
     /\ switchStateInterrupts' = [switch |-> s, engaged |-> engaged'[s]]

Edge(s) ==
  /\ engaged' = [engaged EXCEPT ![s] = ~ @]
  /\ handleSwitchInterrupt(s)

takeChange ==
  /\ switchStateInterrupts # NoChange
  /\ switchStateInterrupts' = NoChange
  /\ UNCHANGED <<engaged, lastReportedState>>

-----------------------------------------------------------------------------
(* The door (Door.hpp).                                                    *)

CONSTANTS
  OpenSwitch,
  ClosedSwitch,
  None,          \* an absent std::optional
  Travel,        \* how many steps the open end is from the closed end
  QueueSize,     \* capacity of updateQueue
  MaxEvents      \* bound on what comes from outside: the schedule wants another
                 \* state, a switch loses contact, the device is to shut down

ASSUME SwitchesAssumption ==
  /\ OpenSwitch # ClosedSwitch
  /\ Switches = {OpenSwitch, ClosedSwitch}
ASSUME TravelAssumption == Travel \in Nat \ {0, 1}
ASSUME BoundsAssumption ==
  /\ QueueSize \in Nat \ {0}
  /\ MaxEvents \in Nat

States == {"Open", "Closed"}
ASSUME NoneAssumption == None \notin States \cup {"function"}

VARIABLES
  position,        \* where the door stands
  motor,           \* the phase it is driven in
  armed,           \* the watchdog's timer runs
  fired,           \* it ran out, and its callback has not run yet
  sleepLock,       \* the lock that keeps the device from light sleep
  updateQueue,
  mutex,           \* who holds stateMutex between two steps
  targetState,
  lastState,
  operationState,
  loop,            \* where the run loop is
  currentState,    \* its locals
  switchEngaged,
  update,          \* the target of the update it handles
  function,        \* the function's task: "waiting", "requesting" or "putting"
  wanted,          \* what its schedule asks for
  shutdown,        \* the device has been told to shut down
  events           \* counted for the bound

watchdog == <<armed, sleepLock>>
doorState == <<targetState, lastState, operationState>>
loopVars == <<loop, currentState, switchEngaged, update>>
requests == <<function, wanted>>
vars == <<switchVars, position, motor, watchdog, fired, updateQueue, mutex, doorState,
          loopVars, requests, shutdown, events>>

Updates ==
  [kind : {"switch"}, change : SwitchStateChange]
    \cup [kind : {"configure"}, target : States]
    \cup [kind : {"timeout", "shutdown"}]

TypeOK ==
  /\ SwitchesTypeOK
  /\ position \in 0 .. Travel
  /\ motor \in {"stopped", "forward", "reverse"}
  /\ armed \in BOOLEAN
  /\ fired \in BOOLEAN
  /\ sleepLock \in BOOLEAN
  /\ updateQueue \in Seq(Updates)
  /\ Len(updateQueue) <= QueueSize
  /\ mutex \in {"function", None}
  /\ targetState \in States \cup {None}
  /\ lastState \in States \cup {None}
  /\ operationState \in {"Running", "Stopped", "WatchdogTimeout"}
  /\ loop \in {"deciding", "noting", "taking", "configuring", "ended"}
  /\ currentState \in States \cup {None}
  /\ switchEngaged \in [Switches -> BOOLEAN]
  /\ update \in States \cup {None}
  /\ function \in {"waiting", "requesting", "putting"}
  /\ wanted \in States
  /\ shutdown \in BOOLEAN
  /\ events \in 0 .. MaxEvents

\* The levels of the end switches of a door that stands at p.
LevelsAt(p) == [s \in Switches |-> p = IF s = OpenSwitch THEN Travel ELSE 0]

\* start() registers the switches and stops the motor; the run loop reads them.
Init ==
  /\ position \in 0 .. Travel
  /\ SwitchesInit(LevelsAt(position))
  /\ motor = "stopped"
  /\ armed = FALSE
  /\ fired = FALSE
  /\ sleepLock = FALSE
  /\ updateQueue = << >>
  /\ mutex = None
  /\ targetState = None
  /\ lastState = None
  /\ operationState = "Running"
  /\ loop = "deciding"
  /\ currentState = None
  /\ switchEngaged = LevelsAt(position)
  /\ update = None
  /\ function = "requesting"
  /\ wanted \in States
  /\ shutdown = FALSE
  /\ events = 0

event ==
  /\ events < MaxEvents
  /\ events' = events + 1

-----------------------------------------------------------------------------
(* The door and its switches *)

\* Edges of the switches where the door leaves one end or gets to another.
Move ==
  /\ \/ motor = "forward" /\ position < Travel /\ position' = position + 1
     \/ motor = "reverse" /\ position > 0 /\ position' = position - 1
  /\ \/ engaged = LevelsAt(position') /\ UNCHANGED switchVars
     \/ \E s \in Switches : engaged[s] # LevelsAt(position')[s] /\ Edge(s)
  /\ UNCHANGED <<motor, watchdog, fired, updateQueue, mutex, doorState, loopVars,
                 requests, shutdown, events>>

LoseContact(s) ==
  /\ engaged[s]
  /\ event
  /\ Edge(s)
  /\ UNCHANGED <<position, motor, watchdog, fired, updateQueue, mutex, doorState,
                 loopVars, requests, shutdown>>

-----------------------------------------------------------------------------
(* The update queue *)

\* Seeded fault: the queue takes what it has no room for.
putAnyway(u) == updateQueue' = Append(updateQueue, u)

\* Queue::put() waits for room.
put(u) ==
  /\ Len(updateQueue) < QueueSize
  /\ updateQueue' = Append(updateQueue, u)

enqueueSwitchEvent ==
  /\ takeChange
  /\ put([kind |-> "switch", change |-> switchStateInterrupts])
  /\ UNCHANGED <<position, motor, watchdog, fired, mutex, doorState, loopVars, requests,
                 shutdown, events>>

Shutdown ==
  /\ ~ shutdown
  /\ event
  /\ shutdown' = TRUE
  /\ operationState = "Running"
  /\ put([kind |-> "shutdown"])
  /\ UNCHANGED <<switchVars, position, motor, watchdog, fired, mutex, doorState, loopVars,
                 requests>>

-----------------------------------------------------------------------------
(* The watchdog *)

\* A one-shot timer is over before its callback runs.
Fire ==
  /\ armed /\ ~ fired
  /\ armed' = FALSE
  /\ fired' = TRUE
  /\ UNCHANGED <<switchVars, position, motor, sleepLock, updateQueue, mutex, doorState,
                 loopVars, requests, shutdown, events>>

handleWatchdogEvent ==
  /\ fired
  /\ fired' = FALSE
  /\ sleepLock' = FALSE
  /\ put([kind |-> "timeout"])
  /\ UNCHANGED <<switchVars, position, motor, armed, mutex, doorState, loopVars, requests,
                 shutdown, events>>

\* Watchdog::restart(), with its callback.
restart ==
  /\ armed' = TRUE
  /\ sleepLock' = TRUE

\* Seeded fault: the timer stops, but its callback is not told.
cancelSilently ==
  /\ armed' = FALSE
  /\ UNCHANGED sleepLock

\* Watchdog::cancel(): a timer that is over cannot be stopped.
cancel ==
  IF armed
  THEN armed' = FALSE /\ sleepLock' = FALSE
  ELSE UNCHANGED watchdog

-----------------------------------------------------------------------------
(* The run loop *)

drive ==
  /\ motor' = IF targetState = "Open" THEN "forward" ELSE "reverse"
  /\ restart

stop ==
  /\ motor' = "stopped"
  /\ cancel

atTargetState(state) == targetState # None /\ state = targetState

\* Seeded fault: without a signal the door is on its way.
stateOfSwitches ==
  IF switchEngaged[OpenSwitch] = switchEngaged[ClosedSwitch] THEN None
  ELSE IF switchEngaged[OpenSwitch] THEN "Open" ELSE "Closed"

\* Without a signal, a door that got to its target is taken to be there still.
determineCurrentState ==
  IF switchEngaged[OpenSwitch] # switchEngaged[ClosedSwitch]
  THEN IF switchEngaged[OpenSwitch] THEN "Open" ELSE "Closed"
  ELSE IF ~ switchEngaged[OpenSwitch] /\ atTargetState(lastState) THEN lastState ELSE None

\* A door without a target stops, and one at its target if it moves; any other is
\* driven, and its watchdog restarted with every update.
Decide ==
  /\ loop = "deciding"
  /\ currentState' = determineCurrentState
  /\ \/ targetState = None /\ stop
     \/ atTargetState(determineCurrentState) /\ motor # "stopped" /\ stop
     \/ atTargetState(determineCurrentState) /\ motor = "stopped"
        /\ UNCHANGED <<motor, watchdog>>
     \/ targetState # None /\ ~ atTargetState(determineCurrentState) /\ drive
  /\ IF mutex = None \/ determineCurrentState = lastState
     THEN lastState' = determineCurrentState /\ loop' = "taking"
     ELSE UNCHANGED lastState /\ loop' = "noting"
  /\ UNCHANGED <<switchVars, position, fired, updateQueue, mutex, targetState,
                 operationState, switchEngaged, update, requests, shutdown, events>>

\* A state that is news waits for stateMutex.
NoteState ==
  /\ loop = "noting"
  /\ mutex = None
  /\ lastState' = currentState
  /\ loop' = "taking"
  /\ UNCHANGED <<switchVars, position, motor, watchdog, fired, updateQueue, mutex,
                 targetState, operationState, currentState, switchEngaged, update,
                 requests, shutdown, events>>

take(kinds) ==
  /\ loop = "taking"
  /\ updateQueue # << >>
  /\ Head(updateQueue).kind \in kinds
  /\ updateQueue' = Tail(updateQueue)

TakeSwitchEvent ==
  /\ take({"switch"})
  /\ LET change == Head(updateQueue).change
     IN  switchEngaged' = [switchEngaged EXCEPT ![change.switch] = change.engaged]
  /\ loop' = "deciding"
  /\ UNCHANGED <<switchVars, position, motor, watchdog, fired, mutex, doorState,
                 currentState, update, requests, shutdown, events>>

\* Seeded fault: only a door without a target gets one.
configureOnce(target) == targetState' = IF targetState = None THEN target ELSE targetState

configure(target) == targetState' = target

TakeConfigure ==
  /\ take({"configure"})
  /\ IF mutex = None
     THEN configure(Head(updateQueue).target) /\ loop' = "deciding" /\ UNCHANGED update
     ELSE /\ update' = Head(updateQueue).target
          /\ loop' = "configuring"
          /\ UNCHANGED targetState
  /\ UNCHANGED <<switchVars, position, motor, watchdog, fired, mutex, lastState,
                 operationState, currentState, switchEngaged, requests, shutdown, events>>

\* The rest of it, when stateMutex is free.
Configure ==
  /\ loop = "configuring"
  /\ mutex = None
  /\ configure(update)
  /\ update' = None
  /\ loop' = "deciding"
  /\ UNCHANGED <<switchVars, position, motor, watchdog, fired, updateQueue, mutex,
                 lastState, operationState, currentState, switchEngaged, requests,
                 shutdown, events>>

\* Either ends the loop for good.
TakeStop ==
  /\ take({"timeout", "shutdown"})
  /\ operationState' =
       IF Head(updateQueue).kind = "timeout" THEN "WatchdogTimeout" ELSE "Stopped"
  /\ stop
  /\ loop' = "ended"
  /\ UNCHANGED <<switchVars, position, fired, mutex, targetState, lastState, currentState,
                 switchEngaged, update, requests, shutdown, events>>

-----------------------------------------------------------------------------
(* The function *)

\* A new configuration comes at any time and is evaluated at once.
TakeConfiguration ==
  /\ function = "waiting"
  /\ event
  /\ wanted' \in States \ {wanted}
  /\ function' = "requesting"
  /\ UNCHANGED <<switchVars, position, motor, watchdog, fired, updateQueue, mutex,
                 doorState, loopVars, shutdown>>

\* The schedule's deadline is long after the run loop is done with the last update.
DeadlinePassed ==
  /\ function = "waiting"
  /\ \/ loop = "ended"
     \/ loop = "taking" /\ updateQueue = << >>
  /\ \/ UNCHANGED <<wanted, events>>
     \/ event /\ wanted' \in States \ {wanted}
  /\ function' = "requesting"
  /\ UNCHANGED <<switchVars, position, motor, watchdog, fired, updateQueue, mutex,
                 doorState, loopVars, shutdown>>

\* Returns at once if that is the target already, whatever is queued, and waits for room
\* in the queue with stateMutex held.
transitionTo ==
  /\ function = "requesting"
  /\ \/ targetState = wanted
        /\ function' = "waiting" /\ UNCHANGED <<updateQueue, mutex>>
     \/ targetState # wanted /\ put([kind |-> "configure", target |-> wanted])
        /\ function' = "waiting" /\ UNCHANGED mutex
     \/ targetState # wanted /\ Len(updateQueue) = QueueSize
        /\ function' = "putting" /\ mutex' = "function" /\ UNCHANGED updateQueue
  /\ UNCHANGED <<switchVars, position, motor, watchdog, fired, doorState, loopVars,
                 wanted, shutdown, events>>

PutRequest ==
  /\ function = "putting"
  /\ put([kind |-> "configure", target |-> wanted])
  /\ function' = "waiting"
  /\ mutex' = None
  /\ UNCHANGED <<switchVars, position, motor, watchdog, fired, doorState, loopVars,
                 wanted, shutdown, events>>

-----------------------------------------------------------------------------
RunLoop ==
  \/ Decide
  \/ NoteState
  \/ TakeSwitchEvent
  \/ TakeConfigure
  \/ Configure
  \/ TakeStop

Function == DeadlinePassed \/ transitionTo \/ PutRequest

Next ==
  \/ Move
  \/ \E s \in Switches : LoseContact(s)
  \/ enqueueSwitchEvent
  \/ Fire
  \/ handleWatchdogEvent
  \/ RunLoop
  \/ TakeConfiguration
  \/ Function
  \/ Shutdown

\* Every task runs, and a timer that is not stopped runs out.  The door need not move.
Fairness ==
  /\ WF_vars(enqueueSwitchEvent)
  /\ WF_vars(Fire)
  /\ WF_vars(handleWatchdogEvent)
  /\ WF_vars(RunLoop)
  /\ WF_vars(Function)

Spec == Init /\ [][Next]_vars
FairSpec == Spec /\ Fairness

-----------------------------------------------------------------------------
(* Properties *)

TimeoutQueued == \E i \in DOMAIN updateQueue : updateQueue[i].kind = "timeout"

\* A motor that runs is watched and the device awake: the timer counts, or its timeout
\* is on its way to the loop (Door.hpp:54-64, 326-342).
MotorWatched ==
  motor # "stopped" => (armed /\ sleepLock) \/ fired \/ TimeoutQueued

\* A door at rest neither counts nor keeps the device awake, or its battery would not
\* last (Door.hpp:60-64, 332-342).
SleepsAtRest ==
  motor = "stopped" /\ ~ fired => ~ armed /\ ~ sleepLock

\* The watchdog runs with the motor, and only with it.
DoorSafe == MotorWatched /\ SleepsAtRest

Opposite(state) == IF state = "Open" THEN ClosedSwitch ELSE OpenSwitch

\* A door that stands where it should is set in motion only by a new target, or by word
\* that it is at its other end - never by its own switch losing contact, in whatever
\* order the events come (Door.hpp:350-371).
StaysPut ==
  [][motor = "stopped" /\ motor' # "stopped" /\ atTargetState(lastState)
       => switchEngaged[Opposite(lastState)]]_vars

\* The function waits for room in the queue with stateMutex held, and the run loop, which
\* would make room, for stateMutex (Door.hpp:177-181, 240-244, 265-274).
WaitForEachOther ==
  /\ mutex = "function"
  /\ loop \in {"noting", "configuring"}
  /\ Len(updateQueue) = QueueSize

\* The motor does not run for ever, wherever the door got stuck and whatever edges the
\* switches lost (Door.hpp:258-267).
MotorStops == motor # "stopped" ~> motor = "stopped" \/ WaitForEachOther

\* What the function asked for last becomes the target, though a request can be dropped
\* on the way (Door.hpp:176-183, ScheduledTransitionLoop.hpp:54-84).
RequestWins ==
  <>[](operationState = "Running" => targetState = wanted \/ WaitForEachOther)

\* As long as the two tasks do not wait for each other, a request ends in its target and
\* every run of the motor in a stop.
DoorLive == MotorStops /\ RequestWins
=============================================================================
