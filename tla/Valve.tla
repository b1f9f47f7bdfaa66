-------------------------------- MODULE Valve --------------------------------
(***************************************************************************)
(* A valve (peripherals/valve) over a motor bridge or a pin, asked to move *)
(* by the function that owns it and by a shutdown when the battery is low, *)
(* and what its coil does.  A "forward" drive opens.                       *)
(***************************************************************************)
EXTENDS Integers, FiniteSets

CONSTANT MaxCrashes

ASSUME CrashesAssumption == MaxCrashes \in Nat

VARIABLES
  kind,        \* of control strategy
  valveState,  \* what the valve says of itself, {} until it was driven once
  bridge,      \* the bridge's inputs: [phase, power]
  position,    \* where the valve is
  step,        \* where each task is in a transition, and to which state
  timers,      \* free hardware timers
  stopping,    \* "no", "closing" once the battery is low, "asleep"
  crashes

valveVars == <<kind, valveState, bridge, position, step, timers, stopping, crashes>>

Kinds == {"pin", "normallyOpen", "normallyClosed", "latching"}
Targets == {"Open", "Closed"}
Movers == {"function", "shutdown"}
Steps == {"idle", "start", "driving", "braking", "record"}
HardwareTimers == 2

ValveTypeOK ==
  /\ kind \in Kinds /\ valveState \in {{}} \cup {{s} : s \in Targets}
  /\ bridge \in [phase : Targets, power : {"off", "full", "hold", "brake"}]
  /\ position \in Targets
  /\ step \in [Movers -> [at : Steps, target : Targets]]
  /\ timers \in 0 .. HardwareTimers
  /\ stopping \in {"no", "closing", "asleep"} /\ crashes \in 0 .. MaxCrashes

BridgeOff == [phase |-> "Open", power |-> "off"]

\* A pin counts as normally closed.
getDefaultState(k) == IF k = "normallyOpen" THEN "Open" ELSE "Closed"

Idle == [at |-> "idle", target |-> "Closed"]

\* Contrast: a constructor that takes the default state for granted.
ConstructUndriven(k) == [m \in Movers |-> IF m = "function" THEN [at |-> "record", target |-> getDefaultState(k)] ELSE Idle]

\* The steps of the constructor, which drives the valve to its default state.
Construct(k) == [m \in Movers |-> IF m = "function" THEN [at |-> "start", target |-> getDefaultState(k)] ELSE Idle]

ValveInit ==
  /\ kind \in Kinds /\ valveState = {} /\ bridge = BridgeOff
  /\ position \in IF kind = "latching" THEN Targets ELSE {getDefaultState(kind)}
  /\ step = Construct(kind)
  /\ timers = HardwareTimers /\ stopping = "no" /\ crashes = 0

-----------------------------------------------------------------------------
(* The valve and the motor drivers.                                        *)

\* A held valve follows the bridge, a latching one only a whole pulse.
Drive(phase, power) ==
  /\ bridge' = [phase |-> phase, power |-> power]
  /\ position' = IF kind = "latching" THEN position
                 ELSE IF power = "off" THEN getDefaultState(kind) ELSE phase

Goes(m, at) == step' = [step EXCEPT ![m].at = at]

\* transitionTo: nothing to do for the state the valve is in.
transitionTo(target) ==
  /\ step["function"].at = "idle" /\ stopping # "asleep"
  /\ valveState # {target}
  /\ step' = [step EXCEPT !["function"] = [at |-> "start", target |-> target]]
  /\ UNCHANGED <<kind, valveState, bridge, position, timers, stopping, crashes>>

WritePin(m) ==
  /\ kind = "pin" /\ step[m].at = "start"
  /\ position' = step[m].target
  /\ Goes(m, "record")
  /\ UNCHANGED <<bridge, timers>>

\* A held valve goes to its default state when it is let go.
LetGo(m) ==
  /\ kind \in {"normallyOpen", "normallyClosed"} /\ step[m].at = "start"
  /\ step[m].target = getDefaultState(kind)
  /\ Drive("Open", "off")
  /\ Goes(m, "record")
  /\ UNCHANGED timers

driveAndHold(m) ==
  /\ kind \in {"normallyOpen", "normallyClosed"}
  /\ step[m].target # getDefaultState(kind)
  /\ \/ step[m].at = "start" /\ Drive(step[m].target, "full") /\ Goes(m, "driving")
     \/ step[m].at = "driving" /\ Drive(step[m].target, "hold") /\ Goes(m, "record")
  /\ UNCHANGED timers

\* drivePulse, with a hardware timer for its time; its alarm, or the task after it, brakes.
StartPulse(m) ==
  /\ kind = "latching" /\ step[m].at = "start" /\ timers > 0
  /\ Drive(step[m].target, "full")
  /\ timers' = timers - 1
  /\ Goes(m, "driving")

EndPulse(m) ==
  /\ kind = "latching" /\ step[m].at = "driving"
  /\ bridge' = [bridge EXCEPT !.power = "brake"]
  /\ position' \in IF bridge = [phase |-> step[m].target, power |-> "full"] THEN {step[m].target} ELSE Targets
  /\ timers' = timers + 1
  /\ Goes(m, "braking")

StopMotor(m) ==
  /\ step[m].at = "braking"
  /\ Drive("Open", "off")
  /\ Goes(m, "record")
  /\ UNCHANGED timers

setState(m) ==
  /\ step[m].at = "record"
  /\ valveState' = {step[m].target}
  /\ Goes(m, "idle")
  /\ UNCHANGED <<bridge, position, timers>>

Moves(m) ==
  /\ \/ (WritePin(m) \/ LetGo(m) \/ driveAndHold(m) \/ StartPulse(m) \/ EndPulse(m) \/ StopMotor(m)) /\ UNCHANGED valveState
     \/ setState(m)
  /\ UNCHANGED <<kind, stopping, crashes>>

-----------------------------------------------------------------------------
(* Shutdowns, crashes, and the other valves' pulses.                       *)

\* The power is cut or the chip restarts: what is held falls back, a pulse may have been long enough.
PowerLost ==
  /\ bridge' = BridgeOff
  /\ position' \in IF kind \in {"normallyOpen", "normallyClosed"} THEN {getDefaultState(kind)}
                   ELSE IF kind = "pin" THEN {position, "Closed"}
                   ELSE IF bridge.power = "full" THEN {position, bridge.phase} ELSE {position}
  /\ valveState' = {}
  /\ timers' = HardwareTimers
  /\ UNCHANGED kind

Boot == PowerLost /\ step' = Construct(kind) /\ stopping' = "no"

\* A pulse for which there is no timer aborts.
CannotTime == kind = "latching" /\ timers = 0 /\ \E m \in Movers : step[m].at = "start"

Crash == crashes < MaxCrashes /\ stopping # "asleep" /\ Boot /\ crashes' = crashes + 1

Abort == stopping # "asleep" /\ CannotTime /\ Boot /\ UNCHANGED crashes

OtherPulse ==
  /\ kind = "latching" /\ stopping # "asleep"
  /\ timers' \in 0 .. HardwareTimers - Cardinality({m \in Movers : step[m].at = "driving"})
  /\ UNCHANGED <<kind, valveState, bridge, position, step, stopping, crashes>>

\* The battery is low: the shutdown task closes the valve, whatever it says of itself.
closeBeforeShutdown ==
  /\ stopping = "no" /\ valveState # {}
  /\ stopping' = "closing"
  /\ step' = [step EXCEPT !["shutdown"] = [at |-> "start", target |-> "Closed"]]
  /\ UNCHANGED <<kind, valveState, bridge, position, timers, crashes>>

\* Ten seconds later, and until the battery has recovered.
DeepSleep ==
  /\ stopping = "closing" /\ step["shutdown"].at = "idle"
  /\ PowerLost
  /\ step' = [m \in Movers |-> Idle]
  /\ stopping' = "asleep"
  /\ UNCHANGED crashes

WakeUpValve == stopping = "asleep" /\ Boot /\ UNCHANGED crashes

ValveNext ==
  \/ \E target \in Targets : transitionTo(target)
  \/ \E m \in Movers : Moves(m)
  \/ Crash \/ Abort \/ OtherPulse \/ closeBeforeShutdown \/ DeepSleep \/ WakeUpValve

-----------------------------------------------------------------------------
\* At rest a valve is where it says it is, and a latching one draws no current.
ValveKnown ==
  stopping = "no" /\ (\A m \in Movers : step[m].at = "idle") =>
    /\ valveState = {position}
    /\ kind = "latching" => bridge.power = "off"

==============================================================================
