------------------------------- MODULE Indicators -------------------------------
(***************************************************************************)
(* What the device shows and sounds: the status LED, which a task sets by  *)
(* the states of the modules, kept in an event group; the buzzer and the   *)
(* motors' bridges, which share the enable pin of the load rail.           *)
(***************************************************************************)
EXTENDS Naturals, Sequences, FiniteSets

CONSTANTS MaxStateChanges, MaxBuzzes      \* bounds

ASSUME IndicatorsAssumption == MaxStateChanges \in Nat /\ MaxBuzzes \in Nat

States == {"configPortalRunning", "networkConnecting", "rtcInSync", "mqttReady", "kernelReady", "networkReady"}
\* The order updateState() looks at them in.
Asked == <<"configPortalRunning", "networkConnecting", "rtcInSync", "mqttReady", "kernelReady", "networkReady">>
Decides(state, isSet) == isSet = (state \in {"configPortalRunning", "networkConnecting", "networkReady"})
Kernel(state) ==
  CASE state = "configPortalRunning" -> "NetworkConfiguring" [] state = "networkConnecting" -> "NetworkConnecting"
    [] state = "rtcInSync" -> "RtcSyncing" [] state = "mqttReady" -> "MqttConnecting"
    [] state = "kernelReady" -> "InitFinishing" [] OTHER -> "Transmitting"
Pattern(kernel) == IF kernel \in {"Booting", "Transmitting", "Idle"} THEN "off" ELSE kernel

VARIABLES
  bits,                 \* the event group: the states that are set
  changed,              \* STATE_CHANGE_BIT_MASK
  clearing,             \* a state is cleared and the change not signalled yet
  asking,               \* which of Asked the status task is at; 0 while it waits for a change
  kernel, putting,      \* KernelState, and the pattern it is about to put in the queue
  patternQueue, pattern, lit,   \* LedDriver
  changesLeft

statusVars == <<bits, changed, clearing, asking, kernel, putting, patternQueue, pattern, lit, changesLeft>>

StatusInit ==
  /\ bits = {} /\ changed = FALSE /\ clearing = FALSE /\ asking = 1 /\ kernel = "Booting" /\ putting = "none"
  /\ patternQueue = <<>> /\ pattern = "off" /\ lit = FALSE /\ changesLeft = MaxStateChanges

\* For contrast: the change is not signalled.
setSilently ==
  /\ changesLeft > 0 /\ changesLeft' = changesLeft - 1
  /\ \E s \in States: bits' = bits \cup {s}
  /\ UNCHANGED <<changed, clearing, asking, kernel, putting, patternQueue, pattern, lit>>
\* StateSource::set() sets both bits at once; clear() clears the one, then sets the other.
set ==
  /\ changesLeft > 0 /\ changesLeft' = changesLeft - 1
  /\ \E s \in States: bits' = bits \cup {s}
  /\ changed' = TRUE
  /\ UNCHANGED <<clearing, asking, kernel, putting, patternQueue, pattern, lit>>
ClearBit ==
  /\ changesLeft > 0 /\ changesLeft' = changesLeft - 1 /\ ~clearing
  /\ \E s \in States: bits' = bits \ {s}
  /\ clearing' = TRUE /\ UNCHANGED changed
  /\ UNCHANGED <<asking, kernel, putting, patternQueue, pattern, lit>>
SignalCleared ==
  /\ clearing /\ clearing' = FALSE /\ changed' = TRUE
  /\ UNCHANGED <<bits, asking, kernel, putting, patternQueue, pattern, lit, changesLeft>>

\* updateState(): the states are looked at one by one.
Shows(newState) ==
  /\ kernel' = newState /\ asking' = 0
  /\ putting' = IF newState # kernel THEN Pattern(newState) ELSE "none"
isSet ==
  /\ asking \in DOMAIN Asked /\ putting = "none"
  /\ LET state == Asked[asking]
     IN IF Decides(state, state \in bits) THEN Shows(Kernel(state))
        ELSE IF asking = Len(Asked) THEN Shows("Idle")
        ELSE asking' = asking + 1 /\ UNCHANGED <<kernel, putting>>
  /\ UNCHANGED <<bits, changed, clearing, patternQueue, pattern, lit, changesLeft>>
\* For contrast: the queue is taken to have room.
setPatternAnyway ==
  /\ putting # "none"
  /\ patternQueue' = Append(patternQueue, putting) /\ putting' = "none"
  /\ UNCHANGED <<bits, changed, clearing, asking, kernel, pattern, lit, changesLeft>>
\* LedDriver::setPattern() waits while the queue is full.
setPattern ==
  /\ putting # "none" /\ patternQueue = <<>>
  /\ patternQueue' = <<putting>> /\ putting' = "none"
  /\ UNCHANGED <<bits, changed, clearing, asking, kernel, pattern, lit, changesLeft>>
awaitStateChange ==
  /\ asking = 0 /\ putting = "none" /\ changed
  /\ changed' = FALSE /\ asking' = 1
  /\ UNCHANGED <<bits, clearing, kernel, putting, patternQueue, pattern, lit, changesLeft>>

\* LedDriver::handleIteration(): a new pattern starts at once, or the next of the pattern is shown.
handleIteration ==
  /\ IF patternQueue # <<>>
     THEN pattern' = patternQueue[1] /\ patternQueue' = <<>> /\ lit' = (pattern' # "off")
     ELSE pattern # "off" /\ lit' = ~lit /\ UNCHANGED <<pattern, patternQueue>>
  /\ UNCHANGED <<bits, changed, clearing, asking, kernel, putting, changesLeft>>

StatusTasks == SignalCleared \/ isSet \/ setPattern \/ awaitStateChange
LedTask == patternQueue # <<>> /\ handleIteration
StatusNext == set \/ ClearBit \/ StatusTasks \/ handleIteration

\* What there is to show.
Current ==
  LET decisive == {i \in DOMAIN Asked: Decides(Asked[i], Asked[i] \in bits)}
  IN IF decisive = {} THEN "Idle" ELSE Kernel(Asked[CHOOSE i \in decisive: \A j \in decisive: i <= j])

-----------------------------------------------------------------------------
(* The buzzer, and a motor beside it on the enable pin.                    *)

VARIABLES
  buzzing,              \* where the task in buzz() is; "stopping" and "silent" are the timer's
  lock,                 \* BuzzerDriver::mutex
  stopTimer, stopDue,   \* the timer is set; its callback waits for the mutex
  stage,                \* how far stop() is
  duty, inputs,         \* the buzzer's channel, and the bridge's two
  held,                 \* the SharedEnable's handles
  sleepLock,            \* BuzzerDriver::sleepLock
  driving,              \* where a task in the motor driver is
  buzzesLeft

outputVars == <<buzzing, lock, stopTimer, stopDue, stage, duty, inputs, held, sleepLock, driving, buzzesLeft>>

OutputsInit ==
  /\ buzzing = "no" /\ lock = "free" /\ stopTimer = FALSE /\ stopDue = FALSE /\ stage = 0
  /\ duty = 0 /\ inputs = "low" /\ held = {} /\ sleepLock = FALSE /\ driving = "no" /\ buzzesLeft = MaxBuzzes

Buzz ==
  /\ buzzing = "no" /\ lock = "free" /\ buzzesLeft > 0 /\ buzzesLeft' = buzzesLeft - 1
  /\ lock' = "buzz" /\ stopTimer' = FALSE
  /\ buzzing' = "acquiring"
  /\ UNCHANGED <<stopDue, stage, duty, inputs, held, sleepLock, driving>>
\* The load rail has settled.
AcquireForBuzz ==
  /\ buzzing = "acquiring" /\ buzzing' = "sounding"
  /\ held' = held \cup {"buzzer"} /\ sleepLock' = TRUE
  /\ UNCHANGED <<lock, stopTimer, stopDue, stage, duty, inputs, driving, buzzesLeft>>
Sound ==
  /\ buzzing = "sounding" /\ buzzing' = "no" /\ lock' = "free"
  /\ duty' = 1 /\ stopTimer' = TRUE
  /\ UNCHANGED <<stopDue, stage, inputs, held, sleepLock, driving, buzzesLeft>>
TimerFires ==
  /\ stopTimer /\ ~stopDue /\ stage = 0
  /\ stopTimer' = FALSE /\ stopDue' = TRUE
  /\ UNCHANGED <<buzzing, lock, stage, duty, inputs, held, sleepLock, driving, buzzesLeft>>
\* stop(), on the timer task.
MayStop == lock = "free"
Stop ==
  /\ stopDue /\ stage = 0 /\ MayStop
  /\ lock' = "stop" /\ duty' = 0 /\ stage' = 1
  /\ UNCHANGED <<buzzing, stopTimer, stopDue, inputs, held, sleepLock, driving, buzzesLeft>>
ReleaseBuzzer ==
  /\ stage = 1 /\ stage' = 0 /\ stopDue' = FALSE
  /\ held' = held \ {"buzzer"} /\ sleepLock' = FALSE /\ lock' = IF lock = "stop" THEN "free" ELSE lock
  /\ UNCHANGED <<buzzing, stopTimer, duty, inputs, driving, buzzesLeft>>

\* Drv8833 and Drv8874: drive() and brake() wait for the rail first; a stop lets go of it last, as another
\* may keep it up.
drive ==
  /\ driving = "no" /\ driving' \in {"driven", "braked"}
  /\ held' = held \cup {"motor"}
  /\ UNCHANGED <<buzzing, lock, stopTimer, stopDue, stage, duty, inputs, sleepLock, buzzesLeft>>
WriteInputs ==
  /\ driving \in {"driven", "braked"} /\ inputs' = driving /\ driving' = "no"
  /\ UNCHANGED <<buzzing, lock, stopTimer, stopDue, stage, duty, held, sleepLock, buzzesLeft>>
StopMotor ==
  /\ driving = "no" /\ "motor" \in held /\ driving' = "stopping"
  /\ inputs' = "low"
  /\ UNCHANGED <<buzzing, lock, stopTimer, stopDue, stage, duty, held, sleepLock, buzzesLeft>>
ReleaseMotor ==
  /\ driving = "stopping" /\ driving' = "no" /\ held' = held \ {"motor"}
  /\ UNCHANGED <<buzzing, lock, stopTimer, stopDue, stage, duty, inputs, sleepLock, buzzesLeft>>

BuzzerTasks == AcquireForBuzz \/ Sound \/ TimerFires \/ Stop \/ ReleaseBuzzer
OutputsNext == Buzz \/ BuzzerTasks \/ drive \/ WriteInputs \/ StopMotor \/ ReleaseMotor

-----------------------------------------------------------------------------
(* Properties.                                                             *)

IndicatorsTypeOK ==
  /\ bits \subseteq States /\ {changed, clearing, lit} \subseteq BOOLEAN /\ asking \in 0..Len(Asked)
  /\ Len(patternQueue) <= 1 /\ changesLeft \in 0..MaxStateChanges
  /\ lock \in {"free", "buzz", "stop"} /\ duty \in 0..1 /\ inputs \in {"low", "driven", "braked"}
  /\ held \subseteq {"buzzer", "motor"} /\ {stopTimer, stopDue, sleepLock} \subseteq BOOLEAN

\* What is driven is powered, the buzzer does not let the device sleep, and a bridge left alone on a pin
\* that others keep up is not driven (BuzzerDriver.hpp:67-91, Drv8833Driver.hpp:111-143,
\* Drv8874Driver.hpp:51-85).
OutputsSound ==
  /\ duty > 0 => "buzzer" \in held /\ sleepLock
  /\ inputs # "low" => "motor" \in held

\* The LED comes to show the state the device is in, and is off when it is to be
\* (KernelStatus.hpp:64-119, State.hpp:80-94).
LedFollows == <>[](pattern = Pattern(Current) /\ (pattern = "off" => ~lit))

\* A buzz ends, and with it the device may sleep (BuzzerDriver.hpp:67-91).
BuzzEnds == sleepLock ~> (~sleepLock /\ duty = 0)

==============================================================================
