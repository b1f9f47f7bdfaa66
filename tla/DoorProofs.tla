----------------------------- MODULE DoorProofs -----------------------------
(***************************************************************************)
(* What holds of Door for any queue, any distance between its ends and any *)
(* number of changes of mind, lost contacts and shutdowns.                 *)
(***************************************************************************)
EXTENDS Door, TLAPS

\* Why a door at rest sleeps: the watchdog counts only for a motor that runs, and the
\* device is kept awake only by a watchdog that has not reported yet.
WatchdogInv ==
  /\ motor = "stopped" => ~ armed
  /\ sleepLock => armed \/ fired

DInv ==
  /\ TypeOK
  /\ WatchdogInv
  /\ MotorWatched

-----------------------------------------------------------------------------
(* Types *)

LEMMA LevelsType ==
  ASSUME NEW p \in 0 .. Travel
  PROVE  LevelsAt(p) \in [Switches -> BOOLEAN]
BY DEF LevelsAt

\* A door's state is one it can report.
LEMMA CurrentStateType ==
  ASSUME TypeOK
  PROVE  determineCurrentState \in States \cup {None}
BY DEF TypeOK, determineCurrentState, States

\* Room in the queue keeps it within its size.
LEMMA PutType ==
  ASSUME TypeOK, NEW u \in Updates, put(u)
  PROVE  updateQueue' \in Seq(Updates) /\ Len(updateQueue') <= QueueSize
BY BoundsAssumption DEF TypeOK, put

LEMMA TakeType ==
  ASSUME TypeOK, NEW kinds, take(kinds)
  PROVE  /\ updateQueue' \in Seq(Updates)
         /\ Len(updateQueue') <= QueueSize
         /\ Head(updateQueue) \in Updates
         /\ Head(updateQueue).kind \in kinds
BY BoundsAssumption DEF TypeOK, take

\* An edge is reported as a change of its switch or not at all.
LEMMA EdgeType ==
  ASSUME SwitchesTypeOK, NEW s \in Switches, Edge(s)
  PROVE  SwitchesTypeOK'
<1>1. engaged' \in [Switches -> BOOLEAN]
  BY DEF SwitchesTypeOK, Edge
<1>2. CASE UNCHANGED <<lastReportedState, switchStateInterrupts>>
  BY <1>1, <1>2 DEF SwitchesTypeOK
<1>3. CASE /\ lastReportedState' = [lastReportedState EXCEPT ![s] = engaged'[s]]
           /\ switchStateInterrupts' = [switch |-> s, engaged |-> engaged'[s]]
  <2>1. engaged'[s] \in BOOLEAN
    BY <1>1
  <2>2. lastReportedState' \in [Switches -> BOOLEAN]
    BY <2>1, <1>3 DEF SwitchesTypeOK
  <2>3. switchStateInterrupts' \in SwitchStateChange
    BY <2>1, <1>3 DEF SwitchStateChange
  <2> QED
    BY <1>1, <2>2, <2>3 DEF SwitchesTypeOK
<1> QED
  BY <1>2, <1>3 DEF Edge, handleSwitchInterrupt

\* The device's tasks start on a door that stands somewhere.
LEMMA TypeInit == Init => TypeOK
<1> SUFFICES ASSUME Init PROVE TypeOK
  OBVIOUS
<1>1. LevelsAt(position) \in [Switches -> BOOLEAN]
  BY LevelsType DEF Init
<1>2. SwitchesTypeOK
  BY <1>1 DEF Init, SwitchesInit, SwitchesTypeOK
<1>3. updateQueue \in Seq(Updates) /\ Len(updateQueue) <= QueueSize
  BY BoundsAssumption DEF Init
<1>4. 0 \in 0 .. MaxEvents
  BY BoundsAssumption
<1> QED
  BY <1>1, <1>2, <1>3, <1>4 DEF Init, TypeOK

LEMMA TypeStep == TypeOK /\ [Next]_vars => TypeOK'
<1> SUFFICES ASSUME TypeOK, [Next]_vars PROVE TypeOK'
  OBVIOUS
<1> USE DEF doorState, loopVars, requests, watchdog
<1>1. event => events' \in 0 .. MaxEvents
  BY BoundsAssumption DEF TypeOK, event
<1>2. UNCHANGED switchVars => SwitchesTypeOK'
  BY DEF TypeOK, SwitchesTypeOK, switchVars
<1>3. determineCurrentState \in States \cup {None}
  BY CurrentStateType
<1>4. drive \/ stop => /\ motor' \in {"stopped", "forward", "reverse"}
                      /\ armed' \in BOOLEAN
                      /\ sleepLock' \in BOOLEAN
  BY DEF TypeOK, drive, stop, restart, cancel
<1>5. wanted \in States /\ States = {"Open", "Closed"}
  BY DEF TypeOK, States
<1>6. CASE Move
  <2>1. position' \in 0 .. Travel
    BY <1>6, TravelAssumption DEF Move, TypeOK
  <2>2. SwitchesTypeOK'
    BY <1>6, <1>2, EdgeType DEF Move, TypeOK
  <2> QED
    BY <1>6, <2>1, <2>2 DEF Move, TypeOK
<1>7. ASSUME NEW s \in Switches, LoseContact(s) PROVE TypeOK'
  <2>1. SwitchesTypeOK'
    BY <1>7, EdgeType DEF LoseContact, TypeOK
  <2> QED
    BY <1>7, <1>1, <2>1 DEF LoseContact, TypeOK
<1>8. CASE enqueueSwitchEvent
  <2>1. SwitchesTypeOK'
    BY <1>8 DEF enqueueSwitchEvent, takeChange, TypeOK, SwitchesTypeOK
  <2>2. [kind |-> "switch", change |-> switchStateInterrupts] \in Updates
    BY <1>8 DEF enqueueSwitchEvent, takeChange, TypeOK, SwitchesTypeOK, Updates
  <2>3. updateQueue' \in Seq(Updates) /\ Len(updateQueue') <= QueueSize
    BY <1>8, <2>2, PutType DEF enqueueSwitchEvent
  <2> QED
    BY <1>8, <2>1, <2>3 DEF enqueueSwitchEvent, TypeOK
<1>9. CASE Fire
  <2>1. armed' \in BOOLEAN /\ fired' \in BOOLEAN
    BY <1>9 DEF Fire
  <2>2. UNCHANGED <<switchVars, position, motor, sleepLock, updateQueue, mutex, doorState,
                    loopVars, requests, shutdown, events>>
    BY <1>9 DEF Fire
  <2> QED
    BY <1>2, <2>1, <2>2 DEF TypeOK
<1>10. CASE handleWatchdogEvent
  <2>1. [kind |-> "timeout"] \in Updates
    BY DEF Updates
  <2>2. updateQueue' \in Seq(Updates) /\ Len(updateQueue') <= QueueSize
    BY <1>10, <2>1, PutType DEF handleWatchdogEvent
  <2>3. fired' \in BOOLEAN /\ sleepLock' \in BOOLEAN
    BY <1>10 DEF handleWatchdogEvent
  <2>4. UNCHANGED <<switchVars, position, motor, armed, mutex, doorState, loopVars, requests,
                    shutdown, events>>
    BY <1>10 DEF handleWatchdogEvent
  <2> QED
    BY <1>2, <2>2, <2>3, <2>4 DEF TypeOK
<1>11. CASE Decide
  <2>1. /\ motor' \in {"stopped", "forward", "reverse"}
        /\ armed' \in BOOLEAN
        /\ sleepLock' \in BOOLEAN
    BY <1>11, <1>4 DEF Decide, TypeOK
  <2>2. /\ currentState' \in States \cup {None}
        /\ lastState' \in States \cup {None}
        /\ loop' \in {"taking", "noting"}
    BY <1>11, <1>3 DEF Decide, TypeOK
  <2> QED
    BY <1>11, <1>2, <2>1, <2>2 DEF Decide, TypeOK
<1>12. CASE NoteState
  BY <1>12, <1>2 DEF NoteState, TypeOK
<1>13. CASE TakeSwitchEvent
  <2>1. /\ updateQueue' \in Seq(Updates)
        /\ Len(updateQueue') <= QueueSize
        /\ Head(updateQueue) \in Updates
        /\ Head(updateQueue).kind = "switch"
    BY <1>13, TakeType DEF TakeSwitchEvent
  <2>2. Head(updateQueue).change \in SwitchStateChange
    BY <2>1 DEF Updates
  <2>3. switchEngaged' \in [Switches -> BOOLEAN]
    BY <1>13, <2>2 DEF TakeSwitchEvent, TypeOK, SwitchStateChange
  <2> QED
    BY <1>13, <1>2, <2>1, <2>3 DEF TakeSwitchEvent, TypeOK
<1>14. CASE TakeConfigure
  <2>1. /\ updateQueue' \in Seq(Updates)
        /\ Len(updateQueue') <= QueueSize
        /\ Head(updateQueue) \in Updates
        /\ Head(updateQueue).kind = "configure"
    BY <1>14, TakeType DEF TakeConfigure
  <2>2. Head(updateQueue).target \in States
    BY <2>1 DEF Updates
  <2>3. /\ targetState' \in States \cup {None}
        /\ update' \in States \cup {None}
        /\ loop' \in {"deciding", "configuring"}
    BY <1>14, <2>2 DEF TakeConfigure, configure, TypeOK
  <2> QED
    BY <1>14, <1>2, <2>1, <2>3 DEF TakeConfigure, TypeOK
<1>15. CASE Configure
  BY <1>15, <1>2 DEF Configure, configure, TypeOK
<1>16. CASE TakeStop
  <2>1. updateQueue' \in Seq(Updates) /\ Len(updateQueue') <= QueueSize
    BY <1>16, TakeType DEF TakeStop
  <2>2. /\ motor' \in {"stopped", "forward", "reverse"}
        /\ armed' \in BOOLEAN
        /\ sleepLock' \in BOOLEAN
    BY <1>16, <1>4 DEF TakeStop
  <2> QED
    BY <1>16, <1>2, <2>1, <2>2 DEF TakeStop, TypeOK
<1>17. CASE TakeConfiguration
  BY <1>17, <1>1, <1>2 DEF TakeConfiguration, TypeOK
<1>18. CASE DeadlinePassed
  BY <1>18, <1>1, <1>2 DEF DeadlinePassed, TypeOK
<1>19. [kind |-> "configure", target |-> wanted] \in Updates
  BY <1>5 DEF Updates
<1>20. CASE transitionTo
  <2>1. updateQueue' \in Seq(Updates) /\ Len(updateQueue') <= QueueSize
    BY <1>20, <1>19, PutType DEF transitionTo, TypeOK
  <2> QED
    BY <1>20, <1>2, <2>1 DEF transitionTo, TypeOK
<1>21. CASE PutRequest
  <2>1. updateQueue' \in Seq(Updates) /\ Len(updateQueue') <= QueueSize
    BY <1>21, <1>19, PutType DEF PutRequest
  <2> QED
    BY <1>21, <1>2, <2>1 DEF PutRequest, TypeOK
<1>22. CASE Shutdown
  <2>1. [kind |-> "shutdown"] \in Updates
    BY DEF Updates
  <2>2. updateQueue' \in Seq(Updates) /\ Len(updateQueue') <= QueueSize
    BY <1>22, <2>1, PutType DEF Shutdown
  <2> QED
    BY <1>22, <1>1, <1>2, <2>2 DEF Shutdown, TypeOK
<1>23. CASE UNCHANGED vars
  BY <1>23, <1>2 DEF vars, TypeOK
<1> QED
  BY <1>6, <1>7, <1>8, <1>9, <1>10, <1>11, <1>12, <1>13, <1>14, <1>15, <1>16, <1>17,
     <1>18, <1>20, <1>21, <1>22, <1>23 DEF Next, RunLoop, Function

-----------------------------------------------------------------------------
(* The watchdog *)

\* A timeout in the queue stays there until the run loop takes it.
LEMMA TimeoutStays ==
  ASSUME TypeOK, TimeoutQueued,
         \/ UNCHANGED updateQueue
         \/ \E u \in Updates : put(u)
         \/ take({"switch"})
         \/ take({"configure"})
  PROVE  TimeoutQueued'
<1>1. PICK i \in DOMAIN updateQueue : updateQueue[i].kind = "timeout"
  BY DEF TimeoutQueued
<1>2. updateQueue \in Seq(Updates)
  BY DEF TypeOK
<1>3. CASE UNCHANGED updateQueue
  BY <1>3, <1>1 DEF TimeoutQueued
<1>4. ASSUME NEW u \in Updates, put(u) PROVE TimeoutQueued'
  <2>1. i \in DOMAIN updateQueue' /\ updateQueue'[i] = updateQueue[i]
    BY <1>1, <1>2, <1>4 DEF put
  <2> QED
    BY <1>1, <2>1 DEF TimeoutQueued
<1>5. CASE take({"switch"}) \/ take({"configure"})
  <2>1. updateQueue' = Tail(updateQueue) /\ Head(updateQueue).kind # "timeout"
    BY <1>5 DEF take
  <2>2. i # 1
    BY <1>1, <1>2, <2>1
  <2>3. i - 1 \in DOMAIN updateQueue' /\ updateQueue'[i - 1] = updateQueue[i]
    BY <1>1, <1>2, <2>1, <2>2
  <2> QED
    BY <1>1, <2>3 DEF TimeoutQueued
<1> QED
  BY <1>3, <1>4, <1>5

\* A motor that is driven is watched, one that is stopped is not.
LEMMA DriveWatched ==
  ASSUME drive
  PROVE  motor' # "stopped" /\ armed' /\ sleepLock'
BY DEF drive, restart

LEMMA StopUnwatched ==
  ASSUME WatchdogInv, stop
  PROVE  motor' = "stopped" /\ ~ armed' /\ (sleepLock' => fired)
<1>1. CASE armed
  BY <1>1 DEF stop, cancel
<1>2. CASE ~ armed
  BY <1>2 DEF stop, cancel, watchdog, WatchdogInv
<1> QED
  BY <1>1, <1>2

LEMMA WatchdogStep == TypeOK /\ WatchdogInv /\ [Next]_vars => WatchdogInv'
<1> SUFFICES ASSUME TypeOK, WatchdogInv, [Next]_vars PROVE WatchdogInv'
  OBVIOUS
<1>1. CASE UNCHANGED <<motor, watchdog, fired>>
  BY <1>1 DEF WatchdogInv, watchdog
<1>2. CASE Fire
  BY <1>2 DEF Fire, WatchdogInv
<1>3. CASE handleWatchdogEvent
  BY <1>3 DEF handleWatchdogEvent, WatchdogInv
<1>4. CASE Decide
  <2>1. UNCHANGED fired
    BY <1>4 DEF Decide
  <2>2. CASE drive
    BY <2>2, DriveWatched DEF WatchdogInv
  <2>3. CASE stop
    BY <2>1, <2>3, StopUnwatched DEF WatchdogInv
  <2>4. CASE UNCHANGED <<motor, watchdog>>
    BY <2>1, <2>4, <1>1
  <2> QED
    BY <1>4, <2>2, <2>3, <2>4 DEF Decide
<1>5. CASE TakeStop
  BY <1>5, StopUnwatched DEF TakeStop, WatchdogInv
<1> QED
  BY <1>1, <1>2, <1>3, <1>4, <1>5
  DEF Next, RunLoop, Function, Move, LoseContact, enqueueSwitchEvent, Shutdown, NoteState,
      TakeSwitchEvent, TakeConfigure, Configure, TakeConfiguration, DeadlinePassed,
      transitionTo, PutRequest, vars

LEMMA MotorWatchedStep ==
  TypeOK /\ WatchdogInv /\ MotorWatched /\ [Next]_vars => MotorWatched'
<1> SUFFICES ASSUME TypeOK, WatchdogInv, MotorWatched, [Next]_vars PROVE MotorWatched'
  OBVIOUS
<1>1. ASSUME UNCHANGED <<motor, watchdog, fired>>, TimeoutQueued => TimeoutQueued'
      PROVE  MotorWatched'
  BY <1>1 DEF MotorWatched, watchdog
<1>2. CASE Fire
  BY <1>2 DEF Fire, MotorWatched
<1>3. CASE handleWatchdogEvent
  <2>1. updateQueue \in Seq(Updates) /\ updateQueue' = Append(updateQueue, [kind |-> "timeout"])
    BY <1>3 DEF handleWatchdogEvent, put, TypeOK
  <2>2. updateQueue'[Len(updateQueue) + 1].kind = "timeout"
        /\ Len(updateQueue) + 1 \in DOMAIN updateQueue'
    BY <2>1
  <2> QED
    BY <2>2 DEF MotorWatched, TimeoutQueued
<1>4. CASE Decide
  <2>1. UNCHANGED <<fired, updateQueue>>
    BY <1>4 DEF Decide
  <2>2. CASE drive
    BY <2>2, DriveWatched DEF MotorWatched
  <2>3. CASE stop
    BY <2>3, StopUnwatched DEF MotorWatched
  <2>4. CASE UNCHANGED <<motor, watchdog>>
    BY <2>1, <2>4, <1>1 DEF TimeoutQueued
  <2> QED
    BY <1>4, <2>2, <2>3, <2>4 DEF Decide
<1>5. CASE TakeStop
  BY <1>5, StopUnwatched DEF TakeStop, MotorWatched
<1>6. CASE UNCHANGED <<motor, watchdog, fired, updateQueue>>
  BY <1>6, <1>1, TimeoutStays
<1>7. CASE enqueueSwitchEvent
  <2>1. [kind |-> "switch", change |-> switchStateInterrupts] \in Updates
    BY <1>7 DEF enqueueSwitchEvent, takeChange, TypeOK, SwitchesTypeOK, Updates
  <2> QED
    BY <1>7, <2>1, <1>1, TimeoutStays DEF enqueueSwitchEvent
<1>8. CASE Shutdown
  <2>1. [kind |-> "shutdown"] \in Updates
    BY DEF Updates
  <2> QED
    BY <1>8, <2>1, <1>1, TimeoutStays DEF Shutdown
<1>9. CASE transitionTo \/ PutRequest
  <2>1. [kind |-> "configure", target |-> wanted] \in Updates
    BY DEF Updates, TypeOK
  <2> QED
    BY <1>9, <2>1, <1>1, TimeoutStays DEF transitionTo, PutRequest
<1>10. CASE TakeSwitchEvent \/ TakeConfigure
  BY <1>10, <1>1, TimeoutStays DEF TakeSwitchEvent, TakeConfigure
<1> QED
  BY <1>2, <1>3, <1>4, <1>5, <1>6, <1>7, <1>8, <1>9, <1>10
  DEF Next, RunLoop, Function, Move, LoseContact, NoteState, Configure, TakeConfiguration,
      DeadlinePassed, vars

-----------------------------------------------------------------------------
(* Theorems *)

\* The watchdog and its timeout belong to the motor in every reachable state.
THEOREM Invariant == Spec => []DInv
<1>1. Init => DInv
  BY TypeInit DEF Init, DInv, WatchdogInv, MotorWatched
<1>2. DInv /\ [Next]_vars => DInv'
  BY TypeStep, WatchdogStep, MotorWatchedStep DEF DInv
<1> QED
  BY <1>1, <1>2, PTL DEF Spec

\* The door's state stays of its type and the queue within its size.
THEOREM TypeCorrect == Spec => []TypeOK
BY Invariant, PTL DEF DInv

\* A motor that runs has a watchdog counting, or its timeout on the way to the run loop
\* (Door.hpp:54-64, 326-342).
THEOREM MotorIsWatched == Spec => []MotorWatched
BY Invariant, PTL DEF DInv

\* A door at rest neither counts nor keeps the device awake (Door.hpp:60-64, 332-342).
THEOREM RestLetsSleep == Spec => []SleepsAtRest
<1>1. DInv => SleepsAtRest
  BY DEF DInv, WatchdogInv, SleepsAtRest
<1> QED
  BY <1>1, Invariant, PTL

(***************************************************************************)
(* The watchdog runs with the motor and with nothing else.                 *)
(***************************************************************************)
THEOREM DoorIsSafe == Spec => []DoorSafe
<1>1. MotorWatched /\ SleepsAtRest => DoorSafe
  BY DEF DoorSafe
<1> QED
  BY <1>1, MotorIsWatched, RestLetsSleep, PTL

\* No switch that loses contact makes a door move that got where it should be
\* (Door.hpp:350-371).
THEOREM DoorStaysPut == Spec => StaysPut
<1>1. ASSUME DInv, [Next]_vars, motor = "stopped", motor' # "stopped",
             atTargetState(lastState)
      PROVE  switchEngaged[Opposite(lastState)]
  <2>1. Decide /\ drive
    BY <1>1, StopUnwatched
    DEF DInv, Next, RunLoop, Function, Move, LoseContact, enqueueSwitchEvent, Fire,
        handleWatchdogEvent, Shutdown, Decide, NoteState, TakeSwitchEvent, TakeConfigure,
        Configure, TakeStop, TakeConfiguration, DeadlinePassed, transitionTo, PutRequest,
        vars, stop
  <2>2. ~ atTargetState(determineCurrentState)
    BY <1>1, <2>1 DEF Decide, stop
  <2>3. lastState \in States
    BY <1>1 DEF atTargetState, DInv, TypeOK
  <2>4. switchEngaged \in [Switches -> BOOLEAN]
    BY <1>1 DEF DInv, TypeOK
  <2> QED
    BY <1>1, <2>2, <2>3, <2>4, SwitchesAssumption
    DEF determineCurrentState, atTargetState, Opposite, States
<1> QED
  BY <1>1, Invariant, PTL DEF Spec, StaysPut
=============================================================================
