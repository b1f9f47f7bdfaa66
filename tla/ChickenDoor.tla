----------------------------- MODULE ChickenDoor -----------------------------
(***************************************************************************)
(* The chicken door's function (functions/chicken_door): an override, then *)
(* the light with a delay decide whether the door is to be open.           *)
(***************************************************************************)
EXTENDS FunctionLoop

CONSTANTS
  MaxDelay,
  Delays  \* before opening and closing: [open, close]

ASSUME DelayAssumption == MaxDelay \in Nat /\ Delays \subseteq [open : 0 .. MaxDelay, close : 0 .. MaxDelay]

VARIABLES
  level,      \* what the light sensor says
  lightOn,    \* the light scheduler has a target
  delays, delay

chickenVars == <<level, lightOn, delays, delay>>

Levels == {"bright", "dusk", "dark"}

ChickenTypeOK ==
  /\ level \in Levels /\ lightOn \in BOOLEAN
  /\ delays \in [open : 0 .. MaxDelay, close : 0 .. MaxDelay]
  /\ delay \in [committed : SUBSET States, pending : SUBSET States, since : SUBSET (0 .. MaxDelay + 1)]
  /\ \A field \in DOMAIN delay : \A x, y \in delay[field] : x = y

ChickenInit ==
  /\ level \in Levels /\ lightOn = FALSE
  /\ delays = [open |-> 0, close |-> 0]
  /\ delay = Delay({}, NoTransition)

ChickenTick ==
  LET first == OverrideTick(override)
      delayed == DelayTick(delay, delays, LightTick(lightOn, level))
  IN /\ override' = OverrideKept(override)
     /\ IF first.targetState # {}
        THEN Evaluate(first) /\ UNCHANGED delay
        ELSE Evaluate(merge(first, delayed.result)) /\ delay' = delayed.delay
     /\ UNCHANGED <<level, lightOn, delays>>

configureDoor == \E o \in Overrides, d \in Delays :
  Send([override |-> o, delays |-> d]) /\ UNCHANGED chickenVars

ChickenTakesConfig ==
  /\ TakeConfig
  /\ delays' = Head(configQueue).delays /\ lightOn' = TRUE
  /\ UNCHANGED <<level, delay>>

ChickenElapses ==
  /\ LoopElapses
  /\ delay' = [delay EXCEPT !.since = {Min({MaxDelay + 1, n + 1}) : n \in @}]
  /\ UNCHANGED <<level, lightOn, delays>>

LightChanges == \E l \in Levels \ {level} : level' = l /\ UNCHANGED <<loopVars, lightOn, delays, delay>>

ChickenLoopGoesOn == (Arrive \/ DeadlinePasses) /\ UNCHANGED chickenVars

ChickenTelemetry == TakeRequest /\ UNCHANGED chickenVars

ChickenNext ==
  \/ ChickenTick \/ configureDoor \/ ChickenTakesConfig \/ ChickenElapses
  \/ LightChanges \/ ChickenLoopGoesOn \/ ChickenTelemetry

-----------------------------------------------------------------------------
\* While the loop sleeps, a pending transition of the door is not overdue, and an override is obeyed.
DoorOnTime ==
  Asleep =>
    /\ OverrideThen # {} => asked = OverrideThen
    /\ OverrideThen = {} /\ delay.since # {} =>
         Max(delay.since) < DelayFor(CHOOSE s \in delay.pending : TRUE, delays) + lag

\* Light that stays has its way with the door, however the delays are set.
DoorFollowsLight ==
  /\ <>[](lightOn /\ level = "bright") => <>[](asked = {"Open"} \/ override # {})
  /\ <>[](lightOn /\ level = "dark") => <>[](asked = {"Closed"} \/ override # {})

==============================================================================
