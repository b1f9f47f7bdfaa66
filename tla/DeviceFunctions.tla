--------------------------- MODULE DeviceFunctions ---------------------------
(***************************************************************************)
(* The device's functions and their valve for TLC, one at a time: "acting" *)
(* is chosen at the start, and the others rest.                            *)
(***************************************************************************)
EXTENDS PlotController, ChickenDoor, Valve

VARIABLE acting

functionVars == <<loopVars, meterVars, plotVars, chickenVars, valveVars, acting>>

\* Schedules: one that is yet to start, one that overlaps it, both; soil moisture, with overrides or without.
soon == [offset |-> -1, period |-> 3, duration |-> 1]
running == [offset |-> 1, period |-> 4, duration |-> 3]
opened == {[state |-> "Open", left |-> 2]}
closed == {[state |-> "Closed", left |-> 1]}
SampleConfigs ==
  [override : {{}, closed}, schedules : {<<soon>>, <<soon, running>>, <<running, soon>>}, moist : {FALSE}]
  \cup [override : {{}, opened, closed}, schedules : {<<>>}, moist : {TRUE}]
SampleOverrides == {{}} \cup {{[state |-> s, left |-> n]} : s \in States, n \in 0 .. 2}
SampleDelays == {[open |-> o, close |-> c] : o \in {0, 3}, c \in {0, 1}}

FunctionTypeOK == LoopTypeOK /\ MeterTypeOK /\ PlotTypeOK /\ ChickenTypeOK /\ ValveTypeOK

FunctionInit ==
  /\ acting \in {"plot", "chicken", "valve"}
  /\ LoopInit /\ MeterInit /\ PlotInit
  /\ IF acting = "chicken" THEN ChickenInit ELSE ChickenInit /\ level = "dark"
  /\ IF acting = "valve" THEN ValveInit ELSE ValveInit /\ kind = "pin"

PlotActs == acting = "plot" /\ PlotNext /\ UNCHANGED <<chickenVars, valveVars, acting>>
ChickenActs == acting = "chicken" /\ ChickenNext /\ UNCHANGED <<meterVars, plotVars, valveVars, acting>>
ValveActs == acting = "valve" /\ ValveNext /\ UNCHANGED <<loopVars, meterVars, plotVars, chickenVars, acting>>

FunctionNext == PlotActs \/ ChickenActs \/ ValveActs

\* Time goes on, and the task of the chicken door's function gets to run.
ChickenRuns == ChickenTick \/ ChickenTakesConfig \/ ChickenLoopGoesOn
FunctionFairness ==
  /\ WF_functionVars(acting = "chicken" /\ ChickenElapses /\ UNCHANGED <<meterVars, plotVars, valveVars, acting>>)
  /\ WF_functionVars(acting = "chicken" /\ ChickenRuns /\ UNCHANGED <<meterVars, plotVars, valveVars, acting>>)

FunctionSpec == FunctionInit /\ [][FunctionNext]_functionVars /\ FunctionFairness

-----------------------------------------------------------------------------
(* What the parts state, by part.                                          *)

\* Sleeping, a function has its valve or its door where its schedulers want it by now.
AsScheduled == (acting = "plot" => ValveAsScheduled) /\ (acting = "chicken" => DoorOnTime)

\* A pulse of water ends in time, and each unit of water is credited and reported once.
WaterAccounted == PulseBounded /\ Conserved

\* The valve is where it says it is, and so is the water.
WaterSound == WaterAccounted /\ ValveKnown

\* The door comes to follow a light that stays.
LightHasItsWay == acting = "chicken" => DoorFollowsLight

==============================================================================
