--------------------------- MODULE PlotController ---------------------------
(***************************************************************************)
(* The plot controller (functions/plot_controller): an override, then      *)
(* schedules in time, then soil moisture decide about one valve, and a     *)
(* flow meter tells how much water went through it.                        *)
(***************************************************************************)
EXTENDS FunctionLoop, FlowMeter, MoistureScheduler

CONSTANT PlotConfigs  \* [override, schedules: lists of [offset, period, duration], moist]

\* A clock that has run through a period of a schedule starts the next; a valve moves within a
\* period, and within the longest pulse.
Bounded(schedule) == schedule.offset < 2 * schedule.period /\ MaxLag <= schedule.period

ASSUME PlotAssumption ==
  /\ MaxLag < ValveTimeout
  /\ \A c \in PlotConfigs :
       /\ c.override \in Overrides /\ c.moist \in BOOLEAN
       /\ c.schedules \in Seq(TimeBasedSchedule)
       /\ \A i \in DOMAIN c.schedules : Bounded(c.schedules[i])

VARIABLES
  schedules,  \* of the time based scheduler
  moist,      \* the moisture based scheduler has a target
  pulse       \* its controller

plotVars == <<schedules, moist, pulse>>

PlotTypeOK ==
  /\ moist \in BOOLEAN
  /\ pulse \in Pulses(MaxWater)
  /\ schedules \in Seq(TimeBasedSchedule)
  /\ \A i \in DOMAIN schedules : Bounded(schedules[i])

PlotInit == schedules = <<>> /\ moist = FALSE /\ pulse = NoPulse

-----------------------------------------------------------------------------
\* One tick of the composite: a scheduler is asked only if nobody before it had an opinion.
PlotTick ==
  LET first == OverrideTick(override)
      second == IF first.targetState # {} THEN first ELSE merge(first, getStateUpdate(schedules))
  IN /\ override' = OverrideKept(override)
     /\ UNCHANGED <<schedules, moist>>
     /\ IF second.targetState # {} \/ ~moist
        THEN /\ Evaluate(second)
             /\ pulse' = [pulse EXCEPT !.sound = @ /\ pulse.state # "Watering"]
             /\ UNCHANGED meterVars
        ELSE \E reading \in Readings, slope \in Slopes :
               /\ pulse' \in MoistureNext(pulse, reading, slope, volume)
               /\ IF TakesVolume(pulse, reading) THEN getVolume ELSE UNCHANGED meterVars
               /\ Evaluate(merge(second, MoistureResult(pulse', reading)))

configure == \E c \in PlotConfigs : Send(c) /\ UNCHANGED <<plotVars, meterVars>>

PlotTakesConfig ==
  /\ TakeConfig
  /\ schedules' = Head(configQueue).schedules
  /\ moist' = Head(configQueue).moist
  /\ UNCHANGED <<pulse, meterVars>>

\* A clock that has run through a second period goes back to the start of it.
Later(s) == [s EXCEPT !.offset = IF @ + 1 = 2 * s.period THEN s.period ELSE @ + 1]

PlotElapses ==
  /\ LoopElapses
  /\ schedules' = [i \in DOMAIN schedules |-> Later(schedules[i])]
  /\ pulse' = PulseElapses(pulse)
  /\ \E water \in {0, 1} :
       /\ water = 1 => asked = {"Open"}
       /\ Flow(water)
  /\ UNCHANGED moist

\* The valve arrives, the wait is over, or another task of the function's peripherals runs.
PlotLoopGoesOn == (Arrive \/ DeadlinePasses) /\ UNCHANGED <<plotVars, meterVars>>
MeterTask == (CountPulses \/ AddVolume) /\ UNCHANGED <<loopVars, plotVars>>
PlotTelemetry == TakeRequest /\ populateTelemetry /\ UNCHANGED plotVars

PlotNext ==
  \/ PlotTick \/ configure \/ PlotTakesConfig \/ PlotElapses
  \/ PlotLoopGoesOn \/ MeterTask \/ PlotTelemetry

-----------------------------------------------------------------------------
\* Whether a schedule wants the valve open, by its own definition.
Demanded == \E i \in DOMAIN schedules :
  LET s == schedules[i] IN s.offset - lag >= 0 /\ (s.offset - lag) % s.period < s.duration

\* While the loop sleeps, the valve is where the highest scheduler with an opinion wants it now,
\* but for the time its last transition took.
ValveAsScheduled ==
  Asleep => asked = IF OverrideThen # {} THEN OverrideThen
                    ELSE {IF schedules # <<>> THEN IF Demanded THEN "Open" ELSE "Closed"
                          ELSE IF moist /\ pulse.state = "Watering" THEN "Open" ELSE "Closed"}

\* A pulse that could be followed all the time is over by its timeout.
PulseBounded == pulse.state = "Watering" /\ pulse.sound => pulse.sinceStart <= ValveTimeout

==============================================================================
