-------------------------- MODULE MoistureScheduler --------------------------
(***************************************************************************)
(* The irrigation controller of MoistureBasedScheduler.hpp: a pulse of     *)
(* water, a soak that waits for the moisture to rise and settle, and an    *)
(* update of the soil model.  A reading is "dry" (below the target),       *)
(* "fine", or "nan"; its slope is "settled", "flat" (between the two       *)
(* thresholds) or "rising".  The soil model is left out, so a plan is any  *)
(* volume within the limits.                                               *)
(***************************************************************************)
EXTENDS Schedules

CONSTANTS
  MaxVolume,       \* the largest plan
  ValveTimeout, DeadTime, Tau,
  MaxTotalVolume,  \* the cap on all the water
  LongWait         \* the deadline of Idle and Soak

ASSUME MoistureAssumption == {MaxVolume, ValveTimeout, DeadTime, Tau, MaxTotalVolume, LongWait} \subseteq Nat

Readings == {"dry", "fine", "nan"}
Slopes == {"settled", "flat", "rising"}

\* sinceStart and sinceEnd: the time since the pulse started and ended; sound: every tick since reached it.
NoPulse ==
  [state |-> "Idle", planned |-> 0, delivered |-> 0, sinceStart |-> 0, sinceEnd |-> 0,
   sawRise |-> FALSE, total |-> 0, sound |-> TRUE]

Pulses(maxWater) ==
  [state : {"Idle", "Watering", "Soak", "UpdateModel", "Fault"},
   planned : 0 .. MaxVolume, delivered : 0 .. maxWater,
   sinceStart : 0 .. ValveTimeout + 1, sinceEnd : 0 .. Tau + 1,
   sawRise : BOOLEAN, total : 0 .. MaxTotalVolume, sound : BOOLEAN]

getNextDeadline(state) ==
  CASE state \in {"Idle", "Soak"} -> {LongWait}
    [] state = "Watering" -> {1}
    [] state = "UpdateModel" -> {0}
    [] state = "Fault" -> {}

CapReached(p) == p.total >= MaxTotalVolume

\* The plans that decideOrStartWatering may make.
decideOrStartWatering(p, reading) ==
  IF reading # "dry" THEN {p}
  ELSE IF CapReached(p) THEN {[p EXCEPT !.state = "Fault"]}
  ELSE {[p EXCEPT !.state = "Watering", !.planned = v, !.delivered = 0, !.sinceStart = 0, !.sound = TRUE] :
          v \in 1 .. MaxVolume}

continueWatering(p, water) ==
  LET delivered == p.delivered + water
      over == delivered >= p.planned \/ p.sinceStart >= ValveTimeout
  IN IF over
     THEN [p EXCEPT !.delivered = delivered, !.state = "Soak", !.sinceEnd = 0, !.sawRise = FALSE,
                    !.total = Min({MaxTotalVolume, @ + delivered})]
     ELSE [p EXCEPT !.delivered = delivered]

soak(p, slope) ==
  LET late == p.sinceEnd > Tau
  IN IF p.sinceEnd < DeadTime THEN p
     ELSE [p EXCEPT !.sawRise = @ \/ slope = "rising",
                    !.state = IF late \/ (p.sawRise /\ slope = "settled") THEN "UpdateModel" ELSE "Soak"]

updateModel(p) == [p EXCEPT !.state = IF CapReached(p) THEN "Fault" ELSE "Idle"]

\* The states a tick may lead to; "water" is what the meter hands out if the pulse goes on.
MoistureNext(p, reading, slope, water) ==
  IF reading = "nan" THEN {[p EXCEPT !.sound = @ /\ p.state # "Watering"]}
  ELSE CASE p.state = "Idle" -> decideOrStartWatering(p, reading)
         [] p.state = "Watering" -> {continueWatering(p, water)}
         [] p.state = "Soak" -> {soak(p, slope)}
         [] p.state = "UpdateModel" -> {updateModel(p)}
         [] p.state = "Fault" -> {p}

TakesVolume(p, reading) == reading # "nan" /\ p.state = "Watering"

MoistureResult(p, reading) ==
  ScheduleResult({IF p.state = "Watering" THEN "Open" ELSE "Closed"},
                 IF reading = "nan" THEN {1} ELSE getNextDeadline(p.state), FALSE)

PulseElapses(p) ==
  [p EXCEPT !.sinceStart = IF p.state = "Watering" THEN Min({ValveTimeout + 1, @ + 1}) ELSE 0,
            !.sinceEnd = IF p.state = "Soak" THEN Min({Tau + 1, @ + 1}) ELSE 0]

==============================================================================
