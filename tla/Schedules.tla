------------------------------ MODULE Schedules ------------------------------
(***************************************************************************)
(* What the schedulers of the device's functions decide at a tick          *)
(* (components/scheduling).  An optional value is a set with at most one   *)
(* element, time is counted in whole units, and a clock is kept as what    *)
(* has passed or is left.                                                  *)
(***************************************************************************)
EXTENDS Integers, Sequences, FiniteSetsExt, SequencesExt

States == {"Open", "Closed"}

IsOptional(value, type) == value \subseteq type /\ \A x, y \in value : x = y

Override == [state : States, left : Nat]
\* A period of 0 is not refused by the code, and left out: the time is divided by it.
TimeBasedSchedule == [offset : Int, period : Nat \ {0}, duration : Nat]

\* The earlier and the later of two optional durations.
minDuration(a, b) == IF a \cup b = {} THEN {} ELSE {Min(a \cup b)}
maxDuration(a, b) == IF a \cup b = {} THEN {} ELSE {Max(a \cup b)}

ScheduleResult(target, deadline, publish) ==
  [targetState |-> target, nextDeadline |-> deadline, shouldPublishTelemetry |-> publish]

NoOpinion == ScheduleResult({}, {}, FALSE)

\* The composite keeps the first opinion, the earliest deadline, and anyone's wish to publish.
merge(a, b) ==
  ScheduleResult(IF a.targetState # {} THEN a.targetState ELSE b.targetState,
                 minDuration(a.nextDeadline, b.nextDeadline),
                 a.shouldPublishTelemetry \/ b.shouldPublishTelemetry)

\* What the loop of a function does when nobody has an opinion.
OrClosed(result) == IF result.targetState = {} THEN "Closed" ELSE CHOOSE s \in result.targetState : TRUE

-----------------------------------------------------------------------------
(* The override: a state and the time left of it; gone once expired.       *)

OverrideTick(override) ==
  IF override = {} THEN NoOpinion
  ELSE LET o == CHOOSE x \in override : TRUE
       IN IF o.left <= 0 THEN ScheduleResult({}, {}, TRUE)
          ELSE ScheduleResult({o.state}, {o.left}, FALSE)

OverrideKept(override) == {o \in override : o.left > 0}

-----------------------------------------------------------------------------
(* Schedules in time: "offset" is how long ago the schedule started,       *)
(* negative before.                                                        *)

\* Contrast: a closed valve waits for the last schedule to open.
closedLongest(found, after) ==
  IF "Open" \in found.targetState THEN found
  ELSE ScheduleResult({"Closed"}, maxDuration(found.nextDeadline, {after}), FALSE)

\* A schedule that would have the valve closed for now has no say once another wants it open.
closedFor(found, after) ==
  IF "Open" \in found.targetState THEN found
  ELSE ScheduleResult({"Closed"}, minDuration(found.nextDeadline, {after}), FALSE)

openFor(found, closeAfter) ==
  ScheduleResult({"Open"},
                 IF "Open" \in found.targetState THEN maxDuration(found.nextDeadline, {closeAfter}) ELSE {closeAfter}, FALSE)

OneSchedule(found, schedule) ==
  LET position == schedule.offset % schedule.period
  IN IF schedule.offset < 0 THEN closedFor(found, -schedule.offset)
     ELSE IF position < schedule.duration THEN openFor(found, schedule.duration - position)
     ELSE closedFor(found, schedule.period - position)

getStateUpdate(schedules) == FoldLeft(OneSchedule, NoOpinion, schedules)

-----------------------------------------------------------------------------
(* The light sensor: levels are "bright" (open), "dark" (close), "dusk";   *)
(* the minute until its next look is two units.                            *)

LightTick(target, level) ==
  IF ~target THEN NoOpinion
  ELSE ScheduleResult(CASE level = "bright" -> {"Open"} [] level = "dark" -> {"Closed"} [] OTHER -> {}, {2}, FALSE)

-----------------------------------------------------------------------------
(* The delay around another scheduler: what it committed to, what it waits *)
(* for, and for how long it has been waiting.                              *)

NoTransition == [pending |-> {}, since |-> {}]
Delay(committed, transition) == [committed |-> committed, pending |-> transition.pending, since |-> transition.since]

DelayFor(state, delays) == IF state = "Open" THEN delays.open ELSE delays.close

\* Contrast: every tick starts the transition anew.
PendingAnew(delay, desired) == [pending |-> desired, since |-> {0}]

\* The transition that is under way once "desired" was asked for.
Pending(delay, desired) ==
  IF delay.since = {} \/ delay.pending # desired THEN [pending |-> desired, since |-> {0}]
  ELSE [pending |-> delay.pending, since |-> delay.since]

\* The new state of the delay and its result, for what the inner scheduler says.
DelayTick(delay, delays, inner) ==
  LET desired == inner.targetState
      result(state, deadline, publish) == ScheduleResult(state, deadline, publish)
      Settled == [delay |-> Delay(delay.committed, NoTransition), result |-> [inner EXCEPT !.targetState = delay.committed]]
      Commit == [delay |-> Delay(desired, NoTransition), result |-> result(desired, inner.nextDeadline, TRUE)]
      transition == Pending(delay, desired)
      remaining == DelayFor(CHOOSE s \in desired : TRUE, delays) - Max(transition.since)
  IN IF desired = {} THEN Settled
     ELSE IF delay.committed = {} THEN Commit
     ELSE IF desired = delay.committed THEN Settled
     ELSE IF remaining <= 0 THEN Commit
     ELSE [delay |-> Delay(delay.committed, transition),
           result |-> result(delay.committed, minDuration(inner.nextDeadline, {remaining}), FALSE)]

==============================================================================
