---------------------------- MODULE FunctionLoop ----------------------------
(***************************************************************************)
(* The loop of a device function that drives a valve or a door by          *)
(* schedules (ScheduledTransitionLoop.hpp): it asks its schedulers, moves  *)
(* the peripheral, asks for telemetry, and sleeps until the deadline they  *)
(* gave or until a new configuration arrives.                              *)
(***************************************************************************)
EXTENDS Schedules

CONSTANTS
  MaxLag,     \* units of time a transition of the peripheral may take
  MaxChanges, \* configurations that arrive after the first
  Overrides   \* those that a configuration may have

ASSUME LoopAssumption ==
  /\ MaxLag \in Nat /\ MaxChanges \in Nat
  /\ \A o \in Overrides : IsOptional(o, Override)

VARIABLES
  phase,          \* "evaluate", "moving" or "waiting"
  wait,           \* time left of the wait, {} without end
  lag,            \* time that the last transition took
  asked,          \* the state the peripheral was last brought to, {} at first
  toPublish,      \* telemetry is to be asked for at the next evaluation
  requests,       \* a telemetry request waits for the telemetry task
  configQueue,    \* the queue of one configuration
  override,       \* the override scheduler's: [state, left]
  changes         \* configurations sent

loopVars == <<phase, wait, lag, asked, toPublish, requests, configQueue, override, changes>>

LoopTypeOK ==
  /\ phase \in {"evaluate", "moving", "waiting"}
  /\ IsOptional(wait, Nat)
  /\ lag \in 0 .. MaxLag
  /\ IsOptional(asked, States)
  /\ toPublish \in BOOLEAN /\ requests \in BOOLEAN
  /\ Len(configQueue) <= 1
  /\ IsOptional(override, Override)
  /\ changes \in 0 .. MaxChanges

LoopInit ==
  /\ phase = "evaluate" /\ wait = {} /\ lag = 0 /\ asked = {}
  /\ toPublish = TRUE /\ requests = FALSE
  /\ configQueue = <<>> /\ override = {} /\ changes = 0

\* The composite scheduler said "result": move the peripheral there and wait.
Evaluate(result) ==
  LET moved == asked # {OrClosed(result)}
      publish == toPublish \/ result.shouldPublishTelemetry \/ moved
  IN /\ phase = "evaluate"
     /\ phase' = IF moved THEN "moving" ELSE "waiting"
     /\ asked' = {OrClosed(result)}
     /\ wait' = result.nextDeadline
     /\ requests' = (requests \/ publish)
     /\ toPublish' = FALSE
     /\ lag' = 0
     /\ UNCHANGED <<configQueue, changes>>

Arrive ==
  /\ phase = "moving"
  /\ phase' = "waiting"
  /\ UNCHANGED <<wait, lag, asked, toPublish, requests, configQueue, override, changes>>

\* configure() puts the configuration into the queue, and blocks while the last one is still there.
Send(config) ==
  /\ changes < MaxChanges /\ configQueue = <<>>
  /\ configQueue' = <<config>>
  /\ changes' = changes + 1
  /\ UNCHANGED <<phase, wait, lag, asked, toPublish, requests, override>>

\* The part of pollIn that all functions share; the function takes over the rest of Head(configQueue).
TakeConfig ==
  /\ phase = "waiting" /\ configQueue # <<>>
  /\ phase' = "evaluate"
  /\ override' = Head(configQueue).override
  /\ configQueue' = <<>>
  /\ toPublish' = TRUE
  /\ UNCHANGED <<wait, lag, asked, requests, changes>>

DeadlinePasses ==
  /\ phase = "waiting" /\ configQueue = <<>> /\ wait = {0}
  /\ phase' = "evaluate"
  /\ UNCHANGED <<wait, lag, asked, toPublish, requests, configQueue, override, changes>>

\* Time goes on while the loop sleeps or the peripheral moves.
LoopElapses ==
  /\ \/ phase = "moving" /\ lag < MaxLag /\ lag' = lag + 1 /\ UNCHANGED wait
     \/ /\ phase = "waiting" /\ configQueue = <<>> /\ wait # {0}
        /\ wait' = {n - 1 : n \in wait} /\ UNCHANGED lag
  /\ override' = {[o EXCEPT !.left = Max({0, @ - 1})] : o \in override}
  /\ UNCHANGED <<phase, asked, toPublish, requests, configQueue, changes>>

\* The telemetry task takes the request.
TakeRequest ==
  /\ requests
  /\ requests' = FALSE
  /\ UNCHANGED <<phase, wait, lag, asked, toPublish, configQueue, override, changes>>

-----------------------------------------------------------------------------
\* What the override said when the loop last looked, "lag" before the time it is now taken for.
OverrideThen == {o.state : o \in {x \in override : x.left + lag > 0}}

Asleep == phase = "waiting" /\ configQueue = <<>> /\ wait # {0}

==============================================================================
