---------------------------- MODULE SpadefootToad ----------------------------
(***************************************************************************)
(* The Spadefoot Toad soil sensor: its measurement, debounced by the tasks *)
(* that ask for a value, and the commands that MQTT brings.  Each has its  *)
(* own session of the rail; a batch of telemetry may keep the rail on, too.*)
(***************************************************************************)
EXTENDS Naturals

CONSTANTS
  MeasurementTime,  \* MEASUREMENT_TIME, in ticks
  MaxOperations     \* bound on measurements and commands

ASSUME ToadAssumption == {MeasurementTime, MaxOperations} \subseteq Nat \ {0}

VARIABLES
  railKept,    \* by a batch
  doing,       \* of the measurement, and of the commands: what it is at
  left,        \* time that each is yet to wait
  command,     \* the command that was sent last
  probe,       \* what the probe carries out, "none", and since how long
  eeprom,      \* the probe's calibration
  result,      \* what the probe has for CMD_READ: "none", "old" from before the last trigger, or "new"
  meddled,     \* history: a command was sent since the trigger
  moisture,    \* the measurement's value: "nan", "new", "old", or "unsure" when a command meddled
  operations   \* so far

toadVars == <<railKept, doing, left, command, probe, eeprom, result, meddled, moisture, operations>>

Users == {"measurement", "commands"}
Commands == {"trigger", "calibrate", "factory-reset"}
AtRest == {"uninitialized", "nothing"}
ToadTypeOK ==
  /\ {railKept, meddled} \subseteq BOOLEAN
  /\ doing \in [Users -> {"uninitialized", "nothing", "starting", "waiting"}] /\ left \in [Users -> 0..MeasurementTime]
  /\ command \in Commands /\ probe \in [runs : Commands \cup {"none"}, age : 0..MeasurementTime]
  /\ eeprom \in {"whole", "torn"} /\ result \in {"none", "old", "new"} /\ moisture \in {"nan", "old", "new", "unsure"}

\* The sensor is to be initialised before it is measured.
ToadInit ==
  /\ railKept = FALSE /\ doing = [measurement |-> "uninitialized", commands |-> "nothing"] /\ left = [u \in Users |-> 0]
  /\ command = "trigger" /\ probe = [runs |-> "none", age |-> 0] /\ eeprom = "whole"
  /\ result = "none" /\ meddled = FALSE /\ moisture = "nan" /\ operations = 0

-----------------------------------------------------------------------------
(* The rail and the probe.                                                 *)

\* A probe that loses power while it writes to its EEPROM leaves it half written.
LosesPower(goes) ==
  /\ eeprom' = IF goes /\ probe.runs \in {"calibrate", "factory-reset"} THEN "torn" ELSE eeprom
  /\ probe' = IF goes THEN [runs |-> "none", age |-> 0] ELSE probe
  /\ result' = IF goes THEN "none" ELSE result

ToadBatchStarts ==
  /\ ~railKept
  /\ railKept' = TRUE
  /\ UNCHANGED <<doing, left, command, probe, eeprom, result, meddled, moisture, operations>>

ToadBatchEnds ==
  /\ railKept
  /\ railKept' = FALSE
  /\ LosesPower(\A u \in Users : doing[u] \in AtRest)
  /\ UNCHANGED <<doing, left, command, meddled, moisture, operations>>

Release(u) ==
  /\ doing' = [doing EXCEPT ![u] = "nothing"]
  /\ LosesPower(~railKept /\ \A other \in Users \ {u} : doing[other] \in AtRest)

\* Every command measures first.  It is done before MeasurementTime has passed.
ProbeDone ==
  /\ probe.runs # "none"
  /\ probe' = [runs |-> "none", age |-> 0]
  /\ result' = "new"
  /\ UNCHANGED <<railKept, doing, left, command, eeprom, meddled, moisture, operations>>

Tick ==
  /\ \E u \in Users : left[u] > 0
  /\ probe.runs # "none" => probe.age + 1 < MeasurementTime
  /\ left' = [u \in Users |-> IF left[u] = 0 THEN 0 ELSE left[u] - 1]
  /\ probe' = IF probe.runs = "none" THEN probe ELSE [probe EXCEPT !.age = @ + 1]
  /\ UNCHANGED <<railKept, doing, command, eeprom, result, meddled, moisture, operations>>

-----------------------------------------------------------------------------
(* The firmware.                                                           *)

\* Identities and the calibration are read in a session of their own, or the sensor is not created.
initializeProtocol ==
  /\ doing["measurement"] = "uninitialized"
  /\ doing' = [doing EXCEPT !["measurement"] = "nothing"]
  /\ LosesPower(~railKept)
  /\ UNCHANGED <<railKept, left, command, meddled, moisture, operations>>

\* switchedDevice.power(); a failure keeps the last value.
Power(u, cmd) ==
  /\ doing[u] = "nothing" /\ doing["measurement"] # "uninitialized" /\ operations < MaxOperations
  /\ operations' = operations + 1
  /\ doing' \in {doing, [doing EXCEPT ![u] = "starting"]}
  /\ command' = IF doing' # doing /\ u = "commands" THEN cmd ELSE command
  /\ UNCHANGED <<railKept, left, probe, eeprom, result, meddled, moisture>>

Sent(u, cmd) ==
  /\ probe' = [runs |-> cmd, age |-> 0]
  /\ left' = [left EXCEPT ![u] = MeasurementTime]
  /\ doing' = [doing EXCEPT ![u] = "waiting"]

\* CMD_TRIGGER is sent, or that fails and nothing is measured.
Trigger ==
  /\ doing["measurement"] = "starting"
  /\ \/ /\ Sent("measurement", "trigger")
        /\ result' = IF result = "none" THEN "none" ELSE "old"
        /\ meddled' = FALSE
        /\ UNCHANGED eeprom
     \/ Release("measurement") /\ UNCHANGED <<left, meddled>>
  /\ UNCHANGED <<railKept, command, moisture, operations>>

\* After the delay, CMD_READ: values, invalid values, or a failure, which keeps the last value.  The
\* value is old once it has been asked for anew.
Read ==
  /\ doing["measurement"] = "waiting" /\ left["measurement"] = 0
  /\ moisture' \in {moisture, "nan"} \cup (IF result = "none" THEN {} ELSE {IF meddled THEN "unsure" ELSE result})
  /\ Release("measurement")
  /\ UNCHANGED <<railKept, left, command, meddled, operations>>

\* runToCompletion(): the delay keeps the sensor powered until it is done.
SendCommand ==
  /\ doing["commands"] = "starting"
  /\ \/ Sent("commands", command) /\ meddled' = TRUE /\ UNCHANGED <<result, eeprom>>
     \/ Release("commands") /\ UNCHANGED <<left, meddled>>
  /\ UNCHANGED <<railKept, command, moisture, operations>>

runToCompletion ==
  /\ doing["commands"] = "waiting" /\ left["commands"] = 0
  /\ Release("commands")
  /\ UNCHANGED <<railKept, left, command, meddled, moisture, operations>>

ToadNext ==
  \/ initializeProtocol \/ ToadBatchStarts \/ ToadBatchEnds \/ ProbeDone \/ Tick
  \/ Power("measurement", "trigger") \/ Trigger \/ Read
  \/ (\E cmd \in {"calibrate", "factory-reset"} : Power("commands", cmd)) \/ SendCommand \/ runToCompletion

ToadSpec == ToadInit /\ [][ToadNext]_toadVars

-----------------------------------------------------------------------------
(* Properties.                                                             *)

\* A calibration is never cut short by the end of the session that asked for it, whatever else has
\* the rail (SpadefootToadSensor.hpp:361-366).
CalibrationWhole == eeprom = "whole"

\* What is read after a trigger is what the probe has measured since, unless a command was sent to
\* it meanwhile: nothing else keeps the two apart (SpadefootToadSensor.hpp:402-425).
MeasuredAnew == moisture # "old"

=============================================================================
