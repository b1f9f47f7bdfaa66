------------------------------- MODULE Battery -------------------------------
(***************************************************************************)
(* The battery: the check before boot, the manager's task that averages    *)
(* the voltage and shuts the device down, the shutdown listeners, and deep *)
(* sleep, from which the device boots again.  And its gauge, a BQ27220:    *)
(* how the driver switches it over to an external thermistor.              *)
(***************************************************************************)
EXTENDS Readings

CONSTANTS
  MaxVoltage,
  BootThreshold, ShutdownThreshold,  \* BatteryParameters
  Averaged,                          \* readings that are averaged: 5
  Listeners,                         \* shutdown listeners, in order
  MaxChanges                         \* bound on the changes of the voltage

ASSUME BatteryAssumption ==
  /\ {MaxVoltage, BootThreshold, ShutdownThreshold, Averaged, Listeners, MaxChanges} \subseteq Nat
  /\ 0 < ShutdownThreshold /\ ShutdownThreshold <= BootThreshold /\ Averaged > 0

VARIABLES
  driver,    \* "analog", "gauge", or "none": without a battery, or with a gauge that did not initialise
  voltage,   \* of the battery
  device,    \* "asleep", "booting", "up", or "shutting" down
  window,    \* the readings that are averaged
  notified,  \* shutdown listeners that have been called
  changes

VARIABLES
  gauge,    \* the gauge: sealed, full access keys in a row, wanted and actual mode, and the setting
  phase,    \* the driver's next step
  verdict,  \* "none", "already", "failed", "rejected" or "switched"
  ignored   \* history: the gauge was written to when it does not take it

batteryVars == <<driver, voltage, device, window, notified, changes>>

BatteryTypeOK ==
  /\ driver \in {"analog", "gauge", "none"} /\ voltage \in 1..MaxVoltage
  /\ device \in {"asleep", "booting", "up", "shutting"}
  /\ window \in Seq(-1..MaxVoltage) /\ Len(window) <= Averaged /\ notified \in 0..Listeners
  /\ changes \in 0..MaxChanges

BatteryInit ==
  /\ driver \in {"analog", "gauge", "none"} /\ voltage \in 1..MaxVoltage
  /\ device = "booting" /\ window = <<>> /\ notified = 0 /\ changes = 0

-----------------------------------------------------------------------------

VoltageChanges ==
  /\ changes < MaxChanges
  /\ changes' = changes + 1
  /\ voltage' \in 1..MaxVoltage
  /\ UNCHANGED <<driver, device, window, notified>>

\* getVoltage(): the analog driver returns -1 when five trials have failed, the gauge returns 0.
Readings == {voltage, IF driver = "analog" THEN -1 ELSE 0}

\* initBattery(): too low a voltage is slept on; without a driver the device boots.
Boot ==
  /\ device = "booting"
  /\ window' = <<>> /\ notified' = 0
  /\ IF driver = "none" THEN device' = "up"
     ELSE \E reading \in Readings :
            device' = IF reading # 0 /\ reading < BootThreshold THEN "asleep" ELSE "up"
  /\ UNCHANGED <<driver, voltage, changes>>

\* Division of integers, which truncates.
Quotient(a, b) == IF a >= 0 THEN a \div b ELSE -((-a) \div b)

Average(s) == Quotient(SumOf(s), Len(s))

\* checkBatteryVoltage(), every ten seconds.
checkBatteryVoltage ==
  /\ device = "up" /\ driver # "none"
  /\ \E reading \in Readings :
       window' = IF Len(window) = Averaged THEN Append(Tail(window), reading) ELSE Append(window, reading)
  /\ device' = IF Average(window') # 0 /\ Average(window') < ShutdownThreshold THEN "shutting" ELSE "up"
  /\ UNCHANGED <<driver, voltage, notified, changes>>

\* startShutdown(): a task of its own calls the listeners.
NotifyListener ==
  /\ device = "shutting" /\ notified < Listeners
  /\ notified' = notified + 1
  /\ UNCHANGED <<driver, voltage, device, window, changes>>

\* After ten seconds, whether or not all listeners have been called.
enterLowPowerDeepSleep ==
  /\ device = "shutting"
  /\ device' = "asleep"
  /\ UNCHANGED <<driver, voltage, window, notified, changes>>

WakeUp ==
  /\ device = "asleep"
  /\ device' = "booting"
  /\ UNCHANGED <<driver, voltage, window, notified, changes>>

BatteryTasks == Boot \/ checkBatteryVoltage \/ NotifyListener \/ enterLowPowerDeepSleep \/ WakeUp
BatteryNext == VoltageChanges \/ BatteryTasks

BatterySpec == BatteryInit /\ [][BatteryNext]_batteryVars /\ WF_batteryVars(BatteryTasks)

-----------------------------------------------------------------------------
(* The gauge is unsealed, given the full access key twice, told to enter   *)
(* its configuration mode, waited for, written, and told to leave.  Any    *)
(* access may fail, and the gauge takes its time.                          *)

gaugeVars == <<gauge, phase, verdict, ignored>>

GaugeTypeOK ==
  /\ gauge \in [sealed : BOOLEAN, keys : 0..2, wanted : BOOLEAN, updating : BOOLEAN, external : BOOLEAN]
  /\ phase \in {"look", "unseal", "key 1", "key 2", "enter", "await entry", "write", "leave", "await exit", "verify", "done"}
  /\ verdict \in {"none", "already", "failed", "rejected", "switched"} /\ ignored \in BOOLEAN

\* The gauge keeps its state while it has power, whatever the device does.
GaugeInit ==
  /\ gauge \in [sealed : BOOLEAN, keys : {0}, wanted : {FALSE}, updating : {FALSE}, external : BOOLEAN]
  /\ phase = "look" /\ verdict = "none" /\ ignored = FALSE

\* In its own time the gauge enters or leaves the mode; with full access only.
ChangeMode ==
  /\ gauge.wanted # gauge.updating
  /\ gauge' = [gauge EXCEPT !.updating = gauge.wanted]
  /\ UNCHANGED <<phase, verdict, ignored>>

Ends(with) == phase' = "done" /\ verdict' = with

Look ==
  /\ phase = "look"
  /\ IF gauge.external THEN Ends("already") ELSE phase' = "unseal" /\ UNCHANGED verdict
  /\ UNCHANGED <<gauge, ignored>>

\* A step that reaches the gauge, or fails and ends it all.
Step(from, to, become) ==
  /\ phase = from
  /\ \/ gauge' = become /\ phase' = to /\ UNCHANGED verdict
     \/ Ends("failed") /\ UNCHANGED gauge

\* Control() commands.
controlCommand(from, to, become) == Step(from, to, become) /\ UNCHANGED ignored

Unseal == controlCommand("unseal", "key 1", [gauge EXCEPT !.sealed = FALSE])
FullAccess ==
  \/ controlCommand("key 1", "key 2", [gauge EXCEPT !.keys = IF gauge.sealed THEN 0 ELSE 1])
  \/ controlCommand("key 2", "enter", [gauge EXCEPT !.keys = IF gauge.sealed THEN 0 ELSE 2])
EnterConfigUpdate == controlCommand("enter", "await entry", [gauge EXCEPT !.wanted = gauge.keys = 2])

\* Forty times within two seconds, and then no more.
waitForConfigUpdate(from, to, expected) ==
  /\ phase = from
  /\ \/ gauge.updating = expected /\ phase' = to /\ UNCHANGED verdict
     \/ Ends("failed")
  /\ UNCHANGED <<gauge, ignored>>

SetParameter ==
  /\ phase = "write"
  /\ LET takes == gauge.updating /\ gauge.keys = 2 IN
     \/ /\ gauge' = [gauge EXCEPT !.external = takes]
        /\ ignored' = ~takes
     \/ UNCHANGED <<gauge, ignored>>
  /\ phase' = "leave"
  /\ UNCHANGED verdict

ExitConfigUpdate == controlCommand("leave", "await exit", [gauge EXCEPT !.wanted = FALSE])

Verify ==
  /\ phase = "verify"
  /\ Ends(IF gauge.external THEN "switched" ELSE "rejected")
  /\ UNCHANGED <<gauge, ignored>>

useExternalThermistor ==
  \/ Look \/ Unseal \/ FullAccess \/ EnterConfigUpdate
  \/ waitForConfigUpdate("await entry", "write", TRUE) \/ SetParameter
  \/ ExitConfigUpdate \/ waitForConfigUpdate("await exit", "verify", FALSE) \/ Verify

GaugeNext == ChangeMode \/ useExternalThermistor

GaugeSpec == GaugeInit /\ [][GaugeNext]_gaugeVars

-----------------------------------------------------------------------------
(* Properties.                                                             *)

\* A device shuts down when what it has read is too low on average, from the first reading on; a
\* reading that failed counts as one millivolt less than none (BatteryManager.hpp:65-82).
LowOnAverage == device = "shutting" => SumOf(window) < ShutdownThreshold * Len(window)

\* A device whose battery stays too low comes to sleep, and to sleep again whenever it wakes up.
LowSleeps == <>[](driver = "analog" /\ voltage < ShutdownThreshold) => []<>(device = "asleep")

\* The setting is written to a gauge that takes it, and a gauge that has been switched over is out of
\* its configuration mode (Bq27220Driver.hpp:191-233).
GaugeObeys == ~ignored /\ (verdict \in {"switched", "rejected"} => ~gauge.updating)

=============================================================================
