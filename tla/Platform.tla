-------------------------------- MODULE Platform --------------------------------
(***************************************************************************)
(* A device and its parts for TLC.  What it starts with: the boards and    *)
(* how their resources are handed out, the registry of peripherals and     *)
(* functions, the task that publishes telemetry, what is known of earlier  *)
(* boots, the status LED and the buzzer.  And what it measures: pulse      *)
(* counters, soil probes on serial links, the software I2C bus and the     *)
(* Spadefoot Toad, how values are kept, the battery and its gauge.  They   *)
(* share no state: "subject" is chosen at the start, and the others rest.  *)
(***************************************************************************)
EXTENDS Boards, Registry, Boots, Indicators,
        PulseCounter, SoilProbes, BitbangI2C, SpadefootToad, Readings, Battery

VARIABLE subject

hardwareVars == <<boardVars, outputVars>>
lifeVars == <<registryVars, publishingVars, bootVars, statusVars>>
probingVars == <<probeVars, bitbangVars, toadVars>>
valueVars == <<pulseVars, readingVars, batteryVars, gaugeVars>>
platformVars == <<hardwareVars, lifeVars, probingVars, valueVars, subject>>

Subjects ==
  {"boards", "registry", "publishing", "boots", "status", "outputs",
   "ulp", "gpio", "probes", "i2c", "toad", "values", "levels", "battery", "gauge"}

\* Of the part that acts: the others stay as they were.
PlatformTypeOK ==
  /\ subject \in Subjects
  /\ subject = "boards" => BoardsTypeOK
  /\ subject \in {"registry", "publishing"} => RegistryTypeOK
  /\ subject = "boots" => BootsTypeOK
  /\ subject \in {"status", "outputs"} => IndicatorsTypeOK
  /\ subject \in {"ulp", "gpio"} => PulseTypeOK
  /\ subject = "probes" => ProbesTypeOK
  /\ subject = "i2c" => BitbangTypeOK
  /\ subject = "toad" => ToadTypeOK
  /\ subject \in {"values", "levels"} => ReadingsTypeOK
  /\ subject = "battery" => BatteryTypeOK
  /\ subject = "gauge" => GaugeTypeOK

\* What rests, rests in one state.
PlatformInit ==
  /\ subject \in Subjects
  /\ BoardsInit
  /\ subject # "boards" => unit = [chip |-> "c6", is |-> "mk15", mac |-> "other", record |-> "burned", generation |-> 15]
  /\ RegistryInit
  /\ subject # "registry" => peripherals = <<>> /\ functions = <<>>
  /\ PublishingInit /\ BootsInit /\ StatusInit /\ OutputsInit
  /\ PulseInit
  /\ subject \notin {"ulp", "gpio"} => level = [p \in Pins |-> 0]
  /\ ProbesInit
  /\ subject # "probes" => bus = "rs485"
  /\ BitbangInit /\ ToadInit /\ ReadingsInit
  /\ subject # "values" => sensor = "sht2x"
  /\ BatteryInit
  /\ subject # "battery" => driver = "none" /\ voltage = MaxVoltage
  /\ GaugeInit
  /\ subject # "gauge" => gauge.sealed /\ gauge.external

HardwareActs ==
  /\ \/ subject = "boards" /\ BoardsNext /\ UNCHANGED outputVars
     \/ subject = "outputs" /\ OutputsNext /\ UNCHANGED boardVars
  /\ UNCHANGED <<lifeVars, probingVars, valueVars, subject>>

LifeActs ==
  /\ \/ subject = "registry" /\ RegistryNext /\ UNCHANGED <<publishingVars, bootVars, statusVars>>
     \/ subject = "publishing" /\ PublishingNext /\ UNCHANGED <<registryVars, bootVars, statusVars>>
     \/ subject = "boots" /\ BootsNext /\ UNCHANGED <<registryVars, publishingVars, statusVars>>
     \/ subject = "status" /\ StatusNext /\ UNCHANGED <<registryVars, publishingVars, bootVars>>
  /\ UNCHANGED <<hardwareVars, probingVars, valueVars, subject>>

ProbesAct ==
  /\ \/ subject = "probes" /\ ProbesNext /\ UNCHANGED <<bitbangVars, toadVars>>
     \/ subject = "i2c" /\ BitbangNext /\ UNCHANGED <<probeVars, toadVars>>
     \/ subject = "toad" /\ ToadNext /\ UNCHANGED <<probeVars, bitbangVars>>
  /\ UNCHANGED <<hardwareVars, lifeVars, valueVars, subject>>

ValuesAct ==
  /\ \/ subject = "ulp" /\ UlpNext /\ UNCHANGED <<readingVars, batteryVars, gaugeVars>>
     \/ subject = "gpio" /\ GpioNext /\ UNCHANGED <<readingVars, batteryVars, gaugeVars>>
     \/ subject = "values" /\ DebounceNext /\ UNCHANGED <<pulseVars, batteryVars, gaugeVars>>
     \/ subject = "levels" /\ RecordLevel /\ UNCHANGED <<pulseVars, batteryVars, gaugeVars>>
     \/ subject = "battery" /\ BatteryNext /\ UNCHANGED <<pulseVars, readingVars, gaugeVars>>
     \/ subject = "gauge" /\ GaugeNext /\ UNCHANGED <<pulseVars, readingVars, batteryVars>>
  /\ UNCHANGED <<hardwareVars, lifeVars, probingVars, subject>>

PlatformNext == HardwareActs \/ LifeActs \/ ProbesAct \/ ValuesAct

\* Tasks run, time passes, and timers fire.
PlatformSpec ==
  /\ PlatformInit /\ [][PlatformNext]_platformVars
  /\ WF_platformVars(subject = "publishing" /\ PublishingTasks
       /\ UNCHANGED <<hardwareVars, registryVars, bootVars, statusVars, probingVars, valueVars, subject>>)
  /\ WF_platformVars(subject = "status" /\ StatusTasks
       /\ UNCHANGED <<hardwareVars, registryVars, publishingVars, bootVars, probingVars, valueVars, subject>>)
  /\ WF_platformVars(subject = "status" /\ LedTask
       /\ UNCHANGED <<hardwareVars, registryVars, publishingVars, bootVars, probingVars, valueVars, subject>>)
  /\ WF_platformVars(subject = "outputs" /\ BuzzerTasks
       /\ UNCHANGED <<boardVars, lifeVars, probingVars, valueVars, subject>>)
  /\ WF_platformVars(subject = "battery" /\ BatteryTasks
       /\ UNCHANGED <<hardwareVars, lifeVars, probingVars, pulseVars, readingVars, gaugeVars, subject>>)

-----------------------------------------------------------------------------
(* What the parts state.                                                   *)

\* A device runs as its board, whose parts do not share pins, ports, channels or timers; and what it drives
\* is powered (main.cpp:35-168, I2CManager.hpp:170-214, PwmManager.hpp:118-148, BuzzerDriver.hpp:67-91).
HardwareSound ==
  /\ subject = "boards" => BoardsSound
  /\ subject = "outputs" => OutputsSound

\* What is configured is made, reported, shut down and said to run as it is, by a device that publishes;
\* and a boot knows the crashes, the boots and the firmware before it (Manager.hpp:115-161,
\* DeviceInit.hpp:95-126, FunctionConfigTracker.hpp:31-61, CrashCounter.hpp:31-63, CrashManager.hpp:37-62).
LifeSound ==
  /\ subject \in {"registry", "publishing"} => RegistrySound
  /\ subject = "boots" => BootsSound

\* What probes answer is told apart, and they are powered and put to rest as their links need
\* (ModbusRtu.hpp:86, Rs485Bus.hpp:213, MoleCricket.hpp:180-195, BitbangI2C.hpp:99-161,
\* SpadefootToadSensor.hpp:361-366).
ProbesSound ==
  /\ subject = "probes" => OwnAnswers /\ NotBackPowered /\ BridgeAtRest
  /\ subject = "i2c" => BytesExact
  /\ subject = "toad" => CalibrationWhole /\ MeasuredAnew

\* Counters return each pulse once, across wraps, resets and light sleep; a value is no older than its
\* interval, an average is of the levels read last, the battery is low on average and not on one reading,
\* and its gauge takes its setting (PulseCounter.cpp:76-110, DebouncedMeasurement.hpp:31-51,
\* MovingAverage.hpp:18-30, BatteryManager.hpp:65-82, Bq27220Driver.hpp:191-233).
ValuesSound ==
  /\ subject = "ulp" => UlpExact
  /\ subject = "gpio" => GpioExact
  /\ subject = "values" => Timely
  /\ subject = "levels" => AverageExact
  /\ subject = "battery" => LowOnAverage
  /\ subject = "gauge" => GaugeObeys

\* What the device measures is what there is to measure.
MeasuredSound == ProbesSound /\ ValuesSound

\* A requested publication starts and a boot ends, the LED comes to show the state, a buzz ends, and a
\* battery that stays low puts the device to sleep, again whenever it wakes up (TelemetryTask.hpp:120-129,
\* KernelStatus.hpp:64-119, BuzzerDriver.hpp:67-91, BatteryManager.hpp:65-82).
Responds ==
  /\ subject = "publishing" => Publishes
  /\ subject = "status" => LedFollows
  /\ subject = "outputs" => BuzzEnds
  /\ subject = "battery" => LowSleeps

==============================================================================
