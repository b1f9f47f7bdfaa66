------------------------------ MODULE FlowMeter ------------------------------
(***************************************************************************)
(* The flow meter (peripherals/flow_meter/FlowMeter.hpp): a task turns the *)
(* pulses it counted into volume, an irrigation scheduler takes the volume *)
(* that is new to it, and the telemetry task publishes what is unpublished.*)
(***************************************************************************)
EXTENDS Integers

CONSTANT MaxWater  \* units of water that flow at most

ASSUME WaterAssumption == MaxWater \in Nat

VARIABLES
  counter,      \* pulses that nobody has looked at
  counted,      \* pulses the task took from the counter and has yet to add
  volume,       \* water the scheduler has not taken
  unpublished,  \* water taken but not published
  published,    \* water that was published
  credited,     \* water that was handed to the scheduler
  flowed        \* all the water

meterVars == <<counter, counted, volume, unpublished, published, credited, flowed>>

MeterTypeOK == \A v \in {counter, counted, volume, unpublished, published, credited, flowed} : v \in 0 .. MaxWater

MeterInit ==
  /\ counter = 0 /\ counted = 0 /\ volume = 0 /\ unpublished = 0
  /\ published = 0 /\ credited = 0 /\ flowed = 0

\* Water goes through the meter.
Flow(water) ==
  /\ flowed + water <= MaxWater
  /\ flowed' = flowed + water
  /\ counter' = counter + water
  /\ UNCHANGED <<counted, volume, unpublished, published, credited>>

\* Contrast: the counter is read, and not reset.
CountPulsesAgain ==
  /\ counted = 0 /\ counter > 0
  /\ counted' = counter
  /\ UNCHANGED <<counter, volume, unpublished, published, credited, flowed>>

CountPulses ==
  /\ counted = 0 /\ counter > 0
  /\ counted' = counter /\ counter' = 0
  /\ UNCHANGED <<volume, unpublished, published, credited, flowed>>

AddVolume ==
  /\ counted > 0
  /\ volume' = volume + counted
  /\ counted' = 0
  /\ UNCHANGED <<counter, unpublished, published, credited, flowed>>

getVolumeAndReset ==
  /\ volume' = 0
  /\ UNCHANGED <<counter, counted, flowed>>

getVolume ==
  /\ getVolumeAndReset
  /\ unpublished' = unpublished + volume
  /\ credited' = credited + volume
  /\ UNCHANGED published

populateTelemetry ==
  /\ getVolumeAndReset
  /\ published' = published + unpublished + volume
  /\ unpublished' = 0
  /\ UNCHANGED credited

-----------------------------------------------------------------------------
\* Telemetry reports all the water once, and no water is credited to two pulses.
Conserved ==
  LET inside == counter + counted + volume
  IN /\ published + unpublished + inside = flowed
     /\ credited + inside <= flowed

==============================================================================
