---------------------------- MODULE PulseCounter ----------------------------
(***************************************************************************)
(* Pulse counters: one on a pin that the ultra-low-power coprocessor       *)
(* polls, one on a pin whose edges interrupt the CPU, and the task of the  *)
(* electric fence monitor that reads both.                                 *)
(*                                                                         *)
(* The coprocessor's memory survives a soft reset of the CPU, and the      *)
(* coprocessor goes on counting there until start() loads it anew.  In     *)
(* light sleep the CPU sees levels, not edges.                             *)
(***************************************************************************)
EXTENDS Integers

CONSTANTS
  Width,      \* the counts wrap at Width (2^32)
  MaxPulses,  \* bound on the pulses of each pin
  MaxResets   \* bound on the soft resets

ASSUME PulseAssumption == Width \in Nat \ {0} /\ {MaxPulses, MaxResets} \subseteq Nat

VARIABLES
  level,        \* of the ULP's pin and of the GPIO, 0 or 1
  loaded,       \* the coprocessor: "before" start(), "reloaded" by it, or "started"
  pulse_count,  \* RTC memory
  last_level,   \* as the coprocessor saw it
  soon,         \* per pin: the debounce time has not passed since the last edge that counted
  ulpStarted,
  lastSeen,
  handling,     \* the interrupt handler of the GPIO is installed
  lastEdge,
  edgeCount,
  interrupted,      \* an interrupt that the CPU is yet to serve
  asleep,
  wakeLevel,    \* the level that ends light sleep
  lastVoltage,  \* of the fence: the pins with pulses at the last look
  falls,        \* history: pulses that the coprocessor saw once started, and falling edges of the GPIO
  taken,        \* history: per pin, the pulses that resetCount() has returned
  cleared,      \* history: the coprocessor's count was cleared under it
  edged,        \* history: the GPIO's counter has looked at its pin
  resets        \* soft resets so far

ulpVars == <<loaded, pulse_count, last_level, ulpStarted, lastSeen>>
gpioVars == <<handling, lastEdge, edgeCount, interrupted, asleep, wakeLevel>>
historyVars == <<falls, taken, cleared, edged, resets>>
pulseVars == <<level, soon, ulpVars, gpioVars, lastVoltage, historyVars>>

Pins == {"ulp", "gpio"}

PulseTypeOK ==
  /\ level \in [Pins -> 0..1] /\ soon \in [Pins -> BOOLEAN]
  /\ loaded \in {"before", "reloaded", "started"}
  /\ {pulse_count, lastSeen} \subseteq 0..(Width - 1) /\ {last_level, lastEdge, wakeLevel} \subseteq 0..1
  /\ {ulpStarted, handling, interrupted, asleep, cleared, edged} \subseteq BOOLEAN
  /\ edgeCount \in 0..MaxPulses
  /\ falls \in [Pins -> 0..MaxPulses] /\ taken \in [Pins -> 0..(MaxPulses + Width)]
  /\ lastVoltage \subseteq Pins

PulseInit ==
  /\ level \in [Pins -> 0..1] /\ soon = [p \in Pins |-> FALSE]
  /\ loaded = "before" /\ pulse_count = 0 /\ last_level = 0 /\ ulpStarted = FALSE /\ lastSeen = 0
  /\ handling = FALSE /\ lastEdge = level["gpio"] /\ edgeCount = 0 /\ interrupted = FALSE
  /\ asleep = FALSE /\ wakeLevel = 0
  /\ lastVoltage = {} /\ falls = [p \in Pins |-> 0] /\ taken = [p \in Pins |-> 0]
  /\ cleared = FALSE /\ edged = FALSE /\ resets = 0

-----------------------------------------------------------------------------
(* The pins.                                                               *)

\* An edge of a GPIO interrupts the CPU while it is awake.
Edge(p) ==
  /\ falls[p] < MaxPulses
  /\ level' = [level EXCEPT ![p] = 1 - @]
  /\ interrupted' = IF p = "gpio" /\ handling /\ ~asleep THEN TRUE ELSE interrupted
  /\ falls' = IF p = "gpio" /\ level[p] = 1 THEN [falls EXCEPT ![p] = @ + 1] ELSE falls
  /\ UNCHANGED <<soon, ulpVars, handling, lastEdge, edgeCount, asleep, wakeLevel, lastVoltage, taken, cleared, edged, resets>>

DebouncePasses(p) ==
  /\ soon[p]
  /\ soon' = [soon EXCEPT ![p] = FALSE]
  /\ UNCHANGED <<level, ulpVars, gpioVars, lastVoltage, historyVars>>

-----------------------------------------------------------------------------
(* The coprocessor, and reading its counts.                                *)

\* uint32_t arithmetic; a difference that is negative as an int32_t is a desync.
Delta == (pulse_count - lastSeen + Width) % Width
isDesynced == 2 * Delta >= Width

getCount == IF ~ulpStarted \/ isDesynced THEN 0 ELSE Delta

\* One turn of its loop that finds another level.  Only falling edges count, or start the debounce
\* time.  The counts are read long before half the range of a uint32_t has passed.
UlpPolls ==
  /\ loaded # "reloaded"
  /\ level["ulp"] # last_level
  /\ last_level' = level["ulp"]
  /\ IF level["ulp"] = 0 /\ ~soon["ulp"]
     THEN /\ loaded = "started" => 2 * (falls["ulp"] + 1 - taken["ulp"]) < Width
          /\ pulse_count' = (pulse_count + 1) % Width
          /\ soon' = [soon EXCEPT !["ulp"] = TRUE]
          /\ falls' = IF loaded = "started" THEN [falls EXCEPT !["ulp"] = @ + 1] ELSE falls
     ELSE UNCHANGED <<pulse_count, soon, falls>>
  /\ UNCHANGED <<level, loaded, ulpStarted, lastSeen, gpioVars, lastVoltage, taken, cleared, edged, resets>>

\* start(): the coprocessor is stopped, and its binary and the configuration of its channels are loaded
\* with zeroed counts.  From then on the counters read them.
LoadUlp ==
  /\ loaded = "before"
  /\ loaded' = "reloaded"
  /\ pulse_count' = 0
  /\ ulpStarted' = TRUE
  /\ UNCHANGED <<level, soon, last_level, lastSeen, gpioVars, lastVoltage, historyVars>>

RunUlp ==
  /\ loaded = "reloaded"
  /\ loaded' = "started"
  /\ last_level' = level["ulp"]
  /\ soon' = [soon EXCEPT !["ulp"] = TRUE]
  /\ UNCHANGED <<level, pulse_count, ulpStarted, lastSeen, gpioVars, lastVoltage, historyVars>>

\* A brownout or EMI clears the count of a counter that has not passed half the range of a uint32_t.
Corrupt ==
  /\ loaded = "started"
  /\ lastSeen <= Width \div 2
  /\ pulse_count # 0
  /\ pulse_count' = 0
  /\ cleared' = TRUE
  /\ UNCHANGED <<level, loaded, soon, last_level, ulpStarted, lastSeen, gpioVars, lastVoltage, falls, taken, edged, resets>>

\* A soft reset: the CPU's state is gone, the coprocessor and its memory are not.
SoftReset ==
  /\ resets < MaxResets
  /\ resets' = resets + 1
  /\ loaded' = "before" /\ ulpStarted' = FALSE /\ lastSeen' = 0
  /\ handling' = FALSE /\ lastEdge' = level["gpio"] /\ edgeCount' = 0 /\ interrupted' = FALSE
  /\ asleep' = FALSE /\ wakeLevel' = 0
  /\ soon' = [soon EXCEPT !["gpio"] = FALSE]
  /\ lastVoltage' = {} /\ falls' = [p \in Pins |-> 0] /\ taken' = [p \in Pins |-> 0]
  /\ cleared' = FALSE /\ edged' = FALSE
  /\ UNCHANGED <<level, pulse_count, last_level>>

-----------------------------------------------------------------------------
(* The counter on a GPIO.                                                  *)

\* gpio_isr_handler_add(), after the constructor has read the pin; edges in between are missed.
Attach ==
  /\ ~handling
  /\ handling' = TRUE
  /\ UNCHANGED <<level, soon, ulpVars, lastEdge, edgeCount, interrupted, asleep, wakeLevel, lastVoltage, historyVars>>

\* handleGpioPulseCounterInterrupt(): both edges start the debounce time, falling ones count.
CountEdge ==
  /\ lastEdge' = level["gpio"]
  /\ edged' = TRUE
  /\ IF level["gpio"] # lastEdge /\ ~soon["gpio"]
     THEN /\ soon' = [soon EXCEPT !["gpio"] = TRUE]
          /\ edgeCount' = IF level["gpio"] = 0 THEN edgeCount + 1 ELSE edgeCount
     ELSE UNCHANGED <<soon, edgeCount>>

Interrupt ==
  /\ interrupted
  /\ interrupted' = FALSE
  /\ CountEdge
  /\ UNCHANGED <<level, ulpVars, handling, asleep, wakeLevel, lastVoltage, falls, taken, cleared, resets>>

\* Interrupts are served before the idle task lets the CPU sleep.
handleGoingToLightSleep ==
  /\ handling /\ ~asleep /\ ~interrupted
  /\ asleep' = TRUE
  /\ wakeLevel' = 1 - level["gpio"]
  /\ UNCHANGED <<level, soon, ulpVars, handling, lastEdge, edgeCount, interrupted, lastVoltage, historyVars>>

\* Woken up by the pin, or by anything else.
handleWakingUpFromLightSleep ==
  /\ asleep
  /\ asleep' = FALSE
  /\ CountEdge
  /\ UNCHANGED <<level, ulpVars, handling, interrupted, wakeLevel, lastVoltage, falls, taken, cleared, resets>>

-----------------------------------------------------------------------------

\* The electric fence's task reads and resets its counters, and keeps which pins have seen pulses.
ElectricFence ==
  LET counted == [p \in Pins |-> IF p = "gpio" THEN edgeCount ELSE getCount] IN
  /\ ~asleep
  /\ lastSeen' = IF ulpStarted THEN pulse_count ELSE lastSeen
  /\ edgeCount' = 0
  /\ taken' = [p \in Pins |-> taken[p] + counted[p]]
  /\ lastVoltage' = {p \in Pins : counted[p] > 0}
  /\ UNCHANGED <<level, soon, loaded, pulse_count, last_level, ulpStarted,
                 handling, lastEdge, interrupted, asleep, wakeLevel, falls, cleared, edged, resets>>

\* Either pin, with the task that reads both counters.
UlpNext ==
  Edge("ulp") \/ DebouncePasses("ulp") \/ UlpPolls \/ LoadUlp \/ RunUlp \/ Corrupt \/ SoftReset \/ ElectricFence
GpioNext ==
  \/ Edge("gpio") \/ DebouncePasses("gpio") \/ Attach \/ Interrupt
  \/ handleGoingToLightSleep \/ handleWakingUpFromLightSleep \/ ElectricFence

UlpSpec == PulseInit /\ [][UlpNext]_pulseVars
GpioSpec == PulseInit /\ [][GpioNext]_pulseVars

-----------------------------------------------------------------------------
(* Properties.                                                             *)

\* Every pulse that the coprocessor counted since start() is returned once, across the wrap of the
\* count; after the count was cleared some are lost, but none is made up, and none is left from
\* before a reset (PulseCounter.cpp:77-85, 93-104).
UlpExact ==
  /\ taken["ulp"] + getCount <= falls["ulp"]
  /\ ulpStarted /\ ~cleared => taken["ulp"] + getCount = falls["ulp"]

\* A GPIO's counter never counts an edge that was not there, and is not left behind by its pin: awake
\* it has seen its level, and asleep the pin wakes up the CPU when its level is another.
GpioExact ==
  /\ taken["gpio"] + edgeCount <= falls["gpio"]
  /\ edged /\ ~interrupted /\ level["gpio"] # lastEdge => asleep /\ level["gpio"] = wakeLevel

=============================================================================
