------------------------------- MODULE Readings ------------------------------
(***************************************************************************)
(* How sensors keep what they read: DebouncedMeasurement, whose value any  *)
(* task may ask for, and the moving average that a light sensor's or an    *)
(* analog meter's own task records.                                        *)
(***************************************************************************)
EXTENDS Integers, Sequences

CONSTANTS
  Readers,    \* the tasks that ask a sensor for its value: of telemetry, and of functions
  Interval,   \* of the debounced measurement
  Window,     \* of the moving average
  MaxClock,   \* bound on the time
  MaxLevel    \* bound on a light level

ASSUME ReadingsAssumption ==
  /\ {Interval, Window} \subseteq Nat \ {0} /\ {MaxClock, MaxLevel} \subseteq Nat
  /\ Readers \cap {"value", "none"} = {}

VARIABLES
  sensor,           \* the sensor of this behaviour
  clock,
  owner,            \* of the measurement's mutex, or "none"
  at,               \* of each reader: "away", "called", "measuring", "reading"
  called,           \* of each reader: when it called, and when it looked at the clock under the lock
  value,            \* when its parts were measured: two values, or the oldest and the newest sample of an average; Never is NaN
  lastMeasurement,
  copied,           \* of each reader: the first part of the value that it returns
  stale,            \* history: a measurement has failed since the last good one, and per reader: since its call
  returned,         \* the last value returned: its parts, when it was asked for, and if it might be stale
  average           \* of the light levels, see NoLevels

readingVars == <<sensor, clock, owner, at, called, value, lastMeasurement, copied, stale, returned, average>>

Sensors == {"ds18b20", "hw390", "hdc2010", "chirp", "sht2x"}
Never == MaxClock + 1
NaN == [first |-> Never, second |-> Never]
NothingReturned == [first |-> Never, second |-> Never, call |-> 0, stale |-> FALSE]
NoLevels == [measurements |-> [i \in 1..Window |-> 0], index |-> 1, count |-> 0, sum |-> 0, average |-> 0,
             recorded |-> <<>>]

ReadingsTypeOK ==
  /\ sensor \in Sensors /\ stale \in [Readers \cup {"value"} -> BOOLEAN] /\ clock \in 0..MaxClock /\ owner \in Readers \cup {"none"}
  /\ at \in [Readers -> {"away", "called", "measuring", "reading", "copied"}]
  /\ lastMeasurement \in 0..Never

ReadingsInit ==
  /\ sensor \in Sensors /\ clock = 0 /\ owner = "none"
  /\ at = [r \in Readers |-> "away"] /\ called = [r \in Readers |-> [call |-> 0, now |-> 0]]
  /\ value = NaN /\ lastMeasurement = Never
  /\ copied = [r \in Readers |-> Never] /\ stale = [r \in Readers \cup {"value"} |-> FALSE]
  /\ returned = NothingReturned
  /\ average = NoLevels

-----------------------------------------------------------------------------
(* DebouncedMeasurement.                                                   *)

Unread == UNCHANGED <<sensor, average>>

TimePasses ==
  /\ clock < MaxClock
  /\ clock' = clock + 1
  /\ Unread /\ UNCHANGED <<owner, at, called, value, lastMeasurement, copied, stale, returned>>

getValue(r) ==
  /\ sensor # "sht2x" /\ at[r] = "away"
  /\ at' = [at EXCEPT ![r] = "called"]
  /\ called' = [called EXCEPT ![r].call = clock]
  /\ stale' = [stale EXCEPT ![r] = stale["value"]]
  /\ returned' = NothingReturned
  /\ Unread /\ UNCHANGED <<clock, owner, value, lastMeasurement, copied>>

Recent == lastMeasurement # Never /\ clock - lastMeasurement < Interval

\* The lock is taken, and given back at once when the last measurement is recent.
updateIfNecessary(r) ==
  /\ at[r] = "called" /\ owner = "none"
  /\ called' = [called EXCEPT ![r].now = clock]
  /\ IF Recent
     THEN at' = [at EXCEPT ![r] = "reading"] /\ UNCHANGED owner
     ELSE at' = [at EXCEPT ![r] = "measuring"] /\ owner' = r
  /\ Unread /\ UNCHANGED <<clock, value, lastMeasurement, copied, stale, returned>>

Becomes(r, first, second) ==
  /\ value' = [first |-> first, second |-> second]
  /\ lastMeasurement' = called[r].now
  /\ stale' = [stale EXCEPT !["value"] = FALSE]
Succeeds(r) == Becomes(r, clock, clock)

\* No value: the last one stays, and so does the time of its measurement.
KeepsLast == stale' = [r \in DOMAIN stale |-> TRUE] /\ UNCHANGED <<value, lastMeasurement>>

\* The conversion or the reading may fail.
Ds18B20Measures(r) == sensor = "ds18b20" /\ (Succeeds(r) \/ KeepsLast)

\* An exponential moving average with the last value.
Hw390Measures(r) ==
  /\ sensor = "hw390"
  /\ Becomes(r, IF value = NaN THEN clock ELSE value.first, clock) \/ KeepsLast

\* Whatever fails is a measurement of NaN.
Hdc2010Measures(r) == sensor = "hdc2010" /\ (Succeeds(r) \/ Becomes(r, Never, Never))

\* Each of the two registers may fail to be read.
ChirpMeasures(r) == sensor = "chirp" /\ \E first, second \in {clock, Never} : Becomes(r, first, second)

Measured(r) ==
  /\ at[r] = "measuring"
  /\ Ds18B20Measures(r) \/ Hw390Measures(r) \/ Hdc2010Measures(r) \/ ChirpMeasures(r)
  /\ owner' = "none"
  /\ at' = [at EXCEPT ![r] = "reading"]
  /\ Unread /\ UNCHANGED <<clock, called, copied, returned>>

\* A sensor without debouncing measures what it is asked for.
Sht2xMeasures ==
  /\ sensor = "sht2x"
  /\ \E t \in {clock, Never} : returned' = [first |-> t, second |-> t, call |-> clock, stale |-> FALSE]
  /\ Unread /\ UNCHANGED <<clock, owner, at, called, value, lastMeasurement, copied, stale>>

\* The value is copied part by part, and not under the lock.
CopyFirst(r) ==
  /\ at[r] = "reading"
  /\ copied' = [copied EXCEPT ![r] = value.first]
  /\ at' = [at EXCEPT ![r] = "copied"]
  /\ Unread /\ UNCHANGED <<clock, owner, called, value, lastMeasurement, stale, returned>>

CopySecond(r) ==
  /\ at[r] = "copied"
  /\ returned' = [first |-> copied[r], second |-> value.second, call |-> called[r].call, stale |-> stale[r]]
  /\ at' = [at EXCEPT ![r] = "away"]
  /\ copied' = [copied EXCEPT ![r] = Never] /\ called' = [called EXCEPT ![r] = [call |-> 0, now |-> 0]]
  /\ Unread /\ UNCHANGED <<clock, owner, value, lastMeasurement, stale>>

-----------------------------------------------------------------------------
(* LightSensor and AnalogMeter.                                            *)

SumOf(s) == LET f[i \in 0..Len(s)] == IF i = 0 THEN 0 ELSE f[i - 1] + s[i] IN f[Len(s)]

\* record() of MovingAverage; the sum is kept up to date by what leaves the window.
record(m, level) ==
  LET full == m.count = Window
      sum == (IF full THEN m.sum - m.measurements[m.index] ELSE m.sum) + level
      count == IF full THEN m.count ELSE m.count + 1 IN
  [measurements |-> [m.measurements EXCEPT ![m.index] = level], index |-> (m.index % Window) + 1,
   count |-> count, sum |-> sum, average |-> sum \div count,
   recorded |-> IF Len(m.recorded) = Window THEN Append(Tail(m.recorded), level) ELSE Append(m.recorded, level)]

\* The sensor's task reads it, or fails to, and records nothing.
RecordLevel ==
  /\ \E level \in 0..MaxLevel : average' = record(average, level)
  /\ UNCHANGED <<sensor, clock, owner, at, called, value, lastMeasurement, copied, stale, returned>>

DebounceNext ==
  \/ TimePasses \/ Sht2xMeasures
  \/ \E r \in Readers : getValue(r) \/ updateIfNecessary(r) \/ Measured(r) \/ CopyFirst(r) \/ CopySecond(r)

DebounceSpec == ReadingsInit /\ [][DebounceNext]_readingVars
AverageSpec == ReadingsInit /\ [][RecordLevel]_readingVars

-----------------------------------------------------------------------------
(* Properties.                                                             *)

\* Each part of a value, or its newest sample, is NaN, or was measured less than the interval before it was asked for or
\* later, whichever task has measured it; unless a measurement has failed and the last value is kept
\* (DebouncedMeasurement.hpp:31-51).
Timely ==
  ~returned.stale =>
    \A t \in IF sensor = "hw390" THEN {returned.second} ELSE {returned.first, returned.second} :
      t = Never \/ t + Interval > returned.call

\* The average is that of the levels recorded last (MovingAverage.hpp:18-30).
AverageExact ==
  LET recorded == average.recorded IN
  recorded # <<>> => average.average = SumOf(recorded) \div Len(recorded)

=============================================================================
