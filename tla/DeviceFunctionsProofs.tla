------------------------ MODULE DeviceFunctionsProofs ------------------------
(***************************************************************************)
(* Proofs about the device's functions and their valve: the loop that      *)
(* sleeps until the deadline its schedulers gave, the schedulers, the flow *)
(* meter and the valve, for any schedules, overrides, delays, amounts of   *)
(* water and bounds.                                                       *)
(*                                                                         *)
(* FunctionInv is the inductive invariant.  What a list of schedules adds  *)
(* up to is a fold; that is shown by its least counterexample (AllNumbers),*)
(* what a schedule says later by arithmetic modulo its period.             *)
(***************************************************************************)
EXTENDS DeviceFunctions, FiniteSetTheorems, WellFoundedInduction, TLAPS

-----------------------------------------------------------------------------
(* The inductive invariant.                                                *)

\* A configuration in the queue is one of the function's own.
QueueInv ==
  /\ acting = "plot" => configQueue \in Seq(PlotConfigs)
  /\ acting = "chicken" => configQueue \in Seq([override : Overrides, delays : Delays])

\* The water of the pulse is water that was credited.
MeterInv == MeterTypeOK /\ Conserved /\ pulse.delivered <= credited

\* Until the loop looks again an override lasts, and the peripheral is where it wants it.
OverrideObeyed ==
  phase # "evaluate" =>
    \A o \in override : asked = {o.state} /\ wait # {} /\ \A w \in wait : w <= o.left + lag

\* What a schedule says at the time the loop last looked for, which is "late" ago, or that will be.
Started(s, late) == s.offset - late >= 0
Position(s, late) == (s.offset - late) % s.period
OpenAt(s, late) == Started(s, late) /\ Position(s, late) < s.duration
CloseAfter(s, late) == s.duration - Position(s, late)
OpenAfter(s, late) == IF Started(s, late) THEN s.period - Position(s, late) ELSE late - s.offset

\* The state "target" is what the schedules ask for, and does not change within "time".
StaysOpen(list, late, time) == \E i \in DOMAIN list : OpenAt(list[i], late) /\ time <= CloseAfter(list[i], late)
StaysClosed(list, late, time) == \A i \in DOMAIN list : ~OpenAt(list[i], late) /\ time <= OpenAfter(list[i], late)
Stays(target, list, late, time) ==
  \/ target = {"Open"} /\ StaysOpen(list, late, time)
  \/ target = {"Closed"} /\ StaysClosed(list, late, time)

\* What schedules ask of the valve lasts until the loop looks again.
SchedulesObeyed ==
  acting = "plot" /\ phase # "evaluate" /\ override = {} /\ schedules # <<>> =>
    /\ wait # {}
    /\ \A w \in wait : w # 0 => Stays(asked, schedules, lag, w)

\* Without them the valve is open for a pulse, and for nothing else.
PulseObeyed ==
  acting = "plot" /\ phase # "evaluate" /\ override = {} /\ schedules = <<>> =>
    asked = IF moist /\ pulse.state = "Watering" THEN {"Open"} ELSE {"Closed"}

\* A pulse that every tick reached has the valve open, and the loop looks again before its timeout has passed.
PulseFollowed ==
  acting = "plot" /\ pulse.state = "Watering" /\ pulse.sound =>
    /\ asked = {"Open"}
    /\ pulse.sinceStart <= ValveTimeout
    /\ phase = "moving" => wait = {1} /\ pulse.sinceStart <= lag
    /\ phase = "waiting" => wait \in {{0}, {1}} /\ \A w \in wait : pulse.sinceStart + w <= ValveTimeout

PlotInv == SchedulesObeyed /\ PulseObeyed /\ PulseFollowed

\* The loop looks again before the door is overdue.
DelayInv ==
  acting = "chicken" /\ phase # "evaluate" /\ override = {} =>
    \A n \in delay.since :
      /\ wait # {} /\ delay.pending # {}
      /\ \A w \in wait, s \in delay.pending : w + n <= DelayFor(s, delays) + lag

\* Each pulse that is under way has a hardware timer of its own.
IsDriving(steps, m) == IF steps[m].at = "driving" THEN 1 ELSE 0
TimersFit == kind = "latching" => timers + (IsDriving(step, "function") + IsDriving(step, "shutdown")) <= HardwareTimers

\* The valve and the bridge are where the function has brought them in its step "f".
StepKnown(f) ==
  /\ f.at = "idle" => valveState = {position} /\ (kind = "latching" => bridge.power = "off")
  /\ f.at = "driving" /\ kind = "latching" => bridge = [phase |-> f.target, power |-> "full"]
  /\ f.at = "braking" => kind = "latching" /\ position = f.target
  /\ f.at = "record" => position = f.target /\ (kind = "latching" => bridge.power = "off")

\* Until a shutdown the function alone moves the valve, and knows where.
ValveInv == TimersFit /\ (stopping = "no" => step["shutdown"].at = "idle" /\ StepKnown(step["function"]))

FunctionInv ==
  /\ acting \in {"plot", "chicken", "valve"}
  /\ acting # "plot" => pulse.state = "Idle"
  /\ FunctionTypeOK /\ QueueInv /\ MeterInv /\ OverrideObeyed /\ PlotInv /\ DelayInv /\ ValveInv
-----------------------------------------------------------------------------
(* Remainders, and the least and the greatest of two numbers.              *)

LEMMA ModRange ==
  ASSUME NEW x \in Int, NEW p \in Nat \ {0}
  PROVE  x % p \in 0 .. p - 1
  OBVIOUS

LEMMA Quotient ==
  ASSUME NEW x \in Int, NEW p \in Nat \ {0}
  PROVE  x \div p \in Int /\ x = p * (x \div p) + (x % p)
  OBVIOUS
LEMMA Multiple ==
  ASSUME NEW d \in Int, NEW p \in Nat \ {0}, p * d < p, -p < p * d
  PROVE  d = 0
<1>1. CASE d >= 1
  BY <1>1
<1>2. CASE d <= -1
  BY <1>2
<1> QED BY <1>1, <1>2
LEMMA ModUnique ==
  ASSUME NEW p \in Nat \ {0}, NEW q \in Int, NEW r \in 0..p-1, NEW x \in Int, x = p*q + r
  PROVE  x % p = r
<1> DEFINE qq == x \div p
           rr == x % p
<1>1. rr \in 0..p-1 /\ qq \in Int /\ x = p * qq + rr
  BY Quotient
<1>2. p * (q - qq) = rr - r
  BY <1>1
<1>3. q - qq = 0
  <2> HIDE DEF qq, rr
  <2> DEFINE d == q - qq
  <2>1. d \in Int /\ p * d < p /\ -p < p * d
    BY <1>1, <1>2
  <2> HIDE DEF d
  <2>2. d = 0 BY <2>1, Multiple
  <2> QED BY <2>2 DEF d
<1>4. qq = q
  BY <1>1, <1>3
<1> HIDE DEF qq, rr
<1> QED
  BY <1>1, <1>4 DEF rr
LEMMA ModNext ==
  ASSUME NEW x \in Nat, NEW p \in Nat \ {0}
  PROVE  (x + 1) % p = IF (x % p) + 1 = p THEN 0 ELSE (x % p) + 1
<1> DEFINE q == x \div p
           r == x % p
           y == x + 1
<1>1. r = x % p /\ r \in 0 .. p - 1 /\ q \in Int /\ x = p * q + r
  BY Quotient
<1> HIDE DEF q, r
<1>2. CASE r + 1 = p
  <2> DEFINE next == q + 1
  <2>1. y \in Int /\ next \in Int /\ y = p * next + 0 /\ 0 \in 0 .. p - 1
    BY <1>1, <1>2
  <2> HIDE DEF y, next
  <2>2. y % p = 0
    BY <2>1, ModUnique
  <2> QED
    BY <1>1, <1>2, <2>2 DEF y
<1>3. CASE r + 1 # p
  <2> DEFINE next == r + 1
  <2>1. y \in Int /\ next \in 0 .. p - 1 /\ y = p * q + next
    BY <1>1, <1>3
  <2> HIDE DEF y, next
  <2>2. y % p = next
    BY <1>1, <2>1, ModUnique
  <2> QED
    BY <1>1, <1>3, <2>2 DEF y, next
<1> QED
  BY <1>2, <1>3

LEMMA ModWrap ==
  ASSUME NEW x \in Nat, NEW p \in Nat \ {0}
  PROVE  (x - p) % p = x % p
<1> DEFINE q == x \div p
           r == x % p
           y == x - p
           last == q - 1
<1>1. r = x % p /\ r \in 0 .. p - 1 /\ q \in Int /\ x = p * q + r
  BY Quotient
<1> HIDE DEF q, r
<1>2. y \in Int /\ last \in Int /\ y = p * last + r
  <2>1. y \in Int /\ last \in Int /\ y = (p * q + r) - p
    BY <1>1
  <2>2. p * (q - 1) = p * q - p /\ p * q \in Int
    BY <1>1
  <2> HIDE DEF y
  <2> QED
    BY <1>1, <2>1, <2>2
<1> HIDE DEF y, last
<1>3. y % p = r
  <2>1. r \in 0 .. p - 1 /\ y \in Int /\ last \in Int /\ y = p * last + r
    BY <1>1, <1>2
  <2> QED
    BY <2>1, ModUnique
<1> QED
  BY <1>1, <1>3 DEF y

LEMMA MinPair ==
  ASSUME NEW x \in Int, NEW y \in Int
  PROVE  Min({x, y}) = IF x <= y THEN x ELSE y
  BY DEF Min

LEMMA MaxPair ==
  ASSUME NEW x \in Int, NEW y \in Int
  PROVE  Max({x, y}) = IF x >= y THEN x ELSE y
  BY DEF Max

LEMMA OnlyOne ==
  ASSUME NEW x \in Int
  PROVE  Min({x}) = x /\ Max({x}) = x
  BY DEF Min, Max

LEMMA MaxInterval ==
  ASSUME NEW n \in Nat \ {0}
  PROVE  Max(1 .. n) = n
  BY DEF Max

\* The earlier of two optional deadlines is one of them, and not after the other.
LEMMA MinDuration ==
  ASSUME NEW a, NEW b, IsOptional(a, Nat), IsOptional(b, Nat)
  PROVE  /\ IsOptional(minDuration(a, b), Nat)
         /\ \A w \in minDuration(a, b) : \A x \in a \cup b : w <= x
         /\ minDuration(a, b) = {} <=> a = {} /\ b = {}
         /\ a = {} => minDuration(a, b) = b
         /\ b = {} => minDuration(a, b) = a
         /\ minDuration(a, b) \subseteq a \cup b
<1>1. CASE a = {} /\ b = {}
  BY <1>1 DEF minDuration, IsOptional
<1>2. CASE a = {} /\ b # {}
  <2>1. PICK y \in Nat : b = {y}
    BY <1>2 DEF IsOptional
  <2>2. a \cup b = {y}
    BY <1>2, <2>1
  <2> QED
    BY <1>2, <2>1, <2>2, OnlyOne DEF minDuration, IsOptional
<1>3. CASE a # {} /\ b = {}
  <2>1. PICK x \in Nat : a = {x}
    BY <1>3 DEF IsOptional
  <2>2. a \cup b = {x}
    BY <1>3, <2>1
  <2> QED
    BY <1>3, <2>1, <2>2, OnlyOne DEF minDuration, IsOptional
<1>4. CASE a # {} /\ b # {}
  <2>1. PICK x \in Nat : a = {x}
    BY <1>4 DEF IsOptional
  <2>2. PICK y \in Nat : b = {y}
    BY <1>4 DEF IsOptional
  <2>3. a \cup b = {x, y}
    BY <2>1, <2>2
  <2>4. minDuration(a, b) = {IF x <= y THEN x ELSE y}
    BY <1>4, <2>3, MinPair DEF minDuration
  <2> QED
    BY <2>1, <2>2, <2>4 DEF IsOptional
<1> QED
  BY <1>1, <1>2, <1>3, <1>4

LEMMA MaxDuration ==
  ASSUME NEW x \in Int, NEW y \in Int
  PROVE  maxDuration({x}, {y}) = {IF x >= y THEN x ELSE y}
<1>1. {x} \cup {y} = {x, y}
  OBVIOUS
<1> QED
  BY <1>1, MaxPair DEF maxDuration

-----------------------------------------------------------------------------
(* What a fold over schedules finds.                                       *)

\* The numbers that hold 0, and with each number the next, are all of them.
LEMMA AllNumbers ==
  ASSUME NEW T, T \subseteq Nat, 0 \in T, \A k \in T : k + 1 \in T
  PROVE  T = Nat
<1>1. SUFFICES ASSUME Nat \ T # {} PROVE FALSE
  OBVIOUS
<1>2. PICK m \in Nat \ T : \A k \in Nat \ T : ~(k < m)
  <2> DEFINE R == OpToRel(<, Nat)
  <2>1. Nat \ T \subseteq Nat
    OBVIOUS
  <2>2. IsWellFoundedOn(R, Nat)
    BY NatLessThanWellFounded
  <2>3. \A k, m \in Nat : k < m => <<k, m>> \in R
    BY DEF OpToRel
  <2> HIDE DEF R
  <2>4. \E m \in Nat \ T : \A k \in Nat \ T : <<k, m>> \notin R
    BY <1>1, <2>1, <2>2, WFMin
  <2> QED
    BY <2>1, <2>3, <2>4
<1>3. m \in Nat /\ m # 0
  OBVIOUS
<1>4. m - 1 \in Nat /\ m - 1 < m
  BY <1>3
<1>5. m - 1 \in T
  BY <1>2, <1>4
<1>6. (m - 1) + 1 \in T
  BY <1>5
<1> QED
  BY <1>3, <1>6

\* The function that the fold over the first "n" schedules is defined by.
FoldBody(list, n, g) ==
  [s \in SUBSET (1 .. n) |-> IF s = {} THEN NoOpinion ELSE OneSchedule(g[s \ {Max(s)}], list[Max(s)])]

LEMMA MaxAbove ==
  ASSUME NEW n \in Nat, NEW s \in SUBSET (1 .. n + 1), n + 1 \in s
  PROVE  Max(s) = n + 1 /\ s \ {Max(s)} \in SUBSET (1 .. n)
<1>1. \A y \in s : n + 1 >= y /\ y \in Int
  OBVIOUS
<1>2. Max(s) \in s /\ \A y \in s : Max(s) >= y
  BY <1>1 DEF Max
<1>3. Max(s) \in 1 .. n + 1 /\ Max(s) >= n + 1
  BY <1>2
<1>4. Max(s) = n + 1
  BY <1>3
<1> QED
  BY <1>4

\* There is such a function.
LEMMA FoldExists ==
  ASSUME NEW list
  PROVE  \A n \in Nat : \E g : g = FoldBody(list, n, g)
<1> DEFINE T == {n \in Nat : \E g : g = FoldBody(list, n, g)}
<1>1. 0 \in T
  <2> DEFINE g == [s \in SUBSET (1 .. 0) |-> NoOpinion]
  <2>1. \A s \in SUBSET (1 .. 0) : s = {}
    OBVIOUS
  <2>2. g = FoldBody(list, 0, g)
    BY <2>1 DEF FoldBody
  <2> QED
    BY <2>2
<1>2. ASSUME NEW n \in T PROVE n + 1 \in T
  <2>1. PICK g : g = FoldBody(list, n, g)
    BY <1>2
  <2> DEFINE h == [s \in SUBSET (1 .. n + 1) |-> IF n + 1 \in s THEN OneSchedule(g[s \ {n + 1}], list[n + 1]) ELSE g[s]]
  <2>2. \A s \in SUBSET (1 .. n) : s \in SUBSET (1 .. n + 1) /\ n + 1 \notin s /\ h[s] = g[s]
    <3>1. n \in Nat
      OBVIOUS
    <3>2. \A s \in SUBSET (1 .. n) : s \in SUBSET (1 .. n + 1) /\ n + 1 \notin s
      BY <3>1
    <3> QED
      BY <3>2
  <2>3. ASSUME NEW s \in SUBSET (1 .. n + 1)
        PROVE  h[s] = IF s = {} THEN NoOpinion ELSE OneSchedule(h[s \ {Max(s)}], list[Max(s)])
    <3>1. CASE n + 1 \in s
      <4>1. n \in Nat /\ Max(s) = n + 1 /\ s \ {Max(s)} \in SUBSET (1 .. n)
        BY <3>1, MaxAbove
      <4>2. h[s] = OneSchedule(g[s \ {n + 1}], list[n + 1])
        BY <3>1
      <4>3. h[s \ {n + 1}] = g[s \ {n + 1}]
        BY <4>1, <2>2
      <4> HIDE DEF h
      <4> QED
        BY <3>1, <4>1, <4>2, <4>3
    <3>2. CASE n + 1 \notin s
      <4>1. s \in SUBSET (1 .. n) /\ s \ {Max(s)} \in SUBSET (1 .. n)
        <5>1. n \in Nat
          OBVIOUS
        <5>2. \A i \in s : i \in 1 .. n + 1 /\ i # n + 1
          BY <3>2
        <5>3. \A i \in s : i \in 1 .. n
          BY <5>1, <5>2
        <5> QED
          BY <5>3
      <4>2. h[s] = g[s] /\ h[s \ {Max(s)}] = g[s \ {Max(s)}]
        BY <4>1, <2>2
      <4>3. g[s] = IF s = {} THEN NoOpinion ELSE OneSchedule(g[s \ {Max(s)}], list[Max(s)])
        BY <2>1, <4>1 DEF FoldBody
      <4> HIDE DEF h
      <4> QED
        BY <4>2, <4>3
    <3> QED
      BY <3>1, <3>2
  <2>4. h = FoldBody(list, n + 1, h)
    BY <2>3 DEF FoldBody
  <2> QED
    BY <2>4
<1>3. T = Nat
  <2>1. T \subseteq Nat
    OBVIOUS
  <2> HIDE DEF T
  <2> QED
    BY <1>1, <1>2, <2>1, AllNumbers
<1> QED
  BY <1>3

LEMMA FoldUnfolds ==
  ASSUME NEW list, NEW n \in Nat, DOMAIN list = 1 .. n
  PROVE  \E g : g = FoldBody(list, n, g) /\ getStateUpdate(list) = g[1 .. n]
<1> DEFINE h == CHOOSE g : g = FoldBody(list, n, g)
<1>1. h = FoldBody(list, n, h)
  BY FoldExists
<1>2. getStateUpdate(list) = h[1 .. n]
  BY DEF getStateUpdate, FoldLeft, MapThenFoldSet, FoldBody
<1> QED
  BY <1>1, <1>2

\* What is known of the result for the first "k" schedules.
Finds(list, k, r) ==
  /\ r = ScheduleResult(r.targetState, r.nextDeadline, FALSE)
  /\ k = 0 => r = NoOpinion
  /\ k > 0 => \E d \in Nat \ {0} :
       /\ r.nextDeadline = {d}
       /\ \/ r.targetState = {"Open"} /\ \E i \in 1 .. k : OpenAt(list[i], 0) /\ d = CloseAfter(list[i], 0)
          \/ r.targetState = {"Closed"} /\ \A i \in 1 .. k : ~OpenAt(list[i], 0) /\ d <= OpenAfter(list[i], 0)

LEMMA ScheduleType ==
  ASSUME NEW s \in TimeBasedSchedule, NEW late \in Nat
  PROVE  /\ s.offset \in Int /\ s.period \in Nat \ {0} /\ s.duration \in Nat
         /\ Position(s, late) \in 0 .. s.period - 1
         /\ CloseAfter(s, late) \in Int /\ OpenAfter(s, late) \in Nat \ {0}
<1>1. s.offset \in Int /\ s.period \in Nat \ {0} /\ s.duration \in Nat
  BY DEF TimeBasedSchedule
<1>2. s.offset - late \in Int
  BY <1>1
<1>3. Position(s, late) \in 0 .. s.period - 1
  BY <1>1, <1>2, ModRange DEF Position
<1> QED
  BY <1>1, <1>3 DEF CloseAfter, OpenAfter, Started

LEMMA FindsOpen ==
  ASSUME NEW list, NEW k \in Nat \ {0}, NEW d \in Nat \ {0}, NEW i \in 1 .. k,
         OpenAt(list[i], 0), d = CloseAfter(list[i], 0)
  PROVE  Finds(list, k, ScheduleResult({"Open"}, {d}, FALSE))
  BY DEF Finds, ScheduleResult

LEMMA FindsClosed ==
  ASSUME NEW list, NEW k \in Nat \ {0}, NEW d \in Nat \ {0},
         \A i \in 1 .. k : ~OpenAt(list[i], 0) /\ d <= OpenAfter(list[i], 0)
  PROVE  Finds(list, k, ScheduleResult({"Closed"}, {d}, FALSE))
  BY DEF Finds, ScheduleResult

LEMMA OneMore ==
  ASSUME NEW list, NEW k \in Nat, NEW r, Finds(list, k, r),
         \A i \in 1 .. k + 1 : list[i] \in TimeBasedSchedule
  PROVE  Finds(list, k + 1, OneSchedule(r, list[k + 1]))
<1> DEFINE s == list[k + 1]
           pos == Position(s, 0)
           result == OneSchedule(r, s)
<1>1. /\ s.offset \in Int /\ s.period \in Nat \ {0} /\ s.duration \in Nat
      /\ k + 1 \in Nat \ {0} /\ k + 1 \in 1 .. k + 1
  BY DEF TimeBasedSchedule
<1>2. pos = s.offset % s.period /\ pos \in 0 .. s.period - 1
  <2>1. Position(s, 0) \in 0 .. s.period - 1
    BY <1>1, ScheduleType
  <2> HIDE DEF s
  <2>2. s.offset - 0 = s.offset
    BY <1>1
  <2> QED
    BY <2>1, <2>2 DEF Position
<1>3. Started(s, 0) <=> ~(s.offset < 0)
  BY <1>1 DEF Started
<1>4. \/ k = 0 /\ r = NoOpinion
      \/ /\ k > 0
         /\ \E d \in Nat \ {0} :
              /\ r = ScheduleResult(r.targetState, {d}, FALSE)
              /\ \/ r.targetState = {"Open"} /\ \E i \in 1 .. k : OpenAt(list[i], 0) /\ d = CloseAfter(list[i], 0)
                 \/ r.targetState = {"Closed"} /\ \A i \in 1 .. k : ~OpenAt(list[i], 0) /\ d <= OpenAfter(list[i], 0)
  <2>1. CASE k = 0
    BY <2>1 DEF Finds
  <2>2. CASE k > 0
    <3>1. PICK d \in Nat \ {0} :
            /\ r.nextDeadline = {d}
            /\ \/ r.targetState = {"Open"} /\ \E i \in 1 .. k : OpenAt(list[i], 0) /\ d = CloseAfter(list[i], 0)
               \/ r.targetState = {"Closed"} /\ \A i \in 1 .. k : ~OpenAt(list[i], 0) /\ d <= OpenAfter(list[i], 0)
      BY <2>2 DEF Finds
    <3>2. r = ScheduleResult(r.targetState, {d}, FALSE)
      BY <3>1 DEF Finds
    <3> QED
      BY <2>2, <3>1, <3>2
  <2>3. k = 0 \/ k > 0
    OBVIOUS
  <2> QED
    BY <2>1, <2>2, <2>3
<1>5. ASSUME Started(s, 0), pos < s.duration PROVE Finds(list, k + 1, result)
  <2> DEFINE after == s.duration - pos
  <2>1. OpenAt(s, 0) /\ CloseAfter(s, 0) = after /\ after \in Nat \ {0}
    BY <1>1, <1>2, <1>5 DEF OpenAt, CloseAfter
  <2>2. result = openFor(r, after)
    BY <1>1, <1>2, <1>3, <1>5 DEF OneSchedule
  <2> HIDE DEF after, s, pos
  <2>3. CASE ~("Open" \in r.targetState)
    <3>1. result = ScheduleResult({"Open"}, {after}, FALSE)
      BY <2>2, <2>3 DEF openFor
    <3> HIDE DEF result
    <3> QED
      BY <1>1, <2>1, <3>1, FindsOpen DEF s
  <2>4. CASE "Open" \in r.targetState
    <3>1. PICK d \in Nat \ {0}, i \in 1 .. k :
            r = ScheduleResult({"Open"}, {d}, FALSE) /\ OpenAt(list[i], 0) /\ d = CloseAfter(list[i], 0)
      BY <1>4, <2>4 DEF NoOpinion, ScheduleResult
    <3>2. r.nextDeadline = {d}
      BY <3>1 DEF ScheduleResult
    <3>3. maxDuration({d}, {after}) = {IF d >= after THEN d ELSE after}
      BY <2>1, MaxDuration
    <3>4. result = ScheduleResult({"Open"}, {IF d >= after THEN d ELSE after}, FALSE)
      BY <2>2, <2>4, <3>2, <3>3 DEF openFor
    <3>5. i \in 1 .. k + 1
      OBVIOUS
    <3> HIDE DEF result
    <3>6. CASE d >= after
      BY <1>1, <3>1, <3>4, <3>5, <3>6, FindsOpen
    <3>7. CASE ~(d >= after)
      BY <1>1, <2>1, <3>4, <3>7, FindsOpen DEF s
    <3> QED
      BY <3>6, <3>7
  <2> QED
    BY <2>3, <2>4
<1>6. ASSUME ~OpenAt(s, 0) PROVE Finds(list, k + 1, result)
  <2> DEFINE after == OpenAfter(s, 0)
  <2>1. after \in Nat \ {0}
    BY <1>1, <1>2, <1>3 DEF OpenAfter
  <2>2. result = closedFor(r, after)
    BY <1>1, <1>2, <1>3, <1>6 DEF OneSchedule, OpenAt, OpenAfter
  <2> HIDE DEF after, s, pos
  <2>3. CASE "Open" \in r.targetState
    <3>1. PICK d \in Nat \ {0}, i \in 1 .. k :
            r = ScheduleResult({"Open"}, {d}, FALSE) /\ OpenAt(list[i], 0) /\ d = CloseAfter(list[i], 0)
      BY <1>4, <2>3 DEF NoOpinion, ScheduleResult
    <3>2. result = r /\ i \in 1 .. k + 1
      BY <2>2, <2>3 DEF closedFor
    <3> HIDE DEF result
    <3> QED
      BY <1>1, <3>1, <3>2, FindsOpen
  <2>4. CASE k = 0 /\ r = NoOpinion
    <3>1. result = ScheduleResult({"Closed"}, minDuration({}, {after}), FALSE)
      BY <2>2, <2>4 DEF closedFor, NoOpinion, ScheduleResult
    <3>2. minDuration({}, {after}) = {after}
      BY <2>1, MinDuration DEF IsOptional
    <3>3. \A i \in 1 .. k + 1 : list[i] = s
      BY <2>4 DEF s
    <3>4. \A i \in 1 .. k + 1 : ~OpenAt(list[i], 0) /\ after <= OpenAfter(list[i], 0)
      BY <1>6, <2>1, <3>3 DEF after
    <3> HIDE DEF result
    <3> QED
      BY <1>1, <2>1, <3>1, <3>2, <3>4, FindsClosed
  <2>5. CASE k > 0 /\ ~("Open" \in r.targetState)
    <3>1. PICK d \in Nat \ {0} :
            /\ r = ScheduleResult({"Closed"}, {d}, FALSE)
            /\ \A i \in 1 .. k : ~OpenAt(list[i], 0) /\ d <= OpenAfter(list[i], 0)
      BY <1>4, <2>5 DEF ScheduleResult
    <3>2. result = ScheduleResult({"Closed"}, minDuration({d}, {after}), FALSE)
      BY <2>2, <2>5, <3>1 DEF closedFor, ScheduleResult
    <3>3. PICK e \in {d, after} : minDuration({d}, {after}) = {e} /\ e <= d /\ e <= after
      <4>1. IsOptional({d}, Nat) /\ IsOptional({after}, Nat)
        BY <2>1 DEF IsOptional
      <4> QED
        BY <4>1, MinDuration DEF IsOptional
    <3>4. \A i \in 1 .. k + 1 : ~OpenAt(list[i], 0) /\ e <= OpenAfter(list[i], 0)
      <4> SUFFICES ASSUME NEW i \in 1 .. k + 1 PROVE ~OpenAt(list[i], 0) /\ e <= OpenAfter(list[i], 0)
        OBVIOUS
      <4>1. CASE i = k + 1
        BY <1>6, <3>3, <4>1 DEF after, s
      <4>2. CASE i # k + 1
        <5>1. i \in 1 .. k
          BY <4>2
        <5>2. ~OpenAt(list[i], 0) /\ d <= OpenAfter(list[i], 0)
          BY <3>1, <5>1
        <5> QED
          BY <2>1, <3>3, <5>2, ScheduleType
      <4> QED
        BY <4>1, <4>2
    <3> HIDE DEF result
    <3> QED
      BY <1>1, <2>1, <3>2, <3>3, <3>4, FindsClosed
  <2> QED
    BY <1>4, <2>3, <2>4, <2>5
<1> QED
  BY <1>5, <1>6 DEF OpenAt

\* What the scheduler says is right when it looks, and stays so until the deadline it gives.
LEMMA SchedulesSay ==
  ASSUME NEW list \in Seq(TimeBasedSchedule)
  PROVE  Finds(list, Len(list), getStateUpdate(list))
<1> DEFINE n == Len(list)
<1>1. n \in Nat /\ DOMAIN list = 1 .. n
  OBVIOUS
<1>2. PICK g : g = FoldBody(list, n, g) /\ getStateUpdate(list) = g[1 .. n]
  BY <1>1, FoldUnfolds
<1>3. g[{}] = NoOpinion
  BY <1>2 DEF FoldBody
<1>4. ASSUME NEW k \in Nat, k < n PROVE g[1 .. k + 1] = OneSchedule(g[1 .. k], list[k + 1])
  <2>1. Max(1 .. k + 1) = k + 1 /\ (1 .. k + 1) \ {k + 1} = 1 .. k
    BY MaxInterval
  <2> HIDE DEF n
  <2>2. 1 .. k + 1 \in SUBSET (1 .. n) /\ 1 .. k + 1 # {}
    <3>1. \A i \in 1 .. k + 1 : i \in 1 .. n
      BY <1>1, <1>4
    <3>2. 1 \in 1 .. k + 1
      OBVIOUS
    <3> QED
      BY <3>1, <3>2
  <2>3. g[1 .. k + 1] = IF 1 .. k + 1 = {} THEN NoOpinion
                        ELSE OneSchedule(g[(1 .. k + 1) \ {Max(1 .. k + 1)}], list[Max(1 .. k + 1)])
    BY <1>2, <2>2 DEF FoldBody
  <2> QED
    BY <2>1, <2>2, <2>3
<1> DEFINE T == {k \in Nat : k <= n => Finds(list, k, g[1 .. k])}
<1>5. 0 \in T
  <2>1. 1 .. 0 = {}
    OBVIOUS
  <2>2. Finds(list, 0, NoOpinion)
    BY DEF Finds, NoOpinion, ScheduleResult
  <2> QED
    BY <1>3, <2>1, <2>2
<1>6. ASSUME NEW k \in T PROVE k + 1 \in T
  <2>1. k \in Nat /\ k + 1 \in Nat
    OBVIOUS
  <2>2. ASSUME k + 1 <= n PROVE Finds(list, k + 1, g[1 .. k + 1])
    <3>1. k < n /\ k <= n /\ k + 1 \in DOMAIN list
      BY <1>1, <2>1, <2>2
    <3>2. Finds(list, k, g[1 .. k]) /\ \A i \in 1 .. k + 1 : list[i] \in TimeBasedSchedule
      BY <1>1, <3>1
    <3> HIDE DEF T, n
    <3> QED
      BY <1>4, <2>1, <3>1, <3>2, OneMore
  <2> QED
    BY <2>1, <2>2
<1>7. T = Nat
  <2>1. T \subseteq Nat
    OBVIOUS
  <2> HIDE DEF T
  <2> QED
    BY <1>5, <1>6, <2>1, AllNumbers
<1> QED
  BY <1>1, <1>2, <1>7

-----------------------------------------------------------------------------
(* What schedules say as time goes on.                                     *)

LEMMA ScheduleLater ==
  ASSUME NEW s \in TimeBasedSchedule, Bounded(s)
  PROVE  /\ Later(s) \in TimeBasedSchedule /\ Bounded(Later(s))
         /\ Later(s).period = s.period /\ Later(s).duration = s.duration
         /\ Later(s).offset = IF s.offset + 1 = 2 * s.period THEN s.period ELSE s.offset + 1
<1>1. s.offset \in Int /\ s.period \in Nat \ {0} /\ s.duration \in Nat
  BY DEF TimeBasedSchedule
<1>2. Later(s).period = s.period /\ Later(s).duration = s.duration
  BY DEF Later, TimeBasedSchedule
<1>3. Later(s).offset = IF s.offset + 1 = 2 * s.period THEN s.period ELSE s.offset + 1
  BY DEF Later, TimeBasedSchedule
<1>4. Later(s).offset \in Int
  BY <1>1, <1>3
<1>5. Later(s) \in TimeBasedSchedule
  BY <1>1, <1>4 DEF Later, TimeBasedSchedule
<1>6. Later(s).offset < 2 * s.period
  BY <1>1, <1>3 DEF Bounded
<1> QED
  BY <1>2, <1>3, <1>5, <1>6 DEF Bounded

\* While the peripheral moves, the time the loop looked at does not go on.
LEMMA LaterWhileMoving ==
  ASSUME NEW s \in TimeBasedSchedule, Bounded(s), NEW late \in Nat, late + 1 <= MaxLag
  PROVE  /\ OpenAt(Later(s), late + 1) <=> OpenAt(s, late)
         /\ CloseAfter(Later(s), late + 1) = CloseAfter(s, late)
         /\ OpenAfter(Later(s), late + 1) = OpenAfter(s, late)
<1> DEFINE l == Later(s)
<1>1. /\ s.offset \in Int /\ s.period \in Nat \ {0} /\ s.duration \in Nat
      /\ l.offset \in Int /\ l.period = s.period /\ l.duration = s.duration
      /\ l.offset = IF s.offset + 1 = 2 * s.period THEN s.period ELSE s.offset + 1
  BY ScheduleLater DEF TimeBasedSchedule
<1>2. MaxLag \in Nat /\ MaxLag <= s.period
  BY LoopAssumption DEF Bounded
<1> HIDE DEF l
<1>3. CASE s.offset + 1 # 2 * s.period
  <2>1. l.offset - (late + 1) = s.offset - late
    BY <1>1, <1>3
  <2>2. Position(l, late + 1) = Position(s, late) /\ (Started(l, late + 1) <=> Started(s, late))
    BY <1>1, <2>1 DEF Position, Started
  <2>3. late + 1 - l.offset = late - s.offset
    BY <1>1, <1>3
  <2> QED
    BY <1>1, <2>2, <2>3 DEF OpenAt, CloseAfter, OpenAfter, l
<1>4. CASE s.offset + 1 = 2 * s.period
  <2> DEFINE x == s.offset - late
  <2>1. x \in Nat /\ l.offset - (late + 1) = x - s.period /\ x - s.period >= 0
    BY <1>1, <1>2, <1>4
  <2>2. Started(l, late + 1) /\ Started(s, late)
    BY <2>1 DEF Started
  <2>3. (x - s.period) % s.period = x % s.period
    <3> HIDE DEF x
    <3> QED
      BY <1>1, <2>1, ModWrap
  <2>4. Position(l, late + 1) = Position(s, late)
    BY <1>1, <2>1, <2>3 DEF Position
  <2> QED
    BY <1>1, <2>2, <2>4 DEF OpenAt, CloseAfter, OpenAfter, l
<1> QED
  BY <1>3, <1>4

\* While the loop sleeps, it does: until the end of its position in the period, a schedule says the same.
LEMMA LaterWhileWaiting ==
  ASSUME NEW s \in TimeBasedSchedule, Bounded(s), NEW late \in 0 .. MaxLag, NEW w \in Nat, w > 0
  PROVE  /\ OpenAt(s, late) /\ w + 1 <= CloseAfter(s, late) =>
              OpenAt(Later(s), late) /\ w <= CloseAfter(Later(s), late)
         /\ ~OpenAt(s, late) /\ w + 1 <= OpenAfter(s, late) =>
              ~OpenAt(Later(s), late) /\ w <= OpenAfter(Later(s), late)
<1> DEFINE l == Later(s)
           x == s.offset - late
           pos == Position(s, late)
           next == Position(l, late)
<1>1. /\ s.offset \in Int /\ s.period \in Nat \ {0} /\ s.duration \in Nat
      /\ l.offset \in Int /\ l.period = s.period /\ l.duration = s.duration
      /\ l.offset = IF s.offset + 1 = 2 * s.period THEN s.period ELSE s.offset + 1
  BY ScheduleLater DEF TimeBasedSchedule
<1>2. late \in Nat /\ late <= s.period /\ x \in Int
  BY <1>1, LoopAssumption DEF Bounded
<1>3. pos \in 0 .. s.period - 1 /\ next \in 0 .. s.period - 1
  BY <1>1, <1>2, ScheduleLater, ScheduleType
<1>4. pos = x % s.period
  BY DEF Position
<1>5. ASSUME x \in Nat
      PROVE  Started(l, late) /\ next = IF pos + 1 = s.period THEN 0 ELSE pos + 1
  <2>1. (x + 1) % s.period = IF pos + 1 = s.period THEN 0 ELSE pos + 1
    <3> HIDE DEF x, pos
    <3> QED
      BY <1>1, <1>4, <1>5, ModNext
  <2>2. CASE s.offset + 1 # 2 * s.period
    <3>1. l.offset - late = x + 1
      BY <1>1, <1>2, <2>2
    <3>2. next = (x + 1) % s.period
      BY <1>1, <3>1 DEF Position
    <3> HIDE DEF x, next, pos, l
    <3> QED
      BY <1>5, <2>1, <3>1, <3>2 DEF Started
  <2>3. CASE s.offset + 1 = 2 * s.period
    <3>1. l.offset - late = (x + 1) - s.period /\ l.offset - late >= 0
      BY <1>1, <1>2, <2>3
    <3>2. next = ((x + 1) - s.period) % s.period
      BY <1>1, <3>1 DEF Position
    <3>3. ((x + 1) - s.period) % s.period = (x + 1) % s.period
      <4> DEFINE y == x + 1
      <4>1. y \in Nat
        BY <1>5
      <4> HIDE DEF y
      <4>2. (y - s.period) % s.period = y % s.period
        BY <1>1, <4>1, ModWrap
      <4> QED
        BY <4>2 DEF y
    <3> HIDE DEF x, next, pos, l
    <3> QED
      BY <2>1, <3>1, <3>2, <3>3 DEF Started
  <2> QED
    BY <2>2, <2>3
<1>6. ASSUME x \notin Nat
      PROVE  /\ ~Started(s, late) /\ OpenAfter(s, late) = -x
             /\ x < -1 => ~Started(l, late) /\ OpenAfter(l, late) = -x - 1
  <2>1. x < 0 /\ ~Started(s, late) /\ late - s.offset = -x
    BY <1>1, <1>2, <1>6 DEF Started
  <2>2. s.offset < s.period
    BY <1>1, <1>2, <2>1
  <2>3. l.offset - late = x + 1 /\ late - l.offset = -x - 1
    BY <1>1, <1>2, <2>2
  <2> HIDE DEF l
  <2> QED
    BY <1>1, <1>2, <2>1, <2>3 DEF Started, OpenAfter
<1>7. CASE x \in Nat
  <2>1. Started(s, late)
    BY <1>7 DEF Started
  <2> HIDE DEF x, l
  <2>2. /\ CloseAfter(s, late) = s.duration - pos /\ CloseAfter(l, late) = s.duration - next
        /\ OpenAfter(s, late) = s.period - pos /\ OpenAfter(l, late) = s.period - next
        /\ OpenAt(s, late) <=> pos < s.duration
        /\ OpenAt(l, late) <=> next < s.duration
    BY <1>1, <1>5, <1>7, <2>1 DEF CloseAfter, OpenAfter, OpenAt
  <2> HIDE DEF pos, next
  <2>3. next = IF pos + 1 = s.period THEN 0 ELSE pos + 1
    BY <1>5, <1>7
  <2> QED
    BY <1>1, <1>3, <2>2, <2>3 DEF l
<1>8. CASE x \notin Nat
  <2> HIDE DEF x, l
  <2>1. ~OpenAt(s, late)
    BY <1>6, <1>8 DEF OpenAt
  <2>2. ASSUME w + 1 <= OpenAfter(s, late) PROVE ~OpenAt(l, late) /\ w <= OpenAfter(l, late)
    <3>1. x < -1
      BY <1>2, <1>6, <1>8, <2>2
    <3> QED
      BY <1>2, <1>6, <1>8, <2>2, <3>1 DEF OpenAt
  <2> QED
    BY <2>1, <2>2 DEF l
<1> QED
  BY <1>7, <1>8

-----------------------------------------------------------------------------
(* What the schedulers say.                                                *)

ResultTypeOK(result) ==
  /\ IsOptional(result.targetState, States)
  /\ IsOptional(result.nextDeadline, Nat)
  /\ result.shouldPublishTelemetry \in BOOLEAN

LEMMA ResultFields ==
  ASSUME NEW target, NEW deadline, NEW publish
  PROVE  LET result == ScheduleResult(target, deadline, publish) IN
         /\ result.targetState = target /\ result.nextDeadline = deadline
         /\ result.shouldPublishTelemetry = publish
  BY DEF ScheduleResult

LEMMA OrClosedSays ==
  ASSUME NEW result, IsOptional(result.targetState, States)
  PROVE  /\ OrClosed(result) \in States
         /\ result.targetState = {} => OrClosed(result) = "Closed"
         /\ \A s : result.targetState = {s} => OrClosed(result) = s
  BY DEF OrClosed, IsOptional, States

LEMMA OverrideSays ==
  ASSUME NEW o, IsOptional(o, Override)
  PROVE  /\ IsOptional(OverrideKept(o), Override)
         /\ ResultTypeOK(OverrideTick(o))
         /\ OverrideKept(o) # {} =>
              \E x \in Override : /\ OverrideKept(o) = {x} /\ x.left > 0
                                  /\ OverrideTick(o) = ScheduleResult({x.state}, {x.left}, FALSE)
         /\ OverrideKept(o) = {} => OverrideTick(o).targetState = {} /\ OverrideTick(o).nextDeadline = {}
<1>1. CASE o = {}
  BY <1>1 DEF OverrideKept, OverrideTick, NoOpinion, ScheduleResult, ResultTypeOK, IsOptional
<1>2. CASE o # {}
  <2>1. PICK x \in Override : o = {x}
    BY <1>2 DEF IsOptional
  <2>2. (CHOOSE y \in o : TRUE) = x
    BY <2>1
  <2>3. x.state \in States /\ x.left \in Nat
    BY DEF Override
  <2>4. CASE x.left <= 0
    <3>1. OverrideKept(o) = {}
      BY <2>1, <2>3, <2>4 DEF OverrideKept
    <3>2. OverrideTick(o) = ScheduleResult({}, {}, TRUE)
      BY <1>2, <2>2, <2>4 DEF OverrideTick
    <3> QED
      BY <3>1, <3>2 DEF ScheduleResult, ResultTypeOK, IsOptional
  <2>5. CASE x.left > 0
    <3>1. OverrideKept(o) = {x}
      BY <2>1, <2>3, <2>5 DEF OverrideKept
    <3>2. OverrideTick(o) = ScheduleResult({x.state}, {x.left}, FALSE)
      <4>1. ~(x.left <= 0)
        BY <2>3, <2>5
      <4> QED
        BY <1>2, <2>1, <2>2, <4>1, Zenon DEF OverrideTick
    <3>3. ResultTypeOK(OverrideTick(o))
      <4>1. IsOptional({x.state}, States) /\ IsOptional({x.left}, Nat)
        BY <2>3 DEF IsOptional
      <4> QED
        BY <3>2, <4>1 DEF ResultTypeOK, ScheduleResult
    <3>4. IsOptional(OverrideKept(o), Override) /\ OverrideKept(o) # {}
      BY <3>1 DEF IsOptional
    <3> QED
      BY <2>5, <3>1, <3>2, <3>3, <3>4
  <2>6. x.left <= 0 \/ x.left > 0
    BY <2>3
  <2> QED
    BY <2>4, <2>5, <2>6
<1> QED
  BY <1>1, <1>2

\* Nobody before a scheduler had an opinion, or a deadline.
LEMMA MergeSecond ==
  ASSUME NEW a, NEW b, a.targetState = {}, a.nextDeadline = {}, IsOptional(b.nextDeadline, Nat)
  PROVE  /\ merge(a, b).targetState = b.targetState
         /\ merge(a, b).nextDeadline = b.nextDeadline
         /\ merge(a, b).shouldPublishTelemetry = (a.shouldPublishTelemetry \/ b.shouldPublishTelemetry)
<1>1. minDuration({}, b.nextDeadline) = b.nextDeadline
  BY MinDuration DEF IsOptional
<1> QED
  BY <1>1 DEF merge, ScheduleResult

\* What the time based scheduler says, in the terms of the invariant.
LEMMA SchedulesResult ==
  ASSUME NEW list \in Seq(TimeBasedSchedule)
  PROVE  LET result == getStateUpdate(list) IN
         /\ ResultTypeOK(result)
         /\ list = <<>> => result.targetState = {} /\ result.nextDeadline = {}
         /\ list # <<>> =>
              /\ result.targetState # {} /\ result.nextDeadline # {}
              /\ \A w \in result.nextDeadline : Stays(result.targetState, list, 0, w)
<1> DEFINE r == getStateUpdate(list)
           n == Len(list)
<1>1. n \in Nat /\ DOMAIN list = 1 .. n /\ (list = <<>> <=> n = 0)
  OBVIOUS
<1>2. Finds(list, n, r)
  BY SchedulesSay
<1> HIDE DEF n, r
<1>3. r = ScheduleResult(r.targetState, r.nextDeadline, FALSE)
  BY <1>2 DEF Finds
<1>4. r.shouldPublishTelemetry = FALSE
  BY <1>3 DEF ScheduleResult
<1>5. CASE n = 0
  <2>1. r = NoOpinion
    BY <1>2, <1>5 DEF Finds
  <2>2. r.targetState = {} /\ r.nextDeadline = {} /\ ResultTypeOK(r)
    BY <2>1 DEF NoOpinion, ScheduleResult, ResultTypeOK, IsOptional
  <2> QED
    BY <1>1, <1>5, <2>2 DEF r
<1>6. CASE n # 0
  <2>1. PICK d \in Nat \ {0} :
          /\ r.nextDeadline = {d}
          /\ \/ r.targetState = {"Open"} /\ \E i \in 1 .. n : OpenAt(list[i], 0) /\ d = CloseAfter(list[i], 0)
             \/ r.targetState = {"Closed"} /\ \A i \in 1 .. n : ~OpenAt(list[i], 0) /\ d <= OpenAfter(list[i], 0)
    <3>1. n > 0
      BY <1>1, <1>6
    <3> QED
      BY <1>2, <3>1 DEF Finds
  <2>2. Stays(r.targetState, list, 0, d)
    BY <1>1, <2>1 DEF Stays, StaysOpen, StaysClosed
  <2>3. ResultTypeOK(r)
    BY <1>4, <2>1 DEF ResultTypeOK, IsOptional, States
  <2> QED
    BY <1>1, <1>6, <2>1, <2>2, <2>3 DEF r
<1> QED
  BY <1>5, <1>6

\* A pulse keeps its type, grows by no more water than the meter hands out, and one that is followed
\* has just begun or is not over its time.
LEMMA MoistureSays ==
  ASSUME NEW p \in Pulses(MaxWater), NEW reading \in Readings, NEW slope \in Slopes,
         NEW water \in Nat, p.delivered + water <= MaxWater,
         NEW q \in MoistureNext(p, reading, slope, water)
  PROVE  /\ q \in Pulses(MaxWater)
         /\ q.delivered <= IF TakesVolume(p, reading) THEN p.delivered + water ELSE p.delivered
         /\ q.state = "Watering" /\ q.sound =>
              /\ reading # "nan"
              /\ \/ q.sinceStart = 0
                 \/ /\ p.state = "Watering" /\ p.sound
                    /\ q.sinceStart = p.sinceStart /\ q.sinceStart < ValveTimeout
<1>1. /\ MaxVolume \in Nat /\ ValveTimeout \in Nat /\ DeadTime \in Nat /\ Tau \in Nat
      /\ MaxTotalVolume \in Nat /\ MaxWater \in Nat
  BY MoistureAssumption, WaterAssumption
<1>2. /\ p.state \in {"Idle", "Watering", "Soak", "UpdateModel", "Fault"}
      /\ p.delivered \in Nat /\ p.sinceStart \in Nat /\ p.sinceEnd \in Nat /\ p.total \in Nat
      /\ p.planned \in Nat /\ p.sawRise \in BOOLEAN /\ p.sound \in BOOLEAN
  BY <1>1 DEF Pulses
<1>3. 0 \in 0 .. MaxWater /\ 0 \in 0 .. ValveTimeout + 1 /\ 0 \in 0 .. Tau + 1
  BY <1>1
<1>4. CASE reading = "nan"
  <2>1. PICK b \in BOOLEAN : q = [p EXCEPT !.sound = b] /\ (b => p.state # "Watering")
    BY <1>2, <1>4 DEF MoistureNext
  <2>2. q \in Pulses(MaxWater) /\ q.delivered = p.delivered /\ q.state = p.state /\ q.sound = b
    BY <2>1 DEF Pulses
  <2> QED
    BY <1>2, <1>4, <2>1, <2>2 DEF TakesVolume
<1>5. CASE reading # "nan" /\ p.state = "Idle"
  <2>1. q \in decideOrStartWatering(p, reading) /\ ~TakesVolume(p, reading)
    BY <1>5 DEF MoistureNext, TakesVolume
  <2>2. CASE q = p
    BY <1>2, <1>5, <2>1, <2>2
  <2>3. CASE q = [p EXCEPT !.state = "Fault"]
    <3>1. q \in Pulses(MaxWater) /\ q.delivered = p.delivered /\ q.state = "Fault"
      BY <2>3 DEF Pulses
    <3> QED
      BY <1>2, <2>1, <3>1
  <2>4. ASSUME NEW v \in 1 .. MaxVolume,
               q = [p EXCEPT !.state = "Watering", !.planned = v, !.delivered = 0, !.sinceStart = 0, !.sound = TRUE]
        PROVE  q \in Pulses(MaxWater) /\ q.delivered = 0 /\ q.sinceStart = 0
    <3>1. v \in 0 .. MaxVolume
      BY <1>1
    <3> QED
      BY <1>3, <2>4, <3>1 DEF Pulses
  <2>5. q = p \/ q = [p EXCEPT !.state = "Fault"]
        \/ \E v \in 1 .. MaxVolume :
             q = [p EXCEPT !.state = "Watering", !.planned = v, !.delivered = 0, !.sinceStart = 0, !.sound = TRUE]
    BY <2>1 DEF decideOrStartWatering
  <2>6. CASE q # p /\ q # [p EXCEPT !.state = "Fault"]
    <3>1. q \in Pulses(MaxWater) /\ q.delivered = 0 /\ q.sinceStart = 0
      BY <2>4, <2>5, <2>6
    <3> QED
      BY <1>2, <1>5, <2>1, <3>1
  <2> QED
    BY <2>2, <2>3, <2>6
<1>6. CASE reading # "nan" /\ p.state = "Watering"
  <2> DEFINE delivered == p.delivered + water
             total == Min({MaxTotalVolume, p.total + delivered})
  <2>1. q = continueWatering(p, water) /\ TakesVolume(p, reading)
    BY <1>6 DEF MoistureNext, TakesVolume
  <2>2. delivered \in 0 .. MaxWater /\ delivered \in Nat
    BY <1>1, <1>2
  <2>3. total \in 0 .. MaxTotalVolume
    <3>1. p.total + delivered \in Nat
      BY <1>2, <2>2
    <3> HIDE DEF delivered
    <3> QED
      BY <1>1, <3>1, MinPair
  <2>4. CASE delivered >= p.planned \/ p.sinceStart >= ValveTimeout
    <3>1. q = [p EXCEPT !.delivered = delivered, !.state = "Soak", !.sinceEnd = 0, !.sawRise = FALSE, !.total = total]
      BY <2>1, <2>4 DEF continueWatering, Pulses
    <3> HIDE DEF delivered, total
    <3>2. q \in Pulses(MaxWater) /\ q.delivered = delivered /\ q.state = "Soak"
      BY <1>3, <2>2, <2>3, <3>1 DEF Pulses
    <3> QED
      BY <2>1, <2>2, <3>2 DEF delivered
  <2>5. CASE ~(delivered >= p.planned \/ p.sinceStart >= ValveTimeout)
    <3>1. q = [p EXCEPT !.delivered = delivered]
      BY <2>1, <2>5 DEF continueWatering
    <3> HIDE DEF delivered, total
    <3>2. q \in Pulses(MaxWater) /\ q.delivered = delivered /\ q.sinceStart = p.sinceStart /\ q.sound = p.sound
      BY <2>2, <3>1 DEF Pulses
    <3>3. p.sinceStart < ValveTimeout
      BY <1>1, <1>2, <2>5
    <3> QED
      BY <1>6, <2>1, <2>2, <3>2, <3>3 DEF delivered
  <2> QED
    BY <2>4, <2>5
<1>7. CASE reading # "nan" /\ p.state = "Soak"
  <2>1. q = soak(p, slope) /\ ~TakesVolume(p, reading)
    BY <1>7 DEF MoistureNext, TakesVolume
  <2>2. q = p \/ \E rise \in BOOLEAN, state \in {"Soak", "UpdateModel"} : q = [p EXCEPT !.sawRise = rise, !.state = state]
    BY <1>2, <2>1 DEF soak
  <2>3. CASE q = p
    BY <1>2, <1>7, <2>1, <2>3
  <2>4. ASSUME NEW rise \in BOOLEAN, NEW state \in {"Soak", "UpdateModel"}, q = [p EXCEPT !.sawRise = rise, !.state = state]
        PROVE  q \in Pulses(MaxWater) /\ q.delivered = p.delivered /\ q.state # "Watering"
    BY <2>4 DEF Pulses
  <2>5. CASE q # p
    <3>1. q \in Pulses(MaxWater) /\ q.delivered = p.delivered /\ q.state # "Watering"
      BY <2>2, <2>4, <2>5
    <3> QED
      BY <1>2, <2>1, <3>1
  <2> QED
    BY <2>3, <2>5
<1>8. CASE reading # "nan" /\ p.state = "UpdateModel"
  <2>1. q = updateModel(p) /\ ~TakesVolume(p, reading)
    BY <1>8 DEF MoistureNext, TakesVolume
  <2>2. PICK state \in {"Fault", "Idle"} : q = [p EXCEPT !.state = state]
    BY <2>1 DEF updateModel
  <2>3. q \in Pulses(MaxWater) /\ q.delivered = p.delivered /\ q.state # "Watering"
    BY <2>2 DEF Pulses
  <2> QED
    BY <1>2, <2>1, <2>3
<1>9. CASE reading # "nan" /\ p.state = "Fault"
  <2>1. q = p /\ ~TakesVolume(p, reading)
    BY <1>9 DEF MoistureNext, TakesVolume
  <2> QED
    BY <1>2, <1>9, <2>1
<1> QED
  BY <1>2, <1>4, <1>5, <1>6, <1>7, <1>8, <1>9

-----------------------------------------------------------------------------
(* What a step leaves alone.                                               *)

LEMMA MeterFrame ==
  ASSUME MeterInv, UNCHANGED meterVars, pulse'.delivered = pulse.delivered
  PROVE  MeterInv'
  BY DEF MeterInv, MeterTypeOK, Conserved, meterVars

LEMMA PlotFrame ==
  ASSUME PlotTypeOK, UNCHANGED plotVars
  PROVE  PlotTypeOK'
  BY DEF PlotTypeOK, plotVars

LEMMA ChickenFrame ==
  ASSUME ChickenTypeOK, UNCHANGED chickenVars
  PROVE  ChickenTypeOK'
  BY DEF ChickenTypeOK, chickenVars

LEMMA ValveFrame ==
  ASSUME ValveTypeOK, ValveInv, UNCHANGED valveVars
  PROVE  ValveTypeOK' /\ ValveInv'
  BY DEF ValveTypeOK, ValveInv, TimersFit, IsDriving, StepKnown, valveVars

-----------------------------------------------------------------------------
(* The loop.                                                               *)

LEMMA EvaluateSays ==
  ASSUME LoopTypeOK, NEW result, ResultTypeOK(result), Evaluate(result), IsOptional(override', Override)
  PROVE  /\ LoopTypeOK'
         /\ phase = "evaluate" /\ phase' \in {"moving", "waiting"}
         /\ phase' = "moving" <=> asked # asked'
         /\ lag' = 0 /\ asked' = {OrClosed(result)} /\ wait' = result.nextDeadline
         /\ configQueue' = configQueue
<1>1. OrClosed(result) \in States /\ IsOptional(result.nextDeadline, Nat)
  BY OrClosedSays DEF ResultTypeOK
<1>2. /\ phase = "evaluate" /\ phase' \in {"moving", "waiting"}
      /\ phase' = "moving" <=> asked # asked'
      /\ lag' = 0 /\ asked' = {OrClosed(result)} /\ wait' = result.nextDeadline
      /\ configQueue' = configQueue /\ changes' = changes /\ toPublish' = FALSE
  BY DEF Evaluate
<1>3. requests' \in BOOLEAN
  BY DEF Evaluate, LoopTypeOK, ResultTypeOK
<1>4. IsOptional(asked', States) /\ IsOptional(wait', Nat)
  BY <1>1, <1>2 DEF IsOptional
<1>5. lag' \in 0 .. MaxLag
  BY <1>2, LoopAssumption
<1> QED
  BY <1>2, <1>3, <1>4, <1>5 DEF LoopTypeOK

LEMMA ArriveSays ==
  ASSUME LoopTypeOK, OverrideObeyed, Arrive \/ DeadlinePasses
  PROVE  /\ LoopTypeOK' /\ OverrideObeyed'
         /\ UNCHANGED <<wait, lag, asked, configQueue, override>>
         /\ \/ phase = "moving" /\ phase' = "waiting"
            \/ phase = "waiting" /\ phase' = "evaluate" /\ wait = {0}
<1>1. /\ UNCHANGED <<wait, lag, asked, toPublish, requests, configQueue, override, changes>>
      /\ \/ phase = "moving" /\ phase' = "waiting"
         \/ phase = "waiting" /\ phase' = "evaluate" /\ wait = {0}
  BY DEF Arrive, DeadlinePasses
<1>2. LoopTypeOK'
  BY <1>1 DEF LoopTypeOK
<1>3. OverrideObeyed'
  BY <1>1 DEF OverrideObeyed
<1> QED
  BY <1>1, <1>2, <1>3

LEMMA SendSays ==
  ASSUME LoopTypeOK, OverrideObeyed, NEW c, Send(c)
  PROVE  /\ LoopTypeOK' /\ OverrideObeyed' /\ configQueue' = <<c>>
         /\ UNCHANGED <<phase, wait, lag, asked, override>>
<1>1. UNCHANGED <<phase, wait, lag, asked, toPublish, requests, override>>
  BY DEF Send
<1>2. configQueue' = <<c>> /\ changes' \in 0 .. MaxChanges
  BY LoopAssumption DEF Send, LoopTypeOK
<1>3. LoopTypeOK'
  BY <1>1, <1>2 DEF LoopTypeOK
<1>4. OverrideObeyed'
  BY <1>1 DEF OverrideObeyed
<1> QED
  BY <1>1, <1>2, <1>3, <1>4

LEMMA TakeRequestSays ==
  ASSUME LoopTypeOK, OverrideObeyed, TakeRequest
  PROVE  /\ LoopTypeOK' /\ OverrideObeyed'
         /\ UNCHANGED <<phase, wait, lag, asked, configQueue, override>>
  BY DEF LoopTypeOK, OverrideObeyed, TakeRequest

\* The configuration that is taken is one of "configs".
LEMMA TakeConfigSays ==
  ASSUME LoopTypeOK, NEW configs, configQueue \in Seq(configs), TakeConfig,
         \A c \in configs : c.override \in Overrides
  PROVE  /\ LoopTypeOK' /\ OverrideObeyed'
         /\ Head(configQueue) \in configs /\ phase = "waiting" /\ phase' = "evaluate"
         /\ configQueue' = <<>> /\ UNCHANGED asked
<1>1. /\ phase = "waiting" /\ phase' = "evaluate" /\ configQueue # <<>> /\ configQueue' = <<>>
      /\ toPublish' = TRUE /\ override' = Head(configQueue).override
      /\ UNCHANGED <<wait, lag, asked, requests, changes>>
  BY DEF TakeConfig
<1>2. Head(configQueue) \in configs
  BY <1>1
<1>3. IsOptional(override', Override)
  BY <1>1, <1>2, LoopAssumption
<1>4. LoopTypeOK'
  BY <1>1, <1>3 DEF LoopTypeOK
<1>5. OverrideObeyed'
  BY <1>1 DEF OverrideObeyed
<1> QED
  BY <1>1, <1>2, <1>4, <1>5

\* Time passes while the peripheral moves, or while the loop waits for a deadline that is still to come.
LEMMA LoopElapsesSays ==
  ASSUME LoopTypeOK, OverrideObeyed, LoopElapses
  PROVE  /\ LoopTypeOK' /\ OverrideObeyed'
         /\ UNCHANGED <<phase, asked, configQueue>>
         /\ override' = {} <=> override = {}
         /\ \/ phase = "moving" /\ lag < MaxLag /\ lag' = lag + 1 /\ wait' = wait
            \/ /\ phase = "waiting" /\ lag' = lag /\ wait' = {n - 1 : n \in wait}
               /\ \A n \in wait : n \in Nat \ {0}
<1>1. UNCHANGED <<phase, asked, toPublish, requests, configQueue, changes>>
  BY DEF LoopElapses
<1>2. \/ phase = "moving" /\ lag < MaxLag /\ lag' = lag + 1 /\ wait' = wait
      \/ phase = "waiting" /\ wait # {0} /\ lag' = lag /\ wait' = {n - 1 : n \in wait}
  BY DEF LoopElapses
<1>3. ASSUME wait # {0} PROVE \A n \in wait : n \in Nat \ {0}
  BY <1>3 DEF LoopTypeOK, IsOptional
<1>4. lag' \in 0 .. MaxLag /\ lag \in Nat
  BY <1>2, LoopAssumption DEF LoopTypeOK
<1>5. IsOptional(wait', Nat)
  <2>1. CASE wait' = wait
    BY <2>1 DEF LoopTypeOK
  <2>2. CASE wait # {0} /\ wait' = {n - 1 : n \in wait}
    BY <1>3, <2>2 DEF LoopTypeOK, IsOptional
  <2> QED
    BY <1>2, <2>1, <2>2
<1>6. override = {} \/ \E o \in Override : override = {o}
  BY DEF LoopTypeOK, IsOptional
<1>7. CASE override = {}
  <2>1. override' = {}
    BY <1>7 DEF LoopElapses
  <2>2. LoopTypeOK'
    BY <1>1, <1>4, <1>5, <2>1 DEF LoopTypeOK, IsOptional
  <2>3. OverrideObeyed'
    BY <2>1 DEF OverrideObeyed
  <2> QED
    BY <1>1, <1>2, <1>3, <1>7, <2>1, <2>2, <2>3
<1>8. ASSUME NEW o \in Override, override = {o}
      PROVE  LoopTypeOK' /\ OverrideObeyed' /\ override' # {}
  <2> DEFINE left == IF o.left = 0 THEN 0 ELSE o.left - 1
             later == [o EXCEPT !.left = left]
  <2>1. o.left \in Nat
    BY DEF Override
  <2>2. Max({0, o.left - 1}) = left
    BY <2>1, MaxPair
  <2>3. override' = {later}
    BY <1>8, <2>2 DEF LoopElapses
  <2>4. left \in Nat /\ left >= o.left - 1
    BY <2>1
  <2> HIDE DEF left
  <2>5. later \in Override /\ later.state = o.state /\ later.left = left
    BY <2>4 DEF Override
  <2> HIDE DEF later
  <2>6. LoopTypeOK'
    BY <1>1, <1>4, <1>5, <2>3, <2>5 DEF LoopTypeOK, IsOptional
  <2>7. ASSUME phase # "evaluate"
        PROVE  asked = {o.state} /\ wait # {} /\ \A w \in wait : w \in Nat /\ w <= o.left + lag
    BY <1>8, <2>7 DEF OverrideObeyed, LoopTypeOK, IsOptional
  <2>8. \A w \in wait' : w <= left + lag' /\ wait' # {}
    <3>1. CASE phase = "moving" /\ lag' = lag + 1 /\ wait' = wait
      BY <1>4, <2>1, <2>4, <2>7, <3>1
    <3>2. CASE phase = "waiting" /\ wait # {0} /\ lag' = lag /\ wait' = {n - 1 : n \in wait}
      <4>1. \A n \in wait : n \in Nat \ {0} /\ n <= o.left + lag
        BY <1>3, <2>7, <3>2
      <4> QED
        BY <1>4, <2>1, <2>4, <3>2, <4>1
    <3> QED
      BY <1>2, <3>1, <3>2
  <2>9. phase # "evaluate" => wait' # {}
    BY <1>2, <2>7
  <2>10. OverrideObeyed'
    BY <1>1, <2>3, <2>5, <2>7, <2>8, <2>9 DEF OverrideObeyed
  <2> QED
    BY <2>3, <2>6, <2>10
<1> QED
  BY <1>1, <1>2, <1>3, <1>6, <1>7, <1>8

-----------------------------------------------------------------------------
(* The plot controller.                                                    *)

\* What holds of the plot controller at any time, in one piece.
PlotSideInv ==
  /\ LoopTypeOK /\ PlotTypeOK
  /\ configQueue \in Seq(PlotConfigs)
  /\ MeterInv /\ OverrideObeyed /\ PlotInv

LEMMA PulseFields ==
  ASSUME PlotTypeOK
  PROVE  /\ pulse.delivered \in Nat /\ pulse.sinceStart \in Nat /\ pulse.sound \in BOOLEAN
         /\ moist \in BOOLEAN /\ schedules \in Seq(TimeBasedSchedule)
         /\ \A i \in DOMAIN schedules : schedules[i] \in TimeBasedSchedule /\ Bounded(schedules[i])
<1>1. pulse \in Pulses(MaxWater) /\ MaxWater \in Nat /\ ValveTimeout \in Nat
  BY WaterAssumption, MoistureAssumption DEF PlotTypeOK
<1>2. pulse.delivered \in Nat /\ pulse.sinceStart \in Nat /\ pulse.sound \in BOOLEAN
  BY <1>1 DEF Pulses
<1> QED
  BY <1>2 DEF PlotTypeOK

LEMMA MeterFields ==
  ASSUME MeterInv
  PROVE  /\ counter \in Nat /\ counted \in Nat /\ volume \in Nat /\ unpublished \in Nat
         /\ published \in Nat /\ credited \in Nat /\ flowed \in 0 .. MaxWater
  BY WaterAssumption DEF MeterInv, MeterTypeOK

\* The meter stays sound as long as no more is delivered to the pulse than it is credited.
LEMMA GetVolumeSays ==
  ASSUME MeterInv, PlotTypeOK, getVolume, pulse'.delivered \in Nat, pulse'.delivered <= pulse.delivered + volume
  PROVE  MeterInv'
<1>1. /\ volume' = 0 /\ counter' = counter /\ counted' = counted /\ flowed' = flowed /\ published' = published
      /\ unpublished' = unpublished + volume /\ credited' = credited + volume
  BY DEF getVolume, getVolumeAndReset
<1>2. MaxWater \in Nat
  BY WaterAssumption
<1>3. published + unpublished + (counter + counted + volume) = flowed /\ credited + (counter + counted + volume) <= flowed
  BY DEF MeterInv, Conserved
<1>4. published' + unpublished' + (counter' + counted' + volume') = flowed'
      /\ credited' + (counter' + counted' + volume') <= flowed'
  BY <1>1, <1>3, MeterFields
<1>5. unpublished' \in 0 .. MaxWater /\ credited' \in 0 .. MaxWater /\ 0 \in 0 .. MaxWater
  BY <1>1, <1>2, <1>3, MeterFields
<1>6. MeterTypeOK'
  BY <1>1, <1>5 DEF MeterInv, MeterTypeOK
<1>7. pulse'.delivered <= credited'
  <2>1. pulse.delivered \in Nat /\ volume \in Nat /\ credited \in Nat
    BY MeterFields, PulseFields
  <2>2. pulse.delivered <= credited
    BY DEF MeterInv
  <2> QED
    BY <1>1, <2>1, <2>2
<1> QED
  BY <1>4, <1>6, <1>7 DEF MeterInv, Conserved

\* A scheduler before the moisture has an opinion, or there is no target for the moisture.
LEMMA PlotTickDecided ==
  ASSUME PlotSideInv, acting = "plot",
         NEW second, ResultTypeOK(second), Evaluate(second),
         override' = OverrideKept(override), UNCHANGED <<schedules, moist, meterVars, acting>>,
         pulse' = [pulse EXCEPT !.sound = pulse.sound /\ pulse.state # "Watering"],
         override' # {} => \E x \in Override : override' = {x} /\ second.targetState = {x.state} /\ second.nextDeadline = {x.left},
         override' = {} /\ schedules # <<>> =>
           /\ second.targetState # {} /\ second.nextDeadline # {}
           /\ \A w \in second.nextDeadline : Stays(second.targetState, schedules, 0, w),
         override' = {} /\ schedules = <<>> => second.targetState = {} /\ ~moist
  PROVE  PlotSideInv'
<1>1. IsOptional(override', Override)
  BY OverrideSays DEF PlotSideInv, LoopTypeOK
<1>2. /\ LoopTypeOK' /\ phase' \in {"moving", "waiting"} /\ lag' = 0
      /\ asked' = {OrClosed(second)} /\ wait' = second.nextDeadline /\ configQueue' = configQueue
  BY <1>1, EvaluateSays DEF PlotSideInv
<1>3. PICK b \in BOOLEAN : pulse' = [pulse EXCEPT !.sound = b] /\ ~(b /\ pulse.state = "Watering")
  BY PulseFields DEF PlotSideInv
<1>4. /\ pulse' \in Pulses(MaxWater) /\ pulse'.delivered = pulse.delivered
      /\ pulse'.state = pulse.state /\ pulse'.sound = b
  BY <1>3 DEF PlotSideInv, PlotTypeOK, Pulses
<1>5. PlotTypeOK'
  BY <1>4 DEF PlotSideInv, PlotTypeOK
<1>6. MeterInv'
  BY <1>4, MeterFrame DEF PlotSideInv
<1>7. OverrideObeyed'
  <2>1. CASE override' = {}
    BY <2>1 DEF OverrideObeyed
  <2>2. CASE override' # {}
    <3>1. PICK x \in Override : override' = {x} /\ second.targetState = {x.state} /\ second.nextDeadline = {x.left}
      BY <2>2
    <3>2. OrClosed(second) = x.state
      BY <3>1, OrClosedSays DEF ResultTypeOK
    <3>3. x.left \in Nat /\ x.left <= x.left + 0
      BY DEF Override
    <3> QED
      BY <1>2, <3>1, <3>2, <3>3 DEF OverrideObeyed
  <2> QED
    BY <2>1, <2>2
<1>8. SchedulesObeyed'
  <2> SUFFICES ASSUME override' = {}, schedules # <<>>
               PROVE  wait' # {} /\ \A w \in wait' : w # 0 => Stays(asked', schedules', lag', w)
    BY DEF SchedulesObeyed
  <2>1. /\ second.targetState # {} /\ second.nextDeadline # {}
        /\ \A w \in second.nextDeadline : Stays(second.targetState, schedules, 0, w)
    OBVIOUS
  <2>2. second.targetState = {OrClosed(second)}
    <3>1. PICK x : x \in second.targetState
      BY <2>1
    <3>2. second.targetState = {x}
      BY <3>1 DEF ResultTypeOK, IsOptional
    <3> QED
      BY <3>2, OrClosedSays DEF ResultTypeOK
  <2> QED
    BY <1>2, <2>1, <2>2
<1>9. PulseObeyed'
  <2> SUFFICES ASSUME override' = {}, schedules = <<>>
               PROVE  asked' = IF moist' /\ pulse'.state = "Watering" THEN {"Open"} ELSE {"Closed"}
    BY DEF PulseObeyed
  <2>1. OrClosed(second) = "Closed"
    BY OrClosedSays DEF ResultTypeOK
  <2> QED
    BY <1>2, <2>1
<1>10. PulseFollowed'
  BY <1>3, <1>4 DEF PulseFollowed
<1> QED
  BY <1>2, <1>5, <1>6, <1>7, <1>8, <1>9, <1>10 DEF PlotSideInv, PlotInv

\* It is up to the moisture.
LEMMA PlotTickByMoisture ==
  ASSUME PlotSideInv, acting = "plot",
         NEW result, ResultTypeOK(result), Evaluate(result),
         override' = {}, UNCHANGED <<schedules, moist, acting>>, moist, schedules = <<>>,
         NEW reading \in Readings, NEW slope \in Slopes,
         pulse' \in MoistureNext(pulse, reading, slope, volume),
         IF TakesVolume(pulse, reading) THEN getVolume ELSE UNCHANGED meterVars,
         result.targetState = {IF pulse'.state = "Watering" THEN "Open" ELSE "Closed"},
         reading # "nan" /\ pulse'.state = "Watering" => result.nextDeadline = {1}
  PROVE  PlotSideInv'
<1>1. IsOptional(override', Override)
  BY DEF IsOptional
<1>2. /\ LoopTypeOK' /\ phase = "evaluate" /\ phase' \in {"moving", "waiting"} /\ lag' = 0
      /\ phase' = "moving" <=> asked # asked'
      /\ asked' = {OrClosed(result)} /\ wait' = result.nextDeadline /\ configQueue' = configQueue
  BY <1>1, EvaluateSays DEF PlotSideInv
<1>3. asked' = {IF pulse'.state = "Watering" THEN "Open" ELSE "Closed"}
  BY <1>2, OrClosedSays DEF ResultTypeOK
<1>4. volume \in Nat /\ pulse.delivered + volume <= MaxWater
  <2>1. /\ credited + (counter + counted + volume) <= flowed
        /\ pulse.delivered <= credited /\ MaxWater \in Nat
    BY WaterAssumption DEF PlotSideInv, MeterInv, Conserved
  <2>2. /\ counter \in Nat /\ counted \in Nat /\ volume \in Nat /\ credited \in Nat
        /\ flowed \in 0 .. MaxWater /\ pulse.delivered \in Nat
    BY MeterFields, PulseFields DEF PlotSideInv
  <2> QED
    BY <2>1, <2>2
<1>5. /\ pulse' \in Pulses(MaxWater)
      /\ pulse'.delivered <= IF TakesVolume(pulse, reading) THEN pulse.delivered + volume ELSE pulse.delivered
      /\ pulse'.state = "Watering" /\ pulse'.sound =>
           /\ reading # "nan"
           /\ \/ pulse'.sinceStart = 0
              \/ /\ pulse.state = "Watering" /\ pulse.sound
                 /\ pulse'.sinceStart = pulse.sinceStart /\ pulse'.sinceStart < ValveTimeout
  BY <1>4, MoistureSays DEF PlotSideInv, PlotTypeOK
<1>6. PlotTypeOK'
  BY <1>5 DEF PlotSideInv, PlotTypeOK
<1>7. MeterInv'
  <2>1. pulse'.delivered \in Nat /\ pulse'.sinceStart \in Nat
    BY <1>5, WaterAssumption, MoistureAssumption DEF Pulses
  <2>2. CASE TakesVolume(pulse, reading)
    BY <1>5, <2>1, <2>2, GetVolumeSays DEF PlotSideInv
  <2>3. CASE ~TakesVolume(pulse, reading)
    <3>1. pulse'.delivered <= credited
      BY <1>5, <2>1, <2>3, MeterFields, PulseFields DEF PlotSideInv, MeterInv
    <3>2. UNCHANGED meterVars
      BY <2>3
    <3> QED
      BY <3>1, <3>2 DEF PlotSideInv, MeterInv, MeterTypeOK, Conserved, meterVars
  <2> QED
    BY <2>2, <2>3
<1>8. OverrideObeyed'
  BY DEF OverrideObeyed
<1>9. SchedulesObeyed'
  BY DEF SchedulesObeyed
<1>10. PulseObeyed'
  BY <1>3 DEF PulseObeyed
<1>11. PulseFollowed'
  <2> SUFFICES ASSUME pulse'.state = "Watering", pulse'.sound
               PROVE  /\ asked' = {"Open"} /\ pulse'.sinceStart <= ValveTimeout
                      /\ phase' = "moving" => wait' = {1} /\ pulse'.sinceStart <= lag'
                      /\ phase' = "waiting" => wait' \in {{0}, {1}} /\ \A w \in wait' : pulse'.sinceStart + w <= ValveTimeout
    BY DEF PulseFollowed
  <2>1. asked' = {"Open"} /\ wait' = {1}
    BY <1>2, <1>3, <1>5
  <2>2. ValveTimeout \in Nat /\ MaxLag \in Nat /\ MaxLag < ValveTimeout /\ pulse'.sinceStart \in Nat
    BY <1>5, MoistureAssumption, LoopAssumption, PlotAssumption DEF Pulses
  <2>3. pulse'.sinceStart + 1 <= ValveTimeout
    BY <1>5, <2>2
  <2>4. phase' = "moving" => pulse'.sinceStart = 0
    <3>1. ASSUME pulse.state = "Watering", pulse.sound PROVE phase' # "moving"
      <4>1. asked = {"Open"}
        BY <3>1 DEF PlotSideInv, PlotInv, PulseFollowed
      <4> QED
        BY <1>2, <2>1, <4>1
    <3> QED
      BY <1>5, <3>1
  <2>5. phase' = "moving" => wait' = {1} /\ pulse'.sinceStart <= lag'
    BY <1>2, <2>1, <2>4
  <2>6. \A w \in wait' : w = 1
    BY <2>1
  <2>7. \A w \in wait' : pulse'.sinceStart + w <= ValveTimeout
    BY <2>3, <2>6
  <2>8. pulse'.sinceStart <= ValveTimeout
    BY <2>2, <2>3
  <2> QED
    BY <2>1, <2>5, <2>7, <2>8
<1> QED
  BY <1>2, <1>6, <1>7, <1>8, <1>9, <1>10, <1>11 DEF PlotSideInv, PlotInv

LEMMA PlotTickKeeps ==
  ASSUME PlotSideInv, acting = "plot", PlotTick, acting' = acting
  PROVE  PlotSideInv'
<1> DEFINE first == OverrideTick(override)
           timed == getStateUpdate(schedules)
           second == IF first.targetState # {} THEN first ELSE merge(first, timed)
<1>1. /\ IsOptional(OverrideKept(override), Override) /\ ResultTypeOK(first)
      /\ OverrideKept(override) # {} =>
           \E x \in Override : /\ OverrideKept(override) = {x} /\ x.left > 0
                               /\ first = ScheduleResult({x.state}, {x.left}, FALSE)
      /\ OverrideKept(override) = {} => first.targetState = {} /\ first.nextDeadline = {}
  BY OverrideSays DEF PlotSideInv, LoopTypeOK
<1>2. /\ ResultTypeOK(timed)
      /\ schedules = <<>> => timed.targetState = {} /\ timed.nextDeadline = {}
      /\ schedules # <<>> =>
           /\ timed.targetState # {} /\ timed.nextDeadline # {}
           /\ \A w \in timed.nextDeadline : Stays(timed.targetState, schedules, 0, w)
  BY SchedulesResult, PulseFields DEF PlotSideInv
<1>3. /\ override' = OverrideKept(override) /\ UNCHANGED <<schedules, moist>>
      /\ IF second.targetState # {} \/ ~moist
         THEN /\ Evaluate(second)
              /\ pulse' = [pulse EXCEPT !.sound = pulse.sound /\ pulse.state # "Watering"]
              /\ UNCHANGED meterVars
         ELSE \E reading \in Readings, slope \in Slopes :
                /\ pulse' \in MoistureNext(pulse, reading, slope, volume)
                /\ IF TakesVolume(pulse, reading) THEN getVolume ELSE UNCHANGED meterVars
                /\ Evaluate(merge(second, MoistureResult(pulse', reading)))
  BY DEF PlotTick
<1> HIDE DEF first, timed
<1>4. CASE override' # {}
  <2>1. PICK x \in Override : override' = {x} /\ first = ScheduleResult({x.state}, {x.left}, FALSE)
    BY <1>1, <1>3, <1>4
  <2>2. first.targetState = {x.state} /\ first.nextDeadline = {x.left}
    BY <2>1 DEF ScheduleResult
  <2>3. second = first
    BY <2>2
  <2>4. Evaluate(first) /\ pulse' = [pulse EXCEPT !.sound = pulse.sound /\ pulse.state # "Watering"] /\ UNCHANGED meterVars
    BY <1>3, <2>2, <2>3
  <2> HIDE DEF second
  <2> QED
    BY <1>1, <1>3, <1>4, <2>1, <2>2, <2>4, PlotTickDecided
<1>5. CASE override' = {}
  <2>1. first.targetState = {} /\ first.nextDeadline = {}
    BY <1>1, <1>3, <1>5
  <2>2. second = merge(first, timed)
    BY <2>1
  <2>3. /\ second.targetState = timed.targetState /\ second.nextDeadline = timed.nextDeadline
        /\ second.shouldPublishTelemetry \in BOOLEAN
    BY <1>1, <1>2, <2>1, <2>2, MergeSecond DEF ResultTypeOK
  <2>4. ResultTypeOK(second)
    BY <1>2, <2>3 DEF ResultTypeOK
  <2> HIDE DEF second
  <2>5. CASE second.targetState # {} \/ ~moist
    <3>1. Evaluate(second) /\ pulse' = [pulse EXCEPT !.sound = pulse.sound /\ pulse.state # "Watering"] /\ UNCHANGED meterVars
      BY <1>3, <2>5
    <3>2. schedules # <<>> =>
            /\ second.targetState # {} /\ second.nextDeadline # {}
            /\ \A w \in second.nextDeadline : Stays(second.targetState, schedules, 0, w)
      BY <1>2, <2>3
    <3>3. schedules = <<>> => second.targetState = {} /\ ~moist
      BY <1>2, <2>3, <2>5
    <3> QED
      BY <1>3, <1>5, <2>4, <3>1, <3>2, <3>3, PlotTickDecided
  <2>6. CASE second.targetState = {} /\ moist
    <3>1. PICK reading \in Readings, slope \in Slopes :
            /\ pulse' \in MoistureNext(pulse, reading, slope, volume)
            /\ IF TakesVolume(pulse, reading) THEN getVolume ELSE UNCHANGED meterVars
            /\ Evaluate(merge(second, MoistureResult(pulse', reading)))
      BY <1>3, <2>6
    <3> DEFINE moisture == MoistureResult(pulse', reading)
               result == merge(second, moisture)
    <3>2. schedules = <<>> /\ second.nextDeadline = {}
      BY <1>2, <2>3, <2>6
    <3>3. /\ moisture.targetState = {IF pulse'.state = "Watering" THEN "Open" ELSE "Closed"}
          /\ moisture.nextDeadline = IF reading = "nan" THEN {1} ELSE getNextDeadline(pulse'.state)
          /\ moisture.shouldPublishTelemetry = FALSE
      BY DEF MoistureResult, ScheduleResult
    <3>4. IsOptional(moisture.nextDeadline, Nat)
      <4>1. LongWait \in Nat
        BY MoistureAssumption
      <4>2. pulse'.state \in {"Idle", "Watering", "Soak", "UpdateModel", "Fault"}
        <5>1. volume \in Nat /\ pulse.delivered + volume <= MaxWater
          <6>1. /\ credited + (counter + counted + volume) <= flowed
                /\ pulse.delivered <= credited /\ MaxWater \in Nat
            BY WaterAssumption DEF PlotSideInv, MeterInv, Conserved
          <6>2. /\ counter \in Nat /\ counted \in Nat /\ volume \in Nat /\ credited \in Nat
                /\ flowed \in 0 .. MaxWater /\ pulse.delivered \in Nat
            BY MeterFields, PulseFields DEF PlotSideInv
          <6> QED
            BY <6>1, <6>2
        <5>2. pulse' \in Pulses(MaxWater)
          BY <3>1, <5>1, MoistureSays DEF PlotSideInv, PlotTypeOK
        <5> QED
          BY <5>2 DEF Pulses
      <4>3. getNextDeadline(pulse'.state) \in {{LongWait}, {1}, {0}, {}}
        BY <4>2 DEF getNextDeadline
      <4> HIDE DEF moisture
      <4> QED
        BY <3>3, <4>1, <4>3 DEF IsOptional
    <3> HIDE DEF moisture
    <3>5. /\ result.targetState = moisture.targetState /\ result.nextDeadline = moisture.nextDeadline
          /\ result.shouldPublishTelemetry \in BOOLEAN
      BY <2>4, <2>6, <3>2, <3>3, <3>4, MergeSecond DEF ResultTypeOK
    <3> HIDE DEF result
    <3>6. ResultTypeOK(result)
      BY <3>3, <3>4, <3>5 DEF ResultTypeOK, IsOptional, States
    <3>7. reading # "nan" /\ pulse'.state = "Watering" => result.nextDeadline = {1}
      BY <3>3, <3>5 DEF getNextDeadline
    <3>8. Evaluate(result)
      BY <3>1 DEF result, moisture
    <3> QED
      BY <1>3, <1>5, <2>6, <3>1, <3>2, <3>3, <3>5, <3>6, <3>7, <3>8, PlotTickByMoisture
  <2> QED
    BY <2>5, <2>6
<1> QED
  BY <1>4, <1>5

LEMMA ConfigureKeeps ==
  ASSUME PlotSideInv, acting = "plot", configure, acting' = acting
  PROVE  PlotSideInv'
<1>1. PICK c \in PlotConfigs : Send(c) /\ UNCHANGED <<plotVars, meterVars>>
  BY DEF configure
<1>2. /\ LoopTypeOK' /\ OverrideObeyed' /\ configQueue' = <<c>>
      /\ UNCHANGED <<phase, wait, lag, asked, override>>
  BY <1>1, SendSays DEF PlotSideInv
<1>3. PlotTypeOK'
  BY <1>1, PlotFrame DEF PlotSideInv
<1>4. MeterInv'
  BY <1>1, MeterFrame DEF PlotSideInv, plotVars
<1>5. configQueue' \in Seq(PlotConfigs)
  BY <1>2
<1>6. PlotInv'
  BY <1>1, <1>2 DEF PlotSideInv, PlotInv, SchedulesObeyed, PulseObeyed, PulseFollowed, plotVars
<1> QED
  BY <1>2, <1>3, <1>4, <1>5, <1>6 DEF PlotSideInv

LEMMA PlotTakesConfigKeeps ==
  ASSUME PlotSideInv, acting = "plot", PlotTakesConfig, acting' = acting
  PROVE  PlotSideInv'
<1> DEFINE c == Head(configQueue)
<1>1. /\ LoopTypeOK' /\ OverrideObeyed' /\ c \in PlotConfigs /\ phase = "waiting" /\ phase' = "evaluate"
      /\ configQueue' = <<>> /\ UNCHANGED asked
  BY PlotAssumption, TakeConfigSays DEF PlotSideInv, PlotTakesConfig
<1>2. schedules' = c.schedules /\ moist' = c.moist /\ UNCHANGED <<pulse, meterVars>>
  BY DEF PlotTakesConfig
<1> HIDE DEF c
<1>3. /\ schedules' \in Seq(TimeBasedSchedule) /\ moist' \in BOOLEAN
      /\ \A i \in DOMAIN schedules' : Bounded(schedules'[i])
  BY <1>1, <1>2, PlotAssumption
<1>4. PlotTypeOK'
  BY <1>2, <1>3 DEF PlotSideInv, PlotTypeOK
<1>5. MeterInv'
  BY <1>2, MeterFrame DEF PlotSideInv
<1>6. PlotInv'
  BY <1>1, <1>2 DEF PlotSideInv, PlotInv, SchedulesObeyed, PulseObeyed, PulseFollowed
<1>7. configQueue' \in Seq(PlotConfigs)
  BY <1>1
<1> QED
  BY <1>1, <1>4, <1>5, <1>6, <1>7 DEF PlotSideInv

LEMMA PlotElapsesKeeps ==
  ASSUME PlotSideInv, acting = "plot", PlotElapses, acting' = acting
  PROVE  PlotSideInv'
<1>1. /\ LoopTypeOK' /\ OverrideObeyed'
      /\ UNCHANGED <<phase, asked, configQueue>>
      /\ override' = {} <=> override = {}
      /\ \/ phase = "moving" /\ lag < MaxLag /\ lag' = lag + 1 /\ wait' = wait
         \/ /\ phase = "waiting" /\ lag' = lag /\ wait' = {n - 1 : n \in wait}
            /\ \A n \in wait : n \in Nat \ {0}
  BY LoopElapsesSays DEF PlotSideInv, PlotElapses
<1>2. /\ schedules' = [i \in DOMAIN schedules |-> Later(schedules[i])]
      /\ pulse' = PulseElapses(pulse) /\ moist' = moist
  BY DEF PlotElapses
<1>3. PICK water \in {0, 1} : Flow(water)
  BY DEF PlotElapses
<1>4. /\ MaxLag \in Nat /\ ValveTimeout \in Nat /\ MaxLag < ValveTimeout /\ Tau \in Nat /\ lag \in 0 .. MaxLag
  BY LoopAssumption, MoistureAssumption, PlotAssumption DEF PlotSideInv, LoopTypeOK
<1>5. \A i \in DOMAIN schedules : schedules[i] \in TimeBasedSchedule /\ Bounded(schedules[i])
  BY PulseFields DEF PlotSideInv
<1>6. schedules' \in Seq(TimeBasedSchedule) /\ DOMAIN schedules' = DOMAIN schedules
      /\ (schedules' = <<>> <=> schedules = <<>>)
  <2>1. DOMAIN schedules = 1 .. Len(schedules) /\ Len(schedules) \in Nat
    BY PulseFields DEF PlotSideInv
  <2>2. \A i \in DOMAIN schedules : Later(schedules[i]) \in TimeBasedSchedule
    BY <1>5, ScheduleLater
  <2>3. schedules' \in Seq(TimeBasedSchedule) /\ DOMAIN schedules' = DOMAIN schedules
    BY <1>2, <2>1, <2>2
  <2> QED
    BY <2>3, PulseFields DEF PlotSideInv
<1>7. \A i \in DOMAIN schedules' : Bounded(schedules'[i])
  BY <1>2, <1>5, <1>6, ScheduleLater
<1>8. /\ pulse' \in Pulses(MaxWater) /\ pulse'.state = pulse.state /\ pulse'.sound = pulse.sound
      /\ pulse'.delivered = pulse.delivered
      /\ pulse.state = "Watering" => pulse'.sinceStart <= pulse.sinceStart + 1
  <2>1. /\ pulse \in Pulses(MaxWater) /\ pulse.sinceStart \in Nat /\ pulse.sinceEnd \in Nat
    BY <1>4 DEF PlotSideInv, PlotTypeOK, Pulses
  <2> DEFINE start == IF pulse.state = "Watering" THEN Min({ValveTimeout + 1, pulse.sinceStart + 1}) ELSE 0
             end == IF pulse.state = "Soak" THEN Min({Tau + 1, pulse.sinceEnd + 1}) ELSE 0
  <2>2. start \in 0 .. ValveTimeout + 1 /\ end \in 0 .. Tau + 1
    <3>1. Min({ValveTimeout + 1, pulse.sinceStart + 1}) \in 0 .. ValveTimeout + 1
      BY <1>4, <2>1, MinPair
    <3>2. Min({Tau + 1, pulse.sinceEnd + 1}) \in 0 .. Tau + 1
      BY <1>4, <2>1, MinPair
    <3> QED
      BY <1>4, <3>1, <3>2
  <2>3. pulse.state = "Watering" => start <= pulse.sinceStart + 1
    BY <1>4, <2>1, MinPair
  <2>4. pulse' = [pulse EXCEPT !.sinceStart = start, !.sinceEnd = end]
    BY <1>2, <2>1 DEF PulseElapses, Pulses
  <2> HIDE DEF start, end
  <2> QED
    BY <2>1, <2>2, <2>3, <2>4 DEF Pulses
<1>9. PlotTypeOK'
  BY <1>2, <1>6, <1>7, <1>8 DEF PlotSideInv, PlotTypeOK
<1>10. MeterInv'
  <2>1. /\ flowed' = flowed + water /\ flowed' <= MaxWater /\ counter' = counter + water
        /\ UNCHANGED <<counted, volume, unpublished, published, credited>>
    BY <1>3 DEF Flow
  <2>2. /\ published + unpublished + (counter + counted + volume) = flowed
        /\ credited + (counter + counted + volume) <= flowed
    BY DEF PlotSideInv, MeterInv, Conserved
  <2>3. /\ counter \in Nat /\ counted \in Nat /\ volume \in Nat /\ unpublished \in Nat
        /\ published \in Nat /\ credited \in Nat /\ flowed \in 0 .. MaxWater /\ MaxWater \in Nat
        /\ water \in Nat
    BY MeterFields, WaterAssumption DEF PlotSideInv
  <2>4. /\ published' + unpublished' + (counter' + counted' + volume') = flowed'
        /\ credited' + (counter' + counted' + volume') <= flowed'
        /\ flowed' \in 0 .. MaxWater /\ counter' \in 0 .. MaxWater
    BY <2>1, <2>2, <2>3
  <2>5. MeterTypeOK'
    BY <2>1, <2>4 DEF PlotSideInv, MeterInv, MeterTypeOK
  <2> QED
    BY <1>8, <2>1, <2>4, <2>5 DEF PlotSideInv, MeterInv, Conserved
<1>11. SchedulesObeyed'
  <2> SUFFICES ASSUME override = {}, schedules # <<>>, phase # "evaluate"
               PROVE  wait' # {} /\ \A w \in wait' : w # 0 => Stays(asked', schedules', lag', w)
    BY <1>1, <1>6 DEF SchedulesObeyed
  <2>1. wait # {} /\ \A w \in wait : w # 0 => Stays(asked, schedules, lag, w)
    BY DEF PlotSideInv, PlotInv, SchedulesObeyed
  <2>2. wait \subseteq Nat
    BY DEF PlotSideInv, LoopTypeOK, IsOptional
  <2>3. CASE phase = "moving" /\ lag < MaxLag /\ lag' = lag + 1 /\ wait' = wait
    <3>1. lag \in Nat /\ lag + 1 <= MaxLag
      BY <1>4, <2>3
    <3>2. \A i \in DOMAIN schedules :
            /\ OpenAt(schedules'[i], lag') <=> OpenAt(schedules[i], lag)
            /\ CloseAfter(schedules'[i], lag') = CloseAfter(schedules[i], lag)
            /\ OpenAfter(schedules'[i], lag') = OpenAfter(schedules[i], lag)
      BY <1>2, <1>5, <2>3, <3>1, LaterWhileMoving
    <3>3. \A w \in wait : Stays(asked, schedules, lag, w) => Stays(asked, schedules', lag', w)
      BY <1>6, <3>2 DEF Stays, StaysOpen, StaysClosed
    <3> QED
      BY <1>1, <2>1, <2>3, <3>3
  <2>4. CASE /\ phase = "waiting" /\ lag' = lag /\ wait' = {n - 1 : n \in wait}
             /\ \A n \in wait : n \in Nat \ {0}
    <3>1. wait' # {}
      BY <2>1, <2>4
    <3>2. ASSUME NEW w \in wait', w # 0 PROVE Stays(asked, schedules', lag, w)
      <4>1. w \in Nat /\ w > 0 /\ w + 1 \in wait
        BY <2>4, <3>2
      <4>2. Stays(asked, schedules, lag, w + 1)
        BY <2>1, <4>1
      <4>3. \A i \in DOMAIN schedules :
              /\ OpenAt(schedules[i], lag) /\ w + 1 <= CloseAfter(schedules[i], lag) =>
                   OpenAt(schedules'[i], lag) /\ w <= CloseAfter(schedules'[i], lag)
              /\ ~OpenAt(schedules[i], lag) /\ w + 1 <= OpenAfter(schedules[i], lag) =>
                   ~OpenAt(schedules'[i], lag) /\ w <= OpenAfter(schedules'[i], lag)
        BY <1>2, <1>4, <1>5, <4>1, LaterWhileWaiting
      <4> QED
        BY <1>6, <4>2, <4>3 DEF Stays, StaysOpen, StaysClosed
    <3> QED
      BY <1>1, <2>4, <3>1, <3>2
  <2> QED
    BY <1>1, <2>3, <2>4
<1>12. PulseObeyed'
  BY <1>1, <1>2, <1>6, <1>8 DEF PlotSideInv, PlotInv, PulseObeyed
<1>13. PulseFollowed'
  <2> SUFFICES ASSUME pulse.state = "Watering", pulse.sound
               PROVE  /\ asked' = {"Open"} /\ pulse'.sinceStart <= ValveTimeout
                      /\ phase' = "moving" => wait' = {1} /\ pulse'.sinceStart <= lag'
                      /\ phase' = "waiting" => wait' \in {{0}, {1}} /\ \A w \in wait' : pulse'.sinceStart + w <= ValveTimeout
    BY <1>8 DEF PulseFollowed
  <2>1. /\ asked = {"Open"} /\ pulse.sinceStart <= ValveTimeout
        /\ phase = "moving" => wait = {1} /\ pulse.sinceStart <= lag
        /\ phase = "waiting" => wait \in {{0}, {1}} /\ \A w \in wait : pulse.sinceStart + w <= ValveTimeout
    BY DEF PlotSideInv, PlotInv, PulseFollowed
  <2>2. pulse.sinceStart \in Nat /\ pulse'.sinceStart \in Nat /\ pulse'.sinceStart <= pulse.sinceStart + 1
    BY <1>4, <1>8 DEF PlotSideInv, PlotTypeOK, Pulses
  <2>3. CASE phase = "moving" /\ lag < MaxLag /\ lag' = lag + 1 /\ wait' = wait
    <3>1. pulse'.sinceStart <= lag' /\ pulse'.sinceStart <= ValveTimeout
      BY <1>4, <2>1, <2>2, <2>3
    <3> QED
      BY <1>1, <2>1, <2>3, <3>1
  <2>4. CASE /\ phase = "waiting" /\ lag' = lag /\ wait' = {n - 1 : n \in wait}
             /\ \A n \in wait : n \in Nat \ {0}
    <3>1. wait = {1}
      BY <2>1, <2>4
    <3>2. wait' = {0}
      BY <2>4, <3>1
    <3>3. pulse'.sinceStart <= ValveTimeout
      BY <1>4, <2>1, <2>2, <2>4, <3>1
    <3>4. \A w \in wait' : pulse'.sinceStart + w <= ValveTimeout
      BY <2>2, <3>2, <3>3
    <3> QED
      BY <1>1, <2>1, <2>4, <3>2, <3>3, <3>4
  <2> QED
    BY <1>1, <2>3, <2>4
<1> QED
  BY <1>1, <1>9, <1>10, <1>11, <1>12, <1>13 DEF PlotSideInv, PlotInv

LEMMA PlotLoopGoesOnKeeps ==
  ASSUME PlotSideInv, acting = "plot", PlotLoopGoesOn, acting' = acting
  PROVE  PlotSideInv'
<1>1. /\ LoopTypeOK' /\ OverrideObeyed'
      /\ UNCHANGED <<wait, lag, asked, configQueue, override>>
      /\ \/ phase = "moving" /\ phase' = "waiting"
         \/ phase = "waiting" /\ phase' = "evaluate" /\ wait = {0}
  BY ArriveSays DEF PlotSideInv, PlotLoopGoesOn
<1>2. UNCHANGED <<plotVars, meterVars>>
  BY DEF PlotLoopGoesOn
<1>3. PlotTypeOK'
  BY <1>2, PlotFrame DEF PlotSideInv
<1>4. MeterInv'
  BY <1>2, MeterFrame DEF PlotSideInv, plotVars
<1>5. SchedulesObeyed' /\ PulseObeyed'
  BY <1>1, <1>2 DEF PlotSideInv, PlotInv, SchedulesObeyed, PulseObeyed, plotVars
<1>6. PulseFollowed'
  <2> SUFFICES ASSUME pulse.state = "Watering", pulse.sound
               PROVE  /\ asked' = {"Open"} /\ pulse'.sinceStart <= ValveTimeout
                      /\ phase' = "moving" => wait' = {1} /\ pulse'.sinceStart <= lag'
                      /\ phase' = "waiting" => wait' \in {{0}, {1}} /\ \A w \in wait' : pulse'.sinceStart + w <= ValveTimeout
    BY <1>2 DEF PulseFollowed, plotVars
  <2>1. /\ asked = {"Open"} /\ pulse.sinceStart <= ValveTimeout
        /\ phase = "moving" => wait = {1} /\ pulse.sinceStart <= lag
    BY DEF PlotSideInv, PlotInv, PulseFollowed
  <2>2. pulse.sinceStart \in Nat /\ MaxLag \in Nat /\ ValveTimeout \in Nat /\ MaxLag < ValveTimeout /\ lag \in 0 .. MaxLag
    BY LoopAssumption, MoistureAssumption, PlotAssumption, PulseFields DEF PlotSideInv, LoopTypeOK
  <2>3. phase' = "waiting" => wait' = {1} /\ pulse'.sinceStart + 1 <= ValveTimeout
    <3>1. pulse' = pulse
      BY <1>2 DEF plotVars
    <3> QED
      BY <1>1, <2>1, <2>2, <3>1
  <2>4. phase' # "moving" /\ pulse' = pulse /\ asked' = asked
    BY <1>1, <1>2 DEF plotVars
  <2> QED
    BY <2>1, <2>3, <2>4
<1> QED
  BY <1>1, <1>3, <1>4, <1>5, <1>6 DEF PlotSideInv, PlotInv

LEMMA MeterTaskKeeps ==
  ASSUME PlotSideInv, acting = "plot", MeterTask, acting' = acting
  PROVE  PlotSideInv'
<1>1. UNCHANGED <<loopVars, plotVars>>
  BY DEF MeterTask
<1>2. LoopTypeOK' /\ OverrideObeyed' /\ configQueue' = configQueue
  BY <1>1 DEF PlotSideInv, LoopTypeOK, OverrideObeyed, loopVars
<1>3. PlotTypeOK'
  BY <1>1, PlotFrame DEF PlotSideInv
<1>4. PlotInv'
  BY <1>1 DEF PlotSideInv, PlotInv, SchedulesObeyed, PulseObeyed, PulseFollowed, loopVars, plotVars
<1>5. /\ UNCHANGED <<unpublished, published, credited, flowed>>
      /\ \/ counted = 0 /\ counted' = counter /\ counter' = 0 /\ volume' = volume
         \/ counted' = 0 /\ counter' = counter /\ volume' = volume + counted
  BY DEF MeterTask, CountPulses, AddVolume
<1>6. /\ published + unpublished + (counter + counted + volume) = flowed
      /\ credited + (counter + counted + volume) <= flowed
  BY DEF PlotSideInv, MeterInv, Conserved
<1>7. /\ published' + unpublished' + (counter' + counted' + volume') = flowed'
      /\ credited' + (counter' + counted' + volume') <= flowed'
  <2>1. counter \in Nat /\ counted \in Nat /\ volume \in Nat
    BY MeterFields DEF PlotSideInv
  <2>2. counter' + counted' + volume' = counter + counted + volume
    BY <1>5, <2>1
  <2> QED
    BY <1>5, <1>6, <2>2
<1>8. counted' \in 0 .. MaxWater /\ counter' \in 0 .. MaxWater /\ volume' \in 0 .. MaxWater
  <2>1. /\ counter \in Nat /\ counted \in Nat /\ volume \in Nat /\ unpublished \in Nat
        /\ published \in Nat /\ credited \in Nat /\ flowed \in 0 .. MaxWater /\ MaxWater \in Nat
    BY MeterFields, WaterAssumption DEF PlotSideInv
  <2> QED
    BY <1>5, <1>6, <2>1
<1>9. MeterTypeOK'
  BY <1>5, <1>8 DEF PlotSideInv, MeterInv, MeterTypeOK
<1>10. MeterInv'
  BY <1>1, <1>5, <1>7, <1>9 DEF PlotSideInv, MeterInv, Conserved, plotVars
<1> QED
  BY <1>2, <1>3, <1>4, <1>10 DEF PlotSideInv

LEMMA PlotTelemetryKeeps ==
  ASSUME PlotSideInv, acting = "plot", PlotTelemetry, acting' = acting
  PROVE  PlotSideInv'
<1>1. UNCHANGED plotVars
  BY DEF PlotTelemetry
<1>2. /\ LoopTypeOK' /\ OverrideObeyed'
      /\ UNCHANGED <<phase, wait, lag, asked, configQueue, override>>
  BY TakeRequestSays DEF PlotSideInv, PlotTelemetry
<1>3. PlotTypeOK'
  BY <1>1, PlotFrame DEF PlotSideInv
<1>4. PlotInv'
  BY <1>1, <1>2 DEF PlotSideInv, PlotInv, SchedulesObeyed, PulseObeyed, PulseFollowed, plotVars
<1>5. /\ volume' = 0 /\ UNCHANGED <<counter, counted, flowed, credited>>
      /\ published' = published + unpublished + volume /\ unpublished' = 0
  BY DEF PlotTelemetry, populateTelemetry, getVolumeAndReset
<1>6. /\ published + unpublished + (counter + counted + volume) = flowed
      /\ credited + (counter + counted + volume) <= flowed
  BY DEF PlotSideInv, MeterInv, Conserved
<1>r. /\ counter \in Nat /\ counted \in Nat /\ volume \in Nat /\ unpublished \in Nat
      /\ published \in Nat /\ credited \in Nat /\ flowed \in 0 .. MaxWater /\ MaxWater \in Nat
  BY MeterFields, WaterAssumption DEF PlotSideInv
<1>7. /\ published' + unpublished' + (counter' + counted' + volume') = flowed'
      /\ credited' + (counter' + counted' + volume') <= flowed'
  <2>1. /\ (published + unpublished + volume) + 0 + (counter + counted + 0)
             = published + unpublished + (counter + counted + volume)
        /\ credited + (counter + counted + 0) <= credited + (counter + counted + volume)
    BY <1>r
  <2>2. credited + (counter + counted + 0) <= flowed
    BY <1>6, <1>r, <2>1
  <2> QED
    BY <1>5, <1>6, <2>1, <2>2
<1>8. published' \in 0 .. MaxWater /\ 0 \in 0 .. MaxWater
  <2>1. published + unpublished + volume <= flowed
    BY <1>6, <1>r
  <2> QED
    BY <1>5, <1>r, <2>1
<1>9. MeterTypeOK'
  BY <1>5, <1>8 DEF PlotSideInv, MeterInv, MeterTypeOK
<1>10. MeterInv'
  BY <1>1, <1>5, <1>7, <1>9 DEF PlotSideInv, MeterInv, Conserved, plotVars
<1> QED
  BY <1>2, <1>3, <1>4, <1>10 DEF PlotSideInv

-----------------------------------------------------------------------------
(* The chicken door's function.                                            *)

ChickenConfigs == [override : Overrides, delays : Delays]

\* What holds of the function at any time, in one piece.
ChickenSideInv ==
  /\ LoopTypeOK /\ ChickenTypeOK
  /\ configQueue \in Seq(ChickenConfigs)
  /\ OverrideObeyed /\ DelayInv

DelayTypeOK(d) ==
  /\ d = [committed |-> d.committed, pending |-> d.pending, since |-> d.since]
  /\ IsOptional(d.committed, States) /\ IsOptional(d.pending, States) /\ IsOptional(d.since, 0 .. MaxDelay + 1)

LEMMA DelayTyped ==
  ASSUME NEW d
  PROVE  DelayTypeOK(d) <=>
           /\ d \in [committed : SUBSET States, pending : SUBSET States, since : SUBSET (0 .. MaxDelay + 1)]
           /\ \A field \in DOMAIN d : \A x, y \in d[field] : x = y
<1> DEFINE Type == [committed : SUBSET States, pending : SUBSET States, since : SUBSET (0 .. MaxDelay + 1)]
<1>1. ASSUME DelayTypeOK(d)
      PROVE  d \in Type /\ \A field \in DOMAIN d : \A x, y \in d[field] : x = y
  <2> DEFINE r == [committed |-> d.committed, pending |-> d.pending, since |-> d.since]
  <2>1. d = r
    BY <1>1 DEF DelayTypeOK
  <2>2. DOMAIN r = {"committed", "pending", "since"} /\ r \in Type
    BY <1>1 DEF DelayTypeOK, IsOptional
  <2>3. DOMAIN d = {"committed", "pending", "since"} /\ d \in Type
    BY <2>1, <2>2
  <2> QED
    BY <1>1, <2>3 DEF DelayTypeOK, IsOptional
<1>2. ASSUME d \in Type, \A field \in DOMAIN d : \A x, y \in d[field] : x = y
      PROVE  DelayTypeOK(d)
  <2>1. DOMAIN d = {"committed", "pending", "since"} /\ d = [committed |-> d.committed, pending |-> d.pending, since |-> d.since]
    BY <1>2
  <2>2. d.committed \subseteq States /\ d.pending \subseteq States /\ d.since \subseteq 0 .. MaxDelay + 1
    BY <1>2
  <2> QED
    BY <1>2, <2>1, <2>2 DEF DelayTypeOK, IsOptional
<1> QED
  BY <1>1, <1>2

LEMMA DelayForType ==
  ASSUME NEW s, NEW d \in [open : 0 .. MaxDelay, close : 0 .. MaxDelay]
  PROVE  DelayFor(s, d) \in 0 .. MaxDelay /\ MaxDelay \in Nat
  BY DelayAssumption DEF DelayFor

\* The delay asks to be looked at again before the transition that it holds back is due.
LEMMA DelaySays ==
  ASSUME NEW d, DelayTypeOK(d), NEW ds \in [open : 0 .. MaxDelay, close : 0 .. MaxDelay],
         NEW target, NEW deadline, IsOptional(target, States), IsOptional(deadline, Nat)
  PROVE  LET tick == DelayTick(d, ds, ScheduleResult(target, deadline, FALSE)) IN
         /\ ResultTypeOK(tick.result) /\ DelayTypeOK(tick.delay)
         /\ \A n \in tick.delay.since :
              /\ tick.result.nextDeadline # {} /\ tick.delay.pending # {}
              /\ \A w \in tick.result.nextDeadline, s \in tick.delay.pending : w + n <= DelayFor(s, ds)
<1> DEFINE inner == ScheduleResult(target, deadline, FALSE)
           tick == DelayTick(d, ds, inner)
           transition == Pending(d, target)
           remaining == DelayFor(CHOOSE s \in target : TRUE, ds) - Max(transition.since)
           Good(t) ==
             /\ ResultTypeOK(t.result) /\ DelayTypeOK(t.delay)
             /\ \A n \in t.delay.since :
                  /\ t.result.nextDeadline # {} /\ t.delay.pending # {}
                  /\ \A w \in t.result.nextDeadline, s \in t.delay.pending : w + n <= DelayFor(s, ds)
<1> SUFFICES Good(tick)
  OBVIOUS
<1>1. inner.targetState = target /\ inner.nextDeadline = deadline
  BY DEF ScheduleResult
<1>2. CASE target = {} \/ (d.committed # {} /\ target = d.committed)
  <2>1. tick = [delay |-> Delay(d.committed, NoTransition), result |-> [inner EXCEPT !.targetState = d.committed]]
    BY <1>1, <1>2 DEF DelayTick
  <2>a. [inner EXCEPT !.targetState = d.committed] = ScheduleResult(d.committed, deadline, FALSE)
    <3> DEFINE e == [inner EXCEPT !.targetState = d.committed]
    <3>1. inner \in [targetState : {target}, nextDeadline : {deadline}, shouldPublishTelemetry : {FALSE}]
      BY DEF ScheduleResult
    <3>2. e \in [targetState : {d.committed}, nextDeadline : {deadline}, shouldPublishTelemetry : {FALSE}]
      <4> HIDE DEF inner
      <4> QED
        BY <3>1
    <3> HIDE DEF e
    <3>3. e = [targetState |-> e.targetState, nextDeadline |-> e.nextDeadline,
               shouldPublishTelemetry |-> e.shouldPublishTelemetry]
      BY <3>2
    <3>4. e.targetState = d.committed /\ e.nextDeadline = deadline
      BY <3>2
    <3>5. e.shouldPublishTelemetry = FALSE
      BY <3>2
    <3>6. e = ScheduleResult(d.committed, deadline, FALSE)
      BY <3>3, <3>4, <3>5 DEF ScheduleResult
    <3> QED
      BY <3>6 DEF e
  <2>b. Delay(d.committed, NoTransition) = [committed |-> d.committed, pending |-> {}, since |-> {}]
    BY DEF Delay, NoTransition
  <2> HIDE DEF tick, inner
  <2>2. tick.result = ScheduleResult(d.committed, deadline, FALSE)
    BY <2>1, <2>a
  <2>3. tick.delay = [committed |-> d.committed, pending |-> {}, since |-> {}]
    BY <2>1, <2>b
  <2>4. ResultTypeOK(tick.result)
    BY <2>2 DEF ResultTypeOK, ScheduleResult, DelayTypeOK
  <2>5. DelayTypeOK(tick.delay) /\ tick.delay.since = {}
    BY <2>3 DEF DelayTypeOK, IsOptional
  <2> QED
    BY <2>4, <2>5
<1>3. CASE target # {} /\ (d.committed = {} \/ (target # d.committed /\ remaining <= 0))
  <2>1. tick = [delay |-> Delay(target, NoTransition), result |-> ScheduleResult(target, deadline, TRUE)]
    BY <1>1, <1>3 DEF DelayTick
  <2>a. Delay(target, NoTransition) = [committed |-> target, pending |-> {}, since |-> {}]
    BY DEF Delay, NoTransition
  <2> HIDE DEF tick
  <2>2. tick.result = ScheduleResult(target, deadline, TRUE)
    BY <2>1
  <2>3. tick.delay = [committed |-> target, pending |-> {}, since |-> {}]
    BY <2>1, <2>a
  <2>4. ResultTypeOK(tick.result)
    BY <2>2 DEF ResultTypeOK, ScheduleResult
  <2>5. DelayTypeOK(tick.delay) /\ tick.delay.since = {}
    BY <2>3 DEF DelayTypeOK, IsOptional
  <2> QED
    BY <2>4, <2>5
<1>4. CASE target # {} /\ d.committed # {} /\ target # d.committed /\ ~(remaining <= 0)
  <2>1. PICK s : target = {s}
    <3>1. PICK s : s \in target
      BY <1>4
    <3> QED
      BY <3>1 DEF IsOptional
  <2>2. (CHOOSE x \in target : TRUE) = s
    BY <2>1
  <2>3. PICK n \in 0 .. MaxDelay + 1 : transition.since = {n} /\ transition.pending = target
    <3>1. CASE d.since = {} \/ d.pending # target
      <4>1. transition = [pending |-> target, since |-> {0}]
        BY <3>1 DEF Pending
      <4>2. 0 \in 0 .. MaxDelay + 1
        BY DelayAssumption
      <4> QED
        BY <4>1, <4>2
    <3>2. CASE d.since # {} /\ d.pending = target
      <4>1. transition = [pending |-> target, since |-> d.since]
        BY <3>2 DEF Pending
      <4>2. PICK n : n \in d.since
        BY <3>2
      <4>3. d.since = {n} /\ n \in 0 .. MaxDelay + 1
        BY <4>2 DEF DelayTypeOK, IsOptional
      <4> QED
        BY <4>1, <4>3
    <3> QED
      BY <3>1, <3>2
  <2>a. n \in Nat
    BY DelayAssumption
  <2>b. Max({n}) = n
    BY <2>a, OnlyOne
  <2>4. n \in Nat /\ Max({n}) = n
    BY <2>a, <2>b
  <2>5. remaining = DelayFor(s, ds) - n
    BY <2>2, <2>3, <2>4
  <2>6. remaining \in Nat
    <3>1. DelayFor(s, ds) - n \in Int
      BY <2>4, DelayForType
    <3> HIDE DEF remaining
    <3> QED
      BY <1>4, <2>5, <3>1
  <2>7. tick = [delay |-> Delay(d.committed, transition),
                result |-> ScheduleResult(d.committed, minDuration(deadline, {remaining}), FALSE)]
    BY <1>1, <1>4 DEF DelayTick
  <2> HIDE DEF remaining, transition, tick
  <2>8. tick.result = ScheduleResult(d.committed, minDuration(deadline, {remaining}), FALSE)
        /\ tick.delay = [committed |-> d.committed, pending |-> target, since |-> {n}]
    BY <2>3, <2>7 DEF Delay
  <2>9. /\ IsOptional(minDuration(deadline, {remaining}), Nat) /\ minDuration(deadline, {remaining}) # {}
        /\ \A w \in minDuration(deadline, {remaining}) : w \in Nat /\ w <= remaining
    <3> DEFINE b == {remaining}
    <3>1. IsOptional(b, Nat) /\ b # {} /\ \A w \in b : w = remaining
      BY <2>6 DEF IsOptional
    <3> HIDE DEF b
    <3>2. /\ IsOptional(minDuration(deadline, b), Nat) /\ minDuration(deadline, b) # {}
          /\ \A w \in minDuration(deadline, b) : w \in Nat /\ w <= remaining
      <4> DEFINE m == minDuration(deadline, b)
      <4>1. /\ IsOptional(m, Nat) /\ (m = {} <=> deadline = {} /\ b = {})
            /\ \A w \in m : \A x \in deadline \cup b : w <= x
        BY <3>1, MinDuration
      <4>2. m # {} /\ \A w \in m : w \in Nat /\ w <= remaining
        <5> HIDE DEF m
        <5> QED
          BY <3>1, <4>1 DEF IsOptional
      <4> QED
        BY <4>1, <4>2
    <3> QED
      BY <3>2 DEF b
  <2>10. ResultTypeOK(tick.result) /\ tick.result.nextDeadline = minDuration(deadline, {remaining})
    BY <2>8, <2>9 DEF ResultTypeOK, ScheduleResult, DelayTypeOK
  <2>11. IsOptional({n}, 0 .. MaxDelay + 1)
    BY <2>3 DEF IsOptional
  <2>12. DelayTypeOK(tick.delay) /\ tick.delay.since = {n} /\ tick.delay.pending = {s}
    BY <2>1, <2>8, <2>11 DEF DelayTypeOK
  <2>13. \A w \in minDuration(deadline, {remaining}) : w + n <= DelayFor(s, ds)
    BY <2>4, <2>5, <2>6, <2>9, DelayForType
  <2> QED
    BY <2>9, <2>10, <2>12, <2>13
<1> QED
  BY <1>2, <1>3, <1>4

LEMMA ChickenTickKeeps ==
  ASSUME ChickenSideInv, acting = "chicken", ChickenTick, acting' = acting
  PROVE  ChickenSideInv'
<1> DEFINE first == OverrideTick(override)
           inner == LightTick(lightOn, level)
           delayed == DelayTick(delay, delays, inner)
           second == merge(first, delayed.result)
<1>1. /\ IsOptional(OverrideKept(override), Override) /\ ResultTypeOK(first)
      /\ OverrideKept(override) # {} =>
           \E x \in Override : /\ OverrideKept(override) = {x} /\ x.left > 0
                               /\ first = ScheduleResult({x.state}, {x.left}, FALSE)
      /\ OverrideKept(override) = {} => first.targetState = {} /\ first.nextDeadline = {}
  BY OverrideSays DEF ChickenSideInv, LoopTypeOK
<1>2. /\ override' = OverrideKept(override) /\ UNCHANGED <<level, lightOn, delays>>
      /\ IF first.targetState # {} THEN Evaluate(first) /\ UNCHANGED delay
         ELSE Evaluate(second) /\ delay' = delayed.delay
  BY DEF ChickenTick
<1>3. DelayTypeOK(delay) /\ delays \in [open : 0 .. MaxDelay, close : 0 .. MaxDelay]
  BY DelayTyped DEF ChickenSideInv, ChickenTypeOK
<1>4. /\ ResultTypeOK(delayed.result) /\ DelayTypeOK(delayed.delay)
      /\ \A n \in delayed.delay.since :
           /\ delayed.result.nextDeadline # {} /\ delayed.delay.pending # {}
           /\ \A w \in delayed.result.nextDeadline, s \in delayed.delay.pending : w + n <= DelayFor(s, delays)
  <2>1. PICK target, deadline : /\ inner = ScheduleResult(target, deadline, FALSE)
                                /\ IsOptional(target, States) /\ IsOptional(deadline, Nat)
    <3>1. level \in {"bright", "dusk", "dark"}
      BY DEF ChickenSideInv, ChickenTypeOK, Levels
    <3>2. IsOptional({}, States) /\ IsOptional({}, Nat) /\ IsOptional({"Open"}, States)
          /\ IsOptional({"Closed"}, States) /\ IsOptional({2}, Nat)
      BY DEF IsOptional, States
    <3>3. CASE ~lightOn
      BY <3>2, <3>3 DEF LightTick, NoOpinion
    <3>4. CASE lightOn
      <4> DEFINE wanted == CASE level = "bright" -> {"Open"} [] level = "dark" -> {"Closed"} [] OTHER -> {}
      <4>1. inner = ScheduleResult(wanted, {2}, FALSE)
        BY <3>4 DEF LightTick
      <4>2. wanted \in {{"Open"}, {"Closed"}, {}}
        BY <3>1
      <4> HIDE DEF wanted, inner
      <4> QED
        BY <3>2, <4>1, <4>2
    <3> QED
      BY <3>3, <3>4
  <2> HIDE DEF inner
  <2> QED
    BY <1>3, <2>1, DelaySays
<1> HIDE DEF first, delayed
<1>5. CASE override' # {}
  <2>1. PICK x \in Override : override' = {x} /\ first = ScheduleResult({x.state}, {x.left}, FALSE)
    BY <1>1, <1>2, <1>5
  <2>2. first.targetState = {x.state} /\ first.nextDeadline = {x.left}
    BY <2>1 DEF ScheduleResult
  <2>3. Evaluate(first) /\ UNCHANGED delay
    BY <1>2, <2>2
  <2>4. /\ LoopTypeOK' /\ phase' \in {"moving", "waiting"} /\ lag' = 0
        /\ asked' = {OrClosed(first)} /\ wait' = first.nextDeadline /\ configQueue' = configQueue
    BY <1>1, <1>2, <2>3, EvaluateSays DEF ChickenSideInv
  <2>5. OrClosed(first) = x.state
    BY <1>1, <2>2, OrClosedSays DEF ResultTypeOK
  <2>6. x.left \in Nat /\ x.left <= x.left + 0
    BY DEF Override
  <2>7. OverrideObeyed'
    BY <2>1, <2>2, <2>4, <2>5, <2>6 DEF OverrideObeyed
  <2>8. DelayInv'
    BY <1>5 DEF DelayInv
  <2>9. ChickenTypeOK'
    BY <1>2, <2>3 DEF ChickenSideInv, ChickenTypeOK
  <2> QED
    BY <2>4, <2>7, <2>8, <2>9 DEF ChickenSideInv
<1>6. CASE override' = {}
  <2>1. first.targetState = {} /\ first.nextDeadline = {}
    BY <1>1, <1>2, <1>6
  <2>2. Evaluate(second) /\ delay' = delayed.delay
    BY <1>2, <2>1
  <2>3. /\ second.targetState = delayed.result.targetState /\ second.nextDeadline = delayed.result.nextDeadline
        /\ second.shouldPublishTelemetry \in BOOLEAN
    BY <1>1, <1>4, <2>1, MergeSecond DEF ResultTypeOK
  <2> HIDE DEF second
  <2>4. ResultTypeOK(second)
    BY <1>4, <2>3 DEF ResultTypeOK
  <2>5. /\ LoopTypeOK' /\ phase' \in {"moving", "waiting"} /\ lag' = 0
        /\ wait' = second.nextDeadline /\ configQueue' = configQueue
    BY <1>1, <1>2, <2>2, <2>4, EvaluateSays DEF ChickenSideInv
  <2>6. OverrideObeyed'
    BY <1>6 DEF OverrideObeyed
  <2>7. ChickenTypeOK'
    <3>1. /\ delay' \in [committed : SUBSET States, pending : SUBSET States, since : SUBSET (0 .. MaxDelay + 1)]
          /\ \A field \in DOMAIN delay' : \A x, y \in delay'[field] : x = y
      BY <1>4, <2>2, DelayTyped
    <3> QED
      BY <1>2, <3>1 DEF ChickenSideInv, ChickenTypeOK
  <2>8. DelayInv'
    <3> SUFFICES ASSUME NEW n \in delay'.since
                 PROVE  /\ wait' # {} /\ delay'.pending # {}
                        /\ \A w \in wait', s \in delay'.pending : w + n <= DelayFor(s, delays') + lag'
      BY DEF DelayInv
    <3>1. /\ wait' # {} /\ delay'.pending # {}
          /\ \A w \in wait', s \in delay'.pending : w + n <= DelayFor(s, delays)
      BY <1>4, <2>2, <2>3, <2>5
    <3>2. \A s : DelayFor(s, delays) + 0 = DelayFor(s, delays)
      BY <1>3, DelayForType
    <3> QED
      BY <1>2, <2>5, <3>1, <3>2
  <2> QED
    BY <2>5, <2>6, <2>7, <2>8 DEF ChickenSideInv
<1> QED
  BY <1>5, <1>6

LEMMA ConfigureDoorKeeps ==
  ASSUME ChickenSideInv, acting = "chicken", configureDoor, acting' = acting
  PROVE  ChickenSideInv'
<1>1. PICK o \in Overrides, d \in Delays : Send([override |-> o, delays |-> d]) /\ UNCHANGED chickenVars
  BY DEF configureDoor
<1> DEFINE c == [override |-> o, delays |-> d]
<1>2. c \in ChickenConfigs /\ Send(c)
  BY <1>1 DEF ChickenConfigs
<1> HIDE DEF c
<1>3. /\ LoopTypeOK' /\ OverrideObeyed' /\ configQueue' = <<c>>
      /\ UNCHANGED <<phase, wait, lag, asked, override>>
  BY <1>2, SendSays DEF ChickenSideInv
<1>4. ChickenTypeOK'
  BY <1>1, ChickenFrame DEF ChickenSideInv
<1>5. DelayInv'
  BY <1>1, <1>3 DEF ChickenSideInv, DelayInv, chickenVars
<1>6. configQueue' \in Seq(ChickenConfigs)
  BY <1>2, <1>3
<1> QED
  BY <1>3, <1>4, <1>5, <1>6 DEF ChickenSideInv

LEMMA ChickenTakesConfigKeeps ==
  ASSUME ChickenSideInv, acting = "chicken", ChickenTakesConfig, acting' = acting
  PROVE  ChickenSideInv'
<1> DEFINE c == Head(configQueue)
<1>1. \A x \in ChickenConfigs : x.override \in Overrides /\ x.delays \in Delays
  BY DEF ChickenConfigs
<1>2. /\ LoopTypeOK' /\ OverrideObeyed' /\ c \in ChickenConfigs /\ phase' = "evaluate" /\ configQueue' = <<>>
  BY <1>1, TakeConfigSays DEF ChickenSideInv, ChickenTakesConfig
<1>3. delays' = c.delays /\ lightOn' = TRUE /\ UNCHANGED <<level, delay>>
  BY DEF ChickenTakesConfig
<1> HIDE DEF c
<1>4. delays' \in [open : 0 .. MaxDelay, close : 0 .. MaxDelay]
  BY <1>1, <1>2, <1>3, DelayAssumption
<1>5. ChickenTypeOK'
  BY <1>3, <1>4 DEF ChickenSideInv, ChickenTypeOK
<1>6. DelayInv'
  BY <1>2 DEF DelayInv
<1>7. configQueue' \in Seq(ChickenConfigs)
  BY <1>2
<1> QED
  BY <1>2, <1>5, <1>6, <1>7 DEF ChickenSideInv

LEMMA ChickenElapsesKeeps ==
  ASSUME ChickenSideInv, acting = "chicken", ChickenElapses, acting' = acting
  PROVE  ChickenSideInv'
<1>1. /\ LoopTypeOK' /\ OverrideObeyed'
      /\ UNCHANGED <<phase, asked, configQueue>>
      /\ override' = {} <=> override = {}
      /\ \/ phase = "moving" /\ lag < MaxLag /\ lag' = lag + 1 /\ wait' = wait
         \/ /\ phase = "waiting" /\ lag' = lag /\ wait' = {n - 1 : n \in wait}
            /\ \A n \in wait : n \in Nat \ {0}
  BY LoopElapsesSays DEF ChickenSideInv, ChickenElapses
<1>2. /\ delay' = [delay EXCEPT !.since = {Min({MaxDelay + 1, n + 1}) : n \in delay.since}]
      /\ UNCHANGED <<level, lightOn, delays>>
  BY DEF ChickenElapses
<1>3. DelayTypeOK(delay) /\ delays \in [open : 0 .. MaxDelay, close : 0 .. MaxDelay] /\ MaxDelay \in Nat
  BY DelayAssumption, DelayTyped DEF ChickenSideInv, ChickenTypeOK
<1> DEFINE Next(n) == IF n = MaxDelay + 1 THEN n ELSE n + 1
<1>4. \A n \in delay.since : /\ n \in 0 .. MaxDelay + 1 /\ Min({MaxDelay + 1, n + 1}) = Next(n)
                             /\ Next(n) \in 0 .. MaxDelay + 1 /\ Next(n) <= n + 1
  <2> SUFFICES ASSUME NEW n \in delay.since
               PROVE  /\ n \in 0 .. MaxDelay + 1 /\ Min({MaxDelay + 1, n + 1}) = Next(n)
                      /\ Next(n) \in 0 .. MaxDelay + 1 /\ Next(n) <= n + 1
    OBVIOUS
  <2>1. n \in 0 .. MaxDelay + 1
    BY <1>3 DEF DelayTypeOK, IsOptional
  <2> QED
    BY <1>3, <2>1, MinPair
<1>5. delay' = [committed |-> delay.committed, pending |-> delay.pending, since |-> {Next(n) : n \in delay.since}]
  <2> HIDE DEF Next
  <2>1. \A n \in delay.since : Min({MaxDelay + 1, n + 1}) = Next(n)
    BY <1>4
  <2>3. {Min({MaxDelay + 1, n + 1}) : n \in delay.since} = {Next(n) : n \in delay.since}
    BY <2>1, Zenon
  <2> QED
    BY <1>2, <1>3, <2>3 DEF DelayTypeOK
<1> HIDE DEF Next
<1>6. DelayTypeOK(delay')
  <2>1. delay'.committed = delay.committed /\ delay'.pending = delay.pending
        /\ delay'.since = {Next(n) : n \in delay.since}
    BY <1>5
  <2>2. \A n \in delay.since : Next(n) \in 0 .. MaxDelay + 1
    BY <1>4
  <2>3. \A x, y \in delay.since : x = y
    BY <1>3 DEF DelayTypeOK, IsOptional
  <2>4. delay'.since \subseteq 0 .. MaxDelay + 1 /\ \A x, y \in delay'.since : x = y
    BY <2>1, <2>2, <2>3
  <2>5. delay' = [committed |-> delay'.committed, pending |-> delay'.pending, since |-> delay'.since]
    BY <1>5
  <2> QED
    BY <1>3, <2>1, <2>4, <2>5 DEF DelayTypeOK, IsOptional
<1>7. ChickenTypeOK'
  BY <1>2, <1>6, DelayTyped DEF ChickenSideInv, ChickenTypeOK
<1>8. DelayInv'
  <2> SUFFICES ASSUME phase # "evaluate", override = {}, NEW n \in delay.since
               PROVE  /\ wait' # {} /\ delay'.pending # {}
                      /\ \A w \in wait', s \in delay'.pending : w + Next(n) <= DelayFor(s, delays') + lag'
    BY <1>1, <1>5 DEF DelayInv
  <2>1. /\ wait # {} /\ delay.pending # {}
        /\ \A w \in wait, s \in delay.pending : w + n <= DelayFor(s, delays) + lag
    BY DEF ChickenSideInv, DelayInv
  <2>2. /\ \A w \in wait : w \in Nat
        /\ lag \in Nat /\ n \in Nat /\ Next(n) \in Nat /\ Next(n) <= n + 1
    <3>1. \A w \in wait : w \in Nat
      BY DEF ChickenSideInv, LoopTypeOK, IsOptional
    <3>2. lag \in Nat
      BY LoopAssumption DEF ChickenSideInv, LoopTypeOK
    <3>3. n \in Nat /\ Next(n) \in Nat /\ Next(n) <= n + 1
      <4>1. n \in 0 .. MaxDelay + 1 /\ Next(n) \in 0 .. MaxDelay + 1 /\ Next(n) <= n + 1
        BY <1>4
      <4>2. 0 .. MaxDelay + 1 \subseteq Nat
        BY DelayAssumption
      <4> QED
        BY <4>1, <4>2
    <3> QED
      BY <3>1, <3>2, <3>3
  <2>3. \A s \in delay.pending : DelayFor(s, delays) \in Nat
    BY <1>3, DelayForType
  <2>4. wait' # {} /\ delay'.pending # {}
    BY <1>1, <1>5, <2>1
  <2>5. ASSUME NEW w \in wait', NEW s \in delay.pending PROVE w + Next(n) <= DelayFor(s, delays) + lag'
    <3>1. CASE lag' = lag + 1 /\ wait' = wait
      BY <2>1, <2>2, <2>3, <3>1
    <3>2. CASE lag' = lag /\ wait' = {k - 1 : k \in wait} /\ \A k \in wait : k \in Nat \ {0}
      <4>1. PICK k \in wait : w = k - 1
        BY <3>2
      <4>2. k + n <= DelayFor(s, delays) + lag
        BY <2>1
      <4> QED
        BY <2>2, <2>3, <3>2, <4>1, <4>2
    <3> QED
      BY <1>1, <3>1, <3>2
  <2>6. delays' = delays /\ delay'.pending = delay.pending
    BY <1>2, <1>5
  <2> QED
    BY <2>4, <2>5, <2>6
<1> QED
  BY <1>1, <1>7, <1>8 DEF ChickenSideInv

LEMMA ChickenRestKeeps ==
  ASSUME ChickenSideInv, acting = "chicken", LightChanges \/ ChickenLoopGoesOn \/ ChickenTelemetry, acting' = acting
  PROVE  ChickenSideInv'
<1>1. CASE LightChanges
  <2>1. level' \in Levels /\ UNCHANGED <<loopVars, lightOn, delays, delay>>
    BY <1>1 DEF LightChanges
  <2> QED
    BY <2>1 DEF ChickenSideInv, LoopTypeOK, ChickenTypeOK, OverrideObeyed, DelayInv, loopVars
<1>2. CASE ChickenLoopGoesOn
  <2>1. /\ LoopTypeOK' /\ OverrideObeyed'
        /\ UNCHANGED <<wait, lag, asked, configQueue, override>>
        /\ \/ phase = "moving" /\ phase' = "waiting"
           \/ phase = "waiting" /\ phase' = "evaluate" /\ wait = {0}
    BY <1>2, ArriveSays DEF ChickenSideInv, ChickenLoopGoesOn
  <2>2. UNCHANGED chickenVars
    BY <1>2 DEF ChickenLoopGoesOn
  <2>3. ChickenTypeOK'
    BY <2>2, ChickenFrame DEF ChickenSideInv
  <2>4. DelayInv'
    BY <2>1, <2>2 DEF ChickenSideInv, DelayInv, chickenVars
  <2> QED
    BY <2>1, <2>3, <2>4 DEF ChickenSideInv
<1>3. CASE ChickenTelemetry
  <2>1. /\ LoopTypeOK' /\ OverrideObeyed'
        /\ UNCHANGED <<phase, wait, lag, asked, configQueue, override>>
    BY <1>3, TakeRequestSays DEF ChickenSideInv, ChickenTelemetry
  <2>2. UNCHANGED chickenVars
    BY <1>3 DEF ChickenTelemetry
  <2>3. ChickenTypeOK'
    BY <2>2, ChickenFrame DEF ChickenSideInv
  <2>4. DelayInv'
    BY <2>1, <2>2 DEF ChickenSideInv, DelayInv, chickenVars
  <2> QED
    BY <2>1, <2>3, <2>4 DEF ChickenSideInv
<1> QED
  BY <1>1, <1>2, <1>3

-----------------------------------------------------------------------------
(* The valve.                                                              *)

\* What holds of the valve at any time, in one piece.
ValveSideInv == ValveTypeOK /\ ValveInv

Transition == [at : Steps, target : Targets]

LEMMA DrivingCount ==
  ASSUME NEW steps
  PROVE  Cardinality({m \in Movers : steps[m].at = "driving"}) = IsDriving(steps, "function") + IsDriving(steps, "shutdown")
<1> DEFINE driving == {m \in Movers : steps[m].at = "driving"}
<1>1. CASE steps["function"].at = "driving" /\ steps["shutdown"].at = "driving"
  <2>1. driving = {"function"} \cup {"shutdown"}
    BY <1>1 DEF Movers
  <2>2. IsFiniteSet({"function"}) /\ Cardinality({"function"}) = 1 /\ "shutdown" \notin {"function"}
    BY FS_Singleton
  <2>3. Cardinality({"function"} \cup {"shutdown"}) = Cardinality({"function"}) + 1
    BY <2>2, FS_AddElement
  <2> HIDE DEF driving
  <2> QED
    BY <1>1, <2>1, <2>2, <2>3 DEF IsDriving, driving
<1>2. CASE steps["function"].at = "driving" /\ steps["shutdown"].at # "driving"
  <2>1. driving = {"function"}
    BY <1>2 DEF Movers
  <2>2. Cardinality(driving) = 1
    BY <2>1, FS_Singleton
  <2> QED
    BY <1>2, <2>2 DEF IsDriving
<1>3. CASE steps["function"].at # "driving" /\ steps["shutdown"].at = "driving"
  <2>1. driving = {"shutdown"}
    BY <1>3 DEF Movers
  <2>2. Cardinality(driving) = 1
    BY <2>1, FS_Singleton
  <2> QED
    BY <1>3, <2>2 DEF IsDriving
<1>4. CASE steps["function"].at # "driving" /\ steps["shutdown"].at # "driving"
  <2>1. driving = {}
    BY <1>4 DEF Movers
  <2>2. Cardinality(driving) = 0
    BY <2>1, FS_EmptySet
  <2> QED
    BY <1>4, <2>2 DEF IsDriving
<1> QED
  BY <1>1, <1>2, <1>3, <1>4

LEMMA GoesSays ==
  ASSUME ValveTypeOK, NEW m \in Movers, NEW at \in Steps, Goes(m, at)
  PROVE  /\ step' \in [Movers -> Transition]
         /\ step'[m].at = at /\ step'[m].target = step[m].target
         /\ \A k \in Movers \ {m} : step'[k] = step[k]
<1>1. step \in [Movers -> Transition]
  BY DEF ValveTypeOK, Transition
<1>2. step[m] \in Transition
  BY <1>1
<1> DEFINE moved == [step[m] EXCEPT !.at = at]
<1>3. moved \in Transition /\ moved.at = at /\ moved.target = step[m].target
  BY <1>2 DEF Transition
<1>4. step' = [step EXCEPT ![m] = moved]
  BY DEF Goes
<1> HIDE DEF moved
<1> QED
  BY <1>1, <1>3, <1>4

\* What a transition does to the timers' account: nothing, unless it starts or ends a pulse.
LEMMA StepFits ==
  ASSUME ValveSideInv, NEW m \in Movers, NEW at \in Steps, Goes(m, at), UNCHANGED kind,
         IF kind # "latching" THEN timers' = timers
         ELSE IF at = "driving" THEN step[m].at # "driving" /\ timers > 0 /\ timers' = timers - 1
         ELSE IF step[m].at = "driving" THEN timers' = timers + 1
         ELSE timers' = timers
  PROVE  TimersFit' /\ timers' \in 0 .. HardwareTimers
<1>1. /\ step'[m].at = at
      /\ \A k \in Movers \ {m} : step'[k] = step[k]
  BY GoesSays DEF ValveSideInv
<1>2. timers \in 0 .. HardwareTimers /\ TimersFit
  BY DEF ValveSideInv, ValveTypeOK, ValveInv
<1>3. CASE m = "function"
  BY <1>1, <1>2, <1>3 DEF TimersFit, IsDriving, Movers, HardwareTimers
<1>4. CASE m = "shutdown"
  BY <1>1, <1>2, <1>4 DEF TimersFit, IsDriving, Movers, HardwareTimers
<1> QED
  BY <1>3, <1>4 DEF Movers

\* A step keeps the invariant, if it leaves the valve and the bridge where its next step expects them.
LEMMA StepKeeps ==
  ASSUME ValveSideInv, NEW m \in Movers, NEW at \in Steps, Goes(m, at), TimersFit', timers' \in 0 .. HardwareTimers,
         UNCHANGED <<kind, stopping, crashes>>, step[m].at # "idle",
         valveState' \in {{}} \cup {{s} : s \in Targets},
         bridge' \in [phase : Targets, power : {"off", "full", "hold", "brake"}],
         position' \in Targets,
         stopping = "no" /\ m = "function" => StepKnown(step["function"])'
  PROVE  ValveSideInv'
<1>1. /\ step' \in [Movers -> Transition]
      /\ \A k \in Movers \ {m} : step'[k] = step[k]
  BY GoesSays DEF ValveSideInv
<1>2. ValveTypeOK'
  BY <1>1 DEF ValveSideInv, ValveTypeOK, Transition
<1>3. ASSUME stopping' = "no" PROVE step'["shutdown"].at = "idle" /\ StepKnown(step["function"])'
  <2>1. step["shutdown"].at = "idle"
    BY <1>3 DEF ValveSideInv, ValveInv
  <2>2. m = "function"
    BY <2>1 DEF Movers
  <2>3. step'["shutdown"] = step["shutdown"]
    BY <1>1, <2>2 DEF Movers
  <2> QED
    BY <1>3, <2>1, <2>2, <2>3
<1> QED
  BY <1>2, <1>3 DEF ValveSideInv, ValveInv

LEMMA ValveFields ==
  ASSUME ValveSideInv, NEW m \in Movers
  PROVE  /\ valveState \in {{}} \cup {{s} : s \in Targets}
         /\ bridge \in [phase : Targets, power : {"off", "full", "hold", "brake"}]
         /\ position \in Targets /\ timers \in 0 .. HardwareTimers
         /\ step[m].at \in Steps /\ step[m].target \in Targets
         /\ stopping = "no" => StepKnown(step["function"])
  BY DEF ValveSideInv, ValveTypeOK, ValveInv

LEMMA DriveSays ==
  ASSUME NEW phases \in Targets, NEW power \in {"off", "full", "hold", "brake"}, Drive(phases, power), position \in Targets
  PROVE  /\ bridge' = [phase |-> phases, power |-> power]
         /\ bridge' \in [phase : Targets, power : {"off", "full", "hold", "brake"}]
         /\ position' \in Targets
         /\ kind = "latching" => position' = position
         /\ kind # "latching" => position' = IF power = "off" THEN getDefaultState(kind) ELSE phases
  BY DEF Drive, getDefaultState, Targets

LEMMA MovesKeeps ==
  ASSUME ValveSideInv, NEW m \in Movers, Moves(m)
  PROVE  ValveSideInv'
<1> USE ValveFields
<1>1. UNCHANGED <<kind, stopping, crashes>>
  BY DEF Moves
<1>2. CASE WritePin(m) /\ UNCHANGED valveState
  <2>1. /\ kind = "pin" /\ step[m].at = "start" /\ position' = step[m].target /\ Goes(m, "record")
        /\ UNCHANGED <<bridge, timers>>
    BY <1>2 DEF WritePin
  <2>2. TimersFit' /\ timers' \in 0 .. HardwareTimers
    BY <1>1, <2>1, StepFits DEF Steps
  <2>3. ASSUME m = "function" PROVE StepKnown(step["function"])'
    <3>1. step'["function"].at = "record" /\ step'["function"].target = step["function"].target
      BY <2>1, <2>3, GoesSays DEF ValveSideInv, Steps
    <3> QED
      BY <1>1, <2>1, <2>3, <3>1 DEF StepKnown
  <2> QED
    BY <1>1, <1>2, <2>1, <2>2, <2>3, StepKeeps DEF Steps
<1>3. CASE LetGo(m) /\ UNCHANGED valveState
  <2>1. /\ kind \in {"normallyOpen", "normallyClosed"} /\ step[m].at = "start"
        /\ step[m].target = getDefaultState(kind) /\ Drive("Open", "off") /\ Goes(m, "record")
        /\ UNCHANGED timers
    BY <1>3 DEF LetGo
  <2>2. TimersFit' /\ timers' \in 0 .. HardwareTimers
    BY <1>1, <2>1, StepFits DEF Steps
  <2>3. /\ bridge' \in [phase : Targets, power : {"off", "full", "hold", "brake"}]
        /\ position' \in Targets /\ position' = step[m].target
    BY <2>1, DriveSays DEF Targets
  <2>4. ASSUME m = "function" PROVE StepKnown(step["function"])'
    <3>1. step'["function"].at = "record" /\ step'["function"].target = step["function"].target
      BY <2>1, <2>4, GoesSays DEF ValveSideInv, Steps
    <3> QED
      BY <1>1, <2>1, <2>3, <2>4, <3>1 DEF StepKnown
  <2> QED
    BY <1>1, <1>3, <2>1, <2>2, <2>3, <2>4, StepKeeps DEF Steps
<1>4. CASE driveAndHold(m) /\ UNCHANGED valveState
  <2> DEFINE power == IF step[m].at = "start" THEN "full" ELSE "hold"
             at == IF step[m].at = "start" THEN "driving" ELSE "record"
  <2>1. /\ kind \in {"normallyOpen", "normallyClosed"} /\ step[m].at \in {"start", "driving"}
        /\ Drive(step[m].target, power) /\ Goes(m, at) /\ UNCHANGED timers
    BY <1>4 DEF driveAndHold
  <2>2. power \in {"full", "hold"} /\ at \in {"driving", "record"} /\ at \in Steps
    BY DEF Steps
  <2> HIDE DEF power, at
  <2>3. TimersFit' /\ timers' \in 0 .. HardwareTimers
    BY <1>1, <2>1, <2>2, StepFits
  <2>4. /\ bridge' \in [phase : Targets, power : {"off", "full", "hold", "brake"}]
        /\ position' \in Targets /\ position' = step[m].target
    BY <2>1, <2>2, DriveSays
  <2>5. ASSUME m = "function" PROVE StepKnown(step["function"])'
    <3>1. step'["function"].at = at /\ step'["function"].target = step["function"].target
      BY <2>1, <2>2, <2>5, GoesSays DEF ValveSideInv
    <3> QED
      BY <1>1, <2>1, <2>2, <2>4, <2>5, <3>1 DEF StepKnown
  <2>6. step[m].at # "idle"
    BY <2>1
  <2> QED
    BY <1>1, <1>4, <2>1, <2>2, <2>3, <2>4, <2>5, <2>6, StepKeeps
<1>5. CASE StartPulse(m) /\ UNCHANGED valveState
  <2>1. /\ kind = "latching" /\ step[m].at = "start" /\ timers > 0 /\ Drive(step[m].target, "full")
        /\ timers' = timers - 1 /\ Goes(m, "driving")
    BY <1>5 DEF StartPulse
  <2>2. TimersFit' /\ timers' \in 0 .. HardwareTimers
    BY <1>1, <2>1, StepFits DEF Steps
  <2>3. /\ bridge' = [phase |-> step[m].target, power |-> "full"]
        /\ bridge' \in [phase : Targets, power : {"off", "full", "hold", "brake"}]
        /\ position' \in Targets
    BY <2>1, DriveSays
  <2>4. ASSUME m = "function" PROVE StepKnown(step["function"])'
    <3>1. step'["function"].at = "driving" /\ step'["function"].target = step["function"].target
      BY <2>1, <2>4, GoesSays DEF ValveSideInv, Steps
    <3> QED
      BY <1>1, <2>1, <2>3, <2>4, <3>1 DEF StepKnown
  <2> QED
    BY <1>1, <1>5, <2>1, <2>2, <2>3, <2>4, StepKeeps DEF Steps
<1>6. CASE EndPulse(m) /\ UNCHANGED valveState
  <2>1. /\ kind = "latching" /\ step[m].at = "driving" /\ bridge' = [bridge EXCEPT !.power = "brake"]
        /\ position' \in IF bridge = [phase |-> step[m].target, power |-> "full"] THEN {step[m].target} ELSE Targets
        /\ timers' = timers + 1 /\ Goes(m, "braking")
    BY <1>6 DEF EndPulse
  <2>2. TimersFit' /\ timers' \in 0 .. HardwareTimers
    BY <1>1, <2>1, StepFits DEF Steps
  <2>3. bridge' \in [phase : Targets, power : {"off", "full", "hold", "brake"}]
    BY <2>1
  <2>4. position' \in Targets
    BY <2>1
  <2>5. ASSUME m = "function", stopping = "no" PROVE StepKnown(step["function"])'
    <3>1. step'["function"].at = "braking" /\ step'["function"].target = step["function"].target
      BY <2>1, <2>5, GoesSays DEF ValveSideInv, Steps
    <3>2. bridge = [phase |-> step[m].target, power |-> "full"]
      BY <2>1, <2>5 DEF StepKnown
    <3>3. position' = step[m].target
      BY <2>1, <3>2
    <3> QED
      BY <1>1, <2>1, <2>5, <3>1, <3>3 DEF StepKnown
  <2> QED
    BY <1>1, <1>6, <2>1, <2>2, <2>3, <2>4, <2>5, StepKeeps DEF Steps
<1>7. CASE StopMotor(m) /\ UNCHANGED valveState
  <2>1. step[m].at = "braking" /\ Drive("Open", "off") /\ Goes(m, "record") /\ UNCHANGED timers
    BY <1>7 DEF StopMotor
  <2>2. TimersFit' /\ timers' \in 0 .. HardwareTimers
    BY <1>1, <2>1, StepFits DEF Steps
  <2>3. /\ bridge' = [phase |-> "Open", power |-> "off"] /\ bridge'.power = "off"
        /\ bridge' \in [phase : Targets, power : {"off", "full", "hold", "brake"}]
        /\ position' \in Targets /\ (kind = "latching" => position' = position)
    BY <2>1, DriveSays DEF Targets
  <2>4. ASSUME m = "function", stopping = "no" PROVE StepKnown(step["function"])'
    <3>1. step'["function"].at = "record" /\ step'["function"].target = step["function"].target
      BY <2>1, <2>4, GoesSays DEF ValveSideInv, Steps
    <3>2. kind = "latching" /\ position = step["function"].target
      BY <2>1, <2>4 DEF StepKnown
    <3> QED
      BY <1>1, <2>1, <2>3, <2>4, <3>1, <3>2 DEF StepKnown
  <2> QED
    BY <1>1, <1>7, <2>1, <2>2, <2>3, <2>4, StepKeeps DEF Steps
<1>8. CASE setState(m)
  <2>1. step[m].at = "record" /\ valveState' = {step[m].target} /\ Goes(m, "idle") /\ UNCHANGED <<bridge, position, timers>>
    BY <1>8 DEF setState
  <2>2. TimersFit' /\ timers' \in 0 .. HardwareTimers
    BY <1>1, <2>1, StepFits DEF Steps
  <2>3. valveState' \in {{}} \cup {{s} : s \in Targets}
    BY <2>1
  <2>4. ASSUME m = "function", stopping = "no" PROVE StepKnown(step["function"])'
    <3>1. step'["function"].at = "idle"
      BY <2>1, <2>4, GoesSays DEF ValveSideInv, Steps
    <3>2. position = step["function"].target /\ (kind = "latching" => bridge.power = "off")
      BY <2>1, <2>4 DEF StepKnown
    <3> QED
      BY <1>1, <2>1, <2>4, <3>1, <3>2 DEF StepKnown
  <2> QED
    BY <1>1, <2>1, <2>2, <2>3, <2>4, StepKeeps DEF Steps
<1> QED
  BY <1>2, <1>3, <1>4, <1>5, <1>6, <1>7, <1>8 DEF Moves

LEMMA BootKeeps ==
  ASSUME ValveSideInv, Boot, crashes' \in 0 .. MaxCrashes
  PROVE  ValveSideInv'
<1>1. /\ kind' = kind /\ kind \in Kinds /\ valveState' = {} /\ timers' = HardwareTimers /\ bridge' = BridgeOff
      /\ step' = Construct(kind) /\ stopping' = "no"
  BY DEF Boot, PowerLost, ValveSideInv, ValveTypeOK
<1>2. position' \in Targets
  <2>1. position \in Targets /\ bridge.phase \in Targets
    BY DEF ValveSideInv, ValveTypeOK
  <2>2. position' \in {position, "Closed", "Open", bridge.phase}
    BY DEF Boot, PowerLost, getDefaultState
  <2> QED
    BY <2>1, <2>2 DEF Targets
<1>3. /\ step' \in [Movers -> Transition]
      /\ step'["function"].at = "start" /\ step'["shutdown"].at = "idle"
  BY <1>1 DEF Construct, Idle, Transition, Movers, Steps, Targets, getDefaultState
<1>4. ValveTypeOK'
  BY <1>1, <1>2, <1>3 DEF ValveTypeOK, Transition, BridgeOff, Targets, HardwareTimers
<1>5. ValveInv'
  BY <1>1, <1>3 DEF ValveInv, TimersFit, StepKnown, IsDriving, HardwareTimers
<1> QED
  BY <1>4, <1>5 DEF ValveSideInv

LEMMA ValveNextKeeps ==
  ASSUME ValveSideInv, ValveNext
  PROVE  ValveSideInv'
<1>0. /\ step \in [Movers -> Transition] /\ timers \in 0 .. HardwareTimers /\ crashes \in 0 .. MaxCrashes
      /\ ValveTypeOK /\ ValveInv
  BY DEF ValveSideInv, ValveTypeOK, Transition
<1>1. CASE \E target \in Targets : transitionTo(target)
  <2>1. PICK target \in Targets : transitionTo(target)
    BY <1>1
  <2> DEFINE started == [at |-> "start", target |-> target]
  <2>2. /\ step["function"].at = "idle" /\ step' = [step EXCEPT !["function"] = started]
        /\ UNCHANGED <<kind, valveState, bridge, position, timers, stopping, crashes>>
    BY <2>1 DEF transitionTo
  <2>3. started \in Transition /\ started.at = "start"
    BY DEF Transition, Steps
  <2> HIDE DEF started
  <2>4. step' \in [Movers -> Transition] /\ step'["function"].at = "start" /\ step'["shutdown"] = step["shutdown"]
    BY <1>0, <2>2, <2>3 DEF Movers
  <2>5. ValveTypeOK'
    BY <1>0, <2>2, <2>4 DEF ValveTypeOK, Transition
  <2>6. ValveInv'
    BY <1>0, <2>2, <2>4 DEF ValveInv, TimersFit, StepKnown, IsDriving
  <2> QED
    BY <2>5, <2>6 DEF ValveSideInv
<1>2. CASE \E m \in Movers : Moves(m)
  BY <1>2, MovesKeeps
<1>3. CASE Crash
  <2>1. crashes' \in 0 .. MaxCrashes /\ Boot
    BY <1>0, <1>3, CrashesAssumption DEF Crash
  <2> QED
    BY <2>1, BootKeeps
<1>4. CASE Abort
  BY <1>0, <1>4, BootKeeps DEF Abort
<1>5. CASE OtherPulse
  <2>1. /\ kind = "latching"
        /\ timers' \in 0 .. HardwareTimers - Cardinality({m \in Movers : step[m].at = "driving"})
        /\ UNCHANGED <<kind, valveState, bridge, position, step, stopping, crashes>>
    BY <1>5 DEF OtherPulse
  <2>2. timers' \in 0 .. HardwareTimers - (IsDriving(step, "function") + IsDriving(step, "shutdown"))
    BY <2>1, DrivingCount
  <2>3. IsDriving(step, "function") \in {0, 1} /\ IsDriving(step, "shutdown") \in {0, 1}
    BY DEF IsDriving
  <2>4. /\ timers' \in 0 .. HardwareTimers
        /\ timers' + (IsDriving(step, "function") + IsDriving(step, "shutdown")) <= HardwareTimers
    BY <2>2, <2>3 DEF HardwareTimers
  <2>5. ValveTypeOK'
    BY <1>0, <2>1, <2>4 DEF ValveTypeOK
  <2>6. TimersFit'
    BY <2>1, <2>4 DEF TimersFit, IsDriving
  <2>7. ValveInv'
    BY <1>0, <2>1, <2>6 DEF ValveInv, StepKnown
  <2> QED
    BY <2>5, <2>7 DEF ValveSideInv
<1>6. CASE closeBeforeShutdown
  <2> DEFINE started == [at |-> "start", target |-> "Closed"]
  <2>1. /\ stopping' = "closing" /\ step' = [step EXCEPT !["shutdown"] = started]
        /\ UNCHANGED <<kind, valveState, bridge, position, timers, crashes>> /\ stopping = "no"
    BY <1>6 DEF closeBeforeShutdown
  <2>2. started \in Transition /\ started.at = "start"
    BY DEF Transition, Steps, Targets
  <2> HIDE DEF started
  <2>3. step' \in [Movers -> Transition] /\ step'["shutdown"].at = "start" /\ step'["function"] = step["function"]
    BY <1>0, <2>1, <2>2 DEF Movers
  <2>4. ValveTypeOK'
    BY <1>0, <2>1, <2>3 DEF ValveTypeOK, Transition
  <2>5. ValveInv'
    BY <1>0, <2>1, <2>3 DEF ValveInv, TimersFit, IsDriving
  <2> QED
    BY <2>4, <2>5 DEF ValveSideInv
<1>7. CASE DeepSleep
  <2>1. /\ kind' = kind /\ kind \in Kinds /\ valveState' = {} /\ timers' = HardwareTimers /\ bridge' = BridgeOff
        /\ step' = [m \in Movers |-> Idle] /\ stopping' = "asleep" /\ crashes' = crashes
    BY <1>0, <1>7 DEF DeepSleep, PowerLost, ValveTypeOK
  <2>2. position' \in Targets
    <3>1. position \in Targets /\ bridge.phase \in Targets
      BY <1>0 DEF ValveTypeOK
    <3>2. position' \in {position, "Closed", "Open", bridge.phase}
      BY <1>7 DEF DeepSleep, PowerLost, getDefaultState
    <3> QED
      BY <3>1, <3>2 DEF Targets
  <2>3. step' \in [Movers -> Transition] /\ \A m \in Movers : step'[m].at = "idle"
    BY <2>1 DEF Idle, Transition, Steps, Targets
  <2>4. ValveTypeOK'
    BY <1>0, <2>1, <2>2, <2>3 DEF ValveTypeOK, Transition, BridgeOff, Targets, HardwareTimers
  <2>5. ValveInv'
    BY <2>1, <2>3 DEF ValveInv, TimersFit, IsDriving, HardwareTimers, Movers
  <2> QED
    BY <2>4, <2>5 DEF ValveSideInv
<1>8. CASE WakeUpValve
  BY <1>0, <1>8, BootKeeps DEF WakeUpValve
<1> QED
  BY <1>1, <1>2, <1>3, <1>4, <1>5, <1>6, <1>7, <1>8 DEF ValveNext

-----------------------------------------------------------------------------
(* The functions together.                                                 *)

LEMMA InitInv == FunctionInit => FunctionInv
<1> SUFFICES ASSUME FunctionInit PROVE FunctionInv
  OBVIOUS
<1>1. /\ acting \in {"plot", "chicken", "valve"}
      /\ LoopInit /\ MeterInit /\ PlotInit /\ ChickenInit /\ ValveInit
  BY DEF FunctionInit
<1>2. LoopTypeOK /\ phase = "evaluate" /\ configQueue = <<>> /\ override = {}
  <2>1. /\ phase = "evaluate" /\ wait = {} /\ lag = 0 /\ asked = {}
        /\ toPublish = TRUE /\ requests = FALSE
        /\ configQueue = <<>> /\ override = {} /\ changes = 0
    BY <1>1 DEF LoopInit
  <2>2. lag \in 0 .. MaxLag /\ changes \in 0 .. MaxChanges
    BY <2>1, LoopAssumption
  <2>3. IsOptional(wait, Nat) /\ IsOptional(asked, States) /\ IsOptional(override, Override)
    BY <2>1 DEF IsOptional
  <2>4. Len(configQueue) <= 1
    BY <2>1
  <2> QED
    BY <2>1, <2>2, <2>3, <2>4 DEF LoopTypeOK
<1>3. pulse = NoPulse /\ schedules = <<>> /\ moist = FALSE
  BY <1>1 DEF PlotInit
<1>4. pulse.state = "Idle" /\ pulse.delivered = 0
  BY <1>3 DEF NoPulse
<1>5. PlotTypeOK
  <2>1. /\ 0 \in 0 .. MaxVolume /\ 0 \in 0 .. MaxWater /\ 0 \in 0 .. ValveTimeout + 1
        /\ 0 \in 0 .. Tau + 1 /\ 0 \in 0 .. MaxTotalVolume
    BY WaterAssumption, MoistureAssumption
  <2>2. NoPulse \in Pulses(MaxWater)
    BY <2>1 DEF NoPulse, Pulses
  <2>3. DOMAIN schedules = {} /\ schedules \in Seq(TimeBasedSchedule)
    BY <1>3
  <2> QED
    BY <1>3, <2>2, <2>3 DEF PlotTypeOK
<1>6. MeterInv
  BY <1>1, <1>4, WaterAssumption DEF MeterInit, MeterInv, MeterTypeOK, Conserved
<1>7. ChickenTypeOK
  <2>1. /\ level \in Levels /\ lightOn \in BOOLEAN /\ delays = [open |-> 0, close |-> 0]
        /\ delay = [committed |-> {}, pending |-> {}, since |-> {}]
    BY <1>1 DEF ChickenInit, Delay, NoTransition
  <2>2. delays \in [open : 0 .. MaxDelay, close : 0 .. MaxDelay]
    BY <2>1, DelayAssumption
  <2>3. DelayTypeOK(delay)
    BY <2>1 DEF DelayTypeOK, IsOptional
  <2> QED
    BY <2>1, <2>2, <2>3, DelayTyped DEF ChickenTypeOK
<1>8. ValveTypeOK /\ ValveInv
  <2>1. /\ kind \in Kinds /\ valveState = {} /\ bridge = BridgeOff
        /\ position \in IF kind = "latching" THEN Targets ELSE {getDefaultState(kind)}
        /\ step = Construct(kind)
        /\ timers = HardwareTimers /\ stopping = "no" /\ crashes = 0
    BY <1>1 DEF ValveInit
  <2>2. position \in Targets
    BY <2>1 DEF getDefaultState, Targets
  <2>3. /\ step \in [Movers -> Transition]
        /\ step["function"].at = "start" /\ step["shutdown"].at = "idle"
    BY <2>1 DEF Construct, Idle, Transition, Movers, Steps, Targets, getDefaultState
  <2>4. ValveTypeOK
    BY <2>1, <2>2, <2>3, CrashesAssumption DEF ValveTypeOK, Transition, BridgeOff, Targets, HardwareTimers
  <2>5. ValveInv
    BY <2>1, <2>3 DEF ValveInv, TimersFit, StepKnown, IsDriving, HardwareTimers
  <2> QED
    BY <2>4, <2>5
<1>9. QueueInv
  BY <1>2 DEF QueueInv
<1>10. OverrideObeyed /\ PlotInv /\ DelayInv
  BY <1>2, <1>4 DEF OverrideObeyed, PlotInv, SchedulesObeyed, PulseObeyed, PulseFollowed, DelayInv
<1>11. FunctionTypeOK
  BY <1>2, <1>5, <1>6, <1>7, <1>8 DEF FunctionTypeOK, MeterInv
<1> QED
  BY <1>1, <1>4, <1>6, <1>8, <1>9, <1>10, <1>11 DEF FunctionInv

LEMMA PlotActsKeeps ==
  ASSUME FunctionInv, PlotActs
  PROVE  FunctionInv'
<1>1. acting = "plot" /\ acting' = acting /\ PlotNext /\ UNCHANGED chickenVars /\ UNCHANGED valveVars
  BY DEF PlotActs
<1>2. PlotSideInv
  BY <1>1 DEF FunctionInv, FunctionTypeOK, QueueInv, PlotSideInv
<1>3. PlotSideInv'
  BY <1>1, <1>2, PlotTickKeeps, ConfigureKeeps, PlotTakesConfigKeeps, PlotElapsesKeeps,
     PlotLoopGoesOnKeeps, MeterTaskKeeps, PlotTelemetryKeeps DEF PlotNext
<1>4. ChickenTypeOK'
  BY <1>1, ChickenFrame DEF FunctionInv, FunctionTypeOK
<1>5. ValveTypeOK' /\ ValveInv'
  BY <1>1, ValveFrame DEF FunctionInv, FunctionTypeOK
<1>6. DelayInv' /\ QueueInv'
  BY <1>1, <1>3 DEF DelayInv, QueueInv, PlotSideInv
<1> QED
  BY <1>1, <1>3, <1>4, <1>5, <1>6 DEF FunctionInv, FunctionTypeOK, PlotSideInv, MeterInv

LEMMA ChickenActsKeeps ==
  ASSUME FunctionInv, ChickenActs
  PROVE  FunctionInv'
<1>1. /\ acting = "chicken" /\ acting' = acting /\ ChickenNext
      /\ UNCHANGED meterVars /\ UNCHANGED plotVars /\ UNCHANGED valveVars
  BY DEF ChickenActs
<1>2. ChickenSideInv
  BY <1>1 DEF FunctionInv, FunctionTypeOK, QueueInv, ChickenSideInv, ChickenConfigs
<1>3. ChickenSideInv'
  BY <1>1, <1>2, ChickenTickKeeps, ConfigureDoorKeeps, ChickenTakesConfigKeeps, ChickenElapsesKeeps, ChickenRestKeeps
     DEF ChickenNext
<1>4. PlotTypeOK' /\ pulse' = pulse
  BY <1>1, PlotFrame DEF FunctionInv, FunctionTypeOK, plotVars
<1>5. MeterInv'
  BY <1>1, <1>4, MeterFrame DEF FunctionInv
<1>6. ValveTypeOK' /\ ValveInv'
  BY <1>1, ValveFrame DEF FunctionInv, FunctionTypeOK
<1>7. PlotInv' /\ QueueInv'
  BY <1>1, <1>3 DEF PlotInv, SchedulesObeyed, PulseObeyed, PulseFollowed, QueueInv, ChickenSideInv, ChickenConfigs
<1>8. pulse'.state = "Idle"
  BY <1>1, <1>4 DEF FunctionInv
<1> QED
  BY <1>1, <1>3, <1>4, <1>5, <1>6, <1>7, <1>8 DEF FunctionInv, FunctionTypeOK, ChickenSideInv, MeterInv

LEMMA ValveActsKeeps ==
  ASSUME FunctionInv, ValveActs
  PROVE  FunctionInv'
<1>1. /\ acting = "valve" /\ acting' = acting /\ ValveNext
      /\ UNCHANGED loopVars /\ UNCHANGED meterVars /\ UNCHANGED plotVars /\ UNCHANGED chickenVars
  BY DEF ValveActs
<1>2. ValveTypeOK' /\ ValveInv'
  BY <1>1, ValveNextKeeps DEF FunctionInv, FunctionTypeOK, ValveSideInv
<1>3. LoopTypeOK' /\ OverrideObeyed'
  BY <1>1 DEF FunctionInv, FunctionTypeOK, LoopTypeOK, OverrideObeyed, loopVars
<1>4. PlotTypeOK' /\ pulse' = pulse
  BY <1>1, PlotFrame DEF FunctionInv, FunctionTypeOK, plotVars
<1>5. MeterInv'
  BY <1>1, <1>4, MeterFrame DEF FunctionInv
<1>6. ChickenTypeOK'
  BY <1>1, ChickenFrame DEF FunctionInv, FunctionTypeOK
<1>7. PlotInv' /\ QueueInv' /\ DelayInv'
  BY <1>1 DEF PlotInv, SchedulesObeyed, PulseObeyed, PulseFollowed, QueueInv, DelayInv
<1>8. pulse'.state = "Idle"
  BY <1>1, <1>4 DEF FunctionInv
<1> QED
  BY <1>1, <1>2, <1>3, <1>4, <1>5, <1>6, <1>7, <1>8 DEF FunctionInv, FunctionTypeOK, MeterInv

LEMMA NothingHappens ==
  ASSUME FunctionInv, UNCHANGED functionVars
  PROVE  FunctionInv'
<1>1. /\ UNCHANGED loopVars /\ UNCHANGED meterVars /\ UNCHANGED plotVars /\ UNCHANGED chickenVars
      /\ UNCHANGED valveVars /\ acting' = acting
  BY DEF functionVars
<1>2. ValveTypeOK' /\ ValveInv'
  BY <1>1, ValveFrame DEF FunctionInv, FunctionTypeOK
<1>3. LoopTypeOK' /\ OverrideObeyed' /\ QueueInv'
  BY <1>1 DEF FunctionInv, FunctionTypeOK, LoopTypeOK, OverrideObeyed, QueueInv, loopVars
<1>4. PlotTypeOK' /\ pulse' = pulse
  BY <1>1, PlotFrame DEF FunctionInv, FunctionTypeOK, plotVars
<1>5. MeterInv'
  BY <1>1, <1>4, MeterFrame DEF FunctionInv
<1>6. ChickenTypeOK'
  BY <1>1, ChickenFrame DEF FunctionInv, FunctionTypeOK
<1>7. PlotInv'
  BY <1>1 DEF FunctionInv, PlotInv, SchedulesObeyed, PulseObeyed, PulseFollowed, loopVars, plotVars
<1>8. DelayInv'
  BY <1>1 DEF FunctionInv, DelayInv, loopVars, chickenVars
<1> QED
  BY <1>1, <1>2, <1>3, <1>4, <1>5, <1>6, <1>7, <1>8 DEF FunctionInv, FunctionTypeOK, MeterInv

LEMMA FunctionsKeepTheInvariant == FunctionSpec => []FunctionInv
<1>1. FunctionInv /\ [FunctionNext]_functionVars => FunctionInv'
  BY PlotActsKeeps, ChickenActsKeeps, ValveActsKeeps, NothingHappens DEF FunctionNext
<1> QED
  BY InitInv, <1>1, PTL DEF FunctionSpec

-----------------------------------------------------------------------------
(* The results.                                                            *)

\* The plot controller's valve.
LEMMA ValveIsAsScheduled ==
  ASSUME FunctionInv, acting = "plot"
  PROVE  ValveAsScheduled
<1> SUFFICES ASSUME Asleep
             PROVE  asked = IF OverrideThen # {} THEN OverrideThen
                            ELSE {IF schedules # <<>> THEN IF Demanded THEN "Open" ELSE "Closed"
                                  ELSE IF moist /\ pulse.state = "Watering" THEN "Open" ELSE "Closed"}
  BY DEF ValveAsScheduled
<1>1. phase = "waiting" /\ wait # {0}
  BY DEF Asleep
<1>2. LoopTypeOK /\ OverrideObeyed /\ PlotInv
  BY DEF FunctionInv, FunctionTypeOK
<1>3. /\ IsOptional(wait, Nat) /\ IsOptional(override, Override) /\ lag \in Nat
  BY <1>2, LoopAssumption DEF LoopTypeOK
<1>4. \A w \in wait : w \in Nat /\ w # 0
  BY <1>1, <1>3 DEF IsOptional
<1>5. CASE override # {}
  <2>1. PICK x : override = {x} /\ x \in Override
    <3>1. PICK x : x \in override
      BY <1>5
    <3> QED
      BY <1>3, <3>1 DEF IsOptional
  <2>2. asked = {x.state} /\ wait # {} /\ \A w \in wait : w <= x.left + lag
    BY <1>1, <1>2, <2>1 DEF OverrideObeyed
  <2>3. x.left + lag > 0
    BY <1>3, <1>4, <2>1, <2>2 DEF Override
  <2>4. OverrideThen = {x.state}
    BY <2>1, <2>3 DEF OverrideThen
  <2> QED
    BY <2>2, <2>4
<1>6. CASE override = {}
  <2>1. OverrideThen = {}
    BY <1>6 DEF OverrideThen
  <2>2. CASE schedules = <<>>
    <3>1. asked = IF moist /\ pulse.state = "Watering" THEN {"Open"} ELSE {"Closed"}
      BY <1>1, <1>2, <1>6, <2>2 DEF PlotInv, PulseObeyed
    <3> QED
      BY <2>1, <2>2, <3>1
  <2>3. CASE schedules # <<>>
    <3>1. wait # {} /\ \A w \in wait : w # 0 => Stays(asked, schedules, lag, w)
      BY <1>1, <1>2, <1>6, <2>3 DEF PlotInv, SchedulesObeyed
    <3>2. PICK w \in wait : Stays(asked, schedules, lag, w)
      BY <1>4, <3>1
    <3>3. Demanded <=> \E i \in DOMAIN schedules : OpenAt(schedules[i], lag)
      BY DEF Demanded, OpenAt, Started, Position
    <3>4. CASE asked = {"Open"} /\ StaysOpen(schedules, lag, w)
      <4>1. Demanded
        BY <3>3, <3>4 DEF StaysOpen
      <4> QED
        BY <2>1, <2>3, <3>4, <4>1
    <3>5. CASE asked = {"Closed"} /\ StaysClosed(schedules, lag, w)
      <4>1. ~Demanded
        BY <3>3, <3>5 DEF StaysClosed
      <4> QED
        BY <2>1, <2>3, <3>5, <4>1
    <3> QED
      BY <3>2, <3>4, <3>5 DEF Stays
  <2> QED
    BY <2>2, <2>3
<1> QED
  BY <1>5, <1>6

\* The chicken door.
LEMMA DoorIsOnTime ==
  ASSUME FunctionInv, acting = "chicken"
  PROVE  DoorOnTime
<1> SUFFICES ASSUME Asleep
             PROVE  /\ OverrideThen # {} => asked = OverrideThen
                    /\ OverrideThen = {} /\ delay.since # {} =>
                         Max(delay.since) < DelayFor(CHOOSE s \in delay.pending : TRUE, delays) + lag
  BY DEF DoorOnTime
<1>1. phase = "waiting" /\ wait # {0}
  BY DEF Asleep
<1>2. LoopTypeOK /\ ChickenTypeOK /\ OverrideObeyed /\ DelayInv
  BY DEF FunctionInv, FunctionTypeOK
<1>3. /\ IsOptional(wait, Nat) /\ IsOptional(override, Override) /\ lag \in Nat
  BY <1>2, LoopAssumption DEF LoopTypeOK
<1>4. \A w \in wait : w \in Nat /\ w # 0
  BY <1>1, <1>3 DEF IsOptional
<1>5. ASSUME NEW x \in override PROVE OverrideThen = {x.state} /\ asked = {x.state}
  <2>1. override = {x} /\ x \in Override
    BY <1>3 DEF IsOptional
  <2>2. asked = {x.state} /\ wait # {} /\ \A w \in wait : w <= x.left + lag
    BY <1>1, <1>2, <2>1 DEF OverrideObeyed
  <2>3. x.left + lag > 0
    BY <1>3, <1>4, <2>1, <2>2 DEF Override
  <2> QED
    BY <2>1, <2>2, <2>3 DEF OverrideThen
<1>6. ASSUME OverrideThen # {} PROVE asked = OverrideThen
  BY <1>5, <1>6 DEF OverrideThen
<1>7. ASSUME OverrideThen = {}, delay.since # {}
      PROVE  Max(delay.since) < DelayFor(CHOOSE s \in delay.pending : TRUE, delays) + lag
  <2>1. override = {}
    BY <1>5, <1>7
  <2>2. DelayTypeOK(delay) /\ delays \in [open : 0 .. MaxDelay, close : 0 .. MaxDelay]
    BY <1>2, DelayTyped DEF ChickenTypeOK
  <2>3. PICK n : delay.since = {n} /\ n \in 0 .. MaxDelay + 1
    <3>1. PICK n : n \in delay.since
      BY <1>7
    <3> QED
      BY <2>2, <3>1 DEF DelayTypeOK, IsOptional
  <2>4. n \in Nat
    BY <2>3, DelayAssumption
  <2>5. Max(delay.since) = n
    <3>1. Max({n}) = n
      BY <2>4, OnlyOne
    <3> QED
      BY <2>3, <3>1
  <2>6. /\ wait # {} /\ delay.pending # {}
        /\ \A w \in wait, s \in delay.pending : w + n <= DelayFor(s, delays) + lag
    BY <1>1, <1>2, <2>1, <2>3 DEF DelayInv
  <2> DEFINE s == CHOOSE t \in delay.pending : TRUE
  <2>7. s \in delay.pending
    BY <2>6
  <2> HIDE DEF s
  <2>8. PICK w \in wait : w + n <= DelayFor(s, delays) + lag
    BY <2>6, <2>7
  <2>9. DelayFor(s, delays) \in Nat
    BY <2>2, DelayForType
  <2>10. n < DelayFor(s, delays) + lag
    BY <1>3, <1>4, <2>4, <2>8, <2>9
  <2> QED
    BY <2>5, <2>10 DEF s
<1> QED
  BY <1>6, <1>7

\* Every variable of the device's functions keeps to the values that the code gives it: the loop of
\* ScheduledTransitionLoop.hpp, the schedulers, the flow meter and the valve.
THEOREM FunctionTypesCorrect == FunctionSpec => []FunctionTypeOK
<1>1. FunctionInv => FunctionTypeOK
  BY DEF FunctionInv
<1> QED
  BY FunctionsKeepTheInvariant, <1>1, PTL

\* Whatever the schedules, overrides and delays, a function that sleeps has its valve or its door where
\* its schedulers want it by now, late by no more than the time its last transition took: the deadline that
\* a tick gave to ScheduledTransitionLoop.hpp never lies behind the next change that is due.
THEOREM FunctionsAreOnSchedule == FunctionSpec => []AsScheduled
<1>1. FunctionInv => AsScheduled
  BY ValveIsAsScheduled, DoorIsOnTime DEF AsScheduled
<1> QED
  BY FunctionsKeepTheInvariant, <1>1, PTL

\* However much water flows and whatever moves the valve: a pulse of water that could be followed is over
\* by its timeout, telemetry reports each unit of water once and credits none to two pulses, and a valve
\* at rest is where it says it is.
THEOREM WaterIsSound == FunctionSpec => []WaterSound
<1>1. ASSUME FunctionInv PROVE WaterSound
  <2>1. PulseBounded
    BY <1>1 DEF FunctionInv, PlotInv, PulseFollowed, PulseBounded
  <2>2. Conserved
    BY <1>1 DEF FunctionInv, MeterInv
  <2>3. ValveKnown
    BY <1>1 DEF FunctionInv, ValveInv, StepKnown, ValveKnown, Movers
  <2> QED
    BY <2>1, <2>2, <2>3 DEF WaterSound, WaterAccounted
<1> QED
  BY FunctionsKeepTheInvariant, <1>1, PTL

==============================================================================
