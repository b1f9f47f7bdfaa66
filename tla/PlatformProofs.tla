---------------------------- MODULE PlatformProofs ----------------------------
(***************************************************************************)
(* Proofs about what a device starts with and what it measures.  The parts *)
(* share no state: each has an invariant of its own and three lemmas, that *)
(* it holds at the start (...InvInit), that a step of the part keeps it    *)
(* (...InvNext), and that it rests while the part does (...InvRests).  The *)
(* last section joins them.                                                *)
(***************************************************************************)
EXTENDS Platform, SequenceTheorems, FiniteSetTheorems, WellFoundedInduction, TLAPS

--------
(* Sums of readings. *)

\* The numbers that hold 0, and with each number the next, are all of them.
LEMMA Induction ==
  ASSUME NEW T, T \subseteq Nat, 0 \in T, \A k \in T : k + 1 \in T
  PROVE  T = Nat
<1>1. SUFFICES ASSUME Nat \ T # {} PROVE FALSE
  OBVIOUS
<1>2. PICK m \in Nat \ T : \A k \in Nat \ T : ~(k < m)
  <2> DEFINE R == OpToRel(<, Nat)
  <2>1. Nat \ T \subseteq Nat
    OBVIOUS
  <2>2. IsWellFoundedOn(R, Nat)
    BY NatLessThanWellFounded
  <2>3. \A k, m \in Nat : k < m => <<k, m>> \in R
    BY DEF OpToRel
  <2> HIDE DEF R
  <2>4. \E m \in Nat \ T : \A k \in Nat \ T : <<k, m>> \notin R
    BY <1>1, <2>1, <2>2, WFMin
  <2> QED
    BY <2>1, <2>3, <2>4
<1>3. m \in Nat /\ m # 0
  OBVIOUS
<1>4. m - 1 \in Nat /\ m - 1 < m
  BY <1>3
<1>5. m - 1 \in T
  BY <1>2, <1>4
<1>6. (m - 1) + 1 \in T
  BY <1>5
<1> QED
  BY <1>3, <1>6

\* The function that SumOf is defined by, of the first "n" numbers.
Sums(s, n, f) == [i \in 0 .. n |-> IF i = 0 THEN 0 ELSE f[i - 1] + s[i]]
SumTo(s, n) == CHOOSE f : f = Sums(s, n, f)

LEMMA SumsExist ==
  ASSUME NEW s
  PROVE  \A n \in Nat : \E f : f = Sums(s, n, f)
<1> DEFINE T == {n \in Nat : \E f : f = Sums(s, n, f)}
<1>1. 0 \in T
  <2> DEFINE g == [i \in 0 .. 0 |-> 0]
  <2>1. \A i \in 0 .. 0 : i = 0
    OBVIOUS
  <2>2. g = Sums(s, 0, g)
    BY <2>1 DEF Sums
  <2> QED
    BY <2>2
<1>2. ASSUME NEW n \in T PROVE n + 1 \in T
  <2>0. n \in Nat
    OBVIOUS
  <2>1. PICK f : f = Sums(s, n, f)
    BY <1>2
  <2> DEFINE h == [i \in 0 .. n + 1 |-> IF i = n + 1 THEN f[n] + s[n + 1] ELSE f[i]]
  <2>2. ASSUME NEW i \in 0 .. n + 1
        PROVE  h[i] = IF i = 0 THEN 0 ELSE h[i - 1] + s[i]
    <3>1. CASE i = n + 1
      <4>1. n + 1 # 0 /\ (n + 1) - 1 = n /\ n \in 0 .. n + 1 /\ n # n + 1 /\ n + 1 \in 0 .. n + 1
        BY <2>0
      <4>2. h[n + 1] = f[n] + s[n + 1] /\ h[n] = f[n]
        BY <4>1
      <4> HIDE DEF h
      <4> QED
        BY <3>1, <4>1, <4>2
    <3>2. CASE i # n + 1
      <4>1. i \in 0 .. n
        BY <2>0, <3>2
      <4>2. f[i] = IF i = 0 THEN 0 ELSE f[i - 1] + s[i]
        BY <2>1, <4>1 DEF Sums
      <4>3. h[i] = f[i]
        BY <3>2
      <4>4. i # 0 => i - 1 \in 0 .. n + 1 /\ i - 1 # n + 1
        BY <2>0, <4>1
      <4>5. i # 0 => h[i - 1] = f[i - 1]
        BY <4>4
      <4> HIDE DEF h
      <4> QED
        BY <4>2, <4>3, <4>5
    <3> QED
      BY <3>1, <3>2
  <2>3. h = Sums(s, n + 1, h)
    <3>1. h = [i \in 0 .. n + 1 |-> h[i]]
      OBVIOUS
    <3> HIDE DEF h
    <3> QED
      BY <2>2, <3>1 DEF Sums
  <2> QED
    BY <2>0, <2>3
<1>3. T = Nat
  <2>1. T \subseteq Nat
    OBVIOUS
  <2> HIDE DEF T
  <2> QED
    BY <1>1, <1>2, <2>1, Induction
<1> QED
  BY <1>3

\* The partial sums.
LEMMA SumToFacts ==
  ASSUME NEW s \in Seq(Int), NEW n \in 0 .. Len(s)
  PROVE  /\ SumTo(s, n)[0] = 0
         /\ \A i \in 1 .. n : SumTo(s, n)[i] = SumTo(s, n)[i - 1] + s[i]
         /\ \A i \in 0 .. n : SumTo(s, n)[i] \in Int
<1> DEFINE f == SumTo(s, n)
<1>0. n \in Nat /\ Len(s) \in Nat
  OBVIOUS
<1>1. f = Sums(s, n, f)
  BY <1>0, SumsExist DEF SumTo
<1> HIDE DEF f
<1>2. f[0] = 0
  BY <1>0, <1>1 DEF Sums
<1>3. ASSUME NEW i \in 1 .. n PROVE f[i] = f[i - 1] + s[i]
  <2>1. i \in 0 .. n /\ i # 0
    BY <1>0
  <2> QED
    BY <1>1, <2>1 DEF Sums
<1> DEFINE T == {i \in Nat : i <= n => f[i] \in Int}
<1>4. 0 \in T
  BY <1>2
<1>5. ASSUME NEW i \in T PROVE i + 1 \in T
  <2>1. CASE i + 1 <= n
    <3>1. i \in Nat /\ i <= n /\ i + 1 \in 1 .. n /\ (i + 1) - 1 = i /\ i + 1 \in 1 .. Len(s)
      BY <1>0, <2>1
    <3>2. f[i] \in Int /\ s[i + 1] \in Int
      BY <3>1
    <3>3. f[i + 1] = f[(i + 1) - 1] + s[i + 1]
      BY <1>3, <3>1
    <3>4. f[i + 1] \in Int
      BY <3>1, <3>2, <3>3
    <3> QED
      BY <3>1, <3>4
  <2>2. CASE ~(i + 1 <= n)
    BY <2>2
  <2> QED
    BY <2>1, <2>2
<1>6. T = Nat
  <2>1. T \subseteq Nat
    OBVIOUS
  <2> HIDE DEF T
  <2> QED
    BY <1>4, <1>5, <2>1, Induction
<1>7. \A i \in 0 .. n : f[i] \in Int
  BY <1>0, <1>6
<1> QED
  BY <1>2, <1>3, <1>7 DEF f

LEMMA SumOfIsSumTo == \A s : SumOf(s) = SumTo(s, Len(s))[Len(s)]
  BY DEF SumOf, SumTo, Sums

LEMMA SumIsInteger ==
  ASSUME NEW s \in Seq(Int)
  PROVE  SumOf(s) \in Int
<1>1. Len(s) \in 0 .. Len(s)
  OBVIOUS
<1> QED
  BY <1>1, SumToFacts, SumOfIsSumTo

\* One number more at the end.
LEMMA SumAppend ==
  ASSUME NEW s \in Seq(Int), NEW x \in Int
  PROVE  SumOf(Append(s, x)) = SumOf(s) + x
<1> DEFINE n == Len(s)
           t == Append(s, x)
<1>1. n \in Nat /\ Len(t) = n + 1 /\ t \in Seq(Int) /\ t[n + 1] = x /\ \A i \in 1 .. n : t[i] = s[i]
  OBVIOUS
<1> DEFINE f == SumTo(s, n)
           g == SumTo(t, n + 1)
<1> HIDE DEF n, t
<1>2. f[0] = 0 /\ \A i \in 1 .. n : f[i] = f[i - 1] + s[i]
  <2>1. n \in 0 .. Len(s)
    BY <1>1 DEF n
  <2> QED
    BY <2>1, SumToFacts
<1>3. g[0] = 0 /\ \A i \in 1 .. n + 1 : g[i] = g[i - 1] + t[i]
  <2>1. n + 1 \in 0 .. Len(t)
    BY <1>1
  <2> QED
    BY <1>1, <2>1, SumToFacts
<1> HIDE DEF f, g
<1> DEFINE T == {i \in Nat : i <= n => g[i] = f[i]}
<1>4. 0 \in T
  BY <1>2, <1>3
<1>5. ASSUME NEW i \in T PROVE i + 1 \in T
  <2>1. CASE i + 1 <= n
    <3>1. i \in Nat /\ i <= n /\ i + 1 \in 1 .. n /\ i + 1 \in 1 .. n + 1 /\ (i + 1) - 1 = i
      BY <1>1, <2>1
    <3>2. g[i] = f[i]
      BY <3>1
    <3>3. g[i + 1] = g[(i + 1) - 1] + t[i + 1] /\ f[i + 1] = f[(i + 1) - 1] + s[i + 1] /\ t[i + 1] = s[i + 1]
      BY <1>1, <1>2, <1>3, <3>1
    <3>4. g[i + 1] = f[i + 1]
      BY <3>1, <3>2, <3>3
    <3> QED
      BY <3>1, <3>4
  <2>2. CASE ~(i + 1 <= n)
    BY <2>2
  <2> QED
    BY <2>1, <2>2
<1>6. T = Nat
  <2>1. T \subseteq Nat
    OBVIOUS
  <2> HIDE DEF T
  <2> QED
    BY <1>4, <1>5, <2>1, Induction
<1>7. g[n] = f[n]
  <2>1. n \in T
    <3> HIDE DEF T
    <3> QED
      BY <1>1, <1>6
  <2>2. n <= n
    BY <1>1
  <2> QED
    BY <2>1, <2>2
<1>8. n + 1 \in 1 .. n + 1 /\ (n + 1) - 1 = n
  BY <1>1
<1>9. g[n + 1] = g[(n + 1) - 1] + t[n + 1]
  BY <1>3, <1>8
<1>10. SumOf(s) = f[n] /\ SumOf(t) = g[n + 1]
  BY <1>1, SumOfIsSumTo DEF f, g, n
<1> QED
  BY <1>1, <1>7, <1>8, <1>9, <1>10 DEF t

\* One number less at the start.
LEMMA SumTail ==
  ASSUME NEW s \in Seq(Int), s # <<>>
  PROVE  SumOf(Tail(s)) = SumOf(s) - s[1]
<1> DEFINE n == Len(s) - 1
           t == Tail(s)
<1>1. n \in Nat /\ Len(s) = n + 1 /\ Len(t) = n /\ t \in Seq(Int) /\ \A i \in 1 .. n : t[i] = s[i + 1]
  OBVIOUS
<1>11. \A i \in 1 .. n + 1 : s[i] \in Int
  BY <1>1
<1> DEFINE f == SumTo(s, n + 1)
           g == SumTo(t, n)
<1> HIDE DEF n, t
<1>2. f[0] = 0 /\ (\A i \in 1 .. n + 1 : f[i] = f[i - 1] + s[i]) /\ \A i \in 0 .. n + 1 : f[i] \in Int
  <2>1. n + 1 \in 0 .. Len(s)
    BY <1>1
  <2> QED
    BY <2>1, SumToFacts
<1>3. g[0] = 0 /\ \A i \in 1 .. n : g[i] = g[i - 1] + t[i]
  <2>1. n \in 0 .. Len(t)
    BY <1>1
  <2> QED
    BY <1>1, <2>1, SumToFacts
<1> HIDE DEF f, g
<1> DEFINE T == {i \in Nat : i <= n => g[i] = f[i + 1] - s[1]}
<1>4. 0 \in T
  <2>1. 1 \in 1 .. n + 1 /\ 1 - 1 = 0
    BY <1>1
  <2>2. f[1] = f[1 - 1] + s[1] /\ s[1] \in Int
    BY <1>2, <1>11, <2>1
  <2>3. f[0 + 1] - s[1] = 0
    BY <1>2, <2>1, <2>2
  <2> QED
    BY <1>3, <2>3
<1>5. ASSUME NEW i \in T PROVE i + 1 \in T
  <2>1. CASE i + 1 <= n
    <3>1. i \in Nat /\ i <= n /\ i + 1 \in 1 .. n /\ (i + 1) + 1 \in 1 .. n + 1 /\ (i + 1) - 1 = i /\ ((i + 1) + 1) - 1 = i + 1
          /\ i + 1 \in 0 .. n + 1 /\ 1 \in 1 .. n + 1
      BY <1>1, <2>1
    <3>2. g[i] = f[i + 1] - s[1]
      BY <3>1
    <3>3. g[i + 1] = g[(i + 1) - 1] + t[i + 1] /\ f[(i + 1) + 1] = f[((i + 1) + 1) - 1] + s[(i + 1) + 1] /\ t[i + 1] = s[(i + 1) + 1]
      BY <1>1, <1>2, <1>3, <3>1
    <3>4. f[i + 1] \in Int /\ s[(i + 1) + 1] \in Int /\ s[1] \in Int
      BY <1>2, <1>11, <3>1
    <3>5. g[i + 1] = (f[i + 1] - s[1]) + s[(i + 1) + 1] /\ f[(i + 1) + 1] = f[i + 1] + s[(i + 1) + 1]
      BY <3>1, <3>2, <3>3
    <3>6. \A a, b, c \in Int : (a - b) + c = (a + c) - b
      OBVIOUS
    <3>7. g[i + 1] = f[(i + 1) + 1] - s[1]
      BY <3>4, <3>5, <3>6
    <3> QED
      BY <3>1, <3>7
  <2>2. CASE ~(i + 1 <= n)
    BY <2>2
  <2> QED
    BY <2>1, <2>2
<1>6. T = Nat
  <2>1. T \subseteq Nat
    OBVIOUS
  <2> HIDE DEF T
  <2> QED
    BY <1>4, <1>5, <2>1, Induction
<1>7. g[n] = f[n + 1] - s[1]
  <2>1. n \in T
    <3> HIDE DEF T
    <3> QED
      BY <1>1, <1>6
  <2>2. n <= n
    BY <1>1
  <2> QED
    BY <2>1, <2>2
<1>10. SumOf(s) = f[n + 1] /\ SumOf(t) = g[n]
  BY <1>1, SumOfIsSumTo DEF f, g
<1> QED
  BY <1>7, <1>10 DEF t

--------
(* The debounced measurement. *)

LEMMA ReadingsNumbers ==
  /\ Interval \in Nat \ {0} /\ Window \in Nat \ {0} /\ MaxClock \in Nat /\ MaxLevel \in Nat
  /\ Never \in Nat /\ Never > MaxClock
  /\ "value" \notin Readers /\ "none" \notin Readers
  BY ReadingsAssumption DEF Never

Instants == 0 .. Never
ReadingTypes ==
  /\ sensor \in Sensors /\ clock \in 0 .. MaxClock /\ owner \in Readers \cup {"none"}
  /\ at \in [Readers -> {"away", "called", "measuring", "reading", "copied"}]
  /\ called \in [Readers -> [call : Nat, now : Nat]]
  /\ stale \in [Readers \cup {"value"} -> BOOLEAN]
  /\ value \in [first : Instants, second : Instants] /\ lastMeasurement \in Instants
  /\ copied \in [Readers -> Instants]

\* The value was measured when, or after, the last measurement is said to have been; an average's
\* oldest sample may be older.
AsOf == /\ value.second = Never \/ value.second >= lastMeasurement
        /\ sensor # "hw390" => value.first = Never \/ value.first >= lastMeasurement

\* A part of a value is good for whoever asked at a time.
Fresh(t, call) == t = Never \/ t + Interval > call
AnswerFresh(r) ==
  at[r] \in {"reading", "copied"} /\ ~stale[r] =>
    /\ Fresh(value.second, called[r].call)
    /\ sensor # "hw390" => Fresh(IF at[r] = "reading" THEN value.first ELSE copied[r], called[r].call)

DebounceInv ==
  /\ ReadingTypes
  /\ \A r \in Readers : called[r].call <= clock /\ called[r].now <= clock
  /\ lastMeasurement # Never => lastMeasurement <= clock /\ AsOf
  /\ \A r \in Readers : AnswerFresh(r)
  /\ Timely

LEMMA DebounceInvInit == ReadingsInit => DebounceInv
<1> SUFFICES ASSUME ReadingsInit PROVE DebounceInv
  OBVIOUS
<1>1. /\ sensor \in Sensors /\ clock = 0 /\ owner = "none"
      /\ at = [r \in Readers |-> "away"] /\ called = [r \in Readers |-> [call |-> 0, now |-> 0]]
      /\ value = NaN /\ lastMeasurement = Never /\ copied = [r \in Readers |-> Never]
      /\ stale = [r \in Readers \cup {"value"} |-> FALSE] /\ returned = NothingReturned
  BY DEF ReadingsInit
<1>2. clock \in 0 .. MaxClock /\ Never \in Instants /\ 0 <= clock
  BY <1>1, ReadingsNumbers DEF Instants
<1>3. ReadingTypes
  BY <1>1, <1>2 DEF ReadingTypes, NaN
<1>4. \A r \in Readers : called[r].call <= clock /\ called[r].now <= clock /\ at[r] = "away"
  BY <1>1, <1>2
<1>5. Timely
  BY <1>1 DEF Timely, NothingReturned
<1> QED
  BY <1>1, <1>3, <1>4, <1>5 DEF DebounceInv, AnswerFresh

LEMMA DebounceInvNext == DebounceInv /\ DebounceNext => DebounceInv'
<1> SUFFICES ASSUME DebounceInv, DebounceNext PROVE DebounceInv'
  OBVIOUS
<1>0. ReadingTypes /\ Timely /\ (\A r \in Readers : called[r].call <= clock /\ called[r].now <= clock)
      /\ (lastMeasurement # Never => lastMeasurement <= clock /\ AsOf) /\ (\A r \in Readers : AnswerFresh(r))
  BY DEF DebounceInv
<1>1. CASE TimePasses
  <2>1. clock' = clock + 1 /\ clock' \in 0 .. MaxClock
    BY <1>0, <1>1, ReadingsNumbers DEF TimePasses, ReadingTypes
  <2>2. UNCHANGED <<sensor, owner, at, called, value, lastMeasurement, copied, stale, returned>>
    BY <1>1 DEF TimePasses, Unread
  <2>3. ReadingTypes'
    BY <1>0, <2>1, <2>2 DEF ReadingTypes
  <2>4. \A r \in Readers : called[r].call \in Nat /\ called[r].now \in Nat
    BY <1>0 DEF ReadingTypes
  <2>5. \A r \in Readers : called'[r].call <= clock' /\ called'[r].now <= clock'
    BY <1>0, <2>1, <2>2, <2>4 DEF ReadingTypes
  <2>6. lastMeasurement # Never => lastMeasurement <= clock'
    BY <1>0, <2>1 DEF ReadingTypes, Instants
  <2>7. (lastMeasurement' # Never => AsOf') /\ Timely' /\ \A r \in Readers : AnswerFresh(r)'
    BY <1>0, <2>2 DEF AsOf, Timely, AnswerFresh
  <2> QED
    BY <2>2, <2>3, <2>5, <2>6, <2>7 DEF DebounceInv
<1>2. CASE Sht2xMeasures
  <2>1. PICK t \in {clock, Never} : returned' = [first |-> t, second |-> t, call |-> clock, stale |-> FALSE]
    BY <1>2 DEF Sht2xMeasures
  <2>2. UNCHANGED <<sensor, clock, owner, at, called, value, lastMeasurement, copied, stale>>
    BY <1>2 DEF Sht2xMeasures, Unread
  <2>3. clock + Interval > clock
    BY <1>0, ReadingsNumbers DEF ReadingTypes
  <2>4. t = Never \/ t + Interval > clock
    BY <2>1, <2>3
  <2>5. Timely'
    BY <2>1, <2>4 DEF Timely
  <2> QED
    BY <1>0, <2>2, <2>5 DEF DebounceInv, ReadingTypes, AsOf, AnswerFresh
<1>3. ASSUME NEW r \in Readers, getValue(r) PROVE DebounceInv'
  <2>1. /\ at[r] = "away" /\ at' = [at EXCEPT ![r] = "called"] /\ called' = [called EXCEPT ![r].call = clock]
        /\ stale' = [stale EXCEPT ![r] = stale["value"]] /\ returned' = NothingReturned
        /\ UNCHANGED <<sensor, clock, owner, value, lastMeasurement, copied>>
    BY <1>3 DEF getValue, Unread
  <2>2. /\ at' \in [Readers -> {"away", "called", "measuring", "reading", "copied"}]
        /\ at'[r] = "called" /\ \A q \in Readers \ {r} : at'[q] = at[q]
    BY <1>0, <2>1 DEF ReadingTypes
  <2>3. clock \in Nat
    BY <1>0, ReadingsNumbers DEF ReadingTypes
  <2>4. /\ called' \in [Readers -> [call : Nat, now : Nat]]
        /\ called'[r].call = clock /\ called'[r].now = called[r].now /\ \A q \in Readers \ {r} : called'[q] = called[q]
    BY <1>0, <2>1, <2>3 DEF ReadingTypes
  <2>5. stale' \in [Readers \cup {"value"} -> BOOLEAN] /\ \A q \in Readers \ {r} : stale'[q] = stale[q]
    BY <1>0, <2>1, Zenon DEF ReadingTypes
  <2>6. ReadingTypes'
    BY <1>0, <2>1, <2>2, <2>4, <2>5 DEF ReadingTypes
  <2>7. \A q \in Readers : called'[q].call <= clock' /\ called'[q].now <= clock'
    <3> SUFFICES ASSUME NEW q \in Readers PROVE called'[q].call <= clock /\ called'[q].now <= clock
      BY <2>1
    <3>1. CASE q = r
      BY <1>0, <2>3, <2>4, <3>1
    <3>2. CASE q # r
      BY <1>0, <2>4, <3>2
    <3> QED
      BY <3>1, <3>2
  <2>8. \A q \in Readers : AnswerFresh(q)'
    <3> SUFFICES ASSUME NEW q \in Readers, at'[q] \in {"reading", "copied"} PROVE AnswerFresh(q)'
      BY DEF AnswerFresh
    <3>1. q # r
      BY <2>2
    <3>2. at'[q] = at[q] /\ called'[q] = called[q] /\ stale'[q] = stale[q]
      BY <2>2, <2>4, <2>5, <3>1
    <3> QED
      BY <1>0, <2>1, <3>2 DEF AnswerFresh
  <2>9. Timely'
    BY <2>1 DEF Timely, NothingReturned
  <2> QED
    BY <1>0, <2>1, <2>6, <2>7, <2>8, <2>9 DEF DebounceInv, AsOf
<1>4. ASSUME NEW r \in Readers, updateIfNecessary(r) PROVE DebounceInv'
  <2>1. /\ at[r] = "called" /\ called' = [called EXCEPT ![r].now = clock]
        /\ UNCHANGED <<sensor, clock, value, lastMeasurement, copied, stale, returned>>
    BY <1>4 DEF updateIfNecessary, Unread
  <2>2. \/ Recent /\ at' = [at EXCEPT ![r] = "reading"] /\ owner' = owner
        \/ at' = [at EXCEPT ![r] = "measuring"] /\ owner' = r
    BY <1>4 DEF updateIfNecessary
  <2>3. clock \in Nat
    BY <1>0, ReadingsNumbers DEF ReadingTypes
  <2>4. /\ called' \in [Readers -> [call : Nat, now : Nat]]
        /\ called'[r].now = clock /\ called'[r].call = called[r].call /\ \A q \in Readers \ {r} : called'[q] = called[q]
    BY <1>0, <2>1, <2>3 DEF ReadingTypes
  <2>5. /\ at' \in [Readers -> {"away", "called", "measuring", "reading", "copied"}] /\ owner' \in Readers \cup {"none"}
        /\ \A q \in Readers \ {r} : at'[q] = at[q]
        /\ at'[r] \in {"measuring", "reading"} /\ (at'[r] = "reading" => Recent)
    BY <1>0, <2>2 DEF ReadingTypes
  <2>6. ReadingTypes'
    BY <1>0, <2>1, <2>4, <2>5 DEF ReadingTypes
  <2>7. \A q \in Readers : called'[q].call <= clock' /\ called'[q].now <= clock'
    <3> SUFFICES ASSUME NEW q \in Readers PROVE called'[q].call <= clock /\ called'[q].now <= clock
      BY <2>1
    <3>1. CASE q = r
      BY <1>0, <2>3, <2>4, <3>1
    <3>2. CASE q # r
      BY <1>0, <2>4, <3>2
    <3> QED
      BY <3>1, <3>2
  <2>8. \A q \in Readers : AnswerFresh(q)'
    <3> SUFFICES ASSUME NEW q \in Readers, at'[q] \in {"reading", "copied"} PROVE AnswerFresh(q)'
      BY DEF AnswerFresh
    <3>1. CASE q # r
      <4>1. at'[q] = at[q] /\ called'[q] = called[q] /\ stale'[q] = stale[q]
        BY <2>1, <2>4, <2>5, <3>1
      <4> QED
        BY <1>0, <2>1, <4>1 DEF AnswerFresh
    <3>2. CASE q = r
      <4>1. at'[r] = "reading" /\ Recent
        BY <2>5, <3>2
      <4>2. lastMeasurement # Never /\ clock - lastMeasurement < Interval /\ AsOf
        BY <1>0, <4>1 DEF Recent
      <4>3. called[r].call \in Nat /\ called[r].call <= clock
        BY <1>0 DEF ReadingTypes
      <4>4. lastMeasurement \in Nat /\ value.first \in Nat /\ value.second \in Nat /\ Interval \in Nat
        BY <1>0, ReadingsNumbers DEF ReadingTypes, Instants
      <4>5. \A t \in Nat : t >= lastMeasurement => t + Interval > called[r].call
        BY <2>3, <4>2, <4>3, <4>4
      <4>6. Fresh(value.second, called[r].call) /\ (sensor # "hw390" => Fresh(value.first, called[r].call))
        BY <4>2, <4>4, <4>5 DEF AsOf, Fresh
      <4>7. Fresh(value'.second, called'[r].call) /\ (sensor' # "hw390" => Fresh(value'.first, called'[r].call))
        BY <2>1, <2>4, <4>6
      <4> QED
        BY <3>2, <4>1, <4>7 DEF AnswerFresh
    <3> QED
      BY <3>1, <3>2
  <2> QED
    BY <1>0, <2>1, <2>6, <2>7, <2>8 DEF DebounceInv, AsOf, Timely
<1>5. ASSUME NEW r \in Readers, Measured(r) PROVE DebounceInv'
  <2>1. /\ at[r] = "measuring" /\ owner' = "none" /\ at' = [at EXCEPT ![r] = "reading"]
        /\ UNCHANGED <<sensor, clock, called, copied, returned>>
    BY <1>5 DEF Measured, Unread
  <2>2. \/ KeepsLast
        \/ \E first \in {clock, Never, value.first}, second \in {clock, Never} :
             Becomes(r, first, second) /\ (sensor # "hw390" => first # value.first \/ first \in {clock, Never})
    BY <1>5 DEF Measured, Ds18B20Measures, Hw390Measures, Hdc2010Measures, ChirpMeasures, Succeeds
  <2>3. /\ at' \in [Readers -> {"away", "called", "measuring", "reading", "copied"}]
        /\ at'[r] = "reading" /\ \A q \in Readers \ {r} : at'[q] = at[q]
    BY <1>0, <2>1 DEF ReadingTypes
  <2>4. clock \in Nat /\ clock \in Instants /\ Never \in Instants /\ clock # Never
    BY <1>0, ReadingsNumbers DEF ReadingTypes, Instants
  <2>5. CASE KeepsLast
    <3>1. stale' = [q \in DOMAIN stale |-> TRUE] /\ UNCHANGED <<value, lastMeasurement>>
      BY <2>5 DEF KeepsLast
    <3>2. stale' \in [Readers \cup {"value"} -> BOOLEAN] /\ \A q \in Readers : stale'[q]
      BY <1>0, <3>1 DEF ReadingTypes
    <3>3. ReadingTypes'
      BY <1>0, <2>1, <2>3, <3>1, <3>2 DEF ReadingTypes
    <3>4. \A q \in Readers : AnswerFresh(q)'
      BY <3>2 DEF AnswerFresh
    <3> QED
      BY <1>0, <2>1, <3>1, <3>3, <3>4 DEF DebounceInv, AsOf, Timely
  <2>6. CASE \E first \in {clock, Never, value.first}, second \in {clock, Never} :
               Becomes(r, first, second) /\ (sensor # "hw390" => first # value.first \/ first \in {clock, Never})
    <3>1. PICK first \in {clock, Never, value.first}, second \in {clock, Never} :
            Becomes(r, first, second) /\ (sensor # "hw390" => first # value.first \/ first \in {clock, Never})
      BY <2>6
    <3>2. /\ value' = [first |-> first, second |-> second] /\ lastMeasurement' = called[r].now
          /\ stale' = [stale EXCEPT !["value"] = FALSE]
      BY <3>1 DEF Becomes
    <3>3. first \in Instants /\ second \in Instants /\ (sensor # "hw390" => first \in {clock, Never})
      BY <1>0, <2>4, <3>1 DEF ReadingTypes
    <3>4. stale' \in [Readers \cup {"value"} -> BOOLEAN] /\ \A q \in Readers : stale'[q] = stale[q]
      <4>1. \A q \in Readers : q # "value"
        BY ReadingsNumbers
      <4> QED
        BY <1>0, <3>2, <4>1, Zenon DEF ReadingTypes
    <3>5. called[r].now \in Nat /\ called[r].now <= clock /\ called[r].now \in Instants
      BY <1>0, ReadingsNumbers DEF ReadingTypes, Instants
    <3>6. value'.first = first /\ value'.second = second /\ value' \in [first : Instants, second : Instants]
      BY <3>2, <3>3
    <3>7. ReadingTypes'
      BY <1>0, <2>1, <2>3, <3>2, <3>4, <3>5, <3>6 DEF ReadingTypes
    <3>8. lastMeasurement' <= clock' /\ clock >= lastMeasurement'
      BY <2>1, <2>4, <3>2, <3>5
    <3>9. AsOf'
      BY <2>1, <3>1, <3>3, <3>6, <3>8 DEF AsOf
    <3>10. \A q \in Readers : AnswerFresh(q)'
      <4> SUFFICES ASSUME NEW q \in Readers, at'[q] \in {"reading", "copied"}, ~stale'[q] PROVE AnswerFresh(q)'
        BY DEF AnswerFresh
      <4>1. called[q].call \in Nat /\ called[q].call <= clock /\ Interval \in Nat \ {0}
        BY <1>0, ReadingsNumbers DEF ReadingTypes
      <4>2. \A t \in {clock, Never} : Fresh(t, called[q].call)
        BY <2>4, <4>1 DEF Fresh
      <4>3. Fresh(second, called[q].call) /\ (sensor # "hw390" => Fresh(first, called[q].call))
        BY <3>1, <3>3, <4>2
      <4>4. at'[q] = "copied" => at[q] = "copied" /\ ~stale[q]
        BY <2>3, <3>4
      <4>5. at'[q] = "copied" /\ sensor # "hw390" => Fresh(copied[q], called[q].call)
        BY <1>0, <4>4 DEF AnswerFresh
      <4>6. /\ Fresh(value'.second, called'[q].call)
            /\ sensor' # "hw390" => Fresh(IF at'[q] = "reading" THEN value'.first ELSE copied'[q], called'[q].call)
        BY <2>1, <3>6, <4>3, <4>5
      <4> QED
        BY <4>6 DEF AnswerFresh
    <3> QED
      BY <1>0, <2>1, <3>7, <3>8, <3>9, <3>10 DEF DebounceInv, Timely
  <2> QED
    BY <2>2, <2>5, <2>6
<1>6. ASSUME NEW r \in Readers, CopyFirst(r) PROVE DebounceInv'
  <2>1. /\ at[r] = "reading" /\ copied' = [copied EXCEPT ![r] = value.first] /\ at' = [at EXCEPT ![r] = "copied"]
        /\ UNCHANGED <<sensor, clock, owner, called, value, lastMeasurement, stale, returned>>
    BY <1>6 DEF CopyFirst, Unread
  <2>2. /\ at' \in [Readers -> {"away", "called", "measuring", "reading", "copied"}]
        /\ at'[r] = "copied" /\ \A q \in Readers \ {r} : at'[q] = at[q]
        /\ copied' \in [Readers -> Instants] /\ copied'[r] = value.first /\ \A q \in Readers \ {r} : copied'[q] = copied[q]
    BY <1>0, <2>1 DEF ReadingTypes
  <2>3. ReadingTypes'
    BY <1>0, <2>1, <2>2 DEF ReadingTypes
  <2>4. \A q \in Readers : AnswerFresh(q)'
    <3> SUFFICES ASSUME NEW q \in Readers PROVE AnswerFresh(q)'
      OBVIOUS
    <3>1. CASE q # r
      BY <1>0, <2>1, <2>2, <3>1 DEF AnswerFresh
    <3>2. CASE q = r
      BY <1>0, <2>1, <2>2, <3>2 DEF AnswerFresh
    <3> QED
      BY <3>1, <3>2
  <2> QED
    BY <1>0, <2>1, <2>3, <2>4 DEF DebounceInv, AsOf, Timely
<1>7. ASSUME NEW r \in Readers, CopySecond(r) PROVE DebounceInv'
  <2>1. /\ at[r] = "copied"
        /\ returned' = [first |-> copied[r], second |-> value.second, call |-> called[r].call, stale |-> stale[r]]
        /\ at' = [at EXCEPT ![r] = "away"]
        /\ copied' = [copied EXCEPT ![r] = Never] /\ called' = [called EXCEPT ![r] = [call |-> 0, now |-> 0]]
        /\ UNCHANGED <<sensor, clock, owner, value, lastMeasurement, stale>>
    BY <1>7 DEF CopySecond, Unread
  <2>2. /\ at' \in [Readers -> {"away", "called", "measuring", "reading", "copied"}]
        /\ at'[r] = "away" /\ \A q \in Readers \ {r} : at'[q] = at[q]
    BY <1>0, <2>1 DEF ReadingTypes
  <2>3. Never \in Instants
    BY ReadingsNumbers DEF Instants
  <2>4. copied' \in [Readers -> Instants] /\ \A q \in Readers \ {r} : copied'[q] = copied[q]
    BY <1>0, <2>1, <2>3 DEF ReadingTypes
  <2>5. /\ called' \in [Readers -> [call : Nat, now : Nat]]
        /\ called'[r].call = 0 /\ called'[r].now = 0 /\ \A q \in Readers \ {r} : called'[q] = called[q]
    BY <1>0, <2>1 DEF ReadingTypes
  <2>6. ReadingTypes'
    BY <1>0, <2>1, <2>2, <2>4, <2>5 DEF ReadingTypes
  <2>7. \A q \in Readers : called'[q].call <= clock' /\ called'[q].now <= clock'
    <3> SUFFICES ASSUME NEW q \in Readers PROVE called'[q].call <= clock /\ called'[q].now <= clock
      BY <2>1
    <3>1. CASE q = r
      BY <1>0, <2>5, <3>1 DEF ReadingTypes
    <3>2. CASE q # r
      BY <1>0, <2>5, <3>2
    <3> QED
      BY <3>1, <3>2
  <2>8. \A q \in Readers : AnswerFresh(q)'
    <3> SUFFICES ASSUME NEW q \in Readers, at'[q] \in {"reading", "copied"} PROVE AnswerFresh(q)'
      BY DEF AnswerFresh
    <3>1. q # r
      BY <2>2
    <3> QED
      BY <1>0, <2>1, <2>2, <2>4, <2>5, <3>1 DEF AnswerFresh
  <2>9. Timely'
    <3>1. AnswerFresh(r)
      BY <1>0
    <3>2. ~stale[r] => Fresh(value.second, called[r].call) /\ (sensor # "hw390" => Fresh(copied[r], called[r].call))
      BY <2>1, <3>1 DEF AnswerFresh
    <3>3. /\ returned'.first = copied[r] /\ returned'.second = value.second /\ returned'.call = called[r].call
          /\ returned'.stale = stale[r] /\ sensor' = sensor
      BY <2>1
    <3> QED
      BY <3>2, <3>3 DEF Timely, Fresh
  <2> QED
    BY <1>0, <2>1, <2>6, <2>7, <2>8, <2>9 DEF DebounceInv, AsOf
<1> QED
  BY <1>1, <1>2, <1>3, <1>4, <1>5, <1>6, <1>7 DEF DebounceNext

LEMMA DebounceInvRests == DebounceInv /\ UNCHANGED readingVars => DebounceInv'
  BY DEF DebounceInv, ReadingTypes, AsOf, AnswerFresh, Timely, readingVars

LEMMA DebounceInvRecords == DebounceInv /\ RecordLevel => DebounceInv'
<1> SUFFICES ASSUME DebounceInv, RecordLevel PROVE DebounceInv'
  OBVIOUS
<1>1. UNCHANGED <<sensor, clock, owner, at, called, value, lastMeasurement, copied, stale, returned>>
  BY DEF RecordLevel
<1> QED
  BY <1>1 DEF DebounceInv, ReadingTypes, AsOf, AnswerFresh, Timely

LEMMA DebounceInvImplies == DebounceInv => ReadingsTypeOK /\ Timely
  BY DEF DebounceInv, ReadingTypes, ReadingsTypeOK, Instants
--------
(* The moving average. *)

\* Where the ring keeps the "j"-th of the levels recorded last.
Slot(m, j) == IF m.count < Window THEN j
              ELSE IF m.index + j - 1 <= Window THEN m.index + j - 1 ELSE m.index + j - 1 - Window

RingOf(m) ==
  /\ m \in [measurements : [1 .. Window -> Nat], index : 1 .. Window, count : 0 .. Window, sum : Int, average : Int,
            recorded : Seq(Nat)]
  /\ Len(m.recorded) = m.count /\ (m.count < Window => m.index = m.count + 1)
  /\ \A j \in 1 .. m.count : m.recorded[j] = m.measurements[Slot(m, j)]
  /\ m.sum = SumOf(m.recorded)
  /\ m.count > 0 => m.average = m.sum \div m.count

LevelsInv == RingOf(average)

LEMMA NoSum == SumOf(<<>>) = 0
<1>1. <<>> \in Seq(Int) /\ Len(<<>>) = 0 /\ 0 \in 0 .. Len(<<>>)
  OBVIOUS
<1>2. SumTo(<<>>, 0)[0] = 0
  BY <1>1, SumToFacts
<1>3. SumOf(<<>>) = SumTo(<<>>, Len(<<>>))[Len(<<>>)]
  BY SumOfIsSumTo
<1> QED
  BY <1>1, <1>2, <1>3, Zenon

LEMMA LevelsInvInit == ReadingsInit => LevelsInv
<1> SUFFICES ASSUME average = NoLevels PROVE RingOf(average)
  BY DEF ReadingsInit, LevelsInv
<1>1. average = [measurements |-> [i \in 1 .. Window |-> 0], index |-> 1, count |-> 0, sum |-> 0, average |-> 0,
                 recorded |-> <<>>]
  BY DEF NoLevels
<1>2. 1 \in 1 .. Window /\ 0 \in 0 .. Window /\ 0 \in Int /\ <<>> \in Seq(Nat) /\ [i \in 1 .. Window |-> 0] \in [1 .. Window -> Nat]
  BY ReadingsNumbers
<1>3. average \in [measurements : [1 .. Window -> Nat], index : 1 .. Window, count : 0 .. Window, sum : Int, average : Int,
                   recorded : Seq(Nat)]
  BY <1>1, <1>2
<1>4. average.count = 0 /\ average.index = 1 /\ average.sum = 0 /\ average.recorded = <<>> /\ Len(average.recorded) = 0
  BY <1>1
<1>5. 1 .. 0 = {} /\ ~(0 > 0)
  OBVIOUS
<1> QED
  BY <1>3, <1>4, <1>5, NoSum DEF RingOf

LEMMA LevelsInvNext == LevelsInv /\ RecordLevel => LevelsInv'
<1> SUFFICES ASSUME LevelsInv, NEW height \in 0 .. MaxLevel, average' = record(average, height) PROVE RingOf(average')
  BY DEF RecordLevel, LevelsInv
<1>0. Window \in Nat \ {0} /\ height \in Nat
  BY ReadingsNumbers
<1> DEFINE ms == average.measurements
           ix == average.index
           n == average.count
           rs == average.recorded
           full == n = Window
           sum == (IF full THEN average.sum - ms[ix] ELSE average.sum) + height
           count == IF full THEN n ELSE n + 1
           next == (ix % Window) + 1
           ms2 == [ms EXCEPT ![ix] = height]
           rs2 == IF Len(rs) = Window THEN Append(Tail(rs), height) ELSE Append(rs, height)
<1>1. average' = [measurements |-> ms2, index |-> next, count |-> count, sum |-> sum, average |-> sum \div count, recorded |-> rs2]
  BY DEF record
<1>2. /\ ms \in [1 .. Window -> Nat] /\ ix \in 1 .. Window /\ n \in 0 .. Window /\ average.sum \in Int /\ rs \in Seq(Nat)
      /\ Len(rs) = n /\ (n < Window => ix = n + 1) /\ average.sum = SumOf(rs)
  BY DEF LevelsInv, RingOf
<1>3. \A j \in 1 .. n : rs[j] = ms[IF n < Window THEN j ELSE IF ix + j - 1 <= Window THEN ix + j - 1 ELSE ix + j - 1 - Window]
  BY DEF LevelsInv, RingOf, Slot
<1> DEFINE oldSum == average.sum
<1> HIDE DEF ms, ix, n, rs, oldSum
<1>4. next = IF ix = Window THEN 1 ELSE ix + 1
  <2>1. \A w \in Nat \ {0} : \A i \in 1 .. w : i % w = IF i = w THEN 0 ELSE i
    <3>1. \A w \in Nat \ {0} : w % w = 0
      OBVIOUS
    <3>2. \A w \in Nat \ {0} : \A i \in 1 .. w : i # w => i % w = i
      OBVIOUS
    <3> QED
      BY <3>1, <3>2
  <2>2. ix % Window = IF ix = Window THEN 0 ELSE ix
    BY <1>0, <1>2, <2>1
  <2>3. ix # Window => ix + 1 = (ix % Window) + 1
    BY <2>2, Zenon
  <2>4. ix = Window => (ix % Window) + 1 = 1
    BY <2>2
  <2> QED
    BY <2>3, <2>4
<1>5. next \in 1 .. Window /\ count \in 1 .. Window /\ (count < Window => next = count + 1 /\ ~full)
  BY <1>0, <1>2, <1>4
<1>6. ms2 \in [1 .. Window -> Nat] /\ ms2[ix] = height /\ \A k \in 1 .. Window : k # ix => ms2[k] = ms[k]
  BY <1>0, <1>2
<1>7. rs \in Seq(Int) /\ height \in Int /\ \A j \in 1 .. n : rs[j] \in Int
  BY <1>0, <1>2
<1> HIDE DEF next, ms2
<1>8. CASE full
  <2>1. rs # <<>> /\ count = Window /\ Len(rs) = Window /\ n = Window
    BY <1>0, <1>2, <1>8
  <2> DEFINE rest == Tail(rs)
  <2>2. rest \in Seq(Nat) /\ rest \in Seq(Int) /\ Len(rest) = Window - 1 /\ \A j \in 1 .. Window - 1 : rest[j] = rs[j + 1]
    BY <1>2, <1>7, <2>1
  <2>3. SumOf(rest) = SumOf(rs) - rs[1]
    BY <1>7, <2>1, SumTail
  <2> HIDE DEF rest
  <2>4. rs2 = Append(rest, height)
    BY <2>1 DEF rest
  <2>5. rs2 \in Seq(Nat) /\ Len(rs2) = Window
    <3>1. Append(rest, height) \in Seq(Nat) /\ Len(Append(rest, height)) = Len(rest) + 1
      BY <1>0, <2>2
    <3>2. (Window - 1) + 1 = Window
      BY <1>0
    <3> QED
      BY <2>2, <2>4, <3>1, <3>2
  <2>6. rs2[Window] = height /\ \A j \in 1 .. Window - 1 : rs2[j] = rs[j + 1]
    <3>1. (Window - 1) + 1 = Window
      BY <1>0
    <3>2. rs2[Window] = height /\ \A j \in 1 .. Window - 1 : rs2[j] = rest[j]
      <4> HIDE DEF rs2
      <4> QED
        BY <1>0, <2>2, <2>4, <3>1
    <3> QED
      BY <2>2, <3>2
  <2>7. rs[1] = ms[ix] /\ rs[1] \in Int
    <3>1. 1 \in 1 .. n /\ ~(n < Window) /\ ix + 1 - 1 = ix /\ ix <= Window
      BY <1>0, <1>2, <2>1
    <3> QED
      BY <1>3, <1>7, <3>1
  <2>8. sum = SumOf(rs2)
    <3>1. SumOf(rs2) = SumOf(rest) + height
      BY <1>7, <2>2, <2>4, SumAppend
    <3>2. sum = (SumOf(rs) - rs[1]) + height
      BY <1>2, <1>8, <2>7
    <3> QED
      BY <2>3, <3>1, <3>2
  <2>9. ASSUME NEW j \in 1 .. Window
        PROVE  rs2[j] = ms2[IF next + j - 1 <= Window THEN next + j - 1 ELSE next + j - 1 - Window]
    <3>1. CASE j = Window
      <4>1. (IF next + j - 1 <= Window THEN next + j - 1 ELSE next + j - 1 - Window) = ix
        BY <1>0, <1>2, <1>4, <3>1
      <4> QED
        BY <1>6, <2>6, <3>1, <4>1
    <3>2. CASE j # Window
      <4> DEFINE k == IF ix + (j + 1) - 1 <= Window THEN ix + (j + 1) - 1 ELSE ix + (j + 1) - 1 - Window
      <4>1. (IF next + j - 1 <= Window THEN next + j - 1 ELSE next + j - 1 - Window) = k
        BY <1>0, <1>2, <1>4, <3>2
      <4>2. k \in 1 .. Window /\ k # ix
        BY <1>0, <1>2, <3>2
      <4>3. j \in 1 .. Window - 1 /\ j + 1 \in 1 .. n /\ ~(n < Window)
        BY <1>0, <2>1, <3>2
      <4>4. rs[j + 1] = ms[k]
        BY <1>3, <4>3
      <4> HIDE DEF k
      <4> QED
        BY <1>6, <2>6, <4>1, <4>2, <4>3, <4>4
    <3> QED
      BY <3>1, <3>2
  <2>10. /\ count \in 0 .. Window /\ count > 0 /\ ~(count < Window) /\ sum \in Int /\ sum \div count \in Int
    <3>1. sum \in Int
      BY <1>2, <1>7, <2>7
    <3> HIDE DEF sum
    <3> QED
      BY <1>0, <2>1, <3>1
  <2> HIDE DEF sum, rs2, count
  <2>11. average' \in [measurements : [1 .. Window -> Nat], index : 1 .. Window, count : 0 .. Window, sum : Int, average : Int,
                       recorded : Seq(Nat)]
    BY <1>1, <1>5, <1>6, <2>5, <2>10
  <2>12. /\ average'.measurements = ms2 /\ average'.index = next /\ average'.count = count /\ average'.sum = sum
         /\ average'.average = sum \div count /\ average'.recorded = rs2
    BY <1>1
  <2>13. \A j \in 1 .. count : rs2[j] = ms2[Slot(average', j)]
    <3>1. ~(average'.count < Window)
      BY <2>10, <2>12
    <3> QED
      BY <2>1, <2>9, <2>12, <3>1 DEF Slot
  <2> QED
    BY <2>1, <2>5, <2>8, <2>10, <2>11, <2>12, <2>13 DEF RingOf
<1>9. CASE ~full
  <2>1. n < Window /\ ix = n + 1 /\ count = n + 1 /\ Len(rs) # Window /\ n \in Nat
    BY <1>0, <1>2, <1>9
  <2>2. rs2 = Append(rs, height)
    BY <2>1
  <2>3. rs2 \in Seq(Nat) /\ Len(rs2) = n + 1 /\ rs2[n + 1] = height /\ \A j \in 1 .. n : rs2[j] = rs[j]
    BY <1>0, <1>2, <2>2
  <2>4. sum = SumOf(rs2)
    <3>1. SumOf(rs2) = SumOf(rs) + height
      BY <1>7, <2>2, SumAppend
    <3>2. sum = SumOf(rs) + height
      BY <1>2, <1>9
    <3> QED
      BY <3>1, <3>2
  <2>5. ASSUME NEW j \in 1 .. n + 1
        PROVE  rs2[j] = ms2[j]
    <3>1. CASE j = n + 1
      BY <1>6, <2>1, <2>3, <3>1
    <3>2. CASE j # n + 1
      <4>1. j \in 1 .. n /\ j \in 1 .. Window /\ j # ix
        BY <1>0, <2>1, <3>2
      <4>2. rs[j] = ms[j]
        BY <1>3, <2>1, <4>1
      <4> QED
        BY <1>6, <2>3, <4>1, <4>2
    <3> QED
      BY <3>1, <3>2
  <2>6. count < Window \/ (count = Window /\ next = 1)
    BY <1>0, <1>2, <1>4, <2>1
  <2>7. /\ count \in 0 .. Window /\ count > 0 /\ sum \in Int /\ sum \div count \in Int
    <3>1. sum \in Int
      BY <1>2, <1>7, <1>9
    <3> HIDE DEF sum
    <3> QED
      BY <1>0, <2>1, <3>1
  <2> HIDE DEF sum, rs2, count
  <2>11. average' \in [measurements : [1 .. Window -> Nat], index : 1 .. Window, count : 0 .. Window, sum : Int, average : Int,
                       recorded : Seq(Nat)]
    BY <1>1, <1>5, <1>6, <2>3, <2>7
  <2>12. /\ average'.measurements = ms2 /\ average'.index = next /\ average'.count = count /\ average'.sum = sum
         /\ average'.average = sum \div count /\ average'.recorded = rs2
    BY <1>1
  <2>13. \A j \in 1 .. count : rs2[j] = ms2[Slot(average', j)]
    <3> SUFFICES ASSUME NEW j \in 1 .. n + 1 PROVE Slot(average', j) = j
      BY <2>1, <2>5
    <3>1. CASE count < Window
      BY <2>12, <3>1 DEF Slot
    <3>2. CASE count = Window /\ next = 1
      <4>1. 1 + j - 1 = j /\ j <= Window
        BY <1>0, <2>1
      <4> QED
        BY <1>0, <2>12, <3>2, <4>1 DEF Slot
    <3> QED
      BY <2>6, <3>1, <3>2
  <2> QED
    BY <1>5, <2>1, <2>3, <2>4, <2>7, <2>11, <2>12, <2>13 DEF RingOf
<1> QED
  BY <1>8, <1>9

LEMMA LevelsInvImplies == LevelsInv => AverageExact
<1> SUFFICES ASSUME LevelsInv, average.recorded # <<>> PROVE average.average = SumOf(average.recorded) \div Len(average.recorded)
  BY DEF AverageExact
<1>1. /\ average.recorded \in Seq(Nat) /\ Len(average.recorded) = average.count /\ average.sum = SumOf(average.recorded)
      /\ average.count > 0 => average.average = average.sum \div average.count
  BY DEF LevelsInv, RingOf
<1>2. Len(average.recorded) > 0
  BY <1>1
<1> QED
  BY <1>1, <1>2

LEMMA LevelsInvRests == LevelsInv /\ UNCHANGED readingVars => LevelsInv'
<1> SUFFICES ASSUME LevelsInv, average' = average PROVE LevelsInv'
  BY DEF readingVars
<1> QED
  BY DEF LevelsInv
--------
(* The battery. *)

LEMMA BatteryNumbers ==
  /\ MaxVoltage \in Nat /\ ShutdownThreshold \in Nat /\ Averaged \in Nat /\ Listeners \in Nat /\ MaxChanges \in Nat
  /\ 0 < ShutdownThreshold /\ Averaged > 0
  BY BatteryAssumption

BatteryInv == BatteryTypeOK /\ LowOnAverage

LEMMA BatteryInvInit == BatteryInit => BatteryInv
<1> SUFFICES ASSUME BatteryInit PROVE BatteryInv
  OBVIOUS
<1> USE BatteryNumbers DEF BatteryInit
<1>1. window \in Seq(-1 .. MaxVoltage) /\ Len(window) <= Averaged
  OBVIOUS
<1>2. notified \in 0 .. Listeners /\ changes \in 0 .. MaxChanges
  OBVIOUS
<1> QED
  BY <1>1, <1>2 DEF BatteryInv, BatteryTypeOK, LowOnAverage

\* An average, truncated, that is below a positive limit.
LEMMA LowAverage ==
  ASSUME NEW a \in Int, NEW n \in Nat \ {0}, NEW t \in Nat \ {0}, Quotient(a, n) < t
  PROVE  a < t * n
<1>1. t * n \in Nat /\ t * n > 0
  OBVIOUS
<1>2. CASE a >= 0
  <2>1. a \div n < t
    BY <1>2 DEF Quotient
  <2>2. a = n * (a \div n) + (a % n) /\ a % n \in 0 .. n - 1 /\ a \div n \in Int
    OBVIOUS
  <2>3. \A q \in Int : q < t => n * q <= n * (t - 1)
    OBVIOUS
  <2>4. n * (t - 1) = t * n - n
    OBVIOUS
  <2>5. n * (a \div n) <= t * n - n /\ n * (a \div n) \in Int
    BY <2>1, <2>2, <2>3, <2>4
  <2> DEFINE p == n * (a \div n)
             r == a % n
             u == t * n
  <2>6. p \in Int /\ r \in Int /\ u \in Int /\ p <= u - n /\ r <= n - 1 /\ a = p + r
    BY <1>1, <2>2, <2>5
  <2> HIDE DEF p, r, u
  <2>7. a < u
    BY <2>6
  <2> QED
    BY <2>7 DEF u
<1>3. CASE a < 0
  BY <1>1, <1>3
<1> QED
  BY <1>2, <1>3

LEMMA BatteryInvNext == BatteryInv /\ BatteryNext => BatteryInv'
<1> SUFFICES ASSUME BatteryInv, BatteryNext PROVE BatteryInv'
  OBVIOUS
<1> USE BatteryNumbers
<1>0. BatteryTypeOK /\ LowOnAverage
  BY DEF BatteryInv
<1>1. CASE VoltageChanges
  <2>1. changes' \in 0 .. MaxChanges
    BY <1>0, <1>1 DEF BatteryTypeOK, VoltageChanges
  <2>2. voltage' \in 1 .. MaxVoltage /\ UNCHANGED <<driver, device, window, notified>>
    BY <1>1 DEF VoltageChanges
  <2> QED
    BY <1>0, <2>1, <2>2 DEF BatteryInv, BatteryTypeOK, LowOnAverage
<1>2. CASE Boot
  <2>1. window' = <<>> /\ notified' = 0 /\ device' \in {"asleep", "up"} /\ UNCHANGED <<driver, voltage, changes>>
    BY <1>2 DEF Boot
  <2>2. window' \in Seq(-1 .. MaxVoltage) /\ Len(window') <= Averaged /\ notified' \in 0 .. Listeners
    BY <2>1
  <2> QED
    BY <1>0, <2>1, <2>2 DEF BatteryInv, BatteryTypeOK, LowOnAverage
<1>3. CASE checkBatteryVoltage
  <2>1. PICK sample \in Readings :
          window' = IF Len(window) = Averaged THEN Append(Tail(window), sample) ELSE Append(window, sample)
    BY <1>3 DEF checkBatteryVoltage
  <2>2. sample \in -1 .. MaxVoltage /\ window \in Seq(-1 .. MaxVoltage) /\ Len(window) <= Averaged
    BY <1>0 DEF Readings, BatteryTypeOK
  <2>3. window' \in Seq(-1 .. MaxVoltage) /\ Len(window') <= Averaged /\ Len(window') \in Nat \ {0}
    <3>1. CASE Len(window) = Averaged
      <4>1. window # <<>>
        BY <3>1
      <4>2. Tail(window) \in Seq(-1 .. MaxVoltage) /\ Len(Tail(window)) = Averaged - 1
        BY <2>2, <3>1, <4>1
      <4> DEFINE rest == Tail(window)
      <4>3. window' = Append(rest, sample)
        BY <2>1, <3>1
      <4> HIDE DEF rest
      <4> QED
        BY <2>2, <4>2, <4>3 DEF rest
    <3>2. CASE Len(window) # Averaged
      <4>1. Len(window) \in Nat /\ Len(window) + 1 <= Averaged /\ Len(window) + 1 \in Nat \ {0}
        BY <2>2, <3>2
      <4>2. window' = Append(window, sample)
        BY <2>1, <3>2
      <4>3. window' \in Seq(-1 .. MaxVoltage)
        BY <2>2, <4>2
      <4>4. Len(window') = Len(window) + 1
        BY <2>2, <4>2
      <4> QED
        BY <4>1, <4>3, <4>4
    <3> QED
      BY <3>1, <3>2
  <2>4. device' \in {"shutting", "up"} /\ (device' = "shutting" => Average(window') < ShutdownThreshold)
        /\ UNCHANGED <<driver, voltage, notified, changes>>
    BY <1>3 DEF checkBatteryVoltage
  <2>5. SumOf(window') \in Int
    <3>1. window' \in Seq(Int)
      <4>1. -1 .. MaxVoltage \subseteq Int
        OBVIOUS
      <4> QED
        BY <2>3, <4>1
    <3> QED
      BY <3>1, SumIsInteger
  <2>6. device' = "shutting" => SumOf(window') < ShutdownThreshold * Len(window')
    BY <2>3, <2>4, <2>5, LowAverage DEF Average
  <2> QED
    BY <1>0, <2>3, <2>4, <2>6 DEF BatteryInv, BatteryTypeOK, LowOnAverage
<1>4. CASE NotifyListener
  <2>1. notified' \in 0 .. Listeners
    BY <1>0, <1>4 DEF BatteryTypeOK, NotifyListener
  <2> QED
    BY <1>0, <1>4, <2>1 DEF BatteryInv, BatteryTypeOK, LowOnAverage, NotifyListener
<1>5. CASE enterLowPowerDeepSleep
  BY <1>0, <1>5 DEF BatteryInv, BatteryTypeOK, LowOnAverage, enterLowPowerDeepSleep
<1>6. CASE WakeUp
  BY <1>0, <1>6 DEF BatteryInv, BatteryTypeOK, LowOnAverage, WakeUp
<1> QED
  BY <1>1, <1>2, <1>3, <1>4, <1>5, <1>6 DEF BatteryNext, BatteryTasks

LEMMA BatteryInvRests == BatteryInv /\ UNCHANGED batteryVars => BatteryInv'
  BY DEF BatteryInv, BatteryTypeOK, LowOnAverage, batteryVars

--------
(* The gauge. *)

\* What the gauge has been brought to at each step of the driver.
GaugeInv ==
  /\ GaugeTypeOK
  /\ phase \in {"key 1", "key 2", "enter", "await entry", "write"} => ~gauge.sealed
  /\ phase = "key 2" => gauge.keys = 1
  /\ phase \in {"enter", "await entry", "write", "leave"} => gauge.keys = 2
  /\ phase \in {"look", "unseal", "key 1", "key 2", "enter"} => ~gauge.wanted /\ ~gauge.updating
  /\ phase \in {"await entry", "write"} => gauge.wanted
  /\ phase = "write" => gauge.updating
  /\ phase \in {"await exit", "verify"} => ~gauge.wanted
  /\ phase = "verify" => ~gauge.updating
  /\ phase # "done" => verdict = "none"
  /\ verdict \in {"switched", "rejected"} => ~gauge.wanted /\ ~gauge.updating
  /\ ~ignored

GaugeRecords == [sealed : BOOLEAN, keys : 0 .. 2, wanted : BOOLEAN, updating : BOOLEAN, external : BOOLEAN]

LEMMA GaugeInvInit == GaugeInit => GaugeInv
<1> SUFFICES ASSUME GaugeInit PROVE GaugeInv
  OBVIOUS
<1>0. gauge \in [sealed : BOOLEAN, keys : {0}, wanted : {FALSE}, updating : {FALSE}, external : BOOLEAN]
  BY DEF GaugeInit
<1>4. ~gauge.wanted /\ ~gauge.updating
  BY <1>0, Zenon
<1>5. {0} \subseteq 0 .. 2 /\ {FALSE} \subseteq BOOLEAN
  OBVIOUS
<1>6. gauge \in GaugeRecords
  BY <1>0, <1>5 DEF GaugeRecords
<1>1. gauge \in GaugeRecords /\ ~gauge.wanted /\ ~gauge.updating
  BY <1>4, <1>6
<1>2. phase = "look" /\ verdict = "none" /\ ignored = FALSE
  BY DEF GaugeInit
<1>3. ignored \in BOOLEAN /\ ~ignored
  BY <1>2
<1> QED
  BY <1>1, <1>2, <1>3 DEF GaugeInv, GaugeTypeOK, GaugeRecords

\* A step of the driver that fails.
LEMMA GaugeFails ==
  ASSUME GaugeInv, Ends("failed"), UNCHANGED <<gauge, ignored>>
  PROVE  GaugeInv'
<1>1. ignored' \in BOOLEAN /\ ~ignored'
  BY DEF GaugeInv, GaugeTypeOK
<1> QED
  BY <1>1 DEF GaugeInv, GaugeTypeOK, Ends

LEMMA GaugeInvNext == GaugeInv /\ GaugeNext => GaugeInv'
<1> SUFFICES ASSUME GaugeInv, GaugeNext PROVE GaugeInv'
  OBVIOUS
<1>0. gauge \in GaugeRecords /\ ignored \in BOOLEAN /\ ~ignored
  BY DEF GaugeInv, GaugeTypeOK, GaugeRecords
<1>1. gauge.sealed \in BOOLEAN /\ gauge.wanted \in BOOLEAN /\ gauge.updating \in BOOLEAN /\ gauge.external \in BOOLEAN
      /\ gauge.keys \in 0 .. 2
  BY <1>0 DEF GaugeRecords
<1>2. CASE ChangeMode
  <2>1. gauge' = [gauge EXCEPT !.updating = gauge.wanted] /\ gauge.wanted # gauge.updating
        /\ UNCHANGED <<phase, verdict>> /\ ignored' = ignored
    BY <1>2 DEF ChangeMode
  <2>2. gauge' \in GaugeRecords /\ gauge'.keys = gauge.keys
    BY <1>0, <1>1, <2>1 DEF GaugeRecords
  <2>3. (gauge'.sealed <=> gauge.sealed) /\ (gauge'.wanted <=> gauge.wanted) /\ (gauge'.updating <=> gauge.wanted)
    BY <1>0, <2>1, Zenon DEF GaugeRecords
  <2>4. ignored' \in BOOLEAN /\ ~ignored'
    BY <1>0, <2>1
  <2>5. gauge.wanted => ~gauge.updating
    BY <1>1, <2>1
  <2>6. ~gauge.wanted => gauge.updating
    BY <1>1, <2>1
  <2> QED
    BY <2>1, <2>2, <2>3, <2>4, <2>5, <2>6 DEF GaugeInv, GaugeTypeOK, GaugeRecords
<1>3. CASE Look
  <2>1. UNCHANGED <<gauge, ignored>> /\ phase = "look" /\ (Ends("already") \/ (phase' = "unseal" /\ verdict' = verdict))
    BY <1>3 DEF Look
  <2>2. ignored' \in BOOLEAN /\ ~ignored'
    BY <1>0, <2>1
  <2> QED
    BY <2>1, <2>2 DEF GaugeInv, GaugeTypeOK, Ends
<1>4. CASE Unseal
  <2>1. CASE gauge' = [gauge EXCEPT !.sealed = FALSE] /\ phase' = "key 1" /\ phase = "unseal" /\ verdict' = verdict /\ ignored' = ignored
    <3>1. gauge' \in GaugeRecords
      BY <1>0, <2>1 DEF GaugeRecords
    <3>2. ~gauge'.sealed /\ (gauge'.wanted <=> gauge.wanted) /\ (gauge'.updating <=> gauge.updating)
      BY <1>0, <2>1, Zenon DEF GaugeRecords
    <3>3. ignored' \in BOOLEAN /\ ~ignored'
      BY <1>0, <2>1
    <3> QED
      BY <2>1, <3>1, <3>2, <3>3 DEF GaugeInv, GaugeTypeOK, GaugeRecords
  <2> QED
    BY <1>4, <2>1, GaugeFails DEF Unseal, controlCommand, Step
<1>5. CASE FullAccess
  <2>1. CASE controlCommand("key 1", "key 2", [gauge EXCEPT !.keys = IF gauge.sealed THEN 0 ELSE 1])
    <3>1. CASE gauge' = [gauge EXCEPT !.keys = IF gauge.sealed THEN 0 ELSE 1] /\ phase' = "key 2" /\ phase = "key 1"
               /\ verdict' = verdict /\ ignored' = ignored
      <4>1. ~gauge.sealed
        BY <3>1 DEF GaugeInv
      <4>5. gauge' = [gauge EXCEPT !.keys = 1]
        BY <3>1, <4>1
      <4>2. gauge' \in GaugeRecords /\ gauge'.keys = 1
        BY <1>0, <4>5 DEF GaugeRecords
      <4>3. (gauge'.sealed <=> gauge.sealed) /\ (gauge'.wanted <=> gauge.wanted) /\ (gauge'.updating <=> gauge.updating)
        BY <1>0, <3>1, Zenon DEF GaugeRecords
      <4>4. ignored' \in BOOLEAN /\ ~ignored'
        BY <1>0, <3>1
      <4> QED
        BY <3>1, <4>1, <4>2, <4>3, <4>4 DEF GaugeInv, GaugeTypeOK, GaugeRecords
    <3> QED
      BY <2>1, <3>1, GaugeFails DEF controlCommand, Step
  <2>2. CASE controlCommand("key 2", "enter", [gauge EXCEPT !.keys = IF gauge.sealed THEN 0 ELSE 2])
    <3>1. CASE gauge' = [gauge EXCEPT !.keys = IF gauge.sealed THEN 0 ELSE 2] /\ phase' = "enter" /\ phase = "key 2"
               /\ verdict' = verdict /\ ignored' = ignored
      <4>1. ~gauge.sealed
        BY <3>1 DEF GaugeInv
      <4>5. gauge' = [gauge EXCEPT !.keys = 2]
        BY <3>1, <4>1
      <4>2. gauge' \in GaugeRecords /\ gauge'.keys = 2
        BY <1>0, <4>5 DEF GaugeRecords
      <4>3. (gauge'.sealed <=> gauge.sealed) /\ (gauge'.wanted <=> gauge.wanted) /\ (gauge'.updating <=> gauge.updating)
        BY <1>0, <3>1, Zenon DEF GaugeRecords
      <4>4. ignored' \in BOOLEAN /\ ~ignored'
        BY <1>0, <3>1
      <4> QED
        BY <3>1, <4>1, <4>2, <4>3, <4>4 DEF GaugeInv, GaugeTypeOK, GaugeRecords
    <3> QED
      BY <2>2, <3>1, GaugeFails DEF controlCommand, Step
  <2> QED
    BY <1>5, <2>1, <2>2 DEF FullAccess
<1>6. CASE EnterConfigUpdate
  <2>1. CASE gauge' = [gauge EXCEPT !.wanted = gauge.keys = 2] /\ phase' = "await entry" /\ phase = "enter"
             /\ verdict' = verdict /\ ignored' = ignored
    <3>1. gauge.keys = 2 /\ ~gauge.sealed
      BY <2>1 DEF GaugeInv
    <3>2. gauge' = [gauge EXCEPT !.wanted = TRUE]
      BY <2>1, <3>1
    <3>3. gauge' \in GaugeRecords /\ gauge'.keys = 2
      BY <1>0, <3>1, <3>2 DEF GaugeRecords
    <3>4. (gauge'.sealed <=> gauge.sealed) /\ gauge'.wanted /\ (gauge'.updating <=> gauge.updating)
      BY <1>0, <3>2, Zenon DEF GaugeRecords
    <3>5. ignored' \in BOOLEAN /\ ~ignored'
      BY <1>0, <2>1
    <3> QED
      BY <2>1, <3>1, <3>3, <3>4, <3>5 DEF GaugeInv, GaugeTypeOK, GaugeRecords
  <2> QED
    BY <1>6, <2>1, GaugeFails DEF EnterConfigUpdate, controlCommand, Step
<1>7. CASE waitForConfigUpdate("await entry", "write", TRUE)
  <2>1. CASE gauge.updating = TRUE /\ phase = "await entry" /\ phase' = "write" /\ verdict' = verdict /\ UNCHANGED <<gauge, ignored>>
    <3>1. ignored' \in BOOLEAN /\ ~ignored' /\ gauge.updating
      BY <1>0, <2>1
    <3> QED
      BY <2>1, <3>1 DEF GaugeInv, GaugeTypeOK
  <2> QED
    BY <1>7, <2>1, GaugeFails DEF waitForConfigUpdate
<1>8. CASE SetParameter
  <2>1. phase = "write" /\ phase' = "leave" /\ verdict' = verdict
    BY <1>8 DEF SetParameter
  <2>2. gauge.updating /\ gauge.keys = 2
    BY <2>1 DEF GaugeInv
  <2> DEFINE takes == gauge.updating /\ gauge.keys = 2
  <2>3. takes = TRUE
    BY <1>1, <2>2
  <2>4. CASE gauge' = [gauge EXCEPT !.external = takes] /\ ignored' = ~takes
    <3> HIDE DEF takes
    <3>1. gauge' = [gauge EXCEPT !.external = TRUE] /\ ignored' = FALSE
      BY <2>3, <2>4
    <3>2. gauge' \in GaugeRecords /\ gauge'.keys = 2
      BY <1>0, <2>2, <3>1 DEF GaugeRecords
    <3>3. ignored' \in BOOLEAN /\ ~ignored'
      BY <3>1
    <3>4. verdict' \notin {"switched", "rejected"} /\ verdict' = "none"
      BY <2>1 DEF GaugeInv
    <3> QED
      BY <2>1, <3>2, <3>3, <3>4 DEF GaugeInv, GaugeTypeOK, GaugeRecords
  <2>5. CASE UNCHANGED <<gauge, ignored>>
    <3>1. ignored' \in BOOLEAN /\ ~ignored'
      BY <1>0, <2>5
    <3> QED
      BY <2>1, <2>5, <3>1 DEF GaugeInv, GaugeTypeOK
  <2> QED
    BY <1>8, <2>4, <2>5 DEF SetParameter
<1>9. CASE ExitConfigUpdate
  <2>1. CASE gauge' = [gauge EXCEPT !.wanted = FALSE] /\ phase' = "await exit" /\ phase = "leave"
             /\ verdict' = verdict /\ ignored' = ignored
    <3>1. gauge' \in GaugeRecords
      BY <1>0, <2>1 DEF GaugeRecords
    <3>2. ~gauge'.wanted
      BY <1>0, <2>1, Zenon DEF GaugeRecords
    <3>3. ignored' \in BOOLEAN /\ ~ignored'
      BY <1>0, <2>1
    <3>4. verdict' = "none"
      BY <2>1 DEF GaugeInv
    <3> QED
      BY <2>1, <3>1, <3>2, <3>3, <3>4 DEF GaugeInv, GaugeTypeOK, GaugeRecords
  <2> QED
    BY <1>9, <2>1, GaugeFails DEF ExitConfigUpdate, controlCommand, Step
<1>10. CASE waitForConfigUpdate("await exit", "verify", FALSE)
  <2>1. CASE gauge.updating = FALSE /\ phase = "await exit" /\ phase' = "verify" /\ verdict' = verdict /\ UNCHANGED <<gauge, ignored>>
    <3>1. ignored' \in BOOLEAN /\ ~ignored' /\ ~gauge.updating
      BY <1>0, <2>1
    <3> QED
      BY <2>1, <3>1 DEF GaugeInv, GaugeTypeOK
  <2> QED
    BY <1>10, <2>1, GaugeFails DEF waitForConfigUpdate
<1>11. CASE Verify
  <2>1. phase = "verify" /\ phase' = "done" /\ verdict' \in {"switched", "rejected"} /\ UNCHANGED <<gauge, ignored>>
    BY <1>11 DEF Verify, Ends
  <2>2. ignored' \in BOOLEAN /\ ~ignored'
    BY <1>0, <2>1
  <2> QED
    BY <2>1, <2>2 DEF GaugeInv, GaugeTypeOK
<1> QED
  BY <1>2, <1>3, <1>4, <1>5, <1>6, <1>7, <1>8, <1>9, <1>10, <1>11 DEF GaugeNext, useExternalThermistor

LEMMA GaugeInvRests == GaugeInv /\ UNCHANGED gaugeVars => GaugeInv'
<1> SUFFICES ASSUME GaugeInv, UNCHANGED gaugeVars PROVE GaugeInv'
  OBVIOUS
<1>1. ignored' \in BOOLEAN /\ ~ignored'
  BY DEF GaugeInv, GaugeTypeOK, gaugeVars
<1>2. gauge' = gauge /\ phase' = phase /\ verdict' = verdict
  BY DEF gaugeVars
<1> QED
  BY <1>1, <1>2 DEF GaugeInv, GaugeTypeOK

LEMMA GaugeInvImplies == GaugeInv => GaugeTypeOK /\ GaugeObeys
  BY DEF GaugeInv, GaugeObeys
--------
(* Pulse counters. *)

\* The difference of two counts that wrap, after one of them has gone on.
LEMMA WrappedDifference ==
  ASSUME NEW a \in 0 .. Width - 1, NEW b \in 0 .. Width - 1
  PROVE  /\ (a - b + Width) % Width = IF a >= b THEN a - b ELSE a - b + Width
         /\ (a + 1) % Width = IF a + 1 = Width THEN 0 ELSE a + 1
         /\ (a + 1) % Width \in 0 .. Width - 1
<1>1. Width \in Nat /\ Width > 0
  BY PulseAssumption
<1>2. ASSUME NEW n \in Nat, NEW k \in {0, 1}, k * Width <= n, n < (k + 1) * Width
      PROVE  n % Width = n - k * Width
  BY <1>1, <1>2
<1> QED
  BY <1>1, <1>2

\* The pulses that the coprocessor has seen and that have not been returned.
Outstanding == falls["ulp"] - taken["ulp"]

\* While the coprocessor's pin is looked at, the GPIO's counter rests.
UlpInv ==
  /\ PulseTypeOK
  /\ ~handling /\ ~interrupted /\ ~asleep /\ edgeCount = 0 /\ falls["gpio"] = 0 /\ taken["gpio"] = 0
  /\ ulpStarted <=> loaded # "before"
  /\ loaded # "started" => Outstanding = 0 /\ taken["ulp"] = 0 /\ lastSeen = 0 /\ ~cleared
  /\ loaded = "reloaded" => pulse_count = 0
  /\ Outstanding \in Nat /\ 2 * Outstanding < Width
  /\ level["ulp"] = 0 /\ last_level = 1 => falls["ulp"] < MaxPulses
  /\ ~cleared /\ loaded # "before" => Delta = Outstanding
  /\ loaded # "before" =>
       \/ Delta <= Outstanding
       \/ pulse_count < lastSeen /\ lastSeen <= Width \div 2 /\ pulse_count <= Outstanding

\* What the task is about to take is no more than there is, and all of it if nothing cleared the count.
LEMMA UlpCount ==
  ASSUME UlpInv
  PROVE  /\ getCount \in 0 .. Outstanding
         /\ ulpStarted /\ ~cleared => getCount = Outstanding
         /\ Delta \in 0 .. Width - 1
<1>1. /\ Width \in Nat /\ Width > 0
      /\ pulse_count \in 0 .. Width - 1 /\ lastSeen \in 0 .. Width - 1
      /\ Outstanding \in Nat /\ 2 * Outstanding < Width
  BY PulseAssumption DEF UlpInv, PulseTypeOK
<1>2. Delta = IF pulse_count >= lastSeen THEN pulse_count - lastSeen ELSE pulse_count - lastSeen + Width
  BY <1>1, WrappedDifference DEF Delta
<1>3. Delta \in 0 .. Width - 1
  BY <1>1, <1>2
<1>4. CASE loaded = "before"
  <2>1. ~ulpStarted
    BY <1>4 DEF UlpInv
  <2> QED
    BY <1>1, <1>3, <2>1 DEF getCount
<1>5. CASE loaded # "before"
  <2>1. ulpStarted
    BY <1>5 DEF UlpInv
  <2>2. CASE Delta <= Outstanding
    <3>1. ~isDesynced
      BY <1>1, <1>3, <2>2 DEF isDesynced
    <3> QED
      BY <1>1, <1>3, <1>5, <2>1, <2>2, <3>1 DEF getCount, UlpInv
  <2>3. CASE pulse_count < lastSeen /\ lastSeen <= Width \div 2 /\ ~(Delta <= Outstanding)
    <3>1. 2 * (Width \div 2) <= Width
      BY <1>1
    <3>2. Delta = pulse_count - lastSeen + Width /\ 2 * Delta >= Width
      BY <1>1, <1>2, <2>3, <3>1
    <3>3. getCount = 0
      BY <3>2 DEF isDesynced, getCount
    <3>4. cleared
      BY <1>1, <1>5, <2>3 DEF UlpInv
    <3> QED
      BY <1>1, <1>3, <3>3, <3>4
  <2> QED
    BY <1>5, <2>2, <2>3 DEF UlpInv
<1> QED
  BY <1>4, <1>5

LEMMA UlpInvInit == PulseInit => UlpInv
<1> SUFFICES ASSUME PulseInit PROVE UlpInv
  OBVIOUS
<1> USE PulseAssumption DEF PulseInit
<1>1. PulseTypeOK
  <2>1. Width \in Nat \ {0} /\ MaxPulses \in Nat
    OBVIOUS
  <2>2. level \in [Pins -> 0 .. 1] /\ soon \in [Pins -> BOOLEAN] /\ lastEdge \in 0 .. 1
    BY DEF Pins
  <2>3. falls \in [Pins -> 0 .. MaxPulses] /\ taken \in [Pins -> 0 .. (MaxPulses + Width)]
    BY <2>1
  <2>4. {pulse_count, lastSeen} \subseteq 0 .. (Width - 1) /\ edgeCount \in 0 .. MaxPulses
    BY <2>1
  <2>5. {last_level, lastEdge, wakeLevel} \subseteq 0 .. 1 /\ lastVoltage \subseteq Pins
    BY <2>2
  <2>6. {ulpStarted, handling, interrupted, asleep, cleared, edged} \subseteq BOOLEAN
    OBVIOUS
  <2>7. loaded \in {"before", "reloaded", "started"}
    OBVIOUS
  <2> QED
    BY <2>2, <2>3, <2>4, <2>5, <2>6, <2>7 DEF PulseTypeOK
<1>2. Outstanding = 0
  BY DEF Outstanding, Pins
<1>3. /\ loaded = "before" /\ ~ulpStarted /\ last_level = 0 /\ lastSeen = 0 /\ ~cleared
      /\ ~handling /\ ~interrupted /\ ~asleep /\ edgeCount = 0 /\ Width > 0
      /\ falls["gpio"] = 0 /\ taken["gpio"] = 0 /\ taken["ulp"] = 0
  BY DEF Pins
<1> QED
  BY <1>1, <1>2, <1>3 DEF UlpInv

\* An edge of the coprocessor's pin, and the end of its debounce time.
LEMMA UlpPinSteps ==
  ASSUME UlpInv, Edge("ulp") \/ DebouncePasses("ulp")
  PROVE  UlpInv'
<1> USE PulseAssumption DEF ulpVars, gpioVars, historyVars
<1>1. CASE Edge("ulp")
  <2> USE <1>1 DEF Edge
  <2>1. level' \in [Pins -> 0 .. 1] /\ level'["ulp"] = 1 - level["ulp"] /\ falls' = falls /\ interrupted' = interrupted
    BY DEF UlpInv, PulseTypeOK, Pins
  <2>2. PulseTypeOK'
    BY <2>1 DEF UlpInv, PulseTypeOK
  <2>3. Outstanding' = Outstanding /\ Delta' = Delta
    BY <2>1 DEF Outstanding, Delta
  <2> QED
    BY <2>1, <2>2, <2>3 DEF UlpInv
<1>2. CASE DebouncePasses("ulp")
  <2> USE <1>2 DEF DebouncePasses
  <2>1. PulseTypeOK'
    BY DEF UlpInv, PulseTypeOK, Pins
  <2>2. Outstanding' = Outstanding /\ Delta' = Delta
    BY DEF Outstanding, Delta
  <2> QED
    BY <2>1, <2>2 DEF UlpInv
<1> QED
  BY <1>1, <1>2

\* The coprocessor counts a pulse only while the counts are read in time.
LEMMA UlpPollsSound ==
  ASSUME UlpInv, UlpPolls
  PROVE  UlpInv'
<1> USE PulseAssumption DEF gpioVars, UlpPolls
<1>1. /\ Width \in Nat /\ Width > 0 /\ MaxPulses \in Nat
      /\ pulse_count \in 0 .. Width - 1 /\ lastSeen \in 0 .. Width - 1
      /\ falls \in [Pins -> 0 .. MaxPulses] /\ taken \in [Pins -> 0 .. (MaxPulses + Width)]
      /\ soon \in [Pins -> BOOLEAN] /\ level \in [Pins -> 0 .. 1]
      /\ Outstanding \in Nat /\ 2 * Outstanding < Width
  BY DEF UlpInv, PulseTypeOK
<1>2. level["ulp"] \in 0 .. 1 /\ last_level \in 0 .. 1 /\ last_level' \in 0 .. 1 /\ last_level' = level["ulp"]
  BY <1>1 DEF UlpInv, PulseTypeOK, Pins
<1>3. Delta = IF pulse_count >= lastSeen THEN pulse_count - lastSeen ELSE pulse_count - lastSeen + Width
  BY <1>1, WrappedDifference DEF Delta
<1>4. CASE level["ulp"] = 0 /\ ~soon["ulp"] /\ loaded = "started"
  <2>1. /\ pulse_count' = (pulse_count + 1) % Width
        /\ soon' = [soon EXCEPT !["ulp"] = TRUE]
        /\ falls' = [falls EXCEPT !["ulp"] = @ + 1]
        /\ 2 * (falls["ulp"] + 1 - taken["ulp"]) < Width
        /\ taken' = taken /\ lastSeen' = lastSeen /\ loaded' = "started"
    BY <1>4
  <2>2. falls["ulp"] \in 0 .. MaxPulses /\ falls["ulp"] < MaxPulses /\ taken["ulp"] \in 0 .. (MaxPulses + Width)
    BY <1>1, <1>2, <1>4 DEF UlpInv, Pins
  <2>3. falls' \in [Pins -> 0 .. MaxPulses] /\ soon' \in [Pins -> BOOLEAN]
        /\ falls'["ulp"] = falls["ulp"] + 1 /\ falls'["gpio"] = falls["gpio"]
    BY <1>1, <2>1, <2>2 DEF Pins
  <2>4. Outstanding' = Outstanding + 1 /\ 2 * Outstanding' < Width /\ Outstanding' \in Nat
    BY <1>1, <2>1, <2>2, <2>3 DEF Outstanding
  <2>5. pulse_count' = (IF pulse_count + 1 = Width THEN 0 ELSE pulse_count + 1) /\ pulse_count' \in 0 .. Width - 1
    BY <1>1, <2>1, WrappedDifference
  <2>6. Delta' = IF pulse_count' >= lastSeen THEN pulse_count' - lastSeen ELSE pulse_count' - lastSeen + Width
    BY <1>1, <2>1, <2>5, WrappedDifference DEF Delta
  <2>7. ~cleared => Delta' = Outstanding'
    <3>1. ~cleared => Delta = Outstanding
      BY <1>4 DEF UlpInv
    <3> QED
      BY <1>1, <1>3, <2>4, <2>5, <2>6, <3>1
  <2>8. \/ Delta' <= Outstanding'
        \/ pulse_count' < lastSeen /\ lastSeen <= Width \div 2 /\ pulse_count' <= Outstanding'
    <3>1. CASE Delta <= Outstanding
      BY <1>1, <1>3, <2>4, <2>5, <2>6, <3>1
    <3>2. CASE pulse_count < lastSeen /\ lastSeen <= Width \div 2 /\ pulse_count <= Outstanding
      BY <1>1, <1>3, <2>4, <2>5, <2>6, <3>2
    <3> QED
      BY <1>4, <3>1, <3>2 DEF UlpInv
  <2>9. PulseTypeOK'
    BY <1>1, <1>2, <2>1, <2>3, <2>5 DEF UlpInv, PulseTypeOK
  <2> QED
    BY <1>2, <1>4, <2>1, <2>3, <2>4, <2>7, <2>8, <2>9 DEF UlpInv
<1>5. CASE level["ulp"] = 0 /\ ~soon["ulp"] /\ loaded = "before"
  <2>1. pulse_count' \in 0 .. Width - 1 /\ soon' \in [Pins -> BOOLEAN]
        /\ falls' = falls /\ taken' = taken /\ lastSeen' = lastSeen /\ loaded' = "before" /\ cleared' = cleared
    <3>1. /\ pulse_count' = (pulse_count + 1) % Width /\ soon' = [soon EXCEPT !["ulp"] = TRUE]
          /\ falls' = falls /\ taken' = taken /\ lastSeen' = lastSeen /\ loaded' = "before" /\ cleared' = cleared
      BY <1>5
    <3>2. pulse_count' \in 0 .. Width - 1
      BY <1>1, <3>1, WrappedDifference
    <3> QED
      BY <1>1, <3>1, <3>2
  <2>2. PulseTypeOK'
    BY <1>1, <1>2, <2>1 DEF UlpInv, PulseTypeOK
  <2>3. Outstanding' = Outstanding
    BY <2>1 DEF Outstanding
  <2> QED
    BY <1>2, <1>5, <2>1, <2>2, <2>3 DEF UlpInv
<1>6. CASE ~(level["ulp"] = 0 /\ ~soon["ulp"])
  <2>1. UNCHANGED <<pulse_count, soon, falls, taken, lastSeen, loaded, cleared, level>>
    BY <1>6
  <2>2. PulseTypeOK'
    BY <1>1, <1>2, <2>1 DEF UlpInv, PulseTypeOK
  <2>3. Outstanding' = Outstanding /\ Delta' = Delta
    BY <2>1 DEF Outstanding, Delta
  <2> QED
    BY <1>2, <2>1, <2>2, <2>3 DEF UlpInv
<1>7. loaded \in {"before", "started"}
  BY DEF UlpInv, PulseTypeOK
<1> QED
  BY <1>4, <1>5, <1>6, <1>7

\* start() begins from nothing; so does a soft reset.
LEMMA UlpLoads ==
  ASSUME UlpInv, LoadUlp \/ RunUlp \/ SoftReset
  PROVE  UlpInv'
<1> USE PulseAssumption DEF gpioVars, historyVars
<1>1. /\ Width \in Nat /\ Width > 0 /\ MaxPulses \in Nat
      /\ pulse_count \in 0 .. Width - 1 /\ lastSeen \in 0 .. Width - 1
      /\ soon \in [Pins -> BOOLEAN] /\ level \in [Pins -> 0 .. 1] /\ last_level \in 0 .. 1
      /\ level["ulp"] \in 0 .. 1 /\ level["gpio"] \in 0 .. 1
      /\ falls \in [Pins -> 0 .. MaxPulses]
  BY DEF UlpInv, PulseTypeOK, Pins
<1>2. (0 - 0 + Width) % Width = 0
  BY <1>1, WrappedDifference
<1>3. CASE LoadUlp
  <2> USE <1>3 DEF LoadUlp
  <2>1. PulseTypeOK'
    BY <1>1 DEF UlpInv, PulseTypeOK
  <2>2. Outstanding' = Outstanding /\ Delta' = 0 /\ Outstanding = 0
    BY <1>2 DEF Outstanding, Delta, UlpInv
  <2> QED
    BY <2>1, <2>2 DEF UlpInv
<1>4. CASE RunUlp
  <2> USE <1>4 DEF RunUlp
  <2>1. soon' \in [Pins -> BOOLEAN] /\ last_level' \in 0 .. 1
    BY <1>1 DEF Pins
  <2>2. PulseTypeOK'
    BY <1>1, <2>1 DEF UlpInv, PulseTypeOK
  <2>3. Outstanding' = Outstanding /\ Delta' = 0 /\ Outstanding = 0
    BY <1>2 DEF Outstanding, Delta, UlpInv
  <2> QED
    BY <2>2, <2>3 DEF UlpInv
<1>5. CASE SoftReset
  <2> USE <1>5 DEF SoftReset
  <2>1. soon' \in [Pins -> BOOLEAN] /\ lastEdge' \in 0 .. 1 /\ wakeLevel' \in 0 .. 1
        /\ falls' \in [Pins -> 0 .. MaxPulses] /\ taken' \in [Pins -> 0 .. (MaxPulses + Width)]
        /\ falls'["ulp"] = 0 /\ falls'["gpio"] = 0 /\ taken'["ulp"] = 0 /\ taken'["gpio"] = 0
    BY <1>1 DEF Pins
  <2>2. lastSeen' \in 0 .. Width - 1 /\ edgeCount' \in 0 .. MaxPulses /\ lastVoltage' \subseteq Pins
    BY <1>1
  <2>3. PulseTypeOK'
    BY <1>1, <2>1, <2>2 DEF UlpInv, PulseTypeOK
  <2>4. Outstanding' = 0
    BY <2>1 DEF Outstanding
  <2>5. level["ulp"] = 0 /\ last_level = 1 => 0 < MaxPulses
    <3>1. falls["ulp"] \in 0 .. MaxPulses
      BY <1>1 DEF Pins
    <3> QED
      BY <1>1, <3>1 DEF UlpInv
  <2> QED
    BY <1>1, <2>1, <2>3, <2>4, <2>5 DEF UlpInv
<1> QED
  BY <1>3, <1>4, <1>5

\* A cleared count lies behind the one that was seen, or at it.
LEMMA UlpCorrupts ==
  ASSUME UlpInv, Corrupt
  PROVE  UlpInv'
<1> USE PulseAssumption DEF gpioVars, Corrupt
<1>1. Width \in Nat /\ Width > 0 /\ lastSeen \in 0 .. Width - 1 /\ 0 \in 0 .. Width - 1 /\ Outstanding \in Nat
  BY DEF UlpInv, PulseTypeOK
<1>2. PulseTypeOK'
  BY <1>1 DEF UlpInv, PulseTypeOK
<1>3. Outstanding' = Outstanding
  BY DEF Outstanding
<1>4. pulse_count' = 0 /\ lastSeen' = lastSeen /\ lastSeen <= Width \div 2
  OBVIOUS
<1>5. lastSeen = 0 => Delta' = 0
  BY <1>1, <1>4, WrappedDifference DEF Delta
<1> QED
  BY <1>1, <1>2, <1>3, <1>4, <1>5 DEF UlpInv

\* What was counted and what is taken: each pulse that is returned is no longer outstanding.
LEMMA UlpTakes ==
  ASSUME UlpInv, ElectricFence
  PROVE  UlpInv'
<1> USE PulseAssumption
<1>1. /\ Width \in Nat /\ Width > 0 /\ MaxPulses \in Nat
      /\ pulse_count \in 0 .. Width - 1 /\ lastSeen \in 0 .. Width - 1
      /\ falls \in [Pins -> 0 .. MaxPulses] /\ taken \in [Pins -> 0 .. (MaxPulses + Width)]
      /\ Outstanding \in Nat /\ 2 * Outstanding < Width
      /\ edgeCount = 0 /\ taken["gpio"] = 0
  BY DEF UlpInv, PulseTypeOK
<1>2. /\ getCount \in 0 .. Outstanding
      /\ ulpStarted /\ ~cleared => getCount = Outstanding
  BY UlpCount
<1>3. /\ lastSeen' = (IF ulpStarted THEN pulse_count ELSE lastSeen) /\ edgeCount' = 0
      /\ taken' = [p \in Pins |-> taken[p] + (IF p = "gpio" THEN edgeCount ELSE getCount)]
      /\ lastVoltage' \subseteq Pins
      /\ UNCHANGED <<level, soon, loaded, pulse_count, last_level, ulpStarted,
                     handling, lastEdge, interrupted, asleep, wakeLevel, falls, cleared, edged, resets>>
  BY DEF ElectricFence, Pins
<1>4. /\ falls["ulp"] \in 0 .. MaxPulses /\ taken["ulp"] \in 0 .. (MaxPulses + Width)
      /\ taken'["ulp"] = taken["ulp"] + getCount /\ taken'["gpio"] = 0
  BY <1>1, <1>3 DEF Pins
<1>5. /\ Outstanding' = Outstanding - getCount /\ taken'["ulp"] \in 0 .. MaxPulses
  BY <1>1, <1>2, <1>3, <1>4 DEF Outstanding
<1>6. Outstanding' \in Nat /\ 2 * Outstanding' < Width
  BY <1>1, <1>2, <1>5
<1>7. PulseTypeOK'
  <2>1. taken' \in [Pins -> 0 .. (MaxPulses + Width)]
    <3>1. \A p \in Pins : taken'[p] \in 0 .. (MaxPulses + Width)
      BY <1>1, <1>4, <1>5 DEF Pins
    <3> QED
      BY <1>3, <3>1
  <2>2. {pulse_count', lastSeen'} \subseteq 0 .. (Width - 1) /\ edgeCount' \in 0 .. MaxPulses
    BY <1>1, <1>3
  <2> QED
    BY <1>1, <1>3, <2>1, <2>2 DEF UlpInv, PulseTypeOK
<1>8. loaded # "before" => Delta' = 0
  <2>1. loaded # "before" => lastSeen' = pulse_count /\ pulse_count' = pulse_count
    BY <1>3 DEF UlpInv
  <2> QED
    BY <1>1, <2>1, WrappedDifference DEF Delta
<1>9. ASSUME loaded # "started" PROVE taken'["ulp"] = 0 /\ Outstanding' = 0 /\ lastSeen' = 0
  <2>1. Outstanding = 0 /\ taken["ulp"] = 0 /\ lastSeen = 0 /\ ~cleared
    BY <1>9 DEF UlpInv
  <2>2. getCount = 0
    BY <1>2, <2>1
  <2>3. loaded = "reloaded" \/ ~ulpStarted
    BY <1>9 DEF UlpInv, PulseTypeOK
  <2>4. loaded = "reloaded" => pulse_count = 0
    BY DEF UlpInv
  <2> QED
    BY <1>1, <1>3, <1>4, <1>5, <2>1, <2>2, <2>3, <2>4
<1>10. ~cleared /\ loaded # "before" => Outstanding' = 0
  BY <1>1, <1>2, <1>5 DEF UlpInv
<1> QED
  BY <1>1, <1>3, <1>4, <1>5, <1>6, <1>7, <1>8, <1>9, <1>10 DEF UlpInv

LEMMA UlpInvNext == UlpInv /\ UlpNext => UlpInv'
  BY UlpPinSteps, UlpPollsSound, UlpLoads, UlpCorrupts, UlpTakes DEF UlpNext

LEMMA UlpInvImplies == UlpInv => PulseTypeOK /\ UlpExact
<1> SUFFICES ASSUME UlpInv PROVE UlpExact
  BY DEF UlpInv
<1>1. /\ getCount \in 0 .. Outstanding
      /\ ulpStarted /\ ~cleared => getCount = Outstanding
  BY UlpCount
<1>2. falls["ulp"] \in Int /\ taken["ulp"] \in Int
  BY PulseAssumption DEF UlpInv, PulseTypeOK, Pins
<1> QED
  BY <1>1, <1>2 DEF Outstanding, UlpExact

--------
(* The counter on a GPIO. *)

\* A falling edge that the counter is yet to look at.
Unseen == IF level["gpio"] = 0 /\ lastEdge = 1 THEN 1 ELSE 0

\* While the GPIO is looked at, the coprocessor has not been started.
GpioInv ==
  /\ PulseTypeOK
  /\ ~ulpStarted /\ loaded = "before" /\ lastSeen = 0 /\ falls["ulp"] = 0 /\ taken["ulp"] = 0
  /\ taken["gpio"] + edgeCount + Unseen <= falls["gpio"]
  /\ (interrupted => handling) /\ (edged => handling) /\ (asleep => handling)
  /\ asleep => ~interrupted /\ (edged => wakeLevel = 1 - lastEdge)
  /\ edged /\ ~interrupted /\ level["gpio"] # lastEdge => asleep /\ level["gpio"] = wakeLevel

LEMMA GpioInvInit == PulseInit => GpioInv
<1> SUFFICES ASSUME PulseInit PROVE GpioInv
  OBVIOUS
<1>1. PulseTypeOK
  BY UlpInvInit DEF UlpInv
<1>2. /\ taken["gpio"] = 0 /\ falls["gpio"] = 0 /\ taken["ulp"] = 0 /\ falls["ulp"] = 0 /\ edgeCount = 0
      /\ ~interrupted /\ ~edged /\ ~asleep /\ ~ulpStarted /\ loaded = "before" /\ lastSeen = 0
  BY DEF PulseInit, Pins
<1>3. Unseen = 0
  BY DEF PulseInit, Unseen
<1> QED
  BY <1>1, <1>2, <1>3 DEF GpioInv

\* The counter looks at its pin: it has seen its level, and counts no edge that it had seen.
LEMMA CountEdgeFacts ==
  ASSUME GpioInv, CountEdge, UNCHANGED <<level, falls, taken>>
  PROVE  /\ lastEdge' \in 0 .. 1 /\ lastEdge' = level["gpio"] /\ edged'
         /\ soon' \in [Pins -> BOOLEAN] /\ edgeCount' \in 0 .. MaxPulses
         /\ taken["gpio"] + edgeCount' + Unseen' <= falls["gpio"]
<1> USE PulseAssumption
<1>1. /\ MaxPulses \in Nat /\ Width \in Nat /\ edgeCount \in 0 .. MaxPulses
      /\ falls["gpio"] \in 0 .. MaxPulses /\ taken["gpio"] \in 0 .. (MaxPulses + Width)
      /\ level["gpio"] \in 0 .. 1 /\ lastEdge \in 0 .. 1 /\ soon \in [Pins -> BOOLEAN]
      /\ taken["gpio"] + edgeCount + Unseen <= falls["gpio"]
  BY DEF GpioInv, PulseTypeOK, Pins
<1>2. lastEdge' = level["gpio"] /\ edged' /\ soon' \in [Pins -> BOOLEAN] /\ Unseen' = 0
  BY <1>1 DEF CountEdge, Unseen, Pins
<1>3. edgeCount' = edgeCount \/ (edgeCount' = edgeCount + 1 /\ Unseen = 1)
  BY <1>1 DEF CountEdge, Unseen
<1>4. Unseen \in 0 .. 1
  BY DEF Unseen
<1>5. taken["gpio"] + edgeCount' <= falls["gpio"] /\ edgeCount' \in Nat
  BY <1>1, <1>3, <1>4
<1> QED
  BY <1>1, <1>2, <1>5

LEMMA GpioInvNext == GpioInv /\ GpioNext => GpioInv'
<1> SUFFICES ASSUME GpioInv, GpioNext PROVE GpioInv'
  OBVIOUS
<1> USE PulseAssumption DEF ulpVars, gpioVars, historyVars
<1>1. /\ MaxPulses \in Nat /\ Width \in Nat /\ edgeCount \in 0 .. MaxPulses
      /\ falls \in [Pins -> 0 .. MaxPulses] /\ taken \in [Pins -> 0 .. (MaxPulses + Width)]
      /\ falls["gpio"] \in 0 .. MaxPulses /\ taken["gpio"] \in 0 .. (MaxPulses + Width)
      /\ level \in [Pins -> 0 .. 1] /\ level["gpio"] \in 0 .. 1 /\ lastEdge \in 0 .. 1
      /\ soon \in [Pins -> BOOLEAN] /\ wakeLevel \in 0 .. 1
      /\ taken["gpio"] + edgeCount + Unseen <= falls["gpio"]
  BY DEF GpioInv, PulseTypeOK, Pins
<1>2. CASE Edge("gpio")
  <2> USE <1>2 DEF Edge
  <2>1. /\ level' \in [Pins -> 0 .. 1] /\ level'["gpio"] = 1 - level["gpio"] /\ level'["ulp"] = level["ulp"]
        /\ falls' \in [Pins -> 0 .. MaxPulses] /\ falls'["ulp"] = falls["ulp"]
        /\ falls'["gpio"] = falls["gpio"] + level["gpio"]
    BY <1>1 DEF Pins
  <2>2. interrupted' = (IF handling /\ ~asleep THEN TRUE ELSE interrupted)
    OBVIOUS
  <2>3. PulseTypeOK'
    BY <1>1, <2>1, <2>2 DEF GpioInv, PulseTypeOK
  <2>4. taken'["gpio"] + edgeCount' + Unseen' <= falls'["gpio"]
    BY <1>1, <2>1 DEF Unseen
  <2>5. edged' /\ ~interrupted' /\ level'["gpio"] # lastEdge' => asleep' /\ level'["gpio"] = wakeLevel'
    BY <1>1, <2>1, <2>2 DEF GpioInv
  <2> QED
    BY <2>1, <2>2, <2>3, <2>4, <2>5 DEF GpioInv
<1>3. CASE DebouncePasses("gpio")
  <2> USE <1>3 DEF DebouncePasses
  <2>1. PulseTypeOK'
    BY DEF GpioInv, PulseTypeOK, Pins
  <2>2. Unseen' = Unseen
    BY DEF Unseen
  <2> QED
    BY <2>1, <2>2 DEF GpioInv
<1>4. CASE Attach
  <2> USE <1>4 DEF Attach
  <2>1. PulseTypeOK' /\ Unseen' = Unseen
    BY DEF GpioInv, PulseTypeOK, Unseen
  <2> QED
    BY <2>1 DEF GpioInv
<1>5. CASE Interrupt
  <2> USE <1>5 DEF Interrupt
  <2>1. /\ lastEdge' \in 0 .. 1 /\ lastEdge' = level["gpio"] /\ edged'
        /\ soon' \in [Pins -> BOOLEAN] /\ edgeCount' \in 0 .. MaxPulses
        /\ taken["gpio"] + edgeCount' + Unseen' <= falls["gpio"]
    BY CountEdgeFacts
  <2>2. PulseTypeOK'
    BY <2>1 DEF GpioInv, PulseTypeOK
  <2>3. ~asleep /\ handling
    BY DEF GpioInv
  <2> QED
    BY <2>1, <2>2, <2>3 DEF GpioInv
<1>6. CASE handleGoingToLightSleep
  <2> USE <1>6 DEF handleGoingToLightSleep
  <2>1. wakeLevel' \in 0 .. 1 /\ wakeLevel' = 1 - level["gpio"]
    BY <1>1
  <2>2. PulseTypeOK' /\ Unseen' = Unseen
    BY <2>1 DEF GpioInv, PulseTypeOK, Unseen
  <2>3. edged => level["gpio"] = lastEdge
    BY DEF GpioInv
  <2> QED
    BY <1>1, <2>1, <2>2, <2>3 DEF GpioInv
<1>7. CASE handleWakingUpFromLightSleep
  <2> USE <1>7 DEF handleWakingUpFromLightSleep
  <2>1. /\ lastEdge' \in 0 .. 1 /\ lastEdge' = level["gpio"] /\ edged'
        /\ soon' \in [Pins -> BOOLEAN] /\ edgeCount' \in 0 .. MaxPulses
        /\ taken["gpio"] + edgeCount' + Unseen' <= falls["gpio"]
    BY CountEdgeFacts
  <2>2. PulseTypeOK'
    BY <2>1 DEF GpioInv, PulseTypeOK
  <2>3. handling
    BY DEF GpioInv
  <2> QED
    BY <2>1, <2>2, <2>3 DEF GpioInv
<1>8. CASE ElectricFence
  <2>1. getCount = 0
    BY DEF getCount, GpioInv
  <2>2. /\ lastSeen' = lastSeen /\ edgeCount' = 0
        /\ taken' = [p \in Pins |-> taken[p] + (IF p = "gpio" THEN edgeCount ELSE 0)]
        /\ lastVoltage' \subseteq Pins
        /\ UNCHANGED <<level, soon, loaded, pulse_count, last_level, ulpStarted,
                       handling, lastEdge, interrupted, asleep, wakeLevel, falls, cleared, edged, resets>>
    BY <1>8, <2>1 DEF ElectricFence, Pins, GpioInv
  <2>3. taken'["ulp"] = 0 /\ taken'["gpio"] = taken["gpio"] + edgeCount /\ Unseen' = Unseen /\ Unseen \in 0 .. 1
    BY <1>1, <2>2 DEF Pins, Unseen, GpioInv
  <2>4. taken' \in [Pins -> 0 .. (MaxPulses + Width)]
    <3>1. \A p \in Pins : taken'[p] \in 0 .. (MaxPulses + Width)
      BY <1>1, <2>3 DEF Pins
    <3> QED
      BY <2>2, <3>1
  <2>5. PulseTypeOK'
    BY <1>1, <2>2, <2>4 DEF GpioInv, PulseTypeOK
  <2>6. taken'["gpio"] + edgeCount' + Unseen' <= falls'["gpio"]
    BY <1>1, <2>2, <2>3
  <2> QED
    BY <2>2, <2>3, <2>5, <2>6 DEF GpioInv
<1> QED
  BY <1>2, <1>3, <1>4, <1>5, <1>6, <1>7, <1>8 DEF GpioNext

LEMMA GpioInvImplies == GpioInv => PulseTypeOK /\ GpioExact
<1> SUFFICES ASSUME GpioInv PROVE GpioExact
  BY DEF GpioInv
<1>1. Unseen \in 0 .. 1 /\ taken["gpio"] \in Int /\ edgeCount \in Int /\ falls["gpio"] \in Int
  BY PulseAssumption DEF Unseen, GpioInv, PulseTypeOK, Pins
<1>2. taken["gpio"] + edgeCount <= falls["gpio"]
  BY <1>1 DEF GpioInv
<1> QED
  BY <1>2 DEF GpioInv, GpioExact

LEMMA PulseRests == UNCHANGED pulseVars => (UlpInv' <=> UlpInv) /\ (GpioInv' <=> GpioInv)
  BY DEF pulseVars, ulpVars, gpioVars, historyVars, UlpInv, GpioInv, Outstanding, Unseen, Delta, PulseTypeOK
--------
(* The telemetry task and the watchdog. *)

LEMMA PublishingNumbers ==
  PublishInterval \in Nat /\ Debounce \in Nat /\ CollectTime \in Nat /\ WatchdogTimeout \in Nat
  BY PublishingAssumption

PublishingTypes ==
  /\ telemetry \in {"booting", "waking", "collecting", "debouncing", "polling"}
  /\ requested \in BOOLEAN /\ owed \in BOOLEAN /\ published \in BOOLEAN /\ expired \in BOOLEAN
  /\ sinceRestart \in 0 .. WatchdogTimeout /\ sinceWake \in Nat
  /\ owed => requested \/ telemetry = "waking"

\* How long ago the watchdog was restarted, by where the task is.
PublishingTimes ==
  /\ telemetry = "booting" => ~published
  /\ telemetry = "waking" /\ published => sinceRestart <= PublishInterval
  /\ telemetry = "collecting" => sinceWake <= CollectTime
  /\ telemetry = "collecting" /\ published => sinceRestart <= PublishInterval + sinceWake
  /\ telemetry \in {"debouncing", "polling"} => sinceRestart <= sinceWake /\ sinceRestart <= PublishInterval
  /\ expired => ~published

PublishingInv == PublishingTypes /\ (WatchdogPatient => PublishingTimes)

LEMMA PublishingInvInit == PublishingInit => PublishingInv
<1> SUFFICES ASSUME PublishingInit PROVE PublishingInv
  OBVIOUS
<1>1. telemetry = "booting" /\ sinceRestart \in 0 .. WatchdogTimeout /\ sinceWake \in Nat
  BY PublishingNumbers DEF PublishingInit
<1>2. requested = FALSE /\ owed = FALSE /\ published = FALSE /\ expired = FALSE
  BY DEF PublishingInit
<1> QED
  BY <1>1, <1>2 DEF PublishingInv, PublishingTypes, PublishingTimes

LEMMA PublishingInvNext == PublishingInv /\ PublishingNext => PublishingInv'
<1> SUFFICES ASSUME PublishingInv, PublishingNext PROVE PublishingInv'
  OBVIOUS
<1> USE PublishingNumbers DEF PublishingInv, TelemetryTask
<1>1. PublishingTypes'
  <2> USE DEF PublishingTypes
  <2>1. CASE PublishingTick
    <3>1. sinceRestart' \in 0 .. WatchdogTimeout /\ sinceWake' \in Nat
      BY <2>1 DEF PublishingTick
    <3> QED
      BY <2>1, <3>1 DEF PublishingTick
  <2>2. CASE StartTelemetry \/ requestTelemetryPublishing
    BY <2>2 DEF StartTelemetry, requestTelemetryPublishing
  <2>3. CASE TelemetryTask \/ WatchdogTimesOut
    <3> USE <2>3 DEF MarkWakeTime, RestartWatchdog, Debounced, PollRequests, WatchdogTimesOut
    <3>1. requested' \in BOOLEAN /\ owed' \in BOOLEAN /\ published' \in BOOLEAN /\ expired' \in BOOLEAN
      BY Zenon
    <3>2. sinceRestart' \in 0 .. WatchdogTimeout /\ sinceWake' \in Nat
      OBVIOUS
    <3>3. (owed' => requested' \/ telemetry' = "waking") /\ telemetry' \in {"booting", "waking", "collecting", "debouncing", "polling"}
      OBVIOUS
    <3> QED
      BY <3>1, <3>2, <3>3
  <2> QED
    BY <2>1, <2>2, <2>3 DEF PublishingNext
<1>2. ASSUME WatchdogPatient PROVE PublishingTimes'
  <2> USE <1>2 DEF PublishingTypes, PublishingTimes, WatchdogPatient
  <2>1. CASE PublishingTick
    <3>1. sinceRestart' = sinceRestart + 1 /\ ~expired'
      BY <2>1 DEF PublishingTick
    <3>2. telemetry' = telemetry /\ published' = published
      BY <2>1 DEF PublishingTick
    <3>3. /\ telemetry = "collecting" => sinceWake < CollectTime /\ sinceWake' = sinceWake + 1
          /\ telemetry = "debouncing" => sinceWake < Debounce /\ sinceWake' = sinceWake + 1
          /\ telemetry = "polling" => sinceWake < PublishInterval - Debounce /\ sinceWake' = sinceWake + 1
          /\ telemetry # "waking"
      BY <2>1 DEF PublishingTick, Due
    <3>4. /\ telemetry' = "collecting" => sinceWake' <= CollectTime
          /\ telemetry' = "collecting" /\ published' => sinceRestart' <= PublishInterval + sinceWake'
          /\ telemetry' \in {"debouncing", "polling"} => sinceRestart' <= sinceWake' /\ sinceRestart' <= PublishInterval
      BY <3>1, <3>2, <3>3
    <3> QED
      BY <3>1, <3>2, <3>3, <3>4
  <2>2. CASE StartTelemetry \/ requestTelemetryPublishing
    BY <2>2 DEF StartTelemetry, requestTelemetryPublishing
  <2>3. CASE MarkWakeTime
    BY <2>3 DEF MarkWakeTime
  <2>4. CASE RestartWatchdog \/ Debounced \/ PollRequests
    BY <2>4 DEF RestartWatchdog, Debounced, PollRequests
  <2>5. CASE WatchdogTimesOut
    <3>1. ~published
      BY <2>5 DEF WatchdogTimesOut
    <3> QED
      BY <2>5, <3>1 DEF WatchdogTimesOut
  <2> QED
    BY <2>1, <2>2, <2>3, <2>4, <2>5 DEF PublishingNext
<1> QED
  BY <1>1, <1>2 DEF WatchdogPatient

LEMMA PublishingInvRests == PublishingInv /\ UNCHANGED publishingVars => PublishingInv'
  BY DEF PublishingInv, PublishingTypes, PublishingTimes, WatchdogPatient, publishingVars

--------
(* Peripherals and functions. *)

\* A list of at most two.
LEMMA UpToTwoFacts ==
  ASSUME NEW S, NEW s \in UpToTwo(S)
  PROVE  /\ Len(s) \in 0 .. 2 /\ DOMAIN s = 1 .. Len(s)
         /\ \A i \in 1 .. Len(s) : s[i] \in S
  BY DEF UpToTwo

Known == instances["peripheral"]

Prints == {"", "stored", "sent", "edited", "faulty"}
Jobs == [name : {"f", "g"}, body : Bodies]
RegistryTypes ==
  /\ peripherals \in UpToTwo(PeripheralSettings) /\ functions \in UpToTwo(FunctionSettings)
  /\ loading \in {"peripherals", "functions", "done"} /\ index \in 1 .. 3 /\ making \in BOOLEAN
  /\ stopped \subseteq {"peripheral", "function"}
  /\ initState \in {"success", "peripheral error", "function error"} /\ failures \in 0 .. 4
  /\ shutdown \in {"no", "peripheral", "function", "over"} /\ overlapped \subseteq {"f", "g"}
  /\ applying \in [Handlers -> {Idle} \cup Jobs]
  /\ DOMAIN instances = {"peripheral", "function"}

\* How far the configuration has been made, and what has failed so far.
Progress ==
  /\ loading = "peripherals" => index <= Len(peripherals) + 1 /\ failures <= index - 1 /\ ~making
  /\ loading = "functions" => index <= Len(functions) + 1 /\ failures <= Len(peripherals) + index - 1
  /\ making => loading = "functions" /\ index <= Len(functions)
  /\ loading = "done" => ~making
  /\ initState = "success" <=> failures = 0

\* Of those that were to be made until now, each was, unless one has failed.
Made ==
  failures = 0 =>
    /\ \A i \in 1 .. Len(peripherals) :
         loading # "peripherals" \/ i < index => <<"peripheral", i>> \in products /\ peripherals[i].name \in DOMAIN Known
    /\ \A i \in 1 .. Len(functions) :
         loading = "done" \/ (loading = "functions" /\ i < index) =>
           <<"function", i>> \in products /\ functions[i].name \in DOMAIN instances["function"]

\* What the peripheral manager knows was made, and of each name that was made it knows one.
Recorded ==
  /\ \A n \in DOMAIN Known : <<"peripheral", Known[n]>> \in products
  /\ \A i \in DOMAIN peripherals : <<"peripheral", i>> \in products => peripherals[i].name \in DOMAIN Known

\* A manager that has been stopped has shut down what it knows.
ShutDown ==
  /\ shut \subseteq products
  /\ shutdown \in {"function", "over"} => "peripheral" \in stopped
  /\ "peripheral" \in stopped =>
       \A i \in DOMAIN peripherals : <<"peripheral", i>> \in products =>
         <<"peripheral", i>> \in shut \/ Known[peripherals[i].name] # i

\* A handler is at a function that runs what the handler gave it, if no other was at it by then.
InHand ==
  \A h \in Handlers : applying[h] # Idle =>
    /\ applying[h].name \in DOMAIN tracker
    /\ applying[h].name \notin overlapped =>
         /\ configured[tracker[applying[h].name].of] = applying[h].body
         /\ \A g \in Handlers : applying[g].name = applying[h].name => g = h

\* Each name has a configured function of its own, and what was recorded for it is what it runs.
Tracked ==
  /\ DOMAIN tracker \subseteq {"f", "g"}
  /\ \A n \in DOMAIN tracker : tracker[n] \in [of : DOMAIN configured, fingerprint : Prints]
  /\ \A i \in DOMAIN configured : i \in 1 .. 2 /\ (loading = "functions" => i < index) /\ loading # "peripherals"
  /\ \A n, m \in DOMAIN tracker : tracker[n].of = tracker[m].of => n = m
  /\ loading # "done" => \A h \in Handlers : applying[h] = Idle
  /\ InHand
  /\ ManifestProven

RegistryInv == RegistryTypes /\ Progress /\ Made /\ Recorded /\ ShutDown /\ Tracked

\* What a handler is at, if it is at anything.
LEMMA JobFacts == Idle.name = "none" /\ \A j \in {Idle} \cup Jobs : j # Idle <=> j.name \in {"f", "g"} /\ j.body \in Bodies
  BY DEF Idle, Jobs
LEMMA BodyPrints == \A b \in Bodies : FingerprintOf(b) = b /\ b \in Prints
  BY Zenon DEF Bodies, FingerprintOf, Prints

LEMMA RegistryInvInit == RegistryInit => RegistryInv
<1> SUFFICES ASSUME RegistryInit PROVE RegistryInv
  OBVIOUS
<1> USE DEF RegistryInit
<1>1. RegistryTypes
  <2>1. making \in BOOLEAN
    OBVIOUS
  <2>3. index \in 1 .. 3 /\ failures \in 0 .. 4
    OBVIOUS
  <2>2. DOMAIN instances = {"peripheral", "function"} /\ applying \in [Handlers -> {Idle} \cup Jobs] /\ overlapped = {}
    OBVIOUS
  <2> QED
    BY <2>1, <2>2, <2>3 DEF RegistryTypes
<1>2. Len(peripherals) \in 0 .. 2 /\ Len(functions) \in 0 .. 2
      /\ DOMAIN peripherals = 1 .. Len(peripherals) /\ DOMAIN functions = 1 .. Len(functions)
  BY UpToTwoFacts
<1>3. DOMAIN Known = {} /\ DOMAIN tracker = {} /\ DOMAIN configured = {}
  BY DEF Known
<1>4. Progress
  BY <1>2 DEF Progress
<1>5. Made
  BY <1>2 DEF Made
<1>6. Recorded /\ ShutDown
  BY <1>3 DEF Recorded, ShutDown
<1>7. Tracked
  BY <1>3, JobFacts DEF Tracked, InHand, ManifestProven
<1> QED
  BY <1>1, <1>4, <1>5, <1>6, <1>7 DEF RegistryInv

\* A step that does not touch what the peripherals' part is about, or the functions'.
LEMMA PeripheralsRest ==
  ASSUME Recorded, ShutDown,
         UNCHANGED <<peripherals, stopped, instances, products, shut, shutdown>>
  PROVE  Recorded' /\ ShutDown'
  BY DEF Recorded, ShutDown, Known

LEMMA FunctionsRest ==
  ASSUME RegistryTypes, Tracked, UNCHANGED <<tracker, configured, applying, overlapped>>,
         UNCHANGED loading \/ loading' # "peripherals",
         loading' = "functions" => index <= index' \/ loading = "peripherals",
         loading = "done" => loading' = "done",
         index \in Int /\ index' \in Int
  PROVE  Tracked'
<1>1. loading \in {"peripherals", "functions", "done"}
  BY DEF RegistryTypes
<1>2. ManifestProven' /\ InHand'
  BY DEF Tracked, InHand, ManifestProven
<1>3. \A i \in DOMAIN configured' : i \in 1 .. 2 /\ (loading' = "functions" => i < index') /\ loading' # "peripherals"
  <2> SUFFICES ASSUME NEW i \in DOMAIN configured
               PROVE  i \in 1 .. 2 /\ (loading' = "functions" => i < index') /\ loading' # "peripherals"
    OBVIOUS
  <2>1. i \in 1 .. 2 /\ (loading = "functions" => i < index) /\ loading # "peripherals"
    BY DEF Tracked
  <2> QED
    BY <1>1, <2>1
<1>4. loading' # "done" => \A h \in Handlers : applying'[h] = Idle
  BY DEF Tracked
<1> QED
  BY <1>2, <1>3, <1>4 DEF Tracked

\* With no handler at work, the manifest is of what runs.
LEMMA NothingInHand ==
  ASSUME ManifestProven, \A h \in Handlers : applying[h] = Idle, NEW n \in DOMAIN tracker \ overlapped, n \in {"f", "g"}
  PROVE  tracker[n].fingerprint = FingerprintOf(configured[tracker[n].of])
  BY JobFacts DEF ManifestProven

\* The numbers that the steps of a boot count with.
LEMMA RegistryNumbers ==
  ASSUME RegistryTypes
  PROVE  /\ Len(peripherals) \in 0 .. 2 /\ DOMAIN peripherals = 1 .. Len(peripherals)
         /\ Len(functions) \in 0 .. 2 /\ DOMAIN functions = 1 .. Len(functions)
         /\ index \in 1 .. 3 /\ failures \in 0 .. 4
         /\ \A i \in 1 .. Len(functions) : functions[i].name \in {"f", "g"} /\ functions[i].config \in {"none", "stored", "default"}
<1>1. /\ Len(peripherals) \in 0 .. 2 /\ DOMAIN peripherals = 1 .. Len(peripherals)
      /\ Len(functions) \in 0 .. 2 /\ DOMAIN functions = 1 .. Len(functions)
      /\ \A i \in 1 .. Len(functions) : functions[i] \in FunctionSettings
  BY UpToTwoFacts DEF RegistryTypes
<1>2. \A f \in FunctionSettings : f.name \in {"f", "g"} /\ f.config \in {"none", "stored", "default"}
  BY DEF FunctionSettings
<1> QED
  BY <1>1, <1>2 DEF RegistryTypes

LEMMA RegistryInvNext == RegistryInv /\ RegistryNext => RegistryInv'
<1> SUFFICES ASSUME RegistryInv, RegistryNext PROVE RegistryInv'
  OBVIOUS
<1> USE DEF RegistryInv
<1>1. /\ Len(peripherals) \in 0 .. 2 /\ DOMAIN peripherals = 1 .. Len(peripherals)
      /\ Len(functions) \in 0 .. 2 /\ DOMAIN functions = 1 .. Len(functions)
      /\ index \in 1 .. 3 /\ failures \in 0 .. 4
      /\ \A i \in 1 .. Len(functions) : functions[i].name \in {"f", "g"} /\ functions[i].config \in {"none", "stored", "default"}
  BY RegistryNumbers
<1>2. CASE createPeripheral
  <2>10. /\ loading = "peripherals" /\ index <= Len(peripherals) /\ index' = index + 1
         /\ MakePeripheral
         /\ UNCHANGED <<peripherals, functions, loading, making, stopped, shut, tracker, configured, applying, overlapped, shutdown>>
    BY <1>2 DEF createPeripheral
  <2>11. ~making /\ failures <= index - 1
    BY <2>10 DEF Progress
  <2>13. making' <=> making
    BY <2>10
  <2>12. ~making' /\ making' \in BOOLEAN
    <3>1. making' = making /\ making \in BOOLEAN
      BY <2>10 DEF RegistryTypes
    <3> QED
      BY <2>11, <3>1
  <2>1. /\ index \in 1 .. Len(peripherals) /\ index' = index + 1 /\ index' \in 1 .. 3
        /\ failures <= index - 1
        /\ loading = "peripherals" /\ loading' = "peripherals"
        /\ UNCHANGED <<peripherals, functions, stopped, shut, tracker, configured, applying, overlapped, shutdown>>
    BY <1>1, <2>10, <2>11
  <2> DEFINE name == peripherals[index].name
  <2>2. CASE Creates("peripheral") /\ peripherals[index].ok
    <3>1. /\ products' = products \cup {<<"peripheral", index>>}
          /\ instances' = Emplace("peripheral", name, index)
          /\ initState' = initState /\ failures' = failures
      BY <2>2, <2>10 DEF MakePeripheral
    <3>2. DOMAIN instances' = {"peripheral", "function"} /\ instances'["function"] = instances["function"]
          /\ Known' = IF name \in DOMAIN Known THEN Known ELSE Put(Known, name, index)
      BY <3>1 DEF Emplace, RegistryTypes, Known
    <3> HIDE DEF name
    <3>3. /\ DOMAIN Known' = DOMAIN Known \cup {name}
          /\ \A n \in DOMAIN Known : Known'[n] = Known[n]
          /\ name \notin DOMAIN Known => Known'[name] = index
      <4>1. CASE name \in DOMAIN Known
        BY <3>2, <4>1
      <4>2. CASE name \notin DOMAIN Known
        <5>1. Known' = Put(Known, name, index)
          BY <3>2, <4>2
        <5>2. DOMAIN Known' = DOMAIN Known \cup {name} /\ Known'[name] = index /\ \A k \in DOMAIN Known : k # name => Known'[k] = Known[k]
          BY <5>1 DEF Put
        <5> QED
          BY <4>2, <5>2
      <4> QED
        BY <4>1, <4>2
    <3>4. "peripheral" \notin stopped
      BY <2>2 DEF Creates
    <3>5. RegistryTypes'
      BY <2>1, <2>12, <3>1, <3>2 DEF RegistryTypes
    <3>11. index' <= Len(peripherals) + 1 /\ failures' <= index' - 1
      BY <1>1, <2>1, <3>1
    <3>6. Progress'
      BY <2>1, <2>12, <3>1, <3>11 DEF Progress
    <3>7. Made'
      BY <1>1, <2>1, <3>1, <3>2, <3>3 DEF Made, name
    <3>8. Recorded'
      BY <1>1, <2>1, <3>1, <3>3 DEF Recorded, name
    <3>9. ShutDown'
      BY <2>1, <3>1, <3>4 DEF ShutDown
    <3>10. Tracked'
      BY <1>1, <2>1, FunctionsRest
    <3> QED
      BY <3>5, <3>6, <3>7, <3>8, <3>9, <3>10
  <2>3. CASE ~(Creates("peripheral") /\ peripherals[index].ok)
    <3>1. UNCHANGED <<products, instances>> /\ initState' = "peripheral error" /\ failures' = failures + 1
      BY <2>3, <2>10 DEF MakePeripheral
    <3>8. failures \in 0 .. 1
      BY <1>1, <2>1
    <3>9. failures' = failures + 1
      BY <3>1
    <3>2. failures' \in 0 .. 4 /\ failures' > 0
      BY <3>8, <3>9
    <3>3. RegistryTypes'
      BY <2>1, <2>12, <3>1, <3>2 DEF RegistryTypes
    <3>12. failures' # 0
      BY <3>2
    <3>10. initState' # "success" /\ failures' # 0
      BY <3>1, <3>12
    <3>11. index' <= Len(peripherals) + 1 /\ failures' <= index' - 1
      BY <1>1, <2>1, <3>9
    <3>4. Progress'
      BY <2>1, <2>12, <3>10, <3>11 DEF Progress
    <3>7. Made'
      BY <3>12 DEF Made
    <3>5. Recorded' /\ ShutDown'
      BY <2>1, <3>1, PeripheralsRest
    <3>6. Tracked'
      BY <1>1, <2>1, FunctionsRest
    <3> QED
      BY <3>3, <3>4, <3>5, <3>6, <3>7
  <2> QED
    BY <2>2, <2>3
<1>3. CASE PeripheralsDone
  <2> USE <1>3 DEF PeripheralsDone
  <2>1. Recorded' /\ ShutDown'
    BY PeripheralsRest
  <2>5. making' \in BOOLEAN
    BY DEF RegistryTypes
  <2>6. loading' = "functions" /\ index' = 1
    OBVIOUS
  <2>7. index' \in 1 .. 3
    BY <2>6
  <2>4. RegistryTypes'
    BY <2>5, <2>6, <2>7 DEF RegistryTypes
  <2>2. Progress' /\ Made'
    BY <1>1 DEF Progress, Made, Known
  <2>3. Tracked'
    BY <1>1, FunctionsRest
  <2> QED
    BY <2>1, <2>2, <2>3, <2>4
<1>4. CASE TakeFunctionManager
  <2> USE <1>4 DEF TakeFunctionManager
  <2>1. Recorded' /\ ShutDown'
    BY PeripheralsRest
  <2>4. RegistryTypes'
    BY DEF RegistryTypes
  <2>2. Progress' /\ Made'
    BY <1>1 DEF Progress, Made, Known
  <2>3. Tracked'
    BY <1>1, FunctionsRest
  <2> QED
    BY <2>1, <2>2, <2>3, <2>4
<1>5. CASE RuntimeDone
  <2> USE <1>5 DEF RuntimeDone
  <2>1. Recorded' /\ ShutDown'
    BY PeripheralsRest
  <2>4. RegistryTypes'
    BY DEF RegistryTypes
  <2>2. Progress' /\ Made'
    BY <1>1 DEF Progress, Made, Known
  <2>3. Tracked'
    BY <1>1, FunctionsRest
  <2> QED
    BY <2>1, <2>2, <2>3, <2>4
<1>6. CASE StartShutdown
  <2> USE <1>6 DEF StartShutdown
  <2>1. RegistryTypes' /\ Recorded' /\ ShutDown'
    BY DEF RegistryTypes, Recorded, ShutDown, Known
  <2>2. Progress' /\ Made'
    BY <1>1 DEF Progress, Made, Known
  <2>3. Tracked'
    BY <1>1, FunctionsRest
  <2> QED
    BY <2>1, <2>2, <2>3
<1>7. CASE Shutdown
  <2> USE <1>7 DEF Shutdown
  <2>1. RegistryTypes'
    BY DEF RegistryTypes
  <2>2. Progress' /\ Made'
    BY <1>1 DEF Progress, Made, Known
  <2>3. Tracked'
    BY <1>1, FunctionsRest
  <2>4. Recorded'
    BY DEF Recorded, Known
  <2>5. CASE shutdown = "peripheral"
    <3>1. shut' = shut \cup {<<"peripheral", Known[n]>> : n \in DOMAIN Known} /\ "peripheral" \in stopped'
          /\ products' = products /\ Known' = Known /\ peripherals' = peripherals
      BY <2>5 DEF Known
    <3>2. shut' \subseteq products'
      BY <3>1 DEF ShutDown, Recorded
    <3>3. \A i \in DOMAIN peripherals : <<"peripheral", i>> \in products =>
            <<"peripheral", i>> \in shut' \/ Known[peripherals[i].name] # i
      BY <3>1 DEF Recorded
    <3> QED
      BY <2>1, <2>2, <2>3, <2>4, <3>1, <3>2, <3>3 DEF ShutDown
  <2>6. CASE shutdown = "function"
    <3>1. ShutDown'
      BY <2>6 DEF ShutDown, Known
    <3> QED
      BY <2>1, <2>2, <2>3, <2>4, <3>1
  <2> QED
    BY <2>5, <2>6
<1>8. CASE createFunction
  <2>10. making /\ making' = FALSE /\ index' = index + 1
         /\ UNCHANGED <<peripherals, functions, loading, stopped, shut, applying, overlapped, shutdown>>
    BY <1>8 DEF createFunction
  <2>1. /\ ~making' /\ loading = "functions" /\ loading' = "functions" /\ index' = index + 1
        /\ UNCHANGED <<peripherals, functions, stopped, shut, applying, overlapped, shutdown>>
    BY <2>10 DEF Progress
  <2>11. index <= Len(functions) /\ failures <= Len(peripherals) + index - 1
    BY <2>10 DEF Progress
  <2>2. index \in 1 .. Len(functions) /\ failures <= Len(peripherals) + index - 1
    BY <1>1, <2>11
  <2>12. /\ Len(peripherals) \in 0 .. 2 /\ Len(functions) \in 0 .. 2 /\ index \in 1 .. 3 /\ failures \in 0 .. 4
         /\ index' = index + 1
    BY <1>1, <2>1
  <2>13. making' \in BOOLEAN
    BY <2>10
  <2>3. index' \in 1 .. 3 /\ index' <= Len(functions) + 1
    <3>1. index <= Len(functions) /\ index \in 1 .. 3 /\ Len(functions) \in 0 .. 2 /\ index' = index + 1
      BY <2>11, <2>12
    <3>4. \A i \in 1 .. 3, n \in 0 .. 2 : i <= n => i + 1 \in 1 .. 3
      OBVIOUS
    <3>2. index' \in 1 .. 3
      BY <3>1, <3>4
    <3>3. index' <= Len(functions) + 1
      BY <3>1
    <3> QED
      BY <3>2, <3>3
  <2> DEFINE f == functions[index]
  <2>4. f.name \in {"f", "g"} /\ f.config \in {"none", "stored", "default"}
    BY <1>1, <2>2
  <2>5. CASE Creates("function") /\ f.ok /\ f.uses \in DOMAIN instances["peripheral"]
    <3>1. /\ products' = products \cup {<<"function", index>>}
          /\ instances' = Emplace("function", f.name, index)
          /\ tracker' = Put(tracker, f.name, [of |-> index, fingerprint |-> IF f.config = "stored" THEN "stored" ELSE ""])
          /\ configured' = Put(configured, index, f.config)
          /\ UNCHANGED <<initState, failures>>
      BY <1>8, <2>5 DEF createFunction
    <3>2. /\ DOMAIN instances' = {"peripheral", "function"} /\ Known' = Known
          /\ instances'["function"] = IF f.name \in DOMAIN instances["function"] THEN instances["function"]
                                      ELSE Put(instances["function"], f.name, index)
      BY <3>1 DEF Emplace, RegistryTypes, Known
    <3>3. DOMAIN instances'["function"] = DOMAIN instances["function"] \cup {f.name}
      <4> DEFINE name == f.name
      <4> HIDE DEF name
      <4>1. CASE f.name \in DOMAIN instances["function"]
        BY <3>2, <4>1
      <4>2. CASE f.name \notin DOMAIN instances["function"]
        <5>1. instances'["function"] = Put(instances["function"], name, index)
          BY <3>2, <4>2 DEF name
        <5> QED
          BY <5>1 DEF Put, name
      <4> QED
        BY <4>1, <4>2
    <3>4. RegistryTypes'
      BY <2>1, <2>3, <2>13, <3>1, <3>2 DEF RegistryTypes
    <3>5. Progress'
      <4>2. failures' = failures /\ initState' = initState
        BY <3>1
      <4>1. failures' <= Len(peripherals) + index' - 1
        BY <2>2, <2>12, <4>2
      <4> QED
        BY <2>1, <2>3, <4>1, <4>2 DEF Progress
    <3>6. Made'
      <4> SUFFICES ASSUME failures' = 0 PROVE Made'
        BY DEF Made
      <4>1. failures = 0
        BY <3>1
      <4>2. \A i \in 1 .. Len(peripherals) : <<"peripheral", i>> \in products' /\ peripherals[i].name \in DOMAIN Known'
        BY <2>1, <3>1, <3>2, <4>1 DEF Made
      <4>3. \A i \in 1 .. Len(functions) : i < index' => <<"function", i>> \in products' /\ functions[i].name \in DOMAIN instances'["function"]
        <5> SUFFICES ASSUME NEW i \in 1 .. Len(functions), i < index'
                     PROVE  <<"function", i>> \in products' /\ functions[i].name \in DOMAIN instances'["function"]
          OBVIOUS
        <5>1. i < index \/ i = index
          BY <1>1, <2>1
        <5>2. CASE i < index
          BY <2>1, <3>1, <3>3, <4>1, <5>2 DEF Made
        <5>3. CASE i = index
          BY <3>1, <3>3, <5>3
        <5> QED
          BY <5>1, <5>2, <5>3
      <4> QED
        BY <2>1, <4>2, <4>3 DEF Made
    <3>7. Recorded'
      BY <2>1, <3>1, <3>2 DEF Recorded
    <3>8. ShutDown'
      BY <2>1, <3>1, <3>2 DEF ShutDown
    <3>9. Tracked'
      <4> DEFINE entry == [of |-> index, fingerprint |-> IF f.config = "stored" THEN "stored" ELSE ""]
                 name == f.name
                 config == f.config
      <4>1. /\ DOMAIN tracker' = DOMAIN tracker \cup {name} /\ tracker'[name] = entry
            /\ \A n \in DOMAIN tracker : n # name => tracker'[n] = tracker[n]
        <5> HIDE DEF entry, name
        <5>1. tracker' = Put(tracker, name, entry)
          BY <3>1 DEF entry, name
        <5> QED
          BY <5>1 DEF Put
      <4>2. /\ DOMAIN configured' = DOMAIN configured \cup {index} /\ configured'[index] = config
            /\ \A i \in DOMAIN configured : i # index => configured'[i] = configured[i]
        <5> HIDE DEF config
        <5>1. configured' = Put(configured, index, config)
          BY <3>1 DEF config
        <5> QED
          BY <5>1 DEF Put
      <4>3. entry \in [of : {index}, fingerprint : Prints] /\ entry.of = index /\ entry.fingerprint = FingerprintOf(config)
        BY <2>4, Zenon DEF FingerprintOf, Prints
      <4>4. name \in {"f", "g"}
        BY <2>4
      <4> HIDE DEF entry, name, config
      <4>5. applying' = applying /\ overlapped' = overlapped /\ \A h \in Handlers : applying[h] = Idle
        BY <2>1 DEF Tracked
      <4>15. \A i \in DOMAIN configured : i \in 1 .. 2 /\ i < index
        BY <2>1 DEF Tracked
      <4>6. \A i \in DOMAIN configured : i \in 1 .. 2 /\ i < index /\ i # index
        BY <2>12, <4>15
      <4>7. \A n \in DOMAIN tracker : tracker[n] \in [of : DOMAIN configured, fingerprint : Prints]
                                       /\ tracker[n].of \in DOMAIN configured /\ tracker[n].of # index
        BY <4>6 DEF Tracked
      <4>8. \A n \in DOMAIN tracker' : tracker'[n] \in [of : DOMAIN configured', fingerprint : Prints]
        <5> SUFFICES ASSUME NEW n \in DOMAIN tracker'
                     PROVE  tracker'[n] \in [of : DOMAIN configured', fingerprint : Prints]
          OBVIOUS
        <5>1. CASE n = name
          BY <4>1, <4>2, <4>3, <5>1
        <5>2. CASE n # name
          BY <4>1, <4>2, <4>7, <5>2
        <5> QED
          BY <5>1, <5>2
      <4>9. \A i \in DOMAIN configured' : i \in 1 .. 2 /\ i < index'
        BY <1>1, <2>1, <2>2, <4>2, <4>6
      <4>13. \A n, m \in DOMAIN tracker : tracker[n].of = tracker[m].of => n = m
        BY DEF Tracked
      <4>14. \A n \in DOMAIN tracker' : tracker'[n].of = IF n = name THEN index ELSE tracker[n].of
        BY <4>1, <4>3
      <4>10. \A n, m \in DOMAIN tracker' : tracker'[n].of = tracker'[m].of => n = m
        <5> SUFFICES ASSUME NEW n \in DOMAIN tracker', NEW m \in DOMAIN tracker', tracker'[n].of = tracker'[m].of
                     PROVE  n = m
          OBVIOUS
        <5>1. \A p \in DOMAIN tracker' : p # name => p \in DOMAIN tracker /\ tracker[p].of # index
          BY <4>1, <4>7
        <5> QED
          BY <4>13, <4>14, <5>1
      <4>11. ManifestProven'
        <5> SUFFICES ASSUME NEW n \in DOMAIN tracker' \ overlapped
                     PROVE  tracker'[n].fingerprint = FingerprintOf(configured'[tracker'[n].of])
          BY <4>5 DEF ManifestProven
        <5>1. CASE n = name
          BY <4>1, <4>2, <4>3, <5>1
        <5>2. CASE n # name
          <6>1. n \in DOMAIN tracker /\ tracker'[n] = tracker[n] /\ configured'[tracker[n].of] = configured[tracker[n].of]
            BY <4>1, <4>2, <4>7, <5>2
          <6>2. tracker[n].fingerprint = FingerprintOf(configured[tracker[n].of])
            BY <4>5, <6>1, NothingInHand DEF Tracked
          <6> QED
            BY <6>1, <6>2
        <5> QED
          BY <5>1, <5>2
      <4>12. DOMAIN tracker' \subseteq {"f", "g"}
        BY <4>1, <4>4 DEF Tracked
      <4> QED
        BY <2>1, <4>5, <4>8, <4>9, <4>10, <4>11, <4>12, JobFacts DEF Tracked, InHand
    <3> QED
      BY <3>4, <3>5, <3>6, <3>7, <3>8, <3>9
  <2>6. CASE ~(Creates("function") /\ f.ok /\ f.uses \in DOMAIN instances["peripheral"])
    <3>1. UNCHANGED <<products, instances, tracker, configured>> /\ initState' = "function error" /\ failures' = failures + 1
      BY <1>8, <2>6 DEF createFunction
    <3>2. failures' = failures + 1
      BY <3>1
    <3>3. failures \in 0 .. 3
      BY <1>1, <2>2, <2>12
    <3>4. failures' \in 0 .. 4 /\ failures' > 0
      BY <3>2, <3>3
    <3>5. RegistryTypes'
      BY <2>1, <2>3, <2>13, <3>1, <3>4 DEF RegistryTypes
    <3>6. failures' <= Len(peripherals) + index' - 1
      BY <2>2, <2>12, <3>2
    <3>12. failures' # 0
      BY <3>4
    <3>7. initState' # "success" /\ failures' # 0
      BY <3>1, <3>12
    <3>8. Progress'
      BY <2>1, <2>3, <3>6, <3>7 DEF Progress
    <3>9. Made'
      BY <3>7 DEF Made
    <3>10. Recorded' /\ ShutDown'
      BY <2>1, <3>1, PeripheralsRest
    <3>11. Tracked'
      <4>1. index \in Int /\ index' \in Int /\ index <= index'
        BY <2>12
      <4> QED
        BY <2>1, <3>1, <4>1, FunctionsRest
    <3> QED
      BY <3>5, <3>8, <3>9, <3>10, <3>11
  <2> QED
    BY <2>5, <2>6
<1>9. CASE applyLive
  <2> USE <1>9 DEF applyLive
  <2>1. PICK h \in Handlers, name \in DOMAIN tracker, body \in Bodies :
          /\ applying[h] = Idle /\ configured[tracker[name].of] # "none" /\ Configure(body)
          /\ configured' = [configured EXCEPT ![tracker[name].of] = body]
          /\ applying' = [applying EXCEPT ![h] = [name |-> name, body |-> body]]
          /\ overlapped' = IF \E g \in Handlers: applying[g].name = name
                           THEN overlapped \cup {name} ELSE overlapped \ {name}
    OBVIOUS
  <2>2. body \in {"sent", "edited"} /\ name \in {"f", "g"}
    BY <2>1 DEF Configure, Bodies, Tracked
  <2>3. /\ tracker' = tracker /\ loading = "done" /\ loading' = "done"
        /\ \A n \in {"f", "g"} : n # name => (n \in overlapped' <=> n \in overlapped)
    BY <2>1
  <2>9. applying'[h].name = name /\ applying'[h].body = body /\ \A g \in Handlers : g # h => applying'[g] = applying[g]
    BY <2>1 DEF RegistryTypes
  <2>4. RegistryTypes'
    <3>1. making' \in BOOLEAN
      BY DEF RegistryTypes
    <3>2. applying' \in [Handlers -> {Idle} \cup Jobs] /\ overlapped' \subseteq {"f", "g"}
      <4>1. [name |-> name, body |-> body] \in Jobs
        BY <2>2 DEF Jobs
      <4> QED
        BY <2>1, <2>2, <4>1 DEF RegistryTypes
    <3> QED
      BY <3>1, <3>2 DEF RegistryTypes
  <2>5. Progress' /\ Made'
    BY <1>1 DEF Progress, Made, Known
  <2>6. Recorded' /\ ShutDown'
    BY PeripheralsRest
  <2>7. Tracked'
    <3> DEFINE place == tracker[name].of
    <3>1. place \in DOMAIN configured /\ DOMAIN configured' = DOMAIN configured /\ configured'[place] = body
          /\ \A i \in DOMAIN configured : i # place => configured'[i] = configured[i]
      BY <2>1 DEF Tracked
    <3>2. \A n \in DOMAIN tracker : tracker[n].of \in DOMAIN configured /\ (tracker[n].of = place => n = name)
      BY DEF Tracked
    <3>8. configured'[tracker[name].of] = body /\ \A n \in DOMAIN tracker : n # name => configured'[tracker[n].of] = configured[tracker[n].of]
      BY <3>1, <3>2
    <3> HIDE DEF place
    <3>3. ManifestProven'
      <4> SUFFICES ASSUME NEW n \in DOMAIN tracker \ overlapped'
                   PROVE  LET runs == configured'[tracker[n].of]
                          IN \/ \E g \in Handlers : applying'[g].name = n /\ applying'[g].body = runs
                             \/ tracker[n].fingerprint = FingerprintOf(runs)
        BY <2>3 DEF ManifestProven
      <4>1. CASE n = name
        BY <2>9, <3>8, <4>1
      <4>2. CASE n # name
        <5>1. configured'[tracker[n].of] = configured[tracker[n].of] /\ n \in DOMAIN tracker \ overlapped
          BY <2>1, <3>8, <4>2
        <5>2. CASE \E g \in Handlers : applying[g].name = n /\ applying[g].body = configured[tracker[n].of]
          <6>1. PICK g \in Handlers : applying[g].name = n /\ applying[g].body = configured[tracker[n].of]
            BY <5>2
          <6>2. g # h
            BY <2>1, <6>1, JobFacts DEF Tracked
          <6> QED
            BY <2>9, <5>1, <6>1, <6>2
        <5> QED
          BY <5>1, <5>2 DEF Tracked, ManifestProven
      <4> QED
        BY <4>1, <4>2
    <3>4. InHand'
      <4> SUFFICES ASSUME NEW g \in Handlers, applying'[g] # Idle
                   PROVE  LET n == applying'[g].name
                          IN /\ n \in DOMAIN tracker
                             /\ n \notin overlapped' =>
                                  /\ configured'[tracker[n].of] = applying'[g].body
                                  /\ \A k \in Handlers : applying'[k].name = n => k = g
        BY <2>3 DEF InHand
      <4>1. CASE g = h
        <5>2. name \notin overlapped' => \A k \in Handlers : applying[k].name # name
          BY <2>1
        <5> QED
          BY <2>9, <3>8, <4>1, <5>2
      <4>2. CASE g # h
        <5>1. applying'[g] = applying[g] /\ applying[g] # Idle
          BY <2>9, <4>2
        <5>2. applying[g].name # name \/ name \in overlapped'
          BY <2>1
        <5>3. applying[g].name \in {"f", "g"} /\ applying[g].name \in DOMAIN tracker
          BY <5>1, JobFacts DEF RegistryTypes, Tracked, InHand
        <5>4. CASE applying[g].name # name
          BY <2>3, <2>9, <3>8, <5>1, <5>3, <5>4 DEF Tracked, InHand
        <5> QED
          BY <5>1, <5>2, <5>3, <5>4
      <4> QED
        BY <4>1, <4>2
    <3>5. \A n \in DOMAIN tracker' : tracker'[n] \in [of : DOMAIN configured', fingerprint : Prints]
      BY <2>3, <3>1 DEF Tracked
    <3>6. \A i \in DOMAIN configured' : i \in 1 .. 2 /\ loading' # "peripherals" /\ loading' # "functions"
      BY <2>3, <3>1 DEF Tracked
    <3>7. DOMAIN tracker' \subseteq {"f", "g"} /\ \A n, m \in DOMAIN tracker' : tracker'[n].of = tracker'[m].of => n = m
      BY <2>3 DEF Tracked
    <3> QED
      BY <2>3, <3>3, <3>4, <3>5, <3>6, <3>7 DEF Tracked
  <2> QED
    BY <2>4, <2>5, <2>6, <2>7
<1>10. CASE RecordApplied
  <2> USE <1>10 DEF RecordApplied
  <2>10. PICK h \in Handlers : /\ applying[h] # Idle /\ applying' = [applying EXCEPT ![h] = Idle]
                               /\ tracker' = [tracker EXCEPT ![applying[h].name].fingerprint = applying[h].body]
    OBVIOUS
  <2> DEFINE name == applying[h].name
             body == applying[h].body
  <2>11. name \in {"f", "g"} /\ body \in Bodies
    BY <2>10, JobFacts DEF RegistryTypes
  <2>1. name \in DOMAIN tracker /\ loading = "done" /\ (name \notin overlapped => configured[tracker[name].of] = body)
    BY <2>10, <2>11 DEF RegistryTypes, Tracked, InHand
  <2>2. /\ tracker' = [tracker EXCEPT ![name].fingerprint = body] /\ configured' = configured /\ loading' = loading
        /\ applying'[h] = Idle /\ (\A g \in Handlers : g # h => applying'[g] = applying[g]) /\ overlapped' = overlapped
    BY <2>10 DEF RegistryTypes
  <2> HIDE DEF name, body
  <2>3. \A n \in DOMAIN tracker : tracker[n] \in [of : DOMAIN configured, fingerprint : Prints]
    BY DEF Tracked
  <2>4. FingerprintOf(body) = body /\ body \in Prints
    BY <2>11, BodyPrints
  <2>5. /\ DOMAIN tracker' = DOMAIN tracker
        /\ tracker'[name].of = tracker[name].of /\ tracker'[name].fingerprint = body
        /\ tracker'[name] \in [of : DOMAIN configured, fingerprint : Prints]
        /\ \A n \in DOMAIN tracker : n # name => tracker'[n] = tracker[n]
    <3>1. tracker[name] \in [of : DOMAIN configured, fingerprint : Prints]
      BY <2>1, <2>3
    <3>2. tracker'[name] = [tracker[name] EXCEPT !.fingerprint = body]
      BY <2>1, <2>2
    <3>3. /\ DOMAIN tracker' = DOMAIN tracker
          /\ \A n \in DOMAIN tracker : n # name => tracker'[n] = tracker[n]
      BY <2>2
    <3> DEFINE places == DOMAIN configured
               old == tracker[name]
               new == tracker'[name]
    <3> HIDE DEF places, old, new
    <3>4. old \in [of : places, fingerprint : Prints] /\ new = [old EXCEPT !.fingerprint = body] /\ body \in Prints
      BY <2>4, <3>1, <3>2 DEF places, old, new
    <3>5. new \in [of : places, fingerprint : Prints] /\ new.of = old.of /\ new.fingerprint = body
      BY ONLY <3>4
    <3> QED
      BY <3>3, <3>5 DEF places, old, new
  <2>6. RegistryTypes'
    <3>1. making' \in BOOLEAN
      BY DEF RegistryTypes
    <3>2. applying' \in [Handlers -> {Idle} \cup Jobs]
      BY <2>10 DEF RegistryTypes
    <3> QED
      BY <3>1, <3>2 DEF RegistryTypes
  <2>7. Progress' /\ Made'
    BY <1>1 DEF Progress, Made, Known
  <2>8. Recorded' /\ ShutDown'
    BY PeripheralsRest
  <2>9. Tracked'
    <3>1. ManifestProven'
      <4> SUFFICES ASSUME NEW n \in DOMAIN tracker \ overlapped
                   PROVE  LET runs == configured[tracker[n].of]
                          IN \/ \E g \in Handlers : applying'[g].name = n /\ applying'[g].body = runs
                             \/ tracker'[n].fingerprint = FingerprintOf(runs)
        BY <2>2, <2>5 DEF ManifestProven
      <4>1. CASE n = name
        BY <2>1, <2>4, <2>5, <4>1
      <4>2. CASE n # name
        <5>1. tracker'[n] = tracker[n]
          BY <2>5, <4>2
        <5>2. CASE \E g \in Handlers : applying[g].name = n /\ applying[g].body = configured[tracker[n].of]
          <6>1. PICK g \in Handlers : applying[g].name = n /\ applying[g].body = configured[tracker[n].of]
            BY <5>2
          <6>2. g # h
            BY <4>2, <6>1 DEF name
          <6> QED
            BY <2>2, <6>1, <6>2
        <5> QED
          BY <5>1, <5>2 DEF Tracked, ManifestProven
      <4> QED
        BY <4>1, <4>2
    <3>9. InHand'
      BY <2>2, <2>5, JobFacts DEF Tracked, InHand
    <3>2. \A n \in DOMAIN tracker' : tracker'[n] \in [of : DOMAIN configured', fingerprint : Prints]
      BY <2>2, <2>3, <2>5
    <3>6. \A n \in DOMAIN tracker : tracker'[n].of = tracker[n].of
      BY <2>5
    <3>7. \A n, m \in DOMAIN tracker : tracker[n].of = tracker[m].of => n = m
      BY DEF Tracked
    <3>8. DOMAIN tracker' = DOMAIN tracker
      BY <2>5
    <3>3. \A n, m \in DOMAIN tracker' : tracker'[n].of = tracker'[m].of => n = m
      BY <3>6, <3>7, <3>8
    <3>4. \A i \in DOMAIN configured' : i \in 1 .. 2 /\ loading' # "peripherals" /\ loading' # "functions"
      BY <2>1, <2>2 DEF Tracked
    <3>5. DOMAIN tracker' \subseteq {"f", "g"}
      BY <2>5 DEF Tracked
    <3> QED
      BY <2>1, <2>2, <3>1, <3>2, <3>3, <3>4, <3>5, <3>9 DEF Tracked
  <2> QED
    BY <2>6, <2>7, <2>8, <2>9
<1> QED
  BY <1>2, <1>3, <1>4, <1>5, <1>6, <1>7, <1>8, <1>9, <1>10 DEF RegistryNext

LEMMA RegistryInvRests == RegistryInv /\ UNCHANGED registryVars => RegistryInv'
<1> SUFFICES ASSUME RegistryInv, UNCHANGED registryVars PROVE RegistryInv'
  OBVIOUS
<1> USE DEF RegistryInv, registryVars
<1>1. making' = making
  OBVIOUS
<1>2. RegistryTypes'
  BY <1>1 DEF RegistryTypes
<1>3. Progress' /\ Made'
  BY <1>1 DEF Progress, Made, Known
<1>4. Recorded' /\ ShutDown'
  BY PeripheralsRest
<1>5. Tracked'
  BY DEF Tracked, InHand, ManifestProven
<1> QED
  BY <1>2, <1>3, <1>4, <1>5

LEMMA RegistryInvImplies == RegistryInv /\ PublishingInv => RegistryTypeOK /\ RegistrySound
<1> SUFFICES ASSUME RegistryInv, PublishingInv PROVE RegistryTypeOK /\ RegistrySound
  OBVIOUS
<1> USE DEF RegistryInv
<1>1. RegistryTypeOK
  BY DEF RegistryTypeOK, RegistryTypes, Jobs, PublishingInv, PublishingTypes, ShutDown
<1>2. /\ Len(peripherals) \in 0 .. 2 /\ DOMAIN peripherals = 1 .. Len(peripherals)
      /\ Len(functions) \in 0 .. 2 /\ DOMAIN functions = 1 .. Len(functions)
  BY RegistryNumbers
<1>3. (initState = "success") = (failures = 0)
  BY DEF Progress
<1>4. loading = "done" /\ initState = "success" =>
       \A kind \in {"peripheral", "function"}:
         LET settings == IF kind = "peripheral" THEN peripherals ELSE functions
         IN \A i \in DOMAIN settings: <<kind, i>> \in products /\ settings[i].name \in DOMAIN instances[kind]
  <2> SUFFICES ASSUME loading = "done", failures = 0
               PROVE  /\ \A i \in DOMAIN peripherals : <<"peripheral", i>> \in products /\ peripherals[i].name \in DOMAIN instances["peripheral"]
                      /\ \A i \in DOMAIN functions : <<"function", i>> \in products /\ functions[i].name \in DOMAIN instances["function"]
    BY <1>3
  <2> QED
    BY <1>2 DEF Made, Known
<1>5. ShutdownWhole
  BY DEF ShutdownWhole, ShutDown, Known
<1> QED
  BY <1>1, <1>3, <1>4, <1>5 DEF RegistrySound, RequestKept, InitReported, Tracked, WatchdogQuiet, PublishingInv, PublishingTypes, PublishingTimes
--------
(* What a boot knows of those before it. *)

Dumps == [by : Firmware \cup {"none"}, sound : BOOLEAN, switched : BOOLEAN]
BootTypes ==
  /\ reason \in Reasons /\ boot \in {"reset", "crashes", "counted", "updated", "published", "ready"}
  /\ magic \in BOOLEAN /\ pending \in BOOLEAN /\ reused \in BOOLEAN /\ unwritten \in BOOLEAN
  /\ firmware \in Firmware /\ ota \in {"stable", "unconfirmed", "failed"} /\ rollback \in {"none", "new"}
  /\ dump \in Dumps

\* A boot adds one to each count at most.
Counts ==
  /\ crashCount \in Nat /\ crashLoop \in Nat /\ nvsCount \in Nat /\ bootsLeft \in 0 .. MaxBoots
  /\ crashCount + bootsLeft <= MaxBoots
  /\ boot = "reset" /\ isCrash(reason) => crashCount + bootsLeft + 1 <= MaxBoots
  /\ nvsCount + bootsLeft <= MaxBoots + 1
  /\ boot \in {"reset", "crashes"} => nvsCount + bootsLeft <= MaxBoots

\* What RAM holds, if it holds anything, is how many crashes led here.
Loop ==
  /\ magic => crashCount = crashLoop
  /\ ~magic => crashLoop = 0
  /\ boot # "reset" => magic
  /\ boot # "reset" => crashLoop \in {0, consecutiveCrashes} /\ (~isCrash(reason) => consecutiveCrashes = 0)

\* While NVS works, each boot is told a count above all those told.
ToldOf ==
  /\ told \subseteq 1 .. MaxBoots + 1
  /\ unwritten \/ told \subseteq 1 .. nvsCount
  /\ reused => unwritten

\* The firmware that a crash would be blamed on, once a rollback has been found.
ToBlame == IF ota = "failed" \/ rollback # "none" THEN "new" ELSE firmware
Blame ==
  /\ ota = "unconfirmed" => firmware = "new"
  /\ ota = "failed" => firmware = "old" /\ rollback = "none"
  /\ rollback # "none" => firmware = "old" /\ ota = "stable"
  /\ boot \in {"reset", "crashes", "counted"} => rollback = "none"
  /\ boot \in {"updated", "published", "ready"} => ota # "failed"
  /\ dump.by # "none" /\ ~dump.switched => dump.by = ToBlame
  /\ report.blames # report.by => report.switched

BootsInv == BootTypes /\ Counts /\ Loop /\ ToldOf /\ Blame

USE DEF Dumps
LEMMA BootsInvInit == BootsInit => BootsInv
<1> SUFFICES ASSUME BootsInit PROVE BootsInv
  OBVIOUS
<1>0. /\ crashCount = 0 /\ crashLoop = 0 /\ nvsCount = 0 /\ bootsLeft = MaxBoots /\ told = {}
      /\ reason = "power on" /\ boot = "reset" /\ firmware = "old" /\ ota = "stable" /\ rollback = "none"
      /\ dump = NoDump /\ report = NoReport
  BY DEF BootsInit
<1>1. magic = FALSE /\ pending = FALSE /\ reused = FALSE /\ unwritten = FALSE
  BY DEF BootsInit
<1>2. dump \in Dumps /\ dump.by = "none"
  BY <1>0 DEF NoDump
<1>3. BootTypes
  <2>1. magic \in BOOLEAN /\ pending \in BOOLEAN /\ reused \in BOOLEAN /\ unwritten \in BOOLEAN
    BY <1>1
  <2> QED
    BY <1>0, <1>2, <2>1 DEF BootTypes, Reasons, Firmware
<1>4. Counts
  <2>1. ~isCrash(reason) /\ boot = "reset"
    BY <1>0 DEF isCrash
  <2>2. \A n \in Nat : n \in 0 .. n /\ 0 + n <= n /\ 0 + n <= n + 1
    OBVIOUS
  <2>3. bootsLeft \in 0 .. MaxBoots /\ 0 + bootsLeft <= MaxBoots /\ 0 + bootsLeft <= MaxBoots + 1
    BY <1>0, <2>2, BootsAssumption
  <2>4. crashCount = 0 /\ crashLoop = 0 /\ nvsCount = 0 /\ 0 \in Nat
    BY <1>0
  <2> QED
    BY <2>1, <2>3, <2>4 DEF Counts
<1>5. Loop /\ ToldOf
  BY <1>0, <1>1 DEF Loop, ToldOf
<1>6. report.blames = report.by
  BY <1>0 DEF NoReport
<1>7. Blame
  BY <1>0, <1>2, <1>6 DEF Blame
<1> QED
  BY <1>3, <1>4, <1>5, <1>7 DEF BootsInv

\* What a reset does to the memory that outlives it, and to the firmware.
LEMMA ResetFacts ==
  ASSUME BootsInv, NEW r \in Reasons, NEW after \in {"stable", "installed", "unconfirmed", "failed"},
         Reset(r, [firmware |-> firmware, ota |-> after])
  PROVE  /\ bootsLeft \in 1 .. MaxBoots /\ bootsLeft' = bootsLeft - 1
         /\ reason' = r /\ boot' = "reset" /\ rollback' = "none" /\ report' = NoReport
         /\ magic' \in BOOLEAN /\ (magic' => magic)
         /\ isCrash(r) \/ r = "software" => magic' = magic
         /\ ~isCrash(r) /\ r # "software" /\ r # "brownout" => ~magic'
         /\ after = "installed" => firmware' = "new" /\ ota' = "unconfirmed"
         /\ after = "unconfirmed" => firmware' = "old" /\ ota' = "failed"
         /\ after \in {"stable", "failed"} => firmware' = firmware /\ ota' = after
<1>1. bootsLeft \in 1 .. MaxBoots /\ bootsLeft' = bootsLeft - 1
  BY BootsAssumption DEF Reset, BootsInv, Counts
<1>2. reason' = r /\ boot' = "reset" /\ rollback' = "none" /\ report' = NoReport
  BY DEF Reset
<1>3. PICK stays \in KeepsRam(r) : magic' = (magic /\ stays)
  BY DEF Reset
<1>4. stays \in BOOLEAN /\ magic \in BOOLEAN
  BY DEF KeepsRam, isCrash, BootsInv, BootTypes
<1>5. isCrash(r) \/ r = "software" => stays
  BY DEF KeepsRam, isCrash
<1>6. ~isCrash(r) /\ r # "software" /\ r # "brownout" => ~stays
  BY DEF KeepsRam
<1>7. /\ after = "installed" => firmware' = "new" /\ ota' = "unconfirmed"
      /\ after = "unconfirmed" => firmware' = "old" /\ ota' = "failed"
      /\ after \in {"stable", "failed"} => firmware' = firmware /\ ota' = after
  BY DEF Reset
<1>8. magic' \in BOOLEAN /\ (magic' => magic) /\ (stays => magic' = magic) /\ (~stays => ~magic')
  BY <1>3, <1>4
<1> QED
  BY <1>1, <1>2, <1>5, <1>6, <1>7, <1>8

\* A dump that waits through a reset.
LEMMA StoredFacts ==
  ASSUME BootsInv, NEW switch \in BOOLEAN, dump' = StoredThrough(switch)
  PROVE  /\ dump' \in Dumps
         /\ dump'.by = dump.by
         /\ dump.by # "none" /\ ~dump'.switched => ~switch /\ ~dump.switched
<1>1. dump \in Dumps
  BY DEF BootsInv, BootTypes
<1>2. CASE dump.by = "none"
  BY <1>1, <1>2 DEF StoredThrough
<1>3. CASE dump.by # "none"
  <2>1. dump' = [dump EXCEPT !.switched = @ \/ switch]
    BY <1>3 DEF StoredThrough
  <2>2. (dump.switched \/ switch) \in BOOLEAN
    BY <1>1
  <2> QED
    BY <1>1, <2>1, <2>2, Zenon
<1> QED
  BY <1>2, <1>3

\* The counts through a reset, if the boots' is left or erased.
LEMMA CountsReset ==
  ASSUME BootsInv, bootsLeft \in 1 .. MaxBoots, bootsLeft' = bootsLeft - 1, boot' = "reset", crashCount' = crashCount,
         crashLoop' \in {0, crashLoop}, nvsCount' \in {0, nvsCount}
  PROVE  Counts'
<1>1. /\ crashCount \in Nat /\ crashLoop \in Nat /\ nvsCount \in Nat /\ MaxBoots \in Nat
      /\ crashCount + bootsLeft <= MaxBoots /\ nvsCount + bootsLeft <= MaxBoots + 1
  BY BootsAssumption DEF BootsInv, Counts
<1>2. crashLoop' \in Nat /\ nvsCount' \in Nat /\ nvsCount' <= nvsCount /\ bootsLeft' \in 0 .. MaxBoots
  BY <1>1
<1>3. crashCount' + bootsLeft' + 1 <= MaxBoots /\ crashCount' + bootsLeft' <= MaxBoots
  BY <1>1
<1>4. nvsCount' + bootsLeft' <= MaxBoots /\ nvsCount' + bootsLeft' <= MaxBoots + 1
  <2>1. nvsCount + bootsLeft' <= MaxBoots
    BY <1>1
  <2>2. nvsCount \in Nat /\ nvsCount' \in Nat /\ bootsLeft' \in Nat /\ MaxBoots \in Nat /\ nvsCount' <= nvsCount
    BY <1>1, <1>2
  <2>3. \A a, b, c, d \in Nat : a <= b /\ b + c <= d => a + c <= d /\ a + c <= d + 1
    OBVIOUS
  <2> QED
    BY <2>1, <2>2, <2>3
<1> QED
  BY <1>1, <1>2, <1>3, <1>4 DEF Counts

LEMMA BootsInvNext == BootsInv /\ BootsNext => BootsInv'
<1> SUFFICES ASSUME BootsInv, BootsNext PROVE BootsInv'
  OBVIOUS
<1>0. /\ ota \in {"stable", "unconfirmed", "failed"} /\ firmware \in Firmware /\ rollback \in {"none", "new"}
      /\ magic \in BOOLEAN /\ pending \in BOOLEAN /\ reused \in BOOLEAN /\ unwritten \in BOOLEAN
  BY DEF BootsInv, BootTypes
<1>1. NoReport.blames = NoReport.by /\ NoDump.by = "none"
      /\ NoDump \in Dumps
  BY DEF NoReport, NoDump
<1>2. CASE Crash
  <2>1. PICK r \in {"panic", "watchdog"} : Reset(r, [firmware |-> firmware, ota |-> ota])
    BY <1>2 DEF Crash
  <2>2. PICK sound \in BOOLEAN : dump' = [by |-> firmware, sound |-> sound, switched |-> ota = "failed"]
    BY <1>2 DEF Crash
  <2>3. crashLoop' = crashLoop /\ UNCHANGED <<crashCount, nvsCount, told, reused, unwritten, pending>>
    BY <1>2 DEF Crash
  <2>4. r \in Reasons /\ isCrash(r)
    BY DEF Reasons, isCrash
  <2>5. /\ bootsLeft \in 1 .. MaxBoots /\ bootsLeft' = bootsLeft - 1
        /\ reason' = r /\ boot' = "reset" /\ rollback' = "none" /\ report' = NoReport
        /\ magic' = magic
        /\ ota = "unconfirmed" => firmware' = "old" /\ ota' = "failed"
        /\ ota \in {"stable", "failed"} => firmware' = firmware /\ ota' = ota
    BY <1>0, <2>1, <2>4, ResetFacts
  <2>6. dump' \in Dumps /\ dump'.by = firmware
        /\ (ota = "failed" => dump'.switched)
    BY <1>0, <2>2
  <2>7. BootTypes'
    <3>1. magic' \in BOOLEAN /\ pending' \in BOOLEAN /\ reused' \in BOOLEAN /\ unwritten' \in BOOLEAN
      BY <1>0, <2>3, <2>5
    <3> QED
      BY <1>0, <2>4, <2>5, <2>6, <3>1 DEF BootTypes, Firmware
  <2>8. Counts'
    BY <2>3, <2>5, CountsReset
  <2>9. Loop' /\ ToldOf'
    BY <2>3, <2>5 DEF BootsInv, Loop, ToldOf
  <2>10. Blame'
    BY <1>0, <1>1, <2>5, <2>6 DEF BootsInv, Blame, ToBlame
  <2> QED
    BY <2>7, <2>8, <2>9, <2>10 DEF BootsInv
<1>3. CASE LosePower
  <2>1. PICK r \in {"power on", "brownout", "deep sleep"} : Reset(r, [firmware |-> firmware, ota |-> ota])
    BY <1>3 DEF LosePower
  <2>2. dump' = StoredThrough(ota = "unconfirmed" \/ rollback # "none")
        /\ crashLoop' = (IF reason' = "brownout" /\ magic' THEN crashLoop ELSE 0)
        /\ UNCHANGED <<crashCount, nvsCount, told, reused, unwritten, pending>>
    BY <1>3 DEF LosePower
  <2>4. r \in Reasons /\ ~isCrash(r) /\ r # "software"
    BY DEF Reasons, isCrash
  <2>5. /\ bootsLeft \in 1 .. MaxBoots /\ bootsLeft' = bootsLeft - 1
        /\ reason' = r /\ boot' = "reset" /\ rollback' = "none" /\ report' = NoReport
        /\ magic' \in BOOLEAN /\ (magic' => magic) /\ (r # "brownout" => ~magic')
        /\ ota = "unconfirmed" => firmware' = "old" /\ ota' = "failed"
        /\ ota \in {"stable", "failed"} => firmware' = firmware /\ ota' = ota
    BY <1>0, <2>1, <2>4, ResetFacts
  <2>6. /\ dump' \in Dumps /\ dump'.by = dump.by
        /\ dump.by # "none" /\ ~dump'.switched => ota # "unconfirmed" /\ rollback = "none" /\ ~dump.switched
    BY <2>2, StoredFacts
  <2>7. BootTypes'
    <3>1. magic' \in BOOLEAN /\ pending' \in BOOLEAN /\ reused' \in BOOLEAN /\ unwritten' \in BOOLEAN
      BY <1>0, <2>2, <2>5
    <3> QED
      BY <1>0, <2>4, <2>5, <2>6, <3>1 DEF BootTypes, Firmware
  <2>8. Counts'
    BY <2>2, <2>5, CountsReset
  <2>11. ToldOf'
    BY <2>2, <2>5 DEF BootsInv, ToldOf
  <2>9. Loop'
    BY <2>2, <2>5 DEF BootsInv, Loop
  <2>10. Blame'
    BY <1>0, <1>1, <2>5, <2>6 DEF BootsInv, Blame, ToBlame
  <2> QED
    BY <2>7, <2>8, <2>9, <2>10, <2>11 DEF BootsInv
<1>4. CASE delayedRestart
  <2>1. boot \in {"updated", "published", "ready"} /\ Reset("software", [firmware |-> firmware, ota |-> ota])
        /\ dump' = StoredThrough(ota = "unconfirmed" \/ rollback # "none") /\ UNCHANGED <<crashCount, crashLoop>>
    BY <1>4 DEF delayedRestart
  <2>2. PICK erase \in {FALSE, boot # "updated"} : performFactoryReset(erase)
    BY <1>4 DEF delayedRestart
  <2>4. "software" \in Reasons /\ ~isCrash("software")
    BY DEF Reasons, isCrash
  <2>5. /\ bootsLeft \in 1 .. MaxBoots /\ bootsLeft' = bootsLeft - 1
        /\ reason' = "software" /\ boot' = "reset" /\ rollback' = "none" /\ report' = NoReport
        /\ magic' = magic
        /\ ota = "unconfirmed" => firmware' = "old" /\ ota' = "failed"
        /\ ota \in {"stable", "failed"} => firmware' = firmware /\ ota' = ota
    BY <1>0, <2>1, <2>4, ResetFacts
  <2>6. /\ dump' \in Dumps /\ dump'.by = dump.by
        /\ dump.by # "none" /\ ~dump'.switched => ota # "unconfirmed" /\ rollback = "none" /\ ~dump.switched
    BY <2>1, StoredFacts
  <2>12. erase \in BOOLEAN
    OBVIOUS
  <2>13. /\ nvsCount' \in {0, nvsCount} /\ (~erase => nvsCount' = nvsCount)
         /\ told' = (IF erase THEN {} ELSE told)
    BY <2>2, <2>12 DEF performFactoryReset
  <2>14. reused' \in BOOLEAN /\ unwritten' \in BOOLEAN /\ pending' \in BOOLEAN
         /\ (reused' <=> reused /\ ~erase) /\ (unwritten' <=> unwritten /\ ~erase)
    BY <1>0, <2>2, <2>12 DEF performFactoryReset
  <2>7. BootTypes'
    <3>1. magic' \in BOOLEAN
      BY <1>0, <2>5
    <3> QED
      BY <1>0, <2>4, <2>5, <2>6, <2>14, <3>1 DEF BootTypes, Firmware
  <2>8. Counts'
    BY <2>1, <2>5, <2>13, CountsReset
  <2>11. ToldOf'
    BY <2>12, <2>13, <2>14 DEF BootsInv, ToldOf
  <2>9. Loop'
    BY <2>1, <2>5 DEF BootsInv, Loop
  <2>10. Blame'
    BY <1>0, <1>1, <2>5, <2>6 DEF BootsInv, Blame, ToBlame
  <2> QED
    BY <2>7, <2>8, <2>9, <2>10, <2>11 DEF BootsInv
<1>5. CASE InstallUpdate
  <2>1. boot = "counted" /\ pending' = FALSE /\ UNCHANGED <<crashCount, crashLoop, nvsCount, told, reused, unwritten>>
    BY <1>5 DEF InstallUpdate
  <2>2. PICK installed \in {FALSE, firmware = "old"} :
          /\ Reset("software", [firmware |-> firmware, ota |-> IF installed THEN "installed" ELSE ota])
          /\ dump' = StoredThrough(installed \/ ota = "unconfirmed")
    BY <1>5 DEF InstallUpdate
  <2>3. installed \in BOOLEAN
    OBVIOUS
  <2> DEFINE after == IF installed THEN "installed" ELSE ota
  <2>12. after \in {"stable", "installed", "unconfirmed", "failed"} /\ (installed => after = "installed") /\ (~installed => after = ota)
    BY <1>0, <2>3
  <2>13. Reset("software", [firmware |-> firmware, ota |-> after])
    BY <2>2
  <2> HIDE DEF after
  <2>4. "software" \in Reasons /\ ~isCrash("software")
    BY DEF Reasons, isCrash
  <2>5. /\ bootsLeft \in 1 .. MaxBoots /\ bootsLeft' = bootsLeft - 1
        /\ reason' = "software" /\ boot' = "reset" /\ rollback' = "none" /\ report' = NoReport
        /\ magic' = magic
        /\ installed => firmware' = "new" /\ ota' = "unconfirmed"
        /\ ~installed /\ ota = "unconfirmed" => firmware' = "old" /\ ota' = "failed"
        /\ ~installed /\ ota \in {"stable", "failed"} => firmware' = firmware /\ ota' = ota
    BY <2>4, <2>12, <2>13, ResetFacts
  <2>6. /\ dump' \in Dumps /\ dump'.by = dump.by
        /\ dump.by # "none" /\ ~dump'.switched => ~installed /\ ota # "unconfirmed" /\ ~dump.switched
    BY <2>2, <2>3, StoredFacts
  <2>7. BootTypes'
    <3>1. magic' \in BOOLEAN /\ pending' \in BOOLEAN /\ reused' \in BOOLEAN /\ unwritten' \in BOOLEAN
      BY <1>0, <2>1, <2>5
    <3> QED
      BY <1>0, <2>3, <2>4, <2>5, <2>6, <3>1 DEF BootTypes, Firmware
  <2>8. Counts'
    BY <2>1, <2>5, CountsReset
  <2>9. Loop' /\ ToldOf'
    BY <2>1, <2>5 DEF BootsInv, Loop, ToldOf
  <2>14. rollback = "none"
    BY <2>1 DEF BootsInv, Blame
  <2>10. Blame'
    BY <1>0, <1>1, <2>3, <2>5, <2>6, <2>14 DEF BootsInv, Blame, ToBlame
  <2> QED
    BY <2>7, <2>8, <2>9, <2>10 DEF BootsInv
<1>6. CASE RecordCrashes
  <2>1. boot = "reset" /\ boot' = "crashes" /\ consecutiveCrashes' = Counted(reason) /\ magic' = TRUE
        /\ crashCount' = consecutiveCrashes' /\ crashLoop' = (IF isCrash(reason) THEN crashLoop + 1 ELSE 0)
        /\ UNCHANGED <<reason, nvsCount, told, reused, unwritten, firmware, ota, pending, rollback, dump, report, bootsLeft>>
    BY <1>6 DEF RecordCrashes
  <2>2. crashCount' = (IF isCrash(reason) THEN (IF magic THEN crashCount ELSE 0) + 1 ELSE 0)
    BY <2>1 DEF Counted
  <2>3. BootTypes'
    <3>1. magic' \in BOOLEAN /\ pending' \in BOOLEAN /\ reused' \in BOOLEAN /\ unwritten' \in BOOLEAN
      BY <1>0, <2>1
    <3> QED
      BY <2>1, <3>1 DEF BootsInv, BootTypes
  <2>4. Counts'
    BY <1>0, <2>1, <2>2, BootsAssumption DEF BootsInv, Counts
  <2>5. Loop'
    <3>1. crashCount' = crashLoop'
      BY <1>0, <2>1, <2>2 DEF BootsInv, Loop, Counts
    <3> QED
      BY <2>1, <2>2, <3>1 DEF Loop
  <2>6. ToldOf' /\ Blame'
    BY <2>1 DEF BootsInv, ToldOf, Blame, ToBlame
  <2> QED
    BY <2>3, <2>4, <2>5, <2>6 DEF BootsInv
<1>7. CASE StayUp
  <2>1. boot # "reset" /\ crashCount > 0 /\ crashCount' = 0 /\ crashLoop' = 0
        /\ UNCHANGED <<reason, boot, magic, consecutiveCrashes, nvsCount, told, reused, unwritten, firmware, ota, pending, rollback, dump, report, bootsLeft>>
    BY <1>7 DEF StayUp
  <2>2. UNCHANGED <<magic, pending, reused, unwritten>>
    BY <2>1
  <2>3. BootTypes'
    BY <2>1, <2>2 DEF BootsInv, BootTypes
  <2>4. Counts'
    BY <2>1, BootsAssumption DEF BootsInv, Counts
  <2>5. Loop' /\ ToldOf' /\ Blame'
    BY <2>1, <2>2 DEF BootsInv, Loop, ToldOf, Blame, ToBlame
  <2> QED
    BY <2>3, <2>4, <2>5 DEF BootsInv
<1>8. CASE RecordBoot
  <2>1. boot = "crashes" /\ boot' = "counted"
        /\ UNCHANGED <<reason, magic, consecutiveCrashes, crashCount, crashLoop, firmware, ota, rollback, dump, report, bootsLeft>>
    BY <1>8 DEF RecordBoot
  <2>2. /\ nvsCount' \in Nat /\ pending' \in BOOLEAN /\ reused' \in BOOLEAN /\ unwritten' \in BOOLEAN
        /\ nvsCount' + bootsLeft <= MaxBoots + 1
        /\ ToldOf'
    <3>1. /\ nvsCount \in Nat /\ bootsLeft \in 0 .. MaxBoots /\ MaxBoots \in Nat /\ nvsCount + bootsLeft <= MaxBoots
      BY <2>1, BootsAssumption DEF BootsInv, Counts
    <3>2. CASE UNCHANGED <<nvsCount, told, reused, unwritten, pending>>
      BY <1>0, <3>1, <3>2 DEF BootsInv, ToldOf
    <3>3. CASE nvsCount' = 1 /\ told' = {1} /\ reused' = FALSE /\ unwritten' = FALSE /\ pending' = FALSE
      <4>1. nvsCount' \in Nat /\ nvsCount' + bootsLeft <= MaxBoots + 1 /\ told' \subseteq 1 .. MaxBoots + 1 /\ told' \subseteq 1 .. nvsCount'
        BY <3>1, <3>3
      <4>2. ~reused' /\ ~unwritten' /\ ~pending'
        BY <3>3
      <4>3. pending' \in BOOLEAN /\ reused' \in BOOLEAN /\ unwritten' \in BOOLEAN
        BY <3>3
      <4> QED
        BY <4>1, <4>2, <4>3 DEF ToldOf
    <3>4. CASE \E found, written \in BOOLEAN :
                 /\ bootCount' = NextCount(found)
                 /\ nvsCount' = (IF written THEN bootCount' ELSE nvsCount)
                 /\ told' = told \cup {bootCount'} /\ reused' = (reused \/ bootCount' \in told)
                 /\ unwritten' = (unwritten \/ ~found \/ ~written)
                 /\ UNCHANGED pending
      <4>1. PICK found \in BOOLEAN, written \in BOOLEAN :
                 /\ bootCount' = NextCount(found)
                 /\ nvsCount' = (IF written THEN bootCount' ELSE nvsCount)
                 /\ told' = told \cup {bootCount'} /\ reused' = (reused \/ bootCount' \in told)
                 /\ unwritten' = (unwritten \/ ~found \/ ~written)
                 /\ UNCHANGED pending
        BY <3>4
      <4>2. bootCount' = (IF found THEN nvsCount ELSE 0) + 1
        BY <4>1 DEF NextCount
      <4>3. bootCount' \in 1 .. nvsCount + 1 /\ bootCount' + bootsLeft <= MaxBoots + 1 /\ bootCount' \in 1 .. MaxBoots + 1
        BY <3>1, <4>2
      <4>4. nvsCount' \in Nat /\ nvsCount' + bootsLeft <= MaxBoots + 1
        BY <3>1, <4>1, <4>3
      <4>5. pending' \in BOOLEAN /\ reused' \in BOOLEAN /\ unwritten' \in BOOLEAN
            /\ (unwritten' <=> unwritten \/ ~found \/ ~written) /\ (reused' <=> reused \/ bootCount' \in told)
        BY <1>0, <4>1
      <4>6. told \subseteq 1 .. MaxBoots + 1 /\ (unwritten \/ told \subseteq 1 .. nvsCount) /\ (reused => unwritten)
        BY DEF BootsInv, ToldOf
      <4>7. told' \subseteq 1 .. MaxBoots + 1
        BY <4>1, <4>3, <4>6
      <4>8. ASSUME ~unwritten' PROVE told' \subseteq 1 .. nvsCount' /\ ~reused'
        <5>1. found /\ written /\ ~unwritten /\ bootCount' = nvsCount + 1 /\ nvsCount' = nvsCount + 1
          BY <4>1, <4>2, <4>5, <4>8
        <5>2. told \subseteq 1 .. nvsCount /\ ~reused
          BY <4>6, <5>1
        <5>3. bootCount' \notin told
          BY <3>1, <5>1, <5>2
        <5>5. bootCount' \in 1 .. nvsCount' /\ 1 .. nvsCount \subseteq 1 .. nvsCount'
          BY <3>1, <5>1
        <5>6. told' = told \cup {bootCount'}
          BY <4>1
        <5>4. told' \subseteq 1 .. nvsCount'
          BY <5>2, <5>5, <5>6
        <5> QED
          BY <4>5, <5>2, <5>3, <5>4
      <4> QED
        BY <4>4, <4>5, <4>7, <4>8 DEF ToldOf
    <3> QED
      BY <1>8, <3>2, <3>3, <3>4 DEF RecordBoot
  <2>3. BootTypes'
    <3>1. magic' \in BOOLEAN
      BY <1>0, <2>1
    <3> QED
      BY <2>1, <2>2, <3>1 DEF BootsInv, BootTypes
  <2>4. Counts'
    BY <2>1, <2>2 DEF BootsInv, Counts
  <2>5. Loop' /\ Blame'
    BY <2>1 DEF BootsInv, Loop, Blame, ToBlame
  <2> QED
    BY <2>2, <2>3, <2>4, <2>5 DEF BootsInv
<1>9. CASE DetectRollback
  <2>1. boot = "counted" /\ boot' = "updated"
        /\ UNCHANGED <<reason, magic, consecutiveCrashes, crashCount, crashLoop, nvsCount, told, reused, unwritten, firmware, pending, dump, report, bootsLeft>>
        /\ IF ota = "failed" THEN rollback' = "new" /\ ota' = "stable" ELSE rollback' = rollback /\ ota' = ota
    BY <1>9 DEF DetectRollback
  <2>2. UNCHANGED <<magic, pending, reused, unwritten>>
    BY <2>1
  <2>3. BootTypes'
    BY <1>0, <2>1, <2>2 DEF BootsInv, BootTypes
  <2>4. Counts' /\ Loop' /\ ToldOf'
    BY <2>1, <2>2 DEF BootsInv, Counts, Loop, ToldOf
  <2>5. Blame'
    BY <1>0, <2>1 DEF BootsInv, Blame, ToBlame
  <2> QED
    BY <2>3, <2>4, <2>5 DEF BootsInv
<1>10. CASE publishBootMessage
  <2>1. boot = "updated" /\ boot' = "published" /\ dump' \in {NoDump, dump}
        /\ UNCHANGED <<reason, magic, consecutiveCrashes, crashCount, crashLoop, nvsCount, told, reused, unwritten, firmware, ota, pending, rollback, bootsLeft>>
        /\ report' \in {NoReport} \cup
             (IF dump.by # "none" /\ dump.sound THEN {[blames |-> Blamed, by |-> dump.by, switched |-> dump.switched]} ELSE {})
    BY <1>10 DEF publishBootMessage
  <2>2. UNCHANGED <<magic, pending, reused, unwritten>>
    BY <2>1
  <2>3. BootTypes'
    BY <1>1, <2>1, <2>2 DEF BootsInv, BootTypes
  <2>4. Counts' /\ Loop' /\ ToldOf'
    BY <2>1, <2>2 DEF BootsInv, Counts, Loop, ToldOf
  <2>6. report'.blames # report'.by => report'.switched
    <3>1. CASE report' = NoReport
      BY <1>1, <3>1
    <3>2. CASE dump.by # "none" /\ report' = [blames |-> Blamed, by |-> dump.by, switched |-> dump.switched]
      <4>1. Blamed = ToBlame
        BY <1>0, <2>1 DEF Blamed, ToBlame, BootsInv, Blame
      <4>2. ~dump.switched => dump.by = ToBlame
        BY <3>2 DEF BootsInv, Blame
      <4> QED
        BY <3>2, <4>1, <4>2
    <3> QED
      BY <2>1, <3>1, <3>2
  <2>5. Blame'
    BY <1>0, <1>1, <2>1, <2>6 DEF BootsInv, Blame, ToBlame
  <2> QED
    BY <2>3, <2>4, <2>5 DEF BootsInv
<1>11. CASE confirmFirmwareValid
  <2>1. boot = "published" /\ boot' = "ready" /\ ota' = (IF ota = "unconfirmed" THEN "stable" ELSE ota)
        /\ UNCHANGED <<reason, magic, consecutiveCrashes, crashCount, crashLoop, nvsCount, told, reused, unwritten, firmware, pending, rollback, dump, report, bootsLeft>>
    BY <1>11 DEF confirmFirmwareValid
  <2>2. UNCHANGED <<magic, pending, reused, unwritten>>
    BY <2>1
  <2>3. BootTypes'
    BY <1>0, <2>1, <2>2 DEF BootsInv, BootTypes
  <2>4. Counts' /\ Loop' /\ ToldOf'
    BY <2>1, <2>2 DEF BootsInv, Counts, Loop, ToldOf
  <2>5. Blame'
    BY <1>0, <2>1 DEF BootsInv, Blame, ToBlame
  <2> QED
    BY <2>3, <2>4, <2>5 DEF BootsInv
<1>12. CASE Command
  <2>1. boot \in {"updated", "published", "ready"}
        /\ UNCHANGED <<reason, boot, magic, crashCount, crashLoop, told, reused, firmware, ota, rollback, dump, report, bootsLeft>>
        /\ UNCHANGED consecutiveCrashes
    BY <1>12 DEF Command, bootVars
  <2>2. /\ nvsCount' \in 0 .. nvsCount /\ unwritten' \in BOOLEAN /\ pending' \in BOOLEAN
        /\ (nvsCount' = nvsCount \/ unwritten') /\ (unwritten => unwritten')
    <3>1. nvsCount \in Nat
      BY DEF BootsInv, Counts
    <3>2. CASE pending' = TRUE /\ UNCHANGED <<nvsCount, unwritten>>
      BY <1>0, <3>1, <3>2
    <3>3. CASE unwritten' = TRUE /\ nvsCount' \in 0 .. nvsCount /\ UNCHANGED pending
      BY <1>0, <3>3
    <3> QED
      BY <1>12, <3>2, <3>3 DEF Command
  <2>3. BootTypes'
    <3>1. magic' \in BOOLEAN /\ reused' \in BOOLEAN
      BY <1>0, <2>1
    <3> QED
      BY <2>1, <2>2, <3>1 DEF BootsInv, BootTypes
  <2>4. Counts'
    <3>1. /\ crashCount \in Nat /\ crashLoop \in Nat /\ nvsCount \in Nat /\ bootsLeft \in 0 .. MaxBoots
          /\ crashCount + bootsLeft <= MaxBoots /\ nvsCount + bootsLeft <= MaxBoots + 1 /\ MaxBoots \in Nat
      BY BootsAssumption DEF BootsInv, Counts
    <3>2. nvsCount' \in Nat /\ nvsCount' <= nvsCount
      BY <2>2, <3>1
    <3>5. \A a, b, c, d \in Nat : a <= b /\ b + c <= d + 1 => a + c <= d + 1
      OBVIOUS
    <3>6. bootsLeft \in Nat
      BY <3>1
    <3>3. nvsCount' + bootsLeft <= MaxBoots + 1
      BY <3>1, <3>2, <3>5, <3>6, Zenon
    <3>4. /\ crashCount' = crashCount /\ crashLoop' = crashLoop /\ bootsLeft' = bootsLeft
          /\ boot' \notin {"reset", "crashes"}
      BY <2>1
    <3> QED
      BY <3>1, <3>2, <3>3, <3>4 DEF Counts
  <2>5. Loop' /\ ToldOf'
    BY <2>1, <2>2 DEF BootsInv, Loop, ToldOf
  <2>6. Blame'
    BY <2>1 DEF BootsInv, Blame, ToBlame
  <2> QED
    BY <2>3, <2>4, <2>5, <2>6 DEF BootsInv
<1> QED
  BY <1>2, <1>3, <1>4, <1>5, <1>6, <1>7, <1>8, <1>9, <1>10, <1>11, <1>12 DEF BootsNext

LEMMA BootsInvRests == BootsInv /\ UNCHANGED bootVars => BootsInv'
<1> SUFFICES ASSUME BootsInv, UNCHANGED bootVars PROVE BootsInv'
  OBVIOUS
<1>1. UNCHANGED <<magic, pending, reused, unwritten>>
  BY DEF bootVars
<1>2. BootTypes'
  BY <1>1 DEF BootsInv, BootTypes, bootVars
<1>3. Counts' /\ Loop' /\ ToldOf' /\ Blame'
  BY <1>1 DEF BootsInv, Counts, Loop, ToldOf, Blame, ToBlame, bootVars
<1> QED
  BY <1>2, <1>3 DEF BootsInv

LEMMA BootsInvImplies == BootsInv => BootsTypeOK /\ BootsSound
<1> SUFFICES ASSUME BootsInv PROVE BootsTypeOK /\ BootsSound
  OBVIOUS
<1>1. crashCount \in 0 .. MaxBoots /\ nvsCount \in 0 .. MaxBoots + 1
  BY BootsAssumption DEF BootsInv, Counts
<1>2. BootsTypeOK
  BY <1>1 DEF BootsInv, BootTypes, ToldOf, BootsTypeOK
<1> QED
  BY <1>2 DEF BootsInv, Loop, ToldOf, Blame, BootsSound, CrashesCounted, BootsToldApart, RightlyBlamed
HIDE DEF Dumps
--------
(* The LED, the buzzer and the motor. *)

StatusInv ==
  /\ bits \subseteq States /\ changed \in BOOLEAN /\ clearing \in BOOLEAN /\ lit \in BOOLEAN
  /\ asking \in 0 .. 6 /\ Len(patternQueue) <= 1
  /\ changesLeft \in 0 .. MaxStateChanges

LEMMA StatusInvInit == StatusInit => StatusInv
<1> SUFFICES ASSUME StatusInit PROVE StatusInv
  OBVIOUS
<1>1. bits = {} /\ asking = 1 /\ patternQueue = <<>> /\ changesLeft = MaxStateChanges
  BY DEF StatusInit
<1>2. changed \in BOOLEAN /\ clearing \in BOOLEAN /\ lit \in BOOLEAN
  BY DEF StatusInit
<1>3. changesLeft \in 0 .. MaxStateChanges
  BY <1>1, IndicatorsAssumption
<1> QED
  BY <1>1, <1>2, <1>3 DEF StatusInv

LEMMA StatusInvNext == StatusInv /\ StatusNext => StatusInv'
<1> SUFFICES ASSUME StatusInv, StatusNext PROVE StatusInv'
  OBVIOUS
<1>0. MaxStateChanges \in Nat
  BY IndicatorsAssumption
<1>1. changed \in BOOLEAN /\ clearing \in BOOLEAN /\ lit \in BOOLEAN
  BY DEF StatusInv
<1>2. CASE set \/ ClearBit
  <2>1. /\ changesLeft > 0 /\ changesLeft' = changesLeft - 1
        /\ \E s \in States: bits' = bits \cup {s} \/ bits' = bits \ {s}
        /\ UNCHANGED <<asking, patternQueue, lit>>
    BY <1>2 DEF set, ClearBit
  <2>2. changed' \in BOOLEAN /\ clearing' \in BOOLEAN /\ lit' \in BOOLEAN
    BY <1>1, <1>2 DEF set, ClearBit
  <2>3. changesLeft' \in 0 .. MaxStateChanges
    BY <1>0, <2>1 DEF StatusInv
  <2>4. bits' \subseteq States
    BY <2>1 DEF StatusInv
  <2> QED
    BY <2>1, <2>2, <2>3, <2>4 DEF StatusInv
<1>3. CASE SignalCleared
  <2>2. changed' \in BOOLEAN /\ clearing' \in BOOLEAN /\ lit' \in BOOLEAN
    BY <1>1, <1>3 DEF SignalCleared
  <2> QED
    BY <1>3, <2>2 DEF StatusInv, SignalCleared
<1>4. CASE isSet
  <2>1. UNCHANGED <<bits, changed, clearing, patternQueue, pattern, lit, changesLeft>>
    BY <1>4 DEF isSet
  <2>2. changed' \in BOOLEAN /\ clearing' \in BOOLEAN /\ lit' \in BOOLEAN
    BY <1>1, <2>1
  <2>3. asking \in 1 .. 6 /\ Len(Asked) = 6
    BY <1>4 DEF isSet, Asked
  <2>4. asking' = 0 \/ (asking # 6 /\ asking' = asking + 1)
    <3> DEFINE state == Asked[asking]
    <3> HIDE DEF state
    <3>1. IF Decides(state, state \in bits) THEN Shows(Kernel(state))
          ELSE IF asking = Len(Asked) THEN Shows("Idle")
          ELSE asking' = asking + 1 /\ UNCHANGED <<kernel, putting>>
      BY <1>4 DEF isSet, state
    <3> QED
      BY <2>3, <3>1 DEF Shows
  <2>5. asking' \in 0 .. 6
    BY <2>3, <2>4
  <2> QED
    BY <2>1, <2>2, <2>5 DEF StatusInv
<1>5. CASE setPattern
  <2>2. changed' \in BOOLEAN /\ clearing' \in BOOLEAN /\ lit' \in BOOLEAN
    BY <1>1, <1>5 DEF setPattern
  <2> QED
    BY <1>5, <2>2 DEF StatusInv, setPattern
<1>6. CASE awaitStateChange
  <2>2. changed' \in BOOLEAN /\ clearing' \in BOOLEAN /\ lit' \in BOOLEAN
    BY <1>1, <1>6 DEF awaitStateChange
  <2> QED
    BY <1>6, <2>2 DEF StatusInv, awaitStateChange
<1>7. CASE handleIteration
  <2>1. UNCHANGED <<bits, changed, clearing, asking, changesLeft>>
    BY <1>7 DEF handleIteration
  <2>2. changed' \in BOOLEAN /\ clearing' \in BOOLEAN
    BY <1>1, <2>1
  <2>3. patternQueue' = <<>> \/ patternQueue' = patternQueue
    BY <1>7 DEF handleIteration
  <2>4. lit' \in BOOLEAN
    <3>1. CASE patternQueue # <<>>
      BY <1>7, <3>1 DEF handleIteration
    <3>2. CASE patternQueue = <<>>
      BY <1>1, <1>7, <3>2 DEF handleIteration
    <3> QED
      BY <3>1, <3>2
  <2> QED
    BY <2>1, <2>2, <2>3, <2>4 DEF StatusInv
<1> QED
  BY <1>2, <1>3, <1>4, <1>5, <1>6, <1>7 DEF StatusNext, StatusTasks

LEMMA StatusInvRests == StatusInv /\ UNCHANGED statusVars => StatusInv'
<1> SUFFICES ASSUME StatusInv, UNCHANGED statusVars PROVE StatusInv'
  OBVIOUS
<1>1. changed' = changed /\ clearing' = clearing /\ lit' = lit
  BY DEF statusVars
<1> QED
  BY <1>1 DEF StatusInv, statusVars

\* Who holds the buzzer's mutex, and what is powered when.
OutputsInv ==
  /\ buzzing \in {"no", "acquiring", "sounding"} /\ lock \in {"free", "buzz", "stop"}
  /\ stopTimer \in BOOLEAN /\ stopDue \in BOOLEAN /\ sleepLock \in BOOLEAN
  /\ stage \in 0 .. 1 /\ duty \in 0 .. 1 /\ inputs \in {"low", "driven", "braked"}
  /\ held \subseteq {"buzzer", "motor"} /\ driving \in {"no", "driven", "braked", "stopping"}
  /\ lock = "buzz" <=> buzzing # "no"
  /\ lock = "stop" <=> stage = 1
  /\ stage = 1 => duty = 0
  /\ buzzing = "sounding" \/ duty > 0 => "buzzer" \in held /\ sleepLock
  /\ driving \in {"driven", "braked"} \/ inputs # "low" => "motor" \in held
  /\ driving = "stopping" => inputs = "low"

LEMMA OutputsInvInit == OutputsInit => OutputsInv
<1> SUFFICES ASSUME OutputsInit PROVE OutputsInv
  OBVIOUS
<1>1. stopTimer \in BOOLEAN /\ stopDue \in BOOLEAN /\ sleepLock \in BOOLEAN
  BY DEF OutputsInit
<1>2. /\ buzzing = "no" /\ lock = "free" /\ stage = 0 /\ duty = 0 /\ inputs = "low" /\ held = {} /\ driving = "no"
  BY DEF OutputsInit
<1>3. ~(duty > 0) /\ stage \in 0 .. 1 /\ duty \in 0 .. 1 /\ stage # 1
  BY <1>2
<1> QED
  BY <1>1, <1>2, <1>3 DEF OutputsInv

LEMMA OutputsInvNext == OutputsInv /\ OutputsNext => OutputsInv'
<1> SUFFICES ASSUME OutputsInv, OutputsNext PROVE OutputsInv'
  OBVIOUS
<1>0. stopTimer \in BOOLEAN /\ stopDue \in BOOLEAN /\ sleepLock \in BOOLEAN
  BY DEF OutputsInv
<1>1. CASE Buzz
  <2>1. stopTimer' \in BOOLEAN /\ stopDue' \in BOOLEAN /\ sleepLock' \in BOOLEAN /\ (sleepLock' <=> sleepLock)
    BY <1>0, <1>1 DEF Buzz
  <2> QED
    BY <1>1, <2>1 DEF OutputsInv, Buzz
<1>2. CASE AcquireForBuzz
  <2>1. stopTimer' \in BOOLEAN /\ stopDue' \in BOOLEAN /\ sleepLock' \in BOOLEAN /\ sleepLock'
    BY <1>0, <1>2 DEF AcquireForBuzz
  <2> QED
    BY <1>2, <2>1 DEF OutputsInv, AcquireForBuzz
<1>3. CASE Sound
  <2>1. stopTimer' \in BOOLEAN /\ stopDue' \in BOOLEAN /\ sleepLock' \in BOOLEAN /\ (sleepLock' <=> sleepLock)
    BY <1>0, <1>3 DEF Sound
  <2> QED
    BY <1>3, <2>1 DEF OutputsInv, Sound
<1>4. CASE TimerFires
  <2>1. stopTimer' \in BOOLEAN /\ stopDue' \in BOOLEAN /\ sleepLock' \in BOOLEAN /\ (sleepLock' <=> sleepLock)
    BY <1>0, <1>4 DEF TimerFires
  <2> QED
    BY <1>4, <2>1 DEF OutputsInv, TimerFires
<1>5. CASE Stop
  <2>1. stopTimer' \in BOOLEAN /\ stopDue' \in BOOLEAN /\ sleepLock' \in BOOLEAN /\ (sleepLock' <=> sleepLock)
    BY <1>0, <1>5 DEF Stop
  <2> QED
    BY <1>5, <2>1 DEF OutputsInv, Stop, MayStop
<1>6. CASE ReleaseBuzzer
  <2>1. stopTimer' \in BOOLEAN /\ stopDue' \in BOOLEAN /\ sleepLock' \in BOOLEAN
    BY <1>0, <1>6 DEF ReleaseBuzzer
  <2> QED
    BY <1>6, <2>1 DEF OutputsInv, ReleaseBuzzer
<1>7. CASE drive \/ WriteInputs \/ StopMotor \/ ReleaseMotor
  <2>1. UNCHANGED <<buzzing, lock, stopTimer, stopDue, stage, duty, sleepLock>>
    BY <1>7 DEF drive, WriteInputs, StopMotor, ReleaseMotor
  <2>2. stopTimer' \in BOOLEAN /\ stopDue' \in BOOLEAN /\ sleepLock' \in BOOLEAN /\ (sleepLock' <=> sleepLock)
    BY <1>0, <2>1
  <2>3. CASE drive
    BY <2>1, <2>2, <2>3 DEF OutputsInv, drive
  <2>4. CASE WriteInputs
    BY <2>1, <2>2, <2>4 DEF OutputsInv, WriteInputs
  <2>5. CASE StopMotor
    BY <2>1, <2>2, <2>5 DEF OutputsInv, StopMotor
  <2>6. CASE ReleaseMotor
    BY <2>1, <2>2, <2>6 DEF OutputsInv, ReleaseMotor
  <2> QED
    BY <1>7, <2>3, <2>4, <2>5, <2>6
<1> QED
  BY <1>1, <1>2, <1>3, <1>4, <1>5, <1>6, <1>7 DEF OutputsNext, BuzzerTasks

LEMMA OutputsInvRests == OutputsInv /\ UNCHANGED outputVars => OutputsInv'
<1> SUFFICES ASSUME OutputsInv, UNCHANGED outputVars PROVE OutputsInv'
  OBVIOUS
<1>1. stopTimer' = stopTimer /\ stopDue' = stopDue /\ sleepLock' = sleepLock
  BY DEF outputVars
<1> QED
  BY <1>1 DEF OutputsInv, outputVars

LEMMA IndicatorsImplied == StatusInv /\ OutputsInv => IndicatorsTypeOK /\ OutputsSound
<1> SUFFICES ASSUME StatusInv, OutputsInv PROVE IndicatorsTypeOK /\ OutputsSound
  OBVIOUS
<1>1. Len(Asked) = 6 /\ Len(patternQueue) <= 1
  BY DEF Asked, StatusInv
<1>2. {changed, clearing, lit} \subseteq BOOLEAN /\ {stopTimer, stopDue, sleepLock} \subseteq BOOLEAN
  BY DEF StatusInv, OutputsInv
<1>3. IndicatorsTypeOK
  BY <1>1, <1>2 DEF IndicatorsTypeOK, StatusInv, OutputsInv
<1> QED
  BY <1>3 DEF OutputsSound, OutputsInv
--------
(* The Spadefoot Toad. *)

LEMMA ToadNumbers == MeasurementTime \in Nat \ {0} /\ MaxOperations \in Nat \ {0}
  BY ToadAssumption

ToadDoings == {"uninitialized", "nothing", "starting", "waiting"}
Calibrations == {"calibrate", "factory-reset"}

Runs == [runs : Commands \cup {"none"}, age : 0 .. MeasurementTime]
ToadTypes ==
  /\ railKept \in BOOLEAN /\ meddled \in BOOLEAN
  /\ doing \in [Users -> ToadDoings] /\ left \in [Users -> 0 .. MeasurementTime]
  /\ command \in Commands /\ probe \in Runs
  /\ result \in {"none", "old", "new"} /\ moisture \in {"nan", "new", "unsure"}

\* Of whoever is yet to hear from the probe: it waits for as long as the probe may take.
Awaited(u) == doing[u] = "waiting" /\ probe.age + left[u] = MeasurementTime

\* A calibration runs while the command waits for it, and what was measured before the trigger is there
\* while the trigger runs, or a command has meddled.
ToadInv ==
  /\ ToadTypes
  /\ eeprom = "whole"
  /\ doing["commands"] # "uninitialized"
  /\ doing["measurement"] = "uninitialized" => doing["commands"] = "nothing" /\ probe.runs = "none" /\ result = "none"
  /\ probe.age < MeasurementTime
  /\ probe.runs \in Calibrations => Awaited("commands")
  /\ result = "old" => meddled \/ (probe.runs = "trigger" /\ Awaited("measurement"))

USE DEF Runs
LEMMA ToadInvInit == ToadInit => ToadInv
<1> SUFFICES ASSUME ToadInit PROVE ToadInv
  OBVIOUS
<1>1. doing = [measurement |-> "uninitialized", commands |-> "nothing"] /\ probe = [runs |-> "none", age |-> 0]
      /\ left = [u \in Users |-> 0] /\ command = "trigger" /\ result = "none" /\ moisture = "nan" /\ eeprom = "whole"
  BY DEF ToadInit
<1>2. railKept \in BOOLEAN /\ meddled \in BOOLEAN
  BY DEF ToadInit
<1>3. doing \in [Users -> ToadDoings]
  BY <1>1 DEF Users, ToadDoings
<1>4. left \in [Users -> 0 .. MeasurementTime] /\ probe \in Runs
  BY <1>1, ToadNumbers DEF Commands
<1>5. probe.age < MeasurementTime /\ probe.runs = "none" /\ doing["commands"] # "uninitialized"
  BY <1>1, ToadNumbers
<1> QED
  BY <1>1, <1>2, <1>3, <1>4, <1>5 DEF ToadInv, ToadTypes, Commands, Calibrations

\* The session "u" ends, or a batch does, and may be the last to hold the rail.
LEMMA ToadLosesPower ==
  ASSUME ToadInv, NEW goes \in BOOLEAN, LosesPower(goes),
         goes => probe.runs \notin Calibrations
  PROVE  /\ eeprom' = "whole"
         /\ probe' = (IF goes THEN [runs |-> "none", age |-> 0] ELSE probe)
         /\ result' = (IF goes THEN "none" ELSE result)
         /\ probe' \in Runs
         /\ probe'.age < MeasurementTime
         /\ goes => probe'.runs = "none"
<1>1. probe' = (IF goes THEN [runs |-> "none", age |-> 0] ELSE probe) /\ result' = (IF goes THEN "none" ELSE result)
  BY DEF LosesPower
<1>2. eeprom' = "whole"
  BY DEF LosesPower, ToadInv, Calibrations
<1>3. CASE goes
  BY <1>1, <1>2, <1>3, ToadNumbers DEF Commands
<1>4. CASE ~goes
  BY <1>1, <1>2, <1>4 DEF ToadInv, ToadTypes
<1> QED
  BY <1>3, <1>4

LEMMA ToadInvNext == ToadInv /\ ToadNext => ToadInv'
<1> SUFFICES ASSUME ToadInv, ToadNext PROVE ToadInv'
  OBVIOUS
<1>0. /\ doing \in [Users -> ToadDoings] /\ left \in [Users -> 0 .. MeasurementTime]
      /\ probe \in Runs
      /\ command \in Commands /\ result \in {"none", "old", "new"} /\ moisture \in {"nan", "new", "unsure"}
      /\ railKept \in BOOLEAN /\ meddled \in BOOLEAN
      /\ probe.runs \in Commands \cup {"none"} /\ probe.age \in 0 .. MeasurementTime
  BY DEF ToadInv, ToadTypes
<1>a. "measurement" \in Users /\ "commands" \in Users /\ Users = {"measurement", "commands"}
  BY DEF Users
\* What ends a session.
<1>b. ASSUME NEW u \in Users, Release(u), doing[u] # "uninitialized",
             UNCHANGED <<railKept, left, command, meddled>>,
             moisture' \in {"nan", "new", "unsure"},
             doing[u] = "waiting" => left[u] = 0
      PROVE  ToadInv'
  <2> DEFINE goes == ~railKept /\ \A other \in Users \ {u} : doing[other] \in AtRest
  <2>1. doing' = [doing EXCEPT ![u] = "nothing"] /\ LosesPower(goes) /\ goes \in BOOLEAN
    BY <1>b DEF Release
  <2>2. probe.runs \in Calibrations => doing["commands"] = "waiting" /\ left["commands"] # 0 /\ u = "measurement"
    BY <1>0, <1>a, <1>b, ToadNumbers DEF ToadInv, Awaited
  <2>3. goes => probe.runs \notin Calibrations
    BY <1>a, <2>2 DEF AtRest
  <2> HIDE DEF goes
  <2>4. /\ eeprom' = "whole" /\ probe' = (IF goes THEN [runs |-> "none", age |-> 0] ELSE probe)
        /\ result' = (IF goes THEN "none" ELSE result)
        /\ probe' \in Runs
        /\ probe'.age < MeasurementTime
        /\ goes => probe'.runs = "none"
    BY <2>1, <2>3, ToadLosesPower
  <2>5. doing' \in [Users -> ToadDoings] /\ doing'[u] = "nothing" /\ \A v \in Users : v # u => doing'[v] = doing[v]
    BY <1>0, <2>1 DEF ToadDoings
  <2>6. ToadTypes'
    BY <1>0, <1>b, <2>4, <2>5 DEF ToadTypes
  <2>7. doing'["commands"] # "uninitialized"
    BY <1>a, <2>5 DEF ToadInv
  <2>8. doing'["measurement"] = "uninitialized" => doing'["commands"] = "nothing" /\ probe'.runs = "none" /\ result' = "none"
    BY <1>a, <2>4, <2>5 DEF ToadInv
  <2>9. probe'.runs \in Calibrations => Awaited("commands")'
    <3> SUFFICES ASSUME probe'.runs \in Calibrations PROVE Awaited("commands")'
      OBVIOUS
    <3>1. ~goes /\ probe' = probe /\ probe.runs \in Calibrations
      BY <2>4 DEF Calibrations
    <3>2. doing'["commands"] = doing["commands"]
      BY <1>a, <2>2, <2>5, <3>1
    <3> QED
      BY <1>b, <3>1, <3>2 DEF ToadInv, Awaited
  <2>10. result' = "old" => meddled' \/ (probe'.runs = "trigger" /\ Awaited("measurement")')
    <3> SUFFICES ASSUME result' = "old", ~meddled' PROVE probe'.runs = "trigger" /\ Awaited("measurement")'
      OBVIOUS
    <3>1. ~goes /\ probe' = probe /\ result = "old" /\ ~meddled
      BY <1>b, <2>4
    <3>2. probe.runs = "trigger" /\ Awaited("measurement")
      BY <3>1 DEF ToadInv
    <3>3. left["measurement"] # 0
      BY <1>0, <3>2, ToadNumbers DEF ToadInv, Awaited
    <3>4. u # "measurement"
      BY <1>b, <3>2, <3>3 DEF Awaited
    <3> QED
      BY <1>a, <1>b, <2>5, <3>1, <3>2, <3>4 DEF Awaited
  <2> QED
    BY <2>4, <2>6, <2>7, <2>8, <2>9, <2>10 DEF ToadInv
\* What is sent to the probe.
<1>c. ASSUME NEW u \in Users, NEW cmd \in Commands, Sent(u, cmd), doing[u] # "uninitialized",
             doing["measurement"] # "uninitialized",
             UNCHANGED <<railKept, command, moisture, eeprom>>,
             result' \in {"none", "old", "new"}, meddled' \in BOOLEAN,
             cmd \in Calibrations => u = "commands",
             result' = "old" => meddled' \/ (cmd = "trigger" /\ u = "measurement")
      PROVE  ToadInv'
  <2>1. /\ probe' = [runs |-> cmd, age |-> 0] /\ left' = [left EXCEPT ![u] = MeasurementTime]
        /\ doing' = [doing EXCEPT ![u] = "waiting"]
    BY <1>c DEF Sent
  <2>2. probe' \in Runs /\ probe'.runs = cmd /\ probe'.age = 0
    BY <2>1, ToadNumbers
  <2>3. /\ left' \in [Users -> 0 .. MeasurementTime] /\ left'[u] = MeasurementTime
        /\ doing' \in [Users -> ToadDoings] /\ doing'[u] = "waiting" /\ \A v \in Users : v # u => doing'[v] = doing[v]
    BY <1>0, <2>1, ToadNumbers DEF ToadDoings
  <2>4. ToadTypes'
    BY <1>0, <1>c, <2>2, <2>3 DEF ToadTypes
  <2>5. Awaited(u)' /\ probe'.age < MeasurementTime
    BY <2>2, <2>3, ToadNumbers DEF Awaited
  <2>6. doing'["commands"] # "uninitialized" /\ doing'["measurement"] # "uninitialized"
    BY <1>a, <1>c, <2>3 DEF ToadInv
  <2> QED
    BY <1>c, <2>2, <2>4, <2>5, <2>6 DEF ToadInv
<1>1. CASE initializeProtocol
  <2> DEFINE goes == ~railKept
  <2>1. /\ doing["measurement"] = "uninitialized" /\ doing' = [doing EXCEPT !["measurement"] = "nothing"] /\ LosesPower(goes)
        /\ left' = left /\ command' = command /\ moisture' = moisture /\ goes \in BOOLEAN
    BY <1>0, <1>1 DEF initializeProtocol
  <2>a. railKept' = railKept /\ meddled' = meddled
    BY <1>1 DEF initializeProtocol
  <2>2. probe.runs = "none" /\ result = "none" /\ probe.runs \notin Calibrations
    BY <2>1 DEF ToadInv, Calibrations
  <2> HIDE DEF goes
  <2>3. /\ eeprom' = "whole" /\ probe' \in Runs
        /\ probe'.age < MeasurementTime /\ probe'.runs = "none" /\ result' = "none"
    BY <2>1, <2>2, ToadLosesPower
  <2>4. doing' \in [Users -> ToadDoings] /\ doing'["commands"] = doing["commands"] /\ doing'["measurement"] = "nothing"
    BY <1>0, <1>a, <2>1 DEF ToadDoings
  <2>5. ToadTypes'
    BY <1>0, <2>1, <2>a, <2>3, <2>4 DEF ToadTypes
  <2> QED
    BY <2>3, <2>4, <2>5 DEF ToadInv, Calibrations
<1>2. CASE ToadBatchStarts
  <2>1. /\ UNCHANGED <<doing, left, command, probe, eeprom, result>>
        /\ moisture' = moisture
    BY <1>2 DEF ToadBatchStarts
  <2>2. railKept' \in BOOLEAN /\ meddled' = meddled
    BY <1>2 DEF ToadBatchStarts
  <2> QED
    BY <2>1, <2>2 DEF ToadInv, ToadTypes, Awaited
<1>3. CASE ToadBatchEnds
  <2> DEFINE goes == \A u \in Users : doing[u] \in AtRest
  <2>1. LosesPower(goes) /\ UNCHANGED <<doing, left, command, moisture>> /\ goes \in BOOLEAN
    BY <1>3 DEF ToadBatchEnds
  <2>a. railKept' \in BOOLEAN /\ meddled' = meddled
    BY <1>3 DEF ToadBatchEnds
  <2>2. goes => probe.runs \notin Calibrations
    BY <1>a DEF ToadInv, Awaited, AtRest
  <2> HIDE DEF goes
  <2>3. /\ eeprom' = "whole" /\ probe' = (IF goes THEN [runs |-> "none", age |-> 0] ELSE probe)
        /\ result' = (IF goes THEN "none" ELSE result)
        /\ probe' \in Runs /\ probe'.age < MeasurementTime
        /\ goes => probe'.runs = "none"
    BY <2>1, <2>2, ToadLosesPower
  <2>4. ToadTypes'
    BY <1>0, <2>1, <2>a, <2>3 DEF ToadTypes
  <2>5. CASE goes
    BY <2>1, <2>3, <2>4, <2>5 DEF ToadInv, Calibrations
  <2>6. CASE ~goes
    <3>1. probe' = probe /\ result' = result
      BY <2>3, <2>6
    <3> QED
      BY <2>1, <2>a, <2>3, <2>4, <3>1 DEF ToadInv, Awaited
  <2> QED
    BY <2>5, <2>6
<1>4. CASE ProbeDone
  <2>1. /\ probe.runs # "none" /\ probe' = [runs |-> "none", age |-> 0] /\ result' = "new"
        /\ UNCHANGED <<doing, left, command, eeprom, moisture>>
    BY <1>4 DEF ProbeDone
  <2>2. railKept' = railKept /\ meddled' = meddled
    BY <1>4 DEF ProbeDone
  <2>3. probe' \in Runs /\ probe'.runs = "none" /\ probe'.age = 0
    BY <2>1, ToadNumbers
  <2> QED
    BY <2>1, <2>2, <2>3, ToadNumbers DEF ToadInv, ToadTypes, Calibrations
<1>5. CASE Tick
  <2>1. /\ probe.runs # "none" => probe.age + 1 < MeasurementTime
        /\ left' = [u \in Users |-> IF left[u] = 0 THEN 0 ELSE left[u] - 1]
        /\ probe' = (IF probe.runs = "none" THEN probe ELSE [probe EXCEPT !.age = @ + 1])
        /\ UNCHANGED <<doing, command, eeprom, result, moisture>>
    BY <1>5 DEF Tick
  <2>2. railKept' = railKept /\ meddled' = meddled
    BY <1>5 DEF Tick
  <2>3. left' \in [Users -> 0 .. MeasurementTime] /\ \A u \in Users : left[u] # 0 => left'[u] = left[u] - 1
    BY <1>0, <2>1, ToadNumbers
  <2>4. /\ probe' \in Runs /\ probe'.runs = probe.runs
        /\ probe.runs # "none" => probe'.age = probe.age + 1
        /\ probe'.age < MeasurementTime
    BY <1>0, <2>1, ToadNumbers DEF ToadInv
  <2>5. ASSUME NEW u \in Users, Awaited(u), probe.runs # "none"
        PROVE  Awaited(u)'
    <3>1. left[u] # 0 /\ left[u] \in Nat /\ probe.age \in Nat
      BY <1>0, <2>5, ToadNumbers DEF ToadInv, Awaited
    <3>2. left'[u] = left[u] - 1 /\ probe'.age = probe.age + 1
      BY <2>3, <2>4, <2>5, <3>1
    <3> QED
      BY <2>1, <2>5, <3>1, <3>2, ToadNumbers DEF Awaited
  <2>6. probe'.runs \in Calibrations => Awaited("commands")'
    BY <1>a, <2>4, <2>5 DEF ToadInv, Calibrations
  <2>7. result' = "old" => meddled' \/ (probe'.runs = "trigger" /\ Awaited("measurement")')
    BY <1>a, <2>1, <2>2, <2>4, <2>5 DEF ToadInv
  <2>8. ToadTypes'
    BY <1>0, <2>1, <2>2, <2>3, <2>4 DEF ToadTypes
  <2> QED
    BY <2>1, <2>4, <2>6, <2>7, <2>8 DEF ToadInv
<1>6. ASSUME NEW u \in Users, NEW cmd \in Commands, Power(u, cmd)
      PROVE  ToadInv'
  <2>1. /\ doing[u] = "nothing" /\ doing["measurement"] # "uninitialized"
        /\ doing' \in {doing, [doing EXCEPT ![u] = "starting"]}
        /\ UNCHANGED <<left, probe, eeprom, result, moisture>>
        /\ command' \in {cmd, command}
    BY <1>6 DEF Power
  <2>2. railKept' = railKept /\ meddled' = meddled
    BY <1>6 DEF Power
  <2>3. /\ doing' \in [Users -> ToadDoings] /\ \A v \in Users : v # u => doing'[v] = doing[v]
        /\ doing'[u] \in {"nothing", "starting"}
    BY <1>0, <2>1 DEF ToadDoings
  <2>4. \A v \in Users : Awaited(v) => Awaited(v)'
    BY <2>1, <2>3 DEF Awaited
  <2>5. ToadTypes'
    BY <1>0, <2>1, <2>2, <2>3 DEF ToadTypes
  <2>6. doing'["commands"] # "uninitialized" /\ doing'["measurement"] # "uninitialized"
    BY <1>a, <2>1, <2>3 DEF ToadInv
  <2> QED
    BY <1>a, <2>1, <2>2, <2>4, <2>5, <2>6 DEF ToadInv
<1>7. CASE Trigger
  <2>1. /\ doing["measurement"] = "starting" /\ command' = command /\ moisture' = moisture
        /\ \/ Sent("measurement", "trigger") /\ result' = (IF result = "none" THEN "none" ELSE "old") /\ eeprom' = eeprom
           \/ Release("measurement") /\ left' = left
    BY <1>7 DEF Trigger
  <2>2. railKept' = railKept /\ ((Sent("measurement", "trigger") /\ meddled' = FALSE) \/ (Release("measurement") /\ meddled' = meddled))
    BY <1>7 DEF Trigger
  <2>3. CASE Sent("measurement", "trigger") /\ result' = (IF result = "none" THEN "none" ELSE "old") /\ eeprom' = eeprom
    <3>1. doing'["measurement"] = "waiting"
      BY <1>0, <1>a, <2>3 DEF Sent
    <3>2. ~Release("measurement")
      BY <1>0, <1>a, <3>1 DEF Release
    <3>3. meddled' \in BOOLEAN
      BY <2>2, <3>2
    <3>4. "trigger" \in Commands /\ "trigger" \notin Calibrations
      BY DEF Commands, Calibrations
    <3> QED
      BY <1>a, <1>c, <2>1, <2>2, <2>3, <3>3, <3>4
  <2>4. CASE Release("measurement") /\ left' = left
    <3>1. doing'["measurement"] = "nothing"
      BY <1>0, <1>a, <2>4 DEF Release
    <3>2. ~Sent("measurement", "trigger")
      BY <1>0, <1>a, <3>1 DEF Sent
    <3>3. moisture' \in {"nan", "new", "unsure"}
      BY <1>0, <2>1
    <3> QED
      BY <1>a, <1>b, <2>1, <2>2, <2>4, <3>2, <3>3
  <2> QED
    BY <2>1, <2>3, <2>4
<1>8. CASE Read
  <2>1. /\ doing["measurement"] = "waiting" /\ left["measurement"] = 0
        /\ moisture' \in {moisture, "nan"} \cup (IF result = "none" THEN {} ELSE {IF meddled THEN "unsure" ELSE result})
        /\ Release("measurement") /\ left' = left /\ command' = command
    BY <1>8 DEF Read
  <2>2. railKept' = railKept /\ meddled' = meddled
    BY <1>8 DEF Read
  <2>3. result = "old" => meddled
    BY <1>0, <1>a, <2>1, ToadNumbers DEF ToadInv, Awaited
  <2>4. moisture' \in {"nan", "new", "unsure"}
    BY <1>0, <2>1, <2>3
  <2> QED
    BY <1>a, <1>b, <2>1, <2>2, <2>4
<1>9. CASE SendCommand
  <2>1. /\ doing["commands"] = "starting" /\ command' = command /\ moisture' = moisture
        /\ \/ Sent("commands", command) /\ result' = result /\ eeprom' = eeprom
           \/ Release("commands") /\ left' = left
    BY <1>9 DEF SendCommand
  <2>2. railKept' = railKept /\ ((Sent("commands", command) /\ meddled' = TRUE) \/ (Release("commands") /\ meddled' = meddled))
    BY <1>9 DEF SendCommand
  <2>a. doing["measurement"] # "uninitialized"
    BY <2>1 DEF ToadInv
  <2>3. CASE Sent("commands", command) /\ result' = result /\ eeprom' = eeprom
    <3>1. doing'["commands"] = "waiting"
      BY <1>0, <1>a, <2>3 DEF Sent
    <3>2. ~Release("commands")
      BY <1>0, <1>a, <3>1 DEF Release
    <3>3. meddled' \in BOOLEAN /\ meddled'
      BY <2>2, <3>2
    <3> QED
      BY <1>0, <1>a, <1>c, <2>1, <2>2, <2>3, <2>a, <3>3
  <2>4. CASE Release("commands") /\ left' = left
    <3>1. doing'["commands"] = "nothing"
      BY <1>0, <1>a, <2>4 DEF Release
    <3>2. ~Sent("commands", command)
      BY <1>0, <1>a, <3>1 DEF Sent
    <3>3. moisture' \in {"nan", "new", "unsure"}
      BY <1>0, <2>1
    <3> QED
      BY <1>a, <1>b, <2>1, <2>2, <2>4, <3>2, <3>3
  <2> QED
    BY <2>1, <2>3, <2>4
<1>10. CASE runToCompletion
  <2>1. /\ doing["commands"] = "waiting" /\ left["commands"] = 0 /\ Release("commands")
        /\ left' = left /\ command' = command /\ moisture' = moisture
    BY <1>10 DEF runToCompletion
  <2>2. railKept' = railKept /\ meddled' = meddled
    BY <1>10 DEF runToCompletion
  <2>3. moisture' \in {"nan", "new", "unsure"}
    BY <1>0, <2>1
  <2> QED
    BY <1>a, <1>b, <2>1, <2>2, <2>3
<1> QED
  <2>1. {"calibrate", "factory-reset", "trigger"} \subseteq Commands
    BY DEF Commands
  <2> QED
    BY <1>1, <1>2, <1>3, <1>4, <1>5, <1>6, <1>7, <1>8, <1>9, <1>10, <1>a, <2>1 DEF ToadNext

LEMMA ToadInvRests == ToadInv /\ UNCHANGED toadVars => ToadInv'
  BY DEF ToadInv, ToadTypes, Awaited, toadVars

LEMMA ToadInvImplies == ToadInv => ToadTypeOK /\ CalibrationWhole /\ MeasuredAnew
  BY DEF ToadInv, ToadTypes, ToadTypeOK, CalibrationWhole, MeasuredAnew, ToadDoings
HIDE DEF Runs
--------
(* The soil probes. *)

Asks == {"registers", "moisture", "temperature", "version", "nothing"}
Parts == {part \in [from : AllProbes \cup {"noise"}, asks : Asks, part : {"start", "end"}] :
            part.from \in Modbus => part.asks = "registers"}
Answers == [from : AllProbes \cup {"noise"}, asks : Asks, whole : BOOLEAN]
Chips == [ready : BOOLEAN, supply : BOOLEAN, awake : SUBSET AllProbes, failed : BOOLEAN]
Steps == {"idle", "powered", "open", "ready", "asked", "header", "closing", "detached"}
InUse == {"powered", "open", "ready", "asked", "header"}

Kept == [AllProbes -> [answers : Seq(Answers), late : BOOLEAN]]
ProbeTypes ==
  /\ bus \in {"rs485", "mole"} /\ kept \in BOOLEAN /\ attached \in BOOLEAN /\ starting \in BOOLEAN /\ late \in BOOLEAN
  /\ holder \in Probes \cup {"none"} /\ session \in Steps /\ chip \in Chips /\ sessions \in 0 .. MaxSessions
  /\ rx \in Seq(Parts) /\ fetched \in Seq(Parts) /\ unsent \in [AllProbes -> Seq(Parts)]
  /\ got \in Seq(Answers) /\ reading \in Kept

\* A session holds its link, and has attached the pins of the bus from before it asks until it has closed.
SessionHolds ==
  /\ holder = "none" <=> session = "idle"
  /\ attached => bus = "rs485" /\ session \in {"open", "ready", "asked", "header", "closing"}
  /\ bus = "rs485" /\ session \in {"open", "ready", "asked", "header"} => attached
  /\ session \in {"powered", "detached"} => bus = "rs485"
  /\ session = "header" => holder \in Modbus /\ Len(fetched) = 1 /\ fetched[1].from = holder

\* Only the holder's UART is awake, unless an access has failed.
BridgeSound ==
  /\ bus = "rs485" => chip = Unpowered
  /\ bus = "mole" /\ ~chip.failed => chip.awake \subseteq {holder} /\ (holder = "none" => ~chip.supply)

\* How far the answer to the question "q" has come: it is yet to be sent, received, or read.
First(q) == [from |-> holder, asks |-> q, part |-> "start"]
Second(q) == [from |-> holder, asks |-> q, part |-> "end"]
OnTheWay(q, have, received, coming) ==
  \/ have = <<>> /\ received = <<>> /\ coming = <<>>
  \/ have = <<>> /\ received = <<>> /\ coming = <<First(q), Second(q)>>
  \/ have = <<>> /\ received = <<First(q)>> /\ coming = <<Second(q)>>
  \/ have = <<>> /\ received = <<First(q), Second(q)>> /\ coming = <<>>
  \/ have = <<First(q)>> /\ received = <<>> /\ coming = <<Second(q)>>
  \/ have = <<First(q)>> /\ received = <<Second(q)>> /\ coming = <<>>
  \/ have = <<First(q), Second(q)>> /\ received = <<>> /\ coming = <<>>

\* While nothing was late, no probe owes anything but the answer to the question of this session.
Owed ==
  ~late =>
    /\ session \in {"idle", "powered", "open"} => unsent = NothingOwed
    /\ session = "ready" /\ holder \notin Modbus => unsent = NothingOwed
    /\ session = "asked" /\ holder \notin Modbus =>
         /\ \A q \in AllProbes : q # holder => unsent[q] = <<>>
         /\ OnTheWay(Head(todo), fetched, rx, unsent[holder])

\* What a session is yet to ask, and the answers it has.
Told == holder \in Modbus \/ ~late
Own(q) == [from |-> holder, asks |-> q, whole |-> TRUE]
Asking ==
  \/ todo = Measurement(holder) /\ got = <<>>
  \/ /\ todo = <<>> /\ Len(got) = Len(Measurement(holder))
     /\ Told => \A i \in 1 .. Len(got) : got[i] = Own(Measurement(holder)[i])
  \/ holder \notin Modbus /\ todo = <<"temperature">> /\ Len(got) = 1 /\ (Told => got[1] = Own("moisture"))
  \/ holder \notin Modbus /\ todo = <<"version">> /\ got = <<>>
  \/ holder \notin Modbus /\ todo = <<>> /\ Len(got) = 1
SessionAsks == (session \in InUse => Asking) /\ (session \in {"asked", "header"} => todo # <<>>)

ReadingsOwn ==
  /\ \A p \in AllProbes : Len(reading[p].answers) \in {0, Len(Measurement(p))}
  /\ OwnAnswers

ProbesInv == ProbeTypes /\ SessionHolds /\ BridgeSound /\ Owed /\ SessionAsks /\ ReadingsOwn

USE DEF Kept
LEMMA ProbeNames ==
  /\ "none" \notin AllProbes /\ Probes \subseteq AllProbes /\ Modbus \subseteq AllProbes
  /\ bus = "rs485" => Modbus \subseteq Probes
  /\ bus = "mole" => Probes \cap Modbus = {}
  BY DEF AllProbes, Probes, Modbus

LEMMA ProbesInvInit == ProbesInit => ProbesInv
<1> SUFFICES ASSUME ProbesInit PROVE ProbesInv
  OBVIOUS
<1>1. /\ bus \in {"rs485", "mole"} /\ holder = "none" /\ session = "idle" /\ chip = Unpowered /\ rx = <<>> /\ fetched = <<>>
      /\ unsent = NothingOwed /\ sessions = 0 /\ todo = <<>> /\ got = <<>> /\ reading = [p \in AllProbes |-> NotRead]
  BY DEF ProbesInit, LinksInit
<1>2. kept \in BOOLEAN /\ attached \in BOOLEAN /\ starting \in BOOLEAN /\ late \in BOOLEAN /\ ~attached /\ ~late
  BY DEF ProbesInit, LinksInit
<1>3. chip \in Chips /\ ~chip.supply /\ chip.awake = {}
  <2>1. chip = [ready |-> FALSE, supply |-> FALSE, awake |-> {}, failed |-> FALSE]
    BY <1>1 DEF Unpowered
  <2>2. chip \in Chips /\ chip.awake = {}
    BY <2>1 DEF Chips
  <2>3. ~chip.supply
    BY <2>1, Zenon
  <2> QED
    BY <2>2, <2>3
<1>4. <<>> \in Seq(Parts) /\ <<>> \in Seq(Answers) /\ unsent \in [AllProbes -> Seq(Parts)]
  BY <1>1 DEF NothingOwed
<1>5. NotRead \in [answers : Seq(Answers), late : BOOLEAN] /\ NotRead.answers = <<>>
  BY <1>4 DEF NotRead
<1>6. reading \in Kept /\ \A p \in AllProbes : reading[p].answers = <<>>
  BY <1>1, <1>5
<1>7. 0 \in 0 .. MaxSessions
  BY LinksAssumption
<1>8. ProbeTypes
  BY <1>1, <1>2, <1>3, <1>4, <1>6, <1>7 DEF ProbeTypes, Steps
<1>9. SessionHolds /\ BridgeSound /\ Owed /\ SessionAsks
  BY <1>1, <1>2, <1>3 DEF SessionHolds, BridgeSound, Owed, SessionAsks, InUse
<1>10. ReadingsOwn
  BY <1>6 DEF ReadingsOwn, OwnAnswers
<1> QED
  BY <1>8, <1>9, <1>10 DEF ProbesInv

LEMMA ShortSequences ==
  \A x, y : /\ Head(<<x>>) = x /\ Tail(<<x>>) = <<>> /\ Head(<<x, y>>) = x /\ Tail(<<x, y>>) = <<y>>
            /\ Append(<<>>, x) = <<x>> /\ Append(<<x>>, y) = <<x, y>>
            /\ <<>> \o <<x>> = <<x>> /\ <<>> \o <<x, y>> = <<x, y>> /\ <<x>> \o <<y>> = <<x, y>>
            /\ <<x>> # <<>> /\ <<x, y>> # <<>>
<1> TAKE x, y
<1> DEFINE S == {x, y}
<1>1. <<x>> \in Seq(S) /\ <<y>> \in Seq(S) /\ <<x, y>> \in Seq(S) /\ <<>> \in Seq(S) /\ x \in S /\ y \in S
  OBVIOUS
<1> HIDE DEF S
<1>2. Head(<<x>>) = x /\ Head(<<x, y>>) = x
  OBVIOUS
<1>3. Tail(<<x>>) = <<>>
  OBVIOUS
<1>4. Tail(<<x, y>>) = <<y>>
  <2> DEFINE t == Tail(<<x, y>>)
  <2>1. t \in Seq(S) /\ Len(t) = 1 /\ t[1] = y
    BY <1>1
  <2>2. Len(<<y>>) = 1 /\ <<y>>[1] = y
    OBVIOUS
  <2> HIDE DEF t
  <2>3. t = <<y>>
    BY <1>1, <2>1, <2>2
  <2> QED
    BY <2>3 DEF t
<1>5. Append(<<>>, x) = <<x>>
  OBVIOUS
<1>6. Append(<<x>>, y) = <<x, y>>
  <2> DEFINE t == Append(<<x>>, y)
  <2>1. t \in Seq(S) /\ Len(t) = 2 /\ t[1] = x /\ t[2] = y
    BY <1>1
  <2>2. Len(<<x, y>>) = 2 /\ <<x, y>>[1] = x /\ <<x, y>>[2] = y
    OBVIOUS
  <2> HIDE DEF t
  <2>3. \A i \in 1 .. Len(t) : i = 1 \/ i = 2
    BY <2>1
  <2>4. t = <<x, y>>
    BY <1>1, <2>1, <2>2, <2>3, SeqEqual
  <2> QED
    BY <2>4 DEF t
<1>7. <<>> \o <<x>> = <<x>> /\ <<>> \o <<x, y>> = <<x, y>>
  BY <1>1, ConcatEmptySeq
<1>8. <<x>> \o <<y>> = <<x, y>>
  <2> DEFINE t == <<x>> \o <<y>>
  <2>1. t \in Seq(S) /\ Len(t) = 2 /\ t[1] = x /\ t[2] = y
    BY <1>1
  <2>2. Len(<<x, y>>) = 2 /\ <<x, y>>[1] = x /\ <<x, y>>[2] = y
    OBVIOUS
  <2> HIDE DEF t
  <2>3. \A i \in 1 .. Len(t) : i = 1 \/ i = 2
    BY <2>1
  <2>4. t = <<x, y>>
    BY <1>1, <2>1, <2>2, <2>3, SeqEqual
  <2> QED
    BY <2>4 DEF t
<1>9. <<x>> # <<>> /\ <<x, y>> # <<>>
  OBVIOUS
<1> QED
  BY <1>2, <1>3, <1>4, <1>5, <1>6, <1>7, <1>8, <1>9

LEMMA ReadingFails ==
  ASSUME ProbesInv, NEW p \in AllProbes, reading' \in {reading, [reading EXCEPT ![p] = NotRead]}
  PROVE  reading' \in Kept /\ ReadingsOwn'
<1>1. NotRead \in [answers : Seq(Answers), late : BOOLEAN] /\ NotRead.answers = <<>> /\ Len(NotRead.answers) = 0
  <2>1. <<>> \in Seq(Answers) /\ Len(<<>>) = 0
    OBVIOUS
  <2> QED
    BY <2>1 DEF NotRead
<1>2. reading \in Kept /\ ReadingsOwn
  BY DEF ProbesInv, ProbeTypes
<1>3. reading' \in Kept
  BY <1>1, <1>2
<1>4. \A q \in AllProbes : reading'[q] = reading[q] \/ reading'[q] = NotRead
  BY <1>2
<1>5. \A q \in AllProbes : Len(reading'[q].answers) \in {0, Len(Measurement(q))}
  BY <1>1, <1>2, <1>4 DEF ReadingsOwn
<1>6. OwnAnswers'
  BY <1>1, <1>2, <1>4 DEF ReadingsOwn, OwnAnswers
<1> QED
  BY <1>3, <1>5, <1>6 DEF ReadingsOwn

\* A board that loses power, and what the probes then owe.
LEMMA RailFacts ==
  ASSUME ProbesInv, NEW stays \in BOOLEAN, RailReleased(stays)
  PROVE  /\ chip' \in Chips /\ unsent' \in [AllProbes -> Seq(Parts)] /\ late' \in BOOLEAN
         /\ chip' = Unpowered \/ (stays /\ chip' = chip)
         /\ ~late' => unsent' = NothingOwed
         /\ bus = "rs485" => chip' = Unpowered
         /\ stays => unsent' = unsent /\ (~late' => ~late)
<1>1. /\ chip' = (IF stays THEN chip ELSE Unpowered) /\ unsent' = (IF stays THEN unsent ELSE NothingOwed)
      /\ late' \in BOOLEAN /\ (late' <=> stays /\ (late \/ unsent # NothingOwed))
  BY DEF RailReleased
<1>2. Unpowered \in Chips
  BY DEF Unpowered, Chips
<1>3. NothingOwed \in [AllProbes -> Seq(Parts)]
  BY DEF NothingOwed
<1>4. chip \in Chips /\ unsent \in [AllProbes -> Seq(Parts)] /\ (bus = "rs485" => chip = Unpowered)
  BY DEF ProbesInv, ProbeTypes, BridgeSound
<1> QED
  BY <1>1, <1>2, <1>3, <1>4

\* A session that has ended, or not begun.
LEMMA NoSession ==
  ASSUME ProbesInv, holder' = "none", session' = "idle"
  PROVE  /\ holder' \in Probes' \cup {"none"} /\ session' \in Steps /\ SessionAsks'
         /\ (~attached' => SessionHolds')
  BY DEF Steps, SessionAsks, InUse, SessionHolds

LEMMA ProbesBatchStarts == ProbesInv /\ BatchStarts /\ SameSession => ProbesInv'
<1> SUFFICES ASSUME ProbesInv, BatchStarts, SameSession PROVE ProbesInv'
  OBVIOUS
<1>1. /\ UNCHANGED <<bus, holder, session, chip, rx, fetched>>
      /\ UNCHANGED <<unsent, sessions, todo, got, reading>>
  BY DEF BatchStarts, SameSession, lineVars
<1>2. kept' \in BOOLEAN /\ attached' = attached /\ late' = late
  BY DEF BatchStarts
<1>3. starting' \in BOOLEAN
  BY DEF BatchStarts, ComesOn, ProbesInv, ProbeTypes
<1>4. ProbeTypes'
  BY <1>1, <1>2, <1>3 DEF ProbesInv, ProbeTypes, Probes
<1>5. SessionHolds' /\ BridgeSound' /\ Owed' /\ SessionAsks' /\ ReadingsOwn'
  BY <1>1, <1>2 DEF ProbesInv, SessionHolds, BridgeSound, Owed, OnTheWay, First, Second, SessionAsks, Asking, Told, Own,
                    ReadingsOwn, OwnAnswers
<1> QED
  BY <1>4, <1>5 DEF ProbesInv

LEMMA ProbesBatchEnds == ProbesInv /\ BatchEnds /\ SameSession => ProbesInv'
<1> SUFFICES ASSUME ProbesInv, BatchEnds, SameSession PROVE ProbesInv'
  OBVIOUS
<1> DEFINE stays == holder # "none"
<1>1. /\ UNCHANGED <<bus, holder, session, rx, fetched>>
      /\ UNCHANGED <<sessions, todo, got, reading>> /\ RailReleased(stays)
  BY DEF BatchEnds, SameSession
<1>2. kept' \in BOOLEAN /\ attached' = attached /\ starting' = starting /\ stays \in BOOLEAN
  BY DEF BatchEnds
<1>3. /\ chip' \in Chips /\ unsent' \in [AllProbes -> Seq(Parts)] /\ late' \in BOOLEAN
      /\ chip' = Unpowered \/ (stays /\ chip' = chip)
      /\ ~late' => unsent' = NothingOwed
      /\ bus = "rs485" => chip' = Unpowered
      /\ stays => unsent' = unsent /\ (~late' => ~late)
  <2> HIDE DEF stays
  <2> QED
    BY <1>1, <1>2, RailFacts
<1>4. ProbeTypes'
  BY <1>1, <1>2, <1>3 DEF ProbesInv, ProbeTypes, Probes
<1>5. SessionHolds' /\ ReadingsOwn'
  BY <1>1, <1>2 DEF ProbesInv, SessionHolds, ReadingsOwn, OwnAnswers
<1>6. BridgeSound'
  <2>1. Unpowered.awake = {} /\ ~Unpowered.supply
    BY Zenon DEF Unpowered
  <2> QED
    BY <1>1, <1>3, <2>1 DEF ProbesInv, BridgeSound
<1>7. Owed'
  <2>1. CASE ~stays
    <3>1. session' = "idle"
      BY <1>1, <2>1 DEF ProbesInv, SessionHolds
    <3> QED
      BY <1>3, <3>1 DEF Owed
  <2>2. CASE stays
    BY <1>1, <1>3, <2>2 DEF ProbesInv, Owed, OnTheWay, First, Second
  <2> QED
    BY <2>1, <2>2
<1>8. SessionAsks'
  <2> SUFFICES ASSUME session \in InUse PROVE Asking'
    BY <1>1 DEF ProbesInv, SessionAsks
  <2>1. stays /\ Asking
    BY DEF ProbesInv, SessionHolds, SessionAsks, InUse
  <2>2. Told' => Told
    BY <1>1, <1>3, <2>1 DEF Told
  <2> QED
    BY <1>1, <2>1, <2>2 DEF Asking, Own
<1> QED
  BY <1>4, <1>5, <1>6, <1>7, <1>8 DEF ProbesInv

LEMMA ProbesOpenRs485 ==
  ASSUME ProbesInv, NEW p \in Probes, NEW questions \in Questions(p), OpenSession(p, questions), OpenRs485(p)
  PROVE  ProbesInv'
<1>1. /\ bus' = bus /\ bus = "rs485" /\ holder = "none" /\ holder' = p /\ session' = "powered" /\ sessions' = sessions + 1
      /\ sessions < MaxSessions /\ UNCHANGED <<chip, rx, fetched, unsent>>
      /\ todo' = questions /\ got' = <<>>
  BY DEF OpenRs485, OpenSession, lineVars
<1>2. kept' = kept /\ attached' = attached /\ late' = late
  BY DEF OpenRs485
<1>3. starting' \in BOOLEAN
  BY DEF OpenRs485, ComesOn, ProbesInv, ProbeTypes
<1>4. p \in AllProbes /\ p # "none"
  BY ProbeNames
<1>5. reading' = reading
  BY <1>1, <1>4 DEF OpenSession
<1>6. session = "idle" /\ ~attached
  BY <1>1 DEF ProbesInv, SessionHolds
<1>7. ProbeTypes'
  <2>1. sessions' \in 0 .. MaxSessions /\ got' \in Seq(Answers)
    BY <1>1, LinksAssumption DEF ProbesInv, ProbeTypes
  <2> QED
    BY <1>1, <1>2, <1>3, <1>5, <2>1 DEF ProbesInv, ProbeTypes, Probes, Steps
<1>8. SessionHolds' /\ BridgeSound'
  BY <1>1, <1>2, <1>4, <1>6 DEF ProbesInv, SessionHolds, BridgeSound
<1>9. Owed' /\ ReadingsOwn'
  BY <1>1, <1>2, <1>5, <1>6 DEF ProbesInv, Owed, ReadingsOwn, OwnAnswers
<1>10. SessionAsks'
  BY <1>1 DEF SessionAsks, Asking, Questions
<1> QED
  BY <1>7, <1>8, <1>9, <1>10 DEF ProbesInv

LEMMA ProbesOpenMole ==
  ASSUME ProbesInv, NEW p \in Probes, NEW questions \in Questions(p), OpenSession(p, questions), OpenMole(p)
  PROVE  ProbesInv'
<1> DEFINE up == IF chip.ready THEN chip ELSE Initialized
           awake == [up EXCEPT !.awake = @ \cup {p}]
<1>1. /\ bus' = bus /\ bus = "mole" /\ holder = "none" /\ sessions' = sessions + 1 /\ sessions < MaxSessions
      /\ unsent' = unsent /\ todo' = questions /\ got' = <<>>
  BY DEF OpenMole, OpenSession
<1>2. kept' = kept /\ attached' = attached /\ late' = late
  BY DEF OpenMole
<1>3. \/ /\ chip' = [awake EXCEPT !.supply = TRUE] /\ holder' = p /\ session' = "open" /\ rx' = <<>> /\ fetched' = <<>>
      \/ /\ chip' \in IF kept THEN {[c EXCEPT !.failed = TRUE] : c \in {chip, up, awake}} ELSE {Unpowered}
         /\ UNCHANGED <<holder, session, rx, fetched>>
  BY DEF OpenMole
<1>4. starting' \in BOOLEAN
  BY DEF OpenMole, ProbesInv, ProbeTypes
<1>5. p \in AllProbes /\ p # "none" /\ p \notin Modbus
  BY <1>1, ProbeNames
<1>6. session = "idle" /\ ~attached /\ chip \in Chips /\ (~chip.failed => chip.awake = {})
  BY <1>1, ProbeNames DEF ProbesInv, ProbeTypes, SessionHolds, BridgeSound, Chips
<1>7. /\ up \in Chips /\ awake \in Chips /\ awake.awake = up.awake \cup {p}
      /\ ~up.failed => up.awake = {}
  <2>1. Initialized \in Chips /\ Initialized.awake = {}
    BY DEF Initialized, Unpowered, Chips
  <2>2. up \in Chips /\ (~up.failed => up.awake = {})
    BY <1>6, <2>1
  <2> HIDE DEF up
  <2> QED
    BY <1>5, <2>2 DEF Chips
<1>8. awake.failed <=> up.failed
  <2> HIDE DEF up
  <2> QED
    BY <1>7, Zenon DEF Chips
<1> HIDE DEF up, awake
<1>9. reading' \in {reading, [reading EXCEPT ![p] = NotRead]}
  BY DEF OpenSession
<1>10. reading' \in Kept /\ ReadingsOwn'
  BY <1>5, <1>9, ReadingFails
<1>11. sessions' \in 0 .. MaxSessions /\ got' \in Seq(Answers) /\ <<>> \in Seq(Parts)
  BY <1>1, LinksAssumption DEF ProbesInv, ProbeTypes
<1>12. Owed'
  <2>1. unsent = NothingOwed \/ late
    BY <1>6 DEF ProbesInv, Owed
  <2>2. session' \in {"idle", "open"}
    BY <1>3, <1>6
  <2> QED
    BY <1>1, <1>2, <2>1, <2>2 DEF Owed
<1>13. CASE chip' = [awake EXCEPT !.supply = TRUE] /\ holder' = p /\ session' = "open" /\ rx' = <<>> /\ fetched' = <<>>
  <2>1. chip' \in Chips /\ chip'.awake = up.awake \cup {p}
    BY <1>7, <1>13 DEF Chips
  <2>2. chip'.failed <=> up.failed
    BY <1>7, <1>8, <1>13, Zenon DEF Chips
  <2>3. ProbeTypes'
    BY <1>1, <1>2, <1>4, <1>10, <1>11, <1>13, <2>1 DEF ProbesInv, ProbeTypes, Probes, Steps
  <2>4. SessionHolds'
    BY <1>1, <1>2, <1>5, <1>6, <1>13 DEF SessionHolds
  <2>5. BridgeSound'
    BY <1>1, <1>5, <1>7, <1>13, <2>1, <2>2 DEF BridgeSound
  <2>6. SessionAsks'
    BY <1>1, <1>13 DEF SessionAsks, Asking, Questions
  <2> QED
    BY <1>10, <1>12, <2>3, <2>4, <2>5, <2>6 DEF ProbesInv
<1>14. CASE /\ chip' \in IF kept THEN {[c EXCEPT !.failed = TRUE] : c \in {chip, up, awake}} ELSE {Unpowered}
            /\ UNCHANGED <<holder, session, rx, fetched>>
  <2>1. chip' \in Chips
    <3>1. Unpowered \in Chips
      BY DEF Unpowered, Chips
    <3>2. \A c \in Chips : [c EXCEPT !.failed = TRUE] \in Chips
      BY DEF Chips
    <3> QED
      BY <1>6, <1>7, <1>14, <3>1, <3>2
  <2>2. chip' = Unpowered \/ chip'.failed
    <3>1. \A c \in Chips : [c EXCEPT !.failed = TRUE].failed
      BY Zenon DEF Chips
    <3> QED
      BY <1>6, <1>7, <1>14, <3>1
  <2>3. Unpowered.awake = {} /\ ~Unpowered.supply
    BY Zenon DEF Unpowered
  <2>4. ProbeTypes'
    BY <1>1, <1>2, <1>4, <1>10, <1>11, <1>14, <2>1 DEF ProbesInv, ProbeTypes, Probes, Steps
  <2>5. SessionHolds' /\ SessionAsks'
    BY <1>1, <1>2, <1>6, <1>14, NoSession
  <2>6. BridgeSound'
    BY <1>1, <2>2, <2>3 DEF BridgeSound
  <2> QED
    BY <1>10, <1>12, <2>4, <2>5, <2>6 DEF ProbesInv
<1> QED
  BY <1>3, <1>13, <1>14

LEMMA ProbesAttachPins == ProbesInv /\ AttachPins /\ SameSession => ProbesInv'
<1> SUFFICES ASSUME ProbesInv, AttachPins, SameSession PROVE ProbesInv'
  OBVIOUS
<1>1. /\ bus' = bus /\ bus = "rs485" /\ session = "powered" /\ holder' = holder /\ chip' = chip /\ fetched' = fetched
      /\ UNCHANGED <<unsent, sessions, todo, got, reading>>
      /\ rx' \in {rx, <<>>} /\ session' \in {"open", "closing"}
  BY DEF AttachPins, SameSession
<1>2. kept' = kept /\ starting' = starting /\ late' = late
  BY DEF AttachPins
<1>3. attached' \in BOOLEAN /\ (session' = "open" => attached')
  BY DEF AttachPins
<1>4. holder # "none"
  BY <1>1 DEF ProbesInv, SessionHolds
<1>5. ProbeTypes'
  <2>1. <<>> \in Seq(Parts)
    OBVIOUS
  <2> QED
    BY <1>1, <1>2, <1>3, <2>1 DEF ProbesInv, ProbeTypes, Probes, Steps
<1>6. SessionHolds' /\ BridgeSound' /\ ReadingsOwn'
  BY <1>1, <1>3, <1>4 DEF ProbesInv, SessionHolds, BridgeSound, ReadingsOwn, OwnAnswers
<1>7. Owed' /\ SessionAsks'
  BY <1>1, <1>2 DEF ProbesInv, Owed, SessionAsks, InUse, Asking, Told, Own
<1> QED
  BY <1>5, <1>6, <1>7 DEF ProbesInv

LEMMA ProbesDetachPins == ProbesInv /\ DetachPins /\ SameSession => ProbesInv'
<1> SUFFICES ASSUME ProbesInv, DetachPins, SameSession PROVE ProbesInv'
  OBVIOUS
<1>1. /\ bus' = bus /\ bus = "rs485" /\ session = "closing" /\ session' = "detached" /\ holder' = holder /\ chip' = chip
      /\ fetched' = <<>> /\ UNCHANGED <<rx, unsent, sessions, todo, got>>
      /\ reading' = reading
  BY DEF DetachPins, SameSession
<1>2. kept' = kept /\ starting' = starting /\ late' = late /\ attached' = FALSE
  BY DEF DetachPins
<1>3. holder # "none"
  BY <1>1 DEF ProbesInv, SessionHolds
<1>4. ProbeTypes'
  <2>1. <<>> \in Seq(Parts)
    OBVIOUS
  <2> QED
    BY <1>1, <1>2, <2>1 DEF ProbesInv, ProbeTypes, Probes, Steps
<1>5. SessionHolds' /\ BridgeSound' /\ ReadingsOwn'
  BY <1>1, <1>2, <1>3 DEF ProbesInv, SessionHolds, BridgeSound, ReadingsOwn, OwnAnswers
<1>6. Owed' /\ SessionAsks'
  BY <1>1 DEF Owed, SessionAsks, InUse
<1> QED
  BY <1>4, <1>5, <1>6 DEF ProbesInv

LEMMA ProbesReleaseRs485 == ProbesInv /\ ReleaseRs485 /\ SameSession => ProbesInv'
<1> SUFFICES ASSUME ProbesInv, ReleaseRs485, SameSession PROVE ProbesInv'
  OBVIOUS
<1>1. /\ bus' = bus /\ session = "detached" /\ session' = "idle" /\ holder' = "none" /\ RailReleased(kept)
      /\ UNCHANGED <<rx, fetched, sessions, todo, got, reading>>
  BY DEF ReleaseRs485, SameSession
<1>2. kept' = kept /\ starting' = starting /\ attached' = attached /\ kept \in BOOLEAN
  BY DEF ReleaseRs485, ProbesInv, ProbeTypes
<1>3. bus = "rs485" /\ ~attached
  BY <1>1 DEF ProbesInv, SessionHolds
<1>4. /\ chip' \in Chips /\ unsent' \in [AllProbes -> Seq(Parts)] /\ late' \in BOOLEAN
      /\ ~late' => unsent' = NothingOwed
      /\ bus = "rs485" => chip' = Unpowered
  BY <1>1, <1>2, RailFacts
<1>5. ProbeTypes'
  BY <1>1, <1>2, <1>4 DEF ProbesInv, ProbeTypes, Steps
<1>6. SessionHolds' /\ SessionAsks'
  BY <1>1, <1>2, <1>3, NoSession
<1>7. BridgeSound' /\ Owed' /\ ReadingsOwn'
  BY <1>1, <1>3, <1>4 DEF ProbesInv, BridgeSound, Owed, ReadingsOwn, OwnAnswers
<1> QED
  BY <1>5, <1>6, <1>7 DEF ProbesInv

LEMMA ProbesCloseMole == ProbesInv /\ CloseMole /\ SameSession => ProbesInv'
<1> SUFFICES ASSUME ProbesInv, CloseMole, SameSession PROVE ProbesInv'
  OBVIOUS
<1>1. /\ bus' = bus /\ bus = "mole" /\ session = "closing" /\ session' = "idle" /\ holder' = "none"
      /\ UNCHANGED <<sessions, todo, got, reading>>
  BY DEF CloseMole, SameSession
<1>2. kept' = kept /\ attached' = attached /\ ~attached
  BY <1>1 DEF CloseMole, ProbesInv, SessionHolds
<1>3. PICK failed \in SUBSET {"supply", "flush", "sleep"}, junk \in {<<>>, <<Noise>>} :
        LET remains == IF "flush" \in failed THEN rx \o junk ELSE <<>>
            down == [chip EXCEPT !.supply = "supply" \in failed,
                                 !.awake = IF "sleep" \in failed \/ remains # <<>> THEN @ ELSE @ \ {holder},
                                 !.failed = @ \/ failed # {}] IN
        /\ rx' = remains /\ fetched' = <<>>
        /\ chip' = IF kept THEN down ELSE Unpowered
        /\ IF kept /\ down.supply
           THEN unsent' = unsent /\ late' = (late \/ unsent # NothingOwed) /\ UNCHANGED starting
           ELSE unsent' = NothingOwed /\ late' = FALSE /\ starting' = TRUE
  BY DEF CloseMole, PowerDown
<1> DEFINE on == "supply" \in failed
           broken == chip.failed \/ failed # {}
           remains == IF "flush" \in failed THEN rx \o junk ELSE <<>>
           awake == IF "sleep" \in failed \/ remains # <<>> THEN chip.awake ELSE chip.awake \ {holder}
           down == [chip EXCEPT !.supply = on, !.awake = awake, !.failed = broken]
<1>4. /\ rx' = remains /\ fetched' = <<>> /\ chip' = (IF kept THEN down ELSE Unpowered)
      /\ IF kept /\ down.supply
         THEN unsent' = unsent /\ late' = (late \/ unsent # NothingOwed) /\ UNCHANGED starting
         ELSE unsent' = NothingOwed /\ late' = FALSE /\ starting' = TRUE
  BY <1>3
<1>5. /\ chip \in Chips /\ rx \in Seq(Parts) /\ unsent \in [AllProbes -> Seq(Parts)]
      /\ (~chip.failed => chip.awake \subseteq {holder})
  BY <1>1 DEF ProbesInv, ProbeTypes, BridgeSound
<1>6. remains \in Seq(Parts)
  <2>1. Noise \in Parts
    BY DEF Noise, Parts, Asks, AllProbes, Modbus
  <2>2. junk \in Seq(Parts)
    <3>1. junk \in {<<>>, <<Noise>>}
      BY <1>3
    <3>2. <<>> \in Seq(Parts) /\ <<Noise>> \in Seq(Parts)
      BY <2>1
    <3> QED
      BY <3>1, <3>2
  <2> QED
    BY <1>5, <2>2
<1>7. awake \in SUBSET AllProbes /\ (failed = {} => remains = <<>>) /\ (failed = {} /\ ~chip.failed => awake = {})
  <2>1. chip.awake \in SUBSET AllProbes
    BY <1>5 DEF Chips
  <2>2. failed = {} => remains = <<>>
    OBVIOUS
  <2> HIDE DEF remains
  <2> QED
    BY <1>5, <2>1, <2>2
<1>8. on \in BOOLEAN /\ broken \in BOOLEAN /\ (failed = {} => ~on) /\ (~broken => failed = {} /\ ~chip.failed)
  OBVIOUS
<1> HIDE DEF remains, awake, on, broken
<1>9. /\ down \in Chips /\ down.awake = awake /\ down.supply = on /\ down.failed = broken
  BY <1>5, <1>7, <1>8 DEF Chips
<1> HIDE DEF down
<1>10. Unpowered \in Chips /\ Unpowered.awake = {}
  BY DEF Unpowered, Chips
<1>11. ~Unpowered.supply /\ ~Unpowered.failed
  BY Zenon DEF Unpowered
<1>12. NothingOwed \in [AllProbes -> Seq(Parts)]
  BY DEF NothingOwed
<1>13. chip' \in Chips
  BY <1>4, <1>9, <1>10
<1>14. unsent' \in [AllProbes -> Seq(Parts)]
  BY <1>4, <1>5, <1>12
<1>15. starting' \in BOOLEAN /\ late' \in BOOLEAN /\ (~late' => unsent' = NothingOwed)
  BY <1>4 DEF ProbesInv, ProbeTypes
<1>16. ProbeTypes'
  <2>1. <<>> \in Seq(Parts)
    OBVIOUS
  <2> QED
    BY <1>1, <1>2, <1>4, <1>6, <1>13, <1>14, <1>15, <2>1 DEF ProbesInv, ProbeTypes, Steps
<1>17. SessionHolds' /\ SessionAsks'
  BY <1>1, <1>2, NoSession
<1>18. BridgeSound'
  BY <1>1, <1>4, <1>7, <1>8, <1>9, <1>10, <1>11 DEF BridgeSound
<1>19. Owed' /\ ReadingsOwn'
  BY <1>1, <1>15 DEF ProbesInv, Owed, ReadingsOwn, OwnAnswers
<1> QED
  BY <1>16, <1>17, <1>18, <1>19 DEF ProbesInv

LEMMA ProbesBabble == ProbesInv /\ Babble /\ SameSession => ProbesInv'
<1> SUFFICES ASSUME ProbesInv, Babble, SameSession PROVE ProbesInv'
  OBVIOUS
<1>1. /\ bus' = bus /\ session = "open" /\ holder' = holder /\ session' = session /\ chip' = chip /\ rx' = <<Noise>>
      /\ UNCHANGED <<fetched, unsent, sessions, todo, got, reading>>
  BY DEF Babble, SameSession
<1>2. UNCHANGED <<kept, attached, late, starting>>
  BY DEF Babble
<1>3. <<Noise>> \in Seq(Parts)
  <2>1. Noise \in Parts
    BY DEF Noise, Parts, Asks, AllProbes, Modbus
  <2> QED
    BY <2>1
<1>4. ProbeTypes'
  BY <1>1, <1>2, <1>3 DEF ProbesInv, ProbeTypes, Probes
<1>5. SessionHolds' /\ BridgeSound' /\ ReadingsOwn'
  BY <1>1, <1>2 DEF ProbesInv, SessionHolds, BridgeSound, ReadingsOwn, OwnAnswers
<1>6. Owed' /\ SessionAsks'
  BY <1>1, <1>2 DEF ProbesInv, Owed, SessionAsks, Asking, Told, Own
<1> QED
  BY <1>4, <1>5, <1>6 DEF ProbesInv

LEMMA ProbesDeliver ==
  ASSUME ProbesInv, NEW p \in Probes, Deliver(p), SameSession
  PROVE  ProbesInv'
<1>1. /\ UNCHANGED <<bus, holder, session, chip, fetched, sessions>>
      /\ todo' = todo /\ got' = got /\ reading' = reading
      /\ unsent[p] # <<>> /\ unsent' = [unsent EXCEPT ![p] = Tail(@)]
      /\ rx' = IF IF bus = "rs485" THEN attached ELSE holder = p THEN Append(rx, Head(unsent[p])) ELSE rx
  BY DEF Deliver, SameSession
<1>2. UNCHANGED <<kept, attached, late, starting>>
  BY DEF Deliver
<1>3. p \in AllProbes /\ unsent \in [AllProbes -> Seq(Parts)] /\ unsent[p] \in Seq(Parts) /\ rx \in Seq(Parts)
  BY ProbeNames DEF ProbesInv, ProbeTypes
<1>4. /\ unsent' \in [AllProbes -> Seq(Parts)] /\ unsent'[p] = Tail(unsent[p])
      /\ \A q \in AllProbes : q # p => unsent'[q] = unsent[q]
  BY <1>1, <1>3
<1>5. rx' \in Seq(Parts)
  BY <1>1, <1>3
<1>6. ProbeTypes'
  BY <1>1, <1>2, <1>4, <1>5 DEF ProbesInv, ProbeTypes, Probes
<1>7. SessionHolds' /\ BridgeSound' /\ ReadingsOwn'
  BY <1>1, <1>2 DEF ProbesInv, SessionHolds, BridgeSound, ReadingsOwn, OwnAnswers
<1>8. Owed'
  <2> SUFFICES ASSUME ~late, session = "asked", holder \notin Modbus
               PROVE  /\ \A q \in AllProbes : q # holder => unsent'[q] = <<>>
                      /\ OnTheWay(Head(todo), fetched, rx', unsent'[holder])
    <3>1. NothingOwed[p] = <<>>
      BY <1>3 DEF NothingOwed
    <3>2. unsent # NothingOwed
      BY <1>1, <3>1
    <3> QED
      BY <1>1, <1>2, <3>2 DEF ProbesInv, Owed, OnTheWay, First, Second
  <2>1. /\ \A q \in AllProbes : q # holder => unsent[q] = <<>>
        /\ OnTheWay(Head(todo), fetched, rx, unsent[holder])
    BY DEF ProbesInv, Owed
  <2>2. p = holder /\ (IF bus = "rs485" THEN attached ELSE holder = p)
    BY <1>1, <1>3, <2>1 DEF ProbesInv, SessionHolds
  <2>3. rx' = Append(rx, Head(unsent[holder])) /\ unsent'[holder] = Tail(unsent[holder])
    BY <1>1, <1>4, <2>2
  <2> DEFINE s == First(Head(todo))
             e == Second(Head(todo))
  <2> HIDE DEF s, e
  <2>4. CASE fetched = <<>> /\ rx = <<>> /\ unsent[holder] = <<s, e>>
    <3>1. rx' = <<s>> /\ unsent'[holder] = <<e>>
      BY <2>3, <2>4, ShortSequences
    <3> QED
      BY <1>4, <2>1, <2>2, <2>4, <3>1 DEF OnTheWay, s, e
  <2>5. CASE fetched = <<>> /\ rx = <<s>> /\ unsent[holder] = <<e>>
    <3>1. rx' = <<s, e>> /\ unsent'[holder] = <<>>
      BY <2>3, <2>5, ShortSequences
    <3> QED
      BY <1>4, <2>1, <2>2, <2>5, <3>1 DEF OnTheWay, s, e
  <2>6. CASE fetched = <<s>> /\ rx = <<>> /\ unsent[holder] = <<e>>
    <3>1. rx' = <<e>> /\ unsent'[holder] = <<>>
      BY <2>3, <2>6, ShortSequences
    <3> QED
      BY <1>4, <2>1, <2>2, <2>6, <3>1 DEF OnTheWay, s, e
  <2> QED
    BY <1>1, <2>1, <2>2, <2>4, <2>5, <2>6 DEF OnTheWay, s, e
<1>9. SessionAsks'
  BY <1>1, <1>2 DEF ProbesInv, SessionAsks, Asking, Told, Own
<1> QED
  BY <1>6, <1>7, <1>8, <1>9 DEF ProbesInv

\* A question that is yet to be asked, and its answer when there is nothing to mistake for it.
LEMMA AskFacts ==
  ASSUME Asking, todo # <<>>
  PROVE  /\ Head(todo) \in Asks /\ (holder \in Modbus => Head(todo) = "registers")
  BY ShortSequences DEF Asking, Measurement, Asks

LEMMA AnswerFacts ==
  ASSUME Asking, todo # <<>>, got \in Seq(Answers), NEW answer \in Answers, todo' = Tail(todo), got' = Append(got, answer),
         holder' = holder, late' = late, Told => answer = Own(Head(todo))
  PROVE  Asking' /\ got' \in Seq(Answers)
<1>1. got' \in Seq(Answers) /\ Len(got') = Len(got) + 1 /\ got'[Len(got) + 1] = answer
      /\ \A i \in 1 .. Len(got) : got'[i] = got[i]
  OBVIOUS
<1>2. CASE todo = Measurement(holder) /\ got = <<>>
  <2>1. Len(got) = 0
    BY <1>2
  <2>2. Len(got') = 1 /\ got'[1] = answer
    BY <1>1, <2>1
  <2>3. CASE holder \in Modbus
    <3>1. todo = <<"registers">> /\ Measurement(holder) = <<"registers">>
      BY <1>2, <2>3 DEF Measurement
    <3>2. todo' = <<>> /\ Head(todo) = "registers"
      BY <3>1, ShortSequences
    <3>3. Len(<<"registers">>) = 1 /\ <<"registers">>[1] = "registers"
      OBVIOUS
    <3>4. \A i \in 1 .. 1 : i = 1
      OBVIOUS
    <3>5. Told' => \A i \in 1 .. Len(got') : got'[i] = Own(Measurement(holder)[i])
      BY <2>2, <2>3, <3>1, <3>2, <3>3, <3>4 DEF Told
    <3> QED
      BY <1>1, <2>2, <3>1, <3>2, <3>3, <3>5 DEF Asking, Own
  <2>4. CASE holder \notin Modbus
    <3>1. todo = <<"moisture", "temperature">>
      BY <1>2, <2>4 DEF Measurement
    <3>2. todo' = <<"temperature">> /\ Head(todo) = "moisture"
      BY <3>1, ShortSequences
    <3>3. Told' => got'[1] = Own("moisture")
      BY <2>2, <3>2 DEF Told
    <3> QED
      BY <1>1, <2>2, <2>4, <3>2, <3>3 DEF Asking, Own
  <2> QED
    BY <2>3, <2>4
<1>3. CASE holder \notin Modbus /\ todo = <<"temperature">> /\ Len(got) = 1 /\ (Told => got[1] = Own("moisture"))
  <2>1. todo' = <<>> /\ Head(todo) = "temperature"
    BY <1>3, ShortSequences
  <2>2. Measurement(holder) = <<"moisture", "temperature">>
    BY <1>3 DEF Measurement
  <2>3. Len(<<"moisture", "temperature">>) = 2 /\ <<"moisture", "temperature">>[1] = "moisture"
        /\ <<"moisture", "temperature">>[2] = "temperature"
    OBVIOUS
  <2>4. Len(got') = 2 /\ got'[1] = got[1] /\ got'[2] = answer /\ \A i \in 1 .. 2 : i = 1 \/ i = 2
    BY <1>1, <1>3
  <2>5. Told' => \A i \in 1 .. Len(got') : got'[i] = Own(Measurement(holder)[i])
    BY <1>3, <2>1, <2>2, <2>3, <2>4 DEF Told
  <2> QED
    BY <1>1, <2>1, <2>2, <2>3, <2>4, <2>5 DEF Asking, Own
<1>4. CASE holder \notin Modbus /\ todo = <<"version">> /\ got = <<>>
  <2>1. todo' = <<>> /\ Len(got) = 0
    BY <1>4, ShortSequences
  <2> QED
    BY <1>1, <1>4, <2>1 DEF Asking
<1> QED
  BY <1>1, <1>2, <1>3, <1>4 DEF Asking

LEMMA ProbesStartProbe == ProbesInv /\ StartProbe => ProbesInv'
<1> SUFFICES ASSUME ProbesInv, StartProbe PROVE ProbesInv'
  OBVIOUS
<1>1. /\ bus' = bus /\ session = "open" /\ session' = "ready" /\ holder' = holder /\ chip' = chip /\ rx' = <<>>
      /\ fetched' = <<>> /\ UNCHANGED <<unsent, sessions, todo, got, reading>>
  BY DEF StartProbe
<1>2. kept' = kept /\ attached' = attached /\ late' = late /\ starting' = FALSE
  BY DEF StartProbe
<1>3. ProbeTypes'
  <2>1. <<>> \in Seq(Parts)
    OBVIOUS
  <2> QED
    BY <1>1, <1>2, <2>1 DEF ProbesInv, ProbeTypes, Probes, Steps
<1>4. SessionHolds' /\ BridgeSound' /\ ReadingsOwn'
  BY <1>1, <1>2 DEF ProbesInv, SessionHolds, BridgeSound, ReadingsOwn, OwnAnswers
<1>5. Owed' /\ SessionAsks'
  BY <1>1, <1>2 DEF ProbesInv, Owed, SessionAsks, InUse, Asking, Told, Own
<1> QED
  BY <1>3, <1>4, <1>5 DEF ProbesInv

LEMMA ProbesAsk == ProbesInv /\ Ask => ProbesInv'
<1> SUFFICES ASSUME ProbesInv, Ask PROVE ProbesInv'
  OBVIOUS
<1>1. /\ bus' = bus /\ session = "ready" /\ session' = "asked" /\ holder' = holder /\ chip' = chip /\ rx' = <<>>
      /\ fetched' = <<>> /\ UNCHANGED <<sessions, todo, got, reading>> /\ todo # <<>>
      /\ unsent' \in {unsent, [unsent EXCEPT ![holder] = @ \o Halves(holder, Head(todo))]}
  BY DEF Ask, Rs485Write, BridgeWrite
<1>2. UNCHANGED <<kept, attached, late, starting>>
  BY DEF Ask
<1>3. /\ holder \in AllProbes /\ Asking /\ unsent \in [AllProbes -> Seq(Parts)]
  BY <1>1, ProbeNames DEF ProbesInv, ProbeTypes, SessionHolds, SessionAsks, InUse
<1> DEFINE q == Head(todo)
<1>4. q \in Asks /\ (holder \in Modbus => q = "registers")
  BY <1>1, <1>3, AskFacts
<1>5. /\ First(q) \in Parts /\ Second(q) \in Parts /\ Halves(holder, q) = <<First(q), Second(q)>>
  <2> HIDE DEF q
  <2> QED
    BY <1>3, <1>4 DEF First, Second, Halves, Parts
<1> HIDE DEF q
<1>6. <<First(q), Second(q)>> \in Seq(Parts) /\ unsent[holder] \o <<First(q), Second(q)>> \in Seq(Parts)
  BY <1>3, <1>5
<1>7. unsent' \in {unsent, [unsent EXCEPT ![holder] = @ \o <<First(q), Second(q)>>]}
  BY <1>1, <1>5 DEF q
<1>8. /\ unsent' \in [AllProbes -> Seq(Parts)] /\ \A p \in AllProbes : p # holder => unsent'[p] = unsent[p]
      /\ unsent'[holder] \in {unsent[holder], unsent[holder] \o <<First(q), Second(q)>>}
  BY <1>3, <1>6, <1>7
<1>9. ProbeTypes'
  <2>1. <<>> \in Seq(Parts)
    OBVIOUS
  <2> QED
    BY <1>1, <1>2, <1>8, <2>1 DEF ProbesInv, ProbeTypes, Probes, Steps
<1>10. SessionHolds' /\ BridgeSound' /\ ReadingsOwn'
  BY <1>1, <1>2 DEF ProbesInv, SessionHolds, BridgeSound, ReadingsOwn, OwnAnswers
<1>11. Owed'
  <2> SUFFICES ASSUME ~late, holder \notin Modbus
               PROVE  /\ \A p \in AllProbes : p # holder => unsent'[p] = <<>>
                      /\ OnTheWay(q, <<>>, <<>>, unsent'[holder])
    BY <1>1, <1>2 DEF Owed, OnTheWay, First, Second, q
  <2>1. \A p \in AllProbes : unsent[p] = <<>>
    BY <1>1, <1>2 DEF ProbesInv, Owed, NothingOwed
  <2>2. <<>> \o <<First(q), Second(q)>> = <<First(q), Second(q)>>
    BY <1>6, ConcatEmptySeq
  <2>3. unsent'[holder] \in {<<>>, <<First(q), Second(q)>>}
    BY <1>3, <1>8, <2>1, <2>2
  <2> QED
    BY <1>8, <2>1, <2>3 DEF OnTheWay
<1>12. SessionAsks'
  BY <1>1, <1>2, <1>3 DEF SessionAsks, Asking, Told, Own
<1> QED
  BY <1>9, <1>10, <1>11, <1>12 DEF ProbesInv

LEMMA ProbesFail == ProbesInv /\ ProbeFails => ProbesInv'
<1> SUFFICES ASSUME ProbesInv, ProbeFails PROVE ProbesInv'
  OBVIOUS
<1>1. /\ bus' = bus /\ session \in {"open", "ready", "asked", "header"} /\ session' = "closing" /\ holder' = holder
      /\ chip' = chip /\ rx' = rx /\ fetched' = <<>> /\ UNCHANGED <<unsent, sessions, todo, got>>
      /\ reading' \in {reading, [reading EXCEPT ![holder] = NotRead]}
  BY DEF ProbeFails, lineVars
<1>2. UNCHANGED <<kept, attached, late, starting>>
  BY DEF ProbeFails
<1>3. holder \in AllProbes /\ holder # "none"
  BY <1>1, ProbeNames DEF ProbesInv, ProbeTypes, SessionHolds
<1>4. reading' \in Kept /\ ReadingsOwn'
  BY <1>1, <1>3, ReadingFails
<1>5. ProbeTypes'
  <2>1. <<>> \in Seq(Parts)
    OBVIOUS
  <2> QED
    BY <1>1, <1>2, <1>4, <2>1 DEF ProbesInv, ProbeTypes, Probes, Steps
<1>6. SessionHolds' /\ BridgeSound'
  BY <1>1, <1>2, <1>3 DEF ProbesInv, SessionHolds, BridgeSound
<1>7. Owed' /\ SessionAsks'
  BY <1>1 DEF Owed, SessionAsks, InUse
<1> QED
  BY <1>4, <1>5, <1>6, <1>7 DEF ProbesInv

LEMMA ProbesReadHeader == ProbesInv /\ ReadHeader => ProbesInv'
<1> SUFFICES ASSUME ProbesInv, ReadHeader PROVE ProbesInv'
  OBVIOUS
<1>1. /\ bus' = bus /\ holder \in Modbus /\ session = "asked" /\ session' = "header" /\ holder' = holder /\ chip' = chip
      /\ rx # <<>> /\ fetched' = <<Head(rx)>> /\ rx' = Tail(rx) /\ HeaderIsOurs(fetched'[1])
      /\ UNCHANGED <<unsent, sessions, todo, got, reading>>
  BY DEF ReadHeader, Rs485Read
<1>2. UNCHANGED <<kept, attached, late, starting>>
  BY DEF ReadHeader
<1>3. Head(rx) \in Parts /\ Tail(rx) \in Seq(Parts)
  BY <1>1 DEF ProbesInv, ProbeTypes
<1>4. fetched' \in Seq(Parts) /\ Len(fetched') = 1 /\ fetched'[1].from = holder
  BY <1>1, <1>3 DEF HeaderIsOurs
<1>5. ProbeTypes'
  BY <1>1, <1>2, <1>3, <1>4 DEF ProbesInv, ProbeTypes, Probes, Steps
<1>6. SessionHolds' /\ BridgeSound' /\ ReadingsOwn'
  BY <1>1, <1>2, <1>4 DEF ProbesInv, SessionHolds, BridgeSound, ReadingsOwn, OwnAnswers
<1>7. Owed' /\ SessionAsks'
  BY <1>1, <1>2 DEF ProbesInv, Owed, SessionAsks, InUse, Asking, Told, Own
<1> QED
  BY <1>5, <1>6, <1>7 DEF ProbesInv

LEMMA ProbesReadRegisters == ProbesInv /\ ReadRegisters => ProbesInv'
<1> SUFFICES ASSUME ProbesInv, ReadRegisters PROVE ProbesInv'
  OBVIOUS
<1> DEFINE part == Head(rx)
           answer == [from |-> part.from, asks |-> part.asks, whole |-> TRUE]
<1>1. /\ bus' = bus /\ session = "header" /\ session' = "ready" /\ holder' = holder /\ chip' = chip
      /\ rx # <<>> /\ fetched' = <<part>> /\ rx' = Tail(rx) /\ unsent' = unsent /\ sessions' = sessions /\ reading' = reading
  BY DEF ReadRegisters, Rs485Read
<1>a. todo' = Tail(todo) /\ got' = Append(got, [from |-> fetched'[1].from, asks |-> fetched'[1].asks, whole |-> TRUE])
      /\ CrcMatches(fetched[1], fetched'[1])
  BY DEF ReadRegisters, Answered
<1>2. UNCHANGED <<kept, attached, late, starting>>
  BY DEF ReadRegisters
<1>3. part \in Parts /\ Tail(rx) \in Seq(Parts) /\ fetched'[1] = part /\ fetched' \in Seq(Parts)
  BY <1>1 DEF ProbesInv, ProbeTypes
<1>4. holder \in Modbus /\ Asking /\ fetched[1].from = holder /\ got \in Seq(Answers)
  BY <1>1 DEF ProbesInv, ProbeTypes, SessionHolds, SessionAsks, InUse
<1>5. part.from = holder
  BY <1>a, <1>3, <1>4 DEF CrcMatches
<1>6. part.asks = "registers" /\ part.from \in AllProbes \cup {"noise"} /\ part.asks \in Asks
  BY <1>3, <1>4, <1>5 DEF Parts
<1>7. todo' = Tail(todo) /\ got' = Append(got, answer)
  BY <1>a, <1>3
<1> HIDE DEF part
<1>8. answer \in Answers
  BY <1>6 DEF Answers
<1>9. ProbeTypes'
  <2>1. got' \in Seq(Answers)
    BY <1>4, <1>7, <1>8
  <2> QED
    BY <1>1, <1>2, <1>3, <2>1 DEF ProbesInv, ProbeTypes, Probes, Steps
<1>10. SessionHolds' /\ BridgeSound' /\ ReadingsOwn'
  BY <1>1, <1>2 DEF ProbesInv, SessionHolds, BridgeSound, ReadingsOwn, OwnAnswers
<1>11. Owed'
  BY <1>1, <1>4 DEF Owed
<1>12. SessionAsks'
  <2>1. todo # <<>>
    BY <1>1 DEF ProbesInv, SessionAsks
  <2>2. Head(todo) = "registers"
    BY <1>4, <2>1, AskFacts
  <2>3. answer = Own(Head(todo))
    BY <1>5, <1>6, <2>2 DEF Own
  <2> HIDE DEF answer
  <2>4. Asking'
    BY <1>1, <1>2, <1>4, <1>7, <1>8, <2>1, <2>3, AnswerFacts
  <2> QED
    BY <1>1, <2>4 DEF SessionAsks
<1> QED
  BY <1>9, <1>10, <1>11, <1>12 DEF ProbesInv

LEMMA ProbesReceiveLine == ProbesInv /\ ReceiveLine => ProbesInv'
<1> SUFFICES ASSUME ProbesInv, ReceiveLine PROVE ProbesInv'
  OBVIOUS
<1>1. /\ bus' = bus /\ holder \notin Modbus /\ session = "asked" /\ session' = session /\ holder' = holder /\ chip' = chip
      /\ rx # <<>> /\ UNCHANGED <<unsent, sessions, todo, got, reading>>
      /\ \/ fetched' = Append(fetched, Head(rx)) /\ rx' = Tail(rx)
         \/ fetched' = fetched \o rx /\ rx' = <<>>
  BY DEF ReceiveLine, Rs485ReadUntil, BridgeReadUntil
<1>2. UNCHANGED <<kept, attached, late, starting>>
  BY DEF ReceiveLine
<1>3. rx \in Seq(Parts) /\ fetched \in Seq(Parts)
  BY DEF ProbesInv, ProbeTypes
<1>4. rx' \in Seq(Parts) /\ fetched' \in Seq(Parts)
  <2>1. Append(fetched, Head(rx)) \in Seq(Parts) /\ Tail(rx) \in Seq(Parts)
    BY <1>1, <1>3
  <2>2. fetched \o rx \in Seq(Parts) /\ <<>> \in Seq(Parts)
    BY <1>3
  <2> QED
    BY <1>1, <2>1, <2>2
<1>5. ProbeTypes'
  BY <1>1, <1>2, <1>4 DEF ProbesInv, ProbeTypes, Probes
<1>6. SessionHolds' /\ BridgeSound' /\ ReadingsOwn'
  BY <1>1, <1>2 DEF ProbesInv, SessionHolds, BridgeSound, ReadingsOwn, OwnAnswers
<1>7. Owed'
  <2> DEFINE s == First(Head(todo))
             e == Second(Head(todo))
  <2> SUFFICES ASSUME ~late PROVE OnTheWay(Head(todo), fetched', rx', unsent[holder])
    BY <1>1, <1>2 DEF ProbesInv, Owed, OnTheWay, First, Second
  <2>1. OnTheWay(Head(todo), fetched, rx, unsent[holder])
    BY <1>1 DEF ProbesInv, Owed
  <2> HIDE DEF s, e
  <2>2. <<>> \o <<s>> = <<s>> /\ <<>> \o <<s, e>> = <<s, e>> /\ <<s>> \o <<e>> = <<s, e>>
    BY ShortSequences
  <2>3. CASE fetched = <<>> /\ rx = <<s>> /\ unsent[holder] = <<e>>
    <3>1. fetched' = <<s>> /\ rx' = <<>>
      BY <1>1, <2>2, <2>3, ShortSequences
    <3> QED
      BY <2>3, <3>1 DEF OnTheWay, s, e
  <2>4. CASE fetched = <<>> /\ rx = <<s, e>> /\ unsent[holder] = <<>>
    <3>1. (fetched' = <<s>> /\ rx' = <<e>>) \/ (fetched' = <<s, e>> /\ rx' = <<>>)
      BY <1>1, <2>2, <2>4, ShortSequences
    <3> QED
      BY <2>4, <3>1 DEF OnTheWay, s, e
  <2>5. CASE fetched = <<s>> /\ rx = <<e>> /\ unsent[holder] = <<>>
    <3>1. Head(rx) = e /\ Tail(rx) = <<>> /\ fetched \o rx = <<s, e>>
      BY <2>2, <2>5, ShortSequences
    <3>2. Append(fetched, e) = <<s, e>>
      BY <2>5, ShortSequences
    <3>3. fetched' = <<s, e>> /\ rx' = <<>>
      BY <1>1, <3>1, <3>2
    <3> QED
      BY <2>5, <3>3 DEF OnTheWay, s, e
  <2> QED
    BY <1>1, <2>1, <2>3, <2>4, <2>5 DEF OnTheWay, s, e
<1>8. SessionAsks'
  BY <1>1, <1>2 DEF ProbesInv, SessionAsks, Asking, Told, Own
<1> QED
  BY <1>5, <1>6, <1>7, <1>8 DEF ProbesInv

\* A line that is taken is the answer, when nothing else was on its way.
LEMMA LineFacts ==
  ASSUME NEW q, fetched \in Seq(Parts), OnTheWay(q, fetched, rx, unsent[holder]), NEW i \in DOMAIN fetched, TakeLine(i)
  PROVE  /\ SubSeq(fetched, 1, i) = <<First(q), Second(q)>> /\ SubSeq(fetched, i + 1, Len(fetched)) = <<>>
         /\ unsent[holder] = <<>>
<1> DEFINE s == First(q)
           e == Second(q)
<1>1. fetched[i].part = "end" /\ s.part = "start" /\ e.part = "end"
  BY DEF TakeLine, First, Second
<1>2. fetched = <<s>> \/ (fetched = <<s, e>> /\ unsent[holder] = <<>>)
  <2>1. fetched # <<>>
    OBVIOUS
  <2> QED
    BY <2>1 DEF OnTheWay
<1> HIDE DEF s, e
<1>3. fetched # <<s>>
  BY <1>1
<1>4. fetched = <<s, e>> /\ unsent[holder] = <<>> /\ i \in 1 .. 2
  BY <1>2, <1>3
<1>5. i = 2
  BY <1>1, <1>4
<1>6. Len(fetched) = 2 /\ fetched[1] = s /\ fetched[2] = e /\ s \in Parts /\ e \in Parts
  BY <1>4
<1>7. SubSeq(fetched, 1, 2) = <<s, e>>
  <2> DEFINE t == SubSeq(fetched, 1, 2)
  <2>1. \A j \in 1 .. 2 : fetched[j] \in Parts
    BY <1>6
  <2>2. t \in Seq(Parts) /\ Len(t) = 2 /\ \A j \in 1 .. 2 : t[j] = fetched[j]
    <3>1. 1 \in Int /\ 2 \in Int /\ 1 <= 2 /\ 2 - 1 + 1 = 2 /\ \A j \in 1 .. 2 : 1 + j - 1 = j
      OBVIOUS
    <3> QED
      BY <2>1, <3>1, SubSeqProperties
  <2> HIDE DEF t
  <2>3. t = fetched
    BY <1>6, <2>2, SeqEqual
  <2> QED
    BY <1>4, <2>3 DEF t
<1>8. SubSeq(fetched, 3, 2) = <<>>
  <2> DEFINE t == SubSeq(fetched, 3, 2)
  <2>1. t \in Seq(Parts) /\ Len(t) = 0
    <3>1. 3 \in Int /\ 2 \in Int /\ ~(3 <= 2) /\ \A j \in 3 .. 2 : fetched[j] \in Parts
      OBVIOUS
    <3> QED
      BY <3>1, SubSeqProperties
  <2> HIDE DEF t
  <2>2. t = <<>>
    BY <2>1
  <2> QED
    BY <2>2 DEF t
<1> QED
  BY <1>4, <1>5, <1>6, <1>7, <1>8 DEF s, e

LEMMA ProbesQueryValue == ProbesInv /\ QueryValue => ProbesInv'
<1> SUFFICES ASSUME ProbesInv, QueryValue PROVE ProbesInv'
  OBVIOUS
<1>1. /\ bus' = bus /\ holder \notin Modbus /\ session = "asked" /\ session' = "ready" /\ holder' = holder /\ chip' = chip
      /\ UNCHANGED <<rx, unsent, sessions, reading>>
  BY DEF QueryValue
<1>2. UNCHANGED <<kept, attached, late, starting>>
  BY DEF QueryValue
<1>3. PICK i \in DOMAIN fetched :
        LET line == SubSeq(fetched, 1, i)
            last == Last(line) IN
        /\ TakeLine(i)
        /\ fetched' = SubSeq(fetched, i + 1, Len(fetched))
        /\ Answered([from |-> last.from, asks |-> last.asks, whole |-> line = Halves(last.from, last.asks)])
  BY DEF QueryValue
<1> DEFINE line == SubSeq(fetched, 1, i)
           last == line[Len(line)]
           whole == line = Halves(last.from, last.asks)
           answer == [from |-> last.from, asks |-> last.asks, whole |-> whole]
<1>4. /\ TakeLine(i) /\ fetched' = SubSeq(fetched, i + 1, Len(fetched))
      /\ todo' = Tail(todo) /\ got' = Append(got, answer)
  BY <1>3 DEF Answered, Last
<1>5. /\ holder \in AllProbes /\ Asking /\ todo # <<>> /\ fetched \in Seq(Parts) /\ got \in Seq(Answers)
      /\ unsent \in [AllProbes -> Seq(Parts)] /\ i \in 1 .. Len(fetched)
  <2>1. holder \in Probes
    BY <1>1 DEF ProbesInv, ProbeTypes, SessionHolds
  <2>2. i \in DOMAIN fetched /\ fetched \in Seq(Parts)
    BY <1>3 DEF ProbesInv, ProbeTypes
  <2> QED
    BY <1>1, <2>1, <2>2, ProbeNames DEF ProbesInv, ProbeTypes, SessionAsks, InUse
<1>6. line \in Seq(Parts) /\ Len(line) = i /\ last \in Parts
  <2>1. i \in Int /\ 1 <= i /\ i - 1 + 1 = i /\ \A j \in 1 .. i : fetched[j] \in Parts
    BY <1>5
  <2>2. line \in Seq(Parts) /\ Len(line) = i
    BY <2>1, SubSeqProperties
  <2> HIDE DEF line
  <2>4. i \in Int /\ 1 <= i
    BY <2>1
  <2>3. i \in 1 .. Len(line)
    BY <2>2, <2>4
  <2> QED
    BY <2>2, <2>3
<1>7. fetched' \in Seq(Parts)
  <2>1. i + 1 \in Int /\ Len(fetched) \in Int /\ \A j \in i + 1 .. Len(fetched) : fetched[j] \in Parts
    BY <1>5
  <2> QED
    BY <1>4, <2>1, SubSeqProperties
<1>8. whole \in BOOLEAN
  OBVIOUS
<1>9. last.from \in AllProbes \cup {"noise"} /\ last.asks \in Asks
  BY <1>6 DEF Parts
<1>10. ~late =>
         /\ line = <<First(Head(todo)), Second(Head(todo))>> /\ unsent[holder] = <<>>
         /\ \A q \in AllProbes : q # holder => unsent[q] = <<>>
  <2> SUFFICES ASSUME ~late PROVE /\ line = <<First(Head(todo)), Second(Head(todo))>> /\ unsent[holder] = <<>>
                                  /\ \A q \in AllProbes : q # holder => unsent[q] = <<>>
    OBVIOUS
  <2>1. OnTheWay(Head(todo), fetched, rx, unsent[holder]) /\ \A q \in AllProbes : q # holder => unsent[q] = <<>>
    BY <1>1 DEF ProbesInv, Owed
  <2> QED
    BY <1>4, <1>5, <2>1, LineFacts
<1>11. ~late => last = Second(Head(todo)) /\ whole
  <2> SUFFICES ASSUME ~late PROVE last = Second(Head(todo)) /\ whole
    OBVIOUS
  <2>1. line = <<First(Head(todo)), Second(Head(todo))>>
    BY <1>10
  <2> DEFINE s == First(Head(todo))
             e == Second(Head(todo))
  <2> HIDE DEF s, e, line
  <2>2. last = e
    <3>1. line = <<s, e>>
      BY <2>1 DEF s, e
    <3> QED
      BY <3>1
  <2>3. e.from = holder /\ e.asks = Head(todo)
    BY DEF e, Second
  <2> HIDE DEF last
  <2>4. Halves(last.from, last.asks) = <<First(Head(todo)), Second(Head(todo))>>
    BY <2>2, <2>3 DEF Halves, First, Second
  <2>5. last = Second(Head(todo))
    BY <2>2 DEF e
  <2> QED
    BY <2>1, <2>4, <2>5
<1> HIDE DEF line, last, whole
<1>12. answer \in Answers
  BY <1>8, <1>9 DEF Answers
<1>13. Told => answer = Own(Head(todo))
  <2> SUFFICES ASSUME ~late PROVE answer = Own(Head(todo))
    BY <1>1 DEF Told
  <2>1. last.from = holder /\ last.asks = Head(todo)
    BY <1>11 DEF Second
  <2>2. whole = TRUE
    BY <1>8, <1>11, Zenon
  <2> QED
    BY <2>1, <2>2 DEF Own
<1> HIDE DEF answer
<1>14. Asking' /\ got' \in Seq(Answers)
  BY <1>1, <1>2, <1>4, <1>5, <1>12, <1>13, AnswerFacts
<1>15. ProbeTypes'
  BY <1>1, <1>2, <1>7, <1>14 DEF ProbesInv, ProbeTypes, Probes, Steps
<1>16. SessionHolds' /\ BridgeSound' /\ ReadingsOwn'
  BY <1>1, <1>2 DEF ProbesInv, SessionHolds, BridgeSound, ReadingsOwn, OwnAnswers
<1>17. Owed'
  <2>1. ~late => unsent = NothingOwed
    <3> SUFFICES ASSUME ~late PROVE unsent = NothingOwed
      OBVIOUS
    <3>1. \A q \in AllProbes : unsent[q] = <<>>
      BY <1>10
    <3> QED
      BY <1>5, <3>1 DEF NothingOwed
  <2> QED
    BY <1>1, <1>2, <2>1 DEF Owed
<1>18. SessionAsks'
  BY <1>1, <1>14 DEF SessionAsks
<1> QED
  BY <1>14, <1>15, <1>16, <1>17, <1>18 DEF ProbesInv

LEMMA ProbesMeasured == ProbesInv /\ ProbeMeasured => ProbesInv'
<1> SUFFICES ASSUME ProbesInv, ProbeMeasured PROVE ProbesInv'
  OBVIOUS
<1> DEFINE new == [answers |-> got, late |-> late]
<1>1. /\ bus' = bus /\ session = "ready" /\ session' = "closing" /\ todo = <<>> /\ holder' = holder /\ chip' = chip
      /\ UNCHANGED <<rx, fetched, unsent, sessions, todo, got>>
      /\ reading' = IF Len(got) = Len(Measurement(holder)) THEN [reading EXCEPT ![holder] = new] ELSE reading
  BY DEF ProbeMeasured, lineVars
<1>2. UNCHANGED <<kept, attached, late, starting>>
  BY DEF ProbeMeasured
<1>3. holder \in AllProbes /\ holder # "none" /\ Asking /\ got \in Seq(Answers) /\ late \in BOOLEAN
      /\ reading \in Kept /\ ReadingsOwn
  BY <1>1, ProbeNames DEF ProbesInv, ProbeTypes, SessionHolds, SessionAsks, InUse
<1>4. new \in [answers : Seq(Answers), late : BOOLEAN] /\ new.answers = got /\ new.late = late
  BY <1>3
<1> HIDE DEF new
<1>5. reading' \in Kept
  BY <1>1, <1>3, <1>4
<1>6. ReadingsOwn'
  <2>1. CASE Len(got) # Len(Measurement(holder))
    BY <1>1, <1>3, <2>1 DEF ReadingsOwn, OwnAnswers
  <2>2. CASE Len(got) = Len(Measurement(holder))
    <3>1. reading'[holder] = new /\ \A p \in AllProbes : p # holder => reading'[p] = reading[p]
      BY <1>1, <1>3, <2>2
    <3>2. Told => \A i \in 1 .. Len(got) : got[i] = Own(Measurement(holder)[i])
      <4>1. holder \notin Modbus => Len(Measurement(holder)) = 2
        BY DEF Measurement
      <4>2. Measurement(holder) # <<>> /\ <<"temperature">> # <<>> /\ <<"version">> # <<>>
        BY ShortSequences DEF Measurement
      <4>3. \/ Told => \A i \in 1 .. Len(got) : got[i] = Own(Measurement(holder)[i])
            \/ holder \notin Modbus /\ Len(got) = 1
        BY <1>1, <1>3, <4>2 DEF Asking
      <4> QED
        BY <2>2, <4>1, <4>3
    <3>3. \A p \in AllProbes : Len(reading'[p].answers) \in {0, Len(Measurement(p))}
      BY <1>3, <1>4, <2>2, <3>1 DEF ReadingsOwn
    <3>4. OwnAnswers'
      <4> SUFFICES ASSUME NEW p \in AllProbes, reading'[p].answers # <<>>, p \in Modbus \/ ~reading'[p].late,
                          NEW i \in DOMAIN reading'[p].answers
                   PROVE  reading'[p].answers[i] = [from |-> p, asks |-> Measurement(p)[i], whole |-> TRUE]
        BY DEF OwnAnswers
      <4>1. CASE p = holder
        <5>1. reading'[p].answers = got /\ reading'[p].late = late
          BY <1>4, <3>1, <4>1
        <5>2. Told
          BY <4>1, <5>1 DEF Told
        <5>3. i \in 1 .. Len(got)
          BY <1>3, <5>1
        <5> QED
          BY <3>2, <4>1, <5>1, <5>2, <5>3 DEF Own
      <4>2. CASE p # holder
        BY <1>3, <3>1, <4>2 DEF ReadingsOwn, OwnAnswers
      <4> QED
        BY <4>1, <4>2
    <3> QED
      BY <3>3, <3>4 DEF ReadingsOwn
  <2> QED
    BY <2>1, <2>2
<1>7. ProbeTypes'
  BY <1>1, <1>2, <1>5 DEF ProbesInv, ProbeTypes, Probes, Steps
<1>8. SessionHolds' /\ BridgeSound'
  BY <1>1, <1>2, <1>3 DEF ProbesInv, SessionHolds, BridgeSound
<1>9. Owed' /\ SessionAsks'
  BY <1>1 DEF Owed, SessionAsks, InUse
<1> QED
  BY <1>6, <1>7, <1>8, <1>9 DEF ProbesInv

LEMMA ProbesInvNext == ProbesInv /\ ProbesNext => ProbesInv'
<1> SUFFICES ASSUME ProbesInv, ProbesNext PROVE ProbesInv'
  OBVIOUS
<1>1. ASSUME NEW p \in Probes, NEW questions \in Questions(p), OpenSession(p, questions)
      PROVE  ProbesInv'
  <2>1. OpenRs485(p) \/ OpenMole(p)
    BY <1>1 DEF OpenSession
  <2> QED
    BY <1>1, <2>1, ProbesOpenRs485, ProbesOpenMole
<1> QED
  BY <1>1, ProbesStartProbe, ProbesAsk, ProbesFail, ProbesReadHeader, ProbesReadRegisters, ProbesReceiveLine, ProbesQueryValue,
     ProbesMeasured, ProbesBatchStarts, ProbesBatchEnds, ProbesAttachPins, ProbesDetachPins, ProbesReleaseRs485, ProbesCloseMole,
     ProbesBabble, ProbesDeliver DEF ProbesNext

LEMMA ProbesInvRests == ProbesInv /\ UNCHANGED probeVars => ProbesInv'
<1> SUFFICES ASSUME ProbesInv, UNCHANGED probeVars PROVE ProbesInv'
  OBVIOUS
<1>1. /\ UNCHANGED <<bus, holder, session, chip, rx, fetched>>
      /\ UNCHANGED <<unsent, sessions, todo, got, reading>>
      /\ UNCHANGED <<kept, attached, late, starting>>
  BY DEF probeVars, linkVars, lineVars
<1>2. ProbeTypes' /\ SessionHolds' /\ BridgeSound'
  BY <1>1 DEF ProbesInv, ProbeTypes, Probes, SessionHolds, BridgeSound
<1>3. Owed' /\ SessionAsks' /\ ReadingsOwn'
  BY <1>1 DEF ProbesInv, Owed, OnTheWay, First, Second, SessionAsks, Asking, Told, Own, ReadingsOwn, OwnAnswers
<1> QED
  BY <1>2, <1>3 DEF ProbesInv

LEMMA ProbesInvImplies == ProbesInv => ProbesTypeOK /\ OwnAnswers /\ NotBackPowered /\ BridgeAtRest
<1> SUFFICES ASSUME ProbesInv PROVE ProbesTypeOK /\ OwnAnswers /\ NotBackPowered /\ BridgeAtRest
  OBVIOUS
<1>1. ProbesTypeOK /\ OwnAnswers
  BY DEF ProbesInv, ProbeTypes, ReadingsOwn, ProbesTypeOK, LinksTypeOK, Steps, Chips
<1>2. NotBackPowered
  BY DEF ProbesInv, SessionHolds, NotBackPowered, Powered
<1>3. BridgeAtRest
  <2> SUFFICES ASSUME holder = "none", chip.ready, ~chip.failed PROVE ~chip.supply /\ chip.awake = {}
    BY DEF BridgeAtRest
  <2>1. bus = "mole"
    <3>1. ~Unpowered.ready
      BY Zenon DEF Unpowered
    <3> QED
      BY <3>1 DEF ProbesInv, ProbeTypes, BridgeSound
  <2>2. chip.awake \subseteq {"none"} /\ chip.awake \subseteq AllProbes /\ ~chip.supply
    BY <2>1 DEF ProbesInv, ProbeTypes, BridgeSound, Chips
  <2> QED
    BY <2>2, ProbeNames
<1> QED
  BY <1>1, <1>2, <1>3

HIDE DEF Kept
--------
(* The boards.  What a table has is relied on as TablesAssumption says it; *)
(* what is made of it, by any number of configured sensors, is proved. *)

BusesOf(b) == {[port |-> p, sda |-> q[1], scl |-> q[2]] : p \in 0..LpPort, q \in PairsOf(b)}

\* The buses of the board b: each pair of pins once, with the port that its pins and its turn give it.
PortFits(b, s, i) ==
  IF OnLpPins(b, s[i].sda, s[i].scl) THEN s[i].port = LpPort
  ELSE IF b.chip = "c6" THEN s[i].port = 0 ELSE s[i].port = i - 1
BusesFit(b, s) ==
  /\ s \in Seq(BusesOf(b)) /\ (b.chip = "s3" => Len(s) <= 2)
  /\ \A i \in DOMAIN s : PortFits(b, s, i)
  /\ \A i, j \in DOMAIN s : s[i].sda = s[j].sda /\ s[i].scl = s[j].scl => i = j
  /\ \A i, j \in DOMAIN s : s[i].port = s[j].port => i = j

GaugeBus(b) ==
  [port |-> IF OnLpPins(b, b.gauge.sda, b.gauge.scl) THEN LpPort ELSE 0, sda |-> b.gauge.sda, scl |-> b.gauge.scl]
FirstBuses(b) == IF b.gauge.kind = "bq27220" THEN <<GaugeBus(b)>> ELSE <<>>

TakenByOthers(b, s) == b.model = "mk10" \/ \E i \in DOMAIN s : s[i].sda \in {"A1", "B1"}
Refusals ==
  /\ \A r \in refused : r[1] \notin {"gauge", "ina219"}
  /\ <<"i2c", board.external>> \in refused => TakenByOthers(board, buses)

\* How far startDevice() is.
Underway ==
  /\ step = "app_main" => board = GenericDevice(unit.chip) /\ claims = {}
  /\ step # "app_main" => board = DeviceFor(unit) /\ names = PinsOf(board) /\ byGpio = LatestOf(board)
  /\ step # "factories" => timers = {} /\ channels = 0 /\ refused = {}
  /\ step \in {"app_main", "constructed"} => buses = <<>>
  /\ step \in {"battery", "indicators", "connected"} => buses = FirstBuses(board)
BoardsInv ==
  /\ unit \in Units /\ step \in {"app_main", "constructed", "battery", "indicators", "connected", "factories"}
  /\ created \in 0..MaxPeripherals /\ channels \in Nat /\ aborted = FALSE
  /\ Underway /\ claims \subseteq AllUses(board) /\ BusesFit(board, buses) /\ Refusals

LEMMA BoardWired == ASSUME unit \in Units, Underway PROVE Wired(board)
BY TablesAssumption DEF Underway

LEMMA BusTyped == ASSUME NEW b, NEW x \in BusesOf(b)
  PROVE x.port \in 0..LpPort /\ <<x.sda, x.scl>> \in {<<q[1], q[2]>> : q \in PairsOf(b)}
<1>1. PICK p \in 0..LpPort, q \in PairsOf(b) : x = [port |-> p, sda |-> q[1], scl |-> q[2]]
  BY DEF BusesOf
<1>2. x.port = p /\ x.sda = q[1] /\ x.scl = q[2]
  BY ONLY <1>1
<1> QED
  BY <1>2

\* A pair that is not known may take the port.
NewBus(b, s, q, port) ==
  /\ \A i \in DOMAIN s : ~(s[i].sda = q[1] /\ s[i].scl = q[2])
  /\ \/ OnLpPins(b, q[1], q[2]) /\ port = LpPort
     \/ ~OnLpPins(b, q[1], q[2]) /\ b.chip = "c6" /\ port = 0 /\ (\A i \in DOMAIN s : s[i].port # 0)
     \/ ~OnLpPins(b, q[1], q[2]) /\ b.chip # "c6" /\ port = Len(s) /\ Len(s) < 2

\* A pair that is not known takes a port that nobody has.
LEMMA AppendFits ==
  ASSUME NEW b, b.chip \in {"s3", "c6"}, PairsKnown(b), NEW s, BusesFit(b, s), NEW q \in PairsOf(b), NEW port,
         NewBus(b, s, q, port)
  PROVE  BusesFit(b, Append(s, [port |-> port, sda |-> q[1], scl |-> q[2]]))
<1> DEFINE x == [port |-> port, sda |-> q[1], scl |-> q[2]]
           t == Append(s, x)
<1>0. /\ b.chip = "s3" => ~OnLpPins(b, q[1], q[2])
      /\ \A i \in DOMAIN s : ~(s[i].sda = q[1] /\ s[i].scl = q[2])
      /\ \/ OnLpPins(b, q[1], q[2]) /\ port = LpPort
         \/ ~OnLpPins(b, q[1], q[2]) /\ b.chip = "c6" /\ port = 0 /\ (\A i \in DOMAIN s : s[i].port # 0)
         \/ ~OnLpPins(b, q[1], q[2]) /\ b.chip # "c6" /\ port = Len(s) /\ Len(s) < 2
  BY DEF OnLpPins, NewBus
<1>1. s \in Seq(BusesOf(b)) /\ Len(s) \in Nat /\ DOMAIN s = 1..Len(s)
  BY DEF BusesFit
<1>2. port \in 0..LpPort
  BY <1>0, <1>1 DEF LpPort
<1>3. x \in BusesOf(b) /\ x.port = port /\ x.sda = q[1] /\ x.scl = q[2]
  BY <1>2 DEF BusesOf
<1> HIDE DEF x
<1>4. /\ t \in Seq(BusesOf(b)) /\ Len(t) = Len(s) + 1 /\ DOMAIN t = 1..(Len(s) + 1) /\ t[Len(s) + 1] = x
      /\ \A i \in DOMAIN s : i \in DOMAIN t /\ t[i] = s[i]
  BY <1>1, <1>3
<1>5. \A i \in DOMAIN t : i \in DOMAIN s \/ i = Len(s) + 1
  BY <1>1, <1>4
<1> HIDE DEF t
<1>6. b.chip = "s3" => Len(t) <= 2
  BY <1>0, <1>1, <1>4
<1>7. ASSUME NEW i \in DOMAIN t PROVE PortFits(b, t, i)
  <2>1. CASE i \in DOMAIN s
    <3>1. PortFits(b, s, i) /\ t[i] = s[i]
      BY <2>1, <1>4 DEF BusesFit
    <3> QED
      BY <3>1 DEF PortFits
  <2>2. CASE i = Len(s) + 1
    <3>1. t[i].port = port /\ t[i].sda = q[1] /\ t[i].scl = q[2]
      BY <2>2, <1>3, <1>4
    <3> QED
      BY <1>0, <1>1, <2>2, <3>1 DEF PortFits
  <2> QED
    BY <2>1, <2>2, <1>5
<1>8. ASSUME NEW i \in DOMAIN s PROVE s[i].port # port
  <2>0. PortFits(b, s, i) /\ i \in 1..Len(s) /\ s[i] \in BusesOf(b)
    BY <1>1 DEF BusesFit
  <2>1. PICK p \in 0..LpPort, r \in PairsOf(b) : s[i] = [port |-> p, sda |-> r[1], scl |-> r[2]]
    BY <2>0 DEF BusesOf
  <2>2. s[i].sda = r[1] /\ s[i].scl = r[2]
    BY ONLY <2>1
  <2>3. CASE OnLpPins(b, q[1], q[2]) /\ port = LpPort
    <3>1. ~OnLpPins(b, r[1], r[2])
      BY <1>0, <2>2, <2>3 DEF PairsKnown
    <3>2. b.chip = "c6"
      BY <2>3 DEF OnLpPins
    <3> QED
      BY <2>0, <2>2, <2>3, <3>1, <3>2 DEF PortFits, LpPort
  <2>4. CASE ~OnLpPins(b, q[1], q[2]) /\ b.chip = "c6" /\ port = 0 /\ (\A k \in DOMAIN s : s[k].port # 0)
    BY <2>4
  <2>5. CASE ~OnLpPins(b, q[1], q[2]) /\ b.chip # "c6" /\ port = Len(s)
    <3>1. ~OnLpPins(b, s[i].sda, s[i].scl)
      BY <2>5 DEF OnLpPins
    <3> QED
      BY <2>0, <2>5, <3>1, <1>1 DEF PortFits
  <2> QED
    BY <1>0, <2>3, <2>4, <2>5
<1>9. \A i, j \in DOMAIN t : t[i].sda = t[j].sda /\ t[i].scl = t[j].scl => i = j
  <2>1. \A i, j \in DOMAIN s : s[i].sda = s[j].sda /\ s[i].scl = s[j].scl => i = j
    BY DEF BusesFit
  <2> QED
    BY <2>1, <1>0, <1>3, <1>4, <1>5
<1>10. \A i, j \in DOMAIN t : t[i].port = t[j].port => i = j
  <2>1. \A i, j \in DOMAIN s : s[i].port = s[j].port => i = j
    BY DEF BusesFit
  <2> QED
    BY <2>1, <1>3, <1>4, <1>5, <1>8
<1>11. BusesFit(b, t)
  BY <1>4, <1>6, <1>7, <1>9, <1>10 DEF BusesFit
<1> QED
  BY <1>11 DEF t, x

\* I2CManager::getBusFor(): a bus that is known, a new one on a port of its own, or none.
LEMMA BusFor ==
  ASSUME Wired(board), BusesFit(board, buses), NEW q \in PairsOf(board)
  PROVE  LET found == getBusFor(q[1], q[2])
         IN /\ BusesFit(board, found.buses)
            /\ TakenByOthers(board, buses) => TakenByOthers(board, found.buses)
            /\ ~found.ok => found.buses = buses /\ (q = board.external => TakenByOthers(board, buses))
<1> DEFINE known == {i \in DOMAIN buses : buses[i].sda = q[1] /\ buses[i].scl = q[2]}
           ports == selectPort(q[1], q[2])
           port == CHOOSE p \in ports : TRUE
           x == [port |-> port, sda |-> q[1], scl |-> q[2]]
           find == getBusFor(q[1], q[2])
<1>0. PairsKnown(board) /\ board.chip \in {"s3", "c6"} /\ (board.external # <<>> => PortsSuffice(board))
  BY DEF Wired
<1>1. buses \in Seq(BusesOf(board)) /\ Len(buses) \in Nat /\ DOMAIN buses = 1..Len(buses)
  BY DEF BusesFit
<1>2. CASE known # {}
  <2>1. find = [ok |-> TRUE, buses |-> buses, port |-> buses[CHOOSE i \in known : TRUE].port]
    BY <1>2 DEF getBusFor
  <2>2. find.ok = TRUE /\ find.buses = buses
    BY ONLY <2>1
  <2> QED
    BY <2>2
<1>3. CASE known = {} /\ ports # {}
  <2>1. find = [ok |-> TRUE, port |-> port, buses |-> Append(buses, x)]
    BY <1>3 DEF getBusFor
  <2>2. find.ok = TRUE /\ find.buses = Append(buses, x)
    BY ONLY <2>1
  <2>3. port \in ports
    BY <1>3
  <2>4. \A i \in DOMAIN buses : ~(buses[i].sda = q[1] /\ buses[i].scl = q[2])
    BY <1>3
  <2> HIDE DEF port, known
  <2>5. \/ OnLpPins(board, q[1], q[2]) /\ port = LpPort
        \/ ~OnLpPins(board, q[1], q[2]) /\ board.chip = "c6" /\ port = 0 /\ (\A i \in DOMAIN buses : buses[i].port # 0)
        \/ ~OnLpPins(board, q[1], q[2]) /\ board.chip # "c6" /\ port = Len(buses) /\ Len(buses) < 2
    BY <2>3, <1>1 DEF selectPort, HpPorts
  <2>6. BusesFit(board, Append(buses, x))
    <3>1. NewBus(board, buses, q, port)
      BY <2>4, <2>5 DEF NewBus
    <3> QED
      BY <3>1, <1>0, AppendFits
  <2>7. \A i \in DOMAIN buses : i \in DOMAIN Append(buses, x) /\ Append(buses, x)[i] = buses[i]
    BY <1>1, AppendProperties
  <2>8. TakenByOthers(board, buses) => TakenByOthers(board, Append(buses, x))
    <3> HIDE DEF x
    <3> QED
      BY <2>7 DEF TakenByOthers
  <2> QED
    BY <2>2, <2>6, <2>8
<1>4. CASE known = {} /\ ports = {}
  <2>1. find = [ok |-> FALSE, buses |-> buses, port |-> 0]
    BY <1>4 DEF getBusFor
  <2>2. find.ok = FALSE /\ find.buses = buses
    BY ONLY <2>1
  <2>3. ASSUME q = board.external, board.model # "mk10" PROVE TakenByOthers(board, buses)
    <3>0. ~OnLpPins(board, q[1], q[2]) /\ q # <<>>
      BY <1>4 DEF selectPort, PairsOf
    <3>1. \A i \in DOMAIN buses : buses[i].sda # q[1] \/ buses[i].scl # q[2]
      BY <1>4
    <3>2. ASSUME NEW i \in DOMAIN buses
          PROVE  \E r \in PairsOf(board) \ {board.external} : buses[i].sda = r[1] /\ buses[i].scl = r[2]
      <4>1. PICK p \in 0..LpPort, r \in PairsOf(board) : buses[i] = [port |-> p, sda |-> r[1], scl |-> r[2]]
        BY <1>1 DEF BusesOf
      <4>2. buses[i].sda = r[1] /\ buses[i].scl = r[2]
        BY ONLY <4>1
      <4> QED
        BY <4>2, <3>1, <2>3
    <3>3. PortsSuffice(board) /\ ~OnLpPins(board, board.external[1], board.external[2])
      BY <1>0, <2>3, <3>0
    <3>4. CASE board.chip = "c6"
      <4>1. PICK i \in DOMAIN buses : buses[i].port = 0
        BY <1>4, <3>0, <3>4 DEF selectPort
      <4>2. PICK r \in PairsOf(board) \ {board.external} : buses[i].sda = r[1] /\ buses[i].scl = r[2]
        BY <3>2
      <4>3. ~OnLpPins(board, r[1], r[2])
        BY <4>1, <4>2 DEF BusesFit, PortFits, LpPort
      <4> QED
        BY <2>3, <3>3, <3>4, <4>2, <4>3 DEF PortsSuffice, TakenByOthers
    <3>5. CASE board.chip = "s3"
      <4>1. Len(buses) >= 2
        BY <1>1, <1>4, <3>0, <3>5 DEF selectPort, HpPorts
      <4>2. 1 \in DOMAIN buses /\ 2 \in DOMAIN buses
        BY <4>1, <1>1
      <4>3. PICK r \in PairsOf(board) \ {board.external} : buses[1].sda = r[1] /\ buses[1].scl = r[2]
        BY <3>2, <4>2
      <4>4. PICK s \in PairsOf(board) \ {board.external} : buses[2].sda = s[1] /\ buses[2].scl = s[2]
        BY <3>2, <4>2
      <4>5. r # s
        <5>1. ASSUME r = s PROVE FALSE
          <6>1. buses[1].sda = buses[2].sda /\ buses[1].scl = buses[2].scl
            BY <5>1, <4>3, <4>4
          <6> QED
            BY <6>1, <4>2 DEF BusesFit
        <5> QED
          BY <5>1
      <4> QED
        BY <2>3, <3>3, <4>2, <4>3, <4>4, <4>5 DEF PortsSuffice, TakenByOthers
    <3> QED
      BY <1>0, <3>4, <3>5
  <2> QED
    BY <2>2, <2>3 DEF TakenByOthers
<1> QED
  BY <1>2, <1>3, <1>4

LEMMA BoardsInvInit == BoardsInit => BoardsInv
<1> SUFFICES ASSUME BoardsInit PROVE BoardsInv
  OBVIOUS
<1>1. /\ unit \in Units /\ board = GenericDevice(unit.chip) /\ step = "app_main" /\ created = 0
      /\ claims = {} /\ buses = <<>> /\ timers = {} /\ channels = 0 /\ aborted = FALSE /\ refused = {}
  BY DEF BoardsInit
<1>2. Underway /\ Refusals
  BY <1>1 DEF Underway, Refusals
<1>3. BusesFit(board, <<>>)
  <2>1. <<>> \in Seq(BusesOf(board)) /\ Len(<<>>) = 0 /\ DOMAIN <<>> = {}
    OBVIOUS
  <2> QED
    BY <2>1 DEF BusesFit
<1> QED
  BY <1>1, <1>2, <1>3, BoardsAssumption DEF BoardsInv

LEMMA UsesKnown == ASSUME NEW b
  PROVE  /\ HeldUses(b) \subseteq AllUses(b) /\ IndicatorUses(b) \subseteq AllUses(b) /\ ModemUses(b) \subseteq AllUses(b)
         /\ \A nSleep \in EnablePins(b) : DriverUses(b, nSleep) \subseteq AllUses(b)
         /\ b.gauge.kind = "analog" => UsesOf(b, {b.gauge.pin}, "battery") \subseteq AllUses(b)
         /\ b.gauge.kind = "bq27220" => BusUses(b, b.gauge.sda, b.gauge.scl, GaugeBus(b).port) \subseteq AllUses(b)
<1>1. GaugeBus(b).port = IF OnLpPins(b, b.gauge.sda, b.gauge.scl) THEN LpPort ELSE 0
  BY DEF GaugeBus
<1>2. /\ HeldUses(b) \subseteq AllUses(b) /\ IndicatorUses(b) \subseteq AllUses(b) /\ ModemUses(b) \subseteq AllUses(b)
      /\ \A nSleep \in EnablePins(b) : DriverUses(b, nSleep) \subseteq AllUses(b)
      /\ GaugeUses(b) \subseteq AllUses(b)
  BY DEF AllUses
<1>3. b.gauge.kind = "analog" => GaugeUses(b) = UsesOf(b, {b.gauge.pin}, "battery")
  BY DEF GaugeUses
<1>4. b.gauge.kind = "bq27220" => GaugeUses(b) = BusUses(b, b.gauge.sda, b.gauge.scl, GaugeBus(b).port)
  <2>1. b.gauge.kind = "bq27220" =>
          GaugeUses(b) = BusUses(b, b.gauge.sda, b.gauge.scl, IF OnLpPins(b, b.gauge.sda, b.gauge.scl) THEN LpPort ELSE 0)
    BY DEF GaugeUses
  <2> QED
    BY <1>1, <2>1
<1> QED
  BY <1>2, <1>3, <1>4

\* The gauge is the first on an I2C bus.
LEMMA GaugeFirst ==
  ASSUME Wired(board), board.gauge.kind = "bq27220", buses = <<>>
  PROVE  LET found == getBusFor(board.gauge.sda, board.gauge.scl)
         IN found.ok = TRUE /\ found.port = GaugeBus(board).port /\ found.buses = <<GaugeBus(board)>>
<1> DEFINE sda == board.gauge.sda
           scl == board.gauge.scl
           ports == selectPort(sda, scl)
           port == CHOOSE p \in ports : TRUE
           found == getBusFor(sda, scl)
           known == {i \in DOMAIN buses : buses[i].sda = sda /\ buses[i].scl = scl}
<1>1. DOMAIN buses = {} /\ Len(buses) = 0 /\ known = {} /\ board.chip \in {"s3", "c6"}
  BY DEF Wired
<1>2. ports = {GaugeBus(board).port}
  BY <1>1 DEF selectPort, HpPorts, GaugeBus
<1>3. ports # {} /\ port = GaugeBus(board).port
  BY <1>2
<1>4. found = [ok |-> TRUE, port |-> port, buses |-> Append(buses, [port |-> port, sda |-> sda, scl |-> scl])]
  BY <1>1, <1>3 DEF getBusFor
<1>5. found.ok = TRUE /\ found.port = port /\ found.buses = Append(buses, [port |-> port, sda |-> sda, scl |-> scl])
  BY ONLY <1>4
<1>6. GaugeBus(board) = [port |-> GaugeBus(board).port, sda |-> sda, scl |-> scl]
  BY DEF GaugeBus
<1>7. Append(<<>>, GaugeBus(board)) = <<GaugeBus(board)>>
  OBVIOUS
<1> QED
  BY <1>3, <1>5, <1>6, <1>7

\* The current sensor finds the gauge's bus.
LEMMA GaugeAgain ==
  ASSUME buses = <<GaugeBus(board)>>
  PROVE  LET found == getBusFor(board.gauge.sda, board.gauge.scl)
         IN found.ok = TRUE /\ found.port = GaugeBus(board).port /\ found.buses = buses
<1> DEFINE sda == board.gauge.sda
           scl == board.gauge.scl
           found == getBusFor(sda, scl)
           known == {i \in DOMAIN buses : buses[i].sda = sda /\ buses[i].scl = scl}
<1>1. DOMAIN buses = {1} /\ buses[1] = GaugeBus(board)
  OBVIOUS
<1>2. buses[1].sda = sda /\ buses[1].scl = scl
  BY <1>1 DEF GaugeBus
<1>3. known = {1}
  BY <1>1, <1>2
<1>4. (CHOOSE i \in known : TRUE) = 1
  BY <1>3
<1>5. found = [ok |-> TRUE, buses |-> buses, port |-> buses[CHOOSE i \in known : TRUE].port]
  BY <1>3 DEF getBusFor
<1>6. found.ok = TRUE /\ found.buses = buses /\ found.port = buses[CHOOSE i \in known : TRUE].port
  BY ONLY <1>5
<1> QED
  BY <1>1, <1>4, <1>6

LEMMA FirstBusesFit == ASSUME NEW b, Wired(b) PROVE BusesFit(b, FirstBuses(b))
<1>1. BusesFit(b, <<>>)
  <2>1. <<>> \in Seq(BusesOf(b)) /\ Len(<<>>) = 0 /\ DOMAIN <<>> = {}
    OBVIOUS
  <2> QED
    BY <2>1 DEF BusesFit
<1>2. ASSUME b.gauge.kind = "bq27220" PROVE BusesFit(b, <<GaugeBus(b)>>)
  <2> DEFINE q == <<b.gauge.sda, b.gauge.scl>>
             port == IF OnLpPins(b, b.gauge.sda, b.gauge.scl) THEN LpPort ELSE 0
             x == [port |-> port, sda |-> q[1], scl |-> q[2]]
  <2>1. q \in PairsOf(b) /\ b.chip \in {"s3", "c6"} /\ PairsKnown(b)
    BY <1>2 DEF Wired, GaugeFits
  <2>2. q[1] = b.gauge.sda /\ q[2] = b.gauge.scl
    OBVIOUS
  <2>3. DOMAIN <<>> = {} /\ Len(<<>>) = 0
    OBVIOUS
  <2>4. GaugeBus(b) = x
    BY <2>2 DEF GaugeBus
  <2>5. Append(<<>>, x) = <<x>>
    OBVIOUS
  <2>6. \/ OnLpPins(b, q[1], q[2]) /\ port = LpPort
        \/ ~OnLpPins(b, q[1], q[2]) /\ b.chip = "c6" /\ port = 0
        \/ ~OnLpPins(b, q[1], q[2]) /\ b.chip # "c6" /\ port = Len(<<>>) /\ Len(<<>>) < 2
    BY <2>2, <2>3
  <2>7. BusesFit(b, Append(<<>>, x))
    <3>1. NewBus(b, <<>>, q, port)
      BY <2>3, <2>6 DEF NewBus
    <3> HIDE DEF q, port
    <3>2. ASSUME NEW s, s = <<>> PROVE BusesFit(b, Append(s, [port |-> port, sda |-> q[1], scl |-> q[2]]))
      <4>1. BusesFit(b, s) /\ NewBus(b, s, q, port)
        BY <1>1, <3>1, <3>2
      <4> QED
        BY <4>1, <2>1, AppendFits
    <3> QED
      BY <3>2
  <2> QED
    BY <2>4, <2>5, <2>7
<1> QED
  BY <1>1, <1>2 DEF FirstBuses

LEMMA BoardsInvRests == BoardsInv /\ UNCHANGED boardVars => BoardsInv'
BY DEF boardVars, BoardsInv, Underway, Refusals

LEMMA DeviceStarted == BoardsInv /\ StartDevice => BoardsInv'
<1> SUFFICES ASSUME BoardsInv, StartDevice PROVE BoardsInv'
  OBVIOUS
<1>1. /\ unit \in Units /\ step = "app_main" /\ step' = "constructed" /\ board' = DeviceFor(unit)
      /\ names' = PinsOf(board') /\ byGpio' = LatestOf(board') /\ claims' = HeldUses(board')
      /\ UNCHANGED <<unit, created, buses, timers, channels, aborted, refused>>
  BY DEF BoardsInv, StartDevice
<1>2. buses = <<>> /\ timers = {} /\ channels = 0 /\ refused = {}
  BY <1>1 DEF BoardsInv, Underway
<1>3. Wired(board')
  BY <1>1, TablesAssumption
<1>4. BusesFit(board', buses')
  <2>1. <<>> \in Seq(BusesOf(board')) /\ Len(<<>>) = 0 /\ DOMAIN <<>> = {}
    OBVIOUS
  <2> QED
    BY <1>1, <1>2, <2>1 DEF BusesFit
<1>5. claims' \subseteq AllUses(board')
  BY <1>1, UsesKnown
<1>6. Underway' /\ Refusals'
  BY <1>1, <1>2 DEF Underway, Refusals
<1> QED
  BY <1>1, <1>4, <1>5, <1>6 DEF BoardsInv

LEMMA BatteryDriverMade == BoardsInv /\ CreateBatteryDriver => BoardsInv'
<1> SUFFICES ASSUME BoardsInv, CreateBatteryDriver PROVE BoardsInv'
  OBVIOUS
<1>1. /\ step = "constructed" /\ step' = "battery"
      /\ UNCHANGED <<unit, board, created, names, byGpio, timers, channels, aborted>>
  BY DEF CreateBatteryDriver
<1>2. /\ board = DeviceFor(unit) /\ names = PinsOf(board) /\ byGpio = LatestOf(board)
      /\ buses = <<>> /\ timers = {} /\ channels = 0 /\ refused = {} /\ claims \subseteq AllUses(board) /\ Wired(board)
  BY <1>1, BoardWired DEF BoardsInv, Underway
<1>3. buses' = FirstBuses(board) /\ claims' \subseteq AllUses(board) /\ refused' = {}
  <2>1. CASE board.gauge.kind = "bq27220"
    <3> DEFINE found == getBusFor(board.gauge.sda, board.gauge.scl)
    <3>1. /\ buses' = found.buses
          /\ claims' = claims \cup (IF found.ok THEN BusUses(board, board.gauge.sda, board.gauge.scl, found.port) ELSE {})
          /\ refused' = IF found.ok THEN refused ELSE refused \cup {<<"gauge", <<>>>>}
      BY <2>1 DEF CreateBatteryDriver
    <3>2. found.ok = TRUE /\ found.port = GaugeBus(board).port /\ found.buses = <<GaugeBus(board)>>
      BY <1>2, <2>1, GaugeFirst
    <3> HIDE DEF found
    <3>3. BusUses(board, board.gauge.sda, board.gauge.scl, GaugeBus(board).port) \subseteq AllUses(board)
      BY <2>1, UsesKnown
    <3> QED
      BY <1>2, <2>1, <3>1, <3>2, <3>3 DEF FirstBuses
  <2>2. CASE board.gauge.kind = "analog"
    <3>1. /\ claims' = claims \cup UsesOf(board, {board.gauge.pin}, "battery") /\ UNCHANGED buses
          /\ refused' = IF Gpio(board.gauge.pin) \in AdcPins[board.chip] THEN refused ELSE refused \cup {<<"gauge", <<>>>>}
      BY <2>2 DEF CreateBatteryDriver
    <3>2. PinsOf(board)[board.gauge.pin] \in AdcPins[board.chip]
      BY <1>2, <2>2 DEF Wired, GaugeFits
    <3>3. Gpio(board.gauge.pin) = PinsOf(board)[board.gauge.pin]
      BY <1>2 DEF Gpio
    <3>4. UsesOf(board, {board.gauge.pin}, "battery") \subseteq AllUses(board)
      BY <2>2, UsesKnown
    <3> QED
      BY <1>2, <2>2, <3>1, <3>2, <3>3, <3>4 DEF FirstBuses
  <2>3. CASE board.gauge.kind = "none"
    <3>1. UNCHANGED <<buses, claims, refused>>
      BY <2>3 DEF CreateBatteryDriver
    <3> QED
      BY <1>2, <2>3, <3>1 DEF FirstBuses
  <2> QED
    BY <1>2, <2>1, <2>2, <2>3 DEF Wired, GaugeFits
<1>4. BusesFit(board, buses')
  BY <1>2, <1>3, FirstBusesFit
<1>5. Underway' /\ Refusals'
  BY <1>1, <1>2, <1>3 DEF Underway, Refusals
<1> QED
  BY <1>1, <1>3, <1>4, <1>5 DEF BoardsInv

LEMMA IndicatorsMade == BoardsInv /\ (InitIndicators \/ InitConnectivity) => BoardsInv'
<1> SUFFICES ASSUME BoardsInv, InitIndicators \/ InitConnectivity PROVE BoardsInv'
  OBVIOUS
<1>1. /\ \/ step = "battery" /\ step' = "indicators"
         \/ step = "indicators" /\ step' = "connected"
      /\ claims' \in {claims, claims \cup IndicatorUses(board), claims \cup ModemUses(board)}
      /\ UNCHANGED <<unit, board, created, names, byGpio, buses, timers, channels, aborted, refused>>
  BY DEF InitIndicators, InitConnectivity
<1>2. claims' \subseteq AllUses(board)
  BY <1>1, UsesKnown DEF BoardsInv
<1>3. Underway' /\ Refusals'
  BY <1>1 DEF BoardsInv, Underway, Refusals, TakenByOthers
<1> QED
  BY <1>1, <1>2, <1>3 DEF BoardsInv

LEMMA FactoriesMade == BoardsInv /\ RegisterFactories => BoardsInv'
<1> SUFFICES ASSUME BoardsInv, RegisterFactories PROVE BoardsInv'
  OBVIOUS
<1>1. /\ step = "connected" /\ step' = "factories" /\ UNCHANGED <<unit, board, created, names, byGpio>>
      /\ registerPwm(MotorPins(board) \cup board.buzzer, PwmSettings(board))
  BY DEF RegisterFactories
<1>2. /\ board = DeviceFor(unit) /\ names = PinsOf(board) /\ byGpio = LatestOf(board) /\ buses = FirstBuses(board)
      /\ timers = {} /\ channels = 0 /\ refused = {} /\ claims \subseteq AllUses(board) /\ Wired(board)
  BY <1>1, BoardWired DEF BoardsInv, Underway
<1>3. channels' \in Nat /\ aborted' = FALSE
  <2> DEFINE used == Cardinality(MotorPins(board) \cup board.buzzer)
             modes == Cardinality(PwmSettings(board))
  <2>1. used \in 0..LedcChannels[board.chip] /\ modes \in 0..LedcTimers /\ LedcChannels[board.chip] \in Nat
    BY <1>2 DEF Wired, LedcChannels
  <2>2. timers' = PwmSettings(board) /\ channels' = 0 + used
    BY <1>1, <1>2 DEF registerPwm, SeenTimers
  <2>3. aborted' = (Cardinality(timers') > LedcTimers \/ channels' > LedcChannels[board.chip])
    BY <1>1 DEF registerPwm
  <2>4. Cardinality(timers') = modes
    BY <2>2
  <2> HIDE DEF used, modes
  <2>5. channels' \in Nat /\ ~(channels' > LedcChannels[board.chip]) /\ ~(Cardinality(timers') > LedcTimers)
    BY <2>1, <2>2, <2>4 DEF LedcTimers
  <2>6. aborted' = FALSE
    BY <2>3, <2>5, Zenon
  <2> QED
    BY <2>5, <2>6
<1>4. PICK nSleep \in EnablePins(board) :
        LET sense == IF board.ina219 THEN getBusFor(board.gauge.sda, board.gauge.scl)
                     ELSE [ok |-> FALSE, buses |-> buses, port |-> 0]
        IN /\ claims' = claims \cup DriverUses(board, nSleep)
                        \cup (IF sense.ok THEN BusUses(board, board.gauge.sda, board.gauge.scl, sense.port) ELSE {})
           /\ buses' = sense.buses
           /\ refused' = IF board.ina219 /\ ~sense.ok THEN refused \cup {<<"ina219", <<>>>>} ELSE refused
  BY DEF RegisterFactories
<1>5. DriverUses(board, nSleep) \subseteq AllUses(board)
  BY UsesKnown
<1>6. buses' = buses /\ claims' \subseteq AllUses(board) /\ refused' = {}
  <2>1. CASE board.ina219
    <3> DEFINE found == getBusFor(board.gauge.sda, board.gauge.scl)
    <3>1. /\ claims' = claims \cup DriverUses(board, nSleep)
                       \cup (IF found.ok THEN BusUses(board, board.gauge.sda, board.gauge.scl, found.port) ELSE {})
          /\ buses' = found.buses
          /\ refused' = IF ~found.ok THEN refused \cup {<<"ina219", <<>>>>} ELSE refused
      BY <2>1, <1>4
    <3>2. board.gauge.kind = "bq27220"
      BY <1>2, <2>1 DEF Wired, GaugeFits
    <3>3. found.ok = TRUE /\ found.port = GaugeBus(board).port /\ found.buses = buses
      BY <1>2, <3>2, GaugeAgain DEF FirstBuses
    <3> HIDE DEF found
    <3>4. BusUses(board, board.gauge.sda, board.gauge.scl, GaugeBus(board).port) \subseteq AllUses(board)
      BY <3>2, UsesKnown
    <3> QED
      BY <1>2, <1>5, <3>1, <3>3, <3>4
  <2>2. CASE ~board.ina219
    <3> DEFINE found == [ok |-> FALSE, buses |-> buses, port |-> 0]
    <3>1. found.ok = FALSE /\ found.buses = buses
      OBVIOUS
    <3>2. /\ claims' = claims \cup DriverUses(board, nSleep)
                       \cup (IF found.ok THEN BusUses(board, board.gauge.sda, board.gauge.scl, found.port) ELSE {})
          /\ buses' = found.buses /\ refused' = refused
      BY <2>2, <1>4
    <3> HIDE DEF found
    <3> QED
      BY <1>2, <1>5, <3>1, <3>2
  <2> QED
    BY <2>1, <2>2
<1>7. Underway' /\ Refusals'
  BY <1>1, <1>2, <1>6 DEF Underway, Refusals
<1>8. BusesFit(board, buses')
  BY <1>6 DEF BoardsInv
<1> QED
  BY <1>1, <1>3, <1>6, <1>7, <1>8 DEF BoardsInv

\* A configured peripheral: pins are found under the one name they have.
LEMMA PeripheralMade == BoardsInv /\ CreatePeripheral => BoardsInv'
<1> SUFFICES ASSUME BoardsInv, CreatePeripheral PROVE BoardsInv'
  OBVIOUS
<1>1. /\ step = "factories" /\ created < MaxPeripherals /\ created' = created + 1
      /\ UNCHANGED <<unit, board, step, names, byGpio, claims, timers, channels, aborted>>
  BY DEF CreatePeripheral
<1>2. board = DeviceFor(unit) /\ names = PinsOf(board) /\ byGpio = LatestOf(board) /\ Wired(board) /\ BusesFit(board, buses)
  BY <1>1, BoardWired DEF BoardsInv, Underway
<1>3. created' \in 0..MaxPeripherals
  BY <1>1, BoardsAssumption DEF BoardsInv
<1>4. PICK r \in Requests :
        \/ /\ r[1] = "i2c"
           /\ \E sda \in Found(r[2][1]), scl \in Found(r[2][2]) :
                buses' = getBusFor(sda, scl).buses
                /\ refused' = IF getBusFor(sda, scl).ok THEN refused ELSE refused \cup {r}
        \/ r[1] # "i2c" /\ UNCHANGED buses /\ refused' \in {refused, refused \cup {r}}
  BY DEF CreatePeripheral
<1>5. (\E q \in PairsOf(board) : r = <<"i2c", q>>)
      \/ (\E q : r \in {<<"toad-bb", q>>, <<"rs485", q>>, <<"motor", q>>, <<"analog", q>>})
  BY DEF Requests
<1>6. CASE r[1] = "i2c"
  <2>1. PICK q \in PairsOf(board) : r = <<"i2c", q>>
    BY <1>5, <1>6
  <2>2. Found(q[1]) = {q[1]} /\ Found(q[2]) = {q[2]}
    BY <1>2 DEF Found, Gpio, Wired, PairsKnown
  <2> DEFINE made == getBusFor(q[1], q[2])
  <2>3. buses' = made.buses /\ refused' = IF made.ok THEN refused ELSE refused \cup {<<"i2c", q>>}
    BY <1>4, <1>6, <2>1, <2>2
  <2>4. /\ BusesFit(board, made.buses)
        /\ TakenByOthers(board, buses) => TakenByOthers(board, made.buses)
        /\ ~made.ok => made.buses = buses /\ (q = board.external => TakenByOthers(board, buses))
    BY <1>2, BusFor
  <2> HIDE DEF made
  <2>5. \A x \in refused' : x[1] \notin {"gauge", "ina219"}
    BY <2>3 DEF BoardsInv, Refusals
  <2>6. <<"i2c", board.external>> \in refused' => TakenByOthers(board, buses')
    BY <2>3, <2>4 DEF BoardsInv, Refusals
  <2>7. Refusals'
    BY <1>1, <2>5, <2>6 DEF Refusals, TakenByOthers
  <2>8. Underway'
    BY <1>1, <1>2 DEF Underway
  <2> QED
    BY <1>1, <1>3, <2>3, <2>4, <2>7, <2>8 DEF BoardsInv
<1>7. CASE r[1] # "i2c"
  <2>1. UNCHANGED buses /\ refused' \in {refused, refused \cup {r}}
    BY <1>4, <1>7
  <2>2. r[1] \notin {"gauge", "ina219", "i2c"} /\ r # <<"i2c", board.external>>
    BY <1>5, <1>7
  <2>3. Refusals'
    BY <1>1, <2>1, <2>2 DEF BoardsInv, Refusals, TakenByOthers
  <2>4. Underway'
    BY <1>1, <1>2 DEF Underway
  <2> QED
    BY <1>1, <1>2, <1>3, <2>1, <2>3, <2>4 DEF BoardsInv
<1> QED
  BY <1>6, <1>7

LEMMA BoardsInvNext == BoardsInv /\ BoardsNext => BoardsInv'
BY DeviceStarted, BatteryDriverMade, IndicatorsMade, FactoriesMade, PeripheralMade DEF BoardsNext

LEMMA BoardsInvImplies == BoardsInv => BoardsTypeOK /\ BoardsSound
<1> SUFFICES ASSUME BoardsInv PROVE BoardsTypeOK /\ BoardsSound
  OBVIOUS
<1>1. Wired(board) /\ unit \in Units /\ BusesFit(board, buses) /\ Underway /\ Refusals /\ claims \subseteq AllUses(board)
  BY BoardWired DEF BoardsInv
<1>2. BoardsTypeOK
  <2>1. ASSUME NEW i \in DOMAIN buses PROVE buses[i].port \in 0..LpPort
    BY <1>1, BusTyped DEF BusesFit
  <2> QED
    BY <2>1 DEF BoardsInv, BoardsTypeOK
<1>3. RightBoard
  BY <1>1, TablesAssumption DEF RightBoard, Underway
<1>4. OnBoardApart
  <2>1. board.gauge.kind # "none" => board.gauge.boot > board.gauge.shutdown
    BY <1>1 DEF Wired, GaugeFits
  <2>2. \A c, d \in claims : c[1] = d[1] => c[2] = d[2]
    BY <1>1 DEF Wired
  <2> QED
    BY <1>1, <2>1, <2>2 DEF OnBoardApart, Refusals, BoardsInv
<1>5. BusesServed
  <2>1. \A i, j \in DOMAIN buses : buses[i].port = buses[j].port => i = j
    BY <1>1 DEF BusesFit
  <2>2. ASSUME NEW i \in DOMAIN buses, buses[i].port = LpPort
        PROVE  Gpio(buses[i].sda) = 6 /\ Gpio(buses[i].scl) = 7
    <3>0. buses # <<>>
      OBVIOUS
    <3>1. names = PinsOf(board)
      BY <1>1, <3>0 DEF Underway
    <3>2. PortFits(board, buses, i) /\ i \in 1..Len(buses) /\ board.chip \in {"s3", "c6"} /\ (board.chip = "s3" => Len(buses) <= 2)
      BY <1>1 DEF BusesFit, Wired
    <3>3. OnLpPins(board, buses[i].sda, buses[i].scl)
      BY <2>2, <3>2 DEF PortFits, LpPort
    <3> QED
      BY <3>1, <3>3 DEF OnLpPins, Gpio
  <2>3. <<"i2c", board.external>> \in refused =>
          board.model = "mk10" \/ \E i \in DOMAIN buses : buses[i].sda \in {"A1", "B1"}
    BY <1>1 DEF Refusals, TakenByOthers
  <2> QED
    BY <2>1, <2>2, <2>3 DEF BusesServed
<1> QED
  BY <1>2, <1>3, <1>4, <1>5 DEF BoardsSound

--------
(* The software I2C bus: what is sent is heard, and what is told is read. *)

Op == [do : {"sda", "scl", "wait", "ack", "bit"}, to : 0..1]
BitString == [1..Bits -> 0..1]
SlaveStates ==
  [role : {"off", "listen", "ack", "tell", "told"}, sda : 0..1, scl : 0..1, bits : Seq(0..1),
   next : {"address", "data"}, heard : Seq(BitString), told : Seq(BitString)]

Then(o, rest) == <<o>> \o rest
Onwards(p, i) == SubSeq(p, i, Len(p))
Prefix(b, k) == SubSeq(b, 1, k)
Suffix(b, k) == SubSeq(b, k + 1, Bits)

\* What is left of the program: of a byte that is sent, after k bits of it and before rest; and of a byte
\* that is read, after k bits of it, with the bytes that remain to be read.
Sends(b, k, rest) == Onwards(writeByteGetAck(b) \o rest, (4 * k) + 1)
ReadRest(more) == IF more = 1 THEN readByteAndAck(TRUE) \o stop ELSE stop
Reads(k, more) == Onwards(readByteAndAck(more = 0) \o ReadRest(more), (5 * k) + 1)

\* What comes after each byte of a transaction that sends s and reads n bytes.
AfterCommand(s, n) == IF Len(s) = 2 THEN stop ELSE start \o Sends(s[3], 0, Reads(0, n - 1))
AfterByte(s, n, j) ==
  IF j = 1 THEN Sends(s[2], 0, AfterCommand(s, n)) ELSE IF j = 2 THEN AfterCommand(s, n) ELSE Reads(0, n - 1)
ByteSent(s, n, j, k) == Sends(s[j], k, AfterByte(s, n, j))
Expected(j) == IF j = 2 THEN "data" ELSE "address"

Transmissions == {<<Address(0), cmd>> : cmd \in BitString} \cup {<<Address(0), cmd, Address(1)>> : cmd \in BitString}

BusTypes ==
  /\ ops \in Seq(Op) /\ lines \in [sda : 0..1, scl : 0..1] /\ outcome \in {"none", "running", "done", "failed"}
  /\ slave \in SlaveStates /\ byte \in Seq(0..1) /\ read \in Seq(BitString)

\* The lines rest.
BusRests ==
  /\ ops = <<>> /\ lines = [sda |-> 1, scl |-> 1] /\ outcome \in {"none", "done", "failed"}
  /\ outcome = "done" => slave.heard = sent /\ slave.told = read

\* The bus is stopped.
BusStops ==
  /\ outcome \in {"running", "failed"}
  /\ outcome = "running" => slave.heard = sent /\ slave.told = read
  /\ \/ ops = Then(Scl(0), stop) /\ outcome = "failed"
     \/ ops = Then(Sda(1), stop)
     \/ ops = stop
     \/ ops = Then(Scl(1), Then(Sda(1), <<>>))
     \/ ops = Then(Sda(1), <<>>) /\ lines.scl = 1

\* While byte j of the transmission is being sent.
Talks(j) == outcome = "running" /\ byte = <<>> /\ read = <<>> /\ slave.told = <<>> /\ sent \in Transmissions /\ j \in DOMAIN sent

\* START, before byte j.
BusStarts(n, j) ==
  /\ Talks(j) /\ j # 2 /\ slave.sda = 1 /\ slave.scl = 1 /\ slave.heard = Prefix(sent, j - 1)
  /\ \/ /\ ops = Then(Sda(1), Then(Scl(1), Then(Sda(0), Then(Scl(0), ByteSent(sent, n, j, 0)))))
        /\ lines.scl = 1 => lines.sda = 1
     \/ ops = Then(Scl(1), Then(Sda(0), Then(Scl(0), ByteSent(sent, n, j, 0)))) /\ lines.sda = 1
     \/ ops = Then(Sda(0), Then(Scl(0), ByteSent(sent, n, j, 0))) /\ lines.sda = 1 /\ lines.scl = 1

\* The slave listens to byte j, of which k bits have been sent.
SlaveListens(n, j, k) ==
  /\ Talks(j) /\ slave.role = "listen" /\ slave.next = Expected(j) /\ slave.sda = 1
  /\ slave.heard = Prefix(sent, j - 1)
  /\ \/ k < Bits /\ ops = ByteSent(sent, n, j, k) /\ lines.scl = 0 /\ slave.bits = Prefix(sent[j], k)
     \/ /\ k < Bits /\ ops = Then(Scl(1), Then(Do("wait"), Then(Scl(0), ByteSent(sent, n, j, k + 1))))
        /\ lines.scl = 0 /\ lines.sda = sent[j][k + 1] /\ slave.bits = Prefix(sent[j], k)
     \/ /\ k < Bits /\ ops = Then(Do("wait"), Then(Scl(0), ByteSent(sent, n, j, k + 1)))
        /\ lines.scl = 1 /\ lines.sda = sent[j][k + 1]
        /\ slave.scl = 0 => slave.bits = Prefix(sent[j], k)
        /\ slave.scl = 1 => slave.bits = Prefix(sent[j], k + 1)
     \/ /\ ops = Then(Scl(0), ByteSent(sent, n, j, k))
        /\ lines.scl = 1 /\ slave.scl = 1 /\ slave.bits = Prefix(sent[j], k)

\* It acknowledges byte j, or not.
SlaveAcknowledges(n, j) ==
  /\ Talks(j)
  /\ \/ /\ slave.role = "ack" /\ slave.next = Expected(j) /\ slave.sda = 0 /\ slave.bits = sent[j]
        /\ slave.heard = Prefix(sent, j)
     \/ slave.role = "off" /\ slave.sda = 1 /\ slave.scl = 1
  /\ \/ ops = ByteSent(sent, n, j, Bits) /\ lines.scl = 0
     \/ /\ ops = Then(Scl(1), Then(Do("wait"), Then(Do("ack"), Then(Scl(0), AfterByte(sent, n, j)))))
        /\ lines.scl = 0 /\ lines.sda = 1
     \/ /\ ops = Then(Do("wait"), Then(Do("ack"), Then(Scl(0), AfterByte(sent, n, j))))
        /\ lines.scl = 1 /\ lines.sda = 1
     \/ /\ ops = Then(Do("ack"), Then(Scl(0), AfterByte(sent, n, j)))
        /\ lines.scl = 1 /\ lines.sda = 1 /\ slave.scl = 1
     \/ /\ ops = Then(Scl(0), AfterByte(sent, n, j)) /\ slave.role = "ack"
        /\ lines.scl = 1 /\ lines.sda = 1 /\ slave.scl = 1

\* It tells the bits d, of which k have been read.
SlaveTells(more, k, d) ==
  /\ outcome = "running" /\ slave.heard = sent
  /\ k < Bits /\ slave.role = "tell" /\ slave.bits = Suffix(d, k) /\ slave.sda = d[k + 1]
  /\ \/ /\ slave.told = Append(read, d) /\ byte = Prefix(d, k)
        /\ \/ ops = Then(Sda(1), Reads(0, more)) /\ k = 0 /\ lines.scl = 0
           \/ ops = Reads(k, more) /\ lines.scl = 0
           \/ /\ ops = Then(Scl(1), Then(Do("wait"), Then(Do("bit"), Then(Scl(0), Reads(k + 1, more)))))
              /\ lines.scl = 0 /\ lines.sda = 1
           \/ /\ ops = Then(Do("wait"), Then(Do("bit"), Then(Scl(0), Reads(k + 1, more))))
              /\ lines.scl = 1 /\ lines.sda = 1
           \/ /\ ops = Then(Do("bit"), Then(Scl(0), Reads(k + 1, more)))
              /\ lines.scl = 1 /\ lines.sda = 1 /\ slave.scl = 1
     \/ /\ ops = Then(Scl(0), Reads(k + 1, more)) /\ lines.scl = 1 /\ lines.sda = 1 /\ slave.scl = 1
        /\ k + 1 < Bits => slave.told = Append(read, d) /\ byte = Prefix(d, k + 1)
        /\ k + 1 = Bits => slave.told = read /\ byte = <<>>

\* It is told whether to go on.
Answer(more) == IF more = 0 THEN 1 ELSE 0
SlaveWaits(more) ==
  /\ outcome = "running" /\ slave.heard = sent /\ slave.told = read /\ byte = <<>>
  /\ slave.role = "told" /\ slave.sda = 1
  /\ \/ ops = Reads(Bits, more) /\ lines.scl = 0 /\ slave.bits = <<>>
     \/ /\ ops = Then(Scl(1), Then(Do("wait"), Then(Scl(0), Then(Sda(1), ReadRest(more)))))
        /\ lines.scl = 0 /\ lines.sda = Answer(more) /\ slave.bits = <<>>
     \/ /\ ops = Then(Do("wait"), Then(Scl(0), Then(Sda(1), ReadRest(more))))
        /\ lines.scl = 1 /\ lines.sda = Answer(more)
        /\ slave.scl = 0 => slave.bits = <<>>
        /\ slave.scl = 1 => slave.bits = <<Answer(more)>>
     \/ /\ ops = Then(Scl(0), Then(Sda(1), ReadRest(more)))
        /\ lines.scl = 1 /\ lines.sda = Answer(more) /\ slave.scl = 1 /\ slave.bits = <<Answer(more)>>

BusPhase ==
  \/ BusRests \/ BusStops
  \/ \E n \in 1..2, j \in 1..3 : BusStarts(n, j) \/ SlaveAcknowledges(n, j)
  \/ \E n \in 1..2, j \in 1..3, k \in 0..Bits : SlaveListens(n, j, k)
  \/ \E more \in 0..1, k \in 0..Bits, d \in BitString : SlaveTells(more, k, d)
  \/ \E more \in 0..1 : SlaveWaits(more)

BitbangInv == BusTypes /\ BusPhase

LEMMA JoinedIs == ASSUME NEW S, NEW p \in Seq(S), NEW q \in Seq(S), NEW r \in Seq(S), Len(r) = Len(p) + Len(q),
                         \A i \in 1..Len(p) : r[i] = p[i], \A i \in 1..Len(q) : r[Len(p) + i] = q[i]
                  PROVE  p \o q = r
<1> DEFINE m == Len(p) n == Len(q)
<1>0. m \in Nat /\ n \in Nat /\ Len(r) = m + n /\ (\A i \in 1..m : r[i] = p[i]) /\ (\A i \in 1..n : r[m + i] = q[i])
  OBVIOUS
<1>1. /\ p \o q \in Seq(S) /\ Len(p \o q) = m + n
      /\ \A i \in 1..(m + n) : (p \o q)[i] = IF i <= m THEN p[i] ELSE q[i - m]
  BY ConcatProperties
<1> HIDE DEF m, n
<1>2. \A i \in 1..(m + n) : (p \o q)[i] = r[i]
  <2> TAKE i \in 1..(m + n)
  <2>1. CASE i <= m
    <3>1. i \in 1..m
      BY <1>0, <2>1
    <3> QED
      BY <1>0, <1>1, <2>1, <3>1
  <2>2. CASE ~(i <= m)
    <3>1. i - m \in 1..n /\ m + (i - m) = i
      BY <1>0, <2>2
    <3> QED
      BY <1>0, <1>1, <2>2, <3>1
  <2> QED
    BY <2>1, <2>2
<1>3. Len(p \o q) = Len(r) /\ \A i \in 1..Len(p \o q) : (p \o q)[i] = r[i]
  BY <1>0, <1>1, <1>2
<1> QED
  BY <1>1, <1>3, SeqEqual

LEMMA JoinedOps ==
  /\ \A a, b \in Op : <<a>> \o <<b>> = <<a, b>>
  /\ \A a, b, c \in Op : <<a>> \o <<b, c>> = <<a, b, c>>
  /\ \A a, b, c, d \in Op : <<a, b, c>> \o <<d>> = <<a, b, c, d>>
  /\ \A a, b, c, d, e \in Op : <<a, b, c>> \o <<d, e>> = <<a, b, c, d, e>>
  /\ \A a, b, c, d, e \in Op : <<a, b, c, d>> \o <<e>> = <<a, b, c, d, e>>
<1>1. \A a, b \in Op : <<a>> \o <<b>> = <<a, b>>
  <2> TAKE a, b \in Op
  <2> DEFINE p == <<a>> q == <<b>> r == <<a, b>>
  <2>1. p \in Seq(Op) /\ Len(p) = 1 /\ p[1] = a
    OBVIOUS
  <2>2. q \in Seq(Op) /\ Len(q) = 1 /\ q[1] = b
    OBVIOUS
  <2>3. r \in Seq(Op) /\ Len(r) = 2 /\ r[1] = a /\ r[2] = b
    OBVIOUS
  <2> HIDE DEF p, q, r
  <2>4. (\A i \in 1..Len(p) : r[i] = p[i]) /\ (\A i \in 1..Len(q) : r[Len(p) + i] = q[i]) /\ Len(r) = Len(p) + Len(q)
    BY <2>1, <2>2, <2>3
  <2>5. p \o q = r
    BY <2>1, <2>2, <2>3, <2>4, JoinedIs
  <2> QED
    BY <2>5 DEF p, q, r
<1>2. \A a, b, c \in Op : <<a>> \o <<b, c>> = <<a, b, c>>
  <2> TAKE a, b, c \in Op
  <2> DEFINE p == <<a>> q == <<b, c>> r == <<a, b, c>>
  <2>1. p \in Seq(Op) /\ Len(p) = 1 /\ p[1] = a
    OBVIOUS
  <2>2. q \in Seq(Op) /\ Len(q) = 2 /\ q[1] = b /\ q[2] = c
    OBVIOUS
  <2>3. r \in Seq(Op) /\ Len(r) = 3 /\ r[1] = a /\ r[2] = b /\ r[3] = c
    OBVIOUS
  <2> HIDE DEF p, q, r
  <2>4. (\A i \in 1..Len(p) : r[i] = p[i]) /\ (\A i \in 1..Len(q) : r[Len(p) + i] = q[i]) /\ Len(r) = Len(p) + Len(q)
    BY <2>1, <2>2, <2>3
  <2>5. p \o q = r
    BY <2>1, <2>2, <2>3, <2>4, JoinedIs
  <2> QED
    BY <2>5 DEF p, q, r
<1>3. \A a, b, c, d \in Op : <<a, b, c>> \o <<d>> = <<a, b, c, d>>
  <2> TAKE a, b, c, d \in Op
  <2> DEFINE p == <<a, b, c>> q == <<d>> r == <<a, b, c, d>>
  <2>1. p \in Seq(Op) /\ Len(p) = 3 /\ p[1] = a /\ p[2] = b /\ p[3] = c
    OBVIOUS
  <2>2. q \in Seq(Op) /\ Len(q) = 1 /\ q[1] = d
    OBVIOUS
  <2>3. r \in Seq(Op) /\ Len(r) = 4 /\ r[1] = a /\ r[2] = b /\ r[3] = c /\ r[4] = d
    OBVIOUS
  <2> HIDE DEF p, q, r
  <2>4. (\A i \in 1..Len(p) : r[i] = p[i]) /\ (\A i \in 1..Len(q) : r[Len(p) + i] = q[i]) /\ Len(r) = Len(p) + Len(q)
    BY <2>1, <2>2, <2>3
  <2>5. p \o q = r
    BY <2>1, <2>2, <2>3, <2>4, JoinedIs
  <2> QED
    BY <2>5 DEF p, q, r
<1>4. \A a, b, c, d, e \in Op : <<a, b, c>> \o <<d, e>> = <<a, b, c, d, e>>
  <2> TAKE a, b, c, d, e \in Op
  <2> DEFINE p == <<a, b, c>> q == <<d, e>> r == <<a, b, c, d, e>>
  <2>1. p \in Seq(Op) /\ Len(p) = 3 /\ p[1] = a /\ p[2] = b /\ p[3] = c
    OBVIOUS
  <2>2. q \in Seq(Op) /\ Len(q) = 2 /\ q[1] = d /\ q[2] = e
    OBVIOUS
  <2>3. r \in Seq(Op) /\ Len(r) = 5 /\ r[1] = a /\ r[2] = b /\ r[3] = c /\ r[4] = d /\ r[5] = e
    OBVIOUS
  <2> HIDE DEF p, q, r
  <2>4. (\A i \in 1..Len(p) : r[i] = p[i]) /\ (\A i \in 1..Len(q) : r[Len(p) + i] = q[i]) /\ Len(r) = Len(p) + Len(q)
    BY <2>1, <2>2, <2>3
  <2>5. p \o q = r
    BY <2>1, <2>2, <2>3, <2>4, JoinedIs
  <2> QED
    BY <2>5 DEF p, q, r
<1>5. \A a, b, c, d, e \in Op : <<a, b, c, d>> \o <<e>> = <<a, b, c, d, e>>
  <2> TAKE a, b, c, d, e \in Op
  <2> DEFINE p == <<a, b, c, d>> q == <<e>> r == <<a, b, c, d, e>>
  <2>1. p \in Seq(Op) /\ Len(p) = 4 /\ p[1] = a /\ p[2] = b /\ p[3] = c /\ p[4] = d
    OBVIOUS
  <2>2. q \in Seq(Op) /\ Len(q) = 1 /\ q[1] = e
    OBVIOUS
  <2>3. r \in Seq(Op) /\ Len(r) = 5 /\ r[1] = a /\ r[2] = b /\ r[3] = c /\ r[4] = d /\ r[5] = e
    OBVIOUS
  <2> HIDE DEF p, q, r
  <2>4. (\A i \in 1..Len(p) : r[i] = p[i]) /\ (\A i \in 1..Len(q) : r[Len(p) + i] = q[i]) /\ Len(r) = Len(p) + Len(q)
    BY <2>1, <2>2, <2>3
  <2>5. p \o q = r
    BY <2>1, <2>2, <2>3, <2>4, JoinedIs
  <2> QED
    BY <2>5 DEF p, q, r
<1> QED
  BY <1>1, <1>2, <1>3, <1>4, <1>5

LEMMA ConcatOps ==
  /\ \A p, q \in Seq(Op) : p \o q \in Seq(Op) /\ Len(p \o q) = Len(p) + Len(q)
  /\ \A p, q \in Seq(Op) : \A i \in 1..Len(p) : (p \o q)[i] = p[i]
  /\ \A p, q \in Seq(Op) : \A i \in 1..Len(q) : (p \o q)[Len(p) + i] = q[i]
  /\ \A p, q, r \in Seq(Op) : (p \o q) \o r = p \o (q \o r)
<1>1. \A p, q \in Seq(Op) : /\ p \o q \in Seq(Op) /\ Len(p \o q) = Len(p) + Len(q) /\ Len(p) \in Nat /\ Len(q) \in Nat
                            /\ \A i \in 1..(Len(p) + Len(q)) : (p \o q)[i] = IF i <= Len(p) THEN p[i] ELSE q[i - Len(p)]
  BY ConcatProperties
<1>2. \A p, q \in Seq(Op) : \A i \in 1..Len(p) : (p \o q)[i] = p[i]
  <2> TAKE p, q \in Seq(Op)
  <2> TAKE i \in 1..Len(p)
  <2>1. Len(p) \in Nat /\ Len(q) \in Nat
    BY <1>1
  <2>2. i \in 1..(Len(p) + Len(q)) /\ i <= Len(p)
    BY <2>1
  <2> QED
    BY <1>1, <2>2
<1>3. \A p, q \in Seq(Op) : \A i \in 1..Len(q) : (p \o q)[Len(p) + i] = q[i]
  <2> TAKE p, q \in Seq(Op)
  <2> TAKE i \in 1..Len(q)
  <2>1. Len(p) \in Nat /\ Len(q) \in Nat
    BY <1>1
  <2>2. Len(p) + i \in 1..(Len(p) + Len(q)) /\ ~(Len(p) + i <= Len(p)) /\ (Len(p) + i) - Len(p) = i
    BY <2>1
  <2> QED
    BY <1>1, <2>2
<1>4. \A p, q, r \in Seq(Op) : (p \o q) \o r = p \o (q \o r)
  BY ConcatAssociative
<1> QED
  BY <1>1, <1>2, <1>3, <1>4

LEMMA JoinTyped == \A p, q \in Seq(Op) : p \o q \in Seq(Op)
BY ConcatOps

LEMMA JoinsAlike == \A p, q, r \in Seq(Op) : (p \o q) \o r = p \o (q \o r)
BY ConcatOps

LEMMA OpsTyped ==
  /\ \A v \in 0..1 : Sda(v) \in Op /\ Scl(v) \in Op
  /\ Do("wait") \in Op /\ Do("ack") \in Op /\ Do("bit") \in Op
BY DEF Op, Sda, Scl, Do

LEMMA ThenFacts ==
  ASSUME NEW o \in Op, NEW rest \in Seq(Op)
  PROVE  /\ Then(o, rest) \in Seq(Op) /\ Then(o, rest) # <<>>
         /\ Head(Then(o, rest)) = o /\ Tail(Then(o, rest)) = rest
<1>1. <<o>> \in Seq(Op) /\ Len(<<o>>) = 1
  OBVIOUS
<1>2. Then(o, rest) \in Seq(Op) /\ Len(Then(o, rest)) = 1 + Len(rest)
      /\ \A i \in 1..(1 + Len(rest)) : Then(o, rest)[i] = IF i <= 1 THEN <<o>>[i] ELSE rest[i - 1]
  BY <1>1, ConcatProperties DEF Then
<1>3. Len(rest) \in Nat
  OBVIOUS
<1>4. Then(o, rest) # <<>> /\ Then(o, rest)[1] = o
  BY <1>2, <1>3
<1>5. Head(Then(o, rest)) = o
  BY <1>2, <1>4
<1>6. Tail(Then(o, rest)) \in Seq(Op) /\ Len(Tail(Then(o, rest))) = Len(rest)
      /\ \A i \in 1..Len(rest) : Tail(Then(o, rest))[i] = Then(o, rest)[i + 1]
  BY <1>2, <1>3, <1>4, HeadTailProperties
<1>7. \A i \in 1..Len(rest) : Tail(Then(o, rest))[i] = rest[i]
  BY <1>2, <1>3, <1>6
<1>8. Tail(Then(o, rest)) = rest
  BY <1>6, <1>7, SeqEqual
<1> QED
  BY <1>2, <1>4, <1>5, <1>8

LEMMA OnwardsFacts ==
  ASSUME NEW p \in Seq(Op), NEW i \in 1..Len(p)
  PROVE  Onwards(p, i) = Then(p[i], Onwards(p, i + 1)) /\ Onwards(p, i + 1) \in Seq(Op) /\ p[i] \in Op
<1>1. i \in 1..Len(p) /\ Len(p) \in i..Len(p) /\ Len(p) \in Nat
  OBVIOUS
<1>2. SubSeq(p, i, Len(p)) = <<p[i]>> \o SubSeq(p, i + 1, Len(p))
  BY <1>1, SubSeqRecursiveFirst
<1>3. \A x \in (i + 1)..Len(p) : p[x] \in Op
  BY <1>1, ElementOfSeq
<1>4. SubSeq(p, i + 1, Len(p)) \in Seq(Op)
  BY <1>1, <1>3, SubSeqProperties
<1> QED
  BY <1>1, <1>2, <1>4, ElementOfSeq DEF Onwards, Then

\* A program that goes on with rest, at the end of what comes before it.
LEMMA OnwardsEnds ==
  ASSUME NEW p \in Seq(Op), NEW rest \in Seq(Op)
  PROVE  Onwards(p \o rest, Len(p) + 1) = rest /\ Onwards(p \o rest, 1) = p \o rest
<1>1. /\ p \o rest \in Seq(Op) /\ Len(p \o rest) = Len(p) + Len(rest)
      /\ \A i \in 1..(Len(p) + Len(rest)) : (p \o rest)[i] = IF i <= Len(p) THEN p[i] ELSE rest[i - Len(p)]
  BY ConcatProperties
<1>2. Len(p) \in Nat /\ Len(rest) \in Nat
  OBVIOUS
<1> DEFINE q == p \o rest
           tail == SubSeq(q, Len(p) + 1, Len(q))
<1>3. \A i \in (Len(p) + 1)..Len(q) : q[i] \in Op
  BY <1>1, <1>2, ElementOfSeq
<1>4. /\ tail \in Seq(Op) /\ Len(tail) = IF Len(p) + 1 <= Len(q) THEN Len(q) - (Len(p) + 1) + 1 ELSE 0
      /\ \A i \in 1..(Len(q) - (Len(p) + 1) + 1) : tail[i] = q[Len(p) + 1 + i - 1]
  <2>1. Len(p) + 1 \in Int /\ Len(q) \in Int
    BY <1>1, <1>2
  <2> HIDE DEF q
  <2> QED
    BY <1>3, <2>1, SubSeqProperties
<1>5. Len(tail) = Len(rest)
  BY <1>1, <1>2, <1>4
<1>6. \A i \in 1..Len(tail) : tail[i] = rest[i]
  <2> TAKE i \in 1..Len(tail)
  <2>0. i \in 1..Len(rest) /\ Len(q) = Len(p) + Len(rest)
    BY <1>5, <1>1
  <2>1. tail[i] = q[Len(p) + 1 + i - 1] /\ Len(p) + 1 + i - 1 = Len(p) + i
    BY <1>2, <1>4, <2>0
  <2>2. q[Len(p) + i] = rest[Len(p) + i - Len(p)] /\ Len(p) + i - Len(p) = i
    BY <1>1, <1>2, <2>0
  <2> QED
    BY <2>1, <2>2
<1>7. tail = rest
  BY <1>4, <1>5, <1>6, SeqEqual
<1>8. SubSeq(q, 1, Len(q)) = q
  BY <1>1, SubSeqFull
<1> QED
  BY <1>7, <1>8 DEF Onwards

LEMMA StartIs == ASSUME NEW rest \in Seq(Op)
  PROVE start \o rest = Then(Sda(1), Then(Scl(1), Then(Sda(0), Then(Scl(0), rest)))) /\ start \o rest \in Seq(Op)
<1> DEFINE a == Sda(1) b == Scl(1) c == Sda(0) d == Scl(0)
           q == start \o rest
<1>1. a \in Op /\ b \in Op /\ c \in Op /\ d \in Op /\ start = <<a, b, c, d>>
  BY OpsTyped DEF start
<1> HIDE DEF a, b, c, d
<1>2. start \in Seq(Op) /\ Len(start) = 4 /\ start[1] = a /\ start[2] = b /\ start[3] = c /\ start[4] = d
  BY <1>1
<1> DEFINE s == start
<1>2a. s \in Seq(Op) /\ Len(s) = 4 /\ s[1] = a /\ s[2] = b /\ s[3] = c /\ s[4] = d
  BY <1>2
<1> HIDE DEF s
<1>3a. s \in Seq(Op) /\ rest \in Seq(Op)
  BY <1>2a
<1>3b. /\ s \o rest \in Seq(Op) /\ Len(s \o rest) = Len(s) + Len(rest)
       /\ \A i \in 1..Len(s) : (s \o rest)[i] = s[i]
  BY <1>3a, ConcatOps
<1>3c. Onwards(s \o rest, Len(s) + 1) = rest /\ Onwards(s \o rest, 1) = s \o rest
  BY <1>3a, OnwardsEnds
<1>3d. s \o rest = q
  BY DEF s
<1> HIDE DEF q
<1>3. q \in Seq(Op) /\ Len(q) = 4 + Len(rest) /\ Len(rest) \in Nat /\ \A i \in 1..4 : q[i] = s[i]
  BY <1>2a, <1>3b, <1>3d
<1>4. q[1] = a /\ q[2] = b /\ q[3] = c /\ q[4] = d
  BY <1>2a, <1>3
<1>5. Onwards(q, 5) = rest /\ Onwards(q, 1) = q
  BY <1>2a, <1>3c, <1>3d
<1>6. 1 \in 1..Len(q) /\ 2 \in 1..Len(q) /\ 3 \in 1..Len(q) /\ 4 \in 1..Len(q)
  BY <1>3
<1>7. /\ Onwards(q, 1) = Then(q[1], Onwards(q, 1 + 1)) /\ Onwards(q, 2) = Then(q[2], Onwards(q, 2 + 1))
      /\ Onwards(q, 3) = Then(q[3], Onwards(q, 3 + 1)) /\ Onwards(q, 4) = Then(q[4], Onwards(q, 4 + 1))
  BY <1>3, <1>6, OnwardsFacts
<1>8. 1 + 1 = 2 /\ 2 + 1 = 3 /\ 3 + 1 = 4 /\ 4 + 1 = 5
  OBVIOUS
<1> QED
  BY <1>3, <1>4, <1>5, <1>7, <1>8 DEF a, b, c, d, q

LEMMA StopIs == stop = Then(Sda(0), Then(Scl(1), Then(Sda(1), <<>>))) /\ stop \in Seq(Op)
<1>1. Sda(0) \in Op /\ Scl(1) \in Op /\ Sda(1) \in Op
  BY OpsTyped
<1>2. stop = <<Sda(0), Scl(1), Sda(1)>>
  BY DEF stop
<1>3. \A a, b, c \in Op : <<a, b, c>> \in Seq(Op) /\ <<a, b, c>> = <<a>> \o (<<b>> \o (<<c>> \o <<>>))
  <2> TAKE a, b, c \in Op
  <2>1. <<c>> \o <<>> = <<c>>
    BY ConcatEmptySeq
  <2>2. <<b>> \o <<c>> = <<b, c>>
    BY JoinedOps
  <2>3. <<a>> \o <<b, c>> = <<a, b, c>> /\ <<a, b, c>> \in Seq(Op)
    BY JoinedOps
  <2> QED
    BY <2>1, <2>2, <2>3
<1> QED
  BY <1>1, <1>2, <1>3 DEF Then

LEMMA WriteOps == ASSUME NEW b \in BitString
  PROVE  /\ writeByteGetAck(b) \in Seq(Op) /\ Len(writeByteGetAck(b)) = (4 * Bits) + 5
         /\ \A k \in 0..(Bits - 1) :
              /\ writeByteGetAck(b)[(4 * k) + 1] = Sda(b[k + 1]) /\ writeByteGetAck(b)[(4 * k) + 2] = Scl(1)
              /\ writeByteGetAck(b)[(4 * k) + 3] = Do("wait") /\ writeByteGetAck(b)[(4 * k) + 4] = Scl(0)
         /\ writeByteGetAck(b)[(4 * Bits) + 1] = Sda(1) /\ writeByteGetAck(b)[(4 * Bits) + 2] = Scl(1)
         /\ writeByteGetAck(b)[(4 * Bits) + 3] = Do("wait") /\ writeByteGetAck(b)[(4 * Bits) + 4] = Do("ack")
         /\ writeByteGetAck(b)[(4 * Bits) + 5] = Scl(0)
<1> DEFINE one == Scl(1) wt == Do("wait") zero == Scl(0) high == Sda(1) take == Do("ack") bit(x) == Sda(b[x])
           F == [i \in 1..4 * Bits |-> <<bit(((i - 1) \div 4) + 1), one, wt, zero>>[((i - 1) % 4) + 1]]
           T == <<high, one, wt, take, zero>>
<1>0. Bits \in Nat
  BY BitbangAssumption
<1>1. one \in Op /\ wt \in Op /\ zero \in Op /\ high \in Op /\ take \in Op /\ (\A x \in 1..Bits : bit(x) \in Op)
  BY OpsTyped DEF BitString
<1>2. sclRelease = <<one, wt>> /\ writeByteGetAck(b)
        = [i \in 1..4 * Bits |-> (<<bit(((i - 1) \div 4) + 1)>> \o <<one, wt>> \o <<zero>>)[((i - 1) % 4) + 1]]
          \o <<high>> \o <<one, wt>> \o <<take, zero>>
  BY DEF writeByteGetAck, sclRelease
<1> HIDE DEF one, wt, zero, high, take, bit
<1>3. \A i \in 1..4 * Bits : ((i - 1) \div 4) + 1 \in 1..Bits /\ ((i - 1) % 4) + 1 \in 1..4
  BY <1>0
<1>4. \A o \in Op : <<o>> \o <<one, wt>> \o <<zero>> = <<o, one, wt, zero>>
  <2> TAKE o \in Op
  <2>1. <<o>> \o <<one, wt>> = <<o, one, wt>>
    BY <1>1, JoinedOps
  <2>2. <<o, one, wt>> \o <<zero>> = <<o, one, wt, zero>>
    BY <1>1, JoinedOps
  <2> QED
    BY <2>1, <2>2
<1>5. [i \in 1..4 * Bits |-> (<<bit(((i - 1) \div 4) + 1)>> \o <<one, wt>> \o <<zero>>)[((i - 1) % 4) + 1]] = F
  <2>1. \A i \in 1..4 * Bits : (<<bit(((i - 1) \div 4) + 1)>> \o <<one, wt>> \o <<zero>>)
                               = <<bit(((i - 1) \div 4) + 1), one, wt, zero>>
    BY <1>1, <1>3, <1>4
  <2> QED
    BY <2>1
<1>6. F \in Seq(Op) /\ Len(F) = 4 * Bits
  <2>1. \A o \in Op : \A j \in 1..4 : <<o, one, wt, zero>>[j] \in Op
    BY <1>1
  <2>2. \A i \in 1..4 * Bits : F[i] \in Op
    BY <1>1, <1>3, <2>1
  <2>3. F \in [1..4 * Bits -> Op]
    BY <2>2
  <2> HIDE DEF F
  <2> QED
    BY <1>0, <2>3
<1>7. \A k \in 0..(Bits - 1) : /\ F[(4 * k) + 1] = bit(k + 1) /\ F[(4 * k) + 2] = one
                               /\ F[(4 * k) + 3] = wt /\ F[(4 * k) + 4] = zero
  <2> TAKE k \in 0..(Bits - 1)
  <2>1. /\ (4 * k) + 1 \in 1..4 * Bits /\ (4 * k) + 2 \in 1..4 * Bits
        /\ (4 * k) + 3 \in 1..4 * Bits /\ (4 * k) + 4 \in 1..4 * Bits
    BY <1>0
  <2>2. /\ ((4 * k) + 1 - 1) \div 4 = k /\ ((4 * k) + 1 - 1) % 4 = 0 /\ ((4 * k) + 2 - 1) % 4 = 1
        /\ ((4 * k) + 3 - 1) % 4 = 2 /\ ((4 * k) + 4 - 1) % 4 = 3
    BY <1>0
  <2> DEFINE o1 == bit((((4 * k) + 1 - 1) \div 4) + 1) o2 == bit((((4 * k) + 2 - 1) \div 4) + 1)
             o3 == bit((((4 * k) + 3 - 1) \div 4) + 1) o4 == bit((((4 * k) + 4 - 1) \div 4) + 1)
  <2>3. o1 = bit(k + 1)
    BY <2>2
  <2>4. /\ F[(4 * k) + 1] = <<o1, one, wt, zero>>[(((4 * k) + 1 - 1) % 4) + 1]
        /\ F[(4 * k) + 2] = <<o2, one, wt, zero>>[(((4 * k) + 2 - 1) % 4) + 1]
        /\ F[(4 * k) + 3] = <<o3, one, wt, zero>>[(((4 * k) + 3 - 1) % 4) + 1]
        /\ F[(4 * k) + 4] = <<o4, one, wt, zero>>[(((4 * k) + 4 - 1) % 4) + 1]
    BY <2>1
  <2> HIDE DEF o1, o2, o3, o4, F
  <2>5. F[(4 * k) + 1] = o1 /\ F[(4 * k) + 2] = one /\ F[(4 * k) + 3] = wt /\ F[(4 * k) + 4] = zero
    BY <2>2, <2>4
  <2> QED
    BY <2>3, <2>5
<1> HIDE DEF F
<1>8. writeByteGetAck(b) = F \o T
  <2>1. <<high>> \in Seq(Op) /\ <<one, wt>> \in Seq(Op) /\ <<take, zero>> \in Seq(Op) /\ <<high, one, wt>> \in Seq(Op)
    BY <1>1
  <2>2. <<high>> \o <<one, wt>> = <<high, one, wt>> /\ <<high, one, wt>> \o <<take, zero>> = T
    BY <1>1, JoinedOps
  <2>3. (F \o <<high>>) \o <<one, wt>> = F \o <<high, one, wt>>
    BY <1>6, <2>1, <2>2, JoinsAlike
  <2>4. (F \o <<high, one, wt>>) \o <<take, zero>> = F \o T
    BY <1>6, <2>1, <2>2, JoinsAlike
  <2> QED
    BY <1>2, <1>5, <2>3, <2>4
<1>9. T \in Seq(Op) /\ Len(T) = 5 /\ T[1] = high /\ T[2] = one /\ T[3] = wt /\ T[4] = take /\ T[5] = zero
  BY <1>1
<1> HIDE DEF T
<1>10. /\ F \o T \in Seq(Op) /\ Len(F \o T) = Len(F) + Len(T) /\ (\A i \in 1..Len(F) : (F \o T)[i] = F[i])
       /\ \A i \in 1..Len(T) : (F \o T)[Len(F) + i] = T[i]
  <2>1. F \in Seq(Op) /\ T \in Seq(Op)
    BY <1>6, <1>9
  <2> QED
    BY <2>1, ConcatOps
<1>11. \A k \in 0..(Bits - 1) : /\ (F \o T)[(4 * k) + 1] = bit(k + 1) /\ (F \o T)[(4 * k) + 2] = one
                                /\ (F \o T)[(4 * k) + 3] = wt /\ (F \o T)[(4 * k) + 4] = zero
  <2> TAKE k \in 0..(Bits - 1)
  <2>1. /\ (4 * k) + 1 \in 1..4 * Bits /\ (4 * k) + 2 \in 1..4 * Bits
        /\ (4 * k) + 3 \in 1..4 * Bits /\ (4 * k) + 4 \in 1..4 * Bits
    BY <1>0
  <2>2. /\ (F \o T)[(4 * k) + 1] = F[(4 * k) + 1] /\ (F \o T)[(4 * k) + 2] = F[(4 * k) + 2]
        /\ (F \o T)[(4 * k) + 3] = F[(4 * k) + 3] /\ (F \o T)[(4 * k) + 4] = F[(4 * k) + 4]
    BY <1>6, <1>10, <2>1
  <2> QED
    BY <1>7, <2>2
<1>12. \A j \in 1..5 : (F \o T)[(4 * Bits) + j] = T[j]
  BY <1>6, <1>9, <1>10
<1>13. Len(F \o T) = (4 * Bits) + 5
  BY <1>6, <1>9, <1>10
<1> DEFINE w == writeByteGetAck(b)
<1>14. /\ w \in Seq(Op) /\ Len(w) = (4 * Bits) + 5 /\ (\A j \in 1..5 : w[(4 * Bits) + j] = T[j])
       /\ \A k \in 0..(Bits - 1) : /\ w[(4 * k) + 1] = bit(k + 1) /\ w[(4 * k) + 2] = one
                                    /\ w[(4 * k) + 3] = wt /\ w[(4 * k) + 4] = zero
  BY <1>8, <1>10, <1>11, <1>12, <1>13
<1> HIDE DEF w
<1>15. /\ w[(4 * Bits) + 1] = high /\ w[(4 * Bits) + 2] = one /\ w[(4 * Bits) + 3] = wt
       /\ w[(4 * Bits) + 4] = take /\ w[(4 * Bits) + 5] = zero
  BY <1>9, <1>14
<1> QED
  BY <1>14, <1>15 DEF w, one, wt, zero, high, take, bit

LEMMA ReadOps == ASSUME NEW nack \in BOOLEAN
  PROVE  /\ readByteAndAck(nack) \in Seq(Op) /\ Len(readByteAndAck(nack)) = (5 * Bits) + 5
         /\ \A k \in 0..(Bits - 1) :
              /\ readByteAndAck(nack)[(5 * k) + 1] = Sda(1) /\ readByteAndAck(nack)[(5 * k) + 2] = Scl(1)
              /\ readByteAndAck(nack)[(5 * k) + 3] = Do("wait") /\ readByteAndAck(nack)[(5 * k) + 4] = Do("bit")
              /\ readByteAndAck(nack)[(5 * k) + 5] = Scl(0)
         /\ readByteAndAck(nack)[(5 * Bits) + 1] = Sda(IF nack THEN 1 ELSE 0)
         /\ readByteAndAck(nack)[(5 * Bits) + 2] = Scl(1) /\ readByteAndAck(nack)[(5 * Bits) + 3] = Do("wait")
         /\ readByteAndAck(nack)[(5 * Bits) + 4] = Scl(0) /\ readByteAndAck(nack)[(5 * Bits) + 5] = Sda(1)
<1> DEFINE one == Scl(1) wt == Do("wait") zero == Scl(0) high == Sda(1) take == Do("bit")
           answer == Sda(IF nack THEN 1 ELSE 0)
           F == [i \in 1..5 * Bits |-> <<high, one, wt, take, zero>>[((i - 1) % 5) + 1]]
           T == <<answer, one, wt, zero, high>>
<1>0. Bits \in Nat
  BY BitbangAssumption
<1>1. one \in Op /\ wt \in Op /\ zero \in Op /\ high \in Op /\ take \in Op /\ answer \in Op
  BY OpsTyped
<1>2. sclRelease = <<one, wt>> /\ readByteAndAck(nack)
        = [i \in 1..5 * Bits |-> (<<high>> \o <<one, wt>> \o <<take, zero>>)[((i - 1) % 5) + 1]]
          \o <<answer>> \o <<one, wt>> \o <<zero, high>>
  BY DEF readByteAndAck, sclRelease
<1> HIDE DEF one, wt, zero, high, take, answer
<1>3. \A i \in 1..5 * Bits : ((i - 1) % 5) + 1 \in 1..5
  BY <1>0
<1>4. <<high>> \o <<one, wt>> \o <<take, zero>> = <<high, one, wt, take, zero>>
  <2>1. <<high>> \o <<one, wt>> = <<high, one, wt>>
    BY <1>1, JoinedOps
  <2>2. <<high, one, wt>> \o <<take, zero>> = <<high, one, wt, take, zero>>
    BY <1>1, JoinedOps
  <2> QED
    BY <2>1, <2>2
<1>5. [i \in 1..5 * Bits |-> (<<high>> \o <<one, wt>> \o <<take, zero>>)[((i - 1) % 5) + 1]] = F
  BY <1>4
<1>6. F \in Seq(Op) /\ Len(F) = 5 * Bits
  <2>1. \A j \in 1..5 : <<high, one, wt, take, zero>>[j] \in Op
    BY <1>1
  <2>2. \A i \in 1..5 * Bits : F[i] \in Op
    BY <1>3, <2>1
  <2>3. F \in [1..5 * Bits -> Op]
    BY <2>2
  <2> HIDE DEF F
  <2> QED
    BY <1>0, <2>3
<1>7. \A k \in 0..(Bits - 1) : /\ F[(5 * k) + 1] = high /\ F[(5 * k) + 2] = one
                               /\ F[(5 * k) + 3] = wt /\ F[(5 * k) + 4] = take /\ F[(5 * k) + 5] = zero
  <2> TAKE k \in 0..(Bits - 1)
  <2>1. /\ (5 * k) + 1 \in 1..5 * Bits /\ (5 * k) + 2 \in 1..5 * Bits
        /\ (5 * k) + 3 \in 1..5 * Bits /\ (5 * k) + 4 \in 1..5 * Bits /\ (5 * k) + 5 \in 1..5 * Bits
    BY <1>0
  <2>2. /\ ((5 * k) + 1 - 1) % 5 = 0 /\ ((5 * k) + 2 - 1) % 5 = 1 /\ ((5 * k) + 3 - 1) % 5 = 2
        /\ ((5 * k) + 4 - 1) % 5 = 3 /\ ((5 * k) + 5 - 1) % 5 = 4
    BY <1>0
  <2> DEFINE q == <<high, one, wt, take, zero>>
  <2>3. q[1] = high /\ q[2] = one /\ q[3] = wt /\ q[4] = take /\ q[5] = zero
    OBVIOUS
  <2>4. /\ F[(5 * k) + 1] = q[(((5 * k) + 1 - 1) % 5) + 1] /\ F[(5 * k) + 2] = q[(((5 * k) + 2 - 1) % 5) + 1]
        /\ F[(5 * k) + 3] = q[(((5 * k) + 3 - 1) % 5) + 1] /\ F[(5 * k) + 4] = q[(((5 * k) + 4 - 1) % 5) + 1]
        /\ F[(5 * k) + 5] = q[(((5 * k) + 5 - 1) % 5) + 1]
    BY <2>1
  <2> HIDE DEF q, F
  <2> QED
    BY <2>2, <2>3, <2>4
<1> HIDE DEF F
<1>8. readByteAndAck(nack) = F \o T
  <2>1. /\ <<answer>> \in Seq(Op) /\ <<one, wt>> \in Seq(Op) /\ <<zero, high>> \in Seq(Op)
        /\ <<answer, one, wt>> \in Seq(Op)
    BY <1>1
  <2>2. <<answer>> \o <<one, wt>> = <<answer, one, wt>> /\ <<answer, one, wt>> \o <<zero, high>> = T
    BY <1>1, JoinedOps
  <2>3. (F \o <<answer>>) \o <<one, wt>> = F \o <<answer, one, wt>>
    BY <1>6, <2>1, <2>2, ConcatOps
  <2>4. (F \o <<answer, one, wt>>) \o <<zero, high>> = F \o T
    BY <1>6, <2>1, <2>2, ConcatOps
  <2> QED
    BY <1>2, <1>5, <2>3, <2>4
<1>9. T \in Seq(Op) /\ Len(T) = 5 /\ T[1] = answer /\ T[2] = one /\ T[3] = wt /\ T[4] = zero /\ T[5] = high
  BY <1>1
<1> HIDE DEF T
<1>10. /\ F \o T \in Seq(Op) /\ Len(F \o T) = Len(F) + Len(T) /\ (\A i \in 1..Len(F) : (F \o T)[i] = F[i])
       /\ \A i \in 1..Len(T) : (F \o T)[Len(F) + i] = T[i]
  <2>1. F \in Seq(Op) /\ T \in Seq(Op)
    BY <1>6, <1>9
  <2> QED
    BY <2>1, ConcatOps
<1>11. \A k \in 0..(Bits - 1) : /\ (F \o T)[(5 * k) + 1] = high /\ (F \o T)[(5 * k) + 2] = one
                                /\ (F \o T)[(5 * k) + 3] = wt /\ (F \o T)[(5 * k) + 4] = take /\ (F \o T)[(5 * k) + 5] = zero
  <2> TAKE k \in 0..(Bits - 1)
  <2>1. /\ (5 * k) + 1 \in 1..5 * Bits /\ (5 * k) + 2 \in 1..5 * Bits
        /\ (5 * k) + 3 \in 1..5 * Bits /\ (5 * k) + 4 \in 1..5 * Bits /\ (5 * k) + 5 \in 1..5 * Bits
    BY <1>0
  <2>2. /\ (F \o T)[(5 * k) + 1] = F[(5 * k) + 1] /\ (F \o T)[(5 * k) + 2] = F[(5 * k) + 2]
        /\ (F \o T)[(5 * k) + 3] = F[(5 * k) + 3] /\ (F \o T)[(5 * k) + 4] = F[(5 * k) + 4]
        /\ (F \o T)[(5 * k) + 5] = F[(5 * k) + 5]
    BY <1>6, <1>10, <2>1
  <2> QED
    BY <1>7, <2>2
<1>12. \A j \in 1..5 : (F \o T)[(5 * Bits) + j] = T[j]
  BY <1>6, <1>9, <1>10
<1>13. Len(F \o T) = (5 * Bits) + 5
  BY <1>6, <1>9, <1>10
<1> DEFINE w == readByteAndAck(nack)
<1>14. /\ w \in Seq(Op) /\ Len(w) = (5 * Bits) + 5 /\ (\A j \in 1..5 : w[(5 * Bits) + j] = T[j])
       /\ \A k \in 0..(Bits - 1) : /\ w[(5 * k) + 1] = high /\ w[(5 * k) + 2] = one
                                    /\ w[(5 * k) + 3] = wt /\ w[(5 * k) + 4] = take /\ w[(5 * k) + 5] = zero
  BY <1>8, <1>10, <1>11, <1>12, <1>13
<1> HIDE DEF w
<1>15. /\ w[(5 * Bits) + 1] = answer /\ w[(5 * Bits) + 2] = one /\ w[(5 * Bits) + 3] = wt
       /\ w[(5 * Bits) + 4] = zero /\ w[(5 * Bits) + 5] = high
  BY <1>9, <1>14
<1> QED
  BY <1>14, <1>15 DEF w, one, wt, zero, high, take, answer

LEMMA UnrollFour == ASSUME NEW p \in Seq(Op), NEW i \in Nat, 0 < i, i + 3 <= Len(p)
  PROVE  /\ Onwards(p, i) = Then(p[i], Then(p[i + 1], Then(p[i + 2], Then(p[i + 3], Onwards(p, i + 4)))))
         /\ Onwards(p, i) \in Seq(Op) /\ Onwards(p, i + 4) \in Seq(Op)
<1>1. Len(p) \in Nat
  OBVIOUS
<1>2. /\ i \in 1..Len(p) /\ i + 1 \in 1..Len(p) /\ i + 2 \in 1..Len(p) /\ i + 3 \in 1..Len(p)
      /\ (i + 1) + 1 = i + 2 /\ (i + 2) + 1 = i + 3 /\ (i + 3) + 1 = i + 4
  BY <1>1
<1>3. /\ Onwards(p, i) = Then(p[i], Onwards(p, i + 1)) /\ p[i] \in Op /\ Onwards(p, i + 1) \in Seq(Op)
      /\ Onwards(p, i + 1) = Then(p[i + 1], Onwards(p, (i + 1) + 1))
      /\ Onwards(p, i + 2) = Then(p[i + 2], Onwards(p, (i + 2) + 1))
      /\ Onwards(p, i + 3) = Then(p[i + 3], Onwards(p, (i + 3) + 1)) /\ Onwards(p, (i + 3) + 1) \in Seq(Op)
  BY <1>2, OnwardsFacts
<1>4. Onwards(p, i) \in Seq(Op)
  BY <1>3, ThenFacts
<1> QED
  BY <1>2, <1>3, <1>4

LEMMA UnrollFive == ASSUME NEW p \in Seq(Op), NEW i \in Nat, 0 < i, i + 4 <= Len(p)
  PROVE  /\ Onwards(p, i) = Then(p[i], Then(p[i + 1], Then(p[i + 2], Then(p[i + 3], Then(p[i + 4], Onwards(p, i + 5))))))
         /\ Onwards(p, i) \in Seq(Op) /\ Onwards(p, i + 5) \in Seq(Op)
<1>1. Len(p) \in Nat
  OBVIOUS
<1>2. i + 3 <= Len(p) /\ i + 4 \in 1..Len(p) /\ (i + 4) + 1 = i + 5
  BY <1>1
<1>3. /\ Onwards(p, i) = Then(p[i], Then(p[i + 1], Then(p[i + 2], Then(p[i + 3], Onwards(p, i + 4)))))
      /\ Onwards(p, i) \in Seq(Op)
  BY <1>2, UnrollFour
<1>4. Onwards(p, i + 4) = Then(p[i + 4], Onwards(p, (i + 4) + 1)) /\ Onwards(p, (i + 4) + 1) \in Seq(Op)
  BY <1>2, OnwardsFacts
<1> QED
  BY <1>2, <1>3, <1>4

\* A byte that is sent, bit by bit, and its acknowledgement.
LEMMA SendsFacts == ASSUME NEW b \in BitString, NEW rest \in Seq(Op)
  PROVE  /\ \A k \in 0..(Bits - 1) : Sends(b, k, rest) = Then(Sda(b[k + 1]), Then(Scl(1), Then(Do("wait"), Then(Scl(0), Sends(b, k + 1, rest)))))
         /\ Sends(b, Bits, rest) = Then(Sda(1), Then(Scl(1), Then(Do("wait"), Then(Do("ack"), Then(Scl(0), rest)))))
         /\ Sends(b, 0, rest) = writeByteGetAck(b) \o rest
         /\ \A k \in 0..Bits : Sends(b, k, rest) \in Seq(Op)
<1> DEFINE w == writeByteGetAck(b) p == w \o rest
<1>0. Bits \in Nat /\ Bits > 0
  BY BitbangAssumption
<1>1. /\ w \in Seq(Op) /\ Len(w) = (4 * Bits) + 5
      /\ \A k \in 0..(Bits - 1) : /\ w[(4 * k) + 1] = Sda(b[k + 1]) /\ w[(4 * k) + 2] = Scl(1)
                                  /\ w[(4 * k) + 3] = Do("wait") /\ w[(4 * k) + 4] = Scl(0)
  BY WriteOps
<1>2. /\ w[(4 * Bits) + 1] = Sda(1) /\ w[(4 * Bits) + 2] = Scl(1) /\ w[(4 * Bits) + 3] = Do("wait")
      /\ w[(4 * Bits) + 4] = Do("ack") /\ w[(4 * Bits) + 5] = Scl(0)
  BY WriteOps
<1> HIDE DEF w
<1>3. p \in Seq(Op) /\ Len(p) = Len(w) + Len(rest) /\ Len(rest) \in Nat /\ \A i \in 1..Len(w) : p[i] = w[i]
  BY <1>1, ConcatOps
<1>4. Onwards(p, Len(w) + 1) = rest /\ Onwards(p, 1) = p
  BY <1>1, OnwardsEnds
<1>5. \A k \in 0..Bits : Sends(b, k, rest) = Onwards(p, (4 * k) + 1)
  BY DEF Sends, w
<1> HIDE DEF p
<1>6. \A k \in 0..(Bits - 1) :
        /\ Sends(b, k, rest) = Then(Sda(b[k + 1]), Then(Scl(1), Then(Do("wait"), Then(Scl(0), Sends(b, k + 1, rest)))))
        /\ Sends(b, k, rest) \in Seq(Op)
  <2> TAKE k \in 0..(Bits - 1)
  <2> DEFINE i == (4 * k) + 1
  <2>1. /\ i \in Nat /\ 0 < i /\ i + 3 <= Len(p) /\ k \in 0..Bits /\ k + 1 \in 0..Bits
        /\ i + 1 = (4 * k) + 2 /\ i + 2 = (4 * k) + 3 /\ i + 3 = (4 * k) + 4 /\ i + 4 = (4 * (k + 1)) + 1
    BY <1>0, <1>1, <1>3
  <2>2. i \in 1..Len(w) /\ i + 1 \in 1..Len(w) /\ i + 2 \in 1..Len(w) /\ i + 3 \in 1..Len(w)
    BY <1>0, <1>1
  <2>3. p[i] = Sda(b[k + 1]) /\ p[i + 1] = Scl(1) /\ p[i + 2] = Do("wait") /\ p[i + 3] = Scl(0)
    BY <1>1, <1>3, <2>1, <2>2
  <2>4. Sends(b, k, rest) = Onwards(p, i) /\ Sends(b, k + 1, rest) = Onwards(p, i + 4)
    BY <1>5, <2>1
  <2> HIDE DEF i
  <2>5. /\ Onwards(p, i) = Then(p[i], Then(p[i + 1], Then(p[i + 2], Then(p[i + 3], Onwards(p, i + 4)))))
        /\ Onwards(p, i) \in Seq(Op)
    BY <1>3, <2>1, UnrollFour
  <2> QED
    BY <2>3, <2>4, <2>5
<1>7. /\ Sends(b, Bits, rest) = Then(Sda(1), Then(Scl(1), Then(Do("wait"), Then(Do("ack"), Then(Scl(0), rest)))))
      /\ Sends(b, Bits, rest) \in Seq(Op)
  <2> DEFINE i == (4 * Bits) + 1
  <2>1. /\ i \in Nat /\ 0 < i /\ i + 4 <= Len(p)
        /\ i + 1 = (4 * Bits) + 2 /\ i + 2 = (4 * Bits) + 3 /\ i + 3 = (4 * Bits) + 4 /\ i + 4 = (4 * Bits) + 5
        /\ i + 5 = Len(w) + 1
    BY <1>0, <1>1, <1>3
  <2>2. i \in 1..Len(w) /\ i + 1 \in 1..Len(w) /\ i + 2 \in 1..Len(w) /\ i + 3 \in 1..Len(w) /\ i + 4 \in 1..Len(w)
    BY <1>0, <1>1
  <2>3. p[i] = Sda(1) /\ p[i + 1] = Scl(1) /\ p[i + 2] = Do("wait") /\ p[i + 3] = Do("ack") /\ p[i + 4] = Scl(0)
    BY <1>2, <1>3, <2>1, <2>2
  <2>4. Sends(b, Bits, rest) = Onwards(p, i) /\ Onwards(p, i + 5) = rest
    BY <1>0, <1>4, <1>5, <2>1
  <2> HIDE DEF i
  <2>5. /\ Onwards(p, i) = Then(p[i], Then(p[i + 1], Then(p[i + 2], Then(p[i + 3], Then(p[i + 4], Onwards(p, i + 5))))))
        /\ Onwards(p, i) \in Seq(Op)
    BY <1>3, <2>1, UnrollFive
  <2> QED
    BY <2>3, <2>4, <2>5
<1>8. Sends(b, 0, rest) = p
  <2>1. 0 \in 0..Bits /\ (4 * 0) + 1 = 1
    BY <1>0
  <2> QED
    BY <1>4, <1>5, <2>1
<1>9. \A k \in 0..Bits : Sends(b, k, rest) \in Seq(Op)
  <2> TAKE k \in 0..Bits
  <2>1. k \in 0..(Bits - 1) \/ k = Bits
    BY <1>0
  <2> QED
    BY <1>6, <1>7, <2>1
<1> QED
  BY <1>6, <1>7, <1>8, <1>9 DEF p, w

LEMMA ReadRestTyped == ASSUME NEW more \in 0..1 PROVE ReadRest(more) \in Seq(Op)
<1>1. readByteAndAck(TRUE) \in Seq(Op) /\ stop \in Seq(Op)
  BY ReadOps, StopIs
<1>2. readByteAndAck(TRUE) \o stop \in Seq(Op)
  BY <1>1, ConcatOps
<1> QED
  BY <1>1, <1>2 DEF ReadRest

\* A byte that is read, bit by bit, and the answer whether there is more.
LEMMA ReadsFacts == ASSUME NEW more \in 0..1
  PROVE  /\ \A k \in 0..(Bits - 1) : Reads(k, more) = Then(Sda(1), Then(Scl(1), Then(Do("wait"), Then(Do("bit"), Then(Scl(0), Reads(k + 1, more))))))
         /\ Reads(Bits, more) = Then(Sda(Answer(more)), Then(Scl(1), Then(Do("wait"), Then(Scl(0), Then(Sda(1), ReadRest(more))))))
         /\ Reads(0, more) = readByteAndAck(more = 0) \o ReadRest(more)
         /\ \A k \in 0..Bits : Reads(k, more) \in Seq(Op)
<1> DEFINE w == readByteAndAck(more = 0) rest == ReadRest(more) p == w \o rest
<1>0. Bits \in Nat /\ Bits > 0 /\ (more = 0) \in BOOLEAN
  BY BitbangAssumption
<1>1. /\ w \in Seq(Op) /\ Len(w) = (5 * Bits) + 5
      /\ \A k \in 0..(Bits - 1) : /\ w[(5 * k) + 1] = Sda(1) /\ w[(5 * k) + 2] = Scl(1)
                                  /\ w[(5 * k) + 3] = Do("wait") /\ w[(5 * k) + 4] = Do("bit") /\ w[(5 * k) + 5] = Scl(0)
  BY <1>0, ReadOps
<1>2. /\ w[(5 * Bits) + 1] = Sda(Answer(more)) /\ w[(5 * Bits) + 2] = Scl(1) /\ w[(5 * Bits) + 3] = Do("wait")
      /\ w[(5 * Bits) + 4] = Scl(0) /\ w[(5 * Bits) + 5] = Sda(1)
  BY <1>0, ReadOps DEF Answer
<1>r. rest \in Seq(Op)
  BY ReadRestTyped
<1> HIDE DEF w, rest
<1>3. p \in Seq(Op) /\ Len(p) = Len(w) + Len(rest) /\ Len(rest) \in Nat /\ \A i \in 1..Len(w) : p[i] = w[i]
  <2>1. w \in Seq(Op) /\ rest \in Seq(Op)
    BY <1>1, <1>r
  <2> QED
    BY <2>1, ConcatOps
<1>4. Onwards(p, Len(w) + 1) = rest /\ Onwards(p, 1) = p
  BY <1>1, <1>r, OnwardsEnds
<1>5. \A k \in 0..Bits : Reads(k, more) = Onwards(p, (5 * k) + 1)
  BY DEF Reads, w, rest
<1> HIDE DEF p
<1>6. \A k \in 0..(Bits - 1) :
        /\ Reads(k, more) = Then(Sda(1), Then(Scl(1), Then(Do("wait"), Then(Do("bit"), Then(Scl(0), Reads(k + 1, more))))))
        /\ Reads(k, more) \in Seq(Op)
  <2> TAKE k \in 0..(Bits - 1)
  <2> DEFINE i == (5 * k) + 1
  <2>1. /\ i \in Nat /\ 0 < i /\ i + 4 <= Len(p) /\ k \in 0..Bits /\ k + 1 \in 0..Bits
        /\ i + 1 = (5 * k) + 2 /\ i + 2 = (5 * k) + 3 /\ i + 3 = (5 * k) + 4 /\ i + 4 = (5 * k) + 5
        /\ i + 5 = (5 * (k + 1)) + 1
    BY <1>0, <1>1, <1>3
  <2>2. i \in 1..Len(w) /\ i + 1 \in 1..Len(w) /\ i + 2 \in 1..Len(w) /\ i + 3 \in 1..Len(w) /\ i + 4 \in 1..Len(w)
    BY <1>0, <1>1
  <2>3. p[i] = Sda(1) /\ p[i + 1] = Scl(1) /\ p[i + 2] = Do("wait") /\ p[i + 3] = Do("bit") /\ p[i + 4] = Scl(0)
    BY <1>1, <1>3, <2>1, <2>2
  <2>4. Reads(k, more) = Onwards(p, i) /\ Reads(k + 1, more) = Onwards(p, i + 5)
    BY <1>5, <2>1
  <2> HIDE DEF i
  <2>5. /\ Onwards(p, i) = Then(p[i], Then(p[i + 1], Then(p[i + 2], Then(p[i + 3], Then(p[i + 4], Onwards(p, i + 5))))))
        /\ Onwards(p, i) \in Seq(Op)
    BY <1>3, <2>1, UnrollFive
  <2> QED
    BY <2>3, <2>4, <2>5
<1>7. /\ Reads(Bits, more) = Then(Sda(Answer(more)), Then(Scl(1), Then(Do("wait"), Then(Scl(0), Then(Sda(1), rest)))))
      /\ Reads(Bits, more) \in Seq(Op)
  <2> DEFINE i == (5 * Bits) + 1
  <2>1. /\ i \in Nat /\ 0 < i /\ i + 4 <= Len(p)
        /\ i + 1 = (5 * Bits) + 2 /\ i + 2 = (5 * Bits) + 3 /\ i + 3 = (5 * Bits) + 4 /\ i + 4 = (5 * Bits) + 5
        /\ i + 5 = Len(w) + 1
    BY <1>0, <1>1, <1>3
  <2>2. i \in 1..Len(w) /\ i + 1 \in 1..Len(w) /\ i + 2 \in 1..Len(w) /\ i + 3 \in 1..Len(w) /\ i + 4 \in 1..Len(w)
    BY <1>0, <1>1
  <2>3. p[i] = Sda(Answer(more)) /\ p[i + 1] = Scl(1) /\ p[i + 2] = Do("wait") /\ p[i + 3] = Scl(0) /\ p[i + 4] = Sda(1)
    BY <1>2, <1>3, <2>1, <2>2
  <2>4. Reads(Bits, more) = Onwards(p, i) /\ Onwards(p, i + 5) = rest
    BY <1>0, <1>4, <1>5, <2>1
  <2> HIDE DEF i
  <2>5. /\ Onwards(p, i) = Then(p[i], Then(p[i + 1], Then(p[i + 2], Then(p[i + 3], Then(p[i + 4], Onwards(p, i + 5))))))
        /\ Onwards(p, i) \in Seq(Op)
    BY <1>3, <2>1, UnrollFive
  <2> QED
    BY <2>3, <2>4, <2>5
<1>8. Reads(0, more) = p
  <2>1. 0 \in 0..Bits /\ (5 * 0) + 1 = 1
    BY <1>0
  <2> QED
    BY <1>4, <1>5, <2>1
<1>9. \A k \in 0..Bits : Reads(k, more) \in Seq(Op)
  <2> TAKE k \in 0..Bits
  <2>1. k \in 0..(Bits - 1) \/ k = Bits
    BY <1>0
  <2> QED
    BY <1>6, <1>7, <2>1
<1> QED
  BY <1>6, <1>7, <1>8, <1>9 DEF p, w, rest

LEMMA BitStringFacts == ASSUME NEW b \in BitString
  PROVE  b \in Seq(0..1) /\ Len(b) = Bits /\ \A i \in 1..Bits : b[i] \in 0..1
BY BitbangAssumption DEF BitString

LEMMA SentFacts == ASSUME NEW s \in Transmissions
  PROVE  /\ s \in Seq(BitString) /\ Len(s) \in {2, 3} /\ DOMAIN s = 1..Len(s)
         /\ \A j \in 1..Len(s) : s[j] \in BitString
         /\ s[1][Bits] = 0 /\ (Len(s) = 3 => s[3][Bits] = 1)
<1>1. Address(0) \in BitString /\ Address(1) \in BitString /\ Address(0)[Bits] = 0 /\ Address(1)[Bits] = 1
  <2>1. Bits \in Nat /\ Bits \in 1..Bits /\ ~(Bits < Bits) /\ \A i \in 1..Bits : i % 2 \in 0..1
    BY BitbangAssumption
  <2> QED
    BY <2>1 DEF Address, BitString
<1>2. CASE \E cmd \in BitString : s = <<Address(0), cmd>>
  <2>1. PICK cmd \in BitString : s = <<Address(0), cmd>>
    BY <1>2
  <2> HIDE DEF BitString
  <2>2. \A a, c \in BitString : <<a, c>> \in Seq(BitString) /\ Len(<<a, c>>) = 2 /\ <<a, c>>[1] = a /\ <<a, c>>[2] = c
    OBVIOUS
  <2>3. s \in Seq(BitString) /\ Len(s) = 2 /\ s[1] = Address(0) /\ s[2] = cmd
    BY <1>1, <2>1, <2>2
  <2>4. \A j \in 1..Len(s) : s[j] \in BitString
    BY <2>3, ElementOfSeq
  <2> QED
    BY <1>1, <2>3, <2>4
<1>3. CASE \E cmd \in BitString : s = <<Address(0), cmd, Address(1)>>
  <2>1. PICK cmd \in BitString : s = <<Address(0), cmd, Address(1)>>
    BY <1>3
  <2>2. \A a, c, d \in BitString :
          /\ <<a, c, d>> \in Seq(BitString) /\ Len(<<a, c, d>>) = 3
          /\ <<a, c, d>>[1] = a /\ <<a, c, d>>[2] = c /\ <<a, c, d>>[3] = d
    OBVIOUS
  <2>3. s \in Seq(BitString) /\ Len(s) = 3 /\ s[1] = Address(0) /\ s[2] = cmd /\ s[3] = Address(1)
    BY <1>1, <2>1, <2>2
  <2>4. \A j \in 1..Len(s) : s[j] \in BitString
    BY <2>3
  <2> QED
    BY <1>1, <2>3, <2>4
<1> QED
  BY <1>2, <1>3 DEF Transmissions

LEMMA RestFacts == ReadRest(1) = Reads(0, 0) /\ ReadRest(0) = stop
<1>1. 0 \in 0..1 /\ (0 = 0) = TRUE
  OBVIOUS
<1>2. Reads(0, 0) = readByteAndAck(0 = 0) \o ReadRest(0)
  BY <1>1, ReadsFacts
<1>3. ReadRest(0) = stop /\ ReadRest(1) = readByteAndAck(TRUE) \o stop
  BY DEF ReadRest
<1> QED
  BY <1>1, <1>2, <1>3

\* What comes after each byte.
LEMMA AfterFacts == ASSUME NEW s \in Transmissions, NEW n \in 1..2
  PROVE  /\ \A j \in 1..Len(s) : AfterByte(s, n, j) \in Seq(Op)
         /\ AfterByte(s, n, 1) = ByteSent(s, n, 2, 0)
         /\ Len(s) = 2 => AfterByte(s, n, 2) = stop
         /\ Len(s) = 3 => /\ AfterByte(s, n, 2) = Then(Sda(1), Then(Scl(1), Then(Sda(0), Then(Scl(0), ByteSent(s, n, 3, 0)))))
                          /\ AfterByte(s, n, 3) = Reads(0, n - 1)
<1>0. /\ Len(s) \in {2, 3} /\ s[2] \in BitString /\ (Len(s) = 3 => s[3] \in BitString)
      /\ n - 1 \in 0..1 /\ 0 \in 0..Bits
  <2>1. Len(s) \in {2, 3} /\ \A j \in 1..Len(s) : s[j] \in BitString
    BY SentFacts
  <2> QED
    BY <2>1, BitbangAssumption
<1>1. Reads(0, n - 1) \in Seq(Op)
  BY <1>0, ReadsFacts
<1>2. Len(s) = 3 => Sends(s[3], 0, Reads(0, n - 1)) \in Seq(Op)
  BY <1>0, <1>1, SendsFacts
<1>3. AfterCommand(s, n) \in Seq(Op)
  <2>1. Len(s) = 3 => start \o Sends(s[3], 0, Reads(0, n - 1)) \in Seq(Op)
    BY <1>2, StartIs
  <2> QED
    BY <1>0, <2>1, StopIs DEF AfterCommand
<1>4. Sends(s[2], 0, AfterCommand(s, n)) \in Seq(Op)
  BY <1>0, <1>3, SendsFacts
<1>5. \A j \in 1..Len(s) : AfterByte(s, n, j) \in Seq(Op)
  BY <1>1, <1>3, <1>4 DEF AfterByte
<1>6. AfterByte(s, n, 1) = Sends(s[2], 0, AfterCommand(s, n)) /\ AfterByte(s, n, 2) = AfterCommand(s, n)
      /\ AfterByte(s, n, 3) = Reads(0, n - 1)
  BY DEF AfterByte
<1>7. ByteSent(s, n, 2, 0) = Sends(s[2], 0, AfterByte(s, n, 2)) /\ ByteSent(s, n, 3, 0) = Sends(s[3], 0, AfterByte(s, n, 3))
  BY DEF ByteSent
<1>8. Len(s) = 3 => AfterCommand(s, n) = start \o Sends(s[3], 0, Reads(0, n - 1))
  BY DEF AfterCommand
<1>9. Len(s) = 2 => AfterCommand(s, n) = stop
  BY DEF AfterCommand
<1>10. Len(s) = 3 => AfterCommand(s, n) = Then(Sda(1), Then(Scl(1), Then(Sda(0), Then(Scl(0), ByteSent(s, n, 3, 0)))))
  BY <1>2, <1>6, <1>7, <1>8, StartIs
<1> QED
  BY <1>5, <1>6, <1>7, <1>9, <1>10

\* The program of a byte that is sent, bit by bit.
LEMMA ByteFacts == ASSUME NEW s \in Transmissions, NEW n \in 1..2, NEW j \in 1..Len(s)
  PROVE  /\ \A k \in 0..(Bits - 1) : ByteSent(s, n, j, k) = Then(Sda(s[j][k + 1]), Then(Scl(1), Then(Do("wait"), Then(Scl(0), ByteSent(s, n, j, k + 1)))))
         /\ ByteSent(s, n, j, Bits) = Then(Sda(1), Then(Scl(1), Then(Do("wait"), Then(Do("ack"), Then(Scl(0), AfterByte(s, n, j))))))
         /\ \A k \in 0..Bits : ByteSent(s, n, j, k) \in Seq(Op)
<1>1. s[j] \in BitString /\ AfterByte(s, n, j) \in Seq(Op)
  BY SentFacts, AfterFacts
<1> QED
  BY <1>1, SendsFacts DEF ByteSent

\* The whole program.
LEMMA ProgramIs == ASSUME NEW cmd \in BitString
  PROVE  /\ writeByte(cmd) = Then(Sda(1), Then(Scl(1), Then(Sda(0), Then(Scl(0), ByteSent(<<Address(0), cmd>>, 1, 1, 0)))))
         /\ \A n \in 1..2 : readBytes(cmd, n)
              = Then(Sda(1), Then(Scl(1), Then(Sda(0), Then(Scl(0), ByteSent(<<Address(0), cmd, Address(1)>>, n, 1, 0)))))
<1> DEFINE a == writeByteGetAck(Address(0)) c == writeByteGetAck(cmd) r == writeByteGetAck(Address(1))
           s2 == <<Address(0), cmd>> s3 == <<Address(0), cmd, Address(1)>>
<1>0. Address(0) \in BitString /\ Address(1) \in BitString
  <2>1. \A i \in 1..Bits : i % 2 \in 0..1
    BY BitbangAssumption
  <2> QED
    BY <2>1 DEF Address, BitString
<1>1. /\ s2 \in Transmissions /\ Len(s2) = 2 /\ s2[1] = Address(0) /\ s2[2] = cmd
      /\ s3 \in Transmissions /\ Len(s3) = 3 /\ s3[1] = Address(0) /\ s3[2] = cmd /\ s3[3] = Address(1)
  BY DEF Transmissions
<1> HIDE DEF s2, s3
<1>2. /\ a \in Seq(Op) /\ c \in Seq(Op) /\ r \in Seq(Op) /\ start \in Seq(Op) /\ stop \in Seq(Op)
      /\ readByteAndAck(TRUE) \in Seq(Op) /\ readByteAndAck(FALSE) \in Seq(Op)
  <2>1. start \in Seq(Op)
    BY OpsTyped DEF start
  <2> QED
    BY <1>0, <2>1, WriteOps, ReadOps, StopIs
<1>3. beginCommand(cmd) = (start \o a) \o c
  BY DEF beginCommand, writeByteExpectAck
<1>4. \A x \in Seq(Op) : ((start \o a) \o c) \o x = start \o (a \o (c \o x)) /\ c \o x \in Seq(Op) /\ a \o (c \o x) \in Seq(Op)
  <2> TAKE x \in Seq(Op)
  <2> HIDE DEF a, c
  <2>1. start \o a \in Seq(Op) /\ c \o x \in Seq(Op)
    BY <1>2, JoinTyped
  <2>2. ((start \o a) \o c) \o x = (start \o a) \o (c \o x)
    <3> DEFINE u == start \o a v == c w == x
    <3>1. u \in Seq(Op) /\ v \in Seq(Op) /\ w \in Seq(Op)
      BY <1>2, <2>1
    <3> HIDE DEF u, v, w
    <3>2. (u \o v) \o w = u \o (v \o w)
      BY <3>1, JoinsAlike
    <3> QED
      BY <3>2 DEF u, v, w
  <2>3. (start \o a) \o (c \o x) = start \o (a \o (c \o x))
    <3> DEFINE u == start v == a w == c \o x
    <3>1. u \in Seq(Op) /\ v \in Seq(Op) /\ w \in Seq(Op)
      BY <1>2, <2>1
    <3> HIDE DEF u, v, w
    <3>2. (u \o v) \o w = u \o (v \o w)
      BY <3>1, JoinsAlike
    <3> QED
      BY <3>2 DEF u, v, w
  <2>4. a \o (c \o x) \in Seq(Op)
    BY <1>2, <2>1, JoinTyped
  <2> QED
    BY <2>1, <2>2, <2>3, <2>4
<1>5. \A x \in Seq(Op) : Sends(Address(0), 0, x) = a \o x /\ Sends(cmd, 0, x) = c \o x /\ Sends(Address(1), 0, x) = r \o x
  BY <1>0, SendsFacts
<1>6. writeByte(cmd) = Then(Sda(1), Then(Scl(1), Then(Sda(0), Then(Scl(0), ByteSent(s2, 1, 1, 0)))))
  <2>1. writeByte(cmd) = start \o (a \o (c \o stop))
    BY <1>2, <1>3, <1>4 DEF writeByte
  <2>2. AfterByte(s2, 1, 2) = stop /\ AfterByte(s2, 1, 1) = ByteSent(s2, 1, 2, 0)
    BY <1>1, AfterFacts
  <2>3. ByteSent(s2, 1, 2, 0) = c \o stop
    BY <1>1, <1>2, <1>5, <2>2 DEF ByteSent
  <2>4. c \o stop \in Seq(Op) /\ a \o (c \o stop) \in Seq(Op)
    BY <1>2, <1>4
  <2>5. ByteSent(s2, 1, 1, 0) = a \o (c \o stop)
    BY <1>1, <1>5, <2>2, <2>3, <2>4 DEF ByteSent
  <2> QED
    BY <2>1, <2>4, <2>5, StartIs
<1>7. ASSUME NEW n \in 1..2
      PROVE readBytes(cmd, n) = Then(Sda(1), Then(Scl(1), Then(Sda(0), Then(Scl(0), ByteSent(s3, n, 1, 0)))))
  <2> DEFINE more == IF n = 2 THEN readByteAndAck(FALSE) ELSE <<>>
             last == readByteAndAck(TRUE) tail == Reads(0, n - 1)
  <2>1. more \in Seq(Op) /\ last \in Seq(Op) /\ tail \in Seq(Op)
    <3>1. n - 1 \in 0..1 /\ 0 \in 0..Bits
      BY BitbangAssumption
    <3>2. tail \in Seq(Op)
      BY <3>1, ReadsFacts
    <3>3. more \in Seq(Op) /\ last \in Seq(Op)
      <4>1. <<>> \in Seq(Op)
        OBVIOUS
      <4>2. readByteAndAck(TRUE) \in Seq(Op) /\ readByteAndAck(FALSE) \in Seq(Op)
        BY <1>2
      <4>3. more \in Seq(Op)
        BY <4>1, <4>2, Zenon
      <4> QED
        BY <4>2, <4>3
    <3> QED
      BY <3>2, <3>3
  <2>2. tail = more \o (last \o stop)
    <3>0. n = 1 \/ n = 2
      OBVIOUS
    <3>1. CASE n = 1
      <4>1. n - 1 = 0 /\ tail = Reads(0, 0) /\ more = <<>>
        BY <3>1
      <4>2. Reads(0, 0) = last \o stop
        BY RestFacts DEF ReadRest
      <4>3. last \o stop \in Seq(Op)
        BY <1>2, JoinTyped
      <4>4. <<>> \o (last \o stop) = last \o stop
        BY <4>3, ConcatEmptySeq
      <4> QED
        BY <4>1, <4>2, <4>4
    <3>2. CASE n = 2
      <4>1. n - 1 = 1 /\ tail = Reads(0, 1) /\ more = readByteAndAck(FALSE)
        BY <3>2
      <4>2. Reads(0, 1) = readByteAndAck(1 = 0) \o ReadRest(1) /\ (1 = 0) = FALSE
        BY ReadsFacts
      <4>3. ReadRest(1) = last \o stop
        BY DEF ReadRest
      <4> QED
        BY <4>1, <4>2, <4>3
    <3> QED
      BY <3>0, <3>1, <3>2
  <2> HIDE DEF more, last, tail
  <2>3. readBytes(cmd, n) = (((((start \o a) \o c) \o start) \o r) \o more) \o last \o stop
    BY <1>3 DEF readBytes, beginRead, writeByteExpectAck, repeatedStart, start, more, last
  <2> HIDE DEF a, c, r
  <2> DEFINE b == (start \o a) \o c
  <2>4. b \in Seq(Op) /\ b \o start \in Seq(Op) /\ (b \o start) \o r \in Seq(Op) /\ ((b \o start) \o r) \o more \in Seq(Op)
    <3>1. start \o a \in Seq(Op)
      BY <1>2, JoinTyped
    <3>2. b \in Seq(Op)
      BY <1>2, <3>1, JoinTyped
    <3> HIDE DEF b
    <3>3. b \o start \in Seq(Op)
      BY <1>2, <3>2, JoinTyped
    <3>4. (b \o start) \o r \in Seq(Op)
      BY <1>2, <3>3, JoinTyped
    <3>5. ((b \o start) \o r) \o more \in Seq(Op)
      BY <2>1, <3>4, JoinTyped
    <3> QED
      BY <3>2, <3>3, <3>4, <3>5
  <2> HIDE DEF b
  <2>5. (((((b \o start) \o r) \o more) \o last) \o stop) = b \o (start \o (r \o tail))
    <3>1. last \o stop \in Seq(Op) /\ r \o tail \in Seq(Op)
      BY <1>2, <2>1, JoinTyped
    <3>2. ((((b \o start) \o r) \o more) \o last) \o stop = (((b \o start) \o r) \o more) \o (last \o stop)
      <4> DEFINE u == ((b \o start) \o r) \o more v == last w == stop
      <4>1. u \in Seq(Op) /\ v \in Seq(Op) /\ w \in Seq(Op)
        BY <1>2, <2>1, <2>4
      <4> HIDE DEF u, v, w
      <4>2. (u \o v) \o w = u \o (v \o w)
        BY <4>1, JoinsAlike
      <4> QED
        BY <4>2 DEF u, v, w
    <3>3. (((b \o start) \o r) \o more) \o (last \o stop) = ((b \o start) \o r) \o (more \o (last \o stop))
      <4> DEFINE u == (b \o start) \o r v == more w == last \o stop
      <4>1. u \in Seq(Op) /\ v \in Seq(Op) /\ w \in Seq(Op)
        BY <2>1, <2>4, <3>1
      <4> HIDE DEF u, v, w
      <4>2. (u \o v) \o w = u \o (v \o w)
        BY <4>1, JoinsAlike
      <4> QED
        BY <4>2 DEF u, v, w
    <3>4. ((b \o start) \o r) \o tail = (b \o start) \o (r \o tail)
      <4> DEFINE u == b \o start v == r w == tail
      <4>1. u \in Seq(Op) /\ v \in Seq(Op) /\ w \in Seq(Op)
        BY <1>2, <2>1, <2>4
      <4> HIDE DEF u, v, w
      <4>2. (u \o v) \o w = u \o (v \o w)
        BY <4>1, JoinsAlike
      <4> QED
        BY <4>2 DEF u, v, w
    <3>5. (b \o start) \o (r \o tail) = b \o (start \o (r \o tail))
      <4> DEFINE u == b v == start w == r \o tail
      <4>1. u \in Seq(Op) /\ v \in Seq(Op) /\ w \in Seq(Op)
        BY <1>2, <2>4, <3>1
      <4> HIDE DEF u, v, w
      <4>2. (u \o v) \o w = u \o (v \o w)
        BY <4>1, JoinsAlike
      <4> QED
        BY <4>2 DEF u, v, w
    <3> QED
      BY <2>2, <3>2, <3>3, <3>4, <3>5
  <2>6. /\ AfterByte(s3, n, 1) = ByteSent(s3, n, 2, 0) /\ AfterByte(s3, n, 3) = tail
        /\ AfterByte(s3, n, 2) = start \o Sends(s3[3], 0, tail)
    <3>1. AfterByte(s3, n, 1) = ByteSent(s3, n, 2, 0) /\ AfterByte(s3, n, 3) = Reads(0, n - 1)
      BY <1>1, AfterFacts
    <3>2. AfterByte(s3, n, 2) = AfterCommand(s3, n)
      BY DEF AfterByte
    <3> QED
      BY <1>1, <3>1, <3>2 DEF AfterCommand, tail
  <2>7. AfterByte(s3, n, 2) = start \o (r \o tail)
    BY <1>1, <1>5, <2>1, <2>6
  <2>8. r \o tail \in Seq(Op) /\ start \o (r \o tail) \in Seq(Op)
    <3>1. r \o tail \in Seq(Op)
      BY <1>2, <2>1, JoinTyped
    <3> QED
      BY <1>2, <3>1, JoinTyped
  <2>9. ByteSent(s3, n, 2, 0) = c \o (start \o (r \o tail))
    BY <1>1, <1>5, <2>7, <2>8 DEF ByteSent
  <2>10. b \o (start \o (r \o tail)) = start \o (a \o (c \o (start \o (r \o tail))))
         /\ c \o (start \o (r \o tail)) \in Seq(Op) /\ a \o (c \o (start \o (r \o tail))) \in Seq(Op)
    BY <1>4, <2>8 DEF b
  <2>11. ByteSent(s3, n, 1, 0) = a \o (c \o (start \o (r \o tail)))
    <3> DEFINE x == c \o (start \o (r \o tail))
    <3>1. AfterByte(s3, n, 1) = x /\ x \in Seq(Op) /\ s3[1] = Address(0)
      BY <1>1, <2>6, <2>9, <2>10
    <3> HIDE DEF x
    <3>2. Sends(Address(0), 0, x) = a \o x
      BY <1>5, <3>1
    <3> QED
      BY <3>1, <3>2 DEF ByteSent, x
  <2>12. readBytes(cmd, n) = start \o ByteSent(s3, n, 1, 0)
    BY <2>3, <2>5, <2>10, <2>11 DEF b
  <2> QED
    BY <2>10, <2>11, <2>12, StartIs
<1> QED
  BY <1>6, <1>7 DEF s2, s3

--------
(* What the slave makes of what the master does on the lines. *)

LEMMA SlaveFields == ASSUME NEW s \in SlaveStates
  PROVE  /\ s.role \in {"off", "listen", "ack", "tell", "told"} /\ s.sda \in 0..1 /\ s.scl \in 0..1
         /\ s.bits \in Seq(0..1) /\ s.next \in {"address", "data"} /\ s.heard \in Seq(BitString) /\ s.told \in Seq(BitString)
BY DEF SlaveStates

LEMMA SeesNothing == ASSUME NEW s, NEW from, NEW to, NEW t \in Sees(s, from, to),
                            \/ from.scl = 0 /\ to.scl = 0
                            \/ from.scl = 1 /\ to.scl = 1 /\ from.sda = to.sda
  PROVE t = s
<1>1. CASE from.scl = 0 /\ to.scl = 0
  BY <1>1 DEF Sees
<1>2. CASE from.scl = 1 /\ to.scl = 1 /\ from.sda = to.sda
  BY <1>2 DEF Sees
<1> QED
  BY <1>1, <1>2

LEMMA SeesRise == ASSUME NEW s, NEW from, NEW to, NEW t \in Sees(s, from, to), from.scl = 0, to.scl = 1
  PROVE t = Rises(s, to.sda)
BY DEF Sees

LEMMA SeesFall == ASSUME NEW s, NEW from, NEW to, NEW t \in Sees(s, from, to), from.scl = 1, to.scl = 0
  PROVE t \in Falls(s)
BY DEF Sees

LEMMA SeesStart == ASSUME NEW s, NEW from, NEW to, NEW t \in Sees(s, from, to), from.scl = 1, to.scl = 1,
                          from.sda = 1, to.sda = 0
  PROVE t = [s EXCEPT !.role = "listen", !.next = "address", !.bits = <<>>]
BY DEF Sees

LEMMA SeesStop == ASSUME NEW s, NEW from, NEW to, NEW t \in Sees(s, from, to), from.scl = 1, to.scl = 1,
                         from.sda = 0, to.sda = 1
  PROVE t = [s EXCEPT !.role = "off", !.bits = <<>>]
BY DEF Sees

LEMMA RisesFacts == ASSUME NEW s \in SlaveStates, NEW v \in 0..1
  PROVE  /\ Rises(s, v) \in SlaveStates
         /\ Rises(s, v).role = s.role /\ Rises(s, v).next = s.next /\ Rises(s, v).heard = s.heard
         /\ Rises(s, v).told = s.told /\ Rises(s, v).sda = s.sda /\ Rises(s, v).scl = s.scl
         /\ s.role \in {"listen", "told"} => Rises(s, v).bits = Append(s.bits, v)
         /\ s.role \notin {"listen", "told"} => Rises(s, v) = s
<1> DEFINE longer == Append(s.bits, v)
<1>1. longer \in Seq(0..1)
  BY SlaveFields
<1> HIDE DEF longer
<1>2. CASE s.role \in {"listen", "told"}
  <2>1. Rises(s, v) = [s EXCEPT !.bits = longer]
    BY <1>2 DEF Rises, longer
  <2>2. /\ Rises(s, v) \in SlaveStates /\ Rises(s, v).bits = longer
        /\ Rises(s, v).role = s.role /\ Rises(s, v).next = s.next /\ Rises(s, v).heard = s.heard
        /\ Rises(s, v).told = s.told /\ Rises(s, v).sda = s.sda /\ Rises(s, v).scl = s.scl
    BY <1>1, <2>1 DEF SlaveStates
  <2> QED
    BY <1>2, <2>2 DEF longer
<1>3. CASE s.role \notin {"listen", "told"}
  BY <1>3 DEF Rises
<1> QED
  BY <1>2, <1>3

LEMMA TellsFacts == ASSUME NEW s \in SlaveStates, NEW d \in BitString
  PROVE  /\ Tells(s, d) \in SlaveStates /\ Tells(s, d).role = "tell" /\ Tells(s, d).bits = d
         /\ Tells(s, d).told = Append(s.told, d) /\ Tells(s, d).sda = d[1] /\ Tells(s, d).heard = s.heard
         /\ Tells(s, d).scl = s.scl /\ Tells(s, d).next = s.next
<1> DEFINE more == Append(s.told, d)
<1>1. more \in Seq(BitString) /\ d[1] \in 0..1 /\ d \in Seq(0..1)
  <2>1. s.told \in Seq(BitString)
    BY SlaveFields
  <2>2. d[1] \in 0..1 /\ d \in Seq(0..1)
    BY BitStringFacts, BitbangAssumption
  <2> HIDE DEF BitString
  <2>3. more \in Seq(BitString)
    BY <2>1
  <2> QED
    BY <2>2, <2>3
<1> HIDE DEF more
<1>2. Tells(s, d) = [s EXCEPT !.role = "tell", !.bits = d, !.told = more, !.sda = d[1]]
  BY DEF Tells, more
<1>3. /\ Tells(s, d) \in SlaveStates /\ Tells(s, d).role = "tell" /\ Tells(s, d).bits = d
      /\ Tells(s, d).told = more /\ Tells(s, d).sda = d[1] /\ Tells(s, d).heard = s.heard
      /\ Tells(s, d).scl = s.scl /\ Tells(s, d).next = s.next
  BY <1>1, <1>2 DEF SlaveStates
<1> QED
  BY <1>3 DEF more

\* The slave whose role alone, or whose role and bits, change.
LEMMA SlaveTurns == ASSUME NEW s \in SlaveStates
  PROVE  /\ \A r \in {"off", "listen", "ack", "tell", "told"} :
              /\ [s EXCEPT !.role = r] \in SlaveStates /\ [s EXCEPT !.role = r].role = r
              /\ [s EXCEPT !.role = r].bits = s.bits /\ [s EXCEPT !.role = r].sda = s.sda
              /\ [s EXCEPT !.role = r].scl = s.scl /\ [s EXCEPT !.role = r].next = s.next
              /\ [s EXCEPT !.role = r].heard = s.heard /\ [s EXCEPT !.role = r].told = s.told
         /\ \A v \in 0..1 :
              /\ [s EXCEPT !.scl = v] \in SlaveStates /\ [s EXCEPT !.scl = v].role = s.role
              /\ [s EXCEPT !.scl = v].bits = s.bits /\ [s EXCEPT !.scl = v].sda = s.sda
              /\ [s EXCEPT !.scl = v].scl = v /\ [s EXCEPT !.scl = v].next = s.next
              /\ [s EXCEPT !.scl = v].heard = s.heard /\ [s EXCEPT !.scl = v].told = s.told
BY DEF SlaveStates

LEMMA EmptyBits == <<>> \in Seq(0..1) /\ 0 \in 0..1 /\ 1 \in 0..1
OBVIOUS

LEMMA FallsFacts == ASSUME NEW s \in SlaveStates, NEW t \in Falls(s)
  PROVE  /\ t \in SlaveStates /\ t.scl = s.scl
         /\ s.role = "listen" /\ Len(s.bits) = Bits =>
              \/ /\ t.role = "ack" /\ t.sda = 0 /\ t.heard = Append(s.heard, s.bits)
                 /\ t.bits = s.bits /\ t.next = s.next /\ t.told = s.told
              \/ t.role = "off" /\ t.sda = s.sda /\ t.heard = s.heard /\ t.told = s.told
         /\ s.role = "listen" /\ Len(s.bits) # Bits => t = s
         /\ s.role = "ack" /\ s.next = "address" /\ s.bits[Bits] = 1 =>
              \E d \in BitString : /\ t.role = "tell" /\ t.bits = d /\ t.told = Append(s.told, d)
                                   /\ t.sda = d[1] /\ t.heard = s.heard
         /\ s.role = "ack" /\ ~(s.next = "address" /\ s.bits[Bits] = 1) =>
              /\ t.role = "listen" /\ t.next = "data" /\ t.sda = 1 /\ t.bits = <<>> /\ t.heard = s.heard /\ t.told = s.told
         /\ s.role = "tell" /\ Len(s.bits) > 1 =>
              /\ t.role = "tell" /\ t.bits = Tail(s.bits) /\ t.sda = s.bits[2] /\ t.heard = s.heard /\ t.told = s.told
         /\ s.role = "tell" /\ Len(s.bits) = 1 =>
              t.role = "told" /\ t.bits = <<>> /\ t.sda = 1 /\ t.heard = s.heard /\ t.told = s.told
         /\ s.role = "told" /\ s.bits = <<0>> =>
              \E d \in BitString : /\ t.role = "tell" /\ t.bits = d /\ t.told = Append(s.told, d)
                                   /\ t.sda = d[1] /\ t.heard = s.heard
         /\ s.role = "told" /\ s.bits # <<0>> =>
              t.role = "off" /\ t.sda = s.sda /\ t.heard = s.heard /\ t.told = s.told
<1>0. /\ s.role \in {"off", "listen", "ack", "tell", "told"} /\ s.sda \in 0..1 /\ s.bits \in Seq(0..1)
      /\ s.heard \in Seq(BitString) /\ s.told \in Seq(BitString) /\ s.next \in {"address", "data"}
  BY SlaveFields
<1>1. CASE s.role = "listen" /\ Len(s.bits) = Bits
  <2> DEFINE more == Append(s.heard, s.bits)
  <2>1. more \in Seq(BitString)
    <3>1. s.bits \in BitString
      BY <1>0, <1>1 DEF BitString
    <3> HIDE DEF BitString
    <3> QED
      BY <1>0, <3>1
  <2>2. Falls(s) = {[s EXCEPT !.role = "ack", !.sda = 0, !.heard = more], [s EXCEPT !.role = "off"]}
    BY <1>1 DEF Falls
  <2> HIDE DEF more
  <2>3. CASE t = [s EXCEPT !.role = "ack", !.sda = 0, !.heard = more]
    <3>1. /\ t \in SlaveStates /\ t.scl = s.scl /\ t.role = "ack" /\ t.sda = 0 /\ t.heard = more
          /\ t.bits = s.bits /\ t.next = s.next /\ t.told = s.told
      <4> DEFINE zero == 0
      <4>1. zero \in 0..1 /\ t = [s EXCEPT !.role = "ack", !.sda = zero, !.heard = more]
        BY <2>3
      <4> HIDE DEF zero
      <4>2. /\ t \in SlaveStates /\ t.scl = s.scl /\ t.role = "ack" /\ t.sda = zero /\ t.heard = more
            /\ t.bits = s.bits /\ t.next = s.next /\ t.told = s.told
        BY <2>1, <4>1 DEF SlaveStates
      <4> QED
        BY <4>2 DEF zero
    <3> QED
      BY <1>1, <3>1 DEF more
  <2>4. CASE t = [s EXCEPT !.role = "off"]
    <3>1. t \in SlaveStates /\ t.scl = s.scl /\ t.role = "off" /\ t.sda = s.sda /\ t.heard = s.heard /\ t.told = s.told
      BY <2>4, SlaveTurns
    <3> QED
      BY <1>1, <3>1
  <2> QED
    BY <2>2, <2>3, <2>4
<1>2. CASE s.role = "ack" /\ s.next = "address" /\ s.bits[Bits] = 1
  <2> DEFINE f == [s EXCEPT !.next = "data"]
  <2>1. f \in SlaveStates /\ f.scl = s.scl /\ f.heard = s.heard /\ f.told = s.told
    BY DEF SlaveStates
  <2>2. Falls(s) = {Tells(f, d) : d \in BitString}
    BY <1>2 DEF Falls, BitString
  <2> HIDE DEF f, BitString
  <2>3. PICK d \in BitString : t = Tells(f, d)
    BY <2>2
  <2>4. /\ t \in SlaveStates /\ t.scl = s.scl /\ t.role = "tell" /\ t.bits = d /\ t.told = Append(s.told, d)
        /\ t.sda = d[1] /\ t.heard = s.heard
    BY <2>1, <2>3, TellsFacts
  <2> QED
    BY <1>2, <2>3, <2>4
<1>3. CASE s.role = "ack" /\ ~(s.next = "address" /\ s.bits[Bits] = 1)
  <2>1. t = [s EXCEPT !.role = "listen", !.next = "data", !.sda = 1, !.bits = <<>>]
    BY <1>3 DEF Falls
  <2>2. /\ t \in SlaveStates /\ t.scl = s.scl /\ t.role = "listen" /\ t.next = "data" /\ t.sda = 1 /\ t.bits = <<>>
        /\ t.heard = s.heard /\ t.told = s.told
    <3> DEFINE one == 1 none == <<>>
    <3>1. one \in 0..1 /\ none \in Seq(0..1)
      BY EmptyBits
    <3>2. t = [s EXCEPT !.role = "listen", !.next = "data", !.sda = one, !.bits = none]
      BY <2>1
    <3> HIDE DEF one, none
    <3>3. /\ t \in SlaveStates /\ t.scl = s.scl /\ t.role = "listen" /\ t.next = "data" /\ t.sda = one
          /\ t.bits = none /\ t.heard = s.heard /\ t.told = s.told
      BY <3>1, <3>2 DEF SlaveStates
    <3> QED
      BY <3>3 DEF one, none
  <2> QED
    BY <1>3, <2>2
<1>4. CASE s.role = "tell" /\ Len(s.bits) > 1
  <2> DEFINE fewer == Tail(s.bits) b == s.bits[2]
  <2>1. fewer \in Seq(0..1) /\ b \in 0..1
    <3>1. s.bits # <<>> /\ 2 \in 1..Len(s.bits)
      BY <1>0, <1>4
    <3> QED
      BY <1>0, <3>1, HeadTailProperties, ElementOfSeq
  <2>2. t = [s EXCEPT !.bits = fewer, !.sda = b]
    <3>1. Len(s.bits) > 1 /\ ~(Len(s.bits) = 1)
      <4> DEFINE k == Len(s.bits)
      <4>1. k \in Nat /\ k > 1
        BY <1>0, <1>4
      <4> HIDE DEF k
      <4>2. k > 1 /\ ~(k = 1)
        BY <4>1
      <4> QED
        BY <4>2 DEF k
    <3>2. /\ s.role = "tell" /\ ~(s.role = "listen") /\ ~(s.role = "ack") /\ ~(s.role = "told")
      BY <1>4
    <3>3. Falls(s) = {[s EXCEPT !.bits = Tail(@), !.sda = s.bits[2]]}
      BY <3>1, <3>2, ZenonT(60) DEF Falls
    <3> QED
      BY <3>3, Zenon
  <2> HIDE DEF fewer, b
  <2>3. /\ t \in SlaveStates /\ t.scl = s.scl /\ t.role = s.role /\ t.bits = fewer /\ t.sda = b /\ t.heard = s.heard
        /\ t.told = s.told
    BY <2>1, <2>2 DEF SlaveStates
  <2> QED
    BY <1>4, <2>3 DEF fewer, b
<1>5. CASE s.role = "tell" /\ Len(s.bits) = 1
  <2>1. t = [s EXCEPT !.role = "told", !.bits = <<>>, !.sda = 1]
    BY <1>5 DEF Falls
  <2>2. /\ t \in SlaveStates /\ t.scl = s.scl /\ t.role = "told" /\ t.bits = <<>> /\ t.sda = 1 /\ t.heard = s.heard
        /\ t.told = s.told
    <3> DEFINE one == 1 none == <<>>
    <3>1. one \in 0..1 /\ none \in Seq(0..1)
      BY EmptyBits
    <3>2. t = [s EXCEPT !.role = "told", !.bits = none, !.sda = one]
      BY <2>1
    <3> HIDE DEF one, none
    <3>3. /\ t \in SlaveStates /\ t.scl = s.scl /\ t.role = "told" /\ t.sda = one
          /\ t.bits = none /\ t.heard = s.heard /\ t.told = s.told
      BY <3>1, <3>2 DEF SlaveStates
    <3> QED
      BY <3>3 DEF one, none
  <2> QED
    BY <1>5, <2>2
<1>6. CASE s.role = "told" /\ s.bits = <<0>>
  <2>1. Falls(s) = {Tells(s, d) : d \in BitString}
    BY <1>6 DEF Falls, BitString
  <2> HIDE DEF BitString
  <2>2. PICK d \in BitString : t = Tells(s, d)
    BY <2>1
  <2>3. /\ t \in SlaveStates /\ t.scl = s.scl /\ t.role = "tell" /\ t.bits = d /\ t.told = Append(s.told, d)
        /\ t.sda = d[1] /\ t.heard = s.heard
    BY <2>2, TellsFacts
  <2> QED
    BY <1>6, <2>2, <2>3
<1>7. CASE s.role = "told" /\ s.bits # <<0>>
  <2>1. t = [s EXCEPT !.role = "off"]
    BY <1>7 DEF Falls
  <2>2. t \in SlaveStates /\ t.scl = s.scl /\ t.role = "off" /\ t.sda = s.sda /\ t.heard = s.heard /\ t.told = s.told
    BY <2>1, SlaveTurns
  <2> QED
    BY <1>7, <2>2
<1>8. CASE \/ s.role = "listen" /\ Len(s.bits) # Bits
           \/ s.role = "tell" /\ ~(Len(s.bits) > 1) /\ Len(s.bits) # 1
           \/ s.role = "off"
  <2>1. t = s
    BY <1>8 DEF Falls
  <2> QED
    BY <1>8, <2>1
<1> QED
  BY <1>0, <1>1, <1>2, <1>3, <1>4, <1>5, <1>6, <1>7, <1>8

--------
(* What a step does to the lines and to the slave. *)

\* Nothing of the slave but its hold on the clock, and the bits that it has sampled.
Alike(t, s) ==
  t.role = s.role /\ t.sda = s.sda /\ t.next = s.next /\ t.heard = s.heard /\ t.told = s.told
MasterRests == UNCHANGED <<ops, lines, byte, outcome, sent, read>>
Passes(rest) == ops' = rest /\ byte' = byte /\ sent' = sent /\ read' = read
Drives(rest) == Passes(rest) /\ outcome' = (IF rest = <<>> /\ outcome = "running" THEN "done" ELSE outcome)
Sampled == Low(lines.sda, slave.sda)

Stretched == lines.scl = 0 /\ slave.scl = 1 /\ slave.role # "off" /\ slave'.scl = 0 /\ slave'.bits = slave.bits /\ Alike(slave', slave)
Freed ==
  /\ slave.scl = 0 /\ slave'.scl = 1 /\ Alike(slave', slave)
  /\ lines.scl = 1 /\ slave.role \in {"listen", "told"} => slave'.bits = Append(slave.bits, Sampled)
  /\ ~(lines.scl = 1 /\ slave.role \in {"listen", "told"}) => slave'.bits = slave.bits
SlaveFrees == BusTypes' /\ MasterRests /\ Freed
SlaveMoves == BusTypes' /\ MasterRests /\ (Stretched \/ Freed)

LEMMA LowFacts == ASSUME NEW a \in 0..1, NEW b \in 0..1
  PROVE Low(a, b) \in 0..1 /\ Low(a, 1) = a /\ Low(1, b) = b /\ Low(a, 0) = 0 /\ Low(0, b) = 0
BY DEF Low

LEMMA ClockTurns == ASSUME NEW s \in SlaveStates, NEW v \in 0..1, NEW t, t = [s EXCEPT !.scl = v]
  PROVE t \in SlaveStates /\ t.scl = v /\ t.bits = s.bits /\ Alike(t, s)
BY DEF SlaveStates, Alike

LEMMA LevelFacts == ASSUME NEW l, NEW s
  PROVE Level(l, s).sda = Low(l.sda, s.sda) /\ Level(l, s).scl = Low(l.scl, s.scl)
BY DEF Level

LEMMA LinesFacts == ASSUME NEW l \in [sda : 0..1, scl : 0..1], NEW v \in 0..1
  PROVE  /\ l.sda \in 0..1 /\ l.scl \in 0..1
         /\ [l EXCEPT !["sda"] = v] \in [sda : 0..1, scl : 0..1]
         /\ [l EXCEPT !["sda"] = v].sda = v /\ [l EXCEPT !["sda"] = v].scl = l.scl
         /\ [l EXCEPT !["scl"] = v] \in [sda : 0..1, scl : 0..1]
         /\ [l EXCEPT !["scl"] = v].scl = v /\ [l EXCEPT !["scl"] = v].sda = l.sda
OBVIOUS

LEMMA StretchMoves == ASSUME BusTypes, Stretch PROVE BusTypes' /\ MasterRests /\ Stretched
<1>1. slave \in SlaveStates /\ slave' = [slave EXCEPT !.scl = 0] /\ lines.scl = 0 /\ slave.scl = 1 /\ slave.role # "off"
  BY DEF BusTypes, Stretch
<1>2. MasterRests
  BY DEF Stretch, MasterRests
<1>3. /\ slave' \in SlaveStates /\ slave'.scl = 0 /\ slave'.bits = slave.bits /\ Alike(slave', slave)
  <2> DEFINE zero == 0
  <2>1. zero \in 0..1 /\ slave' = [slave EXCEPT !.scl = zero]
    BY <1>1
  <2> HIDE DEF zero
  <2>2. slave' \in SlaveStates /\ slave'.scl = zero /\ slave'.bits = slave.bits /\ Alike(slave', slave)
    BY <1>1, <2>1, ClockTurns
  <2> QED
    BY <2>2 DEF zero
<1> QED
  BY <1>1, <1>2, <1>3 DEF BusTypes, MasterRests, Stretched

LEMMA LetGoMoves == ASSUME BusTypes, LetGo PROVE BusTypes' /\ MasterRests /\ Freed
<1> DEFINE free == [slave EXCEPT !.scl = 1]
<1>1. /\ slave \in SlaveStates /\ lines \in [sda : 0..1, scl : 0..1] /\ slave.scl = 0
      /\ slave' \in Sees(free, Level(lines, slave), Level(lines, free))
  BY DEF BusTypes, LetGo
<1>2. MasterRests
  BY DEF LetGo, MasterRests
<1>3. free \in SlaveStates /\ free.scl = 1 /\ free.bits = slave.bits /\ Alike(free, slave)
  <2> DEFINE one == 1
  <2>1. one \in 0..1 /\ free = [slave EXCEPT !.scl = one]
    OBVIOUS
  <2> HIDE DEF one, free
  <2>2. free \in SlaveStates /\ free.scl = one /\ free.bits = slave.bits /\ Alike(free, slave)
    BY <1>1, <2>1, ClockTurns
  <2> QED
    BY <2>2 DEF one
<1> HIDE DEF free
<1>4. /\ lines.sda \in 0..1 /\ lines.scl \in 0..1 /\ slave.sda \in 0..1 /\ free.sda = slave.sda
      /\ free.role = slave.role
  BY <1>1, <1>3, SlaveFields DEF Alike
<1>5. /\ Level(lines, slave).scl = 0 /\ Level(lines, free).scl = lines.scl
      /\ Level(lines, free).sda = Sampled
  BY <1>1, <1>3, <1>4, LevelFacts, LowFacts DEF Sampled
<1>6. CASE lines.scl = 0
  <2>1. slave' = free
    <3> DEFINE l == Level(lines, slave) m == Level(lines, free)
    <3>1. l.scl = 0 /\ m.scl = 0 /\ slave' \in Sees(free, l, m)
      BY <1>1, <1>5, <1>6
    <3> HIDE DEF l, m
    <3> QED
      BY <3>1, SeesNothing
  <2> QED
    BY <1>1, <1>2, <1>3, <1>6, <2>1 DEF BusTypes, MasterRests, Freed, Alike
<1>7. CASE lines.scl = 1
  <2>1. slave' = Rises(free, Sampled) /\ Sampled \in 0..1
    <3> DEFINE l == Level(lines, slave) m == Level(lines, free)
    <3>1. l.scl = 0 /\ m.scl = 1 /\ m.sda = Sampled /\ slave' \in Sees(free, l, m)
      BY <1>1, <1>5, <1>7
    <3> HIDE DEF l, m
    <3>2. slave' = Rises(free, m.sda)
      BY <3>1, SeesRise
    <3>3. Sampled \in 0..1
      BY <1>4, LowFacts DEF Sampled
    <3> QED
      BY <3>1, <3>2, <3>3
  <2>2. /\ slave' \in SlaveStates /\ slave'.scl = 1 /\ Alike(slave', free)
        /\ free.role \in {"listen", "told"} => slave'.bits = Append(free.bits, Sampled)
        /\ free.role \notin {"listen", "told"} => slave' = free
    BY <1>3, <2>1, RisesFacts DEF Alike
  <2>3. Freed
    BY <1>1, <1>3, <1>7, <2>2 DEF Freed, Alike
  <2> QED
    BY <1>2, <2>2, <2>3 DEF BusTypes, MasterRests
<1> QED
  BY <1>4, <1>6, <1>7

LEMMA StepOn == ASSUME BusTypes, BitbangNext, NEW o \in Op, NEW rest \in Seq(Op), ops = Then(o, rest)
  PROVE  \/ Stretch
         \/ SlaveFrees
         \/ /\ o.do \in {"sda", "scl"} /\ Drives(rest) /\ lines' = [lines EXCEPT ![o.do] = o.to]
            /\ slave' \in Sees(slave, Level(lines, slave), Level(lines', slave))
         \/ /\ o.do = "wait" /\ Wait /\ Tail(ops) = rest
         \/ /\ o.do = "ack" /\ Acknowledge /\ Tail(ops) = rest
         \/ /\ o.do = "bit" /\ ReadBit /\ Tail(ops) = rest
<1>1. ops # <<>> /\ Head(ops) = o /\ Tail(ops) = rest
  BY ThenFacts
<1>2. CASE Transact
  BY <1>1, <1>2 DEF Transact
<1>3. CASE Drive
  BY <1>1, <1>3 DEF Drive, Drives, Passes
<1>4. CASE Wait
  BY <1>1, <1>4 DEF Wait
<1>5. CASE Acknowledge
  BY <1>1, <1>5 DEF Acknowledge
<1>6. CASE ReadBit
  BY <1>1, <1>6 DEF ReadBit
<1>7. CASE LetGo
  BY <1>7, LetGoMoves DEF SlaveFrees
<1> QED
  BY <1>2, <1>3, <1>4, <1>5, <1>6, <1>7 DEF BitbangNext

\* What each operation of the master does, when it is the next.
Sampling == slave.role \in {"listen", "told"}
Started == slave'.role = "listen" /\ slave'.next = "address" /\ slave'.bits = <<>>
GaveUp == ops' = stop /\ outcome' = "failed" /\ byte' = byte /\ read' = read /\ sent' = sent

LEMMA SdaStep == ASSUME BusTypes, BitbangNext, NEW v \in 0..1, NEW rest \in Seq(Op), ops = Then(Sda(v), rest)
  PROVE  \/ Stretch
         \/ SlaveFrees
         \/ /\ BusTypes' /\ Drives(rest) /\ lines'.sda = v /\ lines'.scl = lines.scl
            /\ slave'.scl = slave.scl /\ slave'.sda = slave.sda /\ slave'.heard = slave.heard /\ slave'.told = slave.told
            /\ lines.scl = 0 \/ slave.scl = 0 \/ lines.sda = v => slave' = slave
            /\ lines.scl = 1 /\ slave.scl = 1 /\ lines.sda = 1 /\ v = 0 /\ slave.sda = 1 => Started
<1>1. /\ ops \in Seq(Op) /\ slave \in SlaveStates /\ lines \in [sda : 0..1, scl : 0..1]
      /\ lines.sda \in 0..1 /\ lines.scl \in 0..1 /\ slave.sda \in 0..1 /\ slave.scl \in 0..1
  BY SlaveFields, LinesFacts DEF BusTypes
<1>2. Sda(v) \in Op /\ Sda(v).do = "sda" /\ Sda(v).to = v
  BY OpsTyped DEF Sda
<1>3. SUFFICES ASSUME Drives(rest), lines' = [lines EXCEPT !["sda"] = v],
                      slave' \in Sees(slave, Level(lines, slave), Level(lines', slave))
               PROVE  /\ BusTypes' /\ lines'.sda = v /\ lines'.scl = lines.scl
                      /\ slave'.scl = slave.scl /\ slave'.sda = slave.sda /\ slave'.heard = slave.heard /\ slave'.told = slave.told
                      /\ lines.scl = 0 \/ slave.scl = 0 \/ lines.sda = v => slave' = slave
                      /\ lines.scl = 1 /\ slave.scl = 1 /\ lines.sda = 1 /\ v = 0 /\ slave.sda = 1 => Started
  BY <1>2, StepOn
<1>4. lines' \in [sda : 0..1, scl : 0..1] /\ lines'.sda = v /\ lines'.scl = lines.scl
  BY <1>1, <1>3, LinesFacts
<1> DEFINE l == Level(lines, slave) m == Level(lines', slave) up == Low(lines.scl, slave.scl)
<1>5. /\ l.scl = up /\ m.scl = up /\ up \in 0..1 /\ l.sda = Low(lines.sda, slave.sda) /\ m.sda = Low(v, slave.sda)
      /\ l.sda \in 0..1 /\ m.sda \in 0..1 /\ slave' \in Sees(slave, l, m)
      /\ slave.sda = 1 => l.sda = lines.sda /\ m.sda = v
      /\ slave.sda = 0 \/ lines.sda = v => l.sda = m.sda
      /\ lines.scl = 0 \/ slave.scl = 0 => up = 0
      /\ lines.scl = 1 /\ slave.scl = 1 => up = 1
  <2>1. l.scl = up /\ m.scl = Low(lines'.scl, slave.scl) /\ l.sda = Low(lines.sda, slave.sda) /\ m.sda = Low(lines'.sda, slave.sda)
    BY LevelFacts
  <2>2. slave' \in Sees(slave, l, m)
    BY <1>3
  <2> HIDE DEF l, m
  <2> QED
    BY <1>1, <1>4, <2>1, <2>2 DEF Low
<1> HIDE DEF l, m, up
<1>6. CASE up = 0 \/ l.sda = m.sda
  <2>1. slave' = slave
    BY <1>5, <1>6, SeesNothing
  <2>2. ~(lines.scl = 1 /\ slave.scl = 1 /\ lines.sda = 1 /\ v = 0 /\ slave.sda = 1)
    BY <1>1, <1>5, <1>6
  <2> QED
    BY <1>3, <1>4, <2>1, <2>2 DEF BusTypes, Drives, Passes
<1>7. CASE up = 1 /\ l.sda = 1 /\ m.sda = 0
  <2> DEFINE none == <<>>
  <2>1. none \in Seq(0..1) /\ slave' = [slave EXCEPT !.role = "listen", !.next = "address", !.bits = none]
    <3>1. slave' \in Sees(slave, l, m) /\ l.scl = 1 /\ m.scl = 1 /\ l.sda = 1 /\ m.sda = 0
      BY <1>5, <1>7
    <3> QED
      BY <3>1, SeesStart, EmptyBits
  <2> HIDE DEF none
  <2>2. /\ slave' \in SlaveStates /\ slave'.role = "listen" /\ slave'.next = "address" /\ slave'.bits = none
        /\ slave'.scl = slave.scl /\ slave'.sda = slave.sda /\ slave'.heard = slave.heard /\ slave'.told = slave.told
    BY <1>1, <2>1 DEF SlaveStates
  <2>3. lines.scl = 1 /\ slave.scl = 1 /\ lines.sda # v
    BY <1>1, <1>5, <1>7
  <2> QED
    BY <1>3, <1>4, <2>2, <2>3 DEF BusTypes, Drives, Passes, Started, none
<1>8. CASE up = 1 /\ l.sda = 0 /\ m.sda = 1
  <2> DEFINE none == <<>>
  <2>1. none \in Seq(0..1) /\ slave' = [slave EXCEPT !.role = "off", !.bits = none]
    <3>1. slave' \in Sees(slave, l, m) /\ l.scl = 1 /\ m.scl = 1 /\ l.sda = 0 /\ m.sda = 1
      BY <1>5, <1>8
    <3> QED
      BY <3>1, SeesStop, EmptyBits
  <2> HIDE DEF none
  <2>2. /\ slave' \in SlaveStates /\ slave'.scl = slave.scl /\ slave'.sda = slave.sda
        /\ slave'.heard = slave.heard /\ slave'.told = slave.told
    BY <1>1, <2>1 DEF SlaveStates
  <2>3. lines.scl = 1 /\ slave.scl = 1 /\ lines.sda # v /\ ~(lines.sda = 1 /\ v = 0 /\ slave.sda = 1)
    BY <1>1, <1>5, <1>8
  <2> QED
    BY <1>3, <1>4, <2>2, <2>3 DEF BusTypes, Drives, Passes
<1> QED
  BY <1>5, <1>6, <1>7, <1>8

LEMMA SclUpStep == ASSUME BusTypes, BitbangNext, NEW rest \in Seq(Op), ops = Then(Scl(1), rest)
  PROVE  \/ Stretch
         \/ SlaveFrees
         \/ /\ BusTypes' /\ Drives(rest) /\ lines'.scl = 1 /\ lines'.sda = lines.sda
            /\ slave'.scl = slave.scl /\ Alike(slave', slave)
            /\ lines.scl = 0 /\ slave.scl = 1 /\ Sampling => slave'.bits = Append(slave.bits, Sampled)
            /\ ~(lines.scl = 0 /\ slave.scl = 1 /\ Sampling) => slave' = slave
<1>1. /\ ops \in Seq(Op) /\ slave \in SlaveStates /\ lines \in [sda : 0..1, scl : 0..1]
      /\ lines.sda \in 0..1 /\ lines.scl \in 0..1 /\ slave.sda \in 0..1 /\ slave.scl \in 0..1
  BY SlaveFields, LinesFacts DEF BusTypes
<1>2. Scl(1) \in Op /\ Scl(1).do = "scl" /\ Scl(1).to = 1 /\ 1 \in 0..1
  BY OpsTyped DEF Scl
<1>3. SUFFICES ASSUME Drives(rest), lines' = [lines EXCEPT !["scl"] = 1],
                      slave' \in Sees(slave, Level(lines, slave), Level(lines', slave))
               PROVE  /\ BusTypes' /\ lines'.scl = 1 /\ lines'.sda = lines.sda
                      /\ slave'.scl = slave.scl /\ Alike(slave', slave)
                      /\ lines.scl = 0 /\ slave.scl = 1 /\ Sampling => slave'.bits = Append(slave.bits, Sampled)
                      /\ ~(lines.scl = 0 /\ slave.scl = 1 /\ Sampling) => slave' = slave
  BY <1>2, StepOn
<1>4. lines' \in [sda : 0..1, scl : 0..1] /\ lines'.scl = 1 /\ lines'.sda = lines.sda
  BY <1>1, <1>2, <1>3, LinesFacts
<1> DEFINE l == Level(lines, slave) m == Level(lines', slave)
<1>5. /\ l.scl = Low(lines.scl, slave.scl) /\ m.scl = slave.scl /\ l.sda = Sampled /\ m.sda = Sampled /\ Sampled \in 0..1
      /\ slave' \in Sees(slave, l, m)
      /\ lines.scl = 0 \/ slave.scl = 0 => l.scl = 0
      /\ lines.scl = 1 /\ slave.scl = 1 => l.scl = 1
  <2>1. /\ l.scl = Low(lines.scl, slave.scl) /\ m.scl = Low(lines'.scl, slave.scl)
        /\ l.sda = Sampled /\ m.sda = Low(lines'.sda, slave.sda)
    BY LevelFacts DEF Sampled
  <2>2. slave' \in Sees(slave, l, m)
    BY <1>3
  <2> HIDE DEF l, m
  <2> QED
    BY <1>1, <1>4, <2>1, <2>2 DEF Low, Sampled
<1> HIDE DEF l, m
<1>6. CASE lines.scl = 1 \/ slave.scl = 0
  <2>1. slave' = slave
    BY <1>1, <1>5, <1>6, SeesNothing
  <2> QED
    BY <1>3, <1>4, <1>6, <2>1 DEF BusTypes, Drives, Passes, Alike
<1>7. CASE lines.scl = 0 /\ slave.scl = 1
  <2>1. slave' = Rises(slave, Sampled)
    BY <1>5, <1>7, SeesRise
  <2>2. /\ slave' \in SlaveStates /\ slave'.scl = slave.scl /\ Alike(slave', slave)
        /\ Sampling => slave'.bits = Append(slave.bits, Sampled)
        /\ ~Sampling => slave' = slave
    BY <1>1, <1>5, <2>1, RisesFacts DEF Alike, Sampling
  <2> QED
    BY <1>3, <1>4, <1>7, <2>2 DEF BusTypes, Drives, Passes
<1> QED
  BY <1>1, <1>6, <1>7

LEMMA SclDownStep == ASSUME BusTypes, BitbangNext, NEW rest \in Seq(Op), ops = Then(Scl(0), rest)
  PROVE  \/ Stretch
         \/ SlaveFrees
         \/ /\ BusTypes' /\ Drives(rest) /\ lines'.scl = 0 /\ lines'.sda = lines.sda /\ slave'.scl = slave.scl
            /\ lines.scl = 1 /\ slave.scl = 1 => slave' \in Falls(slave)
            /\ ~(lines.scl = 1 /\ slave.scl = 1) => slave' = slave
<1>1. /\ ops \in Seq(Op) /\ slave \in SlaveStates /\ lines \in [sda : 0..1, scl : 0..1]
      /\ lines.sda \in 0..1 /\ lines.scl \in 0..1 /\ slave.sda \in 0..1 /\ slave.scl \in 0..1
  BY SlaveFields, LinesFacts DEF BusTypes
<1>2. Scl(0) \in Op /\ Scl(0).do = "scl" /\ Scl(0).to = 0 /\ 0 \in 0..1
  BY OpsTyped DEF Scl
<1>3. SUFFICES ASSUME Drives(rest), lines' = [lines EXCEPT !["scl"] = 0],
                      slave' \in Sees(slave, Level(lines, slave), Level(lines', slave))
               PROVE  /\ BusTypes' /\ lines'.scl = 0 /\ lines'.sda = lines.sda /\ slave'.scl = slave.scl
                      /\ lines.scl = 1 /\ slave.scl = 1 => slave' \in Falls(slave)
                      /\ ~(lines.scl = 1 /\ slave.scl = 1) => slave' = slave
  BY <1>2, StepOn
<1>4. lines' \in [sda : 0..1, scl : 0..1] /\ lines'.scl = 0 /\ lines'.sda = lines.sda
  BY <1>1, <1>2, <1>3, LinesFacts
<1> DEFINE l == Level(lines, slave) m == Level(lines', slave)
<1>5. /\ m.scl = 0 /\ slave' \in Sees(slave, l, m)
      /\ lines.scl = 0 \/ slave.scl = 0 => l.scl = 0
      /\ lines.scl = 1 /\ slave.scl = 1 => l.scl = 1
  <2>1. l.scl = Low(lines.scl, slave.scl) /\ m.scl = Low(lines'.scl, slave.scl)
    BY LevelFacts
  <2>2. slave' \in Sees(slave, l, m)
    BY <1>3
  <2> HIDE DEF l, m
  <2> QED
    BY <1>1, <1>4, <2>1, <2>2 DEF Low
<1> HIDE DEF l, m
<1>6. CASE lines.scl = 0 \/ slave.scl = 0
  <2>1. slave' = slave
    BY <1>5, <1>6, SeesNothing
  <2> QED
    BY <1>3, <1>4, <1>6, <2>1 DEF BusTypes, Drives, Passes
<1>7. CASE lines.scl = 1 /\ slave.scl = 1
  <2>1. slave' \in Falls(slave)
    BY <1>5, <1>7, SeesFall
  <2>2. slave' \in SlaveStates /\ slave'.scl = slave.scl
    BY <1>1, <2>1, FallsFacts
  <2> QED
    BY <1>3, <1>4, <1>7, <2>1, <2>2 DEF BusTypes, Drives, Passes
<1> QED
  BY <1>1, <1>6, <1>7

LEMMA WaitStep == ASSUME BusTypes, BitbangNext, NEW rest \in Seq(Op), ops = Then(Do("wait"), rest)
  PROVE  \/ Stretch
         \/ SlaveFrees
         \/ /\ BusTypes' /\ slave' = slave /\ lines' = lines
            /\ GaveUp \/ (lines.scl = 1 /\ slave.scl = 1 /\ Passes(rest) /\ outcome' = outcome)
<1>1. /\ slave \in SlaveStates /\ lines \in [sda : 0..1, scl : 0..1] /\ lines.scl \in 0..1 /\ slave.scl \in 0..1
  BY SlaveFields, LinesFacts DEF BusTypes
<1>2. Do("wait") \in Op /\ Do("wait").do = "wait"
  BY OpsTyped DEF Do
<1>3. SUFFICES ASSUME Wait, Tail(ops) = rest
               PROVE  /\ BusTypes' /\ slave' = slave /\ lines' = lines
                      /\ GaveUp \/ (lines.scl = 1 /\ slave.scl = 1 /\ Passes(rest) /\ outcome' = outcome)
  BY <1>2, StepOn
<1>4. Level(lines, slave).scl = 1 => lines.scl = 1 /\ slave.scl = 1
  BY <1>1, LevelFacts, LowFacts
<1>5. /\ slave' = slave /\ lines' = lines
      /\ GaveUp \/ (lines.scl = 1 /\ slave.scl = 1 /\ Passes(rest) /\ outcome' = outcome)
  BY <1>3, <1>4 DEF Wait, GivesUp, GaveUp, Passes
<1> QED
  BY <1>5, StopIs DEF BusTypes, GaveUp, Passes

LEMMA AckStep == ASSUME BusTypes, BitbangNext, NEW rest \in Seq(Op), ops = Then(Do("ack"), rest)
  PROVE  \/ Stretch
         \/ SlaveFrees
         \/ /\ BusTypes' /\ slave' = slave /\ lines' = lines
            /\ Sampled = 0 => Passes(rest) /\ outcome' = outcome
            /\ Sampled # 0 => Passes(Then(Scl(0), stop)) /\ outcome' = "failed"
<1>1. Do("ack") \in Op /\ Do("ack").do = "ack"
  BY OpsTyped DEF Do
<1>2. SUFFICES ASSUME Acknowledge, Tail(ops) = rest
               PROVE  /\ BusTypes' /\ slave' = slave /\ lines' = lines
                      /\ Sampled = 0 => Passes(rest) /\ outcome' = outcome
                      /\ Sampled # 0 => Passes(Then(Scl(0), stop)) /\ outcome' = "failed"
  BY <1>1, StepOn
<1>3. Level(lines, slave).sda = Sampled
  BY LevelFacts DEF Sampled
<1>4. /\ slave' = slave /\ lines' = lines
      /\ Sampled = 0 => Passes(rest) /\ outcome' = outcome
      /\ Sampled # 0 => Passes(Then(Scl(0), stop)) /\ outcome' = "failed"
  BY <1>2, <1>3 DEF Acknowledge, Passes, Then
<1>5. Then(Scl(0), stop) \in Seq(Op)
  BY StopIs, OpsTyped, ThenFacts
<1> QED
  BY <1>4, <1>5 DEF BusTypes, Passes

LEMMA BitStep == ASSUME BusTypes, BitbangNext, NEW rest \in Seq(Op), ops = Then(Do("bit"), rest)
  PROVE  \/ Stretch
         \/ SlaveFrees
         \/ /\ BusTypes' /\ slave' = slave /\ lines' = lines /\ ops' = rest /\ sent' = sent /\ outcome' = outcome
            /\ Len(byte) + 1 = Bits => read' = Append(read, Append(byte, Sampled)) /\ byte' = <<>>
            /\ Len(byte) + 1 # Bits => read' = read /\ byte' = Append(byte, Sampled)
<1>1. Do("bit") \in Op /\ Do("bit").do = "bit"
  BY OpsTyped DEF Do
<1>2. SUFFICES ASSUME ReadBit, Tail(ops) = rest
               PROVE  /\ BusTypes' /\ slave' = slave /\ lines' = lines /\ ops' = rest /\ sent' = sent /\ outcome' = outcome
                      /\ Len(byte) + 1 = Bits => read' = Append(read, Append(byte, Sampled)) /\ byte' = <<>>
                      /\ Len(byte) + 1 # Bits => read' = read /\ byte' = Append(byte, Sampled)
  BY <1>1, StepOn
<1> DEFINE longer == Append(byte, Sampled)
<1>3. Sampled \in 0..1 /\ Level(lines, slave).sda = Sampled
  <2>1. slave.sda \in 0..1 /\ lines.sda \in 0..1
    BY SlaveFields, LinesFacts DEF BusTypes
  <2>2. Low(lines.sda, slave.sda) \in 0..1
    BY <2>1 DEF Low
  <2> QED
    BY <2>2, LevelFacts DEF Sampled
<1>4. longer \in Seq(0..1) /\ Len(longer) = Len(byte) + 1 /\ byte \in Seq(0..1)
  BY <1>3 DEF BusTypes
<1>5. ASSUME Len(longer) = Bits PROVE longer \in BitString
  <2> HIDE DEF longer
  <2> QED
    BY <1>4, <1>5 DEF BitString
<1>6. /\ slave' = slave /\ lines' = lines /\ ops' = rest /\ sent' = sent /\ outcome' = outcome
      /\ Len(longer) = Bits => read' = Append(read, longer) /\ byte' = <<>>
      /\ Len(longer) # Bits => read' = read /\ byte' = longer
  BY <1>2, <1>3 DEF ReadBit
<1>7. read' \in Seq(BitString) /\ byte' \in Seq(0..1)
  <2> HIDE DEF longer, BitString
  <2>1. read \in Seq(BitString)
    BY DEF BusTypes
  <2>2. CASE Len(longer) = Bits
    BY <1>5, <1>6, <2>1, <2>2, EmptyBits
  <2>3. CASE Len(longer) # Bits
    BY <1>4, <1>6, <2>1, <2>3
  <2> QED
    BY <2>2, <2>3
<1> QED
  BY <1>4, <1>6, <1>7 DEF BusTypes

--------
(* The bits that have gone and those to come. *)

LEMMA PrefixGrows ==
  ASSUME NEW S, NEW b \in Seq(S), NEW k \in Nat, k < Len(b)
  PROVE  Append(Prefix(b, k), b[k + 1]) = Prefix(b, k + 1) /\ Prefix(b, k) \in Seq(S) /\ Len(Prefix(b, k)) = k
<1>1. Len(b) \in Nat /\ 1 \in 1..Len(b) /\ k + 1 \in 1..Len(b) /\ (k + 1) - 1 = k /\ \A i \in 1..k : i \in 1..Len(b)
  OBVIOUS
<1>2. SubSeq(b, 1, k + 1) = SubSeq(b, 1, (k + 1) - 1) \o <<b[k + 1]>>
  BY <1>1, SubSeqRecursiveSecond
<1>3. \A i \in 1..k : b[i] \in S
  BY <1>1, ElementOfSeq
<1>4. SubSeq(b, 1, k) \in Seq(S) /\ Len(SubSeq(b, 1, k)) = k
  <2>1. Len(SubSeq(b, 1, k)) = (IF 1 <= k THEN k - 1 + 1 ELSE 0) /\ SubSeq(b, 1, k) \in Seq(S)
    BY <1>3, SubSeqProperties
  <2> QED
    BY <2>1
<1>5. Append(SubSeq(b, 1, k), b[k + 1]) = SubSeq(b, 1, k) \o <<b[k + 1]>>
  BY <1>1, <1>4, ElementOfSeq, AppendIsConcat
<1> QED
  BY <1>1, <1>2, <1>4, <1>5 DEF Prefix

LEMMA BitsSent == ASSUME NEW b \in BitString
  PROVE  /\ Prefix(b, 0) = <<>> /\ Prefix(b, Bits) = b /\ Len(Prefix(b, Bits)) = Bits
         /\ \A k \in 0..(Bits - 1) : Append(Prefix(b, k), b[k + 1]) = Prefix(b, k + 1) /\ Len(Prefix(b, k)) = k
<1>1. b \in Seq(0..1) /\ Len(b) = Bits /\ Bits \in Nat
  BY BitStringFacts, BitbangAssumption
<1>2. Prefix(b, 0) = <<>>
  BY SubSeqEmpty DEF Prefix
<1>3. Prefix(b, Bits) = b
  BY <1>1, SubSeqFull DEF Prefix
<1>4. ASSUME NEW k \in 0..(Bits - 1)
      PROVE Append(Prefix(b, k), b[k + 1]) = Prefix(b, k + 1) /\ Len(Prefix(b, k)) = k
  <2>1. k \in Nat /\ k < Len(b)
    BY <1>1
  <2> QED
    BY <1>1, <2>1, PrefixGrows
<1> QED
  BY <1>1, <1>2, <1>3, <1>4

LEMMA BytesHeard == ASSUME NEW s \in Transmissions
  PROVE  /\ Prefix(s, 0) = <<>> /\ Prefix(s, Len(s)) = s
         /\ \A j \in 1..Len(s) : Append(Prefix(s, j - 1), s[j]) = Prefix(s, j)
<1>1. s \in Seq(BitString) /\ Len(s) \in {2, 3}
  BY SentFacts
<1>2. Prefix(s, 0) = <<>>
  BY SubSeqEmpty DEF Prefix
<1>3. Prefix(s, Len(s)) = s
  BY <1>1, SubSeqFull DEF Prefix
<1>4. ASSUME NEW j \in 1..Len(s) PROVE Append(Prefix(s, j - 1), s[j]) = Prefix(s, j)
  <2> DEFINE k == j - 1
  <2>1. k \in Nat /\ k < Len(s) /\ k + 1 = j
    BY <1>1
  <2> HIDE DEF k
  <2>2. Append(Prefix(s, k), s[k + 1]) = Prefix(s, k + 1)
    BY <1>1, <2>1, PrefixGrows
  <2> QED
    BY <2>1, <2>2 DEF k
<1> QED
  BY <1>2, <1>3, <1>4

LEMMA BitsToCome == ASSUME NEW d \in BitString
  PROVE  /\ Suffix(d, 0) = d
         /\ \A k \in 0..(Bits - 1) : Len(Suffix(d, k)) = Bits - k
         /\ \A k \in 0..(Bits - 2) : Tail(Suffix(d, k)) = Suffix(d, k + 1) /\ Suffix(d, k)[2] = d[k + 2]
<1>1. d \in Seq(0..1) /\ Len(d) = Bits /\ Bits \in Nat /\ Bits >= 2
  BY BitStringFacts, BitbangAssumption
<1>2. Suffix(d, 0) = d
  BY <1>1, SubSeqFull DEF Suffix
<1>3. ASSUME NEW k \in 0..(Bits - 1)
      PROVE /\ Len(Suffix(d, k)) = Bits - k
            /\ \A i \in 1..(Bits - k) : Suffix(d, k)[i] = d[k + i]
  <2> DEFINE m == k + 1
  <2>1. m \in Int /\ Bits \in Int /\ \A i \in m..Bits : d[i] \in 0..1
    BY <1>1, BitStringFacts
  <2>2. /\ Len(SubSeq(d, m, Bits)) = IF m <= Bits THEN Bits - m + 1 ELSE 0
        /\ \A i \in 1..(Bits - m + 1) : SubSeq(d, m, Bits)[i] = d[m + i - 1]
    <3> HIDE DEF m
    <3> QED
      BY <2>1, SubSeqProperties
  <2>3. m <= Bits /\ Bits - m + 1 = Bits - k /\ \A i \in 1..(Bits - k) : m + i - 1 = k + i
    BY <1>1
  <2> QED
    BY <2>2, <2>3 DEF Suffix
<1>4. ASSUME NEW k \in 0..(Bits - 2) PROVE Tail(Suffix(d, k)) = Suffix(d, k + 1) /\ Suffix(d, k)[2] = d[k + 2]
  <2>1. k + 1 \in 1..Len(d) /\ Bits \in (k + 1)..Len(d) /\ k \in 0..(Bits - 1) /\ 2 \in 1..(Bits - k) /\ (k + 1) + 1 = k + 2
    BY <1>1
  <2>2. Tail(SubSeq(d, k + 1, Bits)) = SubSeq(d, (k + 1) + 1, Bits)
    BY <1>1, <2>1, HeadTailOfSubSeq
  <2>3. Suffix(d, k)[2] = d[k + 2]
    BY <1>3, <2>1
  <2> QED
    BY <2>2, <2>3 DEF Suffix
<1> QED
  BY <1>2, <1>3, <1>4

--------
(* Every phase goes on to the next. *)

LEMMA SlaveMovesEither == ASSUME BusTypes, Stretch \/ SlaveFrees PROVE SlaveMoves
BY StretchMoves DEF SlaveMoves, SlaveFrees

LEMMA StopOps ==
  /\ <<>> \in Seq(Op) /\ Then(Sda(1), <<>>) \in Seq(Op) /\ Then(Sda(1), <<>>) # <<>>
  /\ Then(Scl(1), Then(Sda(1), <<>>)) \in Seq(Op) /\ Then(Scl(1), Then(Sda(1), <<>>)) # <<>>
  /\ stop = Then(Sda(0), Then(Scl(1), Then(Sda(1), <<>>))) /\ stop \in Seq(Op) /\ stop # <<>>
<1> DEFINE a == Then(Sda(1), <<>>) b == Then(Scl(1), a)
<1>1. /\ Sda(1) \in Op /\ Scl(1) \in Op /\ Sda(0) \in Op /\ <<>> \in Seq(Op)
  BY OpsTyped
<1>2. a \in Seq(Op) /\ a # <<>>
  BY <1>1, ThenFacts
<1> HIDE DEF a
<1>3. b \in Seq(Op) /\ b # <<>>
  BY <1>1, <1>2, ThenFacts
<1> HIDE DEF b
<1>4. Then(Sda(0), b) \in Seq(Op) /\ Then(Sda(0), b) # <<>>
  BY <1>1, <1>3, ThenFacts
<1> QED
  BY <1>1, <1>2, <1>3, <1>4, StopIs DEF a, b

LEMMA GivingUpStops == ASSUME GaveUp PROVE BusStops'
BY DEF GaveUp, BusStops

LEMMA RestsStep == ASSUME BusTypes, BusRests, BitbangNext
  PROVE BusTypes' /\ (BusRests \/ \E n \in 1..2 : BusStarts(n, 1))'
<1>1. ops = <<>> /\ lines.scl = 1 /\ slave \in SlaveStates
  BY DEF BusRests, BusTypes
<1>2. CASE Transact
  <2>1. PICK cmd \in BitString :
          \/ ops' = writeByte(cmd) /\ sent' = <<Address(0), cmd>>
          \/ \E n \in 1..2 : ops' = readBytes(cmd, n) /\ sent' = <<Address(0), cmd, Address(1)>>
    BY <1>2 DEF Transact, BitString
  <2>2. /\ lines' = lines /\ outcome' = "running" /\ byte' = <<>> /\ read' = <<>> /\ slave.scl = 1 /\ slave.sda = 1
    BY <1>2 DEF Transact
  <2>3. /\ slave' \in SlaveStates /\ slave'.heard = <<>> /\ slave'.told = <<>> /\ slave'.scl = 1 /\ slave'.sda = 1
    <3> DEFINE none == <<>>
    <3>1. none \in Seq(BitString) /\ slave' = [slave EXCEPT !.heard = none, !.told = none]
      BY <1>2 DEF Transact
    <3> HIDE DEF none
    <3>2. slave' \in SlaveStates /\ slave'.heard = none /\ slave'.told = none /\ slave'.scl = slave.scl /\ slave'.sda = slave.sda
      BY <1>1, <3>1 DEF SlaveStates
    <3> QED
      BY <2>2, <3>2 DEF none
  <2>4. PICK n \in 1..2 :
          /\ ops' = Then(Sda(1), Then(Scl(1), Then(Sda(0), Then(Scl(0), ByteSent(sent', n, 1, 0)))))
          /\ sent' \in Transmissions
    <3>1. CASE ops' = writeByte(cmd) /\ sent' = <<Address(0), cmd>>
      <4>1. sent' \in Transmissions
        BY <3>1 DEF Transmissions
      <4>2. 1 \in 1..2
        OBVIOUS
      <4> QED
        BY <3>1, <4>1, <4>2, ProgramIs
    <3>2. CASE \E n \in 1..2 : ops' = readBytes(cmd, n) /\ sent' = <<Address(0), cmd, Address(1)>>
      <4>1. sent' \in Transmissions
        BY <3>2 DEF Transmissions
      <4> QED
        BY <3>2, <4>1, ProgramIs
    <3> QED
      BY <2>1, <3>1, <3>2
  <2>5. ops' \in Seq(Op)
    <3> DEFINE rest == ByteSent(sent', n, 1, 0)
    <3>1. rest \in Seq(Op)
      <4>1. 1 \in 1..Len(sent') /\ 0 \in 0..Bits
        BY <2>4, SentFacts, BitbangAssumption
      <4> QED
        BY <2>4, <4>1, ByteFacts
    <3>2. start \o rest \in Seq(Op) /\ ops' = start \o rest
      <4> HIDE DEF rest
      <4>1. start \o rest \in Seq(Op) /\ start \o rest = Then(Sda(1), Then(Scl(1), Then(Sda(0), Then(Scl(0), rest))))
        BY <3>1, StartIs
      <4> QED
        BY <2>4, <4>1 DEF rest
    <3> QED
      BY <3>2
  <2>6. BusTypes'
    <3>1. <<>> \in Seq(BitString) /\ <<>> \in Seq(0..1)
      OBVIOUS
    <3> QED
      BY <2>2, <2>3, <2>5, <3>1 DEF BusTypes
  <2>7. Talks(1)'
    <3>1. 1 \in DOMAIN sent'
      BY <2>4, SentFacts
    <3> QED
      BY <2>2, <2>3, <2>4, <3>1 DEF Talks
  <2>8. Prefix(sent', 1 - 1) = <<>> /\ lines'.sda = 1
    BY <2>2, <2>4, BytesHeard DEF BusRests
  <2> QED
    BY <2>3, <2>4, <2>6, <2>7, <2>8 DEF BusStarts
<1>3. CASE LetGo
  <2>1. BusTypes' /\ MasterRests /\ slave'.heard = slave.heard /\ slave'.told = slave.told
    BY <1>3, LetGoMoves DEF Freed, Alike
  <2> QED
    BY <2>1 DEF BusRests, MasterRests
<1>4. ~Stretch
  BY <1>1 DEF Stretch
<1>5. ~Drive /\ ~Wait /\ ~Acknowledge /\ ~ReadBit
  BY <1>1 DEF Drive, Wait, Acknowledge, ReadBit
<1> QED
  BY <1>2, <1>3, <1>4, <1>5 DEF BitbangNext

LEMMA StopsStep == ASSUME BusTypes, BusStops, BitbangNext PROVE BusTypes' /\ (BusStops \/ BusRests)'
<1>1. CASE SlaveMoves
  <2>1. BusTypes' /\ MasterRests /\ slave'.heard = slave.heard /\ slave'.told = slave.told
    BY <1>1 DEF SlaveMoves, Stretched, Freed, Alike
  <2> QED
    BY <2>1 DEF BusStops, MasterRests
<1>2. CASE Stretch \/ SlaveFrees
  BY <1>1, <1>2, SlaveMovesEither
<1>0. 0 \in 0..1 /\ 1 \in 0..1
  OBVIOUS
<1>3. CASE ops = Then(Scl(0), stop) /\ outcome = "failed" /\ ~SlaveFrees /\ ~Stretch
  <2>1. BusTypes' /\ ops' = stop /\ outcome' = "failed"
    BY <1>3, SclDownStep, StopOps DEF Drives, Passes
  <2> QED
    BY <2>1 DEF BusStops
<1>4. CASE ops = Then(Sda(1), stop) /\ ~SlaveFrees /\ ~Stretch
  <2>1. /\ BusTypes' /\ ops' = stop /\ outcome' = outcome /\ sent' = sent /\ read' = read
        /\ slave'.heard = slave.heard /\ slave'.told = slave.told
    BY <1>0, <1>4, SdaStep, StopOps DEF Drives, Passes
  <2> QED
    BY <2>1 DEF BusStops
<1>5. CASE ops = stop /\ ~SlaveFrees /\ ~Stretch
  <2>1. /\ BusTypes' /\ ops' = Then(Scl(1), Then(Sda(1), <<>>)) /\ outcome' = outcome /\ sent' = sent /\ read' = read
        /\ slave'.heard = slave.heard /\ slave'.told = slave.told
    BY <1>0, <1>5, SdaStep, StopOps DEF Drives, Passes
  <2> QED
    BY <2>1 DEF BusStops
<1>6. CASE ops = Then(Scl(1), Then(Sda(1), <<>>)) /\ ~SlaveFrees /\ ~Stretch
  <2>1. /\ BusTypes' /\ ops' = Then(Sda(1), <<>>) /\ outcome' = outcome /\ sent' = sent /\ read' = read /\ lines'.scl = 1
        /\ slave'.heard = slave.heard /\ slave'.told = slave.told
    BY <1>6, SclUpStep, StopOps DEF Drives, Passes, Alike
  <2> QED
    BY <2>1 DEF BusStops
<1>7. CASE ops = Then(Sda(1), <<>>) /\ lines.scl = 1 /\ ~SlaveFrees /\ ~Stretch
  <2>1. /\ BusTypes' /\ ops' = <<>> /\ sent' = sent /\ read' = read /\ lines'.scl = 1 /\ lines'.sda = 1
        /\ outcome' = (IF outcome = "running" THEN "done" ELSE outcome)
        /\ slave'.heard = slave.heard /\ slave'.told = slave.told
    BY <1>0, <1>7, SdaStep, StopOps DEF Drives, Passes
  <2>2. lines' = [sda |-> 1, scl |-> 1]
    BY <2>1 DEF BusTypes
  <2> QED
    BY <2>1, <2>2 DEF BusStops, BusRests
<1> QED
  BY <1>1, <1>2, <1>3, <1>4, <1>5, <1>6, <1>7 DEF BusStops

LEMMA ThenTyped == ASSUME NEW rest \in Seq(Op)
  PROVE  /\ \A v \in 0..1 : Then(Sda(v), rest) \in Seq(Op) /\ Then(Sda(v), rest) # <<>>
         /\ \A v \in 0..1 : Then(Scl(v), rest) \in Seq(Op) /\ Then(Scl(v), rest) # <<>>
         /\ \A what \in {"wait", "ack", "bit"} : Then(Do(what), rest) \in Seq(Op) /\ Then(Do(what), rest) # <<>>
BY OpsTyped, ThenFacts

LEMMA ThenElements == ASSUME NEW o \in Op, NEW rest \in Seq(Op)
  PROVE  Then(o, rest)[1] = o /\ (rest # <<>> => Then(o, rest)[2] = rest[1])
<1>1. <<o>> \in Seq(Op) /\ Len(<<o>>) = 1 /\ Len(rest) \in Nat
  OBVIOUS
<1>2. \A i \in 1..(1 + Len(rest)) : Then(o, rest)[i] = IF i <= 1 THEN <<o>>[i] ELSE rest[i - 1]
  BY <1>1, ConcatProperties DEF Then
<1>3. Then(o, rest)[1] = o
  BY <1>1, <1>2
<1>4. ASSUME rest # <<>> PROVE Then(o, rest)[2] = rest[1]
  <2>1. Len(rest) >= 1
    BY <1>1, <1>4, EmptySeq
  <2> QED
    BY <1>1, <1>2, <2>1
<1> QED
  BY <1>3, <1>4

\* What comes next of a byte, as the program that each phase names.
LEMMA ListensOps == ASSUME NEW s \in Transmissions, NEW n \in 1..2, NEW j \in 1..Len(s), NEW k \in 0..(Bits - 1)
  PROVE  LET next == ByteSent(s, n, j, k + 1)
             a == Then(Scl(0), next) b == Then(Do("wait"), a) c == Then(Scl(1), b) IN
         /\ next \in Seq(Op) /\ a \in Seq(Op) /\ b \in Seq(Op) /\ c \in Seq(Op) /\ a # <<>> /\ b # <<>> /\ c # <<>>
         /\ ByteSent(s, n, j, k) = Then(Sda(s[j][k + 1]), c) /\ s[j][k + 1] \in 0..1
         /\ next # <<>>
<1> DEFINE next == ByteSent(s, n, j, k + 1)
           a == Then(Scl(0), next) b == Then(Do("wait"), a) c == Then(Scl(1), b)
<1>0. 0 \in 0..1 /\ 1 \in 0..1 /\ "wait" \in {"wait", "ack", "bit"} /\ k + 1 \in 0..Bits /\ k + 1 \in 1..Bits /\ Bits \in Nat
  BY BitbangAssumption
<1>1. next \in Seq(Op) /\ ByteSent(s, n, j, k) = Then(Sda(s[j][k + 1]), c)
  BY <1>0, ByteFacts
<1>2. s[j][k + 1] \in 0..1
  BY <1>0, SentFacts, BitStringFacts
<1>3. next # <<>>
  <2>1. CASE k + 1 \in 0..(Bits - 1)
    <3> DEFINE more == ByteSent(s, n, j, (k + 1) + 1) x == Then(Scl(0), more) y == Then(Do("wait"), x) z == Then(Scl(1), y)
    <3>1. more \in Seq(Op) /\ next = Then(Sda(s[j][(k + 1) + 1]), z) /\ s[j][(k + 1) + 1] \in 0..1
      <4>1. (k + 1) + 1 \in 0..Bits /\ (k + 1) + 1 \in 1..Bits
        BY <1>0, <2>1
      <4> QED
        BY <2>1, <4>1, ByteFacts, SentFacts, BitStringFacts
    <3> HIDE DEF more, next
    <3>2. x \in Seq(Op)
      BY <1>0, <3>1, ThenTyped
    <3> HIDE DEF x
    <3>3. y \in Seq(Op)
      BY <1>0, <3>2, ThenTyped
    <3> HIDE DEF y
    <3>4. z \in Seq(Op)
      BY <1>0, <3>3, ThenTyped
    <3> HIDE DEF z
    <3> QED
      BY <3>1, <3>4, ThenTyped
  <2>2. CASE k + 1 = Bits
    <3> DEFINE r == AfterByte(s, n, j) w == Then(Scl(0), r) x == Then(Do("ack"), w) y == Then(Do("wait"), x) z == Then(Scl(1), y)
    <3>1. r \in Seq(Op) /\ next = Then(Sda(1), z)
      BY <2>2, AfterFacts, ByteFacts
    <3> HIDE DEF r, next
    <3>2. w \in Seq(Op)
      BY <1>0, <3>1, ThenTyped
    <3> HIDE DEF w
    <3>3. x \in Seq(Op)
      BY <3>2, ThenTyped
    <3> HIDE DEF x
    <3>4. y \in Seq(Op)
      BY <1>0, <3>3, ThenTyped
    <3> HIDE DEF y
    <3>5. z \in Seq(Op)
      BY <1>0, <3>4, ThenTyped
    <3> HIDE DEF z
    <3> QED
      BY <1>0, <3>1, <3>5, ThenTyped
  <2> QED
    BY <1>0, <2>1, <2>2
<1>4. a \in Seq(Op) /\ a # <<>>
  <2> HIDE DEF next
  <2> QED
    BY <1>0, <1>1, ThenTyped
<1>5. b \in Seq(Op) /\ b # <<>>
  <2> HIDE DEF a
  <2> QED
    BY <1>0, <1>4, ThenTyped
<1>6. c \in Seq(Op) /\ c # <<>>
  <2> HIDE DEF b
  <2> QED
    BY <1>0, <1>5, ThenTyped
<1> QED
  BY <1>1, <1>2, <1>3, <1>4, <1>5, <1>6

LEMMA AcknowledgesOps == ASSUME NEW s \in Transmissions, NEW n \in 1..2, NEW j \in 1..Len(s)
  PROVE  LET r == AfterByte(s, n, j)
             w == Then(Scl(0), r) x == Then(Do("ack"), w) y == Then(Do("wait"), x) z == Then(Scl(1), y) IN
         /\ r \in Seq(Op) /\ w \in Seq(Op) /\ x \in Seq(Op) /\ y \in Seq(Op) /\ z \in Seq(Op)
         /\ w # <<>> /\ x # <<>> /\ y # <<>> /\ z # <<>>
         /\ ByteSent(s, n, j, Bits) = Then(Sda(1), z)
<1> DEFINE r == AfterByte(s, n, j)
           w == Then(Scl(0), r) x == Then(Do("ack"), w) y == Then(Do("wait"), x) z == Then(Scl(1), y)
<1>0. 0 \in 0..1 /\ 1 \in 0..1 /\ "wait" \in {"wait", "ack", "bit"} /\ "ack" \in {"wait", "ack", "bit"}
  OBVIOUS
<1>1. r \in Seq(Op) /\ ByteSent(s, n, j, Bits) = Then(Sda(1), z)
  BY AfterFacts, ByteFacts
<1>2. w \in Seq(Op) /\ w # <<>>
  <2> HIDE DEF r
  <2> QED
    BY <1>0, <1>1, ThenTyped
<1>3. x \in Seq(Op) /\ x # <<>>
  <2> HIDE DEF w
  <2> QED
    BY <1>0, <1>2, ThenTyped
<1>4. y \in Seq(Op) /\ y # <<>>
  <2> HIDE DEF x
  <2> QED
    BY <1>0, <1>3, ThenTyped
<1>5. z \in Seq(Op) /\ z # <<>>
  <2> HIDE DEF y
  <2> QED
    BY <1>0, <1>4, ThenTyped
<1> QED
  BY <1>1, <1>2, <1>3, <1>4, <1>5

LEMMA StartsOps == ASSUME NEW s \in Transmissions, NEW n \in 1..2, NEW j \in 1..Len(s)
  PROVE  LET r == ByteSent(s, n, j, 0)
             x == Then(Scl(0), r) y == Then(Sda(0), x) z == Then(Scl(1), y) IN
         /\ r \in Seq(Op) /\ x \in Seq(Op) /\ y \in Seq(Op) /\ z \in Seq(Op) /\ Then(Sda(1), z) \in Seq(Op)
         /\ r # <<>> /\ x # <<>> /\ y # <<>> /\ z # <<>> /\ Then(Sda(1), z) # <<>>
<1> DEFINE r == ByteSent(s, n, j, 0)
           x == Then(Scl(0), r) y == Then(Sda(0), x) z == Then(Scl(1), y)
<1>0. 0 \in 0..1 /\ 1 \in 0..1 /\ 0 \in 0..Bits /\ 0 \in 0..(Bits - 1)
  BY BitbangAssumption
<1>1. r \in Seq(Op) /\ r # <<>>
  <2> DEFINE c == Then(Scl(1), Then(Do("wait"), Then(Scl(0), ByteSent(s, n, j, 0 + 1)))) v == s[j][0 + 1]
  <2>1. r = Then(Sda(v), c) /\ v \in 0..1 /\ c \in Seq(Op)
    BY <1>0, ListensOps
  <2> HIDE DEF c, v, r
  <2> QED
    BY <2>1, ThenTyped
<1>2. x \in Seq(Op) /\ x # <<>>
  <2> HIDE DEF r
  <2> QED
    BY <1>0, <1>1, ThenTyped
<1>3. y \in Seq(Op) /\ y # <<>>
  <2> HIDE DEF x
  <2> QED
    BY <1>0, <1>2, ThenTyped
<1>4. z \in Seq(Op) /\ z # <<>>
  <2> HIDE DEF y
  <2> QED
    BY <1>0, <1>3, ThenTyped
<1>5. Then(Sda(1), z) \in Seq(Op) /\ Then(Sda(1), z) # <<>>
  <2> HIDE DEF z
  <2> QED
    BY <1>0, <1>4, ThenTyped
<1> QED
  BY <1>1, <1>2, <1>3, <1>4, <1>5

LEMMA TellsOps == ASSUME NEW more \in 0..1, NEW k \in 0..(Bits - 1)
  PROVE  LET next == Reads(k + 1, more)
             w == Then(Scl(0), next) x == Then(Do("bit"), w) y == Then(Do("wait"), x) z == Then(Scl(1), y) IN
         /\ next \in Seq(Op) /\ w \in Seq(Op) /\ x \in Seq(Op) /\ y \in Seq(Op) /\ z \in Seq(Op)
         /\ w # <<>> /\ x # <<>> /\ y # <<>> /\ z # <<>>
         /\ Reads(k, more) = Then(Sda(1), z)
         /\ Reads(k, more) \in Seq(Op) /\ Reads(k, more) # <<>>
<1> DEFINE next == Reads(k + 1, more)
           w == Then(Scl(0), next) x == Then(Do("bit"), w) y == Then(Do("wait"), x) z == Then(Scl(1), y)
<1>0. 0 \in 0..1 /\ 1 \in 0..1 /\ "wait" \in {"wait", "ack", "bit"} /\ "bit" \in {"wait", "ack", "bit"} /\ k + 1 \in 0..Bits
  BY BitbangAssumption
<1>1. next \in Seq(Op) /\ Reads(k, more) = Then(Sda(1), z)
  BY <1>0, ReadsFacts
<1>2. w \in Seq(Op) /\ w # <<>>
  <2> HIDE DEF next
  <2> QED
    BY <1>0, <1>1, ThenTyped
<1>3. x \in Seq(Op) /\ x # <<>>
  <2> HIDE DEF w
  <2> QED
    BY <1>0, <1>2, ThenTyped
<1>4. y \in Seq(Op) /\ y # <<>>
  <2> HIDE DEF x
  <2> QED
    BY <1>0, <1>3, ThenTyped
<1>5. z \in Seq(Op) /\ z # <<>>
  <2> HIDE DEF y
  <2> QED
    BY <1>0, <1>4, ThenTyped
<1>6. Then(Sda(1), z) \in Seq(Op) /\ Then(Sda(1), z) # <<>>
  <2> HIDE DEF z
  <2> QED
    BY <1>0, <1>5, ThenTyped
<1> QED
  BY <1>1, <1>2, <1>3, <1>4, <1>5, <1>6

LEMMA WaitsOps == ASSUME NEW more \in 0..1
  PROVE  LET r == ReadRest(more)
             w == Then(Sda(1), r) x == Then(Scl(0), w) y == Then(Do("wait"), x) z == Then(Scl(1), y) IN
         /\ r \in Seq(Op) /\ w \in Seq(Op) /\ x \in Seq(Op) /\ y \in Seq(Op) /\ z \in Seq(Op)
         /\ w # <<>> /\ x # <<>> /\ y # <<>> /\ z # <<>>
         /\ Reads(Bits, more) = Then(Sda(Answer(more)), z) /\ Answer(more) \in 0..1
         /\ Reads(Bits, more) # <<>>
<1> DEFINE r == ReadRest(more)
           w == Then(Sda(1), r) x == Then(Scl(0), w) y == Then(Do("wait"), x) z == Then(Scl(1), y)
<1>0. 0 \in 0..1 /\ 1 \in 0..1 /\ "wait" \in {"wait", "ack", "bit"}
  OBVIOUS
<1>1. r \in Seq(Op) /\ Reads(Bits, more) = Then(Sda(Answer(more)), z) /\ Answer(more) \in 0..1
  BY ReadRestTyped, ReadsFacts DEF Answer
<1>2. w \in Seq(Op) /\ w # <<>>
  <2> HIDE DEF r
  <2> QED
    BY <1>0, <1>1, ThenTyped
<1>3. x \in Seq(Op) /\ x # <<>>
  <2> HIDE DEF w
  <2> QED
    BY <1>0, <1>2, ThenTyped
<1>4. y \in Seq(Op) /\ y # <<>>
  <2> HIDE DEF x
  <2> QED
    BY <1>0, <1>3, ThenTyped
<1>5. z \in Seq(Op) /\ z # <<>>
  <2> HIDE DEF y
  <2> QED
    BY <1>0, <1>4, ThenTyped
<1>6. Then(Sda(Answer(more)), z) # <<>>
  <2> HIDE DEF z
  <2> QED
    BY <1>1, <1>5, ThenTyped
<1> QED
  BY <1>1, <1>2, <1>3, <1>4, <1>5, <1>6

\* There is always something left to do, and after a byte that something starts with SCL low.
LEMMA MoreToDo ==
  /\ \A more \in 0..1 : ReadRest(more) # <<>> /\ \A k \in 0..Bits : Reads(k, more) \in Seq(Op) /\ Reads(k, more) # <<>>
  /\ \A s \in Transmissions, n \in 1..2 : \A j \in 1..Len(s) : AfterByte(s, n, j) # <<>>
<1>0. Bits \in Nat /\ Bits >= 2
  BY BitbangAssumption
<1>1. ASSUME NEW more \in 0..1, NEW k \in 0..Bits PROVE Reads(k, more) \in Seq(Op) /\ Reads(k, more) # <<>>
  <2>1. CASE k \in 0..(Bits - 1)
    BY <2>1, TellsOps
  <2>2. CASE k = Bits
    <3>1. Bits \in 0..Bits
      BY <1>0
    <3> QED
      BY <2>2, <3>1, WaitsOps, ReadsFacts
  <2> QED
    BY <1>0, <2>1, <2>2
<1>2. ASSUME NEW more \in 0..1 PROVE ReadRest(more) # <<>>
  <2>1. CASE more = 0
    BY <2>1, RestFacts, StopOps
  <2>2. CASE more = 1
    <3>1. 0 \in 0..1 /\ 0 \in 0..Bits
      BY <1>0
    <3> QED
      BY <1>1, <2>2, <3>1, RestFacts
  <2> QED
    BY <2>1, <2>2
<1>3. ASSUME NEW s \in Transmissions, NEW n \in 1..2, NEW j \in 1..Len(s) PROVE AfterByte(s, n, j) # <<>>
  <2>0. Len(s) \in {2, 3} /\ j \in {1, 2, 3} /\ (j = 3 => Len(s) = 3)
    <3> DEFINE l == Len(s)
    <3>1. l \in {2, 3} /\ j \in 1..l
      BY SentFacts
    <3> HIDE DEF l
    <3>2. l \in {2, 3} /\ j \in {1, 2, 3} /\ (j = 3 => l = 3)
      BY <3>1
    <3> QED
      BY <3>2 DEF l
  <2>1. CASE j = 1
    <3>1. 2 \in 1..Len(s)
      BY <2>0
    <3> QED
      BY <2>1, <3>1, AfterFacts, StartsOps
  <2>2. CASE j = 2 /\ Len(s) = 2
    BY <2>2, AfterFacts, StopOps
  <2>3. CASE j = 2 /\ Len(s) = 3
    <3>1. 3 \in 1..Len(s)
      BY <2>3
    <3> DEFINE z == Then(Sda(1), Then(Scl(1), Then(Sda(0), Then(Scl(0), ByteSent(s, n, 3, 0)))))
    <3>2. z # <<>>
      BY <3>1, StartsOps
    <3>3. AfterByte(s, n, 2) = z
      BY <2>3, AfterFacts
    <3> QED
      BY <2>3, <3>2, <3>3
  <2>4. CASE j = 3
    <3>1. n - 1 \in 0..1 /\ 0 \in 0..Bits
      BY <1>0
    <3> QED
      BY <1>1, <2>0, <2>4, <3>1, AfterFacts
  <2> QED
    BY <2>0, <2>1, <2>2, <2>3, <2>4
<1> QED
  BY <1>1, <1>2, <1>3

LEMMA TalksFacts == ASSUME NEW j, Talks(j)
  PROVE  /\ outcome = "running" /\ byte = <<>> /\ read = <<>> /\ slave.told = <<>> /\ sent \in Transmissions
         /\ j \in 1..Len(sent) /\ sent[j] \in BitString /\ Len(sent) \in {2, 3}
BY SentFacts DEF Talks

LEMMA TalksOn == ASSUME NEW j, Talks(j), outcome' = outcome, byte' = byte, read' = read, sent' = sent, slave'.told = slave.told
  PROVE Talks(j)'
BY DEF Talks

\* It cannot stretch the clock where the master would not wait for it.
LEMMA StartNotStretched == ASSUME BusTypes, NEW n \in 1..2, NEW j \in 1..3, BusStarts(n, j) PROVE ~Stretch
<1> DEFINE r == ByteSent(sent, n, j, 0) x == Then(Scl(0), r) y == Then(Sda(0), x) z == Then(Scl(1), y)
<1>1. /\ r \in Seq(Op) /\ x \in Seq(Op) /\ y \in Seq(Op) /\ z \in Seq(Op) /\ x # <<>> /\ y # <<>> /\ z # <<>>
  BY TalksFacts, StartsOps DEF BusStarts
<1>2. Sda(0) \in Op /\ Sda(1) \in Op /\ Scl(0) \in Op /\ Scl(1) \in Op
  BY OpsTyped
<1>3. /\ Sda(0).do = "sda" /\ Sda(1).do = "sda" /\ Scl(0).do = "scl" /\ Scl(1).do = "scl"
  BY DEF Sda, Scl
<1>4. \/ ops = Then(Sda(1), z) \/ ops = z \/ lines.scl = 1
  BY DEF BusStarts
<1> HIDE DEF r, x, y, z
<1>5. SUFFICES ASSUME Stretch PROVE FALSE
  OBVIOUS
<1>6. lines.scl = 0 /\ ops \in Seq(Op) /\ Len(ops) \in Nat /\ DOMAIN ops = 1..Len(ops)
  BY <1>5 DEF Stretch, BusTypes
<1>7. PICK i \in 1..Len(ops) : ops[i].do = "wait" /\ \A m \in 1..(i - 2) : ops[m] # Scl(1)
  BY <1>5, <1>6 DEF Stretch
<1>8. y[1] = Sda(0) /\ z[1] = Scl(1) /\ z[2] = Sda(0)
  <2>1. y[1] = Sda(0)
    BY <1>1, <1>2, ThenElements DEF y
  <2>2. z[1] = Scl(1) /\ z[2] = y[1]
    BY <1>1, <1>2, ThenElements DEF z
  <2> QED
    BY <2>1, <2>2
<1>9. CASE ops = z
  <2>1. i # 1 /\ i # 2
    BY <1>3, <1>7, <1>8, <1>9
  <2>2. 1 \in 1..(i - 2)
    BY <1>6, <2>1
  <2> QED
    BY <1>7, <1>8, <1>9, <2>2
<1>10. CASE ops = Then(Sda(1), z)
  <2>1. ops[1] = Sda(1) /\ ops[2] = Scl(1) /\ ops[3] = Sda(0)
    <3>1. /\ <<Sda(1)>> \in Seq(Op) /\ Len(<<Sda(1)>>) = 1 /\ Len(z) \in Nat
          /\ \A m \in 1..(1 + Len(z)) : (<<Sda(1)>> \o z)[m] = IF m <= 1 THEN <<Sda(1)>>[m] ELSE z[m - 1]
      <4>1. <<Sda(1)>> \in Seq(Op) /\ Len(<<Sda(1)>>) = 1 /\ Len(z) \in Nat
        BY <1>1, <1>2
      <4> QED
        BY <1>1, <4>1, ConcatProperties
    <3>2. Len(z) >= 2
      <4>1. Len(z) = 1 + Len(y) /\ Len(y) \in Nat /\ Len(y) # 0
        <5>1. <<Scl(1)>> \in Seq(Op) /\ Len(<<Scl(1)>>) = 1
          BY <1>2
        <5>2. Len(<<Scl(1)>> \o y) = 1 + Len(y)
          BY <1>1, <5>1, ConcatProperties
        <5> QED
          BY <1>1, <5>2, EmptySeq DEF z, Then
      <4> QED
        BY <4>1
    <3>3. 1 \in 1..(1 + Len(z)) /\ 2 \in 1..(1 + Len(z)) /\ 3 \in 1..(1 + Len(z))
      BY <3>1, <3>2
    <3>4. (<<Sda(1)>> \o z)[1] = Sda(1) /\ (<<Sda(1)>> \o z)[2] = z[1] /\ (<<Sda(1)>> \o z)[3] = z[2]
      <4>1. <<Sda(1)>>[1] = Sda(1)
        OBVIOUS
      <4> QED
        BY <3>1, <3>3, <4>1
    <3> QED
      BY <1>8, <1>10, <3>4 DEF Then
  <2>2. i # 1 /\ i # 2 /\ i # 3
    BY <1>3, <1>7, <2>1
  <2>3. 2 \in 1..(i - 2)
    BY <1>6, <2>2
  <2> QED
    BY <1>7, <2>1, <2>3
<1> QED
  BY <1>4, <1>6, <1>9, <1>10

LEMMA StartsStep == ASSUME BusTypes, NEW n \in 1..2, NEW j \in 1..3, BusStarts(n, j), BitbangNext
  PROVE BusTypes' /\ (BusStarts(n, j) \/ SlaveListens(n, j, 0))'
<1> DEFINE r == ByteSent(sent, n, j, 0) x == Then(Scl(0), r) y == Then(Sda(0), x) z == Then(Scl(1), y)
<1>0. 0 \in 0..1 /\ 1 \in 0..1
  OBVIOUS
<1>1. /\ r \in Seq(Op) /\ x \in Seq(Op) /\ y \in Seq(Op) /\ z \in Seq(Op) /\ x # <<>> /\ y # <<>> /\ z # <<>>
  BY TalksFacts, StartsOps DEF BusStarts
<1>2. ~Stretch /\ ~SlaveFrees
  BY StartNotStretched DEF BusStarts, SlaveFrees, Freed
<1>3. /\ outcome = "running" /\ slave.sda = 1 /\ slave.scl = 1 /\ j # 2 /\ Talks(j) /\ slave.heard = Prefix(sent, j - 1)
  BY TalksFacts DEF BusStarts
<1>4. CASE ops = Then(Sda(1), z) /\ (lines.scl = 1 => lines.sda = 1)
  <2>1. /\ BusTypes' /\ ops' = z /\ UNCHANGED <<outcome, byte, read, sent>>
        /\ lines'.sda = 1 /\ slave' = slave
    <3>1. lines.scl = 0 \/ lines.sda = 1
      BY <1>4 DEF BusTypes
    <3> HIDE DEF z
    <3> QED
      BY <1>0, <1>1, <1>2, <1>4, <3>1, SdaStep DEF Drives, Passes
  <2>2. Talks(j)'
    BY <1>3, <2>1, TalksOn
  <2> QED
    BY <1>3, <2>1, <2>2 DEF BusStarts
<1>5. CASE ops = z /\ lines.sda = 1
  <2>1. /\ BusTypes' /\ ops' = y /\ UNCHANGED <<outcome, byte, read, sent>>
        /\ lines'.sda = 1 /\ lines'.scl = 1 /\ slave'.sda = 1 /\ slave'.scl = 1 /\ slave'.told = slave.told
        /\ slave'.heard = slave.heard
    <3> HIDE DEF y
    <3> QED
      BY <1>1, <1>2, <1>3, <1>5, SclUpStep DEF Drives, Passes, Alike
  <2>2. Talks(j)'
    BY <1>3, <2>1, TalksOn
  <2> QED
    BY <1>3, <2>1, <2>2 DEF BusStarts
<1>6. CASE ops = y /\ lines.sda = 1 /\ lines.scl = 1
  <2>1. /\ BusTypes' /\ ops' = x /\ UNCHANGED <<outcome, byte, read, sent>>
        /\ lines'.scl = 1 /\ slave'.sda = 1 /\ slave'.scl = 1 /\ slave'.told = slave.told
        /\ slave'.heard = slave.heard /\ Started
    <3> HIDE DEF x
    <3> QED
      BY <1>0, <1>1, <1>2, <1>3, <1>6, SdaStep DEF Drives, Passes
  <2>2. Talks(j)'
    BY <1>3, <2>1, TalksOn
  <2>3. Prefix(sent'[j], 0) = <<>> /\ Expected(j) = "address"
    BY <1>3, <2>1, TalksFacts, BitsSent DEF Expected
  <2> QED
    BY <1>3, <2>1, <2>2, <2>3 DEF SlaveListens, Started
<1> QED
  BY <1>4, <1>5, <1>6 DEF BusStarts

LEMMA ListensStep == ASSUME BusTypes, NEW n \in 1..2, NEW j \in 1..3, NEW k \in 0..Bits, SlaveListens(n, j, k), BitbangNext
  PROVE BusTypes' /\ (BusStops \/ SlaveAcknowledges(n, j) \/ \E m \in 0..Bits : SlaveListens(n, j, m))'
<1> DEFINE next == ByteSent(sent, n, j, k + 1) a == Then(Scl(0), next) b == Then(Do("wait"), a) c == Then(Scl(1), b)
           bit == sent[j][k + 1]
<1>0. 0 \in 0..1 /\ 1 \in 0..1 /\ Bits \in Nat /\ Bits >= 2
  BY BitbangAssumption
<1>1. /\ outcome = "running" /\ Talks(j) /\ sent \in Transmissions /\ j \in 1..Len(sent) /\ sent[j] \in BitString
      /\ slave.role = "listen" /\ slave.next = Expected(j) /\ slave.sda = 1 /\ slave.heard = Prefix(sent, j - 1)
      /\ slave \in SlaveStates /\ lines.sda \in 0..1 /\ lines.scl \in 0..1 /\ slave.scl \in 0..1
  BY TalksFacts, SlaveFields, LinesFacts DEF SlaveListens, BusTypes
<1>2. ASSUME k < Bits
      PROVE /\ next \in Seq(Op) /\ a \in Seq(Op) /\ b \in Seq(Op) /\ c \in Seq(Op) /\ a # <<>> /\ b # <<>> /\ c # <<>>
            /\ ByteSent(sent, n, j, k) = Then(Sda(bit), c) /\ bit \in 0..1 /\ k \in 0..Bits /\ k + 1 \in 0..Bits
            /\ Append(Prefix(sent[j], k), bit) = Prefix(sent[j], k + 1)
  <2>1. k \in 0..(Bits - 1) /\ k + 1 \in 0..Bits
    BY <1>0, <1>2
  <2> QED
    BY <1>1, <2>1, ListensOps, BitsSent
<1>3. CASE k < Bits /\ ops = ByteSent(sent, n, j, k) /\ lines.scl = 0 /\ slave.bits = Prefix(sent[j], k)
  <2>1. CASE SlaveMoves
    <3>1. BusTypes' /\ MasterRests /\ Alike(slave', slave) /\ slave'.bits = slave.bits
      BY <1>3, <2>1 DEF SlaveMoves, Stretched, Freed
    <3>2. Talks(j)'
      BY <1>1, <3>1, TalksOn DEF MasterRests, Alike
    <3>3. SlaveListens(n, j, k)'
      BY <1>1, <1>3, <3>1, <3>2 DEF SlaveListens, MasterRests, Alike
    <3> QED
      BY <3>1, <3>3
  <2>2. CASE Stretch \/ SlaveFrees
    BY <2>1, <2>2, SlaveMovesEither
  <2>3. CASE ~Stretch /\ ~SlaveFrees
    <3>1. /\ BusTypes' /\ ops' = c /\ UNCHANGED <<outcome, byte, read, sent>>
          /\ lines'.sda = bit /\ lines'.scl = 0 /\ slave' = slave
      <4>1. ops = Then(Sda(bit), c) /\ bit \in 0..1 /\ c \in Seq(Op) /\ c # <<>> /\ lines.scl = 0
        BY <1>2, <1>3
      <4> HIDE DEF bit, c
      <4> QED
        BY <4>1, <2>3, SdaStep DEF Drives, Passes
    <3>2. Talks(j)'
      BY <1>1, <3>1, TalksOn
    <3>3. SlaveListens(n, j, k)'
      BY <1>1, <1>3, <3>1, <3>2 DEF SlaveListens
    <3> QED
      BY <3>1, <3>3
  <2> QED
    BY <2>2, <2>3
<1>4. CASE k < Bits /\ ops = c /\ lines.scl = 0 /\ lines.sda = bit /\ slave.bits = Prefix(sent[j], k)
  <2>1. CASE SlaveMoves
    <3>1. BusTypes' /\ MasterRests /\ Alike(slave', slave) /\ slave'.bits = slave.bits
      BY <1>4, <2>1 DEF SlaveMoves, Stretched, Freed
    <3>2. Talks(j)'
      BY <1>1, <3>1, TalksOn DEF MasterRests, Alike
    <3>3. SlaveListens(n, j, k)'
      BY <1>1, <1>4, <3>1, <3>2 DEF SlaveListens, MasterRests, Alike
    <3> QED
      BY <3>1, <3>3
  <2>2. CASE Stretch \/ SlaveFrees
    BY <2>1, <2>2, SlaveMovesEither
  <2>3. CASE ~Stretch /\ ~SlaveFrees
    <3>1. /\ BusTypes' /\ ops' = b /\ UNCHANGED <<outcome, byte, read, sent>>
          /\ lines'.sda = bit /\ lines'.scl = 1 /\ Alike(slave', slave) /\ slave'.scl = slave.scl
          /\ slave.scl = 1 => slave'.bits = Append(slave.bits, Sampled)
          /\ slave.scl = 0 => slave'.bits = slave.bits
      <4>1. b \in Seq(Op) /\ b # <<>> /\ Sampling
        BY <1>1, <1>2, <1>4 DEF Sampling
      <4> HIDE DEF b, bit
      <4> QED
        BY <1>4, <4>1, <2>3, SclUpStep DEF Drives, Passes
    <3>2. Sampled = bit
      BY <1>1, <1>2, <1>4, LowFacts DEF Sampled
    <3>3. Talks(j)'
      BY <1>1, <3>1, TalksOn DEF Alike
    <3>4. /\ slave'.scl = 1 => slave'.bits = Prefix(sent[j], k + 1)
          /\ slave'.scl = 0 => slave'.bits = Prefix(sent[j], k)
      BY <1>2, <1>4, <3>1, <3>2
    <3>5. SlaveListens(n, j, k)'
      BY <1>1, <1>4, <3>1, <3>3, <3>4 DEF SlaveListens, Alike
    <3> QED
      BY <3>1, <3>5
  <2> QED
    BY <2>2, <2>3
<1>5. CASE /\ k < Bits /\ ops = b /\ lines.scl = 1 /\ lines.sda = bit
           /\ slave.scl = 0 => slave.bits = Prefix(sent[j], k)
           /\ slave.scl = 1 => slave.bits = Prefix(sent[j], k + 1)
  <2>1. CASE SlaveFrees
    <3>1. BusTypes' /\ MasterRests /\ Alike(slave', slave) /\ slave'.scl = 1 /\ slave'.bits = Append(Prefix(sent[j], k), Sampled)
      BY <1>1, <1>5, <2>1 DEF SlaveFrees, Freed
    <3>2. Sampled = bit
      BY <1>1, <1>2, <1>5, LowFacts DEF Sampled
    <3>3. slave'.bits = Prefix(sent[j], k + 1)
      BY <1>2, <1>5, <3>1, <3>2
    <3>4. Talks(j)'
      BY <1>1, <3>1, TalksOn DEF MasterRests, Alike
    <3>5. SlaveListens(n, j, k)'
      BY <1>1, <1>5, <3>1, <3>3, <3>4 DEF SlaveListens, MasterRests, Alike
    <3> QED
      BY <3>1, <3>5
  <2>2. ~Stretch
    BY <1>5 DEF Stretch
  <2>3. CASE ~SlaveFrees
    <3>1. /\ BusTypes' /\ slave' = slave /\ lines' = lines
          /\ GaveUp \/ (slave.scl = 1 /\ Passes(a) /\ outcome' = outcome)
      <4>1. a \in Seq(Op)
        BY <1>2, <1>5
      <4> HIDE DEF a
      <4> QED
        BY <1>5, <2>2, <2>3, <4>1, WaitStep
    <3>2. CASE GaveUp
      BY <3>1, <3>2, GivingUpStops
    <3>3. CASE slave.scl = 1 /\ Passes(a) /\ outcome' = outcome
      <4>1. Talks(j)'
        BY <1>1, <3>1, <3>3, TalksOn DEF Passes
      <4>2. k + 1 \in 0..Bits
        BY <1>2, <1>5
      <4>3. SlaveListens(n, j, k + 1)'
        BY <1>1, <1>5, <3>1, <3>3, <4>1 DEF SlaveListens, Passes
      <4> QED
        BY <3>1, <4>2, <4>3
    <3> QED
      BY <3>1, <3>2, <3>3
  <2> QED
    BY <2>1, <2>3
<1>6. CASE /\ ops = Then(Scl(0), ByteSent(sent, n, j, k))
           /\ lines.scl = 1 /\ slave.scl = 1 /\ slave.bits = Prefix(sent[j], k)
  <2> DEFINE r == ByteSent(sent, n, j, k)
  <2>1. r \in Seq(Op) /\ r # <<>>
    <3>1. CASE k < Bits
      <4>1. /\ ByteSent(sent, n, j, k) = Then(Sda(bit), c) /\ c \in Seq(Op) /\ bit \in 0..1
        BY <1>2, <3>1
      <4> HIDE DEF c, bit
      <4> QED
        BY <4>1, ThenTyped
    <3>2. CASE k = Bits
      <4> DEFINE z == Then(Scl(1), Then(Do("wait"), Then(Do("ack"), Then(Scl(0), AfterByte(sent, n, j)))))
      <4>1. z \in Seq(Op) /\ r = Then(Sda(1), z)
        BY <1>1, <3>2, AcknowledgesOps
      <4> HIDE DEF z, r
      <4> QED
        BY <1>0, <4>1, ThenTyped
    <3> QED
      BY <1>0, <3>1, <3>2
  <2>2. ~Stretch /\ ~SlaveFrees
    BY <1>6 DEF Stretch, SlaveFrees, Freed
  <2>3. /\ BusTypes' /\ ops' = r /\ UNCHANGED <<outcome, byte, read, sent>>
        /\ lines'.scl = 0 /\ slave'.scl = 1 /\ slave' \in Falls(slave)
    <3> HIDE DEF r
    <3> QED
      BY <1>6, <2>1, <2>2, SclDownStep DEF r, Drives, Passes
  <2>4. CASE k < Bits
    <3>1. Len(slave.bits) # Bits
      <4>1. k \in 0..(Bits - 1)
        BY <1>0, <2>4
      <4>2. Len(slave.bits) = k
        BY <1>1, <1>6, <4>1, BitsSent
      <4> QED
        BY <2>4, <4>2
    <3>2. slave' = slave
      BY <1>1, <2>3, <3>1, FallsFacts
    <3>3. Talks(j)'
      BY <1>1, <2>3, <3>2, TalksOn
    <3>4. SlaveListens(n, j, k)'
      BY <1>1, <1>6, <2>3, <2>4, <3>2, <3>3 DEF SlaveListens
    <3> QED
      BY <2>3, <3>4
  <2>5. CASE k = Bits
    <3>1. slave.bits = sent[j] /\ Len(slave.bits) = Bits
      BY <1>1, <1>6, <2>5, BitsSent
    <3>2. /\ slave'.told = slave.told
          /\ \/ /\ slave'.role = "ack" /\ slave'.sda = 0 /\ slave'.heard = Append(slave.heard, slave.bits)
                /\ slave'.bits = slave.bits /\ slave'.next = slave.next
             \/ slave'.role = "off" /\ slave'.sda = slave.sda
      BY <1>1, <2>3, <3>1, FallsFacts
    <3>3. Append(slave.heard, slave.bits) = Prefix(sent, j)
      <4>1. Append(Prefix(sent, j - 1), sent[j]) = Prefix(sent, j)
        BY <1>1, BytesHeard, Zenon
      <4>2. slave.heard = Prefix(sent, j - 1) /\ slave.bits = sent[j]
        BY <1>1, <3>1
      <4> QED
        BY <4>1, <4>2, Zenon
    <3>4. Talks(j)'
      BY <1>1, <2>3, <3>2, TalksOn
    <3>5. SlaveAcknowledges(n, j)'
      BY <1>1, <1>6, <2>3, <2>5, <3>1, <3>2, <3>3, <3>4 DEF SlaveAcknowledges
    <3> QED
      BY <2>3, <3>5
  <2> QED
    BY <1>0, <2>4, <2>5
<1> QED
  BY <1>3, <1>4, <1>5, <1>6 DEF SlaveListens

LEMMA AcknowledgedStep ==
  ASSUME BusTypes, NEW n \in 1..2, NEW j \in 1..3, Talks(j), slave.role = "ack", slave.next = Expected(j),
         slave.bits = sent[j], slave.heard = Prefix(sent, j), slave.scl = 1, slave' \in Falls(slave), BusTypes',
         ops' = AfterByte(sent, n, j), lines'.scl = 0, outcome' = outcome, byte' = byte,
         read' = read, sent' = sent, slave'.scl = 1
  PROVE (BusStops \/ SlaveListens(n, 2, 0) \/ BusStarts(n, 3) \/ \E d \in BitString : SlaveTells(n - 1, 0, d))'
<1>0. Bits \in Nat /\ Bits >= 2
  BY BitbangAssumption
<1>1. /\ outcome = "running" /\ byte = <<>> /\ read = <<>> /\ slave.told = <<>> /\ sent \in Transmissions
      /\ j \in 1..Len(sent) /\ sent[j] \in BitString /\ Len(sent) \in {2, 3} /\ slave \in SlaveStates
      /\ sent[1][Bits] = 0 /\ (Len(sent) = 3 => sent[3][Bits] = 1)
  BY TalksFacts, SentFacts DEF BusTypes
<1>2. ASSUME j # 3
      PROVE  /\ slave'.role = "listen" /\ slave'.next = "data" /\ slave'.sda = 1 /\ slave'.bits = <<>>
             /\ slave'.heard = Prefix(sent, j) /\ slave'.told = <<>>
  <2>1. ~(slave.next = "address" /\ slave.bits[Bits] = 1)
    <3>1. CASE j = 1
      BY <1>1, <3>1
    <3>2. CASE j = 2
      BY <3>2 DEF Expected
    <3> QED
      BY <1>2, <3>1, <3>2
  <2> QED
    BY <1>1, <2>1, FallsFacts
<1>3. ASSUME j # 3 PROVE Talks(j)' /\ \A m \in 1..Len(sent) : Talks(m)'
  <2>1. /\ outcome' = "running" /\ byte' = <<>> /\ read' = <<>> /\ slave'.told = <<>> /\ sent' \in Transmissions
        /\ DOMAIN sent' = 1..Len(sent)
    BY <1>1, <1>2, <1>3, SentFacts
  <2> QED
    BY <1>1, <2>1 DEF Talks
<1>4. CASE j = 1
  <2>1. ops' = ByteSent(sent', n, 2, 0)
    BY <1>1, <1>4, AfterFacts
  <2>2. 2 \in 1..Len(sent) /\ sent[2] \in BitString
    <3>1. 2 \in 1..Len(sent)
      <4> DEFINE l == Len(sent)
      <4>1. l \in {2, 3}
        BY <1>1
      <4> HIDE DEF l
      <4>2. 2 \in 1..l
        BY <4>1
      <4> QED
        BY <4>2 DEF l
    <3> QED
      BY <1>1, <3>1, SentFacts
  <2>3. Talks(2)' /\ Prefix(sent'[2], 0) = <<>> /\ 2 - 1 = 1
    BY <1>3, <1>4, <2>2, BitsSent
  <2>4. SlaveListens(n, 2, 0)'
    BY <1>0, <1>2, <1>4, <2>1, <2>3 DEF SlaveListens, Expected
  <2> QED
    BY <2>4
<1>5. CASE j = 2 /\ Len(sent) = 2
  <2>1. ops' = stop
    BY <1>1, <1>5, AfterFacts
  <2>2. slave'.heard = sent
    <3>1. slave'.heard = Prefix(sent, 2)
      BY <1>2, <1>5
    <3>2. Prefix(sent, Len(sent)) = sent
      BY <1>1, BytesHeard
    <3> QED
      BY <1>5, <3>1, <3>2
  <2>3. BusStops'
    BY <1>1, <1>2, <1>5, <2>1, <2>2 DEF BusStops
  <2> QED
    BY <2>3
<1>6. CASE j = 2 /\ Len(sent) = 3
  <2>1. ops' = Then(Sda(1), Then(Scl(1), Then(Sda(0), Then(Scl(0), ByteSent(sent', n, 3, 0)))))
    BY <1>1, <1>6, AfterFacts
  <2>2. Talks(3)' /\ 3 - 1 = 2
    <3>1. 3 \in 1..Len(sent)
      BY <1>6
    <3> QED
      BY <1>3, <1>6, <3>1
  <2>3. BusStarts(n, 3)'
    BY <1>2, <1>6, <2>1, <2>2 DEF BusStarts
  <2> QED
    BY <2>3
<1>7. CASE j = 3
  <2>0. Len(sent) = 3
    <3> DEFINE l == Len(sent)
    <3>1. l \in {2, 3} /\ 3 \in 1..l
      BY <1>1, <1>7
    <3> HIDE DEF l
    <3>2. l = 3
      BY <3>1
    <3> QED
      BY <3>2 DEF l
  <2>1. ops' = Reads(0, n - 1) /\ slave.next = "address" /\ slave.bits[Bits] = 1
    BY <1>1, <1>7, <2>0, AfterFacts DEF Expected
  <2>2. PICK d \in BitString : /\ slave'.role = "tell" /\ slave'.bits = d /\ slave'.told = Append(slave.told, d)
                               /\ slave'.sda = d[1] /\ slave'.heard = slave.heard
    BY <1>1, <2>1, FallsFacts
  <2>3. slave.heard = sent
    BY <1>1, <1>7, <2>0, BytesHeard
  <2>4. Suffix(d, 0) = d /\ Prefix(d, 0) = <<>> /\ 0 + 1 = 1 /\ 0 < Bits
    BY <1>0, <2>2, BitsToCome, BitsSent
  <2>5. SlaveTells(n - 1, 0, d)'
    BY <1>1, <2>1, <2>2, <2>3, <2>4 DEF SlaveTells
  <2> QED
    BY <2>2, <2>5
<1> QED
  BY <1>1, <1>4, <1>5, <1>6, <1>7

LEMMA AcknowledgesStep == ASSUME BusTypes, NEW n \in 1..2, NEW j \in 1..3, SlaveAcknowledges(n, j), BitbangNext
  PROVE BusTypes' /\ (\/ BusStops \/ SlaveAcknowledges(n, j) \/ SlaveListens(n, 2, 0) \/ BusStarts(n, 3)
                      \/ \E d \in BitString : SlaveTells(n - 1, 0, d))'
<1> DEFINE r == AfterByte(sent, n, j) w == Then(Scl(0), r) x == Then(Do("ack"), w) y == Then(Do("wait"), x) z == Then(Scl(1), y)
           Acks == /\ slave.role = "ack" /\ slave.next = Expected(j) /\ slave.sda = 0 /\ slave.bits = sent[j]
                   /\ slave.heard = Prefix(sent, j)
           Off == slave.role = "off" /\ slave.sda = 1 /\ slave.scl = 1
<1>0. 0 \in 0..1 /\ 1 \in 0..1
  OBVIOUS
<1>1. /\ outcome = "running" /\ Talks(j) /\ sent \in Transmissions /\ j \in 1..Len(sent) /\ ~Sampling /\ (Acks \/ Off)
      /\ lines.sda \in 0..1 /\ lines.scl \in 0..1 /\ slave.scl \in 0..1 /\ slave.sda \in 0..1
  BY TalksFacts, SlaveFields, LinesFacts DEF SlaveAcknowledges, BusTypes, Sampling
<1>2. /\ r \in Seq(Op) /\ w \in Seq(Op) /\ x \in Seq(Op) /\ y \in Seq(Op) /\ z \in Seq(Op)
      /\ w # <<>> /\ x # <<>> /\ y # <<>> /\ z # <<>> /\ r # <<>>
      /\ ByteSent(sent, n, j, Bits) = Then(Sda(1), z)
  BY <1>1, AcknowledgesOps, MoreToDo
<1>3. CASE SlaveMoves
  <2>1. BusTypes' /\ MasterRests /\ Alike(slave', slave) /\ slave'.bits = slave.bits
    BY <1>1, <1>3 DEF SlaveMoves, Stretched, Freed, Sampling
  <2>2. ~Off /\ ~(lines.scl = 1 /\ slave.scl = 1)
    BY <1>3 DEF SlaveMoves, Stretched, Freed
  <2>3. Talks(j)'
    BY <1>1, <2>1, TalksOn DEF MasterRests, Alike
  <2>4. /\ slave'.role = "ack" /\ slave'.next = Expected(j) /\ slave'.sda = 0 /\ slave'.bits = sent'[j]
        /\ slave'.heard = Prefix(sent', j)
    BY <1>1, <2>1, <2>2 DEF MasterRests, Alike
  <2>5. /\ ops' = ops /\ lines' = lines /\ sent' = sent
    BY <2>1 DEF MasterRests
  <2>6. SlaveAcknowledges(n, j)'
    BY <1>1, <2>2, <2>3, <2>4, <2>5 DEF SlaveAcknowledges
  <2> QED
    BY <2>1, <2>6
<1>4. CASE Stretch \/ SlaveFrees
  BY <1>3, <1>4, SlaveMovesEither
<1>5. CASE ops = ByteSent(sent, n, j, Bits) /\ lines.scl = 0 /\ ~Stretch /\ ~SlaveFrees
  <2>1. /\ BusTypes' /\ ops' = z /\ UNCHANGED <<outcome, byte, read, sent>>
        /\ lines'.sda = 1 /\ lines'.scl = 0 /\ slave' = slave
    <3>1. ops = Then(Sda(1), z)
      BY <1>2, <1>5
    <3> HIDE DEF z
    <3> QED
      BY <1>0, <1>2, <1>5, <3>1, SdaStep DEF Drives, Passes
  <2>2. Talks(j)'
    BY <1>1, <2>1, TalksOn
  <2>3. SlaveAcknowledges(n, j)'
    BY <1>1, <2>1, <2>2 DEF SlaveAcknowledges
  <2> QED
    BY <2>1, <2>3
<1>6. CASE ops = z /\ lines.scl = 0 /\ lines.sda = 1 /\ ~Stretch /\ ~SlaveFrees
  <2>1. /\ BusTypes' /\ ops' = y /\ UNCHANGED <<outcome, byte, read, sent>>
        /\ lines'.sda = 1 /\ lines'.scl = 1 /\ slave' = slave
    <3> HIDE DEF y
    <3> QED
      BY <1>1, <1>2, <1>6, SclUpStep DEF Drives, Passes
  <2>2. Talks(j)'
    BY <1>1, <2>1, TalksOn
  <2>3. SlaveAcknowledges(n, j)'
    BY <1>1, <2>1, <2>2 DEF SlaveAcknowledges
  <2> QED
    BY <2>1, <2>3
<1>7. CASE ops = y /\ lines.scl = 1 /\ lines.sda = 1 /\ ~Stretch /\ ~SlaveFrees
  <2>1. /\ BusTypes' /\ slave' = slave /\ lines' = lines
        /\ GaveUp \/ (slave.scl = 1 /\ Passes(x) /\ outcome' = outcome)
    <3> HIDE DEF x
    <3> QED
      BY <1>2, <1>7, WaitStep
  <2>2. CASE GaveUp
    BY <2>1, <2>2, GivingUpStops
  <2>3. CASE slave.scl = 1 /\ Passes(x) /\ outcome' = outcome
    <3>1. Talks(j)'
      BY <1>1, <2>1, <2>3, TalksOn DEF Passes
    <3>2. SlaveAcknowledges(n, j)'
      BY <1>1, <1>7, <2>1, <2>3, <3>1 DEF SlaveAcknowledges, Passes
    <3> QED
      BY <2>1, <3>2
  <2> QED
    BY <2>1, <2>2, <2>3
<1>8. CASE ops = x /\ lines.scl = 1 /\ lines.sda = 1 /\ slave.scl = 1 /\ ~Stretch /\ ~SlaveFrees
  <2>1. /\ BusTypes' /\ slave' = slave /\ lines' = lines
        /\ Sampled = 0 => Passes(w) /\ outcome' = outcome
        /\ Sampled # 0 => Passes(Then(Scl(0), stop)) /\ outcome' = "failed"
    <3> HIDE DEF w
    <3> QED
      BY <1>2, <1>8, AckStep
  <2>2. Sampled = slave.sda
    BY <1>1, <1>8, LowFacts DEF Sampled
  <2>3. CASE slave.sda = 0
    <3>1. Passes(w) /\ outcome' = outcome /\ Acks
      BY <1>1, <2>1, <2>2, <2>3
    <3>2. Talks(j)'
      BY <1>1, <2>1, <3>1, TalksOn DEF Passes
    <3>3. SlaveAcknowledges(n, j)'
      BY <1>1, <1>8, <2>1, <3>1, <3>2 DEF SlaveAcknowledges, Passes
    <3> QED
      BY <2>1, <3>3
  <2>4. CASE slave.sda # 0
    <3>1. BusStops'
      BY <2>1, <2>2, <2>4 DEF BusStops, Passes
    <3> QED
      BY <2>1, <3>1
  <2> QED
    BY <2>3, <2>4
<1>9. CASE ops = w /\ Acks /\ lines.scl = 1 /\ lines.sda = 1 /\ slave.scl = 1 /\ ~Stretch /\ ~SlaveFrees
  <2>1. /\ BusTypes' /\ ops' = r /\ UNCHANGED <<outcome, byte, read, sent>>
        /\ lines'.scl = 0 /\ slave'.scl = 1 /\ slave' \in Falls(slave)
    <3> HIDE DEF r
    <3> QED
      BY <1>2, <1>9, SclDownStep DEF Drives, Passes
  <2> QED
    BY <1>1, <1>9, <2>1, AcknowledgedStep
<1> QED
  BY <1>4, <1>5, <1>6, <1>7, <1>8, <1>9 DEF SlaveAcknowledges

LEMMA TellsStep == ASSUME BusTypes, NEW more \in 0..1, NEW k \in 0..Bits, NEW d \in BitString, SlaveTells(more, k, d), BitbangNext
  PROVE BusTypes' /\ (BusStops \/ SlaveWaits(more) \/ \E m \in 0..Bits : SlaveTells(more, m, d))'
<1> DEFINE next == Reads(k + 1, more)
           w == Then(Scl(0), next) x == Then(Do("bit"), w) y == Then(Do("wait"), x) z == Then(Scl(1), y)
<1>0. 0 \in 0..1 /\ 1 \in 0..1 /\ Bits \in Nat /\ Bits >= 2 /\ k \in 0..(Bits - 1) /\ k < Bits /\ k + 1 \in 0..Bits
  BY BitbangAssumption DEF SlaveTells
<1>1. /\ outcome = "running" /\ slave.heard = sent /\ slave.role = "tell" /\ slave.bits = Suffix(d, k) /\ slave.sda = d[k + 1]
      /\ ~Sampling /\ slave \in SlaveStates
      /\ lines.sda \in 0..1 /\ lines.scl \in 0..1 /\ slave.scl \in 0..1 /\ slave.sda \in 0..1
  BY SlaveFields, LinesFacts DEF SlaveTells, BusTypes, Sampling
<1>2. /\ next \in Seq(Op) /\ w \in Seq(Op) /\ x \in Seq(Op) /\ y \in Seq(Op) /\ z \in Seq(Op)
      /\ w # <<>> /\ x # <<>> /\ y # <<>> /\ z # <<>> /\ next # <<>>
      /\ Reads(k, more) = Then(Sda(1), z) /\ Reads(k, more) \in Seq(Op) /\ Reads(k, more) # <<>>
  BY <1>0, TellsOps, MoreToDo
<1>3. CASE SlaveMoves
  <2>1. BusTypes' /\ MasterRests /\ Alike(slave', slave) /\ slave'.bits = slave.bits
    BY <1>1, <1>3 DEF SlaveMoves, Stretched, Freed, Sampling
  <2>2. ~(lines.scl = 1 /\ slave.scl = 1)
    BY <1>3 DEF SlaveMoves, Stretched, Freed
  <2>3. SlaveTells(more, k, d)'
    BY <2>1, <2>2 DEF SlaveTells, MasterRests, Alike
  <2> QED
    BY <2>1, <2>3
<1>4. CASE Stretch \/ SlaveFrees
  BY <1>3, <1>4, SlaveMovesEither
<1>5. CASE /\ slave.told = Append(read, d) /\ byte = Prefix(d, k) /\ ops = Then(Sda(1), Reads(0, more)) /\ k = 0 /\ lines.scl = 0
           /\ ~Stretch /\ ~SlaveFrees
  <2>1. /\ BusTypes' /\ ops' = Reads(k, more) /\ UNCHANGED <<outcome, byte, read, sent>>
        /\ lines'.scl = 0 /\ slave' = slave
    <3> DEFINE r == Reads(k, more)
    <3>1. ops = Then(Sda(1), r) /\ r \in Seq(Op) /\ r # <<>>
      BY <1>2, <1>5
    <3> HIDE DEF r
    <3> QED
      BY <1>0, <1>5, <3>1, SdaStep DEF Drives, Passes, r
  <2>2. SlaveTells(more, k, d)'
    BY <1>0, <1>1, <1>5, <2>1 DEF SlaveTells
  <2> QED
    BY <2>1, <2>2
<1>6. CASE /\ slave.told = Append(read, d) /\ byte = Prefix(d, k) /\ ops = Reads(k, more) /\ lines.scl = 0
           /\ ~Stretch /\ ~SlaveFrees
  <2>1. /\ BusTypes' /\ ops' = z /\ UNCHANGED <<outcome, byte, read, sent>>
        /\ lines'.scl = 0 /\ lines'.sda = 1 /\ slave' = slave
    <3>1. ops = Then(Sda(1), z)
      BY <1>2, <1>6
    <3> HIDE DEF z
    <3> QED
      BY <1>0, <1>2, <1>6, <3>1, SdaStep DEF Drives, Passes
  <2>2. SlaveTells(more, k, d)'
    BY <1>0, <1>1, <1>6, <2>1 DEF SlaveTells
  <2> QED
    BY <2>1, <2>2
<1>7. CASE /\ slave.told = Append(read, d) /\ byte = Prefix(d, k) /\ ops = z /\ lines.scl = 0 /\ lines.sda = 1
           /\ ~Stretch /\ ~SlaveFrees
  <2>1. /\ BusTypes' /\ ops' = y /\ UNCHANGED <<outcome, byte, read, sent>>
        /\ lines'.scl = 1 /\ lines'.sda = 1 /\ slave' = slave
    <3> HIDE DEF y
    <3> QED
      BY <1>1, <1>2, <1>7, SclUpStep DEF Drives, Passes
  <2>2. SlaveTells(more, k, d)'
    BY <1>0, <1>1, <1>7, <2>1 DEF SlaveTells
  <2> QED
    BY <2>1, <2>2
<1>8. CASE /\ slave.told = Append(read, d) /\ byte = Prefix(d, k) /\ ops = y /\ lines.scl = 1 /\ lines.sda = 1
           /\ ~Stretch /\ ~SlaveFrees
  <2>1. /\ BusTypes' /\ slave' = slave /\ lines' = lines
        /\ GaveUp \/ (slave.scl = 1 /\ Passes(x) /\ outcome' = outcome)
    <3> HIDE DEF x
    <3> QED
      BY <1>2, <1>8, WaitStep
  <2>2. CASE GaveUp
    BY <2>1, <2>2, GivingUpStops
  <2>3. CASE slave.scl = 1 /\ Passes(x) /\ outcome' = outcome
    <3>1. SlaveTells(more, k, d)'
      BY <1>0, <1>1, <1>8, <2>1, <2>3 DEF SlaveTells, Passes
    <3> QED
      BY <2>1, <3>1
  <2> QED
    BY <2>1, <2>2, <2>3
<1>9. CASE /\ slave.told = Append(read, d) /\ byte = Prefix(d, k) /\ ops = x /\ lines.scl = 1 /\ lines.sda = 1 /\ slave.scl = 1
           /\ ~Stretch /\ ~SlaveFrees
  <2>1. /\ BusTypes' /\ slave' = slave /\ lines' = lines /\ ops' = w /\ sent' = sent /\ outcome' = outcome
        /\ Len(byte) + 1 = Bits => read' = Append(read, Append(byte, Sampled)) /\ byte' = <<>>
        /\ Len(byte) + 1 # Bits => read' = read /\ byte' = Append(byte, Sampled)
    <3> HIDE DEF w
    <3> QED
      BY <1>2, <1>9, BitStep
  <2>2. Sampled = d[k + 1]
    BY <1>1, <1>9, LowFacts DEF Sampled
  <2>3. Append(byte, Sampled) = Prefix(d, k + 1) /\ Len(byte) = k
    BY <1>0, <1>9, <2>2, BitsSent
  <2>4. /\ k + 1 < Bits => read' = read /\ byte' = Prefix(d, k + 1)
        /\ k + 1 = Bits => read' = Append(read, d) /\ byte' = <<>>
    <3>1. CASE k + 1 < Bits
      BY <1>0, <2>1, <2>3, <3>1
    <3>2. CASE k + 1 = Bits
      <4>1. Prefix(d, k + 1) = d
        BY <3>2, BitsSent
      <4> QED
        BY <1>0, <2>1, <2>3, <3>2, <4>1
    <3> QED
      BY <3>1, <3>2
  <2>5. SlaveTells(more, k, d)'
    BY <1>0, <1>1, <1>9, <2>1, <2>4 DEF SlaveTells
  <2> QED
    BY <2>1, <2>5
<1>10. CASE /\ ops = w /\ lines.scl = 1 /\ lines.sda = 1 /\ slave.scl = 1
            /\ k + 1 < Bits => slave.told = Append(read, d) /\ byte = Prefix(d, k + 1)
            /\ k + 1 = Bits => slave.told = read /\ byte = <<>>
            /\ ~Stretch /\ ~SlaveFrees
  <2>1. /\ BusTypes' /\ ops' = next /\ UNCHANGED <<outcome, byte, read, sent>>
        /\ lines'.scl = 0 /\ slave' \in Falls(slave)
    <3> HIDE DEF next
    <3> QED
      BY <1>2, <1>10, SclDownStep DEF Drives, Passes
  <2>2. Len(slave.bits) = Bits - k
    BY <1>0, <1>1, BitsToCome
  <2>3. CASE k + 1 < Bits
    <3>1. /\ slave'.role = "tell" /\ slave'.bits = Tail(slave.bits) /\ slave'.sda = slave.bits[2]
          /\ slave'.heard = slave.heard /\ slave'.told = slave.told
      <4>1. Len(slave.bits) > 1
        BY <1>0, <2>2, <2>3
      <4> QED
        BY <1>1, <2>1, <4>1, FallsFacts
    <3>2. Tail(slave.bits) = Suffix(d, k + 1) /\ slave.bits[2] = d[(k + 1) + 1]
      <4>1. k \in 0..(Bits - 2) /\ (k + 1) + 1 = k + 2
        BY <1>0, <2>3
      <4> QED
        BY <1>1, <4>1, BitsToCome
    <3>3. SlaveTells(more, k + 1, d)'
      BY <1>0, <1>1, <1>10, <2>1, <2>3, <3>1, <3>2 DEF SlaveTells
    <3> QED
      BY <1>0, <2>1, <3>3
  <2>4. CASE k + 1 = Bits
    <3>1. /\ slave'.role = "told" /\ slave'.bits = <<>> /\ slave'.sda = 1
          /\ slave'.heard = slave.heard /\ slave'.told = slave.told
      <4>1. Len(slave.bits) = 1
        BY <1>0, <2>2, <2>4
      <4> QED
        BY <1>1, <2>1, <4>1, FallsFacts
    <3>2. SlaveWaits(more)'
      BY <1>1, <1>10, <2>1, <2>4, <3>1 DEF SlaveWaits
    <3> QED
      BY <2>1, <3>2
  <2> QED
    BY <1>0, <2>3, <2>4
<1> QED
  BY <1>4, <1>5, <1>6, <1>7, <1>8, <1>9, <1>10 DEF SlaveTells

LEMMA WaitsStep == ASSUME BusTypes, NEW more \in 0..1, SlaveWaits(more), BitbangNext
  PROVE BusTypes' /\ (BusStops \/ SlaveWaits(more) \/ \E d \in BitString : SlaveTells(0, 0, d))'
<1> DEFINE r == ReadRest(more)
           w == Then(Sda(1), r) x == Then(Scl(0), w) y == Then(Do("wait"), x) z == Then(Scl(1), y)
           answer == Answer(more)
<1>0. 0 \in 0..1 /\ 1 \in 0..1 /\ Bits \in Nat /\ Bits >= 2
  BY BitbangAssumption
<1>1. /\ outcome = "running" /\ slave.heard = sent /\ slave.told = read /\ byte = <<>>
      /\ slave.role = "told" /\ slave.sda = 1 /\ Sampling /\ slave \in SlaveStates
      /\ lines.sda \in 0..1 /\ lines.scl \in 0..1 /\ slave.scl \in 0..1
  BY SlaveFields, LinesFacts DEF SlaveWaits, BusTypes, Sampling
<1>2. /\ r \in Seq(Op) /\ w \in Seq(Op) /\ x \in Seq(Op) /\ y \in Seq(Op) /\ z \in Seq(Op)
      /\ w # <<>> /\ x # <<>> /\ y # <<>> /\ z # <<>>
      /\ Reads(Bits, more) = Then(Sda(answer), z) /\ answer \in 0..1
  BY WaitsOps
<1>a. Append(<<>>, answer) = <<answer>>
  OBVIOUS
<1>3. CASE lines.scl = 0 /\ slave.bits = <<>> /\ (ops = Reads(Bits, more) \/ (ops = z /\ lines.sda = answer))
  <2>1. CASE SlaveMoves
    <3>1. BusTypes' /\ MasterRests /\ Alike(slave', slave) /\ slave'.bits = slave.bits
      BY <1>1, <1>3, <2>1 DEF SlaveMoves, Stretched, Freed
    <3>2. SlaveWaits(more)'
      BY <1>1, <1>3, <3>1 DEF SlaveWaits, MasterRests, Alike
    <3> QED
      BY <3>1, <3>2
  <2>2. CASE Stretch \/ SlaveFrees
    BY <2>1, <2>2, SlaveMovesEither
  <2>3. CASE ops = Reads(Bits, more) /\ ~Stretch /\ ~SlaveFrees
    <3>1. /\ BusTypes' /\ ops' = z /\ UNCHANGED <<outcome, byte, read, sent>>
          /\ lines'.scl = 0 /\ lines'.sda = answer /\ slave' = slave
      <4>1. ops = Then(Sda(answer), z)
        BY <1>2, <2>3
      <4> HIDE DEF z, answer
      <4> QED
        BY <1>2, <1>3, <2>3, <4>1, SdaStep DEF Drives, Passes
    <3>2. SlaveWaits(more)'
      BY <1>1, <1>3, <3>1 DEF SlaveWaits
    <3> QED
      BY <3>1, <3>2
  <2>4. CASE ops = z /\ lines.sda = answer /\ ~Stretch /\ ~SlaveFrees
    <3>1. /\ BusTypes' /\ ops' = y /\ UNCHANGED <<outcome, byte, read, sent>>
          /\ lines'.scl = 1 /\ lines'.sda = answer /\ Alike(slave', slave) /\ slave'.scl = slave.scl
          /\ slave.scl = 1 => slave'.bits = Append(slave.bits, Sampled)
          /\ slave.scl = 0 => slave'.bits = slave.bits
      <4> HIDE DEF y, answer
      <4> QED
        BY <1>1, <1>2, <1>3, <2>4, SclUpStep DEF Drives, Passes
    <3>2. Sampled = answer
      BY <1>1, <2>4, LowFacts DEF Sampled
    <3>3. /\ slave'.scl = 1 => slave'.bits = <<answer>>
          /\ slave'.scl = 0 => slave'.bits = <<>>
      BY <1>3, <1>a, <3>1, <3>2
    <3>4. SlaveWaits(more)'
      BY <1>1, <3>1, <3>3 DEF SlaveWaits, Alike
    <3> QED
      BY <3>1, <3>4
  <2> QED
    BY <1>3, <2>2, <2>3, <2>4
<1>4. CASE /\ ops = y /\ lines.scl = 1 /\ lines.sda = answer
           /\ slave.scl = 0 => slave.bits = <<>>
           /\ slave.scl = 1 => slave.bits = <<answer>>
  <2>1. CASE SlaveFrees
    <3>1. BusTypes' /\ MasterRests /\ Alike(slave', slave) /\ slave'.scl = 1 /\ slave'.bits = Append(<<>>, Sampled)
      BY <1>1, <1>4, <2>1 DEF SlaveFrees, Freed
    <3>2. Sampled = answer
      BY <1>1, <1>4, LowFacts DEF Sampled
    <3>3. SlaveWaits(more)'
      BY <1>1, <1>4, <1>a, <3>1, <3>2 DEF SlaveWaits, MasterRests, Alike
    <3> QED
      BY <3>1, <3>3
  <2>2. ~Stretch
    BY <1>4 DEF Stretch
  <2>3. CASE ~SlaveFrees
    <3>1. /\ BusTypes' /\ slave' = slave /\ lines' = lines
          /\ GaveUp \/ (slave.scl = 1 /\ Passes(x) /\ outcome' = outcome)
      <4> HIDE DEF x
      <4> QED
        BY <1>2, <1>4, <2>2, <2>3, WaitStep
    <3>2. CASE GaveUp
      BY <3>1, <3>2, GivingUpStops
    <3>3. CASE slave.scl = 1 /\ Passes(x) /\ outcome' = outcome
      <4>1. SlaveWaits(more)'
        BY <1>1, <1>4, <3>1, <3>3 DEF SlaveWaits, Passes
      <4> QED
        BY <3>1, <4>1
    <3> QED
      BY <3>1, <3>2, <3>3
  <2> QED
    BY <2>1, <2>3
<1>5. CASE ops = x /\ lines.scl = 1 /\ lines.sda = answer /\ slave.scl = 1 /\ slave.bits = <<answer>>
  <2>1. ~Stretch /\ ~SlaveFrees
    BY <1>5 DEF Stretch, SlaveFrees, Freed
  <2>2. /\ BusTypes' /\ ops' = w /\ UNCHANGED <<outcome, byte, read, sent>>
        /\ lines'.scl = 0 /\ slave' \in Falls(slave)
    <3> HIDE DEF w
    <3> QED
      BY <1>2, <1>5, <2>1, SclDownStep DEF Drives, Passes
  <2>3. CASE more = 0
    <3>1. slave.bits # <<0>>
      BY <1>5, <2>3 DEF Answer
    <3>2. slave'.heard = slave.heard /\ slave'.told = slave.told
      BY <1>1, <2>2, <3>1, FallsFacts
    <3>3. BusStops'
      BY <1>1, <2>2, <2>3, <3>2, RestFacts DEF BusStops
    <3> QED
      BY <2>2, <3>3
  <2>4. CASE more = 1
    <3>1. slave.bits = <<0>>
      BY <1>5, <2>4 DEF Answer
    <3>2. PICK d \in BitString : /\ slave'.role = "tell" /\ slave'.bits = d /\ slave'.told = Append(slave.told, d)
                                 /\ slave'.sda = d[1] /\ slave'.heard = slave.heard
      BY <1>1, <2>2, <3>1, FallsFacts
    <3>3. ops' = Then(Sda(1), Reads(0, 0))
      BY <2>2, <2>4, RestFacts
    <3>4. Suffix(d, 0) = d /\ Prefix(d, 0) = <<>> /\ 0 + 1 = 1 /\ 0 < Bits
      BY <1>0, <3>2, BitsToCome, BitsSent
    <3>5. SlaveTells(0, 0, d)'
      BY <1>1, <2>2, <3>2, <3>3, <3>4 DEF SlaveTells
    <3> QED
      BY <2>2, <3>2, <3>5
  <2> QED
    BY <2>3, <2>4
<1> QED
  BY <1>3, <1>4, <1>5 DEF SlaveWaits

LEMMA BitbangInvInit == BitbangInit => BitbangInv
<1> SUFFICES ASSUME BitbangInit PROVE BitbangInv
  OBVIOUS
<1>1. SlaveInit \in SlaveStates
  <2>1. <<>> \in Seq(0..1) /\ <<>> \in Seq(BitString)
    OBVIOUS
  <2> QED
    BY <2>1 DEF SlaveInit, SlaveStates
<1>2. BusTypes
  <2>1. <<>> \in Seq(0..1) /\ <<>> \in Seq(BitString) /\ <<>> \in Seq(Op)
    OBVIOUS
  <2> QED
    BY <1>1, <2>1 DEF BitbangInit, BusTypes
<1>3. BusRests
  BY DEF BitbangInit, BusRests
<1> QED
  BY <1>2, <1>3 DEF BitbangInv, BusPhase

LEMMA BitbangInvNext == ASSUME BitbangInv, BitbangNext PROVE BitbangInv'
<1>0. BusTypes
  BY DEF BitbangInv
<1>1. CASE BusRests
  BY <1>0, <1>1, RestsStep DEF BitbangInv, BusPhase
<1>2. CASE BusStops
  BY <1>0, <1>2, StopsStep DEF BitbangInv, BusPhase
<1>3. CASE \E n \in 1..2, j \in 1..3 : BusStarts(n, j) \/ SlaveAcknowledges(n, j)
  <2>1. PICK n \in 1..2, j \in 1..3 : BusStarts(n, j) \/ SlaveAcknowledges(n, j)
    BY <1>3
  <2>2. /\ BusTypes'
        /\ (\/ BusStarts(n, j) \/ SlaveListens(n, j, 0) \/ BusStops \/ SlaveAcknowledges(n, j) \/ SlaveListens(n, 2, 0)
            \/ BusStarts(n, 3) \/ \E d \in BitString : SlaveTells(n - 1, 0, d))'
    <3>1. CASE BusStarts(n, j)
      BY <1>0, <3>1, StartsStep
    <3>2. CASE SlaveAcknowledges(n, j)
      BY <1>0, <3>2, AcknowledgesStep
    <3> QED
      BY <2>1, <3>1, <3>2
  <2>3. 0 \in 0..Bits /\ n - 1 \in 0..1 /\ 2 \in 1..3 /\ 3 \in 1..3
    BY BitbangAssumption
  <2>4. BusPhase'
    BY <2>2, <2>3 DEF BusPhase
  <2> QED
    BY <2>2, <2>4 DEF BitbangInv
<1>4. CASE \E n \in 1..2, j \in 1..3, k \in 0..Bits : SlaveListens(n, j, k)
  <2>1. PICK n \in 1..2, j \in 1..3, k \in 0..Bits : SlaveListens(n, j, k)
    BY <1>4
  <2>2. BusTypes' /\ (BusStops \/ SlaveAcknowledges(n, j) \/ \E m \in 0..Bits : SlaveListens(n, j, m))'
    BY <1>0, <2>1, ListensStep
  <2>3. BusPhase'
    BY <2>2 DEF BusPhase
  <2> QED
    BY <2>2, <2>3 DEF BitbangInv
<1>5. CASE \E more \in 0..1, k \in 0..Bits, d \in BitString : SlaveTells(more, k, d)
  <2>1. PICK more \in 0..1, k \in 0..Bits, d \in BitString : SlaveTells(more, k, d)
    BY <1>5
  <2>2. BusTypes' /\ (BusStops \/ SlaveWaits(more) \/ \E m \in 0..Bits : SlaveTells(more, m, d))'
    BY <1>0, <2>1, TellsStep
  <2>3. BusPhase'
    BY <2>2 DEF BusPhase
  <2> QED
    BY <2>2, <2>3 DEF BitbangInv
<1>6. CASE \E more \in 0..1 : SlaveWaits(more)
  <2>1. PICK more \in 0..1 : SlaveWaits(more)
    BY <1>6
  <2>2. BusTypes' /\ (BusStops \/ SlaveWaits(more) \/ \E d \in BitString : SlaveTells(0, 0, d))'
    BY <1>0, <2>1, WaitsStep
  <2>3. 0 \in 0..1 /\ 0 \in 0..Bits
    BY BitbangAssumption
  <2>4. BusPhase'
    BY <2>2, <2>3 DEF BusPhase
  <2> QED
    BY <2>2, <2>4 DEF BitbangInv
<1> QED
  BY <1>1, <1>2, <1>3, <1>4, <1>5, <1>6 DEF BitbangInv, BusPhase

LEMMA BitbangInvRests == ASSUME BitbangInv, UNCHANGED bitbangVars PROVE BitbangInv'
<1>1. UNCHANGED <<ops, lines, byte, outcome, sent, read, slave>>
  BY DEF bitbangVars
<1>2. BusTypes'
  BY <1>1 DEF BitbangInv, BusTypes
<1>3. CASE BusRests
  <2>1. BusRests'
    BY <1>1, <1>3 DEF BusRests
  <2> QED
    BY <1>2, <2>1 DEF BitbangInv, BusPhase
<1>4. CASE BusStops
  <2>1. BusStops'
    BY <1>1, <1>4 DEF BusStops
  <2> QED
    BY <1>2, <2>1 DEF BitbangInv, BusPhase
<1>5. ASSUME NEW n \in 1..2, NEW j \in 1..3, BusStarts(n, j) PROVE BusPhase'
  <2>1. BusStarts(n, j)'
    BY <1>1, <1>5 DEF BusStarts, Talks
  <2> QED
    BY <2>1 DEF BusPhase
<1>6. ASSUME NEW n \in 1..2, NEW j \in 1..3, SlaveAcknowledges(n, j) PROVE BusPhase'
  <2>1. SlaveAcknowledges(n, j)'
    BY <1>1, <1>6 DEF SlaveAcknowledges, Talks
  <2> QED
    BY <2>1 DEF BusPhase
<1>7. ASSUME NEW n \in 1..2, NEW j \in 1..3, NEW k \in 0..Bits, SlaveListens(n, j, k) PROVE BusPhase'
  <2>1. SlaveListens(n, j, k)'
    BY <1>1, <1>7 DEF SlaveListens, Talks
  <2> QED
    BY <2>1 DEF BusPhase
<1>8. ASSUME NEW more \in 0..1, NEW k \in 0..Bits, NEW d \in BitString, SlaveTells(more, k, d) PROVE BusPhase'
  <2>1. SlaveTells(more, k, d)'
    BY <1>1, <1>8 DEF SlaveTells
  <2> QED
    BY <2>1 DEF BusPhase
<1>9. ASSUME NEW more \in 0..1, SlaveWaits(more) PROVE BusPhase'
  <2>1. SlaveWaits(more)'
    BY <1>1, <1>9 DEF SlaveWaits
  <2> QED
    BY <2>1 DEF BusPhase
<1> QED
  BY <1>2, <1>3, <1>4, <1>5, <1>6, <1>7, <1>8, <1>9 DEF BitbangInv, BusPhase

LEMMA BitbangInvImplies == BitbangInv => BitbangTypeOK /\ BytesExact
<1> SUFFICES ASSUME BitbangInv PROVE BitbangTypeOK /\ BytesExact
  OBVIOUS
<1>1. BitbangTypeOK
  BY SlaveFields DEF BitbangInv, BusTypes, BitbangTypeOK
<1>2. ASSUME ops = <<>> PROVE BusRests
  <2>1. CASE BusStops
    <3>1. Then(Scl(0), stop) # <<>> /\ Then(Sda(1), stop) # <<>>
      <4>1. 0 \in 0..1 /\ 1 \in 0..1 /\ stop \in Seq(Op)
        BY StopOps
      <4> QED
        BY <4>1, ThenTyped
    <3> QED
      BY <1>2, <2>1, <3>1, StopOps DEF BusStops
  <2>2. ~BusPhase \/ BusRests \/ BusStops
    <3>1. ASSUME NEW n \in 1..2, NEW j \in 1..3, BusStarts(n, j) PROVE FALSE
      BY <1>2, <3>1, TalksFacts, StartsOps DEF BusStarts
    <3>2. ASSUME NEW n \in 1..2, NEW j \in 1..3, SlaveAcknowledges(n, j) PROVE FALSE
      <4> DEFINE z == Then(Scl(1), Then(Do("wait"), Then(Do("ack"), Then(Scl(0), AfterByte(sent, n, j)))))
      <4>1. /\ z \in Seq(Op) /\ z # <<>> /\ ByteSent(sent, n, j, Bits) = Then(Sda(1), z)
            /\ Then(Do("wait"), Then(Do("ack"), Then(Scl(0), AfterByte(sent, n, j)))) # <<>>
            /\ Then(Do("ack"), Then(Scl(0), AfterByte(sent, n, j))) # <<>> /\ Then(Scl(0), AfterByte(sent, n, j)) # <<>>
        BY <3>2, TalksFacts, AcknowledgesOps DEF SlaveAcknowledges
      <4>2. ByteSent(sent, n, j, Bits) # <<>>
        <5> HIDE DEF z
        <5>1. 1 \in 0..1
          OBVIOUS
        <5> QED
          BY <4>1, <5>1, ThenTyped
      <4> QED
        BY <1>2, <3>2, <4>1, <4>2 DEF SlaveAcknowledges
    <3>3. ASSUME NEW n \in 1..2, NEW j \in 1..3, NEW k \in 0..Bits, SlaveListens(n, j, k) PROVE FALSE
      <4>0. Bits \in Nat /\ Bits >= 2 /\ sent \in Transmissions /\ j \in 1..Len(sent)
        BY <3>3, BitbangAssumption, TalksFacts DEF SlaveListens
      <4>1. ASSUME k < Bits
            PROVE /\ Then(Scl(1), Then(Do("wait"), Then(Scl(0), ByteSent(sent, n, j, k + 1)))) # <<>>
                  /\ Then(Do("wait"), Then(Scl(0), ByteSent(sent, n, j, k + 1))) # <<>>
                  /\ ByteSent(sent, n, j, k) # <<>>
        <5> DEFINE c == Then(Scl(1), Then(Do("wait"), Then(Scl(0), ByteSent(sent, n, j, k + 1)))) v == sent[j][k + 1]
        <5>1. k \in 0..(Bits - 1)
          BY <4>0, <4>1
        <5>2. /\ c # <<>> /\ Then(Do("wait"), Then(Scl(0), ByteSent(sent, n, j, k + 1))) # <<>>
              /\ ByteSent(sent, n, j, k) = Then(Sda(v), c) /\ v \in 0..1 /\ c \in Seq(Op)
          BY <4>0, <5>1, ListensOps
        <5>3. Then(Sda(v), c) # <<>>
          <6> HIDE DEF c, v
          <6> QED
            BY <5>2, ThenTyped
        <5> QED
          BY <5>2, <5>3
      <4>2. ByteSent(sent, n, j, k) \in Seq(Op)
        BY <4>0, ByteFacts
      <4>3. Then(Scl(0), ByteSent(sent, n, j, k)) # <<>>
        <5>1. 0 \in 0..1
          OBVIOUS
        <5> QED
          BY <4>2, <5>1, ThenTyped
      <4> QED
        BY <1>2, <3>3, <4>1, <4>3 DEF SlaveListens
    <3>4. ASSUME NEW more \in 0..1, NEW k \in 0..Bits, NEW d \in BitString, SlaveTells(more, k, d) PROVE FALSE
      <4>1. k \in 0..(Bits - 1) /\ 0 \in 0..Bits /\ 1 \in 0..1
        BY <3>4, BitbangAssumption DEF SlaveTells
      <4>2. Then(Sda(1), Reads(0, more)) # <<>>
        BY <4>1, MoreToDo, ThenTyped
      <4> QED
        BY <1>2, <3>4, <4>1, <4>2, TellsOps DEF SlaveTells
    <3>5. ASSUME NEW more \in 0..1, SlaveWaits(more) PROVE FALSE
      BY <1>2, <3>5, WaitsOps DEF SlaveWaits
    <3> QED
      BY <3>1, <3>2, <3>3, <3>4, <3>5 DEF BusPhase
  <2> QED
    BY <2>1, <2>2 DEF BitbangInv
<1>3. BytesExact
  BY <1>2 DEF BytesExact, BusRests
<1> QED
  BY <1>1, <1>3

--------
(* A device and its parts. *)

\* Each part keeps what it has, whether it acts or rests.
HardwareInv == BoardsInv /\ OutputsInv
LifeInv == RegistryInv /\ PublishingInv /\ BootsInv /\ StatusInv
ProbingInv == ProbesInv /\ BitbangInv /\ ToadInv
ValuesInv ==
  /\ subject = "ulp" => UlpInv
  /\ subject = "gpio" => GpioInv
  /\ DebounceInv /\ (subject = "levels" => LevelsInv) /\ BatteryInv /\ GaugeInv
PlatformInv == subject \in Subjects /\ HardwareInv /\ LifeInv /\ ProbingInv /\ ValuesInv

LEMMA PlatformInvInit == PlatformInit => PlatformInv
<1> SUFFICES ASSUME PlatformInit PROVE PlatformInv
  OBVIOUS
<1>1. /\ subject \in Subjects /\ BoardsInit /\ RegistryInit /\ PublishingInit /\ BootsInit /\ StatusInit /\ OutputsInit
      /\ PulseInit /\ ProbesInit /\ BitbangInit /\ ToadInit /\ ReadingsInit /\ BatteryInit /\ GaugeInit
  BY DEF PlatformInit
<1>2. HardwareInv /\ LifeInv
  BY <1>1, BoardsInvInit, OutputsInvInit, RegistryInvInit, PublishingInvInit, BootsInvInit, StatusInvInit
     DEF HardwareInv, LifeInv
<1>3. ProbingInv
  BY <1>1, ProbesInvInit, BitbangInvInit, ToadInvInit DEF ProbingInv
<1>4. ValuesInv
  BY <1>1, UlpInvInit, GpioInvInit, DebounceInvInit, LevelsInvInit, BatteryInvInit, GaugeInvInit DEF ValuesInv
<1> QED
  BY <1>1, <1>2, <1>3, <1>4 DEF PlatformInv

LEMMA HardwareRests == HardwareInv /\ UNCHANGED hardwareVars => HardwareInv'
<1> SUFFICES ASSUME HardwareInv, UNCHANGED hardwareVars PROVE HardwareInv'
  OBVIOUS
<1>1. UNCHANGED boardVars /\ UNCHANGED outputVars
  BY DEF hardwareVars
<1> QED
  BY <1>1, BoardsInvRests, OutputsInvRests DEF HardwareInv

LEMMA LifeRests == LifeInv /\ UNCHANGED lifeVars => LifeInv'
<1> SUFFICES ASSUME LifeInv, UNCHANGED lifeVars PROVE LifeInv'
  OBVIOUS
<1>1. UNCHANGED registryVars /\ UNCHANGED publishingVars /\ UNCHANGED bootVars /\ UNCHANGED statusVars
  BY DEF lifeVars
<1> QED
  BY <1>1, RegistryInvRests, PublishingInvRests, BootsInvRests, StatusInvRests DEF LifeInv

LEMMA ProbingRests == ProbingInv /\ UNCHANGED probingVars => ProbingInv'
<1> SUFFICES ASSUME ProbingInv, UNCHANGED probingVars PROVE ProbingInv'
  OBVIOUS
<1>1. UNCHANGED probeVars /\ UNCHANGED bitbangVars /\ UNCHANGED toadVars
  BY DEF probingVars
<1> QED
  BY <1>1, ProbesInvRests, BitbangInvRests, ToadInvRests DEF ProbingInv

LEMMA ValuesRest == ValuesInv /\ UNCHANGED <<valueVars, subject>> => ValuesInv'
<1> SUFFICES ASSUME ValuesInv, UNCHANGED <<valueVars, subject>> PROVE ValuesInv'
  OBVIOUS
<1>1. UNCHANGED pulseVars /\ UNCHANGED readingVars /\ UNCHANGED batteryVars /\ UNCHANGED gaugeVars /\ UNCHANGED subject
  BY DEF valueVars
<1>2. (subject' = "ulp" => UlpInv') /\ (subject' = "gpio" => GpioInv')
  BY <1>1, PulseRests DEF ValuesInv
<1>3. DebounceInv' /\ (subject' = "levels" => LevelsInv') /\ BatteryInv' /\ GaugeInv'
  BY <1>1, DebounceInvRests, LevelsInvRests, BatteryInvRests, GaugeInvRests DEF ValuesInv
<1> QED
  BY <1>2, <1>3 DEF ValuesInv

LEMMA HardwareKeeps == HardwareInv /\ HardwareActs => HardwareInv'
<1> SUFFICES ASSUME HardwareInv, HardwareActs PROVE HardwareInv'
  OBVIOUS
<1>1. BoardsInv'
  BY BoardsInvNext, BoardsInvRests DEF HardwareInv, HardwareActs
<1>2. OutputsInv'
  BY OutputsInvNext, OutputsInvRests DEF HardwareInv, HardwareActs
<1> QED
  BY <1>1, <1>2 DEF HardwareInv

LEMMA LifeKeeps == LifeInv /\ LifeActs => LifeInv'
<1> SUFFICES ASSUME LifeInv, LifeActs PROVE LifeInv'
  OBVIOUS
<1>1. RegistryInv'
  BY RegistryInvNext, RegistryInvRests DEF LifeInv, LifeActs
<1>2. PublishingInv'
  BY PublishingInvNext, PublishingInvRests DEF LifeInv, LifeActs
<1>3. BootsInv'
  BY BootsInvNext, BootsInvRests DEF LifeInv, LifeActs
<1>4. StatusInv'
  BY StatusInvNext, StatusInvRests DEF LifeInv, LifeActs
<1> QED
  BY <1>1, <1>2, <1>3, <1>4 DEF LifeInv

LEMMA ProbingKeeps == ProbingInv /\ ProbesAct => ProbingInv'
<1> SUFFICES ASSUME ProbingInv, ProbesAct PROVE ProbingInv'
  OBVIOUS
<1>1. ProbesInv'
  BY ProbesInvNext, ProbesInvRests DEF ProbingInv, ProbesAct
<1>2. ToadInv'
  BY ToadInvNext, ToadInvRests DEF ProbingInv, ProbesAct
<1>3. BitbangInv'
  BY BitbangInvNext, BitbangInvRests DEF ProbingInv, ProbesAct
<1> QED
  BY <1>1, <1>2, <1>3 DEF ProbingInv

LEMMA ValuesKeep == ValuesInv /\ ValuesAct => ValuesInv'
<1> SUFFICES ASSUME ValuesInv, ValuesAct PROVE ValuesInv'
  OBVIOUS
<1>0. subject' = subject
  BY DEF ValuesAct
<1>1. DebounceInv'
  BY DebounceInvNext, DebounceInvRecords, DebounceInvRests DEF ValuesInv, ValuesAct
<1>2. BatteryInv'
  BY BatteryInvNext, BatteryInvRests DEF ValuesInv, ValuesAct
<1>3. GaugeInv'
  BY GaugeInvNext, GaugeInvRests DEF ValuesInv, ValuesAct
<1>4. subject = "ulp" => UlpInv'
  BY UlpInvNext DEF ValuesInv, ValuesAct
<1>5. subject = "gpio" => GpioInv'
  BY GpioInvNext DEF ValuesInv, ValuesAct
<1>6. subject = "levels" => LevelsInv'
  BY LevelsInvNext DEF ValuesInv, ValuesAct
<1> QED
  BY <1>0, <1>1, <1>2, <1>3, <1>4, <1>5, <1>6 DEF ValuesInv

LEMMA PlatformInvNext == PlatformInv /\ [PlatformNext]_platformVars => PlatformInv'
<1> SUFFICES ASSUME PlatformInv, [PlatformNext]_platformVars PROVE PlatformInv'
  OBVIOUS
<1>0. subject \in Subjects /\ HardwareInv /\ LifeInv /\ ProbingInv /\ ValuesInv
  BY DEF PlatformInv
<1>1. CASE HardwareActs
  <2>1. UNCHANGED lifeVars /\ UNCHANGED probingVars /\ UNCHANGED valueVars /\ UNCHANGED subject
    BY <1>1 DEF HardwareActs
  <2> QED
    BY <1>0, <1>1, <2>1, HardwareKeeps, LifeRests, ProbingRests, ValuesRest DEF PlatformInv
<1>2. CASE LifeActs
  <2>1. UNCHANGED hardwareVars /\ UNCHANGED probingVars /\ UNCHANGED valueVars /\ UNCHANGED subject
    BY <1>2 DEF LifeActs
  <2> QED
    BY <1>0, <1>2, <2>1, HardwareRests, LifeKeeps, ProbingRests, ValuesRest DEF PlatformInv
<1>3. CASE ProbesAct
  <2>1. UNCHANGED hardwareVars /\ UNCHANGED lifeVars /\ UNCHANGED valueVars /\ UNCHANGED subject
    BY <1>3 DEF ProbesAct
  <2> QED
    BY <1>0, <1>3, <2>1, HardwareRests, LifeRests, ProbingKeeps, ValuesRest DEF PlatformInv
<1>4. CASE ValuesAct
  <2>1. UNCHANGED hardwareVars /\ UNCHANGED lifeVars /\ UNCHANGED probingVars /\ UNCHANGED subject
    BY <1>4 DEF ValuesAct
  <2> QED
    BY <1>0, <1>4, <2>1, HardwareRests, LifeRests, ProbingRests, ValuesKeep DEF PlatformInv
<1>5. CASE UNCHANGED platformVars
  <2>1. /\ UNCHANGED hardwareVars /\ UNCHANGED lifeVars /\ UNCHANGED probingVars /\ UNCHANGED valueVars
        /\ UNCHANGED subject
    BY <1>5 DEF platformVars
  <2> QED
    BY <1>0, <2>1, HardwareRests, LifeRests, ProbingRests, ValuesRest DEF PlatformInv
<1> QED
  BY <1>1, <1>2, <1>3, <1>4, <1>5 DEF PlatformNext

LEMMA PlatformInvImplies == PlatformInv => PlatformTypeOK /\ HardwareSound /\ LifeSound /\ MeasuredSound
<1> SUFFICES ASSUME PlatformInv PROVE PlatformTypeOK /\ HardwareSound /\ LifeSound /\ MeasuredSound
  OBVIOUS
<1>1. BoardsTypeOK /\ BoardsSound /\ RegistryTypeOK /\ RegistrySound /\ BootsTypeOK /\ BootsSound
  BY BoardsInvImplies, RegistryInvImplies, BootsInvImplies DEF PlatformInv, HardwareInv, LifeInv
<1>2. IndicatorsTypeOK /\ OutputsSound
  BY IndicatorsImplied DEF PlatformInv, HardwareInv, LifeInv
<1>3. /\ ProbesTypeOK /\ OwnAnswers /\ NotBackPowered /\ BridgeAtRest /\ BitbangTypeOK /\ BytesExact
      /\ ToadTypeOK /\ CalibrationWhole /\ MeasuredAnew
  BY ProbesInvImplies, BitbangInvImplies, ToadInvImplies DEF PlatformInv, ProbingInv
<1>4. /\ subject = "ulp" => PulseTypeOK /\ UlpExact
      /\ subject = "gpio" => PulseTypeOK /\ GpioExact
      /\ subject = "levels" => AverageExact
      /\ ReadingsTypeOK /\ Timely /\ BatteryTypeOK /\ LowOnAverage /\ GaugeTypeOK /\ GaugeObeys
  BY UlpInvImplies, GpioInvImplies, DebounceInvImplies, LevelsInvImplies, GaugeInvImplies
     DEF PlatformInv, ValuesInv, BatteryInv
<1>5. PlatformTypeOK
  BY <1>1, <1>2, <1>3, <1>4 DEF PlatformInv, PlatformTypeOK
<1>6. HardwareSound /\ LifeSound
  BY <1>1, <1>2 DEF HardwareSound, LifeSound
<1>7. MeasuredSound
  BY <1>3, <1>4 DEF MeasuredSound, ProbesSound, ValuesSound
<1> QED
  BY <1>5, <1>6, <1>7

\* Every part's variables stay what the code lets them be, for any number of peripherals, boots, pulses,
\* sessions and transactions, any width, window and interval.
THEOREM PlatformTypeCorrect == PlatformSpec => []PlatformTypeOK
<1>1. PlatformInv => PlatformTypeOK
  BY PlatformInvImplies
<1> QED
  BY <1>1, PlatformInvInit, PlatformInvNext, PTL DEF PlatformSpec

\* However many sensors are configured on a board, in whatever order and by whatever name of a pin: a bus has
\* its port to itself, the LP port its pins, and a sensor on the external pins is refused only if the ports
\* are taken by pins that may take them; and what is driven is powered (I2CManager.hpp:170-214,
\* PwmManager.hpp:118-148, BuzzerDriver.hpp:67-91, Drv8833Driver.hpp:111-143, Drv8874Driver.hpp:51-85).
THEOREM HardwareIsSound == PlatformSpec => []HardwareSound
<1>1. PlatformInv => HardwareSound
  BY PlatformInvImplies
<1> QED
  BY <1>1, PlatformInvInit, PlatformInvNext, PTL DEF PlatformSpec

\* Whatever is configured and whatever of it fails: a boot reports what was made, a request is not forgotten, a
\* shutdown is whole, the manifest is of what runs where handlers took turns, the watchdog leaves a device be
\* whose settings have it publish in time, and a boot knows the crashes, boots and firmware before it
\* (Manager.hpp:115-161, DeviceInit.hpp:95-126, FunctionConfigTracker.hpp:31-61, TelemetryTask.hpp:95-129,
\* CrashCounter.hpp:31-63, CrashManager.hpp:37-62).
THEOREM LifeIsSound == PlatformSpec => []LifeSound
<1>1. PlatformInv => LifeSound
  BY PlatformInvImplies
<1> QED
  BY <1>1, PlatformInvInit, PlatformInvNext, PTL DEF PlatformSpec

\* Of a counter of any width, a bus of bytes of any length, a window, an interval or a queue of any size:
\* pulses are returned once, a byte read is the byte told, probes are told their own answers apart, values are
\* no older than their interval, averages are of the last levels, and the battery and its gauge are as read
\* (PulseCounter.cpp:76-110, BitbangI2C.hpp:99-161, ModbusRtu.hpp:86, Rs485Bus.hpp:213,
\* MoleCricket.hpp:180-195, SpadefootToadSensor.hpp:361-366, DebouncedMeasurement.hpp:31-51,
\* MovingAverage.hpp:18-30, BatteryManager.hpp:65-82, Bq27220Driver.hpp:191-233).
THEOREM MeasuredIsSound == PlatformSpec => []MeasuredSound
<1>1. PlatformInv => MeasuredSound
  BY PlatformInvImplies
<1> QED
  BY <1>1, PlatformInvInit, PlatformInvNext, PTL DEF PlatformSpec

=============================================================================
