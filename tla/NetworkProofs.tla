---------------------------- MODULE NetworkProofs ----------------------------
(***************************************************************************)
(* Proofs about the drivers that connect the device.  First the parts of   *)
(* the modem's driver: the AT channel, the UART's power, the sockets and   *)
(* the time the radio is connected, for any users, transports, handles,    *)
(* queue sizes and bounds, and for modems that answer in time as well as   *)
(* ones that do not.  Each part has an invariant of its own (ChannelInv,   *)
(* PowerInv, SocketInv, RrcInv); the other parts rest while it takes a     *)
(* step.  Then the link, the clock and Bluetooth, as initConnectivity()    *)
(* puts them together, for any queue size and bounds: ConnectivityInv has  *)
(* the type of each variable, and that a clock that shows a plausible time *)
(* has been seen to.                                                       *)
(***************************************************************************)
EXTENDS CellularModem, Connectivity, SequenceTheorems, FiniteSetTheorems, TLAPS

-----------------------------------------------------------------------------
(* Sequences *)

\* What a longer sequence holds.
LEMMA AppendFacts ==
  ASSUME NEW S, NEW s \in Seq(S), NEW e \in S
  PROVE  /\ Append(s, e) \in Seq(S) /\ Len(Append(s, e)) = Len(s) + 1
         /\ DOMAIN Append(s, e) = 1 .. Len(s) + 1 /\ DOMAIN s = 1 .. Len(s) /\ Len(s) \in Nat
         /\ \A i \in 1 .. Len(s) : Append(s, e)[i] = s[i]
         /\ Append(s, e)[Len(s) + 1] = e
  BY AppendProperties, LenProperties

\* What is left of a sequence without its head.
LEMMA TailFacts ==
  ASSUME NEW S, NEW s \in Seq(S), s # << >>
  PROVE  /\ Head(s) \in S /\ Head(s) = s[1] /\ Tail(s) \in Seq(S)
         /\ Len(s) \in Nat \ {0} /\ Len(Tail(s)) = Len(s) - 1
         /\ DOMAIN Tail(s) = 1 .. Len(s) - 1 /\ DOMAIN s = 1 .. Len(s)
         /\ \A i \in 1 .. Len(s) - 1 : Tail(s)[i] = s[i + 1]
<1>1. Len(s) \in Nat /\ Len(s) # 0 /\ DOMAIN s = 1 .. Len(s)
  BY LenProperties, EmptySeq
<1>2. Tail(s) \in Seq(S) /\ Len(Tail(s)) = Len(s) - 1 /\ \A i \in 1 .. Len(s) - 1 : Tail(s)[i] = s[i + 1]
  BY HeadTailProperties
<1>3. Head(s) \in S /\ Head(s) = s[1]
  BY HeadTailProperties, <1>1
<1>4. DOMAIN Tail(s) = 1 .. Len(s) - 1
  BY <1>2, LenProperties
<1> QED
  BY <1>1, <1>2, <1>3, <1>4

-----------------------------------------------------------------------------
(* The radio *)

\* The instants of a connection are in order, and what was counted is what was believed.
RrcInv ==
  /\ RrcTypeOK
  /\ rrcLastReported <= now
  /\ rrcConnected = "connected" => rrcStretchStart <= rrcConnectedSince /\ rrcConnectedSince <= now
  /\ ReportedTime = believed
  /\ believed <= now - rrcLastReported

\* A change of what is known starts a stretch or ends one, and counts it.
LEMMA UpdateCounts ==
  ASSUME RrcInv, NEW joined \in BOOLEAN, NEW source, updateRrcState(joined, source),
         UNCHANGED <<now, rrcLastReported, believed>>
  PROVE  /\ {rrcConnectedSince', rrcStretchStart', rrcConnectedTime', rrcLongestConnected'} \subseteq Instants
         /\ rrcConnected' \in {"unknown", "connected", "idle"} /\ rrcMissedChanges' \in Nat
         /\ rrcConnected' = "connected" => rrcStretchStart' <= rrcConnectedSince' /\ rrcConnectedSince' <= now
         /\ ReportedTime' = believed
<1>1. /\ now \in 0 .. MaxTime /\ rrcConnectedSince \in 0 .. MaxTime /\ rrcStretchStart \in 0 .. MaxTime
      /\ rrcConnectedTime \in 0 .. MaxTime /\ rrcLongestConnected \in 0 .. MaxTime
      /\ believed \in 0 .. MaxTime /\ rrcLastReported \in 0 .. MaxTime /\ MaxTime \in Nat
      /\ rrcMissedChanges \in Nat
  BY TimeAssumption DEF RrcInv, RrcTypeOK, Instants
<1>2. /\ rrcConnected = "connected" => rrcStretchStart <= rrcConnectedSince /\ rrcConnectedSince <= now
      /\ rrcConnectedTime + (IF rrcConnected = "connected" THEN now - rrcConnectedSince ELSE 0) = believed
      /\ rrcConnected \in {"unknown", "connected", "idle"}
  BY DEF RrcInv, RrcTypeOK, ReportedTime
<1>3. CASE rrcConnected = (IF joined THEN "connected" ELSE "idle") /\ UNCHANGED <<rrcConnected, countVars>>
  BY <1>1, <1>2, <1>3 DEF ReportedTime, Instants, countVars
<1>4. CASE rrcConnected # (IF joined THEN "connected" ELSE "idle") /\ joined
  <2>1. /\ rrcConnected' = "connected" /\ rrcConnectedSince' = now /\ rrcStretchStart' = now
        /\ rrcConnectedTime' = rrcConnectedTime /\ rrcLongestConnected' = rrcLongestConnected
        /\ rrcMissedChanges' \in Nat
    BY <1>1, <1>4 DEF updateRrcState
  <2> QED
    BY <1>1, <1>2, <1>4, <2>1 DEF ReportedTime, Instants
<1>5. CASE rrcConnected = "connected" /\ ~joined
  <2>1. /\ rrcConnected' = "idle" /\ rrcConnectedSince' = rrcConnectedSince /\ rrcStretchStart' = rrcStretchStart
        /\ rrcConnectedTime' = believed /\ rrcMissedChanges' \in Nat
        /\ rrcLongestConnected' \in 0 .. MaxTime
    BY <1>1, <1>2, <1>5 DEF updateRrcState, Larger
  <2> QED
    BY <1>1, <1>2, <1>5, <2>1 DEF ReportedTime, Instants
<1>6. CASE rrcConnected = "unknown" /\ ~joined
  <2>1. /\ rrcConnected' = "idle" /\ rrcConnectedSince' = rrcConnectedSince /\ rrcStretchStart' = rrcStretchStart
        /\ rrcConnectedTime' = rrcConnectedTime /\ rrcLongestConnected' = rrcLongestConnected
        /\ rrcMissedChanges' \in Nat
    BY <1>1, <1>6 DEF updateRrcState
  <2> QED
    BY <1>1, <1>2, <1>6, <2>1 DEF ReportedTime, Instants
<1> QED
  BY <1>2, <1>3, <1>4, <1>5, <1>6 DEF updateRrcState

\* Every step keeps the count right.
LEMMA RrcStep ==
  ASSUME RrcInv, [RrcNext]_rrcVars
  PROVE  RrcInv'
<1>1. CASE Tick
  <2>1. /\ now' = now + 1 /\ now < MaxTime /\ rrcConnected' = rrcConnected /\ UNCHANGED countVars
        /\ believed' = IF rrcConnected = "connected" THEN believed + 1 ELSE believed
        /\ UNCHANGED <<radio, csconLines, rrcLastReported>>
    BY <1>1 DEF Tick
  <2>2. /\ now \in 0 .. MaxTime /\ MaxTime \in Nat /\ believed \in 0 .. MaxTime /\ rrcLastReported \in 0 .. MaxTime
        /\ rrcConnectedSince \in 0 .. MaxTime /\ rrcStretchStart \in 0 .. MaxTime /\ rrcConnectedTime \in 0 .. MaxTime
        /\ believed <= now - rrcLastReported /\ rrcLastReported <= now
    BY TimeAssumption DEF RrcInv, RrcTypeOK, Instants
  <2>3. now' \in 0 .. MaxTime /\ believed' \in 0 .. MaxTime /\ believed' <= now' - rrcLastReported /\ rrcLastReported <= now'
    BY <2>1, <2>2
  <2>4. RrcTypeOK'
    BY <2>1, <2>3 DEF RrcInv, RrcTypeOK, countVars, Instants
  <2>5. ReportedTime' = believed'
    BY <2>1, <2>2 DEF RrcInv, ReportedTime, countVars
  <2>6. rrcConnected' = "connected" => rrcStretchStart' <= rrcConnectedSince' /\ rrcConnectedSince' <= now'
    BY <2>1, <2>2 DEF RrcInv, countVars
  <2> QED
    BY <2>1, <2>3, <2>4, <2>5, <2>6 DEF RrcInv
<1>2. CASE RadioChanges
  <2>1. csconLines' \in Seq(BOOLEAN)
    <3>1. csconLines \in Seq(BOOLEAN) /\ radio' \in BOOLEAN
      BY <1>2 DEF RrcInv, RrcTypeOK, RadioChanges
    <3>2. csconLines' \in {csconLines, Append(csconLines, radio')}
      BY <1>2 DEF RadioChanges
    <3>3. Append(csconLines, radio') \in Seq(BOOLEAN)
      BY <3>1, AppendFacts
    <3> QED
      BY <3>1, <3>2, <3>3
  <2> QED
    BY <1>2, <2>1 DEF RrcInv, RrcTypeOK, RadioChanges, ReportedTime, countVars
<1>3. CASE HandleCscon
  <2>1. Head(csconLines) \in BOOLEAN /\ csconLines' \in Seq(BOOLEAN)
    BY <1>3, TailFacts DEF RrcInv, RrcTypeOK, HandleCscon
  <2>2. updateRrcState(Head(csconLines), "urc") /\ UNCHANGED <<now, radio, rrcLastReported, believed>>
    BY <1>3 DEF HandleCscon
  <2> QED
    BY <2>1, <2>2, UpdateCounts DEF RrcInv, RrcTypeOK
<1>4. CASE PollRrc
  <2>1. radio \in BOOLEAN /\ updateRrcState(radio, "poll") /\ UNCHANGED <<now, radio, csconLines, rrcLastReported, believed>>
    BY <1>4 DEF PollRrc, RrcInv, RrcTypeOK
  <2> QED
    BY <2>1, UpdateCounts DEF RrcInv, RrcTypeOK
<1>5. CASE populateRrcTelemetry
  <2>1. /\ now \in Instants /\ rrcConnectedSince \in Instants /\ rrcStretchStart \in Instants /\ 0 \in Instants
        /\ now \in Nat /\ rrcConnected \in {"unknown", "connected", "idle"}
        /\ csconLines \in Seq(BOOLEAN) /\ radio \in BOOLEAN
        /\ rrcConnected = "connected" => rrcStretchStart <= rrcConnectedSince /\ rrcConnectedSince <= now
    BY TimeAssumption DEF RrcInv, RrcTypeOK, Instants
  <2>2. /\ rrcLastReported' = now /\ rrcConnectedTime' = 0 /\ rrcLongestConnected' = 0 /\ rrcMissedChanges' = 0
        /\ rrcConnectedSince' = IF rrcConnected = "connected" THEN now ELSE rrcConnectedSince
        /\ believed' = 0 /\ UNCHANGED <<now, radio, csconLines, rrcConnected, rrcStretchStart>>
    BY <1>5 DEF populateRrcTelemetry
  <2>3. RrcTypeOK'
    BY <2>1, <2>2 DEF RrcTypeOK
  <2>4. ReportedTime' = 0
    BY <2>1, <2>2 DEF ReportedTime
  <2>5. rrcConnected' = "connected" => rrcStretchStart' <= rrcConnectedSince' /\ rrcConnectedSince' <= now'
    <3>1. \A a \in Instants : a \in Nat
      BY DEF Instants
    <3> QED
      BY <2>1, <2>2, <3>1
  <2> QED
    BY <2>1, <2>2, <2>3, <2>4, <2>5 DEF RrcInv
<1>6. CASE UNCHANGED rrcVars
  BY <1>6 DEF RrcInv, RrcTypeOK, rrcVars, countVars, ReportedTime
<1> QED
  BY <1>1, <1>2, <1>3, <1>4, <1>5, <1>6 DEF RrcNext

\* Nothing is counted at first.
LEMMA RrcStart == RrcInit => RrcInv
  BY TimeAssumption, EmptySeq DEF RrcInit, RrcInv, RrcTypeOK, Instants, ReportedTime

\* The invariant states what RrcCounted does.
LEMMA RrcFollows == RrcInv => RrcTypeOK /\ RrcCounted
  BY DEF RrcInv, RrcCounted

-----------------------------------------------------------------------------
(* The UART *)

\* Nothing is about to wake the modem's UART.
NoRing ==
  /\ ~ringSignalled
  /\ \A i \in DOMAIN powerEvents : powerEvents[i] # "Ring"
  /\ riLow => ~interruptOn

\* A UART that is idle is on, and when it is turned off nobody is on the way to it.
UartInv ==
  /\ idle /\ dtrAsserted /\ (\A u \in Users : user[u] = "idle") => modemUart = "on" /\ NoRing
  /\ modemUart = "turning off" => sleepAllowed /\ ~dtrAsserted /\ NoRing
  /\ \A u \in Users : user[u] \in {"asserting", "using"} => modemUart # "turning off"
  /\ \A u \in Users : user[u] = "using" => dtrAsserted

PowerInv == PowerTypeOK /\ UartInv

\* The counter counts the users.
LEMMA UsersCounted ==
  ASSUME PowerTypeOK
  PROVE  /\ uartUsers \in Nat
         /\ uartUsers = 0 => \A u \in Users : user[u] = "idle"
         /\ \A u \in Users : \A s \in {"counted", "asserting", "using"} :
              LET others == [user EXCEPT ![u] = s]
              IN Cardinality({v \in Users : others[v] # "idle"}) = IF user[u] = "idle" THEN uartUsers + 1 ELSE uartUsers
         /\ \A u \in Users : user[u] # "idle" =>
              LET others == [user EXCEPT ![u] = "idle"]
              IN Cardinality({v \in Users : others[v] # "idle"}) = uartUsers - 1
<1> DEFINE busy == {v \in Users : user[v] # "idle"}
<1>1. IsFiniteSet(busy) /\ uartUsers = Cardinality(busy)
  <2>1. busy \in SUBSET Users
    OBVIOUS
  <2> QED
    BY <2>1, FS_Subset, PowerAssumption DEF PowerTypeOK
<1>2. uartUsers \in Nat
  BY <1>1, FS_CardinalityType
<1>3. uartUsers = 0 => busy = {}
  BY <1>1, FS_EmptySet
<1>4. ASSUME NEW u \in Users, NEW s \in {"counted", "asserting", "using"}
      PROVE  LET others == [user EXCEPT ![u] = s]
             IN Cardinality({v \in Users : others[v] # "idle"}) = IF user[u] = "idle" THEN uartUsers + 1 ELSE uartUsers
  <2> DEFINE others == [user EXCEPT ![u] = s]
  <2>1. {v \in Users : others[v] # "idle"} = busy \cup {u}
    BY DEF PowerTypeOK
  <2>2. Cardinality(busy \cup {u}) = IF u \in busy THEN Cardinality(busy) ELSE Cardinality(busy) + 1
    <3> HIDE DEF busy
    <3> QED
      BY <1>1, FS_AddElement
  <2> QED
    BY <1>1, <2>1, <2>2
<1>5. ASSUME NEW u \in Users, user[u] # "idle"
      PROVE  LET others == [user EXCEPT ![u] = "idle"]
             IN Cardinality({v \in Users : others[v] # "idle"}) = uartUsers - 1
  <2> DEFINE others == [user EXCEPT ![u] = "idle"]
  <2>1. {v \in Users : others[v] # "idle"} = busy \ {u}
    BY DEF PowerTypeOK
  <2>2. Cardinality(busy \ {u}) = IF u \in busy THEN Cardinality(busy) - 1 ELSE Cardinality(busy)
    <3> HIDE DEF busy
    <3> QED
      BY <1>1, FS_RemoveElement
  <2> QED
    BY <1>1, <1>5, <2>1, <2>2
<1> QED
  BY <1>2, <1>3, <1>4, <1>5

\* An event that is queued leaves the queue within its size.
LEMMA EnqueueKeeps ==
  ASSUME PowerTypeOK, NEW event \in {"Ring", "Awake"}, Enqueue(event)
  PROVE  /\ powerEvents' \in Seq({"Ring", "Awake"}) /\ Len(powerEvents') <= PowerEventsSize
         /\ event # "Ring" /\ (\A i \in DOMAIN powerEvents : powerEvents[i] # "Ring")
              => \A i \in DOMAIN powerEvents' : powerEvents'[i] # "Ring"
<1>1. CASE Len(powerEvents) < PowerEventsSize
  <2>1. powerEvents' = Append(powerEvents, event)
    BY <1>1 DEF Enqueue
  <2>2. powerEvents \in Seq({"Ring", "Awake"})
    BY DEF PowerTypeOK
  <2>3. /\ Append(powerEvents, event) \in Seq({"Ring", "Awake"}) /\ Len(Append(powerEvents, event)) = Len(powerEvents) + 1
        /\ DOMAIN Append(powerEvents, event) = 1 .. Len(powerEvents) + 1 /\ DOMAIN powerEvents = 1 .. Len(powerEvents)
        /\ Len(powerEvents) \in Nat
        /\ \A i \in 1 .. Len(powerEvents) : Append(powerEvents, event)[i] = powerEvents[i]
        /\ Append(powerEvents, event)[Len(powerEvents) + 1] = event
    BY <2>2, AppendFacts
  <2> QED
    BY <1>1, <2>1, <2>3, PowerAssumption
<1>2. CASE ~(Len(powerEvents) < PowerEventsSize)
  BY <1>2 DEF Enqueue, PowerTypeOK
<1> QED
  BY <1>1, <1>2

\* So does one that is taken out.
LEMMA DequeueKeeps ==
  ASSUME PowerTypeOK, powerEvents # << >>
  PROVE  Tail(powerEvents) \in Seq({"Ring", "Awake"}) /\ Len(Tail(powerEvents)) <= PowerEventsSize
<1>1. powerEvents \in Seq({"Ring", "Awake"}) /\ Len(powerEvents) <= PowerEventsSize
  BY DEF PowerTypeOK
<1>2. /\ Tail(powerEvents) \in Seq({"Ring", "Awake"}) /\ Len(Tail(powerEvents)) = Len(powerEvents) - 1
      /\ Len(powerEvents) \in Nat
  BY <1>1, TailFacts
<1> QED
  BY <1>1, <1>2, PowerAssumption

\* Every step keeps the types.
LEMMA PowerTypeStep ==
  ASSUME PowerTypeOK, [PowerNext]_powerVars
  PROVE  PowerTypeOK'
<1> USE DEF PowerTypeOK, userVars, uartVars, taskVars, uartModemVars
<1>1. CASE ModemUartFollows
  BY <1>1 DEF ModemUartFollows
<1>2. CASE ReleaseRing
  BY <1>2 DEF ReleaseRing
<1>3. CASE Ring
  BY <1>3 DEF Ring
<1>4. CASE Recover
  BY <1>4 DEF Recover
<1>5. CASE GetIdle
  BY <1>5 DEF GetIdle
<1>6. CASE RingTimesOut
  BY <1>6 DEF RingTimesOut
<1>7. CASE handleRingInterrupt
  <2>1. powerEvents' \in Seq({"Ring", "Awake"}) /\ Len(powerEvents') <= PowerEventsSize
    BY <1>7, EnqueueKeeps DEF handleRingInterrupt
  <2> QED
    BY <1>7, <2>1 DEF handleRingInterrupt
<1>8. ASSUME NEW u \in Users, HoldUart(u)
      PROVE  PowerTypeOK'
  <2>1. PICK s \in {"counted", "asserting"} : user' = [user EXCEPT ![u] = s]
    BY <1>8 DEF HoldUart
  <2>2. uartUsers' = Cardinality({v \in Users : user'[v] # "idle"})
    <3>1. user[u] = "idle" /\ uartUsers' = uartUsers + 1 /\ s \in {"counted", "asserting", "using"}
      BY <1>8 DEF HoldUart
    <3>2. LET others == [user EXCEPT ![u] = s]
          IN Cardinality({v \in Users : others[v] # "idle"}) = IF user[u] = "idle" THEN uartUsers + 1 ELSE uartUsers
      BY <3>1, UsersCounted
    <3> QED
      BY <2>1, <3>1, <3>2
  <2> QED
    BY <1>8, <2>1, <2>2 DEF HoldUart
<1>9. ASSUME NEW u \in Users, AwaitOff(u)
      PROVE  PowerTypeOK'
  <2>1. user' = [user EXCEPT ![u] = "asserting"] /\ user[u] = "counted"
    BY <1>9 DEF AwaitOff
  <2>2. uartUsers' = Cardinality({v \in Users : user'[v] # "idle"})
    BY <1>9, <2>1, UsersCounted DEF AwaitOff
  <2> QED
    BY <1>9, <2>1, <2>2 DEF AwaitOff
<1>10. ASSUME NEW u \in Users, AssertDtr(u)
       PROVE  PowerTypeOK'
  <2>1. user' = [user EXCEPT ![u] = "using"] /\ user[u] = "asserting"
    BY <1>10 DEF AssertDtr
  <2>2. uartUsers' = Cardinality({v \in Users : user'[v] # "idle"})
    BY <1>10, <2>1, UsersCounted DEF AssertDtr
  <2>3. powerEvents' \in Seq({"Ring", "Awake"}) /\ Len(powerEvents') <= PowerEventsSize
    BY <1>10, EnqueueKeeps DEF AssertDtr
  <2> QED
    BY <1>10, <2>1, <2>2, <2>3 DEF AssertDtr
<1>11. ASSUME NEW u \in Users, ReleaseUart(u)
       PROVE  PowerTypeOK'
  <2>1. user' = [user EXCEPT ![u] = "idle"] /\ user[u] = "using"
    BY <1>11 DEF ReleaseUart
  <2>2. uartUsers' = Cardinality({v \in Users : user'[v] # "idle"})
    BY <1>11, <2>1, UsersCounted DEF ReleaseUart
  <2> QED
    BY <1>11, <2>1, <2>2 DEF ReleaseUart
<1>12. ASSUME NEW allowSleep \in BOOLEAN, Configure(allowSleep)
       PROVE  PowerTypeOK'
  BY <1>12 DEF Configure
<1>13. CASE Look
  BY <1>13 DEF Look
<1>14. CASE WakeUp
  <2>1. powerEvents' \in Seq({"Ring", "Awake"}) /\ Len(powerEvents') <= PowerEventsSize
    <3>1. CASE powerEvents = << >>
      BY <1>14, <3>1 DEF WakeUp
    <3>2. CASE powerEvents # << >>
      <4>1. powerEvents' = Tail(powerEvents)
        BY <1>14, <3>2 DEF WakeUp
      <4> QED
        BY <3>2, <4>1, DequeueKeeps
    <3> QED
      BY <3>1, <3>2
  <2>2. /\ {dtrAsserted', idle', ringPending', ringSignalled'} \subseteq BOOLEAN
        /\ task' \in {"rearming", "sleeping"}
        /\ UNCHANGED <<userVars, modemUart, sleepAllowed, interruptOn, waits, ringStuck, lowFor, uartModemVars>>
    BY <1>14 DEF WakeUp
  <2> QED
    BY <2>1, <2>2
<1>15. CASE rearmRingIndicator
  BY <1>15 DEF rearmRingIndicator
<1>16. CASE sleepUartIfIdle
  BY <1>16 DEF sleepUartIfIdle
<1>17. CASE UNCHANGED powerVars
  BY <1>17 DEF powerVars
<1> QED
  BY <1>1, <1>2, <1>3, <1>4, <1>5, <1>6, <1>7, <1>8, <1>9, <1>10, <1>11, <1>12, <1>13, <1>14, <1>15, <1>16, <1>17
  DEF PowerNext, UserStep, PowerTask, ModemStep

\* Every step keeps the UART on for those who use it, and off when it goes off.
LEMMA UartStep ==
  ASSUME PowerInv, [PowerNext]_powerVars
  PROVE  UartInv'
<1> USE DEF userVars, uartVars, taskVars, uartModemVars
<1>0. PowerTypeOK /\ UartInv /\ user \in [Users -> {"idle", "counted", "asserting", "using"}]
  BY DEF PowerInv, PowerTypeOK
<1>1. CASE ModemUartFollows
  BY <1>0, <1>1 DEF ModemUartFollows, UartInv, NoRing
<1>2. CASE ReleaseRing
  BY <1>0, <1>2 DEF ReleaseRing, UartInv, NoRing
<1>3. CASE Ring
  BY <1>0, <1>3 DEF Ring, UartInv, NoRing
<1>4. CASE Recover
  BY <1>0, <1>4 DEF Recover, UartInv, NoRing
<1>5. CASE GetIdle
  BY <1>0, <1>5 DEF GetIdle, UartInv, NoRing
<1>6. CASE RingTimesOut
  BY <1>0, <1>6 DEF RingTimesOut, UartInv, NoRing
<1>7. CASE handleRingInterrupt
  BY <1>0, <1>7 DEF handleRingInterrupt, UartInv, NoRing
<1>8. ASSUME NEW u \in Users, HoldUart(u)
      PROVE  UartInv'
  BY <1>0, <1>8 DEF HoldUart, UartInv, NoRing
<1>9. ASSUME NEW u \in Users, AwaitOff(u)
      PROVE  UartInv'
  BY <1>0, <1>9 DEF AwaitOff, UartInv, NoRing
<1>10. ASSUME NEW u \in Users, AssertDtr(u)
       PROVE  UartInv'
  BY <1>0, <1>10 DEF AssertDtr, UartInv, NoRing
<1>11. ASSUME NEW u \in Users, ReleaseUart(u)
       PROVE  UartInv'
  BY <1>0, <1>11 DEF ReleaseUart, UartInv, NoRing
<1>12. ASSUME NEW allowSleep \in BOOLEAN, Configure(allowSleep)
       PROVE  UartInv'
  BY <1>0, <1>12 DEF Configure, UartInv, NoRing
<1>13. CASE Look
  BY <1>0, <1>13 DEF Look, UartInv, NoRing
<1>14. CASE WakeUp
  <2>1. (\A i \in DOMAIN powerEvents : powerEvents[i] # "Ring") => \A i \in DOMAIN powerEvents' : powerEvents'[i] # "Ring"
    <3>1. CASE powerEvents = << >>
      BY <1>14, <3>1 DEF WakeUp
    <3>2. CASE powerEvents # << >>
      <4>1. powerEvents \in Seq({"Ring", "Awake"})
        BY <1>0 DEF PowerTypeOK
      <4>2. /\ DOMAIN Tail(powerEvents) = 1 .. Len(powerEvents) - 1 /\ DOMAIN powerEvents = 1 .. Len(powerEvents)
            /\ \A i \in 1 .. Len(powerEvents) - 1 : Tail(powerEvents)[i] = powerEvents[i + 1]
            /\ Len(powerEvents) \in Nat
        BY <3>2, <4>1, TailFacts
      <4>3. powerEvents' = Tail(powerEvents)
        BY <1>14, <3>2 DEF WakeUp
      <4> QED
        BY <4>2, <4>3
    <3> QED
      BY <3>1, <3>2
  <2>2. CASE ringSignalled \/ (powerEvents # << >> /\ Head(powerEvents) = "Ring")
    <3>1. ~NoRing
      <4>1. CASE ringSignalled
        BY <4>1 DEF NoRing
      <4>2. CASE powerEvents # << >> /\ Head(powerEvents) = "Ring"
        <5>1. powerEvents \in Seq({"Ring", "Awake"})
          BY <1>0 DEF PowerTypeOK
        <5>2. Head(powerEvents) = powerEvents[1] /\ 1 \in DOMAIN powerEvents
          BY <4>2, <5>1, TailFacts
        <5> QED
          BY <4>2, <5>2 DEF NoRing
      <4> QED
        BY <2>2, <4>1, <4>2
    <3>2. modemUart # "turning off" /\ dtrAsserted' /\ ~idle' /\ UNCHANGED <<user, modemUart, sleepAllowed>>
      BY <1>0, <1>14, <2>2, <3>1 DEF WakeUp, UartInv
    <3> QED
      BY <1>0, <3>2 DEF UartInv
  <2>3. CASE ~(ringSignalled \/ (powerEvents # << >> /\ Head(powerEvents) = "Ring"))
    <3>1. UNCHANGED <<user, modemUart, sleepAllowed, dtrAsserted, idle, riLow, interruptOn>> /\ ~ringSignalled'
      BY <1>14, <2>3 DEF WakeUp
    <3>2. NoRing => NoRing'
      BY <2>1, <3>1 DEF NoRing
    <3> QED
      BY <1>0, <3>1, <3>2 DEF UartInv
  <2> QED
    BY <2>2, <2>3
<1>15. CASE rearmRingIndicator
  BY <1>0, <1>15 DEF rearmRingIndicator, UartInv, NoRing
<1>16. CASE sleepUartIfIdle
  <2>1. uartUsers = 0 => \A u \in Users : user[u] = "idle"
    BY <1>0, UsersCounted
  <2> QED
    BY <1>0, <1>16, <2>1 DEF sleepUartIfIdle, UartInv, NoRing
<1>17. CASE UNCHANGED powerVars
  BY <1>0, <1>17 DEF powerVars, UartInv, NoRing
<1> QED
  BY <1>1, <1>2, <1>3, <1>4, <1>5, <1>6, <1>7, <1>8, <1>9, <1>10, <1>11, <1>12, <1>13, <1>14, <1>15, <1>16, <1>17
  DEF PowerNext, UserStep, PowerTask, ModemStep

\* The UART is off at first, and nobody uses it.
LEMMA PowerStart == PowerInit => PowerInv
<1> SUFFICES ASSUME PowerInit PROVE PowerInv
  OBVIOUS
<1>1. {u \in Users : user[u] # "idle"} = {}
  BY DEF PowerInit
<1>2. uartUsers = Cardinality({u \in Users : user[u] # "idle"})
  BY <1>1, FS_EmptySet DEF PowerInit
<1>3. powerEvents \in Seq({"Ring", "Awake"}) /\ Len(powerEvents) <= PowerEventsSize
  BY EmptySeq, PowerAssumption DEF PowerInit
<1>4. PowerTypeOK
  BY <1>2, <1>3 DEF PowerInit, PowerTypeOK
<1>5. UartInv
  BY DEF PowerInit, UartInv, NoRing
<1> QED
  BY <1>4, <1>5 DEF PowerInv

\* The invariant states what UsedUartIsOn does.
LEMMA PowerFollows == PowerInv => PowerTypeOK /\ UsedUartIsOn
  BY DEF PowerInv, UartInv, UsedUartIsOn

-----------------------------------------------------------------------------
(* The channel *)

FinalsOf(lines) == {i \in DOMAIN lines : lines[i].kind = "final"}
IfFinal(received) == IF received.kind = "final" THEN 1 ELSE 0

\* The results that the modem has yet to give, or that are on their way.
Outstanding == Len(modem) + Cardinality(Finals)
InFlight == {"writing", "waiting", "done"}

\* What the channel knows of the command in flight fits the caller's place.
CallerInv ==
  /\ Len(answers) = sent - (IF caller = "idle" THEN 0 ELSE 1)
  /\ pending = IF caller \in InFlight THEN sent ELSE 0
  /\ caller \in InFlight => owed = 0
  /\ caller = "waiting" => written

\* Each information line comes with its result, right behind it.
Paired == \A i \in DOMAIN wire : wire[i].kind = "info" => i + 1 \in DOMAIN wire /\ wire[i + 1].kind = "final"

\* What is owed is what is outstanding, but for a modem that is slow or restarted.
OwedInv ==
  /\ ~SlowModem =>
       /\ caller \in {"idle", "ending", "settling"} => Outstanding <= owed
       /\ caller = "writing" => Outstanding = 0 /\ ~complete /\ collected = {}
       /\ caller \in {"waiting", "done"} => Outstanding <= IF written /\ ~complete THEN 1 ELSE 0
  /\ modemEvents = 0 =>
       /\ caller \in {"waiting", "done"} /\ written /\ ~complete => Outstanding >= 1
       /\ caller \notin InFlight => owed <= Outstanding

\* While a command is in flight, all that is said is about it.
OwnInv ==
  ~SlowModem =>
    /\ \A i \in DOMAIN answers : answers[i].of \subseteq {i}
    /\ caller \in InFlight =>
         /\ collected \subseteq {sent}
         /\ \A i \in DOMAIN modem : modem[i] = sent
         /\ \A i \in DOMAIN wire : wire[i].kind = "urc" \/ wire[i].of = sent

ChannelInv == ChannelTypeOK /\ CallerInv /\ Paired /\ OwedInv /\ OwnInv

\* The kinds of lines.
LEMMA LineKinds ==
  /\ \A received \in Lines : received.kind \in {"info", "final", "urc"}
  /\ \A received \in Lines : received.kind # "urc" => received.of \in Commands
  /\ \A c \in Commands : [kind |-> "info", of |-> c] \in Lines /\ [kind |-> "final", of |-> c] \in Lines
  /\ [kind |-> "urc"] \in Lines
  BY DEF Lines

\* The results among some lines can be counted.
LEMMA FinalsFinite ==
  ASSUME NEW lines \in Seq(Lines)
  PROVE  /\ IsFiniteSet(FinalsOf(lines)) /\ Cardinality(FinalsOf(lines)) \in Nat
         /\ Cardinality(FinalsOf(lines)) = 0 => \A i \in DOMAIN lines : lines[i].kind # "final"
<1>1. DOMAIN lines = 1 .. Len(lines) /\ Len(lines) \in Nat
  BY LenProperties
<1>2. IsFiniteSet(1 .. Len(lines))
  BY <1>1, FS_Interval
<1>3. FinalsOf(lines) \in SUBSET (1 .. Len(lines))
  BY <1>1 DEF FinalsOf
<1>4. IsFiniteSet(FinalsOf(lines))
  BY <1>2, <1>3, FS_Subset
<1>5. Cardinality(FinalsOf(lines)) = 0 => FinalsOf(lines) = {}
  BY <1>4, FS_EmptySet
<1> QED
  BY <1>4, <1>5, FS_CardinalityType DEF FinalsOf

\* One more line may be one more result.
LEMMA FinalsAppend ==
  ASSUME NEW lines \in Seq(Lines), NEW received \in Lines
  PROVE  Cardinality(FinalsOf(Append(lines, received))) = Cardinality(FinalsOf(lines)) + IfFinal(received)
<1> DEFINE longer == Append(lines, received)
           n == Len(lines) + 1
<1>1. /\ DOMAIN longer = 1 .. n /\ DOMAIN lines = 1 .. Len(lines) /\ Len(lines) \in Nat
      /\ \A i \in 1 .. Len(lines) : longer[i] = lines[i]
      /\ longer[n] = received
  BY AppendFacts
<1>2. IsFiniteSet(FinalsOf(lines)) /\ Cardinality(FinalsOf(lines)) \in Nat
  BY FinalsFinite
<1>3. n \notin FinalsOf(lines)
  BY <1>1 DEF FinalsOf
<1>4. CASE received.kind = "final"
  <2>1. FinalsOf(longer) = FinalsOf(lines) \cup {n}
    <3> HIDE DEF longer
    <3> QED
      BY <1>1, <1>4 DEF FinalsOf
  <2>2. Cardinality(FinalsOf(lines) \cup {n}) = Cardinality(FinalsOf(lines)) + 1
    BY <1>2, <1>3, FS_AddElement
  <2> QED
    BY <1>4, <2>1, <2>2 DEF IfFinal
<1>5. CASE received.kind # "final"
  <2>1. FinalsOf(longer) = FinalsOf(lines)
    <3> HIDE DEF longer
    <3> QED
      BY <1>1, <1>5 DEF FinalsOf
  <2> QED
    BY <1>2, <1>5, <2>1 DEF IfFinal
<1> QED
  BY <1>4, <1>5

\* One line less may be one result less.
LEMMA FinalsTail ==
  ASSUME NEW lines \in Seq(Lines), lines # << >>
  PROVE  Cardinality(FinalsOf(lines)) = Cardinality(FinalsOf(Tail(lines))) + IfFinal(Head(lines))
<1> DEFINE rest == FinalsOf(lines) \ {1}
           shift == [i \in FinalsOf(Tail(lines)) |-> i + 1]
<1>1. /\ Tail(lines) \in Seq(Lines) /\ Head(lines) = lines[1] /\ Len(lines) \in Nat \ {0}
      /\ DOMAIN Tail(lines) = 1 .. Len(lines) - 1 /\ DOMAIN lines = 1 .. Len(lines)
      /\ \A i \in 1 .. Len(lines) - 1 : Tail(lines)[i] = lines[i + 1]
  BY TailFacts
<1>2. shift \in Bijection(FinalsOf(Tail(lines)), rest)
  <2>1. \A i \in FinalsOf(Tail(lines)) : i + 1 \in rest /\ i \in Nat
    BY <1>1 DEF FinalsOf
  <2>2. \A k \in rest : k - 1 \in FinalsOf(Tail(lines)) /\ k - 1 + 1 = k
    <3> SUFFICES ASSUME NEW k \in rest PROVE k - 1 \in FinalsOf(Tail(lines)) /\ k - 1 + 1 = k
      OBVIOUS
    <3>1. k \in 2 .. Len(lines) /\ lines[k].kind = "final"
      BY <1>1 DEF FinalsOf
    <3>2. k - 1 \in 1 .. Len(lines) - 1 /\ k - 1 + 1 = k
      BY <1>1, <3>1
    <3>3. Tail(lines)[k - 1] = lines[k]
      BY <1>1, <3>2
    <3> QED
      BY <1>1, <3>1, <3>2, <3>3 DEF FinalsOf
  <2>3. \A k \in rest : \E i \in FinalsOf(Tail(lines)) : shift[i] = k
    BY <2>2
  <2>4. shift \in [FinalsOf(Tail(lines)) -> rest]
    BY <2>1
  <2>5. \A i, j \in FinalsOf(Tail(lines)) : shift[i] = shift[j] => i = j
    BY <2>1
  <2> HIDE DEF shift, rest
  <2> QED
    BY <2>3, <2>4, <2>5 DEF Bijection, Injection, Surjection, IsInjective
<1>3. IsFiniteSet(FinalsOf(Tail(lines))) /\ IsFiniteSet(FinalsOf(lines)) /\ Cardinality(FinalsOf(lines)) \in Nat
  BY <1>1, FinalsFinite
<1>4. Cardinality(rest) = Cardinality(FinalsOf(Tail(lines)))
  <2>1. ExistsBijection(FinalsOf(Tail(lines)), rest)
    BY <1>2 DEF ExistsBijection
  <2> HIDE DEF rest
  <2> QED
    BY <1>3, <2>1, FS_Bijection
<1>5. Cardinality(rest) = IF 1 \in FinalsOf(lines) THEN Cardinality(FinalsOf(lines)) - 1 ELSE Cardinality(FinalsOf(lines))
  BY <1>3, FS_RemoveElement
<1>6. 1 \in FinalsOf(lines) <=> Head(lines).kind = "final"
  BY <1>1 DEF FinalsOf
<1> QED
  BY <1>3, <1>4, <1>5, <1>6 DEF IfFinal

\* What is on its way is counted by a natural number.
LEMMA OutstandingFacts ==
  ASSUME ChannelTypeOK
  PROVE  /\ Finals = FinalsOf(wire) /\ Cardinality(Finals) \in Nat /\ Len(modem) \in Nat /\ Outstanding \in Nat
         /\ Outstanding = Len(modem) + Cardinality(FinalsOf(wire))
<1>1. modem \in Seq(Commands) /\ wire \in Seq(Lines)
  BY DEF ChannelTypeOK
<1>2. Len(modem) \in Nat
  BY <1>1, LenProperties
<1>3. Finals = FinalsOf(wire) /\ Cardinality(Finals) \in Nat
  BY <1>1, FinalsFinite DEF Finals, FinalsOf
<1> QED
  BY <1>2, <1>3 DEF Outstanding

\* Every step keeps the types; a command that is started is counted.
LEMMA ChannelTypeStep ==
  ASSUME ChannelTypeOK, CallerInv, [ChannelNext]_channelState
  PROVE  ChannelTypeOK'
<1> USE DEF ChannelTypeOK, callerVars, channelVars, lineVars
<1>0. MaxCommands \in Nat /\ MaxEvents \in Nat
  BY ChannelAssumption
<1>1. CASE Command
  BY <1>0, <1>1 DEF Command
<1>2. CASE EndPartialLine
  <2>1. modem' \in Seq(Commands)
    <3>1. CASE line = 0 \/ modem' = modem
      BY <1>2, <3>1 DEF EndPartialLine
    <3>2. CASE line # 0 /\ modem' # modem
      <4>1. line \in Commands
        BY <1>0, <3>2 DEF Commands
      <4>2. modem' = Append(modem, line)
        BY <1>2, <3>2 DEF EndPartialLine
      <4>3. Append(modem, line) \in Seq(Commands)
        BY <4>1, AppendFacts
      <4> QED
        BY <4>2, <4>3
    <3> QED
      BY <3>1, <3>2
  <2>2. line' \in 0 .. MaxCommands
    BY <1>0, <1>2 DEF EndPartialLine
  <2>3. caller' = "flushing" /\ partialWrite' = FALSE /\ UNCHANGED <<sent, written, answers, channelVars, wire, modemEvents>>
    BY <1>2 DEF EndPartialLine
  <2> QED
    BY <2>1, <2>2, <2>3
<1>3. CASE discardInput
  <2>1. wire' \in Seq(Lines)
    BY <1>3, EmptySeq DEF discardInput
  <2> QED
    BY <1>3, <2>1 DEF discardInput
<1>4. CASE settle
  BY <1>4 DEF settle
<1>5. CASE write
  <2>1. sent \in Commands
    <3>1. Len(answers) \in Nat /\ caller # "idle" /\ Len(answers) = sent - 1
      BY <1>5, LenProperties DEF write, CallerInv
    <3> QED
      BY <1>0, <3>1 DEF Commands
  <2>2. modem' \in Seq(Commands)
    <3>1. Append(modem, sent) \in Seq(Commands)
      BY <2>1, AppendFacts
    <3>2. modem' = Append(modem, sent) \/ modem' = modem
      BY <1>5 DEF write
    <3> QED
      BY <3>1, <3>2
  <2>3. line' \in 0 .. MaxCommands /\ {written', partialWrite'} \subseteq BOOLEAN /\ caller' \in {"waiting", "done"}
    <3>1. line' = 0 \/ line' = sent
      BY <1>5 DEF write
    <3>2. written' \in BOOLEAN /\ (partialWrite' = TRUE \/ partialWrite' = partialWrite)
      BY <1>5 DEF write
    <3>3. caller' \in {"waiting", "done"}
      BY <1>5 DEF write
    <3>4. line' \in 0 .. MaxCommands
      BY <1>0, <3>1
    <3>5. partialWrite' \in BOOLEAN
      BY <3>2
    <3> QED
      BY <3>2, <3>3, <3>4, <3>5
  <2>4. UNCHANGED <<sent, answers, channelVars, wire, modemEvents>>
    BY <1>5 DEF write
  <2> QED
    BY <2>2, <2>3, <2>4
<1>6. CASE awaitResponse
  BY <1>6 DEF awaitResponse
<1>7. CASE takeResponse
  <2>1. [of |-> collected, complete |-> complete] \in [of : SUBSET Commands, complete : BOOLEAN]
    OBVIOUS
  <2>2. answers' \in Seq([of : SUBSET Commands, complete : BOOLEAN])
    BY <1>7, <2>1, AppendFacts DEF takeResponse
  <2> QED
    BY <1>0, <1>7, <2>2 DEF takeResponse
<1>8. CASE route
  <2>1. Head(wire) \in Lines /\ wire' \in Seq(Lines)
    BY <1>8, TailFacts DEF route
  <2>2. collected' \subseteq Commands /\ complete' \in BOOLEAN /\ responseDone' \in BOOLEAN /\ owed' \in Nat
    <3>1. CASE pending # 0 /\ Head(wire).kind # "urc"
      <4>1. Head(wire).of \in Commands
        BY <2>1, <3>1, LineKinds
      <4> QED
        BY <1>8, <3>1, <4>1 DEF route
    <3>2. CASE ~(pending # 0 /\ Head(wire).kind # "urc")
      <4>1. UNCHANGED <<collected, complete, responseDone>> /\ (owed' = owed \/ (owed > 0 /\ owed' = owed - 1))
        BY <1>8, <3>2 DEF route
      <4>2. owed' \in Nat
        BY <4>1
      <4> QED
        BY <4>1, <4>2
    <3> QED
      BY <3>1, <3>2
  <2> QED
    BY <1>8, <2>1, <2>2 DEF route
<1>9. CASE Answer
  <2>1. Head(modem) \in Commands /\ modem' \in Seq(Commands)
    BY <1>9, TailFacts DEF Answer
  <2>2. wire' \in Seq(Lines)
    <3>1. [kind |-> "info", of |-> Head(modem)] \in Lines /\ [kind |-> "final", of |-> Head(modem)] \in Lines
      BY <2>1, LineKinds
    <3>2. Append(wire, [kind |-> "info", of |-> Head(modem)]) \in Seq(Lines)
      BY <3>1, AppendFacts
    <3> QED
      BY <1>9, <3>1, <3>2, AppendFacts DEF Answer
  <2> QED
    BY <1>9, <2>1, <2>2 DEF Answer
<1>10. CASE ModemEvent
  <2>1. wire' \in Seq(Lines)
    <3>1. Append(wire, [kind |-> "urc"]) \in Seq(Lines)
      BY LineKinds, AppendFacts
    <3> QED
      BY <1>10, <3>1 DEF ModemEvent
  <2>2. modem' \in Seq(Commands)
    BY <1>10, EmptySeq DEF ModemEvent
  <2>3. line' \in 0 .. MaxCommands
    BY <1>0, <1>10 DEF ModemEvent
  <2>4. modemEvents' \in 0 .. MaxEvents
    BY <1>0, <1>10 DEF ModemEvent
  <2>5. UNCHANGED <<callerVars, channelVars>>
    BY <1>10 DEF ModemEvent
  <2> QED
    BY <2>1, <2>2, <2>3, <2>4, <2>5
<1>11. CASE UNCHANGED channelState
  BY <1>11 DEF channelState
<1> QED
  BY <1>1, <1>2, <1>3, <1>4, <1>5, <1>6, <1>7, <1>8, <1>9, <1>10, <1>11 DEF ChannelNext, CallerStep

\* Every step keeps what the channel knows of the command in flight.
LEMMA CallerInvStep ==
  ASSUME ChannelTypeOK, CallerInv, [ChannelNext]_channelState
  PROVE  CallerInv'
<1> USE DEF CallerInv, InFlight, callerVars, channelVars, lineVars
<1>0. sent \in Nat /\ Len(answers) \in Nat
  BY ChannelAssumption, LenProperties DEF ChannelTypeOK
<1>1. CASE Command
  BY <1>0, <1>1 DEF Command
<1>2. CASE EndPartialLine
  BY <1>0, <1>2 DEF EndPartialLine
<1>3. CASE discardInput
  BY <1>0, <1>3 DEF discardInput
<1>4. CASE settle
  BY <1>0, <1>4 DEF settle
<1>5. CASE write
  BY <1>0, <1>5 DEF write
<1>6. CASE awaitResponse
  BY <1>0, <1>6 DEF awaitResponse
<1>7. CASE takeResponse
  <2>1. Len(answers') = Len(answers) + 1
    <3>1. answers \in Seq([of : SUBSET Commands, complete : BOOLEAN]) /\ [of |-> collected, complete |-> complete] \in [of : SUBSET Commands, complete : BOOLEAN]
      BY DEF ChannelTypeOK
    <3> QED
      BY <1>7, <3>1, AppendFacts DEF takeResponse
  <2> QED
    BY <1>0, <1>7, <2>1 DEF takeResponse
<1>8. CASE route
  <2>1. CASE caller \in InFlight
    <3>1. owed' = 0
      BY <1>8, <2>1 DEF route
    <3> QED
      BY <1>8, <2>1, <3>1 DEF route
  <2>2. CASE caller \notin InFlight
    BY <1>8, <2>2 DEF route
  <2> QED
    BY <2>1, <2>2
<1>9. CASE Answer
  BY <1>9 DEF Answer
<1>10. CASE ModemEvent
  BY <1>10 DEF ModemEvent
<1>11. CASE UNCHANGED channelState
  BY <1>11 DEF channelState
<1> QED
  BY <1>1, <1>2, <1>3, <1>4, <1>5, <1>6, <1>7, <1>8, <1>9, <1>10, <1>11 DEF ChannelNext, CallerStep

\* Every step keeps the results behind their information lines.
LEMMA PairedStep ==
  ASSUME ChannelTypeOK, Paired, [ChannelNext]_channelState
  PROVE  Paired'
<1>0. wire \in Seq(Lines)
  BY DEF ChannelTypeOK
<1>1. CASE route
  <2>1. /\ DOMAIN Tail(wire) = 1 .. Len(wire) - 1 /\ DOMAIN wire = 1 .. Len(wire)
        /\ \A i \in 1 .. Len(wire) - 1 : Tail(wire)[i] = wire[i + 1]
        /\ Len(wire) \in Nat /\ wire' = Tail(wire)
    BY <1>0, <1>1, TailFacts DEF route
  <2> SUFFICES ASSUME NEW i \in DOMAIN wire', wire'[i].kind = "info"
               PROVE  i + 1 \in DOMAIN wire' /\ wire'[i + 1].kind = "final"
    BY DEF Paired
  <2>2. i + 1 \in DOMAIN wire /\ wire[i + 1].kind = "info"
    BY <2>1
  <2>3. i + 1 + 1 \in DOMAIN wire /\ wire[i + 1 + 1].kind = "final"
    BY <2>2 DEF Paired
  <2> QED
    BY <2>1, <2>2, <2>3
<1>2. CASE Answer
  <2> DEFINE info == [kind |-> "info", of |-> Head(modem)]
             final == [kind |-> "final", of |-> Head(modem)]
             longer == Append(wire, info)
  <2>1. info \in Lines /\ final \in Lines
    <3>1. modem \in Seq(Commands) /\ modem # << >>
      BY <1>2 DEF ChannelTypeOK, Answer
    <3> QED
      BY <3>1, TailFacts, LineKinds
  <2>2. /\ longer \in Seq(Lines) /\ Len(longer) = Len(wire) + 1 /\ Len(wire) \in Nat /\ DOMAIN wire = 1 .. Len(wire)
        /\ \A i \in 1 .. Len(wire) : longer[i] = wire[i]
        /\ longer[Len(wire) + 1] = info
    BY <1>0, <2>1, AppendFacts
  <2>3. wire' = Append(longer, final)
    BY <1>2 DEF Answer
  <2> HIDE DEF longer
  <2>4. /\ DOMAIN wire' = 1 .. Len(longer) + 1
        /\ \A i \in 1 .. Len(longer) : wire'[i] = longer[i]
        /\ wire'[Len(longer) + 1] = final
    BY <2>1, <2>2, <2>3, AppendFacts
  <2> SUFFICES ASSUME NEW i \in DOMAIN wire', wire'[i].kind = "info"
               PROVE  i + 1 \in DOMAIN wire' /\ wire'[i + 1].kind = "final"
    BY DEF Paired
  <2>5. CASE i \in 1 .. Len(wire)
    <3>1. i + 1 \in DOMAIN wire /\ wire[i + 1].kind = "final"
      BY <2>2, <2>4, <2>5 DEF Paired
    <3> QED
      BY <2>2, <2>4, <3>1
  <2>6. CASE i = Len(wire) + 1
    BY <2>2, <2>4, <2>6
  <2>7. CASE i = Len(wire) + 2
    BY <2>2, <2>4, <2>7
  <2> QED
    BY <2>2, <2>4, <2>5, <2>6, <2>7
<1>3. CASE ModemEvent
  <2>1. CASE wire' = Append(wire, [kind |-> "urc"])
    <3>1. /\ DOMAIN wire' = 1 .. Len(wire) + 1 /\ DOMAIN wire = 1 .. Len(wire) /\ Len(wire) \in Nat
          /\ \A i \in 1 .. Len(wire) : wire'[i] = wire[i]
          /\ wire'[Len(wire) + 1] = [kind |-> "urc"]
      BY <1>0, <2>1, LineKinds, AppendFacts
    <3> QED
      BY <3>1 DEF Paired
  <2>2. CASE wire' = wire
    BY <2>2 DEF Paired
  <2> QED
    BY <1>3, <2>1, <2>2 DEF ModemEvent
<1>4. CASE discardInput
  BY <1>4 DEF discardInput, Paired
<1>5. CASE Command \/ EndPartialLine \/ settle \/ write \/ awaitResponse \/ takeResponse \/ UNCHANGED channelState
  <2>1. wire' = wire
    BY <1>5 DEF Command, EndPartialLine, settle, write, awaitResponse, takeResponse, channelState, lineVars
  <2> QED
    BY <2>1 DEF Paired
<1> QED
  BY <1>1, <1>2, <1>3, <1>4, <1>5 DEF ChannelNext, CallerStep

\* What each step does to what is outstanding.
LEMMA OutstandingStep ==
  ASSUME ChannelTypeOK, ChannelTypeOK', CallerInv
  PROVE  /\ Answer => Outstanding' = Outstanding
         /\ route => Outstanding' = Outstanding - IfFinal(Head(wire)) /\ Outstanding >= IfFinal(Head(wire))
         /\ ModemEvent => Outstanding' <= Outstanding
         /\ discardInput /\ ~SlowModem => Outstanding' = 0
         /\ EndPartialLine => Outstanding' >= Outstanding
         /\ write => Outstanding' = IF written' THEN Outstanding + 1 ELSE Outstanding
         /\ UNCHANGED <<modem, wire>> => Outstanding' = Outstanding
<1>0. /\ wire \in Seq(Lines) /\ modem \in Seq(Commands)
      /\ Outstanding \in Nat /\ Outstanding = Len(modem) + Cardinality(FinalsOf(wire)) /\ Len(modem) \in Nat
      /\ Cardinality(FinalsOf(wire)) \in Nat
  BY OutstandingFacts DEF ChannelTypeOK
<1>a. /\ Outstanding' \in Nat /\ Outstanding' = Len(modem') + Cardinality(FinalsOf(wire')) /\ Len(modem') \in Nat
      /\ Cardinality(FinalsOf(wire')) \in Nat
  <2>1. wire' \in Seq(Lines) /\ modem' \in Seq(Commands)
    BY DEF ChannelTypeOK
  <2>2. Len(modem') \in Nat /\ Cardinality(FinalsOf(wire')) \in Nat
    BY <2>1, LenProperties, FinalsFinite
  <2> QED
    BY <2>2 DEF Outstanding, Finals, FinalsOf
<1>1. ASSUME Answer PROVE Outstanding' = Outstanding
  <2>1. Head(modem) \in Commands /\ Len(modem') = Len(modem) - 1
    BY <1>0, <1>1, TailFacts DEF Answer
  <2> DEFINE info == [kind |-> "info", of |-> Head(modem)]
             final == [kind |-> "final", of |-> Head(modem)]
  <2>2. info \in Lines /\ final \in Lines /\ IfFinal(info) = 0 /\ IfFinal(final) = 1
    BY <2>1, LineKinds DEF IfFinal
  <2>3. wire' = Append(Append(wire, info), final)
    BY <1>1 DEF Answer
  <2> HIDE DEF info, final
  <2>4. Append(wire, info) \in Seq(Lines) /\ Cardinality(FinalsOf(Append(wire, info))) = Cardinality(FinalsOf(wire)) + 0
    BY <1>0, <2>2, FinalsAppend, AppendFacts
  <2>5. Cardinality(FinalsOf(Append(Append(wire, info), final))) = Cardinality(FinalsOf(Append(wire, info))) + 1
    BY <2>2, <2>4, FinalsAppend
  <2> QED
    BY <1>0, <1>a, <2>1, <2>3, <2>4, <2>5
<1>2. ASSUME route PROVE Outstanding' = Outstanding - IfFinal(Head(wire)) /\ Outstanding >= IfFinal(Head(wire))
  <2>1. wire # << >> /\ wire' = Tail(wire) /\ modem' = modem
    BY <1>2 DEF route
  <2>2. Cardinality(FinalsOf(wire)) = Cardinality(FinalsOf(Tail(wire))) + IfFinal(Head(wire))
    BY <1>0, <2>1, FinalsTail
  <2>3. IfFinal(Head(wire)) \in {0, 1}
    BY DEF IfFinal
  <2> QED
    BY <1>0, <1>a, <2>1, <2>2, <2>3
<1>3. ASSUME ModemEvent PROVE Outstanding' <= Outstanding
  <2>1. CASE wire' = Append(wire, [kind |-> "urc"]) /\ modem' = modem
    <3>1. [kind |-> "urc"] \in Lines /\ IfFinal([kind |-> "urc"]) = 0
      BY LineKinds DEF IfFinal
    <3>2. Cardinality(FinalsOf(Append(wire, [kind |-> "urc"]))) = Cardinality(FinalsOf(wire)) + 0
      BY <1>0, <3>1, FinalsAppend
    <3> QED
      BY <1>0, <1>a, <2>1, <3>2
  <2>2. CASE modem' = << >> /\ wire' = wire
    <3>1. Len(modem') = 0
      BY <2>2, EmptySeq
    <3> QED
      BY <1>0, <1>a, <2>2, <3>1
  <2> QED
    BY <1>3, <2>1, <2>2 DEF ModemEvent
<1>4. ASSUME discardInput, ~SlowModem PROVE Outstanding' = 0
  <2>1. wire' = << >> /\ modem' = << >>
    BY <1>4 DEF discardInput
  <2>2. FinalsOf(wire') = {} /\ Len(modem') = 0
    BY <2>1, EmptySeq DEF FinalsOf
  <2> QED
    BY <1>a, <2>2, FS_EmptySet
<1>5. ASSUME EndPartialLine PROVE Outstanding' >= Outstanding
  <2>1. wire' = wire
    BY <1>5 DEF EndPartialLine
  <2>2. Len(modem') >= Len(modem)
    <3>1. CASE line = 0 \/ modem' = modem
      BY <1>0, <1>5, <3>1 DEF EndPartialLine
    <3>2. CASE line # 0 /\ modem' # modem
      <4>1. line \in Commands
        BY <3>2, ChannelAssumption DEF ChannelTypeOK, Commands
      <4>2. Len(Append(modem, line)) = Len(modem) + 1
        BY <1>0, <4>1, AppendFacts
      <4>3. modem' = Append(modem, line)
        BY <1>5, <3>2 DEF EndPartialLine
      <4> QED
        BY <1>0, <4>2, <4>3
    <3> QED
      BY <3>1, <3>2
  <2> QED
    BY <1>0, <1>a, <2>1, <2>2
<1>6. ASSUME write PROVE Outstanding' = IF written' THEN Outstanding + 1 ELSE Outstanding
  <2>1. wire' = wire
    BY <1>6 DEF write
  <2>2. CASE written' = TRUE /\ modem' = Append(modem, sent)
    <3>1. sent \in Commands
      <4>1. Len(answers) \in Nat /\ caller # "idle" /\ Len(answers) = sent - 1
        BY <1>6, LenProperties DEF write, CallerInv, ChannelTypeOK
      <4> QED
        BY <4>1 DEF Commands, ChannelTypeOK
    <3>2. Len(Append(modem, sent)) = Len(modem) + 1
      BY <1>0, <3>1, AppendFacts
    <3> QED
      BY <1>0, <1>a, <2>1, <2>2, <3>2
  <2>3. CASE written' = FALSE /\ modem' = modem
    BY <1>0, <1>a, <2>1, <2>3
  <2> QED
    BY <1>6, <2>2, <2>3 DEF write
<1>7. UNCHANGED <<modem, wire>> => Outstanding' = Outstanding
  BY DEF Outstanding, Finals
<1> QED
  BY <1>1, <1>2, <1>3, <1>4, <1>5, <1>6, <1>7

\* With nothing owed, or nothing to come, nothing is outstanding, and no line is on its way that a
\* command could take for its own.
LEMMA NothingOutstanding ==
  ASSUME ChannelTypeOK, Paired, OwedInv, settle, ~SlowModem
  PROVE  Outstanding = 0 /\ modem = << >> /\ \A i \in DOMAIN wire : wire[i].kind = "urc"
<1>0. /\ wire \in Seq(Lines) /\ modem \in Seq(Commands)
      /\ Outstanding \in Nat /\ Outstanding = Len(modem) + Cardinality(FinalsOf(wire)) /\ Len(modem) \in Nat
      /\ Cardinality(FinalsOf(wire)) \in Nat
  BY OutstandingFacts DEF ChannelTypeOK
<1>1. \A i \in DOMAIN wire : wire[i].kind \in {"info", "final", "urc"}
  BY <1>0, LineKinds, ElementOfSeq, LenProperties
<1>2. CASE owed = 0
  <2>1. Outstanding <= 0
    BY <1>2 DEF OwedInv, settle
  <2>2. Len(modem) = 0 /\ Cardinality(FinalsOf(wire)) = 0 /\ Outstanding = 0
    BY <1>0, <2>1
  <2>3. modem = << >> /\ \A i \in DOMAIN wire : wire[i].kind # "final"
    BY <1>0, <2>2, EmptySeq, FinalsFinite
  <2>4. \A i \in DOMAIN wire : wire[i].kind # "info"
    BY <2>3 DEF Paired
  <2> QED
    BY <1>1, <2>2, <2>3, <2>4
<1>3. CASE modem = << >> /\ GotAnswer
  <2>1. FinalsOf(wire) = {}
    BY <1>3 DEF FinalsOf, GotAnswer
  <2>2. Outstanding = 0
    BY <1>0, <1>3, <2>1, FS_EmptySet, EmptySeq
  <2> QED
    BY <1>3, <2>2 DEF GotAnswer
<1> QED
  BY <1>2, <1>3 DEF settle, MayGiveUp

\* Every step keeps what is owed in line with what is outstanding.
LEMMA OwedStep ==
  ASSUME ChannelInv, ChannelTypeOK', CallerInv', [ChannelNext]_channelState
  PROVE  OwedInv'
<1> USE DEF callerVars, channelVars, lineVars
<1>0. /\ ChannelTypeOK /\ CallerInv /\ Paired /\ OwedInv
      /\ owed \in Nat /\ Outstanding \in Nat /\ Outstanding' \in Nat
      /\ modemEvents \in Nat
  <2>1. ChannelTypeOK /\ CallerInv /\ Paired /\ OwedInv
    BY DEF ChannelInv
  <2>2. Outstanding \in Nat
    BY <2>1, OutstandingFacts
  <2>3. Outstanding' \in Nat
    <3>1. modem' \in Seq(Commands) /\ wire' \in Seq(Lines)
      BY DEF ChannelTypeOK
    <3>2. Len(modem') \in Nat /\ Cardinality(FinalsOf(wire')) \in Nat
      BY <3>1, LenProperties, FinalsFinite
    <3> QED
      BY <3>2 DEF Outstanding, Finals, FinalsOf
  <2>4. owed \in Nat /\ modemEvents \in Nat
    BY <2>1, ChannelAssumption DEF ChannelTypeOK
  <2> QED
    BY <2>1, <2>2, <2>3, <2>4
<1>1. CASE Command
  <2>1. Outstanding' = Outstanding
    BY <1>0, <1>1, OutstandingStep DEF Command
  <2> QED
    BY <1>0, <1>1, <2>1 DEF Command, OwedInv, InFlight
<1>2. CASE EndPartialLine
  <2>1. Outstanding' >= Outstanding
    BY <1>0, <1>2, OutstandingStep
  <2> QED
    BY <1>0, <1>2, <2>1 DEF EndPartialLine, OwedInv, InFlight
<1>3. CASE discardInput
  <2>1. ~SlowModem => Outstanding' = 0
    BY <1>0, <1>3, OutstandingStep
  <2> QED
    BY <1>0, <1>3, <2>1 DEF discardInput, OwedInv, InFlight
<1>4. CASE settle
  <2>1. Outstanding' = Outstanding
    BY <1>0, <1>4, OutstandingStep DEF settle
  <2>2. ~SlowModem => Outstanding = 0
    BY <1>0, <1>4, NothingOutstanding
  <2> QED
    BY <1>0, <1>4, <2>1, <2>2 DEF settle, OwedInv, InFlight
<1>5. CASE write
  <2>1. Outstanding' = IF written' THEN Outstanding + 1 ELSE Outstanding
    BY <1>0, <1>5, OutstandingStep
  <2> QED
    BY <1>0, <1>5, <2>1 DEF write, OwedInv, InFlight
<1>6. CASE awaitResponse
  <2>1. Outstanding' = Outstanding
    BY <1>0, <1>6, OutstandingStep DEF awaitResponse
  <2> QED
    BY <1>0, <1>6, <2>1 DEF awaitResponse, OwedInv, InFlight
<1>7. CASE takeResponse
  <2>1. Outstanding' = Outstanding
    BY <1>0, <1>7, OutstandingStep DEF takeResponse
  <2>2. owed = 0
    BY <1>0, <1>7 DEF takeResponse, CallerInv, InFlight
  <2> QED
    BY <1>0, <1>7, <2>1, <2>2 DEF takeResponse, OwedInv, InFlight
<1>8. CASE route
  <2>1. Outstanding' = Outstanding - IfFinal(Head(wire)) /\ Outstanding >= IfFinal(Head(wire))
    BY <1>0, <1>8, OutstandingStep
  <2>2. UNCHANGED <<caller, written, modemEvents>>
    BY <1>8 DEF route
  <2>3. CASE caller \in InFlight
    <3>1. pending # 0
      <4>1. Len(answers) \in Nat /\ Len(answers) = sent - 1 /\ pending = sent
        BY <1>0, <2>3, LenProperties DEF CallerInv, InFlight, ChannelTypeOK
      <4>2. sent \in Nat
        BY <1>0, ChannelAssumption DEF ChannelTypeOK
      <4> QED
        BY <4>1, <4>2
    <3>2. CASE Head(wire).kind = "final"
      <4>1. IfFinal(Head(wire)) = 1 /\ complete'
        BY <1>8, <3>1, <3>2 DEF route, IfFinal
      <4> QED
        BY <1>0, <2>1, <2>2, <2>3, <4>1 DEF OwedInv, InFlight
    <3>3. CASE Head(wire).kind # "final"
      <4>1. IfFinal(Head(wire)) = 0 /\ complete' = complete
        BY <1>0, <1>8, <3>1, <3>3 DEF route, IfFinal, ChannelTypeOK
      <4>2. Outstanding' = Outstanding
        BY <1>0, <2>1, <4>1
      <4>3. caller = "writing" /\ ~SlowModem => collected' = {}
        <5> SUFFICES ASSUME caller = "writing", ~SlowModem PROVE collected' = {}
          OBVIOUS
        <5>1. Outstanding = 0 /\ collected = {}
          BY <1>0 DEF OwedInv
        <5>2. wire \in Seq(Lines) /\ Cardinality(FinalsOf(wire)) = 0
          <6>1. /\ Len(modem) \in Nat /\ Cardinality(FinalsOf(wire)) \in Nat
                /\ Outstanding = Len(modem) + Cardinality(FinalsOf(wire))
            BY <1>0, OutstandingFacts
          <6>2. Cardinality(FinalsOf(wire)) = 0
            BY <5>1, <6>1
          <6> QED
            BY <1>0, <6>2 DEF ChannelTypeOK
        <5>3. \A i \in DOMAIN wire : wire[i].kind # "info"
          BY <1>0, <5>2, FinalsFinite DEF Paired
        <5>4. Head(wire) = wire[1] /\ 1 \in DOMAIN wire /\ Head(wire) \in Lines
          BY <1>8, <5>2, TailFacts DEF route
        <5>5. Head(wire).kind = "urc"
          BY <3>3, <5>3, <5>4, LineKinds
        <5> QED
          BY <1>8, <5>1, <5>5 DEF route
      <4> QED
        BY <1>0, <2>2, <2>3, <4>1, <4>2, <4>3 DEF OwedInv, InFlight
    <3> QED
      BY <3>2, <3>3
  <2>4. CASE caller \notin InFlight
    <3>1. pending = 0
      BY <1>0, <2>4 DEF CallerInv
    <3>2. owed' = IF owed > 0 /\ Head(wire).kind = "final" THEN owed - 1 ELSE owed
      BY <1>8, <3>1 DEF route
    <3> QED
      BY <1>0, <2>1, <2>2, <2>4, <3>2 DEF OwedInv, InFlight, IfFinal
  <2> QED
    BY <2>3, <2>4
<1>9. CASE Answer
  <2>1. Outstanding' = Outstanding
    BY <1>0, <1>9, OutstandingStep
  <2> QED
    BY <1>0, <1>9, <2>1 DEF Answer, OwedInv, InFlight
<1>10. CASE ModemEvent
  <2>1. Outstanding' <= Outstanding /\ modemEvents' # 0
    BY <1>0, <1>10, OutstandingStep DEF ModemEvent
  <2>2. UNCHANGED <<callerVars, channelVars>>
    BY <1>10 DEF ModemEvent
  <2> QED
    BY <1>0, <2>1, <2>2 DEF OwedInv, InFlight
<1>11. CASE UNCHANGED channelState
  <2>1. Outstanding' = Outstanding
    BY <1>0, <1>11, OutstandingStep DEF channelState
  <2> QED
    BY <1>0, <1>11, <2>1 DEF channelState, OwedInv, InFlight
<1> QED
  BY <1>1, <1>2, <1>3, <1>4, <1>5, <1>6, <1>7, <1>8, <1>9, <1>10, <1>11 DEF ChannelNext, CallerStep

\* Every step keeps what is said while a command is in flight about it.
LEMMA OwnStep ==
  ASSUME ChannelInv, [ChannelNext]_channelState
  PROVE  OwnInv'
<1> SUFFICES ASSUME ~SlowModem PROVE OwnInv'
  BY DEF OwnInv
<1> USE DEF callerVars, channelVars, lineVars, InFlight
<1>0. /\ ChannelTypeOK /\ CallerInv /\ Paired /\ OwedInv /\ OwnInv
      /\ wire \in Seq(Lines) /\ modem \in Seq(Commands) /\ sent \in Nat
  BY ChannelAssumption DEF ChannelInv, ChannelTypeOK
<1>a. \A i \in DOMAIN answers : answers[i].of \subseteq {i}
  BY <1>0 DEF OwnInv
<1>b. caller \in InFlight =>
        /\ collected \subseteq {sent} /\ \A i \in DOMAIN modem : modem[i] = sent
        /\ \A i \in DOMAIN wire : wire[i].kind = "urc" \/ wire[i].of = sent
  BY <1>0 DEF OwnInv
<1>c. caller \in InFlight => Len(answers) = sent - 1 /\ pending = sent /\ sent \in Commands
  <2> SUFFICES ASSUME caller \in InFlight PROVE Len(answers) = sent - 1 /\ pending = sent /\ sent \in Commands
    OBVIOUS
  <2>1. Len(answers) \in Nat /\ Len(answers) = sent - 1 /\ pending = sent
    BY <1>0, LenProperties DEF ChannelTypeOK, CallerInv
  <2> QED
    BY <1>0, <2>1 DEF Commands, ChannelTypeOK
<1>1. CASE Command
  BY <1>1, <1>a DEF Command, OwnInv
<1>2. CASE EndPartialLine
  BY <1>2, <1>a DEF EndPartialLine, OwnInv
<1>3. CASE discardInput
  BY <1>3, <1>a DEF discardInput, OwnInv
<1>4. CASE settle
  <2>1. modem = << >> /\ \A i \in DOMAIN wire : wire[i].kind = "urc"
    BY <1>0, <1>4, NothingOutstanding
  <2>2. UNCHANGED <<answers, sent, modem, wire>> /\ collected' = {}
    BY <1>4 DEF settle
  <2>3. DOMAIN modem = {}
    BY <2>1
  <2> QED
    BY <1>a, <2>1, <2>2, <2>3 DEF OwnInv
<1>5. CASE write
  <2>1. UNCHANGED <<answers, sent, wire, collected>> /\ (modem' = modem \/ modem' = Append(modem, sent)) /\ caller = "writing"
    BY <1>5 DEF write
  <2>2. \A i \in DOMAIN modem' : modem'[i] = sent
    <3>1. CASE modem' = modem
      BY <1>b, <2>1, <3>1
    <3>2. CASE modem' = Append(modem, sent)
      <4>1. /\ DOMAIN Append(modem, sent) = 1 .. Len(modem) + 1 /\ DOMAIN modem = 1 .. Len(modem) /\ Len(modem) \in Nat
            /\ \A i \in 1 .. Len(modem) : Append(modem, sent)[i] = modem[i]
            /\ Append(modem, sent)[Len(modem) + 1] = sent
        BY <1>0, <1>c, <2>1, AppendFacts
      <4> QED
        BY <1>b, <2>1, <3>2, <4>1
    <3> QED
      BY <2>1, <3>1, <3>2
  <2> QED
    BY <1>a, <1>b, <2>1, <2>2 DEF OwnInv
<1>6. CASE awaitResponse
  BY <1>6, <1>a, <1>b DEF awaitResponse, OwnInv
<1>7. CASE takeResponse
  <2> DEFINE taken == [of |-> collected, complete |-> complete]
  <2>1. collected \subseteq {sent} /\ Len(answers) = sent - 1 /\ caller' = "idle" /\ answers' = Append(answers, taken)
    BY <1>7, <1>b, <1>c DEF takeResponse
  <2>2. answers \in Seq([of : SUBSET Commands, complete : BOOLEAN]) /\ taken \in [of : SUBSET Commands, complete : BOOLEAN]
    BY <1>0 DEF ChannelTypeOK
  <2>3. /\ DOMAIN Append(answers, taken) = 1 .. Len(answers) + 1 /\ DOMAIN answers = 1 .. Len(answers)
        /\ \A i \in 1 .. Len(answers) : Append(answers, taken)[i] = answers[i]
        /\ Append(answers, taken)[Len(answers) + 1] = taken
    <3> HIDE DEF taken
    <3> QED
      BY <2>2, AppendFacts
  <2>4. \A i \in DOMAIN answers' : answers'[i].of \subseteq {i}
    <3> SUFFICES ASSUME NEW i \in DOMAIN answers' PROVE answers'[i].of \subseteq {i}
      OBVIOUS
    <3>1. CASE i \in 1 .. Len(answers)
      BY <1>a, <2>1, <2>3, <3>1
    <3>2. CASE i = Len(answers) + 1
      <4>1. i = sent /\ answers'[i] = taken
        BY <1>0, <2>1, <2>3, <3>2
      <4> QED
        BY <2>1, <4>1
    <3> QED
      BY <2>1, <2>3, <3>1, <3>2
  <2> QED
    BY <2>1, <2>4 DEF OwnInv
<1>8. CASE route
  <2>1. /\ wire # << >> /\ wire' = Tail(wire) /\ UNCHANGED <<answers, caller, sent, modem>>
        /\ collected' = collected \/ (Head(wire).kind # "urc" /\ collected' = collected \cup {Head(wire).of})
    BY <1>8 DEF route
  <2>2. /\ DOMAIN Tail(wire) = 1 .. Len(wire) - 1 /\ DOMAIN wire = 1 .. Len(wire) /\ Len(wire) \in Nat \ {0}
        /\ \A i \in 1 .. Len(wire) - 1 : Tail(wire)[i] = wire[i + 1]
        /\ Head(wire) = wire[1]
    BY <1>0, <2>1, TailFacts
  <2>3. CASE caller \in InFlight
    <3>1. \A i \in DOMAIN wire' : wire'[i].kind = "urc" \/ wire'[i].of = sent
      BY <1>b, <2>1, <2>2, <2>3
    <3>2. Head(wire).kind = "urc" \/ Head(wire).of = sent
      BY <1>b, <2>2, <2>3
    <3> QED
      BY <1>a, <1>b, <2>1, <2>3, <3>1, <3>2 DEF OwnInv
  <2>4. CASE caller \notin InFlight
    BY <1>a, <2>1, <2>4 DEF OwnInv
  <2> QED
    BY <2>3, <2>4
<1>9. CASE Answer
  <2>1. UNCHANGED <<answers, caller, sent, collected>> /\ modem # << >> /\ modem' = Tail(modem)
    BY <1>9 DEF Answer
  <2>2. CASE caller \in InFlight
    <3>1. /\ DOMAIN Tail(modem) = 1 .. Len(modem) - 1 /\ DOMAIN modem = 1 .. Len(modem) /\ Len(modem) \in Nat \ {0}
          /\ \A i \in 1 .. Len(modem) - 1 : Tail(modem)[i] = modem[i + 1]
          /\ Head(modem) = modem[1]
      BY <1>0, <2>1, TailFacts
    <3>2. Head(modem) = sent /\ \A i \in DOMAIN modem' : modem'[i] = sent
      BY <1>b, <2>1, <2>2, <3>1
    <3> DEFINE info == [kind |-> "info", of |-> sent]
               final == [kind |-> "final", of |-> sent]
    <3>3. info \in Lines /\ final \in Lines /\ info.of = sent /\ final.of = sent
      BY <1>c, <2>2, LineKinds
    <3>4. wire' = Append(Append(wire, info), final)
      BY <1>9, <3>2 DEF Answer
    <3> HIDE DEF info, final
    <3>5. /\ Append(wire, info) \in Seq(Lines) /\ Len(Append(wire, info)) = Len(wire) + 1 /\ Len(wire) \in Nat
          /\ DOMAIN wire = 1 .. Len(wire)
          /\ \A i \in 1 .. Len(wire) : Append(wire, info)[i] = wire[i]
          /\ Append(wire, info)[Len(wire) + 1] = info
      BY <1>0, <3>3, AppendFacts
    <3> DEFINE longer == Append(wire, info)
    <3> HIDE DEF longer
    <3>6. /\ DOMAIN wire' = 1 .. Len(longer) + 1
          /\ \A i \in 1 .. Len(longer) : wire'[i] = longer[i]
          /\ wire'[Len(longer) + 1] = final
      BY <3>3, <3>4, <3>5, AppendFacts DEF longer
    <3>7. \A i \in DOMAIN wire' : wire'[i].kind = "urc" \/ wire'[i].of = sent
      <4> SUFFICES ASSUME NEW i \in DOMAIN wire' PROVE wire'[i].kind = "urc" \/ wire'[i].of = sent
        OBVIOUS
      <4>1. CASE i \in 1 .. Len(wire)
        <5>1. wire'[i] = wire[i] /\ i \in DOMAIN wire
          BY <3>5, <3>6, <4>1 DEF longer
        <5> QED
          BY <1>b, <2>2, <5>1
      <4>2. CASE i = Len(wire) + 1
        BY <3>3, <3>5, <3>6, <4>2 DEF longer
      <4>3. CASE i = Len(wire) + 2
        BY <3>3, <3>5, <3>6, <4>3 DEF longer
      <4> QED
        BY <3>5, <3>6, <4>1, <4>2, <4>3 DEF longer
    <3> QED
      BY <1>a, <1>b, <2>1, <2>2, <3>2, <3>7 DEF OwnInv
  <2>3. CASE caller \notin InFlight
    BY <1>a, <2>1, <2>3 DEF OwnInv
  <2> QED
    BY <2>2, <2>3
<1>10. CASE ModemEvent
  <2>1. UNCHANGED <<answers, caller, sent, collected>>
    BY <1>10 DEF ModemEvent
  <2>2. CASE wire' = Append(wire, [kind |-> "urc"]) /\ modem' = modem
    <3>1. /\ DOMAIN wire' = 1 .. Len(wire) + 1 /\ DOMAIN wire = 1 .. Len(wire) /\ Len(wire) \in Nat
          /\ \A i \in 1 .. Len(wire) : wire'[i] = wire[i]
          /\ wire'[Len(wire) + 1] = [kind |-> "urc"]
      BY <1>0, <2>2, LineKinds, AppendFacts
    <3>2. caller \in InFlight => \A i \in DOMAIN wire' : wire'[i].kind = "urc" \/ wire'[i].of = sent
      BY <1>b, <3>1
    <3> QED
      BY <1>a, <1>b, <2>1, <2>2, <3>2 DEF OwnInv
  <2>3. CASE wire' = wire /\ modem' = << >>
    <3>1. DOMAIN modem' = {}
      BY <2>3
    <3> QED
      BY <1>a, <1>b, <2>1, <2>3, <3>1 DEF OwnInv
  <2> QED
    BY <1>10, <2>2, <2>3 DEF ModemEvent
<1>11. CASE UNCHANGED channelState
  BY <1>11, <1>a, <1>b DEF channelState, OwnInv
<1> QED
  BY <1>1, <1>2, <1>3, <1>4, <1>5, <1>6, <1>7, <1>8, <1>9, <1>10, <1>11 DEF ChannelNext, CallerStep

\* Every step of the channel keeps the whole of it.
LEMMA ChannelStep ==
  ASSUME ChannelInv, [ChannelNext]_channelState
  PROVE  ChannelInv'
<1>1. ChannelTypeOK /\ CallerInv /\ Paired
  BY DEF ChannelInv
<1>2. ChannelTypeOK' /\ CallerInv' /\ Paired'
  BY <1>1, ChannelTypeStep, CallerInvStep, PairedStep
<1> QED
  BY <1>2, OwedStep, OwnStep DEF ChannelInv

\* Nothing is said or owed at first.
LEMMA ChannelStart == ChannelInit => ChannelInv
<1> SUFFICES ASSUME ChannelInit PROVE ChannelInv
  OBVIOUS
<1>1. answers = << >> /\ modem = << >> /\ wire = << >> /\ DOMAIN wire = {} /\ DOMAIN answers = {} /\ Len(answers) = 0 /\ Len(modem) = 0
  BY EmptySeq DEF ChannelInit
<1>2. ChannelTypeOK
  <2>1. answers \in Seq([of : SUBSET Commands, complete : BOOLEAN]) /\ modem \in Seq(Commands) /\ wire \in Seq(Lines)
    BY <1>1, EmptySeq
  <2>2. 0 \in 0 .. MaxCommands /\ 0 \in 0 .. MaxEvents
    BY ChannelAssumption
  <2> QED
    BY <2>1, <2>2 DEF ChannelInit, ChannelTypeOK
<1>3. CallerInv /\ Paired /\ OwnInv
  BY <1>1 DEF ChannelInit, CallerInv, Paired, OwnInv, InFlight
<1>4. Finals = {}
  BY <1>1 DEF Finals
<1>5. Outstanding = 0
  BY <1>1, <1>4, FS_EmptySet DEF Outstanding
<1>6. OwedInv
  BY <1>5 DEF ChannelInit, OwedInv, InFlight
<1> QED
  BY <1>2, <1>3, <1>6 DEF ChannelInv

\* The invariant states what AnswersSound does.
LEMMA ChannelFollows == ChannelInv => ChannelTypeOK /\ OwnAnswer /\ NothingOwedInVain
<1> SUFFICES ASSUME ChannelInv PROVE ChannelTypeOK /\ OwnAnswer /\ NothingOwedInVain
  OBVIOUS
<1>1. ChannelTypeOK /\ OwnAnswer
  BY DEF ChannelInv, OwnInv, OwnAnswer
<1>2. ASSUME pending = 0, modemEvents = 0 PROVE owed <= Outstanding
  <2>1. caller \in InFlight => sent # 0
    <3>1. Len(answers) \in Nat /\ sent \in Nat
      BY <1>1, LenProperties, ChannelAssumption DEF ChannelTypeOK
    <3> QED
      BY <3>1 DEF ChannelInv, CallerInv, InFlight
  <2>2. caller \notin InFlight
    BY <1>2, <2>1 DEF ChannelInv, CallerInv
  <2> QED
    BY <1>2, <2>2 DEF ChannelInv, OwedInv
<1> QED
  BY <1>1, <1>2 DEF NothingOwedInVain, Outstanding

-----------------------------------------------------------------------------
(* The sockets: types *)

\* What the probe after several unanswered commands finds, and what is done then.
Unchanged(known, closing) ==
  /\ sockets' = known /\ unclosed' = (unclosed \/ closing)
  /\ uartRate' = uartRate \/ (uartRate' = "fast" /\ modemRate = "fast")
  /\ UNCHANGED <<modemVars, mayReset, restarted, eventVars>>
FoundRestarted(closing) ==
  /\ sockets' = {} /\ unclosed' = (unclosed \/ closing) /\ restarted' = TRUE
  /\ modemRate = "default" /\ uartRate = "fast" /\ uartRate' = "default"
  /\ UNCHANGED <<modemVars, mayReset>>
WasReset ==
  /\ sockets' = {} /\ unclosed' = FALSE /\ restarted' = TRUE /\ mayReset' = FALSE
  /\ modemState' = "up" /\ modemRate' = "default" /\ uartRate' = "default" /\ setUp' = FALSE
  /\ opened' = NothingOpen /\ urcs' = << >> /\ UNCHANGED upsets
LeftAlone(known, closing) ==
  /\ sockets' = {} /\ unclosed' = (unclosed \/ closing \/ known # {}) /\ uartRate' = "fast"
  /\ UNCHANGED <<modemVars, mayReset, restarted>>

\* Transports that lose a socket are told so.
LEMMA DropTypes ==
  ASSUME SocketTypeOK, NEW all, dropAllSockets(all)
  PROVE  sockets' = {} /\ {closedByPeer', dataSignal'} \subseteq [Transports -> BOOLEAN]
  BY DEF SocketTypeOK, dropAllSockets

\* An unanswered command ends in one of the four ways.
LEMMA ResetOutcome ==
  ASSUME SocketTypeOK, NEW known, NEW closing, resetIfUnresponsive(known, closing)
  PROVE  /\ ~Hears
         /\ unanswered' \in 0 .. UnansweredBeforeReset - 1
         /\ {closedByPeer', dataSignal'} \subseteq [Transports -> BOOLEAN]
         /\ Unchanged(known, closing) \/ FoundRestarted(closing) \/ WasReset \/ LeftAlone(known, closing)
<1>1. unanswered' \in 0 .. UnansweredBeforeReset - 1
  <2>1. unanswered \in Nat /\ UnansweredBeforeReset \in Nat \ {0}
    BY SocketAssumption DEF SocketTypeOK
  <2>2. unanswered' = (unanswered + 1) % UnansweredBeforeReset
    BY DEF resetIfUnresponsive
  <2> QED
    BY <2>1, <2>2
<1>2. ~Hears /\ {modemRate, uartRate} \subseteq {"fast", "default"} /\ {closedByPeer, dataSignal} \subseteq [Transports -> BOOLEAN]
  BY DEF resetIfUnresponsive, SocketTypeOK
<1>3. CASE /\ unanswered' # 0 \/ (modemState = "up" /\ modemRate = "fast")
           /\ uartRate' = IF unanswered' = 0 THEN "fast" ELSE uartRate
           /\ sockets' = known /\ unclosed' = (unclosed \/ closing)
           /\ UNCHANGED <<modemVars, mayReset, restarted, eventVars>>
  BY <1>1, <1>2, <1>3 DEF Unchanged, eventVars
<1>4. CASE /\ unanswered' = 0 /\ modemState = "up" /\ modemRate = "default"
           /\ uartRate' = "default" /\ restarted' = TRUE /\ unclosed' = (unclosed \/ closing)
           /\ dropAllSockets(known)
           /\ UNCHANGED <<modemVars, mayReset>>
  BY <1>1, <1>2, <1>4, DropTypes DEF FoundRestarted, Hears
<1>5. CASE /\ unanswered' = 0 /\ modemState # "up" /\ mayReset
           /\ reset /\ restarted' = TRUE /\ dropAllSockets(known)
  BY <1>1, <1>2, <1>5, DropTypes DEF WasReset, reset
<1>6. CASE /\ unanswered' = 0 /\ modemState # "up" /\ ~mayReset
           /\ uartRate' = "fast" /\ unclosed' = (unclosed \/ closing \/ known # {})
           /\ dropAllSockets(known)
           /\ UNCHANGED <<modemVars, mayReset, restarted>>
  BY <1>1, <1>2, <1>6, DropTypes DEF LeftAlone
<1> QED
  BY <1>1, <1>2, <1>3, <1>4, <1>5, <1>6 DEF resetIfUnresponsive

\* What setting the modem up again leads to, if it restarted.
NotRestarted == ~restarted /\ UNCHANGED <<linkVars, givenUp, sockets, eventVars>>
IsSetUp ==
  /\ restarted /\ restarted' = FALSE /\ sockets' = {} /\ unclosed' = FALSE /\ givenUp' = FALSE
  /\ modemState' = "up" /\ modemRate' \in {"fast", "default"} /\ uartRate' = modemRate' /\ setUp' = TRUE
  /\ mayReset' \in BOOLEAN /\ opened' = NothingOpen /\ urcs' = << >> /\ UNCHANGED upsets
IsGivenUp ==
  /\ restarted /\ restarted' = FALSE /\ givenUp' = TRUE /\ uartRate' = "default"
  /\ UNCHANGED <<modemVars, mayReset, unclosed, sockets, eventVars>>

\* A modem that restarted is set up again or stays as it is.
LEMMA RecoverOutcome ==
  ASSUME SocketTypeOK, recoverIfRestarted
  PROVE  /\ NotRestarted \/ IsSetUp \/ IsGivenUp
         /\ {closedByPeer', dataSignal'} \subseteq [Transports -> BOOLEAN]
<1>1. CASE ~restarted /\ UNCHANGED <<linkVars, givenUp, sockets, eventVars>>
  BY <1>1 DEF NotRestarted, SocketTypeOK, eventVars
<1>2. CASE restarted /\ SetUpAgain /\ (modemState = "up" \/ mayReset)
  <2>1. dropAllSockets(sockets) /\ mayReset \in BOOLEAN
    BY <1>2 DEF SetUpAgain, SocketTypeOK
  <2>2. sockets' = {} /\ {closedByPeer', dataSignal'} \subseteq [Transports -> BOOLEAN]
    BY <2>1, DropTypes
  <2>3. IsSetUp
    BY <1>2, <2>1, <2>2 DEF IsSetUp, SetUpAgain
  <2> QED
    BY <2>2, <2>3
<1>3. CASE restarted /\ SetUpAgain /\ ~(modemState = "up" \/ mayReset)
  BY <1>3 DEF IsGivenUp, SetUpAgain, SocketTypeOK, eventVars
<1> QED
  BY <1>1, <1>2, <1>3 DEF recoverIfRestarted

\* The types of the driver's and the modem's variables.
LinkTypes ==
  /\ modemState \in {"up", "busy", "gone"} /\ modemRate \in {"fast", "default"} /\ uartRate \in {"fast", "default"}
  /\ opened \in [Handles -> Connections \cup {None}]
  /\ urcs \in Seq(Announcements \cup [event : {"Ready"}])
  /\ setUp \in BOOLEAN /\ restarted \in BOOLEAN /\ mayReset \in BOOLEAN /\ unclosed \in BOOLEAN
  /\ upsets \in 0 .. MaxUpsets
  /\ sockets \subseteq [id : Ids, handle : Handles, by : Transports]

\* An unanswered command and setting the modem up keep them.
LEMMA LinkTypesKept ==
  ASSUME SocketTypeOK, NEW known \in SUBSET sockets, NEW closing \in BOOLEAN
  PROVE  /\ LinkTypes
         /\ resetIfUnresponsive(known, closing) => LinkTypes'
         /\ recoverIfRestarted => LinkTypes' /\ givenUp' \in BOOLEAN
<1>1. LinkTypes /\ givenUp \in BOOLEAN
  BY DEF SocketTypeOK, LinkTypes
<1>2. NothingOpen \in [Handles -> Connections \cup {None}] /\ << >> \in Seq(Announcements \cup [event : {"Ready"}])
  BY EmptySeq DEF NothingOpen
<1>3. ASSUME resetIfUnresponsive(known, closing) PROVE LinkTypes'
  <2>1. CASE Unchanged(known, closing)
    BY <1>1, <2>1 DEF Unchanged, LinkTypes, modemVars
  <2>2. CASE FoundRestarted(closing)
    BY <1>1, <2>2 DEF FoundRestarted, LinkTypes, modemVars
  <2>3. CASE WasReset
    BY <1>1, <1>2, <2>3 DEF WasReset, LinkTypes
  <2>4. CASE LeftAlone(known, closing)
    BY <1>1, <2>4 DEF LeftAlone, LinkTypes, modemVars
  <2> QED
    BY <1>3, <2>1, <2>2, <2>3, <2>4, ResetOutcome
<1>4. ASSUME recoverIfRestarted PROVE LinkTypes' /\ givenUp' \in BOOLEAN
  <2>1. CASE NotRestarted
    BY <1>1, <2>1 DEF NotRestarted, LinkTypes, linkVars, modemVars
  <2>2. CASE IsSetUp
    BY <1>1, <1>2, <2>2 DEF IsSetUp, LinkTypes
  <2>3. CASE IsGivenUp
    BY <1>1, <2>3 DEF IsGivenUp, LinkTypes, modemVars
  <2> QED
    BY <1>4, <2>1, <2>2, <2>3, RecoverOutcome
<1> QED
  BY <1>1, <1>3, <1>4

-----------------------------------------------------------------------------
(* The sockets: whose they are *)

\* A socket is its transport's, which has one at a time.
OfItsTransport == \A s \in sockets : s.id = socket[s.by] /\ op[s.by] \notin {"none", "open"}

\* A new handle is the mutex holder's, and stands for the socket that it connects.
HandleHeld ==
  /\ newHandle # None => mutex = "ntp" \/ (mutex \in Transports /\ op[mutex] \in {"open", "connect"})
  /\ \A t \in Transports : op[t] = "connect" =>
       mutex = t /\ newHandle # None /\ \A s \in sockets : s.by = t => s.handle = newHandle

HolderInv == OfItsTransport /\ HandleHeld

\* A set that a function maps onto is no larger.
LEMMA RangeBound ==
  ASSUME NEW S, IsFiniteSet(S), NEW f, f = [x \in S |-> f[x]]
  PROVE  IsFiniteSet({f[x] : x \in S}) /\ Cardinality({f[x] : x \in S}) <= Cardinality(S)
<1>1. f \in Surjection(S, {f[x] : x \in S})
  <2>1. f \in [S -> {f[x] : x \in S}]
    OBVIOUS
  <2>2. \A y \in {f[x] : x \in S} : \E x \in S : f[x] = y
    OBVIOUS
  <2> QED
    BY <2>1, <2>2 DEF Surjection
<1> QED
  BY <1>1, FS_Surjection

\* There is an id that nothing refers to, however many sockets were lost on the way.
LEMMA FreshIdIsFree ==
  ASSUME SocketTypeOK, OfItsTransport, NEW t \in Transports
  PROVE  FreshId \in Ids /\ FreshId # None
<1> DEFINE T == Cardinality(Transports)
           H == Cardinality(Handles)
           ids == [h \in Handles |-> opened[h].id]
           used == {socket[x] : x \in Transports} \cup {ids[h] : h \in Handles}
<1>1. IsFiniteSet(Transports) /\ IsFiniteSet(Handles) /\ T \in Nat /\ H \in Nat /\ T # 0
  <2>1. IsFiniteSet(Transports) /\ IsFiniteSet(Handles)
    BY SocketAssumption
  <2> QED
    BY <2>1, FS_CardinalityType, FS_EmptySet
<1>2. IsFiniteSet({socket[x] : x \in Transports}) /\ Cardinality({socket[x] : x \in Transports}) <= T
  <2>1. socket = [x \in Transports |-> socket[x]]
    BY DEF SocketTypeOK
  <2> QED
    BY <1>1, <2>1, RangeBound
<1>3. IsFiniteSet({ids[h] : h \in Handles}) /\ Cardinality({ids[h] : h \in Handles}) <= H
  <2>1. ids = [h \in Handles |-> ids[h]]
    OBVIOUS
  <2> HIDE DEF ids
  <2> QED
    BY <1>1, <2>1, RangeBound
<1>4. IsFiniteSet(used) /\ Cardinality(used) <= T + H
  <2> DEFINE A == {socket[x] : x \in Transports}
             B == {ids[h] : h \in Handles}
  <2>0. IsFiniteSet(A) /\ Cardinality(A) <= T /\ IsFiniteSet(B) /\ Cardinality(B) <= H
    BY <1>2, <1>3
  <2>1. Cardinality(A) \in Nat /\ Cardinality(B) \in Nat
    BY <2>0, FS_CardinalityType
  <2>2. A \cap B \in SUBSET A
    OBVIOUS
  <2>3. IsFiniteSet(A \cap B)
    BY <1>2, <2>2, FS_Subset
  <2>4. Cardinality(A \cap B) \in Nat
    BY <2>3, FS_CardinalityType
  <2>5. IsFiniteSet(A \cup B) /\ Cardinality(A \cup B) = Cardinality(A) + Cardinality(B) - Cardinality(A \cap B)
    <3> HIDE DEF A, B
    <3> QED
      BY <2>0, FS_Union
  <2>6. Cardinality(A \cup B) <= T + H
    <3> HIDE DEF T, H, A, B
    <3> QED
      BY <1>1, <2>0, <2>1, <2>4, <2>5
  <2> QED
    BY <2>5, <2>6
<1>5. Cardinality(Ids) = 2 * T + H /\ IsFiniteSet(Ids)
  <2>1. 2 * T + H \in Nat /\ 2 * T + H # 0
    <3> HIDE DEF T, H
    <3> QED
      BY <1>1
  <2>2. Ids = 1 .. 2 * T + H
    BY DEF Ids
  <2> HIDE DEF T, H
  <2> QED
    BY <1>1, <2>1, <2>2, FS_Interval
<1>6. \E i \in Ids : i \notin used
  <2> SUFFICES ASSUME Ids \subseteq used PROVE FALSE
    OBVIOUS
  <2>1. Cardinality(Ids) <= Cardinality(used)
    <3> HIDE DEF used
    <3> QED
      BY <1>4, FS_Subset
  <2>2. Cardinality(used) \in Nat
    <3> HIDE DEF used
    <3> QED
      BY <1>4, FS_CardinalityType
  <2> HIDE DEF T, H, used
  <2> QED
    BY <1>1, <1>4, <1>5, <2>1, <2>2
<1>7. \E i \in Ids : /\ \A s \in sockets : s.id # i
                     /\ \A x \in Transports : socket[x] # i
                     /\ \A h \in Handles : opened[h] # None => opened[h].id # i
  <2>1. PICK i \in Ids : i \notin used
    BY <1>6
  <2>2. \A x \in Transports : socket[x] # i
    BY <2>1
  <2>3. \A h \in Handles : opened[h].id # i
    BY <2>1
  <2>4. \A s \in sockets : s.id # i
    <3>1. \A s \in sockets : s.by \in Transports
      BY DEF SocketTypeOK
    <3> QED
      BY <2>2, <3>1 DEF OfItsTransport
  <2> QED
    BY <2>2, <2>3, <2>4
<1>8. FreshId \in Ids
  BY <1>7 DEF FreshId
<1> QED
  BY <1>8, SocketAssumption

\* The handle that is being opened carries an id exactly if it is a transport's.
HandleKnown ==
  newHandle # None => opened[newHandle] = None \/ (opened[newHandle].id = None <=> mutex = "ntp")

\* A connection that was not there before.
LEMMA NewConnectionTypes ==
  ASSUME SocketTypeOK, NEW id \in Ids \cup {None}
  PROVE  /\ NewConnection(id) \in Connections /\ NewConnection(id).id = id
         /\ [NewConnection(id) EXCEPT !.live = TRUE] \in Connections
         /\ [NewConnection(id) EXCEPT !.live = TRUE].id = id
  BY DEF NewConnection, Connections

\* One that goes on is still the same.
LEMMA ConnectionGoesOn ==
  ASSUME NEW c \in Connections, NEW unread \in BOOLEAN, NEW drained \in BOOLEAN
  PROVE  /\ [c EXCEPT !.unread = unread, !.drained = drained] \in Connections
         /\ [c EXCEPT !.unread = unread, !.drained = drained].id = c.id
         /\ [c EXCEPT !.ended = TRUE] \in Connections /\ [c EXCEPT !.ended = TRUE].id = c.id
         /\ [c EXCEPT !.live = TRUE] \in Connections /\ [c EXCEPT !.live = TRUE].id = c.id
         /\ c # None /\ c.id \in Ids \cup {None} /\ c.unread \in BOOLEAN
  BY SocketAssumption DEF Connections

\* An action that changes what is known of a connection, and opens none.
Continues ==
  /\ opened' \in [Handles -> Connections \cup {None}]
  /\ \A h \in Handles : (opened'[h] = None <=> opened[h] = None) /\ (opened[h] # None => opened'[h].id = opened[h].id)

\* The modem's part of an action by which connections continue.
LEMMA PeerContinues ==
  ASSUME SocketTypeOK, NEW h \in Handles, PeerActs(h)
  PROVE  Continues
<1>1. opened[h] \in Connections /\ opened \in [Handles -> Connections \cup {None}]
  BY DEF PeerActs, SocketTypeOK
<1>2. CASE opened' = [opened EXCEPT ![h].unread = TRUE, ![h].drained = FALSE]
  <2>1. opened' = [opened EXCEPT ![h] = [opened[h] EXCEPT !.unread = TRUE, !.drained = FALSE]]
    BY <1>1, <1>2
  <2>2. [opened[h] EXCEPT !.unread = TRUE, !.drained = FALSE] \in Connections
        /\ [opened[h] EXCEPT !.unread = TRUE, !.drained = FALSE].id = opened[h].id
    BY <1>1, ConnectionGoesOn
  <2> QED
    BY <1>1, <2>1, <2>2, SocketAssumption DEF Continues
<1>3. CASE opened' = [opened EXCEPT ![h].ended = TRUE]
  <2>1. opened' = [opened EXCEPT ![h] = [opened[h] EXCEPT !.ended = TRUE]]
    BY <1>1, <1>3
  <2>2. [opened[h] EXCEPT !.ended = TRUE] \in Connections /\ [opened[h] EXCEPT !.ended = TRUE].id = opened[h].id
    BY <1>1, ConnectionGoesOn
  <2> QED
    BY <1>1, <2>1, <2>2, SocketAssumption DEF Continues
<1> QED
  BY <1>2, <1>3 DEF PeerActs

\* A socket that connects was known before.
LEMMA ConnectContinues ==
  ASSUME SocketTypeOK, newHandle # None, opened[newHandle] # None, opened' = [opened EXCEPT ![newHandle].live = TRUE]
  PROVE  Continues
<1>1. newHandle \in Handles /\ opened[newHandle] \in Connections /\ opened \in [Handles -> Connections \cup {None}]
  BY DEF SocketTypeOK
<1>2. opened' = [opened EXCEPT ![newHandle] = [opened[newHandle] EXCEPT !.live = TRUE]]
  BY <1>1
<1>3. [opened[newHandle] EXCEPT !.live = TRUE] \in Connections /\ [opened[newHandle] EXCEPT !.live = TRUE].id = opened[newHandle].id
  BY <1>1, ConnectionGoesOn
<1> QED
  BY <1>1, <1>2, <1>3, SocketAssumption DEF Continues

\* What a read does to its socket's connection, and what it finds.
ReadOf(s, t) ==
  LET c == opened[s.handle]
  IN /\ moreWaiting' = [moreWaiting EXCEPT ![t] = c # None /\ c.unread]
     /\ closedByPeer' = [closedByPeer EXCEPT ![t] = @ \/ (c # None /\ ~c.unread /\ c.ended)]
     /\ opened' = IF c = None THEN opened
                  ELSE [opened EXCEPT ![s.handle].unread = FALSE, ![s.handle].drained = ~c.unread]

\* A read is about a connection that goes on.
LEMMA ReadContinues ==
  ASSUME SocketTypeOK, NEW t \in Transports, NEW s \in sockets, ReadOf(s, t)
  PROVE  Continues /\ {moreWaiting', closedByPeer'} \subseteq [Transports -> BOOLEAN]
<1>1. /\ s.handle \in Handles /\ opened \in [Handles -> Connections \cup {None}]
      /\ opened[s.handle] \in Connections \cup {None}
      /\ {closedByPeer, moreWaiting} \subseteq [Transports -> BOOLEAN]
  BY DEF SocketTypeOK
<1>2. {moreWaiting', closedByPeer'} \subseteq [Transports -> BOOLEAN]
  BY <1>1 DEF ReadOf
<1>3. CASE opened[s.handle] = None
  BY <1>1, <1>2, <1>3 DEF Continues, ReadOf
<1>4. CASE opened[s.handle] # None
  <2> DEFINE c == opened[s.handle]
  <2>1. c \in Connections /\ (~c.unread) \in BOOLEAN
    BY <1>1, <1>4
  <2>2. opened' = [opened EXCEPT ![s.handle] = [c EXCEPT !.unread = FALSE, !.drained = ~c.unread]]
    BY <1>1, <1>4 DEF ReadOf
  <2>3. [c EXCEPT !.unread = FALSE, !.drained = ~c.unread] \in Connections
        /\ [c EXCEPT !.unread = FALSE, !.drained = ~c.unread].id = c.id
    <3> DEFINE d == ~c.unread
    <3>1. d \in BOOLEAN /\ FALSE \in BOOLEAN
      BY <2>1
    <3> HIDE DEF c, d
    <3>2. [c EXCEPT !.unread = FALSE, !.drained = d] \in Connections
          /\ [c EXCEPT !.unread = FALSE, !.drained = d].id = c.id
      BY <2>1, <3>1, ConnectionGoesOn
    <3> QED
      BY <3>2 DEF d
  <2> QED
    BY <1>1, <1>2, <1>4, <2>2, <2>3, SocketAssumption DEF Continues
<1> QED
  BY <1>3, <1>4

\* A read, by what it finds.
LEMMA ReceiveCases ==
  ASSUME NEW t \in Transports, Receive(t)
  PROVE  /\ mutex = t /\ op[t] = "receive" /\ mutex' = None /\ UNCHANGED <<givenUp, newHandle, socket>>
         /\ \/ /\ closedByPeer' = [closedByPeer EXCEPT ![t] = TRUE] /\ moreWaiting' = [moreWaiting EXCEPT ![t] = FALSE]
               /\ op' = [op EXCEPT ![t] = "check"]
               /\ UNCHANGED <<linkVars, sockets, dataSignal, unanswered>>
            \/ /\ Answered /\ (\E s \in sockets : ReadOf(s, t))
               /\ op' = [op EXCEPT ![t] = "check"]
               /\ UNCHANGED <<modemState, modemRate, setUp, urcs, upsets, uartRate, mayReset, restarted, unclosed, sockets, dataSignal>>
            \/ /\ resetIfUnresponsive(sockets, FALSE)
               /\ op' = [op EXCEPT ![t] = "close"]
               /\ UNCHANGED moreWaiting
  BY DEF Receive, ReadOf

\* The types of the other variables.
TaskTypes ==
  /\ mutex \in Transports \cup {None, "ntp"} /\ newHandle \in Handles \cup {None} /\ givenUp \in BOOLEAN
  /\ unanswered \in 0 .. UnansweredBeforeReset - 1
  /\ op \in [Transports -> {"none", "open", "connect", "finish", "poll", "receive", "check", "send", "close"}]
  /\ socket \in [Transports -> Ids \cup {None}]
  /\ closedByPeer \in [Transports -> BOOLEAN] /\ dataSignal \in [Transports -> BOOLEAN] /\ moreWaiting \in [Transports -> BOOLEAN]

\* The types are these two parts.
LEMMA TypesSplit == /\ SocketTypeOK <=> LinkTypes /\ TaskTypes
                    /\ SocketTypeOK' <=> LinkTypes' /\ TaskTypes'
  BY DEF SocketTypeOK, LinkTypes, TaskTypes

\* An answered command leaves no command unanswered.
LEMMA AnsweredTypes == Answered => unanswered' \in 0 .. UnansweredBeforeReset - 1 /\ urcs = << >> /\ Hears
  BY SocketAssumption DEF Answered

\* The steps of the modem and of the reader task keep the types.
LEMMA ModemTypeStep ==
  ASSUME SocketTypeOK, ModemUpset \/ ModemComesBack \/ (\E h \in Handles : PeerActs(h)) \/ handleLine \/ MayResetAgain
  PROVE  SocketTypeOK'
<1> USE DEF modemVars, driverVars, transportVars
<1>0. LinkTypes /\ TaskTypes
  BY TypesSplit
<1>1. CASE ModemUpset
  <2>1. TaskTypes'
    BY <1>0, <1>1 DEF ModemUpset, TaskTypes
  <2>2. upsets' \in 0 .. MaxUpsets
    BY <1>0, <1>1, SocketAssumption DEF ModemUpset, LinkTypes
  <2>3. urcs' \in Seq(Announcements \cup [event : {"Ready"}])
    <3>1. [event |-> "Ready"] \in Announcements \cup [event : {"Ready"}]
      OBVIOUS
    <3>2. Append(urcs, [event |-> "Ready"]) \in Seq(Announcements \cup [event : {"Ready"}])
      BY <1>0, <3>1, AppendFacts DEF LinkTypes
    <3> QED
      BY <1>0, <1>1, <3>2 DEF ModemUpset, LinkTypes
  <2>4. opened' \in [Handles -> Connections \cup {None}]
    BY <1>0, <1>1 DEF ModemUpset, LinkTypes, NothingOpen
  <2>5. LinkTypes'
    BY <1>0, <1>1, <2>2, <2>3, <2>4 DEF ModemUpset, LinkTypes
  <2> QED
    BY <2>1, <2>5, TypesSplit
<1>2. CASE ModemComesBack
  BY <1>0, <1>2, TypesSplit DEF ModemComesBack, TaskTypes, LinkTypes
<1>3. ASSUME NEW h \in Handles, PeerActs(h)
      PROVE  SocketTypeOK'
  <2>1. opened' \in [Handles -> Connections \cup {None}]
    BY <1>3, PeerContinues DEF Continues
  <2>2. urcs' \in Seq(Announcements \cup [event : {"Ready"}])
    <3> DEFINE line1 == [handle |-> h, event |-> IF opened'[h].ended THEN "closed" ELSE "data"]
    <3>1. line1 \in Announcements \cup [event : {"Ready"}]
      BY DEF Announcements
    <3>2. urcs' = urcs \/ urcs' = Append(urcs, line1)
      BY <1>3 DEF PeerActs
    <3> HIDE DEF line1
    <3>3. Append(urcs, line1) \in Seq(Announcements \cup [event : {"Ready"}])
      BY <1>0, <3>1, AppendFacts DEF LinkTypes
    <3> QED
      BY <1>0, <3>2, <3>3 DEF LinkTypes
  <2>3. UNCHANGED <<modemState, modemRate, setUp, upsets, driverVars, transportVars>>
    BY <1>3 DEF PeerActs
  <2> QED
    BY <1>0, <2>1, <2>2, <2>3, TypesSplit DEF TaskTypes, LinkTypes
<1>4. CASE handleLine
  <2>1. urcs' \in Seq(Announcements \cup [event : {"Ready"}])
    <3>1. urcs # << >> /\ urcs' = Tail(urcs)
      BY <1>4 DEF handleLine
    <3> QED
      BY <1>0, <3>1, TailFacts DEF LinkTypes
  <2>2. UNCHANGED <<modemState, modemRate, setUp, opened, upsets, uartRate, mutex, unanswered, mayReset,
                    unclosed, givenUp, newHandle, op, socket, moreWaiting>>
    BY <1>4 DEF handleLine
  <2>3. /\ restarted' \in BOOLEAN /\ sockets' \subseteq sockets
        /\ closedByPeer' \in [Transports -> BOOLEAN] /\ dataSignal' \in [Transports -> BOOLEAN]
    <3>1. CASE Head(urcs).event = "Ready"
      BY <1>4, <3>1, DropTypes DEF handleLine
    <3>2. CASE Head(urcs).event # "Ready"
      BY <1>0, <1>4, <3>2 DEF handleLine, TaskTypes, LinkTypes
    <3> QED
      BY <3>1, <3>2
  <2>4. LinkTypes'
    BY <1>0, <2>1, <2>2, <2>3 DEF LinkTypes
  <2>5. TaskTypes'
    BY <1>0, <2>2, <2>3 DEF TaskTypes
  <2> QED
    BY <2>4, <2>5, TypesSplit
<1>5. CASE MayResetAgain
  BY <1>0, <1>5, TypesSplit DEF MayResetAgain, TaskTypes, LinkTypes
<1> QED
  BY <1>1, <1>2, <1>3, <1>4, <1>5

\* The steps of NTP keep the types.
LEMMA NtpTypeStep ==
  ASSUME SocketTypeOK, NtpTakeMutex \/ NtpOpen \/ NtpClose
  PROVE  SocketTypeOK'
<1> USE DEF modemVars, linkVars, eventVars
<1>0. LinkTypes /\ TaskTypes
  BY TypesSplit
<1>1. CASE NtpTakeMutex
  <2>1. recoverIfRestarted /\ mutex' = "ntp" /\ UNCHANGED <<unanswered, newHandle, op, socket, moreWaiting>>
    BY <1>1 DEF NtpTakeMutex
  <2>2. LinkTypes' /\ givenUp' \in BOOLEAN
    BY <2>1, LinkTypesKept
  <2>3. {closedByPeer', dataSignal'} \subseteq [Transports -> BOOLEAN]
    BY <2>1, RecoverOutcome
  <2> QED
    BY <1>0, <2>1, <2>2, <2>3, TypesSplit DEF TaskTypes
<1>2. ASSUME NEW closing \in BOOLEAN, resetIfUnresponsive(sockets, closing), mutex' = None, newHandle' \in {None, newHandle},
             UNCHANGED <<givenUp, op, socket, moreWaiting>>
      PROVE  SocketTypeOK'
  <2>1. LinkTypes'
    BY <1>2, LinkTypesKept
  <2>2. unanswered' \in 0 .. UnansweredBeforeReset - 1 /\ {closedByPeer', dataSignal'} \subseteq [Transports -> BOOLEAN]
    BY <1>2, ResetOutcome
  <2> QED
    BY <1>0, <1>2, <2>1, <2>2, TypesSplit DEF TaskTypes
<1>3. CASE NtpOpen
  <2>1. CASE /\ Answered /\ Free # {} /\ newHandle' \in Free
             /\ opened' = [opened EXCEPT ![newHandle'] = [NewConnection(None) EXCEPT !.live = TRUE]]
             /\ UNCHANGED <<modemState, modemRate, setUp, urcs, upsets, uartRate, mayReset, restarted, unclosed, sockets, eventVars, mutex>>
             /\ UNCHANGED <<givenUp, op, socket, moreWaiting>>
    <3>1. [NewConnection(None) EXCEPT !.live = TRUE] \in Connections
      BY NewConnectionTypes
    <3>2. opened' \in [Handles -> Connections \cup {None}] /\ newHandle' \in Handles
      <4> HIDE DEF NewConnection
      <4> QED
        BY <1>0, <2>1, <3>1 DEF LinkTypes, Free
    <3>3. unanswered' \in 0 .. UnansweredBeforeReset - 1
      BY <2>1, AnsweredTypes
    <3> QED
      BY <1>0, <2>1, <3>2, <3>3, TypesSplit DEF LinkTypes, TaskTypes
  <2>2. CASE /\ Answered /\ UNCHANGED <<linkVars, sockets, eventVars>>
             /\ mutex' = None /\ UNCHANGED <<newHandle, givenUp, op, socket, moreWaiting>>
    BY <1>0, <2>2, AnsweredTypes, TypesSplit DEF LinkTypes, TaskTypes
  <2>3. CASE resetIfUnresponsive(sockets, FALSE) /\ mutex' = None /\ UNCHANGED <<newHandle, givenUp, op, socket, moreWaiting>>
    BY <1>2, <2>3
  <2> QED
    BY <1>3, <2>1, <2>2, <2>3 DEF NtpOpen
<1>4. CASE NtpClose
  <2>1. CASE /\ Answered /\ opened' = [opened EXCEPT ![newHandle] = None] /\ mutex' = None /\ newHandle' = None
             /\ UNCHANGED <<modemState, modemRate, setUp, urcs, upsets, uartRate, mayReset, restarted, unclosed, sockets, eventVars, givenUp>>
             /\ UNCHANGED <<op, socket, moreWaiting>>
    <3>1. opened' \in [Handles -> Connections \cup {None}]
      BY <1>0, <2>1 DEF LinkTypes
    <3> QED
      BY <1>0, <2>1, <3>1, AnsweredTypes, TypesSplit DEF LinkTypes, TaskTypes
  <2>2. CASE /\ resetIfUnresponsive(sockets, TRUE) /\ mutex' = None /\ newHandle' = None
             /\ UNCHANGED <<givenUp, op, socket, moreWaiting>>
    BY <1>2, <2>2
  <2> QED
    BY <1>4, <2>1, <2>2 DEF NtpClose
<1> QED
  BY <1>1, <1>3, <1>4

\* What a task does keeps its types.
LEMMA OpTypes ==
  ASSUME TaskTypes, NEW t \in Transports,
         NEW next \in {"none", "open", "connect", "finish", "poll", "receive", "check", "send", "close"}
  PROVE  [op EXCEPT ![t] = next] \in [Transports -> {"none", "open", "connect", "finish", "poll", "receive", "check", "send", "close"}]
  BY DEF TaskTypes

\* The steps of a transport keep the types.
LEMMA TransportTypeStep ==
  ASSUME SocketTypeOK, OfItsTransport, HandleKnown, NEW t \in Transports, Proceed(t) \/ ShouldReceive(t) \/ Write(t)
  PROVE  SocketTypeOK'
<1> USE DEF modemVars, linkVars, eventVars, driverVars
<1>0. /\ LinkTypes /\ TaskTypes
      /\ {closedByPeer, dataSignal, moreWaiting} \subseteq [Transports -> BOOLEAN]
  BY TypesSplit DEF SocketTypeOK
<1>a. ASSUME NEW known \in SUBSET sockets, NEW closing \in BOOLEAN, resetIfUnresponsive(known, closing)
      PROVE  LinkTypes' /\ unanswered' \in 0 .. UnansweredBeforeReset - 1 /\ {closedByPeer', dataSignal'} \subseteq [Transports -> BOOLEAN]
  BY <1>a, LinkTypesKept, ResetOutcome
<1>1. CASE Connect(t)
  <2>1. op' = [op EXCEPT ![t] = "open"] /\ UNCHANGED <<modemVars, driverVars, socket>>
    BY <1>1 DEF Connect
  <2>2. {closedByPeer', dataSignal', moreWaiting'} \subseteq [Transports -> BOOLEAN]
    BY <1>0, <1>1 DEF Connect
  <2> QED
    BY <1>0, <2>1, <2>2, OpTypes, TypesSplit DEF TaskTypes, LinkTypes
<1>2. CASE TakeMutex(t)
  <2>1. recoverIfRestarted /\ mutex' = t /\ UNCHANGED <<unanswered, newHandle, op, socket, moreWaiting>>
    BY <1>2 DEF TakeMutex
  <2>2. LinkTypes' /\ givenUp' \in BOOLEAN
    BY <2>1, LinkTypesKept
  <2>3. {closedByPeer', dataSignal'} \subseteq [Transports -> BOOLEAN]
    BY <2>1, RecoverOutcome
  <2> QED
    BY <1>0, <2>1, <2>2, <2>3, TypesSplit DEF TaskTypes
<1>3. CASE CreateSocket(t)
  <2>1. CASE /\ Answered /\ newHandle' \in Free /\ opened' = [opened EXCEPT ![newHandle'] = NewConnection(FreshId)]
             /\ UNCHANGED <<modemState, modemRate, setUp, urcs, upsets, uartRate, mayReset, restarted, unclosed, sockets,
                            eventVars, mutex, op>>
             /\ UNCHANGED <<givenUp, socket, moreWaiting>>
    <3>1. FreshId \in Ids
      BY FreshIdIsFree
    <3>2. NewConnection(FreshId) \in Connections
      BY <3>1, NewConnectionTypes
    <3>3. opened' \in [Handles -> Connections \cup {None}] /\ newHandle' \in Handles
      BY <1>0, <2>1, <3>2 DEF LinkTypes, Free
    <3> QED
      BY <1>0, <2>1, <3>3, AnsweredTypes, TypesSplit DEF LinkTypes, TaskTypes
  <2>2. CASE /\ Answered /\ UNCHANGED <<linkVars, sockets, eventVars>>
             /\ mutex' = None /\ op' = [op EXCEPT ![t] = "none"] /\ UNCHANGED <<newHandle, givenUp, socket, moreWaiting>>
    BY <1>0, <2>2, AnsweredTypes, OpTypes, TypesSplit DEF LinkTypes, TaskTypes
  <2>3. CASE /\ resetIfUnresponsive(sockets, FALSE)
             /\ mutex' = None /\ op' = [op EXCEPT ![t] = "none"] /\ UNCHANGED <<newHandle, givenUp, socket, moreWaiting>>
    <3>1. LinkTypes' /\ unanswered' \in 0 .. UnansweredBeforeReset - 1 /\ {closedByPeer', dataSignal'} \subseteq [Transports -> BOOLEAN]
      BY <1>a, <2>3
    <3> QED
      BY <1>0, <2>3, <3>1, OpTypes, TypesSplit DEF TaskTypes
  <2> QED
    BY <1>3, <2>1, <2>2, <2>3 DEF CreateSocket
<1>4. CASE RegisterSocket(t)
  <2>1. /\ newHandle \in Handles /\ newHandle # None /\ mutex = t /\ mutex # "ntp"
    BY <1>0, <1>4, SocketAssumption DEF RegisterSocket, TaskTypes
  <2> DEFINE id == IF opened[newHandle] = None THEN FreshId ELSE opened[newHandle].id
  <2>2. id \in Ids
    <3>1. CASE opened[newHandle] = None
      BY <3>1, FreshIdIsFree
    <3>2. CASE opened[newHandle] # None
      <4>1. opened[newHandle] \in Connections /\ opened[newHandle].id # None
        BY <1>0, <2>1, <3>2 DEF HandleKnown, LinkTypes
      <4> QED
        BY <3>2, <4>1, ConnectionGoesOn
    <3> QED
      BY <3>1, <3>2
  <2>3. sockets' = sockets \cup {[id |-> id, handle |-> newHandle, by |-> t]} /\ socket' = [socket EXCEPT ![t] = id]
    BY <1>4 DEF RegisterSocket
  <2> HIDE DEF id
  <2>4. sockets' \subseteq [id : Ids, handle : Handles, by : Transports] /\ socket' \in [Transports -> Ids \cup {None}]
    BY <1>0, <2>1, <2>2, <2>3 DEF LinkTypes, TaskTypes
  <2>5. op' = [op EXCEPT ![t] = "connect"] /\ UNCHANGED <<linkVars, mutex, unanswered, givenUp, newHandle, eventVars, moreWaiting>>
    BY <1>4 DEF RegisterSocket
  <2> QED
    BY <1>0, <2>4, <2>5, OpTypes, TypesSplit DEF LinkTypes, TaskTypes
<1>5. CASE ConnectSocket(t)
  <2>1. CASE /\ Answered /\ opened[newHandle] # None /\ opened' = [opened EXCEPT ![newHandle].live = TRUE]
             /\ op' = [op EXCEPT ![t] = "finish"] /\ mutex' = None /\ newHandle' = None
             /\ UNCHANGED <<modemState, modemRate, setUp, urcs, upsets, uartRate, mayReset, restarted, unclosed, sockets, eventVars>>
             /\ UNCHANGED <<givenUp, socket, moreWaiting>>
    <3>1. opened' \in [Handles -> Connections \cup {None}]
      <4>1. CASE newHandle = None
        BY <1>0, <2>1, <4>1, SocketAssumption DEF LinkTypes
      <4>2. CASE newHandle # None
        BY <2>1, <4>2, ConnectContinues DEF Continues
      <4> QED
        BY <4>1, <4>2
    <3> QED
      BY <1>0, <2>1, <3>1, AnsweredTypes, OpTypes, TypesSplit DEF LinkTypes, TaskTypes
  <2>2. CASE /\ Answered /\ UNCHANGED <<linkVars, sockets, eventVars>>
             /\ op' = [op EXCEPT ![t] = "close"] /\ newHandle' = None /\ UNCHANGED <<mutex, givenUp, socket, moreWaiting>>
    BY <1>0, <2>2, AnsweredTypes, OpTypes, TypesSplit DEF LinkTypes, TaskTypes
  <2>3. CASE /\ resetIfUnresponsive(sockets, FALSE)
             /\ op' = [op EXCEPT ![t] = "close"] /\ newHandle' = None /\ UNCHANGED <<mutex, givenUp, socket, moreWaiting>>
    <3>1. LinkTypes' /\ unanswered' \in 0 .. UnansweredBeforeReset - 1 /\ {closedByPeer', dataSignal'} \subseteq [Transports -> BOOLEAN]
      BY <1>a, <2>3
    <3> QED
      BY <1>0, <2>3, <3>1, OpTypes, TypesSplit DEF TaskTypes
  <2> QED
    BY <1>5, <2>1, <2>2, <2>3 DEF ConnectSocket
<1>6. CASE FinishConnect(t)
  <2>1. closedByPeer' \in [Transports -> BOOLEAN]
    BY <1>0, <1>6 DEF FinishConnect
  <2>2. op' = [op EXCEPT ![t] = "poll"] /\ UNCHANGED <<modemVars, driverVars, socket, dataSignal, moreWaiting>>
    BY <1>6 DEF FinishConnect
  <2> QED
    BY <1>0, <2>1, <2>2, OpTypes, TypesSplit DEF TaskTypes, LinkTypes
<1>7. CASE CloseSocket(t)
  <2> DEFINE mine == {s \in sockets : s.id = socket[t]}
  <2>1. op' = [op EXCEPT ![t] = "none"] /\ mutex' = None /\ socket' = [socket EXCEPT ![t] = None] /\ UNCHANGED <<newHandle, moreWaiting>>
    BY <1>7 DEF CloseSocket
  <2>2. socket' \in [Transports -> Ids \cup {None}]
    BY <1>0, <2>1 DEF TaskTypes
  <2>3. CASE UNCHANGED <<linkVars, sockets, eventVars, unanswered, givenUp>>
    BY <1>0, <2>1, <2>2, <2>3, OpTypes, TypesSplit DEF LinkTypes, TaskTypes
  <2>4. CASE /\ Answered /\ sockets' = sockets \ mine
             /\ opened' = [h \in Handles |-> IF \E s \in mine : s.handle = h THEN None ELSE opened[h]]
             /\ UNCHANGED <<modemState, modemRate, setUp, urcs, upsets, uartRate, mayReset, restarted, unclosed, eventVars, givenUp>>
    <3>1. opened' \in [Handles -> Connections \cup {None}]
      BY <1>0, <2>4 DEF LinkTypes
    <3> QED
      BY <1>0, <2>1, <2>2, <2>4, <3>1, AnsweredTypes, OpTypes, TypesSplit DEF LinkTypes, TaskTypes
  <2>5. CASE resetIfUnresponsive(sockets \ mine, TRUE) /\ UNCHANGED givenUp
    <3>1. LinkTypes' /\ unanswered' \in 0 .. UnansweredBeforeReset - 1 /\ {closedByPeer', dataSignal'} \subseteq [Transports -> BOOLEAN]
      BY <1>a, <2>5
    <3> QED
      BY <1>0, <2>1, <2>2, <2>5, <3>1, OpTypes, TypesSplit DEF TaskTypes
  <2> QED
    BY <1>7, <2>3, <2>4, <2>5 DEF CloseSocket
<1>8. CASE Receive(t)
  <2>1. mutex' = None /\ UNCHANGED <<givenUp, newHandle, socket>>
    BY <1>8, ReceiveCases
  <2>2. CASE /\ closedByPeer' = [closedByPeer EXCEPT ![t] = TRUE] /\ moreWaiting' = [moreWaiting EXCEPT ![t] = FALSE]
             /\ op' = [op EXCEPT ![t] = "check"]
             /\ UNCHANGED <<linkVars, sockets, dataSignal, unanswered>>
    <3>1. {closedByPeer', moreWaiting'} \subseteq [Transports -> BOOLEAN]
      BY <1>0, <2>2
    <3> QED
      BY <1>0, <2>1, <2>2, <3>1, OpTypes, TypesSplit DEF LinkTypes, TaskTypes
  <2>3. CASE /\ Answered /\ (\E s \in sockets : ReadOf(s, t))
             /\ op' = [op EXCEPT ![t] = "check"]
             /\ UNCHANGED <<modemState, modemRate, setUp, urcs, upsets, uartRate, mayReset, restarted, unclosed, sockets, dataSignal>>
    <3>1. opened' \in [Handles -> Connections \cup {None}] /\ {moreWaiting', closedByPeer'} \subseteq [Transports -> BOOLEAN]
      BY <2>3, ReadContinues DEF Continues
    <3> QED
      BY <1>0, <2>1, <2>3, <3>1, AnsweredTypes, OpTypes, TypesSplit DEF LinkTypes, TaskTypes
  <2>4. CASE /\ resetIfUnresponsive(sockets, FALSE)
             /\ op' = [op EXCEPT ![t] = "close"]
             /\ UNCHANGED moreWaiting
    <3>1. LinkTypes' /\ unanswered' \in 0 .. UnansweredBeforeReset - 1 /\ {closedByPeer', dataSignal'} \subseteq [Transports -> BOOLEAN]
      BY <1>a, <2>4
    <3> QED
      BY <1>0, <2>1, <2>4, <3>1, OpTypes, TypesSplit DEF TaskTypes
  <2> QED
    BY <1>8, <2>2, <2>3, <2>4, ReceiveCases
<1>9. CASE CheckClosed(t)
  <2>1. PICK next \in {"close", "poll"} : op' = [op EXCEPT ![t] = next]
    BY <1>9 DEF CheckClosed
  <2>2. UNCHANGED <<modemVars, driverVars, socket, eventVars, moreWaiting>>
    BY <1>9 DEF CheckClosed
  <2> QED
    BY <1>0, <2>1, <2>2, OpTypes, TypesSplit DEF TaskTypes, LinkTypes
<1>10. CASE Send(t)
  <2>1. mutex' = None /\ UNCHANGED <<givenUp, newHandle, socket, moreWaiting>>
    BY <1>10 DEF Send
  <2>2. PICK next \in {"close", "poll"} : op' = [op EXCEPT ![t] = next]
    BY <1>10 DEF Send
  <2>3. CASE UNCHANGED <<linkVars, sockets, eventVars, unanswered>>
    BY <1>0, <2>1, <2>2, <2>3, OpTypes, TypesSplit DEF LinkTypes, TaskTypes
  <2>4. CASE Answered /\ UNCHANGED <<linkVars, sockets, eventVars>>
    BY <1>0, <2>1, <2>2, <2>4, AnsweredTypes, OpTypes, TypesSplit DEF LinkTypes, TaskTypes
  <2>5. CASE resetIfUnresponsive(sockets, FALSE)
    <3>1. LinkTypes' /\ unanswered' \in 0 .. UnansweredBeforeReset - 1 /\ {closedByPeer', dataSignal'} \subseteq [Transports -> BOOLEAN]
      BY <1>a, <2>5
    <3> QED
      BY <1>0, <2>1, <2>2, <3>1, OpTypes, TypesSplit DEF TaskTypes
  <2> QED
    BY <1>10, <2>3, <2>4, <2>5 DEF Send
<1>11. CASE ShouldReceive(t)
  <2>1. dataSignal' \in [Transports -> BOOLEAN]
    BY <1>0, <1>11 DEF ShouldReceive
  <2>2. op' = [op EXCEPT ![t] = "receive"] /\ UNCHANGED <<modemVars, driverVars, socket, closedByPeer, moreWaiting>>
    BY <1>11 DEF ShouldReceive
  <2> QED
    BY <1>0, <2>1, <2>2, OpTypes, TypesSplit DEF TaskTypes, LinkTypes
<1>12. CASE Write(t)
  <2>1. op' = [op EXCEPT ![t] = "send"] /\ UNCHANGED <<modemVars, driverVars, socket, eventVars, moreWaiting>>
    BY <1>12 DEF Write
  <2> QED
    BY <1>0, <2>1, OpTypes, TypesSplit DEF TaskTypes, LinkTypes
<1> QED
  BY <1>1, <1>2, <1>3, <1>4, <1>5, <1>6, <1>7, <1>8, <1>9, <1>10, <1>11, <1>12 DEF Proceed

\* Nothing but registering a socket adds one.
LEMMA SocketsShrink ==
  ASSUME SocketTypeOK
  PROVE  /\ \A known, closing : resetIfUnresponsive(known, closing) => sockets' \subseteq known
         /\ recoverIfRestarted => sockets' \subseteq sockets
<1>1. ASSUME NEW known, NEW closing, resetIfUnresponsive(known, closing) PROVE sockets' \subseteq known
  <2>1. Unchanged(known, closing) \/ FoundRestarted(closing) \/ WasReset \/ LeftAlone(known, closing)
    BY <1>1, ResetOutcome
  <2>2. sockets' = known \/ sockets' = {}
    BY <2>1 DEF Unchanged, FoundRestarted, WasReset, LeftAlone
  <2> QED
    BY <2>2
<1>2. ASSUME recoverIfRestarted PROVE sockets' \subseteq sockets
  BY <1>2, RecoverOutcome DEF NotRestarted, IsSetUp, IsGivenUp
<1> QED
  BY <1>1, <1>2

\* Every step keeps the sockets with their transports, and the handle with its holder.
LEMMA HolderStep ==
  ASSUME SocketTypeOK, HolderInv, [SocketNext]_socketVars
  PROVE  HolderInv'
<1> USE DEF HolderInv, OfItsTransport, HandleHeld
<1>0. /\ \A s \in sockets : s.by \in Transports
      /\ op \in [Transports -> {"none", "open", "connect", "finish", "poll", "receive", "check", "send", "close"}]
      /\ socket \in [Transports -> Ids \cup {None}]
      /\ None \notin Transports /\ None # "ntp" /\ "ntp" \notin Transports /\ None \notin Ids
  BY SocketAssumption DEF SocketTypeOK
<1>1. CASE ModemUpset \/ ModemComesBack \/ (\E h \in Handles : PeerActs(h)) \/ handleLine \/ MayResetAgain \/ UNCHANGED socketVars
  <2>1. sockets' \subseteq sockets /\ UNCHANGED <<op, socket, mutex, newHandle>>
    BY <1>1 DEF ModemUpset, ModemComesBack, PeerActs, handleLine, MayResetAgain, dropAllSockets, socketVars,
                modemVars, driverVars, transportVars
  <2> QED
    BY <2>1
<1>2. CASE NtpTakeMutex
  <2>1. sockets' \subseteq sockets /\ mutex = None /\ mutex' = "ntp" /\ UNCHANGED <<op, socket, newHandle>>
    BY <1>2, SocketsShrink DEF NtpTakeMutex
  <2> QED
    BY <1>0, <2>1
<1>3. CASE NtpOpen
  <2>1. sockets' \subseteq sockets /\ mutex = "ntp" /\ UNCHANGED <<op, socket>>
    BY <1>3, SocketsShrink DEF NtpOpen
  <2>2. mutex' = mutex \/ (mutex' = None /\ newHandle' = newHandle /\ newHandle = None)
    BY <1>3 DEF NtpOpen
  <2> QED
    BY <1>0, <2>1, <2>2
<1>4. CASE NtpClose
  <2>1. sockets' \subseteq sockets /\ mutex = "ntp" /\ newHandle' = None /\ UNCHANGED <<op, socket>>
    BY <1>4, SocketsShrink DEF NtpClose
  <2> QED
    BY <1>0, <2>1
<1>5. ASSUME NEW t \in Transports, Connect(t)
      PROVE  HolderInv'
  <2>1. op[t] = "none" /\ op' = [op EXCEPT ![t] = "open"] /\ UNCHANGED <<sockets, socket, mutex, newHandle>>
    BY <1>5 DEF Connect, driverVars
  <2> QED
    BY <1>0, <2>1
<1>6. ASSUME NEW t \in Transports, TakeMutex(t)
      PROVE  HolderInv'
  <2>1. sockets' \subseteq sockets /\ mutex = None /\ mutex' = t /\ UNCHANGED <<op, socket, newHandle>>
    BY <1>6, SocketsShrink DEF TakeMutex
  <2> QED
    BY <1>0, <2>1
<1>7. ASSUME NEW t \in Transports, CreateSocket(t)
      PROVE  HolderInv'
  <2>1. mutex = t /\ op[t] = "open" /\ newHandle = None /\ sockets' \subseteq sockets /\ socket' = socket
    BY <1>7, SocketsShrink DEF CreateSocket, eventVars
  <2>2. \/ mutex' = mutex /\ op' = op
        \/ mutex' = None /\ op' = [op EXCEPT ![t] = "none"] /\ newHandle' = newHandle
    BY <1>7 DEF CreateSocket
  <2> QED
    BY <1>0, <2>1, <2>2
<1>8. ASSUME NEW t \in Transports, RegisterSocket(t)
      PROVE  HolderInv'
  <2>1. PICK id : /\ sockets' = sockets \cup {[id |-> id, handle |-> newHandle, by |-> t]}
                  /\ socket' = [socket EXCEPT ![t] = id]
    BY <1>8 DEF RegisterSocket
  <2>2. mutex = t /\ op[t] = "open" /\ newHandle # None /\ op' = [op EXCEPT ![t] = "connect"] /\ UNCHANGED <<mutex, newHandle>>
    BY <1>8 DEF RegisterSocket
  <2>3. \A s \in sockets : s.by # t
    BY <2>2
  <2>4. OfItsTransport'
    BY <1>0, <2>1, <2>2, <2>3
  <2>5. HandleHeld'
    BY <1>0, <2>1, <2>2, <2>3
  <2> QED
    BY <2>4, <2>5
<1>9. ASSUME NEW t \in Transports, ConnectSocket(t)
      PROVE  HolderInv'
  <2>1. mutex = t /\ op[t] = "connect" /\ newHandle' = None /\ sockets' \subseteq sockets /\ socket' = socket
    BY <1>9, SocketsShrink DEF ConnectSocket, eventVars
  <2>2. op' = [op EXCEPT ![t] = "finish"] \/ op' = [op EXCEPT ![t] = "close"]
    BY <1>9 DEF ConnectSocket
  <2> QED
    BY <1>0, <2>1, <2>2
<1>10. ASSUME NEW t \in Transports, FinishConnect(t) \/ CheckClosed(t) \/ ShouldReceive(t) \/ Write(t)
       PROVE  HolderInv'
  <2>1. /\ op[t] \in {"finish", "check", "poll"} /\ UNCHANGED <<sockets, socket, mutex, newHandle>>
        /\ \E next \in {"poll", "close", "receive", "send"} : op' = [op EXCEPT ![t] = next]
    BY <1>10 DEF FinishConnect, CheckClosed, ShouldReceive, Write, driverVars
  <2> QED
    BY <1>0, <2>1
<1>11. ASSUME NEW t \in Transports, CloseSocket(t)
       PROVE  HolderInv'
  <2>1. /\ op[t] = "close" /\ mutex \in {None, t} /\ mutex' = None /\ op' = [op EXCEPT ![t] = "none"]
        /\ socket' = [socket EXCEPT ![t] = None] /\ newHandle' = newHandle
    BY <1>11 DEF CloseSocket
  <2>2. sockets' \subseteq sockets \ {s \in sockets : s.id = socket[t]}
    BY <1>11, SocketsShrink DEF CloseSocket
  <2>3. \A s \in sockets' : s \in sockets /\ s.by # t
    BY <2>2
  <2>4. newHandle = None /\ \A x \in Transports : op[x] # "connect"
    BY <1>0, <2>1
  <2> QED
    BY <1>0, <2>1, <2>3, <2>4
<1>12. ASSUME NEW t \in Transports, Receive(t)
       PROVE  HolderInv'
  <2>1. /\ mutex = t /\ op[t] = "receive" /\ mutex' = None /\ sockets' \subseteq sockets /\ UNCHANGED <<socket, newHandle>>
        /\ \E next \in {"check", "close"} : op' = [op EXCEPT ![t] = next]
    BY <1>12, ReceiveCases, SocketsShrink
  <2> QED
    BY <1>0, <2>1
<1>13. ASSUME NEW t \in Transports, Send(t)
       PROVE  HolderInv'
  <2>1. /\ mutex = t /\ op[t] = "send" /\ mutex' = None /\ sockets' \subseteq sockets /\ UNCHANGED <<socket, newHandle>>
        /\ \E next \in {"poll", "close"} : op' = [op EXCEPT ![t] = next]
    BY <1>13, SocketsShrink DEF Send
  <2> QED
    BY <1>0, <2>1
<1> QED
  BY <1>1, <1>2, <1>3, <1>4, <1>5, <1>6, <1>7, <1>8, <1>9, <1>10, <1>11, <1>12, <1>13 DEF SocketNext, Proceed

-----------------------------------------------------------------------------
(* The sockets: a modem that restarted *)

ReadyQueued == \E i \in DOMAIN urcs : urcs[i].event = "Ready"
RateLost == modemRate = "default" /\ uartRate = "fast"

\* A modem that restarted is at the default rate, and has no connections until that is known; what is
\* opened then is opened at that rate.
RestartInv ==
  /\ ReadyQueued => /\ opened = NothingOpen /\ modemRate = "default"
                    /\ newHandle # None => uartRate = "default"
  /\ restarted => /\ modemRate = "default"
                  /\ sockets # {} \/ newHandle # None => uartRate = "default"

\* Lines that are queued and taken out leave the others as they are.
LEMMA QueuedLines ==
  ASSUME SocketTypeOK
  PROVE  /\ \A announced \in Announcements : urcs' = Append(urcs, announced) => (ReadyQueued' <=> ReadyQueued)
         /\ urcs' = Append(urcs, [event |-> "Ready"]) => ReadyQueued'
         /\ urcs # << >> /\ urcs' = Tail(urcs) =>
              /\ ReadyQueued' => ReadyQueued
              /\ Head(urcs).event # "Ready" => (ReadyQueued' <=> ReadyQueued)
              /\ Head(urcs).event = "Ready" => ReadyQueued
         /\ urcs = << >> => ~ReadyQueued
         /\ urcs' = << >> => ~ReadyQueued'
         /\ urcs' = urcs => (ReadyQueued' <=> ReadyQueued)
<1> DEFINE Queueable == Announcements \cup [event : {"Ready"}]
<1>0. urcs \in Seq(Queueable)
  BY DEF SocketTypeOK
<1>1. ASSUME NEW announced \in Announcements, urcs' = Append(urcs, announced) PROVE ReadyQueued' <=> ReadyQueued
  <2>1. announced \in Queueable /\ announced.event # "Ready"
    BY DEF Announcements
  <2>2. /\ DOMAIN urcs' = 1 .. Len(urcs) + 1 /\ DOMAIN urcs = 1 .. Len(urcs) /\ Len(urcs) \in Nat
        /\ \A i \in 1 .. Len(urcs) : urcs'[i] = urcs[i]
        /\ urcs'[Len(urcs) + 1] = announced
    <3> HIDE DEF Queueable
    <3> QED
      BY <1>0, <1>1, <2>1, AppendFacts
  <2> QED
    BY <2>1, <2>2 DEF ReadyQueued
<1>2. ASSUME urcs' = Append(urcs, [event |-> "Ready"]) PROVE ReadyQueued'
  <2>1. [event |-> "Ready"] \in Queueable
    OBVIOUS
  <2>2. /\ DOMAIN urcs' = 1 .. Len(urcs) + 1 /\ Len(urcs) \in Nat
        /\ urcs'[Len(urcs) + 1] = [event |-> "Ready"]
    <3> HIDE DEF Queueable
    <3> QED
      BY <1>0, <1>2, <2>1, AppendFacts
  <2>3. Len(urcs) + 1 \in DOMAIN urcs' /\ urcs'[Len(urcs) + 1].event = "Ready"
    BY <2>2
  <2> QED
    BY <2>3 DEF ReadyQueued
<1>3. ASSUME urcs # << >>, urcs' = Tail(urcs)
      PROVE  /\ ReadyQueued' => ReadyQueued
             /\ Head(urcs).event # "Ready" => (ReadyQueued' <=> ReadyQueued)
             /\ Head(urcs).event = "Ready" => ReadyQueued
  <2>1. /\ DOMAIN urcs' = 1 .. Len(urcs) - 1 /\ DOMAIN urcs = 1 .. Len(urcs) /\ Len(urcs) \in Nat \ {0}
        /\ \A i \in 1 .. Len(urcs) - 1 : urcs'[i] = urcs[i + 1]
        /\ Head(urcs) = urcs[1]
    <3> HIDE DEF Queueable
    <3> QED
      BY <1>0, <1>3, TailFacts
  <2>2. ReadyQueued' => ReadyQueued
    <3> SUFFICES ASSUME NEW i \in DOMAIN urcs', urcs'[i].event = "Ready" PROVE ReadyQueued
      BY DEF ReadyQueued
    <3>1. i + 1 \in DOMAIN urcs /\ urcs[i + 1].event = "Ready"
      BY <2>1
    <3> QED
      BY <3>1 DEF ReadyQueued
  <2>3. Head(urcs).event # "Ready" /\ ReadyQueued => ReadyQueued'
    <3> SUFFICES ASSUME Head(urcs).event # "Ready", NEW i \in DOMAIN urcs, urcs[i].event = "Ready" PROVE ReadyQueued'
      BY DEF ReadyQueued
    <3>1. i # 1
      BY <2>1
    <3>2. i - 1 \in DOMAIN urcs' /\ urcs'[i - 1] = urcs[i]
      <4>1. i - 1 \in 1 .. Len(urcs) - 1 /\ i - 1 + 1 = i
        BY <2>1, <3>1
      <4> QED
        BY <2>1, <4>1
    <3> QED
      BY <3>2 DEF ReadyQueued
  <2>4. Head(urcs).event = "Ready" => ReadyQueued
    <3>1. 1 \in DOMAIN urcs
      BY <2>1
    <3> QED
      BY <2>1, <3>1 DEF ReadyQueued
  <2> QED
    BY <2>2, <2>3, <2>4
<1>4. urcs = << >> => ~ReadyQueued
  BY DEF ReadyQueued
<1>5. urcs' = << >> => ~ReadyQueued'
  BY DEF ReadyQueued
<1>6. urcs' = urcs => (ReadyQueued' <=> ReadyQueued)
  BY DEF ReadyQueued
<1> QED
  BY <1>1, <1>2, <1>3, <1>4, <1>5, <1>6

\* What a command that is answered leaves alone.
AnsweredAsBefore == Answered /\ UNCHANGED <<urcs, modemRate, uartRate, restarted, unclosed>>

\* What is known of a restart survives each of them.
LEMMA RestartKept ==
  ASSUME SocketTypeOK, RestartInv
  PROVE  /\ AnsweredAsBefore => RestartInv'
         /\ newHandle' = None => \A known \in SUBSET sockets : \A closing : resetIfUnresponsive(known, closing) => RestartInv'
         /\ newHandle' = None /\ recoverIfRestarted => RestartInv'
<1>1. ASSUME AnsweredAsBefore PROVE RestartInv'
  <2>1. ~ReadyQueued' /\ modemRate = uartRate
    BY <1>1, QueuedLines DEF AnsweredAsBefore, Answered, Hears
  <2> QED
    BY <1>1, <2>1 DEF RestartInv, AnsweredAsBefore
<1>2. ASSUME newHandle' = None, NEW known \in SUBSET sockets, NEW closing, resetIfUnresponsive(known, closing)
      PROVE  RestartInv'
  <2>1. CASE Unchanged(known, closing)
    <3>1. ReadyQueued' <=> ReadyQueued
      BY <2>1, QueuedLines DEF Unchanged, modemVars
    <3> QED
      BY <1>2, <2>1, <3>1 DEF Unchanged, RestartInv, modemVars
  <2>2. CASE FoundRestarted(closing)
    <3>1. ReadyQueued' <=> ReadyQueued
      BY <2>2, QueuedLines DEF FoundRestarted, modemVars
    <3> QED
      BY <1>2, <2>2, <3>1 DEF FoundRestarted, RestartInv, modemVars
  <2>3. CASE WasReset
    <3>1. ~ReadyQueued'
      BY <2>3, QueuedLines DEF WasReset
    <3> QED
      BY <1>2, <2>3, <3>1 DEF WasReset, RestartInv
  <2>4. CASE LeftAlone(known, closing)
    <3>1. ReadyQueued' <=> ReadyQueued
      BY <2>4, QueuedLines DEF LeftAlone, modemVars
    <3> QED
      BY <1>2, <2>4, <3>1 DEF LeftAlone, RestartInv, modemVars
  <2> QED
    BY <1>2, <2>1, <2>2, <2>3, <2>4, ResetOutcome
<1>3. ASSUME newHandle' = None, recoverIfRestarted PROVE RestartInv'
  <2>1. CASE NotRestarted
    <3>1. ReadyQueued' <=> ReadyQueued
      BY <2>1, QueuedLines DEF NotRestarted, linkVars, modemVars
    <3> QED
      BY <1>3, <2>1, <3>1 DEF NotRestarted, RestartInv, linkVars, modemVars
  <2>2. CASE IsSetUp
    <3>1. ~ReadyQueued'
      BY <2>2, QueuedLines DEF IsSetUp
    <3> QED
      BY <2>2, <3>1 DEF IsSetUp, RestartInv
  <2>3. CASE IsGivenUp
    <3>1. ReadyQueued' <=> ReadyQueued
      BY <2>3, QueuedLines DEF IsGivenUp, modemVars
    <3> QED
      BY <1>3, <2>3, <3>1 DEF IsGivenUp, RestartInv, modemVars
  <2> QED
    BY <1>3, <2>1, <2>2, <2>3, RecoverOutcome
<1> QED
  BY <1>1, <1>2, <1>3

\* What a step leaves alone that sends no command.
LinkAsBefore == UNCHANGED <<opened, urcs, modemRate, uartRate, restarted, unclosed, sockets>>

\* Every step but a line that is read, and a modem that restarts, is one of these.
LEMMA LinkCases ==
  ASSUME SocketTypeOK, HolderInv, [SocketNext]_socketVars
  PROVE  \/ ModemUpset \/ handleLine \/ \E h \in Handles : PeerActs(h)
         \/ LinkAsBefore /\ UNCHANGED newHandle
         \/ AnsweredAsBefore
         \/ newHandle' = None /\ \E known \in SUBSET sockets : \E closing \in BOOLEAN : resetIfUnresponsive(known, closing)
         \/ newHandle' = None /\ recoverIfRestarted
         \/ \E t \in Transports : RegisterSocket(t)
<1> USE DEF modemVars, driverVars, transportVars, linkVars, eventVars
<1>0. /\ None \notin Transports /\ None # "ntp" /\ "ntp" \notin Transports
      /\ \A t \in Transports : op[t] \in {"none", "finish", "poll", "receive", "check", "send", "close"} /\ mutex \in {None, t} => newHandle = None
      /\ mutex = None => newHandle = None
  BY SocketAssumption DEF HolderInv, HandleHeld
<1>1. CASE ModemUpset \/ handleLine \/ \E h \in Handles : PeerActs(h)
  BY <1>1
<1>2. CASE ModemComesBack \/ MayResetAgain \/ UNCHANGED socketVars
  BY <1>2 DEF ModemComesBack, MayResetAgain, LinkAsBefore, socketVars
<1>3. CASE NtpTakeMutex
  BY <1>0, <1>3 DEF NtpTakeMutex
<1>4. CASE NtpOpen
  BY <1>4 DEF NtpOpen, AnsweredAsBefore
<1>5. CASE NtpClose
  BY <1>5 DEF NtpClose, AnsweredAsBefore
<1>6. ASSUME NEW t \in Transports,
             Connect(t) \/ FinishConnect(t) \/ CheckClosed(t) \/ ShouldReceive(t) \/ Write(t)
      PROVE  LinkAsBefore /\ UNCHANGED newHandle
  BY <1>6 DEF Connect, FinishConnect, CheckClosed, ShouldReceive, Write, LinkAsBefore
<1>7. ASSUME NEW t \in Transports, TakeMutex(t)
      PROVE  newHandle' = None /\ recoverIfRestarted
  BY <1>0, <1>7 DEF TakeMutex
<1>8. ASSUME NEW t \in Transports, CreateSocket(t)
      PROVE  AnsweredAsBefore \/ (newHandle' = None /\ \E known \in SUBSET sockets : \E closing \in BOOLEAN : resetIfUnresponsive(known, closing))
  BY <1>8 DEF CreateSocket, AnsweredAsBefore
<1>9. ASSUME NEW t \in Transports, ConnectSocket(t)
      PROVE  AnsweredAsBefore \/ (newHandle' = None /\ \E known \in SUBSET sockets : \E closing \in BOOLEAN : resetIfUnresponsive(known, closing))
  BY <1>9 DEF ConnectSocket, AnsweredAsBefore
<1>10. ASSUME NEW t \in Transports, CloseSocket(t)
       PROVE  \/ LinkAsBefore /\ UNCHANGED newHandle
              \/ AnsweredAsBefore
              \/ newHandle' = None /\ \E known \in SUBSET sockets : \E closing \in BOOLEAN : resetIfUnresponsive(known, closing)
  <2> DEFINE mine == {s \in sockets : s.id = socket[t]}
  <2>1. newHandle' = newHandle /\ newHandle = None
    BY <1>0, <1>10 DEF CloseSocket
  <2>2. CASE UNCHANGED <<linkVars, sockets>>
    BY <2>1, <2>2 DEF LinkAsBefore
  <2>3. CASE Answered /\ UNCHANGED <<urcs, modemRate, uartRate, restarted, unclosed>>
    BY <2>3 DEF AnsweredAsBefore
  <2>4. CASE resetIfUnresponsive(sockets \ mine, TRUE)
    <3>1. sockets \ mine \in SUBSET sockets
      OBVIOUS
    <3> HIDE DEF mine
    <3> QED
      BY <2>1, <2>4, <3>1
  <2> QED
    BY <1>10, <2>2, <2>3, <2>4 DEF CloseSocket
<1>11. ASSUME NEW t \in Transports, Receive(t)
       PROVE  \/ LinkAsBefore /\ UNCHANGED newHandle
              \/ AnsweredAsBefore
              \/ newHandle' = None /\ \E known \in SUBSET sockets : \E closing \in BOOLEAN : resetIfUnresponsive(known, closing)
  BY <1>0, <1>11, ReceiveCases DEF LinkAsBefore, AnsweredAsBefore
<1>12. ASSUME NEW t \in Transports, Send(t)
       PROVE  \/ LinkAsBefore /\ UNCHANGED newHandle
              \/ AnsweredAsBefore
              \/ newHandle' = None /\ \E known \in SUBSET sockets : \E closing \in BOOLEAN : resetIfUnresponsive(known, closing)
  BY <1>0, <1>12 DEF Send, LinkAsBefore, AnsweredAsBefore
<1> QED
  BY <1>1, <1>2, <1>3, <1>4, <1>5, <1>6, <1>7, <1>8, <1>9, <1>10, <1>11, <1>12 DEF SocketNext, Proceed

\* Every step keeps a modem that restarted known, or about to be.
LEMMA RestartStep ==
  ASSUME SocketTypeOK, HolderInv, RestartInv, [SocketNext]_socketVars
  PROVE  RestartInv'
<1>1. CASE ModemUpset
  <2>1. UNCHANGED <<sockets, restarted, newHandle, uartRate>>
    BY <1>1 DEF ModemUpset, driverVars
  <2>2. CASE /\ modemRate' = "default" /\ opened' = NothingOpen
             /\ urcs' = IF uartRate = "default" THEN Append(urcs, [event |-> "Ready"]) ELSE urcs
    <3>1. uartRate # "default" => (ReadyQueued' <=> ReadyQueued)
      BY <2>2, QueuedLines
    <3> QED
      BY <2>1, <2>2, <3>1 DEF RestartInv
  <2>3. CASE UNCHANGED <<modemRate, opened, urcs>>
    <3>1. ReadyQueued' <=> ReadyQueued
      BY <2>3, QueuedLines
    <3> QED
      BY <2>1, <2>3, <3>1 DEF RestartInv
  <2> QED
    BY <1>1, <2>2, <2>3 DEF ModemUpset
<1>2. CASE handleLine
  <2>1. /\ urcs # << >> /\ urcs' = Tail(urcs) /\ UNCHANGED <<opened, modemRate, uartRate, newHandle>>
        /\ \/ restarted' = restarted /\ sockets' = sockets
           \/ Head(urcs).event = "Ready" /\ sockets' = {}
    BY <1>2 DEF handleLine, dropAllSockets
  <2>2. /\ ReadyQueued' => ReadyQueued
        /\ Head(urcs).event = "Ready" => ReadyQueued
    BY <2>1, QueuedLines
  <2> QED
    BY <2>1, <2>2 DEF RestartInv
<1>3. ASSUME NEW h \in Handles, PeerActs(h)
      PROVE  RestartInv'
  <2>1. opened[h] # None /\ UNCHANGED <<modemRate, uartRate, restarted, sockets, newHandle>>
    BY <1>3 DEF PeerActs, driverVars
  <2>2. ~ReadyQueued
    BY <2>1 DEF RestartInv, NothingOpen
  <2>3. urcs' = urcs \/ \E announced \in Announcements : urcs' = Append(urcs, announced)
    BY <1>3 DEF PeerActs, Announcements
  <2>4. ~ReadyQueued'
    BY <2>2, <2>3, QueuedLines
  <2> QED
    BY <2>1, <2>4 DEF RestartInv
<1>4. CASE LinkAsBefore /\ UNCHANGED newHandle
  <2>1. ReadyQueued' <=> ReadyQueued
    BY <1>4, QueuedLines DEF LinkAsBefore
  <2> QED
    BY <1>4, <2>1 DEF LinkAsBefore, RestartInv
<1>5. CASE AnsweredAsBefore
  BY <1>5, RestartKept
<1>6. CASE newHandle' = None /\ \E known \in SUBSET sockets : \E closing \in BOOLEAN : resetIfUnresponsive(known, closing)
  BY <1>6, RestartKept
<1>7. CASE newHandle' = None /\ recoverIfRestarted
  BY <1>7, RestartKept
<1>8. ASSUME NEW t \in Transports, RegisterSocket(t)
      PROVE  RestartInv'
  <2>1. newHandle # None /\ UNCHANGED <<opened, urcs, modemRate, uartRate, restarted, newHandle>>
    BY <1>8 DEF RegisterSocket, linkVars, modemVars
  <2>2. ReadyQueued' <=> ReadyQueued
    BY <2>1, QueuedLines
  <2> QED
    BY <2>1, <2>2 DEF RestartInv
<1> QED
  BY <1>1, <1>2, <1>3, <1>4, <1>5, <1>6, <1>7, <1>8, LinkCases

\* Every step keeps the types.
LEMMA SocketTypeStep ==
  ASSUME SocketTypeOK, OfItsTransport, HandleKnown, [SocketNext]_socketVars
  PROVE  SocketTypeOK'
<1>1. CASE UNCHANGED socketVars
  BY <1>1, TypesSplit DEF socketVars, modemVars, driverVars, transportVars, LinkTypes, TaskTypes
<1>2. CASE ModemUpset \/ ModemComesBack \/ (\E h \in Handles : PeerActs(h)) \/ handleLine \/ MayResetAgain
  BY <1>2, ModemTypeStep
<1>3. CASE NtpTakeMutex \/ NtpOpen \/ NtpClose
  BY <1>3, NtpTypeStep
<1>4. ASSUME NEW t \in Transports, Proceed(t) \/ ShouldReceive(t) \/ Write(t)
      PROVE  SocketTypeOK'
  BY <1>4, TransportTypeStep
<1> QED
  BY <1>1, <1>2, <1>3, <1>4 DEF SocketNext

-----------------------------------------------------------------------------
(* The sockets: which connection they name *)

\* A socket's handle names its own connection, or none.
SameSocket == \A s \in sockets : opened[s.handle] = None \/ opened[s.handle].id = s.id

\* It names none only if the modem restarted, or if its transport is about to find that out or to close it.
Held(s) == mutex = s.by /\ op[s.by] \in {"connect", "close"}
StaleIsLost == \A s \in sockets : opened[s.handle] = None => ReadyQueued \/ RateLost \/ Held(s)

\* The handle that is being opened has a socket once it connects; every other has one, as NoneLeft
\* states; a modem that restarted unnoticed has none open.
NewIsKnown == newHandle # None /\ opened[newHandle] # None => \E s \in sockets : s.handle = newHandle
LeftInv ==
  /\ RateLost => opened = NothingOpen \/ unclosed
  /\ (\E t \in Transports : op[t] = "connect") => NewIsKnown
  /\ NoneLeft

SocketInv == SocketTypeOK /\ HolderInv /\ HandleKnown /\ RestartInv /\ SameSocket /\ StaleIsLost /\ LeftInv

\* What the steps do to the sockets.  They go on; or all are lost; or the modem restarts; or it is
\* not reached to be set up; or a command is not answered; or a socket is opened, registered or closed.
GoOn ==
  /\ Continues /\ (ReadyQueued' <=> ReadyQueued) /\ UNCHANGED <<sockets, modemRate, uartRate, unclosed>>
  /\ \A s \in sockets : opened[s.handle] = None /\ Held(s) => ReadyQueued \/ RateLost \/ Held(s)'
  /\ \/ /\ newHandle' = newHandle /\ (newHandle # None => mutex' = mutex)
        /\ \A t \in Transports : op'[t] = "connect" => op[t] = "connect"
     \/ newHandle' = None /\ NewIsKnown /\ \A t \in Transports : op'[t] # "connect"
AreDropped == sockets' = {} /\ opened' = NothingOpen
Restarts == sockets' = sockets /\ opened' = NothingOpen /\ (ReadyQueued' \/ RateLost')
StaysLost == IsGivenUp /\ mutex = None /\ newHandle' = newHandle /\ newHandle = None /\ op' = op
GoUnanswered ==
  \E known \in SUBSET sockets : \E closing \in BOOLEAN :
    /\ resetIfUnresponsive(known, closing) /\ newHandle' = None
    /\ \A t \in Transports : op'[t] # "connect"
    /\ \A s \in known : Held(s) => Held(s)'
    /\ closing \/ (known = sockets /\ NewIsKnown)
IsOpened ==
  /\ Answered /\ newHandle = None /\ newHandle' \in Free
  /\ mutex \in Transports \cup {"ntp"} /\ (mutex \in Transports => op[mutex] = "open")
  /\ \E c \in Connections : opened' = [opened EXCEPT ![newHandle'] = c] /\ (c.id = None <=> mutex = "ntp")
  /\ UNCHANGED <<urcs, modemRate, uartRate, unclosed, sockets, mutex, op>>
IsRegistered(t) == RegisterSocket(t)
IsClosed(t) ==
  /\ Answered /\ mutex \in {None, t} /\ op[t] = "close" /\ newHandle' = newHandle /\ newHandle = None
  /\ \E mine \in SUBSET sockets :
       /\ mine = {s \in sockets : s.id = socket[t]} /\ sockets' = sockets \ mine
       /\ opened' = [h \in Handles |-> IF \E s \in mine : s.handle = h THEN None ELSE opened[h]]
  /\ op' = [op EXCEPT ![t] = "none"] /\ UNCHANGED <<urcs, modemRate, uartRate, unclosed>>
NtpIsClosed ==
  /\ Answered /\ mutex = "ntp" /\ newHandle # None /\ newHandle' = None
  /\ opened' = [opened EXCEPT ![newHandle] = None] /\ UNCHANGED <<op, sockets, urcs, modemRate, uartRate, unclosed>>

\* Connections that stay as they are go on.
LEMMA SameContinues == SocketTypeOK /\ UNCHANGED opened => Continues
  BY DEF SocketTypeOK, Continues

\* Every step is one of these: first those that nobody waits for, then those of NTP, then a transport's.
LEMMA ModemCases ==
  ASSUME SocketInv,
         UNCHANGED socketVars \/ ModemUpset \/ ModemComesBack \/ (\E h \in Handles : PeerActs(h)) \/ handleLine \/ MayResetAgain
  PROVE  GoOn \/ AreDropped \/ Restarts
<1> USE DEF modemVars, driverVars, transportVars, Held
<1>0. SocketTypeOK /\ RestartInv
  BY DEF SocketInv
<1>1. CASE UNCHANGED socketVars \/ ModemComesBack \/ MayResetAgain
  <2>1. UNCHANGED <<opened, urcs, sockets, modemRate, uartRate, unclosed, newHandle, mutex, op>>
    BY <1>1 DEF socketVars, ModemComesBack, MayResetAgain
  <2>2. Continues /\ (ReadyQueued' <=> ReadyQueued)
    BY <1>0, <2>1, SameContinues, QueuedLines
  <2> QED
    BY <2>1, <2>2 DEF GoOn
<1>2. CASE ModemUpset
  <2>1. UNCHANGED <<sockets, uartRate, unclosed, newHandle, mutex, op>>
    BY <1>2 DEF ModemUpset
  <2>2. CASE UNCHANGED <<modemRate, opened, urcs>>
    <3>1. Continues /\ (ReadyQueued' <=> ReadyQueued)
      BY <1>0, <2>2, SameContinues, QueuedLines
    <3> QED
      BY <2>1, <2>2, <3>1 DEF GoOn
  <2>3. CASE /\ modemRate' = "default" /\ opened' = NothingOpen
             /\ urcs' = IF uartRate = "default" THEN Append(urcs, [event |-> "Ready"]) ELSE urcs
    <3>1. uartRate \in {"fast", "default"}
      BY <1>0 DEF SocketTypeOK
    <3>2. ReadyQueued' \/ RateLost'
      BY <1>0, <2>1, <2>3, <3>1, QueuedLines DEF RateLost
    <3> QED
      BY <2>1, <2>3, <3>2 DEF Restarts
  <2> QED
    BY <1>2, <2>2, <2>3 DEF ModemUpset
<1>3. ASSUME NEW h \in Handles, PeerActs(h)
      PROVE  GoOn
  <2>1. UNCHANGED <<sockets, modemRate, uartRate, unclosed, newHandle, mutex, op>>
    BY <1>3 DEF PeerActs
  <2>2. urcs' = urcs \/ \E announced \in Announcements : urcs' = Append(urcs, announced)
    BY <1>3 DEF PeerActs, Announcements
  <2>3. Continues /\ (ReadyQueued' <=> ReadyQueued)
    BY <1>0, <1>3, <2>2, PeerContinues, QueuedLines
  <2> QED
    BY <2>1, <2>3 DEF GoOn
<1>4. CASE handleLine
  <2>1. /\ urcs # << >> /\ urcs' = Tail(urcs)
        /\ UNCHANGED <<opened, modemRate, uartRate, unclosed, newHandle, mutex, op>>
        /\ IF Head(urcs).event = "Ready" THEN sockets' = {} ELSE sockets' = sockets
    BY <1>4 DEF handleLine, dropAllSockets
  <2>2. CASE Head(urcs).event = "Ready"
    <3>1. opened = NothingOpen
      BY <1>0, <2>1, <2>2, QueuedLines DEF RestartInv
    <3> QED
      BY <2>1, <2>2, <3>1 DEF AreDropped
  <2>3. CASE Head(urcs).event # "Ready"
    <3>1. Continues /\ (ReadyQueued' <=> ReadyQueued)
      BY <1>0, <2>1, <2>3, SameContinues, QueuedLines
    <3> QED
      BY <2>1, <2>3, <3>1 DEF GoOn
  <2> QED
    BY <2>2, <2>3
<1> QED
  BY <1>1, <1>2, <1>3, <1>4

\* What taking commandMutex does.
LEMMA TakeCases ==
  ASSUME SocketInv, mutex = None, recoverIfRestarted, UNCHANGED <<newHandle, op>>
  PROVE  GoOn \/ AreDropped \/ StaysLost
<1>0. SocketTypeOK /\ newHandle = None
  BY SocketAssumption DEF SocketInv, HolderInv, HandleHeld
<1>1. CASE NotRestarted
  <2>1. Continues /\ (ReadyQueued' <=> ReadyQueued) /\ UNCHANGED <<sockets, modemRate, uartRate, unclosed>>
    BY <1>0, <1>1, SameContinues, QueuedLines DEF NotRestarted, linkVars, modemVars
  <2>2. \A s \in sockets : ~Held(s)
    BY <1>0, SocketAssumption DEF Held, SocketTypeOK
  <2> QED
    BY <1>0, <2>1, <2>2 DEF GoOn
<1>2. CASE IsSetUp
  BY <1>2 DEF IsSetUp, AreDropped
<1>3. CASE IsGivenUp
  BY <1>0, <1>3 DEF StaysLost
<1> QED
  BY <1>0, <1>1, <1>2, <1>3, RecoverOutcome

\* The steps of NTP.
LEMMA NtpCases ==
  ASSUME SocketInv, NtpTakeMutex \/ NtpOpen \/ NtpClose
  PROVE  GoOn \/ AreDropped \/ StaysLost \/ GoUnanswered \/ IsOpened \/ NtpIsClosed
<1> USE DEF modemVars, linkVars, eventVars
<1>0. SocketTypeOK /\ HandleHeld /\ "ntp" \notin Transports /\ \A s \in sockets : s.by \in Transports
  BY SocketAssumption DEF SocketInv, HolderInv, SocketTypeOK
<1>1. CASE NtpTakeMutex
  BY <1>1, TakeCases DEF NtpTakeMutex
<1>a. ASSUME mutex = "ntp" PROVE (\A t \in Transports : op[t] # "connect") /\ (\A s \in sockets : ~Held(s))
  BY <1>0, <1>a DEF HandleHeld, Held
<1>2. CASE NtpOpen
  <2>0. mutex = "ntp" /\ newHandle = None /\ op' = op
    BY <1>2 DEF NtpOpen
  <2>1. CASE /\ Answered /\ newHandle' \in Free
             /\ opened' = [opened EXCEPT ![newHandle'] = [NewConnection(None) EXCEPT !.live = TRUE]]
             /\ UNCHANGED <<modemRate, urcs, uartRate, unclosed, sockets, mutex>>
    <3> DEFINE c == [NewConnection(None) EXCEPT !.live = TRUE]
    <3>1. c \in Connections /\ c.id = None
      BY <1>0, NewConnectionTypes
    <3>2. opened' = [opened EXCEPT ![newHandle'] = c]
      BY <2>1
    <3> HIDE DEF c
    <3>3. \E d \in Connections : opened' = [opened EXCEPT ![newHandle'] = d] /\ (d.id = None <=> mutex = "ntp")
      BY <2>0, <3>1, <3>2
    <3> QED
      BY <1>0, <2>0, <2>1, <3>3 DEF IsOpened
  <2>2. CASE Answered /\ UNCHANGED <<linkVars, sockets, newHandle>>
    <3>1. Continues /\ (ReadyQueued' <=> ReadyQueued)
      BY <1>0, <2>2, SameContinues, QueuedLines
    <3> QED
      BY <1>a, <2>0, <2>2, <3>1 DEF GoOn
  <2>3. CASE resetIfUnresponsive(sockets, FALSE) /\ UNCHANGED newHandle
    <3>1. sockets \in SUBSET sockets /\ FALSE \in BOOLEAN /\ NewIsKnown
      BY <2>0 DEF NewIsKnown
    <3> QED
      BY <1>a, <2>0, <2>3, <3>1 DEF GoUnanswered
  <2> QED
    BY <1>2, <2>1, <2>2, <2>3 DEF NtpOpen
<1>3. CASE NtpClose
  <2>0. mutex = "ntp" /\ newHandle # None /\ newHandle' = None /\ op' = op
    BY <1>3 DEF NtpClose
  <2>1. CASE /\ Answered /\ opened' = [opened EXCEPT ![newHandle] = None]
             /\ UNCHANGED <<modemRate, urcs, uartRate, unclosed, sockets>>
    BY <2>0, <2>1 DEF NtpIsClosed
  <2>2. CASE resetIfUnresponsive(sockets, TRUE)
    <3>1. sockets \in SUBSET sockets /\ TRUE \in BOOLEAN
      OBVIOUS
    <3> QED
      BY <1>a, <2>0, <2>2, <3>1 DEF GoUnanswered
  <2> QED
    BY <1>3, <2>1, <2>2 DEF NtpClose
<1> QED
  BY <1>1, <1>2, <1>3

\* A transport's steps.
LEMMA TransportCases ==
  ASSUME SocketInv, NEW t \in Transports, Proceed(t) \/ ShouldReceive(t) \/ Write(t)
  PROVE  GoOn \/ AreDropped \/ StaysLost \/ GoUnanswered \/ IsOpened \/ IsRegistered(t) \/ IsClosed(t)
<1> USE DEF modemVars, linkVars, eventVars, driverVars
<1>0. /\ SocketTypeOK /\ HolderInv /\ LeftInv /\ \A s \in sockets : s.by \in Transports
      /\ None \notin Transports /\ "ntp" \notin Transports /\ t # None /\ t # "ntp"
      /\ \A next : \A x \in Transports : [op EXCEPT ![t] = next][x] = IF x = t THEN next ELSE op[x]
      /\ sockets \in SUBSET sockets /\ TRUE \in BOOLEAN /\ FALSE \in BOOLEAN
  BY SocketAssumption DEF SocketInv, SocketTypeOK
<1>a. ASSUME mutex = t PROVE \A x \in Transports : op[x] = "connect" => x = t
  BY <1>0, <1>a DEF HolderInv, HandleHeld
<1>b. ASSUME mutex = t, op[t] \notin {"open", "connect"} PROVE newHandle = None /\ NewIsKnown
  BY <1>0, <1>b DEF HolderInv, HandleHeld, NewIsKnown
<1>1. ASSUME Connect(t) \/ FinishConnect(t) \/ CheckClosed(t) \/ ShouldReceive(t) \/ Write(t)
      PROVE  GoOn
  <2>1. /\ UNCHANGED <<opened, urcs, sockets, modemRate, uartRate, unclosed, newHandle, mutex>>
        /\ op[t] \in {"none", "finish", "check", "poll"}
        /\ \E next \in {"open", "poll", "close", "receive", "send"} : op' = [op EXCEPT ![t] = next]
    BY <1>1 DEF Connect, FinishConnect, CheckClosed, ShouldReceive, Write
  <2>2. Continues /\ (ReadyQueued' <=> ReadyQueued)
    BY <1>0, <2>1, SameContinues, QueuedLines
  <2>3. \A s \in sockets : Held(s) => Held(s)'
    BY <1>0, <2>1 DEF Held
  <2>4. \A x \in Transports : op'[x] = "connect" => op[x] = "connect"
    BY <1>0, <2>1
  <2> QED
    BY <2>1, <2>2, <2>3, <2>4 DEF GoOn
<1>2. CASE TakeMutex(t)
  BY <1>2, TakeCases DEF TakeMutex
<1>c. ASSUME mutex = t, op[t] \notin {"connect", "close"} PROVE \A s \in sockets : ~Held(s)
  BY <1>c DEF Held
<1>3. CASE CreateSocket(t)
  <2>0. mutex = t /\ op[t] = "open" /\ newHandle = None /\ NewIsKnown
    BY <1>3 DEF CreateSocket, NewIsKnown
  <2>1. CASE /\ Answered /\ newHandle' \in Free /\ opened' = [opened EXCEPT ![newHandle'] = NewConnection(FreshId)]
             /\ UNCHANGED <<modemRate, urcs, uartRate, unclosed, sockets, mutex, op>>
    <3>1. FreshId \in Ids /\ FreshId # None
      BY <1>0, FreshIdIsFree DEF HolderInv
    <3>2. NewConnection(FreshId) \in Connections /\ NewConnection(FreshId).id = FreshId
      BY <1>0, <3>1, NewConnectionTypes
    <3>3. \E d \in Connections : opened' = [opened EXCEPT ![newHandle'] = d] /\ (d.id = None <=> mutex = "ntp")
      BY <1>0, <2>0, <2>1, <3>1, <3>2
    <3> QED
      BY <1>0, <2>0, <2>1, <3>3 DEF IsOpened
  <2>2. CASE Answered /\ UNCHANGED <<linkVars, sockets, newHandle>> /\ op' = [op EXCEPT ![t] = "none"]
    <3>1. Continues /\ (ReadyQueued' <=> ReadyQueued)
      BY <1>0, <2>2, SameContinues, QueuedLines
    <3>2. \A x \in Transports : op'[x] # "connect"
      BY <1>0, <1>a, <2>0, <2>2
    <3> QED
      BY <1>c, <2>0, <2>2, <3>1, <3>2 DEF GoOn
  <2>3. CASE resetIfUnresponsive(sockets, FALSE) /\ UNCHANGED newHandle /\ op' = [op EXCEPT ![t] = "none"]
    <3>2. \A x \in Transports : op'[x] # "connect"
      BY <1>0, <1>a, <2>0, <2>3
    <3> QED
      BY <1>0, <1>c, <2>0, <2>3, <3>2 DEF GoUnanswered
  <2> QED
    BY <1>3, <2>1, <2>2, <2>3 DEF CreateSocket
<1>4. CASE RegisterSocket(t)
  BY <1>4 DEF IsRegistered
<1>5. CASE ConnectSocket(t)
  <2>0. mutex = t /\ op[t] = "connect" /\ newHandle' = None /\ newHandle # None /\ NewIsKnown
    BY <1>0, <1>5 DEF ConnectSocket, LeftInv, HolderInv, HandleHeld
  <2>1. CASE /\ Answered /\ opened[newHandle] # None /\ opened' = [opened EXCEPT ![newHandle].live = TRUE]
             /\ op' = [op EXCEPT ![t] = "finish"]
             /\ UNCHANGED <<modemRate, urcs, uartRate, unclosed, sockets>>
    <3>1. Continues /\ (ReadyQueued' <=> ReadyQueued)
      BY <1>0, <2>0, <2>1, ConnectContinues, QueuedLines
    <3>2. \A x \in Transports : op'[x] # "connect"
      <4>1. \A x \in Transports : op'[x] = IF x = t THEN "finish" ELSE op[x]
        BY <1>0, <2>1
      <4> QED
        BY <1>a, <2>0, <4>1
    <3>3. \A s \in sockets : Held(s) => opened[s.handle] # None
      BY <1>0, <2>0, <2>1 DEF Held, HolderInv, HandleHeld
    <3> QED
      BY <2>0, <2>1, <3>1, <3>2, <3>3 DEF GoOn
  <2>2. CASE /\ Answered /\ UNCHANGED <<linkVars, sockets, mutex>> /\ op' = [op EXCEPT ![t] = "close"]
    <3>1. Continues /\ (ReadyQueued' <=> ReadyQueued)
      BY <1>0, <2>2, SameContinues, QueuedLines
    <3>2. \A x \in Transports : op'[x] # "connect"
      BY <1>0, <1>a, <2>0, <2>2
    <3>3. \A s \in sockets : Held(s) => Held(s)'
      BY <1>0, <2>0, <2>2 DEF Held
    <3> QED
      BY <2>0, <2>2, <3>1, <3>2, <3>3 DEF GoOn
  <2>3. CASE resetIfUnresponsive(sockets, FALSE) /\ op' = [op EXCEPT ![t] = "close"] /\ UNCHANGED mutex
    <3>2. \A x \in Transports : op'[x] # "connect"
      BY <1>0, <1>a, <2>0, <2>3
    <3>3. \A s \in sockets : Held(s) => Held(s)'
      BY <1>0, <2>0, <2>3 DEF Held
    <3> QED
      BY <1>0, <2>0, <2>3, <3>2, <3>3 DEF GoUnanswered
  <2> QED
    BY <1>5, <2>1, <2>2, <2>3 DEF ConnectSocket
<1>6. CASE CloseSocket(t)
  <2> DEFINE mine == {s \in sockets : s.id = socket[t]}
  <2>0. op[t] = "close" /\ mutex \in {None, t} /\ mutex' = None /\ op' = [op EXCEPT ![t] = "none"] /\ newHandle' = newHandle
    BY <1>6 DEF CloseSocket
  <2>1. newHandle = None /\ \A x \in Transports : op'[x] # "connect"
    BY <1>0, <2>0, SocketAssumption DEF HolderInv, HandleHeld
  <2>2. \A s \in sockets : Held(s) => s \in mine
    BY <1>0, <2>0, SocketAssumption DEF Held, HolderInv, OfItsTransport
  <2>3. mine \in SUBSET sockets /\ sockets \ mine \in SUBSET sockets
    OBVIOUS
  <2>4. CASE mine = {} /\ UNCHANGED <<linkVars, sockets>>
    <3>1. Continues /\ (ReadyQueued' <=> ReadyQueued)
      BY <1>0, <2>4, SameContinues, QueuedLines
    <3>2. \A s \in sockets : ~Held(s)
      BY <2>2, <2>4
    <3> QED
      BY <2>0, <2>1, <2>4, <3>1, <3>2 DEF GoOn
  <2>5. CASE /\ Answered /\ sockets' = sockets \ mine
             /\ opened' = [h \in Handles |-> IF \E s \in mine : s.handle = h THEN None ELSE opened[h]]
             /\ UNCHANGED <<urcs, modemRate, uartRate, unclosed>>
    BY <2>0, <2>1, <2>3, <2>5 DEF IsClosed
  <2>6. CASE resetIfUnresponsive(sockets \ mine, TRUE)
    <3>1. \A s \in sockets \ mine : ~Held(s)
      BY <2>2
    <3> HIDE DEF mine
    <3> QED
      BY <1>0, <2>0, <2>1, <2>3, <2>6, <3>1 DEF GoUnanswered
  <2> QED
    BY <1>6, <2>4, <2>5, <2>6 DEF CloseSocket
<1>7. ASSUME Receive(t) \/ Send(t)
      PROVE  GoOn \/ GoUnanswered
  <2>0. /\ mutex = t /\ op[t] \in {"receive", "send"} /\ newHandle' = newHandle
        /\ \E next \in {"check", "poll", "close"} : op' = [op EXCEPT ![t] = next]
    BY <1>7, ReceiveCases DEF Send
  <2>1. newHandle = None /\ NewIsKnown /\ (\A x \in Transports : op'[x] # "connect") /\ \A s \in sockets : ~Held(s)
    BY <1>0, <1>a, <1>b, <1>c, <2>0
  <2>2. CASE UNCHANGED <<linkVars, sockets>>
    <3>1. Continues /\ (ReadyQueued' <=> ReadyQueued)
      BY <1>0, <2>2, SameContinues, QueuedLines
    <3> QED
      BY <2>0, <2>1, <2>2, <3>1 DEF GoOn
  <2>3. CASE /\ \E s \in sockets : ReadOf(s, t)
             /\ UNCHANGED <<urcs, modemRate, uartRate, unclosed, sockets>>
    <3>1. Continues /\ (ReadyQueued' <=> ReadyQueued)
      BY <1>0, <2>3, ReadContinues, QueuedLines
    <3> QED
      BY <2>0, <2>1, <2>3, <3>1 DEF GoOn
  <2>4. CASE resetIfUnresponsive(sockets, FALSE)
    BY <1>0, <2>0, <2>1, <2>4 DEF GoUnanswered
  <2>5. CASE Receive(t)
    BY <2>2, <2>3, <2>4, <2>5, ReceiveCases
  <2>6. CASE Send(t)
    BY <2>2, <2>4, <2>6 DEF Send
  <2> QED
    BY <1>7, <2>5, <2>6
<1> QED
  BY <1>1, <1>2, <1>3, <1>4, <1>5, <1>6, <1>7 DEF Proceed

\* Every step is one of these.
LEMMA StepCases ==
  ASSUME SocketInv, [SocketNext]_socketVars
  PROVE  \/ GoOn \/ AreDropped \/ Restarts \/ StaysLost \/ GoUnanswered \/ IsOpened \/ NtpIsClosed
         \/ \E t \in Transports : IsRegistered(t) \/ IsClosed(t)
<1>1. CASE UNCHANGED socketVars \/ ModemUpset \/ ModemComesBack \/ (\E h \in Handles : PeerActs(h)) \/ handleLine \/ MayResetAgain
  BY <1>1, ModemCases
<1>2. CASE NtpTakeMutex \/ NtpOpen \/ NtpClose
  BY <1>2, NtpCases
<1>3. ASSUME NEW t \in Transports, Proceed(t) \/ ShouldReceive(t) \/ Write(t)
      PROVE  GoOn \/ AreDropped \/ StaysLost \/ GoUnanswered \/ IsOpened \/ IsRegistered(t) \/ IsClosed(t)
  BY <1>3, TransportCases
<1> QED
  BY <1>1, <1>2, <1>3 DEF SocketNext

\* A connection that goes on, or ends, is no other one.
LEMMA MatchStep ==
  ASSUME SocketInv, [SocketNext]_socketVars
  PROVE  HandleKnown' /\ SameSocket'
<1>0. /\ SocketTypeOK /\ HandleKnown /\ SameSocket /\ HolderInv
      /\ opened \in [Handles -> Connections \cup {None}] /\ newHandle \in Handles \cup {None}
      /\ \A s \in sockets : s.id \in Ids /\ s.handle \in Handles /\ s.by \in Transports
      /\ None \notin Handles /\ None \notin Ids /\ "ntp" \notin Transports /\ None \notin Transports /\ None \notin Connections
  BY SocketAssumption DEF SocketInv, SocketTypeOK
<1>1. ASSUME sockets' \subseteq sockets,
             \A h \in Handles : opened'[h] # None => opened[h] # None /\ opened'[h].id = opened[h].id,
             newHandle' = None \/ (newHandle' = newHandle /\ (newHandle # None => mutex' = mutex))
      PROVE  HandleKnown' /\ SameSocket'
  BY <1>0, <1>1 DEF HandleKnown, SameSocket
<1>2. CASE GoOn
  BY <1>1, <1>2 DEF GoOn, Continues
<1>3. ASSUME opened' = NothingOpen, newHandle' \in Handles \cup {None}, \A s \in sockets' : s.handle \in Handles
      PROVE  HandleKnown' /\ SameSocket'
  BY <1>3 DEF NothingOpen, HandleKnown, SameSocket
<1>4. SocketTypeOK'
  BY <1>0, SocketTypeStep DEF HolderInv
<1>5. newHandle' \in Handles \cup {None} /\ \A s \in sockets' : s.handle \in Handles
  BY <1>4 DEF SocketTypeOK
<1>6. CASE AreDropped \/ Restarts
  BY <1>3, <1>5, <1>6 DEF AreDropped, Restarts
<1>7. CASE StaysLost
  BY <1>0, <1>1, <1>7 DEF StaysLost, IsGivenUp, modemVars
<1>8. CASE GoUnanswered
  <2>1. PICK known \in SUBSET sockets, closing \in BOOLEAN : resetIfUnresponsive(known, closing) /\ newHandle' = None
    BY <1>8 DEF GoUnanswered
  <2>2. Unchanged(known, closing) \/ FoundRestarted(closing) \/ WasReset \/ LeftAlone(known, closing)
    BY <1>0, <2>1, ResetOutcome
  <2>3. CASE WasReset
    BY <1>3, <1>5, <2>3 DEF WasReset
  <2>4. CASE Unchanged(known, closing) \/ FoundRestarted(closing) \/ LeftAlone(known, closing)
    <3>1. opened' = opened /\ sockets' \subseteq sockets
      BY <2>4 DEF Unchanged, FoundRestarted, LeftAlone, modemVars
    <3> QED
      BY <1>1, <2>1, <3>1
  <2> QED
    BY <2>2, <2>3, <2>4
<1>9. CASE IsOpened
  <2>1. PICK c \in Connections : opened' = [opened EXCEPT ![newHandle'] = c] /\ (c.id = None <=> mutex = "ntp")
    BY <1>9 DEF IsOpened
  <2>2. newHandle' \in Handles /\ opened[newHandle'] = None /\ UNCHANGED <<sockets, mutex>>
    BY <1>9 DEF IsOpened, Free
  <2>3. HandleKnown'
    BY <1>0, <2>1, <2>2 DEF HandleKnown
  <2>4. \A s \in sockets : s.handle # newHandle'
    <3>1. \A s \in sockets : ~Held(s)
      BY <1>0, <1>9 DEF IsOpened, Held
    <3>2. ~ReadyQueued /\ ~RateLost
      BY <1>0, <1>9, QueuedLines DEF IsOpened, Answered, Hears, RateLost
    <3> QED
      BY <2>2, <3>1, <3>2 DEF SocketInv, StaleIsLost
  <2>5. SameSocket'
    BY <1>0, <2>1, <2>2, <2>4 DEF SameSocket
  <2> QED
    BY <2>3, <2>5
<1>10. CASE NtpIsClosed
  <2>1. \A h \in Handles : opened'[h] # None => opened[h] # None /\ opened'[h].id = opened[h].id
    BY <1>0, <1>10 DEF NtpIsClosed
  <2> QED
    BY <1>1, <1>10, <2>1 DEF NtpIsClosed
<1>11. ASSUME NEW t \in Transports, IsRegistered(t)
       PROVE  HandleKnown' /\ SameSocket'
  <2>1. mutex = t /\ newHandle # None /\ UNCHANGED <<opened, mutex, newHandle>>
    BY <1>11 DEF IsRegistered, RegisterSocket, linkVars, modemVars
  <2>2. HandleKnown'
    BY <1>0, <2>1 DEF HandleKnown
  <2> DEFINE id == IF opened[newHandle] = None THEN FreshId ELSE opened[newHandle].id
             new == [id |-> id, handle |-> newHandle, by |-> t]
  <2>3. sockets' = sockets \cup {new}
    BY <1>11 DEF IsRegistered, RegisterSocket
  <2>4. opened[new.handle] = None \/ opened[new.handle].id = new.id
    OBVIOUS
  <2> HIDE DEF new
  <2>5. SameSocket'
    BY <1>0, <2>1, <2>3, <2>4 DEF SameSocket
  <2> QED
    BY <2>2, <2>5
<1>12. ASSUME NEW t \in Transports, IsClosed(t)
       PROVE  HandleKnown' /\ SameSocket'
  <2>1. PICK mine \in SUBSET sockets : /\ sockets' = sockets \ mine
          /\ opened' = [h \in Handles |-> IF \E s \in mine : s.handle = h THEN None ELSE opened[h]]
    BY <1>12 DEF IsClosed
  <2>2. \A h \in Handles : opened'[h] # None => opened[h] # None /\ opened'[h].id = opened[h].id
    BY <2>1
  <2> QED
    BY <1>1, <1>12, <2>1, <2>2 DEF IsClosed
<1> QED
  BY <1>2, <1>6, <1>7, <1>8, <1>9, <1>10, <1>11, <1>12, StepCases

\* A socket whose connection is gone is told so, or about to be.
LEMMA StaleStep ==
  ASSUME SocketInv, [SocketNext]_socketVars
  PROVE  StaleIsLost'
<1>0. /\ SocketTypeOK /\ HandleKnown /\ SameSocket /\ HolderInv /\ StaleIsLost /\ RestartInv
      /\ opened \in [Handles -> Connections \cup {None}] /\ newHandle \in Handles \cup {None}
      /\ \A s \in sockets : s.id \in Ids /\ s.handle \in Handles /\ s.by \in Transports
      /\ None \notin Handles /\ None \notin Ids /\ "ntp" \notin Transports /\ None \notin Transports
  BY SocketAssumption DEF SocketInv, SocketTypeOK
<1>a. ASSUME Answered PROVE ~ReadyQueued /\ ~RateLost
  BY <1>0, <1>a, QueuedLines DEF Answered, Hears, RateLost
<1>1. CASE GoOn
  <2>1. RateLost' <=> RateLost
    BY <1>1 DEF GoOn, RateLost
  <2> QED
    BY <1>0, <1>1, <2>1 DEF GoOn, Continues, StaleIsLost
<1>2. CASE AreDropped
  BY <1>2 DEF AreDropped, StaleIsLost
<1>3. CASE Restarts
  BY <1>3 DEF Restarts, StaleIsLost
<1>4. CASE StaysLost
  <2>1. \A s \in sockets : ~Held(s)
    BY <1>0, <1>4 DEF Held, StaysLost
  <2>2. sockets # {} => ~RateLost
    BY <1>0, <1>4 DEF StaysLost, IsGivenUp, RestartInv, RateLost
  <2>3. ReadyQueued' <=> ReadyQueued
    BY <1>0, <1>4, QueuedLines DEF StaysLost, IsGivenUp, modemVars
  <2>4. UNCHANGED <<sockets, opened>>
    BY <1>4 DEF StaysLost, IsGivenUp, modemVars
  <2> QED
    BY <1>0, <2>1, <2>2, <2>3, <2>4 DEF StaleIsLost
<1>5. CASE GoUnanswered
  <2>1. PICK known \in SUBSET sockets, closing \in BOOLEAN : resetIfUnresponsive(known, closing) /\ \A s \in known : Held(s) => Held(s)'
    BY <1>5 DEF GoUnanswered
  <2>2. CASE Unchanged(known, closing)
    <3>1. UNCHANGED <<opened, modemRate>> /\ sockets' = known
      BY <2>2 DEF Unchanged, modemVars
    <3>2. RateLost => RateLost'
      BY <2>2, <3>1 DEF Unchanged, RateLost
    <3>3. ReadyQueued' <=> ReadyQueued
      BY <1>0, <2>2, QueuedLines DEF Unchanged, modemVars
    <3> QED
      BY <1>0, <2>1, <3>1, <3>2, <3>3 DEF StaleIsLost
  <2>3. CASE FoundRestarted(closing) \/ WasReset \/ LeftAlone(known, closing)
    BY <2>3 DEF FoundRestarted, WasReset, LeftAlone, StaleIsLost
  <2> QED
    BY <1>0, <2>1, <2>2, <2>3, ResetOutcome
<1>6. CASE IsOpened
  <2>1. \A s \in sockets : ~Held(s)
    BY <1>0, <1>6 DEF IsOpened, Held
  <2>2. \A s \in sockets : opened[s.handle] # None
    BY <1>0, <1>a, <1>6, <2>1 DEF IsOpened, StaleIsLost
  <2>3. PICK c \in Connections : opened' = [opened EXCEPT ![newHandle'] = c]
    BY <1>6 DEF IsOpened
  <2>4. c # None /\ newHandle' \in Handles /\ sockets' = sockets
    BY <1>6, SocketAssumption DEF IsOpened, Free
  <2>5. \A s \in sockets : opened'[s.handle] # None
    BY <1>0, <2>2, <2>3, <2>4
  <2> QED
    BY <2>4, <2>5 DEF StaleIsLost
<1>7. CASE NtpIsClosed
  <2>1. mutex = "ntp" /\ newHandle \in Handles /\ sockets' = sockets /\ opened' = [opened EXCEPT ![newHandle] = None]
    BY <1>0, <1>7 DEF NtpIsClosed
  <2>2. \A s \in sockets : opened[s.handle] # None
    BY <1>0, <1>a, <1>7, <2>1 DEF NtpIsClosed, StaleIsLost, Held
  <2>3. \A s \in sockets : s.handle # newHandle
    BY <1>0, <2>1, <2>2 DEF HandleKnown, SameSocket
  <2> QED
    BY <1>0, <2>1, <2>2, <2>3 DEF StaleIsLost
<1>8. ASSUME NEW t \in Transports, IsRegistered(t)
      PROVE  StaleIsLost'
  <2>1. PICK id : sockets' = sockets \cup {[id |-> id, handle |-> newHandle, by |-> t]}
    BY <1>8 DEF IsRegistered, RegisterSocket
  <2>2. /\ mutex = t /\ op[t] = "open" /\ op' = [op EXCEPT ![t] = "connect"]
        /\ UNCHANGED <<opened, mutex, urcs, modemRate, uartRate>>
    BY <1>8 DEF IsRegistered, RegisterSocket, linkVars, modemVars
  <2>3. (ReadyQueued' <=> ReadyQueued) /\ (RateLost' <=> RateLost)
    BY <1>0, <2>2, QueuedLines DEF RateLost
  <2>4. \A s \in sockets : ~Held(s)
    BY <2>2 DEF Held
  <2>5. mutex' = t /\ op'[t] = "connect"
    BY <1>0, <2>2 DEF SocketTypeOK
  <2>6. \A s \in sockets : opened'[s.handle] = None => ReadyQueued' \/ RateLost'
    BY <1>0, <2>2, <2>3, <2>4 DEF StaleIsLost
  <2>7. \A s \in sockets' : s \in sockets \/ Held(s)'
    BY <2>1, <2>5 DEF Held
  <2> QED
    BY <2>6, <2>7 DEF StaleIsLost
<1>9. ASSUME NEW t \in Transports, IsClosed(t)
      PROVE  StaleIsLost'
  <2>1. PICK mine \in SUBSET sockets :
          /\ mine = {s \in sockets : s.id = socket[t]} /\ sockets' = sockets \ mine
          /\ opened' = [h \in Handles |-> IF \E s \in mine : s.handle = h THEN None ELSE opened[h]]
    BY <1>9 DEF IsClosed
  <2>2. \A s \in sockets : Held(s) => s \in mine
    BY <1>0, <1>9, <2>1 DEF IsClosed, Held, HolderInv, OfItsTransport
  <2>3. \A s \in sockets : s \in mine \/ opened[s.handle] # None
    BY <1>0, <1>a, <1>9, <2>2 DEF IsClosed, StaleIsLost
  <2>4. \A s \in sockets : opened[s.handle] # None => \A m \in mine : m.handle = s.handle => m.id = s.id
    BY <1>0, <2>1 DEF SameSocket
  <2>5. \A s \in sockets' : opened'[s.handle] # None
    BY <1>0, <2>1, <2>3, <2>4
  <2> QED
    BY <2>5 DEF StaleIsLost
<1> QED
  BY <1>1, <1>2, <1>3, <1>4, <1>5, <1>6, <1>7, <1>8, <1>9, StepCases

\* What the modem has open is the driver's, or is being opened, or was given up.
LEMMA LeftStep ==
  ASSUME SocketInv, [SocketNext]_socketVars
  PROVE  LeftInv'
<1>0. /\ SocketTypeOK /\ HandleKnown /\ HolderInv /\ LeftInv /\ RestartInv
      /\ opened \in [Handles -> Connections \cup {None}] /\ newHandle \in Handles \cup {None}
      /\ op \in [Transports -> {"none", "open", "connect", "finish", "poll", "receive", "check", "send", "close"}]
      /\ \A s \in sockets : s.handle \in Handles /\ s.by \in Transports
      /\ None \notin Handles /\ "ntp" \notin Transports /\ None \notin Transports
      /\ unclosed \in BOOLEAN
  BY SocketAssumption DEF SocketInv, SocketTypeOK
<1>a. ASSUME Answered, UNCHANGED <<modemRate, uartRate>> PROVE ~RateLost'
  BY <1>a DEF Answered, Hears, RateLost
<1>b. ASSUME opened' = NothingOpen, newHandle' \in Handles \cup {None} PROVE LeftInv'
  <2>1. \A h \in Handles : opened'[h] = None
    BY <1>b DEF NothingOpen
  <2> QED
    BY <1>0, <1>b, <2>1 DEF LeftInv, NewIsKnown, NoneLeft
<1>c. newHandle' \in Handles \cup {None}
  BY <1>0, SocketTypeStep DEF HolderInv, SocketTypeOK
<1>d. \A h \in Handles : opened[h] # None /\ ~unclosed => newHandle = h \/ \E s \in sockets : s.handle = h
  BY <1>0 DEF LeftInv, NoneLeft
<1>1. CASE GoOn
  <2>1. /\ UNCHANGED <<sockets, unclosed>> /\ opened' \in [Handles -> Connections \cup {None}]
        /\ \A h \in Handles : opened'[h] = None <=> opened[h] = None
    BY <1>1 DEF GoOn, Continues
  <2>2. RateLost' => opened' = NothingOpen \/ unclosed'
    <3>1. opened = NothingOpen => opened' = NothingOpen
      BY <2>1 DEF NothingOpen
    <3> QED
      BY <1>0, <1>1, <2>1, <3>1 DEF GoOn, RateLost, LeftInv
  <2>3. CASE newHandle' = newHandle /\ \A t \in Transports : op'[t] = "connect" => op[t] = "connect"
    <3>1. (\E t \in Transports : op'[t] = "connect") => NewIsKnown'
      BY <1>0, <2>1, <2>3 DEF LeftInv, NewIsKnown
    <3>2. NoneLeft'
      BY <1>d, <2>1, <2>3 DEF NoneLeft
    <3> QED
      BY <2>2, <3>1, <3>2 DEF LeftInv
  <2>4. CASE newHandle' = None /\ NewIsKnown /\ \A t \in Transports : op'[t] # "connect"
    <3>1. \A h \in Handles : opened[h] # None /\ ~unclosed => \E s \in sockets : s.handle = h
      BY <1>0, <1>d, <2>4 DEF NewIsKnown
    <3>2. NoneLeft'
      BY <2>1, <3>1 DEF NoneLeft
    <3> QED
      BY <2>2, <2>4, <3>2 DEF LeftInv
  <2> QED
    BY <1>1, <2>3, <2>4 DEF GoOn
<1>2. CASE AreDropped \/ Restarts
  BY <1>b, <1>c, <1>2 DEF AreDropped, Restarts
<1>3. CASE StaysLost
  <2>1. UNCHANGED <<opened, sockets, unclosed, newHandle, op>> /\ ~RateLost'
    BY <1>3 DEF StaysLost, IsGivenUp, modemVars, RateLost
  <2>2. NoneLeft' /\ ((\E t \in Transports : op'[t] = "connect") => NewIsKnown')
    BY <1>0, <1>d, <2>1 DEF LeftInv, NoneLeft, NewIsKnown
  <2> QED
    BY <2>1, <2>2 DEF LeftInv
<1>4. CASE GoUnanswered
  <2>1. PICK known \in SUBSET sockets, closing \in BOOLEAN :
          /\ resetIfUnresponsive(known, closing) /\ newHandle' = None
          /\ \A t \in Transports : op'[t] # "connect"
          /\ closing \/ (known = sockets /\ NewIsKnown)
    BY <1>4 DEF GoUnanswered
  <2>2. \A h \in Handles : opened[h] # None /\ ~unclosed /\ ~closing => \E s \in known : s.handle = h
    BY <1>0, <1>d, <2>1 DEF NewIsKnown
  <2>3. CASE Unchanged(known, closing)
    <3>1. sockets' = known /\ unclosed' = (unclosed \/ closing) /\ UNCHANGED <<opened, modemRate>>
      BY <2>3 DEF Unchanged, modemVars
    <3>2. RateLost' => RateLost
      BY <2>3, <3>1 DEF Unchanged, RateLost
    <3>3. NoneLeft'
      BY <2>2, <3>1 DEF NoneLeft
    <3> QED
      BY <1>0, <2>1, <3>1, <3>2, <3>3 DEF LeftInv
  <2>4. CASE FoundRestarted(closing)
    <3>1. RateLost /\ ~RateLost' /\ sockets' = {} /\ opened' = opened /\ unclosed' = (unclosed \/ closing)
      BY <2>4 DEF FoundRestarted, RateLost, modemVars
    <3>2. opened = NothingOpen \/ unclosed
      BY <1>0, <3>1 DEF LeftInv
    <3>3. \A h \in Handles : opened[h] = None \/ unclosed
      BY <3>2 DEF NothingOpen
    <3>4. NoneLeft'
      BY <3>1, <3>3 DEF NoneLeft
    <3> QED
      BY <2>1, <3>1, <3>4 DEF LeftInv
  <2>5. CASE WasReset
    BY <1>b, <1>c, <2>5 DEF WasReset
  <2>6. CASE LeftAlone(known, closing)
    <3>1. opened' = opened /\ sockets' = {} /\ unclosed' = (unclosed \/ closing \/ known # {})
      BY <2>6 DEF LeftAlone, modemVars
    <3>2. \A h \in Handles : opened[h] = None \/ unclosed'
      BY <2>2, <3>1
    <3>3. NoneLeft'
      BY <3>1, <3>2 DEF NoneLeft
    <3>4. unclosed' \/ opened' = NothingOpen
      BY <1>0, <3>1, <3>2 DEF NothingOpen
    <3> QED
      BY <2>1, <3>3, <3>4 DEF LeftInv
  <2> QED
    BY <1>0, <2>1, <2>3, <2>4, <2>5, <2>6, ResetOutcome
<1>5. CASE IsOpened
  <2>1. PICK c \in Connections : opened' = [opened EXCEPT ![newHandle'] = c]
    BY <1>5 DEF IsOpened
  <2>2. newHandle = None /\ UNCHANGED <<sockets, unclosed, op, mutex>> /\ mutex \in Transports \cup {"ntp"} /\ (mutex \in Transports => op[mutex] = "open")
    BY <1>5 DEF IsOpened
  <2>3. \A t \in Transports : op'[t] # "connect"
    BY <1>0, <2>2 DEF HolderInv, HandleHeld
  <2>4. \A h \in Handles : h # newHandle' => opened'[h] = opened[h]
    BY <1>0, <2>1
  <2>5. NoneLeft'
    BY <1>0, <1>d, <2>2, <2>4 DEF NoneLeft
  <2>6. ~RateLost'
    BY <1>a, <1>5 DEF IsOpened
  <2> QED
    BY <2>3, <2>5, <2>6 DEF LeftInv
<1>6. CASE NtpIsClosed
  <2>1. mutex = "ntp" /\ newHandle' = None /\ UNCHANGED <<op, sockets, unclosed>> /\ opened' = [opened EXCEPT ![newHandle] = None]
    BY <1>6 DEF NtpIsClosed
  <2>2. \A t \in Transports : op'[t] # "connect"
    BY <1>0, <2>1 DEF HolderInv, HandleHeld
  <2>3. \A h \in Handles : opened'[h] # None => opened[h] # None /\ h # newHandle
    BY <1>0, <2>1
  <2>4. NoneLeft'
    BY <1>d, <2>1, <2>3 DEF NoneLeft
  <2>5. ~RateLost'
    BY <1>a, <1>6 DEF NtpIsClosed
  <2> QED
    BY <2>2, <2>4, <2>5 DEF LeftInv
<1>7. ASSUME NEW t \in Transports, IsRegistered(t)
      PROVE  LeftInv'
  <2>1. PICK id : sockets' = sockets \cup {[id |-> id, handle |-> newHandle, by |-> t]}
    BY <1>7 DEF IsRegistered, RegisterSocket
  <2>2. UNCHANGED <<opened, unclosed, newHandle, modemRate, uartRate>>
    BY <1>7 DEF IsRegistered, RegisterSocket, linkVars, modemVars
  <2>3. \E s \in sockets' : s.handle = newHandle'
    <3>1. [id |-> id, handle |-> newHandle, by |-> t] \in sockets'
      BY <2>1
    <3>2. [id |-> id, handle |-> newHandle, by |-> t].handle = newHandle'
      BY <2>2
    <3> QED
      BY <3>1, <3>2
  <2>4. sockets \subseteq sockets'
    BY <2>1
  <2>5. NoneLeft'
    BY <1>d, <2>2, <2>4 DEF NoneLeft
  <2>6. RateLost' => opened' = NothingOpen \/ unclosed'
    BY <1>0, <2>2 DEF LeftInv, RateLost
  <2> QED
    BY <2>3, <2>5, <2>6 DEF LeftInv, NewIsKnown
<1>8. ASSUME NEW t \in Transports, IsClosed(t)
      PROVE  LeftInv'
  <2>1. PICK mine \in SUBSET sockets :
          /\ sockets' = sockets \ mine
          /\ opened' = [h \in Handles |-> IF \E s \in mine : s.handle = h THEN None ELSE opened[h]]
    BY <1>8 DEF IsClosed
  <2>2. newHandle = None /\ UNCHANGED <<newHandle, unclosed>> /\ op' = [op EXCEPT ![t] = "none"] /\ op[t] = "close"
    BY <1>8 DEF IsClosed
  <2>3. \A h \in Handles : opened'[h] # None => opened[h] # None /\ \A s \in mine : s.handle # h
    BY <2>1
  <2>4. NoneLeft'
    BY <1>0, <1>d, <2>1, <2>2, <2>3 DEF NoneLeft
  <2>5. ~RateLost'
    BY <1>a, <1>8 DEF IsClosed
  <2>6. NewIsKnown'
    BY <2>2 DEF NewIsKnown
  <2> QED
    BY <2>4, <2>5, <2>6 DEF LeftInv
<1> QED
  BY <1>1, <1>2, <1>3, <1>4, <1>5, <1>6, <1>7, <1>8, StepCases

\* Every step keeps all of it.
LEMMA SocketStep ==
  ASSUME SocketInv, [SocketNext]_socketVars
  PROVE  SocketInv'
<1>1. SocketTypeOK /\ HolderInv /\ OfItsTransport /\ HandleKnown /\ RestartInv
  BY DEF SocketInv, HolderInv
<1> QED
  BY <1>1, SocketTypeStep, HolderStep, RestartStep, MatchStep, StaleStep, LeftStep DEF SocketInv

\* No socket is open at first.
LEMMA SocketStart == SocketInit => SocketInv
<1> SUFFICES ASSUME SocketInit PROVE SocketInv
  OBVIOUS
<1>1. SocketTypeOK
  <2>1. urcs \in Seq(Announcements \cup [event : {"Ready"}])
    BY EmptySeq DEF SocketInit
  <2>2. unanswered \in 0 .. UnansweredBeforeReset - 1 /\ upsets \in 0 .. MaxUpsets
    BY SocketAssumption DEF SocketInit
  <2>3. LinkTypes
    BY <2>1, <2>2 DEF SocketInit, LinkTypes
  <2>4. TaskTypes
    BY <2>2 DEF SocketInit, TaskTypes
  <2> QED
    BY <2>3, <2>4, TypesSplit
<1>2. /\ sockets = {} /\ newHandle = None /\ urcs = << >> /\ restarted = FALSE /\ modemRate = "fast"
      /\ opened = [h \in Handles |-> None] /\ op = [t \in Transports |-> "none"]
  BY DEF SocketInit
<1>3. ~ReadyQueued /\ ~RateLost
  BY <1>2 DEF ReadyQueued, RateLost
<1>4. HolderInv /\ HandleKnown /\ RestartInv
  BY <1>2, <1>3 DEF HolderInv, OfItsTransport, HandleHeld, HandleKnown, RestartInv
<1>5. SameSocket /\ StaleIsLost /\ LeftInv
  BY <1>2, <1>3 DEF SameSocket, StaleIsLost, LeftInv, NewIsKnown, NoneLeft
<1> QED
  BY <1>1, <1>4, <1>5 DEF SocketInv

\* A command's handle names its own connection, and the modem keeps no connection.
LEMMA SocketFollows == SocketInv => SocketTypeOK /\ OwnConnection /\ NoneLeft
  BY DEF SocketInv, SameSocket, OwnConnection, LeftInv

-----------------------------------------------------------------------------
(* The theorems *)

\* Every step of the UART keeps its types and who uses it.
LEMMA PowerStep ==
  ASSUME PowerInv, [PowerNext]_powerVars
  PROVE  PowerInv'
  BY PowerTypeStep, UartStep DEF PowerInv

\* The parts of the modem's driver, each with its own invariant.
ModemInv == ChannelInv /\ PowerInv /\ SocketInv /\ RrcInv

\* Each part starts as it does by itself.
LEMMA ModemStart == ModemInit => ModemInv
<1>1. RrcInit /\ ~radio => RrcInit
  OBVIOUS
<1> QED
  BY ChannelStart, PowerStart, SocketStart, RrcStart DEF ModemInit, ModemInv

\* A step is one part's, and the others rest.
LEMMA ModemKept ==
  ASSUME ModemInv, [ModemNext]_modemPartsVars
  PROVE  ModemInv'
<1>1. /\ [ChannelNext]_channelState
      /\ [PowerNext]_powerVars
      /\ [SocketNext]_socketVars
      /\ [RrcNext]_rrcVars
  BY DEF ModemNext, ChannelPart, UartPart, SocketPart, RadioPart, modemPartsVars
<1> QED
  BY <1>1, ChannelStep, PowerStep, SocketStep, RrcStep DEF ModemInv

\* What the parts' invariants say together.
LEMMA ModemFollows == ModemInv => ModemTypeOK /\ ModemSound /\ UsedUartIsOn
  BY ChannelFollows, PowerFollows, SocketFollows, RrcFollows
  DEF ModemInv, ModemTypeOK, ModemSound, AnswersSound, HandlesKept

\* Every variable of the modem's driver keeps its type: the queues stay within their sizes, the
\* user count is the number of users, and a socket id is always free (Nrf9151Driver.hpp).
THEOREM TypesCorrect == ModemSpec => []ModemTypeOK
  BY ModemStart, ModemKept, ModemFollows, PTL DEF ModemSpec

\* A command gets its own answer and no other's, and the next does not wait for a result that will
\* not come (AtChannel.hpp); a command that names a handle reaches its own connection, and no
\* connection is left behind, however often the modem restarts or gets stuck; the time the radio is
\* reported connected is the time it was believed to be (Nrf9151Driver.hpp).
THEOREM ModemIsSound == ModemSpec => []ModemSound
  BY ModemStart, ModemKept, ModemFollows, PTL DEF ModemSpec

\* Whoever uses the UART uses it with the modem's UART on or on its way to be, whichever way rings,
\* wake-ups and the idle timer interleave (ModemUartPower.hpp).
THEOREM UsersFindUartOn == ModemSpec => []UsedUartIsOn
  BY ModemStart, ModemKept, ModemFollows, PTL DEF ModemSpec

-----------------------------------------------------------------------------
(* The WiFi driver and its stack *)

QueueEvents == ClientCommands \cup {"Started", "GotIp", "LostIp", "Disconnected", "ScanDone", "ProvisioningDone"}
Stations == {"stopped", "started", "associating", "connected"}

\* The types of the variables, one by one.
StatesTyped ==
  networkConnecting \in BOOLEAN /\ networkReady \in BOOLEAN /\ configPortalRunning \in BOOLEAN /\ rtcInSync \in BOOLEAN
EventsTyped == station \in Stations /\ stackEvents \in Seq(StackEvents)
StackTyped == accessPoint \in BOOLEAN /\ provisioned \in BOOLEAN /\ scanning \in BOOLEAN /\ troubles \in 0 .. MaxTroubles
QueueTyped == eventQueue \in Seq(QueueEvents) /\ Len(eventQueue) <= EventQueueSize /\ eventLost \in BOOLEAN
HandlersTyped == stationStarted \in BOOLEAN /\ scanTriggeredByProvisioning \in BOOLEAN /\ scanResults \in BOOLEAN
LoopTyped ==
  /\ loop \in {"checking", "connecting", "starting", "draining"}
  /\ disabled \in BOOLEAN /\ connected \in BOOLEAN /\ timedOut \in BOOLEAN /\ pendingScan \in BOOLEAN
  /\ shuttingDown \in BOOLEAN
WiFiTyped == StatesTyped /\ EventsTyped /\ StackTyped /\ QueueTyped /\ HandlersTyped /\ LoopTyped

LEMMA WiFiTypes == StatesTypeOK /\ WiFiTypeOK <=> WiFiTyped
<1>1. StatesTypeOK <=> StatesTyped
  BY DEF StatesTypeOK, StatesTyped
<1>2. WiFiTypeOK <=> EventsTyped /\ StackTyped /\ QueueTyped /\ HandlersTyped /\ LoopTyped
  BY DEF WiFiTypeOK, EventsTyped, StackTyped, QueueTyped, HandlersTyped, LoopTyped, QueueEvents, Stations
<1> QED
  BY <1>1, <1>2 DEF WiFiTyped

\* The stack's events, with some more of them.
LEMMA MoreEvents ==
  ASSUME NEW S, NEW s \in Seq(S)
  PROVE  /\ \A e \in S : Append(s, e) \in Seq(S)
         /\ \A e, f \in S : s \o <<e>> \in Seq(S) /\ s \o <<e, f>> \in Seq(S)
         /\ s \o (<<>> \o <<>>) = s
<1>1. \A e \in S : Append(s, e) \in Seq(S)
  BY AppendProperties
<1>2. \A e, f \in S : <<e>> \in Seq(S) /\ <<e, f>> \in Seq(S)
  OBVIOUS
<1>3. \A e, f \in S : s \o <<e>> \in Seq(S) /\ s \o <<e, f>> \in Seq(S)
  BY <1>2, ConcatProperties
<1>4. <<>> \o <<>> = <<>> /\ s \o <<>> = s
  BY ConcatEmptySeq, EmptySeq
<1> QED
  BY <1>1, <1>3, <1>4

\* A queue takes an event, or says that it lost one.
LEMMA OfferTyped ==
  ASSUME QueueTyped, NEW e \in QueueEvents, Offer(e)
  PROVE  QueueTyped'
<1>1. eventQueue \in Seq(QueueEvents) /\ Len(eventQueue) \in Nat /\ Len(eventQueue) <= EventQueueSize /\ eventLost \in BOOLEAN
  BY DEF QueueTyped
<1>2. CASE Len(eventQueue) < EventQueueSize
  <2>1. eventQueue' = Append(eventQueue, e) /\ eventLost' = eventLost
    BY <1>2 DEF Offer
  <2>2. Append(eventQueue, e) \in Seq(QueueEvents) /\ Len(Append(eventQueue, e)) = Len(eventQueue) + 1
    BY <1>1, AppendProperties
  <2>3. \A n, m \in Nat : n < m => n + 1 <= m
    OBVIOUS
  <2>4. Len(eventQueue) + 1 <= EventQueueSize
    BY <1>1, <1>2, <2>3, WiFiAssumption
  <2> QED
    BY <1>1, <2>1, <2>2, <2>4 DEF QueueTyped
<1>3. CASE ~(Len(eventQueue) < EventQueueSize)
  BY <1>1, <1>3 DEF Offer, QueueTyped
<1> QED
  BY <1>2, <1>3

\* A queue from which the first event is taken.
LEMMA TakenTyped ==
  ASSUME QueueTyped, eventQueue # << >>, eventQueue' = Tail(eventQueue), eventLost' = eventLost
  PROVE  QueueTyped'
<1>1. Tail(eventQueue) \in Seq(QueueEvents) /\ Len(Tail(eventQueue)) = Len(eventQueue) - 1 /\ Len(eventQueue) \in Nat
  BY HeadTailProperties DEF QueueTyped
<1> QED
  BY <1>1, WiFiAssumption DEF QueueTyped

\* What stopping the station leaves.
LEMMA StoppedTyped ==
  ASSUME EventsTyped, networkReady \in BOOLEAN, ensureWifiStopped
  PROVE  EventsTyped' /\ networkReady' \in BOOLEAN
<1>1. CASE ~stationStarted
  BY <1>1 DEF ensureWifiStopped, EventsTyped
<1>2. CASE stationStarted
  <2>1. station' = "stopped" /\ stackEvents' = stackEvents \o StoppedEvents /\ networkReady' = FALSE
    BY <1>2 DEF ensureWifiStopped
  <2>2. StoppedEvents \in Seq(StackEvents)
    <3>1. (IF Associated THEN <<"Disconnected">> ELSE << >>) \in Seq(StackEvents) /\ (IF station # "stopped" THEN <<"Stop">> ELSE << >>) \in Seq(StackEvents)
      <4>1. "Disconnected" \in StackEvents /\ "Stop" \in StackEvents
        BY DEF StackEvents
      <4>2. << >> \in Seq(StackEvents) /\ <<"Disconnected">> \in Seq(StackEvents) /\ <<"Stop">> \in Seq(StackEvents)
        BY <4>1
      <4> QED
        BY <4>2
    <3> QED
      BY <3>1, ConcatProperties DEF StoppedEvents
  <2>3. stackEvents \o StoppedEvents \in Seq(StackEvents)
    BY <2>2, ConcatProperties DEF EventsTyped
  <2> QED
    BY <2>1, <2>3 DEF EventsTyped, Stations
<1> QED
  BY <1>1, <1>2

LEMMA StackTypeSteps ==
  ASSUME WiFiTyped, Associate \/ Trouble \/ ScanEnds \/ ProvisioningEnds \/ ConnectionTimesOut \/ onShutdown
  PROVE  WiFiTyped'
<1>0. /\ station \in Stations /\ stackEvents \in Seq(StackEvents) /\ troubles \in 0 .. MaxTroubles /\ MaxTroubles \in Nat
      /\ {"GotIp", "Disconnected", "LostIp", "ScanDone", "ProvisioningEnd"} \subseteq StackEvents
      /\ scanning \in BOOLEAN /\ accessPoint \in BOOLEAN /\ provisioned \in BOOLEAN /\ timedOut \in BOOLEAN /\ shuttingDown \in BOOLEAN
  BY WiFiAssumption DEF WiFiTyped, EventsTyped, StackTyped, LoopTyped, StackEvents
<1>1. CASE Associate
  <2>1. station' \in Stations /\ stackEvents' \in {Append(stackEvents, "GotIp"), Append(stackEvents, "Disconnected")}
    BY <1>1 DEF Associate, Stations
  <2>2. EventsTyped'
    BY <1>0, <2>1, MoreEvents DEF EventsTyped
  <2>3. StackTyped' /\ QueueTyped' /\ HandlersTyped' /\ LoopTyped' /\ StatesTyped'
    BY <1>1 DEF Associate, WiFiTyped, StackTyped, QueueTyped, HandlersTyped, LoopTyped, StatesTyped, loopVars, handlerVars, moduleStates
  <2> QED
    BY <2>2, <2>3 DEF WiFiTyped
<1>2. CASE Trouble
  <2>1. troubles' \in 0 .. MaxTroubles
    BY <1>0, <1>2 DEF Trouble
  <2>2. accessPoint' \in BOOLEAN /\ scanning' \in BOOLEAN /\ provisioned' = provisioned
    BY <1>0, <1>2 DEF Trouble
  <2>3. station' \in Stations /\ stackEvents' \in {stackEvents, Append(stackEvents, "LostIp"), Append(stackEvents, "Disconnected")}
    BY <1>0, <1>2 DEF Trouble, Stations
  <2>4. EventsTyped' /\ StackTyped'
    BY <1>0, <2>1, <2>2, <2>3, MoreEvents DEF EventsTyped, StackTyped
  <2>5. QueueTyped' /\ HandlersTyped' /\ LoopTyped' /\ StatesTyped'
    BY <1>2 DEF Trouble, WiFiTyped, QueueTyped, HandlersTyped, LoopTyped, StatesTyped, loopVars, handlerVars, moduleStates
  <2> QED
    BY <2>4, <2>5 DEF WiFiTyped
<1>3. CASE ScanEnds
  <2>1. EventsTyped'
    BY <1>0, <1>3, MoreEvents DEF ScanEnds, EventsTyped
  <2>2. StackTyped'
    BY <1>3 DEF ScanEnds, WiFiTyped, StackTyped
  <2>3. QueueTyped' /\ HandlersTyped' /\ LoopTyped' /\ StatesTyped'
    BY <1>3 DEF ScanEnds, WiFiTyped, QueueTyped, HandlersTyped, LoopTyped, StatesTyped, loopVars, handlerVars, moduleStates
  <2> QED
    BY <2>1, <2>2, <2>3 DEF WiFiTyped
<1>4. CASE ProvisioningEnds
  <2>1. EventsTyped'
    <3>1. station' \in Stations /\ stackEvents' = stackEvents \o <<"GotIp", "ProvisioningEnd">>
      BY <1>4 DEF ProvisioningEnds, Stations
    <3> QED
      BY <1>0, <3>1, MoreEvents DEF EventsTyped
  <2>2. StackTyped' /\ QueueTyped' /\ HandlersTyped' /\ LoopTyped' /\ StatesTyped'
    BY <1>4 DEF ProvisioningEnds, WiFiTyped, StackTyped, QueueTyped, HandlersTyped, LoopTyped, StatesTyped, loopVars, handlerVars, moduleStates
  <2> QED
    BY <2>1, <2>2 DEF WiFiTyped
<1>5. CASE ConnectionTimesOut
  BY <1>5 DEF ConnectionTimesOut, WiFiTyped, EventsTyped, StackTyped, QueueTyped, HandlersTyped, LoopTyped, StatesTyped, stackVars, handlerVars, moduleStates
<1>6. CASE onShutdown
  BY <1>6 DEF onShutdown, WiFiTyped, EventsTyped, StackTyped, QueueTyped, HandlersTyped, LoopTyped, StatesTyped, stackVars, loopVars, handlerVars, moduleStates
<1> QED
  BY <1>1, <1>2, <1>3, <1>4, <1>5, <1>6

LEMMA OnEventTyped ==
  ASSUME WiFiTyped, onEvent
  PROVE  WiFiTyped'
<1>0. /\ stackEvents \in Seq(StackEvents) /\ stackEvents # << >> /\ QueueTyped
      /\ stationStarted \in BOOLEAN /\ scanTriggeredByProvisioning \in BOOLEAN /\ networkReady \in BOOLEAN
  BY DEF WiFiTyped, EventsTyped, HandlersTyped, StatesTyped, onEvent
<1>1. EventsTyped'
  <2>1. Tail(stackEvents) \in Seq(StackEvents)
    BY <1>0, HeadTailProperties
  <2> QED
    BY <2>1 DEF onEvent, EventsTyped, WiFiTyped
<1>2. StackTyped' /\ LoopTyped' /\ scanResults' \in BOOLEAN /\ networkConnecting' \in BOOLEAN /\ configPortalRunning' \in BOOLEAN /\ rtcInSync' \in BOOLEAN
  BY DEF onEvent, WiFiTyped, StackTyped, LoopTyped, HandlersTyped, StatesTyped, loopVars
<1> DEFINE event == Head(stackEvents)
<1>3. onWiFiEvent(event) \/ onIpEvent(event) \/ onWiFiProvEvent(event)
  BY DEF onEvent
<1> HIDE DEF event
<1>4. QueueTyped'
  <2>1. \/ eventQueue' = eventQueue /\ eventLost' = eventLost
        \/ \E e \in QueueEvents : Offer(e)
    <3>1. {"ScanDone", "Started", "Disconnected", "GotIp", "LostIp", "ProvisioningDone"} \subseteq QueueEvents
      BY DEF QueueEvents
    <3>2. CASE onWiFiEvent(event)
      BY <3>1, <3>2 DEF onWiFiEvent
    <3>3. CASE onIpEvent(event)
      BY <3>1, <3>3 DEF onIpEvent
    <3>4. CASE onWiFiProvEvent(event)
      BY <3>1, <3>4 DEF onWiFiProvEvent
    <3> QED
      BY <1>3, <3>2, <3>3, <3>4
  <2> QED
    BY <1>0, <2>1, OfferTyped DEF QueueTyped
<1>5. stationStarted' \in BOOLEAN /\ scanTriggeredByProvisioning' \in BOOLEAN /\ networkReady' \in BOOLEAN
  BY <1>0, <1>3 DEF onWiFiEvent, onIpEvent, onWiFiProvEvent
<1> QED
  BY <1>1, <1>2, <1>4, <1>5 DEF WiFiTyped, HandlersTyped, StatesTyped
\* What an action that takes a command or an event from the queue leaves.
LEMMA TakeTyped ==
  ASSUME WiFiTyped, NEW e, Take(e)
  PROVE  /\ QueueTyped' /\ loop' \in {"checking", "connecting", "starting", "draining"}
         /\ stationStarted' \in BOOLEAN /\ timedOut' \in BOOLEAN /\ accessPoint' \in BOOLEAN
         /\ troubles' \in 0 .. MaxTroubles /\ shuttingDown' \in BOOLEAN /\ rtcInSync' \in BOOLEAN
<1>1. QueueTyped'
  BY TakenTyped DEF Take, WiFiTyped
<1> QED
  BY <1>1 DEF Take, WiFiTyped, HandlersTyped, LoopTyped, StackTyped, StatesTyped

LEMMA TakingTyped ==
  ASSUME WiFiTyped,
         HandleStarted \/ HandleGotIp \/ HandleLostIp \/ HandleDisconnected \/ HandleProvisioningDone
           \/ HandleScanRequest \/ HandleScanDone \/ HandleCredentials \/ HandleDisconnectCmd \/ HandleDisableCmd
  PROVE  WiFiTyped'
<1>0. PICK e \in {"Started", "GotIp", "LostIp", "Disconnected", "ProvisioningDone", "ScanRequest", "ScanDone", "Credentials",
                  "DisconnectCmd", "DisableCmd"} : Take(e)
  BY DEF HandleStarted, HandleGotIp, HandleLostIp, HandleDisconnected, HandleProvisioningDone, HandleScanRequest, HandleScanDone,
         HandleCredentials, HandleDisconnectCmd, HandleDisableCmd
<1>1. /\ QueueTyped' /\ loop' \in {"checking", "connecting", "starting", "draining"}
      /\ stationStarted' \in BOOLEAN /\ timedOut' \in BOOLEAN /\ accessPoint' \in BOOLEAN
      /\ troubles' \in 0 .. MaxTroubles /\ shuttingDown' \in BOOLEAN /\ rtcInSync' \in BOOLEAN
  BY <1>0, TakeTyped
<1>2. /\ EventsTyped /\ networkReady \in BOOLEAN /\ networkConnecting \in BOOLEAN /\ configPortalRunning \in BOOLEAN
      /\ provisioned \in BOOLEAN /\ scanning \in BOOLEAN /\ scanTriggeredByProvisioning \in BOOLEAN /\ scanResults \in BOOLEAN
      /\ disabled \in BOOLEAN /\ connected \in BOOLEAN /\ pendingScan \in BOOLEAN
  BY DEF WiFiTyped, StatesTyped, StackTyped, HandlersTyped, LoopTyped
<1> SUFFICES /\ EventsTyped' /\ networkReady' \in BOOLEAN /\ networkConnecting' \in BOOLEAN /\ configPortalRunning' \in BOOLEAN
             /\ provisioned' \in BOOLEAN /\ scanning' \in BOOLEAN /\ scanTriggeredByProvisioning' \in BOOLEAN /\ scanResults' \in BOOLEAN
             /\ disabled' \in BOOLEAN /\ connected' \in BOOLEAN /\ pendingScan' \in BOOLEAN
  BY <1>1 DEF WiFiTyped, StatesTyped, StackTyped, HandlersTyped, LoopTyped
<1>3. CASE HandleStarted
  <2>1. EventsTyped' /\ networkReady' \in BOOLEAN
    <3>1. \/ ensureWifiStopped
          \/ station' \in {station, "associating"} /\ stackEvents' = stackEvents /\ networkReady' = networkReady
      BY <1>3 DEF HandleStarted
    <3> QED
      BY <1>2, <3>1, StoppedTyped DEF EventsTyped, Stations
  <2> QED
    BY <1>2, <1>3, <2>1 DEF HandleStarted
<1>4. CASE HandleGotIp \/ HandleLostIp \/ HandleDisconnected \/ HandleProvisioningDone \/ HandleScanDone
  <2>1. EventsTyped' /\ networkReady' \in BOOLEAN
    BY <1>2, <1>4 DEF EventsTyped, HandleGotIp, HandleLostIp, HandleDisconnected, HandleProvisioningDone, HandleScanDone
  <2> QED
    BY <1>2, <1>4, <2>1 DEF HandleGotIp, HandleLostIp, HandleDisconnected, HandleProvisioningDone, HandleScanDone
<1>5. CASE HandleScanRequest
  <2>1. EventsTyped' /\ networkReady' \in BOOLEAN
    BY <1>2, <1>5 DEF EventsTyped, HandleScanRequest
  <2> QED
    BY <1>2, <1>5, <2>1 DEF HandleScanRequest
<1>6. CASE HandleCredentials
  <2>1. EventsTyped' /\ networkReady' \in BOOLEAN
    <3>1. \/ ensureWifiStopped
          \/ station' = station /\ stackEvents' = stackEvents /\ networkReady' = networkReady
      BY <1>6 DEF HandleCredentials
    <3> QED
      BY <1>2, <3>1, StoppedTyped DEF EventsTyped
  <2> QED
    BY <1>2, <1>6, <2>1 DEF HandleCredentials
<1>7. CASE HandleDisconnectCmd \/ HandleDisableCmd
  <2>1. EventsTyped' /\ networkReady' \in BOOLEAN
    BY <1>2, <1>7, StoppedTyped DEF HandleDisconnectCmd, HandleDisableCmd
  <2> QED
    BY <1>2, <1>7, <2>1 DEF HandleDisconnectCmd, HandleDisableCmd
<1> QED
  BY <1>3, <1>4, <1>5, <1>6, <1>7

LEMMA LoopTypeSteps ==
  ASSUME WiFiTyped, WiFiLoop
  PROVE  WiFiTyped'
<1>0. /\ station \in Stations /\ stackEvents \in Seq(StackEvents) /\ "Start" \in StackEvents /\ Append(stackEvents, "Start") \in Seq(StackEvents)
      /\ EventsTyped /\ networkReady \in BOOLEAN
  BY MoreEvents DEF WiFiTyped, EventsTyped, StatesTyped, StackEvents
<1>1. CASE Check
  <2>1. StackTyped' /\ QueueTyped' /\ HandlersTyped'
    BY <1>1 DEF Check, CheckUnchanged, WiFiTyped, StackTyped, QueueTyped, HandlersTyped, handlerVars
  <2>2. disabled' \in BOOLEAN /\ connected' \in BOOLEAN /\ pendingScan' \in BOOLEAN /\ shuttingDown' \in BOOLEAN /\ rtcInSync' \in BOOLEAN
    BY <1>1 DEF Check, CheckUnchanged, WiFiTyped, LoopTyped, StatesTyped
  <2>3. NothingToDo \/ connect
    BY <1>1 DEF Check
  <2>4. /\ loop' \in {"checking", "connecting", "starting", "draining"}
        /\ networkConnecting' \in BOOLEAN /\ timedOut' \in BOOLEAN /\ configPortalRunning' \in BOOLEAN
    BY <2>3 DEF NothingToDo, connect, ConnectToStation, startProvisioning, WiFiTyped, LoopTyped, StatesTyped
  <2>5. EventsTyped' /\ networkReady' \in BOOLEAN
    <3>1. \/ ensureWifiStopped
          \/ /\ station' \in {station, "started"} /\ stackEvents' \in {stackEvents, Append(stackEvents, "Start")}
             /\ networkReady' = networkReady
      BY <2>3 DEF NothingToDo, connect, ConnectToStation, startProvisioning
    <3>2. CASE ensureWifiStopped
      BY <1>0, <3>2, StoppedTyped
    <3>3. CASE /\ station' \in {station, "started"} /\ stackEvents' \in {stackEvents, Append(stackEvents, "Start")}
               /\ networkReady' = networkReady
      <4>1. station' \in Stations
        BY <1>0, <3>3 DEF Stations
      <4>2. stackEvents' \in Seq(StackEvents)
        BY <1>0, <3>3
      <4> QED
        BY <1>0, <3>3, <4>1, <4>2 DEF EventsTyped
    <3> QED
      BY <3>1, <3>2, <3>3
  <2> QED
    BY <2>1, <2>2, <2>4, <2>5 DEF WiFiTyped, LoopTyped, StatesTyped
<1>2. CASE ensureWifiStationStarted
  <2>1. StackTyped' /\ QueueTyped' /\ HandlersTyped' /\ StatesTyped'
    BY <1>2 DEF ensureWifiStationStarted, WiFiTyped, StackTyped, QueueTyped, HandlersTyped, StatesTyped, handlerVars, moduleStates
  <2>2. LoopTyped'
    BY <1>2 DEF ensureWifiStationStarted, WiFiTyped, LoopTyped
  <2>3. station' \in {station, "started"} /\ stackEvents' \in {stackEvents, Append(stackEvents, "Start")}
    BY <1>2 DEF ensureWifiStationStarted
  <2>4. EventsTyped'
    <3>1. station' \in Stations
      BY <1>0, <2>3 DEF Stations
    <3>2. stackEvents' \in Seq(StackEvents)
      BY <1>0, <2>3
    <3> QED
      BY <3>1, <3>2 DEF EventsTyped
  <2> QED
    BY <2>1, <2>2, <2>4 DEF WiFiTyped
<1>3. CASE AwaitStarted \/ DrainDone
  BY <1>3 DEF AwaitStarted, DrainDone, WiFiTyped, EventsTyped, StackTyped, QueueTyped, HandlersTyped, LoopTyped, StatesTyped,
              stackVars, handlerVars, moduleStates
<1>4. CASE DrainForShutdown
  <2>1. eventQueue' = << >> /\ eventLost' \in BOOLEAN
    BY <1>4 DEF DrainForShutdown, WiFiTyped, QueueTyped
  <2>2. QueueTyped'
    BY <2>1, WiFiAssumption, EmptySeq DEF QueueTyped
  <2>3. EventsTyped' /\ StackTyped' /\ HandlersTyped' /\ LoopTyped' /\ StatesTyped'
    BY <1>4 DEF DrainForShutdown, WiFiTyped, EventsTyped, StackTyped, HandlersTyped, LoopTyped, StatesTyped, stackVars, loopVars, moduleStates
  <2> QED
    BY <2>2, <2>3 DEF WiFiTyped
<1> QED
  BY <1>1, <1>2, <1>3, <1>4, TakingTyped DEF WiFiLoop
-----------------------------------------------------------------------------
(* The clock *)

\* A clock that shows a plausible time has been seen to; and only then is it in sync.
ClockInv == RtcTypeOK /\ rtcInSync \in BOOLEAN /\ InSyncOnPlausibleTime /\ (clock = "plausible" => plausibleSeen)

LEMMA SetTimeKeeps ==
  ASSUME ClockInv, NEW time \in Times, setTime(time), ntpSync' = ntpSync, syncNotice' = syncNotice
  PROVE  ClockInv'
<1>1. CASE time = "plausible"
  BY <1>1 DEF ClockInv, RtcTypeOK, InSyncOnPlausibleTime, setTime, SetClock, Times
<1>2. CASE time # "plausible"
  BY <1>2 DEF ClockInv, RtcTypeOK, InSyncOnPlausibleTime, setTime, Times
<1> QED
  BY <1>1, <1>2

LEMMA ClockRests == ClockInv /\ UNCHANGED rtcVars /\ rtcInSync' = rtcInSync => ClockInv'
  BY DEF ClockInv, RtcTypeOK, InSyncOnPlausibleTime, rtcVars

LEMMA RtcTaskKeeps ==
  ASSUME ClockInv, RtcTask
  PROVE  ClockInv'
<1>1. CASE StartSntp
  BY <1>1 DEF StartSntp, ClockInv, RtcTypeOK, InSyncOnPlausibleTime, moduleStates
<1>2. CASE \E time \in Times : SntpAnswers(time)
  <2>1. PICK time \in Times : SntpAnswers(time)
    BY <1>2
  <2>2. time \in Times /\ clock' = time /\ (plausibleSeen' <=> plausibleSeen \/ time = "plausible") /\ plausibleSeen' \in BOOLEAN
    BY <2>1 DEF SntpAnswers, SetClock
  <2>3. syncNotice' = TRUE /\ ntpSync' = ntpSync /\ rtcInSync' = rtcInSync
    BY <2>1 DEF SntpAnswers, moduleStates
  <2> QED
    BY <2>2, <2>3 DEF ClockInv, RtcTypeOK, InSyncOnPlausibleTime
<1>3. CASE SyncWaitReturns
  BY <1>3 DEF SyncWaitReturns, ClockInv, RtcTypeOK, InSyncOnPlausibleTime, isTimeSet
<1> QED
  BY <1>1, <1>2, <1>3 DEF RtcTask
-----------------------------------------------------------------------------
(* Bluetooth and the cellular link *)

LEMMA BleTypeSteps ==
  ASSUME BleTypeOK, BleHost
  PROVE  BleTypeOK'
<1>0. /\ synced \in BOOLEAN /\ connHandle \in BOOLEAN /\ advertising \in BOOLEAN /\ advConfigured \in BOOLEAN
      /\ advRestartCallout \in BOOLEAN /\ scanInProgress \in BOOLEAN
      /\ bleStatus \in {"Idle", "Resetting", "Error", "Advertising", "Connected"} /\ requests \in 0 .. MaxRequests /\ MaxRequests \in Nat
  BY BleAssumption DEF BleTypeOK
<1> SUFFICES /\ synced' \in BOOLEAN /\ connHandle' \in BOOLEAN /\ advertising' \in BOOLEAN /\ advConfigured' \in BOOLEAN
             /\ advRestartCallout' \in BOOLEAN /\ scanInProgress' \in BOOLEAN
             /\ bleStatus' \in {"Idle", "Resetting", "Error", "Advertising", "Connected"} /\ requests' \in 0 .. MaxRequests
  BY DEF BleTypeOK
<1>1. ASSUME NEW active \in BOOLEAN, startAdvertising(active), synced' \in BOOLEAN
      PROVE  /\ advertising' \in BOOLEAN /\ advConfigured' \in BOOLEAN
             /\ bleStatus' \in {"Idle", "Resetting", "Error", "Advertising", "Connected"}
  BY <1>0, <1>1 DEF startAdvertising
<1>2. CASE handleSync
  <2>1. synced' \in BOOLEAN /\ startAdvertising(advertising)
    BY <1>2 DEF handleSync
  <2> QED
    BY <1>0, <1>1, <1>2, <2>1 DEF handleSync
<1>3. CASE handleReset
  <2>1. requests' \in 0 .. MaxRequests
    BY <1>0, <1>3 DEF handleReset
  <2> QED
    BY <1>0, <1>3, <2>1 DEF handleReset
<1>4. CASE GapConnect
  <2>1. requests' \in 0 .. MaxRequests /\ UNCHANGED <<synced, scanInProgress>> /\ advRestartCallout' \in BOOLEAN
    <3>1. requests < MaxRequests /\ requests' = requests + 1 /\ UNCHANGED <<synced, scanInProgress>>
      BY <1>4 DEF GapConnect
    <3>2. requests' \in 0 .. MaxRequests
      BY <1>0, <3>1
    <3>3. advRestartCallout' \in {advRestartCallout, TRUE}
      BY <1>4 DEF GapConnect
    <3>4. advRestartCallout' \in BOOLEAN
      BY <1>0, <3>3
    <3> QED
      BY <3>1, <3>2, <3>4
  <2>2. CASE connHandle' = TRUE /\ advertising' = FALSE /\ bleStatus' = "Connected" /\ UNCHANGED advConfigured
    <3>1. synced' \in BOOLEAN /\ scanInProgress' \in BOOLEAN /\ advConfigured' \in BOOLEAN
      BY <1>0, <2>1, <2>2
    <3>2. bleStatus' \in {"Idle", "Resetting", "Error", "Advertising", "Connected"}
      BY <2>2
    <3> QED
      BY <2>1, <2>2, <3>1, <3>2
  <2>3. CASE UNCHANGED connHandle /\ \E active \in BOOLEAN : startAdvertising(active)
    <3>1. PICK active \in BOOLEAN : startAdvertising(active)
      BY <2>3
    <3>2. synced' \in BOOLEAN
      BY <1>0, <2>1
    <3>3. /\ advertising' \in BOOLEAN /\ advConfigured' \in BOOLEAN
          /\ bleStatus' \in {"Idle", "Resetting", "Error", "Advertising", "Connected"}
      BY <1>1, <3>1, <3>2
    <3>4. connHandle' \in BOOLEAN /\ scanInProgress' \in BOOLEAN
      BY <1>0, <2>1, <2>3
    <3> QED
      BY <2>1, <3>2, <3>3, <3>4
  <2> QED
    BY <1>4, <2>2, <2>3 DEF GapConnect
<1>5. CASE GapDisconnect
  <2>1. synced' \in BOOLEAN /\ startAdvertising(advertising)
    BY <1>0, <1>5 DEF GapDisconnect
  <2> QED
    BY <1>0, <1>1, <1>5, <2>1 DEF GapDisconnect
<1>6. CASE GapAdvComplete
  BY <1>0, <1>6 DEF GapAdvComplete
<1>7. CASE advRestartCalloutCb
  <2>1. synced' \in BOOLEAN /\ startAdvertising(advertising)
    BY <1>0, <1>7 DEF advRestartCalloutCb
  <2> QED
    BY <1>0, <1>1, <1>7, <2>1 DEF advRestartCalloutCb
<1> QED
  BY <1>2, <1>3, <1>4, <1>5, <1>6, <1>7 DEF BleHost

\* What a client asks of the WiFi driver.
LEMMA ToWiFiTyped ==
  ASSUME WiFiTyped, NEW command \in ClientCommands, ToWiFi(command)
  PROVE  WiFiTyped'
<1>1. QueueTyped'
  BY OfferTyped DEF ToWiFi, QueueEvents, WiFiTyped
<1> QED
  BY <1>1 DEF ToWiFi, WiFiTyped, EventsTyped, StackTyped, HandlersTyped, LoopTyped, StatesTyped, stackVars, loopVars, moduleStates

\* The states that a cellular link sets.
LinkStatesTyped == networkConnecting \in BOOLEAN /\ networkReady \in BOOLEAN /\ configPortalRunning \in BOOLEAN

LEMMA CellularTypeSteps ==
  ASSUME CellularTypeOK, LinkStatesTyped, ClockInv, CellularTask \/ GetsAddress \/ ModemChanges \/ HandleXtime \/ TimePasses
  PROVE  CellularTypeOK' /\ LinkStatesTyped' /\ ClockInv'
<1>0. /\ registeredAt \in BOOLEAN /\ hasAddress \in BOOLEAN /\ ceregLine \in BOOLEAN /\ networkChanged \in BOOLEAN
      /\ graceOver \in BOOLEAN /\ lastNtpAttempt \in BOOLEAN /\ retryOver \in BOOLEAN /\ resyncDue \in BOOLEAN
      /\ changes \in 0 .. MaxChanges /\ MaxChanges \in Nat
      /\ monitor \in {"starting", "out", "query", "update", "sync", "waiting"}
      /\ registration \in {"none", "searching", "registered"}
  BY CellularAssumption DEF CellularTypeOK
<1>s. networkConnecting \in BOOLEAN /\ networkReady \in BOOLEAN /\ configPortalRunning \in BOOLEAN
  BY DEF LinkStatesTyped
<1> DEFINE Typed == /\ registeredAt' \in BOOLEAN /\ hasAddress' \in BOOLEAN /\ ceregLine' \in BOOLEAN /\ networkChanged' \in BOOLEAN
                    /\ graceOver' \in BOOLEAN /\ lastNtpAttempt' \in BOOLEAN /\ retryOver' \in BOOLEAN /\ resyncDue' \in BOOLEAN
                    /\ changes' \in 0 .. MaxChanges
                    /\ monitor' \in {"starting", "out", "query", "update", "sync", "waiting"}
                    /\ registration' \in {"none", "searching", "registered"}
                    /\ networkConnecting' \in BOOLEAN /\ networkReady' \in BOOLEAN /\ configPortalRunning' \in BOOLEAN
<1> SUFFICES Typed /\ ClockInv'
  BY DEF CellularTypeOK, LinkStatesTyped
<1>m. ASSUME changes < MaxChanges, changes' = changes + 1 PROVE changes' \in 0 .. MaxChanges
  BY <1>0, <1>m
<1>1. CASE ModemChanges
  <2>1. changes' \in 0 .. MaxChanges /\ ClockInv'
    BY <1>m, <1>1, ClockRests DEF ModemChanges, moduleStates
  <2>2. registeredAt' \in BOOLEAN /\ hasAddress' \in BOOLEAN /\ ceregLine' \in BOOLEAN
    BY <1>0, <1>1 DEF ModemChanges
  <2> QED
    BY <1>0, <1>s, <1>1, <2>1, <2>2 DEF ModemChanges, timeVars, moduleStates
<1>2. CASE GetsAddress
  <2>1. ClockInv'
    BY <1>2, ClockRests DEF GetsAddress, moduleStates
  <2> QED
    BY <1>0, <1>s, <1>2, <2>1 DEF GetsAddress, timeVars, moduleStates
<1>3. CASE HandleCereg
  <2>1. ClockInv'
    BY <1>3, ClockRests DEF HandleCereg, moduleStates
  <2>2. networkChanged' \in BOOLEAN /\ ceregLine' \in BOOLEAN
    BY <1>3 DEF HandleCereg
  <2>3. UNCHANGED <<registeredAt, hasAddress, changes, monitor, registration, graceOver, lastNtpAttempt, retryOver, resyncDue,
                    networkConnecting, networkReady, configPortalRunning>>
    BY <1>3 DEF HandleCereg, timeVars, moduleStates
  <2> QED
    BY <1>0, <1>s, <2>1, <2>2, <2>3
<1>4. CASE HandleXtime
  <2>1. ClockInv'
    BY <1>4, SetTimeKeeps DEF HandleXtime
  <2>2. resyncDue' \in BOOLEAN
    BY <1>4 DEF HandleXtime
  <2>3. UNCHANGED <<registeredAt, hasAddress, ceregLine, changes, monitor, registration, networkChanged, graceOver,
                    lastNtpAttempt, retryOver, networkConnecting, networkReady, configPortalRunning>>
    BY <1>4 DEF HandleXtime, modemLinkVars
  <2> QED
    BY <1>0, <1>s, <2>1, <2>2, <2>3
<1>5. CASE Run
  <2>1. ClockInv'
    <3>1. CASE UNCHANGED <<rtcVars, rtcInSync>>
      BY <3>1, ClockRests
    <3>2. CASE UNCHANGED <<clock, plausibleSeen, rtcInSync, ntpSync, syncNotice>>
      BY <3>2, ClockRests DEF rtcVars
    <3>3. CASE (\E time \in Times : setTime(time)) /\ UNCHANGED <<ntpSync, syncNotice>>
      BY <3>3, SetTimeKeeps
    <3> QED
      BY <1>5, <3>1, <3>2, <3>3 DEF Run
  <2>2. monitor' \in {"out", "query"} /\ networkConnecting' \in BOOLEAN
    BY <1>5 DEF Run
  <2>3. UNCHANGED <<registeredAt, hasAddress, ceregLine, changes, registration, networkChanged, graceOver, lastNtpAttempt, retryOver,
                    resyncDue, networkReady, configPortalRunning>>
    BY <1>5 DEF Run, modemLinkVars, timeVars
  <2> QED
    BY <1>0, <1>s, <2>1, <2>2, <2>3
<1>6. CASE queryRegistration
  <2>1. changes' \in 0 .. MaxChanges /\ ClockInv'
    BY <1>0, <1>m, <1>6, ClockRests DEF queryRegistration, moduleStates
  <2> QED
    BY <1>0, <1>s, <1>6, <2>1 DEF queryRegistration, timeVars, moduleStates
<1>7. CASE updateNetworkState
  <2>1. ClockInv'
    BY <1>7, ClockRests DEF updateNetworkState
  <2>2. networkConnecting' \in BOOLEAN /\ networkReady' \in BOOLEAN /\ graceOver' \in BOOLEAN
    BY <1>0, <1>s, <1>7 DEF updateNetworkState
  <2>3. changes' \in 0 .. MaxChanges
    BY <1>0, <1>m, <1>7 DEF updateNetworkState, queryIpAddressFails
  <2> QED
    BY <1>0, <1>s, <1>7, <2>1, <2>2, <2>3 DEF updateNetworkState
<1>8. CASE syncTimeIfDue
  <2>1. ClockInv'
    <3>1. CASE UNCHANGED <<rtcVars, rtcInSync>>
      BY <3>1, ClockRests
    <3>2. CASE UNCHANGED <<clock, plausibleSeen, rtcInSync, ntpSync, syncNotice>>
      BY <3>2, ClockRests DEF rtcVars
    <3>3. CASE setTime("plausible") /\ UNCHANGED <<ntpSync, syncNotice>>
      BY <3>3, SetTimeKeeps DEF Times
    <3> QED
      BY <1>8, <3>1, <3>2, <3>3 DEF syncTimeIfDue
  <2>2. changes' \in 0 .. MaxChanges
    BY <1>0, <1>m, <1>8 DEF syncTimeIfDue
  <2>3. graceOver' \in BOOLEAN /\ lastNtpAttempt' \in BOOLEAN /\ retryOver' \in BOOLEAN /\ resyncDue' \in BOOLEAN
    BY <1>0, <1>8 DEF syncTimeIfDue, timeVars
  <2> QED
    BY <1>0, <1>s, <1>8, <2>1, <2>2, <2>3 DEF syncTimeIfDue
<1>9. CASE Wait
  <2>1. ClockInv'
    BY <1>9, ClockRests DEF Wait, moduleStates
  <2>2. monitor' \in {"starting", "out", "query", "update", "sync", "waiting"} /\ networkChanged' \in BOOLEAN
    BY <1>9 DEF Wait
  <2>3. UNCHANGED <<registeredAt, hasAddress, ceregLine, changes, registration, graceOver, lastNtpAttempt, retryOver,
                    resyncDue, networkConnecting, networkReady, configPortalRunning>>
    BY <1>9 DEF Wait, modemLinkVars, timeVars, moduleStates
  <2> QED
    BY <1>0, <1>s, <2>1, <2>2, <2>3
<1>10. CASE TimePasses
  <2>1. ClockInv'
    BY <1>10, ClockRests DEF TimePasses, moduleStates
  <2>2. graceOver' \in BOOLEAN /\ retryOver' \in BOOLEAN /\ resyncDue' \in BOOLEAN
    BY <1>0, <1>10 DEF TimePasses
  <2>3. UNCHANGED <<registeredAt, hasAddress, ceregLine, changes, monitor, registration, networkChanged, lastNtpAttempt,
                    networkConnecting, networkReady, configPortalRunning>>
    BY <1>10 DEF TimePasses, modemLinkVars, moduleStates
  <2> QED
    BY <1>0, <1>s, <2>1, <2>2, <2>3
<1> QED
  BY <1>1, <1>2, <1>3, <1>4, <1>5, <1>6, <1>7, <1>8, <1>9, <1>10 DEF CellularTask
-----------------------------------------------------------------------------
(* The device's connectivity *)

LinkTyped == link \in {"WiFi", "Cellular"} /\ part \in {"link", "clock", "advertising"}
ConnectivityInv == LinkTyped /\ WiFiTyped /\ BleTypeOK /\ CellularTypeOK /\ ClockInv

LEMMA ConnectivityInvImplies == ConnectivityInv => ConnectivityTypeOK /\ InSyncOnPlausibleTime
  BY WiFiTypes DEF ConnectivityInv, LinkTyped, ClockInv, ConnectivityTypeOK

LEMMA ConnectivityInvInit == ConnectivityInit => ConnectivityInv
<1> SUFFICES ASSUME ConnectivityInit PROVE ConnectivityInv
  OBVIOUS
<1>1. LinkTyped
  BY DEF ConnectivityInit, LinkTyped, chooseNetworkLink
<1>2. ClockInv
  <2>1. RtcInit(link = "WiFi")
    BY DEF ConnectivityInit
  <2>2. clock \in Times /\ (rtcInSync <=> clock = "plausible") /\ rtcInSync \in BOOLEAN /\ (plausibleSeen <=> clock = "plausible") /\ plausibleSeen \in BOOLEAN
    BY <2>1 DEF RtcInit
  <2>3. ntpSync \in {"none", "awaiting", "polling"} /\ syncNotice \in BOOLEAN
    BY <2>1 DEF RtcInit
  <2> QED
    BY <2>2, <2>3 DEF ClockInv, RtcTypeOK, InSyncOnPlausibleTime
<1>3. WiFiTyped
  <2>1. StatesTyped
    BY <1>2 DEF ConnectivityInit, StatesInit, StatesTyped, ClockInv
  <2>2. stackEvents = << >> /\ eventQueue = << >> /\ << >> \in Seq(StackEvents) /\ << >> \in Seq(QueueEvents) /\ Len(<< >>) = 0
    BY EmptySeq DEF ConnectivityInit, WiFiInit
  <2>i. WiFiInit
    BY DEF ConnectivityInit
  <2>3. EventsTyped /\ QueueTyped
    <3>1. station = "stopped" /\ eventLost = FALSE
      BY <2>i DEF WiFiInit
    <3>2. 0 <= EventQueueSize
      BY WiFiAssumption
    <3> QED
      BY <2>2, <3>1, <3>2 DEF EventsTyped, QueueTyped, Stations
  <2>4. StackTyped /\ HandlersTyped /\ LoopTyped
    <3>1. troubles \in 0 .. MaxTroubles
      BY <2>i, WiFiAssumption DEF WiFiInit
    <3>2. accessPoint = TRUE /\ provisioned \in BOOLEAN /\ scanning = FALSE /\ HandlersTyped
      BY <2>i DEF WiFiInit, HandlersTyped
    <3>3. LoopTyped
      BY <2>i DEF WiFiInit, LoopTyped
    <3> QED
      BY <3>1, <3>2, <3>3 DEF StackTyped
  <2> QED
    BY <2>1, <2>3, <2>4 DEF WiFiTyped
<1>4. BleTypeOK
  <2>1. PICK client \in BOOLEAN : BleInit(client)
    BY DEF ConnectivityInit
  <2>2. requests \in 0 .. MaxRequests
    BY <2>1, BleAssumption DEF BleInit
  <2>3. {synced, connHandle, advertising, advConfigured, advRestartCallout, scanInProgress} \subseteq BOOLEAN
    BY <2>1 DEF BleInit
  <2>4. bleStatus \in {"Connected", "Idle"}
    BY <2>1 DEF BleInit
  <2> QED
    BY <2>2, <2>3, <2>4 DEF BleTypeOK
<1>5. CellularTypeOK
  <2>1. CellularInit
    BY DEF ConnectivityInit
  <2>2. changes \in 0 .. MaxChanges
    BY <2>1, CellularAssumption DEF CellularInit
  <2>3. monitor = "starting" /\ registration = "none"
    BY <2>1 DEF CellularInit
  <2>4. {registeredAt, hasAddress, ceregLine, networkChanged, graceOver, lastNtpAttempt, retryOver, resyncDue} \subseteq BOOLEAN
    BY <2>1 DEF CellularInit
  <2> QED
    BY <2>2, <2>3, <2>4 DEF CellularTypeOK
<1> QED
  BY <1>1, <1>2, <1>3, <1>4, <1>5 DEF ConnectivityInv

LEMMA BleRests == BleTypeOK /\ UNCHANGED bleVars => BleTypeOK'
  BY DEF BleTypeOK, bleVars, advertisingVars

LEMMA CellularRests == CellularTypeOK /\ UNCHANGED cellularVars => CellularTypeOK'
  BY DEF CellularTypeOK, cellularVars, modemLinkVars, timeVars

LEMMA LinkRests == LinkTyped /\ UNCHANGED <<link, part>> => LinkTyped'
  BY DEF LinkTyped

LEMMA WiFiRests == WiFiTyped /\ UNCHANGED wifiVars /\ StatesTyped' => WiFiTyped'
  BY DEF WiFiTyped, EventsTyped, StackTyped, QueueTyped, HandlersTyped, LoopTyped, wifiVars, stackVars, loopVars, handlerVars

LEMMA StatesRest == StatesTyped /\ UNCHANGED moduleStates => StatesTyped'
  BY DEF StatesTyped, moduleStates

\* The actions of the WiFi driver and its stack leave the clock alone.
LEMMA WiFiLeavesClock ==
  ASSUME Associate \/ Trouble \/ ScanEnds \/ ProvisioningEnds \/ onEvent \/ WiFiLoop \/ ConnectionTimesOut \/ onShutdown
  PROVE  rtcInSync' = rtcInSync
<1>1. CASE Associate \/ Trouble \/ ScanEnds \/ ProvisioningEnds \/ onEvent \/ ConnectionTimesOut \/ onShutdown
  BY <1>1 DEF Associate, Trouble, ScanEnds, ProvisioningEnds, onEvent, ConnectionTimesOut, onShutdown, moduleStates
<1>2. CASE Check \/ ensureWifiStationStarted \/ AwaitStarted \/ DrainDone \/ DrainForShutdown
  BY <1>2 DEF Check, CheckUnchanged, ensureWifiStationStarted, AwaitStarted, DrainDone, DrainForShutdown, moduleStates
<1>3. ASSUME NEW e, Take(e) PROVE rtcInSync' = rtcInSync
  BY <1>3 DEF Take
<1>4. CASE HandleStarted \/ HandleGotIp \/ HandleLostIp \/ HandleDisconnected \/ HandleProvisioningDone
           \/ HandleScanRequest \/ HandleScanDone \/ HandleCredentials \/ HandleDisconnectCmd \/ HandleDisableCmd
  BY <1>3, <1>4 DEF HandleStarted, HandleGotIp, HandleLostIp, HandleDisconnected, HandleProvisioningDone, HandleScanRequest,
                    HandleScanDone, HandleCredentials, HandleDisconnectCmd, HandleDisableCmd
<1> QED
  BY <1>1, <1>2, <1>4 DEF WiFiLoop

LEMMA ConnectivityInvNext == ConnectivityInv /\ [ConnectivityNext]_connectivityVars => ConnectivityInv'
<1> SUFFICES ASSUME ConnectivityInv, [ConnectivityNext]_connectivityVars PROVE ConnectivityInv'
  OBVIOUS
<1>0. LinkTyped /\ WiFiTyped /\ BleTypeOK /\ CellularTypeOK /\ ClockInv /\ StatesTyped
  BY DEF ConnectivityInv, WiFiTyped
<1>1. CASE WiFiSide
  <2>1. Associate \/ Trouble \/ ScanEnds \/ ProvisioningEnds \/ onEvent \/ WiFiLoop \/ ConnectionTimesOut \/ onShutdown
    BY <1>1 DEF WiFiSide
  <2>2. UNCHANGED <<bleVars, rtcVars, cellularVars, link, part>>
    BY <1>1 DEF WiFiSide
  <2>3. WiFiTyped'
    BY <1>0, <2>1, StackTypeSteps, OnEventTyped, LoopTypeSteps
  <2>4. ClockInv'
    BY <1>0, <2>1, <2>2, WiFiLeavesClock, ClockRests
  <2> QED
    BY <1>0, <2>2, <2>3, <2>4, BleRests, CellularRests, LinkRests DEF ConnectivityInv
<1>2. CASE WiFiWithBle
  <2>1. UNCHANGED <<rtcVars, cellularVars, link, part>>
    BY <1>2 DEF WiFiWithBle
  <2>2. wifiCredentialsAccessCallback \/ wifiControlAccessCallback \/ setScanResults
    BY <1>2 DEF WiFiWithBle
  <2>3. WiFiTyped' /\ rtcInSync' = rtcInSync
    <3>1. CASE \E command \in ClientCommands : ToWiFi(command)
      BY <1>0, <3>1, ToWiFiTyped DEF ToWiFi, moduleStates
    <3>2. CASE setScanResults
      <4>1. UNCHANGED <<stackVars, loopVars, stationStarted, scanTriggeredByProvisioning, eventQueue, eventLost, shuttingDown, moduleStates>>
            /\ scanResults' = FALSE
        BY <3>2 DEF setScanResults
      <4>2. EventsTyped' /\ StackTyped' /\ StatesTyped'
        BY <1>0, <4>1 DEF WiFiTyped, EventsTyped, StackTyped, StatesTyped, stackVars, moduleStates
      <4>3. QueueTyped' /\ HandlersTyped' /\ LoopTyped'
        BY <1>0, <4>1 DEF WiFiTyped, QueueTyped, HandlersTyped, LoopTyped, loopVars
      <4> QED
        BY <4>1, <4>2, <4>3 DEF WiFiTyped, moduleStates
    <3>3. wifiCredentialsAccessCallback \/ wifiControlAccessCallback => \E command \in ClientCommands : ToWiFi(command)
      BY DEF wifiCredentialsAccessCallback, wifiControlAccessCallback, ClientCommands
    <3> QED
      BY <2>2, <3>1, <3>2, <3>3
  <2>4. BleTypeOK'
    <3>1. scanInProgress' \in BOOLEAN /\ UNCHANGED advertisingVars
      BY <1>0, <2>2 DEF wifiCredentialsAccessCallback, wifiControlAccessCallback, setScanResults, Request, BleTypeOK
    <3>2. requests' = requests \/ (requests < MaxRequests /\ requests' = requests + 1)
      BY <2>2 DEF wifiCredentialsAccessCallback, wifiControlAccessCallback, setScanResults, Request
    <3>3. requests' \in 0 .. MaxRequests
      BY <1>0, <3>2, BleAssumption DEF BleTypeOK
    <3> QED
      BY <1>0, <3>1, <3>3 DEF BleTypeOK, advertisingVars
  <2> QED
    BY <1>0, <2>1, <2>3, <2>4, ClockRests, CellularRests, LinkRests DEF ConnectivityInv
<1>3. CASE BleSide
  <2>1. BleHost /\ UNCHANGED <<rtcVars, cellularVars, link, part>>
    BY <1>3 DEF BleSide
  <2>2. UNCHANGED <<wifiVars, moduleStates>>
    BY <2>1 DEF BleHost, handleSync, handleReset, GapConnect, GapDisconnect, GapAdvComplete, advRestartCalloutCb
  <2>3. BleTypeOK' /\ StatesTyped' /\ rtcInSync' = rtcInSync
    BY <1>0, <2>1, <2>2, BleTypeSteps, StatesRest DEF moduleStates
  <2> QED
    BY <1>0, <2>1, <2>2, <2>3, WiFiRests, ClockRests, CellularRests, LinkRests DEF ConnectivityInv
<1>4. CASE CellularSide
  <2>1. CellularTask \/ GetsAddress \/ ModemChanges \/ HandleXtime \/ TimePasses
    BY <1>4 DEF CellularSide
  <2>2. UNCHANGED <<bleVars, wifiVars, link, part>>
    BY <1>4 DEF CellularSide
  <2>3. LinkStatesTyped
    BY <1>0 DEF StatesTyped, LinkStatesTyped
  <2>4. CellularTypeOK' /\ LinkStatesTyped' /\ ClockInv'
    BY <1>0, <2>1, <2>3, CellularTypeSteps
  <2>5. StatesTyped'
    BY <2>4 DEF StatesTyped, LinkStatesTyped, ClockInv
  <2> QED
    BY <1>0, <2>2, <2>4, <2>5, BleRests, WiFiRests, LinkRests DEF ConnectivityInv
<1>5. CASE ctsSetTime
  <2>1. PICK time \in Times : setTime(time)
    BY <1>5 DEF ctsSetTime
  <2>2. UNCHANGED <<advertisingVars, scanInProgress, wifiVars, cellularVars, ntpSync, syncNotice,
                    networkConnecting, networkReady, configPortalRunning, link, part>>
    BY <1>5 DEF ctsSetTime
  <2>3. ClockInv'
    BY <1>0, <2>1, <2>2, SetTimeKeeps
  <2>4. StatesTyped'
    BY <1>0, <2>2, <2>3 DEF StatesTyped, ClockInv
  <2>5. BleTypeOK'
    <3>1. requests' \in 0 .. MaxRequests
      BY <1>0, <1>5, BleAssumption DEF ctsSetTime, BleTypeOK
    <3> QED
      BY <1>0, <2>2, <3>1 DEF BleTypeOK, advertisingVars
  <2> QED
    BY <1>0, <2>2, <2>3, <2>4, <2>5, WiFiRests, CellularRests, LinkRests DEF ConnectivityInv
<1>6. CASE RtcSide
  <2>1. RtcTask /\ UNCHANGED <<bleVars, wifiVars, cellularVars, link, part>>
    BY <1>6 DEF RtcSide
  <2>2. ClockInv'
    BY <1>0, <2>1, RtcTaskKeeps
  <2>3. UNCHANGED <<networkConnecting, networkReady, configPortalRunning>>
    BY <2>1 DEF RtcTask, StartSntp, SntpAnswers, SyncWaitReturns, moduleStates
  <2>4. StatesTyped'
    BY <1>0, <2>2, <2>3 DEF StatesTyped, ClockInv
  <2> QED
    BY <1>0, <2>1, <2>2, <2>4, BleRests, WiFiRests, CellularRests, LinkRests DEF ConnectivityInv
<1>7. CASE UNCHANGED connectivityVars
  <2>1. UNCHANGED <<link, part>> /\ UNCHANGED bleVars /\ UNCHANGED wifiVars /\ UNCHANGED cellularVars /\ UNCHANGED rtcVars /\ UNCHANGED moduleStates
    BY <1>7 DEF connectivityVars
  <2>2. StatesTyped' /\ rtcInSync' = rtcInSync
    BY <1>0, <2>1, StatesRest DEF moduleStates
  <2> QED
    BY <1>0, <2>1, <2>2, BleRests, WiFiRests, CellularRests, LinkRests, ClockRests DEF ConnectivityInv
<1> QED
  BY <1>1, <1>2, <1>3, <1>4, <1>5, <1>6, <1>7 DEF ConnectivityNext

\* Over either link, with or without a client, and whatever troubles it: the drivers' queues keep to their
\* size, and states, loops and stack are what the code lets them be (WiFiDriver.hpp, BleDriver.hpp,
\* CellularDriver.hpp, RtcDriver.hpp).
THEOREM ConnectivityTypeCorrect == ConnectivitySpec => []ConnectivityTypeOK
<1>1. ConnectivityInv => ConnectivityTypeOK
  BY ConnectivityInvImplies
<1> QED
  BY <1>1, ConnectivityInvInit, ConnectivityInvNext, PTL DEF ConnectivitySpec

\* Whoever sets the clock, an SNTP answer, a client or the modem, and however late the task hears of it: the
\* clock is in sync only once it has shown a plausible time (RtcDriver.hpp:35-36, 68-82, 118-129).
THEOREM ClockNeverTooEarly == ConnectivitySpec => []InSyncOnPlausibleTime
<1>1. ConnectivityInv => InSyncOnPlausibleTime
  BY ConnectivityInvImplies
<1> QED
  BY <1>1, ConnectivityInvInit, ConnectivityInvNext, PTL DEF ConnectivitySpec

=============================================================================
