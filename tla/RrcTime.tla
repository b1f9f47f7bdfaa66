------------------------------- MODULE RrcTime -------------------------------
(***************************************************************************)
(* How long the modem's radio is connected (RRC), as the cellular driver   *)
(* counts it: from +CSCON lines, which may be lost, and from what it reads *)
(* every now and then, for reports each of which starts the count anew.    *)
(***************************************************************************)
EXTENDS Integers, SequencesExt

CONSTANT MaxTime        \* bound on the time that passes

ASSUME TimeAssumption == MaxTime \in Nat

VARIABLES
  now,
  radio,              \* the modem is connected
  csconLines,         \* +CSCON lines on their way
  rrcConnected,       \* status.rrcConnected: "unknown", "connected" or "idle"
  rrcConnectedSince, rrcStretchStart, rrcConnectedTime, rrcLongestConnected, rrcLastReported,
  rrcMissedChanges,
  believed            \* history: how long it was taken to be connected since the last report

countVars == <<rrcConnectedSince, rrcStretchStart, rrcConnectedTime, rrcLongestConnected, rrcMissedChanges>>
rrcVars == <<now, radio, csconLines, rrcConnected, countVars, rrcLastReported, believed>>

Instants == 0 .. MaxTime

RrcTypeOK ==
  /\ {now, rrcConnectedSince, rrcStretchStart, rrcConnectedTime, rrcLongestConnected, rrcLastReported, believed} \subseteq Instants
  /\ rrcConnected \in {"unknown", "connected", "idle"}
  /\ csconLines \in Seq(BOOLEAN)
  /\ radio \in BOOLEAN /\ rrcMissedChanges \in Nat

RrcInit ==
  /\ now = 0 /\ radio \in BOOLEAN /\ csconLines = << >> /\ rrcConnected = "unknown"
  /\ rrcConnectedSince = 0 /\ rrcStretchStart = 0 /\ rrcConnectedTime = 0 /\ rrcLongestConnected = 0
  /\ rrcLastReported = 0 /\ rrcMissedChanges = 0 /\ believed = 0

Larger(a, b) == IF a > b THEN a ELSE b

Tick ==
  /\ now < MaxTime
  /\ now' = now + 1
  /\ believed' = IF rrcConnected = "connected" THEN believed + 1 ELSE believed
  /\ UNCHANGED <<radio, csconLines, rrcConnected, countVars, rrcLastReported>>

RadioChanges ==
  /\ Len(csconLines) < 2
  /\ radio' = ~radio
  /\ csconLines' \in {csconLines, Append(csconLines, radio')}
  /\ UNCHANGED <<now, rrcConnected, countVars, rrcLastReported, believed>>

\* A change that only a poll finds was counted wrong until then.
updateRrcState(connected, source) ==
  \/ /\ rrcConnected = (IF connected THEN "connected" ELSE "idle")
     /\ UNCHANGED <<rrcConnected, countVars>>
  \/ /\ rrcConnected # (IF connected THEN "connected" ELSE "idle")
     /\ rrcConnected' = IF connected THEN "connected" ELSE "idle"
     /\ rrcMissedChanges' = IF source = "poll" /\ rrcConnected # "unknown" THEN rrcMissedChanges + 1 ELSE rrcMissedChanges
     /\ rrcConnectedSince' = IF connected THEN now ELSE rrcConnectedSince
     /\ rrcStretchStart' = IF connected THEN now ELSE rrcStretchStart
     /\ IF ~connected /\ rrcConnected = "connected"
        THEN /\ rrcConnectedTime' = rrcConnectedTime + (now - rrcConnectedSince)
             /\ rrcLongestConnected' = Larger(rrcLongestConnected, now - rrcStretchStart)
        ELSE UNCHANGED <<rrcConnectedTime, rrcLongestConnected>>

HandleCscon ==
  /\ csconLines # << >>
  /\ csconLines' = Tail(csconLines)
  /\ updateRrcState(Head(csconLines), "urc")
  /\ UNCHANGED <<now, radio, rrcLastReported, believed>>

PollRrc ==
  /\ rrcMissedChanges < 2
  /\ updateRrcState(radio, "poll")
  /\ UNCHANGED <<now, radio, csconLines, rrcLastReported, believed>>

\* What is reported of a connection that goes on is not reported again, but its length is.
populateRrcTelemetry ==
  /\ rrcLastReported < now
  /\ rrcLastReported' = now
  /\ rrcConnectedSince' = IF rrcConnected = "connected" THEN now ELSE rrcConnectedSince
  /\ rrcConnectedTime' = 0 /\ rrcLongestConnected' = 0 /\ rrcMissedChanges' = 0
  /\ believed' = 0
  /\ UNCHANGED <<now, radio, csconLines, rrcConnected, rrcStretchStart>>

RrcNext == Tick \/ RadioChanges \/ HandleCscon \/ PollRrc \/ populateRrcTelemetry

-----------------------------------------------------------------------------

ReportedTime == rrcConnectedTime + (IF rrcConnected = "connected" THEN now - rrcConnectedSince ELSE 0)

\* The time a report gives to the connected radio is the time the driver took it to be connected since
\* the report before, so that it fits between the two, across connections that span reports, polls that
\* overtake lines and lines that repeat what is known; no stretch is shorter than its part in the report.
RrcCounted ==
  /\ ReportedTime = believed
  /\ ReportedTime <= now - rrcLastReported
  /\ rrcConnected = "connected" => rrcStretchStart <= rrcConnectedSince

==============================================================================
