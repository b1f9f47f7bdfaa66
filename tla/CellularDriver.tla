---------------------------- MODULE CellularDriver ----------------------------
(***************************************************************************)
(* The cellular link: a task that follows the modem's registration, polled *)
(* and whenever an unsolicited +CEREG says that it changed, and asks for   *)
(* the time with NTP when the network does not send it. The modem's lines  *)
(* arrive on the UART's reader task.                                       *)
(***************************************************************************)
EXTENDS RtcDriver, Integers

CONSTANT MaxChanges  \* bound on the changes of the modem's registration and address, and on its failures

ASSUME CellularAssumption == MaxChanges \in Nat

VARIABLES
  registeredAt,      \* the modem: registered with the network,
  hasAddress,        \* with an IP address,
  ceregLine,         \* and has sent a +CEREG line that was not handled yet
  changes,
  monitor,           \* the task: "starting", "out", or where monitorNetwork() is
  registration,      \* what queryRegistration() returned: "none", "searching", "registered"
  networkChanged,    \* queue of one, overwritten
  graceOver,         \* NITZ_GRACE_PERIOD has passed since networkReadySince
  lastNtpAttempt,    \* there was one
  retryOver,         \* NTP_RETRY_INTERVAL has passed since
  resyncDue          \* TIME_RESYNC_INTERVAL has passed since lastTimeSync

modemLinkVars == <<registeredAt, hasAddress, ceregLine, changes>>
timeVars == <<graceOver, lastNtpAttempt, retryOver, resyncDue>>
cellularVars == <<modemLinkVars, monitor, registration, networkChanged, timeVars>>

CellularTypeOK ==
  /\ {registeredAt, hasAddress, ceregLine, networkChanged, graceOver, lastNtpAttempt, retryOver, resyncDue} \subseteq BOOLEAN
  /\ changes \in 0 .. MaxChanges
  /\ monitor \in {"starting", "out", "query", "update", "sync", "waiting"}
  /\ registration \in {"none", "searching", "registered"}

CellularInit ==
  /\ registeredAt = FALSE /\ hasAddress = FALSE /\ ceregLine = FALSE /\ changes = 0
  /\ monitor = "starting" /\ registration = "none" /\ networkChanged = FALSE
  /\ graceOver = FALSE /\ lastNtpAttempt = FALSE /\ retryOver = FALSE /\ resyncDue = FALSE

-----------------------------------------------------------------------------
(* The modem. The line about a change may be lost.                         *)

ModemChanges ==
  /\ monitor # "out"
  /\ changes < MaxChanges
  /\ changes' = changes + 1
  /\ \/ registeredAt' = ~registeredAt /\ hasAddress' = FALSE
     \/ registeredAt /\ ~hasAddress /\ hasAddress' = TRUE /\ UNCHANGED registeredAt
  /\ ceregLine' \in {ceregLine, TRUE}
  /\ UNCHANGED <<monitor, registration, networkChanged, timeVars, rtcVars, moduleStates>>

GetsAddress ==
  /\ registeredAt /\ ~hasAddress
  /\ hasAddress' = TRUE
  /\ UNCHANGED <<registeredAt, ceregLine, changes, monitor, registration, networkChanged, timeVars, rtcVars, moduleStates>>

-----------------------------------------------------------------------------
(* The UART's reader task.                                                 *)

\* handleUrc() of +CEREG.
HandleCereg ==
  /\ ceregLine
  /\ ceregLine' = FALSE
  /\ networkChanged' = TRUE
  /\ UNCHANGED <<registeredAt, hasAddress, changes, monitor, registration, timeVars, rtcVars, moduleStates>>

\* handleUrc() of %XTIME: the network's time (NITZ) comes with an attach.
HandleXtime ==
  /\ registeredAt
  /\ monitor \notin {"starting", "out"}
  /\ \E time \in Times : setTime(time)
  /\ resyncDue' = FALSE
  /\ UNCHANGED <<modemLinkVars, monitor, registration, networkChanged, graceOver, lastNtpAttempt, retryOver,
                 ntpSync, syncNotice, networkConnecting, networkReady, configPortalRunning>>

-----------------------------------------------------------------------------
(* The driver's task.                                                      *)

\* run() up to monitorNetwork(): without an answer, the modem is out of the picture.
Run ==
  /\ monitor = "starting"
  /\ \/ monitor' = "out" /\ networkConnecting' = FALSE /\ UNCHANGED <<rtcVars, rtcInSync>>
     \/ /\ monitor' = "query"
        /\ networkConnecting' = TRUE
        /\ \/ UNCHANGED <<clock, plausibleSeen, rtcInSync>>
           \/ ~rtcInSync /\ \E time \in Times : setTime(time)  \* the modem's clock, kept across the restart
        /\ UNCHANGED <<ntpSync, syncNotice>>
  /\ UNCHANGED <<modemLinkVars, registration, networkChanged, timeVars, networkReady, configPortalRunning>>

queryRegistration ==
  /\ monitor = "query"
  /\ monitor' = "update"
  /\ \/ registration' = (IF registeredAt THEN "registered" ELSE "searching") /\ UNCHANGED changes
     \/ changes < MaxChanges /\ changes' = changes + 1 /\ registration' = "none"
  /\ UNCHANGED <<registeredAt, hasAddress, ceregLine, networkChanged, timeVars, rtcVars, moduleStates>>

\* queryIpAddress() may come to nothing: there is no address yet, or no answer.
queryIpAddressFails ==
  \/ ~hasAddress /\ UNCHANGED changes
  \/ hasAddress /\ changes < MaxChanges /\ changes' = changes + 1

updateNetworkState ==
  /\ monitor = "update"
  /\ monitor' = "sync"
  /\ \/ /\ registration = "registered" /\ ~networkReady /\ hasAddress
        /\ networkConnecting' = FALSE
        /\ networkReady' = TRUE
        /\ graceOver' = FALSE
        /\ UNCHANGED changes
     \/ /\ registration = "registered" /\ ~networkReady /\ queryIpAddressFails
        /\ UNCHANGED <<networkConnecting, networkReady, graceOver>>
     \/ /\ registration # "registered" /\ networkReady
        /\ networkReady' = FALSE
        /\ networkConnecting' = TRUE
        /\ UNCHANGED <<graceOver, changes>>
     \/ /\ registration = "registered" <=> networkReady
        /\ UNCHANGED <<networkConnecting, networkReady, graceOver, changes>>
  /\ UNCHANGED <<registeredAt, hasAddress, ceregLine, registration, networkChanged, lastNtpAttempt, retryOver, resyncDue, rtcVars,
                 configPortalRunning, rtcInSync>>

timeUntilNtpDue ==
  IF ~networkReady THEN "no network"
  ELSE IF rtcInSync THEN IF resyncDue THEN "due" ELSE "later"
  ELSE IF graceOver /\ (lastNtpAttempt => retryOver) THEN "due" ELSE "later"

\* queryNtpTime() may come to nothing.
syncTimeIfDue ==
  /\ monitor = "sync"
  /\ monitor' = "waiting"
  /\ \/ timeUntilNtpDue # "due" /\ UNCHANGED <<timeVars, rtcVars, rtcInSync, changes>>
     \/ /\ timeUntilNtpDue = "due"
        /\ lastNtpAttempt' = TRUE
        /\ retryOver' = FALSE
        /\ UNCHANGED <<graceOver, ntpSync, syncNotice>>
        /\ \/ resyncDue' = FALSE /\ setTime("plausible") /\ UNCHANGED changes
           \/ changes < MaxChanges /\ changes' = changes + 1 /\ UNCHANGED <<resyncDue, clock, plausibleSeen, rtcInSync>>
  /\ UNCHANGED <<registeredAt, hasAddress, ceregLine, registration, networkChanged, networkConnecting, networkReady,
                 configPortalRunning>>

\* networkChanged.pollIn(wait): a change, or the end of the wait, which is short of the next poll
\* when NTP is due before.
Wait ==
  /\ monitor = "waiting"
  /\ monitor' = "query"
  /\ networkChanged' = FALSE
  /\ UNCHANGED <<modemLinkVars, registration, timeVars, rtcVars, moduleStates>>

\* The intervals pass.
TimePasses ==
  /\ \/ networkReady /\ ~graceOver /\ graceOver' = TRUE /\ UNCHANGED <<retryOver, resyncDue>>
     \/ lastNtpAttempt /\ ~retryOver /\ retryOver' = TRUE /\ UNCHANGED <<graceOver, resyncDue>>
     \/ rtcInSync /\ ~resyncDue /\ resyncDue' = TRUE /\ UNCHANGED <<graceOver, retryOver>>
  /\ UNCHANGED <<modemLinkVars, monitor, registration, networkChanged, lastNtpAttempt, rtcVars, moduleStates>>

CellularTask ==
  Run \/ queryRegistration \/ updateNetworkState \/ syncTimeIfDue \/ Wait \/ HandleCereg

===============================================================================
