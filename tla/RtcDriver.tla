------------------------------- MODULE RtcDriver -------------------------------
(***************************************************************************)
(* The clock, and the state that says whether it can be trusted. It is set *)
(* by lwIP's SNTP client, on a task of its own, or with setTime(): by a    *)
(* BLE client or from the cellular modem.                                  *)
(*                                                                         *)
(* It is one of the ModuleStates that the drivers of the network share     *)
(* with the rest of the device, which are declared here: any task may test *)
(* one, and wait for it to be set.                                         *)
(***************************************************************************)

VARIABLES networkConnecting, networkReady, configPortalRunning, rtcInSync

moduleStates == <<networkConnecting, networkReady, configPortalRunning, rtcInSync>>

StatesTypeOK == {networkConnecting, networkReady, configPortalRunning, rtcInSync} \subseteq BOOLEAN

StatesInit ==
  networkConnecting = FALSE /\ networkReady = FALSE /\ configPortalRunning = FALSE

VARIABLES
  clock,         \* "implausible" at or below EARLIEST_PLAUSIBLE_TIME
  ntpSync,       \* the task: "none" (no SNTP), "awaiting" the network, or "polling"
  syncNotice,    \* lwIP has set the clock, the task has not been told
  plausibleSeen  \* history: the clock has been plausible

rtcVars == <<clock, ntpSync, syncNotice, plausibleSeen>>

Times == {"implausible", "plausible"}

RtcTypeOK ==
  /\ clock \in Times
  /\ ntpSync \in {"none", "awaiting", "polling"}
  /\ {syncNotice, plausibleSeen} \subseteq BOOLEAN

\* The constructors; a plausible clock has been kept across a reboot.
RtcInit(withSntp) ==
  /\ clock \in Times
  /\ rtcInSync = (clock = "plausible")
  /\ plausibleSeen = (clock = "plausible")
  /\ ntpSync = IF withSntp THEN "awaiting" ELSE "none"
  /\ syncNotice = FALSE

isTimeSet == clock = "plausible"

SetClock(time) ==
  /\ clock' = time
  /\ plausibleSeen' = (plausibleSeen \/ time = "plausible")

\* For contrast: any time from outside is believed.
setTimeUnchecked(time) == SetClock(time) /\ rtcInSync' = TRUE

\* A time from outside that no wall clock shows is ignored.
setTime(time) ==
  IF time = "plausible"
  THEN SetClock(time) /\ rtcInSync' = TRUE
  ELSE UNCHANGED <<clock, plausibleSeen, rtcInSync>>

StartSntp ==
  /\ ntpSync = "awaiting"
  /\ networkReady
  /\ ntpSync' = "polling"
  /\ UNCHANGED <<clock, syncNotice, plausibleSeen, moduleStates>>

\* lwIP keeps polling on its own while there is a network, and believes what it is told.
SntpAnswers(time) ==
  /\ ntpSync = "polling"
  /\ networkReady
  /\ SetClock(time)
  /\ syncNotice' = TRUE
  /\ UNCHANGED <<ntpSync, moduleStates>>

\* esp_netif_sntp_sync_wait() returns; when it has timed out, nothing happens.
SyncWaitReturns ==
  /\ ntpSync = "polling"
  /\ syncNotice
  /\ syncNotice' = FALSE
  /\ rtcInSync' = (rtcInSync \/ isTimeSet)
  /\ UNCHANGED <<clock, ntpSync, plausibleSeen, networkConnecting, networkReady, configPortalRunning>>

RtcTask == StartSntp \/ (\E time \in Times : SntpAnswers(time)) \/ SyncWaitReturns

===============================================================================
