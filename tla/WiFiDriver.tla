------------------------------ MODULE WiFiDriver ------------------------------
(***************************************************************************)
(* WiFi: the driver's loop, which decides when to connect and handles      *)
(* events from a bounded queue, the task that delivers the WiFi stack's    *)
(* events and sets the states the rest of the device looks at, and the     *)
(* stack itself, which starts, stops, associates and scans on its own.     *)
(* esp_wifi_stop() returns before its events are delivered.  RtcDriver has *)
(* the states that are shared.                                             *)
(***************************************************************************)
EXTENDS RtcDriver, Integers, SequencesExt

CONSTANTS
  EventQueueSize,  \* capacity of eventQueue
  MaxTroubles      \* bound on how often the access point or the address is lost

ASSUME WiFiAssumption == EventQueueSize \in Nat /\ MaxTroubles \in Nat

VARIABLES
  station,         \* the stack: "stopped", "started", "associating", "connected"
  stackEvents,     \* its events, not yet delivered
  accessPoint,     \* it can be reached, with the credentials of provisioned
  provisioned,
  scanning,
  troubles,
  stationStarted,
  scanTriggeredByProvisioning,
  eventQueue,
  loop,            \* the driver's task: "checking", "connecting", "starting" (awaits stationStarted) or "draining"
  disabled, connected,
  timedOut,        \* WIFI_CONNECTION_TIMEOUT has passed since connectingSince
  pendingScan,     \* there is a pendingScanCallback
  scanResults,     \* those of a scan, or none of them, are on their way to the one who asked
  shuttingDown,
  eventLost        \* history: eventQueue was full once

stackVars == <<station, stackEvents, accessPoint, provisioned, scanning, troubles>>
loopVars == <<loop, disabled, connected, timedOut, pendingScan>>
handlerVars == <<stationStarted, scanTriggeredByProvisioning, scanResults, eventQueue, eventLost>>
wifiVars == <<stackVars, loopVars, handlerVars, shuttingDown>>

StackEvents == {"Start", "Stop", "Disconnected", "GotIp", "LostIp", "ScanDone", "ProvisioningEnd"}
ClientCommands == {"Credentials", "DisconnectCmd", "DisableCmd", "ScanRequest"}

WiFiTypeOK ==
  /\ station \in {"stopped", "started", "associating", "connected"}
  /\ stackEvents \in Seq(StackEvents)
  /\ eventQueue \in Seq(ClientCommands \cup {"Started", "GotIp", "LostIp", "Disconnected", "ScanDone", "ProvisioningDone"})
  /\ Len(eventQueue) <= EventQueueSize
  /\ loop \in {"checking", "connecting", "starting", "draining"}
  /\ {accessPoint, provisioned, scanning, scanResults, stationStarted, scanTriggeredByProvisioning, disabled, connected,
      timedOut, pendingScan, shuttingDown, eventLost} \subseteq BOOLEAN
  /\ troubles \in 0 .. MaxTroubles

WiFiInit ==
  /\ station = "stopped" /\ stackEvents = << >> /\ accessPoint = TRUE /\ provisioned \in BOOLEAN
  /\ scanning = FALSE /\ scanResults = FALSE /\ troubles = 0
  /\ stationStarted = FALSE /\ scanTriggeredByProvisioning = TRUE /\ eventQueue = << >>
  /\ loop = "checking" /\ disabled = FALSE /\ connected = FALSE /\ timedOut = FALSE
  /\ pendingScan = FALSE /\ shuttingDown = FALSE /\ eventLost = FALSE

-----------------------------------------------------------------------------
(* The WiFi stack.                                                         *)

Associated == station \in {"associating", "connected"}

Associate ==
  /\ station = "associating"
  /\ IF accessPoint
     THEN station' = "connected" /\ stackEvents' = Append(stackEvents, "GotIp")
     ELSE station' = "started" /\ stackEvents' = Append(stackEvents, "Disconnected")
  /\ UNCHANGED <<accessPoint, provisioned, scanning, troubles, loopVars, handlerVars, shuttingDown, moduleStates>>

\* The access point disappears, comes back, the address is lost, or the provisioning manager scans.
Trouble ==
  /\ troubles < MaxTroubles
  /\ troubles' = troubles + 1
  /\ \/ /\ accessPoint
        /\ accessPoint' = FALSE
        /\ station' = IF station = "connected" THEN "started" ELSE station
        /\ stackEvents' = IF station = "connected" THEN Append(stackEvents, "Disconnected") ELSE stackEvents
        /\ UNCHANGED scanning
     \/ ~accessPoint /\ accessPoint' = TRUE /\ UNCHANGED <<station, stackEvents, scanning>>
     \/ /\ station = "connected"
        /\ stackEvents' = Append(stackEvents, "LostIp")
        /\ UNCHANGED <<station, accessPoint, scanning>>
     \/ /\ configPortalRunning /\ station = "started" /\ ~scanning
        /\ scanning' = TRUE
        /\ UNCHANGED <<station, accessPoint, stackEvents>>
  /\ UNCHANGED <<provisioned, loopVars, handlerVars, shuttingDown, moduleStates>>

ScanEnds ==
  /\ scanning
  /\ scanning' = FALSE
  /\ stackEvents' = Append(stackEvents, "ScanDone")
  /\ UNCHANGED <<station, accessPoint, provisioned, troubles, loopVars, handlerVars, shuttingDown, moduleStates>>

\* The provisioning manager has been given credentials that work, and has connected with them.
ProvisioningEnds ==
  /\ configPortalRunning
  /\ station = "started"
  /\ accessPoint
  /\ station' = "connected"
  /\ provisioned' = TRUE
  /\ stackEvents' = stackEvents \o <<"GotIp", "ProvisioningEnd">>
  /\ UNCHANGED <<accessPoint, scanning, troubles, loopVars, handlerVars, shuttingDown, moduleStates>>

-----------------------------------------------------------------------------
(* onEvent(): the stack's events, on their own task.                       *)

\* For contrast: the queue has no limit.
OfferAlways(event) == eventQueue' = Append(eventQueue, event) /\ UNCHANGED eventLost

Offer(event) ==
  IF Len(eventQueue) < EventQueueSize
  THEN eventQueue' = Append(eventQueue, event) /\ UNCHANGED eventLost
  ELSE eventLost' = TRUE /\ UNCHANGED eventQueue

onWiFiEvent(event) ==
  \/ /\ event = "ScanDone"
     /\ scanTriggeredByProvisioning' = TRUE
     /\ IF scanTriggeredByProvisioning THEN UNCHANGED <<eventQueue, eventLost>> ELSE Offer("ScanDone")
     /\ UNCHANGED <<stationStarted, networkReady>>
  \/ /\ event = "Start"
     /\ stationStarted' = TRUE
     /\ Offer("Started")
     /\ UNCHANGED <<scanTriggeredByProvisioning, networkReady>>
  \/ /\ event = "Stop"
     /\ stationStarted' = FALSE
     /\ UNCHANGED <<scanTriggeredByProvisioning, networkReady, eventQueue, eventLost>>
  \/ /\ event = "Disconnected"
     /\ networkReady' = FALSE
     /\ Offer("Disconnected")
     /\ UNCHANGED <<stationStarted, scanTriggeredByProvisioning>>

onIpEvent(event) ==
  /\ event \in {"GotIp", "LostIp"}
  /\ networkReady' = (event = "GotIp")
  /\ Offer(event)
  /\ UNCHANGED <<stationStarted, scanTriggeredByProvisioning>>

onWiFiProvEvent(event) ==
  /\ event = "ProvisioningEnd"
  /\ Offer("ProvisioningDone")
  /\ UNCHANGED <<stationStarted, scanTriggeredByProvisioning, networkReady>>

onEvent ==
  /\ stackEvents # << >>
  /\ stackEvents' = Tail(stackEvents)
  /\ onWiFiEvent(Head(stackEvents)) \/ onIpEvent(Head(stackEvents)) \/ onWiFiProvEvent(Head(stackEvents))
  /\ UNCHANGED <<station, accessPoint, provisioned, scanning, troubles, scanResults, loopVars, shuttingDown,
                 networkConnecting, configPortalRunning, rtcInSync>>

-----------------------------------------------------------------------------
(* The driver's loop.                                                      *)

\* What esp_wifi_stop() makes of the stack.
StoppedEvents == (IF Associated THEN <<"Disconnected">> ELSE << >>) \o (IF station # "stopped" THEN <<"Stop">> ELSE << >>)

\* Only a station that is known to be started is stopped; one that is connected loses the network.
ensureWifiStopped ==
  IF stationStarted
  THEN /\ station' = "stopped"
       /\ stackEvents' = stackEvents \o StoppedEvents
       /\ networkReady' = FALSE
  ELSE UNCHANGED <<station, stackEvents, networkReady>>

ConnectToStation ==
  /\ ensureWifiStopped
  /\ loop' = "connecting"
  /\ UNCHANGED configPortalRunning

startProvisioning ==
  /\ configPortalRunning' = TRUE
  /\ station' = IF station = "stopped" THEN "started" ELSE station
  /\ stackEvents' = IF station = "stopped" THEN Append(stackEvents, "Start") ELSE stackEvents
  /\ loop' = "draining"
  /\ UNCHANGED networkReady

connect ==
  /\ networkConnecting' = TRUE
  /\ timedOut' = FALSE
  /\ IF provisioned THEN ConnectToStation ELSE startProvisioning

NothingToDo == /\ loop' = "draining"
               /\ UNCHANGED <<networkConnecting, timedOut, configPortalRunning, station, stackEvents, networkReady>>

CheckUnchanged == UNCHANGED <<accessPoint, provisioned, scanning, troubles, disabled, connected, pendingScan,
                              handlerVars, shuttingDown, rtcInSync>>

\* For contrast: an attempt does not time out.
CheckWithoutTimeout ==
  /\ loop = "checking"
  /\ ~shuttingDown
  /\ IF disabled \/ connected \/ configPortalRunning \/ networkConnecting THEN NothingToDo ELSE connect
  /\ CheckUnchanged

Check ==
  /\ loop = "checking"
  /\ ~shuttingDown
  /\ IF disabled \/ connected \/ configPortalRunning \/ (networkConnecting /\ ~timedOut) THEN NothingToDo ELSE connect
  /\ CheckUnchanged

\* The stack, and the tasks, take far less than the minute.
ConnectionTimesOut ==
  /\ networkConnecting
  /\ stackEvents = << >> /\ eventQueue = << >> /\ station # "associating" /\ loop \in {"checking", "draining"}
  /\ ~timedOut
  /\ timedOut' = TRUE
  /\ UNCHANGED <<stackVars, loop, disabled, connected, pendingScan, handlerVars, shuttingDown, moduleStates>>

\* A station that esp_wifi_stop() has stopped may still seem started, and is not started then.
ensureWifiStationStarted ==
  /\ loop = "connecting"
  /\ IF stationStarted
     THEN loop' = "draining" /\ UNCHANGED <<station, stackEvents>>
     ELSE /\ loop' = "starting"
          /\ station' = IF station = "stopped" THEN "started" ELSE station
          /\ stackEvents' = IF station = "stopped" THEN Append(stackEvents, "Start") ELSE stackEvents
  /\ UNCHANGED <<accessPoint, provisioned, scanning, troubles, disabled, connected, timedOut, pendingScan,
                 handlerVars, shuttingDown, moduleStates>>

\* stationStarted.awaitSet()
AwaitStarted ==
  /\ loop = "starting"
  /\ stationStarted
  /\ loop' = "draining"
  /\ UNCHANGED <<stackVars, disabled, connected, timedOut, pendingScan, handlerVars, shuttingDown, moduleStates>>

\* Nothing in the queue within WIFI_CHECK_INTERVAL, or nothing more.
DrainDone ==
  /\ loop = "draining"
  /\ eventQueue = << >>
  /\ loop' = "checking"
  /\ UNCHANGED <<stackVars, disabled, connected, timedOut, pendingScan, handlerVars, shuttingDown, moduleStates>>

Take(event) ==
  /\ loop = "draining"
  /\ eventQueue # << >>
  /\ Head(eventQueue) = event
  /\ eventQueue' = Tail(eventQueue)
  /\ UNCHANGED <<eventLost, stationStarted, loop, timedOut, accessPoint, troubles, shuttingDown, rtcInSync>>

\* esp_wifi_connect() fails when the station has been stopped again.
HandleStarted ==
  /\ Take("Started")
  /\ IF configPortalRunning THEN UNCHANGED <<station, stackEvents, networkReady>>
     ELSE IF station = "stopped" THEN ensureWifiStopped
     ELSE /\ station' = IF station = "started" THEN "associating" ELSE station
          /\ UNCHANGED <<stackEvents, networkReady>>
  /\ UNCHANGED <<provisioned, scanning, scanTriggeredByProvisioning, scanResults, disabled, connected,
                 pendingScan, networkConnecting, configPortalRunning>>

HandleGotIp ==
  /\ Take("GotIp")
  /\ connected' = TRUE
  /\ networkConnecting' = FALSE
  /\ UNCHANGED <<station, stackEvents, provisioned, scanning, scanTriggeredByProvisioning, scanResults, disabled,
                 pendingScan, networkReady, configPortalRunning>>

HandleLostIp ==
  /\ Take("LostIp")
  /\ connected' = FALSE
  /\ networkConnecting' = FALSE
  /\ UNCHANGED <<station, stackEvents, provisioned, scanning, scanTriggeredByProvisioning, scanResults, disabled,
                 pendingScan, networkReady, configPortalRunning>>

HandleDisconnected ==
  /\ Take("Disconnected")
  /\ connected' = FALSE
  /\ networkConnecting' = FALSE
  /\ UNCHANGED <<station, stackEvents, provisioned, scanning, scanTriggeredByProvisioning, scanResults, disabled,
                 pendingScan, networkReady, configPortalRunning>>

HandleProvisioningDone ==
  /\ Take("ProvisioningDone")
  /\ configPortalRunning' = FALSE
  /\ UNCHANGED <<station, stackEvents, provisioned, scanning, scanTriggeredByProvisioning, scanResults, disabled,
                 connected, pendingScan, networkConnecting, networkReady>>

\* What is stored with credentials that are too long is none of them.
HandleCredentials ==
  /\ Take("Credentials")
  /\ \/ UNCHANGED <<provisioned, disabled, connected, networkConnecting, configPortalRunning, station,
                       stackEvents, networkReady>>
     \/ /\ provisioned' = TRUE
        /\ disabled' = FALSE /\ connected' = FALSE
        /\ networkConnecting' = FALSE /\ configPortalRunning' = FALSE
        /\ ensureWifiStopped
  /\ UNCHANGED <<scanning, scanTriggeredByProvisioning, scanResults, pendingScan>>

HandleDisconnectCmd ==
  /\ Take("DisconnectCmd")
  /\ ensureWifiStopped
  /\ UNCHANGED <<provisioned, scanning, scanTriggeredByProvisioning, scanResults, disabled, connected, pendingScan,
                 networkConnecting, configPortalRunning>>

HandleDisableCmd ==
  /\ Take("DisableCmd")
  /\ connected' = FALSE
  /\ networkConnecting' = FALSE
  /\ disabled' = TRUE
  /\ ensureWifiStopped
  /\ UNCHANGED <<provisioned, scanning, scanTriggeredByProvisioning, scanResults, pendingScan, configPortalRunning>>

\* For contrast: a scan that the stack does not start is not answered.
HandleScanRequestQuietly ==
  /\ Take("ScanRequest")
  /\ \/ UNCHANGED <<scanning, scanTriggeredByProvisioning, pendingScan>>
     \/ /\ ~pendingScan /\ station # "stopped" /\ ~scanning
        /\ pendingScan' = TRUE
        /\ scanning' = TRUE
        /\ scanTriggeredByProvisioning' = FALSE
  /\ UNCHANGED <<station, stackEvents, provisioned, scanResults, disabled, connected, networkConnecting,
                 networkReady, configPortalRunning>>

\* Only one scan at a time: a request made meanwhile is answered along with the first. Without a
\* mode, or when the stack does not start the scan, the answer is that nothing was found.
HandleScanRequest ==
  /\ Take("ScanRequest")
  /\ \/ pendingScan /\ UNCHANGED <<scanning, scanTriggeredByProvisioning, scanResults, pendingScan>>
     \/ /\ ~pendingScan
        /\ scanResults' = TRUE
        /\ scanTriggeredByProvisioning' \in {scanTriggeredByProvisioning, TRUE}
        /\ UNCHANGED <<scanning, pendingScan>>
     \/ /\ ~pendingScan /\ station # "stopped" /\ ~scanning
        /\ pendingScan' = TRUE
        /\ scanning' = TRUE
        /\ scanTriggeredByProvisioning' = FALSE
        /\ UNCHANGED scanResults
  /\ UNCHANGED <<station, stackEvents, provisioned, disabled, connected, networkConnecting,
                 networkReady, configPortalRunning>>

HandleScanDone ==
  /\ Take("ScanDone")
  /\ pendingScan' = FALSE
  /\ scanResults' = (scanResults \/ pendingScan)
  /\ UNCHANGED <<station, stackEvents, provisioned, scanning, scanTriggeredByProvisioning, disabled, connected,
                 networkConnecting, networkReady, configPortalRunning>>

\* esp_restart() has begun: what the shutdown causes is dropped.
DrainForShutdown ==
  /\ shuttingDown
  /\ loop = "checking"
  /\ eventQueue # << >>
  /\ eventQueue' = << >>
  /\ UNCHANGED <<stackVars, loopVars, eventLost, stationStarted, scanTriggeredByProvisioning, scanResults, shuttingDown, moduleStates>>

onShutdown ==
  /\ ~shuttingDown
  /\ shuttingDown' = TRUE
  /\ UNCHANGED <<stackVars, loopVars, handlerVars, moduleStates>>

WiFiLoop ==
  \/ Check \/ ensureWifiStationStarted \/ AwaitStarted \/ DrainDone \/ DrainForShutdown
  \/ HandleStarted \/ HandleGotIp \/ HandleLostIp \/ HandleDisconnected \/ HandleProvisioningDone
  \/ HandleScanRequest \/ HandleScanDone \/ HandleCredentials \/ HandleDisconnectCmd \/ HandleDisableCmd

==============================================================================
