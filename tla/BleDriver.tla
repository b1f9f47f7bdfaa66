------------------------------- MODULE BleDriver -------------------------------
(***************************************************************************)
(* Bluetooth: the driver advertises in single bursts, each armed by the    *)
(* one before, and lets a client see the WiFi networks, set credentials,   *)
(* disconnect or disable WiFi, and set the time. All of it runs on the     *)
(* NimBLE host's task; what other tasks have to say is posted to it. What  *)
(* the client asks for goes to the WiFi driver's event queue.              *)
(***************************************************************************)
EXTENDS WiFiDriver

CONSTANT MaxRequests  \* bound on what clients ask for, and on the host's resets

ASSUME BleAssumption == MaxRequests \in Nat

VARIABLES
  synced,         \* the host and the controller are in sync
  connHandle,     \* there is a connection
  advertising,    \* ble_gap_ext_adv_active()
  advConfigured,
  advRestartCallout,
  bleStatus,
  scanInProgress,
  requests

advertisingVars == <<synced, connHandle, advertising, advConfigured, advRestartCallout, bleStatus>>
bleVars == <<advertisingVars, scanInProgress, requests>>

BleTypeOK ==
  /\ {synced, connHandle, advertising, advConfigured, advRestartCallout, scanInProgress} \subseteq BOOLEAN
  /\ bleStatus \in {"Idle", "Resetting", "Error", "Advertising", "Connected"}
  /\ requests \in 0 .. MaxRequests

\* At boot, or with a client that has connected.
BleInit(client) ==
  /\ synced = client /\ connHandle = client
  /\ advertising = FALSE /\ advConfigured = client /\ advRestartCallout = FALSE
  /\ bleStatus = IF client THEN "Connected" ELSE "Idle"
  /\ scanInProgress = FALSE /\ requests = 0

-----------------------------------------------------------------------------
(* Advertising. The controller may refuse, and does when it is not in sync *)
(* or the one connection there may be is taken.                            *)

\* For a controller that advertises already ("active") there is nothing to do.  A failure here,
\* which may be for once only, leaves nothing behind that would try again.
startAdvertising(active) ==
  \/ /\ active
     /\ advertising' = TRUE
     /\ UNCHANGED <<advConfigured, bleStatus>>
  \/ /\ ~active /\ synced' /\ ~connHandle'
     /\ advertising' = TRUE
     /\ advConfigured' = TRUE
     /\ bleStatus' = "Advertising"
  \/ /\ ~active
     /\ advertising' = FALSE
     /\ bleStatus' = "Error"
     /\ advConfigured' \in {advConfigured, synced'}

handleSync ==
  /\ ~synced
  /\ synced' = TRUE
  /\ UNCHANGED connHandle
  /\ startAdvertising(advertising)
  /\ UNCHANGED <<advRestartCallout, scanInProgress, requests, wifiVars, moduleStates>>

\* The host has ended the advertisement, and told of it, and the connection.
handleReset ==
  /\ synced
  /\ requests < MaxRequests
  /\ requests' = requests + 1
  /\ synced' = FALSE
  /\ connHandle' = FALSE
  /\ advertising' = FALSE
  /\ bleStatus' = "Resetting"
  /\ advRestartCallout' \in {advRestartCallout, advRestartCallout \/ advertising}
  /\ UNCHANGED <<advConfigured, scanInProgress, wifiVars, moduleStates>>

\* gapEventCallback(): BLE_GAP_EVENT_CONNECT, with which the advertisement ends (and may be told to have);
\* after a connection that failed it may still go on.  Then BLE_GAP_EVENT_DISCONNECT and
\* BLE_GAP_EVENT_ADV_COMPLETE.
GapConnect ==
  /\ advertising
  /\ requests < MaxRequests
  /\ requests' = requests + 1
  /\ UNCHANGED synced
  /\ \/ /\ connHandle' = TRUE
        /\ advertising' = FALSE
        /\ bleStatus' = "Connected"
        /\ UNCHANGED advConfigured
     \/ /\ UNCHANGED connHandle
        /\ \E active \in BOOLEAN : startAdvertising(active)
  /\ advRestartCallout' \in {advRestartCallout, TRUE}
  /\ UNCHANGED <<scanInProgress, wifiVars, moduleStates>>

GapDisconnect ==
  /\ connHandle
  /\ connHandle' = FALSE
  /\ UNCHANGED synced
  /\ startAdvertising(advertising)
  /\ UNCHANGED <<advRestartCallout, scanInProgress, requests, wifiVars, moduleStates>>

GapAdvComplete ==
  /\ advertising
  /\ advertising' = FALSE
  /\ advRestartCallout' = TRUE
  /\ UNCHANGED <<synced, connHandle, advConfigured, bleStatus, scanInProgress, requests, wifiVars, moduleStates>>

advRestartCalloutCb ==
  /\ advRestartCallout
  /\ advRestartCallout' = FALSE
  /\ UNCHANGED <<synced, connHandle>>
  /\ startAdvertising(advertising)
  /\ UNCHANGED <<scanInProgress, requests, wifiVars, moduleStates>>

-----------------------------------------------------------------------------
(* The client.                                                             *)

Request ==
  /\ connHandle
  /\ requests < MaxRequests
  /\ requests' = requests + 1
  /\ UNCHANGED advertisingVars

ToWiFi(command) ==
  /\ Offer(command)
  /\ UNCHANGED <<stackVars, loopVars, stationStarted, scanTriggeredByProvisioning, scanResults, shuttingDown, moduleStates>>

wifiCredentialsAccessCallback ==
  /\ Request
  /\ ToWiFi("Credentials")
  /\ UNCHANGED scanInProgress

\* A scan is not asked for again before the results of the first have been posted.
wifiControlAccessCallback ==
  /\ Request
  /\ \/ ToWiFi("DisconnectCmd") /\ UNCHANGED scanInProgress
     \/ ToWiFi("DisableCmd") /\ UNCHANGED scanInProgress
     \/ ~scanInProgress /\ scanInProgress' = TRUE /\ ToWiFi("ScanRequest")

\* The posted part: notifications for the client, if it is still there.
setScanResults ==
  /\ scanResults
  /\ scanResults' = FALSE
  /\ scanInProgress' = FALSE
  /\ UNCHANGED <<advertisingVars, requests, stackVars, loopVars, stationStarted, scanTriggeredByProvisioning,
                 eventQueue, eventLost, shuttingDown, moduleStates>>

BleHost ==
  handleSync \/ handleReset \/ GapConnect \/ GapDisconnect \/ GapAdvComplete \/ advRestartCalloutCb

===============================================================================
