----------------------------- MODULE Connectivity -----------------------------
(***************************************************************************)
(* The network link that network-config asks for, the clock and Bluetooth, *)
(* as initConnectivity() puts them together: only the driver of the chosen *)
(* link exists, SNTP only over WiFi, and BLE talks to the WiFi driver only *)
(* when there is one.                                                      *)
(***************************************************************************)
EXTENDS BleDriver, CellularDriver

VARIABLES
  link,
  part  \* what is looked at: a "link" with a client that asks for things, the "clock" with a link
        \* that no client asks anything of, or "advertising"

connectivityVars == <<link, part, bleVars, wifiVars, cellularVars, rtcVars, moduleStates>>

\* Anything but one known link that the board has is WiFi.
chooseNetworkLink(links, cellularAvailable) ==
  IF links = <<"cellular">> /\ cellularAvailable THEN "Cellular" ELSE "WiFi"

ConnectivityTypeOK ==
  /\ link \in {"WiFi", "Cellular"} /\ part \in {"link", "clock", "advertising"}
  /\ StatesTypeOK /\ WiFiTypeOK /\ BleTypeOK /\ RtcTypeOK /\ CellularTypeOK

ConnectivityInit ==
  /\ \E links \in {<<"cellular">>, <<"cellular", "wifi">>}, cellularAvailable \in BOOLEAN :
       link = chooseNetworkLink(links, cellularAvailable)
  /\ part \in {"link", "clock", "advertising"}
  /\ StatesInit
  /\ WiFiInit
  /\ BleInit(part # "advertising")
  /\ RtcInit(link = "WiFi")
  /\ CellularInit
  /\ clock = "plausible" \/ part = "clock"

WiFiSide ==
  /\ link = "WiFi" /\ part # "advertising"
  /\ \/ Associate \/ Trouble \/ ScanEnds \/ ProvisioningEnds
     \/ onEvent \/ WiFiLoop \/ ConnectionTimesOut
     \/ part = "clock" /\ onShutdown
  /\ UNCHANGED <<bleVars, rtcVars, cellularVars, link, part>>

\* The callbacks of the two drivers for each other.
WiFiWithBle ==
  /\ link = "WiFi" /\ part = "link"
  /\ wifiCredentialsAccessCallback \/ wifiControlAccessCallback \/ setScanResults
  /\ UNCHANGED <<rtcVars, cellularVars, link, part>>

BleSide ==
  /\ part = "advertising"
  /\ BleHost
  /\ UNCHANGED <<rtcVars, cellularVars, link, part>>

CellularSide ==
  /\ link = "Cellular" /\ part # "advertising"
  /\ CellularTask \/ GetsAddress \/ ModemChanges \/ HandleXtime \/ TimePasses
  /\ UNCHANGED <<bleVars, wifiVars, link, part>>

\* ctsSetTime(): a client sets the time.
ctsSetTime ==
  /\ part = "clock"
  /\ connHandle
  /\ requests < MaxRequests
  /\ requests' = requests + 1
  /\ \E time \in Times : setTime(time)
  /\ UNCHANGED <<advertisingVars, scanInProgress, wifiVars, cellularVars, ntpSync, syncNotice,
                 networkConnecting, networkReady, configPortalRunning, link, part>>

RtcSide ==
  /\ part = "clock"
  /\ RtcTask
  /\ UNCHANGED <<bleVars, wifiVars, cellularVars, link, part>>

ConnectivityNext == WiFiSide \/ WiFiWithBle \/ BleSide \/ CellularSide \/ ctsSetTime \/ RtcSide

\* Tasks run when they can, the stack and the modem do what they were asked to, timers expire.
ConnectivityFairness ==
  /\ WF_connectivityVars(WiFiSide /\ onEvent)
  /\ WF_connectivityVars(WiFiSide /\ WiFiLoop)
  /\ WF_connectivityVars(WiFiSide /\ Associate)
  /\ WF_connectivityVars(WiFiSide /\ ScanEnds)
  /\ WF_connectivityVars(WiFiSide /\ ConnectionTimesOut)
  /\ WF_connectivityVars(WiFiWithBle /\ setScanResults)
  /\ WF_connectivityVars(BleSide /\ GapAdvComplete)
  /\ WF_connectivityVars(BleSide /\ advRestartCalloutCb)
  /\ WF_connectivityVars(CellularSide /\ CellularTask)
  /\ WF_connectivityVars(CellularSide /\ GetsAddress)
  /\ WF_connectivityVars(CellularSide /\ TimePasses)
  /\ WF_connectivityVars(RtcSide /\ (StartSntp \/ SyncWaitReturns))
  /\ WF_connectivityVars(RtcSide /\ SntpAnswers("plausible"))

ConnectivitySpec == ConnectivityInit /\ [][ConnectivityNext]_connectivityVars /\ ConnectivityFairness

-----------------------------------------------------------------------------
(* Properties.                                                             *)

\* The clock is only said to be in sync once it has shown a time that a wall clock can show
\* ("never merely because an SNTP call reported success").
InSyncOnPlausibleTime == rtcInSync => plausibleSeen

LinkUp == IF link = "WiFi"
          THEN accessPoint /\ provisioned /\ ~disabled /\ ~shuttingDown /\ ~eventLost
          ELSE registeredAt /\ monitor # "out"

LinkDown == IF link = "WiFi" THEN ~accessPoint ELSE ~registeredAt

\* connect() is about to stop a station that is getting, or has got, a connection: an event of an earlier
\* attempt has cleared networkConnecting. What stopping it causes may do the same to the next attempt.
Overtaken == /\ loop = "checking" /\ Associated
             /\ ~(disabled \/ connected \/ configPortalRunning \/ networkConnecting)

\* The network is ready in the end when the link stays up, and not ready when it stays down, whatever
\* events came late, before, or while the station was stopped: networkReady is set and cleared by one
\* task, and what to do about it decided by another. Unless the driver overtakes itself over and over.
NetworkFollowsLink ==
  part # "advertising" => /\ <>[]LinkUp => (<>[]networkReady \/ []<>Overtaken)
                          /\ <>[]LinkDown => <>[]~networkReady

\* A client that has asked for a scan can ask again in the end: every request is answered, unless
\* the WiFi driver's queue has lost something or the device restarts.
ScanAnswered == []<>(~scanInProgress \/ eventLost \/ shuttingDown)

\* The end of a burst of advertising is followed by the next.
AdvertisesAgain == []<>(advertising \/ bleStatus # "Advertising")

\* With a network that stays, the clock gets to be in sync: over WiFi when what the servers answer is
\* plausible in the end, over cellular when NTP is asked again after it failed.
TimeArrives == <>[](networkReady /\ (link = "WiFi" => clock = "plausible")) => <>rtcInSync

\* What the rest of the device needs of a link comes with it: the network's state, and the time.
LinkServes == NetworkFollowsLink /\ TimeArrives

\* Whoever provisions the device is answered, and finds it again when the burst is over.
BleServes == ScanAnswered /\ AdvertisesAgain

===============================================================================
