-------------------------------- MODULE Registry --------------------------------
(***************************************************************************)
(* The peripherals and functions a device is configured with: how they are *)
(* made, how their managers are shut down while they may still be making   *)
(* one, what a running function's configuration is said to be; and the     *)
(* task that publishes what they measure, with the watchdog it restarts.   *)
(***************************************************************************)
EXTENDS Naturals, Sequences

CONSTANTS
  Handlers,          \* bound: of UPDATEs at a time
  PublishInterval,   \* ticks, less Debounce, from one publication's start to the next, if none is requested
  Debounce,          \* ticks no publication starts in
  CollectTime,       \* ticks it takes to measure and publish, at most
  WatchdogTimeout

ASSUME PublishingAssumption == {PublishInterval, Debounce, CollectTime, WatchdogTimeout} \subseteq Nat

\* What is configured: settings that make a product, or that do not parse, are of no known type, or whose
\* factory fails.
PeripheralSettings == [name : {"p", "q"}, ok : BOOLEAN]
FunctionSettings ==
  {[name |-> "f", uses |-> "p", ok |-> TRUE, config |-> "stored"], [name |-> "f", uses |-> "q", ok |-> TRUE, config |-> "none"],
   [name |-> "g", uses |-> "q", ok |-> TRUE, config |-> "default"], [name |-> "g", uses |-> "p", ok |-> FALSE, config |-> "stored"]}
UpToTwo(S) == {<<>>} \cup {<<a>> : a \in S} \cup {<<a, b>> : a, b \in S}
\* The configurations a server sends: two that load and one that does not.
Bodies == {"sent", "edited", "faulty"}
Idle == [name |-> "none", body |-> "none"]

VARIABLES
  peripherals, functions,   \* DeviceConfiguration::peripherals and functions
  loading, index, making,   \* how far initDeviceRuntime() is; a function is being made
  stopped,                  \* the managers that are State::Stopped
  instances,                \* Manager::instances of both: a product's index by kind and name
  products, shut,           \* what was made, and what was shut down: pairs of kind and index
  initState, failures,      \* DeviceRuntimeInit::initState, and how many failed
  tracker, configured,      \* FunctionConfigTracker::entries; the configuration each function has
  applying,                 \* the name and body each handler's applyLive() is at, or Idle
  overlapped,               \* the names last configured while another handler was at them
  shutdown                  \* the listener ShutdownManager is at

registryVars == <<peripherals, functions, loading, index, making, stopped, instances, products, shut, initState, failures,
                  tracker, configured, applying, overlapped, shutdown>>

RegistryInit ==
  /\ peripherals \in UpToTwo(PeripheralSettings) /\ functions \in UpToTwo(FunctionSettings)
  /\ loading = "peripherals" /\ index = 1 /\ making = FALSE
  /\ stopped = {} /\ instances = [k \in {"peripheral", "function"} |-> <<>>]
  /\ products = {} /\ shut = {} /\ initState = "success" /\ failures = 0
  /\ tracker = <<>> /\ configured = <<>> /\ shutdown = "no"
  /\ applying = [h \in Handlers |-> Idle] /\ overlapped = {}

\* The map m with a value for a key.
Put(m, key, v) == [k \in DOMAIN m \cup {key} |-> IF k = key THEN v ELSE m[k]]

\* Manager::createWithFactory, the mutex held: a manager that is stopped makes nothing, and of two with a
\* name the first stays.
\* For contrast: a manager that makes products though it is stopped.
CreatesAnyway(kind) == TRUE
Creates(kind) == kind \notin stopped
Emplace(kind, name, i) == [instances EXCEPT ![kind] = IF name \in DOMAIN @ THEN @ ELSE Put(@, name, i)]

MakePeripheral ==
  LET made == Creates("peripheral") /\ peripherals[index].ok
  IN /\ IF made THEN /\ products' = products \cup {<<"peripheral", index>>}
                     /\ instances' = Emplace("peripheral", peripherals[index].name, index)
                     /\ UNCHANGED <<initState, failures>>
                ELSE /\ initState' = "peripheral error" /\ failures' = failures + 1
                     /\ UNCHANGED <<products, instances>>
createPeripheral ==
  /\ loading = "peripherals" /\ index <= Len(peripherals) /\ index' = index + 1
  /\ MakePeripheral
  /\ UNCHANGED <<peripherals, functions, loading, making, stopped, shut, tracker, configured, applying, overlapped, shutdown>>

PeripheralsDone ==
  /\ loading = "peripherals" /\ index > Len(peripherals)
  /\ loading' = "functions" /\ index' = 1
  /\ UNCHANGED <<peripherals, functions, making, stopped, instances, products, shut, initState, failures, tracker,
                 configured, applying, overlapped, shutdown>>

\* The function manager's mutex is held from here until the function is made.
TakeFunctionManager ==
  /\ loading = "functions" /\ index <= Len(functions) /\ ~making
  /\ making' = TRUE
  /\ UNCHANGED <<peripherals, functions, loading, index, stopped, instances, products, shut, initState, failures, tracker,
                 configured, applying, overlapped, shutdown>>

\* FunctionRegistry::createFunction: the peripheral is looked up, the stored configuration is given to the
\* function, it is recorded and then kept.
createFunction ==
  /\ making /\ making' = FALSE /\ index' = index + 1
  /\ LET f == functions[index]
         made == Creates("function") /\ f.ok /\ f.uses \in DOMAIN instances["peripheral"]
     IN IF made
        THEN /\ products' = products \cup {<<"function", index>>}
             /\ instances' = Emplace("function", f.name, index)
             /\ tracker' = Put(tracker, f.name, [of |-> index, fingerprint |-> IF f.config = "stored" THEN "stored" ELSE ""])
             /\ configured' = Put(configured, index, f.config)
             /\ UNCHANGED <<initState, failures>>
        ELSE /\ initState' = "function error" /\ failures' = failures + 1
             /\ UNCHANGED <<products, instances, tracker, configured>>
  /\ UNCHANGED <<peripherals, functions, loading, stopped, shut, applying, overlapped, shutdown>>

RuntimeDone ==
  /\ loading = "functions" /\ index > Len(functions) /\ loading' = "done"
  /\ UNCHANGED <<peripherals, functions, index, making, stopped, instances, products, shut, initState, failures, tracker,
                 configured, applying, overlapped, shutdown>>

\* FunctionConfigTracker::apply: the entry is found and its configureFn called, which parses the body first.
\* The table has no lock, and handlers of two UPDATEs may be at it.
Configure(body) == body # "faulty"
applyLive ==
  /\ loading = "done"
  /\ \E h \in Handlers, name \in DOMAIN tracker, body \in Bodies:
       /\ applying[h] = Idle /\ configured[tracker[name].of] # "none" /\ Configure(body)
       /\ configured' = [configured EXCEPT ![tracker[name].of] = body]
       /\ applying' = [applying EXCEPT ![h] = [name |-> name, body |-> body]]
       /\ overlapped' = IF \E g \in Handlers: applying[g].name = name
                        THEN overlapped \cup {name} ELSE overlapped \ {name}
  /\ UNCHANGED <<peripherals, functions, loading, index, making, stopped, instances, products, shut, initState, failures,
                 tracker, shutdown>>
RecordApplied ==
  /\ \E h \in Handlers:
       /\ applying[h] # Idle /\ applying' = [applying EXCEPT ![h] = Idle]
       /\ tracker' = [tracker EXCEPT ![applying[h].name].fingerprint = applying[h].body]
  /\ UNCHANGED <<peripherals, functions, loading, index, making, stopped, instances, products, shut, initState, failures,
                 configured, overlapped, shutdown>>

\* The battery is low: the listeners run in turn, at any point of the boot once they are registered.
StartShutdown ==
  /\ shutdown = "no" /\ shutdown' = "peripheral"
  /\ UNCHANGED <<peripherals, functions, loading, index, making, stopped, instances, products, shut, initState, failures,
                 tracker, configured, applying, overlapped>>
\* Manager::shutdown, the mutex held. No function has a shutdown of its own.
Shutdown ==
  /\ shutdown \in {"peripheral", "function"} /\ (shutdown = "function" => ~making)
  /\ stopped' = stopped \cup {shutdown}
  /\ shut' = IF shutdown = "peripheral" THEN shut \cup {<<"peripheral", instances["peripheral"][n]>> : n \in DOMAIN instances["peripheral"]}
             ELSE shut
  /\ shutdown' = IF shutdown = "peripheral" THEN "function" ELSE "over"
  /\ UNCHANGED <<peripherals, functions, loading, index, making, instances, products, initState, failures, tracker,
                 configured, applying, overlapped>>

RegistryNext ==
  \/ createPeripheral \/ PeripheralsDone \/ TakeFunctionManager \/ createFunction \/ RuntimeDone
  \/ applyLive \/ RecordApplied \/ StartShutdown \/ Shutdown

-----------------------------------------------------------------------------
(* The telemetry task and the watchdog.                                    *)

VARIABLES
  telemetry,        \* where the telemetry task is
  requested,        \* telemetryPublishQueue, of one element
  owed,             \* a publication was requested and none has started since
  sinceWake,        \* Task::lastWakeTime, ticks ago
  sinceRestart,     \* the watchdog was restarted, ticks ago
  published,        \* a publication has restarted it
  expired           \* esp_system_abort("Watchdog timed out")

publishingVars == <<telemetry, requested, owed, sinceWake, sinceRestart, published, expired>>

PublishingInit ==
  /\ telemetry = "booting" /\ requested = FALSE /\ owed = FALSE /\ sinceWake = 0 /\ sinceRestart = 0
  /\ published = FALSE /\ expired = FALSE

\* ticksUntil(publishInterval - debounceInterval): unsigned, and as good as never if that is below 0.
Due == Debounce <= PublishInterval /\ sinceWake >= PublishInterval - Debounce

\* A tick passes, but a task that is due runs.
PublishingTick ==
  /\ ~expired /\ sinceRestart < WatchdogTimeout
  /\ CASE telemetry = "booting" -> TRUE
       [] telemetry = "collecting" -> sinceWake < CollectTime
       [] telemetry = "debouncing" -> sinceWake < Debounce
       [] telemetry = "polling" -> ~Due /\ ~requested
       [] OTHER -> FALSE
  /\ sinceRestart' = sinceRestart + 1
  /\ sinceWake' = IF telemetry = "booting" THEN sinceWake ELSE sinceWake + 1
  /\ UNCHANGED <<telemetry, requested, owed, published, expired>>

\* The boot comes to an end, or waits for the network, the time or a peripheral.
StartTelemetry ==
  /\ ~expired /\ telemetry = "booting" /\ telemetry' = "waking"
  /\ UNCHANGED <<requested, owed, sinceWake, sinceRestart, published, expired>>

requestTelemetryPublishing ==
  /\ ~expired /\ requested' = TRUE /\ owed' = TRUE
  /\ UNCHANGED <<telemetry, sinceWake, sinceRestart, published, expired>>

MarkWakeTime ==
  /\ ~expired /\ telemetry = "waking" /\ telemetry' = "collecting"
  /\ sinceWake' = 0 /\ owed' = FALSE
  /\ UNCHANGED <<requested, sinceRestart, published, expired>>

\* The message is on its way to the client, published or not.
RestartWatchdog ==
  /\ ~expired /\ telemetry = "collecting" /\ telemetry' = "debouncing"
  /\ sinceRestart' = 0 /\ published' = TRUE
  /\ UNCHANGED <<requested, owed, sinceWake, expired>>

Debounced ==
  /\ ~expired /\ telemetry = "debouncing" /\ sinceWake >= Debounce
  /\ telemetry' = "polling"
  /\ UNCHANGED <<requested, owed, sinceWake, sinceRestart, published, expired>>

PollRequests ==
  /\ ~expired /\ telemetry = "polling" /\ (requested \/ Due)
  /\ telemetry' = "waking" /\ requested' = FALSE
  /\ UNCHANGED <<owed, sinceWake, sinceRestart, published, expired>>

WatchdogTimesOut ==
  /\ ~expired /\ sinceRestart = WatchdogTimeout /\ expired' = TRUE
  /\ UNCHANGED <<telemetry, requested, owed, sinceWake, sinceRestart, published>>

TelemetryTask == MarkWakeTime \/ RestartWatchdog \/ Debounced \/ PollRequests
PublishingNext == PublishingTick \/ StartTelemetry \/ requestTelemetryPublishing \/ TelemetryTask \/ WatchdogTimesOut
PublishingTasks == PublishingTick \/ TelemetryTask \/ WatchdogTimesOut

-----------------------------------------------------------------------------
(* Properties.                                                             *)

RegistryTypeOK ==
  /\ loading \in {"peripherals", "functions", "done"} /\ index \in 1..3 /\ making \in BOOLEAN
  /\ stopped \subseteq {"peripheral", "function"} /\ shut \subseteq products
  /\ initState \in {"success", "peripheral error", "function error"} /\ failures \in 0..4
  /\ shutdown \in {"no", "peripheral", "function", "over"} /\ overlapped \subseteq {"f", "g"}
  /\ applying \in [Handlers -> {Idle} \cup [name : {"f", "g"}, body : Bodies]]
  /\ telemetry \in {"booting", "waking", "collecting", "debouncing", "polling"}
  /\ {requested, owed, published, expired} \subseteq BOOLEAN /\ sinceRestart \in 0..WatchdogTimeout

\* A boot is a success exactly if everything configured was made, which is what a requested
\* configuration is committed on (DeviceInit.hpp:95-126, Device.hpp:278-291).
InitReported ==
  /\ (initState = "success") = (failures = 0)
  /\ loading = "done" /\ initState = "success" =>
       \A kind \in {"peripheral", "function"}:
         LET settings == IF kind = "peripheral" THEN peripherals ELSE functions
         IN \A i \in DOMAIN settings: <<kind, i>> \in products /\ settings[i].name \in DOMAIN instances[kind]

\* Whatever it was doing, a device that has shut down has shut down every peripheral it made, but for one
\* configured under a name already taken, which nothing knows (Manager.hpp:126-161).
ShutdownWhole ==
  shutdown = "over" =>
    \A i \in DOMAIN peripherals: <<"peripheral", i>> \in products =>
      <<"peripheral", i>> \in shut \/ instances["peripheral"][peripherals[i].name] # i

\* The manifest names the configuration that a function runs, or the one it ran until now; but for a function
\* that two handlers were at together, until one configures it alone (FunctionConfigTracker.hpp:35-52).
FingerprintOf(runs) == IF runs \in {"none", "default"} THEN "" ELSE runs
ManifestProven ==
  \A name \in DOMAIN tracker \ overlapped:
    LET runs == configured[tracker[name].of]
    IN \/ \E h \in Handlers: applying[h].name = name /\ applying[h].body = runs
       \/ tracker[name].fingerprint = FingerprintOf(runs)

\* The watchdog ends a boot that hangs; and no device that has come to publish, if it publishes, and is done
\* with it, within the timeout. The two are settings of their own (TelemetryTask.hpp:65-130,
\* DeviceConfiguration.hpp:36-50).
WatchdogPatient == Debounce <= PublishInterval /\ PublishInterval + CollectTime < WatchdogTimeout
WatchdogQuiet == WatchdogPatient /\ expired => ~published

\* A request is not forgotten while the task measures, publishes or waits (TelemetryTask.hpp:122-129).
RequestKept == owed => requested \/ telemetry = "waking"

RegistrySound == RequestKept /\ InitReported /\ ShutdownWhole /\ ManifestProven /\ WatchdogQuiet

\* A requested publication starts, and a boot ends, unless the watchdog resets the device
\* (TelemetryTask.hpp:120-129, Telemetry.hpp:64-66).
Publishes == (owed ~> (~owed \/ expired)) /\ (telemetry = "booting" ~> (telemetry # "booting" \/ expired))

=============================================================================
