# Verification of the Ugly Duckling firmware

TLA+ models of the Ugly Duckling firmware (`src/`), checked with TLC, and proofs checked with
TLAPS. The firmware runs on ESP32 boards that water plots and open chicken-house doors: it keeps
a configuration in step with a server over MQTT, updates itself over HTTP, and drives motors,
valves and sensors from FreeRTOS tasks. It has unit tests for its pure functions; what those tests
hardly reach is what happens between tasks, between two NVS writes, and across restarts. That is
what the modules here are about.

`PROJECT.json` maps every definition to the source lines it stands for, and lists the runs, the
seeded faults that show each property can fail, the hazards and the theorems.

## 1. The system

A boot is one function, `startDevice()` (`components/devices/src/Device.hpp`), which starts every
other part and ends; from then on the device is its FreeRTOS tasks and their queues.

| Part | State it keeps | Operations | Talks to |
| --- | --- | --- | --- |
| Configuration reconciliation (`kernel/src/config`, `devices/src/ConfigUpdate.hpp`, `BootConfig.hpp`, `Device.hpp`) | NVS: the record `config-state` (confirmed slot, requested slot and its status, rejection) and two slots of envelopes. RAM: fingerprints held per function, device, network | boot: plan, load, commit or reject; UPDATE: filter, stage, apply live, commit or reject, restart | server (UPDATE in, SYNC and BOOT out), functions, firmware update |
| SYNC task (`SyncPublisher.hpp`) | one-element trigger queue, pending rejections | publish the manifest | MQTT connection events, UPDATE handler |
| Firmware update (`HttpUpdate.hpp`, `FirmwareRollback.hpp`, `FirmwareUpdateDecision.hpp`) | NVS keys `pending-update`, `update-failed`; OTA partitions | start, perform, detect rollback, confirm valid | UPDATE handler, `update` command, bootloader |
| MQTT driver (`mqtt/MqttDriver.hpp`) | event queue, subscriptions, held-back messages, ready state | connect, publish, subscribe, reconnect | client task, every publisher, network state |
| Network drivers (`WiFiDriver.hpp`, `cellular/*`, `BleDriver.hpp`) | event queues, ready states, AT command channel, sockets | connect, provision, send, receive | MQTT, HTTP update |
| Door, switches, watchdog (`Door.hpp`, `SwitchManager.hpp`, `Watchdog.hpp`) | target and last state, motor, update queue, debounced switch states | transitionTo, switch edges, timeout, shutdown | chicken door function, GPIO ISR, timer task |
| Valves (`Valve.hpp`, `ValveControlStrategy.hpp`) | state, motor | open, close, shutdown | plot controller |
| Switched rail, shared enable (`SwitchedRail.hpp`, `SharedEnable.hpp`) | sessions, batches, active count, activation count, settle deadline | acquire, release, power | sensors, motor drivers |
| Functions and schedulers (`functions/*`, `scheduling/*`) | configuration queue, scheduler state | tick, transition | doors, valves, sensors |
| Time (`RtcDriver.hpp`, `Connectivity.hpp`) | in-sync state, requests for NTP | setTime, sync, choose the link | SNTP, BLE, modem |
| Boards (`main.cpp`, `devices/*`, `I2CManager.hpp`, `PwmManager.hpp`, `Pin.hpp`) | pins, buses and their ports, channels, timers | recognise the board, register, create | every peripheral |
| Peripheral registry (`Manager.hpp`, `Peripheral.hpp`, `Function.hpp`, `FunctionConfigTracker.hpp`) | instances, stopped or not, what each function runs | create, shut down, configure | boot, battery, UPDATE handler |
| Telemetry (`TelemetryTask.hpp`, `FlowMeter.hpp`) | request queue, watchdog, volumes | request, collect, publish | functions, MQTT, watchdog |
| Crashes and boots (`CrashManager.hpp`, `CrashCounter.hpp`, `BootCounter.hpp`) | RTC memory that is not initialised, a count in NVS, the core dump | record a boot, report a crash | bootloader, BOOT message |
| Indicators (`KernelStatus.hpp`, `StateManager.hpp`, `LedDriver.hpp`, `BuzzerDriver.hpp`) | event group, pattern queue, stop timer | set, clear, buzz | all who set a state; the load rail |
| Sensors and their buses (`environment/*`, `serial/*`, `PulseCounter.cpp`, `DebouncedMeasurement.hpp`, `MovingAverage.hpp`) | bus sessions, shared values, counts in coprocessor memory | open a session, ask, read, count | rail, telemetry, schedulers |
| Battery (`BatteryManager.hpp`, `BatteryDriver.hpp`, `Bq27220Driver.hpp`, `ShutdownManager.hpp`) | averaged voltage, gauge setting | check, shut down, sleep | boot, registry, valves, doors |
| Configuration types, console, logging | see `PROJECT.json` | | |

What is hard about them, and what makes them correct:

- **Configuration reconciliation.** A configuration change is several NVS writes by two different
  tasks, over restarts and crashes. It is correct if what a crash brings back always is one whole
  set that came through its trial, a failed trial is reported and reverted, what the device tells
  the server is what it would come back with, and a trial ends.
- **Firmware update.** Two keys and two partitions change in several writes, next to the
  configuration record. It is correct if an update that was asked for is installed or rejected, is
  not tried for ever, and does not disturb a configuration on trial.
- **Switched rail.** Reference counts over two layers and two locks. It is correct if nobody uses
  a rail that is off or unsettled, or a device that lost its settings.
- **Door and switches.** An ISR, a timer, an MQTT task and a loop around one queue. It is correct
  if the motor never runs without its watchdog, the last request wins, and the door knows its ends.
- **MQTT driver.** A client that connects by itself, calls back from its own task and is stopped
  and started by another. It is correct if messages keep their order, every session gets every
  subscription, and a client that was stopped is started again.
- **Network and time.** Late events of a stopped station, a bounded queue, callbacks of two
  drivers for each other. They are correct if the ready state follows the link, a client is always
  answered, and the clock is believed when it may be and not before.
- **Modem.** Late answers, a UART that both sides put to sleep, restarts that nobody announces. It
  is correct if a command gets its own answer, a ring is answered, and a connection is never
  another's.
- **Functions.** Deadlines, delays and overrides over a peripheral that takes its time. They are
  correct if the peripheral is where the schedules want it, a pulse of water ends, and each litre
  is counted once.
- **Device.** What is configured is made, powered, measured, reported and shut down once, whatever
  resets, wraps and late answers come in between.

## 2. Modules, runs and what is left

| Modules | About | Section |
| --- | --- | --- |
| `ConfigState`, `ConfigReconciliation`, `AtomicConfig`, `MCConfigReconciliation`, `ConfigReconciliationProofs` | configuration | 3 |
| `FirmwareUpdate` (over `ConfigState`), `FirmwareUpdateProofs` | firmware | 4 |
| `SwitchedRail`, `SwitchedRailProofs` | rail and shared enable | 5 |
| `Door`, `DoorProofs` | door | 6 |
| `MqttDriver`, `MqttDriverProofs` | MQTT | 7 |
| `WiFiDriver`, `BleDriver`, `RtcDriver`, `CellularDriver`, composed by `Connectivity`; `NetworkProofs` | network and time | 8 |
| `AtChannel`, `ModemUartPower`, `Nrf9151Sockets`, `RrcTime`, composed by `CellularModem`; `NetworkProofs` | modem | 9 |
| `Schedules`, `MoistureScheduler`, `FunctionLoop`, `FlowMeter`, `PlotController`, `ChickenDoor`, `Valve`, composed by `DeviceFunctions`; `DeviceFunctionsProofs` | functions | 10 |
| `Boards`, `Registry`, `Boots`, `Indicators`, `PulseCounter`, `SerialLinks`, `SoilProbes`, `BitbangI2C`, `SpadefootToad`, `Readings`, `Battery`, composed by `Platform`; `PlatformProofs` | device | 11 |

| Run | Config of | Distinct states | Expectation |
| --- | --- | --- | --- |
| `patient` | `MCConfigReconciliation` | 946,029 | pass |
| `redelivery` | `MCConfigReconciliation` | | violation of `AnnouncedIsDurable` |
| `eager` | `MCConfigReconciliation` | | violation of `ConfirmedBoots` |
| `firmware` | `FirmwareUpdate` | 93,261 | pass |
| `firmware_combined` | `FirmwareUpdate` | | violation of `UpgradeFindsNoRequest` |
| `switched_rail` | `SwitchedRail` | 125,459 | pass |
| `door` | `Door` | 305,304 | pass |
| `mqtt` | `MqttDriver` | 1,027,304 | pass |
| `network` | `Connectivity` | 177,302 | pass |
| `modem` | `CellularModem` | 175,275 | pass |
| `functions` | `DeviceFunctions` | 825,979 | pass |
| `platform` | `Platform` | 1,417,260 | pass |

Every property of a passing run has a seeded fault in `PROJECT.json`: a form of one definition
that a plausible bug would give it, under which TLC finds the property violated. Properties that
belong together are conjunctions of named parts; the sections below name the parts.

Three of the composing modules (`CellularModem`, `DeviceFunctions`, `Platform`) hold parts that
share no state: a variable chosen at the start says which part acts, so that the states add up and
do not multiply. `Connectivity` composes drivers that do call each other.

What would be worth adding: `Valve` over `SwitchedRail`, and the parts of the network drivers and of
the AT lines that section 14 leaves out.

## 3. Configuration reconciliation

### Modules

- `ConfigState` is the persisted record and its pure functions: `decideBootPlan` and
  `recordStrictBootOutcome` (`ConfigBootPlan.hpp`), `stageDeviceUpdate` (`ConfigStaging.hpp`).
  Absent optionals are a `"none"` member.
- `ConfigReconciliation` is `startDevice()`, the UPDATE handler and the SYNC task around that
  record. `configState` and `slots` are NVS and survive; everything else is RAM and is reset by
  `PowerCycle`. One action makes at most one NVS write, so that `Crash` can fall between any two.
- `AtomicConfig` is what it promises: one set, at most one more on trial, and a change between
  them in one step. `ConfigReconciliation!Atomic` is the refinement mapping.
- `MCConfigReconciliation` holds the values of the constants, `ConfigReconciliationProofs` the
  proofs.

| Action | Code |
| --- | --- |
| `LoadDeviceBootConfig`, `AbortBoot` | `loadDeviceBootConfig()`, `loadNetworkConfig()`, `abortBoot()` |
| `InitDeviceRuntime` | `initDeviceRuntime()`, then `registerUpdateHandler()` |
| `RecordBootOutcome`, `FinishBoot` | the rest of `startDevice()` |
| `ReceiveUpdate`, `StageUpdate`, `WriteEntry`, `SavePending`, `SaveAttempted`, `ApplyLive`, `CommitLive`, `RejectLive` | `applyConfigUpdate()` and the handler around it, for each task that handles an UPDATE |
| `Connected`, `TakeSyncTrigger`, `PublishSync` | the connection listener and the SYNC task |
| `Restart`, `Crash` | `delayedRestart()` after its 5 s; a panic or power loss |

An envelope is its fingerprint: the server stamps equal fingerprints on equal bodies only, and
whether a body applies depends on the body (`Faulty`). Functions in `Fragile` may also fail to
start because of their hardware.

### Runs

| Run | What it asks |
| --- | --- |
| `patient` | everything the reconciliation promises, with a server that waits for the outcome of an UPDATE, good and bad bodies for two functions, the device and the network, a function whose hardware may fail to start at any boot, and a crash anywhere |
| `redelivery` | QoS 1 delivers the last UPDATE a second time, and two handler tasks interleave, without crashes, failures or faulty bodies |
| `eager` | an UPDATE between the subscription and the strict boot's commit |

Properties: `RevertTargetKept` (the slot on trial is not the one to fall back to, in every copy of
the record). `SetsSound`: confirmed means it applies (`ConfirmedSound`), and what SYNC told the
server is what a power loss would bring back (`AnnouncedIsDurable`); the first says nothing of the
functions that may not start (`Fragile`), the second nothing of those that did not, see the
findings. `HistoryKept`: no write to the confirmed slot (`ConfirmedSlotUntouched`), no silent revert
(`RevertLeavesRejection`), no commit taken back (`CommitIsFinal`). `Settles`: a trial ends
(`TrialSettles`) and a live change is announced (`ChangeAnnounced`). `ImplementsAtomicConfig` is
the refinement.

With two handlers at once neither `SetsSound` nor `HistoryKept` holds, and `redelivery` shows it for
the first. `RevertTargetKept` does hold then, which is proved, and so does `ConfirmedSound` in that
run's instance with faulty bodies, and with a crash.

The bounds: three fingerprints are an old, a new and a faulty body per name (the device bodies
differ in the functions they list); two functions make a live apply that fails in the middle, and
a duplicate that comes between the two; one crash per behaviour meets every pair of NVS writes;
two handlers are all that a duplicate needs. `Updates` leaves out combinations of bodies that
exercise nothing of their own. Everything that would grow without bound is bounded by `MaxCrashes`
and `Handlers`. The runs set `CHECK_DEADLOCK FALSE`: a device that is up to date waits for the
world, and `AbortBoot` on a confirmed slot is a loop, not a stop.

### Fairness

`FairSpec` is weakly fair to each task (FreeRTOS schedules every ready task), and to `Restart`
(`delayedRestart()` ends after 5 s). Nothing is assumed of the server, the connection or the power
supply, so the liveness properties are about what the device does by itself.

### Findings

- The second handler of a duplicated UPDATE can save the record it read before
  the first one committed. `ConfigUpdate.hpp:181` calls the duplicate harmless because matching
  fingerprints are filtered out; they match only after the apply. `CommitIsFinal`, in the place of `AnnouncedIsDurable`
  in `redelivery`, is violated.
- `redelivery`: where they do match, the duplicate leaves the function out, and carries its old
  entry from the confirmed slot into the free slot (`ConfigUpdate.hpp:90-92`), which the first
  handler is about to commit. The device announces the new body and comes back with the old one.
- `eager`: `UPDATE` is subscribed at `Device.hpp:269`, the strict boot commits at line 280 from the
  record it read at its start. An UPDATE in between is staged into the slot that is about to be
  confirmed.
- Staging never removes entries. A network body that was rejected stays in the free
  slot, and a later functions-only UPDATE commits the slot with it, if the device has no network
  configuration to carry over. No later boot can load it: `ConfirmedBoots` is violated with the reboot
  names device and network, `MCFresh` and a patient server.
- What is carried over to the free slot is what the manifest has, and a function whose
  hardware did not start is not in it. An older, rejected body of it is confirmed with the next
  UPDATE: `ConfirmedApplies` is violated with a patient server and `f`, which gets the faulty bodies,
  in `Fragile`.

### Proofs

For every value of the constants (any names, bodies, factory settings, functions that may not
start, number of handlers, server and crashes):

- `TypeCorrect`: `Spec => []TypeOK`. `TypeOK` is inductive; the proof has a step per action over
  lemmas on what each pure function of `ConfigState` returns.
- `RevertTargetAlwaysKept`: `Spec => []RevertTargetKept`. The inductive invariant `RevertInv` adds
  to `TypeOK` that the slot a job or a boot is about to mark belongs to the free slot of the record
  it will save. It holds for every server, which is why the races found above can confirm the
  wrong slot but never leave the device with a trial of its own fallback.

What the device promises of whole sets does not hold for every order of UPDATEs, as the runs show.
It is proved under two conditions, each named in the theorem, and for every value of the constants
otherwise:

| Theorem | Condition |
| --- | --- |
| `HistoryIsKept`: `HistoryKept` | `UpdatesTakeTurns` |
| `SetsAreSound`: `[]SetsSound` | `UpdatesTakeTurns`, `NetworkProvisioned` |
| `ReconciliationIsAtomic`: `ImplementsAtomicConfig` | `UpdatesTakeTurns`, `NetworkProvisioned` |

- `UpdatesTakeTurns` is a condition on behaviours: one UPDATE is handled at a time, in a device that
  is up. It says nothing of the server. `PatientServerTakesTurns` proves that a server that waits
  for the outcome is enough for it, a redelivery after the outcome included; for a redelivery that
  overlaps the first the theorems are false (`redelivery`), and so they are for an UPDATE during a boot (`eager`).
- `NetworkProvisioned` is about the factory's set: it has a network configuration that parses, if
  there is one to reconcile. Without it the finding on the network's body is a counterexample.

Functions that fail to start, reboots into a new network, and crashes are all within the theorems.

None of the three is inductive: that a commit is sound depends on what was staged, on what the boot
or the live apply went through, and on nobody having saved a record in between. Two invariants say
it step by step. `RecordInv` is about the record and the order of things: who is at work follows the
record (`BootFollowsRecord`, `JobFollowsRecord`) and nothing is on trial between trials
(`NothingOnTrial`); it needs only that UPDATEs take turns, and carries `HistoryIsKept`. `SetInv` is
about what the slots hold: what the boot and the handler hold is what the slots say, what is held is
what is confirmed, up to what the handler has applied so far and to functions that did not start,
and what was announced is held. TLC checked both before they were proved. There is one lemma per
action; `FullInv` joins the two with `RevertInv`. The refinement has a lemma per step of
`AtomicConfig`: a strict boot's outcome and a live commit or rejection are its steps, every other
action is a stutter, which for `WriteEntry` is because the slot it writes is not the confirmed one
and not on trial. `Settles` is liveness and only model-checked.

## 4. Firmware update

### Module

`FirmwareUpdate` extends `ConfigState`: the same boots and the same UPDATEs change the
configuration record and the two keys of `HttpUpdater`. It has the record, `pending-update` and
`update-failed` (NVS), the two OTA partitions with their states (flash), `startDevice()` as one
main task, the UPDATE handler, the `update` command, and the SYNC task. A staged configuration is
whether it applies; the detail of the slots is in `ConfigReconciliation`. One action makes at most
one write, and `Crash` can fall between any two.

| Actions | Code |
| --- | --- |
| `Bootloader`, `BrokenImageCrash` | the bootloader with app rollback; an image that never gets to `kernelReady` |
| the other steps of `MainTask` | `startDevice()`: the boot plan, a trial that aborts the boot, the pending update with its download loop (`TakePendingUpdate` to `ClearMarker`), `detectAndClearRollback`, the strict outcome, `confirmFirmwareValid` |
| `BreakOff` (`BrokenOffAt`) | a download that breaks off: before it wrote anything, or anywhere, also behind where it was, as a host that ignores Range starts over |
| `ReceiveUpdate`, `ApplyConfig`, `EndUpdate` | the UPDATE handler as far as it stages, requests or refuses firmware; `startUpdate()` |
| `UpdateCommand`, `Restart`, `Crash` | `MqttCommands.hpp`; `delayedRestart()`; a panic or power loss |
| `ReadRejection`, `PublishSync` | `SyncPublisher.hpp` |

### Runs

`firmware`: whatever is downloaded, broken off or rolled back, a bootable image stays
(`FallbackKept`) and no update is tried twice (`TriedOnce`, both in `UpdatesSafe`); the server
hears of a failure (`SyncExplains`); the device comes up (`ComesUp`) and takes up what it accepted
(`UpdateTried`, both in `UpdatesEnd`). `ComesUp` excepts a download that starts over again and again
(`StartsOver`): `DownloadEnds` is violated under `FairSpec`, with one ask and no crash.
`firmware_combined`: an UPDATE with a device configuration and firmware.

The bounds: two images that boot and one that does not are an upgrade, a downgrade and a rollback;
an image of two pieces can break off before, between and after progress; two asks let a second
update meet what the first one left; one crash meets every pair of writes. `Images`, `ImageSize`,
`MaxAsks`, `MaxCommands`, `MaxConfigs`, `MaxCrashes` are constants.

Fairness is weak, per task, and for the crash of a broken image, which is what makes it broken.
MQTT need not connect: `PublishSync` may happen at any time in a device that is up, or never.

`SyncExplains` does not hold without exceptions, and the definition `Forgets` names them: a reset
between the removal of `pending-update` and the marker of the attempt, and a reset while the
rejection waits in RAM to be sent or is being sent. They are listed as hazards.

The findings. An attempt has got further if it ends behind the place where the last one ended
(`HttpUpdate.hpp:236`): from a host that ignores Range, a download that breaks off early and late in
turn is never given up. And the handler asks whether a request is outstanding before it stages the configurations
of the same UPDATE, so that an UPDATE with both halves gets past the check. The first boot of the
new image then finds a request attempted, which the migration of configurations relies on not
happening.

Not covered: the HTTP client itself and how the ESP-IDF verifies an image.

### Proofs

`FirmwareUpdateProofs` proves `TypeCorrect` (`Spec => []TypeOK`), `UpdatesAreSafe`
(`Spec => []UpdatesSafe`) and `FailuresAreExplained` (`Spec => SyncExplains`) for any images, sizes,
hosts and bounds. The inductive invariant `FInv` has a part for each question:

- `AskedOnce`: a request is in the handler, in NVS, or counted as tried, never in two places, which
  is why the order "remove the key, then try" makes `TriedOnce` true across resets.
- `PartitionsInv`: an image that is not verified is selected only beside a verified one that boots,
  and from the boot of a `new` image on it is `pendingVerify`, which is what keeps `esp_ota_begin()`
  from erasing the other partition. `FallbackKept` follows; alone it is not inductive.
- `StepsInv`: an attempt under way has its address and its marker; only a device that is up syncs.
- `WantedInv`: where the update that the server waits for is, phase by phase: in NVS, marked,
  downloaded, running, rolled back, or about to be reported as rejected. Its last conjunct is
  `SyncExplains` before the SYNC. It holds because each write that ends one of these comes after the
  one that begins the next, but for the two exceptions that `Forgets` names.
- `StagingCounted` bounds a counter. `UpdatesEnd` is liveness and only model-checked.

## 5. Switched rail

### Module

`SwitchedRail` is two layers. `SharedEnable` counts the handles that were acquired and drives the
output; `SwitchedRail` counts sessions and batches under one mutex and acquires its handle under
another; a `SwitchedDevice` remembers the activation in which it was set up. Rail tasks go through
`power()`, alone or in a batch; clients (a motor driver, the buzzer) use a handle of their own. One
action is one critical section or one atomic operation, in the order of the code: that a session
counts itself before the rail is on, and that a handle is marked before the output is on, are steps
of their own. Time is two steps: the output settles, a device starts up.

### Runs

`switched_rail`: two rail tasks and a client. `RailSound` says that sessions, devices and clients
are powered (`SessionPowered`, `DeviceSetUp`, `ClientPowered`) and that the output goes off
(`OffWhenUnused`); `KeptThroughBatch` that batches keep it; `PowerReturns` that `power()` returns.

Two rail tasks meet each other at every step, and the third, the client, keeps the output on
through their sessions or not; one device is enough for its settings to go stale, as devices do not
interact. `MaxUses` bounds sessions and uses together; six let each task come back to a rail that
the others turned off. Fairness is weak, per task and for the two delays. The run sets
`CHECK_DEADLOCK FALSE`: when all uses are spent every task is idle.

`OneTaskPerHandle` is what the boards do, except while a shutdown closes a valve that its function
opens. Without it, with two clients on one handle, TLC finds `ClientPowered` violated, which is
the finding: the second `acquire()` finds the handle marked and the output not on yet, has nothing
to wait for, and returns.

### Proofs

`SwitchedRailProofs` proves every invariant of the run and `KeptThroughBatch` for any finite sets
of tasks, clients, devices and handles under `OneTaskPerHandle`. The invariants are not inductive:
that a release leaves the output on because someone else is counted is a statement about the
counters. `IInv` therefore ties each counter to the set it counts - `sessions` is the cardinality
of the tasks in a session, `batches` of those in a batch, `activeCount` of the handles that have
counted themselves (`Holders`; the rail's handle is one of them between its two critical sections)
- each lock to the step its owner is at (`LocksInv`), and the rail's handle to the sessions and
batches (`HeldInv`: it is marked from the first session's turn until the last session and batch
have ended). `HolderEnters` and `HolderLeaves` are what one handle more or less does to the output.
`SetUpInv` says that the settings of a device set up in this activation are still there. From
`Invariant` follow `TypeCorrect`, `SessionsArePowered`, `DevicesAreSetUp`, `ClientsArePowered`,
`UnusedIsOff`, their conjunction `RailIsSound`, and `BatchesKeepTheRail`. `PowerReturns` is liveness and only model-checked.

## 6. Door

### Module

The first part of `Door` is the interrupt handler of debounced switches (`SwitchManager.hpp`) and
the queue of one element between it and its task. The rest is the door:

| Action | Code |
| --- | --- |
| `Decide`, `NoteState`, `TakeSwitchEvent`, `TakeConfigure`, `Configure`, `TakeStop` | `Door::runLoop()` with the motor controller and the watchdog |
| `enqueueSwitchEvent`, `handleWatchdogEvent`, `Shutdown` | the three that put something in the update queue from other tasks |
| `Fire` | the ESP timer of `Watchdog`: it is over before its callback runs |
| `TakeConfiguration`, `DeadlinePassed`, `transitionTo`, `PutRequest` | `runScheduledTransitionLoop()` and `Door::transitionTo()` |
| `Move`, `LoseContact` | the door and its switches, external; the door need not move |

`stateMutex` is held over a step only by a `transitionTo()` that waits for room in the queue; taken
and released within a step elsewhere, it hides nothing from the other tasks. `sleepLock` is written
by two tasks with no lock; each write is taken to be atomic. Time is left out: any edge may come
within the debounce time of the last one and be dropped, and the watchdog may run out at any time.
A deadline of the schedule, which is minutes away, comes only when the run loop is done with what
was queued; a new configuration comes at any time.

### Runs

`door` has an update queue of 2, which is full again and again: a running motor is watched
(`MotorWatched`) and a door at rest lets the device sleep (`SleepsAtRest`, both in `DoorSafe`); a
lost contact does not move a door (`StaysPut`); a motor stops in the end (`MotorStops`) and the
last request wins (`RequestWins`, both in `DoorLive`).

`MaxEvents` bounds together what comes from outside: changes of mind, lost contacts, a shutdown.
Three of them, after the first request, are the requests that make `transitionTo()` drop one, a
lost contact around a new request, and a queue full of edges. A door of three positions has both
ends and a place where neither switch engages. `CHECK_DEADLOCK FALSE`: a door that is where it
should be waits.

Fairness is weak, per task, and a timer that is not stopped runs out; nothing is assumed of the
door's movement or of its switches.

### Findings

- `transitionTo()` waits for room with `stateMutex` held, and the run loop, which would make room,
  waits for `stateMutex`. `DoorLive` holds up to this state (`WaitForEachOther`), which it names;
  without the exception TLC finds a motor that runs on. The queue of the code has 8 elements, so
  that it takes more edges within one move: the code's margin is the queue's size, not its locking.
- `Door.md` says that a door whose watchdog timed out ignores every further request. The requests
  are queued, nobody takes them, and the one that finds the queue full blocks the function's task,
  telemetry and the function's configuration for good.

What the model also shows, where nothing in the code or its documentation promises otherwise: a
timeout queued behind the end switch's event ends the operation of a door at its target
(`Door.hpp:341`); a door whose target changes back before its disengaged switch was reported is
taken to be still at its end (`Door.hpp:362-366`); a stale report of the other switch starts the
motor of a door at its end, which is why `StaysPut` is about the reports.

### Proofs

`DoorProofs` proves `TypeOK`, `MotorWatched`, `SleepsAtRest`, and `StaysPut` for any queue size,
distance and number of events. The inductive invariant `DInv` adds `WatchdogInv` to the first two:
only a running motor is watched, and the sleep lock is held only by a watchdog that counts or has
not reported yet. `TimeoutStays` is the lemma on the queue: only `TakeStop` removes a timeout.
`DoorIsSafe` is their conjunction. `MotorStops` and `RequestWins` are liveness and only
model-checked.

## 7. MQTT driver

`MqttDriver` is the event loop (`runEventLoop()`, one action per event it handles and per state it
is in), the tasks that publish and subscribe, and the task of the esp-mqtt client. A callback of
the client is two steps, as in the code: it changes the ready state (`ClientConnects`,
`ClientDisconnects`), then offers an event, which waits for room for a while and may be lost
(`OfferEvent`). The outbox, the broker and the network are external.

- `MessagesKept`: no message overtakes another, whether it waits in the queue, is held back, or
  can be handed over at once (`OrderKept`); what is held back is what was counted and can be sent
  one day (`HeldBackFits`).
- `SubscribedAgain`: a driver with nothing left to do in a session has subscribed to every topic
  in it. `excused` is a history variable that names the two exceptions: the client refused a
  SUBSCRIBE, or it, or an event, was lost.
- `Retries`: a client that is stopped is started again, unless the driver takes itself to be
  connected, which is a finding.

Bounds: an outbox of one message and a held-back limit of one, with payloads of up to two, are
full and too small at once; a queue of two blocks the client's task and the publishers; two
connections are one that breaks and one that has to restore what it had. Fairness is weak for the
loop and the callbacks and strong for `Connect`, which needs the network: the network is assumed
to be ready again and again.

### Proofs

`MqttDriverProofs` proves `TypeCorrect`, `MessagesAreKept` (`Spec => []MessagesKept`) and
`SubscriptionsAreMadeAgain` (`Spec => []SubscribedAgain`) for any topics, batch and queue sizes,
limits, and numbers of messages and connections.

- `TInv` is `TypeOK` and `HeldBackFits`: that the count of held-back bytes stays between 0 and its
  limit is true only because it is the count of what is held back. `Bytes` is the cardinality of a
  set with an element for each byte, not a sum over the sequence, so that one element more
  (`BytesAppend`) or less (`BytesTail`) is a fact about sets and needs no induction.
- `OrderInv` takes `OrderKept` apart: the messages of the outbox, of the held-back queue and of the
  event queue are each in order, each of these is older than the next, and all of them have been
  published. `Thins` is the lemma for what leaves a queue, `AppendOrder` for what enters one. A
  message may go past the held-back queue only when that is empty, which is where the proof needs
  the test of `processOutgoingMessage`.
- `SubscribedInv` extends `SubscribedAgain` from a settled driver to any that has taken note of
  its session (`ConnectedPending` does not hold), whatever is still queued: events of an earlier
  session, topics asked for since.

`Retries` is liveness and only model-checked.

## 8. Network and time

| Module | Actions and code |
| --- | --- |
| `WiFiDriver` | the loop of `WiFiDriver.hpp` (`Check`, `WiFiLoop`), the stack's event handlers (`onEvent`), credentials, scans, disabling, shutdown |
| `BleDriver` | advertising bursts, the client's connection, what it reads and writes |
| `RtcDriver` | SNTP, `setTime()`, and the task that waits to believe the clock; it declares the states (`ModuleStates`) that the drivers share |
| `CellularDriver` | registration polls, `+CEREG` and `%XTIME` lines, the address, NTP |
| `Connectivity` | `initConnectivity()`: which link, who talks to whom |

A Bluetooth connection may fail to be made, after which the driver advertises again (`GapConnect`),
and the query for the modem's address may come to nothing (`queryIpAddressFails`), after which it is
asked for again with the next poll.

`esp_wifi_stop()` returns before its events are delivered, and an event may be handled when the
next attempt has begun; the model's stack keeps its events in order and delivers them late.

- `NetworkFollowsLink`: a link that stays up ends in a ready network, one that stays down in one
  that is not. `LinkUp` says what a link needs, among it that no event was lost to the bounded
  queue; `Overtaken` is the finding's cycle, in which each attempt's late event stops the next.
- `BleServes`: a scan that was asked for is answered (`ScanAnswered`), and bursts follow each
  other (`AdvertisesAgain`), up to a failed start, which is a finding.
- `InSyncOnPlausibleTime`: the device is in sync only after it has seen a plausible time, and gets
  there when the network stays (`TimeArrives`, with `NetworkFollowsLink` in `LinkServes`).

Bounds: three elements of the queue are one more than one command causes events; one trouble (a
lost access point, a failed provisioning), two requests and three changes of the registration let
each of them come while another is being handled. `part` is what is looked at, as the clock does
not change what the link does. Fairness is weak, per task; the stack and the modem do what they
were asked to.

### Proofs

`NetworkProofs` proves `ConnectivityTypeCorrect` (`ConnectivitySpec => []ConnectivityTypeOK`) and
`ClockNeverTooEarly` (`ConnectivitySpec => []InSyncOnPlausibleTime`) for any size of the event queue
and any number of requests, troubles, changes of the registration and syncs, from the types of the
constants (`WiFiAssumption`, `BleAssumption`, `CellularAssumption`).

`ConnectivityInv` has a part per driver. Most of it is types, which is where the work is: that the
bounded queue never exceeds its size goes through every place that posts to it, and that the stack's
pending events are events goes through the station's whole life (`WiFiTyped`). `ClockInv` adds what
`InSyncOnPlausibleTime` alone does not carry: a clock that shows a plausible time has been seen to,
whoever set it, so that the sync task, which looks only when it wakes up, may believe it. What the
drivers promise of the link (`LinkServes`, `BleServes`) is liveness and only model-checked.

## 9. Modem

- `AtChannel`: one command at a time, results that come after their command timed out, commands
  sent in part, restarts. `OwnAnswer` is that a command is never given another's lines, and
  `NothingOwedInVain` that the channel does not wait for answers that cannot come. `SlowModem` is
  the assumption: unless it is set, as in the run, what the modem is going to answer it answers
  before the channel stops expecting it: in the 15 s of `settle()`, in the 100 ms after the CR that
  ends a command sent in part, and before `Nrf9151Driver` discards the input to probe, to switch the
  rate or to reset the modem (`discardInput` between two commands). A modem that is later than that
  is hazard `AtChannel.hpp:226`: its result ends the next command. The CR itself may not go out.
- `ModemUartPower`: the users of the UART, the power task, the ring indicator's interrupt, and a
  modem that turns its UART off and on. `UsedUartIsOn`, `RingAnswered`, `UartSleeps`.
- `Nrf9151Sockets`: transports and NTP over sockets whose handles the modem reuses, a driver that
  resets a modem that does not answer and sets it up again, and a modem that restarts or hangs.
  `OwnConnection`, `NoneLeft`, `GoneNoticed`, `SetUpInTheEnd` (up to the finding's exception).
  `unclosed` is what `NoneLeft` excepts: a socket was given up while the modem did not answer. That
  is so when it was told to close one, and also when every socket is dropped because nothing
  answers and the modem may not be reset yet (`resetIfUnresponsive()`), although a modem that was
  only busy has them still: the comment of `dropAllSockets()` does not know of this case.
- `RrcTime`: how long the radio was connected, from lines that may be lost and polls. `RrcCounted`.

`ModemSound` and `ModemServes` are the conjunctions, by part. Bounds: three commands let a late
answer meet the command after the next; two users, an event queue of two (four in the code) and two
rings fill the power task's queue; two handles and one transport next to NTP let a handle be given to another;
two unanswered commands reset the modem. Fairness: tasks run, timers run out, and who waits for
the command mutex gets it (strong: the mutex is free again and again).

### Proofs

`NetworkProofs` proves `ModemTypeOK`, `ModemSound` and `UsedUartIsOn` for any users,
transports, handles, sizes of the queue and bounds, whether or not the modem is slow. Each part has
an inductive invariant of its own, which TLC checked on each part before it was proved; the
others rest while it takes a step (`ModemKept`).

- `ChannelInv`: what is `Outstanding` (commands the modem has yet to answer and results on the
  wire) is counted against what is `owed`: not more, so that no command is sent while an answer to
  another can come, and not less, so that none is waited for in vain. Results on the wire are a set
  of positions, and what a line more (`FinalsAppend`) or less (`FinalsTail`) does to its
  cardinality is a lemma. An information line has its result behind it (`Paired`), which is why
  discarding input cannot leave half an answer. `OwnInv` says that all that is said while a command
  is in flight is about it, unless `SlowModem`.
- `PowerInv`: a UART that is idle with nobody using it has its modem on and no ring queued,
  signalled or to come, and while the modem turns its UART off nobody is on the way to it. That
  needs a queue of any size to be free of rings that were dealt with already, which `GetIdle`
  states: with a queue of more than one event its guard had left that out.
- `SocketInv`: whose a socket is and who holds the new handle (`HolderInv`); a modem whose `Ready`
  is on its way has nothing open and is at the default rate, and one known to have restarted gets
  no new socket at the wrong rate (`RestartInv`); a handle names its own connection or none
  (`SameSocket`), and none only if the modem restarted without the driver knowing or the
  transport that holds the mutex is about to find out (`StaleIsLost`). The last is what keeps a
  close from hitting another's connection, and a new socket from getting a handle that an old one
  still names. `LeftInv` adds to `NoneLeft` what a modem at the wrong rate has open. `StepCases`
  reduces the steps to nine kinds (`GoOn`, `IsOpened`, `GoUnanswered`, ...), over which the three
  proofs go. That there is a fresh id is a count (`FreshIdIsFree`).
- `RrcInv`: the stretch that is running starts before what was counted of it ends, and what would
  be reported is what was believed.

`ModemServes` is model-checked only, but for its part `UsedUartIsOn`.

## 10. Functions

| Module | Code |
| --- | --- |
| `Schedules` | `OverrideScheduler`, `TimeBasedScheduler`, `LightSensorScheduler`, `DelayScheduler`, `CompositeScheduler`, as operators |
| `MoistureScheduler` | the state machine of `MoistureBasedScheduler` |
| `FunctionLoop` | `runScheduledTransitionLoop()` |
| `PlotController`, `ChickenDoor` | the two functions over the loop, with their configurations |
| `FlowMeter` | pulses, volume, and the two that read and reset it |
| `Valve` | the control strategies over a bridge, its timers, shutdown and deep sleep |

Time passes in units while the loop sleeps or its peripheral moves. `AsScheduled` compares what
the loop did with what schedules mean: `Demanded` is their own definition, over offsets and
periods, not the scheduler's minimum of deadlines; for the door, no pending transition is overdue.
`WaterSound`: a pulse ends in time (`PulseBounded`), each unit of water is published once and
credited at most once (`Conserved`), and a valve is where it says it is (`ValveKnown`).
`LightHasItsWay`: light that stays moves the door.

The type of a schedule has periods of one and more. The code takes a period of 0 from the server and
divides by it (`TimeBasedScheduler.hpp:67`), which is undefined; the model leaves it out.

The soil model and its Kalman filter are floating-point; a plan is any volume within the limits,
and a slope one of three classes. Exceptions that findings explain: `pulse.sound` (no invalid
sample during the pulse), and devices that are shutting down. Bounds: schedules that begin later,
overlap, and both; delays (`MaxDelay`) that are longer than the time it takes to change one's mind,
and none; overrides (`Overrides`) that are over at once or last two units; two configurations after
the first; two crashes.

### Proofs

`DeviceFunctionsProofs` proves `FunctionTypesCorrect` (`FunctionSpec => []FunctionTypeOK`),
`FunctionsAreOnSchedule` (`FunctionSpec => []AsScheduled`) and `WaterIsSound`
(`FunctionSpec => []WaterSound`) for any configurations, lists of schedules of any length,
overrides, delays, amounts of water and numbers of crashes. The assumptions are the types of the
constants and two more, in `PlotAssumption`:

| Assumption | Why |
| --- | --- |
| a transition is shorter than the timeout of a pulse (`MaxLag < ValveTimeout`) | milliseconds against minutes; a longer one alone makes `PulseBounded` false, as nobody looks at the pulse while the valve moves |
| a schedule's clock is below two periods, and a transition no longer than a period (`Bounded`) | the model's own: its clock goes back by a period once it has run through two, and must not lose a start that the transition reaches back to |

`AsScheduled` is about a loop that sleeps, and says nothing of when it will wake up, so it is not
inductive. `FunctionInv` states what the deadline of the last tick promises, at every time until
the next one:

- `OverrideObeyed`: the loop wakes up no later than the override ends.
- `SchedulesObeyed`: what the schedules ask for now they ask for until the deadline (`Stays`): an
  open valve has one schedule that does not close before it, a closed one none that opens before it.
  `PulseObeyed` and `PulseFollowed` are the same for a pulse of water and its timeout.
- `DelayInv`: what a pending transition has waited for and the rest of the loop's wait together do
  not exceed its delay.
- `MeterInv` adds to `Conserved` that a pulse was delivered no more than what was credited;
  `ValveInv`, that until a shutdown the function's step determines position and bridge
  (`StepKnown`), and that a pulse under way has a timer of its own (`TimersFit`).

Each allows for `lag`, what the last transition took. Two arguments carry the proof of
`SchedulesObeyed`. A tick folds `OneSchedule` over the list, and `SchedulesSay` is what the fold
has found after any number of schedules (`Finds`); since an induction theorem cannot be applied to
an operator here, it is shown by its least counterexample (`AllNumbers`, from the well-founded
order of the naturals). A unit of time later, `ScheduleLater` says for one schedule, modulo its
period, that what is left until it changes is one less. TLC checked `FunctionInv` on the run's
instance. `LightHasItsWay` is liveness and only model-checked.

## 11. The device

`Platform` composes parts that share no state; the first five are what a device starts with, the
rest what it measures.

| Module | What acts | What is stated |
| --- | --- | --- |
| `Boards` | each board that was made, recognised by what `main.cpp` knows; its pins, ports, channels; configured I2C sensors | `RightBoard`, `OnBoardApart`, `BusesServed` |
| `Registry` | the main task making peripherals and functions, the shutdown, live configurations; the telemetry task and its watchdog | `InitReported`, `ShutdownWhole`, `ManifestProven`, `RequestKept`, `WatchdogQuiet`, `Publishes` |
| `Boots` | up to four boots with crashes, power losses, updates and rollbacks between any two steps | `CrashesCounted`, `BootsToldApart`, `RightlyBlamed` |
| `Indicators` | states that are set and cleared, the status task, the LED; the buzzer and a motor on one rail | `LedFollows`, `OutputsSound`, `BuzzEnds` |
| `PulseCounter` | a coprocessor that polls and wraps, an interrupt, light sleep, resets | `UlpExact`, `GpioExact` |
| `SerialLinks`, `SoilProbes` | sessions on RS485 and on the Mole Cricket, Modbus and ASCII probes, late answers, noise | `OwnAnswers`, `NotBackPowered`, `BridgeAtRest` |
| `BitbangI2C` | a master's operations on two lines, and a slave that stretches the clock | `BytesExact` |
| `SpadefootToad` | measurements and calibrations in sessions of their own | `CalibrationWhole`, `MeasuredAnew` |
| `Readings` | two tasks that ask for a debounced value; a moving average | `Timely`, `AverageExact` |
| `Battery` | the check at boot, the averaged voltage, shutdown and sleep; the gauge's configuration mode | `LowOnAverage`, `LowSleeps`, `GaugeObeys` |

`HardwareSound`, `LifeSound`, `MeasuredSound` and `Responds` are the conjunctions. Each part of
them speaks while its own part acts (`subject`), and the parts that rest, rest in one state.

Bounds: counts wrap at 8 instead of 2^32, with ten pulses, so that each counter wraps; a byte has
two bits, which is one that is first and one that is last; four boots are a crash, the boot that
reports it, a rollback and the boot after; three configured sensors exceed the ports of every
board. Times are units in the order of the code's (a publication's interval is longer than the
debounce and shorter than the watchdog). Two handlers apply configurations at once: what the
manifest says of a function that two configured together (`overlapped`) may be of the other one's
body, as the tracker has no lock, and `ManifestProven` says nothing of it until one handler
configures it alone. The stable-uptime timer of a boot after a crash (`StayUp`) fires wherever the
boot is by then, and a core dump may fail to be erased, and is reported again then.

`publishInterval` and `watchdogTimeout` are settings of their own, and the code relates neither to
the other nor to the debounce. The models and the theorem take any values: an interval below the
debounce is never over (`Due`; the difference is unsigned). `WatchdogQuiet` speaks of the settings by
which a device publishes within the timeout (`WatchdogPatient`), as the defaults and those of
`Platform.cfg` do; with others the watchdog ends devices that work, and the code promises nothing.

Fairness: tasks run, time passes, timers fire.

### Proofs

`PlatformProofs` proves `PlatformTypeCorrect` (`PlatformSpec => []PlatformTypeOK`),
`HardwareIsSound`, `LifeIsSound` and `MeasuredIsSound` (the same of `HardwareSound`, `LifeSound`,
`MeasuredSound`) for every value of the constants: any number of configured sensors, boots, pulses,
resets, sessions, transactions, buzzes and readings, any width of a counter, bits of a byte (two or
more), window, interval, and tasks that read. `PlatformInv` is the conjunction of the parts'
invariants; as the parts share no state, a step of one keeps its own and the others rest. What each
part needs beyond its properties:

- `Boards`: `BoardsInv` follows `startDevice()` step by step (`Underway`). `BusesFit` says of any
  list of buses what `getBusFor()` makes it: each pair of pins once, with the port that its pins and
  its turn give it, on which `AppendFits` is the lemma for a bus more. That the external pins are
  refused only where others may take the ports is `BusFor`. What is said of the boards' tables
  themselves (no GPIO has two users, each pair's pins have one name) is `TablesAssumption`: it
  mentions no constant and no variable, so that TLC, which evaluates it on every run of
  `Platform` over all units, decides it completely. It is not proved because `tlapm` cannot
  expand the operators `:>` and `@@` that tables are written with.
- `Registry`: `Progress`, `Made`, `Recorded`, `ShutDown` and `Tracked` say what was made and what a
  shutdown has left, after each step of the main task; `PublishingInv` relates the watchdog's time
  to the step the telemetry task is at.
- `Boots`: how often each counter counted by each step of a boot (`Counts`, `Loop`), what the
  next boot will be told (`ToldOf`), and whose crash it is (`Blame`).
- `Indicators`: `StatusInv` and `OutputsInv`, who holds the rail at each step of a buzz.
- `PulseCounter`: `UlpInv`: fewer pulses are outstanding than half the width of the count, and the
  difference of the coprocessor's count and what was last seen of it, modulo the width, is what is
  outstanding, or no more than that once a reset has cleared the count. `GpioInv`: what was taken,
  what is counted and what is not yet seen are together no more than what fell.
- `SoilProbes`, `SerialLinks`: `ProbesInv`; what is owed on the wire, by session (`Owed`), whose
  session it is (`SessionHolds`) and that readings come from it (`ReadingsOwn`).
- `BitbangI2C`: the program the master has left to do is a sequence of operations on the two lines,
  and the slave only sees the lines. `BusPhase` pairs them: the slave listens, acknowledges, tells or
  waits exactly while what is left of the program is that part of a transaction, from the bit it is
  at. Every operation goes on to the next pair (`Onwards`, with `Sends` and `Reads` for what is left
  of a byte), whether the slave stretches the clock or not, which is why what arrives is what was
  sent (`Prefix`) and what is read is what was told.
- `Readings`: a value's age is bounded by the reader that may be at any step between its look at
  the clock and its answer (`DebounceInv`). A moving average keeps a ring buffer and a running sum:
  `RingOf` says that its slots are the last levels and its sum theirs. `SumOf` is a recursive
  function, about which induction is had from the well-founded order of the naturals (`Induction`).
- `SpadefootToad`, `Battery`: `ToadInv`, `BatteryInv`, `GaugeInv`, one for each step of a session.

TLC finds `PlatformInv` true of every subject under the constants of `Platform.cfg`. `Responds` is liveness and only model-checked.

What the models also show, where the code promises nothing: a crash loop that the 15-minute
watchdog causes is never counted, as each boot is stable after five minutes (`CrashCounter.hpp`); a
peripheral configured under a name already taken is silently not kept (`Manager.hpp`), which
`ShutdownWhole` excepts; peripherals are shut down while functions still use them, and no function
implements a shutdown; an SMT100's answer that is late by a whole session is taken for the next
one's while the rail stays on, which `OwnAnswers` excepts (`late`); the start and stop conditions
of `BitbangI2C.hpp` do not wait for a stretched clock.

## 12. Findings without a run of their own

`PROJECT.json` quotes each. Beyond those of the sections above: boards that no MAC range starts;
the telemetry watchdog does not look at publishing; whom a crash is blamed on; a boot count that
starts over after a failed read; a buzz that a due callback ends; failed battery readings that
count as -1 and shut the device down; a valve that a sensor's failure keeps open; delays that an
override suspends; a valve that a shutdown leaves open; water that telemetry takes from the
irrigation's count; a WiFi driver that stops its own attempts; advertising that does not start
again; a modem that is not set up again, sockets dropped that a busy modem still has, and data
dropped with a closed socket. What they say of
the model was seen with TLC where they say so: an exception of a property was left out, or an
invariant added, and the trace read.

## 13. What is proved

Eight modules hold theorems, under the named assumptions of the modules they are about:
`ConfigReconciliationProofs` (section 3), `FirmwareUpdateProofs` (section 4), `SwitchedRailProofs`
(section 5), `DoorProofs` (section 6), `MqttDriverProofs` (section 7), `NetworkProofs` (sections 8
and 9), `DeviceFunctionsProofs` (section 10) and `PlatformProofs` (section 11). They hold for every
value of the constants; three of section 3 have conditions that they name, one of them on the
order of UPDATEs. Every invariant and every action property of the passing runs is proved, and so is
the refinement of `AtomicConfig`, under those conditions.

Model-checked only: all liveness, which this prover does not reach (fairness needs `ENABLED`), and
the violations. What no constant changes is left to TLC, too: the tables of the boards
(`TablesAssumption`, section 11).

## 14. What is assumed throughout

NVS writes succeed and are atomic (the code only logs a failure); FreeRTOS schedules every ready
task; memory accesses of a step between two synchronisation points are seen as one. Formatting,
logging and telemetry contents are left out.

### Not modelled

- Typed configuration and the NVS codec: JSON and defaults, sequential and unit-tested.
- Console, debug console and logging: output only.
- Arithmetic: the Kalman filters, conversions of registers to units, check sums, parsers of AT
  lines. It is floating-point or formats, with native unit tests.
- GATT tables, eDRX and power-saving settings, the release of the RRC connection, the HTTP client,
  and how ESP-IDF verifies an image.
- Races on memory that no lock guards and no model needs: the list of commands in `MqttRoot.hpp`
  is read while another task may change it. Of the table of `FunctionConfigTracker.hpp` the order
  of configuring and recording is modelled (section 11), not a string read while it is written.
