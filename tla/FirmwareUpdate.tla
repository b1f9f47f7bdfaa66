--------------------------- MODULE FirmwareUpdate ---------------------------
(***************************************************************************)
(* How a device is given new firmware: the two NVS keys of HttpUpdater,    *)
(* the two OTA partitions and the bootloader's rollback, next to the       *)
(* configuration record that the same boots and the same UPDATEs change.   *)
(*                                                                         *)
(* Persisted: the record, the two keys and the partitions, one write per   *)
(* step.  ConfigReconciliation has the detail of the slots; here a staged  *)
(* configuration is whether it applies, and is written with the record     *)
(* that names it.  An image is its URL.  MQTT reconnects whenever it       *)
(* likes, and each time asks for a SYNC.                                   *)
(***************************************************************************)
EXTENDS ConfigState, Naturals

CONSTANTS
  Images,         \* what the server and the operator can ask for
  FactoryImage,   \* what partition app0 is flashed with
  Unbootable,     \* images that crash before kernelReady
  NoImage,
  ImageSize,      \* in the pieces that a download can break off between
  MaxAsks,        \* bound on the updates asked for
  MaxCommands,    \* bound on those that are "update" commands
  MaxConfigs,     \* bound on the device configurations staged
  MaxCrashes      \* bound on power losses and panics of a working image

MAX_ATTEMPTS_WITHOUT_PROGRESS == 3

Partitions == {"app0", "app1"}
OtaStates == {"erased", "new", "pendingVerify", "valid", "aborted"}
Other(p) == IF p = "app0" THEN "app1" ELSE "app0"

ASSUME ImagesAssumption ==
  /\ FactoryImage \in Images
  /\ NoImage \notin Images
  /\ Unbootable \subseteq Images \ {FactoryImage}
ASSUME SizeAssumption == ImageSize \in Nat \ {0}
ASSUME BoundsAssumption ==
  /\ MaxAsks \in Nat
  /\ MaxCommands \in Nat
  /\ MaxConfigs \in Nat
  /\ MaxCrashes \in Nat

VARIABLES
  configState,   \* NVS "config-state"
  trialApplies,  \* whether the bodies staged in the free slot apply
  pendingUpdate, \* NVS "pending-update"
  updateFailed,  \* NVS "update-failed" is there
  image,         \* what each partition holds
  otaState,      \* otadata: the state of each partition
  selected,      \* otadata: the partition that runs, or runs next
  phase,         \* where startDevice() is; "off" while the chip resets
  boot,          \* its snapshot of the record and of the boot plan
  download,      \* what is fetched, how much is in flash, attempts in vain
  firmwareRejection, \* pendingFirmwareRejection
  syncing,       \* the rejection that the SYNC task has read
  pc,            \* where the UPDATE handler is
  job,           \* its locals
  restarting,    \* a task that startUpdate() started is in delayedRestart()
  asked, tried, commands, configs, crashes, wanted   \* counted for the properties

nvs == <<configState, trialApplies, pendingUpdate, updateFailed>>
flash == <<image, otaState, selected>>
main == <<phase, boot, download>>
handler == <<pc, job, restarting>>
reports == <<firmwareRejection, syncing>>
counts == <<asked, tried, commands, configs, crashes, wanted>>
vars == <<nvs, flash, main, handler, reports, counts>>

Phases == {"off", "booting", "aborting", "loaded", "taken", "downloading", "installed",
           "restarting", "detecting", "starting", "running", "settled",
           "reverting", "ready", "up"}
Up == {"ready", "up"}
Subscribed == {"running", "settled", "reverting", "ready", "up"}

IdleBoot ==
  [state |-> VirginState, slot |-> "a", strict |-> FALSE, applied |-> TRUE]
IdleDownload == [url |-> NoImage, written |-> 0, attempts |-> 0]
IdleJob == [url |-> NoImage, config |-> "none"]

TypeOK ==
  /\ configState \in ConfigStates
  /\ trialApplies \in BOOLEAN
  /\ pendingUpdate \in Images \cup {NoImage}
  /\ updateFailed \in BOOLEAN
  /\ image \in [Partitions -> Images \cup {NoImage}]
  /\ otaState \in [Partitions -> OtaStates]
  /\ selected \in Partitions
  /\ phase \in Phases
  /\ boot \in [state : ConfigStates, slot : Slots, strict : BOOLEAN,
               applied : BOOLEAN]
  /\ download \in [url : Images \cup {NoImage}, written : 0 .. ImageSize,
                   attempts : 0 .. MAX_ATTEMPTS_WITHOUT_PROGRESS - 1]
  /\ firmwareRejection \in RejectionCodes \cup {NoRejection}
  /\ syncing \in RejectionCodes \cup {NoRejection, "idle"}
  /\ pc \in {"idle", "config", "terminal", "restarting"}
  /\ job \in [url : Images \cup {NoImage}, config : {"none", "applies", "faulty"}]
  /\ restarting \in BOOLEAN
  /\ asked \in 0 .. MaxAsks
  /\ tried \in 0 .. MaxAsks + 1
  /\ commands \in 0 .. MaxCommands
  /\ configs \in 0 .. MaxConfigs
  /\ crashes \in 0 .. MaxCrashes
  /\ wanted \in Images \cup {NoImage}

Init ==
  /\ configState = [VirginState EXCEPT !.confirmed = "a"]
  /\ trialApplies = TRUE
  /\ pendingUpdate = NoImage
  /\ updateFailed = FALSE
  /\ image = [p \in Partitions |-> IF p = "app0" THEN FactoryImage ELSE NoImage]
  /\ otaState = [p \in Partitions |-> IF p = "app0" THEN "valid" ELSE "erased"]
  /\ selected = "app0"
  /\ phase = "off"
  /\ boot = IdleBoot
  /\ download = IdleDownload
  /\ firmwareRejection = NoRejection
  /\ syncing = "idle"
  /\ pc = "idle"
  /\ job = IdleJob
  /\ restarting = FALSE
  /\ asked = 0 /\ tried = 0 /\ commands = 0 /\ configs = 0 /\ crashes = 0
  /\ wanted = NoImage

-----------------------------------------------------------------------------
(* The bootloader and startDevice() *)

Running == image[selected]

\* With app rollback enabled: a new image gets one boot to prove itself.
Bootloader ==
  /\ phase = "off"
  /\ IF otaState[selected] = "pendingVerify"
     THEN /\ otaState' = [otaState EXCEPT ![selected] = "aborted"]
          /\ selected' = Other(selected)
     ELSE /\ otaState' = [otaState EXCEPT
                            ![selected] = IF @ = "new" THEN "pendingVerify" ELSE @]
          /\ UNCHANGED selected
  /\ phase' = "booting"
  /\ UNCHANGED <<nvs, image, boot, download, handler, reports, counts>>

\* A device or network body on trial that does not parse aborts the boot; what is
\* wrong with any other body shows in InitDeviceRuntime.
LoadDeviceBootConfig ==
  /\ phase = "booting"
  /\ LET plan == decideBootPlan(configState)
     IN  /\ configState' = plan.checkpoint
         /\ boot' = [state |-> plan.checkpoint, slot |-> plan.slotToLoad,
                     strict |-> plan.strict, applied |-> TRUE]
         /\ \/ phase' = "loaded"
            \/ plan.strict /\ ~ trialApplies /\ phase' = "aborting"
  /\ UNCHANGED <<trialApplies, pendingUpdate, updateFailed, flash, download,
                 handler, reports, counts>>

\* A previous attempt left its marker: report it, and update in a later boot.
ReportFailedUpdate ==
  /\ phase = "loaded"
  /\ updateFailed
  /\ updateFailed' = FALSE
  /\ firmwareRejection' = "Internal"
  /\ phase' = "detecting"
  /\ UNCHANGED <<configState, trialApplies, pendingUpdate, flash, boot, download,
                 handler, syncing, counts>>

NoUpdatePending ==
  /\ phase = "loaded"
  /\ ~ updateFailed
  /\ pendingUpdate = NoImage
  /\ phase' = "detecting"
  /\ UNCHANGED <<nvs, flash, boot, download, handler, reports, counts>>

\* Seeded fault: the request stays in NVS until it has been marked as attempted.
KeepPendingUpdate ==
  /\ phase = "loaded"
  /\ ~ updateFailed
  /\ pendingUpdate # NoImage
  /\ download' = [IdleDownload EXCEPT !.url = pendingUpdate]
  /\ tried' = IF tried > MaxAsks THEN tried ELSE tried + 1
  /\ phase' = "taken"
  /\ UNCHANGED <<nvs, flash, boot, handler, reports, asked, commands, configs,
                 crashes, wanted>>

\* The request is removed first: whatever happens next, it is tried once.
TakePendingUpdate ==
  /\ phase = "loaded"
  /\ ~ updateFailed
  /\ pendingUpdate # NoImage
  /\ pendingUpdate' = NoImage
  /\ download' = [IdleDownload EXCEPT !.url = pendingUpdate]
  /\ tried' = IF tried > MaxAsks THEN tried ELSE tried + 1
  /\ phase' = "taken"
  /\ UNCHANGED <<configState, trialApplies, updateFailed, flash, boot, handler,
                 reports, asked, commands, configs, crashes, wanted>>

\* Seeded fault: the attempt leaves no marker.
StartUnmarked ==
  /\ phase = "taken"
  /\ phase' = "downloading"
  /\ UNCHANGED <<nvs, flash, boot, download, handler, reports, counts>>

MarkAttempt ==
  /\ phase = "taken"
  /\ updateFailed' = TRUE
  /\ phase' = "downloading"
  /\ UNCHANGED <<configState, trialApplies, pendingUpdate, flash, boot, download,
                 handler, reports, counts>>

\* What the partition that does not run is left with when an attempt erased it:
\* esp_ota_begin() does, and refuses while the running image is unverified.
MayErase == IF otaState[selected] = "pendingVerify" THEN {FALSE} ELSE BOOLEAN

EraseOther(erased) ==
  /\ image' = IF erased THEN [image EXCEPT ![Other(selected)] = NoImage] ELSE image
  /\ otaState' = IF erased THEN [otaState EXCEPT ![Other(selected)] = "erased"]
                           ELSE otaState

\* The network does not come up in time, the host answers with an error before
\* anything was written, or the image is refused.
GiveUp ==
  /\ phase = "downloading"
  /\ \E erased \in MayErase : EraseOther(erased)
  /\ phase' = "restarting"
  /\ UNCHANGED <<nvs, selected, boot, download, handler, reports, counts>>

\* How much is in flash after an attempt that broke off.  It may be less than
\* before: from a host that ignores Range the attempt starts over.
BrokenOffAt(erased) == IF erased THEN 0 .. ImageSize - 1 ELSE {download.written}

\* Seeded fault: an attempt in vain is retried however often it happened.
RetryForever ==
  /\ phase = "downloading"
  /\ \E erased \in MayErase : \E written \in BrokenOffAt(erased) :
       /\ EraseOther(erased)
       /\ download' = [download EXCEPT
            !.written = written,
            !.attempts = IF written > download.written THEN 0 ELSE @ + 1]
  /\ UNCHANGED <<nvs, selected, phase, boot, handler, reports, counts>>

\* runOta() resumes a download that broke off, unless it got no further for the
\* third time in a row.
BreakOff ==
  /\ phase = "downloading"
  /\ \E erased \in MayErase : \E written \in BrokenOffAt(erased) :
       LET attempts == IF written > download.written THEN 0 ELSE download.attempts + 1
       IN  /\ EraseOther(erased)
           /\ IF attempts >= MAX_ATTEMPTS_WITHOUT_PROGRESS
              THEN phase' = "restarting" /\ UNCHANGED download
              ELSE /\ download' = [download EXCEPT !.written = written,
                                                   !.attempts = attempts]
                   /\ UNCHANGED phase
  /\ UNCHANGED <<nvs, selected, boot, handler, reports, counts>>

\* esp_https_ota_finish() verifies the image and selects its partition for the
\* next boot; the running image has read what it needs of otadata.
Install ==
  /\ phase = "downloading"
  /\ otaState[selected] # "pendingVerify"
  /\ image' = [image EXCEPT ![Other(selected)] = download.url]
  /\ otaState' = [otaState EXCEPT ![Other(selected)] = "new"]
  /\ selected' = Other(selected)
  /\ phase' = "installed"
  /\ UNCHANGED <<nvs, boot, download, handler, reports, counts>>

ClearMarker ==
  /\ phase = "installed"
  /\ updateFailed' = FALSE
  /\ phase' = "restarting"
  /\ UNCHANGED <<configState, trialApplies, pendingUpdate, flash, boot, download,
                 handler, reports, counts>>

\* A partition the bootloader turned away from is reported once.
detectAndClearRollback ==
  /\ phase = "detecting"
  /\ IF otaState[Other(selected)] = "aborted"
     THEN /\ otaState' = [otaState EXCEPT ![Other(selected)] = "erased"]
          /\ firmwareRejection' = "Internal"
     ELSE UNCHANGED <<otaState, firmwareRejection>>
  /\ phase' = "starting"
  /\ UNCHANGED <<nvs, image, selected, boot, download, handler, syncing, counts>>

InitDeviceRuntime ==
  /\ phase = "starting"
  /\ boot' = [boot EXCEPT !.applied = boot.strict => trialApplies]
  /\ phase' = "running"
  /\ UNCHANGED <<nvs, flash, download, handler, reports, counts>>

RecordBootOutcome ==
  /\ phase = "running"
  /\ IF boot.strict
     THEN LET outcome == recordStrictBootOutcome(
                           boot.state, boot.slot, boot.applied, "Internal")
          IN  /\ configState' = outcome
              /\ boot' = [boot EXCEPT !.state = outcome]
              /\ phase' = IF boot.applied THEN "settled" ELSE "reverting"
     ELSE /\ phase' = "settled"
          /\ UNCHANGED <<configState, boot>>
  /\ UNCHANGED <<trialApplies, pendingUpdate, updateFailed, flash, download,
                 handler, reports, counts>>

\* Take the configuration's rejection off the record and set kernelReady.
FinishBoot ==
  /\ phase = "settled"
  /\ Running \notin Unbootable
  /\ configState' = IF boot.state.rejection = NoRejection THEN configState
                    ELSE [boot.state EXCEPT !.rejection = NoRejection]
  /\ phase' = "ready"
  /\ boot' = IdleBoot
  /\ UNCHANGED <<trialApplies, pendingUpdate, updateFailed, flash, download,
                 handler, reports, counts>>

confirmFirmwareValid ==
  /\ phase = "ready"
  /\ otaState' = [otaState EXCEPT ![selected] = "valid"]
  /\ phase' = "up"
  /\ UNCHANGED <<nvs, image, selected, boot, download, handler, reports, counts>>

-----------------------------------------------------------------------------
(* What asks for an update: the MQTT command and the UPDATE handler *)

\* Seeded fault: the update waits for the next restart.
startUpdateLater(url) ==
  /\ pendingUpdate' = url
  /\ UNCHANGED restarting

startUpdate(url) ==
  /\ pendingUpdate' = url
  /\ restarting' = TRUE

\* The "update" command is registered before the pending update is performed,
\* so it may come at any later point of the boot, a download included.
UpdateCommand ==
  /\ phase \notin {"off", "booting", "aborting"}
  /\ commands < MaxCommands /\ asked < MaxAsks
  /\ \E url \in Images : startUpdate(url)
  /\ commands' = commands + 1
  /\ asked' = asked + 1
  /\ wanted' = NoImage
  /\ UNCHANGED <<configState, trialApplies, updateFailed, flash, main, pc, job,
                 reports, tried, configs, crashes>>

\* decideFirmwareUpdate(): nothing to do for the version that runs; refused
\* while a configuration is requested.
ReceiveUpdate ==
  /\ phase \in Subscribed
  /\ pc = "idle"
  /\ \E url \in Images \cup {NoImage}, config \in {"none", "applies", "faulty"} :
       LET new == url \notin {NoImage, Running}
           skipped == new /\ HasRequest(configState)
       IN  /\ asked < MaxAsks \/ ~ new
           /\ configs < MaxConfigs \/ config = "none"
           /\ new \/ config # "none"
           /\ job' = [url |-> IF new /\ ~ skipped THEN url ELSE NoImage,
                      config |-> config]
           /\ firmwareRejection' = IF skipped THEN "FailedPrecondition"
                                              ELSE firmwareRejection
           /\ wanted' = IF skipped THEN NoImage ELSE wanted
           /\ asked' = IF new /\ ~ skipped THEN asked + 1 ELSE asked
  /\ pc' = "config"
  /\ UNCHANGED <<nvs, flash, main, restarting, syncing, tried, commands, configs,
                 crashes>>

\* applyConfigUpdate(): a device configuration is staged, and needs a restart.
ApplyConfig ==
  /\ pc = "config"
  /\ IF job.config = "none"
     THEN UNCHANGED <<configState, trialApplies, configs>>
     ELSE /\ configState' = stageDeviceUpdate(configState)
          /\ trialApplies' = (job.config = "applies")
          /\ configs' = configs + 1
  /\ pc' = "terminal"
  /\ UNCHANGED <<pendingUpdate, updateFailed, flash, main, job, restarting,
                 reports, asked, tried, commands, crashes, wanted>>

\* The one terminal action: the update subsumes the restart.
EndUpdate ==
  /\ pc = "terminal"
  /\ IF job.url # NoImage
     THEN /\ startUpdate(job.url)
          /\ wanted' = job.url
          /\ pc' = "idle"
     ELSE /\ pc' = IF job.config = "none" THEN "idle" ELSE "restarting"
          /\ UNCHANGED <<pendingUpdate, restarting, wanted>>
  /\ job' = IdleJob
  /\ UNCHANGED <<configState, trialApplies, updateFailed, flash, main, reports,
                 asked, tried, commands, configs, crashes>>

-----------------------------------------------------------------------------
(* The SYNC task, and resets *)

ReadRejection ==
  /\ phase \in Up
  /\ syncing = "idle"
  /\ syncing' = firmwareRejection
  /\ UNCHANGED <<nvs, flash, main, handler, firmwareRejection, counts>>

\* Reset what was read, and publish it with the version that runs.
PublishSync ==
  /\ phase \in Up
  /\ syncing # "idle"
  /\ firmwareRejection' = NoRejection
  /\ syncing' = "idle"
  /\ wanted' = IF restarting THEN wanted ELSE NoImage
  /\ UNCHANGED <<nvs, flash, main, handler, asked, tried, commands, configs, crashes>>

\* What a reset at this moment takes with it: a request between the two NVS
\* writes of its attempt, or a rejection that is not sent yet.
Forgets ==
  \/ phase = "taken"
  \/ firmwareRejection # NoRejection
  \/ syncing \notin {"idle", NoRejection}

PowerCycle ==
  /\ phase' = "off"
  /\ boot' = IdleBoot
  /\ download' = IdleDownload
  /\ firmwareRejection' = NoRejection
  /\ syncing' = "idle"
  /\ pc' = "idle"
  /\ job' = IdleJob
  /\ restarting' = FALSE
  /\ wanted' = IF Forgets THEN NoImage ELSE wanted
  /\ UNCHANGED <<nvs, flash, asked, tried, commands, configs>>

\* The end of somebody's delayedRestart(), or of abortBoot().
Restart ==
  /\ phase \in {"aborting", "restarting", "reverting"} \/ pc = "restarting" \/ restarting
  /\ PowerCycle
  /\ UNCHANGED crashes

BrokenImageCrash ==
  /\ phase \in {"booting", "loaded", "taken", "downloading", "detecting",
                "starting", "running", "settled"}
  /\ Running \in Unbootable
  /\ PowerCycle
  /\ UNCHANGED crashes

Crash ==
  /\ phase # "off"
  /\ crashes < MaxCrashes
  /\ crashes' = crashes + 1
  /\ PowerCycle

-----------------------------------------------------------------------------
MainTask ==
  \/ Bootloader
  \/ LoadDeviceBootConfig
  \/ ReportFailedUpdate
  \/ NoUpdatePending
  \/ TakePendingUpdate
  \/ MarkAttempt
  \/ GiveUp
  \/ BreakOff
  \/ Install
  \/ ClearMarker
  \/ detectAndClearRollback
  \/ InitDeviceRuntime
  \/ RecordBootOutcome
  \/ FinishBoot
  \/ confirmFirmwareValid

HandlerTask ==
  \/ ApplyConfig
  \/ EndUpdate

SyncTask ==
  \/ ReadRejection
  \/ PublishSync

Next ==
  \/ MainTask
  \/ HandlerTask
  \/ SyncTask
  \/ Restart
  \/ UpdateCommand
  \/ ReceiveUpdate
  \/ BrokenImageCrash
  \/ Crash

Fairness ==
  /\ WF_vars(MainTask)
  /\ WF_vars(HandlerTask)
  /\ WF_vars(Restart)
  /\ WF_vars(BrokenImageCrash)

Spec == Init /\ [][Next]_vars
FairSpec == Spec /\ Fairness

-----------------------------------------------------------------------------
(* Properties *)

\* Whatever is downloaded, refused, interrupted or rolled back, one partition
\* holds a verified image that boots (Device.hpp:327-332, the bootloader).
FallbackKept ==
  \E p \in Partitions : otaState[p] = "valid" /\ image[p] \notin Unbootable \cup {NoImage}

\* Every update that was asked for is tried at most once: no boot loop of
\* downloads, whatever resets the device in between (HttpUpdate.hpp:80, :125).
TriedOnce == tried <= asked

\* No update leaves the device without an image that boots, and none is tried
\* again.
UpdatesSafe == FallbackKept /\ TriedOnce

\* The first SYNC after the device was restarted for an UPDATE's firmware names
\* the wanted version or carries a rejection: the server is told that the update
\* failed, and does not send it forever (HttpUpdate.hpp:61-64, :122-125;
\* Device.hpp:244-255; SyncPublisher.hpp:41-61).  Forgets names the exceptions.
SyncExplains ==
  [][PublishSync /\ ~ restarting /\ wanted \notin {NoImage, Running}
       => syncing # NoRejection]_vars

\* A download starts over behind where it was, again and again.
StartsOver ==
  []<><<download'.url = download.url /\ download'.written < download.written>>_vars

\* A device that resets gets back to kernelReady, through failed downloads,
\* trials that do not apply and images that do not boot; unless the image's host
\* ignores Range and the connection never lasts (DownloadEnds).
ComesUp == StartsOver \/ (phase = "off" ~> phase \in Up)

\* An update accepted from an UPDATE is taken up without anybody's help, as
\* long as no "update" command interrupts the boots it needs.
UpdateTried ==
  pendingUpdate # NoImage /\ commands = 0 ~> pendingUpdate = NoImage \/ commands > 0

\* Both: the device comes up, and an update that was accepted is taken up.
UpdatesEnd == ComesUp /\ UpdateTried

\* HttpUpdate.hpp:221-222: the download "Gives up after a few attempts in a row
\* that didn't get any further".  One that starts over counts as further as soon as
\* it passes the place it broke off at last (:236), however often it was there.
DownloadEnds == phase = "downloading" ~> phase # "downloading"

\* docs/specs/device-readdressing.md: the first boot of a new image finds no
\* configuration pending or attempted.  An UPDATE with both halves breaks it.
UpgradeFindsNoRequest ==
  phase = "booting" /\ otaState[selected] = "pendingVerify"
    => ~ HasRequest(configState)
=============================================================================
