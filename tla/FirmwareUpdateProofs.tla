------------------------- MODULE FirmwareUpdateProofs -------------------------
(***************************************************************************)
(* Proofs about FirmwareUpdate, for every instance of its constants: any   *)
(* images and sizes, and any numbers of requests, configurations and       *)
(* crashes.                                                                *)
(***************************************************************************)
EXTENDS FirmwareUpdate, TLAPS

-----------------------------------------------------------------------------
(* The record of the configuration, which the pure functions keep one.     *)

LEMMA VirginStateType == VirginState \in ConfigStates
  BY DEF VirginState, ConfigStates, NoRequest

LEMMA BootPlanType ==
  ASSUME NEW state \in ConfigStates
  PROVE  LET plan == decideBootPlan(state)
         IN  plan.slotToLoad \in Slots /\ plan.strict \in BOOLEAN /\ plan.checkpoint \in ConfigStates
<1>1. ConfirmedSlot(state) \in Slots /\ state.requested.slot \in Slots
  BY DEF ConfigStates, ConfirmedSlot, Requests, NoRequest, Slots, NoSlot
<1>2. CASE state.requested.status = "pending"
  BY <1>1, <1>2 DEF decideBootPlan, markAttempted, ConfigStates, Requests, NoRequest, Statuses, Slots
<1>3. CASE state.requested.status # "pending"
  BY <1>1, <1>3 DEF decideBootPlan, ConfigStates, Requests, NoRequest, Statuses, RejectionCodes, NoRejection
<1> QED
  BY <1>2, <1>3

LEMMA OutcomeType ==
  ASSUME NEW state \in ConfigStates, NEW slot \in Slots, NEW applied \in BOOLEAN, NEW code \in RejectionCodes
  PROVE  recordStrictBootOutcome(state, slot, applied, code) \in ConfigStates
  BY DEF recordStrictBootOutcome, ConfigStates, Requests, NoRequest, Statuses

LEMMA StagedType ==
  ASSUME NEW state \in ConfigStates
  PROVE  stageDeviceUpdate(state) \in ConfigStates
  BY DEF stageDeviceUpdate, otherSlot, ConfigStates, Requests, Statuses, Slots

LEMMA ReportedType ==
  ASSUME NEW state \in ConfigStates
  PROVE  [state EXCEPT !.rejection = NoRejection] \in ConfigStates
  BY DEF ConfigStates

-----------------------------------------------------------------------------
(* The inductive invariant *)

\* One handler at a time: nobody stages what it counted on staging.
StagingCounted ==
  pc = "config" /\ job.config # "none" => configs < MaxConfigs

\* Each request that was asked for is waiting in a handler, waiting in NVS, tried
\* or overwritten by another one: never in two places.
InHandler == IF job.url = NoImage THEN 0 ELSE 1
InNvs == IF pendingUpdate = NoImage THEN 0 ELSE 1
AskedOnce == tried + InNvs + InHandler <= asked

Bootable(p) == image[p] \in Images \ Unbootable

\* Before it was told to run another image, a device runs one that may be
\* unverified only while the other partition has a verified one.
PartitionsInv ==
  /\ otaState[selected] \in {"valid", "new", "pendingVerify"}
  /\ image[selected] \in Images
  /\ otaState[selected] = "valid" => Bootable(selected)
  /\ otaState[selected] # "valid" =>
       otaState[Other(selected)] = "valid" /\ Bootable(Other(selected))
  /\ otaState[selected] = "new" => phase \in {"installed", "restarting", "off"}

\* What each step of an update has, and where the UPDATE handler can be.
StepsInv ==
  /\ phase \in {"taken", "downloading"} => download.url # NoImage
  /\ phase \in {"downloading", "installed"} => updateFailed
  /\ phase \in Up => Running \notin Unbootable
  /\ phase \notin Up => syncing = "idle"
  /\ pc # "idle" => phase \in Subscribed

Aborted == otaState[Other(selected)] = "aborted"
Rejects == firmwareRejection # NoRejection

\* Where the update that the server waits for is, step by step.
WantedInv ==
  wanted # NoImage =>
    /\ pendingUpdate \in {NoImage, wanted}
    /\ restarting => pendingUpdate = wanted /\ phase \in Subscribed
    /\ phase \in {"off", "booting", "aborting", "loaded"} =>
         pendingUpdate = wanted \/ updateFailed \/ Running = wanted \/ Aborted
    /\ phase \in {"taken", "downloading"} => download.url = wanted
    /\ phase = "installed" => Running = wanted
    /\ phase = "restarting" => updateFailed \/ Running = wanted
    /\ phase = "detecting" => Running = wanted \/ Aborted \/ Rejects
    /\ phase \in {"starting"} \cup Subscribed =>
         Running = wanted \/ Rejects \/ restarting
    /\ phase \in Up /\ Running # wanted => syncing # NoRejection \/ restarting

FInv ==
  TypeOK /\ StagingCounted /\ AskedOnce /\ PartitionsInv /\ StepsInv /\ WantedInv

\* There are two partitions.
LEMMA OtherDiffers ==
  ASSUME NEW p \in Partitions
  PROVE  Other(p) \in Partitions /\ Other(p) # p /\ Other(Other(p)) = p
  BY DEF Partitions, Other

\* What a reset leaves in RAM is well-formed.
LEMMA IdleValues ==
  /\ IdleBoot \in [state : ConfigStates, slot : Slots, strict : BOOLEAN,
                   applied : BOOLEAN]
  /\ IdleDownload \in [url : Images \cup {NoImage}, written : 0 .. ImageSize,
                       attempts : 0 .. MAX_ATTEMPTS_WITHOUT_PROGRESS - 1]
  /\ IdleJob \in [url : Images \cup {NoImage}, config : {"none", "applies", "faulty"}]
<1>1. 0 \in 0 .. ImageSize /\ 0 \in 0 .. MAX_ATTEMPTS_WITHOUT_PROGRESS - 1
  BY SizeAssumption DEF MAX_ATTEMPTS_WITHOUT_PROGRESS
<1> QED
  BY <1>1, VirginStateType DEF IdleBoot, IdleDownload, IdleJob, Slots

-----------------------------------------------------------------------------
(* Type correctness *)

\* A reset keeps NVS and flash, and clears everything else.
LEMMA PowerCycleType ==
  ASSUME TypeOK, PowerCycle, crashes' \in 0 .. MaxCrashes
  PROVE  TypeOK' /\ StagingCounted'
  BY IdleValues DEF TypeOK, StagingCounted, PowerCycle, nvs, flash, Phases

\* An attempt that erases the other partition leaves the partitions well-formed.
LEMMA EraseType ==
  ASSUME TypeOK, NEW erased \in BOOLEAN, EraseOther(erased)
  PROVE  /\ image' \in [Partitions -> Images \cup {NoImage}]
         /\ otaState' \in [Partitions -> OtaStates]
  BY DEF TypeOK, EraseOther, OtaStates

\* Every step leaves every variable well-formed.
LEMMA TypeStep ==
  ASSUME TypeOK, StagingCounted, [Next]_vars
  PROVE  TypeOK' /\ StagingCounted'
<1>1. CASE Bootloader
  <2>1. otaState' \in [Partitions -> OtaStates] /\ selected' \in Partitions
    BY <1>1, OtherDiffers DEF Bootloader, TypeOK, OtaStates
  <2> QED
    BY <1>1, <2>1 DEF Bootloader, TypeOK, Phases, StagingCounted, nvs, handler, reports, counts
<1>2. CASE LoadDeviceBootConfig
  <2> DEFINE plan == decideBootPlan(configState)
  <2>1. /\ plan.slotToLoad \in Slots
        /\ plan.strict \in BOOLEAN
        /\ plan.checkpoint \in ConfigStates
    BY BootPlanType DEF TypeOK
  <2>2. /\ configState' = plan.checkpoint
        /\ boot' = [state |-> plan.checkpoint, slot |-> plan.slotToLoad,
                    strict |-> plan.strict, applied |-> TRUE]
    BY <1>2 DEF LoadDeviceBootConfig
  <2> HIDE DEF plan
  <2> QED
    BY <1>2, <2>1, <2>2 DEF LoadDeviceBootConfig, TypeOK, Phases, StagingCounted, flash, handler,
       reports, counts
<1>3. CASE ReportFailedUpdate
  <2>1. firmwareRejection' \in RejectionCodes \cup {NoRejection}
    BY <1>3 DEF ReportFailedUpdate, RejectionCodes
  <2>2. updateFailed' \in BOOLEAN
    BY <1>3 DEF ReportFailedUpdate
  <2> QED
    BY <1>3, <2>1, <2>2 DEF ReportFailedUpdate, TypeOK, Phases, StagingCounted, flash,
       handler, counts
<1>4. CASE NoUpdatePending
  BY <1>4 DEF NoUpdatePending, Phases, TypeOK, StagingCounted, nvs, flash, handler, reports, counts
<1>5. CASE TakePendingUpdate
  <2>1. download' \in [url : Images \cup {NoImage}, written : 0 .. ImageSize,
                       attempts : 0 .. MAX_ATTEMPTS_WITHOUT_PROGRESS - 1]
    BY <1>5, IdleValues DEF TakePendingUpdate, TypeOK
  <2>2. tried' \in 0 .. MaxAsks + 1
    BY <1>5, BoundsAssumption DEF TakePendingUpdate, TypeOK
  <2> QED
    BY <1>5, <2>1, <2>2 DEF TakePendingUpdate, TypeOK, Phases, StagingCounted, flash, handler,
       reports
<1>6. CASE MarkAttempt
  BY <1>6 DEF MarkAttempt, TypeOK, Phases, StagingCounted, flash, handler, reports, counts
<1>7. CASE GiveUp
  <2>1. PICK erased \in BOOLEAN : EraseOther(erased)
    BY <1>7 DEF GiveUp, MayErase
  <2> QED
    BY <1>7, <2>1, EraseType DEF GiveUp, TypeOK, Phases, StagingCounted, nvs, handler, reports,
       counts
<1>8. CASE BreakOff
  <2> DEFINE Attempts(written) ==
               IF written > download.written THEN 0 ELSE download.attempts + 1
  <2>0. PICK erased \in BOOLEAN :
          /\ EraseOther(erased)
          /\ \E written \in BrokenOffAt(erased) :
               IF Attempts(written) >= MAX_ATTEMPTS_WITHOUT_PROGRESS
               THEN phase' = "restarting" /\ UNCHANGED download
               ELSE /\ download' = [download EXCEPT !.written = written,
                                                    !.attempts = Attempts(written)]
                    /\ UNCHANGED phase
    BY <1>8 DEF BreakOff, MayErase
  <2>1. PICK written \in BrokenOffAt(erased) :
          IF Attempts(written) >= MAX_ATTEMPTS_WITHOUT_PROGRESS
          THEN phase' = "restarting" /\ UNCHANGED download
          ELSE /\ download' = [download EXCEPT !.written = written,
                                               !.attempts = Attempts(written)]
               /\ UNCHANGED phase
    BY <2>0
  <2>2. written \in 0 .. ImageSize
    BY SizeAssumption DEF BrokenOffAt, TypeOK
  <2>3. phase' \in Phases
    BY <2>1 DEF TypeOK, Phases
  <2>4. download' \in [url : Images \cup {NoImage}, written : 0 .. ImageSize,
                       attempts : 0 .. MAX_ATTEMPTS_WITHOUT_PROGRESS - 1]
    <3>1. CASE Attempts(written) >= MAX_ATTEMPTS_WITHOUT_PROGRESS
      BY <2>1, <3>1 DEF TypeOK
    <3>2. CASE ~ (Attempts(written) >= MAX_ATTEMPTS_WITHOUT_PROGRESS)
      <4>1. Attempts(written) \in 0 .. MAX_ATTEMPTS_WITHOUT_PROGRESS - 1
        BY <2>2, <3>2 DEF TypeOK, MAX_ATTEMPTS_WITHOUT_PROGRESS
      <4> HIDE DEF Attempts
      <4> QED
        BY <2>1, <2>2, <3>2, <4>1 DEF TypeOK
    <3> QED
      BY <3>1, <3>2
  <2> QED
    BY <1>8, <2>0, <2>3, <2>4, EraseType DEF BreakOff, TypeOK, Phases, StagingCounted, nvs,
       handler, reports, counts
<1>9. CASE Install
  <2>1. /\ image' \in [Partitions -> Images \cup {NoImage}]
        /\ otaState' \in [Partitions -> OtaStates]
        /\ selected' \in Partitions
    BY <1>9, OtherDiffers DEF Install, TypeOK, OtaStates
  <2> QED
    BY <1>9, <2>1 DEF Install, TypeOK, Phases, StagingCounted, nvs, handler, reports, counts
<1>10. CASE ClearMarker
  <2>1. updateFailed' \in BOOLEAN
    BY <1>10 DEF ClearMarker
  <2> QED
    BY <1>10, <2>1 DEF ClearMarker, TypeOK, Phases, StagingCounted, flash, handler,
       reports, counts
<1>11. CASE detectAndClearRollback
  <2>1. otaState' \in [Partitions -> OtaStates]
        /\ firmwareRejection' \in RejectionCodes \cup {NoRejection}
    BY <1>11 DEF detectAndClearRollback, TypeOK, OtaStates, RejectionCodes
  <2> QED
    BY <1>11, <2>1 DEF detectAndClearRollback, TypeOK, Phases, StagingCounted, nvs, handler, counts
<1>12. CASE InitDeviceRuntime
  <2>1. (boot.strict => trialApplies) \in BOOLEAN
    OBVIOUS
  <2>2. boot' \in [state : ConfigStates, slot : Slots, strict : BOOLEAN,
                   applied : BOOLEAN]
    BY <1>12, <2>1 DEF InitDeviceRuntime, TypeOK
  <2> QED
    BY <1>12, <2>2 DEF InitDeviceRuntime, TypeOK, Phases, StagingCounted, nvs, flash,
       handler, reports, counts
<1>13. CASE RecordBootOutcome
  <2>1. /\ boot.state \in ConfigStates /\ boot.slot \in Slots /\ boot.applied \in BOOLEAN
        /\ "Internal" \in RejectionCodes
    BY DEF TypeOK, RejectionCodes
  <2>2. recordStrictBootOutcome(boot.state, boot.slot, boot.applied, "Internal")
          \in ConfigStates
    BY <2>1, OutcomeType
  <2>3. /\ configState' \in ConfigStates
        /\ boot' \in [state : ConfigStates, slot : Slots, strict : BOOLEAN,
                      applied : BOOLEAN]
    BY <1>13, <2>1, <2>2 DEF RecordBootOutcome, TypeOK
  <2>4. phase' \in Phases
    BY <1>13 DEF RecordBootOutcome, Phases
  <2> QED
    BY <1>13, <2>3, <2>4 DEF RecordBootOutcome, TypeOK, StagingCounted, flash, handler,
       reports, counts
<1>14. CASE FinishBoot
  <2>1. boot.state \in ConfigStates
    BY DEF TypeOK
  <2>2. configState' \in ConfigStates
    BY <1>14, <2>1, ReportedType DEF FinishBoot, TypeOK
  <2> QED
    BY <1>14, <2>2, IdleValues DEF FinishBoot, TypeOK, Phases, StagingCounted, flash, handler,
       reports, counts
<1>15. CASE confirmFirmwareValid
  BY <1>15 DEF confirmFirmwareValid, TypeOK, Phases, StagingCounted, OtaStates, nvs, handler,
     reports, counts
<1>16. CASE ApplyConfig
  <2>1. configState' \in ConfigStates /\ trialApplies' \in BOOLEAN
    BY <1>16, StagedType DEF ApplyConfig, TypeOK
  <2>2. configs' \in 0 .. MaxConfigs
    BY <1>16, BoundsAssumption DEF ApplyConfig, TypeOK, StagingCounted
  <2> QED
    BY <1>16, <2>1, <2>2 DEF ApplyConfig, TypeOK, StagingCounted, flash, main, reports
<1>17. CASE EndUpdate
  <2>1. /\ pc' \in {"idle", "restarting"} /\ restarting' \in BOOLEAN
        /\ pendingUpdate' \in Images \cup {NoImage}
        /\ wanted' \in Images \cup {NoImage}
    BY <1>17 DEF EndUpdate, startUpdate, TypeOK
  <2> QED
    BY <1>17, <2>1, IdleValues DEF EndUpdate, TypeOK, StagingCounted, flash, main, reports
<1>18. CASE ReadRejection
  BY <1>18 DEF ReadRejection, TypeOK, StagingCounted, nvs, flash, main, handler, counts
<1>19. CASE PublishSync
  BY <1>19 DEF PublishSync, TypeOK, StagingCounted, nvs, flash, main, handler
<1>20. CASE Restart
  BY <1>20, PowerCycleType DEF Restart, TypeOK
<1>21. CASE UpdateCommand
  <2>1. commands' \in 0 .. MaxCommands /\ asked' \in 0 .. MaxAsks
    BY <1>21, BoundsAssumption DEF UpdateCommand, TypeOK
  <2> QED
    BY <1>21, <2>1 DEF UpdateCommand, startUpdate, TypeOK, StagingCounted, flash, main,
       reports
<1>22. CASE ReceiveUpdate
  <2>1. PICK url \in Images \cup {NoImage}, config \in {"none", "applies", "faulty"} :
          LET new == url \notin {NoImage, Running}
              skipped == new /\ HasRequest(configState)
          IN  /\ asked < MaxAsks \/ ~ new
              /\ configs < MaxConfigs \/ config = "none"
              /\ job' = [url |-> IF new /\ ~ skipped THEN url ELSE NoImage,
                         config |-> config]
              /\ firmwareRejection' = IF skipped THEN "FailedPrecondition"
                                                 ELSE firmwareRejection
              /\ wanted' = IF skipped THEN NoImage ELSE wanted
              /\ asked' = IF new /\ ~ skipped THEN asked + 1 ELSE asked
    BY <1>22 DEF ReceiveUpdate
  <2>2. asked' \in 0 .. MaxAsks
    BY <2>1, BoundsAssumption DEF TypeOK
  <2>3. /\ firmwareRejection' \in RejectionCodes \cup {NoRejection}
        /\ wanted' \in Images \cup {NoImage}
        /\ job' \in [url : Images \cup {NoImage}, config : {"none", "applies", "faulty"}]
    BY <2>1 DEF TypeOK, RejectionCodes
  <2>4. job'.config # "none" => configs < MaxConfigs
    BY <2>1
  <2> QED
    BY <1>22, <2>2, <2>3, <2>4 DEF ReceiveUpdate, TypeOK, StagingCounted, nvs, flash, main
<1>23. CASE BrokenImageCrash
  BY <1>23, PowerCycleType DEF BrokenImageCrash, TypeOK
<1>24. CASE Crash
  <2>1. crashes' \in 0 .. MaxCrashes
    BY <1>24, BoundsAssumption DEF Crash, TypeOK
  <2> QED
    BY <1>24, <2>1, PowerCycleType DEF Crash
<1>25. CASE UNCHANGED vars
  BY <1>25 DEF vars, nvs, flash, main, handler, reports, counts, TypeOK, StagingCounted
<1> QED
  BY <1>1, <1>2, <1>3, <1>4, <1>5, <1>6, <1>7, <1>8, <1>9, <1>10, <1>11, <1>12, <1>13,
     <1>14, <1>15, <1>16, <1>17, <1>18, <1>19, <1>20, <1>21, <1>22, <1>23, <1>24, <1>25
     DEF Next, MainTask, HandlerTask, SyncTask

\* The device starts well-formed.
LEMMA InitTypeOK == Init => TypeOK /\ StagingCounted
<1> SUFFICES ASSUME Init PROVE TypeOK /\ StagingCounted
  OBVIOUS
<1>1. configState \in ConfigStates
  BY VirginStateType DEF Init, ConfigStates, Slots
<1>2. /\ image \in [Partitions -> Images \cup {NoImage}]
      /\ otaState \in [Partitions -> OtaStates]
      /\ selected \in Partitions
  BY ImagesAssumption DEF Init, Partitions, OtaStates
<1>3. /\ asked \in 0 .. MaxAsks /\ tried \in 0 .. MaxAsks + 1
      /\ commands \in 0 .. MaxCommands /\ configs \in 0 .. MaxConfigs
      /\ crashes \in 0 .. MaxCrashes
  BY BoundsAssumption DEF Init
<1> QED
  BY <1>1, <1>2, <1>3, IdleValues DEF Init, TypeOK, StagingCounted, Phases

\* Every variable keeps its type: among them the request, the partitions and the
\* record stay well-formed whatever breaks off, resets or is asked for.
THEOREM TypeCorrect == Spec => []TypeOK
<1>1. TypeOK /\ StagingCounted /\ [Next]_vars => (TypeOK /\ StagingCounted)'
  BY TypeStep
<1> QED
  BY <1>1, InitTypeOK, PTL DEF Spec

-----------------------------------------------------------------------------
(* No update is tried twice *)

\* A request is handed on, counted, or overwritten by another one; it is never
\* copied.
LEMMA AskedStep ==
  ASSUME TypeOK, AskedOnce, [Next]_vars
  PROVE  AskedOnce'
<1> USE DEF AskedOnce, InNvs, InHandler
<1>1. CASE TakePendingUpdate
  <2>1. /\ pendingUpdate # NoImage /\ pendingUpdate' = NoImage
        /\ UNCHANGED <<job, asked>>
        /\ tried' = IF tried > MaxAsks THEN tried ELSE tried + 1
    BY <1>1 DEF TakePendingUpdate, handler
  <2> QED
    BY <2>1 DEF TypeOK
<1>2. CASE EndUpdate
  <2>1. /\ pendingUpdate' = IF job.url # NoImage THEN job.url ELSE pendingUpdate
        /\ job' = IdleJob
        /\ UNCHANGED <<tried, asked>>
    BY <1>2 DEF EndUpdate, startUpdate
  <2>2. job'.url = NoImage
    BY <2>1 DEF IdleJob
  <2> QED
    BY <2>1, <2>2 DEF TypeOK
<1>3. CASE UpdateCommand
  BY <1>3 DEF UpdateCommand, TypeOK
<1>4. CASE ReceiveUpdate
  <2>1. PICK url \in Images \cup {NoImage}, config \in {"none", "applies", "faulty"} :
          LET new == url \notin {NoImage, Running}
              skipped == new /\ HasRequest(configState)
          IN  /\ job' = [url |-> IF new /\ ~ skipped THEN url ELSE NoImage,
                         config |-> config]
              /\ asked' = IF new /\ ~ skipped THEN asked + 1 ELSE asked
    BY <1>4 DEF ReceiveUpdate
  <2>2. asked' = IF job'.url # NoImage THEN asked + 1 ELSE asked
    BY <2>1
  <2>3. UNCHANGED <<pendingUpdate, tried>>
    BY <1>4 DEF ReceiveUpdate, nvs
  <2> QED
    BY <2>2, <2>3 DEF TypeOK
<1>5. CASE PowerCycle
  <2>1. UNCHANGED <<pendingUpdate, tried, asked>> /\ job'.url = NoImage
    BY <1>5 DEF PowerCycle, IdleJob, nvs
  <2> QED
    BY <2>1 DEF TypeOK
<1>6. CASE UNCHANGED <<pendingUpdate, job, tried, asked>>
  BY <1>6
<1> QED
  BY <1>1, <1>2, <1>3, <1>4, <1>5, <1>6
     DEF Next, MainTask, HandlerTask, SyncTask, Bootloader, LoadDeviceBootConfig,
         ReportFailedUpdate, NoUpdatePending, MarkAttempt, GiveUp, BreakOff, Install,
         ClearMarker, detectAndClearRollback, InitDeviceRuntime, RecordBootOutcome,
         FinishBoot, confirmFirmwareValid, ApplyConfig, ReadRejection, PublishSync,
         Restart, BrokenImageCrash, Crash, vars, nvs, main, handler, counts

-----------------------------------------------------------------------------
(* An image to fall back to *)

\* What the partitions are, as far as a step leaves them alone.
LEMMA PartitionsKept ==
  ASSUME PartitionsInv, UNCHANGED flash,
         phase' \in {"installed", "restarting", "off"}
           \/ phase \notin {"installed", "restarting", "off"}
  PROVE  PartitionsInv'
  BY DEF PartitionsInv, Bootable, flash

\* While an update is downloaded into the other partition, the one that runs is
\* the fallback if the other may be erased.
LEMMA EraseKeepsFallback ==
  ASSUME TypeOK, PartitionsInv, phase = "downloading", UNCHANGED selected,
         NEW erased \in MayErase, EraseOther(erased)
  PROVE  PartitionsInv'
<1>1. selected \in Partitions /\ Other(selected) \in Partitions
      /\ Other(selected) # selected
  BY OtherDiffers DEF TypeOK
<1>2. otaState[selected] \in {"valid", "pendingVerify"}
  BY DEF PartitionsInv
<1>3. CASE erased = TRUE
  <2>1. otaState[selected] = "valid"
    BY <1>2, <1>3 DEF MayErase
  <2>2. otaState'[selected] = otaState[selected] /\ image'[selected] = image[selected]
    BY <1>1, <1>3 DEF EraseOther, TypeOK
  <2> QED
    BY <2>1, <2>2 DEF PartitionsInv, Bootable
<1>4. CASE erased = FALSE
  BY <1>2, <1>4 DEF EraseOther, PartitionsInv, Bootable
<1> QED
  BY <1>3, <1>4 DEF MayErase

\* Whatever is installed, rolled back or erased: an image that is not verified
\* runs only beside one that is.
LEMMA PartitionsStep ==
  ASSUME TypeOK, PartitionsInv, StepsInv, [Next]_vars
  PROVE  PartitionsInv'
<1>0. selected \in Partitions /\ Other(selected) \in Partitions
      /\ Other(selected) # selected /\ Other(Other(selected)) = selected
  BY OtherDiffers DEF TypeOK
<1>1. CASE Bootloader
  <2>1. CASE otaState[selected] = "pendingVerify"
    <3>1. /\ selected' = Other(selected) /\ UNCHANGED image
          /\ otaState'[Other(selected)] = otaState[Other(selected)]
      BY <1>0, <1>1, <2>1 DEF Bootloader, TypeOK
    <3>2. otaState[Other(selected)] = "valid" /\ Bootable(Other(selected))
      BY <2>1 DEF PartitionsInv
    <3> QED
      BY <3>1, <3>2 DEF PartitionsInv, Bootable
  <2>2. CASE otaState[selected] # "pendingVerify"
    <3>1. /\ UNCHANGED <<selected, image>>
          /\ otaState'[Other(selected)] = otaState[Other(selected)]
          /\ otaState'[selected] = IF otaState[selected] = "new" THEN "pendingVerify"
                                   ELSE otaState[selected]
      BY <1>0, <1>1, <2>2 DEF Bootloader, TypeOK
    <3> QED
      BY <2>2, <3>1 DEF PartitionsInv, Bootable
  <2> QED
    BY <2>1, <2>2
<1>2. CASE GiveUp
  <2>1. PICK erased \in MayErase : EraseOther(erased)
    BY <1>2 DEF GiveUp
  <2> QED
    BY <1>2, <2>1, EraseKeepsFallback DEF GiveUp
<1>3. CASE BreakOff
  <2>1. PICK erased \in MayErase : EraseOther(erased)
    BY <1>3 DEF BreakOff
  <2> QED
    BY <1>3, <2>1, EraseKeepsFallback DEF BreakOff
<1>4. CASE Install
  <2>1. otaState[selected] = "valid" /\ Bootable(selected)
    BY <1>4 DEF Install, PartitionsInv
  <2>2. /\ selected' = Other(selected) /\ phase' = "installed"
        /\ otaState'[selected] = "valid" /\ image'[selected] = image[selected]
        /\ otaState'[Other(selected)] = "new"
        /\ image'[Other(selected)] = download.url
    BY <1>0, <1>4, <2>1 DEF Install, TypeOK
  <2>3. download.url \in Images
    BY <1>4 DEF Install, StepsInv, TypeOK
  <2> QED
    BY <1>0, <2>1, <2>2, <2>3 DEF PartitionsInv, Bootable
<1>5. CASE detectAndClearRollback
  <2>1. CASE otaState[Other(selected)] = "aborted"
    <3>1. otaState[selected] = "valid"
      BY <2>1 DEF PartitionsInv
    <3>2. otaState'[selected] = "valid" /\ UNCHANGED <<selected, image>>
      BY <1>0, <1>5, <2>1, <3>1 DEF detectAndClearRollback, TypeOK
    <3> QED
      BY <3>1, <3>2 DEF PartitionsInv, Bootable
  <2>2. CASE otaState[Other(selected)] # "aborted"
    BY <1>5, <2>2, PartitionsKept DEF detectAndClearRollback, flash
  <2> QED
    BY <2>1, <2>2
<1>6. CASE confirmFirmwareValid
  <2>1. Bootable(selected)
    BY <1>6 DEF confirmFirmwareValid, StepsInv, PartitionsInv, Bootable, Up, Running
  <2>2. otaState'[selected] = "valid" /\ UNCHANGED <<selected, image>>
    BY <1>0, <1>6 DEF confirmFirmwareValid, TypeOK
  <2> QED
    BY <2>1, <2>2 DEF PartitionsInv, Bootable
<1>7. CASE PowerCycle
  BY <1>7, PartitionsKept DEF PowerCycle
<1>8. CASE \/ LoadDeviceBootConfig \/ ReportFailedUpdate \/ NoUpdatePending
           \/ TakePendingUpdate \/ MarkAttempt \/ ClearMarker \/ InitDeviceRuntime
           \/ RecordBootOutcome \/ FinishBoot
  BY <1>8, PartitionsKept
     DEF LoadDeviceBootConfig, ReportFailedUpdate, NoUpdatePending, TakePendingUpdate,
         MarkAttempt, ClearMarker, InitDeviceRuntime, RecordBootOutcome, FinishBoot
<1>9. CASE HandlerTask \/ SyncTask \/ UpdateCommand \/ ReceiveUpdate \/ UNCHANGED vars
  BY <1>9, PartitionsKept
     DEF HandlerTask, ApplyConfig, EndUpdate, SyncTask, ReadRejection, PublishSync,
         UpdateCommand, ReceiveUpdate, vars, main
<1> QED
  BY <1>1, <1>2, <1>3, <1>4, <1>5, <1>6, <1>7, <1>8, <1>9
     DEF Next, MainTask, Restart, BrokenImageCrash, Crash

-----------------------------------------------------------------------------
(* What each step of an update has *)

\* A reset begins where nothing is said.
LEMMA PowerCycleSteps ==
  ASSUME PowerCycle
  PROVE  StepsInv'
  BY DEF PowerCycle, StepsInv, Up

\* Neither the attempt's marker nor its address is lost on the way, and the
\* handler and the SYNC task run in a device that is up.
LEMMA StepsStep ==
  ASSUME TypeOK, PartitionsInv, StepsInv, [Next]_vars
  PROVE  StepsInv'
<1> USE DEF StepsInv, Up, Subscribed, Running
<1>1. CASE Bootloader \/ LoadDeviceBootConfig \/ ReportFailedUpdate \/ NoUpdatePending
  BY <1>1 DEF Bootloader, LoadDeviceBootConfig, ReportFailedUpdate, NoUpdatePending,
     handler, reports
<1>2. CASE TakePendingUpdate
  BY <1>2 DEF TakePendingUpdate, IdleDownload, handler, reports
<1>3. CASE MarkAttempt \/ GiveUp \/ ClearMarker
  BY <1>3 DEF MarkAttempt, GiveUp, ClearMarker, nvs, handler, reports
<1>4. CASE BreakOff
  <2>1. /\ phase' \in {"downloading", "restarting"}
        /\ download'.url = download.url
        /\ UNCHANGED <<updateFailed, syncing, pc>>
    BY <1>4 DEF BreakOff, TypeOK, nvs, reports, handler
  <2> QED
    BY <1>4, <2>1 DEF BreakOff
<1>5. CASE Install
  BY <1>5 DEF Install, nvs, handler, reports
<1>6. CASE detectAndClearRollback \/ InitDeviceRuntime \/ RecordBootOutcome
  BY <1>6 DEF detectAndClearRollback, InitDeviceRuntime, RecordBootOutcome, handler,
     reports
<1>7. CASE FinishBoot
  BY <1>7 DEF FinishBoot, flash, handler, reports
<1>8. CASE confirmFirmwareValid
  BY <1>8 DEF confirmFirmwareValid, handler, reports
<1>9. CASE HandlerTask
  BY <1>9 DEF HandlerTask, ApplyConfig, EndUpdate, flash, main, reports
<1>10. CASE SyncTask
  BY <1>10 DEF SyncTask, ReadRejection, PublishSync, nvs, flash, main, handler
<1>11. CASE UpdateCommand \/ ReceiveUpdate
  BY <1>11 DEF UpdateCommand, ReceiveUpdate, nvs, flash, main, reports
<1>12. CASE Restart \/ BrokenImageCrash \/ Crash
  BY <1>12, PowerCycleSteps DEF Restart, BrokenImageCrash, Crash
<1>13. CASE UNCHANGED vars
  BY <1>13 DEF vars, nvs, flash, main, handler, reports
<1> QED
  BY <1>1, <1>2, <1>3, <1>4, <1>5, <1>6, <1>7, <1>8, <1>9, <1>10, <1>11, <1>12, <1>13
     DEF Next, MainTask

-----------------------------------------------------------------------------
(* Where the wanted update is *)

\* A reset leaves the update in NVS, or marked, or installed, or rolled back; of
\* what it forgets nothing is said.
LEMMA PowerCycleWanted ==
  ASSUME TypeOK, StepsInv, WantedInv, PowerCycle
  PROVE  WantedInv'
<1> SUFFICES ASSUME wanted' # NoImage PROVE WantedInv'
  BY DEF WantedInv
<1>1. /\ wanted # NoImage /\ wanted' = wanted /\ ~ Forgets
      /\ phase' = "off" /\ restarting' = FALSE
      /\ UNCHANGED <<pendingUpdate, updateFailed, image, otaState, selected>>
  BY DEF PowerCycle, nvs, flash
<1>2. phase # "taken" /\ ~ Rejects
  BY <1>1 DEF Forgets, Rejects
<1>3. pendingUpdate = wanted \/ updateFailed \/ Running = wanted \/ Aborted
  <2>1. CASE phase \in {"off", "booting", "aborting", "loaded"}
    BY <1>1, <2>1 DEF WantedInv
  <2>2. CASE phase \in {"downloading", "installed", "restarting"}
    BY <1>1, <2>2 DEF WantedInv, StepsInv
  <2>3. CASE phase \in {"detecting", "starting"} \cup Subscribed
    BY <1>1, <1>2, <2>3 DEF WantedInv
  <2> QED
    BY <1>2, <2>1, <2>2, <2>3 DEF TypeOK, Phases, Subscribed
<1> QED
  BY <1>1, <1>3 DEF WantedInv, Running, Aborted, Up, Subscribed

\* The wanted update is not lost between two steps, and what becomes of it the
\* next SYNC tells.
LEMMA WantedStep ==
  ASSUME TypeOK, PartitionsInv, StepsInv, WantedInv, [Next]_vars
  PROVE  WantedInv'
<1>0. selected \in Partitions /\ Other(selected) \in Partitions
      /\ Other(selected) # selected /\ Other(Other(selected)) = selected
  BY OtherDiffers DEF TypeOK
<1> USE DEF Up, Subscribed
<1>1. CASE Bootloader
  <2>1. UNCHANGED <<pendingUpdate, updateFailed, image, wanted, restarting>>
        /\ phase = "off" /\ phase' = "booting"
    BY <1>1 DEF Bootloader, nvs, handler, counts
  <2>2. CASE otaState[selected] = "pendingVerify"
    <3>1. selected' = Other(selected) /\ otaState'[selected] = "aborted"
      BY <1>0, <1>1, <2>2 DEF Bootloader, TypeOK
    <3>2. Aborted'
      BY <1>0, <3>1 DEF Aborted
    <3> QED
      BY <2>1, <3>2 DEF WantedInv
  <2>3. CASE otaState[selected] # "pendingVerify"
    <3>1. UNCHANGED selected /\ otaState'[Other(selected)] = otaState[Other(selected)]
      BY <1>0, <1>1, <2>3 DEF Bootloader, TypeOK
    <3>2. Running' = Running /\ (Aborted' <=> Aborted)
      BY <2>1, <3>1 DEF Running, Aborted
    <3> QED
      BY <2>1, <3>2 DEF WantedInv
  <2> QED
    BY <2>2, <2>3
<1>2. CASE LoadDeviceBootConfig \/ NoUpdatePending
  BY <1>2 DEF LoadDeviceBootConfig, NoUpdatePending, nvs, flash, handler, reports, counts,
     WantedInv, Running, Aborted, Rejects
<1>3. CASE ReportFailedUpdate
  <2>1. Rejects'
    BY <1>3 DEF ReportFailedUpdate, Rejects, NoRejection
  <2> QED
    BY <1>3, <2>1 DEF ReportFailedUpdate, handler, counts, WantedInv
<1>4. CASE TakePendingUpdate
  <2>1. /\ download'.url = pendingUpdate /\ pendingUpdate' = NoImage
        /\ phase = "loaded" /\ phase' = "taken"
        /\ UNCHANGED <<wanted, restarting>> /\ pendingUpdate # NoImage
    BY <1>4 DEF TakePendingUpdate, IdleDownload, handler
  <2> QED
    BY <2>1 DEF WantedInv
<1>5. CASE MarkAttempt
  BY <1>5 DEF MarkAttempt, handler, counts, WantedInv
<1>6. CASE GiveUp
  BY <1>6 DEF GiveUp, nvs, handler, counts, WantedInv, StepsInv
<1>7. CASE BreakOff
  <2>1. /\ phase = "downloading" /\ phase' \in {"downloading", "restarting"}
        /\ download'.url = download.url
        /\ UNCHANGED <<pendingUpdate, updateFailed, wanted, restarting>>
    BY <1>7 DEF BreakOff, TypeOK, nvs, handler, counts
  <2> QED
    BY <2>1 DEF WantedInv, StepsInv
<1>8. CASE Install
  <2>1. /\ phase' = "installed" /\ phase = "downloading"
        /\ UNCHANGED <<pendingUpdate, updateFailed, wanted, restarting>>
    BY <1>8 DEF Install, nvs, handler, counts
  <2>2. Running' = download.url
    BY <1>0, <1>8 DEF Install, Running, TypeOK
  <2> QED
    BY <2>1, <2>2 DEF WantedInv
<1>9. CASE ClearMarker
  <2>1. /\ phase = "installed" /\ phase' = "restarting" /\ Running' = Running
        /\ UNCHANGED <<pendingUpdate, wanted, restarting>>
    BY <1>9 DEF ClearMarker, handler, counts, flash, Running
  <2> QED
    BY <2>1 DEF WantedInv
<1>10. CASE detectAndClearRollback
  <2>1. /\ phase = "detecting" /\ phase' = "starting" /\ Running' = Running
        /\ UNCHANGED <<pendingUpdate, wanted, restarting>>
    BY <1>10 DEF detectAndClearRollback, nvs, handler, counts, Running
  <2>2. Aborted \/ Rejects => Rejects'
    BY <1>10 DEF detectAndClearRollback, Aborted, Rejects, NoRejection
  <2> QED
    BY <2>1, <2>2 DEF WantedInv
<1>11. CASE InitDeviceRuntime \/ RecordBootOutcome
  <2>1. /\ phase \in {"starting"} \cup Subscribed
        /\ phase' \in Subscribed \ Up /\ Running' = Running /\ (Rejects' <=> Rejects)
        /\ UNCHANGED <<pendingUpdate, wanted, restarting>>
    BY <1>11 DEF InitDeviceRuntime, RecordBootOutcome, nvs, handler, counts, flash,
       reports, Running, Rejects
  <2> QED
    BY <2>1 DEF WantedInv
<1>12. CASE FinishBoot
  <2>1. /\ phase = "settled" /\ phase' = "ready" /\ Running' = Running
        /\ (Rejects' <=> Rejects) /\ syncing' = syncing
        /\ UNCHANGED <<pendingUpdate, wanted, restarting>>
    BY <1>12 DEF FinishBoot, handler, counts, flash, reports, Running, Rejects
  <2>2. syncing = "idle"
    BY <2>1 DEF StepsInv
  <2> QED
    BY <2>1, <2>2 DEF WantedInv, NoRejection
<1>13. CASE confirmFirmwareValid
  <2>1. /\ phase = "ready" /\ phase' = "up" /\ Running' = Running
        /\ (Rejects' <=> Rejects) /\ syncing' = syncing
        /\ UNCHANGED <<pendingUpdate, wanted, restarting>>
    BY <1>13 DEF confirmFirmwareValid, nvs, handler, counts, reports, Running, Rejects
  <2> QED
    BY <2>1 DEF WantedInv
<1>14. CASE ApplyConfig
  BY <1>14 DEF ApplyConfig, flash, main, reports, WantedInv, Running, Aborted, Rejects
<1>15. CASE EndUpdate
  <2>1. pc # "idle" /\ phase \in Subscribed
    BY <1>15 DEF EndUpdate, StepsInv
  <2>2. UNCHANGED <<phase, updateFailed, firmwareRejection, syncing, image, selected>>
    BY <1>15 DEF EndUpdate, main, reports, flash
  <2>3. CASE job.url = NoImage
    BY <1>15, <2>2, <2>3 DEF EndUpdate, main, flash, reports, WantedInv, Running,
       Aborted, Rejects
  <2>4. CASE job.url # NoImage
    <3>1. wanted' = job.url /\ pendingUpdate' = job.url /\ restarting'
      BY <1>15, <2>4 DEF EndUpdate, startUpdate
    <3> QED
      BY <2>1, <2>2, <3>1 DEF WantedInv
  <2> QED
    BY <2>3, <2>4
<1>16. CASE ReadRejection
  <2>1. /\ phase \in Up /\ phase' = phase /\ Running' = Running
        /\ (Rejects' <=> Rejects) /\ syncing' = firmwareRejection
        /\ UNCHANGED <<pendingUpdate, wanted, restarting>>
    BY <1>16 DEF ReadRejection, nvs, flash, main, handler, counts, Running, Rejects
  <2> QED
    BY <2>1 DEF WantedInv, Rejects
<1>17. CASE PublishSync
  <2>1. /\ phase \in Up /\ phase' = phase
        /\ UNCHANGED <<pendingUpdate, restarting>>
        /\ wanted' = IF restarting THEN wanted ELSE NoImage
    BY <1>17 DEF PublishSync, nvs, main, handler
  <2> QED
    BY <2>1 DEF WantedInv
<1>18. CASE UpdateCommand
  BY <1>18 DEF UpdateCommand, WantedInv
<1>19. CASE ReceiveUpdate
  <2>1. \/ wanted' = NoImage
        \/ wanted' = wanted /\ firmwareRejection' = firmwareRejection
    BY <1>19 DEF ReceiveUpdate
  <2>2. /\ Running' = Running /\ (Aborted' <=> Aborted)
        /\ UNCHANGED <<phase, pendingUpdate, updateFailed, download, restarting, syncing>>
    BY <1>19 DEF ReceiveUpdate, nvs, flash, main, Running, Aborted
  <2> QED
    BY <2>1, <2>2 DEF WantedInv, Rejects
<1>20. CASE PowerCycle
  BY <1>20, PowerCycleWanted
<1>21. CASE UNCHANGED vars
  BY <1>21 DEF vars, nvs, flash, main, handler, reports, counts, WantedInv, Running,
     Aborted, Rejects
<1> QED
  BY <1>1, <1>2, <1>3, <1>4, <1>5, <1>6, <1>7, <1>8, <1>9, <1>10, <1>11, <1>12, <1>13,
     <1>14, <1>15, <1>16, <1>17, <1>18, <1>19, <1>20, <1>21
     DEF Next, MainTask, HandlerTask, SyncTask, Restart, BrokenImageCrash, Crash

-----------------------------------------------------------------------------
(* The theorems *)

\* A device leaves the factory with its image verified and nothing asked for.
LEMMA FInvInit == Init => FInv
<1> SUFFICES ASSUME Init PROVE FInv
  OBVIOUS
<1>1. AskedOnce /\ WantedInv
  BY DEF Init, AskedOnce, InNvs, InHandler, IdleJob, WantedInv
<1>2. PartitionsInv
  BY ImagesAssumption DEF Init, PartitionsInv, Bootable, Partitions
<1>3. StepsInv
  BY DEF Init, StepsInv, Up
<1> QED
  BY <1>1, <1>2, <1>3, InitTypeOK DEF FInv

\* The parts of the invariant are kept together.
LEMMA FInvStep == FInv /\ [Next]_vars => FInv'
  BY TypeStep, AskedStep, PartitionsStep, StepsStep, WantedStep DEF FInv

\* While an image is written, tried or rolled back there is another one that is
\* verified, and only one partition is ever unverified.
LEMMA FInvSafe == FInv => UpdatesSafe
<1> SUFFICES ASSUME FInv PROVE UpdatesSafe
  OBVIOUS
<1>1. FallbackKept
  <2>1. selected \in Partitions /\ Other(selected) \in Partitions
    BY OtherDiffers DEF FInv, TypeOK
  <2>2. \E p \in {selected, Other(selected)} : otaState[p] = "valid" /\ Bootable(p)
    BY DEF FInv, PartitionsInv
  <2> QED
    BY <2>1, <2>2, ImagesAssumption DEF FallbackKept, Bootable
<1>2. TriedOnce
  <2>1. tried \in Nat /\ asked \in Nat /\ tried + InNvs + InHandler <= asked
    BY BoundsAssumption DEF FInv, TypeOK, AskedOnce
  <2>2. InNvs \in {0, 1} /\ InHandler \in {0, 1}
    BY DEF InNvs, InHandler
  <2> QED
    BY <2>1, <2>2 DEF TriedOnce
<1> QED
  BY <1>1, <1>2 DEF UpdatesSafe

\* Whatever is downloaded, refused, interrupted or rolled back, one partition holds
\* a verified image that boots; and no request is tried twice, however the resets
\* fall between the two NVS writes of its attempt (HttpUpdate.hpp:80, :125).
THEOREM UpdatesAreSafe == Spec => []UpdatesSafe
  BY FInvInit, FInvStep, FInvSafe, PTL DEF Spec

\* The first SYNC after the device was restarted for an UPDATE's firmware names the
\* wanted version or carries a rejection, wherever the attempt ended: in the
\* download, before the installed image was confirmed, or in a rollback.
THEOREM FailuresAreExplained == Spec => SyncExplains
<1>1. FInv /\ [Next]_vars =>
        [PublishSync /\ ~ restarting /\ wanted \notin {NoImage, Running}
           => syncing # NoRejection]_vars
  BY DEF FInv, WantedInv, PublishSync
<1> QED
  BY <1>1, FInvInit, FInvStep, PTL DEF Spec, SyncExplains
=============================================================================
