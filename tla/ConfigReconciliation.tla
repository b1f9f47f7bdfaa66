------------------------ MODULE ConfigReconciliation ------------------------
(***************************************************************************)
(* How a device stores, tries, commits and reverts the configurations the  *)
(* server sends it: startDevice()'s use of the two slots, the UPDATE       *)
(* handler, and the SYNC task that advertises what is held.                *)
(*                                                                         *)
(* Persisted: configState and slots, one NVS write per step.  Everything   *)
(* else is RAM and goes with a restart.  Actors: the main task (phase),    *)
(* one task per incoming UPDATE (pc, job), the SYNC task, the server that  *)
(* sends UPDATEs and the power supply.                                     *)
(*                                                                         *)
(* An envelope is its fingerprint: the server gives equal fingerprints to  *)
(* equal bodies only.  Steps that touch RAM only, between two NVS accesses *)
(* of a task, are one action with the access they follow or precede.       *)
(* A local that is not read again goes back to its initial value.          *)
(***************************************************************************)
EXTENDS ConfigState, Naturals

CONSTANTS
  RebootNames,      \* configurations that only a boot can load
  FunctionNames,    \* configurations a running function can take over live
  Fingerprints,     \* what the server stamps on its envelopes
  NoFingerprint,    \* of an entry that a slot, an UPDATE or a manifest lacks
  FunctionsOf,      \* the functions each device configuration lists
  Faulty,           \* <<name, fingerprint>> of the bodies that fail to apply
  Fragile,          \* functions whose hardware may fail to start at any boot
  FactorySet,       \* what slot a holds at first: a network body, migrated from
                    \* an older firmware, or nothing
  Handlers,         \* tasks that can handle an UPDATE at the same time
  Updates,          \* the UPDATEs the server may send
  Server,           \* how the server times them
  MaxCrashes        \* bound on power losses and panics

DEVICE == "device"
NETWORK == "network"

Names == RebootNames \cup FunctionNames
Entries == Fingerprints \cup {NoFingerprint}
Contents == [Names -> Entries]
NoContents == [n \in Names |-> NoFingerprint]

ASSUME RebootNamesAssumption ==
  DEVICE \in RebootNames /\ RebootNames \subseteq {DEVICE, NETWORK}
ASSUME FunctionNamesAssumption == FunctionNames \cap {DEVICE, NETWORK} = {}
ASSUME FingerprintsAssumption == NoFingerprint \notin Fingerprints
ASSUME FunctionsOfAssumption ==
  FunctionsOf \in [Fingerprints -> SUBSET FunctionNames]
ASSUME FaultyAssumption == Faulty \subseteq Names \X Fingerprints
ASSUME FragileAssumption == Fragile \subseteq FunctionNames
ASSUME FactorySetAssumption ==
  /\ FactorySet \in Contents
  /\ \A n \in Names \ {NETWORK} : FactorySet[n] = NoFingerprint
ASSUME UpdatesAssumption == Updates \subseteq Contents
ASSUME ServerAssumption == Server \in {"patient", "redelivering", "eager"}
ASSUME MaxCrashesAssumption == MaxCrashes \in Nat

\* The functions that the device configuration of a set creates; without one
\* the device starts on defaults, which list none.
FunctionList(contents) ==
  IF contents[DEVICE] = NoFingerprint THEN {} ELSE FunctionsOf[contents[DEVICE]]

FaultyEntry(name, contents) == <<name, contents[name]>> \in Faulty

VARIABLES
  configState,      \* NVS "config-state"
  slots,            \* NVS "config-a", "config-b": what each slot holds
  phase,            \* where startDevice() is; "off" while the chip resets
  boot,             \* startDevice()'s snapshot: record, slot, strictness, outcome
  held,             \* fingerprints in RAM: what the manifest and the filter use
  live,             \* functions that were created
  pc,               \* where each UPDATE handler is
  job,              \* each UPDATE handler's locals
  syncTrigger,      \* the one-element queue the SYNC task waits on
  syncing,          \* the SYNC task cleared the queue and is about to publish
  pendingRejection, \* the rejection that rides on the next SYNC
  announced,        \* the manifest of this session's last SYNC
  published,        \* the UPDATE the server may deliver again
  crashes           \* power losses and panics so far

nvs == <<configState, slots>>
sync == <<syncTrigger, syncing, pendingRejection, announced>>
world == <<published, crashes>>
vars == <<nvs, phase, boot, held, live, pc, job, sync, world>>

Phases == {"off", "loaded", "running", "settled", "ready", "restarting"}
Steps ==
  {"idle", "stage", "write", "attempt", "apply", "reject", "restarting"}

IdleBoot ==
  [state |-> VirginState, slot |-> "a", strict |-> FALSE, applied |-> TRUE]
IdleJob ==
  [changed |-> NoContents, state |-> VirginState, slot |-> "a",
   merged |-> NoContents, todo |-> {}]
NoManifest == <<>>

Boots ==
  [state : ConfigStates, slot : Slots, strict : BOOLEAN, applied : BOOLEAN]
Jobs ==
  [changed : Contents, state : ConfigStates, slot : Slots, merged : Contents,
   todo : SUBSET Names]

TypeOK ==
  /\ configState \in ConfigStates
  /\ slots \in [Slots -> Contents]
  /\ phase \in Phases
  /\ boot \in Boots
  /\ held \in Contents
  /\ live \in SUBSET FunctionNames
  /\ pc \in [Handlers -> Steps]
  /\ job \in [Handlers -> Jobs]
  /\ syncTrigger \in BOOLEAN
  /\ syncing \in BOOLEAN
  /\ pendingRejection \in RejectionCodes \cup {NoRejection}
  /\ announced \in Contents \cup {NoManifest}
  /\ published \in Contents
  /\ crashes \in 0 .. MaxCrashes

RamCleared ==
  /\ phase = "off"
  /\ boot = IdleBoot
  /\ held = NoContents
  /\ live = {}
  /\ pc = [h \in Handlers |-> "idle"]
  /\ job = [h \in Handlers |-> IdleJob]
  /\ syncTrigger = FALSE
  /\ syncing = FALSE
  /\ pendingRejection = NoRejection
  /\ announced = NoManifest

Init ==
  /\ configState = VirginState
  /\ slots = [s \in Slots |-> IF s = "a" THEN FactorySet ELSE NoContents]
  /\ RamCleared
  /\ published = NoContents
  /\ crashes = 0

-----------------------------------------------------------------------------
(* The main task: startDevice() *)

\* Find the record, initialise it on a device without one, plan the boot,
\* persist the checkpoint and load what only a boot can load.
LoadDeviceBootConfig ==
  /\ phase = "off"
  /\ LET found == [configState EXCEPT !.confirmed = ConfirmedSlot(configState)]
         plan == decideBootPlan(found)
     IN  /\ configState' = plan.checkpoint
         /\ boot' = [state |-> plan.checkpoint, slot |-> plan.slotToLoad,
                     strict |-> plan.strict, applied |-> TRUE]
         /\ held' = [n \in Names |->
                       IF n \in RebootNames THEN slots[plan.slotToLoad][n]
                                            ELSE NoFingerprint]
  /\ phase' = "loaded"
  /\ UNCHANGED <<slots, live, pc, job, sync, world>>

PowerCycle ==
  /\ phase' = "off"
  /\ boot' = IdleBoot
  /\ held' = NoContents
  /\ live' = {}
  /\ pc' = [h \in Handlers |-> "idle"]
  /\ job' = [h \in Handlers |-> IdleJob]
  /\ syncTrigger' = FALSE
  /\ syncing' = FALSE
  /\ pendingRejection' = NoRejection
  /\ announced' = NoManifest
  /\ UNCHANGED <<nvs, published>>

\* A device or network configuration that does not parse stops the boot.
AbortBoot ==
  /\ phase = "loaded"
  /\ \E n \in RebootNames : FaultyEntry(n, held)
  /\ PowerCycle
  /\ UNCHANGED crashes

\* Create the peripherals and functions, then subscribe to UPDATE.  A faulty
\* device configuration that parses shows as a peripheral error here.
InitDeviceRuntime ==
  /\ phase = "loaded"
  /\ \A n \in RebootNames \ {DEVICE} : ~ FaultyEntry(n, held)
  /\ \E broken \in SUBSET Fragile :
       LET stored == slots[boot.slot]
           list == FunctionList(held)
           created == {f \in list \ broken : ~ FaultyEntry(f, stored)}
       IN  /\ live' = created
           /\ held' = [n \in Names |-> IF n \in created THEN stored[n] ELSE held[n]]
           /\ boot' = [boot EXCEPT !.applied =
                         created = list /\ ~ FaultyEntry(DEVICE, held)]
  /\ phase' = "running"
  /\ UNCHANGED <<nvs, pc, job, sync, world>>

\* A strict boot commits or rejects, from the snapshot taken when it began.
RecordBootOutcome ==
  /\ phase = "running"
  /\ IF boot.strict
     THEN LET outcome == recordStrictBootOutcome(
                           boot.state, boot.slot, boot.applied, "Internal")
          IN  /\ configState' = outcome
              /\ boot' = [boot EXCEPT !.state = outcome]
              /\ phase' = IF boot.applied THEN "settled" ELSE "restarting"
     ELSE /\ phase' = "settled"
          /\ UNCHANGED <<configState, boot>>
  /\ UNCHANGED <<slots, held, live, pc, job, sync, world>>

\* Take the rejection off the record, publish BOOT and set kernelReady.
FinishBoot ==
  /\ phase = "settled"
  /\ IF boot.state.rejection # NoRejection
     THEN configState' = [boot.state EXCEPT !.rejection = NoRejection]
     ELSE UNCHANGED configState
  /\ pendingRejection' = boot.state.rejection
  /\ phase' = "ready"
  /\ boot' = IdleBoot
  /\ UNCHANGED <<slots, held, live, pc, job, syncTrigger, syncing, announced,
                 world>>

-----------------------------------------------------------------------------
(* The UPDATE handler; each delivery runs in a task of its own *)

Subscribed == phase \in {"running", "settled", "ready", "restarting"}

Quiet == \A h \in Handlers : pc[h] = "idle"

\* A patient server sends an UPDATE only in answer to a SYNC, and not while
\* it waits for the outcome of the previous one.  QoS 1 may deliver the last
\* UPDATE again while the device is up.  An eager server pushes at any time.
MayDeliver(update) ==
  \/ phase = "ready" /\ Quiet
  \/ Server = "redelivering" /\ phase = "ready" /\ update = published
  \/ Server = "eager"

\* The entries of an UPDATE that differ from what is held.
filterUpdate(update) ==
  [n \in Names |-> IF update[n] = held[n] THEN NoFingerprint ELSE update[n]]

Named(contents) == {n \in Names : contents[n] # NoFingerprint}

ReceiveUpdate(h) ==
  /\ Subscribed
  /\ pc[h] = "idle"
  /\ \E update \in Updates :
       /\ MayDeliver(update)
       /\ filterUpdate(update) # NoContents
       /\ job' = [job EXCEPT ![h].changed = filterUpdate(update)]
       /\ published' = IF Server = "redelivering" THEN update ELSE published
  /\ pc' = [pc EXCEPT ![h] = "stage"]
  /\ UNCHANGED <<nvs, phase, boot, held, live, sync, crashes>>

\* The confirmed set's entries that the staged set starts from: the device,
\* the network if there is one, and every function in the manifest.
Carried(confirmed) ==
  {n \in RebootNames \cup live : n = NETWORK => confirmed[n] # NoFingerprint}

StageUpdate(h) ==
  /\ pc[h] = "stage"
  /\ LET confirmed == slots[ConfirmedSlot(configState)]
         changed == job[h].changed
         carried == Carried(confirmed)
         next == stageDeviceUpdate(configState)
     IN  job' = [job EXCEPT
           ![h].state = next,
           ![h].slot = next.requested.slot,
           ![h].merged = [n \in Names |->
                            IF n \in Named(changed) THEN changed[n]
                            ELSE IF n \in carried THEN confirmed[n]
                            ELSE NoFingerprint],
           ![h].todo = Named(changed) \cup carried]
  /\ pc' = [pc EXCEPT ![h] = "write"]
  /\ UNCHANGED <<nvs, phase, boot, held, live, sync, world>>

\* One envelope into the free slot; the order is a hash map's.
WriteEntry(h) ==
  /\ pc[h] = "write"
  /\ \E n \in job[h].todo :
       /\ slots' = [slots EXCEPT ![job[h].slot][n] = job[h].merged[n]]
       /\ job' = [job EXCEPT ![h].todo = @ \ {n}]
  /\ UNCHANGED <<configState, phase, boot, held, live, pc, sync, world>>

NeedsReboot(h) == Named(job[h].changed) \cap RebootNames # {}

\* Seeded fault: the record is saved before the slot is complete.
SavePendingFirst(h) ==
  /\ pc[h] = "write"
  /\ NeedsReboot(h)
  /\ configState' = job[h].state
  /\ pc' = [pc EXCEPT ![h] = "restarting"]
  /\ job' = [job EXCEPT ![h] = IdleJob]
  /\ UNCHANGED <<slots, phase, boot, held, live, sync, world>>

SavePending(h) ==
  /\ pc[h] = "write"
  /\ job[h].todo = {}
  /\ configState' = job[h].state
  /\ pc' = [pc EXCEPT ![h] = IF NeedsReboot(h) THEN "restarting" ELSE "attempt"]
  /\ job' = [job EXCEPT ![h] = IF NeedsReboot(h)
                               THEN IdleJob
                               ELSE [@ EXCEPT !.merged = NoContents]]
  /\ UNCHANGED <<slots, phase, boot, held, live, sync, world>>

SaveAttempted(h) ==
  /\ pc[h] = "attempt"
  /\ configState' = markAttempted(job[h].state)
  /\ job' = [job EXCEPT ![h].state = markAttempted(@),
                        ![h].todo = Named(job[h].changed)]
  /\ pc' = [pc EXCEPT ![h] = "apply"]
  /\ UNCHANGED <<slots, phase, boot, held, live, sync, world>>

\* Seeded fault: the function takes over the body and keeps the old fingerprint.
ApplyBodyOnly(h) ==
  /\ pc[h] = "apply"
  /\ \E n \in job[h].todo :
       IF n \in live /\ ~ FaultyEntry(n, job[h].changed)
       THEN job' = [job EXCEPT ![h].todo = @ \ {n}] /\ UNCHANGED pc
       ELSE pc' = [pc EXCEPT ![h] = "reject"] /\ UNCHANGED job
  /\ UNCHANGED <<nvs, phase, boot, held, live, sync, world>>

\* FunctionRegistry::applyLive() takes over a body, or stops at a faulty one
\* or at a function that does not exist.
ApplyLive(h) ==
  /\ pc[h] = "apply"
  /\ \E n \in job[h].todo :
       IF n \in live /\ ~ FaultyEntry(n, job[h].changed)
       THEN /\ held' = [held EXCEPT ![n] = job[h].changed[n]]
            /\ job' = [job EXCEPT ![h].todo = @ \ {n}]
            /\ UNCHANGED pc
       ELSE /\ pc' = [pc EXCEPT ![h] = "reject"]
            /\ UNCHANGED <<held, job>>
  /\ UNCHANGED <<nvs, phase, boot, live, sync, world>>

\* Seeded fault: a live commit does not ask for a SYNC.
CommitSilently(h) ==
  /\ pc[h] = "apply"
  /\ job[h].todo = {}
  /\ configState' = recordStrictBootOutcome(
                      job[h].state, job[h].slot, TRUE, "Internal")
  /\ pc' = [pc EXCEPT ![h] = "idle"]
  /\ job' = [job EXCEPT ![h] = IdleJob]
  /\ UNCHANGED <<slots, phase, boot, held, live, sync, world>>

\* FunctionsApplied: flip the confirmed slot and ask for a SYNC.
CommitLive(h) ==
  /\ pc[h] = "apply"
  /\ job[h].todo = {}
  /\ configState' = recordStrictBootOutcome(
                      job[h].state, job[h].slot, TRUE, "Internal")
  /\ syncTrigger' = TRUE
  /\ pc' = [pc EXCEPT ![h] = "idle"]
  /\ job' = [job EXCEPT ![h] = IdleJob]
  /\ UNCHANGED <<slots, phase, boot, held, live, syncing, pendingRejection,
                 announced, world>>

\* FunctionsFailed: mark the request rejected and restart to revert.
RejectLive(h) ==
  /\ pc[h] = "reject"
  /\ configState' = recordStrictBootOutcome(
                      job[h].state, job[h].slot, FALSE, "Internal")
  /\ pc' = [pc EXCEPT ![h] = "restarting"]
  /\ job' = [job EXCEPT ![h] = IdleJob]
  /\ UNCHANGED <<slots, phase, boot, held, live, sync, world>>

-----------------------------------------------------------------------------
(* The SYNC task, and resets *)

\* MqttDriver tells its listeners of a (re)connection.
Connected ==
  /\ phase # "off"
  /\ syncTrigger' = TRUE
  /\ UNCHANGED <<nvs, phase, boot, held, live, pc, job, syncing,
                 pendingRejection, announced, world>>

\* take() a trigger, await kernelReady, clear() the queue.
TakeSyncTrigger ==
  /\ phase = "ready"
  /\ ~ syncing
  /\ syncTrigger
  /\ syncTrigger' = FALSE
  /\ syncing' = TRUE
  /\ UNCHANGED <<nvs, phase, boot, held, live, pc, job, pendingRejection,
                 announced, world>>

\* Seeded fault: the manifest lists the functions and forgets the rest.
PublishFunctionsOnly ==
  /\ syncing
  /\ syncing' = FALSE
  /\ pendingRejection' = NoRejection
  /\ announced' = [f \in live |-> held[f]]
  /\ UNCHANGED <<nvs, phase, boot, held, live, pc, job, syncTrigger, world>>

PublishSync ==
  /\ syncing
  /\ syncing' = FALSE
  /\ pendingRejection' = NoRejection
  /\ announced' = held
  /\ UNCHANGED <<nvs, phase, boot, held, live, pc, job, syncTrigger, world>>

\* The end of somebody's delayedRestart().
Restart ==
  /\ phase = "restarting" \/ \E h \in Handlers : pc[h] = "restarting"
  /\ PowerCycle
  /\ UNCHANGED crashes

Crash ==
  /\ phase # "off"
  /\ crashes < MaxCrashes
  /\ crashes' = crashes + 1
  /\ PowerCycle

-----------------------------------------------------------------------------
MainTask ==
  \/ LoadDeviceBootConfig
  \/ AbortBoot
  \/ InitDeviceRuntime
  \/ RecordBootOutcome
  \/ FinishBoot

HandlerTask(h) ==
  \/ StageUpdate(h)
  \/ WriteEntry(h)
  \/ SavePending(h)
  \/ SaveAttempted(h)
  \/ ApplyLive(h)
  \/ CommitLive(h)
  \/ RejectLive(h)

SyncTask == TakeSyncTrigger \/ PublishSync

Next ==
  \/ MainTask
  \/ \E h \in Handlers : ReceiveUpdate(h) \/ HandlerTask(h)
  \/ Connected
  \/ SyncTask
  \/ Restart
  \/ Crash

\* FreeRTOS schedules every ready task, and delayedRestart() ends in 5 s.
\* Nothing is assumed of the server, the network or the power supply.
Fairness ==
  /\ WF_vars(MainTask)
  /\ \A h \in Handlers : WF_vars(HandlerTask(h))
  /\ WF_vars(SyncTask)
  /\ WF_vars(Restart)

Spec == Init /\ [][Next]_vars
FairSpec == Spec /\ Fairness

-----------------------------------------------------------------------------
(* Properties *)

\* No body of the set fails to apply, but for functions that may not start.
Sound(contents) ==
  /\ \A n \in RebootNames : ~ FaultyEntry(n, contents)
  /\ \A f \in FunctionList(contents) \ Fragile : ~ FaultyEntry(f, contents)

ConfirmedSet == slots[ConfirmedSlot(configState)]

\* UPDATEs are handled one after another, each in a device that is up.  Nothing
\* in the code sees to that; a server that waits for answers does.
UpdatesTakeTurns ==
  /\ \A h, i \in Handlers : pc[h] # "idle" /\ pc[i] # "idle" => h = i
  /\ \A h \in Handlers : pc[h] # "idle" => phase = "ready"

(***************************************************************************)
(* Whoever saves a record, and however stale the record it started from,   *)
(* the slot on trial is never the confirmed one: what a revert falls back  *)
(* to is never what is being tried (stageDeviceUpdate, otherSlot).  Stated *)
(* of the persisted record and of every copy a task could still save.      *)
(***************************************************************************)
RevertTargetKept ==
  /\ TriesFreeSlot(configState)
  /\ TriesFreeSlot(boot.state)
  /\ \A h \in Handlers : TriesFreeSlot(job[h].state)

(***************************************************************************)
(* "confirmed" is last-known-good: it only ever names a set whose every    *)
(* body this device can apply, also after crashes at any NVS write.  Of a  *)
(* function whose hardware may not start nothing is said (Sound).          *)
(***************************************************************************)
ConfirmedSound == Sound(ConfirmedSet)

(***************************************************************************)
(* The same of every function that the confirmed set creates: its entry    *)
(* came through a trial, whether or not the hardware starts at each boot.  *)
(***************************************************************************)
ConfirmedApplies ==
  \A f \in FunctionList(ConfirmedSet) : ~ FaultyEntry(f, ConfirmedSet)

(***************************************************************************)
(* The device can boot: the confirmed slot's device and network            *)
(* configurations parse.  A best-effort boot has nothing to fall back to,  *)
(* abortBoot() would stop every boot from then on.                         *)
(***************************************************************************)
ConfirmedBoots == \A n \in RebootNames : ~ FaultyEntry(n, ConfirmedSet)

(***************************************************************************)
(* No NVS write changes an entry of the confirmed slot: a crash in the     *)
(* middle of staging, and a revert after a partial live apply, find the    *)
(* old set whole (applyConfigUpdate writes to the free slot only).         *)
(***************************************************************************)
ConfirmedSlotUntouched ==
  [][ConfirmedSet = slots'[ConfirmedSlot(configState)]]_vars

(***************************************************************************)
(* Once the device is quiet, what it last told the server it holds is what *)
(* it would come back with after a power loss, and that is one whole slot: *)
(* SYNC reads RAM, a boot reads the slot, and no step relates the two.     *)
(* Of a function whose hardware did not start it tells that it has none.   *)
(***************************************************************************)
AnnouncedIsDurable ==
  (phase = "ready" /\ Quiet /\ ~ syncTrigger /\ ~ syncing /\ announced # NoManifest)
    => \A n \in RebootNames \cup (FunctionList(ConfirmedSet) \ (Fragile \ live)) :
         announced[n] = ConfirmedSet[n]

(***************************************************************************)
(* What the device falls back to came through a trial, and is what it last *)
(* told the server it holds.                                               *)
(***************************************************************************)
SetsSound == ConfirmedSound /\ AnnouncedIsDurable

(***************************************************************************)
(* A revert is not silent: a request that is dropped without its slot      *)
(* becoming the confirmed one leaves a rejection on the record, which only *)
(* the end of a boot takes off.                                            *)
(***************************************************************************)
RevertLeavesRejection ==
  [][(/\ HasRequest(configState)
      /\ ~ HasRequest(configState')
      /\ configState'.confirmed # configState.requested.slot)
       => configState'.rejection # NoRejection]_vars

(***************************************************************************)
(* A commit is final: while nothing is requested, no write moves the       *)
(* confirmed pointer; only the outcome of a trial does.                    *)
(***************************************************************************)
CommitIsFinal ==
  [][(configState.confirmed # NoSlot /\ ~ HasRequest(configState))
       => configState'.confirmed = configState.confirmed]_vars

(***************************************************************************)
(* The three rules of the record taken together: the confirmed slot is not *)
(* written, a revert tells why, and a commit stands.                       *)
(***************************************************************************)
HistoryKept == ConfirmedSlotUntouched /\ RevertLeavesRejection /\ CommitIsFinal

(***************************************************************************)
(* A staged set does not stay on trial for ever: it is committed or        *)
(* reverted once power losses stop.                                        *)
(***************************************************************************)
TrialSettles == HasRequest(configState) ~> ~ HasRequest(configState)

(***************************************************************************)
(* What a live apply changed is advertised: a SYNC that missed it is       *)
(* followed by another one, unless the device restarts first (the queue    *)
(* is cleared before the manifest is read, never after).                   *)
(***************************************************************************)
ChangeAnnounced ==
  (announced # NoManifest /\ announced # held)
    ~> (announced = held \/ phase = "off")

(***************************************************************************)
(* What an UPDATE began comes to an end, and the server hears of it.       *)
(***************************************************************************)
Settles == TrialSettles /\ ChangeAnnounced

\* A set that an UPDATE makes of the confirmed one: what the UPDATE names is
\* the UPDATE's, everything else in use is carried over.  Entries that nothing
\* used are whatever the slot held before, and so may be the entry of a
\* function that did not start.
MayStage(confirmed, set) ==
  /\ set \in Contents
  /\ \E update \in Updates :
       \A n \in Names :
         IF update[n] # NoFingerprint
         THEN set[n] = update[n]
         ELSE n \in RebootNames \cup (FunctionList(confirmed) \ Fragile)
                => set[n] = confirmed[n]

OnTrial ==
  IF HasRequest(configState) THEN slots[configState.requested.slot] ELSE NoManifest

Atomic ==
  INSTANCE AtomicConfig WITH
    NoSet <- NoManifest,
    MayStage <- MayStage,
    SoundSets <- {contents \in Contents : Sound(contents)},
    FirstSet <- FactorySet,
    active <- ConfirmedSet,
    trial <- OnTrial,
    rejected <- configState.rejection # NoRejection

(***************************************************************************)
(* What a crash brings back changes in one step, from one whole set that   *)
(* came through its trial to another, and a trial is the confirmed set     *)
(* with one UPDATE applied to it: the slots and the record, written entry  *)
(* by entry, implement AtomicConfig.                                       *)
(***************************************************************************)
ImplementsAtomicConfig == Atomic!Spec
=============================================================================
