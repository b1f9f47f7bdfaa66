---------------------- MODULE ConfigReconciliationProofs ----------------------
(***************************************************************************)
(* Proofs about ConfigReconciliation.  Type correctness and                *)
(* RevertTargetKept hold for every instance of its constants: any number   *)
(* of UPDATE handlers, any server, any faults.  What the device promises   *)
(* of its record and of whole sets holds while UPDATEs take turns, and is  *)
(* proved in the second half, for any server, names, bodies, functions     *)
(* whose hardware fails, number of handlers and of crashes.                *)
(***************************************************************************)
EXTENDS ConfigReconciliation, TLAPS

-----------------------------------------------------------------------------
(* What the functions of ConfigState return and keep, and that the slot on  *)
(* trial stays the free one.                                               *)

\* The confirmed slot is a slot also on a device that has no record yet.
LEMMA ConfirmedSlotIsSlot ==
  ASSUME NEW state \in ConfigStates
  PROVE  ConfirmedSlot(state) \in Slots
  BY DEF ConfigStates, ConfirmedSlot, Slots, NoSlot

\* The other slot is a slot, and a different one.
LEMMA OtherSlotDiffers ==
  ASSUME NEW slot \in Slots
  PROVE  otherSlot(slot) \in Slots /\ otherSlot(slot) # slot
  BY DEF otherSlot, Slots

\* The record of a device that was never used is one.
LEMMA VirginStateType == VirginState \in ConfigStates /\ ~ HasRequest(VirginState)
  BY DEF VirginState, ConfigStates, NoRequest, HasRequest

\* A request names a slot.
LEMMA RequestedSlotIsSlot ==
  ASSUME NEW state \in ConfigStates
  PROVE  state.requested.slot \in Slots
  BY DEF ConfigStates, Requests, NoRequest, Slots

\* loadDeviceBootConfig()'s initialisation only fills in the confirmed slot.
LEMMA InitialisedState ==
  ASSUME NEW state \in ConfigStates,
         NEW found, found = [state EXCEPT !.confirmed = ConfirmedSlot(state)]
  PROVE  /\ found \in ConfigStates
         /\ found.confirmed \in Slots
         /\ ConfirmedSlot(found) = ConfirmedSlot(state)
         /\ found.requested = state.requested
         /\ found.rejection = state.rejection
         /\ TriesFreeSlot(state) => TriesFreeSlot(found)
  BY ConfirmedSlotIsSlot
     DEF ConfigStates, ConfirmedSlot, Slots, NoSlot, TriesFreeSlot, HasRequest

\* Marking a staged request attempted changes nothing else.
LEMMA AttemptFacts ==
  ASSUME NEW state \in ConfigStates
  PROVE  /\ markAttempted(state) \in ConfigStates
         /\ markAttempted(state).requested =
              [slot |-> state.requested.slot, status |-> "attempted"]
         /\ markAttempted(state).requested.slot = state.requested.slot
         /\ markAttempted(state).confirmed = state.confirmed
         /\ markAttempted(state).rejection = state.rejection
         /\ HasRequest(markAttempted(state))
         /\ HasRequest(state) /\ TriesFreeSlot(state)
              => TriesFreeSlot(markAttempted(state))
  BY DEF markAttempted, ConfigStates, Requests, NoRequest, Statuses, Slots,
     TriesFreeSlot, HasRequest, ConfirmedSlot

\* The plan of a boot is well-formed and confirms nothing; it is strict for a
\* pending request only, and tries that request's slot.
LEMMA BootPlanFacts ==
  ASSUME NEW state \in ConfigStates,
         NEW plan, plan = decideBootPlan(state)
  PROVE  /\ plan.slotToLoad \in Slots
         /\ plan.strict \in BOOLEAN
         /\ plan.checkpoint \in ConfigStates
         /\ plan.checkpoint.confirmed = state.confirmed
         /\ TriesFreeSlot(state) => TriesFreeSlot(plan.checkpoint)
         /\ plan.strict =>
              plan.checkpoint.requested = [slot |-> plan.slotToLoad,
                                           status |-> "attempted"]
         /\ ~ plan.strict =>
              /\ plan.slotToLoad = ConfirmedSlot(state)
              /\ ~ HasRequest(plan.checkpoint)
<1>1. ConfirmedSlot(state) \in Slots /\ state.requested.slot \in Slots
  BY ConfirmedSlotIsSlot, RequestedSlotIsSlot
<1>2. CASE state.requested.status = "pending"
  BY <1>1, <1>2, AttemptFacts DEF decideBootPlan, HasRequest
<1>3. CASE state.requested.status # "pending"
  BY <1>1, <1>3 DEF decideBootPlan, ConfigStates, Requests, NoRequest, Statuses,
     RejectionCodes, NoRejection, TriesFreeSlot, HasRequest, ConfirmedSlot
<1> QED
  BY <1>2, <1>3

\* A boot that finds a request either tries it or leaves a rejection.
LEMMA RevertedWithRejection ==
  ASSUME NEW state \in ConfigStates, HasRequest(state),
         NEW plan, plan = decideBootPlan(state), ~ HasRequest(plan.checkpoint)
  PROVE  plan.checkpoint.rejection # NoRejection
<1>1. state.requested.status # "pending"
  BY AttemptFacts DEF decideBootPlan
<1> QED
  BY <1>1 DEF decideBootPlan, ConfigStates, NoRejection

\* A commit confirms the slot that was tried and ends the trial.
LEMMA CommitFacts ==
  ASSUME NEW state \in ConfigStates, NEW slot \in Slots, NEW code
  PROVE  LET outcome == recordStrictBootOutcome(state, slot, TRUE, code)
         IN  /\ outcome \in ConfigStates
             /\ outcome.confirmed = slot
             /\ ConfirmedSlot(outcome) = slot
             /\ ~ HasRequest(outcome)
             /\ TriesFreeSlot(outcome)
             /\ outcome.rejection = state.rejection
  BY DEF recordStrictBootOutcome, ConfigStates, NoRequest, TriesFreeSlot,
     HasRequest, ConfirmedSlot, Slots, NoSlot

\* A rejection confirms nothing and leaves the same slot on trial.
LEMMA RejectFacts ==
  ASSUME NEW state \in ConfigStates, NEW slot \in Slots, NEW code \in RejectionCodes
  PROVE  LET outcome == recordStrictBootOutcome(state, slot, FALSE, code)
         IN  /\ outcome \in ConfigStates
             /\ outcome.confirmed = state.confirmed
             /\ outcome.requested = [slot |-> slot, status |-> "rejected"]
             /\ outcome.rejection = code
             /\ slot # ConfirmedSlot(state) => TriesFreeSlot(outcome)
  BY DEF recordStrictBootOutcome, ConfigStates, Requests, Statuses, TriesFreeSlot,
     HasRequest, ConfirmedSlot

\* Staging marks the free slot pending and changes nothing else.
LEMMA StageFacts ==
  ASSUME NEW state \in ConfigStates,
         NEW next, next = stageDeviceUpdate(state)
  PROVE  /\ next \in ConfigStates
         /\ next.requested = [slot |-> otherSlot(ConfirmedSlot(state)),
                              status |-> "pending"]
         /\ next.requested.slot \in Slots
         /\ next.confirmed = state.confirmed
         /\ next.rejection = state.rejection
         /\ HasRequest(next)
         /\ TriesFreeSlot(next)
<1>1. ConfirmedSlot(state) \in Slots
  BY ConfirmedSlotIsSlot
<1>2. /\ otherSlot(ConfirmedSlot(state)) \in Slots
      /\ otherSlot(ConfirmedSlot(state)) # ConfirmedSlot(state)
  BY <1>1, OtherSlotDiffers
<1> QED
  BY <1>1, <1>2 DEF stageDeviceUpdate, ConfigStates, Requests, NoRequest, Statuses,
     TriesFreeSlot, HasRequest, ConfirmedSlot

\* Taking the rejection off a record changes nothing else.
LEMMA ReportedFacts ==
  ASSUME NEW state \in ConfigStates,
         NEW reported, reported = [state EXCEPT !.rejection = NoRejection]
  PROVE  /\ reported \in ConfigStates
         /\ reported.confirmed = state.confirmed
         /\ reported.requested = state.requested
         /\ TriesFreeSlot(state) => TriesFreeSlot(reported)
  BY DEF ConfigStates, TriesFreeSlot, HasRequest, ConfirmedSlot

-----------------------------------------------------------------------------
(* Values *)

\* What RAM holds after a reset is well-formed.
LEMMA IdleValues ==
  /\ NoContents \in Contents
  /\ IdleBoot \in Boots
  /\ IdleJob \in Jobs
<1>1. NoContents \in Contents
  BY DEF NoContents, Contents, Entries
<1> QED
  BY <1>1, VirginStateType DEF IdleBoot, IdleJob, Boots, Jobs, Slots

\* A set's functions are function names, and those are names.
LEMMA FunctionListType ==
  ASSUME NEW contents \in Contents
  PROVE  FunctionList(contents) \subseteq FunctionNames
<1>1. DEVICE \in Names
  BY RebootNamesAssumption DEF Names
<1> QED
  BY <1>1, FunctionsOfAssumption DEF FunctionList, Contents, Entries

-----------------------------------------------------------------------------
(* Type correctness *)

\* A reset keeps NVS and clears everything else.
LEMMA PowerCycleType ==
  ASSUME TypeOK, PowerCycle, crashes' \in 0 .. MaxCrashes
  PROVE  TypeOK'
  BY IdleValues DEF TypeOK, PowerCycle, nvs, Phases, Steps

\* Every step leaves every variable well-formed.
LEMMA TypeStep ==
  ASSUME TypeOK, [Next]_vars
  PROVE  TypeOK'
<1> USE DEF Phases, Steps
<1>1. CASE LoadDeviceBootConfig
  <2> DEFINE found == [configState EXCEPT !.confirmed = ConfirmedSlot(configState)]
             plan == decideBootPlan(found)
  <2>1. found \in ConfigStates
    BY InitialisedState DEF TypeOK
  <2>2. /\ plan.slotToLoad \in Slots
        /\ plan.strict \in BOOLEAN
        /\ plan.checkpoint \in ConfigStates
    BY <2>1, BootPlanFacts
  <2>3. /\ configState' = plan.checkpoint
        /\ boot' = [state |-> plan.checkpoint, slot |-> plan.slotToLoad,
                    strict |-> plan.strict, applied |-> TRUE]
        /\ held' = [n \in Names |->
                      IF n \in RebootNames THEN slots[plan.slotToLoad][n]
                                           ELSE NoFingerprint]
    BY <1>1 DEF LoadDeviceBootConfig
  <2> HIDE DEF found, plan
  <2>4. boot' \in Boots
    BY <2>2, <2>3 DEF Boots
  <2>5. held' \in Contents
    BY <2>2, <2>3 DEF TypeOK, Contents, Entries
  <2> QED
    BY <1>1, <2>2, <2>3, <2>4, <2>5 DEF LoadDeviceBootConfig, TypeOK, sync, world
<1>2. CASE AbortBoot
  BY <1>2, PowerCycleType DEF AbortBoot, TypeOK
<1>3. CASE InitDeviceRuntime
  <2>1. PICK broken \in SUBSET Fragile :
          LET stored == slots[boot.slot]
              list == FunctionList(held)
              created == {f \in list \ broken : ~ FaultyEntry(f, stored)}
          IN  /\ live' = created
              /\ held' = [n \in Names |-> IF n \in created THEN stored[n] ELSE held[n]]
              /\ boot' = [boot EXCEPT !.applied =
                            created = list /\ ~ FaultyEntry(DEVICE, held)]
    BY <1>3 DEF InitDeviceRuntime
  <2>2. FunctionList(held) \subseteq FunctionNames
    BY FunctionListType DEF TypeOK
  <2>3. slots[boot.slot] \in Contents
    BY DEF TypeOK, Boots
  <2>4. held' \in Contents
    BY <2>1, <2>3 DEF TypeOK, Contents
  <2>5. boot' \in Boots
    BY <2>1 DEF TypeOK, Boots
  <2> QED
    BY <1>3, <2>1, <2>2, <2>4, <2>5 DEF InitDeviceRuntime, TypeOK, nvs, sync, world
<1>4. CASE RecordBootOutcome
  <2>1. /\ boot \in Boots
        /\ "Internal" \in RejectionCodes
    BY DEF TypeOK, RejectionCodes
  <2>2. recordStrictBootOutcome(boot.state, boot.slot, boot.applied, "Internal")
          \in ConfigStates
    <3>1. CASE boot.applied = TRUE
      BY <3>1, <2>1, CommitFacts DEF Boots
    <3>2. CASE boot.applied = FALSE
      BY <3>2, <2>1, RejectFacts DEF Boots
    <3> QED
      BY <2>1, <3>1, <3>2 DEF Boots
  <2>3. configState' \in ConfigStates /\ boot' \in Boots
    BY <1>4, <2>1, <2>2 DEF RecordBootOutcome, TypeOK, Boots
  <2>4. phase' \in Phases
    BY <1>4 DEF RecordBootOutcome
  <2> QED
    BY <1>4, <2>3, <2>4 DEF RecordBootOutcome, TypeOK, sync, world
<1>5. CASE FinishBoot
  <2>1. boot.state \in ConfigStates
    BY DEF TypeOK, Boots
  <2>2. configState' \in ConfigStates
    BY <1>5, <2>1, ReportedFacts DEF FinishBoot, TypeOK
  <2>3. pendingRejection' \in RejectionCodes \cup {NoRejection}
    BY <1>5, <2>1 DEF FinishBoot, ConfigStates
  <2> QED
    BY <1>5, <2>2, <2>3, IdleValues DEF FinishBoot, TypeOK, world
<1>6. ASSUME NEW h \in Handlers, ReceiveUpdate(h) PROVE TypeOK'
  <2>1. PICK update \in Updates :
          /\ job' = [job EXCEPT ![h].changed = filterUpdate(update)]
          /\ published' = IF Server = "redelivering" THEN update ELSE published
    BY <1>6 DEF ReceiveUpdate
  <2>2. update \in Contents
    BY UpdatesAssumption
  <2>3. filterUpdate(update) \in Contents
    BY <2>2 DEF filterUpdate, Contents, Entries
  <2>4. job' \in [Handlers -> Jobs]
    BY <2>1, <2>3 DEF TypeOK, Jobs
  <2> QED
    BY <1>6, <2>1, <2>2, <2>4 DEF ReceiveUpdate, TypeOK, nvs, sync
<1>7. ASSUME NEW h \in Handlers, StageUpdate(h) PROVE TypeOK'
  <2> DEFINE confirmed == slots[ConfirmedSlot(configState)]
             changed == job[h].changed
             carried == Carried(confirmed)
             next == stageDeviceUpdate(configState)
             merged == [n \in Names |->
                          IF n \in Named(changed) THEN changed[n]
                          ELSE IF n \in carried THEN confirmed[n]
                          ELSE NoFingerprint]
             todo == Named(changed) \cup carried
  <2>1. next \in ConfigStates /\ next.requested.slot \in Slots
    BY StageFacts DEF TypeOK
  <2>2. confirmed \in Contents /\ changed \in Contents
    BY ConfirmedSlotIsSlot DEF TypeOK, Jobs
  <2>3. merged \in Contents
    BY <2>2 DEF Contents, Entries
  <2>4. todo \in SUBSET Names
    BY <2>2 DEF TypeOK, Named, Carried, Names
  <2>5. job' = [job EXCEPT ![h] = [job[h] EXCEPT !.state = next,
                                     !.slot = next.requested.slot,
                                     !.merged = merged, !.todo = todo]]
    BY <1>7 DEF StageUpdate, TypeOK
  <2> HIDE DEF next, merged, todo
  <2>6. job' \in [Handlers -> Jobs]
    BY <2>1, <2>3, <2>4, <2>5 DEF TypeOK, Jobs
  <2> QED
    BY <1>7, <2>6 DEF StageUpdate, TypeOK, nvs, sync, world
<1>8. ASSUME NEW h \in Handlers, WriteEntry(h) PROVE TypeOK'
  <2>1. PICK n \in job[h].todo :
          /\ slots' = [slots EXCEPT ![job[h].slot][n] = job[h].merged[n]]
          /\ job' = [job EXCEPT ![h].todo = @ \ {n}]
    BY <1>8 DEF WriteEntry
  <2>2. /\ job[h].slot \in Slots
        /\ n \in Names
        /\ job[h].merged[n] \in Entries
    BY DEF TypeOK, Jobs, Contents
  <2>3. slots' \in [Slots -> Contents]
    BY <2>1, <2>2 DEF TypeOK, Contents
  <2>4. job' \in [Handlers -> Jobs]
    BY <2>1 DEF TypeOK, Jobs
  <2> QED
    BY <1>8, <2>3, <2>4 DEF WriteEntry, TypeOK, sync, world
<1>9. ASSUME NEW h \in Handlers, SavePending(h) PROVE TypeOK'
  <2>1. job[h].state \in ConfigStates
    BY DEF TypeOK, Jobs
  <2>2. job' \in [Handlers -> Jobs]
    BY <1>9, IdleValues DEF SavePending, TypeOK, Jobs
  <2> QED
    BY <1>9, <2>1, <2>2 DEF SavePending, TypeOK, sync, world
<1>10. ASSUME NEW h \in Handlers, SaveAttempted(h) PROVE TypeOK'
  <2>1. job[h].state \in ConfigStates /\ job[h].changed \in Contents
    BY DEF TypeOK, Jobs
  <2>2. markAttempted(job[h].state) \in ConfigStates
    BY <2>1, AttemptFacts
  <2>3. Named(job[h].changed) \in SUBSET Names
    BY DEF Named
  <2>4. job' \in [Handlers -> Jobs]
    BY <1>10, <2>2, <2>3 DEF SaveAttempted, TypeOK, Jobs
  <2> QED
    BY <1>10, <2>2, <2>4 DEF SaveAttempted, TypeOK, sync, world
<1>11. ASSUME NEW h \in Handlers, ApplyLive(h) PROVE TypeOK'
  <2>1. PICK n \in job[h].todo :
          IF n \in live /\ ~ FaultyEntry(n, job[h].changed)
          THEN /\ held' = [held EXCEPT ![n] = job[h].changed[n]]
               /\ job' = [job EXCEPT ![h].todo = @ \ {n}]
               /\ UNCHANGED pc
          ELSE /\ pc' = [pc EXCEPT ![h] = "reject"]
               /\ UNCHANGED <<held, job>>
    BY <1>11 DEF ApplyLive
  <2>2. n \in Names /\ job[h].changed[n] \in Entries
    BY DEF TypeOK, Jobs, Contents
  <2>3. held' \in Contents
    BY <2>1, <2>2 DEF TypeOK, Contents
  <2>4. job' \in [Handlers -> Jobs]
    BY <2>1 DEF TypeOK, Jobs
  <2>5. pc' \in [Handlers -> Steps]
    BY <2>1 DEF TypeOK
  <2> QED
    BY <1>11, <2>3, <2>4, <2>5 DEF ApplyLive, TypeOK, nvs, sync, world
<1>12. ASSUME NEW h \in Handlers, CommitLive(h) PROVE TypeOK'
  <2>1. job[h].state \in ConfigStates /\ job[h].slot \in Slots
    BY DEF TypeOK, Jobs
  <2>2. configState' \in ConfigStates
    BY <1>12, <2>1, CommitFacts DEF CommitLive
  <2>3. job' \in [Handlers -> Jobs]
    BY <1>12, IdleValues DEF CommitLive, TypeOK
  <2> QED
    BY <1>12, <2>2, <2>3 DEF CommitLive, TypeOK, world
<1>13. ASSUME NEW h \in Handlers, RejectLive(h) PROVE TypeOK'
  <2>1. /\ job[h].state \in ConfigStates /\ job[h].slot \in Slots
        /\ "Internal" \in RejectionCodes
    BY DEF TypeOK, Jobs, RejectionCodes
  <2>2. configState' \in ConfigStates
    BY <1>13, <2>1, RejectFacts DEF RejectLive
  <2>3. job' \in [Handlers -> Jobs]
    BY <1>13, IdleValues DEF RejectLive, TypeOK
  <2> QED
    BY <1>13, <2>2, <2>3 DEF RejectLive, TypeOK, sync, world
<1>14. CASE Connected
  BY <1>14 DEF Connected, TypeOK, nvs, world
<1>15. CASE TakeSyncTrigger
  BY <1>15 DEF TakeSyncTrigger, TypeOK, nvs, world
<1>16. CASE PublishSync
  BY <1>16 DEF PublishSync, TypeOK, nvs, world
<1>17. CASE Restart
  BY <1>17, PowerCycleType DEF Restart, TypeOK
<1>18. CASE Crash
  <2>1. crashes' \in 0 .. MaxCrashes
    BY <1>18, MaxCrashesAssumption DEF Crash, TypeOK
  <2> QED
    BY <1>18, <2>1, PowerCycleType DEF Crash
<1>19. CASE UNCHANGED vars
  BY <1>19 DEF vars, nvs, sync, world, TypeOK
<1> QED
  BY <1>1, <1>2, <1>3, <1>4, <1>5, <1>6, <1>7, <1>8, <1>9, <1>10, <1>11, <1>12,
     <1>13, <1>14, <1>15, <1>16, <1>17, <1>18, <1>19
     DEF Next, MainTask, HandlerTask, SyncTask

\* The device starts well-formed.
LEMMA InitTypeOK == Init => TypeOK
<1> SUFFICES ASSUME Init PROVE TypeOK
  OBVIOUS
<1>1. slots \in [Slots -> Contents]
  BY IdleValues, FactorySetAssumption DEF Init
<1>2. crashes \in 0 .. MaxCrashes
  BY MaxCrashesAssumption DEF Init
<1>3. phase \in Phases /\ pc \in [Handlers -> Steps]
  BY DEF Init, RamCleared, Phases, Steps
<1> QED
  BY <1>1, <1>2, <1>3, VirginStateType, IdleValues DEF Init, RamCleared, TypeOK

\* Every variable keeps its type: the record and the slots stay well-formed
\* whatever the handlers, the resets and the server do.
THEOREM TypeCorrect == Spec => []TypeOK
  BY InitTypeOK, TypeStep, PTL DEF Spec

-----------------------------------------------------------------------------
(* The revert target *)

(***************************************************************************)
(* RevertTargetKept speaks of records only.  What a task writes next also  *)
(* depends on the slot it remembers beside the record: the slot a strict   *)
(* boot loaded, and the slot a handler staged.                             *)
(***************************************************************************)
BootTriesFreeSlot ==
  phase \in {"loaded", "running"} /\ boot.strict
    => boot.slot # ConfirmedSlot(boot.state)

JobTriesFreeSlot ==
  \A h \in Handlers :
    pc[h] \in {"write", "attempt", "apply", "reject"}
      => /\ HasRequest(job[h].state)
         /\ job[h].slot = job[h].state.requested.slot

RevertInv ==
  TypeOK /\ RevertTargetKept /\ BootTriesFreeSlot /\ JobTriesFreeSlot

\* The records that a reset leaves in RAM request nothing.
LEMMA IdleTriesNothing == TriesFreeSlot(VirginState)
  BY VirginStateType DEF TriesFreeSlot

\* A reset clears every record but the persisted one.
LEMMA PowerCycleRevert ==
  ASSUME RevertInv, PowerCycle
  PROVE  (RevertTargetKept /\ BootTriesFreeSlot /\ JobTriesFreeSlot)'
  BY IdleTriesNothing
     DEF RevertInv, PowerCycle, nvs, IdleBoot, IdleJob, RevertTargetKept,
         BootTriesFreeSlot, JobTriesFreeSlot

\* No step puts the confirmed slot on trial, in the record or in any copy.
LEMMA RevertStep ==
  ASSUME RevertInv, [Next]_vars
  PROVE  RevertInv'
<1> USE DEF RevertTargetKept, BootTriesFreeSlot, JobTriesFreeSlot
<1>0. TypeOK /\ TypeOK'
  BY TypeStep DEF RevertInv
<1>1. ASSUME LoadDeviceBootConfig
      PROVE  (RevertTargetKept /\ BootTriesFreeSlot /\ JobTriesFreeSlot)'
  <2> DEFINE found == [configState EXCEPT !.confirmed = ConfirmedSlot(configState)]
             plan == decideBootPlan(found)
  <2>1. found \in ConfigStates /\ TriesFreeSlot(found)
    BY <1>0, InitialisedState DEF RevertInv, TypeOK
  <2>2. /\ TriesFreeSlot(plan.checkpoint)
        /\ plan.strict =>
             plan.checkpoint.requested = [slot |-> plan.slotToLoad,
                                          status |-> "attempted"]
    BY <2>1, BootPlanFacts
  <2>3. plan.strict => plan.slotToLoad # ConfirmedSlot(plan.checkpoint)
    BY <2>2 DEF TriesFreeSlot, HasRequest
  <2>4. /\ configState' = plan.checkpoint
        /\ boot' = [state |-> plan.checkpoint, slot |-> plan.slotToLoad,
                    strict |-> plan.strict, applied |-> TRUE]
        /\ UNCHANGED <<pc, job>>
    BY <1>1 DEF LoadDeviceBootConfig
  <2> HIDE DEF plan
  <2> QED
    BY <2>2, <2>3, <2>4 DEF RevertInv
<1>2. ASSUME RecordBootOutcome
      PROVE  (RevertTargetKept /\ BootTriesFreeSlot /\ JobTriesFreeSlot)'
  <2>1. phase = "running" /\ phase' \in {"settled", "restarting"}
        /\ UNCHANGED <<pc, job>>
    BY <1>2 DEF RecordBootOutcome
  <2>2. CASE boot.strict
    <3> DEFINE outcome == recordStrictBootOutcome(
                            boot.state, boot.slot, boot.applied, "Internal")
    <3>1. /\ boot.state \in ConfigStates
          /\ boot.slot \in Slots
          /\ boot.applied \in BOOLEAN
          /\ "Internal" \in RejectionCodes
      BY <1>0 DEF TypeOK, Boots, RejectionCodes
    <3>2. TriesFreeSlot(outcome)
      <4>1. CASE boot.applied = TRUE
        BY <4>1, <3>1, CommitFacts
      <4>2. CASE boot.applied = FALSE
        BY <4>2, <3>1, <2>1, <2>2, RejectFacts DEF RevertInv
      <4> QED
        BY <3>1, <4>1, <4>2
    <3>3. configState' = outcome /\ boot'.state = outcome
      BY <1>0, <1>2, <2>2 DEF RecordBootOutcome, TypeOK, Boots
    <3> QED
      BY <2>1, <3>2, <3>3 DEF RevertInv
  <2>3. CASE ~ boot.strict
    BY <1>2, <2>1, <2>3 DEF RecordBootOutcome, RevertInv
  <2> QED
    BY <2>2, <2>3
<1>3. ASSUME FinishBoot
      PROVE  (RevertTargetKept /\ BootTriesFreeSlot /\ JobTriesFreeSlot)'
  <2>1. boot.state \in ConfigStates
    BY <1>0 DEF TypeOK, Boots
  <2>2. TriesFreeSlot(configState')
    BY <1>3, <2>1, ReportedFacts DEF FinishBoot, RevertInv
  <2> QED
    BY <1>3, <2>2, IdleTriesNothing DEF FinishBoot, RevertInv, IdleBoot
<1>4. ASSUME NEW h \in Handlers, StageUpdate(h)
      PROVE  (RevertTargetKept /\ BootTriesFreeSlot /\ JobTriesFreeSlot)'
  <2> DEFINE next == stageDeviceUpdate(configState)
  <2>1. TriesFreeSlot(next) /\ HasRequest(next)
    BY <1>0, StageFacts DEF TypeOK
  <2>2. /\ job'[h].state = next
        /\ job'[h].slot = next.requested.slot
        /\ pc'[h] = "write"
        /\ \A i \in Handlers \ {h} : job'[i] = job[i] /\ pc'[i] = pc[i]
        /\ UNCHANGED <<configState, phase, boot>>
    BY <1>0, <1>4 DEF StageUpdate, TypeOK, Jobs, nvs
  <2> HIDE DEF next
  <2> QED
    BY <2>1, <2>2 DEF RevertInv
<1>5. ASSUME NEW h \in Handlers, ReceiveUpdate(h) \/ WriteEntry(h) \/ ApplyLive(h)
      PROVE  (RevertTargetKept /\ BootTriesFreeSlot /\ JobTriesFreeSlot)'
  <2>1. /\ \A i \in Handlers : job'[i].state = job[i].state /\ job'[i].slot = job[i].slot
        /\ \A i \in Handlers : pc'[i] = pc[i] \/ pc'[i] = "stage"
                               \/ pc[i] = "apply"
        /\ UNCHANGED <<configState, phase, boot>>
    <3>1. CASE ReceiveUpdate(h)
      BY <1>0, <3>1 DEF ReceiveUpdate, TypeOK, Jobs, nvs
    <3>2. CASE WriteEntry(h)
      BY <1>0, <3>2 DEF WriteEntry, TypeOK, Jobs
    <3>3. CASE ApplyLive(h)
      BY <1>0, <3>3 DEF ApplyLive, TypeOK, Jobs, nvs
    <3> QED
      BY <1>5, <3>1, <3>2, <3>3
  <2> QED
    BY <2>1 DEF RevertInv
<1>6. ASSUME NEW h \in Handlers, SavePending(h)
      PROVE  (RevertTargetKept /\ BootTriesFreeSlot /\ JobTriesFreeSlot)'
  <2>1. /\ configState' = job[h].state
        /\ pc[h] = "write"
        /\ \/ pc'[h] = "restarting" /\ job'[h] = IdleJob
           \/ job'[h].state = job[h].state /\ job'[h].slot = job[h].slot
        /\ \A i \in Handlers \ {h} : job'[i] = job[i] /\ pc'[i] = pc[i]
        /\ UNCHANGED <<phase, boot>>
    BY <1>0, <1>6 DEF SavePending, TypeOK, Jobs
  <2> QED
    BY <2>1, IdleTriesNothing DEF RevertInv, IdleJob
<1>7. ASSUME NEW h \in Handlers, SaveAttempted(h)
      PROVE  (RevertTargetKept /\ BootTriesFreeSlot /\ JobTriesFreeSlot)'
  <2>1. /\ configState' = markAttempted(job[h].state)
        /\ pc[h] = "attempt"
        /\ job'[h].state = markAttempted(job[h].state)
        /\ job'[h].slot = job[h].slot
        /\ \A i \in Handlers \ {h} : job'[i] = job[i] /\ pc'[i] = pc[i]
        /\ UNCHANGED <<phase, boot>>
    BY <1>0, <1>7 DEF SaveAttempted, TypeOK, Jobs
  <2>2. /\ job[h].state \in ConfigStates
        /\ HasRequest(job[h].state)
        /\ TriesFreeSlot(job[h].state)
        /\ job[h].slot = job[h].state.requested.slot
    BY <1>0, <2>1 DEF TypeOK, Jobs, RevertInv
  <2>3. /\ HasRequest(markAttempted(job[h].state))
        /\ TriesFreeSlot(markAttempted(job[h].state))
    BY <2>2, AttemptFacts, Zenon
  <2>4. markAttempted(job[h].state).requested.slot = job[h].slot
    BY <2>2, AttemptFacts, Zenon
  <2> QED
    BY <2>1, <2>3, <2>4 DEF RevertInv
<1>8. ASSUME NEW h \in Handlers, CommitLive(h) \/ RejectLive(h)
      PROVE  (RevertTargetKept /\ BootTriesFreeSlot /\ JobTriesFreeSlot)'
  <2>1. /\ job[h].state \in ConfigStates /\ job[h].slot \in Slots
        /\ "Internal" \in RejectionCodes
    BY <1>0 DEF TypeOK, Jobs, RejectionCodes
  <2>2. job[h].slot # ConfirmedSlot(job[h].state)
    <3>1. pc[h] \in {"apply", "reject"}
      BY <1>8 DEF CommitLive, RejectLive
    <3> QED
      BY <3>1 DEF RevertInv, TriesFreeSlot
  <2>3. TriesFreeSlot(configState')
    <3>1. CASE CommitLive(h)
      BY <3>1, <2>1, CommitFacts DEF CommitLive
    <3>2. CASE RejectLive(h)
      BY <3>2, <2>1, <2>2, RejectFacts DEF RejectLive
    <3> QED
      BY <1>8, <3>1, <3>2
  <2>4. /\ job'[h] = IdleJob
        /\ pc'[h] \in {"idle", "restarting"}
        /\ \A i \in Handlers \ {h} : job'[i] = job[i] /\ pc'[i] = pc[i]
        /\ UNCHANGED <<phase, boot>>
    BY <1>0, <1>8 DEF CommitLive, RejectLive, TypeOK
  <2> QED
    BY <2>3, <2>4, IdleTriesNothing DEF RevertInv, IdleJob
<1>9. ASSUME InitDeviceRuntime
      PROVE  (RevertTargetKept /\ BootTriesFreeSlot /\ JobTriesFreeSlot)'
  <2>1. /\ boot'.state = boot.state
        /\ boot'.slot = boot.slot
        /\ boot'.strict = boot.strict
        /\ phase = "loaded"
        /\ UNCHANGED <<configState, pc, job>>
    BY <1>0, <1>9 DEF InitDeviceRuntime, TypeOK, Boots, nvs
  <2> QED
    BY <2>1 DEF RevertInv
<1>10. ASSUME AbortBoot \/ Restart \/ Crash
       PROVE  (RevertTargetKept /\ BootTriesFreeSlot /\ JobTriesFreeSlot)'
  BY <1>10, PowerCycleRevert DEF AbortBoot, Restart, Crash
<1>11. ASSUME Connected \/ SyncTask \/ UNCHANGED vars
       PROVE  (RevertTargetKept /\ BootTriesFreeSlot /\ JobTriesFreeSlot)'
  <2>1. UNCHANGED <<configState, phase, boot, pc, job>>
    BY <1>11 DEF Connected, SyncTask, TakeSyncTrigger, PublishSync, vars, nvs
  <2> QED
    BY <2>1 DEF RevertInv
<1> QED
  BY <1>0, <1>1, <1>2, <1>3, <1>4, <1>5, <1>6, <1>7, <1>8, <1>9, <1>10, <1>11
     DEF Next, MainTask, HandlerTask, RevertInv

\* Whatever the number of handlers, however stale the record each started
\* from, and wherever power is lost: the slot on trial is the free one.
THEOREM RevertTargetAlwaysKept == Spec => []RevertTargetKept
<1>1. Init => RevertInv
  <2> SUFFICES ASSUME Init PROVE RevertInv
    OBVIOUS
  <2>1. TypeOK
    BY InitTypeOK
  <2> QED
    BY <2>1, IdleTriesNothing
       DEF Init, RamCleared, RevertInv, RevertTargetKept, BootTriesFreeSlot,
           JobTriesFreeSlot, IdleBoot, IdleJob
<1>2. RevertInv => RevertTargetKept
  BY DEF RevertInv
<1> QED
  BY <1>1, <1>2, RevertStep, PTL DEF Spec

-----------------------------------------------------------------------------
(* UPDATEs that take turns *)

(***************************************************************************)
(* HistoryKept, SetsSound and ImplementsAtomicConfig are not true when two *)
(* handlers, or a handler and a boot, work on the record and the slots at  *)
(* once (runs eager and redelivery).  What follows is about every          *)
(* behaviour in which they do not, whatever the server: UpdatesTakeTurns   *)
(* is part of the statements.  None of the three is                        *)
(* inductive.  RecordInv relates the record to the copies that boots and   *)
(* handlers have of it; SetInv the slots, RAM and the manifest.            *)
(***************************************************************************)

\* The device was given a network configuration, and one that parses.
NetworkProvisioned ==
  NETWORK \in RebootNames =>
    FactorySet[NETWORK] # NoFingerprint /\ ~ FaultyEntry(NETWORK, FactorySet)

Applying == \E h \in Handlers : pc[h] \in {"apply", "reject", "restarting"}

Staging(h) == pc[h] \in {"stage", "write"}
Trying(h) == pc[h] \in {"attempt", "apply", "reject"}

\* A boot tries the slot that its record requests, or runs the confirmed one.
BootFollowsRecord ==
  phase \in {"loaded", "running", "settled"} =>
    /\ configState = boot.state
    /\ boot.strict /\ phase # "settled" =>
         configState.requested = [slot |-> boot.slot, status |-> "attempted"]
    /\ ~ boot.strict \/ phase = "settled" =>
         boot.slot = ConfirmedSlot(configState) /\ ~ HasRequest(configState)

NothingOnTrial ==
  phase = "ready" /\ (\A h \in Handlers : pc[h] = "idle" \/ Staging(h))
    => ~ HasRequest(configState)

\* A handler's copy of the record is the record, with its own next step made.
JobFollowsRecord ==
  \A h \in Handlers :
    /\ pc[h] = "write" => job[h].state = stageDeviceUpdate(configState)
    /\ Trying(h) => configState = job[h].state

RecordInv == RevertInv /\ BootFollowsRecord /\ NothingOnTrial /\ JobFollowsRecord

\* What the device makes use of, and what it holds when it runs a set: all the
\* functions whose hardware starts, and no others.
Used == RebootNames \cup live

HeldOf(set) == [n \in Names |-> IF n \in Used THEN set[n] ELSE NoFingerprint]

RunsFunctionsOf(set) ==
  FunctionList(set) \ Fragile \subseteq live /\ live \subseteq FunctionList(set)

RunsSet(set) == RunsFunctionsOf(set) /\ held = HeldOf(set)

\* What a boot loaded, and what became of it.
BootRunsSlot ==
  /\ phase = "loaded" =>
       held = [n \in Names |-> IF n \in RebootNames THEN slots[boot.slot][n]
                                                    ELSE NoFingerprint]
  /\ phase = "running" =>
       /\ boot.applied => Sound(slots[boot.slot])
       /\ boot.applied \/ ~ boot.strict => RunsSet(slots[boot.slot])
  /\ phase = "settled" => RunsSet(ConfirmedSet)

\* Until an UPDATE is applied live, RAM holds the confirmed set.
HeldIsConfirmed ==
  phase = "ready" /\ ~ Applying => RunsSet(ConfirmedSet)

\* What an UPDATE changes of the set: no more than it says, and all of it.
ChangesOf(update, changed, set) ==
  \A n \in Names :
    \/ changed[n] = update[n]
    \/ changed[n] = NoFingerprint /\ n \in Used /\ update[n] = set[n]

\* The set that the changes make of the confirmed one.
MergedOf(changed, set) ==
  [n \in Names |-> IF changed[n] # NoFingerprint THEN changed[n]
                   ELSE IF n \in Used THEN set[n] ELSE NoFingerprint]

\* The entries that staging writes, and those it has written.
Staged(h) == Named(job[h].changed) \cup Used
Written(h, names) ==
  \A n \in names :
    slots[job[h].slot][n] = MergedOf(job[h].changed, ConfirmedSet)[n]

JobFollowsSets ==
  \A h \in Handlers :
    /\ Staging(h) =>
         \E update \in Updates : ChangesOf(update, job[h].changed, ConfirmedSet)
    /\ pc[h] = "write" =>
         /\ job[h].merged = MergedOf(job[h].changed, ConfirmedSet)
         /\ Written(h, Staged(h) \ job[h].todo)
    /\ Trying(h) => ~ NeedsReboot(h) /\ Written(h, Staged(h))

\* A live apply got as far as it did.
AppliedSoFar ==
  \A h \in Handlers : pc[h] = "apply" =>
    /\ RunsFunctionsOf(ConfirmedSet)
    /\ job[h].todo \subseteq Named(job[h].changed)
    /\ \A n \in Named(job[h].changed) \ job[h].todo :
         n \in live /\ ~ FaultyEntry(n, job[h].changed)
    /\ held = [n \in Names |->
                 IF n \in Named(job[h].changed) \ job[h].todo
                 THEN job[h].changed[n] ELSE HeldOf(ConfirmedSet)[n]]

\* What was announced is what is held, unless a SYNC is due.
AnnouncedIsHeld ==
  /\ syncing \/ announced # NoManifest => phase = "ready"
  /\ announced # NoManifest /\ ~ syncTrigger /\ ~ syncing /\ ~ Applying
       => announced = held

\* A network, once known, stays known; staging would not remove its entry.
NetworkKept ==
  NETWORK \in RebootNames =>
    /\ ConfirmedSet[NETWORK] # NoFingerprint
    /\ HasRequest(configState) =>
         slots[configState.requested.slot][NETWORK] # NoFingerprint

SetInv ==
  /\ BootRunsSlot
  /\ HeldIsConfirmed
  /\ JobFollowsSets
  /\ AppliedSoFar
  /\ AnnouncedIsHeld
  /\ NetworkKept
  /\ ConfirmedSound

FullInv == RecordInv /\ SetInv

-----------------------------------------------------------------------------
(* The record's invariant *)

\* With one handler at work, the others are idle and the device is up.
LEMMA OthersIdle ==
  ASSUME UpdatesTakeTurns, NEW h \in Handlers, pc[h] # "idle"
  PROVE  /\ phase = "ready"
         /\ \A i \in Handlers \ {h} : pc[i] = "idle"
         /\ Applying => pc[h] \in {"apply", "reject", "restarting"}
  BY DEF UpdatesTakeTurns, Applying

\* The handler of an UPDATE that comes in its turn is the only one.
LEMMA TurnBegins ==
  ASSUME TypeOK, UpdatesTakeTurns', NEW h \in Handlers, ReceiveUpdate(h)
  PROVE  /\ phase = "ready"
         /\ \A i \in Handlers : pc[i] = "idle"
         /\ pc'[h] = "stage"
         /\ \A i \in Handlers \ {h} : pc'[i] = "idle"
<1>1. /\ pc[h] = "idle" /\ pc' = [pc EXCEPT ![h] = "stage"] /\ phase' = phase
      /\ pc \in [Handlers -> Steps]
  BY DEF ReceiveUpdate, TypeOK
<1>2. pc'[h] = "stage" /\ \A i \in Handlers \ {h} : pc'[i] = pc[i]
  BY <1>1
<1>3. phase' = "ready" /\ \A i \in Handlers \ {h} : pc'[i] = "idle"
  BY <1>2 DEF UpdatesTakeTurns
<1> QED
  BY <1>1, <1>2, <1>3

\* The confirmed set is a set, and its slot a slot.
LEMMA ConfirmedSetType ==
  ASSUME TypeOK
  PROVE  ConfirmedSet \in Contents /\ ConfirmedSlot(configState) \in Slots
  BY ConfirmedSlotIsSlot DEF TypeOK, ConfirmedSet

\* What keeps the confirmed pointer and the slots keeps the confirmed set.
LEMMA ConfirmedSetKept ==
  ASSUME configState'.confirmed = configState.confirmed,
         slots' = slots
  PROVE  /\ ConfirmedSet' = ConfirmedSet
         /\ ConfirmedSlot(configState') = ConfirmedSlot(configState)
  BY DEF ConfirmedSet, ConfirmedSlot

\* While the device is not up no handler is at work, so that there is nothing
\* to say of handlers after a step that leaves them alone.
LEMMA BootDisturbsNoJob ==
  ASSUME TypeOK, UpdatesTakeTurns, phase # "ready", UNCHANGED pc
  PROVE  /\ \A h \in Handlers : pc'[h] = "idle"
         /\ JobFollowsRecord'
<1>1. \A h \in Handlers : pc'[h] = "idle"
  BY DEF UpdatesTakeTurns
<1> QED
  BY <1>1 DEF JobFollowsRecord, Trying

\* The main task's copy of the record is the record.
LEMMA MainTaskRecord ==
  ASSUME RecordInv, UpdatesTakeTurns, MainTask
  PROVE  (BootFollowsRecord /\ NothingOnTrial /\ JobFollowsRecord)'
<1>0. TypeOK
  BY DEF RecordInv, RevertInv
<1>1. CASE LoadDeviceBootConfig
  <2> DEFINE found == [configState EXCEPT !.confirmed = ConfirmedSlot(configState)]
             plan == decideBootPlan(found)
  <2>1. found \in ConfigStates
    BY <1>0, InitialisedState DEF TypeOK
  <2>2. /\ plan.checkpoint.confirmed = found.confirmed
        /\ plan.strict =>
             plan.checkpoint.requested = [slot |-> plan.slotToLoad, status |-> "attempted"]
        /\ ~ plan.strict =>
             plan.slotToLoad = ConfirmedSlot(found) /\ ~ HasRequest(plan.checkpoint)
    BY <2>1, BootPlanFacts
  <2>3. /\ phase = "off" /\ phase' = "loaded" /\ UNCHANGED pc
        /\ configState' = plan.checkpoint
        /\ boot' = [state |-> plan.checkpoint, slot |-> plan.slotToLoad,
                    strict |-> plan.strict, applied |-> TRUE]
    BY <1>1 DEF LoadDeviceBootConfig
  <2> HIDE DEF found, plan
  <2>4. ConfirmedSlot(configState') = ConfirmedSlot(found)
    BY <2>2, <2>3 DEF ConfirmedSlot
  <2>5. BootFollowsRecord'
    BY <2>2, <2>3, <2>4 DEF BootFollowsRecord
  <2> QED
    BY <1>0, <2>3, <2>5, BootDisturbsNoJob DEF NothingOnTrial
<1>2. CASE AbortBoot
  BY <1>2 DEF AbortBoot, PowerCycle, BootFollowsRecord, NothingOnTrial, JobFollowsRecord,
     Trying
<1>3. CASE InitDeviceRuntime
  <2>1. /\ boot'.state = boot.state /\ boot'.slot = boot.slot /\ boot'.strict = boot.strict
        /\ phase = "loaded" /\ phase' = "running"
        /\ UNCHANGED <<configState, pc>>
    BY <1>0, <1>3 DEF InitDeviceRuntime, TypeOK, Boots, nvs
  <2>2. BootFollowsRecord'
    BY <2>1 DEF RecordInv, BootFollowsRecord
  <2> QED
    BY <1>0, <2>1, <2>2, BootDisturbsNoJob DEF NothingOnTrial
<1>4. CASE RecordBootOutcome
  <2>1. /\ phase = "running" /\ configState = boot.state
        /\ boot.state \in ConfigStates /\ boot.slot \in Slots /\ boot.applied \in BOOLEAN
        /\ UNCHANGED pc
    BY <1>0, <1>4 DEF RecordBootOutcome, RecordInv, BootFollowsRecord, TypeOK, Boots
  <2>2. CASE boot.strict /\ boot.applied
    <3> DEFINE outcome == recordStrictBootOutcome(boot.state, boot.slot, TRUE, "Internal")
    <3>1. ConfirmedSlot(outcome) = boot.slot /\ ~ HasRequest(outcome)
      <4>1. boot.state \in ConfigStates /\ boot.slot \in Slots
        BY <2>1
      <4> QED
        BY <4>1, CommitFacts, Zenon
    <3>2. /\ configState' = outcome /\ boot' = [boot EXCEPT !.state = outcome]
          /\ phase' = "settled"
      <4>1. boot.applied = TRUE
        BY <2>1, <2>2
      <4> QED
        BY <4>1, <1>4, <2>2 DEF RecordBootOutcome
    <3> HIDE DEF outcome
    <3>3. boot'.state = outcome /\ boot'.slot = boot.slot
      BY <1>0, <3>2 DEF TypeOK, Boots
    <3>4. BootFollowsRecord' /\ NothingOnTrial'
      BY <3>1, <3>2, <3>3 DEF BootFollowsRecord, NothingOnTrial
    <3> QED
      BY <1>0, <2>1, <3>4, BootDisturbsNoJob
  <2>3. CASE boot.strict /\ ~ boot.applied
    <3>1. phase' = "restarting"
      BY <1>4, <2>3 DEF RecordBootOutcome
    <3>2. BootFollowsRecord' /\ NothingOnTrial'
      BY <3>1 DEF BootFollowsRecord, NothingOnTrial
    <3> QED
      BY <1>0, <2>1, <3>2, BootDisturbsNoJob
  <2>4. CASE ~ boot.strict
    <3>1. phase' = "settled" /\ UNCHANGED <<configState, boot>>
      BY <1>4, <2>4 DEF RecordBootOutcome
    <3>2. BootFollowsRecord' /\ NothingOnTrial'
      BY <2>1, <2>4, <3>1 DEF RecordInv, BootFollowsRecord, NothingOnTrial
    <3> QED
      BY <1>0, <2>1, <3>2, BootDisturbsNoJob
  <2> QED
    BY <2>2, <2>3, <2>4
<1>5. CASE FinishBoot
  <2>1. /\ phase = "settled" /\ phase' = "ready" /\ UNCHANGED pc
        /\ configState = boot.state /\ configState \in ConfigStates
        /\ ~ HasRequest(configState)
    BY <1>0, <1>5 DEF FinishBoot, RecordInv, BootFollowsRecord, TypeOK
  <2>2. ~ HasRequest(configState')
    BY <1>5, <2>1, ReportedFacts DEF FinishBoot, HasRequest
  <2>3. BootFollowsRecord' /\ NothingOnTrial'
    BY <2>1, <2>2 DEF BootFollowsRecord, NothingOnTrial
  <2> QED
    BY <1>0, <2>1, <2>3, BootDisturbsNoJob
<1> QED
  BY <1>1, <1>2, <1>3, <1>4, <1>5 DEF MainTask

\* A handler that works alone knows the record, and saves what follows from it.
LEMMA HandlerRecord ==
  ASSUME RecordInv, UpdatesTakeTurns, UpdatesTakeTurns',
         NEW h \in Handlers, ReceiveUpdate(h) \/ HandlerTask(h)
  PROVE  (BootFollowsRecord /\ NothingOnTrial /\ JobFollowsRecord)'
<1>0. TypeOK
  BY DEF RecordInv, RevertInv
<1>1. CASE ReceiveUpdate(h)
  <2>1. /\ phase = "ready" /\ \A i \in Handlers : pc[i] = "idle"
        /\ pc'[h] = "stage" /\ \A i \in Handlers \ {h} : pc'[i] = "idle"
    BY <1>0, <1>1, TurnBegins
  <2>2. UNCHANGED <<configState, phase>>
    BY <1>1 DEF ReceiveUpdate, nvs
  <2> QED
    BY <2>1, <2>2 DEF RecordInv, BootFollowsRecord, NothingOnTrial, JobFollowsRecord, Trying
<1>2. ASSUME HandlerTask(h)
      PROVE  /\ phase = "ready" /\ phase' = "ready"
             /\ pc[h] # "idle"
             /\ \A i \in Handlers \ {h} : pc[i] = "idle" /\ pc'[i] = "idle"
  <2>1. pc[h] # "idle" /\ UNCHANGED phase /\ \A i \in Handlers \ {h} : pc'[i] = pc[i]
    BY <1>0, <1>2 DEF HandlerTask, StageUpdate, WriteEntry, SavePending, SaveAttempted,
       ApplyLive, CommitLive, RejectLive, TypeOK
  <2> QED
    BY <2>1, OthersIdle
<1>3. CASE StageUpdate(h)
  <2>1. /\ pc[h] = "stage" /\ pc'[h] = "write" /\ UNCHANGED configState
        /\ job'[h].state = stageDeviceUpdate(configState)
    BY <1>0, <1>3 DEF StageUpdate, TypeOK, Jobs, nvs
  <2>2. phase = "ready" /\ phase' = "ready"
        /\ \A i \in Handlers \ {h} : pc[i] = "idle" /\ pc'[i] = "idle"
    BY <1>2, <1>3 DEF HandlerTask
  <2> QED
    BY <2>1, <2>2 DEF RecordInv, BootFollowsRecord, NothingOnTrial, JobFollowsRecord,
       Trying, Staging
<1>4. CASE WriteEntry(h)
  <2>1. /\ pc[h] = "write" /\ pc'[h] = "write" /\ UNCHANGED configState
        /\ job'[h].state = job[h].state
    BY <1>0, <1>4 DEF WriteEntry, TypeOK, Jobs
  <2>2. phase = "ready" /\ phase' = "ready"
        /\ \A i \in Handlers \ {h} : pc[i] = "idle" /\ pc'[i] = "idle"
    BY <1>2, <1>4 DEF HandlerTask
  <2> QED
    BY <2>1, <2>2 DEF RecordInv, BootFollowsRecord, NothingOnTrial, JobFollowsRecord,
       Trying, Staging
<1>5. CASE SavePending(h)
  <2>1. /\ configState' = job[h].state
        /\ \/ pc'[h] = "restarting"
           \/ pc'[h] = "attempt" /\ job'[h].state = job[h].state
    BY <1>0, <1>5 DEF SavePending, TypeOK, Jobs
  <2>2. phase' = "ready" /\ \A i \in Handlers \ {h} : pc'[i] = "idle"
    BY <1>2, <1>5 DEF HandlerTask
  <2> QED
    BY <2>1, <2>2 DEF BootFollowsRecord, NothingOnTrial, JobFollowsRecord, Trying, Staging
<1>6. CASE SaveAttempted(h)
  <2>1. /\ configState' = markAttempted(job[h].state) /\ pc'[h] = "apply"
        /\ job'[h].state = markAttempted(job[h].state)
    BY <1>0, <1>6 DEF SaveAttempted, TypeOK, Jobs
  <2>2. phase' = "ready" /\ \A i \in Handlers \ {h} : pc'[i] = "idle"
    BY <1>2, <1>6 DEF HandlerTask
  <2> QED
    BY <2>1, <2>2 DEF BootFollowsRecord, NothingOnTrial, JobFollowsRecord, Trying, Staging
<1>7. CASE ApplyLive(h)
  <2>1. /\ pc[h] = "apply" /\ pc'[h] \in {"apply", "reject"} /\ UNCHANGED configState
        /\ job'[h].state = job[h].state
    BY <1>0, <1>7 DEF ApplyLive, TypeOK, Jobs, nvs
  <2>2. phase' = "ready" /\ \A i \in Handlers \ {h} : pc'[i] = "idle"
    BY <1>2, <1>7 DEF HandlerTask
  <2> QED
    BY <2>1, <2>2 DEF RecordInv, BootFollowsRecord, NothingOnTrial, JobFollowsRecord,
       Trying, Staging
<1>8. CASE CommitLive(h)
  <2>1. /\ job[h].state \in ConfigStates /\ job[h].slot \in Slots
        /\ configState' = recordStrictBootOutcome(job[h].state, job[h].slot, TRUE, "Internal")
        /\ pc'[h] = "idle"
    BY <1>0, <1>8 DEF CommitLive, TypeOK, Jobs
  <2>2. ~ HasRequest(configState')
    BY <2>1, CommitFacts
  <2>3. phase' = "ready" /\ \A i \in Handlers \ {h} : pc'[i] = "idle"
    BY <1>2, <1>8 DEF HandlerTask
  <2> QED
    BY <2>1, <2>2, <2>3 DEF BootFollowsRecord, NothingOnTrial, JobFollowsRecord, Trying
<1>9. CASE RejectLive(h)
  <2>1. pc'[h] = "restarting"
    BY <1>0, <1>9 DEF RejectLive, TypeOK
  <2>2. phase' = "ready" /\ \A i \in Handlers \ {h} : pc'[i] = "idle"
    BY <1>2, <1>9 DEF HandlerTask
  <2> QED
    BY <2>1, <2>2 DEF BootFollowsRecord, NothingOnTrial, JobFollowsRecord, Trying, Staging
<1> QED
  BY <1>1, <1>3, <1>4, <1>5, <1>6, <1>7, <1>8, <1>9 DEF HandlerTask

\* No step takes the record and its copies apart.
LEMMA RecordStep ==
  ASSUME RecordInv, UpdatesTakeTurns, UpdatesTakeTurns', [Next]_vars
  PROVE  RecordInv'
<1>1. RevertInv'
  BY RevertStep DEF RecordInv
<1>2. CASE MainTask
  BY <1>1, <1>2, MainTaskRecord DEF RecordInv
<1>3. CASE \E h \in Handlers : ReceiveUpdate(h) \/ HandlerTask(h)
  BY <1>1, <1>3, HandlerRecord DEF RecordInv
<1>4. CASE Restart \/ Crash
  BY <1>1, <1>4 DEF Restart, Crash, PowerCycle, RecordInv, BootFollowsRecord,
     NothingOnTrial, JobFollowsRecord, Trying
<1>5. CASE Connected \/ SyncTask \/ UNCHANGED vars
  <2>1. UNCHANGED <<configState, phase, boot, pc, job>>
    BY <1>5 DEF Connected, SyncTask, TakeSyncTrigger, PublishSync, vars, nvs
  <2> QED
    BY <1>1, <2>1 DEF RecordInv, BootFollowsRecord, NothingOnTrial, JobFollowsRecord,
       Trying, Staging
<1> QED
  BY <1>2, <1>3, <1>4, <1>5 DEF Next

\* A device that is first powered has no copies of its empty record.
LEMMA RecordInit ==
  ASSUME Init
  PROVE  RecordInv
<1>1. TypeOK
  BY InitTypeOK
<1>2. RevertInv
  BY <1>1, IdleTriesNothing
     DEF Init, RamCleared, RevertInv, RevertTargetKept, BootTriesFreeSlot,
         JobTriesFreeSlot, IdleBoot, IdleJob
<1>3. phase = "off" /\ \A h \in Handlers : pc[h] = "idle"
  BY DEF Init, RamCleared
<1> QED
  BY <1>2, <1>3 DEF RecordInv, BootFollowsRecord, NothingOnTrial, JobFollowsRecord, Trying

\* Staging writes to the free slot, so that the confirmed set stays as it is.
LEMMA WriteKeepsConfirmedSet ==
  ASSUME RecordInv, NEW h \in Handlers, WriteEntry(h)
  PROVE  ConfirmedSet' = ConfirmedSet /\ job[h].slot # ConfirmedSlot(configState)
<1>1. pc[h] = "write" /\ TypeOK
  BY DEF WriteEntry, RecordInv, RevertInv
<1>2. /\ job[h].state = stageDeviceUpdate(configState)
      /\ job[h].slot = job[h].state.requested.slot
  BY <1>1 DEF RecordInv, RevertInv, JobFollowsRecord, JobTriesFreeSlot
<1>3. configState \in ConfigStates
  BY <1>1 DEF TypeOK
<1>4. job[h].slot # ConfirmedSlot(configState)
  <2>1. stageDeviceUpdate(configState).requested =
          [slot |-> otherSlot(ConfirmedSlot(configState)), status |-> "pending"]
    BY <1>3, StageFacts
  <2> QED
    BY <2>1, <1>2, <1>3, ConfirmedSlotIsSlot, OtherSlotDiffers
<1>5. PICK n \in job[h].todo :
        slots' = [slots EXCEPT ![job[h].slot][n] = job[h].merged[n]]
  BY DEF WriteEntry
<1>6. configState' = configState
  BY DEF WriteEntry
<1> QED
  BY <1>1, <1>3, <1>4, <1>5, <1>6, ConfirmedSlotIsSlot DEF ConfirmedSet, TypeOK

-----------------------------------------------------------------------------
(* A patient server lets UPDATEs take turns *)

\* A step leaves at most one handler at work, and none while the device boots.
LEMMA TurnsStep ==
  ASSUME Server = "patient", TypeOK, UpdatesTakeTurns, [Next]_vars
  PROVE  UpdatesTakeTurns'
<1>1. CASE MainTask
  <2>1. phase # "ready"
    BY <1>1 DEF MainTask, LoadDeviceBootConfig, AbortBoot, InitDeviceRuntime,
       RecordBootOutcome, FinishBoot
  <2>2. \A h \in Handlers : pc[h] = "idle"
    BY <2>1 DEF UpdatesTakeTurns
  <2>3. UNCHANGED pc \/ PowerCycle
    BY <1>1 DEF MainTask, LoadDeviceBootConfig, AbortBoot, InitDeviceRuntime,
       RecordBootOutcome, FinishBoot
  <2> QED
    BY <2>2, <2>3 DEF UpdatesTakeTurns, PowerCycle
<1>2. ASSUME NEW h \in Handlers, ReceiveUpdate(h) PROVE UpdatesTakeTurns'
  <2>1. phase = "ready" /\ \A i \in Handlers : pc[i] = "idle"
    BY <1>2 DEF ReceiveUpdate, MayDeliver, Quiet
  <2>2. phase' = phase /\ \A i \in Handlers \ {h} : pc'[i] = pc[i]
    BY <1>2 DEF ReceiveUpdate, TypeOK
  <2> QED
    BY <2>1, <2>2 DEF UpdatesTakeTurns
<1>3. ASSUME NEW h \in Handlers, HandlerTask(h) PROVE UpdatesTakeTurns'
  <2>1. pc[h] # "idle" /\ phase' = phase /\ \A i \in Handlers \ {h} : pc'[i] = pc[i]
    BY <1>3 DEF HandlerTask, StageUpdate, WriteEntry, SavePending, SaveAttempted,
       ApplyLive, CommitLive, RejectLive, TypeOK
  <2>2. phase = "ready" /\ \A i \in Handlers \ {h} : pc[i] = "idle"
    BY <2>1, OthersIdle
  <2> QED
    BY <2>1, <2>2 DEF UpdatesTakeTurns
<1>4. CASE Restart \/ Crash
  BY <1>4 DEF Restart, Crash, PowerCycle, UpdatesTakeTurns
<1>5. CASE Connected \/ SyncTask \/ UNCHANGED vars
  BY <1>5 DEF Connected, SyncTask, TakeSyncTrigger, PublishSync, vars, UpdatesTakeTurns
<1> QED
  BY <1>1, <1>2, <1>3, <1>4, <1>5 DEF Next

\* A server that waits for the outcome of each UPDATE sees to the condition of
\* the three theorems on whole sets; QoS 1 duplicates that come after the outcome
\* are part of this.
THEOREM PatientServerTakesTurns ==
  ASSUME Server = "patient"
  PROVE  Spec => []UpdatesTakeTurns
<1>1. Init => UpdatesTakeTurns
  BY DEF Init, RamCleared, UpdatesTakeTurns
<1>2. UpdatesTakeTurns /\ TypeOK /\ [Next]_vars => UpdatesTakeTurns'
  BY TurnsStep
<1> QED
  BY <1>1, <1>2, TypeCorrect, PTL DEF Spec

-----------------------------------------------------------------------------
(* What keeps the history *)

\* The confirmed slot is not written.
LEMMA ConfirmedSlotStep ==
  ASSUME RecordInv, [Next]_vars
  PROVE  ConfirmedSet = slots'[ConfirmedSlot(configState)]
<1>1. CASE \E h \in Handlers : WriteEntry(h)
  <2>1. PICK h \in Handlers : WriteEntry(h)
    BY <1>1
  <2>2. ConfirmedSet' = ConfirmedSet /\ UNCHANGED configState
    BY <2>1, WriteKeepsConfirmedSet DEF WriteEntry
  <2> QED
    BY <2>2 DEF ConfirmedSet
<1>2. CASE ~ \E h \in Handlers : WriteEntry(h)
  <2>1. UNCHANGED slots
    <3>1. MainTask => UNCHANGED slots
      BY DEF MainTask, LoadDeviceBootConfig, AbortBoot, PowerCycle, InitDeviceRuntime,
         RecordBootOutcome, FinishBoot, nvs
    <3>2. ASSUME NEW h \in Handlers, ReceiveUpdate(h) \/ HandlerTask(h) PROVE UNCHANGED slots
      BY <1>2, <3>2 DEF HandlerTask, ReceiveUpdate, StageUpdate, SavePending, SaveAttempted,
         ApplyLive, CommitLive, RejectLive, nvs
    <3>3. Connected \/ SyncTask => UNCHANGED slots
      BY DEF Connected, SyncTask, TakeSyncTrigger, PublishSync, nvs
    <3>4. Restart \/ Crash => UNCHANGED slots
      BY DEF Restart, Crash, PowerCycle, nvs
    <3>5. UNCHANGED vars => UNCHANGED slots
      BY DEF vars, nvs
    <3> QED
      BY <3>1, <3>2, <3>3, <3>4, <3>5 DEF Next
  <2> QED
    BY <2>1 DEF ConfirmedSet
<1> QED
  BY <1>1, <1>2

\* A request is dropped by a commit, by a revert or not at all.
LEMMA DroppedWithRejection ==
  ASSUME RecordInv, [Next]_vars, HasRequest(configState), ~ HasRequest(configState'),
         configState'.confirmed # configState.requested.slot
  PROVE  configState'.rejection # NoRejection
<1>1. TypeOK /\ RevertInv /\ RecordInv
  BY DEF RecordInv, RevertInv
<1>2. ASSUME LoadDeviceBootConfig PROVE configState'.rejection # NoRejection
  <2> DEFINE found == [configState EXCEPT !.confirmed = ConfirmedSlot(configState)]
             plan == decideBootPlan(found)
  <2>1. found \in ConfigStates /\ HasRequest(found)
    BY <1>1, InitialisedState DEF TypeOK, HasRequest
  <2>2. configState' = plan.checkpoint
    BY <1>2 DEF LoadDeviceBootConfig
  <2> QED
    BY <2>1, <2>2, RevertedWithRejection
<1>3. ASSUME RecordBootOutcome PROVE FALSE
  <2>1. /\ configState = boot.state /\ boot.slot \in Slots /\ boot.state \in ConfigStates
        /\ "Internal" \in RejectionCodes
    BY <1>1, <1>3 DEF RecordBootOutcome, RecordInv, BootFollowsRecord, TypeOK, Boots,
       RejectionCodes
  <2>2. CASE boot.strict /\ boot.applied
    <3>1. configState.requested.slot = boot.slot
      BY <1>1, <1>3, <2>2 DEF RecordBootOutcome, RecordInv, BootFollowsRecord
    <3>2. configState' = [boot.state EXCEPT !.confirmed = boot.slot, !.requested = NoRequest]
      BY <1>3, <2>2 DEF RecordBootOutcome, recordStrictBootOutcome
    <3>3. configState'.confirmed = boot.slot
      BY <2>1, <3>2 DEF ConfigStates
    <3> QED
      BY <3>1, <3>3
  <2>3. CASE boot.strict /\ ~ boot.applied
    <3>1. configState' = [boot.state EXCEPT !.requested = [slot |-> boot.slot, status |-> "rejected"],
                                            !.rejection = "Internal"]
      BY <1>3, <2>3 DEF RecordBootOutcome, recordStrictBootOutcome
    <3>2. configState'.requested = [slot |-> boot.slot, status |-> "rejected"]
      BY <2>1, <3>1 DEF ConfigStates
    <3>3. configState'.requested.status = "rejected"
      BY <3>2
    <3> QED
      BY <3>3 DEF HasRequest
  <2>4. CASE ~ boot.strict
    BY <1>3, <2>4 DEF RecordBootOutcome
  <2> QED
    BY <2>2, <2>3, <2>4
<1>4. ASSUME FinishBoot PROVE FALSE
  BY <1>1, <1>4 DEF FinishBoot, RecordInv, BootFollowsRecord
<1>5. ASSUME NEW h \in Handlers, SavePending(h) \/ SaveAttempted(h) PROVE FALSE
  <2>1. configState' = job[h].state \/ configState' = markAttempted(job[h].state)
    BY <1>5 DEF SavePending, SaveAttempted
  <2>2. job[h].state \in ConfigStates /\ HasRequest(job[h].state)
    BY <1>1, <1>5 DEF SavePending, SaveAttempted, RevertInv, JobTriesFreeSlot, TypeOK, Jobs
  <2> QED
    BY <2>1, <2>2, AttemptFacts
<1>6. ASSUME NEW h \in Handlers, CommitLive(h) PROVE FALSE
  <2>1. /\ job[h].state \in ConfigStates /\ job[h].slot \in Slots
        /\ configState = job[h].state /\ job[h].slot = configState.requested.slot
    BY <1>1, <1>6 DEF CommitLive, RevertInv, JobTriesFreeSlot, TypeOK, Jobs, RecordInv,
       JobFollowsRecord, Trying
  <2>2. configState' = [job[h].state EXCEPT !.confirmed = job[h].slot, !.requested = NoRequest]
    BY <1>6 DEF CommitLive, recordStrictBootOutcome
  <2>3. configState'.confirmed = job[h].slot
    BY <2>1, <2>2 DEF ConfigStates
  <2> QED
    BY <2>1, <2>3
<1>7. ASSUME NEW h \in Handlers, RejectLive(h) PROVE FALSE
  <2>1. /\ job[h].state \in ConfigStates /\ job[h].slot \in Slots
        /\ "Internal" \in RejectionCodes
    BY <1>1 DEF TypeOK, Jobs, RejectionCodes
  <2>2. configState' = [job[h].state EXCEPT !.requested = [slot |-> job[h].slot, status |-> "rejected"],
                                            !.rejection = "Internal"]
    BY <1>7 DEF RejectLive, recordStrictBootOutcome
  <2>3. configState'.requested.status = "rejected"
    BY <2>1, <2>2 DEF ConfigStates
  <2> QED
    BY <2>3 DEF HasRequest
<1>8. ASSUME UNCHANGED configState PROVE FALSE
  BY <1>8, Zenon
<1> QED
  BY <1>2, <1>3, <1>4, <1>5, <1>6, <1>7, <1>8, Zenon
     DEF Next, MainTask, HandlerTask, SyncTask, AbortBoot, PowerCycle, InitDeviceRuntime,
         ReceiveUpdate, StageUpdate, WriteEntry, ApplyLive, Connected, TakeSyncTrigger,
         PublishSync, Restart, Crash, vars, nvs

\* Nothing but the end of a trial moves the confirmed pointer.
LEMMA ConfirmedKept ==
  ASSUME RecordInv, [Next]_vars, configState.confirmed # NoSlot, ~ HasRequest(configState)
  PROVE  configState'.confirmed = configState.confirmed
<1>1. TypeOK /\ RevertInv /\ RecordInv
  BY DEF RecordInv, RevertInv
<1>2. ASSUME LoadDeviceBootConfig PROVE configState'.confirmed = configState.confirmed
  <2> DEFINE found == [configState EXCEPT !.confirmed = ConfirmedSlot(configState)]
             plan == decideBootPlan(found)
  <2>1. found \in ConfigStates /\ found.confirmed = configState.confirmed
    BY <1>1, InitialisedState DEF TypeOK, ConfirmedSlot, ConfigStates
  <2>2. configState' = plan.checkpoint
    BY <1>2 DEF LoadDeviceBootConfig
  <2> QED
    BY <2>1, <2>2, BootPlanFacts
<1>3. ASSUME RecordBootOutcome PROVE configState' = configState
  <2>1. ~ boot.strict
    BY <1>1, <1>3 DEF RecordBootOutcome, RecordInv, BootFollowsRecord, HasRequest
  <2> QED
    BY <2>1, <1>3 DEF RecordBootOutcome
<1>4. ASSUME FinishBoot PROVE configState'.confirmed = configState.confirmed
  BY <1>1, <1>4, ReportedFacts DEF FinishBoot, RecordInv, BootFollowsRecord, TypeOK
<1>5. ASSUME NEW h \in Handlers, SavePending(h)
      PROVE  configState'.confirmed = configState.confirmed
  <2>1. configState' = stageDeviceUpdate(configState)
    BY <1>1, <1>5 DEF SavePending, RecordInv, JobFollowsRecord
  <2> QED
    BY <1>1, <2>1, StageFacts DEF TypeOK
<1>6. ASSUME NEW h \in Handlers, SaveAttempted(h) \/ CommitLive(h) \/ RejectLive(h)
      PROVE  FALSE
  <2>1. Trying(h) /\ HasRequest(job[h].state)
    BY <1>1, <1>6 DEF SaveAttempted, CommitLive, RejectLive, Trying, RevertInv,
       JobTriesFreeSlot
  <2> QED
    BY <1>1, <2>1 DEF RecordInv, JobFollowsRecord
<1>7. ASSUME UNCHANGED configState PROVE configState'.confirmed = configState.confirmed
  BY <1>7
<1> QED
  BY <1>2, <1>3, <1>4, <1>5, <1>6, <1>7
     DEF Next, MainTask, HandlerTask, SyncTask, AbortBoot, PowerCycle, InitDeviceRuntime,
         ReceiveUpdate, StageUpdate, WriteEntry, ApplyLive, Connected, TakeSyncTrigger,
         PublishSync, Restart, Crash, vars, nvs

\* While UPDATEs take turns the confirmed slot is not written, a revert leaves a
\* rejection, and a commit stands, whatever crashes come in between: for every
\* server, all names, and functions that start or not.
THEOREM HistoryIsKept == Spec /\ []UpdatesTakeTurns => HistoryKept
<1>1. RecordInv /\ [Next]_vars => [ConfirmedSet = slots'[ConfirmedSlot(configState)]]_vars
  BY ConfirmedSlotStep
<1>2. RecordInv /\ [Next]_vars =>
        [(/\ HasRequest(configState)
          /\ ~ HasRequest(configState')
          /\ configState'.confirmed # configState.requested.slot)
           => configState'.rejection # NoRejection]_vars
  BY DroppedWithRejection
<1>3. RecordInv /\ [Next]_vars =>
        [(configState.confirmed # NoSlot /\ ~ HasRequest(configState))
           => configState'.confirmed = configState.confirmed]_vars
  BY ConfirmedKept
<1> QED
  BY <1>1, <1>2, <1>3, RecordInit, RecordStep, PTL
     DEF Spec, HistoryKept, ConfirmedSlotUntouched, RevertLeavesRejection, CommitIsFinal

-----------------------------------------------------------------------------
(* Helpers of the sets' invariant *)

\* What is in use are names, the device configuration among them.
LEMMA UsedNames ==
  ASSUME TypeOK
  PROVE  /\ Used \subseteq Names
         /\ DEVICE \in Used
         /\ DEVICE \notin FunctionNames /\ NETWORK \notin FunctionNames
         /\ live \subseteq FunctionNames
         /\ RebootNames \cap FunctionNames = {}
         /\ RebootNames \subseteq Names
  BY RebootNamesAssumption, FunctionNamesAssumption DEF Used, TypeOK, Names

\* The functions of a set depend on its device configuration alone.
LEMMA SameDeviceSameFunctions ==
  ASSUME NEW one, NEW other, one[DEVICE] = other[DEVICE]
  PROVE  FunctionList(one) = FunctionList(other)
  BY DEF FunctionList

-----------------------------------------------------------------------------
(* The main task keeps the sets' invariant *)

\* A step that resets or boots the device disturbs nothing that is said of
\* handlers and announcements.
LEMMA BootDisturbsNoSet ==
  ASSUME TypeOK, SetInv, UpdatesTakeTurns, phase # "ready",
         UNCHANGED <<pc, job, syncing, announced>>
  PROVE  /\ JobFollowsSets'
         /\ AppliedSoFar'
         /\ AnnouncedIsHeld'
<1>1. /\ \A h \in Handlers : pc'[h] = "idle"
      /\ ~ syncing'
      /\ announced' = NoManifest
  BY DEF SetInv, AnnouncedIsHeld, UpdatesTakeTurns, TypeOK
<1> QED
  BY <1>1 DEF JobFollowsSets, AppliedSoFar, AnnouncedIsHeld, Staging, Trying

\* A reset clears what the invariant speaks of, and keeps the confirmed set.
LEMMA PowerCycleSets ==
  ASSUME SetInv, PowerCycle
  PROVE  SetInv'
<1>1. /\ phase' = "off"
      /\ \A h \in Handlers : pc'[h] = "idle"
      /\ syncing' = FALSE
      /\ announced' = NoManifest
      /\ UNCHANGED <<configState, slots>>
  BY DEF PowerCycle, nvs
<1>2. ConfirmedSound' /\ NetworkKept'
  BY <1>1 DEF SetInv, ConfirmedSound, NetworkKept, ConfirmedSet
<1>3. BootRunsSlot' /\ HeldIsConfirmed' /\ AnnouncedIsHeld'
  BY <1>1 DEF BootRunsSlot, HeldIsConfirmed, AnnouncedIsHeld
<1>4. JobFollowsSets' /\ AppliedSoFar'
  BY <1>1 DEF JobFollowsSets, AppliedSoFar, Staging, Trying
<1> QED
  BY <1>2, <1>3, <1>4 DEF SetInv

\* A boot begins with the slot that its plan names.
LEMMA LoadSets ==
  ASSUME TypeOK, SetInv, UpdatesTakeTurns, LoadDeviceBootConfig
  PROVE  SetInv'
<1> DEFINE found == [configState EXCEPT !.confirmed = ConfirmedSlot(configState)]
           plan == decideBootPlan(found)
<1>1. /\ found \in ConfigStates
      /\ ConfirmedSlot(found) = ConfirmedSlot(configState)
      /\ found.requested = configState.requested
  BY InitialisedState DEF TypeOK
<1>2. plan.checkpoint.confirmed = found.confirmed
  BY <1>1, BootPlanFacts
<1>3. /\ phase = "off" /\ phase' = "loaded"
      /\ configState' = plan.checkpoint
      /\ boot'.slot = plan.slotToLoad
      /\ held' = [n \in Names |->
                    IF n \in RebootNames THEN slots[plan.slotToLoad][n]
                                         ELSE NoFingerprint]
      /\ UNCHANGED <<slots, pc, job, syncing, announced>>
  BY DEF LoadDeviceBootConfig, sync
<1>4. HasRequest(configState') =>
        HasRequest(configState) /\ configState'.requested.slot = configState.requested.slot
  <2> SUFFICES ASSUME HasRequest(plan.checkpoint)
               PROVE  /\ HasRequest(configState)
                      /\ plan.checkpoint.requested.slot = configState.requested.slot
    BY <1>3
  <2>1. plan.strict
    BY <1>1, BootPlanFacts
  <2>2. found.requested.status = "pending" /\ plan.checkpoint = markAttempted(found)
    BY <2>1 DEF decideBootPlan
  <2>3. plan.checkpoint.requested.slot = found.requested.slot
    BY <1>1, <2>2, AttemptFacts
  <2> QED
    BY <1>1, <2>2, <2>3 DEF HasRequest
<1> HIDE DEF found, plan
<1>5. ConfirmedSet' = ConfirmedSet
  BY <1>1, <1>2, <1>3 DEF ConfirmedSlot, ConfirmedSet
<1>6. ConfirmedSound' /\ NetworkKept'
  BY <1>3, <1>4, <1>5 DEF SetInv, ConfirmedSound, NetworkKept
<1>7. BootRunsSlot'
  BY <1>3 DEF BootRunsSlot
<1>8. HeldIsConfirmed'
  BY <1>3 DEF HeldIsConfirmed
<1> QED
  BY <1>3, <1>6, <1>7, <1>8, BootDisturbsNoSet DEF SetInv

\* A boot of a sound set creates every function whose hardware starts, and a boot
\* that applied all of it ran a sound set.
LEMMA InitRuntimeSets ==
  ASSUME TypeOK, RecordInv, SetInv, UpdatesTakeTurns, InitDeviceRuntime
  PROVE  SetInv'
<1> DEFINE stored == slots[boot.slot]
           list == FunctionList(held)
<1>1. PICK broken \in SUBSET Fragile :
        LET created == {f \in list \ broken : ~ FaultyEntry(f, stored)}
        IN  /\ live' = created
            /\ held' = [n \in Names |-> IF n \in created THEN stored[n] ELSE held[n]]
            /\ boot' = [boot EXCEPT !.applied = (created = list /\ ~ FaultyEntry(DEVICE, held))]
  BY DEF InitDeviceRuntime
<1> DEFINE created == {f \in list \ broken : ~ FaultyEntry(f, stored)}
<1>2. /\ phase = "loaded" /\ phase' = "running"
      /\ \A n \in RebootNames \ {DEVICE} : ~ FaultyEntry(n, held)
      /\ UNCHANGED <<configState, slots, pc, job, syncing, announced>>
  BY DEF InitDeviceRuntime, nvs, sync
<1>3. /\ held = [n \in Names |-> IF n \in RebootNames THEN stored[n] ELSE NoFingerprint]
      /\ stored \in Contents
  BY <1>2 DEF SetInv, BootRunsSlot, TypeOK, Boots
<1>4. /\ \A n \in RebootNames : held[n] = stored[n]
      /\ DEVICE \in RebootNames
      /\ list = FunctionList(stored)
  <2>1. \A n \in RebootNames : held[n] = stored[n]
    BY <1>3, UsedNames
  <2> QED
    BY <2>1, RebootNamesAssumption, SameDeviceSameFunctions
<1>5. /\ boot'.applied = (created = list /\ ~ FaultyEntry(DEVICE, stored))
      /\ boot'.slot = boot.slot /\ boot'.strict = boot.strict
  BY <1>1, <1>4 DEF TypeOK, Boots, FaultyEntry
<1>6. created \subseteq list /\ created \subseteq FunctionNames
  BY <1>1, UsedNames, FunctionListType DEF TypeOK
<1>7. held' = HeldOf(stored)'
  <2>1. live' = created /\ UNCHANGED slots /\ boot'.slot = boot.slot
    BY <1>1, <1>2, <1>5
  <2>2. held' = [n \in Names |-> IF n \in RebootNames \cup created THEN stored[n]
                                 ELSE NoFingerprint]
    BY <1>1, <1>3
  <2> QED
    BY <2>1, <2>2 DEF HeldOf, Used
<1>8. boot'.applied => Sound(stored) /\ list \ Fragile \subseteq created
  <2> SUFFICES ASSUME boot'.applied
               PROVE  Sound(stored) /\ list \ Fragile \subseteq created
    OBVIOUS
  <2>1. created = list /\ ~ FaultyEntry(DEVICE, stored)
    BY <1>5
  <2>2. \A n \in RebootNames : ~ FaultyEntry(n, stored)
    BY <1>2, <1>4, <2>1 DEF FaultyEntry
  <2> QED
    BY <1>4, <2>1, <2>2 DEF Sound
<1>9. ~ boot.strict => list \ Fragile \subseteq created
  <2> SUFFICES ASSUME ~ boot.strict PROVE list \ Fragile \subseteq created
    OBVIOUS
  <2>1. Sound(stored)
    BY <1>2 DEF RecordInv, BootFollowsRecord, SetInv, ConfirmedSound, ConfirmedSet
  <2> QED
    BY <1>1, <1>4, <2>1 DEF Sound
<1>10. boot'.applied \/ ~ boot'.strict => RunsSet(stored)'
  <2>1. live' = created /\ stored' = stored
    BY <1>1, <1>2, <1>5
  <2> QED
    BY <1>4, <1>5, <1>6, <1>7, <1>8, <1>9, <2>1 DEF RunsSet, RunsFunctionsOf
<1>11. BootRunsSlot'
  BY <1>2, <1>5, <1>8, <1>10 DEF BootRunsSlot
<1>12. HeldIsConfirmed' /\ ConfirmedSound' /\ NetworkKept'
  BY <1>2 DEF HeldIsConfirmed, SetInv, ConfirmedSound, NetworkKept, ConfirmedSet
<1> QED
  BY <1>2, <1>11, <1>12, BootDisturbsNoSet DEF SetInv

\* A strict boot confirms what it runs, or restarts; any other runs the
\* confirmed set.
LEMMA RecordOutcomeSets ==
  ASSUME TypeOK, RecordInv, SetInv, UpdatesTakeTurns, RecordBootOutcome
  PROVE  SetInv'
<1>1. /\ phase = "running"
      /\ configState = boot.state
      /\ boot.state \in ConfigStates /\ boot.slot \in Slots /\ boot.applied \in BOOLEAN
      /\ "Internal" \in RejectionCodes
      /\ UNCHANGED <<slots, held, live, pc, job, syncing, announced>>
  BY DEF RecordBootOutcome, RecordInv, BootFollowsRecord, TypeOK, Boots,
     RejectionCodes, sync
<1>2. boot.strict => HasRequest(configState) /\ configState.requested.slot = boot.slot
  <2> SUFFICES ASSUME boot.strict
               PROVE  HasRequest(configState) /\ configState.requested.slot = boot.slot
    OBVIOUS
  <2>1. configState.requested = [slot |-> boot.slot, status |-> "attempted"]
    BY <1>1 DEF RecordInv, BootFollowsRecord
  <2> QED
    BY <2>1 DEF HasRequest
<1>3. CASE boot.strict /\ boot.applied
  <2> DEFINE outcome == recordStrictBootOutcome(boot.state, boot.slot, TRUE, "Internal")
  <2>1. ConfirmedSlot(outcome) = boot.slot /\ ~ HasRequest(outcome)
    <3>1. boot.state \in ConfigStates /\ boot.slot \in Slots
      BY <1>1
    <3> QED
      BY <3>1, CommitFacts, Zenon
  <2>2. configState' = outcome /\ phase' = "settled"
    <3>1. boot.applied = TRUE
      BY <1>1, <1>3
    <3> QED
      BY <3>1, <1>3 DEF RecordBootOutcome
  <2> HIDE DEF outcome
  <2>3. ConfirmedSet' = slots[boot.slot]
    BY <1>1, <2>1, <2>2 DEF ConfirmedSet
  <2>4. Sound(slots[boot.slot]) /\ RunsSet(slots[boot.slot])
    BY <1>1, <1>3 DEF SetInv, BootRunsSlot
  <2>5. BootRunsSlot' /\ ConfirmedSound'
    BY <1>1, <2>2, <2>3, <2>4 DEF BootRunsSlot, ConfirmedSound, RunsSet, RunsFunctionsOf,
       HeldOf, Used
  <2>6. NetworkKept'
    BY <1>2, <1>3, <2>1, <2>2, <2>3 DEF SetInv, NetworkKept
  <2>7. HeldIsConfirmed'
    BY <2>2 DEF HeldIsConfirmed
  <2> QED
    BY <1>1, <2>5, <2>6, <2>7, BootDisturbsNoSet DEF SetInv
<1>4. CASE boot.strict /\ ~ boot.applied
  <2> DEFINE outcome == recordStrictBootOutcome(boot.state, boot.slot, FALSE, "Internal")
  <2>1. /\ outcome.confirmed = boot.state.confirmed
        /\ outcome.requested = [slot |-> boot.slot, status |-> "rejected"]
    BY <1>1, RejectFacts
  <2>2. configState' = outcome /\ phase' = "restarting"
    <3>1. boot.applied = FALSE
      BY <1>1, <1>4
    <3> QED
      BY <3>1, <1>4 DEF RecordBootOutcome
  <2> HIDE DEF outcome
  <2>3. ConfirmedSet' = ConfirmedSet /\ configState'.requested.slot = boot.slot
    BY <1>1, <2>1, <2>2, ConfirmedSetKept
  <2>4. ConfirmedSound' /\ NetworkKept'
    BY <1>1, <1>2, <1>4, <2>3 DEF SetInv, ConfirmedSound, NetworkKept
  <2>5. BootRunsSlot' /\ HeldIsConfirmed'
    BY <2>2 DEF BootRunsSlot, HeldIsConfirmed
  <2> QED
    BY <1>1, <2>4, <2>5, BootDisturbsNoSet DEF SetInv
<1>5. CASE ~ boot.strict
  <2>1. phase' = "settled" /\ UNCHANGED configState
    BY <1>5 DEF RecordBootOutcome
  <2>2. boot.slot = ConfirmedSlot(configState)
    BY <1>1, <1>5 DEF RecordInv, BootFollowsRecord
  <2>3. RunsSet(ConfirmedSet) /\ ConfirmedSet' = ConfirmedSet
    BY <1>1, <1>5, <2>1, <2>2 DEF SetInv, BootRunsSlot, ConfirmedSet
  <2>4. BootRunsSlot' /\ HeldIsConfirmed'
    BY <1>1, <2>1, <2>3 DEF BootRunsSlot, HeldIsConfirmed, RunsSet, RunsFunctionsOf, HeldOf,
       Used
  <2>5. ConfirmedSound' /\ NetworkKept'
    BY <1>1, <2>1, <2>3 DEF SetInv, ConfirmedSound, NetworkKept
  <2> QED
    BY <1>1, <2>4, <2>5, BootDisturbsNoSet DEF SetInv
<1> QED
  BY <1>3, <1>4, <1>5

\* With the boot over, RAM holds the confirmed set.
LEMMA FinishSets ==
  ASSUME TypeOK, RecordInv, SetInv, UpdatesTakeTurns, FinishBoot
  PROVE  SetInv'
<1>1. /\ phase = "settled" /\ phase' = "ready"
      /\ configState = boot.state /\ configState \in ConfigStates
      /\ ~ HasRequest(configState)
      /\ RunsSet(ConfirmedSet)
      /\ UNCHANGED <<slots, held, live, pc, job, syncing, announced>>
  BY DEF FinishBoot, RecordInv, BootFollowsRecord, SetInv, BootRunsSlot, TypeOK
<1>2. configState'.confirmed = configState.confirmed /\ ~ HasRequest(configState')
  BY <1>1, ReportedFacts DEF FinishBoot, HasRequest
<1>3. ConfirmedSet' = ConfirmedSet
  BY <1>1, <1>2, ConfirmedSetKept
<1>4. HeldIsConfirmed' /\ BootRunsSlot'
  BY <1>1, <1>3 DEF HeldIsConfirmed, BootRunsSlot, RunsSet, RunsFunctionsOf, HeldOf, Used
<1>5. ConfirmedSound' /\ NetworkKept'
  BY <1>2, <1>3 DEF SetInv, ConfirmedSound, NetworkKept
<1> QED
  BY <1>1, <1>4, <1>5, BootDisturbsNoSet DEF SetInv

-----------------------------------------------------------------------------
(* The UPDATE handler keeps the sets' invariant *)

\* While the device is up the invariant says nothing of boots, and what it says of
\* the other handlers holds because they are idle.
LEMMA UpSaysNothingOfBoots ==
  ASSUME phase' = "ready"
  PROVE  BootRunsSlot'
  BY DEF BootRunsSlot

\* What neither the confirmed set, nor RAM, nor the request depends on.
LEMMA RestKept ==
  ASSUME SetInv, ConfirmedSet' = ConfirmedSet,
         HasRequest(configState') =>
           /\ HasRequest(configState)
           /\ configState'.requested.slot = configState.requested.slot
           /\ slots' = slots
  PROVE  ConfirmedSound' /\ NetworkKept'
  BY DEF SetInv, ConfirmedSound, NetworkKept

\* A handler begins with what its UPDATE would change of the confirmed set.
LEMMA ReceiveSets ==
  ASSUME TypeOK, SetInv, UpdatesTakeTurns', NEW h \in Handlers, ReceiveUpdate(h)
  PROVE  SetInv'
<1>1. PICK update \in Updates :
        job' = [job EXCEPT ![h].changed = filterUpdate(update)]
  BY DEF ReceiveUpdate
<1>2. /\ phase = "ready"
      /\ \A i \in Handlers : pc[i] = "idle"
      /\ pc'[h] = "stage"
      /\ \A i \in Handlers \ {h} : pc'[i] = "idle"
  BY TurnBegins
<1>3. /\ job'[h].changed = filterUpdate(update)
      /\ UNCHANGED <<configState, slots, phase, boot, held, live, syncTrigger, syncing,
                     announced>>
  BY <1>1 DEF ReceiveUpdate, TypeOK, Jobs, nvs, sync
<1>4. ~ Applying /\ ~ Applying'
  BY <1>2, <1>3 DEF Applying
<1>5. RunsSet(ConfirmedSet)
  BY <1>2, <1>4 DEF SetInv, HeldIsConfirmed
<1>6. ChangesOf(update, filterUpdate(update), ConfirmedSet)
  BY <1>5 DEF ChangesOf, filterUpdate, RunsSet, HeldOf
<1>7. ConfirmedSet' = ConfirmedSet /\ Used' = Used
  BY <1>3 DEF ConfirmedSet, Used
<1>8. JobFollowsSets' /\ AppliedSoFar'
  <2>1. \E u \in Updates : ChangesOf(u, job[h].changed, ConfirmedSet)'
    BY <1>3, <1>6, <1>7 DEF ChangesOf
  <2> QED
    BY <1>2, <2>1 DEF JobFollowsSets, AppliedSoFar, Staging, Trying
<1>9. HeldIsConfirmed'
  BY <1>3, <1>5, <1>7 DEF HeldIsConfirmed, RunsSet, RunsFunctionsOf, HeldOf
<1>10. AnnouncedIsHeld'
  BY <1>3, <1>4 DEF SetInv, AnnouncedIsHeld
<1> QED
  BY <1>2, <1>3, <1>7, <1>8, <1>9, <1>10, UpSaysNothingOfBoots, RestKept DEF SetInv

\* It takes along what is in use, and a record that requests the free slot.
LEMMA StageSets ==
  ASSUME TypeOK, SetInv, UpdatesTakeTurns, NEW h \in Handlers, StageUpdate(h)
  PROVE  SetInv'
<1> DEFINE changed == job[h].changed
           next == stageDeviceUpdate(configState)
           merged == [n \in Names |->
                        IF n \in Named(changed) THEN changed[n]
                        ELSE IF n \in Carried(ConfirmedSet) THEN ConfirmedSet[n]
                        ELSE NoFingerprint]
           todo == Named(changed) \cup Carried(ConfirmedSet)
<1>1. /\ phase = "ready"
      /\ \A i \in Handlers \ {h} : pc[i] = "idle"
      /\ pc[h] = "stage"
      /\ ~ Applying
  BY OthersIdle DEF StageUpdate
<1>2. /\ job'[h] = [job[h] EXCEPT !.state = next, !.slot = next.requested.slot,
                                  !.merged = merged, !.todo = todo]
      /\ pc'[h] = "write"
      /\ \A i \in Handlers \ {h} : pc'[i] = "idle"
      /\ UNCHANGED <<configState, slots, phase, boot, held, live, syncTrigger, syncing,
                     announced>>
  BY <1>1 DEF StageUpdate, TypeOK, nvs, sync, ConfirmedSet
<1>3. RunsSet(ConfirmedSet)
  BY <1>1 DEF SetInv, HeldIsConfirmed
<1>4. Carried(ConfirmedSet) = Used
  <2>1. NETWORK \notin live /\ DEVICE # NETWORK
    BY UsedNames DEF DEVICE, NETWORK
  <2>2. NETWORK \in Used => ConfirmedSet[NETWORK] # NoFingerprint
    BY <2>1 DEF SetInv, NetworkKept, Used
  <2> QED
    BY <2>2 DEF Carried, Used
<1>5. merged = MergedOf(changed, ConfirmedSet) /\ todo = Named(changed) \cup Used
  BY <1>4 DEF MergedOf, Named
<1> HIDE DEF next, merged, todo
<1>6. /\ job'[h].merged = merged /\ job'[h].todo = todo /\ job'[h].changed = changed
  BY <1>2 DEF TypeOK, Jobs
<1>7. ConfirmedSet' = ConfirmedSet /\ Used' = Used
  BY <1>2 DEF ConfirmedSet, Used
<1>8. Staged(h)' = todo /\ Written(h, Staged(h) \ job[h].todo)'
  BY <1>5, <1>6, <1>7 DEF Written, Staged, Named
<1>9. PICK update \in Updates : ChangesOf(update, changed, ConfirmedSet)
  BY <1>1 DEF SetInv, JobFollowsSets, Staging
<1>10. JobFollowsSets'
  <2>1. ChangesOf(update, job[h].changed, ConfirmedSet)'
    BY <1>6, <1>7, <1>9 DEF ChangesOf
  <2>2. (job[h].merged = MergedOf(job[h].changed, ConfirmedSet))'
    BY <1>5, <1>6, <1>7 DEF MergedOf
  <2> QED
    BY <1>2, <1>8, <2>1, <2>2 DEF JobFollowsSets, Staging, Trying
<1>11. AppliedSoFar' /\ ~ Applying'
  BY <1>2 DEF AppliedSoFar, Applying
<1>12. HeldIsConfirmed'
  BY <1>2, <1>3, <1>7 DEF HeldIsConfirmed, RunsSet, RunsFunctionsOf, HeldOf
<1>13. AnnouncedIsHeld'
  BY <1>1, <1>2 DEF SetInv, AnnouncedIsHeld
<1> QED
  BY <1>1, <1>2, <1>7, <1>10, <1>11, <1>12, <1>13, UpSaysNothingOfBoots, RestKept
     DEF SetInv

\* One more entry of the free slot is as it shall be.
LEMMA WriteSets ==
  ASSUME RecordInv, SetInv, UpdatesTakeTurns, NEW h \in Handlers, WriteEntry(h)
  PROVE  SetInv'
<1>0. TypeOK
  BY DEF RecordInv, RevertInv
<1>1. /\ phase = "ready"
      /\ \A i \in Handlers \ {h} : pc[i] = "idle"
      /\ pc[h] = "write"
      /\ ~ Applying
  BY OthersIdle DEF WriteEntry
<1>2. PICK n \in job[h].todo :
        /\ slots' = [slots EXCEPT ![job[h].slot][n] = job[h].merged[n]]
        /\ job' = [job EXCEPT ![h].todo = @ \ {n}]
  BY DEF WriteEntry
<1>3. /\ job[h].slot \in Slots /\ n \in Names /\ job[h].todo \subseteq Names
      /\ job'[h].slot = job[h].slot
      /\ job'[h].merged = job[h].merged /\ job'[h].changed = job[h].changed
      /\ job'[h].todo = job[h].todo \ {n}
      /\ UNCHANGED <<configState, phase, boot, held, live, pc, syncTrigger, syncing,
                     announced>>
  BY <1>0, <1>2 DEF WriteEntry, TypeOK, Jobs, sync
<1>4. ConfirmedSet' = ConfirmedSet /\ Used' = Used
  BY <1>3, WriteKeepsConfirmedSet DEF Used
<1>5. /\ job[h].merged = MergedOf(job[h].changed, ConfirmedSet)
      /\ Written(h, Staged(h) \ job[h].todo)
  BY <1>1 DEF SetInv, JobFollowsSets
<1>6. /\ slots'[job[h].slot][n] = job[h].merged[n]
      /\ \A m \in Names \ {n} : slots'[job[h].slot][m] = slots[job[h].slot][m]
  BY <1>0, <1>2, <1>3 DEF TypeOK, Contents
<1>7. /\ Staged(h) \subseteq Names /\ Staged(h)' = Staged(h)
      /\ MergedOf(job[h].changed, ConfirmedSet)' = MergedOf(job[h].changed, ConfirmedSet)
  BY <1>0, <1>3, <1>4, UsedNames DEF Staged, Named, MergedOf
<1>8. Written(h, Staged(h) \ job[h].todo)'
  BY <1>3, <1>5, <1>6, <1>7 DEF Written
<1>9. JobFollowsSets'
  <2>1. PICK update \in Updates : ChangesOf(update, job[h].changed, ConfirmedSet)
    BY <1>1 DEF SetInv, JobFollowsSets, Staging
  <2>2. ChangesOf(update, job[h].changed, ConfirmedSet)'
    BY <1>3, <1>4, <2>1 DEF ChangesOf
  <2>3. (job[h].merged = MergedOf(job[h].changed, ConfirmedSet))'
    BY <1>3, <1>5, <1>7
  <2> QED
    BY <1>1, <1>3, <1>8, <2>2, <2>3 DEF JobFollowsSets, Staging, Trying
<1>10. AppliedSoFar' /\ ~ Applying'
  BY <1>1, <1>3 DEF AppliedSoFar, Applying
<1>11. HeldIsConfirmed'
  BY <1>1, <1>3, <1>4 DEF SetInv, HeldIsConfirmed, RunsSet, RunsFunctionsOf, HeldOf
<1>12. AnnouncedIsHeld'
  BY <1>1, <1>3 DEF SetInv, AnnouncedIsHeld
<1>13. ~ HasRequest(configState)
  BY <1>1 DEF RecordInv, NothingOnTrial, Staging
<1> QED
  BY <1>1, <1>3, <1>4, <1>9, <1>10, <1>11, <1>12, <1>13, UpSaysNothingOfBoots, RestKept
     DEF SetInv

\* The free slot is complete when the record says that it is to be tried.
LEMMA SavePendingSets ==
  ASSUME RecordInv, SetInv, UpdatesTakeTurns, NEW h \in Handlers, SavePending(h)
  PROVE  SetInv'
<1>0. TypeOK
  BY DEF RecordInv, RevertInv
<1>1. /\ phase = "ready"
      /\ \A i \in Handlers \ {h} : pc[i] = "idle"
      /\ pc[h] = "write" /\ job[h].todo = {}
      /\ ~ Applying
  BY OthersIdle DEF SavePending
<1>2. /\ configState' = job[h].state
      /\ \A i \in Handlers \ {h} : pc'[i] = "idle"
      /\ UNCHANGED <<slots, phase, boot, held, live, syncTrigger, syncing, announced>>
  BY <1>0, <1>1 DEF SavePending, TypeOK, sync
<1>3. /\ job[h].state = stageDeviceUpdate(configState)
      /\ job[h].slot = job[h].state.requested.slot
      /\ Written(h, Staged(h))
  BY <1>1 DEF RecordInv, RevertInv, JobTriesFreeSlot, JobFollowsRecord, SetInv,
     JobFollowsSets
<1>4. configState'.confirmed = configState.confirmed
  BY <1>0, <1>2, <1>3, StageFacts DEF TypeOK
<1>5. ConfirmedSet' = ConfirmedSet /\ Used' = Used
  BY <1>2, <1>4, ConfirmedSetKept DEF Used
<1>6. RunsSet(ConfirmedSet)'
  BY <1>1, <1>2, <1>5 DEF SetInv, HeldIsConfirmed, RunsSet, RunsFunctionsOf, HeldOf
<1>7. \/ pc'[h] = "restarting"
      \/ /\ pc'[h] = "attempt" /\ ~ NeedsReboot(h)
         /\ job'[h].slot = job[h].slot /\ job'[h].changed = job[h].changed
  BY <1>0 DEF SavePending, TypeOK, Jobs
<1>8. JobFollowsSets'
  <2>1. CASE pc'[h] = "restarting"
    BY <2>1, <1>2 DEF JobFollowsSets, Staging, Trying
  <2>2. CASE /\ pc'[h] = "attempt" /\ ~ NeedsReboot(h)
             /\ job'[h].slot = job[h].slot /\ job'[h].changed = job[h].changed
    <3>1. Written(h, Staged(h))'
      BY <2>2, <1>2, <1>3, <1>5 DEF Written, Staged, MergedOf
    <3>2. ~ NeedsReboot(h)'
      BY <2>2 DEF NeedsReboot
    <3> QED
      BY <2>2, <3>1, <3>2, <1>2 DEF JobFollowsSets, Staging, Trying
  <2> QED
    BY <2>1, <2>2, <1>7
<1>9. AppliedSoFar'
  BY <1>2, <1>7 DEF AppliedSoFar
<1>10. HeldIsConfirmed' /\ ConfirmedSound'
  BY <1>5, <1>6 DEF HeldIsConfirmed, SetInv, ConfirmedSound
<1>11. AnnouncedIsHeld'
  BY <1>1, <1>2 DEF SetInv, AnnouncedIsHeld
<1>12. NetworkKept'
  <2> SUFFICES ASSUME NETWORK \in RebootNames
               PROVE  /\ ConfirmedSet'[NETWORK] # NoFingerprint
                      /\ slots[job[h].slot][NETWORK] # NoFingerprint
    BY <1>2, <1>3 DEF NetworkKept
  <2>1. ConfirmedSet[NETWORK] # NoFingerprint
    BY DEF SetInv, NetworkKept
  <2>2. NETWORK \in Staged(h) /\ NETWORK \in Used /\ NETWORK \in Names
    BY <1>0, UsedNames DEF Staged, Used
  <2>3. slots[job[h].slot][NETWORK] = MergedOf(job[h].changed, ConfirmedSet)[NETWORK]
    BY <1>3, <2>2 DEF Written
  <2> QED
    BY <1>5, <2>1, <2>2, <2>3 DEF MergedOf
<1> QED
  BY <1>1, <1>2, <1>8, <1>9, <1>10, <1>11, <1>12, UpSaysNothingOfBoots DEF SetInv

\* The trial begins with RAM as it was.
LEMMA SaveAttemptedSets ==
  ASSUME RecordInv, SetInv, UpdatesTakeTurns, NEW h \in Handlers, SaveAttempted(h)
  PROVE  SetInv'
<1>0. TypeOK
  BY DEF RecordInv, RevertInv
<1>1. /\ phase = "ready"
      /\ \A i \in Handlers \ {h} : pc[i] = "idle"
      /\ pc[h] = "attempt"
      /\ ~ Applying
  BY OthersIdle DEF SaveAttempted
<1>2. /\ configState' = markAttempted(job[h].state)
      /\ pc'[h] = "apply"
      /\ job'[h].slot = job[h].slot /\ job'[h].changed = job[h].changed
      /\ job'[h].todo = Named(job[h].changed)
      /\ \A i \in Handlers \ {h} : pc'[i] = "idle"
      /\ UNCHANGED <<slots, phase, boot, held, live, syncTrigger, syncing, announced>>
  BY <1>0, <1>1 DEF SaveAttempted, TypeOK, Jobs, sync
<1>3. /\ configState = job[h].state /\ HasRequest(configState)
      /\ ~ NeedsReboot(h) /\ Written(h, Staged(h))
  BY <1>1 DEF RecordInv, RevertInv, JobTriesFreeSlot, JobFollowsRecord, SetInv,
     JobFollowsSets, Trying
<1>4. /\ configState'.confirmed = configState.confirmed
      /\ configState'.requested.slot = configState.requested.slot
  BY <1>0, <1>2, <1>3, AttemptFacts DEF TypeOK
<1>5. ConfirmedSet' = ConfirmedSet /\ Used' = Used
  BY <1>2, <1>4, ConfirmedSetKept DEF Used
<1>6. RunsSet(ConfirmedSet)
  BY <1>1 DEF SetInv, HeldIsConfirmed
<1>7. JobFollowsSets'
  <2>1. Written(h, Staged(h))'
    BY <1>2, <1>3, <1>5 DEF Written, Staged, MergedOf
  <2>2. ~ NeedsReboot(h)'
    BY <1>2, <1>3 DEF NeedsReboot
  <2> QED
    BY <2>1, <2>2, <1>2 DEF JobFollowsSets, Staging, Trying
<1>8. AppliedSoFar'
  <2>1. /\ RunsFunctionsOf(ConfirmedSet)'
        /\ HeldOf(ConfirmedSet)' = HeldOf(ConfirmedSet)
        /\ held' = HeldOf(ConfirmedSet)
    BY <1>2, <1>5, <1>6 DEF RunsSet, RunsFunctionsOf, HeldOf
  <2>2. job'[h].todo = Named(job'[h].changed)
    BY <1>2
  <2>3. held' = [n \in Names |-> HeldOf(ConfirmedSet)'[n]]
    BY <2>1 DEF HeldOf
  <2> QED
    BY <1>2, <2>1, <2>2, <2>3 DEF AppliedSoFar, Named
<1>9. HeldIsConfirmed'
  BY <1>2 DEF HeldIsConfirmed, Applying
<1>10. AnnouncedIsHeld'
  BY <1>1, <1>2 DEF SetInv, AnnouncedIsHeld
<1> QED
  BY <1>1, <1>2, <1>3, <1>4, <1>5, <1>7, <1>8, <1>9, <1>10, UpSaysNothingOfBoots, RestKept
     DEF SetInv

\* A function that took over its body is the only one that changed.
LEMMA ApplySets ==
  ASSUME TypeOK, SetInv, UpdatesTakeTurns, NEW h \in Handlers, ApplyLive(h)
  PROVE  SetInv'
<1>1. /\ phase = "ready"
      /\ \A i \in Handlers \ {h} : pc[i] = "idle"
      /\ pc[h] = "apply"
  BY OthersIdle DEF ApplyLive
<1>2. PICK n \in job[h].todo :
        IF n \in live /\ ~ FaultyEntry(n, job[h].changed)
        THEN /\ held' = [held EXCEPT ![n] = job[h].changed[n]]
             /\ job' = [job EXCEPT ![h].todo = @ \ {n}]
             /\ UNCHANGED pc
        ELSE /\ pc' = [pc EXCEPT ![h] = "reject"]
             /\ UNCHANGED <<held, job>>
  BY DEF ApplyLive
<1>3. /\ pc'[h] \in {"apply", "reject"}
      /\ job'[h].slot = job[h].slot /\ job'[h].changed = job[h].changed
      /\ \A i \in Handlers \ {h} : pc'[i] = "idle"
      /\ UNCHANGED <<configState, slots, phase, boot, live, syncTrigger, syncing, announced>>
  BY <1>1, <1>2 DEF ApplyLive, TypeOK, Jobs, nvs, sync
<1>4. ConfirmedSet' = ConfirmedSet /\ Used' = Used
  BY <1>3 DEF ConfirmedSet, Used
<1>5. Applying'
  BY <1>3 DEF Applying
<1>6. JobFollowsSets'
  <2>1. ~ NeedsReboot(h) /\ Written(h, Staged(h))
    BY <1>1 DEF SetInv, JobFollowsSets, Trying
  <2>2. Written(h, Staged(h))' /\ ~ NeedsReboot(h)'
    BY <2>1, <1>3, <1>4 DEF Written, Staged, MergedOf, NeedsReboot
  <2> QED
    BY <2>2, <1>3 DEF JobFollowsSets, Staging, Trying
<1>7. AppliedSoFar'
  <2>1. CASE n \in live /\ ~ FaultyEntry(n, job[h].changed)
    <3> DEFINE done == Named(job[h].changed) \ job[h].todo
    <3>1. /\ RunsFunctionsOf(ConfirmedSet)
          /\ job[h].todo \subseteq Named(job[h].changed)
          /\ \A m \in done : m \in live /\ ~ FaultyEntry(m, job[h].changed)
          /\ held = [m \in Names |-> IF m \in done THEN job[h].changed[m]
                                     ELSE HeldOf(ConfirmedSet)[m]]
      BY <1>1 DEF SetInv, AppliedSoFar
    <3>2. /\ held' = [held EXCEPT ![n] = job[h].changed[n]]
          /\ job'[h].todo = job[h].todo \ {n}
          /\ n \in Names
      BY <1>2, <2>1 DEF TypeOK, Jobs
    <3>3. (Named(job[h].changed) \ job[h].todo)' = done \cup {n}
      BY <1>3, <3>1, <3>2 DEF Named
    <3>4. RunsFunctionsOf(ConfirmedSet)' /\ HeldOf(ConfirmedSet)' = HeldOf(ConfirmedSet)
      BY <1>3, <1>4, <3>1 DEF RunsFunctionsOf, HeldOf
    <3>5. held' = [m \in Names |-> IF m \in done \cup {n} THEN job[h].changed[m]
                                   ELSE HeldOf(ConfirmedSet)[m]]
      BY <3>1, <3>2
    <3>6. \A m \in done \cup {n} : m \in live' /\ ~ FaultyEntry(m, job'[h].changed)
      BY <1>3, <2>1, <3>1
    <3>7. job'[h].todo \subseteq Named(job'[h].changed)
      BY <1>3, <3>1, <3>2
    <3> QED
      BY <3>3, <3>4, <3>5, <3>6, <3>7, <1>3 DEF AppliedSoFar
  <2>2. CASE ~ (n \in live /\ ~ FaultyEntry(n, job[h].changed))
    <3>1. pc'[h] = "reject"
      BY <1>2, <2>2 DEF TypeOK
    <3> QED
      BY <3>1, <1>3 DEF AppliedSoFar
  <2> QED
    BY <2>1, <2>2
<1>8. HeldIsConfirmed'
  BY <1>5 DEF HeldIsConfirmed
<1>9. AnnouncedIsHeld'
  BY <1>1, <1>3, <1>5 DEF SetInv, AnnouncedIsHeld
<1> QED
  BY <1>1, <1>3, <1>4, <1>6, <1>7, <1>8, <1>9, UpSaysNothingOfBoots, RestKept DEF SetInv

\* What a live apply commits is the confirmed set with the changes made to it:
\* every body of it came through, and it is what RAM holds.
LEMMA CommittedSetIsHeld ==
  ASSUME TypeOK, SetInv, NEW h \in Handlers, CommitLive(h)
  PROVE  /\ Sound(slots[job[h].slot])
         /\ RunsSet(slots[job[h].slot])
<1> DEFINE changed == job[h].changed
           set == slots[job[h].slot]
<1>1. pc[h] = "apply" /\ job[h].todo = {}
  BY DEF CommitLive
<1>2. changed \in Contents /\ set \in Contents /\ ConfirmedSet \in Contents
  BY ConfirmedSetType DEF TypeOK, Jobs
<1>3. /\ Named(changed) \cap RebootNames = {}
      /\ \A n \in Named(changed) \cup Used :
           set[n] = MergedOf(changed, ConfirmedSet)[n]
  BY <1>1 DEF SetInv, JobFollowsSets, Trying, Written, Staged, NeedsReboot
<1>4. /\ RunsFunctionsOf(ConfirmedSet)
      /\ \A n \in Named(changed) : n \in live /\ ~ FaultyEntry(n, changed)
      /\ held = [n \in Names |-> IF n \in Named(changed) THEN changed[n]
                                 ELSE HeldOf(ConfirmedSet)[n]]
  BY <1>1 DEF SetInv, AppliedSoFar
<1>5. \A n \in Used :
        set[n] = IF n \in Named(changed) THEN changed[n] ELSE ConfirmedSet[n]
  BY <1>2, <1>3, UsedNames DEF MergedOf, Named
<1>6. \A n \in RebootNames : set[n] = ConfirmedSet[n]
  BY <1>3, <1>5 DEF Used
<1>7. FunctionList(set) = FunctionList(ConfirmedSet)
  BY <1>6, RebootNamesAssumption, SameDeviceSameFunctions
<1> HIDE DEF changed, set
<1>8. Sound(set)
  <2>1. /\ \A n \in RebootNames : ~ FaultyEntry(n, ConfirmedSet)
        /\ \A f \in FunctionList(ConfirmedSet) \ Fragile : ~ FaultyEntry(f, ConfirmedSet)
    BY DEF SetInv, ConfirmedSound, Sound
  <2>2. \A n \in RebootNames : ~ FaultyEntry(n, set)
    BY <2>1, <1>6 DEF FaultyEntry
  <2>3. ASSUME NEW f \in FunctionList(set) \ Fragile PROVE ~ FaultyEntry(f, set)
    <3>1. f \in live /\ ~ FaultyEntry(f, ConfirmedSet)
      BY <1>4, <1>7, <2>1, <2>3 DEF RunsFunctionsOf
    <3>2. f \in Used
      BY <3>1 DEF Used
    <3> QED
      BY <3>1, <3>2, <1>4, <1>5 DEF FaultyEntry
  <2> QED
    BY <2>2, <2>3 DEF Sound
<1>9. RunsFunctionsOf(set)
  BY <1>4, <1>7 DEF RunsFunctionsOf
<1>10. held = HeldOf(set)
  <2>1. \A n \in Named(changed) : n \in Used
    BY <1>4 DEF Used
  <2> QED
    BY <2>1, <1>4, <1>5 DEF HeldOf
<1> QED
  BY <1>8, <1>9, <1>10 DEF RunsSet, set

\* The set that is now confirmed is sound, and is what RAM holds.
LEMMA CommitSets ==
  ASSUME RecordInv, SetInv, UpdatesTakeTurns, NEW h \in Handlers, CommitLive(h)
  PROVE  SetInv'
<1>0. TypeOK
  BY DEF RecordInv, RevertInv
<1>1. /\ phase = "ready"
      /\ \A i \in Handlers \ {h} : pc[i] = "idle"
      /\ pc[h] = "apply"
  BY OthersIdle DEF CommitLive
<1>2. /\ configState' = recordStrictBootOutcome(job[h].state, job[h].slot, TRUE, "Internal")
      /\ \A i \in Handlers : pc'[i] = "idle"
      /\ syncTrigger' = TRUE
      /\ UNCHANGED <<slots, phase, boot, held, live, syncing, announced>>
  BY <1>0, <1>1 DEF CommitLive, TypeOK
<1>3. ConfirmedSlot(configState') = job[h].slot /\ ~ HasRequest(configState')
  <2>1. job[h].state \in ConfigStates /\ job[h].slot \in Slots
    BY <1>0 DEF TypeOK, Jobs
  <2> QED
    BY <2>1, <1>2, CommitFacts
<1>4. ConfirmedSet' = slots[job[h].slot]
  BY <1>2, <1>3 DEF ConfirmedSet
<1>5. ConfirmedSound' /\ RunsSet(ConfirmedSet)'
  <2>1. Sound(slots[job[h].slot]) /\ RunsSet(slots[job[h].slot])
    BY <1>0, CommittedSetIsHeld
  <2> QED
    BY <1>2, <1>4, <2>1 DEF ConfirmedSound, RunsSet, RunsFunctionsOf, HeldOf, Used
<1>6. HeldIsConfirmed'
  BY <1>5 DEF HeldIsConfirmed
<1>7. JobFollowsSets' /\ AppliedSoFar'
  BY <1>2 DEF JobFollowsSets, AppliedSoFar, Staging, Trying
<1>8. AnnouncedIsHeld'
  BY <1>1, <1>2 DEF SetInv, AnnouncedIsHeld
<1>9. NetworkKept'
  <2>1. HasRequest(configState) /\ configState.requested.slot = job[h].slot
    BY <1>1 DEF RecordInv, RevertInv, JobTriesFreeSlot, JobFollowsRecord, Trying
  <2> QED
    BY <2>1, <1>3, <1>4 DEF SetInv, NetworkKept
<1> QED
  BY <1>1, <1>2, <1>5, <1>6, <1>7, <1>8, <1>9, UpSaysNothingOfBoots DEF SetInv

\* A failed apply leaves RAM mixed until the restart, and the confirmed set whole.
LEMMA RejectSets ==
  ASSUME RecordInv, SetInv, UpdatesTakeTurns, NEW h \in Handlers, RejectLive(h)
  PROVE  SetInv'
<1>0. TypeOK
  BY DEF RecordInv, RevertInv
<1>1. /\ phase = "ready"
      /\ \A i \in Handlers \ {h} : pc[i] = "idle"
      /\ pc[h] = "reject"
  BY OthersIdle DEF RejectLive
<1>2. /\ configState' = recordStrictBootOutcome(job[h].state, job[h].slot, FALSE, "Internal")
      /\ pc'[h] = "restarting"
      /\ \A i \in Handlers \ {h} : pc'[i] = "idle"
      /\ UNCHANGED <<slots, phase, boot, held, live, syncTrigger, syncing, announced>>
  BY <1>0, <1>1 DEF RejectLive, TypeOK, sync
<1>3. /\ HasRequest(configState)
      /\ configState'.confirmed = configState.confirmed
      /\ configState'.requested.slot = configState.requested.slot
  <2>1. job[h].state \in ConfigStates /\ job[h].slot \in Slots
        /\ "Internal" \in RejectionCodes
    BY <1>0 DEF TypeOK, Jobs, RejectionCodes
  <2>2. configState = job[h].state /\ HasRequest(configState)
        /\ job[h].slot = configState.requested.slot
    BY <1>1 DEF RecordInv, RevertInv, JobTriesFreeSlot, JobFollowsRecord, Trying
  <2>3. /\ configState'.confirmed = configState.confirmed
        /\ configState'.requested = [slot |-> job[h].slot, status |-> "rejected"]
    BY <2>1, <2>2, <1>2, RejectFacts
  <2> QED
    BY <2>2, <2>3
<1>4. ConfirmedSet' = ConfirmedSet
  BY <1>2, <1>3, ConfirmedSetKept
<1>5. HeldIsConfirmed'
  BY <1>2 DEF HeldIsConfirmed, Applying
<1>6. JobFollowsSets' /\ AppliedSoFar'
  BY <1>2 DEF JobFollowsSets, AppliedSoFar, Staging, Trying
<1>7. AnnouncedIsHeld'
  BY <1>1, <1>2 DEF SetInv, AnnouncedIsHeld, Applying
<1> QED
  BY <1>1, <1>2, <1>3, <1>4, <1>5, <1>6, <1>7, UpSaysNothingOfBoots, RestKept DEF SetInv

\* SYNC reads what is held; the rest of the invariant does not see it.
LEMMA SyncSets ==
  ASSUME SetInv, Connected \/ SyncTask \/ UNCHANGED vars
  PROVE  SetInv'
<1>1. UNCHANGED <<configState, slots, phase, boot, held, live, pc, job>>
  BY DEF Connected, SyncTask, TakeSyncTrigger, PublishSync, vars, nvs
<1>2. /\ ConfirmedSet' = ConfirmedSet /\ Used' = Used
      /\ (Applying' <=> Applying)
  BY <1>1 DEF ConfirmedSet, Used, Applying
<1>3. BootRunsSlot' /\ HeldIsConfirmed' /\ AppliedSoFar'
  BY <1>1, <1>2 DEF SetInv, BootRunsSlot, HeldIsConfirmed, AppliedSoFar, RunsSet,
     RunsFunctionsOf, HeldOf
<1>4. JobFollowsSets'
  BY <1>1, <1>2 DEF SetInv, JobFollowsSets, Staging, Trying, Written, Staged, MergedOf,
     ChangesOf, NeedsReboot
<1>5. AnnouncedIsHeld'
  <2>1. CASE Connected
    BY <2>1, <1>1, <1>2 DEF Connected, SetInv, AnnouncedIsHeld
  <2>2. CASE TakeSyncTrigger
    BY <2>2, <1>1, <1>2 DEF TakeSyncTrigger, SetInv, AnnouncedIsHeld
  <2>3. CASE PublishSync
    BY <2>3, <1>1, <1>2 DEF PublishSync, SetInv, AnnouncedIsHeld
  <2>4. CASE UNCHANGED vars
    BY <2>4, <1>1, <1>2 DEF vars, sync, SetInv, AnnouncedIsHeld
  <2> QED
    BY <2>1, <2>2, <2>3, <2>4 DEF SyncTask
<1> QED
  BY <1>1, <1>2, <1>3, <1>4, <1>5, RestKept DEF SetInv

-----------------------------------------------------------------------------
(* What follows for whole sets *)

\* No step of the device takes it out of the invariant.
LEMMA FullStep ==
  ASSUME FullInv, UpdatesTakeTurns, UpdatesTakeTurns', [Next]_vars
  PROVE  FullInv'
<1>1. TypeOK /\ RecordInv /\ SetInv
  BY DEF FullInv, RecordInv, RevertInv
<1>2. RecordInv'
  BY <1>1, RecordStep
<1>3. ASSUME MainTask PROVE SetInv'
  BY <1>1, <1>3, LoadSets, PowerCycleSets, InitRuntimeSets, RecordOutcomeSets, FinishSets
     DEF MainTask, AbortBoot
<1>4. ASSUME NEW h \in Handlers, ReceiveUpdate(h) \/ HandlerTask(h)
      PROVE  SetInv'
  BY <1>1, <1>4, ReceiveSets, StageSets, WriteSets, SavePendingSets, SaveAttemptedSets,
     ApplySets, CommitSets, RejectSets DEF HandlerTask
<1>5. ASSUME Restart \/ Crash PROVE SetInv'
  BY <1>1, <1>5, PowerCycleSets DEF Restart, Crash
<1>6. ASSUME Connected \/ SyncTask \/ UNCHANGED vars PROVE SetInv'
  BY <1>1, <1>6, SyncSets
<1>7. SetInv'
  BY <1>3, <1>4, <1>5, <1>6 DEF Next
<1> QED
  BY <1>2, <1>7 DEF FullInv

\* A device that is first powered confirms at most a network configuration, and
\* that one parses.
LEMMA FullInit ==
  ASSUME NetworkProvisioned, Init
  PROVE  FullInv
<1>1. RecordInv
  BY RecordInit
<1>2. ConfirmedSet = FactorySet
  BY DEF Init, ConfirmedSet, ConfirmedSlot, VirginState, Slots
<1>3. ConfirmedSound
  <2>1. DEVICE \in RebootNames /\ DEVICE # NETWORK /\ DEVICE \in Names
    BY RebootNamesAssumption DEF DEVICE, NETWORK, Names
  <2>2. FactorySet[DEVICE] = NoFingerprint /\ FunctionList(FactorySet) = {}
    BY <2>1, FactorySetAssumption DEF FunctionList
  <2>3. ~ FaultyEntry(DEVICE, FactorySet)
    BY <2>2, FaultyAssumption, FingerprintsAssumption DEF FaultyEntry
  <2>4. \A n \in RebootNames : ~ FaultyEntry(n, FactorySet)
    BY <2>3, RebootNamesAssumption DEF NetworkProvisioned
  <2> QED
    BY <1>2, <2>2, <2>4 DEF ConfirmedSound, Sound
<1>4. NetworkKept
  <2>1. ~ HasRequest(configState)
    BY VirginStateType DEF Init
  <2> QED
    BY <1>2, <2>1 DEF NetworkKept, NetworkProvisioned
<1>5. /\ phase = "off" /\ announced = NoManifest /\ ~ syncing
      /\ \A h \in Handlers : pc[h] = "idle"
  BY DEF Init, RamCleared
<1>6. BootRunsSlot /\ HeldIsConfirmed /\ AnnouncedIsHeld
  BY <1>5 DEF BootRunsSlot, HeldIsConfirmed, AnnouncedIsHeld
<1>7. JobFollowsSets /\ AppliedSoFar
  BY <1>5 DEF JobFollowsSets, AppliedSoFar, Staging, Trying
<1> QED
  BY <1>1, <1>3, <1>4, <1>6, <1>7 DEF FullInv, SetInv

\* On a device that was given its network, and while UPDATEs take turns, only sets
\* that came through their trial are confirmed, and what SYNC told is what a power
\* loss would bring back: also where the hardware of a function fails to start.
THEOREM SetsAreSound ==
  ASSUME NetworkProvisioned
  PROVE  Spec /\ []UpdatesTakeTurns => []SetsSound
<1>1. FullInv => SetsSound
  <2> SUFFICES ASSUME FullInv PROVE ConfirmedSound /\ AnnouncedIsDurable
    BY DEF SetsSound
  <2>1. ConfirmedSound
    BY DEF FullInv, SetInv
  <2>2. ASSUME phase = "ready", Quiet, ~ syncTrigger, ~ syncing, announced # NoManifest,
               NEW n \in RebootNames \cup (FunctionList(ConfirmedSet) \ (Fragile \ live))
        PROVE  announced[n] = ConfirmedSet[n]
    <3>1. ~ Applying
      BY <2>2 DEF Quiet, Applying
    <3>2. announced = HeldOf(ConfirmedSet) /\ RunsFunctionsOf(ConfirmedSet)
      BY <2>2, <3>1 DEF FullInv, SetInv, AnnouncedIsHeld, HeldIsConfirmed, RunsSet
    <3>3. n \in Used
      BY <2>2, <3>2 DEF Used, RunsFunctionsOf
    <3>4. n \in Names
      BY <3>3, UsedNames DEF FullInv, RecordInv, RevertInv
    <3> QED
      BY <3>2, <3>3, <3>4 DEF HeldOf
  <2> QED
    BY <2>1, <2>2 DEF AnnouncedIsDurable
<1>2. Init => FullInv
  BY FullInit
<1> QED
  BY <1>1, <1>2, FullStep, PTL DEF Spec

-----------------------------------------------------------------------------
(* The slots and the record implement AtomicConfig *)

\* A set is never mistaken for "nothing is on trial".
LEMMA SetsAreSets ==
  ASSUME NEW set \in Contents
  PROVE  set # NoManifest
<1>1. DEVICE \in Names
  BY RebootNamesAssumption DEF Names
<1> QED
  BY <1>1 DEF Contents, NoManifest

\* What is on trial, in terms of the record.
LEMMA TrialFacts ==
  ASSUME TypeOK
  PROVE  /\ HasRequest(configState) <=> OnTrial # NoManifest
         /\ HasRequest(configState) => OnTrial = slots[configState.requested.slot]
<1>1. slots[configState.requested.slot] \in Contents
  BY RequestedSlotIsSlot DEF TypeOK
<1> QED
  BY <1>1, SetsAreSets DEF OnTrial

\* A step that changes neither the record nor what is confirmed or on trial.
LEMMA SameRecordStutters ==
  ASSUME UNCHANGED <<configState, slots>>
  PROVE  UNCHANGED Atomic!vars
  BY DEF Atomic!vars, ConfirmedSet, OnTrial

\* A boot that finds nothing on trial, or finds it staged, changes nothing; one
\* that finds a trial that did not end reverts it.
LEMMA LoadRefines ==
  ASSUME FullInv, LoadDeviceBootConfig
  PROVE  [Atomic!Next]_(Atomic!vars)
<1> DEFINE found == [configState EXCEPT !.confirmed = ConfirmedSlot(configState)]
           plan == decideBootPlan(found)
<1>1. TypeOK /\ TypeOK'
  BY TypeStep DEF FullInv, RecordInv, RevertInv, Next, MainTask
<1>2. /\ found \in ConfigStates
      /\ ConfirmedSlot(found) = ConfirmedSlot(configState)
      /\ found.requested = configState.requested
      /\ found.rejection = configState.rejection
  BY <1>1, InitialisedState DEF TypeOK
<1>3. configState' = plan.checkpoint /\ UNCHANGED slots
  BY DEF LoadDeviceBootConfig
<1>4. plan.checkpoint.confirmed = found.confirmed
  BY <1>2, BootPlanFacts
<1>5. ConfirmedSet' = ConfirmedSet
  BY <1>2, <1>3, <1>4 DEF ConfirmedSet, ConfirmedSlot
<1>6. CASE configState.requested.status = "pending"
  <2>1. plan.checkpoint = markAttempted(found)
    BY <1>2, <1>6 DEF decideBootPlan
  <2>2. /\ plan.checkpoint.requested.slot = configState.requested.slot
        /\ plan.checkpoint.rejection = configState.rejection
        /\ HasRequest(plan.checkpoint)
    BY <2>1, <1>2, AttemptFacts
  <2>3. HasRequest(configState)
    BY <1>6 DEF HasRequest
  <2>4. OnTrial' = OnTrial
    BY <1>3, <2>2, <2>3 DEF OnTrial
  <2> QED
    BY <1>3, <1>5, <2>2, <2>4 DEF Atomic!vars
<1>7. CASE HasRequest(configState) /\ configState.requested.status # "pending"
  <2>1. HasRequest(found) /\ ~ HasRequest(plan.checkpoint)
    <3>1. found.requested.status # "pending"
      BY <1>2, <1>7
    <3>2. plan.strict = FALSE
      BY <3>1 DEF decideBootPlan
    <3> QED
      BY <1>2, <1>7, <3>2, BootPlanFacts DEF HasRequest
  <2>2. configState'.rejection # NoRejection
    BY <1>2, <1>3, <2>1, RevertedWithRejection
  <2>3. OnTrial # NoManifest /\ OnTrial' = NoManifest
    BY <1>1, <1>3, <1>7, <2>1, TrialFacts DEF OnTrial
  <2> QED
    BY <1>5, <2>2, <2>3 DEF Atomic!Next, Atomic!Revert
<1>8. CASE ~ HasRequest(configState)
  <2>1. plan.checkpoint = found
    <3>1. ~ HasRequest(found)
      BY <1>2, <1>8 DEF HasRequest
    <3> QED
      BY <3>1 DEF decideBootPlan, HasRequest
  <2>2. OnTrial' = OnTrial /\ configState'.rejection = configState.rejection
    BY <1>2, <1>3, <1>8, <2>1 DEF OnTrial, HasRequest
  <2> QED
    BY <1>5, <2>2 DEF Atomic!vars
<1> QED
  BY <1>6, <1>7, <1>8

\* A strict boot ends its trial with a commit or a failure; any other boot
\* leaves the record as it is.
LEMMA RecordOutcomeRefines ==
  ASSUME FullInv, UpdatesTakeTurns, RecordBootOutcome
  PROVE  [Atomic!Next]_(Atomic!vars)
<1>1. /\ TypeOK /\ TypeOK' /\ RecordInv /\ SetInv
      /\ phase = "running" /\ configState = boot.state
      /\ boot.state \in ConfigStates /\ boot.slot \in Slots /\ boot.applied \in BOOLEAN
      /\ "Internal" \in RejectionCodes
      /\ UNCHANGED slots
  <2>1. TypeOK'
    BY TypeStep DEF FullInv, RecordInv, RevertInv, Next, MainTask
  <2> QED
    BY <2>1 DEF FullInv, RecordInv, RevertInv, RecordBootOutcome, BootFollowsRecord,
       TypeOK, Boots, RejectionCodes
<1>2. ASSUME boot.strict
      PROVE  HasRequest(configState) /\ OnTrial = slots[boot.slot]
  <2>1. configState.requested = [slot |-> boot.slot, status |-> "attempted"]
    BY <1>1, <1>2 DEF RecordInv, BootFollowsRecord
  <2> QED
    BY <2>1 DEF HasRequest, OnTrial
<1>3. CASE boot.strict /\ boot.applied
  <2> DEFINE outcome == recordStrictBootOutcome(boot.state, boot.slot, TRUE, "Internal")
  <2>1. /\ ConfirmedSlot(outcome) = boot.slot /\ ~ HasRequest(outcome)
        /\ outcome.rejection = boot.state.rejection
    <3>1. boot.state \in ConfigStates /\ boot.slot \in Slots
      BY <1>1
    <3>2. outcome.rejection = boot.state.rejection
      BY <3>1 DEF recordStrictBootOutcome, ConfigStates
    <3>3. ConfirmedSlot(outcome) = boot.slot /\ ~ HasRequest(outcome)
      BY <3>1, CommitFacts, Zenon
    <3> QED
      BY <3>2, <3>3
  <2>2. configState' = outcome
    <3>1. boot.applied = TRUE
      BY <1>1, <1>3
    <3> QED
      BY <3>1, <1>3 DEF RecordBootOutcome
  <2> HIDE DEF outcome
  <2>3. slots[boot.slot] \in {contents \in Contents : Sound(contents)}
    BY <1>1, <1>3 DEF SetInv, BootRunsSlot, TypeOK
  <2>4. /\ OnTrial \in {contents \in Contents : Sound(contents)}
        /\ ConfirmedSet' = OnTrial /\ OnTrial' = NoManifest
        /\ configState'.rejection = configState.rejection
    BY <1>1, <1>2, <1>3, <2>1, <2>2, <2>3 DEF ConfirmedSet, OnTrial
  <2> QED
    BY <2>4 DEF Atomic!Next, Atomic!Commit
<1>4. CASE boot.strict /\ ~ boot.applied
  <2> DEFINE outcome == recordStrictBootOutcome(boot.state, boot.slot, FALSE, "Internal")
  <2>1. /\ outcome.confirmed = boot.state.confirmed
        /\ outcome.requested = [slot |-> boot.slot, status |-> "rejected"]
        /\ outcome.rejection = "Internal"
    BY <1>1, RejectFacts
  <2>2. configState' = outcome
    <3>1. boot.applied = FALSE
      BY <1>1, <1>4
    <3> QED
      BY <3>1, <1>4 DEF RecordBootOutcome
  <2> HIDE DEF outcome
  <2>3. ConfirmedSet' = ConfirmedSet
    BY <1>1, <2>1, <2>2, ConfirmedSetKept
  <2>4. OnTrial' = slots[boot.slot]
    BY <1>1, <2>1, <2>2 DEF OnTrial, HasRequest
  <2>5. OnTrial # NoManifest /\ OnTrial' = OnTrial
    BY <1>1, <1>2, <1>4, <2>4, TrialFacts
  <2>6. configState'.rejection # NoRejection
    BY <2>1, <2>2 DEF NoRejection
  <2> QED
    BY <2>3, <2>5, <2>6 DEF Atomic!Next, Atomic!Fail
<1>5. CASE ~ boot.strict
  BY <1>1, <1>5, SameRecordStutters DEF RecordBootOutcome
<1> QED
  BY <1>3, <1>4, <1>5

\* The end of a boot takes the rejection off a record that requests nothing.
LEMMA FinishRefines ==
  ASSUME FullInv, FinishBoot
  PROVE  [Atomic!Next]_(Atomic!vars)
<1>1. /\ configState = boot.state /\ configState \in ConfigStates
      /\ ~ HasRequest(configState)
      /\ UNCHANGED slots
  BY DEF FinishBoot, FullInv, RecordInv, RevertInv, BootFollowsRecord, TypeOK
<1>2. CASE configState.rejection # NoRejection
  <2>1. configState' = [configState EXCEPT !.rejection = NoRejection]
    BY <1>1, <1>2 DEF FinishBoot
  <2>2. /\ configState'.confirmed = configState.confirmed
        /\ configState'.requested = configState.requested
        /\ configState'.rejection = NoRejection
    BY <1>1, <2>1, ReportedFacts DEF ConfigStates
  <2>3. ConfirmedSet' = ConfirmedSet
    BY <1>1, <2>2, ConfirmedSetKept
  <2>4. OnTrial = NoManifest /\ OnTrial' = NoManifest
    BY <1>1, <2>2 DEF OnTrial, HasRequest
  <2> QED
    BY <2>2, <2>3, <2>4 DEF Atomic!Next, Atomic!Report
<1>3. CASE configState.rejection = NoRejection
  BY <1>1, <1>3, SameRecordStutters DEF FinishBoot
<1> QED
  BY <1>2, <1>3

\* What staging wrote is the confirmed set with one UPDATE applied to it.
LEMMA StagedIsMerge ==
  ASSUME TypeOK, RunsFunctionsOf(ConfirmedSet), NEW h \in Handlers,
         NEW update \in Updates, ChangesOf(update, job[h].changed, ConfirmedSet),
         Written(h, Staged(h))
  PROVE  MayStage(ConfirmedSet, slots[job[h].slot])
<1> DEFINE changed == job[h].changed
           set == slots[job[h].slot]
<1>1. /\ changed \in Contents /\ set \in Contents
  BY DEF TypeOK, Jobs
<1>2. \A n \in Named(changed) \cup Used : set[n] = MergedOf(changed, ConfirmedSet)[n]
  BY DEF Written, Staged
<1>3. RebootNames \cup (FunctionList(ConfirmedSet) \ Fragile) \subseteq Used
  BY DEF Used, RunsFunctionsOf
<1> HIDE DEF set
<1>4. ASSUME NEW n \in Names
      PROVE  IF update[n] # NoFingerprint
             THEN set[n] = update[n]
             ELSE n \in Used => set[n] = ConfirmedSet[n]
  <2>1. \/ changed[n] = update[n]
        \/ changed[n] = NoFingerprint /\ n \in Used /\ update[n] = ConfirmedSet[n]
    BY DEF ChangesOf
  <2>2. n \in Named(changed) <=> changed[n] # NoFingerprint
    BY DEF Named
  <2>3. MergedOf(changed, ConfirmedSet)[n] =
          IF changed[n] # NoFingerprint THEN changed[n]
          ELSE IF n \in Used THEN ConfirmedSet[n] ELSE NoFingerprint
    BY DEF MergedOf
  <2> QED
    BY <1>2, <2>1, <2>2, <2>3
<1> QED
  BY <1>1, <1>3, <1>4 DEF MayStage, set

\* The save that follows the last write is what puts the set on trial.
LEMMA SavePendingRefines ==
  ASSUME FullInv, UpdatesTakeTurns, NEW h \in Handlers, SavePending(h)
  PROVE  [Atomic!Next]_(Atomic!vars)
<1>1. TypeOK /\ RecordInv /\ SetInv /\ JobTriesFreeSlot
  BY DEF FullInv, RecordInv, RevertInv
<1>2. /\ pc[h] = "write" /\ job[h].todo = {}
      /\ configState' = job[h].state /\ UNCHANGED slots
  BY DEF SavePending
<1>3. /\ job[h].state = stageDeviceUpdate(configState)
      /\ job[h].slot = job[h].state.requested.slot
      /\ Written(h, Staged(h))
      /\ \E update \in Updates : ChangesOf(update, job[h].changed, ConfirmedSet)
  BY <1>1, <1>2 DEF RecordInv, JobFollowsRecord, JobTriesFreeSlot, SetInv,
     JobFollowsSets, Staging
<1>4. OnTrial = NoManifest
  <2>1. phase = "ready" /\ \A i \in Handlers : pc[i] = "idle" \/ Staging(i)
    BY <1>1, <1>2, OthersIdle DEF Staging
  <2> QED
    BY <1>1, <2>1 DEF RecordInv, NothingOnTrial, OnTrial
<1>5. /\ configState'.confirmed = configState.confirmed
      /\ configState'.rejection = configState.rejection
      /\ HasRequest(configState')
      /\ configState'.requested.slot = job[h].slot
  <2>1. configState \in ConfigStates
    BY <1>1 DEF TypeOK
  <2> QED
    BY <2>1, <1>2, <1>3, StageFacts
<1>6. ConfirmedSet' = ConfirmedSet
  BY <1>2, <1>5, ConfirmedSetKept
<1>7. OnTrial' = slots[job[h].slot]
  BY <1>2, <1>5 DEF OnTrial
<1>8. MayStage(ConfirmedSet, OnTrial')
  <2>1. phase = "ready" /\ ~ Applying
    BY <1>2, OthersIdle
  <2>2. RunsFunctionsOf(ConfirmedSet)
    BY <1>1, <2>1 DEF SetInv, HeldIsConfirmed, RunsSet
  <2> QED
    BY <1>1, <1>3, <1>7, <2>2, StagedIsMerge
<1> QED
  BY <1>4, <1>5, <1>6, <1>8 DEF Atomic!Next, Atomic!Stage

\* That the trial begins is no news to what is on trial.
LEMMA SaveAttemptedRefines ==
  ASSUME FullInv, NEW h \in Handlers, SaveAttempted(h)
  PROVE  UNCHANGED Atomic!vars
<1>1. /\ configState = job[h].state
      /\ configState' = markAttempted(configState)
      /\ HasRequest(configState) /\ configState \in ConfigStates
      /\ UNCHANGED slots
  BY DEF SaveAttempted, FullInv, RecordInv, RevertInv, JobFollowsRecord, Trying,
     JobTriesFreeSlot, TypeOK
<1>2. /\ configState'.confirmed = configState.confirmed
      /\ configState'.rejection = configState.rejection
      /\ HasRequest(configState')
      /\ configState'.requested.slot = configState.requested.slot
  BY <1>1, AttemptFacts
<1>3. ConfirmedSet' = ConfirmedSet /\ OnTrial' = OnTrial
  BY <1>1, <1>2, ConfirmedSetKept DEF OnTrial
<1> QED
  BY <1>2, <1>3 DEF Atomic!vars

\* A live apply that went through commits the set on trial.
LEMMA CommitLiveRefines ==
  ASSUME FullInv, UpdatesTakeTurns, NEW h \in Handlers, CommitLive(h)
  PROVE  [Atomic!Next]_(Atomic!vars)
<1>1. TypeOK /\ RecordInv /\ SetInv /\ JobTriesFreeSlot
  BY DEF FullInv, RecordInv, RevertInv
<1>2. /\ job[h].state \in ConfigStates /\ job[h].slot \in Slots
      /\ configState = job[h].state /\ HasRequest(configState)
      /\ job[h].slot = configState.requested.slot
      /\ UNCHANGED slots
  BY <1>1 DEF CommitLive, JobTriesFreeSlot, TypeOK, Jobs, RecordInv, JobFollowsRecord,
     Trying
<1>3. OnTrial = slots[job[h].slot] /\ OnTrial \in {c \in Contents : Sound(c)}
  BY <1>1, <1>2, CommittedSetIsHeld DEF OnTrial, TypeOK
<1>4. /\ ConfirmedSlot(configState') = job[h].slot /\ ~ HasRequest(configState')
      /\ configState'.rejection = configState.rejection
  <2>1. configState' = [job[h].state EXCEPT !.confirmed = job[h].slot, !.requested = NoRequest]
    BY DEF CommitLive, recordStrictBootOutcome
  <2>2. /\ configState'.confirmed = job[h].slot /\ configState'.requested = NoRequest
        /\ configState'.rejection = configState.rejection
    BY <1>2, <2>1 DEF ConfigStates
  <2>3. ConfirmedSlot(configState') = job[h].slot
    BY <1>2, <2>2 DEF ConfirmedSlot, Slots, NoSlot
  <2> QED
    BY <2>2, <2>3 DEF HasRequest, NoRequest
<1>5. ConfirmedSet' = OnTrial /\ OnTrial' = NoManifest
  BY <1>2, <1>3, <1>4 DEF ConfirmedSet, OnTrial
<1> QED
  BY <1>3, <1>4, <1>5 DEF Atomic!Next, Atomic!Commit

\* One that failed leaves its set on trial until the restart reverts it.
LEMMA RejectLiveRefines ==
  ASSUME FullInv, NEW h \in Handlers, RejectLive(h)
  PROVE  [Atomic!Next]_(Atomic!vars)
<1>1. TypeOK /\ RecordInv /\ SetInv /\ JobTriesFreeSlot
  BY DEF FullInv, RecordInv, RevertInv
<1>2. /\ job[h].state \in ConfigStates /\ job[h].slot \in Slots
      /\ "Internal" \in RejectionCodes
      /\ configState = job[h].state /\ HasRequest(configState)
      /\ job[h].slot = configState.requested.slot
      /\ UNCHANGED slots
  BY <1>1 DEF RejectLive, JobTriesFreeSlot, TypeOK, Jobs, RecordInv, JobFollowsRecord,
     Trying, RejectionCodes
<1>3. /\ configState'.confirmed = configState.confirmed
      /\ configState'.requested = [slot |-> job[h].slot, status |-> "rejected"]
      /\ configState'.rejection = "Internal"
  BY <1>2, RejectFacts DEF RejectLive
<1>4. ConfirmedSet' = ConfirmedSet
  BY <1>2, <1>3, ConfirmedSetKept
<1>5. OnTrial = slots[job[h].slot] /\ OnTrial' = OnTrial
  BY <1>2, <1>3 DEF OnTrial, HasRequest
<1>6. OnTrial # NoManifest
  BY <1>1, <1>2, TrialFacts
<1> QED
  BY <1>3, <1>4, <1>5, <1>6 DEF Atomic!Next, Atomic!Fail, NoRejection

\* An entry written to the free slot is no news while nothing is on trial.
LEMMA WriteRefines ==
  ASSUME FullInv, UpdatesTakeTurns, NEW h \in Handlers, WriteEntry(h)
  PROVE  UNCHANGED Atomic!vars
<1>1. TypeOK /\ RecordInv /\ SetInv /\ JobTriesFreeSlot
  BY DEF FullInv, RecordInv, RevertInv
<1>2. UNCHANGED configState /\ pc[h] = "write"
  BY DEF WriteEntry
<1>3. ConfirmedSet' = ConfirmedSet
  BY <1>1, WriteKeepsConfirmedSet
<1>4. ~ HasRequest(configState)
  <2>1. phase = "ready" /\ \A i \in Handlers : pc[i] = "idle" \/ Staging(i)
    BY <1>1, <1>2, OthersIdle DEF Staging
  <2> QED
    BY <1>1, <2>1 DEF RecordInv, NothingOnTrial
<1> QED
  BY <1>2, <1>3, <1>4 DEF Atomic!vars, OnTrial

\* Every step of the device is one of AtomicConfig's, or none.
LEMMA RefinementStep ==
  ASSUME FullInv, UpdatesTakeTurns, [Next]_vars
  PROVE  [Atomic!Next]_(Atomic!vars)
<1>1. ASSUME MainTask PROVE [Atomic!Next]_(Atomic!vars)
  <2>1. CASE AbortBoot \/ InitDeviceRuntime
    BY <2>1, SameRecordStutters DEF AbortBoot, InitDeviceRuntime, PowerCycle, nvs
  <2> QED
    BY <1>1, <2>1, LoadRefines, RecordOutcomeRefines, FinishRefines DEF MainTask
<1>2. ASSUME NEW h \in Handlers, HandlerTask(h) PROVE [Atomic!Next]_(Atomic!vars)
  <2>1. CASE StageUpdate(h) \/ ApplyLive(h)
    BY <2>1, SameRecordStutters DEF StageUpdate, ApplyLive, nvs
  <2> QED
    BY <1>2, <2>1, WriteRefines, SavePendingRefines, SaveAttemptedRefines,
       CommitLiveRefines, RejectLiveRefines DEF HandlerTask
<1>3. ASSUME \/ \E h \in Handlers : ReceiveUpdate(h)
             \/ Connected \/ SyncTask \/ Restart \/ Crash \/ UNCHANGED vars
      PROVE  UNCHANGED Atomic!vars
  BY <1>3, SameRecordStutters DEF ReceiveUpdate, Connected, SyncTask, TakeSyncTrigger,
     PublishSync, Restart, Crash, PowerCycle, vars, nvs
<1> QED
  BY <1>1, <1>2, <1>3 DEF Next

\* A device that is first powered holds the factory's set and tries nothing.
LEMMA RefinementInit ==
  ASSUME Init
  PROVE  Atomic!Init
<1>1. ConfirmedSet = FactorySet
  BY DEF Init, ConfirmedSet, ConfirmedSlot, VirginState, Slots
<1>2. OnTrial = NoManifest
  BY DEF Init, OnTrial, HasRequest, VirginState, NoRequest
<1>3. (configState.rejection # NoRejection) = FALSE
  BY DEF Init, VirginState
<1> QED
  BY <1>1, <1>2, <1>3 DEF Atomic!Init

\* On a device that was given its network, and while UPDATEs take turns, the slots
\* and the record, written entry by entry and interrupted anywhere, implement
\* AtomicConfig: one whole set, at most one more on trial, and no way from one to
\* the other but a trial that went through.
THEOREM ReconciliationIsAtomic ==
  ASSUME NetworkProvisioned
  PROVE  Spec /\ []UpdatesTakeTurns => ImplementsAtomicConfig
<1>1. Init => Atomic!Init
  BY RefinementInit
<1>2. FullInv /\ UpdatesTakeTurns /\ [Next]_vars => [Atomic!Next]_(Atomic!vars)
  BY RefinementStep
<1>3. Init => FullInv
  BY FullInit
<1> QED
  BY <1>1, <1>2, <1>3, FullStep, PTL
     DEF Spec, ImplementsAtomicConfig, Atomic!Spec
=============================================================================
