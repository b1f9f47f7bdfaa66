----------------------------- MODULE ConfigState -----------------------------
(***************************************************************************)
(* The persisted configuration record and the three pure functions that    *)
(* decide on it.                                                           *)
(*                                                                         *)
(* A device keeps two slots of configuration.  The record says which slot  *)
(* is confirmed, which one (if any) is requested and how far its trial     *)
(* got, and the rejection still to be reported.  C++'s absent optionals    *)
(* are the "none" member of each field.                                    *)
(***************************************************************************)

Slots == {"a", "b"}
NoSlot == "none"

otherSlot(slot) == IF slot = "a" THEN "b" ELSE "a"

Statuses == {"pending", "attempted", "rejected"}

NoRequest == [slot |-> "a", status |-> "none"]
Requests == [slot : Slots, status : Statuses]

RejectionCodes ==
  {"InvalidArgument", "ResourceExhausted", "FailedPrecondition",
   "Unimplemented", "Internal"}
NoRejection == "none"

ConfigStates ==
  [confirmed : Slots \cup {NoSlot},
   requested : Requests \cup {NoRequest},
   rejection : RejectionCodes \cup {NoRejection}]

\* The state of a device whose config-state namespace is still empty.
VirginState ==
  [confirmed |-> NoSlot, requested |-> NoRequest, rejection |-> NoRejection]

HasRequest(state) == state.requested.status # "none"

\* state.confirmed.value_or(ConfigSlot::A)
ConfirmedSlot(state) ==
  IF state.confirmed = NoSlot THEN "a" ELSE state.confirmed

\* A request, where there is one, is for the slot that is not confirmed.
TriesFreeSlot(state) ==
  HasRequest(state) => state.requested.slot # ConfirmedSlot(state)

\* A trial starts: a crash from here on counts against the request.
markAttempted(state) == [state EXCEPT !.requested.status = "attempted"]

\* Seeded fault: a crashed trial is reverted without a rejection.
revertSilently(state) ==
  IF state.requested.status = "pending"
  THEN [slotToLoad |-> state.requested.slot,
        strict |-> TRUE,
        checkpoint |-> markAttempted(state)]
  ELSE [slotToLoad |-> ConfirmedSlot(state),
        strict |-> FALSE,
        checkpoint |-> [state EXCEPT !.requested = NoRequest]]

(***************************************************************************)
(* What a boot does with the record it finds: the slot to load, whether an *)
(* apply error counts as a failure, and the record to persist before       *)
(* loading anything (the record itself where the code persists nothing).   *)
(***************************************************************************)
decideBootPlan(state) ==
  IF state.requested.status = "pending"
  THEN [slotToLoad |-> state.requested.slot,
        strict |-> TRUE,
        checkpoint |-> markAttempted(state)]
  ELSE [slotToLoad |-> ConfirmedSlot(state),
        strict |-> FALSE,
        checkpoint |->
          IF HasRequest(state)
          THEN [state EXCEPT
                  !.requested = NoRequest,
                  !.rejection = IF @ = NoRejection THEN "Internal" ELSE @]
          ELSE state]

\* Commit or reject the slot that was tried, by a strict boot or by a live apply.
recordStrictBootOutcome(state, loadedSlot, success, failureCode) ==
  IF success
  THEN [state EXCEPT !.confirmed = loadedSlot, !.requested = NoRequest]
  ELSE [state EXCEPT
          !.requested = [slot |-> loadedSlot, status |-> "rejected"],
          !.rejection = failureCode]

\* Seeded fault: the confirmed slot is the one marked for the trial.
stageConfirmedSlot(state) ==
  [state EXCEPT !.requested = [slot |-> ConfirmedSlot(state), status |-> "pending"]]

\* The record that marks the free slot as staged.
stageDeviceUpdate(state) ==
  [state EXCEPT
     !.requested = [slot |-> otherSlot(ConfirmedSlot(state)),
                    status |-> "pending"]]
=============================================================================
