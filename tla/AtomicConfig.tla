---------------------------- MODULE AtomicConfig ----------------------------
(***************************************************************************)
(* What configuration reconciliation promises, without slots, records,     *)
(* boots or tasks: the device owns one set of configurations, can have one *)
(* more on trial, and changes from one to the other in a single step.  A   *)
(* set that did not come through its trial is dropped whole, and leaves a  *)
(* rejection until that is reported.                                       *)
(***************************************************************************)
CONSTANTS
  NoSet,       \* "nothing is on trial"
  MayStage(_, _), \* the sets that an UPDATE can make of the active one
  SoundSets,   \* the sets whose every body can be applied
  FirstSet     \* what the device starts with

VARIABLES
  active,      \* the set that a restart brings up
  trial,       \* the set being tried, or NoSet
  rejected     \* a rejection waits to be reported

vars == <<active, trial, rejected>>

Init ==
  /\ active = FirstSet
  /\ trial = NoSet
  /\ rejected = FALSE

Stage ==
  /\ trial = NoSet
  /\ MayStage(active, trial')
  /\ UNCHANGED <<active, rejected>>

Commit ==
  /\ trial \in SoundSets
  /\ active' = trial
  /\ trial' = NoSet
  /\ UNCHANGED rejected

Fail ==
  /\ trial # NoSet
  /\ rejected' = TRUE
  /\ UNCHANGED <<active, trial>>

Revert ==
  /\ trial # NoSet
  /\ trial' = NoSet
  /\ rejected' = TRUE
  /\ UNCHANGED active

Report ==
  /\ trial = NoSet
  /\ rejected' = FALSE
  /\ UNCHANGED <<active, trial>>

Next == Stage \/ Commit \/ Fail \/ Revert \/ Report

Spec == Init /\ [][Next]_vars
=============================================================================
