------------------------- MODULE SwitchedRailProofs -------------------------
(***************************************************************************)
(* What holds of SwitchedRail for any number of tasks, devices and         *)
(* clients, as long as no two clients share a handle.                      *)
(***************************************************************************)
EXTENDS SwitchedRail, FiniteSetTheorems, TLAPS

\* Rail tasks that have counted their session and not ended it yet.
InSession ==
  {t \in RailTasks : pc[t] \in {"counted", "counting", "settling"} \cup Powered}

InBatch == {t \in RailTasks : batching[t]}

\* The handles that activeCount counts; NoTask stands for the rail's.
RailCounted ==
  \/ acquired[RailHandle] /\ \A t \in RailTasks : pc[t] # "counting"
  \/ \E t \in RailTasks : pc[t] = "releasing"

CountedClients == {c \in Clients : pc[c] \in {"settling", "using", "releasing"}}

Holders == CountedClients \cup {n \in {NoTask} : RailCounted}

StepsInv ==
  /\ \A t \in RailTasks : pc[t] \in RailSteps
  /\ \A c \in Clients : pc[c] \in ClientSteps

HandlesInv ==
  \A c \in Clients :
    acquired[HandleOf[c]] <=> pc[c] \in {"counting", "settling", "using"}

SessionsInv ==
  /\ sessions = Cardinality(InSession)
  /\ batches = Cardinality(InBatch)

LocksInv ==
  \A t \in RailTasks :
    /\ acquireMutex = t <=> pc[t] \in {"counting", "settling"}
    /\ mutex = t <=> pc[t] = "releasing"

\* The rail's handle is marked from the first session's turn until the last
\* session and batch have ended.
HeldInv ==
  /\ InSession # {} => held
  /\ held => InSession \cup InBatch # {}
  /\ acquired[RailHandle] => held
  /\ \A t \in RailTasks :
       /\ pc[t] \in {"counting", "settling"} \cup Powered => acquired[RailHandle]
       /\ pc[t] = "releasing" => ~ held
       /\ pc[t] = "counting"
            => \A s \in RailTasks : pc[s] \notin {"settling"} \cup Powered

CountInv ==
  /\ activeCount = Cardinality(Holders)
  /\ output = "off" <=> Holders = {}

SetUpInv ==
  \A d \in Devices :
    /\ setUpActivation[d] <= activationCount
    /\ setUpActivation[d] = activationCount /\ output # "off" => settings[d]

StartedInv == \A t \in RailTasks : pc[t] = "setup" => started[device[t]]

IInv ==
  /\ TypeOK
  /\ StepsInv
  /\ HandlesInv
  /\ SessionsInv
  /\ LocksInv
  /\ HeldInv
  /\ CountInv
  /\ SessionPowered
  /\ ClientPowered
  /\ StartedInv
  /\ DeviceSetUp
  /\ SetUpInv

-----------------------------------------------------------------------------
(* Counting *)

\* The sets that are counted are finite.
LEMMA CountedSetsFinite ==
  IsFiniteSet(InSession) /\ IsFiniteSet(InBatch) /\ IsFiniteSet(Holders)
<1>1. IsFiniteSet(InSession) /\ IsFiniteSet(InBatch)
  BY TasksAssumption, FS_Subset DEF InSession, InBatch
<1>2. IsFiniteSet(CountedClients)
  BY TasksAssumption, FS_Subset DEF CountedClients
<1>3. IsFiniteSet({n \in {NoTask} : RailCounted})
  BY FS_Singleton, FS_Subset
<1> QED
  BY <1>1, <1>2, <1>3, FS_Union DEF Holders

\* A handle that starts to count turns the output on only if it is the first.
LEMMA HolderEnters ==
  ASSUME NEW x, x \notin Holders, Holders' = Holders \cup {x},
         CountInv, handleAcquired
  PROVE  /\ CountInv'
         /\ Holders # {} => UNCHANGED <<output, activationCount>>
         /\ Holders = {} => output' = "settling" /\ activationCount' = activationCount + 1
<1>1. Cardinality(Holders') = Cardinality(Holders) + 1
  BY CountedSetsFinite, FS_AddElement
<1>2. Cardinality(Holders) \in Nat /\ (Cardinality(Holders) = 0 <=> Holders = {})
  BY CountedSetsFinite, FS_CardinalityType, FS_EmptySet
<1> QED
  BY <1>1, <1>2 DEF CountInv, handleAcquired

\* A handle that stops counting turns the output off only if it is the last.
LEMMA HolderLeaves ==
  ASSUME NEW x \in Holders, Holders' = Holders \ {x},
         CountInv, handleReleased
  PROVE  /\ CountInv'
         /\ Holders' # {} => UNCHANGED hardware
<1>1. Cardinality(Holders') = Cardinality(Holders) - 1
  BY CountedSetsFinite, FS_RemoveElement
<1>2. IsFiniteSet(Holders')
  BY CountedSetsFinite, FS_Subset
<1>3. Cardinality(Holders') \in Nat /\ (Cardinality(Holders') = 0 <=> Holders' = {})
  BY <1>2, FS_CardinalityType, FS_EmptySet
<1>4. Cardinality(Holders) \in Nat
  BY CountedSetsFinite, FS_CardinalityType
<1> QED
  BY <1>1, <1>3, <1>4 DEF CountInv, handleReleased, hardware

\* What the last handle leaves behind is still of its type.
LEMMA ReleasedTypes ==
  ASSUME TypeOK, handleReleased
  PROVE  /\ activeCount' \in Int
         /\ output' \in Outputs
         /\ started' \in [Devices -> BOOLEAN]
         /\ settings' \in [Devices -> BOOLEAN]
<1>1. CASE activeCount' = 0
  <2>1. activeCount' \in Int
    BY DEF TypeOK, handleReleased
  <2>2. /\ output' = "off"
        /\ started' = [d \in Devices |-> FALSE]
        /\ settings' = [d \in Devices |-> FALSE]
    BY <1>1 DEF handleReleased
  <2> QED
    BY <2>1, <2>2 DEF Outputs
<1>2. CASE activeCount' # 0
  BY <1>2 DEF TypeOK, handleReleased, hardware
<1> QED
  BY <1>1, <1>2

\* While a session is past its turn, the rail's handle counts.
LEMMA PoweredCounts ==
  ASSUME IInv, NEW t \in RailTasks, pc[t] \in {"settling"} \cup Powered
  PROVE  NoTask \in Holders /\ ~ \E s \in RailTasks : pc[s] \in {"counting", "releasing"}
  BY DEF IInv, HeldInv, InSession, Holders, RailCounted, Powered

-----------------------------------------------------------------------------
(* The steps of a client *)

\* What a client leaves alone.
LEMMA ClientFrame ==
  ASSUME IInv, NEW c \in Clients, NEW step \in ClientSteps,
         pc' = [pc EXCEPT ![c] = step],
         acquired'[RailHandle] = acquired[RailHandle],
         UNCHANGED <<rail, locals>>
  PROVE  /\ \A t \in RailTasks : pc'[t] = pc[t]
         /\ \A d \in Clients : pc'[d] = IF d = c THEN step ELSE pc[d]
         /\ StepsInv' /\ SessionsInv' /\ LocksInv' /\ HeldInv'
         /\ RailCounted' <=> RailCounted
<1>1. \A t \in RailTasks : pc'[t] = pc[t]
  BY TasksAssumption DEF IInv, TypeOK, Tasks
<1>2. \A d \in Clients : pc'[d] = IF d = c THEN step ELSE pc[d]
  BY DEF IInv, TypeOK, Tasks
<1>3. InSession' = InSession /\ InBatch' = InBatch
  BY <1>1 DEF InSession, InBatch, locals
<1>4. StepsInv'
  BY <1>1, <1>2 DEF IInv, StepsInv
<1>5. SessionsInv' /\ LocksInv'
  BY <1>1, <1>3 DEF IInv, SessionsInv, LocksInv, rail
<1>6. HeldInv'
  BY <1>1, <1>3 DEF IInv, HeldInv, rail
<1>7. RailCounted' <=> RailCounted
  BY <1>1 DEF RailCounted
<1> QED
  BY <1>1, <1>2, <1>4, <1>5, <1>6, <1>7

\* A client's step that leaves the output alone.
LEMMA QuietFrame ==
  ASSUME IInv, \A t \in RailTasks : pc'[t] = pc[t],
         UNCHANGED <<activeCount, activationCount, hardware, setup, locals>>,
         Holders' = Holders
  PROVE  CountInv' /\ SessionPowered' /\ StartedInv' /\ DeviceSetUp' /\ SetUpInv'
<1>1. CountInv'
  BY DEF IInv, CountInv, hardware
<1>2. SessionPowered'
  BY DEF IInv, SessionPowered, hardware, locals
<1>3. StartedInv' /\ DeviceSetUp' /\ SetUpInv'
  BY DEF IInv, StartedInv, DeviceSetUp, SetUpInv, hardware, setup, locals
<1> QED
  BY <1>1, <1>2, <1>3

\* With a handle of its own, a client that is idle finds it free.
LEMMA ClientAcquireInv ==
  ASSUME OneTaskPerHandle, IInv, NEW c \in Clients, ClientAcquire(c)
  PROVE  IInv'
<1>1. ~ acquired[HandleOf[c]]
  BY DEF ClientAcquire, IInv, HandlesInv
<1>2. /\ acquired' = [acquired EXCEPT ![HandleOf[c]] = TRUE]
      /\ pc' = [pc EXCEPT ![c] = "counting"]
  BY <1>1 DEF ClientAcquire
<1>3. acquired'[RailHandle] = acquired[RailHandle]
  <2>1. RailHandle \in AllHandles /\ HandleOf[c] # RailHandle
    BY HandlesAssumption DEF AllHandles
  <2> QED
    BY <1>2, <2>1 DEF IInv, TypeOK
<1>4. UNCHANGED <<activeCount, activationCount, hardware, rail, setup, locals>>
  BY DEF ClientAcquire
<1>5. /\ \A t \in RailTasks : pc'[t] = pc[t]
      /\ \A d \in Clients : pc'[d] = IF d = c THEN "counting" ELSE pc[d]
      /\ StepsInv' /\ SessionsInv' /\ LocksInv' /\ HeldInv'
      /\ RailCounted' <=> RailCounted
  BY <1>2, <1>3, <1>4, ClientFrame DEF ClientSteps
<1>6. TypeOK'
  <2>1. uses' \in 0 .. MaxUses
    BY MaxUsesAssumption DEF ClientAcquire, IInv, TypeOK
  <2>2. acquired' \in [AllHandles -> BOOLEAN]
    BY <1>2 DEF IInv, TypeOK
  <2> QED
    BY <1>2, <1>4, <2>1, <2>2 DEF IInv, TypeOK, Tasks, ClientSteps, hardware, rail,
       setup, locals
<1>7. HandlesInv'
  BY <1>2, <1>5, HandlesAssumption
     DEF ClientAcquire, IInv, HandlesInv, TypeOK, AllHandles, OneTaskPerHandle
<1>8. Holders' = Holders
  BY <1>5 DEF ClientAcquire, Holders, CountedClients
<1>9. CountInv' /\ SessionPowered' /\ StartedInv' /\ DeviceSetUp' /\ SetUpInv'
  BY <1>4, <1>5, <1>8, QuietFrame
<1>10. ClientPowered'
  BY <1>4, <1>5 DEF IInv, ClientPowered, hardware
<1> QED
  BY <1>5, <1>6, <1>7, <1>9, <1>10 DEF IInv

\* acquire() returns on an output that has settled, since the client counts.
LEMMA ClientReadyInv ==
  ASSUME IInv, NEW c \in Clients, ClientReady(c)
  PROVE  IInv'
<1> USE DEF ClientReady, enable
<1>1. /\ \A t \in RailTasks : pc'[t] = pc[t]
      /\ \A d \in Clients : pc'[d] = IF d = c THEN "using" ELSE pc[d]
      /\ StepsInv' /\ SessionsInv' /\ LocksInv' /\ HeldInv'
      /\ RailCounted' <=> RailCounted
  BY ClientFrame DEF ClientSteps
<1>2. TypeOK'
  BY DEF IInv, TypeOK, Tasks, ClientSteps, hardware, rail, setup, locals
<1>3. HandlesInv'
  BY <1>1 DEF IInv, HandlesInv
<1>4. Holders' = Holders
  BY <1>1 DEF Holders, CountedClients
<1>5. CountInv' /\ SessionPowered' /\ StartedInv' /\ DeviceSetUp' /\ SetUpInv'
  BY <1>1, <1>4, QuietFrame
<1>6. output # "off"
  BY DEF IInv, CountInv, Holders, CountedClients
<1>7. ClientPowered'
  BY <1>1, <1>6 DEF IInv, TypeOK, Outputs, ClientPowered, hardware, waitUntilSettled
<1> QED
  BY <1>1, <1>2, <1>3, <1>5, <1>7 DEF IInv

\* A handle that is released counts until handleReleased().
LEMMA ClientReleaseInv ==
  ASSUME OneTaskPerHandle, IInv, NEW c \in Clients, ClientRelease(c)
  PROVE  IInv'
<1> USE DEF ClientRelease
<1>1. acquired[HandleOf[c]]
  BY DEF IInv, HandlesInv
<1>2. /\ acquired' = [acquired EXCEPT ![HandleOf[c]] = FALSE]
      /\ pc' = [pc EXCEPT ![c] = "releasing"]
  BY <1>1
<1>3. acquired'[RailHandle] = acquired[RailHandle]
  BY <1>2, HandlesAssumption DEF IInv, TypeOK, AllHandles
<1>4. /\ \A t \in RailTasks : pc'[t] = pc[t]
      /\ \A d \in Clients : pc'[d] = IF d = c THEN "releasing" ELSE pc[d]
      /\ StepsInv' /\ SessionsInv' /\ LocksInv' /\ HeldInv'
      /\ RailCounted' <=> RailCounted
  BY <1>2, <1>3, ClientFrame DEF ClientSteps
<1>5. TypeOK'
  BY <1>2, HandlesAssumption DEF IInv, TypeOK, Tasks, AllHandles, ClientSteps,
     hardware, rail, setup, locals
<1>6. HandlesInv'
  BY <1>2, <1>4, HandlesAssumption
     DEF IInv, HandlesInv, TypeOK, AllHandles, OneTaskPerHandle
<1>7. Holders' = Holders
  BY <1>4 DEF Holders, CountedClients
<1>8. CountInv' /\ SessionPowered' /\ StartedInv' /\ DeviceSetUp' /\ SetUpInv'
  BY <1>4, <1>7, QuietFrame
<1>9. ClientPowered'
  BY <1>4 DEF IInv, ClientPowered, hardware
<1> QED
  BY <1>4, <1>5, <1>6, <1>8, <1>9 DEF IInv

\* The steps that count, whoever's they are: the output stays as it is while
\* somebody else's handle counts, so nobody who uses it notices.
LEMMA CountedFrame ==
  ASSUME IInv, CountInv',
         \A t \in RailTasks :
           pc'[t] \in {"session", "setup", "powered", "ending"} => pc'[t] = pc[t],
         \A c \in Clients : pc'[c] = "using" => pc[c] = "using",
         UNCHANGED <<setup, locals>>,
         \/ handleAcquired /\ UNCHANGED <<started, settings>>
         \/ handleReleased /\ UNCHANGED activationCount,
         Holders # {} /\ Holders' # {} => UNCHANGED <<hardware, activationCount>>,
         \A c \in Clients : pc[c] = "using" => c \in Holders',
         (\E t \in RailTasks : pc[t] \in {"settling"} \cup Powered) => NoTask \in Holders'
  PROVE  SessionPowered' /\ ClientPowered' /\ StartedInv' /\ DeviceSetUp' /\ SetUpInv'
<1>1. ASSUME NEW t \in RailTasks, pc'[t] \in Powered
      PROVE  pc'[t] = pc[t] /\ UNCHANGED <<hardware, activationCount>>
  <2>1. pc'[t] = pc[t] /\ Holders' # {}
    BY <1>1 DEF Powered
  <2>2. Holders # {}
    BY <1>1, <2>1, PoweredCounts
  <2> QED
    BY <2>1, <2>2
<1>2. SessionPowered'
  BY <1>1 DEF IInv, SessionPowered, hardware, locals
<1>3. StartedInv' /\ DeviceSetUp'
  BY <1>1 DEF IInv, StartedInv, DeviceSetUp, Powered, hardware, locals
<1>4. ClientPowered'
  BY DEF IInv, ClientPowered, hardware, Holders, CountedClients
<1>5. SetUpInv'
  <2>1. CASE UNCHANGED <<hardware, activationCount>>
    BY <2>1 DEF IInv, SetUpInv, hardware, setup
  <2>2. CASE handleAcquired /\ activationCount' = activationCount + 1
    BY <2>2 DEF IInv, TypeOK, SetUpInv, setup
  <2>3. CASE output' = "off" /\ UNCHANGED activationCount
    BY <2>3 DEF IInv, SetUpInv, setup
  <2> QED
    BY <2>1, <2>2, <2>3 DEF handleAcquired, handleReleased, hardware
<1> QED
  BY <1>2, <1>3, <1>4, <1>5

\* The load that starts to count turns the output on if it is alone.
LEMMA ClientCountsInv ==
  ASSUME IInv, NEW c \in Clients, ClientCounts(c)
  PROVE  IInv'
<1> USE DEF ClientCounts
<1>1. /\ \A t \in RailTasks : pc'[t] = pc[t]
      /\ \A d \in Clients : pc'[d] = IF d = c THEN "settling" ELSE pc[d]
      /\ StepsInv' /\ SessionsInv' /\ LocksInv' /\ HeldInv'
      /\ RailCounted' <=> RailCounted
  BY ClientFrame DEF ClientSteps
<1>2. TypeOK'
  BY DEF IInv, TypeOK, Tasks, ClientSteps, Outputs, handleAcquired, rail, setup, locals
<1>3. HandlesInv'
  BY <1>1 DEF IInv, HandlesInv
<1>4. c \notin Holders /\ Holders' = Holders \cup {c}
  BY <1>1, TasksAssumption DEF Holders, CountedClients, Tasks
<1>5. /\ CountInv'
      /\ Holders # {} => UNCHANGED <<output, activationCount>>
  BY <1>4, HolderEnters DEF IInv
<1>6. SessionPowered' /\ ClientPowered' /\ StartedInv' /\ DeviceSetUp' /\ SetUpInv'
  <2>1. \A d \in Clients : pc[d] = "using" => d \in Holders'
    BY <1>1 DEF Holders, CountedClients
  <2>2. (\E t \in RailTasks : pc[t] \in {"settling"} \cup Powered) => NoTask \in Holders'
    BY <1>4, PoweredCounts
  <2>3. \A d \in Clients : pc'[d] = "using" => pc[d] = "using"
    BY <1>1
  <2>4. Holders # {} /\ Holders' # {} => UNCHANGED <<hardware, activationCount>>
    BY <1>5 DEF hardware
  <2>5. /\ CountInv'
        /\ UNCHANGED <<setup, locals>>
        /\ \/ handleAcquired /\ UNCHANGED <<started, settings>>
           \/ handleReleased /\ UNCHANGED activationCount
    BY <1>5
  <2>6. \A t \in RailTasks :
          pc'[t] \in {"session", "setup", "powered", "ending"} => pc'[t] = pc[t]
    BY <1>1
  <2> HIDE DEF ClientCounts
  <2> QED
    BY <2>1, <2>2, <2>3, <2>4, <2>5, <2>6, CountedFrame
<1> QED
  BY <1>1, <1>2, <1>3, <1>5, <1>6 DEF IInv

\* The load that stops counting turns it off if it was.
LEMMA ClientUncountsInv ==
  ASSUME IInv, NEW c \in Clients, ClientUncounts(c)
  PROVE  IInv'
<1> USE DEF ClientUncounts
<1>1. /\ \A t \in RailTasks : pc'[t] = pc[t]
      /\ \A d \in Clients : pc'[d] = IF d = c THEN "idle" ELSE pc[d]
      /\ StepsInv' /\ SessionsInv' /\ LocksInv' /\ HeldInv'
      /\ RailCounted' <=> RailCounted
  BY ClientFrame DEF ClientSteps
<1>2. TypeOK'
  <2>1. /\ activeCount' \in Int
        /\ output' \in Outputs
        /\ started' \in [Devices -> BOOLEAN]
        /\ settings' \in [Devices -> BOOLEAN]
    BY ReleasedTypes DEF IInv
  <2> QED
    BY <2>1 DEF IInv, TypeOK, Tasks, ClientSteps, rail, setup, locals
<1>3. HandlesInv'
  BY <1>1 DEF IInv, HandlesInv
<1>4. c \in Holders /\ Holders' = Holders \ {c}
  BY <1>1, TasksAssumption DEF Holders, CountedClients, Tasks
<1>5. CountInv' /\ (Holders' # {} => UNCHANGED hardware)
  BY <1>4, HolderLeaves DEF IInv
<1>6. SessionPowered' /\ ClientPowered' /\ StartedInv' /\ DeviceSetUp' /\ SetUpInv'
  <2>1. \A d \in Clients : pc[d] = "using" => d \in Holders'
    BY <1>4 DEF Holders, CountedClients
  <2>2. (\E t \in RailTasks : pc[t] \in {"settling"} \cup Powered) => NoTask \in Holders'
    BY <1>4, PoweredCounts, TasksAssumption DEF Tasks
  <2>3. \A d \in Clients : pc'[d] = "using" => pc[d] = "using"
    BY <1>1
  <2> QED
    BY <1>1, <1>5, <2>1, <2>2, <2>3, CountedFrame
<1> QED
  BY <1>1, <1>2, <1>3, <1>5, <1>6 DEF IInv

-----------------------------------------------------------------------------
(* The steps of a rail task *)

\* What a rail task's step leaves alone: the clients, and every other rail task.
LEMMA RailFrame ==
  ASSUME IInv, NEW t \in RailTasks, NEW step \in RailSteps,
         pc' = [pc EXCEPT ![t] = step],
         \A h \in Handles : acquired'[h] = acquired[h]
  PROVE  /\ \A c \in Clients : pc'[c] = pc[c]
         /\ \A s \in RailTasks : pc'[s] = IF s = t THEN step ELSE pc[s]
         /\ pc' \in [Tasks -> RailSteps \cup ClientSteps]
         /\ StepsInv' /\ HandlesInv'
         /\ CountedClients' = CountedClients
<1>1. \A c \in Clients : pc'[c] = pc[c]
  BY TasksAssumption DEF IInv, TypeOK, Tasks
<1>2. \A s \in RailTasks : pc'[s] = IF s = t THEN step ELSE pc[s]
  BY DEF IInv, TypeOK, Tasks
<1>3. pc' \in [Tasks -> RailSteps \cup ClientSteps]
  BY DEF IInv, TypeOK, Tasks
<1>4. StepsInv'
  BY <1>1, <1>2 DEF IInv, StepsInv
<1>5. HandlesInv'
  BY <1>1, HandlesAssumption DEF IInv, HandlesInv
<1>6. CountedClients' = CountedClients
  BY <1>1 DEF CountedClients
<1> QED
  BY <1>1, <1>2, <1>3, <1>4, <1>5, <1>6

\* A step that changes neither who counts nor the output.
LEMMA UncountedFrame ==
  ASSUME IInv, NEW t \in RailTasks, NEW step \in RailSteps,
         \A s \in RailTasks : pc'[s] = IF s = t THEN step ELSE pc[s],
         \A c \in Clients : pc'[c] = pc[c],
         Holders' = Holders,
         UNCHANGED <<activeCount, activationCount, hardware, setUpActivation>>,
         \A s \in RailTasks \ {t} : device'[s] = device[s] /\ activation'[s] = activation[s],
         step \in Powered => output = "on" /\ activation'[t] = activationCount,
         step \in {"setup", "powered"} => started[device'[t]],
         step = "powered" => settings[device'[t]]
  PROVE  /\ CountInv' /\ SetUpInv'
         /\ SessionPowered' /\ ClientPowered' /\ StartedInv' /\ DeviceSetUp'
<1>1. CountInv' /\ SetUpInv'
  BY DEF IInv, CountInv, SetUpInv, hardware
<1>2. SessionPowered'
  BY DEF IInv, SessionPowered, hardware
<1>3. ClientPowered'
  BY DEF IInv, ClientPowered, hardware
<1>4. StartedInv' /\ DeviceSetUp'
  BY DEF IInv, StartedInv, DeviceSetUp, hardware
<1> QED
  BY <1>1, <1>2, <1>3, <1>4

\* A step within a session, or outside of any.
LEMMA SameSessions ==
  ASSUME IInv, NEW t \in RailTasks, NEW step \in RailSteps,
         \A s \in RailTasks : pc'[s] = IF s = t THEN step ELSE pc[s],
         pc[t] \in {"counted", "counting", "settling"} \cup Powered
           <=> step \in {"counted", "counting", "settling"} \cup Powered,
         UNCHANGED <<sessions, batches, batching>>
  PROVE  InSession' = InSession /\ InBatch' = InBatch /\ SessionsInv'
<1>1. InSession' = InSession
  BY DEF InSession
<1>2. InBatch' = InBatch
  BY DEF InBatch
<1> QED
  BY <1>1, <1>2 DEF IInv, SessionsInv

\* power() counts its session while nobody has the rail's mutex.
LEMMA CountSessionInv ==
  ASSUME IInv, NEW t \in RailTasks, CountSession(t)
  PROVE  IInv'
<1>1. /\ pc[t] = "idle"
      /\ pc' = [pc EXCEPT ![t] = "counted"]
      /\ mutex = NoTask
      /\ held' = TRUE
      /\ UNCHANGED <<enable, hardware, batches, mutex, acquireMutex, setup, batching,
                     activation>>
  BY DEF CountSession
<1>2. /\ \A c \in Clients : pc'[c] = pc[c]
      /\ \A s \in RailTasks : pc'[s] = IF s = t THEN "counted" ELSE pc[s]
      /\ pc' \in [Tasks -> RailSteps \cup ClientSteps]
      /\ StepsInv' /\ HandlesInv'
      /\ CountedClients' = CountedClients
  BY <1>1, RailFrame DEF RailSteps, enable
<1>3. \A s \in RailTasks : pc[s] # "releasing"
  BY <1>1, TasksAssumption DEF IInv, LocksInv, Tasks
<1>4. device' \in [RailTasks -> Devices] /\ \A s \in RailTasks \ {t} : device'[s] = device[s]
  BY DEF CountSession, IInv, TypeOK
<1>5. SessionsInv'
  <2>1. t \notin InSession /\ InSession' = InSession \cup {t}
    BY <1>1, <1>2 DEF InSession, Powered
  <2>2. Cardinality(InSession') = Cardinality(InSession) + 1
    BY <2>1, CountedSetsFinite, FS_AddElement
  <2>3. InBatch' = InBatch
    BY <1>1 DEF InBatch
  <2> QED
    BY <1>1, <2>2, <2>3 DEF CountSession, IInv, SessionsInv
<1>6. TypeOK'
  <2>1. sessions' \in Nat /\ uses' \in 0 .. MaxUses
    BY MaxUsesAssumption DEF CountSession, IInv, TypeOK
  <2> QED
    BY <1>1, <1>2, <1>4, <2>1 DEF IInv, TypeOK, enable, hardware, setup
<1>7. LocksInv'
  BY <1>1, <1>2 DEF IInv, LocksInv
<1>8. HeldInv'
  BY <1>1, <1>2, <1>3 DEF IInv, HeldInv, InSession, Powered, enable
<1>9. Holders' = Holders
  BY <1>1, <1>2 DEF Holders, RailCounted, enable
<1>10. /\ CountInv' /\ SetUpInv'
       /\ SessionPowered' /\ ClientPowered' /\ StartedInv' /\ DeviceSetUp'
  BY <1>1, <1>2, <1>4, <1>9, UncountedFrame DEF RailSteps, Powered, enable, setup
<1> QED
  BY <1>2, <1>5, <1>6, <1>7, <1>8, <1>10 DEF IInv

\* The callers take turns at the rail's handle.
LEMMA LockAcquireInv ==
  ASSUME IInv, NEW t \in RailTasks, LockAcquire(t)
  PROVE  IInv'
<1>1. /\ pc[t] = "counted"
      /\ acquireMutex = NoTask
      /\ acquireMutex' = t
      /\ UNCHANGED <<activeCount, activationCount, hardware, sessions, batches, held,
                     mutex, setup, locals, uses>>
  BY DEF LockAcquire
<1>2. PICK step \in {"settling", "counting"} :
        /\ pc' = [pc EXCEPT ![t] = step]
        /\ acquired' = [acquired EXCEPT ![RailHandle] = TRUE]
        /\ step = "settling" <=> acquired[RailHandle]
  <2>1. CASE acquired[RailHandle]
    BY <2>1 DEF LockAcquire, IInv, TypeOK
  <2>2. CASE ~ acquired[RailHandle]
    BY <2>2 DEF LockAcquire
  <2> QED
    BY <2>1, <2>2
<1>3. /\ \A h \in Handles : acquired'[h] = acquired[h]
      /\ acquired'[RailHandle]
      /\ acquired' \in [AllHandles -> BOOLEAN]
  BY <1>2, HandlesAssumption DEF IInv, TypeOK, AllHandles
<1>4. step \in RailSteps /\ step \notin Powered
  BY DEF RailSteps, Powered
<1>5. /\ \A c \in Clients : pc'[c] = pc[c]
      /\ \A s \in RailTasks : pc'[s] = IF s = t THEN step ELSE pc[s]
      /\ pc' \in [Tasks -> RailSteps \cup ClientSteps]
      /\ StepsInv' /\ HandlesInv'
      /\ CountedClients' = CountedClients
  BY <1>2, <1>3, <1>4, RailFrame
<1>6. \A s \in RailTasks : pc[s] \notin {"counting", "settling"}
  BY <1>1, TasksAssumption DEF IInv, LocksInv, Tasks
<1>7. InSession' = InSession /\ InBatch' = InBatch /\ SessionsInv'
  BY <1>1, <1>5, SameSessions DEF RailSteps, locals
<1>8. TypeOK'
  BY <1>1, <1>3, <1>5 DEF IInv, TypeOK, hardware, setup, locals
<1>9. LocksInv'
  BY <1>1, <1>5, <1>6 DEF IInv, LocksInv
<1>10. HeldInv'
  <2>1. held /\ \A s \in RailTasks : pc[s] # "releasing"
    BY <1>1 DEF IInv, HeldInv, InSession
  <2>2. step = "counting" => \A s \in RailTasks : pc[s] \notin {"settling"} \cup Powered
    BY <1>2 DEF IInv, HeldInv
  <2> QED
    BY <1>1, <1>3, <1>5, <1>6, <1>7, <2>1, <2>2 DEF IInv, HeldInv, Powered
<1>11. Holders' = Holders
  <2>1. RailCounted' <=> RailCounted
    BY <1>2, <1>3, <1>5, <1>6, <1>1 DEF RailCounted
  <2> QED
    BY <1>5, <2>1 DEF Holders
<1>12. /\ CountInv' /\ SetUpInv'
       /\ SessionPowered' /\ ClientPowered' /\ StartedInv' /\ DeviceSetUp'
  BY <1>1, <1>4, <1>5, <1>11, UncountedFrame DEF Powered, setup, locals
<1> QED
  BY <1>5, <1>7, <1>8, <1>9, <1>10, <1>12 DEF IInv

\* The rail's handle counts before its session can begin.
LEMMA RailCountsInv ==
  ASSUME IInv, NEW t \in RailTasks, RailCounts(t)
  PROVE  IInv'
<1>1. /\ pc[t] = "counting"
      /\ handleAcquired
      /\ pc' = [pc EXCEPT ![t] = "settling"]
      /\ UNCHANGED <<acquired, started, settings, rail, setup, locals, uses>>
  BY DEF RailCounts
<1>2. /\ \A c \in Clients : pc'[c] = pc[c]
      /\ \A s \in RailTasks : pc'[s] = IF s = t THEN "settling" ELSE pc[s]
      /\ pc' \in [Tasks -> RailSteps \cup ClientSteps]
      /\ StepsInv' /\ HandlesInv'
      /\ CountedClients' = CountedClients
  BY <1>1, RailFrame DEF RailSteps
<1>3. InSession' = InSession /\ InBatch' = InBatch /\ SessionsInv'
  BY <1>1, <1>2, SameSessions DEF RailSteps, rail, locals
<1>4. TypeOK'
  BY <1>1, <1>2 DEF IInv, TypeOK, Outputs, handleAcquired, rail, setup, locals
<1>5. LocksInv'
  BY <1>1, <1>2 DEF IInv, LocksInv, rail
<1>6. /\ acquired[RailHandle]
      /\ \A s \in RailTasks :
           /\ pc[s] # "releasing"
           /\ pc[s] \notin {"settling"} \cup Powered
           /\ pc[s] = "counting" => s = t
  BY <1>1 DEF IInv, HeldInv, LocksInv
<1>7. HeldInv'
  BY <1>1, <1>2, <1>3, <1>6 DEF IInv, HeldInv, Powered, rail
<1>8. NoTask \notin Holders /\ Holders' = Holders \cup {NoTask}
  <2>1. ~ RailCounted /\ RailCounted'
    BY <1>1, <1>2, <1>6 DEF RailCounted
  <2> QED
    BY <1>2, <2>1, TasksAssumption DEF Holders, CountedClients, Tasks
<1>9. /\ CountInv'
      /\ Holders # {} => UNCHANGED <<output, activationCount>>
  BY <1>1, <1>8, HolderEnters DEF IInv
<1>10. SessionPowered' /\ ClientPowered' /\ StartedInv' /\ DeviceSetUp' /\ SetUpInv'
  <2>1. \A d \in Clients : pc[d] = "using" => d \in Holders'
    BY <1>8 DEF Holders, CountedClients
  <2>2. (\E s \in RailTasks : pc[s] \in {"settling"} \cup Powered) => NoTask \in Holders'
    BY <1>8
  <2>3. /\ \A d \in Clients : pc'[d] = "using" => pc[d] = "using"
        /\ \A s \in RailTasks :
             pc'[s] \in {"session", "setup", "powered", "ending"} => pc'[s] = pc[s]
    BY <1>2
  <2>4. Holders # {} /\ Holders' # {} => UNCHANGED <<hardware, activationCount>>
    BY <1>1, <1>9 DEF hardware
  <2>5. /\ UNCHANGED <<setup, locals>>
        /\ \/ handleAcquired /\ UNCHANGED <<started, settings>>
           \/ handleReleased /\ UNCHANGED activationCount
    BY <1>1
  <2> QED
    BY <1>9, <2>1, <2>2, <2>3, <2>4, <2>5, CountedFrame
<1> QED
  BY <1>2, <1>3, <1>4, <1>5, <1>7, <1>9, <1>10 DEF IInv

\* The session begins on a settled output, whose activation it notes.
LEMMA BeginSessionInv ==
  ASSUME IInv, NEW t \in RailTasks, BeginSession(t)
  PROVE  IInv'
<1>1. /\ pc[t] = "settling"
      /\ waitUntilSettled
      /\ activation' = [activation EXCEPT ![t] = activationCount]
      /\ acquireMutex' = NoTask
      /\ pc' = [pc EXCEPT ![t] = "session"]
      /\ UNCHANGED <<enable, hardware, sessions, batches, held, mutex, setup, batching,
                     device, uses>>
  BY DEF BeginSession
<1>2. /\ \A c \in Clients : pc'[c] = pc[c]
      /\ \A s \in RailTasks : pc'[s] = IF s = t THEN "session" ELSE pc[s]
      /\ pc' \in [Tasks -> RailSteps \cup ClientSteps]
      /\ StepsInv' /\ HandlesInv'
      /\ CountedClients' = CountedClients
  BY <1>1, RailFrame DEF RailSteps, enable
<1>3. InSession' = InSession /\ InBatch' = InBatch /\ SessionsInv'
  BY <1>1, <1>2, SameSessions DEF RailSteps, Powered
<1>4. TypeOK'
  BY <1>1, <1>2 DEF IInv, TypeOK, enable, hardware, setup
<1>5. LocksInv'
  BY <1>1, <1>2, TasksAssumption DEF IInv, LocksInv, Tasks
<1>6. /\ acquired[RailHandle]
      /\ \A s \in RailTasks : pc[s] # "counting"
  BY <1>1 DEF IInv, HeldInv
<1>7. HeldInv'
  BY <1>1, <1>2, <1>3, <1>6 DEF IInv, HeldInv, Powered, enable
<1>8. Holders' = Holders /\ Holders # {}
  <2>1. RailCounted' /\ RailCounted
    BY <1>1, <1>2, <1>6 DEF RailCounted, enable
  <2> QED
    BY <1>2, <2>1 DEF Holders
<1>9. output = "on"
  BY <1>1, <1>8 DEF IInv, TypeOK, CountInv, Outputs, waitUntilSettled
<1>10. /\ activation'[t] = activationCount
       /\ \A s \in RailTasks \ {t} : activation'[s] = activation[s]
  BY <1>1 DEF IInv, TypeOK
<1>11. /\ CountInv' /\ SetUpInv'
       /\ SessionPowered' /\ ClientPowered' /\ StartedInv' /\ DeviceSetUp'
  BY <1>1, <1>2, <1>8, <1>9, <1>10, UncountedFrame DEF RailSteps, enable, setup
<1> QED
  BY <1>2, <1>3, <1>4, <1>5, <1>7, <1>11 DEF IInv

\* A step within a session that leaves the rail alone.
LEMMA WithinSession ==
  ASSUME IInv, NEW t \in RailTasks, NEW step \in {"setup", "powered", "ending"},
         pc[t] \in Powered,
         pc' = [pc EXCEPT ![t] = step],
         UNCHANGED <<enable, rail, batching>>
  PROVE  /\ \A c \in Clients : pc'[c] = pc[c]
         /\ \A s \in RailTasks : pc'[s] = IF s = t THEN step ELSE pc[s]
         /\ pc' \in [Tasks -> RailSteps \cup ClientSteps]
         /\ StepsInv' /\ HandlesInv' /\ SessionsInv' /\ LocksInv' /\ HeldInv'
         /\ Holders' = Holders
<1>1. step \in RailSteps /\ step \in Powered
  BY DEF RailSteps, Powered
<1>2. /\ \A c \in Clients : pc'[c] = pc[c]
      /\ \A s \in RailTasks : pc'[s] = IF s = t THEN step ELSE pc[s]
      /\ pc' \in [Tasks -> RailSteps \cup ClientSteps]
      /\ StepsInv' /\ HandlesInv'
      /\ CountedClients' = CountedClients
  BY <1>1, RailFrame DEF enable
<1>3. InSession' = InSession /\ InBatch' = InBatch /\ SessionsInv'
  BY <1>1, <1>2, SameSessions DEF rail
<1>4. LocksInv'
  BY <1>1, <1>2 DEF IInv, LocksInv, Powered, rail
<1>5. HeldInv'
  BY <1>1, <1>2, <1>3 DEF IInv, HeldInv, Powered, rail, enable
<1>6. RailCounted' <=> RailCounted
  BY <1>1, <1>2 DEF RailCounted, Powered, enable
<1> QED
  BY <1>2, <1>3, <1>4, <1>5, <1>6 DEF Holders

\* A device is taken for set up only if it kept its power since it was.
LEMMA CheckSetUpInv ==
  ASSUME IInv, NEW t \in RailTasks, CheckSetUp(t)
  PROVE  IInv'
<1>1. /\ pc[t] = "session"
      /\ output = "off" \/ started[device[t]]
      /\ UNCHANGED <<enable, hardware, rail, setUpActivation, locals, uses>>
  BY DEF CheckSetUp
<1>2. PICK step \in {"setup", "powered"} :
        /\ pc' = [pc EXCEPT ![t] = step]
        /\ step = "powered" => setUpActivation[device[t]] = activation[t]
  BY DEF CheckSetUp
<1>3. deviceMutex' \in [Devices -> RailTasks \cup {NoTask}]
  BY DEF CheckSetUp, IInv, TypeOK
<1>4. /\ \A c \in Clients : pc'[c] = pc[c]
      /\ \A s \in RailTasks : pc'[s] = IF s = t THEN step ELSE pc[s]
      /\ pc' \in [Tasks -> RailSteps \cup ClientSteps]
      /\ StepsInv' /\ HandlesInv' /\ SessionsInv' /\ LocksInv' /\ HeldInv'
      /\ Holders' = Holders
  <2>1. /\ step \in {"setup", "powered", "ending"}
        /\ pc[t] \in Powered
        /\ UNCHANGED <<enable, rail, batching>>
    BY <1>1 DEF Powered, locals
  <2> QED
    BY <1>2, <2>1, WithinSession
<1>5. TypeOK'
  BY <1>1, <1>3, <1>4 DEF IInv, TypeOK, enable, hardware, rail, locals
<1>6. output = "on" /\ activation[t] = activationCount
  BY <1>1 DEF IInv, SessionPowered, Powered
<1>7. step = "powered" => settings[device[t]]
  BY <1>2, <1>6 DEF IInv, TypeOK, SetUpInv
<1>8. step \in RailSteps
  BY DEF RailSteps
<1>9. /\ CountInv' /\ SetUpInv'
      /\ SessionPowered' /\ ClientPowered' /\ StartedInv' /\ DeviceSetUp'
  <2>1. UNCHANGED <<activeCount, activationCount, hardware, setUpActivation, device,
                    activation>>
    BY <1>1 DEF enable, locals
  <2> QED
    BY <1>1, <1>4, <1>6, <1>7, <1>8, <2>1, UncountedFrame
<1> QED
  BY <1>4, <1>5, <1>9 DEF IInv

\* Setting up notes the activation under which the settings last.
LEMMA SetUpStepInv ==
  ASSUME IInv, NEW t \in RailTasks, SetUp(t)
  PROVE  IInv'
<1>1. /\ pc[t] = "setup"
      /\ settings' = [settings EXCEPT ![device[t]] = TRUE]
      /\ setUpActivation' = [setUpActivation EXCEPT ![device[t]] = activation[t]]
      /\ pc' = [pc EXCEPT ![t] = "powered"]
      /\ UNCHANGED <<enable, output, started, rail, locals, uses>>
  BY DEF SetUp
<1>2. deviceMutex' \in [Devices -> RailTasks \cup {NoTask}]
  BY DEF SetUp, IInv, TypeOK
<1>3. /\ \A c \in Clients : pc'[c] = pc[c]
      /\ \A s \in RailTasks : pc'[s] = IF s = t THEN "powered" ELSE pc[s]
      /\ pc' \in [Tasks -> RailSteps \cup ClientSteps]
      /\ StepsInv' /\ HandlesInv' /\ SessionsInv' /\ LocksInv' /\ HeldInv'
      /\ Holders' = Holders
  BY <1>1, WithinSession DEF Powered, locals
<1>4. TypeOK'
  BY <1>1, <1>2, <1>3 DEF IInv, TypeOK, enable, rail, locals
<1>5. output = "on" /\ activation[t] = activationCount /\ started[device[t]]
  BY <1>1 DEF IInv, SessionPowered, StartedInv, Powered
<1>6. device[t] \in Devices
  BY DEF IInv, TypeOK
<1>7. CountInv' /\ ClientPowered'
  BY <1>1, <1>3 DEF IInv, CountInv, ClientPowered, enable
<1>8. SessionPowered'
  BY <1>1, <1>3, <1>5 DEF IInv, SessionPowered, enable, locals
<1>9. StartedInv'
  BY <1>1, <1>3 DEF IInv, StartedInv, locals
<1>10. DeviceSetUp'
  <2>1. \A d \in Devices : settings'[d] = (d = device[t] \/ settings[d])
    BY <1>1 DEF IInv, TypeOK
  <2> QED
    BY <1>1, <1>3, <1>5, <1>6, <2>1 DEF IInv, TypeOK, DeviceSetUp, locals
<1>11. SetUpInv'
  BY <1>1, <1>5, <1>6 DEF IInv, TypeOK, SetUpInv, enable
<1> QED
  BY <1>3, <1>4, <1>7, <1>8, <1>9, <1>10, <1>11 DEF IInv

\* A device that does not respond ends the session and nothing else.
LEMMA SetUpFailsInv ==
  ASSUME IInv, NEW t \in RailTasks, SetUpFails(t)
  PROVE  IInv'
<1>1. /\ pc[t] = "setup"
      /\ pc' = [pc EXCEPT ![t] = "ending"]
      /\ UNCHANGED <<enable, hardware, rail, setUpActivation, locals, uses>>
  BY DEF SetUpFails
<1>2. deviceMutex' \in [Devices -> RailTasks \cup {NoTask}]
  BY DEF SetUpFails, IInv, TypeOK
<1>3. /\ \A c \in Clients : pc'[c] = pc[c]
      /\ \A s \in RailTasks : pc'[s] = IF s = t THEN "ending" ELSE pc[s]
      /\ pc' \in [Tasks -> RailSteps \cup ClientSteps]
      /\ StepsInv' /\ HandlesInv' /\ SessionsInv' /\ LocksInv' /\ HeldInv'
      /\ Holders' = Holders
  BY <1>1, WithinSession DEF Powered, locals
<1>4. TypeOK'
  BY <1>1, <1>2, <1>3 DEF IInv, TypeOK, enable, hardware, rail, locals
<1>5. /\ CountInv' /\ SetUpInv'
      /\ SessionPowered' /\ ClientPowered' /\ StartedInv' /\ DeviceSetUp'
  <2>1. UNCHANGED <<activeCount, activationCount, hardware, setUpActivation, device,
                    activation>>
    BY <1>1 DEF enable, locals
  <2>2. output = "on" /\ activation[t] = activationCount
    BY <1>1 DEF IInv, SessionPowered, Powered
  <2> QED
    BY <1>3, <2>1, <2>2, UncountedFrame DEF RailSteps
<1> QED
  BY <1>3, <1>4, <1>5 DEF IInv

\* Nobody has the rail's mutex, so nobody is turning the rail off.
LEMMA MutexFree ==
  ASSUME IInv, mutex = NoTask
  PROVE  \A s \in RailTasks : pc[s] # "releasing"
  BY TasksAssumption DEF IInv, LocksInv, Tasks

\* Who ends the last session or batch stops the rail; nobody else does.
LEMMA ReleaseInv ==
  ASSUME IInv, NEW t \in RailTasks, mutex = NoTask, releaseIfUnused(t),
         pc[t] \in {"idle", "powered", "ending"},
         InSession' = InSession \ {t}, InBatch' \subseteq InBatch, SessionsInv',
         batching' \in [RailTasks -> BOOLEAN],
         UNCHANGED <<activeCount, activationCount, hardware, acquireMutex, setup,
                     device, activation, uses>>
  PROVE  IInv'
<1> DEFINE Keeps(step) ==
      /\ pc' = [pc EXCEPT ![t] = step]
      /\ \A h \in Handles : acquired'[h] = acquired[h]
      /\ acquired' \in [AllHandles -> BOOLEAN]
<1>1. /\ InSession \subseteq InSession' \cup {t}
      /\ \A s \in RailTasks : pc[s] # "releasing"
  BY MutexFree
<1>2. /\ sessions' = 0 <=> InSession' = {}
      /\ batches' = 0 <=> InBatch' = {}
      /\ sessions' \in Nat /\ batches' \in Nat
  <2>1. IsFiniteSet(InSession') /\ IsFiniteSet(InBatch')
    BY CountedSetsFinite, FS_Subset
  <2> QED
    BY <2>1, FS_EmptySet, FS_CardinalityType DEF SessionsInv
<1>3. PICK step \in {"idle", "releasing"} :
        /\ Keeps(step)
        /\ acquired'[RailHandle] <=> acquired[RailHandle] /\ step = "idle"
        /\ mutex' = IF step = "idle" THEN NoTask ELSE t
        /\ step = "releasing" => acquired[RailHandle] /\ ~ held' /\ InSession' = {}
        /\ \/ held' = held /\ (held => InSession' \cup InBatch' # {})
           \/ ~ held' /\ InSession' = {} /\ ~ acquired'[RailHandle]
        /\ held' \in BOOLEAN
  <2>1. CASE ~ (held /\ sessions' = 0 /\ batches' = 0)
    <3>1. Keeps("idle") /\ UNCHANGED <<held, acquired, mutex>>
      BY <2>1 DEF releaseIfUnused, IInv, TypeOK
    <3> QED
      BY <1>2, <2>1, <3>1 DEF IInv, TypeOK
  <2>2. CASE held /\ sessions' = 0 /\ batches' = 0 /\ acquired[RailHandle]
    <3>1. /\ ~ held' /\ mutex' = t
          /\ acquired' = [acquired EXCEPT ![RailHandle] = FALSE]
          /\ pc' = [pc EXCEPT ![t] = "releasing"]
      BY <2>2 DEF releaseIfUnused
    <3>2. Keeps("releasing") /\ ~ acquired'[RailHandle] /\ held' \in BOOLEAN
      BY <2>2, <3>1, HandlesAssumption DEF releaseIfUnused, IInv, TypeOK, AllHandles
    <3> QED
      BY <1>2, <2>2, <3>1, <3>2
  <2>3. CASE held /\ sessions' = 0 /\ batches' = 0 /\ ~ acquired[RailHandle]
    <3>1. Keeps("idle") /\ held' = FALSE /\ UNCHANGED <<acquired, mutex>>
      BY <2>3 DEF releaseIfUnused, IInv, TypeOK
    <3> QED
      BY <1>2, <2>3, <3>1
  <2> QED
    BY <2>1, <2>2, <2>3
<1>4. step \in RailSteps
  BY DEF RailSteps
<1>5. /\ \A c \in Clients : pc'[c] = pc[c]
      /\ \A s \in RailTasks : pc'[s] = IF s = t THEN step ELSE pc[s]
      /\ pc' \in [Tasks -> RailSteps \cup ClientSteps]
      /\ StepsInv' /\ HandlesInv'
      /\ CountedClients' = CountedClients
  BY <1>3, <1>4, RailFrame
<1>6. TypeOK'
  BY <1>2, <1>3, <1>5 DEF IInv, TypeOK, hardware, setup
<1>7. LocksInv'
  BY <1>1, <1>3, <1>5, TasksAssumption DEF IInv, LocksInv, Tasks
<1>8. HeldInv'
  <2>1. InSession' # {} => held'
    BY <1>3 DEF IInv, HeldInv
  <2>2. (held' => InSession' \cup InBatch' # {}) /\ (acquired'[RailHandle] => held')
    BY <1>3 DEF IInv, HeldInv
  <2>3. ASSUME NEW s \in RailTasks
        PROVE  /\ pc'[s] \in {"counting", "settling"} \cup Powered => acquired'[RailHandle]
               /\ pc'[s] = "releasing" => ~ held'
               /\ pc'[s] = "counting"
                    => \A u \in RailTasks : pc'[u] \notin {"settling"} \cup Powered
    <3>1. CASE s = t
      BY <1>3, <1>5, <3>1 DEF Powered
    <3>2. CASE s # t
      <4>1. pc'[s] = pc[s] /\ pc[s] # "releasing"
        BY <1>1, <1>5, <3>2
      <4>2. pc'[s] \in {"counting", "settling"} \cup Powered => acquired'[RailHandle]
        <5>1. pc[s] \in {"counting", "settling"} \cup Powered
                => InSession' # {} /\ acquired[RailHandle]
          BY <3>2 DEF IInv, HeldInv, InSession
        <5> QED
          BY <1>3, <4>1, <5>1
      <4>3. pc'[s] = "counting"
              => \A u \in RailTasks : pc'[u] \notin {"settling"} \cup Powered
        BY <1>3, <1>5, <4>1 DEF IInv, HeldInv, Powered
      <4> QED
        BY <4>1, <4>2, <4>3
    <3> QED
      BY <3>1, <3>2
  <2> QED
    BY <2>1, <2>2, <2>3 DEF HeldInv
<1>9. Holders' = Holders
  <2>1. step = "releasing" => \A s \in RailTasks : pc[s] # "counting"
    BY <1>1, <1>3 DEF InSession
  <2>2. RailCounted' <=> RailCounted
    BY <1>1, <1>3, <1>5, <2>1 DEF RailCounted
  <2> QED
    BY <1>5, <2>2 DEF Holders
<1>10. /\ CountInv' /\ SetUpInv'
       /\ SessionPowered' /\ ClientPowered' /\ StartedInv' /\ DeviceSetUp'
  BY <1>4, <1>5, <1>9, UncountedFrame DEF Powered, setup
<1> QED
  BY <1>5, <1>6, <1>7, <1>8, <1>10 DEF IInv

\* A session that ends takes the rail with it if it is the last.
LEMMA EndSessionInv ==
  ASSUME IInv, NEW t \in RailTasks, EndSession(t)
  PROVE  IInv'
<1>1. /\ pc[t] \in {"powered", "ending"}
      /\ mutex = NoTask
      /\ sessions' = sessions - 1
      /\ UNCHANGED batches
      /\ releaseIfUnused(t)
      /\ UNCHANGED <<activeCount, activationCount, hardware, acquireMutex, setup,
                     locals, uses>>
  BY DEF EndSession
<1>2. PICK step \in {"idle", "releasing"} : pc' = [pc EXCEPT ![t] = step]
  BY <1>1 DEF releaseIfUnused
<1>3. t \in InSession /\ InSession' = InSession \ {t}
  <2>1. \A s \in RailTasks : pc'[s] = IF s = t THEN step ELSE pc[s]
    BY <1>2 DEF IInv, TypeOK, Tasks
  <2> QED
    BY <1>1, <2>1 DEF InSession, Powered
<1>4. InBatch' = InBatch
  BY <1>1 DEF InBatch, locals
<1>5. SessionsInv'
  BY <1>1, <1>3, <1>4, CountedSetsFinite, FS_RemoveElement DEF IInv, SessionsInv
<1> QED
  BY <1>1, <1>3, <1>4, <1>5, ReleaseInv DEF IInv, TypeOK, locals

\* A batch that ends does too.
LEMMA EndBatchInv ==
  ASSUME IInv, NEW t \in RailTasks, EndBatch(t)
  PROVE  IInv'
<1>1. /\ pc[t] = "idle"
      /\ batching[t]
      /\ mutex = NoTask
      /\ batches' = batches - 1
      /\ batching' = [batching EXCEPT ![t] = FALSE]
      /\ UNCHANGED sessions
      /\ releaseIfUnused(t)
      /\ UNCHANGED <<activeCount, activationCount, hardware, acquireMutex, setup,
                     device, activation, uses>>
  BY DEF EndBatch
<1>2. PICK step \in {"idle", "releasing"} : pc' = [pc EXCEPT ![t] = step]
  BY <1>1 DEF releaseIfUnused
<1>3. InSession' = InSession /\ t \notin InSession
  <2>1. \A s \in RailTasks : pc'[s] = IF s = t THEN step ELSE pc[s]
    BY <1>2 DEF IInv, TypeOK, Tasks
  <2> QED
    BY <1>1, <2>1 DEF InSession, Powered
<1>4. t \in InBatch /\ InBatch' = InBatch \ {t}
  BY <1>1 DEF InBatch, IInv, TypeOK
<1>5. SessionsInv'
  BY <1>1, <1>3, <1>4, CountedSetsFinite, FS_RemoveElement DEF IInv, SessionsInv
<1>6. batching' \in [RailTasks -> BOOLEAN]
  BY <1>1 DEF IInv, TypeOK
<1> QED
  BY <1>1, <1>3, <1>4, <1>5, <1>6, ReleaseInv

\* A batch is counted while nobody is turning the rail off.
LEMMA BatchInv ==
  ASSUME IInv, NEW t \in RailTasks, Batch(t)
  PROVE  IInv'
<1>1. /\ ~ batching[t]
      /\ mutex = NoTask
      /\ batches' = batches + 1
      /\ batching' = [batching EXCEPT ![t] = TRUE]
      /\ UNCHANGED <<enable, hardware, sessions, held, mutex, acquireMutex, setup, pc,
                     device, activation>>
  BY DEF Batch
<1>2. InSession' = InSession
  BY <1>1 DEF InSession
<1>3. t \notin InBatch /\ InBatch' = InBatch \cup {t}
  BY <1>1 DEF InBatch, IInv, TypeOK
<1>4. SessionsInv'
  BY <1>1, <1>2, <1>3, CountedSetsFinite, FS_AddElement DEF IInv, SessionsInv
<1>5. TypeOK'
  <2>1. batches' \in Nat /\ uses' \in 0 .. MaxUses
    BY MaxUsesAssumption DEF Batch, IInv, TypeOK
  <2> QED
    BY <1>1, <2>1 DEF IInv, TypeOK, enable, hardware, setup
<1>6. StepsInv' /\ HandlesInv' /\ LocksInv'
  BY <1>1 DEF IInv, StepsInv, HandlesInv, LocksInv, enable
<1>7. HeldInv'
  BY <1>1, <1>2, <1>3 DEF IInv, HeldInv, enable
<1>8. Holders' = Holders
  BY <1>1 DEF Holders, CountedClients, RailCounted, enable
<1>9. CountInv' /\ SetUpInv'
  BY <1>1, <1>8 DEF IInv, CountInv, SetUpInv, enable, hardware, setup
<1>10. SessionPowered' /\ ClientPowered' /\ StartedInv' /\ DeviceSetUp'
  BY <1>1 DEF IInv, SessionPowered, ClientPowered, StartedInv, DeviceSetUp, enable,
     hardware
<1> QED
  BY <1>4, <1>5, <1>6, <1>7, <1>9, <1>10 DEF IInv

\* The rail's handle stops counting when no session is left to notice.
LEMMA RailUncountsInv ==
  ASSUME IInv, NEW t \in RailTasks, RailUncounts(t)
  PROVE  IInv'
<1>1. /\ pc[t] = "releasing"
      /\ handleReleased
      /\ mutex' = NoTask
      /\ pc' = [pc EXCEPT ![t] = "idle"]
      /\ UNCHANGED <<acquired, activationCount, sessions, batches, held, acquireMutex,
                     setup, locals, uses>>
  BY DEF RailUncounts
<1>2. /\ \A c \in Clients : pc'[c] = pc[c]
      /\ \A s \in RailTasks : pc'[s] = IF s = t THEN "idle" ELSE pc[s]
      /\ pc' \in [Tasks -> RailSteps \cup ClientSteps]
      /\ StepsInv' /\ HandlesInv'
      /\ CountedClients' = CountedClients
  BY <1>1, RailFrame DEF RailSteps
<1>3. InSession' = InSession /\ InBatch' = InBatch /\ SessionsInv'
  BY <1>1, <1>2, SameSessions DEF RailSteps, Powered, locals
<1>4. TypeOK'
  <2>1. /\ activeCount' \in Int
        /\ output' \in Outputs
        /\ started' \in [Devices -> BOOLEAN]
        /\ settings' \in [Devices -> BOOLEAN]
    BY <1>1, ReleasedTypes DEF IInv
  <2> QED
    BY <1>1, <1>2, <2>1 DEF IInv, TypeOK, setup, locals
<1>5. /\ ~ acquired[RailHandle]
      /\ \A s \in RailTasks :
           /\ pc[s] \notin {"counting", "settling"} \cup Powered
           /\ pc[s] = "releasing" => s = t
  BY <1>1 DEF IInv, HeldInv, LocksInv
<1>6. LocksInv'
  BY <1>1, <1>2, <1>5, TasksAssumption DEF IInv, LocksInv, Tasks
<1>7. HeldInv'
  BY <1>1, <1>2, <1>3, <1>5 DEF IInv, HeldInv, Powered
<1>8. NoTask \in Holders /\ Holders' = Holders \ {NoTask}
  <2>1. RailCounted /\ ~ RailCounted'
    BY <1>1, <1>2, <1>5 DEF RailCounted
  <2> QED
    BY <1>2, <2>1, TasksAssumption DEF Holders, CountedClients, Tasks
<1>9. CountInv' /\ (Holders' # {} => UNCHANGED hardware)
  BY <1>1, <1>8, HolderLeaves DEF IInv
<1>10. SessionPowered' /\ ClientPowered' /\ StartedInv' /\ DeviceSetUp' /\ SetUpInv'
  <2>1. \A d \in Clients : pc[d] = "using" => d \in Holders'
    BY <1>8, TasksAssumption DEF Holders, CountedClients, Tasks
  <2>2. (\E s \in RailTasks : pc[s] \in {"settling"} \cup Powered) => NoTask \in Holders'
    BY <1>5
  <2>3. /\ \A d \in Clients : pc'[d] = "using" => pc[d] = "using"
        /\ \A s \in RailTasks :
             pc'[s] \in {"session", "setup", "powered", "ending"} => pc'[s] = pc[s]
    BY <1>2
  <2>4. Holders # {} /\ Holders' # {} => UNCHANGED <<hardware, activationCount>>
    BY <1>1, <1>9
  <2>5. /\ UNCHANGED <<setup, locals>>
        /\ \/ handleAcquired /\ UNCHANGED <<started, settings>>
           \/ handleReleased /\ UNCHANGED activationCount
    BY <1>1
  <2> QED
    BY <1>9, <2>1, <2>2, <2>3, <2>4, <2>5, CountedFrame
<1> QED
  BY <1>2, <1>3, <1>4, <1>6, <1>7, <1>9, <1>10 DEF IInv

-----------------------------------------------------------------------------
(* The output settles, a device starts up *)

\* Settling takes nothing from anybody.
LEMMA SettleInv ==
  ASSUME IInv, Settle
  PROVE  IInv'
<1>1. /\ output = "settling" /\ output' = "on"
      /\ UNCHANGED <<enable, started, settings, rail, setup, pc, locals, uses>>
  BY DEF Settle
<1>2. TypeOK'
  BY <1>1 DEF IInv, TypeOK, Outputs, enable, rail, setup, locals
<1>3. StepsInv' /\ HandlesInv' /\ LocksInv' /\ StartedInv' /\ DeviceSetUp'
  BY <1>1 DEF IInv, StepsInv, HandlesInv, LocksInv, StartedInv, DeviceSetUp, enable,
     rail, locals
<1>4. InSession' = InSession /\ InBatch' = InBatch /\ Holders' = Holders
  BY <1>1 DEF InSession, InBatch, Holders, CountedClients, RailCounted, enable, locals
<1>5. SessionsInv' /\ HeldInv'
  BY <1>1, <1>4 DEF IInv, SessionsInv, HeldInv, enable, rail
<1>6. CountInv' /\ SetUpInv'
  BY <1>1, <1>4 DEF IInv, CountInv, SetUpInv, enable, setup
<1>7. SessionPowered' /\ ClientPowered'
  BY <1>1 DEF IInv, SessionPowered, ClientPowered, enable, locals
<1> QED
  BY <1>2, <1>3, <1>5, <1>6, <1>7 DEF IInv

\* Nor does starting up.
LEMMA StartUpInv ==
  ASSUME IInv, NEW d \in Devices, StartUp(d)
  PROVE  IInv'
<1>1. /\ started' = [started EXCEPT ![d] = TRUE]
      /\ UNCHANGED <<enable, output, settings, rail, setup, pc, locals, uses>>
  BY DEF StartUp
<1>2. TypeOK'
  BY <1>1 DEF IInv, TypeOK, enable, rail, setup, locals
<1>3. StepsInv' /\ HandlesInv' /\ LocksInv'
  BY <1>1 DEF IInv, StepsInv, HandlesInv, LocksInv, enable, rail
<1>4. InSession' = InSession /\ InBatch' = InBatch /\ Holders' = Holders
  BY <1>1 DEF InSession, InBatch, Holders, CountedClients, RailCounted, enable, locals
<1>5. SessionsInv' /\ HeldInv'
  BY <1>1, <1>4 DEF IInv, SessionsInv, HeldInv, enable, rail
<1>6. CountInv' /\ SetUpInv'
  BY <1>1, <1>4 DEF IInv, CountInv, SetUpInv, enable, setup
<1>7. SessionPowered' /\ ClientPowered'
  BY <1>1 DEF IInv, SessionPowered, ClientPowered, enable, locals
<1>8. StartedInv' /\ DeviceSetUp'
  <2>1. \A e \in Devices : started'[e] = (e = d \/ started[e])
    BY <1>1 DEF IInv, TypeOK
  <2> QED
    BY <1>1, <2>1 DEF IInv, TypeOK, StartedInv, DeviceSetUp, locals
<1> QED
  BY <1>2, <1>3, <1>5, <1>6, <1>7, <1>8 DEF IInv

\* A stuttering step.
LEMMA StutterInv ==
  ASSUME IInv, UNCHANGED vars
  PROVE  IInv'
<1> USE DEF vars, enable, hardware, rail, setup, locals
<1>1. TypeOK' /\ StepsInv' /\ HandlesInv' /\ LocksInv'
  BY DEF IInv, TypeOK, StepsInv, HandlesInv, LocksInv
<1>2. InSession' = InSession /\ InBatch' = InBatch /\ Holders' = Holders
  BY DEF InSession, InBatch, Holders, CountedClients, RailCounted
<1>3. SessionsInv' /\ HeldInv' /\ CountInv'
  BY <1>2 DEF IInv, SessionsInv, HeldInv, CountInv
<1>4. SessionPowered' /\ ClientPowered' /\ StartedInv' /\ DeviceSetUp' /\ SetUpInv'
  BY DEF IInv, SessionPowered, ClientPowered, StartedInv, DeviceSetUp, SetUpInv
<1> QED
  BY <1>1, <1>3, <1>4 DEF IInv

-----------------------------------------------------------------------------
(* The theorems *)

\* Nobody counts at first.
LEMMA InitInv ==
  ASSUME Init
  PROVE  IInv
<1>1. \A t \in Tasks : pc[t] = "idle"
  BY DEF Init
<1>2. TypeOK
  <2>1. /\ acquired \in [AllHandles -> BOOLEAN]
        /\ started \in [Devices -> BOOLEAN] /\ settings \in [Devices -> BOOLEAN]
        /\ deviceMutex \in [Devices -> RailTasks \cup {NoTask}]
        /\ setUpActivation \in [Devices -> Nat]
    BY DEF Init
  <2>2. /\ pc \in [Tasks -> RailSteps \cup ClientSteps]
        /\ batching \in [RailTasks -> BOOLEAN]
        /\ device \in [RailTasks -> Devices]
        /\ activation \in [RailTasks -> Nat]
    BY DEF Init, RailSteps
  <2>3. /\ activeCount \in Int /\ activationCount \in Nat /\ output \in Outputs
        /\ sessions \in Nat /\ batches \in Nat
        /\ mutex \in RailTasks \cup {NoTask} /\ acquireMutex \in RailTasks \cup {NoTask}
    BY DEF Init, Outputs
  <2>4. uses \in 0 .. MaxUses
    BY MaxUsesAssumption DEF Init
  <2>5. held \in BOOLEAN
    BY DEF Init
  <2> QED
    BY <2>1, <2>2, <2>3, <2>4, <2>5 DEF TypeOK
<1>3. StepsInv /\ HandlesInv
  BY <1>1, HandlesAssumption
     DEF Init, StepsInv, HandlesInv, Tasks, AllHandles, RailSteps, ClientSteps
<1>4. InSession = {} /\ InBatch = {} /\ Holders = {}
  BY <1>1 DEF Init, InSession, InBatch, Holders, CountedClients, RailCounted, Tasks,
     AllHandles, Powered
<1>5. SessionsInv /\ CountInv
  BY <1>4, FS_EmptySet DEF Init, SessionsInv, CountInv
<1>6. LocksInv /\ HeldInv
  BY <1>1, <1>4, TasksAssumption DEF Init, LocksInv, HeldInv, Tasks, AllHandles, Powered
<1>7. SessionPowered /\ ClientPowered /\ StartedInv /\ DeviceSetUp /\ SetUpInv
  BY <1>1 DEF Init, SessionPowered, ClientPowered, StartedInv, DeviceSetUp, SetUpInv,
     Tasks, Powered
<1> QED
  BY <1>2, <1>3, <1>5, <1>6, <1>7 DEF IInv

\* Every step keeps the invariant, if no two clients share a handle.
LEMMA NextInv ==
  ASSUME OneTaskPerHandle, IInv, [Next]_vars
  PROVE  IInv'
<1>1. CASE Settle
  BY <1>1, SettleInv
<1>2. ASSUME NEW d \in Devices, StartUp(d)
      PROVE  IInv'
  BY <1>2, StartUpInv
<1>3. ASSUME NEW c \in Clients, ClientAcquire(c) \/ ClientTask(c)
      PROVE  IInv'
  BY <1>3, ClientAcquireInv, ClientCountsInv, ClientReadyInv, ClientReleaseInv,
     ClientUncountsInv DEF ClientTask
<1>4. ASSUME NEW t \in RailTasks, CountSession(t) \/ Batch(t) \/ RailTask(t)
      PROVE  IInv'
  BY <1>4, CountSessionInv, BatchInv, LockAcquireInv, RailCountsInv, BeginSessionInv,
     CheckSetUpInv, SetUpStepInv, SetUpFailsInv, EndSessionInv, EndBatchInv,
     RailUncountsInv DEF RailTask
<1>5. CASE UNCHANGED vars
  BY <1>5, StutterInv
<1> QED
  BY <1>1, <1>2, <1>3, <1>4, <1>5 DEF Next

\* The counters, locks and steps agree with each other in every reachable state.
THEOREM Invariant ==
  ASSUME OneTaskPerHandle
  PROVE  Spec => []IInv
<1>1. Init => IInv
  BY InitInv
<1>2. IInv /\ [Next]_vars => IInv'
  BY NextInv
<1> QED
  BY <1>1, <1>2, PTL DEF Spec

\* The state of the rail and of the output stays of its type.
THEOREM TypeCorrect ==
  ASSUME OneTaskPerHandle
  PROVE  Spec => []TypeOK
<1>1. IInv => TypeOK
  BY DEF IInv
<1> QED
  BY <1>1, Invariant, PTL

\* A session runs on a settled output and in the activation it noted, for any
\* number of tasks that open sessions and batches on the rail at once.
THEOREM SessionsArePowered ==
  ASSUME OneTaskPerHandle
  PROVE  Spec => []SessionPowered
<1>1. IInv => SessionPowered
  BY DEF IInv
<1> QED
  BY <1>1, Invariant, PTL

\* Whoever gets at a device finds it started up and set up since it was powered.
THEOREM DevicesAreSetUp ==
  ASSUME OneTaskPerHandle
  PROVE  Spec => []DeviceSetUp
<1>1. IInv => DeviceSetUp
  BY DEF IInv
<1> QED
  BY <1>1, Invariant, PTL

\* A load that is in use is powered, whatever the rail and other loads do.
THEOREM ClientsArePowered ==
  ASSUME OneTaskPerHandle
  PROVE  Spec => []ClientPowered
<1>1. IInv => ClientPowered
  BY DEF IInv
<1> QED
  BY <1>1, Invariant, PTL

\* Nothing keeps the output on when no session, batch or client needs it.
THEOREM UnusedIsOff ==
  ASSUME OneTaskPerHandle
  PROVE  Spec => []OffWhenUnused
<1>1. ASSUME IInv, \A t \in Tasks : pc[t] = "idle", \A t \in RailTasks : ~ batching[t]
      PROVE  output = "off"
  <2>1. InSession = {} /\ InBatch = {}
    BY <1>1 DEF InSession, InBatch, Tasks, Powered
  <2>2. ~ acquired[RailHandle]
    BY <1>1, <2>1 DEF IInv, HeldInv
  <2>3. Holders = {}
    BY <1>1, <2>2 DEF Holders, CountedClients, RailCounted, Tasks
  <2> QED
    BY <1>1, <2>3 DEF IInv, CountInv
<1>2. IInv => OffWhenUnused
  BY <1>1 DEF OffWhenUnused
<1> QED
  BY <1>2, Invariant, PTL

(***************************************************************************)
(* The four together: what a session, a device and a client rely on, and   *)
(* that the output goes off behind the last of them.                       *)
(***************************************************************************)
THEOREM RailIsSound ==
  ASSUME OneTaskPerHandle
  PROVE  Spec => []RailSound
<1>1. SessionPowered /\ DeviceSetUp /\ ClientPowered /\ OffWhenUnused => RailSound
  BY DEF RailSound
<1> QED
  BY <1>1, SessionsArePowered, DevicesAreSetUp, ClientsArePowered, UnusedIsOff, PTL

\* While a rail task stays in its batch, no step of anybody releases the rail.
LEMMA BatchKeeps ==
  ASSUME IInv, Next, NEW t \in RailTasks, batching[t], batching'[t], acquired[RailHandle]
  PROVE  acquired'[RailHandle]
<1>1. CASE UNCHANGED acquired
  BY <1>1
<1>2. ASSUME NEW c \in Clients, ClientAcquire(c) \/ ClientRelease(c)
      PROVE  acquired'[RailHandle]
  BY <1>2, HandlesAssumption DEF ClientAcquire, ClientRelease, IInv, TypeOK, AllHandles
<1>3. ASSUME NEW s \in RailTasks, LockAcquire(s)
      PROVE  acquired'[RailHandle]
  BY <1>3 DEF LockAcquire
<1>4. ASSUME NEW s \in RailTasks, EndSession(s) \/ EndBatch(s)
      PROVE  acquired'[RailHandle]
  <2>1. SessionsInv'
    BY <1>4, EndSessionInv, EndBatchInv DEF IInv
  <2>2. t \in InBatch'
    BY DEF InBatch
  <2>3. IsFiniteSet(InBatch')
    BY TasksAssumption, FS_Subset DEF InBatch
  <2>4. batches' # 0
    BY <2>1, <2>2, <2>3, FS_EmptySet DEF SessionsInv
  <2> QED
    BY <1>4, <2>4 DEF EndSession, EndBatch, releaseIfUnused
<1> QED
  BY <1>1, <1>2, <1>3, <1>4
     DEF Next, Settle, StartUp, ClientTask, ClientCounts, ClientReady, ClientUncounts,
         CountSession, Batch, RailTask, RailCounts, BeginSession, CheckSetUp, SetUp,
         SetUpFails, RailUncounts, enable

\* A batch keeps the rail powered between its sessions, whoever else uses it.
THEOREM BatchesKeepTheRail ==
  ASSUME OneTaskPerHandle
  PROVE  Spec => KeptThroughBatch
<1> DEFINE Kept == \A t \in RailTasks :
             batching[t] /\ batching'[t] /\ acquired[RailHandle] => acquired'[RailHandle]
<1>1. IInv /\ [Next]_vars => [Kept]_vars
  BY BatchKeeps
<1> QED
  BY <1>1, Invariant, PTL DEF Spec, KeptThroughBatch

=============================================================================
