---------------------------- MODULE SwitchedRail ----------------------------
(***************************************************************************)
(* A rail of sensors that is powered only while somebody reads one of      *)
(* them, and the shared output that switches it together with other loads. *)
(*                                                                         *)
(* SharedEnable counts the handles that were acquired and drives the       *)
(* output.  SwitchedRail counts sessions and batches and holds one handle. *)
(* SwitchedDevice sets a device up again after it lost power.  Clients use *)
(* a handle of their own (a motor, the buzzer).                            *)
(*                                                                         *)
(* One action per critical section or atomic operation.  SharedEnable's    *)
(* mutex covers handleAcquired and handleReleased, one action each; what   *)
(* is read without it tells no state inside them from the one before.      *)
(* Time is whether the output has settled and a device has started up.     *)
(***************************************************************************)
EXTENDS Integers, FiniteSets

CONSTANTS
  RailTasks,    \* tasks that read the devices on the rail
  Devices,      \* SwitchedDevices on the rail
  Clients,      \* tasks that use a handle of the output themselves
  Handles,      \* their handles
  HandleOf,     \* which one each of them uses
  RailHandle,   \* the rail's own handle
  NoTask,
  MaxUses       \* bound on the sessions and the clients' uses, together

Tasks == RailTasks \cup Clients
AllHandles == Handles \cup {RailHandle}

ASSUME TasksAssumption ==
  /\ IsFiniteSet(RailTasks)
  /\ IsFiniteSet(Clients)
  /\ RailTasks \cap Clients = {}
  /\ NoTask \notin Tasks
ASSUME HandlesAssumption ==
  /\ RailHandle \notin Handles
  /\ HandleOf \in [Clients -> Handles]
ASSUME MaxUsesAssumption == MaxUses \in Nat

\* How every board uses its handles, except while a shutdown closes a valve.
OneTaskPerHandle ==
  \A c, d \in Clients : HandleOf[c] = HandleOf[d] => c = d

\* The value of HandleOf in the small instance: each handle is named after its client.
OwnHandles == [c \in Clients |-> c]

VARIABLES
  acquired,        \* Handle::acquired
  activeCount,     \* SharedEnable::activeCount
  activationCount, \* SharedEnable::activationCount
  output,          \* the pin with readyAt: "off", "settling" or "on"
  started,         \* devices that have been powered for their start-up time
  settings,        \* devices that were set up and kept their power since
  sessions,        \* SwitchedRail::sessions
  batches,         \* SwitchedRail::batches
  held,            \* SwitchedRail::held
  mutex,           \* who holds SwitchedRail::mutex between two steps
  acquireMutex,    \* who holds SwitchedRail::acquireMutex
  deviceMutex,     \* who holds each SwitchedDevice::mutex
  setUpActivation, \* SwitchedDevice::setUpActivation; no activation is number 0
  pc,              \* where each task is
  batching,        \* rail tasks that have a Batch
  device,          \* the device a rail task powers
  activation,      \* its Session::activation
  uses             \* counted for the bound

enable == <<acquired, activeCount, activationCount>>
hardware == <<output, started, settings>>
rail == <<sessions, batches, held, mutex, acquireMutex>>
setup == <<deviceMutex, setUpActivation>>
locals == <<batching, device, activation>>
vars == <<enable, hardware, rail, setup, pc, locals, uses>>

Outputs == {"off", "settling", "on"}
RailSteps == {"idle", "counted", "counting", "settling", "session", "setup",
              "powered", "ending", "releasing"}
ClientSteps == {"idle", "counting", "settling", "using", "releasing"}

TypeOK ==
  /\ acquired \in [AllHandles -> BOOLEAN]
  /\ activeCount \in Int
  /\ activationCount \in Nat
  /\ output \in Outputs
  /\ started \in [Devices -> BOOLEAN]
  /\ settings \in [Devices -> BOOLEAN]
  /\ sessions \in Nat
  /\ batches \in Nat
  /\ held \in BOOLEAN
  /\ mutex \in RailTasks \cup {NoTask}
  /\ acquireMutex \in RailTasks \cup {NoTask}
  /\ deviceMutex \in [Devices -> RailTasks \cup {NoTask}]
  /\ setUpActivation \in [Devices -> Nat]
  /\ pc \in [Tasks -> RailSteps \cup ClientSteps]
  /\ batching \in [RailTasks -> BOOLEAN]
  /\ device \in [RailTasks -> Devices]
  /\ activation \in [RailTasks -> Nat]
  /\ uses \in 0 .. MaxUses

Init ==
  /\ acquired = [h \in AllHandles |-> FALSE]
  /\ activeCount = 0
  /\ activationCount = 0
  /\ output = "off"
  /\ started = [d \in Devices |-> FALSE]
  /\ settings = [d \in Devices |-> FALSE]
  /\ sessions = 0
  /\ batches = 0
  /\ held = FALSE
  /\ mutex = NoTask
  /\ acquireMutex = NoTask
  /\ deviceMutex = [d \in Devices |-> NoTask]
  /\ setUpActivation = [d \in Devices |-> 0]
  /\ pc = [t \in Tasks |-> "idle"]
  /\ batching = [t \in RailTasks |-> FALSE]
  /\ device \in [RailTasks -> Devices]
  /\ activation = [t \in RailTasks |-> 0]
  /\ uses = 0

-----------------------------------------------------------------------------
(* SharedEnable: the output *)

\* The first handle turns the output on.
handleAcquired ==
  /\ activeCount' = activeCount + 1
  /\ IF activeCount' = 1
     THEN /\ output' = "settling"
          /\ activationCount' = activationCount + 1
     ELSE UNCHANGED <<output, activationCount>>

\* The last handle turns it off, and every device on the rail loses its state.
handleReleased ==
  /\ activeCount' = activeCount - 1
  /\ IF activeCount' = 0
     THEN /\ output' = "off"
          /\ started' = [d \in Devices |-> FALSE]
          /\ settings' = [d \in Devices |-> FALSE]
     ELSE UNCHANGED hardware

\* What waitUntilSettled() returns on: readyAt passed, or the output is off.
waitUntilSettled == output # "settling"

Settle ==
  /\ output = "settling"
  /\ output' = "on"
  /\ UNCHANGED <<enable, started, settings, rail, setup, pc, locals, uses>>

StartUp(d) ==
  /\ output # "off"
  /\ ~ started[d]
  /\ started' = [started EXCEPT ![d] = TRUE]
  /\ UNCHANGED <<enable, output, settings, rail, setup, pc, locals, uses>>

-----------------------------------------------------------------------------
(* A client with a handle of its own *)

\* Handle::acquire(): mark the handle, and count it only if it was not marked.
ClientAcquire(c) ==
  /\ pc[c] = "idle"
  /\ uses < MaxUses
  /\ uses' = uses + 1
  /\ IF acquired[HandleOf[c]]
     THEN /\ pc' = [pc EXCEPT ![c] = "settling"]
          /\ UNCHANGED acquired
     ELSE /\ acquired' = [acquired EXCEPT ![HandleOf[c]] = TRUE]
          /\ pc' = [pc EXCEPT ![c] = "counting"]
  /\ UNCHANGED <<activeCount, activationCount, hardware, rail, setup, locals>>

ClientCounts(c) ==
  /\ pc[c] = "counting"
  /\ handleAcquired
  /\ pc' = [pc EXCEPT ![c] = "settling"]
  /\ UNCHANGED <<acquired, started, settings, rail, setup, locals, uses>>

ClientReady(c) ==
  /\ pc[c] = "settling"
  /\ waitUntilSettled
  /\ pc' = [pc EXCEPT ![c] = "using"]
  /\ UNCHANGED <<enable, hardware, rail, setup, locals, uses>>

ClientRelease(c) ==
  /\ pc[c] = "using"
  /\ IF acquired[HandleOf[c]]
     THEN /\ acquired' = [acquired EXCEPT ![HandleOf[c]] = FALSE]
          /\ pc' = [pc EXCEPT ![c] = "releasing"]
     ELSE /\ pc' = [pc EXCEPT ![c] = "idle"]
          /\ UNCHANGED acquired
  /\ UNCHANGED <<activeCount, activationCount, hardware, rail, setup, locals, uses>>

ClientUncounts(c) ==
  /\ pc[c] = "releasing"
  /\ handleReleased
  /\ pc' = [pc EXCEPT ![c] = "idle"]
  /\ UNCHANGED <<acquired, activationCount, rail, setup, locals, uses>>

-----------------------------------------------------------------------------
(* SwitchedRail and SwitchedDevice::power() *)

\* SwitchedRail::acquire(), under mutex; taken by power() on some device.
CountSession(t) ==
  /\ pc[t] = "idle"
  /\ mutex = NoTask
  /\ uses < MaxUses
  /\ uses' = uses + 1
  /\ sessions' = sessions + 1
  /\ held' = TRUE
  /\ \E d \in Devices : device' = [device EXCEPT ![t] = d]
  /\ pc' = [pc EXCEPT ![t] = "counted"]
  /\ UNCHANGED <<enable, hardware, batches, mutex, acquireMutex, setup, batching,
                 activation>>

\* Seeded fault: callers do not exclude each other while the rail turns on.
AcquireUnlocked(t) ==
  /\ pc[t] = "counted"
  /\ IF acquired[RailHandle]
     THEN /\ pc' = [pc EXCEPT ![t] = "settling"]
          /\ UNCHANGED acquired
     ELSE /\ acquired' = [acquired EXCEPT ![RailHandle] = TRUE]
          /\ pc' = [pc EXCEPT ![t] = "counting"]
  /\ UNCHANGED <<activeCount, activationCount, hardware, rail, setup, locals, uses>>

\* Take acquireMutex; the rail's handle may be acquired already.
LockAcquire(t) ==
  /\ pc[t] = "counted"
  /\ acquireMutex = NoTask
  /\ acquireMutex' = t
  /\ IF acquired[RailHandle]
     THEN /\ pc' = [pc EXCEPT ![t] = "settling"]
          /\ UNCHANGED acquired
     ELSE /\ acquired' = [acquired EXCEPT ![RailHandle] = TRUE]
          /\ pc' = [pc EXCEPT ![t] = "counting"]
  /\ UNCHANGED <<activeCount, activationCount, hardware, sessions, batches, held,
                 mutex, setup, locals, uses>>

RailCounts(t) ==
  /\ pc[t] = "counting"
  /\ handleAcquired
  /\ pc' = [pc EXCEPT ![t] = "settling"]
  /\ UNCHANGED <<acquired, started, settings, rail, setup, locals, uses>>

\* The Session notes the activation it runs in.
BeginSession(t) ==
  /\ pc[t] = "settling"
  /\ waitUntilSettled
  /\ activation' = [activation EXCEPT ![t] = activationCount]
  /\ acquireMutex' = NoTask
  /\ pc' = [pc EXCEPT ![t] = "session"]
  /\ UNCHANGED <<enable, hardware, sessions, batches, held, mutex, setup, batching,
                 device, uses>>

\* waitPoweredFor() the start-up time, then see under the device's mutex
\* whether it was set up in this activation.
CheckSetUp(t) ==
  /\ pc[t] = "session"
  /\ LET d == device[t]
     IN  /\ output = "off" \/ started[d]
         /\ deviceMutex[d] = NoTask
         /\ IF setUpActivation[d] = activation[t]
            THEN /\ pc' = [pc EXCEPT ![t] = "powered"]
                 /\ UNCHANGED deviceMutex
            ELSE /\ pc' = [pc EXCEPT ![t] = "setup"]
                 /\ deviceMutex' = [deviceMutex EXCEPT ![d] = t]
  /\ UNCHANGED <<enable, hardware, rail, setUpActivation, locals, uses>>

SetUp(t) ==
  /\ pc[t] = "setup"
  /\ output = "on"
  /\ settings' = [settings EXCEPT ![device[t]] = TRUE]
  /\ setUpActivation' = [setUpActivation EXCEPT ![device[t]] = activation[t]]
  /\ deviceMutex' = [deviceMutex EXCEPT ![device[t]] = NoTask]
  /\ pc' = [pc EXCEPT ![t] = "powered"]
  /\ UNCHANGED <<enable, output, started, rail, locals, uses>>

\* Seeded fault: the early return leaves the device's mutex locked.
FailLocked(t) ==
  /\ pc[t] = "setup"
  /\ pc' = [pc EXCEPT ![t] = "ending"]
  /\ UNCHANGED <<enable, hardware, rail, setup, locals, uses>>

\* The device does not respond: power() returns the error, the session ends.
SetUpFails(t) ==
  /\ pc[t] = "setup"
  /\ deviceMutex' = [deviceMutex EXCEPT ![device[t]] = NoTask]
  /\ pc' = [pc EXCEPT ![t] = "ending"]
  /\ UNCHANGED <<enable, hardware, rail, setUpActivation, locals, uses>>

\* Seeded fault: a batch does not keep the rail.
releaseUnlessInSession(t) ==
  IF held /\ sessions' = 0
  THEN /\ held' = FALSE
       /\ acquired' = [acquired EXCEPT ![RailHandle] = FALSE]
       /\ mutex' = t
       /\ pc' = [pc EXCEPT ![t] = "releasing"]
  ELSE /\ UNCHANGED <<held, acquired, mutex>>
       /\ pc' = [pc EXCEPT ![t] = "idle"]

\* Under mutex, which stays taken while the handle is released.
releaseIfUnused(t) ==
  IF held /\ sessions' = 0 /\ batches' = 0
  THEN /\ held' = FALSE
       /\ IF acquired[RailHandle]
          THEN /\ acquired' = [acquired EXCEPT ![RailHandle] = FALSE]
               /\ mutex' = t
               /\ pc' = [pc EXCEPT ![t] = "releasing"]
          ELSE /\ UNCHANGED <<acquired, mutex>>
               /\ pc' = [pc EXCEPT ![t] = "idle"]
  ELSE /\ UNCHANGED <<held, acquired, mutex>>
       /\ pc' = [pc EXCEPT ![t] = "idle"]

EndSession(t) ==
  /\ pc[t] \in {"powered", "ending"}
  /\ mutex = NoTask
  /\ sessions' = sessions - 1
  /\ UNCHANGED batches
  /\ releaseIfUnused(t)
  /\ UNCHANGED <<activeCount, activationCount, hardware, acquireMutex, setup,
                 locals, uses>>

Batch(t) ==
  /\ pc[t] = "idle"
  /\ ~ batching[t]
  /\ mutex = NoTask
  /\ uses < MaxUses
  /\ uses' = uses + 1
  /\ batches' = batches + 1
  /\ batching' = [batching EXCEPT ![t] = TRUE]
  /\ UNCHANGED <<enable, hardware, sessions, held, mutex, acquireMutex, setup, pc,
                 device, activation>>

\* Seeded fault: the Batch still refers to the rail after it ended.
EndBatchTwice(t) ==
  /\ pc[t] = "idle"
  /\ batching[t]
  /\ mutex = NoTask
  /\ batches' = batches - 1
  /\ UNCHANGED <<sessions, batching>>
  /\ releaseIfUnused(t)
  /\ UNCHANGED <<activeCount, activationCount, hardware, acquireMutex, setup,
                 device, activation, uses>>

EndBatch(t) ==
  /\ pc[t] = "idle"
  /\ batching[t]
  /\ mutex = NoTask
  /\ batches' = batches - 1
  /\ batching' = [batching EXCEPT ![t] = FALSE]
  /\ UNCHANGED sessions
  /\ releaseIfUnused(t)
  /\ UNCHANGED <<activeCount, activationCount, hardware, acquireMutex, setup,
                 device, activation, uses>>

RailUncounts(t) ==
  /\ pc[t] = "releasing"
  /\ handleReleased
  /\ mutex' = NoTask
  /\ pc' = [pc EXCEPT ![t] = "idle"]
  /\ UNCHANGED <<acquired, activationCount, sessions, batches, held, acquireMutex,
                 setup, locals, uses>>

-----------------------------------------------------------------------------
RailTask(t) ==
  \/ LockAcquire(t)
  \/ RailCounts(t)
  \/ BeginSession(t)
  \/ CheckSetUp(t)
  \/ SetUp(t)
  \/ SetUpFails(t)
  \/ EndSession(t)
  \/ EndBatch(t)
  \/ RailUncounts(t)

ClientTask(c) ==
  \/ ClientCounts(c)
  \/ ClientReady(c)
  \/ ClientRelease(c)
  \/ ClientUncounts(c)

Next ==
  \/ Settle
  \/ \E d \in Devices : StartUp(d)
  \/ \E c \in Clients : ClientAcquire(c) \/ ClientTask(c)
  \/ \E t \in RailTasks : CountSession(t) \/ Batch(t) \/ RailTask(t)

Fairness ==
  /\ WF_vars(Settle)
  /\ \A d \in Devices : WF_vars(StartUp(d))
  /\ \A c \in Clients : WF_vars(ClientTask(c))
  /\ \A t \in RailTasks : WF_vars(RailTask(t))

Spec == Init /\ [][Next]_vars
FairSpec == Spec /\ Fairness

-----------------------------------------------------------------------------
(* Properties *)

Powered == {"session", "setup", "powered", "ending"}

\* A session runs on a settled rail, in the very power-on it noted: nobody's
\* release cuts it short (SwitchedRail.hpp:183-197, 229-253).
SessionPowered ==
  \A t \in RailTasks :
    pc[t] \in Powered => output = "on" /\ activation[t] = activationCount

\* Who gets at a device finds it started up and set up, whatever turned the
\* rail off since the last time (SwitchedRail.hpp:345-354).
DeviceSetUp ==
  \A t \in RailTasks :
    pc[t] = "powered" => started[device[t]] /\ settings[device[t]]

\* A client whose acquire() returned finds the output settled until it releases
\* it (SharedEnable.hpp:28-30, 57).
ClientPowered ==
  \A c \in Clients : pc[c] = "using" => output = "on"

\* The output is off when nobody needs it, or a device on batteries would drain
\* them between two measurements (SwitchedRail.hpp:248-253, SharedEnable.hpp:258-264).
OffWhenUnused ==
  (\A t \in Tasks : pc[t] = "idle") /\ (\A t \in RailTasks : ~ batching[t])
    => output = "off"

\* The rail is on for whoever relies on it, with its device set up, and only as
\* long as somebody does.
RailSound == SessionPowered /\ DeviceSetUp /\ ClientPowered /\ OffWhenUnused

\* A batch keeps the rail from its first session to its end, so that a series
\* of reads shares one power-up (SwitchedRail.hpp:136-141).
KeptThroughBatch ==
  [][\A t \in RailTasks :
       batching[t] /\ batching'[t] /\ acquired[RailHandle]
         => acquired'[RailHandle]]_vars

\* power() returns, through everybody else's sessions and settle times.
PowerReturns ==
  \A t \in RailTasks : pc[t] = "counted" ~> pc[t] \in {"powered", "ending"}
=============================================================================
