----------------------------- MODULE SerialLinks -----------------------------
(***************************************************************************)
(* The serial links of soil probes: the RS485 bus that sensors share, and  *)
(* the Mole Cricket, a board with a bridge from I2C to two UARTs.  Either  *)
(* gives out one session at a time, and a session keeps the rail on.       *)
(*                                                                         *)
(* What a probe sends is abstracted to the two ends of each answer.        *)
(***************************************************************************)
EXTENDS Naturals, Sequences

CONSTANT MaxSessions  \* bound on the sessions

ASSUME LinksAssumption == MaxSessions \in Nat

VARIABLES
  bus,       \* the hardware of this behaviour: "rs485" or "mole"
  kept,      \* a telemetry batch keeps the rail on
  holder,    \* the probe whose session is open, or "none"
  session,   \* its step
  attached,  \* the pins of the RS485 bus are attached to its transceiver
  chip,      \* the bridge, see Unpowered
  starting,  \* the probes have had power for less than their start-up time
  rx,        \* received by the UART
  fetched,   \* read from there, and not returned yet
  unsent,    \* what each probe is yet to send
  late,      \* history: a session ended before its answer came, and the probes have kept their power
  sessions   \* sessions so far

lineVars == <<rx, fetched, unsent>>
linkVars == <<bus, kept, holder, session, attached, chip, starting, lineVars, late, sessions>>

Modbus == {"zts1", "zts2"}
Probes == IF bus = "rs485" THEN Modbus \cup {"smt"} ELSE {"a", "b"}
AllProbes == Modbus \cup {"smt", "a", "b"}
Noise == [from |-> "noise", asks |-> "nothing", part |-> "start"]
Halves(p, asks) == <<[from |-> p, asks |-> asks, part |-> "start"], [from |-> p, asks |-> asks, part |-> "end"]>>

\* The bridge without power: it is to be initialised, its outputs float, and the probes' supply is off.
Unpowered == [ready |-> FALSE, supply |-> FALSE, awake |-> {}, failed |-> FALSE]
Initialized == [Unpowered EXCEPT !.ready = TRUE]

Powered == kept \/ holder # "none"
NothingOwed == [p \in AllProbes |-> <<>>]

LinksTypeOK ==
  /\ bus \in {"rs485", "mole"} /\ {kept, attached, starting, late} \subseteq BOOLEAN
  /\ holder \in Probes \cup {"none"}
  /\ session \in {"idle", "powered", "open", "ready", "asked", "header", "closing", "detached"}
  /\ chip \in [ready : BOOLEAN, supply : BOOLEAN, awake : SUBSET AllProbes, failed : BOOLEAN]
  /\ sessions \in 0..MaxSessions

\* Rs485Bus::create() detaches the pins; the bridge is initialised when the board first has power.
LinksInit ==
  /\ bus \in {"rs485", "mole"} /\ kept = FALSE /\ holder = "none" /\ session = "idle"
  /\ attached = FALSE /\ chip = Unpowered /\ starting = TRUE
  /\ rx = <<>> /\ fetched = <<>> /\ unsent = NothingOwed /\ late = FALSE /\ sessions = 0

-----------------------------------------------------------------------------
(* The rail: off when neither a session nor a batch needs it.              *)

ComesOn == starting' = IF Powered \/ bus = "mole" THEN starting ELSE TRUE

\* Without power the probes forget what they were asked.
RailReleased(stays) ==
  /\ chip' = IF stays THEN chip ELSE Unpowered
  /\ unsent' = IF stays THEN unsent ELSE NothingOwed
  /\ late' = (stays /\ (late \/ unsent # NothingOwed))

BatchStarts ==
  /\ ~kept
  /\ kept' = TRUE
  /\ ComesOn
  /\ UNCHANGED <<bus, holder, session, attached, chip, lineVars, late, sessions>>

BatchEnds ==
  /\ kept
  /\ kept' = FALSE
  /\ RailReleased(holder # "none")
  /\ UNCHANGED <<bus, holder, session, attached, starting, rx, fetched, sessions>>

-----------------------------------------------------------------------------
(* The RS485 bus.                                                          *)

\* open(): under the lock, the rail first.
OpenRs485(p) ==
  /\ bus = "rs485" /\ holder = "none" /\ sessions < MaxSessions
  /\ holder' = p /\ session' = "powered" /\ sessions' = sessions + 1
  /\ ComesOn
  /\ UNCHANGED <<bus, kept, attached, chip, lineVars, late>>

\* Then the pins; a failure leaves it to the session's destructor.
AttachPins ==
  /\ bus = "rs485" /\ session = "powered"
  /\ \/ attached' = TRUE /\ rx' = <<>> /\ session' = "open"
     \/ attached' \in BOOLEAN /\ session' = "closing" /\ UNCHANGED rx
  /\ UNCHANGED <<bus, kept, holder, chip, starting, fetched, unsent, late, sessions>>

\* ~Session(): "Detaches the pins before the members release the rail".
DetachPins ==
  /\ bus = "rs485" /\ session = "closing"
  /\ attached' = FALSE /\ session' = "detached" /\ fetched' = <<>>
  /\ UNCHANGED <<bus, kept, holder, chip, starting, rx, unsent, late, sessions>>

ReleaseRs485 ==
  /\ session = "detached"
  /\ holder' = "none" /\ session' = "idle"
  /\ RailReleased(kept)
  /\ UNCHANGED <<bus, kept, attached, starting, rx, fetched, sessions>>

\* What was received while the request went out is flushed.
Rs485Write(asks) ==
  /\ rx' = <<>> /\ fetched' = <<>>
  /\ \E heard \in BOOLEAN :
       unsent' = IF heard THEN [unsent EXCEPT ![holder] = @ \o Halves(holder, asks)] ELSE unsent

\* read() returns as much as was asked for, readUntil() takes one character at a time.
Rs485Read == rx # <<>> /\ fetched' = <<Head(rx)>> /\ rx' = Tail(rx)
Rs485ReadUntil == rx # <<>> /\ fetched' = Append(fetched, Head(rx)) /\ rx' = Tail(rx)

-----------------------------------------------------------------------------
(* The Mole Cricket.                                                       *)

\* open(): power, which initialises the bridge after the rail was off, wake the UART, reset its FIFOs,
\* then the probes' supply.  Any access may fail, and open() returns with what it has done.
OpenMole(p) ==
  LET up == IF chip.ready THEN chip ELSE Initialized
      awake == [up EXCEPT !.awake = @ \cup {p}] IN
  /\ bus = "mole" /\ holder = "none" /\ sessions < MaxSessions
  /\ sessions' = sessions + 1
  /\ \/ /\ chip' = [awake EXCEPT !.supply = TRUE]
        /\ holder' = p /\ session' = "open" /\ rx' = <<>> /\ fetched' = <<>>
        /\ starting' = (starting \/ ~chip.supply)
     \/ /\ chip' \in IF kept THEN {[c EXCEPT !.failed = TRUE] : c \in {chip, up, awake}} ELSE {Unpowered}
        /\ UNCHANGED <<holder, session, rx, fetched, starting>>
  /\ UNCHANGED <<bus, kept, attached, unsent, late>>

\* powerDown(): the probes' supply off, flush, and put the UART to sleep, whichever of these fail.  A
\* probe that loses power may leave junk, and a UART does not sleep while it holds data.
PowerDown ==
  \E failed \in SUBSET {"supply", "flush", "sleep"}, junk \in {<<>>, <<Noise>>} :
    LET left == IF "flush" \in failed THEN rx \o junk ELSE <<>>
        down == [chip EXCEPT !.supply = "supply" \in failed,
                             !.awake = IF "sleep" \in failed \/ left # <<>> THEN @ ELSE @ \ {holder},
                             !.failed = @ \/ failed # {}] IN
    /\ rx' = left /\ fetched' = <<>>
    /\ chip' = IF kept THEN down ELSE Unpowered
    /\ IF kept /\ down.supply
       THEN unsent' = unsent /\ late' = (late \/ unsent # NothingOwed) /\ UNCHANGED starting
       ELSE unsent' = NothingOwed /\ late' = FALSE /\ starting' = TRUE

\* ~Session(), with the lock still held.
CloseMole ==
  /\ bus = "mole" /\ session = "closing"
  /\ PowerDown
  /\ holder' = "none" /\ session' = "idle"
  /\ UNCHANGED <<bus, kept, attached, sessions>>

\* The request goes to the TX FIFO; what has been received since the flush stays.
BridgeWrite(asks) ==
  /\ rx' = <<>> /\ fetched' = <<>>
  /\ \E heard \in BOOLEAN :
       unsent' = IF heard THEN [unsent EXCEPT ![holder] = @ \o Halves(holder, asks)] ELSE unsent

\* readUntil() takes all that the FIFO holds.
BridgeReadUntil == rx # <<>> /\ fetched' = fetched \o rx /\ rx' = <<>>

-----------------------------------------------------------------------------
(* The probes.                                                             *)

HasPower(p) == IF bus = "rs485" THEN Powered ELSE chip.supply

\* A detached pin and a FIFO that is about to be reset lose what they receive.
Deliver(p) ==
  /\ unsent[p] # <<>> /\ HasPower(p)
  /\ unsent' = [unsent EXCEPT ![p] = Tail(@)]
  /\ rx' = IF IF bus = "rs485" THEN attached ELSE holder = p THEN Append(rx, Head(unsent[p])) ELSE rx
  /\ UNCHANGED <<bus, kept, holder, session, attached, chip, starting, fetched, late, sessions>>

\* A probe that starts up sends something.
Babble ==
  /\ starting /\ session = "open" /\ rx = <<>>
  /\ rx' = <<Noise>>
  /\ UNCHANGED <<bus, kept, holder, session, attached, chip, starting, fetched, unsent, late, sessions>>

=============================================================================
