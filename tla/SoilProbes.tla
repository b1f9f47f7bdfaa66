----------------------------- MODULE SoilProbes ------------------------------
(***************************************************************************)
(* The soil probes that answer on a serial link: ZTS sensors by Modbus RTU *)
(* on the RS485 bus, SMT100s in ASCII on either link.  Each reading opens  *)
(* a session, waits for the probe to start, asks, and closes it.           *)
(***************************************************************************)
EXTENDS SerialLinks, SequencesExt

VARIABLES
  todo,     \* what the session is yet to ask
  got,      \* the answers it has
  reading   \* of each probe: the answers of its last measurement, <<>> when it failed, and if some were late

probeVars == <<linkVars, todo, got, reading>>

\* A measurement, and what logIdentity() asks an SMT100.
Measurement(p) == IF p \in Modbus THEN <<"registers">> ELSE <<"moisture", "temperature">>
Questions(p) == {Measurement(p)} \cup IF p \in Modbus THEN {} ELSE {<<"version">>}
NotRead == [answers |-> <<>>, late |-> FALSE]

ProbesTypeOK ==
  /\ LinksTypeOK
  /\ \A p \in AllProbes : Len(reading[p].answers) \in {0, Len(Measurement(p))}

ProbesInit == LinksInit /\ todo = <<>> /\ got = <<>> /\ reading = [p \in AllProbes |-> NotRead]

-----------------------------------------------------------------------------
(* A session.                                                              *)

OpenSession(p, questions) ==
  /\ OpenRs485(p) \/ OpenMole(p)
  /\ todo' = questions /\ got' = <<>>
  /\ reading' = IF holder' = "none" /\ sessions' # sessions /\ questions = Measurement(p)
                THEN [reading EXCEPT ![p] = NotRead] ELSE reading

\* waitPoweredFor(), and what the probe sent meanwhile is discarded.
StartProbe ==
  /\ session = "open"
  /\ session' = "ready"
  /\ starting' = FALSE /\ rx' = <<>> /\ fetched' = <<>>
  /\ UNCHANGED <<bus, kept, holder, attached, chip, unsent, late, sessions, todo, got, reading>>

\* The request of query() or of readHoldingRegisters(), which flush first.
Ask ==
  /\ session = "ready" /\ todo # <<>>
  /\ session' = "asked"
  /\ IF bus = "rs485" THEN Rs485Write(Head(todo)) ELSE BridgeWrite(Head(todo))
  /\ UNCHANGED <<bus, kept, holder, attached, chip, starting, late, sessions, todo, got, reading>>

\* A time-out, an exception, an answer that is no good, or an access that failed.
ProbeFails ==
  /\ session \in {"open", "ready", "asked", "header"} /\ todo # <<>>
  /\ session' = "closing" /\ fetched' = <<>>
  /\ reading' = IF Head(todo) = "version" THEN reading ELSE [reading EXCEPT ![holder] = NotRead]
  /\ UNCHANGED <<bus, kept, holder, attached, chip, starting, rx, unsent, late, sessions, todo, got>>

Answered(answer) == todo' = Tail(todo) /\ got' = Append(got, answer)

-----------------------------------------------------------------------------
(* Modbus RTU: the header, then the rest by its length, and the CRC.       *)

\* For contrast: the address in the response is not looked at.
AnyHeader(part) == part.from \in Modbus /\ part.part = "start"

HeaderIsOurs(part) == part.from = holder /\ part.part = "start"

ReadHeader ==
  /\ holder \in Modbus /\ session = "asked"
  /\ Rs485Read
  /\ HeaderIsOurs(fetched'[1])
  /\ session' = "header"
  /\ UNCHANGED <<bus, kept, holder, attached, chip, starting, unsent, late, sessions, todo, got, reading>>

\* The CRC tells a rest that is not that of the header's response.
CrcMatches(header, rest) == rest.from = header.from /\ rest.part = "end"

ReadRegisters ==
  /\ session = "header"
  /\ Rs485Read
  /\ CrcMatches(fetched[1], fetched'[1])
  /\ session' = "ready"
  /\ Answered([from |-> fetched'[1].from, asks |-> fetched'[1].asks, whole |-> TRUE])
  /\ UNCHANGED <<bus, kept, holder, attached, chip, starting, unsent, late, sessions, reading>>

-----------------------------------------------------------------------------
(* The SMT100's lines carry neither an address nor what was asked.         *)

ReceiveLine ==
  /\ holder \notin Modbus /\ session = "asked"
  /\ IF bus = "rs485" THEN (\A i \in DOMAIN fetched : fetched[i].part # "end") /\ Rs485ReadUntil ELSE BridgeReadUntil
  /\ UNCHANGED <<bus, kept, holder, session, attached, chip, starting, unsent, late, sessions, todo, got, reading>>

\* The terminator ends a line; the rest may be the start of the next one.
TakeLine(i) == fetched[i].part = "end" /\ \A j \in 1..(i - 1) : fetched[j].part # "end"

\* Noise and Modbus frames are no numbers; the end of a number is one.
ParseValue(line) == \A i \in DOMAIN line : line[i].from \notin Modbus \cup {"noise"}

QueryValue ==
  /\ holder \notin Modbus /\ session = "asked"
  /\ \E i \in DOMAIN fetched :
       LET line == SubSeq(fetched, 1, i)
           last == Last(line) IN
       /\ TakeLine(i)
       /\ Head(todo) = "version" \/ ParseValue(line)
       /\ fetched' = SubSeq(fetched, i + 1, Len(fetched))
       /\ Answered([from |-> last.from, asks |-> last.asks, whole |-> line = Halves(last.from, last.asks)])
  /\ session' = "ready"
  /\ UNCHANGED <<bus, kept, holder, attached, chip, starting, rx, unsent, late, sessions, reading>>

-----------------------------------------------------------------------------

\* The measurement's value, once every question has its answer.
ProbeMeasured ==
  /\ session = "ready" /\ todo = <<>>
  /\ session' = "closing"
  /\ reading' = IF Len(got) = Len(Measurement(holder))
                THEN [reading EXCEPT ![holder] = [answers |-> got, late |-> late]] ELSE reading
  /\ UNCHANGED <<bus, kept, holder, attached, chip, starting, lineVars, late, sessions, todo, got>>

SameSession == UNCHANGED <<todo, got, reading>>

ProbesNext ==
  \/ \E p \in Probes : \E questions \in Questions(p) : OpenSession(p, questions)
  \/ StartProbe \/ Ask \/ ProbeFails \/ ReadHeader \/ ReadRegisters \/ ReceiveLine \/ QueryValue \/ ProbeMeasured
  \/ (BatchStarts \/ BatchEnds \/ AttachPins \/ DetachPins \/ ReleaseRs485 \/ CloseMole \/ Babble) /\ SameSession
  \/ (\E p \in Probes : Deliver(p)) /\ SameSession

ProbesSpec == ProbesInit /\ [][ProbesNext]_probeVars

-----------------------------------------------------------------------------
(* Properties.                                                             *)

\* What a sensor reports are whole answers of its own probe to what was asked: by the address for a
\* ZTS sensor, and for an SMT100, whose answers name neither, unless its probes have kept their power
\* since an answer that came too late (ModbusRtu.hpp:86, Smt100Protocol.hpp:109-114).
OwnAnswers ==
  \A p \in AllProbes : LET r == reading[p] IN
    r.answers # <<>> /\ (p \in Modbus \/ ~r.late) =>
      \A i \in DOMAIN r.answers : r.answers[i] = [from |-> p, asks |-> Measurement(p)[i], whole |-> TRUE]

\* The bus's pins never feed a transceiver that is off (Rs485Bus.hpp:213, 85).
NotBackPowered == attached => Powered

\* With no session, a board that stays on has its probes off and its UARTs asleep, unless an access
\* to it has failed (MoleCricket.hpp:180-195).
BridgeAtRest == holder = "none" /\ chip.ready /\ ~chip.failed => ~chip.supply /\ chip.awake = {}

=============================================================================
