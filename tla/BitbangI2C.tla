----------------------------- MODULE BitbangI2C ------------------------------
(***************************************************************************)
(* The software I2C master, as the operations that it makes on the two     *)
(* lines, and the transactions of the Spadefoot Toad's transport, with a   *)
(* slave that samples the lines, acknowledges or not, and may stretch the  *)
(* clock within a byte for as long as it likes.                            *)
(***************************************************************************)
EXTENDS Naturals, Sequences

CONSTANTS
  Bits,             \* bits of a byte; the first byte's last bit tells a read
  MaxTransactions   \* bound on the transactions

ASSUME BitbangAssumption == Bits \in Nat \ {0, 1} /\ MaxTransactions \in Nat

VARIABLES
  ops,        \* what the master is yet to do
  lines,      \* the lines as the master drives them; 1 is released
  byte,       \* bits of the byte that it reads
  outcome,    \* of the transaction
  sent, read, \* bytes of the transaction so far
  slave,      \* see SlaveInit
  transactions

bitbangVars == <<ops, lines, byte, outcome, sent, read, slave, transactions>>

\* Its role, the levels that it drives, the bits so far, what the next byte is, and the bytes that it has
\* heard and told.
SlaveInit == [role |-> "off", sda |-> 1, scl |-> 1, bits |-> <<>>, next |-> "data", heard |-> <<>>, told |-> <<>>]

Low(a, b) == IF a = 0 \/ b = 0 THEN 0 ELSE 1
Level(l, s) == [sda |-> Low(l.sda, s.sda), scl |-> Low(l.scl, s.scl)]

BitbangTypeOK ==
  /\ lines \in [sda : 0..1, scl : 0..1] /\ outcome \in {"none", "running", "done", "failed"}
  /\ slave.role \in {"off", "listen", "ack", "tell", "told"}

BitbangInit ==
  /\ ops = <<>> /\ lines = [sda |-> 1, scl |-> 1] /\ byte = <<>> /\ outcome = "none"
  /\ sent = <<>> /\ read = <<>> /\ slave = SlaveInit /\ transactions = 0

-----------------------------------------------------------------------------
(* What the master does on the lines: [drive, to], or something else.      *)

Sda(v) == [do |-> "sda", to |-> v]
Scl(v) == [do |-> "scl", to |-> v]
Do(what) == [do |-> what, to |-> 0]

start == <<Sda(1), Scl(1), Sda(0), Scl(0)>>
repeatedStart == <<Sda(1), Scl(1), Sda(0), Scl(0)>>
stop == <<Sda(0), Scl(1), Sda(1)>>

\* SCL is released, and the master waits for the slave to release it too.
sclRelease == <<Scl(1), Do("wait")>>

\* The operations of each bit after those of the one before.
writeByteGetAck(bits) ==
  [i \in 1..4 * Bits |-> (<<Sda(bits[((i - 1) \div 4) + 1])>> \o sclRelease \o <<Scl(0)>>)[((i - 1) % 4) + 1]]
  \o <<Sda(1)>> \o sclRelease \o <<Do("ack"), Scl(0)>>

readByteAndAck(nack) ==
  [i \in 1..5 * Bits |-> (<<Sda(1)>> \o sclRelease \o <<Do("bit"), Scl(0)>>)[((i - 1) % 5) + 1]]
  \o <<Sda(IF nack THEN 1 ELSE 0)>> \o sclRelease \o <<Scl(0), Sda(1)>>

Address(reading) == [i \in 1..Bits |-> IF i < Bits THEN i % 2 ELSE reading]

writeByteExpectAck(bits) == writeByteGetAck(bits)
beginCommand(cmd) == start \o writeByteExpectAck(Address(0)) \o writeByteExpectAck(cmd)
beginRead(cmd) == beginCommand(cmd) \o repeatedStart \o writeByteExpectAck(Address(1))
writeByte(cmd) == beginCommand(cmd) \o stop
readBytes(cmd, n) == beginRead(cmd) \o (IF n = 2 THEN readByteAndAck(FALSE) ELSE <<>>) \o readByteAndAck(TRUE) \o stop

-----------------------------------------------------------------------------
(* The slave, by the edges that it sees.                                   *)

Tells(s, bits) == [s EXCEPT !.role = "tell", !.bits = bits, !.told = Append(@, bits), !.sda = bits[1]]

\* A read is told by the last bit of the first byte after a START.
Falls(s) ==
  CASE s.role = "listen" /\ Len(s.bits) = Bits ->
         {[s EXCEPT !.role = "ack", !.sda = 0, !.heard = Append(@, s.bits)], [s EXCEPT !.role = "off"]}
    [] s.role = "ack" /\ s.next = "address" /\ s.bits[Bits] = 1 ->
         {Tells([s EXCEPT !.next = "data"], bits) : bits \in [1..Bits -> 0..1]}
    [] s.role = "ack" /\ ~(s.next = "address" /\ s.bits[Bits] = 1) ->
         {[s EXCEPT !.role = "listen", !.next = "data", !.sda = 1, !.bits = <<>>]}
    [] s.role = "tell" /\ Len(s.bits) > 1 -> {[s EXCEPT !.bits = Tail(@), !.sda = s.bits[2]]}
    [] s.role = "tell" /\ Len(s.bits) = 1 -> {[s EXCEPT !.role = "told", !.bits = <<>>, !.sda = 1]}
    [] s.role = "told" /\ s.bits = <<0>> -> {Tells(s, bits) : bits \in [1..Bits -> 0..1]}
    [] s.role = "told" /\ s.bits # <<0>> -> {[s EXCEPT !.role = "off"]}
    [] OTHER -> {s}

Rises(s, sda) == IF s.role \in {"listen", "told"} THEN [s EXCEPT !.bits = Append(@, sda)] ELSE s

\* What it becomes when the lines go from one level to another.
Sees(s, from, to) ==
  CASE from.scl = 1 /\ to.scl = 1 /\ from.sda = 1 /\ to.sda = 0 ->
         {[s EXCEPT !.role = "listen", !.next = "address", !.bits = <<>>]}
    [] from.scl = 1 /\ to.scl = 1 /\ from.sda = 0 /\ to.sda = 1 -> {[s EXCEPT !.role = "off", !.bits = <<>>]}
    [] from.scl = 0 /\ to.scl = 1 -> {Rises(s, to.sda)}
    [] from.scl = 1 /\ to.scl = 0 -> Falls(s)
    [] OTHER -> {s}

\* It stretches the clock within bytes only; START and STOP do not wait for it.
Stretch ==
  /\ lines.scl = 0 /\ slave.scl = 1 /\ slave.role # "off"
  /\ \E i \in DOMAIN ops : ops[i].do = "wait" /\ \A j \in 1..(i - 2) : ops[j] # Scl(1)
  /\ slave' = [slave EXCEPT !.scl = 0]
  /\ UNCHANGED <<ops, lines, byte, outcome, sent, read, transactions>>

LetGo ==
  /\ slave.scl = 0
  /\ LET free == [slave EXCEPT !.scl = 1] IN slave' \in Sees(free, Level(lines, slave), Level(lines, free))
  /\ UNCHANGED <<ops, lines, byte, outcome, sent, read, transactions>>

-----------------------------------------------------------------------------

\* A transaction, with a slave that has let go of both lines; the master does not look.
Transact ==
  /\ ops = <<>> /\ slave.scl = 1 /\ slave.sda = 1 /\ transactions < MaxTransactions
  /\ \E cmd \in [1..Bits -> 0..1] :
       \/ ops' = writeByte(cmd) /\ sent' = <<Address(0), cmd>>
       \/ \E n \in 1..2 : ops' = readBytes(cmd, n) /\ sent' = <<Address(0), cmd, Address(1)>>
  /\ outcome' = "running" /\ byte' = <<>> /\ read' = <<>>
  /\ slave' = [slave EXCEPT !.heard = <<>>, !.told = <<>>]
  /\ transactions' = transactions + 1
  /\ UNCHANGED lines

Drive ==
  /\ ops # <<>> /\ Head(ops).do \in {"sda", "scl"}
  /\ lines' = [lines EXCEPT ![Head(ops).do] = Head(ops).to]
  /\ slave' \in Sees(slave, Level(lines, slave), Level(lines', slave))
  /\ ops' = Tail(ops)
  /\ outcome' = IF ops' = <<>> /\ outcome = "running" THEN "done" ELSE outcome
  /\ UNCHANGED <<byte, sent, read, transactions>>

\* A failure stops the bus.
GivesUp == ops' = stop /\ outcome' = "failed"

\* SCL has risen, or the wait for it times out.
Wait ==
  /\ ops # <<>> /\ Head(ops).do = "wait"
  /\ IF Level(lines, slave).scl = 1 THEN ops' = Tail(ops) /\ UNCHANGED outcome ELSE GivesUp
  /\ UNCHANGED <<lines, byte, sent, read, slave, transactions>>

\* An acknowledgement is a low SDA; a byte without one stops the bus, from where SCL is low again.
Acknowledge ==
  /\ ops # <<>> /\ Head(ops).do = "ack"
  /\ IF Level(lines, slave).sda = 0 THEN ops' = Tail(ops) /\ UNCHANGED outcome
     ELSE ops' = <<Scl(0)>> \o stop /\ outcome' = "failed"
  /\ UNCHANGED <<lines, byte, sent, read, slave, transactions>>

ReadBit ==
  /\ ops # <<>> /\ Head(ops).do = "bit"
  /\ LET bits == Append(byte, Level(lines, slave).sda) IN
     IF Len(bits) = Bits THEN read' = Append(read, bits) /\ byte' = <<>> ELSE byte' = bits /\ UNCHANGED read
  /\ ops' = Tail(ops)
  /\ UNCHANGED <<lines, outcome, sent, slave, transactions>>

BitbangNext == Transact \/ Drive \/ Wait \/ Acknowledge \/ ReadBit \/ Stretch \/ LetGo

BitbangSpec == BitbangInit /\ [][BitbangNext]_bitbangVars

-----------------------------------------------------------------------------
(* Properties.                                                             *)

\* What a transaction that succeeds has sent is what the slave has heard, and what it has read is what
\* the slave has told; whatever comes of it, the lines are released (BitbangI2C.hpp:99-161).
BytesExact ==
  ops = <<>> =>
    /\ lines = [sda |-> 1, scl |-> 1]
    /\ outcome = "done" => slave.heard = sent /\ slave.told = read

=============================================================================
