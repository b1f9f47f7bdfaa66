------------------------------ MODULE AtChannel ------------------------------
(***************************************************************************)
(* AT commands over the modem's UART: the task that sends one command at a *)
(* time and waits for its result, the reader task that routes what the     *)
(* modem sends, and the modem, which answers commands in order, some of    *)
(* them after their caller has given up.                                   *)
(*                                                                         *)
(* Which lines are URCs is up to the driver.  A response is an information *)
(* line and a final result code.  Times are left out,                      *)
(* but for one assumption: unless SlowModem, what the modem is going to    *)
(* answer it answers before the channel stops expecting it: in the 15 s of *)
(* settle(), in the 100 ms after the CR that ends a command sent in part,  *)
(* and before the driver drops the input to probe, switch the baud rate or *)
(* reset the modem.                                                        *)
(***************************************************************************)
EXTENDS Integers, SequencesExt

CONSTANTS
  MaxCommands,     \* bound on the commands sent
  MaxEvents,       \* bound on URCs and restarts of the modem
  SlowModem        \* whether an answer may take longer than the channel waits for it

ASSUME ChannelAssumption ==
  /\ MaxCommands \in Nat \ {0}
  /\ MaxEvents \in Nat
  /\ SlowModem \in BOOLEAN

VARIABLES
  caller,          \* where command() is
  sent,            \* commands so far; the last one is the caller's
  pending,         \* the command in flight, 0 if none
  collected,       \* the commands whose lines its collector has taken
  complete,        \* a final result code was among them
  responseDone,    \* the semaphore
  written,         \* the whole command went out
  partialWrite,    \* a command before it only went out in part
  owed,            \* final results still to come
  answers,         \* history: per command, what its response was made of
  modem,           \* commands the modem has yet to answer
  line,            \* a line that has no CR yet: the command, or 0
  wire,            \* lines on their way from the modem
  modemEvents      \* counted for the bound

callerVars == <<caller, sent, written, partialWrite, answers>>
channelVars == <<pending, collected, complete, responseDone, owed>>
lineVars == <<modem, line, wire, modemEvents>>
channelState == <<callerVars, channelVars, lineVars>>

Commands == 1 .. MaxCommands
Lines == [kind : {"info", "final"}, of : Commands] \cup [kind : {"urc"}]

ChannelTypeOK ==
  /\ caller \in {"idle", "ending", "flushing", "settling", "writing", "waiting", "done"}
  /\ sent \in 0 .. MaxCommands
  /\ pending \in 0 .. MaxCommands
  /\ collected \subseteq Commands
  /\ {complete, responseDone, written, partialWrite} \subseteq BOOLEAN
  /\ owed \in Nat
  /\ answers \in Seq([of : SUBSET Commands, complete : BOOLEAN])
  /\ modem \in Seq(Commands)
  /\ line \in 0 .. MaxCommands
  /\ wire \in Seq(Lines)
  /\ modemEvents \in 0 .. MaxEvents

ChannelInit ==
  /\ caller = "idle" /\ sent = 0 /\ written = FALSE /\ partialWrite = FALSE /\ answers = << >>
  /\ pending = 0 /\ collected = {} /\ complete = FALSE /\ responseDone = FALSE /\ owed = 0
  /\ modem = << >> /\ line = 0 /\ wire = << >> /\ modemEvents = 0

-----------------------------------------------------------------------------
(* The modem.                                                              *)

Answer ==
  /\ modem # << >>
  /\ modem' = Tail(modem)
  /\ wire' = Append(Append(wire, [kind |-> "info", of |-> Head(modem)]), [kind |-> "final", of |-> Head(modem)])
  /\ UNCHANGED <<callerVars, channelVars, line, modemEvents>>

ModemEvent ==
  /\ modemEvents < MaxEvents
  /\ modemEvents' = modemEvents + 1
  /\ \/ wire' = Append(wire, [kind |-> "urc"]) /\ UNCHANGED <<modem, line>>
     \/ modem' = << >> /\ line' = 0 /\ UNCHANGED wire
  /\ UNCHANGED <<callerVars, channelVars>>

\* Nothing the channel could wait for is still to come.
GotAnswer == \A i \in DOMAIN wire : wire[i].kind = "urc"
MayGiveUp == SlowModem \/ (modem = << >> /\ GotAnswer)

-----------------------------------------------------------------------------
(* The reader task.                                                        *)

\* Lines of the response go to the collector; between commands, a final result code is one that
\* was owed.  What goes to the URC handler changes nothing here.
route ==
  /\ wire # << >>
  /\ wire' = Tail(wire)
  /\ LET received == Head(wire)
         final == received.kind = "final"
     IN IF pending # 0 /\ received.kind # "urc"
        THEN /\ collected' = collected \cup {received.of}
             /\ complete' = (complete \/ final)
             /\ responseDone' = (responseDone \/ final)
             /\ UNCHANGED owed
        ELSE /\ owed' = IF owed > 0 /\ final THEN owed - 1 ELSE owed
             /\ UNCHANGED <<collected, complete, responseDone>>
  /\ UNCHANGED <<callerVars, pending, modem, line, modemEvents>>

-----------------------------------------------------------------------------
(* command().                                                              *)

Command ==
  /\ caller = "idle"
  /\ sent < MaxCommands
  /\ sent' = sent + 1
  /\ caller' = IF partialWrite THEN "ending" ELSE "settling"
  /\ UNCHANGED <<written, partialWrite, answers, channelVars, lineVars>>

\* A CR ends the line that went out in part, unless the modem still takes no data.
EndPartialLine ==
  /\ caller = "ending"
  /\ partialWrite' = FALSE
  /\ \/ /\ modem' = IF line = 0 THEN modem ELSE Append(modem, line)
        /\ line' = 0
     \/ UNCHANGED <<modem, line>>
  /\ caller' = "flushing"
  /\ UNCHANGED <<sent, written, answers, channelVars, wire, modemEvents>>

\* After that CR, and by the driver between two commands.
discardInput ==
  /\ caller \in {"flushing", "idle"}
  /\ SlowModem \/ modem = << >>
  /\ wire' = << >>
  /\ owed' = 0
  /\ caller' = IF caller = "idle" THEN "idle" ELSE "settling"
  /\ UNCHANGED <<sent, written, partialWrite, answers, pending, collected, complete, responseDone,
                 modem, line, modemEvents>>

\* For contrast: the next command does not wait for what is owed.
settleAtOnce ==
  /\ caller = "settling"
  /\ owed' = 0
  /\ pending' = sent
  /\ collected' = {}
  /\ complete' = FALSE
  /\ responseDone' = FALSE
  /\ caller' = "writing"
  /\ UNCHANGED <<sent, written, partialWrite, answers, lineVars>>

settle ==
  /\ caller = "settling"
  /\ owed = 0 \/ MayGiveUp
  /\ owed' = 0
  /\ pending' = sent
  /\ collected' = {}
  /\ complete' = FALSE
  /\ responseDone' = FALSE
  /\ caller' = "writing"
  /\ UNCHANGED <<sent, written, partialWrite, answers, lineVars>>

\* The modem takes the whole command, or only part of it before the deadline.  What went out
\* before it without a CR makes one line with it, which has one answer.
write ==
  /\ caller = "writing"
  /\ \/ /\ written' = TRUE
        /\ modem' = Append(modem, sent)
        /\ line' = 0
        /\ caller' = "waiting"
        /\ UNCHANGED partialWrite
     \/ /\ written' = FALSE
        /\ partialWrite' = TRUE
        /\ line' = sent
        /\ caller' = "done"
        /\ UNCHANGED modem
  /\ UNCHANGED <<sent, answers, channelVars, wire, modemEvents>>

\* The semaphore was given, or the timeout has passed.
awaitResponse ==
  /\ caller = "waiting"
  /\ caller' = "done"
  /\ responseDone' = FALSE
  /\ UNCHANGED <<sent, written, partialWrite, answers, pending, collected, complete, owed, lineVars>>

\* Under the lock: the result may have come after the wait ended.
takeResponse ==
  /\ caller = "done"
  /\ answers' = Append(answers, [of |-> collected, complete |-> complete])
  /\ pending' = 0
  /\ owed' = IF written /\ ~complete THEN owed + 1 ELSE owed
  /\ caller' = "idle"
  /\ UNCHANGED <<sent, written, partialWrite, collected, complete, responseDone, lineVars>>

CallerStep == Command \/ EndPartialLine \/ discardInput \/ settle \/ write \/ awaitResponse \/ takeResponse
ChannelNext == CallerStep \/ route \/ Answer \/ ModemEvent

ChannelFairness == WF_channelState(CallerStep) /\ WF_channelState(route) /\ WF_channelState(Answer)
ChannelSpec == ChannelInit /\ [][ChannelNext]_channelState /\ ChannelFairness

-----------------------------------------------------------------------------
(* Properties.                                                             *)

\* A late result isn't taken for the next command's own (AtChannel.hpp:93-94), as long as the modem
\* answers while the channel waits for it: also after timeouts, commands that only went out in
\* part, restarts of the modem, and URCs in between.
OwnAnswer == ~SlowModem => \A i \in DOMAIN answers : answers[i].of \subseteq {i}

Finals == {i \in DOMAIN wire : wire[i].kind = "final"}

\* While no command is in flight, no more results are owed than are on their way, unless the modem
\* restarted: the next command does not wait in vain.
NothingOwedInVain ==
  pending = 0 /\ modemEvents = 0 => owed <= Len(modem) + Cardinality(Finals)

==============================================================================
