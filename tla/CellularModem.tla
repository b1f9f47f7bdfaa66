---------------------------- MODULE CellularModem ----------------------------
(***************************************************************************)
(* The parts of the modem's driver for TLC, one at a time: "subject" is    *)
(* chosen at the start, and the other parts rest.                          *)
(***************************************************************************)
EXTENDS AtChannel, ModemUartPower, Nrf9151Sockets, RrcTime

VARIABLE subject

modemPartsVars == <<channelState, powerVars, socketVars, rrcVars, subject>>

ModemTypeOK == ChannelTypeOK /\ PowerTypeOK /\ SocketTypeOK /\ RrcTypeOK

ModemInit ==
  /\ subject \in {"channel", "uart", "sockets", "radio"}
  /\ ChannelInit /\ PowerInit /\ SocketInit
  /\ IF subject = "radio" THEN RrcInit ELSE RrcInit /\ ~radio

ChannelPart == subject = "channel" /\ ChannelNext /\ UNCHANGED <<powerVars, socketVars, rrcVars, subject>>
UartPart == subject = "uart" /\ PowerNext /\ UNCHANGED <<channelState, socketVars, rrcVars, subject>>
SocketPart == subject = "sockets" /\ SocketNext /\ UNCHANGED <<channelState, powerVars, rrcVars, subject>>
RadioPart == subject = "radio" /\ RrcNext /\ UNCHANGED <<channelState, powerVars, socketVars, subject>>

ModemNext == ChannelPart \/ UartPart \/ SocketPart \/ RadioPart

\* The fairness of the part that is looked at.
ModemFairness ==
  /\ subject = "uart" => PowerFairness
  /\ subject = "sockets" => SocketFairness

ModemSpec == ModemInit /\ [][ModemNext]_modemPartsVars /\ ModemFairness

-----------------------------------------------------------------------------
(* What AtChannel, ModemUartPower and Nrf9151Sockets state, by part.       *)

\* A command gets its own answer, and the next does not wait for one that will not come.
AnswersSound == OwnAnswer /\ NothingOwedInVain

\* The modem's UART is on for those who use it, goes on for a ring, and goes off when nobody needs it.
UartServes == subject = "uart" => ([]UsedUartIsOn /\ RingAnswered /\ UartSleeps)

\* Commands reach the connection they are for, and no connection is left behind.
HandlesKept == OwnConnection /\ NoneLeft

\* Lost connections are given up, and a modem that restarted is set up again.
SocketsRecover == subject = "sockets" => (GoneNoticed /\ SetUpInTheEnd)

\* What is said on the channel, which socket is whose, and how long the radio is taken to be connected.
ModemSound == AnswersSound /\ HandlesKept /\ RrcCounted

\* The UART and the sockets come back for those who need them.
ModemServes == UartServes /\ SocketsRecover

==============================================================================
