---------------------------- MODULE Nrf9151Sockets ----------------------------
(***************************************************************************)
(* Connections over the modem: transports (MQTT's and the download's) that *)
(* open, poll and close sockets, the driver that finds a modem that        *)
(* restarted or does not answer and sets it up again, and the modem, which *)
(* reuses its handles and announces data and closed connections.           *)
(*                                                                         *)
(* One AT command and its answer is a step (module AtChannel has the       *)
(* round trip); it comes after every line the modem sent before it.  The   *)
(* modem boots at the default rate, and lines at another rate than the     *)
(* UART's get lost.  The device has booted and set the modem up once.      *)
(***************************************************************************)
EXTENDS Integers, SequencesExt, FiniteSetsExt

CONSTANTS
  Transports,
  Handles,                \* sockets the modem has
  UnansweredBeforeReset,
  MaxUpsets,              \* bound on how often the modem restarts or gets stuck
  None

VARIABLES
  modemState,      \* "up", "busy" (it may come back), or "gone" until it is reset
  modemRate, uartRate,
  setUp,           \* the modem has the settings of configureLocked()
  opened,          \* per handle: the connection the modem has on it, or None
  urcs,            \* lines on their way: "Ready", or an announcement
  upsets,
  mutex,           \* who holds commandMutex
  sockets,         \* the driver's open sockets
  restarted,
  unanswered,      \* unansweredCommands
  mayReset,        \* MIN_RESET_INTERVAL has passed
  unclosed,        \* history: a socket was given up that the modem, which did not answer, may still have
  givenUp,         \* history: nor when it was to be set up again
  op,              \* per transport: what it does
  socket, closedByPeer, dataSignal, moreWaiting,
  newHandle        \* the handle of the socket that mutex is opening

modemVars == <<modemState, modemRate, setUp, opened, urcs, upsets>>
driverVars == <<uartRate, mutex, sockets, restarted, unanswered, mayReset, unclosed, givenUp, newHandle>>
transportVars == <<op, socket, closedByPeer, dataSignal, moreWaiting>>
socketVars == <<modemVars, driverVars, transportVars>>

\* Socket ids are never used twice; of those that nothing refers to any more, one will do.
Ids == 1 .. 2 * Cardinality(Transports) + Cardinality(Handles)
Connections == [id : Ids \cup {None}, live : BOOLEAN, unread : BOOLEAN, drained : BOOLEAN, ended : BOOLEAN]
Announcements == [handle : Handles, event : {"data", "closed"}]

ASSUME SocketAssumption ==
  /\ IsFiniteSet(Transports) /\ IsFiniteSet(Handles)
  /\ UnansweredBeforeReset \in Nat \ {0} /\ MaxUpsets \in Nat
  /\ None \notin Handles \cup Transports \cup Connections \cup Ids \cup {"ntp"}
  /\ "ntp" \notin Transports

SocketTypeOK ==
  /\ modemState \in {"up", "busy", "gone"}
  /\ {modemRate, uartRate} \subseteq {"fast", "default"}
  /\ opened \in [Handles -> Connections \cup {None}]
  /\ urcs \in Seq(Announcements \cup [event : {"Ready"}])
  /\ sockets \subseteq [id : Ids, handle : Handles, by : Transports]
  /\ mutex \in Transports \cup {None, "ntp"}
  /\ {setUp, restarted, mayReset, unclosed, givenUp} \subseteq BOOLEAN
  /\ unanswered \in 0 .. UnansweredBeforeReset - 1
  /\ op \in [Transports -> {"none", "open", "connect", "finish", "poll", "receive", "check", "send", "close"}]
  /\ socket \in [Transports -> Ids \cup {None}]
  /\ {closedByPeer, dataSignal, moreWaiting} \subseteq [Transports -> BOOLEAN]
  /\ newHandle \in Handles \cup {None}
  /\ upsets \in 0 .. MaxUpsets

SocketInit ==
  /\ modemState = "up" /\ modemRate = "fast" /\ uartRate = "fast" /\ setUp = TRUE
  /\ opened = [h \in Handles |-> None] /\ urcs = << >> /\ upsets = 0
  /\ mutex = None /\ sockets = {} /\ restarted = FALSE /\ unanswered = 0 /\ mayReset = TRUE
  /\ unclosed = FALSE /\ givenUp = FALSE /\ newHandle = None
  /\ op = [t \in Transports |-> "none"] /\ socket = [t \in Transports |-> None]
  /\ closedByPeer = [t \in Transports |-> FALSE] /\ dataSignal = [t \in Transports |-> FALSE]
  /\ moreWaiting = [t \in Transports |-> FALSE]

-----------------------------------------------------------------------------
(* The modem and the peers.                                                *)

NothingOpen == [h \in Handles |-> None]

ModemUpset ==
  /\ upsets < MaxUpsets
  /\ upsets' = upsets + 1
  /\ \/ /\ modemState' = "up" /\ modemRate' = "default"
        /\ setUp' = FALSE /\ opened' = NothingOpen
        /\ urcs' = IF uartRate = "default" THEN Append(urcs, [event |-> "Ready"]) ELSE urcs
     \/ modemState' \in {"busy", "gone"} /\ UNCHANGED <<modemRate, setUp, opened, urcs>>
  /\ UNCHANGED <<driverVars, transportVars>>

ModemComesBack ==
  /\ modemState = "busy"
  /\ modemState' = "up"
  /\ UNCHANGED <<modemRate, setUp, opened, urcs, upsets, driverVars, transportVars>>

\* Announcements may get lost, and data is only announced again after a read found none.
PeerActs(h) ==
  /\ modemState = "up"
  /\ opened[h] # None
  /\ opened[h].live /\ ~opened[h].ended
  /\ \/ opened' = [opened EXCEPT ![h].unread = TRUE, ![h].drained = FALSE]
     \/ opened' = [opened EXCEPT ![h].ended = TRUE]
  /\ \/ UNCHANGED urcs
     \/ /\ opened[h].drained \/ opened'[h].ended
        /\ urcs' = Append(urcs, [handle |-> h, event |-> IF opened'[h].ended THEN "closed" ELSE "data"])
  /\ UNCHANGED <<modemState, modemRate, setUp, upsets, driverVars, transportVars>>

-----------------------------------------------------------------------------
(* The reader task.                                                        *)

dropAllSockets(all) ==
  /\ sockets' = {}
  /\ closedByPeer' = [t \in Transports |-> closedByPeer[t] \/ \E s \in all : s.by = t]
  /\ dataSignal' = [t \in Transports |-> dataSignal[t] \/ \E s \in all : s.by = t]

handleLine ==
  /\ urcs # << >>
  /\ urcs' = Tail(urcs)
  /\ IF Head(urcs).event = "Ready"
     THEN restarted' = TRUE /\ dropAllSockets(sockets)
     ELSE /\ \/ \E s \in sockets :
                  /\ s.handle = Head(urcs).handle
                  /\ dataSignal' = [dataSignal EXCEPT ![s.by] = TRUE]
                  /\ closedByPeer' = [closedByPeer EXCEPT ![s.by] = @ \/ Head(urcs).event = "closed"]
             \/ /\ \A s \in sockets : s.handle # Head(urcs).handle
                /\ UNCHANGED <<dataSignal, closedByPeer>>
          /\ UNCHANGED <<restarted, sockets>>
  /\ UNCHANGED <<modemState, modemRate, setUp, opened, upsets, uartRate, mutex, unanswered, mayReset,
                 unclosed, givenUp, newHandle, op, socket, moreWaiting>>

-----------------------------------------------------------------------------
(* Commands.  They leave linkVars as they are, or set the modem up again.  *)

linkVars == <<modemVars, uartRate, mayReset, restarted, unclosed>>
eventVars == <<closedByPeer, dataSignal>>

Hears == modemState = "up" /\ modemRate = uartRate
Answered == Hears /\ urcs = << >> /\ unanswered' = 0

\* nRESET is pulsed, the modem boots, and the UART goes to the default rate with it.
reset ==
  /\ modemState' = "up" /\ modemRate' = "default" /\ uartRate' = "default"
  /\ setUp' = FALSE /\ opened' = NothingOpen /\ urcs' = << >>
  /\ mayReset' = FALSE /\ unclosed' = FALSE
  /\ UNCHANGED upsets

\* A command times out; after several in a row a probe at both rates finds out why.  The sockets are
\* given up if nothing answers, also when the modem may not be reset and could still have them.
resetIfUnresponsive(known, closing) ==
  /\ ~Hears
  /\ unanswered' = (unanswered + 1) % UnansweredBeforeReset
  /\ \/ /\ unanswered' # 0 \/ (modemState = "up" /\ modemRate = "fast")
        /\ uartRate' = IF unanswered' = 0 THEN "fast" ELSE uartRate
        /\ sockets' = known /\ unclosed' = (unclosed \/ closing)
        /\ UNCHANGED <<modemVars, mayReset, restarted, eventVars>>
     \/ /\ unanswered' = 0 /\ modemState = "up" /\ modemRate = "default"
        /\ uartRate' = "default" /\ restarted' = TRUE /\ unclosed' = (unclosed \/ closing)
        /\ dropAllSockets(known)
        /\ UNCHANGED <<modemVars, mayReset>>
     \/ /\ unanswered' = 0 /\ modemState # "up" /\ mayReset
        /\ reset /\ restarted' = TRUE /\ dropAllSockets(known)
     \/ /\ unanswered' = 0 /\ modemState # "up" /\ ~mayReset
        /\ uartRate' = "fast" /\ unclosed' = (unclosed \/ closing \/ known # {})
        /\ dropAllSockets(known)
        /\ UNCHANGED <<modemVars, mayReset, restarted>>

MayResetAgain ==
  /\ ~mayReset
  /\ mayReset' = TRUE
  /\ UNCHANGED <<modemVars, uartRate, mutex, sockets, restarted, unanswered, unclosed, givenUp, newHandle, transportVars>>

\* startLocked(), which resets a modem that does not answer and may leave it at the default rate,
\* and configureLocked(), which closes every socket.
SetUpAgain ==
  /\ urcs = << >> \/ ~Hears
  /\ restarted' = FALSE
  /\ IF modemState = "up" \/ mayReset
     THEN /\ modemState' = "up"
          /\ modemRate' \in IF Hears /\ modemRate = "fast" THEN {"fast"} ELSE {"fast", "default"}
          /\ uartRate' = modemRate'
          /\ mayReset' = (mayReset /\ modemState = "up")
          /\ setUp' = TRUE /\ givenUp' = FALSE /\ unclosed' = FALSE /\ opened' = NothingOpen /\ urcs' = << >>
          /\ dropAllSockets(sockets)
          /\ UNCHANGED upsets
     ELSE /\ uartRate' = "default" /\ givenUp' = TRUE
          /\ UNCHANGED <<modemVars, mayReset, unclosed, sockets, eventVars>>

\* For contrast: the modem is only set up once.
leaveRestarted ==
  /\ restarted' = FALSE
  /\ UNCHANGED <<modemVars, uartRate, mayReset, unclosed, sockets, eventVars, givenUp>>

recoverIfRestarted ==
  \/ restarted /\ SetUpAgain
  \/ ~restarted /\ UNCHANGED <<linkVars, givenUp, sockets, eventVars>>

\* commandMutex is taken, and the modem set up again if need be.
TakeMutex(t) ==
  /\ mutex = None
  /\ op[t] \in {"open", "receive", "send"}
  /\ mutex' = t
  /\ recoverIfRestarted
  /\ UNCHANGED <<unanswered, newHandle, op, socket, moreWaiting>>

-----------------------------------------------------------------------------
(* openSocket() and closeSocket().                                         *)

\* connect() has closed a connection left over from before.
Connect(t) ==
  /\ op[t] = "none"
  /\ op' = [op EXCEPT ![t] = "open"]
  /\ moreWaiting' = [moreWaiting EXCEPT ![t] = FALSE]
  /\ closedByPeer' = [closedByPeer EXCEPT ![t] = FALSE]
  /\ dataSignal' = [dataSignal EXCEPT ![t] = FALSE]
  /\ UNCHANGED <<modemVars, driverVars, socket>>

NewConnection(id) == [id |-> id, live |-> FALSE, unread |-> FALSE, drained |-> TRUE, ended |-> FALSE]
Free == {h \in Handles : opened[h] = None}
FreshId ==
  CHOOSE i \in Ids : /\ \A s \in sockets : s.id # i
                     /\ \A t \in Transports : socket[t] # i
                     /\ \A h \in Handles : opened[h] # None => opened[h].id # i

CreateSocket(t) ==
  /\ mutex = t
  /\ op[t] = "open"
  /\ newHandle = None
  /\ \/ /\ Answered /\ Free # {}
        /\ newHandle' \in Free
        /\ opened' = [opened EXCEPT ![newHandle'] = NewConnection(FreshId)]
        /\ UNCHANGED <<modemState, modemRate, setUp, urcs, upsets, uartRate, mayReset, restarted, unclosed, sockets,
                       eventVars, mutex, op>>
     \/ /\ \/ Answered /\ Free = {} /\ UNCHANGED <<linkVars, sockets, eventVars>>
           \/ resetIfUnresponsive(sockets, FALSE)
        /\ mutex' = None
        /\ op' = [op EXCEPT ![t] = "none"]
        /\ UNCHANGED newHandle
  /\ UNCHANGED <<givenUp, socket, moreWaiting>>

\* The socket is known before it connects, as announcements can come as soon as it does.
RegisterSocket(t) ==
  /\ mutex = t
  /\ op[t] = "open"
  /\ newHandle # None
  /\ LET id == IF opened[newHandle] = None THEN FreshId ELSE opened[newHandle].id
     IN /\ sockets' = sockets \cup {[id |-> id, handle |-> newHandle, by |-> t]}
        /\ socket' = [socket EXCEPT ![t] = id]
  /\ op' = [op EXCEPT ![t] = "connect"]
  /\ UNCHANGED <<linkVars, mutex, unanswered, givenUp, newHandle, eventVars, moreWaiting>>

\* AT#XCONNECT; a socket that does not connect is closed, with commandMutex held.
ConnectSocket(t) ==
  /\ mutex = t
  /\ op[t] = "connect"
  /\ newHandle' = None
  /\ \/ /\ Answered /\ opened[newHandle] # None
        /\ opened' = [opened EXCEPT ![newHandle].live = TRUE]
        /\ op' = [op EXCEPT ![t] = "finish"]
        /\ mutex' = None
        /\ UNCHANGED <<modemState, modemRate, setUp, urcs, upsets, uartRate, mayReset, restarted, unclosed, sockets, eventVars>>
     \/ /\ \/ Answered /\ UNCHANGED <<linkVars, sockets, eventVars>>
           \/ resetIfUnresponsive(sockets, FALSE)
        /\ op' = [op EXCEPT ![t] = "close"]
        /\ UNCHANGED mutex
  /\ UNCHANGED <<givenUp, socket, moreWaiting>>

\* Whatever arrived while connecting is taken to be about a connection before this one; dataSignal
\* stays, so that the first poll looks.
FinishConnect(t) ==
  /\ op[t] = "finish"
  /\ closedByPeer' = [closedByPeer EXCEPT ![t] = FALSE]
  /\ op' = [op EXCEPT ![t] = "poll"]
  /\ UNCHANGED <<modemVars, driverVars, socket, dataSignal, moreWaiting>>

CloseSocket(t) ==
  /\ op[t] = "close"
  /\ mutex \in {None, t}
  /\ mutex' = None
  /\ op' = [op EXCEPT ![t] = "none"]
  /\ socket' = [socket EXCEPT ![t] = None]
  /\ LET mine == {s \in sockets : s.id = socket[t]}
     IN \/ mine = {} /\ UNCHANGED <<linkVars, sockets, eventVars, unanswered, givenUp>>
        \/ /\ mine # {} /\ Answered
           /\ sockets' = sockets \ mine
           /\ opened' = [h \in Handles |-> IF \E s \in mine : s.handle = h THEN None ELSE opened[h]]
           /\ UNCHANGED <<modemState, modemRate, setUp, urcs, upsets, uartRate, mayReset, restarted, unclosed, eventVars, givenUp>>
        \/ mine # {} /\ resetIfUnresponsive(sockets \ mine, TRUE) /\ UNCHANGED givenUp
  /\ UNCHANGED <<newHandle, moreWaiting>>

-----------------------------------------------------------------------------
(* A connected transport.                                                  *)

\* shouldReceive(): the last read found data, an event came, or it is time for a poll.
ShouldReceive(t) ==
  /\ op[t] = "poll"
  /\ op' = [op EXCEPT ![t] = "receive"]
  /\ dataSignal' = [dataSignal EXCEPT ![t] = FALSE]
  /\ UNCHANGED <<modemVars, driverVars, socket, closedByPeer, moreWaiting>>

\* A read of a socket that is gone finds it closed; one that finds nothing has the modem announce
\* data again; one that the modem does not answer ends the connection.
Receive(t) ==
  /\ mutex = t
  /\ op[t] = "receive"
  /\ mutex' = None
  /\ LET mine == {s \in sockets : s.id = socket[t]}
     IN \/ /\ mine = {}
           /\ closedByPeer' = [closedByPeer EXCEPT ![t] = TRUE]
           /\ moreWaiting' = [moreWaiting EXCEPT ![t] = FALSE]
           /\ op' = [op EXCEPT ![t] = "check"]
           /\ UNCHANGED <<linkVars, sockets, dataSignal, unanswered>>
        \/ /\ mine # {} /\ Answered
           /\ \E s \in mine :
                LET c == opened[s.handle]
                IN /\ moreWaiting' = [moreWaiting EXCEPT ![t] = c # None /\ c.unread]
                   /\ closedByPeer' = [closedByPeer EXCEPT ![t] = @ \/ (c # None /\ ~c.unread /\ c.ended)]
                   /\ opened' = IF c = None THEN opened
                                ELSE [opened EXCEPT ![s.handle].unread = FALSE, ![s.handle].drained = ~c.unread]
           /\ op' = [op EXCEPT ![t] = "check"]
           /\ UNCHANGED <<modemState, modemRate, setUp, urcs, upsets, uartRate, mayReset, restarted, unclosed, sockets, dataSignal>>
        \/ /\ mine # {} /\ resetIfUnresponsive(sockets, FALSE)
           /\ op' = [op EXCEPT ![t] = "close"]
           /\ UNCHANGED moreWaiting
  /\ UNCHANGED <<givenUp, newHandle, socket>>

\* Data goes to the caller first; a connection that is closed and gave none is.
CheckClosed(t) ==
  /\ op[t] = "check"
  /\ op' = [op EXCEPT ![t] = IF ~moreWaiting[t] /\ closedByPeer[t] THEN "close" ELSE "poll"]
  /\ UNCHANGED <<modemVars, driverVars, socket, eventVars, moreWaiting>>

Write(t) ==
  /\ op[t] = "poll"
  /\ op' = [op EXCEPT ![t] = "send"]
  /\ UNCHANGED <<modemVars, driverVars, socket, eventVars, moreWaiting>>

Send(t) ==
  /\ mutex = t
  /\ op[t] = "send"
  /\ mutex' = None
  /\ LET mine == {s \in sockets : s.id = socket[t]}
     IN \/ /\ mine = {} /\ op' = [op EXCEPT ![t] = "close"]
           /\ UNCHANGED <<linkVars, sockets, eventVars, unanswered>>
        \/ /\ mine # {} /\ Answered
           /\ op' = [op EXCEPT ![t] = IF \E s \in mine : opened[s.handle] # None THEN "poll" ELSE "close"]
           /\ UNCHANGED <<linkVars, sockets, eventVars>>
        \/ /\ mine # {} /\ resetIfUnresponsive(sockets, FALSE)
           /\ op' = [op EXCEPT ![t] = "close"]
  /\ UNCHANGED <<givenUp, newHandle, socket, moreWaiting>>

\* queryNtpTime() opens a socket of its own, and closes it.
NtpTakeMutex ==
  /\ mutex = None
  /\ mutex' = "ntp"
  /\ recoverIfRestarted
  /\ UNCHANGED <<unanswered, newHandle, op, socket, moreWaiting>>

NtpOpen ==
  /\ mutex = "ntp"
  /\ newHandle = None
  /\ \/ /\ Answered /\ Free # {}
        /\ newHandle' \in Free
        /\ opened' = [opened EXCEPT ![newHandle'] = [NewConnection(None) EXCEPT !.live = TRUE]]
        /\ UNCHANGED <<modemState, modemRate, setUp, urcs, upsets, uartRate, mayReset, restarted, unclosed, sockets, eventVars, mutex>>
     \/ /\ \/ Answered /\ Free = {} /\ UNCHANGED <<linkVars, sockets, eventVars>>
           \/ resetIfUnresponsive(sockets, FALSE)
        /\ mutex' = None
        /\ UNCHANGED newHandle
  /\ UNCHANGED <<givenUp, op, socket, moreWaiting>>

NtpClose ==
  /\ mutex = "ntp"
  /\ newHandle # None
  /\ mutex' = None
  /\ newHandle' = None
  /\ \/ /\ Answered
        /\ opened' = [opened EXCEPT ![newHandle] = None]
        /\ UNCHANGED <<modemState, modemRate, setUp, urcs, upsets, uartRate, mayReset, restarted, unclosed, sockets, eventVars, givenUp>>
     \/ resetIfUnresponsive(sockets, TRUE) /\ UNCHANGED givenUp
  /\ UNCHANGED <<op, socket, moreWaiting>>

Proceed(t) ==
  \/ Connect(t) \/ TakeMutex(t) \/ CreateSocket(t) \/ RegisterSocket(t) \/ ConnectSocket(t) \/ FinishConnect(t)
  \/ CloseSocket(t) \/ Receive(t) \/ CheckClosed(t) \/ Send(t)

SocketNext ==
  \/ \E t \in Transports : Proceed(t) \/ ShouldReceive(t) \/ Write(t)
  \/ NtpTakeMutex \/ NtpOpen \/ NtpClose
  \/ handleLine \/ ModemUpset \/ ModemComesBack \/ MayResetAgain
  \/ \E h \in Handles : PeerActs(h)

(***************************************************************************)
(* Tasks run; whoever waits for commandMutex gets it; a transport polls    *)
(* every now and then, whatever it writes (SAFETY_POLL_INTERVAL).          *)
(***************************************************************************)
SocketFairness ==
  /\ \A t \in Transports : SF_socketVars(Proceed(t)) /\ SF_socketVars(ShouldReceive(t))
  /\ WF_socketVars(NtpOpen) /\ WF_socketVars(NtpClose) /\ WF_socketVars(handleLine) /\ WF_socketVars(MayResetAgain)

SocketSpec == SocketInit /\ [][SocketNext]_socketVars /\ SocketFairness

-----------------------------------------------------------------------------
(* Properties.                                                             *)

\* A command that names a handle reaches the transport's own connection, also after the modem
\* restarted and gave the handle to another one.
OwnConnection ==
  \A t \in Transports : \A s \in sockets :
    /\ s.id = socket[t]
    /\ \/ mutex = t /\ op[t] \in {"connect", "receive", "send"}
       \/ mutex = None /\ op[t] = "close"
    =>
      opened[s.handle] = None \/ opened[s.handle].id = s.id

\* The modem has no socket open that nobody is going to close, unless it did not answer when it
\* was told to: its handles do not run out.
NoneLeft ==
  \A h \in Handles :
    opened[h] # None /\ ~unclosed => newHandle = h \/ \E s \in sockets : s.handle = h

\* A connection that the peer ended, or that the modem lost, is given up by its transport.
Gone(t) ==
  /\ op[t] \in {"poll", "receive", "check", "send"}
  /\ \/ \A h \in Handles : opened[h] = None \/ opened[h].id # socket[t]
     \/ \E h \in Handles : opened[h] # None /\ opened[h].id = socket[t] /\ opened[h].ended
GoneNoticed == \A t \in Transports : Gone(t) ~> op[t] \notin {"poll", "receive", "check", "send"}

\* A modem that restarted is set up again by the commands that follow, unless it did not answer then:
\* if it does later, it stays as it is.
SetUpInTheEnd == ~setUp /\ ~givenUp ~> setUp \/ givenUp

==============================================================================
