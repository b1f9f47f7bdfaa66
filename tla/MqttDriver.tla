----------------------------- MODULE MqttDriver -----------------------------
(***************************************************************************)
(* The MQTT driver: its event loop, the tasks that publish and subscribe,  *)
(* and the task of the esp-mqtt client, which calls the driver back.       *)
(*                                                                         *)
(* The client keeps what it is to send in an outbox of limited size until  *)
(* the broker acknowledges it, and connects again by itself.  What does    *)
(* not fit in the outbox is held back by the event loop.  A callback of    *)
(* the client is two steps: it sets or clears the ready state, and offers  *)
(* an event to the queue, which waits up to a second for room.             *)
(*                                                                         *)
(* Every session is clean: no assignment of nextSessionShouldBeClean makes *)
(* it false, and so sessionPresent is never true.  Time is left out: a     *)
(* connection attempt, a subscription or an offer may time out at any time *)
(* it waits.                                                               *)
(***************************************************************************)
EXTENDS Integers, FiniteSets, SequencesExt

CONSTANTS
  Topics,            \* what the device subscribes to
  BatchSize,         \* topics in one SUBSCRIBE packet, 8 in the code
  QueueSize,         \* capacity of eventQueue
  OutboxLimit,       \* MQTT_OUTBOX_LIMIT_BYTES
  HeldBackLimit,     \* MQTT_HELD_BACK_LIMIT_BYTES
  MaxSize,           \* largest payload
  MaxMessages,       \* bound on the messages published
  MaxConnections     \* bound on the connections the broker accepts

ASSUME BoundsAssumption ==
  /\ {BatchSize, QueueSize, OutboxLimit, HeldBackLimit} \subseteq Nat \ {0}
  /\ {MaxSize, MaxMessages, MaxConnections} \subseteq Nat

VARIABLES
  networkReady,
  ready,             \* the ready state the driver reports
  client,            \* the esp-mqtt client: "stopped", "started" or "connected"
  callback,          \* the event its callback is offering, or NoEvent
  outbox,            \* what it is to send or waits to be acknowledged
  subscribed,        \* topics the broker has acknowledged in this session
  eventQueue,
  loop,              \* where the event loop is
  state,             \* its MqttState
  pendingSubscriptions,
  heldBack,
  heldBackBytes,
  subscriptions,     \* topics subscribed to, in order
  published,         \* messages published so far
  connections,       \* connections made so far
  excused            \* history: whether, since the session was taken note of, a SUBSCRIBE
                     \* was "refused" by the client, or one was "lost" to its expiry, or
                     \* an event was for want of room in the queue

clientVars == <<client, callback, outbox, subscribed, connections>>
loopVars == <<loop, state, pendingSubscriptions, heldBack, heldBackBytes, subscriptions>>
vars == <<networkReady, ready, clientVars, eventQueue, loopVars, published, excused>>

NoEvent == [kind |-> "none"]
Connected == [kind |-> "connected"]
Disconnected == [kind |-> "disconnected"]
Subscribed(topics) == [kind |-> "subscribed", topics |-> topics]
OutgoingMessage(id, size) == [kind |-> "outgoing", id |-> id, size |-> size]
Subscription(topic) == [kind |-> "subscription", topic |-> topic]

Messages == {OutgoingMessage(id, size) : id \in 1 .. MaxMessages, size \in 1 .. MaxSize}
Subscribe(batch) == [kind |-> "subscribe", topics |-> batch, size |-> 1]
Subscribes == {Subscribe(batch) : batch \in SUBSET Topics}
ClientEvents == {Connected, Disconnected} \cup {Subscribed(batch) : batch \in SUBSET Topics}
MqttEvent == ClientEvents \cup Messages \cup {Subscription(topic) : topic \in Topics}

TypeOK ==
  /\ networkReady \in BOOLEAN
  /\ ready \in BOOLEAN
  /\ client \in {"stopped", "started", "connected"}
  /\ callback \in ClientEvents \cup {NoEvent}
  /\ outbox \in Seq(Messages \cup Subscribes)
  /\ subscribed \subseteq Topics
  /\ eventQueue \in Seq(MqttEvent)
  /\ Len(eventQueue) <= QueueSize
  /\ loop \in {"begin", "connect", "disconnect", "flush", "drain"}
  /\ state \in {"Disconnected", "Connecting", "Connected"}
  /\ pendingSubscriptions \subseteq SUBSET Topics
  /\ heldBack \in Seq(Messages)
  /\ heldBackBytes \in 0 .. HeldBackLimit
  /\ subscriptions \in Seq(Topics)
  /\ published \in 0 .. MaxMessages
  /\ connections \in 0 .. MaxConnections
  /\ excused \subseteq {"refused", "lost"}

Init ==
  /\ networkReady \in BOOLEAN
  /\ ready = FALSE
  /\ client = "stopped"
  /\ callback = NoEvent
  /\ outbox = << >>
  /\ subscribed = {}
  /\ eventQueue = << >>
  /\ loop = "begin"
  /\ state = "Disconnected"
  /\ pendingSubscriptions = {}
  /\ heldBack = << >>
  /\ heldBackBytes = 0
  /\ subscriptions = << >>
  /\ published = 0
  /\ connections = 0
  /\ excused = {}

-----------------------------------------------------------------------------
(* The esp-mqtt client and the network.                                    *)

\* The sizes of items, added up: one element for each byte of each of them.
Bytes(items) == Cardinality(UNION {{i} \X (1 .. items[i].size) : i \in DOMAIN items})

Fits(items, item) == Bytes(items) + item.size <= OutboxLimit

NetworkChanges ==
  /\ networkReady' = ~networkReady
  /\ UNCHANGED <<ready, clientVars, eventQueue, loopVars, published, excused>>

ClientConnects ==
  /\ client = "started"
  /\ callback = NoEvent
  /\ connections < MaxConnections
  /\ connections' = connections + 1
  /\ client' = "connected"
  /\ subscribed' = {}
  /\ ready' = TRUE
  /\ callback' = Connected
  /\ UNCHANGED <<networkReady, outbox, eventQueue, loopVars, published, excused>>

\* The connection is lost, or an attempt to make one fails; the client will try again.
ClientDisconnects ==
  /\ client \in {"started", "connected"}
  /\ callback = NoEvent
  /\ client' = "started"
  /\ ready' = FALSE
  /\ callback' = Disconnected
  /\ UNCHANGED <<networkReady, outbox, subscribed, connections, eventQueue, loopVars, published, excused>>

BrokerAcks(i) ==
  /\ client = "connected"
  /\ callback = NoEvent
  /\ outbox' = RemoveAt(outbox, i)
  /\ IF outbox[i].kind = "subscribe"
     THEN /\ subscribed' = subscribed \cup outbox[i].topics
          /\ callback' = Subscribed(outbox[i].topics)
     ELSE UNCHANGED <<subscribed, callback>>
  /\ UNCHANGED <<networkReady, ready, client, connections, eventQueue, loopVars, published, excused>>

OutboxExpires(i) ==
  /\ client # "stopped"
  /\ outbox' = RemoveAt(outbox, i)
  /\ excused' = excused \cup (IF outbox[i].kind = "subscribe" THEN {"lost"} ELSE {})
  /\ UNCHANGED <<networkReady, ready, client, callback, subscribed, connections, eventQueue, loopVars, published>>

HasRoom == Len(eventQueue) < QueueSize

\* offerIn() of the callback: the event is dropped if there is no room in time.
OfferEvent ==
  /\ callback # NoEvent
  /\ IF HasRoom
     THEN /\ eventQueue' = Append(eventQueue, callback)
          /\ UNCHANGED excused
     ELSE /\ excused' = excused \cup {"lost"}
          /\ UNCHANGED eventQueue
  /\ callback' = NoEvent
  /\ UNCHANGED <<networkReady, ready, client, outbox, subscribed, connections, loopVars, published>>

-----------------------------------------------------------------------------
(* Tasks that publish and subscribe.                                       *)

publish(size) ==
  /\ published < MaxMessages
  /\ published' = published + 1
  /\ eventQueue' = IF HasRoom THEN Append(eventQueue, OutgoingMessage(published', size)) ELSE eventQueue
  /\ UNCHANGED <<networkReady, ready, clientVars, loopVars, excused>>

\* A topic is subscribed to once; its Subscription is on its way or has been handled.
subscribe(topic) ==
  /\ topic \notin ToSet(subscriptions)
  /\ Subscription(topic) \notin ToSet(eventQueue)
  /\ HasRoom
  /\ eventQueue' = Append(eventQueue, Subscription(topic))
  /\ UNCHANGED <<networkReady, ready, clientVars, loopVars, published, excused>>

-----------------------------------------------------------------------------
(* The event loop.                                                         *)

\* The stop waits for a callback that runs to return.
stopClient ==
  /\ client # "stopped" => callback = NoEvent
  /\ client' = "stopped"

CullPendingSubscriptions ==
  \E expired \in SUBSET pendingSubscriptions :
    pendingSubscriptions' = pendingSubscriptions \ expired

BeginDisconnected ==
  /\ loop = "begin"
  /\ state = "Disconnected"
  /\ CullPendingSubscriptions
  /\ loop' = "connect"
  /\ UNCHANGED <<networkReady, ready, clientVars, eventQueue, state, heldBack, heldBackBytes, subscriptions,
                 published, excused>>

\* connect() waits for the network before it starts the client.
Connect ==
  /\ loop = "connect"
  /\ networkReady
  /\ client' = "started"
  /\ state' = "Connecting"
  /\ loop' = "flush"
  /\ UNCHANGED <<networkReady, ready, callback, outbox, subscribed, connections, eventQueue,
                 pendingSubscriptions, heldBack, heldBackBytes, subscriptions, published, excused>>

ConnectingTimesOut ==
  /\ loop = "begin"
  /\ state = "Connecting"
  /\ CullPendingSubscriptions
  /\ ready' = FALSE
  /\ loop' = "disconnect"
  /\ UNCHANGED <<networkReady, clientVars, eventQueue, state, heldBack, heldBackBytes, subscriptions,
                 published, excused>>

\* For contrast: the client is stopped but the state is not reset.
DisconnectOnly ==
  /\ loop = "disconnect"
  /\ stopClient
  /\ loop' = "flush"
  /\ UNCHANGED <<networkReady, ready, callback, outbox, subscribed, connections, eventQueue, state,
                 pendingSubscriptions, heldBack, heldBackBytes, subscriptions, published, excused>>

Disconnect ==
  /\ loop = "disconnect"
  /\ stopClient
  /\ state' = "Disconnected"
  /\ loop' = "flush"
  /\ UNCHANGED <<networkReady, ready, callback, outbox, subscribed, connections, eventQueue,
                 pendingSubscriptions, heldBack, heldBackBytes, subscriptions, published, excused>>

BeginWaiting ==
  /\ loop = "begin"
  /\ state # "Disconnected"
  /\ CullPendingSubscriptions
  /\ loop' = "flush"
  /\ UNCHANGED <<networkReady, ready, clientVars, eventQueue, state, heldBack, heldBackBytes, subscriptions,
                 published, excused>>

\* The oldest held-back messages go first, while they fit in the outbox.
FlushHeldBack ==
  /\ loop = "flush"
  /\ IF heldBack # << >> /\ Fits(outbox, Head(heldBack))
     THEN /\ outbox' = Append(outbox, Head(heldBack))
          /\ heldBackBytes' = heldBackBytes - Head(heldBack).size
          /\ heldBack' = Tail(heldBack)
          /\ UNCHANGED loop
     ELSE /\ loop' = "drain"
          /\ UNCHANGED <<outbox, heldBack, heldBackBytes>>
  /\ UNCHANGED <<networkReady, ready, client, callback, subscribed, connections, eventQueue, state,
                 pendingSubscriptions, subscriptions, published, excused>>

DrainDone ==
  /\ loop = "drain"
  /\ eventQueue = << >>
  /\ loop' = "begin"
  /\ UNCHANGED <<networkReady, ready, clientVars, eventQueue, state, pendingSubscriptions, heldBack,
                 heldBackBytes, subscriptions, published, excused>>

\* The SUBSCRIBEs for topics, in their order: the i-th topic is in this one.
BatchOf(i) == (i - 1) \div BatchSize + 1

Batches(topics) ==
  [b \in 1 .. (IF topics = << >> THEN 0 ELSE BatchOf(Len(topics))) |->
     Subscribe({topics[i] : i \in {i \in DOMAIN topics : BatchOf(i) = b}})]

\* A SUBSCRIBE is taken by a client that is connected and has room for it.
processSubscriptions(topics, alreadyExcused) ==
  LET batches == Batches(topics)
      room == IF client = "connected" THEN OutboxLimit - Bytes(outbox) ELSE 0
      taken == SubSeq(batches, 1, IF room < Len(batches) THEN room ELSE Len(batches))
  IN /\ outbox' = outbox \o taken
     /\ pendingSubscriptions' = pendingSubscriptions \cup {item.topics : item \in ToSet(taken)}
     /\ excused' = alreadyExcused \cup (IF room < Len(batches) THEN {"refused"} ELSE {})

NextEvent(kind) ==
  /\ loop = "drain"
  /\ eventQueue # << >>
  /\ Head(eventQueue).kind = kind
  /\ eventQueue' = Tail(eventQueue)

HandleConnected ==
  /\ NextEvent("connected")
  /\ state' = "Connected"
  /\ processSubscriptions(subscriptions, {})
  /\ UNCHANGED <<networkReady, ready, client, callback, subscribed, connections, loop, heldBack,
                 heldBackBytes, subscriptions, published>>

HandleDisconnected ==
  /\ NextEvent("disconnected")
  /\ stopClient
  /\ state' = "Disconnected"
  /\ pendingSubscriptions' = {}
  /\ UNCHANGED <<networkReady, ready, callback, outbox, subscribed, connections, loop, heldBack,
                 heldBackBytes, subscriptions, published, excused>>

HandleSubscribed ==
  /\ NextEvent("subscribed")
  /\ pendingSubscriptions' = pendingSubscriptions \ {Head(eventQueue).topics}
  /\ UNCHANGED <<networkReady, ready, clientVars, loop, state, heldBack, heldBackBytes, subscriptions,
                 published, excused>>

\* For contrast: without a limit on what is held back.
holdBackAll(message) ==
  /\ heldBack' = Append(heldBack, message)
  /\ heldBackBytes' = heldBackBytes + message.size

\* A message that would not fit in an empty outbox, or in what may be held back, is dropped.
holdBack(message) ==
  IF message.size > OutboxLimit \/ heldBackBytes + message.size > HeldBackLimit
  THEN UNCHANGED <<heldBack, heldBackBytes>>
  ELSE /\ heldBack' = Append(heldBack, message)
       /\ heldBackBytes' = heldBackBytes + message.size

\* For contrast: a message is handed over even if older ones are held back.
processAtOnce(message) ==
  IF Fits(outbox, message)
  THEN /\ outbox' = Append(outbox, message)
       /\ UNCHANGED <<heldBack, heldBackBytes>>
  ELSE /\ holdBack(message)
       /\ UNCHANGED outbox

processOutgoingMessage(message) ==
  IF heldBack = << >> /\ Fits(outbox, message)
  THEN /\ outbox' = Append(outbox, message)
       /\ UNCHANGED <<heldBack, heldBackBytes>>
  ELSE /\ holdBack(message)
       /\ UNCHANGED outbox

HandleOutgoing ==
  /\ NextEvent("outgoing")
  /\ processOutgoingMessage(Head(eventQueue))
  /\ UNCHANGED <<networkReady, ready, client, callback, subscribed, connections, loop, state,
                 pendingSubscriptions, subscriptions, published, excused>>

\* For contrast: a topic is left to the next session.
HandleSubscriptionLater ==
  /\ NextEvent("subscription")
  /\ subscriptions' = Append(subscriptions, Head(eventQueue).topic)
  /\ UNCHANGED <<networkReady, ready, clientVars, loop, state, pendingSubscriptions, heldBack,
                 heldBackBytes, published, excused>>

HandleSubscription ==
  /\ NextEvent("subscription")
  /\ subscriptions' = Append(subscriptions, Head(eventQueue).topic)
  /\ IF state = "Connected"
     THEN processSubscriptions(<<Head(eventQueue).topic>>, excused)
     ELSE UNCHANGED <<outbox, pendingSubscriptions, excused>>
  /\ UNCHANGED <<networkReady, ready, client, callback, subscribed, connections, loop, state, heldBack,
                 heldBackBytes, published>>

LoopStep ==
  \/ BeginDisconnected \/ Connect \/ ConnectingTimesOut \/ Disconnect \/ BeginWaiting
  \/ FlushHeldBack \/ DrainDone
  \/ HandleConnected \/ HandleDisconnected \/ HandleSubscribed \/ HandleOutgoing \/ HandleSubscription

Next ==
  \/ LoopStep
  \/ NetworkChanges \/ ClientConnects \/ ClientDisconnects \/ OfferEvent
  \/ \E i \in DOMAIN outbox : BrokerAcks(i) \/ OutboxExpires(i)
  \/ \E size \in 1 .. MaxSize : publish(size)
  \/ \E topic \in Topics : subscribe(topic)

(***************************************************************************)
(* The tasks of the driver and the client are scheduled; the event group   *)
(* wakes connect() whenever the network gets ready, so connecting needs    *)
(* strong fairness.  The network is ready again and again, or for good.    *)
(***************************************************************************)
Fairness ==
  /\ WF_vars(LoopStep)
  /\ SF_vars(Connect)
  /\ WF_vars(OfferEvent)
  /\ WF_vars(networkReady = FALSE /\ NetworkChanges)

Spec == Init /\ [][Next]_vars /\ Fairness

-----------------------------------------------------------------------------
(* Properties.                                                             *)

\* Messages leave in the order they were published in, whether they waited in the queue, were held
\* back while the outbox was full, or could be handed over at once (docs/Connectivity.md:379-381).
OrderKept ==
  LET inOrder == outbox \o heldBack \o eventQueue
      Messaging == {i \in DOMAIN inOrder : inOrder[i].kind = "outgoing"}
  IN \A i, j \in Messaging : i < j => inOrder[i].id < inOrder[j].id

\* What is counted against the limit of the held-back messages is what is held back, and none of
\* them is so large that the outbox can never take it: it would hold up all that follow.
HeldBackFits ==
  /\ heldBackBytes = Bytes(heldBack)
  /\ \A i \in DOMAIN heldBack : heldBack[i].size <= OutboxLimit

Settled ==
  /\ state = "Connected"
  /\ client = "connected"
  /\ callback = NoEvent
  /\ eventQueue = << >>

AllSubscribed ==
  \A topic \in ToSet(subscriptions) :
    \/ topic \in subscribed
    \/ \E item \in ToSet(outbox) : item.kind = "subscribe" /\ topic \in item.topics

\* No message overtakes another, and none blocks the way for good.
MessagesKept == OrderKept /\ HeldBackFits

\* Sessions are always clean, so every topic is subscribed to again in each of them, also one that
\* was asked for while the connection was down or about to come up, unless the client refused it.
SubscribedAgain == Settled /\ excused = {} => AllSubscribed

\* As long as the network is ready again and again, a driver without a running client starts one,
\* unless it takes itself to be connected.
Retries == client = "stopped" ~> client # "stopped" \/ state = "Connected"

=============================================================================
