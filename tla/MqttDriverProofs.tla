--------------------------- MODULE MqttDriverProofs ---------------------------
(***************************************************************************)
(* Proofs about MqttDriver, for any topics, batch and queue sizes, limits  *)
(* of the outbox and of what is held back, and any numbers of messages and *)
(* connections.                                                            *)
(***************************************************************************)
EXTENDS MqttDriver, SequenceTheorems, FiniteSetTheorems, TLAPS

-----------------------------------------------------------------------------
(* Sequences *)

\* What is left of a sequence without its i-th element.
LEMMA RemoveAtProperties ==
  ASSUME NEW S, NEW s \in Seq(S), NEW i \in DOMAIN s
  PROVE  /\ RemoveAt(s, i) \in Seq(S)
         /\ Len(RemoveAt(s, i)) = Len(s) - 1
         /\ \A j \in 1 .. Len(s) - 1 :
              RemoveAt(s, i)[j] = IF j < i THEN s[j] ELSE s[j + 1]
<1>0. i \in 1 .. Len(s) /\ Len(s) \in Nat
  BY LenProperties
<1> DEFINE front == SubSeq(s, 1, i - 1)
           back == SubSeq(s, i + 1, Len(s))
<1>1. /\ front \in Seq(S) /\ Len(front) = i - 1
      /\ \A j \in 1 .. i - 1 : front[j] = s[j]
  <2>1. \A j \in 1 .. i - 1 : s[j] \in S
    BY <1>0, ElementOfSeq
  <2>2. /\ front \in Seq(S)
        /\ Len(front) = IF 1 <= i - 1 THEN i - 1 - 1 + 1 ELSE 0
        /\ \A j \in 1 .. i - 1 - 1 + 1 : front[j] = s[1 + j - 1]
    <3> HIDE DEF front
    <3>1. 1 \in Int /\ i - 1 \in Int
      BY <1>0
    <3> QED
      BY <2>1, <3>1, SubSeqProperties DEF front
  <2> QED
    BY <1>0, <2>2
<1>2. /\ back \in Seq(S) /\ Len(back) = Len(s) - i
      /\ \A j \in 1 .. Len(s) - i : back[j] = s[i + j]
  <2>1. \A j \in i + 1 .. Len(s) : s[j] \in S
    BY <1>0, ElementOfSeq
  <2>2. /\ back \in Seq(S)
        /\ Len(back) = IF i + 1 <= Len(s) THEN Len(s) - (i + 1) + 1 ELSE 0
        /\ \A j \in 1 .. Len(s) - (i + 1) + 1 : back[j] = s[i + 1 + j - 1]
    <3>1. i + 1 \in Int /\ Len(s) \in Int
      BY <1>0
    <3> QED
      BY <2>1, <3>1, SubSeqProperties
  <2> QED
    BY <1>0, <2>2
<1>3. RemoveAt(s, i) = front \o back
  BY DEF RemoveAt
<1> HIDE DEF front, back
<1>4. /\ front \o back \in Seq(S)
      /\ Len(front \o back) = Len(front) + Len(back)
      /\ \A j \in 1 .. Len(front) + Len(back) :
           (front \o back)[j] = IF j <= Len(front) THEN front[j] ELSE back[j - Len(front)]
  BY <1>1, <1>2, ConcatProperties
<1>5. Len(front) = i - 1 /\ Len(front) + Len(back) = Len(s) - 1
  BY <1>0, <1>1, <1>2
<1>6. ASSUME NEW j \in 1 .. Len(s) - 1
      PROVE  RemoveAt(s, i)[j] = IF j < i THEN s[j] ELSE s[j + 1]
  <2>1. (front \o back)[j] = IF j <= i - 1 THEN front[j] ELSE back[j - (i - 1)]
    BY <1>4, <1>5
  <2>2. CASE j < i
    BY <1>0, <1>1, <1>3, <2>1, <2>2
  <2>3. CASE ~ (j < i)
    <3>1. j - (i - 1) \in 1 .. Len(s) - i /\ i + (j - (i - 1)) = j + 1
      BY <1>0, <2>3
    <3>2. back[j - (i - 1)] = s[j + 1]
      BY <1>2, <3>1
    <3> QED
      BY <1>0, <1>3, <2>1, <2>3, <3>2
  <2> QED
    BY <2>2, <2>3
<1> QED
  BY <1>3, <1>4, <1>5, <1>6

-----------------------------------------------------------------------------
(* Bytes *)

Items == Messages \cup Subscribes
BytesOf(items) == UNION {{i} \X (1 .. items[i].size) : i \in DOMAIN items}

\* Whatever is sent or held back has a size.
LEMMA ItemSize ==
  ASSUME NEW item \in Items
  PROVE  item.size \in Nat /\ item.size <= MaxSize + 1 /\ MaxSize + 1 \in Int
  BY BoundsAssumption DEF Items, Messages, Subscribes, OutgoingMessage, Subscribe

\* A sequence of them has finitely many bytes.
LEMMA BytesFinite ==
  ASSUME NEW s \in Seq(Items)
  PROVE  IsFiniteSet(BytesOf(s)) /\ Bytes(s) = Cardinality(BytesOf(s)) /\ Bytes(s) \in Nat
<1>1. Len(s) \in Nat /\ DOMAIN s = 1 .. Len(s) /\ \A i \in 1 .. Len(s) : s[i] \in Items
  BY LenProperties, ElementOfSeq
<1>2. BytesOf(s) \in SUBSET ((1 .. Len(s)) \X (1 .. MaxSize + 1))
  <2> SUFFICES ASSUME NEW i \in DOMAIN s, NEW b \in {i} \X (1 .. s[i].size)
               PROVE  b \in (1 .. Len(s)) \X (1 .. MaxSize + 1)
    BY DEF BytesOf
  <2>1. 1 .. s[i].size \subseteq 1 .. MaxSize + 1
    BY <1>1, ItemSize
  <2> QED
    BY <1>1, <2>1
<1>3. IsFiniteSet((1 .. Len(s)) \X (1 .. MaxSize + 1))
  <2>1. IsFiniteSet(1 .. Len(s)) /\ IsFiniteSet(1 .. MaxSize + 1)
    BY <1>1, FS_Interval, BoundsAssumption
  <2> QED
    BY <2>1, FS_Product
<1>4. IsFiniteSet(BytesOf(s))
  BY <1>2, <1>3, FS_Subset
<1> QED
  BY <1>4, FS_CardinalityType DEF Bytes, BytesOf

\* The bytes of one element.
LEMMA ElementBytes ==
  ASSUME NEW i, NEW n \in Nat
  PROVE  IsFiniteSet({i} \X (1 .. n)) /\ Cardinality({i} \X (1 .. n)) = n
<1>1. IsFiniteSet({i}) /\ Cardinality({i}) = 1
  BY FS_Singleton
<1>2. IsFiniteSet(1 .. n) /\ Cardinality(1 .. n) = n
  BY FS_Interval
<1>3. Cardinality({i} \X (1 .. n)) = 1 * n
  BY <1>1, <1>2, FS_Product
<1>4. IsFiniteSet({i} \X (1 .. n))
  BY <1>1, <1>2, FS_Product
<1> QED
  BY <1>3, <1>4

\* Nothing has no bytes.
LEMMA BytesEmpty == Bytes(<< >>) = 0
<1>1. BytesOf(<< >>) = {}
  BY DEF BytesOf
<1> QED
  BY <1>1, FS_EmptySet DEF Bytes, BytesOf

\* One more element has so many bytes more.
LEMMA BytesAppend ==
  ASSUME NEW s \in Seq(Items), NEW item \in Items
  PROVE  Bytes(Append(s, item)) = Bytes(s) + item.size
<1> DEFINE t == Append(s, item)
           n == Len(s)
           new == {n + 1} \X (1 .. item.size)
<1>1. /\ t \in Seq(Items) /\ Len(t) = n + 1 /\ n \in Nat
      /\ DOMAIN t = 1 .. n + 1 /\ DOMAIN s = 1 .. n
      /\ \A i \in 1 .. n : t[i] = s[i]
      /\ t[n + 1] = item
  BY AppendProperties, LenProperties
<1>2. BytesOf(t) = BytesOf(s) \cup new
  <2>1. DOMAIN t = DOMAIN s \cup {n + 1}
    BY <1>1
  <2> HIDE DEF t
  <2> QED
    BY <1>1, <2>1 DEF BytesOf
<1>3. BytesOf(s) \cap new = {}
  <2> SUFFICES ASSUME NEW b \in BytesOf(s), b \in new PROVE FALSE
    OBVIOUS
  <2>1. PICK i \in DOMAIN s : b \in {i} \X (1 .. s[i].size)
    BY DEF BytesOf
  <2>2. b[1] = i /\ b[1] = n + 1
    BY <2>1
  <2> QED
    BY <1>1, <2>2
<1>4. IsFiniteSet(new) /\ Cardinality(new) = item.size
  BY ItemSize, ElementBytes
<1>5. IsFiniteSet(BytesOf(s)) /\ Bytes(s) = Cardinality(BytesOf(s)) /\ Bytes(s) \in Nat
  BY BytesFinite
<1>6. Bytes(t) = Cardinality(BytesOf(t))
  BY <1>1, BytesFinite
<1>7. Cardinality(BytesOf(s) \cup new) = Bytes(s) + item.size - Cardinality({})
  <2> HIDE DEF new, t, n
  <2>1. Cardinality(BytesOf(s) \cup new)
          = Cardinality(BytesOf(s)) + Cardinality(new) - Cardinality(BytesOf(s) \cap new)
    BY <1>4, <1>5, FS_Union
  <2> QED
    BY <1>3, <1>4, <1>5, <2>1
<1> QED
  BY <1>2, <1>5, <1>6, <1>7, FS_EmptySet, ItemSize

\* Without its first element a sequence has so many bytes less.
LEMMA BytesTail ==
  ASSUME NEW s \in Seq(Items), s # << >>
  PROVE  Bytes(s) = Bytes(Tail(s)) + Head(s).size
<1> DEFINE t == Tail(s)
           first == {1} \X (1 .. Head(s).size)
           rest == UNION {{i} \X (1 .. s[i].size) : i \in 2 .. Len(s)}
           shift == [b \in BytesOf(t) |-> <<b[1] + 1, b[2]>>]
<1>1. /\ t \in Seq(Items) /\ Len(t) = Len(s) - 1 /\ Len(s) \in Nat \ {0}
      /\ DOMAIN s = 1 .. Len(s) /\ DOMAIN t = 1 .. Len(s) - 1
      /\ \A i \in 1 .. Len(s) - 1 : t[i] = s[i + 1]
      /\ Head(s) = s[1] /\ Head(s) \in Items
  BY HeadTailProperties, LenProperties, EmptySeq
<1>2. BytesOf(s) = first \cup rest
  <2>1. DOMAIN s = {1} \cup 2 .. Len(s)
    BY <1>1
  <2> QED
    BY <1>1, <2>1 DEF BytesOf
<1>3. first \cap rest = {}
  <2> SUFFICES ASSUME NEW b \in first, b \in rest PROVE FALSE
    OBVIOUS
  <2>1. PICK i \in 2 .. Len(s) : b \in {i} \X (1 .. s[i].size)
    OBVIOUS
  <2>2. b[1] = i /\ b[1] = 1
    BY <2>1
  <2> QED
    BY <2>2
<1>4. \A b : b \in BytesOf(t) <=>
              \E i \in 1 .. Len(s) - 1 : \E k \in 1 .. s[i + 1].size : b = <<i, k>>
  <2> HIDE DEF t
  <2> QED
    BY <1>1 DEF BytesOf
<1>5. \A b : b \in rest <=>
              \E i \in 2 .. Len(s) : \E k \in 1 .. s[i].size : b = <<i, k>>
  OBVIOUS
<1>6. shift \in Bijection(BytesOf(t), rest)
  <2> HIDE DEF t, rest
  <2>1. \A b \in BytesOf(t) : shift[b] \in rest
    <3> SUFFICES ASSUME NEW b \in BytesOf(t) PROVE <<b[1] + 1, b[2]>> \in rest
      OBVIOUS
    <3>0. PICK i \in 1 .. Len(s) - 1 : \E k \in 1 .. s[i + 1].size : b = <<i, k>>
      BY <1>4
    <3>1. PICK k \in 1 .. s[i + 1].size : b = <<i, k>>
      BY <3>0
    <3>2. i + 1 \in 2 .. Len(s)
      BY <1>1
    <3> QED
      BY <1>5, <3>1, <3>2
  <2>2. \A a, b \in BytesOf(t) : shift[a] = shift[b] => a = b
    <3> SUFFICES ASSUME NEW a \in BytesOf(t), NEW b \in BytesOf(t),
                        <<a[1] + 1, a[2]>> = <<b[1] + 1, b[2]>>
                 PROVE  a = b
      OBVIOUS
    <3>1. PICK i \in 1 .. Len(s) - 1 : \E k \in 1 .. s[i + 1].size : a = <<i, k>>
      BY <1>4
    <3>2. PICK j \in 1 .. Len(s) - 1 : \E l \in 1 .. s[j + 1].size : b = <<j, l>>
      BY <1>4
    <3>3. a[1] = i /\ b[1] = j /\ a = <<a[1], a[2]>> /\ b = <<b[1], b[2]>>
      BY <3>1, <3>2
    <3> QED
      BY <1>1, <3>3
  <2>3. \A c \in rest : \E b \in BytesOf(t) : shift[b] = c
    <3> SUFFICES ASSUME NEW c \in rest PROVE \E b \in BytesOf(t) : shift[b] = c
      OBVIOUS
    <3>0. PICK i \in 2 .. Len(s) : \E k \in 1 .. s[i].size : c = <<i, k>>
      BY <1>5
    <3>1. PICK k \in 1 .. s[i].size : c = <<i, k>>
      BY <3>0
    <3>2. i - 1 \in 1 .. Len(s) - 1 /\ i - 1 + 1 = i
      BY <1>1
    <3>3. <<i - 1, k>> \in BytesOf(t)
      BY <1>4, <3>2
    <3>4. shift[<<i - 1, k>>] = <<i - 1 + 1, k>>
      BY <3>3
    <3> QED
      BY <3>1, <3>2, <3>3, <3>4
  <2> HIDE DEF shift
  <2>4. shift \in [BytesOf(t) -> rest]
    BY <2>1 DEF shift
  <2> QED
    BY <2>2, <2>3, <2>4 DEF Bijection, Injection, Surjection, IsInjective
<1>7. IsFiniteSet(rest) /\ Cardinality(rest) = Bytes(t) /\ Bytes(t) \in Nat
  <2>1. IsFiniteSet(BytesOf(t)) /\ Bytes(t) = Cardinality(BytesOf(t)) /\ Bytes(t) \in Nat
    BY <1>1, BytesFinite
  <2>2. ExistsBijection(BytesOf(t), rest)
    BY <1>6 DEF ExistsBijection
  <2> HIDE DEF t, rest
  <2> QED
    BY <2>1, <2>2, FS_Bijection
<1>8. IsFiniteSet(first) /\ Cardinality(first) = Head(s).size /\ Head(s).size \in Nat
  BY <1>1, ItemSize, ElementBytes
<1>9. Bytes(s) = Cardinality(BytesOf(s))
  BY BytesFinite
<1>10. Cardinality(first \cup rest) = Head(s).size + Bytes(t) - Cardinality({})
  <2> HIDE DEF first, rest, t
  <2> QED
    BY <1>3, <1>7, <1>8, FS_Union
<1> QED
  BY <1>2, <1>7, <1>8, <1>9, <1>10, FS_EmptySet

-----------------------------------------------------------------------------
(* Events and subscriptions *)

\* What an event of each kind carries.
LEMMA EventKinds ==
  ASSUME NEW e \in MqttEvent
  PROVE  /\ e.kind = "outgoing" => e \in Messages
         /\ e.kind = "subscribed" => e.topics \subseteq Topics
         /\ e.kind = "subscription" => e.topic \in Topics /\ e = Subscription(e.topic)
         /\ e.kind = "connected" => e = Connected
  BY DEF MqttEvent, ClientEvents, Messages, Connected, Disconnected, Subscribed,
     Subscription, OutgoingMessage

\* What an item of each kind carries.
LEMMA ItemKinds ==
  ASSUME NEW item \in Items
  PROVE  /\ item.kind \in {"outgoing", "subscribe"}
         /\ item.kind = "outgoing" => item \in Messages
         /\ item.kind = "subscribe" => item \in Subscribes /\ item.topics \subseteq Topics
  BY DEF Items, Messages, Subscribes, OutgoingMessage, Subscribe

\* In which SUBSCRIBE a topic is: every one has its own, and none is left out.
LEMMA BatchOfTopic ==
  ASSUME NEW n \in Nat \ {0}, NEW i \in 1 .. n
  PROVE  BatchOf(i) \in 1 .. BatchOf(n) /\ BatchOf(n) \in Nat
<1>0. BatchSize \in Nat \ {0}
  BY BoundsAssumption
<1>1. \A m \in Nat : m \div BatchSize \in Nat
  BY <1>0
<1>2. \A k, m \in Nat : k <= m => k \div BatchSize <= m \div BatchSize
  BY <1>0
<1> QED
  BY <1>1, <1>2 DEF BatchOf

\* The SUBSCRIBEs for some topics name all of them.
LEMMA BatchesFacts ==
  ASSUME NEW topics \in Seq(Topics)
  PROVE  /\ Batches(topics) \in Seq(Subscribes)
         /\ \A topic \in ToSet(topics) :
              \E b \in 1 .. Len(Batches(topics)) : topic \in Batches(topics)[b].topics
<1> DEFINE n == IF topics = << >> THEN 0 ELSE BatchOf(Len(topics))
           batch(b) == {topics[i] : i \in {i \in DOMAIN topics : BatchOf(i) = b}}
<1>1. Len(topics) \in Nat /\ DOMAIN topics = 1 .. Len(topics)
      /\ \A i \in 1 .. Len(topics) : topics[i] \in Topics
      /\ (topics # << >> => Len(topics) \in Nat \ {0})
  BY LenProperties, ElementOfSeq, EmptySeq
<1>2. n \in Nat
  <2>1. CASE topics = << >>
    BY <2>1
  <2>2. CASE topics # << >>
    <3>1. BatchOf(Len(topics)) \in Nat
      BY <1>1, <2>2, BatchOfTopic
    <3> QED
      BY <2>2, <3>1
  <2> QED
    BY <2>1, <2>2
<1>3. \A b : batch(b) \subseteq Topics
  BY <1>1
<1>4. \A b : Subscribe(batch(b)) \in Subscribes /\ Subscribe(batch(b)).topics = batch(b)
  BY <1>3 DEF Subscribes, Subscribe
<1>5. Batches(topics) = [b \in 1 .. n |-> Subscribe(batch(b))]
  BY DEF Batches
<1> HIDE DEF n
<1>6. Batches(topics) \in Seq(Subscribes) /\ Len(Batches(topics)) = n
  <2> HIDE DEF batch
  <2>1. [b \in 1 .. n |-> Subscribe(batch(b))] \in [1 .. n -> Subscribes]
    BY <1>4
  <2> QED
    BY <1>2, <1>5, <2>1
<1>7. ASSUME NEW topic \in ToSet(topics)
      PROVE  \E b \in 1 .. n : topic \in Batches(topics)[b].topics
  <2>1. PICK i \in 1 .. Len(topics) : topic = topics[i]
    BY <1>1 DEF ToSet
  <2>2. BatchOf(i) \in 1 .. n
    <3>1. Len(topics) \in Nat \ {0}
      BY <1>1, <2>1
    <3>2. topics # << >>
      BY <3>1, EmptySeq
    <3> QED
      BY <3>1, <3>2, BatchOfTopic DEF n
  <2>3. topic \in batch(BatchOf(i))
    BY <1>1, <2>1
  <2>4. Batches(topics)[BatchOf(i)] = Subscribe(batch(BatchOf(i)))
    BY <1>5, <2>2
  <2> QED
    BY <1>4, <2>2, <2>3, <2>4
<1> QED
  BY <1>6, <1>7

\* What subscribing does: whatever the client takes goes to the end of its outbox,
\* and all of it does unless the refusal is noted.
LEMMA SubscriptionsFacts ==
  ASSUME TypeOK, NEW topics \in Seq(Topics), NEW alreadyExcused,
         processSubscriptions(topics, alreadyExcused)
  PROVE  /\ \E taken \in Seq(Subscribes) : outbox' = outbox \o taken
         /\ outbox' \in Seq(Items)
         /\ pendingSubscriptions' \subseteq SUBSET Topics
         /\ excused' \in {alreadyExcused, alreadyExcused \cup {"refused"}}
         /\ "refused" \notin excused' => outbox' = outbox \o Batches(topics)
<1> DEFINE batches == Batches(topics)
           room == IF client = "connected" THEN OutboxLimit - Bytes(outbox) ELSE 0
           most == IF room < Len(batches) THEN room ELSE Len(batches)
           taken == SubSeq(batches, 1, most)
<1>1. outbox \in Seq(Items) /\ pendingSubscriptions \subseteq SUBSET Topics
  BY DEF TypeOK, Items
<1>2. batches \in Seq(Subscribes) /\ Len(batches) \in Nat
  BY BatchesFacts, LenProperties
<1>3. room \in Int
  BY <1>1, BytesFinite, BoundsAssumption
<1>4. /\ outbox' = outbox \o taken
      /\ pendingSubscriptions' = pendingSubscriptions \cup {item.topics : item \in ToSet(taken)}
      /\ excused' = alreadyExcused \cup (IF room < Len(batches) THEN {"refused"} ELSE {})
  BY DEF processSubscriptions
<1> HIDE DEF batches, room
<1>5. most \in Int /\ most <= Len(batches)
  BY <1>2, <1>3
<1>6. taken \in Seq(Subscribes)
  <2>1. \A i \in 1 .. most : batches[i] \in Subscribes
    BY <1>2, <1>5, ElementOfSeq
  <2>2. 1 \in Int
    OBVIOUS
  <2> HIDE DEF most
  <2> QED
    BY <1>5, <2>1, <2>2, SubSeqProperties
<1>7. ~ (room < Len(batches)) => taken = batches
  BY <1>2, SubSeqFull
<1> HIDE DEF taken, most
<1>8. ToSet(taken) \subseteq Subscribes
  <2>1. DOMAIN taken = 1 .. Len(taken) /\ \A i \in 1 .. Len(taken) : taken[i] \in Subscribes
    BY <1>6, LenProperties, ElementOfSeq
  <2> QED
    BY <2>1 DEF ToSet
<1>9. \A item \in Subscribes : item.topics \in SUBSET Topics
  BY DEF Subscribes, Subscribe
<1>10. Subscribes \subseteq Items
  BY DEF Items
<1>11. taken \in Seq(Items)
  BY <1>6, <1>10, SeqMonotonic
<1>12. outbox' \in Seq(Items)
  BY <1>1, <1>4, <1>11, ConcatProperties
<1>13. pendingSubscriptions' \subseteq SUBSET Topics
  BY <1>1, <1>4, <1>8, <1>9
<1>14. excused' \in {alreadyExcused, alreadyExcused \cup {"refused"}}
  BY <1>4
<1>15. "refused" \notin excused' => outbox' = outbox \o batches
  BY <1>4, <1>7
<1> QED
  BY <1>4, <1>6, <1>12, <1>13, <1>14, <1>15 DEF batches

-----------------------------------------------------------------------------
(* Type correctness, and what is counted *)

\* What is counted against the limit is what is held back; that the count stays
\* within its limits needs it.
TInv == TypeOK /\ HeldBackFits

\* Holding a message back counts it, and refuses what can never be sent.
LEMMA HoldBackFacts ==
  ASSUME TInv, NEW message \in Messages, holdBack(message)
  PROVE  /\ heldBack' \in Seq(Messages) /\ heldBackBytes' \in 0 .. HeldBackLimit
         /\ HeldBackFits'
<1>1. heldBack \in Seq(Messages) /\ heldBackBytes \in 0 .. HeldBackLimit
      /\ heldBackBytes = Bytes(heldBack)
      /\ \A i \in DOMAIN heldBack : heldBack[i].size <= OutboxLimit
  BY DEF TInv, TypeOK, HeldBackFits
<1>2. CASE message.size > OutboxLimit \/ heldBackBytes + message.size > HeldBackLimit
  BY <1>1, <1>2 DEF holdBack, HeldBackFits
<1>3. CASE ~ (message.size > OutboxLimit \/ heldBackBytes + message.size > HeldBackLimit)
  <2>1. message \in Items /\ message.size \in Nat
    BY ItemSize DEF Items
  <2>2. heldBack' = Append(heldBack, message) /\ heldBackBytes' = heldBackBytes + message.size
    BY <1>3 DEF holdBack
  <2>3. heldBack \in Seq(Items)
    BY <1>1, SeqMonotonic DEF Items
  <2>4. Bytes(heldBack') = Bytes(heldBack) + message.size
    BY <2>1, <2>2, <2>3, BytesAppend
  <2>5. heldBack' \in Seq(Messages) /\ DOMAIN heldBack' = 1 .. Len(heldBack) + 1
        /\ \A i \in DOMAIN heldBack' :
             (i \in DOMAIN heldBack /\ heldBack'[i] = heldBack[i]) \/ heldBack'[i] = message
    BY <1>1, <2>2, AppendProperties, LenProperties
  <2>6. message.size <= OutboxLimit /\ heldBackBytes + message.size <= HeldBackLimit
    BY <1>1, <1>3, <2>1, BoundsAssumption
  <2>7. \A i \in DOMAIN heldBack' : heldBack'[i].size <= OutboxLimit
    BY <1>1, <2>5, <2>6
  <2>8. heldBackBytes' \in 0 .. HeldBackLimit
    BY <1>1, <2>1, <2>2, <2>6, BoundsAssumption
  <2> QED
    BY <1>1, <2>2, <2>4, <2>5, <2>7, <2>8 DEF HeldBackFits
<1> QED
  BY <1>2, <1>3

\* Every step leaves every variable well-formed and counts what it holds back.
LEMMA TypeStep ==
  ASSUME TInv, [Next]_vars
  PROVE  TInv'
<1>0. /\ TypeOK /\ HeldBackFits
      /\ outbox \in Seq(Items) /\ eventQueue \in Seq(MqttEvent)
      /\ heldBack \in Seq(Messages) /\ subscriptions \in Seq(Topics)
  BY DEF TInv, TypeOK, Items
<1> DEFINE QueueOK == eventQueue \in Seq(MqttEvent) /\ Len(eventQueue) <= QueueSize
<1>q. ASSUME NEW e \in MqttEvent, HasRoom, eventQueue' = Append(eventQueue, e) PROVE QueueOK'
  BY <1>0, <1>q, AppendProperties, LenProperties, BoundsAssumption DEF HasRoom, TypeOK
<1>h. ASSUME NEW kind, NextEvent(kind)
      PROVE  QueueOK' /\ Head(eventQueue) \in MqttEvent /\ Head(eventQueue).kind = kind
  <2>1. Head(eventQueue) \in MqttEvent /\ eventQueue' \in Seq(MqttEvent)
        /\ Len(eventQueue') = Len(eventQueue) - 1 /\ Len(eventQueue) \in Nat
    BY <1>0, <1>h, HeadTailProperties, LenProperties DEF NextEvent
  <2>2. Len(eventQueue) <= QueueSize /\ QueueSize \in Nat
    BY <1>0, BoundsAssumption DEF TypeOK
  <2>3. QueueOK'
    BY <2>1, <2>2
  <2> QED
    BY <1>h, <2>1, <2>3 DEF NextEvent
<1>1. CASE NetworkChanges
  <2>1. networkReady' \in BOOLEAN
    BY <1>0, <1>1 DEF NetworkChanges, TypeOK
  <2> QED
    BY <1>0, <1>1, <2>1 DEF NetworkChanges, TInv, TypeOK, HeldBackFits, clientVars, loopVars
<1>2. CASE ClientConnects
  <2>1. callback' \in ClientEvents \cup {NoEvent} /\ subscribed' \subseteq Topics
        /\ ready' \in BOOLEAN
    BY <1>2 DEF ClientConnects, ClientEvents
  <2>2. connections' \in 0 .. MaxConnections
    BY <1>0, <1>2, BoundsAssumption DEF ClientConnects, TypeOK
  <2> QED
    BY <1>0, <1>2, <2>1, <2>2 DEF ClientConnects, TInv, TypeOK, HeldBackFits, loopVars
<1>3. CASE ClientDisconnects
  <2>1. callback' \in ClientEvents \cup {NoEvent} /\ ready' \in BOOLEAN
    BY <1>3 DEF ClientDisconnects, ClientEvents
  <2> QED
    BY <1>0, <1>3, <2>1 DEF ClientDisconnects, TInv, TypeOK, HeldBackFits, loopVars
<1>4. CASE OfferEvent
  <2>1. callback \in MqttEvent /\ callback' \in ClientEvents \cup {NoEvent}
    BY <1>0, <1>4 DEF OfferEvent, TypeOK, MqttEvent
  <2>2. QueueOK' /\ excused' \subseteq {"refused", "lost"}
    <3>1. CASE HasRoom
      BY <1>0, <1>4, <1>q, <2>1, <3>1 DEF OfferEvent, TypeOK
    <3>2. CASE ~ HasRoom
      BY <1>0, <1>4, <3>2 DEF OfferEvent, TypeOK
    <3> QED
      BY <3>1, <3>2
  <2> QED
    BY <1>0, <1>4, <2>1, <2>2 DEF OfferEvent, TInv, TypeOK, HeldBackFits, loopVars
<1>5. ASSUME NEW i \in DOMAIN outbox, BrokerAcks(i) PROVE TInv'
  <2>1. outbox' \in Seq(Items) /\ outbox[i] \in Items
    BY <1>0, <1>5, RemoveAtProperties, LenProperties, ElementOfSeq DEF BrokerAcks
  <2>2. subscribed' \subseteq Topics /\ callback' \in ClientEvents \cup {NoEvent}
    <3>1. CASE outbox[i].kind = "subscribe"
      <4>1. outbox[i].topics \subseteq Topics
        BY <2>1, <3>1, ItemKinds
      <4> QED
        BY <1>0, <1>5, <3>1, <4>1 DEF BrokerAcks, TypeOK, ClientEvents
    <3>2. CASE outbox[i].kind # "subscribe"
      BY <1>0, <1>5, <3>2 DEF BrokerAcks, TypeOK
    <3> QED
      BY <3>1, <3>2
  <2> QED
    BY <1>0, <1>5, <2>1, <2>2 DEF BrokerAcks, TInv, TypeOK, HeldBackFits, loopVars, Items
<1>6. ASSUME NEW i \in DOMAIN outbox, OutboxExpires(i) PROVE TInv'
  <2>1. outbox' \in Seq(Items)
    BY <1>0, <1>6, RemoveAtProperties DEF OutboxExpires
  <2> QED
    BY <1>0, <1>6, <2>1 DEF OutboxExpires, TInv, TypeOK, HeldBackFits, loopVars, Items
<1>7. ASSUME NEW size \in 1 .. MaxSize, publish(size) PROVE TInv'
  <2>1. published' \in 1 .. MaxMessages /\ published' \in 0 .. MaxMessages
    <3>1. published \in 0 .. MaxMessages /\ MaxMessages \in Nat
      BY <1>0, BoundsAssumption DEF TypeOK
    <3>2. published' = published + 1 /\ published < MaxMessages
      BY <1>7 DEF publish
    <3> QED
      BY <3>1, <3>2
  <2>2. OutgoingMessage(published', size) \in MqttEvent
    BY <2>1 DEF MqttEvent, Messages
  <2>3. QueueOK'
    <3>1. CASE HasRoom
      BY <1>7, <1>q, <2>2, <3>1 DEF publish
    <3>2. CASE ~ HasRoom
      BY <1>0, <1>7, <3>2 DEF publish, TypeOK
    <3> QED
      BY <3>1, <3>2
  <2> QED
    BY <1>0, <1>7, <2>1, <2>3 DEF publish, TInv, TypeOK, HeldBackFits, clientVars, loopVars
<1>8. ASSUME NEW topic \in Topics, subscribe(topic) PROVE TInv'
  <2>1. QueueOK'
    BY <1>8, <1>q DEF subscribe, MqttEvent
  <2> QED
    BY <1>0, <1>8, <2>1 DEF subscribe, TInv, TypeOK, HeldBackFits, clientVars, loopVars
<1>9. CASE BeginDisconnected \/ ConnectingTimesOut \/ BeginWaiting
  <2>1. pendingSubscriptions' \subseteq SUBSET Topics /\ ready' \in BOOLEAN
    BY <1>0, <1>9 DEF BeginDisconnected, ConnectingTimesOut, BeginWaiting,
       CullPendingSubscriptions, TypeOK
  <2> QED
    BY <1>0, <1>9, <2>1 DEF BeginDisconnected, ConnectingTimesOut, BeginWaiting, TInv, TypeOK,
       HeldBackFits, clientVars
<1>10. CASE Connect \/ Disconnect \/ DrainDone
  BY <1>0, <1>10 DEF Connect, Disconnect, DrainDone, stopClient, TInv, TypeOK, HeldBackFits,
     clientVars
<1>11. CASE FlushHeldBack
  <2>1. CASE heldBack # << >> /\ Fits(outbox, Head(heldBack))
    <3>1. /\ outbox' = Append(outbox, Head(heldBack))
          /\ heldBackBytes' = heldBackBytes - Head(heldBack).size
          /\ heldBack' = Tail(heldBack)
          /\ loop' = loop
      BY <1>11, <2>1 DEF FlushHeldBack
    <3>2. Head(heldBack) \in Items /\ heldBack' \in Seq(Messages)
          /\ Len(heldBack') = Len(heldBack) - 1 /\ Len(heldBack) \in Nat
          /\ \A i \in 1 .. Len(heldBack') : heldBack'[i] = heldBack[i + 1]
      BY <1>0, <2>1, <3>1, HeadTailProperties, LenProperties DEF Items
    <3>3. heldBack \in Seq(Items) /\ heldBack' \in Seq(Items)
      BY <1>0, <3>2, SeqMonotonic DEF Items
    <3>4. outbox' \in Seq(Items)
      BY <1>0, <3>1, <3>2, AppendProperties
    <3>5. heldBackBytes' = Bytes(heldBack') /\ Bytes(heldBack') \in Nat
          /\ Head(heldBack).size \in Nat
      <4>1. Bytes(heldBack) = Bytes(heldBack') + Head(heldBack).size
        BY <2>1, <3>1, <3>3, BytesTail
      <4>2. Head(heldBack).size \in Nat /\ Bytes(heldBack') \in Nat
        BY <3>2, <3>3, ItemSize, BytesFinite
      <4> QED
        BY <1>0, <3>1, <4>1, <4>2 DEF HeldBackFits
    <3>6. heldBackBytes' \in 0 .. HeldBackLimit
      <4>1. heldBackBytes \in Nat /\ heldBackBytes <= HeldBackLimit /\ HeldBackLimit \in Nat
        BY <1>0, BoundsAssumption DEF TypeOK
      <4>2. heldBackBytes' \in Nat /\ heldBackBytes' <= heldBackBytes
        BY <3>1, <3>5, <4>1
      <4> QED
        BY <4>1, <4>2
    <3>7. \A i \in DOMAIN heldBack' : heldBack'[i].size <= OutboxLimit
      <4>1. DOMAIN heldBack = 1 .. Len(heldBack) /\ DOMAIN heldBack' = 1 .. Len(heldBack')
        BY <1>0, <3>2, LenProperties
      <4>2. \A i \in 1 .. Len(heldBack') : i + 1 \in 1 .. Len(heldBack)
        BY <3>2
      <4> QED
        BY <1>0, <3>2, <4>1, <4>2 DEF HeldBackFits
    <3> QED
      BY <1>0, <1>11, <3>1, <3>2, <3>4, <3>5, <3>6, <3>7
         DEF FlushHeldBack, TInv, TypeOK, HeldBackFits, Items
  <2>2. CASE ~ (heldBack # << >> /\ Fits(outbox, Head(heldBack)))
    BY <1>0, <1>11, <2>2 DEF FlushHeldBack, TInv, TypeOK, HeldBackFits
  <2> QED
    BY <2>1, <2>2
<1>12. CASE HandleConnected
  <2>1. processSubscriptions(subscriptions, {}) /\ NextEvent("connected")
    BY <1>12 DEF HandleConnected
  <2>2. outbox' \in Seq(Items) /\ pendingSubscriptions' \subseteq SUBSET Topics
        /\ excused' \in {{}, {} \cup {"refused"}}
    BY <1>0, <2>1, SubscriptionsFacts
  <2>3. QueueOK'
    BY <1>h, <2>1
  <2> QED
    BY <1>0, <1>12, <2>2, <2>3 DEF HandleConnected, TInv, TypeOK, HeldBackFits, Items
<1>13. CASE HandleDisconnected
  <2>1. QueueOK'
    BY <1>13, <1>h DEF HandleDisconnected
  <2> QED
    BY <1>0, <1>13, <2>1 DEF HandleDisconnected, stopClient, TInv, TypeOK, HeldBackFits
<1>14. CASE HandleSubscribed
  <2>1. QueueOK' /\ pendingSubscriptions' \subseteq SUBSET Topics
    BY <1>0, <1>14, <1>h DEF HandleSubscribed, TypeOK
  <2> QED
    BY <1>0, <1>14, <2>1 DEF HandleSubscribed, TInv, TypeOK, HeldBackFits, clientVars
<1>15. CASE HandleOutgoing
  <2>1. NextEvent("outgoing") /\ processOutgoingMessage(Head(eventQueue))
    BY <1>15 DEF HandleOutgoing
  <2>2. QueueOK' /\ Head(eventQueue) \in Messages
    BY <1>h, <2>1, EventKinds
  <2>3. /\ outbox' \in Seq(Items) /\ heldBack' \in Seq(Messages)
        /\ heldBackBytes' \in 0 .. HeldBackLimit /\ HeldBackFits'
    <3>1. CASE heldBack = << >> /\ Fits(outbox, Head(eventQueue))
      <4>1. outbox' = Append(outbox, Head(eventQueue)) /\ UNCHANGED <<heldBack, heldBackBytes>>
        BY <2>1, <3>1 DEF processOutgoingMessage
      <4>2. Head(eventQueue) \in Items
        BY <2>2 DEF Items
      <4> QED
        BY <1>0, <4>1, <4>2, AppendProperties DEF TypeOK, HeldBackFits
    <3>2. CASE ~ (heldBack = << >> /\ Fits(outbox, Head(eventQueue)))
      <4>1. holdBack(Head(eventQueue)) /\ UNCHANGED outbox
        BY <2>1, <3>2 DEF processOutgoingMessage
      <4> QED
        BY <1>0, <2>2, <4>1, HoldBackFacts
    <3> QED
      BY <3>1, <3>2
  <2> QED
    BY <1>0, <1>15, <2>2, <2>3 DEF HandleOutgoing, TInv, TypeOK, Items
<1>16. CASE HandleSubscription
  <2>1. QueueOK' /\ Head(eventQueue).topic \in Topics
    BY <1>16, <1>h, EventKinds DEF HandleSubscription
  <2>2. subscriptions' \in Seq(Topics)
    BY <1>0, <1>16, <2>1, AppendProperties DEF HandleSubscription
  <2>3. /\ outbox' \in Seq(Items) /\ pendingSubscriptions' \subseteq SUBSET Topics
        /\ excused' \subseteq {"refused", "lost"}
    <3>1. CASE state = "Connected"
      <4>1. processSubscriptions(<<Head(eventQueue).topic>>, excused)
        BY <1>16, <3>1 DEF HandleSubscription
      <4>2. <<Head(eventQueue).topic>> \in Seq(Topics)
        BY <2>1
      <4>3. /\ outbox' \in Seq(Items) /\ pendingSubscriptions' \subseteq SUBSET Topics
            /\ excused' \in {excused, excused \cup {"refused"}}
        BY <1>0, <4>1, <4>2, SubscriptionsFacts
      <4> QED
        BY <1>0, <4>3 DEF TypeOK
    <3>2. CASE state # "Connected"
      BY <1>0, <1>16, <3>2 DEF HandleSubscription, TypeOK
    <3> QED
      BY <3>1, <3>2
  <2> QED
    BY <1>0, <1>16, <2>1, <2>2, <2>3 DEF HandleSubscription, TInv, TypeOK, HeldBackFits, Items
<1>17. CASE UNCHANGED vars
  BY <1>0, <1>17 DEF vars, clientVars, loopVars, TInv, TypeOK, HeldBackFits
<1> QED
  BY <1>1, <1>2, <1>3, <1>4, <1>5, <1>6, <1>7, <1>8, <1>9, <1>10, <1>11, <1>12, <1>13,
     <1>14, <1>15, <1>16, <1>17 DEF Next, LoopStep

\* The driver starts with nothing to send.
LEMMA InitTInv == Init => TInv
<1> SUFFICES ASSUME Init PROVE TInv
  OBVIOUS
<1>1. HeldBackFits
  BY BytesEmpty DEF Init, HeldBackFits
<1>2. Len(<< >>) <= QueueSize
  BY BoundsAssumption
<1>3. ready \in BOOLEAN
  BY DEF Init
<1>4. 0 \in 0 .. HeldBackLimit /\ 0 \in 0 .. MaxMessages /\ 0 \in 0 .. MaxConnections
  BY BoundsAssumption
<1>5. TypeOK
  BY <1>2, <1>3, <1>4, EmptySeq DEF Init, TypeOK
<1> QED
  BY <1>1, <1>5 DEF TInv

\* Every variable keeps its type; the count of what is held back stays within its
\* limit because it is the count of what is held back.
THEOREM TypeCorrect == Spec => []TypeOK
<1>1. TInv => TypeOK
  BY DEF TInv
<1>2. TInv /\ [Next]_vars => TInv'
  BY TypeStep
<1> QED
  BY <1>1, <1>2, InitTInv, PTL DEF Spec

-----------------------------------------------------------------------------
(* The order of messages *)

Outgoing(s) == {i \in DOMAIN s : s[i].kind = "outgoing"}
Sorted(s) == \A i, j \in Outgoing(s) : i < j => s[i].id < s[j].id
Before(s, t) == \A i \in Outgoing(s), j \in Outgoing(t) : s[i].id < t[j].id
UpTo(s, n) == \A i \in Outgoing(s) : s[i].id <= n

\* Part by part, what waits for the network is older than what is held back, that is
\* older than what waits in the queue, and all of it has been published.
OrderInv ==
  /\ Sorted(outbox) /\ Sorted(heldBack) /\ Sorted(eventQueue)
  /\ Before(outbox, heldBack) /\ Before(outbox, eventQueue) /\ Before(heldBack, eventQueue)
  /\ UpTo(outbox, published) /\ UpTo(heldBack, published) /\ UpTo(eventQueue, published)

\* A sequence whose messages are some of another's, in the same order, has its place.
Thins(t, s) ==
  \E f \in [DOMAIN t -> Nat] : \A i, j \in Outgoing(t) :
    f[i] \in Outgoing(s) /\ t[i] = s[f[i]] /\ (i < j => f[i] < f[j])

LEMMA ThinnedOrder ==
  ASSUME NEW s, NEW t, Thins(t, s)
  PROVE  /\ Sorted(s) => Sorted(t)
         /\ \A n : UpTo(s, n) => UpTo(t, n)
         /\ \A u : Before(s, u) => Before(t, u)
         /\ \A u : Before(u, s) => Before(u, t)
<1> PICK f \in [DOMAIN t -> Nat] : \A i, j \in Outgoing(t) :
      f[i] \in Outgoing(s) /\ t[i] = s[f[i]] /\ (i < j => f[i] < f[j])
  BY DEF Thins
<1> QED
  BY DEF Sorted, UpTo, Before

\* Removing an element, wherever it is.
LEMMA RemovedThins ==
  ASSUME NEW S, NEW s \in Seq(S), NEW i \in DOMAIN s
  PROVE  Thins(RemoveAt(s, i), s)
<1> DEFINE t == RemoveAt(s, i)
           f == [j \in DOMAIN t |-> IF j < i THEN j ELSE j + 1]
<1>1. /\ DOMAIN s = 1 .. Len(s) /\ Len(s) \in Nat /\ i \in 1 .. Len(s)
      /\ t \in Seq(S) /\ Len(t) = Len(s) - 1
      /\ \A j \in 1 .. Len(s) - 1 : t[j] = IF j < i THEN s[j] ELSE s[j + 1]
  BY RemoveAtProperties, LenProperties
<1>2. DOMAIN t = 1 .. Len(s) - 1
  BY <1>1, LenProperties
<1> HIDE DEF t
<1>3. f \in [DOMAIN t -> Nat]
  BY <1>1, <1>2
<1>4. \A j \in DOMAIN t : f[j] \in DOMAIN s /\ t[j] = s[f[j]]
  BY <1>1, <1>2
<1>5. \A j, k \in DOMAIN t : j < k => f[j] < f[k]
  BY <1>1, <1>2
<1> HIDE DEF f
<1>6. \A j, k \in Outgoing(t) :
        f[j] \in Outgoing(s) /\ t[j] = s[f[j]] /\ (j < k => f[j] < f[k])
  BY <1>4, <1>5 DEF Outgoing
<1> QED
  BY <1>3, <1>6 DEF Thins, t

\* Removing the first element, which is older than the rest.
LEMMA TailThins ==
  ASSUME NEW S, NEW s \in Seq(S), s # << >>
  PROVE  /\ Thins(Tail(s), s)
         /\ Head(s) = s[1] /\ 1 \in DOMAIN s
         /\ Head(s).kind = "outgoing" /\ Sorted(s) =>
              \A j \in Outgoing(Tail(s)) : Head(s).id < Tail(s)[j].id
<1> DEFINE t == Tail(s)
           f == [j \in DOMAIN t |-> j + 1]
<1>1. /\ DOMAIN s = 1 .. Len(s) /\ Len(s) \in Nat \ {0} /\ Head(s) = s[1]
      /\ t \in Seq(S) /\ Len(t) = Len(s) - 1
      /\ \A j \in 1 .. Len(s) - 1 : t[j] = s[j + 1]
  BY HeadTailProperties, LenProperties, EmptySeq
<1>2. DOMAIN t = 1 .. Len(s) - 1
  BY <1>1, LenProperties
<1> HIDE DEF t
<1>3. f \in [DOMAIN t -> Nat]
  BY <1>1, <1>2
<1>4. \A j \in DOMAIN t : f[j] \in DOMAIN s /\ t[j] = s[f[j]] /\ f[j] = j + 1 /\ 1 < f[j]
  BY <1>1, <1>2
<1>5. \A j, k \in DOMAIN t : j < k => f[j] < f[k]
  BY <1>1, <1>2
<1> HIDE DEF f
<1>6. \A j, k \in Outgoing(t) :
        f[j] \in Outgoing(s) /\ t[j] = s[f[j]] /\ (j < k => f[j] < f[k])
  BY <1>4, <1>5 DEF Outgoing
<1>7. Thins(t, s)
  BY <1>3, <1>6 DEF Thins
<1>8. 1 \in DOMAIN s
  BY <1>1
<1>9. Head(s).kind = "outgoing" /\ Sorted(s) =>
        \A j \in Outgoing(t) : Head(s).id < t[j].id
  BY <1>1, <1>4, <1>6, <1>8 DEF Sorted, Outgoing
<1> QED
  BY <1>1, <1>7, <1>8, <1>9 DEF t

\* Subscriptions at the end are no messages.
LEMMA ConcatThins ==
  ASSUME NEW s \in Seq(Items), NEW t \in Seq(Subscribes)
  PROVE  Thins(s \o t, s)
<1> DEFINE u == s \o t
           f == [j \in DOMAIN u |-> j]
<1>0. t \in Seq(Items)
  BY SeqMonotonic DEF Items
<1>1. /\ DOMAIN s = 1 .. Len(s) /\ Len(s) \in Nat /\ Len(t) \in Nat
      /\ u \in Seq(Items) /\ Len(u) = Len(s) + Len(t)
      /\ \A j \in 1 .. Len(s) + Len(t) : u[j] = IF j <= Len(s) THEN s[j] ELSE t[j - Len(s)]
  BY <1>0, ConcatProperties, LenProperties
<1>2. DOMAIN u = 1 .. Len(s) + Len(t)
  BY <1>1, LenProperties
<1>3. \A j \in 1 .. Len(t) : t[j].kind = "subscribe"
  <2>1. \A j \in 1 .. Len(t) : t[j] \in Subscribes
    BY ElementOfSeq
  <2> QED
    BY <2>1 DEF Subscribes, Subscribe
<1> HIDE DEF u
<1>4. f \in [DOMAIN u -> Nat]
  BY <1>1, <1>2
<1>5. \A j \in Outgoing(u) : j \in 1 .. Len(s)
  <2> SUFFICES ASSUME NEW j \in 1 .. Len(s) + Len(t), u[j].kind = "outgoing",
                      ~ (j <= Len(s))
               PROVE  FALSE
    BY <1>1, <1>2 DEF Outgoing
  <2>1. j - Len(s) \in 1 .. Len(t)
    BY <1>1
  <2> QED
    BY <1>1, <1>3, <2>1
<1>6. \A j, k \in Outgoing(u) :
        f[j] \in Outgoing(s) /\ u[j] = s[f[j]] /\ (j < k => f[j] < f[k])
  <2> SUFFICES ASSUME NEW j \in Outgoing(u), NEW k \in Outgoing(u)
               PROVE  f[j] \in Outgoing(s) /\ u[j] = s[f[j]] /\ (j < k => f[j] < f[k])
    OBVIOUS
  <2>1. f[j] = j /\ f[k] = k
    BY DEF Outgoing
  <2>2. u[j] = s[j] /\ j \in DOMAIN s
    BY <1>1, <1>5
  <2> QED
    BY <2>1, <2>2 DEF Outgoing
<1> QED
  BY <1>4, <1>6 DEF Thins, u

\* One more element at the end, a message that is younger or no message.
LEMMA AppendOrder ==
  ASSUME NEW S, NEW s \in Seq(S), NEW e \in S
  PROVE  /\ Sorted(s) /\ (e.kind = "outgoing" => \A i \in Outgoing(s) : s[i].id < e.id)
              => Sorted(Append(s, e))
         /\ \A n : UpTo(s, n) /\ (e.kind = "outgoing" => e.id <= n) => UpTo(Append(s, e), n)
         /\ \A u : Before(s, u)
                     /\ (e.kind = "outgoing" => \A j \in Outgoing(u) : e.id < u[j].id)
                     => Before(Append(s, e), u)
         /\ \A u : Before(u, s)
                     /\ (e.kind = "outgoing" => \A j \in Outgoing(u) : u[j].id < e.id)
                     => Before(u, Append(s, e))
<1> DEFINE t == Append(s, e)
<1>1. /\ DOMAIN s = 1 .. Len(s) /\ Len(s) \in Nat
      /\ t \in Seq(S) /\ Len(t) = Len(s) + 1
      /\ \A i \in 1 .. Len(s) : t[i] = s[i]
      /\ t[Len(s) + 1] = e
  BY AppendProperties, LenProperties
<1>2. DOMAIN t = 1 .. Len(s) + 1
  BY <1>1, LenProperties
<1> HIDE DEF t
<1>3. \A i \in Outgoing(t) :
        \/ i \in Outgoing(s) /\ t[i] = s[i] /\ i < Len(s) + 1
        \/ i = Len(s) + 1 /\ t[i] = e /\ e.kind = "outgoing"
  BY <1>1, <1>2 DEF Outgoing
<1>4. \A i \in Outgoing(s) : i \in Int
  BY <1>1 DEF Outgoing
<1>5. Sorted(s) /\ (e.kind = "outgoing" => \A i \in Outgoing(s) : s[i].id < e.id) => Sorted(t)
  BY <1>1, <1>3, <1>4 DEF Sorted
<1>6. \A n : UpTo(s, n) /\ (e.kind = "outgoing" => e.id <= n) => UpTo(t, n)
  BY <1>3 DEF UpTo
<1>7. \A u : Before(s, u) /\ (e.kind = "outgoing" => \A j \in Outgoing(u) : e.id < u[j].id)
               => Before(t, u)
  BY <1>3 DEF Before
<1>8. \A u : Before(u, s) /\ (e.kind = "outgoing" => \A j \in Outgoing(u) : u[j].id < e.id)
               => Before(u, t)
  BY <1>3 DEF Before
<1> QED
  BY <1>5, <1>6, <1>7, <1>8 DEF t

\* Two sequences one after the other.
LEMMA ConcatOrder ==
  ASSUME NEW S, NEW s \in Seq(S), NEW t \in Seq(S)
  PROVE  /\ Sorted(s) /\ Sorted(t) /\ Before(s, t) => Sorted(s \o t)
         /\ \A u : Before(s, u) /\ Before(t, u) => Before(s \o t, u)
<1> DEFINE u == s \o t
<1>1. /\ DOMAIN s = 1 .. Len(s) /\ Len(s) \in Nat /\ DOMAIN t = 1 .. Len(t) /\ Len(t) \in Nat
      /\ u \in Seq(S) /\ Len(u) = Len(s) + Len(t)
      /\ \A j \in 1 .. Len(s) + Len(t) : u[j] = IF j <= Len(s) THEN s[j] ELSE t[j - Len(s)]
  BY ConcatProperties, LenProperties
<1>2. DOMAIN u = 1 .. Len(s) + Len(t)
  BY <1>1, LenProperties
<1> HIDE DEF u
<1>3. \A i \in Outgoing(u) :
        \/ i \in Outgoing(s) /\ u[i] = s[i] /\ i <= Len(s)
        \/ i - Len(s) \in Outgoing(t) /\ u[i] = t[i - Len(s)] /\ i > Len(s)
  <2> SUFFICES ASSUME NEW i \in 1 .. Len(s) + Len(t), u[i].kind = "outgoing"
               PROVE  \/ i \in Outgoing(s) /\ u[i] = s[i] /\ i <= Len(s)
                      \/ i - Len(s) \in Outgoing(t) /\ u[i] = t[i - Len(s)] /\ i > Len(s)
    BY <1>2 DEF Outgoing
  <2>1. CASE i <= Len(s)
    BY <1>1, <2>1 DEF Outgoing
  <2>2. CASE ~ (i <= Len(s))
    <3>1. i - Len(s) \in 1 .. Len(t) /\ i > Len(s)
      BY <1>1, <2>2
    <3> QED
      BY <1>1, <2>2, <3>1 DEF Outgoing
  <2> QED
    BY <2>1, <2>2
<1>4. \A i \in Outgoing(u) : i \in Int
  BY <1>1, <1>2 DEF Outgoing
<1>5. ASSUME Sorted(s), Sorted(t), Before(s, t) PROVE Sorted(u)
  <2> SUFFICES ASSUME NEW i \in Outgoing(u), NEW j \in Outgoing(u), i < j
               PROVE  u[i].id < u[j].id
    BY DEF Sorted
  <2>1. CASE i <= Len(s) /\ j <= Len(s)
    BY <1>1, <1>3, <1>4, <1>5, <2>1 DEF Sorted
  <2>2. CASE i <= Len(s) /\ j > Len(s)
    BY <1>1, <1>3, <1>4, <1>5, <2>2 DEF Before
  <2>3. CASE i > Len(s)
    <3>1. j > Len(s) /\ i - Len(s) < j - Len(s)
      BY <1>1, <1>4, <2>3
    <3>2. /\ i - Len(s) \in Outgoing(t) /\ u[i] = t[i - Len(s)]
          /\ j - Len(s) \in Outgoing(t) /\ u[j] = t[j - Len(s)]
      BY <1>1, <1>3, <1>4, <2>3, <3>1
    <3> QED
      BY <1>5, <3>1, <3>2 DEF Sorted
  <2> QED
    BY <1>1, <1>4, <2>1, <2>2, <2>3
<1>6. \A v : Before(s, v) /\ Before(t, v) => Before(u, v)
  BY <1>3 DEF Before
<1> QED
  BY <1>5, <1>6 DEF u

\* Of what waits to be sent or handled, a message has a number.
LEMMA MessageIds ==
  ASSUME TypeOK
  PROVE  /\ \A i \in Outgoing(outbox) : outbox[i].id \in Int
         /\ \A i \in Outgoing(heldBack) : heldBack[i].id \in Int
         /\ \A i \in Outgoing(eventQueue) : eventQueue[i].id \in Int
<1>1. \A e \in Messages : e.id \in Int
  BY DEF Messages, OutgoingMessage
<1>2. /\ outbox \in Seq(Items) /\ heldBack \in Seq(Messages) /\ eventQueue \in Seq(MqttEvent)
  BY DEF TypeOK, Items
<1>3. /\ \A i \in DOMAIN outbox : outbox[i] \in Items
      /\ \A i \in DOMAIN heldBack : heldBack[i] \in Messages
      /\ \A i \in DOMAIN eventQueue : eventQueue[i] \in MqttEvent
  BY <1>2, ElementOfSeq, LenProperties
<1>4. /\ \A e \in Items : e.kind = "outgoing" => e \in Messages
      /\ \A e \in MqttEvent : e.kind = "outgoing" => e \in Messages
  BY ItemKinds, EventKinds
<1> QED
  BY <1>1, <1>3, <1>4 DEF Outgoing

\* Nothing waits, nothing is out of order.
LEMMA InitOrder == Init => OrderInv
<1>1. Outgoing(<< >>) = {}
  BY DEF Outgoing
<1> QED
  BY <1>1 DEF Init, OrderInv, Sorted, Before, UpTo

\* Every step keeps the order: a message enters the queue at its end, and leaves
\* each place from its front.
LEMMA OrderStep ==
  ASSUME TInv, OrderInv, [Next]_vars
  PROVE  OrderInv'
<1>0. /\ TypeOK /\ OrderInv
      /\ outbox \in Seq(Items) /\ eventQueue \in Seq(MqttEvent) /\ heldBack \in Seq(Messages)
  BY DEF TInv, TypeOK, Items
<1>h. ASSUME NEW kind, NextEvent(kind)
      PROVE  /\ Sorted(eventQueue') /\ UpTo(eventQueue', published)
             /\ Before(outbox, eventQueue') /\ Before(heldBack, eventQueue')
             /\ Head(eventQueue) \in MqttEvent /\ Head(eventQueue).kind = kind
             /\ Head(eventQueue) = eventQueue[1] /\ 1 \in DOMAIN eventQueue
             /\ kind = "outgoing" =>
                  \A j \in Outgoing(eventQueue') : Head(eventQueue).id < eventQueue'[j].id
  <2>1. eventQueue # << >> /\ eventQueue' = Tail(eventQueue) /\ Head(eventQueue).kind = kind
    BY <1>h DEF NextEvent
  <2>2. Thins(eventQueue', eventQueue)
        /\ Head(eventQueue) = eventQueue[1] /\ 1 \in DOMAIN eventQueue
        /\ (Head(eventQueue).kind = "outgoing" /\ Sorted(eventQueue) =>
              \A j \in Outgoing(eventQueue') : Head(eventQueue).id < eventQueue'[j].id)
    BY <1>0, <2>1, TailThins
  <2>3. Head(eventQueue) \in MqttEvent
    BY <1>0, <2>1, HeadTailProperties
  <2>4. /\ Sorted(eventQueue') /\ UpTo(eventQueue', published)
        /\ Before(outbox, eventQueue') /\ Before(heldBack, eventQueue')
    BY <1>0, <2>2, ThinnedOrder DEF OrderInv
  <2> QED
    BY <1>0, <2>1, <2>2, <2>3, <2>4 DEF OrderInv
<1>o. ASSUME Thins(outbox', outbox)
      PROVE  /\ Sorted(outbox') /\ UpTo(outbox', published) /\ Before(outbox', heldBack)
             /\ \A u : Before(outbox, u) => Before(outbox', u)
  BY <1>0, <1>o, ThinnedOrder DEF OrderInv
<1>p. ASSUME NEW e \in MqttEvent, e.kind # "outgoing", eventQueue' = Append(eventQueue, e)
      PROVE  /\ Sorted(eventQueue') /\ UpTo(eventQueue', published)
             /\ Before(outbox, eventQueue') /\ Before(heldBack, eventQueue')
  BY <1>0, <1>p, AppendOrder DEF OrderInv
<1>1. CASE UNCHANGED <<outbox, heldBack, eventQueue, published>>
  BY <1>0, <1>1 DEF OrderInv
<1>2. ASSUME NEW i \in DOMAIN outbox, BrokerAcks(i) \/ OutboxExpires(i) PROVE OrderInv'
  <2>1. outbox' = RemoveAt(outbox, i) /\ UNCHANGED <<heldBack, eventQueue, published>>
    BY <1>2 DEF BrokerAcks, OutboxExpires, loopVars
  <2>2. Thins(outbox', outbox)
    BY <1>0, <2>1, RemovedThins
  <2> QED
    BY <1>0, <1>o, <2>1, <2>2 DEF OrderInv
<1>3. CASE OfferEvent
  <2>1. UNCHANGED <<outbox, heldBack, published>>
    BY <1>3 DEF OfferEvent, loopVars
  <2>2. CASE HasRoom
    <3>1. callback \in MqttEvent /\ callback.kind # "outgoing"
      BY <1>0, <1>3 DEF OfferEvent, TypeOK, MqttEvent, ClientEvents, Connected, Disconnected,
         Subscribed
    <3>2. eventQueue' = Append(eventQueue, callback)
      BY <1>3, <2>2 DEF OfferEvent
    <3> QED
      BY <1>0, <1>p, <2>1, <3>1, <3>2 DEF OrderInv
  <2>3. CASE ~ HasRoom
    BY <1>1, <1>3, <2>1, <2>3 DEF OfferEvent
  <2> QED
    BY <2>2, <2>3
<1>4. ASSUME NEW size \in 1 .. MaxSize, publish(size) PROVE OrderInv'
  <2> DEFINE e == OutgoingMessage(published', size)
  <2>1. /\ UNCHANGED <<outbox, heldBack>> /\ published' = published + 1
        /\ published' \in 1 .. MaxMessages /\ published \in Int
    BY <1>0, <1>4, BoundsAssumption DEF publish, clientVars, loopVars, TypeOK
  <2>2. e \in MqttEvent /\ e.kind = "outgoing" /\ e.id = published'
    BY <2>1 DEF MqttEvent, Messages, OutgoingMessage
  <2>3. /\ \A j \in Outgoing(outbox) : outbox[j].id < published' /\ outbox[j].id <= published'
        /\ \A j \in Outgoing(heldBack) : heldBack[j].id < published' /\ heldBack[j].id <= published'
        /\ \A j \in Outgoing(eventQueue) :
             eventQueue[j].id < published' /\ eventQueue[j].id <= published'
    BY <1>0, <2>1, MessageIds DEF OrderInv, UpTo
  <2>4. UpTo(outbox, published') /\ UpTo(heldBack, published') /\ UpTo(eventQueue, published')
    BY <2>3 DEF UpTo
  <2>5. CASE HasRoom
    <3>1. eventQueue' = Append(eventQueue, e)
      BY <1>4, <2>5 DEF publish
    <3> HIDE DEF e
    <3>2. published' <= published'
      BY <2>1
    <3>3. /\ Sorted(eventQueue') /\ UpTo(eventQueue', published')
          /\ Before(outbox, eventQueue') /\ Before(heldBack, eventQueue')
      BY <1>0, <2>2, <2>3, <2>4, <3>1, <3>2, AppendOrder DEF OrderInv
    <3> QED
      BY <1>0, <2>1, <2>4, <3>3 DEF OrderInv
  <2>6. CASE ~ HasRoom
    BY <1>0, <1>4, <2>1, <2>4, <2>6 DEF publish, OrderInv
  <2> QED
    BY <2>5, <2>6
<1>5. ASSUME NEW topic \in Topics, subscribe(topic) PROVE OrderInv'
  <2>1. /\ UNCHANGED <<outbox, heldBack, published>>
        /\ eventQueue' = Append(eventQueue, Subscription(topic))
    BY <1>5 DEF subscribe, clientVars, loopVars
  <2>2. Subscription(topic) \in MqttEvent /\ Subscription(topic).kind # "outgoing"
    BY DEF MqttEvent, Subscription
  <2> QED
    BY <1>0, <1>p, <2>1, <2>2 DEF OrderInv
<1>6. CASE FlushHeldBack
  <2>1. CASE heldBack # << >> /\ Fits(outbox, Head(heldBack))
    <3>1. /\ outbox' = Append(outbox, Head(heldBack)) /\ heldBack' = Tail(heldBack)
          /\ UNCHANGED <<eventQueue, published>>
      BY <1>6, <2>1 DEF FlushHeldBack
    <3>2. Head(heldBack) \in Messages
      BY <1>0, <2>1, HeadTailProperties
    <3>3. Head(heldBack) \in Items /\ Head(heldBack).kind = "outgoing"
      <4>1. \A message \in Messages : message.kind = "outgoing"
        BY DEF Messages, OutgoingMessage
      <4> QED
        BY <3>2, <4>1 DEF Items
    <3>4. /\ Thins(heldBack', heldBack) /\ Head(heldBack) = heldBack[1] /\ 1 \in Outgoing(heldBack)
          /\ \A j \in Outgoing(heldBack') : Head(heldBack).id < heldBack'[j].id
      <4>1. /\ Thins(heldBack', heldBack) /\ Head(heldBack) = heldBack[1] /\ 1 \in DOMAIN heldBack
            /\ (Head(heldBack).kind = "outgoing" /\ Sorted(heldBack) =>
                  \A j \in Outgoing(heldBack') : Head(heldBack).id < heldBack'[j].id)
        BY <1>0, <2>1, <3>1, TailThins
      <4> QED
        BY <1>0, <3>3, <4>1 DEF OrderInv, Outgoing
    <3>5. /\ Sorted(heldBack') /\ UpTo(heldBack', published)
          /\ Before(outbox, heldBack') /\ Before(heldBack', eventQueue)
      BY <1>0, <3>4, ThinnedOrder DEF OrderInv
    <3>6. /\ \A i \in Outgoing(outbox) : outbox[i].id < Head(heldBack).id
          /\ \A j \in Outgoing(eventQueue) : Head(heldBack).id < eventQueue[j].id
          /\ Head(heldBack).id <= published
      BY <1>0, <3>4 DEF OrderInv, Before, UpTo
    <3>7. /\ Sorted(outbox') /\ UpTo(outbox', published)
          /\ Before(outbox', heldBack') /\ Before(outbox', eventQueue)
      BY <1>0, <3>1, <3>3, <3>4, <3>5, <3>6, AppendOrder DEF OrderInv
    <3> QED
      BY <1>0, <3>1, <3>5, <3>7 DEF OrderInv
  <2>2. CASE ~ (heldBack # << >> /\ Fits(outbox, Head(heldBack)))
    BY <1>1, <1>6, <2>2 DEF FlushHeldBack
  <2> QED
    BY <2>1, <2>2
<1>7. CASE HandleDisconnected \/ HandleSubscribed
  <2>1. /\ UNCHANGED <<outbox, heldBack, published>>
        /\ NextEvent("disconnected") \/ NextEvent("subscribed")
    BY <1>7 DEF HandleDisconnected, HandleSubscribed, clientVars
  <2> QED
    BY <1>0, <1>h, <2>1 DEF OrderInv
<1>8. CASE HandleConnected \/ HandleSubscription
  <2>1. /\ UNCHANGED <<heldBack, published>>
        /\ NextEvent("connected") \/ NextEvent("subscription")
    BY <1>8 DEF HandleConnected, HandleSubscription
  <2>2. outbox' = outbox \/ Thins(outbox', outbox)
    <3>1. ASSUME NEW topics \in Seq(Topics), NEW alreadyExcused,
                 processSubscriptions(topics, alreadyExcused)
          PROVE  Thins(outbox', outbox)
      <4>1. PICK taken \in Seq(Subscribes) : outbox' = outbox \o taken
        BY <1>0, <3>1, SubscriptionsFacts
      <4> QED
        BY <1>0, <4>1, ConcatThins
    <3>2. CASE HandleConnected
      BY <1>0, <3>1, <3>2 DEF HandleConnected, TypeOK
    <3>3. CASE HandleSubscription /\ state = "Connected"
      <4>1. <<Head(eventQueue).topic>> \in Seq(Topics)
        <5>1. Head(eventQueue).topic \in Topics
          BY <1>h, <3>3, EventKinds DEF HandleSubscription
        <5> QED
          BY <5>1
      <4> QED
        BY <3>1, <3>3, <4>1 DEF HandleSubscription
    <3>4. CASE HandleSubscription /\ state # "Connected"
      BY <3>4 DEF HandleSubscription
    <3> QED
      BY <1>8, <3>2, <3>3, <3>4
  <2>3. /\ Sorted(eventQueue') /\ UpTo(eventQueue', published)
        /\ Before(outbox, eventQueue') /\ Before(heldBack, eventQueue')
    BY <1>h, <2>1
  <2>4. CASE outbox' = outbox
    BY <1>0, <2>1, <2>3, <2>4 DEF OrderInv
  <2>5. CASE Thins(outbox', outbox)
    BY <1>0, <1>o, <2>1, <2>3, <2>5 DEF OrderInv
  <2> QED
    BY <2>2, <2>4, <2>5
<1>9. CASE HandleOutgoing
  <2> DEFINE message == Head(eventQueue)
  <2>1. /\ NextEvent("outgoing") /\ processOutgoingMessage(message) /\ published' = published
    BY <1>9 DEF HandleOutgoing
  <2>2. message \in Messages /\ message \in Items /\ message.kind = "outgoing"
        /\ message = eventQueue[1] /\ 1 \in Outgoing(eventQueue)
    BY <1>h, <2>1, EventKinds DEF Items, Outgoing
  <2>3. /\ Sorted(eventQueue') /\ UpTo(eventQueue', published)
        /\ Before(outbox, eventQueue') /\ Before(heldBack, eventQueue')
        /\ \A j \in Outgoing(eventQueue') : message.id < eventQueue'[j].id
    BY <1>h, <2>1
  <2>4. /\ \A i \in Outgoing(outbox) : outbox[i].id < message.id
        /\ \A i \in Outgoing(heldBack) : heldBack[i].id < message.id
        /\ message.id <= published
    BY <1>0, <2>2 DEF OrderInv, Before, UpTo
  <2> HIDE DEF message
  <2>5. CASE outbox' = Append(outbox, message) /\ heldBack = << >> /\ heldBack' = heldBack
    <3>1. \A u : Before(u, heldBack')
      <4>1. Outgoing(heldBack') = {}
        BY <2>5 DEF Outgoing
      <4> QED
        BY <4>1 DEF Before
    <3>2. Sorted(outbox') /\ UpTo(outbox', published) /\ Before(outbox', eventQueue')
      BY <1>0, <2>2, <2>3, <2>4, <2>5, AppendOrder DEF OrderInv
    <3> QED
      BY <1>0, <2>1, <2>3, <2>5, <3>1, <3>2 DEF OrderInv
  <2>6. CASE outbox' = outbox /\ heldBack' = Append(heldBack, message)
    <3>1. /\ Sorted(heldBack') /\ UpTo(heldBack', published)
          /\ Before(heldBack', eventQueue') /\ Before(outbox, heldBack')
      BY <1>0, <2>2, <2>3, <2>4, <2>6, AppendOrder DEF OrderInv
    <3> QED
      BY <1>0, <2>1, <2>3, <2>6, <3>1 DEF OrderInv
  <2>7. CASE outbox' = outbox /\ heldBack' = heldBack
    BY <1>0, <2>1, <2>3, <2>7 DEF OrderInv
  <2>8. \/ outbox' = Append(outbox, message) /\ heldBack = << >> /\ heldBack' = heldBack
        \/ outbox' = outbox /\ heldBack' = Append(heldBack, message)
        \/ outbox' = outbox /\ heldBack' = heldBack
    BY <2>1 DEF processOutgoingMessage, holdBack
  <2> QED
    BY <2>5, <2>6, <2>7, <2>8
<1>10. CASE \/ NetworkChanges \/ ClientConnects \/ ClientDisconnects
            \/ BeginDisconnected \/ Connect \/ ConnectingTimesOut \/ Disconnect \/ BeginWaiting
            \/ DrainDone \/ UNCHANGED vars
  BY <1>1, <1>10 DEF NetworkChanges, ClientConnects, ClientDisconnects, BeginDisconnected, Connect,
     ConnectingTimesOut, Disconnect, BeginWaiting, DrainDone, vars, clientVars, loopVars
<1> QED
  BY <1>2, <1>3, <1>4, <1>5, <1>6, <1>7, <1>8, <1>9, <1>10 DEF Next, LoopStep

\* Part by part in order is in order from end to end.
LEMMA OrderFollows == TInv /\ OrderInv => OrderKept
<1> SUFFICES ASSUME TInv, OrderInv PROVE OrderKept
  OBVIOUS
<1> DEFINE S == Items \cup MqttEvent
           sent == outbox \o heldBack
<1>1. outbox \in Seq(S) /\ heldBack \in Seq(S) /\ eventQueue \in Seq(S)
  <2>1. outbox \in Seq(Items) /\ heldBack \in Seq(Messages) /\ eventQueue \in Seq(MqttEvent)
    BY DEF TInv, TypeOK, Items
  <2>2. Items \subseteq S /\ Messages \subseteq S /\ MqttEvent \subseteq S
    BY DEF Items
  <2> QED
    BY <2>1, <2>2, SeqMonotonic
<1> HIDE DEF S
<1>2. sent \in Seq(S) /\ Sorted(sent) /\ Before(sent, eventQueue)
  BY <1>1, ConcatProperties, ConcatOrder DEF OrderInv
<1>3. Sorted(sent \o eventQueue)
  BY <1>1, <1>2, ConcatOrder DEF OrderInv
<1> QED
  BY <1>3 DEF OrderKept, Sorted, Outgoing

\* No message overtakes another, whether it waits for the event loop, is held back or
\* waits for the network, and none is held back that can never be sent.
THEOREM MessagesAreKept == Spec => []MessagesKept
<1>1. Init => TInv /\ OrderInv
  BY InitTInv, InitOrder
<1>2. TInv /\ OrderInv /\ [Next]_vars => TInv' /\ OrderInv'
  BY TypeStep, OrderStep
<1>3. TInv /\ OrderInv => MessagesKept
  BY OrderFollows DEF TInv, MessagesKept
<1> QED
  BY <1>1, <1>2, <1>3, PTL DEF Spec

-----------------------------------------------------------------------------
(* Subscriptions *)

\* The session that the client is in has not been taken note of yet.
ConnectedPending == callback = Connected \/ Connected \in ToSet(eventQueue)

\* Once it has been, no topic is missing in it, whatever else waits in the queue.
SubscribedInv ==
  client = "connected" /\ state = "Connected" /\ excused = {} /\ ~ ConnectedPending
    => AllSubscribed

\* What is in a sequence that has got one element more.
LEMMA AppendRange ==
  ASSUME NEW S, NEW s \in Seq(S), NEW e \in S
  PROVE  ToSet(Append(s, e)) = ToSet(s) \cup {e}
<1> DEFINE t == Append(s, e)
<1>1. /\ DOMAIN s = 1 .. Len(s) /\ Len(s) \in Nat
      /\ DOMAIN t = 1 .. Len(s) + 1
      /\ \A i \in 1 .. Len(s) : t[i] = s[i]
      /\ t[Len(s) + 1] = e
  BY AppendProperties, LenProperties
<1>2. DOMAIN t = DOMAIN s \cup {Len(s) + 1}
  BY <1>1
<1> HIDE DEF t
<1> QED
  BY <1>1, <1>2 DEF ToSet, t

\* The first element and the rest.
LEMMA TailRange ==
  ASSUME NEW S, NEW s \in Seq(S), s # << >>
  PROVE  ToSet(s) = {Head(s)} \cup ToSet(Tail(s))
<1> DEFINE t == Tail(s)
<1>1. /\ DOMAIN s = 1 .. Len(s) /\ Len(s) \in Nat \ {0} /\ Head(s) = s[1]
      /\ DOMAIN t = 1 .. Len(s) - 1
      /\ \A i \in 1 .. Len(s) - 1 : t[i] = s[i + 1]
  BY HeadTailProperties, LenProperties, EmptySeq
<1> HIDE DEF t
<1>2. \A i \in DOMAIN s : i = 1 \/ (i - 1 \in DOMAIN t /\ t[i - 1] = s[i])
  BY <1>1
<1>3. /\ 1 \in DOMAIN s
      /\ \A i \in DOMAIN t : i + 1 \in DOMAIN s /\ t[i] = s[i + 1]
  <2>1. \A i \in 1 .. Len(s) - 1 : i + 1 \in 1 .. Len(s)
    BY <1>1
  <2>2. 1 \in 1 .. Len(s)
    BY <1>1
  <2> QED
    BY <1>1, <2>1, <2>2
<1>4. ToSet(s) \subseteq {s[1]} \cup ToSet(t)
  BY <1>2 DEF ToSet
<1>5. {s[1]} \cup ToSet(t) \subseteq ToSet(s)
  BY <1>3 DEF ToSet
<1> QED
  BY <1>1, <1>4, <1>5 DEF t

\* All but the one that is removed.
LEMMA RemovedRange ==
  ASSUME NEW S, NEW s \in Seq(S), NEW i \in DOMAIN s
  PROVE  ToSet(s) \subseteq ToSet(RemoveAt(s, i)) \cup {s[i]}
<1> DEFINE t == RemoveAt(s, i)
<1>1. /\ DOMAIN s = 1 .. Len(s) /\ Len(s) \in Nat /\ i \in 1 .. Len(s)
      /\ DOMAIN t = 1 .. Len(s) - 1
      /\ \A j \in 1 .. Len(s) - 1 : t[j] = IF j < i THEN s[j] ELSE s[j + 1]
  BY RemoveAtProperties, LenProperties
<1> HIDE DEF t
<1>2. \A j \in DOMAIN s :
        \/ j = i
        \/ j \in DOMAIN t /\ t[j] = s[j]
        \/ j - 1 \in DOMAIN t /\ t[j - 1] = s[j]
  BY <1>1
<1> QED
  BY <1>2 DEF ToSet, t

\* Both parts.
LEMMA ConcatRange ==
  ASSUME NEW S, NEW s \in Seq(S), NEW t \in Seq(S)
  PROVE  /\ ToSet(s) \subseteq ToSet(s \o t)
         /\ \A j \in 1 .. Len(t) : t[j] \in ToSet(s \o t)
<1> DEFINE u == s \o t
<1>1. /\ DOMAIN s = 1 .. Len(s) /\ Len(s) \in Nat /\ Len(t) \in Nat
      /\ DOMAIN u = 1 .. Len(s) + Len(t)
      /\ \A j \in 1 .. Len(s) + Len(t) : u[j] = IF j <= Len(s) THEN s[j] ELSE t[j - Len(s)]
  BY ConcatProperties, LenProperties
<1> HIDE DEF u
<1>2. \A j \in DOMAIN s : j \in DOMAIN u /\ u[j] = s[j]
  BY <1>1
<1>3. \A j \in 1 .. Len(t) : j + Len(s) \in DOMAIN u /\ u[j + Len(s)] = t[j]
  BY <1>1
<1> QED
  BY <1>2, <1>3 DEF ToSet, u

\* Handing the SUBSCRIBEs for some topics over puts each of the topics in the outbox.
LEMMA SentBatches ==
  ASSUME NEW s \in Seq(Items), NEW topics \in Seq(Topics)
  PROVE  /\ ToSet(s) \subseteq ToSet(s \o Batches(topics))
         /\ \A topic \in ToSet(topics) :
              \E item \in ToSet(s \o Batches(topics)) :
                item.kind = "subscribe" /\ topic \in item.topics
<1>1. Batches(topics) \in Seq(Subscribes)
  BY BatchesFacts
<1>2. Batches(topics) \in Seq(Items)
  BY <1>1, SeqMonotonic DEF Items
<1>3. \A b \in 1 .. Len(Batches(topics)) : Batches(topics)[b].kind = "subscribe"
  <2>1. \A b \in 1 .. Len(Batches(topics)) : Batches(topics)[b] \in Subscribes
    BY <1>1, ElementOfSeq
  <2> QED
    BY <2>1 DEF Subscribes, Subscribe
<1>4. \A b \in 1 .. Len(Batches(topics)) : Batches(topics)[b] \in ToSet(s \o Batches(topics))
  BY <1>2, ConcatRange
<1>5. ToSet(s) \subseteq ToSet(s \o Batches(topics))
  BY <1>2, ConcatRange
<1> QED
  BY <1>3, <1>4, <1>5, BatchesFacts

\* What a step that makes no session and asks for no topic must keep.
LEMMA StaysSubscribed ==
  ASSUME SubscribedInv,
         client' = client, state' = state, subscriptions' = subscriptions,
         excused' = {} => excused = {},
         ConnectedPending => ConnectedPending',
         subscribed \subseteq subscribed',
         \A item \in ToSet(outbox) :
           item.kind = "subscribe" => item \in ToSet(outbox') \/ item.topics \subseteq subscribed'
  PROVE  SubscribedInv'
<1>1. AllSubscribed => AllSubscribed'
  BY DEF AllSubscribed
<1> QED
  BY <1>1 DEF SubscribedInv

\* No step leaves a topic out of a session that was taken note of, without a reason.
LEMMA SubscribedStep ==
  ASSUME TypeOK, SubscribedInv, [Next]_vars
  PROVE  SubscribedInv'
<1>0. /\ outbox \in Seq(Items) /\ eventQueue \in Seq(MqttEvent)
      /\ heldBack \in Seq(Messages) /\ subscriptions \in Seq(Topics)
  BY DEF TypeOK, Items
<1>k. NoEvent # Connected /\ Connected.kind = "connected"
  BY DEF NoEvent, Connected
<1>q. ASSUME NEW e \in MqttEvent, eventQueue' = Append(eventQueue, e), callback' = callback
      PROVE  ConnectedPending => ConnectedPending'
  <2>1. ToSet(eventQueue) \subseteq ToSet(eventQueue')
    BY <1>0, <1>q, AppendRange
  <2> QED
    BY <1>q, <2>1 DEF ConnectedPending
<1>h. ASSUME NEW kind, kind # "connected", NextEvent(kind), callback' = callback
      PROVE  ConnectedPending => ConnectedPending'
  <2>1. ToSet(eventQueue) = {Head(eventQueue)} \cup ToSet(eventQueue')
    BY <1>0, <1>h, TailRange DEF NextEvent
  <2>2. Head(eventQueue) # Connected
    BY <1>h, <1>k DEF NextEvent
  <2> QED
    BY <1>h, <2>1, <2>2 DEF ConnectedPending
<1>1. CASE \/ NetworkChanges \/ BeginDisconnected \/ ConnectingTimesOut \/ BeginWaiting
           \/ DrainDone \/ UNCHANGED vars
  <2>1. UNCHANGED <<client, state, subscriptions, excused, callback, eventQueue, subscribed, outbox>>
    BY <1>1 DEF NetworkChanges, BeginDisconnected, ConnectingTimesOut, BeginWaiting, DrainDone,
       vars, clientVars, loopVars
  <2> QED
    BY <2>1 DEF SubscribedInv, ConnectedPending, AllSubscribed
<1>2. CASE ClientConnects
  BY <1>2 DEF ClientConnects, SubscribedInv, ConnectedPending
<1>3. CASE ClientDisconnects
  BY <1>3 DEF ClientDisconnects, SubscribedInv
<1>4. CASE OfferEvent
  <2>1. CASE HasRoom
    <3>1. callback \in MqttEvent /\ eventQueue' = Append(eventQueue, callback)
      BY <1>4, <2>1 DEF OfferEvent, TypeOK, MqttEvent
    <3>2. ToSet(eventQueue') = ToSet(eventQueue) \cup {callback}
      BY <1>0, <3>1, AppendRange
    <3>3. ConnectedPending => ConnectedPending'
      BY <3>2 DEF ConnectedPending
    <3> QED
      BY <1>4, <2>1, <3>3, StaysSubscribed DEF OfferEvent, loopVars
  <2>2. CASE ~ HasRoom
    BY <1>4, <2>2 DEF OfferEvent, SubscribedInv
  <2> QED
    BY <2>1, <2>2
<1>5. ASSUME NEW i \in DOMAIN outbox, BrokerAcks(i) PROVE SubscribedInv'
  <2>1. /\ client' = client /\ state' = state /\ subscriptions' = subscriptions
        /\ excused' = excused /\ eventQueue' = eventQueue /\ callback = NoEvent
    BY <1>5 DEF BrokerAcks, loopVars
  <2>2. ConnectedPending => ConnectedPending'
    BY <1>k, <2>1 DEF ConnectedPending
  <2>3. ToSet(outbox) \subseteq ToSet(outbox') \cup {outbox[i]}
    BY <1>0, <1>5, RemovedRange DEF BrokerAcks
  <2>4. subscribed \subseteq subscribed'
        /\ (outbox[i].kind = "subscribe" => outbox[i].topics \subseteq subscribed')
    BY <1>5 DEF BrokerAcks
  <2> QED
    BY <2>1, <2>2, <2>3, <2>4, StaysSubscribed
<1>6. ASSUME NEW i \in DOMAIN outbox, OutboxExpires(i) PROVE SubscribedInv'
  <2>1. /\ client' = client /\ state' = state /\ subscriptions' = subscriptions
        /\ subscribed' = subscribed /\ eventQueue' = eventQueue /\ callback' = callback
    BY <1>6 DEF OutboxExpires, loopVars
  <2>2. excused' = {} => excused = {} /\ outbox[i].kind # "subscribe"
    BY <1>6 DEF OutboxExpires
  <2>3. ToSet(outbox) \subseteq ToSet(outbox') \cup {outbox[i]}
    BY <1>0, <1>6, RemovedRange DEF OutboxExpires
  <2>4. CASE excused' # {}
    BY <2>4 DEF SubscribedInv
  <2>5. CASE excused' = {}
    BY <2>1, <2>2, <2>3, <2>5, StaysSubscribed DEF ConnectedPending
  <2> QED
    BY <2>4, <2>5
<1>7. ASSUME NEW size \in 1 .. MaxSize, publish(size) PROVE SubscribedInv'
  <2>1. UNCHANGED <<client, state, subscriptions, excused, callback, subscribed, outbox>>
    BY <1>7 DEF publish, clientVars, loopVars
  <2>2. ConnectedPending => ConnectedPending'
    <3>1. CASE HasRoom
      <4>1. published' \in 1 .. MaxMessages
        <5>1. published \in 0 .. MaxMessages /\ MaxMessages \in Nat
          BY BoundsAssumption DEF TypeOK
        <5>2. published' = published + 1 /\ published < MaxMessages
          BY <1>7 DEF publish
        <5> QED
          BY <5>1, <5>2
      <4>2. OutgoingMessage(published', size) \in MqttEvent
        BY <4>1 DEF MqttEvent, Messages
      <4> QED
        BY <1>7, <1>q, <2>1, <3>1, <4>2 DEF publish
    <3>2. CASE ~ HasRoom
      BY <1>7, <2>1, <3>2 DEF publish, ConnectedPending
    <3> QED
      BY <3>1, <3>2
  <2> QED
    BY <2>1, <2>2, StaysSubscribed
<1>8. ASSUME NEW topic \in Topics, subscribe(topic) PROVE SubscribedInv'
  <2>1. UNCHANGED <<client, state, subscriptions, excused, callback, subscribed, outbox>>
        /\ eventQueue' = Append(eventQueue, Subscription(topic))
    BY <1>8 DEF subscribe, clientVars, loopVars
  <2>2. Subscription(topic) \in MqttEvent
    BY DEF MqttEvent
  <2> QED
    BY <1>q, <2>1, <2>2, StaysSubscribed
<1>9. CASE Connect \/ Disconnect \/ HandleDisconnected
  BY <1>9 DEF Connect, Disconnect, HandleDisconnected, SubscribedInv
<1>10. CASE FlushHeldBack
  <2>1. UNCHANGED <<client, state, subscriptions, excused, callback, subscribed, eventQueue>>
    BY <1>10 DEF FlushHeldBack
  <2>2. ToSet(outbox) \subseteq ToSet(outbox')
    <3>1. CASE heldBack # << >> /\ Fits(outbox, Head(heldBack))
      <4>1. Head(heldBack) \in Items
        BY <1>0, <3>1, HeadTailProperties DEF Items
      <4>2. ToSet(Append(outbox, Head(heldBack))) = ToSet(outbox) \cup {Head(heldBack)}
        BY <1>0, <4>1, AppendRange
      <4> QED
        BY <1>10, <3>1, <4>2 DEF FlushHeldBack
    <3>2. CASE ~ (heldBack # << >> /\ Fits(outbox, Head(heldBack)))
      BY <1>10, <3>2 DEF FlushHeldBack
    <3> QED
      BY <3>1, <3>2
  <2> QED
    BY <2>1, <2>2, StaysSubscribed DEF ConnectedPending
<1>11. CASE HandleSubscribed
  <2>1. UNCHANGED <<client, state, subscriptions, excused, callback, subscribed, outbox>>
        /\ NextEvent("subscribed")
    BY <1>11 DEF HandleSubscribed, clientVars
  <2> QED
    BY <1>h, <2>1, StaysSubscribed
<1>12. CASE HandleOutgoing
  <2>1. UNCHANGED <<client, state, subscriptions, excused, callback, subscribed>>
        /\ NextEvent("outgoing") /\ processOutgoingMessage(Head(eventQueue))
    BY <1>12 DEF HandleOutgoing
  <2>2. Head(eventQueue) \in Items
    <3>1. Head(eventQueue) \in MqttEvent /\ Head(eventQueue).kind = "outgoing"
      BY <1>0, <2>1, HeadTailProperties DEF NextEvent
    <3> QED
      BY <3>1, EventKinds DEF Items
  <2>3. outbox' = outbox \/ outbox' = Append(outbox, Head(eventQueue))
    BY <2>1 DEF processOutgoingMessage
  <2>4. ToSet(outbox) \subseteq ToSet(outbox')
    <3>1. ToSet(Append(outbox, Head(eventQueue))) = ToSet(outbox) \cup {Head(eventQueue)}
      BY <1>0, <2>2, AppendRange
    <3> QED
      BY <2>3, <3>1
  <2> QED
    BY <1>h, <2>1, <2>4, StaysSubscribed
<1>13. CASE HandleConnected
  <2> SUFFICES ASSUME excused' = {} PROVE AllSubscribed'
    BY DEF SubscribedInv
  <2>1. processSubscriptions(subscriptions, {}) /\ subscriptions' = subscriptions
    BY <1>13 DEF HandleConnected
  <2>2. outbox' = outbox \o Batches(subscriptions)
    BY <1>0, <2>1, SubscriptionsFacts
  <2> QED
    BY <1>0, <2>1, <2>2, SentBatches DEF AllSubscribed
<1>14. CASE HandleSubscription
  <2>1. UNCHANGED <<client, state, callback, subscribed>> /\ NextEvent("subscription")
        /\ subscriptions' = Append(subscriptions, Head(eventQueue).topic)
    BY <1>14 DEF HandleSubscription
  <2>2. Head(eventQueue).topic \in Topics
    <3>1. Head(eventQueue) \in MqttEvent /\ Head(eventQueue).kind = "subscription"
      BY <1>0, <2>1, HeadTailProperties DEF NextEvent
    <3> QED
      BY <3>1, EventKinds
  <2>3. ConnectedPending => ConnectedPending'
    BY <1>h, <2>1
  <2> SUFFICES ASSUME client = "connected", state = "Connected", excused' = {},
                      ~ ConnectedPending
               PROVE  AllSubscribed'
    BY <2>1, <2>3 DEF SubscribedInv
  <2> DEFINE topic == Head(eventQueue).topic
  <2>4. processSubscriptions(<<topic>>, excused) /\ <<topic>> \in Seq(Topics)
    BY <1>14, <2>2 DEF HandleSubscription
  <2>5. outbox' = outbox \o Batches(<<topic>>) /\ excused = {}
    BY <2>4, SubscriptionsFacts
  <2>6. AllSubscribed
    BY <2>5 DEF SubscribedInv
  <2>7. ToSet(subscriptions') = ToSet(subscriptions) \cup {topic}
    BY <1>0, <2>1, <2>2, AppendRange
  <2>8. topic \in ToSet(<<topic>>)
    BY DEF ToSet
  <2> HIDE DEF topic
  <2>9. /\ ToSet(outbox) \subseteq ToSet(outbox')
        /\ \E item \in ToSet(outbox') : item.kind = "subscribe" /\ topic \in item.topics
    BY <1>0, <2>4, <2>5, <2>8, SentBatches
  <2> QED
    BY <2>1, <2>6, <2>7, <2>9 DEF AllSubscribed
<1> QED
  BY <1>1, <1>2, <1>3, <1>4, <1>5, <1>6, <1>7, <1>8, <1>9, <1>10, <1>11, <1>12, <1>13, <1>14
     DEF Next, LoopStep

\* A settled driver has taken note of the session it is in.
LEMMA SubscribedFollows == SubscribedInv => SubscribedAgain
<1>1. NoEvent # Connected /\ ToSet(<< >>) = {}
  BY DEF NoEvent, Connected, ToSet
<1> QED
  BY <1>1 DEF SubscribedInv, SubscribedAgain, Settled, ConnectedPending

\* In every session every topic is subscribed to again, also one that was asked for
\* between two sessions, unless the client refused it or an event or an item was lost.
THEOREM SubscriptionsAreMadeAgain == Spec => []SubscribedAgain
<1>1. Init => TypeOK /\ SubscribedInv
  <2>1. Init => SubscribedInv
    BY DEF Init, SubscribedInv
  <2> QED
    BY <2>1, InitTInv DEF TInv
<1>2. SubscribedInv /\ TypeOK /\ [Next]_vars => SubscribedInv'
  BY SubscribedStep
<1> QED
  BY <1>1, <1>2, TypeCorrect, SubscribedFollows, PTL DEF Spec
===============================================================================
