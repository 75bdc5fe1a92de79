--------------------------- MODULE DeliveryProofs ---------------------------
(***************************************************************************)
(* Proofs about MessageQueue and Delivery, for any number of partitions,   *)
(* connections and messages.                                               *)
(***************************************************************************)
EXTENDS Delivery, SequenceTheorems, WellFoundedInduction, TLAPS

-----------------------------------------------------------------------------
(* The methods of MessageQueue.                                            *)

\* The members of a queue.
LEMMA QueueMembers ==
  ASSUME NEW I, NEW C, NEW q \in MessageQueues(I, C)
  PROVE  LET f == q.consumer_id_delivered_messages_
             g == q.message_id_to_consumer_
         IN  /\ q.message_store_ \in SUBSET I
             /\ q.undelivered_messages_ \in SUBSET I
             /\ q.committed_messages_ \in SUBSET I
             /\ f \in [DOMAIN f -> SUBSET I] /\ DOMAIN f \subseteq C
             /\ g \in [DOMAIN g -> C] /\ DOMAIN g \subseteq I
  BY DEF MessageQueues

\* Members of the right type can be replaced: the sets, or the maps.
LEMMA QueueSets ==
  ASSUME NEW I, NEW C, NEW q \in MessageQueues(I, C),
         NEW s \in SUBSET I, NEW u \in SUBSET I
  PROVE  /\ [q EXCEPT !.message_store_ = s, !.undelivered_messages_ = u]
              \in MessageQueues(I, C)
         /\ [q EXCEPT !.committed_messages_ = s, !.undelivered_messages_ = u]
              \in MessageQueues(I, C)
  <1> DEFINE F == UNION {[D -> SUBSET I] : D \in SUBSET C}
             G == UNION {[D -> C] : D \in SUBSET I}
             S == SUBSET I
             Q == [message_store_ : S, undelivered_messages_ : S,
                   committed_messages_ : S,
                   consumer_id_delivered_messages_ : F,
                   message_id_to_consumer_ : G]
  <1>1. s \in S /\ u \in S /\ q \in Q /\ MessageQueues(I, C) = Q
    BY DEF MessageQueues
  <1> HIDE DEF F, G, S
  <1>2. [q EXCEPT !.message_store_ = s, !.undelivered_messages_ = u] \in Q
    BY ZenonT(30), <1>1
  <1>3. [q EXCEPT !.committed_messages_ = s, !.undelivered_messages_ = u] \in Q
    BY ZenonT(30), <1>1
  <1> HIDE DEF Q
  <1> QED BY <1>1, <1>2, <1>3

LEMMA QueueMaps ==
  ASSUME NEW I, NEW C, NEW q \in MessageQueues(I, C), NEW u \in SUBSET I,
         NEW f, f \in [DOMAIN f -> SUBSET I], DOMAIN f \subseteq C,
         NEW g, g \in [DOMAIN g -> C], DOMAIN g \subseteq I
  PROVE  /\ [q EXCEPT !.consumer_id_delivered_messages_ = f,
                      !.message_id_to_consumer_ = g] \in MessageQueues(I, C)
         /\ [q EXCEPT !.undelivered_messages_ = u,
                      !.consumer_id_delivered_messages_ = f,
                      !.message_id_to_consumer_ = g] \in MessageQueues(I, C)
         /\ [q EXCEPT !.undelivered_messages_ = u,
                      !.message_id_to_consumer_ = g,
                      !.consumer_id_delivered_messages_ = f]
              \in MessageQueues(I, C)
  <1> DEFINE F == UNION {[D -> SUBSET I] : D \in SUBSET C}
             G == UNION {[D -> C] : D \in SUBSET I}
             S == SUBSET I
             Q == [message_store_ : S, undelivered_messages_ : S,
                   committed_messages_ : S,
                   consumer_id_delivered_messages_ : F,
                   message_id_to_consumer_ : G]
  <1>1. f \in F /\ g \in G /\ u \in S
    OBVIOUS
  <1>2. q \in Q /\ MessageQueues(I, C) = Q
    BY DEF MessageQueues
  <1> HIDE DEF F, G, S
  <1>3. [q EXCEPT !.consumer_id_delivered_messages_ = f,
                  !.message_id_to_consumer_ = g] \in Q
    BY ZenonT(30), <1>1, <1>2
  <1>4. [q EXCEPT !.undelivered_messages_ = u,
                  !.consumer_id_delivered_messages_ = f,
                  !.message_id_to_consumer_ = g] \in Q
    BY ZenonT(30), <1>1, <1>2
  <1>5. [q EXCEPT !.undelivered_messages_ = u,
                  !.message_id_to_consumer_ = g,
                  !.consumer_id_delivered_messages_ = f] \in Q
    BY ZenonT(30), <1>1, <1>2
  <1> HIDE DEF Q
  <1> QED BY <1>2, <1>3, <1>4, <1>5

\* insert_message leaves a consistent queue.
LEMMA InsertKeeps ==
  ASSUME NEW I, NEW C, NEW q \in MessageQueues(I, C), OneState(q), NEW id \in I
  PROVE  LET r == insert_message(q, id)
         IN  r \in MessageQueues(I, C) /\ OneState(r)
  <1> DEFINE s1 == q.message_store_ \cup {id}
             u1 == q.undelivered_messages_ \cup {id}
             r == insert_message(q, id)
  <1>1. CASE id \in q.message_store_
    BY <1>1 DEF insert_message
  <1>2. CASE id \notin q.message_store_
    <2>1. r = [q EXCEPT !.message_store_ = s1, !.undelivered_messages_ = u1]
      BY <1>2 DEF insert_message
    <2>2. s1 \in SUBSET I /\ u1 \in SUBSET I
      BY QueueMembers
    <2> HIDE DEF s1, u1, r
    <2>3. r \in MessageQueues(I, C)
      BY ZenonT(30), <2>1, <2>2, QueueSets
    <2>4. /\ r.message_store_ = s1 /\ r.undelivered_messages_ = u1
          /\ r.committed_messages_ = q.committed_messages_
          /\ r.consumer_id_delivered_messages_ = q.consumer_id_delivered_messages_
          /\ r.message_id_to_consumer_ = q.message_id_to_consumer_
      BY <2>1 DEF MessageQueues
    <2>5. OneState(r)
      BY <1>2, <2>4 DEF OneState, Delivered, s1, u1
    <2> QED BY <2>3, <2>5 DEF r
  <1> QED BY <1>1, <1>2

\* commit_message leaves a consistent queue.
LEMMA CommitKeeps ==
  ASSUME NEW I, NEW C, NEW q \in MessageQueues(I, C), OneState(q), NEW id \in I
  PROVE  LET r == commit_message(q, id)
         IN  r \in MessageQueues(I, C) /\ OneState(r)
  <1> DEFINE f == q.consumer_id_delivered_messages_
             g == q.message_id_to_consumer_
             c == g[id]
             f1 == [f EXCEPT ![c] = f[c] \ {id}]
             g1 == [m \in DOMAIN g \ {id} |-> g[m]]
             p == ForgetDelivery(q, id)
             d1 == p.committed_messages_ \cup {id}
             u1 == p.undelivered_messages_ \ {id}
             r == commit_message(q, id)
  <1>1. CASE id \notin q.message_store_
    BY <1>1 DEF commit_message
  <1>2. CASE id \in q.message_store_
    <2>1. /\ f \in [DOMAIN f -> SUBSET I] /\ DOMAIN f \subseteq C
          /\ g \in [DOMAIN g -> C] /\ DOMAIN g \subseteq I
      BY QueueMembers
    <2>2. r = [p EXCEPT !.committed_messages_ = d1, !.undelivered_messages_ = u1]
      BY <1>2 DEF commit_message
    <2>3. /\ p \in MessageQueues(I, C)
          /\ p.message_store_ = q.message_store_
          /\ p.undelivered_messages_ = q.undelivered_messages_
          /\ p.committed_messages_ = q.committed_messages_
          /\ id \notin DOMAIN g => /\ p.consumer_id_delivered_messages_ = f
                                   /\ p.message_id_to_consumer_ = g
          /\ id \in DOMAIN g => /\ p.consumer_id_delivered_messages_ = f1
                                /\ p.message_id_to_consumer_ = g1
      <3>1. CASE id \notin DOMAIN g
        BY <3>1 DEF ForgetDelivery
      <3>2. CASE id \in DOMAIN g
        <4>1. p = [q EXCEPT !.consumer_id_delivered_messages_ = f1,
                            !.message_id_to_consumer_ = g1]
          BY <3>2 DEF ForgetDelivery, Restrict
        <4>2. /\ DOMAIN f1 = DOMAIN f /\ f1 \in [DOMAIN f1 -> SUBSET I]
              /\ DOMAIN g1 = DOMAIN g \ {id} /\ g1 \in [DOMAIN g1 -> C]
          BY ZenonT(30), <2>1
        <4> HIDE DEF f1, g1, p
        <4>3. p \in MessageQueues(I, C)
          BY ZenonT(30), <2>1, <4>1, <4>2, QueueMaps
        <4>4. /\ p.message_store_ = q.message_store_
              /\ p.undelivered_messages_ = q.undelivered_messages_
              /\ p.committed_messages_ = q.committed_messages_
              /\ p.consumer_id_delivered_messages_ = f1
              /\ p.message_id_to_consumer_ = g1
          BY <4>1 DEF MessageQueues
        <4> QED BY <3>2, <4>3, <4>4
      <3> QED BY <3>1, <3>2
    <2> HIDE DEF p
    <2>4. d1 \in SUBSET I /\ u1 \in SUBSET I
      BY SMTT(30), <2>3, QueueMembers
    <2> HIDE DEF d1, u1, r
    <2>5. r \in MessageQueues(I, C)
      BY ZenonT(30), <2>2, <2>3, <2>4, QueueSets
    <2>6. /\ r.message_store_ = q.message_store_
          /\ r.undelivered_messages_ = q.undelivered_messages_ \ {id}
          /\ r.committed_messages_ = q.committed_messages_ \cup {id}
          /\ r.consumer_id_delivered_messages_ = p.consumer_id_delivered_messages_
          /\ r.message_id_to_consumer_ = p.message_id_to_consumer_
      BY <2>2, <2>3 DEF MessageQueues, d1, u1
    <2>7. OneState(r)
      <3>1. CASE id \notin DOMAIN g
        BY <1>2, <2>3, <2>6, <3>1 DEF OneState, Delivered
      <3>2. CASE id \in DOMAIN g
        <4>1. c \in DOMAIN f /\ id \in f[c]
          BY <3>2 DEF OneState, Delivered
        <4>2. /\ DOMAIN f1 = DOMAIN f /\ DOMAIN g1 = DOMAIN g \ {id}
              /\ \A m \in DOMAIN g1 : g1[m] = g[m]
              /\ \A k \in DOMAIN f : f1[k] = IF k = c THEN f[k] \ {id} ELSE f[k]
          BY <2>1
        <4>3. r.consumer_id_delivered_messages_ = f1 /\ r.message_id_to_consumer_ = g1
          BY <2>3, <2>6, <3>2
        <4> HIDE DEF f1, g1
        <4>4. /\ \A m \in DOMAIN g : g[m] \in DOMAIN f /\ m \in f[g[m]]
              /\ \A k \in DOMAIN f : \A m \in f[k] : m \in DOMAIN g /\ g[m] = k
          BY DEF OneState, Delivered
        <4>5. \A m \in DOMAIN g1 : g1[m] \in DOMAIN f1 /\ m \in f1[g1[m]]
          BY ZenonT(30), <4>2, <4>4
        <4>6. ASSUME NEW k \in DOMAIN f1, NEW m \in f1[k]
              PROVE  m \in DOMAIN g1 /\ g1[m] = k
          <5>1. k \in DOMAIN f /\ f1[k] = IF k = c THEN f[k] \ {id} ELSE f[k]
            BY <4>2
          <5>2. m \in f[k] /\ m \in DOMAIN g /\ g[m] = k
            BY <4>4, <5>1
          <5>3. m # id
            BY <5>1, <5>2
          <5> QED BY <4>2, <5>2, <5>3
        <4>7. /\ r.message_store_ = r.undelivered_messages_
                   \cup r.committed_messages_ \cup DOMAIN g1
              /\ r.undelivered_messages_ \cap r.committed_messages_ = {}
              /\ r.undelivered_messages_ \cap DOMAIN g1 = {}
              /\ r.committed_messages_ \cap DOMAIN g1 = {}
          BY <1>2, <2>6, <4>2 DEF OneState, Delivered
        <4> QED BY <4>3, <4>5, <4>6, <4>7 DEF OneState, Delivered
      <3> QED BY <3>1, <3>2
    <2> QED BY <2>5, <2>7 DEF r
  <1> QED BY <1>1, <1>2

\* deliver_message_to_client_id of an undelivered message leaves a consistent
\* queue, in which only that message is no longer undelivered.
LEMMA DeliverKeeps ==
  ASSUME NEW I, NEW C, NEW q \in MessageQueues(I, C), OneState(q),
         NEW id \in q.undelivered_messages_, NEW c \in C
  PROVE  LET r == deliver_message_to_client_id(q, id, c)
         IN  /\ r \in MessageQueues(I, C) /\ OneState(r)
             /\ r.undelivered_messages_ = q.undelivered_messages_ \ {id}
  <1> DEFINE f == q.consumer_id_delivered_messages_
             g == q.message_id_to_consumer_
             set == IF c \in DOMAIN f THEN f[c] ELSE {}
             u1 == q.undelivered_messages_ \ {id}
             f1 == [k \in DOMAIN f \cup {c} |->
                      IF k = c THEN set \cup {id} ELSE f[k]]
             g1 == [m \in DOMAIN g \cup {id} |-> IF m = id THEN c ELSE g[m]]
             r == deliver_message_to_client_id(q, id, c)
  <1>1. r = [q EXCEPT !.undelivered_messages_ = u1,
                      !.consumer_id_delivered_messages_ = f1,
                      !.message_id_to_consumer_ = g1]
    BY DEF deliver_message_to_client_id
  <1>2. /\ f \in [DOMAIN f -> SUBSET I] /\ DOMAIN f \subseteq C
        /\ g \in [DOMAIN g -> C] /\ DOMAIN g \subseteq I
        /\ id \notin DOMAIN g /\ id \in I /\ u1 \in SUBSET I
    BY QueueMembers DEF OneState, Delivered
  <1>3. /\ DOMAIN f1 = DOMAIN f \cup {c} /\ DOMAIN g1 = DOMAIN g \cup {id}
        /\ f1 \in [DOMAIN f1 -> SUBSET I] /\ g1 \in [DOMAIN g1 -> C]
        /\ f1[c] = set \cup {id} /\ g1[id] = c
        /\ \A m \in DOMAIN g : g1[m] = g[m]
        /\ \A k \in DOMAIN f : k # c => f1[k] = f[k]
    BY SMTT(30), <1>2
  <1> HIDE DEF f1, g1, u1, r
  <1>4. r \in MessageQueues(I, C)
    <2>1. DOMAIN f1 \subseteq C /\ DOMAIN g1 \subseteq I
      BY <1>2, <1>3
    <2>2. f1 \in [DOMAIN f1 -> SUBSET I] /\ g1 \in [DOMAIN g1 -> C]
      BY <1>3
    <2>3. u1 \in SUBSET I
      BY <1>2
    <2> QED BY ZenonT(30), <1>1, <2>1, <2>2, <2>3, QueueMaps
  <1>5. /\ r.message_store_ = q.message_store_
        /\ r.undelivered_messages_ = u1
        /\ r.committed_messages_ = q.committed_messages_
        /\ r.consumer_id_delivered_messages_ = f1
        /\ r.message_id_to_consumer_ = g1
    BY <1>1 DEF MessageQueues
  <1>6. OneState(r)
    BY <1>2, <1>3, <1>5 DEF OneState, Delivered, u1
  <1> QED BY <1>4, <1>5, <1>6 DEF r, u1

\* handle_client_disconnected leaves a consistent queue.
LEMMA DisconnectKeeps ==
  ASSUME NEW I, NEW C, NEW q \in MessageQueues(I, C), OneState(q), NEW c
  PROVE  LET r == handle_client_disconnected(q, c)
         IN  r \in MessageQueues(I, C) /\ OneState(r)
  <1> DEFINE f == q.consumer_id_delivered_messages_
             g == q.message_id_to_consumer_
             u1 == q.undelivered_messages_ \cup f[c]
             f1 == [k \in DOMAIN f \ {c} |-> f[k]]
             g1 == [m \in DOMAIN g \ f[c] |-> g[m]]
             r == handle_client_disconnected(q, c)
  <1>1. CASE c \notin DOMAIN f
    BY <1>1 DEF handle_client_disconnected
  <1>2. CASE c \in DOMAIN f
    <2>1. r = [q EXCEPT !.undelivered_messages_ = u1,
                        !.message_id_to_consumer_ = g1,
                        !.consumer_id_delivered_messages_ = f1]
      BY <1>2 DEF handle_client_disconnected, Restrict
    <2>2. /\ f \in [DOMAIN f -> SUBSET I] /\ DOMAIN f \subseteq C
          /\ g \in [DOMAIN g -> C] /\ DOMAIN g \subseteq I
          /\ u1 \in SUBSET I
      BY <1>2, QueueMembers
    <2>3. /\ DOMAIN f1 = DOMAIN f \ {c} /\ DOMAIN g1 = DOMAIN g \ f[c]
          /\ f1 \in [DOMAIN f1 -> SUBSET I] /\ g1 \in [DOMAIN g1 -> C]
          /\ \A m \in DOMAIN g1 : g1[m] = g[m]
          /\ \A k \in DOMAIN f1 : f1[k] = f[k]
      BY SMTT(30), <2>2
    <2> HIDE DEF f1, g1, u1, r
    <2>4. r \in MessageQueues(I, C)
      BY ZenonT(30), <2>1, <2>2, <2>3, QueueMaps
    <2>5. /\ r.message_store_ = q.message_store_
          /\ r.undelivered_messages_ = u1
          /\ r.committed_messages_ = q.committed_messages_
          /\ r.consumer_id_delivered_messages_ = f1
          /\ r.message_id_to_consumer_ = g1
      BY <2>1 DEF MessageQueues
    <2>6. OneState(r)
      BY <1>2, <2>2, <2>3, <2>5 DEF OneState, Delivered, u1
    <2> QED BY <2>4, <2>6 DEF r
  <1> QED BY <1>1, <1>2
-----------------------------------------------------------------------------
(* Type correctness of Delivery.                                           *)

\* The client whose turn it is.
LEMMA RoundRobinType ==
  ASSUME TypeOK, NEW p \in Partition
  PROVE  RoundRobin(p) \in Client \cup {ClientOne, NoClient}
  <1> DEFINE array == consumer_client_id_array_[p]
             i == (deliver_count_[p] % Len(array)) + 1
  <1>1. CASE p \in DOMAIN consumer_client_id_array_ /\ array # <<>>
    <2>1. array \in Seq(Client)
      BY <1>1 DEF TypeOK
    <2>2. Len(array) \in Nat /\ Len(array) > 0
      BY <1>1, <2>1, LenProperties, EmptySeq
    <2>3. deliver_count_[p] \in Nat
      BY DEF TypeOK
    <2>4. deliver_count_[p] % Len(array) \in 0..(Len(array) - 1)
      BY <2>2, <2>3
    <2>5. i \in 1..Len(array)
      BY <2>2, <2>4
    <2>6. array[i] \in Client
      BY <2>1, <2>5, ElementOfSeq
    <2>7. RoundRobin(p) = array[i]
      BY <1>1 DEF RoundRobin
    <2> QED BY <2>6, <2>7
  <1>2. CASE ~(p \in DOMAIN consumer_client_id_array_ /\ array # <<>>)
    BY <1>2 DEF RoundRobin
  <1> QED BY <1>1, <1>2

\* A set of numbers that is not empty has a least one.
LEMMA LeastIn ==
  ASSUME NEW S \in SUBSET Nat, S # {}
  PROVE  Min(S) \in S /\ \A y \in S : Min(S) <= y
  <1> DEFINE Less == {ss \in Nat \X Nat : ss[1] < ss[2]}
  <1>1. IsWellFoundedOn(Less, Nat)
    BY NatLessThanWellFounded, Zenon DEF OpToRel
  <1>2. PICK x \in S : \A y \in S : <<y, x>> \notin Less
    <2> HIDE DEF Less
    <2> QED BY ZenonT(30), <1>1, WFMin
  <1>3. ASSUME NEW y \in S PROVE x <= y
    <2>1. x \in Nat /\ y \in Nat
      OBVIOUS
    <2>2. ~(y < x)
      <3>1. y < x => <<y, x>> \in Less
        BY <2>1
      <3> QED BY <1>2, <3>1
    <2> QED BY <2>1, <2>2
  <1> QED BY ZenonT(30), <1>3 DEF Min

\* The disconnect handler leaves sequences of clients.
LEMMA RemovedType ==
  ASSUME NEW s \in Seq(Client), NEW c
  PROVE  RemoveFirst(s, c) \in Seq(Client)
  <1> DEFINE at == {i \in 1..Len(s) : s[i] = c}
             i == Min(at)
  <1>1. CASE at = {}
    BY <1>1 DEF RemoveFirst
  <1>2. CASE at # {}
    <2>1. Len(s) \in Nat /\ at \in SUBSET Nat
      BY LenProperties
    <2>2. i \in 1..Len(s)
      BY <1>2, <2>1, LeastIn
    <2>3. RemoveFirst(s, c) = SubSeq(s, 1, i - 1) \o SubSeq(s, i + 1, Len(s))
      BY ZenonT(30), <1>2 DEF RemoveFirst, RemoveAt, SelectInSeq
    <2> HIDE DEF i
    <2>4. \A k \in 1..Len(s) : s[k] \in Client
      BY ElementOfSeq
    <2>5. SubSeq(s, 1, i - 1) \in Seq(Client)
      BY <2>1, <2>2, <2>4, SubSeqProperties
    <2>6. SubSeq(s, i + 1, Len(s)) \in Seq(Client)
      BY <2>1, <2>2, <2>4, SubSeqProperties
    <2> QED BY <2>3, <2>5, <2>6, ConcatProperties
  <1> QED BY <1>1, <1>2

\* Appending to a sequence, and taking its first element.
LEMMA SeqFacts ==
  ASSUME NEW S, NEW s \in Seq(S)
  PROVE  /\ \A e \in S : Append(s, e) \in Seq(S)
         /\ s # <<>> => Head(s) \in S /\ Tail(s) \in Seq(S)
         /\ \A k \in 0..Len(s) : SubSeq(s, 1, k) \in Seq(S)
  <1>1. \A e \in S : Append(s, e) \in Seq(S)
    BY AppendProperties
  <1>2. s # <<>> => Head(s) \in S /\ Tail(s) \in Seq(S)
    BY HeadTailProperties
  <1>3. ASSUME NEW k \in 0..Len(s) PROVE SubSeq(s, 1, k) \in Seq(S)
    <2>1. Len(s) \in Nat /\ \A i \in 1..k : s[i] \in S
      BY LenProperties, ElementOfSeq
    <2> QED BY <2>1, SubSeqProperties
  <1> QED BY <1>1, <1>2, <1>3

\* The delivery loop starts with undelivered messages.
LEMMA ToDeliverFacts ==
  ASSUME NEW p, NEW q
  PROVE  ToDeliver(p, q) \in SUBSET q.undelivered_messages_
  BY SMTT(30) DEF ToDeliver

\* A step of partition p that leaves q as its queue and todo as the rest of its
\* delivery loop keeps the queues consistent when q and todo are.
LEMMA OneQueueStep ==
  ASSUME TypeOK, QueuesConsistent, NEW p \in Partition,
         NEW q \in MessageQueues(Id, Client \cup {ClientOne}), OneState(q),
         NEW todo \in SUBSET q.undelivered_messages_,
         message_queue_' = [message_queue_ EXCEPT ![p] = q],
         id_temp' = [id_temp EXCEPT ![p] = todo]
  PROVE  /\ message_queue_' \in
              [Partition -> MessageQueues(Id, Client \cup {ClientOne})]
         /\ id_temp' \in [Partition -> SUBSET Id]
         /\ QueuesConsistent'
  <1> DEFINE C == Client \cup {ClientOne}
  <1>1. /\ message_queue_ \in [Partition -> MessageQueues(Id, C)]
        /\ id_temp \in [Partition -> SUBSET Id]
    BY ZenonT(30) DEF TypeOK
  <1>2. todo \in SUBSET Id
    BY QueueMembers
  <1>3. \A k \in Partition :
          /\ OneState(message_queue_'[k])
          /\ id_temp'[k] \subseteq message_queue_'[k].undelivered_messages_
    BY <1>1 DEF QueuesConsistent
  <1> QED BY ZenonT(30), <1>1, <1>2, <1>3 DEF QueuesConsistent, OneState, Delivered

\* Steps that leave the queues and the delivery loops alone.
LEMMA QueuesUntouched ==
  ASSUME QueuesConsistent, UNCHANGED <<message_queue_, id_temp>>
  PROVE  QueuesConsistent'
  BY DEF QueuesConsistent, OneState, Delivered

\* A count and a set that grow only when a client had its turn.
LEMMA TurnTaken ==
  ASSUME TypeOK, NEW p \in Partition, NEW client,
         IF client \in Client
         THEN deliver_count_' = [deliver_count_ EXCEPT ![p] = @ + 1]
         ELSE deliver_count_' = deliver_count_
  PROVE  deliver_count_' \in [Partition -> Nat]
  <1>1. deliver_count_ \in [Partition -> Nat]
    BY DEF TypeOK
  <1>2. deliver_count_[p] + 1 \in Nat
    BY <1>1
  <1> QED BY <1>1, <1>2

\* The thread of the client manager does not touch the queues.
LEMMA ClientManagerStep ==
  ASSUME TypeOK, QueuesConsistent, NEW c \in Client,
         \/ accept_new_connection(c) \/ disconnected(c)
         \/ \E p \in Partition : open_queue(c, p)
  PROVE  TypeOK' /\ QueuesConsistent'
  <1> USE DEF nodeVars, boundVars
  <1>1. CASE accept_new_connection(c)
    <2>1. session' \in [Client -> {"NEW", "OPEN", "GONE"}]
      BY <1>1 DEF accept_new_connection, TypeOK
    <2>2. UNCHANGED <<consumer_client_id_array_, deliver_count_, received,
                      answered, nodeVars, posted, alive, boundVars>>
      BY <1>1 DEF accept_new_connection
    <2>3. TypeOK'
      BY ZenonT(30), <2>1, <2>2 DEF TypeOK
    <2> QED BY <2>2, <2>3, QueuesUntouched
  <1>2. CASE disconnected(c)
    <2>1. \A p \in Partition :
            Append(posted[p], [type |-> "DISCONNECTED", client |-> c])
              \in Seq(Handler)
      <3>1. [type |-> "DISCONNECTED", client |-> c] \in Handler
        BY DEF Handler
      <3>2. \A p \in Partition : posted[p] \in Seq(Handler)
        BY DEF TypeOK
      <3> QED BY <3>1, <3>2, SeqFacts
    <2>2. posted' \in [Partition -> Seq(Handler)]
      BY <1>2, <2>1 DEF disconnected
    <2>3. PICK P \in SUBSET Partition :
            consumer_client_id_array_ \in [P -> Seq(Client)]
      BY DEF TypeOK
    <2>4. consumer_client_id_array_' \in [P -> Seq(Client)]
      BY <1>2, <2>3, RemovedType DEF disconnected, Removed
    <2>5. session' \in [Client -> {"NEW", "OPEN", "GONE"}]
      BY <1>2 DEF disconnected, TypeOK
    <2>6. UNCHANGED <<deliver_count_, received, answered, nodeVars, alive,
                      boundVars>>
      BY <1>2 DEF disconnected
    <2> QED BY <2>2, <2>4, <2>5, <2>6, ZenonT(30)
            DEF TypeOK, QueuesConsistent, OneState, Delivered
  <1>3. ASSUME NEW p \in Partition, open_queue(c, p)
        PROVE  TypeOK' /\ QueuesConsistent'
    <2>1. posted' \in [Partition -> Seq(Handler)]
      <3>1. [type |-> "OPEN", client |-> c] \in Handler
        BY DEF Handler
      <3>2. posted \in [Partition -> Seq(Handler)]
        BY DEF TypeOK
      <3>3. Append(posted[p], [type |-> "OPEN", client |-> c]) \in Seq(Handler)
        BY <3>1, <3>2, SeqFacts
      <3> QED BY <1>3, <3>2, <3>3 DEF open_queue
    <2>2. PICK P \in SUBSET Partition :
            consumer_client_id_array_ \in [P -> Seq(Client)]
      BY DEF TypeOK
    <2>3. consumer_client_id_array_' \in [P \cup {p} -> Seq(Client)]
      <3>1. p \in P => Append(consumer_client_id_array_[p], c) \in Seq(Client)
        BY <2>2, SeqFacts
      <3>2. <<c>> \in Seq(Client)
        OBVIOUS
      <3> QED BY <1>3, <2>2, <3>1, <3>2 DEF open_queue, Listed
    <2>4. P \cup {p} \in SUBSET Partition
      OBVIOUS
    <2>5. opens' \in [Client -> Nat]
      BY <1>3 DEF open_queue, TypeOK
    <2>6. UNCHANGED <<session, deliver_count_, received, answered, nodeVars,
                      alive, entries, terms>>
      BY <1>3 DEF open_queue
    <2> QED BY <2>1, <2>3, <2>4, <2>5, <2>6, ZenonT(30)
            DEF TypeOK, QueuesConsistent, OneState, Delivered
  <1> QED BY <1>1, <1>2, <1>3

\* A turn of the delivery loop, or its end.
LEMMA DeliverStep ==
  ASSUME TypeOK, QueuesConsistent, NEW p \in Partition,
         DeliverOne(p) \/ DeliverNone(p) \/ DeliverDies(p)
  PROVE  TypeOK' /\ QueuesConsistent'
  <1> USE DEF clientVars, boundVars
  <1> DEFINE C == Client \cup {ClientOne}
             client == RoundRobin(p)
             q == message_queue_[p]
  <1>1. /\ q \in MessageQueues(Id, C) /\ OneState(q)
        /\ id_temp[p] \subseteq q.undelivered_messages_
        /\ client \in Client \cup {ClientOne, NoClient}
    BY ZenonT(30), RoundRobinType DEF TypeOK, QueuesConsistent
  <1> HIDE DEF client
  <1>2. CASE DeliverOne(p)
    <2>1. PICK id \in id_temp[p] :
            /\ IF client \in Client
               THEN /\ received' = [received EXCEPT ![client] = @ \cup {<<p, id>>}]
                    /\ deliver_count_' = [deliver_count_ EXCEPT ![p] = @ + 1]
               ELSE UNCHANGED <<received, deliver_count_>>
            /\ message_queue_' = [message_queue_ EXCEPT ![p] =
                 deliver_message_to_client_id(@, id, client)]
            /\ id_temp' = [id_temp EXCEPT ![p] = @ \ {id}]
      BY ZenonT(30), <1>2 DEF DeliverOne, client
    <2>2. client \in C /\ id \in q.undelivered_messages_ /\ id \in Id
      BY <1>1, <1>2, <2>1, QueueMembers, SMTT(30) DEF DeliverOne, Failed, client
    <2> DEFINE r == deliver_message_to_client_id(q, id, client)
    <2>3. /\ r \in MessageQueues(Id, C) /\ OneState(r)
          /\ r.undelivered_messages_ = q.undelivered_messages_ \ {id}
      BY <1>1, <2>2, DeliverKeeps
    <2>4. /\ message_queue_' = [message_queue_ EXCEPT ![p] = r]
          /\ id_temp' = [id_temp EXCEPT ![p] = id_temp[p] \ {id}]
      BY <2>1
    <2> HIDE DEF r, q
    <2>5. id_temp[p] \ {id} \in SUBSET r.undelivered_messages_
      BY <1>1, <2>3
    <2>6. /\ message_queue_' \in [Partition -> MessageQueues(Id, C)]
          /\ id_temp' \in [Partition -> SUBSET Id]
          /\ QueuesConsistent'
      BY ZenonT(30), <2>3, <2>4, <2>5, OneQueueStep
    <2>7. received' \in [Client -> SUBSET (Partition \X Id)]
      <3>1. received \in [Client -> SUBSET (Partition \X Id)]
        BY DEF TypeOK
      <3>2. <<p, id>> \in Partition \X Id
        BY <2>2
      <3>3. CASE client \in Client
        <4>1. received[client] \cup {<<p, id>>} \in SUBSET (Partition \X Id)
          BY <3>1, <3>2, <3>3
        <4> QED BY SMTT(30), <2>1, <3>1, <3>3, <4>1
      <3>4. CASE client \notin Client
        BY <2>1, <3>1, <3>4
      <3> QED BY <3>3, <3>4
    <2>8. deliver_count_' \in [Partition -> Nat]
      BY <2>1, TurnTaken
    <2>9. UNCHANGED <<session, consumer_client_id_array_, answered, leader, log,
                      committing, posted, alive, boundVars>>
      BY <1>2 DEF DeliverOne
    <2> QED BY ZenonT(30), <2>6, <2>7, <2>8, <2>9 DEF TypeOK
  <1>3. CASE DeliverNone(p)
    <2>1. /\ UNCHANGED <<clientVars, leader, log, message_queue_, committing,
                         posted, alive, boundVars>>
          /\ id_temp' = [id_temp EXCEPT ![p] = {}]
      BY <1>3 DEF DeliverNone
    <2>2. TypeOK'
      BY ZenonT(30), <2>1 DEF TypeOK
    <2>3. message_queue_' = [message_queue_ EXCEPT ![p] = q]
      BY <2>1 DEF TypeOK
    <2>4. {} \in SUBSET q.undelivered_messages_
      OBVIOUS
    <2>5. QueuesConsistent'
      BY ZenonT(30), <1>1, <2>1, <2>3, <2>4, OneQueueStep
    <2> QED BY <2>2, <2>5
  <1>4. CASE DeliverDies(p)
    <2>1. alive' \in BOOLEAN /\ UNCHANGED <<clientVars, nodeVars, posted, boundVars>>
      BY ZenonT(30), <1>4 DEF DeliverDies, Crash
    <2>2. TypeOK'
      BY ZenonT(30), <2>1 DEF nodeVars, TypeOK
    <2> QED BY <2>1, <2>2, QueuesUntouched DEF nodeVars
  <1> QED BY <1>2, <1>3, <1>4

\* A handler posted to the node.
LEMMA HandlerStep ==
  ASSUME TypeOK, QueuesConsistent, NEW p \in Partition,
         HandleOpen(p) \/ HandleOpenDies(p) \/ consumer_disconnected(p)
  PROVE  TypeOK' /\ QueuesConsistent'
  <1> USE DEF clientVars, boundVars
  <1> DEFINE C == Client \cup {ClientOne}
             client == RoundRobin(p)
             q == message_queue_[p]
  <1>1. /\ q \in MessageQueues(Id, C) /\ OneState(q)
        /\ message_queue_ \in [Partition -> MessageQueues(Id, C)]
        /\ posted \in [Partition -> Seq(Handler)]
    BY ZenonT(30) DEF TypeOK, QueuesConsistent
  <1> HIDE DEF client
  <1>2. CASE HandleOpen(p)
    <2>1. /\ posted[p] # <<>> /\ posted' = [posted EXCEPT ![p] = Tail(@)]
          /\ IF client \in Client
             THEN /\ answered' = answered \cup {client}
                  /\ deliver_count_' = [deliver_count_ EXCEPT ![p] = @ + 1]
             ELSE UNCHANGED <<answered, deliver_count_>>
          /\ id_temp' = [id_temp EXCEPT ![p] = ToDeliver(p, q)]
          /\ UNCHANGED <<session, consumer_client_id_array_, received, leader,
                         log, message_queue_, committing, alive, boundVars>>
      BY <1>2 DEF HandleOpen, client
    <2>2. posted' \in [Partition -> Seq(Handler)]
      BY <1>1, <2>1, SeqFacts
    <2>3. answered' \subseteq Client
      <3>1. answered \subseteq Client
        BY DEF TypeOK
      <3> QED BY <2>1, <3>1
    <2>6. deliver_count_' \in [Partition -> Nat]
      BY <2>1, TurnTaken
    <2>4. message_queue_' = [message_queue_ EXCEPT ![p] = q]
      BY SMTT(30), <1>1, <2>1
    <2> HIDE DEF q
    <2>5. /\ message_queue_' \in [Partition -> MessageQueues(Id, C)]
          /\ id_temp' \in [Partition -> SUBSET Id]
          /\ QueuesConsistent'
      BY ZenonT(30), <1>1, <2>1, <2>4, ToDeliverFacts, OneQueueStep
    <2> QED BY ZenonT(30), <2>1, <2>2, <2>3, <2>5, <2>6 DEF TypeOK
  <1>3. CASE consumer_disconnected(p)
    <2> DEFINE c == Head(posted[p]).client
               r == handle_client_disconnected(q, c)
    <2>1. /\ posted[p] # <<>> /\ posted' = [posted EXCEPT ![p] = Tail(@)]
          /\ message_queue_' = [message_queue_ EXCEPT ![p] = r]
          /\ id_temp' = [id_temp EXCEPT ![p] = ToDeliver(p, r)]
          /\ UNCHANGED <<clientVars, leader, log, committing, alive, boundVars>>
      BY ZenonT(30), <1>3 DEF consumer_disconnected
    <2>2. posted' \in [Partition -> Seq(Handler)]
      BY <1>1, <2>1, SeqFacts
    <2> HIDE DEF c, q
    <2>3. r \in MessageQueues(Id, C) /\ OneState(r)
      BY <1>1, DisconnectKeeps
    <2> HIDE DEF r
    <2>4. /\ message_queue_' \in [Partition -> MessageQueues(Id, C)]
          /\ id_temp' \in [Partition -> SUBSET Id]
          /\ QueuesConsistent'
      BY ZenonT(30), <2>1, <2>3, ToDeliverFacts, OneQueueStep
    <2> QED BY ZenonT(30), <2>1, <2>2, <2>4 DEF TypeOK
  <1>4. CASE HandleOpenDies(p)
    <2>1. alive' \in BOOLEAN /\ UNCHANGED <<clientVars, nodeVars, posted, boundVars>>
      BY ZenonT(30), <1>4 DEF HandleOpenDies, Crash
    <2>2. TypeOK'
      BY ZenonT(30), <2>1 DEF nodeVars, TypeOK
    <2> QED BY <2>1, <2>2, QueuesUntouched DEF nodeVars
  <1> QED BY <1>2, <1>3, <1>4

\* A turn of commit_log_entries.
LEMMA CommitStep ==
  ASSUME TypeOK, QueuesConsistent, NEW p \in Partition, CommitLogEntry(p)
  PROVE  TypeOK' /\ QueuesConsistent'
  <1> USE DEF clientVars, boundVars
  <1> DEFINE C == Client \cup {ClientOne}
             q == message_queue_[p]
             e == Head(log[p])
             r == commit_log_entry(q, e)
  <1>1. /\ q \in MessageQueues(Id, C) /\ OneState(q)
        /\ log \in [Partition -> Seq(LogEntry)]
        /\ committing \in [Partition -> BOOLEAN]
        /\ id_temp \in [Partition -> SUBSET Id]
    BY ZenonT(30) DEF TypeOK, QueuesConsistent
  <1>2. /\ id_temp[p] = {} /\ log[p] # <<>>
        /\ message_queue_' = [message_queue_ EXCEPT ![p] = r]
        /\ log' = [log EXCEPT ![p] = Tail(@)]
        /\ \/ /\ committing' = [committing EXCEPT ![p] = FALSE]
              /\ id_temp' = [id_temp EXCEPT ![p] = ToDeliver(p, r)]
           \/ /\ committing' = [committing EXCEPT ![p] = TRUE]
              /\ UNCHANGED id_temp
        /\ UNCHANGED <<clientVars, leader, posted, alive, boundVars>>
    BY DEF CommitLogEntry
  <1>3. e \in LogEntry /\ log' \in [Partition -> Seq(LogEntry)]
    BY <1>1, <1>2, SeqFacts
  <1>4. e.message_id \in Id
    BY <1>3 DEF LogEntry
  <1> HIDE DEF q, e
  <1>5. r \in MessageQueues(Id, C) /\ OneState(r)
    BY SMTT(30), <1>1, <1>4, InsertKeeps, CommitKeeps DEF commit_log_entry
  <1> HIDE DEF r
  <1>6. committing' \in [Partition -> BOOLEAN]
    BY ZenonT(30), <1>1, <1>2
  <1>7. PICK rest : rest \in SUBSET r.undelivered_messages_
                      /\ id_temp' = [id_temp EXCEPT ![p] = rest]
    <2>1. CASE id_temp' = [id_temp EXCEPT ![p] = ToDeliver(p, r)]
      BY ZenonT(30), <2>1, ToDeliverFacts
    <2>2. CASE UNCHANGED id_temp
      <3>1. id_temp' = [id_temp EXCEPT ![p] = {}]
        BY <1>1, <1>2, <2>2
      <3> QED BY ZenonT(30), <3>1
    <2> QED BY SMTT(30), <1>2, <2>1, <2>2
  <1>8. /\ message_queue_' \in [Partition -> MessageQueues(Id, C)]
        /\ id_temp' \in [Partition -> SUBSET Id]
        /\ QueuesConsistent'
    BY ZenonT(30), <1>2, <1>5, <1>7, OneQueueStep
  <1> QED BY ZenonT(30), <1>2, <1>3, <1>6, <1>8 DEF TypeOK

\* What the consensus half of the node does.
LEMMA ConsensusStep ==
  ASSUME TypeOK, QueuesConsistent, NEW p \in Partition,
         AppendEntry(p) \/ BecomeLeader(p) \/ BecomeFollower(p)
  PROVE  TypeOK' /\ QueuesConsistent'
  <1> USE DEF clientVars
  <1>1. /\ log \in [Partition -> Seq(LogEntry)]
        /\ entries \in [Partition -> Nat] /\ terms \in [Partition -> Nat]
        /\ leader \in [Partition -> BOOLEAN]
    BY DEF TypeOK
  <1>2. CASE AppendEntry(p)
    <2>1. PICK op \in {"ADD", "COMMIT"}, id \in Id :
            log' = [log EXCEPT ![p] =
                      Append(@, [operation |-> op, message_id |-> id])]
      BY ZenonT(30), <1>2 DEF AppendEntry
    <2>2. [operation |-> op, message_id |-> id] \in LogEntry
      BY DEF LogEntry
    <2>3. log' \in [Partition -> Seq(LogEntry)]
      BY SMTT(30), <1>1, <2>1, <2>2, SeqFacts
    <2>4. /\ entries' \in [Partition -> Nat]
          /\ UNCHANGED <<clientVars, leader, message_queue_, committing, id_temp,
                         posted, alive, opens, terms>>
      BY <1>1, <1>2, SMTT(30) DEF AppendEntry
    <2>5. TypeOK'
      BY ZenonT(30), <2>3, <2>4 DEF TypeOK
    <2> QED BY <2>4, <2>5, QueuesUntouched
  <1>3. CASE BecomeLeader(p)
    <2>1. /\ leader' \in [Partition -> BOOLEAN] /\ terms' \in [Partition -> Nat]
          /\ UNCHANGED <<clientVars, log, message_queue_, committing, id_temp,
                         posted, alive, opens, entries>>
      BY <1>1, <1>3 DEF BecomeLeader
    <2>2. TypeOK'
      BY ZenonT(30), <2>1 DEF TypeOK
    <2> QED BY <2>1, <2>2, QueuesUntouched
  <1>4. CASE BecomeFollower(p)
    <2>1. PICK k \in 0..Len(log[p]) : log' = [log EXCEPT ![p] = SubSeq(@, 1, k)]
      BY ZenonT(30), <1>4 DEF BecomeFollower
    <2>2. log' \in [Partition -> Seq(LogEntry)]
      BY <1>1, <2>1, SeqFacts
    <2>3. /\ leader' \in [Partition -> BOOLEAN]
          /\ UNCHANGED <<clientVars, message_queue_, committing, id_temp, posted,
                         alive, boundVars>>
      BY <1>1, <1>4 DEF BecomeFollower
    <2>4. TypeOK'
      BY ZenonT(30), <2>2, <2>3 DEF TypeOK, boundVars
    <2> QED BY <2>3, <2>4, QueuesUntouched
  <1> QED BY <1>2, <1>3, <1>4
-----------------------------------------------------------------------------
\* The initial state.
LEMMA InitConsistent ==
  ASSUME Init
  PROVE  TypeOK /\ QueuesConsistent
  <1> DEFINE C == Client \cup {ClientOne}
  <1>1. EmptyQueue \in MessageQueues(Id, C)
    <2>1. [c \in {} |-> {}] \in [{} -> SUBSET Id]
      OBVIOUS
    <2>2. [m \in {} |-> {}] \in [{} -> C]
      OBVIOUS
    <2> QED BY ZenonT(30), <2>1, <2>2 DEF EmptyQueue, MessageQueues
  <1>2. OneState(EmptyQueue)
    BY DEF EmptyQueue, OneState, Delivered
  <1>3. <<>> \in Seq(Handler) /\ <<>> \in Seq(LogEntry)
    OBVIOUS
  <1>4. consumer_client_id_array_ \in [{} -> Seq(Client)]
    BY DEF Init
  <1>5. TypeOK
    BY ZenonT(30), <1>1, <1>3, <1>4 DEF Init, TypeOK
  <1>6. QueuesConsistent
    BY <1>2 DEF Init, QueuesConsistent
  <1> QED BY <1>5, <1>6

\* Every step keeps the types and the consistency of the queues.
LEMMA StepConsistent ==
  ASSUME TypeOK, QueuesConsistent, [Next]_vars
  PROVE  TypeOK' /\ QueuesConsistent'
  <1>1. ASSUME NEW c \in Client,
               \/ accept_new_connection(c) \/ disconnected(c)
               \/ \E p \in Partition : open_queue(c, p)
        PROVE  TypeOK' /\ QueuesConsistent'
    BY <1>1, ClientManagerStep
  <1>2. ASSUME NEW p \in Partition, NodeThread(p)
        PROVE  TypeOK' /\ QueuesConsistent'
    BY <1>2, DeliverStep, HandlerStep, CommitStep DEF NodeThread
  <1>3. ASSUME NEW p \in Partition,
               AppendEntry(p) \/ BecomeLeader(p) \/ BecomeFollower(p)
        PROVE  TypeOK' /\ QueuesConsistent'
    BY <1>3, ConsensusStep
  <1>4. CASE UNCHANGED vars
    <2>1. UNCHANGED <<clientVars, nodeVars, posted, alive, boundVars>>
      BY <1>4 DEF vars
    <2>2. TypeOK'
      BY ZenonT(30), <2>1 DEF TypeOK, clientVars, nodeVars, boundVars
    <2> QED BY <2>1, <2>2, QueuesUntouched DEF nodeVars
  <1> QED BY SMTT(30), <1>1, <1>2, <1>3, <1>4 DEF Next

\* Together with its types, a queue never leaves a consistent state: the three
\* sets and the two maps of MessageQueue agree in every state of the server,
\* for any number of partitions, connections and messages.
THEOREM DeliveryInvariance == Spec => [](TypeOK /\ QueuesConsistent)
  <1>1. Init => TypeOK /\ QueuesConsistent
    BY InitConsistent
  <1>2. TypeOK /\ QueuesConsistent /\ [Next]_vars => (TypeOK /\ QueuesConsistent)'
    BY StepConsistent
  <1> QED BY <1>1, <1>2, PTL DEF Spec

\* Every variable of the server keeps its type: the round robin returns a
\* client id, the queue a delivery loop walks over holds message ids.
THEOREM DeliveryTypeCorrect == Spec => []TypeOK
  BY DeliveryInvariance, PTL

\* A message is undelivered, with exactly one consumer, or committed, as the
\* comment in message_queue.hpp promises, and a delivery loop only holds
\* undelivered messages.
THEOREM MessagesInOneState == Spec => []QueuesConsistent
  BY DeliveryInvariance, PTL

\* trigger_message_delivery never writes a message to a client once the commit
\* of that message was applied.
THEOREM NoDeliveryAfterCommit == Spec => CommittedNotSent
  <1> DEFINE NotSent == \A c \in Client, p \in Partition :
                          \A m \in message_queue_[p].committed_messages_ :
                            <<p, m>> \in received'[c] => <<p, m>> \in received[c]
  <1>1. TypeOK /\ QueuesConsistent /\ [Next]_vars => [NotSent]_vars
    <2> SUFFICES ASSUME TypeOK, QueuesConsistent, Next PROVE NotSent
      OBVIOUS
    <2>1. CASE UNCHANGED received
      BY <2>1
    <2>2. ASSUME NEW p \in Partition, DeliverOne(p) PROVE NotSent
      <3> DEFINE client == RoundRobin(p)
      <3>1. PICK id \in id_temp[p] :
              IF client \in Client
              THEN received' = [received EXCEPT ![client] = @ \cup {<<p, id>>}]
              ELSE UNCHANGED received
        BY <2>2 DEF DeliverOne
      <3>2. id \notin message_queue_[p].committed_messages_
        BY DEF QueuesConsistent, OneState
      <3>3. received \in [Client -> SUBSET (Partition \X Id)]
        BY SMTT(30) DEF TypeOK
      <3> HIDE DEF client
      <3> QED BY SMTT(30), <3>1, <3>2, <3>3
    <2>3. (\E p \in Partition : DeliverOne(p)) \/ UNCHANGED received
      BY ZenonT(30) DEF Next, NodeThread, accept_new_connection, disconnected, open_queue,
             DeliverNone, DeliverDies, HandleOpen, HandleOpenDies, Crash,
             consumer_disconnected, CommitLogEntry, AppendEntry, BecomeLeader,
             BecomeFollower, clientVars
    <2> QED BY SMTT(30), <2>1, <2>2, <2>3
  <1> QED BY <1>1, DeliveryInvariance, PTL DEF CommittedNotSent, Spec
=============================================================================
