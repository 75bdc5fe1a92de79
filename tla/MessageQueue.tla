---------------------------- MODULE MessageQueue ----------------------------
(***************************************************************************)
(* The state of one message queue (message_queue.hpp, message_queue.cpp).  *)
(* A queue is a record with the members of the class; the maps are         *)
(* functions whose domain is the set of keys present.  The methods are     *)
(* operators from a queue to the queue they leave behind; their return     *)
(* codes are ignored by every caller.  The text of a message is left out:  *)
(* message_store_ is the set of its keys.                                  *)
(***************************************************************************)
EXTENDS Naturals, Functions

\* The queues over a set of message ids and a set of client ids.
MessageQueues(Id, ClientId) ==
    [message_store_ : SUBSET Id,
     undelivered_messages_ : SUBSET Id,
     committed_messages_ : SUBSET Id,
     consumer_id_delivered_messages_ :
         UNION {[C -> SUBSET Id] : C \in SUBSET ClientId},
     message_id_to_consumer_ : UNION {[M -> ClientId] : M \in SUBSET Id}]

EmptyQueue ==
    [message_store_ |-> {}, undelivered_messages_ |-> {},
     committed_messages_ |-> {},
     consumer_id_delivered_messages_ |-> [c \in {} |-> {}],
     message_id_to_consumer_ |-> [m \in {} |-> {}]]

\* (Changed: an id that is already stored is queued again.)
insert_message_again(q, id) ==
    [q EXCEPT !.message_store_ = @ \cup {id},
              !.undelivered_messages_ = @ \cup {id}]

insert_message(q, id) ==
    IF id \in q.message_store_ THEN q
    ELSE [q EXCEPT !.message_store_ = @ \cup {id},
                   !.undelivered_messages_ = @ \cup {id}]

\* The delivery of id, if there is one, is taken back.
ForgetDelivery(q, id) ==
    IF id \notin DOMAIN q.message_id_to_consumer_ THEN q
    ELSE LET c == q.message_id_to_consumer_[id] IN
         [q EXCEPT !.consumer_id_delivered_messages_[c] = @ \ {id},
                   !.message_id_to_consumer_ = Restrict(@, DOMAIN @ \ {id})]

\* (Changed: the id stays with the consumer it was delivered to.)
commit_message_keeping(q, id) ==
    IF id \notin q.message_store_ THEN q
    ELSE [q EXCEPT !.committed_messages_ = @ \cup {id},
                   !.undelivered_messages_ = @ \ {id}]

\* (Changed: an id that waits for a consumer keeps waiting.)
commit_message_waiting(q, id) ==
    IF id \notin q.message_store_ THEN q
    ELSE [ForgetDelivery(q, id) EXCEPT !.committed_messages_ = @ \cup {id}]

commit_message(q, id) ==
    IF id \notin q.message_store_ THEN q
    ELSE [ForgetDelivery(q, id) EXCEPT
            !.committed_messages_ = @ \cup {id},
            !.undelivered_messages_ = @ \ {id}]

\* operator[] of the first map creates the consumer's set when it is missing.
deliver_message_to_client_id(q, id, client_id) ==
    LET old == q.consumer_id_delivered_messages_
        set == IF client_id \in DOMAIN old THEN old[client_id] ELSE {}
    IN [q EXCEPT
          !.undelivered_messages_ = @ \ {id},
          !.consumer_id_delivered_messages_ =
             [c \in DOMAIN old \cup {client_id} |->
                IF c = client_id THEN set \cup {id} ELSE old[c]],
          !.message_id_to_consumer_ =
             [m \in DOMAIN @ \cup {id} |-> IF m = id THEN client_id ELSE @[m]]]

\* (Changed: the messages of the consumer are not queued again.)
handle_client_disconnected_losing(q, client_id) ==
    IF client_id \notin DOMAIN q.consumer_id_delivered_messages_ THEN q
    ELSE [q EXCEPT !.consumer_id_delivered_messages_ =
                      Restrict(@, DOMAIN @ \ {client_id})]

handle_client_disconnected(q, client_id) ==
    IF client_id \notin DOMAIN q.consumer_id_delivered_messages_ THEN q
    ELSE LET back == q.consumer_id_delivered_messages_[client_id] IN
         [q EXCEPT
            !.undelivered_messages_ = @ \cup back,
            !.message_id_to_consumer_ = Restrict(@, DOMAIN @ \ back),
            !.consumer_id_delivered_messages_ =
               Restrict(@, DOMAIN @ \ {client_id})]
-----------------------------------------------------------------------------
\* The messages with a consumer.
Delivered(q) == DOMAIN q.message_id_to_consumer_

\* A message is in exactly one of the three states message_queue.hpp names,
\* and the two delivery maps are inverse to each other.
OneState(q) ==
    /\ q.message_store_ = q.undelivered_messages_ \cup q.committed_messages_
                            \cup Delivered(q)
    /\ q.undelivered_messages_ \cap q.committed_messages_ = {}
    /\ q.undelivered_messages_ \cap Delivered(q) = {}
    /\ q.committed_messages_ \cap Delivered(q) = {}
    /\ \A m \in Delivered(q) :
         LET c == q.message_id_to_consumer_[m] IN
         /\ c \in DOMAIN q.consumer_id_delivered_messages_
         /\ m \in q.consumer_id_delivered_messages_[c]
    /\ \A c \in DOMAIN q.consumer_id_delivered_messages_ :
         \A m \in q.consumer_id_delivered_messages_[c] :
           m \in Delivered(q) /\ q.message_id_to_consumer_[m] = c
=============================================================================
