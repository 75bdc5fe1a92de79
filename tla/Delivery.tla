------------------------------ MODULE Delivery ------------------------------
(***************************************************************************)
(* Delivery of messages to clients inside one server process: the client   *)
(* manager (client_manager.cpp), which runs on the thread of the main      *)
(* io_context, and the delivery half of a cluster node per partition       *)
(* (cluster_node.cpp), each on the thread of its own io_context.  The      *)
(* threads meet in the mutex of the client manager and in the handlers     *)
(* that the client manager posts to the nodes through the cluster master.  *)
(*                                                                         *)
(* A node's log is reduced to the entries that wait to be committed, and   *)
(* its role to whether it is LEADER; module ClusterNode has both in full.  *)
(* A client is one connection: a program that reconnects is a new client.  *)
(***************************************************************************)
EXTENDS MessageQueue, Integers, Sequences, FiniteSets, SequencesExt

CONSTANTS
    Partition,      \* the partitions of this server
    Client,         \* the connections, by the id accept_new_connection draws
    Id,             \* message ids
    ClientOne,      \* the client id 1
    NoClient,       \* the client id -1
    MaxOpen,        \* bound: open-queue requests of one connection
    MaxEntries,     \* bound: log entries per partition
    MaxTerms        \* bound: elections won per partition

ASSUME IdAssumption == Id \subseteq Nat
ASSUME ClientAssumption ==
    ClientOne \notin Client /\ NoClient \notin Client \cup {ClientOne}

VARIABLES
    session,                    \* "NEW", "OPEN" (in client_sessions_), "GONE"
    consumer_client_id_array_,  \* the partitions opened -> client ids in turn
    deliver_count_,             \* partition -> deliveries so far
    posted,                     \* partition -> handlers posted to its node
    leader,                     \* partition -> state_ = LEADER
    log,                        \* partition -> entries not yet committed
    message_queue_,             \* partition -> queue
    committing,                 \* partition -> inside commit_log_entries
    id_temp,                    \* partition -> rest of the delivery loop
    received,                   \* client -> messages written to it
    answered,                   \* clients sent an answer to an open request
    alive,                      \* the process has not crashed
    opens, entries, terms       \* counters of the bounds

clientVars == <<session, consumer_client_id_array_, deliver_count_, received,
                answered>>
nodeVars == <<leader, log, message_queue_, committing, id_temp>>
boundVars == <<opens, entries, terms>>
vars == <<clientVars, nodeVars, posted, alive, boundVars>>

\* Handlers: an open-queue request, or consumer_disconnected of a client.
Handler == [type : {"OPEN", "DISCONNECTED"}, client : Client]

LogEntry == [operation : {"ADD", "COMMIT"}, message_id : Id]

Init ==
    /\ session = [c \in Client |-> "NEW"]
    /\ consumer_client_id_array_ = [p \in {} |-> <<>>]
    /\ deliver_count_ = [p \in Partition |-> 0]
    /\ posted = [p \in Partition |-> <<>>]
    /\ leader = [p \in Partition |-> FALSE]
    /\ log = [p \in Partition |-> <<>>]
    /\ message_queue_ = [p \in Partition |-> EmptyQueue]
    /\ committing = [p \in Partition |-> FALSE]
    /\ id_temp = [p \in Partition |-> {}]
    /\ received = [c \in Client |-> {}]
    /\ answered = {}
    /\ alive = TRUE
    /\ opens = [c \in Client |-> 0]
    /\ entries = [p \in Partition |-> 0]
    /\ terms = [p \in Partition |-> 0]
-----------------------------------------------------------------------------
(* The thread of the client manager.                                       *)

accept_new_connection(c) ==
    /\ alive /\ session[c] = "NEW"
    /\ session' = [session EXCEPT ![c] = "OPEN"]
    /\ UNCHANGED <<consumer_client_id_array_, deliver_count_, received,
                   answered, nodeVars, posted, alive, boundVars>>

\* (Changed: the array of a partition is only looked up, never created.)
ListedIfOpened(array, c, p) ==
    [k \in DOMAIN array |-> IF k = p THEN Append(array[k], c) ELSE array[k]]

\* operator[] creates the array of the partition when it is missing.
Listed(array, c, p) ==
    [k \in DOMAIN array \cup {p} |->
       IF k # p THEN array[k]
       ELSE IF p \in DOMAIN array THEN Append(array[p], c) ELSE <<c>>]

\* CLIENT_OPEN_QUEUE: the client is listed as a consumer of the partition,
\* whatever the node will answer, and the request goes on to the node.
open_queue(c, p) ==
    /\ alive /\ session[c] = "OPEN" /\ opens[c] < MaxOpen
    /\ opens' = [opens EXCEPT ![c] = @ + 1]
    /\ consumer_client_id_array_' = Listed(consumer_client_id_array_, c, p)
    /\ posted' = [posted EXCEPT ![p] = Append(@, [type |-> "OPEN", client |-> c])]
    /\ UNCHANGED <<session, deliver_count_, received, answered, nodeVars, alive,
                   entries, terms>>

\* (Changed: only the map of sessions forgets the client.)
RemovedFromNone(array, c) == array

\* std::find and erase: the first occurrence of c in every partition.
Removed(array, c) ==
    [p \in DOMAIN array |-> RemoveFirst(array[p], c)]

\* The disconnect handler of the session, then ClusterMaster's
\* client_disconnected, which posts to every partition.
disconnected(c) ==
    /\ alive /\ session[c] = "OPEN"
    /\ session' = [session EXCEPT ![c] = "GONE"]
    /\ consumer_client_id_array_' = Removed(consumer_client_id_array_, c)
    /\ posted' = [p \in Partition |->
         Append(posted[p], [type |-> "DISCONNECTED", client |-> c])]
    /\ UNCHANGED <<deliver_count_, received, answered, nodeVars, alive, boundVars>>
-----------------------------------------------------------------------------
(* The thread of a node.  It is idle between two handlers.                 *)

Idle(p) == alive /\ ~committing[p] /\ id_temp[p] = {}

has_consumers == DOMAIN consumer_client_id_array_ # {}

\* The client whose turn it is: 1 when no client ever opened the partition,
\* -1 when all that did are gone.
RoundRobin(p) ==
    IF p \notin DOMAIN consumer_client_id_array_ THEN ClientOne
    ELSE LET array == consumer_client_id_array_[p] IN
         IF array = <<>> THEN NoClient
         ELSE array[(deliver_count_[p] % Len(array)) + 1]

\* (Changed: the test of the role is inverted.)
ToDeliverAtFollower(p, q) ==
    IF ~leader[p] /\ has_consumers
    THEN q.undelivered_messages_
    ELSE {}

\* The prologue of trigger_message_delivery: the ids it will loop over.
ToDeliver(p, q) ==
    IF leader[p] /\ has_consumers
    THEN q.undelivered_messages_
    ELSE {}

\* Writing through a null session pointer: the process dies.
Crash ==
    /\ alive' = FALSE
    /\ UNCHANGED <<clientVars, nodeVars, posted, boundVars>>

Failed(client) == client = NoClient

\* One turn of the loop of trigger_message_delivery, which goes through a
\* std::set in its order.  Only the choice of the
\* client and the write are under the mutex; message_queue_ is private to the
\* thread, so the turn is one step.
DeliverOne(p) ==
    LET client == RoundRobin(p) IN
    /\ alive /\ ~Failed(client)
    /\ client \in Client => session[client] = "OPEN"
    /\ \E id \in id_temp[p] :
         /\ \A other \in id_temp[p] : id <= other
         /\ IF client \in Client
            THEN /\ received' = [received EXCEPT ![client] = @ \cup {<<p, id>>}]
                 /\ deliver_count_' = [deliver_count_ EXCEPT ![p] = @ + 1]
            ELSE UNCHANGED <<received, deliver_count_>>
         /\ message_queue_' = [message_queue_ EXCEPT ![p] =
              deliver_message_to_client_id(@, id, client)]
         /\ id_temp' = [id_temp EXCEPT ![p] = @ \ {id}]
    /\ UNCHANGED <<session, consumer_client_id_array_, answered, leader, log,
                   committing, posted, alive, boundVars>>

\* No client is left: the loop ends.
DeliverNone(p) ==
    /\ alive /\ id_temp[p] # {} /\ Failed(RoundRobin(p))
    /\ id_temp' = [id_temp EXCEPT ![p] = {}]
    /\ UNCHANGED <<clientVars, leader, log, message_queue_, committing, posted,
                   alive, boundVars>>

DeliverDies(p) ==
    /\ alive /\ id_temp[p] # {}
    /\ RoundRobin(p) \in Client /\ session[RoundRobin(p)] # "OPEN"
    /\ Crash

\* The handler of CLIENT_OPEN_QUEUE.  The answer, of success or with the
\* address of the leader, goes to the client whose turn it is, which need not
\* be the one that asked; a leader then delivers.
HandleOpen(p) ==
    LET client == RoundRobin(p) IN
    /\ Idle(p) /\ posted[p] # <<>> /\ Head(posted[p]).type = "OPEN"
    /\ client \in Client => session[client] = "OPEN"
    /\ posted' = [posted EXCEPT ![p] = Tail(@)]
    /\ IF client \in Client
       THEN /\ answered' = answered \cup {client}
            /\ deliver_count_' = [deliver_count_ EXCEPT ![p] = @ + 1]
       ELSE UNCHANGED <<answered, deliver_count_>>
    /\ id_temp' = [id_temp EXCEPT ![p] = ToDeliver(p, message_queue_[p])]
    /\ UNCHANGED <<session, consumer_client_id_array_, received, leader, log,
                   message_queue_, committing, alive, boundVars>>

HandleOpenDies(p) ==
    /\ Idle(p) /\ posted[p] # <<>> /\ Head(posted[p]).type = "OPEN"
    /\ RoundRobin(p) \in Client /\ session[RoundRobin(p)] # "OPEN"
    /\ Crash

consumer_disconnected(p) ==
    LET q == handle_client_disconnected(message_queue_[p],
                                        Head(posted[p]).client)
    IN
    /\ Idle(p) /\ posted[p] # <<>> /\ Head(posted[p]).type = "DISCONNECTED"
    /\ posted' = [posted EXCEPT ![p] = Tail(@)]
    /\ message_queue_' = [message_queue_ EXCEPT ![p] = q]
    /\ id_temp' = [id_temp EXCEPT ![p] = ToDeliver(p, q)]
    /\ UNCHANGED <<clientVars, leader, log, committing, alive, boundVars>>

commit_log_entry(q, e) ==
    IF e.operation = "ADD" THEN insert_message(q, e.message_id)
                           ELSE commit_message(q, e.message_id)

\* One turn of the loop of commit_log_entries.  How many entries the loop
\* covers is up to the caller; after the last one a leader delivers.
CommitLogEntry(p) ==
    LET q == commit_log_entry(message_queue_[p], Head(log[p])) IN
    /\ alive /\ id_temp[p] = {} /\ log[p] # <<>>
    /\ message_queue_' = [message_queue_ EXCEPT ![p] = q]
    /\ log' = [log EXCEPT ![p] = Tail(@)]
    /\ \/ /\ committing' = [committing EXCEPT ![p] = FALSE]
          /\ id_temp' = [id_temp EXCEPT ![p] = ToDeliver(p, q)]
       \/ /\ Tail(log[p]) # <<>>
          /\ committing' = [committing EXCEPT ![p] = TRUE]
          /\ UNCHANGED id_temp
    /\ UNCHANGED <<clientVars, leader, posted, alive, boundVars>>
-----------------------------------------------------------------------------
(* What the other half of the node does: see module ClusterNode.           *)

\* An entry is appended to the log, by the leader for a client or by a
\* follower for the leader.  The id of a new message is drawn at random; a
\* client commits the id of a message it was sent, here or by another node.
AppendEntry(p) ==
    /\ Idle(p) /\ entries[p] < MaxEntries
    /\ entries' = [entries EXCEPT ![p] = @ + 1]
    /\ \E op \in {"ADD", "COMMIT"}, id \in Id :
         /\ op = "COMMIT" <=> \/ id \in message_queue_[p].message_store_
                             \/ \E e \in Range(log[p]) : e.message_id = id
         /\ log' = [log EXCEPT ![p] =
              Append(@, [operation |-> op, message_id |-> id])]
    /\ UNCHANGED <<clientVars, leader, message_queue_, committing, id_temp, posted,
                   alive, opens, terms>>

\* The node wins an election; nothing is delivered at this point.
BecomeLeader(p) ==
    /\ Idle(p) /\ ~leader[p] /\ terms[p] < MaxTerms
    /\ leader' = [leader EXCEPT ![p] = TRUE]
    /\ terms' = [terms EXCEPT ![p] = @ + 1]
    /\ UNCHANGED <<clientVars, log, message_queue_, committing, id_temp, posted,
                   alive, opens, entries>>

\* The node follows another leader, whose entries may replace its own.
BecomeFollower(p) ==
    /\ Idle(p) /\ leader[p] /\ terms[p] < MaxTerms
    /\ leader' = [leader EXCEPT ![p] = FALSE]
    /\ \E k \in 0..Len(log[p]) : log' = [log EXCEPT ![p] = SubSeq(@, 1, k)]
    /\ UNCHANGED <<clientVars, message_queue_, committing, id_temp, posted, alive,
                   boundVars>>
-----------------------------------------------------------------------------
\* What the thread of partition p runs of its own accord.
NodeThread(p) ==
    \/ DeliverOne(p) \/ DeliverNone(p) \/ DeliverDies(p)
    \/ HandleOpen(p) \/ HandleOpenDies(p) \/ consumer_disconnected(p)
    \/ CommitLogEntry(p)

Next ==
    \/ \E c \in Client : accept_new_connection(c) \/ disconnected(c)
    \/ \E c \in Client, p \in Partition : open_queue(c, p)
    \/ \E p \in Partition : NodeThread(p)
    \/ \E p \in Partition : AppendEntry(p) \/ BecomeLeader(p) \/ BecomeFollower(p)

Spec == Init /\ [][Next]_vars

\* A thread that has something to run gets to run it.
FairSpec == Spec /\ \A p \in Partition : WF_vars(NodeThread(p))
-----------------------------------------------------------------------------
\* The variables have their types.
TypeOK ==
    /\ session \in [Client -> {"NEW", "OPEN", "GONE"}]
    /\ \E P \in SUBSET Partition : consumer_client_id_array_ \in [P -> Seq(Client)]
    /\ deliver_count_ \in [Partition -> Nat]
    /\ posted \in [Partition -> Seq(Handler)]
    /\ leader \in [Partition -> BOOLEAN]
    /\ log \in [Partition -> Seq(LogEntry)]
    /\ message_queue_ \in [Partition -> MessageQueues(Id, Client \cup {ClientOne})]
    /\ committing \in [Partition -> BOOLEAN]
    /\ id_temp \in [Partition -> SUBSET Id]
    /\ received \in [Client -> SUBSET (Partition \X Id)]
    /\ answered \subseteq Client
    /\ alive \in BOOLEAN
    /\ opens \in [Client -> Nat]
    /\ entries \in [Partition -> Nat]
    /\ terms \in [Partition -> Nat]

\* A message is undelivered, with one consumer, or committed, never two of
\* them, however commits, deliveries and disconnects interleave; what the
\* delivery loop still holds is undelivered (trigger_message_delivery).
QueuesConsistent ==
    \A p \in Partition :
      /\ OneState(message_queue_[p])
      /\ id_temp[p] \subseteq message_queue_[p].undelivered_messages_

\* A message counts as delivered to a client only while that client is
\* connected or its disconnect is still on the way to the node: otherwise no
\* one will ever commit it or hand it back (deliver_one_message_round_robin
\* against the disconnect handler).
NoOrphans ==
    \A p \in Partition : \A m \in Delivered(message_queue_[p]) :
      LET c == message_queue_[p].message_id_to_consumer_[m] IN
      /\ c \in Client
      /\ <<p, m>> \in received[c]
      /\ \/ session[c] = "OPEN"
         \/ [type |-> "DISCONNECTED", client |-> c] \in Range(posted[p])

\* A message is not written to a client after its commit was applied
\* (trigger_message_delivery, commit_message).
CommittedNotSent ==
    [][\A c \in Client, p \in Partition :
         \A m \in message_queue_[p].committed_messages_ :
           <<p, m>> \in received'[c] => <<p, m>> \in received[c]]_vars

\* The process writes through a null session only when a client has gone that had
\* opened the same queue twice: the disconnect handler erases one of its two
\* entries (std::find in accept_new_connection).
DiesOnlyOfDoubleOpen ==
    ~alive => \E c \in Client : session[c] = "GONE" /\ opens[c] > 1

\* While a leader has a handler to run, no message stays undelivered as long
\* as there is a consumer (trigger_message_delivery at the end of every
\* handler) and the process lives.
Delivers ==
    \A p \in Partition, m \in Id :
      (leader[p] /\ posted[p] # <<>> /\ m \in message_queue_[p].undelivered_messages_)
        ~> (\/ m \notin message_queue_[p].undelivered_messages_
            \/ ~leader[p] \/ RoundRobin(p) \notin Client \/ ~alive)

\* A client that opens a queue while nobody else does is answered, by whatever
\* role the node has, unless it goes ("this only works when one client is
\* opening in the queue", the handler of CLIENT_OPEN_QUEUE).
OnlyOpenerAnswered ==
    \A c \in Client :
      opens[c] > 0 ~> (\/ c \in answered \/ session[c] = "GONE"
                      \/ \E d \in Client \ {c} : opens[d] > 0)
=============================================================================
