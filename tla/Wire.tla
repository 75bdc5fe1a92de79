-------------------------------- MODULE Wire --------------------------------
(***************************************************************************)
(* What the nodes and the clients tell each other, down to the bytes: the  *)
(* handlers that build a message (ClusterNode, SimpleClient), RaftMessage  *)
(* that wraps it, Message and its header, and the way back through the     *)
(* generated code of FlowMessage.                                          *)
(*                                                                         *)
(* A producer, a leader, a follower and a consumer exchange one frame at a *)
(* time.  The text a producer puts travels as a put message, as a field of *)
(* the leader's log entry, inside an append request into the follower's    *)
(* log, and from either log to the consumer; the id the consumer is given  *)
(* comes back in its commit and goes the same way.  Control messages are   *)
(* exchanged on the side.  Loss, order and broken connections are the      *)
(* subject of Links; elections and commits are the subject of ClusterNode. *)
(***************************************************************************)
EXTENDS FlowMessage

CONSTANTS
  Edge,        \* the numbers the fields take: a sequence around the varint sizes
  MessageId,   \* the ids random_id takes (any 64 bit number), one for each
  TextLengths, \* lengths of the texts producers put
  MaxEntries   \* bound: length of the leader's log

ASSUME EdgeAssumption == /\ Len(Edge) > 0
                         /\ \A i \in DOMAIN Edge : Edge[i] \in Nat
                         /\ Len(MessageId) = Len(Edge)
ASSUME BoundAssumption == MaxEntries \in Nat /\ TextLengths \subseteq Nat

HEADER_LENGTH == 20
MAX_BODY_LENGTH == 1000

VARIABLES
  log,        \* [LEADER, FOLLOWER -> log_entries_ without the sentinel]
  intent,     \* what the sender of the frame was to say, in a sequence
  frame,      \* the bytes on the connection, <<>> when they have been read
  texts,      \* the texts put so far, one for each ADD entry
  delivered   \* what the consumer's handler was last called with, in a sequence

vars == <<log, intent, frame, texts, delivered>>

LEADER == "LEADER"
FOLLOWER == "FOLLOWER"
ADD == 0
COMMIT == 1
SUCCESS == 0
ERROR == 1

(* Each field of a message gets another number: the list from some offset on. *)
Number(seed, j) == Edge[((seed + j) % Len(Edge)) + 1]
Seed == 1..Len(Edge)

(* A text of n bytes; every byte value occurs in a long one. *)
Text(n) == [i \in 1..n |-> i % 256]

-----------------------------------------------------------------------------
(* RaftMessage: the load functions name the type and the field they fill,
   the getters the field they return. *)
Loads ==
  (0 :> "request_vote_request") @@ (1 :> "request_vote_response")
  @@ (2 :> "append_entries_request") @@ (3 :> "append_entries_response")
  @@ (10 :> "client_put_message") @@ (11 :> "client_commit_message")
  @@ (12 :> "server_send_message") @@ (13 :> "client_open_queue")
  @@ (16 :> "client_open_queue_response")

Getters ==
  (0 :> "request_vote_request") @@ (1 :> "request_vote_response")
  @@ (2 :> "append_entries_request") @@ (3 :> "append_entries_response")
  @@ (10 :> "client_put_message") @@ (11 :> "client_commit_message")
  @@ (12 :> "server_send_message") @@ (13 :> "client_open_queue")
  @@ (16 :> "client_open_queue_response")

(* The class of each of these fields. *)
BodyType ==
  [request_vote_request |-> "RequestVoteRequest",
   request_vote_response |-> "RequestVoteResponse",
   append_entries_request |-> "AppendEntriesRequest",
   append_entries_response |-> "AppendEntriesResponse",
   client_put_message |-> "ClientPutMessage",
   client_commit_message |-> "ClientCommitMessage",
   server_send_message |-> "ServerSendMessage",
   client_open_queue |-> "ClientOpenQueue",
   client_open_queue_response |-> "ClientOpenQueueResponse"]

(* A new RaftMessage after its load function and set_partition_id. *)
Load(what) ==
  LET x == Loads[what.type]
      typed == Set(FlowMessage_fields, New(FlowMessage_fields), "type", what.type)
      loaded == Set(FlowMessage_fields, typed, x, Built(Fields[BodyType[x]], what.body))
  IN Set(FlowMessage_fields, loaded, "partition_id", what.partition_id)

-----------------------------------------------------------------------------
(* Message: the header holds the length of the body in decimal, the rest of
   its 20 bytes are zero; decode_length is atoi. *)
RECURSIVE to_string(_)
to_string(n) ==
  IF n < 10 THEN <<48 + n>> ELSE Append(to_string(n \div 10), 48 + (n % 10))

set_body_length(n) ==
  to_string(n) \o [i \in 1..(HEADER_LENGTH - Len(to_string(n))) |-> 0]

decode_length(header) ==
  LET stop == Min({i \in 1..Len(header) : header[i] \notin 48..57}
                  \cup {Len(header) + 1})
  IN FoldLeft(LAMBDA n, c : 10 * n + (c - 48), 0, SubSeq(header, 1, stop - 1))

(* serialize_to_message, and what the session hands to the receiver: the
   bytes the header announces, parsed whatever the result. *)
serialize_to_message(m) ==
  set_body_length(ByteSizeLong("FlowMessage", m)) \o Serialize("FlowMessage", m)

Body(f) ==
  SubSeq(f, HEADER_LENGTH + 1,
         HEADER_LENGTH + decode_length(SubSeq(f, 1, HEADER_LENGTH)))

deserialize_from_message(f) == ParseFromArray(Body(f))

(* What the receiver's handler sees of a message. *)
Got(m) == m.value[Getters[m.value.type]].value

-----------------------------------------------------------------------------
(* The messages, as the handlers fill them in. *)
VoteRequest(s) ==
  [type |-> 0, partition_id |-> Number(s, 0),
   body |-> [term |-> Number(s, 1), candidate_id |-> Number(s, 2),
             last_log_index |-> Number(s, 3), last_log_term |-> Number(s, 4)]]

VoteDenied(s) ==
  [type |-> 1, partition_id |-> Number(s, 0),
   body |-> [term |-> Number(s, 1), vote_result_term_granted |-> 0]]
VoteGranted(s) ==
  [type |-> 1, partition_id |-> Number(s, 0),
   body |-> [term |-> Number(s, 1), vote_result_term_granted |-> 1]]

Heartbeat(s) ==
  [type |-> 2, partition_id |-> Number(s, 0),
   body |-> [term |-> Number(s, 1), leader_id |-> Number(s, 2),
             prev_log_index |-> Number(s, 3), prev_log_term |-> Number(s, 4),
             leader_commit |-> Number(s, 5)]]


(* The entry is copied into the element that Add() has made. *)
AppendRequest(s, entry) ==
  [type |-> 2, partition_id |-> Number(s, 0),
   body |-> [term |-> Number(s, 1), leader_id |-> Number(s, 2),
             prev_log_index |-> Number(s, 3), prev_log_term |-> Number(s, 4),
             entries |-> <<CopyFrom(entry)>>, leader_commit |-> Number(s, 5)]]

AppendFailed(s) ==
  [type |-> 3, partition_id |-> Number(s, 0),
   body |-> [term |-> Number(s, 1), follower_id |-> Number(s, 2),
             append_result_success |-> 0, last_index_synced |-> -1]]
AppendSucceeded(s) ==
  [type |-> 3, partition_id |-> Number(s, 0),
   body |-> [term |-> Number(s, 1), follower_id |-> Number(s, 2),
             append_result_success |-> 1, last_index_synced |-> Number(s, 3)]]

OpenQueue(s) ==
  [type |-> 13, partition_id |-> Number(s, 0),
   body |-> [open_mode |-> Number(s, 1), queue_name |-> Text(Number(s, 2) % 200)]]

(* A node that is not the leader; both parts of the address are empty when it
   knows no leader. *)
OpenRefused(s) ==
  [type |-> 16, partition_id |-> Number(s, 0),
   body |-> [status |-> ERROR, error_message |-> Text(19),
             leader_ip |-> Text(Number(s, 1) % 16),
             leader_port |-> Text(Number(s, 1) % 6)]]
OpenAccepted(s) ==
  [type |-> 16, partition_id |-> Number(s, 0),
   body |-> [status |-> SUCCESS, error_message |-> <<>>]]

PutMessage(s, text) ==
  [type |-> 10, partition_id |-> Number(s, 0), body |-> [message |-> text]]

ServerSendIndex(s, entry) ==
  [type |-> 12, partition_id |-> Number(s, 0),
   body |-> [message_id |-> entry.value.index, message |-> entry.value.message]]
ServerSend(s, entry) ==
  [type |-> 12, partition_id |-> Number(s, 0),
   body |-> [message_id |-> entry.value.message_id, message |-> entry.value.message]]

CommitMessage(s, id) ==
  [type |-> 11, partition_id |-> Number(s, 0), body |-> [message_id |-> id]]

(* The entries a leader makes of a put and of a commit. *)
PutEntry(index, term, id, request) ==
  Built(LogEntry_fields,
        [index |-> index, term |-> term, message_id |-> id, operation |-> ADD,
         message |-> request.message])
CommitEntry(index, term, request) ==
  Built(LogEntry_fields,
        [index |-> index, term |-> term, message_id |-> request.message_id,
         operation |-> COMMIT, message |-> <<>>])

-----------------------------------------------------------------------------
Init ==
  /\ log = [n \in {LEADER, FOLLOWER} |-> <<>>]
  /\ intent = <<>>
  /\ frame = <<>>
  /\ texts = <<>>
  /\ delivered = <<>>

Send(what) ==
  /\ frame = <<>>
  /\ intent' = <<what>>
  /\ frame' = serialize_to_message(Load(what))
  /\ UNCHANGED <<log, delivered>>

(* Everything but puts, commits and entries. *)
SendControl ==
  /\ log[LEADER] = <<>>
  /\ \E s \in Seed :
       \/ Send(VoteRequest(s)) \/ Send(VoteDenied(s)) \/ Send(VoteGranted(s))
       \/ Send(Heartbeat(s)) \/ Send(AppendFailed(s)) \/ Send(AppendSucceeded(s))
       \/ Send(OpenQueue(s)) \/ Send(OpenRefused(s)) \/ Send(OpenAccepted(s))
  /\ UNCHANGED texts

(* SimpleClient::send_message. *)
Put ==
  /\ Len(log[LEADER]) < MaxEntries
  /\ \E n \in TextLengths, s \in Seed :
       /\ Send(PutMessage(s, Text(n)))
       /\ texts' = Append(texts, Text(n))

(* trigger_entry_update. *)
Replicate ==
  /\ Len(log[FOLLOWER]) < Len(log[LEADER])
  /\ \E s \in Seed : Send(AppendRequest(s, log[LEADER][Len(log[FOLLOWER]) + 1]))
  /\ UNCHANGED texts

(* trigger_message_delivery, on the node that put the entry into its log or on
   the one that had it replicated. *)
Deliver ==
  /\ \E node \in {LEADER, FOLLOWER} : \E i \in DOMAIN log[node] :
       /\ log[node][i].value.operation = ADD
       /\ Send(ServerSend(i, log[node][i]))
  /\ UNCHANGED texts

(* SimpleClient::commit_message, for the message it was given last. *)
Commit ==
  /\ delivered # <<>>
  /\ Len(log[LEADER]) < MaxEntries
  /\ \E s \in Seed : Send(CommitMessage(s, delivered[1].message_id))
  /\ UNCHANGED texts

(* The receiver parses the body into m and its handler runs. *)
Receive(m, type) ==
  /\ m.value.type = type
  /\ frame' = <<>>
  /\ intent' = <<>>
  /\ UNCHANGED texts

ReceiveControl(m) ==
  /\ \E type \in {0, 1, 3, 13, 16} : Receive(m, type)
  /\ UNCHANGED <<log, delivered>>

ReceivePut(m) ==
  /\ Receive(m, 10)
  /\ \E s \in Seed :
       log' = [log EXCEPT ![LEADER] =
                 Append(@, PutEntry(Len(@) + 1, Number(s, 0), MessageId[s], Got(m)))]
  /\ UNCHANGED delivered

ReceiveCommit(m) ==
  /\ Receive(m, 11)
  /\ \E s \in Seed :
       log' = [log EXCEPT ![LEADER] =
                 Append(@, CommitEntry(Len(@) + 1, Number(s, 0), Got(m)))]
  /\ UNCHANGED delivered

(* A heartbeat has no entries. *)
ReceiveAppend(m) ==
  /\ Receive(m, 2)
  /\ log' = [log EXCEPT ![FOLLOWER] =
               @ \o [i \in DOMAIN Got(m).entries |-> CopyFrom(Got(m).entries[i])]]
  /\ UNCHANGED delivered

ReceiveServerSend(m) ==
  /\ Receive(m, 12)
  /\ delivered' = <<Got(m)>>
  /\ UNCHANGED log

Next ==
  \/ SendControl \/ Put \/ Replicate \/ Deliver \/ Commit
  \/ /\ frame # <<>>
     /\ \E m \in {deserialize_from_message(frame)} :
          \/ ReceiveControl(m) \/ ReceivePut(m) \/ ReceiveCommit(m)
          \/ ReceiveAppend(m) \/ ReceiveServerSend(m)

Spec == Init /\ [][Next]_vars

-----------------------------------------------------------------------------
(* The receiver reads what the sender meant: the parse, whose result is not
   looked at, succeeds with no required field missing, and finds the type, the
   partition and every field of the body, and the default of those the sender
   left unset.  It takes the setters, the size announced ahead, the writer, the
   header, the reader and the getters to agree, field by field and value by
   value. *)
ReadAsMeant ==
  \A k \in DOMAIN intent :
    LET m == deserialize_from_message(frame).value
        what == intent[k] IN
    /\ ParseResult(Body(frame))
    /\ m.type = what.type
    /\ m.partition_id = what.partition_id
    /\ m[Getters[m.type]].value =
         what.body @@ New(Fields[BodyType[Loads[what.type]]]).value

(* The length in the header, computed by ByteSizeLong before anything is
   written, is the number of bytes SerializeToArray then writes into the
   buffer, down to the lengths of the messages inside. *)
SizeExact ==
  frame # <<>> =>
    Len(frame) = HEADER_LENGTH + decode_length(SubSeq(frame, 1, HEADER_LENGTH))


(* What a follower has in its log is the leader's entry, bits and values,
   after two copies and a round trip through the append request. *)
EntriesArrive == IsPrefix(log[FOLLOWER], log[LEADER])

(* End to end: the consumer's handler is called with the text some producer
   put, byte for byte, under the id its entry has in the leader's log, no
   matter which node delivers it; and when that id has come back in a commit,
   the commit entry of either log names a put before it. *)
DeliveredAsPut ==
  /\ \A k \in DOMAIN delivered :
       \E i \in DOMAIN log[LEADER] :
         LET entry == log[LEADER][i].value
             adds == Cardinality({j \in 1..i :
                                    log[LEADER][j].value.operation = ADD}) IN
         /\ entry.operation = ADD
         /\ entry.message_id = delivered[k].message_id
         /\ texts[adds] = delivered[k].message
  /\ \A n \in DOMAIN log : \A i \in DOMAIN log[n] :
       log[n][i].value.operation = COMMIT =>
         \E j \in 1..(i - 1) :
           /\ log[n][j].value.operation = ADD
           /\ log[n][j].value.message_id = log[n][i].value.message_id
=============================================================================
