----------------------------- MODULE FlowMessage -----------------------------
(***************************************************************************)
(* The generated Protobuf code of flow_message.pb.cc and flow_message.pb.h:*)
(* how a message object becomes bytes and bytes become an object again.    *)
(*                                                                         *)
(* The generated classes have one shape: every function is a list with one *)
(* block per field.  What a function says about the fields of a class is a *)
(* table here, transcribed from that function alone, and the shape common  *)
(* to all classes is one operator that reads the table:                    *)
(*                                                                         *)
(*   _fields   accessors: bit of the field in _has_bits_, default value    *)
(*   _Parse    MergePartialFromCodedStream: tag, kind and field            *)
(*   _Write    SerializeWithCachedSizes and its ToArray twin, in the order *)
(*             of the code: bit, field number, kind and field              *)
(*   _Size     ByteSizeLong with RequiredFieldsByteSizeFallback (they sum  *)
(*             the same fields): bit, kind and field                       *)
(*                                                                         *)
(* Nothing in the code makes the four agree: the bit a setter sets, the    *)
(* bit the writer tests, the field number it writes, the tag the reader    *)
(* expects and the size announced ahead are separate literals.  A kind is  *)
(* a scalar type, an enum or the name of a class.  Strings are sequences   *)
(* of bytes.  Integers stay within the 32 bits TLC has; a negative one is  *)
(* written in ten bytes as the library does.                               *)
(***************************************************************************)
EXTENDS Integers, Sequences, FiniteSets, SequencesExt, FiniteSetsExt, TLC

(* A message object: the bits that are set and the value of every field.
   This is the state of an object as constructed. *)
New(fields) ==
  [has_bits |-> {}, value |-> [x \in DOMAIN fields |-> fields[x][2]]]

(* The object after the setters named in vals were called on a new one, and
   after one more setter (set_x and mutable_x do the same to the bits). *)
Set(fields, m, x, v) ==
  [has_bits |-> m.has_bits \cup ({fields[x][1]} \ {0}),
   value |-> [m.value EXCEPT ![x] = v]]
Built(fields, vals) ==
  [has_bits |-> {fields[x][1] : x \in DOMAIN vals} \ {0},
   value |-> vals @@ New(fields).value]

(* One entry of the replicated log, also the record of the log file. *)
LogEntry_fields ==
  [ index |-> <<2, 0>>, term |-> <<4, 0>>, message_id |-> <<8, 0>>,
    operation |-> <<16, 0>>, message |-> <<1, <<>>>> ]
LogEntry_Parse ==
  { <<8, "int32", "index">>, <<16, "int32", "term">>, <<24, "int64", "message_id">>,
    <<32, "int32", "operation">>, <<42, "string", "message">> }
LogEntry_Write ==
  << <<2, 1, "int32", "index">>, <<4, 2, "int32", "term">>,
     <<8, 3, "int64", "message_id">>, <<16, 4, "int32", "operation">>,
     <<1, 5, "string", "message">> >>
LogEntry_Size ==
  { <<1, "string", "message">>, <<2, "int32", "index">>, <<4, "int32", "term">>,
    <<8, "int64", "message_id">>, <<16, "int32", "operation">> }

(* A candidate asks for votes. *)
RequestVoteRequest_fields ==
  [ term |-> <<1, 0>>, candidate_id |-> <<2, 0>>, last_log_index |-> <<4, 0>>,
    last_log_term |-> <<8, 0>> ]
RequestVoteRequest_Parse ==
  { <<8, "int32", "term">>, <<16, "int32", "candidate_id">>,
    <<24, "int32", "last_log_index">>, <<32, "int32", "last_log_term">> }
RequestVoteRequest_Write ==
  << <<1, 1, "int32", "term">>, <<2, 2, "int32", "candidate_id">>,
     <<4, 3, "int32", "last_log_index">>, <<8, 4, "int32", "last_log_term">> >>
RequestVoteRequest_Size ==
  { <<1, "int32", "term">>, <<2, "int32", "candidate_id">>,
    <<4, "int32", "last_log_index">>, <<8, "int32", "last_log_term">> }

(* A vote, granted or not. *)
RequestVoteResponse_fields ==
  [ term |-> <<1, 0>>, vote_result_term_granted |-> <<2, 0>> ]
RequestVoteResponse_Parse ==
  { <<8, "int32", "term">>, <<16, "int32", "vote_result_term_granted">> }
RequestVoteResponse_Write ==
  << <<1, 1, "int32", "term">>, <<2, 2, "int32", "vote_result_term_granted">> >>
RequestVoteResponse_Size ==
  { <<1, "int32", "term">>, <<2, "int32", "vote_result_term_granted">> }

(* Heartbeat or new entry from the leader; the repeated field has no bit. *)
AppendEntriesRequest_fields ==
  [ term |-> <<1, 0>>, leader_id |-> <<2, 0>>, prev_log_index |-> <<4, 0>>,
    prev_log_term |-> <<8, 0>>, leader_commit |-> <<16, 0>>, entries |-> <<0, <<>>>> ]
AppendEntriesRequest_ParseOld ==
  { <<8, "int32", "term">>, <<16, "int32", "leader_id">>,
    <<24, "int32", "prev_log_index">>, <<32, "int32", "prev_log_term">>,
    <<42, "LogEntry", "entries">>, <<40, "int32", "leader_commit">> }
AppendEntriesRequest_Parse ==
  { <<8, "int32", "term">>, <<16, "int32", "leader_id">>,
    <<24, "int32", "prev_log_index">>, <<32, "int32", "prev_log_term">>,
    <<42, "LogEntry", "entries">>, <<48, "int32", "leader_commit">> }
AppendEntriesRequest_Write ==
  << <<1, 1, "int32", "term">>, <<2, 2, "int32", "leader_id">>,
     <<4, 3, "int32", "prev_log_index">>, <<8, 4, "int32", "prev_log_term">>,
     <<0, 5, "LogEntry", "entries">>, <<16, 6, "int32", "leader_commit">> >>
AppendEntriesRequest_Size ==
  { <<1, "int32", "term">>, <<2, "int32", "leader_id">>,
    <<4, "int32", "prev_log_index">>, <<8, "int32", "prev_log_term">>,
    <<16, "int32", "leader_commit">>, <<0, "LogEntry", "entries">> }

(* What a follower made of an append request. *)
AppendEntriesResponse_fields ==
  [ term |-> <<1, 0>>, follower_id |-> <<2, 0>>, append_result_success |-> <<4, 0>>,
    last_index_synced |-> <<8, 0>> ]
AppendEntriesResponse_Parse ==
  { <<8, "int32", "term">>, <<16, "int32", "follower_id">>,
    <<24, "int32", "append_result_success">>, <<32, "int32", "last_index_synced">> }
AppendEntriesResponse_Write ==
  << <<1, 1, "int32", "term">>, <<2, 2, "int32", "follower_id">>,
     <<4, 3, "int32", "append_result_success">>,
     <<8, 4, "int32", "last_index_synced">> >>
AppendEntriesResponse_Size ==
  { <<1, "int32", "term">>, <<2, "int32", "follower_id">>,
    <<4, "int32", "append_result_success">>, <<8, "int32", "last_index_synced">> }

(* A producer puts a message. *)
ClientPutMessage_fields ==
  [ message |-> <<1, <<>>>>, message_id |-> <<2, 0>> ]
ClientPutMessage_Parse ==
  { <<10, "string", "message">>, <<16, "int64", "message_id">> }
ClientPutMessage_Write ==
  << <<1, 1, "string", "message">>, <<2, 2, "int64", "message_id">> >>
ClientPutMessage_Size ==
  { <<1, "string", "message">>, <<2, "int64", "message_id">> }

(* A consumer is done with a message. *)
ClientCommitMessage_fields ==
  [ message_id |-> <<1, 0>> ]
ClientCommitMessage_Parse ==
  { <<8, "int64", "message_id">> }
ClientCommitMessage_Write ==
  << <<1, 1, "int64", "message_id">> >>
ClientCommitMessage_Size ==
  { <<1, "int64", "message_id">> }

(* A message on its way to a consumer. *)
ServerSendMessage_fields ==
  [ message_id |-> <<2, 0>>, message |-> <<1, <<>>>> ]
ServerSendMessage_Parse ==
  { <<8, "int64", "message_id">>, <<18, "string", "message">> }
ServerSendMessage_Write ==
  << <<2, 1, "int64", "message_id">>, <<1, 2, "string", "message">> >>
ServerSendMessage_SizeText ==
  { <<1, "string", "message">> }
ServerSendMessage_Size ==
  { <<1, "string", "message">>, <<2, "int64", "message_id">> }

(* A client opens a queue. *)
ClientOpenQueue_fields ==
  [ open_mode |-> <<2, 0>>, queue_name |-> <<1, <<>>>> ]
ClientOpenQueue_Parse ==
  { <<8, "int32", "open_mode">>, <<18, "string", "queue_name">> }
ClientOpenQueue_Write ==
  << <<2, 1, "int32", "open_mode">>, <<1, 2, "string", "queue_name">> >>
ClientOpenQueue_Size ==
  { <<1, "string", "queue_name">>, <<2, "int32", "open_mode">> }

(* The answer, with the address of the leader if the node is not it. *)
ClientOpenQueueResponse_fields ==
  [ status |-> <<8, 0>>, error_message |-> <<1, <<>>>>, leader_ip |-> <<2, <<>>>>,
    leader_port |-> <<4, <<>>>> ]
ClientOpenQueueResponse_Parse ==
  { <<8, "Status", "status">>, <<18, "string", "error_message">>,
    <<26, "string", "leader_ip">>, <<34, "string", "leader_port">> }
ClientOpenQueueResponse_Write ==
  << <<8, 1, "Status", "status">>, <<1, 2, "string", "error_message">>,
     <<2, 3, "string", "leader_ip">>, <<4, 4, "string", "leader_port">> >>
ClientOpenQueueResponse_Size ==
  { <<1, "string", "error_message">>, <<8, "Status", "status">>,
    <<2, "string", "leader_ip">>, <<4, "string", "leader_port">> }

(* The envelope. (consumer_disconnected and client_put_message_response are
   left out of its tables: nothing in the program sets them.) *)
FlowMessage_fields ==
  [ type |-> <<4096, 0>>, partition_id |-> <<2048, 0>>,
    request_vote_request |-> <<1, New(RequestVoteRequest_fields)>>,
    request_vote_response |-> <<2, New(RequestVoteResponse_fields)>>,
    append_entries_request |-> <<4, New(AppendEntriesRequest_fields)>>,
    append_entries_response |-> <<8, New(AppendEntriesResponse_fields)>>,
    client_put_message |-> <<16, New(ClientPutMessage_fields)>>,
    client_commit_message |-> <<32, New(ClientCommitMessage_fields)>>,
    server_send_message |-> <<64, New(ServerSendMessage_fields)>>,
    client_open_queue |-> <<128, New(ClientOpenQueue_fields)>>,
    client_open_queue_response |-> <<512, New(ClientOpenQueueResponse_fields)>> ]
FlowMessage_Parse ==
  { <<8, "MessageType", "type">>, <<16, "int64", "partition_id">>,
    <<26, "RequestVoteRequest", "request_vote_request">>,
    <<34, "RequestVoteResponse", "request_vote_response">>,
    <<42, "AppendEntriesRequest", "append_entries_request">>,
    <<50, "AppendEntriesResponse", "append_entries_response">>,
    <<58, "ClientPutMessage", "client_put_message">>,
    <<66, "ClientCommitMessage", "client_commit_message">>,
    <<74, "ServerSendMessage", "server_send_message">>,
    <<82, "ClientOpenQueue", "client_open_queue">>,
    <<98, "ClientOpenQueueResponse", "client_open_queue_response">> }
FlowMessage_Write ==
  << <<4096, 1, "MessageType", "type">>, <<2048, 2, "int64", "partition_id">>,
     <<1, 3, "RequestVoteRequest", "request_vote_request">>,
     <<2, 4, "RequestVoteResponse", "request_vote_response">>,
     <<4, 5, "AppendEntriesRequest", "append_entries_request">>,
     <<8, 6, "AppendEntriesResponse", "append_entries_response">>,
     <<16, 7, "ClientPutMessage", "client_put_message">>,
     <<32, 8, "ClientCommitMessage", "client_commit_message">>,
     <<64, 9, "ServerSendMessage", "server_send_message">>,
     <<128, 10, "ClientOpenQueue", "client_open_queue">>,
     <<512, 12, "ClientOpenQueueResponse", "client_open_queue_response">> >>
FlowMessage_Size ==
  { <<4096, "MessageType", "type">>,
    <<1, "RequestVoteRequest", "request_vote_request">>,
    <<2, "RequestVoteResponse", "request_vote_response">>,
    <<4, "AppendEntriesRequest", "append_entries_request">>,
    <<8, "AppendEntriesResponse", "append_entries_response">>,
    <<16, "ClientPutMessage", "client_put_message">>,
    <<32, "ClientCommitMessage", "client_commit_message">>,
    <<64, "ServerSendMessage", "server_send_message">>,
    <<128, "ClientOpenQueue", "client_open_queue">>,
    <<512, "ClientOpenQueueResponse", "client_open_queue_response">>,
    <<2048, "int64", "partition_id">> }

(* The tables of every class, by its name. *)
Fields ==
  [ LogEntry |-> LogEntry_fields, RequestVoteRequest |-> RequestVoteRequest_fields,
    RequestVoteResponse |-> RequestVoteResponse_fields,
    AppendEntriesRequest |-> AppendEntriesRequest_fields,
    AppendEntriesResponse |-> AppendEntriesResponse_fields,
    ClientPutMessage |-> ClientPutMessage_fields,
    ClientCommitMessage |-> ClientCommitMessage_fields,
    ServerSendMessage |-> ServerSendMessage_fields,
    ClientOpenQueue |-> ClientOpenQueue_fields,
    ClientOpenQueueResponse |-> ClientOpenQueueResponse_fields,
    FlowMessage |-> FlowMessage_fields ]
ParseRows ==
  [ LogEntry |-> LogEntry_Parse, RequestVoteRequest |-> RequestVoteRequest_Parse,
    RequestVoteResponse |-> RequestVoteResponse_Parse,
    AppendEntriesRequest |-> AppendEntriesRequest_Parse,
    AppendEntriesResponse |-> AppendEntriesResponse_Parse,
    ClientPutMessage |-> ClientPutMessage_Parse,
    ClientCommitMessage |-> ClientCommitMessage_Parse,
    ServerSendMessage |-> ServerSendMessage_Parse,
    ClientOpenQueue |-> ClientOpenQueue_Parse,
    ClientOpenQueueResponse |-> ClientOpenQueueResponse_Parse,
    FlowMessage |-> FlowMessage_Parse ]
WriteRows ==
  [ LogEntry |-> LogEntry_Write, RequestVoteRequest |-> RequestVoteRequest_Write,
    RequestVoteResponse |-> RequestVoteResponse_Write,
    AppendEntriesRequest |-> AppendEntriesRequest_Write,
    AppendEntriesResponse |-> AppendEntriesResponse_Write,
    ClientPutMessage |-> ClientPutMessage_Write,
    ClientCommitMessage |-> ClientCommitMessage_Write,
    ServerSendMessage |-> ServerSendMessage_Write,
    ClientOpenQueue |-> ClientOpenQueue_Write,
    ClientOpenQueueResponse |-> ClientOpenQueueResponse_Write,
    FlowMessage |-> FlowMessage_Write ]
SizeRows ==
  [ LogEntry |-> LogEntry_Size, RequestVoteRequest |-> RequestVoteRequest_Size,
    RequestVoteResponse |-> RequestVoteResponse_Size,
    AppendEntriesRequest |-> AppendEntriesRequest_Size,
    AppendEntriesResponse |-> AppendEntriesResponse_Size,
    ClientPutMessage |-> ClientPutMessage_Size,
    ClientCommitMessage |-> ClientCommitMessage_Size,
    ServerSendMessage |-> ServerSendMessage_Size,
    ClientOpenQueue |-> ClientOpenQueue_Size,
    ClientOpenQueueResponse |-> ClientOpenQueueResponse_Size,
    FlowMessage |-> FlowMessage_Size ]

(* The values the IsValid functions of the two enums accept. *)
MessageType_IsValid == {0, 1, 2, 3, 10, 11, 12, 13, 14, 15, 16, 99}
Status_IsValid == {0, 1}
Enum == [MessageType |-> MessageType_IsValid, Status |-> Status_IsValid]

(* What IsInitialized asks of every class: the required bits. *)
Required ==
  [LogEntry |-> {1, 2, 4, 8, 16}, RequestVoteRequest |-> {1, 2, 4, 8},
   RequestVoteResponse |-> {1, 2}, AppendEntriesRequest |-> {1, 2, 4, 8, 16},
   AppendEntriesResponse |-> {1, 2, 4, 8}, ClientPutMessage |-> {1},
   ClientCommitMessage |-> {1}, ServerSendMessage |-> {1, 2},
   ClientOpenQueue |-> {1, 2}, ClientOpenQueueResponse |-> {1, 8},
   FlowMessage |-> {4096}]

Repeated == {"entries"}

-----------------------------------------------------------------------------
(* The library's wire format: base 128, low group first, the high bit of a
   byte says that more follow.  A negative number is the 64 bit pattern. *)
RECURSIVE Unsigned(_)
Unsigned(v) == IF v < 128 THEN <<v>> ELSE <<128 + (v % 128)>> \o Unsigned(v \div 128)

Shift[v \in Int, n \in Nat] == IF n = 0 THEN v ELSE Shift[v \div 128, n - 1]

Varint(v) ==
  IF v >= 0 THEN Unsigned(v)
  ELSE [i \in 1..9 |-> 128 + (Shift[v, i - 1] % 128)] \o <<1>>

VarintSize(v) ==
  CASE v < 0 -> 10
    [] v \in 0..127 -> 1
    [] v \in 128..16383 -> 2
    [] v \in 16384..2097151 -> 3
    [] v \in 2097152..268435455 -> 4
    [] OTHER -> 5

(* How many bytes the varint at the head of s takes (0 if it does not end
   within s), and its value. *)
VarintLen(s) ==
  LET ends == {i \in 1..Min({10, Len(s)}) : s[i] < 128} IN
  IF ends = {} THEN 0 ELSE Min(ends)

VarintValue(s) ==
  LET n == VarintLen(s)
      groups == [i \in 1..Min({n, 9}) |-> s[i] % 128] IN
  FoldRight(LAMBDA g, acc : acc * 128 + g, groups, IF n = 10 THEN -1 ELSE 0)

-----------------------------------------------------------------------------
(* The values a row writes: those of a repeated field, or the one of a field
   whose bit is set. *)
Present(m, bit, x) ==
  IF x \in Repeated THEN m.value[x]
  ELSE IF bit \in m.has_bits THEN <<m.value[x]>> ELSE <<>>

Delimited(kind) == kind = "string" \/ kind \in DOMAIN Fields

(* ByteSizeLong: one byte of tag for each value and the value; a string or a
   message with its length ahead. *)
RECURSIVE ByteSizeLong(_, _)
ByteSizeLong(type, m) ==
  LET content(kind, v) == IF kind = "string" THEN Len(v) ELSE ByteSizeLong(kind, v)
      size(kind, v) == IF Delimited(kind)
                       THEN VarintSize(content(kind, v)) + content(kind, v)
                       ELSE VarintSize(v)
      row(r) == FoldLeft(LAMBDA n, v : n + 1 + size(r[2], v), 0, Present(m, r[1], r[3]))
  IN MapThenSumSet(row, SizeRows[type])

(* SerializeWithCachedSizes: the rows in order; the length written ahead of a
   message is the size ByteSizeLong has cached for it. *)
RECURSIVE Serialize(_, _)
Serialize(type, m) ==
  LET write(kind, v) ==
        CASE kind = "string" -> Varint(Len(v)) \o v
          [] kind \in DOMAIN Fields ->
               Varint(ByteSizeLong(kind, v)) \o Serialize(kind, v)
          [] OTHER -> Varint(v)
      tag(r) == Varint(r[2] * 8 + (IF Delimited(r[3]) THEN 2 ELSE 0))
      row(r) == FoldLeft(LAMBDA s, v : s \o tag(r) \o write(r[3], v), <<>>,
                         Present(m, r[1], r[4]))
  IN FoldLeft(LAMBDA s, r : s \o row(r), <<>>, WriteRows[type])

(* MergePartialFromCodedStream: read tags until the bytes are used up; a tag
   no case has is skipped (SkipField), an enum value that is not valid leaves
   the field alone, a field that ends too early fails the parse and keeps what
   was read so far.  A message field merges into the object that is there. *)
RECURSIVE MergePartial(_, _, _)
MergePartial(type, m, s) ==
  IF s = <<>> THEN [ok |-> TRUE, message |-> m]
  ELSE
  LET rows == {r \in ParseRows[type] : r[1] = VarintValue(s)}
      body == SubSeq(s, VarintLen(s) + 1, Len(s))
      used == VarintLen(body)
      length == VarintValue(body)
      delimited == VarintValue(s) % 8 = 2
      rest == SubSeq(body, used + (IF delimited THEN length ELSE 0) + 1, Len(body))
      chunk == SubSeq(body, used + 1, used + length)
      whole == IF delimited THEN used > 0 /\ length >= 0 /\ used + length <= Len(body)
               ELSE VarintValue(s) % 8 = 0 /\ used > 0
  IN IF VarintLen(s) = 0 \/ ~whole THEN [ok |-> FALSE, message |-> m]
     ELSE IF rows = {} THEN MergePartial(type, m, rest)
     ELSE
     LET row == CHOOSE r \in rows : TRUE
         kind == row[2]
         x == row[3]
         set(v) == Set(Fields[type], m, x, v)
         sub == MergePartial(kind, IF x \in Repeated THEN New(Fields[kind])
                                   ELSE m.value[x], chunk)
         merged == set(IF x \in Repeated THEN Append(m.value[x], sub.message)
                       ELSE sub.message)
     IN CASE kind \in DOMAIN Fields ->
               IF sub.ok THEN MergePartial(type, merged, rest)
               ELSE [ok |-> FALSE, message |-> merged]
          [] kind = "string" -> MergePartial(type, set(chunk), rest)
          [] kind \in DOMAIN Enum ->
               MergePartial(type, IF length \in Enum[kind] THEN set(length) ELSE m,
                            rest)
          [] OTHER -> MergePartial(type, set(length), rest)

(* IsInitialized: required fields set, in the message and in those inside. *)
RECURSIVE IsInitialized(_, _)
IsInitialized(type, m) ==
  /\ Required[type] \subseteq m.has_bits
  /\ \A r \in SizeRows[type] : r[2] \in DOMAIN Fields =>
       LET inner == Present(m, r[1], r[3]) IN
       \A i \in DOMAIN inner : IsInitialized(r[2], inner[i])

(* ParseFromArray and ParseFromString: into a new object, which the caller
   uses whatever the result; and the result. *)
ParseFromArray(s) == MergePartial("FlowMessage", New(FlowMessage_fields), s).message
ParseResult(s) ==
  LET r == MergePartial("FlowMessage", New(FlowMessage_fields), s) IN
  r.ok /\ IsInitialized("FlowMessage", r.message)

(* LogEntry's copy assignment, CopyFrom: MergeFrom into a cleared object takes
   over the fields whose bit is set. *)
LogEntry_MergeShort ==
  { <<1, "message">>, <<2, "index">>, <<4, "term">>, <<8, "message_id">> }
LogEntry_Merge ==
  { <<1, "message">>, <<2, "index">>, <<4, "term">>, <<8, "message_id">>,
    <<16, "operation">> }
CopyFrom(m) ==
  LET taken == {r \in LogEntry_Merge : r[1] \in m.has_bits} IN
  [has_bits |-> m.has_bits,
   value |-> [x \in DOMAIN LogEntry_fields |->
                IF \E r \in taken : r[2] = x THEN m.value[x]
                ELSE LogEntry_fields[x][2]]]
=============================================================================
