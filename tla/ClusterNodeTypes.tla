--------------------------- MODULE ClusterNodeTypes ---------------------------
(***************************************************************************)
(* Type correctness of ClusterNode, for every set of nodes and every bound,*)
(* and the lemmas on channels, messages and logs it rests on.              *)
(***************************************************************************)
EXTENDS ClusterNode, SequenceTheorems, FiniteSetTheorems, TLAPS

\* Taking the first message of a channel shifts the others by one place.
LEMMA TailFacts ==
  ASSUME NEW S, NEW s \in Seq(S), s # <<>>
  PROVE  /\ Head(s) \in S /\ Head(s) = s[1] /\ 1 \in DOMAIN s
         /\ Tail(s) \in Seq(S) /\ DOMAIN s = 1..Len(s)
         /\ Len(s) \in Nat /\ Len(s) > 0
         /\ \A i \in DOMAIN Tail(s) : /\ i \in Nat /\ i > 0
                                      /\ i + 1 \in DOMAIN s
                                      /\ Tail(s)[i] = s[i + 1]
  <1>1. Len(s) \in Nat /\ Len(s) > 0 /\ DOMAIN s = 1..Len(s)
    BY EmptySeq, LenProperties
  <1>2. Head(s) \in S /\ Tail(s) \in Seq(S) /\ Len(Tail(s)) = Len(s) - 1
    BY HeadTailProperties, Zenon
  <1>3. DOMAIN Tail(s) = 1..(Len(s) - 1)
    BY <1>2, LenProperties, Zenon
  <1>4. \A i \in 1..Len(Tail(s)) : Tail(s)[i] = s[i + 1]
    BY HeadTailProperties, Zenon
  <1>5. Head(s) = s[1]
    OBVIOUS
  <1> QED BY <1>1, <1>2, <1>3, <1>4, <1>5

\* Writing at most one message keeps the others where they are.
LEMMA WriteFacts ==
  ASSUME NEW S, NEW s \in Seq(S), NEW t \in Seq(S)
  PROVE  /\ s \o t \in Seq(S)
         /\ \A i \in DOMAIN (s \o t) :
              \/ i \in DOMAIN s /\ (s \o t)[i] = s[i]
              \/ /\ i - Len(s) \in DOMAIN t
                 /\ (s \o t)[i] = t[i - Len(s)]
  <1>1. /\ s \o t \in Seq(S) /\ Len(s \o t) = Len(s) + Len(t)
        /\ \A i \in 1 .. Len(s) + Len(t) : (s \o t)[i] =
             IF i <= Len(s) THEN s[i] ELSE t[i - Len(s)]
    BY ConcatProperties, Zenon
  <1>2. DOMAIN (s \o t) = 1..(Len(s) + Len(t))
    BY <1>1, LenProperties, Zenon
  <1>3. /\ DOMAIN s = 1..Len(s) /\ DOMAIN t = 1..Len(t)
        /\ Len(s) \in Nat /\ Len(t) \in Nat
    BY LenProperties, Zenon
  <1> QED BY <1>1, <1>2, <1>3

\* A sequence of one element.
LEMMA SingleFacts ==
  ASSUME NEW S, NEW e \in S
  PROVE  /\ <<e>> \in Seq(S) /\ Len(<<e>>) = 1 /\ DOMAIN <<e>> = 1..1
         /\ <<e>>[1] = e
  OBVIOUS

\* A prefix of a sequence.
LEMMA PrefixFacts ==
  ASSUME NEW S, NEW s \in Seq(S), NEW k \in Nat, k <= Len(s)
  PROVE  /\ SubSeq(s, 1, k) \in Seq(S) /\ Len(SubSeq(s, 1, k)) = k
         /\ DOMAIN SubSeq(s, 1, k) = 1..k
         /\ \A i \in 1..k : i \in DOMAIN s /\ SubSeq(s, 1, k)[i] = s[i]
  <1>1. Len(s) \in Nat /\ DOMAIN s = 1..Len(s)
    BY LenProperties, Zenon
  <1>2. \A i \in 1..k : s[i] \in S
    BY <1>1, ElementOfSeq
  <1>3. /\ SubSeq(s, 1, k) \in Seq(S)
        /\ Len(SubSeq(s, 1, k)) = IF 1 <= k THEN k - 1 + 1 ELSE 0
        /\ \A i \in 1 .. k - 1 + 1 : SubSeq(s, 1, k)[i] = s[1 + i - 1]
    BY <1>2, SubSeqProperties
  <1>4. DOMAIN SubSeq(s, 1, k) = 1..Len(SubSeq(s, 1, k))
    BY <1>3, LenProperties, Zenon
  <1> QED BY <1>1, <1>3, <1>4

\* Appending an entry to a log.
LEMMA AppendFacts ==
  ASSUME NEW S, NEW s \in Seq(S), NEW e \in S
  PROVE  /\ Append(s, e) \in Seq(S)
         /\ Len(Append(s, e)) = Len(s) + 1 /\ Len(s) \in Nat
         /\ DOMAIN s = 1..Len(s)
         /\ DOMAIN Append(s, e) = 1..(Len(s) + 1)
         /\ \A i \in 1..Len(s) : Append(s, e)[i] = s[i]
         /\ Append(s, e)[Len(s) + 1] = e
  <1>1. /\ Append(s, e) \in Seq(S) /\ Len(Append(s, e)) = Len(s) + 1
        /\ \A i \in 1 .. Len(s) : Append(s, e)[i] = s[i]
        /\ Append(s, e)[Len(s) + 1] = e
    BY AppendProperties
  <1>2. DOMAIN Append(s, e) = 1..Len(Append(s, e))
    BY <1>1, LenProperties, Zenon
  <1>3. DOMAIN s = 1..Len(s) /\ Len(s) \in Nat
    BY LenProperties, Zenon
  <1> QED BY <1>1, <1>2, <1>3, Zenon
-----------------------------------------------------------------------------
(* What the helpers of the model return.                                   *)

\* Indexes and terms read from a log are numbers, also where it is empty.
LEMMA LogFacts ==
  ASSUME NEW log \in Seq(Entry)
  PROVE  /\ LastIndex(log) \in Nat /\ LastTerm(log) \in Nat
         /\ \A i \in 0..Len(log) : TermAt(log, i) \in Nat
         /\ \A i \in 1..Len(log) : log[i] \in Entry
  <1>1. \A i \in 1..Len(log) : log[i] \in Entry
    BY ElementOfSeq, Zenon
  <1>2. Len(log) \in Nat /\ (log # <<>> => Len(log) \in 1..Len(log))
    BY EmptySeq, LenProperties
  <1>3. LastIndex(log) \in Nat /\ LastTerm(log) \in Nat
    BY <1>1, <1>2, Zenon DEF LastIndex, LastTerm, Entry
  <1>4. \A i \in 0..Len(log) : TermAt(log, i) \in Nat
    BY <1>1, <1>2 DEF TermAt, Entry
  <1> QED BY <1>1, <1>3, <1>4, Zenon

\* append_log_entries returns the log, the log with the new entry after it, or
\* the part up to prev with the new entry after it.
LEMMA AppendLogFacts ==
  ASSUME NEW log \in Seq(Entry), NEW prev \in Nat, prev <= Len(log),
         NEW entries \in Seq(Entry)
  PROVE  /\ append_log_entries(log, prev, entries) \in Seq(Entry)
         /\ \/ append_log_entries(log, prev, entries) = log
            \/ /\ entries # <<>> /\ entries[1] \in Entry
               /\ append_log_entries(log, prev, entries) =
                    Append(SubSeq(log, 1, prev), entries[1])
  <1> DEFINE new == append_log_entries(log, prev, entries)
  <1>1. Len(log) \in Nat /\ prev + 1 - 1 = prev
    BY LenProperties
  <1>2. CASE entries = <<>> \/ (prev + 1 <= Len(log)
                                  /\ log[prev + 1].term = entries[1].term)
    BY <1>2, Zenon DEF append_log_entries
  <1>3. CASE ~(entries = <<>> \/ (prev + 1 <= Len(log)
                                    /\ log[prev + 1].term = entries[1].term))
    <2>1. entries # <<>> /\ entries[1] \in Entry
      BY <1>3, TailFacts, Zenon
    <2>2. CASE prev + 1 > Len(log)
      <3>1. prev = Len(log) /\ SubSeq(log, 1, prev) = log
        BY <2>2, <1>1, SubSeqFull
      <3>2. new = Append(log, entries[1])
        BY <1>3, <2>2, Zenon DEF append_log_entries
      <3> QED BY <2>1, <3>1, <3>2, AppendFacts
    <2>3. CASE ~(prev + 1 > Len(log))
      <3>1. new = Append(SubSeq(log, 1, prev), entries[1])
        BY <1>1, <1>3, <2>3
        DEF append_log_entries, clean_log_entries_out_of_sync
      <3>2. SubSeq(log, 1, prev) \in Seq(Entry)
        BY PrefixFacts, Zenon
      <3> QED BY <2>1, <3>1, <3>2, AppendFacts
    <2> QED BY <2>2, <2>3, Zenon
  <1> QED BY <1>2, <1>3, Zenon

\* Applying entries of the log yields a queue.
LEMMA CommitFacts ==
  ASSUME NEW q \in Queue, NEW es \in Seq(Entry)
  PROVE  commit_log_entries(q, es) \in Queue
  <1>1. \A i \in 1..Len(es) : es[i].message_id \in Nat
    BY LogFacts, Zenon DEF Entry
  <1> QED BY <1>1 DEF commit_log_entries, Queue

\* A part of the log between two positions, the upper one within the log.
LEMMA SliceFacts ==
  ASSUME NEW log \in Seq(Entry), NEW i \in Nat, NEW j \in Nat, j <= Len(log)
  PROVE  SubSeq(log, i + 1, j) \in Seq(Entry)
  <1>1. \A k \in i + 1..j : log[k] \in Entry
    BY LogFacts, LenProperties
  <1> QED BY <1>1, SubSeqProperties

\* Requests with or without an entry are messages.
LEMMA AppendRequestType ==
  ASSUME NEW term \in Nat, NEW log \in Seq(Entry), NEW prev \in 0..Len(log),
         NEW entries \in Seq(Entry), NEW commit \in Nat
  PROVE  AppendRequest(term, log, prev, entries, commit)
           \in AppendEntriesRequest
  <1>1. prev \in Nat /\ TermAt(log, prev) \in Nat
    BY LogFacts, LenProperties
  <1> QED BY <1>1, Zenon DEF AppendRequest, AppendEntriesRequest

\* trigger_entry_update writes nothing, or one request with one entry.
LEMMA UpdateFacts ==
  ASSUME NEW term \in Nat, NEW log \in Seq(Entry), NEW commit \in Nat,
         NEW next \in Nat, NEW pending \in Nat
  PROVE  LET out == trigger_entry_update(term, log, commit, next, pending)
         IN  /\ out \in Seq(AppendEntriesRequest)
             /\ out \in Seq(Message)
             /\ Len(out) \in Nat
             /\ \/ out = <<>>
                \/ /\ next \in 1..Len(log)
                   /\ out = <<AppendRequest(term, log, next - 1,
                                            <<log[next]>>, commit)>>
  <1> DEFINE out == trigger_entry_update(term, log, commit, next, pending)
  <1>1. \/ out = <<>>
        \/ /\ next \in 1..Len(log)
           /\ out = <<AppendRequest(term, log, next - 1,
                                    <<log[next]>>, commit)>>
    BY Zenon DEF trigger_entry_update
  <1>2. out \in Seq(AppendEntriesRequest)
    <2>1. CASE out = <<>>
      BY <2>1
    <2>2. CASE /\ next \in 1..Len(log)
               /\ out = <<AppendRequest(term, log, next - 1,
                                        <<log[next]>>, commit)>>
      <3>1. next - 1 \in 0..Len(log)
        BY <2>2, LenProperties
      <3>2. <<log[next]>> \in Seq(Entry)
        BY <2>2, LogFacts, SingleFacts, Zenon
      <3>3. AppendRequest(term, log, next - 1, <<log[next]>>, commit)
              \in AppendEntriesRequest
        BY <3>1, <3>2, AppendRequestType, Zenon
      <3> QED BY <2>2, <3>3, SingleFacts
    <2> QED BY <1>1, <2>1, <2>2, Zenon
  <1>3. out \in Seq(Message)
    BY <1>2, SeqMonotonic, Zenon DEF Message
  <1>4. Len(out) \in Nat
    BY <1>2, LenProperties, Zenon
  <1> HIDE DEF out
  <1> QED BY <1>1, <1>2, <1>3, <1>4, Zenon DEF out
-----------------------------------------------------------------------------
(* The network.                                                            *)

\* The message a handler takes, by its type.
LEMMA MsgFacts ==
  ASSUME TypeOK, NEW n \in Node, NEW src \in Node, NEW type,
         Msg(src, n, type)
  PROVE  LET s == net[<<src, n>>]
             m == Head(s)
         IN  /\ s \in Seq(Message) /\ s # <<>>
             /\ m = s[1] /\ 1 \in DOMAIN s /\ m.type = type
             /\ type = "APPEND_ENTRIES_REQUEST" => m \in AppendEntriesRequest
             /\ type = "APPEND_ENTRIES_RESPONSE" => m \in AppendEntriesResponse
             /\ type = "REQUEST_VOTE_REQUEST" => m \in RequestVoteRequest
             /\ type = "REQUEST_VOTE_RESPONSE" => m \in RequestVoteResponse
  <1> DEFINE s == net[<<src, n>>]
             m == Head(s)
  <1>1. s \in Seq(Message) /\ s # <<>> /\ m.type = type
    BY Zenon DEF TypeOK, Channel, Msg
  <1>2. m \in Message /\ m = s[1] /\ 1 \in DOMAIN s
    BY <1>1, TailFacts, Zenon
  <1> HIDE DEF m, s
  <1>3. /\ type = "APPEND_ENTRIES_REQUEST" => m \in AppendEntriesRequest
        /\ type = "APPEND_ENTRIES_RESPONSE" => m \in AppendEntriesResponse
        /\ type = "REQUEST_VOTE_REQUEST" => m \in RequestVoteRequest
        /\ type = "REQUEST_VOTE_RESPONSE" => m \in RequestVoteResponse
    BY <1>1, <1>2, Zenon DEF Message, AppendEntriesRequest, AppendEntriesResponse,
                      RequestVoteRequest, RequestVoteResponse
  <1> QED BY <1>1, <1>2, <1>3, Zenon DEF m, s

\* Taking a message and writing an answer keeps the channels typed.
LEMMA ReplyType ==
  ASSUME TypeOK, NEW n \in Node, NEW src \in Peers(n),
         NEW type, Msg(src, n, type),
         NEW msgs \in Seq(Message), Reply(src, n, msgs)
  PROVE  net' \in [Channel -> Seq(Message)]
  <1>1. net \in [Channel -> Seq(Message)]
    BY Zenon DEF TypeOK
  <1>2. /\ src \in Node /\ src # n /\ <<src, n>> \in Channel
        /\ <<n, src>> \in Channel /\ <<src, n>> # <<n, src>>
    BY Zenon DEF Peers, Channel
  <1>3. Tail(net[<<src, n>>]) \in Seq(Message)
    BY <1>2, MsgFacts, TailFacts, Zenon
  <1>4. net[<<n, src>>] \o msgs \in Seq(Message)
    BY <1>1, <1>2, WriteFacts, Zenon
  <1> QED BY <1>1, <1>2, <1>3, <1>4, Zenon DEF Reply

\* So does writing one message to each of the other nodes.
LEMMA SendEachType ==
  ASSUME TypeOK, NEW n \in Node, NEW out \in [Node -> Seq(Message)],
         SendEach(n, out)
  PROVE  net' \in [Channel -> Seq(Message)]
  <1>1. ASSUME NEW c \in Channel
        PROVE  /\ net[c] \in Seq(Message)
               /\ net[c] \o out[c[2]] \in Seq(Message)
    <2>1. c[2] \in Node
      BY Zenon DEF Channel
    <2> QED BY <2>1, WriteFacts, Zenon DEF TypeOK
  <1> QED BY <1>1, Zenon DEF SendEach

\* The two kinds of response are messages.
LEMMA ResponseTypes ==
  /\ \A term \in Nat, last \in Nat :
       <<AppendResponse(term, TRUE, last)>> \in Seq(Message)
  /\ \A term \in Nat : <<AppendResponse(term, FALSE, -1)>> \in Seq(Message)
  /\ \A term \in Nat, ok \in BOOLEAN :
       <<VoteResponse(term, ok)>> \in Seq(Message)
  <1>1. ASSUME NEW term \in Nat, NEW last \in Nat
        PROVE  /\ AppendResponse(term, TRUE, last) \in Message
               /\ AppendResponse(term, FALSE, -1) \in Message
    BY Zenon DEF AppendResponse, AppendEntriesResponse, Message
  <1>2. ASSUME NEW term \in Nat, NEW ok \in BOOLEAN
        PROVE  VoteResponse(term, ok) \in Message
    BY Zenon DEF VoteResponse, RequestVoteResponse, Message
  <1> QED BY <1>1, <1>2, SingleFacts, Zenon

\* The tail of the AppendEntries response handler.
LEMMA UpdateReplyType ==
  ASSUME TypeOK, NEW n \in Node, NEW src \in Peers(n),
         NEW type, Msg(src, n, type),
         NEW term \in Nat, NEW commit \in Nat, NEW next \in Nat \ {0},
         ReplyWithUpdate(n, src, term, commit, next)
  PROVE  /\ net' \in [Channel -> Seq(Message)]
         /\ next_index_' \in [Node -> [Node -> Nat \ {0}]]
         /\ pending_append_reqs_' \in [Node -> [Node -> Nat]]
  <1> DEFINE p == PendingAfter(n, src)
             out == trigger_entry_update(term, log_entries_[n], commit,
                                         next, p)
  <1>a. pending_append_reqs_ \in [Node -> [Node -> Nat]]
    BY Zenon DEF TypeOK
  <1>b. src \in Node
    BY Zenon DEF Peers
  <1>1. src \in Node /\ p \in Nat
    BY <1>a, <1>b DEF PendingAfter
  <1>2. out \in Seq(Message) /\ Len(out) \in Nat
    BY <1>1, UpdateFacts, Zenon DEF TypeOK
  <1>3. Reply(src, n, out)
    BY Zenon DEF ReplyWithUpdate
  <1>4. net' \in [Channel -> Seq(Message)]
    BY <1>2, <1>3, ReplyType, Zenon
  <1> HIDE DEF out
  <1>5. p + Len(out) \in Nat
    BY <1>1, <1>2
  <1>6. next_index_' \in [Node -> [Node -> Nat \ {0}]]
    BY <1>1, Zenon DEF ReplyWithUpdate, TypeOK
  <1>7. pending_append_reqs_' =
          [pending_append_reqs_ EXCEPT ![n][src] = p + Len(out)]
    BY Zenon DEF ReplyWithUpdate, out
  <1>8. pending_append_reqs_' \in [Node -> [Node -> Nat]]
    BY <1>1, <1>5, <1>7, Zenon DEF TypeOK
  <1> QED BY <1>4, <1>6, <1>8, Zenon
-----------------------------------------------------------------------------
(* One lemma per group of actions.                                         *)

\* The timers keep the types: votes, heartbeats, statistics.
LEMMA TimerType ==
  ASSUME TypeOK, NEW n \in Node, Timer(n)
  PROVE  TypeOK'
  <1> USE DEF electionVars, indexVars, logVars, boundVars, historyVars
  <1>1. CASE VoteTimer(n)
    BY SMTT(30), <1>1 DEF VoteTimer, TypeOK, State
  <1>2. CASE DelayedVoteSkipped(n)
    BY <1>2, Zenon DEF DelayedVoteSkipped, TypeOK
  <1>3. CASE DelayedVoteRequest(n)
    <2> DEFINE m == [type |-> "REQUEST_VOTE_REQUEST", term |-> cur_term_[n],
                     last_log_index |-> LastIndex(log_entries_[n]),
                     last_log_term |-> LastTerm(log_entries_[n])]
               v == [voter |-> n, term |-> cur_term_[n], candidate |-> n]
    <2>1. cur_term_[n] \in Nat /\ log_entries_[n] \in Seq(Entry)
      BY Zenon DEF TypeOK
    <2>2. m \in Message /\ v \in Vote
      BY <2>1, LogFacts, Zenon DEF RequestVoteRequest, Message, Vote
    <2>3. [k \in Node |-> <<m>>] \in [Node -> Seq(Message)]
      BY <2>2, SingleFacts, Zenon
    <2>4. SendEach(n, [k \in Node |-> <<m>>])
      BY <1>3, Zenon DEF DelayedVoteRequest
    <2>5. net' \in [Channel -> Seq(Message)]
      BY <2>3, <2>4, SendEachType, Zenon
    <2>6. /\ votes' = votes \cup {v}
          /\ counted' = [counted EXCEPT ![n] = @ \cup {v}]
      BY <1>3, Zenon DEF DelayedVoteRequest
    <2> HIDE DEF m, v
    <2>7. votes' \subseteq Vote /\ counted' \in [Node -> SUBSET Vote]
      BY <2>2, <2>6, Zenon DEF TypeOK
    <2>8. /\ voted_for_' \in [Node -> Node \cup {None}]
          /\ votes_collected_' \in [Node -> Int]
          /\ vote_delay' \in [Node -> BOOLEAN]
      BY <1>3 DEF DelayedVoteRequest, TypeOK
    <2>9. UNCHANGED <<state_, cur_term_, cur_leader_, indexVars, logVars,
                      boundVars, elected>>
      BY <1>3, Zenon DEF DelayedVoteRequest
    <2> QED BY <2>5, <2>7, <2>8, <2>9, Zenon DEF TypeOK
  <1>4. CASE Heartbeat(n)
    <2> DEFINE m == [type |-> "APPEND_ENTRIES_REQUEST", term |-> cur_term_[n],
                     prev_log_index |-> LastIndex(log_entries_[n]),
                     prev_log_term |-> LastTerm(log_entries_[n]),
                     entries |-> <<>>, leader_commit |-> commit_index_[n]]
    <2>1. /\ cur_term_[n] \in Nat /\ log_entries_[n] \in Seq(Entry)
          /\ commit_index_[n] \in Nat
      BY Zenon DEF TypeOK
    <2>2. m \in Message
      BY <2>1, LogFacts, EmptySeq, Zenon DEF AppendEntriesRequest, Message
    <2>3. [k \in Node |-> <<m>>] \in [Node -> Seq(Message)]
      BY <2>2, SingleFacts, Zenon
    <2>4. SendEach(n, [k \in Node |-> <<m>>])
      BY <1>4, Zenon DEF Heartbeat
    <2>5. net' \in [Channel -> Seq(Message)]
      BY <2>3, <2>4, SendEachType, Zenon
    <2> HIDE DEF m
    <2>6. pending_append_reqs_ \in [Node -> [Node -> Nat]]
      BY Zenon DEF TypeOK
    <2>7. [k \in Node |-> IF k = n THEN pending_append_reqs_[n][k]
                          ELSE pending_append_reqs_[n][k] + 1]
            \in [Node -> Nat]
      BY <2>6
    <2>8. pending_append_reqs_' \in [Node -> [Node -> Nat]]
      BY <1>4, <2>6, <2>7, Zenon DEF Heartbeat
    <2>9. UNCHANGED <<electionVars, cur_leader_, next_index_, matched_index_,
                      logVars, boundVars, historyVars>>
      BY <1>4, Zenon DEF Heartbeat
    <2> QED BY <2>5, <2>8, <2>9, Zenon DEF TypeOK
  <1>5. CASE StatisticsTimer(n)
    BY <1>5, Zenon DEF StatisticsTimer, vars, TypeOK
  <1> QED BY <1>1, <1>2, <1>3, <1>4, <1>5, Zenon DEF Timer

\* So do the branches of the AppendEntries request handler.
LEMMA AppendRequestStepType ==
  ASSUME TypeOK, NEW n \in Node, NEW src \in Peers(n),
         \/ AppendExpired(n, src) \/ AppendOutOfSync(n, src)
         \/ AppendAccepted(n, src)
  PROVE  TypeOK'
  <1> USE DEF electionVars, indexVars, logVars, boundVars, historyVars
  <1> DEFINE req == Head(net[<<src, n>>])
             log == log_entries_[n]
  <1>1. Msg(src, n, "APPEND_ENTRIES_REQUEST")
    BY Zenon DEF AppendExpired, AppendOutOfSync, AppendAccepted
  <1>2. src \in Node /\ cur_term_[n] \in Nat /\ log \in Seq(Entry)
    BY Zenon DEF Peers, TypeOK
  <1>3. req \in AppendEntriesRequest
    BY <1>1, <1>2, MsgFacts, Zenon
  <1>4. /\ req.term \in Nat /\ req.prev_log_index \in Nat
        /\ req.entries \in Seq(Entry) /\ req.leader_commit \in Nat
    BY <1>3, Zenon DEF AppendEntriesRequest
  <1> HIDE DEF req
  <1>5. CASE AppendExpired(n, src)
    <2>1. <<AppendResponse(cur_term_[n], FALSE, -1)>> \in Seq(Message)
      BY <1>2, ResponseTypes, Zenon
    <2>2. net' \in [Channel -> Seq(Message)]
      BY <1>1, <1>5, <2>1, ReplyType, Zenon DEF AppendExpired
    <2> QED BY <1>5, <2>2, Zenon DEF AppendExpired, TypeOK
  <1>6. CASE AppendOutOfSync(n, src)
    <2>1. <<AppendResponse(req.term, FALSE, -1)>> \in Seq(Message)
      BY <1>4, ResponseTypes, Zenon
    <2>2. net' \in [Channel -> Seq(Message)]
      BY <1>1, <1>6, <2>1, ReplyType, Zenon DEF AppendOutOfSync, req
    <2>3. ConvertToFollower(n, src, req) /\ UNCHANGED logVars
      BY <1>6, Zenon DEF AppendOutOfSync, req
    <2> QED BY <1>2, <1>4, <2>2, <2>3, Zenon DEF ConvertToFollower, TypeOK, State
  <1>7. CASE AppendAccepted(n, src)
    <2> DEFINE new == append_log_entries(log, req.prev_log_index, req.entries)
    <2>1. /\ ConvertToFollower(n, src, req)
          /\ check_if_previous_log_in_sync(log, req)
          /\ log_entries_' = [log_entries_ EXCEPT ![n] = new]
          /\ Reply(src, n, <<AppendResponse(req.term, TRUE, LastIndex(new))>>)
      BY <1>7, Zenon DEF AppendAccepted, req
    <2>2. req.prev_log_index <= Len(log)
      BY <2>1, Zenon DEF check_if_previous_log_in_sync
    <2>3. new \in Seq(Entry)
      BY <1>2, <1>4, <2>2, AppendLogFacts, Zenon
    <2> HIDE DEF new
    <2>4. LastIndex(new) \in Nat
      BY <2>3, LogFacts, Zenon
    <2>5. <<AppendResponse(req.term, TRUE, LastIndex(new))>> \in Seq(Message)
      BY <1>4, <2>4, ResponseTypes, Zenon
    <2>6. net' \in [Channel -> Seq(Message)]
      BY <1>1, <2>1, <2>5, ReplyType, Zenon
    <2>7. log_entries_' \in [Node -> Seq(Entry)]
      BY <2>1, <2>3, Zenon DEF TypeOK
    <2>8. /\ message_queue_' \in [Node -> Queue]
          /\ commit_index_' \in [Node -> Nat]
          /\ stored' \in [Node -> Seq(Entry)]
      <3>1. CASE FollowerCommits(n, req)
        <4> DEFINE es == SubSeq(log, commit_index_[n] + 1, req.leader_commit)
        <4>1. /\ message_queue_' = [message_queue_ EXCEPT ![n] =
                                      commit_log_entries(@, es)]
              /\ commit_index_' =
                   [commit_index_ EXCEPT ![n] = req.leader_commit]
              /\ stored' = [stored EXCEPT ![n] =
                              Append(@, log[req.leader_commit])]
          BY <1>7, <3>1, Zenon DEF AppendAccepted, req
        <4>2. /\ commit_index_[n] \in Nat /\ message_queue_[n] \in Queue
              /\ stored[n] \in Seq(Entry)
          BY Zenon DEF TypeOK
        <4>3. req.leader_commit <= Len(log) /\ req.leader_commit >= 1
          BY <1>4, <3>1, <4>2 DEF FollowerCommits
        <4>a. /\ log \in Seq(Entry) /\ Len(log) \in Nat
              /\ req.leader_commit \in Nat
          BY <1>2, <1>4, LenProperties, Zenon
        <4>b. es \in Seq(Entry)
          BY <4>2, <4>3, <4>a, SliceFacts, Zenon
        <4>c. log[req.leader_commit] \in Entry
          BY <4>3, <4>a, LogFacts
        <4>4. es \in Seq(Entry) /\ log[req.leader_commit] \in Entry
          BY <4>b, <4>c, Zenon
        <4> HIDE DEF es
        <4>5. commit_log_entries(message_queue_[n], es) \in Queue
          BY <4>2, <4>4, CommitFacts, Zenon
        <4>6. Append(stored[n], log[req.leader_commit]) \in Seq(Entry)
          BY <4>2, <4>4, AppendFacts, Zenon
        <4>7. /\ message_queue_ \in [Node -> Queue]
              /\ commit_index_ \in [Node -> Nat]
              /\ stored \in [Node -> Seq(Entry)]
          BY Zenon DEF TypeOK
        <4> HIDE DEF log
        <4> QED BY <1>4, <4>1, <4>5, <4>6, <4>7, Zenon
      <3>2. CASE ~FollowerCommits(n, req)
        BY <1>7, <3>2, Zenon DEF AppendAccepted, req, TypeOK
      <3> QED BY <3>1, <3>2, Zenon
    <2> QED BY ZenonT(30), <1>2, <1>4, <2>1, <2>6, <2>7, <2>8
            DEF ConvertToFollower, TypeOK, State
  <1> QED BY <1>5, <1>6, <1>7, Zenon

\* So do the branches of the AppendEntries response handler.
LEMMA AppendResponseStepType ==
  ASSUME TypeOK, NEW n \in Node, NEW src \in Peers(n),
         \/ AppendFailedTerm(n, src) \/ AppendFailedSync(n, src)
         \/ AppendSynced(n, src) \/ AppendCommitted(n, src)
         \/ AppendCommittedDies(n, src)
  PROVE  TypeOK'
  <1> USE DEF electionVars, indexVars, logVars, boundVars, historyVars
  <1> DEFINE resp == Head(net[<<src, n>>])
             log == log_entries_[n]
             last == resp.last_index_synced
  <1>1. Msg(src, n, "APPEND_ENTRIES_RESPONSE")
    BY Zenon DEF AppendFailedTerm, AppendFailedSync, AppendSynced, AppendCommitted,
           AppendCommittedDies
  <1>2. /\ src \in Node /\ cur_term_[n] \in Nat /\ log \in Seq(Entry)
        /\ commit_index_[n] \in Nat /\ next_index_[n][src] \in Nat \ {0}
    BY DEF Peers, TypeOK
  <1>3. resp \in AppendEntriesResponse
    BY <1>1, <1>2, MsgFacts, Zenon
  <1>4. resp.term \in Nat /\ (resp.success => last \in Nat)
    BY <1>3, Zenon DEF AppendEntriesResponse
  <1> HIDE DEF resp
  <1>5. CASE AppendFailedTerm(n, src)
    <2>1. ReplyWithUpdate(n, src, resp.term, commit_index_[n],
                          next_index_[n][src])
      BY <1>5, Zenon DEF AppendFailedTerm, resp
    <2>2. /\ net' \in [Channel -> Seq(Message)]
          /\ next_index_' \in [Node -> [Node -> Nat \ {0}]]
          /\ pending_append_reqs_' \in [Node -> [Node -> Nat]]
      BY <1>1, <1>2, <1>4, <2>1, UpdateReplyType, Zenon
    <2>3. cur_term_' = [cur_term_ EXCEPT ![n] = resp.term]
      BY <1>5, Zenon DEF AppendFailedTerm, resp
    <2> QED BY <1>4, <1>5, <2>2, <2>3, Zenon DEF AppendFailedTerm, TypeOK
  <1>6. CASE AppendFailedSync(n, src)
    <2>1. ReplyWithUpdate(n, src, cur_term_[n], commit_index_[n],
                          EarlierIndex(next_index_[n][src]))
      BY <1>6, Zenon DEF AppendFailedSync
    <2>2. EarlierIndex(next_index_[n][src]) \in Nat \ {0}
      BY <1>2 DEF EarlierIndex
    <2>3. /\ net' \in [Channel -> Seq(Message)]
          /\ next_index_' \in [Node -> [Node -> Nat \ {0}]]
          /\ pending_append_reqs_' \in [Node -> [Node -> Nat]]
      BY <1>1, <1>2, <2>1, <2>2, UpdateReplyType, Zenon
    <2> QED BY <1>6, <2>3, Zenon DEF AppendFailedSync, TypeOK
  <1>7. CASE AppendSynced(n, src)
    <2>1. /\ last \in Nat
          /\ ReplyWithUpdate(n, src, cur_term_[n], commit_index_[n], last + 1)
          /\ matched_index_' = [matched_index_ EXCEPT ![n][src] = last]
      BY <1>4, <1>7, Zenon DEF AppendSynced, resp
    <2> HIDE DEF last
    <2>2. last + 1 \in Nat \ {0}
      BY <2>1
    <2>3. /\ net' \in [Channel -> Seq(Message)]
          /\ next_index_' \in [Node -> [Node -> Nat \ {0}]]
          /\ pending_append_reqs_' \in [Node -> [Node -> Nat]]
      BY <1>1, <1>2, <2>1, <2>2, UpdateReplyType, Zenon
    <2>4. matched_index_' \in [Node -> [Node -> Nat]]
      BY <1>2, <2>1, Zenon DEF TypeOK
    <2> QED BY <1>7, <2>3, <2>4, Zenon DEF AppendSynced, TypeOK
  <1>8. CASE AppendCommitted(n, src)
    <2> DEFINE end == IF last <= Len(log) THEN last ELSE Len(log)
               es == SubSeq(log, commit_index_[n] + 1, end)
               e == IF last <= Len(log) THEN log[last] ELSE Garbage
    <2>1. /\ last \in Nat /\ LeaderCommits(n, src, last)
          /\ matched_index_' = [matched_index_ EXCEPT ![n][src] = last]
          /\ message_queue_' = [message_queue_ EXCEPT ![n] =
                                  commit_log_entries(@, es)]
          /\ commit_index_' = [commit_index_ EXCEPT ![n] = last]
          /\ stored' = [stored EXCEPT ![n] = Append(@, e)]
          /\ ReplyWithUpdate(n, src, cur_term_[n], last, last + 1)
      BY <1>4, <1>8, Zenon DEF AppendCommitted, resp
    <2> HIDE DEF last
    <2>2. last >= 1 /\ last + 1 \in Nat \ {0} /\ Len(log) \in Nat
      BY <1>2, <2>1, LenProperties DEF LeaderCommits
    <2>3. /\ net' \in [Channel -> Seq(Message)]
          /\ next_index_' \in [Node -> [Node -> Nat \ {0}]]
          /\ pending_append_reqs_' \in [Node -> [Node -> Nat]]
      BY <1>1, <1>2, <2>1, <2>2, UpdateReplyType, Zenon
    <2>4. end \in Nat /\ end <= Len(log)
      BY <2>1, <2>2
    <2>5. es \in Seq(Entry)
      BY <1>2, <2>4, SliceFacts, Zenon
    <2>6. e \in Entry
      <3>1. last <= Len(log) => last \in 1..Len(log)
        BY <2>1, <2>2
      <3>2. Garbage \in Entry
        BY DEF Garbage, Entry
      <3> QED BY <1>2, <3>1, <3>2, LogFacts, Zenon
    <2> HIDE DEF es, e, end
    <2>7. /\ message_queue_ \in [Node -> Queue]
          /\ commit_index_ \in [Node -> Nat]
          /\ matched_index_ \in [Node -> [Node -> Nat]]
          /\ stored \in [Node -> Seq(Entry)]
      BY Zenon DEF TypeOK
    <2>8. /\ commit_log_entries(message_queue_[n], es) \in Queue
          /\ Append(stored[n], e) \in Seq(Entry)
      BY <2>5, <2>6, <2>7, CommitFacts, AppendFacts, Zenon
    <2>9. /\ message_queue_' \in [Node -> Queue]
          /\ commit_index_' \in [Node -> Nat]
          /\ stored' \in [Node -> Seq(Entry)]
      BY <2>1, <2>7, <2>8, Zenon
    <2>10. matched_index_' \in [Node -> [Node -> Nat]]
      BY <1>2, <2>1, <2>7, Zenon
    <2>11. UNCHANGED <<electionVars, cur_leader_, log_entries_, boundVars,
                       historyVars>>
      BY <1>8, Zenon DEF AppendCommitted
    <2> QED BY <2>3, <2>9, <2>10, <2>11, ZenonT(30) DEF TypeOK
  <1>9. CASE AppendCommittedDies(n, src)
    <2>1. net' \in [Channel -> Seq(Message)]
      BY <1>9, EmptySeq, Zenon DEF AppendCommittedDies, TypeOK
    <2> QED BY <1>9, <2>1, Zenon DEF AppendCommittedDies, TypeOK, State
  <1> QED BY <1>5, <1>6, <1>7, <1>8, <1>9, Zenon

\* What AdoptVoteTerm assigns keeps its type, and it assigns nothing else.
LEMMA AdoptType ==
  ASSUME TypeOK, NEW n \in Node, NEW src, NEW req, req.term \in Nat,
         AdoptVoteTerm(n, src, req)
  PROVE  /\ cur_term_' \in [Node -> Nat]
         /\ votes_collected_' \in [Node -> Int]
         /\ counted' \in [Node -> SUBSET Vote]
         /\ UNCHANGED <<state_, vote_delay, cur_leader_, indexVars, logVars,
                        boundVars, elected>>
  <1>1. /\ cur_term_ \in [Node -> Nat] /\ votes_collected_ \in [Node -> Int]
        /\ counted \in [Node -> SUBSET Vote]
    BY Zenon DEF TypeOK
  <1> QED BY <1>1 DEF AdoptVoteTerm

\* The handlers of vote requests and responses keep the types.
LEMMA VoteStepType ==
  ASSUME TypeOK, NEW n \in Node, NEW src \in Peers(n),
         \/ VoteDenied(n, src) \/ VoteGranted(n, src)
         \/ VoteIgnoredByLeader(n, src)
         \/ VoteResponseIgnored(n, src) \/ VoteCounted(n, src)
  PROVE  TypeOK'
  <1> USE DEF electionVars, indexVars, logVars, boundVars, historyVars
  <1> DEFINE m == Head(net[<<src, n>>])
  <1>1. src \in Node
    BY Zenon DEF Peers
  <1>2. PICK type \in {"REQUEST_VOTE_REQUEST", "REQUEST_VOTE_RESPONSE"} :
          Msg(src, n, type)
    BY Zenon DEF VoteDenied, VoteGranted, VoteIgnoredByLeader, VoteResponseIgnored,
           VoteCounted
  <1>3. m.term \in Nat
    BY <1>1, <1>2, MsgFacts, Zenon DEF RequestVoteRequest, RequestVoteResponse
  <1>4. \E msgs \in Seq(Message) : Reply(src, n, msgs)
    <2>1. /\ <<>> \in Seq(Message)
          /\ <<VoteResponse(m.term, FALSE)>> \in Seq(Message)
          /\ <<VoteResponse(m.term, TRUE)>> \in Seq(Message)
      BY <1>3, EmptySeq, ResponseTypes, Zenon
    <2> QED BY <2>1, Zenon DEF VoteDenied, VoteGranted, VoteIgnoredByLeader,
                        VoteResponseIgnored, VoteCounted
  <1>5. net' \in [Channel -> Seq(Message)]
    BY <1>2, <1>4, ReplyType, Zenon
  <1> HIDE DEF m
  <1>6. CASE VoteDenied(n, src)
    BY <1>5, <1>6, Zenon DEF VoteDenied, TypeOK
  <1>7. CASE VoteGranted(n, src)
    <2>1. [voter |-> n, term |-> m.term, candidate |-> src] \in Vote
      BY <1>1, <1>3, Zenon DEF Vote
    <2>2. /\ AdoptVoteTerm(n, src, m)
          /\ voted_for_' = [voted_for_ EXCEPT ![n] = src]
          /\ votes' = votes \cup
               {[voter |-> n, term |-> m.term, candidate |-> src]}
      BY <1>7, Zenon DEF VoteGranted, m
    <2>3. votes' \subseteq Vote
      BY <2>1, <2>2, Zenon DEF TypeOK
    <2>4. voted_for_' \in [Node -> Node \cup {None}]
      BY <1>1, <2>2, Zenon DEF TypeOK
    <2> QED BY <1>3, <1>5, <2>2, <2>3, <2>4, AdoptType, ZenonT(30) DEF TypeOK
  <1>8. CASE VoteIgnoredByLeader(n, src)
    <2>1. AdoptVoteTerm(n, src, m) /\ UNCHANGED <<voted_for_, votes>>
      BY <1>8, Zenon DEF VoteIgnoredByLeader, m
    <2> QED BY <1>3, <1>5, <2>1, AdoptType, Zenon DEF TypeOK
  <1>9. CASE VoteResponseIgnored(n, src)
    BY <1>5, <1>9, Zenon DEF VoteResponseIgnored, TypeOK
  <1>10. CASE VoteCounted(n, src)
    <2> DEFINE v == [voter |-> src, term |-> m.term, candidate |-> n]
    <2>1. v \in Vote /\ [node |-> n, term |-> m.term] \in [node : Node, term : Nat]
      BY <1>1, <1>3, Zenon DEF Vote
    <2>2. counted' = [counted EXCEPT ![n] = @ \cup {v}]
      BY <1>10, Zenon DEF VoteCounted, m
    <2>3. counted' \in [Node -> SUBSET Vote]
      BY <2>1, <2>2, Zenon DEF TypeOK
    <2>4. /\ state_' \in [Node -> State] /\ cur_term_' \in [Node -> Nat]
          /\ elected' \subseteq [node : Node, term : Nat]
      <3>1. CASE HasQuorum(votes_collected_[n] + 1)
        <4>1. /\ state_' = [state_ EXCEPT ![n] = "LEADER"]
              /\ cur_term_' = [cur_term_ EXCEPT ![n] = m.term]
              /\ elected' = elected \cup {[node |-> n, term |-> m.term]}
          BY <1>10, <3>1, Zenon DEF VoteCounted, m
        <4> QED BY <1>3, <2>1, <4>1, Zenon DEF TypeOK, State
      <3>2. CASE ~HasQuorum(votes_collected_[n] + 1)
        BY <1>10, <3>2, Zenon DEF VoteCounted, TypeOK
      <3> QED BY <3>1, <3>2, Zenon
    <2>5. votes_collected_' \in [Node -> Int]
      <3>1. votes_collected_ \in [Node -> Int]
        BY Zenon DEF TypeOK
      <3>2. votes_collected_' = [votes_collected_ EXCEPT ![n] = @ + 1]
        BY <1>10, Zenon DEF VoteCounted
      <3> QED BY <3>1, <3>2
    <2>6. UNCHANGED <<voted_for_, vote_delay, cur_leader_, indexVars,
                      logVars, boundVars, votes>>
      BY <1>10, Zenon DEF VoteCounted
    <2> QED BY <1>5, <2>3, <2>4, <2>5, <2>6, ZenonT(30) DEF TypeOK
  <1> QED BY <1>6, <1>7, <1>8, <1>9, <1>10, Zenon

\* So does a request of a client, which appends to the log and sends it on.
LEMMA ClientRequestType ==
  ASSUME TypeOK, NEW n \in Node, NEW op \in Operation, ClientRequest(n, op)
  PROVE  TypeOK'
  <1> USE DEF electionVars, indexVars, logVars, boundVars, historyVars
  <1>1. PICK id \in Nat : add_log_entry(n, op, id)
    BY DEF ClientRequest, TypeOK
  <1> DEFINE e == [index |-> Len(log_entries_[n]) + 1, term |-> cur_term_[n],
                   operation |-> op, message_id |-> id]
             log == Append(log_entries_[n], e)
             out == [m \in Node |->
                       trigger_entry_update(cur_term_[n], log,
                         commit_index_[n], next_index_[n][m],
                         pending_append_reqs_[n][m])]
  <1>2. /\ log_entries_[n] \in Seq(Entry) /\ cur_term_[n] \in Nat
        /\ commit_index_[n] \in Nat
        /\ \A m \in Node : /\ next_index_[n][m] \in Nat
                           /\ pending_append_reqs_[n][m] \in Nat
        /\ log_entries_ \in [Node -> Seq(Entry)]
        /\ pending_append_reqs_ \in [Node -> [Node -> Nat]]
    BY Zenon DEF TypeOK
  <1>a. Len(log_entries_[n]) + 1 \in Nat
    BY <1>2, LenProperties
  <1>b. op \in {"ADD", "COMMIT"}
    BY InputAssumption, Zenon
  <1>3. e \in Entry
    BY <1>2, <1>a, <1>b, Zenon DEF Entry
  <1>4. /\ log_entries_' = [log_entries_ EXCEPT ![n] = log]
        /\ SendEach(n, out)
        /\ pending_append_reqs_' = [pending_append_reqs_ EXCEPT ![n] =
             [m \in Node |-> IF m = n THEN @[m] ELSE @[m] + Len(out[m])]]
    BY <1>1, Zenon DEF add_log_entry
  <1> HIDE DEF e
  <1>5. log \in Seq(Entry)
    BY <1>2, <1>3, AppendFacts, Zenon
  <1> HIDE DEF log
  <1>6. \A m \in Node : out[m] \in Seq(Message) /\ Len(out[m]) \in Nat
    BY <1>2, <1>5, UpdateFacts, Zenon
  <1>7. out \in [Node -> Seq(Message)]
    BY <1>6, Zenon
  <1> HIDE DEF out
  <1>8. net' \in [Channel -> Seq(Message)]
    BY <1>4, <1>7, SendEachType, Zenon
  <1>9. [m \in Node |-> IF m = n THEN pending_append_reqs_[n][m]
                        ELSE pending_append_reqs_[n][m] + Len(out[m])]
          \in [Node -> Nat]
    BY SMTT(30), <1>2, <1>6
  <1>10. /\ pending_append_reqs_' \in [Node -> [Node -> Nat]]
         /\ log_entries_' \in [Node -> Seq(Entry)]
    BY <1>2, <1>4, <1>5, <1>9, Zenon
  <1>11. /\ requests' \in Nat
         /\ UNCHANGED <<electionVars, cur_leader_, next_index_,
                        matched_index_, commit_index_, message_queue_,
                        stored, losses, historyVars>>
    BY DEF ClientRequest, TypeOK
  <1> QED BY <1>8, <1>10, <1>11, Zenon DEF TypeOK

\* So does a session that breaks.
LEMMA LoseType ==
  ASSUME TypeOK, NEW c \in Channel, Lose(c)
  PROVE  TypeOK'
  <1> USE DEF electionVars, indexVars, logVars, boundVars, historyVars
  <1>1. net \in [Channel -> Seq(Message)] /\ net[c] # <<>>
    BY Zenon DEF TypeOK, Lose
  <1>2. Len(net[c]) \in Nat /\ Len(net[c]) > 0
    BY <1>1, TailFacts, Zenon
  <1>3. SubSeq(net[c], 1, Len(net[c]) - 1) \in Seq(Message)
    BY <1>1, <1>2, PrefixFacts
  <1>4. net' \in [Channel -> Seq(Message)]
    BY <1>1, <1>3, Zenon DEF Lose
  <1>5. losses' \in Nat
    BY DEF Lose, TypeOK
  <1>6. UNCHANGED <<electionVars, cur_leader_, indexVars, logVars, requests,
                    historyVars>>
    BY Zenon DEF Lose
  <1> QED BY <1>4, <1>5, <1>6, Zenon DEF TypeOK

\* Every variable of ClusterNode keeps its type, whatever the cluster, the
\* bounds and the initial garbage in votes_collected_ are.
THEOREM TypeCorrect == Spec => []TypeOK
  <1>1. Init => TypeOK
    <2> SUFFICES ASSUME Init PROVE TypeOK
      BY Zenon
    <2>1. /\ log_entries_ \in [Node -> Seq(Entry)]
          /\ stored \in [Node -> Seq(Entry)]
          /\ net \in [Channel -> Seq(Message)]
      BY EmptySeq, Zenon DEF Init
    <2>2. votes_collected_ \in [Node -> Int]
      BY InputAssumption, Zenon DEF Init
    <2>3. [store |-> {}, committed |-> {}] \in Queue
      BY Zenon DEF Queue
    <2> QED BY <2>1, <2>2, <2>3 DEF Init, TypeOK, State
  <1>2. TypeOK /\ [Next]_vars => TypeOK'
    <2> SUFFICES ASSUME TypeOK, [Next]_vars PROVE TypeOK'
      BY Zenon
    <2>1. ASSUME NEW n \in Node, Timer(n) PROVE TypeOK'
      BY <2>1, TimerType, Zenon
    <2>2. ASSUME NEW n \in Node, NEW src \in Peers(n),
                 local_message_handler(n, src)
          PROVE  TypeOK'
      BY <2>2, AppendRequestStepType, AppendResponseStepType, VoteStepType, Zenon
         DEF local_message_handler
    <2>3. ASSUME NEW n \in Node, NEW op \in Operation, ClientRequest(n, op)
          PROVE  TypeOK'
      BY <2>3, ClientRequestType, Zenon
    <2>4. ASSUME NEW c \in Channel, Lose(c) PROVE TypeOK'
      BY <2>4, LoseType, Zenon
    <2>5. CASE UNCHANGED vars
      BY <2>5, Zenon DEF vars, electionVars, indexVars, logVars, boundVars,
                  historyVars, TypeOK
    <2> QED BY <2>1, <2>2, <2>3, <2>4, <2>5, Zenon DEF Next
  <1> QED BY <1>1, <1>2, PTL DEF Spec
=============================================================================
