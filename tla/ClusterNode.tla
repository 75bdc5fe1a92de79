----------------------------- MODULE ClusterNode -----------------------------
(***************************************************************************)
(* The consensus part of flowmq: class ClusterNode of one partition, one   *)
(* instance on every server, exchanging RequestVote and AppendEntries      *)
(* messages through ClusterManager.                                        *)
(*                                                                         *)
(* Every handler runs to completion on the partition's own io_context      *)
(* thread, so each branch of a handler is one atomic action.  A channel    *)
(* net[<<i, j>>] is the outgoing session of i towards j, the socket, and   *)
(* the io_context queue of j: first in, first out; what is written while   *)
(* the session is down is lost.                                            *)
(*                                                                         *)
(* Entry 0 of log_entries_ is a constant sentinel (term 0, index 0) and is *)
(* left out: log_entries_[i] in the code is log_entries_[n][i] here, for   *)
(* i >= 1, and log_entries_.size() is Len(log_entries_[n]) + 1.  Messages  *)
(* do not carry leader_id, candidate_id and follower_id: each equals the   *)
(* sender, which the channel names.                                        *)
(*                                                                         *)
(* No client has opened the queue in this module, so has_consumers() is    *)
(* false and trigger_message_delivery() returns at once.                   *)
(***************************************************************************)
EXTENDS Integers, Sequences, FiniteSets

CONSTANTS
    Node,          \* the servers; total_nodes_ is Cardinality(Node)
    None,          \* the value -1 of voted_for_ and cur_leader_
    UninitVotes,   \* the values an uninitialized votes_collected_ may hold
    Electable,     \* bound: the nodes whose vote timer fires
    MaxTerm,       \* bound: the last term an election may start
    Operation,     \* the client requests explored: "ADD", "COMMIT"
    MaxRequests,   \* bound: client requests a leader turns into log entries
    MaxLoss,       \* bound: messages lost to broken sessions
    MaxInFlight,   \* bound: no heartbeat while a link carries this many,
    MaxPending     \* bound: or while this many requests await a response

ASSUME NodeAssumption == IsFiniteSet(Node) /\ None \notin Node
ASSUME InputAssumption ==
    /\ UninitVotes \subseteq Int
    /\ Electable \subseteq Node
    /\ Operation \subseteq {"ADD", "COMMIT"}
ASSUME BoundAssumption ==
    {MaxTerm, MaxRequests, MaxLoss, MaxInFlight, MaxPending} \subseteq Nat

VARIABLES
    state_, cur_term_, cur_leader_, votes_collected_, voted_for_,
    vote_delay,            \* the random-delay timer of an election is pending
    log_entries_, commit_index_,
    next_index_, matched_index_, pending_append_reqs_,
    message_queue_,        \* ids stored and ids consumed in the MessageQueue
    stored,                \* entries handed to the storage, in order
    net,
    requests, losses,      \* what the bounds count
    votes, counted, elected  \* history: granted votes, tallied votes, winners

electionVars == <<state_, cur_term_, votes_collected_, voted_for_, vote_delay>>
indexVars == <<next_index_, matched_index_, pending_append_reqs_>>
logVars == <<log_entries_, commit_index_, message_queue_, stored>>
boundVars == <<requests, losses>>
historyVars == <<votes, counted, elected>>
vars == <<electionVars, cur_leader_, indexVars, logVars, net, boundVars,
          historyVars>>

MAX_PENDING_APPEND == 2

State == {"LEADER", "FOLLOWER", "CANDIDATE", "DOWN"}
Entry == [index : Nat, term : Nat, operation : {"ADD", "COMMIT"},
          message_id : Nat]
Queue == [store : SUBSET Nat, committed : SUBSET Nat]
Vote == [voter : Node, term : Nat, candidate : Node]
Channel == Node \X Node

RequestVoteRequest ==
    [type : {"REQUEST_VOTE_REQUEST"}, term : Nat,
     last_log_index : Nat, last_log_term : Nat]
RequestVoteResponse ==
    [type : {"REQUEST_VOTE_RESPONSE"}, term : Nat, granted : BOOLEAN]
AppendEntriesRequest ==
    [type : {"APPEND_ENTRIES_REQUEST"}, term : Nat, prev_log_index : Nat,
     prev_log_term : Nat, entries : Seq(Entry), leader_commit : Nat]
AppendEntriesResponse ==
    [type : {"APPEND_ENTRIES_RESPONSE"}, term : Nat,
     success : {TRUE}, last_index_synced : Nat]
      \cup [type : {"APPEND_ENTRIES_RESPONSE"}, term : Nat,
            success : {FALSE}, last_index_synced : {-1}]
Message == RequestVoteRequest \cup RequestVoteResponse
             \cup AppendEntriesRequest \cup AppendEntriesResponse

Peers(n) == Node \ {n}
Up(n) == state_[n] # "DOWN"

\* (Changed: half of the cluster counts as a majority.)
HasQuorumHalf(count) == count >= Cardinality(Node) \div 2

\* A count of nodes that is a majority of the cluster.
HasQuorum(count) == count > Cardinality(Node) \div 2
-----------------------------------------------------------------------------
(* The log.                                                                *)

LastIndex(log) == IF log = <<>> THEN 0 ELSE log[Len(log)].index
LastTerm(log) == IF log = <<>> THEN 0 ELSE log[Len(log)].term
TermAt(log, i) == IF i = 0 THEN 0 ELSE log[i].term

check_if_previous_log_in_sync(log, req) ==
    /\ req.prev_log_index <= Len(log)
    /\ TermAt(log, req.prev_log_index) = req.prev_log_term

\* (Changed: the entry at i survives.)
clean_log_entries_after(log, i) == SubSeq(log, 1, i)

\* Drops the entries from position i on.
clean_log_entries_out_of_sync(log, i) == SubSeq(log, 1, i - 1)

\* (Changed: a resent entry is appended again.)
append_log_entries_always(log, prev, entries) == log \o entries

\* (Changed: a resent entry replaces the log from its position on.)
append_log_entries_over(log, prev, entries) ==
    IF entries = <<>> THEN log
    ELSE Append(clean_log_entries_out_of_sync(log, prev + 1), entries[1])

\* No request carries more than one entry, so the loop runs at most once.
append_log_entries(log, prev, entries) ==
    LET i == prev + 1 IN
    IF entries = <<>> \/ (i <= Len(log) /\ log[i].term = entries[1].term)
    THEN log
    ELSE IF i > Len(log)
         THEN Append(log, entries[1])
         ELSE Append(clean_log_entries_out_of_sync(log, i), entries[1])

\* commit_log_entries over the entries es: insert_message ignores an id that
\* is already stored, commit_message one that is not stored (yet).
commit_log_entries(q, es) ==
    LET Adds(j) == {i \in 1..j : es[i].operation = "ADD"}
        Commits == {j \in 1..Len(es) :
                      /\ es[j].operation = "COMMIT"
                      /\ \/ es[j].message_id \in q.store
                         \/ \E i \in Adds(j) :
                              es[i].message_id = es[j].message_id}
    IN [store |-> q.store \cup {es[i].message_id : i \in Adds(Len(es))},
        committed |-> q.committed \cup {es[j].message_id : j \in Commits}]
-----------------------------------------------------------------------------
(* Messages and the network.                                               *)

Msg(src, n, type) ==
    /\ Up(n)
    /\ net[<<src, n>>] # <<>>
    /\ Head(net[<<src, n>>]).type = type

\* n takes the next message from src and writes msgs back to src, if there is
\* a session with src.
Reply(src, n, msgs) ==
    net' = [net EXCEPT ![<<src, n>>] = Tail(@),
                       ![<<n, src>>] = IF Up(src) THEN @ \o msgs ELSE @]

\* n writes out[m] to each other node m it has a session with.
SendEach(n, out) ==
    net' = [c \in Channel |-> IF c[1] = n /\ c[2] # n /\ Up(c[2])
                              THEN net[c] \o out[c[2]] ELSE net[c]]

AppendRequest(term, log, prev, entries, commit) ==
    [type |-> "APPEND_ENTRIES_REQUEST", term |-> term,
     prev_log_index |-> prev, prev_log_term |-> TermAt(log, prev),
     entries |-> entries, leader_commit |-> commit]

AppendResponse(term, success, last) ==
    [type |-> "APPEND_ENTRIES_RESPONSE", term |-> term, success |-> success,
     last_index_synced |-> last]

VoteResponse(term, granted) ==
    [type |-> "REQUEST_VOTE_RESPONSE", term |-> term, granted |-> granted]

\* (Changed: the entry sent is named as its own predecessor.)
trigger_entry_update_shifted(term, log, commit, next, pending) ==
    IF next \in 1..Len(log) /\ pending < MAX_PENDING_APPEND
    THEN <<AppendRequest(term, log, next, <<log[next]>>, commit)>>
    ELSE <<>>

\* What trigger_entry_update writes to a follower with this next_index_ and
\* this many pending requests.
trigger_entry_update(term, log, commit, next, pending) ==
    IF next \in 1..Len(log) /\ pending < MAX_PENDING_APPEND
    THEN <<AppendRequest(term, log, next - 1, <<log[next]>>, commit)>>
    ELSE <<>>
-----------------------------------------------------------------------------
(* The constructor, started on an empty storage.                           *)

Init ==
    /\ state_ = [n \in Node |-> "CANDIDATE"]
    /\ cur_term_ = [n \in Node |-> 0]
    /\ cur_leader_ = [n \in Node |-> None]
    /\ votes_collected_ \in [Node -> UninitVotes]
    /\ voted_for_ = [n \in Node |-> None]
    /\ vote_delay = [n \in Node |-> FALSE]
    /\ log_entries_ = [n \in Node |-> <<>>]
    /\ commit_index_ = [n \in Node |-> 0]
    /\ next_index_ = [n \in Node |-> [m \in Node |-> 1]]
    /\ matched_index_ = [n \in Node |-> [m \in Node |-> 0]]
    /\ pending_append_reqs_ = [n \in Node |-> [m \in Node |-> 0]]
    /\ message_queue_ = [n \in Node |-> [store |-> {}, committed |-> {}]]
    /\ stored = [n \in Node |-> <<>>]
    /\ net = [c \in Channel |-> <<>>]
    /\ requests = 0 /\ losses = 0
    /\ votes = {} /\ counted = [n \in Node |-> {}] /\ elected = {}
-----------------------------------------------------------------------------
(* The timers.                                                             *)

\* The vote timer finds the node a candidate, or a follower whose leader has
\* been silent for too long.  The random-delay timer of a round (under 0.5 s)
\* always expires before the next round (6 s later).
VoteTimer(n) ==
    /\ n \in Electable /\ cur_term_[n] < MaxTerm
    /\ ~vote_delay[n]
    /\ state_[n] \in {"FOLLOWER", "CANDIDATE"}
    /\ state_' = [state_ EXCEPT ![n] = "CANDIDATE"]
    /\ cur_term_' = [cur_term_ EXCEPT ![n] = @ + 1]
    /\ voted_for_' = [voted_for_ EXCEPT ![n] = None]
    /\ votes_collected_' = [votes_collected_ EXCEPT ![n] = 0]
    /\ counted' = [counted EXCEPT ![n] = {}]
    /\ vote_delay' = [vote_delay EXCEPT ![n] = TRUE]
    /\ UNCHANGED <<cur_leader_, indexVars, logVars, net, boundVars, votes,
                   elected>>

\* The random-delay timer: the node has voted meanwhile ...
DelayedVoteSkipped(n) ==
    /\ Up(n) /\ vote_delay[n]
    /\ voted_for_[n] # None
    /\ vote_delay' = [vote_delay EXCEPT ![n] = FALSE]
    /\ UNCHANGED <<state_, cur_term_, votes_collected_, voted_for_,
                   cur_leader_, indexVars, logVars, net, boundVars,
                   historyVars>>

\* ... or it has not, and votes for itself, whatever its state is by now.
DelayedVoteRequest(n) ==
    /\ Up(n) /\ vote_delay[n]
    /\ voted_for_[n] = None
    /\ vote_delay' = [vote_delay EXCEPT ![n] = FALSE]
    /\ voted_for_' = [voted_for_ EXCEPT ![n] = n]
    /\ votes_collected_' = [votes_collected_ EXCEPT ![n] = @ + 1]
    /\ SendEach(n, [m \in Node |->
         <<[type |-> "REQUEST_VOTE_REQUEST", term |-> cur_term_[n],
            last_log_index |-> LastIndex(log_entries_[n]),
            last_log_term |-> LastTerm(log_entries_[n])]>>])
    /\ LET v == [voter |-> n, term |-> cur_term_[n], candidate |-> n] IN
         /\ votes' = votes \cup {v}
         /\ counted' = [counted EXCEPT ![n] = @ \cup {v}]
    /\ UNCHANGED <<state_, cur_term_, cur_leader_, indexVars, logVars,
                   boundVars, elected>>

\* (Changed: a candidate announces itself as well.)
SendsHeartbeatsEarly(n) == state_[n] \in {"LEADER", "CANDIDATE"}

\* The heartbeat timer of a leader.
SendsHeartbeats(n) == state_[n] = "LEADER"

Heartbeat(n) ==
    /\ SendsHeartbeats(n)
    /\ \A m \in Peers(n) :
         /\ Len(net[<<n, m>>]) + Len(net[<<m, n>>]) < MaxInFlight
         /\ pending_append_reqs_[n][m] < MaxPending
    /\ SendEach(n, [m \in Node |->
         <<[type |-> "APPEND_ENTRIES_REQUEST", term |-> cur_term_[n],
            prev_log_index |-> LastIndex(log_entries_[n]),
            prev_log_term |-> LastTerm(log_entries_[n]),
            entries |-> <<>>, leader_commit |-> commit_index_[n]]>>])
    /\ pending_append_reqs_' =
         [pending_append_reqs_ EXCEPT ![n] =
            [m \in Node |-> IF m = n THEN @[m] ELSE @[m] + 1]]
    /\ UNCHANGED <<electionVars, cur_leader_, next_index_, matched_index_,
                   logVars, boundVars, historyVars>>

\* The statistics timer only logs, and is always armed.
StatisticsTimer(n) == Up(n) /\ UNCHANGED vars
-----------------------------------------------------------------------------
(* AppendEntries requests, at a follower (or at whatever n is by then).    *)

\* A request of an earlier term.
AppendExpired(n, src) ==
    /\ Msg(src, n, "APPEND_ENTRIES_REQUEST")
    /\ Head(net[<<src, n>>]).term < cur_term_[n]
    /\ cur_leader_' = [cur_leader_ EXCEPT ![n] = None]
    /\ Reply(src, n, <<AppendResponse(cur_term_[n], FALSE, -1)>>)
    /\ UNCHANGED <<electionVars, indexVars, logVars, boundVars, historyVars>>

\* What every request of the current or a later term does first.  A leader of
\* the same term stays leader.
ConvertToFollower(n, src, req) ==
    /\ req.term >= cur_term_[n]
    /\ state_' = [state_ EXCEPT ![n] =
         IF @ = "CANDIDATE" \/ (@ = "LEADER" /\ req.term > cur_term_[n])
         THEN "FOLLOWER" ELSE @]
    /\ cur_term_' = [cur_term_ EXCEPT ![n] = req.term]
    /\ cur_leader_' = [cur_leader_ EXCEPT ![n] = src]
    /\ UNCHANGED <<votes_collected_, voted_for_, vote_delay, indexVars,
                   boundVars, historyVars>>

AppendOutOfSync(n, src) ==
    LET req == Head(net[<<src, n>>]) IN
    /\ Msg(src, n, "APPEND_ENTRIES_REQUEST")
    /\ ConvertToFollower(n, src, req)
    /\ ~check_if_previous_log_in_sync(log_entries_[n], req)
    /\ Reply(src, n, <<AppendResponse(req.term, FALSE, -1)>>)
    /\ UNCHANGED logVars

\* (Changed: every heartbeat stores the last entry again.)
FollowerCommitsAgain(n, req) ==
    0 < req.leader_commit /\ commit_index_[n] <= req.leader_commit
      /\ req.leader_commit <= Len(log_entries_[n])

\* The commit index moves, over the log as it is before the new entry is
\* appended, when the log reaches as far as leader_commit.
FollowerCommits(n, req) ==
    commit_index_[n] < req.leader_commit
      /\ req.leader_commit <= Len(log_entries_[n])

AppendAccepted(n, src) ==
    LET req == Head(net[<<src, n>>])
        log == log_entries_[n]
        new == append_log_entries(log, req.prev_log_index, req.entries)
    IN
    /\ Msg(src, n, "APPEND_ENTRIES_REQUEST")
    /\ ConvertToFollower(n, src, req)
    /\ check_if_previous_log_in_sync(log, req)
    /\ IF FollowerCommits(n, req)
       THEN /\ message_queue_' = [message_queue_ EXCEPT ![n] =
                 commit_log_entries(@, SubSeq(log, commit_index_[n] + 1,
                                              req.leader_commit))]
            /\ commit_index_' = [commit_index_ EXCEPT ![n] = req.leader_commit]
            /\ stored' = [stored EXCEPT ![n] =
                 Append(@, log[req.leader_commit])]
       ELSE UNCHANGED <<message_queue_, commit_index_, stored>>
    /\ log_entries_' = [log_entries_ EXCEPT ![n] = new]
    /\ Reply(src, n, <<AppendResponse(req.term, TRUE, LastIndex(new))>>)
-----------------------------------------------------------------------------
(* AppendEntries responses.  No branch looks at state_, and only the       *)
(* failed ones look at the term.                                           *)

\* (Changed: a response does not free its slot.)
PendingAfterLeak(n, src) == pending_append_reqs_[n][src]

PendingAfter(n, src) ==
    IF pending_append_reqs_[n][src] > 0 THEN pending_append_reqs_[n][src] - 1
                                        ELSE 0

\* The tail of the handler: trigger_entry_update(src) with the values the
\* branch has set.
ReplyWithUpdate(n, src, term, commit, next) ==
    LET p == PendingAfter(n, src)
        out == trigger_entry_update(term, log_entries_[n], commit, next, p)
    IN /\ Reply(src, n, out)
       /\ next_index_' = [next_index_ EXCEPT ![n][src] = next]
       /\ pending_append_reqs_' =
            [pending_append_reqs_ EXCEPT ![n][src] = p + Len(out)]

\* A failure that carries a later term: the term is adopted, the state kept.
AppendFailedTerm(n, src) ==
    LET resp == Head(net[<<src, n>>]) IN
    /\ Msg(src, n, "APPEND_ENTRIES_RESPONSE")
    /\ ~resp.success /\ resp.term > cur_term_[n]
    /\ cur_term_' = [cur_term_ EXCEPT ![n] = resp.term]
    /\ ReplyWithUpdate(n, src, resp.term, commit_index_[n],
                       next_index_[n][src])
    /\ UNCHANGED <<state_, votes_collected_, voted_for_, vote_delay,
                   cur_leader_, matched_index_, logVars, boundVars,
                   historyVars>>

\* (Changed: the index is not kept at 1 or above.)
EarlierIndexUnbounded(next) == next - 1

EarlierIndex(next) == IF next > 1 THEN next - 1 ELSE 1

\* Any other failure: try an earlier entry.
AppendFailedSync(n, src) ==
    LET resp == Head(net[<<src, n>>]) IN
    /\ Msg(src, n, "APPEND_ENTRIES_RESPONSE")
    /\ ~resp.success /\ resp.term <= cur_term_[n]
    /\ ReplyWithUpdate(n, src, cur_term_[n], commit_index_[n],
                       EarlierIndex(next_index_[n][src]))
    /\ UNCHANGED <<electionVars, cur_leader_, matched_index_, logVars,
                   boundVars, historyVars>>

\* The peers that are known to reach last, once src has answered last.
SyncedPeers(n, src, last) ==
    {m \in Peers(n) : m = src \/ matched_index_[n][m] >= last}

LeaderCommits(n, src, last) ==
    /\ commit_index_[n] < last
    /\ HasQuorum(Cardinality(SyncedPeers(n, src, last)) + 1)

\* A success that moves no commit index.
AppendSynced(n, src) ==
    LET resp == Head(net[<<src, n>>])
        last == resp.last_index_synced
    IN
    /\ Msg(src, n, "APPEND_ENTRIES_RESPONSE")
    /\ resp.success /\ ~LeaderCommits(n, src, last)
    /\ matched_index_' = [matched_index_ EXCEPT ![n][src] = last]
    /\ ReplyWithUpdate(n, src, cur_term_[n], commit_index_[n], last + 1)
    /\ UNCHANGED <<electionVars, cur_leader_, logVars, boundVars, historyVars>>

\* What a read of log_entries_ past its end may yield.
Garbage == [index |-> 0, term |-> 0, operation |-> "ADD", message_id |-> 0]

\* A success that commits everything up to the synced index.  Only the last
\* entry is handed to the storage; positions past the log are skipped by
\* commit_log_entry.
AppendCommitted(n, src) ==
    LET resp == Head(net[<<src, n>>])
        last == resp.last_index_synced
        log == log_entries_[n]
        end == IF last <= Len(log) THEN last ELSE Len(log)
    IN
    /\ Msg(src, n, "APPEND_ENTRIES_RESPONSE")
    /\ resp.success /\ LeaderCommits(n, src, last)
    /\ matched_index_' = [matched_index_ EXCEPT ![n][src] = last]
    /\ message_queue_' = [message_queue_ EXCEPT ![n] =
         commit_log_entries(@, SubSeq(log, commit_index_[n] + 1, end))]
    /\ commit_index_' = [commit_index_ EXCEPT ![n] = last]
    /\ stored' = [stored EXCEPT ![n] =
         Append(@, IF last <= Len(log) THEN log[last] ELSE Garbage)]
    /\ ReplyWithUpdate(n, src, cur_term_[n], last, last + 1)
    /\ UNCHANGED <<electionVars, cur_leader_, log_entries_, boundVars,
                   historyVars>>

\* The same when the synced index is past the end of the log: copying the
\* entry reads outside the vector, and the process may die of it.
AppendCommittedDies(n, src) ==
    LET resp == Head(net[<<src, n>>]) IN
    /\ Msg(src, n, "APPEND_ENTRIES_RESPONSE")
    /\ resp.success /\ LeaderCommits(n, src, resp.last_index_synced)
    /\ resp.last_index_synced > Len(log_entries_[n])
    /\ state_' = [state_ EXCEPT ![n] = "DOWN"]
    /\ net' = [c \in Channel |-> IF c[2] = n THEN <<>> ELSE net[c]]
    /\ UNCHANGED <<cur_term_, votes_collected_, voted_for_, vote_delay,
                   cur_leader_, indexVars, logVars, boundVars, historyVars>>
-----------------------------------------------------------------------------
(* RequestVote requests and responses.                                     *)

\* (Changed: voted_for_ is not looked at.)
ValidVoteRequestAgain(n, src, req) == req.term >= cur_term_[n]

\* Not an invalid_request: the term is later, or it is the current one and no
\* other candidate has the vote.  The candidate's log is not looked at.
ValidVoteRequest(n, src, req) ==
    \/ req.term > cur_term_[n]
    \/ req.term = cur_term_[n] /\ voted_for_[n] \in {None, src}

VoteDenied(n, src) ==
    LET req == Head(net[<<src, n>>]) IN
    /\ Msg(src, n, "REQUEST_VOTE_REQUEST")
    /\ ~ValidVoteRequest(n, src, req)
    /\ Reply(src, n, <<VoteResponse(req.term, FALSE)>>)
    /\ UNCHANGED <<electionVars, cur_leader_, indexVars, logVars, boundVars,
                   historyVars>>

\* The request is valid: a later term is adopted and the tally reset.
AdoptVoteTerm(n, src, req) ==
    /\ ValidVoteRequest(n, src, req)
    /\ cur_term_' = [cur_term_ EXCEPT ![n] = req.term]
    /\ votes_collected_' = [votes_collected_ EXCEPT ![n] =
         IF req.term > cur_term_[n] THEN 0 ELSE @]
    /\ counted' = [counted EXCEPT ![n] =
         IF req.term > cur_term_[n] THEN {} ELSE @]
    /\ UNCHANGED <<state_, vote_delay, cur_leader_, indexVars, logVars,
                   boundVars, elected>>

VoteGranted(n, src) ==
    LET req == Head(net[<<src, n>>]) IN
    /\ Msg(src, n, "REQUEST_VOTE_REQUEST")
    /\ AdoptVoteTerm(n, src, req)
    /\ state_[n] \in {"CANDIDATE", "FOLLOWER"}
    /\ voted_for_' = [voted_for_ EXCEPT ![n] = src]
    /\ Reply(src, n, <<VoteResponse(req.term, TRUE)>>)
    /\ votes' = votes \cup
         {[voter |-> n, term |-> req.term, candidate |-> src]}

\* A leader adopts the term, answers nothing and stays leader.
VoteIgnoredByLeader(n, src) ==
    LET req == Head(net[<<src, n>>]) IN
    /\ Msg(src, n, "REQUEST_VOTE_REQUEST")
    /\ AdoptVoteTerm(n, src, req)
    /\ state_[n] = "LEADER"
    /\ Reply(src, n, <<>>)
    /\ UNCHANGED <<voted_for_, votes>>

\* (Changed: responses of earlier terms count as well.)
VoteResponseCountsLate(n, resp) == state_[n] = "CANDIDATE" /\ resp.granted

\* (Changed: a denied vote counts as well.)
VoteResponseCountsDenied(n, resp) ==
    state_[n] = "CANDIDATE" /\ resp.term >= cur_term_[n]

VoteResponseCounts(n, resp) ==
    state_[n] = "CANDIDATE" /\ resp.granted /\ resp.term >= cur_term_[n]

VoteResponseIgnored(n, src) ==
    /\ Msg(src, n, "REQUEST_VOTE_RESPONSE")
    /\ ~VoteResponseCounts(n, Head(net[<<src, n>>]))
    /\ Reply(src, n, <<>>)
    /\ UNCHANGED <<electionVars, cur_leader_, indexVars, logVars, boundVars,
                   historyVars>>

\* The response names no voter: votes_collected_ is a bare counter.
VoteCounted(n, src) ==
    LET resp == Head(net[<<src, n>>]) IN
    /\ Msg(src, n, "REQUEST_VOTE_RESPONSE")
    /\ VoteResponseCounts(n, resp)
    /\ votes_collected_' = [votes_collected_ EXCEPT ![n] = @ + 1]
    /\ counted' = [counted EXCEPT ![n] = @ \cup
         {[voter |-> src, term |-> resp.term, candidate |-> n]}]
    /\ IF HasQuorum(votes_collected_[n] + 1)
       THEN /\ state_' = [state_ EXCEPT ![n] = "LEADER"]
            /\ cur_term_' = [cur_term_ EXCEPT ![n] = resp.term]
            /\ elected' = elected \cup {[node |-> n, term |-> resp.term]}
       ELSE UNCHANGED <<state_, cur_term_, elected>>
    /\ Reply(src, n, <<>>)
    /\ UNCHANGED <<voted_for_, vote_delay, cur_leader_, indexVars, logVars,
                   boundVars, votes>>
-----------------------------------------------------------------------------
(* Client requests, and the network.                                       *)

\* add_log_entry: append, then trigger_entry_update for every peer.
add_log_entry(n, op, id) ==
    LET log == Append(log_entries_[n],
                      [index |-> Len(log_entries_[n]) + 1,
                       term |-> cur_term_[n], operation |-> op,
                       message_id |-> id])
        out == [m \in Node |->
                  trigger_entry_update(cur_term_[n], log, commit_index_[n],
                    next_index_[n][m], pending_append_reqs_[n][m])]
    IN /\ log_entries_' = [log_entries_ EXCEPT ![n] = log]
       /\ SendEach(n, out)
       /\ pending_append_reqs_' = [pending_append_reqs_ EXCEPT ![n] =
            [m \in Node |-> IF m = n THEN @[m] ELSE @[m] + Len(out[m])]]

\* CLIENT_PUT_MESSAGE draws a random 64-bit id, taken to be fresh, and
\* CLIENT_COMMIT_MESSAGE names an id a client was given earlier.  A node that
\* is not leader drops both.
ClientRequest(n, op) ==
    /\ state_[n] = "LEADER"
    /\ requests < MaxRequests
    /\ requests' = requests + 1
    /\ \/ op = "ADD" /\ add_log_entry(n, op, requests + 1)
       \/ op = "COMMIT" /\ \E id \in 1..requests : add_log_entry(n, op, id)
    /\ UNCHANGED <<electionVars, cur_leader_, next_index_, matched_index_,
                   commit_index_, message_queue_, stored, losses, historyVars>>

\* A broken session loses the last message written to it.
Lose(c) ==
    /\ losses < MaxLoss /\ net[c] # <<>>
    /\ losses' = losses + 1
    /\ net' = [net EXCEPT ![c] = SubSeq(@, 1, Len(@) - 1)]
    /\ UNCHANGED <<electionVars, cur_leader_, indexVars, logVars, requests,
                   historyVars>>
-----------------------------------------------------------------------------
Timer(n) ==
    \/ VoteTimer(n) \/ DelayedVoteSkipped(n) \/ DelayedVoteRequest(n)
    \/ Heartbeat(n) \/ StatisticsTimer(n)

local_message_handler(n, src) ==
    \/ AppendExpired(n, src) \/ AppendOutOfSync(n, src)
    \/ AppendAccepted(n, src)
    \/ AppendFailedTerm(n, src) \/ AppendFailedSync(n, src)
    \/ AppendSynced(n, src) \/ AppendCommitted(n, src)
    \/ AppendCommittedDies(n, src)
    \/ VoteDenied(n, src) \/ VoteGranted(n, src)
    \/ VoteIgnoredByLeader(n, src)
    \/ VoteResponseIgnored(n, src) \/ VoteCounted(n, src)

Next ==
    \/ \E n \in Node : Timer(n)
    \/ \E n \in Node : \E src \in Peers(n) : local_message_handler(n, src)
    \/ \E n \in Node, op \in Operation : ClientRequest(n, op)
    \/ \E c \in Channel : Lose(c)

Spec == Init /\ [][Next]_vars
-----------------------------------------------------------------------------
(* Properties.                                                             *)

\* The positions whose entries n has applied to its queue.
Committed(n) == 1..commit_index_[n]

\* The variables have their types: in particular next_index_ stays at 1 or
\* above, whatever the responses say (the sync failure of AppendEntries).
TypeOK ==
    /\ state_ \in [Node -> State]
    /\ cur_term_ \in [Node -> Nat]
    /\ cur_leader_ \in [Node -> Node \cup {None}]
    /\ votes_collected_ \in [Node -> Int]
    /\ voted_for_ \in [Node -> Node \cup {None}]
    /\ vote_delay \in [Node -> BOOLEAN]
    /\ log_entries_ \in [Node -> Seq(Entry)]
    /\ commit_index_ \in [Node -> Nat]
    /\ next_index_ \in [Node -> [Node -> Nat \ {0}]]
    /\ matched_index_ \in [Node -> [Node -> Nat]]
    /\ pending_append_reqs_ \in [Node -> [Node -> Nat]]
    /\ message_queue_ \in [Node -> Queue]
    /\ stored \in [Node -> Seq(Entry)]
    /\ net \in [Channel -> Seq(Message)]
    /\ requests \in Nat /\ losses \in Nat
    /\ votes \subseteq Vote /\ counted \in [Node -> SUBSET Vote]
    /\ elected \subseteq [node : Node, term : Nat]

\* No term is won by two nodes (the handler of REQUEST_VOTE_RESPONSE).
ElectedOnce == \A x, y \in elected : x.term = y.term => x = y

\* A node votes for at most one candidate in a term, whether it votes for itself
\* after the random delay or answers a request (voted_for_).
VotesOnce == \A x, y \in votes :
    x.voter = y.voter /\ x.term = y.term => x = y

\* Who wins a term has the votes of a majority of different nodes, although
\* votes_collected_ only counts responses and never looks who sent them.
ElectedByMajority == \A x \in elected :
    2 * Cardinality({q \in Node :
          [voter |-> q, term |-> x.term, candidate |-> x.node] \in votes})
      > Cardinality(Node)

\* The node a follower takes for the leader, and names to clients, has won an
\* election (cur_leader_, set by every AppendEntries request in time).
LeaderWasElected == \A n \in Node :
    cur_leader_[n] # None => \E x \in elected : x.node = cur_leader_[n]

\* The entry at position i of a log carries the index i, and terms do not
\* decrease along a log (append_log_entries, clean_log_entries_out_of_sync).
LogWellFormed == \A n \in Node : \A i \in DOMAIN log_entries_[n] :
    /\ log_entries_[n][i].index = i
    /\ \A j \in i..Len(log_entries_[n]) :
         log_entries_[n][i].term <= log_entries_[n][j].term

\* What a node has committed is, position by position, in the logs of a majority
\* (the comment "is synced among majority nodes" where the leader commits).
CommittedOnMajority == \A n \in Node : \A i \in Committed(n) :
    /\ i <= Len(log_entries_[n])
    /\ 2 * Cardinality({m \in Node : i <= Len(log_entries_[m])
                          /\ log_entries_[m][i] = log_entries_[n][i]})
         > Cardinality(Node)

\* Nodes that have committed equally far have the same queue (commit_log_entries;
\* "The persisted state is also replicated across all nodes").
QueuesAgree == \A m, n \in Node :
    commit_index_[m] = commit_index_[n] =>
      message_queue_[m] = message_queue_[n]

\* No step takes a committed entry out of a log or replaces it, not even an entry
\* that is sent again after a sync failure, and not even in the step that commits
\* it before it appends (append_log_entries).
CommittedStays == [][\A n \in Node : \A i \in 1..commit_index_'[n] :
    i <= Len(log_entries_[n]) =>
      i <= Len(log_entries_'[n]) /\ log_entries_'[n][i] = log_entries_[n][i]
    ]_vars

\* The storage is handed committed entries only, in the order of the log and each
\* of them once, the last one included: what is appended to a file cannot be taken
\* back (store_log_entries_and_metadata).
StoredInOrder == \A n \in Node :
    /\ \A i, j \in DOMAIN stored[n] :
         i < j => stored[n][i].index < stored[n][j].index
    /\ commit_index_[n] > 0 =>
         /\ stored[n] # <<>>
         /\ stored[n][Len(stored[n])] = log_entries_[n][commit_index_[n]]

\* The agreed history: the committed part of the log that has committed most.
History ==
    LET n == CHOOSE m \in Node :
               \A k \in Node : commit_index_[k] <= commit_index_[m]
    IN SubSeq(log_entries_[n], 1, commit_index_[n])

\* The abstract queue, seen through the committed logs.
Abstract == INSTANCE ReplicatedQueue
              WITH history <- History, applied <- commit_index_,
                   queue <- message_queue_

\* Under one leader the cluster is one replicated queue: every node applies the
\* same history in the same order, and history only grows at its end.
ImplementsReplicatedQueue == Abstract!Spec

\* Every timer that is armed expires, and every posted message is handled: the
\* io_context of a partition runs its handlers in turn.
Fairness ==
    \A n \in Node :
      /\ WF_vars(VoteTimer(n)) /\ WF_vars(DelayedVoteRequest(n))
      /\ WF_vars(DelayedVoteSkipped(n)) /\ WF_vars(Heartbeat(n))
      /\ \A src \in Peers(n) : WF_vars(local_message_handler(n, src))

FairSpec == Spec /\ Fairness

\* A request the leader has put into its log is applied by every node in the end
\* (trigger_entry_update, which stops at MAX_PENDING_APPEND requests).
EventuallyApplied == \A n \in Node, i \in 1..MaxRequests :
    requests >= i ~> commit_index_[n] >= i
=============================================================================
