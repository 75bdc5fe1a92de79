---------------------------- MODULE ElectionQuiet ----------------------------
(***************************************************************************)
(* The steps that neither send nor grant nor count a vote: each keeps what *)
(* ElectionInv says of tickets (QuietStep), for any number of nodes.       *)
(***************************************************************************)
EXTENDS ElectionInvariant, ClusterNodeTypes

\* The step of an action that neither sends nor grants a vote: what is left of
\* requests and grants in a channel is in its old order, shifted by at most one.
NetShrinks == \A c \in Channel : \E d \in {0, 1} :
    \A i \in DOMAIN net'[c] :
      IsRequest(net'[c][i]) \/ IsGrant(net'[c][i]) =>
        i + d \in DOMAIN net[c] /\ net'[c][i] = net[c][i + d]

\* Terms only grow, and a vote is only taken back with a new term; the tally is
\* kept or reset.
QuietVotes ==
    /\ votes' = votes /\ elected' = elected
    /\ \A c \in Node :
         /\ cur_term_'[c] >= cur_term_[c]
         /\ cur_term_'[c] = cur_term_[c] => voted_for_'[c] = voted_for_[c]
         /\ \/ /\ counted'[c] = counted[c]
               /\ votes_collected_'[c] = votes_collected_[c]
               /\ vote_delay'[c] => vote_delay[c]
               /\ voted_for_'[c] = None => voted_for_[c] = None
            \/ counted'[c] = {} /\ votes_collected_'[c] = 0

\* What such a step keeps of the mail.
LEMMA MailKept ==
  ASSUME TypeOK', NetShrinks, OneMail, RequestOrGrant
  PROVE  OneMail' /\ RequestOrGrant'
  <1>1. OneMail'
    <2> SUFFICES ASSUME NEW c \in Channel, NEW i \in DOMAIN net'[c],
                        NEW j \in DOMAIN net'[c], i # j,
                        net'[c][i].term = net'[c][j].term
                 PROVE  /\ ~(IsRequest(net'[c][i]) /\ IsRequest(net'[c][j]))
                        /\ ~(IsGrant(net'[c][i]) /\ IsGrant(net'[c][j]))
      BY ZenonT(30) DEF OneMail, IsRequest, IsGrant
    <2>1. PICK d \in {0, 1} : \A k \in DOMAIN net'[c] :
            IsRequest(net'[c][k]) \/ IsGrant(net'[c][k]) =>
              k + d \in DOMAIN net[c] /\ net'[c][k] = net[c][k + d]
      BY Zenon DEF NetShrinks
    <2>2. i \in Nat /\ j \in Nat
      <3>1. net'[c] \in Seq(Message)
        BY Zenon DEF TypeOK
      <3>2. DOMAIN net'[c] = 1..Len(net'[c]) /\ Len(net'[c]) \in Nat
        BY <3>1, LenProperties, Zenon
      <3> QED BY <3>2
    <2>3. i + d # j + d
      BY <2>2
    <2> QED BY <2>1, <2>3, Zenon DEF OneMail
  <1>2. RequestOrGrant'
    <2> SUFFICES ASSUME NEW a \in Node, NEW b \in Peers(a),
                        NEW i \in DOMAIN net'[<<a, b>>],
                        NEW j \in DOMAIN net'[<<b, a>>],
                        IsRequest(net'[<<a, b>>][i]), IsGrant(net'[<<b, a>>][j])
                 PROVE  net'[<<a, b>>][i].term # net'[<<b, a>>][j].term
      BY ZenonT(30) DEF RequestOrGrant, IsRequest, IsGrant
    <2>1. <<a, b>> \in Channel /\ <<b, a>> \in Channel
      BY Zenon DEF Channel, Peers
    <2>2. \E k \in DOMAIN net[<<a, b>>] :
            net'[<<a, b>>][i] = net[<<a, b>>][k]
      BY <2>1, Zenon DEF NetShrinks
    <2>3. \E k \in DOMAIN net[<<b, a>>] :
            net'[<<b, a>>][j] = net[<<b, a>>][k]
      BY <2>1, Zenon DEF NetShrinks
    <2> QED BY <2>2, <2>3 DEF RequestOrGrant
  <1> QED BY <1>1, <1>2, Zenon

\* Requests and grants still match votes when mail only goes and votes only come.
LEMMA MailStaysVoted ==
  ASSUME NetShrinks, MailIsVoted, votes \subseteq votes'
  PROVE  MailIsVoted'
  <1> SUFFICES ASSUME NEW a \in Node, NEW b \in Peers(a),
                      NEW i \in DOMAIN net'[<<a, b>>]
               PROVE  /\ IsRequest(net'[<<a, b>>][i]) =>
                           Ticket(a, net'[<<a, b>>][i].term, a) \in votes'
                      /\ IsGrant(net'[<<a, b>>][i]) =>
                           Ticket(a, net'[<<a, b>>][i].term, b) \in votes'
    BY Zenon DEF MailIsVoted, IsRequest, IsGrant, Ticket
  <1>1. <<a, b>> \in Channel
    BY Zenon DEF Channel, Peers
  <1>2. IsRequest(net'[<<a, b>>][i]) \/ IsGrant(net'[<<a, b>>][i]) =>
          \E k \in DOMAIN net[<<a, b>>] :
            net'[<<a, b>>][i] = net[<<a, b>>][k]
    BY <1>1, Zenon DEF NetShrinks
  <1> QED BY <1>2, Zenon DEF MailIsVoted

\* Requests and grants are still uncounted when mail and tallies only shrink.
LEMMA MailStaysUncounted ==
  ASSUME NetShrinks, NotYetCounted,
         \A c \in Node : counted'[c] \subseteq counted[c]
  PROVE  NotYetCounted'
  <1> SUFFICES ASSUME NEW a \in Node, NEW b \in Peers(a),
                      NEW i \in DOMAIN net'[<<a, b>>]
               PROVE  /\ IsRequest(net'[<<a, b>>][i]) =>
                           Ticket(b, net'[<<a, b>>][i].term, a) \notin counted'[a]
                      /\ IsGrant(net'[<<a, b>>][i]) =>
                           Ticket(a, net'[<<a, b>>][i].term, b) \notin counted'[b]
    BY Zenon DEF NotYetCounted, IsRequest, IsGrant, Ticket
  <1>1. <<a, b>> \in Channel /\ b \in Node
    BY Zenon DEF Channel, Peers
  <1>2. IsRequest(net'[<<a, b>>][i]) \/ IsGrant(net'[<<a, b>>][i]) =>
          \E k \in DOMAIN net[<<a, b>>] :
            net'[<<a, b>>][i] = net[<<a, b>>][k]
    BY <1>1, Zenon DEF NetShrinks
  <1> QED BY <1>1, <1>2 DEF NotYetCounted

\* A step that is quiet in both respects keeps the invariant.
LEMMA QuietStep ==
  ASSUME TypeOK, TypeOK', ElectionInv, NetShrinks, QuietVotes
  PROVE  ElectionInv'
  <1>1. \A c \in Node : counted'[c] \subseteq counted[c]
    BY Zenon DEF QuietVotes
  <1>2. VotesCurrent'
    <2> SUFFICES ASSUME NEW v \in votes
                 PROVE  /\ v.term <= cur_term_'[v.voter]
                        /\ v.term = cur_term_'[v.voter] =>
                             voted_for_'[v.voter] = v.candidate
      BY Zenon DEF VotesCurrent, QuietVotes
    <2>1. /\ v.voter \in Node /\ v.term \in Nat
          /\ cur_term_[v.voter] \in Nat /\ cur_term_'[v.voter] \in Nat
      BY Zenon DEF TypeOK, Vote
    <2>2. /\ v.term <= cur_term_[v.voter]
          /\ v.term = cur_term_[v.voter] => voted_for_[v.voter] = v.candidate
      BY Zenon DEF ElectionInv, VotesCurrent
    <2> QED BY <2>1, <2>2 DEF QuietVotes
  <1>3. AskedFirst'
    BY Zenon DEF ElectionInv, AskedFirst, QuietVotes
  <1>4. MailIsVoted' /\ OneMail' /\ RequestOrGrant'
    BY MailKept, MailStaysVoted, Zenon DEF ElectionInv, QuietVotes
  <1>5. NotYetCounted'
    BY <1>1, MailStaysUncounted, Zenon DEF ElectionInv
  <1>6. Tally'
    <2> SUFFICES ASSUME NEW c \in Node
                 PROVE  (/\ counted[c] \subseteq votes
                         /\ \A v \in counted[c] : v.candidate = c
                         /\ \A v \in counted[c], w \in votes :
                              w.voter = c /\ w.candidate = c => w.term <= v.term
                         /\ vote_delay[c] /\ voted_for_[c] = None =>
                              counted[c] = {}
                         /\ vote_delay[c] \/ (\E w \in votes :
                                                w.voter = c /\ w.candidate = c)
                              => votes_collected_[c] = Cardinality(counted[c]))'
      BY Zenon DEF Tally
    <2>1. /\ counted[c] \subseteq votes
          /\ \A v \in counted[c] : v.candidate = c
          /\ \A v \in counted[c], w \in votes :
               w.voter = c /\ w.candidate = c => w.term <= v.term
          /\ vote_delay[c] /\ voted_for_[c] = None => counted[c] = {}
          /\ vote_delay[c] \/ (\E w \in votes :
                                 w.voter = c /\ w.candidate = c)
               => votes_collected_[c] = Cardinality(counted[c])
      BY Zenon DEF ElectionInv, Tally
    <2>2. Cardinality({}) = 0
      BY FS_EmptySet, Zenon
    <2>3. votes' = votes
      BY Zenon DEF QuietVotes
    <2>4. CASE counted'[c] = {} /\ votes_collected_'[c] = 0
      BY <2>2, <2>4, Zenon
    <2>5. CASE /\ counted'[c] = counted[c]
               /\ votes_collected_'[c] = votes_collected_[c]
               /\ vote_delay'[c] => vote_delay[c]
               /\ voted_for_'[c] = None => voted_for_[c] = None
      BY <2>1, <2>3, <2>5, Zenon
    <2> QED BY <2>4, <2>5, Zenon DEF QuietVotes
  <1>7. (IsFiniteSet(votes) /\ VotesOnce /\ ElectedByMajority)'
    BY Zenon DEF ElectionInv, VotesOnce, ElectedByMajority, QuietVotes
  <1> QED BY <1>2, <1>3, <1>4, <1>5, <1>6, <1>7, Zenon DEF ElectionInv
-----------------------------------------------------------------------------
(* Which network steps are quiet.                                          *)

\* A position in a channel is a number.
LEMMA IndexFacts ==
  ASSUME TypeOK, NEW c \in Channel, NEW i \in DOMAIN net[c]
  PROVE  i \in Nat /\ i + 0 = i
  <1>1. net[c] \in Seq(Message)
    BY Zenon DEF TypeOK
  <1>2. DOMAIN net[c] = 1..Len(net[c]) /\ Len(net[c]) \in Nat
    BY <1>1, LenProperties, Zenon
  <1> QED BY <1>2

\* Every message of a channel was there before or has just been written.
LEMMA WrittenOrThere ==
  ASSUME NEW s \in Seq(Message), NEW t \in Seq(Message)
  PROVE  \A i \in DOMAIN (s \o t) :
           \/ i \in DOMAIN s /\ (s \o t)[i] = s[i]
           \/ \E j \in DOMAIN t : (s \o t)[i] = t[j]
  BY WriteFacts

\* Reading a message and writing back none about votes.
LEMMA ReplyShrinks ==
  ASSUME TypeOK, NEW n \in Node, NEW src \in Peers(n),
         NEW type, Msg(src, n, type),
         NEW msgs \in Seq(Message), Reply(src, n, msgs),
         \A i \in DOMAIN msgs : ~IsRequest(msgs[i]) /\ ~IsGrant(msgs[i])
  PROVE  NetShrinks
  <1> DEFINE rd == <<src, n>>
             wr == <<n, src>>
  <1>1. /\ rd \in Channel /\ wr \in Channel /\ rd # wr /\ src \in Node
        /\ net \in [Channel -> Seq(Message)]
    BY Zenon DEF Peers, Channel, TypeOK
  <1>2. /\ net'[rd] = Tail(net[rd])
        /\ net'[wr] = net[wr] \o msgs \/ net'[wr] = net[wr]
        /\ \A c \in Channel \ {rd, wr} : net'[c] = net[c]
    BY <1>1, Zenon DEF Reply
  <1>3. net[rd] # <<>> /\ net[rd] \in Seq(Message) /\ net[wr] \in Seq(Message)
    BY <1>1, MsgFacts, Zenon
  <1> HIDE DEF rd, wr
  <1>4. \A i \in DOMAIN net'[rd] : i + 1 \in DOMAIN net[rd]
                                     /\ net'[rd][i] = net[rd][i + 1]
    BY <1>2, <1>3, TailFacts
  <1>5. \A c \in Channel : \A i \in DOMAIN net[c] : i + 0 = i
    BY IndexFacts, Zenon
  <1>6. \A i \in DOMAIN net'[wr] :
          IsRequest(net'[wr][i]) \/ IsGrant(net'[wr][i]) =>
            i \in DOMAIN net[wr] /\ net'[wr][i] = net[wr][i]
    <2> SUFFICES ASSUME NEW i \in DOMAIN net'[wr],
                        IsRequest(net'[wr][i]) \/ IsGrant(net'[wr][i])
                 PROVE  i \in DOMAIN net[wr] /\ net'[wr][i] = net[wr][i]
      BY Zenon
    <2>1. \/ i \in DOMAIN net[wr] /\ net'[wr][i] = net[wr][i]
          \/ \E j \in DOMAIN msgs : net'[wr][i] = msgs[j]
      <3>1. \A k \in DOMAIN (net[wr] \o msgs) :
              \/ k \in DOMAIN net[wr] /\ (net[wr] \o msgs)[k] = net[wr][k]
              \/ \E j \in DOMAIN msgs : (net[wr] \o msgs)[k] = msgs[j]
        BY <1>3, WrittenOrThere, Zenon
      <3> DEFINE u == net[wr] \o msgs
      <3>2. net'[wr] = u \/ net'[wr] = net[wr]
        BY <1>2, Zenon
      <3>3. \A k \in DOMAIN u :
              \/ k \in DOMAIN net[wr] /\ u[k] = net[wr][k]
              \/ \E j \in DOMAIN msgs : u[k] = msgs[j]
        BY <3>1, Zenon
      <3> HIDE DEF u
      <3> QED BY <3>2, <3>3, Zenon
    <2> QED BY <2>1, Zenon
  <1> SUFFICES ASSUME NEW c \in Channel
               PROVE  \E d \in {0, 1} : \A i \in DOMAIN net'[c] :
                        IsRequest(net'[c][i]) \/ IsGrant(net'[c][i]) =>
                          /\ i + d \in DOMAIN net[c]
                          /\ net'[c][i] = net[c][i + d]
    BY Zenon DEF NetShrinks
  <1>7. CASE c = rd
    BY <1>4, <1>7, Zenon
  <1>8. CASE c = wr
    BY <1>5, <1>6, <1>8
  <1>9. CASE c \notin {rd, wr}
    BY <1>2, <1>5, <1>9, Zenon
  <1> QED BY <1>7, <1>8, <1>9, Zenon

\* Writing to every other node a message that is not about votes.
LEMMA SendShrinks ==
  ASSUME TypeOK, NEW n \in Node, NEW out \in [Node -> Seq(Message)],
         SendEach(n, out),
         \A m \in Node : \A i \in DOMAIN out[m] :
           ~IsRequest(out[m][i]) /\ ~IsGrant(out[m][i])
  PROVE  NetShrinks
  <1> SUFFICES ASSUME NEW c \in Channel, NEW i \in DOMAIN net'[c],
                      IsRequest(net'[c][i]) \/ IsGrant(net'[c][i])
               PROVE  i + 0 \in DOMAIN net[c] /\ net'[c][i] = net[c][i + 0]
    BY Zenon DEF NetShrinks
  <1>1. net[c] \in Seq(Message) /\ c[2] \in Node /\ out[c[2]] \in Seq(Message)
    BY Zenon DEF TypeOK, Channel
  <1>2. net'[c] = net[c] \/ net'[c] = net[c] \o out[c[2]]
    BY Zenon DEF SendEach
  <1>3. i \in DOMAIN net[c] /\ net'[c][i] = net[c][i]
    <2>1. \/ i \in DOMAIN net[c] /\ net'[c][i] = net[c][i]
          \/ \E j \in DOMAIN out[c[2]] : net'[c][i] = out[c[2]][j]
      <3>1. \A k \in DOMAIN (net[c] \o out[c[2]]) :
              \/ k \in DOMAIN net[c] /\ (net[c] \o out[c[2]])[k] = net[c][k]
              \/ \E j \in DOMAIN out[c[2]] : (net[c] \o out[c[2]])[k] = out[c[2]][j]
        BY <1>1, WrittenOrThere, Zenon
      <3> DEFINE u == net[c] \o out[c[2]]
      <3>2. net'[c] = u \/ net'[c] = net[c]
        BY <1>2, Zenon
      <3>3. \A k \in DOMAIN u :
              \/ k \in DOMAIN net[c] /\ u[k] = net[c][k]
              \/ \E j \in DOMAIN out[c[2]] : u[k] = out[c[2]][j]
        BY <3>1, Zenon
      <3> HIDE DEF u
      <3> QED BY <3>2, <3>3, Zenon
    <2> QED BY <1>1, <2>1, Zenon
  <1>4. i + 0 = i
    BY <1>3, IndexFacts, Zenon
  <1> QED BY <1>3, <1>4, Zenon

\* Losing messages, or sending none.
LEMMA LossShrinks ==
  ASSUME TypeOK,
         \A c \in Channel : \A i \in DOMAIN net'[c] :
           i \in DOMAIN net[c] /\ net'[c][i] = net[c][i]
  PROVE  NetShrinks
  <1>1. \A c \in Channel : \A i \in DOMAIN net[c] : i + 0 = i
    BY IndexFacts, Zenon
  <1> QED BY <1>1 DEF NetShrinks

\* A channel that is left alone.
LEMMA SameShrinks ==
  ASSUME TypeOK, net' = net
  PROVE  NetShrinks
  BY LossShrinks, Zenon

\* One message of another kind.
LEMMA OtherMessage ==
  ASSUME NEW m \in Message, ~IsRequest(m), ~IsGrant(m)
  PROVE  \A i \in DOMAIN <<m>> : ~IsRequest(<<m>>[i]) /\ ~IsGrant(<<m>>[i])
  <1>1. DOMAIN <<m>> = {1} /\ <<m>>[1] = m
    OBVIOUS
  <1> QED BY <1>1, Zenon

\* trigger_entry_update writes nothing about votes.
LEMMA UpdateIsQuiet ==
  ASSUME NEW term \in Nat, NEW log \in Seq(Entry), NEW commit \in Nat,
         NEW next \in Nat, NEW pending \in Nat
  PROVE  LET out == trigger_entry_update(term, log, commit, next, pending)
         IN  \A i \in DOMAIN out : ~IsRequest(out[i]) /\ ~IsGrant(out[i])
  <1> DEFINE out == trigger_entry_update(term, log, commit, next, pending)
  <1>1. out \in Seq(AppendEntriesRequest)
    BY UpdateFacts, Zenon
  <1>2. \A i \in DOMAIN out : out[i] \in AppendEntriesRequest
    BY <1>1, ElementOfSeq, LenProperties, Zenon
  <1> HIDE DEF out
  <1>3. \A i \in DOMAIN out : ~IsRequest(out[i]) /\ ~IsGrant(out[i])
    BY <1>2, Zenon DEF AppendEntriesRequest, IsRequest, IsGrant
  <1> QED BY <1>3, Zenon DEF out
-----------------------------------------------------------------------------
(* Which actions are quiet: all but DelayedVoteRequest, VoteGranted and    *)
(* VoteCounted.                                                            *)

\* All timers but the one that sends the vote requests are quiet.
LEMMA TimerQuiet ==
  ASSUME TypeOK, NEW n \in Node,
         \/ VoteTimer(n) \/ DelayedVoteSkipped(n) \/ Heartbeat(n)
         \/ StatisticsTimer(n)
  PROVE  NetShrinks /\ QuietVotes
  <1> USE DEF electionVars, indexVars, logVars, boundVars, historyVars
  <1>1. /\ cur_term_ \in [Node -> Nat] /\ counted \in [Node -> SUBSET Vote]
        /\ votes_collected_ \in [Node -> Int]
        /\ voted_for_ \in [Node -> Node \cup {None}]
        /\ vote_delay \in [Node -> BOOLEAN]
    BY Zenon DEF TypeOK
  <1>2. CASE VoteTimer(n)
    <2>1. net' = net
      BY <1>2, Zenon DEF VoteTimer
    <2> QED BY <1>1, <1>2, <2>1, SameShrinks DEF VoteTimer, QuietVotes
  <1>3. CASE DelayedVoteSkipped(n)
    <2>1. net' = net
      BY <1>3, Zenon DEF DelayedVoteSkipped
    <2> QED BY <1>1, <1>3, <2>1, SameShrinks DEF DelayedVoteSkipped, QuietVotes
  <1>4. CASE Heartbeat(n)
    <2> DEFINE m == [type |-> "APPEND_ENTRIES_REQUEST", term |-> cur_term_[n],
                     prev_log_index |-> LastIndex(log_entries_[n]),
                     prev_log_term |-> LastTerm(log_entries_[n]),
                     entries |-> <<>>, leader_commit |-> commit_index_[n]]
    <2>1. /\ cur_term_[n] \in Nat /\ log_entries_[n] \in Seq(Entry)
          /\ commit_index_[n] \in Nat
      BY Zenon DEF TypeOK
    <2>2. m \in Message /\ ~IsRequest(m) /\ ~IsGrant(m)
      BY <2>1, LogFacts, EmptySeq, Zenon
      DEF AppendEntriesRequest, Message, IsRequest, IsGrant
    <2>3. SendEach(n, [k \in Node |-> <<m>>])
      BY <1>4, Zenon DEF Heartbeat
    <2> HIDE DEF m
    <2>4. /\ [k \in Node |-> <<m>>] \in [Node -> Seq(Message)]
          /\ \A k \in Node : \A i \in DOMAIN [j \in Node |-> <<m>>][k] :
               /\ ~IsRequest([j \in Node |-> <<m>>][k][i])
               /\ ~IsGrant([j \in Node |-> <<m>>][k][i])
      BY <2>2, SingleFacts, OtherMessage, Zenon
    <2>5. NetShrinks
      BY <2>3, <2>4, SendShrinks, Zenon
    <2>6. UNCHANGED <<electionVars, historyVars>>
      BY <1>4, Zenon DEF Heartbeat
    <2> QED BY <1>1, <2>5, <2>6 DEF QuietVotes
  <1>5. CASE StatisticsTimer(n)
    BY <1>1, <1>5, SameShrinks DEF StatisticsTimer, vars, QuietVotes
  <1> QED BY <1>2, <1>3, <1>4, <1>5, Zenon

\* The AppendEntries request handler is quiet: a vote is forgotten only with a later term.
LEMMA AppendRequestQuiet ==
  ASSUME TypeOK, NEW n \in Node, NEW src \in Peers(n),
         \/ AppendExpired(n, src) \/ AppendOutOfSync(n, src)
         \/ AppendAccepted(n, src)
  PROVE  NetShrinks /\ QuietVotes
  <1> USE DEF electionVars, indexVars, logVars, boundVars, historyVars
  <1> DEFINE req == Head(net[<<src, n>>])
             log == log_entries_[n]
             new == append_log_entries(log, req.prev_log_index, req.entries)
  <1>1. Msg(src, n, "APPEND_ENTRIES_REQUEST")
    BY Zenon DEF AppendExpired, AppendOutOfSync, AppendAccepted
  <1>2. src \in Node /\ cur_term_[n] \in Nat /\ log \in Seq(Entry)
    BY Zenon DEF Peers, TypeOK
  <1>3. req \in AppendEntriesRequest
    BY <1>1, <1>2, MsgFacts, Zenon
  <1>4. /\ req.term \in Nat /\ req.prev_log_index \in Nat
        /\ req.entries \in Seq(Entry)
    BY <1>3, Zenon DEF AppendEntriesRequest
  <1>5. \E m \in Message : /\ Reply(src, n, <<m>>) /\ <<m>> \in Seq(Message)
                           /\ m.type = "APPEND_ENTRIES_RESPONSE"
    <2> DEFINE Response == {AppendResponse(cur_term_[n], FALSE, -1),
                            AppendResponse(req.term, FALSE, -1),
                            AppendResponse(req.term, TRUE, LastIndex(new))}
    <2>1. check_if_previous_log_in_sync(log, req) => LastIndex(new) \in Nat
      <3> SUFFICES ASSUME req.prev_log_index <= Len(log)
                   PROVE  LastIndex(new) \in Nat
        BY Zenon DEF check_if_previous_log_in_sync
      <3>1. new \in Seq(Entry)
        BY <1>2, <1>4, AppendLogFacts, Zenon
      <3> QED BY <3>1, LogFacts, Zenon
    <2> HIDE DEF req, new
    <2>2. \A m \in Response : m.type = "APPEND_ENTRIES_RESPONSE"
      BY DEF AppendResponse
    <2>3. /\ AppendResponse(cur_term_[n], FALSE, -1) \in Message
          /\ AppendResponse(req.term, FALSE, -1) \in Message
          /\ check_if_previous_log_in_sync(log, req) =>
               AppendResponse(req.term, TRUE, LastIndex(new)) \in Message
      BY <1>2, <1>4, <2>1, Zenon DEF AppendResponse, AppendEntriesResponse, Message
    <2>4. \E m \in Response : m \in Message /\ Reply(src, n, <<m>>)
      BY <2>3, Zenon DEF AppendExpired, AppendOutOfSync, AppendAccepted, req, new
    <2> HIDE DEF Response
    <2> QED BY <2>2, <2>4, SingleFacts, Zenon
  <1>6. NetShrinks
    BY <1>1, <1>5, OtherMessage, ReplyShrinks, Zenon DEF IsRequest, IsGrant
  <1>7. \/ UNCHANGED <<electionVars, historyVars>>
        \/ ConvertToFollower(n, src, req)
    BY Zenon DEF AppendExpired, AppendOutOfSync, AppendAccepted
  <1> HIDE DEF req
  <1>8. cur_term_ \in [Node -> Nat]
    BY Zenon DEF TypeOK
  <1>9. QuietVotes
    BY <1>4, <1>7, <1>8 DEF ConvertToFollower, QuietVotes
  <1> QED BY <1>6, <1>9, Zenon

\* The AppendEntries response handler is quiet, also where it moves the term.
LEMMA AppendResponseQuiet ==
  ASSUME TypeOK, NEW n \in Node, NEW src \in Peers(n),
         \/ AppendFailedTerm(n, src) \/ AppendFailedSync(n, src)
         \/ AppendSynced(n, src) \/ AppendCommitted(n, src)
         \/ AppendCommittedDies(n, src)
  PROVE  NetShrinks /\ QuietVotes
  <1> USE DEF electionVars, indexVars, logVars, boundVars, historyVars
  <1> DEFINE resp == Head(net[<<src, n>>])
             log == log_entries_[n]
             last == resp.last_index_synced
  <1>1. Msg(src, n, "APPEND_ENTRIES_RESPONSE")
    BY Zenon DEF AppendFailedTerm, AppendFailedSync, AppendSynced, AppendCommitted,
           AppendCommittedDies
  <1>2. /\ src \in Node /\ cur_term_[n] \in Nat /\ log \in Seq(Entry)
        /\ commit_index_[n] \in Nat /\ next_index_[n][src] \in Nat \ {0}
        /\ pending_append_reqs_[n][src] \in Nat
    BY DEF Peers, TypeOK
  <1>3. resp \in AppendEntriesResponse
    BY <1>1, <1>2, MsgFacts, Zenon
  <1>4. resp.term \in Nat /\ (resp.success => last \in Nat)
    BY <1>3, Zenon DEF AppendEntriesResponse
  <1> HIDE DEF resp
  <1>5. ASSUME ~AppendCommittedDies(n, src) PROVE NetShrinks
    <2>1. PICK term \in Nat, commit \in Nat, next \in Nat :
            ReplyWithUpdate(n, src, term, commit, next)
      <3>1. EarlierIndex(next_index_[n][src]) \in Nat
        BY <1>2 DEF EarlierIndex
      <3>2. CASE AppendFailedTerm(n, src) \/ AppendFailedSync(n, src)
        BY <1>2, <1>4, <3>1, <3>2, Zenon DEF AppendFailedTerm, AppendFailedSync, resp
      <3>3. CASE AppendSynced(n, src) \/ AppendCommitted(n, src)
        <4>1. last \in Nat
          BY <1>4, <3>3, Zenon DEF AppendSynced, AppendCommitted, resp
        <4>2. \/ ReplyWithUpdate(n, src, cur_term_[n], commit_index_[n], last + 1)
              \/ ReplyWithUpdate(n, src, cur_term_[n], last, last + 1)
          BY <3>3, Zenon DEF AppendSynced, AppendCommitted, resp
        <4> HIDE DEF last
        <4>3. last + 1 \in Nat
          BY <4>1
        <4> QED BY <1>2, <4>1, <4>2, <4>3, Zenon
      <3> QED BY <1>5, <3>2, <3>3
    <2> DEFINE p == PendingAfter(n, src)
               out == trigger_entry_update(term, log, commit, next, p)
    <2>2. p \in Nat /\ Reply(src, n, out)
      BY SMTT(30), <1>2, <2>1 DEF PendingAfter, ReplyWithUpdate
    <2>3. out \in Seq(Message)
      BY <1>2, <2>2, UpdateFacts, Zenon
    <2>4. \A i \in DOMAIN out : ~IsRequest(out[i]) /\ ~IsGrant(out[i])
      BY SMTT(30), <1>2, <2>2, UpdateIsQuiet
    <2> HIDE DEF out
    <2> QED BY <1>1, <2>2, <2>3, <2>4, ReplyShrinks, ZenonT(30)
  <1>6. ASSUME AppendCommittedDies(n, src) PROVE NetShrinks
    <2>1. \A c \in Channel : net'[c] = <<>> \/ net'[c] = net[c]
      BY <1>6, Zenon DEF AppendCommittedDies
    <2> QED BY <2>1, LossShrinks
  <1>7. cur_term_ \in [Node -> Nat]
    BY Zenon DEF TypeOK
  <1>8. QuietVotes
    <2>1. CASE AppendFailedTerm(n, src)
      BY <1>4, <1>7, <2>1 DEF AppendFailedTerm, QuietVotes, resp
    <2>2. CASE ~AppendFailedTerm(n, src)
      <3>1. /\ UNCHANGED <<cur_term_, votes_collected_, voted_for_, vote_delay>>
            /\ UNCHANGED historyVars
        BY <2>2, Zenon DEF AppendFailedSync, AppendSynced, AppendCommitted,
                    AppendCommittedDies
      <3> QED BY <1>7, <3>1 DEF QuietVotes
    <2> QED BY <2>1, <2>2, ZenonT(30)
  <1> QED BY <1>5, <1>6, <1>8, Zenon

\* Vote messages that are turned down or ignored are quiet.
LEMMA VoteQuiet ==
  ASSUME TypeOK, NEW n \in Node, NEW src \in Peers(n),
         \/ VoteDenied(n, src) \/ VoteIgnoredByLeader(n, src)
         \/ VoteResponseIgnored(n, src)
  PROVE  NetShrinks /\ QuietVotes
  <1> USE DEF electionVars, indexVars, logVars, boundVars, historyVars
  <1> DEFINE m == Head(net[<<src, n>>])
             no == VoteResponse(m.term, FALSE)
  <1>1. src \in Node
    BY Zenon DEF Peers
  <1>2. PICK type \in {"REQUEST_VOTE_REQUEST", "REQUEST_VOTE_RESPONSE"} :
          Msg(src, n, type)
    BY Zenon DEF VoteDenied, VoteIgnoredByLeader, VoteResponseIgnored
  <1>3. m.term \in Nat
    BY <1>1, <1>2, MsgFacts, Zenon DEF RequestVoteRequest, RequestVoteResponse
  <1>4. Reply(src, n, <<>>) \/ Reply(src, n, <<no>>)
    BY Zenon DEF VoteDenied, VoteIgnoredByLeader, VoteResponseIgnored
  <1>5. /\ <<>> \in Seq(Message) /\ no \in Message /\ <<no>> \in Seq(Message)
        /\ ~IsRequest(no) /\ ~IsGrant(no)
    <2>1. no \in RequestVoteResponse /\ ~IsRequest(no) /\ ~IsGrant(no)
      BY <1>3, Zenon DEF VoteResponse, RequestVoteResponse, IsRequest, IsGrant
    <2>2. no \in Message
      BY <2>1, Zenon DEF Message
    <2> QED BY <2>1, <2>2, SingleFacts, EmptySeq, Zenon
  <1> HIDE DEF no
  <1>6. NetShrinks
    <2>1. CASE Reply(src, n, <<>>)
      <3>1. \A i \in DOMAIN <<>> : ~IsRequest(<<>>[i]) /\ ~IsGrant(<<>>[i])
        OBVIOUS
      <3> QED BY <1>2, <1>5, <2>1, <3>1, ReplyShrinks, Zenon
    <2>2. CASE Reply(src, n, <<no>>)
      BY ZenonT(30), <1>2, <1>5, <2>2, OtherMessage, ReplyShrinks
    <2> QED BY <1>4, <2>1, <2>2, Zenon
  <1>7. /\ cur_term_ \in [Node -> Nat] /\ votes_collected_ \in [Node -> Int]
        /\ counted \in [Node -> SUBSET Vote]
    BY Zenon DEF TypeOK
  <1>8. QuietVotes
    <2>1. CASE VoteIgnoredByLeader(n, src)
      <3>1. AdoptVoteTerm(n, src, m) /\ UNCHANGED <<voted_for_, votes>>
        BY <2>1, Zenon DEF VoteIgnoredByLeader
      <3> HIDE DEF m
      <3> QED BY <1>3, <1>7, <3>1
              DEF AdoptVoteTerm, ValidVoteRequest, QuietVotes
    <2>2. CASE ~VoteIgnoredByLeader(n, src)
      <3>1. UNCHANGED <<electionVars, historyVars>>
        BY <2>2, Zenon DEF VoteDenied, VoteResponseIgnored
      <3> QED BY <1>7, <3>1 DEF QuietVotes
    <2> QED BY <2>1, <2>2, Zenon
  <1> QED BY <1>6, <1>8, Zenon

\* A request of a client is quiet.
LEMMA ClientQuiet ==
  ASSUME TypeOK, NEW n \in Node, NEW op \in Operation, ClientRequest(n, op)
  PROVE  NetShrinks /\ QuietVotes
  <1> USE DEF electionVars, indexVars, logVars, boundVars, historyVars
  <1>1. PICK id \in Nat : add_log_entry(n, op, id)
    BY DEF ClientRequest, TypeOK
  <1> DEFINE e == [index |-> Len(log_entries_[n]) + 1, term |-> cur_term_[n],
                   operation |-> op, message_id |-> id]
             log == Append(log_entries_[n], e)
             out == [m \in Node |->
                       trigger_entry_update(cur_term_[n], log,
                         commit_index_[n], next_index_[n][m],
                         pending_append_reqs_[n][m])]
  <1>2. /\ log_entries_[n] \in Seq(Entry) /\ cur_term_[n] \in Nat
        /\ commit_index_[n] \in Nat
        /\ \A m \in Node : /\ next_index_[n][m] \in Nat
                           /\ pending_append_reqs_[n][m] \in Nat
    BY Zenon DEF TypeOK
  <1>3. Len(log_entries_[n]) + 1 \in Nat /\ op \in {"ADD", "COMMIT"}
    BY <1>2, LenProperties, InputAssumption
  <1>4. e \in Entry
    BY <1>2, <1>3, Zenon DEF Entry
  <1>5. SendEach(n, out)
    BY <1>1, Zenon DEF add_log_entry
  <1> HIDE DEF e
  <1>6. log \in Seq(Entry)
    BY <1>2, <1>4, AppendFacts, ZenonT(30)
  <1> HIDE DEF log
  <1>7. \A m \in Node :
          /\ out[m] \in Seq(Message)
          /\ \A i \in DOMAIN out[m] : ~IsRequest(out[m][i]) /\ ~IsGrant(out[m][i])
    BY ZenonT(30), <1>2, <1>6, UpdateFacts, UpdateIsQuiet
  <1>8. out \in [Node -> Seq(Message)]
    BY <1>7, Zenon
  <1> HIDE DEF out
  <1>9. NetShrinks
    BY <1>5, <1>7, <1>8, SendShrinks, Zenon
  <1>10. UNCHANGED <<electionVars, historyVars>>
    BY Zenon DEF ClientRequest
  <1>11. cur_term_ \in [Node -> Nat]
    BY Zenon DEF TypeOK
  <1> QED BY <1>9, <1>10, <1>11 DEF QuietVotes

\* A broken session is quiet: it only takes mail away.
LEMMA LoseQuiet ==
  ASSUME TypeOK, NEW c \in Channel, Lose(c)
  PROVE  NetShrinks /\ QuietVotes
  <1> USE DEF electionVars, indexVars, logVars, boundVars, historyVars
  <1>1. /\ net \in [Channel -> Seq(Message)] /\ net[c] # <<>>
        /\ net' = [net EXCEPT ![c] = SubSeq(@, 1, Len(@) - 1)]
        /\ cur_term_ \in [Node -> Nat]
    BY Zenon DEF TypeOK, Lose
  <1> DEFINE s == net[c]
             t == SubSeq(s, 1, Len(s) - 1)
  <1>2. Len(s) \in Nat /\ Len(s) > 0
    BY <1>1, TailFacts, Zenon
  <1>3. \A i \in DOMAIN t : i \in DOMAIN s /\ t[i] = s[i]
    BY <1>1, <1>2, PrefixFacts
  <1> HIDE DEF t
  <1>4. net'[c] = t /\ \A k \in Channel : k # c => net'[k] = net[k]
    BY <1>1, Zenon DEF t
  <1>5. NetShrinks
    BY <1>3, <1>4, LossShrinks, Zenon
  <1>6. UNCHANGED <<electionVars, historyVars>>
    BY Zenon DEF Lose
  <1> QED BY <1>1, <1>5, <1>6 DEF QuietVotes
==============================================================================
