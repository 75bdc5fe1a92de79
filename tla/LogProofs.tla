------------------------------- MODULE LogProofs -------------------------------
(***************************************************************************)
(* The logs keep their shape: proofs for any cluster, any number of terms, *)
(* client requests and lost messages.                                      *)
(***************************************************************************)
EXTENDS LogInvariant, ClusterNodeTypes

\* A node that sets its term to a later one, or keeps it, lowers no term.
LEMMA TermsRise ==
  ASSUME cur_term_ \in [Node -> Nat], NEW n \in Node, NEW t \in Nat,
         \/ cur_term_' = cur_term_
         \/ /\ t > cur_term_[n] \/ t = cur_term_[n] \/ t >= cur_term_[n]
            /\ cur_term_' = [cur_term_ EXCEPT ![n] = t]
  PROVE  \A k \in Node : cur_term_'[k] >= cur_term_[k]
  <1>1. \A i, j \in Nat : i >= i /\ (j > i => j >= i)
    OBVIOUS
  <1> QED BY <1>1, Zenon

\* A log with an entry that fits behind a prefix of it.
LEMMA AppendKeepsForm ==
  ASSUME NEW log \in Seq(Entry), WellFormed(log),
         NEW prev \in 0..Len(log), NEW e \in Entry,
         e.index = prev + 1, TermAt(log, prev) <= e.term
  PROVE  WellFormed(Append(SubSeq(log, 1, prev), e))
  <1> DEFINE p == SubSeq(log, 1, prev)
             new == Append(p, e)
  <1>1. Len(log) \in Nat /\ DOMAIN log = 1..Len(log) /\ prev \in Nat
    BY LenProperties
  <1>2. p \in Seq(Entry) /\ Len(p) = prev /\ \A i \in 1..prev : p[i] = log[i]
    <2>1. \A i \in 1..prev : log[i] \in Entry
      BY <1>1, ElementOfSeq
    <2>2. /\ p \in Seq(Entry)
          /\ Len(p) = IF 1 <= prev THEN prev - 1 + 1 ELSE 0
          /\ \A i \in 1 .. prev - 1 + 1 : p[i] = log[1 + i - 1]
      BY <2>1, SubSeqProperties
    <2> QED BY <1>1, <2>2
  <1> HIDE DEF p
  <1>3. /\ Len(new) = prev + 1 /\ DOMAIN new = 1..(prev + 1)
        /\ \A i \in 1..prev : new[i] = log[i]
        /\ new[prev + 1] = e
    BY <1>2, AppendFacts
  <1>4. \A i \in 1..prev : /\ log[i].index = i /\ log[i].term \in Nat
                           /\ \A j \in i..prev : log[i].term <= log[j].term
    <2>1. \A i \in 1..prev : i \in 1..Len(log) /\ i..prev \subseteq i..Len(log)
      BY <1>1
    <2>2. \A i \in 1..Len(log) : log[i].term \in Nat
      BY LogFacts, Zenon DEF Entry
    <2> QED BY <1>1, <2>1, <2>2, Zenon DEF WellFormed
  <1>5. \A i \in 1..prev : log[i].term <= e.term
    <2> SUFFICES ASSUME NEW i \in 1..prev PROVE log[i].term <= e.term
      BY Zenon
    <2>1. log[i].term <= log[prev].term /\ log[prev].term <= e.term
      BY <1>1, <1>4 DEF TermAt
    <2>2. log[i].term \in Nat /\ log[prev].term \in Nat /\ e.term \in Nat
      BY <1>1, <1>4 DEF Entry
    <2> QED BY <2>1, <2>2
  <1> HIDE DEF new
  <1>6. ASSUME NEW i \in 1..(prev + 1)
        PROVE  new[i].index = i /\ \A j \in i..(prev + 1) : new[i].term <= new[j].term
    <2>1. e.term \in Nat
      BY Zenon DEF Entry
    <2>2. CASE i = prev + 1
      BY <1>1, <1>3, <2>1, <2>2
    <2>3. CASE i \in 1..prev
      <3>1. new[i] = log[i] /\ new[i].index = i
        BY <1>3, <1>4, <2>3, Zenon
      <3>2. ASSUME NEW j \in i..(prev + 1) PROVE log[i].term <= new[j].term
        <4>1. j \in i..prev \/ j = prev + 1
          BY <1>1, <2>3
        <4>2. j \in i..prev => j \in 1..prev
          BY <1>1, <2>3
        <4> QED BY <1>3, <1>4, <1>5, <2>3, <4>1, <4>2, Zenon
      <3> QED BY <3>1, <3>2, Zenon
    <2> QED BY <1>1, <2>2, <2>3
  <1>7. WellFormed(new)
    BY <1>3, <1>6, Zenon DEF WellFormed
  <1> QED BY <1>7, Zenon DEF new, p

\* The same about the bound on the terms.
LEMMA AppendKeepsBound ==
  ASSUME NEW log \in Seq(Entry), NEW term \in Nat, Bounded(log, term),
         NEW prev \in 0..Len(log), NEW e \in Entry, e.term <= term
  PROVE  Bounded(Append(SubSeq(log, 1, prev), e), term)
  <1> DEFINE p == SubSeq(log, 1, prev)
  <1>1. prev \in Nat /\ prev <= Len(log)
    BY LenProperties
  <1>2. p \in Seq(Entry) /\ \A i \in DOMAIN p : i \in DOMAIN log /\ p[i] = log[i]
    BY <1>1, PrefixFacts
  <1> HIDE DEF p
  <1>3. /\ Len(p) \in Nat /\ DOMAIN p = 1..Len(p)
        /\ DOMAIN Append(p, e) = 1..(Len(p) + 1)
        /\ \A i \in 1..Len(p) : Append(p, e)[i] = p[i]
        /\ Append(p, e)[Len(p) + 1] = e
    BY <1>2, AppendFacts
  <1>4. ASSUME NEW i \in DOMAIN Append(p, e)
        PROVE  Append(p, e)[i].term <= term
    BY <1>2, <1>3 DEF Bounded
  <1> QED BY <1>4, Zenon DEF Bounded, p

\* What trigger_entry_update writes fits.
LEMMA UpdateFits ==
  ASSUME NEW term \in Nat, NEW log \in Seq(Entry), WellFormed(log),
         Bounded(log, term), NEW commit \in Nat, NEW next \in Nat,
         NEW pending \in Nat
  PROVE  LET out == trigger_entry_update(term, log, commit, next, pending)
         IN  \A i \in DOMAIN out : Fits(out[i])
  <1> DEFINE out == trigger_entry_update(term, log, commit, next, pending)
             m == AppendRequest(term, log, next - 1, <<log[next]>>, commit)
  <1>1. out = <<>> \/ (next \in 1..Len(log) /\ out = <<m>>)
    BY UpdateFacts
  <1>2. ASSUME next \in 1..Len(log) PROVE Fits(m)
    <2>1. Len(log) \in Nat /\ DOMAIN log = 1..Len(log)
      BY LenProperties, Zenon
    <2>2. log[next] \in Entry /\ log[next].index = next /\ log[next].term <= term
      BY <1>2, <2>1, LogFacts, Zenon DEF WellFormed, Bounded
    <2>3. TermAt(log, next - 1) <= log[next].term
      <3>1. CASE next = 1
        BY <2>2, <3>1 DEF TermAt, Entry
      <3>2. CASE next # 1
        <4>1. next - 1 \in DOMAIN log /\ next \in next - 1..Len(log)
          BY <1>2, <2>1, <3>2
        <4>2. log[next - 1].term <= log[next].term
          BY <4>1, Zenon DEF WellFormed
        <4>3. next - 1 # 0
          BY <1>2, <2>1, <3>2
        <4> QED BY <4>2, <4>3, Zenon DEF TermAt
      <3> QED BY <3>1, <3>2, Zenon
    <2>4. /\ m.entries = <<log[next]>> /\ m.prev_log_index = next - 1
          /\ m.prev_log_term = TermAt(log, next - 1) /\ m.term = term
      BY Zenon DEF AppendRequest
    <2>5. <<log[next]>>[1] = log[next] /\ next - 1 + 1 = next
      BY <1>2, <2>1
    <2> HIDE DEF m
    <2> QED BY <2>2, <2>3, <2>4, <2>5, Zenon DEF Fits
  <1> HIDE DEF out, m
  <1>3. \A i \in DOMAIN out : Fits(out[i])
    <2>1. CASE out = <<>>
      BY <2>1
    <2>2. CASE next \in 1..Len(log) /\ out = <<m>>
      <3>1. DOMAIN <<m>> = {1} /\ <<m>>[1] = m
        OBVIOUS
      <3> QED BY <1>2, <2>2, <3>1, Zenon
    <2> QED BY <1>1, <2>1, <2>2, Zenon
  <1> QED BY <1>3, Zenon DEF out
-----------------------------------------------------------------------------
(* The network.                                                            *)

\* Mail that was there before still fits.
LEMMA OldMailFits ==
  ASSUME AppendsFit,
         \A c \in Channel : \A k \in DOMAIN net'[c] :
           \E j \in DOMAIN net[c] : net'[c][k] = net[c][j]
  PROVE  AppendsFit'
  <1> SUFFICES ASSUME NEW c \in Channel, NEW k \in DOMAIN net'[c]
               PROVE  Fits(net'[c][k])
    BY Zenon DEF AppendsFit, Fits
  <1> QED BY Zenon DEF AppendsFit

\* Every message of s \o t is one of s or one of t.
LEMMA ConcatFits ==
  ASSUME NEW s \in Seq(Message), NEW t \in Seq(Message),
         \A k \in DOMAIN s : Fits(s[k]), \A k \in DOMAIN t : Fits(t[k])
  PROVE  \A k \in DOMAIN (s \o t) : Fits((s \o t)[k])
  <1>1. \A k \in DOMAIN (s \o t) :
          \/ k \in DOMAIN s /\ (s \o t)[k] = s[k]
          \/ k - Len(s) \in DOMAIN t /\ (s \o t)[k] = t[k - Len(s)]
    BY WriteFacts, Zenon
  <1> DEFINE u == s \o t
  <1>2. \A k \in DOMAIN u :
          \/ k \in DOMAIN s /\ u[k] = s[k]
          \/ k - Len(s) \in DOMAIN t /\ u[k] = t[k - Len(s)]
    BY <1>1, Zenon
  <1> HIDE DEF u
  <1>3. \A k \in DOMAIN u : Fits(u[k])
    BY <1>2, Zenon
  <1> QED BY <1>3, Zenon DEF u

\* Taking a message and writing one that fits.
LEMMA ReplyFits ==
  ASSUME TypeOK, AppendsFit, NEW n \in Node, NEW src \in Peers(n),
         NEW type, Msg(src, n, type),
         NEW msgs \in Seq(Message), Reply(src, n, msgs),
         \A k \in DOMAIN msgs : Fits(msgs[k])
  PROVE  AppendsFit'
  <1> DEFINE rd == <<src, n>>
             wr == <<n, src>>
  <1>1. /\ rd \in Channel /\ wr \in Channel /\ rd # wr /\ src \in Node
        /\ net \in [Channel -> Seq(Message)]
    BY Zenon DEF Peers, Channel, TypeOK
  <1>2. /\ net'[rd] = Tail(net[rd])
        /\ net'[wr] = net[wr] \o msgs \/ net'[wr] = net[wr]
        /\ \A c \in Channel \ {rd, wr} : net'[c] = net[c]
    BY <1>1, Zenon DEF Reply
  <1>3. net[rd] # <<>> /\ net[rd] \in Seq(Message) /\ net[wr] \in Seq(Message)
    BY <1>1, MsgFacts, Zenon
  <1> HIDE DEF rd, wr
  <1>4. \A k \in DOMAIN net'[rd] : Fits(net'[rd][k])
    <2>1. \A i \in DOMAIN net'[rd] : /\ i + 1 \in DOMAIN net[rd]
                                     /\ net'[rd][i] = net[rd][i + 1]
      BY <1>2, <1>3, TailFacts
    <2> QED BY <1>1, <2>1, Zenon DEF AppendsFit
  <1>5. \A k \in DOMAIN net'[wr] : Fits(net'[wr][k])
    <2> DEFINE u == net[wr] \o msgs
    <2>1. \A k \in DOMAIN u : Fits(u[k])
      BY <1>1, <1>3, ConcatFits, Zenon DEF AppendsFit
    <2>2. net'[wr] = u \/ net'[wr] = net[wr]
      BY <1>2, Zenon
    <2> HIDE DEF u
    <2> QED BY <1>1, <2>1, <2>2, Zenon DEF AppendsFit
  <1> SUFFICES ASSUME NEW c \in Channel, NEW k \in DOMAIN net'[c]
               PROVE  Fits(net'[c][k])
    BY Zenon DEF AppendsFit, Fits
  <1> QED BY <1>2, <1>4, <1>5, Zenon DEF AppendsFit

\* Writing to each of the other nodes messages that fit.
LEMMA SendFits ==
  ASSUME TypeOK, AppendsFit, NEW n \in Node, NEW out \in [Node -> Seq(Message)],
         SendEach(n, out),
         \A m \in Node : \A k \in DOMAIN out[m] : Fits(out[m][k])
  PROVE  AppendsFit'
  <1> SUFFICES ASSUME NEW c \in Channel, NEW k \in DOMAIN net'[c]
               PROVE  Fits(net'[c][k])
    BY Zenon DEF AppendsFit, Fits
  <1> DEFINE t == out[c[2]]
             u == net[c] \o t
  <1>1. /\ net[c] \in Seq(Message) /\ t \in Seq(Message)
        /\ \A j \in DOMAIN t : Fits(t[j])
    BY Zenon DEF TypeOK, Channel
  <1>2. net'[c] = net[c] \/ net'[c] = u
    BY Zenon DEF SendEach
  <1>3. \A j \in DOMAIN u : Fits(u[j])
    BY <1>1, ConcatFits, Zenon DEF AppendsFit
  <1> HIDE DEF u
  <1> QED BY <1>2, <1>3, Zenon DEF AppendsFit

\* Messages without an entry fit.
LEMMA OneFits ==
  ASSUME NEW m, m.type # "APPEND_ENTRIES_REQUEST" \/ m.entries = <<>>
  PROVE  \A k \in DOMAIN <<m>> : Fits(<<m>>[k])
  <1>1. DOMAIN <<m>> = {1} /\ <<m>>[1] = m
    OBVIOUS
  <1>2. Fits(m)
    BY Zenon DEF Fits
  <1> QED BY <1>1, <1>2, Zenon

\* A step that leaves the logs alone.
LEMMA LogKept ==
  ASSUME TypeOK, TypeOK', LogInv, AppendsFit', log_entries_' = log_entries_,
         \A n \in Node : cur_term_'[n] >= cur_term_[n]
  PROVE  LogInv'
  <1>1. ASSUME NEW n \in Node
        PROVE  /\ WellFormed(log_entries_[n])
               /\ Bounded(log_entries_[n], cur_term_'[n])
    <2>1. /\ WellFormed(log_entries_[n])
          /\ \A i \in DOMAIN log_entries_[n] :
               log_entries_[n][i].term <= cur_term_[n]
      BY Zenon DEF LogInv, Bounded
    <2>2. /\ \A i \in DOMAIN log_entries_[n] : log_entries_[n][i].term \in Nat
          /\ cur_term_[n] \in Nat /\ cur_term_'[n] \in Nat
      <3>1. /\ log_entries_[n] \in Seq(Entry)
            /\ cur_term_[n] \in Nat /\ cur_term_'[n] \in Nat
        BY Zenon DEF TypeOK
      <3> QED BY <3>1, LogFacts, LenProperties, Zenon DEF Entry
    <2> QED BY <2>1, <2>2 DEF Bounded
  <1> QED BY <1>1, Zenon DEF LogInv, WellFormed, Bounded
-----------------------------------------------------------------------------
(* One lemma per group of actions.                                         *)

\* The timers leave the logs alone and send requests without entries.
LEMMA TimerLog ==
  ASSUME TypeOK, TypeOK', LogInv, NEW n \in Node, Timer(n)
  PROVE  LogInv'
  <1> USE DEF electionVars, indexVars, logVars, boundVars, historyVars
  <1>1. cur_term_ \in [Node -> Nat] /\ AppendsFit
    BY Zenon DEF TypeOK, LogInv
  <1>2. CASE VoteTimer(n)
    <2>1. net' = net /\ log_entries_' = log_entries_
      BY <1>2, Zenon DEF VoteTimer
    <2>2. \A m \in Node : cur_term_'[m] >= cur_term_[m]
      BY <1>1, <1>2 DEF VoteTimer
    <2> QED BY <1>1, <2>1, <2>2, OldMailFits, LogKept
  <1>3. CASE DelayedVoteSkipped(n) \/ StatisticsTimer(n)
    <2>1. UNCHANGED <<net, log_entries_, cur_term_>>
      BY <1>3, Zenon DEF DelayedVoteSkipped, StatisticsTimer, vars
    <2> QED BY <1>1, <2>1, OldMailFits, LogKept
  <1>4. CASE DelayedVoteRequest(n) \/ Heartbeat(n)
    <2>1. PICK m \in Message :
            /\ SendEach(n, [k \in Node |-> <<m>>])
            /\ m.type # "APPEND_ENTRIES_REQUEST" \/ m.entries = <<>>
      <3> DEFINE ask == [type |-> "REQUEST_VOTE_REQUEST", term |-> cur_term_[n],
                         last_log_index |-> LastIndex(log_entries_[n]),
                         last_log_term |-> LastTerm(log_entries_[n])]
                 beat == [type |-> "APPEND_ENTRIES_REQUEST",
                          term |-> cur_term_[n],
                          prev_log_index |-> LastIndex(log_entries_[n]),
                          prev_log_term |-> LastTerm(log_entries_[n]),
                          entries |-> <<>>, leader_commit |-> commit_index_[n]]
      <3>1. /\ cur_term_[n] \in Nat /\ log_entries_[n] \in Seq(Entry)
            /\ commit_index_[n] \in Nat
        BY Zenon DEF TypeOK
      <3>2. ask \in Message /\ beat \in Message
        BY <3>1, LogFacts, EmptySeq, Zenon
        DEF RequestVoteRequest, AppendEntriesRequest, Message
      <3>3. ask.type # "APPEND_ENTRIES_REQUEST" /\ beat.entries = <<>>
        BY Zenon
      <3>4. \/ SendEach(n, [k \in Node |-> <<ask>>])
            \/ SendEach(n, [k \in Node |-> <<beat>>])
        BY <1>4, Zenon DEF DelayedVoteRequest, Heartbeat
      <3> HIDE DEF ask, beat
      <3> QED BY ZenonT(30), <3>2, <3>3, <3>4
    <2>2. [k \in Node |-> <<m>>] \in [Node -> Seq(Message)]
      BY SingleFacts, Zenon
    <2>3. \A j \in Node : \A k \in DOMAIN [i \in Node |-> <<m>>][j] :
            Fits([i \in Node |-> <<m>>][j][k])
      BY <2>1, OneFits, Zenon
    <2>4. AppendsFit'
      BY ZenonT(30), <1>1, <2>1, <2>2, <2>3, SendFits
    <2>5. UNCHANGED <<log_entries_, cur_term_>>
      BY <1>4, Zenon DEF DelayedVoteRequest, Heartbeat
    <2> QED BY <1>1, <2>4, <2>5, LogKept
  <1> QED BY <1>2, <1>3, <1>4, Zenon DEF Timer

\* The one group that writes into a log that may disagree with the request.
LEMMA AppendRequestLog ==
  ASSUME TypeOK, TypeOK', LogInv, NEW n \in Node, NEW src \in Peers(n),
         \/ AppendExpired(n, src) \/ AppendOutOfSync(n, src)
         \/ AppendAccepted(n, src)
  PROVE  LogInv'
  <1> USE DEF electionVars, indexVars, logVars, boundVars, historyVars
  <1> DEFINE req == Head(net[<<src, n>>])
             log == log_entries_[n]
             new == append_log_entries(log, req.prev_log_index, req.entries)
  <1>1. Msg(src, n, "APPEND_ENTRIES_REQUEST")
    BY Zenon DEF AppendExpired, AppendOutOfSync, AppendAccepted
  <1>2. /\ src \in Node /\ cur_term_[n] \in Nat /\ log \in Seq(Entry)
        /\ cur_term_ \in [Node -> Nat] /\ AppendsFit
        /\ log_entries_ \in [Node -> Seq(Entry)]
    BY Zenon DEF Peers, TypeOK, LogInv
  <1>3. req \in AppendEntriesRequest /\ Fits(req)
    <2>1. /\ req \in AppendEntriesRequest /\ req = net[<<src, n>>][1]
          /\ 1 \in DOMAIN net[<<src, n>>]
      BY <1>1, <1>2, MsgFacts, Zenon
    <2>2. <<src, n>> \in Channel
      BY <1>2, Zenon DEF Channel
    <2>3. Fits(net[<<src, n>>][1])
      BY <1>2, <2>1, <2>2, Zenon DEF AppendsFit
    <2> QED BY <2>1, <2>3, Zenon
  <1>4. /\ req.term \in Nat /\ req.prev_log_index \in Nat
        /\ req.entries \in Seq(Entry) /\ req.prev_log_term \in Nat
        /\ req.type = "APPEND_ENTRIES_REQUEST"
    BY <1>3, Zenon DEF AppendEntriesRequest
  <1>5. PICK ack \in Message : Reply(src, n, <<ack>>)
                                 /\ ack.type = "APPEND_ENTRIES_RESPONSE"
    <2> DEFINE Response == {AppendResponse(cur_term_[n], FALSE, -1),
                            AppendResponse(req.term, FALSE, -1),
                            AppendResponse(req.term, TRUE, LastIndex(new))}
    <2>1. check_if_previous_log_in_sync(log, req) => LastIndex(new) \in Nat
      <3> SUFFICES ASSUME req.prev_log_index <= Len(log)
                   PROVE  LastIndex(new) \in Nat
        BY Zenon DEF check_if_previous_log_in_sync
      <3>1. new \in Seq(Entry)
        BY <1>2, <1>4, AppendLogFacts, Zenon
      <3> QED BY <3>1, LogFacts, Zenon
    <2> HIDE DEF req, new
    <2>2. \A m \in Response : m.type = "APPEND_ENTRIES_RESPONSE"
      BY DEF AppendResponse
    <2>3. /\ AppendResponse(cur_term_[n], FALSE, -1) \in Message
          /\ AppendResponse(req.term, FALSE, -1) \in Message
          /\ check_if_previous_log_in_sync(log, req) =>
               AppendResponse(req.term, TRUE, LastIndex(new)) \in Message
      BY <1>2, <1>4, <2>1 DEF AppendResponse, AppendEntriesResponse, Message
    <2>4. \E m \in Response : m \in Message /\ Reply(src, n, <<m>>)
      BY <2>3, Zenon DEF AppendExpired, AppendOutOfSync, AppendAccepted, req, new
    <2> HIDE DEF Response
    <2> QED BY <2>2, <2>4, Zenon
  <1>6. AppendsFit'
    <2>1. <<ack>> \in Seq(Message) /\ \A k \in DOMAIN <<ack>> : Fits(<<ack>>[k])
      BY <1>5, SingleFacts, OneFits, Zenon
    <2> QED BY <1>1, <1>2, <1>5, <2>1, ReplyFits, Zenon
  <1>7. CASE AppendExpired(n, src)
    BY <1>2, <1>6, <1>7, LogKept DEF AppendExpired
  <1>8. CASE AppendOutOfSync(n, src)
    <2>1. log_entries_' = log_entries_ /\ ConvertToFollower(n, src, req)
      BY <1>8, Zenon DEF AppendOutOfSync
    <2> HIDE DEF req
    <2>2. \A m \in Node : cur_term_'[m] >= cur_term_[m]
      BY <1>2, <1>4, <2>1, TermsRise, Zenon DEF ConvertToFollower
    <2> QED BY <1>6, <2>1, <2>2, LogKept
  <1>9. CASE AppendAccepted(n, src)
    <2>1. /\ ConvertToFollower(n, src, req)
          /\ check_if_previous_log_in_sync(log, req)
          /\ log_entries_' = [log_entries_ EXCEPT ![n] = new]
      BY <1>9, Zenon DEF AppendAccepted
    <2>2. /\ req.prev_log_index <= Len(log)
          /\ TermAt(log, req.prev_log_index) = req.prev_log_term
      BY <2>1, Zenon DEF check_if_previous_log_in_sync
    <2>3. \/ new = log
          \/ /\ req.entries # <<>> /\ req.entries[1] \in Entry
             /\ new = Append(SubSeq(log, 1, req.prev_log_index), req.entries[1])
      <3> HIDE DEF req, log
      <3> QED BY <1>2, <1>4, <2>2, AppendLogFacts, Zenon DEF new
    <2>4. /\ cur_term_' = [cur_term_ EXCEPT ![n] = req.term]
          /\ req.term >= cur_term_[n]
      BY <2>1, Zenon DEF ConvertToFollower
    <2>5. /\ req.entries # <<>> =>
               /\ req.entries[1].index = req.prev_log_index + 1
               /\ req.prev_log_term <= req.entries[1].term
               /\ req.entries[1].term <= req.term
          /\ req.prev_log_index \in 0..Len(log)
      <3>1. \A i, j \in Nat : i <= j => i \in 0..j
        OBVIOUS
      <3>2. Len(log) \in Nat
        BY <1>2, LenProperties, Zenon
      <3> QED BY <1>3, <1>4, <2>2, <3>1, <3>2, Zenon DEF Fits
    <2>6. WellFormed(log) /\ Bounded(log, req.term)
      <3>1. WellFormed(log) /\ Bounded(log, cur_term_[n])
        BY Zenon DEF LogInv
      <3>2. \A i \in DOMAIN log : log[i].term \in Nat
        BY <1>2, LogFacts, LenProperties, Zenon DEF Entry
      <3> HIDE DEF req
      <3> QED BY <1>2, <1>4, <2>4, <3>1, <3>2 DEF Bounded
    <2> HIDE DEF req, log
    <2>7. WellFormed(new) /\ Bounded(new, req.term)
      <3>1. CASE new = log
        BY <2>6, <3>1, Zenon
      <3>2. CASE new # log
        <4>1. /\ req.entries # <<>> /\ req.entries[1] \in Entry
              /\ new = Append(SubSeq(log, 1, req.prev_log_index), req.entries[1])
          BY <2>3, <3>2, Zenon
        <4> QED BY <1>2, <1>4, <2>2, <2>5, <2>6, <4>1, AppendKeepsForm,
                   AppendKeepsBound, ZenonT(30)
      <3> QED BY <3>1, <3>2, Zenon
    <2> HIDE DEF new
    <2>8. ASSUME NEW m \in Node
          PROVE  /\ WellFormed(log_entries_'[m])
                 /\ Bounded(log_entries_'[m], cur_term_'[m])
      BY <1>2, <2>1, <2>4, <2>7, Zenon DEF LogInv
    <2> QED BY <1>6, <2>8, Zenon DEF LogInv, WellFormed, Bounded
  <1> QED BY <1>7, <1>8, <1>9, Zenon

\* The AppendEntries response handler sends entries of the node's own log.
LEMMA AppendResponseLog ==
  ASSUME TypeOK, TypeOK', LogInv, NEW n \in Node, NEW src \in Peers(n),
         \/ AppendFailedTerm(n, src) \/ AppendFailedSync(n, src)
         \/ AppendSynced(n, src) \/ AppendCommitted(n, src)
         \/ AppendCommittedDies(n, src)
  PROVE  LogInv'
  <1> USE DEF electionVars, indexVars, logVars, boundVars, historyVars
  <1> DEFINE resp == Head(net[<<src, n>>])
             log == log_entries_[n]
             last == resp.last_index_synced
  <1>1. Msg(src, n, "APPEND_ENTRIES_RESPONSE")
    BY Zenon DEF AppendFailedTerm, AppendFailedSync, AppendSynced, AppendCommitted,
           AppendCommittedDies
  <1>2. /\ src \in Node /\ cur_term_[n] \in Nat /\ log \in Seq(Entry)
        /\ commit_index_[n] \in Nat /\ next_index_[n][src] \in Nat \ {0}
        /\ pending_append_reqs_[n][src] \in Nat
        /\ cur_term_ \in [Node -> Nat]
    BY DEF Peers, TypeOK
  <1>3. resp \in AppendEntriesResponse
    BY <1>1, <1>2, MsgFacts, Zenon
  <1>4. resp.term \in Nat /\ (resp.success => last \in Nat)
    BY <1>3, Zenon DEF AppendEntriesResponse
  <1>5. AppendsFit /\ WellFormed(log) /\ Bounded(log, cur_term_[n])
    BY Zenon DEF LogInv
  <1> HIDE DEF resp
  <1>6. ASSUME ~AppendCommittedDies(n, src) PROVE AppendsFit'
    <2>1. PICK term \in Nat, commit \in Nat, next \in Nat :
            /\ ReplyWithUpdate(n, src, term, commit, next)
            /\ term >= cur_term_[n]
      <3>1. EarlierIndex(next_index_[n][src]) \in Nat
        BY <1>2 DEF EarlierIndex
      <3>2. CASE AppendFailedTerm(n, src)
        <4>1. /\ ReplyWithUpdate(n, src, resp.term, commit_index_[n],
                                 next_index_[n][src])
              /\ resp.term > cur_term_[n]
          BY <3>2, Zenon DEF AppendFailedTerm, resp
        <4>2. resp.term >= cur_term_[n]
          BY <1>2, <1>4, <4>1
        <4> QED BY <1>2, <1>4, <4>1, <4>2, Zenon
      <3>3. CASE AppendFailedSync(n, src)
        <4>1. ReplyWithUpdate(n, src, cur_term_[n], commit_index_[n],
                              EarlierIndex(next_index_[n][src]))
          BY <3>3, Zenon DEF AppendFailedSync
        <4> QED BY <1>2, <3>1, <4>1
      <3>4. CASE AppendSynced(n, src) \/ AppendCommitted(n, src)
        <4>1. last \in Nat
          BY <1>4, <3>4, Zenon DEF AppendSynced, AppendCommitted, resp
        <4>2. \/ ReplyWithUpdate(n, src, cur_term_[n], commit_index_[n], last + 1)
              \/ ReplyWithUpdate(n, src, cur_term_[n], last, last + 1)
          BY <3>4, Zenon DEF AppendSynced, AppendCommitted, resp
        <4> HIDE DEF last
        <4>3. last + 1 \in Nat /\ cur_term_[n] >= cur_term_[n]
          BY <1>2, <4>1
        <4> QED BY <1>2, <4>1, <4>2, <4>3, Zenon
      <3> QED BY <1>6, <3>2, <3>3, <3>4, ZenonT(30)
    <2> DEFINE p == PendingAfter(n, src)
               out == trigger_entry_update(term, log, commit, next, p)
    <2>2. p \in Nat /\ Reply(src, n, out)
      BY SMTT(30), <1>2, <2>1 DEF PendingAfter, ReplyWithUpdate
    <2>3. out \in Seq(Message)
      BY <1>2, <2>2, UpdateFacts, Zenon
    <2>4. Bounded(log, term)
      <3>1. \A i \in DOMAIN log : log[i].term \in Nat
        BY <1>2, LogFacts, LenProperties, Zenon DEF Entry
      <3> QED BY <1>2, <1>5, <2>1, <3>1 DEF Bounded
    <2>5. \A i \in DOMAIN out : Fits(out[i])
      BY <1>2, <1>5, <2>2, <2>4, UpdateFits, ZenonT(30)
    <2> HIDE DEF out
    <2> QED BY <1>1, <1>5, <2>2, <2>3, <2>5, ReplyFits
  <1>7. ASSUME AppendCommittedDies(n, src) PROVE AppendsFit'
    <2>1. \A c \in Channel : net'[c] = <<>> \/ net'[c] = net[c]
      BY <1>7, Zenon DEF AppendCommittedDies
    <2> QED BY <1>5, <2>1, OldMailFits
  <1>8. log_entries_' = log_entries_
    BY Zenon DEF AppendFailedTerm, AppendFailedSync, AppendSynced, AppendCommitted,
           AppendCommittedDies
  <1>9. \A m \in Node : cur_term_'[m] >= cur_term_[m]
    <2>1. CASE AppendFailedTerm(n, src)
      BY <1>2, <1>4, <2>1, TermsRise, Zenon DEF AppendFailedTerm, resp
    <2>2. CASE ~AppendFailedTerm(n, src)
      <3>1. cur_term_' = cur_term_
        BY <2>2, Zenon DEF AppendFailedSync, AppendSynced, AppendCommitted,
                    AppendCommittedDies
      <3> QED BY <1>2, <1>4, <3>1, TermsRise, Zenon
    <2> QED BY <2>1, <2>2, Zenon
  <1> QED BY <1>6, <1>7, <1>8, <1>9, LogKept, Zenon

\* Vote messages carry no entries, and terms only grow.
LEMMA VoteLog ==
  ASSUME TypeOK, TypeOK', LogInv, NEW n \in Node, NEW src \in Peers(n),
         \/ VoteDenied(n, src) \/ VoteGranted(n, src)
         \/ VoteIgnoredByLeader(n, src)
         \/ VoteResponseIgnored(n, src) \/ VoteCounted(n, src)
  PROVE  LogInv'
  <1> USE DEF electionVars, indexVars, logVars, boundVars, historyVars
  <1> DEFINE m == Head(net[<<src, n>>])
             yes == VoteResponse(m.term, TRUE)
             no == VoteResponse(m.term, FALSE)
  <1>1. /\ src \in Node /\ cur_term_ \in [Node -> Nat] /\ AppendsFit
    BY Zenon DEF Peers, TypeOK, LogInv
  <1>2. PICK type \in {"REQUEST_VOTE_REQUEST", "REQUEST_VOTE_RESPONSE"} :
          Msg(src, n, type)
    BY Zenon DEF VoteDenied, VoteGranted, VoteIgnoredByLeader, VoteResponseIgnored,
           VoteCounted
  <1>3. m.term \in Nat
    BY <1>1, <1>2, MsgFacts, Zenon DEF RequestVoteRequest, RequestVoteResponse
  <1>4. Reply(src, n, <<>>) \/ Reply(src, n, <<no>>) \/ Reply(src, n, <<yes>>)
    BY Zenon DEF VoteDenied, VoteGranted, VoteIgnoredByLeader, VoteResponseIgnored,
           VoteCounted
  <1>5. \A v \in {yes, no} : v \in Message /\ v.type # "APPEND_ENTRIES_REQUEST"
    <2> HIDE DEF m
    <2>1. /\ yes \in RequestVoteResponse /\ yes.type # "APPEND_ENTRIES_REQUEST"
          /\ no \in RequestVoteResponse /\ no.type # "APPEND_ENTRIES_REQUEST"
      BY <1>3, Zenon DEF VoteResponse, RequestVoteResponse
    <2> HIDE DEF yes, no
    <2> QED BY <2>1, Zenon DEF Message
  <1>6. log_entries_' = log_entries_
    BY Zenon DEF VoteDenied, VoteGranted, VoteIgnoredByLeader, VoteResponseIgnored,
           VoteCounted, AdoptVoteTerm
  <1>7. \A k \in Node : cur_term_'[k] >= cur_term_[k]
    <2>1. CASE VoteGranted(n, src) \/ VoteIgnoredByLeader(n, src)
      <3>1. AdoptVoteTerm(n, src, m)
        BY <2>1, Zenon DEF VoteGranted, VoteIgnoredByLeader
      <3> HIDE DEF m
      <3> QED BY <1>1, <1>3, <3>1, TermsRise, Zenon DEF AdoptVoteTerm, ValidVoteRequest
    <2>2. CASE VoteCounted(n, src)
      <3>1. /\ m.term >= cur_term_[n]
            /\ \/ cur_term_' = [cur_term_ EXCEPT ![n] = m.term]
               \/ cur_term_' = cur_term_
        BY <2>2, Zenon DEF VoteCounted, VoteResponseCounts
      <3> HIDE DEF m
      <3> QED BY <1>1, <1>3, <3>1, TermsRise, Zenon
    <2>3. CASE VoteDenied(n, src) \/ VoteResponseIgnored(n, src)
      BY <1>1, <1>3, <2>3, TermsRise, Zenon DEF VoteDenied, VoteResponseIgnored
    <2> QED BY <2>1, <2>2, <2>3, Zenon
  <1> HIDE DEF yes, no
  <1>8. AppendsFit'
    <2>1. CASE Reply(src, n, <<>>)
      <3>1. \A i \in DOMAIN <<>> : Fits(<<>>[i])
        OBVIOUS
      <3> QED BY <1>1, <1>2, <2>1, <3>1, EmptySeq, ReplyFits, ZenonT(30)
    <2>2. ASSUME NEW v \in {yes, no}, Reply(src, n, <<v>>) PROVE AppendsFit'
      <3>1. <<v>> \in Seq(Message) /\ \A i \in DOMAIN <<v>> : Fits(<<v>>[i])
        BY <1>5, SingleFacts, OneFits, Zenon
      <3> QED BY <1>1, <1>2, <2>2, <3>1, ReplyFits, Zenon
    <2> QED BY <1>4, <2>1, <2>2, Zenon
  <1> QED BY <1>6, <1>7, <1>8, LogKept

\* A leader appends behind its own log, at its own term.
LEMMA ClientLog ==
  ASSUME TypeOK, TypeOK', LogInv, NEW n \in Node, NEW op \in Operation,
         ClientRequest(n, op)
  PROVE  LogInv'
  <1> USE DEF electionVars, indexVars, logVars, boundVars, historyVars
  <1>1. PICK id \in Nat : add_log_entry(n, op, id)
    BY DEF ClientRequest, TypeOK
  <1> DEFINE old == log_entries_[n]
             e == [index |-> Len(log_entries_[n]) + 1, term |-> cur_term_[n],
                   operation |-> op, message_id |-> id]
             log == Append(log_entries_[n], e)
             out == [m \in Node |->
                       trigger_entry_update(cur_term_[n], log,
                         commit_index_[n], next_index_[n][m],
                         pending_append_reqs_[n][m])]
  <1>2. /\ old \in Seq(Entry) /\ cur_term_[n] \in Nat
        /\ commit_index_[n] \in Nat
        /\ \A m \in Node : /\ next_index_[n][m] \in Nat
                           /\ pending_append_reqs_[n][m] \in Nat
        /\ log_entries_ \in [Node -> Seq(Entry)]
    BY SMTT(30) DEF TypeOK
  <1>3. /\ Len(old) \in Nat /\ Len(old) \in 0..Len(old)
        /\ op \in {"ADD", "COMMIT"}
    BY <1>2, LenProperties, InputAssumption
  <1>4. e \in Entry /\ e.index = Len(old) + 1 /\ e.term = cur_term_[n]
    BY <1>2, <1>3 DEF Entry
  <1>5. SendEach(n, out) /\ log_entries_' = [log_entries_ EXCEPT ![n] = log]
    BY <1>1, Zenon DEF add_log_entry
  <1> HIDE DEF e
  <1>6. log = Append(SubSeq(old, 1, Len(old)), e)
    BY <1>2, SubSeqFull, Zenon
  <1>7. AppendsFit /\ WellFormed(old) /\ Bounded(old, cur_term_[n])
    BY Zenon DEF LogInv
  <1>8. TermAt(old, Len(old)) <= cur_term_[n]
    <2>1. CASE Len(old) = 0
      BY <1>2, <2>1 DEF TermAt
    <2>2. CASE Len(old) > 0
      <3>1. Len(old) \in DOMAIN old
        BY <1>2, <1>3, <2>2, LenProperties
      <3> QED BY <1>7, <2>2, <3>1 DEF TermAt, Bounded
    <2> QED BY <1>3, <2>1, <2>2
  <1> HIDE DEF old
  <1>9. e.term <= cur_term_[n]
    BY <1>2, <1>4
  <1>10. /\ WellFormed(Append(SubSeq(old, 1, Len(old)), e))
         /\ Bounded(Append(SubSeq(old, 1, Len(old)), e), cur_term_[n])
    BY <1>2, <1>3, <1>4, <1>7, <1>8, <1>9, AppendKeepsForm, AppendKeepsBound, ZenonT(30)
  <1>11. log \in Seq(Entry) /\ WellFormed(log) /\ Bounded(log, cur_term_[n])
    BY <1>2, <1>4, <1>6, <1>10, AppendFacts, ZenonT(30) DEF old
  <1> HIDE DEF log
  <1>12. \A m \in Node : /\ out[m] \in Seq(Message)
                         /\ \A i \in DOMAIN out[m] : Fits(out[m][i])
    BY <1>2, <1>11, UpdateFacts, UpdateFits, Zenon
  <1>13. out \in [Node -> Seq(Message)]
    BY <1>12, Zenon
  <1> HIDE DEF out
  <1>14. AppendsFit'
    BY <1>5, <1>7, <1>12, <1>13, SendFits, ZenonT(30)
  <1>15. cur_term_' = cur_term_
    BY Zenon DEF ClientRequest
  <1>16. ASSUME NEW m \in Node
         PROVE  /\ WellFormed(log_entries_'[m])
                /\ Bounded(log_entries_'[m], cur_term_'[m])
    BY <1>2, <1>5, <1>11, <1>15, Zenon DEF LogInv
  <1> QED BY <1>14, <1>16, ZenonT(30) DEF LogInv, WellFormed, Bounded

\* A broken session only takes mail away.
LEMMA LoseLog ==
  ASSUME TypeOK, TypeOK', LogInv, NEW c \in Channel, Lose(c)
  PROVE  LogInv'
  <1> USE DEF electionVars, indexVars, logVars, boundVars, historyVars
  <1>1. /\ net \in [Channel -> Seq(Message)] /\ net[c] # <<>>
        /\ net' = [net EXCEPT ![c] = SubSeq(@, 1, Len(@) - 1)]
        /\ cur_term_ \in [Node -> Nat] /\ AppendsFit
        /\ UNCHANGED <<log_entries_, cur_term_>>
    BY Zenon DEF TypeOK, Lose, LogInv
  <1> DEFINE s == net[c]
             t == SubSeq(s, 1, Len(s) - 1)
  <1>2. Len(s) \in Nat /\ Len(s) > 0
    BY <1>1, TailFacts, Zenon
  <1>3. \A i \in DOMAIN t : i \in DOMAIN s /\ t[i] = s[i]
    BY <1>1, <1>2, PrefixFacts
  <1> HIDE DEF t
  <1>4. net'[c] = t /\ \A k \in Channel : k # c => net'[k] = net[k]
    BY <1>1, Zenon DEF t
  <1>5. AppendsFit'
    BY <1>1, <1>3, <1>4, OldMailFits
  <1> QED BY <1>1, <1>5, LogKept
-----------------------------------------------------------------------------
\* Every entry sits at the position it names and fits behind its predecessor,
\* in every log and in every AppendEntries request under way.
THEOREM LogInvariance == Spec => []LogInv
  <1>1. Init => LogInv
    <2> SUFFICES ASSUME Init PROVE LogInv
      BY Zenon
    <2>1. \A n \in Node : log_entries_[n] = <<>>
      BY Zenon DEF Init
    <2>2. \A n \in Node : /\ WellFormed(log_entries_[n])
                          /\ Bounded(log_entries_[n], cur_term_[n])
      BY <2>1 DEF WellFormed, Bounded
    <2>3. \A c \in Channel : net[c] = <<>>
      BY Zenon DEF Init
    <2>4. AppendsFit
      BY <2>3 DEF AppendsFit
    <2> QED BY <2>2, <2>4, Zenon DEF LogInv
  <1>2. TypeOK /\ TypeOK' /\ LogInv /\ [Next]_vars => LogInv'
    <2> SUFFICES ASSUME TypeOK, TypeOK', LogInv, [Next]_vars PROVE LogInv'
      BY Zenon
    <2>1. ASSUME NEW n \in Node, Timer(n) PROVE LogInv'
      BY <2>1, TimerLog, Zenon
    <2>2. ASSUME NEW n \in Node, NEW src \in Peers(n),
                 local_message_handler(n, src)
          PROVE  LogInv'
      BY <2>2, AppendRequestLog, AppendResponseLog, VoteLog, Zenon
      DEF local_message_handler
    <2>3. ASSUME NEW n \in Node, NEW op \in Operation, ClientRequest(n, op)
          PROVE  LogInv'
      BY <2>3, ClientLog, Zenon
    <2>4. ASSUME NEW c \in Channel, Lose(c) PROVE LogInv'
      BY <2>4, LoseLog, Zenon
    <2>5. CASE UNCHANGED vars
      <3>1. UNCHANGED <<net, log_entries_, cur_term_>>
        BY <2>5, Zenon DEF vars, electionVars, logVars
      <3>2. cur_term_ \in [Node -> Nat] /\ AppendsFit
        BY Zenon DEF TypeOK, LogInv
      <3> QED BY <3>1, <3>2, OldMailFits, LogKept
    <2> QED BY <2>1, <2>2, <2>3, <2>4, <2>5, Zenon DEF Next
  <1> QED BY <1>1, <1>2, TypeCorrect, PTL DEF Spec

\* Whatever leaders come and go, an entry of a log carries its own position as
\* its index, and terms do not decrease along the log.
THEOREM LogShape == Spec => []LogWellFormed
  <1>1. LogInv => LogWellFormed
    BY Zenon DEF LogInv, WellFormed, LogWellFormed
  <1> QED BY <1>1, LogInvariance, PTL
=============================================================================
