--------------------------- MODULE ElectionTickets ---------------------------
(***************************************************************************)
(* Two of the three actions that move a ticket: sending the requests opens *)
(* one per node, granting turns a request into a response.  The third,     *)
(* counting, is in ElectionProofs.                                         *)
(***************************************************************************)
EXTENDS ElectionQuiet

\* Votes are only added, so a majority once obtained stays.
LEMMA MajorityStays ==
  ASSUME ElectedByMajority, votes \subseteq votes', elected' = elected
  PROVE  ElectedByMajority'
  <1> SUFFICES ASSUME NEW x \in elected
               PROVE  2 * Cardinality({q \in Node :
                            [voter |-> q, term |-> x.term,
                             candidate |-> x.node] \in votes'})
                        > Cardinality(Node)
    BY Zenon DEF ElectedByMajority
  <1> DEFINE Q == {q \in Node : [voter |-> q, term |-> x.term,
                                 candidate |-> x.node] \in votes}
             R == {q \in Node : [voter |-> q, term |-> x.term,
                                 candidate |-> x.node] \in votes'}
  <1>1. IsFiniteSet(R) /\ Q \subseteq R
    BY NodeAssumption, FS_Subset, Zenon
  <1>2. 2 * Cardinality(Q) > Cardinality(Node)
    BY Zenon DEF ElectedByMajority
  <1> HIDE DEF Q, R
  <1>3. /\ Cardinality(Q) <= Cardinality(R)
        /\ Cardinality(Q) \in Nat /\ Cardinality(R) \in Nat
        /\ Cardinality(Node) \in Nat
    BY <1>1, NodeAssumption, FS_Subset, FS_CardinalityType, Zenon
  <1>4. 2 * Cardinality(R) > Cardinality(Node)
    BY <1>2, <1>3
  <1> QED BY <1>4, Zenon DEF R

\* A vote is determined by its fields.
LEMMA VoteIsTicket ==
  ASSUME TypeOK, NEW v \in votes
  PROVE  /\ v.voter \in Node /\ v.term \in Nat /\ v.candidate \in Node
         /\ v = Ticket(v.voter, v.term, v.candidate)
  BY Zenon DEF TypeOK, Vote, Ticket

\* A candidate has a ticket for every request, grant and tallied vote.
LEMMA SelfTicket ==
  ASSUME TypeOK, ElectionInv, NEW n \in Node, voted_for_[n] = None
  PROVE  /\ Ticket(n, cur_term_[n], n) \notin votes
         /\ \A q \in Node : Ticket(q, cur_term_[n], n) \notin votes
  <1>1. Ticket(n, cur_term_[n], n) \notin votes
    BY NodeAssumption, Zenon DEF ElectionInv, VotesCurrent, Ticket
  <1> QED BY <1>1, Zenon DEF ElectionInv, AskedFirst, Ticket

\* A candidate that votes for itself and asks the others opens its tickets in a term it has none in.
LEMMA DelayedVoteRequestStep ==
  ASSUME TypeOK, TypeOK', ElectionInv, NEW n \in Node, DelayedVoteRequest(n)
  PROVE  ElectionInv'
  <1> USE DEF electionVars, indexVars, logVars, boundVars, historyVars
  <1> DEFINE t == cur_term_[n]
             m == [type |-> "REQUEST_VOTE_REQUEST", term |-> t,
                   last_log_index |-> LastIndex(log_entries_[n]),
                   last_log_term |-> LastTerm(log_entries_[n])]
             v == Ticket(n, t, n)
  <1>1. /\ voted_for_[n] = None /\ vote_delay[n]
        /\ vote_delay' = [vote_delay EXCEPT ![n] = FALSE]
        /\ voted_for_' = [voted_for_ EXCEPT ![n] = n]
        /\ votes_collected_' = [votes_collected_ EXCEPT ![n] = @ + 1]
        /\ SendEach(n, [k \in Node |-> <<m>>])
        /\ votes' = votes \cup {v}
        /\ counted' = [counted EXCEPT ![n] = @ \cup {v}]
        /\ cur_term_' = cur_term_ /\ elected' = elected
    BY Zenon DEF DelayedVoteRequest, Ticket
  <1>2. /\ cur_term_ \in [Node -> Nat] /\ counted \in [Node -> SUBSET Vote]
        /\ votes_collected_ \in [Node -> Int]
        /\ voted_for_ \in [Node -> Node \cup {None}]
        /\ vote_delay \in [Node -> BOOLEAN] /\ log_entries_[n] \in Seq(Entry)
        /\ net \in [Channel -> Seq(Message)]
    BY Zenon DEF TypeOK
  <1>3. m \in Message /\ IsRequest(m) /\ ~IsGrant(m) /\ m.term = t
    BY <1>2, LogFacts, Zenon DEF RequestVoteRequest, Message, IsRequest, IsGrant
  <1>4. /\ v \notin votes /\ v.voter = n /\ v.term = t /\ v.candidate = n
        /\ \A q \in Node : Ticket(q, t, n) \notin votes
    BY <1>1, SelfTicket, Zenon DEF Ticket
  <1> HIDE DEF m
  <1>5. ASSUME NEW c \in Channel, NEW i \in DOMAIN net'[c]
        PROVE  \/ i \in DOMAIN net[c] /\ net'[c][i] = net[c][i]
               \/ /\ c[1] = n /\ c[2] # n /\ net'[c][i] = m
                  /\ i = Len(net[c]) + 1
    <2> DEFINE u == net[c] \o <<m>>
    <2>1. net'[c] = net[c] \/ (c[1] = n /\ c[2] # n /\ net'[c] = u)
      <3>1. c[2] \in Node
        BY Zenon DEF Channel
      <3> QED BY <1>1, <3>1, Zenon DEF SendEach
    <2>2. <<m>> \in Seq(Message) /\ DOMAIN <<m>> = {1} /\ <<m>>[1] = m
      BY <1>3, SingleFacts
    <2>3. \A k \in DOMAIN u :
            \/ k \in DOMAIN net[c] /\ u[k] = net[c][k]
            \/ k - Len(net[c]) \in DOMAIN <<m>> /\ u[k] = <<m>>[k - Len(net[c])]
      BY <1>2, <2>2, WriteFacts, Zenon
    <2>4. u \in Seq(Message)
      BY <1>2, <2>2, WriteFacts, Zenon
    <2>5. DOMAIN u \subseteq Nat /\ Len(net[c]) \in Nat
      BY <1>2, <2>4, LenProperties
    <2> HIDE DEF u
    <2>6. \A k \in DOMAIN u :
            \/ k \in DOMAIN net[c] /\ u[k] = net[c][k]
            \/ k = Len(net[c]) + 1 /\ u[k] = m
      BY <2>2, <2>3, <2>5
    <2> QED BY <2>1, <2>6, <1>5, Zenon
  <1>6. VotesCurrent'
    <2> SUFFICES ASSUME NEW w \in votes'
                 PROVE  /\ w.term <= cur_term_[w.voter]
                        /\ w.term = cur_term_[w.voter] =>
                             voted_for_'[w.voter] = w.candidate
      BY <1>1, Zenon DEF VotesCurrent
    <2>1. CASE w = v
      BY <1>1, <1>2, <1>4, <2>1
    <2>2. CASE w \in votes
      <3>1. /\ w.voter \in Node /\ w.candidate \in Node
            /\ w.term <= cur_term_[w.voter]
            /\ w.term = cur_term_[w.voter] => voted_for_[w.voter] = w.candidate
        BY <2>2, VoteIsTicket, Zenon DEF ElectionInv, VotesCurrent
      <3> HIDE DEF v
      <3> QED BY <1>1, <1>2, <3>1, NodeAssumption, Zenon
    <2> QED BY <1>1, <2>1, <2>2, Zenon
  <1>7. AskedFirst'
    BY <1>1, <1>4, Zenon DEF ElectionInv, AskedFirst
  <1>8. MailIsVoted'
    <2> SUFFICES ASSUME NEW a \in Node, NEW b \in Peers(a),
                        NEW i \in DOMAIN net'[<<a, b>>]
                 PROVE  /\ IsRequest(net'[<<a, b>>][i]) =>
                             Ticket(a, net'[<<a, b>>][i].term, a) \in votes'
                        /\ IsGrant(net'[<<a, b>>][i]) =>
                             Ticket(a, net'[<<a, b>>][i].term, b) \in votes'
      BY Zenon DEF MailIsVoted, IsRequest, IsGrant, Ticket
    <2>1. <<a, b>> \in Channel /\ <<a, b>>[1] = a
      BY Zenon DEF Channel, Peers
    <2>2. CASE i \in DOMAIN net[<<a, b>>] /\ net'[<<a, b>>][i] = net[<<a, b>>][i]
      BY <1>1, <2>2, Zenon DEF ElectionInv, MailIsVoted
    <2>3. CASE a = n /\ net'[<<a, b>>][i] = m
      BY <1>1, <1>3, <2>3
    <2> QED BY <1>5, <2>1, <2>2, <2>3, Zenon
  <1>9. OneMail'
    <2> SUFFICES ASSUME NEW c \in Channel, NEW i \in DOMAIN net'[c],
                        NEW j \in DOMAIN net'[c], i # j,
                        net'[c][i].term = net'[c][j].term
                 PROVE  /\ ~(IsRequest(net'[c][i]) /\ IsRequest(net'[c][j]))
                        /\ ~(IsGrant(net'[c][i]) /\ IsGrant(net'[c][j]))
      BY Zenon DEF OneMail, IsRequest, IsGrant
    <2>1. ASSUME c[1] = n, c[2] # n, NEW k \in DOMAIN net[c]
          PROVE  ~(IsRequest(net[c][k]) /\ net[c][k].term = t)
      <3>1. c[2] \in Peers(n) /\ c = <<n, c[2]>>
        BY <2>1 DEF Channel, Peers
      <3> QED BY <1>4, <2>1, <3>1 DEF ElectionInv, MailIsVoted
    <2>2. /\ \/ i \in DOMAIN net[c] /\ net'[c][i] = net[c][i]
             \/ /\ c[1] = n /\ c[2] # n /\ net'[c][i] = m
                /\ i = Len(net[c]) + 1
          /\ \/ j \in DOMAIN net[c] /\ net'[c][j] = net[c][j]
             \/ /\ c[1] = n /\ c[2] # n /\ net'[c][j] = m
                /\ j = Len(net[c]) + 1
      BY <1>5, Zenon
    <2> QED BY <1>3, <2>1, <2>2 DEF ElectionInv, OneMail
  <1>10. RequestOrGrant'
    <2> SUFFICES ASSUME NEW a \in Node, NEW b \in Peers(a),
                        NEW i \in DOMAIN net'[<<a, b>>],
                        NEW j \in DOMAIN net'[<<b, a>>],
                        IsRequest(net'[<<a, b>>][i]), IsGrant(net'[<<b, a>>][j])
                 PROVE  net'[<<a, b>>][i].term # net'[<<b, a>>][j].term
      BY ZenonT(30) DEF RequestOrGrant, IsRequest, IsGrant
    <2>1. /\ <<a, b>> \in Channel /\ <<b, a>> \in Channel /\ b \in Node
          /\ <<a, b>>[1] = a /\ a \in Peers(b)
      BY Zenon DEF Channel, Peers
    <2>2. j \in DOMAIN net[<<b, a>>] /\ net'[<<b, a>>][j] = net[<<b, a>>][j]
      BY <1>3, <1>5, <2>1, Zenon
    <2>3. CASE i \in DOMAIN net[<<a, b>>] /\ net'[<<a, b>>][i] = net[<<a, b>>][i]
      BY <2>2, <2>3, Zenon DEF ElectionInv, RequestOrGrant
    <2>4. CASE a = n /\ net'[<<a, b>>][i] = m
      BY SMTT(30), <1>3, <1>4, <2>1, <2>2, <2>4 DEF ElectionInv, MailIsVoted
    <2> QED BY <1>5, <2>1, <2>3, <2>4, Zenon
  <1>11. NotYetCounted'
    <2> SUFFICES ASSUME NEW a \in Node, NEW b \in Peers(a),
                        NEW i \in DOMAIN net'[<<a, b>>]
                 PROVE  /\ IsRequest(net'[<<a, b>>][i]) =>
                             Ticket(b, net'[<<a, b>>][i].term, a) \notin counted'[a]
                        /\ IsGrant(net'[<<a, b>>][i]) =>
                             Ticket(a, net'[<<a, b>>][i].term, b) \notin counted'[b]
      BY Zenon DEF NotYetCounted, IsRequest, IsGrant, Ticket
    <2>1. <<a, b>> \in Channel /\ b \in Node /\ <<a, b>>[1] = a /\ a # b
      BY Zenon DEF Channel, Peers
    <2>2. ASSUME NEW term
          PROVE  /\ Ticket(b, term, a) \in counted'[a] =>
                      Ticket(b, term, a) \in counted[a]
                 /\ Ticket(a, term, b) \in counted'[b] =>
                      Ticket(a, term, b) \in counted[b]
      <3>1. \A c \in Node : counted'[c] \subseteq counted[c]
                              \/ (c = n /\ counted'[c] = counted[c] \cup {v})
        BY <1>1, <1>2, Zenon
      <3>2. /\ a = n => Ticket(b, term, a) # v
            /\ b = n => Ticket(a, term, b) # v
        BY <1>4, <2>1, Zenon DEF Ticket
      <3> HIDE DEF v
      <3> QED BY <2>1, <3>1, <3>2, Zenon
    <2>3. CASE i \in DOMAIN net[<<a, b>>] /\ net'[<<a, b>>][i] = net[<<a, b>>][i]
      BY <2>2, <2>3, Zenon DEF ElectionInv, NotYetCounted
    <2>4. CASE a = n /\ net'[<<a, b>>][i] = m
      <3>1. Ticket(b, t, n) \notin counted[n]
        BY <1>4, <2>1, Zenon DEF ElectionInv, Tally
      <3> QED BY <1>3, <2>2, <2>4, <3>1, Zenon
    <2> QED BY <1>5, <2>1, <2>3, <2>4, Zenon
  <1>12. Tally'
    <2> SUFFICES ASSUME NEW c \in Node
                 PROVE  (/\ counted[c] \subseteq votes
                         /\ \A x \in counted[c] : x.candidate = c
                         /\ \A x \in counted[c], w \in votes :
                              w.voter = c /\ w.candidate = c => w.term <= x.term
                         /\ vote_delay[c] /\ voted_for_[c] = None =>
                              counted[c] = {}
                         /\ vote_delay[c] \/ (\E w \in votes :
                                                w.voter = c /\ w.candidate = c)
                              => votes_collected_[c] = Cardinality(counted[c]))'
      BY Zenon DEF Tally
    <2>1. /\ counted[c] \subseteq votes
          /\ \A x \in counted[c] : x.candidate = c
          /\ \A x \in counted[c], w \in votes :
               w.voter = c /\ w.candidate = c => w.term <= x.term
          /\ vote_delay[c] /\ voted_for_[c] = None => counted[c] = {}
          /\ vote_delay[c] \/ (\E w \in votes :
                                 w.voter = c /\ w.candidate = c)
               => votes_collected_[c] = Cardinality(counted[c])
      BY Zenon DEF ElectionInv, Tally
    <2>2. \A w \in votes' : w \in votes \/ w = v
      BY <1>1, Zenon
    <2>3. CASE c # n
      <3>1. /\ counted'[c] = counted[c] /\ vote_delay'[c] = vote_delay[c]
            /\ voted_for_'[c] = voted_for_[c]
            /\ votes_collected_'[c] = votes_collected_[c]
        BY <1>1, <1>2, <2>3, Zenon
      <3> HIDE DEF v
      <3> QED BY <1>1, <1>4, <2>1, <2>2, <2>3, <3>1
    <2>4. CASE c = n
      <3>1. counted[n] = {} /\ votes_collected_[n] = 0
        BY <1>1, <2>1, <2>4, FS_EmptySet, Zenon
      <3>2. /\ counted'[n] = {v} /\ votes_collected_'[n] = 1
            /\ ~vote_delay'[n] /\ Cardinality({v}) = 1
        <4>1. Cardinality({v}) = 1
          BY FS_Singleton, Zenon
        <4> HIDE DEF v
        <4>2. counted'[n] = {v} /\ ~vote_delay'[n]
          BY <1>1, <1>2, <3>1, Zenon
        <4>3. votes_collected_'[n] = 1
          BY <1>1, <1>2, <3>1
        <4> QED BY <4>1, <4>2, <4>3, Zenon
      <3>3. \A w \in votes' : w.voter = n /\ w.candidate = n => w.term <= t
        BY <1>6, <1>1, Zenon DEF VotesCurrent
      <3> HIDE DEF v
      <3> QED BY <1>1, <1>4, <2>4, <3>2, <3>3, Zenon
    <2> QED BY <2>3, <2>4, Zenon
  <1>13. VotesOnce'
    <2>1. ASSUME NEW w \in votes, w.voter = n, w.term = t PROVE FALSE
      <3>1. voted_for_[n] = w.candidate /\ w.candidate \in Node
        BY <2>1, VoteIsTicket, Zenon DEF ElectionInv, VotesCurrent
      <3> QED BY <1>1, <3>1, NodeAssumption, Zenon
    <2>2. VotesOnce
      BY Zenon DEF ElectionInv
    <2> HIDE DEF v
    <2> QED BY <1>1, <1>4, <2>1, <2>2 DEF VotesOnce
  <1>14. IsFiniteSet(votes') /\ ElectedByMajority'
    <2>1. IsFiniteSet(votes')
      BY <1>1, FS_AddElement, Zenon DEF ElectionInv
    <2> QED BY <1>1, <2>1, MajorityStays, Zenon DEF ElectionInv
  <1> QED BY SMTT(30), <1>6, <1>7, <1>8, <1>9, <1>10, <1>11, <1>12, <1>13, <1>14
          DEF ElectionInv

\* A granted vote turns the request's ticket into a response's.
LEMMA VoteGrantedStep ==
  ASSUME TypeOK, TypeOK', ElectionInv, NEW n \in Node, NEW src \in Peers(n),
         VoteGranted(n, src)
  PROVE  ElectionInv'
  <1> DEFINE rd == <<src, n>>
             wr == <<n, src>>
             t == net[rd][1].term
             m == VoteResponse(t, TRUE)
             v == Ticket(n, t, src)
  <1>1. /\ src \in Node /\ src # n /\ n \in Peers(src)
        /\ rd \in Channel /\ wr \in Channel /\ rd # wr
        /\ net \in [Channel -> Seq(Message)]
    BY Zenon DEF Peers, Channel, TypeOK
  <1>2. Msg(src, n, "REQUEST_VOTE_REQUEST")
    BY Zenon DEF VoteGranted
  <1>3. /\ net[rd] # <<>> /\ 1 \in DOMAIN net[rd] /\ Head(net[rd]) = net[rd][1]
        /\ net[rd][1].type = "REQUEST_VOTE_REQUEST"
        /\ net[rd][1] \in RequestVoteRequest
    BY <1>1, <1>2, MsgFacts
  <1>4. IsRequest(net[rd][1]) /\ t \in Nat
    BY <1>3, Zenon DEF IsRequest, RequestVoteRequest
  <1>5. AdoptVoteTerm(n, src, net[rd][1]) /\ Reply(src, n, <<m>>)
    BY <1>3, Zenon DEF VoteGranted
  <1>6. /\ voted_for_' = [voted_for_ EXCEPT ![n] = src]
        /\ votes' = votes \cup {v}
        /\ t > cur_term_[n] \/ (t = cur_term_[n] /\ voted_for_[n] \in {None, src})
        /\ cur_term_' = [cur_term_ EXCEPT ![n] = t]
        /\ votes_collected_' = [votes_collected_ EXCEPT ![n] =
             IF t > cur_term_[n] THEN 0 ELSE @]
        /\ counted' = [counted EXCEPT ![n] = IF t > cur_term_[n] THEN {} ELSE @]
        /\ vote_delay' = vote_delay /\ elected' = elected
    BY <1>3, <1>5, Zenon DEF VoteGranted, AdoptVoteTerm, ValidVoteRequest, Ticket
  <1>7. m \in Message /\ IsGrant(m) /\ ~IsRequest(m) /\ m.term = t
    BY <1>4, Zenon DEF VoteResponse, RequestVoteResponse, Message, IsGrant, IsRequest
  <1>8. /\ v.voter = n /\ v.term = t /\ v.candidate = src
        /\ Ticket(src, t, src) \in votes
    BY <1>1, <1>3, <1>4, ZenonT(30) DEF Ticket, ElectionInv, MailIsVoted
  <1>9. /\ cur_term_ \in [Node -> Nat] /\ counted \in [Node -> SUBSET Vote]
        /\ votes_collected_ \in [Node -> Int]
        /\ voted_for_ \in [Node -> Node \cup {None}]
        /\ vote_delay \in [Node -> BOOLEAN]
    BY Zenon DEF TypeOK
  <1>10. \A c \in Node : counted'[c] \subseteq counted[c]
    BY <1>6, <1>9, Zenon
  \* Where the messages are that were there before, and the new one.
  <1>11. \A c \in Channel \ {rd, wr} : net'[c] = net[c]
    BY <1>1, <1>5, Zenon DEF Reply
  <1>12. \A i \in DOMAIN net'[rd] : /\ i + 1 \in DOMAIN net[rd] /\ i + 1 # 1
                                    /\ net'[rd][i] = net[rd][i + 1]
    <2>1. net'[rd] = Tail(net[rd])
      BY <1>1, <1>5, Zenon DEF Reply
    <2>2. \A i \in DOMAIN Tail(net[rd]) : /\ i + 1 \in DOMAIN net[rd]
                                          /\ Tail(net[rd])[i] = net[rd][i + 1]
      BY <1>1, <1>3, TailFacts, ZenonT(30)
    <2>3. DOMAIN net'[rd] = 1..Len(net'[rd]) /\ Len(net'[rd]) \in Nat
      BY <1>1, LenProperties DEF TypeOK
    <2> HIDE DEF rd
    <2> QED BY <2>1, <2>2, <2>3
  <1>13. \A i \in DOMAIN net'[wr] :
           \/ i \in DOMAIN net[wr] /\ net'[wr][i] = net[wr][i]
           \/ net'[wr][i] = m /\ i = Len(net[wr]) + 1
    <2> HIDE DEF m
    <2> DEFINE u == net[wr] \o <<m>>
    <2>1. net'[wr] = net[wr] \/ net'[wr] = u
      BY <1>1, <1>5, ZenonT(30) DEF Reply
    <2>2. <<m>> \in Seq(Message) /\ DOMAIN <<m>> = {1} /\ <<m>>[1] = m
      BY <1>7, SingleFacts
    <2>3. \A k \in DOMAIN u :
            \/ k \in DOMAIN net[wr] /\ u[k] = net[wr][k]
            \/ k - Len(net[wr]) \in DOMAIN <<m>> /\ u[k] = <<m>>[k - Len(net[wr])]
      BY <1>1, <2>2, WriteFacts, Zenon
    <2>4. u \in Seq(Message)
      BY <1>1, <2>2, WriteFacts, Zenon
    <2>5. DOMAIN u \subseteq Nat /\ Len(net[wr]) \in Nat
      BY SMTT(30), <1>1, <2>4, LenProperties
    <2> HIDE DEF u, wr
    <2>6. \A k \in DOMAIN u :
            \/ k \in DOMAIN net[wr] /\ u[k] = net[wr][k]
            \/ k = Len(net[wr]) + 1 /\ u[k] = m
      BY <2>2, <2>3, <2>5
    <2> QED BY <2>1, <2>6, Zenon
  \* An earlier vote of n in the term of the request went to src as well.
  <1>14. ASSUME NEW w \in votes, w.voter = n
         PROVE  w.term <= t /\ (w.term = t => w = v)
    <2>1. /\ w.term \in Nat /\ w.candidate \in Node /\ w.term <= cur_term_[n]
          /\ w.term = cur_term_[n] => voted_for_[n] = w.candidate
          /\ w = Ticket(w.voter, w.term, w.candidate)
      BY <1>14, VoteIsTicket, ZenonT(30) DEF ElectionInv, VotesCurrent
    <2>2. w.term <= t
      BY SMTT(30), <1>4, <1>6, <1>9, <2>1
    <2>3. w.term = t => w.candidate = src
      BY SMTT(30), <1>4, <1>6, <1>9, <2>1, NodeAssumption
    <2> QED BY <1>14, <2>1, <2>2, <2>3, ZenonT(30)
  <1> HIDE DEF rd, wr, t, m, v
  <1>15. VotesCurrent'
    <2> SUFFICES ASSUME NEW w \in votes'
                 PROVE  /\ w.term <= cur_term_'[w.voter]
                        /\ w.term = cur_term_'[w.voter] =>
                             voted_for_'[w.voter] = w.candidate
      BY Zenon DEF VotesCurrent
    <2>1. CASE w = v
      BY SMTT(30), <1>4, <1>6, <1>8, <1>9, <2>1
    <2>2. CASE w \in votes /\ w.voter = n
      BY <1>6, <1>8, <1>9, <1>14, <2>2, ZenonT(30)
    <2>3. CASE w \in votes /\ w.voter # n
      <3>1. /\ w.voter \in Node /\ w.term <= cur_term_[w.voter]
            /\ w.term = cur_term_[w.voter] => voted_for_[w.voter] = w.candidate
        BY <2>3, VoteIsTicket, Zenon DEF ElectionInv, VotesCurrent
      <3> QED BY <1>6, <1>9, <2>3, <3>1, Zenon
    <2> QED BY <1>6, <2>1, <2>2, <2>3, Zenon
  <1>16. AskedFirst'
    BY <1>6, <1>8, ZenonT(30) DEF ElectionInv, AskedFirst
  <1>17. MailIsVoted'
    <2> SUFFICES ASSUME NEW a \in Node, NEW b \in Peers(a),
                        NEW i \in DOMAIN net'[<<a, b>>]
                 PROVE  /\ IsRequest(net'[<<a, b>>][i]) =>
                             Ticket(a, net'[<<a, b>>][i].term, a) \in votes'
                        /\ IsGrant(net'[<<a, b>>][i]) =>
                             Ticket(a, net'[<<a, b>>][i].term, b) \in votes'
      BY Zenon DEF MailIsVoted, IsRequest, IsGrant, Ticket
    <2>1. <<a, b>> \in Channel
      BY Zenon DEF Channel, Peers
    <2>2. CASE \E k \in DOMAIN net[<<a, b>>] :
                 net'[<<a, b>>][i] = net[<<a, b>>][k]
      BY <1>6, <2>2, Zenon DEF ElectionInv, MailIsVoted
    <2>3. CASE <<a, b>> = wr /\ net'[<<a, b>>][i] = m
      BY <1>6, <1>7, <2>3, Zenon DEF wr, v
    <2> QED BY SMTT(30), <1>11, <1>12, <1>13, <2>1, <2>2, <2>3
  <1>18. OneMail'
    <2> SUFFICES ASSUME NEW c \in Channel, NEW i \in DOMAIN net'[c],
                        NEW j \in DOMAIN net'[c], i # j,
                        net'[c][i].term = net'[c][j].term
                 PROVE  /\ ~(IsRequest(net'[c][i]) /\ IsRequest(net'[c][j]))
                        /\ ~(IsGrant(net'[c][i]) /\ IsGrant(net'[c][j]))
      BY Zenon DEF OneMail, IsRequest, IsGrant
    <2>1. i \in Nat /\ j \in Nat /\ i + 1 # j + 1
      <3>1. net'[c] \in Seq(Message)
        BY Zenon DEF TypeOK
      <3>2. DOMAIN net'[c] = 1..Len(net'[c]) /\ Len(net'[c]) \in Nat
        BY <3>1, LenProperties, Zenon
      <3> QED BY <3>2
    <2>2. CASE c = rd
      BY <1>1, <1>12, <2>1, <2>2, ZenonT(30) DEF ElectionInv, OneMail
    <2>3. CASE c = wr
      <3>1. \A k \in DOMAIN net[wr] : ~(IsGrant(net[wr][k]) /\ net[wr][k].term = t)
        BY <1>1, <1>3, <1>4, Zenon DEF ElectionInv, RequestOrGrant, rd, wr, t
      <3>2. /\ \/ i \in DOMAIN net[c] /\ net'[c][i] = net[c][i]
               \/ net'[c][i] = m /\ i = Len(net[c]) + 1
            /\ \/ j \in DOMAIN net[c] /\ net'[c][j] = net[c][j]
               \/ net'[c][j] = m /\ j = Len(net[c]) + 1
        BY <1>13, <2>3, Zenon
      <3> QED BY <1>1, <1>7, <2>3, <3>1, <3>2, ZenonT(30) DEF ElectionInv, OneMail
    <2>4. CASE c \notin {rd, wr}
      BY <1>11, <2>4, Zenon DEF ElectionInv, OneMail
    <2> QED BY <2>2, <2>3, <2>4, Zenon
  <1>19. RequestOrGrant'
    <2> SUFFICES ASSUME NEW a \in Node, NEW b \in Peers(a),
                        NEW i \in DOMAIN net'[<<a, b>>],
                        NEW j \in DOMAIN net'[<<b, a>>],
                        IsRequest(net'[<<a, b>>][i]), IsGrant(net'[<<b, a>>][j])
                 PROVE  net'[<<a, b>>][i].term # net'[<<b, a>>][j].term
      BY ZenonT(30) DEF RequestOrGrant, IsRequest, IsGrant
    <2>1. <<a, b>> \in Channel /\ <<b, a>> \in Channel /\ b \in Node /\ a # b
      BY Zenon DEF Channel, Peers
    <2>2. \E k \in DOMAIN net[<<a, b>>] : net'[<<a, b>>][i] = net[<<a, b>>][k]
      BY <1>7, <1>11, <1>12, <1>13, <2>1
    <2>3. CASE \E k \in DOMAIN net[<<b, a>>] :
                 net'[<<b, a>>][j] = net[<<b, a>>][k]
      BY <2>2, <2>3 DEF ElectionInv, RequestOrGrant
    <2>4. CASE <<b, a>> = wr /\ net'[<<b, a>>][j] = m
      <3>1. <<a, b>> = rd
        BY <2>4, Zenon DEF rd, wr
      <3> QED BY ZenonT(30), <1>1, <1>3, <1>4, <1>7, <1>12, <2>4, <3>1
              DEF ElectionInv, OneMail, t
    <2> QED BY SMTT(30), <1>11, <1>12, <1>13, <2>1, <2>3, <2>4
  <1>20. NotYetCounted'
    <2> SUFFICES ASSUME NEW a \in Node, NEW b \in Peers(a),
                        NEW i \in DOMAIN net'[<<a, b>>]
                 PROVE  /\ IsRequest(net'[<<a, b>>][i]) =>
                             Ticket(b, net'[<<a, b>>][i].term, a) \notin counted'[a]
                        /\ IsGrant(net'[<<a, b>>][i]) =>
                             Ticket(a, net'[<<a, b>>][i].term, b) \notin counted'[b]
      BY Zenon DEF NotYetCounted, IsRequest, IsGrant, Ticket
    <2>1. <<a, b>> \in Channel /\ b \in Node
      BY Zenon DEF Channel, Peers
    <2>2. CASE \E k \in DOMAIN net[<<a, b>>] :
                 net'[<<a, b>>][i] = net[<<a, b>>][k]
      BY <1>10, <2>1, <2>2 DEF ElectionInv, NotYetCounted
    <2>3. CASE <<a, b>> = wr /\ net'[<<a, b>>][i] = m
      <3>1. Ticket(n, t, src) \notin counted[src]
        BY <1>1, <1>3, <1>4, Zenon DEF ElectionInv, NotYetCounted, rd, t
      <3>2. a = n /\ b = src
        BY <2>3, Zenon DEF wr
      <3> QED BY <1>1, <1>7, <1>10, <2>3, <3>1, <3>2, ZenonT(30)
    <2> QED BY SMTT(30), <1>11, <1>12, <1>13, <2>1, <2>2, <2>3
  <1>21. Tally'
    <2> SUFFICES ASSUME NEW c \in Node
                 PROVE  (/\ counted[c] \subseteq votes
                         /\ \A x \in counted[c] : x.candidate = c
                         /\ \A x \in counted[c], w \in votes :
                              w.voter = c /\ w.candidate = c => w.term <= x.term
                         /\ vote_delay[c] /\ voted_for_[c] = None =>
                              counted[c] = {}
                         /\ vote_delay[c] \/ (\E w \in votes :
                                                w.voter = c /\ w.candidate = c)
                              => votes_collected_[c] = Cardinality(counted[c]))'
      BY Zenon DEF Tally
    <2>1. /\ counted[c] \subseteq votes
          /\ \A x \in counted[c] : x.candidate = c
          /\ \A x \in counted[c], w \in votes :
               w.voter = c /\ w.candidate = c => w.term <= x.term
          /\ vote_delay[c] /\ voted_for_[c] = None => counted[c] = {}
          /\ vote_delay[c] \/ (\E w \in votes :
                                 w.voter = c /\ w.candidate = c)
               => votes_collected_[c] = Cardinality(counted[c])
      BY Zenon DEF ElectionInv, Tally
    <2>2. \A w \in votes' : w.voter = c /\ w.candidate = c => w \in votes
      BY <1>1, <1>6, <1>8, Zenon
    <2>3. voted_for_'[c] = None => voted_for_[c] = None
      BY <1>1, <1>6, <1>9, NodeAssumption, Zenon
    <2>4. CASE c = n /\ t > cur_term_[n]
      <3>1. counted'[c] = {} /\ votes_collected_'[c] = 0 /\ Cardinality({}) = 0
        BY <1>6, <1>9, <2>4, FS_EmptySet, Zenon
      <3> QED BY <3>1, Zenon
    <2>5. CASE ~(c = n /\ t > cur_term_[n])
      <3>1. counted'[c] = counted[c] /\ votes_collected_'[c] = votes_collected_[c]
        BY <1>6, <1>9, <2>5, Zenon
      <3> QED BY <1>6, <2>1, <2>2, <2>3, <3>1, ZenonT(30)
    <2> QED BY <2>4, <2>5, Zenon
  <1>22. VotesOnce'
    <2>1. VotesOnce
      BY Zenon DEF ElectionInv
    <2> QED BY <1>6, <1>8, <1>14, <2>1 DEF VotesOnce
  <1>23. IsFiniteSet(votes') /\ ElectedByMajority'
    <2>1. IsFiniteSet(votes')
      BY <1>6, FS_AddElement, Zenon DEF ElectionInv
    <2> QED BY <1>6, <2>1, MajorityStays, Zenon DEF ElectionInv
  <1> QED BY SMTT(30), <1>15, <1>16, <1>17, <1>18, <1>19, <1>20, <1>21, <1>22, <1>23
          DEF ElectionInv
==============================================================================
