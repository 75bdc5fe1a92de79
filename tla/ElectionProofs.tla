--------------------------- MODULE ElectionProofs ----------------------------
(***************************************************************************)
(* No term has two winners: proofs for any number of nodes, any number of  *)
(* terms, client requests and lost messages, and any initial value of      *)
(* votes_collected_.                                                       *)
(***************************************************************************)
EXTENDS ElectionTickets

\* The tallied votes come from different voters: as many nodes have voted for
\* n in term t as there are tallied votes.
LEMMA TalliedVoters ==
  ASSUME TypeOK, ElectionInv, NEW n \in Node, NEW t \in Nat,
         NEW C \in SUBSET votes,
         \A x \in C : x.term = t /\ x.candidate = n
  PROVE  /\ Cardinality(C) <= Cardinality({q \in Node :
                [voter |-> q, term |-> t, candidate |-> n] \in votes})
         /\ Cardinality(C) \in Nat
         /\ Cardinality({q \in Node :
                [voter |-> q, term |-> t, candidate |-> n] \in votes}) \in Nat
  <1> DEFINE Q == {q \in Node :
                     [voter |-> q, term |-> t, candidate |-> n] \in votes}
             f == [x \in C |-> x.voter]
  <1>1. IsFiniteSet(Q) /\ IsFiniteSet(C)
    BY NodeAssumption, FS_Subset, Zenon DEF ElectionInv
  <1>2. \A x \in C : x.voter \in Q
    <2> SUFFICES ASSUME NEW x \in C PROVE x.voter \in Q
      BY Zenon
    <2>1. x \in votes /\ x.voter \in Node /\ x = Ticket(x.voter, t, n)
      BY VoteIsTicket, Zenon
    <2> QED BY <2>1, Zenon DEF Ticket
  <1>3. \A x, y \in C : x.voter = y.voter => x = y
    BY Zenon DEF ElectionInv, VotesOnce
  <1>4. f \in Injection(C, Q)
    BY <1>2, <1>3, Zenon DEF Injection, IsInjective
  <1> HIDE DEF Q, f
  <1>5. Cardinality(C) <= Cardinality(Q)
    BY <1>1, <1>4, FS_Injection, Zenon
  <1>6. Cardinality(C) \in Nat /\ Cardinality(Q) \in Nat
    BY <1>1, FS_CardinalityType, Zenon
  <1> QED BY <1>5, <1>6, Zenon DEF Q

\* A counted response turns its ticket into one more tallied vote, and maybe into a win.
LEMMA VoteCountedStep ==
  ASSUME TypeOK, TypeOK', ElectionInv, NEW n \in Node, NEW src \in Peers(n),
         VoteCounted(n, src)
  PROVE  ElectionInv'
  <1> DEFINE rd == <<src, n>>
             resp == net[rd][1]
             t == resp.term
             v == Ticket(src, t, n)
  <1>1. src \in Node /\ src # n /\ n \in Peers(src) /\ rd \in Channel
    BY Zenon DEF Peers, Channel
  <1>2. Msg(src, n, "REQUEST_VOTE_RESPONSE")
    BY Zenon DEF VoteCounted
  <1>3. /\ net[rd] # <<>> /\ 1 \in DOMAIN net[rd] /\ Head(net[rd]) = resp
        /\ net[rd] \in Seq(Message)
        /\ resp.type = "REQUEST_VOTE_RESPONSE" /\ resp \in RequestVoteResponse
    <2>1. /\ net[rd] # <<>> /\ 1 \in DOMAIN net[rd] /\ Head(net[rd]) = resp
          /\ net[rd] \in Seq(Message)
      BY <1>1, <1>2, MsgFacts, Zenon
    <2>2. /\ Head(net[rd]).type = "REQUEST_VOTE_RESPONSE"
          /\ Head(net[rd]) \in RequestVoteResponse
      BY <1>1, <1>2, MsgFacts, Zenon
    <2> HIDE DEF resp
    <2> QED BY <2>1, <2>2, Zenon
  <1>4. /\ state_[n] = "CANDIDATE" /\ resp.granted = TRUE /\ t >= cur_term_[n]
        /\ votes_collected_' = [votes_collected_ EXCEPT ![n] = @ + 1]
        /\ counted' = [counted EXCEPT ![n] = @ \cup {v}]
        /\ \/ /\ HasQuorum(votes_collected_[n] + 1)
              /\ cur_term_' = [cur_term_ EXCEPT ![n] = t]
              /\ elected' = elected \cup {[node |-> n, term |-> t]}
           \/ cur_term_' = cur_term_ /\ elected' = elected
        /\ Reply(src, n, <<>>)
        /\ voted_for_' = voted_for_ /\ vote_delay' = vote_delay
        /\ votes' = votes
    BY <1>3, Zenon DEF VoteCounted, VoteResponseCounts, Ticket, RequestVoteResponse
  <1>5. IsGrant(resp) /\ t \in Nat
    BY <1>3, <1>4, Zenon DEF IsGrant, RequestVoteResponse
  \* The response is about the current term of n, which voted for itself.
  <1>6. v \in votes /\ Ticket(n, t, n) \in votes
    <2>1. v \in votes
      BY <1>1, <1>3, <1>5 DEF ElectionInv, MailIsVoted
    <2> QED BY <2>1, ZenonT(30) DEF ElectionInv, AskedFirst, Ticket
  <1>7. /\ cur_term_ \in [Node -> Nat] /\ counted \in [Node -> SUBSET Vote]
        /\ votes_collected_ \in [Node -> Int]
    BY ZenonT(30) DEF TypeOK
  <1>8. t = cur_term_[n] /\ voted_for_[n] = n
    <2>1. t <= cur_term_[n] /\ (t = cur_term_[n] => voted_for_[n] = n)
      BY <1>6, Zenon DEF ElectionInv, VotesCurrent, Ticket
    <2> HIDE DEF t
    <2>2. cur_term_[n] \in Nat
      BY <1>7, ZenonT(30)
    <2> QED BY <1>4, <1>5, <2>1, <2>2
  <1>9. cur_term_' = cur_term_
    BY <1>4, <1>7, <1>8
  <1>10. v.voter = src /\ v.term = t /\ v.candidate = n
    BY Zenon DEF Ticket
  <1>11. v \notin counted[n]
    BY <1>1, <1>3, <1>5, Zenon DEF ElectionInv, NotYetCounted
  <1>12. NetShrinks
    <2>1. \A i \in DOMAIN <<>> : ~IsRequest(<<>>[i]) /\ ~IsGrant(<<>>[i])
      OBVIOUS
    <2> QED BY <1>2, <1>4, <2>1, EmptySeq, ReplyShrinks, Zenon
  <1>13. \A i \in DOMAIN net'[rd] : /\ i + 1 \in DOMAIN net[rd] /\ i + 1 # 1
                                    /\ net'[rd][i] = net[rd][i + 1]
    <2>1. net'[rd] = Tail(net[rd])
      <3>1. net \in [Channel -> Seq(Message)] /\ rd # <<n, src>>
        BY <1>1, Zenon DEF TypeOK
      <3> QED BY <1>1, <1>4, <3>1, Zenon DEF Reply
    <2>2. \A i \in DOMAIN Tail(net[rd]) : /\ i + 1 \in DOMAIN net[rd]
                                          /\ Tail(net[rd])[i] = net[rd][i + 1]
      BY <1>3, TailFacts, Zenon
    <2>3. DOMAIN net'[rd] = 1..Len(net'[rd]) /\ Len(net'[rd]) \in Nat
      BY <1>1, LenProperties DEF TypeOK
    <2> HIDE DEF rd
    <2> QED BY <2>1, <2>2, <2>3
  <1> HIDE DEF rd, resp, t, v
  <1>14. VotesCurrent' /\ AskedFirst' /\ (IsFiniteSet(votes) /\ VotesOnce)'
    BY <1>4, <1>9, Zenon DEF ElectionInv, VotesCurrent, AskedFirst, VotesOnce
  <1>15. MailIsVoted' /\ OneMail' /\ RequestOrGrant'
    BY <1>4, <1>12, MailKept, MailStaysVoted, Zenon DEF ElectionInv
  <1>16. \A c \in Node : counted'[c] =
           IF c = n THEN counted[c] \cup {v} ELSE counted[c]
    BY <1>4, <1>7, Zenon
  <1>17. NotYetCounted'
    <2> SUFFICES ASSUME NEW a \in Node, NEW b \in Peers(a),
                        NEW i \in DOMAIN net'[<<a, b>>]
                 PROVE  /\ IsRequest(net'[<<a, b>>][i]) =>
                             Ticket(b, net'[<<a, b>>][i].term, a) \notin counted'[a]
                        /\ IsGrant(net'[<<a, b>>][i]) =>
                             Ticket(a, net'[<<a, b>>][i].term, b) \notin counted'[b]
      BY Zenon DEF NotYetCounted, IsRequest, IsGrant, Ticket
    <2>1. <<a, b>> \in Channel /\ b \in Node
      BY Zenon DEF Channel, Peers
    <2>2. IsRequest(net'[<<a, b>>][i]) \/ IsGrant(net'[<<a, b>>][i]) =>
            \E k \in DOMAIN net[<<a, b>>] :
              net'[<<a, b>>][i] = net[<<a, b>>][k]
      BY <1>12, <2>1, Zenon DEF NetShrinks
    <2>3. /\ IsRequest(net'[<<a, b>>][i]) =>
               Ticket(b, net'[<<a, b>>][i].term, a) \notin counted[a]
          /\ IsGrant(net'[<<a, b>>][i]) =>
               Ticket(a, net'[<<a, b>>][i].term, b) \notin counted[b]
      BY <2>2, ZenonT(30) DEF ElectionInv, NotYetCounted
    <2>4. IsRequest(net'[<<a, b>>][i]) =>
            ~(a = n /\ Ticket(b, net'[<<a, b>>][i].term, a) = v)
      <3> SUFFICES ASSUME IsRequest(net'[<<a, b>>][i]), a = n, b = src,
                          net'[<<a, b>>][i].term = t
                   PROVE  FALSE
        BY <1>10 DEF Ticket
      <3> QED BY SMTT(30), <1>1, <1>3, <1>5, <2>2
              DEF ElectionInv, RequestOrGrant, rd, resp, t
    <2>5. IsGrant(net'[<<a, b>>][i]) =>
            ~(b = n /\ Ticket(a, net'[<<a, b>>][i].term, b) = v)
      <3> SUFFICES ASSUME IsGrant(net'[<<a, b>>][i]), <<a, b>> = rd,
                          net'[<<a, b>>][i].term = t
                   PROVE  FALSE
        BY <1>10 DEF Ticket, rd
      <3> QED BY <1>1, <1>3, <1>5, <1>13, ZenonT(30) DEF ElectionInv, OneMail, resp, t
    <2> QED BY <1>16, <2>1, <2>3, <2>4, <2>5, ZenonT(30)
  \* Everything tallied is of the current round.
  <1>18. \A x \in counted'[n] : x \in votes /\ x.term = t /\ x.candidate = n
    <2> SUFFICES ASSUME NEW x \in counted[n]
                 PROVE  x \in votes /\ x.term = t /\ x.candidate = n
      BY ZenonT(30), <1>6, <1>10, <1>16
    <2>1. x \in votes /\ x.candidate = n /\ x.term \in Nat
      BY VoteIsTicket, Zenon DEF ElectionInv, Tally
    <2>2. t <= x.term
      BY <1>6, Zenon DEF ElectionInv, Tally, Ticket
    <2>3. x.term <= cur_term_[n]
      <3>1. Ticket(n, x.term, n) \in votes
        BY <2>1, Zenon DEF ElectionInv, AskedFirst
      <3> QED BY <3>1, Zenon DEF ElectionInv, VotesCurrent, Ticket
    <2> QED BY SMTT(30), <1>5, <1>8, <2>1, <2>2, <2>3
  <1>19. votes_collected_'[n] = votes_collected_[n] + 1
           /\ votes_collected_'[n] = Cardinality(counted'[n])
    <2>1. counted[n] \subseteq votes /\ votes_collected_[n] = Cardinality(counted[n])
      BY <1>6, Zenon DEF ElectionInv, Tally, Ticket
    <2>2. IsFiniteSet(counted[n])
      BY <2>1, FS_Subset, Zenon DEF ElectionInv
    <2>3. Cardinality(counted[n] \cup {v}) = Cardinality(counted[n]) + 1
      BY <1>11, <2>2, FS_AddElement, Zenon
    <2>4. votes_collected_'[n] = votes_collected_[n] + 1
      BY <1>4, <1>7, Zenon
    <2> QED BY <1>16, <2>1, <2>3, <2>4, Zenon
  <1>20. Tally'
    <2> SUFFICES ASSUME NEW c \in Node
                 PROVE  (/\ counted[c] \subseteq votes
                         /\ \A x \in counted[c] : x.candidate = c
                         /\ \A x \in counted[c], w \in votes :
                              w.voter = c /\ w.candidate = c => w.term <= x.term
                         /\ vote_delay[c] /\ voted_for_[c] = None =>
                              counted[c] = {}
                         /\ vote_delay[c] \/ (\E w \in votes :
                                                w.voter = c /\ w.candidate = c)
                              => votes_collected_[c] = Cardinality(counted[c]))'
      BY Zenon DEF Tally
    <2>1. CASE c # n
      <3>1. counted'[c] = counted[c] /\ votes_collected_'[c] = votes_collected_[c]
        BY <1>4, <1>7, <2>1, Zenon
      <3> QED BY <1>4, <3>1, Zenon DEF ElectionInv, Tally
    <2>2. CASE c = n
      <3>1. \A w \in votes : w.voter = n /\ w.candidate = n => w.term <= t
        BY <1>8, Zenon DEF ElectionInv, VotesCurrent
      <3> QED BY SMTT(30), <1>4, <1>8, <1>18, <1>19, <2>2, <3>1, NodeAssumption
    <2> QED BY <2>1, <2>2, Zenon
  <1>21. ElectedByMajority'
    <2>1. CASE elected' = elected
      BY <1>4, <2>1, MajorityStays, Zenon DEF ElectionInv
    <2>2. CASE /\ HasQuorum(votes_collected_[n] + 1)
               /\ elected' = elected \cup {[node |-> n, term |-> t]}
      <3> DEFINE Q == {q \in Node :
                         [voter |-> q, term |-> t, candidate |-> n] \in votes}
      <3>1. counted'[n] \in SUBSET votes
        BY <1>18, Zenon
      <3>2. /\ Cardinality(counted'[n]) <= Cardinality(Q)
            /\ Cardinality(counted'[n]) \in Nat /\ Cardinality(Q) \in Nat
        BY <1>5, <1>18, <3>1, TalliedVoters, Zenon
      <3>3. Cardinality(Node) \in Nat
        BY NodeAssumption, FS_CardinalityType, Zenon
      <3> HIDE DEF Q
      <3>4. 2 * Cardinality(Q) > Cardinality(Node)
        BY <1>19, <2>2, <3>2, <3>3 DEF HasQuorum
      <3>5. \A x \in elected :
              2 * Cardinality({q \in Node :
                    [voter |-> q, term |-> x.term, candidate |-> x.node]
                      \in votes}) > Cardinality(Node)
        BY Zenon DEF ElectionInv, ElectedByMajority
      <3> SUFFICES ASSUME NEW x \in elected'
                   PROVE  2 * Cardinality({q \in Node :
                                [voter |-> q, term |-> x.term,
                                 candidate |-> x.node] \in votes})
                            > Cardinality(Node)
        BY <1>4, Zenon DEF ElectedByMajority
      <3>6. CASE x = [node |-> n, term |-> t]
        <4>1. x.node = n /\ x.term = t
          BY <3>6, Zenon
        <4> QED BY <3>4, <4>1, Zenon DEF Q
      <3> QED BY <2>2, <3>5, <3>6, Zenon
    <2> QED BY <1>4, <2>1, <2>2, Zenon
  <1> QED BY <1>14, <1>15, <1>17, <1>20, <1>21, Zenon DEF ElectionInv
-----------------------------------------------------------------------------
(* The results.                                                            *)

\* The invariant of ElectionInvariant holds in every reachable state: however
\* votes, timers, lost messages and late responses interleave, a tallied
\* response stands for exactly one vote that its voter gave.
THEOREM ElectionInvariance == Spec => []ElectionInv
  <1>1. Init => ElectionInv
    <2> SUFFICES ASSUME Init PROVE ElectionInv
      BY Zenon
    <2>1. /\ votes = {} /\ elected = {} /\ vote_delay = [n \in Node |-> FALSE]
          /\ counted = [n \in Node |-> {}] /\ net = [c \in Channel |-> <<>>]
      BY Zenon DEF Init
    <2>2. VotesCurrent /\ AskedFirst /\ Tally /\ VotesOnce /\ ElectedByMajority
      BY <2>1, Zenon DEF VotesCurrent, AskedFirst, Tally, VotesOnce, ElectedByMajority
    <2>3. \A a \in Node : \A b \in Peers(a) :
            net[<<a, b>>] = <<>> /\ net[<<b, a>>] = <<>>
      BY <2>1, Zenon DEF Channel, Peers
    <2>4. MailIsVoted /\ RequestOrGrant /\ NotYetCounted
      <3>1. \A a \in Node : \A b \in Peers(a) : DOMAIN net[<<a, b>>] = {}
        <4> SUFFICES ASSUME NEW a \in Node, NEW b \in Peers(a)
                     PROVE  DOMAIN net[<<a, b>>] = {}
          BY Zenon
        <4>1. net[<<a, b>>] = <<>>
          BY <2>3, Zenon
        <4> QED BY <4>1
      <3> QED BY <3>1, Zenon DEF MailIsVoted, RequestOrGrant, NotYetCounted
    <2>5. OneMail
      BY <2>1 DEF OneMail
    <2>6. IsFiniteSet(votes)
      BY <2>1, FS_EmptySet, Zenon
    <2> QED BY <2>2, <2>4, <2>5, <2>6, Zenon DEF ElectionInv
  <1>2. TypeOK /\ TypeOK' /\ ElectionInv /\ [Next]_vars => ElectionInv'
    <2> SUFFICES ASSUME TypeOK, TypeOK', ElectionInv, [Next]_vars
                 PROVE  ElectionInv'
      BY Zenon
    <2>1. ASSUME NEW n \in Node, Timer(n) PROVE ElectionInv'
      BY <2>1, TimerQuiet, QuietStep, DelayedVoteRequestStep, ZenonT(30) DEF Timer
    <2>2. ASSUME NEW n \in Node, NEW src \in Peers(n),
                 local_message_handler(n, src)
          PROVE  ElectionInv'
      BY SMTT(30), <2>2, AppendRequestQuiet, AppendResponseQuiet, VoteQuiet, QuietStep,
         VoteGrantedStep, VoteCountedStep
      DEF local_message_handler
    <2>3. ASSUME NEW n \in Node, NEW op \in Operation, ClientRequest(n, op)
          PROVE  ElectionInv'
      BY <2>3, ClientQuiet, QuietStep, Zenon
    <2>4. ASSUME NEW c \in Channel, Lose(c) PROVE ElectionInv'
      BY <2>4, LoseQuiet, QuietStep, Zenon
    <2>5. CASE UNCHANGED vars
      <3>1. UNCHANGED <<net, cur_term_, voted_for_, votes_collected_, vote_delay,
                        votes, counted, elected>>
        BY <2>5, Zenon DEF vars, electionVars, historyVars
      <3>2. cur_term_ \in [Node -> Nat]
        BY ZenonT(30) DEF TypeOK
      <3>3. NetShrinks /\ QuietVotes
        BY <3>1, <3>2, SameShrinks DEF QuietVotes
      <3> QED BY <3>3, QuietStep, Zenon
    <2> QED BY <2>1, <2>2, <2>3, <2>4, <2>5, Zenon DEF Next
  <1> QED BY <1>1, <1>2, TypeCorrect, PTL DEF Spec

\* A node never votes for two candidates in one term (voted_for_ is cleared
\* only where cur_term_ grows).
THEOREM NoDoubleVote == Spec => []VotesOnce
  <1>1. ElectionInv => VotesOnce
    BY Zenon DEF ElectionInv
  <1> QED BY <1>1, ElectionInvariance, PTL

\* Whoever becomes leader of a term was voted for, in that term, by a majority
\* of different nodes, although votes_collected_ is a bare counter.
THEOREM MajorityElects == Spec => []ElectedByMajority
  <1>1. ElectionInv => ElectedByMajority
    BY Zenon DEF ElectionInv
  <1> QED BY <1>1, ElectionInvariance, PTL

\* No term has two winners: two majorities share a node, which voted once.
THEOREM ElectionSafety == Spec => []ElectedOnce
  <1>1. TypeOK /\ ElectionInv => ElectedOnce
    <2> SUFFICES ASSUME TypeOK, ElectionInv,
                        NEW x \in elected, NEW y \in elected, x.term = y.term
                 PROVE  x = y
      BY Zenon DEF ElectedOnce
    <2> DEFINE Voters(z) == {q \in Node : [voter |-> q, term |-> z.term,
                                           candidate |-> z.node] \in votes}
    <2>1. /\ x \in [node : Node, term : Nat] /\ y \in [node : Node, term : Nat]
          /\ Voters(x) \subseteq Node /\ Voters(y) \subseteq Node
          /\ IsFiniteSet(Node)
      BY NodeAssumption, Zenon DEF TypeOK
    <2>2. /\ 2 * Cardinality(Voters(x)) > Cardinality(Node)
          /\ 2 * Cardinality(Voters(y)) > Cardinality(Node)
      BY Zenon DEF ElectionInv, ElectedByMajority
    <2>3. Voters(x) \cap Voters(y) # {}
      <3> HIDE DEF Voters
      <3>1. /\ Cardinality(Voters(x)) \in Nat /\ Cardinality(Voters(y)) \in Nat
            /\ Cardinality(Node) \in Nat
        BY <2>1, FS_Subset, FS_CardinalityType, Zenon
      <3>2. Cardinality(Voters(x)) + Cardinality(Voters(y)) > Cardinality(Node)
        BY <2>2, <3>1
      <3> QED BY <2>1, <3>2, FS_MajoritiesIntersect, Zenon
    <2>4. PICK q \in Node :
            /\ [voter |-> q, term |-> x.term, candidate |-> x.node] \in votes
            /\ [voter |-> q, term |-> y.term, candidate |-> y.node] \in votes
      BY <2>3, Zenon
    <2>5. x.node = y.node
      BY <2>4, Zenon DEF ElectionInv, VotesOnce
    <2> QED BY <2>1, <2>5
  <1> QED BY <1>1, TypeCorrect, ElectionInvariance, PTL
=============================================================================
