-------------------------- MODULE ElectionInvariant --------------------------
(***************************************************************************)
(* The inductive invariant behind "no term has two winners".  What makes   *)
(* it hold in this code: voted_for_ is only cleared together with an       *)
(* increment of cur_term_, a candidate broadcasts at most one request per  *)
(* term, and a request yields at most one granted response.  A request, a  *)
(* granted response and a tallied vote are therefore three stages of one   *)
(* ticket, which exists at most once for a voter, a candidate and a term;  *)
(* that is why a bare counter of responses without a voter id is enough.   *)
(***************************************************************************)
EXTENDS ClusterNode

Ticket(voter, term, candidate) ==
    [voter |-> voter, term |-> term, candidate |-> candidate]

IsRequest(m) == m.type = "REQUEST_VOTE_REQUEST"
IsGrant(m) == m.type = "REQUEST_VOTE_RESPONSE" /\ m.granted = TRUE

\* Votes are not ahead of their voter, whose voted_for_ names the candidate as
\* long as its term is that of the vote.
VotesCurrent == \A v \in votes :
    /\ v.term <= cur_term_[v.voter]
    /\ v.term = cur_term_[v.voter] => voted_for_[v.voter] = v.candidate

\* A candidate has voted for itself before anyone else does.
AskedFirst == \A v \in votes :
    Ticket(v.candidate, v.term, v.candidate) \in votes

\* Requests and granted responses on the way are backed by recorded votes.
MailIsVoted == \A a \in Node : \A b \in Peers(a) :
    \A i \in DOMAIN net[<<a, b>>] :
      /\ IsRequest(net[<<a, b>>][i]) =>
           Ticket(a, net[<<a, b>>][i].term, a) \in votes
      /\ IsGrant(net[<<a, b>>][i]) =>
           Ticket(a, net[<<a, b>>][i].term, b) \in votes

\* No channel carries a ticket twice, ...
OneMail == \A c \in Channel : \A i, j \in DOMAIN net[c] :
    i # j /\ net[c][i].term = net[c][j].term =>
      /\ ~(IsRequest(net[c][i]) /\ IsRequest(net[c][j]))
      /\ ~(IsGrant(net[c][i]) /\ IsGrant(net[c][j]))

\* ... a request that is still on its way has not been granted, ...
RequestOrGrant == \A a \in Node : \A b \in Peers(a) :
    \A i \in DOMAIN net[<<a, b>>], j \in DOMAIN net[<<b, a>>] :
      IsRequest(net[<<a, b>>][i]) /\ IsGrant(net[<<b, a>>][j]) =>
        net[<<a, b>>][i].term # net[<<b, a>>][j].term

\* ... and what is on its way has not been tallied.
NotYetCounted == \A a \in Node : \A b \in Peers(a) :
    \A i \in DOMAIN net[<<a, b>>] :
      /\ IsRequest(net[<<a, b>>][i]) =>
           Ticket(b, net[<<a, b>>][i].term, a) \notin counted[a]
      /\ IsGrant(net[<<a, b>>][i]) =>
           Ticket(a, net[<<a, b>>][i].term, b) \notin counted[b]

\* counted[c] is what votes_collected_ has counted since it was last reset,
\* all of it from the latest round of c.  Before the first round
\* votes_collected_ is uninitialized.
Tally == \A c \in Node :
    /\ counted[c] \subseteq votes
    /\ \A v \in counted[c] : v.candidate = c
    /\ \A v \in counted[c], w \in votes :
         w.voter = c /\ w.candidate = c => w.term <= v.term
    /\ vote_delay[c] /\ voted_for_[c] = None => counted[c] = {}
    /\ vote_delay[c] \/ (\E w \in votes : w.voter = c /\ w.candidate = c)
         => votes_collected_[c] = Cardinality(counted[c])

\* Requests, grants and tallied votes are stages of one ticket per voter, candidate
\* and term, so the bare counter votes_collected_ counts different voters
\* (start_vote_scheduler, the two RequestVote handlers).
ElectionInv ==
    /\ VotesCurrent /\ AskedFirst /\ MailIsVoted
    /\ OneMail /\ RequestOrGrant /\ NotYetCounted /\ Tally
    /\ IsFiniteSet(votes) /\ VotesOnce /\ ElectedByMajority
=============================================================================
