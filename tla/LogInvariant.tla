----------------------------- MODULE LogInvariant -----------------------------
(***************************************************************************)
(* The inductive invariant behind the shape of the logs.  A request says   *)
(* at which position its entry belongs and the entry repeats it; the term  *)
(* of the entry lies between that of its predecessor and that of the       *)
(* request.  This survives leaders that keep sending after their term is   *)
(* over, and leaders that adopt a later term without stepping down.        *)
(***************************************************************************)
EXTENDS ClusterNode

\* LogWellFormed of one log.
WellFormed(log) == \A i \in DOMAIN log :
    log[i].index = i /\ \A j \in i..Len(log) : log[i].term <= log[j].term

\* No entry of a later term.
Bounded(log, term) == \A i \in DOMAIN log : log[i].term <= term

\* An entry sent fits behind its predecessor.
Fits(m) == m.type = "APPEND_ENTRIES_REQUEST" /\ m.entries # <<>> =>
    /\ m.entries[1].index = m.prev_log_index + 1
    /\ m.prev_log_term <= m.entries[1].term
    /\ m.entries[1].term <= m.term

\* All entries under way fit.
AppendsFit == \A c \in Channel : \A k \in DOMAIN net[c] : Fits(net[c][k])

\* Every log is well formed and not ahead of its node's term, and every entry
\* under way fits where its request puts it (append_log_entries,
\* trigger_entry_update).
LogInv ==
    /\ \A n \in Node : /\ WellFormed(log_entries_[n])
                       /\ Bounded(log_entries_[n], cur_term_[n])
    /\ AppendsFit
=============================================================================
