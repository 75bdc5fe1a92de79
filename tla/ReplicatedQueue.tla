--------------------------- MODULE ReplicatedQueue ---------------------------
(***************************************************************************)
(* What a partition promises its clients: one history of queue operations, *)
(* agreed on once and for all, which every server applies in order.        *)
(***************************************************************************)
EXTENDS Integers, Sequences

CONSTANT Node

VARIABLES
    history,   \* the agreed operations, [operation, message_id, ...] records
    applied,   \* how much of the history each server has applied
    queue      \* the message ids each server holds, and those consumed

vars == <<history, applied, queue>>

\* The queue after the operations h: a consumption counts once the message is
\* there.
Replay(h) ==
    LET Ids(op, S) == {h[i].message_id : i \in {j \in S : h[j].operation = op}}
    IN [store |-> Ids("ADD", DOMAIN h),
        committed |-> Ids("COMMIT", {j \in DOMAIN h :
                                       h[j].message_id \in Ids("ADD", 1..j)})]

Init ==
    /\ history = <<>>
    /\ applied = [n \in Node |-> 0]
    /\ queue = [n \in Node |-> Replay(<<>>)]

Apply(n, k) ==
    /\ applied' = [applied EXCEPT ![n] = k]
    /\ queue' = [queue EXCEPT ![n] = Replay(SubSeq(history', 1, k))]

\* Some server has the cluster agree on further operations, and applies them.
Agree(n) ==
    /\ Len(history') > Len(history)
    /\ SubSeq(history', 1, Len(history)) = history
    /\ Apply(n, Len(history'))

\* A server catches up with the history.
CatchUp(n) ==
    /\ history' = history
    /\ \E k \in applied[n] + 1..Len(history) : Apply(n, k)

Next == \E n \in Node : Agree(n) \/ CatchUp(n)

Spec == Init /\ [][Next]_vars
=============================================================================
