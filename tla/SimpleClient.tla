---------------------------- MODULE SimpleClient ----------------------------
(***************************************************************************)
(* The client library against the servers of a cluster: SimpleClient and   *)
(* GenericClient (simple_client.hpp, generic_client.cpp) open a queue,     *)
(* follow the redirection to the leader and then send and commit; the      *)
(* ClientManager and ClusterNode of each server list the connection,       *)
(* handle the request and answer, round robin.                             *)
(*                                                                         *)
(* A client is a program with two threads: its own, which calls            *)
(* open_queue_sync and then send_message or commit_message, and the one    *)
(* that runs the io_context and handle_message.  A server has the thread   *)
(* of the client manager, which reads, and the thread of the node, which   *)
(* runs the handlers posted to it.  Elections are in outline (ClusterNode  *)
(* has them in full), and so is what is delivered (Delivery).  There is    *)
(* one partition.                                                          *)
(***************************************************************************)
EXTENDS Integers, Sequences, FiniteSets, SequencesExt, FiniteSetsExt

CONSTANTS
  Client, Server,
  None,           \* the leader id -1, whose address is ""
  MaxStarts,      \* bound: calls of start()
  MaxOpens,       \* bound: calls of open_queue_sync
  MaxElections,   \* bound: elections
  MaxRequests,    \* bound: messages the clients send or commit
  MaxDeliveries,  \* bound: messages the servers deliver
  MaxDepartures   \* bound: connections that break, clients that stop or end

ASSUME NoneAssumption == None \notin Server
ASSUME BoundAssumption ==
  {MaxStarts, MaxOpens, MaxElections, MaxRequests, MaxDeliveries,
   MaxDepartures} \subseteq Nat

VARIABLES
  state_, cur_term_, cur_leader_, heartbeats, \* the nodes, and what leaders have sent
  consumer_client_id_array_, deliver_count_,  \* the client managers
  posted,                                     \* handlers posted to the node
  alive,                                      \* the servers that run
  thread,          \* client -> where its own thread is
  endpoints_,      \* client -> the server start() connects to
  open_queue_msg_, \* client -> "OPEN" or "EMPTY"
  session_,        \* client -> which of its connections it writes to
  conn,            \* client -> its connections, in order
  misdelivered,    \* servers that gave an answer to another than the asker
  disturbed,       \* servers whose turns were shifted: a delivery, a departure
  uninformed,      \* clients whose answer named no leader
  missed,          \* clients that were notified before they waited
  dropped,         \* servers that dropped a request, not being leader
  redirects,       \* client -> redirections of the call under way
  count            \* what the bounds count

nodeVars == <<state_, cur_term_, cur_leader_, heartbeats>>
managerVars == <<consumer_client_id_array_, deliver_count_>>
clientVars == <<thread, endpoints_, open_queue_msg_, session_>>
historyVars == <<misdelivered, disturbed, uninformed, missed, dropped, redirects>>
vars == <<nodeVars, managerVars, posted, alive, clientVars, conn, historyVars, count>>

(* A connection as both ends see it: is it up; is its session in
   client_sessions_ of the server; and what is under way. *)
NewConnection(s) ==
  [server |-> s, up |-> TRUE, known |-> TRUE, out |-> <<>>, in |-> <<>>]

Init ==
  /\ state_ = [s \in Server |-> "FOLLOWER"]
  /\ cur_term_ = [s \in Server |-> 0]
  /\ cur_leader_ = [s \in Server |-> None]
  /\ heartbeats = {}
  /\ consumer_client_id_array_ = [s \in Server |-> <<>>]
  /\ deliver_count_ = [s \in Server |-> 0]
  /\ posted = [s \in Server |-> <<>>]
  /\ alive = Server
  /\ thread = [c \in Client |-> "STOPPED"]
  /\ endpoints_ \in [Client -> Server]
  /\ open_queue_msg_ = [c \in Client |-> "EMPTY"]
  /\ session_ = [c \in Client |-> 0]
  /\ conn = [c \in Client |-> <<>>]
  /\ misdelivered = {} /\ disturbed = {}
  /\ uninformed = {} /\ missed = {} /\ dropped = {}
  /\ redirects = [c \in Client |-> 0]
  /\ count = [elections |-> 0, starts |-> 0, opens |-> 0, requests |-> 0,
              deliveries |-> 0, departures |-> 0]

-----------------------------------------------------------------------------
(* The nodes. *)

(* s wins an election; the servers V got its vote request and took over its
   term, a leader among them too, which stays leader. *)
Elected(s, V) ==
  LET term == cur_term_[s] + 1 IN
  /\ s \in alive /\ state_[s] # "LEADER" /\ count.elections < MaxElections
  /\ cur_term_' = [t \in Server |->
                     IF t = s THEN term
                     ELSE IF t \in V THEN Max({cur_term_[t], term}) ELSE cur_term_[t]]
  /\ state_' = [state_ EXCEPT ![s] = "LEADER"]
  /\ count' = [count EXCEPT !.elections = @ + 1]
  /\ heartbeats' = heartbeats \cup
       {<<t, cur_term_'[t]>> : t \in {u \in Server : state_'[u] = "LEADER"}}
  /\ UNCHANGED <<cur_leader_, managerVars, posted, alive, clientVars, conn,
                 historyVars>>

Expired(term, cur_term) == term < cur_term

Heartbeat(t) ==
  /\ t \in alive
  /\ \E h \in heartbeats :
       /\ h[1] # t
       /\ IF Expired(h[2], cur_term_[t])
          THEN /\ cur_leader_' = [cur_leader_ EXCEPT ![t] = None]
               /\ UNCHANGED <<state_, cur_term_>>
          ELSE /\ state_' = [state_ EXCEPT
                    ![t] = IF @ = "LEADER" /\ h[2] = cur_term_[t] THEN @
                           ELSE "FOLLOWER"]
               /\ cur_term_' = [cur_term_ EXCEPT ![t] = h[2]]
               /\ cur_leader_' = [cur_leader_ EXCEPT ![t] = h[1]]
  /\ UNCHANGED <<heartbeats, managerVars, posted, alive, clientVars, conn, historyVars,
                 count>>

(* APPEND_ENTRIES_RESPONSE: t is answered by u, to whom its heartbeat was of an
   older term; it takes over the term, and goes on as leader if it is one.
   (The answer names the term u has, or had when the answer is late.) *)
AppendFailedTerm(t, u) ==
  \E h \in heartbeats : \E term \in h[2] + 1..cur_term_[u] :
    /\ t \in alive /\ h[1] = t /\ term > cur_term_[t]
    /\ cur_term_' = [cur_term_ EXCEPT ![t] = term]
    /\ heartbeats' = heartbeats \cup {x \in {<<t, term>>} : state_[t] = "LEADER"}
    /\ UNCHANGED <<state_, cur_leader_, managerVars, posted, alive, clientVars, conn,
                   historyVars, count>>

-----------------------------------------------------------------------------
(* The thread of the client manager. *)

(* A server that throws, or writes through a null pointer, takes its
   connections with it. *)
Dies(s) ==
  /\ alive' = alive \ {s}
  /\ conn' = [c \in Client |-> [k \in DOMAIN conn[c] |->
                IF conn[c][k].server = s THEN [conn[c][k] EXCEPT !.up = FALSE]
                ELSE conn[c][k]]]

(* ClientManager::handle_message: an open request lists the connection; it and
   the others go to the node; anything else is thrown out. *)
ServerReads(c, k) ==
  LET s == conn[c][k].server
      m == Head(conn[c][k].out) IN
  /\ s \in alive /\ conn[c][k].known /\ conn[c][k].out # <<>>
  /\ IF m = "EMPTY"
     THEN Dies(s) /\ UNCHANGED <<consumer_client_id_array_, posted>>
     ELSE /\ conn' = [conn EXCEPT ![c][k].out = Tail(@)]
          /\ posted' = [posted EXCEPT ![s] = Append(@, [type |-> m, from |-> <<c, k>>])]
          /\ consumer_client_id_array_' =
               IF m = "OPEN"
               THEN [consumer_client_id_array_ EXCEPT ![s] = Append(@, <<c, k>>)]
               ELSE consumer_client_id_array_
          /\ UNCHANGED alive
  /\ UNCHANGED <<nodeVars, deliver_count_, clientVars, historyVars, count>>

(* The disconnect handler: the session and one place in the array go, and what
   was not read is lost.  (What it posts to the node is in module Delivery.) *)
ServerDisconnected(c, k) ==
  LET s == conn[c][k].server IN
  /\ s \in alive /\ conn[c][k].known /\ ~conn[c][k].up
  /\ conn' = [conn EXCEPT ![c][k].known = FALSE, ![c][k].out = <<>>]
  /\ consumer_client_id_array_' =
       [consumer_client_id_array_ EXCEPT ![s] = RemoveFirst(@, <<c, k>>)]
  /\ disturbed' = disturbed \cup {s}
  /\ UNCHANGED <<nodeVars, deliver_count_, posted, alive, clientVars, misdelivered,
                 uninformed, missed, dropped, redirects, count>>

-----------------------------------------------------------------------------
(* The thread of the node. *)

(* deliver_one_message_round_robin: the connection whose turn it is. *)
TurnAfter(s) ==
  consumer_client_id_array_[s]
    [((deliver_count_[s] + 1) % Len(consumer_client_id_array_[s])) + 1]
Turn(s) ==
  consumer_client_id_array_[s]
    [(deliver_count_[s] % Len(consumer_client_id_array_[s])) + 1]

Session(x) == conn[x[1]][x[2]]

(* Session::write_message; what is written to a connection that is down is
   lost. *)
Written(x, m) ==
  conn' = [conn EXCEPT ![x[1]][x[2]].in = IF Session(x).up THEN Append(@, m) ELSE @]

Answer(s) ==
  IF state_[s] = "LEADER" THEN [type |-> "SUCCESS", leader |-> None]
  ELSE [type |-> "ERROR", leader |-> cur_leader_[s]]

(* CLIENT_OPEN_QUEUE: the answer goes to the connection whose turn it is. *)
HandleOpen(s) ==
  /\ s \in alive /\ posted[s] # <<>> /\ Head(posted[s]).type = "OPEN"
  /\ posted' = [posted EXCEPT ![s] = Tail(@)]
  /\ \/ /\ consumer_client_id_array_[s] = <<>>
        /\ UNCHANGED <<deliver_count_, conn, alive, misdelivered>>
     \/ /\ consumer_client_id_array_[s] # <<>> /\ Session(Turn(s)).known
        /\ Written(Turn(s), Answer(s))
        /\ deliver_count_' = [deliver_count_ EXCEPT ![s] = @ + 1]
        /\ misdelivered' = IF Turn(s) = Head(posted[s]).from THEN misdelivered
                           ELSE misdelivered \cup {s}
        /\ UNCHANGED alive
     \/ /\ consumer_client_id_array_[s] # <<>> /\ ~Session(Turn(s)).known
        /\ Dies(s)
        /\ UNCHANGED <<deliver_count_, misdelivered>>
  /\ UNCHANGED <<nodeVars, consumer_client_id_array_, clientVars, disturbed, uninformed,
                 missed, dropped, redirects, count>>

(* CLIENT_PUT_MESSAGE and CLIENT_COMMIT_MESSAGE: only a leader takes them. *)
HandleRequest(s) ==
  /\ s \in alive /\ posted[s] # <<>> /\ Head(posted[s]).type = "REQUEST"
  /\ posted' = [posted EXCEPT ![s] = Tail(@)]
  /\ dropped' = IF state_[s] = "LEADER" THEN dropped ELSE dropped \cup {s}
  /\ UNCHANGED <<nodeVars, managerVars, alive, clientVars, conn, misdelivered,
                 disturbed, uninformed, missed, redirects, count>>

(* trigger_message_delivery: a leader sends a message to the next consumer. *)
Deliver(s) ==
  /\ s \in alive /\ state_[s] = "LEADER" /\ count.deliveries < MaxDeliveries
  /\ consumer_client_id_array_[s] # <<>>
  /\ IF Session(Turn(s)).known
     THEN /\ Written(Turn(s), [type |-> "SEND", leader |-> None])
          /\ deliver_count_' = [deliver_count_ EXCEPT ![s] = @ + 1]
          /\ UNCHANGED alive
     ELSE Dies(s) /\ UNCHANGED deliver_count_
  /\ disturbed' = disturbed \cup {s}
  /\ count' = [count EXCEPT !.deliveries = @ + 1]
  /\ UNCHANGED <<nodeVars, consumer_client_id_array_, posted, clientVars, misdelivered,
                 uninformed, missed, dropped, redirects>>

-----------------------------------------------------------------------------
(* The client's own thread. *)

(* GenericClient::connect: the new session takes the place of the old one,
   which stays connected and goes on reading. *)
CurrentKept(k, new) == IF k = 0 THEN new ELSE k
Current(k, new) == new

ConnectedOnly(c, s, connections, m) ==
  /\ conn' = [connections EXCEPT ![c] = Append(@, NewConnection(s))]
  /\ session_' = [session_ EXCEPT ![c] = Current(@, Len(conn[c]) + 1)]
Connected(c, s, connections, m) ==
  /\ conn' = [connections EXCEPT ![c] = Append(@, [NewConnection(s) EXCEPT !.out = m])]
  /\ session_' = [session_ EXCEPT ![c] = Current(@, Len(conn[c]) + 1)]

(* SimpleClient::start; a server that is not there throws. *)
start(c) ==
  /\ thread[c] = "STOPPED" /\ count.starts < MaxStarts
  /\ count' = [count EXCEPT !.starts = @ + 1]
  /\ IF endpoints_[c] \in alive
     THEN /\ Connected(c, endpoints_[c], conn, <<>>)
          /\ thread' = [thread EXCEPT ![c] = "READY"]
     ELSE thread' = [thread EXCEPT ![c] = "FAILED"] /\ UNCHANGED <<conn, session_>>
  /\ UNCHANGED <<nodeVars, managerVars, posted, alive, endpoints_, open_queue_msg_,
                 historyVars>>

WrittenBy(c, m) ==
  conn' = [conn EXCEPT ![c][session_[c]].out = IF Session(<<c, session_[c]>>).up
                                               THEN Append(@, m) ELSE @]

(* open_queue_sync, up to condition_.wait ... *)
open_queue_sync(c) ==
  /\ thread[c] \in {"READY", "OPENED"} /\ count.opens < MaxOpens
  /\ open_queue_msg_' = [open_queue_msg_ EXCEPT ![c] = "OPEN"]
  /\ WrittenBy(c, "OPEN")
  /\ thread' = [thread EXCEPT ![c] = "WRITTEN"]
  /\ redirects' = [redirects EXCEPT ![c] = 0]
  /\ count' = [count EXCEPT !.opens = @ + 1]
  /\ UNCHANGED <<nodeVars, managerVars, posted, alive, endpoints_, session_,
                 misdelivered, disturbed, uninformed, missed, dropped>>

(* ... and the wait, which has no predicate. *)
wait(c) ==
  /\ thread[c] = "WRITTEN"
  /\ thread' = [thread EXCEPT ![c] = "WAITING"]
  /\ UNCHANGED <<nodeVars, managerVars, posted, alive, endpoints_, open_queue_msg_,
                 session_, conn, historyVars, count>>

(* send_message or commit_message. *)
send_message(c) ==
  /\ thread[c] = "OPENED" /\ count.requests < MaxRequests
  /\ WrittenBy(c, "REQUEST")
  /\ count' = [count EXCEPT !.requests = @ + 1]
  /\ UNCHANGED <<nodeVars, managerVars, posted, alive, clientVars, historyVars>>

(* stop() closes the session, and only that. *)
stop(c) ==
  /\ thread[c] = "OPENED" /\ count.departures < MaxDepartures
  /\ thread' = [thread EXCEPT ![c] = "STOPPED"]
  /\ conn' = [conn EXCEPT ![c][session_[c]].up = FALSE]
  /\ count' = [count EXCEPT !.departures = @ + 1]
  /\ UNCHANGED <<nodeVars, managerVars, posted, alive, endpoints_, open_queue_msg_,
                 session_, historyVars>>

(* The program ends, with all its connections. *)
Exit(c) ==
  /\ conn[c] # <<>> /\ thread[c] \in {"OPENED", "FAILED"}
  /\ count.departures < MaxDepartures
  /\ thread' = [thread EXCEPT ![c] = "EXITED"]
  /\ conn' = [conn EXCEPT ![c] = [k \in DOMAIN @ |-> [@[k] EXCEPT !.up = FALSE]]]
  /\ count' = [count EXCEPT !.departures = @ + 1]
  /\ UNCHANGED <<nodeVars, managerVars, posted, alive, endpoints_, open_queue_msg_,
                 session_, historyVars>>

-----------------------------------------------------------------------------
(* The io_context thread of the client: handle_message. *)

RewrittenCleared(c) == "EMPTY"
Rewritten(c) == open_queue_msg_[c]

Received(c, k) == Head(conn[c][k].in)
MayReceive(c, k) == thread[c] \notin {"FAILED", "EXITED"} /\ conn[c][k].in # <<>>
Rest(c, k) == [conn EXCEPT ![c][k].in = Tail(@)]

(* ERROR without an address: the call goes on waiting. *)
NoLeader(c, k) ==
  /\ MayReceive(c, k) /\ Received(c, k).type = "ERROR" /\ Received(c, k).leader = None
  /\ conn' = Rest(c, k)
  /\ uninformed' = uninformed \cup {c}
  /\ UNCHANGED <<nodeVars, managerVars, posted, alive, clientVars, misdelivered,
                 disturbed, missed, dropped, redirects, count>>

(* ERROR: reset_endpoint, start, and the open request once more. *)
Redirected(c, k) ==
  LET s == Received(c, k).leader IN
  /\ MayReceive(c, k) /\ Received(c, k).type = "ERROR" /\ s # None
  /\ endpoints_' = [endpoints_ EXCEPT ![c] = s]
  /\ IF s \in alive
     THEN Connected(c, s, Rest(c, k), <<Rewritten(c)>>) /\ UNCHANGED thread
     ELSE /\ conn' = Rest(c, k)
          /\ thread' = [thread EXCEPT ![c] = "FAILED"]
          /\ UNCHANGED session_
  /\ redirects' = [redirects EXCEPT ![c] = @ + 1]
  /\ UNCHANGED <<nodeVars, managerVars, posted, alive, open_queue_msg_, misdelivered,
                 disturbed, uninformed, missed, dropped, count>>

(* SUCCESS: notify_all wakes the caller if it waits. *)
Opened(c, k) ==
  /\ MayReceive(c, k) /\ Received(c, k).type = "SUCCESS"
  /\ conn' = Rest(c, k)
  /\ open_queue_msg_' = [open_queue_msg_ EXCEPT ![c] = "EMPTY"]
  /\ thread' = [thread EXCEPT ![c] = IF @ = "WAITING" THEN "OPENED" ELSE @]
  /\ missed' = IF thread[c] = "WRITTEN" THEN missed \cup {c} ELSE missed
  /\ UNCHANGED <<nodeVars, managerVars, posted, alive, endpoints_, session_,
                 misdelivered, disturbed, uninformed, dropped, redirects, count>>

(* SERVER_SEND_MESSAGE: the user's handler. *)
Message(c, k) ==
  /\ MayReceive(c, k) /\ Received(c, k).type = "SEND"
  /\ conn' = Rest(c, k)
  /\ UNCHANGED <<nodeVars, managerVars, posted, alive, clientVars, historyVars, count>>

handle_message(c, k) ==
  NoLeader(c, k) \/ Redirected(c, k) \/ Opened(c, k) \/ Message(c, k)

(* A connection breaks; what is under way may still be read, or not. *)
Break(c, k) ==
  /\ conn[c][k].up /\ count.departures < MaxDepartures
  /\ conn' = [conn EXCEPT ![c][k].up = FALSE]
  /\ count' = [count EXCEPT !.departures = @ + 1]
  /\ UNCHANGED <<nodeVars, managerVars, posted, alive, clientVars, historyVars>>

-----------------------------------------------------------------------------
Next ==
  \/ \E s \in Server : \/ \E V \in SUBSET (Server \ {s}) : Elected(s, V)
                       \/ Heartbeat(s)
                       \/ \E t \in Server \ {s} : AppendFailedTerm(s, t)
                       \/ HandleOpen(s) \/ HandleRequest(s) \/ Deliver(s)
  \/ \E c \in Client : \/ start(c) \/ open_queue_sync(c) \/ wait(c)
                       \/ send_message(c) \/ stop(c) \/ Exit(c)
                       \/ \E k \in DOMAIN conn[c] :
                            \/ ServerReads(c, k) \/ ServerDisconnected(c, k)
                            \/ handle_message(c, k) \/ Break(c, k)

Spec == Init /\ [][Next]_vars

-----------------------------------------------------------------------------
(* The answer to an open request carries no name, and goes to the connection
   whose turn it is (the TODO in local_message_handler).  It reaches the one
   that asked as long as the server has delivered no message and lost no
   consumer: the turns then follow the order of the requests. *)
AnswersToAsker == misdelivered \subseteq disturbed

(* handle_message writes open_queue_msg_ again at every redirection; a server
   throws on the empty one.  It is only ever empty in a client that was given
   the answer of another. *)
EmptyOnlyIfMisled ==
  \A c \in Client : \A k \in DOMAIN conn[c] :
    "EMPTY" \in ToSet(conn[c][k].out) => misdelivered # {}


(* What a client sends after open_queue_sync has returned goes to the server
   that accepted it: a request is dropped only by a server that was the
   leader, and has stepped down. *)
RequestsReachLeader ==
  misdelivered = {} => dropped \subseteq {h[1] : h \in heartbeats}

(* A caller inside open_queue_sync has exactly one request or answer under way,
   so with RedirectsEnd it returns once the threads have run; unless no leader
   was known where it asked, the answer was given to another or came before
   the wait, or a connection or server went down: in each of these cases
   nothing wakes it. *)
UnderWay(c, k) ==
  LET x == conn[c][k] IN
  Len(SelectSeq(x.out, LAMBDA m : m = "OPEN"))
    + Len(SelectSeq(x.in, LAMBDA m : m.type # "SEND"))
    + Len(SelectSeq(posted[x.server],
                    LAMBDA h : h.type = "OPEN" /\ h.from = <<c, k>>))
Excused(c) ==
  \/ misdelivered # {}
  \/ c \in uninformed \cup missed
  \/ \E k \in DOMAIN conn[c] : ~conn[c][k].up
OneUnderWay ==
  \A c \in Client :
    thread[c] \in {"WRITTEN", "WAITING"} /\ ~Excused(c) =>
      MapThenSumSet(LAMBDA k : UnderWay(c, k), DOMAIN conn[c]) = 1
=============================================================================
