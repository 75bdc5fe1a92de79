-------------------------------- MODULE Links --------------------------------
(***************************************************************************)
(* The connections of one server: RunServer reads the configuration and    *)
(* starts a ClusterManager, which keeps one outgoing Session to every      *)
(* other server, connects again two seconds after a failure, and writes    *)
(* the messages of the cluster nodes to these sessions; at the other end   *)
(* the Session that accepted the connection reads them.                    *)
(*                                                                         *)
(* Everything on the near side runs on one io_context thread, so a handler *)
(* is one action.  A frame goes through the socket in two pieces, header   *)
(* and body.  async_write is a sequence of partial writes: a frame that    *)
(* was written in part continues when the socket takes more, and nothing   *)
(* stops another write_message from being served in between.  TCP          *)
(* (external) delivers the pieces of one connection in order, and a prefix *)
(* of them when the connection breaks; each side learns of that when it    *)
(* next reads or writes.                                                   *)
(***************************************************************************)
EXTENDS Integers, Sequences, FiniteSets, SequencesExt

CONSTANTS
  Config,       \* the configuration: server_nodes, partitions_ids, current_node
  Starts,       \* the ways to say it: lines of the file and arguments of main
  MaxFrames,    \* bound: messages the cluster nodes write
  MaxBreaks,    \* bound: connections that break
  MaxFailures   \* bound: attempts to connect that fail

(* A message for all sessions (broad_cast), in place of an id. *)
ALL == -1

ServerPoint == [id : Nat, host : STRING, cluster_port : Nat, client_port : Nat]

Nodes == Config.server_nodes
NodeIds == {Nodes[i].id : i \in DOMAIN Nodes}

ASSUME ConfigAssumption ==
  /\ Nodes \in Seq(ServerPoint)
  /\ \A i \in DOMAIN Nodes : Nodes[i].id = i - 1
  /\ Config.current_node \in NodeIds
ASSUME BoundAssumption == {MaxFrames, MaxBreaks, MaxFailures} \subseteq Nat

VARIABLES
  phase,              \* LOADING, RUNNING, or FAILED when load_config throws
  file,               \* the lines that have not been read
  args,               \* the command line's "override current_node", if any
  block,              \* the values of the server being read
  config,             \* what load_config has found
  connects, timers,   \* async_connect calls and retry timers pending, by endpoint
  status_,            \* of every Session made, by endpoint, in order
  outgoing_sessions_, \* which of them is in the map, 0 for none
  socket,             \* the connections of these sessions, both ends
  frames,             \* the endpoint id each message was written for
  got,                \* what the servers' handlers were given
  breaks, failures    \* what the bounds count

configVars == <<phase, file, args, block, config>>
linkVars == <<connects, timers, status_, outgoing_sessions_, socket>>
restVars == <<frames, got, breaks, failures>>
vars == <<configVars, linkVars, restVars>>

-----------------------------------------------------------------------------
(* load_config, one line at a time.  A line has a key and a value, <<>> when
   there is only white space after the '='; a line that is empty, a comment or
   without a '=' has the key "". *)
Uninit == -1
NoBlock == [id |-> <<>>, host |-> <<>>, cluster_port |-> <<>>, client_port |-> <<>>]
ListKeys == {"current_node", "partition_id"}

Complete(b) == \A x \in DOMAIN b : b[x] # <<>>
Point(b) == [x \in DOMAIN b |-> b[x][1]]

SkipLine ==
  /\ phase = "LOADING" /\ file # <<>>
  /\ Head(file).key = ""
  /\ file' = Tail(file)
  /\ UNCHANGED <<phase, args, block, config, linkVars, restVars>>

AfterBlockKept(b) == b
AfterBlock(b) == NoBlock

BlockLine ==
  /\ phase = "LOADING" /\ file # <<>>
  /\ Head(file).key \in DOMAIN NoBlock /\ Head(file).value # <<>>
  /\ LET b == [block EXCEPT ![Head(file).key] = Head(file).value] IN
     IF Complete(b)
     THEN /\ config' = [config EXCEPT !.server_nodes = Append(@, Point(b))]
          /\ block' = AfterBlock(b)
     ELSE block' = b /\ UNCHANGED config
  /\ file' = Tail(file)
  /\ UNCHANGED <<phase, args, linkVars, restVars>>

OtherLine ==
  /\ phase = "LOADING" /\ file # <<>>
  /\ Head(file).key \in ListKeys /\ Head(file).value # <<>>
  /\ config' = IF Head(file).key = "current_node"
               THEN [config EXCEPT !.current_node = Head(file).value[1]]
               ELSE [config EXCEPT !.partitions_ids = @ \o Head(file).value]
  /\ file' = Tail(file)
  /\ UNCHANGED <<phase, args, block, linkVars, restVars>>

(* load_config throws at a key it does not know, strip at a value of white
   space only; main catches both, and ends. *)
LoadThrows ==
  /\ phase = "LOADING" /\ file # <<>>
  /\ Head(file).key # ""
  /\ Head(file).key \notin ListKeys \cup DOMAIN NoBlock \/ Head(file).value = <<>>
  /\ phase' = "FAILED"
  /\ UNCHANGED <<file, args, block, config, linkVars, restVars>>

-----------------------------------------------------------------------------
Others(c) ==
  [i \in {j \in 0..(Len(c.server_nodes) - 1) :
            c.server_nodes[j + 1].id # c.current_node} |->
     <<c.server_nodes[i + 1].host, c.server_nodes[i + 1].cluster_port>>]

Endpoint == DOMAIN Others(Config)

(* The server that listens there: RunServer's this_endpoint, at a server with
   the same list. *)
Listener(e) ==
  CHOOSE n \in NodeIds :
    \E i \in DOMAIN Nodes :
      /\ Nodes[i].id = n
      /\ <<Nodes[i].host, Nodes[i].cluster_port>> = Others(config)[e]

Listed(e) == outgoing_sessions_[e] # 0
Connected(e) == Listed(e) /\ status_[e][outgoing_sessions_[e]] = "CONNECTED"

(* A connection: is it up; is async_read outstanding here; the frames being
   written, with the pieces left of each; the pieces under way; what the far
   end waits for; and, as history, the frames written to it, the frames read,
   and whether the pieces of two frames were mixed. *)
NewSocket ==
  [up |-> TRUE, reading |-> TRUE, writes |-> <<>>, pipe |-> <<>>,
   peer |-> "HEADER", expects |-> 0, wrote |-> <<>>, read |-> <<>>, mixed |-> FALSE]

Init ==
  /\ phase = "LOADING"
  /\ \E s \in Starts : file = s.lines /\ args = s.args
  /\ block = NoBlock
  /\ config = [server_nodes |-> <<>>, partitions_ids |-> <<>>, current_node |-> Uninit]
  /\ connects = [e \in Endpoint |-> 0]
  /\ timers = [e \in Endpoint |-> 0]
  /\ status_ = [e \in Endpoint |-> <<>>]
  /\ outgoing_sessions_ = [e \in Endpoint |-> 0]
  /\ socket = [e \in Endpoint |-> <<>>]
  /\ frames = <<>>
  /\ got = {}
  /\ breaks = 0
  /\ failures = 0

(* RunServer overrides current_node and starts the ClusterManager: start()
   calls connect() for every endpoint. *)
Start ==
  /\ phase = "LOADING" /\ file = <<>>
  /\ phase' = "RUNNING"
  /\ config' = IF args = <<>> THEN config
               ELSE [config EXCEPT !.current_node = args[1]]
  /\ args' = <<>>
  /\ connects' = [e \in Endpoint |-> 1]
  /\ UNCHANGED <<file, block, timers, status_, outgoing_sessions_,
                 socket, restVars>>

(* The new session takes the place of the old one in the map. *)
InMapFirst(old, new) == IF old = 0 THEN new ELSE old
InMap(old, new) == new

ConnectSucceeds(e) ==
  /\ connects[e] > 0
  /\ connects' = [connects EXCEPT ![e] = @ - 1]
  /\ status_' = [status_ EXCEPT ![e] = Append(@, "CONNECTED")]
  /\ socket' = [socket EXCEPT ![e] = Append(@, NewSocket)]
  /\ outgoing_sessions_' = [outgoing_sessions_ EXCEPT
                             ![e] = InMap(@, Len(status_[e]) + 1)]
  /\ UNCHANGED <<configVars, timers, restVars>>

ConnectFailsForGood(e) ==
  /\ connects[e] > 0 /\ failures < MaxFailures
  /\ connects' = [connects EXCEPT ![e] = @ - 1]
  /\ failures' = failures + 1
  /\ UNCHANGED <<configVars, timers, status_, outgoing_sessions_, socket, frames, got,
                 breaks>>
ConnectFails(e) ==
  /\ connects[e] > 0 /\ failures < MaxFailures
  /\ connects' = [connects EXCEPT ![e] = @ - 1]
  /\ timers' = [timers EXCEPT ![e] = @ + 1]
  /\ failures' = failures + 1
  /\ UNCHANGED <<configVars, status_, outgoing_sessions_, socket, frames, got, breaks>>

(* The timer calls connect(), which returns if the session in the map is
   connected. *)
TimerFires(e) ==
  /\ timers[e] > 0
  /\ timers' = [timers EXCEPT ![e] = @ - 1]
  /\ connects' = [connects EXCEPT ![e] = IF Connected(e) THEN @ ELSE @ + 1]
  /\ UNCHANGED <<configVars, status_, outgoing_sessions_, socket, restVars>>

(* write_message and broad_cast, when the posted function runs: the session
   in the map gets the frame, whatever its status. *)
Write(to, f) ==
  /\ phase = "RUNNING" /\ Len(frames) < MaxFrames
  /\ frames' = Append(frames, to)
  /\ socket' = [e \in Endpoint |->
                  IF Listed(e) /\ to \in {e, ALL}
                  THEN [socket[e] EXCEPT
                          ![outgoing_sessions_[e]].writes =
                             Append(@, [frame |-> f, left |-> 2]),
                          ![outgoing_sessions_[e]].wrote = Append(@, f)]
                  ELSE socket[e]]
  /\ UNCHANGED <<configVars, connects, timers, status_, outgoing_sessions_, got,
                 breaks, failures>>

write_message == \E n \in Endpoint : Write(n, Len(frames) + 1)
broad_cast == Write(ALL, Len(frames) + 1)

-----------------------------------------------------------------------------
(* Session, near side.  disconneted() acts on the first call only; the
   manager's handler sets the retry timer. *)
disconneted_again(e, k) ==
  /\ status_' = [status_ EXCEPT ![e][k] = "DISCONNECTED"]
  /\ timers' = [timers EXCEPT ![e] = @ + 1]
disconneted(e, k) ==
  /\ status_' = [status_ EXCEPT ![e][k] = "DISCONNECTED"]
  /\ timers' = [timers EXCEPT
                  ![e] = IF status_[e][k] = "DISCONNECTED" THEN @ ELSE @ + 1]

(* async_read fails; nothing is read again. *)
ReadFails(e, k) ==
  /\ ~socket[e][k].up /\ socket[e][k].reading
  /\ socket' = [socket EXCEPT ![e][k].reading = FALSE]
  /\ disconneted(e, k)
  /\ UNCHANGED <<configVars, connects, outgoing_sessions_, restVars>>

(* What is written to a broken connection is lost, whether async_write fails
   or the socket still takes it. *)
WriteLost(e, k) ==
  /\ ~socket[e][k].up /\ socket[e][k].writes # <<>>
  /\ socket' = [socket EXCEPT ![e][k].writes = Tail(@)]
  /\ UNCHANGED <<configVars, connects, timers, status_, outgoing_sessions_, restVars>>

WriteFails(e, k) ==
  /\ ~socket[e][k].up /\ socket[e][k].writes # <<>>
  /\ socket' = [socket EXCEPT ![e][k].writes = Tail(@)]
  /\ disconneted(e, k)
  /\ UNCHANGED <<configVars, connects, outgoing_sessions_, restVars>>

(* The socket takes n pieces of one of the frames being written: of one that
   was begun, or of the first that was not. *)
Begun(w) == w.left < 2
MayGoOn(writes, i) == Begun(writes[i]) \/ \A j \in 1..(i - 1) : Begun(writes[j])
Pieces(w, n) ==
  [j \in 1..n |-> [frame |-> w.frame, part |-> <<"header", "body">>[2 - w.left + j]]]

WriteSome(e, k) ==
  /\ socket[e][k].up
  /\ \E i \in DOMAIN socket[e][k].writes : \E n \in 1..socket[e][k].writes[i].left :
       LET s == socket[e][k]
           w == s.writes[i]
           others == {j \in DOMAIN s.writes \ {i} : Begun(s.writes[j])} IN
       /\ MayGoOn(s.writes, i)
       /\ socket' = [socket EXCEPT ![e][k] =
            [s EXCEPT !.pipe = @ \o Pieces(w, n),
                      !.writes = IF n = w.left THEN RemoveAt(@, i)
                                 ELSE [@ EXCEPT ![i].left = w.left - n],
                      !.mixed = @ \/ others # {}]]
  /\ UNCHANGED <<configVars, connects, timers, status_, outgoing_sessions_, restVars>>

-----------------------------------------------------------------------------
(* Session, far side: read_header, read_body and the handler, and round again.
   A piece that is not what the reader takes it for leaves it lost in the
   stream: a length read from the wrong bytes. *)
Piece(e, k) == Head(socket[e][k].pipe)

PeerReadsHeader(e, k) ==
  /\ socket[e][k].peer = "HEADER" /\ socket[e][k].pipe # <<>>
  /\ socket' = [socket EXCEPT
       ![e][k].pipe = Tail(@),
       ![e][k].peer = IF Piece(e, k).part = "header" THEN "BODY" ELSE "LOST",
       ![e][k].expects = Piece(e, k).frame]
  /\ UNCHANGED <<configVars, connects, timers, status_, outgoing_sessions_, restVars>>

(* ... read_msg() after the handler. *)
AfterBodyAgain == "BODY"
AfterBody == "HEADER"

PeerReadsBody(e, k) ==
  LET u == Piece(e, k)
      whole == u.part = "body" /\ u.frame = socket[e][k].expects IN
  /\ socket[e][k].peer = "BODY" /\ socket[e][k].pipe # <<>>
  /\ socket' = [socket EXCEPT
       ![e][k].pipe = Tail(@),
       ![e][k].peer = IF whole THEN AfterBody ELSE "LOST",
       ![e][k].read = IF whole THEN Append(@, u.frame) ELSE @]
  /\ got' = IF whole THEN got \cup {<<Listener(e), u.frame>>} ELSE got
  /\ UNCHANGED <<configVars, connects, timers, status_, outgoing_sessions_, frames,
                 breaks, failures>>

(* The far end reads the error and removes its session. *)
PeerDisconnected(e, k) ==
  /\ ~socket[e][k].up /\ socket[e][k].pipe = <<>>
  /\ socket[e][k].peer \in {"HEADER", "BODY"}
  /\ socket' = [socket EXCEPT ![e][k].peer = "GONE"]
  /\ UNCHANGED <<configVars, connects, timers, status_, outgoing_sessions_, restVars>>

(* The connection breaks, and what is under way may be lost from some piece on. *)
Break(e, k) ==
  /\ socket[e][k].up /\ breaks < MaxBreaks
  /\ \E n \in 0..Len(socket[e][k].pipe) :
       socket' = [socket EXCEPT ![e][k].up = FALSE, ![e][k].pipe = SubSeq(@, 1, n)]
  /\ breaks' = breaks + 1
  /\ UNCHANGED <<configVars, connects, timers, status_, outgoing_sessions_, frames, got,
                 failures>>

Loading == SkipLine \/ BlockLine \/ OtherLine \/ LoadThrows \/ Start

Near(e, k) ==
  ReadFails(e, k) \/ WriteFails(e, k) \/ WriteLost(e, k) \/ WriteSome(e, k)
Far(e, k) == PeerReadsHeader(e, k) \/ PeerReadsBody(e, k) \/ PeerDisconnected(e, k)

Next ==
  \/ Loading
  \/ write_message \/ broad_cast
  \/ \E e \in Endpoint : \/ ConnectSucceeds(e) \/ ConnectFails(e) \/ TimerFires(e)
                         \/ \E k \in DOMAIN status_[e] :
                              Near(e, k) \/ Far(e, k) \/ Break(e, k)

Spec == Init /\ [][Next]_vars

(* The io_context runs the handlers that are ready, timers included; an
   attempt to connect ends one way or the other; a socket that is up takes
   what is written, and the far end reads. *)
FairSpec ==
  /\ Spec
  /\ WF_vars(Loading)
  /\ \A e \in Endpoint :
       /\ WF_vars(TimerFires(e))
       /\ WF_vars(ConnectSucceeds(e) \/ ConnectFails(e))
       /\ \A k \in 1..(MaxBreaks + 1) :
            /\ WF_vars(k \in DOMAIN socket[e] /\ ReadFails(e, k))
            /\ WF_vars(k \in DOMAIN socket[e] /\ WriteSome(e, k))
            /\ WF_vars(k \in DOMAIN socket[e] /\ Far(e, k))

-----------------------------------------------------------------------------
(* load_config finds the servers the file describes, in its order, whatever
   the order of the four keys in each block and the lines in between. *)
ConfigAsDescribed == phase = "RUNNING" => config = Config

(* There is always exactly one thing that keeps the link to an endpoint going:
   an attempt to connect, a retry timer, or the connected session.  Read and
   write errors of one session are many, and each calls disconneted(); none of
   them may start a second chain of retries, and none may end the only one. *)
OneChain ==
  phase = "RUNNING" =>
    \A e \in Endpoint :
      connects[e] + timers[e]
        + Cardinality({k \in DOMAIN status_[e] : status_[e][k] = "CONNECTED"}) = 1

(* A session that is connected is the one in the map: no message is written to
   a dead session while another lives. *)
LiveIsListed ==
  \A e \in Endpoint : \A k \in DOMAIN status_[e] :
    status_[e][k] = "CONNECTED" => outgoing_sessions_[e] = k

(* The far end reads the frames of a connection whole and in the order they
   were written, unless one was written while another was under way: that
   async_write calls of write_message do not overlap is all that keeps the
   stream readable. *)
ReadInOrder ==
  \A e \in Endpoint : \A k \in DOMAIN socket[e] :
    LET s == socket[e][k] IN
    ~s.mixed => s.peer # "LOST" /\ IsPrefix(s.read, s.wrote)


(* When connections break and attempts fail only so often, every link is up
   again in the end and stays up, and what was written to a connection that did
   not break has been read, if the writes did not overlap: no retry and no
   reader gives up. *)
EventuallyLinked ==
  <>[](phase = "FAILED" \/
       \A e \in Endpoint :
         /\ Connected(e)
         /\ \A k \in DOMAIN socket[e] :
              LET s == socket[e][k] IN ~s.up \/ s.mixed \/ s.read = s.wrote)
=============================================================================
