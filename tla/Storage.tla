------------------------------- MODULE Storage -------------------------------
(***************************************************************************)
(* Persistence and recovery of one cluster node: class ClusterNodeStorage  *)
(* (cluster_node_storage.cpp) with its writer thread, the two files behind *)
(* it (log_entry_storage.cpp), and the part of ClusterNode that hands      *)
(* committed entries over and loads them again when the process starts.    *)
(*                                                                         *)
(* The node's thread and the writer thread meet in mutex_.  Every handler  *)
(* that commits takes the mutex only to fill the buffers, so it is one     *)
(* step that is taken while the writer is outside its critical section; a  *)
(* round of the writer is three steps, one per change of a file, and the   *)
(* process may end between any two of them or in the middle of an append.  *)
(*                                                                         *)
(* A file of log entries is the sequence of its records; a record that was *)
(* only written in part is [torn |-> the entry].  The sentinel at position *)
(* 0 of log_entries_ is left out, as in ClusterNode.                       *)
(***************************************************************************)
EXTENDS MessageQueue, Integers, Sequences, FiniteSets, SequencesExt

CONSTANTS
    UninitMetadata,  \* the values an unassigned metadata_buffer_ may hold
    Empty,           \* the content of a metadata file without a number
    MaxEntries,      \* bound: entries created
    MaxStops,        \* bound: ends of the process, wanted or not
    MaxTears         \* bound: those that happen in the middle of an append

ASSUME UninitAssumption == UninitMetadata \subseteq Nat
ASSUME BoundAssumption == {MaxEntries, MaxStops, MaxTears} \subseteq Nat
ASSUME FileAssumption == Empty \notin Nat

VARIABLES
    log_file, metadata_file,       \* what is on disk
    phase,                         \* DOWN, STARTING, LOADED, RUNNING, STOPPING
    named,                         \* how many of the two file names are set
    writer,                        \* where the writer thread is
    log_entry_buffers_, metadata_buffer_,
    log_entries_, commit_index_, message_queue_,   \* of the cluster node
    created, stops, tears,         \* what the bounds count
    assigned,                      \* history: metadata_buffer_ was assigned,
    assigned_file,                 \* and so was what metadata_file came from
    durable,                       \* history: entries committed when a round ended
    damage                         \* history: what has gone wrong, see Commit

diskVars == <<log_file, metadata_file, assigned_file>>
bufferVars == <<log_entry_buffers_, metadata_buffer_, assigned>>
nodeVars == <<log_entries_, commit_index_, message_queue_>>
boundVars == <<created, stops, tears>>
historyVars == <<durable, damage>>
vars == <<diskVars, phase, named, writer, bufferVars, nodeVars, boundVars,
          historyVars>>

Entry == [index : Nat, operation : {"ADD", "COMMIT"}, message_id : Nat]

Init ==
    /\ log_file = <<>> /\ metadata_file = Empty /\ assigned_file = TRUE
    /\ phase = "DOWN" /\ named = 0 /\ writer = "SLEEP"
    /\ log_entry_buffers_ = <<>> /\ metadata_buffer_ = 0 /\ assigned = FALSE
    /\ log_entries_ = <<>> /\ commit_index_ = 0 /\ message_queue_ = EmptyQueue
    /\ created = 0 /\ stops = 0 /\ tears = 0
    /\ durable = {} /\ damage = {}
-----------------------------------------------------------------------------
(* The node's thread.                                                      *)

\* The constructor of ClusterNodeStorage starts the writer before it assigns
\* the two file names.
Start ==
    /\ phase = "DOWN" /\ stops <= MaxStops
    /\ phase' = "STARTING"
    /\ metadata_buffer_' \in UninitMetadata
    /\ UNCHANGED <<diskVars, named, writer, log_entry_buffers_, assigned, nodeVars,
                   boundVars, historyVars>>

SetFileName ==
    /\ phase = "STARTING" /\ named < 2
    /\ named' = named + 1
    /\ UNCHANGED <<diskVars, phase, writer, bufferVars, nodeVars, boundVars,
                   historyVars>>

commit_log_entry(q, e) ==
    IF e.operation = "ADD" THEN insert_message(q, e.message_id)
                           ELSE commit_message(q, e.message_id)

Apply(q, entries) == FoldLeft(commit_log_entry, q, entries)

\* What a record that was cut short parses to.  The file ends inside it, or what
\* was appended behind it is read as its rest: the buffer is reused, so behind
\* the fields that are there come those of the entry before or, when the parser
\* stops, none; its result is not looked at.
Zero == [index |-> 0, message_id |-> 0, operation |-> "ADD"]
Junk(e, before) ==
    {[x \in DOMAIN Zero |-> IF x \in fields THEN e[x] ELSE rest[x]] :
       fields \in {{}, {"index"}, {"index", "message_id"}, DOMAIN Zero},
       rest \in {before, Zero}}

IsTorn(r) == "torn" \in DOMAIN r

\* What load_log_entry_from_file may make of a file.  A torn record is pushed
\* as some entry, or as none when it ends in its size, and swallows the start
\* of what was appended behind it; reading may fall into step again later.
load_log_entry_from_file(file) ==
    LET at == SelectInSeq(file, IsTorn)
        before == SubSeq(file, 1, at - 1)
        junk == Junk(file[at].torn, IF before = <<>> THEN Zero ELSE Last(before))
        rest == {SubSeq(file, k, Len(file)) : k \in at + 1..Len(file) + 1}
        Intact(s) == \A i \in DOMAIN s : ~IsTorn(s[i])
    IN IF at = 0 THEN {file}
       ELSE {before \o j \o s : j \in {<<>>} \cup {<<e>> : e \in junk},
                                s \in {t \in rest : Intact(t)}}

\* Every entry that was loaded is applied, whatever the commit index will be.
LoadEntries ==
    /\ phase = "STARTING" /\ named = 2
    /\ phase' = "LOADED"
    /\ log_entries_' \in load_log_entry_from_file(log_file)
    /\ message_queue_' = Apply(EmptyQueue, log_entries_')
    /\ UNCHANGED <<diskVars, named, writer, bufferVars, commit_index_, boundVars,
                   historyVars>>

\* A file without a number leaves the 0 that metadata was constructed with.
LoadMetadata ==
    /\ phase = "LOADED"
    /\ phase' = "RUNNING"
    /\ commit_index_' = IF metadata_file = Empty THEN 0 ELSE metadata_file
    /\ damage' = IF assigned_file \/ commit_index_' = 0 THEN damage
                 ELSE damage \cup {"UNSET"}
    /\ UNCHANGED <<diskVars, named, writer, bufferVars, log_entries_,
                   message_queue_, boundVars, durable>>

\* An entry reaches the log, as in ClientRequest and AppendAccepted of module
\* ClusterNode: its index is log_entries_.size().  A client commits a message
\* that it was sent.
AppendEntry ==
    /\ phase = "RUNNING" /\ created < MaxEntries
    /\ created' = created + 1
    /\ \E e \in [index : {Len(log_entries_) + 1}, operation : {"ADD"},
                 message_id : {created + 1}]
          \cup [index : {Len(log_entries_) + 1}, operation : {"COMMIT"},
                message_id : message_queue_.undelivered_messages_] :
         log_entries_' = Append(log_entries_, e)
    /\ UNCHANGED <<diskVars, phase, named, writer, bufferVars, commit_index_,
                   message_queue_, stops, tears, historyVars>>

\* (Changed: the entries replace those that still wait for the writer.)
BufferedOver(buffer, entries) == entries

Buffered(buffer, entries) == buffer \o entries

\* (Changed: the position that follows is saved.)
SavedIndexNext(last) == last + 1

\* The metadata a caller builds.
SavedIndex(last) == last

\* The writer holds the mutex from the first file it opens to the end of a round.
Unlocked == writer \notin {"APPENDED", "TRUNCATED"}

\* The commit index moves to last, on a follower or on the leader: the entries
\* after the old one are applied, and of these the last one goes to the storage.
\* History: an entry may be skipped by the storage, or repeated.
Commit(last) ==
    LET old == commit_index_
        kept == Range(log_file) \cup Range(log_entry_buffers_)
    IN
    /\ phase = "RUNNING" /\ Unlocked
    /\ old < last /\ last <= Len(log_entries_)
    /\ message_queue_' = Apply(message_queue_, SubSeq(log_entries_, old + 1, last))
    /\ commit_index_' = last
    /\ log_entry_buffers_' = Buffered(log_entry_buffers_, <<log_entries_[last]>>)
    /\ metadata_buffer_' = SavedIndex(last)
    /\ assigned' = TRUE
    /\ damage' = damage
         \cup {d \in {"SKIPPED"} : \E i \in old + 1..last - 1 :
                                     log_entries_[i] \notin kept}
         \cup {d \in {"REPEATED"} : log_entries_[last] \in kept}
    /\ UNCHANGED <<diskVars, phase, named, writer, log_entries_, boundVars, durable>>
-----------------------------------------------------------------------------
(* The writer thread: one round of consume_and_store_messages, every 100   *)
(* milliseconds, under the mutex.                                          *)

Up == phase # "DOWN"

append_log_entry_to_file(file, entries) == file \o entries

\* (Changed: a file that cannot be opened ends the thread.)
WriterAppendGivesUp ==
    /\ Up /\ writer = "SLEEP" /\ phase # "STOPPING"
    /\ writer' = IF named >= 1 THEN "APPENDED" ELSE "ENDED"
    /\ log_file' = append_log_entry_to_file(log_file, log_entry_buffers_)
    /\ UNCHANGED <<metadata_file, assigned_file, phase, named, bufferVars,
                   nodeVars, boundVars, historyVars>>

\* A file whose name is still empty cannot be opened.
WriterAppend ==
    /\ Up /\ writer = "SLEEP" /\ phase # "STOPPING"
    /\ writer' = "APPENDED"
    /\ log_file' = IF named >= 1
                   THEN append_log_entry_to_file(log_file, log_entry_buffers_)
                   ELSE log_file
    /\ UNCHANGED <<metadata_file, assigned_file, phase, named, bufferVars,
                   nodeVars, boundVars, historyVars>>

\* Opening the metadata file truncates it; when it cannot be opened the round
\* is over.
WriterTruncate ==
    /\ Up /\ writer = "APPENDED"
    /\ IF named = 2
       THEN /\ metadata_file' = Empty /\ assigned_file' = assigned
            /\ writer' = "TRUNCATED"
            /\ UNCHANGED log_entry_buffers_
       ELSE /\ log_entry_buffers_' = <<>>
            /\ writer' = "SLEEP"
            /\ UNCHANGED <<metadata_file, assigned_file>>
    /\ UNCHANGED <<log_file, phase, named, metadata_buffer_, assigned, nodeVars,
                   boundVars, historyVars>>

\* (Changed: the buffer is not cleared.)
WriterSaveKeeping ==
    /\ Up /\ writer = "TRUNCATED"
    /\ metadata_file' = metadata_buffer_
    /\ writer' = "SLEEP"
    /\ UNCHANGED <<log_file, assigned_file, phase, named, bufferVars, nodeVars,
                   boundVars, historyVars>>

WriterSave ==
    /\ Up /\ writer = "TRUNCATED"
    /\ metadata_file' = metadata_buffer_
    /\ log_entry_buffers_' = <<>>
    /\ writer' = "SLEEP"
    /\ durable' = IF assigned
                  THEN durable \cup Range(SubSeq(log_entries_, 1, commit_index_))
                  ELSE durable
    /\ UNCHANGED <<log_file, assigned_file, phase, named, metadata_buffer_, assigned,
                   nodeVars, boundVars, damage>>

Writer == WriterAppend \/ WriterTruncate \/ WriterSave
-----------------------------------------------------------------------------
(* The end of the process.                                                 *)

\* Only the disk remains.
Ended ==
    /\ phase' = "DOWN" /\ stops' = stops + 1
    /\ named' = 0 /\ writer' = "SLEEP"
    /\ log_entry_buffers_' = <<>> /\ metadata_buffer_' = 0 /\ assigned' = FALSE
    /\ log_entries_' = <<>> /\ commit_index_' = 0 /\ message_queue_' = EmptyQueue

\* The destructor: the writer finishes its round, and does not start another.
Stop ==
    /\ phase = "RUNNING"
    /\ phase' = "STOPPING"
    /\ UNCHANGED <<diskVars, named, writer, bufferVars, nodeVars, boundVars,
                   historyVars>>

Joined ==
    /\ phase = "STOPPING" /\ writer = "SLEEP"
    /\ Ended
    /\ UNCHANGED <<diskVars, created, tears, historyVars>>

\* The process is killed between two writes.
Crash ==
    /\ Up
    /\ Ended
    /\ UNCHANGED <<diskVars, created, tears, historyVars>>

\* The process is killed while it appends: some records are whole, the next
\* one is not.
CrashInAppend ==
    /\ Up /\ writer = "SLEEP" /\ tears < MaxTears
    /\ \E k \in 0..Len(log_entry_buffers_) - 1 :
         log_file' = log_file \o SubSeq(log_entry_buffers_, 1, k)
                              \o <<[torn |-> log_entry_buffers_[k + 1]]>>
    /\ Ended /\ tears' = tears + 1
    /\ damage' = damage \cup {"TORN"}
    /\ UNCHANGED <<metadata_file, assigned_file, created, durable>>
-----------------------------------------------------------------------------
Next ==
    \/ Start \/ SetFileName \/ LoadEntries \/ LoadMetadata
    \/ AppendEntry \/ \E last \in 1..Len(log_entries_) : Commit(last)
    \/ Writer
    \/ Stop \/ Joined \/ Crash \/ CrashInAppend

Spec == Init /\ [][Next]_vars

\* The writer thread is not starved.
FairSpec == Spec /\ WF_vars(Writer)
-----------------------------------------------------------------------------
\* Every entry a running node has committed is in the file or waits in the
\* buffer, so a crash loses at most what was committed since the last round;
\* unless entries were committed several at a time, or an append was cut short,
\* or the commit index was loaded from a metadata_buffer_ never assigned.
CommittedIsKept ==
    phase = "RUNNING" /\ damage \subseteq {"REPEATED"} =>
      /\ commit_index_ <= Len(log_entries_)
      /\ \A i \in 1..commit_index_ :
           log_entries_[i] \in Range(log_file) \cup Range(log_entry_buffers_)

\* The effect of an entry is part of the queue.
InQueue(e) ==
    e.message_id \in IF e.operation = "ADD" THEN message_queue_.message_store_
                                            ELSE message_queue_.committed_messages_

\* What was committed when a round of the writer ended is in the queue again
\* after any number of restarts: the two files may disagree on the commit index,
\* and an entry may then be stored twice, but applying it again changes nothing
\* (the constructor of ClusterNode; the exceptions are those of CommittedIsKept).
SurvivesRestart ==
    phase = "RUNNING" /\ damage \subseteq {"REPEATED"} =>
      \A e \in durable : InQueue(e)

\* The queue of a running node is what its entries make of an empty queue, in the
\* order of the log, although after a restart with an older commit index entries
\* are applied a second time (commit_log_entries against the loop of the
\* constructor): up to the last entry that was loaded or committed.
QueueIsReplay ==
    phase = "RUNNING" /\ damage \subseteq {"REPEATED"} =>
      \E k \in commit_index_..Len(log_entries_) :
        message_queue_ = Apply(EmptyQueue, SubSeq(log_entries_, 1, k))

\* After a restart the entry at position i of the log carries the index i, which
\* ClusterNode takes for granted, as long as the storage skipped, repeated and
\* tore nothing (the constructor of ClusterNode).
PositionsKept ==
    phase = "RUNNING" /\ damage \subseteq {"UNSET"} =>
      \A i \in DOMAIN log_entries_ : log_entries_[i].index = i

\* What is handed to the storage reaches the file, unless the process ends first
\* (consume_and_store_messages, which also runs before there is a file name).
EventuallyWritten ==
    \A i \in 1..MaxEntries :
      (i = Len(log_entry_buffers_) /\ phase = "RUNNING")
        ~> (phase \in {"STOPPING", "DOWN"}
            \/ (log_entry_buffers_ = <<>> /\ metadata_file = commit_index_))

\* "since log entries are persisted on disk, the persisted state can be
\* automatically recovered even if a node crashes" (message_queue.hpp): what was
\* committed when a round of the writer ended is in the queue of a running node.
RecoversCommitted == phase = "RUNNING" => \A e \in durable : InQueue(e)
=============================================================================
