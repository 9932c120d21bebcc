---------------------- MODULE DurableShardStateMachine ----------------------
(***************************************************************************)
(* The replicated state of one shard on one node (raft_state_machine.rs):  *)
(* committed entries are journalled and applied to a collection, client    *)
(* requests are answered once, snapshots are built here and installed from *)
(* the leader, and search uses indexes that are rebuilt off the lock.      *)
(*                                                                         *)
(* OpenRaft calls apply and install_snapshot from one task and runs        *)
(* build_snapshot in a task of its own; a storage error stops it.          *)
(***************************************************************************)
EXTENDS Integers, Sequences, SequencesExt, FiniteSets, FiniteSetsExt

CONSTANTS
    Ids,                   \* point IDs
    Requests,              \* (client_id, request_id) pairs
    Command,               \* the command each request carries
    LastSequence,          \* u64::MAX of the collection's sequence
    MIN_REINDEXED_POINTS,
    REINDEX_DIRTY_DIVISOR,
    Overlap,               \* may build_snapshot and install_snapshot overlap?
    MaxLog,                \* bound: committed entries
    MaxSnapshots,          \* bound: snapshots begun
    MaxRefreshes,          \* bound: index refreshes begun
    MaxCrashes, MaxFaults  \* bounds: crashes, I/O errors

Commands == [op : {"Upsert", "Delete", "Invalid"}, ids : SUBSET Ids]

ASSUME StateMachineConstants ==
    /\ Command \in [Requests -> Commands]
    /\ LastSequence \in Nat \ {0} /\ MIN_REINDEXED_POINTS \in Nat
    /\ REINDEX_DIRTY_DIVISOR \in Nat \ {0} /\ Overlap \in BOOLEAN
    /\ {MaxLog, MaxSnapshots, MaxRefreshes, MaxCrashes, MaxFaults} \subseteq Nat

VARIABLES
    log,         \* the entries the cluster has committed
    purged,      \* OpenRaft has dropped its entries up to this one
    state,       \* StateInner: collection, last_applied, membership, dedup
    indexed,     \* the points in index and metadata_index, or NoIndex
    dirty,       \* StateInner.dirty_ids
    holder,      \* who holds the lock of StateInner
    journal, torn, stableJournal,  \* state.journal: shown by the system; on stable storage
    snapshot, stableSnapshot,      \* state.snapshot, likewise
    temporary,   \* state.tmp-<pid>
    worker,      \* the task that applies and installs: how far it is
    incoming,    \* the snapshot it installs
    builder,     \* the task that builds a snapshot: how far it is
    built,       \* the snapshot it builds
    refresh,     \* refresh_index_if_needed: the points it builds indexes from
    status,      \* "up", "failed" or "down"
    acked,       \* history: the last index OpenRaft was told is applied
    answers,     \* history: the responses each request was given
    snapshots, refreshes, crashes, faults

files == <<journal, torn, stableJournal, snapshot, stableSnapshot, temporary>>
tasks == <<worker, incoming, builder, built, refresh>>
search == <<indexed, dirty>>
counts == <<snapshots, refreshes, crashes, faults>>
vars == <<log, purged, state, search, holder, files, tasks, status, acked, answers, counts>>

Blank == "blank"
Membership == "membership"
Entries == Requests \union {Blank, Membership}

(* ShardResponse: a sequence, Rejected, or no response so far. *)
Rejected == 0
NoResponse == -1
Responses == NoResponse .. LastSequence

States == [points : [Ids -> 0 .. LastSequence], sequence : 0 .. LastSequence,
           applied : 0 .. MaxLog, membership : 0 .. MaxLog,
           dedup : [Requests -> Responses]]

NewState == [points |-> [i \in Ids |-> 0], sequence |-> 0, applied |-> 0,
             membership |-> 0, dedup |-> [r \in Requests |-> NoResponse]]

None == [none |-> TRUE]
NoIndex == None

(* build_indexes: a graph and a metadata index of these points. *)
Indexes(s) == [points |-> s.points]

Live(points) == {i \in Ids : points[i] # 0}

-----------------------------------------------------------------------------
\* Mutant: a retried request is prepared as a new one.
PrepareAgain(s, entry) ==
    CASE entry \in {Blank, Membership} -> s.sequence
      [] entry \in Requests ->
           IF s.sequence = LastSequence \/ Command[entry].op = "Invalid"
           THEN Rejected ELSE s.sequence + 1

(* prepare_payload: the response to an entry, before it is journalled. *)
PreparePayload(s, entry) ==
    CASE entry \in {Blank, Membership} -> s.sequence
      [] entry \in Requests ->
           IF s.dedup[entry] # NoResponse THEN s.dedup[entry]
           ELSE IF s.sequence = LastSequence \/ Command[entry].op = "Invalid"
           THEN Rejected ELSE s.sequence + 1

(* The collection after an accepted command. *)
Written(s, command, sequence) ==
    [s EXCEPT !.sequence = sequence,
              !.points = [i \in Ids |->
                 IF i \notin command.ids THEN @[i]
                 ELSE IF command.op = "Upsert" THEN sequence ELSE 0]]

\* Mutant: only accepted requests are remembered.
ReplayAcceptedOnly(s, rec) ==
    LET r == rec.entry
        new == r \in Requests /\ s.dedup[r] = NoResponse
        after == IF new /\ rec.response # Rejected
                 THEN [Written(s, Command[r], rec.response) EXCEPT !.dedup[r] = rec.response]
                 ELSE s
    IN  [after EXCEPT
           !.applied = rec.index,
           !.membership = IF r = Membership THEN rec.index ELSE @]

(* replay_record: what a journalled entry does to the state. *)
ReplayRecord(s, rec) ==
    LET r == rec.entry
        new == r \in Requests /\ s.dedup[r] = NoResponse
        after == IF new /\ rec.response # Rejected
                 THEN Written(s, Command[r], rec.response) ELSE s
    IN  [after EXCEPT
           !.applied = rec.index,
           !.membership = IF r = Membership THEN rec.index ELSE @,
           !.dedup = IF new THEN [@ EXCEPT ![r] = rec.response] ELSE @]

(* The IDs replay_record adds to dirty_ids. *)
Touched(s, rec) ==
    IF rec.entry \in Requests /\ s.dedup[rec.entry] = NoResponse /\ rec.response # Rejected
    THEN Command[rec.entry].ids ELSE {}

Init ==
    /\ log = <<>> /\ purged = 0
    /\ state = NewState /\ indexed = NoIndex /\ dirty = {}
    /\ holder = "none"
    /\ journal = <<>> /\ torn = FALSE /\ stableJournal = <<>>
    /\ snapshot = None /\ stableSnapshot = None /\ temporary = None
    /\ worker = "idle" /\ incoming = None
    /\ builder = "idle" /\ built = None
    /\ refresh = None
    /\ status = "up" /\ acked = 0
    /\ answers = [r \in Requests |-> {}]
    /\ snapshots = 0 /\ refreshes = 0 /\ crashes = 0 /\ faults = 0

-----------------------------------------------------------------------------
(* The cluster commits an entry, perhaps a request it has committed before. *)
Commit(entry) ==
    /\ Len(log) < MaxLog
    /\ log' = Append(log, entry)
    /\ UNCHANGED <<purged, state, search, holder, files, tasks, status, acked, answers,
                   counts>>

NextRecord ==
    LET entry == log[state.applied + 1]
    IN  [index |-> state.applied + 1, entry |-> entry,
         response |-> PreparePayload(state, entry)]

(* apply takes the lock and writes the next entry's record ... *)
BeginApply ==
    /\ status = "up" /\ worker = "idle" /\ holder = "none"
    /\ state.applied < Len(log)
    /\ worker' = "apply" /\ holder' = "worker"
    /\ UNCHANGED <<log, purged, state, search, files, incoming, builder, built, refresh,
                   status, acked, answers, counts>>

(* ... which is synced before it is replayed and answered. *)
FinishApply ==
    /\ status = "up" /\ worker = "apply"
    /\ journal' = Append(journal, NextRecord) /\ stableJournal' = journal'
    /\ state' = ReplayRecord(state, NextRecord)
    /\ dirty' = dirty \union Touched(state, NextRecord)
    /\ acked' = NextRecord.index
    /\ answers' = [r \in Requests |->
         IF r = NextRecord.entry THEN answers[r] \union {NextRecord.response} ELSE answers[r]]
    /\ worker' = "idle" /\ holder' = "none"
    /\ UNCHANGED <<log, purged, indexed, torn, snapshot, stableSnapshot, temporary,
                   incoming, builder, built, refresh, status, counts>>

Leftovers ==
    {[journal |-> journal, torn |-> FALSE], [journal |-> journal, torn |-> TRUE],
     [journal |-> Append(journal, NextRecord), torn |-> FALSE]}

Failed ==
    /\ faults < MaxFaults
    /\ status' = "failed"
    /\ faults' = faults + 1
    /\ UNCHANGED <<log, purged, state, search, incoming, built, refresh, stableJournal,
                   snapshot, stableSnapshot, acked, answers, snapshots, refreshes, crashes>>

FailApply ==
    /\ status = "up" /\ worker = "apply"
    /\ Failed
    /\ \E left \in Leftovers : journal' = left.journal /\ torn' = left.torn
    /\ worker' = "idle" /\ holder' = "none"
    /\ UNCHANGED <<temporary, builder>>

-----------------------------------------------------------------------------
(* The state after the first n entries, written as a definition of what the *)
(* shard promises: each request takes effect where it first appears, if it  *)
(* is valid and a sequence is left for it.                                  *)
FirstValid(n) ==
    {i \in 1 .. n : /\ log[i] \in Requests /\ Command[log[i]].op # "Invalid"
                    /\ \A j \in 1 .. i - 1 : log[j] # log[i]}

Effective(n) == {i \in FirstValid(n) : Cardinality(FirstValid(i)) <= LastSequence}

SequenceOf(i) == Cardinality(FirstValid(i))

StateAt(n) ==
    [points |-> [p \in Ids |->
        LET writers == {i \in Effective(n) : p \in Command[log[i]].ids}
        IN  IF writers # {} /\ Command[log[Max(writers)]].op = "Upsert"
            THEN SequenceOf(Max(writers)) ELSE 0],
     sequence |-> Cardinality(Effective(n)),
     applied |-> n,
     membership |-> Max({0} \union {i \in 1 .. n : log[i] = Membership}),
     dedup |-> [r \in Requests |->
        LET seen == {i \in 1 .. n : log[i] = r}
        IN  IF seen = {} THEN NoResponse
            ELSE IF Min(seen) \in Effective(n) THEN SequenceOf(Min(seen)) ELSE Rejected]]

-----------------------------------------------------------------------------
\* Mutant: the lock is taken before the snapshot is written, and then again.
InstallLocksTwice(n) ==
    /\ status = "up" /\ worker = "idle" /\ holder = "none"
    /\ Overlap \/ builder = "idle"
    /\ snapshots < MaxSnapshots
    /\ n > state.applied
    /\ incoming' = StateAt(n)
    /\ worker' = "write" /\ holder' = "worker"
    /\ snapshots' = snapshots + 1
    /\ UNCHANGED <<log, purged, state, search, files, builder, built, refresh, status,
                   acked, answers, refreshes, crashes, faults>>

(* install_snapshot: a snapshot of entries this node has not applied comes from the *)
(* leader.  It is decoded and checked, and written without the lock.                *)
BeginInstall(n) ==
    /\ status = "up" /\ worker = "idle"
    /\ Overlap \/ builder = "idle"
    /\ snapshots < MaxSnapshots
    /\ n > state.applied
    /\ incoming' = StateAt(n)
    /\ worker' = "write"
    /\ snapshots' = snapshots + 1
    /\ UNCHANGED <<log, purged, state, search, holder, files, builder, built, refresh,
                   status, acked, answers, refreshes, crashes, faults>>

(* build_snapshot, which OpenRaft asks for once entries were applied, takes the lock and *)
(* keeps it to the end.                                                                  *)
BeginBuild ==
    /\ status = "up" /\ builder = "idle" /\ holder = "none"
    /\ state.applied > 0
    /\ Overlap \/ worker = "idle"
    /\ snapshots < MaxSnapshots
    /\ built' = state
    /\ builder' = "write" /\ holder' = "builder"
    /\ snapshots' = snapshots + 1
    /\ UNCHANGED <<log, purged, state, search, files, worker, incoming, refresh, status,
                   acked, answers, refreshes, crashes, faults>>

(* write_snapshot, called by both: the temporary file is written and synced ... *)
WriteTemporary(pc, pc2, value) ==
    /\ status = "up" /\ pc = "write"
    /\ pc2 = "rename"
    /\ temporary' = value
    /\ UNCHANGED <<log, purged, state, search, holder, journal, torn, stableJournal,
                   snapshot, stableSnapshot, incoming, built, refresh, status, acked,
                   answers, counts>>

(* ... takes the name state.snapshot ... *)
RenameTemporary(pc, pc2) ==
    /\ status = "up" /\ pc = "rename"
    /\ temporary # None
    /\ pc2 = "sync"
    /\ snapshot' = temporary /\ temporary' = None
    /\ UNCHANGED <<log, purged, state, search, holder, journal, torn, stableJournal,
                   stableSnapshot, incoming, built, refresh, status, acked, answers, counts>>

\* Mutant: the directory is not synced.
DirectoryNotSynced(pc, pc2) ==
    /\ status = "up" /\ pc = "sync"
    /\ pc2 = "finish"
    /\ UNCHANGED <<log, purged, state, search, holder, files, incoming, built, refresh,
                   status, acked, answers, counts>>

(* ... and the directory is synced. *)
SyncDirectory(pc, pc2) ==
    /\ status = "up" /\ pc = "sync"
    /\ pc2 = "finish"
    /\ stableSnapshot' = snapshot
    /\ UNCHANGED <<log, purged, state, search, holder, journal, torn, stableJournal,
                   snapshot, temporary, incoming, built, refresh, status, acked, answers,
                   counts>>

WriteSnapshot(pc, pc2, value) ==
    WriteTemporary(pc, pc2, value) \/ RenameTemporary(pc, pc2) \/ SyncDirectory(pc, pc2)

InstallWrites == WriteSnapshot(worker, worker', incoming) /\ UNCHANGED builder
BuildWrites == WriteSnapshot(builder, builder', built) /\ UNCHANGED worker

(* The installing task takes the lock and cuts the journal ... *)
InstallCutsJournal ==
    /\ status = "up" /\ worker = "finish" /\ holder = "none"
    /\ journal' = <<>>
    /\ worker' = "cut" /\ holder' = "worker"
    /\ UNCHANGED <<log, purged, state, search, torn, stableJournal, snapshot,
                   stableSnapshot, temporary, incoming, builder, built, refresh, status,
                   acked, answers, counts>>

(* ... syncs it, and replaces the state and the indexes.  OpenRaft then purges its log. *)
FinishInstall ==
    /\ status = "up" /\ worker = "cut"
    /\ stableJournal' = <<>>
    /\ state' = incoming
    /\ indexed' = Indexes(incoming) /\ dirty' = {}
    /\ acked' = incoming.applied /\ purged' = Max({purged, incoming.applied})
    /\ worker' = "idle" /\ incoming' = None /\ holder' = "none"
    /\ UNCHANGED <<log, journal, torn, snapshot, stableSnapshot, temporary, builder, built,
                   refresh, status, answers, counts>>

(* The snapshot is written: the built indexes replace the old ones, and OpenRaft *)
(* may purge the entries it covers.  state.journal is not cut.                   *)
FinishBuild ==
    /\ status = "up" /\ builder = "finish"
    /\ indexed' = Indexes(built) /\ dirty' = {}
    /\ purged' = Max({purged, built.applied})
    /\ builder' = "idle" /\ built' = None /\ holder' = "none"
    /\ UNCHANGED <<log, state, files, worker, incoming, refresh, status, acked, answers,
                   counts>>

(* An I/O error, also when the journal is cut or synced, an error of build_indexes, or a *)
(* temporary file that the other task has renamed.                                       *)
FailInstall ==
    /\ status = "up" /\ worker \in {"write", "rename", "sync", "finish", "cut"}
    /\ Failed
    /\ worker' = "idle"
    /\ holder' = IF holder = "worker" THEN "none" ELSE holder
    /\ UNCHANGED <<journal, torn, temporary, builder>>

FailBuild ==
    /\ status = "up" /\ builder \in {"write", "rename", "sync"}
    /\ Failed
    /\ builder' = "idle" /\ holder' = "none"
    /\ UNCHANGED <<journal, torn, temporary, worker>>

-----------------------------------------------------------------------------
CeilDiv(n, d) == (n + d - 1) \div d

(* should_rebuild_index *)
ShouldRebuildIndex ==
    /\ Cardinality(dirty) >= MIN_REINDEXED_POINTS
    /\ \/ indexed = NoIndex
       \/ Cardinality(dirty) >=
            Max({CeilDiv(Cardinality(Live(state.points)), REINDEX_DIRTY_DIVISOR),
                 MIN_REINDEXED_POINTS})

(* refresh_index_if_needed, called by search: one task at a time copies the points *)
(* under the lock, builds the indexes without it ...                               *)
BeginRefresh ==
    /\ status # "down" /\ refresh = None /\ holder = "none"
    /\ ShouldRebuildIndex
    /\ refreshes < MaxRefreshes
    /\ refresh' = state
    /\ refreshes' = refreshes + 1
    /\ UNCHANGED <<log, purged, state, search, holder, files, worker, incoming, builder,
                   built, status, acked, answers, snapshots, crashes, faults>>

\* Mutant: the sequence is not compared.
RefreshIsAlwaysCurrent == TRUE

RefreshIsCurrent == state.sequence = refresh.sequence

(* ... and publishes them if the collection has not changed. *)
FinishRefresh ==
    /\ status # "down" /\ refresh # None /\ holder = "none"
    /\ IF RefreshIsCurrent
       THEN indexed' = Indexes(refresh) /\ dirty' = {}
       ELSE UNCHANGED search
    /\ refresh' = None
    /\ UNCHANGED <<log, purged, state, holder, files, worker, incoming, builder, built,
                   status, acked, answers, counts>>

-----------------------------------------------------------------------------
LoseMemory ==
    /\ status # "down" /\ crashes < MaxCrashes
    /\ status' = "down"
    /\ state' = NewState /\ indexed' = NoIndex /\ dirty' = {} /\ holder' = "none"
    /\ worker' = "idle" /\ incoming' = None /\ builder' = "idle" /\ built' = None
    /\ refresh' = None /\ temporary' = None
    /\ crashes' = crashes + 1
    /\ UNCHANGED <<log, purged, acked, answers, snapshots, refreshes, faults>>

Left ==
    IF worker = "apply" THEN Leftovers ELSE {[journal |-> journal, torn |-> torn]}

Crash ==
    /\ LoseMemory
    /\ \E left \in Left : journal' = left.journal /\ torn' = left.torn
    /\ UNCHANGED <<stableJournal, snapshot, stableSnapshot>>

(* Of what was not synced, the last record, the cut and the new name may be missing. *)
PowerLoss ==
    /\ LoseMemory
    /\ \E left \in Left :
         /\ journal' \in {left.journal, stableJournal}
         /\ torn' \in {FALSE, left.torn \/ Len(journal') < Len(left.journal)}
    /\ stableJournal' = journal'
    /\ snapshot' \in {snapshot, stableSnapshot}
    /\ stableSnapshot' = snapshot'

\* Mutant: no default for a missing snapshot.
SnapshotUnwrapped == snapshot

ReadSnapshot == IF snapshot = None THEN NewState ELSE snapshot

Recover(acc, rec) ==
    IF rec.index <= acc.state.applied THEN acc
    ELSE [state |-> ReplayRecord(acc.state, rec),
          dirty |-> acc.dirty \union Touched(acc.state, rec)]

(* open: the snapshot with its indexes, then the journal's whole records. *)
Open ==
    LET recovered == FoldLeft(Recover, [state |-> ReadSnapshot, dirty |-> {}], journal)
    IN  /\ status = "down"
        /\ state' = recovered.state
        /\ dirty' = recovered.dirty
        /\ indexed' = IF snapshot = None THEN NoIndex ELSE Indexes(snapshot)
        /\ torn' = FALSE /\ stableJournal' = journal
        /\ status' = "up"
        /\ UNCHANGED <<log, purged, holder, journal, snapshot, stableSnapshot, temporary,
                       tasks, acked, answers, counts>>

Next ==
    \/ \E entry \in Entries : Commit(entry)
    \/ BeginApply \/ FinishApply \/ FailApply
    \/ \E n \in 1 .. Len(log) : BeginInstall(n)
    \/ InstallWrites \/ InstallCutsJournal \/ FinishInstall \/ FailInstall
    \/ BeginBuild \/ BuildWrites \/ FinishBuild \/ FailBuild
    \/ BeginRefresh \/ FinishRefresh
    \/ Crash \/ PowerLoss \/ Open

(* Tokio runs every task again and again, and its mutex is handed out in order. *)
Fairness ==
    /\ SF_vars(BeginApply) /\ WF_vars(FinishApply)
    /\ WF_vars(InstallWrites) /\ SF_vars(InstallCutsJournal) /\ WF_vars(FinishInstall)
    /\ WF_vars(BuildWrites) /\ WF_vars(FinishBuild)

Spec == Init /\ [][Next]_vars /\ Fairness

-----------------------------------------------------------------------------
(* Search.  A filter is the set of versions whose metadata it matches. *)
Matching(filter) == {i \in Live(state.points) : state.points[i] \in filter}

(* The metadata index's candidates, without the dirty IDs. *)
Candidates(filter) == {i \in Live(indexed.points) : indexed.points[i] \in filter} \ dirty

(* search_with_ef: exact search when there are no indexes ... *)
ExactPlan(filter) ==
    IF indexed = NoIndex THEN Matching(filter)
    ELSE (Candidates(filter) \union dirty) \intersect Matching(filter)

(* ... or a walk of the graph, which skips dirty hits and expects to find every *)
(* other one in the collection, with an exact search of the dirty points.  The  *)
(* walk is taken to be exact: how graph_k is chosen and doubled is left out.    *)
GraphHits == IF indexed = NoIndex THEN {} ELSE Live(indexed.points) \ dirty

GraphPlan(filter) ==
    IF indexed = NoIndex THEN Matching(filter)
    ELSE (GraphHits \union dirty) \intersect Matching(filter)

-----------------------------------------------------------------------------
ShardTypeOK ==
    /\ log \in Seq(Entries) /\ Len(log) <= MaxLog /\ purged \in 0 .. MaxLog
    /\ state \in States
    /\ indexed = NoIndex \/ indexed \in [points : [Ids -> 0 .. LastSequence]]
    /\ dirty \subseteq Ids
    /\ holder \in {"none", "worker", "builder"}
    /\ \A file \in {snapshot, stableSnapshot, temporary, incoming, built, refresh} :
          file = None \/ file \in States
    /\ worker \in {"idle", "apply", "write", "rename", "sync", "finish", "cut"}
    /\ builder \in {"idle", "write", "rename", "sync", "finish"}
    /\ status \in {"up", "failed", "down"}
    /\ \A r \in Requests : answers[r] \subseteq Responses

(* The state of a running replica is the one the committed log defines, membership and    *)
(* deduplication records included: entries take effect in order and requests exactly once, *)
(* however often they were committed, also when journal, snapshots built here and snapshots *)
(* of the leader were combined at a restart.                                               *)
ReplicaMatchesLog == status # "down" => state = StateAt(state.applied)

(* A restarted replica has every entry it told OpenRaft was applied, and none is missing   *)
(* that OpenRaft has purged because a snapshot covers it (write_snapshot before the cut,    *)
(* the sync before both).                                                                  *)
AppliedSurvives == status = "up" => state.applied >= Max({acked, purged})

(* Whatever happens in between, a request gets the same answer every time it is applied    *)
(* (the dedup lookup in prepare_payload and the insertion in replay_record).               *)
OneAnswer == \A r \in Requests : Cardinality(answers[r]) <= 1

(* Both plans of search_with_ef see exactly the matching live points, for every filter,    *)
(* and no hit is reported as missing from the state machine, while indexes are built off   *)
(* the lock and replaced by snapshots.                                                     *)
ReplicaSearchExact ==
    status # "down" =>
        /\ GraphHits \subseteq Live(state.points)
        /\ \A filter \in SUBSET (1 .. LastSequence) :
              ExactPlan(filter) = Matching(filter) /\ GraphPlan(filter) = Matching(filter)

(* A replica that stays up catches up with the committed log again and again: the tasks    *)
(* that apply, install, build and search never wait for each other's lock forever.         *)
CatchesUp == []<>(state.applied = Len(log) \/ status # "up")
=============================================================================
