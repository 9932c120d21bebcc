--------------------------- MODULE DurableRaftLog ---------------------------
(***************************************************************************)
(* The Raft log of one node (raft_storage.rs): an append-only journal of   *)
(* records, folded into memory, and a checkpoint that replaces the journal *)
(* after a purge.  One mutex serialises the writes, so the steps of a      *)
(* write interleave with errors and crashes only.                          *)
(***************************************************************************)
EXTENDS Naturals, Sequences, FiniteSets, FiniteSetsExt

CONSTANTS
    MaxIndex,    \* bound: the last log index
    MaxTerm,     \* bound: the last term
    MaxWrites,   \* bound: how many writes are tried
    MaxCrashes,  \* bound: how many crashes and power losses there are
    MaxFaults    \* bound: how many I/O errors there are

ASSUME RaftLogBounds ==
    /\ MaxIndex \in Nat \ {0} /\ MaxTerm \in Nat \ {0}
    /\ MaxWrites \in Nat /\ MaxCrashes \in Nat /\ MaxFaults \in Nat

VARIABLES
    memory,            \* JournalInner.state
    journal,           \* the whole records in raft.journal, as the system shows it
    torn,              \* is there part of a record after them?
    stableJournal,     \* what stable storage holds of raft.journal at least
    checkpoint,        \* raft.checkpoint, as the system shows it
    stableCheckpoint,  \* what stable storage holds of it
    record,            \* the record being written
    stage,             \* how far the write is
    status,            \* "up", "failed" (OpenRaft was told of an error) or "down"
    acked,             \* history: the log after the last acknowledged write
    tried,             \* history: the log after the write under way
    writes, crashes, faults

vars == <<memory, journal, torn, stableJournal, checkpoint, stableCheckpoint, record,
          stage, status, acked, tried, writes, crashes, faults>>

Indexes == 1 .. MaxIndex
Terms == 0 .. MaxTerm

(* JournalState: 0 stands for None, an absent entry has term 0. *)
JournalState ==
    [vote : Terms, committed : 0 .. MaxIndex, purged : 0 .. MaxIndex,
     entries : [Indexes -> Terms]]

NewLog == [vote |-> 0, committed |-> 0, purged |-> 0, entries |-> [i \in Indexes |-> 0]]

NoCheckpoint == [none |-> TRUE]

JournalRecord ==
    [op : {"SaveVote"}, term : Terms]
      \union [op : {"SaveCommitted", "Truncate", "Purge"}, index : Indexes]
      \union [op : {"Append"}, first : Indexes, last : Indexes, term : Terms \ {0}]

Stages == {"idle", "write", "apply", "sync_dir", "cut", "sync_cut"}

Truncated(entries, index) == [i \in Indexes |-> IF i >= index THEN 0 ELSE entries[i]]

\* Mutant: split_off(index) in place of split_off(index + 1).
PurgedBefore(entries, index) == [i \in Indexes |-> IF i < index THEN 0 ELSE entries[i]]

Purged(entries, index) == [i \in Indexes |-> IF i <= index THEN 0 ELSE entries[i]]

(* JournalState::apply *)
Apply(state, r) ==
    CASE r.op = "SaveVote" -> [state EXCEPT !.vote = r.term]
      [] r.op = "SaveCommitted" -> [state EXCEPT !.committed = r.index]
      [] r.op = "Append" ->
           [state EXCEPT !.entries = [i \in Indexes |->
              IF i \in r.first .. r.last THEN r.term ELSE @[i]]]
      [] r.op = "Truncate" -> [state EXCEPT !.entries = Truncated(@, r.index)]
      [] r.op = "Purge" ->
           [state EXCEPT !.purged = r.index, !.entries = Purged(@, r.index)]

(* get_log_state: the last entry, or what was purged. *)
LastIndex(state) == Max({i \in Indexes : state.entries[i] # 0} \union {state.purged})

(* try_get_log_entries over a range of indexes: those present, in order. *)
LogEntries(state, range) == {i \in range : state.entries[i] # 0}

Init ==
    /\ memory = NewLog
    /\ journal = <<>> /\ torn = FALSE /\ stableJournal = <<>>
    /\ checkpoint = NoCheckpoint /\ stableCheckpoint = NoCheckpoint
    /\ record = [op |-> "SaveVote", term |-> 0] /\ stage = "idle" /\ status = "up"
    /\ acked = NewLog /\ tried = NewLog
    /\ writes = 0 /\ crashes = 0 /\ faults = 0

-----------------------------------------------------------------------------
(* The calls OpenRaft makes: votes grow, entries follow the last one with a term *)
(* that is not older, only uncommitted entries are truncated, and purged is what *)
(* a snapshot covers, which may reach past the log after a snapshot came in.     *)
RaftCalls(r) ==
    LET last == LastIndex(memory)
        floor == Max({memory.committed, memory.purged})
    IN  \/ r.op = "SaveVote" /\ r.term > memory.vote
        \/ r.op = "SaveCommitted" /\ r.index > floor /\ r.index <= last
        \/ /\ r.op = "Append"
           /\ r.first = last + 1 /\ r.first <= r.last
           /\ r.term <= memory.vote
           /\ last \in Indexes => memory.entries[last] <= r.term
        \/ r.op = "Truncate" /\ r.index > floor /\ r.index <= last
        \/ /\ r.op = "Purge" /\ r.index > memory.purged
           /\ r.index <= memory.committed \/ r.index > last

(* save_vote, save_committed, append, truncate and purge take the lock in *)
(* write_record, which writes the record at the end of the journal ...    *)
BeginWrite(r) ==
    /\ status = "up" /\ stage = "idle"
    /\ writes < MaxWrites
    /\ RaftCalls(r)
    /\ record' = r
    /\ stage' = "write"
    /\ tried' = Apply(memory, r)
    /\ writes' = writes + 1
    /\ UNCHANGED <<memory, journal, torn, stableJournal, checkpoint, stableCheckpoint,
                   status, acked, crashes, faults>>

(* ... syncs it, and applies it to memory.  A purge goes on to the checkpoint. *)
SyncRecord ==
    /\ status = "up" /\ stage = "write"
    /\ journal' = Append(journal, record)
    /\ stableJournal' = journal'
    /\ memory' = Apply(memory, record)
    /\ IF record.op = "Purge"
       THEN stage' = "apply" /\ UNCHANGED acked
       ELSE stage' = "idle" /\ acked' = tried
    /\ UNCHANGED <<torn, checkpoint, stableCheckpoint, record, status, tried, writes,
                   crashes, faults>>

(* What a write that stopped half-way leaves behind the journal: nothing, a part *)
(* of the record, or all of it.                                                  *)
Leftovers ==
    {[journal |-> journal, torn |-> FALSE], [journal |-> journal, torn |-> TRUE],
     [journal |-> Append(journal, record), torn |-> FALSE]}

(* append_record fails: set_len takes the record back, unless it fails as well. *)
FailWrite ==
    /\ status = "up" /\ stage = "write"
    /\ faults < MaxFaults
    /\ \E left \in Leftovers : journal' = left.journal /\ torn' = left.torn
    /\ status' = "failed"
    /\ stage' = "idle"
    /\ faults' = faults + 1
    /\ UNCHANGED <<memory, stableJournal, checkpoint, stableCheckpoint, record, acked,
                   tried, writes, crashes>>

(* write_checkpoint: a synced temporary file takes the name ... *)
RenameCheckpoint ==
    /\ status = "up" /\ stage = "apply"
    /\ checkpoint' = memory
    /\ stage' = "sync_dir"
    /\ UNCHANGED <<memory, journal, torn, stableJournal, stableCheckpoint, record, status,
                   acked, tried, writes, crashes, faults>>

\* Mutant: the directory is not synced before the journal is cut.
CheckpointNotSynced ==
    /\ status = "up" /\ stage = "sync_dir"
    /\ stage' = "cut"
    /\ UNCHANGED <<memory, journal, torn, stableJournal, checkpoint, stableCheckpoint,
                   record, status, acked, tried, writes, crashes, faults>>

(* ... and the directory is synced. *)
SyncCheckpoint ==
    /\ status = "up" /\ stage = "sync_dir"
    /\ stableCheckpoint' = checkpoint
    /\ stage' = "cut"
    /\ UNCHANGED <<memory, journal, torn, stableJournal, checkpoint, record, status,
                   acked, tried, writes, crashes, faults>>

(* Only then is the journal cut ... *)
CutJournal ==
    /\ status = "up" /\ stage = "cut"
    /\ journal' = <<>>
    /\ stage' = "sync_cut"
    /\ UNCHANGED <<memory, torn, stableJournal, checkpoint, stableCheckpoint, record,
                   status, acked, tried, writes, crashes, faults>>

(* ... and synced, and the purge is acknowledged. *)
SyncCut ==
    /\ status = "up" /\ stage = "sync_cut"
    /\ stableJournal' = <<>>
    /\ stage' = "idle"
    /\ acked' = tried
    /\ UNCHANGED <<memory, journal, torn, checkpoint, stableCheckpoint, record, status,
                   tried, writes, crashes, faults>>

(* A step of the purge fails.  Memory and journal already have it. *)
FailPurge ==
    /\ status = "up" /\ stage \in {"apply", "sync_dir", "cut", "sync_cut"}
    /\ faults < MaxFaults
    /\ status' = "failed"
    /\ stage' = "idle"
    /\ faults' = faults + 1
    /\ UNCHANGED <<memory, journal, torn, stableJournal, checkpoint, stableCheckpoint,
                   record, acked, tried, writes, crashes>>

-----------------------------------------------------------------------------
LoseMemory ==
    /\ status # "down"
    /\ crashes < MaxCrashes
    /\ status' = "down" /\ stage' = "idle" /\ memory' = NewLog
    /\ crashes' = crashes + 1
    /\ UNCHANGED <<record, acked, tried, writes, faults>>

Written ==
    IF stage = "write" THEN Leftovers ELSE {[journal |-> journal, torn |-> torn]}

(* The process ends; the files stay as the system shows them. *)
Crash ==
    /\ LoseMemory
    /\ \E left \in Written : journal' = left.journal /\ torn' = left.torn
    /\ UNCHANGED <<stableJournal, checkpoint, stableCheckpoint>>

(* The machine stops: of what was not synced, any prefix of the journal, the cut *)
(* and the checkpoint's new name may be missing, each for itself.                *)
PowerLoss ==
    /\ LoseMemory
    /\ \E left \in Written :
         LET kept ==
               IF /\ Len(stableJournal) <= Len(left.journal)
                  /\ stableJournal = SubSeq(left.journal, 1, Len(stableJournal))
               THEN {SubSeq(left.journal, 1, n) :
                       n \in Len(stableJournal) .. Len(left.journal)}
               ELSE {stableJournal, left.journal}
         IN  /\ journal' \in kept
             /\ torn' \in {FALSE, left.torn \/ Len(journal') < Len(left.journal)}
    /\ stableJournal' = journal'
    /\ checkpoint' \in {checkpoint, stableCheckpoint}
    /\ stableCheckpoint' = checkpoint'

\* Mutant: no default for a missing checkpoint.
CheckpointUnwrapped == checkpoint

ReadCheckpoint == IF checkpoint = NoCheckpoint THEN NewLog ELSE checkpoint

(* recover_journal applies the whole records, one after the other, to the checkpoint. *)
Replayed(state, records) ==
    LET after[n \in 0 .. Len(records)] ==
          IF n = 0 THEN state ELSE Apply(after[n - 1], records[n])
    IN  after[Len(records)]

RecoverJournal(state) == Replayed(state, journal)

(* DurableRaftLog::open: recover_journal cuts the torn record and syncs. *)
Open ==
    /\ status = "down"
    /\ memory' = RecoverJournal(ReadCheckpoint)
    /\ torn' = FALSE
    /\ stableJournal' = journal
    /\ status' = "up"
    /\ acked' = memory' /\ tried' = memory'
    /\ UNCHANGED <<journal, checkpoint, stableCheckpoint, record, stage, writes, crashes,
                   faults>>

Next ==
    \/ \E r \in JournalRecord : BeginWrite(r)
    \/ SyncRecord
    \/ FailWrite
    \/ RenameCheckpoint
    \/ SyncCheckpoint
    \/ CutJournal
    \/ SyncCut
    \/ FailPurge
    \/ Crash
    \/ PowerLoss
    \/ Open

Spec == Init /\ [][Next]_vars

-----------------------------------------------------------------------------
RaftLogTypeOK ==
    /\ memory \in JournalState
    /\ journal \in Seq(JournalRecord) /\ stableJournal \in Seq(JournalRecord)
    /\ torn \in BOOLEAN
    /\ checkpoint \in JournalState \union {NoCheckpoint}
    /\ stableCheckpoint \in JournalState \union {NoCheckpoint}
    /\ record \in JournalRecord
    /\ stage \in Stages
    /\ status \in {"up", "failed", "down"}
    /\ acked \in JournalState /\ tried \in JournalState
    /\ writes \in 0 .. MaxWrites /\ crashes \in 0 .. MaxCrashes /\ faults \in 0 .. MaxFaults

(* What OpenRaft reads has no holes: the entries after the purged ones are contiguous,  *)
(* nothing purged is visible, and every committed entry that was not purged can be read. *)
(* This is what try_get_log_entries and get_log_state are used for, and it holds after   *)
(* an open that replayed old records over a newer checkpoint as well.                    *)
LogReadable ==
    status = "up" =>
        /\ LogEntries(memory, Indexes) = memory.purged + 1 .. LastIndex(memory)
        /\ memory.committed <= LastIndex(memory)

(* Does one record turn this log into that one? *)
OneRecord(old, new) == \E r \in JournalRecord : new = Apply(old, r)

(* A node that voted in a term never runs with an older vote again, and never without    *)
(* an entry it acknowledged, across crashes, power losses and failed purges: the journal, *)
(* the checkpoint and the order of their syncs implement the log that OpenRaft is promised.*)
Store == INSTANCE RaftLogStore
           WITH Empty <- NewLog,
                Step <- OneRecord,
                up <- status = "up",
                log <- acked

IsRaftLogStore == Store!Spec
=============================================================================
