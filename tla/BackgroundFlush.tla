---------------------------- MODULE BackgroundFlush ----------------------------
(***************************************************************************)
(* The background flusher of a shared collection (concurrent.rs): a thread *)
(* that wakes at an interval, flushes when enough points are dirty, ends   *)
(* at its first error, and is stopped and joined by its owner.  Writers    *)
(* and another flushing caller run beside it.  The collection is what the  *)
(* flusher sees of it: its dirty IDs and the sequences of its segments.    *)
(***************************************************************************)
EXTENDS Naturals, FiniteSets

CONSTANTS
    Points,                \* point IDs
    dirty_point_threshold,
    MaxBatches,            \* bound: batches written
    MaxFlushErrors         \* bound: flushes that fail

ASSUME FlushConstants == dirty_point_threshold \in Nat \ {0}

VARIABLES
    dirty,       \* dirty_ids: points not known to be in a segment
    sequence,    \* the last sequence
    published,   \* the sequence of the last segment
    flusher,     \* the thread: waiting, checked, building or ended
    caller,      \* another caller of flush: idle or building
    snapshot,    \* the sequence each of the two is building
    channel,     \* is the stop message sent, or the sender dropped?
    last_error,  \* did a flush of the thread fail?
    owner,       \* the owner of the flusher: running, joining, or what stop returned
    flushErrors

flushing == <<dirty, sequence, published, flusher, caller, snapshot, channel, last_error, owner,
              flushErrors>>

pending_point_count == Cardinality(dirty)

FlushInit ==
    /\ dirty = {}
    /\ sequence = 0 /\ published = 0
    /\ flusher = "waiting" /\ caller = "idle"
    /\ snapshot = [t \in {"flusher", "caller"} |-> 0]
    /\ channel = FALSE /\ last_error = FALSE
    /\ owner = "running"
    /\ flushErrors = 0

WriteBatch(ids) ==
    /\ sequence < MaxBatches
    /\ sequence' = sequence + 1
    /\ dirty' = dirty \union ids
    /\ UNCHANGED <<published, flusher, caller, snapshot, channel, last_error, owner, flushErrors>>

--------------------------------------------------------------------------------
\* Mutant: the thread waits for its next interval only.
WakeWithoutStop ==
    /\ flusher = "waiting"
    /\ pending_point_count >= dirty_point_threshold
    /\ flusher' = "checked"
    /\ UNCHANGED <<dirty, sequence, published, caller, snapshot, channel, last_error, owner, flushErrors>>

\* Mutant: the threshold must be exceeded.
WakeAboveThreshold ==
    /\ flusher = "waiting"
    /\ \/ channel /\ flusher' = "ended"
       \/ ~channel /\ pending_point_count > dirty_point_threshold /\ flusher' = "checked"
    /\ UNCHANGED <<dirty, sequence, published, caller, snapshot, channel, last_error, owner, flushErrors>>

(* recv_timeout: the stop message ends the thread; else, after the interval, the dirty  *)
(* points are counted, and too few of them leave it waiting.                            *)
Wake ==
    /\ flusher = "waiting"
    /\ \/ channel /\ flusher' = "ended"
       \/ ~channel /\ pending_point_count >= dirty_point_threshold /\ flusher' = "checked"
    /\ UNCHANGED <<dirty, sequence, published, caller, snapshot, channel, last_error, owner, flushErrors>>

(* flush: flush_snapshot under the read lock, then build_flush under none ... *)
Snapshot ==
    /\ flusher = "checked"
    /\ flusher' = "building"
    /\ snapshot' = [snapshot EXCEPT !["flusher"] = sequence]
    /\ UNCHANGED <<dirty, sequence, published, caller, channel, last_error, owner, flushErrors>>

(* publish_flush clears the dirty IDs only if nothing was written since the snapshot. *)
StillDirty(s) == IF s = sequence THEN {} ELSE dirty

(* ... and publish_flush under the write lock; a snapshot older than the last segment is *)
(* dropped.                                                                              *)
Publish ==
    LET s == snapshot["flusher"] IN
    /\ flusher = "building"
    /\ flusher' = "waiting"
    /\ IF s < published THEN UNCHANGED <<dirty, published>>
       ELSE published' = s /\ dirty' = StillDirty(s)
    /\ UNCHANGED <<sequence, caller, snapshot, channel, last_error, owner, flushErrors>>

(* The flush fails: the error is kept and the thread ends. *)
FailFlush ==
    /\ flusher \in {"checked", "building"}
    /\ flushErrors < MaxFlushErrors
    /\ flushErrors' = flushErrors + 1
    /\ last_error' = TRUE
    /\ flusher' = "ended"
    /\ UNCHANGED <<dirty, sequence, published, caller, snapshot, channel, owner>>

(* Another caller's flush, of a sequence that has no segment yet. *)
CallFlush ==
    /\ caller = "idle" /\ sequence > published
    /\ caller' = "building"
    /\ snapshot' = [snapshot EXCEPT !["caller"] = sequence]
    /\ UNCHANGED <<dirty, sequence, published, flusher, channel, last_error, owner, flushErrors>>

CallPublish ==
    LET s == snapshot["caller"] IN
    /\ caller = "building"
    /\ caller' = "idle"
    /\ IF s < published THEN UNCHANGED <<dirty, published>>
       ELSE published' = s /\ dirty' = StillDirty(s)
    /\ UNCHANGED <<sequence, flusher, snapshot, channel, last_error, owner, flushErrors>>

--------------------------------------------------------------------------------
(* stop, or the drop of the flusher: the message is sent and the thread joined ... *)
Stop ==
    /\ owner = "running"
    /\ channel' = TRUE
    /\ owner' = "joining"
    /\ UNCHANGED <<dirty, sequence, published, flusher, caller, snapshot, last_error, flushErrors>>

(* ... and its error is returned. *)
Joined ==
    /\ owner = "joining" /\ flusher = "ended"
    /\ owner' = IF last_error THEN "error" ELSE "ok"
    /\ UNCHANGED <<dirty, sequence, published, flusher, caller, snapshot, channel, last_error, flushErrors>>

FlushNext ==
    \/ \E ids \in (SUBSET Points) \ {{}} : WriteBatch(ids)
    \/ Wake \/ Snapshot \/ Publish \/ FailFlush
    \/ CallFlush \/ CallPublish
    \/ Stop \/ Joined

(* The thread and its owner are scheduled, and the write lock is granted. *)
FlushFairness ==
    /\ WF_flushing(Wake) /\ WF_flushing(Snapshot) /\ WF_flushing(Publish)
    /\ WF_flushing(Joined)

--------------------------------------------------------------------------------
(* While the flusher lives, dirty points are flushed once the writers pause: a flush that *)
(* was overtaken by a write or by another flush is followed by one that is not.           *)
DirtyFlushed ==
    []<>(pending_point_count < dirty_point_threshold \/ flusher = "ended")

(* stop returns, whatever the thread is doing when it is called.                          *)
StopReturns == owner = "joining" ~> owner \in {"ok", "error"}
================================================================================
