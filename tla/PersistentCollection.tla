------------------------- MODULE PersistentCollection -------------------------
(***************************************************************************)
(* One durable collection (persistence.rs over collection.rs): the         *)
(* write-ahead log, the immutable segment files, the MANIFEST that names   *)
(* them, the in-memory state they recover to, and the flush that turns     *)
(* dirty IDs into a new segment.                                           *)
(*                                                                         *)
(* Data abstraction.  A stored version of a point is identified with the   *)
(* commit sequence that wrote it, so a collection state is a function from *)
(* IDs to sequences, 0 standing for "no such point".  A segment file is    *)
(* named by its sequence (segment-<sequence>.fvs).  A WAL frame is either  *)
(* complete or Torn.  Temporary segment files have unique names and are    *)
(* never read after a restart; they are left out.  collection.meta exists  *)
(* and matches the configuration.                                          *)
(*                                                                         *)
(* Every file is modelled twice: what the operating system shows (wal,     *)
(* manifest, segments) and what has reached stable storage (durWal,        *)
(* durManifest, durSegments).  A process crash keeps the first, a power    *)
(* loss anything between the two.                                          *)
(***************************************************************************)
EXTENDS Naturals, Sequences, FiniteSets

CONSTANTS
    Ids,                 \* point IDs
    Flushers,            \* threads that may run a flush
    MAX_INDEX_SEGMENTS,  \* const MAX_INDEX_SEGMENTS
    MaxSeq,              \* bound: the last commit sequence (u64::MAX in the code)
    MaxCrashes,          \* bound: crashes and power losses
    MaxFaults,           \* bound: I/O calls that return an error
    Durability,          \* "Sync" or "Flush"
    IoFaults,            \* I/O calls that may return an error, by class
    PidReuse,            \* may a restarted process get its old process id?
    EmptyDeltas          \* may a caller flush a delta whose graph has no node?

FaultClasses == {"append",   \* writing or syncing a WAL frame
                 "cleanup",  \* truncating the WAL after a failed append
                 "early",    \* publication, up to the rename of MANIFEST
                 "late"}     \* publication, after the rename of MANIFEST

ASSUME ConstantsAssumption ==
    /\ MAX_INDEX_SEGMENTS \in Nat \ {0}
    /\ MaxSeq \in Nat
    /\ MaxCrashes \in Nat
    /\ MaxFaults \in Nat
    /\ Durability \in {"Sync", "Flush"}
    /\ IoFaults \subseteq FaultClasses
    /\ PidReuse \in BOOLEAN
    /\ EmptyDeltas \in BOOLEAN

Seqs == 0 .. MaxSeq

PointMap == [Ids -> Seqs]

NoPoints == [i \in Ids |-> 0]

Live(pts) == {i \in Ids : pts[i] # 0}

Frame == [op : {"upsert", "delete", "torn"}, sequence : Seqs, ids : SUBSET Ids]

Torn == [op |-> "torn", sequence |-> 0, ids |-> {}]

Segment == [kind : {"none", "full", "delta"}, ids : SUBSET Ids, points : PointMap]

NoSegment == [kind |-> "none", ids |-> {}, points |-> NoPoints]

Manifest == [sequence : Seqs, segments : Seq(Seqs)]

NoManifest == [sequence |-> 0, segments |-> <<>>]

IndexSegment == [sequence : Seqs, points : PointMap]

MetadataIndex == [present : BOOLEAN, points : PointMap]

NoMetadataIndex == [present |-> FALSE, points |-> NoPoints]

Prepared == [active : BOOLEAN, sequence : Seqs, compact : BOOLEAN,
             ids : SUBSET Ids, points : PointMap]

NotPrepared == [active |-> FALSE, sequence |-> 0, compact |-> FALSE,
                ids |-> {}, points |-> NoPoints]

VARIABLES
    wal, durWal,            \* write.wal: a sequence of frames
    manifest, durManifest,  \* MANIFEST
    segments, durSegments,  \* segment-<sequence>.fvs, by sequence
    manifestTmp,            \* is there a .MANIFEST.tmp-<pid> of this process id?
    status,                 \* closed, loading, replaying, up or failed
    pos,                    \* next segment or frame to recover
    points, latest,         \* inner: Collection (points and sequence)
    dirty,                  \* dirty_ids
    indexes,                \* indexes: Vec<IndexSegment>
    metadataIndex,          \* metadata_index
    stage,                  \* what the holder of the exclusive lock is doing
    publishing,             \* the flusher inside publish_flush, if any
    previous,               \* the manifest publish_flush read
    prepared,               \* the FlushSnapshot / PreparedFlush of each flusher
    committed,              \* history: the state after each commit sequence
    begun,                  \* history: the last sequence a write has tried
    acked,                  \* history: the last sequence returned to a caller
    crashes, faults         \* history: crashes and I/O errors so far

diskVars == <<wal, durWal, manifest, durManifest, segments, durSegments, manifestTmp>>
memoryVars == <<status, pos, points, latest, dirty, indexes, metadataIndex>>
flushVars == <<stage, publishing, previous, prepared>>
historyVars == <<committed, begun, acked, crashes, faults>>
vars == <<diskVars, memoryVars, flushVars, historyVars>>

Stages == {"free", "append", "segment", "segmentSynced", "manifestTmp",
           "manifest", "manifestSynced", "walCut"}

TypeOK ==
    /\ wal \in Seq(Frame) /\ durWal \in Seq(Frame)
    /\ manifest \in Manifest /\ durManifest \in Manifest /\ previous \in Manifest
    /\ segments \in [Seqs -> Segment] /\ durSegments \in [Seqs -> Segment]
    /\ manifestTmp \in BOOLEAN
    /\ status \in {"closed", "loading", "replaying", "up", "failed"}
    /\ pos \in Nat \ {0}
    /\ points \in PointMap /\ latest \in Seqs
    /\ dirty \subseteq Ids
    /\ indexes \in Seq(IndexSegment)
    /\ metadataIndex \in MetadataIndex
    /\ stage \in Stages
    /\ publishing \subseteq Flushers
    /\ prepared \in [Flushers -> Prepared]
    /\ committed \in [Seqs -> PointMap]
    /\ begun \in Seqs /\ acked \in Seqs
    /\ crashes \in Nat /\ faults \in Nat

(***************************************************************************)
(* Init: an empty, open collection whose directory holds an empty WAL and  *)
(* no manifest.                                                            *)
(***************************************************************************)
Init ==
    /\ wal = <<>> /\ durWal = <<>>
    /\ manifest = NoManifest /\ durManifest = NoManifest
    /\ segments = [s \in Seqs |-> NoSegment] /\ durSegments = segments
    /\ manifestTmp = FALSE
    /\ status = "up" /\ pos = 1
    /\ points = NoPoints /\ latest = 0
    /\ dirty = {} /\ indexes = <<>> /\ metadataIndex = NoMetadataIndex
    /\ stage = "free" /\ publishing = {} /\ previous = NoManifest
    /\ prepared = [f \in Flushers |-> NotPrepared]
    /\ committed = [s \in Seqs |-> NoPoints]
    /\ begun = 0 /\ acked = 0 /\ crashes = 0 /\ faults = 0

(* An I/O call of the given class returns an error. *)
IoError(class) ==
    /\ class \in IoFaults
    /\ faults < MaxFaults
    /\ faults' = faults + 1
    /\ UNCHANGED <<committed, begun, acked, crashes>>

(* No exclusive operation is running: readers and writers may take the lock. *)
Unlocked == status = "up" /\ stage = "free"

-------------------------------------------------------------------------------
(* Writes: upsert and delete, through append_frame.                        *)

(* What applying a frame makes of a state (apply_prepared_upsert, apply_delete_at). *)
ApplyFrame(pts, frame) ==
    [i \in Ids |-> IF i \notin frame.ids THEN pts[i]
                   ELSE IF frame.op = "upsert" THEN frame.sequence ELSE 0]

(* A mutant of HasNextSequence: the sequence is incremented without checked_add. *)
NeverOverflows == TRUE

(* checked_add: there is a sequence after latest. *)
HasNextSequence == latest < MaxSeq

(* upsert / delete up to the write: the frame is in the file, whole or cut short. *)
BeginAppend(op, ids) ==
    /\ Unlocked
    /\ ids # {}
    /\ HasNextSequence
    /\ LET frame == [op |-> op, sequence |-> latest + 1, ids |-> ids]
       IN  /\ \E written \in {frame, Torn} : wal' = Append(wal, written)
           /\ committed' = [committed EXCEPT ![latest + 1] = ApplyFrame(points, frame)]
    /\ begun' = latest + 1
    /\ stage' = "append"
    /\ UNCHANGED <<durWal, manifest, durManifest, segments, durSegments, manifestTmp>>
    /\ UNCHANGED memoryVars
    /\ UNCHANGED <<publishing, previous, prepared, acked, crashes, faults>>

(* A mutant of WalAfterSync: sync_data is forgotten. *)
WalNotSynced == durWal

(* What append_frame leaves on stable storage. *)
WalAfterSync == IF Durability = "Sync" THEN wal ELSE durWal

(* The frame is complete, synced under Durability::Sync, applied and acknowledged. *)
CompleteAppend ==
    /\ stage = "append"
    /\ LET frame == wal[Len(wal)]
       IN  /\ frame # Torn
           /\ points' = ApplyFrame(points, frame)
           /\ latest' = frame.sequence
           /\ dirty' = dirty \union frame.ids
           /\ acked' = frame.sequence
    /\ durWal' = WalAfterSync
    /\ stage' = "free"
    /\ UNCHANGED <<wal, manifest, durManifest, segments, durSegments, manifestTmp>>
    /\ UNCHANGED <<status, pos, indexes, metadataIndex>>
    /\ UNCHANGED <<publishing, previous, prepared, committed, begun, crashes, faults>>

(* The write or the sync failed: append_frame truncates to frame_start, ignoring *)
(* an error of the truncation itself, and the caller gets the error.             *)
FailAppend ==
    /\ stage = "append"
    /\ IoError("append")
    /\ \/ wal' = SubSeq(wal, 1, Len(wal) - 1)
       \/ "cleanup" \in IoFaults /\ UNCHANGED wal
    /\ stage' = "free"
    /\ UNCHANGED <<durWal, manifest, durManifest, segments, durSegments, manifestTmp>>
    /\ UNCHANGED memoryVars
    /\ UNCHANGED <<publishing, previous, prepared>>

-------------------------------------------------------------------------------
(* Flush: flush_snapshot and build_flush, then publish_flush.              *)

Compacts == indexes = <<>> \/ Len(indexes) >= MAX_INDEX_SEGMENTS

(* flush_snapshot under the read lock and build_flush off it: the build reads only *)
(* the snapshot and writes only a temporary file of its own.                       *)
FlushSnapshot(f) ==
    /\ Unlocked
    /\ ~prepared[f].active
    /\ prepared' = [prepared EXCEPT ![f] =
                      [active |-> TRUE, sequence |-> latest, compact |-> Compacts,
                       ids |-> IF Compacts THEN Ids ELSE dirty, points |-> points]]
    /\ UNCHANGED diskVars
    /\ UNCHANGED memoryVars
    /\ UNCHANGED <<stage, publishing, previous>>
    /\ UNCHANGED historyVars

(* The points stored in the prepared segment; a delta also lists its tombstones: *)
(* the IDs it covers that have no point.                                         *)
SegmentPoints(p) == [i \in Ids |-> IF i \in p.ids THEN p.points[i] ELSE 0]

SegmentFile(p) == [kind |-> IF p.compact THEN "full" ELSE "delta",
                   ids |-> p.ids, points |-> SegmentPoints(p)]

(* read_manifest accepts a missing manifest, or 1 .. MAX_INDEX_SEGMENTS + 1 distinct names. *)
ReadManifest(m) ==
    /\ Len(m.segments) <= MAX_INDEX_SEGMENTS + 1
    /\ \A a, b \in DOMAIN m.segments : m.segments[a] = m.segments[b] => a = b

(* A mutant of Stale: a builder that lost the race publishes all the same. *)
NeverStale(f) == FALSE

(* A newer manifest was published while this flush was built. *)
Stale(f) == manifest.sequence > prepared[f].sequence

(* publish_flush returns early: the manifest is unreadable, or a newer one is published, *)
(* or building or renaming the temporary segment fails.  Dropping the PreparedFlush      *)
(* removes the temporary segment.                                                        *)
PublishNothing(f) ==
    /\ Unlocked
    /\ prepared[f].active
    /\ \/ /\ ~ReadManifest(manifest) \/ Stale(f)
          /\ UNCHANGED historyVars
       \/ IoError("early")
    /\ prepared' = [prepared EXCEPT ![f] = NotPrepared]
    /\ UNCHANGED diskVars
    /\ UNCHANGED memoryVars
    /\ UNCHANGED <<stage, publishing, previous>>

(* Rename the temporary segment over segment-<sequence>.fvs. *)
PublishSegment(f) ==
    /\ Unlocked
    /\ prepared[f].active
    /\ ReadManifest(manifest)
    /\ ~Stale(f)
    /\ segments' = [segments EXCEPT ![prepared[f].sequence] = SegmentFile(prepared[f])]
    /\ previous' = manifest
    /\ publishing' = {f}
    /\ stage' = "segment"
    /\ UNCHANGED <<wal, durWal, manifest, durManifest, durSegments, manifestTmp, prepared>>
    /\ UNCHANGED memoryVars
    /\ UNCHANGED historyVars

(* sync_directory makes every rename and unlink so far durable. *)
SyncDirectory ==
    /\ durManifest' = manifest
    /\ durSegments' = segments
    /\ UNCHANGED <<wal, durWal, manifest, segments, manifestTmp>>

Step(from, to) ==
    /\ stage = from
    /\ stage' = to
    /\ UNCHANGED <<publishing, previous, prepared>>

SyncSegment ==
    /\ Step("segment", "segmentSynced")
    /\ SyncDirectory
    /\ UNCHANGED memoryVars
    /\ UNCHANGED historyVars

(* publish_manifest: write and sync .MANIFEST.tmp-<pid>, which must not exist yet ... *)
WriteManifest ==
    /\ Step("segmentSynced", "manifestTmp")
    /\ ~manifestTmp
    /\ manifestTmp' = TRUE
    /\ UNCHANGED <<wal, durWal, manifest, durManifest, segments, durSegments>>
    /\ UNCHANGED memoryVars
    /\ UNCHANGED historyVars

(* ... rename it over MANIFEST ... *)
RenameManifest(f) ==
    /\ Step("manifestTmp", "manifest")
    /\ manifest' = [sequence |-> prepared[f].sequence,
                    segments |-> Append(IF prepared[f].compact THEN <<>> ELSE previous.segments,
                                        prepared[f].sequence)]
    /\ manifestTmp' = FALSE
    /\ UNCHANGED <<wal, durWal, durManifest, segments, durSegments>>
    /\ UNCHANGED memoryVars
    /\ UNCHANGED historyVars

(* A mutant of SyncManifest: the directory is not synced after the rename. *)
ManifestNotSynced ==
    /\ Step("manifest", "manifestSynced")
    /\ UNCHANGED diskVars
    /\ UNCHANGED memoryVars
    /\ UNCHANGED historyVars

(* ... and sync the directory. *)
SyncManifest ==
    /\ Step("manifest", "manifestSynced")
    /\ SyncDirectory
    /\ UNCHANGED memoryVars
    /\ UNCHANGED historyVars

(* A mutant of SnapshotIsCurrent: writes made while the segment was built are forgotten. *)
AlwaysCurrent(f) == TRUE

(* Nothing was written since the snapshot of this flush. *)
SnapshotIsCurrent(f) == latest = prepared[f].sequence

(* The WAL is emptied only when the snapshot is still current. *)
TruncateWal(f) ==
    /\ Step("manifestSynced", "walCut")
    /\ wal' = IF SnapshotIsCurrent(f) THEN <<>> ELSE wal
    /\ UNCHANGED <<durWal, manifest, durManifest, segments, durSegments, manifestTmp>>
    /\ UNCHANGED memoryVars
    /\ UNCHANGED historyVars

(* The new index segment, when it has any node. *)
NewIndex(p) ==
    IF Live(SegmentPoints(p)) = {} THEN <<>>
    ELSE <<[sequence |-> p.sequence, points |-> SegmentPoints(p)]>>

(* A mutant of Retired: the file just published is removed with the old ones. *)
RetiredWithNew(p) == {n \in Seqs : \E a \in DOMAIN previous.segments : previous.segments[a] = n}

(* The files a full segment replaces. *)
Retired(p) == {n \in Seqs : \E a \in DOMAIN previous.segments : previous.segments[a] = n}
                 \ {p.sequence}

(* The rest of publish_flush: WAL sync, dirty_ids, retired files, indexes and metadata.   *)
(* replace_persisted_points swaps the vector storage of versions it leaves unchanged, so  *)
(* points stays as it is.                                                                 *)
FinishPublish(f) ==
    LET p == prepared[f]
    IN  /\ stage = "walCut"
        /\ durWal' = IF SnapshotIsCurrent(f) THEN wal ELSE durWal
        /\ dirty' = IF SnapshotIsCurrent(f) THEN {} ELSE dirty
        /\ segments' = IF p.compact
                       THEN [n \in Seqs |-> IF n \in Retired(p) THEN NoSegment ELSE segments[n]]
                       ELSE segments
        /\ indexes' = (IF p.compact THEN <<>> ELSE indexes) \o NewIndex(p)
        /\ metadataIndex' = [present |-> TRUE, points |-> p.points]
        /\ stage' = "free"
        /\ publishing' = {}
        /\ previous' = NoManifest
        /\ prepared' = [prepared EXCEPT ![f] = NotPrepared]
        /\ UNCHANGED <<wal, manifest, durManifest, durSegments, manifestTmp>>
        /\ UNCHANGED <<status, pos, points, latest>>
        /\ UNCHANGED historyVars

(* An I/O error inside publish_flush: whatever reached the files stays, the memory *)
(* is untouched, the caller gets the error.  create_new fails by itself when an    *)
(* earlier publication left .MANIFEST.tmp-<pid> behind.                            *)
FailPublish(f) ==
    /\ \/ stage \in {"segment", "segmentSynced", "manifestTmp"} /\ IoError("early")
       \/ stage = "segmentSynced" /\ manifestTmp /\ UNCHANGED historyVars
       \/ stage = "manifest" /\ IoError("late")
       \/ /\ stage \in {"manifestSynced", "walCut"} /\ SnapshotIsCurrent(f)
          /\ IoError("late")
    /\ stage' = "free"
    /\ publishing' = {}
    /\ previous' = NoManifest
    /\ prepared' = [prepared EXCEPT ![f] = NotPrepared]
    /\ UNCHANGED diskVars
    /\ UNCHANGED memoryVars

-------------------------------------------------------------------------------
(* Crashes and recovery.                                                   *)

(* Everything in memory is gone; the handle is closed. *)
LoseMemory ==
    /\ crashes < MaxCrashes
    /\ crashes' = crashes + 1
    /\ status # "closed"
    /\ status' = "closed" /\ pos' = 1
    /\ points' = NoPoints /\ latest' = 0
    /\ dirty' = {} /\ indexes' = <<>> /\ metadataIndex' = NoMetadataIndex
    /\ stage' = "free" /\ publishing' = {} /\ previous' = NoManifest
    /\ prepared' = [f \in Flushers |-> NotPrepared]
    /\ UNCHANGED <<committed, begun, faults>>

(* The process dies (or the handle is dropped): the files stay as they are. *)
Crash ==
    /\ LoseMemory
    /\ manifestTmp' = (PidReuse /\ manifestTmp)
    /\ UNCHANGED <<wal, durWal, manifest, durManifest, segments, durSegments>>
    /\ UNCHANGED acked

(* How many frames of wal a power loss keeps: at least the prefix already durable. *)
KeptFrames == {n \in 0 .. Len(wal) :
                 \A k \in 1 .. Len(wal) :
                   (k <= Len(durWal) /\ \A j \in 1 .. k : wal[j] = durWal[j]) => k <= n}

(* The old contents, a prefix of the new ones, or such a prefix and a torn frame. *)
PowerLossWals ==
    {durWal} \union {SubSeq(wal, 1, n) : n \in KeptFrames}
             \union {Append(SubSeq(wal, 1, n), Torn) : n \in KeptFrames \ {Len(wal)}}

(* The sequences a manifest and a log hold. *)
Recoverable(m, w) == {m.sequence} \union {w[k].sequence : k \in DOMAIN w}

(* Under Durability::Flush a power loss may take acknowledged writes that were not synced. *)
LoseAcknowledged(kept) ==
    IF Durability = "Sync" \/ \E s \in kept : s >= acked
    THEN acked' = acked
    ELSE acked' \in {s \in kept : \A t \in kept : t <= s}

(* Power fails: each file and directory entry is as last synced or newer. *)
PowerLoss ==
    /\ LoseMemory
    /\ wal' \in PowerLossWals
    /\ manifest' \in {manifest, durManifest}
    /\ segments' \in {g \in [Seqs -> {segments[n] : n \in Seqs} \union {durSegments[n] : n \in Seqs}] :
                        \A n \in Seqs : g[n] \in {segments[n], durSegments[n]}}
    /\ durWal' = wal' /\ durManifest' = manifest' /\ durSegments' = segments'
    /\ manifestTmp' \in {FALSE, PidReuse /\ manifestTmp}
    /\ LoseAcknowledged(Recoverable(manifest', wal'))

(* open_with_cuda, up to read_manifest. *)
Open ==
    /\ status = "closed"
    /\ status' = IF ReadManifest(manifest) THEN "loading" ELSE "failed"
    /\ UNCHANGED diskVars
    /\ UNCHANGED <<pos, points, latest, dirty, indexes, metadataIndex>>
    /\ UNCHANGED flushVars
    /\ UNCHANGED historyVars

(* load_current_segments checks: a full segment first, then ordered deltas, the last *)
(* one as new as the manifest, every point no newer than its segment.                *)
SegmentLoads(p) ==
    LET n == manifest.segments[p]
    IN  /\ segments[n].kind = (IF p = 1 THEN "full" ELSE "delta")
        /\ p > 1 => n > manifest.segments[p - 1]
        /\ p = Len(manifest.segments) => n = manifest.sequence
        /\ segments[n].kind = "full" => \A i \in Ids : segments[n].points[i] <= n

(* A mutant of PointsAfter: the tombstones of a delta are ignored. *)
PointsWithoutTombstones(file) ==
    [i \in Ids |-> IF file.points[i] # 0 THEN file.points[i] ELSE points[i]]

(* restore_stored_snapshot for a full segment; apply_prepared_upsert and apply_delete_at for a delta. *)
PointsAfter(file) == [i \in Ids |-> IF i \in file.ids THEN file.points[i] ELSE points[i]]

LoadSegment ==
    /\ status = "loading"
    /\ pos <= Len(manifest.segments)
    /\ LET n == manifest.segments[pos]
           file == segments[n]
           nodes == [sequence |-> n, points |-> file.points]
       IN  \/ /\ ~SegmentLoads(pos)
              /\ status' = "failed"
              /\ UNCHANGED <<pos, points, latest, indexes>>
           \/ /\ SegmentLoads(pos)
              /\ points' = PointsAfter(file)
              /\ latest' = n
              /\ indexes' = indexes \o (IF Live(file.points) = {} THEN <<>> ELSE <<nodes>>)
              /\ pos' = pos + 1
              /\ UNCHANGED status
    /\ UNCHANGED diskVars
    /\ UNCHANGED <<dirty, metadataIndex>>
    /\ UNCHANGED flushVars
    /\ UNCHANGED historyVars

(* All segments are loaded: the metadata index is rebuilt, recover starts on the WAL. *)
BeginReplay ==
    /\ status = "loading"
    /\ pos > Len(manifest.segments)
    /\ status' = "replaying" /\ pos' = 1
    /\ metadataIndex' = IF manifest.segments = <<>> THEN NoMetadataIndex
                        ELSE [present |-> TRUE, points |-> points]
    /\ UNCHANGED diskVars
    /\ UNCHANGED <<points, latest, dirty, indexes>>
    /\ UNCHANGED flushVars
    /\ UNCHANGED historyVars

(* recover: one frame.  apply_payload skips what the manifest already holds and *)
(* refuses a gap.                                                               *)
ReplayFrame ==
    /\ status = "replaying"
    /\ pos <= Len(wal)
    /\ wal[pos] # Torn
    /\ LET frame == wal[pos]
           next == frame.sequence = latest + 1
       IN  /\ status' = IF frame.sequence > latest + 1 THEN "failed" ELSE status
           /\ points' = IF next THEN ApplyFrame(points, frame) ELSE points
           /\ latest' = IF next THEN frame.sequence ELSE latest
           /\ dirty' = IF next THEN dirty \union frame.ids ELSE dirty
    /\ pos' = pos + 1
    /\ UNCHANGED diskVars
    /\ UNCHANGED <<indexes, metadataIndex>>
    /\ UNCHANGED flushVars
    /\ UNCHANGED historyVars

(* A mutant of BytesFollow: an incomplete last frame is corruption too. *)
AnyTornFrame == TRUE

(* The incomplete frame is not the last one. *)
BytesFollow == pos < Len(wal)

(* recover: an incomplete frame.  At the end of the log it is truncated.  In the middle *)
(* its length field swallows what follows: the checksum fails, or the file ends first   *)
(* and everything from here on is truncated.                                            *)
ReplayTorn ==
    /\ status = "replaying"
    /\ pos <= Len(wal)
    /\ wal[pos] = Torn
    /\ \/ /\ wal' = SubSeq(wal, 1, pos - 1)
          /\ UNCHANGED status
       \/ /\ BytesFollow
          /\ status' = "failed"
          /\ UNCHANGED wal
    /\ UNCHANGED <<durWal, manifest, durManifest, segments, durSegments, manifestTmp>>
    /\ UNCHANGED <<pos, points, latest, dirty, indexes, metadataIndex>>
    /\ UNCHANGED flushVars
    /\ UNCHANGED historyVars

OpenDone ==
    /\ status = "replaying"
    /\ pos > Len(wal)
    /\ status' = "up" /\ pos' = 1
    /\ UNCHANGED diskVars
    /\ UNCHANGED <<points, latest, dirty, indexes, metadataIndex>>
    /\ UNCHANGED flushVars
    /\ UNCHANGED historyVars

-------------------------------------------------------------------------------
(* The steps of operations already begun, of recovery, and of failures.    *)

AppendStep == CompleteAppend \/ FailAppend

PublishStep(f) ==
    \/ PublishNothing(f)
    \/ PublishSegment(f)
    \/ /\ f \in publishing
       /\ \/ SyncSegment
          \/ WriteManifest
          \/ RenameManifest(f)
          \/ SyncManifest
          \/ TruncateWal(f)
          \/ FinishPublish(f)
          \/ FailPublish(f)

RecoveryStep == Open \/ LoadSegment \/ BeginReplay \/ ReplayFrame \/ ReplayTorn \/ OpenDone

Write == \E op \in {"upsert", "delete"}, ids \in SUBSET Ids : BeginAppend(op, ids)

SystemStep ==
    \/ AppendStep
    \/ \E f \in Flushers : PublishStep(f)
    \/ RecoveryStep
    \/ Crash
    \/ PowerLoss

(* A flush whose graph has a node, or a caller this instance lets flush without one. *)
(* The code makes no such check.                                                     *)
GraphAllowed == EmptyDeltas \/ Compacts \/ \E i \in dirty : points[i] # 0

(***************************************************************************)
(* A PersistentCollection used directly: upsert, delete and flush take     *)
(* &mut self, so no write overlaps a flush, and flush returns at once when *)
(* nothing is dirty and there is an index.                                 *)
(***************************************************************************)
Flush(f) ==
    /\ ~(dirty = {} /\ indexes # <<>>)
    /\ GraphAllowed
    /\ FlushSnapshot(f)

OwnedNext ==
    \/ /\ \A f \in Flushers : ~prepared[f].active
       /\ Write \/ \E f \in Flushers : Flush(f)
    \/ SystemStep

OwnedSpec == Init /\ [][OwnedNext]_vars

-------------------------------------------------------------------------------
(* Properties.                                                             *)

(* Whenever the collection is open, its points are exactly those of the last    *)
(* commit it knows, and it knows every commit acknowledged to a caller: upsert, *)
(* delete, publish_flush, recover and any crash between their steps included.   *)
AckedRecovered ==
    status = "up" => latest >= acked /\ points = committed[latest]

(* After crashes alone (no file is damaged by anything else) open succeeds:     *)
(* read_manifest, load_current_segments and recover meet none of the states     *)
(* they report as CorruptStorage.                                               *)
OpenNeverFails == status # "failed"

(* However many flushes overlap and whatever fails, all that can stop open is a manifest with *)
(* more names than read_manifest accepts: load_current_segments finds every segment the       *)
(* manifest names whole and in order, and recover finds no gap and no damage before the end   *)
(* of the log.                                                                                *)
OpensUnlessOutgrown == status = "failed" => Len(manifest.segments) > MAX_INDEX_SEGMENTS + 1

(* search_with_ef keeps a hit of graph k: it is stored, not dirty and no newer than *)
(* the segment.                                                                     *)
KeepsHit(k, i) ==
    /\ indexes[k].points[i] # 0
    /\ points[i] # 0
    /\ i \notin dirty
    /\ points[i] <= indexes[k].sequence

(* The graphs and the exact scan of dirty IDs together cover every live point,     *)
(* a graph hit that search_with_ef keeps was built from the current version, and   *)
(* outside dirty_ids the metadata index describes the current versions: a search   *)
(* misses nothing and serves nothing stale, however flushes and writes interleave. *)
SearchExact ==
    Unlocked =>
      /\ indexes # <<>> =>
           \A i \in Live(points) : i \in dirty \/ \E k \in DOMAIN indexes : KeepsHit(k, i)
      /\ \A k \in DOMAIN indexes, i \in Ids : KeepsHit(k, i) => indexes[k].points[i] = points[i]
      /\ metadataIndex.present => \A i \in Ids \ dirty : metadataIndex.points[i] = points[i]

ManifestNames(m) == {m.segments[a] : a \in DOMAIN m.segments}

(* The comments in publish_flush and load_current_segments: a published segment    *)
(* file is immutable, and retired only after a replacement manifest is durable.    *)
SegmentsImmutable ==
    [][\A n \in ManifestNames(durManifest) : segments'[n] = segments[n]]_<<segments, durManifest>>

(* A stale builder never replaces newer work: the durable manifest only advances. *)
ManifestAdvances == [][durManifest'.sequence >= durManifest.sequence]_durManifest

===============================================================================
