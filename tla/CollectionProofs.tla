--------------------------- MODULE CollectionProofs ---------------------------
(***************************************************************************)
(* Proofs about SharedCollection, for every set of IDs, number of flushing *)
(* threads, segment limit and bound: types, the facts that the other proof *)
(* modules share, and that writes (the start of an append, its fsync, its  *)
(* rollback) keep Inv.                                                     *)
(***************************************************************************)
EXTENDS CollectionInvariant, TLAPS

(* The constant records have their types. *)
LEMMA ConstantTypes ==
    /\ 0 \in Seqs
    /\ NoPoints \in PointMap
    /\ Torn \in Frame
    /\ NoSegment \in Segment
    /\ NoManifest \in Manifest
    /\ NoMetadataIndex \in MetadataIndex
    /\ NotPrepared \in Prepared
BY ConstantsAssumption DEF Seqs, NoPoints, PointMap, Torn, Frame, NoSegment, Segment,
    NoManifest, Manifest, NoMetadataIndex, MetadataIndex, NotPrepared, Prepared

(* The type invariant holds initially. *)
LEMMA InitTypeOK == Init => TypeOK
BY ConstantTypes, SMTT(60) DEF Init, TypeOK, Stages

(* Applying a well-formed frame gives a well-formed state. *)
LEMMA ApplyFrameType ==
    ASSUME NEW pts \in PointMap, NEW frame \in Frame
    PROVE  ApplyFrame(pts, frame) \in PointMap
BY ConstantTypes DEF PointMap, Frame, ApplyFrame, Seqs

(* Cutting frames off the end of a log leaves a log. *)
LEMMA PrefixType ==
    ASSUME NEW S, NEW w \in Seq(S), NEW n \in 0 .. Len(w)
    PROVE  /\ SubSeq(w, 1, n) \in Seq(S)
           /\ Len(SubSeq(w, 1, n)) = n
           /\ \A k \in 1 .. n : SubSeq(w, 1, n)[k] = w[k]
OBVIOUS

(* upsert and delete keep the types. *)
LEMMA WriteTypeOK ==
    ASSUME TypeOK, NEW op \in {"upsert", "delete"}, NEW ids \in SUBSET Ids, BeginAppend(op, ids)
    PROVE  TypeOK'
<1> DEFINE frame == [op |-> op, sequence |-> latest + 1, ids |-> ids]
<1>1. latest + 1 \in Seqs
  BY ConstantsAssumption DEF TypeOK, BeginAppend, HasNextSequence, Seqs
<1>2. frame \in Frame
  BY <1>1 DEF Frame
<1>3. ApplyFrame(points, frame) \in PointMap
  BY <1>2, ApplyFrameType DEF TypeOK
<1>4. wal' \in Seq(Frame)
  BY <1>2, ConstantTypes DEF TypeOK, BeginAppend
<1>5. committed' \in [Seqs -> PointMap]
  BY <1>1, <1>3 DEF TypeOK, BeginAppend
<1> QED
  BY <1>1, <1>4, <1>5 DEF TypeOK, BeginAppend, memoryVars, Stages

(* The end of a write, and its failure, keep the types. *)
LEMMA AppendStepTypeOK ==
    ASSUME TypeOK, AppendStep, stage = "append" => wal # <<>>
    PROVE  TypeOK'
<1>0. /\ wal # <<>> /\ Len(wal) \in Nat \ {0} /\ Len(wal) \in DOMAIN wal
      /\ wal[Len(wal)] \in Frame
  BY DEF TypeOK, AppendStep, CompleteAppend, FailAppend
<1>1. CASE CompleteAppend
  <2>1. ApplyFrame(points, wal[Len(wal)]) \in PointMap
    BY <1>0, ApplyFrameType DEF TypeOK
  <2>2. wal[Len(wal)].sequence \in Seqs /\ wal[Len(wal)].ids \in SUBSET Ids
    BY <1>0 DEF Frame
  <2> QED
    BY <1>1, <2>1, <2>2 DEF TypeOK, CompleteAppend, WalAfterSync, Stages
<1>2. CASE FailAppend
  <2>1. SubSeq(wal, 1, Len(wal) - 1) \in Seq(Frame)
    <3>1. Len(wal) - 1 \in 0 .. Len(wal) /\ wal \in Seq(Frame)
      BY <1>0 DEF TypeOK
    <3> QED
      BY <3>1, PrefixType
  <2>2. wal' \in Seq(Frame)
    BY <1>2, <2>1, ZenonT(20) DEF TypeOK, FailAppend
  <2>3. /\ faults' \in Nat /\ stage' \in Stages
        /\ UNCHANGED <<durWal, manifest, durManifest, segments, durSegments, manifestTmp>>
        /\ UNCHANGED memoryVars
        /\ UNCHANGED <<publishing, previous, prepared, committed, begun, acked, crashes>>
    BY <1>2 DEF TypeOK, FailAppend, IoError, Stages
  <2> QED
    BY <2>2, <2>3 DEF TypeOK, memoryVars
<1> QED
  BY <1>1, <1>2 DEF AppendStep

(* The segment a flusher writes is well formed. *)
LEMMA SegmentFileType ==
    ASSUME NEW p \in Prepared
    PROVE  SegmentPoints(p) \in PointMap /\ SegmentFile(p) \in Segment
<1>1. p.points \in PointMap /\ p.ids \in SUBSET Ids /\ p.compact \in BOOLEAN
  BY DEF Prepared
<1>2. SegmentPoints(p) \in PointMap
  BY <1>1, ConstantTypes DEF SegmentPoints, PointMap
<1> QED
  BY <1>1, <1>2 DEF SegmentFile, Segment

(* flush_snapshot keeps the types. *)
LEMMA SnapshotTypeOK ==
    ASSUME TypeOK, NEW f \in Flushers, FlushSnapshot(f)
    PROVE  TypeOK'
<1>1. prepared'[f] \in Prepared
  BY DEF TypeOK, FlushSnapshot, Prepared, Compacts
<1>2. prepared' \in [Flushers -> Prepared]
  BY <1>1 DEF TypeOK, FlushSnapshot
<1> QED
  BY <1>2 DEF TypeOK, FlushSnapshot, diskVars, memoryVars, historyVars

(* publish_flush keeps the types. *)
LEMMA PublishTypeOK ==
    ASSUME TypeOK, NEW f \in Flushers, PublishStep(f)
    PROVE  TypeOK'
<1>0. /\ prepared[f] \in Prepared
      /\ prepared[f].sequence \in Seqs
      /\ prepared[f].points \in PointMap
      /\ SegmentFile(prepared[f]) \in Segment
      /\ SegmentPoints(prepared[f]) \in PointMap
      /\ [prepared EXCEPT ![f] = NotPrepared] \in [Flushers -> Prepared]
  BY SegmentFileType, ConstantTypes DEF TypeOK, Prepared
<1>1. CASE PublishNothing(f)
  BY <1>0, <1>1 DEF TypeOK, PublishNothing, IoError, diskVars, memoryVars, historyVars
<1>2. CASE PublishSegment(f)
  BY <1>0, <1>2 DEF TypeOK, PublishSegment, memoryVars, historyVars, Stages
<1>3. CASE SyncSegment
  BY <1>3 DEF TypeOK, SyncSegment, SyncDirectory, Step, memoryVars, historyVars, Stages
<1>4. CASE WriteManifest
  BY <1>4 DEF TypeOK, WriteManifest, Step, memoryVars, historyVars, Stages
<1>5. CASE RenameManifest(f)
  <2>1. manifest' \in Manifest
    BY <1>0, <1>5 DEF TypeOK, RenameManifest, Manifest
  <2> QED
    BY <1>5, <2>1, ZenonT(20) DEF TypeOK, RenameManifest, Step, memoryVars, historyVars, Stages
<1>6. CASE SyncManifest
  BY <1>6 DEF TypeOK, SyncManifest, SyncDirectory, Step, memoryVars, historyVars, Stages
<1>7. CASE TruncateWal(f)
  BY <1>7 DEF TypeOK, TruncateWal, Step, memoryVars, historyVars, Stages
<1>8. CASE FinishPublish(f)
  <2>1. NewIndex(prepared[f]) \in Seq(IndexSegment)
    <3>1. [sequence |-> prepared[f].sequence, points |-> SegmentPoints(prepared[f])] \in IndexSegment
      BY <1>0 DEF IndexSegment
    <3> QED
      BY <3>1 DEF NewIndex
  <2>2. indexes' \in Seq(IndexSegment)
    BY <1>8, <2>1 DEF TypeOK, FinishPublish
  <2>3. segments' \in [Seqs -> Segment]
    BY <1>8, ConstantTypes DEF TypeOK, FinishPublish
  <2>4. metadataIndex' \in MetadataIndex
    BY <1>0, <1>8, ZenonT(60) DEF FinishPublish, MetadataIndex
  <2> QED
    BY <1>0, <1>8, <2>2, <2>3, <2>4, ConstantTypes DEF TypeOK, FinishPublish, historyVars, Stages
<1>9. CASE FailPublish(f)
  BY <1>0, <1>9, ConstantTypes
     DEF TypeOK, FailPublish, IoError, diskVars, memoryVars, historyVars, Stages
<1> QED
  BY <1>1, <1>2, <1>3, <1>4, <1>5, <1>6, <1>7, <1>8, <1>9 DEF PublishStep

(* What a power loss leaves of the log is a log. *)
LEMMA PowerLossWalType ==
    ASSUME TypeOK, NEW w \in PowerLossWals
    PROVE  w \in Seq(Frame)
<1>1. \A n \in KeptFrames : SubSeq(wal, 1, n) \in Seq(Frame)
  BY PrefixType DEF KeptFrames, TypeOK
<1>2. \A n \in KeptFrames : Append(SubSeq(wal, 1, n), Torn) \in Seq(Frame)
  BY <1>1, ConstantTypes
<1> QED
  BY <1>1, <1>2, ZenonT(20) DEF PowerLossWals, TypeOK

(* What recovery may reach is a sequence. *)
LEMMA RecoverableType ==
    ASSUME NEW m \in Manifest, NEW w \in Seq(Frame)
    PROVE  Recoverable(m, w) \subseteq Seqs
<1>1. m.sequence \in Seqs
  BY DEF Manifest
<1>2. \A k \in DOMAIN w : w[k].sequence \in Seqs
  <2>1. \A k \in DOMAIN w : w[k] \in Frame
    OBVIOUS
  <2> QED
    BY <2>1 DEF Frame
<1>3. \A s \in Recoverable(m, w) : s = m.sequence \/ \E k \in DOMAIN w : s = w[k].sequence
  BY DEF Recoverable
<1> QED
  BY <1>1, <1>2, <1>3

(* Sequences are numbers. *)
LEMMA RecoverableNat ==
    ASSUME NEW m \in Manifest, NEW w \in Seq(Frame)
    PROVE  \A s \in Recoverable(m, w) : s \in Nat
<1>1. Seqs \subseteq Nat
  BY ConstantsAssumption DEF Seqs
<1> QED
  BY <1>1, RecoverableType, Zenon

(* A crash and a power loss keep the types. *)
LEMMA CrashTypeOK ==
    ASSUME TypeOK, Crash \/ PowerLoss
    PROVE  TypeOK'
<1>0. ASSUME LoseMemory
      PROVE  /\ status' = "closed" /\ pos' = 1 /\ points' = NoPoints /\ latest' = 0
             /\ dirty' = {} /\ indexes' = <<>> /\ metadataIndex' = NoMetadataIndex
             /\ stage' = "free" /\ publishing' = {} /\ previous' = NoManifest
             /\ prepared' \in [Flushers -> Prepared]
             /\ crashes' \in Nat /\ faults' \in Nat
             /\ committed' = committed /\ begun' = begun
  BY <1>0, ConstantTypes DEF LoseMemory, TypeOK
<1>1. CASE Crash
  BY <1>0, <1>1, ConstantTypes, ConstantsAssumption DEF TypeOK, Crash, Stages
<1>2. CASE PowerLoss
  <2>1. wal' \in Seq(Frame)
    BY <1>2, PowerLossWalType, ZenonT(60) DEF PowerLoss
  <2>2. manifest' \in Manifest
    BY <1>2 DEF PowerLoss, TypeOK
  <2>3. segments' \in [Seqs -> Segment]
    BY <1>2, ZenonT(60) DEF PowerLoss, TypeOK
  <2>4. acked' \in Seqs
    <3>1. Recoverable(manifest', wal') \subseteq Seqs
      BY <2>1, <2>2, RecoverableType
    <3> QED
      BY <1>2, <3>1 DEF PowerLoss, LoseAcknowledged, TypeOK
  <2>5. manifestTmp' \in BOOLEAN
    BY <1>2, ConstantsAssumption, ZenonT(20) DEF PowerLoss, TypeOK
  <2>6. LoseMemory /\ durWal' = wal' /\ durManifest' = manifest' /\ durSegments' = segments'
    BY <1>2 DEF PowerLoss
  <2> QED
    BY <1>0, <2>1, <2>2, <2>3, <2>4, <2>5, <2>6, ConstantTypes DEF TypeOK, Stages
<1> QED
  BY <1>1, <1>2

(* The next position. *)
LEMMA NextPosition == 1 \in Nat \ {0} /\ \A p \in Nat \ {0} : p + 1 \in Nat \ {0}
OBVIOUS

(* What a manifest names. *)
LEMMA NameOf ==
    ASSUME NEW m \in Manifest, NEW p \in Nat \ {0}, p <= Len(m.segments)
    PROVE  m.segments[p] \in Seqs
BY DEF Manifest

(* What a position of a sequence holds. *)
LEMMA ElementOf ==
    ASSUME NEW S, NEW w \in Seq(S), NEW p \in Nat \ {0}, p <= Len(w)
    PROVE  w[p] \in S
OBVIOUS

(* What a segment file holds. *)
LEMMA SegmentFields ==
    ASSUME NEW file \in Segment
    PROVE  file.points \in PointMap /\ file.ids \in SUBSET Ids
BY DEF Segment

(* open keeps the types. *)
LEMMA RecoveryTypeOK ==
    ASSUME TypeOK, RecoveryStep
    PROVE  TypeOK'
<1>1. CASE Open
  BY <1>1 DEF TypeOK, Open, diskVars, flushVars, historyVars
<1>2. CASE LoadSegment
  <2> DEFINE n == manifest.segments[pos]
             file == segments[n]
  <2>1. n \in Seqs /\ file \in Segment /\ file.points \in PointMap /\ file.ids \in SUBSET Ids
    BY <1>2, NameOf, SegmentFields, ZenonT(20) DEF TypeOK, LoadSegment
  <2>2. PointsAfter(file) \in PointMap
    BY <2>1, ZenonT(20) DEF TypeOK, PointMap, PointsAfter
  <2>3. [sequence |-> n, points |-> file.points] \in IndexSegment
    BY <2>1 DEF IndexSegment
  <2>5. indexes \o (IF Live(file.points) = {} THEN <<>>
                     ELSE <<[sequence |-> n, points |-> file.points]>>) \in Seq(IndexSegment)
    <3> HIDE DEF n, file
    <3> QED
      BY <2>3 DEF TypeOK
  <2>4. /\ indexes' \in Seq(IndexSegment) /\ points' \in PointMap /\ latest' \in Seqs
        /\ pos' \in Nat \ {0}
        /\ status' \in {"closed", "loading", "replaying", "up", "failed"}
    <3>1. CASE SegmentLoads(pos)
      <4>1. /\ points' = PointsAfter(file)
            /\ latest' = n
            /\ indexes' = indexes \o (IF Live(file.points) = {} THEN <<>>
                            ELSE <<[sequence |-> n, points |-> file.points]>>)
            /\ pos' = pos + 1
            /\ status' = status
        BY <1>2, <3>1, ZenonT(20) DEF LoadSegment
      <4> QED
        BY <2>1, <2>2, <2>5, <4>1, NextPosition, Zenon DEF TypeOK
    <3>2. CASE ~SegmentLoads(pos)
      BY <1>2, <3>2, ZenonT(20) DEF TypeOK, LoadSegment
    <3> QED
      BY <3>1, <3>2, Zenon
  <2> QED
    BY <1>2, <2>4, ZenonT(20) DEF TypeOK, LoadSegment, diskVars, flushVars, historyVars
<1>3. CASE BeginReplay
  <2>1. metadataIndex' \in MetadataIndex
    BY <1>3, ConstantTypes, ZenonT(60) DEF TypeOK, BeginReplay, MetadataIndex
  <2> QED
    BY <1>3, <2>1, NextPosition, ZenonT(20) DEF TypeOK, BeginReplay, diskVars, flushVars, historyVars
<1>4. CASE ReplayFrame
  <2>1. wal[pos] \in Frame
    BY <1>4, ElementOf, ZenonT(20) DEF TypeOK, ReplayFrame
  <2>2. ApplyFrame(points, wal[pos]) \in PointMap
    BY <2>1, ApplyFrameType DEF TypeOK
  <2>3. wal[pos].sequence \in Seqs /\ wal[pos].ids \in SUBSET Ids
    BY <2>1 DEF Frame
  <2>4. points' \in PointMap /\ latest' \in Seqs /\ dirty' \subseteq Ids
    BY <1>4, <2>2, <2>3, ZenonT(20) DEF TypeOK, ReplayFrame
  <2>5. /\ pos' \in Nat \ {0}
        /\ status' \in {"closed", "loading", "replaying", "up", "failed"}
    BY <1>4, NextPosition, ZenonT(20) DEF TypeOK, ReplayFrame
  <2> QED
    BY <1>4, <2>4, <2>5, ZenonT(60) DEF TypeOK, ReplayFrame, diskVars, flushVars, historyVars
<1>5. CASE ReplayTorn
  <2>1. pos - 1 \in 0 .. Len(wal) /\ wal \in Seq(Frame)
    BY <1>5 DEF TypeOK, ReplayTorn
  <2>2. SubSeq(wal, 1, pos - 1) \in Seq(Frame)
    BY <2>1, PrefixType
  <2>3. wal' \in Seq(Frame) /\ status' \in {"closed", "loading", "replaying", "up", "failed"}
    BY <1>5, <2>2, ZenonT(20) DEF TypeOK, ReplayTorn
  <2> QED
    BY <1>5, <2>3 DEF TypeOK, ReplayTorn, flushVars, historyVars
<1>6. CASE OpenDone
  BY <1>6 DEF TypeOK, OpenDone, diskVars, flushVars, historyVars
<1> QED
  BY <1>1, <1>2, <1>3, <1>4, <1>5, <1>6 DEF RecoveryStep

(* The little control that TypeOK needs: during an append the collection is up and the *)
(* log holds the frame.                                                                *)
AppendHolds == stage = "append" => status = "up" /\ wal # <<>>

(* Every step of every caller keeps the types. *)
LEMMA NextTypeOK ==
    ASSUME TypeOK, AppendHolds, [SharedNext]_vars
    PROVE  TypeOK' /\ AppendHolds'
<1> USE DEF AppendHolds
<1>1. ASSUME NEW op \in {"upsert", "delete"}, NEW ids \in SUBSET Ids, BeginAppend(op, ids)
      PROVE  TypeOK' /\ AppendHolds'
  <2>1. wal' # <<>>
    <3>1. PICK written \in Frame : wal' = Append(wal, written)
      BY <1>1, ConstantTypes, ConstantsAssumption DEF BeginAppend, HasNextSequence, TypeOK, Frame, Seqs
    <3>2. wal \in Seq(Frame)
      BY DEF TypeOK
    <3> QED
      BY <3>1, <3>2
  <2> QED
    BY <1>1, <2>1, WriteTypeOK, ZenonT(20) DEF BeginAppend, Unlocked, memoryVars
<1>2. ASSUME NEW f \in Flushers, SharedFlush(f)
      PROVE  TypeOK' /\ AppendHolds'
  BY <1>2, SnapshotTypeOK, ZenonT(20) DEF SharedFlush, FlushSnapshot, diskVars, memoryVars
<1>3. CASE AppendStep
  BY <1>3, AppendStepTypeOK, ZenonT(20) DEF AppendStep, CompleteAppend, FailAppend
<1>4. ASSUME NEW f \in Flushers, PublishStep(f)
      PROVE  TypeOK' /\ AppendHolds'
  <2>1. AppendHolds'
    BY <1>4, ZenonT(20) DEF PublishStep, PublishNothing, PublishSegment, SyncSegment, WriteManifest,
                RenameManifest, SyncManifest, TruncateWal, FinishPublish, FailPublish, Step,
                diskVars, memoryVars
  <2> QED
    BY <1>4, <2>1, PublishTypeOK
<1>5. CASE RecoveryStep
  <2>1. AppendHolds'
    BY <1>5, ZenonT(20) DEF RecoveryStep, Open, LoadSegment, BeginReplay, ReplayFrame, ReplayTorn, OpenDone,
                diskVars, flushVars
  <2> QED
    BY <1>5, <2>1, RecoveryTypeOK, SMT, Zenon, SMTT(30)
<1>6. CASE Crash \/ PowerLoss
  BY <1>6, CrashTypeOK, ZenonT(20) DEF Crash, PowerLoss, LoseMemory
<1>7. CASE UNCHANGED vars
  BY <1>7 DEF vars, diskVars, memoryVars, flushVars, historyVars, TypeOK
<1> QED
  BY <1>1, <1>2, <1>3, <1>4, <1>5, <1>6, <1>7 DEF SharedNext, Write, SystemStep

(* Type correctness of the shared collection, with any callers, I/O errors and crashes. *)
THEOREM SharedTypeOK == SharedSpec => []TypeOK
<1>1. Init => TypeOK /\ AppendHolds
  BY InitTypeOK DEF Init, AppendHolds
<1>2. TypeOK /\ AppendHolds /\ [SharedNext]_vars => (TypeOK /\ AppendHolds)'
  BY NextTypeOK
<1> QED
  BY <1>1, <1>2, PTL DEF SharedSpec

-------------------------------------------------------------------------------
(* Writes keep Inv: each step of append_frame, whether it succeeds or reports an I/O *)
(* error; and the facts the other steps need as well.                                *)

(* The shape of the log, the manifests and the history that TypeOK gives. *)
LEMMA TypeFacts ==
    ASSUME TypeOK
    PROVE  /\ wal \in Seq(Frame) /\ Len(wal) \in Nat /\ DOMAIN wal = 1 .. Len(wal)
           /\ \A k \in DOMAIN wal : wal[k] \in Frame /\ wal[k].sequence \in Nat
           /\ durWal \in Seq(Frame) /\ Len(durWal) \in Nat /\ DOMAIN durWal = 1 .. Len(durWal)
           /\ \A k \in DOMAIN durWal : durWal[k] \in Frame /\ durWal[k].sequence \in Nat
           /\ latest \in Nat /\ begun \in Nat /\ acked \in Nat /\ MaxSeq \in Nat
           /\ manifest.sequence \in Nat /\ durManifest.sequence \in Nat
           /\ manifest.sequence \in Seqs /\ durManifest.sequence \in Seqs
           /\ manifest.segments \in Seq(Seqs) /\ durManifest.segments \in Seq(Seqs)
<1>1. /\ \A k \in DOMAIN wal : wal[k] \in Frame
      /\ \A k \in DOMAIN durWal : durWal[k] \in Frame
      /\ wal \in Seq(Frame) /\ durWal \in Seq(Frame)
  BY DEF TypeOK
<1>2. \A frame \in Frame : frame.sequence \in Nat
  BY ConstantsAssumption DEF Frame, Seqs
<1>3. /\ manifest.sequence \in Seqs /\ durManifest.sequence \in Seqs
      /\ manifest.segments \in Seq(Seqs) /\ durManifest.segments \in Seq(Seqs)
  BY DEF TypeOK, Manifest
<1>4. Seqs \subseteq Nat
  BY ConstantsAssumption DEF Seqs
<1>5. latest \in Nat /\ begun \in Nat /\ acked \in Nat /\ MaxSeq \in Nat
  BY <1>4, ConstantsAssumption DEF TypeOK
<1>6. /\ Len(wal) \in Nat /\ DOMAIN wal = 1 .. Len(wal)
      /\ Len(durWal) \in Nat /\ DOMAIN durWal = 1 .. Len(durWal)
  BY <1>1
<1> QED
  BY <1>1, <1>2, <1>3, <1>4, <1>5, <1>6, ZenonT(20)

(* Of these, the numbers. *)
LEMMA NumberFacts ==
    ASSUME TypeOK
    PROVE  /\ latest \in Nat /\ begun \in Nat /\ acked \in Nat /\ MaxSeq \in Nat
           /\ manifest.sequence \in Nat /\ durManifest.sequence \in Nat
           /\ Len(wal) \in Nat /\ Len(durWal) \in Nat
  BY TypeFacts

(* The numbers of the frames. *)
LEMMA FrameFacts ==
    ASSUME TypeOK
    PROVE  /\ \A k \in DOMAIN wal : wal[k].sequence \in Nat
           /\ \A k \in DOMAIN durWal : durWal[k].sequence \in Nat
           /\ latest \in Nat /\ manifest.sequence \in Nat
  BY TypeFacts

(* The names in the manifests. *)
LEMMA ManifestTypes ==
    ASSUME TypeOK
    PROVE  manifest.segments \in Seq(Seqs) /\ durManifest.segments \in Seq(Seqs)
  BY TypeFacts

(* Where recovery reads. *)
LEMMA PositionFacts ==
    ASSUME TypeOK
    PROVE  /\ pos \in Nat /\ pos >= 1 /\ Len(manifest.segments) \in Nat
           /\ pos <= Len(wal) => pos \in DOMAIN wal /\ \A j \in 1 .. pos - 1 : j \in DOMAIN wal
           /\ pos <= Len(manifest.segments) => pos \in DOMAIN manifest.segments
<1>1. pos \in Nat \ {0} /\ wal \in Seq(Frame) /\ manifest.segments \in Seq(Seqs)
  <2>1. pos \in Nat \ {0} /\ wal \in Seq(Frame) /\ manifest \in Manifest
    BY Zenon DEF TypeOK
  <2> QED
    BY <2>1 DEF Manifest
<1> QED
  BY <1>1

(* The order of sequences is transitive. *)
LEMMA LeqTrans == \A a, b, c \in Nat : a <= b /\ b <= c => a <= c
OBVIOUS

(* A bound holds for the next sequence too. *)
LEMMA LeqNext == \A a, b \in Nat : a <= b => a <= b + 1
OBVIOUS

(* The next sequence is above this one. *)
LEMMA NextNat == \A a \in Nat : a + 1 \in Nat /\ (a + 1) - 1 = a /\ ~(a + 1 <= a) /\ a <= a
OBVIOUS

(* No sequence is below zero. *)
LEMMA ZeroLeast == 0 \in Nat /\ \A a, b \in Nat : 0 <= b /\ (a <= 0 => a <= b)
OBVIOUS

(* A sequence above another is not the first. *)
LEMMA AboveAnother == \A a, b \in Nat : a > b => a # 0 /\ a # a + 1
OBVIOUS

(* What lies in a range of sequences. *)
LEMMA Between == \A a, b \in Nat : \A t \in a .. b : t \in Nat /\ a <= t /\ t <= b
OBVIOUS

(* A range of sequences holds what lies between its ends. *)
LEMMA InBetween == \A a, b, t \in Nat : a <= t /\ t <= b => t \in a .. b
OBVIOUS

(* A positive sequence and the one before it lie above zero. *)
LEMMA FromZero == \A n, m \in Nat : n <= m /\ n > 0 => n \in 0 .. m /\ n - 1 \in 0 .. m
OBVIOUS

(* What is below a bounded sequence is bounded. *)
LEMMA LowerSeqs == \A n \in Seqs : n \in Nat /\ \A t \in Nat : t <= n => t \in Seqs
BY ConstantsAssumption DEF Seqs

(* next_sequence stays in bounds while the last one is not reached. *)
LEMMA NextSeq ==
    ASSUME NEW n \in Seqs, n < MaxSeq
    PROVE  n \in Nat /\ n + 1 \in Nat /\ n + 1 \in Seqs /\ n + 1 > 0
BY ConstantsAssumption DEF Seqs

(* The frame a write builds is a whole one, with the sequence it was given. *)
LEMMA FrameIsFrame ==
    ASSUME NEW op \in {"upsert", "delete"}, NEW n \in Seqs, n > 0, NEW ids \in SUBSET Ids
    PROVE  LET frame == [op |-> op, sequence |-> n, ids |-> ids]
           IN  frame \in Frame /\ frame.sequence = n /\ frame # Torn
BY DEF Frame, Torn

(* A torn frame carries no sequence. *)
LEMMA TornSequence == Torn.sequence = 0
BY DEF Torn

(* The last position of a log that is not empty. *)
LEMMA LastIndex ==
    ASSUME NEW S, NEW w \in Seq(S), w # <<>>
    PROVE  /\ Len(w) \in DOMAIN w /\ Len(w) \in Nat /\ Len(w) > 0
           /\ \A k \in DOMAIN w : k < Len(w) \/ k = Len(w)
OBVIOUS

(* A log one longer than another is not empty. *)
LEMMA LongerNotEmpty ==
    ASSUME NEW S, NEW w \in Seq(S), NEW n \in Nat, Len(w) = n + 1
    PROVE  w # <<>> /\ Len(w) \in Nat
OBVIOUS

(* The log without its last frame. *)
LEMMA LogCut ==
    ASSUME wal \in Seq(Frame), wal # <<>>, wal' = SubSeq(wal, 1, Len(wal) - 1)
    PROVE  /\ Len(wal') = Len(wal) - 1 /\ DOMAIN wal' = 1 .. Len(wal) - 1
           /\ \A k \in DOMAIN wal' : k \in DOMAIN wal /\ k < Len(wal) /\ wal'[k] = wal[k]
           /\ \A k \in DOMAIN wal : k = Len(wal) \/ k \in DOMAIN wal'
<1>1. Len(wal) - 1 \in 0 .. Len(wal) /\ Len(wal) \in Nat /\ DOMAIN wal = 1 .. Len(wal)
  OBVIOUS
<1>2. /\ Len(wal') = Len(wal) - 1 /\ wal' \in Seq(Frame)
      /\ \A k \in 1 .. Len(wal) - 1 : wal'[k] = wal[k]
  BY <1>1, PrefixType, Zenon
<1>3. DOMAIN wal' = 1 .. Len(wal) - 1
  BY <1>2
<1> QED
  BY <1>1, <1>2, <1>3

(* A chain stays sound while the files it names and the history of its sequences stay. *)
LEMMA ChainStable ==
    ASSUME NEW m, NEW files, NEW durable, NEW history, NEW files2, NEW durable2, NEW history2,
           ChainSound(m, files, durable, history),
           \A p \in DOMAIN m.segments : /\ files2[m.segments[p]] = files[m.segments[p]]
                                        /\ durable2[m.segments[p]] = files2[m.segments[p]]
                                        /\ history2[m.segments[p]] = history[m.segments[p]],
           m.segments \in Seq(Seqs)
    PROVE  ChainSound(m, files2, durable2, history2)
<1>1. \A p \in DOMAIN m.segments : p > 1 => p - 1 \in DOMAIN m.segments
  OBVIOUS
<1>2. ASSUME NEW p \in DOMAIN m.segments
      PROVE  /\ m.segments[p] <= m.sequence
             /\ durable2[m.segments[p]] = files2[m.segments[p]]
             /\ p = 1 => files2[m.segments[p]] =
                           [kind |-> "full", ids |-> Ids, points |-> history2[m.segments[p]]]
  BY ZenonT(20) DEF ChainSound
<1>3. ASSUME NEW p \in DOMAIN m.segments, p > 1
      PROVE  /\ m.segments[p - 1] < m.segments[p]
             /\ files2[m.segments[p]].kind = "delta"
             /\ \A i \in Ids :
                  IF i \in files2[m.segments[p]].ids
                  THEN files2[m.segments[p]].points[i] = history2[m.segments[p]][i]
                  ELSE history2[m.segments[p - 1]][i] = history2[m.segments[p]][i]
  <2>1. /\ files2[m.segments[p]] = files[m.segments[p]]
        /\ history2[m.segments[p]] = history[m.segments[p]]
        /\ history2[m.segments[p - 1]] = history[m.segments[p - 1]]
    BY <1>1, <1>3
  <2>2. /\ m.segments[p - 1] < m.segments[p]
        /\ files[m.segments[p]].kind = "delta"
        /\ \A i \in Ids :
             IF i \in files[m.segments[p]].ids
             THEN files[m.segments[p]].points[i] = history[m.segments[p]][i]
             ELSE history[m.segments[p - 1]][i] = history[m.segments[p]][i]
    BY <1>3, ZenonT(20) DEF ChainSound
  <2> QED
    BY <2>1, <2>2, ZenonT(20)
<1> QED
  BY <1>2, <1>3, ZenonT(20) DEF ChainSound

(* The files of a sound chain: no newer than the manifest, and on stable storage. *)
LEMMA ChainNames ==
    ASSUME NEW m, NEW files, NEW durable, NEW history, ChainSound(m, files, durable, history),
           m.segments \in Seq(Seqs)
    PROVE  \A p \in DOMAIN m.segments : /\ m.segments[p] \in Seqs /\ m.segments[p] \in Nat
                                        /\ m.segments[p] <= m.sequence
                                        /\ durable[m.segments[p]] = files[m.segments[p]]
<1>1. \A p \in DOMAIN m.segments : m.segments[p] \in Seqs /\ m.segments[p] \in Nat
  BY ConstantsAssumption DEF Seqs
<1>2. \A p \in DOMAIN m.segments : /\ m.segments[p] <= m.sequence
                                   /\ durable[m.segments[p]] = files[m.segments[p]]
  BY ZenonT(20) DEF ChainSound
<1> QED
  BY <1>1, <1>2

(* A name in a manifest is a sequence it covers, and its file is durable. *)
LEMMA NamesOf ==
    ASSUME TypeOK, ManifestSound, NEW m \in {manifest, durManifest}, NEW p \in DOMAIN m.segments
    PROVE  /\ m.segments[p] \in Seqs /\ m.segments[p] \in Nat /\ m.segments[p] <= m.sequence
           /\ durSegments[m.segments[p]] = segments[m.segments[p]]
<1>1. ChainSound(m, segments, durSegments, committed) /\ m.segments \in Seq(Seqs)
  BY ManifestTypes, Zenon DEF ManifestSound
<1> QED
  BY <1>1, ChainNames

(* The last name of a chain is its sequence. *)
LEMMA ChainEnd ==
    ASSUME NEW m, NEW files, NEW durable, NEW history, m.segments \in Seq(Seqs),
           ChainSound(m, files, durable, history), m.segments # <<>>
    PROVE  Len(m.segments) \in DOMAIN m.segments /\ m.segments[Len(m.segments)] = m.sequence
<1>1. m.segments[Len(m.segments)] = m.sequence
  BY ZenonT(20) DEF ChainSound
<1>2. Len(m.segments) \in DOMAIN m.segments
  OBVIOUS
<1> QED
  BY <1>1, <1>2

(* A manifest with one name. *)
LEMMA OneName ==
    ASSUME NEW m, NEW q, m.segments = <<q>>
    PROVE  ManifestNames(m) = {q} /\ m.segments # <<>>
<1>1. ManifestNames(m) = {q}
  BY DEF ManifestNames
<1>2. Len(<<q>>) = 1 /\ Len(<<>>) = 0
  OBVIOUS
<1> QED
  BY <1>1, <1>2

(* A range that starts later is a part of the longer one. *)
LEMMA LaterRange ==
    ASSUME NEW a \in Nat, NEW b \in Nat, NEW c \in Nat, a <= b
    PROVE  \A t \in b .. c : t \in a .. c
OBVIOUS

(* A log stays sound while the history of its sequences stays. *)
LEMMA LogStable ==
    ASSUME NEW w, NEW history, NEW history2, LogSound(w, history),
           \A k \in DOMAIN w : w[k] # Torn =>
             /\ history2[w[k].sequence] = history[w[k].sequence]
             /\ history2[w[k].sequence - 1] = history[w[k].sequence - 1]
    PROVE  LogSound(w, history2)
BY ZenonT(20) DEF LogSound

(* Appending one element. *)
LEMMA AppendFacts ==
    ASSUME NEW S, NEW w \in Seq(S), NEW e \in S
    PROVE  /\ Append(w, e) \in Seq(S)
           /\ Len(Append(w, e)) = Len(w) + 1
           /\ \A k \in 1 .. Len(w) : Append(w, e)[k] = w[k]
           /\ Append(w, e)[Len(w) + 1] = e
OBVIOUS

(* The log with one more frame. *)
LEMMA LogAppended ==
    ASSUME wal \in Seq(Frame), NEW e \in Frame, wal' = Append(wal, e)
    PROVE  /\ wal' \in Seq(Frame) /\ Len(wal') = Len(wal) + 1
           /\ \A k \in DOMAIN wal : wal'[k] = wal[k]
           /\ wal'[Len(wal')] = e
           /\ DOMAIN wal' = 1 .. Len(wal')
           /\ \A k \in DOMAIN wal' : k \in DOMAIN wal \/ k = Len(wal')
           /\ DOMAIN wal \subseteq DOMAIN wal'
<1>1. /\ wal' \in Seq(Frame) /\ Len(wal') = Len(wal) + 1 /\ wal'[Len(wal) + 1] = e
      /\ \A k \in 1 .. Len(wal) : wal'[k] = wal[k]
  BY AppendFacts
<1>2. DOMAIN wal = 1 .. Len(wal) /\ Len(wal) \in Nat /\ DOMAIN wal' = 1 .. Len(wal')
  BY <1>1
<1> QED
  BY <1>1, <1>2

(* The fields of a flusher's record. *)
LEMMA PreparedFacts ==
    ASSUME TypeOK, NEW f \in Flushers
    PROVE  /\ prepared[f] \in Prepared
           /\ prepared[f].sequence \in Seqs /\ prepared[f].sequence \in Nat
           /\ prepared[f].active \in BOOLEAN /\ prepared[f].compact \in BOOLEAN
           /\ prepared[f].ids \subseteq Ids /\ prepared[f].points \in PointMap
<1>1. prepared[f] \in Prepared
  BY DEF TypeOK
<1> QED
  BY <1>1, ConstantsAssumption DEF Prepared, Seqs

(* The flusher that publishes: alone, with a prepared flush, while the collection is up. *)
LEMMA PublisherFacts ==
    ASSUME Inv, NEW f \in publishing
    PROVE  /\ f \in Flushers /\ publishing = {f} /\ prepared[f].active
           /\ status = "up" /\ stage \notin {"free", "append"} /\ stage \in BeforeRename \union AfterRename
           /\ PreparedSound(f) /\ PublishSound(f)
           /\ manifest.sequence <= latest /\ points = committed[latest]
<1>1. f \in Flushers /\ publishing = {f} /\ prepared[f].active
  BY DEF Inv, TypeOK, ControlSound
<1>2. status = "up" /\ stage \notin {"free", "append"}
  BY DEF Inv, ControlSound
<1>3. stage \in BeforeRename \union AfterRename
  BY <1>2 DEF Inv, TypeOK, Stages, BeforeRename, AfterRename
<1> QED
  BY <1>1, <1>2, <1>3 DEF Inv, MemorySound

(* What a power loss leaves of the log: its durable copy, or a prefix of it that keeps the *)
(* part shared with that copy, perhaps followed by a torn frame.                           *)
LEMMA PowerLossShape ==
    ASSUME TypeOK, NEW w \in PowerLossWals
    PROVE  /\ w \in Seq(Frame)
           /\ \/ w = durWal
              \/ \E n \in KeptFrames : Len(w) = n /\ \A k \in 1 .. n : w[k] = wal[k]
              \/ \E n \in KeptFrames : /\ n < Len(wal) /\ Len(w) = n + 1
                                       /\ \A k \in 1 .. n : w[k] = wal[k]
                                       /\ w[n + 1] = Torn
<1>0. w \in Seq(Frame)
  BY PowerLossWalType
<1>1. KeptFrames \subseteq 0 .. Len(wal) /\ wal \in Seq(Frame)
  BY DEF KeptFrames, TypeOK
<1>2. CASE w = durWal
  BY <1>0, <1>2, ZenonT(20)
<1>3. ASSUME NEW n \in KeptFrames, w = SubSeq(wal, 1, n)
      PROVE  Len(w) = n /\ \A k \in 1 .. n : w[k] = wal[k]
  BY <1>1, <1>3, PrefixType
<1>4. ASSUME NEW n \in KeptFrames \ {Len(wal)}, w = Append(SubSeq(wal, 1, n), Torn)
      PROVE  /\ n < Len(wal) /\ Len(w) = n + 1
             /\ \A k \in 1 .. n : w[k] = wal[k]
             /\ w[n + 1] = Torn
  <2> DEFINE v == SubSeq(wal, 1, n)
  <2>1. v \in Seq(Frame) /\ Len(v) = n /\ \A k \in 1 .. n : v[k] = wal[k]
    BY <1>1, PrefixType
  <2>2. n \in Nat /\ n < Len(wal)
    BY <1>1
  <2> HIDE DEF v
  <2>3. w = Append(v, Torn)
    BY <1>4 DEF v
  <2> QED
    BY <2>1, <2>2, <2>3, ConstantTypes
<1> QED
  BY <1>0, <1>2, <1>3, <1>4, ZenonT(20) DEF PowerLossWals

(* Each of its frames is a frame of the log, or the torn end. *)
LEMMA PowerLossFrames ==
    ASSUME TypeOK, LogSound(wal, committed), LogSound(durWal, committed), NEW w \in PowerLossWals
    PROVE  /\ LogSound(w, committed)
           /\ \A k \in DOMAIN w : \/ w[k] = Torn
                                  \/ k \in DOMAIN wal /\ w[k] = wal[k]
                                  \/ k \in DOMAIN durWal /\ w[k] = durWal[k]
<1>0. w \in Seq(Frame) /\ DOMAIN w = 1 .. Len(w) /\ Len(w) \in Nat
  BY PowerLossShape
<1>1. CASE w = durWal
  BY <1>1
<1>2. ASSUME NEW n \in KeptFrames, Len(w) = n, \A k \in 1 .. n : w[k] = wal[k]
      PROVE  LogSound(w, committed) /\ \A k \in DOMAIN w : k \in DOMAIN wal /\ w[k] = wal[k]
  <2>1. n \in 0 .. Len(wal)
    BY DEF KeptFrames
  <2>2. \A k \in DOMAIN w : k \in DOMAIN wal /\ w[k] = wal[k]
    BY <1>0, <1>2, <2>1
  <2>3. \A k \in DOMAIN w : w[k] = Torn => k = Len(w)
    BY <1>0, <1>2, <2>1, <2>2, TypeFacts DEF LogSound
  <2> QED
    BY <2>2, <2>3, ZenonT(60) DEF LogSound
<1>3. ASSUME NEW n \in KeptFrames, n < Len(wal), Len(w) = n + 1,
             \A k \in 1 .. n : w[k] = wal[k], w[n + 1] = Torn
      PROVE  LogSound(w, committed) /\ \A k \in DOMAIN w : w[k] = Torn \/ (k \in DOMAIN wal /\ w[k] = wal[k])
  <2>1. n \in 0 .. Len(wal)
    BY DEF KeptFrames
  <2>2. ASSUME NEW k \in DOMAIN w, k # n + 1
        PROVE  k \in DOMAIN wal /\ w[k] = wal[k] /\ k < Len(wal)
    <3>1. n \in Nat /\ k \in 1 .. n + 1 /\ Len(wal) \in Nat
      BY <1>0, <1>3, <2>1, NumberFacts
    <3>2. k \in 1 .. n
      BY <2>2, <3>1
    <3> QED
      BY <1>3, <3>1, <3>2
  <2>3. \A k \in DOMAIN wal : wal[k] = Torn => k = Len(wal)
    BY DEF LogSound
  <2>4. \A k \in DOMAIN w : w[k] = Torn => k = Len(w)
    BY <1>3, <2>2, <2>3
  <2>5. \A k \in DOMAIN w : w[k] # Torn => k \in DOMAIN wal /\ w[k] = wal[k]
    BY <1>3, <2>2
  <2>6. \A k \in DOMAIN w : w[k] # Torn =>
          /\ w[k].sequence > 0
          /\ committed[w[k].sequence] = ApplyFrame(committed[w[k].sequence - 1], w[k])
    BY <2>5 DEF LogSound
  <2>7. LogSound(w, committed)
    BY <2>4, <2>6 DEF LogSound
  <2> QED
    BY <2>5, <2>7
<1> QED
  BY <1>1, <1>2, <1>3, PowerLossShape

(* A frame in the part of the log that its durable copy shares survives a power loss. *)
LEMMA SharedPrefixKept ==
    ASSUME TypeOK, NEW w \in PowerLossWals, NEW k \in DOMAIN wal, k <= Len(durWal),
           \A j \in 1 .. k : wal[j] = durWal[j]
    PROVE  k \in DOMAIN w /\ w[k] = wal[k]
<1>1. \A n \in KeptFrames : k <= n /\ n \in Nat
  BY TypeFacts DEF KeptFrames
<1>2. w \in Seq(Frame) /\ DOMAIN w = 1 .. Len(w) /\ Len(w) \in Nat
  BY PowerLossShape
<1>3. k \in Nat /\ k >= 1
  BY TypeFacts
<1>4. CASE w = durWal
  BY <1>2, <1>3, <1>4
<1>5. ASSUME NEW n \in KeptFrames, Len(w) = n \/ Len(w) = n + 1, \A j \in 1 .. n : w[j] = wal[j]
      PROVE  k \in DOMAIN w /\ w[k] = wal[k]
  BY <1>1, <1>2, <1>3, <1>5
<1> QED
  BY <1>4, <1>5, PowerLossShape

-------------------------------------------------------------------------------
(* Writes. *)

(* A prepared flush stays sound while the files and the history it depends on stay. *)
LEMMA PreparedKept ==
    ASSUME NEW f \in Flushers, PreparedSound(f), prepared[f].active,
           UNCHANGED <<prepared, manifest, durManifest, segments, publishing>>, publishing = {},
           prepared[f].sequence <= latest',
           \/ committed' = committed
           \/ /\ committed'[prepared[f].sequence] = committed[prepared[f].sequence]
              /\ \A t \in manifest.sequence .. prepared[f].sequence : committed'[t] = committed[t]
    PROVE  PreparedSound(f)'
BY SMTT(30) DEF PreparedSound

(* So does the memory of an open collection. *)
LEMMA MemoryKept ==
    ASSUME MemorySound, status = "up",
           UNCHANGED <<status, manifest, points, latest, dirty>>,
           committed'[0] = committed[0], committed'[latest] = committed[latest],
           \A t \in manifest.sequence .. latest : committed'[t] = committed[t],
           latest <= manifest.sequence \/ \E k \in DOMAIN wal' : wal'[k].sequence = latest
    PROVE  MemorySound'
BY SMTT(30) DEF MemorySound

(* upsert or delete writes a frame: the history gains the state the write would make. *)
LEMMA BeginAppendInv ==
    ASSUME Inv, NEW op \in {"upsert", "delete"}, NEW ids \in SUBSET Ids, BeginAppend(op, ids)
    PROVE  Inv'
<1> DEFINE s == latest + 1
           frame == [op |-> op, sequence |-> s, ids |-> ids]
<1>0. /\ status = "up" /\ stage = "free" /\ latest < MaxSeq
      /\ committed' = [committed EXCEPT ![s] = ApplyFrame(points, frame)]
      /\ begun' = s /\ stage' = "append"
      /\ UNCHANGED <<durWal, manifest, durManifest, segments, durSegments, status, pos, points,
                     latest, dirty, indexes, publishing, previous, prepared, acked>>
  BY Zenon DEF BeginAppend, Unlocked, HasNextSequence, memoryVars
<1>1. TypeOK'
  BY WriteTypeOK, Zenon DEF Inv
<1>2. /\ latest \in Nat /\ s \in Nat /\ s \in Seqs /\ s > 0 /\ frame \in Frame
      /\ frame.sequence = s /\ frame # Torn
  BY <1>0, NextSeq, FrameIsFrame, Zenon DEF Inv, TypeOK
<1>3. PICK written \in {frame, Torn} : wal' = Append(wal, written)
  BY Zenon DEF BeginAppend
<1>4. /\ wal' \in Seq(Frame) /\ Len(wal') = Len(wal) + 1
      /\ \A k \in DOMAIN wal : wal'[k] = wal[k]
      /\ wal'[Len(wal')] = written
      /\ DOMAIN wal' = 1 .. Len(wal')
      /\ \A k \in DOMAIN wal' : k \in DOMAIN wal \/ k = Len(wal')
      /\ DOMAIN wal \subseteq DOMAIN wal'
  <2>1. written \in Frame /\ wal \in Seq(Frame)
    BY <1>2, ConstantTypes, TypeFacts, Zenon DEF Inv
  <2> QED
    BY <1>3, <2>1, LogAppended, Zenon
<1>5. /\ \A t \in Seqs : t <= latest => committed'[t] = committed[t]
      /\ committed'[s] = ApplyFrame(points, frame)
  <2>1. committed \in [Seqs -> PointMap]
    BY Zenon DEF Inv, TypeOK
  <2> QED
    BY <1>0, <1>2, <2>1 DEF Seqs
<1> HIDE DEF s, frame
<1>6. publishing = {} /\ manifest.sequence <= latest /\ durManifest.sequence <= latest
  BY <1>0, NumberFacts, LeqTrans, ZenonT(20) DEF Inv, ControlSound, MemorySound, ManifestSound
<1>7. /\ \A k \in DOMAIN wal : wal[k] # Torn /\ wal[k].sequence <= latest
      /\ \A k \in DOMAIN durWal : durWal[k].sequence <= latest
  BY <1>0, Zenon DEF Inv, WalSound
<1>8. ControlSound'
  BY <1>0, <1>6, Zenon DEF ControlSound
<1>9. BegunSound'
  <2>1. \A k \in DOMAIN wal' : wal'[k].sequence <= s
    <3>1. written.sequence <= s
      BY <1>2, TornSequence, NextNat, ZeroLeast, Zenon
    <3>2. \A k \in DOMAIN wal : wal'[k].sequence <= s
      BY <1>4, <1>7, FrameFacts, LeqNext, Zenon DEF Inv, s
    <3> QED
      BY <1>4, <3>1, <3>2, Zenon
  <2>2. acked <= latest
    BY <1>0, Zenon DEF Inv, AckedSound
  <2>3. \A k \in DOMAIN durWal : durWal[k].sequence <= s
    BY <1>7, FrameFacts, LeqNext, Zenon DEF Inv, s
  <2> QED
    BY <1>0, <1>6, <2>1, <2>2, <2>3, NumberFacts, LeqNext, NextNat, ZenonT(20) DEF Inv, BegunSound, s
<1>10. ManifestSound'
  <2>1. ASSUME NEW m \in {manifest, durManifest}
        PROVE  ChainSound(m, segments', durSegments', committed')
    <3>1. ChainSound(m, segments, durSegments, committed) /\ m.segments \in Seq(Seqs)
          /\ m.sequence \in Nat /\ m.sequence <= latest
      BY <1>6, TypeFacts, ZenonT(20) DEF Inv, ManifestSound
    <3>2. ASSUME NEW p \in DOMAIN m.segments
          PROVE  /\ committed'[m.segments[p]] = committed[m.segments[p]]
                 /\ durSegments[m.segments[p]] = segments[m.segments[p]]
      <4>1. /\ m.segments[p] \in Seqs /\ m.segments[p] \in Nat /\ m.segments[p] <= m.sequence
            /\ durSegments[m.segments[p]] = segments[m.segments[p]]
        BY NamesOf, Zenon DEF Inv
      <4>2. m.segments[p] <= latest
        BY <1>2, <3>1, <4>1, LeqTrans, Zenon
      <4> QED
        BY <1>5, <4>1, <4>2, Zenon
    <3>3. \A p \in DOMAIN m.segments :
            /\ segments'[m.segments[p]] = segments[m.segments[p]]
            /\ durSegments'[m.segments[p]] = segments'[m.segments[p]]
            /\ committed'[m.segments[p]] = committed[m.segments[p]]
      BY <1>0, <3>2, Zenon
    <3> QED
      BY <3>1, <3>3, ChainStable, Zenon
  <2> QED
    BY <1>0, <2>1, Zenon DEF Inv, ManifestSound
<1>11. (\A f \in Flushers : PreparedSound(f))'
  <2> SUFFICES ASSUME NEW f \in Flushers, prepared[f].active PROVE PreparedSound(f)'
    BY <1>0, ZenonT(20) DEF PreparedSound
  <2>1. prepared[f].sequence <= latest /\ prepared[f].sequence \in Seqs
    BY PreparedFacts, Zenon DEF Inv, PreparedSound
  <2>2. committed'[prepared[f].sequence] = committed[prepared[f].sequence]
    BY <1>5, <2>1, Zenon
  <2>3. \A t \in manifest.sequence .. prepared[f].sequence : committed'[t] = committed[t]
    <3>1. latest \in Nat /\ manifest.sequence \in Nat /\ prepared[f].sequence \in Nat
      BY NumberFacts, PreparedFacts, ZenonT(20) DEF Inv
    <3>2. ASSUME NEW t \in manifest.sequence .. prepared[f].sequence PROVE t \in Seqs /\ t <= latest
      <4>1. t \in Nat /\ t <= prepared[f].sequence
        BY <3>1, Between, Zenon
      <4> QED
        BY <2>1, <3>1, <4>1, LowerSeqs, LeqTrans, Zenon
    <3> QED
      BY <1>5, <3>2, Zenon
  <2> QED
    BY <1>0, <1>6, <2>1, <2>2, <2>3, PreparedKept, Zenon DEF Inv
<1>12. (\A f \in publishing : PublishSound(f))'
  BY <1>0, <1>6, Zenon
<1>13. MemorySound'
  <2>1. /\ committed'[0] = committed[0] /\ committed'[latest] = committed[latest]
        /\ \A t \in manifest.sequence .. latest : committed'[t] = committed[t]
    <3>0. latest \in Seqs
      BY Zenon DEF Inv, TypeOK
    <3>1. \A t \in 0 .. latest : t \in Seqs
      BY <1>2, <3>0, LowerSeqs, Between, ZeroLeast, Zenon
    <3>2. \A t \in 0 .. latest : committed'[t] = committed[t]
      BY <1>2, <1>5, <3>1, Between, ZeroLeast, Zenon
    <3> QED
      BY <3>2, NumberFacts, Between, InBetween, NextNat, ZeroLeast, ZenonT(20) DEF Inv
  <2>2. latest <= manifest.sequence \/ \E k \in DOMAIN wal' : wal'[k].sequence = latest
    BY <1>0, <1>4, Zenon DEF Inv, MemorySound
  <2> QED
    BY <1>0, <2>1, <2>2, MemoryKept, Zenon DEF Inv
<1>14. LogSound(wal', committed') /\ LogSound(durWal', committed')
  <2>1. \A n \in Nat : n <= latest /\ n > 0 => /\ committed'[n] = committed[n]
                                               /\ committed'[n - 1] = committed[n - 1]
    <3>0. latest \in Seqs
      BY Zenon DEF Inv, TypeOK
    <3>1. \A t \in 0 .. latest : t \in Seqs
      BY <1>2, <3>0, LowerSeqs, Between, ZeroLeast, Zenon
    <3>2. \A t \in 0 .. latest : committed'[t] = committed[t]
      BY <1>2, <1>5, <3>1, Between, ZeroLeast, Zenon
    <3> QED
      BY <1>2, <3>2, FromZero, Zenon
  <2>2. LogSound(durWal, committed')
    <3>1. \A k \in DOMAIN durWal : durWal[k] # Torn => durWal[k].sequence > 0
      BY Zenon DEF Inv, WalSound, LogSound
    <3> QED
      BY <1>7, <2>1, <3>1, TypeFacts, LogStable, ZenonT(20) DEF Inv, WalSound
  <2>3. \A k \in DOMAIN wal : /\ wal[k].sequence > 0
                              /\ committed'[wal[k].sequence] =
                                   ApplyFrame(committed'[wal[k].sequence - 1], wal[k])
    <3>1. \A k \in DOMAIN wal : /\ wal[k].sequence > 0
                                /\ committed[wal[k].sequence] =
                                     ApplyFrame(committed[wal[k].sequence - 1], wal[k])
      BY <1>7, Zenon DEF Inv, WalSound, LogSound
    <3> QED
      BY <1>7, <2>1, <3>1, TypeFacts, ZenonT(20) DEF Inv
  <2>4. written # Torn => /\ written.sequence > 0
                          /\ committed'[written.sequence] =
                               ApplyFrame(committed'[written.sequence - 1], written)
    <3>1. s - 1 = latest /\ committed'[latest] = points
      BY <1>0, <1>2, <1>5, NextNat, Zenon DEF Inv, s, MemorySound, TypeOK
    <3> QED
      BY <1>2, <1>5, <3>1, Zenon
  <2>5. LogSound(wal', committed')
    BY <1>4, <1>7, <2>3, <2>4, ZenonT(20) DEF LogSound
  <2> QED
    BY <1>0, <2>2, <2>5, Zenon
<1>15. WalSound'
  <2>1. wal' # <<>> /\ Len(wal') \in Nat
    BY <1>4, NumberFacts, LongerNotEmpty, Zenon DEF Inv
  <2>2. \A k \in DOMAIN wal' : k < Len(wal') => k \in DOMAIN wal
    BY <1>4, <2>1
  <2>3. \A k \in DOMAIN wal' : k < Len(wal') => wal'[k] # Torn /\ wal'[k].sequence <= latest
    BY <1>4, <1>7, <2>2, Zenon
  <2> QED
    BY <1>0, <1>2, <1>4, <1>7, <1>14, <2>1, <2>3, Zenon DEF WalSound, s
<1>16. AckedSound'
  <2>1. \A k \in DOMAIN wal : 1 .. k \subseteq DOMAIN wal
    BY TypeFacts
  <2>2. \A k \in DOMAIN wal : \A j \in 1 .. k : wal'[j] = wal[j]
    BY <1>4, <2>1, Zenon
  <2> QED
    BY <1>0, <1>4, <2>2, Zenon DEF Inv, AckedSound
<1> QED
  BY <1>1, <1>8, <1>9, <1>10, <1>11, <1>12, <1>13, <1>15, <1>16, Zenon DEF Inv
(* A write succeeds: memory takes the state the log already leads to. *)
LEMMA CompleteAppendInv ==
    ASSUME Inv, CompleteAppend
    PROVE  Inv'
<1> DEFINE n == Len(wal)
           frame == wal[n]
<1>0. /\ stage = "append" /\ stage' = "free" /\ frame # Torn
      /\ points' = ApplyFrame(points, frame) /\ latest' = frame.sequence
      /\ dirty' = dirty \union frame.ids /\ acked' = frame.sequence
      /\ durWal' = wal \/ (durWal' = durWal /\ Durability # "Sync")
      /\ UNCHANGED <<wal, manifest, durManifest, segments, durSegments, status, pos, indexes,
                     publishing, previous, prepared, committed, begun>>
  BY Zenon DEF CompleteAppend, WalAfterSync
<1>1. TypeOK'
  BY <1>0, AppendStepTypeOK, Zenon DEF Inv, AppendStep, WalSound
<1>2. status = "up" /\ publishing = {} /\ n \in DOMAIN wal /\ n \in Nat
  BY <1>0, TypeFacts, LastIndex, Zenon DEF Inv, ControlSound, WalSound
<1>3. frame \in Frame /\ frame.sequence = latest + 1 /\ latest' = latest + 1 /\ latest \in Nat
  BY <1>0, <1>2, TypeFacts, Zenon DEF Inv, WalSound
<1>4. committed[latest + 1] = ApplyFrame(committed[latest], frame) /\ points = committed[latest]
  <2>1. committed[frame.sequence] = ApplyFrame(committed[frame.sequence - 1], frame)
    BY <1>0, <1>2, ZenonT(20) DEF Inv, WalSound, LogSound
  <2>2. frame.sequence - 1 = latest
    BY <1>3
  <2>3. points = committed[latest]
    BY <1>2, Zenon DEF Inv, MemorySound
  <2> QED
    BY <1>3, <2>1, <2>2, <2>3, Zenon
<1>5. points' = committed[latest']
  BY <1>0, <1>3, <1>4, Zenon
<1>6. /\ \A k \in DOMAIN wal : wal[k] # Torn /\ wal[k].sequence <= latest'
      /\ \A k \in DOMAIN durWal : durWal[k].sequence <= latest'
  <2>1. \A k \in DOMAIN wal : k < n => wal[k] # Torn /\ wal[k].sequence <= latest
    BY <1>2, Zenon DEF Inv, WalSound
  <2>2. \A k \in DOMAIN wal : k < n \/ k = n
    BY <1>0, TypeFacts, LastIndex, Zenon DEF Inv, WalSound
  <2>3. \A k \in DOMAIN durWal : durWal[k].sequence <= latest
    BY <1>2, Zenon DEF Inv, WalSound
  <2> QED
    <3>1. \A k \in DOMAIN wal : k < n => wal[k].sequence <= latest'
      BY <1>3, <2>1, FrameFacts, LeqNext, Zenon DEF Inv
    <3>2. \A k \in DOMAIN durWal : durWal[k].sequence <= latest'
      BY <1>3, <2>3, FrameFacts, LeqNext, Zenon DEF Inv
    <3>3. wal[n].sequence <= latest'
      BY <1>0, <1>3, NextNat, Zenon
    <3> QED
      BY <1>0, <2>1, <2>2, <3>1, <3>2, <3>3, Zenon
<1> HIDE DEF n, frame
<1>7. ControlSound'
  BY <1>0, <1>2, Zenon DEF ControlSound
<1>8. BegunSound'
  <2>1. latest' <= begun
    BY <1>0, <1>2, Zenon DEF Inv, BegunSound, frame
  <2> QED
    BY <1>0, <2>1, Zenon DEF Inv, BegunSound
<1>9. ManifestSound'
  BY <1>0, Zenon DEF Inv, ManifestSound
<1>10. (\A f \in Flushers : PreparedSound(f))'
  <2> SUFFICES ASSUME NEW f \in Flushers, prepared[f].active PROVE PreparedSound(f)'
    BY <1>0, ZenonT(20) DEF PreparedSound
  <2>1. prepared[f].sequence <= latest'
    BY <1>3, PreparedFacts, LeqNext, ZenonT(20) DEF Inv, PreparedSound
  <2> QED
    BY <1>0, <1>2, <2>1, PreparedKept, Zenon DEF Inv
<1>11. (\A f \in publishing : PublishSound(f))'
  BY <1>0, <1>2, ZenonT(20)
<1>12. MemorySound'
  <2>1. manifest.sequence <= latest /\ manifest.sequence \in Nat
    BY <1>2, TypeFacts, ZenonT(20) DEF Inv, MemorySound
  <2>2. ASSUME NEW i \in Ids \ dirty', NEW t \in manifest.sequence .. latest'
        PROVE  committed[t][i] = points'[i]
    <3>1. CASE t = latest'
      BY <1>5, <3>1, Zenon
    <3>2. CASE t # latest'
      <4>1. t \in manifest.sequence .. latest
        BY <1>3, <2>1, <3>2
      <4>2. i \notin dirty /\ i \notin frame.ids
        BY <1>0, Zenon
      <4>3. committed[t][i] = points[i]
        BY <1>2, <4>1, <4>2, Zenon DEF Inv, MemorySound
      <4>4. points'[i] = points[i]
        BY <1>0, <4>2, Zenon DEF ApplyFrame
      <4> QED
        BY <4>3, <4>4, Zenon
    <3> QED
      BY <3>1, <3>2, Zenon
  <2>3. manifest.sequence <= latest' /\ \E k \in DOMAIN wal : wal[k].sequence = latest'
    BY <1>0, <1>2, <1>3, <2>1, LeqNext, Zenon DEF frame
  <2> QED
    BY <1>0, <1>2, <1>5, <2>2, <2>3, Zenon DEF Inv, MemorySound
<1>13. WalSound'
  <2>1. LogSound(wal', committed') /\ LogSound(durWal', committed')
    BY <1>0, Zenon DEF Inv, WalSound
  <2>2. \A k \in DOMAIN durWal' : durWal'[k].sequence <= latest'
    BY <1>0, <1>6, Zenon
  <2> QED
    BY <1>0, <1>2, <1>6, <2>1, <2>2, Zenon DEF WalSound
<1>14. AckedSound'
  <2>1. acked' = latest' /\ latest' \in Nat /\ wal'[n].sequence = acked' /\ n \in DOMAIN wal'
    BY <1>0, <1>2, <1>3, NextNat, Zenon DEF frame
  <2>2. Durability = "Sync" => durWal' = wal' /\ n = Len(wal')
    BY <1>0, Zenon DEF n
  <2> QED
    BY <1>2, <2>1, <2>2 DEF AckedSound
<1> QED
  BY <1>1, <1>7, <1>8, <1>9, <1>10, <1>11, <1>12, <1>13, <1>14, Zenon DEF Inv

(* A write fails and its frame is cut off again; memory never saw it. *)
LEMMA FailAppendInv ==
    ASSUME Inv, FailAppend, "cleanup" \notin IoFaults
    PROVE  Inv'
<1> DEFINE n == Len(wal)
<1>0. /\ stage = "append" /\ stage' = "free" /\ wal' = SubSeq(wal, 1, n - 1)
      /\ UNCHANGED <<durWal, manifest, durManifest, segments, durSegments, status, pos, points,
                     latest, dirty, indexes, publishing, previous, prepared, committed, begun,
                     acked>>
  BY Zenon DEF FailAppend, IoError, memoryVars
<1>1. TypeOK'
  BY <1>0, AppendStepTypeOK, Zenon DEF Inv, AppendStep, WalSound
<1>2. status = "up" /\ publishing = {} /\ n \in DOMAIN wal /\ n \in Nat /\ n > 0
  BY <1>0, TypeFacts, LastIndex, Zenon DEF Inv, ControlSound, WalSound
<1>3. /\ Len(wal') = n - 1 /\ DOMAIN wal' = 1 .. n - 1
      /\ \A k \in DOMAIN wal' : k \in DOMAIN wal /\ k < n /\ wal'[k] = wal[k]
      /\ \A k \in DOMAIN wal : k = n \/ k \in DOMAIN wal'
  <2>1. wal \in Seq(Frame) /\ wal # <<>>
    BY <1>0, TypeFacts, Zenon DEF Inv, WalSound
  <2>2. wal' = SubSeq(wal, 1, Len(wal) - 1)
    BY <1>0, Zenon
  <2> QED
    BY <2>1, <2>2, LogCut, Zenon
<1>4. \A k \in DOMAIN wal : k = n \/ k \in DOMAIN wal'
  BY <1>3, Zenon
<1>5. wal[n].sequence = 0 \/ wal[n].sequence = latest + 1
  BY <1>0, TornSequence, Zenon DEF Inv, WalSound
<1>6. \A k \in DOMAIN wal' : wal'[k] # Torn /\ wal'[k].sequence <= latest
  BY <1>2, <1>3, Zenon DEF Inv, WalSound
<1> HIDE DEF n
<1>7. ControlSound'
  BY <1>0, <1>2, Zenon DEF ControlSound
<1>8. BegunSound'
  BY <1>0, <1>3, ZenonT(20) DEF Inv, BegunSound
<1>9. ManifestSound'
  BY <1>0, ZenonT(60) DEF Inv, ManifestSound
<1>10. (\A f \in Flushers : PreparedSound(f))'
  <2> SUFFICES ASSUME NEW f \in Flushers, prepared[f].active PROVE PreparedSound(f)'
    BY <1>0, ZenonT(20) DEF PreparedSound
  <2>1. prepared[f].sequence <= latest
    BY Zenon DEF Inv, PreparedSound
  <2> QED
    BY <1>0, <1>2, <2>1, PreparedKept, Zenon DEF Inv
<1>11. (\A f \in publishing : PublishSound(f))'
  BY <1>0, <1>2, Zenon
<1>12. latest <= manifest.sequence \/ \E k \in DOMAIN wal' : wal'[k].sequence = latest
  <2>1. CASE latest <= manifest.sequence
    BY <2>1, Zenon
  <2>2. CASE \E k \in DOMAIN wal : wal[k].sequence = latest /\ latest > manifest.sequence
    <3>1. PICK k \in DOMAIN wal : wal[k].sequence = latest /\ latest > manifest.sequence
      BY <2>2, Zenon
    <3>2. latest \in Nat /\ manifest.sequence \in Nat
      BY TypeFacts, Zenon DEF Inv
    <3>3. k # n
      BY <1>5, <3>1, <3>2, AboveAnother, Zenon
    <3> QED
      BY <1>3, <1>4, <3>1, <3>3, Zenon
  <2>3. latest \in Nat /\ manifest.sequence \in Nat
    BY TypeFacts, Zenon DEF Inv
  <2> QED
    BY <1>2, <2>1, <2>2, <2>3 DEF Inv, MemorySound
<1>13. MemorySound'
  BY <1>0, <1>2, <1>12, Zenon DEF Inv, MemorySound
<1>14. WalSound'
  <2>1. LogSound(wal', committed)
    BY <1>3, <1>6, ZenonT(20) DEF Inv, WalSound, LogSound
  <2> QED
    BY <1>0, <1>2, <1>6, <2>1, Zenon DEF Inv, WalSound
<1>15. AckedSound'
  <2>1. acked <= latest
    BY <1>2, Zenon DEF Inv, AckedSound
  <2>2. acked <= manifest.sequence \/ \E k \in DOMAIN wal' : acked <= wal'[k].sequence
    BY <1>12, <2>1, NumberFacts, LeqTrans, Zenon DEF Inv
  <2>3. ASSUME NEW k \in DOMAIN wal, k <= Len(durWal), \A j \in 1 .. k : wal[j] = durWal[j],
               acked <= wal[k].sequence
        PROVE  \/ acked <= durManifest.sequence
               \/ \E l \in DOMAIN wal' : /\ l <= Len(durWal)
                                         /\ \A j \in 1 .. l : wal'[j] = durWal[j]
                                         /\ acked <= wal'[l].sequence
    <3>1. CASE k = n
      <4>1. n \in DOMAIN durWal /\ wal[n] = durWal[n]
        BY <1>2, <2>3, <3>1, TypeFacts
      <4>2. wal[n].sequence = 0
        <5>1. durWal[n].sequence <= latest /\ latest \in Nat
          BY <1>2, <4>1, NumberFacts, Zenon DEF Inv, WalSound
        <5> QED
          BY <1>5, <4>1, <5>1, NextNat, Zenon
      <4> QED
        BY <2>3, <3>1, <4>2, NumberFacts, ZeroLeast, Zenon DEF Inv
    <3>2. CASE k # n
      <4>1. k \in DOMAIN wal' /\ 1 .. k \subseteq DOMAIN wal'
        BY <1>2, <1>3, <1>4, <3>2
      <4> QED
        BY <1>3, <2>3, <4>1, Zenon
    <3> QED
      BY <3>1, <3>2, ZenonT(60)
  <2>4. Durability = "Sync" =>
          \/ acked <= durManifest.sequence
          \/ \E l \in DOMAIN wal' : /\ l <= Len(durWal)
                                    /\ \A j \in 1 .. l : wal'[j] = durWal[j]
                                    /\ acked <= wal'[l].sequence
    BY <2>3, Zenon DEF Inv, AckedSound
  <2> QED
    BY <1>0, <2>1, <2>2, <2>4, ZenonT(20) DEF AckedSound
<1> QED
  BY <1>1, <1>7, <1>8, <1>9, <1>10, <1>11, <1>13, <1>14, <1>15, Zenon DEF Inv
===============================================================================
