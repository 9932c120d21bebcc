----------------------------- MODULE SearchProofs -----------------------------
(***************************************************************************)
(* What follows from Inv about the shared collection: published files are  *)
(* immutable, the collection is a durable map, with SearchInv a search is  *)
(* exact, and with ReopenInv open fails only on a manifest with too many   *)
(* names.                                                                  *)
(***************************************************************************)
EXTENDS DurabilityProofs

(* Which steps write a segment file. *)
LEMMA SegmentsChange ==
    ASSUME [SafeNext]_vars
    PROVE  \/ UNCHANGED segments
           \/ \E f \in Flushers : PublishSegment(f)
           \/ \E f \in Flushers : f \in publishing /\ FinishPublish(f)
           \/ PowerLoss
  BY ZenonT(30) DEF SafeNext, Write, BeginAppend, FlushSnapshot, SystemStep, AppendStep,
         CompleteAppend, FailAppend, PublishStep, PublishNothing, SyncSegment,
         SyncDirectory, WriteManifest, RenameManifest, SyncManifest, TruncateWal,
         FailPublish, RecoveryStep, Open, LoadSegment, BeginReplay, ReplayFrame, ReplayTorn,
         OpenDone, Crash, vars, diskVars

(* A step leaves the files of both manifests alone: publish_flush renames over one of them  *)
(* only what it already holds, retires what they no longer name, and a power loss finds     *)
(* them on stable storage.                                                                  *)
LEMMA FilesKept ==
    ASSUME Inv, [SafeNext]_vars, NEW m \in {manifest, durManifest}, NEW n \in ManifestNames(m)
    PROVE  segments'[n] = segments[n]
<1>0. n \in Seqs /\ durSegments[n] = segments[n]
  <2>1. ChainSound(m, segments, durSegments, committed) /\ m.segments \in Seq(Seqs)
    BY ManifestTypes, ZenonT(20) DEF Inv, ManifestSound
  <2>2. \A p \in DOMAIN m.segments :
          /\ m.segments[p] \in Seqs
          /\ durSegments[m.segments[p]] = segments[m.segments[p]]
    BY <2>1, ChainNames
  <2> QED
    BY <2>2, ZenonT(20) DEF ManifestNames
<1>1. ASSUME NEW f \in Flushers, PublishSegment(f)
      PROVE  segments'[n] = segments[n]
  <2>1. /\ segments' = [segments EXCEPT ![prepared[f].sequence] = SegmentFile(prepared[f])]
        /\ prepared[f].active /\ stage = "free"
    BY <1>1, ZenonT(20) DEF PublishSegment, Unlocked
  <2>2. f \notin publishing
    BY <2>1, Zenon DEF Inv, ControlSound
  <2>3. prepared[f].sequence = n => segments[n] = SegmentFile(prepared[f])
    BY <2>1, <2>2, ZenonT(20) DEF Inv, PreparedSound
  <2>4. segments \in [Seqs -> Segment]
    BY Zenon DEF Inv, TypeOK
  <2> QED
    BY <1>0, <2>1, <2>3, <2>4, ZenonT(20)
<1>2. ASSUME NEW f \in publishing, FinishPublish(f)
      PROVE  segments'[n] = segments[n]
  <2> DEFINE p == prepared[f]
  <2>1. /\ stage = "walCut"
        /\ segments' = IF p.compact
                       THEN [s \in Seqs |-> IF s \in Retired(p) THEN NoSegment ELSE segments[s]]
                       ELSE segments
    BY <1>2, Zenon DEF FinishPublish
  <2>2. durManifest = manifest /\ (p.compact => manifest.segments = <<p.sequence>>) /\ p.compact \in BOOLEAN
    BY <2>1, PublisherFacts, PreparedFacts, ZenonT(20) DEF Inv, PublishSound, AfterRename
  <2>3. CASE p.compact
    <3>1. n = p.sequence
      BY <2>2, <2>3, OneName, Zenon
    <3> QED
      BY <1>0, <2>1, <2>3, <3>1, ZenonT(20) DEF Retired
  <2> QED
    BY <2>1, <2>2, <2>3, ZenonT(20)
<1>3. CASE PowerLoss
  <2>1. segments'[n] \in {segments[n], durSegments[n]}
    BY <1>0, <1>3, ZenonT(20) DEF PowerLoss
  <2> QED
    BY <1>0, <2>1, ZenonT(20)
<1> QED
  BY <1>1, <1>2, <1>3, SegmentsChange, ZenonT(20)

(* A published segment file is immutable: none that the durable manifest names is changed or *)
(* removed by publish_flush, a failed one, recovery, a crash or a power loss.                 *)
THEOREM SharedSegmentsImmutable == CarefulCallers /\ SharedSpec => SegmentsImmutable
<1> SUFFICES ASSUME CarefulCallers PROVE SharedSpec => SegmentsImmutable
  OBVIOUS
<1>1. Inv /\ [SharedNext]_vars =>
        [\A n \in ManifestNames(durManifest) : segments'[n] = segments[n]]_<<segments, durManifest>>
  BY FilesKept, SharedIsSafe, ZenonT(20)
<1> QED
  BY <1>1, SharedInv, PTL DEF SharedSpec, SegmentsImmutable

-------------------------------------------------------------------------------
(* The refinement of DurableMap: beginning a batch ... *)
LEMMA MapBegin ==
    ASSUME Inv, NEW op \in {"upsert", "delete"}, NEW ids \in SUBSET Ids, BeginAppend(op, ids)
    PROVE  Map!Next
<1> DEFINE version == IF op = "upsert" THEN latest + 1 ELSE 0
           frame == [op |-> op, sequence |-> latest + 1, ids |-> ids]
<1>1. /\ status = "up" /\ status' = "up" /\ stage = "free" /\ stage' = "append"
      /\ points' = points /\ latest' = latest /\ acked' = acked /\ begun' = latest + 1
      /\ latest < MaxSeq /\ committed' = [committed EXCEPT ![latest + 1] = ApplyFrame(points, frame)]
  BY ZenonT(20) DEF BeginAppend, Unlocked, HasNextSequence, memoryVars
<1>2. ApplyFrame(points, frame) = [i \in Ids |-> IF i \in ids THEN version ELSE points[i]]
  BY Zenon DEF ApplyFrame
<1>3. version \in 0 .. MaxSeq /\ version \in {0, latest + 1}
  BY <1>1, NumberFacts DEF Inv
<1> HIDE DEF version, frame
<1>4. Map!Begin(ids, version)
  BY <1>1, <1>2, <1>3, ZenonT(20) DEF Map!Begin
<1> QED
  BY <1>3, <1>4, ZenonT(20) DEF Map!Next

(* ... its success, whose points are the ones the log promised ... *)
LEMMA MapAcknowledge ==
    ASSUME Inv, CompleteAppend
    PROVE  Map!Acknowledge
<1> DEFINE frame == wal[Len(wal)]
<1>1. /\ stage = "append" /\ stage' = "free" /\ frame # Torn /\ status' = status
      /\ points' = ApplyFrame(points, frame) /\ latest' = frame.sequence /\ acked' = frame.sequence
      /\ committed' = committed /\ begun' = begun
  BY Zenon DEF CompleteAppend
<1>2. status = "up"
  BY <1>1, Zenon DEF Inv, ControlSound
<1>3. Len(wal) \in DOMAIN wal /\ frame.sequence = latest + 1
  BY <1>1, TypeFacts DEF Inv, WalSound
<1>4. committed[latest + 1] = ApplyFrame(committed[latest], frame)
  <2>1. committed[frame.sequence] = ApplyFrame(committed[frame.sequence - 1], frame)
    BY <1>1, <1>3, ZenonT(20) DEF Inv, WalSound, LogSound
  <2> HIDE DEF frame
  <2>2. frame.sequence - 1 = latest
    BY <1>3, NumberFacts DEF Inv
  <2> QED
    BY <1>3, <2>1, <2>2, ZenonT(20)
<1>5. points = committed[latest]
  BY <1>2, Zenon DEF Inv, MemorySound
<1> HIDE DEF frame
<1> QED
  BY <1>1, <1>2, <1>3, <1>4, <1>5, ZenonT(20) DEF Map!Acknowledge

(* ... and its failure. *)
LEMMA MapRefuse ==
    ASSUME Inv, FailAppend
    PROVE  Map!Refuse
<1>1. /\ stage = "append" /\ stage' = "free" /\ status' = status /\ points' = points /\ latest' = latest
      /\ committed' = committed /\ begun' = begun /\ acked' = acked
  BY Zenon DEF FailAppend, IoError, memoryVars
<1>2. status = "up"
  BY <1>1, Zenon DEF Inv, ControlSound
<1> QED
  BY <1>1, <1>2, ZenonT(20) DEF Map!Refuse

(* Flushing is invisible. *)
LEMMA MapFlush ==
    ASSUME Inv, NEW f \in Flushers, FlushSnapshot(f) \/ PublishStep(f)
    PROVE  UNCHANGED Map!vars
<1>1. /\ status' = status /\ points' = points /\ latest' = latest
      /\ committed' = committed /\ begun' = begun /\ acked' = acked
  BY ZenonT(20) DEF FlushSnapshot, PublishStep, PublishNothing, PublishSegment, SyncSegment,
       WriteManifest, RenameManifest, SyncManifest, TruncateWal, FinishPublish, FailPublish, IoError,
       memoryVars, historyVars
<1>2. stage # "append" /\ stage' # "append"
  <2>1. CASE f \in publishing
    <3>1. stage \notin {"free", "append"}
      BY <2>1, PublisherFacts, Zenon
    <3> QED
      BY <3>1, ZenonT(20) DEF FlushSnapshot, PublishStep, PublishNothing, PublishSegment,
        SyncSegment, WriteManifest, RenameManifest, SyncManifest, TruncateWal, FinishPublish, FailPublish,
        Step, Unlocked
  <2>2. CASE f \notin publishing
    BY <2>2, ZenonT(20) DEF FlushSnapshot, PublishStep, PublishNothing, PublishSegment, Unlocked
  <2> QED
    BY <2>1, <2>2, Zenon
<1> QED
  BY <1>1, <1>2, ZenonT(20) DEF Map!vars

(* So is recovery before its last step. *)
LEMMA MapRecovery ==
    ASSUME Inv, Open \/ LoadSegment \/ BeginReplay \/ ReplayFrame \/ ReplayTorn
    PROVE  UNCHANGED Map!vars
<1>1. /\ status # "up" /\ status' # "up" /\ stage' = stage
      /\ committed' = committed /\ begun' = begun /\ acked' = acked
  BY ZenonT(20) DEF Open, LoadSegment, BeginReplay, ReplayFrame, ReplayTorn, flushVars, historyVars
<1> QED
  BY <1>1, ZenonT(20) DEF Map!vars

(* Open ends with a batch that was tried, and with every acknowledged one. *)
LEMMA MapRestart ==
    ASSUME Inv, OpenDone
    PROVE  Map!Restart
<1>1. /\ status = "replaying" /\ status' = "up" /\ stage' = stage /\ points' = points /\ latest' = latest
      /\ committed' = committed /\ begun' = begun /\ acked' = acked
  BY Zenon DEF OpenDone, flushVars, historyVars
<1>2. acked <= latest
  BY <1>1, OpenDoneInv, Zenon DEF Inv, AckedSound
<1>3. points = committed[latest] /\ latest <= begun
  BY <1>1, Zenon DEF Inv, MemorySound, BegunSound
<1>4. latest \in acked .. begun
  BY <1>2, <1>3, NumberFacts DEF Inv
<1>5. stage # "append"
  BY <1>1, Zenon DEF Inv, ControlSound
<1> QED
  BY <1>1, <1>3, <1>4, <1>5, ZenonT(20) DEF Map!Restart

(* A crash, or a power loss, which costs acknowledged batches under Durability::Flush only. *)
LEMMA MapStop ==
    ASSUME Inv, Crash \/ PowerLoss
    PROVE  Map!Stop
<1>1. /\ status' = "closed" /\ stage' = "free" /\ committed' = committed /\ begun' = begun
  BY ZenonT(20) DEF Crash, PowerLoss, LoseMemory
<1>2. acked' = acked \/ (Durability = "Flush" /\ acked' \in 0 .. acked)
  <2>1. CASE Crash
    BY <2>1, Zenon DEF Crash
  <2>2. CASE PowerLoss
    <3> DEFINE kept == Recoverable(manifest', wal')
    <3>1. LoseAcknowledged(kept)
      BY <2>2, Zenon DEF PowerLoss
    <3>2. manifest' \in Manifest /\ wal' \in Seq(Frame)
      BY <2>2, CrashTypeOK, Zenon DEF Inv, TypeOK
    <3>3. \A s \in kept : s \in Nat
      BY <3>2, RecoverableNat, ZenonT(20)
    <3> HIDE DEF kept
    <3>4. CASE acked' # acked
      <4>1. Durability # "Sync" /\ acked' \in kept /\ ~(acked' >= acked)
        BY <3>1, <3>4, ZenonT(20) DEF LoseAcknowledged
      <4>2. acked' \in 0 .. acked
        BY <3>3, <4>1, NumberFacts DEF Inv
      <4> QED
        BY <4>1, <4>2, ConstantsAssumption, Zenon
    <3> QED
      BY <3>4, Zenon
  <2> QED
    BY <2>1, <2>2, Zenon
<1> QED
  BY <1>1, <1>2, ZenonT(20) DEF Map!Stop, Map!Empty, NoPoints

(* Every step is a step of the map or leaves it alone. *)
LEMMA MapStep ==
    ASSUME Inv, [SafeNext]_vars
    PROVE  [Map!Next]_(Map!vars)
<1>1. CASE UNCHANGED vars
  BY <1>1, ZenonT(20) DEF vars, memoryVars, flushVars, historyVars, Map!vars
<1>2. CASE Write
  BY <1>2, MapBegin, Zenon DEF Write
<1>3. CASE AppendStep
  BY <1>3, MapAcknowledge, MapRefuse, Zenon DEF AppendStep, Map!Next
<1>4. ASSUME NEW f \in Flushers, FlushSnapshot(f) \/ PublishStep(f)
      PROVE  UNCHANGED Map!vars
  BY <1>4, MapFlush, Zenon
<1>5. CASE RecoveryStep
  BY <1>5, MapRecovery, MapRestart, Zenon DEF RecoveryStep, Map!Next
<1>6. CASE Crash \/ PowerLoss
  BY <1>6, MapStop, Zenon DEF Map!Next
<1> QED
  BY <1>1, <1>2, <1>3, <1>4, <1>5, <1>6, ZenonT(20) DEF SafeNext, SystemStep

LEMMA MapInit == Init => Map!Init
  BY ZenonT(20) DEF Init, Map!Init, Map!Empty, NoPoints, Seqs

(* The whole collection (log, segments, manifest, concurrent flushes, I/O errors, crashes, *)
(* power losses and recovery) implements a durable map, step by step.                      *)
THEOREM SharedIsDurableMap == CarefulCallers /\ SharedSpec => IsDurableMap
<1> SUFFICES ASSUME CarefulCallers PROVE SharedSpec => IsDurableMap
  OBVIOUS
<1>1. Inv /\ [SharedNext]_vars => [Map!Next]_(Map!vars)
  BY MapStep, SharedIsSafe, Zenon
<1> QED
  BY <1>1, MapInit, SharedInv, PTL DEF SharedSpec, IsDurableMap, Map!Spec

-------------------------------------------------------------------------------
(* SearchInv.  The graph for the points pts at sequence n, if it has a node. *)
Graph(n, pts) == IF Live(pts) = {} THEN <<>> ELSE <<[sequence |-> n, points |-> pts]>>

(* It is added to the graphs: they stay, and what is new is it. *)
Adds(old, new, n, pts) ==
    /\ \A k \in DOMAIN old : k \in DOMAIN new /\ new[k] = old[k]
    /\ \A k \in DOMAIN new : \/ k \in DOMAIN old /\ new[k] = old[k]
                             \/ new[k].sequence = n /\ new[k].points = pts
    /\ \A i \in Ids : pts[i] # 0 => \E k \in DOMAIN new : new[k].sequence = n /\ new[k].points = pts

(* Appending a graph adds it. *)
LEMMA GraphAdded ==
    ASSUME NEW old \in Seq(IndexSegment), NEW n \in Seqs, NEW pts \in PointMap
    PROVE  Adds(old, old \o Graph(n, pts), n, pts)
<1> DEFINE new == old \o Graph(n, pts)
<1> SUFFICES Adds(old, new, n, pts)
  OBVIOUS
<1> DEFINE e == [sequence |-> n, points |-> pts]
<1>0. e.sequence = n /\ e.points = pts /\ e \in IndexSegment
  BY Zenon DEF IndexSegment
<1> HIDE DEF e, new
<1>1. CASE Live(pts) = {}
  <2>1. new = old
    BY <1>1 DEF Graph, new
  <2>2. \A i \in Ids : pts[i] = 0
    BY <1>1, Zenon DEF Live
  <2> QED
    BY <2>1, <2>2, ZenonT(20) DEF Adds
<1>2. CASE Live(pts) # {}
  <2>1. new = old \o <<e>>
    BY <1>2, Zenon DEF e, Graph, new
  <2>2. /\ DOMAIN new = 1 .. Len(old) + 1 /\ DOMAIN old = 1 .. Len(old) /\ Len(old) \in Nat
        /\ \A k \in 1 .. Len(old) : new[k] = old[k]
        /\ new[Len(old) + 1] = e
    BY <1>0, <2>1
  <2>3. \A k \in DOMAIN new : k \in DOMAIN old \/ k = Len(old) + 1
    BY <2>2
  <2>4. Len(old) + 1 \in DOMAIN new
    BY <2>2
  <2>5. \A k \in DOMAIN old : k \in DOMAIN new
    BY <2>2
  <2> QED
    BY <1>0, <2>2, <2>3, <2>4, <2>5, ZenonT(20) DEF Adds
<1> QED
  BY <1>1, <1>2, Zenon

(* The steps that leave the memory and the history alone: they may copy files, drop a    *)
(* prepared flush and advance the manifest.                                              *)
LEMMA SearchQuiet ==
    ASSUME SearchInv, UNCHANGED <<points, latest, dirty, indexes, metadataIndex, committed, begun>>,
           status' \in {"closed", "loading"} => status \in {"closed", "loading"},
           \A n \in Seqs : segments'[n] \in {segments[n], durSegments[n]},
           \A n \in Seqs : durSegments'[n] \in {segments[n], durSegments[n]},
           \A f \in Flushers : prepared'[f].active => prepared'[f] = prepared[f],
           \A f \in Flushers : manifest'.sequence <= prepared[f].sequence =>
                                 manifest.sequence <= prepared[f].sequence
    PROVE  SearchInv'
<1>1. VersionsSound' /\ IndexSound' /\ CoverSound'
  BY ZenonT(60) DEF SearchInv, VersionsSound, IndexSound, CoverSound, Covered
<1>2. FilesSound'
  <2> SUFFICES ASSUME NEW n \in Seqs, NEW i \in Ids
               PROVE  /\ segments'[n].points[i] # 0 => i \in segments'[n].ids
                      /\ durSegments'[n].points[i] # 0 => i \in durSegments'[n].ids
    BY Zenon DEF FilesSound
  <2>1. /\ segments[n].points[i] # 0 => i \in segments[n].ids
        /\ durSegments[n].points[i] # 0 => i \in durSegments[n].ids
    BY Zenon DEF SearchInv, FilesSound
  <2>2. segments'[n] = segments[n] \/ segments'[n] = durSegments[n]
    OBVIOUS
  <2>3. durSegments'[n] = segments[n] \/ durSegments'[n] = durSegments[n]
    OBVIOUS
  <2> QED
    BY <2>1, <2>2, <2>3, ZenonT(20)
<1>3. MetadataSound'
  BY ZenonT(20) DEF SearchInv, MetadataSound
<1>4. ASSUME NEW f \in Flushers PROVE DeltaSound(f)'
  <2> SUFFICES ASSUME prepared'[f].active, ~prepared'[f].compact,
                      manifest'.sequence <= prepared'[f].sequence,
                      NEW i \in Ids \ prepared'[f].ids, prepared'[f].points[i] # 0
               PROVE  \E k \in DOMAIN indexes' : /\ indexes'[k].points[i] # 0
                                                 /\ prepared'[f].points[i] <= indexes'[k].sequence
    BY ZenonT(20) DEF DeltaSound, Covered
  <2>1. prepared'[f] = prepared[f] /\ indexes' = indexes
    OBVIOUS
  <2>2. Covered(i, prepared[f].points[i])
    BY <2>1, ZenonT(20) DEF SearchInv, DeltaSound
  <2> QED
    BY <2>1, <2>2, ZenonT(20) DEF Covered
<1> QED
  BY <1>1, <1>2, <1>3, <1>4, Zenon DEF SearchInv

(* A write begins: the state it will commit follows from the one before. *)
LEMMA SearchBegin ==
    ASSUME Inv, SearchInv, NEW op \in {"upsert", "delete"}, NEW ids \in SUBSET Ids, BeginAppend(op, ids)
    PROVE  SearchInv'
<1> DEFINE frame == [op |-> op, sequence |-> latest + 1, ids |-> ids]
<1>0. /\ UNCHANGED <<points, latest, dirty, indexes, metadataIndex, status, segments, durSegments,
                     prepared, manifest>>
      /\ begun' = latest + 1 /\ latest < MaxSeq /\ status = "up"
      /\ committed' = [committed EXCEPT ![latest + 1] = ApplyFrame(points, frame)]
  BY ZenonT(20) DEF BeginAppend, Unlocked, HasNextSequence, memoryVars
<1>1. /\ latest \in Nat /\ latest <= begun /\ begun \in Nat /\ points = committed[latest]
      /\ committed \in [Seqs -> PointMap] /\ MaxSeq \in Nat
  BY <1>0, NumberFacts, Zenon DEF Inv, BegunSound, MemorySound, TypeOK
<1>2. \A t \in 0 .. latest : committed'[t] = committed[t] /\ committed[t] \in PointMap
  BY <1>0, <1>1 DEF Seqs
<1>3. ASSUME NEW i \in Ids PROVE committed'[latest + 1][i] \in {committed[latest][i], latest + 1, 0}
  <2>1. committed'[latest + 1] = ApplyFrame(points, frame)
    BY <1>0, <1>1 DEF Seqs
  <2> QED
    BY <1>1, <2>1, Zenon DEF ApplyFrame
<1>4. VersionsSound'
  <2> SUFFICES ASSUME NEW s \in 0 .. latest + 1, NEW i \in Ids
               PROVE  /\ committed'[s][i] <= s
                      /\ committed'[s][i] # 0 =>
                           \A t \in committed'[s][i] .. s : committed'[t][i] = committed'[s][i]
    BY <1>0, Zenon DEF VersionsSound
  <2>1. ASSUME NEW r \in 0 .. latest
        PROVE  /\ committed[r][i] \in Nat /\ committed[r][i] <= r
               /\ committed[r][i] # 0 => \A t \in committed[r][i] .. r : committed[t][i] = committed[r][i]
    <3>1. committed[r][i] \in Nat
      BY <1>2 DEF PointMap, Seqs
    <3>2. r \in 0 .. begun
      BY <1>1
    <3> QED
      BY <3>1, <3>2, ZenonT(20) DEF SearchInv, VersionsSound
  <2>2. CASE s <= latest
    <3>1. s \in 0 .. latest
      BY <1>1, <2>2
    <3>2. committed'[s] = committed[s]
      BY <1>2, <3>1, Zenon
    <3>3. \A t \in committed[s][i] .. s : t \in 0 .. latest
      BY <1>1, <2>1, <3>1
    <3> QED
      BY <1>2, <2>1, <3>1, <3>2, <3>3, ZenonT(20)
  <2>3. CASE s = latest + 1
    <3> DEFINE v == committed'[s][i]
    <3>1. v = committed[latest][i] \/ v = s \/ v = 0
      BY <1>3, <2>3, Zenon
    <3>2. latest \in 0 .. latest
      BY <1>1
    <3>3. CASE v = committed[latest][i] /\ v # 0
      <4>1. v \in Nat /\ v <= latest /\ \A t \in v .. latest : committed[t][i] = v
        BY <2>1, <3>2, <3>3, ZenonT(20)
      <4>2. ASSUME NEW t \in v .. s PROVE committed'[t][i] = v
        <5>1. CASE t = s
          BY <5>1, Zenon
        <5>2. CASE t # s
          <6>1. t \in v .. latest /\ t \in 0 .. latest
            BY <1>1, <2>3, <4>1, <5>2
          <6> QED
            BY <1>2, <4>1, <6>1, Zenon
        <5> QED
          BY <5>1, <5>2, Zenon
      <4> HIDE DEF v
      <4>3. v <= s
        BY <1>1, <2>3, <4>1
      <4> QED
        BY <4>2, <4>3, ZenonT(20) DEF v
    <3>4. CASE v = s
      <4>1. \A t \in s .. s : t = s
        BY <1>1
      <4> QED
        BY <3>4, <4>1
    <3>5. CASE v = 0
      BY <1>1, <3>5
    <3> QED
      BY <3>1, <3>3, <3>4, <3>5, ZenonT(20)
  <2> QED
    BY <1>1, <2>2, <2>3
<1>5. IndexSound'
  <2>1. \A k \in DOMAIN indexes : indexes[k].sequence \in 0 .. latest
    <3>1. \A k \in DOMAIN indexes : indexes[k] \in IndexSegment
      BY DEF Inv, TypeOK
    <3> QED
      BY <1>1, <3>1 DEF SearchInv, IndexSound, IndexSegment, Seqs
  <2>2. \A k \in DOMAIN indexes : committed'[indexes[k].sequence] = committed[indexes[k].sequence]
    BY <1>2, <2>1, Zenon
  <2>3. \A k \in DOMAIN indexes : /\ indexes[k].sequence <= latest
                                  /\ \A i \in Ids : indexes[k].points[i] # 0 =>
                                       indexes[k].points[i] = committed'[indexes[k].sequence][i]
    BY <2>2, ZenonT(60) DEF SearchInv, IndexSound
  <2>4. indexes' = indexes /\ latest' = latest
    BY <1>0, Zenon
  <2> QED
    BY <2>3, <2>4, ZenonT(20) DEF IndexSound
<1>6. FilesSound' /\ CoverSound' /\ MetadataSound' /\ \A f \in Flushers : DeltaSound(f)'
  BY <1>0, ZenonT(20) DEF SearchInv, FilesSound, CoverSound, Covered, MetadataSound, DeltaSound
<1> QED
  BY <1>4, <1>5, <1>6, Zenon DEF SearchInv

(* A frame is applied, by a write or by recovery: its IDs become dirty. *)
LEMMA SearchApply ==
    ASSUME Inv, SearchInv, NEW ids \in SUBSET Ids, dirty' = dirty \union ids,
           \A i \in Ids \ ids : points'[i] = points[i],
           latest' \in Nat, latest <= latest', status' \notin {"closed", "loading"},
           UNCHANGED <<indexes, metadataIndex, committed, begun, segments, durSegments, prepared, manifest>>
    PROVE  SearchInv'
<1>1. VersionsSound' /\ FilesSound'
  BY ZenonT(200) DEF SearchInv, VersionsSound, FilesSound
<1>2. IndexSound'
  <2>1. \A k \in DOMAIN indexes : indexes[k].sequence <= latest'
    <3>1. \A k \in DOMAIN indexes : indexes[k] \in IndexSegment
      BY DEF Inv, TypeOK
    <3>2. \A k \in DOMAIN indexes : indexes[k].sequence \in Nat
      BY <3>1, ConstantsAssumption DEF IndexSegment, Seqs
    <3>3. \A k \in DOMAIN indexes : indexes[k].sequence <= latest
      BY Zenon DEF SearchInv, IndexSound
    <3> QED
      BY <3>2, <3>3, NumberFacts DEF Inv
  <2> QED
    BY <2>1, ZenonT(20) DEF SearchInv, IndexSound
<1>3. CoverSound' /\ MetadataSound'
  BY ZenonT(20) DEF SearchInv, CoverSound, Covered, MetadataSound, Live
<1>4. \A f \in Flushers : DeltaSound(f)'
  BY ZenonT(20) DEF SearchInv, DeltaSound, Covered
<1> QED
  BY <1>1, <1>2, <1>3, <1>4, Zenon DEF SearchInv

(* A write is acknowledged: its IDs are dirty. *)
LEMMA SearchCompleteAppend ==
    ASSUME Inv, SearchInv, CompleteAppend
    PROVE  SearchInv'
<1> DEFINE frame == wal[Len(wal)]
<1>1. /\ stage = "append" /\ status' = status
      /\ points' = ApplyFrame(points, frame) /\ latest' = frame.sequence /\ dirty' = dirty \union frame.ids
      /\ UNCHANGED <<indexes, metadataIndex, committed, begun, segments, durSegments, prepared, manifest>>
      /\ frame # Torn
  BY Zenon DEF CompleteAppend
<1>2. Len(wal) \in DOMAIN wal /\ frame.sequence = latest + 1 /\ frame \in Frame
  BY <1>1, TypeFacts DEF Inv, WalSound
<1>3. status = "up"
  BY <1>1, Zenon DEF Inv, ControlSound
<1>4. latest' \in Nat /\ latest <= latest'
  BY <1>1, <1>2, NumberFacts DEF Inv
<1>5. frame.ids \in SUBSET Ids
  BY <1>2, Zenon DEF Frame
<1> HIDE DEF frame
<1>6. \A i \in Ids \ frame.ids : points'[i] = points[i]
  BY <1>1, Zenon DEF ApplyFrame
<1> QED
  BY <1>1, <1>3, <1>4, <1>5, <1>6, SearchApply, ZenonT(20)

(* recover applies a frame, skips one the segments hold, or refuses a gap. *)
LEMMA SearchReplayFrame ==
    ASSUME Inv, SearchInv, ReplayFrame
    PROVE  SearchInv'
<1> DEFINE frame == wal[pos]
           ids == IF frame.sequence = latest + 1 THEN frame.ids ELSE {}
<1>1. /\ status = "replaying" /\ status' \in {"replaying", "failed"}
      /\ points' = IF frame.sequence = latest + 1 THEN ApplyFrame(points, frame) ELSE points
      /\ latest' = IF frame.sequence = latest + 1 THEN frame.sequence ELSE latest
      /\ dirty' = IF frame.sequence = latest + 1 THEN dirty \union frame.ids ELSE dirty
      /\ UNCHANGED <<indexes, metadataIndex, committed, begun, segments, durSegments, prepared, manifest>>
  BY ZenonT(20) DEF ReplayFrame, diskVars, flushVars, historyVars
<1>2. pos \in DOMAIN wal /\ frame \in Frame
  <2>1. TypeOK /\ pos <= Len(wal)
    BY ZenonT(20) DEF Inv, ReplayFrame
  <2> QED
    BY <2>1, PositionFacts, TypeFacts, ZenonT(20)
<1>3. frame.ids \in SUBSET Ids
  BY <1>2, Zenon DEF Frame
<1> HIDE DEF frame
<1>4. latest' \in Nat /\ latest <= latest'
  BY <1>1, NumberFacts DEF Inv
<1>5. ids \in SUBSET Ids /\ dirty' = dirty \union ids
  BY <1>1, <1>3, Zenon
<1>6. \A i \in Ids \ ids : points'[i] = points[i]
  BY <1>1, Zenon DEF ApplyFrame
<1> HIDE DEF ids
<1> QED
  BY <1>1, <1>4, <1>5, <1>6, SearchApply, ZenonT(20)

(* A segment is loaded: the graph made of it covers what it brings. *)
LEMMA SearchLoadSegment ==
    ASSUME Inv, SearchInv, LoadSegment
    PROVE  SearchInv'
<1> DEFINE n == manifest.segments[pos]
           file == segments[n]
<1>0. /\ status = "loading"
      /\ UNCHANGED <<dirty, metadataIndex, committed, begun, segments, durSegments, prepared, manifest>>
  BY ZenonT(20) DEF LoadSegment, diskVars, flushVars, historyVars
<1>1. CASE ~SegmentLoads(pos)
  <2>1. status' = "failed" /\ UNCHANGED <<points, latest, indexes>>
    BY <1>1, Zenon DEF LoadSegment
  <2> QED
    BY <1>0, <2>1, SearchQuiet, ZenonT(20)
<1>2. CASE SegmentLoads(pos)
  <2>0. /\ points' = PointsAfter(file) /\ latest' = n /\ status' = status
        /\ indexes' = indexes \o (IF Live(file.points) = {} THEN <<>>
                                  ELSE <<[sequence |-> n, points |-> file.points]>>)
    BY <1>2, ZenonT(20) DEF LoadSegment
  <2>1. Inv'
    BY LoadSegmentInv, Zenon
  <2>2. /\ points' = committed[n] /\ n <= begun /\ n \in Seqs /\ n \in Nat
    <3>1. MemorySound' /\ BegunSound' /\ latest' \in Seqs
      BY <2>1, Zenon DEF Inv, TypeOK
    <3>2. points' = committed'[latest'] /\ latest' <= begun'
      BY <1>0, <2>0, <3>1, ZenonT(20) DEF MemorySound, BegunSound
    <3>3. \A s \in Seqs : s \in Nat
      BY ConstantsAssumption DEF Seqs
    <3> HIDE DEF n, file
    <3> QED
      BY <1>0, <2>0, <3>1, <3>2, <3>3, ZenonT(20)
  <2>3. file \in Segment /\ dirty = {} /\ indexes \in Seq(IndexSegment) /\ latest <= n
    <3>1. file \in Segment
      BY <2>2, Zenon DEF Inv, TypeOK
    <3>2. dirty = {} /\ indexes \in Seq(IndexSegment)
      BY <1>0, Zenon DEF Inv, MemorySound, TypeOK
    <3>3. latest <= n
      <4>1. CASE pos = 1
        BY <1>0, <2>2, <4>1 DEF Inv, MemorySound
      <4>2. CASE pos # 1
        <5>1. latest = manifest.segments[pos - 1] /\ pos > 1
          BY <1>0, <4>2 DEF Inv, MemorySound, TypeOK
        <5>2. n > manifest.segments[pos - 1]
          BY <1>2, <5>1, Zenon DEF SegmentLoads
        <5> QED
          BY <2>2, <5>1, <5>2, NumberFacts DEF Inv
      <4> QED
        BY <4>1, <4>2, Zenon
    <3> QED
      BY <3>1, <3>2, <3>3, Zenon
  <2>4. file.points \in PointMap
    BY <2>3, Zenon DEF Segment
  <2>5. \A i \in Ids : file.points[i] # 0 => i \in file.ids
    BY <2>2, Zenon DEF SearchInv, FilesSound
  <2> HIDE DEF n, file
  <2>6. Adds(indexes, indexes', n, file.points)
    <3>1. indexes' = indexes \o Graph(n, file.points)
      BY <2>0, ZenonT(20) DEF Graph
    <3> QED
      BY <2>2, <2>3, <2>4, <3>1, GraphAdded, ZenonT(20)
  <2>7. \A i \in Ids : points'[i] = IF i \in file.ids THEN file.points[i] ELSE points[i]
    BY <2>0, Zenon DEF PointsAfter
  <2>8. VersionsSound' /\ FilesSound' /\ MetadataSound'
    BY <1>0, <2>0, ZenonT(60) DEF SearchInv, VersionsSound, FilesSound, MetadataSound
  <2>9. IndexSound'
    <3> SUFFICES ASSUME NEW k \in DOMAIN indexes'
                 PROVE  /\ indexes'[k].sequence <= n
                        /\ \A i \in Ids : indexes'[k].points[i] # 0 =>
                             indexes'[k].points[i] = committed[indexes'[k].sequence][i]
      BY <1>0, <2>0, ZenonT(20) DEF IndexSound
    <3>1. CASE k \in DOMAIN indexes /\ indexes'[k] = indexes[k]
      <4>1. indexes[k] \in IndexSegment
        BY <2>3, <3>1
      <4>2. indexes[k].sequence \in Nat /\ indexes[k].sequence <= latest
        BY <3>1, <4>1, ConstantsAssumption DEF SearchInv, IndexSound, IndexSegment, Seqs
      <4>3. indexes[k].sequence <= n
        BY <2>2, <2>3, <4>2, NumberFacts, SMTT(60) DEF Inv
      <4> QED
        BY <3>1, <4>3, ZenonT(20) DEF SearchInv, IndexSound
    <3>2. CASE indexes'[k].sequence = n /\ indexes'[k].points = file.points
      <4>1. n <= n
        BY <2>2
      <4> QED
        BY <2>2, <2>5, <2>7, <3>2, <4>1, ZenonT(20)
    <3> QED
      BY <2>6, <3>1, <3>2, ZenonT(20) DEF Adds
  <2>10. CoverSound'
    <3> SUFFICES ASSUME NEW i \in Ids, points'[i] # 0
                 PROVE  \E k \in DOMAIN indexes' : indexes'[k].points[i] # 0
                                                   /\ points'[i] <= indexes'[k].sequence
      BY ZenonT(20) DEF CoverSound, Covered, Live
    <3>1. CASE i \in file.ids
      <4>1. file.points[i] = points'[i]
        BY <2>7, <3>1, Zenon
      <4>2. n \in 0 .. begun
        BY <2>2, NumberFacts DEF Inv
      <4>3. points'[i] <= n
        BY <2>2, <4>2, ZenonT(20) DEF SearchInv, VersionsSound
      <4> QED
        BY <2>6, <4>1, <4>3, ZenonT(20) DEF Adds
    <3>2. CASE i \notin file.ids
      <4>1. points'[i] = points[i] /\ i \in Live(points) \ dirty
        BY <2>3, <2>7, <3>2, Zenon DEF Live
      <4>2. Covered(i, points[i])
        BY <4>1, ZenonT(20) DEF SearchInv, CoverSound
      <4> QED
        BY <2>6, <4>1, <4>2, ZenonT(20) DEF Covered, Adds
    <3> QED
      BY <3>1, <3>2, Zenon
  <2>11. \A f \in Flushers : DeltaSound(f)'
    <3>1. \A f \in Flushers : ~prepared'[f].active
      BY <1>0, ZenonT(20) DEF Inv, ControlSound
    <3> QED
      BY <3>1, ZenonT(20) DEF DeltaSound
  <2> QED
    BY <2>8, <2>9, <2>10, <2>11, Zenon DEF SearchInv
<1> QED
  BY <1>1, <1>2, Zenon

(* What a flush has just published is current outside the IDs that stay dirty. *)
LEMMA PublishedCurrent ==
    ASSUME Inv, NEW f \in publishing, FinishPublish(f), NEW i \in Ids \ dirty'
    PROVE  points[i] = prepared[f].points[i]
<1> DEFINE p == prepared[f]
<1>1. /\ stage = "walCut" /\ dirty' = IF latest = p.sequence THEN {} ELSE dirty
  BY Zenon DEF FinishPublish, SnapshotIsCurrent
<1>2. /\ manifest.sequence = p.sequence /\ p.points = committed[p.sequence] /\ p.sequence <= latest
      /\ points = committed[latest] /\ status = "up"
  BY <1>1, PublisherFacts, ZenonT(20) DEF PublishSound, PreparedSound, AfterRename
<1>3. p.sequence \in manifest.sequence .. latest
  BY <1>2, NumberFacts DEF Inv
<1>4. CASE latest # p.sequence
  BY <1>1, <1>2, <1>3, <1>4, ZenonT(60) DEF Inv, MemorySound
<1> QED
  BY <1>2, <1>4, ZenonT(20)

(* A flush is over: its graph covers what it made clean, and what other deltas leave out. *)
LEMMA SearchFinishPublish ==
    ASSUME Inv, SearchInv, NEW f \in publishing, FinishPublish(f)
    PROVE  SearchInv'
<1> DEFINE p == prepared[f]
           pts == SegmentPoints(p)
           old == IF p.compact THEN <<>> ELSE indexes
<1>0. /\ UNCHANGED <<points, latest, status, committed, begun, manifest, durSegments>>
      /\ stage = "walCut" /\ metadataIndex' = [present |-> TRUE, points |-> p.points]
      /\ indexes' = old \o NewIndex(p) /\ prepared' = [prepared EXCEPT ![f] = NotPrepared]
      /\ segments' = IF p.compact
                     THEN [n \in Seqs |-> IF n \in Retired(p) THEN NoSegment ELSE segments[n]]
                     ELSE segments
  BY Zenon DEF FinishPublish, historyVars
<1>1. /\ f \in Flushers /\ publishing = {f} /\ p.active /\ status = "up"
      /\ manifest.sequence = p.sequence /\ p.points = committed[p.sequence] /\ p.sequence <= latest
      /\ (p.compact => p.ids = Ids)
  BY <1>0, PublisherFacts, ZenonT(20) DEF PublishSound, PreparedSound, AfterRename
<1>2. /\ p.sequence \in Seqs /\ p.sequence \in Nat /\ p.compact \in BOOLEAN /\ p.ids \subseteq Ids
      /\ p.points \in PointMap /\ pts \in PointMap /\ p.sequence \in 0 .. begun
  <2>1. p.sequence \in 0 .. begun
    BY <1>1, PreparedFacts, NumberFacts DEF Inv, BegunSound
  <2>2. p.points \in PointMap /\ p.ids \subseteq Ids
    BY <1>1, PreparedFacts, Zenon DEF Inv
  <2>3. pts \in PointMap
    BY <2>2, ConstantTypes, ConstantsAssumption, Zenon DEF SegmentPoints, PointMap, Seqs
  <2> QED
    BY <1>1, <2>1, <2>2, <2>3, PreparedFacts, Zenon DEF Inv
<1>3. \A i \in Ids : pts[i] = IF i \in p.ids THEN p.points[i] ELSE 0
  BY Zenon DEF SegmentPoints
<1>4. \A i \in Ids : p.points[i] <= p.sequence
  BY <1>1, <1>2, ZenonT(20) DEF SearchInv, VersionsSound
<1>5. Adds(old, indexes', p.sequence, pts)
  <2>1. NewIndex(p) = Graph(p.sequence, pts)
    BY Zenon DEF NewIndex, Graph
  <2>2. old \in Seq(IndexSegment)
    BY DEF Inv, TypeOK
  <2> HIDE DEF old, p, pts
  <2> QED
    BY <1>0, <1>2, <2>1, <2>2, GraphAdded, ZenonT(20)
<1>6. prepared'[f].active = FALSE /\ \A g \in Flushers \ {f} : prepared'[g] = prepared[g]
  BY <1>0, <1>1, ZenonT(20) DEF Inv, TypeOK, NotPrepared
<1>7. \A k \in DOMAIN old : ~p.compact /\ k \in DOMAIN indexes /\ old[k] = indexes[k]
  BY <1>2
<1>8. ~p.compact => old = indexes
  OBVIOUS
<1>9. \A i \in Ids \ dirty' : points[i] = p.points[i]
  BY PublishedCurrent, Zenon
<1> HIDE DEF p, pts, old
<1>10. VersionsSound' /\ MetadataSound'
  <2>1. metadataIndex'.points = p.points /\ status' = "up" /\ points' = points
    BY <1>0, <1>1, Zenon
  <2>2. MetadataSound'
    BY <1>9, <2>1, ZenonT(20) DEF MetadataSound
  <2>3. VersionsSound'
    BY <1>0, ZenonT(60) DEF SearchInv, VersionsSound
  <2> QED
    BY <2>2, <2>3, Zenon
<1>11. FilesSound'
  <2> SUFFICES ASSUME NEW n \in Seqs, NEW i \in Ids
               PROVE  segments'[n].points[i] # 0 => i \in segments'[n].ids
    BY <1>0, ZenonT(20) DEF SearchInv, FilesSound
  <2>1. segments'[n] = NoSegment \/ segments'[n] = segments[n]
    BY <1>0, <1>2, ZenonT(20)
  <2>2. NoSegment.points[i] = 0
    BY Zenon DEF NoSegment, NoPoints
  <2> QED
    BY <2>1, <2>2, ZenonT(20) DEF SearchInv, FilesSound
<1>12. IndexSound'
  <2> SUFFICES ASSUME NEW k \in DOMAIN indexes'
               PROVE  /\ indexes'[k].sequence <= latest
                      /\ \A i \in Ids : indexes'[k].points[i] # 0 =>
                           indexes'[k].points[i] = committed[indexes'[k].sequence][i]
    BY <1>0, ZenonT(20) DEF IndexSound
  <2>1. CASE k \in DOMAIN old /\ indexes'[k] = old[k]
    <3>1. k \in DOMAIN indexes /\ indexes'[k] = indexes[k]
      BY <1>7, <2>1, Zenon
    <3> QED
      BY <3>1, ZenonT(20) DEF SearchInv, IndexSound
  <2>2. CASE indexes'[k].sequence = p.sequence /\ indexes'[k].points = pts
    BY <1>1, <1>3, <2>2, ZenonT(20)
  <2> QED
    BY <1>5, <2>1, <2>2, ZenonT(20) DEF Adds
<1>13. ASSUME NEW i \in Ids, p.points[i] # 0, i \in p.ids
       PROVE  \E k \in DOMAIN indexes' : indexes'[k].points[i] # 0 /\ p.points[i] <= indexes'[k].sequence
  <2>1. pts[i] = p.points[i] /\ p.points[i] <= p.sequence
    BY <1>3, <1>4, <1>13, Zenon
  <2>2. PICK k \in DOMAIN indexes' : indexes'[k].sequence = p.sequence /\ indexes'[k].points = pts
    BY <1>5, <1>13, <2>1, ZenonT(20) DEF Adds
  <2>3. indexes'[k].points[i] # 0 /\ p.points[i] <= indexes'[k].sequence
    BY <1>13, <2>1, <2>2, Zenon
  <2> QED
    BY <2>3, Zenon
<1>14. ASSUME ~p.compact, NEW i \in Ids, NEW v, Covered(i, v)
       PROVE  \E k \in DOMAIN indexes' : indexes'[k].points[i] # 0 /\ v <= indexes'[k].sequence
  BY <1>5, <1>8, <1>14, ZenonT(20) DEF Adds, Covered
<1>15. CoverSound'
  <2> SUFFICES ASSUME NEW i \in Ids \ dirty', points[i] # 0
               PROVE  \E k \in DOMAIN indexes' : indexes'[k].points[i] # 0 /\ points[i] <= indexes'[k].sequence
    BY <1>0, ZenonT(20) DEF CoverSound, Covered, Live
  <2>1. points[i] = p.points[i]
    BY <1>9, Zenon
  <2>2. CASE i \in p.ids
    BY <1>13, <2>1, <2>2, ZenonT(20)
  <2>3. CASE i \notin p.ids
    <3>1. ~p.compact
      BY <1>1, <2>3, Zenon
    <3>2. manifest.sequence <= p.sequence
      BY <1>1, <1>2
    <3>3. Covered(i, p.points[i])
      BY <1>1, <2>1, <2>3, <3>1, <3>2, ZenonT(20) DEF SearchInv, DeltaSound, p
    <3> QED
      BY <1>14, <2>1, <3>1, <3>3, ZenonT(20)
  <2> QED
    BY <2>2, <2>3, Zenon
<1>16. ASSUME NEW g \in Flushers PROVE DeltaSound(g)'
  <2> SUFFICES ASSUME g # f, prepared[g].active, ~prepared[g].compact,
                      manifest.sequence <= prepared[g].sequence,
                      NEW i \in Ids \ prepared[g].ids, prepared[g].points[i] # 0
               PROVE  \E k \in DOMAIN indexes' : /\ indexes'[k].points[i] # 0
                                                 /\ prepared[g].points[i] <= indexes'[k].sequence
    <3>1. CASE g = f
      BY <1>6, <3>1, ZenonT(20) DEF DeltaSound
    <3>2. CASE g # f
      <4>1. prepared'[g] = prepared[g] /\ manifest' = manifest
        BY <1>0, <1>6, <3>2, Zenon
      <4> QED
        BY <3>2, <4>1, ZenonT(20) DEF DeltaSound, Covered
    <3> QED
      BY <3>1, <3>2, Zenon
  <2>1. CASE p.compact
    <3>1. manifest.sequence \in manifest.sequence .. prepared[g].sequence
      BY PreparedFacts, NumberFacts DEF Inv
    <3>2. prepared[g].points[i] = committed[manifest.sequence][i]
      <4>1. PreparedSound(g)
        BY Zenon DEF Inv
      <4>2. committed[manifest.sequence][i] = committed[prepared[g].sequence][i]
        BY <3>1, <4>1, ZenonT(20) DEF PreparedSound
      <4>3. prepared[g].points = committed[prepared[g].sequence]
        BY <4>1, ZenonT(20) DEF PreparedSound
      <4> QED
        BY <4>2, <4>3, Zenon
    <3>3. prepared[g].points[i] = p.points[i] /\ i \in p.ids
      BY <1>1, <2>1, <3>2, Zenon
    <3> QED
      BY <1>13, <3>3, ZenonT(20)
  <2>2. CASE ~p.compact
    <3>1. Covered(i, prepared[g].points[i])
      BY ZenonT(20) DEF SearchInv, DeltaSound
    <3> QED
      BY <1>14, <2>2, <3>1, ZenonT(20)
  <2> QED
    BY <2>1, <2>2, Zenon
<1> QED
  BY <1>10, <1>11, <1>12, <1>15, <1>16, Zenon DEF SearchInv

(* A snapshot: a delta leaves out what the graphs cover. *)
LEMMA SearchSnapshot ==
    ASSUME Inv, SearchInv, NEW f \in Flushers, FlushSnapshot(f)
    PROVE  SearchInv'
<1>0. /\ UNCHANGED <<points, latest, dirty, indexes, metadataIndex, committed, begun, status, segments,
                     durSegments, manifest>>
      /\ prepared' = [prepared EXCEPT ![f] =
                        [active |-> TRUE, sequence |-> latest, compact |-> Compacts,
                         ids |-> IF Compacts THEN Ids ELSE dirty, points |-> points]]
  BY ZenonT(20) DEF FlushSnapshot, diskVars, memoryVars, historyVars
<1>1. VersionsSound' /\ FilesSound' /\ IndexSound' /\ CoverSound' /\ MetadataSound'
  BY <1>0, ZenonT(60) DEF SearchInv, VersionsSound, FilesSound, IndexSound, CoverSound, Covered, MetadataSound
<1>2. ASSUME NEW g \in Flushers PROVE DeltaSound(g)'
  <2>1. CASE g = f
    <3>1. prepared'[f] = [active |-> TRUE, sequence |-> latest, compact |-> Compacts,
                         ids |-> IF Compacts THEN Ids ELSE dirty, points |-> points]
      BY <1>0, Zenon DEF Inv, TypeOK
    <3>2. /\ prepared'[f].compact = Compacts /\ prepared'[f].points = points
          /\ prepared'[f].ids = IF Compacts THEN Ids ELSE dirty
      BY <3>1
    <3>3. \A i \in Ids \ dirty : points[i] # 0 => Covered(i, points[i])
      BY ZenonT(20) DEF SearchInv, CoverSound, Live
    <3>4. indexes' = indexes
      BY <1>0, Zenon
    <3> QED
      BY <2>1, <3>2, <3>3, <3>4, ZenonT(20) DEF DeltaSound, Covered
  <2>2. CASE g # f
    <3>1. prepared'[g] = prepared[g] /\ manifest' = manifest /\ indexes' = indexes
      BY <1>0, <2>2, Zenon DEF Inv, TypeOK
    <3>2. DeltaSound(g)
      BY Zenon DEF SearchInv
    <3> QED
      BY <3>1, <3>2, ZenonT(20) DEF DeltaSound, Covered
  <2> QED
    BY <2>1, <2>2, Zenon
<1> QED
  BY <1>1, <1>2, Zenon DEF SearchInv

(* A segment file is renamed into place. *)
LEMMA SearchPublishSegment ==
    ASSUME Inv, SearchInv, NEW f \in Flushers, PublishSegment(f)
    PROVE  SearchInv'
<1>0. /\ UNCHANGED <<points, latest, dirty, indexes, metadataIndex, committed, begun, status,
                     durSegments, manifest, prepared>>
      /\ segments' = [segments EXCEPT ![prepared[f].sequence] = SegmentFile(prepared[f])]
  BY ZenonT(20) DEF PublishSegment, memoryVars, historyVars
<1>1. VersionsSound' /\ IndexSound' /\ CoverSound' /\ MetadataSound'
  BY <1>0, ZenonT(60) DEF SearchInv, VersionsSound, IndexSound, CoverSound, Covered, MetadataSound
<1>2. \A g \in Flushers : DeltaSound(g)'
  BY <1>0, ZenonT(20) DEF SearchInv, DeltaSound, Covered
<1>3. FilesSound'
  <2> SUFFICES ASSUME NEW n \in Seqs, NEW i \in Ids
               PROVE  segments'[n].points[i] # 0 => i \in segments'[n].ids
    BY <1>0, ZenonT(20) DEF SearchInv, FilesSound
  <2> DEFINE file == SegmentFile(prepared[f])
  <2>1. file.points[i] # 0 => i \in file.ids
    BY Zenon DEF SegmentFile, SegmentPoints
  <2>2. segments'[n] = file \/ segments'[n] = segments[n]
    BY <1>0, Zenon DEF Inv, TypeOK
  <2> HIDE DEF file
  <2> QED
    BY <2>1, <2>2, ZenonT(20) DEF SearchInv, FilesSound
<1> QED
  BY <1>1, <1>2, <1>3, Zenon DEF SearchInv

(* A crash: nothing is left in memory. *)
LEMMA SearchCrash ==
    ASSUME SearchInv, Crash \/ PowerLoss
    PROVE  SearchInv'
<1>1. /\ status' = "closed" /\ points' = NoPoints /\ indexes' = <<>> /\ metadataIndex' = NoMetadataIndex
      /\ prepared' = [f \in Flushers |-> NotPrepared] /\ UNCHANGED <<committed, begun>>
  BY ZenonT(20) DEF Crash, PowerLoss, LoseMemory
<1>2. VersionsSound'
  BY <1>1, ZenonT(60) DEF SearchInv, VersionsSound
<1>3. FilesSound'
  <2> SUFFICES ASSUME NEW n \in Seqs, NEW i \in Ids
               PROVE  /\ segments'[n].points[i] # 0 => i \in segments'[n].ids
                      /\ durSegments'[n].points[i] # 0 => i \in durSegments'[n].ids
    BY Zenon DEF FilesSound
  <2>1. /\ segments'[n] = segments[n] \/ segments'[n] = durSegments[n]
        /\ durSegments'[n] = segments[n] \/ durSegments'[n] = durSegments[n]
    BY ZenonT(20) DEF Crash, PowerLoss
  <2> QED
    BY <2>1, ZenonT(20) DEF SearchInv, FilesSound
<1>4. IndexSound'
  BY <1>1 DEF IndexSound
<1>5. CoverSound'
  BY <1>1, Zenon DEF CoverSound, Live, NoPoints
<1>6. MetadataSound'
  BY <1>1, Zenon DEF MetadataSound, NoMetadataIndex
<1>7. \A f \in Flushers : DeltaSound(f)'
  <2>1. \A f \in Flushers : ~prepared'[f].active
    BY <1>1, Zenon DEF NotPrepared
  <2> QED
    BY <2>1, ZenonT(20) DEF DeltaSound
<1> QED
  BY <1>2, <1>3, <1>4, <1>5, <1>6, <1>7, Zenon DEF SearchInv

(* The segments are loaded and the metadata index is built from them. *)
LEMMA SearchBeginReplay ==
    ASSUME SearchInv, BeginReplay
    PROVE  SearchInv'
<1>1. /\ UNCHANGED <<points, latest, dirty, indexes, committed, begun, segments, durSegments, prepared, manifest>>
      /\ status' = "replaying"
      /\ metadataIndex' = IF manifest.segments = <<>> THEN NoMetadataIndex
                          ELSE [present |-> TRUE, points |-> points]
  BY ZenonT(20) DEF BeginReplay, diskVars, flushVars, historyVars
<1>2. MetadataSound'
  BY <1>1, Zenon DEF MetadataSound, NoMetadataIndex
<1>3. VersionsSound' /\ FilesSound' /\ IndexSound' /\ CoverSound'
  BY <1>1, ZenonT(60) DEF SearchInv, VersionsSound, FilesSound, IndexSound, CoverSound, Covered
<1>4. \A f \in Flushers : DeltaSound(f)'
  BY <1>1, ZenonT(20) DEF SearchInv, DeltaSound, Covered
<1> QED
  BY <1>2, <1>3, <1>4, Zenon DEF SearchInv

(* The steps of publish_flush that move files and manifest only. *)
LEMMA SearchPublish ==
    ASSUME Inv, SearchInv, NEW f \in publishing,
           SyncSegment \/ WriteManifest \/ RenameManifest(f) \/ SyncManifest \/ TruncateWal(f) \/ FailPublish(f)
    PROVE  SearchInv'
<1>1. /\ UNCHANGED <<points, latest, dirty, indexes, metadataIndex, committed, begun, status, segments>>
      /\ durSegments' \in {segments, durSegments}
  BY ZenonT(20) DEF SyncSegment, WriteManifest, RenameManifest, SyncManifest, TruncateWal, FailPublish,
       SyncDirectory, IoError, diskVars, memoryVars, historyVars
<1>2. \A g \in Flushers : prepared'[g].active => prepared'[g] = prepared[g]
  <2>1. prepared' = prepared \/ prepared' = [prepared EXCEPT ![f] = NotPrepared]
    BY ZenonT(20) DEF SyncSegment, WriteManifest, RenameManifest, SyncManifest, TruncateWal, FailPublish, Step
  <2>2. ~NotPrepared.active
    BY Zenon DEF NotPrepared
  <2> QED
    BY <2>1, <2>2, ZenonT(20) DEF Inv, TypeOK
<1>3. \A g \in Flushers : manifest'.sequence <= prepared[g].sequence => manifest.sequence <= prepared[g].sequence
  <2>1. CASE RenameManifest(f)
    <3>1. stage = "manifestTmp" /\ manifest'.sequence = prepared[f].sequence
      BY <2>1, ZenonT(20) DEF RenameManifest, Step
    <3>2. f \in Flushers /\ manifest.sequence <= prepared[f].sequence
      BY <3>1, PublisherFacts, ZenonT(20) DEF PublishSound, BeforeRename
    <3>3. \A g \in Flushers : prepared[g].sequence \in Nat
      BY PreparedFacts, ZenonT(20) DEF Inv
    <3> QED
      BY <3>1, <3>2, <3>3, NumberFacts DEF Inv
  <2>2. CASE ~RenameManifest(f)
    <3>1. manifest' = manifest
      BY <2>2, ZenonT(20) DEF SyncSegment, WriteManifest, SyncManifest, TruncateWal, FailPublish,
           SyncDirectory, diskVars
    <3> QED
      BY <3>1, ZenonT(20)
  <2> QED
    BY <2>1, <2>2, Zenon
<1> QED
  BY <1>1, <1>2, <1>3, SearchQuiet, ZenonT(20)

(* The other steps that change neither memory nor history. *)
LEMMA SearchOther ==
    ASSUME Inv, SearchInv,
           \/ FailAppend \/ Open \/ ReplayTorn \/ OpenDone \/ UNCHANGED vars
           \/ \E f \in Flushers : PublishNothing(f)
    PROVE  SearchInv'
<1>1. /\ UNCHANGED <<points, latest, dirty, indexes, metadataIndex, committed, begun, segments, durSegments, manifest>>
      /\ status' \in {"closed", "loading"} => status \in {"closed", "loading"}
  BY ZenonT(20) DEF FailAppend, Open, ReplayTorn, OpenDone, PublishNothing, IoError,
       vars, diskVars, memoryVars, historyVars
<1>2. \A g \in Flushers : prepared'[g].active => prepared'[g] = prepared[g]
  <2>1. prepared' = prepared \/ \E f \in Flushers : prepared' = [prepared EXCEPT ![f] = NotPrepared]
    BY ZenonT(20) DEF FailAppend, Open, ReplayTorn, OpenDone, PublishNothing, vars, flushVars
  <2>2. ~NotPrepared.active
    BY Zenon DEF NotPrepared
  <2> QED
    BY <2>1, <2>2, ZenonT(20) DEF Inv, TypeOK
<1> QED
  BY <1>1, <1>2, SearchQuiet, ZenonT(20)

(* Every step keeps SearchInv. *)
LEMMA SearchNext ==
    ASSUME Inv, SearchInv, [SafeNext]_vars
    PROVE  SearchInv'
<1>1. CASE Write
  BY <1>1, SearchBegin, Zenon DEF Write
<1>2. ASSUME NEW f \in Flushers, FlushSnapshot(f) \/ PublishStep(f)
      PROVE  SearchInv'
  BY <1>2, SearchSnapshot, SearchOther, SearchPublishSegment, SearchPublish, SearchFinishPublish, ZenonT(20)
     DEF PublishStep
<1>3. CASE AppendStep
  BY <1>3, SearchCompleteAppend, SearchOther, Zenon DEF AppendStep
<1>4. CASE RecoveryStep
  BY <1>4, SearchOther, SearchLoadSegment, SearchBeginReplay, SearchReplayFrame, Zenon DEF RecoveryStep
<1>5. CASE Crash \/ PowerLoss
  BY <1>5, SearchCrash, Zenon
<1> QED
  BY <1>1, <1>2, <1>3, <1>4, <1>5, SearchOther, ZenonT(20) DEF SafeNext, SystemStep

(* Nothing is stored yet. *)
LEMMA SearchInit == Init => SearchInv
<1> SUFFICES ASSUME Init PROVE SearchInv
  OBVIOUS
<1>1. \A n \in Seqs, i \in Ids : segments[n].points[i] = 0 /\ durSegments[n].points[i] = 0
  BY Zenon DEF Init, NoSegment, NoPoints
<1>2. \A i \in Ids : committed[0][i] = 0
  BY ConstantsAssumption DEF Init, NoPoints, Seqs
<1>3. VersionsSound
  <2>1. begun = 0 /\ \A s \in 0 .. 0 : s = 0
    BY DEF Init
  <2> QED
    BY <1>2, <2>1 DEF VersionsSound
<1>4. FilesSound /\ IndexSound
  BY <1>1 DEF Init, FilesSound, IndexSound
<1>5. CoverSound /\ MetadataSound
  BY Zenon DEF Init, CoverSound, MetadataSound, Live, NoPoints, NoMetadataIndex
<1>6. \A f \in Flushers : DeltaSound(f)
  <2>1. \A f \in Flushers : ~prepared[f].active
    BY Zenon DEF Init, NotPrepared
  <2> QED
    BY <2>1, ZenonT(20) DEF DeltaSound
<1> QED
  BY <1>3, <1>4, <1>5, <1>6, Zenon DEF SearchInv

(* SearchInv holds in every reachable state. *)
THEOREM SharedSearchInv == CarefulCallers /\ SharedSpec => []SearchInv
<1> SUFFICES ASSUME CarefulCallers PROVE SharedSpec => []SearchInv
  OBVIOUS
<1>1. Inv /\ SearchInv /\ [SharedNext]_vars => SearchInv'
  BY SearchNext, SharedIsSafe, Zenon
<1> QED
  BY <1>1, SearchInit, SharedInv, PTL DEF SharedSpec

(* The two invariants make search exact. *)
LEMMA SearchIsExact ==
    ASSUME Inv, SearchInv
    PROVE  SearchExact
<1> SUFFICES ASSUME status = "up"
             PROVE  /\ \A i \in Live(points) : i \in dirty \/ \E k \in DOMAIN indexes : KeepsHit(k, i)
                    /\ \A k \in DOMAIN indexes, i \in Ids : KeepsHit(k, i) => indexes[k].points[i] = points[i]
                    /\ metadataIndex.present => \A i \in Ids \ dirty : metadataIndex.points[i] = points[i]
  BY ZenonT(20) DEF SearchExact, Unlocked
<1>1. ASSUME NEW i \in Live(points), i \notin dirty
      PROVE  \E k \in DOMAIN indexes : KeepsHit(k, i)
  BY <1>1, ZenonT(20) DEF SearchInv, CoverSound, Covered, KeepsHit, Live
<1>2. ASSUME NEW k \in DOMAIN indexes, NEW i \in Ids, KeepsHit(k, i)
      PROVE  indexes[k].points[i] = points[i]
  <2>1. indexes[k] \in IndexSegment
    BY DEF Inv, TypeOK
  <2>2. indexes[k].sequence \in Nat /\ indexes[k].sequence <= latest
    BY <2>1, ConstantsAssumption DEF SearchInv, IndexSound, IndexSegment, Seqs
  <2>3. points = committed[latest] /\ points \in PointMap /\ latest <= begun
    BY ZenonT(20) DEF Inv, MemorySound, TypeOK, BegunSound
  <2>4. points[i] \in Nat /\ points[i] # 0 /\ points[i] <= indexes[k].sequence /\ indexes[k].points[i] # 0
    BY <1>2, <2>3, ConstantsAssumption DEF KeepsHit, PointMap, Seqs
  <2>5. latest \in 0 .. begun /\ indexes[k].sequence \in points[i] .. latest
    BY <2>2, <2>3, <2>4, NumberFacts DEF Inv
  <2>6. committed[indexes[k].sequence][i] = points[i]
    BY <2>3, <2>4, <2>5, ZenonT(20) DEF SearchInv, VersionsSound
  <2> QED
    BY <2>4, <2>6, ZenonT(20) DEF SearchInv, IndexSound
<1>3. metadataIndex.present => \A i \in Ids \ dirty : metadataIndex.points[i] = points[i]
  BY Zenon DEF SearchInv, MetadataSound
<1> QED
  BY <1>1, <1>2, <1>3, ZenonT(20)

(* A search misses nothing and serves nothing stale: graphs and dirty IDs together cover     *)
(* every live point, a graph hit that search_with_ef keeps is the current version, and so is *)
(* what the metadata index says, however writes, flushes, failures and recoveries interleave. *)
THEOREM SharedSearchExact == CarefulCallers /\ SharedSpec => []SearchExact
<1>1. Inv /\ SearchInv => SearchExact
  BY SearchIsExact, Zenon
<1> QED
  BY <1>1, SharedInv, SharedSearchInv, PTL

-------------------------------------------------------------------------------
(* ReopenInv. *)

(* A newer manifest leaves no more gaps than an older one, and knows no less. *)
LEMMA NoGapLater ==
    ASSUME NEW w \in Seq(Frame), NEW s \in Nat, NEW t \in Nat, s <= t, NoGap(w, s)
    PROVE  NoGap(w, t)
<1> SUFFICES ASSUME NEW k \in DOMAIN w, w[k].sequence <= s + 1
             PROVE  w[k].sequence <= t + 1
  BY ZenonT(20) DEF NoGap
<1>1. w[k] \in Frame
  OBVIOUS
<1>2. w[k].sequence \in Nat
  BY <1>1, ConstantsAssumption DEF Frame, Seqs
<1> QED
  BY <1>2

(* A log that starts like another, up to its torn end, has no more gaps. *)
LEMMA NoGapPrefix ==
    ASSUME NEW w \in Seq(Frame), NEW v \in Seq(Frame), NEW s \in Nat, NoGap(w, s),
           \A k \in DOMAIN v : v[k] = Torn \/ (k \in DOMAIN w /\ \A j \in 1 .. k : v[j] = w[j])
    PROVE  NoGap(v, s)
<1> SUFFICES ASSUME NEW k \in DOMAIN v
             PROVE  \/ v[k].sequence <= s + 1
                    \/ \E j \in 1 .. k - 1 : v[k].sequence <= v[j].sequence + 1
  BY ZenonT(20) DEF NoGap
<1>1. CASE v[k] = Torn
  <2>1. v[k].sequence = 0
    BY <1>1 DEF Torn
  <2> QED
    BY <2>1
<1>2. CASE v[k] # Torn
  <2>1. k \in DOMAIN w /\ \A j \in 1 .. k : v[j] = w[j]
    BY <1>2, ZenonT(20)
  <2>2. k \in Nat /\ k >= 1 /\ k \in 1 .. k /\ \A j \in 1 .. k - 1 : j \in 1 .. k
    OBVIOUS
  <2>3. v[k] = w[k] /\ \A j \in 1 .. k - 1 : v[j] = w[j]
    BY <2>1, <2>2, ZenonT(20)
  <2>4. \/ w[k].sequence <= s + 1
        \/ \E j \in 1 .. k - 1 : w[k].sequence <= w[j].sequence + 1
    BY <2>1, ZenonT(20) DEF NoGap
  <2> QED
    BY <2>3, <2>4, ZenonT(20)
<1> QED
  BY <1>1, <1>2, Zenon

(* The next frame of a log that knows latest leaves no gap. *)
LEMMA NoGapAppend ==
    ASSUME Inv, NoGap(wal, durManifest.sequence), Known(latest), latest < MaxSeq,
           NEW frame \in Frame, frame = Torn \/ frame.sequence = latest + 1
    PROVE  NoGap(Append(wal, frame), durManifest.sequence)
<1> DEFINE w == Append(wal, frame)
<1>0. /\ wal \in Seq(Frame) /\ Len(wal) \in Nat /\ DOMAIN wal = 1 .. Len(wal)
      /\ latest \in Nat /\ durManifest.sequence \in Nat
  BY TypeFacts, Zenon DEF Inv
<1>1. /\ w \in Seq(Frame) /\ Len(w) = Len(wal) + 1 /\ w[Len(wal) + 1] = frame
      /\ \A k \in 1 .. Len(wal) : w[k] = wal[k]
  BY <1>0, AppendFacts
<1> HIDE DEF w
<1>2. ASSUME NEW k \in DOMAIN wal
      PROVE  \/ w[k].sequence <= durManifest.sequence + 1
             \/ \E j \in 1 .. k - 1 : w[k].sequence <= w[j].sequence + 1
  <2>1. k \in 1 .. Len(wal) /\ \A j \in 1 .. k - 1 : j \in 1 .. Len(wal)
    BY <1>0
  <2>2. w[k] = wal[k] /\ \A j \in 1 .. k - 1 : w[j] = wal[j]
    BY <1>1, <2>1, ZenonT(20)
  <2> QED
    BY <2>2, ZenonT(20) DEF NoGap
<1>3. \/ frame.sequence <= durManifest.sequence + 1
      \/ \E j \in 1 .. Len(wal) : frame.sequence <= w[j].sequence + 1
  <2>1. CASE frame = Torn
    BY <1>0, <2>1 DEF Torn
  <2>2. CASE frame.sequence = latest + 1 /\ latest <= durManifest.sequence
    BY <1>0, <2>2
  <2>3. ASSUME frame.sequence = latest + 1, NEW k \in DOMAIN wal, wal[k].sequence = latest
        PROVE  \E j \in 1 .. Len(wal) : frame.sequence <= w[j].sequence + 1
    <3>1. k \in 1 .. Len(wal) /\ w[k].sequence = latest
      BY <1>0, <1>1, <2>3, ZenonT(20)
    <3>2. frame.sequence <= w[k].sequence + 1
      BY <1>0, <2>3, <3>1
    <3> QED
      BY <3>1, <3>2, Zenon
  <2> QED
    BY <2>1, <2>2, <2>3, ZenonT(20) DEF Known
<1>4. \A k \in DOMAIN w : k \in DOMAIN wal \/ k = Len(wal) + 1
  BY <1>0, <1>1
<1>5. (Len(wal) + 1) - 1 = Len(wal)
  BY <1>0
<1> QED
  BY <1>1, <1>2, <1>3, <1>4, <1>5, ZenonT(20) DEF NoGap, w

(* Cutting off the last frame of the log, unless it is the one that has s. *)
LEMMA KnownPrefix ==
    ASSUME Inv, NEW n \in 0 .. Len(wal), NEW w \in Seq(Frame), Len(w) = n, \A k \in 1 .. n : w[k] = wal[k],
           \A k \in DOMAIN wal : k > n => wal[k] = Torn \/ wal[k].sequence > latest,
           NEW s \in Nat, s <= latest, Known(s)
    PROVE  s <= durManifest.sequence \/ \E k \in DOMAIN w : w[k].sequence = s
<1>0. /\ Len(wal) \in Nat /\ DOMAIN wal = 1 .. Len(wal) /\ latest \in Nat /\ durManifest.sequence \in Nat
      /\ \A k \in DOMAIN wal : wal[k].sequence \in Nat
  BY TypeFacts, Zenon DEF Inv
<1> SUFFICES ASSUME NEW k \in DOMAIN wal, wal[k].sequence = s, s > 0
             PROVE  \E j \in DOMAIN w : w[j].sequence = s
  <2>1. s = 0 => s <= durManifest.sequence
    BY <1>0
  <2>2. s = 0 \/ s > 0
    OBVIOUS
  <2> QED
    BY <2>1, <2>2, ZenonT(20) DEF Known
<1>1. wal[k] # Torn
  BY DEF Torn
<1>2. ~(k > n)
  BY <1>0, <1>1
<1>3. k \in 1 .. n /\ DOMAIN w = 1 .. n
  BY <1>0, <1>2
<1> QED
  BY <1>3, ZenonT(20)

(* Steps that leave the log and both manifests alone. *)
LEMMA OpenQuiet ==
    ASSUME ReopenInv, wal' = wal, manifest' = manifest, durManifest' = durManifest, durWal' \in {wal, durWal},
           status' \in {"replaying", "up"} => Known(latest'),
           \A f \in Flushers : prepared'[f].active => Known(prepared'[f].sequence),
           status' = "failed" => ~ReadManifest(manifest)
    PROVE  ReopenInv'
<1>1. NoGap(wal, durManifest.sequence)' /\ NoGap(durWal, durManifest.sequence)'
  <2>1. durWal' = wal \/ durWal' = durWal
    OBVIOUS
  <2> QED
    BY <2>1, ZenonT(20) DEF ReopenInv, NoGap
<1>2. ASSUME NEW s, Known(s) PROVE s <= durManifest'.sequence \/ \E k \in DOMAIN wal' : wal'[k].sequence = s
  BY <1>2, ZenonT(20) DEF Known
<1>3. Known(manifest.sequence)' /\ (status' \in {"replaying", "up"} => Known(latest)')
  BY <1>2, ZenonT(20) DEF ReopenInv, Known
<1>4. \A f \in Flushers : prepared'[f].active => Known(prepared[f].sequence)'
  BY <1>2, ZenonT(20) DEF Known
<1>5. Increasing(manifest)' /\ Increasing(durManifest)' /\ (status' = "failed" => ~ReadManifest(manifest)')
  BY ZenonT(20) DEF ReopenInv, Increasing, ReadManifest
<1> QED
  BY <1>1, <1>3, <1>4, <1>5, ZenonT(20) DEF ReopenInv

(* What a flush or a crash does to the flushers' records: most of the time nothing new. *)
LEMMA KnownPrepared ==
    ASSUME ReopenInv, \A f \in Flushers : prepared'[f].active => prepared'[f] = prepared[f]
    PROVE  \A f \in Flushers : prepared'[f].active => Known(prepared'[f].sequence)
  BY ZenonT(20) DEF ReopenInv

(* A write begins. *)
LEMMA OpenBegin ==
    ASSUME Inv, ReopenInv, NEW op \in {"upsert", "delete"}, NEW ids \in SUBSET Ids, BeginAppend(op, ids)
    PROVE  ReopenInv'
<1>1. /\ status = "up" /\ latest < MaxSeq /\ status' = "up" /\ latest' = latest
      /\ UNCHANGED <<durWal, manifest, durManifest, prepared>>
      /\ \E frame \in {[op |-> op, sequence |-> latest + 1, ids |-> ids], Torn} : wal' = Append(wal, frame)
  BY ZenonT(20) DEF BeginAppend, Unlocked, HasNextSequence, memoryVars
<1>2. PICK frame \in {[op |-> op, sequence |-> latest + 1, ids |-> ids], Torn} : wal' = Append(wal, frame)
  BY <1>1, ZenonT(20)
<1>3. frame \in Frame /\ (frame = Torn \/ frame.sequence = latest + 1)
  <2>1. latest + 1 \in Seqs
    BY <1>1, NumberFacts, SMTT(60) DEF Inv, Seqs
  <2>2. [op |-> op, sequence |-> latest + 1, ids |-> ids] \in Frame
    BY <2>1, ZenonT(20) DEF Frame
  <2> QED
    BY <2>2, ConstantTypes
<1>4. Known(latest)
  BY <1>1, ZenonT(20) DEF ReopenInv
<1>5. NoGap(wal', durManifest.sequence)
  BY <1>1, <1>2, <1>3, <1>4, NoGapAppend, ZenonT(20) DEF ReopenInv
<1>6. \A k \in DOMAIN wal : k \in DOMAIN wal' /\ wal'[k] = wal[k]
  <2>1. wal \in Seq(Frame) /\ Len(wal) \in Nat
    BY TypeFacts, Zenon DEF Inv
  <2>2. Len(wal') = Len(wal) + 1 /\ wal' \in Seq(Frame) /\ \A k \in 1 .. Len(wal) : wal'[k] = wal[k]
    BY <1>2, <1>3, <2>1, AppendFacts
  <2> QED
    BY <2>1, <2>2
<1>7. \A s : Known(s) => (s <= durManifest'.sequence \/ \E k \in DOMAIN wal' : wal'[k].sequence = s)
  BY <1>1, <1>6, ZenonT(20) DEF Known
<1>8. /\ NoGap(wal, durManifest.sequence)' /\ NoGap(durWal, durManifest.sequence)'
      /\ Increasing(manifest)' /\ Increasing(durManifest)'
  BY <1>1, <1>5, ZenonT(20) DEF ReopenInv, NoGap, Increasing
<1>9. Known(manifest.sequence)' /\ Known(latest)' /\ \A f \in Flushers : prepared'[f].active => Known(prepared[f].sequence)'
  BY <1>1, <1>4, <1>7, ZenonT(20) DEF ReopenInv, Known
<1> QED
  BY <1>1, <1>8, <1>9, ZenonT(20) DEF ReopenInv

(* The end of the log is cut off: what stays known is all that mattered. *)
LEMMA OpenCut ==
    ASSUME Inv, ReopenInv, NEW n \in 0 .. Len(wal), wal' = SubSeq(wal, 1, n), status' \in {"replaying", "up"}, status' = status,
           \A k \in DOMAIN wal : k > n => wal[k] = Torn \/ wal[k].sequence > latest,
           UNCHANGED <<durWal, manifest, durManifest, latest, prepared>>
    PROVE  ReopenInv'
<1>0. wal \in Seq(Frame) /\ Len(wal) \in Nat /\ durManifest.sequence \in Nat /\ DOMAIN wal = 1 .. Len(wal)
  BY TypeFacts, Zenon DEF Inv
<1>1. wal' \in Seq(Frame) /\ Len(wal') = n /\ \A k \in 1 .. n : wal'[k] = wal[k]
  BY <1>0, PrefixType, Zenon
<1>2. \A k \in DOMAIN wal' : k \in DOMAIN wal /\ \A j \in 1 .. k : wal'[j] = wal[j]
  BY <1>0, <1>1
<1>3. NoGap(wal', durManifest.sequence)
  BY <1>0, <1>1, <1>2, NoGapPrefix, ZenonT(20) DEF ReopenInv
<1>4. ASSUME NEW s \in Nat, s <= latest, Known(s)
      PROVE  s <= durManifest'.sequence \/ \E k \in DOMAIN wal' : wal'[k].sequence = s
  BY <1>1, <1>4, KnownPrefix, ZenonT(20)
<1>5. Known(manifest.sequence)' /\ Known(latest)'
  <2>1. manifest.sequence \in Nat /\ manifest.sequence <= latest /\ latest \in Nat /\ latest <= latest
    BY NumberFacts DEF Inv, MemorySound
  <2> QED
    BY <1>4, <2>1, ZenonT(20) DEF ReopenInv, Known
<1>6. ASSUME NEW f \in Flushers, prepared'[f].active PROVE Known(prepared[f].sequence)'
  <2>1. prepared[f].sequence \in Nat /\ prepared[f].sequence <= latest /\ Known(prepared[f].sequence)
    BY <1>6, PreparedFacts, ZenonT(20) DEF ReopenInv, Inv, PreparedSound
  <2> QED
    BY <1>4, <2>1, ZenonT(20) DEF Known
<1>7. /\ NoGap(wal, durManifest.sequence)' /\ NoGap(durWal, durManifest.sequence)'
      /\ Increasing(manifest)' /\ Increasing(durManifest)'
  BY <1>3, ZenonT(20) DEF ReopenInv, NoGap, Increasing
<1> QED
  BY <1>5, <1>6, <1>7, ZenonT(20) DEF ReopenInv

(* A failed append takes its frame back. *)
LEMMA OpenFailAppend ==
    ASSUME Inv, ReopenInv, FailAppend, "cleanup" \notin IoFaults
    PROVE  ReopenInv'
<1>1. /\ stage = "append" /\ wal' = SubSeq(wal, 1, Len(wal) - 1) /\ status' = status
      /\ UNCHANGED <<durWal, manifest, durManifest, latest, prepared>>
  BY ZenonT(20) DEF FailAppend, memoryVars
<1>2. status = "up"
  BY <1>1, Zenon DEF Inv, ControlSound
<1>3. /\ Len(wal) \in Nat /\ DOMAIN wal = 1 .. Len(wal) /\ wal # <<>> /\ wal \in Seq(Frame) /\ latest \in Nat
      /\ wal[Len(wal)] = Torn \/ wal[Len(wal)].sequence = latest + 1
  BY <1>1, TypeFacts, Zenon DEF Inv, WalSound
<1>4. Len(wal) - 1 \in 0 .. Len(wal) /\ \A k \in DOMAIN wal : k > Len(wal) - 1 => k = Len(wal)
  BY <1>3
<1>5. wal[Len(wal)] = Torn \/ wal[Len(wal)].sequence > latest
  BY <1>3
<1> QED
  BY <1>1, <1>2, <1>4, <1>5, OpenCut, ZenonT(20)

(* A write is acknowledged: the log has its sequence. *)
LEMMA OpenCompleteAppend ==
    ASSUME Inv, ReopenInv, CompleteAppend
    PROVE  ReopenInv'
<1>1. /\ stage = "append" /\ UNCHANGED <<wal, manifest, durManifest, status, prepared>>
      /\ latest' = wal[Len(wal)].sequence /\ durWal' \in {wal, durWal}
  BY ZenonT(20) DEF CompleteAppend, WalAfterSync
<1>2. status = "up"
  BY <1>1, Zenon DEF Inv, ControlSound
<1>3. Len(wal) \in DOMAIN wal
  BY <1>1, TypeFacts DEF Inv, WalSound
<1> QED
  BY <1>1, <1>2, <1>3, KnownPrepared, OpenQuiet, ZenonT(20) DEF Known

(* A snapshot is of the latest state. *)
LEMMA OpenSnapshot ==
    ASSUME Inv, ReopenInv, NEW f \in Flushers, FlushSnapshot(f)
    PROVE  ReopenInv'
<1>1. /\ UNCHANGED <<wal, durWal, manifest, durManifest, status, latest>> /\ status = "up"
      /\ prepared' = [prepared EXCEPT ![f] =
                        [active |-> TRUE, sequence |-> latest, compact |-> Compacts,
                         ids |-> IF Compacts THEN Ids ELSE dirty, points |-> points]]
  BY ZenonT(20) DEF FlushSnapshot, Unlocked, diskVars, memoryVars
<1>2. Known(latest)
  BY <1>1, ZenonT(20) DEF ReopenInv
<1>3. ASSUME NEW g \in Flushers PROVE prepared'[g] = prepared[g] \/ prepared'[g].sequence = latest
  BY <1>1, Zenon DEF Inv, TypeOK
<1>4. \A g \in Flushers : prepared'[g].active => Known(prepared'[g].sequence)
  BY <1>2, <1>3, ZenonT(20) DEF ReopenInv
<1> QED
  BY <1>1, <1>2, <1>4, OpenQuiet, ZenonT(20)

(* The steps of publish_flush that leave the log and the manifests alone. *)
LEMMA OpenPublish ==
    ASSUME Inv, ReopenInv, NEW f \in Flushers,
           \/ PublishNothing(f) \/ PublishSegment(f)
           \/ f \in publishing /\ (WriteManifest \/ FinishPublish(f) \/ FailPublish(f))
    PROVE  ReopenInv'
<1>1. /\ UNCHANGED <<wal, manifest, durManifest, status, latest>> /\ durWal' \in {wal, durWal}
  BY ZenonT(20) DEF PublishNothing, PublishSegment, WriteManifest, FinishPublish, FailPublish, diskVars, memoryVars
<1>2. status = "up"
  BY PublisherFacts, ZenonT(20) DEF PublishNothing, PublishSegment, Unlocked
<1>3. prepared' = prepared \/ prepared' = [prepared EXCEPT ![f] = NotPrepared]
  BY ZenonT(20) DEF PublishNothing, PublishSegment, WriteManifest, FinishPublish, FailPublish, Step
<1>4. ~NotPrepared.active
  BY Zenon DEF NotPrepared
<1>5. \A g \in Flushers : prepared'[g].active => prepared'[g] = prepared[g]
  BY <1>3, <1>4, ZenonT(20) DEF Inv, TypeOK
<1>6. status' # "failed" /\ Known(latest')
  BY <1>1, <1>2, ZenonT(20) DEF ReopenInv
<1> QED
  BY <1>1, <1>5, <1>6, KnownPrepared, OpenQuiet, ZenonT(20)

(* The directory is synced: the durable manifest catches up. *)
LEMMA OpenSync ==
    ASSUME Inv, ReopenInv, NEW f \in publishing, SyncSegment \/ SyncManifest
    PROVE  ReopenInv'
<1>1. /\ UNCHANGED <<wal, durWal, manifest, status, latest, prepared>> /\ durManifest' = manifest
  BY ZenonT(20) DEF SyncSegment, SyncManifest, SyncDirectory, Step, memoryVars
<1>2. /\ wal \in Seq(Frame) /\ durWal \in Seq(Frame) /\ durManifest.sequence <= manifest.sequence
      /\ manifest.sequence \in Nat /\ durManifest.sequence \in Nat
  BY TypeFacts, Zenon DEF Inv, ManifestSound
<1>3. NoGap(wal, manifest.sequence) /\ NoGap(durWal, manifest.sequence)
  BY <1>2, NoGapLater, ZenonT(20) DEF ReopenInv
<1>4. ASSUME NEW s \in Nat, Known(s)
      PROVE  s <= manifest.sequence \/ \E k \in DOMAIN wal : wal[k].sequence = s
  <2>1. s <= durManifest.sequence => s <= manifest.sequence
    BY <1>2
  <2> QED
    BY <1>4, <2>1, ZenonT(20) DEF Known
<1>5. status = "up" /\ latest \in Nat
  BY PublisherFacts, NumberFacts, Zenon DEF Inv
<1>6. \A g \in Flushers : prepared[g].sequence \in Nat
  BY PreparedFacts, Zenon DEF Inv
<1>7. /\ NoGap(wal, durManifest.sequence)' /\ NoGap(durWal, durManifest.sequence)'
      /\ Increasing(manifest)' /\ Increasing(durManifest)'
  BY <1>1, <1>3, ZenonT(20) DEF ReopenInv, NoGap, Increasing
<1>8. /\ Known(manifest.sequence)' /\ Known(latest)'
      /\ \A g \in Flushers : prepared'[g].active => Known(prepared[g].sequence)'
  BY <1>1, <1>2, <1>4, <1>5, <1>6, ZenonT(20) DEF ReopenInv, Known
<1> QED
  BY <1>1, <1>5, <1>7, <1>8, ZenonT(20) DEF ReopenInv

(* The log is emptied: the durable manifest has all that was in it. *)
LEMMA OpenTruncate ==
    ASSUME Inv, ReopenInv, NEW f \in publishing, TruncateWal(f)
    PROVE  ReopenInv'
<1>1. /\ UNCHANGED <<durWal, manifest, durManifest, status, latest, prepared>> /\ stage = "manifestSynced"
      /\ wal' = IF latest = prepared[f].sequence THEN <<>> ELSE wal
  BY ZenonT(20) DEF TruncateWal, SnapshotIsCurrent, Step, memoryVars
<1>2. f \in Flushers /\ status = "up" /\ durManifest = manifest /\ manifest.sequence = prepared[f].sequence
  BY <1>1, PublisherFacts, ZenonT(20) DEF PublishSound, AfterRename
<1>3. CASE latest # prepared[f].sequence
  BY <1>1, <1>2, <1>3, KnownPrepared, OpenQuiet, ZenonT(20) DEF ReopenInv
<1>4. CASE latest = prepared[f].sequence
  <2>1. wal' = <<>> /\ durManifest'.sequence = latest
    BY <1>1, <1>2, <1>4, ZenonT(20)
  <2>2. DOMAIN wal' = {}
    BY <2>1
  <2>3. latest \in Nat /\ latest <= latest
    BY NumberFacts DEF Inv
  <2>4. \A g \in Flushers : prepared'[g].active => prepared'[g].sequence <= latest
    BY <1>1, ZenonT(20) DEF Inv, PreparedSound
  <2>5. /\ Known(manifest.sequence)' /\ Known(latest)'
        /\ \A g \in Flushers : prepared'[g].active => Known(prepared[g].sequence)'
    BY <1>1, <1>2, <2>1, <2>3, <2>4, ZenonT(20) DEF Known
  <2>6. /\ NoGap(wal, durManifest.sequence)' /\ NoGap(durWal, durManifest.sequence)'
        /\ Increasing(manifest)' /\ Increasing(durManifest)'
    BY <1>1, <2>2, ZenonT(20) DEF ReopenInv, NoGap, Increasing
  <2> QED
    BY <1>1, <1>2, <2>5, <2>6, ZenonT(20) DEF ReopenInv
<1> QED
  BY <1>3, <1>4, Zenon

(* The manifest is replaced: a delta's name is newer than all before it. *)
LEMMA OpenRename ==
    ASSUME Inv, ReopenInv, NEW f \in publishing, RenameManifest(f)
    PROVE  ReopenInv'
<1> DEFINE p == prepared[f]
           names == IF p.compact THEN <<>> ELSE manifest.segments
<1>1. /\ UNCHANGED <<wal, durWal, durManifest, status, latest, prepared>> /\ stage = "manifestTmp"
      /\ manifest' = [sequence |-> p.sequence,
                      segments |-> Append(IF p.compact THEN <<>> ELSE previous.segments, p.sequence)]
  BY ZenonT(20) DEF RenameManifest, Step, memoryVars
<1>2. /\ f \in Flushers /\ p.active /\ status = "up" /\ previous = manifest /\ manifest.sequence <= p.sequence
      /\ PreparedSound(f)
  BY <1>1, PublisherFacts, ZenonT(20) DEF PublishSound, BeforeRename
<1>3. p.sequence \in Seqs /\ p.sequence \in Nat /\ p.compact \in BOOLEAN
  BY <1>2, PreparedFacts, Zenon DEF Inv
<1>4. names \in Seq(Seqs) /\ manifest'.sequence = p.sequence /\ manifest'.segments = Append(names, p.sequence)
  BY <1>1, <1>2, ManifestTypes DEF Inv
<1>5. \A a \in DOMAIN names : names[a] < p.sequence
  <2>1. CASE p.compact
    BY <2>1
  <2>2. CASE ~p.compact
    <3>1. names = manifest.segments
      BY <2>2, Zenon
    <3>2. ChainSound(manifest, segments, durSegments, committed) /\ manifest.segments \in Seq(Seqs)
      BY ManifestTypes, ZenonT(20) DEF Inv, ManifestSound
    <3>3. \A a \in DOMAIN manifest.segments : /\ manifest.segments[a] \in Nat
                                              /\ manifest.segments[a] <= manifest.sequence
      BY <3>2, ChainNames, ZenonT(20)
    <3>4. p.sequence \notin ManifestNames(manifest)
      BY <1>1, <1>2, <2>2, ZenonT(20) DEF PreparedSound, BeforeRename
    <3>5. \A a \in DOMAIN manifest.segments : manifest.segments[a] # p.sequence
      BY <3>4, ZenonT(20) DEF ManifestNames
    <3> QED
      BY <1>2, <1>3, <3>1, <3>3, <3>5, NumberFacts DEF Inv
  <2> QED
    BY <1>3, <2>1, <2>2, Zenon
<1>6. \A a, b \in DOMAIN names : a < b => names[a] < names[b]
  <2>1. CASE p.compact
    BY <2>1
  <2>2. CASE ~p.compact
    <3>1. names = manifest.segments
      BY <2>2, Zenon
    <3> HIDE DEF names
    <3> QED
      BY <3>1, ZenonT(20) DEF ReopenInv, Increasing
  <2> QED
    BY <1>3, <2>1, <2>2, Zenon
<1> HIDE DEF names
<1>7. Increasing(manifest)'
  <2>1. /\ Len(manifest'.segments) = Len(names) + 1 /\ manifest'.segments[Len(names) + 1] = p.sequence
        /\ manifest'.segments \in Seq(Seqs) /\ Len(names) \in Nat
        /\ \A a \in 1 .. Len(names) : manifest'.segments[a] = names[a]
    BY <1>3, <1>4, AppendFacts
  <2> SUFFICES ASSUME NEW a \in 1 .. Len(names) + 1, NEW b \in 1 .. Len(names) + 1, a < b
               PROVE  manifest'.segments[a] < manifest'.segments[b]
    BY <2>1 DEF Increasing
  <2>2. a \in 1 .. Len(names) /\ a \in DOMAIN names /\ manifest'.segments[a] = names[a]
    BY <1>4, <2>1
  <2>3. CASE b = Len(names) + 1
    BY <1>5, <2>1, <2>2, <2>3, ZenonT(20)
  <2>4. CASE b # Len(names) + 1
    <3>1. b \in 1 .. Len(names) /\ b \in DOMAIN names
      BY <1>4, <2>1, <2>4
    <3> QED
      BY <1>6, <2>1, <2>2, <3>1, ZenonT(20)
  <2> QED
    BY <2>3, <2>4, Zenon
<1>8. Known(p.sequence)
  BY <1>2, ZenonT(20) DEF ReopenInv
<1>9. /\ Known(manifest.sequence)' /\ Known(latest)'
      /\ \A g \in Flushers : prepared'[g].active => Known(prepared[g].sequence)'
  BY <1>1, <1>2, <1>4, <1>8, ZenonT(20) DEF ReopenInv, Known
<1>10. NoGap(wal, durManifest.sequence)' /\ NoGap(durWal, durManifest.sequence)' /\ Increasing(durManifest)'
  BY <1>1, ZenonT(20) DEF ReopenInv, NoGap, Increasing
<1> QED
  BY <1>1, <1>2, <1>7, <1>9, <1>10, ZenonT(20) DEF ReopenInv

(* A crash leaves the files, a power loss one of the manifests and a prefix of one of the logs. *)
LEMMA OpenCrash ==
    ASSUME Inv, ReopenInv, Crash \/ PowerLoss
    PROVE  ReopenInv'
<1>1. status' = "closed" /\ prepared' = [f \in Flushers |-> NotPrepared]
  BY Zenon DEF Crash, PowerLoss, LoseMemory
<1>2. \A f \in Flushers : ~prepared'[f].active
  BY <1>1, Zenon DEF NotPrepared
<1>3. CASE Crash
  <2>1. UNCHANGED <<wal, durWal, manifest, durManifest>>
    BY <1>3, ZenonT(20) DEF Crash
  <2> QED
    BY <1>1, <1>2, <2>1, OpenQuiet, ZenonT(20)
<1>4. CASE PowerLoss
  <2>1. /\ wal' \in PowerLossWals /\ durWal' = wal' /\ durManifest' = manifest' /\ manifest' \in {manifest, durManifest}
    BY <1>4, ZenonT(20) DEF PowerLoss
  <2>2. /\ manifest'.sequence \in Nat /\ durManifest.sequence <= manifest'.sequence
        /\ durManifest.sequence \in Nat
    BY <2>1, NumberFacts DEF Inv, ManifestSound
  <2>3. wal' \in Seq(Frame) /\ wal \in Seq(Frame) /\ durWal \in Seq(Frame)
    BY <2>1, PowerLossShape, TypeFacts, Zenon DEF Inv
  <2>4. NoGap(wal', durManifest.sequence)
    <3>1. CASE wal' = durWal
      BY <3>1, ZenonT(20) DEF ReopenInv
    <3>2. ASSUME NEW n \in KeptFrames,
                 \/ Len(wal') = n
                 \/ Len(wal') = n + 1 /\ wal'[n + 1] = Torn,
                 \A k \in 1 .. n : wal'[k] = wal[k]
          PROVE  NoGap(wal', durManifest.sequence)
      <4>1. n \in 0 .. Len(wal) /\ Len(wal) \in Nat /\ DOMAIN wal = 1 .. Len(wal)
        BY TypeFacts, Zenon DEF KeptFrames, Inv
      <4>2. \A k \in DOMAIN wal' : wal'[k] = Torn \/ k \in 1 .. n
        BY <2>3, <3>2, <4>1
      <4>3. \A k \in 1 .. n : k \in DOMAIN wal /\ \A j \in 1 .. k : wal'[j] = wal[j]
        BY <3>2, <4>1
      <4>4. \A k \in DOMAIN wal' : wal'[k] = Torn \/ (k \in DOMAIN wal /\ \A j \in 1 .. k : wal'[j] = wal[j])
        BY <4>2, <4>3, Zenon
      <4>5. NoGap(wal, durManifest.sequence)
        BY Zenon DEF ReopenInv
      <4> QED
        BY <2>2, <2>3, <4>4, <4>5, NoGapPrefix, Zenon
    <3> QED
      BY <2>1, <3>1, <3>2, PowerLossShape, ZenonT(20) DEF Inv
  <2>5. NoGap(wal, durManifest.sequence)' /\ NoGap(durWal, durManifest.sequence)'
    <3>1. NoGap(wal', manifest'.sequence)
      BY <2>2, <2>3, <2>4, NoGapLater, Zenon
    <3> QED
      BY <2>1, <3>1, ZenonT(20) DEF NoGap
  <2>6. Increasing(manifest)' /\ Increasing(durManifest)'
    <3>1. manifest' = manifest \/ manifest' = durManifest
      BY <2>1, Zenon
    <3> QED
      BY <2>1, <3>1, ZenonT(20) DEF ReopenInv, Increasing
  <2>7. Known(manifest.sequence)'
    BY <2>1, <2>2 DEF Known
  <2> QED
    BY <1>1, <1>2, <2>5, <2>6, <2>7, ZenonT(20) DEF ReopenInv
<1> QED
  BY <1>3, <1>4, Zenon

(* load_current_segments accepts what a sound manifest names. *)
LEMMA SegmentLoaded ==
    ASSUME Inv, SearchInv, status = "loading", pos <= Len(manifest.segments)
    PROVE  SegmentLoads(pos)
<1> DEFINE n == manifest.segments[pos]
<1>1. /\ pos \in Nat /\ pos >= 1 /\ pos \in DOMAIN manifest.segments /\ manifest.segments \in Seq(Seqs)
      /\ Len(manifest.segments) \in Nat
  BY PositionFacts, ManifestTypes, ZenonT(20) DEF Inv
<1>2. ChainSound(manifest, segments, durSegments, committed)
  BY ZenonT(20) DEF Inv, ManifestSound
<1>3. n \in Seqs /\ n \in Nat /\ n <= manifest.sequence
  BY <1>1, <1>2, ChainNames, ZenonT(20)
<1>4. pos = Len(manifest.segments) => n = manifest.sequence
  <2>1. manifest.segments # <<>>
    BY <1>1
  <2> QED
    BY <1>1, <1>2, <2>1, ChainEnd, ZenonT(20)
<1>5. CASE pos = 1
  <2>1. segments[n] = [kind |-> "full", ids |-> Ids, points |-> committed[n]]
    BY <1>1, <1>2, <1>5, ZenonT(20) DEF ChainSound
  <2>2. n \in 0 .. begun
    BY <1>3, NumberFacts, SMTT(60) DEF Inv, BegunSound
  <2>3. \A i \in Ids : committed[n][i] <= n
    BY <2>2, ZenonT(20) DEF SearchInv, VersionsSound
  <2> HIDE DEF n
  <2>4. segments[n].kind = "full" /\ segments[n].points = committed[n]
    BY <2>1
  <2> QED
    BY <1>4, <1>5, <2>3, <2>4 DEF SegmentLoads, n
<1>6. CASE pos # 1
  <2>1. pos > 1
    BY <1>1, <1>6
  <2>2. segments[n].kind = "delta" /\ manifest.segments[pos - 1] < n
    BY <1>1, <1>2, <2>1, ZenonT(20) DEF ChainSound
  <2>3. pos - 1 \in DOMAIN manifest.segments
    BY <1>1, <2>1
  <2>4. manifest.segments[pos - 1] \in Nat
    BY <1>1, <1>2, <2>3, ChainNames, ZenonT(20)
  <2>5. n > manifest.segments[pos - 1]
    BY <1>3, <2>2, <2>4, Zenon
  <2> HIDE DEF n
  <2>6. segments[n].kind = "delta" /\ "delta" # "full"
    BY <2>2, Zenon
  <2> QED
    BY <1>4, <1>6, <2>1, <2>5, <2>6, ZenonT(20) DEF SegmentLoads, n
<1> QED
  BY <1>5, <1>6, Zenon

(* recover meets no gap. *)
LEMMA FrameFollows ==
    ASSUME Inv, ReopenInv, status = "replaying", pos <= Len(wal)
    PROVE  ~(wal[pos].sequence > latest + 1)
<1>1. /\ pos \in Nat /\ pos >= 1 /\ pos \in DOMAIN wal /\ \A k \in DOMAIN wal : wal[k].sequence \in Nat
      /\ \A j \in 1 .. pos - 1 : j \in DOMAIN wal
  BY PositionFacts, FrameFacts, ZenonT(20) DEF Inv
<1>2. /\ manifest.sequence <= latest /\ durManifest.sequence <= manifest.sequence
      /\ \A j \in 1 .. pos - 1 : wal[j].sequence <= latest
  BY ZenonT(20) DEF Inv, MemorySound, ManifestSound
<1>3. \/ wal[pos].sequence <= durManifest.sequence + 1
      \/ \E j \in 1 .. pos - 1 : wal[pos].sequence <= wal[j].sequence + 1
  BY <1>1, ZenonT(20) DEF ReopenInv, NoGap
<1>4. latest \in Nat /\ durManifest.sequence \in Nat /\ manifest.sequence \in Nat /\ wal[pos].sequence \in Nat
  BY <1>1, NumberFacts, Zenon DEF Inv
<1>5. CASE wal[pos].sequence <= durManifest.sequence + 1
  BY <1>2, <1>4, <1>5
<1>6. ASSUME NEW j \in 1 .. pos - 1, wal[pos].sequence <= wal[j].sequence + 1
      PROVE  ~(wal[pos].sequence > latest + 1)
  <2>1. wal[j].sequence \in Nat /\ wal[j].sequence <= latest
    BY <1>1, <1>2, ZenonT(20)
  <2> QED
    BY <1>4, <1>6, <2>1, SMTT(60)
<1> QED
  BY <1>3, <1>5, <1>6, ZenonT(20)

(* Recovery, step by step. *)
LEMMA OpenRecovery ==
    ASSUME Inv, SearchInv, ReopenInv, RecoveryStep
    PROVE  ReopenInv'
<1>1. CASE Open
  <2>1. /\ UNCHANGED <<wal, durWal, manifest, durManifest, prepared>>
        /\ status' \in {"loading", "failed"} /\ (status' = "failed" => ~ReadManifest(manifest))
    BY <1>1, ZenonT(20) DEF Open, diskVars, flushVars
  <2> QED
    BY <2>1, KnownPrepared, OpenQuiet, ZenonT(20)
<1>2. CASE LoadSegment
  <2>1. /\ UNCHANGED <<wal, durWal, manifest, durManifest, prepared>> /\ status' = "loading"
    BY <1>2, SegmentLoaded, ZenonT(20) DEF LoadSegment, diskVars, flushVars
  <2> QED
    BY <2>1, KnownPrepared, OpenQuiet, ZenonT(20)
<1>3. CASE BeginReplay
  <2>1. /\ UNCHANGED <<wal, durWal, manifest, durManifest, prepared, latest>> /\ status' = "replaying"
        /\ status = "loading" /\ pos > Len(manifest.segments)
    BY <1>3, ZenonT(20) DEF BeginReplay, diskVars, flushVars
  <2>2. latest = manifest.sequence
    <3>1. /\ Len(manifest.segments) \in Nat /\ pos \in Nat /\ pos <= Len(manifest.segments) + 1
          /\ latest = IF pos = 1 THEN 0 ELSE manifest.segments[pos - 1]
      BY <2>1, PositionFacts, ZenonT(20) DEF Inv, MemorySound
    <3>2. pos = Len(manifest.segments) + 1 /\ pos - 1 = Len(manifest.segments)
      BY <2>1, <3>1
    <3>3. ChainSound(manifest, segments, durSegments, committed) /\ manifest.segments \in Seq(Seqs)
      BY ManifestTypes, ZenonT(20) DEF Inv, ManifestSound
    <3>4. CASE manifest.segments = <<>>
      BY <3>1, <3>2, <3>3, <3>4 DEF ChainSound
    <3>5. CASE manifest.segments # <<>>
      <4>1. pos # 1
        BY <3>2, <3>3, <3>5
      <4> QED
        BY <3>1, <3>2, <3>3, <3>5, <4>1, ChainEnd, ZenonT(20)
    <3> QED
      BY <3>4, <3>5, Zenon
  <2>3. Known(latest') /\ status' # "failed"
    BY <2>1, <2>2, ZenonT(20) DEF ReopenInv
  <2> QED
    BY <2>1, <2>3, KnownPrepared, OpenQuiet, ZenonT(20)
<1>4. CASE ReplayFrame
  <2>1. /\ UNCHANGED <<wal, durWal, manifest, durManifest, prepared>> /\ status = "replaying"
        /\ pos <= Len(wal) /\ latest' \in {wal[pos].sequence, latest}
        /\ status' = IF wal[pos].sequence > latest + 1 THEN "failed" ELSE status
    BY <1>4, ZenonT(20) DEF ReplayFrame, diskVars, flushVars
  <2>2. status' = "replaying"
    BY <2>1, FrameFollows, ZenonT(20)
  <2>3. pos \in DOMAIN wal
    BY <2>1, PositionFacts, Zenon DEF Inv
  <2>4. Known(wal[pos].sequence)
    BY <2>3, ZenonT(20) DEF Known
  <2>5. Known(latest')
    BY <2>1, <2>4, ZenonT(20) DEF ReopenInv
  <2> QED
    BY <2>1, <2>2, <2>5, KnownPrepared, OpenQuiet, ZenonT(20)
<1>5. CASE ReplayTorn
  <2>1. /\ status = "replaying" /\ pos <= Len(wal) /\ wal[pos] = Torn
        /\ UNCHANGED <<durWal, manifest, durManifest, latest, prepared>>
        /\ \/ wal' = SubSeq(wal, 1, pos - 1) /\ status' = status
           \/ pos < Len(wal)
    BY <1>5, ZenonT(20) DEF ReplayTorn, BytesFollow, flushVars
  <2>2. pos \in Nat /\ pos >= 1 /\ Len(wal) \in Nat /\ pos \in DOMAIN wal /\ DOMAIN wal = 1 .. Len(wal)
    BY <2>1, PositionFacts, TypeFacts, ZenonT(20) DEF Inv
  <2>3. pos = Len(wal)
    BY <2>1, <2>2, ZenonT(20) DEF Inv, WalSound, LogSound
  <2>4. wal' = SubSeq(wal, 1, pos - 1) /\ status' = status
    BY <2>1, <2>2, <2>3
  <2>5. pos - 1 \in 0 .. Len(wal) /\ \A k \in DOMAIN wal : k > pos - 1 => k = pos
    BY <2>2, <2>3
  <2> QED
    BY <2>1, <2>4, <2>5, OpenCut, ZenonT(20)
<1>6. CASE OpenDone
  <2>1. /\ UNCHANGED <<wal, durWal, manifest, durManifest, prepared, latest>> /\ status = "replaying" /\ status' = "up"
    BY <1>6, ZenonT(20) DEF OpenDone, diskVars, flushVars
  <2>2. Known(latest') /\ status' # "failed"
    BY <2>1, ZenonT(20) DEF ReopenInv
  <2> QED
    BY <2>1, <2>2, KnownPrepared, OpenQuiet, ZenonT(20)
<1> QED
  BY <1>1, <1>2, <1>3, <1>4, <1>5, <1>6, ZenonT(20) DEF RecoveryStep

(* Every step keeps ReopenInv. *)
LEMMA OpenNext ==
    ASSUME "cleanup" \notin IoFaults, Inv, SearchInv, ReopenInv, [SafeNext]_vars
    PROVE  ReopenInv'
<1>1. CASE UNCHANGED vars
  <2>1. UNCHANGED <<wal, durWal, manifest, durManifest, prepared, latest, status>>
    BY <1>1, ZenonT(20) DEF vars, diskVars, memoryVars, flushVars
  <2> QED
    BY <2>1, KnownPrepared, OpenQuiet, ZenonT(20) DEF ReopenInv
<1>2. CASE Write
  BY <1>2, OpenBegin, Zenon DEF Write
<1>3. CASE AppendStep
  BY <1>3, OpenCompleteAppend, OpenFailAppend, Zenon DEF AppendStep
<1>4. ASSUME NEW f \in Flushers, FlushSnapshot(f) \/ PublishStep(f)
      PROVE  ReopenInv'
  BY <1>4, OpenSnapshot, OpenPublish, OpenSync, OpenRename, OpenTruncate, ZenonT(20) DEF PublishStep
<1>5. CASE RecoveryStep
  BY <1>5, OpenRecovery, Zenon
<1>6. CASE Crash \/ PowerLoss
  BY <1>6, OpenCrash, Zenon
<1> QED
  BY <1>1, <1>2, <1>3, <1>4, <1>5, <1>6, ZenonT(20) DEF SafeNext, SystemStep

(* Nothing is on disk yet. *)
LEMMA OpenInit == Init => ReopenInv
<1> SUFFICES ASSUME Init PROVE ReopenInv
  OBVIOUS
<1>1. /\ wal = <<>> /\ durWal = <<>> /\ manifest = NoManifest /\ durManifest = NoManifest /\ status = "up"
      /\ latest = 0 /\ prepared = [f \in Flushers |-> NotPrepared]
  BY Zenon DEF Init
<1>2. NoManifest.sequence = 0 /\ NoManifest.segments = <<>> /\ ~NotPrepared.active
  BY Zenon DEF NoManifest, NotPrepared
<1>3. DOMAIN wal = {} /\ DOMAIN durWal = {} /\ DOMAIN manifest.segments = {} /\ DOMAIN durManifest.segments = {}
      /\ \A f \in Flushers : ~prepared[f].active
  BY <1>1, <1>2
<1>4. Known(latest) /\ Known(manifest.sequence)
  BY <1>1, <1>2 DEF Known
<1> QED
  BY <1>1, <1>3, <1>4, ZenonT(20) DEF ReopenInv, NoGap, Increasing

(* ReopenInv holds in every reachable state. *)
THEOREM SharedReopenInv == CarefulCallers /\ SharedSpec => []ReopenInv
<1> SUFFICES ASSUME CarefulCallers PROVE SharedSpec => []ReopenInv
  OBVIOUS
<1>1. Inv /\ SearchInv /\ ReopenInv /\ [SharedNext]_vars => ReopenInv'
  BY OpenNext, SharedIsSafe, Zenon DEF CarefulCallers
<1> QED
  BY <1>1, OpenInit, SharedInv, SharedSearchInv, PTL DEF SharedSpec

(* ReopenInv leaves one reason for open to fail. *)
LEMMA OpensIfShort ==
    ASSUME Inv, ReopenInv
    PROVE  OpensUnlessOutgrown
<1> SUFFICES ASSUME status = "failed" PROVE Len(manifest.segments) > MAX_INDEX_SEGMENTS + 1
  BY Zenon DEF OpensUnlessOutgrown
<1>1. ~ReadManifest(manifest) /\ Increasing(manifest)
  BY ZenonT(20) DEF ReopenInv
<1>2. manifest.segments \in Seq(Seqs) /\ Len(manifest.segments) \in Nat /\ MAX_INDEX_SEGMENTS \in Nat
  BY ManifestTypes, ConstantsAssumption DEF Inv
<1>3. \A a, b \in DOMAIN manifest.segments : manifest.segments[a] = manifest.segments[b] => a = b
  BY <1>1, <1>2, ConstantsAssumption, SMTT(60) DEF Increasing, Seqs
<1> QED
  BY <1>1, <1>2, <1>3 DEF ReadManifest

(* With any number of flushers, faults and crashes, all that can stop open is a manifest with *)
(* too many names: no segment it names is missing, damaged or out of order, and the log that  *)
(* remains continues it without a gap.                                                        *)
THEOREM SharedOpens == CarefulCallers /\ SharedSpec => []OpensUnlessOutgrown
<1>1. Inv /\ ReopenInv => OpensUnlessOutgrown
  BY OpensIfShort, Zenon
<1> QED
  BY <1>1, SharedInv, SharedReopenInv, PTL
===============================================================================
