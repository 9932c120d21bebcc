------------------------------ MODULE OpenProofs ------------------------------
(***************************************************************************)
(* Where flushes do not overlap, no manifest outgrows its limit, so open   *)
(* never fails; and what a PersistentCollection that is used directly      *)
(* guarantees.                                                             *)
(***************************************************************************)
EXTENDS SearchProofs

(* What the bounds need of callers and of the disk. *)
ShortManifests == ~EmptyDeltas /\ ("late" \notin IoFaults \/ MaxFaults <= 1)

(* No step changes a file that a manifest names. *)
LEMMA NamedFiles ==
    ASSUME Inv, [SafeNext]_vars, NEW m \in {manifest, durManifest}
    PROVE  \A a \in DOMAIN m.segments : segments'[m.segments[a]] = segments[m.segments[a]]
<1> SUFFICES ASSUME NEW a \in DOMAIN m.segments
             PROVE  segments'[m.segments[a]] = segments[m.segments[a]]
  OBVIOUS
<1>1. m.segments[a] \in ManifestNames(m)
  BY Zenon DEF ManifestNames
<1> QED
  BY <1>1, FilesKept, Zenon

LEMMA AloneIsSafe == ASSUME [AloneNext]_vars PROVE [SafeNext]_vars
  BY ZenonT(20) DEF AloneNext, SafeNext

(* Lengths and bounds are numbers. *)
LEMMA LengthTypes ==
    ASSUME TypeOK
    PROVE  /\ faults \in Nat /\ MaxFaults \in Nat /\ MAX_INDEX_SEGMENTS \in Nat \ {0}
           /\ Len(manifest.segments) \in Nat /\ Len(durManifest.segments) \in Nat
           /\ DOMAIN manifest.segments = 1 .. Len(manifest.segments)
           /\ Len(indexes) \in Nat /\ Slack \in Nat /\ pos \in Nat \ {0}
           /\ (indexes = <<>> <=> Len(indexes) = 0)
<1>1. manifest.segments \in Seq(Seqs) /\ durManifest.segments \in Seq(Seqs)
  BY ManifestTypes, Zenon
<1>2. indexes \in Seq(IndexSegment) /\ faults \in Nat /\ pos \in Nat \ {0}
  BY Zenon DEF TypeOK
<1>3. Slack \in Nat
  BY <1>2, Zenon DEF Slack
<1> QED
  BY <1>1, <1>2, <1>3, ConstantsAssumption

(* The manifests after a step that replaces neither by a new one. *)
LEMMA ShortKept ==
    ASSUME Inv, LengthInv, [SafeNext]_vars, manifest' \in {manifest, durManifest},
           durManifest' \in {manifest, durManifest}
    PROVE  \A m \in {manifest', durManifest'} :
             Len(m.segments) <= MAX_INDEX_SEGMENTS + 1 /\ GraphsOf(m)'
<1> SUFFICES ASSUME NEW m \in {manifest, durManifest}
             PROVE  Len(m.segments) <= MAX_INDEX_SEGMENTS + 1 /\ GraphsOf(m)'
  OBVIOUS
<1>1. Len(m.segments) <= MAX_INDEX_SEGMENTS + 1 /\ GraphsOf(m)
  BY ZenonT(20) DEF LengthInv
<1>2. \A a \in DOMAIN m.segments : segments'[m.segments[a]] = segments[m.segments[a]]
  BY NamedFiles, Zenon
<1> QED
  BY <1>1, <1>2, ZenonT(20) DEF GraphsOf, Live

(* A step that leaves manifests, graphs and the position of a load alone. *)
LEMMA LengthQuiet ==
    ASSUME Inv, LengthInv, [SafeNext]_vars, manifest' = manifest, durManifest' \in {manifest, durManifest},
           indexes' = indexes, faults' \in Nat, faults <= faults', faults' <= MaxFaults,
           \/ status' = status /\ pos' = pos
           \/ status' = "failed"
           \/ status \in {"replaying", "up"} /\ status' \in {"replaying", "up"},
           stage' \in AfterRename <=> stage \in AfterRename,
           stage \in AfterRename => publishing' = publishing /\ prepared' = prepared,
           \A f \in Flushers : AloneSound(f)'
    PROVE  LengthInv'
<1> USE LengthTypes DEF Inv
<1>1. \A m \in {manifest', durManifest'} : Len(m.segments) <= MAX_INDEX_SEGMENTS + 1 /\ GraphsOf(m)'
  BY ShortKept, Zenon
<1>2. \A a \in DOMAIN manifest.segments : segments'[manifest.segments[a]] = segments[manifest.segments[a]]
  BY NamedFiles, Zenon
<1>3. Slack <= Slack' /\ Slack' \in Nat
  BY DEF Slack
<1>4. LoadedSound'
  <2> SUFFICES ASSUME status' = "loading" PROVE LoadedSound'
    BY Zenon DEF LoadedSound
  <2>1. status = "loading" /\ pos' = pos
    BY ZenonT(20)
  <2>2. Len(manifest.segments) = 1 => 1 \in DOMAIN manifest.segments
    OBVIOUS
  <2> QED
    BY <1>2, <2>1, <2>2, ZenonT(60) DEF LengthInv, LoadedSound, Live
<1>5. NamesSound'
  <2> SUFFICES ASSUME status' \in {"replaying", "up"}, stage' \notin AfterRename PROVE NamesSound'
    BY ZenonT(20) DEF NamesSound
  <2>1. status \in {"replaying", "up"} /\ stage \notin AfterRename
    BY ZenonT(20)
  <2>2. Len(manifest.segments) <= IF indexes = <<>> THEN 1 ELSE Len(indexes) + Slack
    BY <2>1, ZenonT(20) DEF LengthInv, NamesSound
  <2>3. Len(manifest.segments) <= IF indexes = <<>> THEN 1 ELSE Len(indexes) + Slack'
    BY <1>3, <2>2
  <2>4. \A a \in DOMAIN manifest.segments :
           Live(segments'[manifest.segments[a]].points) = {} => Compacts
    BY <1>2, <2>1, ZenonT(20) DEF LengthInv, NamesSound
  <2> QED
    BY <2>3, <2>4, ZenonT(20) DEF NamesSound, Compacts, Live
<1>6. ASSUME NEW f \in publishing' PROVE RenamedSound(f)'
  <2> SUFFICES ASSUME stage' \in AfterRename, ~prepared'[f].compact PROVE RenamedSound(f)'
    BY ZenonT(20) DEF RenamedSound
  <2>1. f \in publishing /\ stage \in AfterRename /\ ~prepared[f].compact
    BY <1>6, ZenonT(20)
  <2>2. 1 < Len(manifest.segments) /\ Len(manifest.segments) <= Len(indexes) + Slack + 1
    BY <2>1, ZenonT(20) DEF LengthInv, RenamedSound
  <2>3. Len(manifest.segments) <= Len(indexes) + Slack' + 1
    BY <1>3, <2>2, SMTT(60)
  <2> QED
    BY <2>2, <2>3, ZenonT(20) DEF RenamedSound
<1> QED
  BY <1>1, <1>4, <1>5, <1>6, ZenonT(20) DEF LengthInv

(* Who is active afterwards was active before, with the same segment. *)
LEMMA AloneKept ==
    ASSUME LengthInv, indexes' = indexes,
           \A f \in Flushers : prepared'[f] = prepared[f] \/ ~prepared'[f].active
    PROVE  \A f \in Flushers : AloneSound(f)'
<1> SUFFICES ASSUME NEW f \in Flushers, prepared'[f].active PROVE AloneSound(f)'
  BY ZenonT(20) DEF AloneSound
<1>1. prepared'[f] = prepared[f] /\ AloneSound(f) /\ prepared[f].active
  BY ZenonT(20) DEF LengthInv
<1>2. \A g \in Flushers \ {f} : ~prepared'[g].active
  BY <1>1, ZenonT(20) DEF AloneSound
<1>3. Compacts' = Compacts /\ SegmentPoints(prepared'[f]) = SegmentPoints(prepared[f])
  BY <1>1, Zenon DEF Compacts
<1> QED
  BY <1>1, <1>2, <1>3, ZenonT(20) DEF AloneSound, Live

(* Writes. *)
LEMMA LengthWrite ==
    ASSUME Inv, LengthInv, [SafeNext]_vars, Write \/ AppendStep \/ UNCHANGED vars
    PROVE  LengthInv'
<1>1. /\ UNCHANGED <<manifest, durManifest, indexes, status, pos, prepared, publishing>>
      /\ faults' = faults \/ (faults < MaxFaults /\ faults' = faults + 1)
  BY ZenonT(20) DEF Write, BeginAppend, AppendStep, CompleteAppend, FailAppend, IoError, memoryVars, vars,
       diskVars, flushVars, historyVars
<1>2. stage' \in AfterRename <=> stage \in AfterRename
  BY ZenonT(20) DEF Write, BeginAppend, AppendStep, CompleteAppend, FailAppend, vars, flushVars, Unlocked,
       AfterRename
<1>3. faults' \in Nat /\ faults <= faults' /\ faults' <= MaxFaults
  BY <1>1, LengthTypes DEF Inv, LengthInv
<1> QED
  BY <1>1, <1>2, <1>3, AloneKept, LengthQuiet, ZenonT(20)

(* A snapshot. *)
LEMMA LengthSnapshot ==
    ASSUME ShortManifests, Inv, LengthInv, [SafeNext]_vars, NEW f \in Flushers, NoneActive, GraphAllowed,
           FlushSnapshot(f)
    PROVE  LengthInv'
<1>1. /\ UNCHANGED <<manifest, durManifest, indexes, status, pos, publishing, faults, stage>> /\ stage = "free"
      /\ prepared' = [prepared EXCEPT ![f] =
                        [active |-> TRUE, sequence |-> latest, compact |-> Compacts,
                         ids |-> IF Compacts THEN Ids ELSE dirty, points |-> points]]
  BY ZenonT(20) DEF FlushSnapshot, Unlocked, diskVars, memoryVars, historyVars
<1>2. faults' \in Nat /\ faults <= faults' /\ faults' <= MaxFaults
  BY <1>1, LengthTypes DEF Inv, LengthInv
<1>3. /\ \A g \in Flushers \ {f} : prepared'[g] = prepared[g]
      /\ prepared'[f] = [active |-> TRUE, sequence |-> latest, compact |-> Compacts,
                         ids |-> IF Compacts THEN Ids ELSE dirty, points |-> points]
  BY <1>1, ZenonT(20) DEF Inv, TypeOK
<1>4. \A g \in Flushers \ {f} : ~prepared'[g].active
  BY <1>3, ZenonT(20) DEF NoneActive
<1>5. prepared'[f].compact = Compacts /\ prepared'[f].points = points /\ (~Compacts => prepared'[f].ids = dirty)
  BY <1>3
<1>6. ~Compacts => Live(SegmentPoints(prepared'[f])) # {}
  <2> SUFFICES ASSUME ~Compacts PROVE Live(SegmentPoints(prepared'[f])) # {}
    OBVIOUS
  <2>1. PICK i \in dirty : points[i] # 0
    BY ZenonT(20) DEF GraphAllowed, ShortManifests
  <2>2. i \in Ids /\ i \in prepared'[f].ids
    BY <1>5, <2>1, Zenon DEF Inv, TypeOK
  <2>3. SegmentPoints(prepared'[f])[i] # 0
    BY <1>5, <2>1, <2>2, ZenonT(20) DEF SegmentPoints
  <2> QED
    BY <2>2, <2>3, ZenonT(20) DEF Live
<1>7. Compacts' = Compacts
  BY <1>1, Zenon DEF Compacts
<1>8. ASSUME NEW g \in Flushers PROVE AloneSound(g)'
  BY <1>4, <1>5, <1>6, <1>7, ZenonT(20) DEF AloneSound, Live
<1>9. stage \notin AfterRename
  BY <1>1, Zenon DEF AfterRename
<1> QED
  BY <1>1, <1>2, <1>8, <1>9, LengthQuiet, ZenonT(20)

(* publish_flush, up to the rename of MANIFEST, and its synchronisations. *)
LEMMA LengthPublish ==
    ASSUME Inv, LengthInv, [SafeNext]_vars, NEW f \in Flushers,
           \/ PublishNothing(f) \/ PublishSegment(f)
           \/ f \in publishing /\ (SyncSegment \/ WriteManifest \/ SyncManifest \/ TruncateWal(f))
    PROVE  LengthInv'
<1>1. /\ manifest' = manifest /\ durManifest' \in {manifest, durManifest}
      /\ indexes' = indexes /\ status' = status /\ pos' = pos
      /\ faults' = faults \/ (faults < MaxFaults /\ faults' = faults + 1)
  BY ZenonT(20) DEF PublishNothing, PublishSegment, SyncSegment, WriteManifest, SyncManifest, TruncateWal,
       SyncDirectory, IoError, memoryVars, diskVars, historyVars
<1>2. stage' \in AfterRename <=> stage \in AfterRename
  BY ZenonT(20) DEF PublishNothing, PublishSegment, SyncSegment, WriteManifest, SyncManifest, TruncateWal,
       Step, Unlocked, AfterRename
<1>3. faults' \in Nat /\ faults <= faults' /\ faults' <= MaxFaults
  BY <1>1, LengthTypes DEF Inv, LengthInv
<1>4. prepared' = prepared \/ prepared' = [prepared EXCEPT ![f] = NotPrepared]
  BY ZenonT(20) DEF PublishNothing, PublishSegment, SyncSegment, WriteManifest, SyncManifest, TruncateWal, Step
<1>5. \A g \in Flushers : prepared'[g] = prepared[g] \/ ~prepared'[g].active
  <2>1. ~NotPrepared.active
    BY Zenon DEF NotPrepared
  <2> QED
    BY <1>4, <2>1, ZenonT(20) DEF Inv, TypeOK
<1>6. stage \in AfterRename => publishing' = publishing /\ prepared' = prepared
  BY ZenonT(20) DEF PublishNothing, PublishSegment, SyncSegment, WriteManifest, SyncManifest, TruncateWal,
       Step, Unlocked, AfterRename
<1> QED
  BY <1>1, <1>2, <1>3, <1>5, <1>6, AloneKept, LengthQuiet, ZenonT(20)

(* MANIFEST is renamed: a delta is added to fewer than MAX_INDEX_SEGMENTS graphs. *)
LEMMA LengthRename ==
    ASSUME ShortManifests, Inv, LengthInv, [SafeNext]_vars, NEW f \in publishing, RenameManifest(f)
    PROVE  LengthInv'
<1> DEFINE p == prepared[f]
<1>0. /\ stage = "manifestTmp" /\ stage' = "manifest"
      /\ UNCHANGED <<durManifest, segments, indexes, status, prepared, publishing, faults>>
      /\ manifest'.segments = Append(IF p.compact THEN <<>> ELSE previous.segments, p.sequence)
  BY Zenon DEF RenameManifest, Step, memoryVars, historyVars
<1>1. /\ f \in Flushers /\ publishing = {f} /\ p.active /\ status = "up" /\ p.sequence \in Seqs
      /\ previous = manifest /\ segments[p.sequence] = SegmentFile(p) /\ p.compact = Compacts
      /\ (~p.compact => manifest.segments # <<>> /\ Live(SegmentPoints(p)) # {})
  BY <1>0, PublisherFacts, PreparedFacts, ZenonT(60)
     DEF Inv, PublishSound, BeforeRename, LengthInv, AloneSound, PreparedSound
<1>2. /\ Len(manifest.segments) <= IF indexes = <<>> THEN 1 ELSE Len(indexes) + Slack
      /\ \A a \in DOMAIN manifest.segments : Live(segments[manifest.segments[a]].points) = {} => Compacts
  BY <1>0, <1>1, ZenonT(20) DEF LengthInv, NamesSound, AfterRename
<1>3. Slack <= 1 /\ Slack' = Slack /\ Slack \in Nat
  BY <1>0, LengthTypes DEF Inv, LengthInv, Slack, ShortManifests
<1>4. manifest.segments \in Seq(Seqs)
  BY ManifestTypes, Zenon DEF Inv
<1> HIDE DEF p
<1>5. ASSUME p.compact
      PROVE  Len(manifest'.segments) <= MAX_INDEX_SEGMENTS + 1 /\ GraphsOf(manifest)'
  <2>1. Len(manifest'.segments) = 1
    BY <1>0, <1>1, <1>5
  <2> QED
    BY <2>1, LengthTypes DEF Inv, GraphsOf
<1>6. ASSUME ~p.compact
      PROVE  /\ Len(manifest'.segments) <= MAX_INDEX_SEGMENTS + 1 /\ GraphsOf(manifest)'
             /\ 1 < Len(manifest'.segments) /\ Len(manifest'.segments) <= Len(indexes) + Slack + 1
  <2>1. manifest'.segments = Append(manifest.segments, p.sequence)
    BY <1>0, <1>1, <1>6, Zenon
  <2>2. Len(manifest'.segments) = Len(manifest.segments) + 1 /\ DOMAIN manifest'.segments = 1 .. Len(manifest.segments) + 1
        /\ manifest'.segments[Len(manifest.segments) + 1] = p.sequence
        /\ \A a \in DOMAIN manifest.segments : manifest'.segments[a] = manifest.segments[a]
    BY <1>1, <1>4, <2>1
  <2>3. Len(indexes) # 0 /\ Len(indexes) < MAX_INDEX_SEGMENTS
    <3>1. ~Compacts
      BY <1>1, <1>6, Zenon
    <3> QED
      BY <3>1, LengthTypes DEF Inv, Compacts
  <2>4. Len(manifest.segments) <= Len(indexes) + Slack /\ 0 < Len(manifest.segments)
    BY <1>1, <1>2, <1>4, <1>6, <2>3, LengthTypes DEF Inv
  <2>5. Len(manifest'.segments) <= MAX_INDEX_SEGMENTS + 1 /\ 1 < Len(manifest'.segments)
        /\ Len(manifest'.segments) <= Len(indexes) + Slack + 1
    BY <1>3, <2>2, <2>3, <2>4, LengthTypes DEF Inv
  <2>6. ASSUME NEW a \in DOMAIN manifest'.segments
        PROVE  Live(segments'[manifest'.segments[a]].points) # {}
    <3>1. CASE a \in DOMAIN manifest.segments
      BY <1>0, <1>1, <1>2, <1>6, <2>2, <3>1, ZenonT(20)
    <3>2. CASE a \notin DOMAIN manifest.segments
      <4>1. a = Len(manifest.segments) + 1
        BY <2>2, <2>6, <3>2, LengthTypes, SMTT(60) DEF Inv
      <4>2. segments'[manifest'.segments[a]].points = SegmentPoints(p)
        BY <1>0, <1>1, <2>2, <4>1 DEF SegmentFile
      <4> QED
        BY <1>1, <1>6, <4>2, Zenon
    <3> QED
      BY <3>1, <3>2, Zenon
  <2> QED
    BY <2>5, <2>6, ZenonT(20) DEF GraphsOf, Live
<1>7. Len(manifest'.segments) <= MAX_INDEX_SEGMENTS + 1 /\ GraphsOf(manifest)'
  BY <1>5, <1>6, Zenon
<1>8. Len(durManifest'.segments) <= MAX_INDEX_SEGMENTS + 1 /\ GraphsOf(durManifest)'
  BY <1>0, ZenonT(20) DEF LengthInv, GraphsOf, Live
<1>9. LoadedSound' /\ NamesSound'
  BY <1>0, <1>1, ZenonT(20) DEF LoadedSound, NamesSound, AfterRename
<1>10. \A g \in publishing' : RenamedSound(g)'
  <2>1. CASE ~p.compact
    <3>1. 1 < Len(manifest'.segments) /\ Len(manifest'.segments) <= Len(indexes') + Slack' + 1
      BY <1>0, <1>3, <1>6, <2>1, Zenon
    <3> QED
      BY <3>1, ZenonT(20) DEF RenamedSound
  <2>2. CASE p.compact
    BY <1>0, <1>1, <2>2, ZenonT(20) DEF RenamedSound, p
  <2> QED
    BY <2>1, <2>2, Zenon
<1>11. faults' <= MaxFaults /\ \A g \in Flushers : AloneSound(g)'
  BY <1>0, AloneKept, ZenonT(20) DEF LengthInv
<1> QED
  BY <1>7, <1>8, <1>9, <1>10, <1>11, ZenonT(20) DEF LengthInv

(* publish_flush ends: the new segment has its graph, unless it is full and empty. *)
LEMMA LengthFinish ==
    ASSUME Inv, LengthInv, [SafeNext]_vars, NEW f \in publishing, FinishPublish(f)
    PROVE  LengthInv'
<1> DEFINE p == prepared[f]
<1>0. /\ stage = "walCut" /\ stage' = "free" /\ publishing' = {}
      /\ UNCHANGED <<manifest, durManifest, status, faults>>
      /\ indexes' = (IF p.compact THEN <<>> ELSE indexes) \o NewIndex(p)
      /\ prepared' = [prepared EXCEPT ![f] = NotPrepared]
  BY ZenonT(20) DEF FinishPublish, historyVars
<1>1. /\ f \in Flushers /\ publishing = {f} /\ p.active /\ status = "up" /\ stage \in AfterRename
      /\ p.compact = Compacts /\ (p.compact => manifest.segments = <<p.sequence>>)
      /\ (~p.compact => Live(SegmentPoints(p)) # {})
      /\ \A g \in Flushers \ {f} : ~prepared[g].active
  BY <1>0, PublisherFacts, ZenonT(20) DEF Inv, PublishSound, AfterRename, LengthInv, AloneSound
<1>2. \A m \in {manifest', durManifest'} : Len(m.segments) <= MAX_INDEX_SEGMENTS + 1 /\ GraphsOf(m)'
  BY <1>0, ShortKept, Zenon
<1>3. Slack' = Slack /\ Slack \in Nat
  BY <1>0, LengthTypes, Zenon DEF Inv, Slack
<1>4. \A a \in DOMAIN manifest.segments : segments'[manifest.segments[a]] = segments[manifest.segments[a]]
  BY NamedFiles, Zenon
<1>5. \A g \in Flushers : ~prepared'[g].active
  <2>1. ~NotPrepared.active
    BY Zenon DEF NotPrepared
  <2> QED
    BY <1>0, <1>1, <2>1, ZenonT(20) DEF Inv, TypeOK
<1>6. p.compact => segments[p.sequence].points = SegmentPoints(p)
  <2> SUFFICES ASSUME p.compact PROVE segments[p.sequence].points = SegmentPoints(p)
    OBVIOUS
  <2>1. SegmentFile(p) = [kind |-> "full", ids |-> Ids, points |-> committed[p.sequence]]
    BY <1>1, FullSegment, ZenonT(20) DEF Inv
  <2>2. 1 \in DOMAIN manifest.segments /\ manifest.segments[1] = p.sequence
    BY <1>1
  <2>3. segments[p.sequence] = [kind |-> "full", ids |-> Ids, points |-> committed[p.sequence]]
    BY <2>2, ZenonT(60) DEF Inv, ManifestSound, ChainSound
  <2> QED
    BY <2>1, <2>3 DEF SegmentFile
<1>7. indexes \in Seq(IndexSegment)
  BY Zenon DEF Inv, TypeOK
<1> HIDE DEF p
<1>8. ASSUME p.compact PROVE NamesSound'
  <2>1. /\ Len(manifest.segments) = 1 /\ DOMAIN manifest.segments = {1}
        /\ manifest.segments[1] = p.sequence
    <3>1. manifest.segments = <<p.sequence>>
      BY <1>1, <1>8, Zenon
    <3> QED
      BY <3>1
  <2>2. CASE Live(SegmentPoints(p)) = {}
    <3>1. indexes' = <<>>
      BY <1>0, <1>8, <2>2 DEF NewIndex
    <3>2. Compacts'
      BY <3>1, Zenon DEF Compacts
    <3> QED
      BY <1>0, <2>1, <3>1, <3>2 DEF NamesSound
  <2>3. CASE Live(SegmentPoints(p)) # {}
    <3>1. indexes' # <<>> /\ Len(indexes') = 1
      BY <1>0, <1>8, <2>3 DEF NewIndex
    <3>2. \A a \in DOMAIN manifest.segments : Live(segments'[manifest.segments[a]].points) # {}
      BY <1>4, <1>6, <1>8, <2>1, <2>3, ZenonT(20)
    <3>3. Len(manifest'.segments) <= IF indexes' = <<>> THEN 1 ELSE Len(indexes') + Slack'
      BY <1>0, <1>3, <2>1, <3>1
    <3> QED
      BY <1>0, <3>2, <3>3, ZenonT(20) DEF NamesSound, Live
  <2> QED
    BY <2>2, <2>3, Zenon
<1>9. ASSUME ~p.compact PROVE NamesSound'
  <2>1. 1 < Len(manifest.segments) /\ Len(manifest.segments) <= Len(indexes) + Slack + 1
    BY <1>1, <1>9, ZenonT(20) DEF LengthInv, RenamedSound, p
  <2>2. \E node : NewIndex(p) = <<node>>
    BY <1>1, <1>9, ZenonT(20) DEF NewIndex
  <2>3. Len(indexes') = Len(indexes) + 1 /\ indexes' # <<>>
    <3>1. PICK node : NewIndex(p) = <<node>>
      BY <2>2, Zenon
    <3>2. indexes' = indexes \o <<node>>
      BY <1>0, <1>9, <3>1, Zenon
    <3>3. Len(indexes \o <<node>>) = Len(indexes) + 1 /\ indexes \o <<node>> # <<>>
      BY <1>7
    <3> QED
      BY <3>2, <3>3, Zenon
  <2>4. Len(manifest'.segments) <= IF indexes' = <<>> THEN 1 ELSE Len(indexes') + Slack'
    BY <1>0, <1>3, <2>1, <2>3, LengthTypes, SMTT(60) DEF Inv
  <2>5. \A a \in DOMAIN manifest.segments : Live(segments'[manifest.segments[a]].points) # {}
    BY <1>0, <1>4, <2>1, ZenonT(20) DEF LengthInv, GraphsOf
  <2> QED
    BY <1>0, <2>4, <2>5, ZenonT(20) DEF NamesSound, Live
<1>10. NamesSound'
  BY <1>8, <1>9, Zenon
<1>11. LoadedSound' /\ faults' <= MaxFaults /\ \A g \in Flushers : AloneSound(g)'
  BY <1>0, <1>1, <1>5, ZenonT(20) DEF LoadedSound, AloneSound, LengthInv
<1> QED
  BY <1>0, <1>2, <1>10, <1>11, ZenonT(20) DEF LengthInv

(* publish_flush fails: a late error leaves the name of a delta without a graph. *)
LEMMA LengthFail ==
    ASSUME Inv, LengthInv, [SafeNext]_vars, NEW f \in publishing, FailPublish(f)
    PROVE  LengthInv'
<1> DEFINE p == prepared[f]
<1>0. /\ stage' = "free" /\ publishing' = {}
      /\ UNCHANGED <<manifest, durManifest, segments, indexes, status, pos>>
      /\ prepared' = [prepared EXCEPT ![f] = NotPrepared]
      /\ \/ UNCHANGED faults
         \/ faults < MaxFaults /\ faults' = faults + 1
      /\ stage \in AfterRename => "late" \in IoFaults /\ faults < MaxFaults /\ faults' = faults + 1
  BY ZenonT(20) DEF FailPublish, historyVars, memoryVars, diskVars, IoError, AfterRename
<1>1. \A g \in Flushers : prepared'[g] = prepared[g] \/ ~prepared'[g].active
  <2>1. ~NotPrepared.active
    BY Zenon DEF NotPrepared
  <2> QED
    BY <1>0, <2>1, ZenonT(20) DEF Inv, TypeOK
<1>2. \A g \in Flushers : AloneSound(g)'
  BY <1>0, <1>1, AloneKept, ZenonT(20)
<1>3. faults' \in Nat /\ faults <= faults' /\ faults' <= MaxFaults
  BY <1>0, LengthTypes DEF Inv, LengthInv
<1>4. stage' \notin AfterRename
  BY <1>0, Zenon DEF AfterRename
<1>5. CASE stage \notin AfterRename
  BY <1>0, <1>2, <1>3, <1>4, <1>5, LengthQuiet, ZenonT(20)
<1>6. CASE stage \in AfterRename
  <2>1. \A m \in {manifest', durManifest'} : Len(m.segments) <= MAX_INDEX_SEGMENTS + 1 /\ GraphsOf(m)'
    BY <1>0, ShortKept, Zenon
  <2>2. /\ f \in Flushers /\ p.active /\ status = "up"
        /\ p.compact = Compacts /\ (p.compact => manifest.segments = <<p.sequence>>)
    BY <1>6, PublisherFacts, ZenonT(20) DEF Inv, PublishSound, LengthInv, AloneSound
  <2>3. Slack' = Slack + 1 /\ Slack \in Nat
    BY <1>0, <1>6, LengthTypes, Zenon DEF Inv, Slack
  <2>4. ASSUME p.compact PROVE NamesSound'
    <3>1. Len(manifest'.segments) = 1
      BY <1>0, <2>2, <2>4, Zenon
    <3>2. Len(manifest'.segments) <= IF indexes' = <<>> THEN 1 ELSE Len(indexes') + Slack'
      BY <1>0, <2>3, <3>1, LengthTypes DEF Inv
    <3>3. Compacts'
      BY <1>0, <2>2, <2>4, Zenon DEF Compacts
    <3> QED
      BY <3>2, <3>3, Zenon DEF NamesSound
  <2>5. ASSUME ~p.compact PROVE NamesSound'
    <3>1. 1 < Len(manifest.segments) /\ Len(manifest.segments) <= Len(indexes) + Slack + 1
      BY <1>6, <2>5, ZenonT(20) DEF LengthInv, RenamedSound
    <3>2. indexes # <<>>
      BY <2>2, <2>5, Zenon DEF Compacts
    <3>3. Len(manifest'.segments) <= IF indexes' = <<>> THEN 1 ELSE Len(indexes') + Slack'
      BY <1>0, <2>3, <3>1, <3>2, LengthTypes DEF Inv
    <3>4. \A a \in DOMAIN manifest.segments : Live(segments[manifest.segments[a]].points) # {}
      BY <3>1, ZenonT(20) DEF LengthInv, GraphsOf
    <3> QED
      BY <1>0, <3>3, <3>4, ZenonT(20) DEF NamesSound, Live
  <2>6. LoadedSound'
    BY <1>0, <2>2, Zenon DEF LoadedSound
  <2> QED
    BY <1>0, <1>2, <1>3, <2>1, <2>4, <2>5, <2>6, ZenonT(20) DEF LengthInv
<1> QED
  BY <1>5, <1>6, Zenon

(* A crash or a power loss leaves one of the two manifests. *)
LEMMA LengthCrash ==
    ASSUME Inv, LengthInv, [SafeNext]_vars, Crash \/ PowerLoss
    PROVE  LengthInv'
<1>1. /\ status' = "closed" /\ publishing' = {} /\ faults' = faults
      /\ manifest' \in {manifest, durManifest} /\ durManifest' \in {manifest, durManifest}
      /\ prepared' = [f \in Flushers |-> NotPrepared]
  BY ZenonT(20) DEF Crash, PowerLoss, LoseMemory
<1>2. \A f \in Flushers : ~prepared'[f].active
  BY <1>1, Zenon DEF NotPrepared
<1>3. \A m \in {manifest', durManifest'} : Len(m.segments) <= MAX_INDEX_SEGMENTS + 1 /\ GraphsOf(m)'
  BY <1>1, ShortKept, Zenon
<1>4. LoadedSound' /\ NamesSound' /\ \A f \in Flushers : AloneSound(f)'
  BY <1>1, <1>2, ZenonT(20) DEF LoadedSound, NamesSound, AloneSound
<1> QED
  BY <1>1, <1>3, <1>4, ZenonT(20) DEF LengthInv

(* A range with a member. *)
LEMMA OneInRange ==
    ASSUME NEW n \in Nat, NEW a \in 1 .. n
    PROVE  (n > 1 \/ n = 1) /\ (n <= 1 => a = 1 /\ n = 1)
OBVIOUS

LEMMA ZeroOrOne ==
    ASSUME NEW n \in Nat, n <= 1
    PROVE  n = 0 \/ n = 1
OBVIOUS

(* Recovery: one graph for each file loaded, but for an empty full segment. *)
LEMMA LengthRecovery ==
    ASSUME Inv, LengthInv, [SafeNext]_vars, RecoveryStep
    PROVE  LengthInv'
<1>0. /\ UNCHANGED <<manifest, durManifest, segments, stage, publishing, prepared, faults>>
      /\ status # "up"
  BY ZenonT(30) DEF RecoveryStep, Open, LoadSegment, BeginReplay, ReplayFrame, ReplayTorn, OpenDone,
       flushVars, historyVars, diskVars
<1>1. stage = "free" /\ stage \notin AfterRename /\ publishing = {}
      /\ \A f \in Flushers : ~prepared[f].active
  BY <1>0, ZenonT(20) DEF Inv, ControlSound, AfterRename
<1>2. \A f \in Flushers : AloneSound(f)'
  BY <1>0, <1>1, ZenonT(20) DEF AloneSound
<1>3. faults' \in Nat /\ faults <= faults' /\ faults' <= MaxFaults
  BY <1>0, LengthTypes DEF Inv, LengthInv
<1>4. \A m \in {manifest', durManifest'} : Len(m.segments) <= MAX_INDEX_SEGMENTS + 1 /\ GraphsOf(m)'
  BY <1>0, ShortKept, Zenon
<1>5. ASSUME LoadedSound', NamesSound' PROVE LengthInv'
  BY <1>0, <1>1, <1>2, <1>3, <1>4, <1>5, ZenonT(20) DEF LengthInv
<1>6. CASE Open
  <2>1. /\ status = "closed" /\ status' \in {"loading", "failed"} /\ indexes' = indexes /\ pos' = pos
    BY <1>6, ZenonT(20) DEF Open
  <2>2. indexes' = <<>> /\ pos' = 1
    BY <2>1, Zenon DEF Inv, ControlSound
  <2>3. Len(indexes') = pos' - 1
    BY <2>2
  <2> QED
    BY <1>5, <2>1, <2>2, <2>3, ZenonT(20) DEF LoadedSound, NamesSound
<1>7. CASE LoadSegment
  <2> DEFINE n == manifest.segments[pos]
             file == segments[n]
             nodes == [sequence |-> n, points |-> file.points]
  <2>1. status = "loading" /\ pos <= Len(manifest.segments)
        /\ \/ status' = "failed"
           \/ /\ status' = "loading" /\ pos' = pos + 1
              /\ indexes' = indexes \o (IF Live(file.points) = {} THEN <<>> ELSE <<nodes>>)
    BY <1>7, ZenonT(20) DEF LoadSegment
  <2> DEFINE empty == Len(manifest.segments) = 1 /\ Live(segments[manifest.segments[1]].points) = {}
  <2>2. IF empty THEN indexes = <<>> ELSE Len(indexes) = pos - 1
    BY <2>1, Zenon DEF LengthInv, LoadedSound
  <2>3. pos \in DOMAIN manifest.segments
    BY <2>1, LengthTypes DEF Inv
  <2> HIDE DEF nodes, file
  <2>4. CASE status' = "failed"
    BY <1>5, <2>4, Zenon DEF LoadedSound, NamesSound
  <2>5. CASE status' = "loading" /\ empty
    <3>1. pos = 1
      BY <2>1, <2>5, LengthTypes DEF Inv
    <3>2. Live(file.points) = {}
      BY <2>5, <3>1, Zenon DEF file
    <3>3. indexes' = <<>>
      BY <2>1, <2>2, <2>5, <3>2
    <3> QED
      BY <1>0, <1>5, <2>5, <3>3, ZenonT(20) DEF LoadedSound, NamesSound
  <2>6. CASE status' = "loading" /\ ~empty
    <3>1. Live(file.points) # {}
      <4>1. CASE Len(manifest.segments) > 1
        BY <2>3, <4>1, ZenonT(20) DEF LengthInv, GraphsOf, file
      <4>2. CASE Len(manifest.segments) = 1
        <5>1. pos = 1
          BY <2>1, <4>2, LengthTypes DEF Inv
        <5> QED
          BY <2>6, <4>2, <5>1, Zenon DEF file
      <4>3. Len(manifest.segments) \in Nat /\ DOMAIN manifest.segments = 1 .. Len(manifest.segments)
        BY LengthTypes, Zenon DEF Inv
      <4>4. Len(manifest.segments) > 1 \/ Len(manifest.segments) = 1
        BY <2>3, <4>3, OneInRange, Zenon
      <4> QED
        BY <4>1, <4>2, <4>4, Zenon
    <3>2. indexes' = indexes \o <<nodes>> /\ pos' = pos + 1
      BY <2>1, <2>6, <3>1, Zenon
    <3>3. Len(indexes \o <<nodes>>) = Len(indexes) + 1
      BY DEF Inv, TypeOK
    <3>4. Len(indexes) = pos - 1
      BY <2>2, <2>6, Zenon
    <3>5. Len(indexes') = pos' - 1
      BY <3>2, <3>3, <3>4, LengthTypes DEF Inv
    <3>6. ~(Len(manifest'.segments) = 1 /\ Live(segments'[manifest'.segments[1]].points) = {})
      BY <1>0, <2>6, Zenon
    <3> QED
      BY <1>5, <2>6, <3>5, <3>6, ZenonT(20) DEF LoadedSound, NamesSound, Live
  <2> QED
    BY <2>1, <2>4, <2>5, <2>6, Zenon
<1>8. CASE BeginReplay
  <2>1. status = "loading" /\ pos > Len(manifest.segments) /\ status' = "replaying" /\ indexes' = indexes
    BY <1>8, ZenonT(20) DEF BeginReplay
  <2> DEFINE empty == Len(manifest.segments) = 1 /\ Live(segments[manifest.segments[1]].points) = {}
  <2>2. IF empty THEN indexes = <<>> ELSE Len(indexes) = pos - 1
    BY <2>1, Zenon DEF LengthInv, LoadedSound
  <2>3. pos - 1 = Len(manifest.segments)
    BY <2>1, LengthTypes DEF Inv, MemorySound
  <2>4. Slack' = Slack /\ Slack \in Nat
    BY <1>0, LengthTypes, Zenon DEF Inv, Slack
  <2>5. ASSUME empty PROVE NamesSound'
    <3>1. Len(manifest'.segments) <= IF indexes' = <<>> THEN 1 ELSE Len(indexes') + Slack'
      BY <1>0, <2>1, <2>2, <2>5
    <3>2. Compacts'
      BY <2>1, <2>2, <2>5, Zenon DEF Compacts
    <3> QED
      BY <3>1, <3>2, Zenon DEF NamesSound
  <2>6. ASSUME ~empty PROVE NamesSound'
    <3>1. Len(manifest'.segments) <= IF indexes' = <<>> THEN 1 ELSE Len(indexes') + Slack'
      <4>1. Len(indexes) = Len(manifest.segments)
        BY <2>2, <2>3, <2>6, Zenon
      <4> HIDE DEF empty
      <4> QED
        BY <1>0, <2>1, <2>4, <4>1, LengthTypes DEF Inv
    <3>2. \A a \in DOMAIN manifest.segments : Live(segments[manifest.segments[a]].points) # {}
      <4>1. CASE Len(manifest.segments) > 1
        BY <4>1, ZenonT(20) DEF LengthInv, GraphsOf
      <4>2. CASE Len(manifest.segments) <= 1
        <5> SUFFICES ASSUME NEW a \in DOMAIN manifest.segments
                     PROVE  Live(segments[manifest.segments[a]].points) # {}
          OBVIOUS
        <5>0. a \in 1 .. Len(manifest.segments) /\ Len(manifest.segments) \in Nat
          BY LengthTypes, Zenon DEF Inv
        <5>1. a = 1 /\ Len(manifest.segments) = 1
          BY <4>2, <5>0, OneInRange, Zenon
        <5> QED
          BY <2>6, <5>1, Zenon
      <4> QED
        BY <4>1, <4>2, LengthTypes, SMTT(60) DEF Inv
    <3> QED
      BY <1>0, <3>1, <3>2, ZenonT(20) DEF NamesSound, Live
  <2> QED
    BY <1>5, <2>1, <2>5, <2>6, Zenon DEF LoadedSound
<1>9. CASE ReplayFrame \/ ReplayTorn \/ OpenDone
  <2>1. /\ indexes' = indexes
        /\ \/ status' = "failed"
           \/ status \in {"replaying", "up"} /\ status' \in {"replaying", "up"}
    BY <1>9, ZenonT(20) DEF ReplayFrame, ReplayTorn, OpenDone
  <2> QED
    BY <1>0, <1>1, <1>2, <1>3, <2>1, LengthQuiet, ZenonT(20)
<1> QED
  BY <1>6, <1>7, <1>8, <1>9, ZenonT(20) DEF RecoveryStep

(* Every step keeps LengthInv. *)
LEMMA LengthNext ==
    ASSUME ShortManifests, Inv, LengthInv, [AloneNext]_vars
    PROVE  LengthInv'
<1>0. [SafeNext]_vars
  BY AloneIsSafe, Zenon
<1>1. CASE Write \/ AppendStep \/ UNCHANGED vars
  BY <1>0, <1>1, LengthWrite, Zenon
<1>2. ASSUME NEW f \in Flushers, NoneActive, GraphAllowed, FlushSnapshot(f)
      PROVE  LengthInv'
  BY <1>0, <1>2, LengthSnapshot, Zenon
<1>3. ASSUME NEW f \in Flushers, PublishStep(f)
      PROVE  LengthInv'
  BY <1>0, <1>3, LengthPublish, LengthRename, LengthFinish, LengthFail, ZenonT(20) DEF PublishStep
<1>4. CASE RecoveryStep
  BY <1>0, <1>4, LengthRecovery, Zenon
<1>5. CASE Crash \/ PowerLoss
  BY <1>0, <1>5, LengthCrash, Zenon
<1> QED
  BY <1>1, <1>2, <1>3, <1>4, <1>5, ZenonT(20) DEF AloneNext, SystemStep

LEMMA LengthInit == Init => LengthInv
<1> SUFFICES ASSUME Init PROVE LengthInv
  OBVIOUS
<1>1. /\ manifest = NoManifest /\ durManifest = NoManifest /\ status = "up" /\ indexes = <<>> /\ faults = 0
      /\ prepared = [f \in Flushers |-> NotPrepared] /\ publishing = {}
  BY Zenon DEF Init
<1>2. NoManifest.segments = <<>> /\ ~NotPrepared.active
  BY Zenon DEF NoManifest, NotPrepared
<1>3. \A m \in {manifest, durManifest} : Len(m.segments) <= MAX_INDEX_SEGMENTS + 1 /\ GraphsOf(m)
  BY <1>1, <1>2, ConstantsAssumption DEF GraphsOf
<1>4. LoadedSound /\ NamesSound
  BY <1>1, <1>2, ConstantsAssumption DEF LoadedSound, NamesSound
<1>5. faults <= MaxFaults /\ \A f \in Flushers : AloneSound(f)
  BY <1>1, <1>2, ConstantsAssumption DEF AloneSound
<1> QED
  BY <1>1, <1>3, <1>4, <1>5, ZenonT(20) DEF LengthInv

(* A manifest that is short enough is read, so open does not fail. *)
LEMMA ShortOpens ==
    ASSUME Inv, ReopenInv, LengthInv
    PROVE  OpenNeverFails
<1>1. OpensUnlessOutgrown
  BY OpensIfShort, Zenon
<1>2. Len(manifest.segments) <= MAX_INDEX_SEGMENTS + 1
  BY ZenonT(20) DEF LengthInv
<1> QED
  BY <1>1, <1>2, LengthTypes DEF Inv, OpensUnlessOutgrown, OpenNeverFails

(* One thread flushes. *)
SoleFlusher == \A f, g \in Flushers : f = g

(* With one flushing thread and at most one late error, open never fails: no manifest names *)
(* more than MAX_INDEX_SEGMENTS + 1 segments.                                               *)
THEOREM SharedOpenNeverFails ==
    CarefulCallers /\ ShortManifests /\ SoleFlusher /\ SharedSpec => []OpenNeverFails
<1> SUFFICES ASSUME CarefulCallers, ShortManifests, SoleFlusher PROVE SharedSpec => []OpenNeverFails
  OBVIOUS
<1>1. ASSUME [SharedNext]_vars PROVE [AloneNext]_vars
  <2>1. ASSUME NEW f \in Flushers, SharedFlush(f)
        PROVE  NoneActive /\ SafeName /\ GraphAllowed /\ FlushSnapshot(f)
    <3>1. FlushSnapshot(f) /\ GraphAllowed /\ FreshSequence
      BY <2>1, Zenon DEF SharedFlush, CarefulCallers
    <3>2. ~prepared[f].active
      BY <3>1, Zenon DEF FlushSnapshot
    <3> QED
      BY <3>1, <3>2, Zenon DEF NoneActive, SoleFlusher, SafeName
  <2> QED
    BY <1>1, <2>1, ZenonT(20) DEF SharedNext, AloneNext
<1>2. Inv /\ LengthInv /\ [SharedNext]_vars => LengthInv'
  BY <1>1, LengthNext, Zenon
<1>3. Inv /\ ReopenInv /\ LengthInv => OpenNeverFails
  BY ShortOpens, Zenon
<1> QED
  BY <1>2, <1>3, LengthInit, SharedInv, SharedReopenInv, PTL DEF SharedSpec

-------------------------------------------------------------------------------
(* A PersistentCollection used directly, whose deltas all have a live point, and on a disk  *)
(* where neither a publication fails after the manifest's rename nor the clean-up of a      *)
(* failed append.                                                                           *)
OwnedCallers == ~EmptyDeltas /\ "late" \notin IoFaults /\ "cleanup" \notin IoFaults

(* Its flush has a safe name. *)
LEMMA OwnedSafeName ==
    ASSUME Inv, LengthInv, OwnedInv, NEW f \in Flushers, NoneActive, Flush(f)
    PROVE  /\ SafeName
           /\ manifest.sequence = latest /\ manifest.segments # <<>> =>
                Compacts /\ Len(manifest.segments) = 1
<1>0. status = "up" /\ stage = "free" /\ stage \notin AfterRename /\ points = committed[latest]
  BY ZenonT(20) DEF Flush, FlushSnapshot, Unlocked, AfterRename, Inv, MemorySound
<1>1. CASE dirty # {}
  <2>1. manifest.sequence < latest
    BY <1>0, <1>1, ZenonT(20) DEF OwnedInv, DirtySound
  <2>2. latest > manifest.sequence /\ manifest.sequence # latest
    BY <2>1, NumberFacts DEF Inv
  <2> QED
    BY <2>2, ZenonT(20) DEF SafeName, FreshSequence, NoneActive
<1>2. CASE dirty = {}
  <2>1. indexes = <<>>
    BY <1>2, Zenon DEF Flush
  <2>2. Compacts /\ Len(manifest.segments) <= 1
    BY <1>0, <2>1, ZenonT(20) DEF Compacts, LengthInv, NamesSound
  <2>3. manifest.segments # <<>> => Len(manifest.segments) = 1 /\ manifest.segments[1] = manifest.sequence
    <3>1. manifest.segments \in Seq(Seqs)
      BY ManifestTypes, Zenon DEF Inv
    <3>2. manifest.segments # <<>> => Len(manifest.segments) = 1
      <4>1. Len(manifest.segments) \in Nat /\ (manifest.segments # <<>> => Len(manifest.segments) # 0)
        BY <3>1
      <4>2. Len(manifest.segments) <= 1
        BY <2>2, Zenon
      <4> QED
        BY <4>1, <4>2, ZeroOrOne, Zenon
    <3> QED
      BY <3>2, ZenonT(20) DEF Inv, ManifestSound, ChainSound
  <2>4. ASSUME NEW m \in {manifest, durManifest}, latest \in ManifestNames(m)
        PROVE  segments[latest] = [kind |-> "full", ids |-> Ids, points |-> points]
    <3>1. PICK a \in DOMAIN m.segments : m.segments[a] = latest
      BY <2>4, Zenon DEF ManifestNames
    <3>2. m.segments \in Seq(Seqs) /\ m.sequence \in Nat /\ m.sequence <= manifest.sequence
          /\ ChainSound(m, segments, durSegments, committed)
      BY TypeFacts, SMTT(60) DEF Inv, ManifestSound
    <3>3. latest <= m.sequence
      BY <3>1, <3>2, ChainNames, Zenon
    <3>4. manifest.sequence <= latest
      BY <1>0, Zenon DEF Inv, MemorySound
    <3>5. m.sequence = manifest.sequence /\ manifest.sequence = latest
      BY <3>2, <3>3, <3>4, NumberFacts, SMTT(60) DEF Inv
    <3>6. m.segments # <<>>
      BY <3>1, <3>2
    <3>7. m = manifest
      BY <3>5, <3>6, ZenonT(20) DEF OwnedInv, SameSound
    <3>8. manifest.segments[1] = latest /\ 1 \in DOMAIN manifest.segments
      BY <2>3, <3>2, <3>5, <3>6, <3>7
    <3>9. segments[latest] = [kind |-> "full", ids |-> Ids, points |-> committed[latest]]
      BY <3>8, ZenonT(20) DEF Inv, ManifestSound, ChainSound
    <3> QED
      BY <1>0, <3>9, Zenon
  <2> QED
    BY <2>2, <2>3, <2>4, ZenonT(20) DEF SafeName, NoneActive
<1> QED
  BY <1>1, <1>2, Zenon

LEMMA OwnedIsAlone ==
    ASSUME Inv, LengthInv, OwnedInv, [OwnedNext]_vars
    PROVE  [AloneNext]_vars
<1>1. ASSUME NoneActive, NEW f \in Flushers, Flush(f)
      PROVE  NoneActive /\ SafeName /\ GraphAllowed /\ FlushSnapshot(f)
  BY <1>1, OwnedSafeName, ZenonT(20) DEF Flush
<1> QED
  BY <1>1, ZenonT(20) DEF OwnedNext, AloneNext, NoneActive

(* A step that changes neither the latest sequence nor the manifest. *)
LEMMA OwnedQuiet ==
    ASSUME OwnedInv, UNCHANGED <<manifest, latest, dirty>>, durManifest' \in {manifest, durManifest},
           stage' \notin AfterRename => stage \notin AfterRename,
           status' \in {"replaying", "up"} => status \in {"replaying", "up"},
           \A f \in Flushers : prepared'[f].active =>
             prepared'[f] = prepared[f] /\ stage' # "append"
    PROVE  OwnedInv'
<1>1. \A f \in Flushers : LatestSound(f)'
  BY ZenonT(20) DEF OwnedInv, LatestSound
<1>2. DirtySound' /\ SameSound'
  BY ZenonT(20) DEF OwnedInv, DirtySound, SameSound
<1> QED
  BY <1>1, <1>2, Zenon DEF OwnedInv

(* Writes: the latest sequence grows past the manifest's while nothing is prepared. *)
LEMMA OwnedWrite ==
    ASSUME Inv, OwnedInv, \/ NoneActive /\ Write
                          \/ AppendStep
                          \/ UNCHANGED vars
    PROVE  OwnedInv'
<1>1. CASE NoneActive /\ Write
  <2>1. /\ UNCHANGED <<manifest, durManifest, latest, dirty, status, prepared>> /\ stage = "free"
    BY <1>1, ZenonT(20) DEF Write, BeginAppend, Unlocked, memoryVars
  <2>2. stage \notin AfterRename /\ \A f \in Flushers : ~prepared'[f].active
    BY <1>1, <2>1, ZenonT(20) DEF AfterRename, NoneActive
  <2> QED
    BY <2>1, <2>2, OwnedQuiet, ZenonT(20)
<1>2. CASE CompleteAppend
  <2>1. /\ UNCHANGED <<manifest, durManifest, prepared, status>> /\ stage = "append" /\ stage' = "free"
        /\ wal[Len(wal)] # Torn /\ latest' = wal[Len(wal)].sequence
    BY <1>2, ZenonT(20) DEF CompleteAppend
  <2>2. \A f \in Flushers : ~prepared'[f].active
    BY <2>1, ZenonT(20) DEF OwnedInv, LatestSound
  <2>3. status = "up" /\ manifest.sequence <= latest /\ latest' = latest + 1
    BY <2>1, ZenonT(20) DEF Inv, ControlSound, MemorySound, WalSound
  <2>4. manifest'.sequence < latest'
    BY <2>1, <2>3, NumberFacts DEF Inv
  <2>5. SameSound'
    BY <2>1, ZenonT(20) DEF OwnedInv, SameSound
  <2> QED
    BY <2>2, <2>4, <2>5, ZenonT(20) DEF OwnedInv, LatestSound, DirtySound
<1>3. CASE FailAppend \/ UNCHANGED vars
  <2>1. /\ UNCHANGED <<manifest, durManifest, latest, dirty, status, prepared>>
        /\ stage' = "free" \/ stage' = stage
    BY <1>3, ZenonT(20) DEF FailAppend, memoryVars, vars, diskVars, flushVars
  <2>2. stage' # stage => stage = "append"
    BY <1>3, ZenonT(20) DEF FailAppend, vars, flushVars
  <2>3. stage' \notin AfterRename => stage \notin AfterRename
    BY <2>2, ZenonT(20) DEF AfterRename
  <2>4. \A f \in Flushers : prepared'[f].active => prepared'[f] = prepared[f] /\ stage' # "append"
    BY <2>1, ZenonT(20) DEF OwnedInv, LatestSound
  <2> QED
    BY <2>1, <2>3, <2>4, OwnedQuiet, ZenonT(20)
<1> QED
  BY <1>1, <1>2, <1>3, Zenon DEF AppendStep

(* A snapshot. *)
LEMMA OwnedSnapshot ==
    ASSUME Inv, LengthInv, OwnedInv, NoneActive, NEW f \in Flushers, Flush(f)
    PROVE  OwnedInv'
<1>1. /\ UNCHANGED <<manifest, durManifest, latest, dirty, status, stage>> /\ stage = "free"
      /\ prepared' = [prepared EXCEPT ![f] =
                        [active |-> TRUE, sequence |-> latest, compact |-> Compacts,
                         ids |-> IF Compacts THEN Ids ELSE dirty, points |-> points]]
  BY ZenonT(20) DEF Flush, FlushSnapshot, Unlocked, diskVars, memoryVars
<1>2. /\ \A g \in Flushers \ {f} : prepared'[g] = prepared[g]
      /\ prepared'[f] = [active |-> TRUE, sequence |-> latest, compact |-> Compacts,
                         ids |-> IF Compacts THEN Ids ELSE dirty, points |-> points]
  BY <1>1, ZenonT(20) DEF Inv, TypeOK
<1>3. prepared'[f].sequence = latest /\ prepared'[f].compact = Compacts
  BY <1>2
<1>4. \A g \in Flushers \ {f} : ~prepared'[g].active
  BY <1>2, ZenonT(20) DEF NoneActive
<1>5. manifest.sequence = latest /\ manifest.segments # <<>> => Compacts /\ Len(manifest.segments) = 1
  BY OwnedSafeName, Zenon
<1>6. LatestSound(f)'
  BY <1>1, <1>3, <1>5, ZenonT(20) DEF LatestSound
<1>7. \A g \in Flushers : LatestSound(g)'
  BY <1>4, <1>6, ZenonT(20) DEF LatestSound
<1>8. DirtySound' /\ SameSound'
  BY <1>1, ZenonT(20) DEF OwnedInv, DirtySound, SameSound
<1> QED
  BY <1>7, <1>8, Zenon DEF OwnedInv

(* publish_flush: nothing was written since the snapshot, so it ends with no dirty ID. *)
LEMMA OwnedPublish ==
    ASSUME OwnedCallers, Inv, LengthInv, OwnedInv, NEW f \in Flushers, PublishStep(f)
    PROVE  OwnedInv'
<1> DEFINE p == prepared[f]
<1>0. ~NotPrepared.active
  BY Zenon DEF NotPrepared
<1>1. CASE \/ PublishNothing(f) \/ PublishSegment(f)
           \/ f \in publishing /\ (SyncSegment \/ WriteManifest \/ SyncManifest \/ TruncateWal(f))
           \/ f \in publishing /\ FailPublish(f)
  <2>1. /\ UNCHANGED <<manifest, latest, dirty, status>> /\ durManifest' \in {manifest, durManifest}
        /\ prepared' = prepared \/ prepared' = [prepared EXCEPT ![f] = NotPrepared]
    BY <1>1, ZenonT(20) DEF PublishNothing, PublishSegment, SyncSegment, WriteManifest, SyncManifest, TruncateWal,
         SyncDirectory, FailPublish, Step, memoryVars, diskVars
  <2>2. stage' \notin AfterRename => stage \notin AfterRename
    BY <1>1, ZenonT(20) DEF PublishNothing, PublishSegment, SyncSegment, WriteManifest, SyncManifest,
         TruncateWal, FailPublish, IoError, Step, Unlocked, AfterRename, OwnedCallers
  <2>3. stage' # "append"
    BY <1>1, ZenonT(20) DEF PublishNothing, PublishSegment, SyncSegment, WriteManifest, SyncManifest,
         TruncateWal, FailPublish, Step, Unlocked
  <2>4. \A g \in Flushers : prepared'[g].active => prepared'[g] = prepared[g]
    BY <1>0, <2>1, ZenonT(20) DEF Inv, TypeOK
  <2> QED
    BY <2>1, <2>2, <2>3, <2>4, OwnedQuiet, ZenonT(20)
<1>2. CASE f \in publishing /\ RenameManifest(f)
  <2>1. /\ stage = "manifestTmp" /\ stage' = "manifest" /\ UNCHANGED <<durManifest, prepared, latest>>
        /\ manifest' = [sequence |-> p.sequence,
                        segments |-> Append(IF p.compact THEN <<>> ELSE previous.segments, p.sequence)]
    BY <1>2, ZenonT(20) DEF RenameManifest, Step, memoryVars
  <2>2. stage' \in AfterRename /\ stage' # "append" /\ stage \notin AfterRename
    BY <2>1, ZenonT(20) DEF AfterRename
  <2>3. \A g \in Flushers : LatestSound(g)'
    BY <2>1, <2>2, ZenonT(20) DEF OwnedInv, LatestSound
  <2>4. p.active /\ p.sequence = latest /\ durManifest = manifest
    BY <1>2, <2>1, PublisherFacts, ZenonT(20) DEF OwnedInv, LatestSound, Inv, PublishSound
  <2>5. SameSound'
    <3> SUFFICES ASSUME manifest.sequence = p.sequence, manifest.segments # <<>> PROVE manifest' = manifest
      BY <2>1, <2>4, ZenonT(20) DEF SameSound
    <3>1. p.compact /\ Len(manifest.segments) = 1
      BY <2>2, <2>4, ZenonT(20) DEF OwnedInv, LatestSound
    <3>2. manifest.segments[1] = manifest.sequence
      BY <3>1, ZenonT(20) DEF Inv, ManifestSound, ChainSound
    <3>3. manifest.segments \in Seq(Seqs) /\ manifest \in Manifest
      BY ManifestTypes, Zenon DEF Inv, TypeOK
    <3>4. manifest.segments = <<p.sequence>>
      BY <3>1, <3>2, <3>3
    <3>5. manifest' = [sequence |-> p.sequence, segments |-> <<p.sequence>>]
      BY <2>1, <3>1
    <3> HIDE DEF p
    <3> QED
      BY <3>3, <3>4, <3>5, Zenon DEF Manifest
  <2> QED
    BY <2>2, <2>3, <2>5, ZenonT(20) DEF OwnedInv, DirtySound
<1>3. CASE f \in publishing /\ FinishPublish(f)
  <2>1. /\ UNCHANGED <<manifest, durManifest, latest>> /\ stage = "walCut"
        /\ dirty' = (IF SnapshotIsCurrent(f) THEN {} ELSE dirty)
        /\ prepared' = [prepared EXCEPT ![f] = NotPrepared]
    BY <1>3, ZenonT(20) DEF FinishPublish
  <2>2. p.active /\ p.sequence = latest /\ \A g \in Flushers \ {f} : ~prepared[g].active
    BY <1>3, PublisherFacts, ZenonT(20) DEF OwnedInv, LatestSound, LengthInv, AloneSound
  <2>3. \A g \in Flushers : ~prepared'[g].active
    BY <1>0, <2>1, <2>2, ZenonT(20) DEF Inv, TypeOK
  <2>4. dirty' = {}
    BY <2>1, <2>2, ZenonT(20) DEF SnapshotIsCurrent
  <2> QED
    BY <2>1, <2>3, <2>4, ZenonT(20) DEF OwnedInv, LatestSound, DirtySound, SameSound
<1> QED
  BY <1>1, <1>2, <1>3, ZenonT(20) DEF PublishStep

(* Crashes and recovery: replay applies only what comes after the manifest. *)
LEMMA OwnedRecovery ==
    ASSUME Inv, OwnedInv, RecoveryStep \/ Crash \/ PowerLoss
    PROVE  OwnedInv'
<1>1. CASE Crash \/ PowerLoss
  <2>1. /\ status' = "closed" /\ prepared' = [f \in Flushers |-> NotPrepared]
        /\ UNCHANGED <<manifest, durManifest>> \/ durManifest' = manifest'
    BY <1>1, ZenonT(20) DEF Crash, PowerLoss, LoseMemory
  <2>2. \A f \in Flushers : ~prepared'[f].active
    BY <2>1, Zenon DEF NotPrepared
  <2>3. SameSound'
    BY <2>1, ZenonT(20) DEF OwnedInv, SameSound
  <2> QED
    BY <2>1, <2>2, <2>3, ZenonT(20) DEF OwnedInv, LatestSound, DirtySound
<1>2. CASE RecoveryStep
  <2>1. UNCHANGED <<manifest, durManifest, stage, prepared>> /\ status # "up"
    BY <1>2, ZenonT(20) DEF RecoveryStep, Open, LoadSegment, BeginReplay, ReplayFrame, ReplayTorn, OpenDone,
         flushVars, diskVars
  <2>2. \A f \in Flushers : ~prepared'[f].active
    BY <2>1, ZenonT(20) DEF Inv, ControlSound
  <2>3. DirtySound'
    <3>1. CASE Open \/ LoadSegment
      <4>1. status' \in {"loading", "failed"}
        BY <3>1, ZenonT(20) DEF Open, LoadSegment
      <4> QED
        BY <4>1, ZenonT(20) DEF DirtySound
    <3>2. CASE BeginReplay
      <4>1. dirty' = {}
        BY <3>2, ZenonT(20) DEF BeginReplay, Inv, MemorySound
      <4> QED
        BY <4>1, Zenon DEF DirtySound
    <3>3. CASE ReplayFrame
      <4>1. status = "replaying" /\ manifest.sequence <= latest
        BY <3>3, ZenonT(20) DEF ReplayFrame, Inv, MemorySound
      <4>2. (latest' = latest + 1) \/ (latest' = latest /\ dirty' = dirty)
        BY <3>3, ZenonT(20) DEF ReplayFrame
      <4>3. CASE latest' = latest + 1
        <5>1. manifest'.sequence < latest'
          BY <2>1, <4>1, <4>3, NumberFacts DEF Inv
        <5> QED
          BY <5>1, Zenon DEF DirtySound
      <4> QED
        BY <2>1, <4>1, <4>2, <4>3, ZenonT(20) DEF OwnedInv, DirtySound
    <3>4. CASE ReplayTorn \/ OpenDone
      <4>1. status = "replaying" /\ UNCHANGED <<latest, dirty>>
        BY <3>4, ZenonT(20) DEF ReplayTorn, OpenDone
      <4> QED
        BY <2>1, <4>1, ZenonT(20) DEF OwnedInv, DirtySound
    <3> QED
      BY <1>2, <3>1, <3>2, <3>3, <3>4, Zenon DEF RecoveryStep
  <2> QED
    BY <2>1, <2>2, <2>3, ZenonT(20) DEF OwnedInv, LatestSound, SameSound
<1> QED
  BY <1>1, <1>2, Zenon

(* Every step keeps OwnedInv. *)
LEMMA OwnedStep ==
    ASSUME OwnedCallers, Inv, LengthInv, OwnedInv, [OwnedNext]_vars
    PROVE  OwnedInv'
<1>1. ASSUME NEW f \in Flushers, PublishStep(f) PROVE OwnedInv'
  BY <1>1, OwnedPublish, Zenon
<1>2. ASSUME NoneActive, NEW f \in Flushers, Flush(f) PROVE OwnedInv'
  BY <1>2, OwnedSnapshot, Zenon
<1> QED
  BY <1>1, <1>2, OwnedWrite, OwnedRecovery, ZenonT(20) DEF OwnedNext, SystemStep, NoneActive

LEMMA OwnedInit == Init => OwnedInv
<1> SUFFICES ASSUME Init PROVE OwnedInv
  OBVIOUS
<1>1. /\ manifest = durManifest /\ dirty = {} /\ prepared = [f \in Flushers |-> NotPrepared]
  BY Zenon DEF Init
<1>2. \A f \in Flushers : ~prepared[f].active
  BY <1>1, Zenon DEF NotPrepared
<1> QED
  BY <1>1, <1>2, ZenonT(20) DEF OwnedInv, LatestSound, DirtySound, SameSound

(* The invariants of a PersistentCollection used directly. *)
THEOREM OwnedInvariant ==
    OwnedCallers /\ OwnedSpec => [](Inv /\ SearchInv /\ ReopenInv /\ LengthInv /\ OwnedInv)
<1> SUFFICES ASSUME OwnedCallers
             PROVE  OwnedSpec => [](Inv /\ SearchInv /\ ReopenInv /\ LengthInv /\ OwnedInv)
  OBVIOUS
<1> DEFINE All == Inv /\ SearchInv /\ ReopenInv /\ LengthInv /\ OwnedInv
<1>1. ASSUME All, [OwnedNext]_vars PROVE All'
  <2>1. "cleanup" \notin IoFaults /\ ShortManifests
    BY Zenon DEF OwnedCallers, ShortManifests
  <2>2. [AloneNext]_vars
    BY <1>1, OwnedIsAlone, Zenon
  <2>3. [SafeNext]_vars
    BY <2>2, AloneIsSafe, Zenon
  <2>4. Inv' /\ SearchInv'
    BY <1>1, <2>1, <2>3, NextInv, SearchNext, Zenon
  <2>5. ReopenInv' /\ LengthInv'
    BY <1>1, <2>1, <2>2, <2>3, OpenNext, LengthNext, Zenon
  <2>6. OwnedInv'
    BY <1>1, OwnedStep, Zenon
  <2> QED
    BY <2>4, <2>5, <2>6, Zenon
<1>2. Init => All
  BY InitInv, SearchInit, OpenInit, LengthInit, OwnedInit, Zenon
<1> QED
  BY <1>1, <1>2, PTL DEF OwnedSpec

(* Under OwnedCallers a PersistentCollection loses nothing acknowledged. *)
THEOREM OwnedAckedRecovered == OwnedCallers /\ OwnedSpec => []AckedRecovered
<1>1. Inv => AckedRecovered
  BY TypeFacts, Zenon DEF Inv, AckedRecovered, AckedSound, MemorySound
<1> QED
  BY <1>1, OwnedInvariant, PTL

(* If every delta it flushes has a live point, and no publication fails after the rename of *)
(* the manifest, a PersistentCollection opens again after any crash or power loss.  Without *)
(* the first condition it may not: flushes that only delete are never compacted, and the    *)
(* manifest outgrows what read_manifest accepts.                                            *)
THEOREM OwnedOpensUnlessFlushesOnlyDelete == OwnedCallers /\ OwnedSpec => []OpenNeverFails
<1>1. Inv /\ ReopenInv /\ LengthInv => OpenNeverFails
  BY ShortOpens, Zenon
<1> QED
  BY <1>1, OwnedInvariant, PTL

(* Its steps are safe. *)
LEMMA OwnedIsSafe ==
    ASSUME Inv, LengthInv, OwnedInv, [OwnedNext]_vars
    PROVE  [SafeNext]_vars
  BY OwnedIsAlone, AloneIsSafe, Zenon

(* Under OwnedCallers its published files are immutable, a second flush of the same state *)
(* included.                                                                              *)
THEOREM OwnedSegmentsImmutable == OwnedCallers /\ OwnedSpec => SegmentsImmutable
<1> SUFFICES ASSUME OwnedCallers PROVE OwnedSpec => SegmentsImmutable
  OBVIOUS
<1>1. Inv /\ LengthInv /\ OwnedInv /\ [OwnedNext]_vars =>
        [\A n \in ManifestNames(durManifest) : segments'[n] = segments[n]]_<<segments, durManifest>>
  BY OwnedIsSafe, FilesKept, ZenonT(20)
<1> QED
  BY <1>1, OwnedInvariant, PTL DEF OwnedSpec, SegmentsImmutable

(* Under OwnedCallers it is a durable map too, even if a flush repeats a sequence. *)
THEOREM OwnedIsDurableMap == OwnedCallers /\ OwnedSpec => IsDurableMap
<1> SUFFICES ASSUME OwnedCallers PROVE OwnedSpec => IsDurableMap
  OBVIOUS
<1>1. Inv /\ LengthInv /\ OwnedInv /\ [OwnedNext]_vars => [Map!Next]_(Map!vars)
  BY OwnedIsSafe, MapStep, Zenon
<1> QED
  BY <1>1, MapInit, OwnedInvariant, PTL DEF OwnedSpec, IsDurableMap, Map!Spec

(* And, under OwnedCallers, its searches are exact. *)
THEOREM OwnedSearchExact == OwnedCallers /\ OwnedSpec => []SearchExact
<1>1. Inv /\ SearchInv => SearchExact
  BY SearchIsExact, Zenon
<1> QED
  BY <1>1, OwnedInvariant, PTL
===============================================================================
