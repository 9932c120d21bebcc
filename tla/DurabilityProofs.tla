--------------------------- MODULE DurabilityProofs ---------------------------
(***************************************************************************)
(* publish_flush, its failures, crashes and recovery keep Inv.  So Inv is  *)
(* an invariant of SharedSpec, and so is AckedRecovered: when the callers  *)
(* respect FreshSequence and the clean-up after a failed append succeeds,  *)
(* no interleaving of writes, flushes, I/O errors, crashes and power       *)
(* losses makes an open collection forget an acknowledged write or show    *)
(* anything but a committed state.                                         *)
(***************************************************************************)
EXTENDS CollectionProofs

(* publish_flush. *)

(* The segment file appears under its final name: a published file is only replaced by itself. *)
LEMMA PublishSegmentInv ==
    ASSUME Inv, NEW f \in Flushers, PublishSegment(f)
    PROVE  Inv'
<1> DEFINE q == prepared[f].sequence
<1>0. /\ status = "up" /\ stage = "free" /\ prepared[f].active
      /\ ~(manifest.sequence > q)
      /\ segments' = [segments EXCEPT ![q] = SegmentFile(prepared[f])]
      /\ previous' = manifest /\ publishing' = {f} /\ stage' = "segment"
      /\ UNCHANGED <<wal, durWal, manifest, durManifest, durSegments, prepared, status, pos, points,
                     latest, dirty, indexes, committed, begun, acked>>
  BY Zenon DEF PublishSegment, Unlocked, Stale, memoryVars, historyVars
<1>1. TypeOK'
  BY PublishTypeOK, Zenon DEF Inv, PublishStep
<1>2. publishing = {} /\ q \in Seqs /\ q \in Nat /\ manifest.sequence <= q
  BY <1>0, PreparedFacts, NumberFacts DEF Inv, ControlSound
<1>3. segments'[q] = SegmentFile(prepared[f]) /\ \A n \in Seqs \ {q} : segments'[n] = segments[n]
  BY <1>0, <1>2, Zenon DEF Inv, TypeOK
<1>4. ASSUME NEW m \in {manifest, durManifest}, NEW p \in DOMAIN m.segments
      PROVE  segments'[m.segments[p]] = segments[m.segments[p]]
  <2>1. m.segments[p] \in Seqs /\ m.segments[p] \in ManifestNames(m)
    BY TypeFacts DEF Inv, ManifestNames
  <2>2. CASE m.segments[p] = q
    BY <1>0, <1>2, <1>3, <2>1, <2>2, ZenonT(60) DEF Inv, PreparedSound
  <2> QED
    BY <1>3, <2>1, <2>2, Zenon
<1> HIDE DEF q
<1>5. ControlSound' /\ BegunSound' /\ WalSound' /\ AckedSound' /\ MemorySound'
  BY <1>0, <1>2, ZenonT(60) DEF Inv, ControlSound, BegunSound, WalSound, AckedSound, MemorySound
<1>6. ManifestSound'
  <2>1. ASSUME NEW m \in {manifest, durManifest}
        PROVE  ChainSound(m, segments', durSegments', committed')
    <3>1. ChainSound(m, segments, durSegments, committed) /\ m.segments \in Seq(Seqs)
      BY ManifestTypes, Zenon DEF Inv, ManifestSound
    <3>2. \A p \in DOMAIN m.segments :
            /\ segments'[m.segments[p]] = segments[m.segments[p]]
            /\ durSegments'[m.segments[p]] = segments'[m.segments[p]]
            /\ committed'[m.segments[p]] = committed[m.segments[p]]
      <4>1. durSegments' = durSegments /\ committed' = committed
        BY <1>0, Zenon
      <4>2. \A p \in DOMAIN m.segments : durSegments[m.segments[p]] = segments[m.segments[p]]
        BY <3>1, ChainNames
      <4>3. \A p \in DOMAIN m.segments : segments'[m.segments[p]] = segments[m.segments[p]]
        BY <1>4, Zenon
      <4> QED
        BY <4>1, <4>2, <4>3, Zenon
    <3> QED
      BY <3>1, <3>2, ChainStable, Zenon
  <2> QED
    BY <1>0, <2>1, Zenon DEF Inv, ManifestSound
<1>7. ASSUME NEW g \in Flushers PROVE PreparedSound(g)'
  <2>1. \A m \in {manifest, durManifest} : \A n \in ManifestNames(m) : segments'[n] = segments[n]
    BY <1>4 DEF ManifestNames
  <2> QED
    BY <1>0, <1>2, <2>1 DEF Inv, PreparedSound
<1>8. (\A g \in publishing : PublishSound(g))'
  BY <1>0, <1>2, <1>3, Zenon DEF PublishSound, BeforeRename, AfterRename, q
<1> QED
  BY <1>1, <1>5, <1>6, <1>7, <1>8, Zenon DEF Inv

(* sync_directory after the segment and after the manifest: both names become durable. *)
LEMMA SyncInv ==
    ASSUME Inv, NEW f \in publishing, SyncSegment \/ SyncManifest
    PROVE  Inv'
<1>0. /\ durManifest' = manifest /\ durSegments' = segments
      /\ \/ stage = "segment" /\ stage' = "segmentSynced"
         \/ stage = "manifest" /\ stage' = "manifestSynced"
      /\ UNCHANGED <<wal, durWal, manifest, segments, status, pos, points, latest, dirty, indexes,
                     publishing, previous, prepared, committed, begun, acked>>
  BY Zenon DEF SyncSegment, SyncManifest, SyncDirectory, Step, memoryVars, historyVars
<1>1. TypeOK'
  BY PublisherFacts, PublishTypeOK, SMT, Zenon, SMTT(30) DEF Inv, PublishStep
<1>2. ControlSound' /\ BegunSound' /\ WalSound' /\ MemorySound'
  BY <1>0, PublisherFacts, Zenon DEF Inv, ControlSound, BegunSound, WalSound, MemorySound
<1>3. ManifestSound'
  <2>1. ChainSound(manifest, segments, durSegments, committed) /\ manifest.segments \in Seq(Seqs)
    BY ManifestTypes, Zenon DEF Inv, ManifestSound
  <2>2. ChainSound(manifest, segments, segments, committed)
    BY <2>1, ChainStable, Zenon
  <2>3. manifest.sequence <= manifest.sequence
    BY NumberFacts DEF Inv
  <2>4. indexes # <<>> => manifest.segments # <<>>
    BY ZenonT(20) DEF Inv, ManifestSound
  <2> QED
    BY <1>0, <2>2, <2>3, <2>4, ZenonT(20) DEF ManifestSound
<1>4. ASSUME NEW g \in Flushers PROVE PreparedSound(g)'
  BY <1>0, ZenonT(60) DEF Inv, PreparedSound, BeforeRename
<1>5. (\A g \in publishing : PublishSound(g))'
  BY <1>0, PublisherFacts, Zenon DEF PublishSound, BeforeRename, AfterRename
<1>6. AckedSound'
  BY <1>0, PublisherFacts, NumberFacts DEF Inv, AckedSound, ManifestSound
<1> QED
  BY <1>1, <1>2, <1>3, <1>4, <1>5, <1>6, Zenon DEF Inv

(* publish_manifest writes its temporary file. *)
LEMMA WriteManifestInv ==
    ASSUME Inv, NEW f \in publishing, WriteManifest
    PROVE  Inv'
<1>0. /\ stage = "segmentSynced" /\ stage' = "manifestTmp"
      /\ UNCHANGED <<wal, durWal, manifest, durManifest, segments, durSegments, status, pos, points,
                     latest, dirty, indexes, publishing, previous, prepared, committed, begun, acked>>
  BY Zenon DEF WriteManifest, Step, memoryVars, historyVars
<1>1. TypeOK'
  BY PublisherFacts, PublishTypeOK, Zenon DEF Inv, PublishStep
<1>2. ControlSound' /\ BegunSound' /\ ManifestSound' /\ WalSound' /\ AckedSound' /\ MemorySound'
  <2>1. stage \notin {"free", "append"} /\ status = "up"
    BY PublisherFacts, Zenon
  <2>2. ControlSound' /\ WalSound'
    BY <1>0, <2>1, Zenon DEF Inv, ControlSound, WalSound
  <2>3. BegunSound' /\ ManifestSound' /\ AckedSound'
    BY <1>0, Zenon DEF Inv, BegunSound, ManifestSound, AckedSound
  <2>4. MemorySound'
    BY <1>0, Zenon DEF Inv, MemorySound
  <2> QED
    BY <2>2, <2>3, <2>4, Zenon
<1>3. ASSUME NEW g \in Flushers PROVE PreparedSound(g)'
  BY <1>0, ZenonT(60) DEF Inv, PreparedSound, BeforeRename
<1>4. (\A g \in publishing : PublishSound(g))'
  BY <1>0, PublisherFacts, Zenon DEF PublishSound, BeforeRename, AfterRename
<1> QED
  BY <1>1, <1>2, <1>3, <1>4, Zenon DEF Inv

(* The segment of a compacting flush is the whole committed state. *)
LEMMA FullSegment ==
    ASSUME TypeOK, NEW g \in Flushers, prepared[g].active, prepared[g].compact, PreparedSound(g)
    PROVE  SegmentFile(prepared[g]) =
             [kind |-> "full", ids |-> Ids, points |-> committed[prepared[g].sequence]]
<1>1. prepared[g].ids = Ids /\ prepared[g].points = committed[prepared[g].sequence]
  BY Zenon DEF PreparedSound
<1>2. prepared[g].points \in [Ids -> Seqs]
  BY PreparedFacts, Zenon DEF PointMap
<1>3. SegmentPoints(prepared[g]) = prepared[g].points
  BY <1>1, <1>2, Zenon DEF SegmentPoints
<1> QED
  BY <1>1, <1>3, Zenon DEF SegmentFile

(* MANIFEST names the new segment. *)
LEMMA RenameManifestInv ==
    ASSUME Inv, NEW f \in publishing, RenameManifest(f)
    PROVE  Inv'
<1> DEFINE p == prepared[f]
           q == prepared[f].sequence
           old == manifest.segments
<1>0. /\ stage = "manifestTmp" /\ stage' = "manifest"
      /\ manifest' = [sequence |-> q,
                      segments |-> Append(IF p.compact THEN <<>> ELSE previous.segments, q)]
      /\ UNCHANGED <<wal, durWal, durManifest, segments, durSegments, status, pos, points, latest,
                     dirty, indexes, publishing, previous, prepared, committed, begun, acked>>
  BY Zenon DEF RenameManifest, Step, memoryVars, historyVars
<1>1. TypeOK'
  BY PublisherFacts, PublishTypeOK, Zenon DEF Inv, PublishStep
<1>2. /\ f \in Flushers /\ publishing = {f} /\ p.active /\ status = "up"
      /\ PreparedSound(f) /\ PublishSound(f) /\ manifest.sequence <= latest
  BY PublisherFacts, Zenon
<1>3. /\ previous = manifest /\ manifest.sequence <= q
      /\ segments[q] = SegmentFile(p) /\ durSegments[q] = SegmentFile(p)
  BY <1>0, <1>2, ZenonT(20) DEF PublishSound, BeforeRename
<1>4. /\ q \in Seqs /\ q \in Nat /\ q <= latest /\ p.compact \in BOOLEAN
      /\ manifest.sequence \in Nat /\ latest \in Nat /\ old \in Seq(Seqs)
      /\ durManifest.sequence \in Nat /\ acked \in Nat
  BY <1>2, PreparedFacts, TypeFacts, ZenonT(20) DEF Inv, PreparedSound
<1>5. manifest'.sequence = q /\ manifest'.segments = Append(IF p.compact THEN <<>> ELSE old, q)
  BY <1>0, <1>3, ZenonT(20)
<1>6. ChainSound(manifest, segments, durSegments, committed) /\ durManifest.sequence <= manifest.sequence
  BY Zenon DEF Inv, ManifestSound
<1>7. /\ p.compact => manifest'.segments = <<q>>
      /\ manifest'.segments \in Seq(Seqs) /\ manifest'.segments # <<>>
      /\ manifest'.segments[Len(manifest'.segments)] = q
  <2> DEFINE base == IF p.compact THEN <<>> ELSE old
  <2>1. base \in Seq(Seqs)
    BY <1>4
  <2>2. manifest'.segments = Append(base, q) /\ (p.compact => base = <<>>)
    BY <1>5, Zenon
  <2> HIDE DEF base, p, q, old
  <2>3. /\ Append(base, q) \in Seq(Seqs) /\ Len(Append(base, q)) = Len(base) + 1
        /\ Append(base, q)[Len(base) + 1] = q /\ Len(base) \in Nat
    BY <1>4, <2>1, AppendFacts
  <2>4. Append(base, q) # <<>>
    BY <2>3
  <2>5. base = <<>> => Append(base, q) = <<q>>
    BY <1>4
  <2> QED
    BY <2>2, <2>3, <2>4, <2>5, Zenon
<1>8. ~p.compact => /\ Len(manifest'.segments) = Len(old) + 1
                    /\ \A k \in 1 .. Len(old) : manifest'.segments[k] = old[k]
                    /\ manifest'.segments[Len(old) + 1] = q
                    /\ Len(old) \in Nat /\ DOMAIN old = 1 .. Len(old)
                    /\ DOMAIN manifest'.segments = 1 .. Len(old) + 1
  <2> SUFFICES ASSUME ~p.compact
               PROVE  /\ Len(Append(old, q)) = Len(old) + 1
                      /\ \A k \in 1 .. Len(old) : Append(old, q)[k] = old[k]
                      /\ Append(old, q)[Len(old) + 1] = q
                      /\ Len(old) \in Nat /\ DOMAIN old = 1 .. Len(old)
                      /\ DOMAIN Append(old, q) = 1 .. Len(old) + 1
    BY <1>5, Zenon
  <2> HIDE DEF old, q
  <2> QED
    BY <1>4
<1>9. ~p.compact => /\ old # <<>> /\ Len(old) \in DOMAIN old /\ old[Len(old)] = manifest.sequence
                    /\ manifest.sequence < q
  <2> SUFFICES ASSUME ~p.compact
               PROVE  /\ old # <<>> /\ Len(old) \in DOMAIN old /\ old[Len(old)] = manifest.sequence
                      /\ manifest.sequence < q
    OBVIOUS
  <2>1. old # <<>>
    BY <1>2, ZenonT(20) DEF PreparedSound
  <2>2. Len(old) \in DOMAIN old /\ old[Len(old)] = manifest.sequence
    BY <1>4, <1>6, <2>1, ChainEnd, SMT, Zenon, SMTT(30)
  <2>3. manifest.sequence \in ManifestNames(manifest)
    BY <2>2, SMT, Zenon, SMTT(30) DEF ManifestNames
  <2>4. q \notin ManifestNames(manifest)
    BY <1>0, <1>2, ZenonT(20) DEF PreparedSound, BeforeRename
  <2> QED
    BY <1>3, <1>4, <2>1, <2>2, <2>3, <2>4
<1>10. ChainSound(manifest', segments, durSegments, committed)
  <2>1. CASE p.compact
    <3>1. SegmentFile(p) = [kind |-> "full", ids |-> Ids, points |-> committed[q]]
      BY <1>2, <2>1, FullSegment, ZenonT(20) DEF Inv
    <3>2. manifest'.segments = <<q>> /\ DOMAIN manifest'.segments = {1} /\ manifest'.segments[1] = q
      BY <1>7, <2>1
    <3>3. \A k \in DOMAIN manifest'.segments : k = 1 /\ manifest'.segments[k] = q
      BY <3>2, Zenon
    <3>4. q <= q /\ ~(1 > 1)
      BY <1>4
    <3> HIDE DEF p, q, old
    <3> QED
      BY <1>3, <1>5, <1>7, <3>1, <3>3, <3>4, ZenonT(20) DEF ChainSound
  <2>2. CASE ~p.compact
    <3> DEFINE new == manifest'.segments
               end == Len(old) + 1
    <3>1. \A k \in DOMAIN new : k = end \/ k \in DOMAIN old
      BY <1>8, <2>2
    <3>2. ASSUME NEW k \in DOMAIN old
          PROVE  /\ new[k] = old[k] /\ new[k] <= q /\ durSegments[new[k]] = segments[new[k]]
                 /\ k = 1 => segments[new[k]] =
                               [kind |-> "full", ids |-> Ids, points |-> committed[new[k]]]
                 /\ k > 1 => /\ new[k - 1] < new[k]
                             /\ segments[new[k]].kind = "delta"
                             /\ \A i \in Ids :
                                  IF i \in segments[new[k]].ids
                                  THEN segments[new[k]].points[i] = committed[new[k]][i]
                                  ELSE committed[new[k - 1]][i] = committed[new[k]][i]
      <4>1. new[k] = old[k] /\ (k > 1 => k - 1 \in DOMAIN old /\ new[k - 1] = old[k - 1])
        <5> HIDE DEF old, new
        <5>1. k \in 1 .. Len(old) /\ (k > 1 => k - 1 \in 1 .. Len(old))
          BY <1>8, <2>2
        <5> QED
          BY <1>8, <2>2, <5>1, Zenon DEF new
      <4>2. old[k] \in Nat /\ old[k] <= manifest.sequence
        BY <1>4, <1>6, ChainNames, Zenon
      <4>3. new[k] <= q
        BY <1>3, <1>4, <4>1, <4>2
      <4>4. /\ durSegments[old[k]] = segments[old[k]]
            /\ k = 1 => segments[old[k]] =
                          [kind |-> "full", ids |-> Ids, points |-> committed[old[k]]]
            /\ k > 1 => /\ old[k - 1] < old[k]
                        /\ segments[old[k]].kind = "delta"
                        /\ \A i \in Ids :
                             IF i \in segments[old[k]].ids
                             THEN segments[old[k]].points[i] = committed[old[k]][i]
                             ELSE committed[old[k - 1]][i] = committed[old[k]][i]
        BY <1>6, ZenonT(20) DEF ChainSound
      <4> QED
        BY <4>1, <4>3, <4>4, ZenonT(20)
    <3>3. /\ new[end] = q /\ new[end] <= q /\ durSegments[q] = segments[q]
          /\ end > 1 /\ new[end - 1] = manifest.sequence /\ new[end - 1] < new[end]
      BY <1>3, <1>4, <1>8, <1>9, <2>2, SMT, Zenon, SMTT(30)
    <3>4. segments[q].kind = "delta" /\ segments[q].ids = p.ids
          /\ segments[q].points = SegmentPoints(p)
      BY <1>3, <2>2 DEF SegmentFile
    <3>5. \A i \in Ids : IF i \in segments[q].ids
                         THEN segments[q].points[i] = committed[q][i]
                         ELSE committed[manifest.sequence][i] = committed[q][i]
      <4>1. p.points = committed[q]
        BY <1>2, ZenonT(20) DEF PreparedSound
      <4>2. manifest.sequence \in manifest.sequence .. q
        BY <1>3, <1>4, SMT, Zenon, SMTT(30)
      <4>3. \A i \in Ids \ p.ids : committed[manifest.sequence][i] = committed[q][i]
        BY <1>2, <2>2, <4>2, ZenonT(20) DEF PreparedSound
      <4>4. \A i \in p.ids : i \in Ids => SegmentPoints(p)[i] = p.points[i]
        BY SMT, Zenon, SMTT(30) DEF SegmentPoints
      <4> QED
        BY <3>4, <4>1, <4>3, <4>4, SMT, Zenon, SMTT(30)
    <3>6. manifest'.sequence = q /\ new # <<>> /\ new[Len(new)] = q
      BY <1>5, <1>7, SMT, Zenon, SMTT(30)
    <3> HIDE DEF new, end
    <3>7. ASSUME NEW k \in DOMAIN new
          PROVE  /\ new[k] <= q /\ durSegments[new[k]] = segments[new[k]]
                 /\ k = 1 => segments[new[k]] =
                               [kind |-> "full", ids |-> Ids, points |-> committed[new[k]]]
                 /\ k > 1 => /\ new[k - 1] < new[k]
                             /\ segments[new[k]].kind = "delta"
                             /\ \A i \in Ids :
                                  IF i \in segments[new[k]].ids
                                  THEN segments[new[k]].points[i] = committed[new[k]][i]
                                  ELSE committed[new[k - 1]][i] = committed[new[k]][i]
      <4>1. CASE k = end
        <5>1. ~(k = 1)
          BY <3>3, <4>1
        <5> QED
          BY <3>3, <3>4, <3>5, <4>1, <5>1, ZenonT(20)
      <4>2. CASE k \in DOMAIN old
        BY <3>2, <4>2, Zenon
      <4> QED
        BY <3>1, <4>1, <4>2, Zenon
    <3> QED
      BY <3>6, <3>7, ZenonT(20) DEF ChainSound, new
  <2> QED
    BY <1>4, <2>1, <2>2, Zenon
<1>11. ManifestSound'
  <2>1. durManifest.sequence <= manifest'.sequence
    BY <1>3, <1>4, <1>5, <1>6
  <2>2. ChainSound(durManifest, segments, durSegments, committed)
    BY Zenon DEF Inv, ManifestSound
  <2> QED
    BY <1>0, <1>7, <1>10, <2>1, <2>2, ZenonT(20) DEF ManifestSound
<1>12. ASSUME NEW g \in Flushers PROVE PreparedSound(g)'
  <2> SUFFICES ASSUME prepared[g].active PROVE PreparedSound(g)'
    BY <1>0, ZenonT(20) DEF PreparedSound
  <2>1. \A t \in q .. prepared[g].sequence : t \in manifest.sequence .. prepared[g].sequence
    <3>1. prepared[g].sequence \in Nat
      BY PreparedFacts, Zenon DEF Inv
    <3> QED
      BY <1>3, <1>4, <3>1, LaterRange, ZenonT(20)
  <2>2. ~prepared[g].compact =>
          \A i \in Ids \ prepared[g].ids : \A t \in manifest'.sequence .. prepared[g].sequence :
            committed[t][i] = committed[prepared[g].sequence][i]
    <3>1. PreparedSound(g)
      BY Zenon DEF Inv
    <3> HIDE DEF q
    <3> QED
      BY <1>5, <2>1, <3>1, ZenonT(20) DEF PreparedSound
  <2>3. ASSUME g # f, prepared[g].sequence \in ManifestNames(manifest')
        PROVE  prepared[g].compact /\ segments[prepared[g].sequence] = SegmentFile(prepared[g])
    <3>1. CASE prepared[g].sequence = q
      <4>1. prepared[g].compact /\ p.compact
        <5>1. PreparedSound(f) /\ PreparedSound(g)
          BY PublisherFacts, Zenon DEF Inv
        <5>2. prepared[f].sequence = prepared[g].sequence /\ f \in Flushers /\ prepared[f].active
          BY <1>2, <3>1, Zenon
        <5> HIDE DEF q
        <5> QED
          BY <2>3, <5>1, <5>2, Zenon DEF PreparedSound
      <4> QED
        BY <1>2, <1>3, <3>1, <4>1, FullSegment, ZenonT(20) DEF Inv
    <3>2. CASE prepared[g].sequence # q
      <4>1. \A n \in ManifestNames(manifest') : n = q \/ n \in ManifestNames(manifest)
        <5>1. CASE p.compact
          <6>1. manifest'.segments = <<q>>
            BY <1>7, <5>1, Zenon
          <6> QED
            BY <6>1, OneName
        <5>2. CASE ~p.compact
          <6>1. \A k \in DOMAIN manifest'.segments : manifest'.segments[k] = q \/
                  (k \in DOMAIN old /\ manifest'.segments[k] = old[k])
            BY <1>8, <5>2, SMTT(60)
          <6> QED
            BY <6>1, Zenon DEF ManifestNames
        <5> QED
          BY <1>4, <5>1, <5>2, Zenon
      <4>2. prepared[g].sequence \in ManifestNames(manifest)
        BY <2>3, <3>2, <4>1, Zenon
      <4> QED
        BY <1>2, <2>3, <4>2, ZenonT(20) DEF Inv, PreparedSound
    <3> QED
      BY <3>1, <3>2, Zenon
  <2>4. g # f => /\ g \notin publishing
                 /\ prepared[g].sequence \in ManifestNames(durManifest) =>
                      prepared[g].compact /\ segments[prepared[g].sequence] = SegmentFile(prepared[g])
    BY <1>2, Zenon DEF Inv, PreparedSound
  <2>5. stage' \notin BeforeRename
    BY <1>0, Zenon DEF BeforeRename
  <2>6. UNCHANGED <<prepared, latest, committed, segments, durManifest, publishing>>
    BY <1>0, Zenon
  <2>7. /\ prepared[g].sequence <= latest /\ prepared[g].points = committed[prepared[g].sequence]
        /\ prepared[g].compact => prepared[g].ids = Ids
        /\ \A h \in Flushers \ {g} :
             prepared[h].active /\ prepared[h].sequence = prepared[g].sequence => prepared[g].compact
    BY ZenonT(20) DEF Inv, PreparedSound
  <2>8. manifest'.segments # <<>>
    BY <1>7, Zenon
  <2>9. (g \notin publishing \/ stage' \in BeforeRename) =>
          \A m \in {manifest', durManifest} : prepared[g].sequence \in ManifestNames(m) =>
            prepared[g].compact /\ segments[prepared[g].sequence] = SegmentFile(prepared[g])
    <3>1. g \notin publishing => g # f
      BY <1>2, Zenon
    <3> QED
      BY <2>3, <2>4, <2>5, <3>1, ZenonT(20)
  <2> HIDE DEF p, q, old
  <2> QED
    BY <2>2, <2>6, <2>7, <2>8, <2>9, ZenonT(20) DEF PreparedSound
<1>13. (\A g \in publishing : PublishSound(g))'
  BY <1>0, <1>2, <1>5, <1>7, ZenonT(20) DEF PublishSound, BeforeRename, AfterRename
<1>14. ControlSound' /\ WalSound'
  BY <1>0, <1>2, SMT, Zenon, SMTT(30) DEF Inv, ControlSound, WalSound
<1>15. BegunSound'
  BY <1>0, <1>4, <1>5, TypeFacts, SMTT(60) DEF Inv, BegunSound
<1>16. MemorySound'
  <2>1. manifest'.sequence <= latest /\ \A t \in q .. latest : t \in manifest.sequence .. latest
    BY <1>3, <1>4, <1>5
  <2>2. latest <= manifest.sequence => latest <= manifest'.sequence
    BY <1>3, <1>4, <1>5
  <2> QED
    BY <1>0, <1>2, <1>5, <2>1, <2>2, ZenonT(60) DEF Inv, MemorySound
<1>17. AckedSound'
  <2>1. acked <= manifest.sequence => acked <= manifest'.sequence
    BY <1>3, <1>4, <1>5
  <2> QED
    BY <1>0, <2>1, SMT, Zenon, SMTT(30) DEF Inv, AckedSound
<1> QED
  BY <1>1, <1>11, <1>12, <1>13, <1>14, <1>15, <1>16, <1>17, Zenon DEF Inv

(* The WAL is emptied: everything it held is in the durable manifest. *)
LEMMA TruncateWalInv ==
    ASSUME Inv, NEW f \in publishing, TruncateWal(f)
    PROVE  Inv'
<1> DEFINE q == prepared[f].sequence
<1>0. /\ stage = "manifestSynced" /\ stage' = "walCut"
      /\ wal' = IF latest = q THEN <<>> ELSE wal
      /\ UNCHANGED <<durWal, manifest, durManifest, segments, durSegments, status, pos, points,
                     latest, dirty, indexes, publishing, previous, prepared, committed, begun, acked>>
  BY Zenon DEF TruncateWal, SnapshotIsCurrent, Step, memoryVars, historyVars
<1>1. TypeOK'
  BY PublisherFacts, PublishTypeOK, SMT, Zenon, SMTT(30) DEF Inv, PublishStep
<1>2. /\ publishing = {f} /\ status = "up" /\ manifest.sequence = q /\ durManifest = manifest
      /\ PublishSound(f)
  BY <1>0, PublisherFacts, ZenonT(20) DEF PublishSound, AfterRename
<1>3. ControlSound' /\ ManifestSound'
  BY <1>0, <1>2, ZenonT(20) DEF Inv, ControlSound, ManifestSound
<1>4. ASSUME NEW g \in Flushers PROVE PreparedSound(g)'
  BY <1>0, ZenonT(60) DEF Inv, PreparedSound, BeforeRename
<1>5. (\A g \in publishing : PublishSound(g))'
  BY <1>0, <1>2, ZenonT(20) DEF PublishSound, BeforeRename, AfterRename
<1>6. CASE latest # q
  <2>1. BegunSound' /\ WalSound' /\ AckedSound' /\ MemorySound'
    BY <1>0, <1>2, <1>6, Zenon DEF Inv, BegunSound, WalSound, AckedSound, MemorySound
  <2> QED
    BY <1>1, <1>3, <1>4, <1>5, <2>1, Zenon DEF Inv
<1>7. CASE latest = q
  <2>1. wal' = <<>> /\ DOMAIN wal' = {}
    BY <1>0, <1>7
  <2>2. BegunSound'
    BY <1>0, <2>1, Zenon DEF Inv, BegunSound
  <2>3. WalSound'
    <3>1. LogSound(wal', committed')
      BY <2>1, ZenonT(20) DEF LogSound
    <3> QED
      BY <1>0, <1>2, <2>1, <3>1, Zenon DEF Inv, WalSound
  <2>4. latest <= manifest.sequence /\ acked <= latest
    BY <1>2, <1>7, TypeFacts DEF Inv, AckedSound
  <2>5. MemorySound'
    BY <1>0, <1>2, <2>4, ZenonT(20) DEF Inv, MemorySound
  <2>6. AckedSound'
    BY <1>0, <1>2, <2>4, NumberFacts, ZenonT(20) DEF Inv, AckedSound
  <2> QED
    BY <1>1, <1>3, <1>4, <1>5, <2>2, <2>3, <2>5, <2>6, ZenonT(20) DEF Inv
<1> QED
  BY <1>6, <1>7, Zenon

-------------------------------------------------------------------------------
(* Recovery. *)

(* open_with_cuda starts from nothing. *)
LEMMA OpenInv ==
    ASSUME Inv, Open
    PROVE  Inv'
<1>0. /\ status = "closed" /\ status' \in {"loading", "failed"}
      /\ UNCHANGED <<wal, durWal, manifest, durManifest, segments, durSegments, pos, points, latest,
                     dirty, indexes, stage, publishing, previous, prepared, committed, begun, acked>>
  BY Zenon DEF Open, diskVars, flushVars, historyVars
<1>1. TypeOK'
  BY RecoveryTypeOK, SMT, Zenon, SMTT(30) DEF Inv, RecoveryStep
<1>2. ControlSound' /\ BegunSound' /\ ManifestSound' /\ WalSound' /\ AckedSound'
  BY <1>0, Zenon DEF Inv, ControlSound, BegunSound, ManifestSound, WalSound, AckedSound
<1>3. (\A f \in Flushers : PreparedSound(f))' /\ (\A f \in publishing : PublishSound(f))'
  BY <1>0 DEF Inv, PreparedSound, PublishSound
<1>4. MemorySound'
  <2>1. pos = 1 /\ points = NoPoints /\ latest = 0 /\ dirty = {} /\ committed[0] = NoPoints
    BY <1>0, Zenon DEF Inv, ControlSound, MemorySound
  <2>2. pos <= Len(manifest.segments) + 1
    <3>1. Len(manifest.segments) \in Nat
      BY TypeFacts
    <3> QED
      BY <2>1, <3>1
  <2> QED
    BY <1>0, <2>1, <2>2, Zenon DEF MemorySound
<1> QED
  BY <1>1, <1>2, <1>3, <1>4, Zenon DEF Inv

(* One segment is loaded: the memory is the committed state at its sequence. *)
LEMMA LoadSegmentInv ==
    ASSUME Inv, LoadSegment
    PROVE  Inv'
<1> DEFINE n == manifest.segments[pos]
           file == segments[n]
<1>0. /\ status = "loading" /\ pos <= Len(manifest.segments)
      /\ UNCHANGED <<wal, durWal, manifest, durManifest, segments, durSegments, dirty, stage,
                     publishing, previous, prepared, committed, begun, acked>>
      /\ \/ status' = "failed"
         \/ /\ status' = "loading" /\ points' = PointsAfter(file)
            /\ latest' = n /\ pos' = pos + 1
  BY ZenonT(20) DEF LoadSegment, diskVars, flushVars, historyVars
<1>1. TypeOK'
  BY RecoveryTypeOK, Zenon DEF Inv, RecoveryStep
<1>2. /\ pos \in Nat /\ pos >= 1 /\ pos \in DOMAIN manifest.segments /\ n \in Seqs /\ n \in Nat
      /\ Len(manifest.segments) \in Nat /\ n <= manifest.sequence
      /\ manifest.segments \in Seq(Seqs) /\ ChainSound(manifest, segments, durSegments, committed)
  <2>1. pos \in Nat /\ pos >= 1
    BY DEF Inv, TypeOK
  <2>2. Len(manifest.segments) \in Nat /\ pos \in DOMAIN manifest.segments
    BY <1>0, <2>1
  <2>3. manifest.segments \in Seq(Seqs) /\ ChainSound(manifest, segments, durSegments, committed)
    BY TypeFacts, Zenon DEF Inv, ManifestSound
  <2> QED
    BY <2>1, <2>2, <2>3, ChainNames, Zenon
<1>3. stage = "free" /\ publishing = {} /\ \A f \in Flushers : ~prepared[f].active
  BY <1>0, ZenonT(20) DEF Inv, ControlSound
<1>4. (\A f \in Flushers : PreparedSound(f))' /\ (\A f \in publishing : PublishSound(f))'
  BY <1>0, <1>3, ZenonT(20) DEF PreparedSound
<1>5. WalSound' /\ AckedSound'
  <2>1. status # "up" /\ status' # "up"
    BY <1>0, ZenonT(20)
  <2>2. UNCHANGED <<wal, durWal, manifest, durManifest, stage, committed, acked>>
    BY <1>0, ZenonT(20)
  <2> QED
    BY <1>3, <2>1, <2>2, ZenonT(20) DEF Inv, WalSound, AckedSound
<1>6. ControlSound'
  BY <1>0, <1>3, Zenon DEF ControlSound
<1>7. ManifestSound'
  <2>1. manifest.segments # <<>>
    BY <1>0, <1>2
  <2> QED
    BY <1>0, <2>1, Zenon DEF Inv, ManifestSound
<1>8. BegunSound'
  <2>1. latest' <= begun
    <3>1. CASE latest' = n
      <4>1. TypeOK /\ manifest.sequence <= begun /\ n <= manifest.sequence
        BY <1>2, ZenonT(20) DEF Inv, BegunSound
      <4> QED
        BY <1>2, <3>1, <4>1, NumberFacts, LeqTrans, ZenonT(20)
    <3>2. CASE latest' # n
      BY <1>0, <3>2, ZenonT(20) DEF Inv, BegunSound, LoadSegment
    <3> QED
      BY <3>1, <3>2, Zenon
  <2> QED
    BY <1>0, <2>1, Zenon DEF Inv, BegunSound
<1>9. MemorySound'
  <2>1. CASE status' = "failed"
    BY <1>0, <2>1, Zenon DEF Inv, MemorySound
  <2>2. CASE status' # "failed"
    <3>0. points' = PointsAfter(file) /\ latest' = n /\ pos' = pos + 1 /\ status' = "loading"
      BY <1>0, <2>2, ZenonT(20)
    <3>1. pos' <= Len(manifest.segments) + 1 /\ pos' # 1 /\ pos' - 1 = pos
      <4>1. pos \in Nat /\ pos >= 1 /\ pos <= Len(manifest.segments) /\ pos' = pos + 1
        BY <1>0, <1>2, <3>0, Zenon
      <4>2. Len(manifest.segments) \in Nat
        BY TypeFacts
      <4> QED
        BY <4>1, <4>2
    <3>2. committed[n] \in [Ids -> Seqs]
      BY <1>2, Zenon DEF Inv, TypeOK, PointMap
    <3>3. PointsAfter(file) = committed[n]
      <4>1. CASE pos = 1
        <5>1. file = [kind |-> "full", ids |-> Ids, points |-> committed[n]]
          BY <1>2, <4>1, ZenonT(20) DEF ChainSound
        <5>2. file.ids = Ids /\ file.points = committed[n]
          BY <5>1
        <5> HIDE DEF n, file
        <5> QED
          BY <3>2, <5>2, Zenon DEF PointsAfter
      <4>2. CASE pos > 1
        <5>1. points = committed[manifest.segments[pos - 1]]
          BY <1>0, <4>2 DEF Inv, MemorySound
        <5>2. \A i \in Ids : IF i \in file.ids THEN file.points[i] = committed[n][i]
                             ELSE committed[manifest.segments[pos - 1]][i] = committed[n][i]
          BY <1>2, <4>2, ZenonT(20) DEF ChainSound
        <5> HIDE DEF n, file
        <5> QED
          BY <3>2, <5>1, <5>2, Zenon DEF PointsAfter
      <4> QED
        BY <1>2, <4>1, <4>2
    <3> QED
      BY <1>0, <3>0, <3>1, <3>3, ZenonT(20) DEF Inv, MemorySound
  <2> QED
    BY <2>1, <2>2, Zenon
<1> QED
  BY <1>1, <1>4, <1>5, <1>6, <1>7, <1>8, <1>9, Zenon DEF Inv

(* The segments are loaded: the memory is the committed state at the manifest's sequence. *)
LEMMA BeginReplayInv ==
    ASSUME Inv, BeginReplay
    PROVE  Inv'
<1>0. /\ status = "loading" /\ pos > Len(manifest.segments) /\ status' = "replaying" /\ pos' = 1
      /\ UNCHANGED <<wal, durWal, manifest, durManifest, segments, durSegments, points, latest,
                     dirty, indexes, stage, publishing, previous, prepared, committed, begun, acked>>
  BY Zenon DEF BeginReplay, diskVars, flushVars, historyVars
<1>1. TypeOK'
  BY RecoveryTypeOK, Zenon DEF Inv, RecoveryStep
<1>2. ControlSound' /\ BegunSound' /\ ManifestSound' /\ WalSound' /\ AckedSound'
  BY <1>0, Zenon DEF Inv, ControlSound, BegunSound, ManifestSound, WalSound, AckedSound
<1>3. (\A f \in Flushers : PreparedSound(f))' /\ (\A f \in publishing : PublishSound(f))'
  BY <1>0, ZenonT(20) DEF Inv, PreparedSound, ControlSound
<1>4. latest = manifest.sequence
  <2>1. Len(manifest.segments) \in Nat /\ pos \in Nat /\ pos = Len(manifest.segments) + 1
    <3>1. TypeOK /\ pos <= Len(manifest.segments) + 1
      BY <1>0, ZenonT(20) DEF Inv, MemorySound
    <3>2. pos \in Nat /\ Len(manifest.segments) \in Nat
      BY <3>1, PositionFacts, Zenon
    <3> QED
      BY <1>0, <3>1, <3>2
  <2>2. CASE manifest.segments = <<>>
    <3>1. manifest.sequence = 0
      BY <2>2, ZenonT(20) DEF Inv, ManifestSound, ChainSound
    <3>2. pos = 1
      BY <2>1, <2>2, SMT, Zenon, SMTT(30)
    <3> QED
      BY <1>0, <3>1, <3>2, Zenon DEF Inv, MemorySound
  <2>3. CASE manifest.segments # <<>>
    <3>1. pos # 1 /\ pos - 1 = Len(manifest.segments)
      BY <2>1, <2>3, TypeFacts
    <3>2. manifest.segments[Len(manifest.segments)] = manifest.sequence
      BY <2>3, ZenonT(20) DEF Inv, ManifestSound, ChainSound
    <3> QED
      BY <1>0, <3>1, <3>2, Zenon DEF Inv, MemorySound
  <2> QED
    BY <2>2, <2>3, Zenon
<1>5. MemorySound'
  <2>1. latest \in Nat /\ points = committed[latest] /\ Len(wal) \in Nat
    BY <1>0, TypeFacts, Zenon DEF Inv, MemorySound
  <2>2. \A t \in manifest.sequence .. latest : committed[t] = points
    BY <1>4, <2>1
  <2>3. 1 <= Len(wal) + 1 /\ 1 .. 1 - 1 = {} /\ manifest.sequence <= latest /\ latest <= manifest.sequence
    BY <1>4, <2>1
  <2> QED
    BY <1>0, <2>1, <2>2, <2>3, Zenon DEF Inv, MemorySound
<1> QED
  BY <1>1, <1>2, <1>3, <1>5, Zenon DEF Inv
(* One frame is replayed: the next one is applied, an old one skipped, a gap refused. *)
LEMMA ReplayFrameInv ==
    ASSUME Inv, ReplayFrame
    PROVE  Inv'
<1> DEFINE frame == wal[pos]
           next == frame.sequence = latest + 1
<1>0. /\ status = "replaying" /\ pos <= Len(wal) /\ frame # Torn /\ pos' = pos + 1
      /\ status' = IF frame.sequence > latest + 1 THEN "failed" ELSE status
      /\ points' = IF next THEN ApplyFrame(points, frame) ELSE points
      /\ latest' = IF next THEN frame.sequence ELSE latest
      /\ dirty' = IF next THEN dirty \union frame.ids ELSE dirty
      /\ UNCHANGED <<wal, durWal, manifest, durManifest, segments, durSegments, indexes, stage,
                     publishing, previous, prepared, committed, begun, acked>>
  BY Zenon DEF ReplayFrame, diskVars, flushVars, historyVars
<1>1. TypeOK'
  BY RecoveryTypeOK, Zenon DEF Inv, RecoveryStep
<1>2. /\ pos \in Nat /\ pos >= 1 /\ pos \in DOMAIN wal /\ Len(wal) \in Nat
      /\ frame.sequence \in Nat /\ latest \in Nat /\ manifest.sequence \in Nat
      /\ manifest.sequence <= latest /\ points = committed[latest]
  <2>1. manifest.sequence <= latest /\ points = committed[latest]
    BY <1>0, ZenonT(20) DEF Inv, MemorySound
  <2>2. pos \in Nat /\ pos >= 1
    BY PositionFacts, Zenon DEF Inv
  <2>3. pos \in DOMAIN wal /\ Len(wal) \in Nat
    <3>1. Len(wal) \in Nat /\ DOMAIN wal = 1 .. Len(wal)
      BY TypeFacts
    <3> QED
      BY <1>0, <3>1, PositionFacts, Zenon DEF Inv
  <2>4. frame.sequence \in Nat /\ latest \in Nat /\ manifest.sequence \in Nat
    BY <2>3, TypeFacts, Zenon DEF Inv
  <2> QED
    BY <2>1, <2>2, <2>3, <2>4, Zenon
<1>3. next => points' = committed[latest'] /\ latest' = latest + 1
  <2>1. committed[frame.sequence] = ApplyFrame(committed[frame.sequence - 1], frame)
    BY <1>0, <1>2, Zenon DEF Inv, WalSound, LogSound
  <2>2. next => frame.sequence - 1 = latest
    BY <1>2
  <2> QED
    BY <1>0, <1>2, <2>1, <2>2, Zenon
<1>4. stage = "free" /\ publishing = {} /\ \A f \in Flushers : ~prepared[f].active
  BY <1>0, Zenon DEF Inv, ControlSound
<1> HIDE DEF frame, next
<1>5. (\A f \in Flushers : PreparedSound(f))' /\ (\A f \in publishing : PublishSound(f))'
  BY <1>0, <1>4, ZenonT(20) DEF PreparedSound
<1>6. ControlSound' /\ ManifestSound'
  BY <1>0, <1>4, Zenon DEF Inv, ControlSound, ManifestSound
<1>7. WalSound' /\ AckedSound'
  <2>1. status # "up" /\ status' # "up"
    BY <1>0, Zenon
  <2> QED
    BY <1>0, <1>4, <2>1, ZenonT(20) DEF Inv, WalSound, AckedSound
<1>8. BegunSound'
  <2>1. latest' <= begun
    BY <1>0, <1>2, Zenon DEF Inv, BegunSound, frame
  <2> QED
    BY <1>0, <2>1, Zenon DEF Inv, BegunSound
<1>9. MemorySound'
  <2>1. CASE status' = "failed"
    BY <1>0, <2>1, ZenonT(20) DEF Inv, MemorySound
  <2>2. CASE next
    <3>1. ASSUME NEW i \in Ids \ dirty', NEW t \in manifest.sequence .. latest'
          PROVE  committed[t][i] = points'[i]
      <4>1. CASE t = latest'
        BY <1>3, <2>2, <4>1, Zenon
      <4>2. CASE t # latest'
        <5>1. t \in manifest.sequence .. latest
          BY <1>2, <1>3, <2>2, <4>2
        <5>2. i \notin dirty /\ i \notin frame.ids
          BY <1>0, <2>2, Zenon
        <5>3. committed[t][i] = points[i]
          BY <1>0, <5>1, <5>2, ZenonT(20) DEF Inv, MemorySound
        <5>4. points'[i] = points[i]
          BY <1>0, <2>2, <5>2, Zenon DEF ApplyFrame
        <5> QED
          BY <5>3, <5>4, Zenon
      <4> QED
        BY <4>1, <4>2, Zenon
    <3>2. \A k \in 1 .. pos' - 1 : wal[k] # Torn /\ wal[k].sequence <= latest'
      <4>1. \A k \in 1 .. pos' - 1 : k = pos \/ k \in 1 .. pos - 1
        BY <1>0, <1>2
      <4>2. \A k \in 1 .. pos - 1 : k \in DOMAIN wal /\ wal[k] # Torn /\ wal[k].sequence <= latest
        BY <1>0, <1>2 DEF Inv, MemorySound
      <4>3. wal[pos] # Torn /\ wal[pos].sequence = latest'
        BY <1>0, <2>2, Zenon DEF frame
      <4>4. \A k \in 1 .. pos - 1 : wal[k] # Torn /\ wal[k].sequence <= latest'
        <5>1. latest' = latest + 1 /\ latest \in Nat
          BY <1>2, <1>3, <2>2, Zenon
        <5>2. \A k \in DOMAIN wal : wal[k].sequence \in Nat
          BY TypeFacts, Zenon DEF Inv
        <5> QED
          BY <4>2, <5>1, <5>2
      <4>5. latest' <= latest'
        BY <1>2, <1>3, <2>2
      <4> QED
        BY <4>1, <4>3, <4>4, <4>5, Zenon
    <3>3. /\ pos' <= Len(wal) + 1 /\ manifest.sequence <= latest'
          /\ \E k \in DOMAIN wal : wal[k].sequence = latest'
      <4>1. pos' = pos + 1 /\ wal[pos].sequence = latest'
        BY <1>0, <2>2, Zenon DEF frame
      <4>2. latest' = latest + 1 /\ pos \in 1 .. Len(wal)
        BY <1>2, <1>3, <2>2, TypeFacts, SMT, Zenon, SMTT(30)
      <4> QED
        BY <1>2, <4>1, <4>2
    <3> QED
      BY <1>0, <1>3, <2>2, <3>1, <3>2, <3>3, ZenonT(60) DEF Inv, MemorySound
  <2>3. CASE ~next /\ status' # "failed"
    <3>0. frame.sequence <= latest /\ UNCHANGED <<status, points, latest, dirty>>
      BY <1>0, <1>2, <2>3, SMT, Zenon, SMTT(30) DEF next
    <3>1. \A k \in 1 .. pos' - 1 : wal[k] # Torn /\ wal[k].sequence <= latest
      <4>1. \A k \in 1 .. pos' - 1 : k = pos \/ k \in 1 .. pos - 1
        BY <1>0, <1>2
      <4> QED
        BY <1>0, <3>0, <4>1, Zenon DEF Inv, MemorySound, frame
    <3>2. pos' <= Len(wal) + 1
      BY <1>0, <1>2
    <3> QED
      BY <1>0, <3>0, <3>1, <3>2, Zenon DEF Inv, MemorySound
  <2> QED
    BY <2>1, <2>2, <2>3, Zenon
<1> QED
  BY <1>1, <1>5, <1>6, <1>7, <1>8, <1>9, Zenon DEF Inv

(* The torn end of the log is cut off: it carried no acknowledged write. *)
LEMMA ReplayTornInv ==
    ASSUME Inv, ReplayTorn
    PROVE  Inv'
<1>0. /\ status = "replaying" /\ pos <= Len(wal) /\ wal[pos] = Torn
      /\ \/ wal' = SubSeq(wal, 1, pos - 1) /\ status' = status
         \/ pos < Len(wal)
      /\ UNCHANGED <<durWal, manifest, durManifest, segments, durSegments, pos, points, latest,
                     dirty, indexes, stage, publishing, previous, prepared, committed, begun, acked>>
  BY Zenon DEF ReplayTorn, BytesFollow, flushVars, historyVars
<1>1. TypeOK'
  BY RecoveryTypeOK, SMT, Zenon, SMTT(30) DEF Inv, RecoveryStep
<1>2. pos \in Nat /\ pos >= 1 /\ pos \in DOMAIN wal /\ Len(wal) \in Nat
  BY <1>0, TypeFacts DEF Inv, TypeOK
<1>3. pos = Len(wal)
  BY <1>0, <1>2, ZenonT(20) DEF Inv, WalSound, LogSound
<1>4. wal' = SubSeq(wal, 1, pos - 1) /\ status' = status
  BY <1>0, <1>2, <1>3, SMT, Zenon, SMTT(30)
<1>5. /\ Len(wal') = pos - 1 /\ DOMAIN wal' = 1 .. pos - 1
      /\ \A k \in DOMAIN wal' : k \in DOMAIN wal /\ k < pos /\ wal'[k] = wal[k]
  <2>1. pos - 1 \in 0 .. Len(wal) /\ wal \in Seq(Frame)
    BY <1>2, <1>3, TypeFacts DEF Inv
  <2>2. /\ SubSeq(wal, 1, pos - 1) \in Seq(Frame) /\ Len(SubSeq(wal, 1, pos - 1)) = pos - 1
        /\ \A k \in 1 .. pos - 1 : SubSeq(wal, 1, pos - 1)[k] = wal[k]
    BY <2>1, PrefixType, Zenon
  <2>3. Len(wal') = pos - 1 /\ DOMAIN wal' = 1 .. pos - 1
    BY <1>4, <2>2
  <2> QED
    BY <1>2, <1>3, <1>4, <2>2, <2>3
<1>6. wal[pos].sequence = 0 /\ \A k \in DOMAIN wal : k = pos \/ k \in DOMAIN wal'
  BY <1>0, <1>2, <1>3, <1>5 DEF Torn
<1>7. ControlSound' /\ ManifestSound' /\ stage = "free"
  BY <1>0, <1>4, ZenonT(20) DEF Inv, ControlSound, ManifestSound
<1>8. (\A f \in Flushers : PreparedSound(f))' /\ (\A f \in publishing : PublishSound(f))'
  BY <1>0, ZenonT(20) DEF Inv, PreparedSound, ControlSound
<1>9. BegunSound'
  BY <1>0, <1>5, ZenonT(20) DEF Inv, BegunSound
<1>10. MemorySound'
  <2>1. latest <= manifest.sequence \/ \E k \in DOMAIN wal' : wal'[k].sequence = latest
    <3>1. latest <= manifest.sequence \/ \E k \in DOMAIN wal : wal[k].sequence = latest
      BY <1>0, ZenonT(20) DEF Inv, MemorySound
    <3> QED
      BY <1>5, <1>6, <3>1, NumberFacts, ZeroLeast, ZenonT(20) DEF Inv
  <2>2. pos <= Len(wal') + 1 /\ \A k \in 1 .. pos - 1 : wal'[k] # Torn /\ wal'[k].sequence <= latest
    BY <1>0, <1>2, <1>5 DEF Inv, MemorySound
  <2> QED
    BY <1>0, <1>4, <2>1, <2>2, ZenonT(20) DEF Inv, MemorySound
<1>11. WalSound'
  <2>1. \A k \in DOMAIN wal' : wal'[k] # Torn
    BY <1>0, <1>5, Zenon DEF Inv, MemorySound
  <2>2. LogSound(wal', committed)
    BY <1>5, <2>1, ZenonT(20) DEF Inv, WalSound, LogSound
  <2>3. \A k \in DOMAIN durWal : \/ durWal[k].sequence <= manifest.sequence
                                 \/ \E j \in DOMAIN wal' : durWal[k].sequence <= wal'[j].sequence
    <3> SUFFICES ASSUME NEW k \in DOMAIN durWal, ~(durWal[k].sequence <= manifest.sequence)
                 PROVE  \E j \in DOMAIN wal' : durWal[k].sequence <= wal'[j].sequence
      OBVIOUS
    <3>1. PICK j \in DOMAIN wal : durWal[k].sequence <= wal[j].sequence
      BY <1>0, Zenon DEF Inv, WalSound
    <3>2. j # pos
      BY <1>6, <3>1, FrameFacts DEF Inv
    <3> QED
      BY <1>5, <1>6, <3>1, <3>2, SMT, Zenon, SMTT(30)
  <2> QED
    BY <1>0, <1>4, <1>7, <2>2, <2>3, ZenonT(20) DEF Inv, WalSound
<1>12. AckedSound'
  <2>1. acked <= manifest.sequence \/ \E k \in DOMAIN wal' : acked <= wal'[k].sequence
    <3> SUFFICES ASSUME ~(acked <= manifest.sequence)
                 PROVE  \E k \in DOMAIN wal' : acked <= wal'[k].sequence
      OBVIOUS
    <3>1. PICK k \in DOMAIN wal : acked <= wal[k].sequence
      BY Zenon DEF Inv, AckedSound
    <3>2. k # pos
      BY <1>6, <3>1, TypeFacts DEF Inv
    <3> QED
      BY <1>5, <1>6, <3>1, <3>2, Zenon
  <2>2. ASSUME NEW k \in DOMAIN wal, k <= Len(durWal), \A j \in 1 .. k : wal[j] = durWal[j],
               acked <= wal[k].sequence
        PROVE  \/ acked <= durManifest.sequence
               \/ \E l \in DOMAIN wal' : /\ l <= Len(durWal)
                                         /\ \A j \in 1 .. l : wal'[j] = durWal[j]
                                         /\ acked <= wal'[l].sequence
    <3>1. CASE k = pos
      BY <1>6, <2>2, <3>1, TypeFacts DEF Inv
    <3>2. CASE k # pos
      <4>1. k \in DOMAIN wal' /\ 1 .. k \subseteq DOMAIN wal'
        BY <1>2, <1>5, <1>6, <3>2
      <4> QED
        BY <1>5, <2>2, <4>1, Zenon
    <3> QED
      BY <3>1, <3>2, Zenon
  <2>3. Durability = "Sync" =>
          \/ acked <= durManifest.sequence
          \/ \E l \in DOMAIN wal' : /\ l <= Len(durWal)
                                    /\ \A j \in 1 .. l : wal'[j] = durWal[j]
                                    /\ acked <= wal'[l].sequence
    BY <2>2, Zenon DEF Inv, AckedSound
  <2> QED
    BY <1>0, <1>4, <2>1, <2>3, ZenonT(20) DEF AckedSound
<1> QED
  BY <1>1, <1>7, <1>8, <1>9, <1>10, <1>11, <1>12, Zenon DEF Inv
(* open returns: every frame of the log is in memory. *)
LEMMA OpenDoneInv ==
    ASSUME Inv, OpenDone
    PROVE  Inv'
<1>0. /\ status = "replaying" /\ pos > Len(wal) /\ status' = "up" /\ pos' = 1
      /\ UNCHANGED <<wal, durWal, manifest, durManifest, segments, durSegments, points, latest,
                     dirty, indexes, stage, publishing, previous, prepared, committed, begun, acked>>
  BY Zenon DEF OpenDone, diskVars, flushVars, historyVars
<1>1. TypeOK'
  BY RecoveryTypeOK, Zenon DEF Inv, RecoveryStep
<1>2. stage = "free" /\ publishing = {} /\ manifest.sequence <= latest
  BY <1>0, ZenonT(20) DEF Inv, ControlSound, MemorySound
<1>3. \A k \in DOMAIN wal : wal[k] # Torn /\ wal[k].sequence <= latest
  <2>1. DOMAIN wal \subseteq 1 .. pos - 1
    BY <1>0 DEF Inv, TypeOK
  <2> QED
    BY <1>0, <2>1, ZenonT(20) DEF Inv, MemorySound
<1>4. \A k \in DOMAIN durWal : durWal[k].sequence <= latest
  <2> TAKE k \in DOMAIN durWal
  <2>1. CASE durWal[k].sequence <= manifest.sequence
    BY <1>2, <2>1, FrameFacts DEF Inv
  <2>2. ASSUME NEW j \in DOMAIN wal, durWal[k].sequence <= wal[j].sequence
        PROVE  durWal[k].sequence <= latest
    BY <1>3, <2>2, FrameFacts DEF Inv
  <2> QED
    BY <1>0, <2>1, <2>2, Zenon DEF Inv, WalSound
<1>5. acked <= latest
  <2>1. CASE acked <= manifest.sequence
    BY <1>2, <2>1, NumberFacts DEF Inv
  <2>2. ASSUME NEW j \in DOMAIN wal, acked <= wal[j].sequence
        PROVE  acked <= latest
    BY <1>3, <2>2, TypeFacts DEF Inv
  <2> QED
    BY <2>1, <2>2, Zenon DEF Inv, AckedSound
<1>6. ControlSound' /\ BegunSound' /\ ManifestSound' /\ MemorySound'
  BY <1>0, <1>2, Zenon DEF Inv, ControlSound, BegunSound, ManifestSound, MemorySound
<1>7. (\A f \in Flushers : PreparedSound(f))' /\ (\A f \in publishing : PublishSound(f))'
  BY <1>0, <1>2, ZenonT(20) DEF Inv, PreparedSound, ControlSound
<1>8. WalSound' /\ AckedSound'
  BY <1>0, <1>2, <1>3, <1>4, <1>5, Zenon DEF Inv, WalSound, AckedSound
<1> QED
  BY <1>1, <1>6, <1>7, <1>8, Zenon DEF Inv

-------------------------------------------------------------------------------
(* The rest of a flush, crashes, and the theorems. *)

(* A stuttering step. *)
LEMMA StutterInv ==
    ASSUME Inv, UNCHANGED vars
    PROVE  Inv'
<1>1. UNCHANGED <<wal, durWal, manifest, durManifest, segments, durSegments, manifestTmp, status, pos,
                  points, latest, dirty, indexes, metadataIndex, stage, publishing, previous, prepared,
                  committed, begun, acked, crashes, faults>>
  BY DEF vars, diskVars, memoryVars, flushVars, historyVars
<1>2. TypeOK'
  BY <1>1, ZenonT(20) DEF Inv, TypeOK
<1>3. ControlSound'
  BY <1>1, ZenonT(20) DEF Inv, ControlSound
<1>4. BegunSound'
  BY <1>1, ZenonT(20) DEF Inv, BegunSound
<1>5. ManifestSound'
  BY <1>1, ZenonT(20) DEF Inv, ManifestSound
<1>6. MemorySound'
  BY <1>1, ZenonT(20) DEF Inv, MemorySound
<1>7. WalSound'
  BY <1>1, ZenonT(20) DEF Inv, WalSound
<1>8. AckedSound'
  BY <1>1, ZenonT(20) DEF Inv, AckedSound
<1>9. ASSUME NEW f \in Flushers PROVE PreparedSound(f)'
  BY <1>1, ZenonT(60) DEF Inv, PreparedSound
<1>10. ASSUME NEW f \in publishing PROVE PublishSound(f)'
  BY <1>1, ZenonT(20) DEF Inv, PublishSound
<1> QED
  BY <1>1, <1>2, <1>3, <1>4, <1>5, <1>6, <1>7, <1>8, <1>9, <1>10, ZenonT(20) DEF Inv

(* A prepared flush that is not being published stays sound while the records of the others *)
(* change, as long as none of them takes its sequence.                                      *)
LEMMA PreparedLeft ==
    ASSUME NEW g \in Flushers, PreparedSound(g), prepared'[g] = prepared[g], g \notin publishing,
           UNCHANGED <<manifest, durManifest, segments, committed, latest>>,
           \A h \in Flushers \ {g} :
             prepared[g].active /\ prepared'[h].active /\ prepared'[h].sequence = prepared[g].sequence =>
               prepared[g].compact
    PROVE  PreparedSound(g)'
BY ZenonT(200) DEF PreparedSound

(* flush_snapshot: the prepared flush is the state at latest, under a name that nobody else *)
(* uses, or that has the same contents already.                                             *)
LEMMA SnapshotInv ==
    ASSUME Inv, NEW f \in Flushers, SafeName, FlushSnapshot(f)
    PROVE  Inv'
<1>0. /\ status = "up" /\ stage = "free"
      /\ UNCHANGED <<wal, durWal, manifest, durManifest, segments, durSegments, status, pos, points,
                     latest, dirty, indexes, stage, publishing, previous, committed, begun, acked>>
  BY DEF FlushSnapshot, Unlocked, diskVars, memoryVars, historyVars
<1>1. TypeOK'
  BY SnapshotTypeOK DEF Inv
<1>2. publishing = {} /\ manifest.sequence <= latest /\ points = committed[latest]
  BY <1>0 DEF Inv, ControlSound, MemorySound
<1>3. /\ prepared'[f].active /\ prepared'[f].sequence = latest
      /\ prepared'[f].compact = Compacts
      /\ prepared'[f].ids = (IF Compacts THEN Ids ELSE dirty) /\ prepared'[f].points = points
      /\ \A g \in Flushers \ {f} : prepared'[g] = prepared[g]
  BY DEF Inv, TypeOK, FlushSnapshot
<1>4. ControlSound' /\ BegunSound' /\ ManifestSound' /\ WalSound' /\ AckedSound' /\ MemorySound'
  <2>1. ControlSound'
    BY <1>0, <1>2 DEF Inv, ControlSound
  <2>2. BegunSound' /\ ManifestSound' /\ AckedSound'
    BY <1>0, ZenonT(60) DEF Inv, BegunSound, ManifestSound, AckedSound
  <2>3. WalSound' /\ MemorySound'
    BY <1>0, ZenonT(60) DEF Inv, WalSound, MemorySound
  <2> QED
    BY <2>1, <2>2, <2>3
<1>5. manifest.segments = <<>> => Compacts /\ durManifest.segments = <<>>
  BY ZenonT(60) DEF Inv, ManifestSound, Compacts
<1>6. PreparedSound(f)'
  <2>1. ~Compacts => /\ manifest.segments # <<>>
                     /\ \A i \in Ids \ dirty : \A t \in manifest.sequence .. latest :
                          committed[t][i] = committed[latest][i]
    BY <1>0, <1>2, <1>5, ZenonT(60) DEF Inv, MemorySound
  <2>2. \A g \in Flushers \ {f} : prepared[g].active /\ prepared[g].sequence = latest => Compacts
    BY <1>5, ZenonT(20) DEF SafeName, FreshSequence
  <2>3. ASSUME FreshSequence
        PROVE  \A m \in {manifest, durManifest} : latest \notin ManifestNames(m)
    <3>1. CASE manifest.segments = <<>>
      BY <1>5, <3>1 DEF ManifestNames
    <3>2. CASE manifest.segments # <<>>
      <4>1. latest > manifest.sequence
        BY <2>3, <3>2 DEF FreshSequence
      <4>2. ASSUME NEW m \in {manifest, durManifest}, NEW p \in DOMAIN m.segments
            PROVE  m.segments[p] # latest
        <5>1. m.segments \in Seq(Seqs) /\ ChainSound(m, segments, durSegments, committed)
              /\ m.sequence \in Nat /\ m.sequence <= manifest.sequence
          BY TypeFacts, NextNat, ZenonT(20) DEF Inv, ManifestSound
        <5>2. m.segments[p] \in Nat /\ m.segments[p] <= m.sequence
          BY <5>1, ChainNames
        <5> QED
          <6>1. m.segments[p] <= manifest.sequence
            BY <5>1, <5>2, NumberFacts, LeqTrans, Zenon DEF Inv
          <6>2. manifest.sequence \in Nat /\ latest \in Nat
            BY NumberFacts, Zenon DEF Inv
          <6> QED
            BY <4>1, <5>2, <6>1, <6>2
      <4> QED
        BY <4>2 DEF ManifestNames
    <3> QED
      BY <3>1, <3>2, ZenonT(60)
  <2>4. ASSUME ~FreshSequence, NEW m \in {manifest, durManifest}, latest \in ManifestNames(m)
        PROVE  Compacts /\ segments[latest] = SegmentFile(prepared'[f])
    <3>1. Compacts /\ segments[latest] = [kind |-> "full", ids |-> Ids, points |-> points]
      BY <2>4, ZenonT(20) DEF SafeName
    <3>2. SegmentPoints(prepared'[f]) = points
      <4>1. points = [i \in Ids |-> points[i]]
        BY DEF Inv, TypeOK, PointMap
      <4> QED
        BY <1>3, <3>1, <4>1, ZenonT(20) DEF SegmentPoints
    <3> QED
      BY <1>3, <3>1, <3>2, ZenonT(20) DEF SegmentFile
  <2>5. latest <= latest
    BY NumberFacts DEF Inv
  <2>6. \A m \in {manifest, durManifest} : latest \in ManifestNames(m) =>
          Compacts /\ segments[latest] = SegmentFile(prepared'[f])
    BY <2>3, <2>4, ZenonT(20)
  <2>7. \A m \in {manifest', durManifest'} : prepared'[f].sequence \in ManifestNames(m) =>
          prepared'[f].compact /\ segments'[prepared'[f].sequence] = SegmentFile(prepared'[f])
    BY <1>0, <1>3, <2>6, ZenonT(20)
  <2> QED
    BY <1>0, <1>2, <1>3, <2>1, <2>2, <2>5, <2>7, ZenonT(20) DEF PreparedSound
<1>7. ASSUME NEW g \in Flushers \ {f} PROVE PreparedSound(g)'
  <2>1. prepared[g].active /\ prepared[g].sequence = latest => prepared[g].compact
    BY <1>0, <1>5, ZenonT(20) DEF Inv, SafeName, FreshSequence, PreparedSound
  <2> QED
    <3>1. PreparedSound(g) /\ prepared'[g] = prepared[g] /\ g \notin publishing
      BY <1>2, <1>3, ZenonT(20) DEF Inv
    <3>2. \A h \in Flushers \ {g} :
            prepared[g].active /\ prepared'[h].active /\ prepared'[h].sequence = prepared[g].sequence =>
              prepared[g].compact
      BY <1>3, <2>1, <3>1, ZenonT(20) DEF PreparedSound
    <3> QED
      BY <1>0, <3>1, <3>2, PreparedLeft, ZenonT(20)
<1>8. (\A g \in publishing : PublishSound(g))'
  BY <1>0, <1>2
<1> QED
  BY <1>1, <1>4, <1>6, <1>7, <1>8 DEF Inv

(* A flush is given up: one prepared record less, and nobody publishes afterwards. *)
LEMMA ReleaseInv ==
    ASSUME Inv, TypeOK', NEW f \in Flushers, status = "up", publishing \subseteq {f},
           stage # "append", stage' = "free", publishing' = {},
           prepared' = [prepared EXCEPT ![f] = NotPrepared],
           UNCHANGED <<wal, durWal, manifest, durManifest, segments, durSegments, status, pos,
                       points, latest, dirty, indexes, committed, begun, acked>>
    PROVE  Inv'
<1>1. ~prepared'[f].active /\ \A g \in Flushers \ {f} : prepared'[g] = prepared[g]
  <2>1. prepared \in [Flushers -> Prepared]
    BY ZenonT(60) DEF Inv, TypeOK
  <2> QED
    BY <2>1 DEF NotPrepared
<1>2. ControlSound' /\ BegunSound' /\ ManifestSound' /\ WalSound' /\ AckedSound' /\ MemorySound'
  BY ZenonT(60) DEF Inv, ControlSound, BegunSound, ManifestSound, WalSound, AckedSound, MemorySound
<1>3. ASSUME NEW g \in Flushers PROVE PreparedSound(g)'
  <2>1. CASE g = f
    BY <1>1, <2>1, ZenonT(20) DEF PreparedSound
  <2>2. CASE g # f
    <3>1. PreparedSound(g) /\ prepared'[g] = prepared[g] /\ g \notin publishing
      BY <1>1, <2>2, ZenonT(20) DEF Inv
    <3>2. \A h \in Flushers \ {g} :
            prepared[g].active /\ prepared'[h].active /\ prepared'[h].sequence = prepared[g].sequence =>
              prepared[g].compact
      BY <1>1, <3>1, ZenonT(20) DEF PreparedSound
    <3> QED
      BY <3>1, <3>2, PreparedLeft, ZenonT(20)
  <2> QED
    BY <2>1, <2>2
<1> QED
  BY <1>2, <1>3 DEF Inv

(* publish_flush returns early. *)
LEMMA PublishNothingInv ==
    ASSUME Inv, NEW f \in Flushers, PublishNothing(f)
    PROVE  Inv'
<1>1. /\ status = "up" /\ stage = "free" /\ stage' = "free"
      /\ prepared' = [prepared EXCEPT ![f] = NotPrepared]
      /\ UNCHANGED <<wal, durWal, manifest, durManifest, segments, durSegments, status, pos,
                     points, latest, dirty, indexes, committed, begun, acked, publishing>>
  BY DEF PublishNothing, Unlocked, IoError, diskVars, memoryVars, historyVars
<1>2. TypeOK' /\ publishing = {}
  BY <1>1, PublishTypeOK DEF PublishStep, Inv, ControlSound
<1> QED
  BY <1>1, <1>2, ReleaseInv, ZenonT(20)

(* publish_flush fails part of the way. *)
LEMMA FailPublishInv ==
    ASSUME Inv, NEW f \in publishing, FailPublish(f)
    PROVE  Inv'
<1>1. /\ stage \notin {"free", "append"} /\ stage' = "free" /\ publishing' = {}
      /\ prepared' = [prepared EXCEPT ![f] = NotPrepared]
      /\ UNCHANGED <<wal, durWal, manifest, durManifest, segments, durSegments, status, pos,
                     points, latest, dirty, indexes, committed, begun, acked>>
  BY DEF FailPublish, IoError, diskVars, memoryVars, historyVars
<1>2. f \in Flushers /\ status = "up" /\ publishing \subseteq {f}
  BY <1>1, ZenonT(60) DEF Inv, TypeOK, ControlSound
<1>3. TypeOK'
  BY <1>2, PublishTypeOK DEF PublishStep, Inv
<1> QED
  BY <1>1, <1>2, <1>3, ReleaseInv, ZenonT(20)

(* The end of publish_flush: the files it retires are in neither manifest. *)
LEMMA FinishPublishInv ==
    ASSUME Inv, NEW f \in publishing, FinishPublish(f)
    PROVE  Inv'
<1> DEFINE p == prepared[f]
           q == prepared[f].sequence
<1>0. /\ stage = "walCut" /\ stage' = "free" /\ publishing' = {}
      /\ durWal' = IF latest = q THEN wal ELSE durWal
      /\ dirty' = IF latest = q THEN {} ELSE dirty
      /\ segments' = IF p.compact
                     THEN [n \in Seqs |-> IF n \in Retired(p) THEN NoSegment ELSE segments[n]]
                     ELSE segments
      /\ prepared' = [prepared EXCEPT ![f] = NotPrepared]
      /\ UNCHANGED <<wal, manifest, durManifest, durSegments, status, pos, points, latest,
                     committed, begun, acked>>
  BY ZenonT(60) DEF FinishPublish, SnapshotIsCurrent, historyVars
<1>1. TypeOK'
  BY PublisherFacts, PublishTypeOK, SMT, Zenon, SMTT(30) DEF Inv, PublishStep
<1>2. /\ f \in Flushers /\ publishing = {f} /\ p.active /\ status = "up"
      /\ manifest.sequence = q /\ durManifest = manifest /\ (p.compact => manifest.segments = <<q>>)
      /\ points = committed[latest] /\ p.compact \in BOOLEAN
      /\ (latest = q => wal = <<>>)
  BY <1>0, PublisherFacts, PreparedFacts, ZenonT(20) DEF Inv, PublishSound, AfterRename
<1>3. manifest.segments # <<>>
  <2>1. CASE p.compact
    <3>1. manifest.segments = <<q>>
      BY <1>2, <2>1
    <3> QED
      BY <3>1, OneName
  <2>2. CASE ~p.compact
    <3>1. PreparedSound(f)
      BY PublisherFacts
    <3> QED
      BY <1>2, <2>2, <3>1, ZenonT(20) DEF PreparedSound
  <2> QED
    BY <1>2, <2>1, <2>2, ZenonT(20)
<1>4. \A n \in ManifestNames(manifest) : segments'[n] = segments[n]
  <2>1. CASE p.compact
    <3>1. manifest.segments = <<q>> /\ ManifestNames(manifest) = {q}
      BY <1>2, <2>1, OneName, ZenonT(60)
    <3>2. q \in Seqs /\ q \notin Retired(p)
      BY <1>2, PreparedFacts, ZenonT(60) DEF Inv, Retired
    <3> QED
      BY <1>0, <2>1, <3>1, <3>2, ZenonT(60)
  <2> QED
    BY <1>0, <1>2, <2>1, ZenonT(20)
<1>5. ~prepared'[f].active /\ \A g \in Flushers \ {f} : prepared'[g] = prepared[g]
  BY <1>0, ZenonT(20) DEF Inv, TypeOK, NotPrepared
<1> HIDE DEF p, q
<1>6. ControlSound'
  BY <1>0, <1>2, <1>5, ZenonT(60) DEF ControlSound
<1>7. BegunSound'
  BY <1>0, ZenonT(60) DEF Inv, BegunSound
<1>8. ManifestSound'
  <2>1. ChainSound(manifest, segments, durSegments, committed) /\ manifest.segments \in Seq(Seqs)
    BY TypeFacts, ZenonT(60) DEF Inv, ManifestSound
  <2>2. \A a \in DOMAIN manifest.segments :
          /\ segments'[manifest.segments[a]] = segments[manifest.segments[a]]
          /\ durSegments[manifest.segments[a]] = segments'[manifest.segments[a]]
    BY <1>4, <2>1, ChainNames DEF ManifestNames
  <2>3. ChainSound(manifest, segments', durSegments, committed)
    BY <2>1, <2>2, ChainStable, ZenonT(20)
  <2> QED
    BY <1>0, <1>2, <1>3, <2>3, NumberFacts, ZenonT(20) DEF Inv, ManifestSound
<1>9. ASSUME NEW g \in Flushers PROVE PreparedSound(g)'
  <2>1. CASE g = f
    BY <1>5, <2>1, ZenonT(60) DEF PreparedSound
  <2>2. CASE g # f
    <3>1. g \notin publishing /\ prepared'[g] = prepared[g]
      BY <1>2, <1>5, <2>2, SMT, Zenon, SMTT(30)
    <3>2. \A m \in {manifest, durManifest} : \A n \in ManifestNames(m) : segments'[n] = segments[n]
      BY <1>2, <1>4, ZenonT(20)
    <3>3. \A h \in Flushers : prepared'[h].active => prepared'[h] = prepared[h]
      BY <1>5, ZenonT(20)
    <3>4. UNCHANGED <<manifest, durManifest, latest, committed>>
      BY <1>0
    <3> QED
      <4>1. PreparedSound(g)
        BY DEF Inv
      <4>2. CASE ~prepared[g].active
        BY <3>1, <4>2, ZenonT(20) DEF PreparedSound
      <4>3. CASE prepared[g].active
        <5>1. /\ prepared[g].sequence <= latest
              /\ prepared[g].points = committed[prepared[g].sequence]
              /\ prepared[g].compact => prepared[g].ids = Ids
              /\ ~prepared[g].compact =>
                   /\ manifest.segments # <<>>
                   /\ \A i \in Ids \ prepared[g].ids :
                        \A t \in manifest.sequence .. prepared[g].sequence :
                          committed[t][i] = committed[prepared[g].sequence][i]
          BY <4>1, <4>3, ZenonT(20) DEF PreparedSound
        <5>2. \A h \in Flushers \ {g} : prepared'[h].active
                 /\ prepared'[h].sequence = prepared[g].sequence => prepared[g].compact
          BY <3>3, <4>1, <4>3, ZenonT(60) DEF PreparedSound
        <5>3. \A m \in {manifest, durManifest} : prepared[g].sequence \in ManifestNames(m) =>
                prepared[g].compact /\ segments'[prepared[g].sequence] = SegmentFile(prepared[g])
          <6>1. \A m \in {manifest, durManifest} : prepared[g].sequence \in ManifestNames(m) =>
                  prepared[g].compact /\ segments[prepared[g].sequence] = SegmentFile(prepared[g])
            BY <3>1, <4>1, <4>3, ZenonT(20) DEF PreparedSound
          <6> QED
            BY <3>2, <6>1, ZenonT(20)
        <5> QED
          BY <3>1, <3>4, <5>1, <5>2, <5>3, ZenonT(200) DEF PreparedSound
      <4> QED
        BY <4>2, <4>3
  <2> QED
    BY <2>1, <2>2, SMT, Zenon, SMTT(30)
<1>10. MemorySound'
  <2>1. manifest.sequence <= latest
    BY <1>2, ZenonT(20) DEF Inv, MemorySound
  <2>2. \A i \in Ids \ dirty' : \A t \in manifest.sequence .. latest : committed[t][i] = points[i]
    <3>1. CASE latest = q
      <4>1. \A t \in manifest.sequence .. latest : t = latest
        BY <1>2, <3>1, TypeFacts
      <4> QED
        BY <1>2, <4>1, ZenonT(60)
    <3>2. CASE latest # q
      BY <1>0, <1>2, <3>2, ZenonT(20) DEF Inv, MemorySound
    <3> QED
      BY <3>1, <3>2, ZenonT(20)
  <2> QED
    BY <1>0, <1>2, <2>1, <2>2, ZenonT(60) DEF Inv, MemorySound
<1>11. WalSound'
  BY <1>0, <1>2, ZenonT(60) DEF Inv, WalSound
<1>12. AckedSound'
  <2>1. CASE latest = q
    BY <1>0, <1>2, <2>1, ZenonT(20) DEF Inv, AckedSound
  <2>2. CASE latest # q
    BY <1>0, <1>2, <2>2, ZenonT(20) DEF Inv, AckedSound
  <2> QED
    BY <2>1, <2>2, SMT, Zenon, SMTT(30)
<1> QED
  BY <1>0, <1>1, <1>6, <1>7, <1>8, <1>9, <1>10, <1>11, <1>12 DEF Inv

LEMMA InitInv == Init => Inv
<1> SUFFICES ASSUME Init PROVE Inv
  OBVIOUS
<1>1. TypeOK
  BY InitTypeOK
<1>2. ControlSound /\ BegunSound
  BY ConstantTypes DEF Init, ControlSound, BegunSound, NotPrepared, NoManifest
<1>3. ManifestSound
  <2>1. /\ DOMAIN manifest.segments = {} /\ manifest.segments = <<>> /\ manifest.sequence = 0
        /\ durManifest = manifest /\ indexes = <<>> /\ 0 <= 0
    BY DEF Init, NoManifest
  <2> QED
    BY <2>1, ZenonT(20) DEF ManifestSound, ChainSound
<1>4. (\A f \in Flushers : PreparedSound(f)) /\ \A f \in publishing : PublishSound(f)
  BY ZenonT(60) DEF Init, PreparedSound, NotPrepared
<1>5. MemorySound
  BY ConstantTypes DEF Init, MemorySound, NoManifest, PointMap
<1>6. WalSound /\ AckedSound
  BY DEF Init, WalSound, LogSound, AckedSound, NoManifest
<1> QED
  BY <1>1, <1>2, <1>3, <1>4, <1>5, <1>6 DEF Inv

(* A crash of the process: what the operating system shows of the files is what recovery sees. *)
LEMMA CrashInv ==
    ASSUME Inv, Crash
    PROVE  Inv'
<1>0. /\ status' = "closed" /\ pos' = 1 /\ points' = NoPoints /\ latest' = 0
      /\ dirty' = {} /\ indexes' = <<>> /\ stage' = "free" /\ publishing' = {}
      /\ prepared' = [f \in Flushers |-> NotPrepared]
      /\ UNCHANGED <<wal, durWal, manifest, durManifest, segments, durSegments,
                     committed, begun, acked>>
  BY DEF Crash, LoseMemory
<1>1. TypeOK'
  BY CrashTypeOK DEF Inv
<1>2. ControlSound' /\ BegunSound'
  <2>1. TypeOK /\ BegunSound
    BY Zenon DEF Inv
  <2>2. 0 <= begun
    BY <2>1, NumberFacts, ZeroLeast, Zenon
  <2>3. ControlSound'
    BY <1>0, ZenonT(20) DEF ControlSound, NotPrepared
  <2>4. BegunSound'
    BY <1>0, <2>1, <2>2, ZenonT(20) DEF BegunSound
  <2> QED
    BY <2>3, <2>4, Zenon
<1>3. ManifestSound'
  BY <1>0, ZenonT(20) DEF Inv, ManifestSound
<1>4. (\A f \in Flushers : PreparedSound(f))' /\ (\A f \in publishing : PublishSound(f))'
  BY <1>0, ZenonT(60) DEF PreparedSound, NotPrepared
<1>5. MemorySound'
  BY <1>0, ZenonT(60) DEF Inv, MemorySound
<1>6. WalSound'
  <2>1. LogSound(wal', committed') /\ LogSound(durWal', committed')
    BY <1>0, ZenonT(60) DEF Inv, WalSound, LogSound
  <2>2. \A k \in DOMAIN durWal : \/ durWal[k].sequence <= manifest.sequence
                                 \/ \E j \in DOMAIN wal : durWal[k].sequence <= wal[j].sequence
    <3>1. CASE status = "up"
      <4>1. \A k \in DOMAIN durWal : durWal[k].sequence <= latest
        BY <3>1, Zenon DEF Inv, WalSound
      <4>2. latest <= manifest.sequence \/ \E j \in DOMAIN wal : wal[j].sequence = latest
        BY <3>1, ZenonT(60) DEF Inv, MemorySound
      <4> QED
        BY <4>1, <4>2, FrameFacts, LeqTrans, ZenonT(20) DEF Inv
    <3>2. CASE status # "up"
      BY <3>2 DEF Inv, WalSound
    <3> QED
      BY <3>1, <3>2
  <2> QED
    BY <1>0, <2>1, <2>2 DEF WalSound
<1>7. AckedSound'
  BY <1>0, Zenon DEF Inv, AckedSound
<1> QED
  BY <1>1, <1>2, <1>3, <1>4, <1>5, <1>6, <1>7 DEF Inv
(* A power loss: any mixture of what is visible and what is durable recovers. *)
LEMMA PowerLossInv ==
    ASSUME Inv, PowerLoss
    PROVE  Inv'
<1>0. /\ status' = "closed" /\ pos' = 1 /\ points' = NoPoints /\ latest' = 0
      /\ dirty' = {} /\ indexes' = <<>> /\ stage' = "free" /\ publishing' = {}
      /\ prepared' = [f \in Flushers |-> NotPrepared]
      /\ committed' = committed /\ begun' = begun
      /\ durWal' = wal' /\ durManifest' = manifest' /\ durSegments' = segments'
      /\ wal' \in PowerLossWals
      /\ manifest' = manifest \/ manifest' = durManifest
      /\ LoseAcknowledged(Recoverable(manifest', wal'))
  BY ZenonT(60) DEF PowerLoss, LoseMemory
<1>1. TypeOK'
  BY CrashTypeOK DEF Inv
<1>2. /\ LogSound(wal', committed')
      /\ \A k \in DOMAIN wal' : \/ wal'[k] = Torn
                                \/ k \in DOMAIN wal /\ wal'[k] = wal[k]
                                \/ k \in DOMAIN durWal /\ wal'[k] = durWal[k]
  BY <1>0, PowerLossFrames, ZenonT(20) DEF Inv, WalSound
<1>3. /\ manifest'.sequence \in Nat
      /\ durManifest.sequence <= manifest'.sequence
      /\ manifest'.sequence <= manifest.sequence
  <2>1. TypeOK /\ durManifest.sequence <= manifest.sequence
    BY Zenon DEF Inv, ManifestSound
  <2> QED
    BY <1>0, <2>1, NumberFacts, NextNat, ZenonT(20)
<1>4. acked' <= acked /\ (Durability = "Sync" => acked' = acked)
  <2>1. \A s \in Recoverable(manifest', wal') : s \in Nat
    <3>1. manifest' \in Manifest /\ wal' \in Seq(Frame)
      BY <1>1 DEF TypeOK
    <3> QED
      BY <3>1, RecoverableNat
  <2> QED
    BY <1>0, <2>1, NumberFacts DEF Inv, LoseAcknowledged
<1>5. ControlSound'
  BY <1>0, ZenonT(20) DEF ControlSound, NotPrepared
<1>6. BegunSound'
  <2>1. \A k \in DOMAIN wal' : wal'[k].sequence <= begun
    <3>1. BegunSound /\ 0 <= begun
      BY NumberFacts, ZeroLeast, Zenon DEF Inv
    <3> QED
      BY <1>2, <3>1, TornSequence, ZenonT(20) DEF BegunSound
  <2>2. manifest'.sequence <= begun /\ acked' <= begun /\ latest' <= begun
    <3>1. /\ manifest.sequence \in Nat /\ begun \in Nat /\ acked \in Nat /\ acked' \in Nat
          /\ latest' = 0
      <4>1. acked' \in Seqs
        BY <1>1, Zenon DEF TypeOK
      <4> QED
        BY <1>0, <4>1, NumberFacts, LowerSeqs, Zenon DEF Inv
    <3>2. manifest.sequence <= begun /\ acked <= begun
      BY DEF Inv, BegunSound
    <3> QED
      BY <1>3, <1>4, <3>1, <3>2
  <2> QED
    BY <1>0, <2>1, <2>2, ZenonT(20) DEF BegunSound
<1>7. ManifestSound'
  <2>1. \A m \in {manifest, durManifest} : \A p \in DOMAIN m.segments :
          segments'[m.segments[p]] = segments[m.segments[p]]
    <3>1. \A n \in Seqs : segments'[n] \in {segments[n], durSegments[n]}
      BY DEF PowerLoss
    <3>2. \A m \in {manifest, durManifest} : \A p \in DOMAIN m.segments : m.segments[p] \in Seqs
      BY TypeFacts DEF Inv
    <3>3. \A m \in {manifest, durManifest} : \A p \in DOMAIN m.segments :
            durSegments[m.segments[p]] = segments[m.segments[p]]
      BY ZenonT(20) DEF Inv, ManifestSound, ChainSound
    <3> QED
      BY <3>1, <3>2, <3>3
  <2>2. ASSUME NEW m \in {manifest, durManifest}
        PROVE  ChainSound(m, segments', durSegments', committed')
    <3>1. ChainSound(m, segments, durSegments, committed) /\ m.segments \in Seq(Seqs)
      BY TypeFacts, ZenonT(20) DEF Inv, ManifestSound
    <3> QED
      BY <1>0, <2>1, <3>1, ChainStable, ZenonT(20)
  <2> QED
    BY <1>0, <1>3, <2>2, NumberFacts, ZenonT(20) DEF ManifestSound
<1>8. (\A f \in Flushers : PreparedSound(f))' /\ (\A f \in publishing : PublishSound(f))'
  BY <1>0, ZenonT(20) DEF PreparedSound, NotPrepared
<1>9. MemorySound'
  BY <1>0, ZenonT(60) DEF Inv, MemorySound
<1>10. WalSound'
  <2>1. \A k \in DOMAIN wal' : wal'[k].sequence \in Nat
    <3>1. \A k \in DOMAIN wal' : wal'[k] \in Frame
      BY <1>1 DEF TypeOK
    <3> QED
      BY <3>1, ConstantsAssumption DEF Frame, Seqs
  <2> QED
    BY <1>0, <1>2, <2>1 DEF WalSound
<1>11. AckedSound'
  <2>1. CASE Durability = "Sync"
    <3>1. CASE acked <= durManifest.sequence
      <4>1. acked' = acked /\ acked <= durManifest.sequence
        BY <1>4, <2>1, <3>1, Zenon
      <4>2. acked' <= manifest'.sequence
        BY <1>3, <4>1, NumberFacts, LeqTrans, ZenonT(20) DEF Inv
      <4> QED
        BY <1>0, <4>2, ZenonT(20) DEF AckedSound
    <3>2. ASSUME NEW k \in DOMAIN wal, k <= Len(durWal), \A j \in 1 .. k : wal[j] = durWal[j],
                 acked <= wal[k].sequence
          PROVE  AckedSound'
      <4>1. k \in DOMAIN wal' /\ wal'[k] = wal[k]
        BY <1>0, <3>2, SharedPrefixKept, ZenonT(60) DEF Inv
      <4>2. k <= Len(wal')
        <5>1. wal' \in Seq(Frame)
          BY <1>1, Zenon DEF TypeOK
        <5> QED
          BY <4>1, <5>1
      <4>3. acked' <= wal'[k].sequence
        BY <1>4, <2>1, <3>2, <4>1
      <4>4. k <= Len(durWal') /\ \A j \in 1 .. k : wal'[j] = durWal'[j]
        BY <1>0, <4>2
      <4> QED
        BY <1>0, <4>1, <4>3, <4>4, ZenonT(60) DEF AckedSound
    <3> QED
      BY <2>1, <3>1, <3>2, ZenonT(60) DEF Inv, AckedSound
  <2>2. CASE Durability # "Sync"
    <3>1. \E s \in Recoverable(manifest', wal') : acked' <= s
      <4>1. \A s \in Recoverable(manifest', wal') : s \in Nat
        <5>1. manifest' \in Manifest /\ wal' \in Seq(Frame)
          BY <1>1 DEF TypeOK
        <5> QED
          BY <5>1, RecoverableNat
      <4> QED
        BY <1>0, <2>2, <4>1 DEF LoseAcknowledged
    <3>2. acked' <= manifest'.sequence \/ \E k \in DOMAIN wal' : acked' <= wal'[k].sequence
      BY <3>1, ZenonT(60) DEF Recoverable
    <3> QED
      BY <1>0, <2>2, <3>2, ZenonT(60) DEF AckedSound
  <2> QED
    BY <2>1, <2>2
<1> QED
  BY <1>1, <1>5, <1>6, <1>7, <1>8, <1>9, <1>10, <1>11 DEF Inv

-------------------------------------------------------------------------------
(* What the proof asks of the instance.  SharedCollection::flush makes no such test, and     *)
(* append_frame ignores an error of its clean-up: the run repeated_flush shows what goes     *)
(* wrong without the first.                                                                  *)
CarefulCallers == ~RepeatedFlush /\ "cleanup" \notin IoFaults

(* Every step of a flusher keeps Inv. *)
LEMMA PublishInv ==
    ASSUME Inv, NEW f \in Flushers, PublishStep(f)
    PROVE  Inv'
BY PublishNothingInv, PublishSegmentInv, SyncInv, WriteManifestInv, RenameManifestInv,
   TruncateWalInv, FinishPublishInv, FailPublishInv DEF PublishStep

(* Every step keeps Inv. *)
LEMMA NextInv ==
    ASSUME "cleanup" \notin IoFaults, Inv, [SafeNext]_vars
    PROVE  Inv'
<1>1. ASSUME NEW op \in {"upsert", "delete"}, NEW ids \in SUBSET Ids, BeginAppend(op, ids)
      PROVE  Inv'
  BY <1>1, BeginAppendInv
<1>2. ASSUME NEW f \in Flushers, SafeName, FlushSnapshot(f)
      PROVE  Inv'
  BY <1>2, SnapshotInv
<1>3. CASE AppendStep
  BY <1>3, CompleteAppendInv, FailAppendInv DEF AppendStep
<1>4. ASSUME NEW f \in Flushers, PublishStep(f)
      PROVE  Inv'
  BY <1>4, PublishInv
<1>5. CASE RecoveryStep
  BY <1>5, OpenInv, LoadSegmentInv, BeginReplayInv, ReplayFrameInv, ReplayTornInv, OpenDoneInv, ZenonT(20)
     DEF RecoveryStep
<1>6. CASE Crash \/ PowerLoss
  BY <1>6, CrashInv, PowerLossInv
<1>7. CASE UNCHANGED vars
  BY <1>7, StutterInv
<1> QED
  BY <1>1, <1>2, <1>3, <1>4, <1>5, <1>6, <1>7 DEF SafeNext, Write, SystemStep

(* Careful callers take no other steps. *)
LEMMA SharedIsSafe ==
    ASSUME CarefulCallers, [SharedNext]_vars
    PROVE  [SafeNext]_vars
  BY ZenonT(20) DEF CarefulCallers, SharedNext, SharedFlush, SafeName, SafeNext

(* The invariant of the shared collection. *)
THEOREM SharedInv == CarefulCallers /\ SharedSpec => []Inv
<1> SUFFICES ASSUME CarefulCallers PROVE SharedSpec => []Inv
  OBVIOUS
<1>1. Inv /\ [SharedNext]_vars => Inv'
  BY NextInv, SharedIsSafe DEF CarefulCallers
<1> QED
  BY <1>1, InitInv, PTL DEF SharedSpec

(* Durability: whenever the collection is open, its points are those of a committed sequence *)
(* no older than the last acknowledged one, whatever upsert, delete, flush, recover, I/O     *)
(* errors, crashes and power losses came before.                                             *)
THEOREM SharedAckedRecovered == CarefulCallers /\ SharedSpec => []AckedRecovered
<1>1. Inv => AckedRecovered
  BY TypeFacts, ZenonT(60) DEF Inv, AckedRecovered, AckedSound, MemorySound
<1> QED
  BY <1>1, SharedInv, PTL

(* The durable manifest changes only to the current one, or back from it. *)
LEMMA DurableAdvances ==
    ASSUME Inv, [SafeNext]_vars, durManifest' # durManifest
    PROVE  durManifest'.sequence >= durManifest.sequence
<1>1. durManifest' \in {manifest, durManifest}
  BY ZenonT(20) DEF SafeNext, Write, BeginAppend, FlushSnapshot, SystemStep, AppendStep,
         CompleteAppend, FailAppend, PublishStep, PublishNothing, PublishSegment, SyncSegment,
         SyncDirectory, WriteManifest, RenameManifest, SyncManifest, TruncateWal, FinishPublish,
         FailPublish, RecoveryStep, Open, LoadSegment, BeginReplay, ReplayFrame, ReplayTorn,
         OpenDone, Crash, PowerLoss, vars, diskVars
<1> QED
  BY <1>1, TypeFacts, ZenonT(60) DEF Inv, ManifestSound

(* A stale builder never replaces newer work: the durable manifest only advances. *)
THEOREM SharedManifestAdvances == CarefulCallers /\ SharedSpec => ManifestAdvances
<1> SUFFICES ASSUME CarefulCallers PROVE SharedSpec => ManifestAdvances
  OBVIOUS
<1>1. Inv /\ [SharedNext]_vars => [durManifest'.sequence >= durManifest.sequence]_durManifest
  BY DurableAdvances, SharedIsSafe
<1> QED
  BY <1>1, SharedInv, PTL DEF SharedSpec, ManifestAdvances
===============================================================================
