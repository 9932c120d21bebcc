-------------------------- MODULE CollectionInvariant --------------------------
(***************************************************************************)
(* Why SharedCollection keeps its promises, for callers that respect       *)
(* FreshSequence and a log whose clean-up after a failed append succeeds:  *)
(* Inv is the inductive invariant behind AckedRecovered, ManifestAdvances, *)
(* SegmentsImmutable and IsDurableMap, SearchInv the one behind            *)
(* SearchExact, ReopenInv the one behind OpensUnlessOutgrown, LengthInv    *)
(* the one behind OpenNeverFails, and OwnedInv what a PersistentCollection *)
(* used directly adds to them.                                             *)
(***************************************************************************)
EXTENDS SharedCollection

BeforeRename == {"segment", "segmentSynced", "manifestTmp"}
AfterRename == {"manifest", "manifestSynced", "walCut"}

(* Who holds the lock, and what a closed handle looks like. *)
ControlSound ==
    /\ status # "up" => stage = "free" /\ \A f \in Flushers : ~prepared[f].active
    /\ stage \in {"free", "append"} <=> publishing = {}
    /\ \A f, g \in publishing : f = g
    /\ \A f \in publishing : prepared[f].active
    /\ status = "closed" => /\ pos = 1 /\ points = NoPoints /\ latest = 0
                            /\ dirty = {} /\ indexes = <<>>

(* Every sequence any file or the memory mentions has been tried. *)
BegunSound ==
    /\ manifest.sequence <= begun /\ acked <= begun /\ latest <= begun
    /\ \A k \in DOMAIN wal : wal[k].sequence <= begun
    /\ \A k \in DOMAIN durWal : durWal[k].sequence <= begun

(* The files a manifest names hold the state at its sequence: a full segment, then deltas *)
(* that list everything that changed since the one before.  They are on stable storage.   *)
ChainSound(m, files, durable, history) ==
    /\ m.segments = <<>> => m.sequence = 0
    /\ m.segments # <<>> => m.segments[Len(m.segments)] = m.sequence
    /\ \A p \in DOMAIN m.segments :
         /\ m.segments[p] <= m.sequence
         /\ durable[m.segments[p]] = files[m.segments[p]]
         /\ p = 1 => files[m.segments[p]] =
                       [kind |-> "full", ids |-> Ids, points |-> history[m.segments[p]]]
         /\ p > 1 => /\ m.segments[p - 1] < m.segments[p]
                     /\ files[m.segments[p]].kind = "delta"
                     /\ \A i \in Ids :
                          IF i \in files[m.segments[p]].ids
                          THEN files[m.segments[p]].points[i] = history[m.segments[p]][i]
                          ELSE history[m.segments[p - 1]][i] = history[m.segments[p]][i]

ManifestSound ==
    /\ ChainSound(manifest, segments, durSegments, committed)
    /\ ChainSound(durManifest, segments, durSegments, committed)
    /\ durManifest.sequence <= manifest.sequence
    /\ durManifest.segments # <<>> => manifest.segments # <<>>
    /\ indexes # <<>> => manifest.segments # <<>>

(* A prepared flush is the committed state at its sequence, lists everything that changed *)
(* since the manifest, and will not replace a published file by a different one.          *)
PreparedSound(f) ==
    LET p == prepared[f]
    IN  p.active =>
          /\ p.sequence <= latest
          /\ p.points = committed[p.sequence]
          /\ p.compact => p.ids = Ids
          /\ ~p.compact => /\ manifest.segments # <<>>
                           /\ \A i \in Ids \ p.ids : \A t \in manifest.sequence .. p.sequence :
                                committed[t][i] = committed[p.sequence][i]
          /\ \A g \in Flushers \ {f} :
               prepared[g].active /\ prepared[g].sequence = p.sequence => p.compact
          /\ (f \notin publishing \/ stage \in BeforeRename) =>
               \A m \in {manifest, durManifest} :
                 p.sequence \in ManifestNames(m) =>
                   p.compact /\ segments[p.sequence] = SegmentFile(p)

(* How far publish_flush has got. *)
PublishSound(f) ==
    LET p == prepared[f]
    IN  /\ stage \in BeforeRename => /\ previous = manifest
                                     /\ manifest.sequence <= p.sequence
                                     /\ segments[p.sequence] = SegmentFile(p)
        /\ stage \in {"segmentSynced", "manifestTmp"} => /\ durManifest = manifest
                                                         /\ durSegments[p.sequence] = SegmentFile(p)
        /\ stage \in AfterRename => /\ manifest.sequence = p.sequence
                                    /\ p.compact => manifest.segments = <<p.sequence>>
        /\ stage \in {"manifestSynced", "walCut"} => durManifest = manifest
        /\ stage = "walCut" /\ latest = p.sequence => wal = <<>>

(* Memory: the committed state at latest, and outside dirty nothing changed since the manifest. *)
MemorySound ==
    /\ committed[0] = NoPoints
    /\ status \in {"loading", "replaying", "up"} => points = committed[latest]
    /\ status \in {"replaying", "up"} =>
         /\ manifest.sequence <= latest
         /\ \A i \in Ids \ dirty : \A t \in manifest.sequence .. latest : committed[t][i] = points[i]
         /\ latest <= manifest.sequence \/ \E k \in DOMAIN wal : wal[k].sequence = latest
    /\ status = "loading" => /\ dirty = {}
                             /\ pos <= Len(manifest.segments) + 1
                             /\ latest = IF pos = 1 THEN 0 ELSE manifest.segments[pos - 1]
    /\ status = "replaying" => /\ pos <= Len(wal) + 1
                               /\ \A k \in 1 .. pos - 1 : wal[k] # Torn /\ wal[k].sequence <= latest

(* Log: every frame leads from the committed state before it to its own; only the last *)
(* frame can be torn; while the collection is up its frames are known, and nothing     *)
(* else is on stable storage.                                                          *)
LogSound(w, history) ==
    \A k \in DOMAIN w :
      /\ w[k] = Torn => k = Len(w)
      /\ w[k] # Torn => /\ w[k].sequence > 0
                        /\ history[w[k].sequence] = ApplyFrame(history[w[k].sequence - 1], w[k])

WalSound ==
    /\ LogSound(wal, committed)
    /\ LogSound(durWal, committed)
    /\ status = "up" =>
         /\ \A k \in DOMAIN durWal : durWal[k].sequence <= latest
         /\ \A k \in DOMAIN wal :
              (stage # "append" \/ k < Len(wal)) => wal[k] # Torn /\ wal[k].sequence <= latest
    /\ stage = "append" => /\ wal # <<>>
                           /\ latest < MaxSeq
                           /\ wal[Len(wal)] = Torn \/ wal[Len(wal)].sequence = latest + 1
    /\ status # "up" =>
         \A k \in DOMAIN durWal :
           \/ durWal[k].sequence <= manifest.sequence
           \/ \E j \in DOMAIN wal : durWal[k].sequence <= wal[j].sequence

(* What was acknowledged is in the manifest or the log; under Durability::Sync in the    *)
(* durable manifest or in a prefix that the log shares with its copy on stable storage. *)
AckedSound ==
    /\ status = "up" => acked <= latest
    /\ acked <= manifest.sequence \/ \E k \in DOMAIN wal : acked <= wal[k].sequence
    /\ Durability = "Sync" =>
         \/ acked <= durManifest.sequence
         \/ \E k \in DOMAIN wal : /\ k <= Len(durWal)
                                  /\ \A j \in 1 .. k : wal[j] = durWal[j]
                                  /\ acked <= wal[k].sequence

Inv ==
    /\ TypeOK
    /\ ControlSound
    /\ BegunSound
    /\ ManifestSound
    /\ \A f \in Flushers : PreparedSound(f)
    /\ \A f \in publishing : PublishSound(f)
    /\ MemorySound
    /\ WalSound
    /\ AckedSound

(* The name a flush will use is new, or names the full segment that the flush would write. *)
SafeName ==
    \/ FreshSequence
    \/ /\ Compacts
       /\ \A f \in Flushers : ~prepared[f].active
       /\ \A m \in {manifest, durManifest} :
            latest \in ManifestNames(m) =>
              segments[latest] = [kind |-> "full", ids |-> Ids, points |-> points]

(* The steps that keep Inv: every one but a flush under another name. *)
SafeNext ==
    \/ Write
    \/ \E f \in Flushers : SafeName /\ GraphAllowed /\ FlushSnapshot(f)
    \/ SystemStep

-------------------------------------------------------------------------------
(* Why SearchExact holds as well.  A version is the sequence that wrote it, and stays until *)
(* the next write of its ID.                                                                *)
VersionsSound ==
    \A s \in 0 .. begun, i \in Ids :
      LET v == committed[s][i]
      IN  v <= s /\ (v # 0 => \A t \in v .. s : committed[t][i] = v)

(* A segment file has no point of an ID that it does not cover. *)
FilesSound ==
    \A n \in Seqs, i \in Ids :
      /\ segments[n].points[i] # 0 => i \in segments[n].ids
      /\ durSegments[n].points[i] # 0 => i \in durSegments[n].ids

(* A graph holds versions that were current at its sequence. *)
IndexSound ==
    \A k \in DOMAIN indexes :
      /\ indexes[k].sequence <= latest
      /\ \A i \in Ids : indexes[k].points[i] # 0 =>
           indexes[k].points[i] = committed[indexes[k].sequence][i]

(* Some graph as new as version v has a node for i. *)
Covered(i, v) == \E k \in DOMAIN indexes : indexes[k].points[i] # 0 /\ v <= indexes[k].sequence

(* What the exact scan of dirty IDs leaves out is in a graph. *)
CoverSound == \A i \in Live(points) \ dirty : Covered(i, points[i])

(* So is what a delta leaves out, unless the delta will be found stale. *)
DeltaSound(f) ==
    LET p == prepared[f]
    IN  p.active /\ ~p.compact /\ manifest.sequence <= p.sequence =>
          \A i \in Ids \ p.ids : p.points[i] # 0 => Covered(i, p.points[i])

(* The metadata index describes the versions outside dirty. *)
MetadataSound ==
    /\ status \in {"closed", "loading"} => ~metadataIndex.present
    /\ metadataIndex.present => \A i \in Ids \ dirty : metadataIndex.points[i] = points[i]

SearchInv ==
    /\ VersionsSound
    /\ FilesSound
    /\ IndexSound
    /\ CoverSound
    /\ MetadataSound
    /\ \A f \in Flushers : DeltaSound(f)

-------------------------------------------------------------------------------
(* Why open fails only on a manifest with too many names.  Whichever manifest a crash leaves, *)
(* a frame of whichever log it leaves is at most one ahead of the manifest or of an earlier   *)
(* frame.                                                                                     *)
NoGap(w, s) ==
    \A k \in DOMAIN w :
      \/ w[k].sequence <= s + 1
      \/ \E j \in 1 .. k - 1 : w[k].sequence <= w[j].sequence + 1

(* The durable manifest has sequence s, or the log does. *)
Known(s) == s <= durManifest.sequence \/ \E k \in DOMAIN wal : wal[k].sequence = s

Increasing(m) == \A a, b \in DOMAIN m.segments : a < b => m.segments[a] < m.segments[b]

ReopenInv ==
    /\ NoGap(wal, durManifest.sequence) /\ NoGap(durWal, durManifest.sequence)
    /\ Known(manifest.sequence)
    /\ status \in {"replaying", "up"} => Known(latest)
    /\ \A f \in Flushers : prepared[f].active => Known(prepared[f].sequence)
    /\ Increasing(manifest) /\ Increasing(durManifest)
    /\ status = "failed" => ~ReadManifest(manifest)

-------------------------------------------------------------------------------
(* Why a manifest does not outgrow its limit while flushes do not overlap and at most one     *)
(* fails late.  A late error leaves a name in the manifest that has no graph.                 *)
Slack == IF "late" \in IoFaults THEN faults ELSE 0

(* Every file of a manifest of several has a live point, and so a graph once it is loaded. *)
GraphsOf(m) ==
    Len(m.segments) > 1 => \A a \in DOMAIN m.segments : Live(segments[m.segments[a]].points) # {}

(* What is loaded so far. *)
LoadedSound ==
    status = "loading" =>
      IF Len(manifest.segments) = 1 /\ Live(segments[manifest.segments[1]].points) = {}
      THEN indexes = <<>>
      ELSE Len(indexes) = pos - 1

(* The manifest has no more names than there are graphs, but for late errors and an empty *)
(* full segment.                                                                          *)
NamesSound ==
    status \in {"replaying", "up"} /\ stage \notin AfterRename =>
      /\ Len(manifest.segments) <= IF indexes = <<>> THEN 1 ELSE Len(indexes) + Slack
      /\ \A a \in DOMAIN manifest.segments :
           Live(segments[manifest.segments[a]].points) = {} => Compacts

(* Between the rename of MANIFEST and the end of publish_flush a delta has no graph yet. *)
RenamedSound(f) ==
    stage \in AfterRename /\ ~prepared[f].compact =>
      1 < Len(manifest.segments) /\ Len(manifest.segments) <= Len(indexes) + Slack + 1

(* A flush is alone, and a delta has a node. *)
AloneSound(f) ==
    prepared[f].active =>
      /\ \A g \in Flushers \ {f} : ~prepared[g].active
      /\ prepared[f].compact = Compacts
      /\ ~Compacts => Live(SegmentPoints(prepared[f])) # {}

LengthInv ==
    /\ faults <= MaxFaults
    /\ \A m \in {manifest, durManifest} : Len(m.segments) <= MAX_INDEX_SEGMENTS + 1 /\ GraphsOf(m)
    /\ LoadedSound
    /\ NamesSound
    /\ \A f \in publishing : RenamedSound(f)
    /\ \A f \in Flushers : AloneSound(f)

NoneActive == \A f \in Flushers : ~prepared[f].active

(* The steps that keep LengthInv: no two flushes overlap. *)
AloneNext ==
    \/ Write
    \/ \E f \in Flushers : NoneActive /\ SafeName /\ GraphAllowed /\ FlushSnapshot(f)
    \/ SystemStep

(* Why a PersistentCollection that is used directly never flushes under an unsafe name: a flush *)
(* is of the latest state, and when the manifest has that already, rewrites its one segment;    *)
(* there are dirty IDs only when something was written since the manifest.                      *)
LatestSound(f) ==
    prepared[f].active =>
      /\ prepared[f].sequence = latest /\ stage # "append"
      /\ stage \notin AfterRename /\ manifest.sequence = latest /\ manifest.segments # <<>> =>
           prepared[f].compact /\ Len(manifest.segments) = 1

DirtySound ==
    status \in {"replaying", "up"} /\ stage \notin AfterRename /\ dirty # {} => manifest.sequence < latest

SameSound ==
    durManifest.sequence = manifest.sequence /\ durManifest.segments # <<>> => durManifest = manifest

OwnedInv ==
    /\ \A f \in Flushers : LatestSound(f)
    /\ DirtySound
    /\ SameSound
===============================================================================
