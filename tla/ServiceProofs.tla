---------------------------- MODULE ServiceProofs ----------------------------
(***************************************************************************)
(* For any set of calls and any number of permits: permits are neither     *)
(* lost nor invented, and answers tell the truth.  For any sets of         *)
(* callers, collections and backups: a backup is one committed state and   *)
(* never changes, and a collection that was created is there whenever the  *)
(* database is open.                                                       *)
(***************************************************************************)
EXTENDS Admission, Database, FiniteSetTheorems, TLAPS

Dir == [st : {"absent", "empty", "tmp", "whole", "damaged"}, config : Configs \union {0},
        log : Seq(Nat), flushed : Int]

Job == [op : {"none", "create", "backup", "restore"},
        st : {"idle", "ok", "io", "metadata", "rename", "open", "flush", "publish", "lock",
              "copy", "sync", "remove"},
        name : Names \union {""}, source : Backups \union {""}, config : Configs \union {0},
        copy : Dir, compact : BOOLEAN, sequence : Nat, floor : Nat]

DatabaseTypeOK ==
    /\ up \in BOOLEAN
    /\ catalog \subseteq Names /\ created \subseteq Names
    /\ dirs \in [Names -> Dir]
    /\ backups \in [Backups -> Dir]
    /\ job \in [Callers -> Job]

(* Batch i is the one at sequence i. *)
Counted(log) == \A i \in 1 .. Len(log) : log[i] = i

LogsCounted ==
    /\ \A n \in Names : Counted(dirs[n].log)
    /\ \A b \in Backups : Counted(backups[b].log)
    /\ \A c \in Callers : Counted(job[c].copy.log)

(* The stages of each operation. *)
StagesOf(op) ==
    CASE op = "none" -> {"idle"}
      [] op = "create" -> {"metadata", "rename", "open", "io"}
      [] op = "restore" -> {"rename", "sync", "open", "remove"}
      [] op = "backup" -> {"flush", "publish", "lock", "copy", "rename", "sync", "ok"}

(* A caller with this job holds the catalog's write lock. *)
Holder(j) == j.op \in {"create", "restore"} /\ j.st \notin Finished

(* One caller at a time changes the catalog, by a name that is not in it yet; what is or   *)
(* was in it has a collection.meta; nothing runs while the database is closed.             *)
CatalogSound ==
    /\ \A c \in Callers : job[c].st \in StagesOf(job[c].op)
    /\ \A c, d \in Callers : Holder(job[c]) /\ Holder(job[d]) => c = d
    /\ \A c \in Callers : Holder(job[c]) => job[c].name \in Names /\ job[c].name \notin catalog
    /\ ~up => catalog = {} /\ \A c \in Callers : job[c] = Idle
    /\ \A n \in catalog \union created : Discovered(n)
    /\ CatalogRecovered

(* What a caller that backs up knows at each stage about the log it copies: while it holds *)
(* the read lock nothing is added, and afterwards nothing is taken away.                   *)
BackupSound(j) ==
    LET log == dirs[j.name].log
    IN  j.op = "backup" =>
          /\ j.name \in catalog /\ j.source \in Backups
          /\ j.floor <= Len(log)
          /\ j.st \in {"copy", "rename", "sync"} => j.sequence = Len(log)
          /\ j.st = "rename" => j.copy = dirs[j.name]
          /\ j.st \in {"sync", "ok"} =>
               /\ backups[j.source] # Absent
               /\ Len(backups[j.source].log) = j.sequence
               /\ j.floor <= j.sequence /\ j.sequence <= Len(log)

DatabaseInv == DatabaseTypeOK /\ LogsCounted /\ CatalogSound /\ \A c \in Callers : BackupSound(job[c])

-------------------------------------------------------------------------------
(* The invariant, conjunct by conjunct, for the steps that need only one of them. *)
LEMMA DirFacts ==
    /\ Absent \in Dir /\ Counted(Absent.log) /\ Idle \in Job /\ Idle.st \in StagesOf(Idle.op)
    /\ ~Holder(Idle) /\ Idle.copy = Absent /\ Idle.op # "backup"
  <1>1. Absent \in Dir
    BY DEF Absent, Dir
  <1>2. Counted(Absent.log)
    BY DEF Absent, Counted
  <1>3. Idle \in Job
    BY <1>1 DEF Idle, Job
  <1> QED
    BY <1>1, <1>2, <1>3, ZenonT(20) DEF Idle, StagesOf, Holder, Finished

(* One caller's job changes, and with it directories outside the catalog, or inside it     *)
(* without their logs.                                                                     *)
LEMMA JobStep ==
    ASSUME DatabaseInv, up, NEW c \in Callers, NEW j \in Job,
           job' = [job EXCEPT ![c] = j],
           j.st \in StagesOf(j.op), Counted(j.copy.log),
           Holder(j) => /\ j.name \in Names /\ j.name \notin catalog
                        /\ \A d \in Callers : d # c => ~Holder(job[d]),
           BackupSound(j)',
           dirs' \in [Names -> Dir],
           \A n \in Names : Counted(dirs'[n].log),
           \A n \in catalog : dirs'[n].st \in {"whole", "damaged"} /\ dirs'[n].log = dirs[n].log,
           \A n \in catalog : dirs'[n] = dirs[n] \/ ~ReadLocked(n),
           UNCHANGED <<up, catalog, backups, created>>
    PROVE  DatabaseInv'
  <1>1. DatabaseTypeOK'
    BY DEF DatabaseInv, DatabaseTypeOK
  <1>2. job'[c] = j /\ \A d \in Callers : d # c => job'[d] = job[d]
    BY DEF DatabaseInv, DatabaseTypeOK
  <1>3. LogsCounted'
    BY <1>2 DEF DatabaseInv, LogsCounted
  <1>4. CatalogSound'
    <2>1. \A d \in Callers : job'[d].st \in StagesOf(job'[d].op)
      BY <1>2 DEF DatabaseInv, CatalogSound
    <2>2. \A d, e \in Callers : Holder(job'[d]) /\ Holder(job'[e]) => d = e
      BY <1>2 DEF DatabaseInv, CatalogSound
    <2>3. \A d \in Callers : Holder(job'[d]) => job'[d].name \in Names /\ job'[d].name \notin catalog
      BY <1>2 DEF DatabaseInv, CatalogSound
    <2>4. created \subseteq catalog
      BY DEF DatabaseInv, CatalogSound, CatalogRecovered
    <2> QED
      BY <2>1, <2>2, <2>3, <2>4 DEF CatalogSound, CatalogRecovered, Discovered
  <1>5. ASSUME NEW d \in Callers PROVE BackupSound(job[d])'
    <2>1. CASE d = c
      BY <2>1, <1>2
    <2>2. CASE d # c
      <3>1. BackupSound(job[d]) /\ job'[d] = job[d]
        BY <2>2, <1>2 DEF DatabaseInv
      <3>2. CASE job[d].op = "backup"
        <4>1. job[d].name \in catalog /\ dirs'[job[d].name].log = dirs[job[d].name].log
          BY <3>1, <3>2 DEF BackupSound
        <4>2. job[d].st = "rename" => dirs'[job[d].name] = dirs[job[d].name]
          BY <4>1, <3>2 DEF ReadLocked
        <4> QED
          BY <3>1, <4>1, <4>2 DEF BackupSound
      <3> QED
        BY <3>1, <3>2, ZenonT(60) DEF BackupSound
    <2> QED
      BY <2>1, <2>2
  <1> QED
    BY <1>1, <1>3, <1>4, <1>5 DEF DatabaseInv

(* The same when the directories stay as they are. *)
LEMMA JobOnly ==
    ASSUME DatabaseInv, up, NEW c \in Callers, NEW j \in Job,
           job' = [job EXCEPT ![c] = j],
           j.st \in StagesOf(j.op), Counted(j.copy.log),
           Holder(j) => /\ j.name \in Names /\ j.name \notin catalog
                        /\ \A d \in Callers : d # c => ~Holder(job[d]),
           BackupSound(j),
           UNCHANGED <<up, catalog, dirs, backups, created>>
    PROVE  DatabaseInv'
  <1>1. dirs' \in [Names -> Dir] /\ \A n \in Names : Counted(dirs'[n].log)
    BY DEF DatabaseInv, DatabaseTypeOK, LogsCounted
  <1>2. \A n \in catalog : dirs'[n].st \in {"whole", "damaged"}
    BY DEF DatabaseInv, CatalogSound, Discovered
  <1>3. BackupSound(j)'
    BY DEF BackupSound
  <1> QED
    BY <1>1, <1>2, <1>3, JobStep, ZenonT(20)

(* A result is nothing, an I/O error of create_collection, or a backup that succeeded. *)
LEMMA ReturnInv ==
    ASSUME DatabaseInv, up, NEW c \in Callers, NEW st \in {"refused", "io", "corrupt", "ok"},
           Return(c, st), job[c].op = "backup" => st # "ok",
           UNCHANGED <<up, catalog, dirs, backups, created>>
    PROVE  DatabaseInv'
  <1> DEFINE failed == [Idle EXCEPT !.op = "create", !.st = "io"]
  <1>1. failed \in Job /\ failed.copy = Absent /\ failed.op = "create" /\ failed.st = "io"
    BY DirFacts, ZenonT(20) DEF Idle, Job
  <1>2. CASE job' = [job EXCEPT ![c] = failed]
    <2>1. failed.st \in StagesOf(failed.op) /\ ~Holder(failed) /\ BackupSound(failed)
      BY <1>1 DEF StagesOf, Holder, Finished, BackupSound
    <2> HIDE DEF failed
    <2> QED
      BY <1>1, <1>2, <2>1, DirFacts, JobOnly, ZenonT(20)
  <1>3. CASE job' = [job EXCEPT ![c] = Idle]
    <2>1. BackupSound(Idle)
      BY DirFacts DEF BackupSound
    <2> QED
      BY <1>3, <2>1, DirFacts, JobOnly, ZenonT(20)
  <1> QED
    BY <1>2, <1>3, ZenonT(20) DEF Return

(* Only a database that is open has a caller at work. *)
LEMMA Running ==
    ASSUME DatabaseInv, NEW c \in Callers, job[c].st # "idle"
    PROVE  up
  <1>1. Idle.st = "idle"
    BY DEF Idle
  <1> QED
    BY <1>1 DEF DatabaseInv, CatalogSound

(* The job after Goto. *)
LEMMA GotoFacts ==
    ASSUME DatabaseInv, NEW c \in Callers,
           NEW s \in {"rename", "open", "lock", "sync", "remove"},
           NEW j, j = [job[c] EXCEPT !.st = s]
    PROVE  /\ j \in Job /\ j.op = job[c].op /\ j.st = s /\ j.name = job[c].name
           /\ j.source = job[c].source /\ j.copy = job[c].copy
           /\ j.sequence = job[c].sequence /\ j.floor = job[c].floor
           /\ Counted(j.copy.log)
  <1>1. job[c] \in Job /\ Counted(job[c].copy.log)
    BY DEF DatabaseInv, DatabaseTypeOK, LogsCounted
  <1> QED
    BY <1>1, ZenonT(20) DEF Job

(* Who holds the catalog's lock is alone, and its name is not in the catalog. *)
LEMMA HolderFacts ==
    ASSUME DatabaseInv, NEW c \in Callers, Holder(job[c])
    PROVE  /\ up /\ job[c].name \in Names /\ job[c].name \notin catalog
           /\ \A d \in Callers : d # c => ~Holder(job[d])
  <1>1. job[c] # Idle
    BY DirFacts
  <1> QED
    BY <1>1 DEF DatabaseInv, CatalogSound

(* A directory outside the catalog changes: those inside do not. *)
LEMMA OtherDirs ==
    ASSUME DatabaseInv, NEW n \in Names, n \notin catalog, NEW d \in Dir, Counted(d.log),
           dirs' = [dirs EXCEPT ![n] = d]
    PROVE  /\ dirs' \in [Names -> Dir]
           /\ \A m \in Names : Counted(dirs'[m].log)
           /\ \A m \in catalog : dirs'[m].st \in {"whole", "damaged"} /\ dirs'[m].log = dirs[m].log
           /\ \A m \in catalog : dirs'[m] = dirs[m]
  <1>1. dirs' \in [Names -> Dir] /\ \A m \in Names : m # n => dirs'[m] = dirs[m]
    BY DEF DatabaseInv, DatabaseTypeOK
  <1>2. dirs'[n] = d /\ catalog \subseteq Names
    BY DEF DatabaseInv, DatabaseTypeOK
  <1>3. \A m \in catalog : dirs'[m] = dirs[m]
    BY <1>1, <1>2
  <1>4. \A m \in Names : Counted(dirs'[m].log)
    BY <1>1, <1>2 DEF DatabaseInv, LogsCounted
  <1>5. \A m \in catalog : dirs[m].st \in {"whole", "damaged"}
    BY DEF DatabaseInv, CatalogSound, Discovered
  <1> QED
    BY <1>1, <1>3, <1>4, <1>5

(* A directory with another st and config. *)
LEMMA SameLogDir ==
    ASSUME NEW d \in Dir, NEW s \in {"empty", "tmp", "whole", "damaged"}, NEW k \in Configs \union {0}
    PROVE  /\ [d EXCEPT !.st = s] \in Dir /\ [d EXCEPT !.st = s].log = d.log
           /\ [d EXCEPT !.st = s].st = s
           /\ [d EXCEPT !.st = s, !.config = k] \in Dir /\ [d EXCEPT !.st = s, !.config = k].log = d.log
  BY ZenonT(20) DEF Dir

-------------------------------------------------------------------------------
(* create_collection *)
LEMMA CreateInv ==
    ASSUME DatabaseInv, NEW c \in Callers, NEW n \in Names, NEW config \in Configs,
           CreateCollection(c, n, config)
    PROVE  DatabaseInv'
  <1>1. up /\ \A d \in Callers : ~Holder(job[d])
    BY DEF CreateCollection, May, CatalogLocked, Holder
  <1>2. CASE n \in catalog /\ Return(c, "refused") /\ UNCHANGED dirs
    BY <1>1, <1>2, ReturnInv DEF CreateCollection
  <1>3. CASE n \notin catalog
    <2> DEFINE j == [Idle EXCEPT !.op = "create", !.st = "metadata", !.name = n, !.config = config]
               d == [dirs[n] EXCEPT !.st = IF dirs[n].st = "absent" THEN "empty" ELSE dirs[n].st]
    <2>1. job' = [job EXCEPT ![c] = j] /\ UNCHANGED <<up, catalog, backups, created>>
      BY <1>3 DEF CreateCollection
    <2>2. /\ j \in Job /\ j.op = "create" /\ j.st = "metadata" /\ j.name = n
          /\ j.copy = Absent
      BY DirFacts, ZenonT(20) DEF Idle, Job
    <2>3. dirs[n] \in Dir /\ Counted(dirs[n].log) /\ dirs \in [Names -> Dir]
      BY DEF DatabaseInv, DatabaseTypeOK, LogsCounted
    <2>4. d \in Dir /\ d.log = dirs[n].log
      BY <2>3, ZenonT(60) DEF Dir
    <2>5. dirs' = [dirs EXCEPT ![n] = d]
      BY <1>3, <2>3 DEF CreateCollection
    <2>6. j.st \in StagesOf(j.op) /\ BackupSound(j)' /\ Counted(j.copy.log)
      BY <2>2, DirFacts DEF StagesOf, BackupSound
    <2> HIDE DEF j, d
    <2>7. /\ dirs' \in [Names -> Dir] /\ \A m \in Names : Counted(dirs'[m].log)
          /\ \A m \in catalog : dirs'[m].st \in {"whole", "damaged"} /\ dirs'[m].log = dirs[m].log
          /\ \A m \in catalog : dirs'[m] = dirs[m]
      BY <1>3, <2>3, <2>4, <2>5, OtherDirs, ZenonT(20)
    <2> QED
      BY <1>1, <1>3, <2>1, <2>2, <2>6, <2>7, JobStep, ZenonT(20)
  <1> QED
    BY <1>2, <1>3 DEF CreateCollection

(* ensure_metadata, and the rename of collection.meta.tmp *)
LEMMA MetadataInv ==
    ASSUME DatabaseInv, NEW c \in Callers, EnsureMetadata(c) \/ RenameMetadata(c)
    PROVE  DatabaseInv'
  <1> DEFINE n == job[c].name
  <1>0. Holder(job[c]) /\ job[c].op = "create"
    BY DEF EnsureMetadata, RenameMetadata, At, Holder, Finished
  <1>1. up /\ n \in Names /\ n \notin catalog /\ \A d \in Callers : d # c => ~Holder(job[d])
    BY <1>0, HolderFacts
  <1>2. dirs[n] \in Dir /\ Counted(dirs[n].log) /\ dirs \in [Names -> Dir] /\ job[c] \in Job
    BY <1>1 DEF DatabaseInv, DatabaseTypeOK, LogsCounted
  <1>3. UNCHANGED <<up, catalog, backups, created>>
    BY DEF EnsureMetadata, RenameMetadata
  <1>4. ASSUME NEW s \in {"rename", "open"}, Goto(c, s),
               dirs' = dirs \/ \E d \in Dir : dirs' = [dirs EXCEPT ![n] = d] /\ d.log = dirs[n].log
        PROVE  DatabaseInv'
    <2>0. PICK j : j = [job[c] EXCEPT !.st = s]
      BY ZenonT(20)
    <2>1. job' = [job EXCEPT ![c] = j]
      BY <1>4, <2>0 DEF Goto
    <2>2. j \in Job /\ j.op = "create" /\ j.st = s /\ j.name = n /\ Counted(j.copy.log)
      <3>1. s \in {"rename", "open", "lock", "sync", "remove"}
        OBVIOUS
      <3> QED
        BY <1>0, <2>0, <3>1, GotoFacts
    <2>3. j.st \in StagesOf(j.op) /\ BackupSound(j) /\ BackupSound(j)'
      BY <2>2 DEF StagesOf, BackupSound
    <2>4. CASE dirs' = dirs
      BY <1>1, <1>3, <2>1, <2>2, <2>3, <2>4, JobOnly, ZenonT(20)
    <2>5. CASE \E d \in Dir : dirs' = [dirs EXCEPT ![n] = d] /\ d.log = dirs[n].log
      <3>1. PICK d \in Dir : dirs' = [dirs EXCEPT ![n] = d] /\ d.log = dirs[n].log
        BY <2>5, ZenonT(20)
      <3>2. /\ dirs' \in [Names -> Dir] /\ \A m \in Names : Counted(dirs'[m].log)
            /\ \A m \in catalog : dirs'[m].st \in {"whole", "damaged"} /\ dirs'[m].log = dirs[m].log
            /\ \A m \in catalog : dirs'[m] = dirs[m]
        BY <1>1, <1>2, <3>1, OtherDirs, ZenonT(20)
      <3> QED
        BY <1>1, <1>3, <2>1, <2>2, <2>3, <3>2, JobStep, ZenonT(20)
    <2> QED
      BY <1>4, <2>4, <2>5
  <1>5. CASE RenameMetadata(c)
    <2> DEFINE d == [dirs[n] EXCEPT !.st = "whole", !.config = job[c].config]
    <2>1. job[c].config \in Configs \union {0}
      BY <1>2, ZenonT(20) DEF Job
    <2>2. d \in Dir /\ d.log = dirs[n].log
      BY <1>2, <2>1, SameLogDir, ZenonT(60)
    <2>3. dirs' = [dirs EXCEPT ![n] = d]
      BY <1>5, <1>1, <1>2, ZenonT(20) DEF RenameMetadata
    <2> QED
      BY <1>4, <1>5, <2>2, <2>3, ZenonT(20) DEF RenameMetadata
  <1>6. CASE EnsureMetadata(c)
    <2>1. CASE Goto(c, "open") /\ UNCHANGED dirs
      BY <1>4, <2>1
    <2>2. CASE (Return(c, "refused") \/ Return(c, "io")) /\ UNCHANGED dirs
      BY <1>0, <1>1, <1>3, <2>2, ReturnInv
    <2>3. CASE Goto(c, "rename") /\ dirs' = [dirs EXCEPT ![n].st = "tmp"]
      <3>1. [dirs[n] EXCEPT !.st = "tmp"] \in Dir /\ [dirs[n] EXCEPT !.st = "tmp"].log = dirs[n].log
        BY <1>2, SameLogDir, ZenonT(20)
      <3>2. dirs' = [dirs EXCEPT ![n] = [dirs[n] EXCEPT !.st = "tmp"]]
        BY <2>3, <1>1, <1>2
      <3> QED
        BY <1>4, <2>3, <3>1, <3>2, ZenonT(20)
    <2> QED
      BY <1>6, <2>1, <2>2, <2>3 DEF EnsureMetadata
  <1> QED
    BY <1>5, <1>6

(* open_managed: the name enters the catalog. *)
LEMMA OpenManagedInv ==
    ASSUME DatabaseInv, NEW c \in Callers, OpenManaged(c)
    PROVE  DatabaseInv'
  <1> DEFINE n == job[c].name
  <1>0. Holder(job[c]) /\ job[c].op # "backup"
    <2>1. job[c].st = "open" /\ job[c].st \in StagesOf(job[c].op) /\ job[c] \in Job
      BY DEF OpenManaged, DatabaseInv, CatalogSound, DatabaseTypeOK
    <2>2. job[c].op \in {"none", "create", "backup", "restore"}
      BY <2>1, ZenonT(20) DEF Job
    <2> QED
      BY <2>1, <2>2 DEF StagesOf, Holder, Finished
  <1>1. up /\ n \in Names /\ \A d \in Callers : d # c => ~Holder(job[d])
    BY <1>0, HolderFacts
  <1>2. job' = [job EXCEPT ![c] = Idle]
    BY <1>0 DEF OpenManaged, Return
  <1>3. job'[c] = Idle /\ \A d \in Callers : d # c => job'[d] = job[d]
    BY <1>2 DEF DatabaseInv, DatabaseTypeOK
  <1>4. /\ catalog' = catalog \union {n} /\ created' = created \union {n}
        /\ UNCHANGED <<up, dirs, backups>> /\ dirs[n].st = "whole"
    BY DEF OpenManaged
  <1>5. DatabaseTypeOK'
    BY <1>1, <1>2, <1>4, DirFacts DEF DatabaseInv, DatabaseTypeOK
  <1>6. LogsCounted'
    BY <1>3, <1>4, DirFacts DEF DatabaseInv, LogsCounted
  <1>7. CatalogSound'
    <2>1. \A d \in Callers : job'[d].st \in StagesOf(job'[d].op) /\ ~Holder(job'[d])
      BY <1>1, <1>3, DirFacts DEF DatabaseInv, CatalogSound
    <2>2. created' \subseteq catalog'
      BY <1>1, <1>4 DEF DatabaseInv, CatalogSound, CatalogRecovered
    <2>3. \A m \in catalog' \union created' : dirs'[m].st \in {"whole", "damaged"}
      BY <1>4 DEF DatabaseInv, CatalogSound, Discovered
    <2> QED
      BY <1>1, <1>4, <2>1, <2>2, <2>3 DEF CatalogSound, CatalogRecovered, Discovered
  <1>8. ASSUME NEW d \in Callers PROVE BackupSound(job[d])'
    <2>1. CASE d = c
      BY <2>1, <1>3, DirFacts DEF BackupSound
    <2>2. CASE d # c
      <3>1. BackupSound(job[d]) /\ job'[d] = job[d]
        BY <2>2, <1>3 DEF DatabaseInv
      <3> QED
        BY <3>1, <1>4 DEF BackupSound
    <2> QED
      BY <2>1, <2>2
  <1> QED
    BY <1>5, <1>6, <1>7, <1>8 DEF DatabaseInv

-------------------------------------------------------------------------------
(* backup_collection *)
LEMMA BackupCollectionInv ==
    ASSUME DatabaseInv, NEW c \in Callers, NEW n \in Names, NEW b \in Backups,
           BackupCollection(c, n, b)
    PROVE  DatabaseInv'
  <1>1. up /\ UNCHANGED <<up, catalog, dirs, backups, created>>
    BY DEF BackupCollection, May
  <1>2. CASE Return(c, "refused")
    BY <1>1, <1>2, ReturnInv
  <1>3. CASE n \in catalog /\ ~Return(c, "refused")
    <2>1. Len(dirs[n].log) \in Nat
      BY DEF DatabaseInv, DatabaseTypeOK, Dir
    <2>2. PICK j : j = [Idle EXCEPT !.op = "backup", !.st = "flush", !.name = n, !.source = b,
                                    !.floor = Len(dirs[n].log)]
      OBVIOUS
    <2>3. /\ j \in Job /\ j.op = "backup" /\ j.st = "flush" /\ j.name = n /\ j.source = b
          /\ j.copy = Absent /\ j.floor = Len(dirs[n].log)
      BY <2>1, <2>2, DirFacts, ZenonT(20) DEF Idle, Job
    <2>4. job' = [job EXCEPT ![c] = j]
      BY <1>3, <2>2 DEF BackupCollection
    <2>5. j.st \in StagesOf(j.op) /\ ~Holder(j) /\ Counted(j.copy.log) /\ BackupSound(j)
      BY <1>3, <2>1, <2>3, DirFacts DEF StagesOf, Holder, BackupSound
    <2> QED
      BY <1>1, <2>3, <2>4, <2>5, JobOnly, ZenonT(20)
  <1> QED
    BY <1>2, <1>3 DEF BackupCollection

(* What a caller that backs up may rely on. *)
LEMMA BackupFacts ==
    ASSUME DatabaseInv, NEW c \in Callers, job[c].op = "backup"
    PROVE  /\ up /\ BackupSound(job[c]) /\ job[c] \in Job /\ Counted(job[c].copy.log)
           /\ job[c].name \in catalog /\ job[c].name \in Names /\ job[c].source \in Backups
           /\ dirs[job[c].name] \in Dir /\ Counted(dirs[job[c].name].log)
           /\ Len(dirs[job[c].name].log) \in Nat
           /\ dirs[job[c].name].st \in {"whole", "damaged"}
           /\ job[c].floor <= Len(dirs[job[c].name].log)
  <1>1. job[c] # Idle
    BY DirFacts
  <1>2. up /\ BackupSound(job[c]) /\ job[c] \in Job /\ Counted(job[c].copy.log)
    BY <1>1 DEF DatabaseInv, CatalogSound, DatabaseTypeOK, LogsCounted
  <1>3. /\ job[c].name \in catalog /\ job[c].source \in Backups
        /\ job[c].floor <= Len(dirs[job[c].name].log)
    BY <1>2 DEF BackupSound
  <1>4. job[c].name \in Names /\ dirs[job[c].name] \in Dir /\ Counted(dirs[job[c].name].log)
    BY <1>3 DEF DatabaseInv, DatabaseTypeOK, LogsCounted
  <1>5. dirs[job[c].name].st \in {"whole", "damaged"}
    BY <1>3 DEF DatabaseInv, CatalogSound, Discovered
  <1>6. Len(dirs[job[c].name].log) \in Nat
    BY <1>4 DEF Dir
  <1> QED
    BY <1>2, <1>3, <1>4, <1>5, <1>6

(* flush_snapshot, and the read lock of backup_to *)
LEMMA SnapshotInv ==
    ASSUME DatabaseInv, NEW c \in Callers, FlushSnapshot(c) \/ LockBackup(c)
    PROVE  DatabaseInv'
  <1>0. job[c].op = "backup" /\ UNCHANGED <<up, catalog, dirs, backups, created>>
    BY DEF FlushSnapshot, LockBackup, At
  <1> DEFINE d == dirs[job[c].name]
             n == Len(d.log)
  <1>1. job[c] \in Job /\ n \in Nat /\ job \in [Callers -> Job]
    BY <1>0, BackupFacts DEF DatabaseInv, DatabaseTypeOK
  <1>2. PICK j \in Job :
            /\ job' = [job EXCEPT ![c] = j]
            /\ j.op = "backup" /\ j.st \in {"publish", "copy"} /\ j.name = job[c].name
            /\ j.source = job[c].source /\ j.copy = job[c].copy /\ j.sequence = n
            /\ j.floor = job[c].floor
    <2>1. CASE FlushSnapshot(c)
      <3>1. PICK k \in BOOLEAN : k = (d.flushed <= 0)
        <4>1. (d.flushed <= 0) \in BOOLEAN
          OBVIOUS
        <4> QED
          BY <4>1, Zenon
      <3>2. PICK j : j = [job[c] EXCEPT !.st = "publish", !.sequence = n, !.compact = k]
        OBVIOUS
      <3>3. job' = [job EXCEPT ![c] = j]
        BY <2>1, <3>1, <3>2, ZenonT(20) DEF FlushSnapshot
      <3>4. /\ j \in Job /\ j.op = job[c].op /\ j.st = "publish" /\ j.name = job[c].name
            /\ j.source = job[c].source /\ j.copy = job[c].copy /\ j.sequence = n
            /\ j.floor = job[c].floor
        BY <1>1, <3>2, ZenonT(20) DEF Job
      <3> QED
        BY <1>0, <3>3, <3>4, ZenonT(20)
    <2>2. CASE LockBackup(c)
      <3>2. PICK j : j = [job[c] EXCEPT !.st = "copy", !.compact = FALSE, !.sequence = n]
        OBVIOUS
      <3>3. job' = [job EXCEPT ![c] = j]
        BY <2>2, <3>2, ZenonT(20) DEF LockBackup
      <3>4. /\ j \in Job /\ j.op = job[c].op /\ j.st = "copy" /\ j.name = job[c].name
            /\ j.source = job[c].source /\ j.copy = job[c].copy /\ j.sequence = n
            /\ j.floor = job[c].floor
        BY <1>1, <3>2, ZenonT(20) DEF Job
      <3> QED
        BY <1>0, <3>3, <3>4, ZenonT(20)
    <2> QED
      BY <2>1, <2>2
  <1>5. j.st \in StagesOf(j.op) /\ ~Holder(j) /\ Counted(j.copy.log)
    BY <1>0, <1>2, BackupFacts DEF StagesOf, Holder
  <1>6. BackupSound(j)
    BY <1>0, <1>2, BackupFacts, ZenonT(60) DEF BackupSound
  <1> QED
    BY <1>0, <1>2, <1>5, <1>6, BackupFacts, JobOnly, ZenonT(20)

(* publish_flush: the log stays, and no one is copying. *)
LEMMA PublishFlushInv ==
    ASSUME DatabaseInv, NEW c \in Callers, PublishFlush(c)
    PROVE  DatabaseInv'
  <1> DEFINE n == job[c].name
  <1>0. /\ job[c].op = "backup" /\ ~ReadLocked(n)
        /\ UNCHANGED <<up, catalog, backups, created>>
    BY DEF PublishFlush, At
  <1>1. CASE Return(c, "corrupt") /\ UNCHANGED dirs
    BY <1>0, <1>1, BackupFacts, ReturnInv
  <1>2. CASE dirs[n].st # "damaged" /\ Goto(c, "lock")
    <2>1. PICK j : j = [job[c] EXCEPT !.st = "lock"]
      BY ZenonT(20)
    <2>2. job' = [job EXCEPT ![c] = j]
      BY <1>2, <2>1 DEF Goto
    <2>3. /\ j \in Job /\ j.op = "backup" /\ j.st = "lock" /\ j.name = n
          /\ j.source = job[c].source /\ j.floor = job[c].floor /\ Counted(j.copy.log)
      BY <1>0, <2>1, GotoFacts
    <2>4. j.st \in StagesOf(j.op) /\ ~Holder(j)
      BY <2>3 DEF StagesOf, Holder
    <2>5. PICK d \in Dir : d.log = dirs[n].log /\ d.st \in {"whole", "damaged"}
                           /\ dirs' = [dirs EXCEPT ![n] = d]
      <3>1. dirs[n] \in Dir /\ dirs \in [Names -> Dir] /\ n \in Names /\ job[c].sequence \in Nat
        BY <1>0, BackupFacts, ZenonT(20) DEF DatabaseInv, DatabaseTypeOK, Job
      <3>2. CASE UNCHANGED dirs
        <4>1. dirs' = [dirs EXCEPT ![n] = dirs[n]]
          BY <3>1, <3>2
        <4> QED
          BY <1>0, <3>1, <4>1, BackupFacts, ZenonT(20)
      <3>3. CASE ~UNCHANGED dirs
        <4>1. PICK s \in {"damaged", dirs[n].st} :
                dirs' = [dirs EXCEPT ![n].flushed = job[c].sequence, ![n].st = s]
          BY <1>2, <3>3, ZenonT(20) DEF PublishFlush
        <4>2. PICK d : d = [dirs[n] EXCEPT !.flushed = job[c].sequence, !.st = s]
          OBVIOUS
        <4>e. PICK e \in Dir : e = dirs[n]
          BY <3>1
        <4>q. PICK q \in Int : q = job[c].sequence
          BY <3>1
        <4>3. s \in {"whole", "damaged"}
          BY <1>0, <4>1, BackupFacts
        <4>4. d \in Dir /\ d.log = dirs[n].log /\ d.st = s
          <5>1. d = [e EXCEPT !.flushed = q, !.st = s]
            BY <4>2, <4>e, <4>q
          <5>2. d \in Dir /\ d.log = e.log /\ d.st = s
            BY <5>1, <4>3, <4>e, <4>q, ZenonT(20) DEF Dir
          <5> QED
            BY <5>2, <4>e
        <4>5. dirs' = [dirs EXCEPT ![n] = d]
          BY <3>1, <4>1, <4>2, ZenonT(20)
        <4> QED
          BY <4>3, <4>4, <4>5, ZenonT(20)
      <3> QED
        BY <3>2, <3>3
    <2>6. /\ dirs'[n] = d /\ \A m \in Names : m # n => dirs'[m] = dirs[m]
          /\ dirs' \in [Names -> Dir] /\ catalog \subseteq Names /\ n \in Names
      BY <1>0, <2>5, BackupFacts DEF DatabaseInv, DatabaseTypeOK
    <2>7. \A m \in Names : Counted(dirs'[m].log) /\ dirs'[m].log = dirs[m].log
      BY <2>5, <2>6 DEF DatabaseInv, LogsCounted
    <2>8. \A m \in catalog : dirs'[m].st \in {"whole", "damaged"} /\ dirs'[m].log = dirs[m].log
      BY <2>5, <2>6, <2>7 DEF DatabaseInv, CatalogSound, Discovered
    <2>9. \A m \in catalog : dirs'[m] = dirs[m] \/ ~ReadLocked(m)
      BY <1>0, <2>6
    <2>10. BackupSound(j)'
      <3>1. j.name \in catalog' /\ j.source \in Backups /\ j.floor <= Len(dirs[n].log)
        BY <1>0, <2>3, BackupFacts
      <3> QED
        BY <2>3, <2>5, <2>6, <3>1 DEF BackupSound
    <2> QED
      BY <1>0, <2>2, <2>3, <2>4, <2>6, <2>7, <2>8, <2>9, <2>10, BackupFacts, JobStep, ZenonT(20)
  <1> QED
    BY <1>1, <1>2 DEF PublishFlush

(* copy_collection_directory *)
LEMMA CopyBackupInv ==
    ASSUME DatabaseInv, NEW c \in Callers, CopyBackup(c)
    PROVE  DatabaseInv'
  <1>0. /\ job[c].op = "backup" /\ job[c].st = "copy"
        /\ UNCHANGED <<up, catalog, dirs, backups, created>>
    BY DEF CopyBackup, At
  <1>1. CASE Return(c, "refused") \/ Return(c, "corrupt")
    BY <1>0, <1>1, BackupFacts, ReturnInv
  <1>2. CASE job' = [job EXCEPT ![c].st = "rename", ![c].copy = dirs[job[c].name]]
    <2>0. job[c] \in Job /\ dirs[job[c].name] \in Dir
      BY <1>0, BackupFacts
    <2>1. PICK j : j = [job[c] EXCEPT !.st = "rename", !.copy = dirs[job[c].name]]
      OBVIOUS
    <2>2. job' = [job EXCEPT ![c] = j]
      BY <1>2, <2>1, ZenonT(20)
    <2>3. /\ j \in Job /\ j.op = job[c].op /\ j.st = "rename" /\ j.name = job[c].name
          /\ j.source = job[c].source /\ j.floor = job[c].floor /\ j.sequence = job[c].sequence
          /\ j.copy = dirs[job[c].name]
      BY <2>0, <2>1, ZenonT(20) DEF Job
    <2>4. j.st \in StagesOf(j.op) /\ ~Holder(j) /\ Counted(j.copy.log)
      BY <1>0, <2>3, BackupFacts DEF StagesOf, Holder
    <2>5. BackupSound(j)
      BY <1>0, <2>3, BackupFacts, ZenonT(60) DEF BackupSound
    <2> QED
      BY <1>0, <2>2, <2>3, <2>4, <2>5, BackupFacts, JobOnly, ZenonT(20)
  <1> QED
    BY <1>1, <1>2 DEF CopyBackup

(* The rename of a copy to its place: the only step that makes a backup. *)
LEMMA RenameBackupInv ==
    ASSUME DatabaseInv, NEW c \in Callers, RenameBackup(c)
    PROVE  DatabaseInv'
  <1> DEFINE b == job[c].source
  <1>0. /\ job[c].op = "backup" /\ job[c].st = "rename"
        /\ UNCHANGED <<up, catalog, dirs, created>>
    BY DEF RenameBackup, At
  <1>1. CASE Return(c, "io") /\ UNCHANGED backups
    BY <1>0, <1>1, BackupFacts, ReturnInv
  <1>2. CASE /\ backups[b] = Absent /\ Goto(c, "sync")
             /\ backups' = [backups EXCEPT ![b] = job[c].copy]
    <2>1. PICK j : j = [job[c] EXCEPT !.st = "sync"]
      BY ZenonT(20)
    <2>2. job' = [job EXCEPT ![c] = j]
      BY <1>2, <2>1 DEF Goto
    <2>3. /\ j \in Job /\ j.op = "backup" /\ j.st = "sync" /\ j.name = job[c].name
          /\ j.source = b /\ j.floor = job[c].floor /\ j.sequence = job[c].sequence
          /\ j.copy = job[c].copy /\ Counted(j.copy.log)
      BY <1>0, <2>1, GotoFacts
    <2>4. j.st \in StagesOf(j.op) /\ ~Holder(j)
      BY <2>3 DEF StagesOf, Holder
    <2>5. /\ job[c].copy = dirs[job[c].name] /\ job[c].sequence = Len(dirs[job[c].name].log)
          /\ job[c].copy \in Dir
      BY <1>0, BackupFacts, ZenonT(60) DEF BackupSound
    <2>6. backups'[b] = job[c].copy /\ \A e \in Backups : e # b => backups'[e] = backups[e]
      BY <1>0, <1>2, BackupFacts DEF DatabaseInv, DatabaseTypeOK
    <2>7. job'[c] = j /\ \A d \in Callers : d # c => job'[d] = job[d]
      BY <2>2 DEF DatabaseInv, DatabaseTypeOK
    <2>8. DatabaseTypeOK'
      BY <1>0, <1>2, <2>2, <2>3, <2>5, ZenonT(20) DEF DatabaseInv, DatabaseTypeOK
    <2>9. LogsCounted'
      BY <1>0, <2>3, <2>6, <2>7 DEF DatabaseInv, LogsCounted
    <2>10. CatalogSound'
      <3>1. \A d \in Callers : job'[d].st \in StagesOf(job'[d].op)
        BY <2>4, <2>7 DEF DatabaseInv, CatalogSound
      <3>2. \A d \in Callers : Holder(job'[d]) => job'[d] = job[d]
        BY <2>4, <2>7
      <3>3. up
        BY <1>0, BackupFacts
      <3> QED
        BY <1>0, <3>1, <3>2, <3>3 DEF DatabaseInv, CatalogSound, CatalogRecovered, Discovered
    <2>11. ASSUME NEW d \in Callers PROVE BackupSound(job[d])'
      <3>1. CASE d = c
        <4>1. job[c].copy # Absent
          BY <1>0, <2>5, BackupFacts DEF Absent
        <4>2. job[c].name \in catalog /\ b \in Backups /\ job[c].floor <= Len(dirs[job[c].name].log)
              /\ Len(dirs[job[c].name].log) \in Nat
          BY <1>0, BackupFacts
        <4> QED
          <5>1. BackupSound(j)'
            BY <1>0, <2>3, <2>5, <2>6, <4>1, <4>2 DEF BackupSound
          <5> QED
            BY <2>7, <3>1, <5>1
      <3>2. CASE d # c
        <4>1. BackupSound(job[d]) /\ job'[d] = job[d]
          BY <2>7, <3>2 DEF DatabaseInv
        <4>2. \A e \in Backups : backups[e] # Absent => backups'[e] = backups[e]
          BY <1>2, <2>6
        <4> QED
          BY <1>0, <4>1, <4>2, ZenonT(60) DEF BackupSound
      <3> QED
        BY <3>1, <3>2
    <2> QED
      BY <2>8, <2>9, <2>10, <2>11 DEF DatabaseInv
  <1> QED
    BY <1>1, <1>2 DEF RenameBackup

(* backup_to returns its sequence. *)
LEMMA FinishBackupInv ==
    ASSUME DatabaseInv, NEW c \in Callers, FinishBackup(c)
    PROVE  DatabaseInv'
  <1>0. /\ job[c].op = "backup" /\ job[c].st = "sync"
        /\ UNCHANGED <<up, catalog, dirs, backups, created>>
    BY DEF FinishBackup, At
  <1>1. job[c] \in Job
    BY <1>0, BackupFacts
  <1>2. PICK j : j = [job[c] EXCEPT !.st = "ok", !.copy = Absent]
    OBVIOUS
  <1>3. job' = [job EXCEPT ![c] = j]
    BY <1>0, <1>2 DEF FinishBackup, Return
  <1>4. /\ j \in Job /\ j.op = job[c].op /\ j.st = "ok" /\ j.name = job[c].name
        /\ j.source = job[c].source /\ j.floor = job[c].floor /\ j.sequence = job[c].sequence
        /\ j.copy = Absent
    BY <1>1, <1>2, DirFacts, ZenonT(20) DEF Job
  <1>5. j.st \in StagesOf(j.op) /\ ~Holder(j) /\ Counted(j.copy.log)
    BY <1>0, <1>4, DirFacts DEF StagesOf, Holder
  <1>6. BackupSound(j)
    BY <1>0, <1>4, BackupFacts, ZenonT(60) DEF BackupSound
  <1> QED
    BY <1>0, <1>3, <1>4, <1>5, <1>6, BackupFacts, JobOnly, ZenonT(20)

-------------------------------------------------------------------------------
(* restore_collection *)
LEMMA RestoreInv ==
    ASSUME DatabaseInv, NEW c \in Callers, NEW n \in Names, NEW b \in Backups,
           RestoreCollection(c, b, n)
    PROVE  DatabaseInv'
  <1>1. /\ up /\ (\A d \in Callers : ~Holder(job[d]))
        /\ UNCHANGED <<up, catalog, dirs, backups, created>>
    BY DEF RestoreCollection, May, CatalogLocked, Holder
  <1>2. CASE Return(c, "refused")
    BY <1>1, <1>2, ReturnInv
  <1>3. CASE n \notin catalog /\ ~Return(c, "refused")
    <2>1. backups[b] \in Dir /\ Counted(backups[b].log)
      BY ZenonT(60) DEF DatabaseInv, DatabaseTypeOK, LogsCounted
    <2>2. PICK j : j = [Idle EXCEPT !.op = "restore", !.st = "rename", !.name = n,
                                    !.copy = backups[b]]
      OBVIOUS
    <2>3. /\ j \in Job /\ j.op = "restore" /\ j.st = "rename" /\ j.name = n
          /\ j.copy = backups[b]
      BY <2>1, <2>2, DirFacts, ZenonT(20) DEF Idle, Job
    <2>4. job' = [job EXCEPT ![c] = j]
      BY <1>3, <2>2 DEF RestoreCollection
    <2>5. j.st \in StagesOf(j.op) /\ Counted(j.copy.log) /\ BackupSound(j)
      BY <2>1, <2>3 DEF StagesOf, BackupSound
    <2> QED
      BY <1>1, <1>3, <2>3, <2>4, <2>5, JobOnly, ZenonT(20)
  <1> QED
    BY <1>1, <1>2, <1>3 DEF RestoreCollection

(* The copy takes its place, or is removed: no collection of the catalog is concerned. *)
LEMMA RestoreStepInv ==
    ASSUME DatabaseInv, NEW c \in Callers, RenameRestore(c) \/ RemoveDirectory(c)
    PROVE  DatabaseInv'
  <1> DEFINE n == job[c].name
  <1>0. /\ Holder(job[c]) /\ job[c].op = "restore" /\ UNCHANGED <<up, catalog, backups, created>>
    BY DEF RenameRestore, RemoveDirectory, At, Holder, Finished
  <1>1. up /\ n \in Names /\ n \notin catalog /\ \A d \in Callers : d # c => ~Holder(job[d])
    BY <1>0, HolderFacts
  <1>2. job[c] \in Job /\ Counted(job[c].copy.log)
    BY DEF DatabaseInv, DatabaseTypeOK, LogsCounted
  <1>3. PICK d \in Dir : Counted(d.log) /\ dirs' = [dirs EXCEPT ![n] = d]
    <2>1. job[c].copy \in Dir
      BY <1>2, ZenonT(20) DEF Job
    <2> QED
      BY <1>2, <2>1, DirFacts DEF RenameRestore, RemoveDirectory
  <1>4. /\ dirs' \in [Names -> Dir] /\ \A m \in Names : Counted(dirs'[m].log)
        /\ \A m \in catalog : dirs'[m].st \in {"whole", "damaged"} /\ dirs'[m].log = dirs[m].log
        /\ \A m \in catalog : dirs'[m] = dirs[m]
    BY <1>1, <1>3, OtherDirs, ZenonT(20)
  <1>5. PICK j \in Job : /\ job' = [job EXCEPT ![c] = j] /\ j.st \in StagesOf(j.op)
                         /\ j.copy = Absent /\ j.op # "backup"
                         /\ Holder(j) => j.name = n
    <2>1. CASE RenameRestore(c)
      <3>1. PICK j : j = [job[c] EXCEPT !.st = "sync", !.copy = Absent]
        OBVIOUS
      <3>2. /\ j \in Job /\ j.op = job[c].op /\ j.st = "sync" /\ j.name = n
            /\ j.copy = Absent
        BY <1>2, <3>1, DirFacts, ZenonT(20) DEF Job
      <3>3. job' = [job EXCEPT ![c] = j]
        BY <2>1, <3>1, ZenonT(20) DEF RenameRestore
      <3>4. j.st \in StagesOf(j.op)
        BY <1>0, <3>2 DEF StagesOf
      <3> QED
        BY <1>0, <3>2, <3>3, <3>4, ZenonT(20)
    <2>2. CASE RemoveDirectory(c)
      <3>1. job' = [job EXCEPT ![c] = Idle]
        BY <1>0, <2>2 DEF RemoveDirectory, Return
      <3> QED
        BY <3>1, DirFacts, ZenonT(20)
    <2> QED
      BY <2>1, <2>2
  <1>6. BackupSound(j)' /\ Counted(j.copy.log)
    BY <1>5, DirFacts DEF BackupSound
  <1> QED
    BY <1>0, <1>1, <1>4, <1>5, <1>6, JobStep, ZenonT(20)

(* The steps of a restoration that only change its stage, and an I/O error of any step. *)
LEMMA StageInv ==
    ASSUME DatabaseInv, NEW c \in Callers, SyncRestore(c) \/ Fail(c)
    PROVE  DatabaseInv'
  <1>0. UNCHANGED <<up, catalog, dirs, backups, created>>
    BY DEF SyncRestore, Fail
  <1>1. CASE Return(c, "io") /\ job[c].st \notin Finished
    <2>1. up
      BY <1>1, Running DEF Finished
    <2> QED
      BY <1>0, <1>1, <2>1, ReturnInv
  <1>2. ASSUME NEW s \in {"open", "remove"}, Goto(c, s), job[c].op = "restore",
               job[c].st \notin Finished
        PROVE  DatabaseInv'
    <2>1. Holder(job[c])
      BY <1>2 DEF Holder
    <2>2. PICK j : j = [job[c] EXCEPT !.st = s]
      BY ZenonT(20)
    <2>3. job' = [job EXCEPT ![c] = j]
      BY <1>2, <2>2 DEF Goto
    <2>4. j \in Job /\ j.op = "restore" /\ j.st = s /\ j.name = job[c].name /\ Counted(j.copy.log)
      <3>1. s \in {"rename", "open", "lock", "sync", "remove"}
        OBVIOUS
      <3> QED
        BY <1>2, <2>2, <3>1, GotoFacts
    <2>5. j.st \in StagesOf(j.op) /\ BackupSound(j)
      BY <2>4 DEF StagesOf, BackupSound
    <2> QED
      BY <1>0, <2>1, <2>3, <2>4, <2>5, HolderFacts, JobOnly, ZenonT(20)
  <1>3. CASE SyncRestore(c)
    BY <1>2, <1>3 DEF SyncRestore, At, Finished
  <1>4. CASE Fail(c)
    BY <1>1, <1>2, <1>4 DEF Fail, At, Finished
  <1> QED
    BY <1>3, <1>4

-------------------------------------------------------------------------------
(* A batch is added to a log that nobody is copying. *)
LEMMA UpsertInv ==
    ASSUME DatabaseInv, NEW n \in Names, Upsert(n)
    PROVE  DatabaseInv'
  <1>0. /\ n \in catalog /\ ~ReadLocked(n)
        /\ UNCHANGED <<up, catalog, backups, job, created>>
    BY DEF Upsert
  <1>1. PICK old \in Seq(Nat) : old = dirs[n].log /\ Counted(old)
    BY DEF DatabaseInv, DatabaseTypeOK, Dir, LogsCounted
  <1>2. PICK new : new = Append(old, Len(old) + 1)
    BY ZenonT(20)
  <1>3. new \in Seq(Nat) /\ Len(new) = Len(old) + 1 /\ Counted(new)
    BY <1>1, <1>2 DEF Counted
  <1>4. dirs' = [dirs EXCEPT ![n].log = new] /\ dirs \in [Names -> Dir]
    BY <1>1, <1>2 DEF Upsert, DatabaseInv, DatabaseTypeOK
  <1>5. PICK d : d = [dirs[n] EXCEPT !.log = new]
    BY ZenonT(20)
  <1>6. d \in Dir /\ d.log = new /\ d.st = dirs[n].st
    BY <1>3, <1>4, <1>5, ZenonT(20) DEF Dir
  <1>7. /\ dirs' \in [Names -> Dir] /\ dirs'[n] = d /\ \A m \in Names : m # n => dirs'[m] = dirs[m]
    BY <1>4, <1>5, <1>6
  <1>8. DatabaseTypeOK'
    BY <1>0, <1>7 DEF DatabaseInv, DatabaseTypeOK
  <1>9. LogsCounted'
    BY <1>0, <1>3, <1>6, <1>7 DEF DatabaseInv, LogsCounted
  <1>10. CatalogSound'
    <2>1. \A m \in Names : dirs'[m].st = dirs[m].st
      BY <1>6, <1>7
    <2>2. catalog \subseteq Names /\ created \subseteq Names
      BY DEF DatabaseInv, DatabaseTypeOK
    <2> QED
      BY <1>0, <2>1, <2>2, ZenonT(60) DEF DatabaseInv, CatalogSound, CatalogRecovered, Discovered
  <1>11. ASSUME NEW c \in Callers PROVE BackupSound(job[c])'
    <2>1. BackupSound(job[c])
      BY DEF DatabaseInv
    <2>2. CASE job[c].op = "backup" /\ job[c].name = n
      <3>1. job[c].st \notin {"copy", "rename", "sync"}
        BY <1>0, <2>2 DEF ReadLocked
      <3>2. Len(old) \in Nat /\ job[c].floor \in Nat /\ job[c].sequence \in Nat
        <4>1. job[c] \in Job
          BY DEF DatabaseInv, DatabaseTypeOK
        <4>2. job[c].floor \in Nat /\ job[c].sequence \in Nat
          BY <4>1, ZenonT(20) DEF Job
        <4> QED
          BY <1>1, <4>2
      <3> QED
        BY <1>0, <1>1, <1>3, <1>6, <1>7, <2>1, <2>2, <3>1, <3>2, SMTT(60) DEF BackupSound
    <2>3. CASE job[c].op = "backup" /\ job[c].name # n
      <3>1. dirs'[job[c].name] = dirs[job[c].name]
        BY <1>7, <2>3, BackupFacts
      <3> QED
        BY <1>0, <2>1, <3>1, ZenonT(60) DEF BackupSound
    <2>4. CASE job[c].op # "backup"
      BY <1>0, <2>4 DEF BackupSound
    <2> QED
      BY <2>2, <2>3, <2>4
  <1> QED
    BY <1>8, <1>9, <1>10, <1>11 DEF DatabaseInv


(* What a crash leaves: only the directory of a restoration that failed is not as it was,  *)
(* and that one was never in the catalog.                                                  *)
LEMMA CrashDatabaseInv ==
    ASSUME DatabaseInv, Crash
    PROVE  DatabaseInv'
  <1>0. /\ up /\ up' = FALSE /\ catalog' = {} /\ job' = [c \in Callers |-> Idle]
        /\ UNCHANGED <<backups, created>>
    BY DEF Crash
  <1>1. PICK left \in [Names -> UNION {Leftovers(n) : n \in Names}] :
          (\A n \in Names : left[n] \in Leftovers(n)) /\ dirs' = left
    BY DEF Crash
  <1>2. \A n \in Names : dirs[n] \in Dir /\ Counted(dirs[n].log)
    BY DEF DatabaseInv, DatabaseTypeOK, LogsCounted
  <1>3. ASSUME NEW n \in Names PROVE left[n] \in Dir /\ Counted(left[n].log)
    <2>1. left[n] \in {dirs[n], [dirs[n] EXCEPT !.st = "damaged"],
                       [dirs[n] EXCEPT !.st = "empty"], Absent}
      BY <1>1 DEF Leftovers
    <2>2. ASSUME NEW s \in {"damaged", "empty"}, left[n] = [dirs[n] EXCEPT !.st = s]
          PROVE  left[n] \in Dir /\ left[n].log = dirs[n].log
      <3>1. dirs[n] \in Dir
        BY <1>2
      <3> QED
        BY <2>2, <3>1, ZenonT(60) DEF Dir
    <2>3. CASE left[n] = [dirs[n] EXCEPT !.st = "damaged"]
      BY <1>2, <2>2, <2>3
    <2>4. CASE left[n] = [dirs[n] EXCEPT !.st = "empty"]
      BY <1>2, <2>2, <2>4
    <2>5. CASE left[n] = dirs[n] \/ left[n] = Absent
      BY <1>2, <2>5, DirFacts
    <2> QED
      BY <2>1, <2>3, <2>4, <2>5
  <1>4. DatabaseTypeOK'
    <2>1. dirs' \in [Names -> Dir]
      BY <1>1, <1>3
    <2> QED
      BY <1>0, <2>1, DirFacts, ZenonT(20) DEF DatabaseInv, DatabaseTypeOK
  <1>5. LogsCounted'
    BY <1>0, <1>1, <1>3, DirFacts DEF DatabaseInv, LogsCounted
  <1>6. ASSUME NEW n \in created PROVE dirs'[n] = dirs[n]
    <2>1. n \in Names /\ n \in catalog
      BY <1>0 DEF DatabaseInv, DatabaseTypeOK, CatalogSound, CatalogRecovered
    <2>2. ~\E c \in Callers : At(c, "restore", "remove") /\ job[c].name = n
      BY <2>1 DEF DatabaseInv, CatalogSound, Holder, Finished, At
    <2> QED
      BY <1>1, <2>1, <2>2 DEF Leftovers
  <1>7. CatalogSound'
    BY <1>0, <1>6, DirFacts, ZenonT(60) DEF DatabaseInv, CatalogSound, CatalogRecovered, Discovered
  <1>8. \A c \in Callers : BackupSound(job[c])'
    BY <1>0, DirFacts DEF BackupSound
  <1> QED
    BY <1>4, <1>5, <1>7, <1>8 DEF DatabaseInv

(* Database::open *)
LEMMA OpenDatabaseInv ==
    ASSUME DatabaseInv, OpenDatabase
    PROVE  DatabaseInv'
  <1>0. /\ ~up /\ up' = TRUE /\ catalog' = {n \in Names : Discovered(n)}
        /\ UNCHANGED <<dirs, backups, job, created>>
    BY DEF OpenDatabase
  <1>1. \A c \in Callers : job[c] = Idle
    BY <1>0 DEF DatabaseInv, CatalogSound
  <1>2. DatabaseTypeOK' /\ LogsCounted'
    BY <1>0 DEF DatabaseInv, DatabaseTypeOK, LogsCounted
  <1>3. created \subseteq Names /\ \A n \in created : Discovered(n)
    BY DEF DatabaseInv, DatabaseTypeOK, CatalogSound
  <1>4. CatalogSound'
    <2>1. \A n \in Names : Discovered(n)' <=> Discovered(n)
      BY <1>0 DEF Discovered
    <2>2. created' \subseteq catalog' /\ \A n \in catalog' \union created' : Discovered(n)'
      BY <1>0, <1>3, <2>1
    <2> QED
      BY <1>0, <1>1, <2>2, DirFacts DEF CatalogSound, CatalogRecovered
  <1>5. \A c \in Callers : BackupSound(job[c])'
    BY <1>0, <1>1, DirFacts, ZenonT(60) DEF BackupSound
  <1> QED
    BY <1>2, <1>4, <1>5 DEF DatabaseInv

LEMMA InitDatabaseInv ==
    ASSUME DatabaseInit
    PROVE  DatabaseInv
  <1>1. DatabaseTypeOK
    BY DirFacts DEF DatabaseInit, DatabaseTypeOK
  <1>2. LogsCounted
    BY DirFacts DEF DatabaseInit, LogsCounted
  <1>3. CatalogSound
    BY DirFacts DEF DatabaseInit, CatalogSound, CatalogRecovered
  <1>4. \A c \in Callers : BackupSound(job[c])
    BY DirFacts DEF DatabaseInit, BackupSound
  <1> QED
    BY <1>1, <1>2, <1>3, <1>4 DEF DatabaseInv

LEMMA NextDatabaseInv ==
    ASSUME DatabaseInv, [DatabaseNext]_database
    PROVE  DatabaseInv'
  <1>1. ASSUME NEW n \in Names, Upsert(n) PROVE DatabaseInv'
    BY <1>1, UpsertInv
  <1>2. ASSUME NEW c \in Callers, NEW n \in Names, NEW config \in Configs,
               CreateCollection(c, n, config)
        PROVE  DatabaseInv'
    BY <1>2, CreateInv
  <1>3. ASSUME NEW c \in Callers, NEW n \in Names, NEW b \in Backups, BackupCollection(c, n, b)
        PROVE  DatabaseInv'
    BY <1>3, BackupCollectionInv
  <1>4. ASSUME NEW c \in Callers, NEW n \in Names, NEW b \in Backups, RestoreCollection(c, b, n)
        PROVE  DatabaseInv'
    BY <1>4, RestoreInv
  <1>5. ASSUME NEW c \in Callers, EnsureMetadata(c) \/ RenameMetadata(c) \/ OpenManaged(c)
        PROVE  DatabaseInv'
    BY <1>5, MetadataInv, OpenManagedInv
  <1>6. ASSUME NEW c \in Callers, FlushSnapshot(c) \/ PublishFlush(c) \/ LockBackup(c)
        PROVE  DatabaseInv'
    BY <1>6, SnapshotInv, PublishFlushInv
  <1>7. ASSUME NEW c \in Callers, CopyBackup(c) \/ RenameBackup(c) \/ FinishBackup(c)
        PROVE  DatabaseInv'
    BY <1>7, CopyBackupInv, RenameBackupInv, FinishBackupInv
  <1>8. ASSUME NEW c \in Callers, RenameRestore(c) \/ SyncRestore(c) \/ RemoveDirectory(c) \/ Fail(c)
        PROVE  DatabaseInv'
    BY <1>8, RestoreStepInv, StageInv
  <1>9. CASE UNCHANGED database
    BY <1>9, ZenonT(60) DEF database, DatabaseInv, DatabaseTypeOK, LogsCounted, CatalogSound, CatalogRecovered,
         Discovered, BackupSound
  <1> QED
    BY <1>1, <1>2, <1>3, <1>4, <1>5, <1>6, <1>7, <1>8, <1>9, CrashDatabaseInv, OpenDatabaseInv
    DEF DatabaseNext

(* The invariant holds in every reachable state. *)
THEOREM DatabaseInvariant == DatabaseSpec => []DatabaseInv
  <1>1. DatabaseInit => DatabaseInv
    BY InitDatabaseInv
  <1>2. DatabaseInv /\ [DatabaseNext]_database => DatabaseInv'
    BY NextDatabaseInv
  <1> QED
    BY <1>1, <1>2, PTL DEF DatabaseSpec

(* What backup_to copied is the collection at the sequence it returned, a sequence no older *)
(* than the call, for any number of callers that write, back up and restore concurrently.   *)
THEOREM BackupCommitted == DatabaseSpec => []BackupIsCommitted
  <1>1. ASSUME DatabaseInv PROVE BackupIsCommitted
    <2> SUFFICES ASSUME NEW c \in Callers, At(c, "backup", "ok")
                 PROVE  LET copied == backups[job[c].source].log
                            log == dirs[job[c].name].log
                        IN  /\ Len(copied) = job[c].sequence
                            /\ job[c].sequence >= job[c].floor /\ job[c].sequence <= Len(log)
                            /\ \A i \in 1 .. job[c].sequence : copied[i] = log[i]
      BY ZenonT(60) DEF BackupIsCommitted
    <2>1. job[c].op = "backup" /\ job[c].st = "ok"
      BY DEF At
    <2>2. /\ job[c].name \in Names /\ job[c].source \in Backups
          /\ Len(backups[job[c].source].log) = job[c].sequence
          /\ job[c].floor <= job[c].sequence /\ job[c].sequence <= Len(dirs[job[c].name].log)
      BY <1>1, <2>1 DEF DatabaseInv, DatabaseTypeOK, BackupSound
    <2>3. /\ Counted(backups[job[c].source].log) /\ Counted(dirs[job[c].name].log)
      BY <1>1, <2>2, ZenonT(60) DEF DatabaseInv, LogsCounted
    <2>4. /\ dirs[job[c].name].log \in Seq(Nat) /\ job[c].sequence \in Nat /\ job[c].floor \in Nat
      <3>1. job[c] \in Job /\ dirs[job[c].name] \in Dir
        BY <1>1, <2>2 DEF DatabaseInv, DatabaseTypeOK
      <3> QED
        BY <3>1, ZenonT(20) DEF Job, Dir
    <2>5. ASSUME NEW i \in 1 .. job[c].sequence
          PROVE  backups[job[c].source].log[i] = dirs[job[c].name].log[i]
      <3>1. i \in 1 .. Len(backups[job[c].source].log) /\ i \in 1 .. Len(dirs[job[c].name].log)
        BY <2>2, <2>4
      <3> QED
        BY <2>3, <3>1, ZenonT(60) DEF Counted
    <2> QED
      BY <2>2, <2>4, <2>5, ZenonT(60)
  <1> QED
    BY <1>1, DatabaseInvariant, PTL

(* No step changes a backup once it has its name, not even a second backup to that name.    *)
THEOREM BackupsStay == DatabaseSpec => BackupsImmutable
  <1>1. ASSUME DatabaseInv, [DatabaseNext]_database
        PROVE  [\A b \in Backups : backups[b] # Absent => backups'[b] = backups[b]]_database
    <2>1. ASSUME NEW c \in Callers, RenameBackup(c), NEW b \in Backups, backups[b] # Absent
          PROVE  backups'[b] = backups[b]
      BY <1>1, <2>1 DEF RenameBackup, DatabaseInv, DatabaseTypeOK
    <2>2. \/ UNCHANGED backups
          \/ \E c \in Callers : RenameBackup(c)
      BY <1>1, ZenonT(60) DEF database, DatabaseNext, Upsert, CreateCollection, BackupCollection, RestoreCollection,
           EnsureMetadata, RenameMetadata, OpenManaged, FlushSnapshot, PublishFlush, LockBackup,
           CopyBackup, FinishBackup, RenameRestore, SyncRestore, RemoveDirectory, Fail, Crash,
           OpenDatabase
    <2> QED
      BY <2>1, <2>2
  <1> QED
    BY <1>1, DatabaseInvariant, PTL DEF DatabaseSpec, BackupsImmutable

(* Every collection that create_collection or restore_collection reported is served whenever *)
(* the database is open, after any crash between any two steps.                              *)
THEOREM CatalogComplete == DatabaseSpec => []CatalogRecovered
  <1>1. DatabaseInv => CatalogRecovered
    BY DEF DatabaseInv, CatalogSound
  <1> QED
    BY <1>1, DatabaseInvariant, PTL

-------------------------------------------------------------------------------
Call == [st : {"idle", "arrived", "job", "done", "failed", "ok", "refused", "error"},
         free : BOOLEAN, authorized : BOOLEAN, valid : BOOLEAN, gone : BOOLEAN]

AdmissionTypeOK ==
    transport \in {"http", "local"} /\ conn \in [Calls -> Call] /\ permits \in Nat

Jobs == {c \in Calls : InJob(c)}

(* A job was authorized; what was applied was authorized and within the limits, and its *)
(* job is over; only what was applied is counted.                                       *)
JobsAdmitted ==
    /\ \A c \in Calls :
         /\ conn[c].st \in {"job", "done", "failed"} => conn[c].authorized
         /\ conn[c].st = "done" => c \in applied
         /\ conn[c].st = "ok" /\ ~conn[c].free => c \in applied
    /\ \A c \in applied :
         /\ c \in Calls /\ conn[c].st \in {"done", "failed", "ok", "error"}
         /\ conn[c].authorized /\ conn[c].valid
    /\ counted \subseteq applied

AdmissionInv == AdmissionTypeOK /\ PermitsConserved /\ JobsAdmitted

-------------------------------------------------------------------------------
(* The number of jobs after one begins, and after one ends. *)
LEMMA JobBegins ==
    ASSUME NEW c \in Calls, NEW jobs, jobs \subseteq Calls, c \notin jobs
    PROVE  /\ Cardinality(jobs) \in Nat
           /\ Cardinality(jobs \union {c}) = Cardinality(jobs) + 1
  <1>1. IsFiniteSet(jobs)  BY AdmissionConstants, FS_Subset
  <1> QED  BY <1>1, FS_AddElement, FS_CardinalityType

LEMMA JobEnds ==
    ASSUME NEW jobs, jobs \subseteq Calls, NEW c \in jobs
    PROVE  /\ Cardinality(jobs) \in Nat
           /\ Cardinality(jobs \ {c}) = Cardinality(jobs) - 1
  <1>1. IsFiniteSet(jobs)  BY AdmissionConstants, FS_Subset
  <1> QED  BY <1>1, FS_RemoveElement, FS_CardinalityType

LEMMA AdmissionInitInv == AdmissionInit => AdmissionInv
  <1> SUFFICES ASSUME AdmissionInit PROVE AdmissionInv  OBVIOUS
  <1>1. AdmissionTypeOK
    BY AdmissionConstants DEF AdmissionInit, AdmissionTypeOK, NewCall, Call
  <1>2. {c \in Calls : InJob(c)} = {}  BY DEF AdmissionInit, InJob, NewCall
  <1>3. PermitsConserved
    BY <1>2, FS_EmptySet, AdmissionConstants DEF AdmissionInit, PermitsConserved
  <1>4. JobsAdmitted  BY DEF AdmissionInit, JobsAdmitted, NewCall
  <1> QED  BY <1>1, <1>3, <1>4 DEF AdmissionInv

(* A step that changes neither which calls are in a job nor the permits. *)
LEMMA JobsUnchanged ==
    ASSUME PermitsConserved, permits' = permits,
           \A c \in Calls : InJob(c)' <=> InJob(c)
    PROVE  PermitsConserved'
  <1>1. {c \in Calls : InJob(c)'} = {c \in Calls : InJob(c)}  OBVIOUS
  <1> QED  BY <1>1 DEF PermitsConserved

(* What happens to one call c: its state becomes st and nothing else changes. *)
LEMMA OneCall ==
    ASSUME AdmissionTypeOK, NEW c \in Calls, NEW r \in Call, conn' = [conn EXCEPT ![c] = r],
           permits' \in Nat, transport' = transport
    PROVE  /\ AdmissionTypeOK'
           /\ conn'[c] = r
           /\ \A d \in Calls \ {c} : conn'[d] = conn[d]
  BY DEF AdmissionTypeOK

LEMMA StepArrive ==
    ASSUME AdmissionInv, NEW c \in Calls, NEW free \in BOOLEAN, NEW authorized \in BOOLEAN,
           NEW valid \in BOOLEAN, Arrive(c, free, authorized, valid)
    PROVE  AdmissionInv'
  <1> DEFINE r == [NewCall EXCEPT !.st = "arrived", !.free = free,
                                  !.authorized = authorized, !.valid = valid]
  <1>1. r \in Call /\ r.st = "arrived"  BY ZenonT(20) DEF NewCall, Call
  <1>2. conn' = [conn EXCEPT ![c] = r] /\ permits' = permits /\ transport' = transport
    BY DEF Arrive
  <1> HIDE DEF r
  <1>3. AdmissionTypeOK' /\ conn'[c] = r /\ \A d \in Calls \ {c} : conn'[d] = conn[d]
    BY <1>1, <1>2, OneCall DEF AdmissionInv, AdmissionTypeOK
  <1>4. conn[c].st = "idle"  BY DEF Arrive
  <1>5. PermitsConserved'
    <2>1. \A d \in Calls : InJob(d)' <=> InJob(d)  BY <1>1, <1>3, <1>4 DEF InJob
    <2> QED  BY <2>1, <1>2, JobsUnchanged DEF AdmissionInv
  <1>6. JobsAdmitted'
    <2>1. applied' = applied /\ counted' = counted  BY DEF Arrive
    <2>2. c \notin applied  BY <1>4 DEF AdmissionInv, JobsAdmitted
    <2> QED  BY <2>1, <2>2, <1>1, <1>3 DEF AdmissionInv, JobsAdmitted
  <1> QED  BY <1>3, <1>5, <1>6 DEF AdmissionInv

LEMMA StepHandle ==
    ASSUME AdmissionInv, NEW c \in Calls, Handle(c)
    PROVE  AdmissionInv'
  <1>1. conn[c].st = "arrived" /\ conn[c] \in Call /\ conn \in [Calls -> Call] /\ permits \in Nat
    BY DEF Handle, AdmissionInv, AdmissionTypeOK
  <1>2. applied' = applied /\ counted' = counted /\ transport' = transport  BY DEF Handle
  <1>3. c \notin applied  BY <1>1 DEF AdmissionInv, JobsAdmitted
  <1>4. CASE permits' = permits
             /\ \/ conn' = [conn EXCEPT ![c].st = "refused"]
                \/ conn[c].free /\ conn' = [conn EXCEPT ![c].st = "ok"]
    <2>1. PICK st \in {"refused", "ok"} : /\ conn' = [conn EXCEPT ![c] = [@ EXCEPT !.st = st]]
                                          /\ st = "ok" => conn[c].free
      BY <1>4
    <2> DEFINE r == [conn[c] EXCEPT !.st = st]
    <2>2. r \in Call /\ r.st = st /\ r.free = conn[c].free  BY <1>1 DEF Call
    <2>3. conn' = [conn EXCEPT ![c] = r]  BY <2>1
    <2> HIDE DEF r
    <2>4. AdmissionTypeOK' /\ conn'[c] = r /\ \A d \in Calls \ {c} : conn'[d] = conn[d]
      BY <1>1, <1>2, <1>4, <2>2, <2>3, OneCall, ZenonT(20) DEF AdmissionInv
    <2>5. PermitsConserved'
      <3>1. \A d \in Calls : InJob(d)' <=> InJob(d)  BY <1>1, <2>2, <2>4 DEF InJob
      <3> QED  BY <3>1, <1>4, JobsUnchanged DEF AdmissionInv
    <2>6. JobsAdmitted'
      BY <1>2, <1>3, <2>1, <2>2, <2>4 DEF AdmissionInv, JobsAdmitted
    <2> QED  BY <2>4, <2>5, <2>6 DEF AdmissionInv
  <1>5. CASE /\ ~Refused(c) /\ ~conn[c].free /\ permits > 0 /\ permits' = permits - 1
             /\ conn' = [conn EXCEPT ![c].st = "job"]
    <2> DEFINE r == [conn[c] EXCEPT !.st = "job"]
    <2>1. r \in Call /\ r.st = "job" /\ r.authorized = conn[c].authorized  BY <1>1 DEF Call
    <2>2. conn' = [conn EXCEPT ![c] = r]  BY <1>5
    <2>3. conn[c].authorized
      <3>1. transport \in {"http", "local"}  BY DEF AdmissionInv, AdmissionTypeOK
      <3> QED  BY <1>5, <3>1 DEF Refused
    <2> HIDE DEF r
    <2>4. AdmissionTypeOK' /\ conn'[c] = r /\ \A d \in Calls \ {c} : conn'[d] = conn[d]
      <3>1. permits' \in Nat  BY <1>1, <1>5
      <3> QED  BY <3>1, <1>2, <2>1, <2>2, OneCall, ZenonT(20) DEF AdmissionInv
    <2>5. PermitsConserved'
      <3>1. {d \in Calls : InJob(d)'} = Jobs \union {c}  BY <2>1, <2>4 DEF Jobs, InJob
      <3>2. c \notin Jobs /\ Jobs \subseteq Calls  BY <1>1 DEF Jobs, InJob
      <3>3. permits + Cardinality(Jobs) = max_concurrent_operations
        BY DEF AdmissionInv, PermitsConserved, Jobs
      <3>4. Cardinality(Jobs) \in Nat /\ Cardinality(Jobs \union {c}) = Cardinality(Jobs) + 1
        BY <3>2, JobBegins
      <3>5. permits' + Cardinality(Jobs \union {c}) = max_concurrent_operations
        BY <3>3, <3>4, <1>1, <1>5
      <3> QED  BY <3>1, <3>5, Zenon DEF PermitsConserved
    <2>6. JobsAdmitted'
      BY <1>2, <1>3, <2>1, <2>3, <2>4, ZenonT(20) DEF AdmissionInv, JobsAdmitted
    <2> QED  BY <2>4, <2>5, <2>6 DEF AdmissionInv
  <1> QED  BY <1>4, <1>5 DEF Handle

LEMMA StepWork ==
    ASSUME AdmissionInv, NEW c \in Calls, Work(c)
    PROVE  AdmissionInv'
  <1>1. conn[c].st = "job" /\ conn[c] \in Call /\ conn \in [Calls -> Call] /\ permits \in Nat
    BY DEF Work, InJob, AdmissionInv, AdmissionTypeOK
  <1>2. counted' = counted /\ permits' = permits + 1 /\ transport' = transport  BY DEF Work
  <1>3. c \notin applied /\ conn[c].authorized  BY <1>1 DEF AdmissionInv, JobsAdmitted
  <1>4. PICK st \in {"done", "failed"} :
          /\ conn' = [conn EXCEPT ![c] = [@ EXCEPT !.st = st]]
          /\ \/ conn[c].valid /\ applied' = applied \union {c}
             \/ st = "failed" /\ applied' = applied
    BY DEF Work, WithinLimits
  <1> DEFINE r == [conn[c] EXCEPT !.st = st]
  <1>5. /\ r \in Call /\ r.st = st
        /\ r.authorized = conn[c].authorized /\ r.valid = conn[c].valid
    BY <1>1 DEF Call
  <1>6. conn' = [conn EXCEPT ![c] = r]  BY <1>4
  <1> HIDE DEF r
  <1>7. AdmissionTypeOK' /\ conn'[c] = r /\ \A d \in Calls \ {c} : conn'[d] = conn[d]
    <2>1. permits' \in Nat  BY <1>1, <1>2
    <2> QED  BY <2>1, <1>2, <1>5, <1>6, OneCall, ZenonT(20) DEF AdmissionInv
  <1>8. PermitsConserved'
    <2>1. {d \in Calls : InJob(d)'} = Jobs \ {c}  BY <1>4, <1>5, <1>7 DEF Jobs, InJob
    <2>2. c \in Jobs /\ Jobs \subseteq Calls  BY <1>1 DEF Jobs, InJob
    <2>3. permits + Cardinality(Jobs) = max_concurrent_operations
      BY DEF AdmissionInv, PermitsConserved, Jobs
    <2>4. Cardinality(Jobs) \in Nat /\ Cardinality(Jobs \ {c}) = Cardinality(Jobs) - 1
      BY <2>2, JobEnds
    <2>5. permits' + Cardinality(Jobs \ {c}) = max_concurrent_operations
      BY <2>3, <2>4, <1>1, <1>2
    <2> QED  BY <2>1, <2>5, Zenon DEF PermitsConserved
  <1>9. JobsAdmitted'
    <2>1. CASE conn[c].valid /\ applied' = applied \union {c}
      BY <2>1, <1>2, <1>3, <1>4, <1>5, <1>7 DEF AdmissionInv, JobsAdmitted
    <2>2. CASE st = "failed" /\ applied' = applied
      BY <2>2, <1>2, <1>3, <1>5, <1>7 DEF AdmissionInv, JobsAdmitted
    <2> QED  BY <1>4, <2>1, <2>2
  <1> QED  BY <1>7, <1>8, <1>9 DEF AdmissionInv

LEMMA StepRespond ==
    ASSUME AdmissionInv, NEW c \in Calls, Respond(c)
    PROVE  AdmissionInv'
  <1>1. conn[c].st \in {"done", "failed"} /\ conn[c] \in Call /\ conn \in [Calls -> Call]
    BY DEF Respond, AdmissionInv, AdmissionTypeOK
  <1>2. applied' = applied /\ permits' = permits /\ transport' = transport  BY DEF Respond
  <1>3. PICK st \in {"ok", "error"} : /\ conn' = [conn EXCEPT ![c] = [@ EXCEPT !.st = st]]
                                      /\ st = "ok" => conn[c].st = "done"
    BY DEF Respond
  <1> DEFINE r == [conn[c] EXCEPT !.st = st]
  <1>4. /\ r \in Call /\ r.st = st
        /\ r.authorized = conn[c].authorized /\ r.valid = conn[c].valid
    BY <1>1 DEF Call
  <1>5. conn' = [conn EXCEPT ![c] = r]  BY <1>3
  <1> HIDE DEF r
  <1>6. AdmissionTypeOK' /\ conn'[c] = r /\ \A d \in Calls \ {c} : conn'[d] = conn[d]
    BY <1>1, <1>2, <1>4, <1>5, OneCall DEF AdmissionInv, AdmissionTypeOK
  <1>7. PermitsConserved'
    <2>1. \A d \in Calls : InJob(d)' <=> InJob(d)  BY <1>1, <1>4, <1>6 DEF InJob
    <2> QED  BY <2>1, <1>2, JobsUnchanged DEF AdmissionInv
  <1>8. counted' \subseteq applied
    BY <1>1 DEF Respond, AdmissionInv, JobsAdmitted
  <1>9. JobsAdmitted'
    <2>1. CASE st = "ok"
      BY <2>1, <1>3, <1>2, <1>4, <1>6, <1>8 DEF AdmissionInv, JobsAdmitted
    <2>2. CASE st = "error"
      BY <2>2, <1>1, <1>2, <1>4, <1>6, <1>8 DEF AdmissionInv, JobsAdmitted
    <2> QED  BY <2>1, <2>2
  <1> QED  BY <1>6, <1>7, <1>9 DEF AdmissionInv

(* A step that at most marks clients as gone. *)
LEMMA OnlyGone ==
    ASSUME AdmissionInv, conn' \in [Calls -> Call], permits' = permits, applied' = applied,
           counted' = counted, transport' = transport,
           \A c \in Calls : /\ conn'[c].st = conn[c].st /\ conn'[c].free = conn[c].free
                            /\ conn'[c].authorized = conn[c].authorized
                            /\ conn'[c].valid = conn[c].valid
    PROVE  AdmissionInv'
  <1>1. AdmissionTypeOK'  BY DEF AdmissionInv, AdmissionTypeOK
  <1>2. PermitsConserved'
    <2>1. \A d \in Calls : InJob(d)' <=> InJob(d)  BY DEF InJob
    <2> QED  BY <2>1, JobsUnchanged DEF AdmissionInv
  <1>3. JobsAdmitted'  BY DEF AdmissionInv, JobsAdmitted
  <1> QED  BY <1>1, <1>2, <1>3 DEF AdmissionInv

LEMMA StepGone ==
    ASSUME AdmissionInv, (\E c \in Calls : GiveUp(c)) \/ Shutdown \/ Exit \/ UNCHANGED admission
    PROVE  AdmissionInv'
  <1>1. conn \in [Calls -> Call]  BY DEF AdmissionInv, AdmissionTypeOK
  <1>2. ASSUME NEW c \in Calls, GiveUp(c) PROVE AdmissionInv'
    <2>1. conn' = [conn EXCEPT ![c].gone = TRUE]  BY <1>2 DEF GiveUp
    <2>2. conn' \in [Calls -> Call]  BY <1>1, <2>1, ZenonT(20) DEF Call
    <2>3. \A d \in Calls : /\ conn'[d].st = conn[d].st /\ conn'[d].free = conn[d].free
                           /\ conn'[d].authorized = conn[d].authorized
                           /\ conn'[d].valid = conn[d].valid
      BY <1>1, <2>1 DEF Call
    <2>4. permits' = permits /\ applied' = applied /\ counted' = counted /\ transport' = transport
      BY <1>2 DEF GiveUp
    <2> QED  BY <2>2, <2>3, <2>4, OnlyGone
  <1>3. CASE Shutdown
    <2>1. conn' = [c \in Calls |-> IF transport = "local" THEN [conn[c] EXCEPT !.gone = TRUE]
                                   ELSE conn[c]]
      BY <1>3 DEF Shutdown
    <2>2. conn' \in [Calls -> Call]  BY <1>1, <2>1, ZenonT(20) DEF Call
    <2>3. \A d \in Calls : /\ conn'[d].st = conn[d].st /\ conn'[d].free = conn[d].free
                           /\ conn'[d].authorized = conn[d].authorized
                           /\ conn'[d].valid = conn[d].valid
      BY <1>1, <2>1 DEF Call
    <2>4. permits' = permits /\ applied' = applied /\ counted' = counted /\ transport' = transport
      BY <1>3 DEF Shutdown
    <2> QED  BY <2>2, <2>3, <2>4, OnlyGone
  <1>4. CASE Exit \/ UNCHANGED admission
    <2>1. conn' = conn /\ permits' = permits /\ applied' = applied /\ counted' = counted /\ transport' = transport
      BY <1>4 DEF Exit, admission
    <2> QED  BY <1>1, <2>1, OnlyGone
  <1> QED  BY <1>2, <1>3, <1>4

-------------------------------------------------------------------------------
(* The invariant is inductive. *)
THEOREM AdmissionInvariant == AdmissionSpec => []AdmissionInv
  <1>1. AdmissionInv /\ [AdmissionNext]_admission => AdmissionInv'
    <2> SUFFICES ASSUME AdmissionInv, [AdmissionNext]_admission PROVE AdmissionInv'  OBVIOUS
    <2>1. ASSUME NEW c \in Calls,
                 \E free, authorized, valid \in BOOLEAN : Arrive(c, free, authorized, valid)
          PROVE  AdmissionInv'
      BY <2>1, StepArrive
    <2>2. ASSUME NEW c \in Calls, Handle(c) PROVE AdmissionInv'  BY <2>2, StepHandle
    <2>3. ASSUME NEW c \in Calls, Work(c) PROVE AdmissionInv'  BY <2>3, StepWork
    <2>4. ASSUME NEW c \in Calls, Respond(c) PROVE AdmissionInv'  BY <2>4, StepRespond
    <2>5. CASE (\E c \in Calls : GiveUp(c)) \/ Shutdown \/ Exit \/ UNCHANGED admission
      BY <2>5, StepGone
    <2> QED  BY <2>1, <2>2, <2>3, <2>4, <2>5 DEF AdmissionNext
  <1> QED  BY <1>1, AdmissionInitInv, PTL DEF AdmissionSpec

(* Permits are conserved, for any number of calls and permits: blocking and dispatch move *)
(* the permit into the job, so it comes back exactly once, when the job returns.          *)
THEOREM AdmissionPermits == AdmissionSpec => []PermitsConserved
  <1>1. AdmissionInv => PermitsConserved  BY DEF AdmissionInv
  <1> QED  BY <1>1, AdmissionInvariant, PTL

(* Answers tell the truth, for any number of calls: success, refusal and counters agree   *)
(* with what storage did, whichever server answers and whoever gave up.                   *)
THEOREM AdmissionAnswers == AdmissionSpec => []AnswersTrue
  <1>1. AdmissionInv => AnswersTrue  BY DEF AdmissionInv, JobsAdmitted, AnswersTrue
  <1> QED  BY <1>1, AdmissionInvariant, PTL
===============================================================================
