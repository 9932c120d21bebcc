------------------------------- MODULE Database -------------------------------
(***************************************************************************)
(* The catalog of collections and their backups (database.rs, with         *)
(* ensure_metadata and copy_collection_directory of persistence.rs and     *)
(* backup_to of concurrent.rs).  Several callers create, write, back up    *)
(* and restore; the process crashes and is opened again.                   *)
(*                                                                         *)
(* Creating and restoring hold the catalog's write lock, so one at a time  *)
(* is running.  A temporary directory has a unique name that discover and  *)
(* list_backups pass over: it is the copy its caller holds.                *)
(***************************************************************************)
EXTENDS Integers, Sequences, FiniteSets

CONSTANTS
    Callers,
    Names,       \* collection names
    Backups,     \* backup names
    Configs,     \* collection configurations
    MaxWrites,   \* bound: batches written
    MaxAccidents \* bound: crashes of the process and I/O errors

VARIABLES
    up,        \* is the database open?
    catalog,   \* the collections in memory
    dirs,      \* the directory of each collection
    backups,   \* the directory of each backup
    job,       \* what each caller is doing, or its last result
    created,   \* history: collections whose creation or restoration succeeded
    crashes, errors

database == <<up, catalog, dirs, backups, job, created, crashes, errors>>

(* st: absent, empty (no collection.meta), tmp (collection.meta.tmp is there), whole, or   *)
(* damaged: collection.meta is there and open fails.  log: the batches in its segments and *)
(* WAL.  flushed: the sequence of its last segment, -1 before the first.                   *)
Absent == [st |-> "absent", config |-> 0, log |-> <<>>, flushed |-> -1]

Idle == [op |-> "none", st |-> "idle", name |-> "", source |-> "", config |-> 0,
         copy |-> Absent, compact |-> FALSE, sequence |-> 0, floor |-> 0]

DatabaseInit ==
    /\ up = TRUE
    /\ catalog = {}
    /\ dirs = [n \in Names |-> Absent]
    /\ backups = [b \in Backups |-> Absent]
    /\ job = [c \in Callers |-> Idle]
    /\ created = {}
    /\ crashes = 0 /\ errors = 0

-------------------------------------------------------------------------------
Finished == {"idle", "ok", "io"}

CatalogLocked == \E c \in Callers : job[c].op \in {"create", "restore"} /\ job[c].st \notin Finished

May(c) == up /\ job[c].st \in Finished /\ ~CatalogLocked

At(c, op, st) == job[c].op = op /\ job[c].st = st

Goto(c, st) == job' = [job EXCEPT ![c].st = st]

(* The caller gets a result.  Remembered are a backup that succeeded, and an I/O error of *)
(* create_collection.                                                                     *)
Return(c, st) ==
    job' = [job EXCEPT ![c] = IF job[c].op = "backup" /\ st = "ok"
                              THEN [@ EXCEPT !.st = st, !.copy = Absent]
                              ELSE IF job[c].op = "create" /\ st = "io"
                              THEN [Idle EXCEPT !.op = "create", !.st = "io"]
                              ELSE Idle]

\* Mutant: the copy is made after the read lock is released.
NeverLocked(n) == FALSE

(* backup_to holds the collection's read lock while it copies. *)
ReadLocked(n) ==
    \E c \in Callers : job[c].op = "backup" /\ job[c].name = n
                         /\ job[c].st \in {"copy", "rename", "sync"}

(* A batch is acknowledged, at the next sequence. *)
Upsert(n) ==
    /\ up /\ n \in catalog /\ ~ReadLocked(n)
    /\ Len(dirs[n].log) < MaxWrites
    /\ dirs' = [dirs EXCEPT ![n].log = Append(@, Len(@) + 1)]
    /\ UNCHANGED <<up, catalog, backups, job, created, crashes, errors>>

-------------------------------------------------------------------------------
(* create_collection: the catalog lock, the name, the directory. *)
CreateCollection(c, n, config) ==
    /\ May(c)
    /\ \/ n \in catalog /\ Return(c, "refused") /\ UNCHANGED dirs
       \/ /\ n \notin catalog
          /\ job' = [job EXCEPT ![c] = [Idle EXCEPT !.op = "create", !.st = "metadata", !.name = n,
                                                   !.config = config]]
          /\ dirs' = [dirs EXCEPT ![n].st = IF @ = "absent" THEN "empty" ELSE @]
    /\ UNCHANGED <<up, catalog, backups, created, crashes, errors>>

(* ensure_metadata: an existing collection.meta must agree; else collection.meta.tmp is  *)
(* made, which fails if there is one already.                                            *)
EnsureMetadata(c) ==
    LET d == dirs[job[c].name] IN
    /\ At(c, "create", "metadata")
    /\ \/ /\ d.st = "whole"
          /\ IF d.config = job[c].config THEN Goto(c, "open") ELSE Return(c, "refused")
          /\ UNCHANGED dirs
       \/ /\ d.st = "tmp"
          /\ Return(c, "io")
          /\ UNCHANGED dirs
       \/ /\ d.st = "empty"
          /\ Goto(c, "rename")
          /\ dirs' = [dirs EXCEPT ![job[c].name].st = "tmp"]
    /\ UNCHANGED <<up, catalog, backups, created, crashes, errors>>

RenameMetadata(c) ==
    /\ At(c, "create", "rename")
    /\ Goto(c, "open")
    /\ dirs' = [dirs EXCEPT ![job[c].name].st = "whole", ![job[c].name].config = job[c].config]
    /\ UNCHANGED <<up, catalog, backups, created, crashes, errors>>

(* open_managed; the collection is in the catalog. *)
OpenManaged(c) ==
    LET n == job[c].name IN
    /\ job[c].st = "open" /\ dirs[n].st = "whole"
    /\ Return(c, "ok")
    /\ catalog' = catalog \union {n}
    /\ created' = created \union {n}
    /\ UNCHANGED <<up, dirs, backups, crashes, errors>>

-------------------------------------------------------------------------------
(* backup_collection: the collection is looked up under the catalog's read lock. *)
BackupCollection(c, n, b) ==
    /\ May(c)
    /\ \/ n \notin catalog /\ Return(c, "refused")
       \/ /\ n \in catalog
          /\ job' = [job EXCEPT ![c] = [Idle EXCEPT !.op = "backup", !.st = "flush", !.name = n,
                                        !.source = b, !.floor = Len(dirs[n].log)]]
    /\ UNCHANGED <<up, catalog, dirs, backups, created, crashes, errors>>

(* SharedCollection::flush: flush_snapshot plans a full segment if there is no graph ...  *)
FlushSnapshot(c) ==
    LET d == dirs[job[c].name] IN
    /\ At(c, "backup", "flush")
    /\ job' = [job EXCEPT ![c].st = "publish", ![c].sequence = Len(d.log),
                          ![c].compact = d.flushed <= 0]
    /\ UNCHANGED <<up, catalog, dirs, backups, created, crashes, errors>>

(* ... and publish_flush fails on a manifest it cannot read, and passes over a newer one.  *)
(* A second delta for one sequence leaves a manifest that read_manifest refuses            *)
(* (repeated_flush).  An error after the manifest's rename is Fail in the stage "lock".    *)
(* The compaction of 8 graphs, and the graphs in memory after such a late error, are left  *)
(* to PersistentCollection: no batch is lost or added by them.                             *)
PublishFlush(c) ==
    LET n == job[c].name
        d == dirs[n]
        repeated == ~job[c].compact /\ d.flushed = job[c].sequence
    IN
    /\ At(c, "backup", "publish") /\ ~ReadLocked(n)
    /\ IF d.st = "damaged" THEN Return(c, "corrupt") ELSE Goto(c, "lock")
    /\ dirs' = IF d.st = "damaged" \/ d.flushed > job[c].sequence THEN dirs
               ELSE [dirs EXCEPT ![n].flushed = job[c].sequence,
                                 ![n].st = IF repeated THEN "damaged" ELSE @]
    /\ UNCHANGED <<up, catalog, backups, created, crashes, errors>>

(* The read lock, and the sequence that will be returned. *)
LockBackup(c) ==
    /\ At(c, "backup", "lock")
    /\ job' = [job EXCEPT ![c].st = "copy", ![c].compact = FALSE,
                          ![c].sequence = Len(dirs[job[c].name].log)]
    /\ UNCHANGED <<up, catalog, dirs, backups, created, crashes, errors>>

(* copy_collection_directory: the destination must not exist and the manifest must be      *)
(* readable; the files are copied ...                                                      *)
CopyBackup(c) ==
    /\ At(c, "backup", "copy")
    /\ \/ backups[job[c].source] # Absent /\ Return(c, "refused")
       \/ dirs[job[c].name].st = "damaged" /\ Return(c, "corrupt")
       \/ /\ backups[job[c].source] = Absent /\ dirs[job[c].name].st # "damaged"
          /\ job' = [job EXCEPT ![c].st = "rename", ![c].copy = dirs[job[c].name]]
    /\ UNCHANGED <<up, catalog, dirs, backups, created, crashes, errors>>

\* Mutant: the copy replaces a backup made in the meantime.
ReplaceBackup(c) ==
    /\ At(c, "backup", "rename")
    /\ Goto(c, "sync")
    /\ backups' = [backups EXCEPT ![job[c].source] = job[c].copy]
    /\ UNCHANGED <<up, catalog, dirs, created, crashes, errors>>

(* ... and renamed, which fails if another backup took the name in the meantime. *)
RenameBackup(c) ==
    /\ At(c, "backup", "rename")
    /\ \/ /\ backups[job[c].source] # Absent
          /\ Return(c, "io") /\ UNCHANGED backups
       \/ /\ backups[job[c].source] = Absent
          /\ Goto(c, "sync")
          /\ backups' = [backups EXCEPT ![job[c].source] = job[c].copy]
    /\ UNCHANGED <<up, catalog, dirs, created, crashes, errors>>

FinishBackup(c) ==
    /\ At(c, "backup", "sync")
    /\ Return(c, "ok")
    /\ UNCHANGED <<up, catalog, dirs, backups, created, crashes, errors>>

-------------------------------------------------------------------------------
(* restore_collection: the catalog lock, the checks, the copy. *)
RestoreCollection(c, b, n) ==
    /\ May(c)
    /\ \/ (n \in catalog \/ backups[b] = Absent \/ dirs[n] # Absent) /\ Return(c, "refused")
       \/ /\ n \notin catalog /\ backups[b] # Absent /\ dirs[n] = Absent
          /\ job' = [job EXCEPT ![c] = [Idle EXCEPT !.op = "restore", !.st = "rename", !.name = n,
                                                   !.copy = backups[b]]]
    /\ UNCHANGED <<up, catalog, dirs, backups, created, crashes, errors>>

RenameRestore(c) ==
    /\ At(c, "restore", "rename")
    /\ job' = [job EXCEPT ![c].st = "sync", ![c].copy = Absent]
    /\ dirs' = [dirs EXCEPT ![job[c].name] = job[c].copy]
    /\ UNCHANGED <<up, catalog, backups, created, crashes, errors>>

SyncRestore(c) ==
    /\ At(c, "restore", "sync")
    /\ Goto(c, "open")
    /\ UNCHANGED <<up, catalog, dirs, backups, created, crashes, errors>>

(* remove_dir_all *)
RemoveDirectory(c) ==
    /\ At(c, "restore", "remove")
    /\ Return(c, "io")
    /\ dirs' = [dirs EXCEPT ![job[c].name] = Absent]
    /\ UNCHANGED <<up, catalog, backups, created, crashes, errors>>

-------------------------------------------------------------------------------
(* An I/O error: what was made stays, except a temporary copy, and except a restored       *)
(* collection that does not open.                                                          *)
Fail(c) ==
    /\ job[c].st \notin Finished \union {"remove"}
    /\ crashes + errors < MaxAccidents
    /\ errors' = errors + 1
    /\ IF At(c, "restore", "open") THEN Goto(c, "remove") ELSE Return(c, "io")
    /\ UNCHANGED <<up, catalog, dirs, backups, created, crashes>>

(* What a crash can leave of a directory that is being removed, file by file. *)
Leftovers(n) ==
    {dirs[n]} \union
    IF \E c \in Callers : At(c, "restore", "remove") /\ job[c].name = n
    THEN {[dirs[n] EXCEPT !.st = "damaged"], [dirs[n] EXCEPT !.st = "empty"], Absent}
    ELSE {}

Crash ==
    /\ up /\ crashes + errors < MaxAccidents
    /\ up' = FALSE
    /\ catalog' = {}
    /\ job' = [c \in Callers |-> Idle]
    /\ \E left \in [Names -> UNION {Leftovers(n) : n \in Names}] :
         (\A n \in Names : left[n] \in Leftovers(n)) /\ dirs' = left
    /\ crashes' = crashes + 1
    /\ UNCHANGED <<backups, created, errors>>

\* Mutant: a collection is discovered by its manifest.
HasManifest(n) == dirs[n].st = "whole" /\ dirs[n].flushed >= 0

(* discover: the directories with a collection.meta *)
Discovered(n) == dirs[n].st \in {"whole", "damaged"}

(* Database::open fails as a whole when one collection does. *)
OpenDatabase ==
    /\ ~up
    /\ \A n \in Names : dirs[n].st # "damaged"
    /\ up' = TRUE
    /\ catalog' = {n \in Names : Discovered(n)}
    /\ UNCHANGED <<dirs, backups, job, created, crashes, errors>>

DatabaseNext ==
    \/ \E n \in Names : Upsert(n)
    \/ \E c \in Callers :
         \/ \E n \in Names, config \in Configs : CreateCollection(c, n, config)
         \/ \E n \in Names, b \in Backups : BackupCollection(c, n, b) \/ RestoreCollection(c, b, n)
         \/ EnsureMetadata(c) \/ RenameMetadata(c) \/ OpenManaged(c)
         \/ FlushSnapshot(c) \/ PublishFlush(c) \/ LockBackup(c) \/ CopyBackup(c) \/ RenameBackup(c) \/ FinishBackup(c)
         \/ RenameRestore(c) \/ SyncRestore(c) \/ RemoveDirectory(c)
         \/ Fail(c)
    \/ Crash
    \/ OpenDatabase

DatabaseSpec == DatabaseInit /\ [][DatabaseNext]_database

-------------------------------------------------------------------------------
(* A backup is one committed state of its collection: the one at the sequence backup_to     *)
(* returned, with every batch acknowledged before it was called, whatever was written and   *)
(* backed up at the same time.                                                              *)
BackupIsCommitted ==
    \A c \in Callers : At(c, "backup", "ok") =>
        LET copied == backups[job[c].source].log
            log == dirs[job[c].name].log
        IN  /\ Len(copied) = job[c].sequence
            /\ job[c].sequence >= job[c].floor /\ job[c].sequence <= Len(log)
            /\ \A i \in 1 .. job[c].sequence : copied[i] = log[i]

(* Once a backup is listed it never changes, even when two callers use one name.            *)
BackupsImmutable ==
    [][\A b \in Backups : backups[b] # Absent => backups'[b] = backups[b]]_database

(* A collection whose creation or restoration was reported is there whenever the database   *)
(* is open: crashes between the steps of later operations do not hide it from discover.     *)
CatalogRecovered == up => created \subseteq catalog

(* Opening the directory of a collection with its configuration after a crash succeeds      *)
(* unless the storage fails.                                                                *)
ReopenSucceeds ==
    errors = 0 => \A c \in Callers : job[c].op = "create" => job[c].st # "io"
===============================================================================
