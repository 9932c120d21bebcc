--------------------------- MODULE SharedCollection ---------------------------
(***************************************************************************)
(* A PersistentCollection behind a read-write lock (concurrent.rs): any    *)
(* number of threads write, and each thread of Flushers may run flush,     *)
(* which takes its snapshot under the read lock, builds the segment off    *)
(* the lock and publishes it under the write lock.                         *)
(***************************************************************************)
EXTENDS PersistentCollection

CONSTANT RepeatedFlush  \* may a caller flush a sequence already published or in flight?

ASSUME RepeatedFlushAssumption == RepeatedFlush \in BOOLEAN

(* No segment file, published or about to be, has the name this flush will use. *)
FreshSequence ==
    \/ manifest.segments = <<>>
    \/ /\ latest > manifest.sequence
       /\ \A f \in Flushers : prepared[f].active => prepared[f].sequence # latest

(* SharedCollection::flush: unlike PersistentCollection::flush, no test for dirty IDs. *)
(* FreshSequence is what this instance asks of its callers; the code has no such check. *)
SharedFlush(f) ==
    /\ RepeatedFlush \/ FreshSequence
    /\ GraphAllowed
    /\ FlushSnapshot(f)

SharedNext ==
    \/ Write
    \/ \E f \in Flushers : SharedFlush(f)
    \/ SystemStep

SharedSpec == Init /\ [][SharedNext]_vars

-------------------------------------------------------------------------------
Map == INSTANCE DurableMap
         WITH Lossy <- Durability = "Flush",
              up <- status = "up",
              map <- IF status = "up" THEN points ELSE NoPoints,
              seq <- IF status = "up" THEN latest ELSE 0,
              pending <- stage = "append",
              history <- committed,
              tried <- begun

(* The collection with its log, segments, manifest, flushes, I/O errors, crashes and *)
(* recovery is a durable map: batches are atomic and in order, an error leaves the   *)
(* state alone, and open returns a state that was tried and includes all that was    *)
(* acknowledged.                                                                     *)
IsDurableMap == Map!Spec
===============================================================================
