-------------------------- MODULE ShardedCollection --------------------------
(***************************************************************************)
(* The embedded sharded collection (sharding.rs): threads write batches    *)
(* that are split over the shards and committed shard by shard, and a      *)
(* search asks all shards at once and merges their answers.  A shard is a  *)
(* SharedCollection, whose operations are atomic.                          *)
(***************************************************************************)
EXTENDS ShardRouting, FiniteSetsExt

CONSTANTS
    Writers,     \* threads that write
    MaxBatches,  \* bound: batches begun
    MaxFaults,   \* bound: storage errors
    K            \* how many hits a search asks for

ASSUME EmbeddedConstants == IsFiniteSet(Ids) /\ MaxBatches \in Nat /\ K \in Nat

VARIABLES
    points,    \* the batch that wrote each point, 0 if it is absent
    call,      \* what each writer is doing
    finder,    \* the search: the live points each shard searched, or that it failed
    result,    \* what the search returned: its hits, or an error
    batches,   \* how many batches were begun
    reached,   \* history: the shards that committed each batch
    faults

embedded == <<points, call, finder, result, batches, reached, faults>>

Idle == [st |-> "idle", batch |-> 0, op |-> "upsert", ids |-> {}, valid |-> TRUE,
         todo |-> {}]

NotSearched == {-1}
SearchFailed == {-2}

Live(shard) == {i \in Batch(Ids, shard) : points[i] # 0}

EmbeddedInit ==
    /\ points = [i \in Ids |-> 0]
    /\ call = [w \in Writers |-> Idle]
    /\ finder = [s \in Shards |-> NotSearched]
    /\ result = NotSearched
    /\ batches = 0
    /\ reached = [b \in 1 .. MaxBatches |-> {}]
    /\ faults = 0

\* Mutant: each shard validates its own part of the batch.
NotValidatedFirst(ids, valid) == ids # {}

(* upsert validates the whole batch in a scratch collection; delete checks the IDs. *)
Accepted(ids, valid) == ids # {} /\ valid

(* upsert and delete: validation, and the batch split by shard. *)
BeginBatch(w, op, ids, valid) ==
    /\ call[w].st # "running"
    /\ batches < MaxBatches
    /\ batches' = batches + 1
    /\ call' = [call EXCEPT ![w] =
         [st |-> IF Accepted(ids, valid) THEN "running" ELSE "error",
          batch |-> batches + 1, op |-> op, ids |-> ids, valid |-> valid,
          todo |-> IF Accepted(ids, valid) THEN Involved(ids) ELSE {}]]
    /\ UNCHANGED <<points, finder, result, reached, faults>>

(* The next shard with a part of the batch commits it. *)
CommitShard(w) ==
    /\ call[w].st = "running" /\ call[w].todo # {}
    /\ LET c == call[w]
           shard == Min(c.todo)
       IN  /\ points' = [i \in Ids |->
                IF i \notin Batch(c.ids, shard) THEN points[i]
                ELSE IF c.op = "upsert" THEN c.batch ELSE 0]
           /\ call' = [call EXCEPT ![w].todo = @ \ {shard}]
           /\ reached' = [reached EXCEPT ![c.batch] = @ \union {shard}]
    /\ UNCHANGED <<finder, result, batches, faults>>

(* Its storage fails: the caller gets the error and nothing else (the commits so far are *)
(* dropped with the call), and earlier shards keep their part.                           *)
FailShard(w) ==
    /\ call[w].st = "running" /\ call[w].todo # {}
    /\ faults < MaxFaults
    /\ faults' = faults + 1
    /\ call' = [call EXCEPT ![w].st = "error"]
    /\ UNCHANGED <<points, finder, result, batches, reached>>

Return(w) ==
    /\ call[w].st = "running" /\ call[w].todo = {}
    /\ call' = [call EXCEPT ![w].st = "ok"]
    /\ UNCHANGED <<points, finder, result, batches, reached, faults>>

(* search: a thread per shard finds its top k ... *)
SearchShard(s) ==
    /\ finder[s] = NotSearched
    /\ finder' = [finder EXCEPT ![s] = Live(s)]
    /\ UNCHANGED <<points, call, result, batches, reached, faults>>

(* ... or returns an error or panics ... *)
FailSearch(s) ==
    /\ finder[s] = NotSearched
    /\ faults < MaxFaults
    /\ faults' = faults + 1
    /\ finder' = [finder EXCEPT ![s] = SearchFailed]
    /\ UNCHANGED <<points, call, result, batches, reached>>

(* ... and all threads are joined: the first error, or the answers merged. *)
JoinSearch ==
    /\ result = NotSearched
    /\ \A s \in Shards : finder[s] # NotSearched
    /\ result' = IF \E s \in Shards : finder[s] = SearchFailed THEN SearchFailed
                 ELSE TopK(UNION {TopK(finder[s], K) : s \in Shards}, K)
    /\ UNCHANGED <<points, call, finder, batches, reached, faults>>

EmbeddedNext ==
    \/ \E w \in Writers :
         \/ \E op \in {"upsert", "delete"}, ids \in SUBSET Ids, valid \in BOOLEAN :
              BeginBatch(w, op, ids, valid)
         \/ CommitShard(w) \/ FailShard(w) \/ Return(w)
    \/ \E s \in Shards : SearchShard(s) \/ FailSearch(s)
    \/ JoinSearch

EmbeddedSpec == EmbeddedInit /\ [][EmbeddedNext]_embedded

------------------------------------------------------------------------------
(* What a batch leaves behind once upsert or delete has returned.  After success every     *)
(* shard with a part of the batch has committed it.  After an error, which tells the       *)
(* caller nothing more, the parts committed are those of the shards before some shard, in  *)
(* order; a batch that fails validation, and any part of it, has reached no shard.         *)
CommitsAreAPrefix ==
    \A w \in Writers :
        LET c == call[w] IN
        /\ c.st = "ok" => reached[c.batch] = Involved(c.ids)
        /\ c.st = "error" =>
             \E failed \in Shards : reached[c.batch] = {s \in Involved(c.ids) : s < failed}
        /\ c.st = "error" /\ ~c.valid => reached[c.batch] = {}

(* A search that returns hits has asked every shard, none of which failed, and the hits    *)
(* are the exact top k of everything they searched: no shard's cut at k loses a point that *)
(* belongs in the global result, ties included.                                            *)
MergedTopK ==
    LET searched == UNION {finder[s] : s \in Shards} IN
    result \notin {NotSearched, SearchFailed} =>
        /\ \A s \in Shards : finder[s] \notin {NotSearched, SearchFailed}
        /\ result \subseteq searched
        /\ Cardinality(result) = Min({K, Cardinality(searched)})
        /\ \A i \in result, j \in searched \ result : RanksBefore(i, j)
==============================================================================
