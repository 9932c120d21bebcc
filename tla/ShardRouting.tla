---------------------------- MODULE ShardRouting ----------------------------
(***************************************************************************)
(* What the embedded and the distributed collection share: which shard a   *)
(* point belongs to, how a batch is split, and how the results of the      *)
(* shards are merged (sharding.rs, distributed.rs).                        *)
(***************************************************************************)
EXTENDS Integers, FiniteSets

CONSTANTS
    Ids,         \* point IDs, in their order: integers
    ShardCount,
    Hash,        \* stable_hash of each ID
    Score        \* the score of each ID for the query

ASSUME RoutingConstants ==
    /\ Ids \subseteq Nat
    /\ ShardCount \in Nat \ {0}
    /\ Hash \in [Ids -> Nat] /\ Score \in [Ids -> Int]

Shards == 0 .. ShardCount - 1

(* shard_index *)
ShardIndex(id) == Hash[id] % ShardCount

(* The part of a batch that goes to a shard, and the shards with a part. *)
Batch(ids, shard) == {i \in ids : ShardIndex(i) = shard}

Involved(ids) == {ShardIndex(i) : i \in ids}

(* compare_hits: higher score first, then smaller ID. *)
RanksBefore(i, j) == Score[i] > Score[j] \/ (Score[i] = Score[j] /\ i < j)

\* Mutant: ties are not broken by ID and all of them are cut at k.
TopKWithoutTies(hits, k) ==
    {i \in hits : Cardinality({j \in hits : j # i /\ Score[j] >= Score[i]}) < k}

(* sort and truncate(k) *)
TopK(hits, k) == {i \in hits : Cardinality({j \in hits : RanksBefore(j, i)}) < k}
=============================================================================
