---------------------------- MODULE ShardedProofs -----------------------------
(***************************************************************************)
(* The embedded sharded collection for any number of shards, writers,      *)
(* batches and hits: the shards that committed a batch are a prefix of     *)
(* those it involves, and merging the k best hits of every shard gives the *)
(* k best of all.                                                          *)
(***************************************************************************)
EXTENDS ShardedCollection, FiniteSetTheorems, TLAPS

(* The hits that rank before i, and how many they are. *)
Ahead(hits, i) == {j \in hits : RanksBefore(j, i)}

Rank(hits, i) == Cardinality(Ahead(hits, i))

(* compare_hits is a strict total order. *)
LEMMA TotalOrder ==
    ASSUME NEW i \in Ids, NEW j \in Ids, NEW k \in Ids
    PROVE  /\ ~RanksBefore(i, i)
           /\ i # j => (RanksBefore(i, j) <=> ~RanksBefore(j, i))
           /\ RanksBefore(i, j) /\ RanksBefore(j, k) => RanksBefore(i, k)
  <1>1. {i, j, k} \subseteq Nat /\ Score[i] \in Int /\ Score[j] \in Int /\ Score[k] \in Int
    BY RoutingConstants, Zenon
  <1> QED
    BY <1>1 DEF RanksBefore

(* There are finitely many hits. *)
LEMMA FiniteHits ==
    ASSUME NEW hits \in SUBSET Ids
    PROVE  IsFiniteSet(hits) /\ Cardinality(hits) \in Nat
  <1>1. IsFiniteSet(hits)
    BY EmbeddedConstants, FS_Subset, Zenon
  <1> QED
    BY <1>1, FS_CardinalityType, Zenon

(* A hit has fewer before it than there are hits. *)
LEMMA RankBound ==
    ASSUME NEW hits \in SUBSET Ids, NEW i \in Ids
    PROVE  /\ Ahead(hits, i) \in SUBSET hits /\ Rank(hits, i) \in Nat
           /\ Rank(hits, i) <= Cardinality(hits)
           /\ i \in hits => Rank(hits, i) < Cardinality(hits)
  <1>1. Ahead(hits, i) \in SUBSET hits /\ i \notin Ahead(hits, i)
    BY TotalOrder, Zenon DEF Ahead
  <1>2. /\ IsFiniteSet(hits) /\ Cardinality(hits) \in Nat
        /\ Cardinality(Ahead(hits, i)) \in Nat
    BY <1>1, FiniteHits, Zenon
  <1>3. /\ Cardinality(Ahead(hits, i)) <= Cardinality(hits)
        /\ Cardinality(hits) = Cardinality(Ahead(hits, i)) => hits = Ahead(hits, i)
    BY <1>1, <1>2, FS_Subset, Zenon
  <1> QED
    BY <1>1, <1>2, <1>3 DEF Rank

(* A hit that ranks before another has fewer before it. *)
LEMMA RankGrows ==
    ASSUME NEW hits \in SUBSET Ids, NEW i \in hits, NEW j \in Ids, RanksBefore(i, j)
    PROVE  Rank(hits, i) < Rank(hits, j)
  <1>1. Ahead(hits, i) \in SUBSET Ahead(hits, j) /\ i \in Ahead(hits, j) /\ i \notin Ahead(hits, i)
    BY TotalOrder, Zenon DEF Ahead
  <1>2. /\ Ahead(hits, j) \in SUBSET Ids
        /\ IsFiniteSet(Ahead(hits, j))
        /\ Rank(hits, i) \in Nat /\ Rank(hits, j) \in Nat
    BY RankBound, FiniteHits, Zenon
  <1>3. /\ Cardinality(Ahead(hits, i)) <= Cardinality(Ahead(hits, j))
        /\ Cardinality(Ahead(hits, j)) = Cardinality(Ahead(hits, i)) => Ahead(hits, j) = Ahead(hits, i)
    BY <1>1, <1>2, FS_Subset, Zenon
  <1> QED
    BY <1>1, <1>2, <1>3 DEF Rank

(* What truncate keeps ranks before what it drops. *)
LEMMA TopKFirst ==
    ASSUME NEW hits \in SUBSET Ids, NEW k \in Nat, NEW i \in TopK(hits, k), NEW j \in hits \ TopK(hits, k)
    PROVE  RanksBefore(i, j)
  <1>1. /\ i \in hits /\ j \in hits /\ i # j
        /\ Rank(hits, i) < k /\ ~(Rank(hits, j) < k)
    BY Zenon DEF TopK, Rank, Ahead
  <1>2. Rank(hits, i) \in Nat /\ Rank(hits, j) \in Nat
    BY <1>1, RankBound, Zenon
  <1>3. ~RanksBefore(j, i)
    BY <1>1, <1>2, RankGrows
  <1> QED
    BY <1>1, <1>3, TotalOrder, Zenon

(* Min is the least member. *)
LEMMA NatMin ==
    ASSUME NEW S \in SUBSET Nat, S # {}
    PROVE  Min(S) \in S /\ \A y \in S : Min(S) <= y
  <1>1. PICK x \in S : \A y \in S : ~(<<y, x>> \in OpToRel(<, Nat))
    BY NatLessThanWellFounded, WFMin, ZenonT(20)
  <1>2. \A y \in S : x <= y
    <2> TAKE y \in S
    <2>1. <<y, x>> \in Nat \X Nat /\ <<y, x>>[1] = y /\ <<y, x>>[2] = x  OBVIOUS
    <2>2. ~(y < x)  BY <1>1, <2>1 DEF OpToRel
    <2> QED  BY <2>2
  <1> QED  BY <1>2, ZenonT(20) DEF Min

(* Min of two numbers. *)
LEMMA LeastOf ==
    ASSUME NEW a \in Nat, NEW b \in Nat
    PROVE  Min({a, b}) = IF a <= b THEN a ELSE b
  <1> DEFINE m == IF a <= b THEN a ELSE b
  <1>1. m \in {a, b} /\ \A y \in {a, b} : m <= y
    OBVIOUS
  <1>2. \A x \in {a, b} : (\A y \in {a, b} : x <= y) => x = m
    OBVIOUS
  <1> QED
    BY <1>1, <1>2, ZenonT(20) DEF Min

(* truncate keeps k hits, or all of them. *)
LEMMA TopKSize ==
    ASSUME NEW hits \in SUBSET Ids, NEW k \in Nat
    PROVE  Cardinality(TopK(hits, k)) = Min({k, Cardinality(hits)})
  <1>0. PICK n \in Nat : n = Cardinality(hits)
    BY FiniteHits, Zenon
  <1>1. PICK m \in Nat : m = IF k <= n THEN k ELSE n
    OBVIOUS
  <1>2. PICK f : f = [i \in hits |-> Rank(hits, i)]
    BY ZenonT(20)
  <1>3. PICK top : top = TopK(hits, k)
    OBVIOUS
  <1>4. /\ top = {i \in hits : Rank(hits, i) < k}
        /\ \A i \in hits : Rank(hits, i) \in Nat /\ Rank(hits, i) < n
    BY <1>0, <1>3, RankBound, Zenon DEF TopK, Rank, Ahead
  <1>5. f \in [hits -> 0 .. n - 1]
    BY <1>2, <1>4
  <1>6. ASSUME NEW i \in hits, NEW j \in hits, f[i] = f[j] PROVE i = j
    <2>1. Rank(hits, i) = Rank(hits, j) /\ Rank(hits, i) \in Nat
      BY <1>2, <1>4, <1>6, Zenon
    <2>2. ~RanksBefore(i, j) /\ ~RanksBefore(j, i)
      BY <2>1, RankGrows
    <2> QED
      BY <2>2, TotalOrder, Zenon
  <1>7. f \in Injection(hits, 0 .. n - 1)
    BY <1>5, <1>6, Zenon DEF Injection, IsInjective
  <1>8. IsFiniteSet(0 .. n - 1) /\ Cardinality(0 .. n - 1) = n
    BY FS_Interval
  <1>9. f \in Surjection(hits, 0 .. n - 1)
    BY <1>0, <1>7, <1>8, FS_Injection, Zenon
  <1>10. \A t \in 0 .. n - 1 : \E i \in hits : f[i] = t
    BY <1>9, Zenon DEF Surjection
  <1>11. PICK g : g = [i \in top |-> Rank(hits, i)]
    BY ZenonT(20)
  <1>12. g \in Injection(top, 0 .. m - 1)
    <2>1. g \in [top -> 0 .. m - 1]
      BY <1>1, <1>4, <1>11
    <2>2. ASSUME NEW i \in top, NEW j \in top, g[i] = g[j] PROVE i = j
      BY <1>2, <1>4, <1>6, <1>11, <2>2, Zenon
    <2> QED
      BY <2>1, <2>2, Zenon DEF Injection, IsInjective
  <1>13. \A t \in 0 .. m - 1 : \E i \in top : g[i] = t
    BY <1>1, <1>2, <1>4, <1>10, <1>11
  <1>14. g \in Surjection(top, 0 .. m - 1)
    BY <1>12, <1>13, Zenon DEF Injection, Surjection
  <1>15. IsFiniteSet(0 .. m - 1) /\ Cardinality(0 .. m - 1) = m
    BY FS_Interval
  <1>16. Cardinality(top) = m
    BY <1>12, <1>14, <1>15, FS_Injection, Zenon
  <1> QED
    BY <1>0, <1>1, <1>3, <1>16, LeastOf, Zenon

(* Merging the top k of the parts gives the top k of the whole. *)
LEMMA MergeExact ==
    ASSUME NEW part \in [Shards -> SUBSET Ids], NEW k \in Nat
    PROVE  TopK(UNION {TopK(part[s], k) : s \in Shards}, k) = TopK(UNION {part[s] : s \in Shards}, k)
  <1>1. PICK whole \in SUBSET Ids : whole = UNION {part[s] : s \in Shards}
    BY ZenonT(20)
  <1>2. \A s \in Shards : TopK(part[s], k) \subseteq part[s]
    BY Zenon DEF TopK
  <1>3. PICK merged \in SUBSET whole : merged = UNION {TopK(part[s], k) : s \in Shards}
    BY <1>1, <1>2, ZenonT(20)
  <1>4. ASSUME NEW small \in SUBSET Ids, NEW large \in SUBSET Ids, small \subseteq large, NEW i \in Ids
        PROVE  Rank(small, i) <= Rank(large, i)
    <2>1. Ahead(small, i) \in SUBSET Ahead(large, i) /\ Ahead(large, i) \in SUBSET Ids
      BY <1>4, Zenon DEF Ahead
    <2>2. IsFiniteSet(Ahead(large, i))
      BY <2>1, FiniteHits, Zenon
    <2> QED
      BY <2>1, <2>2, FS_Subset, Zenon DEF Rank
  <1>5. \A hits, i : i \in TopK(hits, k) <=> i \in hits /\ Rank(hits, i) < k
    BY Zenon DEF TopK, Rank, Ahead
  <1>6. ASSUME NEW i \in TopK(whole, k) PROVE i \in merged
    <2>1. PICK s \in Shards : i \in part[s]
      BY <1>1, <1>5, <1>6
    <2>2. part[s] \in SUBSET Ids /\ part[s] \subseteq whole /\ i \in Ids
      BY <1>1, <2>1, Zenon
    <2>3. Rank(part[s], i) \in Nat /\ Rank(whole, i) \in Nat /\ Rank(whole, i) < k
      BY <1>5, <1>6, <2>2, RankBound, ZenonT(20)
    <2>4. Rank(part[s], i) < k
      BY <1>4, <2>2, <2>3
    <2> QED
      BY <1>3, <1>5, <2>1, <2>4
  <1>7. ASSUME NEW i \in TopK(whole, k) PROVE i \in TopK(merged, k)
    <2>1. i \in Ids /\ merged \in SUBSET Ids /\ Rank(whole, i) < k
      BY <1>5, Zenon
    <2>2. Rank(merged, i) <= Rank(whole, i) /\ Rank(merged, i) \in Nat /\ Rank(whole, i) \in Nat
      BY <1>4, <2>1, RankBound, Zenon
    <2>3. Rank(merged, i) < k
      BY <2>1, <2>2
    <2> QED
      BY <1>5, <1>6, <2>3, Zenon
  <1>8. ASSUME NEW i \in TopK(merged, k) PROVE i \in TopK(whole, k)
    <2>1. i \in whole /\ i \in Ids /\ merged \in SUBSET Ids /\ Rank(merged, i) < k
      BY <1>5, Zenon
    <2> SUFFICES ASSUME i \notin TopK(whole, k) PROVE FALSE
      OBVIOUS
    <2>2. TopK(whole, k) \in SUBSET Ahead(merged, i)
      <3> SUFFICES ASSUME NEW j \in TopK(whole, k) PROVE j \in Ahead(merged, i)
        OBVIOUS
      <3>1. j \in merged
        BY <1>6, Zenon
      <3>2. i \in whole \ TopK(whole, k)
        BY <2>1, Zenon
      <3>3. RanksBefore(j, i)
        BY <3>2, TopKFirst, Zenon
      <3> QED
        BY <3>1, <3>3, Zenon DEF Ahead
    <2>3. IsFiniteSet(Ahead(merged, i)) /\ Rank(merged, i) \in Nat
      BY <2>1, RankBound, FiniteHits, ZenonT(20)
    <2>4. Cardinality(TopK(whole, k)) <= Rank(merged, i)
      BY <2>2, <2>3, FS_Subset, Zenon DEF Rank
    <2>5. Rank(whole, i) \in Nat /\ Rank(whole, i) <= Cardinality(whole) /\ Cardinality(whole) \in Nat
      BY <2>1, RankBound, FiniteHits, Zenon
    <2>6. ~(Rank(whole, i) < k)
      BY <1>5, <2>1, Zenon
    <2>7. Cardinality(TopK(whole, k)) = k
      <3>1. k <= Cardinality(whole)
        BY <2>5, <2>6
      <3>2. Min({k, Cardinality(whole)}) = k
        BY <2>5, <3>1, LeastOf, Zenon
      <3> QED
        BY <3>2, TopKSize, Zenon
    <2> QED
      BY <2>1, <2>3, <2>4, <2>7
  <1> QED
    BY <1>1, <1>3, <1>7, <1>8, ZenonT(20)

--------------------------------------------------------------------------------
Call == [st : {"idle", "running", "ok", "error"}, batch : Nat, op : {"upsert", "delete"},
         ids : SUBSET Ids, valid : BOOLEAN, todo : SUBSET Shards]

EmbeddedTypeOK ==
    /\ points \in [Ids -> Nat]
    /\ call \in [Writers -> Call]
    /\ batches \in 0 .. MaxBatches
    /\ reached \in [1 .. MaxBatches -> SUBSET Shards]
    /\ finder = [s \in Shards |-> finder[s]]

(* A batch belongs to one call, and no shard has committed one that has not begun. *)
OwnsBatch(w) ==
    call[w].st # "idle" =>
        /\ call[w].batch \in 1 .. batches
        /\ \A v \in Writers \ {w} : call[v].batch # call[w].batch

BatchesOwned ==
    /\ \A w \in Writers : OwnsBatch(w)
    /\ \A b \in 1 .. MaxBatches : b > batches => reached[b] = {}

(* The shards of an accepted batch are those that committed it, then those that will. *)
CallInOrder(c, done) ==
    /\ \/ done = {} /\ c.todo = {} /\ c.st = "error"
       \/ c.valid /\ done \union c.todo = Involved(c.ids)
    /\ \A s \in done, t \in c.todo : s < t
    /\ c.st = "ok" => c.todo = {}
    /\ c.st = "error" /\ done # {} => c.todo # {}

CommitsInOrder ==
    \A w \in Writers : IF call[w].st = "idle" THEN call[w].batch = 0
                       ELSE CallInOrder(call[w], reached[call[w].batch])

(* What a shard searched is part of it, and the result is the merge of all of them. *)
SearchMerged ==
    /\ \A s \in Shards : finder[s] \in {NotSearched, SearchFailed} \/ finder[s] \subseteq Batch(Ids, s)
    /\ result \in {NotSearched, SearchFailed}
         \/ /\ \A s \in Shards : finder[s] \notin {NotSearched, SearchFailed}
            /\ result = TopK(UNION {TopK(finder[s], K) : s \in Shards}, K)
    /\ result = SearchFailed => \A s \in Shards : finder[s] # NotSearched

EmbeddedInv == EmbeddedTypeOK /\ BatchesOwned /\ CommitsInOrder /\ SearchMerged

(* Shards are numbers. *)
LEMMA ShardTypes ==
    /\ Shards \subseteq Nat /\ 0 \in Shards /\ \A s \in Shards : s >= 0
    /\ \A ids \in SUBSET Ids : Involved(ids) \subseteq Shards
  <1>1. \A i \in Ids : Hash[i] \in Nat /\ ShardCount \in Nat /\ ShardCount > 0
    BY RoutingConstants
  <1>2. \A i \in Ids : ShardIndex(i) \in Shards
    BY <1>1 DEF ShardIndex, Shards
  <1> QED
    BY <1>2, RoutingConstants DEF Shards, Involved

(* A shard that failed is not one still to be searched. *)
LEMMA FailedDiffers == NotSearched # SearchFailed
  <1>1. -1 # -2
    OBVIOUS
  <1>2. -1 \in NotSearched /\ -1 \notin SearchFailed
    BY <1>1, Zenon DEF NotSearched, SearchFailed
  <1> QED
    BY <1>2, Zenon

(* Nothing has been submitted yet. *)
LEMMA EmbeddedInitInv == EmbeddedInit => EmbeddedInv
  <1> SUFFICES ASSUME EmbeddedInit PROVE EmbeddedInv
    OBVIOUS
  <1>1. Idle \in Call /\ Idle.st = "idle" /\ Idle.batch = 0
    BY Zenon DEF Idle, Call
  <1>2. EmbeddedTypeOK
    BY <1>1, EmbeddedConstants DEF EmbeddedInit, EmbeddedTypeOK
  <1>3. BatchesOwned /\ CommitsInOrder
    BY <1>1, Zenon DEF EmbeddedInit, BatchesOwned, OwnsBatch, CommitsInOrder
  <1>4. SearchMerged
    BY FailedDiffers, Zenon DEF EmbeddedInit, SearchMerged
  <1> QED
    BY <1>2, <1>3, <1>4, Zenon DEF EmbeddedInv

(* A batch is validated and split: it is new, and no shard has it. *)
LEMMA BeginBatchInv ==
    ASSUME EmbeddedInv, NEW w \in Writers, NEW op \in {"upsert", "delete"},
           NEW ids \in SUBSET Ids, NEW valid \in BOOLEAN, BeginBatch(w, op, ids, valid)
    PROVE  EmbeddedInv'
  <1>0. PICK c : c = [st |-> IF Accepted(ids, valid) THEN "running" ELSE "error",
                      batch |-> batches + 1, op |-> op, ids |-> ids, valid |-> valid,
                      todo |-> IF Accepted(ids, valid) THEN Involved(ids) ELSE {}]
    BY ZenonT(20)
  <1>1. /\ call' = [call EXCEPT ![w] = c] /\ batches' = batches + 1 /\ batches < MaxBatches
        /\ UNCHANGED <<points, finder, result, reached, faults>>
    BY <1>0, Zenon DEF BeginBatch
  <1>2. /\ call \in [Writers -> Call] /\ batches \in 0 .. MaxBatches
        /\ points \in [Ids -> Nat] /\ reached \in [1 .. MaxBatches -> SUBSET Shards]
        /\ finder = [s \in Shards |-> finder[s]]
    BY Zenon DEF EmbeddedInv, EmbeddedTypeOK
  <1>3. batches \in Nat /\ batches + 1 \in 1 .. MaxBatches /\ MaxBatches \in Nat
    BY <1>1, <1>2, EmbeddedConstants
  <1>4. Involved(ids) \in SUBSET Shards
    BY ShardTypes, Zenon
  <1>5. c \in Call
    BY <1>0, <1>3, <1>4 DEF Call
  <1>6. /\ c.st \in {"running", "error"} /\ c.batch = batches + 1
        /\ \/ c.st = "error" /\ c.todo = {}
           \/ c.st = "running" /\ c.valid /\ c.todo = Involved(c.ids)
    BY <1>0, Zenon DEF Accepted
  <1>7. call'[w] = c /\ \A v \in Writers \ {w} : call'[v] = call[v]
    BY <1>1, <1>2, Zenon
  <1>8. EmbeddedTypeOK'
    BY <1>1, <1>2, <1>3, <1>5 DEF EmbeddedTypeOK
  <1>9. BatchesOwned'
    <2>1. \A v \in Writers \ {w} : call[v].batch # batches + 1
      <3> SUFFICES ASSUME NEW v \in Writers \ {w} PROVE call[v].batch # batches + 1
        OBVIOUS
      <3>1. CASE call[v].st = "idle"
        BY <1>3, <3>1 DEF EmbeddedInv, CommitsInOrder
      <3>2. CASE call[v].st # "idle"
        BY <1>3, <3>2 DEF EmbeddedInv, BatchesOwned, OwnsBatch
      <3> QED
        BY <3>1, <3>2, Zenon
    <2>2. reached[batches + 1] = {} /\ \A b \in 1 .. MaxBatches : b > batches + 1 => reached[b] = {}
      BY <1>3 DEF EmbeddedInv, BatchesOwned
    <2>3. ASSUME NEW v \in Writers PROVE OwnsBatch(v)'
      <3>1. CASE v = w
        <4>1. call'[w].batch \in 1 .. batches'
          BY <1>1, <1>3, <1>6, <1>7
        <4>2. \A u \in Writers \ {w} : call'[u].batch # call'[w].batch
          BY <1>6, <1>7, <2>1, Zenon
        <4> QED
          BY <3>1, <4>1, <4>2, Zenon DEF OwnsBatch
      <3>2. CASE v # w
        <4>1. OwnsBatch(v)
          BY Zenon DEF EmbeddedInv, BatchesOwned
        <4> QED
          BY <1>1, <1>3, <1>6, <1>7, <2>1, <3>2, <4>1 DEF OwnsBatch
      <3> QED
        BY <3>1, <3>2, Zenon
    <2> QED
      BY <1>1, <2>2, <2>3, Zenon DEF BatchesOwned
  <1>10. CommitsInOrder'
    <2>1. reached'[c.batch] = {}
      BY <1>1, <1>3, <1>6 DEF EmbeddedInv, BatchesOwned
    <2>2. CallInOrder(c, {}) /\ c.st # "idle"
      BY <1>6, Zenon DEF CallInOrder
    <2> QED
      BY <1>1, <1>7, <2>1, <2>2, Zenon DEF EmbeddedInv, CommitsInOrder
  <1>11. SearchMerged'
    BY <1>1, Zenon DEF EmbeddedInv, SearchMerged
  <1> QED
    BY <1>8, <1>9, <1>10, <1>11, Zenon DEF EmbeddedInv

(* The first shard that remains commits its part: it comes after those that have. *)
LEMMA CommitShardInv ==
    ASSUME EmbeddedInv, NEW w \in Writers, CommitShard(w)
    PROVE  EmbeddedInv'
  <1>0. PICK c : c = call[w]
    OBVIOUS
  <1>1. PICK shard : shard = Min(c.todo)
    OBVIOUS
  <1>2. PICK d : d = [c EXCEPT !.todo = @ \ {shard}]
    OBVIOUS
  <1>3. /\ call \in [Writers -> Call] /\ batches \in 0 .. MaxBatches
        /\ points \in [Ids -> Nat] /\ reached \in [1 .. MaxBatches -> SUBSET Shards]
        /\ finder = [s \in Shards |-> finder[s]]
    BY Zenon DEF EmbeddedInv, EmbeddedTypeOK
  <1>4. c.st = "running" /\ c.todo # {}
    BY <1>0, Zenon DEF CommitShard
  <1>5. c \in Call
    BY <1>0, <1>3, Zenon
  <1>6. c.todo \in SUBSET Nat /\ c.todo \in SUBSET Shards /\ c.batch \in Nat
    BY <1>5, ShardTypes, ZenonT(20) DEF Call
  <1>7. shard \in c.todo /\ \A s \in c.todo : shard <= s
    BY <1>1, <1>4, <1>6, NatMin, Zenon
  <1>8. /\ d \in Call /\ d.st = "running" /\ d.batch = c.batch /\ d.ids = c.ids /\ d.valid = c.valid
        /\ d.todo = c.todo \ {shard}
    BY <1>2, <1>4, <1>5, <1>6, <1>7, ZenonT(20) DEF Call
  <1>9. /\ call' = [call EXCEPT ![w] = d]
        /\ reached' = [reached EXCEPT ![c.batch] = @ \union {shard}]
        /\ UNCHANGED <<finder, result, batches, faults>>
    BY <1>0, <1>1, <1>2, <1>3, <1>5, ZenonT(20) DEF CommitShard, Call
  <1>10. points' \in [Ids -> Nat]
    BY <1>0, <1>3, <1>6, Zenon DEF CommitShard
  <1>11. call'[w] = d /\ \A v \in Writers \ {w} : call'[v] = call[v]
    BY <1>3, <1>9, Zenon
  <1>12. OwnsBatch(w) /\ CallInOrder(c, reached[c.batch])
    BY <1>0, <1>4, Zenon DEF EmbeddedInv, BatchesOwned, CommitsInOrder
  <1>13. /\ c.batch \in 1 .. MaxBatches /\ c.batch <= batches /\ batches \in Nat
         /\ \A v \in Writers \ {w} : call[v].batch # c.batch
    BY <1>0, <1>3, <1>4, <1>12, EmbeddedConstants DEF OwnsBatch
  <1>14. /\ reached'[c.batch] = reached[c.batch] \union {shard}
         /\ \A b \in 1 .. MaxBatches : b # c.batch => reached'[b] = reached[b]
    BY <1>3, <1>8, <1>9, <1>13, Zenon
  <1>15. EmbeddedTypeOK'
    <2>1. reached' \in [1 .. MaxBatches -> SUBSET Shards]
      BY <1>3, <1>6, <1>7, <1>9, ZenonT(20)
    <2>2. call' \in [Writers -> Call]
      BY <1>3, <1>8, <1>9, Zenon
    <2> QED
      BY <1>3, <1>9, <1>10, <2>1, <2>2, Zenon DEF EmbeddedTypeOK
  <1>16. BatchesOwned'
    <2>1. ASSUME NEW v \in Writers PROVE OwnsBatch(v)'
      <3>1. CASE v = w
        <4>1. call'[w].batch \in 1 .. batches'
          BY <1>8, <1>9, <1>11, <1>13
        <4>2. \A u \in Writers \ {w} : call'[u].batch # call'[w].batch
          BY <1>8, <1>11, <1>13, Zenon
        <4> QED
          BY <3>1, <4>1, <4>2, Zenon DEF OwnsBatch
      <3>2. CASE v # w
        <4>1. OwnsBatch(v)
          BY Zenon DEF EmbeddedInv, BatchesOwned
        <4> QED
          BY <1>0, <1>8, <1>9, <1>11, <1>13, <3>2, <4>1, Zenon DEF OwnsBatch
      <3> QED
        BY <3>1, <3>2, Zenon
    <2>2. \A b \in 1 .. MaxBatches : b > batches' => reached'[b] = {}
      BY <1>9, <1>13, <1>14 DEF EmbeddedInv, BatchesOwned
    <2> QED
      BY <2>1, <2>2, Zenon DEF BatchesOwned
  <1>17. CommitsInOrder'
    <2> DEFINE done == reached[c.batch]
    <2>1. CallInOrder(d, done \union {shard})
      <3>0. done \in SUBSET Shards /\ done \in SUBSET Nat
        BY <1>3, <1>13, ShardTypes, Zenon
      <3> HIDE DEF done
      <3>1. c.valid /\ done \union c.todo = Involved(c.ids)
            /\ \A s \in done, t \in c.todo : s < t
        BY <1>4, <1>12, Zenon DEF CallInOrder, done
      <3>2. d.valid /\ (done \union {shard}) \union d.todo = Involved(d.ids)
        BY <1>7, <1>8, <3>1, Zenon
      <3>3. \A s \in done \union {shard}, t \in d.todo : s < t
        BY <1>6, <1>7, <1>8, <3>0, <3>1
      <3> QED
        BY <1>8, <3>2, <3>3, Zenon DEF CallInOrder
    <2>2. ASSUME NEW v \in Writers \ {w}, call[v].st # "idle"
          PROVE  CallInOrder(call'[v], reached'[call'[v].batch])
      <3>1. OwnsBatch(v) /\ CallInOrder(call[v], reached[call[v].batch])
        BY <2>2, Zenon DEF EmbeddedInv, BatchesOwned, CommitsInOrder
      <3>2. call[v].batch \in 1 .. MaxBatches
        BY <1>3, <2>2, <3>1, EmbeddedConstants DEF OwnsBatch
      <3> QED
        BY <1>11, <1>13, <1>14, <3>1, <3>2, Zenon
    <2>3. call'[w].st # "idle" /\ CallInOrder(call'[w], reached'[call'[w].batch])
      BY <1>8, <1>11, <1>14, <2>1, Zenon
    <2>4. \A v \in Writers \ {w} : call[v].st = "idle" => call[v].batch = 0
      BY Zenon DEF EmbeddedInv, CommitsInOrder
    <2> QED
      BY <1>11, <2>2, <2>3, <2>4, Zenon DEF CommitsInOrder
  <1>18. SearchMerged'
    BY <1>9, Zenon DEF EmbeddedInv, SearchMerged
  <1> QED
    BY <1>15, <1>16, <1>17, <1>18, Zenon DEF EmbeddedInv

(* A call ends with an error or with success: only its state changes. *)
LEMMA EndCallInv ==
    ASSUME EmbeddedInv, NEW w \in Writers, call[w].st = "running",
           NEW st \in {"ok", "error"}, st = "ok" <=> call[w].todo = {},
           call' = [call EXCEPT ![w].st = st],
           UNCHANGED <<points, finder, result, batches, reached>>
    PROVE  EmbeddedInv'
  <1>1. /\ call \in [Writers -> Call]
        /\ \A v \in Writers : OwnsBatch(v)
        /\ CallInOrder(call[w], reached[call[w].batch])
    BY Zenon DEF EmbeddedInv, EmbeddedTypeOK, BatchesOwned, CommitsInOrder
  <1>2. PICK c \in Call : c = call[w]
    BY <1>1, Zenon
  <1>3. PICK d : d = [c EXCEPT !.st = st]
    BY ZenonT(20)
  <1>4. /\ d \in Call /\ d.st = st /\ d.batch = c.batch /\ d.ids = c.ids /\ d.valid = c.valid
        /\ d.todo = c.todo
    BY <1>3, Zenon DEF Call
  <1>5. call'[w] = d /\ (\A v \in Writers \ {w} : call'[v] = call[v]) /\ call' \in [Writers -> Call]
    BY <1>1, <1>2, <1>3, <1>4, Zenon
  <1>6. EmbeddedTypeOK'
    BY <1>5, Zenon DEF EmbeddedInv, EmbeddedTypeOK
  <1>7. BatchesOwned'
    <2>1. \A v \in Writers : /\ call'[v].batch = call[v].batch
                             /\ call'[v].st # "idle" => call[v].st # "idle"
      BY <1>2, <1>4, <1>5, Zenon
    <2>2. ASSUME NEW v \in Writers PROVE OwnsBatch(v)'
      BY <1>1, <2>1 DEF OwnsBatch
    <2> QED
      BY <2>2, Zenon DEF EmbeddedInv, BatchesOwned
  <1>8. CommitsInOrder'
    <2>1. d.st # "idle" /\ CallInOrder(d, reached[d.batch])
      BY <1>1, <1>2, <1>4, Zenon DEF CallInOrder
    <2> QED
      BY <1>5, <2>1, Zenon DEF EmbeddedInv, CommitsInOrder
  <1>9. SearchMerged'
    BY Zenon DEF EmbeddedInv, SearchMerged
  <1> QED
    BY <1>6, <1>7, <1>8, <1>9, Zenon DEF EmbeddedInv

(* A thread searches its shard or fails, and the answers are merged once all have ended. *)
LEMMA SearchInv ==
    ASSUME EmbeddedInv, (\E s \in Shards : SearchShard(s) \/ FailSearch(s)) \/ JoinSearch
    PROVE  EmbeddedInv'
  <1>1. UNCHANGED <<points, call, batches, reached>>
    BY Zenon DEF SearchShard, FailSearch, JoinSearch
  <1>2. SearchMerged /\ finder = [s \in Shards |-> finder[s]]
    BY Zenon DEF EmbeddedInv, EmbeddedTypeOK
  <1>3. BatchesOwned' /\ CommitsInOrder'
    BY <1>1, Zenon DEF EmbeddedInv, BatchesOwned, OwnsBatch, CommitsInOrder
  <1>4. CASE JoinSearch
    <2>1. SearchMerged'
      <3>1. finder' = finder /\ \A s \in Shards : finder[s] # NotSearched
        BY <1>4, Zenon DEF JoinSearch
      <3>2. CASE \E s \in Shards : finder[s] = SearchFailed
        <4>1. result' = SearchFailed
          BY <1>4, <3>2, Zenon DEF JoinSearch
        <4> QED
          BY <1>2, <3>1, <4>1, Zenon DEF SearchMerged
      <3>3. CASE \A s \in Shards : finder[s] # SearchFailed
        <4>1. result' = TopK(UNION {TopK(finder[s], K) : s \in Shards}, K)
          BY <1>4, <3>3 DEF JoinSearch
        <4>2. \A s \in Shards : finder[s] \notin {NotSearched, SearchFailed}
          BY <3>1, <3>3, Zenon
        <4> QED
          BY <1>2, <3>1, <4>1, <4>2, Zenon DEF SearchMerged
      <3> QED
        BY <3>2, <3>3, Zenon
    <2>2. EmbeddedTypeOK'
      BY <1>1, <1>4, Zenon DEF EmbeddedInv, EmbeddedTypeOK, JoinSearch
    <2> QED
      BY <1>3, <2>1, <2>2, Zenon DEF EmbeddedInv
  <1>5. ASSUME NEW s \in Shards, SearchShard(s) \/ FailSearch(s) PROVE EmbeddedInv'
    <2>1. /\ finder'[s] \in {Live(s), SearchFailed} /\ (\A t \in Shards \ {s} : finder'[t] = finder[t])
          /\ finder' = [t \in Shards |-> finder'[t]]
          /\ result' = result /\ finder[s] = NotSearched
      BY <1>2, <1>5, Zenon DEF SearchShard, FailSearch
    <2>2. Live(s) \subseteq Batch(Ids, s)
      BY Zenon DEF Live
    <2>3. result = NotSearched
      BY <1>2, <2>1, Zenon DEF SearchMerged
    <2>4. SearchMerged'
      BY <1>2, <2>1, <2>2, <2>3, FailedDiffers, Zenon DEF SearchMerged
    <2>5. EmbeddedTypeOK'
      BY <1>1, <2>1, Zenon DEF EmbeddedInv, EmbeddedTypeOK
    <2> QED
      BY <1>3, <2>4, <2>5, Zenon DEF EmbeddedInv
  <1> QED
    BY <1>4, <1>5, Zenon

(* Every step of the embedded collection keeps EmbeddedInv. *)
THEOREM EmbeddedInvariant == EmbeddedSpec => []EmbeddedInv
  <1>1. EmbeddedInv /\ [EmbeddedNext]_embedded => EmbeddedInv'
    <2> SUFFICES ASSUME EmbeddedInv, [EmbeddedNext]_embedded PROVE EmbeddedInv'
      OBVIOUS
    <2>1. ASSUME NEW w \in Writers, CommitShard(w) \/ FailShard(w) \/ Return(w) PROVE EmbeddedInv'
      <3>1. CASE CommitShard(w)
        BY <3>1, CommitShardInv, Zenon
      <3>2. CASE FailShard(w)
        BY <3>2, EndCallInv, ZenonT(20) DEF FailShard
      <3>3. CASE Return(w)
        BY <3>3, EndCallInv, ZenonT(20) DEF Return
      <3> QED
        BY <2>1, <3>1, <3>2, <3>3, Zenon
    <2>2. CASE UNCHANGED embedded
      BY <2>2 DEF embedded, EmbeddedInv, EmbeddedTypeOK, BatchesOwned, OwnsBatch, CommitsInOrder, SearchMerged
    <2> QED
      BY <2>1, <2>2, BeginBatchInv, SearchInv, Zenon DEF EmbeddedNext
  <1> QED
    BY <1>1, EmbeddedInitInv, PTL DEF EmbeddedSpec

(* A batch that succeeds is on every shard it concerns, one that fails is on those before *)
(* some shard, and one that fails validation on none, for any number of shards, threads   *)
(* and batches (upsert, delete).                                                          *)
THEOREM EmbeddedCommits == EmbeddedSpec => []CommitsAreAPrefix
  <1>1. EmbeddedInv => CommitsAreAPrefix
    <2> SUFFICES ASSUME EmbeddedInv, NEW w \in Writers, NEW c, c = call[w], c.st \in {"ok", "error"},
                        NEW done, done = reached[c.batch]
                 PROVE  /\ c.st = "ok" => done = Involved(c.ids)
                        /\ c.st = "error" =>
                             \E failed \in Shards : done = {s \in Involved(c.ids) : s < failed}
                        /\ c.st = "error" /\ ~c.valid => done = {}
      BY Zenon DEF CommitsAreAPrefix
    <2>1. /\ c \in Call /\ CallInOrder(c, done) /\ done \in SUBSET Shards
      <3>1. /\ c \in Call /\ CallInOrder(c, done) /\ c.batch \in 1 .. batches /\ batches \in 0 .. MaxBatches
            /\ reached \in [1 .. MaxBatches -> SUBSET Shards]
        BY Zenon DEF EmbeddedInv, EmbeddedTypeOK, BatchesOwned, OwnsBatch, CommitsInOrder
      <3>2. c.batch \in 1 .. MaxBatches
        BY <3>1, EmbeddedConstants
      <3> QED
        BY <3>1, <3>2, Zenon
    <2>2. c.st = "ok" => done = Involved(c.ids)
      BY <2>1, Zenon DEF CallInOrder
    <2>3. ~c.valid => done = {}
      BY <2>1, Zenon DEF CallInOrder
    <2>4. ASSUME c.st = "error"
          PROVE  \E failed \in Shards : done = {s \in Involved(c.ids) : s < failed}
      <3>0. c.ids \in SUBSET Ids /\ c.todo \in SUBSET Shards /\ c.todo \in SUBSET Nat
        BY <2>1, ShardTypes, ZenonT(20) DEF Call
      <3>1. CASE done = {}
        <4>1. done = {s \in Involved(c.ids) : s < 0}
          <5>1. Involved(c.ids) \subseteq Shards
            BY <3>0, ShardTypes, Zenon
          <5>2. \A s \in Involved(c.ids) : ~(s < 0)
            BY <5>1, RoutingConstants DEF Shards
          <5> QED
            BY <3>1, <5>2, Zenon
        <4> QED
          BY <4>1, ShardTypes, Zenon
      <3>2. CASE done # {}
        <4>1. c.todo # {} /\ done \union c.todo = Involved(c.ids)
              /\ \A s \in done, t \in c.todo : s < t
          BY <2>1, <2>4, <3>2, Zenon DEF CallInOrder
        <4>2. PICK failed \in c.todo : \A t \in c.todo : failed <= t
          BY <3>0, <4>1, NatMin, ZenonT(20)
        <4>3. done = {s \in Involved(c.ids) : s < failed}
          BY <2>1, <3>0, <4>1, <4>2, ShardTypes
        <4> QED
          BY <3>0, <4>3, Zenon
      <3> QED
        BY <3>1, <3>2, Zenon
    <2> QED
      BY <2>2, <2>3, <2>4, Zenon
  <1> QED
    BY <1>1, EmbeddedInvariant, PTL

(* A search that returns hits returns the exact top k of what all the shards searched. *)
THEOREM EmbeddedMerge == EmbeddedSpec => []MergedTopK
  <1>1. EmbeddedInv => MergedTopK
    <2> SUFFICES ASSUME EmbeddedInv, result \notin {NotSearched, SearchFailed},
                        NEW searched, searched = UNION {finder[s] : s \in Shards}
                 PROVE  /\ \A s \in Shards : finder[s] \notin {NotSearched, SearchFailed}
                        /\ result \subseteq searched
                        /\ Cardinality(result) = Min({K, Cardinality(searched)})
                        /\ \A i \in result, j \in searched \ result : RanksBefore(i, j)
      BY ZenonT(20) DEF MergedTopK
    <2>0. \A s \in Shards : finder[s] \notin {NotSearched, SearchFailed}
      BY Zenon DEF EmbeddedInv, SearchMerged
    <2>1. /\ \A s \in Shards : finder[s] \in SUBSET Ids
          /\ result = TopK(UNION {TopK(finder[s], K) : s \in Shards}, K)
      BY <2>0, Zenon DEF EmbeddedInv, SearchMerged, Batch
    <2>2. finder \in [Shards -> SUBSET Ids]
      BY <2>1, Zenon DEF EmbeddedInv, EmbeddedTypeOK
    <2>3. searched \in SUBSET Ids /\ K \in Nat
      BY <2>1, EmbeddedConstants, Zenon
    <2>4. result = TopK(searched, K)
      BY <2>1, <2>2, <2>3, MergeExact, Zenon
    <2> QED
      BY <2>0, <2>3, <2>4, TopKSize, TopKFirst, ZenonT(20) DEF TopK
  <1> QED
    BY <1>1, EmbeddedInvariant, PTL
====
