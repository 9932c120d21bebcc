--------------------------- MODULE MetadataIndex ---------------------------
(***************************************************************************)
(* Filtered search in a persistent collection: posting sets by value and   *)
(* by number that a flush builds (metadata_index.rs), the IDs changed      *)
(* since, and the plan that joins them (persistence.rs, collection.rs).    *)
(* Requests bring their filters as JSON.                                   *)
(***************************************************************************)
EXTENDS Filters

CONSTANTS
    PointIds,         \* point IDs, in their order: integers
    PointScore,       \* the score of each point for the query
    Metadata,         \* the metadata a point may have
    FilterCases,      \* filters that are tried
    ApiFilters,       \* filters of requests that are tried
    MaxPointWrites    \* bound: writes

VARIABLES
    points,           \* metadata of each live point
    metadata_index,   \* the index, if there is one
    dirty_ids,        \* IDs changed since it was built
    request,          \* the filter of a request
    answer,           \* what it was converted to
    pointWrites       \* writes so far

filtering == <<points, metadata_index, dirty_ids, request, answer, pointWrites>>

-----------------------------------------------------------------------------
(* The keys of the postings: -0.0 is filed under 0.0, and NaN under nothing. *)
from_value(v) ==
    CASE v.variant # "float" -> {v}
      [] v.variant = "float" /\ v.n = NegZero -> {[v EXCEPT !.n = Zero]}
      [] v.variant = "float" /\ v.n = NaN -> {}
      [] OTHER -> {v}

\* Mutant: the zeros are filed under two numbers.
SignedZeros(float) == float

OrderedF64(float) == IF float = NegZero THEN Zero ELSE float

(* The values of a set of points under each field, and the postings of their keys. *)
Postings(pts) ==
    UNION {{<<id, field, pts[id][field]>> : field \in DOMAIN pts[id]} : id \in DOMAIN pts}

build(pts) ==
    [all_ids |-> DOMAIN pts,
     equality |-> UNION {{<<e[1], e[2], key>> : key \in from_value(e[3])} : e \in Postings(pts)},
     numeric |-> UNION {{<<e[1], e[2], OrderedF64(x)>> : x \in numeric_value(e[3])} :
                          e \in Postings(pts)}]

(* An ordered map is read between two bounds; empty and unordered bounds are caught before. *)
range(mi, field, gte, lt) ==
    IF \/ NaN \in gte \union lt
       \/ \E lower \in gte, upper \in lt : ~FloatLess(lower, upper)
    THEN {}
    ELSE {e[1] : e \in {e \in mi.numeric :
            /\ e[2] = field
            /\ \A lower \in gte : e[3] >= OrderedF64(lower)
            /\ \A upper \in lt : e[3] < OrderedF64(upper)}}

RECURSIVE candidates(_, _)
candidates(mi, filter) ==
    CASE filter.op = "match_all" -> mi.all_ids
      [] filter.op = "eq" ->
            {e[1] : e \in {e \in mi.equality : e[2] = filter.field /\ e[3] \in from_value(filter.value)}}
      [] filter.op = "range" -> range(mi, filter.field, filter.gte, filter.lt)
      [] filter.op = "and" ->
            {id \in mi.all_ids :
               \A i \in DOMAIN filter.filters : id \in candidates(mi, filter.filters[i])}
      [] filter.op = "or" ->
            UNION {candidates(mi, filter.filters[i]) : i \in DOMAIN filter.filters}
      [] filter.op = "not" -> mi.all_ids \ candidates(mi, filter.filter)

-----------------------------------------------------------------------------
(* RankedPoint::cmp and merge_hits: higher score first, then smaller ID. *)
Ranked(i, j) == PointScore[i] > PointScore[j] \/ (PointScore[i] = PointScore[j] /\ i < j)

(* The heap keeps k points and gives up its worst for a better one. *)
top_k(ids, k) ==
    LET Offer(id, heap) ==
            LET worst == CHOOSE w \in heap : \A other \in heap \ {w} : Ranked(other, w)
            IN IF Cardinality(heap) < k THEN heap \union {id}
               ELSE IF Ranked(id, worst) THEN (heap \ {worst}) \union {id}
               ELSE heap
    IN FoldSet(Offer, {}, ids)

(* Collection::search_ids *)
search_ids(ids, k, filter) ==
    top_k({id \in ids \intersect DOMAIN points : matches(filter, points[id])}, k)

(* Both parts in one list: sorted, duplicates removed, cut at k. *)
merge_hits(hits, k) ==
    {id \in hits : Cardinality({other \in hits : Ranked(other, id)}) < k}

(* search_with_ef with a filter: a scan when there is no index; else the candidates that *)
(* have not changed, and the changed IDs.                                                *)
search_with_ef(k, filter) ==
    IF metadata_index = {} THEN search_ids(DOMAIN points, k, filter)
    ELSE LET mi == CHOOSE mi \in metadata_index : TRUE
         IN merge_hits(search_ids(candidates(mi, filter) \ dirty_ids, k, filter)
                         \union search_ids(dirty_ids, k, filter), k)

-----------------------------------------------------------------------------
FilterInit ==
    /\ points = <<>> /\ metadata_index = {} /\ dirty_ids = {}
    /\ request \in ApiFilters /\ answer = "none"
    /\ pointWrites = 0

UpsertPoint(id, metadata) ==
    /\ pointWrites < MaxPointWrites
    /\ points' = [i \in DOMAIN points \union {id} |-> IF i = id THEN metadata ELSE points[i]]
    /\ dirty_ids' = dirty_ids \union {id}
    /\ pointWrites' = pointWrites + 1
    /\ UNCHANGED <<metadata_index, request, answer>>

DeletePoint(id) ==
    /\ pointWrites < MaxPointWrites
    /\ points' = [i \in DOMAIN points \ {id} |-> points[i]]
    /\ dirty_ids' = dirty_ids \union {id}
    /\ pointWrites' = pointWrites + 1
    /\ UNCHANGED <<metadata_index, request, answer>>

(* PersistentCollection::flush: nothing without a changed ID, once there is an index.  The *)
(* flush that builds its indexes off the lock is PersistentCollection's.                   *)
FlushPoints ==
    /\ dirty_ids # {} \/ metadata_index = {}
    /\ metadata_index' = {build(points)}
    /\ dirty_ids' = {}
    /\ UNCHANGED <<points, request, answer, pointWrites>>

Convert ==
    /\ answer = "none"
    /\ answer' = IF into_filter(request) = {} THEN "refused" ELSE "accepted"
    /\ UNCHANGED <<points, metadata_index, dirty_ids, request, pointWrites>>

FilterNext ==
    \/ \E id \in PointIds : DeletePoint(id) \/ \E metadata \in Metadata : UpsertPoint(id, metadata)
    \/ FlushPoints

-----------------------------------------------------------------------------
(* A filtered search through the metadata index and the changed IDs returns what a scan *)
(* of all points would: the best k that the filter matches.  NaN, infinities, the two   *)
(* zeros and integers beyond 2^53 are filed where Filter::matches finds them, and a     *)
(* point that was changed or deleted since the last flush is judged by what it is now.  *)
FilteredSearchExact ==
    metadata_index # {} =>
    \A filter \in FilterCases :
        LET all == {id \in DOMAIN points : matches(filter, points[id])}
        IN \A k \in 1 .. Cardinality(PointIds) : search_with_ef(k, filter) =
             {id \in all : Cardinality({other \in all : Ranked(other, id)}) < k}

(* A request's filter is accepted exactly when its fields and values are valid and it is *)
(* within the limits on nesting and nodes: the arguments of one And share what is left   *)
(* of the nodes, and neither limit is off by one.                                        *)
FilterLimitsExact ==
    answer # "none" =>
        (answer = "accepted" <=> /\ LeavesValid(request)
                                 /\ Depth(request) <= FilterDepth
                                 /\ Nodes(request) <= FilterNodes)
============================================================================
