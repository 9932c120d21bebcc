-------------------------------- MODULE Hnsw --------------------------------
(***************************************************************************)
(* The HNSW index (hnsw.rs): a layered graph that is built from a batch of *)
(* points, the first ones one after the other and the rest in batches that *)
(* are planned in parallel against the graph so far and applied in order;  *)
(* then compacted, written, read back and searched by several threads that *)
(* share a pool of visited-marks.                                          *)
(*                                                                         *)
(* A vector is a number on a line and the score is the Euclidean one.      *)
(* Nodes are numbered from 1.  Both callers pass the points in the order   *)
(* of their IDs (Collection::snapshot_points), so a node stands for its    *)
(* ID and the two orders on items, by index and by ID, are one.            *)
(***************************************************************************)
EXTENDS Integers, FiniteSets, SequencesExt

CONSTANTS
    M,                   \* HnswConfig::m
    EfConstruction,      \* HnswConfig::ef_construction
    MaxLevel,            \* MAX_LEVEL
    BuildSeed,           \* PARALLEL_BUILD_SEED
    BuildBatch,          \* PARALLEL_BUILD_BATCH
    WorkerCount,         \* rayon::current_num_threads()
    MaxPooled,           \* MAX_POOLED_SEARCH_WORKSPACES
    GenerationMax,       \* u32::MAX, the last generation of a workspace
    Vectors,             \* vectors, numbers on a line
    LevelTables,         \* deterministic_level of the points' IDs, in order: the cases tried
    Tiny,                \* a vector next to 0 whose quantization scale underflows to 0
    Searchers,           \* searching threads
    MaxNodes,            \* bound: points of an index
    Searched,            \* bound: the vectors of the indexes that are searched
    Widths,              \* bound: values of k and ef_search
    MaxSearches          \* bound: searches of an index

ASSUME HnswConstants ==
    /\ M \in Nat /\ M >= 2 /\ EfConstruction \in Nat /\ EfConstruction >= M   \* validate_config
    /\ MaxLevel \in Nat /\ GenerationMax \in Nat \ {0}
    /\ Vectors \subseteq Nat /\ Tiny \in Int \ Nat

VARIABLES
    levels,      \* the level of each point, a hash of its ID
    index,       \* HnswIndex: nodes, entry point, top level, compact graph
    built,       \* has build_prepared_points returned?
    batch,       \* planned points that are still to be applied
    ended,       \* has the input ended?
    workspaces,  \* the builder's workspaces: 0 for the seed, then one per worker
    pool,        \* search_workspaces
    search,      \* what each searching thread is doing
    searches     \* searches so far

hnsw == <<levels, index, built, batch, ended, workspaces, pool, search, searches>>

-----------------------------------------------------------------------------
(* Vectors and the order of items. *)

(* QuantizedVector::new: the scale is max_abs / 127, or 1 for a zero vector. *)
PositiveScale(v) == v # Tiny

score_vectors(u, v) ==
    LET x(w) == IF w = Tiny THEN 0 ELSE w
    IN -((x(u) - x(v)) * (x(u) - x(v)))

ScoreOf(g, q, n) == score_vectors(q, g.nodes[n].vector)

(* HeapItem::cmp and compare_scored: the higher score, then the smaller index or ID. *)
Better(g, q, a, b) ==
    \/ ScoreOf(g, q, a) > ScoreOf(g, q, b)
    \/ ScoreOf(g, q, a) = ScoreOf(g, q, b) /\ a < b

Best(g, q, items) == CHOOSE a \in items : \A b \in items \ {a} : Better(g, q, a, b)

Worst(g, q, items) == CHOOSE a \in items : \A b \in items \ {a} : Better(g, q, b, a)

sort_items(g, q, items) ==
    [r \in 1 .. Cardinality(items) |->
        CHOOSE a \in items : Cardinality({b \in items : Better(g, q, b, a)}) = r - 1]

max_connections(layer) == IF layer = 0 THEN 2 * M ELSE M

-----------------------------------------------------------------------------
(* BuildWorkspace: a node is visited when its mark is the current generation. *)

NewWorkspace == [visited |-> <<>>, generation |-> 0]

Resized(visited, count) ==
    [n \in 1 .. count |-> IF n <= Len(visited) THEN visited[n] ELSE 0]

\* Mutant: the marks of the first generations survive the wrap.
BeginWithoutFill(w, count) ==
    [visited |-> Resized(w.visited, count),
     generation |-> IF w.generation = GenerationMax THEN 1 ELSE w.generation + 1]

begin(w, count) ==
    IF w.generation = GenerationMax
    THEN [visited |-> [n \in 1 .. count |-> 0], generation |-> 1]
    ELSE [visited |-> Resized(w.visited, count), generation |-> w.generation + 1]

Visited(w, n) == w.visited[n] = w.generation

Mark(w, n) == [w EXCEPT !.visited[n] = w.generation]

-----------------------------------------------------------------------------
(* The graph and its searches. *)

EmptyIndex ==
    [nodes |-> <<>>, entry_point |-> 0, max_level |-> 0, compact |-> FALSE,
     ranges |-> <<>>, links |-> <<>>]

(* Through the compact graph once there is one. *)
neighbors(g, n, layer) ==
    LET node == g.nodes[n] IN
    IF layer > node.level THEN <<>>
    ELSE IF g.compact
    THEN LET range == g.ranges[node.range_start + layer + 1]
         IN SubSeq(g.links, range.start + 1, range.end)
    ELSE node.neighbors[layer + 1]

(* One neighbour of the popped candidate: marked, and kept when it qualifies. *)
Consider(g, q, ef, s, n) ==
    IF Visited(s.workspace, n) THEN s
    ELSE LET marked == [s EXCEPT !.workspace = Mark(s.workspace, n)]
             more == s.results \union {n}
         IN IF Cardinality(s.results) < ef \/ Better(g, q, n, Worst(g, q, s.results))
            THEN [marked EXCEPT
                    !.frontier = s.frontier \union {n},
                    !.results = IF Cardinality(more) > ef THEN more \ {Worst(g, q, more)}
                                ELSE more]
            ELSE marked

RECURSIVE Explore(_, _, _, _, _)
Explore(g, q, ef, layer, s) ==
    IF s.frontier = {} THEN s
    ELSE LET candidate == Best(g, q, s.frontier) IN
         IF /\ Cardinality(s.results) >= ef
            /\ Better(g, q, Worst(g, q, s.results), candidate)
         THEN s
         ELSE Explore(g, q, ef, layer,
                 FoldLeft(LAMBDA t, n : Consider(g, q, ef, t, n),
                          [s EXCEPT !.frontier = s.frontier \ {candidate}],
                          neighbors(g, candidate, layer)))

(* search_layer and search_layer_for_build: the items, best first, and the workspace. *)
search_layer(g, q, entry, ef, layer, w) ==
    LET s == Explore(g, q, ef, layer,
                 [frontier |-> {entry}, results |-> {entry},
                  workspace |-> Mark(begin(w, Len(g.nodes)), entry)])
    IN [items |-> sort_items(g, q, s.results), workspace |-> s.workspace]

RECURSIVE greedy_closest(_, _, _, _)
greedy_closest(g, q, current, layer) ==
    LET best == Best(g, q, {current} \union ToSet(neighbors(g, current, layer)))
    IN IF best = current THEN current ELSE greedy_closest(g, q, best, layer)

(* The layers from high down to low, none if high < low. *)
LayersDown(high, low) == [i \in 1 .. high - low + 1 |-> high + 1 - i]

Descend(g, q, low) ==
    FoldLeft(LAMBDA current, layer : greedy_closest(g, q, current, layer),
             g.entry_point, LayersDown(g.max_level, low))

-----------------------------------------------------------------------------
(* Insertion. *)

(* A candidate is taken when it is closer to q than to all taken before it; *)
(* those passed over fill what is left of the limit.                        *)
select_neighbors(g, q, candidates, limit) ==
    LET Diverse(c, taken) ==
            \A i \in DOMAIN taken :
                score_vectors(g.nodes[c].vector, g.nodes[taken[i]].vector) < ScoreOf(g, q, c)
        Take(s, c) ==
            IF Len(s.selected) = limit THEN s
            ELSE IF Diverse(c, s.selected)
            THEN [s EXCEPT !.selected = Append(s.selected, c)]
            ELSE [s EXCEPT !.rejected = Append(s.rejected, c)]
        s == FoldLeft(Take, [selected |-> <<>>, rejected |-> <<>>], candidates)
        room == limit - Len(s.selected)
    IN s.selected \o SubSeq(s.rejected, 1, IF Len(s.rejected) < room THEN Len(s.rejected) ELSE room)

(* The links of a new point on every layer it shares with the graph, which is only read. *)
plan_insert(g, point, w) ==
    LET connected == IF point.level < g.max_level THEN point.level ELSE g.max_level
        OnLayer(p, layer) ==
            LET found == search_layer(g, point.vector, p.current, EfConstruction, layer, p.workspace)
                selected == select_neighbors(g, point.vector, found.items, max_connections(layer))
            IN [current |-> IF selected = <<>> THEN p.current ELSE selected[1],
                neighbors |-> [p.neighbors EXCEPT ![layer + 1] = selected],
                workspace |-> found.workspace]
    IN FoldLeft(OnLayer,
           [current |-> Descend(g, point.vector, point.level + 1),
            neighbors |-> [l \in 1 .. point.level + 1 |-> <<>>],
            workspace |-> w],
           LayersDown(connected, 0))

prune(g, n, layer) ==
    LET links == g.nodes[n].neighbors[layer + 1]
        q == g.nodes[n].vector
    IN IF Len(links) <= max_connections(layer) THEN g
       ELSE [g EXCEPT !.nodes[n].neighbors[layer + 1] =
               select_neighbors(g, q, sort_items(g, q, ToSet(links)), max_connections(layer))]

(* A link from an old node back to the new one; lists are pruned at twice their limit. *)
LinkBack(g, n, layer, new) ==
    LET linked == [g EXCEPT !.nodes[n].neighbors[layer + 1] = Append(@, new)]
    IN IF Len(linked.nodes[n].neighbors[layer + 1]) >= 2 * max_connections(layer)
       THEN prune(linked, n, layer)
       ELSE linked

apply_insertion(g, point, plan) ==
    LET new == Len(g.nodes) + 1
        pushed == [g EXCEPT !.nodes = Append(@,
                     [level |-> point.level, vector |-> point.vector, range_start |-> 0,
                      neighbors |-> plan])]
        Back(h, layer) == FoldLeft(LAMBDA h2, n : LinkBack(h2, n, layer, new), h, plan[layer + 1])
        linked == FoldLeft(Back, pushed, [l \in 1 .. point.level + 1 |-> l - 1])
    IN IF g.entry_point = 0 \/ point.level > g.max_level
       THEN [linked EXCEPT !.entry_point = new, !.max_level = point.level]
       ELSE linked

\* Mutant: lists stay as long as insertion lets them grow.
NotCompacted(g) == g

compact_neighbors(g) ==
    FoldLeft(LAMBDA h, n :
                FoldLeft(LAMBDA h2, l : prune(h2, n, l - 1), h,
                         [l \in 1 .. g.nodes[n].level + 1 |-> l]),
             g, [n \in 1 .. Len(g.nodes) |-> n])

(* All lists in one sequence, with the range of each: a node's ranges follow its range_start. *)
finalize_compact_graph(g) ==
    LET Layer(c, list) ==
            [c EXCEPT !.links = @ \o list,
                      !.ranges = Append(@, [start |-> Len(c.links), end |-> Len(c.links) + Len(list)])]
        Node(c, node) ==
            FoldLeft(Layer,
                [c EXCEPT !.nodes = Append(@, [node EXCEPT !.range_start = Len(c.ranges),
                                                           !.neighbors = <<>>])],
                node.neighbors)
    IN IF g.compact THEN g
       ELSE FoldLeft(Node, [g EXCEPT !.compact = TRUE, !.nodes = <<>>], g.nodes)

-----------------------------------------------------------------------------
(* The bytes of a graph, as the fields encode_into writes, and what decode_inner makes *)
(* of them: a graph, or Corrupt.                                                       *)

encode_into(g) ==
    [config |-> [m |-> M, ef_construction |-> EfConstruction],
     entry_point |-> g.entry_point,
     max_level |-> g.max_level,
     nodes |-> [n \in 1 .. Len(g.nodes) |->
                  [vector |-> g.nodes[n].vector,
                   layers |-> [l \in 1 .. g.nodes[n].level + 1 |-> neighbors(g, n, l - 1)]]]]

HeaderAccepted(file) ==
    /\ file.config.m >= 2 /\ file.config.ef_construction >= file.config.m
    /\ file.max_level <= MaxLevel

NodeAccepted(node) ==
    /\ PositiveScale(node.vector)
    /\ Len(node.layers) \in 1 .. MaxLevel + 1
    /\ \A l \in DOMAIN node.layers : Len(node.layers[l]) <= max_connections(l - 1)

EntryAccepted(file) ==
    IF file.nodes = <<>> THEN file.entry_point = 0 /\ file.max_level = 0
    ELSE /\ file.entry_point \in DOMAIN file.nodes
         /\ Len(file.nodes[file.entry_point].layers) - 1 >= file.max_level

LinksAccepted(file) ==
    \A n \in DOMAIN file.nodes : \A l \in DOMAIN file.nodes[n].layers :
        ToSet(file.nodes[n].layers[l]) \subseteq DOMAIN file.nodes \ {n}

Accepted(file) ==
    /\ HeaderAccepted(file)
    /\ \A n \in DOMAIN file.nodes : NodeAccepted(file.nodes[n])
    /\ EntryAccepted(file) /\ LinksAccepted(file)

decode_inner(file) ==
    finalize_compact_graph(
        [EmptyIndex EXCEPT
            !.entry_point = file.entry_point, !.max_level = file.max_level,
            !.nodes = [n \in DOMAIN file.nodes |->
                         [level |-> Len(file.nodes[n].layers) - 1, vector |-> file.nodes[n].vector,
                          range_start |-> 0, neighbors |-> file.nodes[n].layers]]])

-----------------------------------------------------------------------------
(* build_prepared_points *)

NoSearch == [at |-> "idle"]

HnswInit ==
    /\ levels \in LevelTables
    /\ index = EmptyIndex
    /\ built = FALSE /\ batch = <<>> /\ ended = FALSE
    /\ workspaces = [w \in 0 .. WorkerCount |-> NewWorkspace]
    /\ pool = <<>>
    /\ search = [s \in Searchers |-> NoSearch]
    /\ searches = 0

(* The input goes on with these vectors; a tiny one is tried as the first point. *)
Input(vectors) ==
    [i \in DOMAIN vectors |-> [vector |-> vectors[i], level |-> levels[Len(index.nodes) + i]]]

FirstVectors == IF index.nodes = <<>> THEN Vectors \union {Tiny} ELSE Vectors

(* One of the first points: insert_prepared, which plans nothing in an empty graph. *)
InsertSeed(vector) ==
    /\ ~ended /\ Len(index.nodes) < BuildSeed /\ Len(index.nodes) < MaxNodes
    /\ LET point == Input(<<vector>>)[1]
           plan == IF index.entry_point = 0
                   THEN [neighbors |-> [l \in 1 .. point.level + 1 |-> <<>>],
                         workspace |-> workspaces[0]]
                   ELSE plan_insert(index, point, workspaces[0])
       IN /\ index' = apply_insertion(index, point, plan.neighbors)
          /\ workspaces' = [workspaces EXCEPT ![0] = plan.workspace]
    /\ UNCHANGED <<levels, built, batch, ended, pool, search, searches>>

(* The chunk of a worker, and its plans: one after the other in its workspace. *)
Chunk(points, worker) ==
    LET size == (Len(points) + WorkerCount - 1) \div WorkerCount
        last == worker * size
    IN SubSeq(points, last - size + 1, IF last < Len(points) THEN last ELSE Len(points))

ChunkPlans(points, worker) ==
    FoldLeft(LAMBDA done, point :
                LET plan == plan_insert(index, point, done.workspace)
                IN [planned |-> Append(done.planned, [point |-> point, neighbors |-> plan.neighbors]),
                    workspace |-> plan.workspace],
             [planned |-> <<>>, workspace |-> workspaces[worker]],
             Chunk(points, worker))

(* A batch is planned against the graph without any of its points. *)
PlanBatch(vectors) ==
    /\ ~ended /\ batch = <<>> /\ Len(index.nodes) >= BuildSeed
    /\ Len(index.nodes) + Len(vectors) <= MaxNodes
    /\ LET done == [w \in 1 .. WorkerCount |-> ChunkPlans(Input(vectors), w)]
       IN /\ batch' = FlattenSeq([w \in 1 .. WorkerCount |-> done[w].planned])
          /\ workspaces' = [w \in 0 .. WorkerCount |->
                              IF w = 0 THEN workspaces[0] ELSE done[w].workspace]
    /\ ended' = (Len(vectors) < BuildBatch)
    /\ UNCHANGED <<levels, index, built, pool, search, searches>>

ApplyPlanned ==
    /\ batch # <<>>
    /\ index' = apply_insertion(index, Head(batch).point, Head(batch).neighbors)
    /\ batch' = Tail(batch)
    /\ UNCHANGED <<levels, built, ended, workspaces, pool, search, searches>>

Finish ==
    /\ ~built /\ batch = <<>>
    /\ index' = finalize_compact_graph(compact_neighbors(index))
    /\ built' = TRUE /\ ended' = TRUE
    /\ workspaces' = [w \in 0 .. WorkerCount |-> NewWorkspace]
    /\ UNCHANGED <<levels, batch, pool, search, searches>>

-----------------------------------------------------------------------------
(* HnswIndex::search, with k and ef as search_with_ef passes them. *)

BeginSearch(s, q, k, ef) ==
    /\ built /\ search[s].at = "idle" /\ searches < MaxSearches
    /\ index.entry_point # 0 /\ [n \in DOMAIN index.nodes |-> index.nodes[n].vector] \in Searched
    /\ k \in 1 .. Len(index.nodes) /\ ef >= k
    /\ search' = [search EXCEPT ![s] =
          [at |-> "search", query |-> q, k |-> k, ef |-> ef, current |-> Descend(index, q, 1),
           workspace |-> IF pool = <<>> THEN NewWorkspace ELSE Last(pool)]]
    /\ pool' = IF pool = <<>> THEN pool ELSE Front(pool)
    /\ searches' = searches + 1
    /\ UNCHANGED <<levels, index, built, batch, ended, workspaces>>

SearchBase(s) ==
    /\ search[s].at = "search"
    /\ LET c == search[s]
           found == search_layer(index, c.query, c.current, c.ef, 0, c.workspace)
       IN search' = [search EXCEPT ![s] =
            [at |-> "found", query |-> c.query, k |-> c.k, ef |-> c.ef, current |-> c.current,
             workspace |-> found.workspace,
             hits |-> SubSeq(found.items, 1, IF Len(found.items) < c.k THEN Len(found.items) ELSE c.k)]]
    /\ UNCHANGED <<levels, index, built, batch, ended, workspaces, pool, searches>>

ReturnWorkspace(s) ==
    /\ search[s].at = "found"
    /\ pool' = IF Len(pool) < MaxPooled THEN Append(pool, search[s].workspace) ELSE pool
    /\ search' = [search EXCEPT ![s] = NoSearch]
    /\ UNCHANGED <<levels, index, built, batch, ended, workspaces, searches>>

HnswNext ==
    \/ \E vector \in FirstVectors : InsertSeed(vector)
    \/ /\ ~ended /\ batch = <<>> /\ Len(index.nodes) >= BuildSeed
       /\ \E vectors \in BoundedSeq(Vectors, BuildBatch) \ {<<>>} : PlanBatch(vectors)
    \/ ApplyPlanned
    \/ Finish
    \/ /\ built /\ searches < MaxSearches
       /\ \E s \in Searchers, q \in Vectors, k \in Widths, ef \in Widths : BeginSearch(s, q, k, ef)
    \/ \E s \in Searchers : SearchBase(s) \/ ReturnWorkspace(s)

-----------------------------------------------------------------------------
(* The graph that build leaves is one that decode accepts, and decode returns that very *)
(* graph, unless a vector is so small that its quantization scale underflows: entry     *)
(* point, levels, degree limits and targets of links are what the reader requires,      *)
(* whatever was planned against an older graph and pruned since.                        *)
GraphReopens ==
    built /\ searches = 0 =>
        LET file == encode_into(index) IN
        /\ Accepted(file) <=> \A n \in DOMAIN index.nodes : PositiveScale(index.nodes[n].vector)
        /\ decode_inner(file) = index

(* The nodes that links of the base layer lead to. *)
Reachable(from) ==
    LET Step(set) == set \union UNION {ToSet(neighbors(index, n, 0)) : n \in set}
    IN FoldLeft(LAMBDA set, n : Step(set), {from}, index.nodes)

(* A search returns fewer than k hits only if fewer nodes can be reached from where the *)
(* descent ends; hits are distinct and best first, and with ef_search at least the      *)
(* number of reachable nodes they are the best k of those.  So no mark left in a pooled *)
(* workspace by an earlier search, of whatever generation, hides a node.                *)
SearchFindsReachable ==
    \A s \in Searchers : search[s].at = "found" =>
        LET c == search[s]
            reachable == Reachable(c.current)
            all == sort_items(index, c.query, reachable)
        IN /\ Len(c.hits) = IF c.k < Len(all) THEN c.k ELSE Len(all)
           /\ ToSet(c.hits) \subseteq reachable
           /\ \A i, j \in DOMAIN c.hits : i < j => Better(index, c.query, c.hits[i], c.hits[j])
           /\ c.ef >= Len(all) => c.hits = SubSeq(all, 1, Len(c.hits))
=============================================================================
