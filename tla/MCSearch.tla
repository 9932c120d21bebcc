------------------------------ MODULE MCSearch ------------------------------
(***************************************************************************)
(* Search structures: an HNSW graph, a metadata index, or the filter of a  *)
(* request, one per behaviour.                                             *)
(***************************************************************************)
EXTENDS Hnsw, MetadataIndex

VARIABLE scenario

MCTiny == -1

MCLevelTables ==
    {<<1, 1, 1, 1, 1, 1>>, <<0, 1, 0, 1, 1, 0>>, <<0, 0, 1, 1, 0, 1>>, <<1, 0, 0, 0, 1, 0>>}

MCSearched == {<<0, 1, 3, 3>>, <<3, 0, 1, 0, 3>>}

MCScore == (1 :> 5) @@ (2 :> 5)

MCValues ==
    {Value("keyword", 1), Value("boolean", 1), Value("integer", 0), Value("integer", 2),
     Value("integer", 3), Value("float", NegZero), Value("float", Zero), Value("float", Big),
     Value("float", Inf), Value("float", NaN)}

MCMetadata == {<<>>} \union {"f" :> v : v \in MCValues}

Eq(field, value) == [op |-> "eq", field |-> field, value |-> value]

Between(field, gte, lt) == [op |-> "range", field |-> field, gte |-> gte, lt |-> lt]

MatchAll == [op |-> "match_all"]

Not(filter) == [op |-> "not", filter |-> filter]

Lists(filters) ==
    {[op |-> op, filters |-> list] : op \in {"and", "or"}, list \in BoundedSeq(filters, 2)}

MCBounds == {{}} \union {{x} : x \in {NegInf, NegZero, Zero, Big, NaN}}

MCLeaves ==
    {MatchAll, Eq("g", Value("integer", 0))} \union {Eq("f", v) : v \in MCValues}
        \union {Between("f", gte, lt) : gte \in MCBounds, lt \in MCBounds}

MCSomeLeaves ==
    {Eq("f", Value("float", Zero)), Between("f", {Zero}, {}), Not(Eq("f", Value("float", NaN))),
     Not(Between("f", {}, {Big}))}

MCFilterCases == MCLeaves \union {Not(f) : f \in MCLeaves} \union Lists(MCSomeLeaves)

MCApiLeaves ==
    {MatchAll, Eq("f", [variant |-> "i64", n |-> 0]), Eq("f", [variant |-> "null", n |-> 0]),
     Between("", {Zero}, {})}

MCApiInner == MCApiLeaves \union {Not(f) : f \in MCApiLeaves} \union Lists(MCApiLeaves)

MCApiFilters == MCApiInner \union {Not(f) : f \in MCApiInner} \union Lists(MCApiInner)

MCInit ==
    /\ scenario \in {"graph", "filter", "request"}
    /\ HnswInit /\ FilterInit
    /\ scenario # "graph" => levels = <<1, 1, 1, 1, 1, 1>>
    /\ scenario # "request" => request = MatchAll

MCNext ==
    /\ \/ scenario = "graph" /\ HnswNext /\ UNCHANGED filtering
       \/ scenario = "filter" /\ FilterNext /\ UNCHANGED hnsw
       \/ scenario = "request" /\ Convert /\ UNCHANGED hnsw
    /\ UNCHANGED scenario

MCSpec == MCInit /\ [][MCNext]_<<scenario, hnsw, filtering>>

Symmetry == Permutations(Searchers)
=============================================================================
