----------------------------- MODULE MCSharding -----------------------------
(***************************************************************************)
(* Both ways to deploy a sharded collection, one per behaviour.  The       *)
(* distributed one is checked with two competing writes, and with a write  *)
(* and a search.                                                           *)
(***************************************************************************)
EXTENDS ShardedCollection, DistributedCollection, TLC

CONSTANTS
    n1, n2, p, q,
    MaxSearchDisturbances  \* bound: disturbances beside a search

VARIABLE scenario

MCIds == 1 .. 3
MCHash == (1 :> 0) @@ (2 :> 1) @@ (3 :> 2)
MCScore == (1 :> 7) @@ (2 :> 7) @@ (3 :> 9)
MCAddresses == (0 :> <<n1, n2>>) @@ (1 :> <<n1>>)
MCVoters == (0 :> 3) @@ (1 :> 1)
MCWrites == (p :> {1, 2}) @@ (q :> {1})

MCInit ==
    /\ scenario \in {"embedded", "writes", "search"}
    /\ EmbeddedInit
    /\ DistributedInit

MCNext ==
    /\ \/ scenario = "embedded" /\ EmbeddedNext /\ UNCHANGED distributed
       \/ scenario = "writes" /\ DistributedNext /\ UNCHANGED <<embedded, query>>
       \/ /\ scenario = "search" /\ DistributedNext /\ UNCHANGED <<embedded, request[q]>>
          /\ disturbances' <= MaxSearchDisturbances
    /\ UNCHANGED scenario

MCSpec ==
    MCInit /\ [][MCNext]_<<scenario, embedded, distributed>> /\ DistributedFairness
=============================================================================
