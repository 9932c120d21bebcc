------------------------- MODULE MCShardStateMachine -------------------------
EXTENDS DurableShardStateMachine

CONSTANTS a, b, r1, r2, r3

MCCommand ==
    (r1 :> [op |-> "Upsert", ids |-> {a, b}])
      @@ (r2 :> [op |-> "Delete", ids |-> {a}])
      @@ (r3 :> [op |-> "Invalid", ids |-> {}])
==============================================================================
