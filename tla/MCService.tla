------------------------------ MODULE MCService ------------------------------
(***************************************************************************)
(* The service around the collections: its catalog, a background flusher,  *)
(* or its admission of requests, one per behaviour.                        *)
(***************************************************************************)
EXTENDS Database, BackgroundFlush, Admission

VARIABLE scenario

MCInit ==
    /\ scenario \in {"database", "flush", "admission"}
    /\ DatabaseInit /\ FlushInit /\ AdmissionInit
    /\ scenario # "admission" => transport = "http"

MCNext ==
    /\ \/ scenario = "database" /\ DatabaseNext /\ UNCHANGED <<flushing, admission>>
       \/ scenario = "flush" /\ FlushNext /\ UNCHANGED <<database, admission>>
       \/ scenario = "admission" /\ AdmissionNext /\ UNCHANGED <<database, flushing>>
    /\ UNCHANGED scenario

MCSpec ==
    /\ MCInit /\ [][MCNext]_<<scenario, database, flushing, admission>>
    /\ FlushFairness /\ AdmissionFairness
==============================================================================
