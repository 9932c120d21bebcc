------------------------------ MODULE DurableMap ------------------------------
(***************************************************************************)
(* What a durable collection promises its callers, whatever happens to its *)
(* files: a map whose writes take effect one whole batch at a time in      *)
(* sequence order, and which after a crash is again the state after some   *)
(* batch that was tried, no older than the last acknowledged one.          *)
(***************************************************************************)
EXTENDS Naturals

CONSTANTS
    Ids,     \* point IDs
    MaxSeq,  \* the last sequence
    Lossy    \* may a crash lose acknowledged batches?  (Durability::Flush)

VARIABLES
    up,       \* is the collection open?
    map,      \* the version of each point, 0 if there is none
    seq,      \* the sequence of the last batch applied
    pending,  \* is a batch being written?
    history,  \* the state after each batch
    tried,    \* the sequence of the last batch tried
    acked     \* the sequence of the last batch acknowledged

vars == <<up, map, seq, pending, history, tried, acked>>

Empty == [i \in Ids |-> 0]

Init ==
    /\ up = TRUE /\ map = Empty /\ seq = 0 /\ pending = FALSE
    /\ history = [s \in 0 .. MaxSeq |-> Empty]
    /\ tried = 0 /\ acked = 0

(* A batch begins: it sets every ID of a set to the new version, or removes them all. *)
Begin(ids, version) ==
    /\ up /\ ~pending /\ seq < MaxSeq
    /\ version \in {0, seq + 1}
    /\ history' = [history EXCEPT ![seq + 1] =
                     [i \in Ids |-> IF i \in ids THEN version ELSE map[i]]]
    /\ pending' = TRUE
    /\ tried' = seq + 1
    /\ UNCHANGED <<up, map, seq, acked>>

(* It succeeds ... *)
Acknowledge ==
    /\ pending
    /\ map' = history[seq + 1]
    /\ seq' = seq + 1
    /\ acked' = seq + 1
    /\ pending' = FALSE
    /\ UNCHANGED <<up, history, tried>>

(* ... or its caller gets an error and nothing has changed. *)
Refuse ==
    /\ pending
    /\ pending' = FALSE
    /\ UNCHANGED <<up, map, seq, history, tried, acked>>

Stop ==
    /\ up' = FALSE /\ map' = Empty /\ seq' = 0 /\ pending' = FALSE
    /\ acked' = acked \/ (Lossy /\ acked' \in 0 .. acked)
    /\ UNCHANGED <<history, tried>>

(* The collection is open again, after a batch that was tried and with every *)
(* acknowledged one.                                                         *)
Restart ==
    /\ ~up
    /\ up' = TRUE
    /\ seq' \in acked .. tried
    /\ map' = history[seq']
    /\ UNCHANGED <<pending, history, tried, acked>>

Next ==
    \/ \E ids \in SUBSET Ids, version \in 0 .. MaxSeq : Begin(ids, version)
    \/ Acknowledge
    \/ Refuse
    \/ Stop
    \/ Restart

Spec == Init /\ [][Next]_vars
===============================================================================
