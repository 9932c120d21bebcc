---------------------------- MODULE RaftLogStore ----------------------------
(***************************************************************************)
(* What OpenRaft is promised by its log storage: writes take effect one at *)
(* a time, an acknowledged write is never lost, and a write that failed or *)
(* was cut off by a crash has happened entirely or not at all when the     *)
(* node is back.                                                           *)
(***************************************************************************)
CONSTANTS
    Empty,         \* the log of a new node
    Step(_, _)     \* does one write turn this log into that one?

VARIABLES
    up,      \* is the node running on this log?
    log,     \* what the node was told its log is
    tried    \* the log after the write under way; log if there is none

vars == <<up, log, tried>>

Init == up = TRUE /\ log = Empty /\ tried = Empty

Try ==
    /\ up /\ tried = log
    /\ Step(log, tried')
    /\ UNCHANGED <<up, log>>

Acknowledge == up /\ log' = tried /\ UNCHANGED <<up, tried>>

(* A storage error ends the node, as a crash does. *)
Stop == up' = FALSE /\ UNCHANGED <<log, tried>>

Restart == ~up /\ up' = TRUE /\ log' \in {log, tried} /\ tried' = log'

Next == Try \/ Acknowledge \/ Stop \/ Restart

Spec == Init /\ [][Next]_vars
=============================================================================
