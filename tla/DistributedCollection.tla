------------------------ MODULE DistributedCollection ------------------------
(***************************************************************************)
(* The distributed collection (distributed.rs) and the client side of its  *)
(* Raft nodes (raft_node.rs).  A write is split over the shards; one task  *)
(* per shard tries the shard's replicas in order until a leader answers.   *)
(* Requests and answers are lost, leaders change or are cut off from the   *)
(* other replicas, callers retry with the same request ID.  Requests are   *)
(* ones the state machine accepts (DurableShardStateMachine has others).   *)
(*                                                                         *)
(* OpenRaft is external: a shard's committed log only grows, an entry      *)
(* proposed to a leader may be committed now, later or never, and replicas *)
(* apply the log in order.  A leader that is cut off still believes that   *)
(* it leads; a write is answered when its entry is applied or truncated.   *)
(***************************************************************************)
EXTENDS ShardRouting, Sequences, FiniteSetsExt

CONSTANTS
    Addresses,    \* the replicas of each shard, in the order they are tried
    Voters,       \* how many replicas of each shard vote; one without an address only votes
    Requests,     \* (client_id, request_id) pairs
    Writes,       \* the points each request upserts or deletes
    MAX_IN_FLIGHT_CLIENT_OPERATIONS,
    MaxDisturbances  \* bound: lost messages, leaders changed or cut off, repeated requests

ASSUME DistributedConstants ==
    /\ \A s \in Shards : Addresses[s] \in Seq(Range(Addresses[s])) \ {<<>>}
    /\ \A s \in Shards : Voters[s] \in Nat /\ Voters[s] >= Cardinality(Range(Addresses[s]))
    /\ Writes \in [Requests -> (SUBSET Ids) \ {{}}]
    /\ MAX_IN_FLIGHT_CLIENT_OPERATIONS \in Nat \ {0}
    /\ MaxDisturbances \in Nat

VARIABLES
    leader,     \* the leader of each shard that reaches a quorum
    cutOff,     \* the leaders that do not: the log they know and the entries only they have
    proposed,   \* the other entries proposed and not yet committed
    committed,  \* the committed log of each shard
    replica,    \* what each replica has applied: index, points, dedup
    task,       \* the task of each request for each shard
    request,    \* the state of each request: idle, running, ok or error
    query,      \* a search: its state, and per shard how far it is
    floor,      \* history: the log each shard had acknowledged when the search began
    disturbances

cluster == <<leader, cutOff, proposed, committed, replica>>
client == <<task, request>>
reader == <<query, floor>>
distributed == <<cluster, client, reader, disturbances>>

Nodes(s) == Range(Addresses[s])
NoNode == "none"
NoneCutOff == [n \in {} |-> 0]

InvolvedIn(q) == Involved(Writes[q])

(* Where a task stands: the address it tries, its attempt at this shard, its state. *)
NoTask == [st |-> "none", address |-> 1, attempt |-> 0]

Node(s, t) == Addresses[s][t.address]

NoQuery == [st |-> "idle", linearizable |-> TRUE,
            part |-> [s \in Shards |-> [st |-> "none", address |-> 1, read |-> 0,
                                        applied |-> 0, seen |-> 0]]]

NewReplica == [index |-> 0, points |-> [i \in Ids |-> {}], dedup |-> {}]

DistributedInit ==
    /\ leader = [s \in Shards |-> Addresses[s][1]]
    /\ cutOff = [s \in Shards |-> NoneCutOff]
    /\ proposed = [s \in Shards |-> {}]
    /\ committed = [s \in Shards |-> <<>>]
    /\ replica = [s \in Shards |-> [n \in Nodes(s) |-> NewReplica]]
    /\ task = [q \in Requests |-> [s \in Shards |-> NoTask]]
    /\ request = [q \in Requests |-> "idle"]
    /\ query = NoQuery
    /\ floor = [s \in Shards |-> 0]
    /\ disturbances = 0

------------------------------------------------------------------------------
Disturb ==
    /\ disturbances < MaxDisturbances
    /\ disturbances' = disturbances + 1

(* upsert and delete: one task per shard with a part of the batch. *)
Start(q) ==
    /\ request' = [request EXCEPT ![q] = "running"]
    /\ task' = [task EXCEPT ![q] = [s \in Shards |->
         IF s \in InvolvedIn(q) THEN [@[s] EXCEPT !.st = "send", !.address = 1] ELSE @[s]]]

Begin(q) ==
    /\ request[q] = "idle"
    /\ Start(q)
    /\ UNCHANGED <<cluster, reader, disturbances>>

(* The caller repeats a request that returned an error, with its request ID. *)
Retry(q) ==
    /\ request[q] = "error"
    /\ Disturb
    /\ Start(q)
    /\ UNCHANGED <<cluster, reader>>

\* Mutant: the same address is tried until it answers.
SameAddress(s, t) == [t EXCEPT !.st = "send"]

(* send_to_leader: after a failure the next address, or the error. *)
NextAddress(s, t) ==
    IF t.address < Len(Addresses[s])
    THEN [t EXCEPT !.st = "send", !.address = @ + 1]
    ELSE [t EXCEPT !.st = "failed"]

(* The handlers of a node that hold a permit: writes, and a search. *)
InFlight(s, n) ==
    {q \in Requests : task[q][s].st = "wait" /\ Node(s, task[q][s]) = n}
      \union {r \in {"query"} : query.part[s].st \in {"wait", "search"} /\ Node(s, query.part[s]) = n}

HasPermit(s, n) == Cardinality(InFlight(s, n)) < MAX_IN_FLIGHT_CLIENT_OPERATIONS

(* RaftNode::write at the node addressed: without a permit or on a node that does not  *)
(* lead, the answer is an error status; else the entry is proposed, by a leader that is *)
(* cut off as by any other, and the client waits for as long as it takes.               *)
Deliver(q, s) ==
    LET t == task[q][s]
        n == Node(s, t)
        entry == <<q, t.attempt + 1>>
    IN
    /\ t.st = "send"
    /\ \/ /\ HasPermit(s, n) /\ n \in {leader[s]} \union DOMAIN cutOff[s]
          /\ IF n = leader[s]
             THEN /\ proposed' = [proposed EXCEPT ![s] = @ \union {entry}]
                  /\ UNCHANGED cutOff
             ELSE /\ cutOff' = [cutOff EXCEPT ![s][n].entries = @ \union {entry}]
                  /\ UNCHANGED proposed
          /\ task' = [task EXCEPT ![q][s] =
                         [st |-> "wait", address |-> t.address, attempt |-> t.attempt + 1]]
       \/ /\ ~(HasPermit(s, n) /\ n \in {leader[s]} \union DOMAIN cutOff[s])
          /\ task' = [task EXCEPT ![q][s] = NextAddress(s, t)]
          /\ UNCHANGED <<cutOff, proposed>>
    /\ UNCHANGED <<leader, committed, replica, request, reader, disturbances>>

(* The request or its answer is lost: the next address is tried, whatever becomes of  *)
(* the entry; an answer that breaks off in its body is an error at once.               *)
Lose(q, s) ==
    LET t == task[q][s] IN
    /\ t.st \in {"send", "wait"}
    /\ Disturb
    /\ \/ task' = [task EXCEPT ![q][s] = NextAddress(s, t)]
       \/ t.st = "wait" /\ task' = [task EXCEPT ![q][s].st = "failed"]
    /\ UNCHANGED <<cluster, request, reader>>

(* The entry lost to those of another leader: the node drops it and answers with an *)
(* error, and the next address is tried.                                            *)
Truncated(q, s) ==
    LET t == task[q][s] IN
    /\ t.st = "wait"
    /\ leader[s] # NoNode /\ Node(s, t) \notin DOMAIN cutOff[s]
    /\ <<q, t.attempt>> \notin proposed[s] \union Range(committed[s])
    /\ task' = [task EXCEPT ![q][s] = NextAddress(s, t)]
    /\ UNCHANGED <<cluster, request, reader, disturbances>>

\* Mutant: the answer is sent when the entry is proposed.
Proposed(q, s) ==
    <<q, task[q][s].attempt>> \in proposed[s] \union Range(committed[s])

(* The entry is committed and the node that took it has applied it. *)
AppliedHere(q, s) ==
    \E i \in 1 .. replica[s][Node(s, task[q][s])].index :
        committed[s][i] = <<q, task[q][s].attempt>>

(* The answer is Applied or Deduplicated, which the client treats alike; a rejection of the *)
(* command by the state machine is in DurableShardStateMachine.                             *)
Answer(q, s) ==
    /\ task[q][s].st = "wait"
    /\ AppliedHere(q, s)
    /\ task' = [task EXCEPT ![q][s].st = "done"]
    /\ UNCHANGED <<cluster, request, reader, disturbances>>

(* write_commands: the first failed task ends the request and aborts the others ... *)
JoinError(q) ==
    /\ request[q] = "running"
    /\ \E s \in InvolvedIn(q) : task[q][s].st = "failed"
    /\ request' = [request EXCEPT ![q] = "error"]
    /\ task' = [task EXCEPT ![q] = [s \in Shards |-> [@[s] EXCEPT !.st = "none"]]]
    /\ UNCHANGED <<cluster, reader, disturbances>>

(* ... and the last answer completes it. *)
JoinOk(q) ==
    /\ request[q] = "running"
    /\ \A s \in InvolvedIn(q) : task[q][s].st = "done"
    /\ request' = [request EXCEPT ![q] = "ok"]
    /\ UNCHANGED <<cluster, task, reader, disturbances>>

------------------------------------------------------------------------------
Commit(s) ==
    /\ leader[s] # NoNode
    /\ \E entry \in proposed[s] :
         /\ committed' = [committed EXCEPT ![s] = Append(@, entry)]
         /\ proposed' = [proposed EXCEPT ![s] = @ \ {entry}]
    /\ UNCHANGED <<leader, cutOff, replica, client, reader, disturbances>>

(* The replicas that reach each other choose a new leader, or have none; a new one may or *)
(* may not have the uncommitted entries.                                                  *)
Elect(s, n) ==
    /\ n # leader[s]
    /\ IF leader[s] = NoNode THEN UNCHANGED disturbances ELSE Disturb
    /\ n # NoNode => /\ n \notin DOMAIN cutOff[s]
                     /\ 2 * Cardinality(DOMAIN cutOff[s]) < Voters[s]
    /\ leader' = [leader EXCEPT ![s] = n]
    /\ \E kept \in SUBSET proposed[s] : proposed' = [proposed EXCEPT ![s] = kept]
    /\ UNCHANGED <<cutOff, committed, replica, client, reader>>

(* The leader loses touch with the other replicas and not with its clients: it keeps all *)
(* its entries, the others have some of them.                                            *)
CutOff(s) ==
    LET n == leader[s] IN
    /\ Disturb /\ n # NoNode /\ Voters[s] > 1
    /\ leader' = [leader EXCEPT ![s] = NoNode]
    /\ cutOff' = [cutOff EXCEPT ![s] = [m \in DOMAIN @ \union {n} |->
         IF m = n THEN [log |-> Len(committed[s]), entries |-> proposed[s]] ELSE @[m]]]
    /\ \E kept \in SUBSET proposed[s] : proposed' = [proposed EXCEPT ![s] = kept]
    /\ UNCHANGED <<committed, replica, client, reader>>

(* The cut heals: a leader elected meanwhile overwrites the entries only this node has;  *)
(* else the others get them, and the node may go on leading.                             *)
Rejoin(s, n) ==
    /\ n \in DOMAIN cutOff[s]
    /\ cutOff' = [cutOff EXCEPT ![s] = [m \in DOMAIN @ \ {n} |-> @[m]]]
    /\ \/ leader[s] # NoNode /\ UNCHANGED <<leader, proposed>>
       \/ /\ leader[s] = NoNode
          /\ \E m \in {NoNode, n} : leader' = [leader EXCEPT ![s] = m]
          /\ proposed' = [proposed EXCEPT ![s] =
                            @ \union (cutOff[s][n].entries \ Range(committed[s]))]
    /\ UNCHANGED <<committed, replica, client, reader, disturbances>>

\* Mutant: a request seen before is applied again.
ApplyAgain(r, q, s) ==
    [r EXCEPT !.index = @ + 1, !.dedup = @ \union {q},
              !.points = [i \in Ids |-> IF i \in Batch(Writes[q], s) THEN {q} ELSE @[i]]]

(* replay_record at one replica: a request seen before changes nothing. *)
ApplyEntry(r, q, s) ==
    [index  |-> r.index + 1,
     points |-> [i \in Ids |->
                   IF q \notin r.dedup /\ i \in Batch(Writes[q], s) THEN {q} ELSE r.points[i]],
     dedup  |-> r.dedup \union {q}]

Apply(s, n) ==
    LET r == replica[s][n] IN
    /\ r.index < Len(committed[s])
    /\ n \in DOMAIN cutOff[s] => r.index < cutOff[s][n].log
    /\ replica' = [replica EXCEPT ![s][n] = ApplyEntry(r, committed[s][r.index + 1][1], s)]
    /\ UNCHANGED <<leader, cutOff, proposed, committed, client, reader, disturbances>>

------------------------------------------------------------------------------
(* The position in a shard's log after which every acknowledged request is in it. *)
FirstAt(s, q) == Min({i \in 1 .. Len(committed[s]) : committed[s][i][1] = q})

Acknowledged(s) ==
    Max({0} \union {FirstAt(s, q) : q \in {r \in Requests :
                                             request[r] = "ok" /\ s \in InvolvedIn(r)}})

(* search_result_with_ef: a task per shard asks the shard's replicas in order. *)
BeginQuery(linearizable) ==
    /\ query.st = "idle"
    /\ query' = [query EXCEPT !.st = "running", !.linearizable = linearizable,
                              !.part = [s \in Shards |-> [@[s] EXCEPT !.st = "send"]]]
    /\ floor' = [s \in Shards |-> Acknowledged(s)]
    /\ UNCHANGED <<cluster, client, disturbances>>

QueryNext(s) == query' = [query EXCEPT !.part[s] = NextAddress(s, @)]

\* Mutant: the node's own state is trusted, whether it leads or not.
ReadLocally(s) ==
    /\ query.part[s].st = "send"
    /\ query' = [query EXCEPT !.part[s].st = "wait"]
    /\ UNCHANGED <<cluster, client, floor, disturbances>>

(* search_indexed: a permit; ensure_linearizable, which fails on a node that does not *)
(* lead and else waits for what was committed when it was called; a stale query asks  *)
(* nobody ...                                                                          *)
QueryNode(s) ==
    LET n == Node(s, query.part[s]) IN
    /\ query.part[s].st = "send"
    /\ IF ~HasPermit(s, n) \/ (query.linearizable /\ leader[s] # n)
       THEN QueryNext(s)
       ELSE query' = [query EXCEPT !.part[s].st = "wait",
                        !.part[s].read = IF query.linearizable THEN Len(committed[s]) ELSE 0]
    /\ UNCHANGED <<cluster, client, floor, disturbances>>

\* Mutant: the points are searched first and the index is read afterwards.
SearchThenIndex(s) ==
    LET r == replica[s][Node(s, query.part[s])] IN
    \/ /\ query.part[s].st = "wait" /\ r.index >= query.part[s].read
       /\ query' = [query EXCEPT !.part[s].st = "search", !.part[s].seen = r.index]
       /\ UNCHANGED <<cluster, client, floor, disturbances>>
    \/ /\ query.part[s].st = "search"
       /\ query' = [query EXCEPT !.part[s].st = "done", !.part[s].applied = r.index]
       /\ UNCHANGED <<cluster, client, floor, disturbances>>

(* ... then the applied index is read, and then, under another lock, the points. *)
IndexThenSearch(s) ==
    LET r == replica[s][Node(s, query.part[s])] IN
    \/ /\ query.part[s].st = "wait" /\ r.index >= query.part[s].read
       /\ query' = [query EXCEPT !.part[s].st = "search", !.part[s].applied = r.index]
       /\ UNCHANGED <<cluster, client, floor, disturbances>>
    \/ /\ query.part[s].st = "search"
       /\ query' = [query EXCEPT !.part[s].st = "done", !.part[s].seen = r.index]
       /\ UNCHANGED <<cluster, client, floor, disturbances>>

LoseQuery(s) ==
    /\ query.part[s].st \in {"send", "wait", "search"}
    /\ Disturb
    /\ \/ QueryNext(s)
       \/ query.part[s].st = "search" /\ query' = [query EXCEPT !.part[s].st = "failed"]
    /\ UNCHANGED <<cluster, client, floor>>

(* All shards have answered, or one of them failed. *)
JoinQuery ==
    /\ query.st = "running"
    /\ \/ /\ \A s \in Shards : query.part[s].st = "done"
          /\ query' = [query EXCEPT !.st = "ok"]
       \/ /\ \E s \in Shards : query.part[s].st = "failed"
          /\ query' = [query EXCEPT !.st = "error"]
    /\ UNCHANGED <<cluster, client, floor, disturbances>>

(* min_applied_index: none unless every shard reported one; index 0 is none. *)
MinAppliedIndex ==
    LET reported == {query.part[s].applied : s \in Shards}
    IN  IF 0 \in reported THEN {} ELSE {Min(reported)}

DistributedNext ==
    \/ \E q \in Requests :
         \/ Begin(q) \/ Retry(q) \/ JoinError(q) \/ JoinOk(q)
         \/ \E s \in Shards : Deliver(q, s) \/ Lose(q, s) \/ Truncated(q, s) \/ Answer(q, s)
    \/ \E s \in Shards :
         \/ Commit(s) \/ CutOff(s)
         \/ \E n \in Nodes(s) \union {NoNode} : Elect(s, n)
         \/ \E n \in Nodes(s) : Apply(s, n) \/ Rejoin(s, n)
         \/ QueryNode(s) \/ IndexThenSearch(s) \/ LoseQuery(s)
    \/ \E linearizable \in BOOLEAN : BeginQuery(linearizable)
    \/ JoinQuery

DistributedSpec == DistributedInit /\ [][DistributedNext]_distributed

(* Some client or some shard goes on, as long as one can: the threads run, connections    *)
(* carry a request and its answer or break, and a shard with a leader commits, applies    *)
(* and truncates.  Nothing makes a shard elect a leader or a cut heal, and nothing        *)
(* answers for a leader that is cut off.                                                  *)
DistributedFairness ==
    WF_distributed(
        \/ \E q \in Requests :
             \/ JoinError(q) \/ JoinOk(q)
             \/ \E s \in Shards : Deliver(q, s) \/ Truncated(q, s) \/ Answer(q, s)
        \/ \E s \in Shards : Commit(s) \/ \E n \in Nodes(s) : Apply(s, n))

------------------------------------------------------------------------------
(* Success means that every shard with a part of the batch has committed it: a request is *)
(* never reported as written while a shard may still lose its part.                       *)
AckedCommitted ==
    \A q \in Requests : request[q] = "ok" =>
        \A s \in InvolvedIn(q) : \E i \in 1 .. Len(committed[s]) : committed[s][i][1] = q

(* Retries are idempotent: on every replica a point has the value of the request that      *)
(* was committed last for the first time.  A repetition that arrives after a later write   *)
(* of another caller does not undo it.                                                     *)
RetriesKeepLaterWrites ==
    \A s \in Shards : \A n \in Nodes(s) :
        \A i \in Batch(Ids, s) :
            LET done == {q \in Requests : i \in Writes[q]
                           /\ \E j \in 1 .. replica[s][n].index : committed[s][j][1] = q}
            IN  replica[s][n].points[i] =
                  {q \in done : \A p \in done : FirstAt(s, p) <= FirstAt(s, q)}

(* A linearizable search sees every write acknowledged before it began, on every shard,    *)
(* however leaders change while it runs.                                                   *)
SearchSeesAcked ==
    query.st = "ok" /\ query.linearizable =>
        \A s \in Shards : query.part[s].seen >= floor[s]

(* The index a search reports is one that every shard's answer includes.                   *)
IndexIsLowerBound ==
    query.st = "ok" =>
        \A m \in MinAppliedIndex : \A s \in Shards : query.part[s].seen >= m

(* From some time on every shard has a leader, and no leader is cut off from its replicas. *)
Settled == \A s \in Shards : leader[s] # NoNode /\ cutOff[s] = NoneCutOff

(* If the cluster settles, every write returns, with success or an error: again and again  *)
(* none is running, whatever was lost, cut off or overwritten before.  The condition is    *)
(* needed: send_to_leader sets no timeout, and a leader that is cut off takes a write and  *)
(* does not answer.                                                                        *)
WritesReturn ==
    <>[]Settled => []<>(\A q \in Requests : request[q] # "running")
==============================================================================
