-------------------------- MODULE DistributedProofs --------------------------
(***************************************************************************)
(* The distributed collection for any number of shards, replicas, requests *)
(* and disturbances.  The invariant says what the client's state owes to   *)
(* the committed logs: a finished task has its entry in the log, a replica *)
(* is the log's first entries, and a search never runs behind what was     *)
(* acknowledged when it began.                                             *)
(***************************************************************************)
EXTENDS DistributedCollection, WellFoundedInduction, TLAPS

Entry == Requests \X Nat

Task == [st : {"none", "send", "wait", "failed", "done"}, address : Nat, attempt : Nat]

Replica == [index : Nat, points : [Ids -> SUBSET Requests], dedup : SUBSET Requests]

Part == [st : {"none", "send", "wait", "search", "failed", "done"}, address : Nat, read : Nat,
         applied : Nat, seen : Nat]

Cut == [log : Nat, entries : SUBSET Entry]

(* The entries that are not committed, wherever they are. *)
PendingOK ==
    /\ proposed \in [Shards -> SUBSET Entry]
    /\ cutOff = [s \in Shards |-> cutOff[s]]
    /\ \A s \in Shards : cutOff[s] \in [DOMAIN cutOff[s] -> Cut]

PendingSame == proposed' = proposed /\ cutOff' = cutOff

ClusterTypeOK ==
    /\ PendingOK
    /\ committed \in [Shards -> Seq(Entry)]
    /\ replica = [s \in Shards |-> [n \in Nodes(s) |-> replica[s][n]]]
    /\ \A s \in Shards : \A n \in Nodes(s) : replica[s][n] \in Replica

ClientTypeOK ==
    /\ task \in [Requests -> [Shards -> Task]]
    /\ request \in [Requests -> {"idle", "running", "ok", "error"}]
    /\ \A q \in Requests, s \in Shards : task[q][s].address \in 1 .. Len(Addresses[s])

ReaderTypeOK ==
    /\ query \in [st : {"idle", "running", "ok", "error"}, linearizable : BOOLEAN,
                  part : [Shards -> Part]]
    /\ floor \in [Shards -> Nat]
    /\ \A s \in Shards : query.part[s].address \in 1 .. Len(Addresses[s])

(* The requests among the first n entries of a log, and where one is first. *)
SeenIn(log, n) == {q \in Requests : \E j \in 1 .. n : log[j][1] = q}

FirstIn(log, q) == Min({i \in 1 .. Len(log) : log[i][1] = q})

(* The request whose value a point has after the first n entries. *)
LastWriter(log, n, i) ==
    LET done == {q \in SeenIn(log, n) : i \in Writes[q]}
    IN  {q \in done : \A p \in done : FirstIn(log, p) <= FirstIn(log, q)}

(* A replica is the state after the first entries of the log. *)
ReplicaOf(r, log, s) ==
    /\ r.index <= Len(log)
    /\ r.dedup = SeenIn(log, r.index)
    /\ \A i \in Batch(Ids, s) : r.points[i] = LastWriter(log, r.index, i)

ReplicasSound ==
    \A s \in Shards : \A n \in Nodes(s) : ReplicaOf(replica[s][n], committed[s], s)

InLog(q, s) == \E i \in 1 .. Len(committed[s]) : committed[s][i][1] = q

TasksSound ==
    /\ \A q \in Requests, s \in Shards : task[q][s].st = "done" => InLog(q, s)
    /\ AckedCommitted

(* A part of a search: it reads no less than was acknowledged, the index it reports is no *)
(* less than that, and it sees no less than it reports.                                    *)
PartSound(s) ==
    LET p == query.part[s] IN
    /\ floor[s] <= Len(committed[s])
    /\ query.linearizable /\ p.st \in {"wait", "search", "done"} => floor[s] <= p.read
    /\ p.st = "search" => p.read <= p.applied /\ p.applied <= replica[s][Node(s, p)].index
    /\ p.st = "done" => p.read <= p.applied /\ p.applied <= p.seen
    /\ query.st = "ok" => p.st = "done"

SearchSound == \A s \in Shards : PartSound(s)

DistributedInv ==
    /\ ClusterTypeOK /\ ClientTypeOK /\ ReaderTypeOK
    /\ ReplicasSound /\ TasksSound /\ SearchSound

------------------------------------------------------------------------------
(* Minima and maxima. *)
LEMMA NatMin ==
    ASSUME NEW S \in SUBSET Nat, S # {}
    PROVE  Min(S) \in S /\ \A y \in S : Min(S) <= y
  <1>1. PICK x \in S : \A y \in S : ~(<<y, x>> \in OpToRel(<, Nat))
    BY NatLessThanWellFounded, WFMin, ZenonT(20)
  <1>2. \A y \in S : x <= y
    <2> TAKE y \in S
    <2>1. <<y, x>> \in Nat \X Nat /\ <<y, x>>[1] = y /\ <<y, x>>[2] = x  OBVIOUS
    <2>2. ~(y < x)  BY <1>1, <2>1 DEF OpToRel
    <2> QED  BY <2>2
  <1> QED  BY <1>2, ZenonT(20) DEF Min

LEMMA NatMax ==
    ASSUME NEW n \in Nat, NEW S \in SUBSET (0 .. n), S # {}
    PROVE  Max(S) \in S /\ \A y \in S : y <= Max(S)
  <1> DEFINE T == {n - x : x \in S}
  <1>1. T \in SUBSET Nat /\ T # {}
    <2>1. \A x \in S : n - x \in Nat  OBVIOUS
    <2>2. PICK x \in S : TRUE  BY ZenonT(20)
    <2>3. n - x \in T  OBVIOUS
    <2> QED  BY <2>1, <2>3
  <1>2. Min(T) \in T /\ \A y \in T : Min(T) <= y  BY <1>1, NatMin, ZenonT(20)
  <1>3. PICK x \in S : Min(T) = n - x  BY <1>2, ZenonT(20)
  <1>4. \A y \in S : y <= x
    <2> TAKE y \in S
    <2>1. n - y \in T  OBVIOUS
    <2>2. n - x <= n - y  BY <1>2, <1>3, <2>1, ZenonT(20)
    <2> QED  BY <2>2
  <1> QED  BY <1>4, ZenonT(20) DEF Max

(* Appending one entry. *)
LEMMA EntryAppended ==
    ASSUME NEW log \in Seq(Entry), NEW e \in Entry
    PROVE  /\ Append(log, e) \in Seq(Entry) /\ Len(Append(log, e)) = Len(log) + 1
           /\ \A i \in 1 .. Len(log) : Append(log, e)[i] = log[i]
           /\ Append(log, e)[Len(log) + 1] = e
  OBVIOUS

(* The first entry of a request, in a log and in a longer one. *)
LEMMA FirstInLog ==
    ASSUME NEW log \in Seq(Entry), NEW q, NEW k \in 1 .. Len(log), log[k][1] = q
    PROVE  /\ FirstIn(log, q) \in 1 .. Len(log) /\ log[FirstIn(log, q)][1] = q
           /\ \A i \in 1 .. Len(log) : log[i][1] = q => FirstIn(log, q) <= i
  <1> DEFINE S == {i \in 1 .. Len(log) : log[i][1] = q}
  <1>1. S \in SUBSET Nat /\ k \in S  OBVIOUS
  <1>2. Min(S) \in S /\ \A y \in S : Min(S) <= y  BY <1>1, NatMin, ZenonT(20)
  <1> QED  BY <1>2 DEF FirstIn

LEMMA FirstInLonger ==
    ASSUME NEW log \in Seq(Entry), NEW e \in Entry, NEW q,
           NEW k \in 1 .. Len(log), log[k][1] = q
    PROVE  FirstIn(Append(log, e), q) = FirstIn(log, q)
  <1> DEFINE longer == Append(log, e)
  <1>1. /\ longer \in Seq(Entry) /\ Len(longer) = Len(log) + 1
        /\ \A i \in 1 .. Len(log) : longer[i] = log[i]
    BY EntryAppended
  <1> HIDE DEF longer
  <1>2. k \in 1 .. Len(longer) /\ longer[k][1] = q  BY <1>1
  <1>3. /\ FirstIn(longer, q) \in 1 .. Len(longer) /\ longer[FirstIn(longer, q)][1] = q
        /\ \A i \in 1 .. Len(longer) : longer[i][1] = q => FirstIn(longer, q) <= i
    BY <1>1, <1>2, FirstInLog
  <1>4. /\ FirstIn(log, q) \in 1 .. Len(log) /\ log[FirstIn(log, q)][1] = q
        /\ \A i \in 1 .. Len(log) : log[i][1] = q => FirstIn(log, q) <= i
    BY FirstInLog
  <1>5. FirstIn(longer, q) <= FirstIn(log, q)  BY <1>1, <1>3, <1>4
  <1>6. FirstIn(longer, q) \in 1 .. Len(log)  BY <1>3, <1>4, <1>5
  <1>7. FirstIn(log, q) <= FirstIn(longer, q)  BY <1>1, <1>3, <1>4, <1>6
  <1>8. FirstIn(longer, q) = FirstIn(log, q)  BY <1>3, <1>4, <1>5, <1>7
  <1> QED  BY <1>8 DEF longer

(* A longer log changes nothing about its first n entries. *)
LEMMA LastWriterLonger ==
    ASSUME NEW log \in Seq(Entry), NEW e \in Entry, NEW n \in 0 .. Len(log), NEW i
    PROVE  /\ SeenIn(Append(log, e), n) = SeenIn(log, n)
           /\ LastWriter(Append(log, e), n, i) = LastWriter(log, n, i)
  <1>1. \A j \in 1 .. Len(log) : Append(log, e)[j] = log[j]  BY EntryAppended
  <1>2. SeenIn(Append(log, e), n) = SeenIn(log, n)  BY <1>1 DEF SeenIn
  <1>3. \A q \in SeenIn(log, n) : FirstIn(Append(log, e), q) = FirstIn(log, q)
    BY FirstInLonger DEF SeenIn
  <1>4. LastWriter(Append(log, e), n, i) = LastWriter(log, n, i)
    BY <1>2, <1>3 DEF LastWriter
  <1> QED  BY <1>2, <1>4

(* Applying the next entry keeps a replica what the log says. *)
LEMMA ApplyNext ==
    ASSUME NEW log \in Seq(Entry), NEW s \in Shards, NEW r \in Replica, ReplicaOf(r, log, s),
           r.index < Len(log)
    PROVE  /\ ApplyEntry(r, log[r.index + 1][1], s) \in Replica
           /\ ReplicaOf(ApplyEntry(r, log[r.index + 1][1], s), log, s)
           /\ ApplyEntry(r, log[r.index + 1][1], s).index = r.index + 1
  <1> DEFINE q == log[r.index + 1][1]
             a == ApplyEntry(r, q, s)
             n == r.index
  <1>1. n \in Nat /\ n + 1 \in 1 .. Len(log) /\ log[n + 1] \in Entry /\ q \in Requests
    BY DEF Replica, Entry
  <1>2. /\ a.index = n + 1 /\ a.dedup = r.dedup \union {q}
        /\ a.points = [i \in Ids |-> IF q \notin r.dedup /\ i \in Batch(Writes[q], s) THEN {q}
                                     ELSE r.points[i]]
    BY DEF ApplyEntry, Replica
  <1>3. a \in Replica
    <2> DEFINE pts == [i \in Ids |-> IF q \notin r.dedup /\ i \in Batch(Writes[q], s) THEN {q}
                                    ELSE r.points[i]]
    <2>0. r.points \in [Ids -> SUBSET Requests] /\ r.dedup \in SUBSET Requests  BY DEF Replica
    <2>1. a = [index |-> n + 1, points |-> pts, dedup |-> r.dedup \union {q}]
      BY DEF ApplyEntry
    <2> HIDE DEF q, a
    <2>2. n + 1 \in Nat /\ r.dedup \union {q} \in SUBSET Requests  BY <1>1, <2>0
    <2>3. pts \in [Ids -> SUBSET Requests]  BY <1>1, <2>0
    <2> HIDE DEF pts
    <2> QED  BY <2>1, <2>2, <2>3 DEF Replica
  <1> HIDE DEF q, a
  <1>4. SeenIn(log, n + 1) = SeenIn(log, n) \union {q}
    BY <1>1 DEF SeenIn, q
  <1>5. \A i \in Batch(Ids, s) : a.points[i] = LastWriter(log, n + 1, i)
    <2> TAKE i \in Batch(Ids, s)
    <2>1. i \in Ids /\ ShardIndex(i) = s  BY DEF Batch
    <2>2. r.dedup = SeenIn(log, n) /\ r.points[i] = LastWriter(log, n, i)  BY DEF ReplicaOf
    <2>3. i \in Batch(Writes[q], s) <=> i \in Writes[q]  BY <2>1 DEF Batch
    <2>4. CASE q \in r.dedup
      <3>1. SeenIn(log, n + 1) = SeenIn(log, n)  BY <1>4, <2>2, <2>4, ZenonT(20)
      <3>2. LastWriter(log, n + 1, i) = LastWriter(log, n, i)  BY <3>1 DEF LastWriter
      <3> QED  BY <1>2, <2>1, <2>2, <2>4, <3>2
    <2>5. CASE q \notin r.dedup /\ i \notin Writes[q]
      <3>1. {p \in SeenIn(log, n + 1) : i \in Writes[p]} = {p \in SeenIn(log, n) : i \in Writes[p]}
        BY <1>4, <2>5
      <3>2. LastWriter(log, n + 1, i) = LastWriter(log, n, i)  BY <3>1 DEF LastWriter
      <3> QED  BY <1>2, <2>1, <2>2, <2>3, <2>5, <3>2
    <2>6. CASE q \notin r.dedup /\ i \in Writes[q]
      <3>1. a.points[i] = {q}  BY <1>2, <2>1, <2>3, <2>6
      <3>2. FirstIn(log, q) = n + 1
        <4>1. \A j \in 1 .. n : log[j][1] # q  BY <1>1, <2>2, <2>6 DEF SeenIn
        <4>2. /\ FirstIn(log, q) \in 1 .. Len(log) /\ log[FirstIn(log, q)][1] = q
              /\ FirstIn(log, q) <= n + 1
          BY <1>1, FirstInLog DEF q
        <4> QED  BY <1>1, <4>1, <4>2
      <3>3. \A p \in SeenIn(log, n) : FirstIn(log, p) \in 1 .. n
        <4> TAKE p \in SeenIn(log, n)
        <4>1. PICK j \in 1 .. n : log[j][1] = p  BY DEF SeenIn
        <4>2. j \in 1 .. Len(log)  BY <1>1
        <4>3. FirstIn(log, p) \in 1 .. Len(log) /\ FirstIn(log, p) <= j
          BY <4>1, <4>2, FirstInLog
        <4> QED  BY <1>1, <4>3
      <3>4. q \in SeenIn(log, n + 1) /\ q \notin SeenIn(log, n)  BY <1>4, <2>2, <2>6
      <3>5. \A p \in SeenIn(log, n) : FirstIn(log, p) <= FirstIn(log, q)
                                      /\ ~(FirstIn(log, q) <= FirstIn(log, p))
        BY <1>1, <3>2, <3>3
      <3>6. FirstIn(log, q) <= FirstIn(log, q)  BY <1>1, <3>2
      <3>7. LastWriter(log, n + 1, i) = {q}
        <4> DEFINE done == {p \in SeenIn(log, n + 1) : i \in Writes[p]}
        <4>1. q \in done  BY <2>6, <3>4
        <4>2. \A p \in done : p = q \/ p \in SeenIn(log, n)  BY <1>4
        <4>3. \A p \in done : FirstIn(log, p) <= FirstIn(log, q)  BY <4>2, <3>5, <3>6
        <4>4. \A p \in done : FirstIn(log, q) <= FirstIn(log, p) => p = q  BY <4>2, <3>5
        <4> HIDE DEF done
        <4>5. {p \in done : \A o \in done : FirstIn(log, o) <= FirstIn(log, p)} = {q}
          BY <4>1, <4>3, <4>4
        <4> QED  BY <4>5 DEF LastWriter, done
      <3> QED  BY <3>1, <3>7
    <2> QED  BY <2>4, <2>5, <2>6
  <1>6. ReplicaOf(a, log, s)
    <2>1. a.index <= Len(log)  BY <1>1, <1>2
    <2>2. a.dedup = SeenIn(log, a.index)  BY <1>2, <1>4 DEF ReplicaOf
    <2> QED  BY <1>2, <1>5, <2>1, <2>2, ZenonT(20) DEF ReplicaOf
  <1> QED  BY <1>2, <1>3, <1>6 DEF a, q

------------------------------------------------------------------------------
(* What every step keeps of the cluster: logs and replicas only grow. *)
ClusterGrows ==
    \A s \in Shards :
        /\ Len(committed[s]) <= Len(committed'[s])
        /\ \A i \in 1 .. Len(committed[s]) : committed'[s][i] = committed[s][i]
        /\ \A n \in Nodes(s) : replica[s][n].index <= replica'[s][n].index

LEMMA AddressIsNode ==
    ASSUME NEW s \in Shards, NEW k \in 1 .. Len(Addresses[s])
    PROVE  Addresses[s][k] \in Nodes(s)
  <1>1. Addresses[s] \in Seq(Range(Addresses[s]))  BY DistributedConstants
  <1> QED  BY <1>1 DEF Nodes

LEMMA FirstAddress ==
    ASSUME NEW s \in Shards
    PROVE  Len(Addresses[s]) \in Nat /\ 1 \in 1 .. Len(Addresses[s])
  <1>1. Addresses[s] \in Seq(Range(Addresses[s])) /\ Addresses[s] # <<>>  BY DistributedConstants
  <1> QED  BY <1>1

LEMMA PendingKept ==
    ASSUME ClusterTypeOK, PendingSame
    PROVE  PendingOK'
  BY ZenonT(20) DEF ClusterTypeOK, PendingOK, PendingSame

(* Nothing happened to the logs and the replicas. *)
LEMMA ClusterSame ==
    ASSUME ClusterTypeOK, ReplicasSound, committed' = committed, replica' = replica,
           PendingOK'
    PROVE  ClusterTypeOK' /\ ReplicasSound' /\ ClusterGrows
  <1>1. ClusterTypeOK'  BY DEF ClusterTypeOK
  <1>2. ReplicasSound'  BY DEF ReplicasSound
  <1>3. ClusterGrows
    <2> SUFFICES ASSUME NEW s \in Shards
                 PROVE  /\ Len(committed[s]) <= Len(committed'[s])
                        /\ \A i \in 1 .. Len(committed[s]) : committed'[s][i] = committed[s][i]
                        /\ \A m \in Nodes(s) : replica[s][m].index <= replica'[s][m].index
      BY DEF ClusterGrows
    <2>1. Len(committed[s]) \in Nat  BY DEF ClusterTypeOK
    <2>2. \A n \in Nodes(s) : replica[s][n].index \in Nat  BY DEF ClusterTypeOK, Replica
    <2> QED  BY <2>1, <2>2
  <1> QED  BY <1>1, <1>2, <1>3

LEMMA ClusterCommit ==
    ASSUME ClusterTypeOK, ReplicasSound, NEW s \in Shards, Commit(s)
    PROVE  ClusterTypeOK' /\ ReplicasSound' /\ ClusterGrows
  <1>1. PICK e \in proposed[s] : /\ committed' = [committed EXCEPT ![s] = Append(@, e)]
                                 /\ proposed' = [proposed EXCEPT ![s] = @ \ {e}]
    BY ZenonT(20) DEF Commit
  <1>2. e \in Entry /\ replica' = replica /\ \A d \in Shards : committed[d] \in Seq(Entry)
    BY DEF Commit, ClusterTypeOK, PendingOK
  <1>3. committed'[s] = Append(committed[s], e) /\ \A d \in Shards \ {s} : committed'[d] = committed[d]
    BY <1>1 DEF ClusterTypeOK
  <1>4. /\ committed'[s] \in Seq(Entry) /\ Len(committed'[s]) = Len(committed[s]) + 1
        /\ \A i \in 1 .. Len(committed[s]) : committed'[s][i] = committed[s][i]
    BY <1>2, <1>3, EntryAppended
  <1>5. ClusterTypeOK'
    <2>1. PendingOK'
      <3>1. proposed' \in [Shards -> SUBSET Entry]  BY <1>1 DEF ClusterTypeOK, PendingOK
      <3>2. cutOff' = cutOff  BY DEF Commit
      <3> QED  BY <3>1, <3>2, ZenonT(20) DEF ClusterTypeOK, PendingOK
    <2>2. committed' \in [Shards -> Seq(Entry)]  BY <1>1, <1>3, <1>4 DEF ClusterTypeOK
    <2> QED  BY <1>2, <2>1, <2>2 DEF ClusterTypeOK
  <1>6. ReplicasSound'
    <2> SUFFICES ASSUME NEW d \in Shards, NEW n \in Nodes(d)
                 PROVE  ReplicaOf(replica[d][n], committed'[d], d)
      BY <1>2 DEF ReplicasSound
    <2>1. ReplicaOf(replica[d][n], committed[d], d) /\ replica[d][n].index \in Nat
      BY DEF ReplicasSound, ClusterTypeOK, Replica
    <2>2. CASE d # s  BY <2>1, <2>2, <1>3
    <2>3. CASE d = s
      <3> DEFINE k == replica[s][n].index
      <3>1. k \in 0 .. Len(committed[s])  BY <1>2, <2>1, <2>3 DEF ReplicaOf
      <3>2. /\ SeenIn(committed'[s], k) = SeenIn(committed[s], k)
            /\ \A i : LastWriter(committed'[s], k, i) = LastWriter(committed[s], k, i)
        <4> DEFINE longer == Append(committed[s], e)
        <4>1. SeenIn(longer, k) = SeenIn(committed[s], k)  BY <1>2, <3>1, LastWriterLonger, ZenonT(20)
        <4>2. ASSUME NEW i PROVE LastWriter(longer, k, i) = LastWriter(committed[s], k, i)
          BY <1>2, <3>1, LastWriterLonger
        <4> HIDE DEF longer
        <4>3. committed'[s] = longer  BY <1>3 DEF longer
        <4> QED  BY <4>1, <4>2, <4>3
      <3>3. k <= Len(committed'[s])  BY <1>2, <1>4, <3>1
      <3> QED  BY <2>1, <2>3, <3>2, <3>3 DEF ReplicaOf
    <2> QED  BY <2>2, <2>3
  <1>7. ClusterGrows
    <2> SUFFICES ASSUME NEW d \in Shards
                 PROVE  /\ Len(committed[d]) <= Len(committed'[d])
                        /\ \A i \in 1 .. Len(committed[d]) : committed'[d][i] = committed[d][i]
                        /\ \A m \in Nodes(d) : replica[d][m].index <= replica'[d][m].index
      BY DEF ClusterGrows
    <2>1. Len(committed[d]) \in Nat  BY DEF ClusterTypeOK
    <2>2. \A n \in Nodes(d) : replica[d][n].index \in Nat  BY DEF ClusterTypeOK, Replica
    <2>3. CASE d = s  BY <1>2, <1>4, <2>1, <2>2, <2>3
    <2>4. CASE d # s  BY <1>2, <1>3, <2>1, <2>2, <2>4
    <2> QED  BY <2>3, <2>4
  <1> QED  BY <1>5, <1>6, <1>7

LEMMA ClusterApply ==
    ASSUME ClusterTypeOK, ReplicasSound, NEW s \in Shards, NEW n \in Nodes(s), Apply(s, n)
    PROVE  ClusterTypeOK' /\ ReplicasSound' /\ ClusterGrows
  <1> DEFINE r == replica[s][n]
             a == ApplyEntry(r, committed[s][r.index + 1][1], s)
  <1>1. committed' = committed /\ PendingSame /\ committed[s] \in Seq(Entry)
    BY DEF Apply, ClusterTypeOK, PendingSame
  <1>2. r \in Replica /\ ReplicaOf(r, committed[s], s) /\ r.index < Len(committed[s])
    BY DEF Apply, ClusterTypeOK, ReplicasSound
  <1>3. a \in Replica /\ ReplicaOf(a, committed[s], s) /\ a.index = r.index + 1
    BY <1>1, <1>2, ApplyNext, ZenonT(60)
  <1>4. replica' = [replica EXCEPT ![s][n] = a]  BY DEF Apply
  <1> HIDE DEF a
  <1>5. \A d \in Shards : \A m \in Nodes(d) :
          replica'[d][m] = IF d = s /\ m = n THEN a ELSE replica[d][m]
    BY <1>4 DEF ClusterTypeOK
  <1>6. replica' = [d \in Shards |-> [m \in Nodes(d) |-> replica'[d][m]]]
    BY <1>4, ZenonT(20) DEF ClusterTypeOK
  <1>7. ClusterTypeOK'
    <2>1. \A d \in Shards : \A m \in Nodes(d) : replica'[d][m] \in Replica
      BY <1>3, <1>5, ZenonT(20) DEF ClusterTypeOK
    <2>2. PendingOK'  BY <1>1, PendingKept
    <2> QED  BY <1>1, <1>6, <2>1, <2>2 DEF ClusterTypeOK
  <1>8. ReplicasSound'  BY <1>1, <1>3, <1>5 DEF ReplicasSound
  <1>9. ClusterGrows
    <2> SUFFICES ASSUME NEW d \in Shards
                 PROVE  /\ Len(committed[d]) <= Len(committed'[d])
                        /\ \A i \in 1 .. Len(committed[d]) : committed'[d][i] = committed[d][i]
                        /\ \A m \in Nodes(d) : replica[d][m].index <= replica'[d][m].index
      BY DEF ClusterGrows
    <2>1. Len(committed[d]) \in Nat  BY DEF ClusterTypeOK
    <2>2. \A m \in Nodes(d) : replica[d][m].index \in Nat  BY DEF ClusterTypeOK, Replica
    <2>3. r.index <= a.index  BY <1>3, <2>2, <1>2 DEF Replica
    <2>4. \A m \in Nodes(d) : replica[d][m].index <= replica'[d][m].index
      BY <1>5, <2>2, <2>3
    <2> QED  BY <1>1, <2>1, <2>4
  <1> QED  BY <1>7, <1>8, <1>9

(* What is in a log stays in it. *)
LEMMA InLogStays ==
    ASSUME ClusterTypeOK, ClusterTypeOK', ClusterGrows, NEW q, NEW s \in Shards, InLog(q, s)
    PROVE  InLog(q, s)'
  <1>1. PICK i \in 1 .. Len(committed[s]) : committed[s][i][1] = q  BY DEF InLog
  <1>2. Len(committed[s]) \in Nat /\ Len(committed'[s]) \in Nat  BY DEF ClusterTypeOK
  <1>3. i \in 1 .. Len(committed'[s]) /\ committed'[s][i][1] = q
    BY <1>1, <1>2 DEF ClusterGrows
  <1> QED  BY <1>3 DEF InLog

(* A step after which every finished task was finished before, and likewise requests. *)
LEMMA TasksKept ==
    ASSUME ClusterTypeOK, ClusterTypeOK', ClusterGrows, TasksSound,
           \A q \in Requests, s \in Shards :
              task'[q][s].st = "done" => task[q][s].st = "done" \/ InLog(q, s),
           \A q \in Requests : request'[q] = "ok" =>
              request[q] = "ok" \/ \A s \in InvolvedIn(q) : task[q][s].st = "done"
    PROVE  TasksSound'
  <1>1. \A q \in Requests : InvolvedIn(q) \subseteq Shards
    <2> TAKE q \in Requests
    <2>1. Writes[q] \subseteq Ids  BY DistributedConstants
    <2>2. \A i \in Ids : ShardIndex(i) \in Shards
      BY RoutingConstants DEF ShardIndex, Shards
    <2> QED  BY <2>1, <2>2 DEF InvolvedIn, Involved
  <1>2. \A q \in Requests, s \in Shards : task'[q][s].st = "done" => InLog(q, s)'
    BY InLogStays DEF TasksSound
  <1>3. ASSUME NEW q \in Requests, request'[q] = "ok", NEW s \in InvolvedIn(q)
        PROVE  InLog(q, s)'
    <2>1. s \in Shards  BY <1>1
    <2>2. InLog(q, s)
      <3>1. CASE request[q] = "ok"  BY <1>3, <3>1 DEF TasksSound, AckedCommitted, InLog
      <3>2. CASE \A d \in InvolvedIn(q) : task[q][d].st = "done"
        BY <2>1, <1>3, <3>2 DEF TasksSound
      <3> QED  BY <1>3, <3>1, <3>2
    <2> QED  BY <2>1, <2>2, InLogStays
  <1>4. AckedCommitted'  BY <1>3 DEF AckedCommitted, InLog
  <1> QED  BY <1>2, <1>4 DEF TasksSound

(* The search does nothing while the cluster goes on. *)
LEMMA SearchKept ==
    ASSUME ClusterTypeOK, ClusterTypeOK', ClusterGrows, ReaderTypeOK, SearchSound,
           query' = query, floor' = floor
    PROVE  ReaderTypeOK' /\ SearchSound'
  <1>1. ReaderTypeOK'  BY DEF ReaderTypeOK
  <1>2. ASSUME NEW s \in Shards PROVE PartSound(s)'
    <2> DEFINE n == Node(s, query.part[s])
    <2>1. n \in Nodes(s)  BY AddressIsNode DEF ReaderTypeOK, Node
    <2>2. /\ Len(committed[s]) \in Nat /\ Len(committed'[s]) \in Nat
          /\ replica[s][n].index \in Nat /\ replica'[s][n].index \in Nat
      BY <2>1 DEF ClusterTypeOK, Replica
    <2>3. floor[s] \in Nat /\ query.part[s].applied \in Nat  BY DEF ReaderTypeOK, Part
    <2>4. Len(committed[s]) <= Len(committed'[s]) /\ replica[s][n].index <= replica'[s][n].index
      BY <2>1, ZenonT(60) DEF ClusterGrows
    <2>5. PartSound(s)  BY DEF SearchSound
    <2>6. floor[s] <= Len(committed'[s])  BY <2>2, <2>3, <2>4, <2>5 DEF PartSound
    <2>7. query.part[s].applied <= replica[s][n].index => query.part[s].applied <= replica'[s][n].index
      BY <2>2, <2>3, <2>4
    <2> HIDE DEF n
    <2> QED  BY <2>5, <2>6, <2>7, ZenonT(20) DEF PartSound, Node, n
  <1> QED  BY <1>1, <1>2 DEF SearchSound

------------------------------------------------------------------------------
(* Steps of the client's tasks. *)
TasksJustified ==
    /\ \A q \in Requests, s \in Shards :
          task'[q][s].st = "done" => task[q][s].st = "done" \/ InLog(q, s)
    /\ \A q \in Requests : request'[q] = "ok" =>
          request[q] = "ok" \/ \A s \in InvolvedIn(q) : task[q][s].st = "done"

LEMMA ClientStep ==
    ASSUME DistributedInv, ClientTypeOK', TasksJustified, PendingOK',
           committed' = committed, replica' = replica, query' = query, floor' = floor
    PROVE  DistributedInv'
  <1>1. ClusterTypeOK' /\ ReplicasSound' /\ ClusterGrows  BY ClusterSame DEF DistributedInv
  <1>2. TasksSound'  BY <1>1, TasksKept DEF DistributedInv, TasksJustified
  <1>3. ReaderTypeOK' /\ SearchSound'  BY <1>1, SearchKept DEF DistributedInv
  <1> QED  BY <1>1, <1>2, <1>3 DEF DistributedInv

(* One task becomes t. *)
LEMMA OneTask ==
    ASSUME DistributedInv, NEW q \in Requests, NEW s \in Shards, NEW t \in Task,
           t.address \in 1 .. Len(Addresses[s]),
           t.st = "done" => InLog(q, s),
           task' = [task EXCEPT ![q][s] = t], request' = request,
           PendingOK', committed' = committed, replica' = replica,
           query' = query, floor' = floor
    PROVE  DistributedInv'
  <1>1. task \in [Requests -> [Shards -> Task]]  BY DEF DistributedInv, ClientTypeOK
  <1>2. \A p \in Requests, d \in Shards :
          task'[p][d] = IF p = q /\ d = s THEN t ELSE task[p][d]
    BY <1>1
  <1>3. task' \in [Requests -> [Shards -> Task]]  BY <1>1
  <1>4. \A p \in Requests, d \in Shards : task'[p][d].address \in 1 .. Len(Addresses[d])
    BY <1>2 DEF DistributedInv, ClientTypeOK
  <1>5. ClientTypeOK'  BY <1>3, <1>4 DEF DistributedInv, ClientTypeOK
  <1>6. TasksJustified  BY <1>2 DEF TasksJustified
  <1> QED  BY <1>5, <1>6, ClientStep

LEMMA NextAddressOK ==
    ASSUME NEW s \in Shards, NEW t \in Task, t.address \in 1 .. Len(Addresses[s])
    PROVE  /\ NextAddress(s, t) \in Task /\ NextAddress(s, t).st # "done"
           /\ NextAddress(s, t).address \in 1 .. Len(Addresses[s])
  <1>1. Len(Addresses[s]) \in Nat  BY FirstAddress
  <1>2. CASE t.address < Len(Addresses[s])
    <2>1. NextAddress(s, t) = [t EXCEPT !.st = "send", !.address = t.address + 1]
      BY <1>2 DEF NextAddress
    <2>2. NextAddress(s, t) = [st |-> "send", address |-> t.address + 1, attempt |-> t.attempt]
      BY <2>1, ZenonT(20) DEF Task
    <2>3. t.address + 1 \in 1 .. Len(Addresses[s]) /\ t.attempt \in Nat  BY <1>1, <1>2 DEF Task
    <2> QED  BY <1>1, <2>2, <2>3 DEF Task
  <1>3. CASE ~(t.address < Len(Addresses[s]))
    <2>1. NextAddress(s, t) = [t EXCEPT !.st = "failed"]  BY <1>3 DEF NextAddress
    <2> QED  BY <2>1 DEF Task
  <1> QED  BY <1>2, <1>3

LEMMA StepStart ==
    ASSUME DistributedInv, NEW q \in Requests, Begin(q) \/ Retry(q)
    PROVE  DistributedInv'
  <1>1. task \in [Requests -> [Shards -> Task]]  BY DEF DistributedInv, ClientTypeOK
  <1>2. /\ Start(q) /\ PendingSame /\ committed' = committed /\ replica' = replica
        /\ query' = query /\ floor' = floor
    BY DEF Begin, Retry, cluster, reader, PendingSame
  <1> DEFINE t(s) == IF s \in InvolvedIn(q) THEN [task[q][s] EXCEPT !.st = "send", !.address = 1]
                     ELSE task[q][s]
  <1>3. task' = [task EXCEPT ![q] = [s \in Shards |-> t(s)]]  BY <1>2, ZenonT(20) DEF Start
  <1>4. ASSUME NEW s \in Shards
        PROVE  /\ t(s) \in Task /\ t(s).address \in {1, task[q][s].address}
               /\ t(s).st = "done" => task[q][s].st = "done"
    <2>1. task[q][s] \in Task  BY <1>1
    <2>2. CASE s \in InvolvedIn(q)
      <3>1. t(s) = [st |-> "send", address |-> 1, attempt |-> task[q][s].attempt]
        BY <2>1, <2>2, ZenonT(20) DEF Task
      <3> HIDE DEF t
      <3> QED  BY <2>1, <3>1 DEF Task
    <2>3. CASE s \notin InvolvedIn(q)  BY <2>1, <2>3
    <2> QED  BY <2>2, <2>3
  <1>5. \A p \in Requests, s \in Shards : task'[p][s] = IF p = q THEN t(s) ELSE task[p][s]
    BY <1>1, <1>3, ZenonT(20)
  <1> HIDE DEF t
  <1>6. ClientTypeOK'
    <2>1. task' \in [Requests -> [Shards -> Task]]  BY <1>1, <1>3, <1>4
    <2>2. \A p \in Requests, s \in Shards : task'[p][s].address \in 1 .. Len(Addresses[s])
      BY <1>4, <1>5, FirstAddress, ZenonT(60) DEF DistributedInv, ClientTypeOK
    <2>3. request' \in [Requests -> {"idle", "running", "ok", "error"}]
      BY <1>2, ZenonT(20) DEF Start, DistributedInv, ClientTypeOK
    <2> QED  BY <2>1, <2>2, <2>3 DEF ClientTypeOK
  <1>7. TasksJustified
    <2>1. \A p \in Requests : request'[p] = "ok" => request[p] = "ok"
      BY <1>2, ZenonT(20) DEF Start, DistributedInv, ClientTypeOK
    <2> QED  BY <1>4, <1>5, <2>1 DEF TasksJustified
  <1>8. PendingOK'  BY <1>2, PendingKept DEF DistributedInv
  <1> QED  BY <1>2, <1>6, <1>7, <1>8, ClientStep

(* An entry proposed to a leader, cut off or not. *)
LEMMA ProposedOK ==
    ASSUME ClusterTypeOK, NEW s \in Shards, NEW e \in Entry, NEW n,
           \/ proposed' = [proposed EXCEPT ![s] = @ \union {e}] /\ cutOff' = cutOff
           \/ /\ n \in DOMAIN cutOff[s] /\ proposed' = proposed
              /\ cutOff' = [cutOff EXCEPT ![s][n].entries = @ \union {e}]
    PROVE  PendingOK'
  <1>1. /\ proposed \in [Shards -> SUBSET Entry] /\ cutOff = [d \in Shards |-> cutOff[d]]
        /\ \A d \in Shards : cutOff[d] \in [DOMAIN cutOff[d] -> Cut]
    BY ZenonT(20) DEF ClusterTypeOK, PendingOK
  <1>2. CASE proposed' = [proposed EXCEPT ![s] = @ \union {e}] /\ cutOff' = cutOff
    <2>1. proposed' \in [Shards -> SUBSET Entry]  BY <1>1, <1>2
    <2> QED  BY <1>1, <1>2, <2>1, ZenonT(20) DEF PendingOK
  <1>3. CASE /\ n \in DOMAIN cutOff[s] /\ proposed' = proposed
             /\ cutOff' = [cutOff EXCEPT ![s][n].entries = @ \union {e}]
    <2> DEFINE c == [cutOff[s][n] EXCEPT !.entries = @ \union {e}]
               f == [cutOff[s] EXCEPT ![n] = c]
    <2>1. cutOff[s][n] \in Cut  BY <1>1, <1>3, ZenonT(20)
    <2>2. c \in Cut  BY <2>1 DEF Cut
    <2>3. cutOff' = [cutOff EXCEPT ![s] = f]  BY <1>3, ZenonT(20)
    <2> HIDE DEF c
    <2>4. f \in [DOMAIN f -> Cut]  BY <1>1, <2>2, ZenonT(20)
    <2> HIDE DEF f
    <2>5. /\ cutOff' = [d \in Shards |-> cutOff'[d]] /\ cutOff'[s] = f
          /\ \A d \in Shards \ {s} : cutOff'[d] = cutOff[d]
      BY <1>1, <2>3, ZenonT(20)
    <2> QED  BY <1>1, <1>3, <2>4, <2>5, ZenonT(20) DEF PendingOK
  <1> QED  BY <1>2, <1>3

LEMMA StepDeliver ==
    ASSUME DistributedInv, NEW q \in Requests, NEW s \in Shards, Deliver(q, s)
    PROVE  DistributedInv'
  <1> DEFINE t == task[q][s]
             n == Node(s, t)
             e == <<q, t.attempt + 1>>
  <1>1. t \in Task /\ t.address \in 1 .. Len(Addresses[s])  BY DEF DistributedInv, ClientTypeOK
  <1>2. /\ request' = request /\ committed' = committed /\ replica' = replica /\ query' = query
        /\ floor' = floor /\ ClusterTypeOK
    BY DEF Deliver, reader, DistributedInv
  <1>3. CASE /\ \/ proposed' = [proposed EXCEPT ![s] = @ \union {e}] /\ cutOff' = cutOff
                \/ /\ n \in DOMAIN cutOff[s] /\ proposed' = proposed
                   /\ cutOff' = [cutOff EXCEPT ![s][n].entries = @ \union {e}]
             /\ task' = [task EXCEPT ![q][s] =
                           [st |-> "wait", address |-> t.address, attempt |-> t.attempt + 1]]
    <2> DEFINE w == [st |-> "wait", address |-> t.address, attempt |-> t.attempt + 1]
    <2>1. w \in Task /\ w.st = "wait" /\ w.address = t.address /\ e \in Entry
      <3>2. t.address \in Nat /\ t.attempt + 1 \in Nat  BY <1>1 DEF Task
      <3> QED  BY <3>2 DEF Task, Entry
    <2>2. task' = [task EXCEPT ![q][s] = w]  BY <1>3
    <2> HIDE DEF w, e, n
    <2>3. PendingOK'  BY <1>2, <1>3, <2>1, ProposedOK, ZenonT(20)
    <2> QED  BY <1>1, <1>2, <2>1, <2>2, <2>3, OneTask, ZenonT(20)
  <1>4. CASE task' = [task EXCEPT ![q][s] = NextAddress(s, t)] /\ PendingSame
    BY <1>1, <1>2, <1>4, PendingKept, NextAddressOK, OneTask, ZenonT(20)
  <1> QED  BY <1>3, <1>4, ZenonT(20) DEF Deliver, PendingSame

LEMMA StepTask ==
    ASSUME DistributedInv, NEW q \in Requests, NEW s \in Shards,
           Lose(q, s) \/ Truncated(q, s) \/ Answer(q, s)
    PROVE  DistributedInv'
  <1> DEFINE t == task[q][s]
  <1>1. t \in Task /\ t.address \in 1 .. Len(Addresses[s])  BY DEF DistributedInv, ClientTypeOK
  <1>2. /\ request' = request /\ committed' = committed /\ replica' = replica /\ query' = query
        /\ floor' = floor /\ PendingOK'
    <2>1. /\ request' = request /\ committed' = committed /\ replica' = replica /\ query' = query
          /\ floor' = floor /\ PendingSame
      BY DEF Lose, Truncated, Answer, cluster, reader, PendingSame
    <2> QED  BY <2>1, PendingKept DEF DistributedInv
  <1>3. CASE task' = [task EXCEPT ![q][s] = NextAddress(s, t)]
    BY <1>1, <1>2, <1>3, NextAddressOK, OneTask, ZenonT(20)
  <1>4. CASE task' = [task EXCEPT ![q][s].st = "failed"]
    <2> DEFINE w == [t EXCEPT !.st = "failed"]
    <2>1. w \in Task /\ w.st = "failed" /\ w.address = t.address  BY <1>1 DEF Task
    <2>2. task' = [task EXCEPT ![q][s] = w]  BY <1>4 DEF DistributedInv, ClientTypeOK
    <2> HIDE DEF w
    <2> QED  BY <1>1, <1>2, <2>1, <2>2, OneTask, ZenonT(20)
  <1>5. CASE Answer(q, s)
    <2> DEFINE w == [t EXCEPT !.st = "done"]
               n == Node(s, t)
    <2>1. w \in Task /\ w.st = "done" /\ w.address = t.address  BY <1>1 DEF Task
    <2>2. task' = [task EXCEPT ![q][s] = w]  BY <1>5 DEF Answer, DistributedInv, ClientTypeOK
    <2>3. InLog(q, s)
      <3>1. n \in Nodes(s)  BY <1>1, AddressIsNode DEF Node
      <3>2. /\ replica[s][n].index \in Nat /\ Len(committed[s]) \in Nat
            /\ replica[s][n].index <= Len(committed[s])
        BY <3>1 DEF DistributedInv, ClusterTypeOK, Replica, ReplicasSound, ReplicaOf
      <3>3. PICK i \in 1 .. replica[s][n].index : committed[s][i] = <<q, t.attempt>>
        BY <1>5 DEF Answer, AppliedHere
      <3>4. i \in 1 .. Len(committed[s])  BY <3>2
      <3> QED  BY <3>3, <3>4 DEF InLog
    <2> HIDE DEF w
    <2> QED  BY <1>1, <1>2, <2>1, <2>2, <2>3, OneTask, ZenonT(20)
  <1> QED  BY <1>3, <1>4, <1>5 DEF Lose, Truncated

(* A task that is aborted. *)
LEMMA TaskEnded ==
    ASSUME NEW t \in Task
    PROVE  /\ [t EXCEPT !.st = "none"] \in Task /\ [t EXCEPT !.st = "none"].address = t.address
           /\ [t EXCEPT !.st = "none"].st # "done"
  BY DEF Task

LEMMA StepJoin ==
    ASSUME DistributedInv, NEW q \in Requests, JoinError(q) \/ JoinOk(q)
    PROVE  DistributedInv'
  <1>1. /\ task \in [Requests -> [Shards -> Task]]
        /\ request \in [Requests -> {"idle", "running", "ok", "error"}]
    BY DEF DistributedInv, ClientTypeOK
  <1>2. /\ committed' = committed /\ replica' = replica /\ query' = query /\ floor' = floor
        /\ PendingOK'
    <2>1. /\ committed' = committed /\ replica' = replica /\ query' = query /\ floor' = floor
          /\ PendingSame
      BY ZenonT(20) DEF JoinError, JoinOk, cluster, reader, PendingSame
    <2> QED  BY <2>1, PendingKept DEF DistributedInv
  <1>3. CASE JoinError(q)
    <2> DEFINE t(s) == [task[q][s] EXCEPT !.st = "none"]
    <2>1. task' = [task EXCEPT ![q] = [s \in Shards |-> t(s)]]  BY <1>3 DEF JoinError
    <2>2. \A s \in Shards : t(s) \in Task /\ t(s).address = task[q][s].address /\ t(s).st # "done"
      BY <1>1, TaskEnded, ZenonT(20)
    <2>3. \A p \in Requests, s \in Shards : task'[p][s] = IF p = q THEN t(s) ELSE task[p][s]
      BY <1>1, <2>1
    <2> HIDE DEF t
    <2>4. ClientTypeOK'
      <3>1. task' \in [Requests -> [Shards -> Task]]  BY <1>1, <2>1, <2>2
      <3>2. \A p \in Requests, s \in Shards : task'[p][s].address \in 1 .. Len(Addresses[s])
        BY <2>2, <2>3 DEF DistributedInv, ClientTypeOK
      <3>3. request' \in [Requests -> {"idle", "running", "ok", "error"}]
        BY <1>1, <1>3 DEF JoinError
      <3> QED  BY <3>1, <3>2, <3>3 DEF ClientTypeOK
    <2>5. TasksJustified
      <3>1. \A p \in Requests : request'[p] = "ok" => request[p] = "ok"
        BY <1>1, <1>3 DEF JoinError
      <3> QED  BY <2>2, <2>3, <3>1 DEF TasksJustified
    <2> QED  BY <1>2, <2>4, <2>5, ClientStep
  <1>4. CASE JoinOk(q)
    <2>1. task' = task /\ request' = [request EXCEPT ![q] = "ok"]  BY <1>4 DEF JoinOk
    <2>2. ClientTypeOK'  BY <1>1, <2>1 DEF DistributedInv, ClientTypeOK
    <2>3. TasksJustified  BY <1>1, <1>4, <2>1 DEF JoinOk, TasksJustified
    <2> QED  BY <1>2, <2>2, <2>3, ClientStep
  <1> QED  BY <1>3, <1>4

(* Leaders come and go. *)
LEMMA ElectOK ==
    ASSUME ClusterTypeOK, NEW s \in Shards, NEW n, Elect(s, n)
    PROVE  PendingOK'
  <1>1. PICK kept \in SUBSET proposed[s] : proposed' = [proposed EXCEPT ![s] = kept]
    BY ZenonT(20) DEF Elect
  <1>2. proposed' \in [Shards -> SUBSET Entry]  BY <1>1 DEF ClusterTypeOK, PendingOK
  <1>3. cutOff' = cutOff  BY DEF Elect
  <1> QED  BY <1>2, <1>3, ZenonT(20) DEF ClusterTypeOK, PendingOK

(* One shard has other nodes cut off. *)
LEMMA CutsOK ==
    ASSUME ClusterTypeOK, NEW s \in Shards, NEW f, f \in [DOMAIN f -> Cut],
           cutOff' = [cutOff EXCEPT ![s] = f], proposed' \in [Shards -> SUBSET Entry]
    PROVE  PendingOK'
  <1>1. /\ cutOff = [d \in Shards |-> cutOff[d]]
        /\ \A d \in Shards : cutOff[d] \in [DOMAIN cutOff[d] -> Cut]
    BY ZenonT(20) DEF ClusterTypeOK, PendingOK
  <1>2. /\ cutOff' = [d \in Shards |-> cutOff'[d]] /\ cutOff'[s] = f
        /\ \A d \in Shards \ {s} : cutOff'[d] = cutOff[d]
    BY <1>1, ZenonT(20)
  <1> QED  BY <1>1, <1>2, ZenonT(20) DEF PendingOK

LEMMA CutOffOK ==
    ASSUME ClusterTypeOK, NEW s \in Shards, CutOff(s)
    PROVE  PendingOK'
  <1> DEFINE n == leader[s]
             c == [log |-> Len(committed[s]), entries |-> proposed[s]]
             f == [m \in DOMAIN cutOff[s] \union {n} |-> IF m = n THEN c ELSE cutOff[s][m]]
  <1>1. /\ proposed \in [Shards -> SUBSET Entry] /\ cutOff = [d \in Shards |-> cutOff[d]]
        /\ cutOff[s] \in [DOMAIN cutOff[s] -> Cut]
    BY ZenonT(20) DEF ClusterTypeOK, PendingOK
  <1>2. c \in Cut  BY <1>1 DEF Cut, ClusterTypeOK
  <1>3. PICK kept \in SUBSET proposed[s] : proposed' = [proposed EXCEPT ![s] = kept]
    BY ZenonT(20) DEF CutOff
  <1>4. proposed' \in [Shards -> SUBSET Entry]  BY <1>1, <1>3
  <1>5. cutOff' = [cutOff EXCEPT ![s] = f]  BY ZenonT(20) DEF CutOff
  <1> HIDE DEF c, n
  <1>6. f \in [DOMAIN f -> Cut]  BY <1>1, <1>2, ZenonT(20)
  <1> HIDE DEF f
  <1> QED  BY <1>4, <1>5, <1>6, CutsOK, ZenonT(20)

LEMMA RejoinOK ==
    ASSUME ClusterTypeOK, NEW s \in Shards, NEW n, Rejoin(s, n)
    PROVE  PendingOK'
  <1> DEFINE f == [m \in DOMAIN cutOff[s] \ {n} |-> cutOff[s][m]]
  <1>1. /\ proposed \in [Shards -> SUBSET Entry] /\ cutOff = [d \in Shards |-> cutOff[d]]
        /\ cutOff[s] \in [DOMAIN cutOff[s] -> Cut]
    BY ZenonT(20) DEF ClusterTypeOK, PendingOK
  <1>2. cutOff[s][n].entries \subseteq Entry
    <2>1. cutOff[s][n] \in Cut  BY <1>1, ZenonT(20) DEF Rejoin
    <2> QED  BY <2>1 DEF Cut
  <1>3. proposed' \in [Shards -> SUBSET Entry]
    <2>1. CASE proposed' = proposed  BY <1>1, <2>1
    <2>2. CASE proposed' = [proposed EXCEPT ![s] =
                              @ \union (cutOff[s][n].entries \ Range(committed[s]))]
      <3> DEFINE E == cutOff[s][n].entries \ Range(committed[s])
      <3>1. E \subseteq Entry  BY <1>2, ZenonT(20)
      <3> HIDE DEF E
      <3> QED  BY <1>1, <2>2, <3>1, ZenonT(20) DEF E
    <2> QED  BY <2>1, <2>2, ZenonT(20) DEF Rejoin
  <1>4. cutOff' = [cutOff EXCEPT ![s] = f]  BY ZenonT(20) DEF Rejoin
  <1>5. f \in [DOMAIN f -> Cut]  BY <1>1, ZenonT(20)
  <1> HIDE DEF f
  <1> QED  BY <1>3, <1>4, <1>5, CutsOK, ZenonT(20)

LEMMA StepLeader ==
    ASSUME DistributedInv, NEW s \in Shards, NEW n, Elect(s, n) \/ CutOff(s) \/ Rejoin(s, n)
    PROVE  DistributedInv'
  <1>1. /\ committed' = committed /\ replica' = replica /\ query' = query /\ floor' = floor
        /\ task' = task /\ request' = request
    BY ZenonT(20) DEF Elect, CutOff, Rejoin, client, reader
  <1>2. PendingOK'  BY ElectOK, CutOffOK, RejoinOK, ZenonT(20) DEF DistributedInv
  <1>3. ClientTypeOK'  BY <1>1 DEF DistributedInv, ClientTypeOK
  <1>4. TasksJustified  BY <1>1 DEF TasksJustified
  <1> QED  BY <1>1, <1>2, <1>3, <1>4, ClientStep

------------------------------------------------------------------------------
(* Steps of a search: one of its parts becomes p. *)
LEMMA PartStep ==
    ASSUME DistributedInv, NEW s \in Shards, NEW p \in Part,
           p.address \in 1 .. Len(Addresses[s]), query.part[s].st # "done",
           query' = [query EXCEPT !.part[s] = p],
           PendingSame, committed' = committed, replica' = replica, task' = task,
           request' = request, floor' = floor,
           query.linearizable /\ p.st \in {"wait", "search", "done"} => floor[s] <= p.read,
           p.st = "search" => p.read <= p.applied /\ p.applied <= replica[s][Node(s, p)].index,
           p.st = "done" => p.read <= p.applied /\ p.applied <= p.seen
    PROVE  DistributedInv'
  <1>1. ClusterTypeOK' /\ ReplicasSound' /\ ClusterGrows
    BY PendingKept, ClusterSame DEF DistributedInv
  <1>2. ClientTypeOK'  BY DEF DistributedInv, ClientTypeOK
  <1>3. TasksSound'  BY DEF DistributedInv, TasksSound, AckedCommitted, InLog
  <1>4. /\ query \in [st : {"idle", "running", "ok", "error"}, linearizable : BOOLEAN,
                      part : [Shards -> Part]]
        /\ \A d \in Shards : query.part[d].address \in 1 .. Len(Addresses[d])
    BY DEF DistributedInv, ReaderTypeOK
  <1>5. /\ query'.st = query.st /\ query'.linearizable = query.linearizable
        /\ \A d \in Shards : query'.part[d] = IF d = s THEN p ELSE query.part[d]
    BY <1>4
  <1>6. ReaderTypeOK'
    <2>1. query' \in [st : {"idle", "running", "ok", "error"}, linearizable : BOOLEAN,
                      part : [Shards -> Part]]
      BY <1>4
    <2> QED  BY <1>4, <1>5, <2>1, ZenonT(20) DEF DistributedInv, ReaderTypeOK
  <1>7. ASSUME NEW d \in Shards PROVE PartSound(d)'
    <2>1. PartSound(d) /\ PartSound(s)  BY DEF DistributedInv, SearchSound
    <2>2. CASE d = s
      <3>1. query.st # "ok"  BY <2>1 DEF PartSound
      <3> QED  BY <1>5, <2>1, <2>2, <3>1, ZenonT(20) DEF PartSound, Node
    <2>3. CASE d # s  BY <1>5, <2>1, <2>3, ZenonT(20) DEF PartSound, Node
    <2> QED  BY <2>2, <2>3
  <1>8. SearchSound'  BY <1>7 DEF SearchSound
  <1> QED  BY <1>1, <1>2, <1>3, <1>6, <1>8 DEF DistributedInv

LEMMA StepQueryNext ==
    ASSUME DistributedInv, NEW s \in Shards, QueryNext(s), query.part[s].st # "done",
           PendingSame, committed' = committed, replica' = replica, task' = task,
           request' = request, floor' = floor
    PROVE  DistributedInv'
  <1> DEFINE o == query.part[s]
             p == NextAddress(s, o)
  <1>1. o \in Part /\ o.address \in 1 .. Len(Addresses[s]) /\ Len(Addresses[s]) \in Nat
    BY FirstAddress DEF DistributedInv, ReaderTypeOK
  <1>2. p \in Part /\ p.st \in {"send", "failed"} /\ p.address \in 1 .. Len(Addresses[s])
    <2>1. CASE o.address < Len(Addresses[s])
      <3>1. p = [st |-> "send", address |-> o.address + 1, read |-> o.read, applied |-> o.applied,
                 seen |-> o.seen]
        BY <1>1, <2>1, ZenonT(20) DEF NextAddress, Part
      <3>2. o.address + 1 \in 1 .. Len(Addresses[s])  BY <1>1, <2>1
      <3>3. o.read \in Nat /\ o.applied \in Nat /\ o.seen \in Nat  BY <1>1 DEF Part
      <3> HIDE DEF p
      <3> QED  BY <3>1, <3>2, <3>3 DEF Part
    <2>2. CASE ~(o.address < Len(Addresses[s]))  BY <1>1, <2>2 DEF NextAddress, Part
    <2> QED  BY <2>1, <2>2
  <1>3. query' = [query EXCEPT !.part[s] = p]  BY DEF QueryNext
  <1> HIDE DEF p
  <1> QED  BY <1>2, <1>3, PartStep

LEMMA StepQueryNode ==
    ASSUME DistributedInv, NEW s \in Shards, QueryNode(s)
    PROVE  DistributedInv'
  <1> DEFINE o == query.part[s]
  <1>1. /\ o.st = "send" /\ PendingSame /\ committed' = committed
        /\ replica' = replica /\ task' = task /\ request' = request /\ floor' = floor
    BY DEF QueryNode, cluster, client, PendingSame
  <1>2. o \in Part /\ o.address \in 1 .. Len(Addresses[s]) /\ Len(committed[s]) \in Nat
    BY DEF DistributedInv, ReaderTypeOK, ClusterTypeOK
  <1>3. CASE QueryNext(s)  BY <1>1, <1>3, StepQueryNext
  <1>4. CASE query' = [query EXCEPT !.part[s].st = "wait",
                         !.part[s].read = IF query.linearizable THEN Len(committed[s]) ELSE 0]
    <2> DEFINE k == IF query.linearizable THEN Len(committed[s]) ELSE 0
               p == [o EXCEPT !.st = "wait", !.read = k]
    <2>1. k \in Nat  BY <1>2
    <2> HIDE DEF k
    <2>2. p \in Part /\ p.st = "wait" /\ p.address = o.address /\ p.read = k
      BY <1>2, <2>1, ZenonT(20) DEF Part
    <2>3. query' = [query EXCEPT !.part[s] = p]
      BY <1>4, ZenonT(20) DEF k, DistributedInv, ReaderTypeOK
    <2>4. query.linearizable => floor[s] <= k
      BY DEF k, DistributedInv, SearchSound, PartSound
    <2> HIDE DEF p
    <2> QED  BY <1>1, <1>2, <2>2, <2>3, <2>4, PartStep
  <1> QED  BY <1>3, <1>4 DEF QueryNode

LEMMA StepIndexThenSearch ==
    ASSUME DistributedInv, NEW s \in Shards, IndexThenSearch(s)
    PROVE  DistributedInv'
  <1> DEFINE o == query.part[s]
             r == replica[s][Node(s, o)]
  <1>1. /\ PendingSame /\ committed' = committed
        /\ replica' = replica /\ task' = task /\ request' = request /\ floor' = floor
    BY DEF IndexThenSearch, cluster, client, PendingSame
  <1>2. o \in Part /\ o.address \in 1 .. Len(Addresses[s])
    BY DEF DistributedInv, ReaderTypeOK
  <1>3. r.index \in Nat
    <2>1. Node(s, o) \in Nodes(s)  BY <1>2, AddressIsNode, ZenonT(60) DEF Node
    <2> QED  BY <2>1 DEF DistributedInv, ClusterTypeOK, Replica
  <1>4. PartSound(s)  BY DEF DistributedInv, SearchSound
  <1>5. CASE /\ o.st = "wait" /\ r.index >= o.read
             /\ query' = [query EXCEPT !.part[s].st = "search", !.part[s].applied = r.index]
    <2> DEFINE p == [o EXCEPT !.st = "search", !.applied = r.index]
    <2>1. /\ p \in Part /\ p.st = "search" /\ p.address = o.address /\ p.read = o.read
          /\ p.applied = r.index
      BY <1>2, <1>3, ZenonT(20) DEF Part
    <2>2. query' = [query EXCEPT !.part[s] = p]  BY <1>5, ZenonT(20) DEF DistributedInv, ReaderTypeOK
    <2> HIDE DEF p
    <2>3. p.read <= p.applied /\ p.applied <= replica[s][Node(s, p)].index
      <3>1. Node(s, p) = Node(s, o)  BY <2>1, ZenonT(60) DEF Node
      <3> QED  BY <1>2, <1>3, <1>5, <2>1, <3>1 DEF Part
    <2>4. query.linearizable => floor[s] <= p.read  BY <1>4, <1>5, <2>1 DEF PartSound
    <2>5. o.st # "done"  BY <1>5
    <2> QED  BY <1>1, <1>2, <2>1, <2>2, <2>3, <2>4, <2>5, PartStep
  <1>6. CASE /\ o.st = "search"
             /\ query' = [query EXCEPT !.part[s].st = "done", !.part[s].seen = r.index]
    <2> DEFINE p == [o EXCEPT !.st = "done", !.seen = r.index]
    <2>1. /\ p \in Part /\ p.st = "done" /\ p.address = o.address /\ p.read = o.read
          /\ p.applied = o.applied /\ p.seen = r.index
      BY <1>2, <1>3, ZenonT(20) DEF Part
    <2>2. query' = [query EXCEPT !.part[s] = p]  BY <1>6, ZenonT(20) DEF DistributedInv, ReaderTypeOK
    <2> HIDE DEF p
    <2>3. p.read <= p.applied /\ p.applied <= p.seen  BY <1>4, <1>6, <2>1 DEF PartSound
    <2>4. query.linearizable => floor[s] <= p.read  BY <1>4, <1>6, <2>1 DEF PartSound
    <2>5. o.st # "done"  BY <1>6
    <2> QED  BY <1>1, <1>2, <2>1, <2>2, <2>3, <2>4, <2>5, PartStep, ZenonT(60)
  <1> QED  BY <1>5, <1>6 DEF IndexThenSearch

LEMMA StepLoseQuery ==
    ASSUME DistributedInv, NEW s \in Shards, LoseQuery(s)
    PROVE  DistributedInv'
  <1> DEFINE o == query.part[s]
  <1>1. /\ o.st # "done" /\ PendingSame /\ committed' = committed
        /\ replica' = replica /\ task' = task /\ request' = request /\ floor' = floor
    BY DEF LoseQuery, cluster, client, PendingSame
  <1>2. CASE QueryNext(s)  BY <1>1, <1>2, StepQueryNext
  <1>3. CASE query' = [query EXCEPT !.part[s].st = "failed"]
    <2> DEFINE p == [o EXCEPT !.st = "failed"]
    <2>1. o \in Part /\ o.address \in 1 .. Len(Addresses[s])  BY DEF DistributedInv, ReaderTypeOK
    <2>2. p \in Part /\ p.st = "failed" /\ p.address = o.address  BY <2>1 DEF Part
    <2>3. query' = [query EXCEPT !.part[s] = p]  BY <1>3 DEF DistributedInv, ReaderTypeOK
    <2> HIDE DEF p
    <2> QED  BY <1>1, <2>1, <2>2, <2>3, PartStep
  <1> QED  BY <1>2, <1>3 DEF LoseQuery

(* What was acknowledged is in the log. *)
LEMMA AcknowledgedInLog ==
    ASSUME DistributedInv, NEW s \in Shards
    PROVE  Acknowledged(s) \in Nat /\ Acknowledged(s) <= Len(committed[s])
  <1> DEFINE oks == {r \in Requests : request[r] = "ok" /\ s \in InvolvedIn(r)}
             S == {0} \union {FirstAt(s, q) : q \in oks}
  <1>1. committed[s] \in Seq(Entry) /\ Len(committed[s]) \in Nat
    BY DEF DistributedInv, ClusterTypeOK
  <1>2. ASSUME NEW q \in oks PROVE FirstAt(s, q) \in 1 .. Len(committed[s])
    <2>1. PICK i \in 1 .. Len(committed[s]) : committed[s][i][1] = q
      BY DEF DistributedInv, TasksSound, AckedCommitted
    <2>2. FirstIn(committed[s], q) \in 1 .. Len(committed[s])  BY <1>1, <2>1, FirstInLog
    <2> QED  BY <2>2 DEF FirstIn, FirstAt
  <1>3. S \in SUBSET (0 .. Len(committed[s])) /\ S # {}  BY <1>1, <1>2
  <1>4. Max(S) \in S  BY <1>1, <1>3, NatMax, ZenonT(20)
  <1>5. Acknowledged(s) = Max(S)  BY DEF Acknowledged
  <1> HIDE DEF S
  <1>6. Max(S) \in 0 .. Len(committed[s])  BY <1>3, <1>4, ZenonT(20)
  <1> QED  BY <1>1, <1>5, <1>6

LEMMA StepBeginQuery ==
    ASSUME DistributedInv, NEW linearizable \in BOOLEAN, BeginQuery(linearizable)
    PROVE  DistributedInv'
  <1>1. /\ PendingSame /\ committed' = committed /\ replica' = replica
        /\ task' = task /\ request' = request
    BY DEF BeginQuery, cluster, client, PendingSame
  <1>2. ClusterTypeOK' /\ ReplicasSound' /\ ClusterGrows
    BY <1>1, PendingKept, ClusterSame DEF DistributedInv
  <1>3. ClientTypeOK'  BY <1>1 DEF DistributedInv, ClientTypeOK
  <1>4. TasksSound'  BY <1>1 DEF DistributedInv, TasksSound, AckedCommitted, InLog
  <1>5. /\ query \in [st : {"idle", "running", "ok", "error"}, linearizable : BOOLEAN,
                      part : [Shards -> Part]]
        /\ \A d \in Shards : query.part[d].address \in 1 .. Len(Addresses[d])
    BY DEF DistributedInv, ReaderTypeOK
  <1> DEFINE p(s) == [query.part[s] EXCEPT !.st = "send"]
  <1>6. \A s \in Shards : p(s) \in Part /\ p(s).st = "send" /\ p(s).address = query.part[s].address
    BY <1>5, ZenonT(60) DEF Part
  <1>7. query' = [query EXCEPT !.st = "running", !.linearizable = linearizable,
                               !.part = [s \in Shards |-> p(s)]]
    BY DEF BeginQuery
  <1> HIDE DEF p
  <1>8. query'.st = "running" /\ \A s \in Shards : query'.part[s] = p(s)  BY <1>5, <1>7
  <1>9. query' \in [st : {"idle", "running", "ok", "error"}, linearizable : BOOLEAN,
                    part : [Shards -> Part]]
    BY <1>5, <1>6, <1>7, ZenonT(20)
  <1>10. \A s \in Shards : floor'[s] = Acknowledged(s)  BY DEF BeginQuery
  <1>11. ReaderTypeOK'
    <2>1. floor' \in [Shards -> Nat]  BY AcknowledgedInLog DEF BeginQuery
    <2> QED  BY <1>5, <1>6, <1>8, <1>9, <2>1 DEF ReaderTypeOK
  <1>12. ASSUME NEW s \in Shards PROVE PartSound(s)'
    <2>1. floor'[s] <= Len(committed'[s])  BY <1>1, <1>10, AcknowledgedInLog
    <2> QED  BY <1>6, <1>8, <2>1 DEF PartSound
  <1> QED  BY <1>2, <1>3, <1>4, <1>11, <1>12 DEF DistributedInv, SearchSound

LEMMA StepJoinQuery ==
    ASSUME DistributedInv, JoinQuery
    PROVE  DistributedInv'
  <1>1. /\ PendingSame /\ committed' = committed /\ replica' = replica
        /\ task' = task /\ request' = request /\ floor' = floor
    BY DEF JoinQuery, cluster, client, PendingSame
  <1>2. ClusterTypeOK' /\ ReplicasSound' /\ ClusterGrows
    BY <1>1, PendingKept, ClusterSame DEF DistributedInv
  <1>3. ClientTypeOK'  BY <1>1 DEF DistributedInv, ClientTypeOK
  <1>4. TasksSound'  BY <1>1 DEF DistributedInv, TasksSound, AckedCommitted, InLog
  <1>5. PICK st \in {"ok", "error"} :
          /\ query' = [query EXCEPT !.st = st]
          /\ st = "ok" => \A s \in Shards : query.part[s].st = "done"
    BY DEF JoinQuery
  <1>6. query'.st = st /\ query'.part = query.part /\ query'.linearizable = query.linearizable
    BY <1>5 DEF DistributedInv, ReaderTypeOK
  <1>7. ReaderTypeOK'
    <2>1. query' \in [st : {"idle", "running", "ok", "error"}, linearizable : BOOLEAN,
                      part : [Shards -> Part]]
      BY <1>5, SMT, Zenon, SMTT(30) DEF DistributedInv, ReaderTypeOK
    <2> QED  BY <1>1, <1>6, <2>1 DEF DistributedInv, ReaderTypeOK
  <1>8. ASSUME NEW s \in Shards PROVE PartSound(s)'
    BY <1>1, <1>5, <1>6, ZenonT(20) DEF DistributedInv, SearchSound, PartSound, Node
  <1> QED  BY <1>2, <1>3, <1>4, <1>7, <1>8 DEF DistributedInv, SearchSound

(* Steps of the cluster. *)
LEMMA StepCluster ==
    ASSUME DistributedInv, NEW s \in Shards, Commit(s) \/ \E n \in Nodes(s) : Apply(s, n)
    PROVE  DistributedInv'
  <1>1. task' = task /\ request' = request /\ query' = query /\ floor' = floor
    BY ZenonT(60) DEF Commit, Apply, client, reader
  <1>2. ClusterTypeOK' /\ ReplicasSound' /\ ClusterGrows
    BY ClusterCommit, ClusterApply DEF DistributedInv
  <1>3. ClientTypeOK'  BY <1>1 DEF DistributedInv, ClientTypeOK
  <1>4. TasksSound'  BY <1>1, <1>2, TasksKept DEF DistributedInv
  <1>5. ReaderTypeOK' /\ SearchSound'  BY <1>1, <1>2, SearchKept DEF DistributedInv
  <1> QED  BY <1>2, <1>3, <1>4, <1>5, SMT, Zenon, SMTT(30) DEF DistributedInv

LEMMA DistributedInitInv == DistributedInit => DistributedInv
  <1> SUFFICES ASSUME DistributedInit PROVE DistributedInv  OBVIOUS
  <1>1. \A s \in Shards : committed[s] = <<>> /\ \A n \in Nodes(s) : replica[s][n] = NewReplica
    BY DEF DistributedInit
  <1>2. NewReplica \in Replica /\ NewReplica.index = 0 /\ NewReplica.dedup = {}
        /\ \A i \in Ids : NewReplica.points[i] = {}
    BY DEF NewReplica, Replica
  <1>3. ClusterTypeOK
    <2>1. replica = [s \in Shards |-> [n \in Nodes(s) |-> NewReplica]]  BY ZenonT(60) DEF DistributedInit
    <2>2. replica = [s \in Shards |-> [n \in Nodes(s) |-> replica[s][n]]]  BY <2>1
    <2>3. PendingOK /\ committed \in [Shards -> Seq(Entry)]
      <3>1. proposed \in [Shards -> SUBSET Entry] /\ committed \in [Shards -> Seq(Entry)]
        BY DEF DistributedInit
      <3>2. cutOff = [s \in Shards |-> NoneCutOff]  BY DEF DistributedInit
      <3>3. NoneCutOff \in [DOMAIN NoneCutOff -> Cut]  BY ZenonT(20) DEF NoneCutOff
      <3> QED  BY <3>1, <3>2, <3>3, ZenonT(20) DEF PendingOK
    <2> QED  BY <1>1, <1>2, <2>2, <2>3, SMT, Zenon, SMTT(30) DEF ClusterTypeOK
  <1>4. ClientTypeOK
    <2>1. NoTask \in Task /\ NoTask.address = 1  BY DEF NoTask, Task
    <2>2. task = [q \in Requests |-> [s \in Shards |-> NoTask]]
          /\ request = [q \in Requests |-> "idle"]
      BY DEF DistributedInit
    <2> QED  BY <2>1, <2>2, FirstAddress DEF ClientTypeOK
  <1> DEFINE p == [st |-> "none", address |-> 1, read |-> 0, applied |-> 0, seen |-> 0]
  <1>5. /\ p \in Part /\ p.st = "none" /\ p.address = 1
        /\ query = [st |-> "idle", linearizable |-> TRUE, part |-> [s \in Shards |-> p]]
        /\ floor = [s \in Shards |-> 0]
    BY ZenonT(60) DEF DistributedInit, NoQuery, Part
  <1> HIDE DEF p
  <1>6. ReaderTypeOK  BY <1>5, FirstAddress DEF ReaderTypeOK
  <1>7. ReplicasSound
    <2> SUFFICES ASSUME NEW s \in Shards, NEW n \in Nodes(s)
                 PROVE  ReplicaOf(replica[s][n], committed[s], s)
      BY DEF ReplicasSound
    <2>1. SeenIn(<<>>, 0) = {}  BY DEF SeenIn
    <2>2. \A i : LastWriter(<<>>, 0, i) = {}  BY <2>1 DEF LastWriter
    <2>3. Batch(Ids, s) \subseteq Ids  BY DEF Batch
    <2>4. replica[s][n] = NewReplica /\ committed[s] = <<>> /\ Len(<<>>) = 0  BY <1>1
    <2>5. NewReplica.index <= Len(<<>>)  BY <1>2, <2>4
    <2>6. \A i \in Batch(Ids, s) : NewReplica.points[i] = LastWriter(<<>>, 0, i)
      BY <1>2, <2>2, <2>3, ZenonT(20)
    <2>7. ReplicaOf(NewReplica, <<>>, s)  BY <1>2, <2>1, <2>5, <2>6 DEF ReplicaOf
    <2> QED  BY <2>4, <2>7
  <1>8. TasksSound
    <2>1. \A q \in Requests : request[q] # "ok" /\ \A s \in Shards : task[q][s].st # "done"
      BY DEF DistributedInit, NoTask
    <2> QED  BY <2>1 DEF TasksSound, AckedCommitted
  <1>9. SearchSound
    <2> SUFFICES ASSUME NEW s \in Shards PROVE PartSound(s)  BY DEF SearchSound
    <2> QED  BY <1>1, <1>5 DEF PartSound
  <1> QED  BY <1>3, <1>4, <1>6, <1>7, <1>8, <1>9 DEF DistributedInv

------------------------------------------------------------------------------
(* The invariant is inductive: whatever is lost, repeated or elected, tasks, replicas and *)
(* searches agree with the committed logs.                                                *)
THEOREM DistributedInvariant == DistributedSpec => []DistributedInv
  <1>1. DistributedInv /\ [DistributedNext]_distributed => DistributedInv'
    <2> SUFFICES ASSUME DistributedInv, [DistributedNext]_distributed PROVE DistributedInv'
      OBVIOUS
    <2>1. ASSUME NEW q \in Requests, Begin(q) \/ Retry(q) \/ JoinError(q) \/ JoinOk(q)
          PROVE  DistributedInv'
      BY <2>1, StepStart, StepJoin
    <2>2. ASSUME NEW q \in Requests, NEW s \in Shards,
                 Deliver(q, s) \/ Lose(q, s) \/ Truncated(q, s) \/ Answer(q, s)
          PROVE  DistributedInv'
      BY <2>2, StepDeliver, StepTask
    <2>3. ASSUME NEW s \in Shards, Commit(s) \/ \E n \in Nodes(s) : Apply(s, n)
          PROVE  DistributedInv'
      BY <2>3, StepCluster
    <2>4. ASSUME NEW s \in Shards,
                 \/ \E n \in Nodes(s) \union {NoNode} : Elect(s, n)
                 \/ CutOff(s) \/ \E n \in Nodes(s) : Rejoin(s, n)
          PROVE  DistributedInv'
      BY <2>4, StepLeader, ZenonT(20)
    <2>5. ASSUME NEW s \in Shards, QueryNode(s) \/ IndexThenSearch(s) \/ LoseQuery(s)
          PROVE  DistributedInv'
      BY <2>5, StepQueryNode, StepIndexThenSearch, StepLoseQuery
    <2>6. CASE (\E linearizable \in BOOLEAN : BeginQuery(linearizable)) \/ JoinQuery
      BY <2>6, StepBeginQuery, StepJoinQuery
    <2>7. CASE UNCHANGED distributed
      <3>1. /\ PendingSame /\ committed' = committed /\ replica' = replica
            /\ task' = task /\ request' = request /\ query' = query /\ floor' = floor
        BY <2>7 DEF distributed, cluster, client, reader, PendingSame
      <3>2. ClientTypeOK'  BY <3>1 DEF DistributedInv, ClientTypeOK
      <3>3. TasksJustified  BY <3>1 DEF TasksJustified
      <3>4. PendingOK'  BY <3>1, PendingKept DEF DistributedInv
      <3> QED  BY <3>1, <3>2, <3>3, <3>4, ClientStep
    <2> QED  BY <2>1, <2>2, <2>3, <2>4, <2>5, <2>6, <2>7 DEF DistributedNext
  <1> QED  BY <1>1, DistributedInitInv, PTL DEF DistributedSpec

(* A write reported as successful is committed on every shard with a part of it, for any  *)
(* number of shards, replicas and lost messages (write_commands, send_to_leader).         *)
THEOREM DistributedAckedCommitted == DistributedSpec => []AckedCommitted
  <1>1. DistributedInv => AckedCommitted  BY DEF DistributedInv, TasksSound
  <1> QED  BY <1>1, DistributedInvariant, PTL

(* Retries are idempotent on every replica, however often and however late a request is   *)
(* committed again (the dedup table of replay_record).                                    *)
THEOREM DistributedRetries == DistributedSpec => []RetriesKeepLaterWrites
  <1>1. DistributedInv => RetriesKeepLaterWrites
    <2> SUFFICES ASSUME DistributedInv, NEW s \in Shards, NEW n \in Nodes(s),
                        NEW i \in Batch(Ids, s)
                 PROVE  LET done == {q \in Requests : i \in Writes[q]
                               /\ \E j \in 1 .. replica[s][n].index : committed[s][j][1] = q}
                        IN  replica[s][n].points[i] =
                              {q \in done : \A p \in done : FirstAt(s, p) <= FirstAt(s, q)}
      BY ZenonT(60) DEF RetriesKeepLaterWrites
    <2> DEFINE k == replica[s][n].index
               done == {q \in Requests : i \in Writes[q]
                          /\ \E j \in 1 .. k : committed[s][j][1] = q}
    <2>1. replica[s][n].points[i] = LastWriter(committed[s], k, i)
      BY DEF DistributedInv, ReplicasSound, ReplicaOf
    <2>2. {q \in SeenIn(committed[s], k) : i \in Writes[q]} = done  BY DEF SeenIn
    <2>3. \A q : FirstIn(committed[s], q) = FirstAt(s, q)  BY DEF FirstIn, FirstAt
    <2> HIDE DEF done
    <2>4. LastWriter(committed[s], k, i) =
            {q \in done : \A p \in done : FirstAt(s, p) <= FirstAt(s, q)}
      BY <2>2, <2>3, SMT, Zenon, SMTT(30) DEF LastWriter
    <2> QED  BY <2>1, <2>4, ZenonT(60) DEF done
  <1> QED  BY <1>1, DistributedInvariant, PTL

(* A linearizable search sees every write acknowledged before it began, however leaders   *)
(* change (ensure_linearizable in search_indexed).                                        *)
THEOREM DistributedSearchSeesAcked == DistributedSpec => []SearchSeesAcked
  <1>1. DistributedInv => SearchSeesAcked
    <2> SUFFICES ASSUME DistributedInv, query.st = "ok", query.linearizable, NEW s \in Shards
                 PROVE  query.part[s].seen >= floor[s]
      BY DEF SearchSeesAcked
    <2>1. query.part[s] \in Part /\ floor[s] \in Nat  BY DEF DistributedInv, ReaderTypeOK
    <2>2. PartSound(s)  BY DEF DistributedInv, SearchSound
    <2>3. /\ floor[s] <= query.part[s].read /\ query.part[s].read <= query.part[s].applied
          /\ query.part[s].applied <= query.part[s].seen
      BY <2>2, ZenonT(60) DEF PartSound
    <2> QED  BY <2>1, <2>3 DEF Part
  <1> QED  BY <1>1, DistributedInvariant, PTL

(* The index a search reports is included in the answer of every shard, because each      *)
(* shard's index is read before its points are.                                           *)
THEOREM DistributedIndexIsLowerBound == DistributedSpec => []IndexIsLowerBound
  <1>1. DistributedInv => IndexIsLowerBound
    <2> SUFFICES ASSUME DistributedInv, query.st = "ok", NEW m \in MinAppliedIndex, NEW s \in Shards
                 PROVE  query.part[s].seen >= m
      BY DEF IndexIsLowerBound
    <2> DEFINE reported == {query.part[d].applied : d \in Shards}
    <2>1. \A d \in Shards : query.part[d] \in Part  BY DEF DistributedInv, ReaderTypeOK
    <2>2. reported \in SUBSET Nat /\ query.part[s].applied \in reported  BY <2>1 DEF Part
    <2>3. m = Min(reported)  BY DEF MinAppliedIndex
    <2> HIDE DEF reported
    <2>4. m \in Nat /\ m <= query.part[s].applied  BY <2>2, <2>3, NatMin, ZenonT(20)
    <2>5. query.part[s].applied <= query.part[s].seen
      BY ZenonT(60) DEF DistributedInv, SearchSound, PartSound
    <2> QED  BY <2>1, <2>4, <2>5 DEF Part
  <1> QED  BY <1>1, DistributedInvariant, PTL
==============================================================================
