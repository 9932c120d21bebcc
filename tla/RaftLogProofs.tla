----------------------------- MODULE RaftLogProofs -----------------------------
(***************************************************************************)
(* Proofs about DurableRaftLog, for every bound on indexes, terms, writes, *)
(* crashes and I/O errors: it implements RaftLogStore, and what OpenRaft   *)
(* reads has no holes.                                                     *)
(***************************************************************************)
EXTENDS DurableRaftLog, WellFoundedInduction, TLAPS

(* The log a checkpoint file stands for. *)
Base(c) == IF c = NoCheckpoint THEN NewLog ELSE c

(* Open would return this log, whichever checkpoint is on disk. *)
Recovers(records, state) ==
    /\ Replayed(Base(checkpoint), records) = state
    /\ Replayed(Base(stableCheckpoint), records) = state

(* Whatever stops the node, the files hold the acknowledged log or the tried one. *)
FilesSound ==
    /\ Recovers(journal, acked) \/ Recovers(journal, tried)
    /\ Recovers(stableJournal, acked) \/ Recovers(stableJournal, tried)
    /\ Len(journal) <= Len(stableJournal) + 1

(* How far the write under way has got. *)
WriteSound ==
    /\ stage # "idle" => status = "up"
    /\ stage \in {"idle", "write"} /\ status = "up" =>
         memory = acked /\ journal = stableJournal /\ Recovers(journal, acked)
    /\ stage = "idle" /\ status = "up" => tried = acked
    /\ stage = "write" => tried = Apply(acked, record)
    /\ stage \in {"apply", "sync_dir", "cut", "sync_cut"} =>
         memory = tried /\ Recovers(stableJournal, tried)
    /\ stage \in {"apply", "sync_dir", "cut"} => journal = stableJournal
    /\ stage \in {"sync_dir", "cut", "sync_cut"} => checkpoint = tried
    /\ stage \in {"cut", "sync_cut"} => stableCheckpoint = tried
    /\ stage = "sync_cut" => journal = <<>>

(* The entries of a log are the ones from after the purged to some last index. *)
EndsAt(state, last) ==
    /\ state.purged <= last /\ state.committed <= last
    /\ \A i \in Indexes : state.entries[i] # 0 <=> state.purged < i /\ i <= last

NoHoles(state) == \E last \in 0 .. MaxIndex : EndsAt(state, last)

RaftLogInv == RaftLogTypeOK /\ FilesSound /\ WriteSound /\ NoHoles(acked) /\ NoHoles(tried)

--------------------------------------------------------------------------------
(* Induction over the naturals, with a set in place of a predicate. *)
LEMMA SetInduction ==
    ASSUME NEW S, 0 \in S, \A n \in Nat : n \in S => n + 1 \in S
    PROVE  Nat \subseteq S
  <1> SUFFICES ASSUME Nat \ S # {} PROVE FALSE
    OBVIOUS
  <1> DEFINE T == Nat \ S
  <1>1. PICK x \in T : \A y \in T : ~(<<y, x>> \in OpToRel(<, Nat))
    BY NatLessThanWellFounded, WFMin, ZenonT(20)
  <1>2. x \in Nat /\ x # 0 /\ x - 1 \in Nat
    OBVIOUS
  <1>3. x - 1 \in T
    BY <1>2
  <1>4. <<x - 1, x>> \in Nat \X Nat /\ <<x - 1, x>>[1] = x - 1 /\ <<x - 1, x>>[2] = x
    BY <1>2
  <1>5. x - 1 < x
    BY <1>2
  <1> QED
    BY <1>1, <1>3, <1>4, <1>5 DEF OpToRel

(* The states of a replay, one after the other. *)
IsReplay(after, state, records) ==
    after = [n \in 0 .. Len(records) |->
               IF n = 0 THEN state ELSE Apply(after[n - 1], records[n])]

(* There is a replay of every journal from every state. *)
LEMMA ReplayExists ==
    ASSUME NEW state, NEW records \in Seq(JournalRecord)
    PROVE  \E after : IsReplay(after, state, records)
  <1> DEFINE Upto(f, m) == f = [n \in 0 .. m |-> IF n = 0 THEN state ELSE Apply(f[n - 1], records[n])]
             S == {m \in Nat : \E f : Upto(f, m)}
  <1>1. 0 \in S
    <2> DEFINE f == [n \in 0 .. 0 |-> state]
    <2>1. f = [n \in 0 .. 0 |-> IF n = 0 THEN state ELSE Apply(f[n - 1], records[n])]
      OBVIOUS
    <2> QED
      BY <2>1, ZenonT(20)
  <1>2. ASSUME NEW m \in Nat, m \in S PROVE m + 1 \in S
    <2>1. PICK f : Upto(f, m)
      BY <1>2
    <2> DEFINE g == [n \in 0 .. m + 1 |-> IF n = m + 1 THEN Apply(f[m], records[m + 1]) ELSE f[n]]
    <2>2. \A n \in 0 .. m + 1 :
            g[n] = IF n = 0 THEN state ELSE Apply(g[n - 1], records[n])
      <3> TAKE n \in 0 .. m + 1
      <3>1. CASE n = m + 1
        BY <3>1
      <3>2. CASE n # m + 1
        <4>1. n \in 0 .. m /\ g[n] = f[n]
          BY <3>2
        <4>2. f[n] = IF n = 0 THEN state ELSE Apply(f[n - 1], records[n])
          BY <2>1, <4>1
        <4>3. n # 0 => g[n - 1] = f[n - 1]
          BY <3>2
        <4> QED
          BY <4>1, <4>2, <4>3, ZenonT(20)
      <3> QED
        BY <3>1, <3>2
    <2>3. Upto(g, m + 1)
      BY <2>2
    <2>4. \E h : Upto(h, m + 1)
      <3> HIDE DEF g, Upto
      <3> QED
        BY <2>3, ZenonT(20)
    <2>5. m + 1 \in Nat
      OBVIOUS
    <2> HIDE DEF Upto
    <2> QED
      BY <2>4, <2>5, ZenonT(20)
  <1>3. Len(records) \in S
    <2> HIDE DEF S
    <2> QED
      BY <1>1, <1>2, SetInduction
  <1> QED
    BY <1>3 DEF IsReplay

(* Replayed is the last state of a replay. *)
LEMMA ReplayedIsLast ==
    ASSUME NEW state, NEW records \in Seq(JournalRecord)
    PROVE  \E after : IsReplay(after, state, records) /\ Replayed(state, records) = after[Len(records)]
  <1> DEFINE after == CHOOSE after : IsReplay(after, state, records)
  <1>1. IsReplay(after, state, records)
    BY ReplayExists, ZenonT(20)
  <1>2. Replayed(state, records) = after[Len(records)]
    BY DEF Replayed, IsReplay
  <1> QED
    BY <1>1, <1>2, ZenonT(20)

(* Each state of a replay comes from the one before. *)
LEMMA ReplaySteps ==
    ASSUME NEW state, NEW records \in Seq(JournalRecord), NEW f, IsReplay(f, state, records)
    PROVE  /\ \A n \in 0 .. Len(records) :
                f[n] = IF n = 0 THEN state ELSE Apply(f[n - 1], records[n])
           /\ Len(records) \in Nat /\ \A n \in 1 .. Len(records) : records[n] \in JournalRecord
  BY DEF IsReplay

(* Replaying one record more. *)
LEMMA ReplayedAppend ==
    ASSUME NEW state, NEW records \in Seq(JournalRecord), NEW r \in JournalRecord
    PROVE  Replayed(state, Append(records, r)) = Apply(Replayed(state, records), r)
  <1> DEFINE longer == Append(records, r)
             len == Len(records)
  <1>1. /\ longer \in Seq(JournalRecord) /\ Len(longer) = len + 1 /\ len \in Nat
        /\ longer[len + 1] = r /\ \A n \in 1 .. len : longer[n] = records[n]
    OBVIOUS
  <1> HIDE DEF longer
  <1>2. PICK f : IsReplay(f, state, records) /\ Replayed(state, records) = f[len]
    BY ReplayedIsLast, ZenonT(20)
  <1>3. PICK g : IsReplay(g, state, longer) /\ Replayed(state, longer) = g[Len(longer)]
    BY <1>1, ReplayedIsLast, ZenonT(20)
  <1> HIDE DEF len
  <1>4. /\ \A n \in 0 .. len : f[n] = IF n = 0 THEN state ELSE Apply(f[n - 1], records[n])
        /\ \A n \in 0 .. len + 1 : g[n] = IF n = 0 THEN state ELSE Apply(g[n - 1], longer[n])
    BY <1>1, <1>2, <1>3, ZenonT(20) DEF IsReplay, len
  <1> DEFINE S == {n \in Nat : n <= len => g[n] = f[n]}
  <1>5. 0 \in S
    BY <1>1, <1>4
  <1>6. ASSUME NEW n \in Nat, n \in S PROVE n + 1 \in S
    <2> SUFFICES ASSUME n + 1 <= len PROVE g[n + 1] = f[n + 1]
      OBVIOUS
    <2>1. /\ n + 1 \in 0 .. len /\ n + 1 \in 0 .. len + 1 /\ n + 1 # 0 /\ (n + 1) - 1 = n
          /\ n + 1 \in 1 .. len /\ n <= len
      BY <1>1
    <2> QED
      BY <1>1, <1>4, <1>6, <2>1
  <1>7. len \in S
    <2> HIDE DEF S
    <2> QED
      BY <1>1, <1>5, <1>6, SetInduction, ZenonT(60)
  <1>8. g[len] = f[len] /\ g[len + 1] = Apply(g[len], r)
    <2>1. len + 1 \in 0 .. len + 1 /\ len + 1 # 0 /\ (len + 1) - 1 = len /\ len <= len
      BY <1>1
    <2> QED
      BY <1>1, <1>4, <1>7, <2>1
  <1> QED
    BY <1>1, <1>2, <1>3, <1>8, ZenonT(20) DEF longer

(* An empty journal changes nothing. *)
LEMMA ReplayedNothing ==
    ASSUME NEW state
    PROVE  Replayed(state, <<>>) = state
  <1>1. <<>> \in Seq(JournalRecord) /\ Len(<<>>) = 0
    OBVIOUS
  <1>2. PICK f : IsReplay(f, state, <<>>) /\ Replayed(state, <<>>) = f[Len(<<>>)]
    BY <1>1, ReplayedIsLast, ZenonT(20)
  <1>3. f[0] = state
    BY <1>1, <1>2 DEF IsReplay
  <1> QED
    BY <1>1, <1>2, <1>3

(* The five kinds of record. *)
LEMMA RecordCases ==
    ASSUME NEW r \in JournalRecord
    PROVE  \/ r.op = "SaveVote" /\ r.term \in Terms
           \/ r.op = "SaveCommitted" /\ r.index \in Indexes
           \/ r.op = "Truncate" /\ r.index \in Indexes
           \/ r.op = "Purge" /\ r.index \in Indexes
           \/ r.op = "Append" /\ r.first \in Indexes /\ r.last \in Indexes /\ r.term \in Terms \ {0}
  BY DEF JournalRecord

(* What a record writes into the entries it touches. *)
Value(r) == IF r.op = "Append" THEN r.term ELSE 0

(* Does a record write this entry? *)
Touches(r, i) ==
    \/ r.op = "Append" /\ i \in r.first .. r.last
    \/ r.op = "Truncate" /\ i >= r.index
    \/ r.op = "Purge" /\ i <= r.index

(* What each record does to each field of a log. *)
LEMMA ApplyFields ==
    ASSUME NEW state \in JournalState, NEW r \in JournalRecord
    PROVE  LET after == Apply(state, r)
           IN  /\ after \in JournalState
               /\ after.vote = IF r.op = "SaveVote" THEN r.term ELSE state.vote
               /\ after.committed = IF r.op = "SaveCommitted" THEN r.index ELSE state.committed
               /\ after.purged = IF r.op = "Purge" THEN r.index ELSE state.purged
               /\ \A i \in Indexes :
                    /\ Touches(r, i) => after.entries[i] = Value(r)
                    /\ ~Touches(r, i) => after.entries[i] = state.entries[i]
  <1>0. /\ state.vote \in Terms /\ state.committed \in 0 .. MaxIndex /\ state.purged \in 0 .. MaxIndex
        /\ state.entries \in [Indexes -> Terms]
    BY DEF JournalState
  <1>1. Indexes \subseteq 0 .. MaxIndex /\ 0 \in Terms
    BY RaftLogBounds DEF Indexes, Terms
  <1>2. CASE r.op = "SaveVote" /\ r.term \in Terms
    BY <1>0, <1>2 DEF Apply, JournalState, Touches, Value
  <1>3. CASE r.op = "SaveCommitted" /\ r.index \in Indexes
    BY <1>0, <1>1, <1>3 DEF Apply, JournalState, Touches, Value
  <1>4. CASE r.op = "Truncate" /\ r.index \in Indexes
    BY <1>0, <1>1, <1>4 DEF Apply, JournalState, Touches, Value, Truncated
  <1>5. CASE r.op = "Purge" /\ r.index \in Indexes
    BY <1>0, <1>1, <1>5, ZenonT(20) DEF Apply, JournalState, Touches, Value, Purged
  <1>6. CASE r.op = "Append" /\ r.first \in Indexes /\ r.last \in Indexes /\ r.term \in Terms \ {0}
    BY <1>0, <1>6 DEF Apply, JournalState, Touches, Value
  <1> QED
    BY <1>2, <1>3, <1>4, <1>5, <1>6, RecordCases

(* A replay goes from log to log. *)
LEMMA ReplayTypes ==
    ASSUME NEW state \in JournalState, NEW records \in Seq(JournalRecord),
           NEW f, IsReplay(f, state, records)
    PROVE  \A n \in 0 .. Len(records) : f[n] \in JournalState
  <1> DEFINE S == {n \in Nat : n <= Len(records) => f[n] \in JournalState}
  <1>1. /\ \A n \in 0 .. Len(records) : f[n] = IF n = 0 THEN state ELSE Apply(f[n - 1], records[n])
        /\ Len(records) \in Nat /\ \A n \in 1 .. Len(records) : records[n] \in JournalRecord
    BY ReplaySteps, ZenonT(20)
  <1>2. 0 \in S
    BY <1>1
  <1>3. ASSUME NEW n \in Nat, n \in S PROVE n + 1 \in S
    <2> SUFFICES ASSUME n + 1 <= Len(records) PROVE f[n + 1] \in JournalState
      OBVIOUS
    <2>1. /\ n + 1 \in 0 .. Len(records) /\ n + 1 # 0 /\ (n + 1) - 1 = n
          /\ n + 1 \in 1 .. Len(records) /\ n <= Len(records)
      BY <1>1
    <2>2. f[n] \in JournalState /\ f[n + 1] = Apply(f[n], records[n + 1])
          /\ records[n + 1] \in JournalRecord
      BY <1>1, <1>3, <2>1
    <2> QED
      BY <2>2, ApplyFields, ZenonT(20)
  <1>4. \A n \in Nat : n \in S
    <2> HIDE DEF S
    <2> QED
      BY <1>2, <1>3, SetInduction
  <1> QED
    BY <1>1, <1>4

LEMMA ReplayedType ==
    ASSUME NEW state \in JournalState, NEW records \in Seq(JournalRecord)
    PROVE  Replayed(state, records) \in JournalState
  <1>1. Len(records) \in 0 .. Len(records)
    OBVIOUS
  <1> QED
    BY <1>1, ReplayedIsLast, ReplayTypes, ZenonT(20)

(* Each field of this log has the value it has in one of the two others. *)
Between(state, a, b) ==
    /\ state.vote \in {a.vote, b.vote}
    /\ state.committed \in {a.committed, b.committed}
    /\ state.purged \in {a.purged, b.purged}
    /\ \A i \in Indexes : state.entries[i] \in {a.entries[i], b.entries[i]}

(* A record writes constants: applied to two logs, it keeps their fields as they are or *)
(* makes them equal.                                                                    *)
LEMMA ApplyBetween ==
    ASSUME NEW g \in JournalState, NEW f \in JournalState, NEW t \in JournalState,
           NEW r \in JournalRecord, Between(g, f, t)
    PROVE  Between(Apply(g, r), Apply(f, r), t)
  <1> DEFINE a == Apply(g, r)
             b == Apply(f, r)
  <1>1. /\ a.vote = IF r.op = "SaveVote" THEN r.term ELSE g.vote
        /\ b.vote = IF r.op = "SaveVote" THEN r.term ELSE f.vote
        /\ a.committed = IF r.op = "SaveCommitted" THEN r.index ELSE g.committed
        /\ b.committed = IF r.op = "SaveCommitted" THEN r.index ELSE f.committed
        /\ a.purged = IF r.op = "Purge" THEN r.index ELSE g.purged
        /\ b.purged = IF r.op = "Purge" THEN r.index ELSE f.purged
    BY ApplyFields
  <1>2. ASSUME NEW i \in Indexes
        PROVE  \/ a.entries[i] = b.entries[i]
               \/ a.entries[i] = g.entries[i] /\ b.entries[i] = f.entries[i]
    <2>1. CASE Touches(r, i)
      <3>1. a.entries[i] = Value(r)
        BY <2>1, ApplyFields, ZenonT(20)
      <3>2. b.entries[i] = Value(r)
        BY <2>1, ApplyFields, ZenonT(20)
      <3> QED
        BY <3>1, <3>2
    <2>2. CASE ~Touches(r, i)
      BY <2>2, ApplyFields, ZenonT(20)
    <2> QED
      BY <2>1, <2>2
  <1> HIDE DEF a, b
  <1>3. a.vote \in {b.vote, t.vote} /\ a.committed \in {b.committed, t.committed}
        /\ a.purged \in {b.purged, t.purged}
    BY <1>1 DEF Between
  <1>4. \A i \in Indexes : a.entries[i] \in {b.entries[i], t.entries[i]}
    BY <1>2 DEF Between
  <1> QED
    BY <1>3, <1>4 DEF Between, a, b

(* Two logs with the same fields are the same. *)
LEMMA SameLog ==
    ASSUME NEW a \in JournalState, NEW b \in JournalState, Between(a, b, b)
    PROVE  a = b
  <1>1. a.entries = b.entries
    BY DEF JournalState, Between
  <1> QED
    BY <1>1 DEF JournalState, Between

(* Replaying a journal over the log it made changes nothing: this is why a checkpoint may *)
(* take its place before the journal is cut.                                              *)
LEMMA ReplayedTwice ==
    ASSUME NEW state \in JournalState, NEW records \in Seq(JournalRecord)
    PROVE  Replayed(Replayed(state, records), records) = Replayed(state, records)
  <1> DEFINE t == Replayed(state, records)
             len == Len(records)
  <1>1. t \in JournalState /\ len \in Nat
    BY ReplayedType
  <1>2. PICK f : IsReplay(f, state, records) /\ t = f[len]
    BY ReplayedIsLast, ZenonT(20)
  <1> HIDE DEF t
  <1>3. PICK g : IsReplay(g, t, records) /\ Replayed(t, records) = g[len]
    BY ReplayedIsLast, ZenonT(20)
  <1>4. \A n \in 0 .. len : f[n] \in JournalState /\ g[n] \in JournalState
    BY <1>1, <1>2, <1>3, ReplayTypes, ZenonT(20)
  <1>5. /\ \A n \in 0 .. len : f[n] = IF n = 0 THEN state ELSE Apply(f[n - 1], records[n])
        /\ \A n \in 0 .. len : g[n] = IF n = 0 THEN t ELSE Apply(g[n - 1], records[n])
        /\ \A n \in 1 .. len : records[n] \in JournalRecord
    <2>1. /\ \A n \in 0 .. len : f[n] = IF n = 0 THEN state ELSE Apply(f[n - 1], records[n])
          /\ \A n \in 1 .. len : records[n] \in JournalRecord
      BY <1>2, SMTT(60) DEF IsReplay
    <2>2. \A n \in 0 .. len : g[n] = IF n = 0 THEN t ELSE Apply(g[n - 1], records[n])
      BY <1>3 DEF IsReplay
    <2> QED
      BY <2>1, <2>2, ZenonT(20)
  <1> HIDE DEF len
  <1> DEFINE S == {n \in Nat : n <= len => Between(g[n], f[n], t)}
  <1>6. 0 \in S
    <2>1. g[0] = t
      BY <1>1, <1>5
    <2>2. Between(t, f[0], t)
      BY DEF Between
    <2> QED
      BY <2>1, <2>2
  <1>7. ASSUME NEW n \in Nat, n \in S PROVE n + 1 \in S
    <2> SUFFICES ASSUME n + 1 <= len PROVE Between(g[n + 1], f[n + 1], t)
      OBVIOUS
    <2>1. /\ n + 1 \in 0 .. len /\ n \in 0 .. len /\ n + 1 # 0 /\ (n + 1) - 1 = n
          /\ n + 1 \in 1 .. len /\ n <= len
      BY <1>1
    <2>2. /\ f[n + 1] = Apply(f[n], records[n + 1]) /\ g[n + 1] = Apply(g[n], records[n + 1])
          /\ records[n + 1] \in JournalRecord /\ Between(g[n], f[n], t)
      BY <1>5, <1>7, <2>1
    <2> QED
      BY <1>1, <1>4, <2>1, <2>2, ApplyBetween, ZenonT(20)
  <1>8. Between(g[len], f[len], t)
    <2>1. len \in S
      <3> HIDE DEF S
      <3> QED
        BY <1>1, <1>6, <1>7, SetInduction
    <2> QED
      BY <1>1, <2>1
  <1>9. len \in 0 .. len
    BY <1>1
  <1> QED
    BY <1>1, <1>2, <1>3, <1>4, <1>8, <1>9, SameLog, ZenonT(20) DEF t

--------------------------------------------------------------------------------
(* What OpenRaft reads. *)

(* A log without holes ends at its last index. *)
LEMMA LastIndexIs ==
    ASSUME NEW state \in JournalState, NEW last \in 0 .. MaxIndex, EndsAt(state, last)
    PROVE  LastIndex(state) = last
  <1> DEFINE T == {i \in Indexes : state.entries[i] # 0} \union {state.purged}
  <1>0. state.purged \in 0 .. MaxIndex /\ MaxIndex \in Nat
    BY RaftLogBounds DEF JournalState
  <1>1. T \subseteq 0 .. MaxIndex
    BY <1>0 DEF Indexes
  <1>2. last \in T
    <2>1. CASE last = state.purged
      BY <2>1
    <2>2. CASE last # state.purged
      <3>1. last \in Indexes /\ state.purged < last /\ last <= last
        BY <1>0, <2>2 DEF EndsAt, Indexes
      <3> QED
        BY <3>1 DEF EndsAt
    <2> QED
      BY <2>1, <2>2
  <1>3. \A y \in T : last >= y
    BY <1>0 DEF EndsAt, Indexes
  <1> HIDE DEF T
  <1>4. Max(T) \in T /\ \A y \in T : Max(T) >= y
    BY <1>2, <1>3, ZenonT(20) DEF Max
  <1>5. Max(T) = last
    <2>1. Max(T) >= last /\ last >= Max(T) /\ Max(T) \in 0 .. MaxIndex
      BY <1>1, <1>2, <1>3, <1>4, ZenonT(20)
    <2> QED
      BY <1>0, <2>1
  <1> QED
    BY <1>5 DEF LastIndex, T

(* The calls OpenRaft makes leave no hole. *)
LEMMA CallsLeaveNoHole ==
    ASSUME memory \in JournalState, NoHoles(memory), NEW r \in JournalRecord, RaftCalls(r)
    PROVE  NoHoles(Apply(memory, r))
  <1>0. PICK last \in 0 .. MaxIndex : EndsAt(memory, last)
    BY DEF NoHoles
  <1>1. LastIndex(memory) = last
    BY <1>0, LastIndexIs, ZenonT(20)
  <1> DEFINE after == Apply(memory, r)
             floor == Max({memory.committed, memory.purged})
  <1>2. /\ memory.purged \in 0 .. MaxIndex /\ memory.committed \in 0 .. MaxIndex /\ MaxIndex \in Nat
        /\ \A i \in Indexes : i \in Nat /\ 1 <= i /\ i <= MaxIndex
        /\ \A i \in Indexes : memory.entries[i] # 0 <=> memory.purged < i /\ i <= last
        /\ memory.purged <= last /\ memory.committed <= last /\ last \in Nat
    BY <1>0, RaftLogBounds DEF JournalState, Indexes, EndsAt
  <1>3. floor >= memory.committed /\ floor >= memory.purged /\ floor \in Nat
    <2> DEFINE F == {memory.committed, memory.purged}
    <2>1. \E x \in F : \A y \in F : x >= y
      <3>1. CASE memory.committed >= memory.purged
        BY <1>2, <3>1
      <3>2. CASE memory.purged >= memory.committed
        BY <1>2, <3>2
      <3> QED
        BY <1>2, <3>1, <3>2
    <2>2. floor \in F /\ \A y \in F : floor >= y
      BY <2>1, ZenonT(20) DEF Max
    <2> QED
      BY <1>2, <2>2
  <1>4. /\ after.committed = IF r.op = "SaveCommitted" THEN r.index ELSE memory.committed
        /\ after.purged = IF r.op = "Purge" THEN r.index ELSE memory.purged
        /\ \A i \in Indexes : Touches(r, i) => after.entries[i] = Value(r)
        /\ \A i \in Indexes : ~Touches(r, i) => after.entries[i] = memory.entries[i]
    BY ApplyFields, ZenonT(20)
  <1>5. SUFFICES \E l \in 0 .. MaxIndex : EndsAt(after, l)
    BY DEF NoHoles
  <1> HIDE DEF after, floor
  <1>6. CASE r.op = "SaveVote"
    <2>1. EndsAt(after, last)
      BY <1>2, <1>4, <1>6 DEF EndsAt, Touches
    <2> QED
      BY <2>1
  <1>7. CASE r.op = "SaveCommitted"
    <2>1. r.index <= last
      BY <1>1, <1>7 DEF RaftCalls
    <2>2. EndsAt(after, last)
      BY <1>2, <1>4, <1>7, <2>1 DEF EndsAt, Touches
    <2> QED
      BY <2>2
  <1>8. CASE r.op = "Append"
    <2>1. r.first = last + 1 /\ r.first <= r.last /\ r.last \in Indexes /\ r.term # 0
          /\ r.term \in Nat
      BY <1>1, <1>8, RecordCases, RaftLogBounds DEF RaftCalls, Terms
    <2>2. \A i \in Indexes : Touches(r, i) <=> last < i /\ i <= r.last
      BY <1>2, <1>8, <2>1 DEF Touches
    <2>3. EndsAt(after, r.last)
      BY <1>2, <1>4, <1>8, <2>1, <2>2 DEF EndsAt, Value
    <2> QED
      BY <1>2, <2>1, <2>3
  <1>9. CASE r.op = "Truncate"
    <2>1. r.index > floor /\ r.index <= last /\ r.index \in Indexes
      BY <1>1, <1>9, RecordCases DEF RaftCalls, floor
    <2>2. \A i \in Indexes : Touches(r, i) <=> i >= r.index
      BY <1>9 DEF Touches
    <2>3. EndsAt(after, r.index - 1) /\ r.index - 1 \in 0 .. MaxIndex
      BY <1>2, <1>3, <1>4, <1>9, <2>1, <2>2 DEF EndsAt, Value
    <2> QED
      BY <2>3
  <1>10. CASE r.op = "Purge"
    <2>1. /\ r.index > memory.purged /\ r.index \in Indexes
          /\ r.index <= memory.committed \/ r.index > last
      BY <1>1, <1>10, RecordCases DEF RaftCalls
    <2>2. \A i \in Indexes : Touches(r, i) <=> i <= r.index
      BY <1>10 DEF Touches
    <2>3. CASE r.index <= memory.committed
      <3>1. EndsAt(after, last)
        BY <1>2, <1>4, <1>10, <2>1, <2>2, <2>3 DEF EndsAt, Value
      <3> QED
        BY <3>1
    <2>4. CASE r.index > last
      <3>1. EndsAt(after, r.index) /\ r.index \in 0 .. MaxIndex
        BY <1>2, <1>4, <1>10, <2>1, <2>2, <2>4 DEF EndsAt, Value
      <3> QED
        BY <3>1
    <2> QED
      BY <2>1, <2>3, <2>4
  <1> QED
    BY <1>6, <1>7, <1>8, <1>9, <1>10, RecordCases

--------------------------------------------------------------------------------
(* A checkpoint file stands for a log. *)
LEMMA BaseIsLog ==
    /\ NewLog \in JournalState /\ Base(NoCheckpoint) = NewLog
    /\ \A c \in JournalState \union {NoCheckpoint} : Base(c) \in JournalState
    /\ \A c \in JournalState : Base(c) = c
  <1>1. NewLog \in JournalState
    BY RaftLogBounds DEF NewLog, JournalState, Terms, Indexes
  <1>2. NoCheckpoint \notin JournalState
    BY DEF NoCheckpoint, JournalState
  <1> QED
    BY <1>1, <1>2 DEF Base

(* One record more in the journal, one write more in the log that is recovered. *)
LEMMA RecoversAppend ==
    ASSUME RaftLogTypeOK, NEW records \in Seq(JournalRecord), NEW state, Recovers(records, state)
    PROVE  Recovers(Append(records, record), Apply(state, record))
  <1>1. record \in JournalRecord
    BY DEF RaftLogTypeOK
  <1> QED
    BY <1>1, ReplayedAppend, ZenonT(20) DEF Recovers

(* The log of a new node. *)
LEMMA RaftLogInitInv == Init => RaftLogInv
  <1> SUFFICES ASSUME Init PROVE RaftLogInv
    OBVIOUS
  <1>1. RaftLogTypeOK
    <2>1. [op |-> "SaveVote", term |-> 0] \in JournalRecord
      BY RaftLogBounds DEF JournalRecord, Terms
    <2>2. /\ memory \in JournalState /\ acked \in JournalState /\ tried \in JournalState
          /\ record \in JournalRecord /\ journal = <<>> /\ stableJournal = <<>> /\ torn = FALSE
          /\ checkpoint = NoCheckpoint /\ stableCheckpoint = NoCheckpoint
          /\ stage = "idle" /\ status = "up" /\ writes = 0 /\ crashes = 0 /\ faults = 0
      BY <2>1, BaseIsLog DEF Init
    <2>3. /\ journal \in Seq(JournalRecord) /\ stableJournal \in Seq(JournalRecord)
          /\ writes \in 0 .. MaxWrites /\ crashes \in 0 .. MaxCrashes /\ faults \in 0 .. MaxFaults
      BY <2>2, RaftLogBounds
    <2> QED
      BY <2>2, <2>3, ZenonT(20) DEF RaftLogTypeOK, Stages
  <1>2. Recovers(<<>>, NewLog)
    BY BaseIsLog, ReplayedNothing DEF Init, Recovers
  <1>3. FilesSound /\ WriteSound
    BY <1>2 DEF Init, FilesSound, WriteSound
  <1>4. NoHoles(NewLog)
    <2>1. EndsAt(NewLog, 0) /\ 0 \in 0 .. MaxIndex
      BY RaftLogBounds DEF EndsAt, NewLog, Indexes
    <2> QED
      BY <2>1 DEF NoHoles
  <1> QED
    BY <1>1, <1>3, <1>4 DEF Init, RaftLogInv

(* A write begins. *)
LEMMA BeginWriteInv ==
    ASSUME RaftLogInv, NEW r \in JournalRecord, BeginWrite(r)
    PROVE  RaftLogInv'
  <1> USE DEF RaftLogInv
  <1>0. /\ status = "up" /\ stage = "idle" /\ stage' = "write" /\ record' = r
        /\ tried' = Apply(memory, r) /\ writes < MaxWrites /\ writes' = writes + 1
        /\ UNCHANGED <<memory, journal, torn, stableJournal, checkpoint, stableCheckpoint,
                       status, acked, crashes, faults>>
    BY DEF BeginWrite
  <1>1. memory = acked /\ tried = acked /\ journal = stableJournal /\ Recovers(journal, acked)
    BY <1>0 DEF WriteSound
  <1>2. RaftLogTypeOK'
    <2>0. memory \in JournalState /\ writes \in 0 .. MaxWrites
      BY DEF RaftLogTypeOK
    <2>1. tried' \in JournalState /\ writes' \in 0 .. MaxWrites
      <3>1. Apply(memory, r) \in JournalState
        BY <2>0, ApplyFields
      <3> QED
        BY <1>0, <2>0, <3>1, RaftLogBounds
    <2> QED
      BY <1>0, <2>1 DEF RaftLogTypeOK, Stages
  <1>3. Recovers(journal, acked)' /\ Len(journal') <= Len(stableJournal') + 1
    BY <1>0, <1>1 DEF Recovers, FilesSound
  <1>4. FilesSound' /\ WriteSound'
    BY <1>0, <1>1, <1>3 DEF FilesSound, WriteSound
  <1>5. NoHoles(acked)' /\ NoHoles(tried)'
    BY <1>0, <1>1, CallsLeaveNoHole, ZenonT(60) DEF BeginWrite, RaftLogTypeOK, NoHoles, EndsAt
  <1> QED
    BY <1>2, <1>4, <1>5

(* The record is on stable storage, and in memory. *)
LEMMA SyncRecordInv ==
    ASSUME RaftLogInv, SyncRecord
    PROVE  RaftLogInv'
  <1> USE DEF RaftLogInv
  <1>0. /\ status = "up" /\ stage = "write"
        /\ journal' = Append(journal, record) /\ stableJournal' = journal'
        /\ memory' = Apply(memory, record)
        /\ \/ stage' = "apply" /\ acked' = acked
           \/ stage' = "idle" /\ acked' = tried
        /\ UNCHANGED <<torn, checkpoint, stableCheckpoint, record, status, tried, writes,
                       crashes, faults>>
    BY DEF SyncRecord
  <1>1. memory = acked /\ tried = Apply(acked, record) /\ Recovers(journal, acked)
    BY <1>0 DEF WriteSound
  <1>2. journal \in Seq(JournalRecord) /\ record \in JournalRecord /\ acked \in JournalState
    BY DEF RaftLogTypeOK
  <1>3. Recovers(journal, tried)' /\ memory' = tried'
    BY <1>0, <1>1, <1>2, RecoversAppend DEF Recovers
  <1>4. RaftLogTypeOK'
    <2>1. journal' \in Seq(JournalRecord) /\ memory' \in JournalState
      BY <1>0, <1>2, <1>3 DEF RaftLogTypeOK
    <2> QED
      BY <1>0, <2>1 DEF RaftLogTypeOK, Stages
  <1>5. Len(journal') \in Nat /\ stableJournal' = journal'
    BY <1>0, <1>4 DEF RaftLogTypeOK
  <1>6. FilesSound'
    BY <1>3, <1>5 DEF FilesSound, Recovers
  <1>7. WriteSound'
    BY <1>0, <1>3 DEF WriteSound, Recovers
  <1>8. NoHoles(acked)' /\ NoHoles(tried)'
    BY <1>0, ZenonT(60) DEF NoHoles, EndsAt
  <1> QED
    BY <1>4, <1>6, <1>7, <1>8

(* What a write leaves behind the journal. *)
LEMMA LeftoversAre ==
    ASSUME NEW left \in Leftovers
    PROVE  left.journal \in {journal, Append(journal, record)} /\ left.torn \in BOOLEAN
  <1> DEFINE longer == Append(journal, record)
  <1>1. left \in {[journal |-> journal, torn |-> FALSE], [journal |-> journal, torn |-> TRUE],
                  [journal |-> longer, torn |-> FALSE]}
    BY DEF Leftovers
  <1> HIDE DEF longer
  <1>2. left.journal \in {journal, longer}
    BY <1>1
  <1>3. left.torn \in BOOLEAN
    <2>1. CASE left = [journal |-> journal, torn |-> FALSE]
      BY <2>1
    <2>2. CASE left = [journal |-> journal, torn |-> TRUE]
      BY <2>2
    <2>3. CASE left = [journal |-> longer, torn |-> FALSE]
      BY <2>3
    <2> QED
      BY <1>1, <2>1, <2>2, <2>3
  <1> QED
    BY <1>2, <1>3 DEF longer

(* append_record fails. *)
LEMMA FailWriteInv ==
    ASSUME RaftLogInv, FailWrite
    PROVE  RaftLogInv'
  <1> USE DEF RaftLogInv
  <1>0. /\ status = "up" /\ stage = "write" /\ status' = "failed" /\ stage' = "idle"
        /\ journal' \in {journal, Append(journal, record)} /\ torn' \in BOOLEAN
        /\ faults < MaxFaults /\ faults' = faults + 1
        /\ UNCHANGED <<memory, stableJournal, checkpoint, stableCheckpoint, record, acked,
                       tried, writes, crashes>>
    <2>1. PICK left \in Leftovers : journal' = left.journal /\ torn' = left.torn
      BY DEF FailWrite
    <2>2. left.journal \in {journal, Append(journal, record)} /\ left.torn \in BOOLEAN
      BY LeftoversAre
    <2> QED
      BY <2>1, <2>2 DEF FailWrite
  <1>1. tried = Apply(acked, record) /\ Recovers(journal, acked) /\ journal = stableJournal
    BY <1>0 DEF WriteSound
  <1>2. journal \in Seq(JournalRecord) /\ record \in JournalRecord /\ Len(journal) \in Nat
    BY DEF RaftLogTypeOK
  <1>3. /\ journal' \in Seq(JournalRecord) /\ Len(journal') <= Len(journal) + 1
        /\ faults' \in 0 .. MaxFaults
    BY <1>0, <1>2, RaftLogBounds DEF RaftLogTypeOK
  <1>4. RaftLogTypeOK'
    BY <1>0, <1>3 DEF RaftLogTypeOK, Stages
  <1>5. Recovers(Append(journal, record), tried)
    BY <1>1, <1>2, RecoversAppend
  <1>6. (Recovers(journal, acked) \/ Recovers(journal, tried))' /\ Recovers(stableJournal, acked)'
    BY <1>0, <1>1, <1>5, ZenonT(20) DEF Recovers
  <1>7. FilesSound'
    BY <1>0, <1>1, <1>3, <1>6 DEF FilesSound
  <1>8. WriteSound' /\ NoHoles(acked)' /\ NoHoles(tried)'
    BY <1>0 DEF WriteSound, NoHoles, EndsAt
  <1> QED
    BY <1>4, <1>7, <1>8

(* The checkpoint gets its name: the old records still lead to the same log. *)
LEMMA RenameCheckpointInv ==
    ASSUME RaftLogInv, RenameCheckpoint
    PROVE  RaftLogInv'
  <1> USE DEF RaftLogInv
  <1>0. /\ status = "up" /\ stage = "apply" /\ checkpoint' = memory /\ stage' = "sync_dir"
        /\ UNCHANGED <<memory, journal, torn, stableJournal, stableCheckpoint, record, status,
                       acked, tried, writes, crashes, faults>>
    BY DEF RenameCheckpoint
  <1>1. memory = tried /\ journal = stableJournal /\ Recovers(journal, tried)
    BY <1>0 DEF WriteSound
  <1>2. /\ journal \in Seq(JournalRecord) /\ memory \in JournalState
        /\ stableCheckpoint \in JournalState \union {NoCheckpoint}
    BY DEF RaftLogTypeOK
  <1>3. RaftLogTypeOK'
    BY <1>0, <1>2 DEF RaftLogTypeOK, Stages
  <1>4. Replayed(Base(memory), journal) = tried
    <2>1. Base(memory) = memory /\ Base(stableCheckpoint) \in JournalState
      BY <1>2, BaseIsLog
    <2>2. Replayed(Base(stableCheckpoint), journal) = memory
      BY <1>1 DEF Recovers
    <2> QED
      BY <1>1, <1>2, <2>1, <2>2, ReplayedTwice
  <1>5. Recovers(journal, tried)' /\ journal' = stableJournal'
    BY <1>0, <1>1, <1>4 DEF Recovers
  <1>6. FilesSound' /\ WriteSound'
    BY <1>0, <1>1, <1>5 DEF FilesSound, WriteSound
  <1>7. NoHoles(acked)' /\ NoHoles(tried)'
    BY <1>0 DEF NoHoles, EndsAt
  <1> QED
    BY <1>3, <1>6, <1>7

(* The directory is synced. *)
LEMMA SyncCheckpointInv ==
    ASSUME RaftLogInv, SyncCheckpoint
    PROVE  RaftLogInv'
  <1> USE DEF RaftLogInv
  <1>0. /\ status = "up" /\ stage = "sync_dir" /\ stableCheckpoint' = checkpoint /\ stage' = "cut"
        /\ UNCHANGED <<memory, journal, torn, stableJournal, checkpoint, record, status,
                       acked, tried, writes, crashes, faults>>
    BY DEF SyncCheckpoint
  <1>1. memory = tried /\ journal = stableJournal /\ Recovers(journal, tried) /\ checkpoint = tried
    BY <1>0 DEF WriteSound
  <1>2. RaftLogTypeOK'
    BY <1>0 DEF RaftLogTypeOK, Stages
  <1>3. Recovers(journal, tried)' /\ journal' = stableJournal'
    BY <1>0, <1>1 DEF Recovers
  <1>4. FilesSound' /\ WriteSound'
    BY <1>0, <1>1, <1>3 DEF FilesSound, WriteSound
  <1>5. NoHoles(acked)' /\ NoHoles(tried)'
    BY <1>0 DEF NoHoles, EndsAt
  <1> QED
    BY <1>2, <1>4, <1>5

(* The journal is cut: the checkpoint alone is the log. *)
LEMMA CutJournalInv ==
    ASSUME RaftLogInv, CutJournal
    PROVE  RaftLogInv'
  <1> USE DEF RaftLogInv
  <1>0. /\ status = "up" /\ stage = "cut" /\ journal' = <<>> /\ stage' = "sync_cut"
        /\ UNCHANGED <<memory, torn, stableJournal, checkpoint, stableCheckpoint, record,
                       status, acked, tried, writes, crashes, faults>>
    BY DEF CutJournal
  <1>1. /\ memory = tried /\ Recovers(stableJournal, tried)
        /\ checkpoint = tried /\ stableCheckpoint = tried
    BY <1>0 DEF WriteSound
  <1>2. RaftLogTypeOK'
    BY <1>0 DEF RaftLogTypeOK, Stages
  <1>3. Recovers(journal, tried)' /\ Recovers(stableJournal, tried)'
    <2>1. Base(tried) = tried
      BY BaseIsLog DEF RaftLogTypeOK
    <2> QED
      BY <1>0, <1>1, <2>1, ReplayedNothing DEF Recovers
  <1>4. Len(journal') <= Len(stableJournal') + 1
    BY <1>0 DEF RaftLogTypeOK
  <1>5. FilesSound' /\ WriteSound'
    BY <1>0, <1>1, <1>3, <1>4 DEF FilesSound, WriteSound
  <1>6. NoHoles(acked)' /\ NoHoles(tried)'
    BY <1>0 DEF NoHoles, EndsAt
  <1> QED
    BY <1>2, <1>5, <1>6

(* The purge is complete. *)
LEMMA SyncCutInv ==
    ASSUME RaftLogInv, SyncCut
    PROVE  RaftLogInv'
  <1> USE DEF RaftLogInv
  <1>0. /\ status = "up" /\ stage = "sync_cut" /\ stableJournal' = <<>> /\ stage' = "idle"
        /\ acked' = tried
        /\ UNCHANGED <<memory, journal, torn, checkpoint, stableCheckpoint, record, status,
                       tried, writes, crashes, faults>>
    BY DEF SyncCut
  <1>1. /\ memory = tried /\ journal = <<>>
        /\ checkpoint = tried /\ stableCheckpoint = tried
    BY <1>0 DEF WriteSound
  <1>2. RaftLogTypeOK'
    BY <1>0 DEF RaftLogTypeOK, Stages
  <1>3. Recovers(journal, acked)' /\ journal' = stableJournal' /\ Len(journal') = 0
    <2>1. Base(tried) = tried
      BY BaseIsLog DEF RaftLogTypeOK
    <2> QED
      BY <1>0, <1>1, <2>1, ReplayedNothing DEF Recovers
  <1>4. FilesSound' /\ WriteSound'
    BY <1>0, <1>1, <1>3 DEF FilesSound, WriteSound
  <1>5. NoHoles(acked)' /\ NoHoles(tried)'
    BY <1>0 DEF NoHoles, EndsAt
  <1> QED
    BY <1>2, <1>4, <1>5

(* A step of the purge fails. *)
LEMMA FailPurgeInv ==
    ASSUME RaftLogInv, FailPurge
    PROVE  RaftLogInv'
  <1> USE DEF RaftLogInv
  <1>0. /\ status' = "failed" /\ stage' = "idle" /\ faults < MaxFaults /\ faults' = faults + 1
        /\ UNCHANGED <<memory, journal, torn, stableJournal, checkpoint, stableCheckpoint,
                       record, acked, tried, writes, crashes>>
    BY DEF FailPurge
  <1>1. faults' \in 0 .. MaxFaults
    BY <1>0, RaftLogBounds DEF RaftLogTypeOK
  <1>2. RaftLogTypeOK'
    BY <1>0, <1>1 DEF RaftLogTypeOK, Stages
  <1>3. FilesSound' /\ WriteSound'
    BY <1>0 DEF FilesSound, WriteSound, Recovers
  <1>4. NoHoles(acked)' /\ NoHoles(tried)'
    BY <1>0, ZenonT(60) DEF NoHoles, EndsAt
  <1> QED
    BY <1>2, <1>3, <1>4

(* A journal as a write under way may have left it leads to one of the two logs. *)
LEMMA WrittenRecovers ==
    ASSUME RaftLogInv, NEW left \in Written
    PROVE  /\ left.journal \in Seq(JournalRecord) /\ left.torn \in BOOLEAN
           /\ Recovers(left.journal, acked) \/ Recovers(left.journal, tried)
           /\ Len(left.journal) <= Len(stableJournal) + 1
  <1> USE DEF RaftLogInv
  <1>0. /\ journal \in Seq(JournalRecord) /\ Len(journal) \in Nat /\ record \in JournalRecord
        /\ torn \in BOOLEAN
    BY DEF RaftLogTypeOK
  <1>1. CASE left = [journal |-> journal, torn |-> torn]
    BY <1>0, <1>1 DEF FilesSound
  <1>2. CASE stage = "write" /\ left \in Leftovers /\ status = "up"
    <2>1. tried = Apply(acked, record) /\ Recovers(journal, acked) /\ journal = stableJournal
      BY <1>2 DEF WriteSound
    <2>2. Recovers(Append(journal, record), tried)
      BY <1>0, <2>1, RecoversAppend
    <2>3. left.journal \in {journal, Append(journal, record)} /\ left.torn \in BOOLEAN
      BY <1>2, LeftoversAre
    <2>4. /\ Append(journal, record) \in Seq(JournalRecord)
          /\ Len(Append(journal, record)) = Len(journal) + 1
      BY <1>0
    <2>5. CASE left.journal = journal
      BY <1>0, <2>1, <2>3, <2>5
    <2>6. CASE left.journal = Append(journal, record)
      <3>1. Len(left.journal) <= Len(stableJournal) + 1
        BY <1>0, <2>1, <2>4, <2>6
      <3> QED
        BY <2>2, <2>3, <2>4, <2>6, <3>1, ZenonT(20)
    <2> QED
      BY <2>3, <2>5, <2>6
  <1>3. stage = "write" => status = "up"
    BY DEF WriteSound
  <1> QED
    BY <1>1, <1>2, <1>3 DEF Written

(* The process ends. *)
LEMMA CrashInv ==
    ASSUME RaftLogInv, Crash
    PROVE  RaftLogInv'
  <1> USE DEF RaftLogInv
  <1>0. /\ status' = "down" /\ stage' = "idle" /\ memory' = NewLog /\ crashes < MaxCrashes
        /\ crashes' = crashes + 1
        /\ UNCHANGED <<record, acked, tried, writes, faults, stableJournal, checkpoint,
                       stableCheckpoint>>
    BY DEF Crash, LoseMemory
  <1>1. PICK left \in Written : journal' = left.journal /\ torn' = left.torn
    BY DEF Crash
  <1>2. /\ journal' \in Seq(JournalRecord) /\ torn' \in BOOLEAN
        /\ Recovers(journal', acked) \/ Recovers(journal', tried)
        /\ Len(journal') <= Len(stableJournal) + 1
    BY <1>1, WrittenRecovers, ZenonT(20)
  <1>3. RaftLogTypeOK'
    <2>1. crashes' \in 0 .. MaxCrashes /\ memory' \in JournalState
      BY <1>0, BaseIsLog, RaftLogBounds DEF RaftLogTypeOK
    <2> QED
      BY <1>0, <1>2, <2>1 DEF RaftLogTypeOK, Stages
  <1>4. FilesSound' /\ WriteSound'
    BY <1>0, <1>2, ZenonT(60) DEF FilesSound, WriteSound, Recovers
  <1>5. NoHoles(acked)' /\ NoHoles(tried)'
    BY <1>0, ZenonT(60) DEF NoHoles, EndsAt
  <1> QED
    BY <1>3, <1>4, <1>5

(* The machine stops: the journal that is left is the stable one or the whole one. *)
LEMMA PowerLossInv ==
    ASSUME RaftLogInv, PowerLoss
    PROVE  RaftLogInv'
  <1> USE DEF RaftLogInv
  <1>0. /\ status' = "down" /\ stage' = "idle" /\ memory' = NewLog /\ crashes < MaxCrashes
        /\ crashes' = crashes + 1 /\ stableJournal' = journal'
        /\ checkpoint' \in {checkpoint, stableCheckpoint} /\ stableCheckpoint' = checkpoint'
        /\ UNCHANGED <<record, acked, tried, writes, faults>>
    BY DEF PowerLoss, LoseMemory
  <1>1. PICK left \in Written :
          /\ \/ /\ stableJournal = SubSeq(left.journal, 1, Len(stableJournal))
                /\ \E n \in Len(stableJournal) .. Len(left.journal) :
                     journal' = SubSeq(left.journal, 1, n)
             \/ journal' \in {stableJournal, left.journal}
          /\ torn' \in {FALSE, left.torn \/ Len(journal') < Len(left.journal)}
    BY ZenonT(20) DEF PowerLoss
  <1>2. /\ left.journal \in Seq(JournalRecord) /\ left.torn \in BOOLEAN
        /\ Recovers(left.journal, acked) \/ Recovers(left.journal, tried)
        /\ Len(left.journal) <= Len(stableJournal) + 1
    BY WrittenRecovers, ZenonT(20)
  <1>3. stableJournal \in Seq(JournalRecord) /\ Len(stableJournal) \in Nat
        /\ Len(left.journal) \in Nat
    BY <1>2 DEF RaftLogTypeOK
  <1>4. journal' \in {stableJournal, left.journal}
    <2> SUFFICES ASSUME stableJournal = SubSeq(left.journal, 1, Len(stableJournal)),
                        NEW n \in Len(stableJournal) .. Len(left.journal),
                        journal' = SubSeq(left.journal, 1, n)
                 PROVE  journal' \in {stableJournal, left.journal}
      BY <1>1
    <2>0. \A a, b \in Nat : b <= a + 1 => \A k \in a .. b : k = a \/ k = b
      OBVIOUS
    <2>1. n = Len(stableJournal) \/ n = Len(left.journal)
      BY <1>2, <1>3, <2>0, ZenonT(20)
    <2>2. SubSeq(left.journal, 1, Len(left.journal)) = left.journal
      BY <1>2
    <2> QED
      BY <2>1, <2>2, ZenonT(20)
  <1>5. /\ journal' \in Seq(JournalRecord) /\ Len(journal') \in Nat
        /\ Recovers(journal', acked) \/ Recovers(journal', tried)
    BY <1>2, <1>3, <1>4 DEF FilesSound
  <1>6. RaftLogTypeOK'
    <2>1. crashes' \in 0 .. MaxCrashes /\ memory' \in JournalState
      BY <1>0, BaseIsLog, RaftLogBounds DEF RaftLogTypeOK
    <2>2. torn' \in BOOLEAN
      BY <1>1, <1>2, ZenonT(20)
    <2> QED
      BY <1>0, <1>5, <2>1, <2>2 DEF RaftLogTypeOK, Stages
  <1>7. FilesSound'
    BY <1>0, <1>5 DEF FilesSound, Recovers
  <1>8. WriteSound' /\ NoHoles(acked)' /\ NoHoles(tried)'
    BY <1>0, ZenonT(60) DEF WriteSound, NoHoles, EndsAt
  <1> QED
    BY <1>6, <1>7, <1>8

(* open returns the acknowledged log or the tried one. *)
LEMMA OpenRecovers ==
    ASSUME RaftLogInv, Open
    PROVE  memory' \in {acked, tried} /\ Recovers(journal, memory')
  BY DEF Open, RecoverJournal, ReadCheckpoint, RaftLogInv, FilesSound, Recovers, Base

LEMMA OpenInv ==
    ASSUME RaftLogInv, Open
    PROVE  RaftLogInv'
  <1> USE DEF RaftLogInv
  <1>0. /\ torn' = FALSE /\ stableJournal' = journal /\ status' = "up"
        /\ acked' = memory' /\ tried' = memory'
        /\ UNCHANGED <<journal, checkpoint, stableCheckpoint, record, stage, writes, crashes,
                       faults>>
    BY DEF Open
  <1>1. memory' \in {acked, tried} /\ Recovers(journal, memory')
    BY OpenRecovers
  <1>2. stage = "idle"
    BY DEF Open, WriteSound
  <1>3. RaftLogTypeOK'
    BY <1>0, <1>1, ZenonT(20) DEF RaftLogTypeOK
  <1>4. Recovers(journal, acked)' /\ journal' = stableJournal' /\ Len(journal') \in Nat
    BY <1>0, <1>1, <1>3 DEF Recovers, RaftLogTypeOK
  <1>5. FilesSound' /\ WriteSound'
    BY <1>0, <1>2, <1>4 DEF FilesSound, WriteSound
  <1>6. NoHoles(acked)' /\ NoHoles(tried)'
    BY <1>0, <1>1, ZenonT(60) DEF NoHoles, EndsAt
  <1> QED
    BY <1>3, <1>5, <1>6

(* Every step keeps the invariant. *)
LEMMA RaftLogNextInv ==
    ASSUME RaftLogInv, [Next]_vars
    PROVE  RaftLogInv'
  <1>1. CASE UNCHANGED vars
    BY <1>1, ZenonT(60) DEF vars, RaftLogInv, RaftLogTypeOK, FilesSound, WriteSound, Recovers, NoHoles, EndsAt
  <1>2. CASE \E r \in JournalRecord : BeginWrite(r)
    BY <1>2, BeginWriteInv
  <1> QED
    BY <1>1, <1>2, SyncRecordInv, FailWriteInv, RenameCheckpointInv, SyncCheckpointInv,
       CutJournalInv, SyncCutInv, FailPurgeInv, CrashInv, PowerLossInv, OpenInv DEF Next

(* The inductive invariant: whatever stops the node, journal and checkpoint, the old one or *)
(* the new one, hold the acknowledged log or the one being written.                         *)
THEOREM RaftLogInvariant == Spec => []RaftLogInv
  BY RaftLogInitInv, RaftLogNextInv, PTL DEF Spec

(* Every field of DurableRaftLog keeps its type, the recovered ones included. *)
THEOREM RaftLogTypes == Spec => []RaftLogTypeOK
  <1>1. RaftLogInv => RaftLogTypeOK
    BY DEF RaftLogInv
  <1> QED
    BY <1>1, RaftLogInvariant, PTL

(* What OpenRaft reads through try_get_log_entries and get_log_state has no holes, before *)
(* and after any number of crashes, power losses and failed purges.                       *)
THEOREM RaftLogReadable == Spec => []LogReadable
  <1>1. ASSUME RaftLogInv, status = "up" PROVE NoHoles(memory) /\ memory \in JournalState
    <2>1. memory \in {acked, tried}
      BY <1>1 DEF RaftLogInv, WriteSound, RaftLogTypeOK, Stages
    <2> QED
      BY <1>1, <2>1 DEF RaftLogInv, RaftLogTypeOK
  <1>2. ASSUME RaftLogInv PROVE LogReadable
    <2> SUFFICES ASSUME status = "up"
                 PROVE  /\ LogEntries(memory, Indexes) = memory.purged + 1 .. LastIndex(memory)
                        /\ memory.committed <= LastIndex(memory)
      BY DEF LogReadable
    <2>1. PICK last \in 0 .. MaxIndex : EndsAt(memory, last)
      BY <1>1, <1>2 DEF NoHoles
    <2>2. LastIndex(memory) = last
      BY <1>1, <1>2, <2>1, LastIndexIs
    <2>3. memory.purged \in Nat /\ last \in Nat /\ last <= MaxIndex /\ MaxIndex \in Nat
      BY <1>1, <1>2, RaftLogBounds DEF JournalState
    <2>4. \A i : i \in LogEntries(memory, Indexes) <=> i \in memory.purged + 1 .. last
      BY <2>1, <2>3 DEF LogEntries, EndsAt, Indexes
    <2> QED
      BY <2>1, <2>2, <2>4, ZenonT(20) DEF EndsAt
  <1> QED
    BY <1>2, RaftLogInvariant, PTL

(* Each step of DurableRaftLog is a step of the promised log or invisible in it. *)
LEMMA RaftLogStep ==
    ASSUME RaftLogInv, [Next]_vars
    PROVE  [Store!Next]_(Store!vars)
  <1> USE DEF RaftLogInv
  <1>1. CASE UNCHANGED vars
    BY <1>1 DEF vars, Store!vars
  <1>2. ASSUME NEW r \in JournalRecord, BeginWrite(r) PROVE Store!Try
    <2>1. memory = acked /\ tried = acked
      BY <1>2 DEF BeginWrite, WriteSound
    <2> QED
      BY <1>2, <2>1 DEF BeginWrite, Store!Try, OneRecord
  <1>3. CASE SyncRecord
    BY <1>3 DEF SyncRecord, Store!Acknowledge, Store!Next, Store!vars
  <1>4. CASE FailWrite
    BY <1>4 DEF FailWrite, Store!Stop, Store!Next
  <1>5. CASE RenameCheckpoint \/ SyncCheckpoint \/ CutJournal
    BY <1>5 DEF RenameCheckpoint, SyncCheckpoint, CutJournal, Store!vars
  <1>6. CASE SyncCut
    BY <1>6 DEF SyncCut, Store!Acknowledge, Store!Next
  <1>7. CASE FailPurge
    BY <1>7 DEF FailPurge, Store!Stop, Store!Next
  <1>8. CASE Crash \/ PowerLoss
    BY <1>8, ZenonT(20) DEF Crash, PowerLoss, LoseMemory, Store!Stop, Store!Next
  <1>9. CASE Open
    <2>1. memory' \in {acked, tried}
      BY <1>9, OpenRecovers
    <2> QED
      BY <1>9, <2>1 DEF Open, Store!Restart, Store!Next
  <1> QED
    BY <1>1, <1>2, <1>3, <1>4, <1>5, <1>6, <1>7, <1>8, <1>9 DEF Next, Store!Next

(* DurableRaftLog implements the log OpenRaft is promised: writes take effect one at a time,   *)
(* an acknowledged vote or entry is never lost, and a write that failed or was cut off by a    *)
(* crash or a power loss has happened entirely or not at all when the node is back.            *)
THEOREM RaftLogIsStore == Spec => IsRaftLogStore
  <1>1. Init => Store!Init
    BY DEF Init, Store!Init
  <1>2. RaftLogInv /\ [Next]_vars => [Store!Next]_(Store!vars)
    BY RaftLogStep
  <1> QED
    BY <1>1, <1>2, RaftLogInvariant, PTL DEF Spec, IsRaftLogStore, Store!Spec
================================================================================
