------------------------------- MODULE Admission -------------------------------
(***************************************************************************)
(* How the HTTP server (server.rs) and the local IPC server (local.rs)     *)
(* admit requests: checks, a permit of a semaphore, a blocking job that    *)
(* owns the permit, the answer and the counters.  Clients give up at any   *)
(* time; the server is asked to shut down.  A request is here once it has  *)
(* been received whole: a client that stalls while it sends is left out.   *)
(***************************************************************************)
EXTENDS Naturals, FiniteSets

CONSTANTS
    Calls,                     \* requests, one per connection
    max_concurrent_operations

ASSUME AdmissionConstants == max_concurrent_operations \in Nat \ {0} /\ IsFiniteSet(Calls)

VARIABLES
    transport,  \* "http" or "local"
    serving,    \* FALSE once shutdown was asked for
    exited,     \* has the process ended?
    conn,       \* the state of each call
    permits,    \* free permits of the admission semaphore
    applied,    \* calls whose storage operation took effect
    counted     \* calls in the counters of completed operations (HTTP only)

admission == <<transport, serving, exited, conn, permits, applied, counted>>

(* A call: is it free (health, readiness, metrics, Hello), who sent it, is it within the *)
(* limits, has its client given up?                                                      *)
NewCall == [st |-> "idle", free |-> FALSE, authorized |-> TRUE, valid |-> TRUE, gone |-> FALSE]

AdmissionInit ==
    /\ transport \in {"http", "local"}
    /\ serving = TRUE /\ exited = FALSE
    /\ conn = [c \in Calls |-> NewCall]
    /\ permits = max_concurrent_operations
    /\ applied = {} /\ counted = {}

InJob(c) == conn[c].st = "job"

Arrive(c, free, authorized, valid) ==
    /\ serving /\ conn[c].st = "idle"
    /\ conn' = [conn EXCEPT ![c] = [NewCall EXCEPT !.st = "arrived", !.free = free,
                                      !.authorized = authorized, !.valid = valid]]
    /\ UNCHANGED <<transport, serving, exited, permits, applied, counted>>

(* The checks before a permit is asked for: token and limits; or, locally, only the peer. *)
Refused(c) ==
    LET r == conn[c] IN
    \/ transport = "http" /\ ~r.free /\ ~(r.authorized /\ r.valid)
    \/ transport = "local" /\ ~r.authorized

(* A local request may also be refused because it is too long or not of this protocol. *)
Unreadable(c) == transport = "local" /\ ~conn[c].valid

(* A handler up to its blocking job: an answer without storage, a refusal, a refusal for  *)
(* want of a permit, or a job that takes the permit with it.                              *)
Handle(c) ==
    /\ conn[c].st = "arrived" /\ ~conn[c].gone
    /\ \/ /\ Refused(c) \/ Unreadable(c)
          /\ conn' = [conn EXCEPT ![c].st = "refused"]
          /\ UNCHANGED permits
       \/ /\ ~Refused(c) /\ conn[c].free
          /\ conn' = [conn EXCEPT ![c].st = "ok"]
          /\ UNCHANGED permits
       \/ /\ ~Refused(c) /\ ~conn[c].free /\ permits = 0
          /\ conn' = [conn EXCEPT ![c].st = "refused"]
          /\ UNCHANGED permits
       \/ /\ ~Refused(c) /\ ~conn[c].free /\ permits > 0
          /\ conn' = [conn EXCEPT ![c].st = "job"]
          /\ permits' = permits - 1
    /\ UNCHANGED <<transport, serving, exited, applied, counted>>

\* Mutant: the limits are left to the storage operation.
NoLimits(c) == TRUE

(* dispatch_blocking checks the limits inside the job. *)
WithinLimits(c) == conn[c].valid

(* The job ends, with success, an error or a panic, and its permit is dropped with it.  An *)
(* error may come after the effect: a flush that fails late, or latest_sequence of a       *)
(* collection just created over IPC.                                                       *)
Work(c) ==
    /\ InJob(c)
    /\ permits' = permits + 1
    /\ \/ /\ WithinLimits(c)
          /\ \E st \in {"done", "failed"} : conn' = [conn EXCEPT ![c].st = st]
          /\ applied' = applied \union {c}
       \/ /\ conn' = [conn EXCEPT ![c].st = "failed"]
          /\ UNCHANGED applied
    /\ UNCHANGED <<transport, serving, exited, counted>>

(* The handler resumes: counters after a success, and the answer.  Over HTTP, a restore    *)
(* that is done may still fail here, at latest_sequence.                                   *)
Respond(c) ==
    /\ conn[c].st \in {"done", "failed"} /\ ~conn[c].gone
    /\ \/ /\ conn[c].st = "done"
          /\ conn' = [conn EXCEPT ![c].st = "ok"]
          /\ counted' = IF transport = "http" THEN counted \union {c} ELSE counted
       \/ /\ conn[c].st = "failed" \/ transport = "http"
          /\ conn' = [conn EXCEPT ![c].st = "error"]
          /\ UNCHANGED counted
    /\ UNCHANGED <<transport, serving, exited, permits, applied>>

\* Mutant: the permit belongs to the handler, which is dropped with the connection.
DropPermit(c) ==
    /\ conn[c].st \in {"arrived", "job", "done", "failed"} /\ ~conn[c].gone
    /\ conn' = [conn EXCEPT ![c].gone = TRUE]
    /\ permits' = IF InJob(c) THEN permits + 1 ELSE permits
    /\ UNCHANGED <<transport, serving, exited, applied, counted>>

(* The client times out or disconnects, or the 30 seconds the HTTPS server grants its      *)
(* connections at shutdown are over: nobody waits for the job, which goes on.              *)
GiveUp(c) ==
    /\ conn[c].st \in {"arrived", "job", "done", "failed"} /\ ~conn[c].gone
    /\ conn' = [conn EXCEPT ![c].gone = TRUE]
    /\ UNCHANGED <<transport, serving, exited, permits, applied, counted>>

(* Ctrl-C: HTTP drains its connections; the local server drops its handlers. *)
Shutdown ==
    /\ serving
    /\ serving' = FALSE
    /\ conn' = [c \in Calls |-> IF transport = "local" THEN [conn[c] EXCEPT !.gone = TRUE] ELSE conn[c]]
    /\ UNCHANGED <<transport, exited, permits, applied, counted>>

\* Mutant: the answers to clients that have gone are waited for.
ExitWhenAnswered ==
    /\ ~serving /\ ~exited
    /\ \A c \in Calls : conn[c].st \notin {"arrived", "job", "done", "failed"}
    /\ exited' = TRUE
    /\ UNCHANGED <<transport, serving, conn, permits, applied, counted>>

(* The process ends when no handler is left and every blocking job has returned. *)
Exit ==
    /\ ~serving /\ ~exited
    /\ \A c \in Calls :
         /\ ~InJob(c)
         /\ conn[c].st \in {"arrived", "done", "failed"} => conn[c].gone
    /\ exited' = TRUE
    /\ UNCHANGED <<transport, serving, conn, permits, applied, counted>>

AdmissionNext ==
    \/ \E c \in Calls :
         \/ \E free, authorized, valid \in BOOLEAN : Arrive(c, free, authorized, valid)
         \/ Handle(c) \/ Work(c) \/ Respond(c) \/ GiveUp(c)
    \/ Shutdown
    \/ Exit

AdmissionSpec == AdmissionInit /\ [][AdmissionNext]_admission

(* Handlers and jobs are scheduled; storage operations return. *)
AdmissionFairness ==
    /\ \A c \in Calls : WF_admission(Handle(c) \/ Work(c) \/ Respond(c))
    /\ WF_admission(Exit)

--------------------------------------------------------------------------------
(* At most max_concurrent_operations storage operations run at a time and no permit is    *)
(* lost or given back twice, also when clients give up while their operation runs.        *)
PermitsConserved == permits + Cardinality({c \in Calls : InJob(c)}) = max_concurrent_operations

(* Answers tell the truth: success means that the operation took effect, a refusal that   *)
(* it did not, an error leaves it open; nothing unauthorized or beyond the limits takes   *)
(* effect; the counters do not run ahead of storage.                                      *)
AnswersTrue ==
    /\ \A c \in Calls :
         /\ conn[c].st = "ok" /\ ~conn[c].free => c \in applied
         /\ conn[c].st = "refused" => c \notin applied
    /\ \A c \in applied : conn[c].authorized /\ conn[c].valid
    /\ counted \subseteq applied

(* The server recovers from overload and drains: again and again no operation is running, *)
(* and a server that was asked to shut down ends.  This is of requests received whole:    *)
(* plain HTTP sets no limit to the drain, and a client that stalls while it sends its     *)
(* request, or never closes a connection it keeps busy, could hold it up for ever.        *)
Drains == []<>(permits = max_concurrent_operations /\ (serving \/ exited))
================================================================================
