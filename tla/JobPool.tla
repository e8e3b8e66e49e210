------------------------------ MODULE JobPool -------------------------------
(***************************************************************************)
(* The jobs of the manager's API (internal/httpapi/server.go): a handler   *)
(* looks whether jobs are accepted, writes its record, and enqueues a job, *)
(* which works under the reconciler's mutex; Close refuses further jobs,   *)
(* cancels their context and waits for those under way.                    *)
(***************************************************************************)
EXTENDS Worker

CONSTANTS Requests

ASSUME JobAssumption == Requests \cap (Generations \cup {Free}) = {}

VARIABLES
    closed,     \* Handler.closed; the context is cancelled with it
    job,        \* where each request's handler or job is, "none" when over
    drained     \* Close has returned nil

jobVars == <<closed, job, drained>>

Handling == {"asked", "enqueue"}
Active == {"queued", "work"}

JobInit ==
    /\ closed = FALSE /\ drained = FALSE
    /\ job = [r \in Requests |-> "none"]

Moves(r, from, to) == job[r] = from /\ job' = [job EXCEPT ![r] = to]
PoolKeeps == UNCHANGED <<closed, drained, mutex>>

Request(r) == Moves(r, "none", "asked") /\ PoolKeeps

(* acceptingJobs, and the write of the record, which may fail; a retry has *)
(* nothing to write.                                                       *)
Accepts(r) ==
    /\ \/ ~closed /\ Moves(r, "asked", "enqueue")
       \/ Moves(r, "asked", "none")
    /\ PoolKeeps

(* Mutant: enqueue relies on the look at the start of the request. *)
MutantEnqueue(r) == Moves(r, "enqueue", "queued") /\ PoolKeeps

(* enqueue looks again: a record written meanwhile is left to the scan of  *)
(* the next start, and the request is refused all the same.                *)
Enqueue(r) ==
    /\ IF closed THEN Moves(r, "enqueue", "none") ELSE Moves(r, "enqueue", "queued")
    /\ PoolKeeps

(* ReconcileOne drops a job whose name is in flight. *)
JobDropped(r) == Moves(r, "queued", "none") /\ PoolKeeps

JobLocks(r) ==
    /\ mutex = Free /\ mutex' = r
    /\ Moves(r, "queued", "work") /\ UNCHANGED <<closed, drained>>

JobEnds(r) ==
    /\ mutex' = Free
    /\ Moves(r, "work", "none") /\ UNCHANGED <<closed, drained>>

HandlerGoes(r) == Accepts(r) \/ Enqueue(r)
JobGoes(r) == JobDropped(r) \/ JobLocks(r) \/ JobEnds(r)

(* Close under jobsMu; then its wait, which the deadline of the shutdown   *)
(* may cut short.                                                          *)
Close == closed' = TRUE /\ UNCHANGED <<job, drained, mutex>>

Drained ==
    /\ \A r \in Requests : job[r] \notin Active
    /\ drained' = TRUE /\ UNCHANGED <<closed, job, mutex>>

-----------------------------------------------------------------------------
JobsTyped ==
    /\ closed \in BOOLEAN /\ drained \in BOOLEAN
    /\ job \in [Requests -> {"none"} \cup Handling \cup Active]
=============================================================================
