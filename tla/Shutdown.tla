------------------------------ MODULE Shutdown ------------------------------
(***************************************************************************)
(* The manager's work from its start to the end of stopAll, without the    *)
(* child processes (cmd/manager/main.go; Process has those): main starts   *)
(* the worker and serves the API until it is interrupted, then shuts the   *)
(* HTTP server down, closes the API and stops the worker, in this order.   *)
(* Other callers may call Start and Stop as the reconciler's tests do.     *)
(***************************************************************************)
EXTENDS JobPool

CONSTANTS Main

ASSUME MainAssumption == Main \in Callers

VARIABLES
    main,       \* where run is
    late        \* the shutdown's deadline has passed

vars == <<workerVars, jobVars, main, late>>

Init ==
    /\ WorkerInit /\ JobInit
    /\ main = "start" /\ late = FALSE

OnlyWorker == UNCHANGED <<jobVars, main, late>>
OnlyJobs == UNCHANGED <<states, stopped, cancelled, call>>
MainTo(from, to) == main = from /\ main' = to

MainStarts ==
    /\ MainTo("start", "starting") /\ CallStart(Main)
    /\ UNCHANGED <<jobVars, late>>

MainServes ==
    /\ MainTo("starting", "serve") /\ call[Main] = Idle
    /\ UNCHANGED <<workerVars, jobVars, late>>

(* A signal, or a failure main answers by cancelling its context. *)
Interrupt ==
    /\ MainTo("serve", "http")
    /\ cancelled' = cancelled \cup {g \in Living : owner[g] = Main}
    /\ UNCHANGED <<states, stopped, mutex, call, jobVars, late>>

DeadlinePasses ==
    /\ main \notin {"start", "starting", "serve"} /\ ~late /\ late' = TRUE
    /\ UNCHANGED <<workerVars, jobVars, main>>

(* Mutant: the worker is stopped before the API's jobs are cancelled. *)
MutantHttpDown ==
    /\ late \/ \A r \in Requests : job[r] \notin Handling
    /\ MainTo("http", "stop")
    /\ UNCHANGED <<workerVars, jobVars, late>>

(* server.Shutdown waits for the handlers that run. *)
HttpDown ==
    /\ late \/ \A r \in Requests : job[r] \notin Handling
    /\ MainTo("http", "close")
    /\ UNCHANGED <<workerVars, jobVars, late>>

ApiCloses ==
    /\ MainTo("close", "drain") /\ Close
    /\ OnlyJobs /\ UNCHANGED late

ApiDrained ==
    /\ MainTo("drain", "stop") /\ Drained
    /\ OnlyJobs /\ UNCHANGED late

ApiLate ==
    /\ MainTo("drain", "stop") /\ late
    /\ UNCHANGED <<workerVars, jobVars, late>>

MainStops ==
    /\ MainTo("stop", "stopping") /\ CallStop(Main)
    /\ UNCHANGED <<jobVars, late>>

MainEnds ==
    /\ MainTo("stopping", "ended") /\ call[Main] = Idle
    /\ UNCHANGED <<workerVars, jobVars, late>>

MainGoes ==
    \/ MainStarts \/ MainServes \/ HttpDown \/ ApiCloses \/ ApiDrained \/ ApiLate
    \/ MainStops \/ MainEnds

OthersCall(c) == c # Main /\ main # "start" /\ (CallStart(c) \/ CallStop(c))

OthersCancel(g) == owner[g] # Main /\ Cancel(g)

Next ==
    \/ MainGoes \/ Interrupt \/ DeadlinePasses
    \/ \E c \in Callers : (CallGoes(c) \/ OthersCall(c)) /\ OnlyWorker
    \/ \E g \in Generations : (WorkerGoes(g) \/ OthersCancel(g)) /\ OnlyWorker
    \/ \E r \in Requests :
          \/ (HandlerGoes(r) \/ JobGoes(r)) /\ OnlyJobs /\ UNCHANGED <<main, late>>
          \/ main \in {"serve", "http"} /\ Request(r)
             /\ OnlyJobs /\ UNCHANGED <<main, late>>

Spec == Init /\ [][Next]_vars

(* Goroutines run, and a mutex that is free again and again is got.  A     *)
(* scan's list is finite and a select does not pass over a closed channel  *)
(* for ever.  Commands end for certain only when their context is          *)
(* cancelled: nothing else bounds a clone or a push.                       *)
SomeWorker(A(_)) == \E g \in Generations : A(g) /\ OnlyWorker
SomeJob(A(_)) == \E r \in Requests : A(r) /\ OnlyJobs /\ UNCHANGED <<main, late>>

WorkerTurns(g) == ScanNext(g) \/ ScanDone(g) \/ Tick(g) \/ Leave(g)
CutShort(g) == g \in cancelled /\ Unlock(g)
JobCutShort(r) == closed /\ JobEnds(r)

Fairness ==
    /\ WF_vars(MainGoes) /\ WF_vars(DeadlinePasses)
    /\ \A c \in Callers : WF_vars(CallGoes(c) /\ OnlyWorker)
    /\ WF_vars(SomeWorker(WorkerTurns)) /\ SF_vars(SomeWorker(ScanDone))
    /\ SF_vars(SomeWorker(Quit)) /\ SF_vars(SomeWorker(Lock))
    /\ WF_vars(SomeWorker(CutShort))
    /\ SF_vars(SomeJob(JobLocks)) /\ WF_vars(SomeJob(JobCutShort))

FairSpec == Spec /\ Fairness

-----------------------------------------------------------------------------
TypeOK ==
    /\ WorkerTyped /\ JobsTyped
    /\ mutex \in Generations \cup Requests \cup {Free}
    /\ main \in {"start", "starting", "serve", "http", "close", "drain", "stop",
                 "stopping", "ended"}
    /\ late \in BOOLEAN

(* lifecycle and generation name the one goroutine there is, however calls *)
(* and cancelled contexts cross, and a stop channel is not closed twice.   *)
OneGeneration ==
    /\ \A g \in Generations :
          g \in Living <=> generation = g /\ lifecycle # "stopped"
    /\ lifecycle = "running" => generation \notin stopped

(* A Stop that returns has waited for every worker that lived when it was  *)
(* called, also when another Stop closed the channel or a context did.     *)
StopMeansStopped ==
    [][\A c \in Callers : call[c] # Idle /\ call'[c] = Idle =>
          \A g \in call[c].found : worker[g] = "ended"]_vars

(* A Start that returns leaves a worker nobody has told to stop, also when *)
(* it was called while another one was stopping.                           *)
StartServes ==
    [][\A c \in Callers : call[c].at = "start" /\ call'[c] = Idle =>
          generation' \in Generations \ stopped' /\ worker'[generation'] \in Alive]_vars

(* When Close has returned nil no job is at work, nor will one be: neither *)
(* an older request that wrote its record nor a late one starts another.   *)
Quiet == drained => \A r \in Requests : job[r] \notin Active

(* A shutdown comes to its end although the worker's Stop has no deadline, *)
(* a job may hold the mutex and nothing bounds a command but its context;  *)
(* only a worker of somebody else's context can hold it up.                *)
ShutdownEnds ==
    main = "http" ~> main = "ended" \/ \E g \in Living : g \notin cancelled
=============================================================================
