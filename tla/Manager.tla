------------------------------ MODULE Manager ------------------------------
(***************************************************************************)
(* The manager process: the HTTP handlers that write sandbox records and   *)
(* enqueue jobs (internal/httpapi/server.go), the goroutines that run      *)
(* ReconcileOne and Retry, the periodic scan, crashes and restarts         *)
(* (internal/reconcile/reconciler.go, cmd/manager/main.go), and the        *)
(* operator of the Cloud Foundry space.                                    *)
(***************************************************************************)
EXTENDS Reconciler

CONSTANTS
    Jobs,       \* goroutines the HTTP handlers may have running at once
    Scanner     \* the goroutine Start launches

Callers == Jobs \cup {Scanner}

ASSUME CallerAssumption == Scanner \notin Jobs

VARIABLES
    pc,     \* pc[c]: where caller c is in Retry or ReconcileOne
    who,    \* who[c]: the sandbox it was called for
    todo    \* names the current scan has still to visit

callVars == <<pc, who, todo>>
vars == <<calm, diskVars, worldVars, enroll, localVars, callVars>>

ManagerTypeOK ==
    /\ pc \in [Callers -> {"idle", "retryGet", "retryPut", "enter", "wait",
                           "run", "leave"}]
    /\ who \in [Callers -> Names \cup {NoName}]
    /\ todo \subseteq Names

TypeOK ==
    /\ calm \in BOOLEAN
    /\ StoreTypeOK /\ CFTypeOK /\ PackTypeOK /\ WorkTypeOK
    /\ WorkerTypeOK /\ ManagerTypeOK

Init ==
    /\ CalmInit /\ StoreInit /\ CFInit /\ PackInit /\ WorkInit /\ WorkerInit
    /\ pc = [c \in Callers |-> "idle"]
    /\ who = [c \in Callers |-> NoName]
    /\ todo = {}

-----------------------------------------------------------------------------
(* The handlers.  Each one that succeeds enqueues a job; a write that      *)
(* returns an error answers 500 (or 409) and enqueues none.                *)
Call(c, n, at) ==
    /\ pc' = [pc EXCEPT ![c] = at]
    /\ who' = [who EXCEPT ![c] = n]

Return(c) == Call(c, NoName, "idle")

Enqueue(j, n, at, ok) ==
    /\ IF ok THEN Call(j, n, at) ELSE UNCHANGED <<pc, who>>
    /\ UNCHANGED <<calm, bits, installed, worldVars, enroll, localVars, todo>>

PostSandbox(n, j) ==
    /\ pc[j] = "idle"
    /\ \E ok \in BOOLEAN : CreateRecord(n, ok) /\ Enqueue(j, n, "enter", ok)

DeleteSandbox(n, j) ==
    /\ pc[j] = "idle" /\ Exists(n)
    /\ \E ok \in BOOLEAN :
        /\ UpdateRecord(n, [store[n] EXCEPT !.desired = "deleted",
                                            !.phase = "deleting"], ok)
        /\ Enqueue(j, n, "enter", ok)

PostRetry(n, j) ==
    /\ pc[j] = "idle" /\ Exists(n)
    /\ store' = store
    /\ Enqueue(j, n, "retryGet", TRUE)

Request == \E n \in Names, j \in Jobs :
    PostSandbox(n, j) \/ DeleteSandbox(n, j) \/ PostRetry(n, j)

-----------------------------------------------------------------------------
(* Mutant: any sandbox is retried, failed or not. *)
MutantRetryGet(c) ==
    /\ pc[c] = "retryGet"
    /\ IF ~Exists(who[c]) THEN Return(c) ELSE Call(c, who[c], "retryPut")
    /\ UNCHANGED <<calm, diskVars, worldVars, enroll, localVars, todo>>

(* Retry: a read and an update, with nothing held in between. *)
RetryGet(c) ==
    /\ pc[c] = "retryGet"
    /\ IF ~Exists(who[c]) THEN Return(c)
       ELSE IF store[who[c]].phase = "failed" THEN Call(c, who[c], "retryPut")
       ELSE Call(c, who[c], "enter")
    /\ UNCHANGED <<calm, diskVars, worldVars, enroll, localVars, todo>>

RetryPut(c) ==
    /\ pc[c] = "retryPut"
    /\ \E ok \in BOOLEAN :
        /\ UpdateRecord(who[c],
               [store[who[c]] EXCEPT !.phase = store[who[c]].resumePhase,
                                     !.resumePhase = ""], ok)
        /\ IF ok THEN Call(c, who[c], "enter") ELSE Return(c)
    /\ UNCHANGED <<calm, bits, installed, worldVars, enroll, localVars, todo>>

(* ReconcileOne: a name already in flight is dropped, not queued; then the *)
(* worker mutex; the mutex is released before the in-flight mark.          *)
InFlight(n) == \E c \in Callers : who[c] = n /\ pc[c] \in {"wait", "run", "leave"}

Enter(c) ==
    /\ pc[c] = "enter"
    /\ IF InFlight(who[c]) THEN Return(c) ELSE Call(c, who[c], "wait")
    /\ UNCHANGED <<calm, diskVars, worldVars, enroll, localVars, todo>>

Acquire(c) ==
    /\ pc[c] = "wait"
    /\ \A d \in Callers : pc[d] # "run"
    /\ Call(c, who[c], "run")
    /\ Dispatch(who[c])
    /\ UNCHANGED <<calm, diskVars, worldVars, enroll, prepared, recovery, todo>>

Release(c) ==
    /\ pc[c] = "run" /\ At("done")
    /\ Call(c, who[c], "leave")
    /\ run' = Idle
    /\ UNCHANGED <<calm, diskVars, worldVars, enroll, prepared, recovery, todo>>

Leave(c) ==
    /\ pc[c] = "leave"
    /\ Return(c)
    /\ UNCHANGED <<calm, diskVars, worldVars, enroll, localVars, todo>>

Work ==
    /\ WorkerStep
    /\ UNCHANGED <<calm, callVars>>

(* Mutants: the scan resumes deletions only; or visits one name a round. *)
MutantScan ==
    /\ pc[Scanner] = "idle" /\ todo = {}
    /\ todo' = {n \in Names : Exists(n) /\ store[n].desired = "deleted"}
    /\ UNCHANGED <<calm, diskVars, worldVars, enroll, localVars, pc, who>>

MutantScanNext ==
    /\ pc[Scanner] = "idle"
    /\ \E n \in todo : Call(Scanner, n, "enter") /\ todo' = {}
    /\ UNCHANGED <<calm, diskVars, worldVars, enroll, localVars>>

(* scan: the names listed when it begins, one after the other. *)
Scan ==
    /\ pc[Scanner] = "idle" /\ todo = {}
    /\ todo' = {n \in Names : Exists(n)}
    /\ UNCHANGED <<calm, diskVars, worldVars, enroll, localVars, pc, who>>

ScanNext ==
    /\ pc[Scanner] = "idle"
    /\ \E n \in todo : Call(Scanner, n, "enter") /\ todo' = todo \ {n}
    /\ UNCHANGED <<calm, diskVars, worldVars, enroll, localVars>>

CallerStep(c) ==
    RetryGet(c) \/ RetryPut(c) \/ Enter(c) \/ Acquire(c) \/ Release(c) \/ Leave(c)

-----------------------------------------------------------------------------
(* The process dies and is started again: only the store, the work         *)
(* directories and the world outside survive.                              *)
Crash ==
    /\ Fault("crash")
    /\ run' = Idle
    /\ prepared' = [n \in Names |-> FALSE]
    /\ recovery' = [n \in Names |-> ""]
    /\ enroll' = [n \in Names |-> "none"]
    /\ pc' = [c \in Callers |-> "idle"]
    /\ who' = [c \in Callers |-> NoName]
    /\ todo' = {}
    /\ UNCHANGED <<calm, diskVars, worldVars>>

(* The operator pushes an app under a sandbox's name only while the        *)
(* manager is not working on it: README.md concedes the race between       *)
(* separate commands and assumes a single trusted operator.                *)
MayIntrude(n) ==
    /\ Cur # n
    /\ \/ Fault("pushApp") /\ (Exists(n) => store[n].appGUID # NoGuid)
       \/ Fault("pushUnclaimed")

Outside ==
    /\ \/ Settle /\ UNCHANGED <<worldVars, enroll>>
       \/ /\ calm' = calm
          /\ \E n \in Names :
                \/ InviteExpires(n) /\ UNCHANGED cfVars
                \/ JoinLands(n) /\ UNCHANGED cfVars
                \/ /\ Fault("deleteApp") /\ OperatorDeletes(n)
                   /\ UNCHANGED packVars
                \/ /\ MayIntrude(n) /\ OperatorPushes(n, FreshGuids)
                   /\ UNCHANGED packVars
    /\ UNCHANGED <<diskVars, localVars, callVars>>

Next ==
    \/ Request
    \/ \E c \in Callers : CallerStep(c)
    \/ Scan \/ ScanNext
    \/ Work
    \/ Crash
    \/ Outside

Spec == Init /\ [][Next]_vars

(* Go runs every goroutine that can run and hands the mutex over in turn,  *)
(* the ticker keeps the scan going, and faults end.                        *)
Fairness ==
    /\ WF_vars(Work)
    /\ WF_vars(Scan) /\ WF_vars(ScanNext)
    /\ \A c \in Callers :
        /\ WF_vars(RetryGet(c)) /\ WF_vars(RetryPut(c))
        /\ WF_vars(Enter(c)) /\ WF_vars(Release(c)) /\ WF_vars(Leave(c))
        /\ SF_vars(Acquire(c))
    /\ WF_vars(Settle /\ Outside)

FairSpec == Spec /\ Fairness

-----------------------------------------------------------------------------
(* Properties.  The phase a sandbox is in, or would be resumed in. *)
EffectivePhase(n) ==
    IF store[n].phase = "failed" THEN store[n].resumePhase ELSE store[n].phase

(* A sandbox whose record is gone has left nothing behind: no Pack member, *)
(* no identity route, no app of the manager's and no work directory; and   *)
(* every policy on the manager's own route belongs to a recorded app.      *)
(* reconcileDelete removes the record last, after every other cleanup.     *)
NoLeak ==
    /\ \A n \in Names :
        ~Exists(n) =>
            ~MemberPresent(n) /\ route[n] = {} /\ ~Owns(n) /\ bits[n] = "none"
    /\ \A g \in leadPolicy : \E n \in Names : Exists(n) /\ store[n].appGUID = g

(* The manager asks a sandbox to join only once the app it recorded is     *)
(* running and its identity route and both policies are in place, whatever *)
(* failed, expired, was retried or was resumed before: the phases up to    *)
(* waiting-for-route of reconcileCreate.  A push on the way back through   *)
(* staging takes the app off a route that was secured before.              *)
EnrollWhenUsable ==
    At("trigger") =>
        /\ Answers(Cur) /\ HasGuid(Cur, store[Cur].appGUID)
        /\ app[Cur].guid \in leadPolicy

(* The bits pushed are a finished clone with the runtime on it and carry   *)
(* the invite prepared last; ensurePrepared and ensureEnrollment decide    *)
(* that from maps a restart empties and a disk it does not.                *)
PushComplete ==
    Creating("push") => bits[Cur] = "complete" /\ installed[Cur]

(* From staging on, the app carries the invite prepared last, although     *)
(* invites expire and are replaced: needsEnrollment and recoveryPhase send *)
(* the sandbox through staging again.                                      *)
InviteCurrent ==
    \A n \in Names :
        /\ Exists(n) /\ Owns(n)
        /\ store[n].desired = "present"
        /\ EffectivePhase(n) \in (NeedsEnrollment \cup WaitPhases) \ {"joining-pack"}
        => app[n].token

(* What a ready sandbox promises: the app that joined the Pack under its   *)
(* name is the one its record names, and its route is recorded.            *)
ReadyIsMember ==
    \A n \in Names :
        Exists(n) /\ store[n].phase = "ready" =>
            /\ store[n].appGUID # NoGuid /\ member[n] = store[n].appGUID
            /\ store[n].internalHost /\ store[n].packMemberID

(* A failed sandbox can be retried: it remembers a phase that the          *)
(* reconciler knows how to resume, given what the user wants of it.        *)
FailedResumable ==
    \A n \in Names :
        Exists(n) /\ store[n].phase = "failed" =>
            store[n].resumePhase \in
                IF store[n].desired = "present"
                THEN CreatePhases ELSE CreatePhases \cup {"ready", "deleting"}

(* An app identity, once recorded, is never replaced while the record      *)
(* lives (Discover's mismatch check, reconciler.go:283).                   *)
GuidStable ==
    [][\A n \in Names :
        Exists(n) /\ Exists(n)' /\ store[n].appGUID # NoGuid
            => store'[n].appGUID = store[n].appGUID]_vars

(* A deletion is never taken back: no write of a worker, a handler or a    *)
(* retry that read the record before the DELETE undoes it.                 *)
DeletionSticks ==
    [][\A n \in Names :
        Exists(n) /\ Exists(n)' /\ store[n].desired = "deleted"
            => store'[n].desired = "deleted"]_vars

(* The Pack member goes before the sandbox's route, policy or app do.      *)
PackBeforeTeardown ==
    [][Deleting(run.step) /\ run' # run /\ MemberPresent(Cur) =>
        /\ app'[Cur] = app[Cur]
        /\ route[Cur] \subseteq route'[Cur]
        /\ leadPolicy \subseteq leadPolicy']_vars

(* The manager neither pushes over nor deletes an app it does not own.     *)
OthersKept ==
    [][\A n \in Names :
        At("push") \/ At("destroy") =>
            (HasApp(n) /\ ~Owns(n) /\ run' # run => app'[n] = app[n])]_vars

(* No app is started before its enrollment variables are set and its route *)
(* is created and guarded.  That the route is mapped is left out: a push   *)
(* over an existing app takes it off its route (see Push).                 *)
StartedSecured ==
    At("start") /\ HasApp(Cur) =>
        app[Cur].configured /\ {"created", "guarded"} \subseteq route[Cur]

(* Once faults end, a sandbox that is to be deleted goes away, unless the  *)
(* name is held by an app whose ownership is unknown or not the manager's. *)
Held(n) ==
    HasApp(n) /\ ~(Exists(n) /\ HasGuid(n, store[n].appGUID))

DeletionCompletes ==
    \A n \in Names :
        (Exists(n) /\ store[n].desired = "deleted") ~> (~Exists(n) \/ Held(n))

(* Once faults end, a sandbox that is to exist becomes ready or failed, or *)
(* its deletion is asked for.                                              *)
CreationSettles ==
    \A n \in Names :
        Exists(n) ~> (Exists(n) =>
                        \/ store[n].phase \in {"ready", "failed"}
                        \/ store[n].desired = "deleted")
=============================================================================
