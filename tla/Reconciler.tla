----------------------------- MODULE Reconciler -----------------------------
(***************************************************************************)
(* The reconciler's worker (internal/reconcile/reconciler.go).  One        *)
(* goroutine at a time holds the worker mutex, so one frame, run, holds    *)
(* its control point and its local variables:                              *)
(*   name, mode   the sandbox, and reconcileCreate or reconcileDelete      *)
(*   rec          the snapshot `sandbox` the decisions are made on         *)
(*   step         what the worker does next                                *)
(*   then         while step = "persist": what follows that write          *)
(* The store, the space, the roster and the disk can change between any    *)
(* two steps.  appendOperation is part of the step of its operation: its   *)
(* write touches no modelled field, so it only adds ways to fail.          *)
(***************************************************************************)
EXTENDS Store, Pack, Workspace

CONSTANT NoName

VARIABLES
    run,        \* the frame of the running worker, or Idle
    prepared,   \* r.prepared: names whose bits this process knows ready
    recovery    \* r.recoveryPhase, "" when the map has no entry

localVars == <<run, prepared, recovery>>
diskVars == <<store, bits, installed>>
worldVars == <<app, route, leadPolicy, member, late>>

CreateSteps ==
    {"top", "recover", "persist", "prepare", "cloning", "saveRevision",
     "enroll", "bits", "install", "preflight", "push", "discover", "claim",
     "secure", "saveHost", "allow", "configure", "start", "inspect",
     "probe", "lookup", "trigger", "confirm", "await", "cleanup",
     "saveMember", "advance", "recheck", "fail", "done"}

DeleteSteps ==
    {"persist", "observe", "expel", "absence", "revoke", "unguard",
     "resolve", "unroute", "identify", "destroy", "cleanup", "sweep",
     "forget", "fail", "done"}

Steps == CreateSteps \cup DeleteSteps \cup {"idle"}

(* What resolving the app name told RemoveRoute about the recorded GUID. *)
Seen == {"none", "absent", "match", "mismatch"}

Frame ==
    [name : Names \cup {NoName},
     mode : {"create", "delete"},
     step : Steps,
     then : Steps,
     seen : Seen,
     rec  : Record]

Idle ==
    [name |-> NoName, mode |-> "create", step |-> "idle", then |-> "idle",
     seen |-> "none", rec |-> NewRecord]

ASSUME NameAssumption == NoName \notin Names

WorkerTypeOK ==
    /\ run \in Frame
    /\ prepared \in [Names -> BOOLEAN]
    /\ recovery \in [Names -> NeedsEnrollment \cup {""}]

WorkerInit ==
    /\ run = Idle
    /\ prepared = [n \in Names |-> FALSE]
    /\ recovery = [n \in Names |-> ""]

-----------------------------------------------------------------------------
(* Control.  An error in reconcileCreate re-reads the record before fail;  *)
(* in reconcileDelete a failed effect goes to fail, and a failed write of  *)
(* the phase or of the operation log returns at once.                      *)
Cur == run.name
At(s) == run.step = s
Creating(s) == At(s) /\ run.mode = "create"
Deleting(s) == At(s) /\ run.mode = "delete"

Go(s) == run' = [run EXCEPT !.step = s]
Persist(s) == run' = [run EXCEPT !.step = "persist", !.then = s]
Oops == IF run.mode = "create" THEN Go("recheck") ELSE Go("fail")
GoOr(ok, s) == IF ok THEN Go(s) ELSE Oops
PersistOr(ok, s) == IF ok THEN Persist(s) ELSE Oops

(* A delete effect whose log entry could not be written gives up silently. *)
PersistOrQuit(ok, s) ==
    IF ok THEN Persist(s) ELSE Go("fail") \/ (MayFail /\ Go("done"))

(* The effect each phase of reconcileCreate begins with, after persisting  *)
(* the phase it is in.                                                     *)
FirstStep ==
    [p \in CreatePhases |->
        CASE p = "creating"               -> "prepare"
          [] p = "preparing-invite"       -> "enroll"
          [] p = "staging"                -> "bits"
          [] p = "discovering-app"        -> "discover"
          [] p = "securing-route"         -> "secure"
          [] p = "securing-manager-route" -> "allow"
          [] p = "configuring-enrollment" -> "configure"
          [] p = "starting"               -> "start"
          [] p = "waiting-for-app"        -> "inspect"
          [] p = "waiting-for-route"      -> "probe"
          [] p = "triggering-enrollment"  -> "lookup"
          [] OTHER                        -> "await"]

(* GUIDs nothing refers to: Cloud Foundry never reuses one, and reusing    *)
(* one that is forgotten everywhere cannot be told from a new one.         *)
UsedGuids ==
    {app[n].guid : n \in {m \in Names : HasApp(m)}}
        \cup {store[n].appGUID : n \in {m \in Names : Exists(m)}}
        \cup {member[n] : n \in Names} \cup {late[n] : n \in Names}
        \cup leadPolicy \cup {run.rec.appGUID}
FreshGuids == Guids \ UsedGuids

(* Mutant: a failed sandbox is left alone even when it is to be deleted. *)
MutantDispatch(n) ==
    LET frame(mode, step, then) ==
            [name |-> n, mode |-> mode, step |-> step, then |-> then,
             seen |-> "none", rec |-> store[n]]
    IN  IF ~Exists(n) THEN run' = [Idle EXCEPT !.name = n, !.step = "done"]
        ELSE IF store[n].phase = "failed" THEN run' = frame("create", "done", "idle")
        ELSE IF store[n].desired = "deleted"
        THEN run' = frame("delete", "persist", "observe")
        ELSE run' = frame("create", "top", "idle")

(* ReconcileOne, once it holds the mutex. *)
Dispatch(n) ==
    LET frame(mode, step, then) ==
            [name |-> n, mode |-> mode, step |-> step, then |-> then,
             seen |-> "none", rec |-> store[n]]
    IN  IF ~Exists(n) THEN run' = [Idle EXCEPT !.name = n, !.step = "done"]
        ELSE IF store[n].desired = "deleted"
        THEN run' = frame("delete", "persist", "observe")
        ELSE IF store[n].phase = "failed" THEN run' = frame("create", "done", "idle")
        ELSE run' = frame("create", "top", "idle")

(* The head of reconcileCreate's loop. *)
Top ==
    /\ Creating("top")
    /\ LET n == Cur
           frame(mode, step, then) ==
               [run EXCEPT !.rec = store[n], !.mode = mode,
                           !.step = step, !.then = then]
       IN  run' = IF ~Exists(n) THEN [run EXCEPT !.step = "done"]
                  ELSE IF store[n].desired = "deleted"
                  THEN frame("delete", "persist", "observe")
                  ELSE IF /\ store[n].phase \in NeedsEnrollment
                          /\ enroll[n] # "live"
                  THEN frame("create", "recover", "idle")
                  ELSE IF store[n].phase \in CreatePhases
                  THEN frame("create", "persist", FirstStep[store[n].phase])
                  ELSE IF store[n].phase = "ready"
                  THEN frame("create", "done", "idle")
                  ELSE frame("create", "recheck", "idle")
    /\ UNCHANGED <<prepared, recovery, enroll, diskVars, worldVars>>

(* persistPhase: the phase, no resume phase, no error. *)
Phased(p) == [store[Cur] EXCEPT !.phase = p, !.resumePhase = ""]

(* Mutant: persisting a phase writes back the snapshot it was decided on. *)
MutantPersistStep ==
    /\ At("persist")
    /\ \E ok \in BOOLEAN :
        /\ UpdateRecord(Cur, [run.rec EXCEPT !.resumePhase = ""], ok)
        /\ run' = [run EXCEPT !.then = "idle",
                              !.step = IF ok THEN run.then
                                       ELSE IF run.mode = "create"
                                       THEN "recheck" ELSE "done"]
    /\ UNCHANGED <<prepared, recovery, enroll, bits, installed, worldVars>>

PersistStep ==
    /\ At("persist")
    /\ \E ok \in BOOLEAN :
        /\ UpdateRecord(Cur, Phased(IF run.mode = "create"
                                    THEN run.rec.phase ELSE "deleting"), ok)
        /\ run' = [run EXCEPT !.then = "idle",
                              !.step = IF ok THEN run.then
                                       ELSE IF run.mode = "create"
                                       THEN "recheck" ELSE "done"]
    /\ UNCHANGED <<prepared, recovery, enroll, bits, installed, worldVars>>

(* The end of a phase that succeeded. *)
Advance ==
    /\ Creating("advance")
    /\ \E ok \in BOOLEAN :
        /\ UpdateRecord(Cur, Phased(NextPhase[run.rec.phase]), ok)
        /\ GoOr(ok, "top")
    /\ UNCHANGED <<prepared, recovery, enroll, bits, installed, worldVars>>

(* An error in reconcileCreate: the phase to resume is read again, ... *)
Recheck ==
    /\ Creating("recheck")
    /\ run' = [run EXCEPT !.step = "fail",
                          !.rec = IF Exists(Cur) THEN store[Cur] ELSE @]
    /\ UNCHANGED <<prepared, recovery, enroll, diskVars, worldVars>>

(* ... and fail stores it; whether that write succeeds is not looked at. *)
Fail ==
    /\ At("fail")
    /\ \E ok \in BOOLEAN :
        UpdateRecord(Cur, [store[Cur] EXCEPT
            !.phase = "failed",
            !.resumePhase = IF run.mode = "create"
                            THEN run.rec.phase ELSE "deleting"], ok)
    /\ Go("done")
    /\ UNCHANGED <<prepared, recovery, enroll, bits, installed, worldVars>>

(* Mutant: the phase to return to is read after it was overwritten. *)
MutantRecover ==
    /\ Creating("recover")
    /\ \/ /\ \E ok \in BOOLEAN :
                /\ UpdateRecord(Cur, Phased("preparing-invite"), ok)
                /\ Go(IF ok THEN "top" ELSE "done")
          /\ enroll' = [enroll EXCEPT ![Cur] = "none"]
          /\ recovery' = [recovery EXCEPT ![Cur] = store'[Cur].phase]
       \/ /\ MayFail /\ enroll[Cur] = "expired"
          /\ Go("fail")
          /\ UNCHANGED <<enroll, recovery, store>>
    /\ UNCHANGED <<prepared, bits, installed, worldVars>>

(* The invite of a phase that needs one is missing or expired: drop it and *)
(* go back to preparing-invite, remembering where to return to.  A failed  *)
(* cleanup fails the sandbox, a failed write just returns.                 *)
Recover ==
    /\ Creating("recover")
    /\ \/ /\ \E ok \in BOOLEAN :
                /\ UpdateRecord(Cur, Phased("preparing-invite"), ok)
                /\ Go(IF ok THEN "top" ELSE "done")
          /\ enroll' = [enroll EXCEPT ![Cur] = "none"]
          /\ recovery' = [recovery EXCEPT ![Cur] = run.rec.phase]
       \/ /\ MayFail /\ enroll[Cur] = "expired"
          /\ Go("fail")
          /\ UNCHANGED <<enroll, recovery, store>>
    /\ UNCHANGED <<prepared, bits, installed, worldVars>>

-----------------------------------------------------------------------------
(* reconcileCreate: the effects, in the order of the phases.               *)

(* Runtime.Prepare, begun; Cloning ends it. *)
Clone ==
    /\ \/ BeginPrepare(Cur) /\ Go("cloning")
       \/ (MayFail \/ ~CanPrepare(Cur)) /\ Oops /\ UNCHANGED workVars

(* Mutant: a directory that is there already is taken for a clone. *)
MutantPrepare ==
    /\ Creating("prepare")
    /\ \/ Clone
       \/ ~CanPrepare(Cur) /\ Go("saveRevision") /\ UNCHANGED workVars
    /\ UNCHANGED <<prepared, recovery, enroll, store, worldVars>>

Prepare ==
    /\ Creating("prepare")
    /\ Clone
    /\ UNCHANGED <<prepared, recovery, enroll, store, worldVars>>

Cloning ==
    /\ Creating("cloning")
    /\ \E ok \in BOOLEAN :
        /\ FinishPrepare(Cur, ok)
        /\ GoOr(ok, IF run.rec.phase = "creating" THEN "saveRevision"
                                                 ELSE "enroll")
        /\ prepared' = IF ok THEN [prepared EXCEPT ![Cur] = TRUE] ELSE prepared
    /\ UNCHANGED <<recovery, enroll, store, worldVars>>

SaveRevision ==
    /\ Creating("saveRevision")
    /\ \E ok \in BOOLEAN :
        /\ UpdateRecord(Cur, [store[Cur] EXCEPT !.revision = TRUE], ok)
        /\ GoOr(ok, "advance")
    /\ UNCHANGED <<prepared, recovery, enroll, bits, installed, worldVars>>

(* ensurePrepared: bits of an earlier process count once a revision was    *)
(* saved.                                                                  *)
EnsurePrepared ==
    /\ Creating("bits")
    /\ LET onDisk == run.rec.revision /\ ~CanPrepare(Cur)
       IN  \/ /\ prepared[Cur] \/ onDisk
              /\ prepared' = [prepared EXCEPT ![Cur] = TRUE]
              /\ Go("enroll")
              /\ UNCHANGED workVars
           \/ ~prepared[Cur] /\ ~onDisk /\ Clone /\ UNCHANGED prepared
           \/ /\ ~prepared[Cur] /\ MayFail /\ Oops
              /\ UNCHANGED <<prepared, workVars>>
    /\ UNCHANGED <<recovery, enroll, store, worldVars>>

(* ensureEnrollment: a new invite outdates the copies of the old one. *)
EnsureEnrollment ==
    /\ Creating("enroll")
    /\ LET next == IF run.rec.phase = "staging"
                   THEN Persist("install") ELSE Go("advance")
       IN  \/ /\ enroll[Cur] = "live" /\ next
              /\ UNCHANGED <<enroll, installed, app>>
           \/ /\ enroll[Cur] # "live" /\ next
              /\ enroll' = [enroll EXCEPT ![Cur] = "live"]
              /\ installed' = [installed EXCEPT ![Cur] = FALSE]
              /\ app' = IF HasApp(Cur)
                        THEN [app EXCEPT ![Cur].token = FALSE] ELSE app
           \/ /\ enroll[Cur] # "live" /\ MayFail /\ Oops
              /\ enroll' = [enroll EXCEPT ![Cur] = "none"]
              /\ UNCHANGED <<installed, app>>
    /\ UNCHANGED <<prepared, recovery, store, bits, route, leadPolicy, member,
                   late>>

Install ==
    /\ Creating("install")
    /\ \E ok \in BOOLEAN :
        /\ InstallEnrollment(Cur, enroll[Cur] = "live", ok)
        /\ PersistOr(ok, "preflight")
    /\ UNCHANGED <<prepared, recovery, enroll, store, worldVars>>

Preflight ==
    /\ Creating("preflight")
    /\ \/ ~StageRefused(Cur, run.rec.appGUID) /\ Go("push")
       \/ (MayFail \/ StageRefused(Cur, run.rec.appGUID)) /\ Oops
    /\ UNCHANGED <<prepared, recovery, enroll, diskVars, worldVars>>

PushBits ==
    /\ Creating("push")
    /\ \E ok \in BOOLEAN :
        Push(Cur, FreshGuids, installed[Cur], ok) /\ GoOr(ok, "advance")
    /\ UNCHANGED <<prepared, recovery, enroll, diskVars, member, late>>

(* Mutant: whatever app has the name is taken for the sandbox's. *)
MutantDiscover ==
    /\ Creating("discover")
    /\ \/ /\ HasApp(Cur)
          /\ run' = [run EXCEPT !.step = "claim", !.rec.appGUID = app[Cur].guid]
       \/ (MayFail \/ ~HasApp(Cur)) /\ Oops
    /\ UNCHANGED <<prepared, recovery, enroll, diskVars, worldVars>>

(* The GUID found under the name is kept in the snapshot until it is       *)
(* persisted; a persisted GUID is never replaced.                          *)
Discover ==
    /\ Creating("discover")
    /\ LET found == /\ HasApp(Cur)
                    /\ run.rec.appGUID \in {NoGuid, app[Cur].guid}
       IN  \/ /\ found
              /\ run' = [run EXCEPT !.step = "claim",
                                    !.rec.appGUID = app[Cur].guid]
           \/ (MayFail \/ ~found) /\ Oops
    /\ UNCHANGED <<prepared, recovery, enroll, diskVars, worldVars>>

(* Back to the phase Recover left, if it left one. *)
Claim ==
    /\ Creating("claim")
    /\ \E ok \in BOOLEAN :
        /\ UpdateRecord(Cur,
               [store[Cur] EXCEPT
                   !.appGUID = run.rec.appGUID,
                   !.phase = IF recovery[Cur] # "" THEN recovery[Cur]
                             ELSE "securing-route"], ok)
        /\ GoOr(ok, "top")
    /\ recovery' = [recovery EXCEPT ![Cur] = ""]
    /\ UNCHANGED <<prepared, enroll, bits, installed, worldVars>>

Secure ==
    /\ Creating("secure")
    /\ \E ok \in BOOLEAN : SecureRoute(Cur, ok) /\ GoOr(ok, "saveHost")
    /\ UNCHANGED <<prepared, recovery, enroll, diskVars, member, late>>

SaveHost ==
    /\ Creating("saveHost")
    /\ \E ok \in BOOLEAN :
        /\ UpdateRecord(Cur, [store[Cur] EXCEPT !.internalHost = TRUE], ok)
        /\ GoOr(ok, "advance")
    /\ UNCHANGED <<prepared, recovery, enroll, bits, installed, worldVars>>

(* Mutant: an error of any kind is taken for "already exists". *)
MutantAllow ==
    /\ Creating("allow")
    /\ \E ok \in BOOLEAN : AddRoutePolicy(run.rec.appGUID, ok)
    /\ Go("advance")
    /\ UNCHANGED <<prepared, recovery, enroll, diskVars, member, late>>

Allow ==
    /\ Creating("allow")
    /\ \E ok \in BOOLEAN :
        AddRoutePolicy(run.rec.appGUID, ok) /\ GoOr(ok, "advance")
    /\ UNCHANGED <<prepared, recovery, enroll, diskVars, member, late>>

Configure ==
    /\ Creating("configure")
    /\ \E ok \in BOOLEAN : ConfigureEnrollment(Cur, ok) /\ GoOr(ok, "advance")
    /\ UNCHANGED <<prepared, recovery, enroll, diskVars, member, late>>

StartStep ==
    /\ Creating("start")
    /\ \E ok \in BOOLEAN : StartApp(Cur, ok) /\ GoOr(ok, "advance")
    /\ UNCHANGED <<prepared, recovery, enroll, diskVars, member, late>>

(* poll: the bounded waits.  They end early on success, and time out or    *)
(* fail on an error; what they wait for is true or false when they end.    *)
Poll(step, condition, next) ==
    /\ Creating(step)
    /\ \/ condition /\ Go(next)
       \/ (MayFail \/ ~condition) /\ Oops
    /\ UNCHANGED <<prepared, recovery, enroll, diskVars, worldVars>>

Inspect == Poll("inspect", Inspected(Cur, run.rec.appGUID), "advance")
Probe   == Poll("probe", run.rec.internalHost /\ Answers(Cur), "advance")
Await   == Poll("await", MemberPresent(Cur), "cleanup")

(* triggering-enrollment: skip a member, ask for a join, and ask the       *)
(* roster when the answer was an error.                                    *)
Lookup ==
    /\ Creating("lookup")
    /\ \/ MemberPresent(Cur) /\ Go("advance")
       \/ ~MemberPresent(Cur) /\ Persist("trigger")
       \/ MayFail /\ Oops
    /\ UNCHANGED <<prepared, recovery, enroll, diskVars, worldVars>>

Trigger ==
    /\ Creating("trigger")
    /\ \E ok \in BOOLEAN :
        /\ TriggerEnrollment(Cur, ok)
        /\ \/ Go(IF ok THEN "advance" ELSE "confirm")
           \/ MayFail /\ Oops
    /\ UNCHANGED <<prepared, recovery, diskVars, cfVars>>

Confirm == Poll("confirm", MemberPresent(Cur), "advance")

(* cleanupTransient: the invite file, then bits this process prepared. *)
Cleanup ==
    /\ At("cleanup")
    /\ \/ /\ \E ok \in BOOLEAN :
                /\ IF prepared[Cur] THEN RemoveBits(Cur, ok)
                                    ELSE ok /\ UNCHANGED workVars
                /\ prepared' = IF ok THEN [prepared EXCEPT ![Cur] = FALSE]
                                     ELSE prepared
                /\ IF ~ok THEN Oops
                   ELSE IF run.mode = "create" THEN Go("saveMember")
                   ELSE Persist("sweep")
          /\ enroll' = [enroll EXCEPT ![Cur] = "none"]
       \/ /\ MayFail /\ enroll[Cur] # "none" /\ Oops
          /\ UNCHANGED <<enroll, prepared, workVars>>
    /\ UNCHANGED <<recovery, store, worldVars>>

SaveMember ==
    /\ Creating("saveMember")
    /\ \E ok \in BOOLEAN :
        /\ UpdateRecord(Cur, [store[Cur] EXCEPT !.packMemberID = TRUE], ok)
        /\ GoOr(ok, "advance")
    /\ UNCHANGED <<prepared, recovery, enroll, bits, installed, worldVars>>

-----------------------------------------------------------------------------
(* reconcileDelete: Pack member, policy on the lead, route, app, transient *)
(* files, work directory, record.  Only a recorded GUID entitles it to     *)
(* touch the app; without one the name must be free.                       *)
(* Mutant: deletion revokes a policy even without a recorded GUID. *)
MutantAfterMember == "revoke"

AfterMember == IF run.rec.appGUID = NoGuid THEN "absence" ELSE "revoke"

(* Mutants: deletion leaves the member for later; or takes a lookup that   *)
(* failed for an absent member.                                            *)
MutantObserve ==
    /\ Deleting("observe")
    /\ Persist(AfterMember)
    /\ UNCHANGED <<prepared, recovery, enroll, diskVars, worldVars>>

MutantLookup ==
    /\ Deleting("observe")
    /\ \/ MemberPresent(Cur) /\ Persist("expel")
       \/ (MayFail \/ ~MemberPresent(Cur)) /\ Persist(AfterMember)
    /\ UNCHANGED <<prepared, recovery, enroll, diskVars, worldVars>>

Observe ==
    /\ Deleting("observe")
    /\ \/ MemberPresent(Cur) /\ Persist("expel")
       \/ ~MemberPresent(Cur) /\ Persist(AfterMember)
       \/ MayFail /\ Go("fail")
    /\ UNCHANGED <<prepared, recovery, enroll, diskVars, worldVars>>

Expel ==
    /\ Deleting("expel")
    /\ \E ok \in BOOLEAN : RemoveMember(Cur, ok) /\ PersistOr(ok, AfterMember)
    /\ UNCHANGED <<prepared, recovery, diskVars, cfVars>>

Absence ==
    /\ Deleting("absence")
    /\ \/ ~HasApp(Cur) /\ PersistOrQuit(TRUE, "unguard")
       \/ (MayFail \/ HasApp(Cur)) /\ PersistOrQuit(FALSE, "unguard")
    /\ UNCHANGED <<prepared, recovery, enroll, diskVars, worldVars>>

Revoke ==
    /\ Deleting("revoke")
    /\ \E ok \in BOOLEAN :
        /\ RemoveRoutePolicy(run.rec.appGUID, ok)
        /\ PersistOrQuit(ok, "unguard")
    /\ UNCHANGED <<prepared, recovery, enroll, diskVars, member, late>>

Unguard ==
    /\ Deleting("unguard")
    /\ \E ok \in BOOLEAN :
        /\ UnguardRoute(Cur, ok)
        /\ IF ok /\ run.rec.appGUID = NoGuid THEN Go("unroute")
           ELSE IF ok THEN Go("resolve")
           ELSE PersistOrQuit(FALSE, "idle")
    /\ UNCHANGED <<prepared, recovery, enroll, diskVars, member, late>>

Resolve ==
    /\ Deleting("resolve")
    /\ \/ run' = [run EXCEPT !.step = "unroute",
                             !.seen = IF ~HasApp(Cur) THEN "absent"
                                      ELSE IF HasGuid(Cur, run.rec.appGUID)
                                      THEN "match" ELSE "mismatch"]
       \/ MayFail /\ PersistOrQuit(FALSE, "idle")
    /\ UNCHANGED <<prepared, recovery, enroll, diskVars, worldVars>>

(* A replaced app is an error only once the route is gone. *)
Unroute ==
    /\ Deleting("unroute")
    /\ \E ok \in BOOLEAN :
        /\ DeleteRoute(Cur, run.seen = "match", ok)
        /\ IF ok /\ run.seen # "mismatch"
           THEN run' = [run EXCEPT !.step = "persist", !.seen = "none",
                                   !.then = IF run.rec.appGUID = NoGuid
                                            THEN "cleanup" ELSE "identify"]
           ELSE \/ run' = [run EXCEPT !.step = "fail", !.seen = "none"]
                \/ /\ MayFail
                   /\ run' = [run EXCEPT !.step = "done", !.seen = "none"]
    /\ UNCHANGED <<prepared, recovery, enroll, diskVars, member, late>>

Identify ==
    /\ Deleting("identify")
    /\ \/ ~HasApp(Cur) /\ PersistOrQuit(TRUE, "cleanup")
       \/ HasGuid(Cur, run.rec.appGUID) /\ Go("destroy")
       \/ /\ MayFail \/ (HasApp(Cur) /\ ~HasGuid(Cur, run.rec.appGUID))
          /\ PersistOrQuit(FALSE, "cleanup")
    /\ UNCHANGED <<prepared, recovery, enroll, diskVars, worldVars>>

Destroy ==
    /\ Deleting("destroy")
    /\ \E ok \in BOOLEAN : DeleteApp(Cur, ok) /\ PersistOrQuit(ok, "cleanup")
    /\ UNCHANGED <<prepared, recovery, enroll, diskVars, member, late>>

(* Mutant: whether the directory could be removed is not looked at. *)
MutantSweep ==
    /\ Deleting("sweep")
    /\ \E ok \in BOOLEAN :
        /\ RemoveBits(Cur, ok)
        /\ Go("forget")
        /\ prepared' = IF ok THEN [prepared EXCEPT ![Cur] = FALSE] ELSE prepared
    /\ UNCHANGED <<recovery, enroll, store, worldVars>>

Sweep ==
    /\ Deleting("sweep")
    /\ \E ok \in BOOLEAN :
        /\ RemoveBits(Cur, ok)
        /\ GoOr(ok, "forget")
        /\ prepared' = IF ok THEN [prepared EXCEPT ![Cur] = FALSE] ELSE prepared
    /\ UNCHANGED <<recovery, enroll, store, worldVars>>

Forget ==
    /\ Deleting("forget")
    /\ \E ok \in BOOLEAN : DeleteRecord(Cur, ok) /\ GoOr(ok, "done")
    /\ UNCHANGED <<prepared, recovery, enroll, bits, installed, worldVars>>

-----------------------------------------------------------------------------
CreateStep ==
    \/ Top \/ Recover \/ Advance \/ Recheck \/ Prepare \/ Cloning
    \/ SaveRevision \/ EnsurePrepared \/ EnsureEnrollment \/ Install
    \/ Preflight \/ PushBits \/ Discover \/ Claim \/ Secure \/ SaveHost
    \/ Allow \/ Configure \/ StartStep \/ Inspect \/ Probe \/ Lookup
    \/ Trigger \/ Confirm \/ Await \/ SaveMember

DeleteStep ==
    \/ Observe \/ Expel \/ Absence \/ Revoke \/ Unguard \/ Resolve
    \/ Unroute \/ Identify \/ Destroy \/ Sweep \/ Forget

WorkerStep == CreateStep \/ DeleteStep \/ PersistStep \/ Cleanup \/ Fail
=============================================================================
