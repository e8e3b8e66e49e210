---------------------------- MODULE SandboxProofs ----------------------------
(***************************************************************************)
(* What a sandbox may rely on while it is brought up, for any sandboxes,   *)
(* GUIDs and callers: the theorems about InviteCurrent, EnrollWhenUsable,  *)
(* ReadyIsMember, OthersKept and FailedResumable.                          *)
(***************************************************************************)
EXTENDS SandboxInv, ManagerProofs

-----------------------------------------------------------------------------
(* Where each step of reconcileCreate leads.                               *)

(* A step s of a creation goes on to a step in S, or gives up. *)
Leads(s, S) == Creating(s) /\ Moved(S \cup Abort)

(* The steps that only look at the world, the store and the disk. *)
LEMMA LookLeads ==
    ASSUME BaseInv
    PROVE  /\ Preflight => Leads("preflight", {"push"})
           /\ Inspect => Leads("inspect", {"advance"})
           /\ Probe => Leads("probe", {"advance"})
           /\ Lookup => Leads("lookup", {"advance", "trigger"})
           /\ Confirm => Leads("confirm", {"advance"})
           /\ Await => Leads("await", {"cleanup"})
<1> DEFINE T == {"push", "advance", "trigger", "cleanup"}
<1>1. ASSUME NEW s, Creating(s), s # "idle", NEW S \in SUBSET T,
             Oops \/ \E t \in S : Go(t) \/ Persist(t)
      PROVE  Leads(s, S)
  <2>1. FrameInv /\ T \subseteq Targets
    BY <1>1, Working DEF Creating, Targets, Steps, CreateSteps
  <2>2. CASE Oops
    BY <1>1, <2>1, <2>2, OopsMoves DEF Leads, Moved
  <2>3. CASE \E t \in S : Go(t) \/ Persist(t)
    BY <1>1, <2>1, <2>3, GoMoves, PersistMoves DEF Leads, Moved
  <2>4. QED
    BY <1>1, <2>2, <2>3
<1>2. Preflight => Leads("preflight", {"push"})
  BY <1>1 DEF Preflight
<1>3. Inspect => Leads("inspect", {"advance"})
  BY <1>1 DEF Inspect, Poll
<1>4. Probe => Leads("probe", {"advance"})
  BY <1>1 DEF Probe, Poll
<1>5. Lookup => Leads("lookup", {"advance", "trigger"})
  BY <1>1 DEF Lookup
<1>6. Confirm => Leads("confirm", {"advance"})
  BY <1>1 DEF Confirm, Poll
<1>7. Await => Leads("await", {"cleanup"})
  BY <1>1 DEF Await, Poll
<1>8. QED
  BY <1>2, <1>3, <1>4, <1>5, <1>6, <1>7

(* The steps that write, push, configure or start something. *)
LEMMA WriteLeads ==
    ASSUME BaseInv
    PROVE  /\ Advance => Leads("advance", {"top"})
           /\ Recover => Leads("recover", {"top"})
           /\ SaveRevision => Leads("saveRevision", {"advance"})
           /\ SaveHost => Leads("saveHost", {"advance"})
           /\ SaveMember => Leads("saveMember", {"advance"})
           /\ Claim => Leads("claim", {"top"})
           /\ PushBits => Leads("push", {"advance"})
           /\ Secure => Leads("secure", {"saveHost"})
           /\ Allow => Leads("allow", {"advance"})
           /\ Configure => Leads("configure", {"advance"})
           /\ StartStep => Leads("start", {"advance"})
           /\ Install => Leads("install", {"preflight"})
<1> DEFINE T == {"top", "advance", "saveHost", "preflight"}
<1>1. ASSUME NEW s, Creating(s), s # "idle", NEW t \in T,
             NEW ok \in BOOLEAN, GoOr(ok, t) \/ PersistOr(ok, t)
      PROVE  Leads(s, {t})
  <2>1. FrameInv /\ T \subseteq Targets
    BY <1>1, Working DEF Creating, Targets, Steps, CreateSteps
  <2>2. QED
    BY <1>1, <2>1, OrMoves DEF Leads
<1>2. Advance => Leads("advance", {"top"})
  BY <1>1 DEF Advance
<1>3. ASSUME Recover PROVE Leads("recover", {"top"})
  <2>1. Creating("recover") /\ \E t \in {"top"} \cup Abort : Go(t)
    BY <1>3 DEF Recover, Abort
  <2>2. FrameInv /\ {"top"} \cup Abort \subseteq Targets
    BY <2>1, Working DEF Creating, Targets, Steps, CreateSteps, Abort
  <2>3. QED
    BY <2>1, <2>2, GoMoves DEF Leads, Moved
<1>4. SaveRevision => Leads("saveRevision", {"advance"})
  BY <1>1 DEF SaveRevision
<1>5. SaveHost => Leads("saveHost", {"advance"})
  BY <1>1 DEF SaveHost
<1>6. SaveMember => Leads("saveMember", {"advance"})
  BY <1>1 DEF SaveMember
<1>7. Claim => Leads("claim", {"top"})
  BY <1>1 DEF Claim
<1>8. PushBits => Leads("push", {"advance"})
  BY <1>1 DEF PushBits
<1>9. Secure => Leads("secure", {"saveHost"})
  BY <1>1 DEF Secure
<1>10. Allow => Leads("allow", {"advance"})
  BY <1>1 DEF Allow
<1>11. Configure => Leads("configure", {"advance"})
  BY <1>1 DEF Configure
<1>12. StartStep => Leads("start", {"advance"})
  BY <1>1 DEF StartStep
<1>13. Install => Leads("install", {"preflight"})
  BY <1>1 DEF Install
<1>14. QED
  BY <1>2, <1>3, <1>4, <1>5, <1>6, <1>7, <1>8, <1>9, <1>10, <1>11, <1>12, <1>13

(* The steps whose successor depends on the phase. *)
LEMMA BranchLeads ==
    ASSUME BaseInv
    PROVE  /\ Prepare => Leads("prepare", {"cloning"})
           /\ Cloning => Leads("cloning", {"saveRevision", "enroll"})
           /\ EnsurePrepared => Leads("bits", {"cloning", "enroll"})
           /\ EnsureEnrollment => Leads("enroll", {"install", "advance"})
           /\ Trigger => Leads("trigger", {"advance", "confirm"})
<1> DEFINE T == {"cloning", "saveRevision", "enroll", "install", "advance", "confirm"}
<1>1. ASSUME NEW s, Creating(s), s # "idle", NEW S \in SUBSET T,
             \/ Oops \/ \E t \in S : Go(t) \/ Persist(t)
             \/ \E t \in S, ok \in BOOLEAN : GoOr(ok, t)
      PROVE  Leads(s, S)
  <2>1. FrameInv /\ T \subseteq Targets
    BY <1>1, Working DEF Creating, Targets, Steps, CreateSteps
  <2>2. CASE Oops
    BY <1>1, <2>1, <2>2, OopsMoves DEF Leads, Moved
  <2>3. CASE \E t \in S : Go(t) \/ Persist(t)
    BY <1>1, <2>1, <2>3, GoMoves, PersistMoves DEF Leads, Moved
  <2>4. CASE \E t \in S, ok \in BOOLEAN : GoOr(ok, t)
    BY <1>1, <2>1, <2>4, OrMoves DEF Leads, Moved
  <2>5. QED
    BY <1>1, <2>2, <2>3, <2>4
<1>2. Prepare => Leads("prepare", {"cloning"})
  BY <1>1 DEF Prepare, Clone
<1>3. ASSUME Cloning PROVE Leads("cloning", {"saveRevision", "enroll"})
  BY <1>1, <1>3 DEF Cloning
<1>4. EnsurePrepared => Leads("bits", {"cloning", "enroll"})
  BY <1>1 DEF EnsurePrepared, Clone
<1>5. EnsureEnrollment => Leads("enroll", {"install", "advance"})
  BY <1>1 DEF EnsureEnrollment
<1>6. Trigger => Leads("trigger", {"advance", "confirm"})
  BY <1>1 DEF Trigger
<1>7. QED
  BY <1>2, <1>3, <1>4, <1>5, <1>6

-----------------------------------------------------------------------------
(* EffectInv.                                                              *)

(* A step of a creation that leads on finds the worker in its phase.       *)
LEMMA CreateEffects ==
    ASSUME BaseInv, StepInv, EffectInv, OrdinaryCreate \/ Claim \/ Allow
    PROVE  EffectInv'
<1>1. ASSUME NEW s \in Steps \ (Finished \cup {"top", "persist"}), NEW S,
             Leads(s, S)
      PROVE  /\ run.mode = "create" /\ Pos = s
             /\ run'.mode = "create" /\ run'.rec = run.rec
             /\ Pos' \in S \cup {"recheck", "fail", "done"}
  BY <1>1 DEF Leads, Creating, Moved, SameTask, Pos, At, Abort
<1>2. CASE \/ Preflight \/ Await \/ Advance \/ Recover \/ Claim
           \/ Install \/ Prepare \/ Cloning \/ EnsurePrepared
  <2>1. \E s \in Steps \ (Finished \cup {"top", "persist"}) :
            Leads(s, {"push", "cleanup", "top", "preflight", "cloning",
                      "saveRevision", "enroll"})
    BY <1>2, LookLeads, WriteLeads, BranchLeads
       DEF Leads, Moved, Steps, CreateSteps, Finished
  <2>2. QED
    BY <1>1, <2>1 DEF EffectInv
<1>3. CASE Secure
  <2>1. \E s \in {"secure"} : Leads(s, {"saveHost"})
    BY <1>3, WriteLeads
  <2>2. QED
    BY <1>1, <2>1 DEF EffectInv, Steps, CreateSteps, Finished
<1>4. CASE Lookup \/ Confirm \/ Trigger
  <2>1. \E s \in {"lookup", "confirm", "trigger"} :
            Leads(s, {"advance", "trigger", "confirm"})
    BY <1>4, LookLeads, BranchLeads DEF Leads, Moved
  <2>2. QED
    BY <1>1, <2>1 DEF EffectInv, Steps, CreateSteps, Finished
<1>5. CASE \/ Inspect \/ Probe \/ SaveHost \/ Allow \/ Configure \/ StartStep
  <2>1. \E s \in {"inspect", "probe", "saveHost", "allow", "configure", "start"} :
            Leads(s, {"advance"})
    BY <1>5, LookLeads, WriteLeads
  <2>2. QED
    BY <1>1, <2>1 DEF EffectInv, Steps, CreateSteps, Finished
<1>6. CASE \/ SaveRevision \/ SaveMember \/ PushBits \/ EnsureEnrollment
  <2>1. \E s \in {"saveRevision", "saveMember", "push", "enroll"} :
            Leads(s, {"install", "advance"})
    BY <1>6, WriteLeads, BranchLeads DEF Leads, Moved
  <2>2. QED
    BY <1>1, <2>1 DEF EffectInv, StepInv, Steps, CreateSteps, Finished
<1>7. QED
  BY <1>2, <1>3, <1>4, <1>5, <1>6 DEF OrdinaryCreate

(* What each phase begins with belongs to it. *)
LEMMA FirstEffect ==
    ASSUME NEW p \in CreatePhases
    PROVE  LET f == FirstStep[p] IN
           /\ f \in {"prepare", "enroll", "bits", "discover", "secure", "allow",
                     "configure", "start", "inspect", "probe", "lookup", "await"}
           /\ f = "secure" => p = "securing-route"
           /\ f = "allow" => p = "securing-manager-route"
           /\ f = "configure" => p = "configuring-enrollment"
           /\ f = "start" => p = "starting"
           /\ f = "inspect" => p = "waiting-for-app"
           /\ f = "probe" => p = "waiting-for-route"
           /\ f = "lookup" => p = "triggering-enrollment"
  BY DEF FirstStep, CreatePhases, PreparePhases, NeedsEnrollment, WaitPhases

(* So does the step taken at the head of the loop. *)
LEMMA TopEffects ==
    ASSUME BaseInv, Top
    PROVE  EffectInv'
<1>1. CASE run'.mode = "delete"
  BY <1>1, TopEffect DEF Entered, EffectInv, DeleteSteps
<1>2. CASE run'.mode # "delete"
  <2>1. run'.mode = "create"
    BY <1>2, TopEffect DEF Entered, FrameInv, Frame
  <2>2. CASE run'.step \in {"done", "recover", "recheck"}
    BY <2>1, <2>2 DEF EffectInv, Pos, At
  <2>3. CASE /\ run'.step = "persist" /\ store[Cur].phase \in CreatePhases
             /\ run'.then = FirstStep[store[Cur].phase]
             /\ run'.rec = store[Cur]
    <3>1. Pos' = FirstStep[run'.rec.phase] /\ run'.rec.phase \in CreatePhases
      BY <2>3 DEF Pos, At
    <3>2. QED
      BY <2>1, <3>1, FirstEffect DEF EffectInv
  <2>4. QED
    BY <2>1, <2>2, <2>3, TopTask
<1>3. QED
  BY <1>1, <1>2

(* A deletion keeps to its own steps. *)
LEMMA DeleteEffects ==
    ASSUME BaseInv, DeleteStep
    PROVE  EffectInv' /\ run'.mode = "delete" /\ run'.rec = run.rec /\ Cur' = Cur
<1>1. Moved(Targets \ {"recover"}) /\ run.mode = "delete"
  BY DeleteFrame
<1>2. Pos' \in DeleteSteps \cup Finished
  <2>1. AfterMember \in DeleteSteps /\ Abort \subseteq Finished
    BY DEF AfterMember, DeleteSteps, Abort, Finished
  <2>2. \E S \in SUBSET DeleteSteps : Moved(S \cup Abort)
    <3>1. CASE Observe \/ Expel
      BY <2>1, <3>1, ObserveEffect, ExpelEffect DEF DeleteSteps
    <3>2. CASE Absence \/ Revoke \/ Unguard \/ Resolve
      BY <3>2, AbsenceEffect, RevokeEffect, UnguardEffect, ResolveEffect
         DEF DeleteSteps
    <3>3. CASE Unroute
      BY <3>3, UnrouteStepEffect DEF DeleteSteps
    <3>4. CASE Identify \/ Destroy \/ Sweep
      BY <3>4, IdentifyEffect, DestroyEffect, SweepEffect DEF DeleteSteps
    <3>5. CASE Forget
      <4>1. Moved({} \cup Abort)
        BY <3>5, ForgetEffect
      <4>2. QED
        BY <4>1
    <3>6. QED
      BY <3>1, <3>2, <3>3, <3>4, <3>5 DEF DeleteStep
  <2>3. QED
    BY <2>1, <2>2 DEF Moved
<1>3. QED
  BY <1>1, <1>2 DEF Moved, SameTask, EffectInv, Cur

(* Every step keeps each effect to its phase. *)
LEMMA NextEffects ==
    ASSUME Base, StepInv, EffectInv, [Next]_vars
    PROVE  EffectInv'
<1>1. BaseInv
  BY DEF Base
<1>2. CASE CallerMoves \/ Outside \/ UNCHANGED vars
  <2>1. run' = run
    BY <1>1, <1>2, CallerEffect DEF Outside, vars, localVars
  <2>2. QED
    BY <2>1 DEF EffectInv, Pos, At
<1>3. ASSUME NEW c \in Callers, Acquire(c)
      PROVE  EffectInv'
  <2>1. StoreTypeOK /\ who[c] \in Names /\ Dispatch(who[c])
    BY <1>1, <1>3 DEF BaseInv, TypeOK, CallersOK, Acquire
  <2>2. run'.mode = "delete" => Pos' \in {"observe"} \cup Finished
    BY <2>1, DispatchEffect DEF Entered
  <2>3. run'.mode = "create" => run'.step \in {"top", "done"}
    <3>1. CASE ~Exists(who[c])
      BY <2>1, <3>1 DEF Dispatch, Idle
    <3>2. CASE Exists(who[c])
      BY <2>1, <3>2 DEF Dispatch
    <3>3. QED
      BY <3>1, <3>2
  <2>4. QED
    BY <2>2, <2>3 DEF EffectInv, DeleteSteps, Pos, At
<1>4. CASE (\E c \in Callers : Release(c)) \/ Crash
  <2>1. run' = Idle
    BY <1>4 DEF Release, Crash
  <2>2. QED
    BY <2>1 DEF Idle, EffectInv, Pos, At
<1>5. CASE Work
  <2>1. CASE OrdinaryCreate \/ Claim \/ Allow
    BY <1>1, <2>1, CreateEffects
  <2>2. CASE Top
    BY <1>1, <2>2, TopEffects
  <2>3. CASE Recheck
    BY <1>1, <2>3, RecheckEffect DEF EffectInv, Finished
  <2>4. CASE Discover
    BY <1>1, <2>4, DiscoverEffect DEF EffectInv, Abort, Finished, Discover, Creating
  <2>5. CASE PersistStep
    <3>1. Moved({Pos} \cup Abort)
      BY <1>1, <2>5, PersistStepEffect
    <3>2. QED
      BY <3>1 DEF Moved, SameTask, EffectInv, Abort, Finished
  <2>6. CASE Fail
    BY <1>1, <2>6, FailEffect DEF Moved, EffectInv, Abort, Finished
  <2>7. CASE Cleanup
    <3>1. /\ Moved({"saveMember", "sweep"} \cup Abort)
          /\ Pos' = "saveMember" => run.mode = "create"
      BY <1>1, <2>7, CleanupEffect
    <3>2. QED
      BY <3>1 DEF Moved, SameTask, EffectInv, DeleteSteps, Abort, Finished
  <2>8. CASE DeleteStep
    BY <1>1, <2>8, DeleteEffects
  <2>9. QED
    BY <1>5, <2>1, <2>2, <2>3, <2>4, <2>5, <2>6, <2>7, <2>8
       DEF Work, WorkerStep, CreateStep, OrdinaryCreate
<1>6. QED
  BY <1>2, <1>3, <1>4, <1>5 DEF Next, CallerStep, CallerMoves

-----------------------------------------------------------------------------
(* What is written into records.                                           *)

(* The record of n stays, with its phases p and q. *)
Rewrites(n, p, q) ==
    /\ Exists(n) /\ store'[n] # NoRecord
    /\ store'[n].phase = p /\ store'[n].resumePhase = q
    /\ store'[n].desired = store[n].desired
    /\ store'[n].appGUID = store[n].appGUID
    /\ store'[n].internalHost = store[n].internalHost
    /\ store'[n].packMemberID = store[n].packMemberID

(* A handler or a retry has created, doomed or resumed a sandbox. *)
Created(n) == ~Exists(n) /\ store'[n] = NewRecord

Doomed(n) ==
    /\ Exists(n) /\ store'[n] # NoRecord
    /\ store'[n].desired = "deleted"
    /\ store'[n].phase = "deleting"
    /\ store'[n].resumePhase = store[n].resumePhase
    /\ store'[n].appGUID = store[n].appGUID
    /\ store'[n].internalHost = store[n].internalHost
    /\ store'[n].packMemberID = store[n].packMemberID

Resumed(n) ==
    /\ Rewrites(n, store[n].resumePhase, NoPhase)
    /\ \E c \in Callers : RetryPut(c) /\ who[c] = n

(* They write nothing else. *)
LEMMA CallerWrites ==
    ASSUME BaseInv, CallerMoves, NEW n \in Names, store'[n] # store[n]
    PROVE  Created(n) \/ Doomed(n) \/ Resumed(n)
<1>1. StoreTypeOK /\ \A c \in Callers : pc[c] # "idle" => who[c] \in Names
  BY DEF BaseInv, TypeOK, CallersOK
<1>2. ASSUME NEW m \in Names, NEW rec, NEW ok \in BOOLEAN, UpdateRecord(m, rec, ok)
      PROVE  m = n /\ store'[n] = rec /\ Exists(n) /\ store[n] \in Record
  BY <1>1, <1>2 DEF UpdateRecord, Commit, StoreTypeOK, Exists
<1>3. store'[n] \in Record => store'[n] # NoRecord
  BY IdentityAssumption
<1>4. CASE Request
  <2>1. PICK m \in Names, j \in Jobs :
            PostSandbox(m, j) \/ DeleteSandbox(m, j) \/ PostRetry(m, j)
    BY <1>4 DEF Request
  <2>2. CASE PostSandbox(m, j)
    BY <1>1, <2>2 DEF PostSandbox, CreateRecord, Commit, StoreTypeOK, Created
  <2>3. CASE DeleteSandbox(m, j)
    <3>1. /\ store'[n] = [store[n] EXCEPT !.desired = "deleted", !.phase = "deleting"]
          /\ Exists(n) /\ store[n] \in Record
      BY <1>2, <2>3 DEF DeleteSandbox
    <3>2. "deleting" \in Phases
      BY DEF Phases
    <3>3. store'[n] \in Record
      BY <3>1, <3>2 DEF Record
    <3>4. QED
      BY <1>3, <3>1, <3>3 DEF Doomed, Record
  <2>4. QED
    BY <2>1, <2>2, <2>3 DEF PostRetry
<1>5. ASSUME NEW c \in Callers, RetryPut(c)
      PROVE  Resumed(n)
  <2>1. PICK q \in Phases : q = NoPhase /\ \E ok \in BOOLEAN :
            UpdateRecord(who[c], [store[who[c]] EXCEPT
                             !.phase = store[who[c]].resumePhase,
                             !.resumePhase = q], ok)
    BY <1>5 DEF RetryPut, NoPhase, Phases
  <2>2. who[c] \in Names
    BY <1>1, <1>5 DEF RetryPut
  <2>3. /\ Exists(n) /\ n = who[c] /\ store[n] \in Record
        /\ store'[n] = [store[n] EXCEPT !.phase = store[n].resumePhase,
                                        !.resumePhase = q]
    BY <1>2, <2>1, <2>2
  <2>4. store'[n] \in Record
    BY <2>1, <2>3 DEF Record
  <2>5. Rewrites(n, store[n].resumePhase, q)
    BY <1>3, <2>3, <2>4 DEF Record, Rewrites
  <2>6. QED
    BY <1>5, <2>1, <2>3, <2>5 DEF Resumed
<1>6. QED
  BY <1>4, <1>5 DEF CallerMoves, Scan, ScanNext, RetryGet, Enter, Leave, diskVars

(* A worker's write of the record of its sandbox: W describes it, and it   *)
(* has taken place when the worker goes on.                                *)
Writes(W) ==
    /\ StoreOthers(Cur)
    /\ store' = store \/ W
    /\ Pos' \notin Abort => W

(* The identity is written with the phase to go on with. *)
Claims(n) ==
    /\ Exists(n) /\ store'[n] # NoRecord
    /\ store'[n].appGUID = run.rec.appGUID
    /\ store'[n].phase \in {recovery[n], "securing-route"} \ {NoPhase}
    /\ store'[n].resumePhase = store[n].resumePhase
    /\ store'[n].desired = store[n].desired
    /\ store'[n].internalHost = store[n].internalHost
    /\ store'[n].packMemberID = store[n].packMemberID

(* So are the host of the route and the member. *)
Notes(n, host, pack) ==
    /\ Exists(n) /\ store'[n] # NoRecord
    /\ store'[n].internalHost = host
    /\ store'[n].packMemberID = pack
    /\ store'[n].phase = store[n].phase
    /\ store'[n].resumePhase = store[n].resumePhase
    /\ store'[n].desired = store[n].desired
    /\ store'[n].appGUID = store[n].appGUID

(* What an update leaves behind. *)
LEMMA UpdateWrites ==
    ASSUME StoreTypeOK, NEW n \in Names, NEW rec, NEW ok \in BOOLEAN,
           Exists(n) => rec \in Record,
           UpdateRecord(n, rec, ok)
    PROVE  /\ StoreOthers(n)
           /\ \/ store' = store
              \/ Exists(n) /\ store'[n] = rec /\ rec # NoRecord
           /\ ok => Exists(n) /\ store'[n] = rec /\ rec # NoRecord
  BY IdentityAssumption DEF UpdateRecord, Commit, StoreTypeOK, StoreOthers, Exists

(* A write of a phase. *)
LEMMA PhaseWrites ==
    ASSUME StoreTypeOK, Cur \in Names, NEW p \in Phases, NEW ok \in BOOLEAN,
           UpdateRecord(Cur, Phased(p), ok)
    PROVE  /\ StoreOthers(Cur)
           /\ store' = store \/ Rewrites(Cur, p, NoPhase)
           /\ ok => Rewrites(Cur, p, NoPhase)
<1>1. PICK q \in Phases : q = NoPhase /\ Phased(p) = [store[Cur] EXCEPT !.phase = p, !.resumePhase = q]
  BY DEF NoPhase, Phased, Phases
<1>2. Exists(Cur) => store[Cur] \in Record
  BY StoredIsRecord
<1>3. Exists(Cur) => Phased(p) \in Record
  BY <1>1, <1>2 DEF Record
<1>4. Exists(Cur) /\ store'[Cur] = Phased(p) /\ Phased(p) # NoRecord
        => Rewrites(Cur, p, q)
  BY <1>1, <1>2 DEF Record, Rewrites
<1>5. QED
  BY <1>1, <1>3, <1>4, UpdateWrites

(* The worker's writes. *)
LEMMA WorkerWrites ==
    ASSUME BaseInv
    PROVE  /\ PersistStep => Writes(Rewrites(Cur, IF run.mode = "create"
                                                  THEN run.rec.phase
                                                  ELSE "deleting", NoPhase))
           /\ Advance => Writes(Rewrites(Cur, NextPhase[run.rec.phase], NoPhase))
           /\ Recover => Writes(Rewrites(Cur, "preparing-invite", NoPhase))
           /\ SaveRevision =>
                Writes(Rewrites(Cur, store[Cur].phase, store[Cur].resumePhase))
<1>1. ASSUME NEW s, At(s), s # "idle"
      PROVE  StoreTypeOK /\ Cur \in Names /\ FrameInv /\ run.rec.phase \in Phases
             /\ (Exists(Cur) => store[Cur] \in Record)
  BY <1>1, Working, StoredIsRecord DEF Typed, Record
<1>2. ASSUME PersistStep
      PROVE  Writes(Rewrites(Cur, IF run.mode = "create" THEN run.rec.phase
                                  ELSE "deleting", NoPhase))
  <2> DEFINE p == IF run.mode = "create" THEN run.rec.phase ELSE "deleting"
  <2>1. /\ StoreTypeOK /\ Cur \in Names /\ FrameInv /\ p \in Phases
    BY <1>1, <1>2 DEF PersistStep, Phases
  <2>2. PICK ok \in BOOLEAN :
            /\ UpdateRecord(Cur, Phased(p), ok)
            /\ run' = [run EXCEPT !.then = "idle",
                          !.step = IF ok THEN run.then
                                   ELSE IF run.mode = "create"
                                   THEN "recheck" ELSE "done"]
    BY <1>2 DEF PersistStep
  <2>3. ~ok => Pos' \in Abort
    BY <2>1, <2>2 DEF FrameInv, Frame, Pos, At, Abort
  <2> HIDE DEF p
  <2>4. Writes(Rewrites(Cur, p, NoPhase))
    BY <2>1, <2>2, <2>3, PhaseWrites DEF Writes
  <2>5. QED
    BY <2>4 DEF p
<1>3. ASSUME Advance PROVE Writes(Rewrites(Cur, NextPhase[run.rec.phase], NoPhase))
  <2>1. /\ StoreTypeOK /\ Cur \in Names /\ FrameInv
        /\ NextPhase[run.rec.phase] \in Phases
    <3>1. run.rec.phase \in CreatePhases
      <4>1. At("advance") /\ run.mode = "create"
        BY <1>3 DEF Advance, Creating
      <4>2. "advance" \notin Finished \cup {"top", "persist", "idle"}
        BY DEF Finished
      <4>3. QED
        BY <4>1, <4>2, Working
    <3>2. NextPhase[run.rec.phase] \in Phases
      BY <3>1 DEF NextPhase, Phases, CreatePhases, PreparePhases,
                  NeedsEnrollment, WaitPhases
    <3>3. QED
      BY <1>1, <1>3, <3>2 DEF Advance, Creating
  <2>2. PICK ok \in BOOLEAN :
            UpdateRecord(Cur, Phased(NextPhase[run.rec.phase]), ok) /\ GoOr(ok, "top")
    BY <1>3 DEF Advance
  <2>3. Pos' \in Abort \/ ok
    BY <2>1, <2>2, OrMoves, PlainTargets
  <2>4. QED
    BY <2>1, <2>2, <2>3, PhaseWrites DEF Writes
<1>4. ASSUME Recover PROVE Writes(Rewrites(Cur, "preparing-invite", NoPhase))
  <2>1. /\ StoreTypeOK /\ Cur \in Names /\ FrameInv
        /\ "preparing-invite" \in Phases
    BY <1>1, <1>4 DEF Recover, Creating, Phases, CreatePhases, PreparePhases
  <2>2. CASE store' = store /\ Go("fail")
    <3>1. Pos' \in Abort
      BY <2>1, <2>2 DEF FrameInv, Frame, Go, Pos, At, Abort
    <3>2. QED
      BY <2>2, <3>1 DEF Writes, StoreOthers
  <2>3. CASE \E ok \in BOOLEAN :
                /\ UpdateRecord(Cur, Phased("preparing-invite"), ok)
                /\ Go(IF ok THEN "top" ELSE "done")
    <3>1. PICK ok \in BOOLEAN :
                /\ UpdateRecord(Cur, Phased("preparing-invite"), ok)
                /\ Go(IF ok THEN "top" ELSE "done")
      BY <2>3
    <3>2. Pos' \in Abort \/ ok
      BY <2>1, <3>1 DEF FrameInv, Frame, Go, Pos, At, Abort
    <3>3. QED
      BY <2>1, <3>1, <3>2, PhaseWrites DEF Writes
  <2>4. QED
    BY <1>4, <2>2, <2>3 DEF Recover
<1>5. ASSUME SaveRevision
      PROVE  Writes(Rewrites(Cur, store[Cur].phase, store[Cur].resumePhase))
  <2>1. /\ StoreTypeOK /\ Cur \in Names /\ FrameInv
        /\ Exists(Cur) => store[Cur] \in Record
    BY <1>1, <1>5 DEF SaveRevision, Creating
  <2> DEFINE rec == [store[Cur] EXCEPT !.revision = TRUE]
  <2>2. PICK ok \in BOOLEAN : UpdateRecord(Cur, rec, ok) /\ GoOr(ok, "advance")
    BY <1>5 DEF SaveRevision
  <2>3. /\ Exists(Cur) => rec \in Record
        /\ Exists(Cur) /\ store'[Cur] = rec /\ rec # NoRecord =>
                Rewrites(Cur, store[Cur].phase, store[Cur].resumePhase)
    BY <2>1 DEF Record, Rewrites
  <2> HIDE DEF rec
  <2>4. Pos' \in Abort \/ ok
    BY <2>1, <2>2, OrMoves, PlainTargets
  <2>5. QED
    BY <2>1, <2>2, <2>3, <2>4, UpdateWrites DEF Writes
<1>6. QED
  BY <1>2, <1>3, <1>4, <1>5

(* Those that note what has been achieved. *)
LEMMA NoteWrites ==
    ASSUME BaseInv
    PROVE  /\ Claim => Writes(Claims(Cur))
           /\ SaveHost => Writes(Notes(Cur, TRUE, store[Cur].packMemberID))
           /\ SaveMember => Writes(Notes(Cur, store[Cur].internalHost, TRUE))
<1>1. ASSUME NEW s, Creating(s), s # "idle"
      PROVE  StoreTypeOK /\ Cur \in Names /\ FrameInv /\ run.rec.appGUID \in MaybeGuid
             /\ (Exists(Cur) => store[Cur] \in Record)
             /\ recovery \in [Names -> NeedsEnrollment \cup {""}]
  BY <1>1, Working, StoredIsRecord DEF Typed, Record, Creating
<1>2. ASSUME NEW rec, NEW ok \in BOOLEAN, NEW s, Creating(s), s # "idle",
             UpdateRecord(Cur, rec, ok), Exists(Cur) => rec \in Record,
             GoOr(ok, "advance") \/ GoOr(ok, "top")
      PROVE  /\ StoreOthers(Cur)
             /\ \/ store' = store
                \/ Exists(Cur) /\ store'[Cur] = rec /\ rec # NoRecord
             /\ Pos' \notin Abort => Exists(Cur) /\ store'[Cur] = rec /\ rec # NoRecord
  <2>1. Pos' \in Abort \/ ok
    BY <1>1, <1>2, OrMoves, PlainTargets
  <2>2. QED
    BY <1>1, <1>2, <2>1, UpdateWrites
<1>3. ASSUME Claim PROVE Writes(Claims(Cur))
  <2>1. PICK p \in Phases, ok \in BOOLEAN :
            /\ p \in {recovery[Cur], "securing-route"} \ {NoPhase}
            /\ UpdateRecord(Cur, [store[Cur] EXCEPT !.appGUID = run.rec.appGUID,
                                                    !.phase = p], ok)
            /\ GoOr(ok, "top")
    <3> DEFINE p == IF recovery[Cur] # "" THEN recovery[Cur] ELSE "securing-route"
    <3>1. p \in Phases
      BY <1>1, <1>3 DEF Claim, Phases, CreatePhases, NeedsEnrollment
    <3>2. p \in {recovery[Cur], "securing-route"} \ {NoPhase}
      BY DEF NoPhase
    <3>3. QED
      BY <1>3, <3>1, <3>2 DEF Claim
  <2> DEFINE rec == [store[Cur] EXCEPT !.appGUID = run.rec.appGUID, !.phase = p]
  <2>2. /\ Exists(Cur) => rec \in Record
        /\ Exists(Cur) /\ store'[Cur] = rec /\ rec # NoRecord => Claims(Cur)
    <3>1. Creating("claim")
      BY <1>3 DEF Claim
    <3>2. run.rec.appGUID \in MaybeGuid /\ (Exists(Cur) => store[Cur] \in Record)
      BY <1>1, <3>1
    <3>3. QED
      BY <2>1, <3>2 DEF Record, Claims
  <2> HIDE DEF rec
  <2>3. UpdateRecord(Cur, rec, ok) /\ GoOr(ok, "top") /\ Creating("claim")
    BY <1>3, <2>1 DEF rec, Claim
  <2>4. QED
    BY <1>2, <2>2, <2>3 DEF Writes
<1>4. ASSUME SaveHost PROVE Writes(Notes(Cur, TRUE, store[Cur].packMemberID))
  <2> DEFINE rec == [store[Cur] EXCEPT !.internalHost = TRUE]
  <2>1. /\ Exists(Cur) => rec \in Record
        /\ Exists(Cur) /\ store'[Cur] = rec /\ rec # NoRecord
                => Notes(Cur, TRUE, store[Cur].packMemberID)
    BY <1>1, <1>4 DEF SaveHost, Record, Notes
  <2> HIDE DEF rec
  <2>2. PICK ok \in BOOLEAN : /\ UpdateRecord(Cur, rec, ok)
                              /\ GoOr(ok, "advance") /\ Creating("saveHost")
    BY <1>4 DEF rec, SaveHost
  <2>3. /\ StoreOthers(Cur)
        /\ \/ store' = store
           \/ Exists(Cur) /\ store'[Cur] = rec /\ rec # NoRecord
        /\ Pos' \notin Abort => Exists(Cur) /\ store'[Cur] = rec /\ rec # NoRecord
    BY <1>2, <2>1, <2>2
  <2>4. QED
    BY <2>1, <2>3 DEF Writes
<1>5. ASSUME SaveMember PROVE Writes(Notes(Cur, store[Cur].internalHost, TRUE))
  <2> DEFINE rec == [store[Cur] EXCEPT !.packMemberID = TRUE]
  <2>1. /\ Exists(Cur) => rec \in Record
        /\ Exists(Cur) /\ store'[Cur] = rec /\ rec # NoRecord
                => Notes(Cur, store[Cur].internalHost, TRUE)
    BY <1>1, <1>5 DEF SaveMember, Record, Notes
  <2> HIDE DEF rec
  <2>2. PICK ok \in BOOLEAN : /\ UpdateRecord(Cur, rec, ok)
                              /\ GoOr(ok, "advance") /\ Creating("saveMember")
    BY <1>5 DEF rec, SaveMember
  <2>3. /\ StoreOthers(Cur)
        /\ \/ store' = store
           \/ Exists(Cur) /\ store'[Cur] = rec /\ rec # NoRecord
        /\ Pos' \notin Abort => Exists(Cur) /\ store'[Cur] = rec /\ rec # NoRecord
    BY <1>2, <2>1, <2>2
  <2>4. QED
    BY <2>1, <2>3 DEF Writes
<1>6. QED
  BY <1>3, <1>4, <1>5

(* Whether the write of a failure takes effect is not looked at; and a     *)
(* deletion writes the record of its sandbox when it removes it.           *)
LEMMA EndWrites ==
    ASSUME BaseInv
    PROVE  /\ Fail => /\ StoreOthers(Cur)
                      /\ \/ store' = store
                         \/ Rewrites(Cur, "failed", IF run.mode = "create"
                                        THEN run.rec.phase ELSE "deleting")
           /\ Forget => /\ StoreOthers(Cur)
                        /\ store' = store \/ store'[Cur] = NoRecord
<1>1. ASSUME Fail
      PROVE  /\ StoreOthers(Cur)
             /\ \/ store' = store
                \/ Rewrites(Cur, "failed", IF run.mode = "create"
                                           THEN run.rec.phase ELSE "deleting")
  <2> DEFINE p == IF run.mode = "create" THEN run.rec.phase ELSE "deleting"
             rec == [store[Cur] EXCEPT !.phase = "failed", !.resumePhase = p]
  <2>1. StoreTypeOK /\ Cur \in Names /\ p \in Phases
        /\ (Exists(Cur) => store[Cur] \in Record)
    BY <1>1, Working, StoredIsRecord DEF Fail, Typed, Record, Phases
  <2>2. \E ok \in BOOLEAN : UpdateRecord(Cur, rec, ok)
    BY <1>1 DEF Fail
  <2> HIDE DEF p
  <2>3. /\ Exists(Cur) => rec \in Record
        /\ Exists(Cur) /\ store'[Cur] = rec /\ rec # NoRecord
                => Rewrites(Cur, "failed", p)
    BY <2>1 DEF Record, Rewrites, Phases
  <2> HIDE DEF rec
  <2>4. StoreOthers(Cur) /\ (store' = store \/ Rewrites(Cur, "failed", p))
    BY <2>1, <2>2, <2>3, UpdateWrites
  <2>5. QED
    BY <2>4 DEF p
<1>2. ASSUME Forget
      PROVE  StoreOthers(Cur) /\ (store' = store \/ store'[Cur] = NoRecord)
  <2>1. StoreTypeOK /\ Cur \in Names
    BY <1>2, Working DEF Forget, Deleting, Typed
  <2>2. \E ok \in BOOLEAN : DeleteRecord(Cur, ok)
    BY <1>2 DEF Forget
  <2>3. QED
    BY <2>1, <2>2 DEF DeleteRecord, Commit, StoreTypeOK, StoreOthers
<1>3. QED
  BY <1>1, <1>2

(* What a step writes into the record of n. *)
Wrote(n) ==
    \/ PersistStep /\ Rewrites(n, IF run.mode = "create" THEN run.rec.phase
                                 ELSE "deleting", NoPhase)
    \/ Advance /\ Rewrites(n, NextPhase[run.rec.phase], NoPhase)
    \/ Recover /\ Rewrites(n, "preparing-invite", NoPhase)
    \/ SaveRevision /\ Rewrites(n, store[n].phase, store[n].resumePhase)
    \/ SaveHost /\ Notes(n, TRUE, store[n].packMemberID)
    \/ SaveMember /\ Notes(n, store[n].internalHost, TRUE)
    \/ Claim /\ Claims(n)
    \/ Fail /\ Rewrites(n, "failed", IF run.mode = "create" THEN run.rec.phase
                                     ELSE "deleting")
    \/ Forget /\ store'[n] = NoRecord

LEMMA NextWrites ==
    ASSUME Base, [Next]_vars, NEW n \in Names, store'[n] # store[n]
    PROVE  \/ CallerMoves /\ (Created(n) \/ Doomed(n) \/ Resumed(n))
           \/ WorkerStep /\ n = Cur /\ Wrote(n)
<1>1. BaseInv
  BY DEF Base
<1>2. CASE CallerMoves
  BY <1>1, <1>2, CallerWrites
<1>3. CASE WorkerStep
  <2>2. CASE PersistStep \/ Advance \/ Recover \/ SaveRevision
    BY <1>1, <1>3, <2>2, WorkerWrites DEF Wrote, Writes, StoreOthers
  <2>3. CASE SaveHost \/ SaveMember \/ Claim
    BY <1>1, <1>3, <2>3, NoteWrites DEF Wrote, Writes, StoreOthers
  <2>4. CASE Fail \/ Forget
    BY <1>1, <1>3, <2>4, EndWrites DEF Wrote, StoreOthers
  <2>5. CASE \/ Preflight \/ Inspect \/ Probe \/ Lookup \/ Confirm \/ Await
             \/ Top \/ Recheck \/ Discover
    BY <2>5 DEF Preflight, Inspect, Probe, Lookup, Confirm, Await, Poll, Top,
                Recheck, Discover, diskVars
  <2>6. CASE \/ Prepare \/ Cloning \/ EnsurePrepared \/ Install
             \/ EnsureEnrollment \/ Cleanup
    BY <2>6 DEF Prepare, Cloning, EnsurePrepared, Install, EnsureEnrollment,
                Cleanup
  <2>7. CASE \/ PushBits \/ Secure \/ Allow \/ Configure \/ StartStep \/ Trigger
    BY <2>7 DEF PushBits, Secure, Allow, Configure, StartStep, Trigger, diskVars
  <2>8. CASE \/ Observe \/ Expel \/ Absence \/ Revoke \/ Unguard \/ Resolve
             \/ Unroute \/ Identify \/ Destroy \/ Sweep
    BY <2>8 DEF Observe, Expel, Absence, Revoke, Unguard, Resolve, Unroute,
                Identify, Destroy, Sweep, diskVars
  <2>9. QED
    BY <1>3, <2>2, <2>3, <2>4, <2>5, <2>6, <2>7, <2>8
       DEF WorkerStep, CreateStep, DeleteStep
<1>4. CASE (\E c \in Callers : Acquire(c) \/ Release(c)) \/ Crash \/ Outside
           \/ UNCHANGED vars
  BY <1>4 DEF Acquire, Release, Crash, Outside, vars, diskVars
<1>5. QED
  BY <1>2, <1>3, <1>4 DEF Next, CallerStep, CallerMoves, Work

(* The steps of the worker that go on with the snapshot they have. *)
LEMMA SteadySteps ==
    ASSUME BaseInv, WorkerStep
    PROVE  \/ Top \/ Recheck \/ Discover
           \/ /\ SameTask /\ FrameInv'
              /\ run.step \in Finished \cup {"top"} => run.step = "fail" /\ run'.step = "done"
              /\ \/ Pos' \in Finished \cup {"top", "claim"}
                 \/ Pos \notin Finished \cup {"top", "claim"}
<1> DEFINE C == /\ SameTask /\ FrameInv'
                /\ run.step \in Finished \cup {"top"} => run.step = "fail" /\ run'.step = "done"
                /\ \/ Pos' \in Finished \cup {"top", "claim"}
                   \/ Pos \notin Finished \cup {"top", "claim"}
<1>1. CASE OrdinaryCreate \/ Allow
  <2>1. /\ SameTask /\ FrameInv' /\ Pos \notin Finished \cup {"top"}
    BY <1>1, OrdinaryEffect, AllowEffect
       DEF Plain, Moved, Allow, Creating, At, Pos, Finished
  <2>2. ~Creating("claim")
    BY <1>1 DEF OrdinaryCreate, Preflight, Inspect, Probe, Lookup, Confirm, Await,
             Poll, Advance, SaveRevision, SaveHost, SaveMember, Recover, Prepare,
             Cloning, EnsurePrepared, Install, PushBits, Secure, Configure,
             StartStep, EnsureEnrollment, Trigger, Allow, Creating, At
  <2>3. run.mode = "create" /\ run.step # "persist"
    BY <1>1 DEF OrdinaryCreate, Preflight, Inspect, Probe, Lookup, Confirm, Await,
             Poll, Advance, SaveRevision, SaveHost, SaveMember, Recover, Prepare,
             Cloning, EnsurePrepared, Install, PushBits, Secure, Configure,
             StartStep, EnsureEnrollment, Trigger, Allow, Creating, At
  <2>4. QED
    BY <2>1, <2>2, <2>3 DEF Pos, Creating, At
<1>2. CASE Claim
  <2>1. \E S \in {{"top"}} : Leads("claim", S)
    BY <1>2, WriteLeads
  <2>2. QED
    BY <2>1 DEF Leads, Creating, Moved, Abort, Finished, At
<1>3. CASE PersistStep
  BY <1>3, PersistStepEffect DEF Moved, Abort, Finished, PersistStep, At
<1>4. CASE Fail
  <2>1. run'.step = "done"
    BY <1>4, Working DEF Fail, Go, FrameInv, Frame
  <2>2. QED
    BY <1>4, <2>1, FailEffect DEF Moved, Abort, Finished, Fail, At
<1>5. CASE Cleanup
  BY <1>5, CleanupEffect DEF Moved, Abort, Finished, Cleanup, At, Pos
<1>6. CASE DeleteStep
  <2>1. SameTask /\ FrameInv'
    BY <1>6, DeleteFrame DEF Moved
  <2>2. \E s \in DeleteSteps \ {"persist", "fail", "done"} : Deleting(s)
    BY <1>6 DEF DeleteStep, DeleteSteps, Observe, Expel, Absence, Revoke, Unguard,
                Resolve, Unroute, Identify, Destroy, Sweep, Forget
  <2>3. QED
    BY <2>1, <2>2 DEF Deleting, At, Pos, DeleteSteps, Finished
<1>7. QED
  BY <1>1, <1>2, <1>3, <1>4, <1>5, <1>6
     DEF WorkerStep, CreateStep, OrdinaryCreate

-----------------------------------------------------------------------------
(* The phases of a sandbox that is being brought up.                       *)

(* A phase written down ends the turn. *)
LEMMA TurnEnds ==
    ASSUME BaseInv, Advance \/ Recover \/ Claim
    PROVE  run'.step \in {"top"} \cup Abort
<1>1. FrameInv /\ run.mode = "create"
  BY Working DEF Advance, Recover, Claim, Creating
<1>2. \E s \in {"top"} \cup Abort : Go(s)
  BY <1>1 DEF Advance, Recover, Claim, GoOr, Oops, Abort
<1>3. QED
  BY <1>1, <1>2 DEF Go, FrameInv, Frame

(* The snapshot Discover goes on with differs in the GUID. *)
LEMMA DiscoverKeeps ==
    ASSUME BaseInv, Discover
    PROVE  /\ Cur' = Cur /\ run'.mode = "create" /\ run.step = "discover"
           /\ run'.rec.phase = run.rec.phase
           /\ run'.rec.internalHost = run.rec.internalHost
           /\ run'.step \in {"claim", "recheck"}
<1>1. /\ FrameInv /\ run.mode = "create" /\ run.rec \in Record
      /\ run.step = "discover"
  BY Working DEF Discover, Creating, At
<1>2. CASE Oops
  BY <1>1, <1>2 DEF Oops, Go, FrameInv, Frame, Cur
<1>3. CASE run' = [run EXCEPT !.step = "claim", !.rec.appGUID = app[Cur].guid]
  <2> DEFINE rec == [run.rec EXCEPT !.appGUID = app[Cur].guid]
  <2>1. rec.phase = run.rec.phase /\ rec.internalHost = run.rec.internalHost
    BY <1>1 DEF Record
  <2>2. run' = [run EXCEPT !.step = "claim", !.rec = rec]
    BY <1>1, <1>3 DEF FrameInv, Frame
  <2> HIDE DEF rec
  <2>3. QED
    BY <1>1, <2>1, <2>2 DEF FrameInv, Frame, Cur
<1>4. QED
  BY <1>2, <1>3 DEF Discover

(* The worker begins with the head of the loop, or with a deletion. *)
LEMMA AcquireRun ==
    ASSUME BaseInv, NEW c \in Callers, Acquire(c)
    PROVE  /\ run'.mode = "create" => run'.step \in {"top", "done"}
           /\ run'.mode = "delete" => Exists(who[c])
           /\ ~Exists(who[c]) => run'.rec = NewRecord
           /\ Exists(who[c]) => run'.rec = store[who[c]]
           /\ Entered(who[c]) /\ who[c] \in Names
           /\ store' = store
<1>1. StoreTypeOK /\ who[c] \in Names /\ Dispatch(who[c]) /\ store' = store
  BY DEF BaseInv, TypeOK, CallersOK, Acquire, diskVars
<1>2. Entered(who[c])
  BY <1>1, DispatchEffect
<1>3. CASE ~Exists(who[c])
  BY <1>1, <1>2, <1>3 DEF Dispatch, Idle
<1>4. CASE Exists(who[c])
  BY <1>1, <1>2, <1>4 DEF Dispatch
<1>5. QED
  BY <1>3, <1>4

(* What becomes of the frame in a step. *)
LEMMA NextRun ==
    ASSUME Base, [Next]_vars
    PROVE  \/ run' = run /\ (CallerMoves \/ Outside \/ UNCHANGED vars)
           \/ \E c \in Callers : Acquire(c)
           \/ run' = Idle /\ UNCHANGED <<diskVars, worldVars>>
           \/ WorkerStep
<1>1. CASE CallerMoves \/ Outside \/ UNCHANGED vars
  BY <1>1, CallerEffect DEF Base, Outside, vars, localVars
<1>2. CASE (\E c \in Callers : Release(c)) \/ Crash
  BY <1>2 DEF Release, Crash
<1>3. QED
  BY <1>1, <1>2 DEF Next, CallerStep, CallerMoves, Work

(* A worker's phase is one its sandbox had. *)
LEMMA WorkersMove ==
    ASSUME Base, TaskInv, [Next]_vars, NEW n \in Names
    PROVE  /\ Busy(n)' => Live(n) /\ run'.rec.phase \in LivePhases(n)
           /\ /\ Cur' = n /\ run'.mode = "create" /\ run'.step = "fail"
              /\ Wanted(n)
              => run'.rec.phase \in LivePhases(n)
<1>1. BaseInv
  BY DEF Base
<1>2. CASE run' = run
  BY <1>2 DEF Busy, LivePhases, WorkersPhase, Live, Cur
<1>3. ASSUME NEW c \in Callers, Acquire(c)
      PROVE  ~Busy(n)' /\ ~(run'.mode = "create" /\ run'.step = "fail")
  BY <1>1, <1>3, AcquireRun DEF Busy, Finished
<1>4. CASE run' = Idle
  BY <1>4 DEF Idle, Busy, Finished
<1>5. CASE Top
  <2>1. Busy(n)' => n = Cur /\ Wanted(n) /\ run'.rec = store[n]
    <3>1. Busy(n)' => /\ n = Cur /\ Exists(n) /\ store[n].desired # "deleted"
                      /\ run'.rec = store[n]
      BY <1>1, <1>5, TopTask DEF Busy, Finished, Cur
    <3>2. Exists(n) => store[n].desired \in {"present", "deleted"}
      BY <1>1, StoredIsRecord DEF BaseInv, TypeOK, Record
    <3>3. QED
      BY <3>1, <3>2 DEF Wanted
  <2>2. run'.mode = "create" => run'.step # "fail"
    BY <1>1, <1>5, TopTask
  <2>3. QED
    BY <2>1, <2>2 DEF Live, LivePhases, PhasesOf
<1>6. CASE Recheck
  <2>1. FrameInv
    BY <1>1, <1>6, Working DEF Recheck, Creating
  <2>2. /\ run'.step = "fail" /\ Cur' = Cur
        /\ Exists(Cur) => run'.rec = store[Cur]
    BY <1>6, <2>1 DEF Recheck, FrameInv, Frame, Cur
  <2>3. QED
    BY <2>2 DEF Busy, Finished, Wanted, LivePhases, PhasesOf
<1>7. CASE Discover
  BY <1>1, <1>7, DiscoverKeeps
     DEF Busy, Live, LivePhases, WorkersPhase, Discover, Creating, At, Finished
<1>8. CASE /\ SameTask /\ FrameInv'
           /\ run.step \in Finished \cup {"top"} =>
                    run.step = "fail" /\ run'.step = "done"
  BY <1>8 DEF SameTask, Busy, Live, LivePhases, WorkersPhase, Cur, Finished
<1>9. CASE WorkerStep
  BY <1>1, <1>5, <1>6, <1>7, <1>8, <1>9, SteadySteps
<1>10. QED
  BY <1>2, <1>3, <1>4, <1>9, NextRun

(* The phases that promise nothing, and those a step may lead to. *)
Harmless == {"creating", "preparing-invite", "failed", "deleting", NoPhase}

Turns(n, p) ==
    /\ n = Cur
    /\ \/ Advance /\ p = NextPhase[run.rec.phase]
       \/ Claim /\ p \in {recovery[n], "securing-route"} \ {NoPhase}

(* What a new record says. *)
LEMMA NewPhases ==
    /\ NewRecord.phase = "creating" /\ NewRecord.resumePhase = NoPhase
    /\ NewRecord.appGUID = NoGuid /\ ~NewRecord.internalHost
    /\ NewRecord.desired = "present"
<1>1. PICK q : q = NoPhase
  OBVIOUS
<1>2. NewRecord = [desired |-> "present", phase |-> "creating", resumePhase |-> q,
                   appGUID |-> NoGuid, revision |-> FALSE,
                   internalHost |-> FALSE, packMemberID |-> FALSE]
  BY <1>1, Zenon DEF NoPhase, NewRecord
<1>3. QED
  BY <1>1, <1>2

(* A sandbox brought up is one that was, or is a new one; and it keeps to  *)
(* its phases but for the steps that end one.                              *)
LEMMA LiveMoves ==
    ASSUME Base, TaskInv, [Next]_vars, NEW n \in Names, Live(n)'
    PROVE  /\ Created(n) \/ (Live(n) /\ Exists(n))
           /\ \A p \in LivePhases(n)' :
                p \in Harmless \/ (Live(n) /\ (p \in LivePhases(n) \/ Turns(n, p)))
<1>1. BaseInv
  BY DEF Base
<1>2. Busy(n) => Exists(n)
  BY DEF Busy, TaskInv, Finished
<1>3. Exists(n) => store[n].desired \in {"present", "deleted"}
  BY <1>1, StoredIsRecord DEF BaseInv, TypeOK, Record
<1>4. CASE ~Exists(n)
  <2>1. Wanted(n)' /\ store'[n] # store[n]
    BY <1>2, <1>4, WorkersMove DEF Live, Wanted, Exists
  <2>2. Created(n) /\ CallerMoves
    <3>1. ~Wrote(n)
      BY <1>4, <2>1 DEF Wrote, Rewrites, Notes, Claims, Wanted, Exists
    <3>2. QED
      BY <1>4, <2>1, <3>1, NextWrites DEF Doomed, Resumed, Rewrites
  <2>3. run' = run
    BY <1>1, <2>2, CallerEffect DEF localVars
  <2>4. ~Busy(n)' /\ ~(run'.name = n /\ run'.mode = "create" /\ run'.step = "fail")
    BY <1>2, <1>4, <2>3 DEF Busy, TaskInv, Cur
  <2>5. LivePhases(n)' = PhasesOf(n)'
    BY <2>1, <2>4 DEF LivePhases, WorkersPhase, Cur
  <2>6. store'[n].phase = "creating" /\ store'[n].resumePhase = NoPhase
    BY <2>2, NewPhases DEF Created
  <2>7. QED
    BY <2>2, <2>5, <2>6 DEF PhasesOf, Harmless
<1>5. CASE Exists(n)
  <2>1. Wanted(n)' => Wanted(n)
    BY <1>3, <1>5, WritesRespect DEF Respects, KeepsDeletion, Wanted
  <2>2. Live(n)
    BY <2>1, WorkersMove DEF Live
  <2>3. ASSUME NEW p \in PhasesOf(n)', Wanted(n)'
        PROVE  p \in Harmless \/ p \in LivePhases(n) \/ Turns(n, p)
    <3>1. CASE store'[n] = store[n]
      BY <2>1, <2>3, <3>1 DEF LivePhases, PhasesOf
    <3>2. CASE Created(n) \/ Doomed(n) \/ Resumed(n)
      <4>1. ~Created(n) /\ ~Doomed(n)
        BY <1>5, <2>3 DEF Created, Doomed, Wanted
      <4>2. Rewrites(n, store[n].resumePhase, NoPhase)
        BY <3>2, <4>1 DEF Resumed
      <4>3. QED
        BY <2>1, <2>3, <4>2 DEF Rewrites, LivePhases, PhasesOf, Harmless
    <3>3. CASE n = Cur /\ Wrote(n)
      <4>1. run.mode = "create" /\ (PersistStep \/ Fail) =>
                run.rec.phase \in LivePhases(n)
        BY <2>1, <2>3, <3>3
           DEF PersistStep, Fail, At, LivePhases, WorkersPhase, Busy, Finished
      <4>2. PICK q : /\ q = IF run.mode = "create" THEN run.rec.phase ELSE "deleting"
                     /\ PersistStep \/ Fail => q \in Harmless \cup LivePhases(n)
        BY <4>1 DEF Harmless
      <4>3. CASE PersistStep /\ Rewrites(n, q, NoPhase)
        BY <2>3, <4>2, <4>3 DEF Rewrites, PhasesOf, Harmless
      <4>4. CASE Fail /\ Rewrites(n, "failed", q)
        BY <2>3, <4>2, <4>4 DEF Rewrites, PhasesOf, Harmless
      <4>5. CASE Advance /\ Rewrites(n, NextPhase[run.rec.phase], NoPhase)
        BY <2>3, <3>3, <4>5 DEF Rewrites, PhasesOf, Harmless, Turns
      <4>6. CASE Recover /\ Rewrites(n, "preparing-invite", NoPhase)
        BY <2>3, <4>6 DEF Rewrites, PhasesOf, Harmless
      <4>7. CASE \/ Rewrites(n, store[n].phase, store[n].resumePhase)
                 \/ Notes(n, TRUE, store[n].packMemberID)
                 \/ Notes(n, store[n].internalHost, TRUE)
        BY <2>1, <2>3, <4>7 DEF Rewrites, Notes, PhasesOf, LivePhases
      <4>8. CASE Claim /\ Claims(n)
        BY <2>1, <2>3, <3>3, <4>8 DEF Claims, PhasesOf, LivePhases, Turns
      <4>9. QED
        BY <2>3, <3>3, <4>2, <4>3, <4>4, <4>5, <4>6, <4>7, <4>8
           DEF Wrote, Wanted, Exists
    <3>4. QED
      BY <3>1, <3>2, <3>3, NextWrites
  <2>4. QED
    BY <1>5, <2>1, <2>2, <2>3, WorkersMove DEF Live, LivePhases, WorkersPhase
<1>6. QED
  BY <1>4, <1>5

(* The identity, the host and the member are noted by one step each. *)
LEMMA RecordMoves ==
    ASSUME Base, [Next]_vars, NEW n \in Names, Exists(n), Exists(n)'
    PROVE  /\ \/ store'[n].appGUID = store[n].appGUID
              \/ n = Cur /\ Claim /\ store'[n].appGUID = run.rec.appGUID
           /\ \/ store'[n].internalHost = store[n].internalHost
              \/ n = Cur /\ SaveHost /\ store'[n].internalHost
           /\ \/ store'[n].packMemberID = store[n].packMemberID
              \/ n = Cur /\ SaveMember /\ store'[n].packMemberID
<1>1. CASE store'[n] = store[n]
  BY <1>1
<1>2. CASE Created(n) \/ Doomed(n) \/ Resumed(n)
  BY <1>2 DEF Created, Doomed, Resumed, Rewrites
<1>3. CASE n = Cur /\ Wrote(n)
  <2>1. CASE \E p, q : Rewrites(n, p, q)
    BY <2>1 DEF Rewrites
  <2>2. CASE SaveHost /\ Notes(n, TRUE, store[n].packMemberID)
    BY <1>3, <2>2 DEF Notes
  <2>3. CASE SaveMember /\ Notes(n, store[n].internalHost, TRUE)
    BY <1>3, <2>3 DEF Notes
  <2>4. CASE Claim /\ Claims(n)
    BY <1>3, <2>4 DEF Claims
  <2>5. QED
    BY <1>3, <2>1, <2>2, <2>3, <2>4 DEF Wrote, Exists
<1>4. QED
  BY <1>1, <1>2, <1>3, NextWrites

-----------------------------------------------------------------------------
(* PhaseInv.                                                               *)

(* Only a failed record has a phase to be resumed in. *)
LEMMA ResumeOnlyFailed ==
    ASSUME Base, StepInv, PhaseInv, [Next]_vars, NEW n \in Names,
           Wanted(n)', store'[n].phase # "failed"
    PROVE  store'[n].resumePhase = NoPhase
<1>1. BaseInv
  BY DEF Base
<1>2. Exists(n) => Wanted(n)
  <2>1. Exists(n) => store[n].desired \in {"present", "deleted"}
    BY <1>1, StoredIsRecord DEF BaseInv, TypeOK, Record
  <2>2. QED
    BY <2>1, WritesRespect DEF Respects, KeepsDeletion, Wanted
<1>3. CASE store'[n] = store[n]
  BY <1>2, <1>3 DEF PhaseInv, Wanted, Exists
<1>4. CASE Created(n)
  BY <1>4, NewPhases DEF Created
<1>5. CASE Doomed(n) \/ Resumed(n)
  BY <1>5 DEF Doomed, Resumed, Rewrites, Wanted
<1>6. CASE n = Cur /\ Wrote(n)
  <2>1. CASE \E p : Rewrites(n, p, NoPhase)
    BY <2>1 DEF Rewrites
  <2>2. CASE \/ Rewrites(n, store[n].phase, store[n].resumePhase)
             \/ Notes(n, TRUE, store[n].packMemberID)
             \/ Notes(n, store[n].internalHost, TRUE)
    BY <1>2, <2>2 DEF Rewrites, Notes, PhaseInv
  <2>3. CASE Claim /\ Claims(n)
    <3>1. /\ run.mode = "create" /\ Pos = "claim" /\ run.step = "claim"
      BY <2>3 DEF Claim, Creating, At, Pos
    <3>2. Busy(Cur) /\ run.rec.phase = "discovering-app"
      BY <3>1 DEF Busy, Finished, StepInv
    <3>3. Wanted(n) /\ PhasesOf(n) \subseteq {"discovering-app", NoPhase}
      BY <1>2, <1>6, <2>3, <3>2 DEF Claims, PhaseInv
    <3>4. store[n].phase # "failed"
      BY <3>3 DEF PhasesOf, NoPhase
    <3>5. QED
      BY <2>3, <3>3, <3>4 DEF PhaseInv, Claims
  <2>4. CASE \E p : Rewrites(n, "failed", p)
    BY <2>4 DEF Rewrites
  <2>5. QED
    BY <1>6, <2>1, <2>2, <2>3, <2>4 DEF Wrote, Wanted, Exists
<1>7. QED
  BY <1>3, <1>4, <1>5, <1>6, NextWrites

(* What the record of a busy worker's sandbox is left with. *)
LEMMA BusyPhases ==
    ASSUME Base, TaskInv, PhaseInv, [Next]_vars, Busy(Cur), Busy(Cur)', Cur' = Cur,
           Wanted(Cur)'
    PROVE  PhasesOf(Cur)' \subseteq {run.rec.phase, NoPhase}
<1>1. BaseInv /\ Cur \in Names /\ Exists(Cur)
  BY DEF Base, BaseInv, FrameOK, Busy, Finished, TaskInv
<1>2. PICK n \in Names : n = Cur
  BY <1>1
<1>3. Wanted(n) /\ PhasesOf(n) \subseteq {run.rec.phase, NoPhase}
  <2>1. Exists(n) /\ store[n].desired \in {"present", "deleted"}
    BY <1>1, <1>2, StoredIsRecord DEF BaseInv, TypeOK, Record
  <2>2. Wanted(n)
    BY <1>2, <2>1, WritesRespect DEF Respects, KeepsDeletion, Wanted, Exists
  <2>3. QED
    BY <1>2, <2>2 DEF PhaseInv
<1>4. store'[n] # NoRecord /\ store'[n].desired = "present"
  BY <1>2 DEF Wanted, Exists
<1>5. {store'[n].phase, store'[n].resumePhase} \subseteq {run.rec.phase, NoPhase}
  <2>1. CASE store'[n] = store[n]
    BY <1>3, <2>1 DEF PhasesOf
  <2>2. CASE Created(n) \/ Doomed(n)
    BY <1>3, <1>4, <2>2 DEF Created, Doomed, Wanted
  <2>3. CASE Resumed(n)
    BY <1>3, <2>3 DEF Resumed, Rewrites, PhasesOf
  <2>4. CASE Wrote(n)
    <3>1. ~Advance /\ ~Recover /\ ~Claim
      BY <1>1, TurnEnds DEF Busy, Abort, Finished
    <3>2. ~Fail
      BY DEF Fail, At, Busy, Finished
    <3>3. CASE Rewrites(n, IF run.mode = "create" THEN run.rec.phase
                          ELSE "deleting", NoPhase)
      BY <3>3 DEF Rewrites, Busy
    <3>4. CASE \/ Rewrites(n, store[n].phase, store[n].resumePhase)
               \/ Notes(n, TRUE, store[n].packMemberID)
               \/ Notes(n, store[n].internalHost, TRUE)
      BY <1>3, <3>4 DEF Rewrites, Notes, PhasesOf
    <3>5. QED
      BY <1>4, <2>4, <3>1, <3>2, <3>3, <3>4 DEF Wrote
  <2>5. QED
    BY <2>1, <2>2, <2>3, <2>4, NextWrites
<1>6. QED
  BY <1>2, <1>5 DEF PhasesOf

(* The head of the loop reads the record again. *)
LEMMA TopReads ==
    ASSUME BaseInv, Top
    PROVE  /\ Cur' = Cur /\ store' = store
           /\ Busy(Cur)' => /\ Wanted(Cur) /\ run'.rec = store[Cur]
                            /\ store[Cur].phase \in CreatePhases
           /\ Pos' \notin Finished => Exists(Cur) /\ run'.rec = store[Cur]
<1>1. store' = store /\ Entered(Cur) /\ Cur \in Names
  BY TopEffect, Working DEF Top, Creating, Idles, diskVars
<1>2. Busy(Cur)' => /\ Exists(Cur) /\ store[Cur].desired # "deleted"
                    /\ run'.rec = store[Cur]
                    /\ store[Cur].phase \in NeedsEnrollment \cup CreatePhases
  BY TopTask DEF Busy, Finished
<1>3. Exists(Cur) => store[Cur].desired \in {"present", "deleted"}
  BY <1>1, StoredIsRecord DEF BaseInv, TypeOK, Record
<1>4. QED
  BY <1>1, <1>2, <1>3 DEF Wanted, CreatePhases, Entered, Cur

(* The snapshot keeps to the record. *)
LEMMA NextPhases ==
    ASSUME Base, TaskInv, StepInv, PhaseInv, [Next]_vars, TaskInv', Base'
    PROVE  PhaseInv'
<1>1. BaseInv
  BY DEF Base
<1>2. \A n \in Names :
        Wanted(n)' /\ store'[n].phase # "failed" => store'[n].resumePhase = NoPhase
  BY ResumeOnlyFailed
<1>3. ASSUME Busy(Cur)' PROVE Exists(Cur)' /\ Cur' \in Names
  BY <1>3 DEF Base, BaseInv, FrameOK, TaskInv, Busy, Finished
<1>4. ASSUME Busy(Cur)', Busy(Cur), Cur' = Cur, run'.rec.phase = run.rec.phase,
             run'.rec.internalHost = run.rec.internalHost
      PROVE  /\ Wanted(Cur)' => PhasesOf(Cur)' \subseteq {run'.rec.phase, NoPhase}
             /\ run'.rec.internalHost => store'[Cur'].internalHost
  <2>1. Wanted(Cur)' => PhasesOf(Cur)' \subseteq {run'.rec.phase, NoPhase}
    BY <1>4, BusyPhases
  <2>2. PICK n \in Names : n = Cur /\ Exists(n) /\ Exists(n)'
    BY <1>3, <1>4 DEF Base, BaseInv, FrameOK, TaskInv, Busy, Finished, Exists
  <2>3. run.rec.internalHost => store[n].internalHost
    BY <1>4, <2>2 DEF PhaseInv
  <2>4. store[n].internalHost => store'[n].internalHost
    BY <2>2, RecordMoves
  <2>5. QED
    BY <1>4, <2>1, <2>2, <2>3, <2>4
<1>5. ASSUME Busy(Cur)'
      PROVE  /\ Wanted(Cur)' => PhasesOf(Cur)' \subseteq {run'.rec.phase, NoPhase}
             /\ run'.rec.internalHost => store'[Cur'].internalHost
  <2>1. CASE run' = run
    BY <1>4, <1>5, <2>1 DEF Busy, Cur
  <2>2. ASSUME NEW c \in Callers, Acquire(c) PROVE FALSE
    BY <1>1, <1>5, <2>2, AcquireRun DEF Busy, Finished
  <2>3. CASE run' = Idle
    BY <1>5, <2>3 DEF Idle, Busy, Finished
  <2>4. CASE Top
    <3>1. /\ Wanted(Cur) /\ run'.rec = store[Cur] /\ Cur' = Cur
          /\ store[Cur].phase \in CreatePhases /\ store' = store
      BY <1>1, <1>5, <2>4, TopReads
    <3>2. store[Cur].phase # "failed" /\ Cur \in Names
      BY <1>3, <1>5, <3>1 DEF CreatePhases, PreparePhases, NeedsEnrollment, WaitPhases
    <3>3. store[Cur].resumePhase = NoPhase
      BY <3>1, <3>2 DEF PhaseInv
    <3>4. QED
      BY <3>1, <3>3 DEF PhasesOf
  <2>5. CASE Recheck
    <3>1. run'.step = "fail"
      BY <1>1, <2>5, Working DEF Recheck, Creating, FrameInv, Frame
    <3>2. QED
      BY <1>5, <3>1 DEF Busy, Finished
  <2>6. CASE Discover
    <3>1. Busy(Cur)
      BY <2>6 DEF Busy, Discover, Creating, At, Finished
    <3>2. QED
      BY <1>1, <1>4, <1>5, <2>6, <3>1, DiscoverKeeps
  <2>7. CASE /\ SameTask
             /\ run.step \in Finished \cup {"top"} => run'.step = "done"
    <3>1. Busy(Cur)
      BY <1>5, <2>7 DEF Busy, SameTask, Cur, Finished
    <3>2. QED
      BY <1>4, <1>5, <2>7, <3>1 DEF SameTask, Cur
  <2>8. QED
    BY <1>1, <2>1, <2>2, <2>3, <2>4, <2>5, <2>6, <2>7, NextRun, SteadySteps
<1>6. ASSUME Pos' \notin Finished \cup {"top", "claim"}
      PROVE  run'.rec.appGUID = store'[Cur'].appGUID
  <2>1. ASSUME Cur' = Cur, run'.rec = run.rec, ~Claim,
               Pos \notin Finished \cup {"top", "claim"}
        PROVE  run'.rec.appGUID = store'[Cur'].appGUID
    <3>1. run.rec.appGUID = store[Cur].appGUID
      BY <2>1 DEF PhaseInv
    <3>2. PICK n \in Names : n = Cur
      BY <2>1 DEF Base, BaseInv, FrameOK, Pos, At, Finished
    <3>3. Exists(n) /\ Exists(n)'
      <4>1. run.mode \in {"create", "delete"} /\ run'.mode \in {"create", "delete"}
        BY DEF Base, BaseInv, TypeOK, WorkerTypeOK, Frame
      <4>2. Exists(Cur) /\ Exists(Cur)'
        BY <1>6, <2>1, <4>1 DEF Base, CreateInv, TaskInv
      <4>3. QED
        BY <2>1, <3>2, <4>2 DEF Exists
    <3>4. store'[n].appGUID = store[n].appGUID
      BY <2>1, <3>3, RecordMoves
    <3>5. QED
      BY <2>1, <3>1, <3>2, <3>4
  <2>2. CASE run' = run /\ ~Claim
    BY <1>6, <2>1, <2>2 DEF Pos, At, Cur
  <2>3. ASSUME NEW c \in Callers, Acquire(c)
        PROVE  run'.rec.appGUID = store'[Cur'].appGUID
    BY <1>1, <1>6, <2>3, AcquireRun DEF Entered, Cur, Finished
  <2>4. CASE run' = Idle
    BY <1>6, <2>4 DEF Idle, Pos, At, Finished
  <2>5. CASE Top
    BY <1>1, <1>6, <2>5, TopReads
  <2>6. CASE Recheck
    BY <1>1, <1>6, <2>6, RecheckEffect DEF Finished
  <2>7. CASE Discover
    BY <1>1, <1>6, <2>7, DiscoverEffect DEF Abort, Finished
  <2>8. CASE Claim
    BY <1>1, <1>6, <2>8, WriteLeads DEF Leads, Moved, Abort, Finished
  <2>9. CASE /\ SameTask /\ ~Claim
             /\ \/ Pos' \in Finished \cup {"top", "claim"}
                \/ Pos \notin Finished \cup {"top", "claim"}
    BY <1>6, <2>1, <2>9 DEF SameTask, Cur
  <2>10. QED
    BY <1>1, <2>2, <2>3, <2>4, <2>5, <2>6, <2>7, <2>8, <2>9, NextRun, SteadySteps
<1>7. QED
  BY <1>2, <1>5, <1>6 DEF PhaseInv

LEMMA InitSnap == Init => SnapInv
<1> SUFFICES ASSUME Init PROVE SnapInv
  OBVIOUS
<1>1. run = Idle /\ \A n \in Names : store[n] = NoRecord
  BY DEF Init, WorkerInit, StoreInit
<1>2. run.mode = "create" /\ run.step = "idle" /\ Pos = "idle"
  BY <1>1 DEF Idle, Pos, At
<1>3. QED
  BY <1>1, <1>2 DEF SnapInv, EffectInv, PhaseInv, Busy, Wanted, Exists, Finished

(* What all the theorems below rest on. *)
Ground == Base /\ TaskInv /\ CloneInv /\ SnapInv

LEMMA InitGround == Init => Ground
  BY InitBase, InitClone, InitSnap DEF Ground

LEMMA NextGround ==
    ASSUME Ground, [Next]_vars
    PROVE  Ground'
<1>1. Base' /\ TaskInv' /\ CloneInv'
  BY NextBase, NextTask, NextClone DEF Ground
<1>2. EffectInv'
  BY NextEffects DEF Ground, CloneInv, SnapInv
<1>3. PhaseInv'
  BY <1>1, NextPhases DEF Ground, CloneInv, SnapInv
<1>4. QED
  BY <1>1, <1>2, <1>3 DEF Ground, SnapInv

-----------------------------------------------------------------------------
(* What becomes of the world outside.                                      *)

(* The steps that touch each part of it. *)
LEMMA Touches ==
    ASSUME [Next]_vars
    PROVE  /\ app' = app \/ Outside \/ Destroy \/ PushBits \/ EnsureEnrollment
                         \/ Configure \/ StartStep
           /\ route' = route \/ Outside \/ Destroy \/ Secure \/ PushBits
                             \/ Unguard \/ Unroute
           /\ leadPolicy' = leadPolicy \/ Allow \/ Revoke
           /\ UNCHANGED <<member, late>> \/ Outside \/ Trigger \/ Expel
           /\ recovery' = recovery \/ Recover \/ Claim \/ Crash
<1>1. CASE \/ Preflight \/ Inspect \/ Probe \/ Lookup \/ Confirm \/ Await
           \/ Top \/ Recheck \/ Discover
  BY <1>1 DEF Preflight, Inspect, Probe, Lookup, Confirm, Await, Poll, Top,
              Recheck, Discover, worldVars
<1>2. CASE \/ Prepare \/ Cloning \/ EnsurePrepared \/ Install \/ Cleanup
  BY <1>2 DEF Prepare, Cloning, EnsurePrepared, Install, Cleanup, worldVars
<1>3. CASE \/ PersistStep \/ Advance \/ SaveRevision \/ SaveHost \/ SaveMember
           \/ Fail \/ Forget \/ Recover \/ Claim
  BY <1>3 DEF PersistStep, Advance, SaveRevision, SaveHost, SaveMember, Fail,
              Forget, Recover, Claim, worldVars
<1>4. CASE PushBits \/ Secure \/ Allow \/ Configure \/ StartStep
  BY <1>4 DEF PushBits, Secure, Allow, Configure, StartStep, Push, SecureRoute,
              ConfigureEnrollment, StartApp, AddRoutePolicy
<1>5. CASE EnsureEnrollment \/ Trigger \/ Expel
  BY <1>5 DEF EnsureEnrollment, Trigger, Expel, cfVars
<1>6. CASE Observe \/ Absence \/ Resolve \/ Identify \/ Sweep
  BY <1>6 DEF Observe, Absence, Resolve, Identify, Sweep, worldVars
<1>7. CASE Revoke \/ Unguard \/ Unroute \/ Destroy
  BY <1>7 DEF Revoke, Unguard, Unroute, Destroy, RemoveRoutePolicy,
              UnguardRoute, DeleteRoute, DeleteApp, RemoveApp, cfVars
<1>8. CASE Outside
  BY <1>8 DEF Outside, localVars, worldVars, cfVars, OperatorDeletes, RemoveApp,
              OperatorPushes
<1>9. CASE Request
  BY <1>9 DEF Request, PostSandbox, DeleteSandbox, PostRetry, Enqueue, worldVars,
              localVars
<1>10. CASE \/ Scan \/ ScanNext \/ Crash \/ UNCHANGED vars
            \/ \E c \in Callers : CallerStep(c)
  BY <1>10 DEF Scan, ScanNext, Crash, vars, CallerStep, RetryGet, RetryPut,
               Enter, Acquire, Release, Leave, worldVars, localVars
<1>11. QED
  BY <1>1, <1>2, <1>3, <1>4, <1>5, <1>6, <1>7, <1>8, <1>9, <1>10
     DEF Next, Work, WorkerStep, CreateStep, DeleteStep

(* The app of n stays the same app, or is a new one. *)
SameApp(n) ==
    /\ HasApp(n) /\ app'[n] # NoApp
    /\ app'[n].guid = app[n].guid /\ app'[n].owner = app[n].owner

NewApp(n, owner) ==
    /\ ~HasApp(n) /\ app'[n] # NoApp
    /\ app'[n].guid \in FreshGuids /\ app'[n].owner = owner

(* A push renews the app, or makes one, with what the directory carries.   *)
LEMMA PushMakes ==
    ASSUME BaseInv, PushBits
    PROVE  /\ SameApp(Cur) \/ NewApp(Cur, "manager") \/ app' = app
           /\ Pos' \notin Abort => /\ SameApp(Cur) \/ NewApp(Cur, "manager")
                                   /\ app'[Cur].token = installed[Cur]
           /\ CFOthers(Cur)
<1> DEFINE New(g, t) == [guid |-> g, owner |-> "manager", token |-> t,
                         configured |-> FALSE, started |-> FALSE]
           tok == installed[Cur]
<1>1. /\ FrameInv /\ Typed /\ Cur \in Names /\ tok \in BOOLEAN
      /\ FreshGuids \in SUBSET Guids
  BY Working DEF PushBits, Creating, Typed, WorkTypeOK, FreshGuids
<1>2. PICK ok \in BOOLEAN : Push(Cur, FreshGuids, tok, ok) /\ GoOr(ok, "advance")
  BY DEF PushBits
<1>3. Pos' \in Abort \/ ok
  BY <1>1, <1>2, OrMoves, PlainTargets
<1>4. CFOthers(Cur)
  BY <1>1, <1>2, PushEffect DEF Typed
<1> HIDE DEF tok
<1>5. CASE /\ HasApp(Cur)
           /\ app' = [app EXCEPT ![Cur].token = tok, ![Cur].started = FALSE]
  <2>1. app[Cur] \in App /\ app \in [Names -> App \cup {NoApp}]
    BY <1>1, <1>5 DEF Typed, CFTypeOK, HasApp
  <2> DEFINE new == [app[Cur] EXCEPT !.token = tok, !.started = FALSE]
  <2>2. /\ new \in App /\ new.guid = app[Cur].guid /\ new.owner = app[Cur].owner
        /\ new.token = tok
    BY <1>1, <2>1 DEF App
  <2>3. app'[Cur] = new
    BY <1>1, <1>5, <2>1
  <2> HIDE DEF new
  <2>4. new # NoApp
    BY <2>2, AppAssumption
  <2>5. QED
    BY <1>4, <1>5, <2>2, <2>3, <2>4 DEF SameApp, tok
<1>6. CASE /\ ~HasApp(Cur)
           /\ \E g \in FreshGuids, t \in {tok, FALSE} :
                /\ ok => t = tok
                /\ app' = [app EXCEPT ![Cur] = New(g, t)]
  <2>1. PICK g \in FreshGuids, t \in {tok, FALSE} :
                (ok => t = tok) /\ app' = [app EXCEPT ![Cur] = New(g, t)]
    BY <1>6
  <2>2. /\ New(g, t) \in App /\ New(g, t).guid = g /\ New(g, t).owner = "manager"
        /\ New(g, t).token = t
    BY <1>1 DEF App
  <2> HIDE DEF New
  <2>3. app'[Cur] = New(g, t)
    BY <1>1, <2>1 DEF Typed, CFTypeOK
  <2>4. New(g, t) # NoApp
    BY <2>2, AppAssumption
  <2>5. QED
    BY <1>3, <1>4, <1>6, <2>1, <2>2, <2>3, <2>4 DEF NewApp, tok
<1>7. CASE ~ok /\ app' = app
  BY <1>3, <1>4, <1>7
<1>8. QED
  BY <1>2, <1>5, <1>6, <1>7 DEF Push, tok

(* The other steps of a creation leave the app what it is. *)
LEMMA AppKept ==
    ASSUME BaseInv, EnsureEnrollment \/ Configure \/ StartStep
    PROVE  /\ app' = app \/ SameApp(Cur)
           /\ app' # app => /\ app[Cur].started => app'[Cur].started
                            /\ ~EnsureEnrollment => app'[Cur].token = app[Cur].token
           /\ CFOthers(Cur) /\ UNCHANGED <<route, leadPolicy>>
<1>1. Typed /\ Cur \in Names
  BY Working DEF EnsureEnrollment, Configure, StartStep, Creating
<1>2. CFOthers(Cur) /\ UNCHANGED <<route, leadPolicy>>
  <2>1. CASE EnsureEnrollment
    BY <2>1, EnrollPlain DEF Plain, Within, EnsureEnrollment
  <2>2. CASE Configure \/ StartStep
    BY <1>1, <2>2, StartEffect
       DEF Typed, Configure, StartStep, ConfigureEnrollment, StartApp
  <2>3. QED
    BY <2>1, <2>2
<1>3. PICK rec : /\ app' = app \/ (HasApp(Cur) /\ app' = [app EXCEPT ![Cur] = rec])
                 /\ HasApp(Cur) =>
                        /\ rec \in App /\ rec.guid = app[Cur].guid
                        /\ rec.owner = app[Cur].owner
                        /\ app[Cur].started => rec.started
                        /\ ~EnsureEnrollment => rec.token = app[Cur].token
  <2>1. HasApp(Cur) => app[Cur] \in App
    BY <1>1 DEF Typed, CFTypeOK, HasApp
  <2>2. CASE EnsureEnrollment
    <3> DEFINE rec == [app[Cur] EXCEPT !.token = FALSE]
    <3>1. app' = app \/ (HasApp(Cur) /\ app' = [app EXCEPT ![Cur] = rec])
      BY <1>1, <2>2 DEF EnsureEnrollment, Typed, CFTypeOK
    <3>2. HasApp(Cur) => /\ rec \in App /\ rec.guid = app[Cur].guid
                         /\ rec.owner = app[Cur].owner
                         /\ app[Cur].started => rec.started
      BY <2>1 DEF App
    <3>3. QED
      BY <2>2, <3>1, <3>2
  <2>3. CASE Configure
    <3> DEFINE rec == [app[Cur] EXCEPT !.configured = TRUE]
    <3>1. app' = app \/ (HasApp(Cur) /\ app' = [app EXCEPT ![Cur] = rec])
      BY <1>1, <2>3 DEF Configure, ConfigureEnrollment, Typed, CFTypeOK
    <3>2. HasApp(Cur) => /\ rec \in App /\ rec.guid = app[Cur].guid
                         /\ rec.owner = app[Cur].owner
                         /\ app[Cur].started => rec.started
                         /\ rec.token = app[Cur].token
      BY <2>1 DEF App
    <3>3. QED
      BY <3>1, <3>2
  <2>4. CASE StartStep
    <3> DEFINE rec == [app[Cur] EXCEPT !.started = TRUE]
    <3>1. app' = app \/ (HasApp(Cur) /\ app' = [app EXCEPT ![Cur] = rec])
      BY <1>1, <2>4 DEF StartStep, StartApp, Typed, CFTypeOK
    <3>2. HasApp(Cur) => /\ rec \in App /\ rec.guid = app[Cur].guid
                         /\ rec.owner = app[Cur].owner
                         /\ rec.started
                         /\ rec.token = app[Cur].token
      BY <2>1 DEF App
    <3>3. QED
      BY <3>1, <3>2
  <2>5. QED
    BY <2>2, <2>3, <2>4
<1>4. CASE app' = app
  BY <1>2, <1>4
<1>5. CASE HasApp(Cur) /\ app' = [app EXCEPT ![Cur] = rec]
  <2>1. app'[Cur] = rec
    BY <1>1, <1>5 DEF Typed, CFTypeOK
  <2>2. rec # NoApp
    BY <1>3, <1>5, AppAssumption
  <2>3. QED
    BY <1>2, <1>3, <1>5, <2>1, <2>2 DEF SameApp
<1>6. QED
  BY <1>3, <1>4, <1>5

(* Outside, an app is deleted or pushed under one name. *)
LEMMA OutsideApps ==
    ASSUME BaseInv, Outside
    PROVE  /\ UNCHANGED <<store, localVars, leadPolicy>>
           /\ \/ app' = app /\ route' = route
              \/ \E n \in Names :
                    /\ CFOthers(n)
                    /\ \/ "deleteApp" \in Faults /\ app'[n] = NoApp
                       \/ MayIntrude(n) /\ NewApp(n, "operator") /\ route' = route
<1>1. UNCHANGED <<store, localVars, leadPolicy>> /\ CFTypeOK
  BY OutsideEffect DEF diskVars, BaseInv, TypeOK
<1>2. ASSUME NEW n \in Names, Fault("deleteApp"), OperatorDeletes(n)
      PROVE  CFOthers(n) /\ "deleteApp" \in Faults /\ app'[n] = NoApp
  <2>1. CFOthers(n) /\ app'[n] = NoApp
    BY <1>1, <1>2, RemoveEffect DEF OperatorDeletes, HasApp
  <2>2. QED
    BY <1>2, <2>1 DEF Fault
<1>3. ASSUME NEW n \in Names, MayIntrude(n), OperatorPushes(n, FreshGuids)
      PROVE  CFOthers(n) /\ NewApp(n, "operator") /\ route' = route
  <2>1. FreshGuids \in SUBSET Guids
    BY DEF FreshGuids
  <2>2. CFOthers(n) /\ route' = route /\ ~HasApp(n)
    BY <1>1, <1>3, <2>1, OperatorPushEffect DEF OperatorPushes
  <2>3. PICK g \in FreshGuids :
            app' = [app EXCEPT ![n] =
                       [guid |-> g, owner |-> "operator", token |-> FALSE,
                        configured |-> FALSE, started |-> TRUE]]
    BY <1>3 DEF OperatorPushes
  <2> DEFINE new == [guid |-> g, owner |-> "operator", token |-> FALSE,
                     configured |-> FALSE, started |-> TRUE]
  <2>4. new \in App /\ new.guid = g /\ new.owner = "operator"
    BY <2>1 DEF App
  <2>5. app'[n] = new
    BY <1>1, <2>3 DEF CFTypeOK
  <2> HIDE DEF new
  <2>6. new # NoApp
    BY <2>4, AppAssumption
  <2>7. QED
    BY <2>2, <2>4, <2>5, <2>6 DEF NewApp
<1>4. QED
  BY <1>1, <1>2, <1>3 DEF Outside, worldVars, cfVars

(* How the app of n comes to be another than it was. *)
LEMMA NextApps ==
    ASSUME Base, [Next]_vars, NEW n \in Names, app'[n] # app[n]
    PROVE  \/ PushBits /\ n = Cur /\ (SameApp(n) \/ NewApp(n, "manager"))
           \/ /\ EnsureEnrollment \/ Configure \/ StartStep
              /\ n = Cur /\ SameApp(n)
              /\ app[n].started => app'[n].started
              /\ ~EnsureEnrollment => app'[n].token = app[n].token
           \/ Destroy /\ n = Cur /\ app'[n] = NoApp
           \/ Outside /\ \/ "deleteApp" \in Faults /\ app'[n] = NoApp
                         \/ MayIntrude(n) /\ NewApp(n, "operator")
<1>1. BaseInv
  BY DEF Base
<1>2. CASE Outside
  BY <1>1, <1>2, OutsideApps DEF CFOthers
<1>3. CASE Destroy
  <2>1. Typed /\ Cur \in Names
    BY <1>1, <1>3, Working DEF Destroy, Deleting
  <2>2. PICK ok \in BOOLEAN : DeleteApp(Cur, ok)
    BY <1>3 DEF Destroy
  <2>3. CFOthers(Cur)
    BY <2>1, <2>2, DeleteAppEffect DEF Typed
  <2>4. app'[Cur] = NoApp \/ app' = app
    BY <2>1, <2>2 DEF DeleteApp, RemoveApp, cfVars, Typed, CFTypeOK
  <2>5. QED
    BY <1>3, <2>3, <2>4 DEF CFOthers
<1>4. CASE PushBits
  BY <1>1, <1>4, PushMakes DEF CFOthers
<1>5. CASE EnsureEnrollment \/ Configure \/ StartStep
  BY <1>1, <1>5, AppKept DEF CFOthers
<1>6. QED
  BY <1>2, <1>3, <1>4, <1>5, Touches

(* No two names get a new app at once. *)
LEMMA OneApp ==
    ASSUME Base, [Next]_vars, NEW m \in Names, NEW n \in Names,
           app'[m] # app[m], app'[n] # app[n]
    PROVE  m = n
<1>1. BaseInv
  BY DEF Base
<1>2. CASE Outside
  BY <1>1, <1>2, OutsideApps DEF CFOthers
<1>3. CASE ~Outside
  BY <1>3, NextApps
<1>4. QED
  BY <1>2, <1>3

(* How the parts of the route of n come and go. *)
LEMMA NextRoutes ==
    ASSUME Base, [Next]_vars, NEW n \in Names, route'[n] # route[n]
    PROVE  \/ Secure /\ n = Cur /\ route[n] \subseteq route'[n]
           \/ (PushBits \/ Unguard \/ Unroute \/ Destroy) /\ n = Cur
           \/ Outside /\ "deleteApp" \in Faults
<1>1. BaseInv
  BY DEF Base
<1>2. CASE Outside
  BY <1>1, <1>2, OutsideApps DEF CFOthers
<1>3. CASE Secure
  <2>1. Typed /\ Cur \in Names
    BY <1>1, <1>3, Working DEF Secure, Creating
  <2>2. \E done : route' = [route EXCEPT ![Cur] = route[Cur] \cup done]
    BY <1>3 DEF Secure, SecureRoute
  <2>3. QED
    BY <1>3, <2>1, <2>2 DEF Typed, CFTypeOK
<1>4. CASE Unguard \/ Unroute \/ Destroy
  <2>1. Within
    BY <1>1, <1>4, DeleteFrame DEF DeleteStep
  <2>2. QED
    BY <1>4, <2>1 DEF Within, CFOthers
<1>5. CASE PushBits
  BY <1>1, <1>5, PushMakes DEF CFOthers
<1>6. QED
  BY <1>2, <1>3, <1>4, <1>5, Touches

(* How the member of the name n comes and goes, and joins set out. *)
LEMMA NextMembers ==
    ASSUME Base, [Next]_vars, NEW n \in Names
    PROVE  /\ \/ member'[n] = member[n]
              \/ Trigger /\ n = Cur /\ CanJoin(n) /\ member'[n] = app[n].guid
              \/ Expel /\ n = Cur /\ member'[n] = NoGuid
              \/ Outside /\ late[n] # NoGuid /\ member'[n] = late[n]
           /\ \/ late'[n] \in {late[n], NoGuid}
              \/ /\ Trigger /\ n = Cur /\ CanJoin(n) /\ late'[n] = app[n].guid
                 /\ "lateJoin" \in Faults
<1>1. BaseInv /\ PackTypeOK
  BY DEF Base, BaseInv, TypeOK
<1>2. CASE Outside
  <2>1. UNCHANGED <<member, late>> \/ \E m \in Names : JoinLands(m)
    BY <1>2 DEF Outside, worldVars, packVars, InviteExpires
  <2>2. ASSUME NEW m \in Names, JoinLands(m)
        PROVE  /\ \/ member'[n] = member[n]
                  \/ late[n] # NoGuid /\ member'[n] = late[n]
               /\ late'[n] \in {late[n], NoGuid}
    BY <1>1, <2>2 DEF JoinLands, PackTypeOK
  <2>3. QED
    BY <1>2, <2>1, <2>2
<1>3. CASE Trigger
  <2>1. PICK ok \in BOOLEAN : TriggerEnrollment(Cur, ok)
    BY <1>3 DEF Trigger
  <2>2. Cur \in Names
    BY <1>1, <1>3, Working DEF Trigger, Creating
  <2>3. QED
    BY <1>1, <1>3, <2>1, <2>2 DEF TriggerEnrollment, PackTypeOK, Fault
<1>4. CASE Expel
  <2>1. PICK ok \in BOOLEAN : RemoveMember(Cur, ok)
    BY <1>4 DEF Expel
  <2>2. QED
    BY <1>1, <1>4, <2>1 DEF RemoveMember, PackTypeOK
<1>5. QED
  BY <1>2, <1>3, <1>4, Touches

-----------------------------------------------------------------------------
(* IdentitiesApart.                                                        *)

(* The record is read at the head of the loop, and after an error. *)
LEMMA RecordRead ==
    ASSUME BaseInv, Top \/ Recheck
    PROVE  /\ Cur' = Cur /\ Cur \in Names /\ run.mode = "create"
           /\ run.step \in {"top", "recheck"}
           /\ UNCHANGED <<store, worldVars>>
           /\ run'.rec = IF Exists(Cur) THEN store[Cur] ELSE run.rec
<1>1. /\ FrameInv /\ Cur \in Names /\ run.mode = "create"
      /\ run.step \in {"top", "recheck"} /\ UNCHANGED <<store, worldVars>>
  BY Working DEF Top, Recheck, Creating, At, diskVars
<1>2. CASE ~Exists(Cur)
  <2>1. \E s : run' = [run EXCEPT !.step = s]
    <3>1. CASE Top
      BY <1>2, <3>1 DEF Top
    <3>2. CASE Recheck
      <4>1. run' = [run EXCEPT !.step = "fail"]
        BY <1>1, <1>2, <3>2 DEF Recheck, FrameInv, Frame
      <4>2. QED
        BY <4>1
    <3>3. QED
      BY <3>1, <3>2
  <2>2. QED
    BY <1>1, <1>2, <2>1 DEF FrameInv, Frame, Cur
<1>3. CASE Exists(Cur)
  <2>1. \E mode, s, t : run' = [run EXCEPT !.rec = store[Cur], !.mode = mode,
                                          !.step = s, !.then = t]
    <3>1. CASE Top
      BY <1>3, <3>1 DEF Top
    <3>2. CASE Recheck
      <4>1. run' = [run EXCEPT !.rec = store[Cur], !.mode = run.mode,
                               !.step = "fail", !.then = run.then]
        BY <1>1, <1>3, <3>2 DEF Recheck, FrameInv, Frame
      <4>2. QED
        BY <4>1
    <3>3. QED
      BY <3>1, <3>2
  <2>2. QED
    BY <1>1, <1>3, <2>1 DEF FrameInv, Frame, Cur
<1>4. QED
  BY <1>2, <1>3

(* The identity in the snapshot is read from the record or from the space. *)
LEMMA SnapshotRefers ==
    ASSUME Base, [Next]_vars, NEW n \in Names, NEW g \in Guids,
           Cur' = n, run'.rec.appGUID = g
    PROVE  g \in Refers(n)
<1>1. BaseInv /\ NoGuid \notin Guids /\ NoName \notin Names
  BY IdentityAssumption, NameAssumption DEF Base
<1>2. CASE run' = run
  BY <1>2 DEF Refers, Cur
<1>3. ASSUME NEW c \in Callers, Acquire(c)
      PROVE  g \in Refers(n)
  <2>1. n = who[c] /\ (~Exists(n) => run'.rec = NewRecord)
    BY <1>1, <1>3, AcquireRun DEF Entered, Cur
  <2>2. Exists(n) /\ run'.rec = store[n]
    BY <1>1, <1>3, <2>1, AcquireRun, NewPhases
  <2>3. QED
    BY <2>2 DEF Refers
<1>4. CASE run' = Idle
  BY <1>1, <1>4 DEF Idle, Cur
<1>5. CASE Top \/ Recheck
  BY <1>1, <1>5, RecordRead DEF Refers
<1>6. CASE Discover
  <2>1. Cur' = Cur
    BY <1>1, <1>6, DiscoverKeeps
  <2>2. CASE Oops
    <3>1. run'.rec = run.rec
      BY <1>1, <1>6, <2>2, Working DEF Discover, Creating, Oops, Go, FrameInv, Frame
    <3>2. QED
      BY <2>1, <3>1 DEF Refers
  <2>3. CASE /\ HasApp(Cur)
             /\ run' = [run EXCEPT !.step = "claim", !.rec.appGUID = app[Cur].guid]
    <3>1. FrameInv /\ run.rec \in Record
      BY <1>1, <1>6, Working DEF Discover, Creating
    <3>2. run'.rec.appGUID = app[Cur].guid
      BY <2>3, <3>1 DEF FrameInv, Frame, Record
    <3>3. QED
      BY <2>1, <2>3, <3>2 DEF Refers, HasGuid
  <2>4. QED
    BY <1>6, <2>2, <2>3 DEF Discover
<1>7. CASE SameTask
  BY <1>7 DEF SameTask, Cur, Refers
<1>8. QED
  BY <1>1, <1>2, <1>3, <1>4, <1>5, <1>6, <1>7, NextRun, SteadySteps

(* A sandbox comes to refer to an app that nothing refers to yet. *)
LEMMA RefersGrow ==
    ASSUME Base, [Next]_vars, NEW n \in Names, NEW g \in Refers(n)'
    PROVE  g \in Refers(n) \/ (app'[n] # app[n] /\ g \in FreshGuids)
<1>1. g \in Guids /\ NoGuid \notin Guids
  BY IdentityAssumption DEF Refers
<1>2. CASE HasGuid(n, g)'
  <2>1. CASE app'[n] = app[n]
    BY <1>1, <1>2, <2>1 DEF HasGuid, HasApp, Refers
  <2>2. CASE SameApp(n)
    BY <1>1, <1>2, <2>2 DEF HasGuid, HasApp, Refers, SameApp
  <2>3. CASE app'[n] # app[n] /\ \E o : NewApp(n, o)
    BY <1>2, <2>3 DEF HasGuid, NewApp
  <2>4. QED
    BY <1>2, <2>1, <2>2, <2>3, NextApps DEF HasGuid, HasApp
<1>3. CASE Exists(n)' /\ store'[n].appGUID = g
  <2>1. CASE Exists(n)
    <3>1. \/ store[n].appGUID = g
          \/ Cur = n /\ run.rec.appGUID = g
      BY <1>3, <2>1, RecordMoves
    <3>2. QED
      BY <1>1, <2>1, <3>1 DEF Refers
  <2>2. CASE ~Exists(n)
    <3>1. store'[n] # store[n] /\ ~Wrote(n)
      BY <1>3, <2>2 DEF Wrote, Rewrites, Notes, Claims, Exists
    <3>2. Created(n)
      BY <2>2, <3>1, NextWrites DEF Doomed, Resumed, Rewrites
    <3>3. QED
      BY <1>1, <1>3, <3>2, NewPhases DEF Created
  <2>3. QED
    BY <2>1, <2>2
<1>4. CASE Cur' = n /\ run'.rec.appGUID = g
  BY <1>1, <1>4, SnapshotRefers
<1>5. CASE member'[n] = g \/ late'[n] = g
  <2>1. CanJoin(n) => HasGuid(n, app[n].guid)
    BY DEF CanJoin, Answers, Owns, HasGuid
  <2>2. \/ g \in {member[n], late[n], NoGuid}
        \/ HasGuid(n, g)
    BY <1>5, <2>1, NextMembers
  <2>3. QED
    BY <1>1, <2>2 DEF Refers
<1>6. QED
  BY <1>2, <1>3, <1>4, <1>5 DEF Refers

LEMMA NextApart ==
    ASSUME Base, IdentitiesApart, [Next]_vars
    PROVE  IdentitiesApart'
<1>1. ASSUME NEW m \in Names, NEW n \in Names, NEW g,
             g \in Refers(m)', g \in Refers(n)', m # n
      PROVE  FALSE
  <2>1. ASSUME NEW k \in Names, g \in FreshGuids
        PROVE  g \notin Refers(k)
    BY <2>1 DEF FreshGuids, UsedGuids, Refers, HasGuid
  <2>2. /\ g \in Refers(m) \/ (app'[m] # app[m] /\ g \in FreshGuids)
        /\ g \in Refers(n) \/ (app'[n] # app[n] /\ g \in FreshGuids)
    BY <1>1, RefersGrow
  <2>3. ~(app'[m] # app[m] /\ app'[n] # app[n])
    BY <1>1, OneApp
  <2>4. ~(g \in Refers(m) /\ g \in Refers(n))
    BY <1>1 DEF IdentitiesApart
  <2>5. QED
    BY <2>1, <2>2, <2>3, <2>4
<1>2. QED
  BY <1>1 DEF IdentitiesApart

LEMMA InitApart == Init => IdentitiesApart
<1> SUFFICES ASSUME Init PROVE IdentitiesApart
  OBVIOUS
<1>1. ASSUME NEW n \in Names, NEW g \in Guids
      PROVE  g \notin Refers(n)
  BY <1>1, IdentityAssumption, NameAssumption
     DEF Init, StoreInit, CFInit, PackInit, WorkerInit, Idle, Refers, HasGuid,
         HasApp, Exists, Cur
<1>2. QED
  BY <1>1 DEF IdentitiesApart, Refers

(* No two sandboxes ever refer to the same app, in their records, in the   *)
(* roster, on a join's way or in the worker's snapshot, whatever is pushed *)
(* or deleted by whom: Cloud Foundry never hands out a GUID twice, and     *)
(* Discover takes one from under the sandbox's own name only.              *)
THEOREM NeverShared == Spec => []IdentitiesApart
<1>1. Base /\ IdentitiesApart /\ [Next]_vars => Base' /\ IdentitiesApart'
  BY NextBase, NextApart
<1>2. QED
  BY <1>1, InitBase, InitApart, PTL DEF Spec

-----------------------------------------------------------------------------
(* InviteCurrent.                                                          *)

(* Where a phase of a creation comes to its end. *)
LEMMA ToAdvance ==
    ASSUME Base, CloneInv, EffectInv, WorkerStep,
           run'.mode = "create", Pos' = "advance"
    PROVE  /\ SameTask /\ Cur' = Cur /\ run.mode = "create"
           /\ \/ Pos = "advance" /\ PersistStep
              \/ PushBits /\ run.rec.phase = "staging" /\ Pos' \notin Abort
              \/ Allow /\ Pos' \notin Abort
              \/ Probe
              \/ run.rec.phase \notin {"staging", "securing-manager-route",
                                       "waiting-for-route", "joining-pack"}
              \/ SaveMember /\ Pos' \notin Abort
<1>1. BaseInv /\ StepInv
  BY DEF Base, CloneInv
<1>2. ~Top /\ ~Recheck /\ ~Discover
  <2>1. ASSUME NEW p \in CreatePhases PROVE FirstStep[p] # "advance"
    BY FirstStepOfPhase
  <2>2. Top => Pos' # "advance"
    BY <1>1, <2>1, TopTask DEF Pos, At
  <2>3. QED
    BY <1>1, <2>2, RecheckEffect, DiscoverEffect DEF Abort
<1>3. SameTask /\ Cur' = Cur /\ run.mode = "create"
  BY <1>1, <1>2, SteadySteps DEF SameTask, Cur
<1>4. Pos' \notin Abort
  BY DEF Abort
<1>5. ~DeleteStep /\ ~Fail /\ ~Cleanup
  BY <1>1, <1>3, DeleteFrame, FailEffect, CleanupEffect DEF Moved, Abort
<1>6. PersistStep => Pos = "advance"
  BY <1>1, PersistStepEffect DEF Moved, Abort
<1>7. CASE \/ Preflight \/ Await \/ Advance \/ Recover \/ Claim
           \/ Install \/ Prepare \/ Cloning \/ EnsurePrepared \/ Secure
  <2>1. \E s : Leads(s, {"push", "cleanup", "top", "preflight", "cloning",
                         "saveRevision", "enroll", "saveHost"})
    BY <1>1, <1>7, LookLeads, WriteLeads, BranchLeads DEF Leads, Moved
  <2>2. QED
    BY <2>1 DEF Leads, Moved, Abort
<1>8. CASE \/ Inspect \/ Lookup \/ Confirm \/ Trigger \/ SaveHost \/ Configure
           \/ StartStep
  <2>1. \E s \in {"inspect", "lookup", "confirm", "trigger", "saveHost",
                  "configure", "start"} : Pos = s
    BY <1>8 DEF Inspect, Lookup, Confirm, Trigger, SaveHost, Configure, StartStep,
                Poll, Creating, At, Pos
  <2>2. QED
    BY <1>3, <2>1 DEF EffectInv
<1>9. CASE SaveRevision \/ PushBits
  <2>1. Pos \in {"saveRevision", "push"}
    BY <1>9 DEF SaveRevision, PushBits, Creating, At, Pos
  <2>2. QED
    BY <1>1, <1>3, <1>4, <1>9, <2>1 DEF StepInv, SaveRevision, PushBits, Creating, At, Pos
<1>10. CASE EnsureEnrollment
  <2>1. Pos = "enroll" /\ FrameInv
    BY <1>1, <1>10, Working DEF EnsureEnrollment, Creating, At, Pos
  <2>2. run.rec.phase # "staging"
    <3>1. ASSUME run.rec.phase = "staging" PROVE Pos' # "advance"
      <4>1. Persist("install") \/ Oops
        BY <1>10, <3>1 DEF EnsureEnrollment
      <4>2. "install" \in Targets
        BY DEF Targets, Steps, CreateSteps
      <4>3. QED
        BY <2>1, <4>1, <4>2, PersistMoves, OopsMoves DEF Moved, Abort
    <3>2. QED
      BY <3>1
  <2>3. QED
    BY <1>1, <1>3, <2>1, <2>2 DEF StepInv
<1>11. QED
  BY <1>2, <1>3, <1>4, <1>5, <1>6, <1>7, <1>8, <1>9, <1>10
     DEF WorkerStep, CreateStep

(* While the worker is busy with a sandbox, its phase is the only one the  *)
(* sandbox is in.                                                          *)
LEMMA BusyOnly ==
    ASSUME Base, PhaseInv, Busy(Cur)
    PROVE  /\ Live(Cur) /\ run.rec.phase \in LivePhases(Cur)
           /\ LivePhases(Cur) \subseteq {run.rec.phase, NoPhase}
  BY DEF PhaseInv, Live, LivePhases, WorkersPhase

(* The steps of a creation find the worker busy.                           *)
LEMMA BusySteps ==
    ASSUME Base, run.mode = "create", Pos \notin Finished \cup {"top"},
           run.step \notin Finished \cup {"top"}
    PROVE  Busy(Cur) /\ Cur \in Names /\ run.rec.phase \in CreatePhases
  BY DEF Base, BaseInv, FrameOK, Busy, Finished

(* A turn to a phase that needs the invite is made from staging or from    *)
(* another such phase.                                                     *)
LEMMA InvitedTurns ==
    ASSUME Ground, NEW n \in Names, NEW p \in Invited, Turns(n, p)
    PROVE  \/ n = Cur /\ Pos = "advance" /\ run.mode = "create"
                      /\ run.rec.phase = "staging"
           \/ LivePhases(n) \cap Invited # {}
<1>1. /\ Base /\ PhaseInv /\ EffectInv /\ StepInv
      /\ run.mode = "create" /\ n = Cur
  BY DEF Ground, CloneInv, SnapInv, Turns, Advance, Claim, Creating
<1>2. CASE Advance /\ p = NextPhase[run.rec.phase]
  <2>1. Pos = "advance" /\ run.step = "advance"
    BY <1>2 DEF Advance, Creating, At, Pos
  <2>2. Busy(Cur) /\ run.rec.phase \in CreatePhases
    BY <1>1, <2>1, BusySteps DEF Finished
  <2>3. run.rec.phase # "discovering-app"
    BY <1>1, <2>1 DEF EffectInv
  <2>4. run.rec.phase \in Invited \cup {"staging"}
    BY <1>2, <2>2, <2>3 DEF NextPhase, Invited, CreatePhases, PreparePhases,
                            NeedsEnrollment, WaitPhases
  <2>5. QED
    BY <1>1, <2>1, <2>2, <2>4, BusyOnly
<1>3. CASE Claim
  <2>1. Pos = "claim" /\ run.step = "claim"
    BY <1>3 DEF Claim, Creating, At, Pos
  <2>2. Busy(Cur) /\ run.rec.phase = "discovering-app"
    BY <1>1, <2>1, BusySteps DEF Finished, StepInv
  <2>3. QED
    BY <1>1, <2>2, BusyOnly DEF Invited, NeedsEnrollment, WaitPhases
<1>4. QED
  BY <1>2, <1>3 DEF Turns

(* A sandbox past staging keeps the invite in its app.                     *)
LEMMA InvitesKept ==
    ASSUME Ground, InviteInv, [Next]_vars, NEW n \in Names,
           Live(n)', Owns(n)', (LivePhases(n) \cap Invited # {})'
    PROVE  app'[n].token
<1>1. Base /\ TaskInv /\ PhaseInv /\ StepInv
  BY DEF Ground, CloneInv, SnapInv
<1>2. PICK p \in Invited : p \in LivePhases(n)'
  OBVIOUS
<1>3. p \notin Harmless
  BY DEF Invited, Harmless, NoPhase, NeedsEnrollment, WaitPhases
<1>4. Live(n) /\ (p \in LivePhases(n) \/ Turns(n, p))
  BY <1>1, <1>2, <1>3, LiveMoves
<1>5. Owns(n) => app[n].token
  <2>1. CASE p \in LivePhases(n)
    BY <1>4, <2>1 DEF InviteInv
  <2>2. CASE Turns(n, p)
    BY <1>4, <2>2, InvitedTurns DEF InviteInv
  <2>3. QED
    BY <1>4, <2>1, <2>2
<1>6. CASE app'[n] = app[n]
  BY <1>5, <1>6 DEF Owns, HasApp
<1>7. CASE (PushBits \/ EnsureEnrollment) /\ n = Cur
  <2>1. /\ run.mode = "create" /\ Pos \in {"push", "enroll"}
        /\ run.step \in {"push", "enroll"}
    BY <1>7 DEF PushBits, EnsureEnrollment, Creating, At, Pos
  <2>2. Busy(Cur) /\ run.rec.phase \in {"preparing-invite", "staging"}
    BY <1>1, <2>1, BusySteps DEF Finished, StepInv
  <2>3. p \notin LivePhases(n)
    BY <1>1, <1>7, <2>2, BusyOnly
       DEF Invited, NoPhase, NeedsEnrollment, WaitPhases
  <2>4. ~Turns(n, p)
    BY <2>1 DEF Turns, Advance, Claim, Creating, At
  <2>5. QED
    BY <1>4, <2>3, <2>4
<1>8. CASE /\ Configure \/ StartStep
           /\ SameApp(n) /\ app'[n].token = app[n].token
  BY <1>5, <1>8 DEF SameApp, Owns, HasApp
<1>9. CASE app'[n] = NoApp \/ NewApp(n, "operator")
  BY <1>9 DEF NewApp, Owns, HasApp
<1>10. QED
  <2>1. ~(EnsureEnrollment /\ (Configure \/ StartStep))
    BY DEF EnsureEnrollment, Configure, StartStep, Creating, At
  <2>2. QED
    BY <1>1, <1>6, <1>7, <1>8, <1>9, <2>1, NextApps

(* The push that ends staging carries it. *)
LEMMA InvitePushed ==
    ASSUME Ground, InviteInv, [Next]_vars, run'.mode = "create", Pos' = "advance",
           run'.rec.phase = "staging", Owns(Cur)'
    PROVE  app'[Cur'].token
<1>1. Base /\ BaseInv /\ EffectInv /\ StepInv /\ CloneInv /\ WorkerCloned
  BY DEF Ground, CloneInv, SnapInv, Base
<1>2. CASE /\ run'.rec = run.rec /\ run'.mode = run.mode /\ Cur' = Cur
           /\ Pos = "advance"
           /\ app' = app \/ Outside
  <2>1. PICK n \in Names : n = Cur
    BY <1>1, <1>2 DEF BaseInv, FrameOK, Pos, At, Finished
  <2>2. app'[n] = app[n]
    <3>1. ASSUME Outside, app'[n] # app[n] PROVE ~Owns(Cur)'
      <4>1. app'[n] = NoApp \/ app'[n].owner = "operator"
        BY <1>1, <3>1, OutsideApps DEF CFOthers, NewApp
      <4>2. QED
        BY <1>2, <2>1, <4>1 DEF Owns, HasApp
    <3>2. QED
      BY <1>2, <3>1
  <2>3. QED
    BY <1>2, <2>1, <2>2 DEF InviteInv, Owns, HasApp
<1>3. CASE run' = run /\ (CallerMoves \/ Outside \/ UNCHANGED vars)
  <2>1. app' = app \/ Outside
    BY <1>1, <1>3, CallerEffect DEF vars, worldVars
  <2>2. QED
    BY <1>2, <1>3, <2>1 DEF Pos, At, Cur
<1>4. ASSUME NEW c \in Callers, Acquire(c) PROVE FALSE
  BY <1>1, <1>4, AcquireRun DEF Pos, At
<1>5. CASE run' = Idle
  BY <1>5 DEF Idle, Pos, At
<1>6. CASE WorkerStep
  <2>1. /\ SameTask /\ Cur' = Cur /\ run.mode = "create"
        /\ \/ Pos = "advance" /\ PersistStep
           \/ PushBits /\ run.rec.phase = "staging" /\ Pos' \notin Abort
           \/ Allow
           \/ Probe
           \/ run.rec.phase # "staging"
           \/ SaveMember
    BY <1>1, <1>6, ToAdvance
  <2>2. CASE Pos = "advance" /\ PersistStep
    BY <1>2, <2>1, <2>2 DEF SameTask, PersistStep, worldVars
  <2>3. CASE PushBits /\ Pos' \notin Abort
    <3>1. Pos = "push"
      BY <2>3 DEF PushBits, Creating, At, Pos
    <3>2. installed[Cur]
      BY <1>1, <2>1, <3>1 DEF WorkerCloned
    <3>3. QED
      BY <1>1, <2>1, <2>3, <3>2, PushMakes
  <2>4. CASE Allow \/ Probe \/ SaveMember
    <3>1. Pos \in {"allow", "probe", "saveMember"}
      BY <2>4 DEF Allow, Probe, Poll, SaveMember, Creating, At, Pos
    <3>2. QED
      BY <1>1, <2>1, <3>1 DEF EffectInv, StepInv, SameTask
  <2>5. QED
    BY <2>1, <2>2, <2>3, <2>4 DEF SameTask
<1>7. QED
  BY <1>1, <1>3, <1>4, <1>5, <1>6, NextRun

(* From staging on the app of a sandbox that is to exist carries the       *)
(* invite prepared last, although invites expire and are replaced while    *)
(* pushes, writes and the process itself fail.  The phase in the record is *)
(* not enough to see it: a worker goes on with the phase it has read while *)
(* a retry or a DELETE rewrites the record under it.                       *)
THEOREM InviteHolds == Spec => []InviteCurrent
<1>1. Init => Ground /\ InviteInv
  <2>1. ASSUME Init PROVE InviteInv
    <3>1. \A n \in Names : ~Owns(n)
      BY <2>1 DEF Init, CFInit, Owns, HasApp
    <3>2. Pos = "idle"
      BY <2>1 DEF Init, WorkerInit, Idle, Pos, At
    <3>3. QED
      BY <3>1, <3>2 DEF InviteInv
  <2>2. QED
    BY <2>1, InitGround
<1>2. Ground /\ InviteInv /\ [Next]_vars => Ground' /\ InviteInv'
  <2>1. ASSUME Ground, InviteInv, [Next]_vars PROVE InviteInv'
    <3>1. \A n \in Names :
            Live(n)' /\ Owns(n)' /\ (LivePhases(n) \cap Invited # {})'
                => app'[n].token
      BY <2>1, InvitesKept
    <3>2. /\ run'.mode = "create" /\ Pos' = "advance"
          /\ run'.rec.phase = "staging" /\ Owns(Cur)'
          => app'[Cur'].token
      BY <2>1, InvitePushed
    <3>3. QED
      BY <3>1, <3>2 DEF InviteInv
  <2>2. QED
    BY <2>1, NextGround
<1>3. InviteInv => InviteCurrent
  BY DEF InviteInv, InviteCurrent, Live, Wanted, LivePhases, PhasesOf,
         EffectivePhase, Invited
<1>4. QED
  BY <1>1, <1>2, <1>3, PTL DEF Spec

-----------------------------------------------------------------------------
(* EnrollWhenUsable.                                                       *)

(* Where the steps are taken that the invariants have something to say of. *)
LEMMA Arrives ==
    ASSUME BaseInv, WorkerStep, run'.mode = "create",
           Pos' \in {"push", "claim", "cleanup", "saveMember"}
    PROVE  /\ Cur' = Cur /\ run.mode = "create"
           /\ \/ SameTask /\ PersistStep /\ Pos' = Pos
              \/ SameTask /\ Preflight /\ Pos' = "push"
              \/ Discover /\ Pos' = "claim"
              \/ SameTask /\ Await /\ Pos' = "cleanup"
              \/ SameTask /\ Cleanup /\ Pos' = "saveMember"
<1>1. Pos' \notin Abort \cup {"top"}
  BY DEF Abort
<1>2. ~Top /\ ~Recheck
  <2>1. ASSUME NEW p \in CreatePhases
        PROVE FirstStep[p] \notin {"push", "claim", "saveHost", "cleanup", "saveMember"}
    BY FirstEffect
  <2>2. Top => Pos' \notin {"push", "claim", "saveHost", "cleanup", "saveMember"}
    BY <2>1, TopTask DEF Pos, At
  <2>3. QED
    BY <2>2, RecheckEffect
<1>3. CASE Discover
  BY <1>1, <1>3, DiscoverKeeps, DiscoverEffect DEF Discover, Creating
<1>4. ASSUME ~Discover PROVE SameTask /\ Cur' = Cur /\ run.mode = "create"
  BY <1>2, <1>4, SteadySteps DEF SameTask, Cur
<1>5. CASE PersistStep
  BY <1>1, <1>5, PersistStepEffect DEF Moved, SameTask, Cur
<1>6. CASE Cleanup
  BY <1>1, <1>6, CleanupEffect DEF Moved, SameTask, Cur
<1>7. CASE DeleteStep
  BY <1>7, DeleteEffects
<1>8. CASE Fail
  BY <1>1, <1>8, FailEffect DEF Moved
<1>9. CASE Preflight \/ Await \/ Secure
  <2>1. \/ Preflight /\ Moved({"push"} \cup Abort)
        \/ Await /\ Moved({"cleanup"} \cup Abort)
        \/ Secure /\ Moved({"saveHost"} \cup Abort)
    BY <1>9, LookLeads, WriteLeads DEF Leads
  <2>2. QED
    BY <1>1, <2>1 DEF Moved, SameTask, Cur
<1>10. ASSUME \/ Inspect \/ Probe \/ Lookup \/ Confirm \/ Advance \/ Recover
              \/ SaveRevision \/ SaveHost \/ SaveMember \/ Claim \/ PushBits
              \/ Allow \/ Configure \/ StartStep \/ Install
              \/ Prepare \/ Cloning \/ EnsurePrepared \/ EnsureEnrollment \/ Trigger
       PROVE  FALSE
  <2>1. \E s : Leads(s, {"advance", "trigger", "top", "preflight", "cloning",
                         "saveRevision", "enroll", "install", "confirm"})
    BY <1>10, LookLeads, WriteLeads, BranchLeads DEF Leads, Moved
  <2>2. QED
    BY <1>1, <2>1 DEF Leads, Moved
<1>11. QED
  BY <1>2, <1>3, <1>4, <1>5, <1>6, <1>7, <1>8, <1>9, <1>10
     DEF WorkerStep, CreateStep

(* A deletion's sandbox is not being brought up. *)
LEMMA DeletedNotLive ==
    ASSUME TaskInv, run.mode = "delete", Pos \notin Finished
    PROVE  ~Live(Cur)
  BY DEF TaskInv, Live, Wanted, Busy

LEMMA DeletesNotLive ==
    ASSUME TaskInv, Revoke \/ Unguard \/ Unroute \/ Destroy \/ Expel
    PROVE  ~Live(Cur)
<1>1. run.mode = "delete" /\ Pos \notin Finished
  BY DEF Revoke, Unguard, Unroute, Destroy, Expel, Deleting, At, Pos, Finished
<1>2. QED
  BY <1>1, DeletedNotLive

(* What a sandbox that is brought up has, it keeps, unless the operator    *)
(* deletes its app.                                                        *)
LEMMA LiveKeeps ==
    ASSUME Ground, IdentitiesApart, [Next]_vars, Base', "deleteApp" \notin Faults,
           NEW n \in Names, Live(n)
    PROVE  /\ Owns(n) => Owns(n)' /\ app'[n].guid = app[n].guid
           /\ Exists(n) /\ Admitted(n) => store[n].appGUID \in leadPolicy'
           /\ Answers(n) => Answers(n)' \/ (PushBits /\ n = Cur)
<1>1. Base /\ TaskInv /\ BaseInv
  BY DEF Ground, Base
<1>2. Owns(n) => /\ Owns(n)' /\ app'[n].guid = app[n].guid
                 /\ app[n].started => app'[n].started \/ (PushBits /\ n = Cur)
  <2>1. CASE app'[n] = app[n]
    BY <2>1 DEF Owns, HasApp
  <2>2. CASE app'[n] # app[n]
    <3>1. ~(Destroy /\ n = Cur)
      BY <1>1, DeletesNotLive
    <3>2. QED
      BY <1>1, <2>2, <3>1, NextApps DEF SameApp, NewApp, Owns, HasApp
  <2>3. QED
    BY <2>1, <2>2
<1>3. route[n] = WholeRoute /\ ~(PushBits /\ n = Cur) => route'[n] = WholeRoute
  <2>1. route'[n] \subseteq WholeRoute
    BY DEF Base, BaseInv, TypeOK, CFTypeOK
  <2>2. ~((Unguard \/ Unroute \/ Destroy) /\ n = Cur)
    BY <1>1, DeletesNotLive
  <2>3. route'[n] = route[n] \/ route[n] \subseteq route'[n] \/ (PushBits /\ n = Cur)
    BY <1>1, <2>2, NextRoutes
  <2>4. QED
    BY <2>1, <2>3
<1>4. ASSUME Exists(n), Admitted(n) PROVE store[n].appGUID \in leadPolicy'
  <2>1. PICK g \in Guids : g = store[n].appGUID /\ g \in leadPolicy
    BY <1>1, <1>4 DEF Admitted, BaseInv, TypeOK, CFTypeOK
  <2>2. CASE leadPolicy' = leadPolicy
    BY <2>1, <2>2
  <2>3. CASE Allow
    BY <2>1, <2>3 DEF Allow, AddRoutePolicy
  <2>4. CASE Revoke
    <3>1. Cur # n /\ Cur \in Names
      BY <1>1, <2>4, DeletesNotLive, Working DEF Revoke, Deleting
    <3>2. run.rec.appGUID # g
      BY <1>4, <2>1, <3>1 DEF IdentitiesApart, Refers
    <3>3. QED
      BY <2>1, <2>4, <3>2 DEF Revoke, RemoveRoutePolicy
  <2>5. QED
    BY <2>2, <2>3, <2>4, Touches
<1>5. QED
  BY <1>2, <1>3, <1>4 DEF Answers

(* The identity a policy admits is not replaced. *)
LEMMA AdmittedKept ==
    ASSUME Ground, IdentitiesApart, [Next]_vars, Base', "deleteApp" \notin Faults,
           NEW n \in Names, Live(n), Exists(n), Exists(n)', Admitted(n)
    PROVE  Admitted(n)'
<1>1. Base /\ CreateInv /\ store[n].appGUID # NoGuid
  BY IdentityAssumption DEF Ground, Base, BaseInv, TypeOK, CFTypeOK, Admitted
<1>2. store'[n].appGUID = store[n].appGUID
  <2>1. CASE n = Cur /\ Claim /\ store'[n].appGUID = run.rec.appGUID
    BY <1>1, <2>1 DEF CreateInv, Claim, Creating, At, Pos
  <2>2. QED
    BY <1>1, <2>1, RecordMoves
<1>3. QED
  BY <1>2, LiveKeeps DEF Admitted

(* What the phase a turn leads to needs has been achieved. *)
LEMMA UsableTurns ==
    ASSUME Ground, UsableInv, NEW n \in Names, NEW p, Turns(n, p)
    PROVE  /\ p = "discovering-app" => Owns(n)
           /\ p \in PolicyPhases /\ store[n].internalHost => Admitted(n)
           /\ p = "triggering-enrollment" => store[n].internalHost /\ Answers(n)
           /\ p = "securing-route" => Claim
<1>1. /\ Base /\ PhaseInv /\ EffectInv /\ StepInv /\ Achieved
      /\ run.mode = "create" /\ n = Cur
  BY DEF Ground, CloneInv, SnapInv, Turns, Advance, Claim, Creating, UsableInv
<1>2. CASE Advance /\ p = NextPhase[run.rec.phase]
  <2>1. Pos = "advance" /\ run.step = "advance"
    BY <1>2 DEF Advance, Creating, At, Pos
  <2>2. /\ run.rec.phase \in CreatePhases \cap LivePhases(n) /\ Usable(n)
        /\ run.rec.phase # "discovering-app"
    BY <1>1, <2>1, BusySteps, BusyOnly DEF Finished, EffectInv, UsableInv
  <2>3. /\ p = "discovering-app" => run.rec.phase = "staging"
        /\ p \in PolicyPhases =>
                run.rec.phase \in PolicyPhases \cup {"securing-manager-route"}
        /\ p = "triggering-enrollment" => run.rec.phase = "waiting-for-route"
        /\ p # "securing-route"
    BY <1>2, <2>2 DEF NextPhase, PolicyPhases, CreatePhases, PreparePhases,
                      NeedsEnrollment, WaitPhases
  <2>4. QED
    BY <1>1, <2>1, <2>2, <2>3 DEF Achieved, Usable
<1>3. CASE Claim /\ p \in {recovery[n], "securing-route"} \ {NoPhase}
  <2>1. Pos = "claim" /\ run.step = "claim"
    BY <1>3 DEF Claim, Creating, At, Pos
  <2>2. Owns(n) /\ Usable(n)
    BY <1>1, <2>1, BusySteps, BusyOnly DEF Finished, UsableInv, Achieved
  <2>3. p # "triggering-enrollment" /\ "securing-route" \notin PolicyPhases
    BY <1>1, <1>3 DEF Base, BaseInv, TypeOK, WorkerTypeOK, NoPhase,
                      PolicyPhases, NeedsEnrollment, WaitPhases
  <2>4. QED
    BY <1>3, <2>2, <2>3 DEF Usable
<1>4. QED
  BY <1>2, <1>3 DEF Turns

(* How the phase to return to changes. *)
LEMMA Recoveries ==
    ASSUME Base, [Next]_vars, NEW n \in Names
    PROVE  \/ recovery'[n] = recovery[n] /\ ~(Claim /\ n = Cur)
           \/ recovery'[n] = NoPhase
           \/ Recover /\ n = Cur /\ recovery'[n] = run.rec.phase
<1>1. recovery \in [Names -> NeedsEnrollment \cup {""}] /\ BaseInv
  BY DEF Base, BaseInv, TypeOK, WorkerTypeOK
<1>2. CASE Recover
  BY <1>1, <1>2 DEF Recover, Claim, Creating, At
<1>3. CASE Claim
  <2>1. PICK q : q = NoPhase /\ recovery' = [recovery EXCEPT ![Cur] = q]
    BY <1>3 DEF Claim, NoPhase
  <2>2. QED
    BY <1>1, <2>1
<1>4. CASE Crash
  <2>1. recovery'[n] = NoPhase
    BY <1>4 DEF Crash, NoPhase
  <2>2. QED
    BY <2>1
<1>5. QED
  BY <1>2, <1>3, <1>4, Touches

(* The parts of Usable, one by one.  The identity: *)
LEMMA UsableRecords ==
    ASSUME Ground, IdentitiesApart, UsableInv, [Next]_vars, Base',
           "deleteApp" \notin Faults, NEW n \in Names,
           Live(n), Exists(n), Exists(n)'
    PROVE  store'[n].appGUID # NoGuid =>
                HasGuid(n, store[n].appGUID)' /\ Owns(n)'
<1>1. Base /\ Usable(n) /\ Achieved
  BY DEF Ground, UsableInv
<1>2. ASSUME store'[n].appGUID # NoGuid
      PROVE  HasGuid(n, store[n].appGUID)' /\ Owns(n)'
  <2>1. CASE store'[n].appGUID = store[n].appGUID
    BY <1>1, <1>2, <2>1, LiveKeeps DEF Usable, HasGuid, Owns, HasApp
  <2>2. CASE n = Cur /\ Claim /\ store'[n].appGUID = run.rec.appGUID
    <3>1. run.mode = "create" /\ Pos = "claim" /\ app' = app
      BY <2>2 DEF Claim, Creating, At, Pos, worldVars
    <3>2. HasGuid(n, run.rec.appGUID) /\ Owns(n)
      BY <1>1, <2>2, <3>1 DEF Achieved
    <3>3. QED
      BY <2>2, <3>1, <3>2 DEF HasGuid, Owns, HasApp
  <2>3. QED
    BY <1>1, <2>1, <2>2, RecordMoves
<1>3. QED
  BY <1>2

(* The host of the route is written down in the phase securing-route. *)
LEMMA SaveHostPhase ==
    ASSUME Ground, SaveHost
    PROVE  /\ Cur \in Names /\ Live(Cur) /\ "securing-route" \in LivePhases(Cur)
           /\ LivePhases(Cur) \subseteq {"securing-route", NoPhase}
<1>1. run.mode = "create" /\ Pos = "saveHost" /\ run.step = "saveHost"
  BY DEF SaveHost, Creating, At, Pos
<1>2. Busy(Cur) /\ Cur \in Names /\ run.rec.phase = "securing-route"
  BY <1>1, BusySteps DEF Ground, SnapInv, EffectInv, Finished
<1>3. QED
  BY <1>2, BusyOnly DEF Ground, SnapInv

(* Recover is taken in the phase it is to return to. *)
LEMMA RecoverPhase ==
    ASSUME Ground, Recover
    PROVE  /\ Cur \in Names /\ Live(Cur) /\ run.rec.phase \in LivePhases(Cur)
           /\ LivePhases(Cur) \subseteq {run.rec.phase, NoPhase}
<1>1. run.mode = "create" /\ Pos = "recover" /\ run.step = "recover"
  BY DEF Recover, Creating, At, Pos
<1>2. Busy(Cur) /\ Cur \in Names
  BY <1>1, BusySteps DEF Ground, Finished
<1>3. QED
  BY <1>2, BusyOnly DEF Ground, SnapInv

(* The policies: *)
LEMMA UsablePolicies ==
    ASSUME Ground, IdentitiesApart, UsableInv, [Next]_vars, Base',
           "deleteApp" \notin Faults, NEW n \in Names,
           Live(n), Live(n)', Exists(n), Exists(n)', store'[n].internalHost
    PROVE  /\ (LivePhases(n) \cap PolicyPhases # {})' => Admitted(n)'
           /\ recovery'[n] \in PolicyPhases => Admitted(n)'
<1>1. Base /\ TaskInv /\ Usable(n)
  BY DEF Ground, UsableInv
<1>2. "securing-route" \notin PolicyPhases /\ NoPhase \notin PolicyPhases
      /\ PolicyPhases \cap Harmless = {}
  BY DEF PolicyPhases, NoPhase, WaitPhases, Harmless
<1>3. ASSUME NEW p \in LivePhases(n)', p \in PolicyPhases
      PROVE  Admitted(n)'
  <2>1. p \in LivePhases(n) \/ Turns(n, p)
    BY <1>1, <1>2, <1>3, LiveMoves
  <2>2. store[n].internalHost
    <3>1. ASSUME n = Cur, SaveHost PROVE FALSE
      <4>1. p \notin LivePhases(n)
        BY <1>2, <1>3, <3>1, SaveHostPhase
      <4>2. ~Turns(n, p)
        BY <3>1 DEF Turns, SaveHost, Advance, Claim, Creating, At
      <4>3. QED
        BY <2>1, <4>1, <4>2
    <3>2. QED
      BY <1>1, <3>1, RecordMoves
  <2>3. Admitted(n)
    BY <1>1, <1>3, <2>1, <2>2, UsableTurns DEF Usable
  <2>4. QED
    BY <2>3, AdmittedKept
<1>4. ASSUME recovery'[n] \in PolicyPhases
      PROVE  Admitted(n)'
  <2>1. Admitted(n)
    <3>1. CASE recovery'[n] = recovery[n]
      <4>1. ASSUME n = Cur, SaveHost PROVE FALSE
        BY <1>1, <1>4, <3>1, <4>1, SaveHostPhase DEF Usable
      <4>2. store[n].internalHost
        BY <1>1, <4>1, RecordMoves
      <4>3. QED
        BY <1>1, <1>4, <3>1, <4>2 DEF Usable
    <3>2. CASE Recover /\ n = Cur /\ recovery'[n] = run.rec.phase
      <4>1. ~SaveHost
        BY <3>2 DEF Recover, SaveHost, Creating, At
      <4>2. store[n].internalHost
        BY <1>1, <4>1, RecordMoves
      <4>3. run.rec.phase \in LivePhases(n)
        BY <3>2, RecoverPhase
      <4>4. QED
        BY <1>1, <1>4, <3>2, <4>2, <4>3 DEF Usable
    <3>3. QED
      BY <1>1, <1>2, <1>4, <3>1, <3>2, Recoveries
  <2>2. QED
    BY <2>1, AdmittedKept
<1>5. QED
  BY <1>3, <1>4

(* And what else the phases say: *)
LEMMA UsablePhases ==
    ASSUME Ground, IdentitiesApart, UsableInv, [Next]_vars, Base',
           "deleteApp" \notin Faults, NEW n \in Names,
           Live(n), Live(n)', Exists(n), Exists(n)'
    PROVE  /\ "discovering-app" \in LivePhases(n)' => Owns(n)'
           /\ "triggering-enrollment" \in LivePhases(n)' =>
                store'[n].internalHost /\ Answers(n)'
           /\ "securing-route" \in LivePhases(n)' => recovery'[n] \notin PolicyPhases
<1>1. Base /\ TaskInv /\ PhaseInv /\ StepInv /\ Usable(n)
  BY DEF Ground, CloneInv, SnapInv, UsableInv
<1>2. ASSUME NEW p \in LivePhases(n)', p \notin Harmless
      PROVE  p \in LivePhases(n) \/ Turns(n, p)
  BY <1>1, <1>2, LiveMoves
<1>3. {"discovering-app", "triggering-enrollment", "securing-route"} \cap Harmless = {}
  BY DEF Harmless, NoPhase
<1>4. ASSUME "discovering-app" \in LivePhases(n)' PROVE Owns(n)'
  <2>1. Owns(n)
    BY <1>1, <1>2, <1>3, <1>4, UsableTurns DEF Usable
  <2>2. QED
    BY <2>1, LiveKeeps
<1>5. ASSUME "triggering-enrollment" \in LivePhases(n)'
      PROVE  store'[n].internalHost /\ Answers(n)'
  <2>1. store[n].internalHost /\ Answers(n)
    BY <1>1, <1>2, <1>3, <1>5, UsableTurns DEF Usable
  <2>2. store'[n].internalHost
    BY <1>1, <2>1, RecordMoves
  <2>3. ASSUME PushBits, n = Cur PROVE FALSE
    <3>1. run.mode = "create" /\ Pos = "push" /\ run.step = "push"
      BY <2>3 DEF PushBits, Creating, At, Pos
    <3>2. Busy(Cur) /\ run.rec.phase = "staging"
      BY <1>1, <3>1, BusySteps DEF StepInv, Finished
    <3>3. "triggering-enrollment" \notin LivePhases(n)
      BY <1>1, <2>3, <3>2, BusyOnly DEF NoPhase
    <3>4. ~Turns(n, "triggering-enrollment")
      BY <2>3 DEF Turns, PushBits, Advance, Claim, Creating, At
    <3>5. QED
      BY <1>2, <1>3, <1>5, <3>3, <3>4
  <2>4. QED
    BY <2>1, <2>2, <2>3, LiveKeeps
<1>6. ASSUME "securing-route" \in LivePhases(n)'
      PROVE  recovery'[n] \notin PolicyPhases
  <2>1. "securing-route" \in LivePhases(n) \/ (n = Cur /\ Claim)
    BY <1>2, <1>3, <1>6, UsableTurns DEF Turns
  <2>2. CASE recovery'[n] = recovery[n] /\ ~(Claim /\ n = Cur)
    BY <1>1, <2>1, <2>2 DEF Usable
  <2>3. CASE recovery'[n] = NoPhase
    BY <2>3 DEF PolicyPhases, WaitPhases, NoPhase
  <2>4. CASE Recover /\ n = Cur /\ recovery'[n] = run.rec.phase
    <3>1. ~Claim
      BY <2>4 DEF Recover, Claim, Creating, At
    <3>2. run.rec.phase = "securing-route"
      BY <2>1, <2>4, <3>1, RecoverPhase DEF NoPhase
    <3>3. QED
      BY <2>4, <3>2 DEF PolicyPhases, WaitPhases
  <2>5. QED
    BY <1>1, <2>2, <2>3, <2>4, Recoveries
<1>7. QED
  BY <1>4, <1>5, <1>6

LEMMA UsableNext ==
    ASSUME Ground, IdentitiesApart, UsableInv, [Next]_vars, Ground',
           "deleteApp" \notin Faults, NEW n \in Names, Live(n)'
    PROVE  Usable(n)'
<1>1. Base /\ TaskInv /\ Base' /\ TaskInv'
  BY DEF Ground
<1>2. CASE Created(n)
  <2>1. ~Live(n)
    BY <1>1, <1>2 DEF Created, Live, Wanted, Busy, TaskInv, Finished
  <2>2. LivePhases(n)' \subseteq Harmless
    BY <1>1, <2>1, LiveMoves
  <2>3. store'[n].appGUID = NoGuid /\ ~store'[n].internalHost
    BY <1>2, NewPhases DEF Created
  <2>4. {"discovering-app", "triggering-enrollment", "securing-route"} \cap Harmless = {}
    BY DEF Harmless, NoPhase
  <2>5. QED
    BY <2>2, <2>3, <2>4 DEF Usable
<1>3. CASE Live(n) /\ Exists(n)
  <2>1. Exists(n)'
    BY <1>1 DEF Live, Wanted, Busy, TaskInv, Finished
  <2>2. store'[n].appGUID # NoGuid => HasGuid(n, store[n].appGUID)' /\ Owns(n)'
    BY <1>1, <1>3, <2>1, UsableRecords
  <2>3. store'[n].internalHost =>
            /\ (LivePhases(n) \cap PolicyPhases # {})' => Admitted(n)'
            /\ recovery'[n] \in PolicyPhases => Admitted(n)'
    BY <1>1, <1>3, <2>1, UsablePolicies
  <2>4. /\ "discovering-app" \in LivePhases(n)' => Owns(n)'
        /\ "triggering-enrollment" \in LivePhases(n)' =>
                store'[n].internalHost /\ Answers(n)'
        /\ "securing-route" \in LivePhases(n)' => recovery'[n] \notin PolicyPhases
    BY <1>1, <1>3, <2>1, UsablePhases
  <2>5. QED
    BY <2>2, <2>3, <2>4 DEF Usable
<1>4. QED
  BY <1>1, <1>2, <1>3, LiveMoves

(* What the worker has achieved outlasts the steps of the others, and the  *)
(* write of the phase it is in.                                            *)
LEMMA AchievedStays ==
    ASSUME Ground, Achieved, [Next]_vars, Ground', "deleteApp" \notin Faults,
           Cur' = Cur, run'.rec = run.rec, run'.mode = run.mode, Pos' = Pos,
           \/ run' = run /\ (CallerMoves \/ Outside \/ UNCHANGED vars)
           \/ PersistStep
    PROVE  Achieved'
<1> SUFFICES ASSUME run.mode = "create", Pos \in {"push", "claim", "advance"}
             PROVE  Achieved'
  BY DEF Achieved
<1>1. Base /\ BaseInv /\ CreateInv /\ CreateInv'
  BY DEF Ground, Base
<1>2. PICK n \in Names : n = Cur
  BY <1>1 DEF BaseInv, FrameOK, Pos, At, Finished
<1>3. Exists(n) /\ Exists(n)'
  BY <1>1, <1>2 DEF CreateInv, Finished, Exists
<1>4. /\ app' = app /\ route' = route /\ leadPolicy' = leadPolicy
      \/ Outside
  BY <1>1, CallerEffect DEF vars, worldVars, PersistStep
<1>5. app'[n] = app[n] /\ route'[n] = route[n] /\ leadPolicy' = leadPolicy
  <2>1. CASE Outside
    BY <1>1, <1>2, <2>1, OutsideApps DEF CFOthers, MayIntrude
  <2>2. QED
    BY <1>4, <2>1
<1>6. /\ store'[n].appGUID = store[n].appGUID
      /\ store'[n].internalHost = store[n].internalHost
  <2>1. ~Claim /\ ~SaveHost
    <3>1. CASE PersistStep
      BY <3>1 DEF PersistStep, Claim, SaveHost, Creating, At
    <3>2. CASE run' = run
      <4>1. Claim \/ SaveHost => FrameInv
        BY <1>1, Working DEF Claim, SaveHost, Creating
      <4>2. ASSUME Claim \/ SaveHost PROVE FALSE
        <5>1. run'.step # run.step
          BY <4>1, <4>2 DEF Claim, SaveHost, Creating, At, GoOr, Oops, Go,
                            FrameInv, Frame
        <5>2. QED
          BY <3>2, <5>1
      <4>3. QED
        BY <4>2
    <3>3. QED
      BY <3>1, <3>2
  <2>2. QED
    BY <1>1, <1>3, <2>1, RecordMoves
<1>7. QED
  BY <1>2, <1>5, <1>6 DEF Achieved, HasGuid, Owns, HasApp, Admitted, Answers

(* An effect that succeeded has achieved what the phase is for. *)
LEMMA AchievedNext ==
    ASSUME Ground, UsableInv, [Next]_vars, Ground', "deleteApp" \notin Faults
    PROVE  Achieved'
<1>1. /\ Base /\ BaseInv /\ Achieved /\ EffectInv /\ StepInv /\ PhaseInv
      /\ CloneInv /\ CreateInv
  BY DEF Ground, Base, SnapInv, CloneInv, UsableInv
<1>2. CASE run' = run /\ (CallerMoves \/ Outside \/ UNCHANGED vars)
  BY <1>1, <1>2, AchievedStays DEF Pos, At, Cur
<1>3. ASSUME NEW c \in Callers, Acquire(c) PROVE Achieved'
  BY <1>1, <1>3, AcquireRun DEF Achieved, Pos, At
<1>4. CASE run' = Idle
  BY <1>4 DEF Idle, Achieved, Pos, At
<1>5. ASSUME WorkerStep, run'.mode = "create",
             Pos' \in {"push", "claim"}
      PROVE  Achieved'
  <2>1. CASE SameTask /\ PersistStep /\ Pos' = Pos
    BY <1>1, <2>1, AchievedStays DEF SameTask, Cur
  <2>2. CASE SameTask /\ Preflight /\ Pos' = "push"
    <3>1. run.mode = "create" /\ Pos = "preflight" /\ run.step = "preflight"
      BY <2>2 DEF Preflight, Creating, At, Pos
    <3>2. Busy(Cur) /\ Cur \in Names /\ FrameInv
      BY <1>1, <2>2, <3>1, BusySteps, Working DEF Preflight, Creating, Finished
    <3>3. ~StageRefused(Cur, run.rec.appGUID)
      <4>1. ASSUME Oops PROVE Pos' # "push"
        BY <3>2, <4>1, OopsMoves DEF Moved, Abort
      <4>2. QED
        BY <2>2, <4>1 DEF Preflight
    <3>4. run.rec.appGUID = store[Cur].appGUID /\ Usable(Cur)
      BY <1>1, <3>1, <3>2, BusyOnly DEF PhaseInv, Finished, UsableInv
    <3>5. HasApp(Cur) => Owns(Cur)
      BY <3>3, <3>4 DEF StageRefused, Usable
    <3>6. app' = app /\ Cur' = Cur
      BY <2>2 DEF Preflight, worldVars, SameTask, Cur
    <3>7. QED
      BY <2>2, <3>5, <3>6 DEF Achieved, HasApp, Owns
  <2>3. CASE Discover /\ Pos' = "claim"
    <3>1. run.mode = "create" /\ Pos = "discover" /\ run.step = "discover"
      BY <2>3 DEF Discover, Creating, At, Pos
    <3>2. Busy(Cur) /\ Cur \in Names /\ run.rec.phase = "discovering-app"
      BY <1>1, <3>1, BusySteps DEF Finished, StepInv
    <3>3. Owns(Cur)
      BY <1>1, <3>2, BusyOnly DEF UsableInv, Usable
    <3>4. FrameInv /\ run.rec \in Record /\ app' = app /\ Cur' = Cur
      BY <1>1, <2>3, DiscoverKeeps, Working DEF Discover, Creating, worldVars
    <3>5. run'.rec.appGUID = app[Cur].guid
      <4>1. ASSUME Oops PROVE Pos' # "claim"
        BY <3>4, <4>1, OopsMoves DEF Moved, Abort
      <4>2. run' = [run EXCEPT !.step = "claim", !.rec.appGUID = app[Cur].guid]
        BY <2>3, <4>1 DEF Discover
      <4>3. QED
        BY <3>4, <4>2 DEF FrameInv, Frame, Record
    <3>6. QED
      BY <2>3, <3>3, <3>4, <3>5 DEF Achieved, HasGuid, HasApp, Owns
  <2>4. QED
    BY <1>1, <1>5, <2>1, <2>2, <2>3, Arrives
<1>6. ASSUME WorkerStep, run'.mode = "create", Pos' = "advance"
      PROVE  Achieved'
  <2>1. SameTask /\ Cur' = Cur /\ run.mode = "create"
    BY <1>1, <1>6, ToAdvance
  <2>2. CASE Pos = "advance" /\ PersistStep
    BY <1>1, <1>6, <2>1, <2>2, AchievedStays DEF SameTask
  <2>3. CASE PushBits /\ run.rec.phase = "staging" /\ Pos' \notin Abort
    <3>1. Pos = "push"
      BY <2>3 DEF PushBits, Creating, At, Pos
    <3>2. SameApp(Cur) \/ NewApp(Cur, "manager")
      BY <1>1, <2>3, PushMakes
    <3>3. HasApp(Cur) => Owns(Cur)
      BY <1>1, <2>1, <3>1 DEF Achieved
    <3>4. Owns(Cur)'
      BY <2>1, <3>2, <3>3 DEF SameApp, NewApp, Owns, HasApp
    <3>5. QED
      BY <1>6, <2>1, <2>3, <3>4 DEF Achieved, SameTask
  <2>4. CASE Allow /\ Pos' \notin Abort
    <3>1. Pos = "allow" /\ run.rec.phase = "securing-manager-route"
          /\ run.rec.appGUID = store[Cur].appGUID /\ store' = store
      BY <1>1, <2>1, <2>4 DEF Allow, Creating, At, Pos, EffectInv, CreateInv, diskVars
    <3>2. FrameInv
      BY <1>1, <2>4, Working DEF Allow, Creating
    <3>3. PICK ok \in BOOLEAN :
            AddRoutePolicy(run.rec.appGUID, ok) /\ GoOr(ok, "advance")
      BY <2>4 DEF Allow
    <3>4. ok
      BY <2>4, <3>2, <3>3, OopsMoves DEF GoOr, Moved
    <3>5. run.rec.appGUID \in leadPolicy'
      BY <3>3, <3>4 DEF AddRoutePolicy
    <3>6. QED
      BY <1>6, <2>1, <3>1, <3>5 DEF Achieved, SameTask, Admitted
  <2>5. CASE Probe
    <3>1. Pos = "probe" /\ run.step = "probe" /\ run.rec.phase = "waiting-for-route"
      BY <1>1, <2>1, <2>5 DEF Probe, Poll, Creating, At, Pos, EffectInv
    <3>2. Busy(Cur) /\ Cur \in Names /\ FrameInv
      BY <1>1, <2>1, <2>5, <3>1, BusySteps, Working DEF Probe, Poll, Creating, Finished
    <3>3. run.rec.internalHost /\ Answers(Cur)
      BY <1>6, <2>5, <3>2, OopsMoves DEF Probe, Poll, Moved, Abort
    <3>4. store[Cur].internalHost
      BY <1>1, <3>2, <3>3 DEF PhaseInv
    <3>5. store' = store /\ app' = app /\ route' = route
      BY <2>5 DEF Probe, Poll, diskVars, worldVars
    <3>6. QED
      BY <1>6, <2>1, <3>1, <3>3, <3>4, <3>5
         DEF Achieved, SameTask, Answers, Owns, HasApp
  <2>6. CASE run.rec.phase \notin {"staging", "securing-manager-route",
                                   "waiting-for-route"}
    BY <1>6, <2>1, <2>6 DEF Achieved, SameTask
  <2>7. SaveMember => run.rec.phase = "joining-pack"
    BY <1>1, <2>1 DEF SaveMember, Creating, At, Pos, StepInv
  <2>8. QED
    BY <1>1, <1>6, <2>2, <2>3, <2>4, <2>5, <2>6, <2>7, ToAdvance
<1>7. CASE WorkerStep
  BY <1>5, <1>6, <1>7 DEF Achieved
<1>8. QED
  BY <1>1, <1>2, <1>3, <1>4, <1>7, NextRun

(* Unless the operator deletes the app at that very moment, a sandbox is   *)
(* asked to join only when the app it recorded is running and its route    *)
(* and both policies are in place, by whatever failures, retries, expired  *)
(* invites and restarts it has come there.  The app and the policy on the  *)
(* manager's route stay what their phases have made them; that the route   *)
(* is whole rests on the probe of waiting-for-route, for where Recover has *)
(* skipped the phase that secures it, a push has unmapped it.              *)
THEOREM JoinsWhenUsable ==
    ASSUME "deleteApp" \notin Faults
    PROVE  Spec => []EnrollWhenUsable
<1> DEFINE Inv == Ground /\ IdentitiesApart /\ UsableInv
<1>1. Init => UsableInv
  <2>1. ASSUME Init PROVE UsableInv
    <3>1. run = Idle /\ \A n \in Names : store[n] = NoRecord
      BY <2>1 DEF Init, WorkerInit, StoreInit
    <3>2. run.step = "idle" /\ Pos = "idle"
      BY <3>1 DEF Idle, Pos, At
    <3>3. QED
      BY <3>1, <3>2 DEF UsableInv, Live, Wanted, Exists, Busy, Finished, Achieved
  <2>2. QED
    BY <2>1
<1>2. Inv /\ [Next]_vars => Inv'
  BY NextGround, NextApart, UsableNext, AchievedNext DEF UsableInv, Ground
<1>3. Inv => EnrollWhenUsable
  <2>1. ASSUME Inv, At("trigger") PROVE /\ Answers(Cur) /\ HasGuid(Cur, store[Cur].appGUID)
                                        /\ app[Cur].guid \in leadPolicy
    <3>1. /\ Base /\ BaseInv /\ EffectInv /\ PhaseInv /\ UsableInv
          /\ Pos = "trigger" /\ run.step = "trigger"
      BY <2>1 DEF Ground, Base, SnapInv, Pos, At
    <3>2. run.mode = "create"
      BY <3>1 DEF EffectInv, DeleteSteps, Finished, BaseInv, TypeOK, WorkerTypeOK, Frame
    <3>3. Busy(Cur) /\ Cur \in Names /\ run.rec.phase = "triggering-enrollment"
      BY <3>1, <3>2, BusySteps DEF Finished, EffectInv
    <3>4. Usable(Cur) /\ "triggering-enrollment" \in LivePhases(Cur)
      BY <3>1, <3>3, BusyOnly DEF UsableInv
    <3>5. "triggering-enrollment" \in PolicyPhases
      BY DEF PolicyPhases, WaitPhases
    <3>6. Answers(Cur) /\ store[Cur].appGUID \in leadPolicy
      BY <3>4, <3>5 DEF Usable, Admitted
    <3>7. store[Cur].appGUID # NoGuid
      BY <3>1, <3>6, IdentityAssumption DEF BaseInv, TypeOK, CFTypeOK
    <3>8. QED
      BY <3>4, <3>6, <3>7 DEF Usable, HasGuid
  <2>2. QED
    BY <2>1 DEF EnrollWhenUsable
<1>4. Init => Inv
  <2>1. Init => IdentitiesApart
    BY InitApart
  <2>2. QED
    BY <1>1, <2>1, InitGround
<1> HIDE DEF Inv
<1>5. QED
  BY <1>2, <1>3, <1>4, PTL DEF Spec

-----------------------------------------------------------------------------
(* ReadyIsMember.                                                          *)

(* What the member theorems rest on where no join comes late. *)
Footing == Ground /\ Safe

(* Only a deletion expels a member. *)
LEMMA MembersStay ==
    ASSUME Base, NoLateJoin, [Next]_vars, NEW n \in Names
    PROVE  \/ member'[n] = member[n]
           \/ Trigger /\ n = Cur /\ CanJoin(n) /\ member'[n] = app[n].guid
              /\ MemberPresent(n)'
           \/ Expel /\ n = Cur
<1>1. CanJoin(n) => app[n].guid \in Guids
  BY DEF CanJoin, Base, BaseInv, TypeOK, CFTypeOK
<1>2. late[n] = NoGuid
  BY DEF NoLateJoin
<1>3. QED
  BY <1>1, <1>2, NextMembers, IdentityAssumption DEF MemberPresent

(* A sandbox that has joined stays so, until it is expelled. *)
LEMMA JoinedStays ==
    ASSUME Footing, MemberInv, [Next]_vars, Footing', NEW n \in Names,
           Joined(n), ~(Expel /\ n = Cur)
    PROVE  Joined(n)'
<1>1. Base /\ NoLateJoin /\ NoLeak /\ NoLeak'
  BY DEF Footing, Ground, Safe
<1>2. MemberPresent(n)'
  BY <1>1, MembersStay DEF Joined, MemberPresent
<1>3. Exists(n) /\ Exists(n)'
  BY <1>1, <1>2 DEF NoLeak, Joined
<1>4. QED
  BY <1>1, <1>2, <1>3, RecordMoves DEF Joined

(* A member is the recorded app. *)
LEMMA MembersRecorded ==
    ASSUME Footing, MemberInv, [Next]_vars, Footing', NEW n \in Names,
           MemberPresent(n)'
    PROVE  Exists(n)' /\ member'[n] = store'[n].appGUID
<1>1. Base /\ NoLateJoin /\ NoLeak /\ NoLeak' /\ CreateInv /\ EffectInv /\ PhaseInv
  BY DEF Footing, Ground, SnapInv, Safe, Base
<1>2. Exists(n)'
  BY <1>1 DEF NoLeak
<1>3. CASE member'[n] = member[n]
  <2>1. Exists(n) /\ member[n] = store[n].appGUID /\ store[n].appGUID # NoGuid
    BY <1>3 DEF MemberPresent, MemberInv
  <2>2. store'[n].appGUID = store[n].appGUID
    <3>1. CASE n = Cur /\ Claim /\ store'[n].appGUID = run.rec.appGUID
      BY <1>1, <2>1, <3>1 DEF CreateInv, Claim, Creating, At, Pos
    <3>2. QED
      BY <1>1, <1>2, <2>1, <3>1, RecordMoves
  <2>3. QED
    BY <1>2, <1>3, <2>1, <2>2
<1>4. CASE Trigger /\ n = Cur /\ CanJoin(n) /\ member'[n] = app[n].guid
  <2>1. run.mode = "create" /\ Pos = "trigger" /\ run.step = "trigger" /\ store' = store
    BY <1>4 DEF Trigger, Creating, At, Pos, diskVars
  <2>2. Busy(Cur) /\ run.rec.phase = "triggering-enrollment"
    BY <1>1, <2>1, BusySteps DEF Finished, EffectInv
  <2>3. Live(n) /\ "triggering-enrollment" \in LivePhases(n) \cap ClaimedPhases
    BY <1>1, <1>4, <2>2, BusyOnly DEF ClaimedPhases, WaitPhases
  <2>4. HasGuid(n, store[n].appGUID)
    BY <1>4, <2>3 DEF MemberInv, CanJoin, Answers
  <2>5. QED
    BY <1>2, <1>4, <2>1, <2>4 DEF HasGuid
<1>5. CASE Expel /\ n = Cur
  <2>1. member'[n] \in {member[n], NoGuid}
    <3>1. ~Trigger /\ late[n] = NoGuid
      BY <1>1, <1>5 DEF Expel, Trigger, Creating, Deleting, At, NoLateJoin
    <3>2. QED
      BY <1>1, <3>1, NextMembers
  <2>2. QED
    BY <1>3, <2>1 DEF MemberPresent
<1>6. QED
  BY <1>1, <1>3, <1>4, <1>5, MembersStay

(* What becomes of ready in a record. *)
LEMMA ReadyJoined ==
    ASSUME Footing, MemberInv, [Next]_vars, Footing', NEW n \in Names,
           Exists(n)', "ready" \in PhasesOf(n)'
    PROVE  Joined(n)'
<1>1. /\ Base /\ StepInv /\ EffectInv /\ PhaseInv
      /\ "ready" \notin {NoPhase, "deleting", "failed", "creating"}
  BY DEF Footing, Ground, CloneInv, SnapInv, NoPhase
<1>2. ASSUME Exists(n), "ready" \in PhasesOf(n) PROVE Joined(n)'
  <2>1. Joined(n)
    BY <1>2 DEF MemberInv
  <2>2. ~(Expel /\ n = Cur)
    BY <1>2 DEF MemberInv, Expel, Deleting, At, Finished
  <2>3. QED
    BY <2>1, <2>2, JoinedStays
<1>3. ASSUME run.mode = "create", run.step # "idle", run.rec.phase = "ready", n = Cur
      PROVE  Joined(n)'
  <2>1. Joined(n) /\ ~Expel
    BY <1>3 DEF MemberInv, Expel, Deleting
  <2>2. QED
    BY <2>1, JoinedStays
<1>4. CASE store'[n] = store[n]
  BY <1>2, <1>4 DEF PhasesOf, Exists
<1>5. CASE Created(n) \/ Doomed(n) \/ Resumed(n)
  BY <1>1, <1>2, <1>5, NewPhases DEF Created, Doomed, Resumed, Rewrites, PhasesOf
<1>6. CASE n = Cur /\ Wrote(n)
  <2>1. CASE PersistStep /\ Rewrites(n, IF run.mode = "create" THEN run.rec.phase
                                        ELSE "deleting", NoPhase)
    BY <1>1, <1>3, <1>6, <2>1 DEF Rewrites, PhasesOf, PersistStep, At
  <2>2. CASE Fail /\ Rewrites(n, "failed", IF run.mode = "create" THEN run.rec.phase
                                           ELSE "deleting")
    BY <1>1, <1>3, <1>6, <2>2 DEF Rewrites, PhasesOf, Fail, At
  <2>3. CASE Advance /\ Rewrites(n, NextPhase[run.rec.phase], NoPhase)
    <3>1. run.mode = "create" /\ Pos = "advance" /\ run.step = "advance" /\ ~Expel
      BY <2>3 DEF Advance, Creating, At, Pos, Expel, Deleting
    <3>2. Busy(Cur) /\ run.rec.phase \in CreatePhases
      BY <1>1, <3>1, BusySteps DEF Finished
    <3>3. NextPhase[run.rec.phase] = "ready"
      BY <1>1, <2>3 DEF Rewrites, PhasesOf
    <3>4. run.rec.phase = "joining-pack"
      BY <3>2, <3>3 DEF NextPhase, CreatePhases, PreparePhases, NeedsEnrollment,
                        WaitPhases
    <3>5. MemberPresent(n) /\ store[n].packMemberID /\ store[n].internalHost
      BY <1>1, <1>6, <3>1, <3>2, <3>4, BusyOnly DEF MemberInv
    <3>6. QED
      BY <3>1, <3>5, JoinedStays DEF Joined
  <2>4. CASE Recover /\ Rewrites(n, "preparing-invite", NoPhase)
    BY <1>1, <2>4 DEF Rewrites, PhasesOf
  <2>5. CASE \/ Rewrites(n, store[n].phase, store[n].resumePhase)
             \/ Notes(n, TRUE, store[n].packMemberID)
             \/ Notes(n, store[n].internalHost, TRUE)
    BY <1>2, <2>5 DEF Rewrites, Notes, PhasesOf
  <2>6. CASE Claim /\ Claims(n)
    <3>1. recovery[n] \in NeedsEnrollment \cup {NoPhase}
      BY <1>1 DEF Base, BaseInv, TypeOK, WorkerTypeOK, NoPhase
    <3>2. "ready" \notin NeedsEnrollment \cup {NoPhase, "securing-route"}
      BY <1>1 DEF NeedsEnrollment
    <3>3. QED
      BY <1>2, <2>6, <3>1, <3>2 DEF Claims, PhasesOf
  <2>7. QED
    BY <1>6, <2>1, <2>2, <2>3, <2>4, <2>5, <2>6 DEF Wrote, Exists
<1>7. QED
  BY <1>1, <1>4, <1>5, <1>6, NextWrites

(* The phases the worker of a claim leaves, and the identity it writes. *)
LEMMA ClaimLeaves ==
    ASSUME Ground, MemberInv, [Next]_vars, Claim, Live(Cur)', Owns(Cur),
           (LivePhases(Cur) \cap ClaimedPhases # {})'
    PROVE  HasGuid(Cur, store[Cur].appGUID)'
<1>1. /\ Base /\ BaseInv /\ StepInv /\ PhaseInv /\ run.mode = "create"
      /\ Pos = "claim" /\ run.step = "claim"
  BY DEF Ground, Base, CloneInv, SnapInv, Claim, Creating, At, Pos
<1>2. Busy(Cur) /\ Cur \in Names /\ run.rec.phase = "discovering-app"
  BY <1>1, BusySteps DEF Finished, StepInv
<1>3. /\ Moved({"top"} \cup Abort) /\ Cur' = Cur /\ run'.rec = run.rec
      /\ ~Busy(Cur)'
  <2>1. Moved({"top"} \cup Abort) /\ run'.step \in {"top"} \cup Abort
    BY <1>1, WriteLeads, TurnEnds DEF Leads
  <2>2. QED
    BY <2>1 DEF Moved, SameTask, Cur, Busy, Abort, Finished
<1>4. HasGuid(Cur, run.rec.appGUID) /\ app' = app
  BY <1>1 DEF MemberInv, Claim, worldVars
<1>5. PICK n \in Names : n = Cur
  BY <1>2
<1>6. store'[n].appGUID = run.rec.appGUID
  <2>1. CASE store'[n] # store[n]
    <3>1. Claims(n)
      BY <1>1, <1>5, <2>1, NoteWrites DEF Writes, StoreOthers
    <3>2. QED
      BY <3>1 DEF Claims
  <2>2. CASE store'[n] = store[n]
    <3>1. Wanted(n)' /\ Wanted(n)
      BY <1>3, <1>5, <2>2 DEF Live, Wanted, Exists
    <3>2. PhasesOf(n) \subseteq {"discovering-app", NoPhase}
      BY <1>1, <1>2, <1>5, <3>1 DEF PhaseInv
    <3>3. LivePhases(n)' \subseteq {"discovering-app", NoPhase}
      BY <1>2, <1>3, <1>5, <2>2, <3>1, <3>2 DEF LivePhases, WorkersPhase, PhasesOf
    <3>4. ClaimedPhases \cap {"discovering-app", NoPhase} = {}
      BY DEF ClaimedPhases, NeedsEnrollment, WaitPhases, NoPhase
    <3>5. QED
      BY <1>3, <1>5, <3>3, <3>4
  <2>3. QED
    BY <2>1, <2>2
<1>7. QED
  BY <1>3, <1>4, <1>5, <1>6 DEF HasGuid, HasApp

(* The phases that a claimed app and a recorded host are needed in. *)
LEMMA MemberTurns ==
    ASSUME Ground, MemberInv, NEW n \in Names, NEW p, Turns(n, p), ~Claim
    PROVE  /\ p \in ClaimedPhases => LivePhases(n) \cap ClaimedPhases # {}
           /\ p \in {"triggering-enrollment", "joining-pack"} => store[n].internalHost
<1>1. /\ Base /\ PhaseInv /\ EffectInv /\ Advance /\ p = NextPhase[run.rec.phase]
      /\ run.mode = "create" /\ n = Cur
      /\ Pos = "advance" /\ run.step = "advance"
  BY DEF Ground, SnapInv, Turns, Advance, Creating, At, Pos
<1>2. /\ Busy(Cur) /\ run.rec.phase \in CreatePhases \cap LivePhases(n)
      /\ run.rec.phase # "discovering-app" /\ Live(n)
  BY <1>1, BusySteps, BusyOnly DEF Finished, EffectInv
<1>3. /\ p \in ClaimedPhases => run.rec.phase \in ClaimedPhases
      /\ p = "triggering-enrollment" => run.rec.phase = "waiting-for-route"
      /\ p = "joining-pack" => run.rec.phase = "triggering-enrollment"
  BY <1>1, <1>2 DEF NextPhase, ClaimedPhases, CreatePhases, PreparePhases,
                    NeedsEnrollment, WaitPhases
<1>4. QED
  BY <1>1, <1>2, <1>3 DEF MemberInv

LEMMA ClaimedNext ==
    ASSUME Ground, MemberInv, [Next]_vars, Ground', NEW n \in Names, Live(n)'
    PROVE  /\ (LivePhases(n) \cap ClaimedPhases # {})' /\ Owns(n)' =>
                HasGuid(n, store[n].appGUID)'
           /\ (LivePhases(n) \cap {"triggering-enrollment", "joining-pack"} # {})' =>
                store'[n].internalHost
<1>1. Base /\ TaskInv /\ StepInv /\ PhaseInv /\ TaskInv'
  BY DEF Ground, CloneInv, SnapInv
<1>2. ClaimedPhases \cap Harmless = {}
      /\ {"triggering-enrollment", "joining-pack"} \subseteq ClaimedPhases
  BY DEF ClaimedPhases, Harmless, NeedsEnrollment, WaitPhases, NoPhase
<1>3. ASSUME NEW p \in LivePhases(n)', p \in ClaimedPhases
      PROVE  Live(n) /\ Exists(n) /\ Exists(n)' /\ (p \in LivePhases(n) \/ Turns(n, p))
  <2>1. Live(n) /\ (p \in LivePhases(n) \/ Turns(n, p))
    BY <1>1, <1>2, <1>3, LiveMoves
  <2>2. Exists(n) /\ Exists(n)'
    BY <1>1, <2>1 DEF Live, Wanted, Busy, TaskInv, Finished
  <2>3. QED
    BY <2>1, <2>2
<1>4. ASSUME NEW p \in LivePhases(n)', p \in ClaimedPhases, Owns(n)'
      PROVE  HasGuid(n, store[n].appGUID)'
  <2>1. CASE Claim /\ n = Cur
    <3>1. app' = app /\ Cur' = Cur
      BY <1>1, <2>1, WriteLeads DEF Base, Claim, worldVars, Leads, Moved, SameTask, Cur
    <3>2. QED
      BY <1>4, <2>1, <3>1, ClaimLeaves DEF Owns, HasApp
  <2>2. CASE ~(Claim /\ n = Cur)
    <3>1. PICK q : q \in LivePhases(n) /\ q \in ClaimedPhases
      BY <1>3, <1>4, <2>2, MemberTurns DEF Turns
    <3>2. store'[n].appGUID = store[n].appGUID
      BY <1>1, <1>3, <1>4, <2>2, RecordMoves
    <3>3. Owns(n) => HasGuid(n, store[n].appGUID)
      BY <1>3, <1>4, <3>1 DEF MemberInv
    <3>4. CASE app'[n] = app[n]
      BY <1>4, <3>2, <3>3, <3>4 DEF Owns, HasGuid, HasApp
    <3>5. ASSUME PushBits, n = Cur PROVE FALSE
      <4>1. run.mode = "create" /\ Pos = "push" /\ run.step = "push"
        BY <3>5 DEF PushBits, Creating, At, Pos
      <4>2. Busy(Cur) /\ run.rec.phase = "staging"
        BY <1>1, <4>1, BusySteps DEF Finished, StepInv
      <4>3. ClaimedPhases \cap {"staging", NoPhase} = {}
        BY DEF ClaimedPhases, NeedsEnrollment, WaitPhases, NoPhase
      <4>4. QED
        BY <1>1, <3>1, <3>5, <4>2, <4>3, BusyOnly
    <3>6. CASE SameApp(n)
      BY <1>4, <3>2, <3>3, <3>6 DEF SameApp, Owns, HasGuid, HasApp
    <3>7. CASE app'[n] = NoApp \/ NewApp(n, "operator")
      BY <1>4, <3>7 DEF NewApp, Owns, HasApp
    <3>8. QED
      BY <1>1, <3>4, <3>5, <3>6, <3>7, NextApps
  <2>3. QED
    BY <2>1, <2>2
<1>5. ASSUME NEW p \in LivePhases(n)', p \in {"triggering-enrollment", "joining-pack"}
      PROVE  store'[n].internalHost
  <2>1. ~(Claim /\ Turns(n, p))
    <3>1. ASSUME Claim, Turns(n, p) PROVE FALSE
      <4>1. recovery[n] \in NeedsEnrollment \cup {NoPhase} /\ ~Advance
        BY <1>1, <3>1 DEF Base, BaseInv, TypeOK, WorkerTypeOK, NoPhase,
                          Advance, Claim, Creating, At
      <4>2. p \in {recovery[n], "securing-route"} \ {NoPhase}
        BY <3>1, <4>1 DEF Turns
      <4>3. QED
        BY <1>5, <4>1, <4>2 DEF NeedsEnrollment
    <3>2. QED
      BY <3>1
  <2>2. store[n].internalHost
    BY <1>2, <1>3, <1>5, <2>1, MemberTurns DEF MemberInv
  <2>3. QED
    BY <1>1, <1>2, <1>3, <1>5, <2>2, RecordMoves
<1>6. QED
  BY <1>4, <1>5

(* The snapshot of a creation says ready of a member only. *)
LEMMA SnapshotJoined ==
    ASSUME Footing, MemberInv, [Next]_vars, Footing',
           run'.mode = "create", run'.step # "idle", run'.rec.phase = "ready"
    PROVE  Joined(Cur)'
<1>1. Base /\ BaseInv
  BY DEF Footing, Ground, Base
<1>2. ASSUME run.mode = "create", run.step # "idle", run.rec.phase = "ready", Cur' = Cur
      PROVE  Joined(Cur)'
  <2>1. Joined(Cur) /\ ~Expel
    BY <1>2 DEF MemberInv, Expel, Deleting
  <2>2. PICK n \in Names : n = Cur
    BY <1>1, <1>2 DEF BaseInv, FrameOK
  <2>3. Joined(n)'
    BY <2>1, <2>2, JoinedStays
  <2>4. QED
    BY <1>2, <2>2, <2>3 DEF Joined, MemberPresent
<1>3. ASSUME NEW n \in Names, Exists(n), store[n].phase = "ready", Cur' = n,
             UNCHANGED <<store, member>>
      PROVE  Joined(Cur)'
  <2>1. Joined(n)
    BY <1>3 DEF MemberInv, PhasesOf
  <2>2. QED
    BY <1>3, <2>1 DEF Joined, MemberPresent
<1>4. CASE run' = run
  BY <1>2, <1>4 DEF Cur
<1>5. ASSUME NEW c \in Callers, Acquire(c)
      PROVE  Joined(Cur)'
  <2>1. /\ who[c] \in Names /\ Cur' = who[c] /\ UNCHANGED <<store, member>>
        /\ ~Exists(who[c]) => run'.rec = NewRecord
        /\ Exists(who[c]) => run'.rec = store[who[c]]
    BY <1>1, <1>5, AcquireRun DEF Entered, Cur, Acquire, worldVars
  <2>2. QED
    BY <1>3, <2>1, NewPhases
<1>6. CASE run' = Idle
  BY <1>6 DEF Idle
<1>7. CASE Top \/ Recheck
  <2>1. /\ Cur' = Cur /\ Cur \in Names /\ run.mode = "create" /\ run.step # "idle"
        /\ UNCHANGED <<store, member>>
        /\ run'.rec = IF Exists(Cur) THEN store[Cur] ELSE run.rec
    BY <1>1, <1>7, RecordRead DEF worldVars
  <2>2. QED
    BY <1>2, <1>3, <2>1
<1>8. CASE Discover
  BY <1>1, <1>2, <1>8, DiscoverKeeps DEF Discover, Creating
<1>9. CASE SameTask /\ run.step # "idle"
  BY <1>2, <1>9 DEF SameTask, Cur
<1>10. QED
  BY <1>1, <1>4, <1>5, <1>6, <1>7, <1>8, <1>9, NextRun, SteadySteps DEF Finished

(* The step persist is the write of the phase. *)
LEMMA OnlyPersist ==
    ASSUME WorkerStep, At("persist")
    PROVE  PersistStep
<1>1. ~CreateStep
  BY DEF CreateStep, Top, Recover, Advance, Recheck, Prepare, Cloning,
         SaveRevision, EnsurePrepared, EnsureEnrollment, Install, Preflight,
         PushBits, Discover, Claim, Secure, SaveHost, Allow, Configure,
         StartStep, Inspect, Probe, Lookup, Trigger, Confirm, Await, Poll,
         SaveMember, Creating, At
<1>2. ~DeleteStep /\ ~Cleanup /\ ~Fail
  BY DEF DeleteStep, Observe, Expel, Absence, Revoke, Unguard, Resolve, Unroute,
         Identify, Destroy, Sweep, Forget, Deleting, Cleanup, Fail, At
<1>3. QED
  BY <1>1, <1>2 DEF WorkerStep

(* A deletion that has begun has made the record say so. *)
LEMMA DeletionSaysSo ==
    ASSUME Footing, MemberInv, [Next]_vars, Footing',
           run'.mode = "delete", run'.step \notin Finished \cup {"persist"}
    PROVE  "ready" \notin PhasesOf(Cur)'
<1>1. Base /\ BaseInv /\ TaskInv' /\ Base' /\ "ready" \notin {NoPhase, "deleting"}
  BY DEF Footing, Ground, Base, NoPhase
<1>2. Pos' = run'.step /\ Exists(Cur)' /\ Cur' \in Names
  <2>1. Pos' = run'.step
    BY DEF Pos, At
  <2>2. QED
    BY <1>1, <2>1 DEF TaskInv, Base, BaseInv, FrameOK, Finished
<1>3. ASSUME run.mode = "delete", run.step \notin Finished \cup {"persist"},
             Cur' = Cur, ~\E s \in {"done", "fail"} : run'.step = s
      PROVE  "ready" \notin PhasesOf(Cur)'
  <2>1. "ready" \notin PhasesOf(Cur)
    BY <1>3 DEF MemberInv
  <2>2. PICK n \in Names : n = Cur
    BY <1>2, <1>3
  <2>3. Exists(n)'
    BY <1>2, <1>3, <2>2 DEF Exists
  <2>4. Exists(n)
    <3>1. Pos \notin Finished
      BY <1>3 DEF Pos, At
    <3>2. QED
      BY <1>3, <2>2, <3>1 DEF Footing, Ground, TaskInv
  <2>5. CASE store'[n] = store[n]
    BY <1>3, <2>1, <2>2, <2>5 DEF PhasesOf
  <2>6. CASE Created(n) \/ Doomed(n) \/ Resumed(n)
    BY <1>1, <1>3, <2>1, <2>2, <2>4, <2>6
       DEF Created, Doomed, Resumed, Rewrites, PhasesOf
  <2>7. CASE Wrote(n)
    <3>1. ~Advance /\ ~Recover /\ ~SaveRevision /\ ~SaveHost /\ ~SaveMember /\ ~Claim
      BY <1>3 DEF Advance, Recover, SaveRevision, SaveHost, SaveMember, Claim, Creating
    <3>2. ~PersistStep /\ ~Fail
      BY <1>3 DEF PersistStep, Fail, At, Finished
    <3>3. store'[n] = NoRecord
      BY <2>7, <3>1, <3>2 DEF Wrote
    <3>4. QED
      BY <2>3, <3>3 DEF Exists
  <2>8. QED
    BY <1>1, <2>5, <2>6, <2>7, NextWrites
<1>4. CASE run' = run
  BY <1>3, <1>4 DEF Cur, Finished
<1>5. ASSUME NEW c \in Callers, Acquire(c)
      PROVE  FALSE
  <2>1. Dispatch(who[c]) /\ Exists(who[c])
    BY <1>1, <1>5, AcquireRun DEF Acquire
  <2>2. QED
    BY <2>1 DEF Dispatch, Finished
<1>6. CASE run' = Idle
  BY <1>6 DEF Idle
<1>7. CASE Top
  <2>1. FrameInv /\ run.mode = "create"
    BY <1>1, <1>7, Working DEF Top, Creating
  <2>2. run'.step \in {"persist", "done"}
    BY <1>7, <2>1 DEF Top, FrameInv, Frame
  <2>3. QED
    BY <2>2 DEF Finished
<1>8. CASE Recheck \/ Discover
  BY <1>1, <1>8, RecordRead, RecheckEffect, DiscoverKeeps DEF Finished
<1>9. CASE PersistStep
  <2>1. /\ Moved({Pos} \cup Abort) /\ run.mode = "delete"
        /\ Pos' \notin Abort => Rewrites(Cur, "deleting", NoPhase)
    BY <1>1, <1>9, PersistStepEffect, WorkerWrites DEF Moved, SameTask, Writes
  <2>2. Pos' \notin Abort
    BY <1>2 DEF Abort, Finished
  <2>3. Cur' = Cur
    BY <2>1 DEF Moved, SameTask, Cur
  <2>4. QED
    BY <1>1, <2>1, <2>2, <2>3 DEF Rewrites, PhasesOf
<1>10. CASE /\ WorkerStep /\ SameTask /\ ~PersistStep
            /\ run.step \in Finished \cup {"top"} => run'.step = "done"
  <2>1. run.step # "persist"
    <3>1. ~At("persist") \/ PersistStep
      BY <1>10, OnlyPersist
    <3>2. QED
      BY <1>10, <3>1 DEF At
  <2>2. QED
    BY <1>3, <1>10, <2>1 DEF SameTask, Cur, Finished
<1>11. QED
  BY <1>1, <1>4, <1>5, <1>6, <1>7, <1>8, <1>9, <1>10, NextRun, SteadySteps

(* What the worker of a creation has made sure of. *)
Assured ==
    run.mode = "create" =>
        /\ Pos = "claim" /\ Owns(Cur) => HasGuid(Cur, run.rec.appGUID)
        /\ Pos \in {"cleanup", "saveMember"} => MemberPresent(Cur)
        /\ Pos = "advance" /\ run.rec.phase = "waiting-for-route" =>
                store[Cur].internalHost
        /\ Pos = "advance" /\ run.rec.phase = "joining-pack" =>
                MemberPresent(Cur) /\ store[Cur].packMemberID

(* It outlasts the steps of the others, and the write of the phase. *)
LEMMA AssuredStays ==
    ASSUME Footing, Assured, [Next]_vars, Footing',
           Cur' = Cur, run'.rec = run.rec, run'.mode = run.mode, Pos' = Pos,
           \/ run' = run /\ (CallerMoves \/ Outside \/ UNCHANGED vars)
           \/ PersistStep
    PROVE  Assured'
<1> SUFFICES ASSUME run.mode = "create",
                    Pos \in {"claim", "cleanup", "saveMember", "advance"}
             PROVE  Assured'
  BY DEF Assured
<1>1. Base /\ BaseInv /\ CreateInv /\ CreateInv' /\ NoLateJoin
  BY DEF Footing, Ground, Base, Safe
<1>2. PICK n \in Names : n = Cur
  BY <1>1 DEF BaseInv, FrameOK, Pos, At, Finished
<1>3. Exists(n) /\ Exists(n)'
  BY <1>1, <1>2 DEF CreateInv, Finished, Exists
<1>4. UNCHANGED <<app, member>> \/ Outside
  BY <1>1, CallerEffect DEF vars, worldVars, PersistStep
<1>5. member'[n] = member[n] /\ (Owns(n)' => Owns(n) /\ app'[n] = app[n])
  <2>1. CASE Outside
    <3>1. app'[n] = app[n] \/ ~Owns(n)'
      BY <1>1, <2>1, OutsideApps DEF CFOthers, NewApp, Owns, HasApp
    <3>2. member'[n] = member[n]
      BY <1>1, <2>1 DEF NoLateJoin, Outside, JoinLands, InviteExpires,
                        worldVars, packVars
    <3>3. QED
      BY <3>1, <3>2 DEF Owns, HasApp
  <2>2. QED
    BY <1>4, <2>1 DEF Owns, HasApp
<1>6. /\ store[n].internalHost => store'[n].internalHost
      /\ store[n].packMemberID => store'[n].packMemberID
  BY <1>1, <1>3, RecordMoves
<1>7. QED
  BY <1>2, <1>5, <1>6 DEF Assured, HasGuid, HasApp, Owns, MemberPresent

LEMMA AssuredNext ==
    ASSUME Footing, Assured, [Next]_vars, Footing'
    PROVE  Assured'
<1>1. /\ Base /\ BaseInv /\ EffectInv /\ StepInv /\ PhaseInv /\ CloneInv
  BY DEF Footing, Ground, Base, SnapInv, CloneInv
<1>2. CASE run' = run /\ (CallerMoves \/ Outside \/ UNCHANGED vars)
  BY <1>2, AssuredStays DEF Pos, At, Cur
<1>3. ASSUME NEW c \in Callers, Acquire(c) PROVE Assured'
  BY <1>1, <1>3, AcquireRun DEF Assured, Pos, At
<1>4. CASE run' = Idle
  BY <1>4 DEF Idle, Assured, Pos, At
<1>5. ASSUME WorkerStep, run'.mode = "create",
             Pos' \in {"claim", "cleanup", "saveMember"}
      PROVE  Assured'
  <2>1. CASE SameTask /\ PersistStep /\ Pos' = Pos
    BY <2>1, AssuredStays DEF SameTask, Cur
  <2>2. CASE Discover /\ Pos' = "claim"
    <3>1. FrameInv /\ run.rec \in Record /\ app' = app /\ Cur' = Cur
      BY <1>1, <2>2, DiscoverKeeps, Working DEF Discover, Creating, worldVars
    <3>2. run'.rec.appGUID = app[Cur].guid
      <4>1. ASSUME Oops PROVE Pos' # "claim"
        BY <3>1, <4>1, OopsMoves DEF Moved, Abort
      <4>2. run' = [run EXCEPT !.step = "claim", !.rec.appGUID = app[Cur].guid]
        BY <2>2, <4>1 DEF Discover
      <4>3. QED
        BY <3>1, <4>2 DEF FrameInv, Frame, Record
    <3>3. QED
      BY <2>2, <3>1, <3>2 DEF Assured, HasGuid, HasApp, Owns
  <2>3. CASE SameTask /\ Await /\ Pos' = "cleanup"
    <3>1. FrameInv
      BY <1>1, <2>3, Working DEF Await, Poll, Creating
    <3>2. MemberPresent(Cur) /\ member' = member
      BY <2>3, <3>1, OopsMoves DEF Await, Poll, Moved, Abort, worldVars
    <3>3. QED
      BY <2>3, <3>2 DEF Assured, MemberPresent, SameTask, Cur
  <2>4. CASE SameTask /\ Cleanup /\ Pos' = "saveMember"
    <3>1. run.mode = "create" /\ Pos = "cleanup" /\ member' = member
      BY <1>5, <2>4 DEF Cleanup, SameTask, At, Pos, worldVars
    <3>2. QED
      BY <2>4, <3>1 DEF Assured, MemberPresent, SameTask, Cur
  <2>5. QED
    BY <1>1, <1>5, <2>1, <2>2, <2>3, <2>4, Arrives
<1>6. ASSUME WorkerStep, run'.mode = "create", Pos' = "advance"
      PROVE  Assured'
  <2>1. SameTask /\ Cur' = Cur /\ run.mode = "create"
    BY <1>1, <1>6, ToAdvance
  <2>2. CASE Pos = "advance" /\ PersistStep
    BY <1>6, <2>1, <2>2, AssuredStays DEF SameTask
  <2>3. CASE Probe
    <3>1. Pos = "probe" /\ run.step = "probe" /\ run.rec.phase = "waiting-for-route"
      BY <1>1, <2>1, <2>3 DEF Probe, Poll, Creating, At, Pos, EffectInv
    <3>2. Busy(Cur) /\ FrameInv
      BY <1>1, <2>1, <2>3, <3>1, BusySteps, Working DEF Probe, Poll, Creating, Finished
    <3>3. run.rec.internalHost
      BY <1>6, <2>3, <3>2, OopsMoves DEF Probe, Poll, Moved, Abort
    <3>4. store[Cur].internalHost /\ store' = store
      BY <1>1, <2>3, <3>2, <3>3 DEF PhaseInv, Probe, Poll, diskVars
    <3>5. QED
      BY <1>6, <2>1, <3>1, <3>4 DEF Assured, SameTask
  <2>4. CASE SaveMember /\ Pos' \notin Abort
    <3>1. Pos = "saveMember" /\ run.rec.phase = "joining-pack" /\ member' = member
      BY <1>1, <2>1, <2>4 DEF SaveMember, Creating, At, Pos, StepInv, worldVars
    <3>2. store'[Cur].packMemberID
      BY <1>1, <2>4, NoteWrites DEF Writes, Notes
    <3>3. QED
      BY <1>6, <2>1, <3>1, <3>2 DEF Assured, SameTask, MemberPresent
  <2>5. CASE (PushBits /\ run.rec.phase = "staging") \/ Allow
    <3>1. Allow => run.rec.phase = "securing-manager-route"
      BY <1>1, <2>1 DEF Allow, Creating, At, Pos, EffectInv
    <3>2. QED
      BY <1>6, <2>1, <2>5, <3>1 DEF Assured, SameTask
  <2>6. CASE run.rec.phase \notin {"waiting-for-route", "joining-pack"}
    BY <1>6, <2>1, <2>6 DEF Assured, SameTask
  <2>7. QED
    BY <1>1, <1>6, <2>2, <2>3, <2>4, <2>5, <2>6, ToAdvance
<1>7. CASE WorkerStep
  BY <1>5, <1>6, <1>7 DEF Assured
<1>8. QED
  BY <1>1, <1>2, <1>3, <1>4, <1>7, NextRun

LEMMA MemberNext ==
    ASSUME Footing, MemberInv, [Next]_vars, Footing'
    PROVE  MemberInv'
<1>1. Assured /\ Ground /\ Ground'
  BY DEF MemberInv, Assured, Footing
<1>2. \A n \in Names : MemberPresent(n)' =>
            Exists(n)' /\ member'[n] = store'[n].appGUID
  BY MembersRecorded
<1>3. \A n \in Names : Live(n)' =>
        /\ (LivePhases(n) \cap ClaimedPhases # {})' /\ Owns(n)' =>
                HasGuid(n, store[n].appGUID)'
        /\ (LivePhases(n) \cap {"triggering-enrollment", "joining-pack"} # {})' =>
                store'[n].internalHost
  BY <1>1, ClaimedNext
<1>4. \A n \in Names : Exists(n)' /\ "ready" \in PhasesOf(n)' => Joined(n)'
  BY ReadyJoined
<1>5. /\ run'.mode = "create" /\ run'.step # "idle" /\ run'.rec.phase = "ready"
         => Joined(Cur)'
      /\ run'.mode = "delete" /\ run'.step \notin Finished \cup {"persist"}
         => "ready" \notin PhasesOf(Cur)'
  BY SnapshotJoined, DeletionSaysSo
<1>6. Assured'
  BY <1>1, AssuredNext
<1>7. QED
  BY <1>2, <1>3, <1>4, <1>5, <1>6 DEF MemberInv, Assured

(* Unless a join outlives the request that asked for it, the Pack member   *)
(* under the name of a ready sandbox is the app its record names, and its  *)
(* route is recorded, through failures, restarts, retries, a DELETE at any *)
(* moment and an operator who deletes or replaces its app: a record comes  *)
(* to ready only by a member seen, keeps its GUID, and has left ready      *)
(* before the member is expelled.                                          *)
THEOREM ReadyHasJoined ==
    ASSUME "lateJoin" \notin Faults
    PROVE  Spec => []ReadyIsMember
<1> DEFINE Inv == Footing /\ MemberInv
<1>1. Init => Inv
  <2>1. ASSUME Init PROVE MemberInv
    <3>1. run = Idle /\ \A n \in Names : store[n] = NoRecord /\ member[n] = NoGuid
      BY <2>1 DEF Init, WorkerInit, StoreInit, PackInit
    <3>2. run.step = "idle" /\ Pos = "idle" /\ run.mode = "create"
      BY <3>1 DEF Idle, Pos, At
    <3>3. QED
      BY <3>1, <3>2
         DEF MemberInv, MemberPresent, Live, Wanted, Exists, Busy, Finished
  <2>2. QED
    BY <2>1, InitGround, InitSafe DEF Footing
<1>2. Inv /\ [Next]_vars => Inv'
  <2>1. ASSUME Footing, MemberInv, [Next]_vars PROVE Footing' /\ MemberInv'
    <3>1. Footing'
      BY <2>1, NextGround, NextSafe DEF Footing, Ground
    <3>2. QED
      BY <2>1, <3>1, MemberNext
  <2>2. QED
    BY <2>1
<1>3. Inv => ReadyIsMember
  <2>1. ASSUME MemberInv, NEW n \in Names, Exists(n), store[n].phase = "ready"
        PROVE  /\ store[n].appGUID # NoGuid /\ member[n] = store[n].appGUID
               /\ store[n].internalHost /\ store[n].packMemberID
    <3>1. Joined(n)
      BY <2>1 DEF MemberInv, PhasesOf
    <3>2. QED
      BY <2>1, <3>1 DEF MemberInv, Joined, MemberPresent
  <2>2. QED
    BY <2>1 DEF ReadyIsMember
<1> HIDE DEF Inv
<1>4. QED
  BY <1>1, <1>2, <1>3, PTL DEF Spec

-----------------------------------------------------------------------------
(* OthersKept.                                                             *)

(* Where the identity in the snapshot comes from. *)
LEMMA SnapshotFrom ==
    ASSUME Base, [Next]_vars, NEW g \in Guids, run'.rec.appGUID = g
    PROVE  \/ run.rec.appGUID = g
           \/ \E m \in Names : Exists(m) /\ store[m].appGUID = g
           \/ /\ Discover /\ Cur \in Names /\ HasGuid(Cur, g)
              /\ run.rec.appGUID \in {NoGuid, g}
<1>1. BaseInv /\ NoGuid \notin Guids
  BY IdentityAssumption DEF Base
<1>2. ASSUME NEW c \in Callers, Acquire(c)
      PROVE  Exists(who[c]) /\ who[c] \in Names /\ store[who[c]].appGUID = g
  BY <1>1, <1>2, AcquireRun, NewPhases
<1>3. run' # Idle
  <2>1. Idle.rec = NewRecord
    BY DEF Idle
  <2>2. QED
    BY <1>1, <2>1, NewPhases
<1>4. CASE Top \/ Recheck
  BY <1>1, <1>4, RecordRead
<1>5. CASE Discover
  <2>1. FrameInv /\ Cur \in Names /\ run.rec \in Record
    BY <1>1, <1>5, Working DEF Discover, Creating
  <2>2. CASE Oops
    <3>1. run'.rec = run.rec
      BY <2>1, <2>2, OopsMoves DEF Moved, SameTask
    <3>2. QED
      BY <3>1
  <2>3. CASE /\ HasApp(Cur) /\ run.rec.appGUID \in {NoGuid, app[Cur].guid}
             /\ run' = [run EXCEPT !.step = "claim", !.rec.appGUID = app[Cur].guid]
    <3>1. run'.rec.appGUID = app[Cur].guid
      BY <2>1, <2>3 DEF FrameInv, Frame, Record
    <3>2. QED
      BY <1>5, <2>1, <2>3, <3>1 DEF HasGuid
  <2>4. QED
    BY <1>5, <2>2, <2>3 DEF Discover
<1>6. CASE SameTask
  BY <1>6 DEF SameTask
<1>7. QED
  BY <1>1, <1>2, <1>3, <1>4, <1>5, <1>6, NextRun, SteadySteps

(* Neither a record nor the snapshot takes up a foreign identity. *)
LEMMA RecordedOwned ==
    ASSUME Ground, IdentitiesApart, OwnedInv, [Next]_vars, Base', NEW n \in Names,
           HasApp(n)', ~Owns(n)'
    PROVE  /\ run'.rec.appGUID # app'[n].guid
           /\ Exists(n)' => store'[n].appGUID # app'[n].guid
<1>1. Base /\ PhaseInv /\ StepInv /\ NoGuid \notin Guids
  BY IdentityAssumption DEF Ground, CloneInv, SnapInv
<1>2. PICK g \in Guids : g = app'[n].guid
  <2>1. app'[n] \in App
    BY DEF Base, BaseInv, TypeOK, CFTypeOK, HasApp
  <2>2. QED
    BY <2>1 DEF App
<1>3. CASE Outside /\ app'[n] # app[n]
  <2>1. NewApp(n, "operator") /\ UNCHANGED <<store, run>>
    BY <1>1, <1>3, NextApps, OutsideApps DEF Base, localVars, PushBits,
                                             HasApp, CFOthers
  <2>2. g \in FreshGuids
    BY <1>2, <2>1 DEF NewApp
  <2>3. QED
    BY <1>2, <2>1, <2>2 DEF FreshGuids, UsedGuids, Exists
<1>4. CASE ~(Outside /\ app'[n] # app[n])
  <2>1. HasApp(n) /\ app[n].guid = g /\ ~Owns(n)
    BY <1>1, <1>2, <1>4, NextApps DEF SameApp, NewApp, Owns, HasApp
  <2>2. run.rec.appGUID # g /\ (Exists(n) => store[n].appGUID # g) /\ g \in Refers(n)
    BY <2>1 DEF OwnedInv, Refers, HasGuid
  <2>3. ASSUME Exists(n)' PROVE store'[n].appGUID # g
    <3>1. CASE Exists(n)
      BY <1>1, <2>2, <2>3, <3>1, RecordMoves
    <3>2. CASE ~Exists(n)
      <4>1. store'[n] # store[n] /\ ~Wrote(n)
        BY <2>3, <3>2 DEF Wrote, Rewrites, Notes, Claims, Exists
      <4>2. Created(n)
        BY <1>1, <3>2, <4>1, NextWrites DEF Doomed, Resumed, Rewrites
      <4>3. QED
        BY <1>1, <4>2, NewPhases DEF Created
    <3>3. QED
      BY <3>1, <3>2
  <2>4. ASSUME run'.rec.appGUID = g PROVE FALSE
    <3>1. ASSUME NEW m \in Names, Exists(m), store[m].appGUID = g PROVE FALSE
      BY <2>2, <3>1 DEF IdentitiesApart, Refers
    <3>2. CASE Discover /\ Cur \in Names /\ HasGuid(Cur, g) /\ run.rec.appGUID = NoGuid
      <4>1. Cur = n
        BY <2>2, <3>2 DEF IdentitiesApart, Refers
      <4>2. run.mode = "create" /\ Pos = "discover" /\ run.step = "discover"
        BY <3>2 DEF Discover, Creating, At, Pos
      <4>3. Busy(Cur) /\ run.rec.phase = "discovering-app"
        BY <1>1, <4>2, BusySteps DEF Finished, StepInv
      <4>4. store[n].appGUID = NoGuid
        BY <1>1, <3>2, <4>1, <4>2 DEF PhaseInv, Finished
      <4>5. QED
        BY <1>1, <2>1, <4>1, <4>3, <4>4, BusyOnly DEF OwnedInv
    <3>3. QED
      BY <1>1, <2>2, <2>4, <3>1, <3>2, SnapshotFrom
  <2>5. QED
    BY <1>2, <2>3, <2>4
<1>5. QED
  BY <1>3, <1>4

(* An app found under the name of a sandbox that has none recorded is the  *)
(* one the manager pushed.                                                 *)
LEMMA DiscoveredOwned ==
    ASSUME Ground, OwnedInv, [Next]_vars, Ground', "pushUnclaimed" \notin Faults,
           NEW n \in Names, Live(n)', "discovering-app" \in LivePhases(n)',
           store'[n].appGUID = NoGuid, HasApp(n)'
    PROVE  Owns(n)'
<1>1. Base /\ TaskInv /\ CreateInv /\ StepInv /\ EffectInv /\ TaskInv' /\ PhaseInv
  BY DEF Ground, Base, CloneInv, SnapInv
<1>2. Live(n) /\ \/ "discovering-app" \in LivePhases(n)
                 \/ Turns(n, "discovering-app")
  BY <1>1, LiveMoves DEF Harmless, NoPhase
<1>3. Exists(n) /\ Exists(n)'
  BY <1>1, <1>2 DEF Live, Wanted, Busy, TaskInv, Finished
<1>4. store[n].appGUID = NoGuid
  <2>1. CASE n = Cur /\ Claim /\ store'[n].appGUID = run.rec.appGUID
    BY <1>1, <2>1, IdentityAssumption DEF CreateInv, Claim, Creating, At, Pos
  <2>2. QED
    BY <1>1, <1>3, <2>1, RecordMoves
<1>5. HasApp(n) => Owns(n)
  <2>1. CASE "discovering-app" \in LivePhases(n)
    BY <1>2, <1>4, <2>1 DEF OwnedInv
  <2>2. CASE Turns(n, "discovering-app")
    <3>1. n = Cur /\ run.mode = "create"
      BY <2>2 DEF Turns, Advance, Claim, Creating
    <3>2. CASE Advance /\ "discovering-app" = NextPhase[run.rec.phase]
      <4>1. Pos = "advance" /\ run.step = "advance"
        BY <3>2 DEF Advance, Creating, At, Pos
      <4>2. run.rec.phase \in CreatePhases /\ run.rec.phase # "discovering-app"
        BY <1>1, <3>1, <4>1, BusySteps DEF Finished, EffectInv
      <4>3. run.rec.phase = "staging"
        BY <3>2, <4>2 DEF NextPhase, CreatePhases, PreparePhases,
                          NeedsEnrollment, WaitPhases
      <4>4. QED
        BY <3>1, <4>1, <4>3 DEF OwnedInv, Earned
    <3>3. CASE Claim
      <4>1. Pos = "claim" /\ run.step = "claim"
        BY <3>3 DEF Claim, Creating, At, Pos
      <4>2. Busy(Cur) /\ run.rec.phase = "discovering-app"
        BY <1>1, <3>1, <4>1, BusySteps DEF Finished, StepInv
      <4>3. "discovering-app" \in LivePhases(n)
        BY <1>1, <3>1, <4>2, BusyOnly
      <4>4. QED
        BY <2>1, <4>3
    <3>4. QED
      BY <2>2, <3>2, <3>3 DEF Turns
  <2>3. QED
    BY <1>2, <2>1, <2>2
<1>6. CASE app'[n] = app[n]
  BY <1>5, <1>6 DEF Owns, HasApp
<1>7. CASE app'[n] # app[n]
  <2>1. ~(MayIntrude(n) /\ NewApp(n, "operator"))
    BY <1>3, <1>4 DEF MayIntrude, Fault
  <2>2. QED
    BY <1>1, <1>5, <1>7, <2>1, NextApps DEF SameApp, NewApp, Owns, HasApp
<1>8. QED
  BY <1>6, <1>7

(* The steps that lead a deletion to the app itself. *)
LEMMA ToDestroy ==
    ASSUME Base, [Next]_vars, run'.mode = "delete", Pos' = "destroy"
    PROVE  /\ Cur' = Cur /\ run'.rec = run.rec /\ run.mode = "delete"
           /\ \/ Pos = "destroy" /\ run' = run /\ (CallerMoves \/ Outside \/ UNCHANGED vars)
              \/ Pos = "destroy" /\ PersistStep
              \/ Identify
<1>1. BaseInv /\ Pos' \notin Abort \cup Finished \cup {"top"}
  BY DEF Base, Abort, Finished
<1>2. CASE run' = run
  <2>1. Pos = "destroy" /\ run.mode = "delete" /\ Cur' = Cur
    BY <1>2 DEF Pos, At, Cur
  <2>2. ~WorkerStep \/ PersistStep
    <3>1. ASSUME DeleteStep PROVE FALSE
      <4>1. Destroy
        <5>1. At("destroy")
          <6>1. ~At("persist")
            BY <3>1 DEF DeleteStep, Observe, Expel, Absence, Revoke, Unguard,
                        Resolve, Unroute, Identify, Destroy, Sweep, Forget,
                        Deleting, At
          <6>2. QED
            BY <2>1, <6>1 DEF Pos, At
        <5>2. QED
          BY <3>1, <5>1 DEF DeleteStep, Observe, Expel, Absence, Revoke, Unguard,
                        Resolve, Unroute, Identify, Destroy, Sweep, Forget,
                        Deleting, At
      <4>2. QED
        BY <1>1, <4>1, DestroyEffect DEF Moved
    <3>2. ~CreateStep
      BY <2>1 DEF CreateStep, Top, Recover, Advance, Recheck, Prepare, Cloning,
                  SaveRevision, EnsurePrepared, EnsureEnrollment, Install,
                  Preflight, PushBits, Discover, Claim, Secure, SaveHost, Allow,
                  Configure, StartStep, Inspect, Probe, Lookup, Trigger, Confirm,
                  Await, Poll, SaveMember, Creating
    <3>3. ~Cleanup /\ ~Fail
      BY <2>1 DEF Cleanup, Fail, Pos, At
    <3>4. QED
      BY <3>1, <3>2, <3>3 DEF WorkerStep
  <2>3. ~(\E c \in Callers : Acquire(c)) /\ run' # Idle
    <3>1. ASSUME NEW c \in Callers, Acquire(c) PROVE FALSE
      BY <1>1, <3>1, AcquireRun DEF Entered
    <3>2. QED
      BY <3>1 DEF Idle
  <2>4. QED
    BY <1>2, <2>1, <2>2, <2>3, NextRun
<1>3. ASSUME NEW c \in Callers, Acquire(c) PROVE FALSE
  BY <1>1, <1>3, AcquireRun DEF Entered
<1>4. CASE run' = Idle
  BY <1>4 DEF Idle
<1>5. CASE Top
  BY <1>1, <1>5, TopEffect DEF Entered
<1>6. CASE Recheck
  BY <1>1, <1>6, RecheckEffect
<1>7. CASE Discover
  BY <1>1, <1>7, DiscoverKeeps
<1>8. CASE WorkerStep /\ SameTask
  <2>1. run.mode = "delete" /\ Cur' = Cur /\ run'.rec = run.rec
    BY <1>8 DEF SameTask, Cur
  <2>2. CASE PersistStep
    BY <1>1, <2>1, <2>2, PersistStepEffect DEF Moved
  <2>3. CASE Cleanup
    BY <1>1, <2>3, CleanupEffect DEF Moved
  <2>4. CASE Fail
    BY <1>1, <2>4, FailEffect DEF Moved
  <2>5. CASE DeleteStep /\ ~Identify
    <3>1. AfterMember # "destroy"
      BY DEF AfterMember
    <3>2. CASE Observe \/ Expel
      BY <1>1, <3>1, <3>2, ObserveEffect, ExpelEffect DEF Moved
    <3>3. CASE Absence \/ Revoke \/ Unguard \/ Resolve
      BY <1>1, <3>3, AbsenceEffect, RevokeEffect, UnguardEffect, ResolveEffect DEF Moved
    <3>4. CASE Unroute
      BY <1>1, <3>4, UnrouteStepEffect DEF Moved
    <3>5. CASE Destroy \/ Sweep \/ Forget
      BY <1>1, <3>5, DestroyEffect, SweepEffect, ForgetEffect DEF Moved
    <3>6. QED
      BY <2>5, <3>2, <3>3, <3>4, <3>5 DEF DeleteStep
  <2>6. ~CreateStep
    BY <2>1 DEF CreateStep, Top, Recover, Advance, Recheck, Prepare, Cloning,
                SaveRevision, EnsurePrepared, EnsureEnrollment, Install,
                Preflight, PushBits, Discover, Claim, Secure, SaveHost, Allow,
                Configure, StartStep, Inspect, Probe, Lookup, Trigger, Confirm,
                Await, Poll, SaveMember, Creating
  <2>7. QED
    BY <1>8, <2>1, <2>2, <2>3, <2>4, <2>5, <2>6 DEF WorkerStep
<1>9. QED
  BY <1>1, <1>2, <1>3, <1>4, <1>5, <1>6, <1>7, <1>8, NextRun, SteadySteps

(* The name the worker is at is left alone by the operator's pushes, and   *)
(* its app is its own for as long as it was. *)
LEMMA EarnedKept ==
    ASSUME Ground, [Next]_vars, Ground', Cur' = Cur, Cur \in Names,
           HasApp(Cur)', ~PushBits
    PROVE  /\ HasApp(Cur) /\ app'[Cur].guid = app[Cur].guid
           /\ Owns(Cur) => Owns(Cur)'
<1>1. PICK n \in Names : n = Cur
  OBVIOUS
<1>2. CASE app'[n] = app[n]
  BY <1>1, <1>2 DEF Owns, HasApp
<1>3. CASE app'[n] # app[n]
  <2>1. SameApp(n)
    BY <1>1, <1>3, NextApps DEF Ground, HasApp, MayIntrude
  <2>2. QED
    BY <1>1, <2>1 DEF SameApp, Owns, HasApp
<1>4. QED
  BY <1>2, <1>3

LEMMA EarnedNext ==
    ASSUME Ground, OwnedInv, [Next]_vars, Ground'
    PROVE  Earned'
<1>1. /\ Base /\ BaseInv /\ Base' /\ EffectInv /\ StepInv /\ Earned /\ CloneInv
  BY DEF Ground, Base, SnapInv, CloneInv, OwnedInv
<1>2. ASSUME Pos' \notin Finished PROVE Cur' \in Names
  BY <1>1, <1>2 DEF Base, BaseInv, FrameOK, Pos, At, Finished
<1>3. ASSUME PushBits PROVE Pos = "push" /\ Pos' \in {"advance"} \cup Abort /\ SameTask
  BY <1>1, <1>3, WriteLeads DEF Leads, Moved, PushBits, Creating, At, Pos
<1>4. ASSUME run'.mode = "create", Pos' = "push", HasApp(Cur)'
      PROVE  Owns(Cur)'
  <2>1. Cur' \in Names /\ ~PushBits
    BY <1>2, <1>3, <1>4 DEF Finished, Abort
  <2>2. CASE run.mode = "create" /\ Pos = "push" /\ Cur' = Cur
    BY <1>1, <1>4, <2>1, <2>2, EarnedKept DEF Earned
  <2>3. CASE run' = run
    BY <1>4, <2>2, <2>3 DEF Pos, At, Cur
  <2>4. ASSUME NEW c \in Callers, Acquire(c) PROVE FALSE
    BY <1>1, <1>4, <2>4, AcquireRun DEF Pos, At
  <2>5. run' # Idle
    BY <1>4 DEF Idle, Pos, At
  <2>6. CASE WorkerStep
    <3>1. \/ SameTask /\ PersistStep /\ Pos' = Pos
          \/ SameTask /\ Preflight
      BY <1>1, <1>4, <2>6, Arrives
    <3>2. CASE SameTask /\ PersistStep /\ Pos' = Pos
      BY <1>4, <2>2, <3>2 DEF SameTask, Cur
    <3>3. CASE SameTask /\ Preflight
      <4>1. FrameInv /\ app' = app /\ Cur' = Cur
        BY <1>1, <3>3, Working DEF Preflight, Creating, worldVars, SameTask, Cur
      <4>2. ~StageRefused(Cur, run.rec.appGUID)
        <5>1. ASSUME Oops PROVE FALSE
          BY <1>4, <4>1, <5>1, OopsMoves DEF Moved, Abort
        <5>2. QED
          BY <3>3, <5>1 DEF Preflight
      <4>3. HasApp(Cur) => Owns(Cur)
        BY <2>1, <4>1, <4>2 DEF StageRefused, HasGuid, OwnedInv
      <4>4. QED
        BY <1>4, <4>1, <4>3 DEF HasApp, Owns
    <3>4. QED
      BY <3>1, <3>2, <3>3
  <2>7. QED
    BY <1>1, <2>3, <2>4, <2>5, <2>6, NextRun
<1>5. ASSUME run'.mode = "create", Pos' = "advance", run'.rec.phase = "staging",
             HasApp(Cur)'
      PROVE  Owns(Cur)'
  <2>1. Cur' \in Names
    BY <1>2, <1>5 DEF Finished
  <2>2. CASE /\ run.mode = "create" /\ Pos = "advance" /\ Cur' = Cur
             /\ run.rec.phase = "staging"
    <3>1. ~PushBits
      BY <1>3, <2>2
    <3>2. QED
      BY <1>1, <1>5, <2>1, <2>2, <3>1, EarnedKept DEF Earned
  <2>3. CASE run' = run
    BY <1>5, <2>2, <2>3 DEF Pos, At, Cur
  <2>4. ASSUME NEW c \in Callers, Acquire(c) PROVE FALSE
    BY <1>1, <1>5, <2>4, AcquireRun DEF Pos, At
  <2>5. run' # Idle
    BY <1>5 DEF Idle, Pos, At
  <2>6. CASE WorkerStep
    <3>1. SameTask /\ Cur' = Cur /\ run.mode = "create"
      BY <1>1, <1>5, <2>6, ToAdvance
    <3>2. run.rec.phase = "staging"
      BY <1>5, <3>1 DEF SameTask
    <3>3. ~Allow /\ ~Probe /\ ~SaveMember
      BY <1>1, <3>1, <3>2 DEF Allow, Probe, Poll, SaveMember, Creating, At, Pos,
                              EffectInv, StepInv
    <3>4. CASE PushBits
      <4>1. SameApp(Cur) \/ NewApp(Cur, "manager")
        BY <1>1, <1>5, <3>4, PushMakes DEF Abort
      <4>2. HasApp(Cur) => Owns(Cur)
        BY <1>1, <1>3, <3>1, <3>4 DEF Earned
      <4>3. QED
        BY <3>1, <4>1, <4>2 DEF SameApp, NewApp, Owns, HasApp
    <3>5. QED
      BY <1>1, <1>5, <2>2, <2>6, <3>1, <3>2, <3>3, <3>4, ToAdvance
  <2>7. QED
    BY <1>1, <2>3, <2>4, <2>5, <2>6, NextRun
<1>6. ASSUME run'.mode = "delete", Pos' = "destroy", HasApp(Cur)'
      PROVE  HasGuid(Cur, run.rec.appGUID)'
  <2>1. /\ Cur' = Cur /\ run'.rec = run.rec /\ run.mode = "delete"
        /\ Pos = "destroy" \/ Identify
    BY <1>1, <1>6, ToDestroy
  <2>2. ~PushBits /\ Cur \in Names
    BY <1>2, <1>3, <1>6, <2>1 DEF Finished, Abort
  <2>3. HasApp(Cur) /\ app'[Cur].guid = app[Cur].guid
    BY <1>6, <2>1, <2>2, EarnedKept
  <2>4. CASE Pos = "destroy"
    BY <1>1, <1>6, <2>1, <2>3, <2>4 DEF Earned, HasGuid
  <2>5. CASE Identify
    <3>1. FrameInv
      BY <1>1, <2>5, Working DEF Identify, Deleting
    <3>2. HasGuid(Cur, run.rec.appGUID)
      <4>1. ASSUME PersistOrQuit(FALSE, "cleanup") PROVE FALSE
        BY <1>6, <3>1, <4>1, DeleteTargets, OrMoves DEF Abort, Moved
      <4>2. QED
        BY <2>3, <2>5, <4>1 DEF Identify
    <3>3. QED
      BY <1>6, <2>1, <2>3, <3>2 DEF HasGuid
  <2>6. QED
    BY <2>1, <2>4, <2>5
<1>7. QED
  BY <1>4, <1>5, <1>6 DEF Earned

(* The manager neither pushes over nor deletes an app it does not own,     *)
(* unless the operator pushes one under the name of a sandbox whose own is *)
(* not recorded yet: reconcileCreate would take that one for its own.  The *)
(* preflight and the lookup before a deletion look at the GUID, and what   *)
(* they have seen still holds when the command runs that goes by the name. *)
THEOREM ForeignAppsKept ==
    ASSUME "pushUnclaimed" \notin Faults
    PROVE  Spec => OthersKept
<1> DEFINE Inv == Ground /\ IdentitiesApart /\ OwnedInv
<1>1. Init => Inv
  <2>1. ASSUME Init PROVE OwnedInv
    <3>1. run = Idle /\ \A n \in Names : ~HasApp(n)
      BY <2>1 DEF Init, WorkerInit, CFInit, HasApp
    <3>2. Pos = "idle" /\ run.mode = "create"
      BY <3>1 DEF Idle, Pos, At
    <3>3. QED
      BY <3>1, <3>2 DEF OwnedInv, Earned
  <2>2. QED
    BY <2>1, InitGround, InitApart
<1>2. Inv /\ [Next]_vars => Inv'
  <2>1. ASSUME Ground, IdentitiesApart, OwnedInv, [Next]_vars
        PROVE  Ground' /\ IdentitiesApart' /\ OwnedInv'
    <3>1. Ground' /\ IdentitiesApart'
      BY <2>1, NextGround, NextApart DEF Ground
    <3>2. Base'
      BY <3>1 DEF Ground
    <3>3. \A n \in Names : HasApp(n)' /\ ~Owns(n)' =>
            /\ run'.rec.appGUID # app'[n].guid
            /\ Exists(n)' => store'[n].appGUID # app'[n].guid
      BY <2>1, <3>2, RecordedOwned
    <3>4. \A n \in Names :
            /\ Live(n)' /\ "discovering-app" \in LivePhases(n)'
            /\ store'[n].appGUID = NoGuid /\ HasApp(n)'
            => Owns(n)'
      BY <2>1, <3>1, DiscoveredOwned
    <3>5. Earned'
      BY <2>1, <3>1, EarnedNext
    <3>6. QED
      BY <3>1, <3>3, <3>4, <3>5 DEF OwnedInv
  <2>2. QED
    BY <2>1
<1>3. Inv /\ [Next]_vars =>
        [\A n \in Names :
            At("push") \/ At("destroy") =>
                (HasApp(n) /\ ~Owns(n) /\ run' # run => app'[n] = app[n])]_vars
  <2>1. ASSUME Ground, OwnedInv, [Next]_vars, NEW n \in Names,
               At("push") \/ At("destroy"), HasApp(n), ~Owns(n), run' # run,
               app'[n] # app[n]
        PROVE  FALSE
    <3>1. \/ PushBits /\ n = Cur
          \/ Destroy /\ n = Cur
          \/ Outside
      BY <2>1, NextApps DEF Ground, EnsureEnrollment, Configure, StartStep,
                            Creating, At
    <3>2. CASE PushBits /\ n = Cur
      BY <2>1, <3>2 DEF PushBits, Creating, At, Pos, OwnedInv, Earned
    <3>3. CASE Destroy /\ n = Cur
      <4>1. run.mode = "delete" /\ Pos = "destroy"
        BY <3>3 DEF Destroy, Deleting, At, Pos
      <4>2. QED
        BY <2>1, <3>3, <4>1 DEF OwnedInv, Earned, HasGuid
    <3>4. ~Outside
      BY <2>1 DEF Outside, localVars
    <3>5. QED
      BY <3>1, <3>2, <3>3, <3>4
  <2>2. QED
    BY <2>1
<1> HIDE DEF Inv
<1>4. QED
  BY <1>1, <1>2, <1>3, PTL DEF Spec, OthersKept

-----------------------------------------------------------------------------
(* FailedResumable.                                                        *)

(* Phases of a record that is not failed. *)
LEMMA ResumeSets ==
    /\ "failed" \notin CreatePhases \cup {"ready", "deleting"}
    /\ NeedsEnrollment \cup {"creating", "preparing-invite"} \subseteq CreatePhases
    /\ \A p \in CreatePhases : NextPhase[p] \in CreatePhases \cup {"ready"}
<1>1. \A p \in CreatePhases : NextPhase[p] \in CreatePhases \cup {"ready"}
  BY DEF NextPhase, CreatePhases, PreparePhases, NeedsEnrollment, WaitPhases
<1>2. QED
  BY <1>1 DEF CreatePhases, PreparePhases, NeedsEnrollment, WaitPhases

(* A retry that comes in time resumes a failed sandbox. *)
LEMMA TimelyRetry ==
    ASSUME ResumeInv, [FreshRetries]_vars, NEW n \in Names,
           store'[n] # store[n], Resumed(n)
    PROVE  /\ store[n].phase = "failed" /\ store'[n].phase \in ResumePhases(n)
           /\ store'[n].desired = store[n].desired /\ Exists(n)
<1>1. FreshRetries
  BY DEF vars, diskVars
<1>2. Exists(n) /\ store[n].phase = "failed"
  <2>1. store' # store
    OBVIOUS
  <2>2. QED
    BY <1>1, <2>1 DEF Resumed, Rewrites, FreshRetries
<1>3. QED
  BY <1>2 DEF ResumeInv, FailedResumable, ResumePhases, Resumed, Rewrites

(* A write that failed has changed nothing, when none is applied. *)
LEMMA LostWrites ==
    ASSUME BaseInv, "appliedWrite" \notin Faults, Advance \/ Forget
    PROVE  store' = store \/ run'.step \in {"top", "done"}
<1>1. FrameInv
  BY Working DEF Advance, Forget, Creating, Deleting
<1>2. ASSUME NEW n, NEW rec, NEW ok \in BOOLEAN,
             UpdateRecord(n, rec, ok) \/ DeleteRecord(n, ok)
      PROVE  ok \/ store' = store
  BY <1>2 DEF UpdateRecord, DeleteRecord, Commit, Fault
<1>3. \E ok \in BOOLEAN, s \in {"top", "done"} :
            GoOr(ok, s) /\ (ok \/ store' = store)
  <2>1. CASE Advance
    BY <1>2, <2>1 DEF Advance
  <2>2. CASE Forget
    BY <1>2, <2>2 DEF Forget
  <2>3. QED
    BY <2>1, <2>2
<1>4. QED
  BY <1>1, <1>3 DEF GoOr, Go, FrameInv, Frame

(* The record keeps to phases it can be resumed in. *)
LEMMA RecordResumes ==
    ASSUME Ground, ResumeInv, [Next]_vars, [FreshRetries]_vars, NEW n \in Names,
           Exists(n)'
    PROVE  /\ store'[n].phase \in ResumePhases(n)' \cup {"ready", "failed"}
           /\ store'[n].phase = "failed" => store'[n].resumePhase \in ResumePhases(n)'
<1>1. Base /\ BaseInv
  BY DEF Ground, Base
<1>2. ASSUME Exists(n), store'[n].phase = store[n].phase,
             store'[n].resumePhase = store[n].resumePhase,
             store'[n].desired = store[n].desired
      PROVE  /\ store'[n].phase \in ResumePhases(n)' \cup {"ready", "failed"}
             /\ store'[n].phase = "failed" => store'[n].resumePhase \in ResumePhases(n)'
  BY <1>2 DEF ResumeInv, FailedResumable, ResumePhases
<1>3. ASSUME store'[n].phase \in CreatePhases \cup {"ready"}
      PROVE  /\ store'[n].phase \in ResumePhases(n)' \cup {"ready", "failed"}
             /\ store'[n].phase # "failed"
  BY <1>3, ResumeSets DEF ResumePhases
<1>4. CASE store'[n] = store[n]
  BY <1>2, <1>4 DEF Exists
<1>5. CASE store'[n] # store[n] /\ (Created(n) \/ Doomed(n) \/ Resumed(n))
  <2>1. CASE Created(n)
    BY <1>3, <2>1, NewPhases, ResumeSets DEF Created
  <2>2. CASE Doomed(n)
    BY <2>2 DEF Doomed, ResumePhases
  <2>3. CASE Resumed(n)
    BY <1>5, <2>3, TimelyRetry, ResumeSets DEF ResumePhases
  <2>4. QED
    BY <1>5, <2>1, <2>2, <2>3
<1>6. CASE store'[n] # store[n] /\ WorkerStep /\ n = Cur /\ Wrote(n)
  <2>1. CASE /\ PersistStep
             /\ Rewrites(n, IF run.mode = "create" THEN run.rec.phase
                            ELSE "deleting", NoPhase)
    <3>1. run.mode \in {"create", "delete"}
      BY <1>1 DEF BaseInv, TypeOK, WorkerTypeOK, Frame
    <3>2. CASE run.mode = "create"
      <4>1. Busy(Cur)
        BY <2>1, <3>2 DEF Busy, PersistStep, At, Finished
      <4>2. QED
        BY <1>3, <2>1, <3>2, <4>1 DEF ResumeInv, WorkerResumes, Rewrites
    <3>3. CASE run.mode = "delete"
      <4>1. store[n].desired = "deleted"
        BY <1>6, <2>1, <3>3 DEF ResumeInv, WorkerResumes, PersistStep, At
      <4>2. QED
        BY <2>1, <3>3, <4>1 DEF Rewrites, ResumePhases
    <3>4. QED
      BY <3>1, <3>2, <3>3
  <2>2. CASE Advance /\ Rewrites(n, NextPhase[run.rec.phase], NoPhase)
    <3>1. Busy(Cur)
      BY <2>2 DEF Busy, Advance, Creating, At, Finished
    <3>2. QED
      BY <1>3, <2>2, <3>1, ResumeSets DEF ResumeInv, WorkerResumes, Rewrites
  <2>3. CASE Recover /\ Rewrites(n, "preparing-invite", NoPhase)
    BY <1>3, <2>3, ResumeSets DEF Rewrites
  <2>4. CASE \/ Rewrites(n, store[n].phase, store[n].resumePhase)
             \/ Notes(n, TRUE, store[n].packMemberID)
             \/ Notes(n, store[n].internalHost, TRUE)
    BY <1>2, <2>4 DEF Rewrites, Notes
  <2>5. CASE Claims(n)
    <3>1. store'[n].phase \in NeedsEnrollment
      BY <1>1, <2>5 DEF Claims, NoPhase, BaseInv, TypeOK, WorkerTypeOK,
                        NeedsEnrollment
    <3>2. QED
      BY <1>3, <3>1, ResumeSets
  <2>6. CASE Fail /\ Rewrites(n, "failed", IF run.mode = "create" THEN run.rec.phase
                                           ELSE "deleting")
    <3>1. run.mode \in {"create", "delete"} /\ run.step = "fail"
      BY <1>1, <2>6 DEF BaseInv, TypeOK, WorkerTypeOK, Frame, Fail, At
    <3>2. CASE run.mode = "create"
      BY <1>6, <2>6, <3>1, <3>2 DEF ResumeInv, WorkerResumes, Rewrites,
                                          ResumePhases
    <3>3. CASE run.mode = "delete"
      BY <1>6, <2>6, <3>1, <3>3 DEF ResumeInv, WorkerResumes, Rewrites,
                                          ResumePhases
    <3>4. QED
      BY <3>1, <3>2, <3>3
  <2>7. QED
    BY <1>6, <2>1, <2>2, <2>3, <2>4, <2>5, <2>6 DEF Wrote, Exists
<1>7. QED
  BY <1>1, <1>4, <1>5, <1>6, NextWrites

(* Between the steps of the worker handlers doom its sandbox, and no more. *)
LEMMA StandingResumes ==
    ASSUME Ground, ResumeInv, [Next]_vars, [FreshRetries]_vars, run' = run,
           CallerMoves \/ store' = store
    PROVE  WorkerResumes'
<1>1. BaseInv /\ (run.step \notin {"idle", "done"} => Cur \in Names /\ Exists(Cur))
  <2>1. /\ run.mode \in {"create", "delete"}
        /\ run.step \notin {"idle", "done"} => Cur \in Names
    BY DEF Ground, Base, BaseInv, FrameOK, TypeOK, WorkerTypeOK, Frame
  <2>2. QED
    BY <2>1 DEF Ground, Base, TaskInv, ResumeInv, WorkerResumes
<1>2. CASE run.step \in {"idle", "done"}
  BY <1>2 DEF WorkerResumes, Busy, Finished
<1>3. CASE run.step \notin {"idle", "done"}
  <2>1. PICK n \in Names : n = Cur /\ Exists(n)
    BY <1>1, <1>3
  <2>2. CASE store'[n] = store[n]
    BY <2>1, <2>2 DEF ResumeInv, WorkerResumes, Busy, Cur, Wanted, Exists,
                      ResumePhases
  <2>3. CASE store'[n] # store[n] /\ Doomed(n)
    <3>1. ResumePhases(n) \subseteq ResumePhases(n)'
      BY <2>3 DEF Doomed, ResumePhases
    <3>2. Exists(n)' /\ ~Wanted(n)' /\ store'[n].phase # "failed"
      BY <2>3 DEF Doomed, Exists, Wanted
    <3>3. QED
      BY <2>1, <2>3, <3>1, <3>2 DEF ResumeInv, WorkerResumes, Busy, Cur, Doomed
  <2>4. CASE store'[n] # store[n] /\ Resumed(n)
    <3>1. /\ store[n].phase = "failed" /\ Exists(n)
          /\ store'[n].desired = store[n].desired
      BY <2>4, TimelyRetry
    <3>2. run.mode = "delete"
      BY <1>3, <2>1, <3>1
         DEF ResumeInv, WorkerResumes, Ground, Base, BaseInv, TypeOK, WorkerTypeOK,
             Frame
    <3>3. Exists(n)'
      BY <2>4 DEF Resumed, Rewrites, Exists
    <3>4. QED
      BY <2>1, <3>1, <3>2, <3>3 DEF ResumeInv, WorkerResumes, Busy, Cur
  <2>5. store'[n] = store[n] \/ Doomed(n) \/ Resumed(n)
    BY <1>1, <2>1, CallerWrites DEF Created
  <2>6. QED
    BY <2>2, <2>3, <2>4, <2>5
<1>4. QED
  BY <1>2, <1>3

(* It begins with a record that has not failed, or a doomed one. *)
LEMMA DispatchResumes ==
    ASSUME BaseInv, NEW c \in Callers, Acquire(c)
    PROVE  WorkerResumes'
<1>1. /\ who[c] \in Names /\ Dispatch(who[c]) /\ store' = store
      /\ run'.mode = "create" => run'.step \in {"top", "done"}
  BY AcquireRun DEF Acquire, diskVars
<1>2. /\ Cur' = who[c]
      /\ run'.mode = "delete" => Exists(who[c]) /\ store[who[c]].desired = "deleted"
  BY <1>1, DispatchTask DEF Cur
<1>3. run'.mode = "create" /\ run'.step # "done" => store[who[c]].phase # "failed"
  <2>1. CASE ~Exists(who[c])
    BY <1>1, <2>1 DEF Dispatch, Idle
  <2>2. CASE Exists(who[c])
    BY <1>1, <2>2 DEF Dispatch
  <2>3. QED
    BY <2>1, <2>2
<1>4. QED
  BY <1>1, <1>2, <1>3 DEF WorkerResumes, Busy, Finished, Exists

(* It reads the record again at the head of the loop and after an error.   *)
LEMMA ReadingResumes ==
    ASSUME Ground, ResumeInv, Top \/ Recheck
    PROVE  WorkerResumes'
<1>1. BaseInv
  BY DEF Ground, Base
<1>2. /\ Cur' = Cur /\ Cur \in Names /\ run.mode = "create" /\ store' = store
      /\ run.step \in {"top", "recheck"}
      /\ run'.rec = IF Exists(Cur) THEN store[Cur] ELSE run.rec
  BY <1>1, RecordRead
<1>3. /\ Exists(Cur) /\ store[Cur].phase # "failed"
      /\ store[Cur].phase \in ResumePhases(Cur) \cup {"ready"}
      /\ store[Cur].desired \in {"present", "deleted"}
  BY <1>1, <1>2, StoredIsRecord
     DEF Ground, TaskInv, ResumeInv, WorkerResumes, BaseInv, TypeOK, Record
<1>4. CASE Top
  <2>1. Busy(Cur)' => run'.rec.phase \in CreatePhases
    BY <1>1, <1>2, <1>4, TopReads
  <2>2. run'.mode = "delete" => store[Cur].desired = "deleted"
    BY <1>1, <1>4, TopTask
  <2>3. run'.mode = "create" => run'.step # "fail"
    BY <1>1, <1>4, TopTask
  <2>4. run'.mode = "create" /\ run'.step \notin {"idle", "done", "top", "fail"}
            => Busy(Cur)' \/ run'.step = "recheck"
    BY DEF Busy, Finished
  <2>5. Busy(Cur)' => store[Cur].phase \in CreatePhases
    BY <1>1, <1>4, TopReads
  <2>6. run'.step # "recheck"
    <3>1. FrameInv
      BY <1>1, <1>4, Working DEF Top, Creating
    <3>2. \/ store[Cur].desired = "deleted"
          \/ store[Cur].phase \in CreatePhases \cup {"ready"}
      BY <1>3 DEF ResumePhases
    <3>3. CASE store[Cur].desired = "deleted"
      BY <1>3, <1>4, <3>1, <3>3 DEF Top, FrameInv, Frame
    <3>4. CASE store[Cur].phase \in CreatePhases \cup {"ready"}
      BY <1>3, <1>4, <3>1, <3>4 DEF Top, FrameInv, Frame
    <3>5. QED
      BY <3>2, <3>3, <3>4
  <2>7. QED
    BY <1>2, <1>3, <2>1, <2>2, <2>3, <2>4, <2>5, <2>6
       DEF WorkerResumes, Exists
<1>5. CASE Recheck
  <2>1. FrameInv
    BY <1>1, <1>5, Working DEF Recheck, Creating
  <2>2. run'.step = "fail" /\ run'.mode = "create"
    BY <1>2, <1>5, <2>1 DEF Recheck, FrameInv, Frame
  <2>3. store[Cur].phase \in ResumePhases(Cur)
    BY <1>1, <1>2, <1>3, <1>5
       DEF Recheck, Creating, At, ResumeInv, WorkerResumes, ResumePhases, Wanted
  <2>4. QED
    BY <1>2, <1>3, <2>2, <2>3
       DEF WorkerResumes, ResumePhases, Busy, Finished, Exists
<1>6. QED
  BY <1>4, <1>5

(* It goes on with the phase it has, and writes no other but its turns. *)
LEMMA BusyResumes ==
    ASSUME Ground, ResumeInv, [Next]_vars, [FreshRetries]_vars,
           "appliedWrite" \notin Faults, WorkerStep, Busy(Cur), Cur' = Cur,
           run'.mode = "create", run'.rec.phase = run.rec.phase,
           run'.step \notin {"idle", "done"}
    PROVE  WorkerResumes'
<1>1. Base /\ BaseInv /\ run.rec.phase \in CreatePhases
  BY DEF Ground, Base, ResumeInv, WorkerResumes
<1>2. PICK n \in Names : n = Cur
  BY <1>1 DEF BaseInv, FrameOK, Busy, Finished
<1>3. /\ Exists(n) /\ store[n].phase # "failed"
      /\ Wanted(n) => store[n].phase \in CreatePhases
  BY <1>2 DEF Ground, TaskInv, ResumeInv, WorkerResumes, Busy, Finished
<1>4. /\ store'[n].phase # "failed"
      /\ Wanted(n)' /\ run'.step # "top" => store'[n].phase \in CreatePhases
  <2>1. CASE store'[n].phase = store[n].phase /\ store'[n].desired = store[n].desired
    BY <1>3, <2>1 DEF Wanted
  <2>2. CASE store'[n].phase \in CreatePhases
    BY <2>2, ResumeSets
  <2>3. CASE store'[n] # store[n] /\ (Created(n) \/ Doomed(n) \/ Resumed(n))
    <3>1. ~Created(n) /\ ~Resumed(n)
      BY <1>3, <2>3, TimelyRetry DEF Created
    <3>2. QED
      BY <2>3, <3>1 DEF Doomed, Wanted
  <2>4. CASE store'[n] # store[n] /\ Wrote(n)
    <3>1. ~Fail /\ ~Forget
      BY DEF Fail, Forget, Deleting, At, Busy, Finished
    <3>2. CASE Advance /\ Rewrites(n, NextPhase[run.rec.phase], NoPhase)
      <4>1. run'.step = "top"
        BY <1>1, <2>4, <3>2, LostWrites
      <4>2. QED
        BY <1>1, <3>2, <4>1, ResumeSets DEF Rewrites
    <3>3. CASE \/ Rewrites(n, run.rec.phase, NoPhase)
               \/ Rewrites(n, "preparing-invite", NoPhase)
      BY <1>1, <2>2, <3>3, ResumeSets DEF Rewrites
    <3>4. CASE \/ Rewrites(n, store[n].phase, store[n].resumePhase)
               \/ Notes(n, TRUE, store[n].packMemberID)
               \/ Notes(n, store[n].internalHost, TRUE)
      BY <2>1, <3>4 DEF Rewrites, Notes
    <3>5. CASE Claims(n)
      <4>1. store'[n].phase \in NeedsEnrollment
        BY <1>1, <3>5 DEF Claims, NoPhase, BaseInv, TypeOK, WorkerTypeOK,
                          NeedsEnrollment
      <4>2. QED
        BY <2>2, <4>1, ResumeSets
    <3>6. QED
      BY <2>4, <3>1, <3>2, <3>3, <3>4, <3>5 DEF Wrote, Busy
  <2>5. QED
    BY <1>1, <2>1, <2>3, <2>4, NextWrites
<1>5. CreatePhases \subseteq ResumePhases(n)'
  BY DEF ResumePhases
<1>6. QED
  BY <1>1, <1>2, <1>4, <1>5 DEF WorkerResumes, Busy

(* A deletion goes on with a doomed sandbox until its record is gone. *)
LEMMA DeletingResumes ==
    ASSUME Ground, ResumeInv, [Next]_vars, TaskInv', "appliedWrite" \notin Faults,
           WorkerStep, SameTask, run.mode = "delete",
           run.step \notin {"idle", "done"}, run'.step \notin {"idle", "done"}
    PROVE  WorkerResumes'
<1>1. Base /\ BaseInv
  BY DEF Ground, Base
<1>2. Cur' = Cur /\ run'.mode = "delete"
  BY DEF SameTask, Cur
<1>3. PICK n \in Names : n = Cur /\ Exists(n) /\ store[n].desired = "deleted"
  BY <1>1 DEF BaseInv, FrameOK, ResumeInv, WorkerResumes
<1>4. Exists(n)'
  <2>1. CASE store'[n] = store[n]
    BY <1>3, <2>1 DEF Exists
  <2>2. CASE store'[n] # store[n] /\ Forget
    <3>1. run'.step = "top"
      BY <1>1, <2>2, LostWrites
    <3>2. Pos' \notin Finished
      BY <3>1 DEF Pos, At, Finished
    <3>3. QED
      BY <1>2, <1>3, <3>2 DEF TaskInv, Exists
  <2>3. CASE store'[n] # store[n] /\ ~Forget
    BY <1>1, <1>3, <2>3, NextWrites
       DEF Created, Doomed, Resumed, Wrote, Rewrites, Notes, Claims, Exists
  <2>4. QED
    BY <2>1, <2>2, <2>3
<1>5. store'[n].desired = "deleted"
  BY <1>1, <1>3, <1>4, WritesRespect DEF Respects, KeepsDeletion
<1>6. QED
  BY <1>2, <1>3, <1>4, <1>5 DEF WorkerResumes, Busy, Exists

LEMMA NextResumes ==
    ASSUME Ground, ResumeInv, [Next]_vars, [FreshRetries]_vars, Ground',
           "appliedWrite" \notin Faults
    PROVE  ResumeInv'
<1>1. Base /\ BaseInv /\ TaskInv'
  BY DEF Ground, Base
<1>2. WorkerResumes'
  <2>1. CASE run' = run /\ (CallerMoves \/ Outside \/ UNCHANGED vars)
    BY <2>1, StandingResumes DEF Outside, vars, diskVars
  <2>2. ASSUME NEW c \in Callers, Acquire(c)
        PROVE  WorkerResumes'
    BY <1>1, <2>2, DispatchResumes
  <2>3. CASE run' = Idle
    BY <2>3 DEF Idle, WorkerResumes, Busy, Finished
  <2>4. CASE Top \/ Recheck
    BY <2>4, ReadingResumes
  <2>5. CASE WorkerStep /\ Discover
    <3>1. Busy(Cur)
      BY <2>5 DEF Busy, Discover, Creating, At, Finished
    <3>2. QED
      BY <1>1, <2>5, <3>1, DiscoverKeeps, BusyResumes
  <2>6. CASE /\ WorkerStep /\ SameTask
             /\ run.step \in Finished \cup {"top"} =>
                    run.step = "fail" /\ run'.step = "done"
    <3>1. CASE run'.step \in {"idle", "done"}
      BY <3>1 DEF WorkerResumes, Busy, Finished
    <3>2. CASE run'.step \notin {"idle", "done"} /\ run.mode = "create"
      <4>1. Busy(Cur)
        BY <2>6, <3>2 DEF Busy
      <4>2. QED
        BY <2>6, <3>2, <4>1, BusyResumes DEF SameTask, Cur
    <3>3. CASE run'.step \notin {"idle", "done"} /\ run.mode = "delete"
      BY <1>1, <2>6, <3>3, DeletingResumes DEF Finished
    <3>4. QED
      BY <1>1, <3>1, <3>2, <3>3 DEF BaseInv, TypeOK, WorkerTypeOK, Frame
  <2>7. QED
    BY <1>1, <2>1, <2>2, <2>3, <2>4, <2>5, <2>6, NextRun, SteadySteps
<1>3. QED
  BY <1>2, RecordResumes DEF ResumeInv, FailedResumable, ResumePhases

(* A failed sandbox can be retried: it remembers a phase the reconciler    *)
(* knows how to resume, whatever failed, crashed or was doomed before, if  *)
(* every retry finds the sandbox still failed when it writes (Retry reads  *)
(* and writes with nothing held in between; double_retry is what becomes   *)
(* of the others) and a write that is reported as failed was not applied   *)
(* (the write of "ready" of a creation, found again by Recheck, would be   *)
(* what fail stores).                                                      *)
THEOREM FailuresResumable ==
    ASSUME "appliedWrite" \notin Faults
    PROVE  Spec /\ [][FreshRetries]_vars => []FailedResumable
<1>1. Init => Ground /\ ResumeInv
  <2>1. Init => run = Idle /\ \A n \in Names : ~Exists(n)
    BY DEF Init, WorkerInit, StoreInit, Exists
  <2>2. QED
    BY <2>1, InitGround
       DEF ResumeInv, FailedResumable, WorkerResumes, Busy, Idle, Finished
<1>2. Ground /\ ResumeInv /\ [Next]_vars /\ [FreshRetries]_vars
        => (Ground /\ ResumeInv)'
  BY NextGround, NextResumes
<1>3. ResumeInv => FailedResumable
  BY DEF ResumeInv
<1>4. QED
  BY <1>1, <1>2, <1>3, PTL DEF Spec
=============================================================================
