---------------------------- MODULE ManagerProofs ----------------------------
(***************************************************************************)
(* The safety theorems of Manager, for any sandboxes, GUIDs and callers.   *)
(***************************************************************************)
EXTENDS WorkerLemmas

-----------------------------------------------------------------------------
(* How the invariants carry over a step of the worker. *)

(* A worker that moves on with its snapshot keeps a sound frame. *)
LEMMA MovedFrame ==
    ASSUME BaseInv, NEW s, At(s), s \notin {"idle", "persist"}, NEW S,
           Moved(S), "recover" \notin S,
           run.mode = "delete" \/ s \notin {"top"} \cup Finished \/ S \subseteq Abort
    PROVE  FrameOK'
  BY Working DEF FrameOK, FrameInv, Moved, SameTask, Pos, At, Cur, Abort, Finished,
     BaseInv

(* A worker that takes the stored record is sound in every respect. *)
LEMMA EnteredOK ==
    ASSUME NEW n \in Names, Entered(n), UNCHANGED store
    PROVE  FrameOK' /\ CreateInv' /\ DeleteInv'
<1>1. FrameInv' /\ Cur' = n
  BY DEF Entered, Cur
<1>2. FrameOK'
  BY <1>1 DEF Entered, FrameInv, FrameOK
<1>3. Pos' \notin Finished => Exists(n)' /\ run'.rec = store'[n]
  BY DEF Entered, Exists
<1>4. CreateInv'
  BY <1>1, <1>3 DEF CreateInv, Entered, Finished
<1>5. DeleteInv'
  BY <1>1, <1>3 DEF DeleteInv, Entered, PastMember, PastPolicy, PastRoute,
                    PastApp, Finished
<1>6. QED
  BY <1>2, <1>4, <1>5

(* While the sandbox at hand exists and only its things are touched, and   *)
(* no policy is added nor its owner forgotten, nothing leaks.              *)
LEMMA NoLeakKept ==
    ASSUME NoLeak, NEW n \in Names, store'[n] # NoRecord,
           StoreOthers(n), CFOthers(n), PackOthers(n), WorkOthers(n),
           leadPolicy' \subseteq leadPolicy,
           \A m \in Names : Exists(m) /\ store[m].appGUID \in leadPolicy =>
                Exists(m)' /\ store'[m].appGUID = store[m].appGUID
    PROVE  NoLeak'
<1>1. ASSUME NEW m \in Names, ~Exists(m)'
      PROVE  (~MemberPresent(m) /\ route[m] = {} /\ ~Owns(m) /\ bits[m] = "none")'
  BY <1>1 DEF NoLeak, StoreOthers, CFOthers, PackOthers, WorkOthers, Exists,
              MemberPresent, Owns, HasApp
<1>2. ASSUME NEW g \in leadPolicy'
      PROVE  \E m \in Names : (Exists(m) /\ store[m].appGUID = g)'
  BY <1>2 DEF NoLeak
<1>3. QED
  BY <1>1, <1>2 DEF NoLeak

(* The ordinary steps of reconcileCreate. *)
OrdinaryCreate ==
    \/ Preflight \/ Inspect \/ Probe \/ Lookup \/ Confirm \/ Await
    \/ Advance \/ SaveRevision \/ SaveHost \/ SaveMember \/ Recover
    \/ Prepare \/ Cloning \/ EnsurePrepared \/ Install
    \/ PushBits \/ Secure \/ Configure \/ StartStep
    \/ EnsureEnrollment \/ Trigger

(* The ordinary steps of a creation lead on, or to the end, and disturb    *)
(* nothing of another sandbox.                                             *)
LEMMA OrdinaryEffect ==
    ASSUME BaseInv, OrdinaryCreate
    PROVE  /\ Plain /\ Cur \in Names /\ run.mode = "create"
           /\ Pos \notin Finished \cup {"top"}
           /\ FrameOK'
<1>1. Plain
  BY LookPlain, SavePlain, DiskPlain, CloudPlain, EnrollPlain, TriggerPlain
     DEF OrdinaryCreate
<1>2. PICK s \in Steps \ (Finished \cup {"idle", "persist", "top"}) : Creating(s)
  BY DEF OrdinaryCreate, Preflight, Inspect, Probe, Lookup, Confirm, Await, Poll,
         Advance, SaveRevision, SaveHost, SaveMember, Recover, Prepare, Cloning,
         EnsurePrepared, Install, PushBits, Secure, Configure, StartStep,
         EnsureEnrollment, Trigger, Steps, CreateSteps, Finished
<1>3. /\ Cur \in Names /\ run.mode = "create" /\ At(s)
      /\ Pos \notin Finished \cup {"top"}
  BY <1>2, Working DEF Creating, Pos, At
<1>4. FrameOK'
  BY <1>1, <1>2, <1>3, MovedFrame DEF Plain, PlainSteps
<1>5. QED
  BY <1>1, <1>3, <1>4

(* The steps of reconcileDelete stay in it. *)
LEMMA DeleteFrame ==
    ASSUME BaseInv, DeleteStep
    PROVE  /\ Typed' /\ Within /\ Moved(Targets \ {"recover"})
           /\ run.mode = "delete" /\ Cur \in Names
<1>1. PICK s \in Steps \ {"idle"} : Deleting(s)
  BY DEF DeleteStep, Observe, Expel, Absence, Revoke, Unguard, Resolve, Unroute,
         Identify, Destroy, Sweep, Forget, Steps, DeleteSteps
<1>2. Typed /\ run.mode = "delete" /\ Cur \in Names
  BY <1>1, Working DEF Deleting
<1> DEFINE T == Targets \ {"recover"}
<1>3. Abort \subseteq T
  BY AbortTargets DEF Abort
<1>4. AfterMember \in T
  BY DeleteTargets DEF AfterMember
<1>5. CASE Observe
  BY <1>2, <1>3, <1>4, <1>5, ObserveEffect, IdlesEffect, DeleteTargets DEF Moved
<1>6. CASE Expel
  BY <1>2, <1>3, <1>4, <1>6, ExpelEffect DEF Moved
<1>7. CASE Absence
  BY <1>2, <1>3, <1>7, AbsenceEffect, IdlesEffect, DeleteTargets DEF Moved
<1>8. CASE Revoke
  BY <1>2, <1>3, <1>8, RevokeEffect, DeleteTargets DEF Moved
<1>9. CASE Unguard
  BY <1>2, <1>3, <1>9, UnguardEffect, DeleteTargets DEF Moved
<1>10. CASE Resolve
  BY <1>2, <1>3, <1>10, ResolveEffect, IdlesEffect, DeleteTargets DEF Moved
<1>11. CASE Unroute
  BY <1>2, <1>3, <1>11, UnrouteStepEffect, DeleteTargets DEF Moved
<1>12. CASE Identify
  BY <1>2, <1>3, <1>12, IdentifyEffect, IdlesEffect, DeleteTargets DEF Moved
<1>13. CASE Destroy
  BY <1>2, <1>3, <1>13, DestroyEffect, DeleteTargets DEF Moved
<1>14. CASE Sweep
  BY <1>2, <1>3, <1>14, SweepEffect, DeleteTargets DEF Moved
<1>15. CASE Forget
  BY <1>2, <1>3, <1>15, ForgetEffect DEF Moved
<1>16. QED
  BY <1>5, <1>6, <1>7, <1>8, <1>9, <1>10, <1>11, <1>12, <1>13, <1>14, <1>15
     DEF DeleteStep

(* Every step of the worker keeps the types, its frame, and what a         *)
(* creation knows about its record.                                        *)
LEMMA WorkKeepsBase ==
    ASSUME BaseInv, CreateInv, WorkerStep
    PROVE  Typed' /\ FrameOK' /\ CreateInv'
<1>1. CASE OrdinaryCreate
  <2>1. /\ Plain /\ Cur \in Names /\ run.mode = "create"
        /\ Pos \notin Finished /\ FrameOK'
    BY <1>1, OrdinaryEffect
  <2>2. Cur' = Cur /\ Pos' \notin {"discover", "allow", "claim"}
    BY <2>1 DEF Plain, Moved, SameTask, Cur, PlainSteps
  <2>3. Exists(Cur)'
    BY <2>1, <2>2 DEF CreateInv, Plain, KeepsIds, Follows, Exists
  <2>4. QED
    BY <2>1, <2>2, <2>3 DEF Plain, CreateInv
<1>2. CASE Top
  <2>1. Idles /\ Entered(Cur) /\ Typed /\ Cur \in Names
    BY <1>2, TopEffect, Working DEF Top, Creating
  <2>2. FrameOK' /\ CreateInv'
    BY <2>1, EnteredOK DEF Idles, diskVars
  <2>3. QED
    BY <2>1, <2>2, IdlesEffect DEF Entered
<1>3. CASE Recheck
  <2>1. /\ Idles /\ FrameInv' /\ run'.name = Cur /\ Pos' = "fail"
        /\ Typed /\ Cur \in Names
    BY <1>3, RecheckEffect, Working DEF Recheck, Creating
  <2>2. FrameOK' /\ CreateInv'
    BY <2>1 DEF FrameOK, FrameInv, CreateInv, Finished, Cur
  <2>3. QED
    BY <2>1, <2>2, IdlesEffect
<1>4. CASE Discover
  <2>1. /\ Idles /\ FrameInv' /\ run'.name = Cur /\ run'.mode = run.mode
        /\ Pos' \in {"claim"} \cup Abort
        /\ Pos' = "claim" =>
              /\ run'.rec.phase = run.rec.phase
              /\ run'.rec.appGUID \in Guids
              /\ run.rec.appGUID \in {NoGuid, run'.rec.appGUID}
        /\ Typed /\ Cur \in Names /\ run.mode = "create"
        /\ run.rec.phase \in CreatePhases
    <3>1. At("discover") /\ run.mode = "create"
      BY <1>4 DEF Discover, Creating
    <3>2. "discover" \notin Finished \cup {"top", "persist", "idle"}
      BY DEF Finished
    <3>3. /\ Typed /\ Cur \in Names /\ run.rec.phase \in CreatePhases
      BY <3>1, <3>2, Working
    <3>4. QED
      BY <1>4, <3>1, <3>3, DiscoverEffect
  <2>2. Exists(Cur) /\ run.rec.appGUID = store[Cur].appGUID
    BY <1>4 DEF CreateInv, Discover, Creating, At, Pos, Finished
  <2>3. FrameOK'
    BY <2>1 DEF FrameOK, FrameInv, Cur, Abort, Finished
  <2>4. Exists(Cur)' /\ store'[Cur'] = store[Cur]
    BY <2>1, <2>2 DEF Idles, diskVars, Exists, Cur
  <2>5. CreateInv'
    BY <2>1, <2>2, <2>4 DEF CreateInv, Abort, Finished
  <2>6. QED
    BY <2>1, <2>3, <2>5, IdlesEffect
<1>5. CASE Claim
  <2>1. Typed' /\ Moved({"top"} \cup Abort) /\ Cur \in Names
    BY <1>5, ClaimEffect, Working DEF Claim, Creating
  <2>2. At("claim") /\ run.mode = "create" /\ Exists(Cur)
    BY <1>5 DEF Claim, Creating, CreateInv, At, Pos, Finished
  <2>3. FrameOK'
    BY <2>1, <2>2, MovedFrame DEF Abort, Finished
  <2>4. Exists(Cur)' /\ Pos' \notin {"discover", "allow", "claim"}
    BY <1>5, <2>1, <2>2, ClaimEffect DEF Moved, SameTask, Cur, Exists, Abort
  <2>5. QED
    BY <2>1, <2>3, <2>4 DEF CreateInv
<1>6. CASE Allow
  <2>1. Typed' /\ Moved({"advance"} \cup Abort) /\ store' = store /\ Cur \in Names
    BY <1>6, AllowEffect, Working DEF Allow, Creating, diskVars
  <2>2. At("allow") /\ run.mode = "create" /\ Exists(Cur)
    BY <1>6 DEF Allow, Creating, CreateInv, At, Pos, Finished
  <2>3. FrameOK'
    BY <2>1, <2>2, MovedFrame DEF Abort, Finished
  <2>4. Exists(Cur)' /\ Pos' \notin {"discover", "allow", "claim"}
    BY <2>1, <2>2 DEF Moved, SameTask, Cur, Exists, Abort
  <2>5. QED
    BY <2>1, <2>3, <2>4 DEF CreateInv
<1>7. CASE PersistStep
  <2>1. Typed' /\ Moved({Pos} \cup Abort) /\ KeepsIds /\ Cur \in Names
    BY <1>7, PersistStepEffect, Working DEF PersistStep
  <2>2. Cur' = Cur /\ run'.mode = run.mode /\ run'.rec = run.rec
    BY <2>1 DEF Moved, SameTask, Cur
  <2>3. FrameOK'
    BY <2>1, <2>2 DEF Moved, FrameInv, FrameOK, BaseInv, Abort, Finished
  <2>4. Exists(Cur) => Exists(Cur)' /\ store'[Cur'].appGUID = store[Cur].appGUID
    BY <2>1, <2>2 DEF KeepsIds, Follows, Exists
  <2>5. CreateInv'
    BY <2>1, <2>2, <2>4 DEF Moved, CreateInv, Abort, Finished
  <2>6. QED
    BY <2>1, <2>3, <2>5
<1>8. CASE Fail \/ Forget
  <2>1. Typed' /\ Moved(Abort) /\ Cur \in Names
    BY <1>8, FailEffect, ForgetEffect, Working DEF Fail, Forget, Deleting
  <2>2. FrameOK' /\ CreateInv'
    BY <2>1 DEF Moved, SameTask, Cur, FrameInv, FrameOK, CreateInv, Abort, Finished
  <2>3. QED
    BY <2>1, <2>2
<1>9. CASE Cleanup
  <2>1. /\ Typed' /\ Moved({"saveMember", "sweep"} \cup Abort)
        /\ store' = store /\ Cur \in Names
        /\ Pos' = "saveMember" => run.mode = "create"
        /\ Pos' = "sweep" => run.mode = "delete"
        /\ Pos = "cleanup"
    BY <1>9, CleanupEffect, Working DEF Cleanup, At, Pos
  <2>2. FrameOK'
    BY <1>9, <2>1, MovedFrame DEF Cleanup, Abort, Finished
  <2>3. CreateInv'
    BY <2>1 DEF CreateInv, Moved, SameTask, Cur, Abort, Finished, Exists
  <2>4. QED
    BY <2>1, <2>2, <2>3
<1>10. CASE DeleteStep
  <2>1. /\ Typed' /\ Moved(Targets \ {"recover"})
        /\ run.mode = "delete" /\ Cur \in Names
    BY <1>10, DeleteFrame
  <2>2. QED
    BY <2>1 DEF Moved, SameTask, Cur, FrameInv, FrameOK, CreateInv
<1>11. QED
  BY <1>1, <1>2, <1>3, <1>4, <1>5, <1>6, <1>7, <1>8, <1>9, <1>10
     DEF WorkerStep, CreateStep, OrdinaryCreate

-----------------------------------------------------------------------------
(* The callers, the scan, crashes and the world outside.                   *)

(* What moving a caller does to the control state of the callers. *)
LEMMA CallKeeps ==
    ASSUME ManagerTypeOK, CallersOK, NEW c \in Callers,
           NEW n \in Names \cup {NoName},
           NEW at \in {"idle", "retryGet", "retryPut", "enter", "wait", "run",
                       "leave"},
           at # "idle" => n \in Names,
           Call(c, n, at), todo' \subseteq Names
    PROVE  ManagerTypeOK' /\ CallersOK'
  BY DEF ManagerTypeOK, CallersOK, Call

(* A step of the handlers, the callers or the scan that is not the start   *)
(* or the end of a task.                                                   *)
CallerMoves ==
    \/ Request \/ Scan \/ ScanNext
    \/ \E c \in Callers : RetryGet(c) \/ RetryPut(c) \/ Enter(c) \/ Leave(c)

(* Requests, scans and callers outside the mutex write records at most,    *)
(* and keep identities and deletions.                                      *)
LEMMA CallerEffect ==
    ASSUME BaseInv, CallerMoves
    PROVE  /\ TypeOK' /\ CallersOK' /\ KeepsIds
           /\ UNCHANGED <<calm, bits, installed, worldVars, enroll, localVars>>
<1>1. /\ StoreTypeOK /\ ManagerTypeOK /\ CallersOK
      /\ \A c \in Callers : pc[c] # "idle" => who[c] \in Names
  BY DEF BaseInv, TypeOK, CallersOK
<1>2. UNCHANGED <<calm, bits, installed, worldVars, enroll, localVars>>
  BY DEF CallerMoves, Request, PostSandbox, DeleteSandbox, PostRetry, Enqueue,
         Scan, ScanNext, RetryGet, RetryPut, Enter, Leave, diskVars
<1>3. StoreTypeOK' /\ KeepsIds
  <2>1. CASE store' = store
    BY <1>1, <2>1 DEF StoreTypeOK, KeepsIds, Follows, KeepsDeletion, Exists
  <2>2. ASSUME NEW n \in Names, NEW ok \in BOOLEAN, CreateRecord(n, ok)
        PROVE  StoreTypeOK' /\ KeepsIds
    BY <1>1, <2>2, CreateEffect
  <2>3. ASSUME NEW n \in Names, NEW ok \in BOOLEAN,
               UpdateRecord(n, [store[n] EXCEPT !.desired = "deleted",
                                                !.phase = "deleting"], ok)
        PROVE  StoreTypeOK' /\ KeepsIds
    <3>1. Exists(n) =>
            /\ [store[n] EXCEPT !.desired = "deleted", !.phase = "deleting"]
                    \in Record
            /\ Follows([store[n] EXCEPT !.desired = "deleted",
                                        !.phase = "deleting"], store[n])
      BY <1>1, StoredIsRecord DEF Record, Phases, Follows, KeepsDeletion
    <3>2. QED
      BY <1>1, <2>3, <3>1, UpdateEffect
  <2>4. ASSUME NEW n \in Names, NEW ok \in BOOLEAN,
               UpdateRecord(n, [store[n] EXCEPT !.phase = store[n].resumePhase,
                                                !.resumePhase = ""], ok)
        PROVE  StoreTypeOK' /\ KeepsIds
    <3>1. Exists(n) =>
            /\ [store[n] EXCEPT !.phase = store[n].resumePhase,
                                !.resumePhase = ""] \in Record
            /\ Follows([store[n] EXCEPT !.phase = store[n].resumePhase,
                                        !.resumePhase = ""], store[n])
      BY <1>1, StoredIsRecord DEF Record, Phases, Follows, KeepsDeletion
    <3>2. QED
      BY <1>1, <2>4, <3>1, UpdateEffect
  <2>5. CASE Request
    BY <2>1, <2>2, <2>3, <2>5 DEF Request, PostSandbox, DeleteSandbox, PostRetry
  <2>6. ASSUME NEW c \in Callers, RetryPut(c)
        PROVE  StoreTypeOK' /\ KeepsIds
    BY <1>1, <2>4, <2>6 DEF RetryPut
  <2>7. QED
    BY <2>1, <2>5, <2>6
       DEF CallerMoves, Scan, ScanNext, RetryGet, Enter, Leave, diskVars
<1>4. ManagerTypeOK' /\ CallersOK'
  <2>1. CASE Request
    <3>1. PICK n \in Names, j \in Jobs : PostSandbox(n, j) \/ DeleteSandbox(n, j)
                                            \/ PostRetry(n, j)
      BY <2>1 DEF Request
    <3>2. todo' = todo /\ (\/ UNCHANGED <<pc, who>>
                           \/ Call(j, n, "enter") \/ Call(j, n, "retryGet"))
      BY <3>1 DEF PostSandbox, DeleteSandbox, PostRetry, Enqueue
    <3>3. j \in Callers
      BY DEF Callers
    <3>4. QED
      BY <1>1, <3>2, <3>3, CallKeeps DEF ManagerTypeOK, CallersOK
  <2>2. ASSUME NEW c \in Callers,
               RetryGet(c) \/ RetryPut(c) \/ Enter(c) \/ Leave(c)
        PROVE  ManagerTypeOK' /\ CallersOK'
    <3>1. /\ todo' = todo
          /\ \/ Call(c, NoName, "idle")
             \/ /\ who[c] \in Names
                /\ \E at \in {"retryPut", "enter", "wait"} : Call(c, who[c], at)
      BY <1>1, <2>2 DEF RetryGet, RetryPut, Enter, Leave, Return
    <3>2. QED
      BY <1>1, <3>1, CallKeeps DEF ManagerTypeOK
  <2>3. CASE Scan
    BY <1>1, <2>3 DEF Scan, ManagerTypeOK, CallersOK
  <2>4. CASE ScanNext
    <3>1. PICK n \in todo : Call(Scanner, n, "enter") /\ todo' = todo \ {n}
      BY <2>4 DEF ScanNext
    <3>2. Scanner \in Callers /\ n \in Names /\ todo' \subseteq Names
      BY <1>1, <3>1 DEF Callers, ManagerTypeOK
    <3>3. QED
      BY <1>1, <3>1, <3>2, CallKeeps
  <2>5. QED
    BY <2>1, <2>2, <2>3, <2>4 DEF CallerMoves
<1>5. QED
  BY <1>2, <1>3, <1>4
     DEF BaseInv, TypeOK, CFTypeOK, PackTypeOK, WorkTypeOK, WorkerTypeOK,
         worldVars, localVars

(* Callers going on do not disturb the worker. *)
LEMMA SameWorker ==
    ASSUME FrameOK, CreateInv, run' = run, KeepsIds, Typed
    PROVE  FrameOK' /\ CreateInv'
<1>1. Pos' = Pos /\ Cur' = Cur
  BY DEF Pos, At, Cur
<1>2. Pos \notin Finished => Cur \in Names
  BY DEF FrameOK, Pos, At, Finished
<1>3. Exists(Cur) /\ Cur \in Names =>
            Exists(Cur)' /\ store'[Cur'].appGUID = store[Cur].appGUID
  BY <1>1 DEF KeepsIds, Follows, Exists
<1>4. QED
  BY <1>1, <1>2, <1>3 DEF FrameOK, CreateInv, Finished

(* An idle frame satisfies every part of the invariant about frames. *)
LEMMA IdleFrame ==
    ASSUME run' = Idle
    PROVE  FrameInv' /\ FrameOK' /\ CreateInv' /\ DeleteInv'
<1>1. NewRecord \in Record /\ "idle" \in Steps
  BY DEF NewRecord, Record, Phases, CreatePhases, PreparePhases, MaybeGuid, Steps
<1>2. FrameInv' /\ Pos' = "idle" /\ run'.mode = "create" /\ run'.step = "idle"
  BY <1>1 DEF Idle, FrameInv, Frame, Pos, At, Seen
<1>3. QED
  BY <1>2 DEF FrameOK, FrameInv, CreateInv, DeleteInv, Finished

(* Taking the mutex starts a task, giving it up ends it. *)
LEMMA AcquireEffect ==
    ASSUME BaseInv, NEW c \in Callers, Acquire(c)
    PROVE  /\ TypeOK' /\ CallersOK' /\ FrameOK' /\ CreateInv' /\ DeleteInv'
           /\ UNCHANGED <<calm, diskVars, worldVars>>
<1>1. /\ UNCHANGED <<calm, diskVars, worldVars, enroll, prepared, recovery, todo>>
      /\ who[c] \in Names /\ Call(c, who[c], "run") /\ Dispatch(who[c])
  BY DEF Acquire, BaseInv, CallersOK
<1>2. ManagerTypeOK' /\ CallersOK'
  BY <1>1, CallKeeps DEF BaseInv, TypeOK, ManagerTypeOK
<1>3. Entered(who[c])
  BY <1>1, DispatchEffect DEF BaseInv, TypeOK
<1>4. FrameOK' /\ CreateInv' /\ DeleteInv'
  BY <1>1, <1>3, EnteredOK DEF diskVars
<1>5. QED
  BY <1>1, <1>2, <1>3, <1>4
     DEF BaseInv, TypeOK, StoreTypeOK, CFTypeOK, PackTypeOK, WorkTypeOK,
         WorkerTypeOK, Entered, FrameInv, diskVars, worldVars

(* Giving up the mutex leaves an idle frame. *)
LEMMA ReleaseEffect ==
    ASSUME BaseInv, NEW c \in Callers, Release(c)
    PROVE  /\ TypeOK' /\ CallersOK' /\ FrameOK' /\ CreateInv' /\ DeleteInv'
           /\ UNCHANGED <<calm, diskVars, worldVars>>
<1>1. /\ UNCHANGED <<calm, diskVars, worldVars, enroll, prepared, recovery, todo>>
      /\ who[c] \in Names /\ Call(c, who[c], "leave") /\ run' = Idle
  BY DEF Release, BaseInv, CallersOK
<1>2. ManagerTypeOK' /\ CallersOK'
  BY <1>1, CallKeeps DEF BaseInv, TypeOK, ManagerTypeOK
<1>3. FrameInv' /\ FrameOK' /\ CreateInv' /\ DeleteInv'
  BY <1>1, IdleFrame
<1>4. QED
  BY <1>1, <1>2, <1>3
     DEF BaseInv, TypeOK, StoreTypeOK, CFTypeOK, PackTypeOK, WorkTypeOK,
         WorkerTypeOK, FrameInv, diskVars, worldVars

(* A crash keeps what is on disk and outside, and nothing else. *)
LEMMA CrashEffect ==
    ASSUME BaseInv, Crash
    PROVE  /\ TypeOK' /\ CallersOK' /\ FrameOK' /\ CreateInv' /\ DeleteInv'
           /\ UNCHANGED <<calm, diskVars, worldVars>>
<1>1. UNCHANGED <<calm, diskVars, worldVars>> /\ run' = Idle
  BY DEF Crash
<1>2. ManagerTypeOK' /\ CallersOK'
  BY DEF Crash, ManagerTypeOK, CallersOK
<1>3. FrameInv' /\ FrameOK' /\ CreateInv' /\ DeleteInv'
  BY <1>1, IdleFrame
<1>4. PackTypeOK' /\ WorkerTypeOK'
  BY <1>1, <1>3
     DEF Crash, BaseInv, TypeOK, PackTypeOK, WorkerTypeOK, FrameInv, worldVars
<1>5. QED
  BY <1>1, <1>2, <1>3, <1>4
     DEF BaseInv, TypeOK, StoreTypeOK, CFTypeOK, WorkTypeOK, diskVars, worldVars

(* What happens outside leaves no policy and no app of the manager's.      *)
LEMMA OutsideEffect ==
    ASSUME BaseInv, Outside
    PROVE  /\ TypeOK' /\ UNCHANGED <<diskVars, localVars, callVars, leadPolicy>>
           /\ \A n \in Names : /\ route'[n] \subseteq route[n]
                               /\ Owns(n)' => Owns(n)
           /\ "lateJoin" \notin Faults /\ NoLateJoin =>
                    UNCHANGED <<member, late>>
<1>1. /\ CFTypeOK /\ PackTypeOK /\ calm \in BOOLEAN
      /\ UNCHANGED <<diskVars, localVars, callVars>>
  BY DEF Outside, BaseInv, TypeOK
<1>2. CASE Settle /\ UNCHANGED <<worldVars, enroll>>
  BY <1>1, <1>2
     DEF BaseInv, TypeOK, Settle, StoreTypeOK, CFTypeOK, PackTypeOK, WorkTypeOK,
         WorkerTypeOK, ManagerTypeOK, Owns, HasApp, diskVars, worldVars,
         localVars, callVars
<1>3. ASSUME NEW n \in Names, calm' = calm,
             (InviteExpires(n) \/ JoinLands(n)) /\ UNCHANGED cfVars
      PROVE  /\ TypeOK' /\ UNCHANGED cfVars
             /\ "lateJoin" \notin Faults /\ NoLateJoin =>
                    UNCHANGED <<member, late>>
  <2>1. PackTypeOK'
    BY <1>1, <1>3, PackEffect
  <2>2. "lateJoin" \notin Faults /\ NoLateJoin => ~JoinLands(n)
    BY <1>1 DEF NoLateJoin, JoinLands
  <2>3. QED
    BY <1>1, <1>3, <2>1, <2>2
       DEF BaseInv, TypeOK, StoreTypeOK, CFTypeOK, WorkTypeOK, WorkerTypeOK,
           ManagerTypeOK, InviteExpires, diskVars, localVars, callVars, cfVars
<1>4. ASSUME NEW n \in Names, calm' = calm, UNCHANGED packVars,
             RemoveApp(n) \/ OperatorPushes(n, FreshGuids)
      PROVE  /\ TypeOK' /\ UNCHANGED <<leadPolicy, member, late>>
             /\ \A m \in Names : /\ route'[m] \subseteq route[m]
                                 /\ Owns(m)' => Owns(m)
  <2>1. FreshGuids \in SUBSET Guids
    BY DEF FreshGuids
  <2>2. /\ CFTypeOK' /\ CFOthers(n) /\ leadPolicy' = leadPolicy
        /\ route'[n] \subseteq route[n] /\ ~Owns(n)'
    BY <1>1, <1>4, <2>1, RemoveEffect, OperatorPushEffect DEF Owns
  <2>3. QED
    BY <1>1, <1>4, <2>2
       DEF BaseInv, TypeOK, StoreTypeOK, PackTypeOK, WorkTypeOK, WorkerTypeOK,
           ManagerTypeOK, CFOthers, Owns, HasApp, diskVars, localVars, callVars,
           packVars
<1>5. QED
  BY <1>1, <1>2, <1>3, <1>4 DEF Outside, OperatorDeletes, Owns, HasApp, cfVars

-----------------------------------------------------------------------------
(* Type correctness, and what it needs: the worker's frame.                *)

Base == BaseInv /\ CreateInv

(* An empty manager satisfies the base invariant, ... *)
LEMMA InitBase == Init => Base
<1>1. ASSUME Init PROVE Base
  <2>1. NewRecord \in Record /\ "idle" \in Steps
    BY DEF NewRecord, Record, Phases, CreatePhases, PreparePhases, MaybeGuid, Steps
  <2>2. run \in Frame /\ run.then = "idle" /\ run.step = "idle"
        /\ run.mode = "create"
    BY <1>1, <2>1 DEF Init, WorkerInit, Idle, Frame, Seen
  <2>3. FrameOK /\ CreateInv
    BY <2>2 DEF FrameOK, CreateInv, Pos, At, Finished
  <2>4. StoreTypeOK /\ CFTypeOK /\ PackTypeOK /\ WorkTypeOK /\ calm \in BOOLEAN
    BY <1>1 DEF Init, StoreInit, CFInit, PackInit, WorkInit, CalmInit,
                StoreTypeOK, CFTypeOK, PackTypeOK, WorkTypeOK, MaybeGuid,
                WholeRoute
  <2>5. WorkerTypeOK /\ ManagerTypeOK /\ CallersOK
    BY <1>1, <2>2 DEF Init, WorkerInit, WorkerTypeOK, ManagerTypeOK, CallersOK
  <2>6. QED
    BY <2>3, <2>4, <2>5 DEF Base, BaseInv, TypeOK
<1>2. QED
  BY <1>1

(* ... and every step keeps it. *)
LEMMA NextBase ==
    ASSUME Base, [Next]_vars
    PROVE  Base'
<1>1. CASE CallerMoves
  <2>1. TypeOK' /\ CallersOK' /\ KeepsIds /\ run' = run
    BY <1>1, CallerEffect DEF Base, localVars
  <2>2. FrameOK' /\ CreateInv'
    BY <2>1, SameWorker DEF Base, BaseInv, TypeOK, Typed
  <2>3. QED
    BY <2>1, <2>2 DEF Base, BaseInv
<1>2. CASE \E c \in Callers : Acquire(c) \/ Release(c)
  BY <1>2, AcquireEffect, ReleaseEffect DEF Base, BaseInv
<1>3. CASE Work
  <2>1. WorkerStep /\ UNCHANGED <<calm, pc, who, todo>>
    BY <1>3 DEF Work, callVars
  <2>2. Typed' /\ FrameOK' /\ CreateInv'
    BY <2>1, WorkKeepsBase DEF Base
  <2>3. QED
    BY <2>1, <2>2 DEF Base, BaseInv, TypeOK, Typed, ManagerTypeOK, CallersOK
<1>4. CASE Crash
  BY <1>4, CrashEffect DEF Base, BaseInv
<1>5. CASE Outside
  <2>1. TypeOK' /\ UNCHANGED <<store, run, pc, who>>
    BY <1>5, OutsideEffect DEF Base, diskVars, localVars, callVars
  <2>2. FrameOK' /\ CreateInv' /\ CallersOK'
    BY <2>1 DEF Base, BaseInv, FrameOK, CreateInv, CallersOK, Pos, At, Cur, Exists
  <2>3. QED
    BY <2>1, <2>2 DEF Base, BaseInv
<1>6. CASE UNCHANGED vars
  BY <1>6
     DEF Base, BaseInv, TypeOK, StoreTypeOK, CFTypeOK, PackTypeOK, WorkTypeOK,
         WorkerTypeOK, ManagerTypeOK, FrameOK, CreateInv, CallersOK, Pos, At,
         Cur, Exists, vars, diskVars, worldVars, localVars, callVars
<1>7. QED
  BY <1>1, <1>2, <1>3, <1>4, <1>5, <1>6 DEF Next, CallerStep, CallerMoves

(* Whatever fails, the worker's frame fits its sandbox and a creation's    *)
(* snapshot agrees with the record where it has to.                        *)
THEOREM BaseInvariant == Spec => []Base
  BY InitBase, NextBase, PTL DEF Spec

(* Every variable keeps its type, and every effect of the worker happens   *)
(* within the frame of the sandbox it was called for.                      *)
THEOREM TypeCorrect == Spec => []TypeOK
<1>1. Base => TypeOK
  BY DEF Base, BaseInv
<1>2. QED
  BY <1>1, BaseInvariant, PTL

-----------------------------------------------------------------------------
(* What every write of a record that lives respects. *)
Respects(n) ==
    Exists(n) /\ Exists(n)' =>
        /\ KeepsDeletion(store'[n], store[n])
        /\ store[n].appGUID # NoGuid => store'[n].appGUID = store[n].appGUID

(* No step replaces a recorded identity or takes back a deletion. *)
LEMMA WritesRespect ==
    ASSUME Base, [Next]_vars, NEW n \in Names
    PROVE  Respects(n)
<1>1. CASE KeepsIds
  BY <1>1 DEF KeepsIds, Follows, Respects
<1>2. CASE store' = store
  BY <1>2 DEF Respects, KeepsDeletion
<1>3. CASE CallerMoves
  BY <1>1, <1>3, CallerEffect DEF Base
<1>4. CASE \E c \in Callers : Acquire(c) \/ Release(c)
  BY <1>2, <1>4 DEF Acquire, Release, diskVars
<1>5. CASE WorkerStep
  <2>1. CASE OrdinaryCreate
    BY <1>1, <2>1, OrdinaryEffect DEF Base, Plain
  <2>2. CASE Claim
    BY <2>2, ClaimEffect DEF Base, Respects
  <2>3. CASE PersistStep \/ Fail
    BY <1>1, <2>3, PersistStepEffect, FailEffect DEF Base
  <2>4. CASE Forget
    <3>1. store' = store \/ store' = [store EXCEPT ![Cur] = NoRecord]
      BY <2>4 DEF Forget, DeleteRecord, Commit
    <3>2. store \in [Names -> Record \cup {NoRecord}]
      BY DEF Base, BaseInv, TypeOK, StoreTypeOK
    <3>3. CASE store' = [store EXCEPT ![Cur] = NoRecord]
      BY <3>2, <3>3 DEF Exists, Respects, KeepsDeletion
    <3>4. QED
      BY <1>2, <3>1, <3>3
  <2>5. CASE store' = store
    BY <1>2, <2>5
  <2>6. QED
    BY <1>5, <2>1, <2>2, <2>3, <2>4, <2>5
       DEF WorkerStep, CreateStep, DeleteStep, OrdinaryCreate, Top, Recheck,
           Discover, Allow, Cleanup, Observe, Expel, Absence, Revoke, Unguard,
           Resolve, Unroute, Identify, Destroy, Sweep, diskVars
<1>6. CASE Crash \/ Outside \/ UNCHANGED vars
  BY <1>2, <1>6 DEF Crash, Outside, vars, diskVars
<1>7. QED
  BY <1>3, <1>4, <1>5, <1>6 DEF Next, CallerStep, CallerMoves, Work

(* An app identity, once recorded, is never replaced while the record      *)
(* lives, whatever fails, crashes or happens outside: the only write of an *)
(* identity, Claim, is made from a snapshot that agreed with the record    *)
(* when Discover compared them (reconciler.go:283).                        *)
THEOREM IdentityStable == Spec => GuidStable
<1>1. Base /\ [Next]_vars =>
        [\A n \in Names : Exists(n) /\ Exists(n)' /\ store[n].appGUID # NoGuid
            => store'[n].appGUID = store[n].appGUID]_vars
  BY WritesRespect DEF Respects
<1>2. QED
  BY <1>1, BaseInvariant, PTL DEF Spec, GuidStable

(* A DELETE is never taken back: not by a worker that goes on with the     *)
(* snapshot it took before, nor by a retry that read the record before it. *)
THEOREM DeletionStays == Spec => DeletionSticks
<1>1. Base /\ [Next]_vars =>
        [\A n \in Names : Exists(n) /\ Exists(n)' /\ store[n].desired = "deleted"
            => store'[n].desired = "deleted"]_vars
  BY WritesRespect DEF Respects, KeepsDeletion
<1>2. QED
  BY <1>1, BaseInvariant, PTL DEF Spec, DeletionSticks

-----------------------------------------------------------------------------
(* The sandbox the worker is at exists, and is doomed if the worker is to  *)
(* delete it.                                                              *)

(* ReconcileOne starts on a record, and deletes only a doomed sandbox. *)
LEMMA DispatchTask ==
    ASSUME NEW n \in Names, Dispatch(n)
    PROVE  /\ run'.name = n
           /\ run'.mode = "create" /\ run'.step # "done" => Exists(n)
           /\ run'.mode = "delete" => Exists(n) /\ store[n].desired = "deleted"
<1>1. CASE ~Exists(n)
  BY <1>1 DEF Dispatch, Idle
<1>2. CASE Exists(n)
  BY <1>2 DEF Dispatch
<1>3. QED
  BY <1>1, <1>2

(* So does a worker in the middle of a creation; it goes on with the       *)
(* record, by the phase in it.                                             *)
LEMMA TopTask ==
    ASSUME BaseInv, Top
    PROVE  /\ run'.name = Cur
           /\ run'.mode = "create" /\ run'.step # "done" =>
                /\ Exists(Cur) /\ store[Cur].desired # "deleted"
                /\ run'.rec = store[Cur]
                /\ \/ run'.step = "recover" /\ store[Cur].phase \in NeedsEnrollment
                   \/ /\ run'.step = "persist" /\ store[Cur].phase \in CreatePhases
                      /\ run'.then = FirstStep[store[Cur].phase]
                   \/ run'.step = "recheck"
           /\ run'.mode = "delete" => Exists(Cur) /\ store[Cur].desired = "deleted"
<1>1. run \in Frame /\ run.mode = "create"
  <2>1. Creating("top")
    BY DEF Top
  <2>2. QED
    BY <2>1, Working DEF Creating, FrameInv
<1>2. CASE ~Exists(Cur)
  BY <1>1, <1>2 DEF Top, Frame, Cur
<1>3. CASE Exists(Cur)
  BY <1>1, <1>3 DEF Top, Frame, Cur
<1>4. QED
  BY <1>2, <1>3

(* A task goes on with the same record as long as records live.            *)
LEMMA TaskGoesOn ==
    ASSUME TaskInv, Cur \in Names, KeepsIds, run'.name = run.name,
           run'.mode = run.mode, run.step \notin {"idle", "done"},
           run.mode = "delete" /\ Pos' \notin Finished => Pos \notin Finished
    PROVE  TaskInv'
<1>1. Cur' = Cur
  BY DEF Cur
<1>2. Exists(Cur) => Exists(Cur)' /\ KeepsDeletion(store'[Cur'], store[Cur])
  BY <1>1 DEF KeepsIds, Follows, Exists
<1>3. QED
  BY <1>1, <1>2 DEF TaskInv, KeepsDeletion

(* No step of the worker takes its record away before it is done. *)
LEMMA WorkTask ==
    ASSUME Base, TaskInv, WorkerStep
    PROVE  TaskInv'
<1>1. BaseInv /\ CreateInv
  BY DEF Base
<1>2. CASE OrdinaryCreate
  <2>1. Plain /\ Cur \in Names /\ run.mode = "create" /\ Pos \notin Finished
    BY <1>1, <1>2, OrdinaryEffect
  <2>2. run.step \notin {"idle", "done"}
    BY <2>1 DEF Pos, At, Finished
  <2>3. QED
    BY <2>1, <2>2, TaskGoesOn DEF Plain, Moved, SameTask
<1>3. CASE Top
  BY <1>1, <1>3, TopTask DEF Top, TaskInv, Cur, Exists, diskVars
<1>4. CASE Recheck \/ Discover
  <2>1. /\ store' = store /\ run'.name = Cur /\ run'.mode = run.mode
        /\ run.mode = "create" /\ run.step \notin {"idle", "done"}
    BY <1>1, <1>4, RecheckEffect, DiscoverEffect
       DEF Recheck, Discover, Creating, At, Idles, diskVars
  <2>2. QED
    BY <2>1 DEF TaskInv, Cur, Exists
<1>5. CASE Claim
  <2>1. Creating("claim")
    BY <1>5 DEF Claim
  <2>2. run.mode = "create" /\ Cur \in Names /\ Exists(Cur)
    BY <1>1, <2>1, Working DEF Creating, TaskInv, At
  <2>3. Exists(Cur)' /\ run'.mode = "create" /\ Cur' = Cur
    BY <1>1, <1>5, <2>2, ClaimEffect DEF Moved, SameTask, Cur, Exists
  <2>4. QED
    BY <2>3 DEF TaskInv
<1>6. CASE Allow
  <2>1. At("allow") /\ run.mode = "create" /\ Exists(Cur)
    BY <1>6 DEF Allow, Creating, TaskInv, At
  <2>2. store' = store /\ run'.mode = "create" /\ Cur' = Cur
    BY <1>1, <1>6, <2>1, AllowEffect DEF Moved, SameTask, Cur, diskVars
  <2>3. QED
    BY <2>1, <2>2 DEF TaskInv, Exists
<1>7. CASE PersistStep
  <2>1. At("persist")
    BY <1>7 DEF PersistStep
  <2>2. Moved({Pos} \cup Abort) /\ KeepsIds /\ Cur \in Names
    BY <1>1, <1>7, <2>1, PersistStepEffect, Working
  <2>3. QED
    BY <2>1, <2>2, TaskGoesOn DEF Moved, SameTask, Abort, Finished, At
<1>8. CASE Fail
  <2>1. At("fail")
    BY <1>8 DEF Fail
  <2>2. Moved(Abort) /\ KeepsIds /\ Cur \in Names
    BY <1>1, <1>8, <2>1, FailEffect, Working
  <2>3. QED
    BY <2>1, <2>2, TaskGoesOn DEF Moved, SameTask, Abort, Finished, At
<1>9. CASE Cleanup
  <2>1. At("cleanup")
    BY <1>9 DEF Cleanup
  <2>2. /\ Moved({"saveMember", "sweep"} \cup Abort) /\ KeepsIds /\ Cur \in Names
    BY <1>1, <1>9, <2>1, CleanupEffect, Working
  <2>3. QED
    BY <2>1, <2>2, TaskGoesOn DEF Moved, SameTask, Finished, At, Pos
<1>10. CASE DeleteStep
  <2>1. Moved(Targets \ {"recover"}) /\ run.mode = "delete" /\ Cur \in Names
    BY <1>1, <1>10, DeleteFrame
  <2>2. Pos \notin Finished /\ run.step \notin {"idle", "done"}
    BY <1>10 DEF DeleteStep, Observe, Expel, Absence, Revoke, Unguard, Resolve,
                 Unroute, Identify, Destroy, Sweep, Forget, Deleting, At, Pos,
                 Finished
  <2>3. CASE Forget
    BY <1>1, <2>1, <2>3, ForgetEffect DEF Moved, SameTask, TaskInv, Abort, Finished
  <2>4. CASE ~Forget
    <3>1. store' = store
      BY <1>10, <2>4
         DEF DeleteStep, Observe, Expel, Absence, Revoke, Unguard, Resolve,
             Unroute, Identify, Destroy, Sweep, diskVars
    <3>2. QED
      BY <2>1, <2>2, <3>1 DEF Moved, SameTask, TaskInv, Cur, Exists
  <2>5. QED
    BY <2>3, <2>4
<1>11. QED
  BY <1>2, <1>3, <1>4, <1>5, <1>6, <1>7, <1>8, <1>9, <1>10
     DEF WorkerStep, CreateStep, OrdinaryCreate

(* Nor does any other step. *)
LEMMA NextTask ==
    ASSUME Base, TaskInv, [Next]_vars
    PROVE  TaskInv'
<1>1. CASE CallerMoves
  <2>1. KeepsIds /\ run' = run
    BY <1>1, CallerEffect DEF Base, localVars
  <2>2. run.step # "idle" => Cur \in Names
    BY DEF Base, BaseInv, FrameOK
  <2>3. CASE run.step \in {"idle", "done"}
    BY <2>1, <2>3 DEF TaskInv, Pos, At, Finished
  <2>4. CASE run.step \notin {"idle", "done"}
    BY <2>1, <2>2, <2>4, TaskGoesOn DEF Pos, At
  <2>5. QED
    BY <2>3, <2>4
<1>2. ASSUME NEW c \in Callers, Acquire(c)
      PROVE  TaskInv'
  <2>1. who[c] \in Names /\ Dispatch(who[c]) /\ store' = store
    BY <1>2 DEF Acquire, Base, BaseInv, CallersOK, diskVars
  <2>2. QED
    BY <2>1, DispatchTask DEF TaskInv, Cur, Exists
<1>3. CASE (\E c \in Callers : Release(c)) \/ Crash
  <2>1. run' = Idle
    BY <1>3 DEF Release, Crash
  <2>2. QED
    BY <2>1 DEF Idle, TaskInv
<1>4. CASE Work
  BY <1>4, WorkTask DEF Work
<1>5. CASE Outside \/ UNCHANGED vars
  BY <1>5 DEF Outside, vars, diskVars, localVars, TaskInv, Cur, Pos, At, Exists
<1>6. QED
  BY <1>1, <1>2, <1>3, <1>4, <1>5 DEF Next, CallerStep, CallerMoves

-----------------------------------------------------------------------------
(* What is pushed is a clone.  Between the phase that clones and the one   *)
(* that removes the directory nothing touches it, so that a phase known to *)
(* lie between the two vouches for it, across failures and restarts.       *)

(* Nothing has been cloned, and nothing needs to be. *)
LEMMA InitClone == Init => TaskInv /\ CloneInv
<1>1. ASSUME Init PROVE TaskInv /\ CloneInv
  <2>1. run = Idle /\ \A n \in Names : ~Exists(n)
    BY <1>1 DEF Init, WorkerInit, StoreInit, Exists
  <2>2. /\ run.mode = "create" /\ run.step = "idle" /\ Pos = "idle"
    BY <2>1 DEF Idle, Pos, At
  <2>3. QED
    BY <2>1, <2>2 DEF TaskInv, CloneInv, StepInv, RecordsCloned, WorkerCloned,
                      Wanted, Finished
<1>2. QED
  BY <1>1

(* A write of the record at hand, with phases that its clone allows.       *)
LEMMA RecordKept ==
    ASSUME RecordsCloned, StoreTypeOK, Cur \in Names, bits' = bits,
           NEW rec, NEW ok \in BOOLEAN, UpdateRecord(Cur, rec, ok),
           /\ Exists(Cur) /\ rec.desired = "present"
           /\ {rec.phase, rec.resumePhase} \cap Cloned # {}
           => bits[Cur] = "complete"
    PROVE  RecordsCloned'
<1>1. CASE store' = store
  BY <1>1 DEF RecordsCloned, Wanted, PhasesOf, Exists
<1>2. CASE Exists(Cur) /\ store' = [store EXCEPT ![Cur] = rec]
  <2>1. store'[Cur] = rec /\ \A n \in Names \ {Cur} : store'[n] = store[n]
    BY <1>2 DEF StoreTypeOK
  <2>2. QED
    BY <1>2, <2>1 DEF RecordsCloned, Wanted, PhasesOf, Exists
<1>3. QED
  BY <1>1, <1>2 DEF UpdateRecord, Commit

(* A step that leaves every record and every directory alone. *)
LEMMA RecordsStay ==
    ASSUME RecordsCloned, store' = store, bits' = bits
    PROVE  RecordsCloned'
  BY DEF RecordsCloned, Wanted, PhasesOf, Exists

(* Where a creation goes on from most of its steps. *)
Onward == {"top", "advance", "saveHost", "trigger", "confirm"} \cup Abort

(* Such a step leaves the worker with what it knows of the directory.      *)
LEMMA WorkerGoesOn ==
    ASSUME StepInv, WorkerCloned, run.mode = "create",
           Pos \notin Finished \cup {"top"}, Moved(Onward), bits' = bits,
           run.rec.phase = "creating" =>
                \/ Pos' \in {"top"} \cup Abort
                \/ Pos' = "advance" /\ bits[Cur] = "complete"
    PROVE  StepInv' /\ WorkerCloned'
<1>1. /\ run'.mode = "create" /\ run'.rec = run.rec /\ Cur' = Cur
      /\ Pos' \in Onward
  BY DEF Moved, SameTask, Cur
<1>2. run.rec.phase \in Cloned => bits[Cur] = "complete"
  BY DEF WorkerCloned, Pos, At, Finished
<1>3. run'.step \notin {"await", "cleanup"}
  BY <1>1 DEF Onward, Abort, Pos, At
<1>4. StepInv'
  BY <1>1 DEF StepInv, Onward, Abort, Finished
<1>5. WorkerCloned'
  BY <1>1, <1>2, <1>3 DEF WorkerCloned, Onward, Abort, Finished
<1>6. QED
  BY <1>4, <1>5

(* A step of a creation past the clone that is at work elsewhere.          *)
Elsewhere ==
    \/ Inspect \/ Probe \/ Lookup \/ Confirm \/ Trigger
    \/ PushBits \/ Secure \/ Configure \/ StartStep \/ Allow

(* These steps touch neither the record nor the directory. *)
LEMMA ElsewhereClone ==
    ASSUME BaseInv, CloneInv, Elsewhere
    PROVE  CloneInv'
<1>1. PICK s \in {"inspect", "probe", "lookup", "confirm", "trigger", "push",
                  "secure", "configure", "start", "allow"} : Creating(s)
  BY DEF Elsewhere, Inspect, Probe, Lookup, Confirm, Poll, Trigger, PushBits,
         Secure, Configure, StartStep, Allow
<1>2. /\ run.mode = "create" /\ Pos \notin Finished \cup {"top"}
      /\ run.rec.phase # "creating" /\ FrameInv
  <2>1. run.mode = "create" /\ At(s) /\ Pos = s
    BY <1>1 DEF Creating, Pos, At
  <2>2. QED
    BY <2>1, Working DEF CloneInv, StepInv, Finished
<1>3. store' = store /\ bits' = bits
  BY DEF Elsewhere, Inspect, Probe, Lookup, Confirm, Poll, Trigger, PushBits,
         Secure, Configure, StartStep, Allow, diskVars
<1>4. Moved(Onward)
  <2>1. \/ Oops \/ Persist("trigger")
        \/ Go("advance") \/ Go("confirm")
        \/ \E ok \in BOOLEAN : GoOr(ok, "advance") \/ GoOr(ok, "saveHost")
    BY DEF Elsewhere, Inspect, Probe, Lookup, Confirm, Poll, Trigger, PushBits,
           Secure, Configure, StartStep, Allow
  <2>2. {"advance", "saveHost", "trigger", "confirm"} \subseteq Targets
    BY PlainTargets
  <2>3. QED
    BY <1>2, <2>1, <2>2, GoMoves, PersistMoves, OopsMoves, OrMoves
       DEF Moved, Onward
<1>5. QED
  BY <1>2, <1>3, <1>4, WorkerGoesOn, RecordsStay DEF CloneInv

(* The end of a phase, in which the next one finds what it needs. *)
LEMMA AdvanceClone ==
    ASSUME BaseInv, CloneInv, Advance
    PROVE  CloneInv'
<1>1. /\ run.mode = "create" /\ Pos = "advance" /\ run.step = "advance"
      /\ bits' = bits /\ FrameInv /\ StoreTypeOK /\ Cur \in Names
      /\ run.rec.phase \in CreatePhases
  <2>1. Creating("advance") /\ bits' = bits
    BY DEF Advance
  <2>2. run.mode = "create" /\ At("advance")
    BY <2>1 DEF Creating
  <2>3. "advance" \notin Finished \cup {"top", "persist", "idle"}
    BY DEF Finished
  <2>4. QED
    BY <2>1, <2>2, <2>3, Working DEF Pos, At, Typed
<1> DEFINE p == NextPhase[run.rec.phase]
<1>2. PICK ok \in BOOLEAN : UpdateRecord(Cur, Phased(p), ok) /\ GoOr(ok, "top")
  BY DEF Advance
<1>3. p \in Cloned => run.rec.phase \in Cloned \cup {"creating"}
  BY <1>1 DEF NextPhase, Cloned, CreatePhases, PreparePhases, NeedsEnrollment,
              WaitPhases
<1>4. p \in Cloned => bits[Cur] = "complete"
  BY <1>1, <1>3 DEF CloneInv, WorkerCloned, Finished
<1> HIDE DEF p
<1>5. RecordsCloned'
  <2>1. Exists(Cur) => /\ Phased(p).phase = p
                       /\ Phased(p).resumePhase \notin Cloned
    BY <1>1, StoredIsRecord
       DEF Phased, Record, Cloned, CreatePhases, PreparePhases, NeedsEnrollment,
           WaitPhases
  <2>2. QED
    BY <1>1, <1>2, <1>4, <2>1, RecordKept DEF CloneInv
<1>6. StepInv' /\ WorkerCloned'
  <2>1. Moved({"top"} \cup Abort)
    BY <1>1, <1>2, PlainTargets, OrMoves
  <2>2. Moved(Onward) /\ Pos' \in {"top"} \cup Abort
    BY <2>1 DEF Moved, Onward
  <2>3. QED
    BY <1>1, <2>2, WorkerGoesOn DEF CloneInv, Finished
<1>7. QED
  BY <1>5, <1>6 DEF CloneInv

(* What a step of a creation starts from. *)
LEMMA AtCreate ==
    ASSUME BaseInv, NEW s \in Steps \ (Finished \cup {"top", "persist"}),
           Creating(s)
    PROVE  /\ run.mode = "create" /\ Pos = s /\ run.step = s
           /\ Pos \notin Finished \cup {"top"}
           /\ FrameInv /\ StoreTypeOK /\ WorkTypeOK /\ Cur \in Names
<1>1. At(s) /\ run.mode = "create" /\ s # "idle"
  BY DEF Creating, Finished
<1>2. QED
  BY <1>1, Working DEF Pos, At, Typed

(* Notes taken in the record do not change its phases. *)
LEMMA NoteClone ==
    ASSUME BaseInv, CloneInv, SaveRevision \/ SaveHost \/ SaveMember
    PROVE  CloneInv'
<1>1. PICK s \in {"saveRevision", "saveHost", "saveMember"} :
          Creating(s) /\ (SaveRevision => s = "saveRevision")
  BY DEF SaveRevision, SaveHost, SaveMember, Creating, At
<1>2. s \in Steps \ (Finished \cup {"top", "persist"})
  BY DEF Steps, CreateSteps, Finished
<1>3. /\ run.mode = "create" /\ Pos = s /\ Pos \notin Finished \cup {"top"}
      /\ FrameInv /\ StoreTypeOK /\ Cur \in Names /\ bits' = bits
  BY <1>1, <1>2, AtCreate DEF SaveRevision, SaveHost, SaveMember
<1>4. PICK rec \in {[store[Cur] EXCEPT !.revision = TRUE],
                   [store[Cur] EXCEPT !.internalHost = TRUE],
                   [store[Cur] EXCEPT !.packMemberID = TRUE]},
           ok \in BOOLEAN :
        UpdateRecord(Cur, rec, ok) /\ GoOr(ok, "advance")
  BY DEF SaveRevision, SaveHost, SaveMember
<1>5. RecordsCloned'
  <2>1. Exists(Cur) => /\ rec.phase = store[Cur].phase
                       /\ rec.resumePhase = store[Cur].resumePhase
                       /\ rec.desired = store[Cur].desired
    BY <1>3, <1>4, StoredIsRecord DEF Record
  <2>2. QED
    BY <1>3, <1>4, <2>1, RecordKept
       DEF CloneInv, RecordsCloned, Wanted, PhasesOf
<1>6. StepInv' /\ WorkerCloned'
  <2>1. Moved({"advance"} \cup Abort)
    BY <1>3, <1>4, PlainTargets, OrMoves
  <2>2. Moved(Onward) /\ Pos' \in {"advance"} \cup Abort
    BY <2>1 DEF Moved, Onward
  <2>3. run.rec.phase = "creating" => bits[Cur] = "complete"
    BY <1>1, <1>3 DEF CloneInv, StepInv, WorkerCloned, Finished
  <2>4. QED
    BY <1>3, <2>2, <2>3, WorkerGoesOn DEF CloneInv
<1>7. QED
  BY <1>5, <1>6 DEF CloneInv

(* Going back for a new invite, or forth again to where it was needed.     *)
LEMMA ReturnClone ==
    ASSUME BaseInv, CloneInv, Recover \/ Claim
    PROVE  CloneInv'
<1>1. Creating("recover") \/ Creating("claim")
  BY DEF Recover, Claim
<1>2. {"recover", "claim"} \subseteq Steps \ (Finished \cup {"top", "persist"})
  BY DEF Steps, CreateSteps, Finished
<1>3. /\ run.mode = "create" /\ Pos \in {"recover", "claim"}
      /\ run.step \in {"recover", "claim"} /\ Pos \notin Finished \cup {"top"}
      /\ FrameInv /\ StoreTypeOK /\ Cur \in Names
  BY <1>1, <1>2, AtCreate
<1>4. bits' = bits
  BY DEF Recover, Claim
<1>5. run.rec.phase \in Cloned /\ bits[Cur] = "complete"
  <2>1. run.rec.phase \in NeedsEnrollment \cup {"discovering-app"}
    BY <1>3 DEF BaseInv, FrameOK, CloneInv, StepInv
  <2>2. run.rec.phase \in Cloned
    BY <2>1 DEF Cloned, CreatePhases, NeedsEnrollment
  <2>3. QED
    BY <1>3, <2>2 DEF CloneInv, WorkerCloned, Finished
<1>6. RecordsCloned'
  <2>1. store' = store \/ \E rec : \E ok \in BOOLEAN : UpdateRecord(Cur, rec, ok)
    BY DEF Recover, Claim
  <2>2. QED
    BY <1>3, <1>4, <1>5, <2>1, RecordKept, RecordsStay DEF CloneInv
<1>7. Moved(Onward)
  <2>1. \/ Go("top") \/ Go("done") \/ Go("fail")
        \/ \E ok \in BOOLEAN : GoOr(ok, "top")
    BY DEF Recover, Claim
  <2>2. QED
    BY <1>3, <2>1, PlainTargets, GoMoves, OrMoves DEF Moved, Onward, Abort
<1>8. run.rec.phase # "creating"
  BY <1>5 DEF Cloned
<1>9. QED
  BY <1>3, <1>4, <1>6, <1>7, <1>8, WorkerGoesOn DEF CloneInv

(* The clone is made in the phase creating only: in staging it is there.   *)
LEMMA PrepareClone ==
    ASSUME BaseInv, CloneInv, Prepare \/ EnsurePrepared
    PROVE  CloneInv'
<1>1. PICK s \in {"prepare", "bits"} : Creating(s) /\ (Prepare => s = "prepare")
                                          /\ (EnsurePrepared => s = "bits")
  BY DEF Prepare, EnsurePrepared, Creating, At
<1>2. s \in Steps \ (Finished \cup {"top", "persist"})
  BY DEF Steps, CreateSteps, Finished
<1>3. /\ run.mode = "create" /\ Pos = s /\ run.step = s
      /\ Pos \notin Finished \cup {"top"}
      /\ FrameInv /\ WorkTypeOK /\ Cur \in Names
  BY <1>1, <1>2, AtCreate
<1>4. store' = store
  BY DEF Prepare, EnsurePrepared
<1>5. s = "bits" => run.rec.phase = "staging" /\ bits[Cur] = "complete"
  <2>1. "staging" \in Cloned
    BY DEF Cloned, CreatePhases, PreparePhases
  <2>2. QED
    BY <1>3, <2>1 DEF CloneInv, StepInv, WorkerCloned, Finished
<1>6. s = "prepare" => run.rec.phase = "creating"
  BY <1>3 DEF CloneInv, StepInv
<1>7. \/ s = "prepare" /\ BeginPrepare(Cur) /\ Go("cloning")
      \/ bits' = bits /\ Oops
      \/ s = "bits" /\ bits' = bits /\ Go("enroll")
  BY <1>1, <1>5 DEF Prepare, EnsurePrepared, Clone, BeginPrepare, CanPrepare,
                    workVars
<1>8. CASE BeginPrepare(Cur) /\ Go("cloning") /\ s = "prepare"
  <2>1. /\ bits[Cur] = "none" /\ bits'[Cur] = "partial"
        /\ \A n \in Names \ {Cur} : bits'[n] = bits[n]
    BY <1>3, <1>8 DEF BeginPrepare, CanPrepare, WorkTypeOK
  <2>2. RecordsCloned'
    BY <1>4, <2>1 DEF CloneInv, RecordsCloned, Wanted, PhasesOf, Exists
  <2>3. "cloning" \in Targets
    BY PlainTargets
  <2>4. Moved({"cloning"})
    BY <1>3, <1>8, <2>3, GoMoves
  <2>5. /\ Pos' = "cloning" /\ run'.rec = run.rec /\ Cur' = Cur
        /\ run'.step \in {"cloning", "persist"}
    BY <2>4 DEF Moved, SameTask, Cur, Pos, At
  <2>6. run.rec.phase \notin Cloned
    BY <1>6, <1>8 DEF Cloned
  <2>7. StepInv' /\ WorkerCloned'
    BY <1>6, <1>8, <2>1, <2>5, <2>6 DEF StepInv, WorkerCloned, Finished
  <2>8. QED
    BY <2>2, <2>7 DEF CloneInv
<1>9. CASE bits' = bits /\ Oops
  <2>1. Moved(Abort)
    BY <1>3, <1>9, OopsMoves
  <2>2. Moved(Onward) /\ Pos' \in Abort
    BY <2>1 DEF Moved, Onward
  <2>3. QED
    BY <1>3, <1>4, <1>9, <2>2, WorkerGoesOn, RecordsStay DEF CloneInv
<1>10. CASE bits' = bits /\ Go("enroll") /\ s = "bits"
  <2>1. "enroll" \in Targets
    BY PlainTargets
  <2>2. Moved({"enroll"})
    BY <1>3, <1>10, <2>1, GoMoves
  <2>3. Pos' = "enroll" /\ run'.rec = run.rec /\ Cur' = Cur
    BY <2>2 DEF Moved, SameTask, Cur
  <2>4. run'.step \notin {"await", "cleanup"}
    BY <2>3 DEF Pos, At
  <2>5. StepInv' /\ WorkerCloned'
    BY <1>5, <1>10, <2>3, <2>4 DEF StepInv, WorkerCloned, Finished
  <2>6. QED
    BY <1>4, <1>10, <2>5, RecordsStay DEF CloneInv
<1>11. QED
  BY <1>7, <1>8, <1>9, <1>10

(* It ends whole, or the creation fails in that phase. *)
LEMMA CloningClone ==
    ASSUME BaseInv, CloneInv, Cloning
    PROVE  CloneInv'
<1>1. Creating("cloning") /\ "cloning" \in Steps \ (Finished \cup {"top", "persist"})
  BY DEF Cloning, Steps, CreateSteps, Finished
<1>2. /\ run.mode = "create" /\ Pos = "cloning" /\ FrameInv /\ WorkTypeOK
      /\ Cur \in Names /\ store' = store
  BY <1>1, AtCreate DEF Cloning
<1>3. run.rec.phase = "creating" /\ bits[Cur] = "partial"
  BY <1>2 DEF CloneInv, StepInv, WorkerCloned
<1>4. PICK ok \in BOOLEAN : FinishPrepare(Cur, ok) /\ GoOr(ok, "saveRevision")
  BY <1>3 DEF Cloning
<1>5. RecordsCloned'
  <2>1. \A n \in Names \ {Cur} : bits'[n] = bits[n]
    BY <1>2, <1>4 DEF FinishPrepare, WorkTypeOK
  <2>2. ~Wanted(Cur) \/ PhasesOf(Cur) \cap Cloned = {}
    BY <1>2, <1>3 DEF CloneInv, RecordsCloned
  <2>3. QED
    BY <1>2, <2>1, <2>2 DEF CloneInv, RecordsCloned, Wanted, PhasesOf, Exists
<1>6. /\ Pos' \in {"saveRevision"} \cup Abort /\ run'.rec = run.rec /\ Cur' = Cur
      /\ run'.mode = "create" /\ (Pos' = "saveRevision" => ok)
  <2>1. Moved({"saveRevision"} \cup Abort) /\ (Pos' \in Abort \/ ok)
    BY <1>2, <1>4, PlainTargets, OrMoves
  <2>2. QED
    BY <1>2, <2>1 DEF Moved, SameTask, Cur, Abort
<1>7. ok => bits'[Cur] = "complete"
  BY <1>2, <1>4 DEF FinishPrepare, WorkTypeOK
<1>8. run'.step \notin {"await", "cleanup"} /\ run.rec.phase \notin Cloned
  BY <1>3, <1>6 DEF Pos, At, Abort, Cloned
<1>9. StepInv' /\ WorkerCloned'
  BY <1>3, <1>6, <1>7, <1>8 DEF StepInv, WorkerCloned, Abort, Finished
<1>10. QED
  BY <1>5, <1>9 DEF CloneInv

(* The bits get the invite they are pushed with. *)
LEMMA InviteClone ==
    ASSUME BaseInv, CloneInv, EnsureEnrollment \/ Install \/ Preflight
    PROVE  CloneInv'
<1>1. PICK s \in {"enroll", "install", "preflight"} :
          /\ Creating(s)
          /\ (EnsureEnrollment => s = "enroll") /\ (Install => s = "install")
          /\ (Preflight => s = "preflight")
  BY DEF EnsureEnrollment, Install, Preflight, Creating, At
<1>2. s \in Steps \ (Finished \cup {"top", "persist"})
  BY DEF Steps, CreateSteps, Finished
<1>3. /\ run.mode = "create" /\ Pos = s /\ run.step = s
      /\ Pos \notin Finished \cup {"top"}
      /\ FrameInv /\ WorkTypeOK /\ Cur \in Names
  BY <1>1, <1>2, AtCreate
<1>4. store' = store /\ bits' = bits
  BY DEF EnsureEnrollment, Install, InstallEnrollment, Preflight, diskVars
<1>5. /\ run.rec.phase \in {"preparing-invite", "staging"}
      /\ bits[Cur] = "complete" /\ (s # "enroll" => run.rec.phase = "staging")
  <2>1. {"preparing-invite", "staging"} \subseteq Cloned
    BY DEF Cloned, CreatePhases, PreparePhases
  <2>2. QED
    BY <1>3, <2>1 DEF CloneInv, StepInv, WorkerCloned, Finished
<1>6. RecordsCloned'
  BY <1>4, RecordsStay DEF CloneInv
<1>7. CASE Oops \/ Go("advance")
  <2>1. Moved(Onward)
    BY <1>3, <1>7, PlainTargets, OopsMoves, GoMoves DEF Moved, Onward
  <2>2. QED
    BY <1>3, <1>4, <1>5, <1>6, <2>1, WorkerGoesOn DEF CloneInv
<1>8. CASE s = "enroll" /\ run.rec.phase = "staging" /\ Persist("install")
  <2>1. Moved({"install"})
    BY <1>3, <1>8, PlainTargets, PersistMoves
  <2>2. StepInv' /\ WorkerCloned'
    BY <1>4, <1>5, <1>8, <2>1
       DEF Moved, SameTask, Cur, Pos, At, StepInv, WorkerCloned, Finished
  <2>3. QED
    BY <1>6, <2>2 DEF CloneInv
<1>9. CASE s = "install" /\ Persist("preflight") /\ installed'[Cur]
  <2>1. Moved({"preflight"})
    BY <1>3, <1>9, PlainTargets, PersistMoves
  <2>2. StepInv' /\ WorkerCloned'
    BY <1>4, <1>5, <1>9, <2>1
       DEF Moved, SameTask, Cur, Pos, At, StepInv, WorkerCloned, Finished
  <2>3. QED
    BY <1>6, <2>2 DEF CloneInv
<1>10. CASE s = "preflight" /\ Go("push") /\ installed' = installed
  <2>1. Moved({"push"}) /\ installed[Cur]
    BY <1>3, <1>10, PlainTargets, GoMoves DEF CloneInv, WorkerCloned
  <2>2. StepInv' /\ WorkerCloned'
    BY <1>4, <1>5, <1>10, <2>1
       DEF Moved, SameTask, Cur, Pos, At, StepInv, WorkerCloned, Finished
  <2>3. QED
    BY <1>6, <2>2 DEF CloneInv
<1>11. CASE EnsureEnrollment
  <2>1. \/ Oops \/ Go("advance")
        \/ run.rec.phase = "staging" /\ Persist("install")
    BY <1>11 DEF EnsureEnrollment
  <2>2. QED
    BY <1>1, <1>7, <1>8, <1>11, <2>1
<1>12. CASE Install
  <2>1. PICK ok \in BOOLEAN :
            /\ InstallEnrollment(Cur, enroll[Cur] = "live", ok)
            /\ PersistOr(ok, "preflight")
    BY <1>12 DEF Install
  <2>2. CASE ok
    BY <1>1, <1>3, <1>9, <1>12, <2>1, <2>2
       DEF InstallEnrollment, PersistOr, WorkTypeOK
  <2>3. CASE ~ok
    BY <1>7, <2>1, <2>3 DEF PersistOr
  <2>4. QED
    BY <2>2, <2>3
<1>13. CASE Preflight
  BY <1>1, <1>7, <1>10, <1>13 DEF Preflight, diskVars
<1>14. QED
  BY <1>11, <1>12, <1>13

(* The identity is looked up between the two phases. *)
LEMMA DiscoverClone ==
    ASSUME BaseInv, CloneInv, Discover
    PROVE  CloneInv'
<1>1. Creating("discover") /\ "discover" \in Steps \ (Finished \cup {"top", "persist"})
  BY DEF Discover, Steps, CreateSteps, Finished
<1>2. /\ run.mode = "create" /\ Pos = "discover" /\ run.step = "discover"
      /\ FrameInv /\ Cur \in Names /\ store' = store /\ bits' = bits
  BY <1>1, AtCreate DEF Discover, diskVars
<1>3. run.rec.phase = "discovering-app" /\ bits[Cur] = "complete"
  <2>1. "discovering-app" \in Cloned
    BY DEF Cloned, CreatePhases, NeedsEnrollment
  <2>2. QED
    BY <1>2, <2>1 DEF CloneInv, StepInv, WorkerCloned, Finished
<1>4. RecordsCloned'
  BY <1>2, RecordsStay DEF CloneInv
<1>5. CASE Oops
  <2>1. Moved(Onward)
    BY <1>2, <1>5, OopsMoves DEF Moved, Onward
  <2>2. QED
    BY <1>2, <1>3, <1>4, <2>1, WorkerGoesOn DEF CloneInv, Finished
<1>6. CASE run' = [run EXCEPT !.step = "claim", !.rec.appGUID = app[Cur].guid]
  <2>1. /\ Pos' = "claim" /\ run'.step = "claim" /\ Cur' = Cur
        /\ run'.rec.phase = run.rec.phase
    BY <1>2, <1>6 DEF FrameInv, Frame, Record, Pos, At, Cur
  <2>2. StepInv' /\ WorkerCloned'
    BY <1>2, <1>3, <2>1 DEF StepInv, WorkerCloned, Finished
  <2>3. QED
    BY <1>4, <2>2 DEF CloneInv
<1>7. QED
  BY <1>5, <1>6 DEF Discover

(* The directory is removed when no record needs it any more. *)
LEMMA RemovalClone ==
    ASSUME BaseInv, TaskInv, CloneInv, Await \/ Cleanup
    PROVE  CloneInv'
<1>1. At("await") \/ At("cleanup")
  BY DEF Await, Poll, Cleanup, Creating
<1>2. /\ Pos \in {"await", "cleanup"} /\ run.step \in {"await", "cleanup"}
      /\ FrameInv /\ Typed /\ Cur \in Names /\ run.mode \in {"create", "delete"}
  BY <1>1, Working DEF Pos, At, FrameInv, Frame
<1>3. store' = store
  BY DEF Await, Poll, Cleanup, diskVars
<1>4. \A n \in Names \ {Cur} : bits'[n] = bits[n]
  <2>1. CASE Await
    BY <2>1 DEF Await, Poll, diskVars
  <2>2. CASE Cleanup
    BY <2>2, CleanupEffect DEF Within, WorkOthers
  <2>3. QED
    BY <2>1, <2>2
<1>5. ~Wanted(Cur) \/ PhasesOf(Cur) \cap Cloned = {}
  <2>1. CASE run.mode = "create"
    BY <1>2, <2>1 DEF CloneInv, WorkerCloned
  <2>2. CASE run.mode = "delete"
    <3>1. Pos = "cleanup"
      BY <1>2, <2>2 DEF Await, Poll, Cleanup, Creating, At, Pos
    <3>2. QED
      BY <2>2, <3>1 DEF TaskInv, Wanted, Finished
  <2>3. QED
    BY <1>2, <2>1, <2>2
<1>6. RecordsCloned'
  BY <1>3, <1>4, <1>5 DEF CloneInv, RecordsCloned, Wanted, PhasesOf, Exists
<1>7. Moved({"cleanup", "saveMember", "sweep"} \cup Abort)
  <2>1. CASE Await
    <3>1. Go("cleanup") \/ Oops
      BY <2>1 DEF Await, Poll
    <3>2. QED
      BY <1>2, <3>1, PlainTargets, GoMoves, OopsMoves DEF Moved
  <2>2. CASE Cleanup
    BY <2>2, CleanupEffect DEF Moved
  <2>3. QED
    BY <2>1, <2>2
<1>8. CASE run.mode = "delete"
  BY <1>6, <1>7, <1>8 DEF CloneInv, StepInv, WorkerCloned, Moved, SameTask
<1>9. CASE run.mode = "create"
  <2>1. run.rec.phase = "joining-pack" /\ "joining-pack" \notin Cloned
    BY <1>2, <1>9 DEF CloneInv, StepInv, Cloned
  <2>2. /\ run'.rec = run.rec /\ Cur' = Cur
        /\ Pos' \in {"cleanup", "saveMember", "sweep"} \cup Abort
    BY <1>7 DEF Moved, SameTask, Cur
  <2>3. ~(Wanted(Cur)') \/ PhasesOf(Cur)' \cap Cloned = {}
    BY <1>3, <1>5, <2>2 DEF Wanted, PhasesOf, Exists
  <2>4. StepInv' /\ WorkerCloned'
    BY <2>1, <2>2, <2>3 DEF StepInv, WorkerCloned, Abort, Finished
  <2>5. QED
    BY <1>6, <2>4 DEF CloneInv
<1>10. QED
  BY <1>2, <1>8, <1>9

(* Each phase begins with its own effect. *)
LEMMA FirstStepOfPhase ==
    ASSUME NEW p \in CreatePhases
    PROVE  LET f == FirstStep[p] IN
           /\ f \notin {"top", "cloning", "saveRevision", "install", "preflight",
                       "push", "claim", "cleanup", "saveMember", "advance",
                       "recover", "persist"} \cup Finished
           /\ f = "prepare" <=> p = "creating"
           /\ f = "enroll" => p = "preparing-invite"
           /\ f = "bits" => p = "staging"
           /\ f = "discover" => p = "discovering-app"
           /\ f = "await" => p = "joining-pack"
  BY DEF FirstStep, CreatePhases, PreparePhases, NeedsEnrollment, WaitPhases,
         Finished

(* A creation that goes on, or returns, from the record may rely on it. *)
LEMMA TopClone ==
    ASSUME BaseInv, CloneInv, Top
    PROVE  CloneInv'
<1>1. Typed /\ Cur \in Names
  BY Working DEF Top, Creating
<1>2. store' = store /\ bits' = bits /\ Cur' = Cur
  BY TopTask DEF Top, diskVars, Cur
<1>3. RecordsCloned'
  BY <1>2, RecordsStay DEF CloneInv
<1>4. CASE run'.mode # "create" \/ run'.step = "done"
  BY <1>3, <1>4 DEF CloneInv, StepInv, WorkerCloned, Pos, At, Finished
<1>5. CASE run'.mode = "create" /\ run'.step # "done"
  <2>1. /\ Exists(Cur) /\ store[Cur].desired # "deleted" /\ run'.rec = store[Cur]
        /\ \/ run'.step = "recover" /\ store[Cur].phase \in NeedsEnrollment
           \/ /\ run'.step = "persist" /\ store[Cur].phase \in CreatePhases
              /\ run'.then = FirstStep[store[Cur].phase]
           \/ run'.step = "recheck"
    BY <1>5, TopTask
  <2>2. Wanted(Cur)
    BY <1>1, <2>1, StoredIsRecord DEF Typed, Wanted, Record
  <2>3. run'.rec.phase \in Cloned => bits'[Cur'] = "complete"
    BY <1>1, <1>2, <2>1, <2>2 DEF CloneInv, RecordsCloned, PhasesOf
  <2>4. CASE run'.step = "recover" /\ store[Cur].phase \in NeedsEnrollment
    BY <1>3, <2>1, <2>3, <2>4
       DEF CloneInv, StepInv, WorkerCloned, Pos, At, Finished, NeedsEnrollment
  <2>5. CASE /\ run'.step = "persist" /\ store[Cur].phase \in CreatePhases
             /\ run'.then = FirstStep[store[Cur].phase]
    <3>1. Pos' = FirstStep[store[Cur].phase] /\ run'.rec.phase \in CreatePhases
      BY <2>1, <2>5 DEF Pos, At
    <3>2. StepInv'
      BY <2>1, <2>5, <3>1, FirstStepOfPhase DEF StepInv, Finished
    <3>3. WorkerCloned'
      BY <2>1, <2>3, <2>5, <3>1, FirstStepOfPhase DEF WorkerCloned, Finished
    <3>4. QED
      BY <1>3, <3>2, <3>3 DEF CloneInv
  <2>6. CASE run'.step = "recheck"
    BY <1>3, <2>6 DEF CloneInv, StepInv, WorkerCloned, Pos, At, Finished
  <2>7. QED
    BY <2>1, <2>4, <2>5, <2>6
<1>6. QED
  BY <1>4, <1>5

(* So may one that is about to note where it failed. *)
LEMMA RecheckClone ==
    ASSUME BaseInv, TaskInv, CloneInv, Recheck
    PROVE  CloneInv'
<1>1. At("recheck") /\ run.mode = "create"
  BY DEF Recheck, Creating
<1>2. FrameInv /\ Cur \in Names /\ Exists(Cur)
  BY <1>1, Working DEF TaskInv, At
<1>3. /\ store' = store /\ bits' = bits /\ Cur' = Cur
      /\ run'.step = "fail" /\ Pos' = "fail" /\ run'.rec = store[Cur]
  BY <1>2 DEF Recheck, FrameInv, Frame, Cur, Pos, At, diskVars
<1>4. RecordsCloned'
  BY <1>3, RecordsStay DEF CloneInv
<1>5. StepInv' /\ WorkerCloned'
  BY <1>2, <1>3, <1>4
     DEF StepInv, WorkerCloned, RecordsCloned, PhasesOf, Finished
<1>6. QED
  BY <1>4, <1>5 DEF CloneInv

(* The phase a worker notes before an effect is one it may rely on. *)
LEMMA PersistClone ==
    ASSUME BaseInv, CloneInv, PersistStep
    PROVE  CloneInv'
<1>1. At("persist") /\ bits' = bits /\ installed' = installed
  BY DEF PersistStep
<1>2. FrameInv /\ StoreTypeOK /\ Cur \in Names /\ run.mode \in {"create", "delete"}
  BY <1>1, Working DEF FrameInv, Frame, Typed
<1> DEFINE p == IF run.mode = "create" THEN run.rec.phase ELSE "deleting"
<1>3. PICK ok \in BOOLEAN :
        /\ UpdateRecord(Cur, Phased(p), ok)
        /\ run' = [run EXCEPT !.then = "idle",
                              !.step = IF ok THEN run.then
                                       ELSE IF run.mode = "create"
                                       THEN "recheck" ELSE "done"]
  BY DEF PersistStep
<1>4. p \in Cloned => run.mode = "create" /\ bits[Cur] = "complete"
  BY <1>1, <1>2 DEF CloneInv, WorkerCloned, At, Finished, Cloned, CreatePhases,
                    PreparePhases, NeedsEnrollment, WaitPhases
<1>5. run.mode = "create" => p = run.rec.phase
  OBVIOUS
<1> HIDE DEF p
<1>6. Exists(Cur) => /\ Phased(p).phase = p
                     /\ Phased(p).resumePhase \notin Cloned
  BY <1>2, StoredIsRecord
     DEF Phased, Record, Cloned, CreatePhases, PreparePhases, NeedsEnrollment,
         WaitPhases
<1>7. RecordsCloned'
  BY <1>1, <1>2, <1>3, <1>4, <1>6, RecordKept DEF CloneInv
<1>8. /\ run'.mode = run.mode /\ run'.rec = run.rec /\ Cur' = Cur
      /\ run'.step = IF ok THEN run.then
                     ELSE IF run.mode = "create" THEN "recheck" ELSE "done"
      /\ run'.step # "persist" /\ Pos' = run'.step /\ Pos = run.then
  BY <1>1, <1>2, <1>3 DEF FrameInv, Frame, Pos, At, Cur
<1>9. CASE run.mode # "create"
  BY <1>7, <1>8, <1>9 DEF CloneInv, StepInv, WorkerCloned
<1>10. CASE run.mode = "create" /\ ~ok
  BY <1>7, <1>8, <1>10 DEF CloneInv, StepInv, WorkerCloned, Finished
<1>11. CASE run.mode = "create" /\ ok
  <2>1. Pos' = Pos /\ run'.step = Pos
    BY <1>8, <1>11
  <2>2. run.rec.phase \in Cloned => bits[Cur] = "complete"
    BY <1>4, <1>5, <1>11
  <2>3. StepInv'
    BY <1>8, <2>1 DEF CloneInv, StepInv
  <2>4. Pos \in {"await", "cleanup"} => PhasesOf(Cur)' \cap Cloned = {}
    <3>1. Exists(Cur) /\ store'[Cur'] = Phased(p)
      BY <1>2, <1>3, <1>8, <1>11 DEF UpdateRecord, Commit, StoreTypeOK
    <3>2. Pos \in {"await", "cleanup"} => p \notin Cloned
      BY <1>5, <1>11 DEF CloneInv, StepInv, Cloned
    <3>3. QED
      BY <1>6, <3>1, <3>2 DEF PhasesOf
  <2>5. WorkerCloned'
    BY <1>1, <1>8, <2>1, <2>2, <2>4 DEF CloneInv, WorkerCloned
  <2>6. QED
    BY <1>7, <2>3, <2>5 DEF CloneInv
<1>12. QED
  BY <1>9, <1>10, <1>11

(* So is the phase it notes when it fails. *)
LEMMA FailClone ==
    ASSUME BaseInv, CloneInv, Fail
    PROVE  CloneInv'
<1>1. At("fail") /\ bits' = bits
  BY DEF Fail
<1>2. FrameInv /\ StoreTypeOK /\ Cur \in Names
  BY <1>1, Working DEF Typed
<1> DEFINE p == IF run.mode = "create" THEN run.rec.phase ELSE "deleting"
<1>3. PICK ok \in BOOLEAN :
        UpdateRecord(Cur, [store[Cur] EXCEPT !.phase = "failed",
                                             !.resumePhase = p], ok)
  BY DEF Fail
<1>4. Pos = "fail"
  BY <1>1 DEF Pos, At
<1>5. p \in Cloned /\ Wanted(Cur) => bits[Cur] = "complete"
  BY <1>4 DEF CloneInv, WorkerCloned, Cloned, CreatePhases,
              PreparePhases, NeedsEnrollment, WaitPhases
<1> DEFINE rec == [store[Cur] EXCEPT !.phase = "failed", !.resumePhase = p]
<1> HIDE DEF p
<1>6. Exists(Cur) => /\ rec.phase \notin Cloned /\ rec.resumePhase = p
                     /\ rec.desired = store[Cur].desired
  BY <1>2, StoredIsRecord
     DEF Record, Cloned, CreatePhases, PreparePhases, NeedsEnrollment, WaitPhases
<1>7. UpdateRecord(Cur, rec, ok)
  BY <1>3
<1> HIDE DEF rec
<1>8. RecordsCloned'
  BY <1>1, <1>2, <1>5, <1>6, <1>7, RecordKept DEF CloneInv, Wanted
<1>9. run'.mode = run.mode /\ run'.rec = run.rec /\ Pos' = "done" /\ run'.step = "done"
  BY <1>2 DEF Fail, Go, FrameInv, Frame, Pos, At
<1>10. StepInv' /\ WorkerCloned'
  BY <1>9 DEF StepInv, WorkerCloned, Finished
<1>11. QED
  BY <1>8, <1>10 DEF CloneInv

(* A deletion removes what no record that is to exist relies on. *)
LEMMA DeleteClone ==
    ASSUME BaseInv, TaskInv, CloneInv, DeleteStep
    PROVE  CloneInv'
<1>1. Within /\ Moved(Targets \ {"recover"}) /\ run.mode = "delete" /\ Cur \in Names
  BY DeleteFrame
<1>2. Pos \notin Finished
  BY DEF DeleteStep, Observe, Expel, Absence, Revoke, Unguard, Resolve, Unroute,
         Identify, Destroy, Sweep, Forget, Deleting, At, Pos, Finished
<1>3. ~Wanted(Cur)
  BY <1>1, <1>2 DEF TaskInv, Wanted
<1>4. store' = store \/ store'[Cur] = NoRecord
  <2>1. CASE Forget
    <3>1. \E ok \in BOOLEAN : DeleteRecord(Cur, ok)
      BY <2>1 DEF Forget
    <3>2. QED
      BY <1>1, <3>1
         DEF DeleteRecord, Commit, Exists, BaseInv, TypeOK, StoreTypeOK
  <2>2. CASE ~Forget
    BY <2>2
       DEF DeleteStep, Observe, Expel, Absence, Revoke, Unguard, Resolve,
           Unroute, Identify, Destroy, Sweep, diskVars
  <2>3. QED
    BY <2>1, <2>2
<1>5. RecordsCloned'
  BY <1>1, <1>3, <1>4
     DEF CloneInv, RecordsCloned, Wanted, PhasesOf, Exists, Within, StoreOthers,
         WorkOthers
<1>6. QED
  BY <1>1, <1>5 DEF CloneInv, StepInv, WorkerCloned, Moved, SameTask

(* Handlers and retries bring a record into no such phase that it was not  *)
(* already in, or would be resumed in.                                     *)
LEMMA CallerPhases ==
    ASSUME BaseInv, CallerMoves, NEW n \in Names, store'[n] # store[n]
    PROVE  \/ ~Exists(n) /\ store'[n] = NewRecord
           \/ /\ Exists(n)
              /\ {store'[n].phase, store'[n].resumePhase} \cap Cloned
                    \subseteq PhasesOf(n)
<1>1. StoreTypeOK /\ \A c \in Callers : pc[c] # "idle" => who[c] \in Names
  BY DEF BaseInv, TypeOK, CallersOK
<1>2. ASSUME NEW m \in Names, NEW rec, NEW ok \in BOOLEAN, UpdateRecord(m, rec, ok)
      PROVE  m = n /\ store'[n] = rec /\ Exists(n)
  BY <1>1, <1>2 DEF UpdateRecord, Commit, StoreTypeOK
<1>3. "deleting" \notin Cloned /\ "" \notin Cloned
  BY DEF Cloned, CreatePhases, PreparePhases, NeedsEnrollment, WaitPhases
<1>4. CASE Request
  <2>1. PICK m \in Names, j \in Jobs :
            PostSandbox(m, j) \/ DeleteSandbox(m, j) \/ PostRetry(m, j)
    BY <1>4 DEF Request
  <2>2. CASE PostSandbox(m, j)
    BY <1>1, <2>2 DEF PostSandbox, CreateRecord, Commit, StoreTypeOK
  <2>3. CASE DeleteSandbox(m, j)
    <3>1. /\ store'[n] = [store[n] EXCEPT !.desired = "deleted", !.phase = "deleting"]
          /\ Exists(n)
      BY <1>2, <2>3 DEF DeleteSandbox
    <3>2. store'[n].phase = "deleting" /\ store'[n].resumePhase = store[n].resumePhase
      BY <1>1, <3>1, StoredIsRecord DEF Record
    <3>3. QED
      BY <1>3, <3>1, <3>2 DEF PhasesOf
  <2>4. QED
    BY <2>1, <2>2, <2>3 DEF PostRetry
<1>5. ASSUME NEW c \in Callers, RetryPut(c)
      PROVE  /\ Exists(n)
             /\ {store'[n].phase, store'[n].resumePhase} \cap Cloned
                    \subseteq PhasesOf(n)
  <2>1. PICK q : q \notin Cloned /\ \E ok \in BOOLEAN :
            UpdateRecord(who[c], [store[who[c]] EXCEPT
                             !.phase = store[who[c]].resumePhase,
                             !.resumePhase = q], ok)
    BY <1>3, <1>5 DEF RetryPut
  <2>2. who[c] \in Names
    BY <1>1, <1>5 DEF RetryPut
  <2>3. /\ Exists(n)
        /\ store'[n] = [store[n] EXCEPT !.phase = store[n].resumePhase,
                                        !.resumePhase = q]
    BY <1>2, <2>1, <2>2
  <2>4. store'[n].phase = store[n].resumePhase /\ store'[n].resumePhase = q
    BY <1>1, <2>3, StoredIsRecord DEF Record
  <2>5. QED
    BY <2>1, <2>3, <2>4 DEF PhasesOf
<1>6. QED
  BY <1>4, <1>5 DEF CallerMoves, Scan, ScanNext, RetryGet, Enter, Leave, diskVars

(* So they leave every clone where it is relied on. *)
LEMMA CallerClone ==
    ASSUME BaseInv, TaskInv, CloneInv, CallerMoves
    PROVE  CloneInv'
<1>1. /\ KeepsIds /\ run' = run /\ bits' = bits /\ installed' = installed
      /\ StoreTypeOK'
  BY CallerEffect DEF localVars, TypeOK
<1>2. /\ Cur' = Cur /\ Pos' = Pos
  BY <1>1 DEF Cur, Pos, At
<1>3. ASSUME NEW n \in Names, Exists(n), Wanted(n)'
      PROVE  Wanted(n) /\ PhasesOf(n)' \cap Cloned \subseteq PhasesOf(n)
  <2>1. store[n].desired # "deleted"
    BY <1>1, <1>3 DEF KeepsIds, Follows, KeepsDeletion, Wanted
  <2>2. Wanted(n)
    BY <1>3, <2>1, StoredIsRecord DEF BaseInv, TypeOK, Wanted, Record
  <2>3. PhasesOf(n)' \cap Cloned \subseteq PhasesOf(n)
    BY <1>3, CallerPhases DEF PhasesOf
  <2>4. QED
    BY <2>2, <2>3
<1>4. ASSUME NEW n \in Names, ~Exists(n), Exists(n)'
      PROVE  PhasesOf(n)' \cap Cloned = {}
  <2>1. store'[n] = NewRecord
    BY <1>4, CallerPhases DEF Exists
  <2>2. NewRecord.phase \notin Cloned /\ NewRecord.resumePhase \notin Cloned
    BY DEF NewRecord, Cloned, CreatePhases, PreparePhases, NeedsEnrollment,
           WaitPhases
  <2>3. QED
    BY <2>1, <2>2 DEF PhasesOf
<1>5. RecordsCloned'
  <2>1. ASSUME NEW n \in Names, Wanted(n)', PhasesOf(n)' \cap Cloned # {}
        PROVE  bits'[n] = "complete"
    BY <1>1, <1>3, <1>4, <2>1 DEF CloneInv, RecordsCloned, Wanted
  <2>2. QED
    BY <2>1 DEF RecordsCloned
<1>6. StepInv'
  BY <1>1, <1>2 DEF CloneInv, StepInv
<1>7. WorkerCloned'
  <2>1. CASE run.mode = "create" /\ run.step \notin {"idle", "done"}
    <3>1. Exists(Cur) /\ Cur \in Names
      BY <2>1 DEF TaskInv, BaseInv, FrameOK
    <3>2. Wanted(Cur)' => Wanted(Cur) /\ PhasesOf(Cur)' \cap Cloned \subseteq PhasesOf(Cur)
      <4>1. PICK n \in Names : n = Cur
        BY <3>1
      <4>2. Wanted(n)' => Wanted(n) /\ PhasesOf(n)' \cap Cloned \subseteq PhasesOf(n)
        BY <1>3, <3>1, <4>1
      <4>3. QED
        BY <1>2, <4>1, <4>2 DEF Wanted, PhasesOf, Exists
    <3>3. QED
      BY <1>1, <1>2, <3>2 DEF CloneInv, WorkerCloned
  <2>2. CASE run.mode = "create" /\ run.step \in {"idle", "done"}
    BY <1>1, <1>2, <2>2 DEF WorkerCloned, Pos, At, Finished
  <2>3. CASE run.mode # "create"
    BY <1>1, <2>3 DEF WorkerCloned
  <2>4. QED
    BY <2>1, <2>2, <2>3
<1>8. QED
  BY <1>5, <1>6, <1>7 DEF CloneInv

(* Every step keeps the clones that are relied on. *)
LEMMA NextClone ==
    ASSUME Base, TaskInv, CloneInv, [Next]_vars
    PROVE  CloneInv'
<1>1. BaseInv
  BY DEF Base
<1>2. CASE CallerMoves
  BY <1>1, <1>2, CallerClone
<1>3. ASSUME NEW c \in Callers, Acquire(c)
      PROVE  CloneInv'
  <2>1. who[c] \in Names /\ Dispatch(who[c]) /\ store' = store /\ bits' = bits
    BY <1>1, <1>3 DEF Acquire, BaseInv, CallersOK, diskVars
  <2>2. run'.mode = "create" => run'.step \in {"top", "done"}
    <3>1. CASE ~Exists(who[c])
      BY <2>1, <3>1 DEF Dispatch, Idle
    <3>2. CASE Exists(who[c])
      BY <2>1, <3>2 DEF Dispatch
    <3>3. QED
      BY <3>1, <3>2
  <2>3. StepInv' /\ WorkerCloned'
    BY <2>2 DEF StepInv, WorkerCloned, Pos, At, Finished
  <2>4. QED
    BY <2>1, <2>3, RecordsStay DEF CloneInv
<1>4. CASE (\E c \in Callers : Release(c)) \/ Crash
  <2>1. run' = Idle
    BY <1>4 DEF Release, Crash
  <2>2. store' = store /\ bits' = bits
    BY <1>4 DEF Release, Crash, diskVars
  <2>3. run'.mode = "create" /\ run'.step = "idle"
    BY <2>1 DEF Idle
  <2>4. StepInv' /\ WorkerCloned'
    BY <2>3 DEF StepInv, WorkerCloned, Pos, At, Finished
  <2>5. QED
    BY <2>2, <2>4, RecordsStay DEF CloneInv
<1>5. CASE Work
  <2>1. CASE Cloning \/ Prepare \/ EnsurePrepared
    BY <1>1, <2>1, PrepareClone, CloningClone
  <2>2. CASE EnsureEnrollment \/ Install \/ Preflight \/ Discover
    BY <1>1, <2>2, InviteClone, DiscoverClone
  <2>3. CASE Elsewhere \/ Advance \/ SaveRevision \/ SaveHost \/ SaveMember
                \/ Recover \/ Claim
    BY <1>1, <2>3, ElsewhereClone, AdvanceClone, NoteClone, ReturnClone
  <2>4. CASE Await \/ Cleanup \/ Top \/ Recheck
    BY <1>1, <2>4, RemovalClone, TopClone, RecheckClone
  <2>5. CASE PersistStep \/ Fail \/ DeleteStep
    BY <1>1, <2>5, PersistClone, FailClone, DeleteClone
  <2>6. QED
    BY <1>5, <2>1, <2>2, <2>3, <2>4, <2>5
       DEF Work, WorkerStep, CreateStep, Elsewhere
<1>6. CASE Outside \/ UNCHANGED vars
  BY <1>6
     DEF Outside, vars, diskVars, localVars, CloneInv, StepInv, RecordsCloned,
         WorkerCloned, Wanted, PhasesOf, Cur, Pos, At, Exists
<1>7. QED
  BY <1>2, <1>3, <1>4, <1>5, <1>6 DEF Next, CallerStep, CallerMoves

(* What is pushed is a complete clone that carries the invite prepared     *)
(* last, whatever fails, crashes, expires or is retried before:            *)
(* ensurePrepared (reconciler.go:647) takes a directory for a clone when   *)
(* the record has a revision, and in staging it always is one.             *)
THEOREM PushesClone == Spec => []PushComplete
<1> DEFINE Inv == Base /\ TaskInv /\ CloneInv
<1>1. Init => Inv
  BY InitBase, InitClone
<1>2. Inv /\ [Next]_vars => Inv'
  BY NextBase, NextTask, NextClone
<1>3. Inv => PushComplete
  <2>1. SUFFICES ASSUME Inv, Creating("push")
                 PROVE  bits[Cur] = "complete" /\ installed[Cur]
    BY DEF PushComplete
  <2>2. run.mode = "create" /\ Pos = "push" /\ run.step = "push"
    BY <2>1 DEF Creating, At, Pos
  <2>3. StepInv /\ WorkerCloned
    BY <2>1 DEF CloneInv
  <2>4. run.rec.phase = "staging"
    BY <2>2, <2>3 DEF StepInv
  <2>5. run.rec.phase \in Cloned
    BY <2>4 DEF Cloned, CreatePhases, PreparePhases
  <2>6. QED
    BY <2>2, <2>3, <2>5 DEF WorkerCloned, Finished
<1>4. QED
  BY <1>1, <1>2, <1>3, PTL DEF Spec

-----------------------------------------------------------------------------
(* What a deletion has achieved, and that nothing leaks.  Both need that   *)
(* no join outlives its request: reconcileDelete removes the member before *)
(* anything else and does not look again.                                  *)

Safe == NoLateJoin /\ DeleteInv /\ NoLeak

(* A step of a creation leaks nothing: its sandbox has a record. *)
LEMMA CreationSafe ==
    ASSUME Safe, Cur \in Names, run'.mode = "create",
           store'[Cur] # NoRecord, Within, late' = late,
           leadPolicy' \subseteq leadPolicy,
           \A m \in Names : Exists(m) /\ store[m].appGUID \in leadPolicy =>
                Exists(m)' /\ store'[m].appGUID = store[m].appGUID
    PROVE  Safe'
<1>1. NoLateJoin' /\ DeleteInv'
  BY DEF Safe, NoLateJoin, DeleteInv
<1>2. NoLeak'
  BY NoLeakKept DEF Safe, Within
<1>3. QED
  BY <1>1, <1>2 DEF Safe

(* A step that changes no more than what records say of their phase leaks  *)
(* nothing.                                                                *)
LEMMA RecordsSafe ==
    ASSUME NoLeak, NoLateJoin, UNCHANGED <<bits, worldVars>>, KeepsIds
    PROVE  NoLeak' /\ NoLateJoin'
  BY DEF NoLeak, NoLateJoin, KeepsIds, Follows, Exists, MemberPresent, Owns,
         HasApp, worldVars

(* Nor does an idle one. *)
LEMMA IdlesSafe ==
    ASSUME NoLeak, NoLateJoin, UNCHANGED <<diskVars, worldVars>>
    PROVE  NoLeak' /\ NoLateJoin'
  BY DEF NoLeak, NoLateJoin, Exists, MemberPresent, Owns, HasApp, diskVars,
         worldVars

(* What holds at a step of reconcileDelete. *)
LEMMA AtDelete ==
    ASSUME Base, Safe, NEW s \in Steps \ (Finished \cup {"persist"}), Deleting(s)
    PROVE  /\ Cur \in Names /\ Exists(Cur) /\ Pos = s /\ run.mode = "delete"
           /\ run.rec.appGUID = store[Cur].appGUID
           /\ leadPolicy \subseteq Guids
           /\ Typed
<1>1. At(s) /\ run.mode = "delete" /\ s # "idle"
  BY DEF Deleting, Finished
<1>2. Typed /\ Cur \in Names
  BY <1>1, Working DEF Base
<1>3. QED
  BY <1>1, <1>2 DEF Safe, DeleteInv, Pos, At, Typed, CFTypeOK

(* A step of a deletion that keeps the record leaks nothing. *)
LEMMA DeletionSafe ==
    ASSUME Safe, Cur \in Names, Exists(Cur), Within, late' = late,
           store' = store, leadPolicy' \subseteq leadPolicy
    PROVE  NoLateJoin' /\ NoLeak'
<1>1. NoLateJoin'
  BY DEF Safe, NoLateJoin
<1>2. NoLeak'
  BY NoLeakKept DEF Safe, Within, Exists
<1>3. QED
  BY <1>1, <1>2

(* A deletion that gives up, or that goes on to S with its record and with *)
(* what S requires, keeps the invariant about deletions.                   *)
LEMMA DeleteInvKept ==
    ASSUME Cur \in Names, Exists(Cur), run.rec.appGUID = store[Cur].appGUID,
           store' = store, NEW S, Moved(S \cup Abort),
           Pos' \notin Abort =>
             /\ Pos' = "absence" => run.rec.appGUID = NoGuid
             /\ Pos' = "revoke" => run.rec.appGUID # NoGuid
             /\ Pos' \in PastMember => member'[Cur] = NoGuid
             /\ Pos' \in PastPolicy => run.rec.appGUID \notin leadPolicy'
             /\ Pos' \in PastPolicy /\ run.rec.appGUID = NoGuid
                    => ~(app'[Cur] # NoApp /\ app'[Cur].owner = "manager")
             /\ Pos' \in PastRoute => route'[Cur] = {}
             /\ Pos' \in PastApp
                    => ~(app'[Cur] # NoApp /\ app'[Cur].owner = "manager")
             /\ Pos' = "forget" => bits'[Cur] = "none"
    PROVE  DeleteInv'
<1>1. Cur' = Cur /\ run'.rec = run.rec
  BY DEF Moved, SameTask, Cur
<1>2. CASE Pos' \in Abort
  BY <1>1, <1>2
     DEF DeleteInv, Abort, Finished, PastMember, PastPolicy, PastRoute, PastApp
<1>3. CASE Pos' \notin Abort
  BY <1>1, <1>3 DEF DeleteInv, Exists, Owns, HasApp
<1>4. QED
  BY <1>2, <1>3

(* Every step of reconcileDelete before the last keeps what was achieved.  *)
LEMMA DeleteStepSafe ==
    ASSUME Base, Safe, DeleteStep
    PROVE  Safe'
<1>1. PICK s \in Steps \ (Finished \cup {"persist"}) :
            /\ Deleting(s)
            /\ Observe => s = "observe"
            /\ Expel => s = "expel"
            /\ Absence => s = "absence"
            /\ Revoke => s = "revoke"
            /\ Unguard => s = "unguard"
            /\ Resolve => s = "resolve"
            /\ Unroute => s = "unroute"
            /\ Identify => s = "identify"
            /\ Destroy => s = "destroy"
            /\ Sweep => s = "sweep"
            /\ Forget => s = "forget"
  BY DEF DeleteStep, Observe, Expel, Absence, Revoke, Unguard, Resolve, Unroute,
         Identify, Destroy, Sweep, Forget, Deleting, At, Steps, DeleteSteps,
         Finished
<1>2. /\ BaseInv /\ Cur \in Names /\ Exists(Cur) /\ Pos = s
      /\ run.mode = "delete" /\ run.rec.appGUID = store[Cur].appGUID
      /\ leadPolicy \subseteq Guids /\ Typed
  BY <1>1, AtDelete DEF Base
<1>3. /\ Pos = "absence" => run.rec.appGUID = NoGuid
      /\ Pos = "revoke" => run.rec.appGUID # NoGuid
      /\ Pos \in PastMember => member[Cur] = NoGuid
      /\ Pos \in PastPolicy => run.rec.appGUID \notin leadPolicy
      /\ Pos \in PastPolicy /\ run.rec.appGUID = NoGuid => ~Owns(Cur)
      /\ Pos \in PastRoute => route[Cur] = {}
      /\ Pos \in PastApp => ~Owns(Cur)
      /\ Pos = "forget" => bits[Cur] = "none"
  BY <1>2 DEF Safe, DeleteInv
<1>4. NoGuid \notin leadPolicy
  BY <1>2, IdentityAssumption
<1> USE DEF PastMember, PastPolicy, PastRoute, PastApp
<1>5. CASE Observe
  <2>1. /\ Moved({"expel", AfterMember} \cup Abort) /\ Idles /\ Within
        /\ Pos' \notin {"expel"} \cup Abort => member[Cur] = NoGuid
    BY <1>2, <1>5, ObserveEffect, IdlesEffect DEF Moved
  <2>2. UNCHANGED <<store, bits, app, route, leadPolicy, member, late>>
    BY <2>1 DEF Idles, diskVars, worldVars
  <2>3. Pos' \notin Abort => Pos' \in {"expel", AfterMember}
    BY <2>1 DEF Moved
  <2>4. DeleteInv'
    BY <1>2, <2>1, <2>2, <2>3, DeleteInvKept DEF AfterMember
  <2>5. QED
    BY <1>2, <2>1, <2>2, <2>4, DeletionSafe DEF Safe
<1>6. CASE Expel
  <2>1. /\ Moved({AfterMember} \cup Abort) /\ Within
        /\ UNCHANGED <<store, bits, app, route, leadPolicy, late>>
        /\ Pos' \notin Abort => member'[Cur] = NoGuid
    BY <1>2, <1>6, ExpelEffect DEF diskVars, cfVars
  <2>2. Pos' \notin Abort => Pos' = AfterMember
    BY <2>1 DEF Moved
  <2>3. DeleteInv'
    BY <1>2, <2>1, <2>2, DeleteInvKept DEF AfterMember
  <2>4. QED
    BY <1>2, <2>1, <2>3, DeletionSafe DEF Safe
<1>7. CASE Absence
  <2>1. /\ Moved({"unguard"} \cup Abort) /\ Idles /\ Within
        /\ Pos' \notin Abort => ~HasApp(Cur)
    BY <1>2, <1>7, AbsenceEffect, IdlesEffect DEF Moved
  <2>2. UNCHANGED <<store, bits, app, route, leadPolicy, member, late>>
    BY <2>1 DEF Idles, diskVars, worldVars
  <2>3. Pos' \notin Abort => Pos' = "unguard"
    BY <2>1 DEF Moved
  <2>4. DeleteInv'
    BY <1>1, <1>2, <1>3, <1>4, <1>7, <2>1, <2>2, <2>3, DeleteInvKept DEF HasApp
  <2>5. QED
    BY <1>2, <2>1, <2>2, <2>4, DeletionSafe DEF Safe
<1>8. CASE Revoke
  <2>1. /\ Moved({"unguard"} \cup Abort) /\ Within
        /\ UNCHANGED <<store, bits, app, route, member, late>>
        /\ leadPolicy' \subseteq leadPolicy
        /\ Pos' \notin Abort => run.rec.appGUID \notin leadPolicy'
    BY <1>2, <1>8, RevokeEffect DEF diskVars
  <2>2. Pos' \notin Abort => Pos' = "unguard"
    BY <2>1 DEF Moved
  <2>3. DeleteInv'
    BY <1>1, <1>2, <1>3, <1>8, <2>1, <2>2, DeleteInvKept
  <2>4. QED
    BY <1>2, <2>1, <2>3, DeletionSafe DEF Safe
<1>9. CASE Unguard
  <2>1. /\ Moved({"resolve", "unroute"} \cup Abort) /\ Within
        /\ UNCHANGED <<store, bits, app, leadPolicy, member, late>>
    BY <1>2, <1>9, UnguardEffect DEF diskVars
  <2>2. Pos' \notin Abort => Pos' \in {"resolve", "unroute"}
    BY <2>1 DEF Moved
  <2>3. DeleteInv'
    BY <1>1, <1>2, <1>3, <1>9, <2>1, <2>2, DeleteInvKept DEF Owns, HasApp
  <2>4. QED
    BY <1>2, <2>1, <2>3, DeletionSafe DEF Safe
<1>10. CASE Resolve
  <2>1. Moved({"unroute"} \cup Abort) /\ Idles /\ Within
    BY <1>2, <1>10, ResolveEffect, IdlesEffect DEF Moved
  <2>2. UNCHANGED <<store, bits, app, route, leadPolicy, member, late>>
    BY <2>1 DEF Idles, diskVars, worldVars
  <2>3. Pos' \notin Abort => Pos' = "unroute"
    BY <2>1 DEF Moved
  <2>4. DeleteInv'
    BY <1>1, <1>2, <1>3, <1>10, <2>1, <2>2, <2>3, DeleteInvKept DEF Owns, HasApp
  <2>5. QED
    BY <1>2, <2>1, <2>2, <2>4, DeletionSafe DEF Safe
<1>11. CASE Unroute
  <2> DEFINE next == IF run.rec.appGUID = NoGuid THEN "cleanup" ELSE "identify"
  <2>1. /\ Moved({next} \cup Abort) /\ Within
        /\ UNCHANGED <<store, bits, app, leadPolicy, member, late>>
        /\ Pos' \notin Abort => route'[Cur] = {}
    BY <1>2, <1>11, UnrouteStepEffect DEF diskVars
  <2>2. Pos' \notin Abort => Pos' = next
    BY <2>1 DEF Moved
  <2>3. DeleteInv'
    BY <1>1, <1>2, <1>3, <1>11, <2>1, <2>2, DeleteInvKept DEF Owns, HasApp
  <2>4. QED
    BY <1>2, <2>1, <2>3, DeletionSafe DEF Safe
<1>12. CASE Identify
  <2>1. /\ Moved({"cleanup", "destroy"} \cup Abort) /\ Idles /\ Within
        /\ Pos' = "cleanup" => ~HasApp(Cur)
    BY <1>2, <1>12, IdentifyEffect, IdlesEffect DEF Moved
  <2>2. UNCHANGED <<store, bits, app, route, leadPolicy, member, late>>
    BY <2>1 DEF Idles, diskVars, worldVars
  <2>3. Pos' \notin Abort => Pos' \in {"cleanup", "destroy"}
    BY <2>1 DEF Moved
  <2>4. DeleteInv'
    BY <1>1, <1>2, <1>3, <1>12, <2>1, <2>2, <2>3, DeleteInvKept DEF Owns, HasApp
  <2>5. QED
    BY <1>2, <2>1, <2>2, <2>4, DeletionSafe DEF Safe
<1>13. CASE Destroy
  <2>1. /\ Moved({"cleanup"} \cup Abort) /\ Within
        /\ UNCHANGED <<store, bits, leadPolicy, member, late>>
        /\ route'[Cur] \subseteq route[Cur]
        /\ Pos' \notin Abort => ~HasApp(Cur)'
    BY <1>2, <1>13, DestroyEffect DEF diskVars
  <2>2. Pos' \notin Abort => Pos' = "cleanup" /\ app'[Cur] = NoApp
    BY <2>1 DEF Moved, SameTask, Cur, HasApp
  <2>3. DeleteInv'
    BY <1>1, <1>2, <1>3, <1>13, <2>1, <2>2, DeleteInvKept
  <2>4. QED
    BY <1>2, <2>1, <2>3, DeletionSafe DEF Safe
<1>14. CASE Sweep
  <2>1. /\ Moved({"forget"} \cup Abort) /\ Within
        /\ UNCHANGED <<store, app, route, leadPolicy, member, late>>
        /\ Pos' \notin Abort => bits'[Cur] = "none"
    BY <1>2, <1>14, SweepEffect DEF worldVars
  <2>2. Pos' \notin Abort => Pos' = "forget"
    BY <2>1 DEF Moved
  <2>3. DeleteInv'
    BY <1>1, <1>2, <1>3, <1>14, <2>1, <2>2, DeleteInvKept DEF Owns, HasApp
  <2>4. QED
    BY <1>2, <2>1, <2>3, DeletionSafe DEF Safe
<1>15. CASE Forget
  <2>1. /\ Moved(Abort) /\ Within
        /\ UNCHANGED <<bits, app, route, leadPolicy, member, late>>
    BY <1>2, <1>15, ForgetEffect DEF worldVars
  <2>2. DeleteInv' /\ NoLateJoin'
    BY <2>1 DEF Moved, DeleteInv, Abort, Finished, Safe, NoLateJoin
  <2>3. /\ member[Cur] = NoGuid /\ route[Cur] = {} /\ ~Owns(Cur)
        /\ bits[Cur] = "none" /\ store[Cur].appGUID \notin leadPolicy
    BY <1>1, <1>2, <1>3, <1>15
  <2>4. NoLeak'
    BY <1>2, <2>1, <2>3
       DEF Safe, NoLeak, Within, StoreOthers, Exists, MemberPresent, Owns, HasApp
  <2>5. QED
    BY <2>2, <2>4 DEF Safe
<1>16. QED
  BY <1>5, <1>6, <1>7, <1>8, <1>9, <1>10, <1>11, <1>12, <1>13, <1>14, <1>15
     DEF DeleteStep

(* Every step of the worker does. *)
LEMMA WorkKeepsSafe ==
    ASSUME "lateJoin" \notin Faults, Base, Safe, WorkerStep
    PROVE  Safe'
<1>1. BaseInv /\ CreateInv /\ NoLeak /\ NoLateJoin /\ CFTypeOK
  BY DEF Base, BaseInv, TypeOK, Safe
<1>2. CASE OrdinaryCreate
  <2>1. /\ Plain /\ Cur \in Names /\ run.mode = "create" /\ Pos \notin Finished
    BY <1>1, <1>2, OrdinaryEffect
  <2>2. Exists(Cur) /\ late' = late /\ run'.mode = "create"
    BY <1>1, <2>1 DEF CreateInv, Plain, Moved, SameTask
  <2>3. QED
    BY <1>1, <2>1, <2>2, CreationSafe DEF Plain, KeepsIds, Follows, Exists
<1>3. CASE Top
  <2>1. Idles /\ Entered(Cur) /\ Cur \in Names
    BY <1>1, <1>3, TopEffect, Working DEF Top, Creating
  <2>2. DeleteInv'
    BY <2>1, EnteredOK DEF Idles, diskVars
  <2>3. QED
    BY <1>1, <2>1, <2>2, IdlesSafe DEF Idles, Safe
<1>4. CASE Recheck \/ Discover
  <2>1. Idles /\ run'.mode = "create"
    BY <1>1, <1>4, RecheckEffect, DiscoverEffect DEF Recheck, Discover, Creating
  <2>2. QED
    BY <1>1, <2>1, IdlesSafe DEF Idles, Safe, DeleteInv
<1>5. CASE Claim
  <2>1. /\ Moved({"top"} \cup Abort) /\ Within /\ UNCHANGED <<bits, worldVars>>
        /\ \A n \in Names : Exists(n) =>
             /\ Exists(n)'
             /\ store[n].appGUID # NoGuid => store'[n].appGUID = store[n].appGUID
    BY <1>1, <1>5, ClaimEffect
  <2>2. /\ Cur \in Names /\ Exists(Cur) /\ run'.mode = "create"
    BY <1>1, <1>5, <2>1, Working
       DEF Claim, Creating, CreateInv, At, Pos, Finished, Moved, SameTask
  <2>3. NoGuid \notin leadPolicy
    BY <1>1, IdentityAssumption DEF CFTypeOK
  <2>4. QED
    BY <1>1, <2>1, <2>2, <2>3, CreationSafe DEF Exists, worldVars
<1>6. CASE Allow
  <2>1. /\ Moved({"advance"} \cup Abort) /\ Within
        /\ UNCHANGED <<diskVars, app, route, member, late>>
        /\ leadPolicy' \subseteq leadPolicy \cup {run.rec.appGUID}
    BY <1>1, <1>6, AllowEffect
  <2>2. /\ Cur \in Names /\ Exists(Cur) /\ run'.mode = "create"
        /\ run.rec.appGUID = store[Cur].appGUID
    BY <1>1, <1>6, <2>1, Working
       DEF Allow, Creating, CreateInv, At, Pos, Finished, Moved, SameTask
  <2>3. NoLeak'
    BY <1>1, <2>1, <2>2
       DEF NoLeak, Exists, MemberPresent, Owns, HasApp, diskVars
  <2>4. QED
    BY <1>1, <2>1, <2>2, <2>3 DEF Safe, NoLateJoin, DeleteInv
<1>7. CASE PersistStep \/ Fail
  <2>1. /\ Moved({Pos} \cup Abort) /\ KeepsIds /\ UNCHANGED <<bits, worldVars>>
        /\ Cur \in Names
    BY <1>1, <1>7, PersistStepEffect, FailEffect, Working
       DEF Moved, PersistStep, Fail
  <2>2. NoLeak' /\ NoLateJoin'
    BY <1>1, <2>1, RecordsSafe
  <2>3. DeleteInv'
    BY <2>1
       DEF Safe, DeleteInv, Moved, SameTask, Cur, KeepsIds, Follows, Exists, Owns,
           HasApp, worldVars, Abort, Finished, PastMember, PastPolicy,
           PastRoute, PastApp
  <2>4. QED
    BY <2>2, <2>3 DEF Safe
<1>8. CASE Cleanup
  <2>1. /\ Moved({"saveMember", "sweep"} \cup Abort) /\ Within
        /\ UNCHANGED <<store, app, route, leadPolicy, member, late>>
        /\ Cur \in Names /\ Pos = "cleanup"
    BY <1>1, <1>8, CleanupEffect, Working DEF Cleanup, At, Pos, worldVars
  <2>2. CASE run.mode = "create"
    <3>1. Exists(Cur) /\ run'.mode = "create"
      BY <1>1, <2>1, <2>2 DEF CreateInv, Finished, Moved, SameTask
    <3>2. QED
      BY <2>1, <3>1, CreationSafe DEF Exists
  <2>3. CASE run.mode = "delete"
    <3>1. /\ Exists(Cur) /\ run.rec.appGUID = store[Cur].appGUID
          /\ member[Cur] = NoGuid /\ run.rec.appGUID \notin leadPolicy
          /\ ~Owns(Cur) /\ route[Cur] = {}
      BY <2>1, <2>3
         DEF Safe, DeleteInv, Finished, PastMember, PastPolicy, PastRoute, PastApp
    <3>2. Pos' \notin Abort => Pos' \in {"saveMember", "sweep"}
      BY <2>1 DEF Moved
    <3>3. DeleteInv'
      BY <2>1, <3>1, <3>2, DeleteInvKept DEF Owns, HasApp
    <3>4. QED
      BY <2>1, <3>1, <3>3, DeletionSafe DEF Safe
  <2>4. run.mode \in {"create", "delete"}
    BY <1>1 DEF BaseInv, TypeOK, WorkerTypeOK, Frame
  <2>5. QED
    BY <2>2, <2>3, <2>4
<1>9. CASE DeleteStep
  BY <1>9, DeleteStepSafe
<1>10. QED
  BY <1>2, <1>3, <1>4, <1>5, <1>6, <1>7, <1>8, <1>9
     DEF WorkerStep, CreateStep, OrdinaryCreate

(* An empty manager has nothing to leak, ... *)
LEMMA InitSafe ==
    ASSUME Init
    PROVE  Safe
  BY DEF Init, Safe, NoLateJoin, DeleteInv, NoLeak, StoreInit, CFInit, PackInit,
         WorkInit, WorkerInit, Idle, Exists, MemberPresent, Owns, HasApp

(* ... and no step leaks anything if no join outlives its request. *)
LEMMA NextSafe ==
    ASSUME "lateJoin" \notin Faults, Base, Safe, [Next]_vars
    PROVE  Safe'
<1>1. BaseInv /\ NoLeak /\ NoLateJoin
  BY DEF Base, Safe
<1>2. CASE CallerMoves
  <2>1. KeepsIds /\ run' = run /\ UNCHANGED <<bits, worldVars>>
    BY <1>1, <1>2, CallerEffect DEF localVars
  <2>2. Pos' = Pos /\ Cur' = Cur /\ (Pos \notin Finished => Cur \in Names)
    BY <1>1, <2>1 DEF Pos, At, Cur, BaseInv, FrameOK, Finished
  <2>3. DeleteInv'
    BY <2>1, <2>2
       DEF Safe, DeleteInv, KeepsIds, Follows, Exists, Owns, HasApp, worldVars,
           Finished, PastMember, PastPolicy, PastRoute, PastApp
  <2>4. QED
    BY <1>1, <2>1, <2>3, RecordsSafe DEF Safe
<1>3. CASE (\E c \in Callers : Acquire(c) \/ Release(c)) \/ Crash
  <2>1. DeleteInv' /\ UNCHANGED <<diskVars, worldVars>>
    BY <1>1, <1>3, AcquireEffect, ReleaseEffect, CrashEffect
  <2>2. QED
    BY <1>1, <2>1, IdlesSafe DEF Safe
<1>4. CASE Work
  BY <1>4, WorkKeepsSafe DEF Work
<1>5. CASE Outside
  <2>1. /\ UNCHANGED <<store, bits, run, leadPolicy, member, late>>
        /\ \A n \in Names : route'[n] \subseteq route[n] /\ (Owns(n)' => Owns(n))
    BY <1>1, <1>5, OutsideEffect DEF diskVars, localVars
  <2>2. Pos' = Pos /\ Cur' = Cur /\ (Pos \notin Finished => Cur \in Names)
    BY <1>1, <2>1 DEF Pos, At, Cur, BaseInv, FrameOK, Finished
  <2>3. \A n \in Names : /\ route[n] = {} => route'[n] = {}
                         /\ ~Owns(n) => ~(Owns(n)')
    BY <2>1
  <2>4. Cur \in Names => /\ route[Cur] = {} => route'[Cur] = {}
                         /\ ~Owns(Cur) => ~(Owns(Cur)')
    BY <2>2, <2>3 DEF Owns, HasApp
  <2>5. DeleteInv'
    BY <2>1, <2>2, <2>4
       DEF Safe, DeleteInv, Exists, Finished, PastMember, PastPolicy, PastRoute,
           PastApp
  <2>6. NoLeak' /\ NoLateJoin'
    BY <1>1, <2>1, <2>3 DEF NoLeak, NoLateJoin, Exists, MemberPresent
  <2>7. QED
    BY <2>5, <2>6 DEF Safe
<1>6. CASE UNCHANGED vars
  BY <1>6
     DEF Safe, DeleteInv, NoLeak, NoLateJoin, Pos, At, Cur, Exists, Owns, HasApp,
         MemberPresent, vars, diskVars, worldVars, localVars
<1>7. QED
  BY <1>2, <1>3, <1>4, <1>5, <1>6 DEF Next, CallerStep, CallerMoves

(* The inductive invariant holds as long as no join outlives its request.  *)
THEOREM Invariance ==
    ASSUME "lateJoin" \notin Faults
    PROVE  Spec => []IInv
<1> DEFINE Inv == Base /\ Safe /\ TaskInv /\ CloneInv
<1>1. Init => Inv
  BY InitBase, InitSafe, InitClone
<1>2. Inv /\ [Next]_vars => Inv'
  BY NextBase, NextSafe, NextTask, NextClone
<1>3. Inv => IInv
  BY DEF Base, Safe, IInv
<1>4. QED
  BY <1>1, <1>2, <1>3, PTL DEF Spec

(* Deleting a record leaks nothing: when it is gone, so are the Pack       *)
(* member, the route, the manager's app and the work directory, and every  *)
(* policy on the manager's route is for an app some record names, whatever *)
(* failed or crashed on the way (reconcileDelete's order, ending with the  *)
(* record).                                                                *)
THEOREM NothingLeaks ==
    ASSUME "lateJoin" \notin Faults
    PROVE  Spec => []NoLeak
<1>1. IInv => NoLeak
  BY DEF IInv
<1>2. QED
  BY <1>1, Invariance, PTL

(* The Pack member is gone before the first of the sandbox's policy, route *)
(* and app is removed (reconciler.go:443-455 before 473-508).              *)
THEOREM MemberGoesFirst ==
    ASSUME "lateJoin" \notin Faults
    PROVE  Spec => PackBeforeTeardown
<1> DEFINE Kept == Deleting(run.step) /\ run' # run /\ MemberPresent(Cur) =>
                        /\ app'[Cur] = app[Cur]
                        /\ route[Cur] \subseteq route'[Cur]
                        /\ leadPolicy \subseteq leadPolicy'
<1>1. ASSUME IInv, [Next]_vars
      PROVE  Kept
  <2>1. CASE UNCHANGED <<app, route, leadPolicy>>
    BY <2>1
  <2>2. CASE run' = run
    BY <2>2
  <2>3. CASE run.mode # "delete"
    BY <2>3 DEF Deleting
  <2>4. CASE DeleteStep
    <3>1. CASE Observe \/ Expel \/ Absence \/ Resolve \/ Identify \/ Sweep \/ Forget
      BY <2>1, <3>1
         DEF Observe, Expel, Absence, Resolve, Identify, Sweep, Forget, worldVars,
             cfVars
    <3>2. CASE Revoke \/ Unguard \/ Unroute \/ Destroy
      <4>1. run.mode = "delete" /\ Pos \in PastMember
        BY <3>2 DEF Revoke, Unguard, Unroute, Destroy, Deleting, At, Pos,
                    PastMember, PastPolicy, PastRoute
      <4>2. ~MemberPresent(Cur)
        BY <1>1, <4>1 DEF IInv, DeleteInv, MemberPresent
      <4>3. QED
        BY <4>2
    <3>3. QED
      BY <2>4, <3>1, <3>2 DEF DeleteStep
  <2>5. CASE CreateStep
    BY <2>3, <2>5
       DEF CreateStep, Top, Recover, Advance, Recheck, Prepare, Cloning,
           SaveRevision, EnsurePrepared, EnsureEnrollment, Install, Preflight,
           PushBits, Discover, Claim, Secure, SaveHost, Allow, Configure,
           StartStep, Inspect, Probe, Lookup, Trigger, Confirm, Await,
           SaveMember, Poll, Creating
  <2>6. CASE PersistStep \/ Cleanup \/ Fail
    BY <2>1, <2>6 DEF PersistStep, Cleanup, Fail, worldVars
  <2>7. CASE Request \/ Scan \/ ScanNext \/ Outside \/ UNCHANGED vars
    BY <2>2, <2>7
       DEF Request, PostSandbox, DeleteSandbox, PostRetry, Enqueue, Scan,
           ScanNext, Outside, vars, localVars
  <2>8. CASE (\E c \in Callers : CallerStep(c)) \/ Crash
    BY <2>1, <2>8
       DEF CallerStep, RetryGet, RetryPut, Enter, Acquire, Release, Leave, Crash,
           worldVars
  <2>9. QED
    BY <1>1, <2>4, <2>5, <2>6, <2>7, <2>8 DEF Next, Work, WorkerStep
<1>2. IInv /\ [Next]_vars => [Kept]_vars
  BY <1>1
<1>3. QED
  BY <1>2, Invariance, PTL DEF Spec, PackBeforeTeardown
=============================================================================
