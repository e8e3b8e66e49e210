-------------------------- MODULE LifecycleProofs --------------------------
(***************************************************************************)
(* The manager implements Lifecycle, for any sandboxes, GUIDs and callers, *)
(* if no join outlives its request.                                        *)
(***************************************************************************)
EXTENDS ManagerProofs

-----------------------------------------------------------------------------
(* The steps of the abstract life of one sandbox. *)

(* A record appears only where there was nothing, and as one to exist. *)
LEMMA Appears ==
    ASSUME Base, [Next]_vars, NEW n \in Names, ~Exists(n), Exists(n)'
    PROVE  /\ store'[n] = NewRecord
           /\ UNCHANGED <<bits, worldVars>>
<1>1. CASE CallerMoves
  <2>1. CASE Request
    <3>1. PICK m \in Names, j \in Jobs : PostSandbox(m, j) \/ DeleteSandbox(m, j)
                                            \/ PostRetry(m, j)
      BY <2>1 DEF Request
    <3>2. CASE PostSandbox(m, j)
      BY <3>2 DEF PostSandbox, Enqueue, CreateRecord, Commit, Exists, Base,
                  BaseInv, TypeOK, StoreTypeOK
    <3>3. CASE DeleteSandbox(m, j)
      BY <3>3 DEF DeleteSandbox, UpdateRecord, Commit, Exists, Base, BaseInv,
                  TypeOK, StoreTypeOK
    <3>4. QED
      BY <3>1, <3>2, <3>3 DEF PostRetry, Exists
  <2>2. ASSUME NEW c \in Callers, RetryPut(c)
        PROVE  FALSE
    BY <2>2 DEF RetryPut, UpdateRecord, Commit, Exists, Base, BaseInv, TypeOK,
                StoreTypeOK
  <2>3. QED
    BY <1>1, <2>1, <2>2
       DEF CallerMoves, Scan, ScanNext, RetryGet, Enter, Leave, diskVars, Exists
<1>2. CASE Work
  <2>1. \/ store' = store
        \/ \E rec : \E ok \in BOOLEAN : UpdateRecord(Cur, rec, ok)
        \/ \E ok \in BOOLEAN : DeleteRecord(Cur, ok)
    BY <1>2
       DEF Work, WorkerStep, CreateStep, DeleteStep, Top, Recover, Advance,
           Recheck, Prepare, Cloning, SaveRevision, EnsurePrepared,
           EnsureEnrollment, Install, Preflight, PushBits, Discover, Claim,
           Secure, SaveHost, Allow, Configure, StartStep, Inspect, Probe,
           Lookup, Trigger, Confirm, Await, SaveMember, Poll, Observe, Expel,
           Absence, Revoke, Unguard, Resolve, Unroute, Identify, Destroy,
           Sweep, Forget, PersistStep, Cleanup, Fail, diskVars
  <2>2. ASSUME NEW rec, NEW ok \in BOOLEAN, UpdateRecord(Cur, rec, ok)
        PROVE  FALSE
    BY <2>2 DEF UpdateRecord, Commit, Exists, Base, BaseInv, TypeOK, StoreTypeOK
  <2>3. ASSUME NEW ok \in BOOLEAN, DeleteRecord(Cur, ok)
        PROVE  FALSE
    BY <2>3 DEF DeleteRecord, Commit, Exists, Base, BaseInv, TypeOK, StoreTypeOK
  <2>4. QED
    BY <2>1, <2>2, <2>3 DEF Exists
<1>3. CASE (\E c \in Callers : Acquire(c) \/ Release(c)) \/ Crash \/ Outside
              \/ UNCHANGED vars
  BY <1>3 DEF Acquire, Release, Crash, Outside, vars, diskVars, Exists
<1>4. QED
  BY <1>1, <1>2, <1>3 DEF Next, CallerStep, CallerMoves

(* A record is removed only by Forget, of a sandbox that is to be deleted. *)
LEMMA Vanishes ==
    ASSUME Base, Safe, TaskInv, [Next]_vars, NEW n \in Names,
           Exists(n), ~(Exists(n)')
    PROVE  /\ store[n].desired = "deleted" /\ Holds(n) = {}
<1>1. CASE KeepsIds \/ store' = store
  BY <1>1 DEF KeepsIds, Exists
<1>2. CASE Forget
  <2>1. /\ Cur \in Names /\ Exists(Cur) /\ Pos = "forget" /\ run.mode = "delete"
        /\ run.rec.appGUID = store[Cur].appGUID
    <3>1. "forget" \in Steps \ (Finished \cup {"persist"}) /\ Deleting("forget")
      BY <1>2 DEF Forget, Steps, DeleteSteps, Finished
    <3>2. QED
      BY <3>1, AtDelete
  <2>2. /\ member[Cur] = NoGuid /\ route[Cur] = {} /\ ~Owns(Cur)
        /\ bits[Cur] = "none" /\ store[Cur].appGUID \notin leadPolicy
    BY <2>1 DEF Safe, DeleteInv, PastMember, PastPolicy, PastRoute, PastApp,
                Finished
  <2>3. store[Cur].desired = "deleted"
    BY <2>1 DEF TaskInv, Finished
  <2>4. n = Cur
    BY <1>2, <2>1, ForgetEffect DEF Base, Within, StoreOthers, Exists
  <2>5. QED
    BY <2>2, <2>3, <2>4 DEF Holds, MemberPresent
<1>3. CASE CallerMoves
  BY <1>1, <1>3, CallerEffect DEF Base
<1>4. CASE (\E c \in Callers : Acquire(c) \/ Release(c)) \/ Crash \/ Outside
              \/ UNCHANGED vars
  BY <1>1, <1>4 DEF Acquire, Release, Crash, Outside, vars, diskVars
<1>5. CASE WorkerStep
  <2>1. CASE OrdinaryCreate
    BY <1>1, <2>1, OrdinaryEffect DEF Base, Plain
  <2>2. CASE Claim
    BY <2>2, ClaimEffect DEF Base
  <2>3. CASE PersistStep \/ Fail
    BY <1>1, <2>3, PersistStepEffect, FailEffect DEF Base
  <2>4. QED
    BY <1>1, <1>2, <1>5, <2>1, <2>2, <2>3
       DEF WorkerStep, CreateStep, DeleteStep, OrdinaryCreate, Top, Recheck,
           Discover, Allow, Cleanup, Observe, Expel, Absence, Revoke, Unguard,
           Resolve, Unroute, Identify, Destroy, Sweep, diskVars
<1>6. QED
  BY <1>3, <1>4, <1>5 DEF Next, CallerStep, CallerMoves, Work

(* A sandbox without a record holds nothing. *)
LEMMA AbsentHoldsNothing ==
    ASSUME NoLeak, NEW n \in Names, ~Exists(n)
    PROVE  Holds(n) = {}
  BY DEF NoLeak, Holds, Exists

(* The same, after a step. *)
LEMMA AbsentHoldsNothingNext ==
    ASSUME NoLeak', NEW n \in Names, ~(Exists(n)')
    PROVE  Holds(n)' = {}
  BY DEF NoLeak, Holds, Exists, MemberPresent, Owns, HasApp

(* What is held are things. *)
LEMMA HoldsThings ==
    ASSUME NEW n
    PROVE  Holds(n) \subseteq Things /\ Holds(n)' \subseteq Things
  BY DEF Holds

(* Every step of the manager is a step of the life of each sandbox. *)
LEMMA StepOfLife ==
    ASSUME Base, Safe, TaskInv, [Next]_vars, Base', Safe', NEW n \in Names
    PROVE  \/ Life(n)' = Life(n) /\ Holds(n)' = Holds(n)
           \/ Life(n) = "absent" /\ Life(n)' = "wanted" /\ Holds(n)' = {}
           \/ /\ Life(n) # "absent" /\ Life(n)' \in {Life(n), "doomed"}
              /\ Holds(n)' \subseteq Things
           \/ /\ Life(n) = "doomed" /\ Holds(n) = {}
              /\ Life(n)' = "absent" /\ Holds(n)' = {}
<1>1. NoLeak /\ NoLeak' /\ StoreTypeOK /\ StoreTypeOK' /\ CFTypeOK
  BY DEF Safe, Base, BaseInv, TypeOK
<1>2. CASE ~Exists(n) /\ ~(Exists(n)')
  BY <1>1, <1>2, AbsentHoldsNothing, AbsentHoldsNothingNext DEF Life
<1>3. CASE ~Exists(n) /\ Exists(n)'
  <2>1. store'[n] = NewRecord /\ UNCHANGED <<bits, worldVars>>
    BY <1>3, Appears
  <2>2. Life(n) = "absent" /\ Life(n)' = "wanted"
    <3>1. NewRecord.desired = "present"
      BY DEF NewRecord
    <3>2. QED
      BY <1>3, <2>1, <3>1 DEF Life
  <2>3. NoGuid \notin leadPolicy
    BY <1>1, IdentityAssumption DEF CFTypeOK
  <2>4. Holds(n)' = {}
    <3>1. /\ ~MemberPresent(n) /\ route[n] = {} /\ ~Owns(n) /\ bits[n] = "none"
      BY <1>1, <1>3 DEF NoLeak
    <3>2. /\ ~(MemberPresent(n)') /\ route'[n] = {} /\ ~(Owns(n)')
          /\ bits'[n] = "none"
      BY <2>1, <3>1 DEF MemberPresent, Owns, HasApp, worldVars
    <3>3. store'[n].appGUID \notin leadPolicy'
      <4>1. NewRecord.appGUID = NoGuid /\ leadPolicy' = leadPolicy
        BY <2>1 DEF NewRecord, worldVars
      <4>2. QED
        BY <2>1, <2>3, <4>1
    <3>4. QED
      BY <3>2, <3>3 DEF Holds
  <2>5. QED
    BY <2>2, <2>4
<1>4. CASE Exists(n) /\ ~(Exists(n)')
  BY <1>1, <1>4, Vanishes, AbsentHoldsNothingNext DEF Life
<1>5. CASE Exists(n) /\ Exists(n)'
  <2>1. store[n].desired \in {"present", "deleted"}
        /\ store'[n].desired \in {"present", "deleted"}
    BY <1>1, <1>5 DEF StoreTypeOK, Exists, Record
  <2>2. store[n].desired = "deleted" => store'[n].desired = "deleted"
    BY <1>5, WritesRespect DEF Respects, KeepsDeletion
  <2>3. Life(n) # "absent" /\ Life(n)' \in {Life(n), "doomed"}
    BY <1>5, <2>1, <2>2 DEF Life
  <2>4. QED
    BY <2>3, HoldsThings
<1>6. QED
  BY <1>2, <1>3, <1>4, <1>5

-----------------------------------------------------------------------------
(* The manager begins with no sandbox, ... *)
LEMMA InitLife == Init => Promise!Init /\ TaskInv
<1>1. ASSUME Init PROVE Promise!Init /\ TaskInv
  <2>1. \A n \in Names : ~Exists(n)
    BY <1>1 DEF Init, StoreInit, Exists
  <2>2. \A n \in Names : Life(n) = "absent" /\ Holds(n) = {}
    BY <1>1, <2>1, InitSafe, AbsentHoldsNothing DEF Safe, Life
  <2>3. TaskInv
    BY <1>1 DEF Init, WorkerInit, Idle, TaskInv
  <2>4. QED
    BY <2>2, <2>3 DEF Promise!Init
<1>2. QED
  BY <1>1

(* ... and each of its steps is one of Lifecycle. *)
LEMMA NextLife ==
    ASSUME Base, Safe, TaskInv, [Next]_vars, Base', Safe'
    PROVE  Promise!Next
<1>1. ASSUME NEW n \in Names
      PROVE  Promise!Rest(n) \/ Promise!Ask(n) \/ Promise!Change(n)
                \/ Promise!Vanish(n)
  BY StepOfLife, HoldsThings
     DEF Promise!Rest, Promise!Ask, Promise!Change, Promise!Vanish, Promise!Becomes
<1>2. [n \in Names |-> Life(n)]' \in [Names -> {"absent", "wanted", "doomed"}]
  BY DEF Life
<1>3. [n \in Names |-> Holds(n)]' \in [Names -> SUBSET Things]
  BY HoldsThings
<1>4. QED
  BY <1>1, <1>2, <1>3 DEF Promise!Next

(* The manager keeps the promise of Lifecycle: deletions are final, only a *)
(* sandbox whose deletion was asked for goes, it goes when nothing is left *)
(* of it, and a sandbox created anew begins with nothing, whatever fails,  *)
(* crashes, expires or is done by the operator of the space on the way.    *)
THEOREM ManagerIsLifecycle ==
    ASSUME "lateJoin" \notin Faults
    PROVE  Spec => ImplementsLifecycle
<1> DEFINE Inv == Base /\ Safe /\ TaskInv
<1>1. Init => Inv /\ Promise!Init
  BY InitBase, InitSafe, InitLife
<1>2. Inv /\ [Next]_vars => Inv'
  BY NextBase, NextSafe, NextTask
<1>3. Inv /\ Inv' /\ [Next]_vars => Promise!Next
  BY NextLife
<1>4. QED
  BY <1>1, <1>2, <1>3, PTL DEF Spec, ImplementsLifecycle, Promise!Spec
=============================================================================
