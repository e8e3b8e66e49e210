----------------------------- MODULE ManagerInv -----------------------------
(***************************************************************************)
(* The inductive invariant behind the safety theorems of ManagerProofs.    *)
(* NoLeak is not inductive: whether deleting a record leaks anything is    *)
(* decided many steps before Forget.  What is needed in between is what    *)
(* the worker has already established, by its control point.               *)
(***************************************************************************)
EXTENDS Manager

(* The step the worker is at, or about to take after a write of the phase. *)
Pos == IF At("persist") THEN run.then ELSE run.step

(* Control points that no longer need the record. *)
Finished == {"idle", "recheck", "fail", "done"}

CreateInv ==
    run.mode = "create" =>
        /\ Pos \notin Finished => Exists(Cur)
        /\ Pos \in {"discover", "allow"} =>
                run.rec.appGUID = store[Cur].appGUID
        /\ Pos = "claim" =>
                /\ run.rec.appGUID \in Guids
                /\ store[Cur].appGUID \in {NoGuid, run.rec.appGUID}

(* What reconcileDelete has achieved once it is past each removal. *)
PastRoute  == {"identify", "destroy", "cleanup", "sweep", "forget"}
PastPolicy == {"unguard", "resolve", "unroute"} \cup PastRoute
PastMember == {"absence", "revoke"} \cup PastPolicy
PastApp    == {"cleanup", "sweep", "forget"}

DeleteInv ==
    run.mode = "delete" =>
        /\ Pos \notin Finished =>
                Exists(Cur) /\ run.rec.appGUID = store[Cur].appGUID
        /\ Pos = "absence" => run.rec.appGUID = NoGuid
        /\ Pos = "revoke" => run.rec.appGUID # NoGuid
        /\ Pos \in PastMember => member[Cur] = NoGuid
        /\ Pos \in PastPolicy => run.rec.appGUID \notin leadPolicy
        /\ Pos \in PastPolicy /\ run.rec.appGUID = NoGuid => ~Owns(Cur)
        /\ Pos \in PastRoute => route[Cur] = {}
        /\ Pos \in PastApp => ~Owns(Cur)
        /\ Pos = "forget" => bits[Cur] = "none"

(* What makes the names and phases the steps work on names and phases. *)
FrameOK ==
    /\ run.then # "persist"
    /\ run.step # "idle" => Cur \in Names
    /\ run.mode = "create" /\ Pos \notin Finished \cup {"top"} =>
            run.rec.phase \in CreatePhases
    /\ Pos = "recover" => run.rec.phase \in NeedsEnrollment

CallersOK == \A c \in Callers : pc[c] # "idle" => who[c] \in Names

BaseInv == TypeOK /\ FrameOK /\ CallersOK

NoLateJoin == \A n \in Names : late[n] = NoGuid

-----------------------------------------------------------------------------
(* What PushComplete rests on.  A directory is cloned in the phase         *)
(* creating and removed when the sandbox has joined or is to go.  Between  *)
(* the two it is complete, although whether it is there is decided phases  *)
(* and restarts later, from the record's revision and an os.Stat.          *)

(* The worker's sandbox has a record, a worker that deletes it a doomed one. *)
TaskInv ==
    /\ run.mode = "create" /\ run.step \notin {"idle", "done"} => Exists(Cur)
    /\ run.mode = "delete" /\ Pos \notin Finished =>
            Exists(Cur) /\ store[Cur].desired = "deleted"

(* The steps that work on the directory belong to one phase each.          *)
StepInv ==
    run.mode = "create" =>
        /\ run.rec.phase = "creating" =>
                Pos \in {"top", "prepare", "cloning", "saveRevision", "advance"}
                            \cup Finished
        /\ Pos \in {"prepare", "cloning", "saveRevision"} =>
                run.rec.phase = "creating"
        /\ Pos = "enroll" => run.rec.phase \in {"preparing-invite", "staging"}
        /\ Pos \in {"bits", "install", "preflight", "push"} =>
                run.rec.phase = "staging"
        /\ Pos \in {"discover", "claim"} => run.rec.phase = "discovering-app"
        /\ Pos \in {"await", "cleanup", "saveMember"} =>
                run.rec.phase = "joining-pack"

(* The phases a sandbox has its clone in, and those it is in or would be   *)
(* resumed in.                                                             *)
Cloned == CreatePhases \ {"creating", "joining-pack"}
PhasesOf(n) == {store[n].phase, store[n].resumePhase}
Wanted(n) == Exists(n) /\ store[n].desired = "present"

RecordsCloned ==
    \A n \in Names :
        Wanted(n) /\ PhasesOf(n) \cap Cloned # {} => bits[n] = "complete"

(* A worker that goes by such a phase has the clone too, until it fails    *)
(* and reads the record again; and it removes the clone only when the      *)
(* record has left those phases.                                           *)
WorkerCloned ==
    run.mode = "create" =>
        /\ run.step \notin Finished \cup {"top"} /\ run.rec.phase \in Cloned =>
                bits[Cur] = "complete"
        /\ Pos = "fail" /\ run.rec.phase \in Cloned /\ Wanted(Cur) =>
                bits[Cur] = "complete"
        /\ Pos = "cloning" => bits[Cur] = "partial"
        /\ \/ Pos = "saveRevision"
           \/ Pos = "advance" /\ run.rec.phase = "creating"
           => bits[Cur] = "complete"
        /\ Pos \in {"preflight", "push"} => installed[Cur]
        /\ run.step \in {"await", "cleanup"} /\ Wanted(Cur) =>
                PhasesOf(Cur) \cap Cloned = {}

CloneInv == StepInv /\ RecordsCloned /\ WorkerCloned

(* What holds between any two steps of the worker, whatever has failed or  *)
(* crashed: reconcileDelete's cleanups are done in the order of its steps  *)
(* and stay done, so that nothing is left when the record is removed, and  *)
(* reconcileCreate never goes by a directory that is not a clone.          *)
IInv ==
    /\ BaseInv /\ NoLateJoin
    /\ CreateInv /\ DeleteInv /\ NoLeak
    /\ TaskInv /\ CloneInv

-----------------------------------------------------------------------------
(* The manager as an implementation of Lifecycle: a record's existence and *)
(* its desired state are the life of its sandbox, and what the space, the  *)
(* roster and the disk have of it is what it holds.                        *)
Life(n) ==
    IF ~Exists(n) THEN "absent"
    ELSE IF store[n].desired = "present" THEN "wanted" ELSE "doomed"

Things == {"member", "route", "app", "bits", "policy"}

Holds(n) ==
    {t \in Things :
        \/ t = "member" /\ MemberPresent(n)
        \/ t = "route" /\ route[n] # {}
        \/ t = "app" /\ Owns(n)
        \/ t = "bits" /\ bits[n] # "none"
        \/ t = "policy" /\ Exists(n) /\ store[n].appGUID \in leadPolicy}

Promise == INSTANCE Lifecycle WITH
    life  <- [n \in Names |-> Life(n)],
    holds <- [n \in Names |-> Holds(n)]

(* Every name goes through the life the manager promises it: a deletion is *)
(* never taken back, a sandbox that is to exist is never dropped, and a    *)
(* record goes, whatever failed on the way, only when nothing of the       *)
(* sandbox is left (reconcileDelete's order of effects, and the record     *)
(* last), so that a sandbox created anew never begins with its             *)
(* predecessor's things.                                                   *)
ImplementsLifecycle == Promise!Spec
=============================================================================
