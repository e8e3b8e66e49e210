----------------------------- MODULE SandboxInv -----------------------------
(***************************************************************************)
(* What a sandbox that is being brought up may rely on, phase by phase:    *)
(* the inductive invariants behind the theorems of SandboxProofs.  A phase *)
(* is only a word in a record; what makes it true that the app is pushed,  *)
(* the lead admitted or the member joined lies in the order of the effects *)
(* and survives failures, restarts, retries and a DELETE in the middle of  *)
(* a creation.                                                             *)
(***************************************************************************)
EXTENDS ManagerInv

-----------------------------------------------------------------------------
(* The zero Phase. *)
NoPhase == ""

(* Each effect of reconcileCreate belongs to one phase, and only Claim     *)
(* leaves discovering-app.                                                 *)
EffectInv ==
    /\ run.mode = "delete" => Pos \in DeleteSteps \cup Finished
    /\ run.mode = "create" =>
        /\ Pos \in {"secure", "saveHost"} => run.rec.phase = "securing-route"
        /\ Pos = "allow" => run.rec.phase = "securing-manager-route"
        /\ Pos = "configure" => run.rec.phase = "configuring-enrollment"
        /\ Pos = "start" => run.rec.phase = "starting"
        /\ Pos = "inspect" => run.rec.phase = "waiting-for-app"
        /\ Pos = "probe" => run.rec.phase = "waiting-for-route"
        /\ Pos \in {"lookup", "trigger", "confirm"} =>
                run.rec.phase = "triggering-enrollment"
        /\ Pos = "advance" => run.rec.phase # "discovering-app"

(* The worker is in the middle of a phase of n, and works on, whatever     *)
(* becomes of the record.                                                  *)
Busy(n) ==
    /\ Cur = n /\ run.mode = "create"
    /\ run.step \notin Finished \cup {"top"}

(* A sandbox that is being brought up, and the phases it is in: that of    *)
(* its record, the one it would be resumed in, and the worker's.           *)
Live(n) == Wanted(n) \/ Busy(n)

WorkersPhase(n) ==
    IF Busy(n) \/ (Cur = n /\ run.mode = "create" /\ run.step = "fail")
    THEN {run.rec.phase} ELSE {}

LivePhases(n) ==
    IF Wanted(n) THEN PhasesOf(n) \cup WorkersPhase(n)
    ELSE IF Busy(n) THEN {run.rec.phase} ELSE {}

(* Only a failed sandbox has a phase to be resumed in; while the worker is *)
(* busy with it the record names no phase but the worker's, or none at all *)
(* after a retry that came too late; and the snapshot is no richer than    *)
(* the record.                                                             *)
PhaseInv ==
    /\ \A n \in Names :
        Wanted(n) /\ store[n].phase # "failed" => store[n].resumePhase = NoPhase
    /\ Busy(Cur) /\ Wanted(Cur) => PhasesOf(Cur) \subseteq {run.rec.phase, NoPhase}
    /\ Busy(Cur) /\ run.rec.internalHost => store[Cur].internalHost
    /\ Pos \notin Finished \cup {"top", "claim"} =>
            run.rec.appGUID = store[Cur].appGUID

SnapInv == EffectInv /\ PhaseInv

-----------------------------------------------------------------------------
(* No two sandboxes ever refer to the same app.                            *)
Refers(n) ==
    {g \in Guids :
        \/ HasGuid(n, g)
        \/ Exists(n) /\ store[n].appGUID = g
        \/ Cur = n /\ run.rec.appGUID = g
        \/ member[n] = g
        \/ late[n] = g}

IdentitiesApart ==
    \A m, n \in Names : m # n => Refers(m) \cap Refers(n) = {}

-----------------------------------------------------------------------------
(* InviteCurrent: the app carries the invite from the push on.             *)
Invited == (NeedsEnrollment \cup WaitPhases) \ {"joining-pack"}

InviteInv ==
    /\ \A n \in Names :
        Live(n) /\ Owns(n) /\ LivePhases(n) \cap Invited # {} => app[n].token
    /\ /\ run.mode = "create" /\ Pos = "advance" /\ run.rec.phase = "staging"
       /\ Owns(Cur)
       => app[Cur].token

-----------------------------------------------------------------------------
(* EnrollWhenUsable: what each phase has achieved for good.                *)
PolicyPhases ==
    {"configuring-enrollment", "starting", "ready"} \cup WaitPhases

Admitted(n) == store[n].appGUID \in leadPolicy

Usable(n) ==
    /\ store[n].appGUID # NoGuid => HasGuid(n, store[n].appGUID) /\ Owns(n)
    /\ "discovering-app" \in LivePhases(n) => Owns(n)
    /\ LivePhases(n) \cap PolicyPhases # {} /\ store[n].internalHost
        => Admitted(n)
    /\ "triggering-enrollment" \in LivePhases(n)
        => store[n].internalHost /\ Answers(n)
    /\ "securing-route" \in LivePhases(n) => recovery[n] \notin PolicyPhases
    /\ recovery[n] \in PolicyPhases /\ store[n].internalHost => Admitted(n)

(* What the worker has just achieved and not yet written down.             *)
Achieved ==
    run.mode = "create" =>
        /\ Pos = "push" /\ HasApp(Cur) => Owns(Cur)
        /\ Pos = "claim" => HasGuid(Cur, run.rec.appGUID) /\ Owns(Cur)
        /\ Pos = "advance" =>
            /\ run.rec.phase = "staging" => Owns(Cur)
            /\ run.rec.phase = "securing-manager-route" => Admitted(Cur)
            /\ run.rec.phase = "waiting-for-route" =>
                    store[Cur].internalHost /\ Answers(Cur)

UsableInv == (\A n \in Names : Live(n) => Usable(n)) /\ Achieved

-----------------------------------------------------------------------------
(* ReadyIsMember: a member is the recorded app, and stays until the record *)
(* has left the phase ready.                                               *)
ClaimedPhases ==
    (NeedsEnrollment \ {"discovering-app"}) \cup WaitPhases \cup {"ready"}

Joined(n) ==
    /\ MemberPresent(n)
    /\ store[n].internalHost /\ store[n].packMemberID

MemberInv ==
    /\ \A n \in Names : MemberPresent(n) =>
            Exists(n) /\ member[n] = store[n].appGUID
    /\ \A n \in Names : Live(n) =>
        /\ LivePhases(n) \cap ClaimedPhases # {} /\ Owns(n) =>
                HasGuid(n, store[n].appGUID)
        /\ LivePhases(n) \cap {"triggering-enrollment", "joining-pack"} # {} =>
                store[n].internalHost
    /\ \A n \in Names : Exists(n) /\ "ready" \in PhasesOf(n) => Joined(n)
    /\ run.mode = "create" =>
        /\ Pos = "claim" /\ Owns(Cur) => HasGuid(Cur, run.rec.appGUID)
        /\ run.step # "idle" /\ run.rec.phase = "ready" => Joined(Cur)
        /\ Pos \in {"cleanup", "saveMember"} => MemberPresent(Cur)
        /\ Pos = "advance" /\ run.rec.phase = "waiting-for-route" =>
                store[Cur].internalHost
        /\ Pos = "advance" /\ run.rec.phase = "joining-pack" =>
                MemberPresent(Cur) /\ store[Cur].packMemberID
    /\ run.mode = "delete" /\ run.step \notin Finished \cup {"persist"}
        => "ready" \notin PhasesOf(Cur)

-----------------------------------------------------------------------------
(* OthersKept: an app of somebody else's is never the recorded one, and    *)
(* the worker comes to push or to delete only where the app is its own.    *)
Earned ==
    /\ run.mode = "create" =>
        /\ Pos = "push" /\ HasApp(Cur) => Owns(Cur)
        /\ Pos = "advance" /\ run.rec.phase = "staging" /\ HasApp(Cur)
            => Owns(Cur)
    /\ run.mode = "delete" /\ Pos = "destroy" /\ HasApp(Cur)
        => HasGuid(Cur, run.rec.appGUID)

OwnedInv ==
    /\ \A n \in Names : HasApp(n) /\ ~Owns(n) =>
        /\ run.rec.appGUID # app[n].guid
        /\ Exists(n) => store[n].appGUID # app[n].guid
    /\ \A n \in Names :
        /\ Live(n) /\ "discovering-app" \in LivePhases(n)
        /\ store[n].appGUID = NoGuid /\ HasApp(n)
        => Owns(n)
    /\ Earned

-----------------------------------------------------------------------------
(* FailedResumable: the phases a sandbox may be resumed in, and what keeps *)
(* the record and the worker within them as long as no retry comes late.   *)
ResumePhases(n) ==
    IF store[n].desired = "present"
    THEN CreatePhases ELSE CreatePhases \cup {"ready", "deleting"}

FreshRetries ==
    \A c \in Callers :
        RetryPut(c) /\ store' # store => store[who[c]].phase = "failed"

(* What the worker knows of it: it goes on with a phase that can be        *)
(* resumed; the record does not fail under its hands, and names such a     *)
(* phase until it is doomed; and what it is about to fail with is one.     *)
WorkerResumes ==
    /\ Busy(Cur) => run.rec.phase \in CreatePhases
    /\ run.mode = "create" /\ run.step \notin {"idle", "done"} =>
        /\ store[Cur].phase # "failed"
        /\ Wanted(Cur) /\ run.step \notin {"top", "fail"} =>
                store[Cur].phase \in CreatePhases
        /\ run.step = "fail" => run.rec.phase \in ResumePhases(Cur)
    /\ run.mode = "delete" /\ run.step \notin {"idle", "done"} =>
            Exists(Cur) /\ store[Cur].desired = "deleted"

ResumeInv ==
    /\ FailedResumable
    /\ \A n \in Names : Exists(n) =>
            store[n].phase \in ResumePhases(n) \cup {"ready", "failed"}
    /\ WorkerResumes
=============================================================================
