------------------------------ MODULE Sandbox ------------------------------
(***************************************************************************)
(* The durable record of a sandbox (internal/model/sandbox.go) and the     *)
(* order of the phases the reconciler drives it through.  Free text        *)
(* (repository, buildpack, last error, operation log, timestamps) decides  *)
(* no branch of the reconciler and is left out; Revision, InternalHost and *)
(* PackMemberID only matter as set or unset.                               *)
(***************************************************************************)
CONSTANTS
    Names,      \* sandbox names
    Guids,      \* identities Cloud Foundry hands out to apps
    NoGuid,     \* the empty AppGUID
    NoRecord    \* the store has no record under a name

(* Phases before the app exists, and those only reached once it is pushed. *)
PreparePhases == {"creating", "preparing-invite", "staging"}

(* needsEnrollment: phases that must not be resumed without a live invite. *)
NeedsEnrollment ==
    {"discovering-app", "securing-route", "securing-manager-route",
     "configuring-enrollment", "starting"}

WaitPhases ==
    {"waiting-for-app", "waiting-for-route", "triggering-enrollment",
     "joining-pack"}

(* Phases in which reconcileCreate has work to do. *)
CreatePhases == PreparePhases \cup NeedsEnrollment \cup WaitPhases

(* "" is the zero Phase, which Retry can write and no case handles. *)
Phases == CreatePhases \cup {"ready", "deleting", "failed", ""}

(* The phase each creation phase persists when its effects succeeded. *)
NextPhase ==
    [p \in CreatePhases |->
        CASE p = "creating"               -> "preparing-invite"
          [] p = "preparing-invite"       -> "staging"
          [] p = "staging"                -> "discovering-app"
          [] p = "discovering-app"        -> "securing-route"
          [] p = "securing-route"         -> "securing-manager-route"
          [] p = "securing-manager-route" -> "configuring-enrollment"
          [] p = "configuring-enrollment" -> "starting"
          [] p = "starting"               -> "waiting-for-app"
          [] p = "waiting-for-app"        -> "waiting-for-route"
          [] p = "waiting-for-route"      -> "triggering-enrollment"
          [] p = "triggering-enrollment"  -> "joining-pack"
          [] OTHER                        -> "ready"]

MaybeGuid == Guids \cup {NoGuid}

Record ==
    [desired      : {"present", "deleted"},
     phase        : Phases,
     resumePhase  : Phases,
     appGUID      : MaybeGuid,
     revision     : BOOLEAN,
     internalHost : BOOLEAN,
     packMemberID : BOOLEAN]

(* What POST /manager/api/sandboxes stores. *)
NewRecord ==
    [desired      |-> "present",
     phase        |-> "creating",
     resumePhase  |-> "",
     appGUID      |-> NoGuid,
     revision     |-> FALSE,
     internalHost |-> FALSE,
     packMemberID |-> FALSE]

ASSUME IdentityAssumption ==
    /\ NoGuid \notin Guids
    /\ NoRecord \notin Record
=============================================================================
