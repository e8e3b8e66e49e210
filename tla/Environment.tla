---------------------------- MODULE Environment ----------------------------
(***************************************************************************)
(* What may still go wrong.  Faults names the kinds of trouble a           *)
(* configuration admits; they may strike at any time and any number of     *)
(* times until Settle makes calm TRUE for good.  The liveness properties   *)
(* are about what happens afterwards.                                      *)
(***************************************************************************)
EXTENDS Sandbox

CONSTANT Faults

FaultKinds ==
    {"call",          \* a command or request fails, with or without effect,
                      \* or the log entry of one cannot be written
     "lostWrite",     \* a store write fails and changes nothing
     "appliedWrite",  \* a store write takes effect but reports an error
     "crash",         \* the manager process dies and is started again
     "expiry",        \* an invite expires
     "lateJoin",      \* a join outlives the request that asked for it
     "deleteApp",     \* the operator of the space deletes an app
     "pushApp",       \* ... pushes an app under a name, minding the manager
     "pushUnclaimed"} \* ... or while a sandbox has no recorded GUID

ASSUME FaultsAssumption == Faults \subseteq FaultKinds

VARIABLE calm

CalmInit == calm = (Faults = {})

Fault(kind) == ~calm /\ kind \in Faults

MayFail == Fault("call")

Settle == ~calm /\ calm' = TRUE
=============================================================================
