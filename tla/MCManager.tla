----------------------------- MODULE MCManager -----------------------------
(* Values for the constants of Manager in the configurations. *)
EXTENDS ManagerInv, TLC

CONSTANTS n1, n2, g1, g2, g3, j1, j2

OneName == {n1}
TwoNames == {n1, n2}
OneGuid == {g1}
TwoGuids == {g1, g2}
ThreeGuids == {g1, g2, g3}
OneJob == {j1}
TwoJobs == {j1, j2}

(* The kinds of trouble of each configuration. *)
NoFaults == {}
CallsFail == {"call"}
Crashes == {"crash"}
CrashesAndStragglers == {"crash", "expiry", "lateJoin"}
FailuresAndStrangers == {"call", "lostWrite", "pushUnclaimed"}
OperatorAndLateErrors == {"expiry", "deleteApp", "pushApp", "appliedWrite"}

GuidSymmetry == Permutations(Guids)
=============================================================================
