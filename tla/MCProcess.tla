----------------------------- MODULE MCProcess -----------------------------
(* Instances of Process for TLC. *)
EXTENDS ProcessInv

CONSTANTS k1, k2

TwoSlots == {k1, k2}

AJob == {"job"}
TheWorker == {"worker"}
Nobody == {}

AllCallers == {Main, Monitor} \cup Workers

OneVersion == {1}
ThreeVersions == {1, 2, 3}

NoFaults == {}
StartsFail == {"start", "probe"}
AllFaults == FaultKinds
=============================================================================
