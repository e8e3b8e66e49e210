----------------------------- MODULE ProcessInv -----------------------------
(***************************************************************************)
(* The inductive invariant behind the theorems of ProcessProofs.           *)
(***************************************************************************)
EXTENDS Process

(* The mutex is held by the caller that is in its critical section. *)
Critical == {"stop", "signal", "await", "start"}

LocksOK ==
    \A p \in Programs, c \in Callers :
        mu[p] = c <=> call[c].of = p /\ call[c].at \in Critical

(* A child that is not forgotten is the one its supervisor keeps. *)
ChildrenOK ==
    \A p \in Programs, k \in Slots :
        child[p][k].is # "free" <=> current[p] = k

(* Who is in which call, and where a call can be. *)
CallsOK ==
    /\ IF main \in DOMAIN MainCalls
       THEN call[Main].op = MainCalls[main][1] /\ call[Main].of = MainCalls[main][2]
       ELSE call[Main] = Idle
    /\ monitor.at \notin {"restart", "ready"} => call[Monitor] = Idle
    /\ \A c \in Callers \ {Main} : call[c] = Idle \/ call[c].of = "collie"
    /\ \A c \in Callers :
          /\ call[c].at \in {"probe", "mark"} => call[c].op = "ready"
          /\ call[c].at = "start" => call[c].op \in {"start", "restart"}

(* A child is signalled only after its exit has been marked as expected.   *)
MarkedOK ==
    /\ \A p \in Programs, k \in Slots :
          child[p][k].is \in {"signalled", "stopped"} => child[p][k].expected
    /\ \A p \in Programs, k \in Slots, c \in Callers :
          /\ call[c].of = p /\ current[p] = k
          /\ call[c].at \in {"signal", "await"}
          => child[p][k].expected \/ child[p][k].is = "done"

(* Before it serves and while it undoes a start, main is alone; once it    *)
(* shuts down, no one can start a child any more.                          *)
Alone == Starting \cup {"undoCollie", "undoHerdr"}

AloneOK ==
    /\ main \in Alone =>
          monitor.at = "off" /\ \A c \in Callers \ {Main} : call[c] = Idle
    /\ main \in {"draining", "closing", "stopCollie", "stopHerdr"} => ctx

(* Which program is known not to run, by how far main has come. *)
NoLead ==
    \/ main \in {"startHerdr", "readyHerdr"}
    \/ main = "startCollie" /\ call[Main].at # "succeeded"
    \/ main \in {"undoCollie", "stopCollie"} /\ call[Main].at = "succeeded"
    \/ main \in {"undoHerdr", "stopHerdr", "exited"} /\ clean

NoHerdr ==
    \/ main = "startHerdr" /\ call[Main].at # "succeeded"
    \/ main \in {"undoHerdr", "stopHerdr"} /\ call[Main].at = "succeeded"
    \/ main = "exited" /\ clean

GoneOK ==
    /\ NoLead => current["collie"] = NoChild
    /\ NoHerdr => current["herdr"] = NoChild

(* What holds between any two steps of the goroutines that use the         *)
(* supervisors, whichever way a stop or a start has failed.                *)
PInv ==
    /\ ProcessTypeOK /\ LocksOK /\ ChildrenOK /\ CallsOK
    /\ MarkedOK /\ AloneOK /\ GoneOK
=============================================================================
