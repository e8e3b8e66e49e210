----------------------------- MODULE Supervisor -----------------------------
(***************************************************************************)
(* The supervisor of one child program (internal/supervisor/collie.go),    *)
(* once per program: the lead Collie and the Herdr server of the manager.  *)
(* Goroutines call Start, Restart, Ready and Stop; a mutex serialises all  *)
(* but the probing of Ready, and a reaper goroutine per child waits for    *)
(* its exit.  The state the code keeps per child, its generation, is kept  *)
(* here per slot; a slot is used again once nothing refers to it.  A       *)
(* reaper that finds another child in the place of its own does nothing,   *)
(* so the slot of a child is freed when the supervisor lets go of it.      *)
(***************************************************************************)
EXTENDS Naturals

CONSTANTS Callers, Slots, NoCaller, NoChild,
          Faults    \* kinds of trouble a configuration admits

Programs == {"herdr", "collie"}

FaultKinds ==
    {"exit",    \* a child exits of itself
     "start",   \* a program cannot be executed
     "probe",   \* a child does not answer in time
     "reap",    \* a signalled child is not reaped in time
     "serve",   \* the HTTP server fails
     "slow"}    \* the deadline of the shutdown passes

ASSUME SupervisorAssumption ==
    Faults \subseteq FaultKinds /\ NoCaller \notin Callers /\ NoChild \notin Slots

VARIABLES
    mu,         \* mu[p]: the caller inside the critical section of p, if any
    current,    \* current[p]: the child p's supervisor keeps, or NoChild
    healthy,    \* healthy[p]
    child,      \* child[p][k]: what became of the child in slot k, and
                \* whether its exit was asked for
    loaded,     \* loaded[p]: the Pack state p's latest child read when started
    alarm,      \* the exit of a child nobody asked for has been reported
    call,       \* call[c]: the call c is in, or the result of its last one
    calm        \* TRUE once no trouble strikes any more

supervisorVars ==
    <<mu, current, healthy, child, loaded, alarm, call, calm>>

Fates == {"free", "alive", "signalled", "crashed", "stopped", "done"}
Places == {"idle", "lock", "stop", "signal", "await", "start", "probe", "mark",
           "succeeded", "failed"}
Ops == {"none", "start", "restart", "ready", "stop"}

Child(fate) == [is |-> fate, expected |-> FALSE]

Idle == [op |-> "none", of |-> "herdr", at |-> "idle", slot |-> NoChild]

SupervisorTypeOK ==
    /\ mu \in [Programs -> Callers \cup {NoCaller}]
    /\ current \in [Programs -> Slots \cup {NoChild}]
    /\ healthy \in [Programs -> BOOLEAN]
    /\ child \in [Programs -> [Slots -> [is : Fates, expected : BOOLEAN]]]
    /\ alarm \in BOOLEAN
    /\ call \in [Callers -> [op : Ops, of : Programs, at : Places,
                             slot : Slots \cup {NoChild}]]
    /\ calm \in BOOLEAN

SupervisorInit(calls) ==
    /\ mu = [p \in Programs |-> NoCaller]
    /\ current = [p \in Programs |-> NoChild]
    /\ healthy = [p \in Programs |-> FALSE]
    /\ child = [p \in Programs |-> [k \in Slots |-> Child("free")]]
    /\ loaded = [p \in Programs |-> 0]
    /\ alarm = FALSE
    /\ call = calls
    /\ calm = FALSE

Trouble(kind) == ~calm /\ kind \in Faults

Runs(p, k) == child[p][k].is \in {"alive", "signalled"}

(* The reaper has closed the generation's channel. *)
IsDone(p, k) == child[p][k].is \in {"done", "free"}

Healthy(p) ==
    healthy[p] /\ current[p] # NoChild /\ ~IsDone(p, current[p])

(***************************************************************************)
(* A call.                                                                 *)
(***************************************************************************)
Invocation(op, p) == [op |-> op, of |-> p, at |-> "lock", slot |-> NoChild]

At(c, place) == call[c].at = place

To(c, place) == call' = [call EXCEPT ![c].at = place]

Answers(c, result, k) == call' = [call EXCEPT ![c].at = result, ![c].slot = k]

(* The call returns; deferred, the lock is let go. *)
Return(c, result) ==
    /\ Answers(c, result, NoChild)
    /\ mu' = [mu EXCEPT ![call[c].of] = NoCaller]

(* s.process, s.generation = nil, nil, for a child that is done. *)
LetGo(p) ==
    /\ current' = [current EXCEPT ![p] = NoChild]
    /\ child' = [child EXCEPT ![p][current[p]] = Child("free")]

(* What follows a stop: Restart starts the next child, Stop returns. *)
Stopped(c) ==
    IF call[c].op = "restart" THEN To(c, "start") /\ UNCHANGED mu
                              ELSE Return(c, "succeeded")

Lock(c) ==
    LET p == call[c].of IN
    /\ At(c, "lock") /\ mu[p] = NoCaller
    /\ \/ /\ call[c].op = "ready" /\ current[p] = NoChild
          /\ To(c, "failed") /\ UNCHANGED mu
       \/ /\ call[c].op = "ready" /\ current[p] # NoChild
          /\ Answers(c, "probe", current[p]) /\ UNCHANGED mu
       \/ /\ call[c].op = "start"
          /\ To(c, "start") /\ mu' = [mu EXCEPT ![p] = c]
       \/ /\ call[c].op \notin {"ready", "start"}
          /\ To(c, "stop") /\ mu' = [mu EXCEPT ![p] = c]
    /\ UNCHANGED <<current, healthy, child, loaded, alarm, calm>>

(* The exit of the child is never marked as expected. *)
MutantStopChecks(c, ended) ==
    LET p == call[c].of IN
    /\ At(c, "stop")
    /\ \/ /\ current[p] = NoChild
          /\ Stopped(c) /\ UNCHANGED healthy
       \/ /\ current[p] # NoChild /\ ~ended /\ ~IsDone(p, current[p])
          /\ healthy' = [healthy EXCEPT ![p] = FALSE]
          /\ To(c, "signal") /\ UNCHANGED mu
    /\ UNCHANGED <<current, child, loaded, alarm, calm>>

(* The first half of stopLocked.  The child may be found done on entry,    *)
(* or when its exit is to be marked as expected; only then is healthy      *)
(* cleared.                                                                *)
StopChecks(c, ended) ==
    LET p == call[c].of
        k == current[p]
    IN
    /\ At(c, "stop")
    /\ \/ /\ k = NoChild
          /\ Stopped(c) /\ UNCHANGED <<current, child, healthy>>
       \/ /\ k # NoChild /\ ended
          /\ Return(c, "failed")
          /\ UNCHANGED <<current, child, healthy>>
       \/ /\ k # NoChild /\ ~ended /\ IsDone(p, k)
          /\ LetGo(p)
          /\ healthy' \in {healthy, [healthy EXCEPT ![p] = FALSE]}
          /\ Stopped(c)
       \/ /\ k # NoChild /\ ~ended /\ ~IsDone(p, k)
          /\ child' = [child EXCEPT ![p][k].expected = TRUE]
          /\ healthy' = [healthy EXCEPT ![p] = FALSE]
          /\ To(c, "signal") /\ UNCHANGED <<current, mu>>
    /\ UNCHANGED <<loaded, alarm, calm>>

(* process.Stop: the process group is signalled, at last with SIGKILL. *)
Signals(c) ==
    LET p == call[c].of
        k == current[p]
    IN
    /\ At(c, "signal")
    /\ child' = IF child[p][k].is = "alive"
                THEN [child EXCEPT ![p][k].is = "signalled"] ELSE child
    /\ To(c, "await")
    /\ UNCHANGED <<mu, current, healthy, loaded, alarm, calm>>

(* The supervisor forgets a child it has signalled without waiting for it. *)
MutantAwaits(c, ended) ==
    /\ At(c, "await")
    /\ current' = [current EXCEPT ![call[c].of] = NoChild]
    /\ Stopped(c)
    /\ UNCHANGED <<healthy, child, loaded, alarm, calm>>

(* The end of stopLocked: the child is reaped, or the wait is given up. *)
Awaits(c, ended) ==
    LET p == call[c].of
        k == current[p]
    IN
    /\ At(c, "await")
    /\ \/ IsDone(p, k) /\ LetGo(p) /\ Stopped(c)
       \/ /\ ended \/ Trouble("reap")
          /\ Return(c, "failed") /\ UNCHANGED <<current, child>>
    /\ UNCHANGED <<healthy, loaded, alarm, calm>>

(* A start does not look whether its context has been cancelled. *)
MutantStartAllowed(p, ended) ==
    current[p] # NoChild => IsDone(p, current[p])

(* startLocked, whose new child reads the Pack state as it is now.  A     *)
(* child found done is let go of even when its successor cannot start.     *)
StartAllowed(p, ended) ==
    ~ended /\ (current[p] # NoChild => IsDone(p, current[p]))

(* The slots with a child that is done let go of; one is free to use when  *)
(* no Ready still asks for the child it held.                              *)
Freed(p) ==
    [k \in Slots |-> IF k = current[p] /\ IsDone(p, k) THEN Child("free")
                                                     ELSE child[p][k]]

Unused(p, k) ==
    /\ Freed(p)[k].is = "free"
    /\ \A c \in Callers : call[c].of = p => call[c].slot # k

Fresh(p) == CHOOSE k \in Slots : Unused(p, k)

Starts(c, ended, state) ==
    LET p == call[c].of
        k == Fresh(p)
    IN
    /\ At(c, "start")
    /\ \/ /\ StartAllowed(p, ended) /\ \E j \in Slots : Unused(p, j)
          /\ child' = [child EXCEPT ![p] = [Freed(p) EXCEPT ![k] = Child("alive")]]
          /\ current' = [current EXCEPT ![p] = k]
          /\ loaded' = [loaded EXCEPT ![p] = state]
          /\ Return(c, "succeeded")
       \/ /\ StartAllowed(p, ended) /\ Trouble("start")
          /\ current' = [current EXCEPT ![p] = NoChild]
          /\ child' = [child EXCEPT ![p] = Freed(p)]
          /\ Return(c, "failed") /\ UNCHANGED loaded
       \/ /\ ~StartAllowed(p, ended)
          /\ Return(c, "failed") /\ UNCHANGED <<current, child, loaded>>
    /\ UNCHANGED <<healthy, alarm, calm>>

(* The loop of Ready, which holds no lock: the child it looked up is gone, *)
(* some child answers the probe, or the time is up.                        *)
Probes(c, ended) ==
    LET p == call[c].of
        k == call[c].slot
    IN
    /\ At(c, "probe")
    /\ \/ IsDone(p, k)
          /\ Answers(c, "failed", NoChild)
       \/ ~IsDone(p, k) /\ (\E j \in Slots : child[p][j].is = "alive")
          /\ To(c, "mark")
       \/ (ended \/ Trouble("probe"))
          /\ Answers(c, "failed", NoChild)
    /\ UNCHANGED <<mu, current, healthy, child, loaded, alarm, calm>>

(* Ready succeeds, whether or not the child it asked for is still there. *)
Marks(c) ==
    LET p == call[c].of
        k == call[c].slot
    IN
    /\ At(c, "mark") /\ mu[p] = NoCaller
    /\ healthy' = IF current[p] = k /\ ~IsDone(p, k)
                  THEN [healthy EXCEPT ![p] = TRUE] ELSE healthy
    /\ Answers(c, "succeeded", NoChild)
    /\ UNCHANGED <<mu, current, child, loaded, alarm, calm>>

(***************************************************************************)
(* A child and its reaper.                                                 *)
(***************************************************************************)
Dies(p, k) ==
    /\ child[p][k].is = "signalled"
    /\ child' = [child EXCEPT ![p][k].is = "stopped"]
    /\ UNCHANGED <<mu, current, healthy, loaded, alarm, call, calm>>

Crashes(p, k) ==
    /\ Trouble("exit") /\ child[p][k].is = "alive"
    /\ child' = [child EXCEPT ![p][k].is = "crashed"]
    /\ UNCHANGED <<mu, current, healthy, loaded, alarm, call, calm>>

(* Wait returns, and an exit nobody asked for is reported.  The channels   *)
(* of the two supervisors are merged into the one main waits on; each has  *)
(* place for one error, and main looks at no second one.                   *)
Finish(p, k) ==
    /\ child[p][k].is \in {"crashed", "stopped"}
    /\ child' = [child EXCEPT ![p][k] = Child("done")]
    /\ alarm' = (alarm \/ ~child[p][k].expected)
    /\ UNCHANGED <<mu, current, healthy, loaded, call, calm>>

(* The reaper lets go of its child, unless that has been done already. *)
Reap(p, k) ==
    /\ child[p][k].is = "done" /\ mu[p] = NoCaller /\ current[p] = k
    /\ LetGo(p)
    /\ healthy' = [healthy EXCEPT ![p] = FALSE]
    /\ UNCHANGED <<mu, loaded, alarm, call, calm>>
=============================================================================
