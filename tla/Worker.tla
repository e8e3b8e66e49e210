------------------------------- MODULE Worker -------------------------------
(***************************************************************************)
(* The reconciler's worker (internal/reconcile/reconciler.go, Start, Stop  *)
(* and the goroutine between them).  A Start makes a generation with a     *)
(* stop and a done channel; the methods may be called by several callers   *)
(* at once, each generation lives in the context of the Start that made    *)
(* it, and all work goes on under one mutex.  What the work is does not    *)
(* matter here: Reconciler has it step by step.                            *)
(***************************************************************************)
EXTENDS FiniteSets

CONSTANTS Callers, Generations, NoGeneration, Free

ASSUME WorkerAssumption ==
    NoGeneration \notin Generations /\ Free \notin Generations

VARIABLES
    lifecycle,  \* Reconciler.lifecycle
    generation, \* Reconciler.generation
    worker,     \* where the goroutine of each generation is; "ended" when
                \* its done channel is closed
    stopped,    \* the generations whose stop channel is closed
    cancelled,  \* those whose context is cancelled
    owner,      \* the caller whose Start made a generation
    mutex,      \* Reconciler.worker
    call        \* what each caller is at

workerVars == <<lifecycle, generation, worker, stopped, cancelled, owner, mutex, call>>
states == <<lifecycle, generation, worker, owner>>

(* A call of Start or Stop: the generation it waits for, the one it would  *)
(* make, and those that lived when it began.                               *)
Calling(at, on, new, found) == [at |-> at, on |-> on, new |-> new, found |-> found]
Idle == Calling("idle", NoGeneration, NoGeneration, {})

Alive == {"scan", "lock", "work", "select", "leave"}
Living == {g \in Generations : worker[g] \in Alive}
Fresh == {g \in Generations : worker[g] = "none" /\ \A c \in Callers : call[c].new # g}

WorkerInit ==
    /\ lifecycle = "stopped" /\ generation = NoGeneration
    /\ worker = [g \in Generations |-> "none"]
    /\ stopped = {} /\ cancelled = {}
    /\ owner = [g \in Generations |-> NoGeneration]
    /\ mutex = Free
    /\ call = [c \in Callers |-> Idle]

Steps(c, to) == call' = [call EXCEPT ![c] = to]

CallStart(c) ==
    /\ call[c] = Idle
    /\ \E g \in Fresh : Steps(c, Calling("start", NoGeneration, g, {}))
    /\ UNCHANGED <<states, stopped, cancelled, mutex>>

CallStop(c) ==
    /\ call[c] = Idle
    /\ Steps(c, Calling("stop", NoGeneration, NoGeneration, Living))
    /\ UNCHANGED <<states, stopped, cancelled, mutex>>

-----------------------------------------------------------------------------
(* Start's turns, each under stateMu.  One that finds the worker running   *)
(* returns, whatever has become of that worker's context.                  *)
Found(c) ==
    /\ call[c].at = "start" /\ lifecycle = "running"
    /\ Steps(c, Idle)
    /\ UNCHANGED <<states, stopped, cancelled, mutex>>

(* Mutant: Start returns when another call has asked for the stop. *)
MutantAwaitStopping(c) ==
    /\ call[c].at = "start" /\ lifecycle = "stopping"
    /\ Steps(c, Idle)
    /\ UNCHANGED <<states, stopped, cancelled, mutex>>

AwaitStopping(c) ==
    /\ call[c].at = "start" /\ lifecycle = "stopping"
    /\ Steps(c, Calling("await", generation, call[c].new, {}))
    /\ UNCHANGED <<states, stopped, cancelled, mutex>>

(* <-done, and the loop goes round. *)
TryAgain(c) ==
    /\ call[c].at = "await" /\ worker[call[c].on] = "ended"
    /\ Steps(c, Calling("start", NoGeneration, call[c].new, {}))
    /\ UNCHANGED <<states, stopped, cancelled, mutex>>

Make(c) ==
    /\ call[c].at = "start" /\ lifecycle = "stopped"
    /\ lifecycle' = "running" /\ generation' = call[c].new
    /\ worker' = [worker EXCEPT ![call[c].new] = "scan"]
    /\ owner' = [owner EXCEPT ![call[c].new] = c]
    /\ Steps(c, Idle)
    /\ UNCHANGED <<stopped, cancelled, mutex>>

(* Stop under stateMu, and its wait for done. *)
NothingToStop(c) ==
    /\ call[c].at = "stop" /\ lifecycle = "stopped"
    /\ Steps(c, Idle)
    /\ UNCHANGED <<states, stopped, cancelled, mutex>>

(* Mutant: the state is "stopped" as soon as the stop is asked for. *)
MutantCloseStop(c) ==
    /\ call[c].at = "stop" /\ lifecycle = "running"
    /\ lifecycle' = "stopped" /\ stopped' = stopped \cup {generation}
    /\ Steps(c, Calling("join", generation, NoGeneration, call[c].found))
    /\ UNCHANGED <<generation, worker, owner, cancelled, mutex>>

CloseStop(c) ==
    /\ call[c].at = "stop" /\ lifecycle = "running"
    /\ lifecycle' = "stopping" /\ stopped' = stopped \cup {generation}
    /\ Steps(c, Calling("join", generation, NoGeneration, call[c].found))
    /\ UNCHANGED <<generation, worker, owner, cancelled, mutex>>

(* Mutant: a second Stop leaves the waiting to the first. *)
MutantJoinStop(c) ==
    /\ call[c].at = "stop" /\ lifecycle = "stopping"
    /\ Steps(c, Idle)
    /\ UNCHANGED <<states, stopped, cancelled, mutex>>

JoinStop(c) ==
    /\ call[c].at = "stop" /\ lifecycle = "stopping"
    /\ Steps(c, Calling("join", generation, NoGeneration, call[c].found))
    /\ UNCHANGED <<states, stopped, cancelled, mutex>>

Joined(c) ==
    /\ call[c].at = "join" /\ worker[call[c].on] = "ended"
    /\ Steps(c, Idle)
    /\ UNCHANGED <<states, stopped, cancelled, mutex>>

CallGoes(c) ==
    \/ Found(c) \/ AwaitStopping(c) \/ TryAgain(c) \/ Make(c)
    \/ NothingToStop(c) \/ CloseStop(c) \/ JoinStop(c) \/ Joined(c)

-----------------------------------------------------------------------------
(* The goroutine.  A scan goes through its whole list without a look at    *)
(* its context or its stop channel: ReconcileOne for each.                 *)
Goes(g, from, to) == worker[g] = from /\ worker' = [worker EXCEPT ![g] = to]
Keeps == UNCHANGED <<lifecycle, generation, owner, stopped, cancelled, call>>

ScanNext(g) == Goes(g, "scan", "lock") /\ UNCHANGED mutex /\ Keeps

ScanDone(g) == Goes(g, "scan", "select") /\ UNCHANGED mutex /\ Keeps

Lock(g) == mutex = Free /\ mutex' = g /\ Goes(g, "lock", "work") /\ Keeps

Unlock(g) == mutex' = Free /\ Goes(g, "work", "scan") /\ Keeps

Tick(g) == Goes(g, "select", "scan") /\ UNCHANGED mutex /\ Keeps

Quit(g) ==
    /\ g \in stopped \cup cancelled
    /\ Goes(g, "select", "leave") /\ UNCHANGED mutex /\ Keeps

(* The deferred function, under stateMu. *)
Leave(g) ==
    /\ Goes(g, "leave", "ended")
    /\ IF generation = g
       THEN lifecycle' = "stopped" /\ generation' = NoGeneration
       ELSE UNCHANGED <<lifecycle, generation>>
    /\ UNCHANGED <<owner, stopped, cancelled, mutex, call>>

WorkerGoes(g) ==
    ScanNext(g) \/ ScanDone(g) \/ Lock(g) \/ Unlock(g) \/ Tick(g) \/ Quit(g) \/ Leave(g)

Cancel(g) ==
    /\ worker[g] \in Alive
    /\ cancelled' = cancelled \cup {g}
    /\ UNCHANGED <<states, stopped, mutex, call>>

-----------------------------------------------------------------------------
WorkerTyped ==
    /\ lifecycle \in {"stopped", "running", "stopping"}
    /\ generation \in Generations \cup {NoGeneration}
    /\ worker \in [Generations -> Alive \cup {"none", "ended"}]
    /\ stopped \subseteq Generations /\ cancelled \subseteq Generations
    /\ owner \in [Generations -> Callers \cup {NoGeneration}]
    /\ call \in [Callers -> [at : {"idle", "start", "await", "stop", "join"},
                             on : Generations \cup {NoGeneration},
                             new : Generations \cup {NoGeneration},
                             found : SUBSET Generations]]
=============================================================================
