------------------------------ MODULE Process ------------------------------
(***************************************************************************)
(* The manager process (cmd/manager): how it starts its two children,      *)
(* serves, restarts the lead Collie when the Pack state on disk changes,   *)
(* and shuts down.  Goroutines: main; the monitor of the Pack state; the   *)
(* worker of the reconciler; and a job of the API, which the shutdown      *)
(* waits for only until its deadline.  The last two restart the lead after *)
(* every invite and every removal (internal/pack/manager.go).              *)
(***************************************************************************)
EXTENDS Supervisor

CONSTANTS Workers,     \* those who restart the lead: the worker, a job
          Versions,    \* contents the Pack state file may have
          EarlyJoins   \* may the monitor's goroutine read it after a join?

Main == "main"
Monitor == "monitor"

ASSUME ProcessAssumption ==
    /\ Workers \subseteq {"worker", "job"}
    /\ Callers = {Main, Monitor} \cup Workers
    /\ EarlyJoins \in BOOLEAN /\ Versions \subseteq Nat \ {0}

VARIABLES
    main,     \* where run() is
    ctx,      \* the context of the process is cancelled
    late,     \* the deadline of the shutdown has passed
    clean,    \* no stop of a child has reported an error
    trust,    \* the Pack state file's contents; 0 while there is no file
    monitor   \* the state of monitorPackState

processVars == <<main, ctx, late, clean, trust, monitor>>

vars == <<supervisorVars, processVars>>

(***************************************************************************)
(* The calls main makes one after the other, and where each leads.         *)
(***************************************************************************)
MainCalls ==
    [startHerdr |-> <<"start", "herdr">>, readyHerdr |-> <<"ready", "herdr">>,
     startCollie |-> <<"start", "collie">>, readyCollie |-> <<"ready", "collie">>,
     undoCollie |-> <<"stop", "collie">>, undoHerdr |-> <<"stop", "herdr">>,
     stopCollie |-> <<"stop", "collie">>, stopHerdr |-> <<"stop", "herdr">>]

AfterSuccess ==
    [startHerdr |-> "readyHerdr", readyHerdr |-> "startCollie",
     startCollie |-> "readyCollie", readyCollie |-> "serving",
     undoCollie |-> "undoHerdr", undoHerdr |-> "exited",
     stopCollie |-> "stopHerdr", stopHerdr |-> "exited"]

AfterFailure ==
    [AfterSuccess EXCEPT !.startHerdr = "exited", !.readyHerdr = "undoHerdr",
                         !.startCollie = "undoHerdr", !.readyCollie = "undoCollie"]

Starting == {"startHerdr", "readyHerdr", "startCollie", "readyCollie"}
Stopping == {"undoCollie", "undoHerdr", "stopCollie", "stopHerdr"}

ProcessTypeOK ==
    /\ SupervisorTypeOK
    /\ loaded \in [Programs -> Versions \cup {0}]
    /\ main \in DOMAIN MainCalls \cup {"serving", "draining", "closing", "exited"}
    /\ ctx \in BOOLEAN /\ late \in BOOLEAN /\ clean \in BOOLEAN
    /\ trust \in Versions \cup {0}
    /\ monitor \in [at : {"off", "baseline", "waiting", "restart", "ready", "gone"},
                    last : Versions \cup {0}, pending : Versions \cup {0},
                    seen : Versions \cup {0}]

Init ==
    /\ SupervisorInit([c \in Callers |->
           IF c = Main THEN Invocation("start", "herdr") ELSE Idle])
    /\ main = "startHerdr" /\ ctx = FALSE /\ late = FALSE /\ clean = TRUE
    /\ trust \in Versions \cup {0}
    /\ monitor = [at |-> "off", last |-> 0, pending |-> 0, seen |-> 0]

Running == main # "exited"

(* The context of c's call has ended.  Undoing a start has none; the       *)
(* shutdown has its deadline; the API cancels its jobs when it is closed;  *)
(* all the rest is cancelled with the process.                             *)
Closed == main \in {"closing", "stopCollie", "stopHerdr"}

Ended(c) ==
    CASE c = Main /\ main \in {"undoCollie", "undoHerdr"} -> FALSE
      [] c = Main /\ main \in {"stopCollie", "stopHerdr"} -> late
      [] c = "job" -> Closed
      [] OTHER -> ctx

Busy(c) == call[c].at # "idle"

Has(c, result) == call[c].at = result

Invoke(c, op, p) == call' = [call EXCEPT ![c] = Invocation(op, p)]

Forget(c) == call' = [call EXCEPT ![c] = Idle]

OnlyCall == UNCHANGED <<mu, current, healthy, child, loaded, alarm, calm>>

(***************************************************************************)
(* main                                                                    *)
(***************************************************************************)
(* main goes on to the next of its calls, if there is one. *)
MainGoes(to) ==
    /\ main' = to
    /\ call' = [call EXCEPT ![Main] =
                   IF to \in DOMAIN MainCalls
                   THEN Invocation(MainCalls[to][1], MainCalls[to][2]) ELSE Idle]

MainReturns ==
    /\ main \in DOMAIN MainCalls
    /\ \/ Has(Main, "succeeded") /\ MainGoes(AfterSuccess[main])
          /\ UNCHANGED clean
       \/ Has(Main, "failed") /\ MainGoes(AfterFailure[main])
          /\ clean' = (clean /\ main \notin Stopping)
    /\ monitor' = IF main' = "serving" THEN [monitor EXCEPT !.at = "baseline"]
                                       ELSE monitor
    /\ OnlyCall /\ UNCHANGED <<ctx, late, trust>>

(* The errors of the supervisors are not waited for. *)
MutantMainWakes ==
    /\ main = "serving"
    /\ ctx \/ Trouble("serve")
    /\ main' = "draining" /\ ctx' = TRUE
    /\ UNCHANGED <<supervisorVars, late, clean, trust, monitor>>

(* waitForShutdown returns; an error cancels the context too. *)
MainWakes ==
    /\ main = "serving"
    /\ ctx \/ alarm \/ Trouble("serve")
    /\ main' = "draining" /\ ctx' = TRUE
    /\ UNCHANGED <<supervisorVars, late, clean, trust, monitor>>

(* stopAll up to the children.  The HTTP server drains and the API waits   *)
(* for its jobs until the deadline, the reconciler for its worker as long  *)
(* as it takes.                                                            *)
MainDrains ==
    /\ main = "draining" /\ main' = "closing"
    /\ UNCHANGED <<supervisorVars, ctx, late, clean, trust, monitor>>

MainCloses ==
    /\ main = "closing"
    /\ \A c \in Workers : Busy(c) => c = "job" /\ late
    /\ MainGoes("stopCollie") /\ OnlyCall
    /\ UNCHANGED <<ctx, late, clean, trust, monitor>>

Interrupt ==
    /\ Running /\ ~ctx
    /\ ctx' = TRUE
    /\ UNCHANGED <<supervisorVars, main, late, clean, trust, monitor>>

DeadlinePasses ==
    /\ main = "draining" \/ Closed
    /\ Trouble("slow") /\ ~late /\ late' = TRUE
    /\ UNCHANGED <<supervisorVars, main, ctx, clean, trust, monitor>>

(***************************************************************************)
(* The monitor.  Every tick compares the file with the last state it has   *)
(* restarted the lead for; a change has to be seen twice.                  *)
(***************************************************************************)
MonitorBegins ==
    /\ Running /\ monitor.at = "baseline"
    /\ monitor' = [monitor EXCEPT !.at = "waiting", !.last = trust]
    /\ UNCHANGED <<supervisorVars, main, ctx, late, clean, trust>>

Changed == trust # 0 /\ trust # monitor.last

MonitorNotes ==
    /\ Running /\ monitor.at = "waiting" /\ Changed /\ monitor.pending # trust
    /\ monitor' = [monitor EXCEPT !.pending = trust]
    /\ UNCHANGED <<supervisorVars, main, ctx, late, clean, trust>>

MonitorRestarts ==
    /\ Running /\ monitor.at = "waiting" /\ Changed /\ monitor.pending = trust
    /\ monitor' = [monitor EXCEPT !.at = "restart", !.seen = trust]
    /\ Invoke(Monitor, "restart", "collie") /\ OnlyCall
    /\ UNCHANGED <<main, ctx, late, clean, trust>>

MonitorRestarted ==
    /\ Running /\ monitor.at = "restart"
    /\ \/ /\ Has(Monitor, "succeeded")
          /\ Invoke(Monitor, "ready", "collie")
          /\ monitor' = [monitor EXCEPT !.at = "ready"]
       \/ /\ Has(Monitor, "failed")
          /\ Forget(Monitor)
          /\ monitor' = [monitor EXCEPT !.at = "waiting", !.seen = 0]
    /\ OnlyCall /\ UNCHANGED <<main, ctx, late, clean, trust>>

(* The state on disk when the restart is over is taken for the one that    *)
(* the lead has read.                                                      *)
MutantMonitorReady ==
    /\ Running /\ monitor.at = "ready"
    /\ Has(Monitor, "succeeded") \/ Has(Monitor, "failed")
    /\ monitor' = [at |-> "waiting", last |-> trust, pending |-> 0, seen |-> 0]
    /\ Forget(Monitor) /\ OnlyCall /\ UNCHANGED <<main, ctx, late, clean, trust>>

MonitorReady ==
    /\ Running /\ monitor.at = "ready"
    /\ \/ /\ Has(Monitor, "succeeded")
          /\ monitor' = [at |-> "waiting", last |-> monitor.seen,
                         pending |-> 0, seen |-> 0]
       \/ /\ Has(Monitor, "failed")
          /\ monitor' = [monitor EXCEPT !.at = "waiting", !.seen = 0]
    /\ Forget(Monitor) /\ OnlyCall /\ UNCHANGED <<main, ctx, late, clean, trust>>

MonitorEnds ==
    /\ Running /\ ctx /\ monitor.at = "waiting"
    /\ monitor' = [monitor EXCEPT !.at = "gone"]
    /\ UNCHANGED <<supervisorVars, main, ctx, late, clean, trust>>

(***************************************************************************)
(* The Pack state and those who restart the lead for it.                   *)
(***************************************************************************)
(* A sandbox joins: the lead, if it runs, writes the file.  The secrets of *)
(* a new member make for contents never seen before; a removal may bring   *)
(* earlier contents back.  The lead is reached through the gateway alone,  *)
(* and the gateway listens after main has started the monitor's goroutine; *)
(* nothing says that this has read the file before the first join comes.   *)
(* Joins during the shutdown are left out: no child will read them.        *)
Remembered ==
    {trust, loaded["collie"], monitor.last, monitor.pending, monitor.seen}

Joins ==
    /\ ~calm /\ ~ctx /\ main = "serving"
    /\ EarlyJoins \/ monitor.at # "baseline"
    /\ \E k \in Slots : Runs("collie", k)
    /\ trust' \in Versions \ Remembered
    /\ UNCHANGED <<supervisorVars, main, ctx, late, clean, monitor>>

(* PrepareEnrollment leaves the members as they are, RemoveMember does not. *)
WorkerRestarts(c) ==
    /\ ~calm /\ main \in {"serving", "draining"} /\ ~Ended(c) /\ ~Busy(c)
    /\ EarlyJoins \/ monitor.at # "baseline"
    /\ trust' \in Versions \cup {trust}
    /\ Invoke(c, "restart", "collie") /\ OnlyCall
    /\ UNCHANGED <<main, ctx, late, clean, monitor>>

WorkerReturns(c) ==
    /\ Running /\ (Has(c, "succeeded") \/ Has(c, "failed"))
    /\ Forget(c) /\ OnlyCall /\ UNCHANGED processVars

(***************************************************************************)
CallStep(c) ==
    /\ Running /\ UNCHANGED processVars
    /\ \/ Lock(c)
       \/ StopChecks(c, Ended(c))
       \/ Signals(c)
       \/ Awaits(c, Ended(c))
       \/ Starts(c, Ended(c), IF call[c].of = "collie" THEN trust ELSE 0)
       \/ Probes(c, Ended(c))
       \/ Marks(c)

(* The children and their reapers; a child outlives the manager. *)
ChildStep ==
    \E p \in Programs, k \in Slots :
        /\ UNCHANGED processVars
        /\ Dies(p, k) \/ (Running /\ Finish(p, k))

Crash ==
    \E p \in Programs, k \in Slots :
        Running /\ Crashes(p, k) /\ UNCHANGED processVars

Reaps ==
    \E p \in Programs, k \in Slots :
        Running /\ Reap(p, k) /\ UNCHANGED processVars

Settle ==
    /\ ~calm /\ calm' = TRUE
    /\ UNCHANGED <<mu, current, healthy, child, loaded, alarm, call, processVars>>

MainStep == MainReturns \/ MainWakes \/ MainDrains \/ MainCloses
            \/ CallStep(Main)

MonitorStep ==
    \/ MonitorBegins \/ MonitorNotes \/ MonitorRestarts \/ MonitorRestarted
    \/ MonitorReady \/ MonitorEnds \/ CallStep(Monitor)

WorkerStep(c) == WorkerReturns(c) \/ CallStep(c)

Next ==
    \/ MainStep \/ MonitorStep \/ ChildStep
    \/ \E c \in Workers : WorkerStep(c) \/ WorkerRestarts(c)
    \/ Reaps \/ Crash \/ Joins \/ Interrupt \/ DeadlinePasses \/ Settle

Spec == Init /\ [][Next]_vars

(* Every goroutine runs, a signalled child dies and is waited for, and     *)
(* trouble ends.  Once it has, a mutex is contended for only finitely      *)
(* often, so no more than this has to be said of who gets it.  The select  *)
(* of the monitor does not pass over a cancelled context for ever.         *)
FairSpec ==
    /\ Spec
    /\ WF_vars(MainStep) /\ WF_vars(MonitorStep) /\ WF_vars(ChildStep)
    /\ \A c \in Workers : WF_vars(WorkerStep(c))
    /\ SF_vars(MonitorEnds) /\ WF_vars(Settle)

(***************************************************************************)
(* Properties.                                                             *)
(***************************************************************************)
(* A program never runs twice: a restart has seen the old process reaped   *)
(* before it starts the next one, whoever else restarts at the same time.  *)
OneChild ==
    \A p \in Programs, j, k \in Slots : Runs(p, j) /\ Runs(p, k) => j = k

(* The manager never takes a stop it asked for itself for the death of a   *)
(* child: an error enters the channel only for a child that crashed.       *)
NoFalseAlarm ==
    [][alarm' /\ ~alarm =>
          \E p \in Programs, k \in Slots : child[p][k].is = "crashed"]_vars

(* A manager that exits without reporting that a child could not be        *)
(* stopped leaves no child behind, also when the monitor or a job was      *)
(* restarting the lead when the shutdown began.                            *)
NoOrphan ==
    ~Running /\ clean => \A p \in Programs, k \in Slots : ~Runs(p, k)

(* Told to stop, or told of the death of a child, the manager exits: its   *)
(* goroutines never wait for one another for ever.                         *)
ShutdownCompletes == ctx \/ alarm ~> ~Running

LeadStale == \E k \in Slots : child["collie"][k].is = "alive" /\ loaded["collie"] # trust

(* When the changes of the Pack state are over, a lead that keeps running  *)
(* has read the last one.                                                  *)
LeadCurrent == [](calm => <>(~Running \/ ~LeadStale))
=============================================================================
