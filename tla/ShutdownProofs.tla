--------------------------- MODULE ShutdownProofs ---------------------------
(***************************************************************************)
(* Proofs about Shutdown, for any callers, generations and requests.       *)
(***************************************************************************)
EXTENDS Shutdown, TLAPS

(* The worker's own variables fit together. *)
WorkerAgrees ==
    /\ lifecycle = "stopped" <=> generation = NoGeneration
    /\ \A g \in stopped : worker[g] # "none"

(* A call of Start holds a generation of its own that nobody has made; one *)
(* of Stop remembers only generations that were made, and of these only    *)
(* the one it waits for may still live.                                    *)
StartAgrees ==
    /\ \A c \in Callers : call[c].at \in {"start", "await"} =>
          /\ call[c].new \in Generations /\ worker[call[c].new] = "none"
          /\ call[c].found = {}
    /\ \A c, d \in Callers :
          call[c].at \in {"start", "await"} /\ call[d].at \in {"start", "await"} /\ c # d
          => call[c].new # call[d].new

StopAgrees ==
    \A c \in Callers :
        /\ \A g \in call[c].found : worker[g] # "none"
        /\ call[c].at = "join" =>
              /\ call[c].on \in Generations
              /\ \A g \in call[c].found : g = call[c].on \/ worker[g] = "ended"

WorkerInv ==
    WorkerTyped /\ OneGeneration /\ WorkerAgrees /\ StartAgrees /\ StopAgrees

(* In the first state nothing runs. *)
LEMMA WorkerBegins == WorkerInit => WorkerInv
<1> SUFFICES ASSUME WorkerInit PROVE WorkerInv
  OBVIOUS
<1>1. \A c \in Callers : call[c] = Idle
  BY DEF WorkerInit
<1>2. call \in [Callers -> {Idle}]
  BY DEF WorkerInit
<1>3. WorkerTyped
  BY <1>2 DEF WorkerInit, WorkerTyped, Idle, Calling
<1>4. OneGeneration /\ WorkerAgrees
  BY WorkerAssumption
     DEF WorkerInit, OneGeneration, WorkerAgrees, Living, Alive
<1>5. StartAgrees /\ StopAgrees
  BY <1>1 DEF StartAgrees, StopAgrees, Idle, Calling
<1> QED BY <1>3, <1>4, <1>5 DEF WorkerInv

(* A call of Start or Stop begins. *)
LEMMA Begins ==
    ASSUME WorkerInv, NEW c \in Callers, CallStart(c) \/ CallStop(c)
    PROVE  WorkerInv'
<1> USE WorkerAssumption
    DEF WorkerInv, WorkerTyped, OneGeneration, WorkerAgrees, Calling, Living, Alive, Steps,
        states
<1>1. CASE CallStart(c)
  <2>1. PICK g \in Fresh : call' = [call EXCEPT ![c] = Calling("start", NoGeneration, g, {})]
    BY <1>1 DEF CallStart
  <2>2. WorkerTyped' /\ OneGeneration' /\ WorkerAgrees'
    BY <1>1, <2>1 DEF CallStart, Fresh
  <2>3. StartAgrees'
    BY <1>1, <2>1 DEF CallStart, Fresh, StartAgrees
  <2>4. StopAgrees'
    BY <1>1, <2>1 DEF CallStart, Fresh, StopAgrees
  <2> QED BY <2>2, <2>3, <2>4
<1>2. CASE CallStop(c)
  <2>1. WorkerTyped' /\ OneGeneration' /\ WorkerAgrees'
    BY <1>2 DEF CallStop
  <2>2. StartAgrees'
    BY <1>2 DEF CallStop, StartAgrees
  <2>3. StopAgrees'
    BY <1>2 DEF CallStop, StopAgrees
  <2> QED BY <2>1, <2>2, <2>3
<1> QED BY <1>1, <1>2

(* A call goes on or returns without touching the worker. *)
LEMMA Waits ==
    ASSUME WorkerInv, NEW c \in Callers,
           \/ Found(c) \/ AwaitStopping(c) \/ TryAgain(c)
           \/ NothingToStop(c) \/ JoinStop(c) \/ Joined(c)
    PROVE  WorkerInv'
<1> USE WorkerAssumption
    DEF WorkerInv, WorkerTyped, OneGeneration, WorkerAgrees, Calling, Idle, Living, Alive,
        Steps, states
<1>1. CASE Found(c) \/ NothingToStop(c) \/ Joined(c)
  <2>1. call' = [call EXCEPT ![c] = Idle] /\ UNCHANGED <<states, stopped, cancelled>>
    BY <1>1 DEF Found, NothingToStop, Joined
  <2>2. WorkerTyped' /\ OneGeneration' /\ WorkerAgrees'
    BY <2>1
  <2>3. StartAgrees' /\ StopAgrees'
    BY <2>1 DEF StartAgrees, StopAgrees
  <2> QED BY <2>2, <2>3
<1>2. CASE AwaitStopping(c)
  <2>1. WorkerTyped' /\ OneGeneration' /\ WorkerAgrees'
    BY <1>2 DEF AwaitStopping
  <2>2. StartAgrees'
    BY <1>2 DEF AwaitStopping, StartAgrees
  <2>3. StopAgrees'
    BY <1>2 DEF AwaitStopping, StopAgrees
  <2> QED BY <2>1, <2>2, <2>3
<1>3. CASE TryAgain(c)
  <2>1. WorkerTyped' /\ OneGeneration' /\ WorkerAgrees'
    BY <1>3 DEF TryAgain
  <2>2. StartAgrees'
    BY <1>3 DEF TryAgain, StartAgrees
  <2>3. StopAgrees'
    BY <1>3 DEF TryAgain, StopAgrees
  <2> QED BY <2>1, <2>2, <2>3
<1>4. CASE JoinStop(c)
  <2>1. generation \in Generations
    BY <1>4 DEF JoinStop
  <2>2. call' = [call EXCEPT ![c] = Calling("join", generation, NoGeneration, call[c].found)]
    BY <1>4 DEF JoinStop
  <2>3. WorkerTyped' /\ OneGeneration' /\ WorkerAgrees'
    BY <1>4, <2>1, <2>2 DEF JoinStop
  <2>4. StartAgrees'
    BY <1>4, <2>1, <2>2 DEF JoinStop, StartAgrees
  <2>5. StopAgrees'
    BY <1>4, <2>1, <2>2 DEF JoinStop, StopAgrees
  <2> QED BY <2>3, <2>4, <2>5
<1> QED BY <1>1, <1>2, <1>3, <1>4

(* Start makes a generation: none lives, and this one is new. *)
LEMMA Makes ==
    ASSUME WorkerInv, NEW c \in Callers, Make(c)
    PROVE  WorkerInv'
<1> USE WorkerAssumption
    DEF WorkerInv, WorkerTyped, OneGeneration, WorkerAgrees, Calling, Idle, Living, Alive,
        Steps
<1> DEFINE g == call[c].new
<1>1. g \in Generations /\ worker[g] = "none" /\ g \notin stopped
  BY DEF Make, StartAgrees
<1>2. /\ worker' = [worker EXCEPT ![g] = "scan"] /\ lifecycle' = "running"
      /\ generation' = g /\ call' = [call EXCEPT ![c] = Idle]
      /\ UNCHANGED <<stopped, cancelled>> /\ owner' = [owner EXCEPT ![g] = c]
  BY DEF Make
<1>3. \A h \in Generations : h # g => worker'[h] = worker[h] /\ worker[h] \notin Alive
  BY <1>1, <1>2 DEF Make
<1> HIDE DEF g
<1>4. WorkerTyped'
  BY <1>1, <1>2
<1>5. OneGeneration' /\ WorkerAgrees'
  BY <1>1, <1>2, <1>3
<1>6. StartAgrees'
  <2>1. \A d \in Callers : d # c /\ call[d].at \in {"start", "await"} => call[d].new # g
    BY DEF StartAgrees, Make, g
  <2> QED BY <1>1, <1>2, <1>3, <2>1 DEF StartAgrees
<1>7. StopAgrees'
  BY <1>1, <1>2, <1>3 DEF StopAgrees
<1> QED BY <1>4, <1>5, <1>6, <1>7

(* Stop closes the channel of the generation that lives. *)
LEMMA Closes ==
    ASSUME WorkerInv, NEW c \in Callers, CloseStop(c)
    PROVE  WorkerInv'
<1> USE WorkerAssumption
    DEF WorkerInv, WorkerTyped, OneGeneration, WorkerAgrees, Calling, Living, Alive, Steps
<1>1. generation \in Generations /\ worker[generation] \in Alive
  BY DEF CloseStop
<1>2. /\ call' = [call EXCEPT ![c] = Calling("join", generation, NoGeneration, call[c].found)]
      /\ UNCHANGED <<generation, worker, owner, cancelled>>
      /\ lifecycle' = "stopping" /\ stopped' = stopped \cup {generation}
  BY DEF CloseStop
<1>3. WorkerTyped'
  BY <1>1, <1>2
<1>4. OneGeneration' /\ WorkerAgrees'
  BY <1>1, <1>2 DEF CloseStop
<1>5. StartAgrees'
  BY <1>1, <1>2 DEF StartAgrees
<1>6. StopAgrees'
  <2>1. call[c].at = "stop" /\ \A g \in call[c].found : worker[g] # "none"
    BY DEF CloseStop, StopAgrees
  <2>2. \A g \in call[c].found : g = generation \/ worker[g] = "ended"
    BY <2>1, <1>1
  <2> QED BY <1>1, <1>2, <2>1, <2>2 DEF StopAgrees
<1> QED BY <1>3, <1>4, <1>5, <1>6

(* The goroutine and its context. *)
LEMMA Works ==
    ASSUME WorkerInv, NEW g \in Generations, WorkerGoes(g) \/ Cancel(g)
    PROVE  WorkerInv'
<1> USE WorkerAssumption
    DEF WorkerInv, WorkerTyped, OneGeneration, WorkerAgrees, Living, Alive
<1>1. CASE Cancel(g)
  BY <1>1 DEF Cancel, states, StartAgrees, StopAgrees
<1>2. CASE Leave(g)
  <2>1. /\ worker[g] = "leave" /\ worker' = [worker EXCEPT ![g] = "ended"]
        /\ lifecycle' = "stopped" /\ generation' = NoGeneration
        /\ UNCHANGED <<owner, stopped, cancelled, call>>
    BY <1>2 DEF Leave, Goes
  <2>2. WorkerTyped' /\ OneGeneration' /\ WorkerAgrees'
    BY <2>1
  <2>3. StartAgrees' /\ StopAgrees'
    BY <2>1 DEF StartAgrees, StopAgrees
  <2> QED BY <2>2, <2>3
<1>3. CASE ScanNext(g) \/ ScanDone(g) \/ Lock(g) \/ Unlock(g) \/ Tick(g) \/ Quit(g)
  <2>1. PICK to \in Alive : worker' = [worker EXCEPT ![g] = to]
    BY <1>3 DEF ScanNext, ScanDone, Lock, Unlock, Tick, Quit, Goes
  <2>2. worker[g] \in Alive /\ Keeps
    BY <1>3 DEF ScanNext, ScanDone, Lock, Unlock, Tick, Quit, Goes
  <2>3. WorkerTyped'
    BY <2>1, <2>2 DEF Keeps
  <2>4. OneGeneration' /\ WorkerAgrees'
    BY <2>1, <2>2 DEF Keeps
  <2>5. StartAgrees' /\ StopAgrees'
    BY <2>1, <2>2 DEF Keeps, StartAgrees, StopAgrees
  <2> QED BY <2>3, <2>4, <2>5
<1> QED BY <1>1, <1>2, <1>3 DEF WorkerGoes

-----------------------------------------------------------------------------
(* The API is closed before it is waited for, and stays closed. *)
JobsAgree ==
    /\ main \in {"drain", "stop", "stopping", "ended"} => closed
    /\ drained => closed

(* Main's variables and the jobs', which the worker leaves alone.          *)
MainInv ==
    /\ JobsTyped /\ JobsAgree /\ Quiet
    /\ mutex \in Generations \cup Requests \cup {Free}
    /\ main \in {"start", "starting", "serve", "http", "close", "drain", "stop",
                 "stopping", "ended"}
    /\ late \in BOOLEAN

ShutdownInv == WorkerInv /\ MainInv

(* In the first state no job is there. *)
LEMMA InitInv == Init => ShutdownInv
<1>1. Init => MainInv
  BY DEF Init, JobInit, WorkerInit, MainInv, JobsTyped, JobsAgree, Quiet, Active, Handling
<1> QED BY <1>1, WorkerBegins DEF ShutdownInv, Init

(* A step of a request: at most the mutex is the worker's. *)
LEMMA Serves ==
    ASSUME ShutdownInv, NEW r \in Requests, Request(r) \/ HandlerGoes(r) \/ JobGoes(r),
           OnlyJobs, UNCHANGED <<main, late>>
    PROVE  ShutdownInv'
<1>1. WorkerInv'
  BY DEF ShutdownInv, OnlyJobs, states, WorkerInv, WorkerTyped, OneGeneration, WorkerAgrees,
                StartAgrees, StopAgrees, Living, Alive
<1>2. MainInv'
  BY DEF ShutdownInv, MainInv, JobsTyped, JobsAgree, Quiet, Handling, Active, Request, HandlerGoes,
                JobGoes, Accepts, Enqueue, JobDropped, JobLocks, JobEnds, Moves, PoolKeeps
<1> QED BY <1>1, <1>2 DEF ShutdownInv

(* A step of the worker or of a call. *)
LEMMA Labours ==
    ASSUME ShutdownInv, OnlyWorker,
           \/ \E c \in Callers : CallGoes(c) \/ OthersCall(c)
           \/ \E g \in Generations : WorkerGoes(g) \/ OthersCancel(g)
    PROVE  ShutdownInv'
<1>1. WorkerInv'
  BY Begins, Waits, Makes, Closes, Works DEF ShutdownInv, CallGoes, OthersCall, OthersCancel
<1>2. mutex' \in Generations \cup Requests \cup {Free}
  <2>1. ASSUME NEW c \in Callers, CallGoes(c) \/ OthersCall(c) PROVE UNCHANGED mutex
    BY <2>1 DEF CallGoes, OthersCall, CallStart, CallStop, Found, AwaitStopping, TryAgain,
                Make, NothingToStop, CloseStop, JoinStop, Joined
  <2>2. ASSUME NEW g \in Generations, WorkerGoes(g) \/ OthersCancel(g)
        PROVE  mutex' \in {mutex, g, Free}
    BY <2>2 DEF WorkerGoes, OthersCancel, Cancel, ScanNext, ScanDone, Lock, Unlock, Tick,
                Quit, Leave
  <2> QED BY <2>1, <2>2 DEF ShutdownInv, MainInv
<1>3. MainInv'
  BY <1>2 DEF ShutdownInv, MainInv, OnlyWorker, jobVars, JobsTyped, JobsAgree, Quiet
<1> QED BY <1>1, <1>3 DEF ShutdownInv

(* The steps of main. *)
LEMMA Mains ==
    ASSUME ShutdownInv, MainGoes \/ Interrupt \/ DeadlinePasses
    PROVE  ShutdownInv'
<1> USE DEF MainInv, JobsTyped, JobsAgree, Quiet, MainTo, jobVars
<1>1. ASSUME CallStart(Main) \/ CallStop(Main) PROVE WorkerInv' /\ UNCHANGED mutex
  BY <1>1, Begins, MainAssumption DEF ShutdownInv, CallStart, CallStop
<1>2. ASSUME UNCHANGED <<lifecycle, generation, worker, stopped, owner, call>>,
             cancelled' \subseteq Generations
      PROVE  WorkerInv'
  BY <1>2 DEF ShutdownInv, WorkerInv, WorkerTyped, OneGeneration, WorkerAgrees, StartAgrees,
                      StopAgrees, Living
<1>3. cancelled \subseteq Generations
  BY DEF ShutdownInv, WorkerInv, WorkerTyped
<1>4. CASE MainStarts
  BY <1>1, <1>4 DEF ShutdownInv, MainStarts
<1>5. CASE MainStops
  BY <1>1, <1>5 DEF ShutdownInv, MainStops
<1>6. CASE MainServes \/ HttpDown \/ MainEnds \/ DeadlinePasses
  <2>1. UNCHANGED <<workerVars, jobVars>>
    BY <1>6 DEF MainServes, HttpDown, MainEnds, DeadlinePasses
  <2>2. WorkerInv'
    BY <2>1, <1>2, <1>3 DEF workerVars
  <2>3. MainInv'
    BY <1>6, <2>1 DEF ShutdownInv, MainServes, HttpDown, MainEnds, DeadlinePasses, workerVars
  <2> QED BY <2>2, <2>3 DEF ShutdownInv
<1>7. CASE ApiCloses \/ ApiDrained
  <2>1. WorkerInv'
    BY <1>7, <1>2, <1>3 DEF ApiCloses, ApiDrained, OnlyJobs, states
  <2>2. CASE ApiCloses
    BY <2>1, <2>2 DEF ShutdownInv, ApiCloses, Close
  <2>3. CASE ApiDrained
    BY <2>1, <2>3 DEF ShutdownInv, ApiDrained, Drained
  <2> QED BY <1>7, <2>2, <2>3
<1>8. CASE ApiLate
  <2>1. WorkerInv'
    BY <1>8, <1>2, <1>3 DEF ApiLate, workerVars
  <2>2. MainInv'
    BY <1>8 DEF ShutdownInv, ApiLate, workerVars
  <2> QED BY <2>1, <2>2 DEF ShutdownInv
<1>9. CASE Interrupt
  <2>1. WorkerInv'
    BY <1>9, <1>2, <1>3 DEF Interrupt, states, Living
  <2>2. MainInv'
    BY <1>9 DEF ShutdownInv, Interrupt
  <2> QED BY <2>1, <2>2 DEF ShutdownInv
<1> QED BY <1>4, <1>5, <1>6, <1>7, <1>8, <1>9 DEF MainGoes

(* The invariant is inductive. *)
LEMMA StepInv == ShutdownInv /\ [Next]_vars => ShutdownInv'
<1> SUFFICES ASSUME ShutdownInv, [Next]_vars PROVE ShutdownInv'
  OBVIOUS
<1>1. CASE UNCHANGED vars
  BY <1>1 DEF vars, workerVars, jobVars, ShutdownInv, MainInv, WorkerInv, WorkerTyped,
              JobsTyped, OneGeneration, WorkerAgrees, StartAgrees, StopAgrees, JobsAgree,
              Quiet, Living
<1>2. CASE Next
  BY <1>2, Serves, Labours, Mains DEF Next
<1> QED BY <1>1, <1>2

(* The invariant holds throughout. *)
LEMMA Invariance == Spec => []ShutdownInv
  BY InitInv, StepInv, PTL DEF Spec

(* The variables keep their types. *)
THEOREM ShutdownTyped == Spec => []TypeOK
<1>1. ShutdownInv => TypeOK BY DEF ShutdownInv, MainInv, WorkerInv, TypeOK
<1> QED BY <1>1, Invariance, PTL

(* There is one worker at most, lifecycle and generation name it, and its  *)
(* stop channel is closed once (reconciler.go:734-799).                    *)
THEOREM OneWorker == Spec => []OneGeneration
<1>1. ShutdownInv => OneGeneration BY DEF ShutdownInv, WorkerInv
<1> QED BY <1>1, Invariance, PTL

(* After a Close that returned nil the API has no job at work              *)
(* (server.go:253-268).                                                    *)
THEOREM JobsStay == Spec => []Quiet
<1>1. ShutdownInv => Quiet BY DEF ShutdownInv, MainInv
<1> QED BY <1>1, Invariance, PTL

-----------------------------------------------------------------------------
(* A call that was under way and is over was at one of four steps. *)
LEMMA Returns ==
    ASSUME ShutdownInv, Next, NEW c \in Callers, call[c] # Idle, call'[c] = Idle
    PROVE  Found(c) \/ Make(c) \/ NothingToStop(c) \/ Joined(c)
<1> USE DEF ShutdownInv, WorkerInv, WorkerTyped, Steps, Calling, Idle
<1>1. ASSUME NEW d \in Callers, CallStart(d) \/ CallStop(d) PROVE FALSE
  BY <1>1 DEF CallStart, CallStop
<1>2. ASSUME NEW d \in Callers, CallGoes(d)
      PROVE  Found(c) \/ Make(c) \/ NothingToStop(c) \/ Joined(c)
  <2>1. \A e \in Callers \ {d} : call'[e] = call[e]
    BY <1>2 DEF CallGoes, Found, AwaitStopping, TryAgain, Make, NothingToStop, CloseStop,
                JoinStop, Joined
  <2>2. c = d
    BY <2>1
  <2>3. ~(AwaitStopping(d) \/ TryAgain(d) \/ CloseStop(d) \/ JoinStop(d))
    BY <2>2 DEF AwaitStopping, TryAgain, CloseStop, JoinStop
  <2> QED BY <1>2, <2>2, <2>3 DEF CallGoes
<1>3. ASSUME UNCHANGED call PROVE FALSE
  BY <1>3
<1>4. CASE MainGoes \/ Interrupt \/ DeadlinePasses
  BY <1>1, <1>3, <1>4, MainAssumption
     DEF MainGoes, MainStarts, MainServes, HttpDown, ApiCloses, ApiDrained, ApiLate,
         MainStops, MainEnds, Interrupt, DeadlinePasses, OnlyJobs, workerVars
<1>5. ASSUME NEW g \in Generations, WorkerGoes(g) \/ OthersCancel(g) PROVE FALSE
  BY <1>3, <1>5 DEF WorkerGoes, OthersCancel, Cancel, ScanNext, ScanDone, Lock, Unlock, Tick,
                    Quit, Leave, Keeps
<1>6. ASSUME OnlyJobs PROVE FALSE
  BY <1>3, <1>6 DEF OnlyJobs
<1> QED BY <1>1, <1>2, <1>4, <1>5, <1>6 DEF Next, OthersCall

(* Whoever calls Stop, and whatever made the worker leave, it has ended    *)
(* when Stop returns (reconciler.go:781-794).                              *)
THEOREM StopWaits == Spec => StopMeansStopped
<1>1. ASSUME ShutdownInv, Next, NEW c \in Callers, call[c] # Idle, call'[c] = Idle,
             NEW g \in call[c].found
      PROVE  worker[g] = "ended"
  <2> USE <1>1 DEF ShutdownInv, WorkerInv, WorkerTyped
  <2>1. g \in Generations /\ worker[g] # "none"
    BY DEF StopAgrees
  <2>2. CASE Found(c) \/ Make(c)
    BY <2>2 DEF Found, Make, StartAgrees
  <2>3. CASE NothingToStop(c)
    BY <2>1, <2>3 DEF NothingToStop, OneGeneration, Living
  <2>4. CASE Joined(c)
    BY <2>4 DEF Joined, StopAgrees
  <2> QED BY <1>1, <2>2, <2>3, <2>4, Returns
<1>2. ShutdownInv /\ [Next]_vars
      => [\A c \in Callers : call[c] # Idle /\ call'[c] = Idle =>
             \A g \in call[c].found : worker[g] = "ended"]_vars
  BY <1>1
<1> QED BY <1>2, Invariance, PTL DEF Spec, StopMeansStopped

(* When Start returns there is a worker nobody has told to stop            *)
(* (reconciler.go:734-779).                                                *)
THEOREM StartLeavesOne == Spec => StartServes
<1>1. ASSUME ShutdownInv, Next, NEW c \in Callers, call[c].at = "start", call'[c] = Idle
      PROVE  generation' \in Generations \ stopped' /\ worker'[generation'] \in Alive
  <2> USE <1>1 DEF ShutdownInv, WorkerInv, WorkerTyped
  <2>1. Found(c) \/ Make(c)
    <3>1. call[c] # Idle
      BY <1>1 DEF Idle, Calling
    <3> QED BY <1>1, <3>1, Returns DEF NothingToStop, Joined
  <2>2. CASE Found(c)
    BY <2>2, WorkerAssumption DEF Found, states, OneGeneration, WorkerAgrees, Living
  <2>3. CASE Make(c)
    BY <1>1, <2>3 DEF Make, StartAgrees, WorkerAgrees, Alive
  <2> QED BY <2>1, <2>2, <2>3
<1>2. ShutdownInv /\ [Next]_vars
      => [\A c \in Callers : call[c].at = "start" /\ call'[c] = Idle =>
          generation' \in Generations \ stopped' /\ worker'[generation'] \in Alive]_vars
  BY <1>1
<1> QED BY <1>2, Invariance, PTL DEF Spec, StartServes
=============================================================================
