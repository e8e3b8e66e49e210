# The cf-herdr sandbox manager in TLA+

This directory specifies the sandbox manager of this repository in TLA+, checks
it with TLC on small instances and proves its main safety results with TLAPS.
Every definition is translated from the Go code; `PROJECT.json` names, under
`map`, the lines each definition stands for.

## 1. The system

The manager is a Cloud Foundry app. It runs two child processes (Herdr and the
*lead* Collie), serves an HTTP API and web page, and creates and deletes
*sandboxes*: each is an app of its own in the space, with an identity-aware
route, that joins the lead's *Pack* of Collies.

| component | state it keeps | operations | properties that make it correct |
|---|---|---|---|
| sandbox record (`internal/model`) | phase, resume phase, desired state, GUID, flags | – | a failed record can be resumed; a deletion sticks |
| store (`internal/store/file.go`) | the records, in one JSON file replaced by rename | Create, Update, Delete, Get, List, Load | a write has an effect or none; what was reported done survives a crash |
| reconciler (`internal/reconcile`) | worker mutex, in-flight names, `enrollments`, `prepared`, `recoveryPhase` | ReconcileOne, Retry, reconcileCreate, reconcileDelete, scan, Start, Stop | nothing leaks; enrolment only of a usable sandbox; everything settles |
| CF provider (`internal/cf`) | none; the space has apps, routes, policies | Stage, DiscoverAppGUID, PrepareRoute, AllowManagerRoute, Configure, Start, AppInfo, RemoveRoute, DeleteApp, ... | never touches an app that is not the sandbox's |
| Pack manager (`internal/pack`) | invite files with expiry; the roster is the lead's | PrepareEnrollment, MemberPresent, RemoveMember | invites are current when pushed; the member goes first |
| work directory (`internal/runtime`) | a clone per sandbox, runtime overlaid, invite installed | Prepare, InstallInvite, Remove | what is pushed is complete |
| HTTP API (`internal/httpapi`) | sessions; a pool of jobs | create, delete, retry, close | handlers and worker do not undo each other |
| identity client (`internal/identity`) | none | Reachable, TriggerEnrollment | – |
| bootstrap server (`internal/bootstrap`) | a mutex; marker, token and trust store on disk | join | one join per invite; "joined" is true |
| child supervisor (`internal/supervisor`) | process and generation, `healthy`, error channel | Start, Restart, Ready, Stop, the reaper | one child at a time; no false or lost alarm |
| manager process (`cmd/manager`) | context, order of start and stop, Pack monitor | run, monitorPackState, stopAll | no child left behind; the lead reads the last Pack state; it exits when it must |
| launcher (`sandbox/start-bash.sh`) | the process it waits for | start Herdr, bootstrap server, Collie | Collie only as a member and alone on its port; a joined sandbox gets its Collie |
| web page, scripts, config | – | – | not modelled, section 7 |

How they interact. A handler writes the record and starts a job goroutine; the
job calls ReconcileOne (or Retry, which calls it). ReconcileOne drops a call
whose name is in flight, and holds one mutex while it works: one worker at a
time over all sandboxes. The worker walks the phases of the record, persisting
before and after each effect, and talks to Cloud Foundry by `cf` commands, to
the Pack by `collie` commands followed by a restart of the lead, and to the
sandbox over its identity route. A ticker scans all records and calls
ReconcileOne for each. A monitor goroutine restarts the lead when the Pack state
file changes. main waits for a signal or for an error of the server or of a
child, and stops everything in reverse order: the HTTP server, the jobs, the
worker, the lead, Herdr. Inside a sandbox the launcher starts the bootstrap
server, which runs `collie pack join` when the manager asks for it; the two
share three files and no other means to speak to each other.

What is hard here: any command fails with or without effect; the manager dies
between any two steps and keeps three maps only in memory; handlers, jobs, the
scan and the worker interleave at every store operation; names are reused after
deletion while memory is keyed by name; invites expire; a join outlives the
request that asked for it; the operator changes the space meanwhile; four
goroutines use one supervisor; the process or the machine stops in the middle of
a write; Starts, Stops and requests cross the shutdown. The 38 hazards are in `PROJECT.json`, each at its
line and with the properties that would catch it.

## 2. The modules

    Sandbox                 the record and its phases
      Environment           which faults may strike, and until when
        Store               records; writes that fail, or lie
        CloudFoundry        apps, routes, policies; the provider's commands
          Pack              roster, invites, joins
        Workspace           the work directories
          Reconciler        the worker: one action per step of its code
            Manager         handlers, retries, mutex, scan, crash, operator
              ManagerInv    the inductive invariant; the mapping to Lifecycle
              MCManager     instances for TLC
              WorkerLemmas, ManagerProofs, LifecycleProofs
                SandboxInv    the invariants of a sandbox being brought up
                  SandboxProofs
    Lifecycle               abstract: the life a sandbox is promised
    Registry                abstract: what the store promises
      StoreFile             the file below the store; implements Registry
        MCStoreFile, StoreFileProofs
    Bootstrap               the bootstrap server, the join and the lead's side
      Launcher              the launcher script around it
        MCLauncher, LauncherProofs
    Worker                  Start, Stop and the worker's goroutine
      JobPool               handlers and jobs of the API
        Shutdown            main's order of start and stop around both
          MCShutdown, ShutdownProofs
    Supervisor              a supervised child, one per program
      Process               main, the Pack monitor, worker and job
        ProcessInv          the inductive invariant
          MCProcess         instances for TLC
          ProcessProofs

Four specifications take the system apart at the places where its parts meet by
little: Manager sees the store as writes that are done, lost or doubtful
(StoreFile says why these are all), a sandbox as an app that joins or does not
(Launcher says what happens inside it), and its own worker as always there
(Shutdown). Process has the children of the manager, which the other three leave
out.

### Manager and below

| code | TLA+ |
|---|---|
| the map of records behind `store.File` | `store[n]`, `NoRecord` when absent |
| the local variables and control point of reconcileCreate / reconcileDelete | the frame `run`: `name`, `mode`, `rec` (the snapshot decisions are made on), `step`, `then`, `seen` |
| `r.prepared`, `r.recoveryPhase`, `r.enrollments` | `prepared`, `recovery`, `enroll` |
| goroutines of the API, the scanner | `Jobs`, `Scanner`: `pc`, `who`; `todo` is the list the scan took |
| worker mutex, in-flight marks | `run`, and callers past "enter" |
| apps, routes, policies of the space | `app`, `route`, `leadPolicy` |
| the Pack's roster, a join under way | `member`, `late` |
| the clone and the invite in it | `bits`, `installed` |

One action is one stretch of code without a call that another actor's step can
come between. `persist` is a step of its own, before the one it leads `then` to.
The decisions taken in modelling:

- A command and the entry for it in the record's operation log are one step. The
  entry's write touches no modelled field, so its failure is a way for the
  command to fail (`Fault("call")`).
- The first two, identical, writes of reconcileDelete are one step; the polling
  loops for app and route are one step that succeeds if the world allows it or
  gives up.
- The check and the act of Stage, RemoveRoute and DeleteApp are separate steps,
  as they are separate `cf` commands.
- A failing step takes every prefix of its effects as an outcome.
- A GUID is drawn again only when nothing refers to it; a few then suffice. A
  push that would need one more is refused, as by the quota of a space.
- Orderly shutdown of the reconciler is failing commands followed by a crash.
- The jobs of the API are unlimited in the code and `Jobs` here.

### StoreFile and Registry

| code | TLA+ |
|---|---|
| `File.sandboxes`, `File.mu` | `sandboxes`; `op`, the operation that holds the mutex, or `Free` |
| what the path names; what it may name after a loss of power | `file`; `durable` |
| the calls of writeAtomic, each of which may fail | `CreateTemp`, `Encode`, `Sync`, `Rename`, `SyncDir`; `GiveUp`, `SyncDirFails` |
| what callers were told | `promise` |

The contents of a record are one of a set `Data`. An unsynced file may be torn by a
loss of power; a rename is durable once its directory is synced. syncDirectory
ignores `EINVAL`, `ENOTSUP` and `EBADF`; a file system that answers so is taken
to make renames durable by itself, which is what the code relies on. A temporary
file left by a kill has a name nothing reads and is left out. Store's three
outcomes of a write are Registry's: done (`Done`), failed without effect (`Ask`
and no more), and failed although in effect (`Attempt`, `Doubt`).

### Bootstrap and Launcher

| code | TLA+ |
|---|---|
| requests to `/bootstrap/join`, `Server.mu` | `req[r]`, `gaveUp[r]`, `holder` |
| token, marker and trust store | `token`, `marker`, `trust` |
| the process of `collie pack join`, what the lead knows | `joiner`; `invite`, `member` |
| the place of the script | `script`; `collie` and `boot` are its children |

The join is external: the lead accepts an invite once, then the store is written,
then the process ends. `exec.CommandContext` kills it with its request at any of
these places; a bootstrap server that ends leaves it running. When the script
ends the container ends, and a new one starts from the droplet's files, the token
among them. The repository's `README.md:14` and `docs/spikes/cf-pack-identity.md:46`
say that the bootstrap server exits before Collie starts: `PortHandedOver`.

### Worker, JobPool and Shutdown

| code | TLA+ |
|---|---|
| `lifecycle`, `generation`, its two channels | `lifecycle`, `generation`, `stopped`, `worker[g] = "ended"` |
| the contexts given to Start | `owner`, `cancelled` |
| calls of Start and Stop, turn by turn under `stateMu` | `call[c]` |
| `closed`, the WaitGroup, Close's result | `closed`, `job[r]`, `drained` |
| run and stopAll | `main`, `late` |

`found` in a call is the set of generations that lived when it began: what a Stop
has to wait for. main is one caller; the others do what the reconciler's tests do
(`reconciler_test.go:987`). A Start that meets a generation whose context is
cancelled but which has not left returns without making another; the module has
this, and `StartServes` is stated so as to allow it.

### Lifecycle

`Life(n)` is read off the record, `Holds(n)` off the roster, the space and the
disk (`ManagerInv`). A step of the manager may change the life of one name and
what several hold; Lifecycle lets a record go only when it is doomed and holds
nothing, and begin only with nothing.

### Supervisor and Process

Every function of `collie.go` that takes the mutex is a call in `call[c]`, with a
place for each point at which another goroutine can run. A *generation* is a slot
of `child[p]`; a slot is freed when the supervisor lets go of its child and taken
again when no Ready refers to it. The caller's context is the parameter `ended`,
which Process defines from `ctx` (the process), `late` (the shutdown's deadline)
and the point where the API cancels its jobs. A signalled child dies (the code
ends with SIGKILL), perhaps after the stop has given up on it. `kill(2)` on a
child of one's own fails with ESRCH only, so the error branch at
`collie.go:411` is not modelled. The child reads the Pack state when it
is started. A join reaches the lead through the gateway, hence only while main
serves. Contents of that file are numbers: a join makes contents never seen
before, a removal may bring earlier ones back. The error channels of the two
supervisors, each read once and merged, are one flag `alarm`.

## 3. The runs

All runs together finish in about three minutes with two workers.

| run | question | instance | states |
|---|---|---|---|
| `failures` | commands and writes fail, strangers push apps: leaks, order of deletion, enrolment, resumption, completion, Lifecycle | 1 name, 2 GUIDs, 1 job | 291 k |
| `crashes` | the manager dies anywhere, invites expire, joins land late; creations settle | 1 name, 1 GUID, 1 job | 438 k |
| `operator` | apps are deleted and pushed from outside, writes take effect and report errors | 1 name, 2 GUIDs, 1 job | 1.71 M |
| `neighbours` | two sandboxes share mutex, marks and scan | 2 names, 2 GUIDs, 1 job | 251 k |
| `store_file` | kills, losses of power and failing calls below the store; Registry | 2 names, 2 data | 104 k |
| `launcher` | two join requests, troubles of every kind in the sandbox | 2 requests | 28 k |
| `shutdown` | Start, Stop, jobs and the manager's end | 2 callers, 2 generations, 2 requests | 284 k |
| `process` | start, monitor, job, shutdown; all faults of the children | 1 contents, 2 slots | 397 k |
| `pack_state` | the lead reads the last Pack state | 3 contents, 2 slots | 368 k |
| `early_join` | *violation*: a join the gateway forwards before the monitor's first read is lost | | |
| `double_retry` | *violation*: two retries leave an unknown phase | | |
| `stale_recovery` | *violation*: a recovery phase outlives its sandbox | | |

Properties, by what they guard against:

- **NoLeak**, **PackBeforeTeardown**, **DeletionSticks**, **DeletionCompletes**: a
  deletion leaves nothing, goes in order, is never undone by a stale write, and
  ends (or the name is held by an app not known to be the sandbox's, which the
  code refuses to touch).
- **EnrollWhenUsable**, **PushComplete**, **InviteCurrent**, **ReadyIsMember**,
  **CreationSettles**: a creation, however often resumed, asks for the join only
  when the sandbox is usable, pushes complete bits with the invite prepared last,
  and ends in `ready` or `failed`; the ready one is the member of its name.
- **GuidStable**, **OthersKept**: identities are never replaced, and apps of
  others are neither pushed over nor deleted.
- **FailedResumable**: a failed record names a phase that can be resumed. It does
  not hold when a write takes effect and reports an error: the failure may then
  be recorded with a name that was forgotten and created anew.
- **ImplementsLifecycle**: all of the manager, seen from outside, is the life of
  Lifecycle.
- **MemoryIsFile**, **NeverTorn**, **DoneSurvives**, **ImplementsRegistry**: a
  restart loads what readers saw, no crash leaves a file Load refuses, and what
  was reported done stays done.
- **CollieHasJoined**, **PortHandedOver**, **TokenConsumed**, **AnswerIsTrue**,
  **NoSecondJoin**: what is true of a sandbox although four processes decide by
  three files. **JoinedRuns**, **RequestsEnd**, **Enrols**: a joined sandbox gets its
  Collie, a request its answer, and a fresh invite its member.
- **OneGeneration**, **StopMeansStopped**, **StartServes**: one worker, waited for by
  every Stop, left by every Start. **Quiet**, **ShutdownEnds**: no job after the
  drain, and an end to the shutdown.
- **OneChild**, **NoFalseAlarm**, **NoOrphan**, **ShutdownCompletes**,
  **LeadCurrent**: see the comments in Process. **PInv** is the inductive
  invariant behind them.

Bounds. One name is enough for the safety properties because the worker handles
one sandbox at a time and every variable is indexed by name; what names share
(mutex, marks, scan) is the subject of `neighbours`, which runs without faults:
with two names and crashes the instance has more than 4.5 million states. Two
GUIDs allow an app and one that takes its place; `crashes`, where no app is
replaced, has one. One job, the scan and the worker give three actors on a
record; two overlapping jobs are in `double_retry`, and the two properties they
could break otherwise, DeletionSticks and GuidStable, are proved for any number.
Each run admits the kinds of fault its properties are about; which kinds break a
property is said at the theorem or the property. `GuidSymmetry` is used in safety
runs only. In `process` one possible contents (besides "no file") suffices, as its
properties do not look at it; `pack_state` uses three, so that a change can land
while the lead restarts for another. Two slots suffice since only one call at a
time refers to a child the supervisor has let go of. In `store_file` two names are
needed for a write of one to endanger the other, and two data for an update. In
`launcher` two requests are one that holds the mutex and one that waits. In
`shutdown` two generations are one that leaves and its successor; a generation is
not used twice, so runs end when none is left.

Faults strike only until `calm` becomes TRUE; a configuration names the kinds it
admits. `process`, `pack_state` and `shutdown` turn the deadlock check off because
an exited manager really stops; so does `launcher`, in which a sandbox that has
its Collie and a manager that asks no more have nothing left to do.

Fairness, in the liveness runs only. Weak fairness of the worker's steps, of each
caller's and of the scan: Go runs every goroutine that can run, the worker waits
for nothing but commands with timeouts, the ticker keeps ticking. Strong fairness
of taking the worker mutex: Go's `sync.Mutex` turns to starvation mode after 1 ms
and hands itself to the longest waiter. In Process one weak fairness condition
per goroutine is enough, for the mutex is contended only finitely often once
trouble ends; strong fairness is assumed of the monitor's leaving, since a
`select` does not for ever choose the ticker over a cancelled context. The same two
facts, of `sync.Mutex` and of `select`, are the strong fairness in Launcher
(`Lock`) and Shutdown (`Lock`, `JobLocks`, `Quit`); that a scan's list ends is
`ScanDone`'s. In Shutdown work under a live context is not assumed to end, for
nothing bounds a clone or a push but its context; work whose context is cancelled
is. In Launcher the script and the processes it starts go on when they can, the
invite's use and the end of a join included. Users and
operators are under no fairness: nobody has to send a request or a signal.

## 4. What the violation runs show

- `double_retry` (reconciler.go:170-186): Retry decides on a record it read
  before and writes `Phase = ResumePhase` without looking again. Two retries at
  once leave a phase no case of the reconciler handles.
- `stale_recovery` (reconciler.go:288, 512-524): `recoveryPhase` is keyed by name
  and a deletion does not clear it. A sandbox created under the name again skips
  its route, policy and environment, against the order of effects that
  `reconciler_test.go:356` expects.
- `early_join` (pack_monitor.go:15, main.go:125-130): the monitor's baseline is
  read by a goroutine that main starts just before the gateway listens. Joins
  reach the lead, which is bound to the loopback, through the gateway only, so
  none can land while the lead is started and probed; but nothing makes the
  gateway wait for the goroutine's first read. A join forwarded before it is taken
  for known, and the lead is not restarted for it. The window is the time in which
  one goroutine waits to be scheduled.

One more consequence is in the model and stated by no property. `cf push
--no-route` over an existing app takes it off its routes (`Push`). Recover
(reconciler.go:203-216), after a restart or for an expired invite, goes back
through such a push and then returns to the phase it came from, past
securing-route. `EnrollWhenUsable` holds because the probe of waiting-for-route
finds the route unmapped; but the sandbox fails there, and no retry maps the route
again.

## 5. What is proved

`ManagerProofs`, `SandboxProofs` and `LifecycleProofs` (on `WorkerLemmas`),
`ProcessProofs`, `StoreFileProofs`, `LauncherProofs` and `ShutdownProofs`, checked
by `tlapm` for every set of names, GUIDs, jobs, slots, contents, requests, callers
and generations and whatever faults are admitted:

| theorem | statement | assumes |
|---|---|---|
| `TypeCorrect` | `Spec => []TypeOK` | – |
| `IdentityStable` | `Spec => GuidStable` | – |
| `DeletionStays` | `Spec => DeletionSticks` | – |
| `PushesClone` | `Spec => []PushComplete` | – |
| `Invariance` | `Spec => []IInv` | no join outlives its request |
| `NothingLeaks` | `Spec => []NoLeak` | the same |
| `MemberGoesFirst` | `Spec => PackBeforeTeardown` | the same |
| `NeverShared` | `Spec => []IdentitiesApart` | – |
| `InviteHolds` | `Spec => []InviteCurrent` | – |
| `JoinsWhenUsable` | `Spec => []EnrollWhenUsable` | the operator deletes no app |
| `ReadyHasJoined` | `Spec => []ReadyIsMember` | no join outlives its request |
| `ForeignAppsKept` | `Spec => OthersKept` | nobody pushes an app under the name of a sandbox without a recorded GUID |
| `FailuresResumable` | `Spec /\ [][FreshRetries]_vars => []FailedResumable` | no write reported as failed takes effect |
| `Supervision` | `Spec => []PInv` | – |
| `NeverTwice` | `Spec => []OneChild` | – |
| `NobodyLeft` | `Spec => []NoOrphan` | – |
| `AlarmIsTrue` | `Spec => NoFalseAlarm` | – |
| `ManagerIsLifecycle` | `Spec => ImplementsLifecycle` | no join outlives its request |
| `FileTyped`, `RestartChangesNothing`, `FileWhole`, `DoneIsDurable` | `Spec => []TypeOK`, `[]MemoryIsFile`, `[]NeverTorn`, `[]DoneSurvives` of StoreFile | – |
| `Refinement` | `Spec => ImplementsRegistry` | – |
| `LauncherTyped`, `OnlyMembersRun`, `PortIsFree`, `NoTokenLeft` | `Spec => []TypeOK`, `[]CollieHasJoined`, `[]PortHandedOver`, `[]TokenConsumed` of Launcher | – |
| `AnswersAreTrue`, `JoinsOnce` | `Spec => AnswerIsTrue`, `Spec => NoSecondJoin` | – |
| `ShutdownTyped`, `OneWorker`, `JobsStay` | `Spec => []TypeOK`, `[]OneGeneration`, `[]Quiet` of Shutdown | – |
| `StopWaits`, `StartLeavesOne` | `Spec => StopMeansStopped`, `Spec => StartServes` | – |

Besides the named assumptions on constants (the special values are not names,
GUIDs or jobs) nothing is assumed.

The argument. `NoLeak` is about the moment a record is removed, but what makes it
true happened many steps before, so it is not inductive. `ManagerInv` adds what
the worker has achieved by its control point: `DeleteInv` says which of member,
policy, route and app are gone at which step of reconcileDelete, and that the
worker's snapshot still has the GUID the store has; `CreateInv` says the same of
reconcileCreate's snapshot where it is written back. `Base` (types, `FrameOK`,
`CallersOK`, `CreateInv`) is inductive under all faults and gives the first three
theorems. `Safe` (`NoLateJoin`, `DeleteInv`, `NoLeak`) is inductive when
`"lateJoin"` is not admitted; with `TaskInv` and `CloneInv` below they are `IInv`.
That hypothesis is needed, since a join that lands after the roster was read leaks a
member. The steps are not expanded all at once:
`WorkerLemmas` states what each store write, provider command and Pack operation
can change, and that each step either moves the control point along or enters a
phase; `ManagerProofs` has one lemma per action.

`PushComplete` is the other property that is decided long before it matters: when
the bits are pushed, possibly after failures, restarts and retries,
`ensurePrepared` has gone by a revision in the record and a directory that exists.
`CloneInv` carries the reason over. A sandbox that is to exist and whose record is
in, or would be resumed in, a phase between the clone and the removal of the
directory has a complete clone (`RecordsCloned`); a worker that goes by such a
phase has it too, and one about to remove the directory finds the record past
those phases (`WorkerCloned`); and the steps that touch the directory belong to
one phase each (`StepInv`). That an operator's retry cannot break it rests on
resumePhase being one of the phases the invariant watches, and that a deletion
cannot is `TaskInv`: a creation may still be at work when its record is doomed, but
the deletion's cleanup runs in delete mode only, for a record no longer wanted.
This needs no hypothesis on the faults.

`SandboxProofs` is about creations. Its theorems rest on `Ground`: `Base`,
`TaskInv` and `CloneInv` from above, and `SnapInv`, that each effect belongs to one
phase and that the snapshot a worker goes by is what the record says, except that
the record may be doomed meanwhile or, after a retry that came too late, name no
phase. `Ground` is inductive under all faults. From it `SandboxProofs` derives once
what a step can do to a record (`NextWrites`), to the phases a sandbox is in or
would be resumed in (`LiveMoves`), and to the space and the roster (`NextApps`,
`NextRoutes`, `NextMembers`). Each property then has an invariant of its own, in
`SandboxInv`, by phase:

- `InviteInv`: from discovering-app to triggering-enrollment, in any phase the
  sandbox is in, would be resumed in or is worked on in, its own app, if there is
  one, carries the invite prepared last; the turns into these phases are made after
  a push of a directory with that invite. A new invite outdates the copies of the
  old one, which is why Recover has to go back through staging.
- `UsableInv`: by phase, that the recorded app is there, the lead admitted, and
  in triggering-enrollment, the route whole and the app running, as the probe
  has found them; and, by control point, the same of what an effect of this phase
  has achieved but not yet written down. That a route once secured stays whole is
  no part of it: a push over the app unmaps it. It needs `IdentitiesApart`,
  since a deletion elsewhere revokes a policy and removes an app by GUID, and it
  fails when an app may be deleted from outside between the probe and the request.
- `MemberInv`: from triggering-enrollment on a member of the name is the recorded
  app; Claim, the one step that records an identity, is taken before anything
  joined. A deletion may meet a creation half way, so this too is said of the
  snapshot as well as of the record. A join that outlives its request can land for
  the predecessor of the sandbox, hence the hypothesis.
- `OwnedInv`: no app the manager does not own has the GUID of a record or of the
  snapshot, and the steps before a push or a deletion have established that the
  app under the name is its own. Discover takes whatever app has the name while no
  GUID is recorded: with an operator who pushes one just then, it takes that.
- `ResumeInv`: the record, the worker's snapshot and what fail is about to store
  are phases reconcileCreate knows, unless the sandbox is doomed. `FreshRetries`
  says that a retry which writes finds the sandbox failed; `double_retry` shows
  that Retry does not ensure it, and that the property fails without it. The
  second hypothesis excludes, among others, a write of `ready` that is reported as
  failed, after which fail would store `ready` as the phase to resume in.

The hypotheses on faults are those under which TLC checks the same properties
(`failures`, `crashes`, `operator`), or weaker.

For Process the invariant is `PInv`. `OneChild` needs to know which child a
supervisor keeps and who holds its mutex (`ChildrenOK`, `LocksOK`);
`NoFalseAlarm` needs `MarkedOK`, that a child is signalled only once its exit is
marked as expected, which the reaper must not undo in between; `NoOrphan` is about
the end and needs `GoneOK`, which program is known not to run by how far main has
come, and `AloneOK`, that nobody can start one behind main's back: before it
serves main is alone, and later the contexts of the others have ended.
`ProcessProofs` first reduces the steps of a call to seven effects on mutex, child
and call (enter, look, mark, signal, gone, new, fail), shows each part of `PInv`
kept by each effect, and then treats the remaining steps one by one.

The two refinements. For Registry a step of StoreFile is a step or a stutter with
`Value` the map in memory, or the file while the manager is down, and `Possible`
the decoded `durable`; the invariant `StoreFileProofs` needs besides typing is how
`file`, `durable` and `op` agree at each step of a write. For Lifecycle the step
that matters is the removal of a record, which needs `IInv` for what the sandbox
holds and `TaskInv`, that a worker in delete mode works on a doomed sandbox; that
a doom is final is `DeletionStays` over again, for the whole of a step. Both hold
for every name at once because a step of Lifecycle moves all names.

For Launcher the invariant ties the join process to the files and the roster
(`JoinAgrees`), requests to the mutex (`LockAgrees`, `RequestAgrees`) and the place
of the script to all of these (`FilesAgree`, `ScriptAgrees`). For Shutdown it says
which generation `lifecycle` names, what a call in `await` or `join` waits for, and
that `drained` finds no job because `closed` admits none.

Model-checked only: the liveness properties, which are out of reach of the prover
(DeletionCompletes and CreationSettles for Manager, ShutdownCompletes and
LeadCurrent for Process, JoinedRuns, RequestsEnd and Enrols for Launcher,
ShutdownEnds for Shutdown). Every safety property of a passing run is also a
theorem.

## 6. The plan

Done, in this order: Sandbox to Manager, with runs and theorems; Supervisor and
Process; StoreFile under Registry; Bootstrap and Launcher; Worker, JobPool and
Shutdown; Lifecycle and the proof that Manager implements it; the theorems about a
sandbox that is being brought up. Left:

1. The handle of an invite (`internal/pack/manager.go:49-96`): its timer and its
   Cleanup meet under a lock of their own, and a crash leaves the file behind.
2. Launcher under Manager: that a sandbox the manager calls ready has a Collie
   that runs. It need not, when a request that was given up kills its join
   between the lead's acceptance and the trust store.

## 7. Not modelled, and why

- Parsing of `cf` and `collie` output, redaction, validation of input, rendering
  of manifests: functions without state, tested by the unit tests.
- Sessions, login, cross-origin checks, reverse proxying, the web page: no state
  the reconciler depends on.
- The operation log of a record: no decision is taken on it.
- The launcher's checks of its environment and the shell files it writes; a launch
  without a join token, which starts Collie at once.
- The reason a command failed: a creation that is cut off by an orderly shutdown is
  marked failed, one that is cut off by a crash is resumed, and in Manager the
  first is a failing command followed by a crash.
- Configuration, directory and command-line checks before the manager starts.
- Build and deployment scripts.
- A sandbox refused because of its own app after an interrupted staging, and the
  stale `healthy` flag of a supervisor after an exit and a restart, are in the
  models (StageRefused; StopChecks and Starts), but no property states them: the
  first is listed with the hazards, the second is read by nothing in the manager.
