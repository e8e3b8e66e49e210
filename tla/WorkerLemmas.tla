---------------------------- MODULE WorkerLemmas ----------------------------
(***************************************************************************)
(* Lemmas about the model's operators.  First, what the operations of each *)
(* component preserve: its types, and everything that belongs to another   *)
(* sandbox; where the worker's control operators lead; and then what each  *)
(* step of the worker does: the types it keeps, where it leads, and what   *)
(* it leaves of the world.  ManagerProofs and SandboxProofs carry the      *)
(* invariants over these effects.                                          *)
(***************************************************************************)
EXTENDS ManagerInv, TLAPS

(* A step leaves what belongs to the sandboxes other than n alone. *)
StoreOthers(n) == \A m \in Names \ {n} : store'[m] = store[m]
CFOthers(n) ==
    \A m \in Names \ {n} : app'[m] = app[m] /\ route'[m] = route[m]
PackOthers(n) == \A m \in Names \ {n} : member'[m] = member[m]
WorkOthers(n) == \A m \in Names \ {n} : bits'[m] = bits[m]

(* No deletion is taken back. *)
KeepsDeletion(new, old) == old.desired = "deleted" => new.desired = "deleted"

(* No record is lost, no identity forgotten or replaced and no deletion    *)
(* taken back.                                                             *)
Follows(new, old) == new.appGUID = old.appGUID /\ KeepsDeletion(new, old)
KeepsIds ==
    \A n \in Names : Exists(n) => Exists(n)' /\ Follows(store'[n], store[n])

-----------------------------------------------------------------------------
(* The store (internal/store/file.go). *)

(* An existing entry of the store is a record. *)
LEMMA StoredIsRecord ==
    ASSUME StoreTypeOK, NEW n \in Names, Exists(n)
    PROVE  store[n] \in Record
  BY DEF StoreTypeOK, Exists

(* Creating a record keeps the store well typed and every other record. *)
LEMMA CreateEffect ==
    ASSUME StoreTypeOK, NEW n \in Names, NEW ok \in BOOLEAN, CreateRecord(n, ok)
    PROVE  StoreTypeOK' /\ StoreOthers(n) /\ KeepsIds
<1>1. NewRecord \in Record
  BY DEF NewRecord, Record, Phases, CreatePhases, PreparePhases, MaybeGuid
<1>2. QED
  BY <1>1 DEF StoreTypeOK, CreateRecord, Commit, Exists, StoreOthers, KeepsIds,
             Follows, KeepsDeletion

(* Updating one keeps the store well typed, and the identities if the new  *)
(* record has the old one's.                                               *)
LEMMA UpdateEffect ==
    ASSUME StoreTypeOK, NEW n \in Names, NEW rec, NEW ok \in BOOLEAN,
           Exists(n) => rec \in Record,
           UpdateRecord(n, rec, ok)
    PROVE  /\ StoreTypeOK' /\ StoreOthers(n)
           /\ \A m \in Names : Exists(m) <=> Exists(m)'
           /\ ok => Exists(n)
           /\ (Exists(n) => Follows(rec, store[n])) => KeepsIds
  BY IdentityAssumption
     DEF StoreTypeOK, UpdateRecord, Commit, Exists, StoreOthers, KeepsIds,
         Follows, KeepsDeletion

(* Deleting one keeps the store well typed and every other record. *)
LEMMA DeleteEffect ==
    ASSUME StoreTypeOK, NEW n \in Names, NEW ok \in BOOLEAN, DeleteRecord(n, ok)
    PROVE  StoreTypeOK' /\ StoreOthers(n)
  BY DEF StoreTypeOK, DeleteRecord, Commit, Exists, StoreOthers

-----------------------------------------------------------------------------
(* Cloud Foundry (internal/cf/provider.go). *)

(* A push, whole or in part, stays within the types and the app's name. *)
LEMMA PushEffect ==
    ASSUME CFTypeOK, NEW n \in Names, NEW fresh \in SUBSET Guids,
           NEW tok \in BOOLEAN, NEW ok \in BOOLEAN, Push(n, fresh, tok, ok)
    PROVE  CFTypeOK' /\ CFOthers(n) /\ leadPolicy' = leadPolicy
<1> DEFINE New(g, t) == [guid |-> g, owner |-> "manager", token |-> t,
                         configured |-> FALSE, started |-> FALSE]
<1>1. /\ route' \in [Names -> SUBSET WholeRoute] /\ leadPolicy' = leadPolicy
      /\ \A m \in Names \ {n} : route'[m] = route[m]
  <2>1. /\ Unmapped(n) \in [Names -> SUBSET WholeRoute]
        /\ \A m \in Names \ {n} : Unmapped(n)[m] = route[m]
    BY DEF CFTypeOK, Unmapped
  <2>2. route' \in {route, Unmapped(n)} /\ leadPolicy' = leadPolicy
    BY DEF Push
  <2>3. QED
    BY <2>1, <2>2 DEF CFTypeOK
<1>2. app' \in [Names -> App \cup {NoApp}] /\ \A m \in Names \ {n} : app'[m] = app[m]
  <2>1. CASE /\ HasApp(n)
             /\ app' = [app EXCEPT ![n].token = tok, ![n].started = FALSE]
    <3>1. app[n] \in App
      BY <2>1 DEF CFTypeOK, HasApp
    <3>2. [app[n] EXCEPT !.token = tok, !.started = FALSE] \in App
      BY <3>1 DEF App
    <3>3. app' = [app EXCEPT ![n] = [app[n] EXCEPT !.token = tok,
                                                   !.started = FALSE]]
      BY <2>1 DEF CFTypeOK
    <3>4. QED
      BY <3>2, <3>3 DEF CFTypeOK
  <2>2. CASE \E g \in fresh, t \in {tok, FALSE} :
                 app' = [app EXCEPT ![n] = New(g, t)]
    <3>1. PICK g \in fresh, t \in {tok, FALSE} :
                 app' = [app EXCEPT ![n] = New(g, t)]
      BY <2>2
    <3>2. New(g, t) \in App
      BY DEF App
    <3> HIDE DEF New
    <3>3. QED
      BY <3>1, <3>2 DEF CFTypeOK
  <2>3. CASE app' = app
    BY <2>3 DEF CFTypeOK
  <2>4. QED
    BY <2>1, <2>2, <2>3 DEF Push
<1>3. QED
  BY <1>1, <1>2 DEF CFTypeOK, CFOthers

(* So do setting its environment and starting it. *)
LEMMA StartEffect ==
    ASSUME CFTypeOK, NEW n \in Names, NEW ok \in BOOLEAN,
           ConfigureEnrollment(n, ok) \/ StartApp(n, ok)
    PROVE  CFTypeOK' /\ CFOthers(n) /\ leadPolicy' = leadPolicy
  BY DEF CFTypeOK, CFOthers, ConfigureEnrollment, StartApp, App, HasApp

(* Securing its route touches that route only. *)
LEMMA SecureEffect ==
    ASSUME CFTypeOK, NEW n \in Names, NEW ok \in BOOLEAN, SecureRoute(n, ok)
    PROVE  CFTypeOK' /\ CFOthers(n) /\ leadPolicy' = leadPolicy
  BY DEF CFTypeOK, CFOthers, SecureRoute, WholeRoute

(* Policies on the manager's route touch nothing else. *)
LEMMA PolicyEffect ==
    ASSUME CFTypeOK, NEW g \in MaybeGuid, NEW ok \in BOOLEAN,
           AddRoutePolicy(g, ok) \/ RemoveRoutePolicy(g, ok)
    PROVE  CFTypeOK' /\ app' = app /\ route' = route
  BY DEF CFTypeOK, AddRoutePolicy, RemoveRoutePolicy, MaybeGuid

(* Removing a route touches that route only. *)
LEMMA UnrouteEffect ==
    ASSUME CFTypeOK, NEW n \in Names, NEW m, NEW ok \in BOOLEAN,
           UnguardRoute(n, ok) \/ DeleteRoute(n, m, ok)
    PROVE  CFTypeOK' /\ CFOthers(n) /\ app' = app /\ leadPolicy' = leadPolicy
  BY DEF CFTypeOK, CFOthers, UnguardRoute, DeleteRoute, Unmapped, WholeRoute

(* An app that is removed takes its mapping along. *)
LEMMA RemoveEffect ==
    ASSUME CFTypeOK, NEW n \in Names, RemoveApp(n)
    PROVE  /\ CFTypeOK' /\ CFOthers(n) /\ leadPolicy' = leadPolicy
           /\ ~HasApp(n)' /\ route'[n] \subseteq route[n]
  BY DEF Unmapped, CFTypeOK, CFOthers, RemoveApp, HasApp

(* DeleteApp removes the app or does nothing. *)
LEMMA DeleteAppEffect ==
    ASSUME CFTypeOK, NEW n \in Names, NEW ok \in BOOLEAN, DeleteApp(n, ok)
    PROVE  /\ CFTypeOK' /\ CFOthers(n) /\ leadPolicy' = leadPolicy
           /\ ok => ~HasApp(n)'
           /\ route'[n] \subseteq route[n]
<1>1. CASE RemoveApp(n)
  BY <1>1, RemoveEffect
<1>2. CASE ~ok /\ UNCHANGED cfVars
  BY <1>2 DEF cfVars, CFTypeOK, CFOthers
<1>3. QED
  BY <1>1, <1>2 DEF DeleteApp

(* An app the operator pushes is not the manager's. *)
LEMMA OperatorPushEffect ==
    ASSUME CFTypeOK, NEW n \in Names, NEW fresh \in SUBSET Guids,
           OperatorPushes(n, fresh)
    PROVE  /\ CFTypeOK' /\ CFOthers(n) /\ ~Owns(n)'
           /\ route' = route /\ leadPolicy' = leadPolicy
  BY DEF CFTypeOK, CFOthers, OperatorPushes, App, Owns, HasApp

-----------------------------------------------------------------------------
(* The Pack and the work directories. *)

(* A join, a removal or an expiry concerns one name; without late joins it *)
(* leaves none behind.                                                     *)
LEMMA PackEffect ==
    ASSUME PackTypeOK, CFTypeOK, NEW n \in Names, NEW ok \in BOOLEAN,
           \/ TriggerEnrollment(n, ok) \/ RemoveMember(n, ok)
           \/ JoinLands(n) \/ InviteExpires(n)
    PROVE  /\ PackTypeOK' /\ PackOthers(n)
           /\ "lateJoin" \notin Faults /\ NoLateJoin
                => late' = late /\ ~JoinLands(n)
  BY AppAssumption
     DEF PackTypeOK, PackOthers, CFTypeOK, TriggerEnrollment, CanJoin, Answers,
         Owns, HasApp, App, RemoveMember, JoinLands, InviteExpires, MaybeGuid,
         Fault, NoLateJoin

(* Work on one directory leaves the others alone. *)
LEMMA WorkEffect ==
    ASSUME WorkTypeOK, NEW n \in Names, NEW ok \in BOOLEAN, NEW r,
           \/ BeginPrepare(n) \/ FinishPrepare(n, ok)
           \/ InstallEnrollment(n, r, ok) \/ RemoveBits(n, ok)
           \/ UNCHANGED workVars
    PROVE  WorkTypeOK' /\ WorkOthers(n)
  BY DEF WorkTypeOK, WorkOthers, BeginPrepare, FinishPrepare,
         InstallEnrollment, RemoveBits, workVars

-----------------------------------------------------------------------------
(* Control (Go, Persist, Oops, GoOr and the rest of Reconciler). *)

FrameInv == run \in Frame /\ run.then # "persist"

(* The worker stays in its frame, with its snapshot, at a point in S. *)
SameTask == run'.name = run.name /\ run'.mode = run.mode /\ run'.rec = run.rec
Moved(S) == FrameInv' /\ SameTask /\ Pos' \in S

Targets == Steps \ {"idle", "persist"}
Abort == {"recheck", "fail", "done"}

(* Abort and the steps named in the code are targets. *)
LEMMA AbortTargets == Abort \subseteq Targets
  BY DEF Abort, Targets, Steps, CreateSteps, DeleteSteps

(* Go leads to its target. *)
LEMMA GoMoves ==
    ASSUME FrameInv, NEW s \in Targets, Go(s)
    PROVE  Moved({s})
  BY DEF FrameInv, Frame, Go, Moved, SameTask, Pos, At, Targets

(* Persist leads to its target by way of a write. *)
LEMMA PersistMoves ==
    ASSUME FrameInv, NEW s \in Targets, Persist(s)
    PROVE  Moved({s})
<1>1. "persist" \in Steps
  BY DEF Steps, CreateSteps
<1>2. QED
  BY <1>1 DEF FrameInv, Frame, Persist, Moved, SameTask, Pos, At, Targets

(* A failed step leads to the end of the task. *)
LEMMA OopsMoves ==
    ASSUME FrameInv, Oops
    PROVE  Moved(Abort)
<1>1. Moved({"recheck"}) \/ Moved({"fail"})
  BY AbortTargets, GoMoves DEF Oops, Abort
<1>2. QED
  BY <1>1 DEF Moved, Abort

(* The conditional forms lead to their target, or to the end. *)
LEMMA OrMoves ==
    ASSUME FrameInv, NEW ok \in BOOLEAN, NEW s \in Targets,
           GoOr(ok, s) \/ PersistOr(ok, s) \/ PersistOrQuit(ok, s)
    PROVE  /\ Moved({s} \cup Abort)
           /\ Pos' \in Abort \/ ok
<1>1. CASE ok
  <2>1. Moved({s})
    BY <1>1, GoMoves, PersistMoves DEF GoOr, PersistOr, PersistOrQuit
  <2>2. QED
    BY <2>1, <1>1 DEF Moved
<1>2. CASE ~ok
  <2>1. Oops \/ Go("fail") \/ Go("done")
    BY <1>2 DEF GoOr, PersistOr, PersistOrQuit
  <2>2. Moved(Abort)
    <3>1. CASE Oops
      BY <3>1, OopsMoves
    <3>2. CASE Go("fail") \/ Go("done")
      <4>1. Moved({"fail"}) \/ Moved({"done"})
        BY <3>2, AbortTargets, GoMoves DEF Abort
      <4>2. QED
        BY <4>1 DEF Moved, Abort
    <3>3. QED
      BY <2>1, <3>1, <3>2
  <2>3. QED
    BY <2>2 DEF Moved
<1>3. QED
  BY <1>1, <1>2

-----------------------------------------------------------------------------
(* The steps of the worker. *)

(* What the ordinary steps of reconcileCreate do: they stay with their     *)
(* sandbox, and what they do next does not rest on its identity.           *)
Typed == StoreTypeOK /\ CFTypeOK /\ PackTypeOK /\ WorkTypeOK /\ WorkerTypeOK

Within ==
    StoreOthers(Cur) /\ CFOthers(Cur) /\ PackOthers(Cur) /\ WorkOthers(Cur)

PlainSteps == Targets \ {"recover", "discover", "claim", "allow"}

Plain ==
    /\ Typed' /\ Moved(PlainSteps) /\ Within /\ KeepsIds
    /\ leadPolicy' = leadPolicy
    /\ "lateJoin" \notin Faults /\ NoLateJoin => late' = late

(* A worker at a step has a frame, a name and a record. *)
LEMMA Working ==
    ASSUME BaseInv, NEW s, At(s), s # "idle"
    PROVE  /\ FrameInv /\ Typed /\ Cur \in Names
           /\ run.rec \in Record /\ run.rec.appGUID \in MaybeGuid
           /\ prepared \in [Names -> BOOLEAN]
           /\ recovery \in [Names -> NeedsEnrollment \cup {""}]
           /\ run.mode = "create" /\ s \notin Finished \cup {"top", "persist"} =>
                    run.rec.phase \in CreatePhases
           /\ s = "recover" => run.rec.phase \in NeedsEnrollment
<1>1. FrameInv /\ Typed /\ Cur \in Names
  BY DEF BaseInv, TypeOK, FrameOK, Typed, FrameInv, WorkerTypeOK, At, Cur
<1>2. run.rec \in Record
  BY <1>1 DEF FrameInv, Frame
<1>3. QED
  BY <1>1, <1>2 DEF Record, Typed, WorkerTypeOK, BaseInv, FrameOK, Pos, At

(* The points the steps below lead to. *)
LEMMA PlainTargets ==
    /\ PlainSteps \subseteq Targets /\ Abort \subseteq PlainSteps
    /\ {"top", "cloning", "saveRevision", "enroll", "install", "preflight",
        "push", "saveHost", "trigger", "confirm", "cleanup", "saveMember",
        "advance"} \subseteq PlainSteps
  BY DEF PlainSteps, Abort, Targets, Steps, CreateSteps, DeleteSteps

(* The steps that only look at the world. *)
LEMMA LookPlain ==
    ASSUME BaseInv,
           Preflight \/ Inspect \/ Probe \/ Lookup \/ Confirm \/ Await
    PROVE  Plain
<1>1. /\ FrameInv /\ Typed
      /\ UNCHANGED <<prepared, recovery, enroll, diskVars, worldVars>>
  BY Working DEF Preflight, Inspect, Probe, Lookup, Confirm, Await, Poll,
                 Creating
<1>2. Moved(PlainSteps)
  <2>1. \/ Oops
        \/ \E s \in {"push", "advance", "cleanup", "trigger"} :
                Go(s) \/ Persist(s)
    BY DEF Preflight, Inspect, Probe, Lookup, Confirm, Await, Poll
  <2>2. QED
    BY <1>1, <2>1, PlainTargets, GoMoves, PersistMoves, OopsMoves
       DEF Moved
<1>3. Typed'
  BY <1>1, <1>2
     DEF Typed, StoreTypeOK, CFTypeOK, PackTypeOK, WorkTypeOK, WorkerTypeOK,
         Moved, FrameInv, diskVars, worldVars
<1>4. QED
  BY <1>1, <1>2, <1>3
     DEF Plain, Within, StoreOthers, CFOthers, PackOthers, WorkOthers,
         KeepsIds, Follows, KeepsDeletion, Exists, diskVars, worldVars

(* The steps that write the record, keeping its identity. *)
LEMMA SavePlain ==
    ASSUME BaseInv, Advance \/ SaveRevision \/ SaveHost \/ SaveMember \/ Recover
    PROVE  Plain
<1>1. /\ FrameInv /\ Typed /\ Cur \in Names /\ run.rec \in Record
      /\ UNCHANGED <<bits, installed, worldVars, prepared>>
      /\ recovery \in [Names -> NeedsEnrollment \cup {""}]
      /\ run.rec.phase \in CreatePhases
      /\ Recover => run.rec.phase \in NeedsEnrollment
  <2>1. PICK s \in {"advance", "saveRevision", "saveHost", "saveMember",
                    "recover"} : Creating(s) /\ (Recover => s = "recover")
    BY DEF Advance, SaveRevision, SaveHost, SaveMember, Recover, Creating, At
  <2>2. At(s) /\ run.mode = "create"
    BY <2>1 DEF Creating
  <2>3. s \notin Finished \cup {"top", "persist", "idle"}
    BY <2>1 DEF Finished
  <2>4. UNCHANGED <<bits, installed, worldVars, prepared>>
    BY DEF Advance, SaveRevision, SaveHost, SaveMember, Recover
  <2>5. QED
    BY <2>1, <2>2, <2>3, <2>4, Working
<1>2. StoreTypeOK' /\ StoreOthers(Cur) /\ KeepsIds
  <2>1. Exists(Cur) => store[Cur] \in Record
    BY <1>1, StoredIsRecord DEF Typed
  <2>2. ASSUME NEW p \in Phases
        PROVE  Exists(Cur) => /\ Phased(p) \in Record
                              /\ Follows(Phased(p), store[Cur])
    BY <2>1 DEF Phased, Record, Phases, Follows, KeepsDeletion
  <2>3. CASE Advance
    <3>1. NextPhase[run.rec.phase] \in Phases
      BY <1>1 DEF NextPhase, Phases, CreatePhases, PreparePhases,
                  NeedsEnrollment, WaitPhases
    <3>2. QED
      BY <1>1, <2>2, <2>3, <3>1, UpdateEffect DEF Advance, Typed
  <2>4. CASE Recover
    <3>1. "preparing-invite" \in Phases
      BY DEF Phases, CreatePhases, PreparePhases
    <3>2. CASE store' = store
      BY <1>1, <3>2 DEF Typed, StoreTypeOK, StoreOthers, KeepsIds, Follows, KeepsDeletion, Exists
    <3>3. CASE \E ok \in BOOLEAN :
                  UpdateRecord(Cur, Phased("preparing-invite"), ok)
      BY <1>1, <2>2, <3>1, <3>3, UpdateEffect DEF Typed
    <3>4. QED
      BY <2>4, <3>2, <3>3 DEF Recover
  <2>5. Exists(Cur) =>
            /\ [store[Cur] EXCEPT !.revision = TRUE] \in Record
            /\ [store[Cur] EXCEPT !.internalHost = TRUE] \in Record
            /\ [store[Cur] EXCEPT !.packMemberID = TRUE] \in Record
            /\ Follows([store[Cur] EXCEPT !.revision = TRUE], store[Cur])
            /\ Follows([store[Cur] EXCEPT !.internalHost = TRUE], store[Cur])
            /\ Follows([store[Cur] EXCEPT !.packMemberID = TRUE], store[Cur])
    BY <2>1 DEF Record, Follows, KeepsDeletion
  <2>6. CASE SaveRevision \/ SaveHost \/ SaveMember
    BY <1>1, <2>5, <2>6, UpdateEffect
       DEF SaveRevision, SaveHost, SaveMember, Typed
  <2>7. QED
    BY <2>3, <2>4, <2>6
<1>3. Moved(PlainSteps)
  <2>1. \/ \E ok1 \in BOOLEAN : GoOr(ok1, "advance") \/ GoOr(ok1, "top")
        \/ Go("top") \/ Go("done") \/ Go("fail")
    BY DEF Advance, SaveRevision, SaveHost, SaveMember, Recover
  <2>2. QED
    BY <1>1, <2>1, PlainTargets, OrMoves, GoMoves DEF Moved, Abort
<1>4. WorkerTypeOK' /\ PackTypeOK'
  <2>1. CASE Recover
    <3>1. enroll' \in [Names -> {"none", "live", "expired"}]
      BY <1>1, <2>1 DEF Recover, Typed, PackTypeOK
    <3>2. recovery' \in [Names -> NeedsEnrollment \cup {""}]
      BY <1>1, <2>1 DEF Recover
    <3>3. QED
      BY <1>1, <1>3, <3>1, <3>2
         DEF Typed, PackTypeOK, WorkerTypeOK, Moved, FrameInv, worldVars
  <2>2. CASE ~Recover
    BY <1>1, <1>3, <2>2
       DEF Advance, SaveRevision, SaveHost, SaveMember, Typed, PackTypeOK,
           WorkerTypeOK, Moved, FrameInv, worldVars
  <2>3. QED
    BY <2>1, <2>2
<1>5. QED
  BY <1>1, <1>2, <1>3, <1>4
     DEF Plain, Typed, CFTypeOK, WorkTypeOK, Within, CFOthers, PackOthers,
         WorkOthers, worldVars

(* The steps on the work directory. *)
LEMMA DiskPlain ==
    ASSUME BaseInv, Prepare \/ Cloning \/ EnsurePrepared \/ Install
    PROVE  Plain
<1>1. /\ FrameInv /\ Typed /\ Cur \in Names
      /\ UNCHANGED <<recovery, enroll, store, worldVars>>
      /\ prepared \in [Names -> BOOLEAN]
  BY Working DEF Prepare, Cloning, EnsurePrepared, Install, Creating
<1>2. WorkTypeOK' /\ WorkOthers(Cur)
  <2>1. \/ BeginPrepare(Cur) \/ UNCHANGED workVars
        \/ \E ok \in BOOLEAN :
              FinishPrepare(Cur, ok) \/ InstallEnrollment(Cur, enroll[Cur] = "live", ok)
    BY DEF Prepare, Clone, Cloning, EnsurePrepared, Install
  <2>2. QED
    BY <1>1, <2>1, WorkEffect DEF Typed
<1>3. Moved(PlainSteps)
  <2>1. \/ Oops \/ Go("cloning") \/ Go("enroll")
        \/ \E ok \in BOOLEAN : \/ GoOr(ok, "saveRevision") \/ GoOr(ok, "enroll")
                               \/ PersistOr(ok, "preflight")
    BY DEF Prepare, Clone, Cloning, EnsurePrepared, Install
  <2>2. QED
    BY <1>1, <2>1, PlainTargets, GoMoves, OopsMoves, OrMoves DEF Moved
<1>4. WorkerTypeOK'
  <2>1. prepared' \in [Names -> BOOLEAN]
    BY <1>1 DEF Prepare, Clone, Cloning, EnsurePrepared, Install
  <2>2. QED
    BY <1>1, <1>3, <2>1 DEF Typed, WorkerTypeOK, Moved, FrameInv
<1>5. QED
  BY <1>1, <1>2, <1>3, <1>4
     DEF Plain, Typed, StoreTypeOK, CFTypeOK, PackTypeOK, Within, StoreOthers,
         CFOthers, PackOthers, KeepsIds, Follows, KeepsDeletion, Exists, worldVars

(* The steps on the app and its identity route. *)
LEMMA CloudPlain ==
    ASSUME BaseInv, PushBits \/ Secure \/ Configure \/ StartStep
    PROVE  Plain
<1>1. /\ FrameInv /\ Typed /\ Cur \in Names
      /\ UNCHANGED <<prepared, recovery, enroll, diskVars, member, late>>
  BY Working DEF PushBits, Secure, Configure, StartStep, Creating
<1>2. CFTypeOK' /\ CFOthers(Cur) /\ leadPolicy' = leadPolicy
  <2>1. FreshGuids \in SUBSET Guids /\ installed[Cur] \in BOOLEAN
    BY <1>1 DEF FreshGuids, Typed, WorkTypeOK
  <2>2. PICK ok \in BOOLEAN :
            \/ Push(Cur, FreshGuids, installed[Cur], ok) \/ SecureRoute(Cur, ok)
            \/ ConfigureEnrollment(Cur, ok) \/ StartApp(Cur, ok)
    BY DEF PushBits, Secure, Configure, StartStep
  <2>3. QED
    BY <1>1, <2>1, <2>2, PushEffect, SecureEffect, StartEffect DEF Typed
<1>3. Moved(PlainSteps)
  <2>1. \E ok \in BOOLEAN, s \in {"advance", "saveHost"} : GoOr(ok, s)
    BY DEF PushBits, Secure, Configure, StartStep
  <2>2. QED
    BY <1>1, <2>1, PlainTargets, OrMoves DEF Moved
<1>4. QED
  BY <1>1, <1>2, <1>3
     DEF Plain, Typed, StoreTypeOK, PackTypeOK, WorkTypeOK, WorkerTypeOK,
         Moved, FrameInv, Within, StoreOthers, PackOthers, WorkOthers,
         KeepsIds, Follows, KeepsDeletion, Exists, diskVars

(* A new invite outdates what the app and the work directory carry. *)
LEMMA EnrollPlain ==
    ASSUME BaseInv, EnsureEnrollment
    PROVE  Plain
<1>1. /\ FrameInv /\ Typed /\ Cur \in Names
      /\ UNCHANGED <<prepared, recovery, store, bits, route, leadPolicy,
                     member, late>>
  BY Working DEF EnsureEnrollment, Creating
<1>2. Moved(PlainSteps)
  <2>1. Oops \/ Persist("install") \/ Go("advance")
    BY DEF EnsureEnrollment
  <2>2. QED
    BY <1>1, <2>1, PlainTargets, GoMoves, PersistMoves, OopsMoves DEF Moved
<1>3. PackTypeOK' /\ WorkTypeOK'
  BY <1>1 DEF EnsureEnrollment, Typed, PackTypeOK, WorkTypeOK
<1>4. CFTypeOK' /\ CFOthers(Cur)
  <2>1. HasApp(Cur) => [app[Cur] EXCEPT !.token = FALSE] \in App
    BY <1>1 DEF Typed, CFTypeOK, HasApp, App
  <2>2. \/ app' = app
        \/ HasApp(Cur) /\ app' = [app EXCEPT ![Cur] = [app[Cur] EXCEPT !.token = FALSE]]
    BY <1>1 DEF EnsureEnrollment, Typed, CFTypeOK
  <2>3. QED
    BY <1>1, <2>1, <2>2 DEF Typed, CFTypeOK, CFOthers
<1>5. QED
  BY <1>1, <1>2, <1>3, <1>4
     DEF Plain, Typed, StoreTypeOK, WorkerTypeOK, Moved, FrameInv, Within,
         StoreOthers, PackOthers, WorkOthers, KeepsIds, Follows, KeepsDeletion, Exists

(* Asking the sandbox to join. *)
LEMMA TriggerPlain ==
    ASSUME BaseInv, Trigger
    PROVE  Plain
<1>1. /\ FrameInv /\ Typed /\ Cur \in Names
      /\ UNCHANGED <<prepared, recovery, diskVars, cfVars>>
  BY Working DEF Trigger, Creating
<1>2. Moved(PlainSteps)
  <2>1. Oops \/ Go("advance") \/ Go("confirm")
    BY DEF Trigger
  <2>2. QED
    BY <1>1, <2>1, PlainTargets, GoMoves, OopsMoves DEF Moved
<1>3. /\ PackTypeOK' /\ PackOthers(Cur)
      /\ "lateJoin" \notin Faults /\ NoLateJoin => late' = late
  BY <1>1, PackEffect DEF Trigger, Typed
<1>4. QED
  BY <1>1, <1>2, <1>3
     DEF Plain, Typed, StoreTypeOK, CFTypeOK, WorkTypeOK, WorkerTypeOK, Moved,
         FrameInv, Within, StoreOthers, CFOthers, WorkOthers, KeepsIds,
         Follows, KeepsDeletion,
         Exists, diskVars, cfVars

(* Removing the transient files, on either path. *)
LEMMA CleanupEffect ==
    ASSUME BaseInv, Cleanup
    PROVE  /\ Typed' /\ Moved({"saveMember", "sweep"} \cup Abort) /\ Within
           /\ KeepsIds /\ UNCHANGED <<store, worldVars>>
           /\ Pos' = "saveMember" => run.mode = "create"
           /\ Pos' = "sweep" => run.mode = "delete"
<1>1. /\ FrameInv /\ Typed /\ Cur \in Names /\ prepared \in [Names -> BOOLEAN]
      /\ UNCHANGED <<recovery, store, worldVars>>
  BY Working DEF Cleanup
<1>2. WorkTypeOK' /\ WorkOthers(Cur)
  <2>1. UNCHANGED workVars \/ \E ok \in BOOLEAN : RemoveBits(Cur, ok)
    BY DEF Cleanup
  <2>2. QED
    BY <1>1, <2>1, WorkEffect DEF Typed
<1>3. /\ Moved({"saveMember", "sweep"} \cup Abort)
      /\ Pos' = "saveMember" => run.mode = "create"
      /\ Pos' = "sweep" => run.mode = "delete"
  <2>1. \/ Oops
        \/ run.mode = "create" /\ Go("saveMember")
        \/ run.mode = "delete" /\ Persist("sweep")
    <3>1. run.mode \in {"create", "delete"}
      BY <1>1 DEF FrameInv, Frame
    <3>2. CASE Oops
      BY <3>2
    <3>3. CASE IF run.mode = "create" THEN Go("saveMember")
                                      ELSE Persist("sweep")
      BY <3>1, <3>3
    <3>4. QED
      BY <3>2, <3>3 DEF Cleanup
  <2>2. {"saveMember", "sweep"} \subseteq Targets
    BY DEF Targets, Steps, CreateSteps, DeleteSteps
  <2>3. QED
    BY <1>1, <2>1, <2>2, GoMoves, PersistMoves, OopsMoves DEF Moved, Abort
<1>4. WorkerTypeOK' /\ PackTypeOK'
  <2>1. /\ enroll' \in [Names -> {"none", "live", "expired"}]
        /\ prepared' \in [Names -> BOOLEAN]
    BY <1>1 DEF Cleanup, Typed, PackTypeOK
  <2>2. QED
    BY <1>1, <1>3, <2>1
       DEF Typed, PackTypeOK, WorkerTypeOK, Moved, FrameInv, worldVars
<1>5. QED
  BY <1>1, <1>2, <1>3, <1>4
     DEF Typed, StoreTypeOK, CFTypeOK, Within, StoreOthers, CFOthers,
         PackOthers, KeepsIds, Follows, KeepsDeletion, Exists, worldVars

-----------------------------------------------------------------------------
(* The steps of reconcileDelete, and the worker's writes.                  *)

(* The points the steps below lead to. *)
LEMMA DeleteTargets ==
    {"expel", "absence", "revoke", "unguard", "resolve", "unroute", "identify",
     "destroy", "cleanup", "sweep", "forget", "fail", "done"} \subseteq Targets
  BY DEF Targets, Steps, CreateSteps, DeleteSteps

(* A step of the worker that touches neither the store nor the world. *)
Idles == UNCHANGED <<prepared, recovery, enroll, diskVars, worldVars>>

(* A step that touches neither keeps the types and the other sandboxes. *)
LEMMA IdlesEffect ==
    ASSUME Typed, Idles, FrameInv'
    PROVE  Typed' /\ Within
  BY DEF Idles, Typed, StoreTypeOK, CFTypeOK, PackTypeOK, WorkTypeOK,
         WorkerTypeOK, FrameInv, Within, StoreOthers, CFOthers, PackOthers,
         WorkOthers, diskVars, worldVars

(* Only without a Pack member does deletion pass the first step. *)
LEMMA ObserveEffect ==
    ASSUME BaseInv, Observe
    PROVE  /\ Moved({"expel", AfterMember} \cup Abort) /\ Idles
           /\ Pos' \notin {"expel"} \cup Abort => member[Cur] = NoGuid
<1>1. FrameInv /\ Idles
  BY Working DEF Observe, Deleting, Idles
<1>2. AfterMember \in Targets \ Abort
  BY DeleteTargets DEF AfterMember, Abort
<1>3. CASE Persist("expel")
  BY <1>1, <1>3, DeleteTargets, PersistMoves DEF Moved
<1>4. CASE ~MemberPresent(Cur) /\ Persist(AfterMember)
  BY <1>1, <1>2, <1>4, PersistMoves DEF Moved, MemberPresent
<1>5. CASE Go("fail")
  BY <1>1, <1>5, DeleteTargets, GoMoves DEF Moved, Abort
<1>6. QED
  BY <1>3, <1>4, <1>5 DEF Observe

(* Removing the Pack member touches the roster only, and unless it failed  *)
(* leaves no member behind.                                                *)
LEMMA ExpelEffect ==
    ASSUME BaseInv, Expel
    PROVE  /\ Typed' /\ Moved({AfterMember} \cup Abort) /\ Within
           /\ UNCHANGED <<diskVars, cfVars, late>>
           /\ Pos' \notin Abort => member'[Cur] = NoGuid
<1>1. /\ FrameInv /\ Typed /\ Cur \in Names
      /\ UNCHANGED <<prepared, recovery, diskVars, cfVars>>
  BY Working DEF Expel, Deleting
<1>2. PICK ok \in BOOLEAN : RemoveMember(Cur, ok) /\ PersistOr(ok, AfterMember)
  BY DEF Expel
<1>3. AfterMember \in Targets
  BY DeleteTargets DEF AfterMember
<1>4. Moved({AfterMember} \cup Abort) /\ (Pos' \in Abort \/ ok)
  BY <1>1, <1>2, <1>3, OrMoves
<1>5. PackTypeOK' /\ PackOthers(Cur) /\ late' = late
  BY <1>1, <1>2, PackEffect DEF Typed, RemoveMember
<1>6. ok => member'[Cur] = NoGuid
  BY <1>1, <1>2 DEF RemoveMember, Typed, PackTypeOK
<1>7. QED
  BY <1>1, <1>4, <1>5, <1>6
     DEF Typed, StoreTypeOK, CFTypeOK, WorkTypeOK, WorkerTypeOK, Moved,
         FrameInv, Within, StoreOthers, CFOthers, WorkOthers, diskVars, cfVars

(* Without a recorded GUID, deletion goes on only if the name is free. *)
LEMMA AbsenceEffect ==
    ASSUME BaseInv, Absence
    PROVE  /\ Moved({"unguard"} \cup Abort) /\ Idles
           /\ Pos' \notin Abort => ~HasApp(Cur)
<1>1. FrameInv /\ Idles
  BY Working DEF Absence, Deleting, Idles
<1>2. CASE ~HasApp(Cur) /\ PersistOrQuit(TRUE, "unguard")
  BY <1>1, <1>2, DeleteTargets, OrMoves
<1>3. CASE PersistOrQuit(FALSE, "unguard")
  BY <1>1, <1>3, DeleteTargets, OrMoves
<1>4. QED
  BY <1>2, <1>3 DEF Absence

(* Revoking the policy on the manager's route takes that of the recorded   *)
(* GUID and leaves the others.                                             *)
LEMMA RevokeEffect ==
    ASSUME BaseInv, Revoke
    PROVE  /\ Typed' /\ Moved({"unguard"} \cup Abort) /\ Within
           /\ UNCHANGED <<diskVars, app, route, member, late>>
           /\ leadPolicy' \subseteq leadPolicy
           /\ Pos' \notin Abort => run.rec.appGUID \notin leadPolicy'
<1>1. /\ FrameInv /\ Typed /\ Cur \in Names /\ run.rec.appGUID \in MaybeGuid
      /\ UNCHANGED <<prepared, recovery, enroll, diskVars, member, late>>
  BY Working DEF Revoke, Deleting
<1>2. PICK ok \in BOOLEAN : /\ RemoveRoutePolicy(run.rec.appGUID, ok)
                            /\ PersistOrQuit(ok, "unguard")
  BY DEF Revoke
<1>3. Moved({"unguard"} \cup Abort) /\ (Pos' \in Abort \/ ok)
  BY <1>1, <1>2, DeleteTargets, OrMoves
<1>4. CFTypeOK' /\ app' = app /\ route' = route
  BY <1>1, <1>2, PolicyEffect DEF Typed
<1>5. /\ leadPolicy' \subseteq leadPolicy
      /\ ok => run.rec.appGUID \notin leadPolicy'
  BY <1>2 DEF RemoveRoutePolicy
<1>6. QED
  BY <1>1, <1>3, <1>4, <1>5
     DEF Typed, StoreTypeOK, PackTypeOK, WorkTypeOK, WorkerTypeOK, Moved,
         FrameInv, Within, StoreOthers, CFOthers, PackOthers, WorkOthers,
         diskVars

(* Removing the policy on the identity route touches that route only. *)
LEMMA UnguardEffect ==
    ASSUME BaseInv, Unguard
    PROVE  /\ Typed' /\ Moved({"resolve", "unroute"} \cup Abort) /\ Within
           /\ UNCHANGED <<diskVars, app, leadPolicy, member, late>>
<1>1. /\ FrameInv /\ Typed /\ Cur \in Names
      /\ UNCHANGED <<prepared, recovery, enroll, diskVars, member, late>>
  BY Working DEF Unguard, Deleting
<1>2. PICK ok \in BOOLEAN :
        /\ UnguardRoute(Cur, ok)
        /\ Go("unroute") \/ Go("resolve") \/ Go("fail") \/ Go("done")
  BY DEF Unguard, PersistOrQuit
<1>3. Moved({"resolve", "unroute"} \cup Abort)
  BY <1>1, <1>2, DeleteTargets, GoMoves DEF Moved, Abort
<1>4. CFTypeOK' /\ CFOthers(Cur) /\ app' = app /\ leadPolicy' = leadPolicy
  BY <1>1, <1>2, UnrouteEffect DEF Typed
<1>5. QED
  BY <1>1, <1>3, <1>4
     DEF Typed, StoreTypeOK, PackTypeOK, WorkTypeOK, WorkerTypeOK, Moved,
         FrameInv, Within, StoreOthers, PackOthers, WorkOthers, diskVars

(* Resolving the app name changes only what the frame remembers of it. *)
LEMMA ResolveEffect ==
    ASSUME BaseInv, Resolve
    PROVE  Moved({"unroute"} \cup Abort) /\ Idles
<1>1. FrameInv /\ Idles
  BY Working DEF Resolve, Deleting, Idles
<1>2. CASE Go("fail") \/ Go("done")
  BY <1>1, <1>2, DeleteTargets, GoMoves DEF Moved, Abort
<1>3. ASSUME NEW x \in Seen, run' = [run EXCEPT !.step = "unroute", !.seen = x]
      PROVE  Moved({"unroute"})
  BY <1>1, <1>3, DeleteTargets
     DEF FrameInv, Frame, Moved, SameTask, Pos, At, Targets
<1>4. QED
  BY <1>1, <1>2, <1>3 DEF Resolve, PersistOrQuit, Seen, Moved

(* Deletion passes the route only when the route is gone. *)
LEMMA UnrouteStepEffect ==
    ASSUME BaseInv, Unroute
    PROVE  /\ Typed' /\ Within
           /\ Moved({IF run.rec.appGUID = NoGuid THEN "cleanup"
                                                 ELSE "identify"} \cup Abort)
           /\ UNCHANGED <<diskVars, app, leadPolicy, member, late>>
           /\ Pos' \notin Abort => route'[Cur] = {}
<1>1. /\ FrameInv /\ Typed /\ Cur \in Names
      /\ UNCHANGED <<prepared, recovery, enroll, diskVars, member, late>>
  BY Working DEF Unroute, Deleting
<1> DEFINE next == IF run.rec.appGUID = NoGuid THEN "cleanup" ELSE "identify"
<1>2. PICK ok \in BOOLEAN :
        /\ DeleteRoute(Cur, run.seen = "match", ok)
        /\ \/ ok /\ run' = [run EXCEPT !.step = "persist", !.seen = "none",
                                       !.then = next]
           \/ run' = [run EXCEPT !.step = "fail", !.seen = "none"]
           \/ run' = [run EXCEPT !.step = "done", !.seen = "none"]
  BY DEF Unroute
<1>3. Moved({next} \cup Abort) /\ (Pos' \in Abort \/ ok)
  <2>1. next \in Targets /\ "fail" \in Targets /\ "done" \in Targets
    BY DeleteTargets
  <2>2. "persist" \in Steps /\ "none" \in Seen
    BY DEF Steps, CreateSteps, Seen
  <2> HIDE DEF next
  <2>3. CASE ok /\ run' = [run EXCEPT !.step = "persist", !.seen = "none",
                                      !.then = next]
    BY <1>1, <2>1, <2>2, <2>3
       DEF FrameInv, Frame, Moved, SameTask, Pos, At, Targets
  <2>4. CASE run' = [run EXCEPT !.step = "fail", !.seen = "none"]
    BY <1>1, <2>1, <2>2, <2>4
       DEF FrameInv, Frame, Moved, SameTask, Pos, At, Targets, Abort
  <2>5. CASE run' = [run EXCEPT !.step = "done", !.seen = "none"]
    BY <1>1, <2>1, <2>2, <2>5
       DEF FrameInv, Frame, Moved, SameTask, Pos, At, Targets, Abort
  <2>6. QED
    BY <1>2, <2>3, <2>4, <2>5
<1>4. CFTypeOK' /\ CFOthers(Cur) /\ app' = app /\ leadPolicy' = leadPolicy
  BY <1>1, <1>2, UnrouteEffect DEF Typed
<1>5. ok => route'[Cur] = {}
  BY <1>1, <1>2 DEF DeleteRoute, Typed, CFTypeOK
<1>6. QED
  BY <1>1, <1>3, <1>4, <1>5
     DEF Typed, StoreTypeOK, PackTypeOK, WorkTypeOK, WorkerTypeOK, Moved,
         FrameInv, Within, StoreOthers, PackOthers, WorkOthers, diskVars

(* Only a missing app lets deletion skip the removal of the app. *)
LEMMA IdentifyEffect ==
    ASSUME BaseInv, Identify
    PROVE  /\ Moved({"cleanup", "destroy"} \cup Abort) /\ Idles
           /\ Pos' = "cleanup" => ~HasApp(Cur)
<1>1. FrameInv /\ Idles
  BY Working DEF Identify, Deleting, Idles
<1>2. CASE ~HasApp(Cur) /\ PersistOrQuit(TRUE, "cleanup")
  BY <1>1, <1>2, DeleteTargets, OrMoves DEF Moved
<1>3. CASE Go("destroy")
  BY <1>1, <1>3, DeleteTargets, GoMoves DEF Moved
<1>4. CASE PersistOrQuit(FALSE, "cleanup")
  <2>1. Go("fail") \/ Go("done")
    BY <1>4 DEF PersistOrQuit
  <2>2. QED
    BY <1>1, <2>1, DeleteTargets, GoMoves DEF Moved, Abort
<1>5. QED
  BY <1>2, <1>3, <1>4 DEF Identify

(* Deletion passes the app only when the app is gone. *)
LEMMA DestroyEffect ==
    ASSUME BaseInv, Destroy
    PROVE  /\ Typed' /\ Moved({"cleanup"} \cup Abort) /\ Within
           /\ UNCHANGED <<diskVars, leadPolicy, member, late>>
           /\ route'[Cur] \subseteq route[Cur]
           /\ Pos' \notin Abort => ~HasApp(Cur)'
<1>1. /\ FrameInv /\ Typed /\ Cur \in Names
      /\ UNCHANGED <<prepared, recovery, enroll, diskVars, member, late>>
  BY Working DEF Destroy, Deleting
<1>2. PICK ok \in BOOLEAN : DeleteApp(Cur, ok) /\ PersistOrQuit(ok, "cleanup")
  BY DEF Destroy
<1>3. Moved({"cleanup"} \cup Abort) /\ (Pos' \in Abort \/ ok)
  BY <1>1, <1>2, DeleteTargets, OrMoves
<1>4. /\ CFTypeOK' /\ CFOthers(Cur) /\ leadPolicy' = leadPolicy
      /\ route'[Cur] \subseteq route[Cur]
      /\ ok => app'[Cur] = NoApp
  BY <1>1, <1>2, DeleteAppEffect DEF Typed, HasApp
<1>5. run'.name = Cur
  BY <1>3 DEF Moved, SameTask, Cur
<1>6. QED
  BY <1>1, <1>3, <1>4, <1>5
     DEF Typed, StoreTypeOK, PackTypeOK, WorkTypeOK, WorkerTypeOK, Moved,
         FrameInv, Within, StoreOthers, PackOthers, WorkOthers, diskVars,
         HasApp, Cur

(* Deletion reaches the record only when the work directory is gone. *)
LEMMA SweepEffect ==
    ASSUME BaseInv, Sweep
    PROVE  /\ Typed' /\ Moved({"forget"} \cup Abort) /\ Within
           /\ UNCHANGED <<store, worldVars>>
           /\ Pos' \notin Abort => bits'[Cur] = "none"
<1>1. /\ FrameInv /\ Typed /\ Cur \in Names /\ prepared \in [Names -> BOOLEAN]
      /\ UNCHANGED <<recovery, enroll, store, worldVars>>
  BY Working DEF Sweep, Deleting
<1>2. PICK ok \in BOOLEAN :
        /\ RemoveBits(Cur, ok) /\ GoOr(ok, "forget")
        /\ prepared' = IF ok THEN [prepared EXCEPT ![Cur] = FALSE] ELSE prepared
  BY DEF Sweep
<1>3. Moved({"forget"} \cup Abort) /\ (Pos' \in Abort \/ ok)
  BY <1>1, <1>2, DeleteTargets, OrMoves
<1>4. WorkTypeOK' /\ WorkOthers(Cur)
  BY <1>1, <1>2, WorkEffect DEF Typed
<1>5. ok => bits'[Cur] = "none"
  BY <1>1, <1>2 DEF RemoveBits, Typed, WorkTypeOK
<1>6. prepared' \in [Names -> BOOLEAN]
  BY <1>1, <1>2
<1>7. QED
  BY <1>1, <1>3, <1>4, <1>5, <1>6
     DEF Typed, StoreTypeOK, CFTypeOK, PackTypeOK, WorkerTypeOK, Moved,
         FrameInv, Within, StoreOthers, CFOthers, PackOthers, worldVars

(* The last step touches the record only, and the worker is finished. *)
LEMMA ForgetEffect ==
    ASSUME BaseInv, Forget
    PROVE  /\ Typed' /\ Moved(Abort) /\ Within
           /\ UNCHANGED <<bits, installed, worldVars>>
<1>1. /\ FrameInv /\ Typed /\ Cur \in Names
      /\ UNCHANGED <<prepared, recovery, enroll, bits, installed, worldVars>>
  BY Working DEF Forget, Deleting
<1>2. PICK ok \in BOOLEAN : DeleteRecord(Cur, ok) /\ GoOr(ok, "done")
  BY DEF Forget
<1>3. Moved(Abort)
  BY <1>1, <1>2, DeleteTargets, OrMoves DEF Moved, Abort
<1>4. StoreTypeOK' /\ StoreOthers(Cur)
  BY <1>1, <1>2, DeleteEffect DEF Typed
<1>5. QED
  BY <1>1, <1>3, <1>4
     DEF Typed, CFTypeOK, PackTypeOK, WorkTypeOK, WorkerTypeOK, Moved,
         FrameInv, Within, CFOthers, PackOthers, WorkOthers, worldVars

-----------------------------------------------------------------------------
(* The steps that take a new snapshot, write the phase or the identity.    *)

(* A worker starts on a sandbox from what the store holds. *)
Entered(n) ==
    /\ FrameInv' /\ run'.name = n
    /\ Pos' \notin Finished => Exists(n) /\ run'.rec = store[n]
    /\ run'.mode = "delete" => Pos' \in {"observe"} \cup Finished
    /\ run'.mode = "create" /\ Pos' \notin Finished \cup {"top"} =>
            run'.rec.phase \in CreatePhases
    /\ Pos' = "recover" => run'.rec.phase \in NeedsEnrollment
    /\ Pos' # "claim"

(* The first effects of the phases. *)
LEMMA FirstTargets ==
    ASSUME NEW p \in CreatePhases
    PROVE  /\ FirstStep[p] \in Targets
           /\ FirstStep[p] \notin {"claim", "recover"} \cup Finished
  BY DEF FirstStep, CreatePhases, PreparePhases, NeedsEnrollment, WaitPhases,
         Targets, Steps, CreateSteps, DeleteSteps, Finished

(* What Dispatch and Top build is a frame. *)
LEMMA NewFrame ==
    ASSUME NEW n \in Names, NEW rec \in Record,
           NEW mode \in {"create", "delete"}, NEW step \in Steps,
           NEW then \in Steps \ {"persist"},
           run' = [name |-> n, mode |-> mode, step |-> step, then |-> then,
                   seen |-> "none", rec |-> rec]
    PROVE  /\ FrameInv' /\ run'.name = n /\ run'.mode = mode /\ run'.rec = rec
           /\ Pos' = IF step = "persist" THEN then ELSE step
  BY DEF FrameInv, Frame, Pos, At, Seen

(* ReconcileOne enters with the stored record, if there is one. *)
LEMMA DispatchEffect ==
    ASSUME StoreTypeOK, NEW n \in Names, Dispatch(n)
    PROVE  Entered(n)
<1>1. {"persist", "done", "top", "idle", "observe"} \subseteq Steps
  BY DEF Steps, CreateSteps, DeleteSteps
<1>2. NewRecord \in Record
  BY DEF NewRecord, Record, Phases, CreatePhases, PreparePhases, MaybeGuid
<1>3. CASE ~Exists(n)
  <2>1. run' = [name |-> n, mode |-> "create", step |-> "done", then |-> "idle",
                seen |-> "none", rec |-> NewRecord]
    BY <1>3 DEF Dispatch, Idle
  <2>2. QED
    BY <1>1, <1>2, <2>1, NewFrame DEF Entered, Finished
<1>4. CASE Exists(n)
  <2>1. store[n] \in Record
    BY <1>4, StoredIsRecord
  <2>2. CASE store[n].desired = "deleted"
    <3>1. run' = [name |-> n, mode |-> "delete", step |-> "persist",
                  then |-> "observe", seen |-> "none", rec |-> store[n]]
      BY <1>4, <2>2 DEF Dispatch
    <3>2. QED
      BY <1>1, <1>4, <2>1, <3>1, NewFrame DEF Entered, Finished
  <2>3. CASE store[n].desired # "deleted"
    <3>1. \E step \in {"done", "top"} :
            run' = [name |-> n, mode |-> "create", step |-> step,
                    then |-> "idle", seen |-> "none", rec |-> store[n]]
      BY <1>4, <2>3 DEF Dispatch
    <3>2. QED
      BY <1>1, <1>4, <2>1, <3>1, NewFrame DEF Entered, Finished
  <2>4. QED
    BY <2>2, <2>3
<1>5. QED
  BY <1>3, <1>4

(* So does the head of reconcileCreate's loop. *)
LEMMA TopEffect ==
    ASSUME BaseInv, Top
    PROVE  Idles /\ Entered(Cur)
<1>1. /\ FrameInv /\ Typed /\ Cur \in Names /\ run.mode = "create" /\ Idles
      /\ run.rec \in Record
  BY Working DEF Top, Creating, Idles
<1>2. {"persist", "done", "recheck", "recover", "idle", "observe"} \subseteq Steps
  BY DEF Steps, CreateSteps, DeleteSteps
<1> DEFINE frame(mode, step, then) ==
            [run EXCEPT !.rec = store[Cur], !.mode = mode,
                        !.step = step, !.then = then]
<1>3. ASSUME NEW mode \in {"create", "delete"}, NEW step \in Steps,
             NEW then \in Steps \ {"persist"}, Exists(Cur),
             run' = frame(mode, step, then)
      PROVE  /\ FrameInv' /\ run'.name = Cur /\ run'.mode = mode
             /\ run'.rec = store[Cur]
             /\ Pos' = IF step = "persist" THEN then ELSE step
  <2>1. store[Cur] \in Record
    BY <1>1, <1>3, StoredIsRecord DEF Typed
  <2>2. QED
    BY <1>1, <1>3, <2>1 DEF FrameInv, Frame, Pos, At, Cur
<1>4. CASE ~Exists(Cur)
  <2>1. run' = [run EXCEPT !.step = "done"]
    BY <1>4 DEF Top
  <2>2. QED
    BY <1>1, <1>2, <2>1
       DEF FrameInv, Frame, Pos, At, Cur, Entered, Finished
<1>5. CASE Exists(Cur)
  <2>1. \/ run' = frame("delete", "persist", "observe")
        \/ /\ store[Cur].phase \in NeedsEnrollment
           /\ run' = frame("create", "recover", "idle")
        \/ /\ store[Cur].phase \in CreatePhases
           /\ run' = frame("create", "persist", FirstStep[store[Cur].phase])
        \/ run' = frame("create", "done", "idle")
        \/ run' = frame("create", "recheck", "idle")
    BY <1>5 DEF Top
  <2> HIDE DEF frame
  <2>2. CASE run' = frame("delete", "persist", "observe")
    BY <1>1, <1>2, <1>3, <1>5, <2>2 DEF Entered, Finished
  <2>3. CASE /\ store[Cur].phase \in NeedsEnrollment
             /\ run' = frame("create", "recover", "idle")
    BY <1>1, <1>2, <1>3, <1>5, <2>3 DEF Entered, Finished, CreatePhases
  <2>4. CASE /\ store[Cur].phase \in CreatePhases
             /\ run' = frame("create", "persist", FirstStep[store[Cur].phase])
    <3>1. /\ FirstStep[store[Cur].phase] \in Steps \ {"persist"}
          /\ FirstStep[store[Cur].phase] \notin {"claim", "recover"}
      BY <2>4, FirstTargets DEF Targets
    <3>2. QED
      BY <1>1, <1>2, <1>3, <1>5, <2>4, <3>1 DEF Entered, Finished
  <2>5. CASE run' = frame("create", "done", "idle")
    BY <1>1, <1>2, <1>3, <1>5, <2>5 DEF Entered, Finished
  <2>6. CASE run' = frame("create", "recheck", "idle")
    BY <1>1, <1>2, <1>3, <1>5, <2>6 DEF Entered, Finished
  <2>7. QED
    BY <2>1, <2>2, <2>3, <2>4, <2>5, <2>6
<1>6. QED
  BY <1>1, <1>4, <1>5

(* After an error only fail is left to do. *)
LEMMA RecheckEffect ==
    ASSUME BaseInv, Recheck
    PROVE  /\ Idles /\ FrameInv' /\ run'.name = Cur /\ run'.mode = run.mode
           /\ Pos' = "fail"
<1>1. FrameInv /\ Typed /\ Cur \in Names /\ Idles
  BY Working DEF Recheck, Creating, Idles
<1>2. PICK rec \in Record : run' = [run EXCEPT !.step = "fail", !.rec = rec]
  <2>1. run.rec \in Record /\ (Exists(Cur) => store[Cur] \in Record)
    BY <1>1, StoredIsRecord DEF FrameInv, Frame, Typed
  <2>2. run' = [run EXCEPT !.step = "fail",
                    !.rec = IF Exists(Cur) THEN store[Cur] ELSE run.rec]
    BY <1>1 DEF Recheck, FrameInv, Frame
  <2>3. QED
    BY <2>1, <2>2
<1>3. "fail" \in Steps
  BY DEF Steps, CreateSteps
<1>4. QED
  BY <1>1, <1>2, <1>3 DEF FrameInv, Frame, Pos, At, Cur

(* A write of the phase keeps the identity. *)
LEMMA PersistStepEffect ==
    ASSUME BaseInv, PersistStep
    PROVE  /\ Typed' /\ Moved({Pos} \cup Abort) /\ Within /\ KeepsIds
           /\ UNCHANGED <<bits, installed, worldVars>>
<1>1. /\ FrameInv /\ Typed /\ Cur \in Names /\ run.rec \in Record
      /\ UNCHANGED <<prepared, recovery, enroll, bits, installed, worldVars>>
  BY Working DEF PersistStep
<1>2. PICK ok \in BOOLEAN :
        /\ UpdateRecord(Cur, Phased(IF run.mode = "create" THEN run.rec.phase
                                                       ELSE "deleting"), ok)
        /\ run' = [run EXCEPT !.then = "idle",
                              !.step = IF ok THEN run.then
                                       ELSE IF run.mode = "create"
                                       THEN "recheck" ELSE "done"]
  BY DEF PersistStep
<1>3. PICK p \in Phases : UpdateRecord(Cur, Phased(p), ok)
  BY <1>1, <1>2 DEF Record, Phases
<1>4. StoreTypeOK' /\ StoreOthers(Cur) /\ KeepsIds
  <2>1. Exists(Cur) => store[Cur] \in Record
    BY <1>1, StoredIsRecord DEF Typed
  <2>2. Exists(Cur) => /\ Phased(p) \in Record
                       /\ Follows(Phased(p), store[Cur])
    BY <2>1 DEF Phased, Record, Phases, Follows, KeepsDeletion
  <2>3. QED
    BY <1>1, <1>3, <2>2, UpdateEffect DEF Typed
<1>5. Moved({Pos} \cup Abort)
  <2>1. PICK s \in {run.then} \cup Abort :
            run' = [run EXCEPT !.then = "idle", !.step = s]
    BY <1>2 DEF Abort
  <2>2. s \in Steps /\ "idle" \in Steps /\ s # "persist" /\ Pos = run.then
    BY <1>1, AbortTargets DEF FrameInv, Frame, Targets, Steps, Pos, PersistStep
  <2>3. s \in {Pos} \cup Abort
    BY <2>1, <2>2
  <2>4. QED
    BY <1>1, <2>1, <2>2, <2>3 DEF FrameInv, Frame, Moved, SameTask, Pos, At
<1>6. QED
  BY <1>1, <1>4, <1>5
     DEF Typed, CFTypeOK, PackTypeOK, WorkTypeOK, WorkerTypeOK, Moved,
         FrameInv, Within, CFOthers, PackOthers, WorkOthers, worldVars

(* So does the write that records a failure. *)
LEMMA FailEffect ==
    ASSUME BaseInv, Fail
    PROVE  /\ Typed' /\ Moved(Abort) /\ Within /\ KeepsIds
           /\ UNCHANGED <<bits, installed, worldVars>>
<1>1. /\ FrameInv /\ Typed /\ Cur \in Names /\ run.rec \in Record
      /\ UNCHANGED <<prepared, recovery, enroll, bits, installed, worldVars>>
  BY Working DEF Fail
<1>2. PICK p \in Phases, ok \in BOOLEAN :
        UpdateRecord(Cur, [store[Cur] EXCEPT !.phase = "failed",
                                             !.resumePhase = p], ok)
  BY <1>1 DEF Fail, Record, Phases
<1>3. StoreTypeOK' /\ StoreOthers(Cur) /\ KeepsIds
  <2>1. Exists(Cur) => store[Cur] \in Record
    BY <1>1, StoredIsRecord DEF Typed
  <2>2. Exists(Cur) =>
          /\ [store[Cur] EXCEPT !.phase = "failed", !.resumePhase = p] \in Record
          /\ Follows([store[Cur] EXCEPT !.phase = "failed", !.resumePhase = p],
                     store[Cur])
    BY <2>1 DEF Record, Phases, Follows, KeepsDeletion
  <2>3. QED
    BY <1>1, <1>2, <2>2, UpdateEffect DEF Typed
<1>4. Moved(Abort)
  BY <1>1, AbortTargets, GoMoves DEF Fail, Moved, Abort
<1>5. QED
  BY <1>1, <1>3, <1>4
     DEF Typed, CFTypeOK, PackTypeOK, WorkTypeOK, WorkerTypeOK, Moved,
         FrameInv, Within, CFOthers, PackOthers, WorkOthers, worldVars

(* What is found under the name is taken into the snapshot. *)
LEMMA DiscoverEffect ==
    ASSUME BaseInv, Discover
    PROVE  /\ Idles /\ FrameInv' /\ run'.name = Cur /\ run'.mode = run.mode
           /\ Pos' \in {"claim"} \cup Abort
           /\ Pos' = "claim" =>
                /\ run'.rec.phase = run.rec.phase
                /\ run'.rec.appGUID \in Guids
                /\ run.rec.appGUID \in {NoGuid, run'.rec.appGUID}
<1>1. /\ FrameInv /\ Typed /\ Cur \in Names /\ Idles /\ run.rec \in Record
  BY Working DEF Discover, Creating, Idles
<1>2. CASE Oops
  BY <1>1, <1>2, OopsMoves DEF Moved, SameTask, Cur, Abort
<1>3. CASE /\ HasApp(Cur) /\ run.rec.appGUID \in {NoGuid, app[Cur].guid}
           /\ run' = [run EXCEPT !.step = "claim",
                                 !.rec.appGUID = app[Cur].guid]
  <2>1. app[Cur].guid \in Guids
    BY <1>1, <1>3 DEF HasApp, Typed, CFTypeOK, App
  <2>2. /\ [run.rec EXCEPT !.appGUID = app[Cur].guid] \in Record
        /\ [run.rec EXCEPT !.appGUID = app[Cur].guid].phase = run.rec.phase
        /\ [run.rec EXCEPT !.appGUID = app[Cur].guid].appGUID = app[Cur].guid
    BY <1>1, <2>1 DEF Record, MaybeGuid
  <2>3. run' = [run EXCEPT !.step = "claim",
                           !.rec = [run.rec EXCEPT !.appGUID = app[Cur].guid]]
    BY <1>1, <1>3 DEF FrameInv, Frame
  <2>4. "claim" \in Steps
    BY DEF Steps, CreateSteps
  <2>5. QED
    BY <1>1, <1>3, <2>1, <2>2, <2>3, <2>4 DEF FrameInv, Frame, Pos, At, Cur
<1>4. QED
  BY <1>2, <1>3 DEF Discover

(* Recording an identity where there was none, or the same, keeps all. *)
LEMMA ClaimEffect ==
    ASSUME BaseInv, CreateInv, Claim
    PROVE  /\ Typed' /\ Moved({"top"} \cup Abort) /\ Within
           /\ UNCHANGED <<bits, installed, worldVars>>
           /\ \A n \in Names : Exists(n) =>
                /\ Exists(n)'
                /\ KeepsDeletion(store'[n], store[n])
                /\ store[n].appGUID # NoGuid => store'[n].appGUID = store[n].appGUID
<1>1. /\ FrameInv /\ Typed /\ Cur \in Names /\ run.rec \in Record
      /\ recovery \in [Names -> NeedsEnrollment \cup {""}]
      /\ UNCHANGED <<prepared, enroll, bits, installed, worldVars>>
  BY Working DEF Claim, Creating
<1>2. /\ run.rec.appGUID \in Guids
      /\ store[Cur].appGUID \in {NoGuid, run.rec.appGUID}
  BY DEF CreateInv, Claim, Creating, At, Pos
<1>3. PICK p \in Phases, ok \in BOOLEAN :
        /\ UpdateRecord(Cur, [store[Cur] EXCEPT !.appGUID = run.rec.appGUID,
                                                !.phase = p], ok)
        /\ GoOr(ok, "top")
  <2>1. (IF recovery[Cur] # "" THEN recovery[Cur] ELSE "securing-route") \in Phases
    BY <1>1 DEF Phases, CreatePhases, NeedsEnrollment
  <2>2. QED
    BY <2>1 DEF Claim
<1>4. StoreTypeOK' /\ StoreOthers(Cur)
      /\ \A n \in Names : Exists(n) =>
                /\ Exists(n)'
                /\ KeepsDeletion(store'[n], store[n])
                /\ store[n].appGUID # NoGuid => store'[n].appGUID = store[n].appGUID
  <2>1. Exists(Cur) => store[Cur] \in Record
    BY <1>1, StoredIsRecord DEF Typed
  <2> DEFINE rec == [store[Cur] EXCEPT !.appGUID = run.rec.appGUID, !.phase = p]
  <2>2. Exists(Cur) => /\ rec \in Record /\ rec.appGUID = run.rec.appGUID
                       /\ KeepsDeletion(rec, store[Cur])
    BY <1>2, <2>1 DEF Record, MaybeGuid, KeepsDeletion
  <2> HIDE DEF rec
  <2>3. UpdateRecord(Cur, rec, ok)
    BY <1>3 DEF rec
  <2>4. QED
    BY <1>1, <1>2, <2>2, <2>3, UpdateEffect
       DEF Typed, StoreTypeOK, UpdateRecord, Commit, StoreOthers, Exists,
           KeepsDeletion
<1>5. Moved({"top"} \cup Abort)
  BY <1>1, <1>3, PlainTargets, OrMoves
<1>6. recovery' \in [Names -> NeedsEnrollment \cup {""}]
  BY <1>1 DEF Claim
<1>7. QED
  BY <1>1, <1>4, <1>5, <1>6
     DEF Typed, CFTypeOK, PackTypeOK, WorkTypeOK, WorkerTypeOK, Moved,
         FrameInv, Within, CFOthers, PackOthers, WorkOthers, worldVars

(* The policy on the manager's route is for the app in the snapshot. *)
LEMMA AllowEffect ==
    ASSUME BaseInv, Allow
    PROVE  /\ Typed' /\ Moved({"advance"} \cup Abort) /\ Within
           /\ UNCHANGED <<diskVars, app, route, member, late>>
           /\ leadPolicy' \subseteq leadPolicy \cup {run.rec.appGUID}
<1>1. /\ FrameInv /\ Typed /\ Cur \in Names /\ run.rec.appGUID \in MaybeGuid
      /\ UNCHANGED <<prepared, recovery, enroll, diskVars, member, late>>
  BY Working DEF Allow, Creating
<1>2. PICK ok \in BOOLEAN : /\ AddRoutePolicy(run.rec.appGUID, ok)
                            /\ GoOr(ok, "advance")
  BY DEF Allow
<1>3. Moved({"advance"} \cup Abort)
  BY <1>1, <1>2, PlainTargets, OrMoves
<1>4. CFTypeOK' /\ app' = app /\ route' = route
  BY <1>1, <1>2, PolicyEffect DEF Typed
<1>5. leadPolicy' \subseteq leadPolicy \cup {run.rec.appGUID}
  BY <1>2 DEF AddRoutePolicy
<1>6. QED
  BY <1>1, <1>3, <1>4, <1>5
     DEF Typed, StoreTypeOK, PackTypeOK, WorkTypeOK, WorkerTypeOK, Moved,
         FrameInv, Within, StoreOthers, CFOthers, PackOthers, WorkOthers,
         diskVars
=============================================================================
