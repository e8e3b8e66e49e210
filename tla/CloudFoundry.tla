---------------------------- MODULE CloudFoundry ----------------------------
(***************************************************************************)
(* The Cloud Foundry space and the provider's operations on it             *)
(* (internal/cf/provider.go).  An operation is one or more cf commands; ok *)
(* says whether the provider returned nil (an error the reconciler treats  *)
(* as success counts as ok).  When it fails while the environment is not   *)
(* calm, any prefix of its commands may have taken effect.  The check of   *)
(* an app's GUID and the command that relies on it are separate commands,  *)
(* so they are separate operators and the reconciler takes them in two     *)
(* steps.  The operator of the space may push and delete apps as well.     *)
(***************************************************************************)
EXTENDS Environment

CONSTANT NoApp

VARIABLES
    app,        \* app[n]: the app named n, or NoApp
    route,      \* route[n]: which parts of n's identity route exist
    leadPolicy  \* GUIDs admitted by policies on the manager's own route

cfVars == <<app, route, leadPolicy>>

App ==
    [guid       : Guids,
     owner      : {"manager", "operator"},  \* who pushed it first
     token      : BOOLEAN,  \* its bits carry the invite prepared last
     configured : BOOLEAN,  \* all COLLIE_* and CF_* variables are set
     started    : BOOLEAN]

WholeRoute == {"created", "mapped", "guarded"}

ASSUME AppAssumption == NoApp \notin App

CFTypeOK ==
    /\ app \in [Names -> App \cup {NoApp}]
    /\ route \in [Names -> SUBSET WholeRoute]
    /\ leadPolicy \subseteq Guids

CFInit ==
    /\ app = [n \in Names |-> NoApp]
    /\ route = [n \in Names |-> {}]
    /\ leadPolicy = {}

HasApp(n) == app[n] # NoApp
Owns(n) == HasApp(n) /\ app[n].owner = "manager"
HasGuid(n, g) == HasApp(n) /\ app[n].guid = g

(* The sandbox's bootstrap server answers the manager over the route. *)
Answers(n) == Owns(n) /\ app[n].started /\ route[n] = WholeRoute

(* Mutant: without a recorded GUID an app of that name does not matter. *)
MutantStageRefused(n, expected) == expected # NoGuid /\ ~HasGuid(n, expected)

(* Stage, first half: `cf app n --guid` against the recorded GUID. *)
StageRefused(n, expected) ==
    IF expected = NoGuid THEN HasApp(n) ELSE ~HasGuid(n, expected)

(* Guids bounds the apps the space has room for: a new one needs one that  *)
(* nothing refers to, and is refused (a quota, say) when there is none.    *)
NoRoom(n, fresh) == ~HasApp(n) /\ fresh = {}

(* The app is taken off n's route; the route itself stays. *)
Unmapped(n) == [route EXCEPT ![n] = @ \ {"mapped"}]

(* Mutant: a push over an existing app leaves the old bits in place. *)
MutantPush(n, fresh, tok, ok) ==
    /\ \/ /\ HasApp(n) /\ (ok \/ MayFail)
          /\ app' = [app EXCEPT ![n].started = FALSE]
          /\ route' = Unmapped(n)
       \/ /\ ~HasApp(n) /\ (ok \/ MayFail)
          /\ \E g \in fresh :
                app' = [app EXCEPT ![n] =
                           [guid |-> g, owner |-> "manager", token |-> tok,
                            configured |-> FALSE, started |-> FALSE]]
          /\ UNCHANGED route
       \/ ~ok /\ (MayFail \/ NoRoom(n, fresh)) /\ UNCHANGED <<app, route>>
    /\ UNCHANGED leadPolicy

(* Stage, second half: `cf push --no-route --no-start`.  An existing app   *)
(* loses its routes, is stopped and gets the new bits; a new one gets one  *)
(* of the GUIDs in fresh.  A push that fails may have created the app with *)
(* or without bits, or have gone no further than the routes.               *)
Push(n, fresh, tok, ok) ==
    /\ \/ /\ HasApp(n) /\ (ok \/ MayFail)
          /\ app' = [app EXCEPT ![n].token = tok, ![n].started = FALSE]
          /\ route' = Unmapped(n)
       \/ /\ ~HasApp(n) /\ (ok \/ MayFail)
          /\ \E g \in fresh, t \in {tok, FALSE} :
                /\ ok => t = tok
                /\ app' = [app EXCEPT ![n] =
                              [guid |-> g, owner |-> "manager", token |-> t,
                               configured |-> FALSE, started |-> FALSE]]
          /\ UNCHANGED route
       \/ /\ ~ok /\ (MayFail \/ NoRoom(n, fresh))
          /\ app' = app /\ route' \in {route, Unmapped(n)}
    /\ UNCHANGED leadPolicy

(* ConfigureEnrollment and StartApp address the app by name alone. *)
ConfigureEnrollment(n, ok) ==
    /\ \/ /\ HasApp(n) /\ (ok \/ MayFail)
          /\ app' = [app EXCEPT ![n].configured = TRUE]
       \/ ~ok /\ (MayFail \/ ~HasApp(n)) /\ app' = app
    /\ UNCHANGED <<route, leadPolicy>>

StartApp(n, ok) ==
    /\ \/ /\ HasApp(n) /\ (ok \/ MayFail)
          /\ app' = [app EXCEPT ![n].started = TRUE]
       \/ ~ok /\ (MayFail \/ ~HasApp(n)) /\ app' = app
    /\ UNCHANGED <<route, leadPolicy>>

(* InspectApp addresses the app by GUID. *)
Inspected(n, g) == HasGuid(n, g) /\ app[n].started

(* SecureRoute: create-route, map-route, add-route-policy; the parts that  *)
(* are already there are skipped.  Mapping needs an app under the name.    *)
SecureRoute(n, ok) ==
    /\ \E done \in {{}, {"created"}, {"created", "mapped"}, WholeRoute} :
            /\ done = WholeRoute \/ ~ok
            /\ ok \/ MayFail \/ (~HasApp(n) /\ done = {"created"})
            /\ "mapped" \in done => HasApp(n)
            /\ route' = [route EXCEPT ![n] = @ \cup done]
    /\ UNCHANGED <<app, leadPolicy>>

AddRoutePolicy(g, ok) ==
    /\ \/ /\ g # NoGuid /\ (ok \/ MayFail)
          /\ leadPolicy' = leadPolicy \cup {g}
       \/ ~ok /\ (MayFail \/ g = NoGuid) /\ leadPolicy' = leadPolicy
    /\ UNCHANGED <<app, route>>

RemoveRoutePolicy(g, ok) ==
    /\ \/ (ok \/ MayFail) /\ leadPolicy' = leadPolicy \ {g}
       \/ ~ok /\ MayFail /\ leadPolicy' = leadPolicy
    /\ UNCHANGED <<app, route>>

(* RemoveRoute, first half: the policy goes before the name is resolved. *)
UnguardRoute(n, ok) ==
    /\ \/ (ok \/ MayFail) /\ route' = [route EXCEPT ![n] = @ \ {"guarded"}]
       \/ ~ok /\ MayFail /\ route' = route
    /\ UNCHANGED <<app, leadPolicy>>

(* RemoveRoute, second half: unmap-route when the GUID matched, then       *)
(* delete-route in any case.                                               *)
DeleteRoute(n, matched, ok) ==
    /\ \/ (ok \/ MayFail) /\ route' = [route EXCEPT ![n] = {}]
       \/ /\ ~ok /\ MayFail /\ matched
          /\ route' = Unmapped(n)
       \/ ~ok /\ MayFail /\ route' = route
    /\ UNCHANGED <<app, leadPolicy>>

(* An app takes its route mapping with it. *)
RemoveApp(n) ==
    /\ app' = [app EXCEPT ![n] = NoApp]
    /\ route' = Unmapped(n)
    /\ UNCHANGED leadPolicy

(* DeleteApp, second half: `cf delete n -f`, which is content when no app  *)
(* has the name.                                                           *)
DeleteApp(n, ok) ==
    \/ (ok \/ MayFail) /\ RemoveApp(n)
    \/ ~ok /\ MayFail /\ UNCHANGED cfVars

(* The operator of the space deletes an app, or pushes one of their own. *)
OperatorDeletes(n) == HasApp(n) /\ RemoveApp(n)

OperatorPushes(n, fresh) ==
    /\ ~HasApp(n)
    /\ \E g \in fresh :
            app' = [app EXCEPT ![n] =
                       [guid |-> g, owner |-> "operator", token |-> FALSE,
                        configured |-> FALSE, started |-> TRUE]]
    /\ UNCHANGED <<route, leadPolicy>>
=============================================================================
