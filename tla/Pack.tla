-------------------------------- MODULE Pack --------------------------------
(***************************************************************************)
(* The Pack roster kept by the lead Collie, and the invites the manager    *)
(* prepares (internal/pack/manager.go).  A sandbox joins when the manager  *)
(* asks its bootstrap server to (internal/identity/client.go,              *)
(* internal/bootstrap/server.go); the request may be given up on while the *)
(* join it started is still on its way.                                    *)
(***************************************************************************)
EXTENDS CloudFoundry

VARIABLES
    member,     \* member[n]: GUID of the app that joined as n, or NoGuid
    late,       \* late[n]: GUID of the app whose join is still on its way
    enroll      \* enroll[n]: this process's invite handle for n

packVars == <<member, late, enroll>>

PackTypeOK ==
    /\ member \in [Names -> MaybeGuid]
    /\ late \in [Names -> MaybeGuid]
    /\ enroll \in [Names -> {"none", "live", "expired"}]

PackInit ==
    /\ member = [n \in Names |-> NoGuid]
    /\ late = [n \in Names |-> NoGuid]
    /\ enroll = [n \in Names |-> "none"]

MemberPresent(n) == member[n] # NoGuid

(* A join needs the manager's route policy for the app and an invite the   *)
(* lead still knows.                                                       *)
CanJoin(n) == Answers(n) /\ app[n].guid \in leadPolicy /\ app[n].token

(* TriggerEnrollment: POST /bootstrap/join over the identity route. *)
TriggerEnrollment(n, ok) ==
    /\ \/ /\ CanJoin(n) /\ (ok \/ MayFail)
          /\ member' = [member EXCEPT ![n] = app[n].guid]
          /\ late' = late
       \/ /\ ~ok /\ Fault("lateJoin") /\ CanJoin(n)
          /\ late' = [late EXCEPT ![n] = app[n].guid]
          /\ member' = member
       \/ /\ ~ok /\ (MayFail \/ ~CanJoin(n) \/ enroll[n] # "live")
          /\ UNCHANGED <<member, late>>
    /\ UNCHANGED enroll

(* The join the request gave up on reaches the lead, or comes to nothing. *)
JoinLands(n) ==
    /\ late[n] # NoGuid
    /\ late' = [late EXCEPT ![n] = NoGuid]
    /\ \/ /\ HasGuid(n, late[n]) /\ late[n] \in leadPolicy
          /\ ~MemberPresent(n)
          /\ member' = [member EXCEPT ![n] = late[n]]
       \/ member' = member
    /\ UNCHANGED enroll

(* RemoveMember: `collie pack remove`, then a restart of the lead. *)
RemoveMember(n, ok) ==
    /\ \/ (ok \/ MayFail) /\ member' = [member EXCEPT ![n] = NoGuid]
       \/ ~ok /\ MayFail /\ member' = member
    /\ UNCHANGED <<late, enroll>>

(* The expiry of an invite passes; its timer removes the file. *)
InviteExpires(n) ==
    /\ Fault("expiry") /\ enroll[n] = "live"
    /\ enroll' = [enroll EXCEPT ![n] = "expired"]
    /\ UNCHANGED <<member, late>>
=============================================================================
