------------------------------ MODULE Launcher ------------------------------
(***************************************************************************)
(* The launcher of a sandbox (sandbox/start-bash.sh) with a bootstrap      *)
(* server: it starts Herdr, lets the server join the Pack unless the trust *)
(* store is there, waits for the marker or the store, takes the port from  *)
(* the server and starts Collie on it.  When the script ends the container *)
(* ends with everything in it, and Cloud Foundry makes a new one from the  *)
(* droplet, in which the token is.                                         *)
(***************************************************************************)
EXTENDS Bootstrap

VARIABLES
    script,     \* where the script is; "down" without a container
    collie,     \* Collie runs
    found       \* this launch found the store already there

vars == <<calm, files, server, joiner, lead, script, collie, found>>

Places ==
    {"down", "herdr", "check", "poll", "alive", "consume", "kill", "reap", "collie"}

Init ==
    /\ calm = (Troubles = {})
    /\ BootstrapInit
    /\ script = "down" /\ collie = FALSE /\ found = FALSE

(* A container starts: a new one has the droplet's files.                  *)
Launch ==
    /\ script = "down"
    /\ script' = "herdr"
    /\ \/ token' = TRUE /\ marker' = FALSE /\ trust' = FALSE
       \/ Trouble("kept") /\ invite # "fresh" /\ UNCHANGED files
    /\ UNCHANGED <<calm, server, joiner, lead, collie, found>>

HerdrReady ==
    /\ script = "herdr" /\ script' = "check"
    /\ UNCHANGED <<calm, files, server, joiner, lead, collie, found>>

StartCollie == collie' = TRUE /\ script' = "collie"

(* With a store there is nothing to join; without one an old marker means  *)
(* nothing and is removed before the server starts.                        *)
LookForStore ==
    /\ script = "check"
    /\ found' = trust
    /\ \/ /\ trust /\ StartCollie
          /\ UNCHANGED <<marker, boot>>
       \/ /\ ~trust
          /\ marker' = FALSE /\ boot' = TRUE /\ script' = "poll"
          /\ UNCHANGED collie
    /\ UNCHANGED <<calm, token, trust, holder, req, gaveUp, joiner, lead>>

(* Mutant: the loop ends when the server does, whatever the files say. *)
MutantPoll ==
    /\ script = "poll"
    /\ script' = IF marker \/ trust \/ ~boot THEN "consume" ELSE "alive"
    /\ UNCHANGED <<calm, files, server, joiner, lead, collie, found>>

(* Mutant: the loop waits for the marker alone. *)
MutantPollMarker ==
    /\ script = "poll"
    /\ script' = IF marker THEN "consume" ELSE "alive"
    /\ UNCHANGED <<calm, files, server, joiner, lead, collie, found>>

(* The polling loop ends with the marker or the store; it looks for them   *)
(* and for the server in turn.                                             *)
Poll ==
    /\ script = "poll"
    /\ script' = IF marker \/ trust THEN "consume" ELSE "alive"
    /\ UNCHANGED <<calm, files, server, joiner, lead, collie, found>>

Alive ==
    /\ script = "alive" /\ boot /\ script' = "poll"
    /\ UNCHANGED <<calm, files, server, joiner, lead, collie, found>>

(* Mutant: the token is left to the server to remove. *)
MutantConsume ==
    /\ script = "consume" /\ script' = "kill"
    /\ UNCHANGED <<calm, files, server, joiner, lead, collie, found>>

Consume ==
    /\ script = "consume"
    /\ token' = (token /\ ~trust)
    /\ script' = "kill"
    /\ UNCHANGED <<calm, marker, trust, server, joiner, lead, collie, found>>

(* The server is told to end, ends, and is waited for. *)
Kill ==
    /\ script = "kill" /\ script' = "reap"
    /\ UNCHANGED <<calm, files, server, joiner, lead, collie, found>>

BootKilled ==
    /\ script = "reap" /\ boot /\ BootEnds
    /\ UNCHANGED <<calm, files, joiner, lead, script, collie, found>>

(* Mutant: the server is told to end but not waited for. *)
MutantReap ==
    /\ script = "reap" /\ StartCollie
    /\ UNCHANGED <<calm, files, server, joiner, lead, found>>

Reap ==
    /\ script = "reap" /\ ~boot
    /\ StartCollie
    /\ UNCHANGED <<calm, files, server, joiner, lead, found>>

(* The script ends, by a signal or with a child; cleanup and the end of    *)
(* the container leave no process.                                         *)
Ends ==
    /\ script' = "down" /\ collie' = FALSE /\ joiner' = "none"
    /\ BootEnds
    /\ UNCHANGED <<calm, files, found>>

(* The loop finds the server gone: the launch is over, even if the store   *)
(* has come meanwhile.                                                     *)
BootGone ==
    /\ script = "alive" /\ ~boot
    /\ Ends /\ UNCHANGED lead

(* It also ends when it cannot remove a file. *)
Stopped ==
    /\ Trouble("exit") /\ script # "down"
    /\ Ends /\ UNCHANGED lead

(* The server ends by itself while the loop polls. *)
BootFails ==
    /\ Trouble("exit") /\ boot /\ script # "down" /\ BootEnds
    /\ UNCHANGED <<calm, files, joiner, lead, script, collie, found>>

(* The manager stages the sandbox again, with a new invite and its token.  *)
Restage ==
    /\ Trouble("restage")
    /\ Ends
    /\ invite' = "fresh" /\ member' = member

Settle ==
    /\ ~calm /\ calm' = TRUE
    /\ UNCHANGED <<files, server, joiner, lead, script, collie, found>>

Script ==
    \/ Launch \/ HerdrReady \/ LookForStore \/ Poll \/ Alive
    \/ Consume \/ Kill \/ BootKilled \/ Reap \/ BootGone

Apart == UNCHANGED <<calm, script, collie, found>>

Next ==
    \/ Script
    \/ \E r \in Requests :
          /\ Post(r) \/ GiveUpRequest(r) \/ Collect(r) \/ Lock(r) \/ Serve(r)
          /\ Apart
    \/ (Join \/ InviteExpires) /\ Apart
    \/ Stopped \/ BootFails \/ Restage \/ Settle

Spec == Init /\ [][Next]_vars

(* Processes that can run do; a mutex that is given back again and again   *)
(* is got (Go's goes to the longest waiter).                               *)
Fairness ==
    /\ WF_vars(Script)
    /\ WF_vars(Join /\ Apart)
    /\ \A r \in Requests : /\ SF_vars(Lock(r) /\ Apart)
                           /\ WF_vars(Serve(r) /\ Apart)

FairSpec == Spec /\ Fairness

-----------------------------------------------------------------------------
TypeOK ==
    /\ calm \in BOOLEAN
    /\ token \in BOOLEAN /\ marker \in BOOLEAN /\ trust \in BOOLEAN
    /\ boot \in BOOLEAN /\ holder \in Requests \cup {NoRequest}
    /\ req \in [Requests -> Stages] /\ gaveUp \in [Requests -> BOOLEAN]
    /\ joiner \in {"none", "ok", "failed"} \cup Running
    /\ invite \in {"fresh", "used", "expired"} /\ member \in BOOLEAN
    /\ script \in Places /\ collie \in BOOLEAN /\ found \in BOOLEAN

(* Collie runs only in a sandbox that has joined, although the launcher    *)
(* goes by a marker that another process writes and that may be old.       *)
CollieHasJoined == collie => trust /\ member

(* The port is handed over: the server has ended when Collie starts.       *)
PortHandedOver == ~(collie /\ boot)

(* "joined" is answered only when it is so, whoever ran the join: this     *)
(* request, one before it, or one that was given up.                       *)
AnswerIsTrue ==
    [][\A r \in Requests :
         req[r] # "joined" /\ req'[r] = "joined" => trust /\ member]_vars

(* No token is left beside a Collie that this launch enrolled, even if the *)
(* server could not remove it or was killed before it did.                 *)
TokenConsumed == collie /\ ~found => ~token

(* One join at a time, and none once the store is there: an invite is not  *)
(* spent by a repeated or concurrent request.                              *)
NoSecondJoin ==
    [][joiner # "asking" /\ joiner' = "asking" => joiner = "none" /\ ~trust]_vars

(* A sandbox with a trust store gets its Collie, although the request may  *)
(* have been given up or cut off and the marker may never be written.      *)
JoinedRuns == trust ~> (collie \/ script = "down")

(* A request is answered, or cut off with the server; none waits for ever  *)
(* behind another.                                                         *)
RequestsEnd ==
    \A r \in Requests : req[r] = "wait" ~> req[r] \in Answers

(* Once troubles are over, a request with a fresh invite enrols the        *)
(* sandbox, unless one before it that was given up spends the invite.      *)
Enrols ==
    (/\ calm /\ boot /\ token /\ invite = "fresh"
     /\ \E r \in Requests : req[r] = "wait"
     /\ \A r \in Requests : ~gaveUp[r])
    ~> trust
=============================================================================
