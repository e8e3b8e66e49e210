----------------------------- MODULE Bootstrap -----------------------------
(***************************************************************************)
(* The bootstrap server of a sandbox (internal/bootstrap/server.go,        *)
(* cmd/sandbox-bootstrap) with the `collie pack join` it runs, the three   *)
(* files they share with the launcher, and the lead's side of a join.      *)
(*                                                                         *)
(* Requests are the manager's POSTs to /bootstrap/join.  The server works  *)
(* on one at a time; a request given up by the manager (a timeout) goes on *)
(* until it runs the join, which ends with its request.  The join itself   *)
(* is a process of its own: it survives the server.                        *)
(***************************************************************************)
EXTENDS FiniteSets

CONSTANTS Requests, NoRequest, Troubles

TroubleKinds ==
    {"giveUp",   \* the manager gives up a request
     "join",     \* a join is refused or fails half-way
     "expiry",   \* the invite expires
     "io",       \* a file cannot be written or removed
     "exit",     \* a process of the sandbox ends by itself
     "restage",  \* the manager pushes the sandbox anew, with a new invite
     "kept"}     \* the launcher is started again on the same disk

ASSUME BootstrapAssumption == NoRequest \notin Requests /\ Troubles \subseteq TroubleKinds

VARIABLES
    calm,       \* troubles are over
    token,      \* the invite's token is in its file
    marker,     \* the file that says the join is done
    trust,      \* the Pack's trust store, which `collie pack join` writes
    boot,       \* the server runs
    holder,     \* the request that holds Server.mu
    req,        \* where each request is
    gaveUp,     \* its context is cancelled
    joiner,     \* where the join process is
    invite,     \* the lead's invite
    member      \* the lead has accepted the sandbox

files == <<token, marker, trust>>
lead == <<invite, member>>
server == <<boot, holder, req, gaveUp>>

Trouble(kind) == ~calm /\ kind \in Troubles

Answers == {"joined", "error", "lost"}
Working == {"check", "open", "join", "mark", "clean"}
Stages == {"none", "wait"} \cup Working \cup Answers
Running == {"asking", "accepted", "wrote"}

BootstrapInit ==
    /\ token = FALSE /\ marker = FALSE /\ trust = FALSE
    /\ boot = FALSE /\ holder = NoRequest
    /\ req = [r \in Requests |-> "none"] /\ gaveUp = [r \in Requests |-> FALSE]
    /\ joiner = "none"
    /\ invite = "fresh" /\ member = FALSE

(* The manager sends a request, gives it up, or learns how it ended. *)
Post(r) ==
    /\ boot /\ req[r] = "none"
    /\ req' = [req EXCEPT ![r] = "wait"]
    /\ gaveUp' = [gaveUp EXCEPT ![r] = FALSE]
    /\ UNCHANGED <<boot, holder, joiner, files, lead>>

GiveUpRequest(r) ==
    /\ Trouble("giveUp") /\ req[r] \in {"wait"} \cup Working
    /\ gaveUp' = [gaveUp EXCEPT ![r] = TRUE]
    /\ UNCHANGED <<boot, holder, req, joiner, files, lead>>

Collect(r) ==
    /\ req[r] \in Answers
    /\ req' = [req EXCEPT ![r] = "none"]
    /\ UNCHANGED <<boot, holder, gaveUp, joiner, files, lead>>

-----------------------------------------------------------------------------
Goes(r, to) == req' = [req EXCEPT ![r] = to] /\ holder' = holder

(* Mutant: an error returns without giving the lock back. *)
MutantAnswer(r, with) ==
    /\ req' = [req EXCEPT ![r] = with]
    /\ holder' = IF with = "error" THEN holder ELSE NoRequest

(* The answer is written and the lock given back. *)
Answer(r, with) == req' = [req EXCEPT ![r] = with] /\ holder' = NoRequest

Lock(r) ==
    /\ boot /\ req[r] = "wait" /\ holder = NoRequest
    /\ req' = [req EXCEPT ![r] = "check"] /\ holder' = r
    /\ UNCHANGED <<boot, gaveUp, joiner, files, lead>>

(* Mutant: the store of a join that was given up is not looked for. *)
MutantCheck(r) ==
    /\ boot /\ req[r] = "check"
    /\ \/ marker /\ Answer(r, "joined")
       \/ ~marker /\ Goes(r, "open")
    /\ UNCHANGED <<boot, gaveUp, joiner, files, lead>>

(* The marker answers at once; a store without it is a join whose request  *)
(* did not get that far: only the marker is missing.                       *)
Check(r) ==
    /\ boot /\ req[r] = "check"
    /\ \/ marker /\ Answer(r, "joined")
       \/ ~marker /\ trust /\ Goes(r, "mark")
       \/ ~marker /\ ~trust /\ Goes(r, "open")
       \/ Trouble("io") /\ Answer(r, "error")
    /\ UNCHANGED <<boot, gaveUp, joiner, files, lead>>

(* A join is started with the token on its standard input; it is not for a *)
(* request that was given up.                                              *)
Open(r) ==
    /\ boot /\ req[r] = "open"
    /\ \/ (~token \/ gaveUp[r]) /\ Answer(r, "error") /\ joiner' = joiner
       \/ token /\ ~gaveUp[r] /\ Goes(r, "join") /\ joiner' = "asking"
    /\ UNCHANGED <<boot, gaveUp, files, lead>>

(* Mutant: a join has a deadline of its own, however short. *)
MutantKillJoiner(r) ==
    /\ boot /\ req[r] = "join" /\ joiner \in Running
    /\ joiner' = "failed"
    /\ UNCHANGED <<server, files, lead>>

(* exec.CommandContext kills the join of a request that is given up. *)
KillJoiner(r) ==
    /\ boot /\ req[r] = "join" /\ gaveUp[r] /\ joiner \in Running
    /\ joiner' = "failed"
    /\ UNCHANGED <<server, files, lead>>

(* Mutant: a join killed with its request is taken for done. *)
MutantJoinEnds(r) ==
    /\ boot /\ req[r] = "join"
    /\ (joiner = "ok" \/ (gaveUp[r] /\ joiner = "failed"))
    /\ Goes(r, "mark") /\ joiner' = "none"
    /\ UNCHANGED <<boot, gaveUp, files, lead>>

(* A join that ended well while it was being killed counts either way. *)
JoinEnds(r) ==
    /\ boot /\ req[r] = "join"
    /\ \/ joiner = "ok" /\ Goes(r, "mark")
       \/ joiner = "failed" /\ Answer(r, "error")
       \/ joiner = "ok" /\ gaveUp[r] /\ Answer(r, "error")
    /\ joiner' = "none"
    /\ UNCHANGED <<boot, gaveUp, files, lead>>

(* writeMarker: the marker appears by a rename. *)
Mark(r) ==
    /\ boot /\ req[r] = "mark"
    /\ \/ marker' = TRUE /\ Goes(r, "clean")
       \/ Trouble("io") /\ marker' = marker /\ Answer(r, "error")
    /\ UNCHANGED <<boot, gaveUp, joiner, token, trust, lead>>

(* The token is removed; that it could not be is logged at most. *)
Clean(r) ==
    /\ boot /\ req[r] = "clean"
    /\ token' \in (IF Trouble("io") THEN {FALSE, token} ELSE {FALSE})
    /\ Answer(r, "joined")
    /\ UNCHANGED <<boot, gaveUp, joiner, marker, trust, lead>>

Serve(r) ==
    Check(r) \/ Open(r) \/ KillJoiner(r) \/ JoinEnds(r) \/ Mark(r) \/ Clean(r)

-----------------------------------------------------------------------------
(* `collie pack join`, from what the server and the launcher rely on: the  *)
(* lead takes an invite once and records the member; then the store is     *)
(* written; then the process ends well.                                    *)
Accepted ==
    /\ joiner = "asking" /\ invite = "fresh"
    /\ joiner' = "accepted" /\ invite' = "used" /\ member' = TRUE
    /\ UNCHANGED <<server, files>>

StoreWritten ==
    /\ joiner = "accepted"
    /\ joiner' = "wrote" /\ trust' = TRUE
    /\ UNCHANGED <<server, token, marker, lead>>

JoinedWell ==
    /\ joiner = "wrote" /\ joiner' = "ok"
    /\ UNCHANGED <<server, files, lead>>

JoinFails ==
    /\ \/ joiner = "asking" /\ invite # "fresh"
       \/ joiner \in {"asking", "accepted"} /\ Trouble("join")
    /\ joiner' = "failed"
    /\ UNCHANGED <<server, files, lead>>

(* Nobody waits for a join that outlived the server. *)
Orphan ==
    /\ ~boot /\ joiner \in {"ok", "failed"} /\ joiner' = "none"
    /\ UNCHANGED <<server, files, lead>>

Join == Accepted \/ StoreWritten \/ JoinedWell \/ JoinFails \/ Orphan

InviteExpires ==
    /\ Trouble("expiry") /\ invite = "fresh" /\ invite' = "expired"
    /\ UNCHANGED <<server, files, joiner, member>>

(* The server ends: its requests are cut off, a join goes on. *)
BootEnds ==
    /\ boot' = FALSE /\ holder' = NoRequest
    /\ req' = [r \in Requests |->
                 IF req[r] \in {"wait"} \cup Working THEN "lost" ELSE req[r]]
    /\ UNCHANGED gaveUp
=============================================================================
