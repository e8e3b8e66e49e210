--------------------------- MODULE LauncherProofs ---------------------------
(***************************************************************************)
(* Proofs about Launcher, for any requests and any troubles.  LauncherInv  *)
(* says which files, processes and answers can be there together.          *)
(***************************************************************************)
EXTENDS Launcher, TLAPS

(* The marker is written after the store, the store after the lead's yes.  *)
FilesAgree == (marker => trust) /\ (trust => member)

JoinAgrees ==
    /\ joiner \in {"accepted", "wrote", "ok"} => member
    /\ joiner \in {"wrote", "ok"} => trust

(* The request that holds the lock is the only one that works; the server  *)
(* never has a join it does not wait for.                                  *)
LockAgrees ==
    /\ \A r \in Requests : req[r] \in Working => holder = r /\ boot
    /\ boot /\ joiner # "none" => holder \in Requests /\ req[holder] = "join"

RequestAgrees ==
    \A r \in Requests :
        /\ req[r] \in {"mark", "clean"} => trust
        /\ req[r] = "open" => joiner = "none" /\ ~trust

ScriptAgrees ==
    /\ script \in {"down", "herdr", "check"} => ~boot /\ joiner = "none"
    /\ script \in {"consume", "kill", "reap", "collie"} => trust
    /\ script \in {"kill", "reap"} => ~token
    /\ script = "collie" => ~boot /\ (~found => ~token)
    /\ collie => script = "collie"

LauncherInv ==
    TypeOK /\ FilesAgree /\ JoinAgrees /\ LockAgrees /\ RequestAgrees /\ ScriptAgrees

(* In the first state nothing runs and nothing is written. *)
LEMMA InitInv == Init => LauncherInv
  BY BootstrapAssumption
     DEF Init, BootstrapInit, LauncherInv, TypeOK, FilesAgree, JoinAgrees, LockAgrees,
         RequestAgrees, ScriptAgrees, Stages, Answers, Working, Running, Places

(* A request that waits outside the lock: sent, given up, or collected. *)
LEMMA Outside ==
    ASSUME LauncherInv, NEW r \in Requests,
           Post(r) \/ GiveUpRequest(r) \/ Collect(r), Apart
    PROVE  LauncherInv'
<1>1. CASE Post(r)
  BY <1>1 DEF LauncherInv, TypeOK, FilesAgree, JoinAgrees, LockAgrees, RequestAgrees,
              ScriptAgrees, Post, Apart, Stages, Answers, Working, files, lead
<1>2. CASE GiveUpRequest(r)
  BY <1>2 DEF LauncherInv, TypeOK, FilesAgree, JoinAgrees, LockAgrees, RequestAgrees,
              ScriptAgrees, GiveUpRequest, Apart, Stages, Answers, Working, files, lead
<1>3. CASE Collect(r)
  BY <1>3 DEF LauncherInv, TypeOK, FilesAgree, JoinAgrees, LockAgrees, RequestAgrees,
              ScriptAgrees, Collect, Apart, Stages, Answers, Working, files, lead
<1> QED BY <1>1, <1>2, <1>3

(* Taking the lock: nobody works, so nobody joins. *)
LEMMA Locking ==
    ASSUME LauncherInv, NEW r \in Requests, Lock(r), Apart
    PROVE  LauncherInv'
  BY BootstrapAssumption
     DEF LauncherInv, TypeOK, FilesAgree, JoinAgrees, LockAgrees, RequestAgrees,
         ScriptAgrees, Lock, Apart, Stages, Answers, Working, Running, files, lead

(* The steps of the request that holds the lock. *)
LEMMA Serving ==
    ASSUME LauncherInv, NEW r \in Requests, Serve(r), Apart
    PROVE  LauncherInv'
<1> USE BootstrapAssumption
    DEF LauncherInv, TypeOK, FilesAgree, JoinAgrees, LockAgrees, RequestAgrees,
        ScriptAgrees, Apart, Stages, Answers, Working, Running, Goes, Answer, files,
        lead, server
<1>1. CASE Check(r) BY <1>1 DEF Check
<1>2. CASE Open(r) BY <1>2 DEF Open
<1>3. CASE KillJoiner(r) BY <1>3 DEF KillJoiner
<1>4. CASE JoinEnds(r) BY <1>4 DEF JoinEnds
<1>5. CASE Mark(r) BY <1>5 DEF Mark
<1>6. CASE Clean(r) BY <1>6 DEF Clean
<1> QED BY <1>1, <1>2, <1>3, <1>4, <1>5, <1>6 DEF Serve

(* The join process and the lead. *)
LEMMA Joining ==
    ASSUME LauncherInv, Join \/ InviteExpires, Apart
    PROVE  LauncherInv'
<1> USE BootstrapAssumption
    DEF LauncherInv, TypeOK, FilesAgree, JoinAgrees, LockAgrees, RequestAgrees,
        ScriptAgrees, Apart, Stages, Answers, Working, Running, files, lead, server
<1>1. CASE Accepted BY <1>1 DEF Accepted
<1>2. CASE StoreWritten BY <1>2 DEF StoreWritten
<1>3. CASE JoinedWell BY <1>3 DEF JoinedWell
<1>4. CASE JoinFails BY <1>4 DEF JoinFails
<1>5. CASE Orphan BY <1>5 DEF Orphan
<1>6. CASE InviteExpires BY <1>6 DEF InviteExpires
<1> QED BY <1>1, <1>2, <1>3, <1>4, <1>5, <1>6 DEF Join

(* The script, and the ends that come from outside. *)
LEMMA Scripting ==
    ASSUME LauncherInv, Script \/ Stopped \/ BootFails \/ Restage \/ Settle
    PROVE  LauncherInv'
<1> USE BootstrapAssumption
    DEF LauncherInv, TypeOK, FilesAgree, JoinAgrees, LockAgrees, RequestAgrees,
        ScriptAgrees, Stages, Answers, Working, Running, Places, files, lead, server
<1>1. CASE Launch
  <2>1. \A r \in Requests : req[r] \notin Working
    BY <1>1 DEF Launch
  <2>2. LockAgrees' /\ RequestAgrees'
    BY <1>1, <2>1 DEF Launch
  <2>3. TypeOK'
    BY <1>1 DEF Launch
  <2>4. FilesAgree' /\ JoinAgrees'
    BY <1>1 DEF Launch
  <2>5. ScriptAgrees'
    BY <1>1 DEF Launch
  <2> QED BY <2>2, <2>3, <2>4, <2>5
<1>2. CASE HerdrReady BY <1>2 DEF HerdrReady
<1>3. CASE LookForStore
  <2>1. \A r \in Requests : req[r] \notin Working
    BY <1>3 DEF LookForStore
  <2>2. LockAgrees' /\ RequestAgrees'
    BY <1>3, <2>1 DEF LookForStore, StartCollie
  <2>3. TypeOK'
    BY <1>3 DEF LookForStore, StartCollie
  <2>4. FilesAgree' /\ JoinAgrees'
    BY <1>3 DEF LookForStore, StartCollie
  <2>5. ScriptAgrees'
    BY <1>3 DEF LookForStore, StartCollie
  <2> QED BY <2>2, <2>3, <2>4, <2>5
<1>4. CASE Poll BY <1>4 DEF Poll
<1>5. CASE Alive BY <1>5 DEF Alive
<1>6. CASE Consume BY <1>6 DEF Consume
<1>7. CASE Kill BY <1>7 DEF Kill
<1>8. CASE BootKilled BY <1>8 DEF BootKilled, BootEnds
<1>9. CASE Reap BY <1>9 DEF Reap, StartCollie
<1>10. CASE BootGone BY <1>10 DEF BootGone, Ends, BootEnds
<1>11. CASE Stopped BY <1>11 DEF Stopped, Ends, BootEnds
<1>12. CASE BootFails
  <2>1. TypeOK'
    BY <1>12 DEF BootFails, BootEnds
  <2>2. LockAgrees' /\ RequestAgrees'
    BY <1>12, <2>1 DEF BootFails, BootEnds
  <2>3. FilesAgree' /\ JoinAgrees' /\ ScriptAgrees'
    BY <1>12 DEF BootFails, BootEnds
  <2> QED BY <2>1, <2>2, <2>3
<1>13. CASE Restage
  <2>1. TypeOK'
    BY <1>13 DEF Restage, Ends, BootEnds
  <2>2. LockAgrees' /\ RequestAgrees'
    BY <1>13, <2>1 DEF Restage, Ends, BootEnds
  <2>3. FilesAgree' /\ JoinAgrees' /\ ScriptAgrees'
    BY <1>13 DEF Restage, Ends, BootEnds
  <2> QED BY <2>1, <2>2, <2>3
<1>14. CASE Settle BY <1>14 DEF Settle
<1> QED
  BY <1>1, <1>2, <1>3, <1>4, <1>5, <1>6, <1>7, <1>8, <1>9, <1>10, <1>11, <1>12,
     <1>13, <1>14 DEF Script

(* The invariant is inductive. *)
LEMMA StepInv == LauncherInv /\ [Next]_vars => LauncherInv'
<1> SUFFICES ASSUME LauncherInv, [Next]_vars PROVE LauncherInv'
  OBVIOUS
<1>1. CASE UNCHANGED vars
  BY <1>1 DEF vars, files, server, lead, LauncherInv, TypeOK, FilesAgree, JoinAgrees,
              LockAgrees, RequestAgrees, ScriptAgrees
<1>2. CASE Script \/ Stopped \/ BootFails \/ Restage \/ Settle
  BY <1>2, Scripting
<1>3. CASE (Join \/ InviteExpires) /\ Apart
  BY <1>3, Joining
<1>4. ASSUME NEW r \in Requests, Apart,
             Post(r) \/ GiveUpRequest(r) \/ Collect(r) \/ Lock(r) \/ Serve(r)
      PROVE  LauncherInv'
  BY <1>4, Outside, Locking, Serving
<1> QED BY <1>1, <1>2, <1>3, <1>4 DEF Next

(* The invariant holds throughout. *)
LEMMA Invariance == Spec => []LauncherInv
  BY InitInv, StepInv, PTL DEF Spec

(* The variables keep their types. *)
THEOREM LauncherTyped == Spec => []TypeOK
<1>1. LauncherInv => TypeOK BY DEF LauncherInv
<1> QED BY <1>1, Invariance, PTL

(* Collie runs only in a sandbox that has joined (start-bash.sh:146-167),  *)
(* whoever wrote the file the launcher went by.                            *)
THEOREM OnlyMembersRun == Spec => []CollieHasJoined
<1>1. LauncherInv => CollieHasJoined
  BY DEF LauncherInv, ScriptAgrees, FilesAgree, CollieHasJoined
<1> QED BY <1>1, Invariance, PTL

(* The bootstrap server and Collie never run at the same time, so the port *)
(* is free when Collie binds it (start-bash.sh:161-167).                   *)
THEOREM PortIsFree == Spec => []PortHandedOver
<1>1. LauncherInv => PortHandedOver
  BY DEF LauncherInv, ScriptAgrees, PortHandedOver
<1> QED BY <1>1, Invariance, PTL

(* A launch that enrolled the sandbox leaves no token beside its Collie    *)
(* (start-bash.sh:158-160), whatever the server could not remove.          *)
THEOREM NoTokenLeft == Spec => []TokenConsumed
<1>1. LauncherInv => TokenConsumed
  BY DEF LauncherInv, ScriptAgrees, TokenConsumed
<1> QED BY <1>1, Invariance, PTL

(* "joined" is answered (bootstrap/server.go:75) only to a sandbox that    *)
(* has joined.                                                             *)
THEOREM AnswersAreTrue == Spec => AnswerIsTrue
<1>1. LauncherInv /\ [Next]_vars
      => [\A r \in Requests :
             req[r] # "joined" /\ req'[r] = "joined" => trust /\ member]_vars
  <2> SUFFICES ASSUME LauncherInv, Next, NEW r \in Requests,
                      req[r] # "joined", req'[r] = "joined"
               PROVE  trust /\ member
    OBVIOUS
  <2> USE DEF LauncherInv, TypeOK, Stages, Answers, Working
  <2>1. ASSUME NEW q \in Requests,
               Post(q) \/ GiveUpRequest(q) \/ Collect(q) \/ Lock(q)
        PROVE  FALSE
    BY <2>1 DEF Post, GiveUpRequest, Collect, Lock
  <2>2. ASSUME NEW q \in Requests, Serve(q) PROVE trust /\ member
    <3>1. CASE Check(q)
      BY <3>1 DEF Check, Answer, Goes, FilesAgree
    <3>2. CASE Clean(q)
      BY <3>2 DEF Clean, Answer, RequestAgrees, FilesAgree
    <3>3. CASE Open(q) \/ KillJoiner(q) \/ JoinEnds(q) \/ Mark(q)
      BY <3>3 DEF Open, KillJoiner, JoinEnds, Mark, Answer, Goes, server
    <3> QED BY <2>2, <3>1, <3>2, <3>3 DEF Serve
  <2>3. ASSUME Join \/ InviteExpires PROVE FALSE
    BY <2>3 DEF Join, Accepted, StoreWritten, JoinedWell, JoinFails, Orphan,
                InviteExpires, server
  <2>4. ASSUME Script \/ Stopped \/ BootFails \/ Restage \/ Settle PROVE FALSE
    BY <2>4 DEF Script, Launch, HerdrReady, LookForStore, Poll, Alive, Consume, Kill,
                BootKilled, Reap, BootGone, Stopped, BootFails, Restage, Settle, Ends,
                BootEnds, StartCollie, server
  <2> QED BY <2>1, <2>2, <2>3, <2>4 DEF Next
<1> QED BY <1>1, Invariance, PTL DEF Spec, AnswerIsTrue

(* No join is started beside another, nor once the store is there: an      *)
(* invite is not spent twice by requests that are repeated or given up.    *)
THEOREM JoinsOnce == Spec => NoSecondJoin
<1>1. LauncherInv /\ [Next]_vars
      => [joiner # "asking" /\ joiner' = "asking" => joiner = "none" /\ ~trust]_vars
  <2> SUFFICES ASSUME LauncherInv, Next, joiner # "asking", joiner' = "asking"
               PROVE  joiner = "none" /\ ~trust
    OBVIOUS
  <2>1. ASSUME NEW q \in Requests, Open(q) PROVE joiner = "none" /\ ~trust
    BY <2>1 DEF Open, LauncherInv, RequestAgrees
  <2>2. ASSUME NEW q \in Requests,
               \/ Post(q) \/ GiveUpRequest(q) \/ Collect(q) \/ Lock(q)
               \/ Check(q) \/ KillJoiner(q) \/ JoinEnds(q) \/ Mark(q) \/ Clean(q)
        PROVE  FALSE
    BY <2>2 DEF Post, GiveUpRequest, Collect, Lock, Check, KillJoiner, JoinEnds, Mark,
                Clean
  <2>3. ASSUME Join \/ InviteExpires PROVE FALSE
    BY <2>3 DEF Join, Accepted, StoreWritten, JoinedWell, JoinFails, Orphan,
                InviteExpires
  <2>4. ASSUME Script \/ Stopped \/ BootFails \/ Restage \/ Settle PROVE FALSE
    BY <2>4 DEF Script, Launch, HerdrReady, LookForStore, Poll, Alive, Consume, Kill,
                BootKilled, Reap, BootGone, Stopped, BootFails, Restage, Settle, Ends
  <2> QED BY <2>1, <2>2, <2>3, <2>4 DEF Next, Serve
<1> QED BY <1>1, Invariance, PTL DEF Spec, NoSecondJoin
=============================================================================
