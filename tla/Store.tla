------------------------------- MODULE Store -------------------------------
(***************************************************************************)
(* The sandbox registry as its callers see it (internal/store/file.go).    *)
(* Every operation holds File.mu, so it is one step.  A write that returns *)
(* an error has either changed nothing, or was renamed into place and only *)
(* the directory sync failed: then memory and disk hold the new value and  *)
(* the caller is told it failed.                                           *)
(***************************************************************************)
EXTENDS Environment

VARIABLE store      \* Names -> Record or NoRecord, in memory and on disk

StoreInit == store = [n \in Names |-> NoRecord]

StoreTypeOK == store \in [Names -> Record \cup {NoRecord}]

Exists(n) == store[n] # NoRecord

(* commit: the three outcomes of replacing the state file.  ok tells the   *)
(* caller whether an error was returned.                                   *)
Commit(n, rec, ok) ==
    \/ ok /\ store' = [store EXCEPT ![n] = rec]
    \/ /\ ~ok /\ Fault("lostWrite")
       /\ store' = store
    \/ /\ ~ok /\ Fault("appliedWrite")
       /\ store' = [store EXCEPT ![n] = rec]

(* Create refuses a taken name; the callers below only reach it untaken. *)
CreateRecord(n, ok) == ~Exists(n) /\ Commit(n, NewRecord, ok)

(* Update of a record that is gone is an error. *)
UpdateRecord(n, rec, ok) ==
    \/ Exists(n) /\ Commit(n, rec, ok)
    \/ ~Exists(n) /\ ~ok /\ store' = store

DeleteRecord(n, ok) ==
    \/ Exists(n) /\ Commit(n, NoRecord, ok)
    \/ ~Exists(n) /\ ~ok /\ store' = store
=============================================================================
