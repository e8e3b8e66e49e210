----------------------------- MODULE StoreFile -----------------------------
(***************************************************************************)
(* The sandbox store below its callers' view (internal/store/file.go): the *)
(* map in memory, the JSON file it is kept in, and the replacement of that *)
(* file by way of a temporary one.  Operations hold File.mu, so one is     *)
(* under way at a time; every call to the file system may fail; the        *)
(* process may be killed and the machine may lose power between any two    *)
(* calls.  A file system that cannot sync a directory, which the code      *)
(* accepts, is taken to make renames durable by itself.                    *)
(***************************************************************************)
EXTENDS FiniteSets

CONSTANTS Names, Data, NoData, Open, Absent, Torn

ASSUME StoreAssumption ==
    /\ NoData \notin Data /\ Open \notin Data \cup {NoData}
    /\ Absent # Torn
    /\ {Absent, Torn} \cap [Names -> Data \cup {NoData}] = {}

Maps == [Names -> Data \cup {NoData}]
NoRecords == [n \in Names |-> NoData]
Contents == Maps \cup {Absent, Torn}

Steps == {"create", "encode", "sync", "rename", "syncDir"}

VARIABLES
    up,         \* the manager runs and has loaded its state
    sandboxes,  \* File.sandboxes
    op,         \* the operation that holds File.mu, or Free: its step, the
                \* name it changes, the next map, whether its file is synced
    file,       \* what the path names now
    durable,    \* what it may name after a loss of power
    promise     \* what callers were told, for the properties

vars == <<up, sandboxes, op, file, durable, promise>>

Free == [step |-> "free"]

Init ==
    /\ up = FALSE
    /\ sandboxes = NoRecords
    /\ op = Free
    /\ file = Absent
    /\ durable = {Absent}
    /\ promise = NoRecords

(* Load's decoding: no file is no records. *)
Decode(c) == IF c = Absent THEN NoRecords ELSE c

(* Mutant: a missing file is not taken for no records. *)
MutantLoad ==
    /\ ~up /\ file # Torn
    /\ up' = TRUE /\ sandboxes' = file
    /\ UNCHANGED <<op, file, durable, promise>>

(* Load, on a new File; a file that does not decode ends the manager. *)
Load ==
    /\ ~up /\ file # Torn
    /\ up' = TRUE
    /\ sandboxes' = Decode(file)
    /\ UNCHANGED <<op, file, durable, promise>>

(* Mutant: the next map is made by changing the current one in place. *)
MutantBegin(n, d) ==
    /\ up /\ op = Free
    /\ sandboxes[n] # NoData \/ d # NoData
    /\ sandboxes' = [sandboxes EXCEPT ![n] = d]
    /\ op' = [step |-> "create", name |-> n, next |-> sandboxes', synced |-> FALSE]
    /\ promise' = [promise EXCEPT ![n] = Open]
    /\ UNCHANGED <<up, file, durable>>

(* Create, Update and Delete up to commit: the lock is taken and the next  *)
(* map made.  A refused operation (name taken, or not there) has no effect *)
(* and is left out.                                                        *)
Begin(n, d) ==
    /\ up /\ op = Free
    /\ sandboxes[n] # NoData \/ d # NoData
    /\ op' = [step |-> "create", name |-> n,
              next |-> [sandboxes EXCEPT ![n] = d], synced |-> FALSE]
    /\ promise' = [promise EXCEPT ![n] = Open]
    /\ UNCHANGED <<up, sandboxes, file, durable>>

(* writeAtomic's calls: MkdirAll, CreateTemp and Chmod; Encode; Sync and   *)
(* Close.  The temporary file has a name nothing else reads.               *)
CreateTemp ==
    /\ op.step = "create"
    /\ op' = [op EXCEPT !.step = "encode"]
    /\ UNCHANGED <<up, sandboxes, file, durable, promise>>

Encode ==
    /\ op.step = "encode"
    /\ op' = [op EXCEPT !.step = "sync"]
    /\ UNCHANGED <<up, sandboxes, file, durable, promise>>

(* Mutant: the temporary file is closed without a sync. *)
MutantSync ==
    /\ op.step = "sync" /\ op' = [op EXCEPT !.step = "rename"]
    /\ UNCHANGED <<up, sandboxes, file, durable, promise>>

Sync ==
    /\ op.step = "sync"
    /\ op' = [op EXCEPT !.step = "rename", !.synced = TRUE]
    /\ UNCHANGED <<up, sandboxes, file, durable, promise>>

(* What a loss of power may make of the new file's bytes. *)
Kept == IF op.synced THEN {op.next} ELSE {op.next, Torn}

Rename ==
    /\ op.step = "rename"
    /\ op' = [op EXCEPT !.step = "syncDir"]
    /\ file' = op.next
    /\ durable' = durable \cup Kept
    /\ UNCHANGED <<up, sandboxes, promise>>

(* One of these calls fails: the temporary file is removed, the caller     *)
(* gets the error, and nothing has changed.                                *)
GiveUp ==
    /\ op.step \in {"create", "encode", "sync", "rename"}
    /\ op' = Free
    /\ UNCHANGED <<up, sandboxes, file, durable, promise>>

(* Mutant: the directory is not synced after the rename. *)
MutantSyncDir ==
    /\ op.step = "syncDir" /\ op' = Free
    /\ sandboxes' = op.next
    /\ promise' = [promise EXCEPT ![op.name] = op.next[op.name]]
    /\ UNCHANGED <<up, file, durable>>

(* The directory is synced and commit takes the next map: reported done. *)
SyncDir ==
    /\ op.step = "syncDir"
    /\ durable' = Kept
    /\ sandboxes' = op.next
    /\ op' = Free
    /\ promise' = [promise EXCEPT ![op.name] = op.next[op.name]]
    /\ UNCHANGED <<up, file>>

(* Mutant: commit takes the next map only without an error. *)
MutantSyncDirFails ==
    /\ op.step = "syncDir" /\ op' = Free
    /\ UNCHANGED <<up, sandboxes, file, durable, promise>>

(* The sync fails: commit takes the next map, for the rename made it       *)
(* authoritative, and reports the error.                                   *)
SyncDirFails ==
    /\ op.step = "syncDir"
    /\ sandboxes' = op.next
    /\ op' = Free
    /\ UNCHANGED <<up, file, durable, promise>>

(* The process ends: only the file is left. *)
Killed ==
    /\ up
    /\ up' = FALSE
    /\ sandboxes' = NoRecords
    /\ op' = Free
    /\ UNCHANGED <<file, durable, promise>>

PowerLoss ==
    /\ up' = FALSE
    /\ sandboxes' = NoRecords
    /\ op' = Free
    /\ \E c \in durable : file' = c /\ durable' = {c}
    /\ UNCHANGED promise

Commit == CreateTemp \/ Encode \/ Sync \/ Rename \/ GiveUp \/ SyncDir \/ SyncDirFails

Next ==
    \/ Load
    \/ \E n \in Names, d \in Data \cup {NoData} : Begin(n, d)
    \/ Commit
    \/ Killed
    \/ PowerLoss

Spec == Init /\ [][Next]_vars

-----------------------------------------------------------------------------
Operation == [step : Steps, name : Names, next : Maps, synced : BOOLEAN]

(* The types of the variables. *)
TypeOK ==
    /\ up \in BOOLEAN
    /\ sandboxes \in Maps
    /\ op \in Operation \cup {Free}
    /\ file \in Contents
    /\ durable \subseteq Contents
    /\ promise \in [Names -> Data \cup {NoData, Open}]

(* Whenever the lock is free the map in memory is what a restart would     *)
(* load, even after a write that reported an error: a kill between two     *)
(* operations changes nothing a reader could have seen.                    *)
MemoryIsFile == up /\ op.step # "syncDir" => sandboxes = Decode(file)

(* No crash, however timed, leaves a half-written file, which Load would   *)
(* refuse for ever.                                                        *)
NeverTorn == Torn \notin durable \cup {file}

(* A change reported done is in the file after every later kill or loss of *)
(* power, until another change of the same name is asked for; writes of    *)
(* other records, finished, failed or cut short, do not endanger it.       *)
DoneSurvives ==
    \A n \in Names : promise[n] # Open =>
        \A c \in durable \cup {file} : Decode(c)[n] = promise[n]

(* The store implements the registry its callers rely on: its value is the *)
(* map in memory, or the file while the manager is down.                   *)
Value == IF up THEN sandboxes ELSE Decode(file)
Possible == {Decode(c) : c \in durable}

R == INSTANCE Registry WITH value <- Value, possible <- Possible

ImplementsRegistry == R!RegistrySpec
=============================================================================
