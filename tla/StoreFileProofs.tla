-------------------------- MODULE StoreFileProofs --------------------------
(***************************************************************************)
(* The properties of StoreFile for every set of names and data, and that   *)
(* it implements Registry.                                                 *)
(***************************************************************************)
EXTENDS StoreFile, TLAPS

(* What an operation under way has achieved by its step. *)
OpOK ==
    /\ op # Free => /\ up
                    /\ promise[op.name] = Open
                    /\ op.next = [sandboxes EXCEPT ![op.name] = op.next[op.name]]
    /\ op.step \in {"rename", "syncDir"} => op.synced
    /\ op.step = "syncDir" => file = op.next

(* The inductive invariant. *)
Inv ==
    /\ TypeOK
    /\ OpOK
    /\ MemoryIsFile
    /\ NeverTorn
    /\ file \in durable
    /\ DoneSurvives

-----------------------------------------------------------------------------
(* The special contents are not maps, and decoding a good file gives one. *)
LEMMA Decoding ==
    /\ NoRecords \in Maps
    /\ \A m \in Maps : Decode(m) = m /\ m \in Contents /\ m # Torn
    /\ Decode(Absent) = NoRecords
    /\ \A c \in Contents : c # Torn => Decode(c) \in Maps
  <1>1. NoRecords \in Maps
    BY DEF NoRecords, Maps
  <1>2. \A m \in Maps : m # Absent /\ m # Torn
    BY StoreAssumption DEF Maps
  <1>3. QED
    BY <1>1, <1>2 DEF Decode, Contents

(* An operation has one of five steps; the free lock has none of them. *)
LEMMA StepOfFree == Free.step = "free"
  BY DEF Free

(* Types are kept. *)
LEMMA TypeKept == TypeOK /\ OpOK /\ [Next]_vars /\ NeverTorn => TypeOK'
  <1> SUFFICES ASSUME TypeOK, OpOK, [Next]_vars, NeverTorn PROVE TypeOK'
    OBVIOUS
  <1> USE DEF TypeOK
  <1>1. op # Free => op \in Operation
    OBVIOUS
  <1>2. CASE Load
    BY <1>2, Decoding DEF Load
  <1>3. ASSUME NEW n \in Names, NEW d \in Data \cup {NoData}, Begin(n, d)
        PROVE TypeOK'
    BY <1>3 DEF Begin, Operation, Steps, Maps
  <1>4. CASE Commit
    <2>1. op.step # "free" => op \in Operation
      BY StepOfFree, <1>1
    <2>2. op.step \in Steps
      BY <1>4 DEF Commit, CreateTemp, Encode, Sync, Rename, GiveUp, SyncDir,
                  SyncDirFails, Steps
    <2>3. op \in Operation
      BY <2>1, <2>2 DEF Steps
    <2>4. op.next \in Contents /\ Torn \in Contents
      BY <2>3 DEF Operation, Contents
    <2>5. CASE CreateTemp
      BY <2>5, <2>3 DEF CreateTemp, Operation, Steps
    <2>6. CASE Encode
      BY <2>6, <2>3 DEF Encode, Operation, Steps
    <2>7. CASE Sync
      BY <2>7, <2>3 DEF Sync, Operation, Steps
    <2>8. CASE Rename
      BY <2>8, <2>3, <2>4 DEF Rename, Operation, Steps, Kept
    <2>9. CASE GiveUp
      BY <2>9 DEF GiveUp
    <2>10. CASE SyncDir
      <3>1. op.name \in Names /\ op.next \in Maps
        BY <2>3 DEF Operation
      <3>2. op.next[op.name] \in Data \cup {NoData}
        BY <3>1 DEF Maps
      <3>3. QED
        BY <2>10, <3>1, <3>2, <2>4 DEF SyncDir, Kept
    <2>11. CASE SyncDirFails
      BY <2>11, <2>3 DEF SyncDirFails, Operation
    <2>12. QED
      BY <1>4, <2>5, <2>6, <2>7, <2>8, <2>9, <2>10, <2>11 DEF Commit
  <1>5. CASE Killed
    BY <1>5, Decoding DEF Killed
  <1>6. CASE PowerLoss
    BY <1>6, Decoding DEF PowerLoss
  <1>7. CASE UNCHANGED vars
    BY <1>7 DEF vars
  <1>8. QED
    BY <1>2, <1>3, <1>4, <1>5, <1>6, <1>7 DEF Next

(* An operation under way, written out. *)
LEMMA UnderWay ==
    ASSUME TypeOK, op # Free
    PROVE  /\ op \in Operation /\ op.name \in Names /\ op.next \in Maps
           /\ op.next[op.name] \in Data \cup {NoData}
           /\ op.step \in Steps
  BY DEF TypeOK, Operation, Maps

(* Each of commit's steps works for an operation under way. *)
LEMMA CommitOf == Commit => op # Free
  BY StepOfFree DEF Commit, CreateTemp, Encode, Sync, Rename, GiveUp, SyncDir, SyncDirFails

(* A change kept in memory only adds to what the file promises: the names  *)
(* it leaves alone read as they did.                                       *)
LEMMA OthersUnchanged ==
    ASSUME Inv, op # Free, op.step # "syncDir",
           NEW n \in Names, promise[n] # Open
    PROVE  op.next[n] = promise[n]
  <1>1. n # op.name /\ op.next = [sandboxes EXCEPT ![op.name] = op.next[op.name]]
    BY DEF Inv, OpOK
  <1>2. op.next[n] = sandboxes[n]
    BY <1>1 DEF Inv, TypeOK, Maps
  <1>3. sandboxes[n] = promise[n]
    BY DEF Inv, OpOK, MemoryIsFile, DoneSurvives
  <1>4. QED
    BY <1>2, <1>3

(* The invariant is kept. *)
LEMMA InvKept == Inv /\ [Next]_vars => Inv'
  <1> SUFFICES ASSUME Inv, [Next]_vars PROVE Inv'
    OBVIOUS
  <1>0. TypeOK'
    BY TypeKept DEF Inv
  <1> SUFFICES OpOK' /\ MemoryIsFile' /\ NeverTorn' /\ (file \in durable)' /\ DoneSurvives'
    BY <1>0 DEF Inv
  <1>1. TypeOK /\ OpOK /\ MemoryIsFile /\ NeverTorn /\ file \in durable /\ DoneSurvives
    BY DEF Inv
  <1>2. CASE Load
    BY <1>2, <1>1 DEF Load, OpOK, MemoryIsFile, NeverTorn, DoneSurvives
  <1>3. ASSUME NEW n \in Names, NEW d \in Data \cup {NoData}, Begin(n, d)
        PROVE  OpOK' /\ MemoryIsFile' /\ NeverTorn' /\ (file \in durable)' /\ DoneSurvives'
    <2>1. /\ op'.name = n /\ op'.step = "create" /\ op'.synced = FALSE
          /\ op'.next = [sandboxes EXCEPT ![n] = d]
          /\ promise' = [promise EXCEPT ![n] = Open]
          /\ up' /\ up' = up /\ sandboxes' = sandboxes /\ file' = file /\ durable' = durable
          /\ op = Free
      BY <1>3 DEF Begin
    <2>2. op'.next = [sandboxes' EXCEPT ![n] = op'.next[n]]
      BY <2>1, <1>1 DEF TypeOK, Maps
    <2>3. promise'[n] = Open
      BY <2>1, <1>1 DEF TypeOK
    <2>4. OpOK'
      BY <2>1, <2>2, <2>3 DEF OpOK
    <2>5. MemoryIsFile' /\ NeverTorn' /\ (file \in durable)'
      BY <2>1, <1>1, StepOfFree DEF MemoryIsFile, NeverTorn
    <2>6. DoneSurvives'
      BY <2>1, <2>3, <1>1 DEF DoneSurvives, TypeOK
    <2>7. QED
      BY <2>4, <2>5, <2>6
  <1>4. CASE CreateTemp \/ Encode \/ Sync
    <2>1. /\ op # Free /\ op'.step \in {"encode", "sync", "rename"}
          /\ op'.name = op.name /\ op'.next = op.next
          /\ op.step # "syncDir"
          /\ op'.step = "rename" => op'.synced
          /\ UNCHANGED <<up, sandboxes, file, durable, promise>>
      <3>1. op # Free
        BY <1>4, CommitOf DEF Commit
      <3>2. op \in Operation
        BY <3>1, <1>1, UnderWay
      <3>3. CASE CreateTemp
        BY <3>1, <3>2, <3>3 DEF CreateTemp, Operation
      <3>4. CASE Encode
        BY <3>1, <3>2, <3>4 DEF Encode, Operation
      <3>5. CASE Sync
        BY <3>1, <3>2, <3>5 DEF Sync, Operation
      <3>6. QED
        BY <1>4, <3>3, <3>4, <3>5
    <2>2. OpOK'
      BY <2>1, <1>1 DEF OpOK
    <2>3. QED
      BY <2>1, <2>2, <1>1 DEF MemoryIsFile, NeverTorn, DoneSurvives
  <1>5. CASE Rename
    <2>1. op # Free
      BY <1>5, CommitOf DEF Commit
    <2>2. op \in Operation /\ op.next \in Maps /\ op.next # Torn /\ Decode(op.next) = op.next
      BY <2>1, <1>1, UnderWay, Decoding
    <2>3. Kept = {op.next}
      BY <1>5, <1>1 DEF Kept, Rename, OpOK
    <2>4. /\ op'.step = "syncDir" /\ op'.name = op.name /\ op'.next = op.next
          /\ op'.synced = op.synced /\ file' = op.next
          /\ durable' = durable \cup {op.next}
          /\ UNCHANGED <<up, sandboxes, promise>>
      BY <1>5, <2>2, <2>3 DEF Rename, Operation
    <2>5. OpOK'
      BY <2>1, <2>4, <1>1, <1>5 DEF OpOK, Rename
    <2>6. MemoryIsFile' /\ NeverTorn' /\ (file \in durable)'
      BY <2>4, <2>2, <1>1 DEF MemoryIsFile, NeverTorn
    <2>7. ASSUME NEW n \in Names, promise[n] # Open, NEW c \in durable' \cup {file'}
          PROVE  Decode(c)[n] = promise[n]
      <3>1. CASE c = op.next
        BY <3>1, <2>1, <2>2, <2>7, <1>5, OthersUnchanged DEF Rename
      <3>2. CASE c \in durable
        BY <3>2, <2>7, <1>1 DEF DoneSurvives
      <3>3. QED
        BY <3>1, <3>2, <2>4
    <2>8. DoneSurvives'
      BY <2>7, <2>4 DEF DoneSurvives
    <2>9. QED
      BY <2>5, <2>6, <2>8
  <1>6. CASE GiveUp
    BY <1>6, <1>1, StepOfFree
    DEF GiveUp, OpOK, MemoryIsFile, NeverTorn, DoneSurvives
  <1>7. CASE SyncDir \/ SyncDirFails
    <2>1. op # Free /\ op.step = "syncDir"
      BY <1>7, CommitOf DEF Commit, SyncDir, SyncDirFails
    <2>2. /\ op.next \in Maps /\ op.next # Torn /\ Decode(op.next) = op.next
          /\ op.name \in Names
      BY <2>1, <1>1, UnderWay, Decoding
    <2>3. Kept = {op.next} /\ file = op.next
      BY <2>1, <1>1 DEF Kept, OpOK
    <2>4. /\ op' = Free /\ sandboxes' = op.next /\ file' = file /\ up' = up
          /\ file' \in durable' /\ durable' \subseteq durable
      BY <1>7, <2>3, <1>1 DEF SyncDir, SyncDirFails
    <2>5. OpOK' /\ MemoryIsFile' /\ NeverTorn'
      BY <2>4, <2>3, <2>2, <1>1, StepOfFree DEF OpOK, MemoryIsFile, NeverTorn
    <2>6. ASSUME NEW n \in Names, promise'[n] # Open, NEW c \in durable' \cup {file'}
          PROVE  Decode(c)[n] = promise'[n]
      <3>1. CASE promise' = promise
        BY <3>1, <2>4, <2>6, <1>1 DEF DoneSurvives
      <3>2. CASE SyncDir
        <4>1. durable' = {op.next} /\ promise' = [promise EXCEPT ![op.name] = op.next[op.name]]
          BY <3>2, <2>3 DEF SyncDir
        <4>2. c = op.next
          BY <4>1, <2>3, <2>4
        <4>3. CASE n = op.name
          BY <4>1, <4>2, <4>3, <2>2, <1>1 DEF TypeOK
        <4>4. CASE n # op.name
          BY <4>1, <4>2, <4>4, <2>3, <2>6, <1>1 DEF TypeOK, DoneSurvives
        <4>5. QED
          BY <4>3, <4>4
      <3>3. QED
        BY <3>1, <3>2, <1>7 DEF SyncDirFails
    <2>7. QED
      BY <2>4, <2>5, <2>6 DEF DoneSurvives
  <1>8. CASE Killed
    BY <1>8, <1>1, StepOfFree
    DEF Killed, OpOK, MemoryIsFile, NeverTorn, DoneSurvives
  <1>9. CASE PowerLoss
    BY <1>9, <1>1, StepOfFree
    DEF PowerLoss, OpOK, MemoryIsFile, NeverTorn, DoneSurvives
  <1>10. CASE UNCHANGED vars
    BY <1>10, <1>1 DEF vars, OpOK, MemoryIsFile, NeverTorn, DoneSurvives
  <1>11. QED
    BY <1>2, <1>3, <1>4, <1>5, <1>6, <1>7, <1>8, <1>9, <1>10 DEF Next, Commit

(* The store starts with nothing kept and nothing promised. *)
LEMMA InvAtStart == Init => Inv
  <1> SUFFICES ASSUME Init PROVE Inv
    OBVIOUS
  <1>1. TypeOK
    BY Decoding DEF Init, TypeOK, Contents, NoRecords
  <1>2. OpOK /\ MemoryIsFile /\ NeverTorn /\ file \in durable
    BY StoreAssumption, StepOfFree DEF Init, OpOK, MemoryIsFile, NeverTorn
  <1>3. DoneSurvives
    BY Decoding DEF Init, DoneSurvives
  <1>4. QED
    BY <1>1, <1>2, <1>3 DEF Inv

(* The invariant always holds. *)
LEMMA Invariance == Spec => []Inv
  BY InvAtStart, InvKept, PTL DEF Spec

(* Variables keep their types (NewFile, Load, commit, writeAtomic). *)
THEOREM FileTyped == Spec => []TypeOK
  <1>1. Inv => TypeOK
    BY DEF Inv
  <1>2. QED
    BY <1>1, Invariance, PTL

(* With the lock free, memory is what a restart would load (commit).       *)
THEOREM RestartChangesNothing == Spec => []MemoryIsFile
  <1>1. Inv => MemoryIsFile
    BY DEF Inv
  <1>2. QED
    BY <1>1, Invariance, PTL

(* No crash leaves a half-written file behind the path (writeAtomic).      *)
THEOREM FileWhole == Spec => []NeverTorn
  <1>1. Inv => NeverTorn
    BY DEF Inv
  <1>2. QED
    BY <1>1, Invariance, PTL

(* A change reported done survives every later crash (writeAtomic, Load).  *)
THEOREM DoneIsDurable == Spec => []DoneSurvives
  <1>1. Inv => DoneSurvives
    BY DEF Inv
  <1>2. QED
    BY <1>1, Invariance, PTL

(* Initially the registry is empty (NewFile, Load without a file).         *)
LEMMA InitImplements == Init => R!RegistryInit
  <1> SUFFICES ASSUME Init PROVE R!RegistryInit
    OBVIOUS
  <1>1. Value = NoRecords /\ Possible = {NoRecords}
    BY Decoding DEF Init, Value, Possible
  <1>2. QED
    BY <1>1 DEF Init, R!RegistryInit, R!NoRecords, NoRecords

(* Every step of the store is a step of the registry, or none.             *)
LEMMA StepImplements == Inv /\ [Next]_vars => [R!RegistryNext]_(R!rvars)
  <1> SUFFICES ASSUME Inv, [Next]_vars
               PROVE  R!RegistryNext \/ UNCHANGED R!rvars
    OBVIOUS
  <1>1. TypeOK /\ OpOK /\ MemoryIsFile /\ NeverTorn /\ file \in durable
    BY DEF Inv
  <1>2. CASE Load
    BY <1>2 DEF Load, Value, Possible, R!rvars
  <1>3. ASSUME NEW n \in Names, NEW d \in Data \cup {NoData}, Begin(n, d)
        PROVE  R!Ask(n)
    BY <1>3 DEF Begin, Value, Possible, R!Ask
  <1>4. CASE CreateTemp \/ Encode \/ Sync \/ GiveUp
    BY <1>4 DEF CreateTemp, Encode, Sync, GiveUp, Value, Possible, R!rvars
  <1>5. CASE Rename \/ SyncDir \/ SyncDirFails
    <2>1. /\ op # Free /\ up
          /\ op.name \in Names /\ op.next[op.name] \in Data \cup {NoData}
          /\ Decode(op.next) = op.next
          /\ promise[op.name] = Open
          /\ op.next = [sandboxes EXCEPT ![op.name] = op.next[op.name]]
          /\ Kept = {op.next}
      <3>1. op # Free
        BY <1>5, CommitOf DEF Commit
      <3>2. op.synced
        BY <1>5, <1>1 DEF Rename, SyncDir, SyncDirFails, OpOK
      <3>3. QED
        BY <3>1, <3>2, <1>1, UnderWay, Decoding DEF OpOK, Kept
    <2>2. Value = sandboxes
      BY <2>1 DEF Value
    <2>3. CASE Rename
      <3>1. Possible' = Possible \cup {[Value EXCEPT ![op.name] = op.next[op.name]]}
        BY <2>1, <2>2, <2>3 DEF Rename, Possible
      <3>2. Value' = Value /\ promise' = promise
        BY <2>1, <2>3 DEF Rename, Value
      <3>3. R!Attempt(op.name, op.next[op.name])
        BY <3>1, <3>2, <2>1 DEF R!Attempt
      <3>4. QED
        BY <3>3, <2>1 DEF R!RegistryNext
    <2>4. CASE SyncDir
      <3>1. Value' = [Value EXCEPT ![op.name] = op.next[op.name]]
        BY <2>1, <2>2, <2>4 DEF SyncDir, Value
      <3>2. Possible' = {Value'}
        BY <2>1, <2>4, <3>1, <2>2 DEF SyncDir, Possible
      <3>3. promise' = [promise EXCEPT ![op.name] = op.next[op.name]]
        BY <2>4 DEF SyncDir
      <3>4. R!Done(op.name, op.next[op.name])
        BY <3>1, <3>2, <3>3 DEF R!Done
      <3>5. QED
        BY <3>4, <2>1 DEF R!RegistryNext
    <2>5. CASE SyncDirFails
      <3>1. Value' = [Value EXCEPT ![op.name] = op.next[op.name]]
        BY <2>1, <2>2, <2>5 DEF SyncDirFails, Value
      <3>2. Possible' = Possible /\ promise' = promise
        BY <2>5 DEF SyncDirFails, Possible
      <3>3. op.next \in durable
        BY <1>1, <2>5 DEF OpOK, SyncDirFails
      <3>4. Value' \in Possible
        BY <3>1, <3>3, <2>1, <2>2 DEF Possible
      <3>5. R!Doubt(op.name, op.next[op.name])
        BY <3>1, <3>2, <3>4, <2>1 DEF R!Doubt
      <3>6. QED
        BY <3>5, <2>1 DEF R!RegistryNext
    <2>6. QED
      BY <1>5, <2>3, <2>4, <2>5
  <1>6. CASE Killed
    <2>1. Value' = Decode(file) /\ Possible' = Possible /\ promise' = promise
      BY <1>6 DEF Killed, Value, Possible
    <2>2. Value' \in Possible
      BY <2>1, <1>1 DEF Possible
    <2>3. R!Crash
      BY <2>1, <2>2 DEF R!Crash
    <2>4. QED
      BY <2>3 DEF R!RegistryNext
  <1>7. CASE PowerLoss
    <2>1. PICK c \in durable : file' = c /\ durable' = {c}
      BY <1>7 DEF PowerLoss
    <2>2. Value' = Decode(c) /\ Possible' = {Decode(c)} /\ promise' = promise
      BY <1>7, <2>1 DEF PowerLoss, Value, Possible
    <2>3. Decode(c) \in Possible
      BY <2>1 DEF Possible
    <2>4. R!Crash
      BY <2>2, <2>3 DEF R!Crash
    <2>5. QED
      BY <2>4 DEF R!RegistryNext
  <1>8. CASE UNCHANGED vars
    BY <1>8 DEF vars, Value, Possible, R!rvars
  <1>9. QED
    BY <1>2, <1>3, <1>4, <1>5, <1>6, <1>7, <1>8 DEF Next, Commit, R!RegistryNext

(* The file with its temporary copy, syncs and rename implements the       *)
(* registry its callers rely on (store/file.go).                           *)
THEOREM Refinement == Spec => ImplementsRegistry
  BY InitImplements, StepImplements, Invariance, PTL
  DEF Spec, ImplementsRegistry, R!RegistrySpec
=============================================================================
