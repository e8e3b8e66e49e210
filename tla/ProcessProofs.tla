--------------------------- MODULE ProcessProofs ---------------------------
(***************************************************************************)
(* The safety theorems of Process, for any slots, callers and contents of  *)
(* the Pack state, and whatever trouble is admitted.                       *)
(***************************************************************************)
EXTENDS ProcessInv, TLAPS

USE ProcessAssumption, SupervisorAssumption

Calls == [Callers -> [op : Ops, of : Programs, at : Places,
                      slot : Slots \cup {NoChild}]]

Children == [Programs -> [Slots -> [is : Fates, expected : BOOLEAN]]]

Currents == [Programs -> Slots \cup {NoChild}]

Locks == [Programs -> Callers \cup {NoCaller}]

-----------------------------------------------------------------------------
(* What a step of a call can do.  c's call goes on to a. *)
Goes(c, a) ==
    /\ call' \in Calls
    /\ \A d \in Callers \ {c} : call'[d] = call[d]
    /\ call'[c].op = call[c].op /\ call'[c].of = call[c].of
    /\ call'[c].at = a

Keeps == UNCHANGED <<current, child>>

(* p's supervisor has let go of its child, if it had one. *)
Drops(p) ==
    /\ current' = [current EXCEPT ![p] = NoChild]
    /\ child' \in Children
    /\ \A q \in Programs \ {p} : child'[q] = child[q]
    /\ \A k \in Slots :
          child'[p][k] = IF k = current[p] THEN Child("free") ELSE child[p][k]

(* Now it keeps a child just started. *)
Renews(p) ==
    \E new \in Slots :
        /\ current' = [current EXCEPT ![p] = new]
        /\ child' \in Children
        /\ \A q \in Programs \ {p} : child'[q] = child[q]
        /\ child'[p][new] = Child("alive")
        /\ \A k \in Slots \ {new} :
              child'[p][k] = IF k = current[p] THEN Child("free") ELSE child[p][k]

Unlocks(p) == mu' = [mu EXCEPT ![p] = NoCaller]

EnterStep(c) ==
    /\ At(c, "lock") /\ mu[call[c].of] = NoCaller
    /\ mu' = [mu EXCEPT ![call[c].of] = c]
    /\ \/ call[c].op = "start" /\ Goes(c, "start")
       \/ call[c].op # "start" /\ Goes(c, "stop")
    /\ Keeps

(* A step of Ready. *)
FreeStep(c) ==
    /\ \/ At(c, "lock") /\ call[c].op = "ready"
                      /\ (Goes(c, "failed") \/ Goes(c, "probe"))
       \/ At(c, "probe") /\ (Goes(c, "failed") \/ Goes(c, "mark"))
       \/ At(c, "mark") /\ Goes(c, "succeeded")
    /\ mu' = mu
    /\ Keeps

MarkStep(c) ==
    LET p == call[c].of IN
    /\ At(c, "stop") /\ Goes(c, "signal") /\ mu' = mu
    /\ current[p] # NoChild /\ current' = current
    /\ child' = [child EXCEPT ![p][current[p]].expected = TRUE]

SignalStep(c) ==
    LET p == call[c].of
        k == current[p]
    IN
    /\ At(c, "signal") /\ Goes(c, "await") /\ mu' = mu
    /\ current' = current
    /\ child' = IF child[p][k].is = "alive"
                THEN [child EXCEPT ![p][k].is = "signalled"] ELSE child

(* The child is gone: Restart goes on, Stop is over. *)
GoneStep(c) ==
    /\ At(c, "stop") \/ At(c, "await")
    /\ \/ call[c].op = "restart" /\ Goes(c, "start") /\ mu' = mu
       \/ call[c].op # "restart" /\ Goes(c, "succeeded") /\ Unlocks(call[c].of)
    /\ Drops(call[c].of)

NewStep(c) ==
    /\ At(c, "start") /\ ~Ended(c)
    /\ Goes(c, "succeeded") /\ Unlocks(call[c].of)
    /\ Renews(call[c].of)

FailStep(c) ==
    /\ At(c, "stop") \/ At(c, "await") \/ At(c, "start")
    /\ Goes(c, "failed") /\ Unlocks(call[c].of)
    /\ Keeps \/ Drops(call[c].of)

Effect(c) ==
    /\ \/ EnterStep(c) \/ FreeStep(c) \/ MarkStep(c) \/ SignalStep(c)
       \/ GoneStep(c) \/ NewStep(c) \/ FailStep(c)
    /\ healthy' \in [Programs -> BOOLEAN]
    /\ loaded' \in [Programs -> Versions \cup {0}]
    /\ UNCHANGED <<alarm, calm, processVars>>

(* A call that only moves on. *)
LEMMA ToGoes ==
    ASSUME call \in Calls, NEW c \in Callers, NEW a \in Places, To(c, a)
    PROVE  Goes(c, a)
  BY DEF Calls, To, Goes

(* A call that moves on and remembers, or forgets, a child. *)
LEMMA AnswersGoes ==
    ASSUME call \in Calls, NEW c \in Callers, NEW a \in Places,
           NEW k \in Slots \cup {NoChild}, Answers(c, a, k)
    PROVE  Goes(c, a)
  BY DEF Calls, Answers, Goes

(* Letting go of a child. *)
LEMMA LetGoDrops ==
    ASSUME child \in Children, current \in Currents, NEW p \in Programs, LetGo(p)
    PROVE  Drops(p)
  BY DEF Children, Currents, LetGo, Drops, Child, Fates

(* A failing start lets go of a child that is done. *)
LEMMA FreedDrops ==
    ASSUME child \in Children, current \in Currents, NEW p \in Programs,
           current[p] # NoChild => IsDone(p, current[p]),
           current' = [current EXCEPT ![p] = NoChild],
           child' = [child EXCEPT ![p] = Freed(p)]
    PROVE  Drops(p)
  BY DEF Children, Currents, Freed, Drops, Child, Fates

(* A start replaces a child that is done by a new one. *)
LEMMA FreedRenews ==
    ASSUME child \in Children, current \in Currents, NEW p \in Programs,
           NEW new \in Slots,
           current[p] # NoChild => IsDone(p, current[p]),
           current' = [current EXCEPT ![p] = new],
           child' = [child EXCEPT ![p] = [Freed(p) EXCEPT ![new] = Child("alive")]]
    PROVE  Renews(p)
<1>1. Freed(p) \in [Slots -> [is : Fates, expected : BOOLEAN]]
  BY DEF Children, Freed, Child, Fates
<1>2. \A k \in Slots : Freed(p)[k] =
        IF k = current[p] THEN Child("free") ELSE child[p][k]
  BY DEF Freed, Currents
<1>3. child' \in Children
  BY <1>1 DEF Children, Child, Fates
<1>4. QED
  BY <1>1, <1>2, <1>3 DEF Renews, Children

(* The types of the variables, under the names used here. *)
LEMMA Types ==
    ASSUME ProcessTypeOK
    PROVE  /\ call \in Calls /\ child \in Children /\ current \in Currents
           /\ mu \in Locks /\ healthy \in [Programs -> BOOLEAN]
           /\ loaded \in [Programs -> Versions \cup {0}]
           /\ \A c \in Callers : call[c].of \in Programs
           /\ trust \in Versions \cup {0}
  BY DEF ProcessTypeOK, SupervisorTypeOK, Calls, Children, Currents, Locks

(* Taking the mutex, or the look of Ready at the child. *)
LEMMA LockEffect ==
    ASSUME ProcessTypeOK, NEW c \in Callers, Lock(c), UNCHANGED processVars
    PROVE  Effect(c)
<1>1. {"failed", "probe", "start", "stop"} \subseteq Places
  BY DEF Places
<1>2. EnterStep(c) \/ FreeStep(c)
  <2>1. CASE call[c].op = "ready" /\ current[call[c].of] = NoChild
    BY <1>1, <2>1, Types, ToGoes DEF Lock, FreeStep, Keeps
  <2>2. CASE call[c].op = "ready" /\ current[call[c].of] # NoChild
    <3>1. current[call[c].of] \in Slots \cup {NoChild}
      BY Types DEF Currents
    <3>2. QED
      BY <1>1, <2>2, <3>1, Types, AnswersGoes DEF Lock, FreeStep, Keeps
  <2>3. CASE call[c].op = "start"
    BY <1>1, <2>3, Types, ToGoes DEF Lock, EnterStep, Keeps
  <2>4. CASE call[c].op \notin {"ready", "start"}
    BY <1>1, <2>4, Types, ToGoes DEF Lock, EnterStep, Keeps
  <2>5. QED
    BY <2>1, <2>2, <2>3, <2>4
<1>3. QED
  BY <1>2, Types DEF Effect, Lock

(* What follows when the child is gone. *)
LEMMA StoppedEffect ==
    ASSUME ProcessTypeOK, NEW c \in Callers, At(c, "stop") \/ At(c, "await"),
           Stopped(c), Drops(call[c].of)
    PROVE  GoneStep(c)
<1>1. {"succeeded", "start"} \subseteq Places
  BY DEF Places
<1>2. CASE call[c].op = "restart"
  BY <1>1, <1>2, Types, ToGoes DEF Stopped, GoneStep
<1>3. CASE call[c].op # "restart"
  BY <1>1, <1>3, Types, AnswersGoes DEF Stopped, GoneStep, Return, Unlocks
<1>4. QED
  BY <1>2, <1>3

(* A call that gives up. *)
LEMMA FailedEffect ==
    ASSUME ProcessTypeOK, NEW c \in Callers,
           At(c, "stop") \/ At(c, "await") \/ At(c, "start"),
           Return(c, "failed"), Keeps \/ Drops(call[c].of)
    PROVE  FailStep(c)
<1>1. "failed" \in Places
  BY DEF Places
<1>2. QED
  BY <1>1, Types, AnswersGoes DEF FailStep, Return, Unlocks

(* The first half of stopLocked. *)
LEMMA StopChecksEffect ==
    ASSUME ProcessTypeOK, NEW c \in Callers, StopChecks(c, Ended(c)),
           UNCHANGED processVars
    PROVE  Effect(c)
<1> DEFINE p == call[c].of
<1>1. At(c, "stop") /\ p \in Programs /\ "signal" \in Places
  BY Types DEF StopChecks, Places
<1>2. healthy' \in [Programs -> BOOLEAN] /\ UNCHANGED <<loaded, alarm, calm>>
  BY <1>1, Types DEF StopChecks
<1>3. CASE current[p] = NoChild
  <2>1. Drops(p)
    BY <1>1, <1>3, Types DEF StopChecks, Drops, Currents, Children
  <2>2. GoneStep(c)
    BY <1>1, <1>3, <2>1, StoppedEffect DEF StopChecks
  <2>3. QED
    BY <1>2, <2>2, Types DEF Effect
<1>4. CASE current[p] # NoChild /\ Ended(c)
  <2>1. FailStep(c)
    BY <1>1, <1>4, FailedEffect DEF StopChecks, Keeps
  <2>2. QED
    BY <1>2, <2>1, Types DEF Effect
<1>5. CASE current[p] # NoChild /\ ~Ended(c) /\ IsDone(p, current[p])
  <2>1. GoneStep(c)
    BY <1>1, <1>5, Types, LetGoDrops, StoppedEffect DEF StopChecks
  <2>2. QED
    BY <1>2, <2>1, Types DEF Effect
<1>6. CASE current[p] # NoChild /\ ~Ended(c) /\ ~IsDone(p, current[p])
  <2>1. MarkStep(c)
    BY <1>1, <1>6, Types, ToGoes DEF StopChecks, MarkStep
  <2>2. QED
    BY <1>2, <2>1, Types DEF Effect
<1>7. QED
  BY <1>3, <1>4, <1>5, <1>6

(* The signal to the child. *)
LEMMA SignalsEffect ==
    ASSUME ProcessTypeOK, NEW c \in Callers, Signals(c), UNCHANGED processVars
    PROVE  Effect(c)
<1>1. "await" \in Places
  BY DEF Places
<1>2. SignalStep(c)
  BY <1>1, Types, ToGoes DEF Signals, SignalStep
<1>3. QED
  BY <1>2, Types DEF Effect, Signals

(* The end of stopLocked. *)
LEMMA AwaitsEffect ==
    ASSUME ProcessTypeOK, NEW c \in Callers, Awaits(c, Ended(c)),
           UNCHANGED processVars
    PROVE  Effect(c)
<1>1. At(c, "await") /\ call[c].of \in Programs
  BY Types DEF Awaits
<1>2. GoneStep(c) \/ FailStep(c)
  <2>1. CASE LetGo(call[c].of) /\ Stopped(c)
    BY <1>1, <2>1, Types, LetGoDrops, StoppedEffect
  <2>2. CASE Return(c, "failed") /\ Keeps
    BY <1>1, <2>2, FailedEffect
  <2>3. QED
    BY <2>1, <2>2 DEF Awaits, Keeps
<1>3. QED
  BY <1>2, Types DEF Effect, Awaits

(* startLocked. *)
LEMMA StartsEffect ==
    ASSUME ProcessTypeOK, NEW c \in Callers,
           Starts(c, Ended(c), IF call[c].of = "collie" THEN trust ELSE 0),
           UNCHANGED processVars
    PROVE  Effect(c)
<1> DEFINE p == call[c].of
<1>1. At(c, "start") /\ p \in Programs /\ "succeeded" \in Places
  BY Types DEF Starts, Places
<1>2. ASSUME StartAllowed(p, Ended(c)), \E j \in Slots : Unused(p, j),
             child' = [child EXCEPT
                  ![p] = [Freed(p) EXCEPT ![Fresh(p)] = Child("alive")]],
             current' = [current EXCEPT ![p] = Fresh(p)],
             Return(c, "succeeded")
      PROVE  NewStep(c)
  <2>1. Fresh(p) \in Slots
    BY <1>2 DEF Fresh
  <2>2. Renews(p)
    BY <1>1, <1>2, <2>1, Types, FreedRenews DEF StartAllowed
  <2>3. Goes(c, "succeeded") /\ Unlocks(p)
    <3>1. Return(c, "succeeded")
      BY <1>2
    <3>2. QED
      BY <1>1, <3>1, Types, AnswersGoes DEF Return, Unlocks
  <2>4. ~Ended(c)
    BY <1>2 DEF StartAllowed
  <2>5. QED
    BY <1>1, <2>2, <2>3, <2>4 DEF NewStep
<1>3. ASSUME StartAllowed(p, Ended(c)),
             current' = [current EXCEPT ![p] = NoChild],
             child' = [child EXCEPT ![p] = Freed(p)],
             Return(c, "failed")
      PROVE  FailStep(c)
  <2>1. current[p] # NoChild => IsDone(p, current[p])
    BY <1>3 DEF StartAllowed
  <2>2. Drops(p)
    BY <1>1, <1>3, <2>1, Types, FreedDrops
  <2>3. QED
    BY <1>1, <1>3, <2>2, FailedEffect
<1>4. ASSUME Return(c, "failed"), Keeps PROVE FailStep(c)
  BY <1>1, <1>4, FailedEffect
<1>5. NewStep(c) \/ FailStep(c)
  BY <1>2, <1>3, <1>4, Zenon DEF Starts, Keeps
<1>6. loaded' \in [Programs -> Versions \cup {0}]
  <2> DEFINE s == IF p = "collie" THEN trust ELSE 0
  <2>1. s \in Versions \cup {0}
    BY Types
  <2>2. loaded' = loaded \/ loaded' = [loaded EXCEPT ![p] = s]
    BY Zenon DEF Starts
  <2> HIDE DEF s
  <2>3. QED
    BY <1>1, <2>1, <2>2, Types
<1>7. UNCHANGED <<healthy, alarm, calm>>
  BY Zenon DEF Starts
<1>8. QED
  BY <1>5, <1>6, <1>7, Types DEF Effect

(* The loop of Ready. *)
LEMMA ProbesEffect ==
    ASSUME ProcessTypeOK, NEW c \in Callers, Probes(c, Ended(c)),
           UNCHANGED processVars
    PROVE  Effect(c)
<1>1. {"failed", "mark"} \subseteq Places
  BY DEF Places
<1>2. FreeStep(c)
  BY <1>1, Types, ToGoes, AnswersGoes DEF Probes, FreeStep, Keeps
<1>3. QED
  BY <1>2, Types DEF Effect, Probes

(* The end of Ready. *)
LEMMA MarksEffect ==
    ASSUME ProcessTypeOK, NEW c \in Callers, Marks(c), UNCHANGED processVars
    PROVE  Effect(c)
<1>1. "succeeded" \in Places
  BY DEF Places
<1>2. FreeStep(c)
  BY <1>1, Types, AnswersGoes DEF Marks, FreeStep, Keeps
<1>3. QED
  BY <1>2, Types DEF Effect, Marks

(* Every step of a call has one of the effects. *)
LEMMA CallEffect ==
    ASSUME ProcessTypeOK, NEW c \in Callers, CallStep(c)
    PROVE  Effect(c)
  BY LockEffect, StopChecksEffect, SignalsEffect, AwaitsEffect, StartsEffect,
     ProbesEffect, MarksEffect DEF CallStep

-----------------------------------------------------------------------------
(* The steps of a call keep the invariant. *)

(* The exit of one child is marked as expected. *)
LEMMA Expects ==
    ASSUME child \in Children, NEW p \in Programs, NEW k \in Slots,
           child' = [child EXCEPT ![p][k].expected = TRUE]
    PROVE  /\ child' \in Children
           /\ child'[p][k].is = child[p][k].is /\ child'[p][k].expected
           /\ \A q \in Programs, j \in Slots :
                 q # p \/ j # k => child'[q][j] = child[q][j]
<1> DEFINE r == [child[p][k] EXCEPT !.expected = TRUE]
<1>1. child[p][k] \in [is : Fates, expected : BOOLEAN]
  BY DEF Children
<1>2. r \in [is : Fates, expected : BOOLEAN]
  BY <1>1
<1>3. r.is = child[p][k].is
  BY <1>1
<1>4. r.expected
  BY <1>1, Zenon
<1>5. child' = [child EXCEPT ![p] = [child[p] EXCEPT ![k] = r]]
  OBVIOUS
<1> HIDE DEF r
<1>6. child' \in Children
  <2> DEFINE g == [child[p] EXCEPT ![k] = r]
  <2>1. g \in [Slots -> [is : Fates, expected : BOOLEAN]]
    BY <1>2 DEF Children
  <2>2. child' = [child EXCEPT ![p] = g]
    BY <1>5
  <2> HIDE DEF g
  <2>3. QED
    BY <2>1, <2>2 DEF Children
<1>7. child'[p][k] = r
  BY <1>5 DEF Children
<1>8. \A q \in Programs, j \in Slots : q # p \/ j # k => child'[q][j] = child[q][j]
  BY <1>5 DEF Children
<1>9. QED
  BY <1>3, <1>4, <1>6, <1>7, <1>8

(* One child is signalled. *)
LEMMA Signalled ==
    ASSUME child \in Children, NEW p \in Programs, NEW k \in Slots,
           child' = [child EXCEPT ![p][k].is = "signalled"]
    PROVE  /\ child' \in Children
           /\ child'[p][k].is = "signalled"
           /\ child'[p][k].expected = child[p][k].expected
           /\ \A q \in Programs, j \in Slots :
                 q # p \/ j # k => child'[q][j] = child[q][j]
<1> DEFINE r == [child[p][k] EXCEPT !.is = "signalled"]
<1>1. child[p][k] \in [is : Fates, expected : BOOLEAN]
  BY DEF Children
<1>2. r \in [is : Fates, expected : BOOLEAN]
  BY <1>1 DEF Fates
<1>3. r.is = "signalled" /\ r.expected = child[p][k].expected
  BY <1>1
<1>4. child' = [child EXCEPT ![p] = [child[p] EXCEPT ![k] = r]]
  OBVIOUS
<1> HIDE DEF r
<1>5. child' \in Children
  BY <1>2, <1>4 DEF Children
<1>6. child'[p][k] = r
  BY <1>4 DEF Children
<1>7. \A q \in Programs, j \in Slots :
         q # p \/ j # k => child'[q][j] = child[q][j]
  BY <1>4 DEF Children
<1>8. QED
  BY <1>3, <1>5, <1>6, <1>7

(* A signal to no child changes nothing. *)
LEMMA NoneSignalled ==
    ASSUME child \in Children, NEW p \in Programs,
           child' = [child EXCEPT ![p][NoChild].is = "signalled"]
    PROVE  child' = child
<1>1. child[p] = [child[p] EXCEPT ![NoChild].is = "signalled"]
  BY DEF Children
<1>2. QED
  BY <1>1 DEF Children

(* What the two steps at a running child do to the children. *)
LEMMA MarkStepChild ==
    ASSUME ProcessTypeOK, NEW c \in Callers, MarkStep(c)
    PROVE  LET p == call[c].of
               k == current[p]
           IN  /\ p \in Programs /\ k \in Slots /\ child' \in Children
               /\ child'[p][k].is = child[p][k].is /\ child'[p][k].expected
               /\ \A q \in Programs, j \in Slots :
                     q # p \/ j # k => child'[q][j] = child[q][j]
<1> DEFINE p == call[c].of
           k == current[p]
<1>1. p \in Programs /\ k \in Slots /\ child \in Children
  BY Types DEF MarkStep, Currents
<1>2. child' = [child EXCEPT ![p][k].expected = TRUE]
  BY DEF MarkStep
<1> HIDE DEF p, k
<1>3. /\ child' \in Children
      /\ child'[p][k].is = child[p][k].is /\ child'[p][k].expected
      /\ \A q \in Programs, j \in Slots :
            q # p \/ j # k => child'[q][j] = child[q][j]
  BY <1>1, <1>2, Expects
<1>4. QED
  BY <1>1, <1>3 DEF p, k

(* The same for the signal. *)
LEMMA SignalStepChild ==
    ASSUME ProcessTypeOK, NEW c \in Callers, SignalStep(c)
    PROVE  LET p == call[c].of
               k == current[p]
           IN  /\ child' \in Children
               /\ \/ child' = child
                  \/ /\ p \in Programs /\ k \in Slots
                     /\ child[p][k].is = "alive"
                     /\ child'[p][k].is = "signalled"
                     /\ child'[p][k].expected = child[p][k].expected
                     /\ \A q \in Programs, j \in Slots :
                           q # p \/ j # k => child'[q][j] = child[q][j]
<1> DEFINE p == call[c].of
           k == current[p]
<1>1. p \in Programs /\ k \in Slots \cup {NoChild} /\ child \in Children
  BY Types DEF Currents
<1>2. \/ child' = child
      \/ child[p][k].is = "alive" /\ child' = [child EXCEPT ![p][k].is = "signalled"]
  BY DEF SignalStep
<1> HIDE DEF p, k
<1>3. CASE child' = child
  BY <1>1, <1>3
<1>4. CASE /\ child[p][k].is = "alive"
           /\ child' = [child EXCEPT ![p][k].is = "signalled"]
  <2>1. CASE k = NoChild
    BY <1>1, <1>4, <2>1, NoneSignalled
  <2>2. CASE k \in Slots
    <3>1. /\ child' \in Children
          /\ child'[p][k].is = "signalled"
          /\ child'[p][k].expected = child[p][k].expected
          /\ \A q \in Programs, j \in Slots :
                q # p \/ j # k => child'[q][j] = child[q][j]
      BY <1>1, <1>4, <2>2, Signalled
    <3>2. QED
      BY <1>1, <1>4, <2>2, <3>1 DEF p, k
  <2>3. QED
    BY <1>1, <2>1, <2>2
<1>5. QED
  BY <1>2, <1>3, <1>4

(* Every effect keeps the types. *)
LEMMA EffectTypes ==
    ASSUME ProcessTypeOK, NEW c \in Callers, Effect(c)
    PROVE  ProcessTypeOK'
<1>1. call' \in Calls
  BY DEF Effect, EnterStep, FreeStep, MarkStep, SignalStep, GoneStep, NewStep,
         FailStep, Goes
<1>2. mu' \in Locks
  BY Types DEF Effect, EnterStep, FreeStep, MarkStep, SignalStep, GoneStep, NewStep,
         FailStep, Unlocks, Locks
<1>3. current' \in Currents
  BY Types DEF Effect, EnterStep, FreeStep, MarkStep, SignalStep, GoneStep, NewStep,
         FailStep, Keeps, Drops, Renews, Currents
<1>4. child' \in Children
  <2>1. CASE MarkStep(c)
    BY <2>1, MarkStepChild
  <2>2. CASE SignalStep(c)
    BY <2>2, SignalStepChild
  <2>3. QED
    BY <2>1, <2>2, Types DEF Effect, EnterStep, FreeStep, GoneStep, NewStep,
         FailStep, Keeps, Drops, Renews
<1>5. QED
  BY <1>1, <1>2, <1>3, <1>4
     DEF Effect, ProcessTypeOK, SupervisorTypeOK, Calls, Children, Currents, Locks,
         processVars

(* The mutex stays with the caller in its critical section. *)
LEMMA EffectLocks ==
    ASSUME ProcessTypeOK, LocksOK, NEW c \in Callers, Effect(c)
    PROVE  LocksOK'
<1> DEFINE p == call[c].of
<1>1. /\ p \in Programs /\ mu \in Locks
      /\ \A d \in Callers \ {c} : call'[d] = call[d]
      /\ call'[c].of = p
  BY Types DEF Effect, EnterStep, FreeStep, MarkStep, SignalStep, GoneStep, NewStep,
     FailStep, Goes
<1>2. CASE EnterStep(c)
  <2>1. call[c].at \notin Critical /\ call'[c].at \in Critical
    BY <1>2 DEF EnterStep, Goes, At, Critical
  <2>2. mu[p] = NoCaller /\ \A q \in Programs : mu'[q] = IF q = p THEN c ELSE mu[q]
    BY <1>1, <1>2 DEF EnterStep, Locks
  <2>3. QED
    BY <1>1, <2>1, <2>2, SupervisorAssumption DEF LocksOK
<1>3. ASSUME mu' = mu, call'[c].at \in Critical <=> call[c].at \in Critical
      PROVE  LocksOK'
  BY <1>1, <1>3 DEF LocksOK
<1>4. ASSUME Unlocks(p), call[c].at \in Critical, call'[c].at \notin Critical
      PROVE  LocksOK'
  <2>1. \A q \in Programs : mu'[q] = IF q = p THEN NoCaller ELSE mu[q]
    BY <1>1, <1>4 DEF Unlocks, Locks
  <2>2. QED
    BY <1>1, <1>4, <2>1, SupervisorAssumption DEF LocksOK
<1>5. CASE FreeStep(c) \/ MarkStep(c) \/ SignalStep(c)
  BY <1>3, <1>5 DEF FreeStep, MarkStep, SignalStep, Goes, At, Critical
<1>6. CASE GoneStep(c)
  BY <1>3, <1>4, <1>6 DEF GoneStep, Goes, At, Critical
<1>7. CASE NewStep(c) \/ FailStep(c)
  BY <1>4, <1>7 DEF NewStep, FailStep, Goes, At, Critical
<1>8. QED
  BY <1>2, <1>5, <1>6, <1>7 DEF Effect

(* Letting go and renewing keep the children in order. *)
LEMMA DropsChildren ==
    ASSUME ProcessTypeOK, ChildrenOK, NEW p \in Programs, Drops(p)
    PROVE  ChildrenOK'
  BY Types DEF ChildrenOK, Drops, Currents, Child

(* Renewing a child keeps them in order too. *)
LEMMA RenewsChildren ==
    ASSUME ProcessTypeOK, ChildrenOK, NEW p \in Programs, Renews(p)
    PROVE  ChildrenOK'
  BY Types DEF ChildrenOK, Renews, Currents, Child

(* A supervisor keeps the one child that is not forgotten. *)
LEMMA EffectChildren ==
    ASSUME ProcessTypeOK, ChildrenOK, NEW c \in Callers, Effect(c)
    PROVE  ChildrenOK'
<1>1. ASSUME current' = current,
             \A q \in Programs, j \in Slots :
                 child'[q][j].is = "free" <=> child[q][j].is = "free"
      PROVE  ChildrenOK'
  BY <1>1 DEF ChildrenOK
<1>2. ASSUME MarkStep(c) \/ SignalStep(c)
      PROVE  \A q \in Programs, j \in Slots :
                 child'[q][j].is = "free" <=> child[q][j].is = "free"
  BY <1>2, MarkStepChild, SignalStepChild
<1>3. CASE Keeps
  BY <1>3 DEF Keeps, ChildrenOK
<1>4. QED
  BY <1>1, <1>2, <1>3, Types, DropsChildren, RenewsChildren
     DEF Effect, EnterStep, FreeStep, MarkStep, SignalStep, GoneStep, NewStep,
         FailStep

(* A step of a call leaves its kind and the others alone. *)
LEMMA EffectCalls ==
    ASSUME ProcessTypeOK, CallsOK, AloneOK, NEW c \in Callers, Effect(c)
    PROVE  CallsOK' /\ AloneOK'
<1>1. /\ call[c].at # "idle"
      /\ \A d \in Callers \ {c} : call'[d] = call[d]
      /\ call'[c].op = call[c].op /\ call'[c].of = call[c].of
      /\ UNCHANGED processVars
  BY DEF Effect, EnterStep, FreeStep, MarkStep, SignalStep, GoneStep, NewStep,
         FailStep, Goes, At
<1>2. /\ call'[c].at \in {"probe", "mark"} => call[c].op = "ready"
      /\ call'[c].at = "start" => call[c].op \in {"start", "restart"}
  BY DEF Effect, EnterStep, FreeStep, MarkStep, SignalStep, GoneStep, NewStep,
         FailStep, Goes, At, CallsOK
<1>3. call[c] # Idle
  BY <1>1 DEF Idle
<1>4. CallsOK'
  BY <1>1, <1>2, <1>3 DEF CallsOK, processVars
<1>5. AloneOK'
  BY <1>1, <1>3 DEF AloneOK, processVars
<1>6. QED
  BY <1>4, <1>5

(* At most one caller is in the critical section of a program. *)
LEMMA OneCritical ==
    ASSUME LocksOK, NEW c \in Callers, NEW d \in Callers,
           call[c].of \in Programs, call[d].of = call[c].of,
           call[c].at \in Critical, call[d].at \in Critical
    PROVE  c = d
  BY DEF LocksOK

(* Nobody signals a child whose exit is not expected. *)
LEMMA EffectMarked ==
    ASSUME ProcessTypeOK, LocksOK, MarkedOK, NEW c \in Callers, Effect(c)
    PROVE  MarkedOK'
<1>1. CASE EnterStep(c) \/ FreeStep(c)
  BY <1>1 DEF EnterStep, FreeStep, Goes, Keeps, MarkedOK
<1>2. CASE MarkStep(c)
  <2>1. /\ current' = current
        /\ \A q \in Programs, j \in Slots :
              /\ child'[q][j].is = child[q][j].is
              /\ child[q][j].expected => child'[q][j].expected
        /\ child'[call[c].of][current[call[c].of]].expected
    <3> DEFINE p == call[c].of
               k == current[p]
    <3>1. current' = current /\ child'[p][k].is = child[p][k].is
          /\ child'[p][k].expected
          /\ \A q \in Programs, j \in Slots :
                q # p \/ j # k => child'[q][j] = child[q][j]
      BY <1>2, MarkStepChild DEF MarkStep
    <3>2. ASSUME NEW q \in Programs, NEW j \in Slots
          PROVE  /\ child'[q][j].is = child[q][j].is
                 /\ child[q][j].expected => child'[q][j].expected
      <4>1. CASE q = p /\ j = k
        BY <3>1, <4>1, Zenon
      <4>2. CASE q # p \/ j # k
        BY <3>1, <4>2, Zenon
      <4>3. QED
        BY <4>1, <4>2
    <3>3. QED
      BY <3>1, <3>2
  <2>2. \A d \in Callers \ {c} : call'[d] = call[d]
    BY <1>2 DEF MarkStep, Goes
  <2>3. call'[c].of = call[c].of
    BY <1>2 DEF MarkStep, Goes
  <2>4. QED
    BY <2>1, <2>2, <2>3, Types DEF MarkedOK
<1>3. CASE SignalStep(c)
  <2>1. /\ current' = current
        /\ \A q \in Programs, j \in Slots :
              child'[q][j].expected = child[q][j].expected
        /\ \A q \in Programs, j \in Slots :
              \/ child'[q][j].is = child[q][j].is
              \/ /\ q = call[c].of /\ j = current[q]
                 /\ child[q][j].is = "alive" /\ child'[q][j].is = "signalled"
    <3> DEFINE p == call[c].of
               k == current[p]
    <3>1. current' = current
      BY <1>3 DEF SignalStep
    <3>2. CASE child' = child
      BY <3>1, <3>2
    <3>3. CASE child' # child
      <4>1. /\ child[p][k].is = "alive" /\ child'[p][k].is = "signalled"
            /\ child'[p][k].expected = child[p][k].expected
            /\ \A q \in Programs, j \in Slots :
                  q # p \/ j # k => child'[q][j] = child[q][j]
        BY <1>3, <3>3, SignalStepChild
      <4>2. ASSUME NEW q \in Programs, NEW j \in Slots
            PROVE  /\ child'[q][j].expected = child[q][j].expected
                   /\ \/ child'[q][j].is = child[q][j].is
                      \/ /\ q = p /\ j = current[q]
                         /\ child[q][j].is = "alive"
                         /\ child'[q][j].is = "signalled"
        <5>1. CASE q = p /\ j = k
          BY <4>1, <5>1, Zenon
        <5>2. CASE q # p \/ j # k
          BY <4>1, <5>2, Zenon
        <5>3. QED
          BY <5>1, <5>2
      <4>3. QED
        BY <3>1, <4>2
    <3>4. QED
      BY <3>2, <3>3
  <2>2. \A d \in Callers : call'[d].of = call[d].of
    BY <1>3 DEF SignalStep, Goes
  <2>3. \A d \in Callers :
           call'[d].at \in {"signal", "await"} => call[d].at \in {"signal", "await"}
    BY <1>3 DEF SignalStep, Goes, At
  <2>4. call[c].at = "signal"
    BY <1>3 DEF SignalStep, At
  <2>5. QED
    BY <2>1, <2>2, <2>3, <2>4, Types DEF MarkedOK
<1> DEFINE p == call[c].of
<1>4. ASSUME At(c, "stop") \/ At(c, "await") \/ At(c, "start")
      PROVE  \A d \in Callers \ {c} :
                 call[d].of = p => call[d].at \notin {"signal", "await"}
  BY <1>4, Types, OneCritical DEF At, Critical
<1>5. ASSUME NEW a, a \notin {"signal", "await"}, Goes(c, a), Keeps
      PROVE  MarkedOK'
  BY <1>5 DEF Goes, Keeps, MarkedOK
<1>6. ASSUME NEW a, a \notin {"signal", "await"}, Goes(c, a), Drops(p),
             \A d \in Callers \ {c} :
                 call[d].of = p => call[d].at \notin {"signal", "await"}
      PROVE  MarkedOK'
  BY <1>6, Types DEF Goes, Drops, MarkedOK, Child, Currents
<1>7. ASSUME NEW a, a \notin {"signal", "await"}, Goes(c, a), Renews(p),
             \A d \in Callers \ {c} :
                 call[d].of = p => call[d].at \notin {"signal", "await"}
      PROVE  MarkedOK'
  BY <1>7, Types DEF Goes, Renews, MarkedOK, Child, Currents
<1>8. QED
  BY <1>1, <1>2, <1>3, <1>4, <1>5, <1>6, <1>7
     DEF Effect, GoneStep, NewStep, FailStep

(* While main knows that a program does not run, nobody starts it. *)
LEMMA EffectGone ==
    ASSUME PInv, Running, NEW c \in Callers, Effect(c)
    PROVE  GoneOK'
<1>1. /\ UNCHANGED processVars
      /\ \A d \in Callers \ {c} : call'[d] = call[d]
      /\ call[c].of \in Programs /\ call[c] # Idle
  <2>1. UNCHANGED processVars /\ \A d \in Callers \ {c} : call'[d] = call[d]
    BY DEF Effect, EnterStep, FreeStep, MarkStep, SignalStep, GoneStep, NewStep,
           FailStep, Goes
  <2>2. call[c].at # "idle"
    BY DEF Effect, EnterStep, FreeStep, MarkStep, SignalStep, GoneStep, NewStep,
           FailStep, At
  <2>3. QED
    BY <2>1, <2>2, Types DEF Idle, PInv
<1>2. main \in Alone => c = Main
  BY <1>1 DEF PInv, AloneOK
<1>3. c # Main => call[c].of = "collie"
  BY <1>1 DEF PInv, CallsOK
<1>4. c = Main =>
        /\ main \in DOMAIN MainCalls
        /\ call[c].op = MainCalls[main][1] /\ call[c].of = MainCalls[main][2]
  BY <1>1 DEF PInv, CallsOK
<1>5. c # Main /\ main \in {"stopCollie", "stopHerdr"} => Ended(c)
  BY DEF Ended, Closed, PInv, AloneOK, ProcessTypeOK
<1>6. ASSUME NEW p \in Programs, p # call[c].of
      PROVE  current'[p] = current[p]
  BY <1>6, <1>1, Types DEF Effect, EnterStep, FreeStep, MarkStep, SignalStep,
     GoneStep, NewStep, FailStep, Keeps, Drops, Renews, PInv, Currents
<1>7. ASSUME ~NewStep(c), current[call[c].of] = NoChild
      PROVE  current'[call[c].of] = NoChild
  BY <1>7, <1>1, Types DEF Effect, EnterStep, FreeStep, MarkStep, SignalStep,
     GoneStep, FailStep, Keeps, Drops, PInv, Currents
<1>8. ASSUME c = Main, call[c].op = "stop", call'[c].at = "succeeded"
      PROVE  current'[call[c].of] = NoChild
  <2>1. GoneStep(c)
    BY <1>8 DEF Effect, EnterStep, FreeStep, MarkStep, SignalStep, NewStep, FailStep,
         Goes, At, PInv, CallsOK
  <2>2. QED
    BY <2>1, <1>1, Types DEF GoneStep, Drops, PInv, Currents
<1>9. NewStep(c) => call'[c].at = "succeeded" /\ ~Ended(c)
                    /\ call[c].op \in {"start", "restart"}
  BY DEF NewStep, Goes, At, PInv, CallsOK
<1>10. /\ MainCalls["startHerdr"] = <<"start", "herdr">>
       /\ MainCalls["readyHerdr"] = <<"ready", "herdr">>
       /\ MainCalls["startCollie"] = <<"start", "collie">>
       /\ MainCalls["undoCollie"] = <<"stop", "collie">>
       /\ MainCalls["stopCollie"] = <<"stop", "collie">>
       /\ MainCalls["undoHerdr"] = <<"stop", "herdr">>
       /\ MainCalls["stopHerdr"] = <<"stop", "herdr">>
  BY DEF MainCalls
<1>11. UNCHANGED <<main, clean>>
  BY <1>1 DEF processVars
<1>12. NoLead' => current'["collie"] = NoChild
  <2> SUFFICES ASSUME NoLead' PROVE current'["collie"] = NoChild
    OBVIOUS
  <2>1. CASE main \in {"startHerdr", "readyHerdr"}
    BY <2>1, <1>2, <1>4, <1>6, <1>10 DEF Alone, Starting, PInv, GoneOK, NoLead, Programs
  <2>2. CASE main = "startCollie" /\ call'[Main].at # "succeeded"
    <3>1. c = Main /\ call[c].of = "collie"
      BY <2>2, <1>2, <1>4, <1>10 DEF Alone, Starting
    <3>2. current["collie"] = NoChild \/ call[Main].at = "succeeded"
      BY <2>2 DEF PInv, GoneOK, NoLead
    <3>3. call[Main].at # "succeeded"
      BY <3>1 DEF Effect, EnterStep, FreeStep, MarkStep, SignalStep, GoneStep,
             NewStep, FailStep, At
    <3>4. QED
      BY <2>2, <3>1, <3>2, <3>3, <1>7, <1>9
  <2>3. CASE main \in {"undoCollie", "stopCollie"} /\ call'[Main].at = "succeeded"
    <3>1. CASE c = Main
      BY <2>3, <3>1, <1>4, <1>8, <1>10
    <3>2. CASE c # Main
      <4>1. main = "stopCollie" /\ call[Main].at = "succeeded" /\ call[c].of = "collie"
        BY <2>3, <3>2, <1>1, <1>2, <1>3 DEF Alone
      <4>2. current["collie"] = NoChild /\ ~NewStep(c)
        BY <4>1, <3>2, <1>5, <1>9 DEF PInv, GoneOK, NoLead
      <4>3. QED
        BY <4>1, <4>2, <1>7
    <3>3. QED
      BY <3>1, <3>2
  <2>4. CASE main \in {"undoHerdr", "stopHerdr", "exited"} /\ clean
    <3>1. current["collie"] = NoChild /\ main \in {"undoHerdr", "stopHerdr"}
      BY <2>4 DEF PInv, GoneOK, NoLead, Running
    <3>2. CASE c = Main
      BY <3>1, <3>2, <1>4, <1>6, <1>10 DEF Programs
    <3>3. CASE c # Main
      BY <3>1, <3>3, <1>2, <1>3, <1>5, <1>7, <1>9 DEF Alone
    <3>4. QED
      BY <3>2, <3>3
  <2>5. QED
    BY <2>1, <2>2, <2>3, <2>4, <1>11 DEF NoLead
<1>13. NoHerdr' => current'["herdr"] = NoChild
  <2> SUFFICES ASSUME NoHerdr' PROVE current'["herdr"] = NoChild
    OBVIOUS
  <2>1. CASE main = "startHerdr" /\ call'[Main].at # "succeeded"
    <3>1. c = Main /\ call[c].of = "herdr"
      BY <2>1, <1>2, <1>4, <1>10 DEF Alone, Starting
    <3>2. call[Main].at # "succeeded"
      BY <3>1 DEF Effect, EnterStep, FreeStep, MarkStep, SignalStep, GoneStep,
             NewStep, FailStep, At
    <3>3. current["herdr"] = NoChild
      BY <2>1, <3>2 DEF PInv, GoneOK, NoHerdr
    <3>4. QED
      BY <2>1, <3>1, <3>3, <1>7, <1>9
  <2>2. CASE main \in {"undoHerdr", "stopHerdr"} /\ call'[Main].at = "succeeded"
    <3>1. CASE c = Main
      BY <2>2, <3>1, <1>4, <1>8, <1>10
    <3>2. CASE c # Main
      <4>1. call[Main].at = "succeeded" /\ call[c].of = "collie"
        BY <2>2, <3>2, <1>1, <1>3 DEF PInv, CallsOK
      <4>2. current["herdr"] = NoChild
        BY <4>1, <2>2 DEF PInv, GoneOK, NoHerdr
      <4>3. QED
        BY <4>1, <4>2, <1>6 DEF Programs
    <3>3. QED
      BY <3>1, <3>2
  <2>3. QED
    BY <2>1, <2>2, <1>11 DEF NoHerdr, Running
<1>14. QED
  BY <1>12, <1>13 DEF GoneOK

(* A step of a call keeps the invariant. *)
LEMMA CallStepOK ==
    ASSUME PInv, NEW c \in Callers, CallStep(c)
    PROVE  PInv'
<1>1. Effect(c) /\ Running
  BY CallEffect DEF PInv, CallStep
<1>2. QED
  BY <1>1, EffectTypes, EffectLocks, EffectChildren, EffectCalls, EffectMarked,
     EffectGone DEF PInv

-----------------------------------------------------------------------------
(* The other steps. *)

(* The process begins with the invariant. *)
LEMMA InitOK == Init => PInv
<1> SUFFICES ASSUME Init PROVE PInv
  OBVIOUS
<1>1. /\ MainCalls["startHerdr"] = <<"start", "herdr">>
      /\ "startHerdr" \in DOMAIN MainCalls
  BY DEF MainCalls
<1>2. call = [c \in Callers |->
                 IF c = Main THEN Invocation("start", "herdr") ELSE Idle]
  BY DEF Init, SupervisorInit
<1>3. /\ Invocation("start", "herdr") \in
             [op : Ops, of : Programs, at : Places, slot : Slots \cup {NoChild}]
      /\ Idle \in [op : Ops, of : Programs, at : Places, slot : Slots \cup {NoChild}]
  BY DEF Invocation, Idle, Ops, Programs, Places
<1>4. SupervisorTypeOK
  BY <1>2, <1>3 DEF Init, SupervisorInit, SupervisorTypeOK, Child, Fates
<1>5. ProcessTypeOK
  BY <1>1, <1>4 DEF Init, SupervisorInit, ProcessTypeOK
<1>6. \A c \in Callers : call[c].at \in {"lock", "idle"}
  BY <1>2 DEF Invocation, Idle
<1>7. LocksOK /\ ChildrenOK /\ MarkedOK
  BY <1>6 DEF Init, SupervisorInit, LocksOK, ChildrenOK, MarkedOK, Critical, Child
<1>8. CallsOK /\ AloneOK
  <2>1. call[Main] = Invocation("start", "herdr")
        /\ \A c \in Callers \ {Main} : call[c] = Idle
    BY <1>2
  <2>2. Monitor # Main
    BY DEF Main, Monitor
  <2>3. QED
    BY <1>1, <1>6, <2>1, <2>2 DEF CallsOK, AloneOK, Init, Invocation
<1>9. GoneOK
  BY DEF Init, SupervisorInit, GoneOK, Programs
<1>10. QED
  BY <1>5, <1>7, <1>8, <1>9 DEF PInv

(* A step that starts or ends a call of c, who is not in a critical        *)
(* section: nothing changes for the supervisors.                           *)
LEMMA OutsideStep ==
    ASSUME ProcessTypeOK, LocksOK, ChildrenOK, MarkedOK,
           UNCHANGED <<mu, current, healthy, child, loaded, alarm, calm>>,
           NEW c \in Callers, call[c].at \notin Critical,
           call' \in Calls, call'[c].at \notin Critical,
           \A d \in Callers \ {c} : call'[d] = call[d]
    PROVE  LocksOK' /\ ChildrenOK' /\ MarkedOK' /\ SupervisorTypeOK'
<1>1. LocksOK'
  BY DEF LocksOK
<1>2. ChildrenOK'
  BY DEF ChildrenOK
<1>3. MarkedOK'
  BY DEF MarkedOK, Critical
<1>4. SupervisorTypeOK'
  BY DEF ProcessTypeOK, SupervisorTypeOK, Calls
<1>5. QED
  BY <1>1, <1>2, <1>3, <1>4

(* A step that leaves the supervisors alone altogether. *)
LEMMA QuietStep ==
    ASSUME PInv, UNCHANGED supervisorVars
    PROVE  LocksOK' /\ ChildrenOK' /\ MarkedOK' /\ SupervisorTypeOK'
<1>1. LocksOK'
  BY DEF supervisorVars, PInv, LocksOK
<1>2. ChildrenOK'
  BY DEF supervisorVars, PInv, ChildrenOK
<1>3. MarkedOK'
  BY DEF supervisorVars, PInv, MarkedOK
<1>4. SupervisorTypeOK'
  BY DEF supervisorVars, PInv, ProcessTypeOK, SupervisorTypeOK
<1>5. QED
  BY <1>1, <1>2, <1>3, <1>4

(* The tables of the calls of main are well-formed. *)
LEMMA MainFacts ==
    /\ DOMAIN MainCalls = Starting \cup Stopping
    /\ DOMAIN AfterSuccess = DOMAIN MainCalls
    /\ DOMAIN AfterFailure = DOMAIN MainCalls
    /\ \A m \in DOMAIN MainCalls :
          /\ MainCalls[m][1] \in {"start", "ready", "stop"}
          /\ MainCalls[m][2] \in Programs
          /\ AfterSuccess[m] \in DOMAIN MainCalls \cup {"serving", "exited"}
          /\ AfterFailure[m] \in DOMAIN MainCalls \cup {"exited"}
<1>1. DOMAIN MainCalls = Starting \cup Stopping
  BY DEF MainCalls, Starting, Stopping
<1>2. DOMAIN AfterSuccess = DOMAIN MainCalls
  BY DEF MainCalls, AfterSuccess
<1>3. DOMAIN AfterFailure = DOMAIN AfterSuccess
  BY DEF AfterFailure
<1>4. ASSUME NEW m \in Starting \cup Stopping
      PROVE  /\ MainCalls[m][1] \in {"start", "ready", "stop"}
             /\ MainCalls[m][2] \in Programs
  BY DEF MainCalls, Starting, Stopping, Programs
<1>5. ASSUME NEW m \in Starting \cup Stopping
      PROVE  AfterSuccess[m] \in Starting \cup Stopping \cup {"serving", "exited"}
  BY DEF AfterSuccess, Starting, Stopping
<1>6. ASSUME NEW m \in Starting \cup Stopping
      PROVE  AfterFailure[m] \in Starting \cup Stopping \cup {"exited"}
  <2>1. m \in DOMAIN AfterSuccess
    BY <1>1, <1>2
  <2>2. CASE m \in Starting
    BY <2>1, <2>2 DEF AfterFailure, Starting, Stopping
  <2>3. CASE m \in Stopping
    <3>1. AfterFailure[m] = AfterSuccess[m]
      BY <2>1, <2>3 DEF AfterFailure, Stopping
    <3>2. QED
      BY <2>3, <3>1 DEF AfterSuccess, Starting, Stopping
  <2>4. QED
    BY <2>2, <2>3
<1>7. QED
  BY <1>1, <1>2, <1>3, <1>4, <1>5, <1>6

(* main goes on to its next call, or to none. *)
LEMMA MainGoesOK ==
    ASSUME PInv, NEW to \in DOMAIN MainCalls \cup {"serving", "exited"},
           call[Main].at \notin Critical, MainGoes(to), OnlyCall
    PROVE  /\ LocksOK' /\ ChildrenOK' /\ MarkedOK' /\ SupervisorTypeOK'
           /\ IF main' \in DOMAIN MainCalls
              THEN /\ call'[Main].op = MainCalls[main'][1]
                   /\ call'[Main].of = MainCalls[main'][2]
                   /\ call'[Main].at = "lock"
              ELSE call'[Main] = Idle
           /\ \A d \in Callers \ {Main} : call'[d] = call[d]
<1> DEFINE new == IF to \in DOMAIN MainCalls
                  THEN Invocation(MainCalls[to][1], MainCalls[to][2]) ELSE Idle
<1>1. /\ new \in [op : Ops, of : Programs, at : Places, slot : Slots \cup {NoChild}]
      /\ new.at \in {"lock", "idle"}
      /\ IF to \in DOMAIN MainCalls
         THEN /\ new.op = MainCalls[to][1] /\ new.of = MainCalls[to][2]
              /\ new.at = "lock"
         ELSE new = Idle
  <2>1. CASE to \in DOMAIN MainCalls
    BY <2>1, MainFacts DEF Invocation, Ops, Places
  <2>2. CASE to \notin DOMAIN MainCalls
    BY <2>2 DEF Idle, Ops, Programs, Places
  <2>3. QED
    BY <2>1, <2>2
<1>2. call' = [call EXCEPT ![Main] = new] /\ main' = to
  BY DEF MainGoes
<1> HIDE DEF new
<1>3. Main \in Callers /\ call \in Calls
  BY Types DEF PInv
<1>4. call' \in Calls /\ call'[Main] = new
      /\ \A d \in Callers \ {Main} : call'[d] = call[d]
  BY <1>1, <1>2, <1>3 DEF Calls
<1>5. LocksOK' /\ ChildrenOK' /\ MarkedOK' /\ SupervisorTypeOK'
  BY <1>1, <1>3, <1>4, OutsideStep DEF PInv, OnlyCall, Critical
<1>6. QED
  BY <1>1, <1>2, <1>4, <1>5

(* Where main can go from each of its calls. *)
LEMMA MainSteps ==
    \A m \in DOMAIN MainCalls :
       /\ AfterSuccess[m] \notin {"startHerdr", "undoCollie", "stopCollie"}
       /\ AfterSuccess[m] = "readyHerdr" => m = "startHerdr"
       /\ AfterSuccess[m] = "startCollie" => m = "readyHerdr"
       /\ AfterSuccess[m] = "readyCollie" => m = "startCollie"
       /\ AfterSuccess[m] = "undoHerdr" => m = "undoCollie"
       /\ AfterSuccess[m] = "stopHerdr" => m = "stopCollie"
       /\ AfterSuccess[m] = "exited" => m \in {"undoHerdr", "stopHerdr"}
       /\ AfterSuccess[m] = "serving" => m = "readyCollie"
  BY DEF MainCalls, AfterSuccess

(* Where a failure takes main. *)
LEMMA MainFailures ==
    \A m \in DOMAIN MainCalls :
       \/ m \in Stopping /\ AfterFailure[m] \in {"undoHerdr", "stopHerdr", "exited"}
          /\ (m = "stopCollie" <=> AfterFailure[m] = "stopHerdr")
          /\ (m = "undoCollie" <=> AfterFailure[m] = "undoHerdr")
       \/ m = "startHerdr" /\ AfterFailure[m] = "exited"
       \/ m = "readyHerdr" /\ AfterFailure[m] = "undoHerdr"
       \/ m = "startCollie" /\ AfterFailure[m] = "undoHerdr"
       \/ m = "readyCollie" /\ AfterFailure[m] = "undoCollie"
<1> SUFFICES ASSUME NEW m \in Starting \cup Stopping,
                    m \in DOMAIN AfterSuccess
             PROVE  \/ /\ m \in Stopping
                       /\ AfterFailure[m] \in {"undoHerdr", "stopHerdr", "exited"}
                       /\ m = "stopCollie" <=> AfterFailure[m] = "stopHerdr"
                       /\ m = "undoCollie" <=> AfterFailure[m] = "undoHerdr"
                    \/ m = "startHerdr" /\ AfterFailure[m] = "exited"
                    \/ m = "readyHerdr" /\ AfterFailure[m] = "undoHerdr"
                    \/ m = "startCollie" /\ AfterFailure[m] = "undoHerdr"
                    \/ m = "readyCollie" /\ AfterFailure[m] = "undoCollie"
  BY MainFacts
<1>1. CASE m \in Starting
  BY <1>1 DEF AfterFailure, Starting
<1>2. CASE m \in Stopping
  <2>1. AfterFailure[m] = AfterSuccess[m]
    BY <1>2 DEF AfterFailure, Stopping
  <2>2. QED
    BY <1>2, <2>1 DEF AfterSuccess, Stopping
<1>3. QED
  BY <1>1, <1>2

(* main returns from a call. *)
LEMMA MainReturnsOK ==
    ASSUME PInv, MainReturns
    PROVE  PInv'
<1>1. /\ main \in DOMAIN MainCalls
      /\ call[Main].at \in {"succeeded", "failed"}
      /\ UNCHANGED <<ctx, late, trust, loaded, current>>
  BY DEF MainReturns, Has, OnlyCall
<1> DEFINE to == IF Has(Main, "succeeded") THEN AfterSuccess[main]
                                           ELSE AfterFailure[main]
<1>2. to \in DOMAIN MainCalls \cup {"serving", "exited"}
  BY <1>1, MainFacts
<1>3. MainGoes(to) /\ main' = to
  BY <1>1 DEF MainReturns, Has, MainGoes
<1>4. clean' = (clean /\ (Has(Main, "failed") => main \notin Stopping))
  BY <1>1 DEF MainReturns, Has, PInv, ProcessTypeOK
<1>5. /\ monitor' = IF main' = "serving" THEN [monitor EXCEPT !.at = "baseline"]
                                         ELSE monitor
      /\ OnlyCall
  BY DEF MainReturns
<1>6. Main \in Callers /\ call[Main].at \notin Critical
  BY <1>1 DEF Critical
<1> HIDE DEF to
<1>7. /\ LocksOK' /\ ChildrenOK' /\ MarkedOK' /\ SupervisorTypeOK'
      /\ IF main' \in DOMAIN MainCalls
         THEN /\ call'[Main].op = MainCalls[main'][1]
              /\ call'[Main].of = MainCalls[main'][2]
              /\ call'[Main].at = "lock"
         ELSE call'[Main] = Idle
      /\ \A d \in Callers \ {Main} : call'[d] = call[d]
  BY <1>2, <1>3, <1>5, <1>6, MainGoesOK
<1>8. ProcessTypeOK'
  <2>1. main' \in DOMAIN MainCalls \cup {"serving", "draining", "closing", "exited"}
    BY <1>2, <1>3
  <2>2. monitor' \in [at : {"off", "baseline", "waiting", "restart", "ready", "gone"},
                      last : Versions \cup {0}, pending : Versions \cup {0},
                      seen : Versions \cup {0}]
    BY <1>5 DEF PInv, ProcessTypeOK
  <2>3. clean' \in BOOLEAN
    BY <1>4 DEF PInv, ProcessTypeOK
  <2>4. QED
    BY <1>1, <1>7, <2>1, <2>2, <2>3 DEF PInv, ProcessTypeOK
<1>9. CallsOK'
  <2>1. Monitor \in Callers \ {Main}
    BY DEF Main, Monitor
  <2>2. monitor'.at \notin {"restart", "ready"} => call'[Monitor] = Idle
    <3>1. CASE main' = "serving"
      <4>1. main = "readyCollie"
        BY <1>1, <1>3, <3>1, MainSteps, MainFacts, MainFailures DEF to
      <4>2. QED
        BY <4>1, <1>7, <2>1 DEF PInv, AloneOK, Alone, Starting
    <3>2. CASE main' # "serving"
      BY <3>2, <1>5, <1>7, <2>1 DEF PInv, CallsOK
    <3>3. QED
      BY <3>1, <3>2
  <2>3. /\ call'[Main].at \in {"probe", "mark"} => call'[Main].op = "ready"
        /\ call'[Main].at = "start" => call'[Main].op \in {"start", "restart"}
    BY <1>7 DEF Idle
  <2>4. QED
    BY <1>7, <2>1, <2>2, <2>3 DEF PInv, CallsOK
<1>10. AloneOK'
  <2>1. main' \in Alone => main \in Alone /\ main' # "serving"
    BY <1>1, <1>3, MainSteps, MainFailures, MainFacts
       DEF to, Alone, Starting, Stopping
  <2>2. main' \notin {"draining", "closing"}
        /\ (main' \in {"stopCollie", "stopHerdr"} => main = "stopCollie")
    BY <1>1, <1>2, <1>3, MainSteps, MainFailures, MainFacts
       DEF to, Starting, Stopping
  <2>3. QED
    BY <1>1, <1>5, <1>7, <2>1, <2>2 DEF PInv, AloneOK
<1>11. GoneOK'
  <2>1. NoLead' => NoLead
    BY <1>1, <1>3, <1>4, <1>7, MainSteps, MainFailures, MainFacts
       DEF NoLead, to, Has, Stopping, Starting, Idle
  <2>2. NoHerdr' => NoHerdr
    BY <1>1, <1>3, <1>4, <1>7, MainSteps, MainFailures, MainFacts
       DEF NoHerdr, to, Has, Stopping, Starting, Idle
  <2>3. QED
    BY <1>1, <2>1, <2>2 DEF PInv, GoneOK
<1>12. QED
  BY <1>7, <1>8, <1>9, <1>10, <1>11 DEF PInv

(* main wakes or drains. *)
LEMMA MainWakesOK ==
    ASSUME PInv, MainWakes \/ MainDrains
    PROVE  PInv'
<1>1. /\ main \in {"serving", "draining"} /\ main' \in {"draining", "closing"}
      /\ main = "serving" => ctx'
      /\ main = "draining" => ctx' = ctx
      /\ UNCHANGED <<supervisorVars, late, clean, trust, monitor>>
  BY DEF MainWakes, MainDrains
<1>2. LocksOK' /\ ChildrenOK' /\ MarkedOK' /\ SupervisorTypeOK'
  BY <1>1, QuietStep
<1>3. ProcessTypeOK'
  BY <1>1, <1>2 DEF PInv, ProcessTypeOK, supervisorVars, MainWakes, MainDrains
<1>4. CallsOK'
  BY <1>1, MainFacts DEF PInv, CallsOK, supervisorVars, Starting, Stopping
<1>5. AloneOK' /\ GoneOK'
  BY <1>1 DEF PInv, AloneOK, GoneOK, NoLead, NoHerdr, Alone, Starting, supervisorVars
<1>6. QED
  BY <1>2, <1>3, <1>4, <1>5 DEF PInv

(* main waits for the others, then stops the lead. *)
LEMMA MainClosesOK ==
    ASSUME PInv, MainCloses
    PROVE  PInv'
<1>1. /\ main = "closing" /\ main' = "stopCollie" /\ MainGoes("stopCollie")
      /\ OnlyCall /\ UNCHANGED <<ctx, late, clean, trust, monitor>>
  BY DEF MainCloses, MainGoes
<1>2. "stopCollie" \in DOMAIN MainCalls /\ main \notin DOMAIN MainCalls
  BY <1>1, MainFacts DEF Starting, Stopping
<1>3. call[Main] = Idle /\ call[Main].at \notin Critical
  BY <1>2 DEF PInv, CallsOK, Idle, Critical
<1>4. /\ LocksOK' /\ ChildrenOK' /\ MarkedOK' /\ SupervisorTypeOK'
      /\ call'[Main].op = MainCalls[main'][1]
      /\ call'[Main].of = MainCalls[main'][2]
      /\ call'[Main].at = "lock"
      /\ \A d \in Callers \ {Main} : call'[d] = call[d]
  BY <1>1, <1>2, <1>3, MainGoesOK
<1>5. ProcessTypeOK'
  BY <1>1, <1>2, <1>4 DEF PInv, ProcessTypeOK, OnlyCall
<1>6. CallsOK'
  <2>1. Monitor \in Callers \ {Main}
    BY DEF Main, Monitor
  <2>2. QED
    BY <1>1, <1>2, <1>4, <2>1 DEF PInv, CallsOK
<1>7. AloneOK' /\ GoneOK'
  BY <1>1, <1>4 DEF PInv, AloneOK, GoneOK, NoLead, NoHerdr, Alone, Starting
<1>8. QED
  BY <1>4, <1>5, <1>6, <1>7 DEF PInv

(* The process is told to stop, or the deadline passes. *)
LEMMA SignsOK ==
    ASSUME PInv, Interrupt \/ DeadlinePasses
    PROVE  PInv'
<1>1. UNCHANGED <<supervisorVars, main, clean, trust, monitor>>
      /\ ctx' \in BOOLEAN /\ late' \in BOOLEAN /\ (ctx => ctx')
  BY DEF Interrupt, DeadlinePasses, PInv, ProcessTypeOK
<1>2. LocksOK' /\ ChildrenOK' /\ MarkedOK' /\ SupervisorTypeOK'
  BY <1>1, QuietStep
<1>3. ProcessTypeOK'
  BY <1>1, <1>2 DEF PInv, ProcessTypeOK, supervisorVars
<1>4. CallsOK' /\ AloneOK' /\ GoneOK'
  BY <1>1 DEF PInv, CallsOK, AloneOK, GoneOK, NoLead, NoHerdr, supervisorVars
<1>5. QED
  BY <1>2, <1>3, <1>4 DEF PInv

-----------------------------------------------------------------------------
(* The monitor, the workers and the Pack state.                            *)

(* A step of c, who is not main, that changes nothing but its call, the    *)
(* monitor's state and the file.                                           *)
LEMMA AsideStep ==
    ASSUME PInv, NEW c \in Callers \ {Main},
           OnlyCall, UNCHANGED <<main, ctx, late, clean>>,
           main \notin Alone, trust' \in Versions \cup {0},
           monitor' \in [at : {"off", "baseline", "waiting", "restart", "ready",
                               "gone"},
                         last : Versions \cup {0}, pending : Versions \cup {0},
                         seen : Versions \cup {0}],
           call[c].at \notin Critical,
           \/ Forget(c)
           \/ \E op \in {"restart", "ready"} : Invoke(c, op, "collie"),
           c = Monitor /\ monitor'.at \notin {"restart", "ready"} => Forget(c),
           c # Monitor => monitor' = monitor
    PROVE  PInv'
<1>1. PICK new \in {Idle, Invocation("restart", "collie"),
                    Invocation("ready", "collie")} :
         /\ call' = [call EXCEPT ![c] = new]
         /\ c = Monitor /\ monitor'.at \notin {"restart", "ready"} => new = Idle
  <2>1. CASE Forget(c)
    BY <2>1 DEF Forget
  <2>2. CASE ~Forget(c) /\ \E op \in {"restart", "ready"} : Invoke(c, op, "collie")
    BY <2>2 DEF Invoke
  <2>3. QED
    BY <2>1, <2>2
<1>2. /\ new \in [op : Ops, of : Programs, at : Places, slot : Slots \cup {NoChild}]
      /\ new.at \in {"lock", "idle"} /\ (new = Idle \/ new.of = "collie")
  BY <1>1 DEF Invocation, Idle, Ops, Programs, Places
<1>3. call \in Calls
  BY Types DEF PInv
<1>4. call' \in Calls /\ call'[c] = new
      /\ \A d \in Callers \ {c} : call'[d] = call[d]
  BY <1>1, <1>2, <1>3 DEF Calls
<1>5. LocksOK' /\ ChildrenOK' /\ MarkedOK' /\ SupervisorTypeOK'
  BY <1>2, <1>4, OutsideStep DEF PInv, OnlyCall, Critical
<1>6. ProcessTypeOK'
  BY <1>5 DEF PInv, ProcessTypeOK, OnlyCall
<1>7. CallsOK'
  <2>1. Main \in Callers /\ Main # c /\ Monitor \in Callers
    BY DEF Main, Monitor
  <2>2. monitor'.at \notin {"restart", "ready"} => call'[Monitor] = Idle
    <3>1. CASE c = Monitor
      BY <3>1, <1>1, <1>4
    <3>2. CASE c # Monitor
      BY <3>2, <1>4, <2>1 DEF PInv, CallsOK
    <3>3. QED
      BY <3>1, <3>2
  <2>3. QED
    BY <1>2, <1>4, <2>1, <2>2 DEF PInv, CallsOK
<1>8. AloneOK' /\ GoneOK'
  <2>1. Main \in Callers /\ Main # c
    BY DEF Main
  <2>2. call'[Main] = call[Main]
    BY <1>4, <2>1
  <2>3. QED
    BY <2>2 DEF PInv, AloneOK, GoneOK, NoLead, NoHerdr, OnlyCall
<1>9. QED
  BY <1>5, <1>6, <1>7, <1>8 DEF PInv

(* A step that changes no call at all. *)
LEMMA SilentStep ==
    ASSUME PInv,
           UNCHANGED <<mu, current, healthy, child, loaded, alarm, call>>,
           calm' \in BOOLEAN, UNCHANGED <<main, ctx, late, clean>>,
           trust' \in Versions \cup {0},
           monitor' \in [at : {"off", "baseline", "waiting", "restart", "ready",
                               "gone"},
                         last : Versions \cup {0}, pending : Versions \cup {0},
                         seen : Versions \cup {0}],
           \/ monitor'.at = monitor.at
           \/ /\ monitor.at \notin {"off", "restart", "ready"}
              /\ monitor'.at \notin {"off", "restart", "ready"}
    PROVE  PInv'
<1>1. LocksOK' /\ ChildrenOK' /\ MarkedOK'
  BY DEF PInv, LocksOK, ChildrenOK, MarkedOK
<1>2. ProcessTypeOK'
  BY DEF PInv, ProcessTypeOK, SupervisorTypeOK
<1>3. CallsOK'
  BY DEF PInv, CallsOK
<1>4. AloneOK'
  BY DEF PInv, AloneOK
<1>5. GoneOK'
  BY DEF PInv, GoneOK, NoLead, NoHerdr
<1>6. QED
  BY <1>1, <1>2, <1>3, <1>4, <1>5 DEF PInv

(* The steps of the monitor outside its calls. *)
LEMMA MonitorOK ==
    ASSUME PInv,
           \/ MonitorBegins \/ MonitorNotes \/ MonitorRestarts
           \/ MonitorRestarted \/ MonitorReady \/ MonitorEnds
    PROVE  PInv'
<1>1. /\ trust \in Versions \cup {0}
      /\ monitor \in [at : {"off", "baseline", "waiting", "restart", "ready", "gone"},
                      last : Versions \cup {0}, pending : Versions \cup {0},
                      seen : Versions \cup {0}]
  BY DEF PInv, ProcessTypeOK
<1>2. Monitor \in Callers \ {Main}
  BY DEF Main, Monitor
<1>3. main \notin Alone
  BY DEF PInv, AloneOK, MonitorBegins, MonitorNotes, MonitorRestarts,
         MonitorRestarted, MonitorReady, MonitorEnds
<1>4. CASE MonitorBegins \/ MonitorNotes \/ MonitorEnds
  <2>1. UNCHANGED <<supervisorVars, main, ctx, late, clean, trust>>
    BY <1>4 DEF MonitorBegins, MonitorNotes, MonitorEnds
  <2>2. /\ monitor' \in [at : {"off", "baseline", "waiting", "restart", "ready",
                               "gone"},
                         last : Versions \cup {0}, pending : Versions \cup {0},
                         seen : Versions \cup {0}]
        /\ monitor.at \notin {"off", "restart", "ready"}
        /\ monitor'.at \notin {"off", "restart", "ready"}
    BY <1>1, <1>4 DEF MonitorBegins, MonitorNotes, MonitorEnds
  <2>3. calm' \in BOOLEAN
    BY <2>1 DEF PInv, ProcessTypeOK, SupervisorTypeOK, supervisorVars
  <2>4. QED
    BY <1>1, <2>1, <2>2, <2>3, SilentStep DEF supervisorVars
<1>5. CASE MonitorRestarts
  <2>1. call[Monitor].at \notin Critical
    BY <1>5 DEF PInv, CallsOK, MonitorRestarts, Idle, Critical
  <2>2. monitor' = [monitor EXCEPT !.at = "restart", !.seen = trust]
        /\ Invoke(Monitor, "restart", "collie")
        /\ OnlyCall /\ UNCHANGED <<main, ctx, late, clean, trust>>
    BY <1>5 DEF MonitorRestarts
  <2>3. QED
    BY <1>1, <1>2, <1>3, <2>1, <2>2, AsideStep
<1>6. CASE MonitorRestarted
  <2>1. call[Monitor].at \notin Critical
    BY <1>6 DEF MonitorRestarted, Has, Critical
  <2>2. \/ /\ Invoke(Monitor, "ready", "collie")
           /\ monitor' = [monitor EXCEPT !.at = "ready"]
        \/ /\ Forget(Monitor)
           /\ monitor' = [monitor EXCEPT !.at = "waiting", !.seen = 0]
    BY <1>6 DEF MonitorRestarted
  <2>3. OnlyCall /\ UNCHANGED <<main, ctx, late, clean, trust>>
    BY <1>6 DEF MonitorRestarted
  <2>4. QED
    BY <1>1, <1>2, <1>3, <2>1, <2>2, <2>3, AsideStep
<1>7. CASE MonitorReady
  <2>1. call[Monitor].at \notin Critical
    BY <1>7 DEF MonitorReady, Has, Critical
  <2>2. \/ monitor' = [at |-> "waiting", last |-> monitor.seen, pending |-> 0,
                       seen |-> 0]
        \/ monitor' = [monitor EXCEPT !.at = "waiting", !.seen = 0]
    BY <1>7 DEF MonitorReady
  <2>3. Forget(Monitor) /\ OnlyCall /\ UNCHANGED <<main, ctx, late, clean, trust>>
    BY <1>7 DEF MonitorReady
  <2>4. monitor' \in [at : {"off", "baseline", "waiting", "restart", "ready", "gone"},
                      last : Versions \cup {0}, pending : Versions \cup {0},
                      seen : Versions \cup {0}]
    <3>1. CASE monitor' = [at |-> "waiting", last |-> monitor.seen, pending |-> 0,
                           seen |-> 0]
      BY <1>1, <3>1
    <3>2. CASE monitor' = [monitor EXCEPT !.at = "waiting", !.seen = 0]
      BY <1>1, <3>2
    <3>3. QED
      BY <2>2, <3>1, <3>2
  <2>5. QED
    BY <1>1, <1>2, <1>3, <2>1, <2>3, <2>4, AsideStep
<1>8. QED
  BY <1>4, <1>5, <1>6, <1>7

(* A worker begins or ends a restart of the lead. *)
LEMMA WorkerOK ==
    ASSUME PInv, NEW c \in Workers, WorkerRestarts(c) \/ WorkerReturns(c)
    PROVE  PInv'
<1>1. c \in Callers \ {Main} /\ c # Monitor
  BY DEF Main, Monitor
<1>2. call[c].at \notin Critical
  BY DEF WorkerRestarts, WorkerReturns, Busy, Has, Critical
<1>3. main \notin Alone
  <2>1. CASE WorkerRestarts(c)
    BY <2>1 DEF WorkerRestarts, Alone, Starting
  <2>2. CASE WorkerReturns(c)
    <3>1. call[c].at \in {"succeeded", "failed"}
      BY <2>2 DEF WorkerReturns, Has
    <3>2. call[c] # Idle
      BY <3>1 DEF Idle
    <3>3. QED
      BY <1>1, <3>2 DEF PInv, AloneOK
  <2>3. QED
    BY <2>1, <2>2
<1>4. /\ OnlyCall /\ UNCHANGED <<main, ctx, late, clean, monitor>>
      /\ trust' \in Versions \cup {0}
      /\ Forget(c) \/ Invoke(c, "restart", "collie")
  BY Types DEF WorkerRestarts, WorkerReturns, processVars, PInv
<1>5. QED
  BY <1>1, <1>2, <1>3, <1>4, AsideStep DEF PInv, ProcessTypeOK

(* A join, the end of trouble, or nothing. *)
LEMMA OtherOK ==
    ASSUME PInv, Joins \/ Settle \/ UNCHANGED vars
    PROVE  PInv'
<1>1. /\ UNCHANGED <<mu, current, healthy, child, loaded, alarm, call>>
      /\ UNCHANGED <<main, ctx, late, clean, monitor>>
      /\ calm' \in BOOLEAN /\ trust' \in Versions \cup {0}
  BY DEF PInv, ProcessTypeOK, SupervisorTypeOK, Joins, Settle, vars,
         supervisorVars, processVars
<1>2. QED
  BY <1>1, SilentStep DEF PInv, ProcessTypeOK

-----------------------------------------------------------------------------
(* The children and their reapers.                                         *)

(* The child in slot k goes from one fate to another and stays its         *)
(* supervisor's.                                                           *)
LEMMA FateStep ==
    ASSUME PInv, NEW p \in Programs, NEW k \in Slots,
           NEW r \in [is : Fates, expected : BOOLEAN],
           child' = [child EXCEPT ![p][k] = r],
           child[p][k].is # "free", r.is # "free",
           r.is \in {"signalled", "stopped"} => r.expected,
           r.is = "done" \/ r.expected = child[p][k].expected,
           alarm' \in BOOLEAN, UNCHANGED <<mu, current, healthy, loaded, call, calm>>,
           child[p][k].is # "done",
           UNCHANGED processVars
    PROVE  PInv'
<1>1. child \in Children
  BY Types DEF PInv
<1>2. child' \in Children
  BY <1>1 DEF Children
<1>3. child'[p][k] = r
  BY <1>1 DEF Children
<1>4. \A q \in Programs, j \in Slots : q # p \/ j # k => child'[q][j] = child[q][j]
  BY <1>1 DEF Children
<1>5. LocksOK' /\ CallsOK' /\ AloneOK' /\ GoneOK'
  BY DEF PInv, LocksOK, CallsOK, AloneOK, GoneOK, NoLead, NoHerdr, processVars
<1>6. ProcessTypeOK'
  BY <1>2 DEF PInv, ProcessTypeOK, SupervisorTypeOK, Children, processVars
<1>7. ChildrenOK'
  <2>1. \A q \in Programs, j \in Slots :
           child'[q][j].is = "free" <=> child[q][j].is = "free"
    BY <1>3, <1>4
  <2>2. QED
    BY <2>1 DEF PInv, ChildrenOK
<1>8. MarkedOK'
  <2>1. ASSUME NEW q \in Programs, NEW j \in Slots,
               child'[q][j].is \in {"signalled", "stopped"}
        PROVE  child'[q][j].expected
    <3>1. CASE q = p /\ j = k
      BY <2>1, <3>1, <1>3
    <3>2. CASE q # p \/ j # k
      <4>1. child'[q][j] = child[q][j]
        BY <3>2, <1>4
      <4>2. child[q][j].expected
        BY <2>1, <4>1 DEF PInv, MarkedOK
      <4>3. QED
        BY <4>1, <4>2, Zenon
    <3>3. QED
      BY <3>1, <3>2
  <2>2. ASSUME NEW q \in Programs, NEW j \in Slots, NEW c \in Callers,
               call'[c].of = q, current'[q] = j, call'[c].at \in {"signal", "await"}
        PROVE  child'[q][j].expected \/ child'[q][j].is = "done"
    <3>1. child[q][j].expected \/ child[q][j].is = "done"
      BY <2>2 DEF PInv, MarkedOK
    <3>2. CASE q = p /\ j = k
      BY <3>1, <3>2, <1>3
    <3>3. CASE q # p \/ j # k
      BY <3>1, <3>3, <1>4, Zenon
    <3>4. QED
      BY <3>2, <3>3
  <2>3. QED
    BY <2>1, <2>2 DEF MarkedOK
<1>9. QED
  BY <1>5, <1>6, <1>7, <1>8 DEF PInv

(* A child meets another fate. *)
LEMMA Faring ==
    ASSUME child \in Children, NEW p \in Programs, NEW k \in Slots,
           NEW fate \in Fates
    PROVE  LET r == [child[p][k] EXCEPT !.is = fate] IN
           /\ r \in [is : Fates, expected : BOOLEAN]
           /\ r.is = fate /\ r.expected = child[p][k].expected
  BY DEF Children

(* A signalled child dies. *)
LEMMA DiesOK ==
    ASSUME PInv, NEW p \in Programs, NEW k \in Slots, Dies(p, k),
           UNCHANGED processVars
    PROVE  PInv'
<1> DEFINE r == [child[p][k] EXCEPT !.is = "stopped"]
<1>1. child[p][k].is = "signalled" /\ child' = [child EXCEPT ![p][k] = r]
      /\ UNCHANGED <<mu, current, healthy, loaded, alarm, call, calm>>
  BY DEF Dies
<1>2. /\ r \in [is : Fates, expected : BOOLEAN]
      /\ r.is = "stopped" /\ r.expected = child[p][k].expected
  BY Types, Faring DEF PInv, Fates
<1>3. child[p][k].expected
  BY <1>1 DEF PInv, MarkedOK
<1>4. alarm' \in BOOLEAN
  BY <1>1 DEF PInv, ProcessTypeOK, SupervisorTypeOK
<1> HIDE DEF r
<1>5. r.expected
  BY <1>2, <1>3, Zenon
<1>6. QED
  BY <1>1, <1>2, <1>4, <1>5, FateStep

(* A child exits of itself. *)
LEMMA CrashesOK ==
    ASSUME PInv, NEW p \in Programs, NEW k \in Slots, Crashes(p, k),
           UNCHANGED processVars
    PROVE  PInv'
<1> DEFINE r == [child[p][k] EXCEPT !.is = "crashed"]
<1>1. child[p][k].is = "alive" /\ child' = [child EXCEPT ![p][k] = r]
      /\ UNCHANGED <<mu, current, healthy, loaded, alarm, call, calm>>
  BY DEF Crashes
<1>2. /\ r \in [is : Fates, expected : BOOLEAN]
      /\ r.is = "crashed" /\ r.expected = child[p][k].expected
  BY Types, Faring DEF PInv, Fates
<1>3. alarm' \in BOOLEAN
  BY <1>1 DEF PInv, ProcessTypeOK, SupervisorTypeOK
<1> HIDE DEF r
<1>4. QED
  BY <1>1, <1>2, <1>3, FateStep

(* The reaper has waited for its child. *)
LEMMA FinishOK ==
    ASSUME PInv, NEW p \in Programs, NEW k \in Slots, Finish(p, k),
           UNCHANGED processVars
    PROVE  PInv'
<1> DEFINE r == Child("done")
<1>1. child[p][k].is \in {"crashed", "stopped"} /\ child' = [child EXCEPT ![p][k] = r]
      /\ UNCHANGED <<mu, current, healthy, loaded, call, calm>>
  BY DEF Finish
<1>2. r \in [is : Fates, expected : BOOLEAN] /\ r.is = "done"
  BY DEF Child, Fates
<1>3. alarm' \in BOOLEAN
  BY DEF Finish, PInv, ProcessTypeOK, SupervisorTypeOK
<1> HIDE DEF r
<1>4. QED
  BY <1>1, <1>2, <1>3, FateStep

(* A reaper clears its child when nobody holds the mutex. *)
LEMMA ReapOK ==
    ASSUME PInv, NEW p \in Programs, NEW k \in Slots, Reap(p, k),
           UNCHANGED processVars
    PROVE  PInv'
<1>1. /\ mu[p] = NoCaller /\ LetGo(p)
      /\ healthy' = [healthy EXCEPT ![p] = FALSE]
      /\ UNCHANGED <<mu, loaded, alarm, call, calm>>
  BY DEF Reap
<1>2. Drops(p)
  BY <1>1, Types, LetGoDrops DEF PInv
<1>3. LocksOK' /\ CallsOK' /\ AloneOK'
  BY <1>1 DEF PInv, LocksOK, CallsOK, AloneOK, processVars
<1>4. ChildrenOK'
  BY <1>2, DropsChildren DEF PInv
<1>5. ProcessTypeOK'
  <2>1. child' \in Children /\ current' \in Currents
    BY <1>2, Types DEF Drops, PInv, Currents
  <2>2. mu' \in Locks /\ healthy' \in [Programs -> BOOLEAN] /\ call' \in Calls
        /\ loaded' \in [Programs -> Versions \cup {0}]
    BY <1>1, Types DEF PInv
  <2>3. SupervisorTypeOK'
    BY <1>1, <2>1, <2>2
       DEF PInv, ProcessTypeOK, SupervisorTypeOK, Children, Currents, Locks, Calls
  <2>4. QED
    BY <2>2, <2>3 DEF PInv, ProcessTypeOK, processVars
<1>6. MarkedOK'
  <2>1. \A c \in Callers : call[c].of = p => call[c].at \notin {"signal", "await"}
    BY <1>1 DEF PInv, LocksOK, Critical
  <2>2. QED
    BY <1>1, <1>2, <2>1, Types DEF Drops, PInv, MarkedOK, Child, Currents
<1>7. GoneOK'
  <2>1. \A q \in Programs : current[q] = NoChild => current'[q] = NoChild
    BY <1>2, Types DEF Drops, PInv, Currents
  <2>2. QED
    BY <1>1, <2>1 DEF PInv, GoneOK, NoLead, NoHerdr, processVars, Programs
<1>8. QED
  BY <1>3, <1>4, <1>5, <1>6, <1>7 DEF PInv

-----------------------------------------------------------------------------
(* Every step keeps the invariant. *)
LEMMA NextOK ==
    ASSUME PInv, [Next]_vars
    PROVE  PInv'
<1>1. Main \in Callers /\ Monitor \in Callers /\ Workers \subseteq Callers
  OBVIOUS
<1>2. CASE MainStep
  BY <1>1, <1>2, MainReturnsOK, MainWakesOK, MainClosesOK, CallStepOK DEF MainStep
<1>3. CASE MonitorStep
  BY <1>1, <1>3, MonitorOK, CallStepOK DEF MonitorStep
<1>4. CASE \E c \in Workers : WorkerStep(c) \/ WorkerRestarts(c)
  BY <1>1, <1>4, WorkerOK, CallStepOK DEF WorkerStep
<1>5. CASE ChildStep \/ Reaps \/ Crash
  BY <1>5, DiesOK, FinishOK, ReapOK, CrashesOK DEF ChildStep, Reaps, Crash
<1>6. CASE Interrupt \/ DeadlinePasses
  BY <1>6, SignsOK
<1>7. CASE Joins \/ Settle \/ UNCHANGED vars
  BY <1>7, OtherOK
<1>8. QED
  BY <1>2, <1>3, <1>4, <1>5, <1>6, <1>7 DEF Next

(* The two supervisors stay in order under every interleaving of main, the *)
(* monitor, the worker, a job and the reapers, whatever fails: who holds   *)
(* the mutex, whose child is kept, whose exit is expected, and which       *)
(* program is known to be gone (collie.go, main.go, pack_monitor.go).      *)
THEOREM Supervision == Spec => []PInv
<1>1. PInv /\ [Next]_vars => PInv'
  BY NextOK
<1>2. QED
  BY InitOK, <1>1, PTL DEF Spec

(* Neither the lead nor Herdr ever runs twice, whoever restarts it while   *)
(* somebody else does (collie.go:165-230).                                 *)
THEOREM NeverTwice == Spec => []OneChild
<1>1. PInv => OneChild
  BY DEF PInv, ChildrenOK, OneChild, Runs
<1>2. QED
  BY <1>1, Supervision, PTL

(* A start that is undone or a shutdown, if no stop has failed, leaves     *)
(* neither the lead nor Herdr running, even when the monitor or a job was  *)
(* restarting the lead at the time (main.go's stopAll).                    *)
THEOREM NobodyLeft == Spec => []NoOrphan
<1>1. PInv => NoOrphan
  <2> SUFFICES ASSUME PInv, ~Running, clean, NEW p \in Programs, NEW k \in Slots
               PROVE  ~Runs(p, k)
    BY DEF NoOrphan
  <2>1. current[p] = NoChild
    BY DEF PInv, GoneOK, NoLead, NoHerdr, Running, Programs
  <2>2. child[p][k].is = "free"
    BY <2>1 DEF PInv, ChildrenOK
  <2>3. QED
    BY <2>2 DEF Runs
<1>2. QED
  BY <1>1, Supervision, PTL

(* The manager shuts down because of a child only if one has crashed: an   *)
(* exit that a stop or a restart asked for is never reported.              *)
THEOREM AlarmIsTrue == Spec => NoFalseAlarm
<1> DEFINE Crashed == \E p \in Programs, k \in Slots : child[p][k].is = "crashed"
<1>1. ASSUME PInv, [Next]_vars, alarm', ~alarm
      PROVE  Crashed
  <2>1. PICK p \in Programs, k \in Slots : Finish(p, k)
    <3>1. \A c \in Callers : CallStep(c) => alarm' = alarm
      BY <1>1, CallEffect DEF Effect, PInv
    <3>2. ~MainStep /\ ~MonitorStep
      BY <1>1, <3>1 DEF MainStep, MainReturns, MainWakes, MainDrains, MainCloses,
         MonitorStep, MonitorBegins, MonitorNotes, MonitorRestarts,
         MonitorRestarted, MonitorReady, MonitorEnds, OnlyCall, supervisorVars
    <3>3. ~\E c \in Workers : WorkerStep(c) \/ WorkerRestarts(c)
      BY <1>1, <3>1 DEF WorkerStep, WorkerReturns, WorkerRestarts, OnlyCall
    <3>4. ~(Interrupt \/ DeadlinePasses \/ Joins \/ Settle \/ UNCHANGED vars)
      BY <1>1 DEF Interrupt, DeadlinePasses, Joins, Settle, vars, supervisorVars
    <3>5. ~(Reaps \/ Crash)
      BY <1>1 DEF Reaps, Crash, Reap, Crashes
    <3>6. ChildStep
      BY <1>1, <3>2, <3>3, <3>4, <3>5 DEF Next
    <3>7. QED
      BY <1>1, <3>6 DEF ChildStep, Dies
  <2>2. child[p][k].is \in {"crashed", "stopped"} /\ ~child[p][k].expected
    BY <1>1, <2>1, Zenon DEF Finish
  <2>3. child[p][k].is = "crashed"
    BY <1>1, <2>2 DEF PInv, MarkedOK
  <2>4. QED
    BY <2>3
<1>2. PInv /\ [Next]_vars => [alarm' /\ ~alarm => Crashed]_vars
  BY <1>1
<1>3. QED
  BY <1>2, Supervision, PTL DEF Spec, NoFalseAlarm
=============================================================================
