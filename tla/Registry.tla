------------------------------ MODULE Registry ------------------------------
(***************************************************************************)
(* What the sandbox store promises its callers (internal/store/file.go),   *)
(* without saying how: there is one value, the map of records; a change    *)
(* that was reported done is in every value a crash can leave; one that    *)
(* was reported failed, or not reported at all, may be there or not.       *)
(***************************************************************************)
EXTENDS FiniteSets

CONSTANTS Names, Data, NoData, Open

Maps == [Names -> Data \cup {NoData}]
NoRecords == [n \in Names |-> NoData]

VARIABLES
    value,      \* the map, as readers see it
    possible,   \* the maps a crash may leave, value among them
    promise     \* what was reported done of each name; Open while a change
                \* of it is asked for, and after one was reported failed

rvars == <<value, possible, promise>>

RegistryInit ==
    /\ value = NoRecords
    /\ possible = {NoRecords}
    /\ promise = NoRecords

(* A caller asks for a change of n: the earlier promise is off. *)
Ask(n) ==
    /\ promise' = [promise EXCEPT ![n] = Open]
    /\ UNCHANGED <<value, possible>>

(* The change becomes something a crash may leave. *)
Attempt(n, d) ==
    /\ promise[n] = Open
    /\ possible' = possible \cup {[value EXCEPT ![n] = d]}
    /\ UNCHANGED <<value, promise>>

(* It is reported done: from now on nothing else is possible. *)
Done(n, d) ==
    /\ value' = [value EXCEPT ![n] = d]
    /\ possible' = {value'}
    /\ promise' = [promise EXCEPT ![n] = d]

(* It is reported failed although it is in effect. *)
Doubt(n, d) ==
    /\ promise[n] = Open
    /\ value' = [value EXCEPT ![n] = d]
    /\ value' \in possible
    /\ UNCHANGED <<possible, promise>>

(* A crash leaves one of the possible maps, and may settle which. *)
Crash ==
    /\ value' \in possible
    /\ value' \in possible' /\ possible' \subseteq possible
    /\ promise' = promise

RegistryNext ==
    \/ \E n \in Names : Ask(n)
    \/ \E n \in Names, d \in Data \cup {NoData} :
          Attempt(n, d) \/ Done(n, d) \/ Doubt(n, d)
    \/ Crash

RegistrySpec == RegistryInit /\ [][RegistryNext]_rvars
=============================================================================
