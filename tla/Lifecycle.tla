----------------------------- MODULE Lifecycle -----------------------------
(***************************************************************************)
(* What the manager promises about a sandbox, phases, commands and crashes *)
(* aside: it is asked for, it may hold things outside the manager while it *)
(* is wanted or doomed, a doom is final, and only a doomed sandbox that    *)
(* holds nothing vanishes, so that its name begins again with nothing.     *)
(* Several names may move in one step.                                     *)
(***************************************************************************)
CONSTANTS
    Names,      \* sandbox names
    Things      \* the kinds of things a sandbox may hold

VARIABLES
    life,       \* life[n]: no such sandbox, to exist, or to be deleted
    holds       \* holds[n]: what there is of it outside its record

Init ==
    /\ life = [n \in Names |-> "absent"]
    /\ holds = [n \in Names |-> {}]

Becomes(n, l, h) == life'[n] = l /\ holds'[n] = h

Rest(n) == Becomes(n, life[n], holds[n])

Ask(n) == life[n] = "absent" /\ Becomes(n, "wanted", {})

(* A sandbox that exists gains and loses things, also while it is doomed:  *)
(* the worker may be in the middle of a step of its creation.              *)
Change(n) ==
    /\ life[n] # "absent"
    /\ \E l \in {life[n], "doomed"}, h \in SUBSET Things : Becomes(n, l, h)

Vanish(n) == life[n] = "doomed" /\ holds[n] = {} /\ Becomes(n, "absent", {})

Next ==
    /\ life' \in [Names -> {"absent", "wanted", "doomed"}]
    /\ holds' \in [Names -> SUBSET Things]
    /\ \A n \in Names : Rest(n) \/ Ask(n) \/ Change(n) \/ Vanish(n)

Spec == Init /\ [][Next]_<<life, holds>>
=============================================================================
