----------------------------- MODULE Workspace -----------------------------
(***************************************************************************)
(* The directory of a sandbox under the work root                          *)
(* (internal/runtime/bundle.go): the clone with the runtime overlaid on    *)
(* it, and the join token copied into it.                                  *)
(***************************************************************************)
EXTENDS Environment

VARIABLES
    bits,       \* bits[n]: state of the directory
    installed   \* installed[n]: it carries the invite prepared last

workVars == <<bits, installed>>

WorkTypeOK ==
    /\ bits \in [Names -> {"none", "partial", "complete"}]
    /\ installed \in [Names -> BOOLEAN]

WorkInit ==
    /\ bits = [n \in Names |-> "none"]
    /\ installed = [n \in Names |-> FALSE]

(* Prepare refuses a directory that exists: git clone does. *)
CanPrepare(n) == bits[n] = "none"

(* The clone creates the directory ... *)
BeginPrepare(n) ==
    /\ CanPrepare(n)
    /\ bits' = [bits EXCEPT ![n] = "partial"]
    /\ UNCHANGED installed

(* ... and the overlay completes it; on error Prepare removes what it      *)
(* created, unless that fails too.                                         *)
FinishPrepare(n, ok) ==
    /\ \/ ok /\ bits' = [bits EXCEPT ![n] = "complete"]
       \/ ~ok /\ MayFail /\ bits' = [bits EXCEPT ![n] = "none"]
       \/ ~ok /\ MayFail /\ bits' = bits
    /\ UNCHANGED installed

InstallEnrollment(n, readable, ok) ==
    /\ \/ (ok \/ MayFail) /\ installed' = [installed EXCEPT ![n] = TRUE]
       \/ ~ok /\ (MayFail \/ ~readable) /\ installed' = installed
    /\ UNCHANGED bits

(* os.RemoveAll, which may fail half way. *)
RemoveBits(n, ok) ==
    \/ /\ ok \/ MayFail
       /\ bits' = [bits EXCEPT ![n] = "none"]
       /\ installed' = [installed EXCEPT ![n] = FALSE]
    \/ /\ ~ok /\ MayFail
       /\ bits' = [bits EXCEPT ![n] = IF @ = "none" THEN @ ELSE "partial"]
       /\ installed' = [installed EXCEPT ![n] = FALSE]
    \/ ~ok /\ MayFail /\ UNCHANGED workVars
=============================================================================
