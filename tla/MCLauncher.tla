----------------------------- MODULE MCLauncher -----------------------------
(* Values for the constants of Launcher in its configuration. *)
EXTENDS Launcher

CONSTANTS r1, r2

TwoRequests == {r1, r2}
=============================================================================
