----------------------------- MODULE MCShutdown -----------------------------
(* Values for the constants of Shutdown in its configuration. *)
EXTENDS Shutdown

CONSTANTS main0, other, g1, g2, q1, q2

TwoCallers == {main0, other}
TwoGenerations == {g1, g2}
TwoRequests == {q1, q2}
=============================================================================
