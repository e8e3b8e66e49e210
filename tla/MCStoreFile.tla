---------------------------- MODULE MCStoreFile ----------------------------
(* Values for the constants of StoreFile in its configuration. *)
EXTENDS StoreFile

CONSTANTS s1, s2, d1, d2

TwoNames == {s1, s2}
TwoData == {d1, d2}
=============================================================================
