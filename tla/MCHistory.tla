------------------------------- MODULE MCHistory ------------------------------
(* A small instance of History for TLC.  Its locations are alike.          *)
EXTENDS History, TLC

CONSTANTS home, away

Alike == Permutations({home, away})
=============================================================================
