------------------------------ MODULE MCIncidents ------------------------------
(* A small instance of Incidents for TLC.  Locations are alike, and so are *)
(* failure messages.                                                       *)
EXTENDS Incidents, TLC

CONSTANTS home, away, refused, timeout

Alike == Permutations({home, away}) \cup Permutations({refused, timeout})
=============================================================================
