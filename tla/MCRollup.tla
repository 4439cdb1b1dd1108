------------------------------- MODULE MCRollup -------------------------------
(* Small instances of Rollup for TLC.                                      *)
EXTENDS Rollup

CONSTANTS home, away

Scenario(known, samples, outages, restarts) ==
  [known |-> known, samples |-> samples, outages |-> outages, restarts |-> restarts]

\* A service both locations know, or only the other one.
MCSafe == {Scenario({home, away}, 1, 1, 1), Scenario({home, away}, 2, 1, 0),
           Scenario({home, away}, 0, 2, 1),
           Scenario({away}, 1, 1, 1), Scenario({away}, 1, 2, 0)}

MCTwoOutages == {Scenario({home, away}, 0, 2, 0)}
MCRestarted == {Scenario({home, away}, 1, 1, 1)}
=============================================================================
