----------------------------- MODULE StatusLadder -----------------------------
(***************************************************************************)
(* dashboard/internal/status/ladder.go: the status of one location in one  *)
(* hour from its counts, and of the hour from its locations.               *)
(***************************************************************************)
EXTENDS Naturals, FiniteSets

LocationFromCounts(successes, failures) ==
  CASE failures = 0         -> "success"
    [] failures > successes -> "outage"
    [] OTHER                -> "degraded"

\* (mutant) The cases the other way round.
AggregateSwapped(statuses) ==
  LET all == DOMAIN statuses
      nonSuccess == {l \in all : statuses[l] # "success"} IN
  CASE all = {}               -> "unknown"
    [] nonSuccess = {}        -> "operational"
    [] nonSuccess = all       -> "degraded"
    [] OTHER -> IF \E l \in all : statuses[l] = "outage" THEN "major_outage" ELSE "degraded"

\* statuses gives the status of every location that reports.
AggregateFromLocations(statuses) ==
  LET all == DOMAIN statuses
      nonSuccess == {l \in all : statuses[l] # "success"}
      outages == {l \in all : statuses[l] = "outage"} IN
  IF all = {} THEN "unknown"
  ELSE IF nonSuccess = all /\ outages # {} THEN "major_outage"
  ELSE IF outages # {} \/ Cardinality(nonSuccess) > 1 \/ nonSuccess = all THEN "degraded"
  ELSE "operational"

Rank(status) ==
  [unknown |-> 0, operational |-> 1, degraded |-> 2, major_outage |-> 3][status]
=============================================================================
