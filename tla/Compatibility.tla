---------------------------- MODULE Compatibility ----------------------------
(***************************************************************************)
(* The compatibility table of the README, projected from the conformance   *)
(* ledger and catalog (planning/update_readme_compatibility.py): how an    *)
(* outcome is counted, and what a row makes of the counts of a suite.      *)
(*                                                                         *)
(* Counts map every status to the number of outcomes that have it.         *)
(***************************************************************************)
EXTENDS Naturals, FiniteSets

\* "failed" stands for the statuses of scored outcomes that did not pass.
CatalogStatus == {"passed", "failed", "no_machine_cases", "not_applicable", "unsupported"}
NonExecution == {"no_machine_cases", "not_applicable", "unsupported",
                 "old_server_only", "unscored_exclusion"}
OutcomeStatus == CatalogStatus \cup NonExecution

\* _requirements_are_old_server_only: each has a maximum, all below the floor.
\* A requirement is its maxServerVersion; 0: it has none.
OldServerOnly(requirements, floor) ==
    requirements # {} /\ \A maximum \in requirements : 0 < maximum /\ maximum < floor

\* suite_counts: under which status a case of the ledger counts.  Those of its
\* fixture's requirements count that are given for the document or for the test.
CountedAs(case, floor) ==
    IF ~case.scored THEN "unscored_exclusion"
    ELSE IF OldServerOnly(case.document, floor) \/ OldServerOnly(case.test, floor)
         THEN "old_server_only"
         ELSE case.status

\* suite_counts, of cases and of the requirements of projected suites.
SuiteCounts(suite, cases, requirements, projected, floor) ==
    [s \in OutcomeStatus |->
        Cardinality({c \in cases : c.suite = suite /\ CountedAs(c, floor) = s})
        + Cardinality({r \in requirements :
                          r.suite = suite /\ suite \in projected /\ r.status = s})]

Incomplete(counts) == counts["failed"]
Scored(counts) == counts["passed"] + Incomplete(counts)

\* status_marker
Marker(counts) ==
    CASE counts["passed"] > 0 /\ Incomplete(counts) = 0 -> "complete"
      [] counts["passed"] > 0 /\ Incomplete(counts) > 0 -> "partial"
      [] counts["passed"] = 0 /\ counts["unsupported"] > 0 -> "white"
      [] counts["passed"] = 0 /\ counts["unsupported"] = 0 ->
            IF Incomplete(counts) > 0 THEN "not implemented" ELSE "white"

\* supported_percentage, in tenths: the nearest, either of two that are as near.
\* Empty: N/A.
Tenths(counts) ==
    {n \in 0 .. 1000 :
        /\ Scored(counts) > 0
        /\ 2 * n * Scored(counts) <= 2000 * counts["passed"] + Scored(counts)
        /\ 2 * n * Scored(counts) + Scored(counts) >= 2000 * counts["passed"]}

\* marked_percentage: is the percentage followed by a dagger?
Dagger(counts) ==
    \/ counts["old_server_only"] > 0
    \/ counts["unscored_exclusion"] > 0
    \/ counts["unsupported"] > 0 /\ Scored(counts) > 0

\* scoring_note: the fixtures of a suite that the note below the table counts.
Noted(counts) ==
    counts["old_server_only"] + counts["unscored_exclusion"]
        + (IF Scored(counts) > 0 THEN counts["unsupported"] ELSE 0)

\* render_table: the counts of the last row.
Total(first, second) == [s \in OutcomeStatus |-> first[s] + second[s]]
=============================================================================
