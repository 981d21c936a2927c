---------------------------- MODULE MCReferences ----------------------------
(* Instances of References for TLC, and the table of the README, one of the
   projections, over bounded counts. *)
EXTENDS References, Compatibility, TLC

CONSTANTS a, b

\* Two commits of their own on the first, merged by the fourth.
Merge == <<{}, {1}, {1}, {2, 3}, {4}>>
\* x and y are cases of one suite, d its document, z a case of another.
Versions == <<[x |-> 1, y |-> 1, d |-> 1, z |-> 0],
              [x |-> 2, y |-> 1, d |-> 1, z |-> 0],
              [x |-> 1, y |-> 2, d |-> 2, z |-> 0],
              [x |-> 2, y |-> 2, d |-> 2, z |-> 1],
              [x |-> 2, y |-> 2, d |-> 2, z |-> 0]>>
Suites == [x |-> "s", y |-> "s", d |-> "s", z |-> "t"]
Owners == [x |-> a, y |-> b, d |-> a, z |-> b]
OneBegun == (a :> "completed") @@ (b :> "pending")
RanBy == [x |-> "unit", y |-> "other", d |-> NoCommand, z |-> NoCommand]
Breaking == <<"none", "none", "projections", "ledger", "projections">>

-----------------------------------------------------------------------------
(* The table of the README. *)

Counts == [OutcomeStatus -> 0 .. 1]

\* "A suite is complete when every scored outcome passes, partial when passing
\* and incomplete outcomes coexist", and the percentage says the same, as long as
\* fewer than 2000 outcomes are scored.  What is excluded from a row with a
\* percentage is in the note.
ASSUME RowsAreTrue ==
    \A counts \in Counts :
        /\ Marker(counts) = "complete" <=> Tenths(counts) = {1000}
        /\ Marker(counts) = "partial" <=> Tenths(counts) # {} /\ Tenths(counts) \cap {0, 1000} = {}
        /\ Marker(counts) = "not implemented" => Tenths(counts) = {0}
        /\ Dagger(counts) <=> Noted(counts) > 0
ASSUME PercentagesAreExact ==
    \A failed \in 1 .. 2, passed \in {1, 2, 3, 998, 1996, 1997, 1998} :
        LET counts == [s \in OutcomeStatus |->
                          CASE s = "passed" -> passed [] s = "failed" -> failed [] OTHER -> 0]
        IN  (1000 \in Tenths(counts) \/ 0 \in Tenths(counts)) => Scored(counts) >= 2000

\* A case is counted once; one that its document or its test keeps from every
\* server from the floor on is not scored, and one that any requirement of both
\* admits is.
ASSUME CountedOnce ==
    \A document, test \in SUBSET {0, 6, 7}, scored \in BOOLEAN :
        LET case == [suite |-> "s", status |-> "passed", scored |-> scored,
                     document |-> document, test |-> test]
            counts == SuiteCounts("s", {case}, {}, {}, 7)
            admits(requirements) == requirements = {} \/ requirements \cap {0, 7} # {}
        IN  /\ Cardinality({s \in OutcomeStatus : counts[s] = 1}) = 1
            /\ counts["passed"] = 1 <=> scored /\ admits(document) /\ admits(test)

-----------------------------------------------------------------------------
(* Statements of the documents that the code refutes. *)

\* "A dagger marks rows with excluded fixtures, and the generated note below the
\* table gives their counts": the row of the total has one if a suite that is
\* unsupported altogether is added to suites that are scored, and the note says
\* nothing of it.
TotalIsExplained ==
    \A first, second \in Counts :
        Dagger(Total(first, second)) => Noted(first) + Noted(second) > 0

\* "checks preceding commits from newest to oldest until it finds the nearest
\* passing waypoint": if none passes, find_green_waypoint names the pin, which
\* nobody has simulated, and which fails if it was moved ahead of its evidence.
WaypointIsGreen ==
    review # NoReport /\ review.waypoint.last_green # 0 =>
        /\ review.waypoint.last_green \notin Flaky
        /\ review.waypoint.last_green \in seen.classified
              \/ Breaks[review.waypoint.last_green] = "none"

\* "artifacts derived from the pinned MongoDB specifications": they are made from
\* whatever is checked out, and say that they are of the pin.
RegeneratedFromThePin == outcome = "regenerated" => artifacts["ledger"] = pin
=============================================================================
