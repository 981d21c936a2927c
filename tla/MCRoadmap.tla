------------------------------ MODULE MCRoadmap ------------------------------
(* Instances of Roadmap for TLC, and what the checks of the project compute
   against what they are for, over bounded inputs. *)
EXTENDS Roadmap, QualityGates, TLC

CONSTANTS a, b

AThenB == <<a, b>>
Chain == (a :> {}) @@ (b :> {a})
\* The chain as edited: the dependency dropped, or turned into a cycle.
Edited == {Chain, (a :> {}) @@ (b :> {}), (a :> {b}) @@ (b :> {a})}
OneAndTwo == (a :> 1) @@ (b :> 2)
LaterTrack == (a :> NoTrack) @@ (b :> "later")
LaterEntry == "later" :> b
LaterAfter == "later" :> a

-----------------------------------------------------------------------------
\* The two searches, one of which only says whether there is a cycle, find one
\* exactly in the graphs that have one, though each visits a node only once;
\* and what the other reports are cycles.  All graphs of three nodes; the order
\* is one of them, as every graph occurs with its nodes renamed.
ASSUME CyclesAreFound ==
    \A graph \in [1 .. 3 -> SUBSET (1 .. 3)] :
        LET cycles == DependencyCycles(graph, <<1, 2, 3>>)
        IN  /\ HasCycle(graph, <<1, 2, 3>>) <=> ~Acyclic(graph)
            /\ cycles = {} <=> Acyclic(graph)
            /\ \A walk \in cycles : IsCycle(graph, walk)

\* Without cycles and without names of the runtime in other modules, and only
\* then, the architecture is valid; a name that is no module is no dependency.
ASSUME ArchitectureIsJudged ==
    \A imports \in [1 .. 2 -> SUBSET (1 .. 3)], accesses \in [1 .. 2 -> SUBSET {4}],
       runtime \in SUBSET (1 .. 2) :
        SourceIssues(imports, accesses, runtime, {3, 4}, <<1, 2>>) = {}
            <=> /\ Acyclic(ImportGraph(imports))
                /\ \A m \in 1 .. 2 : m \notin runtime =>
                      3 \notin imports[m] /\ accesses[m] = {}

Functions == {"f", "g"}
Measurements == UNION {[set -> 2 .. 5] : set \in SUBSET Functions}
Baselines == [limit : 2 .. 3, hotspots : Measurements]

\* The ratchet lets pass exactly the baseline that it would generate itself: no
\* function can become worse, and none can become better unrecorded.  What
\* --update writes passes.
ASSUME RatchetIsTight ==
    \A measured \in Measurements :
        /\ \A baseline \in Baselines :
              ComplexityGate(baseline, measured)
                  <=> baseline = GeneratedBaseline(measured, baseline.limit)
        /\ ComplexityGate(GeneratedBaseline(measured, 3), measured)

\* The ranges hold the members and nothing else, in order, and could not be
\* fewer; two pairs of code points have two keys.
ASSUME TablesAreExact ==
    /\ \A members \in SUBSET (0 .. 5) :
          LET ranges == Ranges(members, 6)
          IN  /\ members = UNION {ranges[i][1] .. ranges[i][2] : i \in DOMAIN ranges}
              /\ \A i \in DOMAIN ranges : ranges[i][1] <= ranges[i][2]
              /\ \A i \in 1 .. Len(ranges) - 1 : ranges[i][2] + 1 < ranges[i + 1][1]
    /\ \A p, q \in (0 .. 3) \X (0 .. 3) :
          CompositionKey(p[1], p[2], 4) = CompositionKey(q[1], q[2], 4) => p = q

-----------------------------------------------------------------------------
(* A statement of the code that its commands refute. *)

\* What command_requeue refuses to break ("cannot reopen ...; completed
\* dependents"): nothing is completed while one of its dependencies is pending.
\* It looks at the dependents that are completed already; one that is in
\* progress is completed later, and command_complete looks at no dependency.
\* As long as the plan is not edited.
NothingCompletedOnReopened ==
    \A x \in With(progress, "completed") : plan[x] \cap With(progress, "pending") = {}
=============================================================================
