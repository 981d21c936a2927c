----------------------------- MODULE QualityGates -----------------------------
(***************************************************************************)
(* The checks that the project runs over its own sources, as operators:    *)
(* the architecture of the driver's modules                                *)
(* (planning/check_architecture.py), the ratchet on the complexity of its  *)
(* functions (tools/check_lua_complexity.py) and the ranges of the tables  *)
(* that tools/generate_stringprep_tables.py writes.                        *)
(***************************************************************************)
EXTENDS DependencyGraph

(* The architecture: of every module the names it imports and the globals it
   accesses, as its tokens show them. *)

\* The nodes on the stack from where `node' is, and `node' again.
CycleAt(stack, node) ==
    Append(SubSeq(stack, CHOOSE i \in DOMAIN stack : stack[i] = node, Len(stack)), node)

\* dependency_cycles: a node is new, on the stack, or done.
DependencyCycles(graph, order) ==
    LET Node == {order[i] : i \in DOMAIN order}
        Found == [mark : [Node -> {"new", "open", "done"}], cycles : SUBSET Seq(Node)]
        visit[list \in Seq(Node), stack \in Seq(Node), found \in Found] ==
            IF list = <<>> THEN found
            ELSE LET node == Head(list)
                     below == visit[InOrder(graph[node], order), Append(stack, node),
                                    [found EXCEPT !.mark[node] = "open"]]
                     here ==
                        CASE found.mark[node] = "new" -> [below EXCEPT !.mark[node] = "done"]
                          [] found.mark[node] = "open" ->
                                [found EXCEPT !.cycles = @ \cup {CycleAt(stack, node)}]
                          [] found.mark[node] = "done" -> found
                 IN  visit[Tail(list), stack, here]
    IN  visit[order, <<>>, [mark |-> [n \in Node |-> "new"], cycles |-> {}]].cycles

ImportGraph(imports) == [m \in DOMAIN imports |-> imports[m] \cap DOMAIN imports]

\* What belongs to the runtime is for modules of the runtime alone.
BoundaryIssues(imports, accesses, runtime, owned) ==
    UNION {{m} \X (owned \cap (imports[m] \cup accesses[m])) : m \in DOMAIN imports \ runtime}

\* check_source
SourceIssues(imports, accesses, runtime, owned, order) ==
    DependencyCycles(ImportGraph(imports), order)
        \cup BoundaryIssues(imports, accesses, runtime, owned)

-----------------------------------------------------------------------------
(* The complexity ratchet.  A measurement, and the hotspots of a baseline, map
   the identities of functions to scores. *)

\* load_baseline refuses anything else.
ValidBaseline(baseline) ==
    /\ baseline.limit > 1
    /\ \A f \in DOMAIN baseline.hotspots : baseline.hotspots[f] > baseline.limit

\* compare: the functions that are new, gone, worse or better, and so an issue.
ComplexityIssues(baseline, measured) ==
    LET hotspots == baseline.hotspots
    IN  {f \in DOMAIN measured \ DOMAIN hotspots : measured[f] > baseline.limit}
        \cup (DOMAIN hotspots \ DOMAIN measured)
        \cup {f \in DOMAIN hotspots \cap DOMAIN measured : measured[f] # hotspots[f]}

\* generated_baseline
GeneratedBaseline(measured, limit) ==
    LET hot == {f \in DOMAIN measured : measured[f] > limit}
    IN  [limit |-> limit, hotspots |-> [f \in hot |-> measured[f]]]

\* main: the verdict without --update.
ComplexityGate(baseline, measured) ==
    ValidBaseline(baseline) /\ ComplexityIssues(baseline, measured) = {}

-----------------------------------------------------------------------------
(* The Stringprep tables. *)

\* ranges: one pass over the code points below `bound'.
Ranges(members, bound) ==
    LET None == bound
        pass[point \in 0 .. bound] ==
            IF point = 0 THEN [ranges |-> <<>>, start |-> None, previous |-> None]
            ELSE LET before == pass[point - 1]
                     here == point - 1
                 IN  IF here \notin members THEN before
                     ELSE IF before.start = None
                     THEN [before EXCEPT !.start = here, !.previous = here]
                     ELSE IF here = before.previous + 1
                     THEN [before EXCEPT !.previous = here]
                     ELSE [ranges |-> Append(before.ranges, <<before.start, before.previous>>),
                           start |-> here, previous |-> here]
        last == pass[bound]
    IN  IF last.start = None THEN last.ranges
        ELSE Append(last.ranges, <<last.start, last.previous>>)

\* composition_entry: the key of a pair of code points.
CompositionKey(first, second, bound) == first * bound + second
=============================================================================
