---------------------------- MODULE DependencyGraph ----------------------------
(***************************************************************************)
(* The search for cycles that planning/update_plan.py runs over the        *)
(* activities of the roadmap, as the code writes it, depth first and in    *)
(* the order of the document, and what it is to have a cycle.              *)
(*                                                                         *)
(* A graph maps every node to the set of the nodes it depends on.          *)
(***************************************************************************)
EXTENDS Naturals, Sequences, FiniteSets

\* The members of `set' in the order of `order'.
InOrder(set, order) ==
    LET at == {i \in DOMAIN order : order[i] \in set}
        Nth(k) == CHOOSE i \in at : Cardinality({j \in at : j <= i}) = k
    IN  [k \in 1 .. Cardinality(at) |-> order[Nth(k)]]

\* A call of visit: the nodes to go on with, those that are being visited, and
\* those that have been.
Ask(list, visiting, visited) == [list |-> list, visiting |-> visiting, visited |-> visited]

\* visit: is there a cycle below the nodes of the list, and what has been visited
\* by then?
Visit(graph, order) ==
    LET Node == {order[i] : i \in DOMAIN order}
        List == UNION {[1 .. n -> Node] : n \in 0 .. Len(order)}
        visit[asked \in [list : List, visiting : SUBSET Node, visited : SUBSET Node]] ==
            IF asked.list = <<>> THEN [visited |-> asked.visited, cycle |-> FALSE]
            ELSE LET node == Head(asked.list)
                     below == visit[Ask(InOrder(graph[node], order),
                                        asked.visiting \cup {node}, asked.visited)]
                     here ==
                        IF node \in asked.visited
                        THEN [visited |-> asked.visited, cycle |-> FALSE]
                        ELSE IF node \in asked.visiting
                        THEN [visited |-> asked.visited, cycle |-> TRUE]
                        ELSE [visited |-> below.visited \cup {node}, cycle |-> below.cycle]
                     rest == visit[Ask(Tail(asked.list), asked.visiting, here.visited)]
                 IN  [visited |-> rest.visited, cycle |-> here.cycle \/ rest.cycle]
    IN  visit

\* The verdict of validate_plan about the whole plan.
HasCycle(graph, order) == Visit(graph, order)[Ask(order, {}, {})].cycle

-----------------------------------------------------------------------------
(* What a search for cycles is for. *)

\* No nodes that all depend on one of them.
Acyclic(graph) ==
    \A set \in (SUBSET DOMAIN graph) \ {{}} : \E node \in set : graph[node] \cap set = {}

\* A walk along dependencies that comes back to where it began, and nowhere twice.
IsCycle(graph, walk) ==
    /\ Len(walk) > 1 /\ walk[1] = walk[Len(walk)]
    /\ \A i \in 1 .. Len(walk) - 1 :
          /\ walk[i + 1] \in graph[walk[i]]
          /\ \A j \in 1 .. i - 1 : walk[i] # walk[j]
=============================================================================
