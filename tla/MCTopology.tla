----------------------------- MODULE MCTopology -----------------------------
(* Instances of Topology for TLC. *)
EXTENDS Topology, TLC

CONSTANTS x, y, h

Hello(type) ==
    [type |-> type, set_name |-> NoName, all_hosts |-> {}, me |-> NoAddress,
     primary |-> NoAddress, election_id |-> 0, set_version |-> 0, post_17 |-> FALSE,
     topology_version |-> NoVersion]

TwoSeeds == NewDescription("Unknown", NoName, Addresses)
Direct == NewDescription("Single", NoName, Addresses)

\* The addresses, which nothing tells apart.
Either == Permutations({x, y})

Failed == Hello("Unknown")
Cluster == {Hello("Mongos"), Hello("Standalone"), Failed}
OneServer == {Hello("Standalone"), Failed}

-----------------------------------------------------------------------------
(* Statements that TLC refutes, besides CloseIsNotStuck.  No configuration *)
(* lists them; each one names the least bounds that show why.              *)

\* "older errors cannot invalidate newer state" (application_error_is_stale):
\* MaxFailures = 2.
OldErrorsClearNothing ==
    [][\A p \in Processes :
          FinishError(p) => \A e \in Opened :
              entries'[e].generation # entries[e].generation
                 => entries[e].generation = work[p].generation]_vars

\* close does not raise: MaxRescans = 1, or MaxFailures = 1.
CloseNeverRaises == pc[Closer] # "failed"

\* Callers of with_generation keep to what it asserts: MaxFailures = 1.
LockIsNeverLost == ~ \E i \in DOMAIN lock : lock[i] = Nobody

\* Nor is the lock lost while the manager is open: MaxRescans = 1.
LockIsKept == state = "open" => LockIsNeverLost

\* close closes all pools: MaxRescans = 2.
CloseClosesEveryPool ==
    pc[Closer] = "done" => \A e \in Opened : entries[e].pool = "closed"

\* "Single topology requires exactly one seed" (M.new of sdam.lua): MaxRescans = 1
\* and MaxFailures = 1.
SingleHasOneServer ==
    description.type = "Single" => Cardinality(Present(description.servers)) = 1

\* DescriptionKnowsGenerations of every server: MaxRescans = 1, MaxFailures = 2.
AllGenerationsAreKnown ==
    AtRest => \A a \in Addresses :
                 Known(a) => description.servers[a].generation = entries[Current(a)].generation
=============================================================================
