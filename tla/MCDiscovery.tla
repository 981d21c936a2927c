----------------------------- MODULE MCDiscovery -----------------------------
(* Instances of Discovery for TLC: every kind of reply of two servers. *)
EXTENDS Discovery

CONSTANTS a, b, s, t

versions == {NoVersion} \cup [process : {1}, counter : {1, 2}]
Hosts == {{a}, {b}, {a, b}}

Reply(type) ==
    [type |-> type, set_name |-> NoName, all_hosts |-> {}, me |-> NoAddress,
     primary |-> NoAddress, election_id |-> 0, set_version |-> 0, post_17 |-> TRUE,
     topology_version |-> NoVersion]

Strangers == {Reply(type) : type \in {"Standalone", "Mongos", "RSGhost", "LoadBalancer"}}
Failures == {[Reply("Unknown") EXCEPT !.topology_version = v] : v \in versions}

MCMembers ==
    {[Reply("RSSecondary") EXCEPT !.set_name = n, !.all_hosts = h, !.me = m, !.primary = p] :
        n \in {s, t}, h \in Hosts, m \in {NoAddress, a}, p \in {NoAddress, b}}

MCPrimaries ==
    {[Reply("RSPrimary") EXCEPT !.set_name = s, !.all_hosts = h, !.election_id = e,
                                !.set_version = v, !.post_17 = new] :
        h \in Hosts, e \in 0 .. 2, v \in 1 .. 2, new \in BOOLEAN}

MCHeard ==
    Strangers \cup Failures \cup MCMembers \cup MCPrimaries
        \cup {[Reply("RSPrimary") EXCEPT !.set_name = t, !.all_hosts = {a, b}]}

MCStarts ==
    {NewDescription(type, NoName, {a, b}) :
        type \in {"Unknown", "Sharded", "ReplicaSetNoPrimary"}}
    \cup {NewDescription("ReplicaSetNoPrimary", s, {a, b})}
    \cup {NewDescription(type, NoName, {a}) : type \in {"Unknown", "Single", "LoadBalanced"}}
    \cup {NewDescription("Single", s, {a})}
=============================================================================
