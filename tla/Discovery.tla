------------------------------ MODULE Discovery ------------------------------
(***************************************************************************)
(* A topology description that hears any replies of any servers, in any    *)
(* order, and a client that rescans SRV records and closes                 *)
(* (src/src/mongodb/sdam.lua).                                             *)
(***************************************************************************)
EXTENDS SDAM

CONSTANTS
    Heard,          \* the parsed replies that may arrive
    Starts,         \* the descriptions a client may start with
    MaxGeneration   \* bounds the pool generations of replies

\* server_type and M.new: only members have a set name, and a client starts with
\* unchecked servers, one seed if it is told to be Single or LoadBalanced.
ASSUME HeardAreReplies ==
    /\ Heard \subseteq Replies
    /\ \A r \in Heard : r.type \in NamedTypes => r.set_name \in SetNames

ASSUME StartsAreNew ==
    \A td \in Starts :
       \E type \in TopologyTypes \ {"ReplicaSetWithPrimary"}, name \in SetNames \cup {NoName},
          seeds \in SUBSET Addresses :
          /\ type \in {"Single", "LoadBalanced"} => Cardinality(seeds) = 1
          /\ td = NewDescription(type, name, seeds)

ASSUME GenerationsBounded == MaxGeneration \in Nat

VARIABLE description

Init == description \in Starts

\* The manager hears of servers that it monitors.  update ignores a server that
\* was removed meanwhile, except in a Single topology, which never loses one.
Hears(a) ==
    /\ description.type = "Single" => a \in Present(description.servers)
    /\ \E r \in Heard, generation \in 0 .. MaxGeneration :
          description' = Update(description, a, r, generation)

TakesGeneration(a) ==
    \E generation \in 0 .. MaxGeneration :
       /\ MayTakeGeneration(description, a, generation)
       /\ description' = WithGeneration(description, a, generation)

Rescans == \E hosts \in (SUBSET Addresses) \ {{}} : description' = WithSrvHosts(description, hosts)

Closes == description' = ClosedDescription(description)

Next ==
    \/ \E a \in Addresses : Hears(a) \/ TakesGeneration(a)
    \/ Rescans
    \/ Closes

Spec == Init /\ [][Next]_description

-----------------------------------------------------------------------------
(* Properties.                                                             *)

\* The description is one.
TypeOK == description \in Descriptions

Types(td) == {td.servers[a].type : a \in Present(td.servers)}

\* A client never takes two servers for the primary, whoever claims to be it.
AtMostOnePrimary ==
    \A a, b \in Primaries(description.servers) : a = b

Fits(td) ==
    /\ td.type = "ReplicaSetWithPrimary" => "RSPrimary" \in Types(td)
    /\ td.type = "ReplicaSetNoPrimary" => "RSPrimary" \notin Types(td)
    /\ td.type \in ReplicaSetTypes => Types(td) \cap {"Standalone", "Mongos"} = {}
    /\ td.type = "Sharded" => Types(td) \subseteq {"Mongos", "Unknown", "RSGhost"}
    /\ td.type = "Unknown" => Types(td) \subseteq {"Unknown", "RSGhost"}
    /\ td.type = "Single" => \E a \in Addresses : Present(td.servers) = {a}
    /\ td.type = "LoadBalanced" => Types(td) \subseteq {"LoadBalancer", "Unknown"}

\* The topology type says what its servers are: a replica set has a primary just
\* if its type says so, servers of another kind are not kept, and a direct
\* connection has one server.
ServersFitTopology == Fits(description)

\* Members of another replica set are not kept.
MembersAreOfTheSet ==
    description.type \in ReplicaSetTypes =>
       \A a \in Addresses : description.servers[a].type \in NamedTypes =>
          description.servers[a].set_name = description.set_name

\* The primary of a replica set is the newest of all primaries heard of.
PrimaryIsNewest ==
    description.type = "ReplicaSetWithPrimary" =>
       \A a \in Primaries(description.servers) :
          LET primary == description.servers[a] IN
          primary.post_17 => /\ primary.election_id = description.max_election_id
                             /\ primary.set_version = description.max_set_version

\* What a topology turned out to be it remains: only an unknown topology, or the
\* presence of a primary, changes type; closing makes it unknown.
TypeIsForGood ==
    [][ \/ description'.type = description.type
        \/ description.type = "Unknown" /\ description'.type # "LoadBalanced"
        \/ {description.type, description'.type} \subseteq ReplicaSetTypes
        \/ description' = ClosedDescription(description) ]_description
=============================================================================
