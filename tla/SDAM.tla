-------------------------------- MODULE SDAM --------------------------------
(***************************************************************************)
(* Topology descriptions and their transitions (src/src/mongodb/sdam.lua). *)
(*                                                                         *)
(* The operators are the pure functions of the code: a description and a   *)
(* parsed hello reply give the next description.  A description is a       *)
(* record; its servers are a function on all addresses, in which those     *)
(* that are not in the topology are "Absent".                              *)
(*                                                                         *)
(* 0 is the nil of election ids and set versions: compare_nullable puts    *)
(* nil below every value.                                                  *)
(***************************************************************************)
EXTENDS Integers, FiniteSets

CONSTANTS
    Addresses,
    NoAddress,
    SetNames,    \* names of replica sets
    NoName

ASSUME AddressesFinite == IsFiniteSet(Addresses)

ASSUME NoneDistinct == NoAddress \notin Addresses /\ NoName \notin SetNames

TopologyTypes == {"Unknown", "Single", "Sharded", "ReplicaSetNoPrimary",
                  "ReplicaSetWithPrimary", "LoadBalanced"}
ReplicaSetTypes == {"ReplicaSetNoPrimary", "ReplicaSetWithPrimary"}

ServerTypes == {"Unknown", "Standalone", "Mongos", "RSPrimary", "RSSecondary",
                "RSArbiter", "RSOther", "RSGhost", "LoadBalancer"}
MEMBER_TYPES == {"RSArbiter", "RSOther", "RSSecondary"}
NamedTypes == MEMBER_TYPES \cup {"RSPrimary"}

\* Process 0 stands for no topologyVersion.
Versions == [process : Nat, counter : Nat]
NoVersion == [process |-> 0, counter |-> 0]

\* What parse_server makes of a reply, as far as transitions read it.  A failed
\* check is of type Unknown.  post_17 is max_wire_version >= 17.
Replies ==
    [type : ServerTypes, set_name : SetNames \cup {NoName}, all_hosts : SUBSET Addresses,
     me : Addresses \cup {NoAddress}, primary : Addresses \cup {NoAddress},
     election_id : Nat, set_version : Nat, post_17 : BOOLEAN, topology_version : Versions]

\* What the description keeps of a server.
Servers ==
    [type : ServerTypes \cup {"PossiblePrimary", "Absent"},
     set_name : SetNames \cup {NoName}, election_id : Nat, set_version : Nat,
     post_17 : BOOLEAN, topology_version : Versions, generation : Nat]

Descriptions ==
    [type : TopologyTypes, servers : [Addresses -> Servers], set_name : SetNames \cup {NoName},
     max_election_id : Nat, max_set_version : Nat, seeds : SUBSET Addresses]

-----------------------------------------------------------------------------
(* Server descriptions.                                                    *)

\* error_server, "server has not been checked".
Unchecked ==
    [type |-> "Unknown", set_name |-> NoName, election_id |-> 0, set_version |-> 0,
     post_17 |-> FALSE, topology_version |-> NoVersion, generation |-> 0]

Absent == [Unchecked EXCEPT !.type = "Absent"]

UnknownFrom(s) ==
    [Unchecked EXCEPT !.topology_version = s.topology_version, !.generation = s.generation]

\* Faulty variant: the server keeps no generation of its pool.
ParseWithoutGeneration(r, generation) ==
    [type |-> r.type, set_name |-> r.set_name, election_id |-> r.election_id,
     set_version |-> r.set_version, post_17 |-> r.post_17,
     topology_version |-> r.topology_version]

\* parse_server, with the generation of the pool the reply is judged by.
ParseServer(r, generation) ==
    [type |-> r.type, set_name |-> r.set_name, election_id |-> r.election_id,
     set_version |-> r.set_version, post_17 |-> r.post_17,
     topology_version |-> r.topology_version, generation |-> generation]

\* Faulty variant: counters of different processes are compared.
StaleByCounter(current, incoming) ==
    /\ 0 \notin {current.process, incoming.process}
    /\ incoming.counter < current.counter

\* Is an answer of the process `current` speaks of older than `current`?
TopologyVersionIsStale(current, incoming) ==
    /\ current.process # 0
    /\ incoming.process = current.process
    /\ incoming.counter < current.counter

-----------------------------------------------------------------------------
(* Helpers of the transitions, on the servers of a description.            *)

Present(servers) == {a \in Addresses : servers[a].type # "Absent"}
Primaries(servers) == {a \in Addresses : servers[a].type = "RSPrimary"}

Remove(servers, a) == [servers EXCEPT ![a] = Absent]

HasPrimary(servers) ==
    IF Primaries(servers) = {} THEN "ReplicaSetNoPrimary" ELSE "ReplicaSetWithPrimary"

\* Faulty variant: hosts that a reply names are not added.
AddNoHosts(servers, hosts) == servers

AddHosts(servers, hosts) ==
    [a \in Addresses |-> IF a \in hosts \ Present(servers) THEN Unchecked ELSE servers[a]]

KeepHosts(servers, hosts) ==
    [a \in Addresses |-> IF a \in hosts THEN servers[a] ELSE Absent]

\* Faulty variant: the primaries of before remain.
DemoteNone(servers, a) == servers

\* Every other primary was overtaken by the one at a.
DemoteOthers(servers, a) ==
    [b \in Addresses |-> IF b \in Primaries(servers) \ {a}
                         THEN UnknownFrom(servers[b]) ELSE servers[b]]

PossiblePrimary(servers, primary) ==
    [a \in Addresses |-> IF a = primary /\ servers[a].type = "Unknown"
                         THEN [servers[a] EXCEPT !.type = "PossiblePrimary"]
                         ELSE servers[a]]

NamesAnother(r, a) == r.me # NoAddress /\ r.me # a

-----------------------------------------------------------------------------
(* The transitions of a topology td in which the reply r of a has just     *)
(* replaced what was known of a.                                           *)

UpdateWithoutPrimary(td, a, r) ==
    IF td.set_name # NoName /\ td.set_name # r.set_name
    THEN [td EXCEPT !.servers = Remove(td.servers, a)]
    ELSE LET known == PossiblePrimary(AddHosts(td.servers, r.all_hosts), r.primary) IN
         [td EXCEPT !.set_name = r.set_name,
                    !.servers = IF NamesAnother(r, a) THEN Remove(known, a) ELSE known]

\* Faulty variant: the name of the set is not compared.
MemberOfAnySet(td, a, r) ==
    LET known == IF NamesAnother(r, a) THEN Remove(td.servers, a) ELSE td.servers
    IN [td EXCEPT !.type = HasPrimary(known),
                  !.servers = IF Primaries(known) = {}
                              THEN PossiblePrimary(known, r.primary) ELSE known]

UpdateWithPrimaryFromMember(td, a, r) ==
    LET known == IF td.set_name # r.set_name \/ NamesAnother(r, a)
                 THEN Remove(td.servers, a) ELSE td.servers
    IN [td EXCEPT !.type = HasPrimary(known),
                  !.servers = IF Primaries(known) = {}
                              THEN PossiblePrimary(known, r.primary) ELSE known]

\* Faulty variant: the set version decides alone.
OlderSetVersion(td, r) == r.set_version < td.max_set_version

\* Faulty variant: the primary that is known is taken for a stale one.
NotNewerThanSeen(td, r) ==
    \/ r.election_id < td.max_election_id
    \/ r.election_id = td.max_election_id /\ r.set_version <= td.max_set_version

\* compare_post_17: an election decides, and the set version if it is the same.
OlderThanSeen(td, r) ==
    \/ r.election_id < td.max_election_id
    \/ r.election_id = td.max_election_id /\ r.set_version < td.max_set_version

StalePrimary(td, r) ==
    IF r.post_17
    THEN OlderThanSeen(td, r)
    ELSE /\ 0 \notin {r.set_version, r.election_id, td.max_set_version, td.max_election_id}
         /\ \/ r.set_version < td.max_set_version
            \/ r.set_version = td.max_set_version /\ r.election_id < td.max_election_id

\* Faulty variant: the larger set version is kept when an election has decided.
WitnessedLargest(td, r) ==
    [td EXCEPT !.max_election_id = IF r.election_id > @ THEN r.election_id ELSE @,
               !.max_set_version = IF r.set_version > @ THEN r.set_version ELSE @]

\* The other half of stale_primary: what a primary that is not stale has shown.
Witnessed(td, r) ==
    IF r.post_17
    THEN [td EXCEPT !.max_election_id = r.election_id, !.max_set_version = r.set_version]
    ELSE [td EXCEPT
            !.max_election_id = IF 0 \in {r.set_version, r.election_id}
                                THEN @ ELSE r.election_id,
            !.max_set_version = IF r.set_version > @ THEN r.set_version ELSE @]

UpdateFromPrimary(td, a, r) ==
    LET settle(d, servers) == [d EXCEPT !.servers = servers, !.type = HasPrimary(servers)]
        named == [td EXCEPT !.set_name = IF @ = NoName THEN r.set_name ELSE @]
    IN IF named.set_name # r.set_name
       THEN settle(named, Remove(td.servers, a))
       ELSE IF StalePrimary(td, r)
       THEN settle(named, [td.servers EXCEPT ![a] = UnknownFrom(@)])
       ELSE settle(Witnessed(named, r),
                   KeepHosts(AddHosts(DemoteOthers(td.servers, a), r.all_hosts), r.all_hosts))

UpdateUnknown(td, a, r) ==
    IF r.type \in {"Standalone", "LoadBalancer"}
    THEN IF Cardinality(td.seeds) = 1
         THEN [td EXCEPT !.type = "Single"]
         ELSE [td EXCEPT !.servers = Remove(td.servers, a)]
    ELSE IF r.type = "Mongos"
    THEN [td EXCEPT !.type = "Sharded"]
    ELSE IF r.type = "RSPrimary"
    THEN UpdateFromPrimary([td EXCEPT !.type = "ReplicaSetWithPrimary"], a, r)
    ELSE IF r.type \in MEMBER_TYPES
    THEN UpdateWithoutPrimary([td EXCEPT !.type = "ReplicaSetNoPrimary"], a, r)
    ELSE td

UpdateSingle(td, a, r) ==
    IF td.set_name # NoName /\ td.set_name # r.set_name
    THEN [td EXCEPT !.servers[a] = UnknownFrom(@)] ELSE td

UpdateSharded(td, a, r) ==
    IF r.type \notin {"Mongos", "Unknown"}
    THEN [td EXCEPT !.servers = Remove(td.servers, a)] ELSE td

\* Faulty variant: a router makes the topology a sharded one.
TurnSharded(td, a, r) ==
    IF r.type = "Mongos"
    THEN [td EXCEPT !.type = "Sharded"]
    ELSE IF r.type = "Standalone"
    THEN [td EXCEPT !.servers = Remove(td.servers, a)]
    ELSE IF r.type = "RSPrimary"
    THEN UpdateFromPrimary(td, a, r)
    ELSE IF r.type \in MEMBER_TYPES THEN UpdateWithoutPrimary(td, a, r) ELSE td

UpdateReplicaSetNoPrimary(td, a, r) ==
    IF r.type \in {"Standalone", "Mongos"}
    THEN [td EXCEPT !.servers = Remove(td.servers, a)]
    ELSE IF r.type = "RSPrimary"
    THEN UpdateFromPrimary(td, a, r)
    ELSE IF r.type \in MEMBER_TYPES THEN UpdateWithoutPrimary(td, a, r) ELSE td

\* Faulty variant: the loss of the primary is not noticed.
KeepWithPrimary(td, a, r) ==
    IF r.type \in {"Standalone", "Mongos"}
    THEN LET rest == Remove(td.servers, a) IN
         [td EXCEPT !.servers = rest, !.type = HasPrimary(rest)]
    ELSE IF r.type = "RSPrimary"
    THEN UpdateFromPrimary(td, a, r)
    ELSE IF r.type \in MEMBER_TYPES
    THEN UpdateWithPrimaryFromMember(td, a, r)
    ELSE td

UpdateReplicaSetWithPrimary(td, a, r) ==
    IF r.type \in {"Standalone", "Mongos"}
    THEN LET rest == Remove(td.servers, a) IN
         [td EXCEPT !.servers = rest, !.type = HasPrimary(rest)]
    ELSE IF r.type = "RSPrimary"
    THEN UpdateFromPrimary(td, a, r)
    ELSE IF r.type \in MEMBER_TYPES
    THEN UpdateWithPrimaryFromMember(td, a, r)
    ELSE [td EXCEPT !.type = HasPrimary(td.servers)]

\* transition
Transition(td, a, r, generation) ==
    LET seen == [td EXCEPT !.servers[a] = ParseServer(r, generation)] IN
    CASE td.type = "LoadBalanced" -> IF r.type = "LoadBalancer" THEN seen ELSE td
      [] td.type = "Single" -> UpdateSingle(seen, a, r)
      [] td.type = "Unknown" -> UpdateUnknown(seen, a, r)
      [] td.type = "Sharded" -> UpdateSharded(seen, a, r)
      [] td.type = "ReplicaSetNoPrimary" -> UpdateReplicaSetNoPrimary(seen, a, r)
      [] td.type = "ReplicaSetWithPrimary" -> UpdateReplicaSetWithPrimary(seen, a, r)

-----------------------------------------------------------------------------
(* The methods of a topology description.                                  *)

\* update: an address that was removed, an old pool generation and an old
\* topologyVersion change nothing.
Ignores(td, a, r, generation) ==
    LET current == td.servers[a] IN
    \/ current.type = "Absent" /\ td.type # "Single"
    \/ current.type # "Absent" /\ generation < current.generation
    \/ /\ current.type # "Absent"
       /\ TopologyVersionIsStale(current.topology_version, r.topology_version)

Update(td, a, r, generation) ==
    IF Ignores(td, a, r, generation) THEN td ELSE Transition(td, a, r, generation)

\* with_generation may raise "generation cannot move backwards".
MayTakeGeneration(td, a, generation) ==
    td.servers[a].type # "Absent" /\ generation >= td.servers[a].generation

WithGeneration(td, a, generation) ==
    [td EXCEPT !.servers[a].generation = generation]

WithSrvHosts(td, hosts) ==
    IF td.type \notin {"Unknown", "Sharded"} \/ hosts = Present(td.servers)
    THEN td
    ELSE [td EXCEPT !.seeds = hosts,
                    !.servers = KeepHosts(AddHosts(td.servers, hosts), hosts)]

ClosedDescription(td) ==
    [td EXCEPT !.servers = [a \in Addresses |-> Absent], !.type = "Unknown"]

\* M.new
NewDescription(type, set_name, seeds) ==
    [type |-> type, set_name |-> set_name, seeds |-> seeds,
     servers |-> [a \in Addresses |-> IF a \in seeds THEN Unchecked ELSE Absent],
     max_election_id |-> 0, max_set_version |-> 0]
=============================================================================
