-------------------------- MODULE Discovery_proofs --------------------------
(***************************************************************************)
(* What is true of a topology description whatever replies arrive: one     *)
(* lemma per transition, each stated for an arbitrary description.         *)
(***************************************************************************)
EXTENDS Discovery, FiniteSetTheorems, TLAPS

\* A reply as server_type makes it: members have a set name.
Plausible(r) == r \in Replies /\ (r.type \in NamedTypes => r.set_name \in SetNames)

\* The servers of a description, one primary at most among them.
OnePrimary(servers) == \A a, b \in Primaries(servers) : a = b

OfTheSet(td) ==
    td.type \in ReplicaSetTypes =>
       \A a \in Addresses : td.servers[a].type \in NamedTypes =>
          td.servers[a].set_name = td.set_name /\ td.set_name # NoName

Newest(td) ==
    td.type = "ReplicaSetWithPrimary" =>
       \A a \in Primaries(td.servers) :
          td.servers[a].post_17 =>
             /\ td.servers[a].election_id = td.max_election_id
             /\ td.servers[a].set_version = td.max_set_version

\* An unknown topology knows of its seeds at most.
WithinSeeds(td) == td.type = "Unknown" => Present(td.servers) \subseteq td.seeds

Good(td) ==
    /\ td \in Descriptions
    /\ OnePrimary(td.servers)
    /\ Fits(td)
    /\ OfTheSet(td)
    /\ Newest(td)
    /\ WithinSeeds(td)

\* td after the reply r of a has replaced what was known of a.
Seen(td, a, r, g) == [td EXCEPT !.servers[a] = ParseServer(r, g)]

LEMMA ParsedServer ==
    ASSUME NEW r \in Replies, NEW g \in Nat
    PROVE  /\ ParseServer(r, g) \in Servers
           /\ ParseServer(r, g).type = r.type
           /\ ParseServer(r, g).set_name = r.set_name
           /\ ParseServer(r, g).post_17 = r.post_17
           /\ ParseServer(r, g).election_id = r.election_id
           /\ ParseServer(r, g).set_version = r.set_version
  BY DEF ParseServer, Replies, Servers

LEMMA SpecialServers ==
    /\ Unchecked \in Servers /\ Unchecked.type = "Unknown"
    /\ Absent \in Servers /\ Absent.type = "Absent"
    /\ \A s \in Servers : UnknownFrom(s) \in Servers /\ UnknownFrom(s).type = "Unknown"
  BY DEF Unchecked, Absent, UnknownFrom, Servers, ServerTypes, Versions, NoVersion

\* The helpers on servers, as far as the invariant sees them.
LEMMA HelpersTyped ==
    ASSUME NEW servers \in [Addresses -> Servers], NEW a,
           NEW hosts \in SUBSET Addresses, NEW p
    PROVE  /\ Remove(servers, a) \in [Addresses -> Servers]
           /\ AddHosts(servers, hosts) \in [Addresses -> Servers]
           /\ KeepHosts(servers, hosts) \in [Addresses -> Servers]
           /\ DemoteOthers(servers, a) \in [Addresses -> Servers]
           /\ PossiblePrimary(servers, p) \in [Addresses -> Servers]
<1>1. \A b \in Addresses : [servers[b] EXCEPT !.type = "PossiblePrimary"] \in Servers
  BY DEF Servers
<1> QED
  BY <1>1, SpecialServers DEF Remove, AddHosts, KeepHosts, DemoteOthers, PossiblePrimary

\* In a replica set: what the servers in D may be.  A member is of the set, and
\* a primary is the newest heard of.
MembersFit(td, D) ==
    /\ \A b, c \in D : td.servers[b].type = "RSPrimary" /\ td.servers[c].type = "RSPrimary" => b = c
    /\ \A b \in D :
          LET s == td.servers[b] IN
          /\ s.type \notin {"Standalone", "Mongos"}
          /\ s.type \in NamedTypes => s.set_name = td.set_name /\ td.set_name # NoName
          /\ s.type = "RSPrimary" /\ s.post_17 =>
                s.election_id = td.max_election_id /\ s.set_version = td.max_set_version

LEMMA GoodReplicaSet ==
    ASSUME NEW td \in Descriptions, td.type = HasPrimary(td.servers), MembersFit(td, Addresses)
    PROVE  Good(td)
  BY DEF Good, OnePrimary, Fits, Types, OfTheSet, Newest, WithinSeeds, MembersFit, HasPrimary,
         Primaries, Present, ReplicaSetTypes

LEMMA ReplicaSetGood ==
    ASSUME NEW td, Good(td), td.type \in ReplicaSetTypes
    PROVE  td.type = HasPrimary(td.servers) /\ MembersFit(td, Addresses)
  BY DEF Good, OnePrimary, Fits, Types, OfTheSet, Newest, MembersFit, HasPrimary,
         Primaries, Present, ReplicaSetTypes, NamedTypes

LEMMA PrimaryUpdate ==
    ASSUME NEW td \in Descriptions, NEW a \in Addresses, NEW r, Plausible(r), NEW g \in Nat,
           r.type = "RSPrimary", td.servers[a] = ParseServer(r, g),
           MembersFit(td, Addresses \ {a})
    PROVE  Good(UpdateFromPrimary(td, a, r))
<1> DEFINE named == [td EXCEPT !.set_name = IF @ = NoName THEN r.set_name ELSE @]
           settle(d, servers) == [d EXCEPT !.servers = servers, !.type = HasPrimary(servers)]
<1>1. /\ named \in Descriptions /\ named.servers = td.servers
      /\ named.set_name \in SetNames /\ (td.set_name # NoName => named.set_name = td.set_name)
      /\ named.max_election_id = td.max_election_id /\ named.max_set_version = td.max_set_version
  BY DEF Descriptions, Plausible, NamedTypes, Replies
<1>2. ASSUME NEW d \in Descriptions, NEW servers \in [Addresses -> Servers],
             MembersFit([d EXCEPT !.servers = servers], Addresses)
      PROVE  Good(settle(d, servers))
  <2>1. settle(d, servers) \in Descriptions /\ settle(d, servers).type = HasPrimary(settle(d, servers).servers)
    BY DEF Descriptions, HasPrimary, TopologyTypes
  <2>2. MembersFit(settle(d, servers), Addresses)
    BY <1>2 DEF MembersFit, Descriptions
  <2> QED
    BY <2>1, <2>2, GoodReplicaSet
<1>3. CASE named.set_name # r.set_name
  <2>1. MembersFit([named EXCEPT !.servers = Remove(td.servers, a)], Addresses)
    BY <1>1, SpecialServers DEF MembersFit, Remove, Descriptions, NamedTypes, MEMBER_TYPES
  <2>2. Remove(td.servers, a) \in [Addresses -> Servers]
    BY HelpersTyped DEF Descriptions
  <2> QED
    BY <1>1, <1>2, <1>3, <2>1, <2>2 DEF UpdateFromPrimary
<1>4. CASE named.set_name = r.set_name /\ StalePrimary(td, r)
  <2> DEFINE servers == [td.servers EXCEPT ![a] = UnknownFrom(@)]
  <2>1. servers \in [Addresses -> Servers]
    BY SpecialServers DEF Descriptions
  <2>2. MembersFit([named EXCEPT !.servers = servers], Addresses)
    BY <1>1, SpecialServers DEF MembersFit, Descriptions, NamedTypes, MEMBER_TYPES
  <2> QED
    BY <1>1, <1>2, <1>4, <2>1, <2>2 DEF UpdateFromPrimary
<1>5. CASE named.set_name = r.set_name /\ ~StalePrimary(td, r)
  <2> DEFINE rest == DemoteOthers(td.servers, a)
             servers == KeepHosts(AddHosts(rest, r.all_hosts), r.all_hosts)
             d == Witnessed(named, r)
  <2>1. rest \in [Addresses -> Servers] /\ servers \in [Addresses -> Servers]
    BY HelpersTyped DEF Descriptions, Plausible, Replies
  <2>2. d \in Descriptions /\ d.set_name = named.set_name
    BY <1>1 DEF Witnessed, Descriptions, Plausible, Replies
  <2>3. r.post_17 => d.max_election_id = r.election_id /\ d.max_set_version = r.set_version
    BY <1>1 DEF Witnessed, Descriptions
  <2>4. \A b \in Addresses \ {a} :
           servers[b].type # "RSPrimary" /\ (servers[b].type # "Absent" =>
              servers[b] = td.servers[b] \/ servers[b].type = "Unknown")
    BY SpecialServers, <2>1 DEF KeepHosts, AddHosts, DemoteOthers, Primaries, Descriptions
  <2>5. servers[a] = td.servers[a] \/ servers[a].type = "Absent" \/ servers[a].type = "Unknown"
    BY SpecialServers DEF KeepHosts, AddHosts, DemoteOthers, Primaries
  <2> HIDE DEF servers, d
  <2>6. MembersFit([d EXCEPT !.servers = servers], Addresses)
    <3> DEFINE e == [d EXCEPT !.servers = servers]
    <3>1. e.servers = servers /\ e.set_name = r.set_name /\ e.set_name # NoName
          /\ e.max_election_id = d.max_election_id /\ e.max_set_version = d.max_set_version
      BY <1>1, <1>5, <2>2, NoneDistinct DEF Descriptions
    <3>2. \A b \in Addresses \ {a} : servers[b].type \notin {"Standalone", "Mongos"}
            /\ (servers[b].type \in NamedTypes => servers[b].set_name = r.set_name)
      BY <1>1, <1>5, <2>4 DEF MembersFit, NamedTypes, MEMBER_TYPES
    <3>3. servers[a].type \notin {"Standalone", "Mongos"}
            /\ (servers[a].type \in NamedTypes => servers[a].set_name = r.set_name)
            /\ (servers[a].type = "RSPrimary" /\ servers[a].post_17 =>
                  servers[a].election_id = d.max_election_id
                  /\ servers[a].set_version = d.max_set_version)
      BY <2>3, <2>5, ParsedServer DEF NamedTypes, MEMBER_TYPES, Plausible
    <3> HIDE DEF e
    <3>4. MembersFit(e, Addresses)
      BY <2>4, <3>1, <3>2, <3>3 DEF MembersFit
    <3> QED
      BY <3>4 DEF e
  <2>7. Good(settle(d, servers))
    BY <1>2, <2>1, <2>2, <2>6
  <2> QED
    BY <1>5, <2>7 DEF UpdateFromPrimary, servers, d
<1> QED
  BY <1>3, <1>4, <1>5

LEMMA WithoutPrimaryUpdate ==
    ASSUME NEW td \in Descriptions, NEW a \in Addresses, NEW r, Plausible(r), NEW g \in Nat,
           r.type \in MEMBER_TYPES, td.servers[a] = ParseServer(r, g),
           td.type = "ReplicaSetNoPrimary", MembersFit(td, Addresses \ {a}),
           \A b \in Addresses : td.servers[b].type # "RSPrimary"
    PROVE  Good(UpdateWithoutPrimary(td, a, r))
<1>1. ASSUME NEW servers \in [Addresses -> Servers], NEW name \in SetNames,
             td.set_name \in {NoName, name},
             \A b \in Addresses : servers[b] = td.servers[b]
                                     \/ servers[b].type \in {"Absent", "Unknown", "PossiblePrimary"},
             servers[a].type = "Absent" \/ r.set_name = name
      PROVE  Good([td EXCEPT !.set_name = name, !.servers = servers])
  <2> DEFINE e == [td EXCEPT !.set_name = name, !.servers = servers]
  <2>1. e \in Descriptions /\ e.servers = servers /\ e.set_name = name
        /\ e.type = "ReplicaSetNoPrimary"
    BY DEF Descriptions
  <2>2. \A b \in Addresses : servers[b].type # "RSPrimary"
    BY <1>1
  <2>3. \A b \in Addresses : servers[b].type \notin {"Standalone", "Mongos"}
           /\ (servers[b].type \in NamedTypes => servers[b].set_name = name)
    BY <1>1, ParsedServer DEF MembersFit, NamedTypes, MEMBER_TYPES, Plausible
  <2>4. name # NoName
    BY NoneDistinct
  <2> HIDE DEF e
  <2>5. MembersFit(e, Addresses) /\ e.type = HasPrimary(e.servers)
    BY <2>1, <2>2, <2>3, <2>4 DEF MembersFit, HasPrimary, Primaries
  <2> QED
    BY <2>1, <2>5, GoodReplicaSet DEF e
<1>2. CASE td.set_name # NoName /\ td.set_name # r.set_name
  <2>1. td.set_name \in SetNames
    BY <1>2 DEF Descriptions
  <2>2. Remove(td.servers, a) \in [Addresses -> Servers]
    BY HelpersTyped DEF Descriptions
  <2>3. Good([td EXCEPT !.set_name = td.set_name, !.servers = Remove(td.servers, a)])
    BY <1>1, <2>1, <2>2, SpecialServers DEF Remove, Descriptions
  <2>4. [td EXCEPT !.set_name = td.set_name, !.servers = Remove(td.servers, a)]
           = [td EXCEPT !.servers = Remove(td.servers, a)]
    BY DEF Descriptions
  <2> QED
    BY <1>2, <2>3, <2>4 DEF UpdateWithoutPrimary
<1>3. CASE td.set_name \in {NoName, r.set_name}
  <2> DEFINE known == PossiblePrimary(AddHosts(td.servers, r.all_hosts), r.primary)
             servers == IF NamesAnother(r, a) THEN Remove(known, a) ELSE known
  <2>1. known \in [Addresses -> Servers] /\ servers \in [Addresses -> Servers]
    BY HelpersTyped DEF Descriptions, Plausible, Replies
  <2>2. \A b \in Addresses : known[b] = td.servers[b] \/ known[b].type \in {"Unknown", "PossiblePrimary"}
    <3>1. \A b \in Addresses : LET s == AddHosts(td.servers, r.all_hosts) IN
             s[b] \in Servers /\ (s[b] = td.servers[b] \/ s[b].type = "Unknown")
      BY HelpersTyped, SpecialServers DEF AddHosts, Descriptions, Plausible, Replies
    <3>2. \A s \in Servers : [s EXCEPT !.type = "PossiblePrimary"].type = "PossiblePrimary"
      BY DEF Servers
    <3> QED
      BY <3>1, <3>2 DEF PossiblePrimary
  <2>3. \A b \in Addresses : servers[b] = td.servers[b]
                               \/ servers[b].type \in {"Absent", "Unknown", "PossiblePrimary"}
    BY <2>1, <2>2, SpecialServers DEF Remove
  <2>4. r.set_name \in SetNames
    BY DEF Plausible, NamedTypes
  <2> HIDE DEF servers
  <2>5. Good([td EXCEPT !.set_name = r.set_name, !.servers = servers])
    BY <1>1, <1>3, <2>1, <2>3, <2>4
  <2> QED
    BY <1>3, <2>5 DEF UpdateWithoutPrimary, servers
<1> QED
  BY <1>2, <1>3

LEMMA MemberUpdate ==
    ASSUME NEW td \in Descriptions, NEW a \in Addresses, NEW r, Plausible(r), NEW g \in Nat,
           r.type \in MEMBER_TYPES, td.servers[a] = ParseServer(r, g),
           MembersFit(td, Addresses \ {a})
    PROVE  Good(UpdateWithPrimaryFromMember(td, a, r))
<1> DEFINE known == IF td.set_name # r.set_name \/ NamesAnother(r, a)
                    THEN Remove(td.servers, a) ELSE td.servers
           servers == IF Primaries(known) = {} THEN PossiblePrimary(known, r.primary) ELSE known
           e == [td EXCEPT !.type = HasPrimary(known), !.servers = servers]
<1>1. known \in [Addresses -> Servers] /\ servers \in [Addresses -> Servers]
  BY HelpersTyped DEF Descriptions
<1>2. r.set_name \in SetNames /\ td.servers[a].set_name = r.set_name /\ td.servers[a].type = r.type
  BY ParsedServer DEF Plausible, NamedTypes
<1>3. MembersFit([td EXCEPT !.servers = known], Addresses)
  <2> DEFINE d == [td EXCEPT !.servers = known]
  <2>1. d.servers = known /\ d.set_name = td.set_name
        /\ d.max_election_id = td.max_election_id /\ d.max_set_version = td.max_set_version
    BY DEF Descriptions
  <2>2. \A b \in Addresses \ {a} : known[b] = td.servers[b]
    BY DEF Remove, Descriptions
  <2>3. \/ known[a].type = "Absent"
        \/ known[a].type = r.type /\ known[a].set_name = td.set_name /\ td.set_name # NoName
    <3>1. CASE td.set_name # r.set_name \/ NamesAnother(r, a)
      BY <3>1, SpecialServers DEF Remove, Descriptions
    <3>2. CASE ~(td.set_name # r.set_name \/ NamesAnother(r, a))
      BY <3>2, <1>2, NoneDistinct
    <3> QED
      BY <3>1, <3>2
  <2> HIDE DEF d, known
  <2>4. MembersFit(d, Addresses)
    BY <2>1, <2>2, <2>3 DEF MembersFit, NamedTypes, MEMBER_TYPES
  <2> QED
    BY <2>4 DEF d
<1>4. \A b \in Addresses : servers[b] = known[b] \/ (known[b].type # "RSPrimary"
                                                     /\ servers[b].type = "PossiblePrimary")
  <2>1. \A s \in Servers : [s EXCEPT !.type = "PossiblePrimary"].type = "PossiblePrimary"
    BY DEF Servers
  <2> HIDE DEF known
  <2> QED
    BY <2>1, <1>1 DEF PossiblePrimary, Primaries
<1>5. e \in Descriptions /\ e.servers = servers /\ e.type = HasPrimary(known)
      /\ e.set_name = td.set_name /\ e.max_election_id = td.max_election_id
      /\ e.max_set_version = td.max_set_version
  BY <1>1 DEF Descriptions, HasPrimary, TopologyTypes
<1>6. [td EXCEPT !.servers = known].servers = known
      /\ [td EXCEPT !.servers = known].set_name = td.set_name
      /\ [td EXCEPT !.servers = known].max_election_id = td.max_election_id
      /\ [td EXCEPT !.servers = known].max_set_version = td.max_set_version
  BY DEF Descriptions
<1> HIDE DEF known, servers, e
<1>7. MembersFit(e, Addresses)
  BY <1>3, <1>4, <1>5, <1>6 DEF MembersFit, NamedTypes, MEMBER_TYPES
<1>8. HasPrimary(servers) = HasPrimary(known)
  BY <1>4 DEF HasPrimary, Primaries
<1>9. Good(e)
  BY <1>5, <1>7, <1>8, GoodReplicaSet
<1> QED
  BY <1>9 DEF UpdateWithPrimaryFromMember, known, servers, e

LEMMA GoodOther ==
    ASSUME NEW td \in Descriptions, td.type \notin ReplicaSetTypes,
           OnePrimary(td.servers), Fits(td), WithinSeeds(td)
    PROVE  Good(td)
  BY DEF Good, OfTheSet, Newest, ReplicaSetTypes

LEMMA OnePresentGood ==
    ASSUME NEW td \in Descriptions, td.type = "Single", NEW a \in Addresses,
           Present(td.servers) = {a}
    PROVE  Good(td)
<1>1. OnePrimary(td.servers)
  BY DEF OnePrimary, Primaries, Present
<1> QED
  BY <1>1, GoodOther DEF Fits, WithinSeeds, ReplicaSetTypes

LEMMA SeenFacts ==
    ASSUME NEW td \in Descriptions, NEW a \in Addresses, NEW r \in Replies, NEW g \in Nat
    PROVE  LET s == Seen(td, a, r, g) IN
           /\ s \in Descriptions
           /\ s.servers[a] = ParseServer(r, g)
           /\ \A b \in Addresses \ {a} : s.servers[b] = td.servers[b]
           /\ s.type = td.type /\ s.set_name = td.set_name /\ s.seeds = td.seeds
           /\ s.max_election_id = td.max_election_id /\ s.max_set_version = td.max_set_version
  BY ParsedServer DEF Seen, Descriptions

\* Pointwise, what Fits says of topologies that are neither replica sets nor Single.
KindsFit(td) ==
    \A a \in Addresses :
       LET type == td.servers[a].type IN
       /\ td.type = "Sharded" => type \in {"Mongos", "Unknown", "RSGhost", "Absent"}
       /\ td.type = "Unknown" => type \in {"Unknown", "RSGhost", "Absent"}
       /\ td.type = "LoadBalanced" => type \in {"LoadBalancer", "Unknown", "Absent"}

LEMMA GoodOfKind ==
    ASSUME NEW td \in Descriptions, td.type \in {"Sharded", "Unknown", "LoadBalanced"},
           KindsFit(td), WithinSeeds(td)
    PROVE  Good(td)
  BY GoodOther DEF KindsFit, OnePrimary, Fits, Types, Present, Primaries, ReplicaSetTypes

LEMMA KindOfGood ==
    ASSUME NEW td, Good(td)
    PROVE  KindsFit(td)
  BY DEF KindsFit, Good, Fits, Types, Present

LEMMA HarmlessFit ==
    ASSUME NEW td, NEW D, \A b \in D : td.servers[b].type \in {"Unknown", "RSGhost", "Absent"}
    PROVE  MembersFit(td, D)
  BY DEF MembersFit, NamedTypes, MEMBER_TYPES

LEMMA UnknownUpdate ==
    ASSUME NEW td, Good(td), td.type = "Unknown", NEW a \in Addresses, NEW r, Plausible(r),
           NEW g \in Nat, td.servers[a].type # "Absent"
    PROVE  Good(UpdateUnknown(Seen(td, a, r, g), a, r))
<1> DEFINE s == Seen(td, a, r, g)
<1> USE DEF Plausible
<1>1. td \in Descriptions /\ WithinSeeds(td)
  BY DEF Good
<1>2. /\ s \in Descriptions
      /\ s.servers[a] = ParseServer(r, g) /\ s.servers[a].type = r.type
      /\ \A b \in Addresses \ {a} : s.servers[b] = td.servers[b]
      /\ s.type = "Unknown" /\ s.seeds = td.seeds
  BY <1>1, SeenFacts, ParsedServer
<1>3. \A b \in Addresses \ {a} : s.servers[b].type \in {"Unknown", "RSGhost", "Absent"}
  BY <1>2, KindOfGood DEF KindsFit
<1>4. Present(s.servers) \subseteq s.seeds
  BY <1>1, <1>2 DEF WithinSeeds, Present
<1> HIDE DEF s
<1>5. CASE r.type \in {"Standalone", "LoadBalancer"} /\ Cardinality(s.seeds) = 1
  <2>1. PICK x : s.seeds = {x}
    BY <1>2, <1>5, AddressesFinite, FS_Subset, FS_Singleton DEF Descriptions
  <2>2. a \in Present(s.servers)
    BY <1>2, <1>5 DEF Present
  <2>3. Present(s.servers) = {a}
    BY <1>4, <2>1, <2>2
  <2>4. [s EXCEPT !.type = "Single"] \in Descriptions
        /\ [s EXCEPT !.type = "Single"].type = "Single"
        /\ [s EXCEPT !.type = "Single"].servers = s.servers
    BY <1>2 DEF Descriptions, TopologyTypes
  <2>5. Good([s EXCEPT !.type = "Single"])
    BY <2>3, <2>4, OnePresentGood
  <2> QED
    BY <1>5, <2>5 DEF UpdateUnknown, s
<1>6. CASE r.type \in {"Standalone", "LoadBalancer"} /\ Cardinality(s.seeds) # 1
  <2> DEFINE e == [s EXCEPT !.servers = Remove(s.servers, a)]
  <2>1. e \in Descriptions /\ e.type = "Unknown" /\ e.seeds = s.seeds
        /\ e.servers = Remove(s.servers, a)
    BY <1>2, HelpersTyped DEF Descriptions
  <2>2. \A b \in Addresses : e.servers[b] = IF b = a THEN Absent ELSE s.servers[b]
    BY <1>2, <2>1 DEF Remove, Descriptions
  <2> HIDE DEF e
  <2>3. WithinSeeds(e) /\ KindsFit(e)
    BY <1>3, <1>4, <2>1, <2>2, SpecialServers DEF WithinSeeds, KindsFit, Present
  <2>4. Good(e)
    BY <2>1, <2>3, GoodOfKind
  <2> QED
    BY <1>6, <2>4 DEF UpdateUnknown, e, s
<1>7. CASE r.type = "Mongos"
  <2> DEFINE e == [s EXCEPT !.type = "Sharded"]
  <2>1. e \in Descriptions /\ e.type = "Sharded" /\ e.servers = s.servers
    BY <1>2 DEF Descriptions, TopologyTypes
  <2> HIDE DEF e
  <2>2. WithinSeeds(e) /\ KindsFit(e)
    BY <1>2, <1>3, <1>7, <2>1 DEF WithinSeeds, KindsFit
  <2>3. Good(e)
    BY <2>1, <2>2, GoodOfKind
  <2> QED
    BY <1>7, <2>3 DEF UpdateUnknown, e, s
<1>8. CASE r.type = "RSPrimary"
  <2> DEFINE e == [s EXCEPT !.type = "ReplicaSetWithPrimary"]
  <2>1. e \in Descriptions /\ e.servers = s.servers
    BY <1>2 DEF Descriptions, TopologyTypes
  <2> HIDE DEF e
  <2>2. MembersFit(e, Addresses \ {a})
    BY <1>3, <2>1, HarmlessFit
  <2>3. Good(UpdateFromPrimary(e, a, r))
    BY <1>2, <1>8, <2>1, <2>2, PrimaryUpdate
  <2> QED
    BY <1>8, <2>3 DEF UpdateUnknown, e, s
<1>9. CASE r.type \in MEMBER_TYPES
  <2> DEFINE e == [s EXCEPT !.type = "ReplicaSetNoPrimary"]
  <2>1. e \in Descriptions /\ e.servers = s.servers /\ e.type = "ReplicaSetNoPrimary"
    BY <1>2 DEF Descriptions, TopologyTypes
  <2> HIDE DEF e
  <2>2. MembersFit(e, Addresses \ {a}) /\ \A b \in Addresses : e.servers[b].type # "RSPrimary"
    BY <1>2, <1>3, <1>9, <2>1, HarmlessFit DEF MEMBER_TYPES
  <2>3. Good(UpdateWithoutPrimary(e, a, r))
    BY <1>2, <1>9, <2>1, <2>2, WithoutPrimaryUpdate
  <2> QED
    BY <1>9, <2>3 DEF UpdateUnknown, e, s, MEMBER_TYPES
<1>10. CASE r.type \in {"Unknown", "RSGhost"}
  <2>1. Good(s)
    BY <1>2, <1>3, <1>4, <1>10, GoodOfKind DEF WithinSeeds, KindsFit
  <2> QED
    BY <1>10, <2>1 DEF UpdateUnknown, s, MEMBER_TYPES
<1> QED
  BY <1>5, <1>6, <1>7, <1>8, <1>9, <1>10 DEF Replies, ServerTypes, MEMBER_TYPES

\* In a replica set the reply of a disturbs the other servers in no way.
LEMMA OthersStayFit ==
    ASSUME NEW td, Good(td), td.type \in ReplicaSetTypes, NEW a \in Addresses,
           NEW r \in Replies, NEW g \in Nat
    PROVE  /\ MembersFit(Seen(td, a, r, g), Addresses \ {a})
           /\ td.type = "ReplicaSetNoPrimary" =>
                 \A b \in Addresses \ {a} : Seen(td, a, r, g).servers[b].type # "RSPrimary"
<1> DEFINE s == Seen(td, a, r, g)
<1>1. /\ \A b \in Addresses \ {a} : s.servers[b] = td.servers[b]
      /\ s.set_name = td.set_name
      /\ s.max_election_id = td.max_election_id /\ s.max_set_version = td.max_set_version
  BY SeenFacts DEF Good
<1>2. MembersFit(td, Addresses) /\ td.type = HasPrimary(td.servers)
  BY ReplicaSetGood
<1> HIDE DEF s
<1>3. MembersFit(s, Addresses \ {a})
  BY <1>1, <1>2 DEF MembersFit
<1>4. td.type = "ReplicaSetNoPrimary" => \A b \in Addresses \ {a} : s.servers[b].type # "RSPrimary"
  BY <1>1, <1>2 DEF HasPrimary, Primaries
<1> QED
  BY <1>3, <1>4 DEF s

\* In a replica set, with a reply that is a member's of no kind.
LEMMA StrangerFits ==
    ASSUME NEW td \in Descriptions, NEW a \in Addresses, MembersFit(td, Addresses \ {a}),
           td.servers[a].type \in {"Absent", "Unknown", "RSGhost", "LoadBalancer"}
    PROVE  MembersFit(td, Addresses)
  BY DEF MembersFit, NamedTypes, MEMBER_TYPES

LEMMA RemoveFits ==
    ASSUME NEW td \in Descriptions, NEW a \in Addresses, MembersFit(td, Addresses \ {a}),
           NEW type \in TopologyTypes
    PROVE  LET e == [td EXCEPT !.servers = Remove(td.servers, a), !.type = type] IN
           /\ e \in Descriptions /\ e.servers = Remove(td.servers, a) /\ e.type = type
           /\ MembersFit(e, Addresses)
<1> DEFINE e == [td EXCEPT !.servers = Remove(td.servers, a), !.type = type]
<1>1. /\ e \in Descriptions /\ e.servers = Remove(td.servers, a) /\ e.type = type
      /\ e.set_name = td.set_name
      /\ e.max_election_id = td.max_election_id /\ e.max_set_version = td.max_set_version
  BY HelpersTyped DEF Descriptions
<1>2. e.servers[a].type = "Absent" /\ \A b \in Addresses \ {a} : e.servers[b] = td.servers[b]
  BY <1>1, SpecialServers DEF Remove, Descriptions
<1> HIDE DEF e
<1>3. MembersFit(e, Addresses \ {a})
  BY <1>1, <1>2 DEF MembersFit
<1> QED
  BY <1>1, <1>2, <1>3, StrangerFits DEF e

LEMMA NoPrimaryUpdate ==
    ASSUME NEW td, Good(td), td.type = "ReplicaSetNoPrimary", NEW a \in Addresses, NEW r,
           Plausible(r), NEW g \in Nat
    PROVE  Good(UpdateReplicaSetNoPrimary(Seen(td, a, r, g), a, r))
<1> DEFINE s == Seen(td, a, r, g)
<1> USE DEF Plausible
<1>1. /\ s \in Descriptions /\ s.type = "ReplicaSetNoPrimary"
      /\ s.servers[a] = ParseServer(r, g) /\ s.servers[a].type = r.type
  BY SeenFacts, ParsedServer DEF Good
<1>2. MembersFit(s, Addresses \ {a}) /\ \A b \in Addresses \ {a} : s.servers[b].type # "RSPrimary"
  BY OthersStayFit DEF ReplicaSetTypes
<1> HIDE DEF s
<1>3. CASE r.type \in {"Standalone", "Mongos"}
  <2> DEFINE e == [s EXCEPT !.servers = Remove(s.servers, a), !.type = "ReplicaSetNoPrimary"]
  <2>1. e = [s EXCEPT !.servers = Remove(s.servers, a)]
    BY <1>1 DEF Descriptions
  <2>2. e \in Descriptions /\ e.servers = Remove(s.servers, a) /\ e.type = "ReplicaSetNoPrimary"
        /\ MembersFit(e, Addresses)
    BY <1>1, <1>2, RemoveFits DEF TopologyTypes
  <2> HIDE DEF e
  <2>3. e.type = HasPrimary(e.servers)
    BY <1>1, <1>2, <2>2, SpecialServers DEF HasPrimary, Primaries, Remove, Descriptions
  <2>4. Good(e)
    BY <2>2, <2>3, GoodReplicaSet
  <2> QED
    BY <1>3, <2>1, <2>4 DEF UpdateReplicaSetNoPrimary, s
<1>4. CASE r.type = "RSPrimary"
  BY <1>1, <1>2, <1>4, PrimaryUpdate DEF UpdateReplicaSetNoPrimary, s
<1>5. CASE r.type \in MEMBER_TYPES
  <2>1. \A b \in Addresses : s.servers[b].type # "RSPrimary"
    BY <1>1, <1>2, <1>5 DEF MEMBER_TYPES
  <2>2. Good(UpdateWithoutPrimary(s, a, r))
    BY <1>1, <1>2, <1>5, <2>1, WithoutPrimaryUpdate
  <2> QED
    BY <1>5, <2>2 DEF UpdateReplicaSetNoPrimary, MEMBER_TYPES, s
<1>6. CASE r.type \in {"Unknown", "RSGhost", "LoadBalancer"}
  <2>1. MembersFit(s, Addresses)
    BY <1>1, <1>2, <1>6, StrangerFits
  <2>2. s.type = HasPrimary(s.servers)
    BY <1>1, <1>2, <1>6 DEF HasPrimary, Primaries
  <2>3. Good(s)
    BY <1>1, <2>1, <2>2, GoodReplicaSet
  <2> QED
    BY <1>6, <2>3 DEF UpdateReplicaSetNoPrimary, MEMBER_TYPES, s
<1> QED
  BY <1>3, <1>4, <1>5, <1>6 DEF Replies, ServerTypes, MEMBER_TYPES

LEMMA WithPrimaryUpdate ==
    ASSUME NEW td, Good(td), td.type = "ReplicaSetWithPrimary", NEW a \in Addresses, NEW r,
           Plausible(r), NEW g \in Nat
    PROVE  Good(UpdateReplicaSetWithPrimary(Seen(td, a, r, g), a, r))
<1> DEFINE s == Seen(td, a, r, g)
<1> USE DEF Plausible
<1>1. /\ s \in Descriptions
      /\ s.servers[a] = ParseServer(r, g) /\ s.servers[a].type = r.type
  BY SeenFacts, ParsedServer DEF Good
<1>2. MembersFit(s, Addresses \ {a})
  BY OthersStayFit DEF ReplicaSetTypes
<1> HIDE DEF s
<1>3. CASE r.type \in {"Standalone", "Mongos"}
  <2> DEFINE type == HasPrimary(Remove(s.servers, a))
             e == [s EXCEPT !.servers = Remove(s.servers, a), !.type = type]
  <2>1. type \in TopologyTypes
    BY DEF HasPrimary, TopologyTypes
  <2> HIDE DEF type
  <2>2. e \in Descriptions /\ e.servers = Remove(s.servers, a) /\ e.type = type
        /\ MembersFit(e, Addresses)
    BY <1>1, <1>2, <2>1, RemoveFits
  <2> HIDE DEF e
  <2>3. Good(e)
    BY <2>2, GoodReplicaSet DEF type
  <2> QED
    BY <1>3, <2>3 DEF UpdateReplicaSetWithPrimary, e, s, type
<1>4. CASE r.type = "RSPrimary"
  BY <1>1, <1>2, <1>4, PrimaryUpdate DEF UpdateReplicaSetWithPrimary, s
<1>5. CASE r.type \in MEMBER_TYPES
  BY <1>1, <1>2, <1>5, MemberUpdate DEF UpdateReplicaSetWithPrimary, MEMBER_TYPES, s
<1>6. CASE r.type \in {"Unknown", "RSGhost", "LoadBalancer"}
  <2> DEFINE e == [s EXCEPT !.type = HasPrimary(s.servers)]
  <2>1. MembersFit(s, Addresses)
    BY <1>1, <1>2, <1>6, StrangerFits
  <2>2. /\ e \in Descriptions /\ e.type = HasPrimary(e.servers) /\ e.servers = s.servers
        /\ e.set_name = s.set_name /\ e.max_election_id = s.max_election_id
        /\ e.max_set_version = s.max_set_version
    BY <1>1 DEF HasPrimary, Descriptions, TopologyTypes
  <2> HIDE DEF e
  <2>3. MembersFit(e, Addresses)
    BY <2>1, <2>2 DEF MembersFit
  <2>4. Good(e)
    BY <2>2, <2>3, GoodReplicaSet
  <2> QED
    BY <1>6, <2>4 DEF UpdateReplicaSetWithPrimary, MEMBER_TYPES, e, s
<1> QED
  BY <1>3, <1>4, <1>5, <1>6 DEF Replies, ServerTypes, MEMBER_TYPES

LEMMA SingleUpdate ==
    ASSUME NEW td, Good(td), td.type = "Single", NEW a \in Present(td.servers), NEW r,
           Plausible(r), NEW g \in Nat
    PROVE  Good(UpdateSingle(Seen(td, a, r, g), a, r))
<1> DEFINE s == Seen(td, a, r, g)
<1> USE DEF Plausible
<1>1. a \in Addresses /\ td \in Descriptions /\ Present(td.servers) = {a}
  BY DEF Good, Fits, Present
<1>2. /\ s \in Descriptions /\ s.type = "Single"
      /\ s.servers[a].type = r.type
      /\ \A b \in Addresses \ {a} : s.servers[b] = td.servers[b]
  BY <1>1, SeenFacts, ParsedServer
<1>3. r.type # "Absent"
  BY DEF Replies, ServerTypes
<1> HIDE DEF s
<1>4. Present(s.servers) = {a}
  BY <1>1, <1>2, <1>3 DEF Present
<1>5. Good(s)
  BY <1>1, <1>2, <1>4, OnePresentGood
<1> DEFINE e == [s EXCEPT !.servers[a] = UnknownFrom(@)]
<1>6. e \in Descriptions /\ e.type = "Single" /\ e.servers[a].type = "Unknown"
      /\ \A b \in Addresses \ {a} : e.servers[b] = s.servers[b]
  BY <1>1, <1>2, SpecialServers DEF Descriptions
<1> HIDE DEF e
<1>7. Present(e.servers) = {a}
  BY <1>1, <1>4, <1>6 DEF Present
<1>8. Good(e)
  BY <1>1, <1>6, <1>7, OnePresentGood
<1> QED
  BY <1>5, <1>8 DEF UpdateSingle, e, s

LEMMA ShardedUpdate ==
    ASSUME NEW td, Good(td), td.type = "Sharded", NEW a \in Addresses, NEW r, Plausible(r),
           NEW g \in Nat
    PROVE  Good(UpdateSharded(Seen(td, a, r, g), a, r))
<1> DEFINE s == Seen(td, a, r, g)
           e == [s EXCEPT !.servers = Remove(s.servers, a)]
<1> USE DEF Plausible
<1>1. /\ s \in Descriptions /\ s.type = "Sharded"
      /\ s.servers[a].type = r.type
      /\ \A b \in Addresses \ {a} : s.servers[b] = td.servers[b]
  BY SeenFacts, ParsedServer DEF Good
<1>2. \A b \in Addresses \ {a} : s.servers[b].type \in {"Mongos", "Unknown", "RSGhost", "Absent"}
  BY <1>1, KindOfGood DEF KindsFit
<1> HIDE DEF s
<1>3. CASE r.type \in {"Mongos", "Unknown"}
  <2>1. Good(s)
    BY <1>1, <1>2, <1>3, GoodOfKind DEF KindsFit, WithinSeeds
  <2> QED
    BY <1>3, <2>1 DEF UpdateSharded, s
<1>4. CASE r.type \notin {"Mongos", "Unknown"}
  <2>1. e \in Descriptions /\ e.type = "Sharded"
    BY <1>1, HelpersTyped DEF Descriptions
  <2>2. e.servers[a].type = "Absent" /\ \A b \in Addresses \ {a} : e.servers[b] = s.servers[b]
    BY <1>1, SpecialServers DEF Remove, Descriptions
  <2> HIDE DEF e
  <2>3. Good(e)
    BY <1>2, <2>1, <2>2, GoodOfKind DEF KindsFit, WithinSeeds
  <2> QED
    BY <1>4, <2>3 DEF UpdateSharded, e, s
<1> QED
  BY <1>3, <1>4

LEMMA LoadBalancedUpdate ==
    ASSUME NEW td, Good(td), td.type = "LoadBalanced", NEW a \in Addresses, NEW r, Plausible(r),
           r.type = "LoadBalancer", NEW g \in Nat
    PROVE  Good(Seen(td, a, r, g))
<1> DEFINE s == Seen(td, a, r, g)
<1> USE DEF Plausible
<1>1. /\ s \in Descriptions /\ s.type = "LoadBalanced"
      /\ s.servers[a].type = "LoadBalancer"
      /\ \A b \in Addresses \ {a} : s.servers[b] = td.servers[b]
  BY SeenFacts, ParsedServer DEF Good
<1>2. \A b \in Addresses \ {a} : s.servers[b].type \in {"LoadBalancer", "Unknown", "Absent"}
  BY <1>1, KindOfGood DEF KindsFit
<1> HIDE DEF s
<1>3. Good(s)
  BY <1>1, <1>2, GoodOfKind DEF KindsFit, WithinSeeds
<1> QED
  BY <1>3 DEF s

\* What update makes of a good description is good.
LEMMA UpdateGood ==
    ASSUME NEW td, Good(td), NEW a \in Addresses, td.type = "Single" => a \in Present(td.servers),
           NEW r, Plausible(r), NEW g \in Nat
    PROVE  Good(Update(td, a, r, g))
<1>1. CASE Ignores(td, a, r, g)
  BY <1>1 DEF Update
<1>2. CASE ~Ignores(td, a, r, g)
  <2>1. td.type \in TopologyTypes /\ td.servers[a].type # "Absent"
    BY <1>2 DEF Good, Descriptions, Ignores, Present
  <2>2. Good(Transition(td, a, r, g))
    <3>1. CASE td.type = "LoadBalanced"
      BY <3>1, LoadBalancedUpdate DEF Transition, Seen
    <3>2. CASE td.type = "Single"
      BY <3>2, SingleUpdate DEF Transition, Seen
    <3>3. CASE td.type = "Unknown"
      BY <3>3, <2>1, UnknownUpdate DEF Transition, Seen
    <3>4. CASE td.type = "Sharded"
      BY <3>4, ShardedUpdate DEF Transition, Seen
    <3>5. CASE td.type = "ReplicaSetNoPrimary"
      BY <3>5, NoPrimaryUpdate DEF Transition, Seen
    <3>6. CASE td.type = "ReplicaSetWithPrimary"
      BY <3>6, WithPrimaryUpdate DEF Transition, Seen
    <3> QED
      BY <2>1, <3>1, <3>2, <3>3, <3>4, <3>5, <3>6 DEF TopologyTypes
  <2> QED
    BY <1>2, <2>2 DEF Update
<1> QED
  BY <1>1, <1>2

\* The generation is no part of what the invariant speaks of.
LEMMA WithGenerationGood ==
    ASSUME NEW td, Good(td), NEW a \in Addresses, NEW g \in Nat
    PROVE  Good(WithGeneration(td, a, g))
<1> DEFINE e == WithGeneration(td, a, g)
<1>1. td \in Descriptions
  BY DEF Good
<1>2. [td.servers[a] EXCEPT !.generation = g] \in Servers
  BY <1>1 DEF Descriptions, Servers
<1>3. e \in Descriptions /\ e.servers = [td.servers EXCEPT ![a] = [@ EXCEPT !.generation = g]]
      /\ e.type = td.type /\ e.set_name = td.set_name /\ e.seeds = td.seeds
      /\ e.max_election_id = td.max_election_id /\ e.max_set_version = td.max_set_version
  BY <1>1, <1>2 DEF WithGeneration, Descriptions
<1>4. \A b \in Addresses :
         LET s == e.servers[b]
             o == td.servers[b]
         IN /\ s.type = o.type /\ s.set_name = o.set_name /\ s.post_17 = o.post_17
            /\ s.election_id = o.election_id /\ s.set_version = o.set_version
  BY <1>1, <1>3 DEF Descriptions, Servers
<1> HIDE DEF e
<1>5. Present(e.servers) = Present(td.servers) /\ Primaries(e.servers) = Primaries(td.servers)
  BY <1>4 DEF Present, Primaries
<1>6. CASE td.type \in ReplicaSetTypes
  <2>1. MembersFit(td, Addresses) /\ td.type = HasPrimary(td.servers)
    BY <1>6, ReplicaSetGood
  <2>2. MembersFit(e, Addresses) /\ e.type = HasPrimary(e.servers)
    BY <1>3, <1>4, <1>5, <2>1 DEF MembersFit, HasPrimary
  <2> QED
    BY <1>3, <2>2, GoodReplicaSet DEF e
<1>7. CASE td.type = "Single"
  <2>1. PICK b \in Addresses : Present(td.servers) = {b}
    BY <1>7 DEF Good, Fits
  <2> QED
    BY <1>3, <1>5, <1>7, <2>1, OnePresentGood DEF e
<1>8. CASE td.type \in {"Sharded", "Unknown", "LoadBalanced"}
  <2>1. KindsFit(e) /\ WithinSeeds(e)
    BY <1>3, <1>4, <1>5, KindOfGood DEF KindsFit, WithinSeeds, Good
  <2> QED
    BY <1>3, <1>8, <2>1, GoodOfKind DEF e
<1> QED
  BY <1>1, <1>6, <1>7, <1>8 DEF Descriptions, TopologyTypes, ReplicaSetTypes

LEMMA WithSrvHostsGood ==
    ASSUME NEW td, Good(td), NEW hosts \in SUBSET Addresses
    PROVE  Good(WithSrvHosts(td, hosts))
<1> DEFINE servers == KeepHosts(AddHosts(td.servers, hosts), hosts)
           e == [td EXCEPT !.seeds = hosts, !.servers = servers]
<1>1. td \in Descriptions /\ KindsFit(td)
  BY KindOfGood DEF Good
<1>2. servers \in [Addresses -> Servers]
  <2>1. AddHosts(td.servers, hosts) \in [Addresses -> Servers]
    BY <1>1, HelpersTyped DEF Descriptions
  <2> QED
    BY <2>1, HelpersTyped
<1>3. \A b \in Addresses : \/ servers[b].type = "Absent"
                           \/ b \in hosts /\ servers[b] = td.servers[b]
                           \/ b \in hosts /\ servers[b].type = "Unknown"
  <2> DEFINE known == AddHosts(td.servers, hosts)
  <2>1. \A b \in Addresses : known[b] = td.servers[b] \/ known[b].type = "Unknown"
    BY SpecialServers DEF AddHosts
  <2> HIDE DEF known
  <2>2. \A b \in Addresses : servers[b] = IF b \in hosts THEN known[b] ELSE Absent
    BY DEF KeepHosts, known
  <2> HIDE DEF servers
  <2> QED
    BY <2>1, <2>2, SpecialServers
<1>4. e \in Descriptions /\ e.servers = servers /\ e.seeds = hosts /\ e.type = td.type
  BY <1>1, <1>2 DEF Descriptions
<1> HIDE DEF servers, e
<1>5. td.type \in {"Unknown", "Sharded"} => Good(e)
  BY <1>1, <1>3, <1>4, GoodOfKind DEF KindsFit, WithinSeeds, Present
<1> QED
  BY <1>5 DEF WithSrvHosts, e, servers

LEMMA ClosedGood ==
    ASSUME NEW td, Good(td)
    PROVE  Good(ClosedDescription(td))
<1> DEFINE e == ClosedDescription(td)
<1>1. e \in Descriptions /\ e.type = "Unknown" /\ \A b \in Addresses : e.servers[b].type = "Absent"
  BY SpecialServers DEF ClosedDescription, Good, Descriptions, TopologyTypes
<1> HIDE DEF e
<1>2. Good(e)
  BY <1>1, GoodOfKind DEF KindsFit, WithinSeeds, Present
<1> QED
  BY <1>2 DEF e

LEMMA NewGood ==
    ASSUME NEW type \in TopologyTypes \ {"ReplicaSetWithPrimary"},
           NEW name \in SetNames \cup {NoName}, NEW seeds \in SUBSET Addresses,
           type \in {"Single", "LoadBalanced"} => Cardinality(seeds) = 1
    PROVE  Good(NewDescription(type, name, seeds))
<1> DEFINE e == NewDescription(type, name, seeds)
<1>1. e \in Descriptions /\ e.type = type /\ e.seeds = seeds
  BY SpecialServers DEF NewDescription, Descriptions
<1>2. \A b \in Addresses : e.servers[b].type = IF b \in seeds THEN "Unknown" ELSE "Absent"
  BY SpecialServers DEF NewDescription
<1> HIDE DEF e
<1>3. CASE type = "Single"
  <2>1. PICK x : seeds = {x}
    BY <1>3, AddressesFinite, FS_Subset, FS_Singleton
  <2>2. x \in Addresses /\ Present(e.servers) = {x}
    BY <1>2, <2>1 DEF Present
  <2> QED
    BY <1>1, <1>3, <2>2, OnePresentGood DEF e
<1>4. CASE type \in {"Sharded", "Unknown", "LoadBalanced"}
  <2>1. KindsFit(e) /\ WithinSeeds(e)
    BY <1>1, <1>2, <1>4 DEF KindsFit, WithinSeeds, Present
  <2> QED
    BY <1>1, <1>4, <2>1, GoodOfKind DEF e
<1>5. CASE type = "ReplicaSetNoPrimary"
  <2>1. MembersFit(e, Addresses)
    BY <1>2, HarmlessFit
  <2>2. e.type = HasPrimary(e.servers)
    BY <1>1, <1>2, <1>5 DEF HasPrimary, Primaries
  <2> QED
    BY <1>1, <2>1, <2>2, GoodReplicaSet DEF e
<1> QED
  BY <1>3, <1>4, <1>5 DEF TopologyTypes

-----------------------------------------------------------------------------
(* The description of a client.                                            *)

\* A description is good from the start and stays good, whatever replies, SRV
\* records and generations arrive (sdam.lua, M.new, update, with_srv_hosts,
\* with_generation and closed).
THEOREM DescriptionStaysGood == Spec => []Good(description)
<1>1. Init => Good(description)
  BY StartsAreNew, NewGood DEF Init
<1>2. Good(description) /\ [Next]_description => Good(description)'
  <2> SUFFICES ASSUME Good(description), [Next]_description
               PROVE  Good(description')
    BY DEF Good, OnePrimary, Fits, Types, OfTheSet, Newest, WithinSeeds, Primaries, Present
  <2>1. ASSUME NEW a \in Addresses, Hears(a)
        PROVE  Good(description')
    <3>1. PICK r \in Heard, g \in 0 .. MaxGeneration : description' = Update(description, a, r, g)
      BY <2>1 DEF Hears
    <3>2. Plausible(r) /\ g \in Nat
      BY HeardAreReplies, GenerationsBounded DEF Plausible
    <3> QED
      BY <2>1, <3>1, <3>2, UpdateGood DEF Hears
  <2>2. ASSUME NEW a \in Addresses, TakesGeneration(a)
        PROVE  Good(description')
    BY <2>2, WithGenerationGood, GenerationsBounded DEF TakesGeneration
  <2>3. CASE Rescans
    BY <2>3, WithSrvHostsGood DEF Rescans
  <2>4. CASE Closes
    BY <2>4, ClosedGood DEF Closes
  <2>5. CASE UNCHANGED description
    BY <2>5
  <2> QED
    BY <2>1, <2>2, <2>3, <2>4, <2>5 DEF Next
<1> QED
  BY <1>1, <1>2, PTL DEF Spec

\* The description is one (sdam.lua, M.new).
THEOREM TypeCorrect == Spec => []TypeOK
<1>1. Good(description) => TypeOK
  BY DEF Good, TypeOK
<1> QED
  BY <1>1, DescriptionStaysGood, PTL

\* A client never takes two servers for the primary (sdam.lua, update_from_primary).
THEOREM OnePrimaryAtMost == Spec => []AtMostOnePrimary
<1>1. Good(description) => AtMostOnePrimary
  BY DEF Good, OnePrimary, AtMostOnePrimary
<1> QED
  BY <1>1, DescriptionStaysGood, PTL

\* The topology type says what its servers are (sdam.lua, transition).
THEOREM TypeSaysServers == Spec => []ServersFitTopology
<1>1. Good(description) => ServersFitTopology
  BY DEF Good, ServersFitTopology
<1> QED
  BY <1>1, DescriptionStaysGood, PTL

\* Members of another replica set are not kept (sdam.lua, the checks of set_name
\* in update_from_primary and the updates from members).
THEOREM StrangersGo == Spec => []MembersAreOfTheSet
<1>1. Good(description) => MembersAreOfTheSet
  BY DEF Good, OfTheSet, MembersAreOfTheSet
<1> QED
  BY <1>1, DescriptionStaysGood, PTL

\* The primary is the newest heard of (sdam.lua, stale_primary).
THEOREM NewestPrimary == Spec => []PrimaryIsNewest
<1>1. Good(description) => PrimaryIsNewest
  BY DEF Good, Newest, PrimaryIsNewest
<1> QED
  BY <1>1, DescriptionStaysGood, PTL

-----------------------------------------------------------------------------
(* The type of a topology.                                                 *)

\* What each transition may make of the type.
LEMMA TypeAfter ==
    ASSUME NEW td \in Descriptions, NEW a \in Addresses, NEW r, Plausible(r), NEW g \in Nat
    PROVE  LET type == Transition(td, a, r, g).type IN
           \/ type = td.type
           \/ td.type = "Unknown" /\ type # "LoadBalanced"
           \/ td.type \in ReplicaSetTypes /\ type \in ReplicaSetTypes
<1> DEFINE s == Seen(td, a, r, g)
<1>1. s \in Descriptions /\ s.type = td.type
  BY SeenFacts DEF Plausible
<1> HIDE DEF s
<1>2. ASSUME NEW d \in Descriptions
      PROVE  UpdateFromPrimary(d, a, r).type \in ReplicaSetTypes
  BY DEF UpdateFromPrimary, Witnessed, HasPrimary, ReplicaSetTypes, Descriptions
<1>3. ASSUME NEW d \in Descriptions
      PROVE  UpdateWithoutPrimary(d, a, r).type = d.type
  BY DEF UpdateWithoutPrimary, Descriptions
<1>4. ASSUME NEW d \in Descriptions
      PROVE  UpdateWithPrimaryFromMember(d, a, r).type \in ReplicaSetTypes
  BY DEF UpdateWithPrimaryFromMember, HasPrimary, ReplicaSetTypes, Descriptions
<1>5. UpdateSingle(s, a, r).type = s.type
  BY <1>1 DEF UpdateSingle, Descriptions
<1>6. UpdateSharded(s, a, r).type = s.type
  BY <1>1 DEF UpdateSharded, Descriptions
<1>7. UpdateUnknown(s, a, r).type \in {s.type, "Single", "Sharded"} \cup ReplicaSetTypes
  <2> DEFINE as(type) == [s EXCEPT !.type = type]
  <2>1. \A type \in TopologyTypes : as(type) \in Descriptions /\ as(type).type = type
    BY <1>1 DEF Descriptions
  <2>2. [s EXCEPT !.servers = Remove(s.servers, a)].type = s.type
    BY <1>1 DEF Descriptions
  <2>3. UpdateFromPrimary(as("ReplicaSetWithPrimary"), a, r).type \in ReplicaSetTypes
    BY <1>2, <2>1 DEF TopologyTypes
  <2>4. UpdateWithoutPrimary(as("ReplicaSetNoPrimary"), a, r).type \in ReplicaSetTypes
    BY <1>3, <2>1 DEF TopologyTypes, ReplicaSetTypes
  <2> QED
    BY <2>1, <2>2, <2>3, <2>4 DEF UpdateUnknown, TopologyTypes
<1>8. s.type = "ReplicaSetNoPrimary" =>
         UpdateReplicaSetNoPrimary(s, a, r).type \in ReplicaSetTypes
  <2>1. [s EXCEPT !.servers = Remove(s.servers, a)].type = s.type
    BY <1>1 DEF Descriptions
  <2> QED
    BY <1>1, <1>2, <1>3, <2>1 DEF UpdateReplicaSetNoPrimary, ReplicaSetTypes
<1>9. UpdateReplicaSetWithPrimary(s, a, r).type \in ReplicaSetTypes
  <2>1. \A servers : HasPrimary(servers) \in ReplicaSetTypes
    BY DEF HasPrimary, ReplicaSetTypes
  <2>2. \A servers, type : [s EXCEPT !.servers = servers, !.type = type].type = type
    BY <1>1 DEF Descriptions
  <2>3. \A type : [s EXCEPT !.type = type].type = type
    BY <1>1 DEF Descriptions
  <2> QED
    BY <1>1, <1>2, <1>4, <2>1, <2>2, <2>3 DEF UpdateReplicaSetWithPrimary
<1>10. CASE td.type \in {"LoadBalanced", "Single", "Sharded"}
  BY <1>1, <1>5, <1>6, <1>10 DEF Transition, s, Seen
<1>11. CASE td.type = "Unknown"
  BY <1>1, <1>7, <1>11 DEF Transition, s, Seen, ReplicaSetTypes
<1>12. CASE td.type = "ReplicaSetNoPrimary"
  BY <1>1, <1>8, <1>12 DEF Transition, s, Seen, ReplicaSetTypes
<1>13. CASE td.type = "ReplicaSetWithPrimary"
  BY <1>1, <1>9, <1>13 DEF Transition, s, Seen, ReplicaSetTypes
<1> QED
  BY <1>10, <1>11, <1>12, <1>13 DEF Descriptions, TopologyTypes

\* What a topology turned out to be it remains (sdam.lua, transition): only an
\* unknown topology, or the presence of a primary, changes type.
THEOREM TypeRemains == Spec => TypeIsForGood
<1> DEFINE Remains ==
             \/ description'.type = description.type
             \/ description.type = "Unknown" /\ description'.type # "LoadBalanced"
             \/ {description.type, description'.type} \subseteq ReplicaSetTypes
             \/ description' = ClosedDescription(description)
<1>1. TypeOK /\ [Next]_description => [Remains]_description
  <2> SUFFICES ASSUME description \in Descriptions, Next
               PROVE  Remains
    BY DEF TypeOK
  <2>1. ASSUME NEW a \in Addresses, Hears(a)
        PROVE  Remains
    <3>1. PICK r \in Heard, g \in 0 .. MaxGeneration : description' = Update(description, a, r, g)
      BY <2>1 DEF Hears
    <3>2. Plausible(r) /\ g \in Nat
      BY HeardAreReplies, GenerationsBounded DEF Plausible
    <3> QED
      BY <3>1, <3>2, TypeAfter DEF Update
  <2>2. ASSUME NEW a \in Addresses, TakesGeneration(a)
        PROVE  Remains
    BY <2>2 DEF TakesGeneration, WithGeneration, Descriptions
  <2>3. CASE Rescans
    BY <2>3 DEF Rescans, WithSrvHosts, Descriptions
  <2>4. CASE Closes
    BY <2>4 DEF Closes
  <2> QED
    BY <2>1, <2>2, <2>3, <2>4 DEF Next
<1> QED
  BY <1>1, TypeCorrect, PTL DEF Spec, TypeIsForGood
=============================================================================
