-------------------------- MODULE ReplicaSet_proofs --------------------------
(***************************************************************************)
(* The proof that a client never goes back to an older primary: one lemma  *)
(* on what a reply does to any description of a replica set, and one on    *)
(* what the servers may say.                                               *)
(***************************************************************************)
EXTENDS ReplicaSet, SequenceTheorems, TLAPS

-----------------------------------------------------------------------------
(* The client: what a reply does to a description. *)

\* Every primary is of the last election heard of.
Leads(servers, last) == \A a \in Primaries(servers) : servers[a].election_id = last

Following(td) ==
    /\ td \in Descriptions /\ td.type \in ReplicaSetTypes
    /\ Leads(td.servers, td.max_election_id)

\* A reply of a server of the supported versions, as primaries tell of their election.
Telling(r) == r \in Replies /\ (r.type = "RSPrimary" => r.post_17)

LEMMA FieldsTyped ==
    ASSUME NEW td \in Descriptions
    PROVE  /\ td.type \in TopologyTypes /\ td.servers \in [Addresses -> Servers]
           /\ td.set_name \in SetNames \cup {NoName}
           /\ td.max_election_id \in Nat /\ td.max_set_version \in Nat
  BY DEF Descriptions

LEMMA SpecialServers ==
    /\ Unchecked \in Servers /\ Unchecked.type = "Unknown"
    /\ Absent \in Servers /\ Absent.type = "Absent"
    /\ \A s \in Servers : UnknownFrom(s) \in Servers /\ UnknownFrom(s).type = "Unknown"
    /\ \A s \in Servers :
          /\ [s EXCEPT !.type = "PossiblePrimary"] \in Servers
          /\ [s EXCEPT !.type = "PossiblePrimary"].type = "PossiblePrimary"
  BY DEF Unchecked, Absent, UnknownFrom, Servers, ServerTypes, Versions, NoVersion

\* None of the helpers makes a primary of a server that was none, or changes one.
LEMMA HelpersLead ==
    ASSUME NEW servers \in [Addresses -> Servers], NEW last, Leads(servers, last),
           NEW a, NEW hosts \in SUBSET Addresses, NEW p
    PROVE  /\ Remove(servers, a) \in [Addresses -> Servers] /\ Leads(Remove(servers, a), last)
           /\ AddHosts(servers, hosts) \in [Addresses -> Servers]
           /\ Leads(AddHosts(servers, hosts), last)
           /\ KeepHosts(servers, hosts) \in [Addresses -> Servers]
           /\ Leads(KeepHosts(servers, hosts), last)
           /\ PossiblePrimary(servers, p) \in [Addresses -> Servers]
           /\ Leads(PossiblePrimary(servers, p), last)
<1>1. Remove(servers, a) \in [Addresses -> Servers] /\ Leads(Remove(servers, a), last)
  BY SpecialServers DEF Remove, Leads, Primaries
<1>2. AddHosts(servers, hosts) \in [Addresses -> Servers] /\ Leads(AddHosts(servers, hosts), last)
  BY SpecialServers DEF AddHosts, Leads, Primaries
<1>3. KeepHosts(servers, hosts) \in [Addresses -> Servers] /\ Leads(KeepHosts(servers, hosts), last)
  BY SpecialServers DEF KeepHosts, Leads, Primaries
<1>4. PossiblePrimary(servers, p) \in [Addresses -> Servers]
      /\ Leads(PossiblePrimary(servers, p), last)
  BY SpecialServers DEF PossiblePrimary, Leads, Primaries
<1> QED
  BY <1>1, <1>2, <1>3, <1>4

\* With new servers that lead, a description is still one of a replica set.
LEMMA StillFollowing ==
    ASSUME NEW td \in Descriptions, NEW servers \in [Addresses -> Servers],
           Leads(servers, td.max_election_id), NEW type \in ReplicaSetTypes
    PROVE  /\ Following([td EXCEPT !.servers = servers, !.type = type])
           /\ [td EXCEPT !.servers = servers, !.type = type].max_election_id = td.max_election_id
  BY DEF Following, Descriptions, ReplicaSetTypes, TopologyTypes

\* The same where a name is taken over as well.
LEMMA StillFollowingNamed ==
    ASSUME NEW td \in Descriptions, NEW servers \in [Addresses -> Servers],
           Leads(servers, td.max_election_id), td.type \in ReplicaSetTypes,
           NEW name \in SetNames \cup {NoName}
    PROVE  /\ Following([td EXCEPT !.set_name = name, !.servers = servers])
           /\ [td EXCEPT !.set_name = name, !.servers = servers].max_election_id
                 = td.max_election_id
  BY DEF Following, Descriptions, ReplicaSetTypes, TopologyTypes

LEMMA HasPrimaryTyped == \A servers : HasPrimary(servers) \in ReplicaSetTypes
  BY DEF HasPrimary, ReplicaSetTypes

LEMMA Settled ==
    ASSUME NEW d \in Descriptions, NEW servers \in [Addresses -> Servers],
           Leads(servers, d.max_election_id)
    PROVE  /\ Following([d EXCEPT !.servers = servers, !.type = HasPrimary(servers)])
           /\ [d EXCEPT !.servers = servers, !.type = HasPrimary(servers)].max_election_id
                 = d.max_election_id
<1> DEFINE type == HasPrimary(servers)
<1>1. type \in ReplicaSetTypes
  BY HasPrimaryTyped
<1> HIDE DEF type
<1>2. /\ Following([d EXCEPT !.servers = servers, !.type = type])
      /\ [d EXCEPT !.servers = servers, !.type = type].max_election_id = d.max_election_id
  BY <1>1, StillFollowing
<1> QED
  BY <1>2 DEF type

\* After a primary has told of its election, that is the last one, or it is not
\* followed.
LEMMA PrimaryIsFollowed ==
    ASSUME NEW td \in Descriptions, NEW a \in Addresses, NEW r, Telling(r), r.type = "RSPrimary",
           td.servers[a] = ParseServer(r, 0),
           \A b \in Primaries(td.servers) \ {a} :
              td.servers[b].election_id = td.max_election_id
    PROVE  /\ Following(UpdateFromPrimary(td, a, r))
           /\ UpdateFromPrimary(td, a, r).max_election_id >= td.max_election_id
<1> DEFINE named == [td EXCEPT !.set_name = IF @ = NoName THEN r.set_name ELSE @]
           last == td.max_election_id
<1>1. /\ named \in Descriptions /\ named.max_election_id = last
      /\ td.servers \in [Addresses -> Servers] /\ last \in Nat
      /\ r \in Replies /\ r.election_id \in Nat /\ r.set_version \in Nat /\ r.post_17
      /\ r.all_hosts \in SUBSET Addresses
  BY DEF Telling, Replies, Descriptions
<1>5. last >= last
  BY <1>1
<1>2. CASE named.set_name # r.set_name
  <2> DEFINE servers == Remove(td.servers, a)
  <2>1. servers \in [Addresses -> Servers] /\ Leads(servers, last)
    BY <1>1, SpecialServers DEF Remove, Leads, Primaries
  <2>2. UpdateFromPrimary(td, a, r)
          = [named EXCEPT !.servers = servers, !.type = HasPrimary(servers)]
    BY <1>2 DEF UpdateFromPrimary
  <2> HIDE DEF servers, named
  <2>3. Leads(servers, named.max_election_id)
    BY <1>1, <2>1
  <2> DEFINE settled == [named EXCEPT !.servers = servers, !.type = HasPrimary(servers)]
  <2>4. Following(settled) /\ settled.max_election_id = named.max_election_id
    BY <1>1, <2>1, <2>3, Settled
  <2> QED
    BY <1>1, <1>5, <2>2, <2>4
<1>3. CASE named.set_name = r.set_name /\ StalePrimary(td, r)
  <2> DEFINE servers == [td.servers EXCEPT ![a] = UnknownFrom(@)]
  <2>1. servers \in [Addresses -> Servers] /\ Leads(servers, last)
    BY <1>1, SpecialServers DEF Leads, Primaries
  <2>2. UpdateFromPrimary(td, a, r)
          = [named EXCEPT !.servers = servers, !.type = HasPrimary(servers)]
    BY <1>3 DEF UpdateFromPrimary
  <2> HIDE DEF servers, named
  <2>3. Leads(servers, named.max_election_id)
    BY <1>1, <2>1
  <2> DEFINE settled == [named EXCEPT !.servers = servers, !.type = HasPrimary(servers)]
  <2>4. Following(settled) /\ settled.max_election_id = named.max_election_id
    BY <1>1, <2>1, <2>3, Settled
  <2> QED
    BY <1>1, <1>5, <2>2, <2>4
<1>4. CASE named.set_name = r.set_name /\ ~StalePrimary(td, r)
  <2> DEFINE rest == DemoteOthers(td.servers, a)
             servers == KeepHosts(AddHosts(rest, r.all_hosts), r.all_hosts)
             d == Witnessed(named, r)
  <2>1. r.election_id >= last
    BY <1>1, <1>4 DEF StalePrimary, OlderThanSeen
  <2>2. d \in Descriptions /\ d.max_election_id = r.election_id
    BY <1>1 DEF Witnessed, Descriptions
  <2>3. rest \in [Addresses -> Servers] /\ Leads(rest, r.election_id)
    <3>1. rest \in [Addresses -> Servers]
      BY <1>1, SpecialServers DEF DemoteOthers
    <3>2. \A b \in Addresses \ {a} : rest[b].type # "RSPrimary"
      BY <1>1, SpecialServers DEF DemoteOthers, Primaries
    <3>3. rest[a] = td.servers[a]
      BY DEF DemoteOthers
    <3>4. rest[a].election_id = r.election_id
      BY <3>3 DEF ParseServer
    <3> QED
      BY <3>1, <3>2, <3>4 DEF Leads, Primaries
  <2>4. servers \in [Addresses -> Servers] /\ Leads(servers, r.election_id)
    <3> HIDE DEF rest
    <3>1. AddHosts(rest, r.all_hosts) \in [Addresses -> Servers]
          /\ Leads(AddHosts(rest, r.all_hosts), r.election_id)
      BY <1>1, <2>3, HelpersLead
    <3> QED
      BY <1>1, <3>1, HelpersLead
  <2>5. UpdateFromPrimary(td, a, r)
          = [Witnessed(named, r) EXCEPT !.servers = servers, !.type = HasPrimary(servers)]
    BY <1>4 DEF UpdateFromPrimary
  <2>6. UpdateFromPrimary(td, a, r) = [d EXCEPT !.servers = servers, !.type = HasPrimary(servers)]
    BY <2>5
  <2> HIDE DEF servers, named, d
  <2>7. Leads(servers, d.max_election_id)
    BY <2>2, <2>4
  <2> DEFINE settled == [d EXCEPT !.servers = servers, !.type = HasPrimary(servers)]
  <2>8. Following(settled) /\ settled.max_election_id = d.max_election_id
    BY <2>2, <2>4, <2>7, Settled
  <2> QED
    BY <2>1, <2>2, <2>6, <2>8
<1> QED
  BY <1>2, <1>3, <1>4

\* What a server that is no primary says while there is no primary ...
LEMMA NoPrimaryFollows ==
    ASSUME NEW td \in Descriptions, td.type \in ReplicaSetTypes,
           Leads(td.servers, td.max_election_id),
           NEW a \in Addresses, NEW r \in Replies, r.type # "RSPrimary"
    PROVE  /\ Following(UpdateReplicaSetNoPrimary(td, a, r))
           /\ UpdateReplicaSetNoPrimary(td, a, r).max_election_id = td.max_election_id
<1> DEFINE last == td.max_election_id
           rest == Remove(td.servers, a)
           added == AddHosts(td.servers, r.all_hosts)
           known == PossiblePrimary(added, r.primary)
           without == IF NamesAnother(r, a) THEN Remove(known, a) ELSE known
<1>1. /\ td.servers \in [Addresses -> Servers] /\ td.set_name \in SetNames \cup {NoName}
      /\ r.all_hosts \in SUBSET Addresses /\ r.set_name \in SetNames \cup {NoName}
  BY FieldsTyped DEF Replies
<1>2. rest \in [Addresses -> Servers] /\ Leads(rest, last)
  BY <1>1, HelpersLead
<1>3. added \in [Addresses -> Servers] /\ Leads(added, last)
  BY <1>1, HelpersLead
<1>4. known \in [Addresses -> Servers] /\ Leads(known, last)
  <2> HIDE DEF added
  <2> QED
    BY <1>1, <1>3, HelpersLead
<1>5. without \in [Addresses -> Servers] /\ Leads(without, last)
  <2> HIDE DEF known
  <2>1. Remove(known, a) \in [Addresses -> Servers] /\ Leads(Remove(known, a), last)
    BY <1>1, <1>4, HelpersLead
  <2> QED
    BY <1>4, <2>1
<1>6. \/ UpdateReplicaSetNoPrimary(td, a, r) = [td EXCEPT !.servers = rest]
      \/ UpdateReplicaSetNoPrimary(td, a, r)
            = [td EXCEPT !.set_name = r.set_name, !.servers = without]
      \/ UpdateReplicaSetNoPrimary(td, a, r) = td
  BY DEF UpdateReplicaSetNoPrimary, UpdateWithoutPrimary
<1>7. Following(td)
  BY DEF Following
<1> HIDE DEF rest, without
<1>8. /\ Following([td EXCEPT !.servers = rest])
      /\ [td EXCEPT !.servers = rest].max_election_id = td.max_election_id
  BY <1>2 DEF Following, Descriptions
<1>9. /\ Following([td EXCEPT !.set_name = r.set_name, !.servers = without])
      /\ [td EXCEPT !.set_name = r.set_name, !.servers = without].max_election_id
            = td.max_election_id
  BY <1>1, <1>5, StillFollowingNamed
<1> QED
  BY <1>6, <1>7, <1>8, <1>9

\* ... and while there is one.
LEMMA WithPrimaryFollows ==
    ASSUME NEW td \in Descriptions, td.type \in ReplicaSetTypes,
           Leads(td.servers, td.max_election_id),
           NEW a \in Addresses, NEW r \in Replies, r.type # "RSPrimary"
    PROVE  /\ Following(UpdateReplicaSetWithPrimary(td, a, r))
           /\ UpdateReplicaSetWithPrimary(td, a, r).max_election_id = td.max_election_id
<1> DEFINE last == td.max_election_id
           rest == Remove(td.servers, a)
           known == IF td.set_name # r.set_name \/ NamesAnother(r, a)
                    THEN Remove(td.servers, a) ELSE td.servers
           hinted == IF Primaries(known) = {}
                     THEN PossiblePrimary(known, r.primary) ELSE known
<1>1. td.servers \in [Addresses -> Servers] /\ r.all_hosts \in SUBSET Addresses
  BY FieldsTyped DEF Replies
<1>2. rest \in [Addresses -> Servers] /\ Leads(rest, last)
  BY <1>1, HelpersLead
<1>3. known \in [Addresses -> Servers] /\ Leads(known, last)
  BY <1>1, <1>2
<1>4. hinted \in [Addresses -> Servers] /\ Leads(hinted, last)
  <2> HIDE DEF known
  <2>1. /\ PossiblePrimary(known, r.primary) \in [Addresses -> Servers]
        /\ Leads(PossiblePrimary(known, r.primary), last)
    BY <1>1, <1>3, HelpersLead
  <2> QED
    BY <1>3, <2>1
<1>5. \/ UpdateReplicaSetWithPrimary(td, a, r)
            = [td EXCEPT !.servers = rest, !.type = HasPrimary(rest)]
      \/ UpdateReplicaSetWithPrimary(td, a, r)
            = [td EXCEPT !.type = HasPrimary(known), !.servers = hinted]
      \/ UpdateReplicaSetWithPrimary(td, a, r) = [td EXCEPT !.type = HasPrimary(td.servers)]
  BY DEF UpdateReplicaSetWithPrimary, UpdateWithPrimaryFromMember
<1> HIDE DEF rest, known, hinted
<1>6. ASSUME NEW servers
      PROVE  /\ Following([td EXCEPT !.type = HasPrimary(servers), !.servers = hinted])
             /\ [td EXCEPT !.type = HasPrimary(servers), !.servers = hinted].max_election_id
                   = td.max_election_id
  BY <1>4, HasPrimaryTyped DEF Following, Descriptions, ReplicaSetTypes, TopologyTypes
<1>7. /\ Following([td EXCEPT !.servers = rest, !.type = HasPrimary(rest)])
      /\ [td EXCEPT !.servers = rest, !.type = HasPrimary(rest)].max_election_id
            = td.max_election_id
  BY <1>2, Settled
<1>8. /\ Following([td EXCEPT !.type = HasPrimary(td.servers)])
      /\ [td EXCEPT !.type = HasPrimary(td.servers)].max_election_id = td.max_election_id
  BY HasPrimaryTyped DEF Following, Descriptions, ReplicaSetTypes, TopologyTypes
<1>9. /\ Following([td EXCEPT !.type = HasPrimary(known), !.servers = hinted])
      /\ [td EXCEPT !.type = HasPrimary(known), !.servers = hinted].max_election_id
            = td.max_election_id
  BY <1>6
<1> QED
  BY <1>5, <1>7, <1>8, <1>9

\* Whatever a server of the supported versions replies.
LEMMA UpdateFollows ==
    ASSUME NEW td, Following(td), NEW a \in Addresses, NEW r, Telling(r)
    PROVE  /\ Following(Update(td, a, r, 0))
           /\ Update(td, a, r, 0).max_election_id >= td.max_election_id
<1> DEFINE seen == [td EXCEPT !.servers[a] = ParseServer(r, 0)]
           last == td.max_election_id
<1>1. td \in Descriptions /\ td.servers \in [Addresses -> Servers] /\ last \in Nat
      /\ td.type \in ReplicaSetTypes /\ r \in Replies /\ r.set_name \in SetNames \cup {NoName}
      /\ r.all_hosts \in SUBSET Addresses
  BY FieldsTyped DEF Following, Telling, Replies
<1>2. ParseServer(r, 0) \in Servers /\ ParseServer(r, 0).type = r.type
  BY <1>1 DEF ParseServer, Replies, Servers
<1>3. /\ seen \in Descriptions /\ seen.servers[a] = ParseServer(r, 0)
      /\ seen.servers \in [Addresses -> Servers]
      /\ \A b \in Addresses \ {a} : seen.servers[b] = td.servers[b]
      /\ seen.max_election_id = last /\ seen.type = td.type
  BY <1>1, <1>2 DEF Descriptions
<1>4. \A b \in Primaries(seen.servers) \ {a} : seen.servers[b].election_id = last
  BY <1>3 DEF Following, Leads, Primaries
<1> HIDE DEF seen
<1>5. last >= last
  BY <1>1
<1>6. CASE Ignores(td, a, r, 0)
  BY <1>5, <1>6 DEF Update
<1>7. CASE ~Ignores(td, a, r, 0)
  <2>1. Update(td, a, r, 0) = IF td.type = "ReplicaSetNoPrimary"
                              THEN UpdateReplicaSetNoPrimary(seen, a, r)
                              ELSE UpdateReplicaSetWithPrimary(seen, a, r)
    BY <1>1, <1>7 DEF Update, Transition, ReplicaSetTypes, seen
  <2>2. CASE r.type = "RSPrimary"
    <3>1. Update(td, a, r, 0) = UpdateFromPrimary(seen, a, r)
      BY <2>1, <2>2 DEF UpdateReplicaSetNoPrimary, UpdateReplicaSetWithPrimary
    <3> QED
      BY <1>3, <1>4, <2>2, <3>1, PrimaryIsFollowed
  <2>3. CASE r.type # "RSPrimary"
    <3>1. Leads(seen.servers, last)
      BY <1>2, <1>3, <1>4, <2>3 DEF Leads, Primaries
    <3>2. Leads(seen.servers, seen.max_election_id)
      BY <1>3, <3>1
    <3>3. CASE td.type = "ReplicaSetNoPrimary"
      <4>1. Update(td, a, r, 0) = UpdateReplicaSetNoPrimary(seen, a, r)
        BY <2>1, <3>3
      <4>2. /\ Following(UpdateReplicaSetNoPrimary(seen, a, r))
            /\ UpdateReplicaSetNoPrimary(seen, a, r).max_election_id = seen.max_election_id
        BY <1>1, <1>3, <2>3, <3>2, NoPrimaryFollows DEF Telling
      <4> QED
        BY <1>3, <1>5, <4>1, <4>2
    <3>4. CASE td.type = "ReplicaSetWithPrimary"
      <4>1. Update(td, a, r, 0) = UpdateReplicaSetWithPrimary(seen, a, r)
        BY <2>1, <3>4
      <4>2. /\ Following(UpdateReplicaSetWithPrimary(seen, a, r))
            /\ UpdateReplicaSetWithPrimary(seen, a, r).max_election_id = seen.max_election_id
        BY <1>1, <1>3, <2>3, <3>2, WithPrimaryFollows DEF Telling
      <4> QED
        BY <1>3, <1>5, <4>1, <4>2
    <3> QED
      BY <1>1, <3>3, <3>4 DEF ReplicaSetTypes
  <2> QED
    BY <2>2, <2>3
<1> QED
  BY <1>6, <1>7

-----------------------------------------------------------------------------
(* The servers, and what is on its way from them.                          *)

ServersTyped ==
    /\ term \in Nat
    /\ configs \in Seq(SUBSET Addresses) /\ configs # << >>
    /\ role \in [Addresses -> {"primary", "secondary"}]
    /\ won \in [Addresses -> Nat]
    /\ config \in [Addresses -> DOMAIN configs]
    /\ version \in [Addresses -> Versions]

OnTheWay ==
    /\ answer \in [Addresses -> {NoAnswer} \cup {r \in Replies : Telling(r)}]
    /\ refusal \in [Addresses -> Versions]

FollowsInv == ServersTyped /\ OnTheWay /\ Following(description)

LEMMA SomeConfiguration ==
    ASSUME ServersTyped
    PROVE  /\ Current \in Nat \ {0} /\ DOMAIN configs = 1..Current
           /\ \A i \in DOMAIN configs : configs[i] \in SUBSET Addresses
           /\ Members \in SUBSET Addresses
<1>1. Current \in Nat /\ DOMAIN configs = 1..Current /\ Current # 0
  BY EmptySeq, LenProperties DEF ServersTyped, Current
<1>2. \A i \in DOMAIN configs : configs[i] \in SUBSET Addresses
  BY ElementOfSeq, <1>1 DEF ServersTyped, Current
<1> QED
  BY <1>1, <1>2 DEF Members

LEMMA NoHelloTells ==
    /\ Telling(NoHello) /\ NoHello.type = "Unknown"
    /\ \A v \in Versions : Telling([NoHello EXCEPT !.topology_version = v])
  BY DEF Telling, NoHello, Replies, ServerTypes, Versions, NoVersion

LEMMA HelloTells ==
    ASSUME ServersTyped, NEW a \in Addresses
    PROVE  Telling(Hello(a))
<1>1. /\ config[a] \in DOMAIN configs /\ config[a] \in Nat
      /\ configs[config[a]] \in SUBSET Addresses
  BY SomeConfiguration DEF ServersTyped
<1>2. won[a] \in Nat /\ version[a] \in Versions
  BY DEF ServersTyped
<1>3. CASE a \notin configs[config[a]]
  BY <1>2, <1>3 DEF Hello, Telling, NoHello, Replies, ServerTypes, Versions, NoVersion
<1>4. CASE a \in configs[config[a]]
  BY <1>1, <1>2, <1>4, SetIsNamed DEF Hello, Telling, Replies, ServerTypes
<1> QED
  BY <1>3, <1>4

LEMMA FollowsInit == ASSUME Init PROVE FollowsInv
<1>1. ServersTyped
  BY SetIsNamed, EmptySeq DEF Init, ServersTyped, Versions
<1>2. OnTheWay
  BY DEF Init, OnTheWay, Versions, NoVersion
<1>3. Following(description)
  BY SetIsNamed, SpecialServers
  DEF Init, NewDescription, Following, Leads, Primaries, Descriptions, ReplicaSetTypes,
      TopologyTypes
<1> QED
  BY <1>1, <1>2, <1>3 DEF FollowsInv

\* Nothing the servers do changes what the client knows.
LEMMA ServersKeep ==
    ASSUME FollowsInv, NEW a \in Addresses,
           Elect(a) \/ StepDown(a) \/ Reconfigure(a) \/ Learn(a) \/ Restart(a)
    PROVE  FollowsInv' /\ UNCHANGED description
<1> USE DEF FollowsInv
<1>1. UNCHANGED clientVars
  BY DEF Elect, StepDown, Reconfigure, Learn, Restart
<1>2. OnTheWay' /\ UNCHANGED description /\ Following(description)'
  BY <1>1 DEF clientVars, OnTheWay
<1>3. version' \in [Addresses -> Versions]
  <2>1. version \in [Addresses -> Versions]
    BY DEF ServersTyped
  <2>2. CASE Changes(a)
    <3>1. [version[a] EXCEPT !.counter = @ + 1] \in Versions
      BY <2>1 DEF Versions
    <3>2. version' = [version EXCEPT ![a] = [version[a] EXCEPT !.counter = @ + 1]]
      BY <2>1, <2>2 DEF Changes
    <3> QED
      BY <2>1, <3>1, <3>2
  <2>3. CASE Restart(a)
    <3>1. [process |-> version[a].process + 1, counter |-> 1] \in Versions
      BY <2>1 DEF Versions
    <3> QED
      BY <2>1, <2>3, <3>1 DEF Restart
  <2> QED
    BY <2>2, <2>3 DEF Elect, StepDown, Reconfigure, Learn
<1>4. ServersTyped'
  <2>1. CASE Elect(a)
    BY <1>3, <2>1 DEF Elect, ServersTyped
  <2>2. CASE StepDown(a)
    BY <1>3, <2>2 DEF StepDown, ServersTyped
  <2>3. CASE Reconfigure(a)
    <3>1. PICK x \in Addresses \ {a, Core} :
             configs' = Append(configs, IF x \in Members THEN Members \ {x} ELSE Members \cup {x})
      BY <2>3 DEF Reconfigure
    <3> DEFINE members == IF x \in Members THEN Members \ {x} ELSE Members \cup {x}
    <3>2. members \in SUBSET Addresses
      BY SomeConfiguration
    <3> HIDE DEF members
    <3>3. configs' = Append(configs, members)
      BY <3>1 DEF members
    <3>4. /\ configs' \in Seq(SUBSET Addresses) /\ configs' # << >>
          /\ DOMAIN configs' = 1..(Current + 1)
      BY <3>2, <3>3, AppendProperties, EmptySeq, SomeConfiguration DEF ServersTyped, Current
    <3>5. config' \in [Addresses -> DOMAIN configs']
      BY <2>3, <3>4, SomeConfiguration DEF Reconfigure, ServersTyped
    <3> QED
      BY <1>3, <2>3, <3>4, <3>5 DEF Reconfigure, ServersTyped
  <2>4. CASE Learn(a)
    BY <1>3, <2>4, SomeConfiguration DEF Learn, ServersTyped
  <2>5. CASE Restart(a)
    BY <1>3, <2>5 DEF Restart, ServersTyped
  <2> QED
    BY <2>1, <2>2, <2>3, <2>4, <2>5
<1> QED
  BY <1>2, <1>4

\* What a server says is as a server of the supported versions tells it.
LEMMA SayingKeeps ==
    ASSUME FollowsInv, NEW a \in Addresses, Answer(a) \/ Refuse(a)
    PROVE  FollowsInv' /\ UNCHANGED description
<1>1. ServersTyped' /\ UNCHANGED description /\ Following(description)'
  BY DEF FollowsInv, ServersTyped, Answer, Refuse, serverVars
<1>2. OnTheWay'
  <2>1. CASE Answer(a)
    <3>1. Hello(a) \in {r \in Replies : Telling(r)}
      BY HelloTells DEF FollowsInv, Telling
    <3> QED
      BY <2>1, <3>1 DEF FollowsInv, OnTheWay, Answer
  <2>2. CASE Refuse(a)
    BY <2>2 DEF FollowsInv, OnTheWay, ServersTyped, Refuse
  <2> QED
    BY <2>1, <2>2
<1> QED
  BY <1>1, <1>2 DEF FollowsInv

\* However late it is processed.
LEMMA ProcessingFollows ==
    ASSUME FollowsInv, NEW a \in Addresses,
           ProcessCheck(a) \/ ProcessFailure(a) \/ ProcessRefusal(a)
    PROVE  FollowsInv' /\ description'.max_election_id >= description.max_election_id
<1>1. ServersTyped'
  BY DEF FollowsInv, ServersTyped, ProcessCheck, ProcessFailure, ProcessRefusal, serverVars
<1>2. OnTheWay'
  BY DEF FollowsInv, OnTheWay, ProcessCheck, ProcessFailure, ProcessRefusal, NoVersion, Versions
<1>3. description' = description \/ \E r : Telling(r) /\ Processes(a, r)
  <2>1. CASE ProcessCheck(a)
    <3>1. Telling(answer[a])
      BY <2>1 DEF ProcessCheck, FollowsInv, OnTheWay
    <3> QED
      BY <2>1, <3>1 DEF ProcessCheck
  <2>2. CASE ProcessFailure(a)
    BY <2>2, NoHelloTells DEF ProcessFailure
  <2>3. CASE ProcessRefusal(a)
    <3>1. Telling([NoHello EXCEPT !.topology_version = refusal[a]])
      BY NoHelloTells DEF FollowsInv, OnTheWay
    <3> QED
      BY <2>3, <3>1 DEF ProcessRefusal
  <2> QED
    BY <2>1, <2>2, <2>3
<1>4. /\ Following(description)'
      /\ description'.max_election_id >= description.max_election_id
  <2>1. CASE description' = description
    BY <2>1 DEF FollowsInv, Following, Descriptions
  <2>2. CASE \E r : Telling(r) /\ Processes(a, r)
    <3>1. PICK r : Telling(r) /\ description' = Update(description, a, r, 0)
      BY <2>2 DEF Processes
    <3>2. /\ Following(Update(description, a, r, 0))
          /\ Update(description, a, r, 0).max_election_id >= description.max_election_id
      BY <3>1, UpdateFollows DEF FollowsInv
    <3> QED
      BY <3>1, <3>2
  <2> QED
    BY <1>3, <2>1, <2>2
<1> QED
  BY <1>1, <1>2, <1>4 DEF FollowsInv

LEMMA FollowsStep ==
    ASSUME FollowsInv, Next
    PROVE  FollowsInv' /\ FollowsTheLast
<1>1. PICK a \in Addresses :
         \/ Elect(a) \/ StepDown(a) \/ Reconfigure(a) \/ Learn(a) \/ Restart(a)
         \/ Answer(a) \/ Refuse(a)
         \/ ProcessCheck(a) \/ ProcessFailure(a) \/ ProcessRefusal(a)
  BY DEF Next
<1>2. FollowsInv' /\ (\/ UNCHANGED description
                     \/ description'.max_election_id >= description.max_election_id)
  BY <1>1, ServersKeep, SayingKeeps, ProcessingFollows
<1>3. description'.max_election_id >= description.max_election_id
  <2>1. description.max_election_id \in Nat
    BY DEF FollowsInv, Following, Descriptions
  <2> QED
    BY <1>2, <2>1
<1> QED
  BY <1>2, <1>3 DEF FollowsTheLast, FollowsInv, Following, Leads

\* A client that has followed a primary never follows an older one again,
\* however many servers, elections and configurations there are and however the
\* answers are delayed, repeated or lost: update keeps in the topology only the
\* primary of the last election it has heard of.
THEOREM NeverBackToAnOlder == Spec => NeverAnOlderPrimary
<1>1. Init => FollowsInv
  BY FollowsInit
<1>2. FollowsInv /\ [Next]_vars => FollowsInv'
  <2>1. ASSUME FollowsInv, UNCHANGED vars
        PROVE  FollowsInv'
    BY <2>1 DEF FollowsInv, ServersTyped, OnTheWay, vars, clientVars, serverVars
  <2> QED
    BY <2>1, FollowsStep
<1>3. FollowsInv /\ [Next]_vars => [FollowsTheLast]_vars
  BY FollowsStep
<1> QED
  BY <1>1, <1>2, <1>3, PTL DEF Spec, NeverAnOlderPrimary
=============================================================================
