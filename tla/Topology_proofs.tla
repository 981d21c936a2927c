--------------------------- MODULE Topology_proofs ---------------------------
(***************************************************************************)
(* What the manager keeps between its tables, whatever monitors, errors,   *)
(* maintenance, rescans and close do while others wait.                    *)
(*                                                                         *)
(* The inductive invariant IInv has two halves.  Shape holds always: who   *)
(* owns the lock, what a task that waits brings with it, which pools are   *)
(* closed.  Match, Generations and Monitored hold while the manager is     *)
(* open and has not lost its lock; they say of a sync under way what it    *)
(* has left to do, so that nothing is left when nobody syncs.              *)
(*                                                                         *)
(* Every step is first sorted by what it does to entries, tasks and lock   *)
(* (EntriesEvolve, KindOfStep); then there is one section for each part of *)
(* the invariant.                                                          *)
(***************************************************************************)
EXTENDS Topology, FiniteSetTheorems, SequenceTheorems, TLAPS

-----------------------------------------------------------------------------
(* The inductive invariant.                                                *)

Locking == {"queued", "locked", "syncing", "syncing pool", "finishing"}
Owning == Locking \ {"queued"}
Syncs == {"syncing", "syncing pool"}

\* Where each kind of task can be.
PCs(p) ==
    CASE p \in Monitors -> Locking \cup {"idle", "spawned", "looping", "sleeping", "checking",
                                         "failed", "done"}
      [] p \in Maintainers -> Locking \cup {"idle", "reported", "caught"}
      [] p \in Handlers -> Locking \cup {"idle", "using", "failed"}
      [] p = Srv -> Locking \cup {"sleeping", "done"}
      [] p = Closer -> {"idle", "stopping", "awaiting monitor", "awaiting polling", "removing",
                        "removing pool", "done", "failed"}

Labels == UNION {PCs(p) : p \in Processes}

Work == [address : Addresses, reply : Heard, generation : Nat, clears : BOOLEAN]
AnyWork == Work \cup (SUBSET Addresses) \cup {NoWork}
Entry ==
    [address : Addresses, pool : {"paused", "ready", "closed"}, generation : Nat,
     requested : BOOLEAN, check : Monitors \cup {Nobody},
     task : {"none", "scheduled", "connecting", "reporting"}, eclipsed : BOOLEAN]
MaybeEntry == Opened \cup {NoEntry}

ManagerTyped ==
    /\ state \in {"open", "closed_permanently"}
    /\ description \in Descriptions
    /\ entries \in Seq(Entry) /\ Len(entries) <= LastEntry
    /\ servers \in [Addresses -> MaybeEntry]

TasksTyped ==
    /\ lock \in Seq(Processes \cup {Nobody})
    /\ pc \in [Processes -> Labels] /\ \A p \in Processes : pc[p] \in PCs(p)
    /\ held \in [Processes -> MaybeEntry]
    /\ work \in [Processes -> AnyWork]
    /\ cancelled \subseteq Monitors
    /\ sync \in [removing : SUBSET Addresses, adding : SUBSET Addresses,
                 watching : SUBSET Addresses, pool : MaybeEntry]
    /\ closing \in [monitors : SUBSET Addresses, pools : SUBSET Addresses, entry : MaybeEntry]
    /\ failures \in 0 .. MaxFailures /\ rescans \in 0 .. MaxRescans

\* No two tasks are between points where the code yields.
OneRuns == \A p, q \in Processes : pc[p] \in Running /\ pc[q] \in Running => p = q

\* Who is at a label under the lock owns it, who waits is in the queue, and nobody
\* else is.  Only the head can be lost.
LockIsHeld ==
    /\ \A p \in Processes : pc[p] \in Locking => \E i \in 1 .. Len(lock) : lock[i] = p
    /\ \A p \in Processes : pc[p] \in Owning => Len(lock) > 0 /\ lock[1] = p
    /\ \A i \in 1 .. Len(lock) : lock[i] \in Processes => pc[lock[i]] \in Locking
    /\ \A i \in 2 .. Len(lock) : lock[i] \in Processes /\ pc[lock[i]] = "queued"
    /\ \A i, j \in 1 .. Len(lock) : lock[i] = lock[j] => i = j

\* What a task that waits for the lock, or owns it, is going to do.
Reports == Processes \ {Srv, Closer}
CarriesItsOwn(p) ==
    /\ pc[p] = "using" => work[p] \in Work
    /\ pc[p] = "checking" => held[p] \in Opened
    /\ pc[p] \in Locking =>
          /\ work[p] \in Work /\ held[p] \in Opened
          /\ AddressOf(held[p]) = work[p].address
          /\ p \in Monitors \/ work[p].generation <= entries[held[p]].generation
Carries ==
    /\ \A p \in Reports : CarriesItsOwn(p)
    /\ pc[Srv] \in Locking => work[Srv] \in SUBSET Addresses

\* The entries of the manager are those of their addresses, and all others are closed.
Served ==
    /\ \A a \in Addresses : servers[a] # NoEntry => AddressOf(servers[a]) = a
    /\ \A e \in Opened : servers[AddressOf(e)] # e => entries[e].pool = "closed"

\* An entry that is yet to come has no task; a maintenance task is in the manager
\* exactly when it reports.
Unopened ==
    /\ \A e \in Entries \ Opened : pc[Monitor(e)] = "idle" /\ pc[Maintainer(e)] = "idle"
    /\ \A e \in Opened : pc[Maintainer(e)] # "idle" <=> entries[e].task = "reporting"

NothingToSync == [removing |-> {}, adding |-> {}, watching |-> {}, pool |-> NoEntry]

\* Who syncs waits for a pool that is closed, and leaves nothing behind.
SyncShape ==
    /\ \A p \in Processes : pc[p] = "syncing" => sync.pool = NoEntry
    /\ \A p \in Processes : pc[p] = "syncing pool" =>
          /\ sync.pool # NoEntry /\ entries[sync.pool].pool = "closed"
          /\ servers[AddressOf(sync.pool)] \in {sync.pool, NoEntry}
    /\ (\A p \in Processes : pc[p] \notin Syncs) => sync = NothingToSync

\* A closed manager describes no server.  What close has left to stop is never what
\* a sync that goes on beside it adds.
CloseShape ==
    /\ state = "open" <=> pc[Closer] = "idle"
    /\ state # "open" => /\ \A a \in Addresses : ~Known(a)
                         /\ description.type = "Unknown"
                         /\ sync.adding \cap closing.pools = {}
    /\ pc[Closer] = "removing pool" =>
          /\ closing.entry # NoEntry /\ entries[closing.entry].pool = "closed"
          /\ AddressOf(closing.entry) \notin sync.adding
          /\ servers[AddressOf(closing.entry)] \in {closing.entry, NoEntry}
    /\ pc[Closer] = "awaiting monitor" => closing.entry # NoEntry

Lost == \E i \in 1 .. Len(lock) : lock[i] = Nobody
Normal == state = "open" /\ ~Lost

\* The servers are those described, but for what a sync has left to do.
Match ==
    /\ \A a \in sync.adding : Known(a) /\ servers[a] = NoEntry /\ a \in sync.watching
    /\ \A a \in sync.removing : ~Known(a)
    /\ sync.pool # NoEntry => ~Known(AddressOf(sync.pool))
    /\ \A a \in Addresses : Known(a) => servers[a] # NoEntry \/ a \in sync.adding
    /\ \A a \in Addresses : servers[a] # NoEntry =>
          \/ Known(a) \/ a \in sync.removing
          \/ sync.pool # NoEntry /\ a = AddressOf(sync.pool)

\* The generation of a pool is that of the description, if its address had no other.
Sole(a) == \A e, f \in Opened : AddressOf(e) = a /\ AddressOf(f) = a => e = f
Generations ==
    \A a \in Addresses :
       /\ Known(a) /\ servers[a] # NoEntry /\ Sole(a) =>
             description.servers[a].generation = entries[servers[a]].generation
       /\ a \in sync.adding /\ (\A e \in Opened : AddressOf(e) # a) =>
             description.servers[a].generation = 0

\* A server has a monitor, or is going to be given one.
Monitored ==
    /\ \A a \in Addresses : servers[a] # NoEntry =>
          /\ pc[Monitor(servers[a])] \notin Ended
          /\ pc[Monitor(servers[a])] = "idle" => a \in sync.watching
    /\ \A e \in Opened : pc[Maintainer(e)] = "caught" => servers[AddressOf(e)] # e

Shape == ManagerTyped /\ TasksTyped /\ OneRuns /\ LockIsHeld /\ Carries /\ Served /\ Unopened
          /\ SyncShape /\ CloseShape

IInv == Shape /\ (Normal => Match /\ Generations /\ Monitored)

-----------------------------------------------------------------------------
(* Transitions of a description: what they make of the generations.        *)

LEMMA SpecialServers ==
    /\ Unchecked \in Servers /\ Unchecked.type = "Unknown" /\ Unchecked.generation = 0
    /\ Absent \in Servers /\ Absent.type = "Absent"
    /\ \A s \in Servers : /\ UnknownFrom(s) \in Servers /\ UnknownFrom(s).type = "Unknown"
                          /\ UnknownFrom(s).generation = s.generation
  BY DEF Unchecked, Absent, UnknownFrom, Servers, ServerTypes, Versions, NoVersion

\* A server that is left has the generation it had, one that is new has none.
Keeps(old, new) ==
    /\ new \in [Addresses -> Servers]
    /\ \A b \in Addresses :
          new[b].type # "Absent" =>
             new[b].generation = IF old[b].type = "Absent" THEN 0 ELSE old[b].generation

Leaves(old, new) == \A b \in Addresses : old[b].type # "Absent" => new[b].type # "Absent"

\* First some servers are added, then others removed; never one after the other.
LEMMA KeepsThenKeeps ==
    ASSUME NEW old, NEW mid, NEW new, Keeps(old, mid), Keeps(mid, new),
           Leaves(old, mid) \/ Leaves(new, mid)
    PROVE  Keeps(old, new)
  BY DEF Keeps, Leaves

LEMMA HelpersKeep ==
    ASSUME NEW table \in [Addresses -> Servers], NEW a, NEW hosts, NEW p
    PROVE  /\ Keeps(table, table) /\ Leaves(table, table)
           /\ Keeps(table, Remove(table, a)) /\ Leaves(Remove(table, a), table)
           /\ Keeps(table, KeepHosts(table, hosts))
           /\ Leaves(KeepHosts(table, hosts), table)
           /\ Keeps(table, AddHosts(table, hosts))
           /\ Leaves(table, AddHosts(table, hosts))
           /\ Keeps(table, DemoteOthers(table, a))
           /\ Leaves(table, DemoteOthers(table, a))
           /\ Keeps(table, PossiblePrimary(table, p))
           /\ Leaves(table, PossiblePrimary(table, p))
           /\ Leaves(PossiblePrimary(table, p), table)
           /\ a \in Present(table) => Keeps(table, [table EXCEPT ![a] = UnknownFrom(@)])
<1>1. Keeps(table, table) /\ Leaves(table, table)
  BY DEF Keeps, Leaves
<1>2. Keeps(table, Remove(table, a)) /\ Leaves(Remove(table, a), table)
  BY SpecialServers DEF Keeps, Leaves, Remove
<1>3. Keeps(table, KeepHosts(table, hosts)) /\ Leaves(KeepHosts(table, hosts), table)
  BY SpecialServers DEF Keeps, Leaves, KeepHosts
<1>4. Keeps(table, AddHosts(table, hosts)) /\ Leaves(table, AddHosts(table, hosts))
  BY SpecialServers DEF Keeps, Leaves, AddHosts, Present
<1>5. Keeps(table, DemoteOthers(table, a)) /\ Leaves(table, DemoteOthers(table, a))
  BY SpecialServers DEF Keeps, Leaves, DemoteOthers, Primaries
<1>6. /\ Keeps(table, PossiblePrimary(table, p))
      /\ Leaves(table, PossiblePrimary(table, p))
      /\ Leaves(PossiblePrimary(table, p), table)
  <2>1. \A s \in Servers : LET t == [s EXCEPT !.type = "PossiblePrimary"] IN
           t \in Servers /\ t.type = "PossiblePrimary" /\ t.generation = s.generation
    BY DEF Servers
  <2> QED
    BY <2>1 DEF Keeps, Leaves, PossiblePrimary
<1>7. a \in Present(table) => Keeps(table, [table EXCEPT ![a] = UnknownFrom(@)])
  BY SpecialServers DEF Keeps, Present
<1> QED
  BY <1>1, <1>2, <1>3, <1>4, <1>5, <1>6, <1>7

\* A transition of td ends in e.
Evolves(td, e) == e \in Descriptions /\ Keeps(td.servers, e.servers)

LEMMA EvolvesSelf == ASSUME NEW td \in Descriptions PROVE Evolves(td, td)
  BY HelpersKeep DEF Evolves, Descriptions

LEMMA EvolvesServers ==
    ASSUME NEW td \in Descriptions, NEW table, Keeps(td.servers, table),
           NEW type \in TopologyTypes
    PROVE  /\ Evolves(td, [td EXCEPT !.servers = table])
           /\ Evolves(td, [td EXCEPT !.servers = table, !.type = type])
           /\ Evolves(td, [td EXCEPT !.type = type, !.servers = table])
  BY DEF Evolves, Keeps, Descriptions

LEMMA HasPrimaryTyped == \A table : HasPrimary(table) \in TopologyTypes
  BY DEF HasPrimary, TopologyTypes

LEMMA PrimaryKeeps ==
    ASSUME NEW td \in Descriptions, NEW a \in Present(td.servers), NEW r \in Replies
    PROVE  Evolves(td, UpdateFromPrimary(td, a, r))
<1> DEFINE named == [td EXCEPT !.set_name = IF @ = NoName THEN r.set_name ELSE @]
           settle(d, table) == [d EXCEPT !.servers = table, !.type = HasPrimary(table)]
<1>1. named \in Descriptions /\ named.servers = td.servers
  BY DEF Descriptions, Replies
<1>2. ASSUME NEW d \in Descriptions, d.servers = td.servers, NEW table,
             Keeps(td.servers, table)
      PROVE  Evolves(td, settle(d, table))
  BY <1>2, HasPrimaryTyped DEF Evolves, Keeps, Descriptions
<1>3. td.servers \in [Addresses -> Servers]
  BY DEF Descriptions
<1>4. CASE named.set_name # r.set_name
  BY <1>1, <1>2, <1>3, <1>4, HelpersKeep DEF UpdateFromPrimary
<1>5. CASE named.set_name = r.set_name /\ StalePrimary(td, r)
  BY <1>1, <1>2, <1>3, <1>5, HelpersKeep DEF UpdateFromPrimary
<1>6. CASE named.set_name = r.set_name /\ ~StalePrimary(td, r)
  <2> DEFINE rest == DemoteOthers(td.servers, a)
             more == AddHosts(rest, r.all_hosts)
             table == KeepHosts(more, r.all_hosts)
             d == Witnessed(named, r)
  <2>1. Keeps(td.servers, rest) /\ Leaves(td.servers, rest)
    BY <1>3, HelpersKeep
  <2>2. Keeps(rest, more) /\ Leaves(rest, more)
    BY <2>1, HelpersKeep DEF Keeps
  <2>3. Keeps(more, table)
    BY <2>2, HelpersKeep DEF Keeps
  <2>4. Keeps(td.servers, table)
    <3>1. Keeps(td.servers, more) /\ Leaves(td.servers, more)
      BY <2>1, <2>2, KeepsThenKeeps DEF Leaves
    <3> QED
      BY <2>3, <3>1, KeepsThenKeeps
  <2>5. d \in Descriptions /\ d.servers = td.servers
    BY <1>1 DEF Witnessed, Descriptions, Replies
  <2> QED
    BY <1>2, <1>6, <2>4, <2>5 DEF UpdateFromPrimary
<1> QED
  BY <1>4, <1>5, <1>6

LEMMA WithoutPrimaryKeeps ==
    ASSUME NEW td \in Descriptions, NEW a, NEW r \in Replies
    PROVE  Evolves(td, UpdateWithoutPrimary(td, a, r))
<1> DEFINE more == AddHosts(td.servers, r.all_hosts)
           known == PossiblePrimary(more, r.primary)
<1>1. td.servers \in [Addresses -> Servers]
  BY DEF Descriptions
<1>2. Keeps(td.servers, more) /\ Leaves(td.servers, more)
  BY <1>1, HelpersKeep
<1>3. Keeps(more, known) /\ Leaves(more, known) /\ Leaves(known, more)
  BY <1>2, HelpersKeep DEF Keeps
<1>4. Keeps(td.servers, known) /\ Leaves(td.servers, known)
  BY <1>2, <1>3, KeepsThenKeeps DEF Leaves
<1>5. Keeps(known, Remove(known, a))
  BY <1>4, HelpersKeep DEF Keeps
<1>6. Keeps(td.servers, Remove(known, a))
  BY <1>4, <1>5, KeepsThenKeeps
<1>7. ASSUME NEW table, Keeps(td.servers, table)
      PROVE  Evolves(td, [td EXCEPT !.set_name = r.set_name, !.servers = table])
  BY <1>7 DEF Evolves, Keeps, Descriptions, Replies
<1>8. Evolves(td, [td EXCEPT !.servers = Remove(td.servers, a)])
  <2>1. Keeps(td.servers, Remove(td.servers, a))
    BY <1>1, HelpersKeep
  <2>2. "Unknown" \in TopologyTypes
    BY DEF TopologyTypes
  <2> QED
    BY <2>1, <2>2, EvolvesServers
<1> QED
  <2>1. CASE td.set_name # NoName /\ td.set_name # r.set_name
    BY <1>8, <2>1 DEF UpdateWithoutPrimary
  <2>2. CASE ~(td.set_name # NoName /\ td.set_name # r.set_name)
    <3> DEFINE table == IF NamesAnother(r, a) THEN Remove(known, a) ELSE known
    <3>1. Keeps(td.servers, table)
      BY <1>4, <1>6
    <3>2. Evolves(td, [td EXCEPT !.set_name = r.set_name, !.servers = table])
      BY <1>7, <3>1
    <3> QED
      BY <2>2, <3>2 DEF UpdateWithoutPrimary
  <2> QED
    BY <2>1, <2>2

LEMMA MemberKeeps ==
    ASSUME NEW td \in Descriptions, NEW a, NEW r \in Replies
    PROVE  Evolves(td, UpdateWithPrimaryFromMember(td, a, r))
<1> DEFINE known == IF td.set_name # r.set_name \/ NamesAnother(r, a)
                    THEN Remove(td.servers, a) ELSE td.servers
           settled == PossiblePrimary(known, r.primary)
<1>1. Keeps(td.servers, known)
  BY HelpersKeep DEF Descriptions
<1>2. Keeps(known, settled) /\ Leaves(settled, known)
  BY <1>1, HelpersKeep DEF Keeps
<1>3. Keeps(td.servers, settled)
  BY <1>1, <1>2, KeepsThenKeeps
<1> QED
  BY <1>1, <1>3, EvolvesServers, HasPrimaryTyped DEF UpdateWithPrimaryFromMember

\* A description in which what was known of a has been replaced.
Seen(td, a, r, g) == [td EXCEPT !.servers[a] = ParseServer(r, g)]

LEMMA SeenTyped ==
    ASSUME NEW td \in Descriptions, NEW a \in Addresses, NEW r \in Replies, NEW g \in Nat
    PROVE  LET seen == Seen(td, a, r, g) IN
           /\ seen \in Descriptions /\ seen.type = td.type
           /\ seen.servers[a].type # "Absent" /\ seen.servers[a].generation = g
           /\ \A b \in Addresses \ {a} : seen.servers[b] = td.servers[b]
<1>1. ParseServer(r, g) \in Servers /\ ParseServer(r, g).type = r.type
      /\ ParseServer(r, g).generation = g /\ r.type # "Absent"
  BY DEF ParseServer, Replies, Servers, ServerTypes
<1> QED
  BY <1>1 DEF Descriptions, Seen

LEMMA TransitionEvolves ==
    ASSUME NEW td \in Descriptions, NEW a \in Addresses, NEW r \in Replies, NEW g \in Nat
    PROVE  \/ Transition(td, a, r, g) = td
           \/ Evolves(Seen(td, a, r, g), Transition(td, a, r, g))
<1> DEFINE seen == Seen(td, a, r, g)
<1>1. seen \in Descriptions /\ seen.type = td.type /\ a \in Present(seen.servers)
  BY SeenTyped DEF Present
<1> HIDE DEF seen
<1>2. Evolves(seen, seen)
  BY <1>1, EvolvesSelf
<1>3. \A type \in TopologyTypes :
         Evolves(seen, [seen EXCEPT !.servers = Remove(seen.servers, a), !.type = type])
         /\ Evolves(seen, [seen EXCEPT !.servers = Remove(seen.servers, a)])
  BY <1>1, EvolvesServers, HelpersKeep DEF Descriptions
<1>4. ASSUME NEW type \in TopologyTypes
      PROVE  LET d == [seen EXCEPT !.type = type] IN
             /\ d \in Descriptions /\ d.servers = seen.servers
             /\ Evolves(seen, d)
             /\ \A e : Evolves(d, e) => Evolves(seen, e)
  BY <1>1, <1>2 DEF Evolves, Descriptions
<1>5. Evolves(seen, UpdateUnknown(seen, a, r))
  BY <1>1, <1>2, <1>3, <1>4, PrimaryKeeps, WithoutPrimaryKeeps DEF UpdateUnknown, TopologyTypes
<1>6. Evolves(seen, UpdateSingle(seen, a, r))
  <2>1. Keeps(seen.servers, [seen.servers EXCEPT ![a] = UnknownFrom(@)])
    BY <1>1, HelpersKeep DEF Descriptions
  <2>2. [seen EXCEPT !.servers[a] = UnknownFrom(@)]
           = [seen EXCEPT !.servers = [seen.servers EXCEPT ![a] = UnknownFrom(@)]]
    BY <1>1 DEF Descriptions
  <2> QED
    BY <1>1, <1>2, <2>1, <2>2, EvolvesServers DEF UpdateSingle, TopologyTypes
<1>7. Evolves(seen, UpdateSharded(seen, a, r))
  BY <1>1, <1>2, <1>3 DEF UpdateSharded, TopologyTypes
<1>8. Evolves(seen, UpdateReplicaSetNoPrimary(seen, a, r))
  BY <1>1, <1>2, <1>3, PrimaryKeeps, WithoutPrimaryKeeps
  DEF UpdateReplicaSetNoPrimary, TopologyTypes
<1>9. Evolves(seen, UpdateReplicaSetWithPrimary(seen, a, r))
  BY <1>1, <1>2, <1>3, <1>4, PrimaryKeeps, MemberKeeps, HasPrimaryTyped
     DEF UpdateReplicaSetWithPrimary
<1>10. td.type \in {"LoadBalanced", "Single", "Unknown", "Sharded", "ReplicaSetNoPrimary",
                    "ReplicaSetWithPrimary"}
  BY DEF Descriptions, TopologyTypes
<1> QED
  BY <1>2, <1>5, <1>6, <1>7, <1>8, <1>9, <1>10 DEF Transition, Seen, seen

\* What update says of generations: a server has the one it had, that of the reply,
\* or none if it is new.
LEMMA UpdateKeeps ==
    ASSUME NEW td \in Descriptions, NEW a \in Addresses, NEW r \in Replies, NEW g \in Nat
    PROVE  LET e == Update(td, a, r, g) IN
           /\ e \in Descriptions
           /\ \A b \in Addresses : e.servers[b].type # "Absent" =>
                 \/ td.servers[b].type # "Absent"
                    /\ e.servers[b].generation = td.servers[b].generation
                 \/ b = a /\ e.servers[b].generation = g
                 \/ td.servers[b].type = "Absent" /\ e.servers[b].generation = 0
<1> DEFINE e == Update(td, a, r, g)
           seen == Seen(td, a, r, g)
<1>1. CASE e = td
  BY <1>1
<1>2. CASE Evolves(seen, e)
  <2>1. /\ seen.servers[a].type # "Absent" /\ seen.servers[a].generation = g
        /\ \A b \in Addresses \ {a} : seen.servers[b] = td.servers[b]
    BY SeenTyped
  <2>2. \A b \in Addresses : e.servers[b].type # "Absent" =>
           e.servers[b].generation =
              IF seen.servers[b].type = "Absent" THEN 0 ELSE seen.servers[b].generation
    BY <1>2 DEF Evolves, Keeps
  <2>3. e \in Descriptions
    BY <1>2 DEF Evolves
  <2> HIDE DEF e, seen
  <2>4. ASSUME NEW b \in Addresses, e.servers[b].type # "Absent"
        PROVE  \/ td.servers[b].type # "Absent"
                  /\ e.servers[b].generation = td.servers[b].generation
               \/ b = a /\ e.servers[b].generation = g
               \/ td.servers[b].type = "Absent" /\ e.servers[b].generation = 0
    <3>1. CASE b = a
      BY <2>1, <2>2, <2>4, <3>1
    <3>2. CASE b # a
      BY <2>1, <2>2, <2>4, <3>2
    <3> QED
      BY <3>1, <3>2
  <2> QED
    BY <2>3, <2>4 DEF e
<1> QED
  BY <1>1, <1>2, TransitionEvolves DEF Update

LEMMA WithSrvHostsKeeps ==
    ASSUME NEW td \in Descriptions, NEW hosts \in SUBSET Addresses
    PROVE  Evolves(td, WithSrvHosts(td, hosts))
<1> DEFINE more == AddHosts(td.servers, hosts)
           table == KeepHosts(more, hosts)
<1>1. Keeps(td.servers, more) /\ Leaves(td.servers, more)
  BY HelpersKeep DEF Descriptions
<1>2. Keeps(more, table)
  BY <1>1, HelpersKeep DEF Keeps
<1>3. Keeps(td.servers, table)
  BY <1>1, <1>2, KeepsThenKeeps
<1>4. Evolves(td, [td EXCEPT !.seeds = hosts, !.servers = table])
  BY <1>3 DEF Evolves, Keeps, Descriptions
<1> QED
  BY <1>4, EvolvesSelf DEF WithSrvHosts

LEMMA WithGenerationTyped ==
    ASSUME NEW td \in Descriptions, NEW a \in Addresses, NEW g \in Nat
    PROVE  LET e == WithGeneration(td, a, g) IN
           /\ e \in Descriptions
           /\ \A b \in Addresses : e.servers[b].type = td.servers[b].type
           /\ \A b \in Addresses \ {a} : e.servers[b] = td.servers[b]
           /\ e.servers[a].generation = g
<1>1. /\ [td.servers[a] EXCEPT !.generation = g] \in Servers
      /\ [td.servers[a] EXCEPT !.generation = g].type = td.servers[a].type
      /\ [td.servers[a] EXCEPT !.generation = g].generation = g
  BY DEF Descriptions, Servers
<1>2. WithGeneration(td, a, g) =
         [td EXCEPT !.servers = [td.servers EXCEPT ![a] = [td.servers[a] EXCEPT !.generation = g]]]
  BY DEF WithGeneration, Descriptions
<1> QED
  BY <1>1, <1>2 DEF Descriptions

LEMMA ClosedTyped ==
    ASSUME NEW td \in Descriptions
    PROVE  LET e == ClosedDescription(td) IN
           /\ e \in Descriptions /\ e.type = "Unknown"
           /\ \A b \in Addresses : e.servers[b].type = "Absent"
  BY SpecialServers DEF ClosedDescription, Descriptions, TopologyTypes

-----------------------------------------------------------------------------
(* Tasks.                                                                  *)

LEMMA TaskFacts ==
    /\ \A e \in Entries : /\ Monitor(e) \in Processes /\ Monitor(e) \in Monitors
                          /\ Monitor(e) \notin Maintainers /\ Monitor(e) \notin Handlers
                          /\ Monitor(e) # Srv /\ Monitor(e) # Closer
                          /\ Maintainer(e) \in Processes /\ Maintainer(e) \in Maintainers
                          /\ Maintainer(e) \notin Monitors /\ Maintainer(e) \notin Handlers
                          /\ Maintainer(e) # Srv /\ Maintainer(e) # Closer
    /\ \A d, e \in Entries : /\ Monitor(d) = Monitor(e) => d = e
                             /\ Maintainer(d) = Maintainer(e) => d = e
                             /\ Monitor(d) # Maintainer(e)
    /\ \A h \in Handlers : /\ h \in Processes /\ h \notin Monitors /\ h \notin Maintainers
                           /\ h # Srv /\ h # Closer
    /\ Srv \in Processes /\ Srv \notin Monitors /\ Srv \notin Maintainers /\ Srv \notin Handlers
    /\ Closer \in Processes /\ Closer \notin Monitors /\ Closer \notin Maintainers
    /\ Closer \notin Handlers /\ Srv # Closer
    /\ Nobody \notin Processes /\ Nobody \notin Monitors
    /\ \A p \in Processes : \/ \E e \in Entries : p = Monitor(e)
                            \/ \E e \in Entries : p = Maintainer(e)
                            \/ p \in Handlers \/ p = Srv \/ p = Closer
<1>1. \A d, e \in Entries : /\ Monitor(d) = Monitor(e) => d = e
                            /\ Maintainer(d) = Maintainer(e) => d = e
                            /\ Monitor(d) # Maintainer(e)
  BY DEF Monitor, Maintainer
<1>2. \A e \in Entries : Monitor(e) \in Monitors /\ Maintainer(e) \in Maintainers
  BY DEF Monitors, Maintainers
<1>3. \A e \in Entries : Monitor(e) \notin Maintainers /\ Maintainer(e) \notin Monitors
  BY <1>1 DEF Monitors, Maintainers
<1>4. \A p \in Processes : \/ \E e \in Entries : p = Monitor(e)
                           \/ \E e \in Entries : p = Maintainer(e)
                           \/ p \in Handlers \/ p = Srv \/ p = Closer
  BY DEF Processes, Monitors, Maintainers
<1> QED
  BY <1>1, <1>2, <1>3, <1>4, TasksAreDistinct, Zenon DEF Processes

LEMMA AfterFacts ==
    /\ \A e \in Entries : /\ After(Monitor(e)) = "looping"
                          /\ After(Maintainer(e)) = "reported"
    /\ \A h \in Handlers : After(h) = "idle"
    /\ After(Srv) = "sleeping"
    /\ \A p \in Processes \ {Closer} : After(p) \notin Locking
  BY TaskFacts DEF After, Locking

LEMMA WhereTasksAre ==
    /\ \A e \in Entries :
          /\ PCs(Monitor(e)) = Locking \cup {"idle", "spawned", "looping", "sleeping",
                                             "checking", "failed", "done"}
          /\ PCs(Maintainer(e)) = Locking \cup {"idle", "reported", "caught"}
    /\ \A h \in Handlers : PCs(h) = Locking \cup {"idle", "using", "failed"}
    /\ PCs(Srv) = Locking \cup {"sleeping", "done"}
    /\ PCs(Closer) = {"idle", "stopping", "awaiting monitor", "awaiting polling", "removing",
                      "removing pool", "done", "failed"}
<1>1. \A e \in Entries :
          PCs(Monitor(e)) = Locking \cup {"idle", "spawned", "looping", "sleeping",
                                          "checking", "failed", "done"}
  BY TaskFacts DEF PCs
<1>2. \A e \in Entries : PCs(Maintainer(e)) = Locking \cup {"idle", "reported", "caught"}
  BY TaskFacts DEF PCs
<1>3. \A h \in Handlers : PCs(h) = Locking \cup {"idle", "using", "failed"}
  BY TaskFacts DEF PCs
<1>4. PCs(Srv) = Locking \cup {"sleeping", "done"}
  BY TaskFacts DEF PCs
<1>5. PCs(Closer) = {"idle", "stopping", "awaiting monitor", "awaiting polling", "removing",
                     "removing pool", "done", "failed"}
  BY TaskFacts DEF PCs
<1> QED
  BY <1>1, <1>2, <1>3, <1>4, <1>5

LEMMA LockingTasks ==
    /\ \A p \in Processes \ {Closer} : /\ Locking \subseteq PCs(p) /\ After(p) \in PCs(p)
                                       /\ p \notin Maintainers /\ p # Srv => "failed" \in PCs(p)
                                       /\ p \in Maintainers => "caught" \in PCs(p)
    /\ PCs(Closer) \cap Locking = {}
<1>1. PCs(Closer) \cap Locking = {}
  BY WhereTasksAre DEF Locking
<1>2. ASSUME NEW p \in Processes \ {Closer}
      PROVE  /\ Locking \subseteq PCs(p) /\ After(p) \in PCs(p)
             /\ p \notin Maintainers /\ p # Srv => "failed" \in PCs(p)
             /\ p \in Maintainers => "caught" \in PCs(p)
  <2>1. CASE \E e \in Entries : p = Monitor(e)
    <3>1. PICK e \in Entries : p = Monitor(e)
      BY <2>1
    <3>2. PCs(p) = Locking \cup {"idle", "spawned", "looping", "sleeping",
                                 "checking", "failed", "done"}
      BY <3>1, WhereTasksAre
    <3>3. After(p) = "looping"
      BY <3>1, AfterFacts
    <3>4. p \notin Maintainers
      BY <3>1, TaskFacts
    <3> QED
      BY <3>2, <3>3, <3>4
  <2>2. CASE \E e \in Entries : p = Maintainer(e)
    <3>1. PICK e \in Entries : p = Maintainer(e)
      BY <2>2
    <3>2. PCs(p) = Locking \cup {"idle", "reported", "caught"}
      BY <3>1, WhereTasksAre
    <3>3. After(p) = "reported"
      BY <3>1, AfterFacts
    <3>4. p \in Maintainers
      BY <3>1, TaskFacts
    <3> QED
      BY <3>2, <3>3, <3>4
  <2>3. CASE p \in Handlers
    <3>1. PCs(p) = Locking \cup {"idle", "using", "failed"} /\ After(p) = "idle"
      BY <2>3, WhereTasksAre, AfterFacts
    <3>2. p \notin Maintainers
      BY <2>3, TaskFacts
    <3> QED
      BY <3>1, <3>2
  <2>4. CASE p = Srv
    BY <2>4, TaskFacts, AfterFacts, WhereTasksAre
  <2> QED
    BY <2>1, <2>2, <2>3, <2>4, TaskFacts
<1> QED
  BY <1>1, <1>2

-----------------------------------------------------------------------------
(* Entries.                                                                *)

LEMMA OpenedEntries ==
    ASSUME ManagerTyped
    PROVE  /\ Opened = 1 .. Len(entries) /\ Len(entries) \in Nat
           /\ \A e \in Opened : e \in Entries /\ entries[e] \in Entry /\ e # NoEntry
           /\ NoEntry \notin Opened
           /\ \A a \in Addresses : servers[a] # NoEntry => servers[a] \in Opened
<1>1. Opened = 1 .. Len(entries) /\ Len(entries) \in Nat /\ entries \in [1 .. Len(entries) -> Entry]
  BY LenProperties DEF ManagerTyped, Opened
<1>2. Opened \subseteq Entries
  BY <1>1, BoundsAreNatural DEF Entries, ManagerTyped
<1> QED
  BY <1>1, <1>2, TasksAreDistinct DEF ManagerTyped, MaybeEntry

\* An entry may become another one.
Follows(s, t) ==
    /\ t \in Entry /\ t.address = s.address /\ t.generation >= s.generation
    /\ s.pool = "closed" => t.pool = "closed" /\ t.generation = s.generation

SameTask(s, t) == s.task = "reporting" <=> t.task = "reporting"

LEMMA EntryOperators ==
    ASSUME NEW s \in Entry
    PROVE  /\ Follows(s, s)
           /\ Follows(s, Schedule(s)) /\ SameTask(s, Schedule(s))
           /\ Schedule(s).generation = s.generation /\ Schedule(s).pool = s.pool
           /\ Follows(s, Ready(s)) /\ SameTask(s, Ready(s)) /\ Ready(s).generation = s.generation
           /\ Follows(s, Clear(s)) /\ SameTask(s, Clear(s))
           /\ Clear(s).pool = "closed" => s.pool = "closed"
           /\ \A failed \in BOOLEAN :
                 /\ Follows(s, EndTask(s, failed)) /\ EndTask(s, failed).task # "reporting"
                 /\ EndTask(s, failed).generation = s.generation
<1>1. \A t \in Entry : /\ Schedule(t) \in Entry /\ SameTask(t, Schedule(t))
                       /\ Schedule(t).generation = t.generation /\ Schedule(t).pool = t.pool
                       /\ Schedule(t).address = t.address
  BY DEF Schedule, Entry, SameTask
<1>2. Follows(s, s)
  BY DEF Follows, Entry
<1>3. Follows(s, Schedule(s))
  BY <1>1 DEF Follows, Entry
<1>4. Follows(s, Ready(s)) /\ SameTask(s, Ready(s)) /\ Ready(s).generation = s.generation
  <2> DEFINE t == [s EXCEPT !.pool = "ready"]
  <2>1. /\ t \in Entry /\ t.address = s.address /\ t.generation = s.generation /\ SameTask(s, t)
        /\ t.pool = "ready"
    BY DEF Entry, SameTask
  <2> HIDE DEF t
  <2>2. \/ /\ Follows(s, Schedule(t)) /\ SameTask(s, Schedule(t))
           /\ Schedule(t).generation = s.generation
        \/ s.pool # "paused"
    BY <1>1, <2>1 DEF Follows, Entry, SameTask
  <2> QED
    BY <1>2, <2>2 DEF Ready, SameTask, t
<1>5. /\ Follows(s, Clear(s)) /\ SameTask(s, Clear(s))
      /\ Clear(s).pool = "closed" => s.pool = "closed"
  <2> DEFINE t == [s EXCEPT !.pool = "paused", !.generation = @ + 1]
  <2>1. /\ t \in Entry /\ t.address = s.address /\ t.generation = s.generation + 1
        /\ SameTask(s, t) /\ t.pool = "paused"
    <3>1. s.generation \in Nat /\ s.generation + 1 \in Nat
      BY DEF Entry
    <3>2. t = [s EXCEPT !.pool = "paused", !.generation = s.generation + 1]
      BY DEF Entry
    <3> QED
      BY <3>1, <3>2 DEF Entry, SameTask
  <2> HIDE DEF t
  <2>2. \/ /\ Follows(s, Schedule(t)) /\ SameTask(s, Schedule(t)) /\ Schedule(t).pool = "paused"
        \/ s.pool = "closed"
    BY <1>1, <2>1 DEF Follows, Entry, SameTask
  <2> QED
    BY <1>2, <2>2 DEF Clear, SameTask, t
<1>6. ASSUME NEW failed \in BOOLEAN
      PROVE  /\ Follows(s, EndTask(s, failed)) /\ EndTask(s, failed).task # "reporting"
             /\ EndTask(s, failed).generation = s.generation
  <2>1. PICK task \in {"scheduled", "none"} :
           EndTask(s, failed) = [s EXCEPT !.task = task, !.eclipsed = FALSE]
    BY DEF EndTask
  <2> DEFINE t == [s EXCEPT !.task = task, !.eclipsed = FALSE]
  <2>2. t \in Entry
    BY DEF Entry
  <2>3. /\ t.address = s.address /\ t.generation = s.generation /\ t.pool = s.pool
        /\ t.task # "reporting" /\ s.generation \in Nat
    BY DEF Entry
  <2> QED
    BY <2>1, <2>2, <2>3 DEF Follows
<1> QED
  BY <1>1, <1>2, <1>3, <1>4, <1>5, <1>6

\* The entries after a step in which entry e becomes t.
Becomes(e, t) ==
    /\ entries' = [entries EXCEPT ![e] = t]
    /\ entries' \in Seq(Entry) /\ Len(entries') = Len(entries)
    /\ entries'[e] = t
    /\ \A d \in Opened \ {e} : entries'[d] = entries[d]

LEMMA OneBecomes ==
    ASSUME ManagerTyped, NEW e \in Opened, NEW t \in Entry,
           entries' = [entries EXCEPT ![e] = t]
    PROVE  Becomes(e, t)
<1>1. Opened = 1 .. Len(entries) /\ entries \in Seq(Entry)
  BY OpenedEntries DEF ManagerTyped
<1>2. /\ [entries EXCEPT ![e] = t] \in Seq(Entry)
      /\ Len([entries EXCEPT ![e] = t]) = Len(entries)
      /\ \A j \in 1 .. Len(entries) :
            [entries EXCEPT ![e] = t][j] = IF j = e THEN t ELSE entries[j]
  BY <1>1, ExceptSeq
<1> QED
  BY <1>1, <1>2 DEF Becomes

\* What most steps do to entries: none is opened, and none changes its generation or
\* begins or ends to report.
EntriesKeep ==
    /\ entries' \in Seq(Entry) /\ Len(entries') = Len(entries)
    /\ \A e \in Opened : /\ Follows(entries[e], entries'[e]) /\ SameTask(entries[e], entries'[e])
                         /\ entries'[e].generation = entries[e].generation

\* What every step does to them.
EntriesEvolve ==
    /\ entries' \in Seq(Entry) /\ Len(entries) <= Len(entries') /\ Len(entries') <= LastEntry
    /\ \A e \in Opened : Follows(entries[e], entries'[e])

LEMMA KeptUnchanged == ASSUME ManagerTyped, UNCHANGED entries PROVE EntriesKeep
  BY OpenedEntries, EntryOperators DEF ManagerTyped, EntriesKeep, SameTask

LEMMA KeptButOne ==
    ASSUME ManagerTyped, NEW e \in Opened, NEW t, entries' = [entries EXCEPT ![e] = t],
           Follows(entries[e], t), SameTask(entries[e], t),
           t.generation = entries[e].generation
    PROVE  EntriesKeep
<1>1. Becomes(e, t)
  BY OneBecomes DEF Follows
<1>2. \A d \in Opened : Follows(entries[d], entries[d]) /\ SameTask(entries[d], entries[d])
  BY OpenedEntries, EntryOperators DEF SameTask
<1> QED
  BY <1>1, <1>2 DEF Becomes, EntriesKeep

LEMMA FieldsOfEntries ==
    ASSUME NEW s \in Entry, NEW b \in BOOLEAN, NEW m \in Monitors \cup {Nobody}
    PROVE  \A t \in {[s EXCEPT !.requested = b], [s EXCEPT !.check = m],
                     [s EXCEPT !.check = m, !.requested = b], [s EXCEPT !.pool = "closed"]} :
              Follows(s, t) /\ SameTask(s, t) /\ t.generation = s.generation
<1>1. \A t \in {[s EXCEPT !.requested = b], [s EXCEPT !.check = m],
                [s EXCEPT !.check = m, !.requested = b]} :
         /\ t \in Entry /\ t.address = s.address /\ t.pool = s.pool /\ t.task = s.task
         /\ t.generation = s.generation
  BY DEF Entry
<1>2. LET t == [s EXCEPT !.pool = "closed"] IN
         /\ t \in Entry /\ t.address = s.address /\ t.pool = "closed" /\ t.task = s.task
         /\ t.generation = s.generation
  BY DEF Entry
<1>3. s.generation \in Nat
  BY DEF Entry
<1>4. \A t \in Entry : /\ t.address = s.address /\ t.task = s.task
                       /\ t.generation = s.generation /\ t.pool \in {s.pool, "closed"}
                       => Follows(s, t) /\ SameTask(s, t)
  BY <1>3 DEF Follows, SameTask
<1>5. LET t == [s EXCEPT !.pool = "closed"] IN
      Follows(s, t) /\ SameTask(s, t) /\ t.generation = s.generation
  BY <1>2, <1>4
<1>6. \A t \in {[s EXCEPT !.requested = b], [s EXCEPT !.check = m],
                [s EXCEPT !.check = m, !.requested = b]} :
         Follows(s, t) /\ SameTask(s, t) /\ t.generation = s.generation
  BY <1>1, <1>4
<1> QED
  BY <1>5, <1>6

LEMMA RestKeeps ==
    ASSUME ManagerTyped, NEW e \in Opened, Rest(e)
    PROVE  EntriesKeep
<1> DEFINE c == Current(AddressOf(e))
<1>1. CASE UNCHANGED entries
  BY <1>1, KeptUnchanged
<1>2. CASE IsServed(AddressOf(e))
  <2>1. c \in Opened /\ entries[c] \in Entry
    BY <1>2, OpenedEntries DEF IsServed, Current, AddressOf, Entry
  <2>2. entries' = [entries EXCEPT ![c] = [entries[c] EXCEPT !.requested = FALSE]]
    BY <1>2 DEF Rest
  <2> HIDE DEF c
  <2> QED
    BY <2>1, <2>2, KeptButOne, FieldsOfEntries
<1> QED
  BY <1>1, <1>2 DEF Rest

LEMMA StartCheckKeeps ==
    ASSUME ManagerTyped, NEW e \in Opened, StartCheck(e)
    PROVE  EntriesKeep
<1> DEFINE c == Current(AddressOf(e))
           b == entries[c].requested /\ pc[Monitor(e)] = "sleeping"
<1>1. CASE UNCHANGED entries
  BY <1>1, KeptUnchanged
<1>2. CASE IsServed(AddressOf(e))
  <2>1. c \in Opened /\ entries[c] \in Entry
    BY <1>2, OpenedEntries DEF IsServed, Current, AddressOf, Entry
  <2>2. Monitor(e) \in Monitors
    BY OpenedEntries, TaskFacts
  <2>3. entries' = [entries EXCEPT ![c] = [entries[c] EXCEPT !.check = Monitor(e), !.requested = b]]
    BY <1>2 DEF StartCheck
  <2>4. b \in BOOLEAN
    BY DEF b
  <2> HIDE DEF c, b
  <2> QED
    BY <2>1, <2>2, <2>3, <2>4, KeptButOne, FieldsOfEntries
<1> QED
  BY <1>1, <1>2 DEF StartCheck

LEMMA MonitorCarries ==
    ASSUME ManagerTyped, Carries, NEW e \in Opened
    PROVE  /\ pc[Monitor(e)] = "checking" => held[Monitor(e)] \in Opened
           /\ pc[Monitor(e)] \in Locking => work[Monitor(e)] \in Work /\ held[Monitor(e)] \in Opened
  BY OpenedEntries, TaskFacts DEF Carries, CarriesItsOwn, Reports

LEMMA CheckReturnsKeeps ==
    ASSUME ManagerTyped, Carries, NEW e \in Opened, CheckReturns(e)
    PROVE  EntriesKeep
<1> DEFINE c == held[Monitor(e)]
<1>1. c \in Opened /\ entries[c] \in Entry
  BY MonitorCarries, OpenedEntries DEF CheckReturns, At
<1>2. entries' = [entries EXCEPT ![c] = [entries[c] EXCEPT !.check = Nobody]]
  BY DEF CheckReturns
<1> HIDE DEF c
<1> QED
  BY <1>1, <1>2, KeptButOne, FieldsOfEntries

LEMMA ProcessDescriptionKeeps ==
    ASSUME ManagerTyped, Carries, NEW p \in Processes \ {Closer}, ProcessDescription(p)
    PROVE  EntriesKeep
<1> DEFINE c == Current(work[p].address)
<1>1. CASE UNCHANGED entries
  BY <1>1, KeptUnchanged
<1>2. CASE entries' = [entries EXCEPT ![c] = Ready(@)] /\ c # NoEntry
  <2>1. work[p].address \in Addresses
    BY DEF ProcessDescription, At, Carries, CarriesItsOwn, Reports, Locking, Work
  <2>2. c \in Opened /\ entries[c] \in Entry
    BY <1>2, <2>1, OpenedEntries DEF Current
  <2> HIDE DEF c
  <2> QED
    BY <1>2, <2>2, KeptButOne, EntryOperators
<1> QED
  BY <1>1, <1>2 DEF ProcessDescription

LEMMA RemoveServerKeeps ==
    ASSUME ManagerTyped, NEW a \in Addresses, Current(a) # NoEntry, RemoveServer(a)
    PROVE  EntriesKeep
<1> DEFINE c == Current(a)
<1>1. c \in Opened /\ entries[c] \in Entry
  BY OpenedEntries DEF Current
<1>2. entries' = [entries EXCEPT ![c] = [entries[c] EXCEPT !.pool = "closed"]]
  BY DEF RemoveServer
<1> HIDE DEF c
<1> QED
  BY <1>1, <1>2, KeptButOne, FieldsOfEntries

LEMMA MaintainKeeps ==
    ASSUME ManagerTyped, NEW e \in Opened, Maintain(e) \/ Connected(e)
    PROVE  EntriesKeep
<1>1. entries[e] \in Entry
  BY OpenedEntries
<1>2. CASE entries' = [entries EXCEPT ![e] = EndTask(@, FALSE)] /\ entries[e].task # "reporting"
  BY <1>1, <1>2, KeptButOne, EntryOperators DEF SameTask
<1>3. CASE entries' = [entries EXCEPT ![e] = [@ EXCEPT !.task = "connecting"]]
           /\ entries[e].task # "reporting"
  <2>1. LET t == [entries[e] EXCEPT !.task = "connecting"] IN
        Follows(entries[e], t) /\ t.task = "connecting" /\ t.generation = entries[e].generation
    BY <1>1 DEF Follows, Entry
  <2> QED
    BY <1>1, <1>3, <2>1, KeptButOne DEF SameTask
<1> QED
  BY <1>2, <1>3 DEF Maintain, Connected

\* The steps that do not look at entries, or only read them.
ReadingStep ==
    \/ \E p \in Processes \ {Closer} : Wake(p) \/ SyncPoolClosed(p) \/ SyncWatch(p)
    \/ \E h \in Handlers : HandlerStep(h)
    \/ PollingStep
    \/ Close \/ AwaitMonitor \/ MonitorEnded \/ AwaitPolling \/ PollingEnded \/ PoolClosed \/ EndClose
    \/ UNCHANGED vars

LEMMA ReadingKeeps == ASSUME ManagerTyped, ReadingStep PROVE EntriesKeep
  BY KeptUnchanged DEF ReadingStep, Wake, SyncPoolClosed, SyncWatch, HandlerStep, Borrow, Succeed,
     Report, PollingStep, Rescan, ApplyRescan, FinishRescan, StopPolling, Close, AwaitMonitor,
     MonitorEnded, AwaitPolling, PollingEnded, PoolClosed, EndClose, vars, managerVars

KeepingStep ==
    \/ ReadingStep
    \/ \E p \in Processes \ {Closer} : ProcessDescription(p) \/ SyncRemove(p)
    \/ \E e \in Opened : Rest(e) \/ StartCheck(e) \/ CheckReturns(e) \/ Maintain(e) \/ Connected(e)
    \/ CloseServer

LEMMA KeepingKeeps ==
    ASSUME ManagerTyped, TasksTyped, Carries, KeepingStep
    PROVE  EntriesKeep
<1>1. ASSUME NEW p \in Processes \ {Closer}, SyncRemove(p)
      PROVE  EntriesKeep
  <2>1. PICK a \in sync.removing :
           UNCHANGED entries \/ (Current(a) # NoEntry /\ RemoveServer(a))
    BY <1>1 DEF SyncRemove
  <2>2. a \in Addresses
    BY <2>1 DEF TasksTyped
  <2> QED
    BY <2>1, <2>2, KeptUnchanged, RemoveServerKeeps
<1>2. ASSUME CloseServer
      PROVE  EntriesKeep
  <2>1. PICK a \in closing.pools :
           UNCHANGED entries \/ (Current(a) # NoEntry /\ RemoveServer(a))
    BY <1>2 DEF CloseServer
  <2>2. a \in Addresses
    BY <2>1 DEF TasksTyped
  <2> QED
    BY <2>1, <2>2, KeptUnchanged, RemoveServerKeeps
<1> QED
  BY <1>1, <1>2, ReadingKeeps, ProcessDescriptionKeeps, RestKeeps, StartCheckKeeps,
     CheckReturnsKeeps, MaintainKeeps DEF KeepingStep

-----------------------------------------------------------------------------
(* The steps that change generations, tasks or the number of entries.      *)

LEMMA ConnectionFailsEntries ==
    ASSUME ManagerTyped, NEW e \in Opened, ConnectionFails(e)
    PROVE  /\ Becomes(e, [entries[e] EXCEPT !.task = "reporting"])
           /\ Follows(entries[e], entries'[e]) /\ entries'[e].task = "reporting"
           /\ entries'[e].generation = entries[e].generation
<1> DEFINE t == [entries[e] EXCEPT !.task = "reporting"]
<1>1. Follows(entries[e], t) /\ t.task = "reporting" /\ t.generation = entries[e].generation
  BY OpenedEntries DEF Follows, Entry
<1>2. entries' = [entries EXCEPT ![e] = t]
  BY DEF ConnectionFails
<1> HIDE DEF t
<1>3. Becomes(e, t)
  BY <1>1, <1>2, OneBecomes DEF Follows
<1> QED
  BY <1>1, <1>3 DEF Becomes, t

LEMMA EndMaintenanceEntries ==
    ASSUME ManagerTyped, NEW e \in Opened, EndMaintenance(e)
    PROVE  \E t : /\ Becomes(e, t) /\ Follows(entries[e], t) /\ t.task # "reporting"
                  /\ pc[Maintainer(e)] # "caught" => t.generation = entries[e].generation
<1> DEFINE s == IF pc[Maintainer(e)] = "caught" THEN Clear(entries[e]) ELSE entries[e]
           t == EndTask(s, TRUE)
<1>1. s \in Entry /\ Follows(entries[e], s)
  BY OpenedEntries, EntryOperators DEF Follows
<1>2. Follows(s, t) /\ t.task # "reporting" /\ t.generation = s.generation
  BY <1>1, EntryOperators
<1>3. entries' = [entries EXCEPT ![e] = t]
  BY DEF EndMaintenance
<1>4. pc[Maintainer(e)] # "caught" => s = entries[e]
  OBVIOUS
<1>5. entries[e].generation \in Nat
  BY OpenedEntries DEF Entry
<1> HIDE DEF s, t
<1>6. Follows(entries[e], t)
  BY <1>1, <1>2, <1>5 DEF Follows, Entry
<1>7. Becomes(e, t)
  BY <1>3, <1>6, OneBecomes DEF Follows
<1> QED
  BY <1>2, <1>4, <1>6, <1>7

\* When a check has failed, the pool that the address has now is cleared.
LEMMA FinishCheckEntries ==
    ASSUME ManagerTyped, Carries, NEW e \in Opened, FinishCheck(e)
    PROVE  LET a == work[Monitor(e)].address  now == Current(a) IN
           /\ a \in Addresses
           /\ \/ UNCHANGED entries /\ ~(work[Monitor(e)].clears /\ now # NoEntry)
              \/ /\ work[Monitor(e)].clears /\ now \in Opened /\ now # NoEntry
                 /\ Becomes(now, Clear(entries[now]))
                 /\ Follows(entries[now], Clear(entries[now]))
                 /\ SameTask(entries[now], Clear(entries[now]))
<1> DEFINE a == work[Monitor(e)].address
           now == Current(a)
<1>1. a \in Addresses
  BY MonitorCarries DEF FinishCheck, At, Locking, Work
<1>2. CASE ~(work[Monitor(e)].clears /\ now # NoEntry)
  BY <1>1, <1>2 DEF FinishCheck
<1>3. CASE work[Monitor(e)].clears /\ now # NoEntry
  <2>1. now \in Opened /\ entries[now] \in Entry
    BY <1>1, <1>3, OpenedEntries DEF Current
  <2>2. entries' = [entries EXCEPT ![now] = Clear(entries[now])]
    BY <1>3 DEF FinishCheck
  <2>3. Follows(entries[now], Clear(entries[now])) /\ SameTask(entries[now], Clear(entries[now]))
    BY <2>1, EntryOperators
  <2>4. Becomes(now, Clear(entries[now]))
    BY <2>1, <2>2, <2>3, OneBecomes DEF Follows
  <2> QED
    BY <1>1, <1>3, <2>1, <2>3, <2>4
<1> QED
  BY <1>2, <1>3

LEMMA ReporterCarries ==
    ASSUME ManagerTyped, Carries, NEW p \in Handlers \cup Maintainers, pc[p] \in Locking
    PROVE  /\ work[p] \in Work /\ held[p] \in Opened /\ AddressOf(held[p]) = work[p].address
           /\ work[p].generation <= entries[held[p]].generation
           /\ entries[held[p]] \in Entry /\ work[p].address \in Addresses
<1>1. p \in Reports /\ p \notin Monitors
  BY TaskFacts DEF Maintainers, Reports
<1> QED
  BY <1>1, OpenedEntries DEF Carries, CarriesItsOwn, Work

\* After an error, it is the pool the error was held against that is cleared.
LEMMA FinishErrorEntries ==
    ASSUME ManagerTyped, Carries, NEW p \in Processes \ {Closer}, FinishError(p)
    PROVE  LET cleared == ClearedByError(p) IN
           /\ entries' \in Seq(Entry) /\ Len(entries') = Len(entries)
           /\ \A d \in Opened : /\ Follows(entries[d], entries'[d])
                                /\ SameTask(entries[d], entries'[d])
                                /\ entries'[d].generation = cleared[d].generation
           /\ \A d \in Opened \ {held[p]} : cleared[d].generation = entries[d].generation
           /\ ~(work[p].clears /\ Current(work[p].address) # NoEntry) => cleared = entries
           /\ cleared[held[p]].generation \in Nat
<1> DEFINE cleared == ClearedByError(p)
           now == Current(work[p].address)
<1>1. /\ held[p] \in Opened /\ entries[held[p]] \in Entry /\ work[p].address \in Addresses
  BY ReporterCarries DEF FinishError, At, Locking
<1>2. /\ cleared \in Seq(Entry) /\ Len(cleared) = Len(entries)
      /\ \A d \in Opened : Follows(entries[d], cleared[d]) /\ SameTask(entries[d], cleared[d])
      /\ \A d \in Opened \ {held[p]} : cleared[d] = entries[d]
  <2>1. \A d \in Opened : Follows(entries[d], entries[d]) /\ SameTask(entries[d], entries[d])
    BY OpenedEntries, EntryOperators DEF SameTask
  <2>2. CASE cleared = entries
    BY <2>1, <2>2 DEF ManagerTyped
  <2>3. CASE cleared = [entries EXCEPT ![held[p]] = Clear(@)]
    <3>1. Follows(entries[held[p]], Clear(entries[held[p]]))
          /\ SameTask(entries[held[p]], Clear(entries[held[p]]))
      BY <1>1, EntryOperators
    <3>2. /\ cleared \in Seq(Entry) /\ Len(cleared) = Len(entries)
          /\ cleared[held[p]] = Clear(entries[held[p]])
          /\ \A d \in Opened \ {held[p]} : cleared[d] = entries[d]
      BY <1>1, <2>3, <3>1, OpenedEntries, ExceptSeq DEF Follows, ManagerTyped
    <3> QED
      BY <2>1, <3>1, <3>2
  <2> QED
    BY <2>2, <2>3 DEF ClearedByError
<1>3. ~(work[p].clears /\ now # NoEntry) => cleared = entries
  BY DEF ClearedByError
<1>4. \A d \in Opened : cleared[d] \in Entry /\ cleared[d].generation \in Nat
  BY <1>2 DEF Follows, Entry
<1> HIDE DEF cleared
<1>5. CASE entries' = cleared
  BY <1>1, <1>2, <1>3, <1>4, <1>5 DEF cleared
<1>6. CASE /\ entries' = [cleared EXCEPT ![now].requested = TRUE]
           /\ now # NoEntry
  <2>1. now \in Opened
    BY <1>1, <1>6, OpenedEntries DEF Current
  <2> DEFINE t == [cleared[now] EXCEPT !.requested = TRUE]
  <2>2. Follows(cleared[now], t) /\ SameTask(cleared[now], t)
        /\ t.generation = cleared[now].generation /\ t \in Entry
    BY <1>4, <2>1, FieldsOfEntries DEF Follows
  <2>3. entries' = [cleared EXCEPT ![now] = t]
    BY <1>6
  <2> HIDE DEF t, now
  <2>4. /\ entries' \in Seq(Entry) /\ Len(entries') = Len(cleared)
        /\ entries'[now] = t
        /\ \A d \in Opened \ {now} : entries'[d] = cleared[d]
    BY <1>2, <2>1, <2>2, <2>3, OpenedEntries, ExceptSeq
  <2>5. /\ Follows(entries[now], t) /\ SameTask(entries[now], t)
    <3>1. entries[now].generation \in Nat /\ cleared[now].generation \in Nat
      BY <1>4, <2>1, OpenedEntries DEF Entry
    <3> QED
      BY <1>2, <2>1, <2>2, <3>1 DEF Follows, SameTask, Entry
  <2> QED
    BY <1>1, <1>2, <1>3, <1>4, <2>1, <2>2, <2>4, <2>5 DEF cleared, now
<1> QED
  <2>1. Known(work[p].address) /\ now = NoEntry => entries' = cleared
    BY DEF FinishError, cleared
  <2>2. ~Known(work[p].address) => entries' = cleared
    BY DEF FinishError, cleared
  <2>3. Known(work[p].address) /\ now # NoEntry =>
           entries' \in {cleared, [cleared EXCEPT ![now].requested = TRUE]}
    BY DEF FinishError, cleared
  <2> QED
    BY <1>5, <1>6, <2>1, <2>2, <2>3

\* Numbering a finite set from first on uses every number.
LEMMA NumbersAreUsed ==
    ASSUME NEW set, IsFiniteSet(set), NEW first \in Nat, NEW f \in OpenedFor(set, first)
    PROVE  /\ Cardinality(set) \in Nat
           /\ \A a \in set : f[a] \in first .. first + Cardinality(set) - 1
           /\ \A a, b \in set : f[a] = f[b] => a = b
           /\ \A i \in first .. first + Cardinality(set) - 1 :
                 (CHOOSE a \in set : f[a] = i) \in set /\ f[CHOOSE a \in set : f[a] = i] = i
<1> DEFINE numbers == first .. first + Cardinality(set) - 1
<1>1. Cardinality(set) \in Nat
  BY FS_CardinalityType
<1>2. f \in Injection(set, numbers)
  BY DEF OpenedFor, Injection, IsInjective
<1>3. IsFiniteSet(numbers) /\ Cardinality(numbers) = Cardinality(set)
  <2> DEFINE last == first + Cardinality(set) - 1
  <2>1. first \in Int /\ last \in Int
    BY <1>1
  <2>2. IF first > last THEN Cardinality(set) = 0 ELSE Cardinality(set) = last - first + 1
    BY <1>1
  <2> HIDE DEF last
  <2>3. IsFiniteSet(first .. last) /\ Cardinality(first .. last) = Cardinality(set)
    BY <2>1, <2>2, FS_Interval
  <2> QED
    BY <2>3 DEF last
<1>4. f \in Surjection(set, numbers)
  BY <1>2, <1>3, FS_Injection
<1>5. \A i \in numbers : \E a \in set : f[a] = i
  BY <1>4 DEF Surjection
<1> QED
  BY <1>1, <1>5 DEF OpenedFor

LEMMA NewEntries ==
    ASSUME NEW a \in Addresses
    PROVE  /\ NewEntry(a) \in Entry /\ NewEntry(a).address = a
           /\ NewEntry(a).generation = 0 /\ NewEntry(a).task = "none"
           /\ NewEntry(a).pool = "paused"
  BY DEF NewEntry, Entry

\* What SyncAdd opens: one new entry for each address that has none.
Missing == {a \in sync.adding : Current(a) = NoEntry}

LEMMA SyncAddEntries ==
    ASSUME ManagerTyped, TasksTyped, NEW p \in Processes \ {Closer}, SyncAdd(p)
    PROVE  /\ entries' \in Seq(Entry) /\ Len(entries) <= Len(entries') /\ Len(entries') <= LastEntry
           /\ \A e \in Opened : entries'[e] = entries[e]
           /\ \A e \in 1 .. Len(entries') : e \notin Opened =>
                 \E a \in Missing : servers'[a] = e /\ entries'[e] = NewEntry(a)
           /\ \A a \in Missing : servers'[a] \in 1 .. Len(entries') /\ servers'[a] \notin Opened
                                 /\ entries'[servers'[a]] = NewEntry(a)
           /\ \A a \in Addresses \ Missing : servers'[a] = servers[a]
           /\ DOMAIN servers' = Addresses
<1>1. PICK f \in OpenedFor(Missing, Len(entries) + 1) :
         /\ servers' = [a \in Addresses |-> IF a \in Missing THEN f[a] ELSE servers[a]]
         /\ entries' = entries \o [i \in 1 .. Cardinality(Missing) |->
                                      NewEntry(CHOOSE a \in Missing : f[a] = Len(entries) + i)]
  BY Zenon DEF SyncAdd, Missing
<1> DEFINE n == Cardinality(Missing)
           chosen(i) == CHOOSE a \in Missing : f[a] = i
           more == [i \in 1 .. n |-> NewEntry(chosen(Len(entries) + i))]
<1>2. Missing \subseteq Addresses /\ IsFiniteSet(Missing)
  <2>1. Missing \subseteq Addresses
    BY DEF Missing, TasksTyped
  <2> QED
    BY <2>1, FS_Subset, AddressesFinite
<1>3. Opened = 1 .. Len(entries) /\ Len(entries) \in Nat /\ entries \in Seq(Entry)
  BY OpenedEntries DEF ManagerTyped
<1>4. n \in Nat
  BY <1>2, FS_CardinalityType
<1>5. \A i \in Len(entries) + 1 .. Len(entries) + n : chosen(i) \in Missing /\ f[chosen(i)] = i
  <2>1. Len(entries) + 1 + n - 1 = Len(entries) + n
    BY <1>3, <1>4
  <2> QED
    BY <1>2, <1>3, <2>1, NumbersAreUsed
<1>6. /\ \A a \in Missing : f[a] \in Len(entries) + 1 .. Len(entries) + n
      /\ \A a, b \in Missing : f[a] = f[b] => a = b
  <2>1. Len(entries) + 1 + n - 1 = Len(entries) + n
    BY <1>3, <1>4
  <2> QED
    BY <1>2, <1>3, <2>1, NumbersAreUsed
<1> HIDE DEF chosen, n
<1>7. more \in Seq(Entry) /\ Len(more) = n
      /\ \A i \in 1 .. n : more[i] = NewEntry(chosen(Len(entries) + i))
  <2>1. \A i \in 1 .. n : chosen(Len(entries) + i) \in Missing
    BY <1>3, <1>4, <1>5
  <2>2. more \in [1 .. n -> Entry]
    BY <1>2, <2>1, NewEntries
  <2> HIDE DEF more
  <2>3. more \in Seq(Entry)
    BY <1>4, <2>2, SeqDef
  <2>4. Len(more) = n
    BY <1>4, <2>2, <2>3, LenProperties
  <2> QED
    BY <2>3, <2>4 DEF more
<1>8. entries' = entries \o more
  BY <1>1 DEF n, chosen
<1> HIDE DEF more
<1>9. /\ entries' \in Seq(Entry) /\ Len(entries') = Len(entries) + n
      /\ \A i \in 1 .. Len(entries) + n :
            entries'[i] = IF i <= Len(entries) THEN entries[i] ELSE more[i - Len(entries)]
  BY <1>3, <1>7, <1>8, ConcatProperties
<1>10. \A i \in Len(entries) + 1 .. Len(entries) + n : entries'[i] = NewEntry(chosen(i))
  <2> TAKE i \in Len(entries) + 1 .. Len(entries) + n
  <2>1. i - Len(entries) \in 1 .. n /\ Len(entries) + (i - Len(entries)) = i /\ ~(i <= Len(entries))
        /\ i \in 1 .. Len(entries) + n
    BY <1>3, <1>4
  <2> QED
    BY <1>7, <1>9, <2>1
<1>11. \A a \in Missing : /\ servers'[a] \in Len(entries) + 1 .. Len(entries) + n
                          /\ chosen(servers'[a]) = a
  BY <1>1, <1>2, <1>5, <1>6
<1>12. \A e \in Len(entries) + 1 .. Len(entries) + n : servers'[chosen(e)] = e
  BY <1>1, <1>2, <1>5
<1>13. Len(entries') <= LastEntry
  BY DEF SyncAdd
<1>14. \A e \in Opened : entries'[e] = entries[e]
  BY <1>3, <1>4, <1>9
<1>15. \A e \in 1 .. Len(entries') : e \notin Opened => e \in Len(entries) + 1 .. Len(entries) + n
  BY <1>3, <1>4, <1>9
<1>16. \A e \in Len(entries) + 1 .. Len(entries) + n : e \in 1 .. Len(entries') /\ e \notin Opened
  BY <1>3, <1>4, <1>9
<1>17. \A a \in Addresses \ Missing : servers'[a] = servers[a]
  BY <1>1
<1>18. DOMAIN servers' = Addresses
  BY <1>1
<1>19. Len(entries) <= Len(entries')
  BY <1>3, <1>4, <1>9
<1>20. \A e \in 1 .. Len(entries') : e \notin Opened =>
          \E a \in Missing : servers'[a] = e /\ entries'[e] = NewEntry(a)
  BY <1>5, <1>10, <1>12, <1>15
<1>21. \A a \in Missing : servers'[a] \in 1 .. Len(entries') /\ servers'[a] \notin Opened
                          /\ entries'[servers'[a]] = NewEntry(a)
  BY <1>10, <1>11, <1>16
<1> QED
  BY <1>9, <1>13, <1>14, <1>17, <1>18, <1>19, <1>20, <1>21

-----------------------------------------------------------------------------
(* Every step, as one of those above.                                      *)

LEMMA Steps ==
    ASSUME ManagerTyped, [Next]_vars
    PROVE  \/ KeepingStep
           \/ \E p \in Processes \ {Closer} : SyncAdd(p) \/ FinishError(p)
           \/ \E e \in Opened : FinishCheck(e) \/ ConnectionFails(e) \/ EndMaintenance(e)
  BY DEF Next, UnderLock, MonitorStep, MaintenanceStep, CloserStep, KeepingStep, ReadingStep

LEMMA StepsEvolve ==
    ASSUME ManagerTyped, TasksTyped, Carries, [Next]_vars
    PROVE  EntriesEvolve
<1>1. \A d \in Opened : Follows(entries[d], entries[d])
  BY OpenedEntries, EntryOperators
<1>2. CASE KeepingStep
  BY <1>2, KeepingKeeps, OpenedEntries DEF EntriesKeep, EntriesEvolve, ManagerTyped
<1>3. ASSUME NEW p \in Processes \ {Closer}, SyncAdd(p)
      PROVE  EntriesEvolve
  BY <1>1, <1>3, SyncAddEntries DEF EntriesEvolve
<1>4. ASSUME NEW p \in Processes \ {Closer}, FinishError(p)
      PROVE  EntriesEvolve
  BY <1>4, FinishErrorEntries DEF EntriesEvolve, ManagerTyped
<1>5. ASSUME NEW e \in Opened, FinishCheck(e)
      PROVE  EntriesEvolve
  <2>1. CASE UNCHANGED entries
    BY <1>1, <2>1 DEF EntriesEvolve, ManagerTyped
  <2>2. CASE ~UNCHANGED entries
    <3>1. PICK now \in Opened : Becomes(now, Clear(entries[now]))
                                /\ Follows(entries[now], Clear(entries[now]))
      BY <1>5, <2>2, FinishCheckEntries
    <3> QED
      BY <1>1, <3>1 DEF Becomes, EntriesEvolve, ManagerTyped
  <2> QED
    BY <2>1, <2>2
<1>6. ASSUME NEW e \in Opened, ConnectionFails(e)
      PROVE  EntriesEvolve
  <2>1. /\ entries' \in Seq(Entry) /\ Len(entries') = Len(entries)
        /\ \A d \in Opened \ {e} : entries'[d] = entries[d]
        /\ Follows(entries[e], entries'[e])
    BY <1>6, ConnectionFailsEntries DEF Becomes
  <2> QED
    BY <1>1, <2>1, OpenedEntries DEF EntriesEvolve, ManagerTyped
<1>7. ASSUME NEW e \in Opened, EndMaintenance(e)
      PROVE  EntriesEvolve
  <2>1. PICK t : Becomes(e, t) /\ Follows(entries[e], t)
    BY <1>7, EndMaintenanceEntries
  <2> QED
    BY <1>1, <2>1 DEF Becomes, EntriesEvolve, ManagerTyped
<1> QED
  BY <1>2, <1>3, <1>4, <1>5, <1>6, <1>7, Steps

LEMMA EvolvedEntries ==
    ASSUME ManagerTyped, EntriesEvolve
    PROVE  /\ Opened' = 1 .. Len(entries') /\ Opened \subseteq Opened'
           /\ MaybeEntry \subseteq MaybeEntry'
           /\ \A e \in Opened : /\ entries'[e].address = entries[e].address
                                /\ entries[e].pool = "closed" => entries'[e].pool = "closed"
                                /\ entries'[e].generation >= entries[e].generation
                                /\ entries'[e] \in Entry
<1>1. Opened = 1 .. Len(entries) /\ Len(entries) \in Nat
  BY OpenedEntries
<1>2. Opened' = 1 .. Len(entries') /\ Len(entries') \in Nat
  BY LenProperties DEF EntriesEvolve, Opened
<1>3. Opened \subseteq Opened'
  BY <1>1, <1>2 DEF EntriesEvolve
<1> QED
  BY <1>2, <1>3 DEF EntriesEvolve, Follows, MaybeEntry

-----------------------------------------------------------------------------
(* What a step does to the tasks and to the lock.                          *)

\* p may take a step, which ends at label.
May(p) == p \in Processes /\ (pc[p] \in Running \/ Quiet)
Moves(p, label) == May(p) /\ label \in PCs(p) /\ pc' = [pc EXCEPT ![p] = label]

Stands == pc' = pc /\ lock' = lock
Turns(p, label) ==
    /\ Moves(p, label) /\ lock' = lock
    /\ \/ pc[p] \in Owning /\ label \in Owning
       \/ pc[p] \notin Locking /\ label \notin Locking
Enters(p) == May(p) /\ p # Closer /\ pc[p] \notin Locking /\ Enter(p)
Wakes(p) ==
    /\ May(p) /\ p # Closer /\ pc[p] = "queued" /\ Head(lock) = p
    /\ lock' = lock /\ GoTo(p, "locked")
Releases(p, label) ==
    /\ Moves(p, label) /\ pc[p] \in Owning /\ label \notin Locking
    /\ lock' = Tail(lock)
Raises(p, label) ==
    /\ Moves(p, label) /\ pc[p] \in Owning /\ label \in {"failed", "caught"}
    /\ lock' = <<Nobody>> \o Tail(lock)
Spawns(p) ==
    /\ May(p) /\ p # Closer /\ pc[p] = "syncing" /\ lock' = lock
    /\ \E watched \in SUBSET Monitors :
          pc' = [q \in Processes |->
                    CASE q = p -> "finishing"
                      [] q \in watched /\ pc[q] = "idle" -> "spawned"
                      [] OTHER -> pc[q]]

KindOfStep ==
    \/ Stands
    \/ \E p \in Processes : Enters(p) \/ Wakes(p) \/ Spawns(p)
    \/ \E p \in Processes, label \in Labels :
          Turns(p, label) \/ Releases(p, label) \/ Raises(p, label)

LEMMA AtMay == ASSUME NEW p \in Processes, NEW label, At(p, label) PROVE May(p) /\ pc[p] = label
  BY DEF At, May

LEMMA LabelsOf == \A p \in Processes : PCs(p) \subseteq Labels
  BY DEF Labels

\* A task that turns, within the lock or outside it.
LEMMA TurnKind ==
    ASSUME NEW p \in Processes, NEW label \in PCs(p), May(p), pc' = [pc EXCEPT ![p] = label],
           lock' = lock,
           \/ pc[p] \in Owning /\ label \in Owning
           \/ pc[p] \notin Locking /\ label \notin Locking
    PROVE  KindOfStep
  BY LabelsOf, Zenon DEF KindOfStep, Turns, Moves

LEMMA LeaveKind ==
    ASSUME NEW p \in Processes \ {Closer}, May(p), pc[p] \in Owning,
           \/ Release /\ GoTo(p, After(p))
           \/ RaiseUnderLock(p) /\ p # Srv
    PROVE  KindOfStep
<1>1. CASE Release /\ GoTo(p, After(p))
  <2>1. Releases(p, After(p)) /\ After(p) \in Labels
    BY <1>1, LockingTasks, AfterFacts, LabelsOf DEF Releases, Moves, GoTo, Release
  <2> QED
    BY <2>1 DEF KindOfStep
<1>2. CASE RaiseUnderLock(p) /\ p # Srv
  <2> DEFINE label == IF p \in Maintainers THEN "caught" ELSE "failed"
  <2>1. Raises(p, label) /\ label \in Labels
    BY <1>2, LockingTasks, LabelsOf DEF Raises, Moves, GoTo, RaiseUnderLock, LoseLock
  <2> QED
    BY <2>1 DEF KindOfStep
<1> QED
  BY <1>1, <1>2

LEMMA HandleKind ==
    ASSUME NEW p \in Handlers \cup Maintainers, May(p), pc[p] \notin Locking,
           NEW a, NEW generation, NEW clears, HandleApplicationError(p, a, generation, clears),
           p \in Maintainers => ~(Known(a) /\ Current(a) = NoEntry)
    PROVE  KindOfStep
<1>0. p \in Processes \ {Closer} /\ p # Srv
  BY TaskFacts DEF Maintainers
<1>1. CASE lock' = lock /\ GoTo(p, After(p))
  <2>1. After(p) \in PCs(p) /\ After(p) \notin Locking
    BY <1>0, LockingTasks, AfterFacts
  <2> QED
    BY <1>0, <1>1, <2>1, TurnKind DEF GoTo
<1>2. CASE lock' = lock /\ GoTo(p, "failed") /\ p \notin Maintainers
  <2>1. "failed" \in PCs(p) /\ "failed" \notin Locking
    BY <1>0, <1>2, LockingTasks DEF Locking
  <2> QED
    BY <1>0, <1>2, <2>1, TurnKind DEF GoTo
<1>3. CASE Enter(p)
  BY <1>0, <1>3 DEF KindOfStep, Enters
<1> QED
  BY <1>1, <1>2, <1>3 DEF HandleApplicationError

LEMMA StepKinds ==
    ASSUME ManagerTyped, TasksTyped, Carries, Unopened, [Next]_vars
    PROVE  KindOfStep
<1> USE DEF Locking, Owning
<1>1. ASSUME NEW p \in Processes \ {Closer}, UnderLock(p) PROVE KindOfStep
  <2>0. p \in Processes /\ Locking \subseteq PCs(p)
    BY LockingTasks
  <2>1. CASE Wake(p)
    <3>1. May(p) /\ pc[p] = "queued"
      BY <2>1, AtMay DEF Wake
    <3> QED
      BY <2>0, <2>1, <3>1 DEF Wake, KindOfStep, Wakes
  <2>2. CASE ProcessDescription(p)
    <3>1. May(p) /\ pc[p] = "locked" /\ p # Srv
      BY <2>2, AtMay DEF ProcessDescription
    <3>2. CASE RaiseUnderLock(p)
      BY <3>1, <3>2, LeaveKind
    <3>3. CASE lock' = lock /\ \E label \in {"finishing", "syncing"} : GoTo(p, label)
      <4>1. PICK label \in {"finishing", "syncing"} : pc' = [pc EXCEPT ![p] = label]
        BY <3>3 DEF GoTo
      <4> QED
        BY <2>0, <3>1, <3>3, <4>1, TurnKind
    <3> QED
      BY <2>2, <3>2, <3>3 DEF ProcessDescription
  <2>3. CASE SyncRemove(p)
    <3>1. May(p) /\ pc[p] = "syncing"
      BY <2>3, AtMay DEF SyncRemove
    <3>2. lock' = lock /\ (pc' = pc \/ GoTo(p, "syncing pool"))
      BY <2>3 DEF SyncRemove
    <3> QED
      BY <2>0, <3>1, <3>2, TurnKind DEF GoTo, KindOfStep, Stands
  <2>4. CASE SyncPoolClosed(p)
    <3>1. May(p) /\ pc[p] = "syncing pool"
      BY <2>4, AtMay DEF SyncPoolClosed
    <3> QED
      BY <2>0, <2>4, <3>1, TurnKind DEF GoTo, SyncPoolClosed
  <2>5. CASE SyncAdd(p)
    BY <2>5 DEF SyncAdd, KindOfStep, Stands
  <2>6. CASE SyncWatch(p)
    <3> DEFINE watched == {Monitor(Current(a)) : a \in {x \in sync.watching : Current(x) # NoEntry}}
    <3>1. May(p) /\ pc[p] = "syncing"
      BY <2>6, AtMay DEF SyncWatch
    <3>2. watched \in SUBSET Monitors
      BY OpenedEntries, TaskFacts DEF TasksTyped, Current
    <3> QED
      BY <2>6, <3>1, <3>2 DEF SyncWatch, KindOfStep, Spawns
  <2>7. CASE FinishError(p)
    <3>1. May(p) /\ pc[p] = "finishing" /\ p # Srv
      BY <2>7, AtMay, TaskFacts DEF FinishError
    <3>2. RaiseUnderLock(p) \/ (Release /\ GoTo(p, After(p)))
      BY <2>7 DEF FinishError
    <3> QED
      BY <3>1, <3>2, LeaveKind
  <2> QED
    BY <1>1, <2>1, <2>2, <2>3, <2>4, <2>5, <2>6, <2>7 DEF UnderLock
<1>2. ASSUME NEW e \in Opened, MonitorStep(e) PROVE KindOfStep
  <2> DEFINE p == Monitor(e)
  <2>0. p \in Processes \ {Closer} /\ p # Srv
    BY OpenedEntries, TaskFacts
  <2>00. {"looping", "sleeping", "checking", "done"} \subseteq PCs(p) /\ Locking \subseteq PCs(p)
    BY OpenedEntries, WhereTasksAre
  <2>1. CASE Rest(e) \/ StartCheck(e)
    <3>1. May(p) /\ pc[p] \in {"looping", "spawned", "sleeping"}
      BY <2>0, <2>1, AtMay DEF Rest, StartCheck
    <3>2. PICK label \in {"sleeping", "checking", "done"} : pc' = [pc EXCEPT ![p] = label]
      BY <2>1 DEF Rest, StartCheck, GoTo
    <3>3. lock' = lock
      BY <2>1 DEF Rest, StartCheck
    <3> QED
      BY <2>0, <2>00, <3>1, <3>2, <3>3, TurnKind
  <2>2. CASE CheckReturns(e)
    <3>1. May(p) /\ pc[p] = "checking"
      BY <2>0, <2>2, AtMay DEF CheckReturns
    <3>2. Enter(p) \/ (lock' = lock /\ pc' = [pc EXCEPT ![p] = "looping"])
      BY <2>2 DEF CheckReturns, GoTo
    <3>3. CASE Enter(p)
      BY <2>0, <3>1, <3>3 DEF KindOfStep, Enters
    <3> QED
      BY <2>0, <2>00, <3>1, <3>2, <3>3, TurnKind
  <2>3. CASE FinishCheck(e)
    <3>1. May(p) /\ pc[p] = "finishing"
      BY <2>0, <2>3, AtMay DEF FinishCheck
    <3>2. RaiseUnderLock(p) \/ (Release /\ GoTo(p, After(p)))
      BY <2>3 DEF FinishCheck
    <3> QED
      BY <2>0, <3>1, <3>2, LeaveKind
  <2> QED
    BY <1>2, <2>1, <2>2, <2>3 DEF MonitorStep
<1>3. ASSUME NEW e \in Opened, MaintenanceStep(e) PROVE KindOfStep
  <2> DEFINE p == Maintainer(e)
  <2>0. p \in Processes /\ p \in Maintainers /\ {"idle", "caught"} \subseteq PCs(p)
    <3>1. e \in Entries
      BY OpenedEntries
    <3>2. {"idle", "caught"} \subseteq PCs(p)
      BY <3>1, WhereTasksAre
    <3> QED
      BY <3>1, <3>2, TaskFacts
  <2>1. CASE Maintain(e) \/ Connected(e)
    BY <2>1 DEF Maintain, Connected, KindOfStep, Stands
  <2>2. CASE ConnectionFails(e)
    <3>1. May(p) /\ pc[p] = "idle"
      BY <2>0, <2>2 DEF ConnectionFails, Unopened, May
    <3>2. CASE Known(AddressOf(e)) /\ Current(AddressOf(e)) = NoEntry
      BY <2>0, <2>2, <3>1, <3>2, TurnKind DEF ConnectionFails, GoTo
    <3>3. CASE ~(Known(AddressOf(e)) /\ Current(AddressOf(e)) = NoEntry)
      <4>1. PICK generation : HandleApplicationError(p, AddressOf(e), generation, TRUE)
        BY <2>2, <3>3 DEF ConnectionFails
      <4> QED
        BY <2>0, <3>1, <3>3, <4>1, HandleKind
    <3> QED
      BY <3>2, <3>3
  <2>3. CASE EndMaintenance(e)
    <3>1. May(p) /\ pc[p] \in {"reported", "caught"}
      BY <2>0, <2>3, AtMay DEF EndMaintenance
    <3> QED
      BY <2>0, <2>3, <3>1, TurnKind DEF EndMaintenance, GoTo
  <2> QED
    BY <1>3, <2>1, <2>2, <2>3 DEF MaintenanceStep
<1>4. ASSUME NEW h \in Handlers, HandlerStep(h) PROVE KindOfStep
  <2>0. h \in Processes /\ {"idle", "using"} \subseteq PCs(h) /\ h \notin Maintainers
    BY TaskFacts, WhereTasksAre
  <2>1. CASE Succeed(h) \/ \E a \in Addresses : Borrow(h, a)
    <3>1. May(h) /\ pc[h] \in {"idle", "using"}
      BY <2>0, <2>1, AtMay DEF Succeed, Borrow
    <3>2. lock' = lock /\ \E label \in {"idle", "using"} : pc' = [pc EXCEPT ![h] = label]
      BY <2>1 DEF Succeed, Borrow, GoTo
    <3> QED
      BY <2>0, <3>1, <3>2, TurnKind
  <2>2. CASE Report(h)
    <3>1. May(h) /\ pc[h] = "using"
      BY <2>0, <2>2, AtMay DEF Report
    <3>2. PICK clears \in BOOLEAN :
             HandleApplicationError(h, work[h].address, work[h].generation, clears)
      BY <2>2 DEF Report
    <3> QED
      BY <2>0, <3>1, <3>2, HandleKind
  <2> QED
    BY <1>4, <2>1, <2>2 DEF HandlerStep
<1>5. ASSUME PollingStep PROVE KindOfStep
  <2>0. /\ Srv \in Processes \ {Closer} /\ {"done", "sleeping"} \subseteq PCs(Srv)
        /\ Locking \subseteq PCs(Srv) /\ After(Srv) = "sleeping"
    BY TaskFacts, WhereTasksAre, AfterFacts
  <2>1. CASE Rescan
    <3>1. May(Srv) /\ pc[Srv] = "sleeping"
      BY <2>0, <2>1, AtMay DEF Rescan
    <3> QED
      BY <2>0, <2>1, <3>1 DEF Rescan, KindOfStep, Enters
  <2>2. CASE ApplyRescan
    <3>1. May(Srv) /\ pc[Srv] = "locked"
      BY <2>0, <2>2, AtMay DEF ApplyRescan
    <3>2. lock' = lock /\ \E label \in {"syncing", "finishing"} : pc' = [pc EXCEPT ![Srv] = label]
      BY <2>2 DEF ApplyRescan, GoTo
    <3> QED
      BY <2>0, <3>1, <3>2, TurnKind
  <2>3. CASE FinishRescan
    <3>1. May(Srv) /\ pc[Srv] = "finishing"
      BY <2>0, <2>3, AtMay DEF FinishRescan
    <3> QED
      BY <2>0, <2>3, <3>1, LeaveKind DEF FinishRescan
  <2>4. CASE StopPolling
    <3>1. May(Srv) /\ pc[Srv] = "sleeping"
      BY <2>0, <2>4, AtMay DEF StopPolling
    <3> QED
      BY <2>0, <2>4, <3>1, TurnKind DEF StopPolling, GoTo
  <2> QED
    BY <1>5, <2>1, <2>2, <2>3, <2>4 DEF PollingStep
<1>6. ASSUME CloserStep PROVE KindOfStep
  <2>0. Closer \in Processes
    BY TaskFacts
  <2>1. May(Closer) /\ pc[Closer] \notin Locking
    <3>1. PICK label \in {"idle", "stopping", "awaiting monitor", "awaiting polling", "removing",
                          "removing pool"} : At(Closer, label)
      BY <1>6 DEF CloserStep, Close, AwaitMonitor, MonitorEnded, AwaitPolling, PollingEnded,
         CloseServer, PoolClosed, EndClose
    <3> QED
      BY <2>0, <3>1, AtMay
  <2>2. /\ lock' = lock
        /\ pc' = pc \/ \E label \in PCs(Closer) : pc' = [pc EXCEPT ![Closer] = label]
    BY <1>6, WhereTasksAre DEF CloserStep, Close, AwaitMonitor, MonitorEnded, AwaitPolling,
       PollingEnded, CloseServer, PoolClosed, EndClose, GoTo
  <2>3. CASE pc' = pc
    BY <2>2, <2>3 DEF KindOfStep, Stands
  <2>4. \A label \in PCs(Closer) : label \notin Locking
    BY LockingTasks
  <2> QED
    BY <2>0, <2>1, <2>2, <2>3, <2>4, TurnKind
<1>7. CASE UNCHANGED vars
  BY <1>7 DEF vars, KindOfStep, Stands
<1> QED
  BY <1>1, <1>2, <1>3, <1>4, <1>5, <1>6, <1>7 DEF Next

LEMMA LockSequences ==
    ASSUME TasksTyped
    PROVE  /\ Len(lock) \in Nat /\ (lock = <<>> <=> Len(lock) = 0)
           /\ \A i \in 1 .. Len(lock) : lock[i] \in Processes \cup {Nobody}
           /\ lock # <<>> => Head(lock) = lock[1]
           /\ \A p \in Processes :
                 /\ Append(lock, p) \in Seq(Processes \cup {Nobody})
                 /\ Len(Append(lock, p)) = Len(lock) + 1
                 /\ \A i \in 1 .. Len(lock) : Append(lock, p)[i] = lock[i]
                 /\ Append(lock, p)[Len(lock) + 1] = p
           /\ lock # <<>> =>
                 LET tail == Tail(lock)
                     lost == <<Nobody>> \o Tail(lock) IN
                 /\ tail \in Seq(Processes \cup {Nobody}) /\ Len(tail) = Len(lock) - 1
                 /\ \A i \in 1 .. Len(lock) - 1 : tail[i] = lock[i + 1]
                 /\ lost \in Seq(Processes \cup {Nobody}) /\ Len(lost) = Len(lock)
                 /\ lost[1] = Nobody
                 /\ \A i \in 2 .. Len(lock) : lost[i] = lock[i]
<1> DEFINE T == Processes \cup {Nobody}
<1>1. lock \in Seq(T)
  BY DEF TasksTyped
<1> HIDE DEF T
<1>2. Len(lock) \in Nat /\ (lock = <<>> <=> Len(lock) = 0)
  BY <1>1, LenProperties, EmptySeq
<1>3. \A i \in 1 .. Len(lock) : lock[i] \in T
  BY <1>1, ElementOfSeq
<1>4. lock # <<>> => Head(lock) = lock[1]
  BY <1>1
<1>5. ASSUME NEW p \in Processes
      PROVE  /\ Append(lock, p) \in Seq(T)
             /\ Len(Append(lock, p)) = Len(lock) + 1
             /\ \A i \in 1 .. Len(lock) : Append(lock, p)[i] = lock[i]
             /\ Append(lock, p)[Len(lock) + 1] = p
  <2>1. p \in T
    BY DEF T
  <2> QED
    BY <1>1, <2>1, AppendProperties
<1>6. ASSUME lock # <<>>
      PROVE  LET tail == Tail(lock)
                 lost == <<Nobody>> \o Tail(lock) IN
             /\ tail \in Seq(T) /\ Len(tail) = Len(lock) - 1
             /\ \A i \in 1 .. Len(lock) - 1 : tail[i] = lock[i + 1]
             /\ lost \in Seq(T) /\ Len(lost) = Len(lock)
             /\ lost[1] = Nobody
             /\ \A i \in 2 .. Len(lock) : lost[i] = lock[i]
  <2> DEFINE tail == Tail(lock)
             one == <<Nobody>>
             lost == one \o tail
  <2>1. tail \in Seq(T) /\ Len(tail) = Len(lock) - 1
        /\ \A i \in 1 .. Len(lock) - 1 : tail[i] = lock[i + 1]
    BY <1>1, <1>6, HeadTailProperties
  <2>2. one \in Seq(T) /\ Len(one) = 1 /\ one[1] = Nobody
    BY DEF T
  <2> HIDE DEF tail, one
  <2>3. tail \in Seq(T) /\ one \in Seq(T)
    BY <2>1, <2>2
  <2>4. lost \in Seq(T) /\ Len(lost) = Len(one) + Len(tail)
    BY <2>3, ConcatProperties
  <2>5. \A i \in 1 .. Len(one) + Len(tail) :
           lost[i] = IF i <= Len(one) THEN one[i] ELSE tail[i - Len(one)]
    BY <2>3, ConcatProperties
  <2> HIDE DEF lost
  <2>6. Len(lost) = Len(lock) /\ lost[1] = Nobody
    BY <1>2, <1>6, <2>1, <2>2, <2>4, <2>5
  <2>7. \A i \in 2 .. Len(lock) : lost[i] = lock[i]
    <3> TAKE i \in 2 .. Len(lock)
    <3>1. i \in 1 .. Len(one) + Len(tail) /\ ~(i <= Len(one)) /\ i - 1 \in 1 .. Len(lock) - 1
          /\ (i - 1) + 1 = i /\ i - Len(one) = i - 1
      BY <1>2, <2>1, <2>2
    <3> QED
      BY <2>1, <2>5, <3>1
  <2> QED
    BY <2>1, <2>4, <2>6, <2>7 DEF tail, one, lost
<1> QED
  BY <1>2, <1>3, <1>4, <1>5, <1>6 DEF T

LEMMA MovedTasks ==
    ASSUME TasksTyped, NEW p \in Processes, NEW label, Moves(p, label)
    PROVE  /\ pc'[p] = label /\ \A q \in Processes \ {p} : pc'[q] = pc[q]
           /\ pc' \in [Processes -> Labels] /\ \A q \in Processes : pc'[q] \in PCs(q)
  BY LabelsOf DEF Moves, TasksTyped

LEMMA SpawnedTasks ==
    ASSUME TasksTyped, NEW p \in Processes, Spawns(p)
    PROVE  /\ pc'[p] = "finishing"
           /\ \A q \in Processes \ {p} :
                 pc'[q] = pc[q] \/ (q \in Monitors /\ pc[q] = "idle" /\ pc'[q] = "spawned")
           /\ pc' \in [Processes -> Labels] /\ \A q \in Processes : pc'[q] \in PCs(q)
<1>1. "finishing" \in PCs(p)
  BY LockingTasks DEF Spawns, Locking
<1>2. \A q \in Monitors : "spawned" \in PCs(q)
  BY WhereTasksAre DEF Monitors
<1>3. PICK watched \in SUBSET Monitors :
         pc' = [q \in Processes |->
                   CASE q = p -> "finishing"
                     [] q \in watched /\ pc[q] = "idle" -> "spawned"
                     [] OTHER -> pc[q]]
  BY DEF Spawns
<1>4. pc'[p] = "finishing"
  <2>1. pc[p] = "syncing"
    BY DEF Spawns
  <2> QED
    BY <1>3, <2>1
<1>5. \A q \in Processes \ {p} :
         pc'[q] = pc[q] \/ (q \in Monitors /\ pc[q] = "idle" /\ pc'[q] = "spawned")
  BY <1>3
<1>6. \A q \in Processes : pc'[q] \in PCs(q)
  BY <1>1, <1>2, <1>4, <1>5 DEF TasksTyped
<1>7. pc' \in [Processes -> Labels]
  BY <1>3, <1>6, LabelsOf
<1> QED
  BY <1>4, <1>5, <1>6, <1>7

\* Entering and waking move as well.
LEMMA LockMoves ==
    ASSUME TasksTyped, NEW p \in Processes, Enters(p) \/ Wakes(p)
    PROVE  /\ pc'[p] \in {"locked", "queued"} /\ \A q \in Processes \ {p} : pc'[q] = pc[q]
           /\ pc' \in [Processes -> Labels] /\ \A q \in Processes : pc'[q] \in PCs(q)
<1>1. {"locked", "queued"} \subseteq PCs(p)
  BY LockingTasks DEF Enters, Wakes, Locking
<1>2. PICK label \in {"locked", "queued"} : pc' = [pc EXCEPT ![p] = label]
  BY DEF Enters, Wakes, Enter, GoTo
<1>3. Moves(p, label)
  BY <1>1, <1>2 DEF Moves, Enters, Wakes
<1> QED
  BY <1>3, MovedTasks

LEMMA TasksMove ==
    ASSUME TasksTyped, KindOfStep
    PROVE  /\ pc' \in [Processes -> Labels] /\ \A q \in Processes : pc'[q] \in PCs(q)
           /\ \E p \in Processes :
                 /\ May(p) \/ pc'[p] = pc[p]
                 /\ \A q \in Processes \ {p} :
                       pc'[q] = pc[q] \/ (q \in Monitors /\ pc[q] = "idle" /\ pc'[q] = "spawned")
<1>1. CASE Stands
  BY <1>1, TaskFacts DEF Stands, TasksTyped
<1>2. ASSUME NEW p \in Processes, Enters(p) \/ Wakes(p)
      PROVE  /\ pc' \in [Processes -> Labels] /\ \A q \in Processes : pc'[q] \in PCs(q)
             /\ May(p) /\ \A q \in Processes \ {p} : pc'[q] = pc[q]
  BY <1>2, LockMoves DEF Enters, Wakes
<1>3. ASSUME NEW p \in Processes, Spawns(p)
      PROVE  /\ pc' \in [Processes -> Labels] /\ \A q \in Processes : pc'[q] \in PCs(q)
             /\ May(p)
             /\ \A q \in Processes \ {p} :
                   pc'[q] = pc[q] \/ (q \in Monitors /\ pc[q] = "idle" /\ pc'[q] = "spawned")
  BY <1>3, SpawnedTasks DEF Spawns
<1>4. ASSUME NEW p \in Processes, NEW label,
             Turns(p, label) \/ Releases(p, label) \/ Raises(p, label)
      PROVE  /\ pc' \in [Processes -> Labels] /\ \A q \in Processes : pc'[q] \in PCs(q)
             /\ May(p) /\ \A q \in Processes \ {p} : pc'[q] = pc[q]
  BY <1>4, MovedTasks DEF Turns, Releases, Raises, Moves
<1> QED
  BY <1>1, <1>2, <1>3, <1>4 DEF KindOfStep

LEMMA OneRunsStep == ASSUME TasksTyped, OneRuns, KindOfStep PROVE OneRuns'
<1>1. PICK p \in Processes :
         /\ May(p) \/ pc'[p] = pc[p]
         /\ \A q \in Processes \ {p} :
               pc'[q] = pc[q] \/ (q \in Monitors /\ pc[q] = "idle" /\ pc'[q] = "spawned")
  BY TasksMove
<1>2. \A q \in Processes \ {p} : pc'[q] \in Running => pc[q] \in Running
  BY <1>1 DEF Running
<1> QED
  BY <1>1, <1>2 DEF OneRuns, May, Quiet

\* Only one task owns the lock.
LEMMA OneOwns ==
    ASSUME LockIsHeld
    PROVE  \A p, q \in Processes : pc[p] \in Owning /\ pc[q] \in Owning => p = q
  BY DEF LockIsHeld

LEMMA OwnerIsHead ==
    ASSUME TasksTyped, LockIsHeld, NEW p \in Processes, pc[p] \in Owning
    PROVE  /\ lock # <<>> /\ Len(lock) > 0 /\ lock[1] = p
           /\ \A i \in 2 .. Len(lock) : lock[i] # p
           /\ ~Lost
<1>1. Len(lock) \in Nat /\ (lock = <<>> <=> Len(lock) = 0)
  BY LockSequences
<1>2. Len(lock) > 0 /\ lock[1] = p
  BY DEF LockIsHeld
<1>3. \A i \in 2 .. Len(lock) : lock[i] # p
  BY <1>1, <1>2 DEF LockIsHeld
<1>4. ~Lost
  <2> SUFFICES ASSUME NEW i \in 1 .. Len(lock), lock[i] = Nobody PROVE FALSE
    BY DEF Lost
  <2>1. i # 1
    BY <1>2, TaskFacts
  <2>2. i \in 2 .. Len(lock)
    BY <1>1, <2>1
  <2> QED
    BY <2>2, TaskFacts DEF LockIsHeld
<1> QED
  BY <1>1, <1>2, <1>3, <1>4

LEMMA LockStep ==
    ASSUME TasksTyped, LockIsHeld, KindOfStep
    PROVE  LockIsHeld' /\ lock' \in Seq(Processes \cup {Nobody}) /\ (Lost => Lost')
<1>0. Len(lock) \in Nat /\ \A i \in 1 .. Len(lock) : lock[i] \in Processes \cup {Nobody}
  BY LockSequences
<1>1. ASSUME lock' = lock,
             \A q \in Processes : /\ pc'[q] \in Locking <=> pc[q] \in Locking
                                  /\ pc'[q] \in Owning => pc[q] \in Owning \/ lock[1] = q
                                  /\ pc[q] = "queued" => pc'[q] = "queued" \/ lock[1] = q
      PROVE  LockIsHeld' /\ lock' \in Seq(Processes \cup {Nobody}) /\ (Lost => Lost')
  <2>1. \A p \in Processes : pc'[p] \in Owning => Len(lock) > 0 /\ lock[1] = p
    <3>1. \A p \in Processes : pc'[p] \in Owning => pc[p] \in Locking
      BY <1>1 DEF Owning
    <3>2. \A p \in Processes : pc[p] \in Locking => Len(lock) > 0
      BY <1>0 DEF LockIsHeld
    <3> QED
      BY <1>1, <3>1, <3>2 DEF LockIsHeld
  <2>2. \A i \in 2 .. Len(lock) : lock[i] \in Processes /\ pc'[lock[i]] = "queued"
    <3> TAKE i \in 2 .. Len(lock)
    <3>1. lock[i] \in Processes /\ pc[lock[i]] = "queued" /\ lock[1] # lock[i]
      BY <1>0 DEF LockIsHeld
    <3> QED
      BY <1>1, <3>1
  <2>3. \A p \in Processes : pc'[p] \in Locking => \E i \in 1 .. Len(lock) : lock[i] = p
    BY <1>1 DEF LockIsHeld
  <2>4. \A i \in 1 .. Len(lock) : lock[i] \in Processes => pc'[lock[i]] \in Locking
    BY <1>1 DEF LockIsHeld
  <2>5. \A i, j \in 1 .. Len(lock) : lock[i] = lock[j] => i = j
    BY DEF LockIsHeld
  <2> QED
    BY <1>1, <2>1, <2>2, <2>3, <2>4, <2>5 DEF LockIsHeld, TasksTyped, Lost
<1>2. CASE Stands
  BY <1>1, <1>2 DEF Stands
<1>3. ASSUME NEW p \in Processes, NEW label, Turns(p, label)
      PROVE  LockIsHeld' /\ lock' \in Seq(Processes \cup {Nobody}) /\ (Lost => Lost')
  <2>1. pc'[p] = label /\ \A q \in Processes \ {p} : pc'[q] = pc[q]
    BY <1>3, MovedTasks DEF Turns
  <2> QED
    BY <1>1, <1>3, <2>1 DEF Turns, Owning, Locking
<1>4. ASSUME NEW p \in Processes, Spawns(p)
      PROVE  LockIsHeld' /\ lock' \in Seq(Processes \cup {Nobody}) /\ (Lost => Lost')
  <2>1. /\ pc'[p] = "finishing" /\ pc[p] = "syncing" /\ lock' = lock
        /\ \A q \in Processes \ {p} : pc'[q] = pc[q] \/ (pc[q] = "idle" /\ pc'[q] = "spawned")
    BY <1>4, SpawnedTasks DEF Spawns
  <2> QED
    BY <1>1, <2>1 DEF Owning, Locking
<1>5. ASSUME NEW p \in Processes, Wakes(p)
      PROVE  LockIsHeld' /\ lock' \in Seq(Processes \cup {Nobody}) /\ (Lost => Lost')
  <2>1. /\ pc[p] = "queued" /\ lock' = lock /\ Head(lock) = p
        /\ pc' = [pc EXCEPT ![p] = "locked"]
    BY <1>5 DEF Wakes, GoTo
  <2>2. pc'[p] = "locked" /\ \A q \in Processes \ {p} : pc'[q] = pc[q]
    BY <2>1 DEF TasksTyped
  <2>3. lock[1] = p
    <3>1. lock # <<>>
      <4>1. pc[p] \in Locking
        BY <2>1 DEF Locking
      <4>2. \E i \in 1 .. Len(lock) : lock[i] = p
        BY <4>1 DEF LockIsHeld
      <4> QED
        BY <1>0, <4>2, LockSequences
    <3> QED
      BY <2>1, <3>1, LockSequences
  <2> QED
    BY <1>1, <2>1, <2>2, <2>3 DEF Owning, Locking
<1>6. ASSUME NEW p \in Processes, Enters(p)
      PROVE  LockIsHeld' /\ lock' \in Seq(Processes \cup {Nobody}) /\ (Lost => Lost')
  <2>1. /\ pc[p] \notin Locking /\ lock' = Append(lock, p)
        /\ pc' = [pc EXCEPT ![p] = IF lock = <<>> THEN "locked" ELSE "queued"]
    BY <1>6 DEF Enters, Enter, GoTo
  <2>2. /\ lock' \in Seq(Processes \cup {Nobody}) /\ Len(lock') = Len(lock) + 1
        /\ \A i \in 1 .. Len(lock) : lock'[i] = lock[i]
        /\ lock'[Len(lock) + 1] = p
    BY <2>1, LockSequences
  <2>3. /\ pc'[p] = IF Len(lock) = 0 THEN "locked" ELSE "queued"
        /\ \A q \in Processes \ {p} : pc'[q] = pc[q]
    BY <2>1, LockSequences DEF TasksTyped
  <2>4. \A i \in 1 .. Len(lock) : lock[i] # p
    BY <2>1 DEF LockIsHeld
  <2>5. \A i \in 1 .. Len(lock') : i = Len(lock) + 1 \/ i \in 1 .. Len(lock)
    BY <1>0, <2>2
  <2>6. \A q \in Processes : pc'[q] \in Locking => \E i \in 1 .. Len(lock') : lock'[i] = q
    <3>1. 1 .. Len(lock) \subseteq 1 .. Len(lock') /\ Len(lock) + 1 \in 1 .. Len(lock')
      BY <1>0, <2>2
    <3>2. ASSUME NEW q \in Processes \ {p}, pc'[q] \in Locking
          PROVE  \E i \in 1 .. Len(lock') : lock'[i] = q
      <4>1. PICK i \in 1 .. Len(lock) : lock[i] = q
        BY <2>3, <3>2 DEF LockIsHeld
      <4> QED
        BY <2>2, <3>1, <4>1
    <3> QED
      BY <2>2, <3>1, <3>2
  <2>7. \A q \in Processes : pc'[q] \in Owning => Len(lock') > 0 /\ lock'[1] = q
    <3>1. \A q \in Processes \ {p} : pc'[q] \in Owning => Len(lock) > 0 /\ lock[1] = q
      BY <2>3 DEF LockIsHeld
    <3>2. pc'[p] \in Owning => Len(lock) = 0
      BY <2>3 DEF Owning
    <3> QED
      BY <1>0, <2>2, <3>1, <3>2
  <2>8. \A i \in 1 .. Len(lock') : lock'[i] \in Processes => pc'[lock'[i]] \in Locking
    <3>1. pc'[p] \in Locking
      BY <2>3 DEF Locking
    <3> QED
      BY <2>2, <2>3, <2>4, <2>5, <3>1 DEF LockIsHeld
  <2>9. \A i \in 2 .. Len(lock') : lock'[i] \in Processes /\ pc'[lock'[i]] = "queued"
    <3> TAKE i \in 2 .. Len(lock')
    <3>1. CASE i = Len(lock) + 1
      <4>1. Len(lock) # 0
        BY <1>0, <3>1
      <4> QED
        BY <2>2, <2>3, <3>1, <4>1
    <3>2. CASE i \in 2 .. Len(lock)
      BY <1>0, <2>2, <2>3, <2>4, <3>2 DEF LockIsHeld
    <3> QED
      BY <1>0, <2>2, <3>1, <3>2
  <2>10. \A i, j \in 1 .. Len(lock') : lock'[i] = lock'[j] => i = j
    BY <2>2, <2>4, <2>5 DEF LockIsHeld
  <2>11. Lost => Lost'
    BY <1>0, <2>2 DEF Lost
  <2> QED
    BY <2>2, <2>6, <2>7, <2>8, <2>9, <2>10, <2>11 DEF LockIsHeld
<1>7. ASSUME NEW p \in Processes, NEW label, Releases(p, label) \/ Raises(p, label)
      PROVE  /\ pc'[p] = label /\ label \notin Locking /\ pc[p] \in Owning
             /\ \A q \in Processes \ {p} : pc'[q] = pc[q] /\ (pc[q] \in Locking => pc[q] = "queued")
             /\ lock # <<>> /\ Len(lock) > 0 /\ ~Lost /\ lock[1] = p
             /\ \A i \in 2 .. Len(lock) : lock[i] # p
  <2>1. pc'[p] = label /\ \A q \in Processes \ {p} : pc'[q] = pc[q]
    BY <1>7, MovedTasks DEF Releases, Raises
  <2>2. label \notin Locking /\ pc[p] \in Owning
    BY <1>7 DEF Releases, Raises, Locking
  <2>3. \A q \in Processes \ {p} : pc[q] \in Locking => pc[q] = "queued"
    BY <2>2, OneOwns DEF Owning
  <2> QED
    BY <2>1, <2>2, <2>3, OwnerIsHead
<1>8. ASSUME NEW p \in Processes, NEW label, Releases(p, label)
      PROVE  LockIsHeld' /\ lock' \in Seq(Processes \cup {Nobody}) /\ (Lost => Lost')
  <2>1. /\ lock' \in Seq(Processes \cup {Nobody}) /\ Len(lock') = Len(lock) - 1
        /\ \A i \in 1 .. Len(lock) - 1 : lock'[i] = lock[i + 1]
    BY <1>7, <1>8, LockSequences DEF Releases
  <2>2. \A i \in 1 .. Len(lock') : lock'[i] \in Processes \ {p} /\ pc'[lock'[i]] = "queued"
    <3> TAKE i \in 1 .. Len(lock')
    <3>1. i + 1 \in 2 .. Len(lock) /\ i \in 1 .. Len(lock) - 1
      BY <1>0, <2>1
    <3> QED
      BY <1>7, <1>8, <2>1, <3>1 DEF LockIsHeld
  <2>3. \A q \in Processes : pc'[q] \in Locking => \E i \in 1 .. Len(lock') : lock'[i] = q
    <3> SUFFICES ASSUME NEW q \in Processes, pc'[q] \in Locking
                 PROVE  \E i \in 1 .. Len(lock') : lock'[i] = q
      OBVIOUS
    <3>1. q # p /\ pc[q] \in Locking
      BY <1>7, <1>8
    <3>2. PICK i \in 1 .. Len(lock) : lock[i] = q
      BY <3>1 DEF LockIsHeld
    <3>3. i # 1
      BY <1>7, <1>8, <3>1, <3>2
    <3>4. i - 1 \in 1 .. Len(lock) - 1 /\ (i - 1) + 1 = i
      BY <1>0, <3>3
    <3>5. lock'[i - 1] = q
      BY <2>1, <3>2, <3>4
    <3> QED
      BY <2>1, <3>4, <3>5
  <2>4. \A q \in Processes : pc'[q] \notin Owning
    <3>1. \A q \in Processes \ {p} : pc'[q] \in Locking => pc'[q] = "queued"
      BY <1>7, <1>8
    <3> QED
      BY <1>7, <1>8, <3>1 DEF Owning
  <2>5. \A i \in 1 .. Len(lock') : lock'[i] \in Processes => pc'[lock'[i]] \in Locking
    BY <2>2 DEF Locking
  <2>6. \A i, j \in 1 .. Len(lock') : lock'[i] = lock'[j] => i = j
    <3> TAKE i, j \in 1 .. Len(lock')
    <3>1. /\ i + 1 \in 1 .. Len(lock) /\ j + 1 \in 1 .. Len(lock)
          /\ i \in 1 .. Len(lock) - 1 /\ j \in 1 .. Len(lock) - 1
      BY <1>0, <2>1
    <3>2. lock[i + 1] = lock[j + 1] => i + 1 = j + 1
      BY <3>1 DEF LockIsHeld
    <3> QED
      BY <2>1, <3>1, <3>2
  <2>7. 2 .. Len(lock') \subseteq 1 .. Len(lock')
    OBVIOUS
  <2> QED
    BY <1>7, <1>8, <2>1, <2>2, <2>3, <2>4, <2>5, <2>6, <2>7 DEF LockIsHeld
<1>9. ASSUME NEW p \in Processes, NEW label, Raises(p, label)
      PROVE  LockIsHeld' /\ lock' \in Seq(Processes \cup {Nobody}) /\ (Lost => Lost')
  <2>1. /\ lock' \in Seq(Processes \cup {Nobody}) /\ Len(lock') = Len(lock)
        /\ lock'[1] = Nobody /\ \A i \in 2 .. Len(lock) : lock'[i] = lock[i]
    BY <1>7, <1>9, LockSequences DEF Raises
  <2>2. \A i \in 1 .. Len(lock) : i = 1 \/ i \in 2 .. Len(lock)
    BY <1>0
  <2>3. \A i \in 2 .. Len(lock) : lock'[i] \in Processes \ {p} /\ pc'[lock'[i]] = "queued"
    BY <1>7, <1>9, <2>1 DEF LockIsHeld
  <2>4. \A q \in Processes : pc'[q] \in Locking => \E i \in 1 .. Len(lock) : lock'[i] = q
    <3> SUFFICES ASSUME NEW q \in Processes, pc'[q] \in Locking
                 PROVE  \E i \in 1 .. Len(lock) : lock'[i] = q
      OBVIOUS
    <3>1. q # p /\ pc[q] \in Locking
      BY <1>7, <1>9
    <3>2. PICK i \in 1 .. Len(lock) : lock[i] = q
      BY <3>1 DEF LockIsHeld
    <3> QED
      BY <1>7, <1>9, <2>1, <2>2, <3>1, <3>2
  <2>5. \A q \in Processes : pc'[q] \notin Owning
    <3>1. \A q \in Processes \ {p} : pc'[q] \in Locking => pc'[q] = "queued"
      BY <1>7, <1>9
    <3> QED
      BY <1>7, <1>9, <3>1 DEF Owning
  <2>6. \A i \in 1 .. Len(lock) : lock'[i] \in Processes => pc'[lock'[i]] \in Locking
    BY <2>1, <2>2, <2>3, TaskFacts DEF Locking
  <2>7. \A i, j \in 1 .. Len(lock) : lock'[i] = lock'[j] => i = j
    BY <2>1, <2>2, <2>3, TaskFacts DEF LockIsHeld
  <2> QED
    BY <1>7, <1>9, <2>1, <2>3, <2>4, <2>5, <2>6, <2>7 DEF LockIsHeld
<1> QED
  BY <1>2, <1>3, <1>4, <1>5, <1>6, <1>8, <1>9 DEF KindOfStep

\* A step that raises loses the lock.
LEMMA RaisesLose ==
    ASSUME TasksTyped, LockIsHeld, NEW p \in Processes, pc[p] \in Owning, RaiseUnderLock(p)
    PROVE  Lost'
<1>1. lock # <<>> /\ Len(lock) > 0 /\ Len(lock) \in Nat
  BY OwnerIsHead, LockSequences
<1>2. Len(lock') = Len(lock) /\ lock'[1] = Nobody
  BY <1>1, LockSequences DEF RaiseUnderLock, LoseLock
<1> QED
  BY <1>1, <1>2 DEF Lost

-----------------------------------------------------------------------------
(* Which steps change a variable.                                          *)

LEMMA StateChanges ==
    ASSUME [Next]_vars
    PROVE  \/ UNCHANGED state
           \/ Close
  BY DEF UnderLock, MonitorStep, MaintenanceStep, HandlerStep, PollingStep, CloserStep,
     Wake, ProcessDescription, SyncRemove, SyncPoolClosed, SyncAdd, SyncWatch,
     FinishError, Rest, StartCheck, CheckReturns, FinishCheck, Maintain, Connected,
     ConnectionFails, EndMaintenance, Borrow, Succeed, Report, Rescan, ApplyRescan,
     FinishRescan, StopPolling, AwaitMonitor, MonitorEnded, AwaitPolling, PollingEnded,
     CloseServer, PoolClosed, EndClose, HandleApplicationError, Enter, vars,
     managerVars, taskVars, boundVars, Next

LEMMA DescriptionChanges ==
    ASSUME [Next]_vars
    PROVE  \/ UNCHANGED description
           \/ \E p \in Processes \ {Closer} : ProcessDescription(p) \/ FinishError(p)
           \/ \E e \in Opened : FinishCheck(e)
           \/ ApplyRescan \/ Close
  BY DEF UnderLock, MonitorStep, MaintenanceStep, HandlerStep, PollingStep, CloserStep,
     Wake, SyncRemove, SyncPoolClosed, SyncAdd, SyncWatch, Rest, StartCheck,
     CheckReturns, Maintain, Connected, ConnectionFails, EndMaintenance, Borrow,
     Succeed, Report, Rescan, FinishRescan, StopPolling, AwaitMonitor, MonitorEnded,
     AwaitPolling, PollingEnded, CloseServer, PoolClosed, EndClose,
     HandleApplicationError, Enter, vars, managerVars, taskVars, boundVars, Next

LEMMA ServersChange ==
    ASSUME [Next]_vars
    PROVE  \/ UNCHANGED servers
           \/ \E p \in Processes \ {Closer} : SyncRemove(p) \/ SyncPoolClosed(p) \/ SyncAdd(p)
           \/ CloseServer \/ PoolClosed
  BY DEF UnderLock, MonitorStep, MaintenanceStep, HandlerStep, PollingStep, CloserStep,
     Wake, ProcessDescription, SyncWatch, FinishError, Rest, StartCheck, CheckReturns,
     FinishCheck, Maintain, Connected, ConnectionFails, EndMaintenance, Borrow, Succeed,
     Report, Rescan, ApplyRescan, FinishRescan, StopPolling, Close, AwaitMonitor,
     MonitorEnded, AwaitPolling, PollingEnded, EndClose, HandleApplicationError, Enter,
     vars, managerVars, taskVars, boundVars, Next

LEMMA SyncChanges ==
    ASSUME [Next]_vars
    PROVE  \/ UNCHANGED sync
           \/ \E p \in Processes \ {Closer} :
                 \/ ProcessDescription(p) \/ SyncRemove(p) \/ SyncPoolClosed(p)
                 \/ SyncAdd(p) \/ SyncWatch(p)
           \/ ApplyRescan
  BY DEF UnderLock, MonitorStep, MaintenanceStep, HandlerStep, PollingStep, CloserStep,
     Wake, FinishError, Rest, StartCheck, CheckReturns, FinishCheck, Maintain,
     Connected, ConnectionFails, EndMaintenance, Borrow, Succeed, Report, Rescan,
     FinishRescan, StopPolling, Close, AwaitMonitor, MonitorEnded, AwaitPolling,
     PollingEnded, CloseServer, PoolClosed, EndClose, HandleApplicationError, Enter,
     vars, managerVars, taskVars, boundVars, Next

LEMMA ClosingChanges ==
    ASSUME [Next]_vars
    PROVE  \/ UNCHANGED closing
           \/ Close \/ AwaitMonitor \/ CloseServer
  BY DEF UnderLock, MonitorStep, MaintenanceStep, HandlerStep, PollingStep, CloserStep,
     Wake, ProcessDescription, SyncRemove, SyncPoolClosed, SyncAdd, SyncWatch,
     FinishError, Rest, StartCheck, CheckReturns, FinishCheck, Maintain, Connected,
     ConnectionFails, EndMaintenance, Borrow, Succeed, Report, Rescan, ApplyRescan,
     FinishRescan, StopPolling, MonitorEnded, AwaitPolling, PollingEnded, PoolClosed,
     EndClose, HandleApplicationError, Enter, vars, managerVars, taskVars, boundVars,
     Next

LEMMA CancelledChanges ==
    ASSUME [Next]_vars
    PROVE  \/ UNCHANGED cancelled
           \/ \E p \in Processes \ {Closer} : SyncRemove(p) \/ FinishError(p)
           \/ \E e \in Opened : CheckReturns(e)
           \/ Close \/ CloseServer
  BY DEF UnderLock, MonitorStep, MaintenanceStep, HandlerStep, PollingStep, CloserStep,
     Wake, ProcessDescription, SyncPoolClosed, SyncAdd, SyncWatch, Rest, StartCheck,
     FinishCheck, Maintain, Connected, ConnectionFails, EndMaintenance, Borrow, Succeed,
     Report, Rescan, ApplyRescan, FinishRescan, StopPolling, AwaitMonitor, MonitorEnded,
     AwaitPolling, PollingEnded, PoolClosed, EndClose, HandleApplicationError, Enter,
     vars, managerVars, taskVars, boundVars, Next

LEMMA WorkChanges ==
    ASSUME [Next]_vars
    PROVE  \/ UNCHANGED <<held, work, failures, rescans>>
           \/ \E p \in Processes \ {Closer} : FinishError(p)
           \/ \E e \in Opened : StartCheck(e) \/ CheckReturns(e) \/ FinishCheck(e) \/ ConnectionFails(e)
           \/ \E h \in Handlers : HandlerStep(h)
           \/ Rescan \/ FinishRescan
  BY DEF UnderLock, MonitorStep, MaintenanceStep, PollingStep, CloserStep, Wake,
     ProcessDescription, SyncRemove, SyncPoolClosed, SyncAdd, SyncWatch, Rest, Maintain,
     Connected, EndMaintenance, ApplyRescan, StopPolling, Close, AwaitMonitor,
     MonitorEnded, AwaitPolling, PollingEnded, CloseServer, PoolClosed, EndClose, Enter,
     vars, managerVars, taskVars, boundVars, Next

LEMMA HandleEffects ==
    ASSUME ManagerTyped, TasksTyped, NEW p \in Handlers \cup Maintainers, NEW a \in Addresses,
           NEW generation \in Nat, NEW clears \in BOOLEAN,
           HandleApplicationError(p, a, generation, clears)
    PROVE  \/ UNCHANGED <<held, work, lock>> /\ GoTo(p, After(p))
           \/ /\ UNCHANGED <<held, work, lock>> /\ GoTo(p, "failed")
              /\ Known(a) /\ Current(a) = NoEntry
           \/ /\ Known(a) /\ Current(a) \in Opened /\ Enter(p)
              /\ generation = entries[Current(a)].generation
              /\ \E w \in Work : /\ w.address = a /\ w.generation = generation
                                 /\ w.clears = clears /\ work' = [work EXCEPT ![p] = w]
              /\ held' = [held EXCEPT ![p] = Current(a)]
<1>1. Current(a) # NoEntry => Current(a) \in Opened
  BY OpenedEntries DEF Current
<1> DEFINE w == [address |-> a, reply |-> Failure, generation |-> generation, clears |-> clears]
<1>2. w \in Work /\ w.address = a /\ w.generation = generation /\ w.clears = clears
  BY HeardAreReplies DEF Work
<1>3. CASE work' = [work EXCEPT ![p] = w]
  BY <1>1, <1>2, <1>3 DEF HandleApplicationError, ApplicationErrorIsStale
<1>4. CASE work' # [work EXCEPT ![p] = w]
  BY <1>4 DEF HandleApplicationError, ApplicationErrorIsStale
<1> QED
  BY <1>3, <1>4

LEMMA HandlerCarries ==
    ASSUME Carries, NEW h \in Handlers, pc[h] = "using"
    PROVE  work[h] \in Work /\ work[h].address \in Addresses /\ work[h].generation \in Nat
  BY TaskFacts DEF Carries, CarriesItsOwn, Reports, Work

\* The generation that a failed connection is reported with.
LEMMA ConnectionFailsHandled ==
    ASSUME ManagerTyped, NEW e \in Opened, ConnectionFails(e)
    PROVE  /\ AddressOf(e) \in Addresses /\ Maintainer(e) \in Maintainers
           /\ \/ /\ GoTo(Maintainer(e), "caught") /\ UNCHANGED <<work, held, lock>>
                 /\ Known(AddressOf(e)) /\ Current(AddressOf(e)) = NoEntry
              \/ /\ ~(Known(AddressOf(e)) /\ Current(AddressOf(e)) = NoEntry)
                 /\ \E generation \in Nat :
                       HandleApplicationError(Maintainer(e), AddressOf(e), generation, TRUE)
<1> DEFINE a == AddressOf(e)
           generation == IF Known(a) THEN entries[Current(a)].generation ELSE 0
<1>1. a \in Addresses /\ Maintainer(e) \in Maintainers
  BY OpenedEntries, TaskFacts DEF AddressOf, Entry
<1>2. CASE Known(a) /\ Current(a) = NoEntry
  BY <1>1, <1>2 DEF ConnectionFails
<1>3. CASE ~(Known(a) /\ Current(a) = NoEntry)
  <2>1. generation \in Nat
    BY <1>1, <1>3, OpenedEntries DEF Current, Entry
  <2>2. HandleApplicationError(Maintainer(e), a, generation, TRUE)
    BY <1>3 DEF ConnectionFails
  <2> HIDE DEF generation
  <2> QED
    BY <1>1, <1>3, <2>1, <2>2
<1> QED
  BY <1>2, <1>3

LEMMA ProcessDescriptionReads ==
    ASSUME ManagerTyped, Carries, NEW p \in Processes \ {Closer}, ProcessDescription(p)
    PROVE  /\ work[p].address \in Addresses /\ work[p].reply \in Replies /\ GenerationOf(p) \in Nat
           /\ p \in Reports /\ held[p] \in Opened /\ AddressOf(held[p]) = work[p].address
           /\ pc[p] = "locked"
<1>1. p \in Reports /\ pc[p] \in Locking /\ pc[p] = "locked"
  BY DEF ProcessDescription, At, Reports, Locking
<1>2. /\ work[p] \in Work /\ held[p] \in Opened /\ entries[held[p]] \in Entry
      /\ AddressOf(held[p]) = work[p].address
  BY <1>1, OpenedEntries DEF Carries, CarriesItsOwn
<1>3. GenerationOf(p) \in Nat
  BY <1>2 DEF GenerationOf, Work, Entry
<1> QED
  BY <1>1, <1>2, <1>3, HeardAreReplies DEF Work

LEMMA DescriptionTyped ==
    ASSUME ManagerTyped, TasksTyped, Carries, [Next]_vars
    PROVE  description' \in Descriptions
<1>0. description \in Descriptions
  BY DEF ManagerTyped
<1>1. ASSUME NEW p \in Processes \ {Closer}, ProcessDescription(p)
      PROVE  description' \in Descriptions
  <2>1. description' \in {description,
                          Update(description, work[p].address, work[p].reply, GenerationOf(p))}
    BY <1>1 DEF ProcessDescription
  <2> QED
    BY <1>0, <1>1, <2>1, ProcessDescriptionReads, UpdateKeeps
<1>2. ASSUME NEW p \in Processes \ {Closer}, FinishError(p)
      PROVE  description' \in Descriptions
  <2>1. /\ work[p].address \in Addresses
        /\ ClearedByError(p)[held[p]].generation \in Nat
    BY <1>2, ReporterCarries, FinishErrorEntries DEF FinishError, At, Locking
  <2>2. description' \in {description,
           WithGeneration(description, work[p].address, ClearedByError(p)[held[p]].generation)}
    BY <1>2 DEF FinishError, RecordGeneration
  <2> QED
    BY <1>0, <2>1, <2>2, WithGenerationTyped
<1>3. ASSUME NEW e \in Opened, FinishCheck(e)
      PROVE  description' \in Descriptions
  <2> DEFINE a == work[Monitor(e)].address
             generation == Clear(entries[Current(a)]).generation
  <2>1. a \in Addresses
    BY <1>3, FinishCheckEntries
  <2>2. CASE description' = description
    BY <1>0, <2>2
  <2>3. CASE description' # description
    <3>1. description' = WithGeneration(description, a, generation) /\ Current(a) # NoEntry
      BY <1>3, <2>3 DEF FinishCheck, RecordGeneration
    <3>2. generation \in Nat
      BY <2>1, <3>1, OpenedEntries, EntryOperators DEF Current, Follows, Entry
    <3> QED
      BY <1>0, <2>1, <3>1, <3>2, WithGenerationTyped
  <2> QED
    BY <2>2, <2>3
<1>4. ASSUME ApplyRescan
      PROVE  description' \in Descriptions
  <2>1. work[Srv] \in SUBSET Addresses
    BY <1>4 DEF ApplyRescan, At, Carries, Locking
  <2> QED
    BY <1>0, <1>4, <2>1, WithSrvHostsKeeps DEF ApplyRescan, Evolves
<1>5. ASSUME Close
      PROVE  description' \in Descriptions
  BY <1>0, <1>5, ClosedTyped DEF Close
<1>6. CASE UNCHANGED description
  BY <1>0, <1>6
<1> QED
  BY <1>1, <1>2, <1>3, <1>4, <1>5, <1>6, DescriptionChanges

LEMMA ServersTyped ==
    ASSUME ManagerTyped, TasksTyped, Carries, [Next]_vars
    PROVE  servers' \in [Addresses -> MaybeEntry']
<1>0. MaybeEntry \subseteq MaybeEntry' /\ NoEntry \in MaybeEntry'
  BY StepsEvolve, EvolvedEntries DEF MaybeEntry
<1>1. ASSUME NEW p \in Processes \ {Closer}, SyncAdd(p)
      PROVE  servers' \in [Addresses -> MaybeEntry']
  <2>1. Opened' = 1 .. Len(entries')
    BY StepsEvolve, EvolvedEntries
  <2>2. \A a \in Addresses : servers'[a] \in MaybeEntry'
    BY <1>0, <1>1, <2>1, SyncAddEntries DEF MaybeEntry, ManagerTyped
  <2>3. servers' = [a \in Addresses |-> servers'[a]]
    BY <1>1 DEF SyncAdd
  <2> QED
    BY <2>2, <2>3
<1>2. ASSUME NEW a, servers' = [servers EXCEPT ![a] = NoEntry]
      PROVE  servers' \in [Addresses -> MaybeEntry']
  BY <1>0, <1>2 DEF ManagerTyped
<1>3. CASE UNCHANGED servers
  BY <1>0, <1>3 DEF ManagerTyped
<1>4. ASSUME NEW a, RemoveServer(a)
      PROVE  servers' \in [Addresses -> MaybeEntry']
  BY <1>2, <1>3, <1>4 DEF RemoveServer
<1>5. ASSUME NEW p \in Processes, SyncRemove(p)
      PROVE  servers' \in [Addresses -> MaybeEntry']
  BY <1>3, <1>4, <1>5 DEF SyncRemove
<1>6. ASSUME CloseServer
      PROVE  servers' \in [Addresses -> MaybeEntry']
  BY <1>3, <1>4, <1>6 DEF CloseServer
<1>7. ASSUME NEW p \in Processes, SyncPoolClosed(p) \/ PoolClosed
      PROVE  servers' \in [Addresses -> MaybeEntry']
  BY <1>2, <1>7 DEF SyncPoolClosed, PoolClosed
<1> QED
  BY <1>1, <1>3, <1>5, <1>6, <1>7, ServersChange, TaskFacts

LEMMA SyncTyped ==
    ASSUME ManagerTyped, TasksTyped, Carries, [Next]_vars
    PROVE  sync' \in [removing : SUBSET Addresses, adding : SUBSET Addresses,
                      watching : SUBSET Addresses, pool : MaybeEntry']
<1> DEFINE T == [removing : SUBSET Addresses, adding : SUBSET Addresses,
                 watching : SUBSET Addresses, pool : MaybeEntry']
<1>0. MaybeEntry \subseteq MaybeEntry' /\ NoEntry \in MaybeEntry'
  BY StepsEvolve, EvolvedEntries DEF MaybeEntry
<1>1. sync \in T
  BY <1>0 DEF TasksTyped
<1>2. \A old, new : Syncing(old, new) \in T
  BY <1>0 DEF Syncing, Present
<1>3. ASSUME NEW p, ProcessDescription(p) \/ ApplyRescan
      PROVE  sync' \in T
  BY <1>1, <1>2, <1>3 DEF ProcessDescription, ApplyRescan
<1>4. ASSUME NEW p \in Processes, SyncRemove(p)
      PROVE  sync' \in T
  <2>1. PICK a \in sync.removing :
           \/ sync' = [sync EXCEPT !.removing = @ \ {a}]
           \/ /\ sync' = [sync EXCEPT !.removing = @ \ {a}, !.pool = Current(a)]
              /\ Current(a) # NoEntry
    BY <1>4 DEF SyncRemove
  <2>2. Current(a) \in MaybeEntry'
    BY <1>0, <2>1 DEF ManagerTyped, TasksTyped, Current
  <2> QED
    BY <1>1, <2>1, <2>2
<1>5. ASSUME NEW p \in Processes, SyncPoolClosed(p)
      PROVE  sync' \in T
  BY <1>0, <1>1, <1>5 DEF SyncPoolClosed
<1>6. ASSUME NEW p \in Processes, SyncAdd(p) \/ SyncWatch(p)
      PROVE  sync' \in T
  BY <1>1, <1>6 DEF SyncAdd, SyncWatch
<1>7. CASE UNCHANGED sync
  BY <1>1, <1>7
<1>8. sync' \in T
  BY <1>3, <1>4, <1>5, <1>6, <1>7, SyncChanges
<1> QED
  BY <1>8 DEF T

LEMMA ClosingTyped ==
    ASSUME ManagerTyped, TasksTyped, Carries, [Next]_vars
    PROVE  closing' \in [monitors : SUBSET Addresses, pools : SUBSET Addresses, entry : MaybeEntry']
<1> DEFINE T == [monitors : SUBSET Addresses, pools : SUBSET Addresses, entry : MaybeEntry']
<1>0. MaybeEntry \subseteq MaybeEntry' /\ NoEntry \in MaybeEntry'
  BY StepsEvolve, EvolvedEntries DEF MaybeEntry
<1>1. closing \in T
  BY <1>0 DEF TasksTyped
<1>2. \A a \in Addresses : Current(a) \in MaybeEntry'
  BY <1>0 DEF ManagerTyped, Current
<1>3. ASSUME Close
      PROVE  closing' \in T
  BY <1>0, <1>3 DEF Close
<1>4. ASSUME AwaitMonitor
      PROVE  closing' \in T
  BY <1>1, <1>2, <1>4 DEF AwaitMonitor
<1>5. ASSUME CloseServer
      PROVE  closing' \in T
  BY <1>1, <1>2, <1>5 DEF CloseServer
<1>6. CASE UNCHANGED closing
  BY <1>1, <1>6
<1>7. closing' \in T
  BY <1>3, <1>4, <1>5, <1>6, ClosingChanges
<1> QED
  BY <1>7 DEF T

LEMMA CancelledTyped ==
    ASSUME ManagerTyped, TasksTyped, Carries, [Next]_vars
    PROVE  cancelled' \subseteq Monitors
<1>0. cancelled \subseteq Monitors /\ \A e \in Opened : entries[e].check \in Monitors \cup {Nobody}
  BY OpenedEntries DEF TasksTyped, Entry
<1>1. ASSUME NEW a \in Addresses, Current(a) # NoEntry, CancelCheck(Current(a))
      PROVE  cancelled' \subseteq Monitors
  BY <1>0, <1>1, OpenedEntries DEF CancelCheck, Current
<1>2. ASSUME NEW p \in Processes \ {Closer}, SyncRemove(p)
      PROVE  cancelled' \subseteq Monitors
  <2>1. PICK a \in sync.removing :
           UNCHANGED cancelled \/ (Current(a) # NoEntry /\ RemoveServer(a))
    BY <1>2 DEF SyncRemove
  <2>2. a \in Addresses
    BY <2>1 DEF TasksTyped
  <2> QED
    BY <1>0, <1>1, <2>1, <2>2 DEF RemoveServer
<1>3. ASSUME CloseServer
      PROVE  cancelled' \subseteq Monitors
  <2>1. PICK a \in closing.pools :
           UNCHANGED cancelled \/ (Current(a) # NoEntry /\ RemoveServer(a))
    BY <1>3 DEF CloseServer
  <2>2. a \in Addresses
    BY <2>1 DEF TasksTyped
  <2> QED
    BY <1>0, <1>1, <2>1, <2>2 DEF RemoveServer
<1>4. ASSUME NEW p \in Processes \ {Closer}, FinishError(p)
      PROVE  cancelled' \subseteq Monitors
  <2>1. work[p].address \in Addresses
    BY <1>4, ReporterCarries DEF FinishError, At, Locking
  <2>2. \/ UNCHANGED cancelled
        \/ Current(work[p].address) # NoEntry /\ CancelCheck(Current(work[p].address))
    BY <1>4 DEF FinishError
  <2> QED
    BY <1>0, <1>1, <2>1, <2>2
<1>5. ASSUME NEW e \in Opened, CheckReturns(e)
      PROVE  cancelled' \subseteq Monitors
  BY <1>0, <1>5 DEF CheckReturns
<1>6. ASSUME Close
      PROVE  cancelled' \subseteq Monitors
  BY <1>0, <1>6, OpenedEntries DEF Close, Current
<1> QED
  BY <1>0, <1>2, <1>3, <1>4, <1>5, <1>6, CancelledChanges

WorkTypedAfter ==
    /\ held' \in [Processes -> MaybeEntry'] /\ work' \in [Processes -> AnyWork]
    /\ failures' \in 0 .. MaxFailures /\ rescans' \in 0 .. MaxRescans

LEMMA WorkTyped ==
    ASSUME ManagerTyped, TasksTyped, Carries, [Next]_vars
    PROVE  WorkTypedAfter
<1>0. MaybeEntry \subseteq MaybeEntry' /\ NoEntry \in MaybeEntry'
  BY StepsEvolve, EvolvedEntries DEF MaybeEntry
<1>00. /\ held \in [Processes -> MaybeEntry'] /\ work \in [Processes -> AnyWork]
       /\ failures \in 0 .. MaxFailures /\ rescans \in 0 .. MaxRescans
       /\ MaxFailures \in Nat /\ MaxRescans \in Nat
  BY <1>0, BoundsAreNatural DEF TasksTyped
<1>01. NoWork \in AnyWork /\ Work \subseteq AnyWork /\ SUBSET Addresses \subseteq AnyWork
  BY DEF AnyWork
<1>1. ASSUME NEW p, NEW w \in AnyWork, NEW c \in MaybeEntry',
             held' \in {held, [held EXCEPT ![p] = c]}, work' \in {work, [work EXCEPT ![p] = w]},
             failures' = failures \/ (failures < MaxFailures /\ failures' = failures + 1),
             rescans' = rescans \/ (rescans < MaxRescans /\ rescans' = rescans + 1)
      PROVE  WorkTypedAfter
  <2>1. held' \in [Processes -> MaybeEntry'] /\ work' \in [Processes -> AnyWork]
    BY <1>00, <1>1
  <2>2. failures' \in 0 .. MaxFailures /\ rescans' \in 0 .. MaxRescans
    BY <1>00, <1>1
  <2> QED
    BY <2>1, <2>2 DEF WorkTypedAfter
<1>2. \A a \in Addresses : Current(a) \in MaybeEntry'
  BY <1>0 DEF ManagerTyped, Current
<1>3. \A e \in Opened : AddressOf(e) \in Addresses
  BY OpenedEntries DEF AddressOf, Entry
<1>4. ASSUME NEW p \in Handlers \cup Maintainers, NEW a \in Addresses, NEW g \in Nat,
             NEW clears \in BOOLEAN, HandleApplicationError(p, a, g, clears), rescans' = rescans,
             failures' = failures \/ (failures < MaxFailures /\ failures' = failures + 1)
      PROVE  WorkTypedAfter
  <2>1. \/ UNCHANGED <<held, work>>
        \/ \E w \in Work : work' = [work EXCEPT ![p] = w] /\ held' = [held EXCEPT ![p] = Current(a)]
    BY <1>4, HandleEffects
  <2> QED
    BY <1>0, <1>01, <1>1, <1>2, <1>4, <2>1
<1>5. ASSUME NEW p \in Processes \ {Closer}, FinishError(p)
      PROVE  WorkTypedAfter
  BY <1>0, <1>01, <1>1, <1>5 DEF FinishError, boundVars
<1>6. ASSUME NEW e \in Opened, StartCheck(e)
      PROVE  WorkTypedAfter
  <2>1. held' \in {held, [held EXCEPT ![Monitor(e)] = Current(AddressOf(e))]}
        /\ UNCHANGED <<work, failures, rescans>>
    BY <1>6 DEF StartCheck, boundVars
  <2> QED
    BY <1>01, <1>1, <1>2, <1>3, <2>1
<1>7. ASSUME NEW e \in Opened, CheckReturns(e)
      PROVE  WorkTypedAfter
  <2>1. rescans' = rescans
        /\ \E c \in {NoEntry, Current(AddressOf(e))} : held' = [held EXCEPT ![Monitor(e)] = c]
    BY <1>7 DEF CheckReturns
  <2>2. \/ UNCHANGED <<work, failures>>
        \/ /\ failures' = failures \/ (failures < MaxFailures /\ failures' = failures + 1)
           /\ \E w \in Work : work' = [work EXCEPT ![Monitor(e)] = w]
    <3>1. CASE UNCHANGED <<work, failures>>
      BY <3>1
    <3>2. CASE ~UNCHANGED <<work, failures>>
      <4>1. PICK reply \in Heard :
               /\ reply = Failure => failures < MaxFailures
               /\ failures' = IF reply = Failure THEN failures + 1 ELSE failures
               /\ work' = [work EXCEPT ![Monitor(e)] =
                              [address |-> AddressOf(e), reply |-> reply,
                               generation |-> 0, clears |-> reply = Failure]]
        BY <1>7, <3>2 DEF CheckReturns
      <4>2. [address |-> AddressOf(e), reply |-> reply, generation |-> 0,
             clears |-> reply = Failure] \in Work
        BY <1>3 DEF Work
      <4> QED
        BY <4>1, <4>2
    <3> QED
      BY <3>1, <3>2
  <2> QED
    BY <1>0, <1>01, <1>1, <1>2, <1>3, <2>1, <2>2
<1>8. ASSUME NEW e \in Opened, FinishCheck(e)
      PROVE  WorkTypedAfter
  BY <1>0, <1>01, <1>1, <1>8 DEF FinishCheck, boundVars
<1>9. ASSUME NEW e \in Opened, ConnectionFails(e)
      PROVE  WorkTypedAfter
  <2>1. /\ rescans' = rescans
        /\ failures' = failures \/ (failures < MaxFailures /\ failures' = failures + 1)
    BY <1>9 DEF ConnectionFails
  <2>2. CASE UNCHANGED <<work, held>>
    BY <1>0, <1>01, <1>1, <2>1, <2>2
  <2> QED
    BY <1>4, <1>9, <2>1, <2>2, ConnectionFailsHandled
<1>10. ASSUME NEW h \in Handlers, HandlerStep(h)
       PROVE  WorkTypedAfter
  <2>1. ASSUME NEW a \in Addresses, Borrow(h, a)
        PROVE  WorkTypedAfter
    <3> DEFINE w == [address |-> a, reply |-> Failure,
                     generation |-> entries[Current(a)].generation, clears |-> FALSE]
    <3>1. w \in Work
      BY <2>1, OpenedEntries, HeardAreReplies DEF Borrow, IsServed, Current, Entry, Work
    <3>2. work' = [work EXCEPT ![h] = w] /\ UNCHANGED <<held, failures, rescans>>
      BY <2>1 DEF Borrow, boundVars
    <3> QED
      BY <1>0, <1>01, <1>1, <3>1, <3>2
  <2>2. ASSUME Succeed(h)
        PROVE  WorkTypedAfter
    BY <1>0, <1>01, <1>1, <2>2 DEF Succeed, boundVars
  <2>3. ASSUME Report(h)
        PROVE  WorkTypedAfter
    <3>1. /\ rescans' = rescans /\ failures < MaxFailures /\ failures' = failures + 1
          /\ pc[h] = "using"
          /\ \E clears \in BOOLEAN :
                HandleApplicationError(h, work[h].address, work[h].generation, clears)
      BY <2>3 DEF Report, At
    <3> QED
      BY <1>4, <3>1, HandlerCarries
  <2> QED
    BY <1>10, <2>1, <2>2, <2>3 DEF HandlerStep
<1>11. ASSUME Rescan
       PROVE  WorkTypedAfter
  <2>1. /\ UNCHANGED <<held, failures>> /\ rescans < MaxRescans /\ rescans' = rescans + 1
        /\ \E hosts \in SUBSET Addresses : work' = [work EXCEPT ![Srv] = hosts]
    BY <1>11 DEF Rescan
  <2> QED
    BY <1>0, <1>01, <1>1, <2>1
<1>12. ASSUME FinishRescan
       PROVE  WorkTypedAfter
  BY <1>0, <1>01, <1>1, <1>12 DEF FinishRescan, boundVars
<1>13. CASE UNCHANGED <<held, work, failures, rescans>>
  BY <1>0, <1>01, <1>1, <1>13
<1> QED
  BY <1>5, <1>6, <1>7, <1>8, <1>9, <1>10, <1>11, <1>12, <1>13, WorkChanges

LEMMA TypesStep ==
    ASSUME ManagerTyped, TasksTyped, LockIsHeld, Carries, Unopened, [Next]_vars
    PROVE  ManagerTyped' /\ TasksTyped'
<1>1. state' \in {"open", "closed_permanently"}
  BY StateChanges DEF ManagerTyped, Close
<1>2. ManagerTyped'
  BY <1>1, DescriptionTyped, StepsEvolve, ServersTyped DEF ManagerTyped, EntriesEvolve
<1>3. KindOfStep
  BY StepKinds
<1> QED
  BY <1>2, <1>3, LockStep, TasksMove, WorkTyped, CancelledTyped, SyncTyped, ClosingTyped
     DEF TasksTyped, WorkTypedAfter

-----------------------------------------------------------------------------
(* What tasks carry.                                                       *)

Carrying == Locking \cup {"using", "checking"}

\* q carries nothing after the step, or what it carried before.
Passive(q) ==
    \/ pc'[q] \notin Carrying
    \/ /\ work'[q] = work[q] /\ held'[q] = held[q]
       /\ pc'[q] = pc[q] \/ (pc[q] \in Locking /\ pc'[q] \in Locking)

LEMMA PassiveTask ==
    ASSUME ManagerTyped, TasksTyped, Carries, EntriesEvolve, NEW q \in Reports, Passive(q)
    PROVE  CarriesItsOwn(q)'
<1>1. /\ Opened \subseteq Opened'
      /\ \A e \in Opened : entries'[e].address = entries[e].address
                           /\ entries'[e].generation >= entries[e].generation
                           /\ entries'[e].generation \in Nat /\ entries[e].generation \in Nat
  BY OpenedEntries, EvolvedEntries DEF Entry
<1>2. CASE pc'[q] \notin Carrying
  BY <1>2 DEF CarriesItsOwn, Carrying
<1>3. CASE pc'[q] \in Carrying /\ pc'[q] \notin Locking
  BY <1>1, <1>3 DEF CarriesItsOwn, Carrying, Passive, Carries, Locking
<1>4. CASE pc'[q] \in Locking
  <2>1. /\ pc[q] \in Locking /\ work'[q] = work[q] /\ held'[q] = held[q]
    BY <1>4 DEF Passive, Carrying
  <2>2. /\ work[q] \in Work /\ held[q] \in Opened
        /\ AddressOf(held[q]) = work[q].address
        /\ q \in Monitors \/ work[q].generation <= entries[held[q]].generation
    BY <2>1 DEF Carries, CarriesItsOwn
  <2>3. work[q].generation \in Nat
    BY <2>2 DEF Work
  <2>4. AddressOf(held[q])' = work'[q].address
    BY <1>1, <2>1, <2>2 DEF AddressOf
  <2>5. q \in Monitors \/ work'[q].generation <= entries'[held'[q]].generation
    <3> DEFINE g == work[q].generation
               old == entries[held[q]].generation
               new == entries'[held[q]].generation
    <3>1. g \in Nat /\ old \in Nat /\ new \in Nat /\ new >= old /\ (q \in Monitors \/ g <= old)
      BY <1>1, <2>2, <2>3
    <3> HIDE DEF g, old, new
    <3>2. q \in Monitors \/ g <= new
      BY <3>1
    <3> QED
      BY <2>1, <3>2 DEF g, new
  <2>6. pc'[q] # "using" /\ pc'[q] # "checking"
    BY <1>4 DEF Locking
  <2> QED
    BY <1>1, <2>1, <2>2, <2>4, <2>5, <2>6 DEF CarriesItsOwn
<1> QED
  BY <1>2, <1>3, <1>4

LEMMA PassiveTasks ==
    ASSUME ManagerTyped, TasksTyped, Carries, EntriesEvolve, \A q \in Processes : Passive(q)
    PROVE  Carries'
<1>1. \A q \in Reports : CarriesItsOwn(q)'
  BY PassiveTask DEF Reports
<1>2. pc'[Srv] \in Locking => work'[Srv] \in SUBSET Addresses
  BY TaskFacts DEF Passive, Carrying, Carries
<1> QED
  BY <1>1, <1>2 DEF Carries

LEMMA OthersPassive ==
    ASSUME ManagerTyped, TasksTyped, Carries, EntriesEvolve, NEW p \in Reports,
           \A q \in Processes \ {p} : Passive(q), CarriesItsOwn(p)'
    PROVE  Carries'
<1>1. \A q \in Reports : CarriesItsOwn(q)'
  BY PassiveTask DEF Reports
<1>2. p # Srv
  BY DEF Reports
<1>3. pc'[Srv] \in Locking => work'[Srv] \in SUBSET Addresses
  BY <1>2, TaskFacts DEF Passive, Carrying, Carries
<1> QED
  BY <1>1, <1>3 DEF Carries

\* All tasks but one are passive, and so is that one if it carries nothing new.
OnlyOf(p) == \A q \in Processes \ {p} : work'[q] = work[q] /\ held'[q] = held[q]

LEMMA OneMoves ==
    ASSUME TasksTyped, NEW p \in Processes, NEW label, pc' = [pc EXCEPT ![p] = label],
           OnlyOf(p)
    PROVE  /\ pc'[p] = label /\ \A q \in Processes \ {p} : Passive(q)
           /\ label \notin Carrying => Passive(p)
           /\ {pc[p], label} \subseteq Locking /\ UNCHANGED <<work, held>> => Passive(p)
<1>1. pc'[p] = label
  BY DEF TasksTyped
<1>2. \A q \in Processes \ {p} : work'[q] = work[q] /\ held'[q] = held[q] /\ pc'[q] = pc[q]
  BY DEF TasksTyped, OnlyOf
<1> QED
  BY <1>1, <1>2 DEF Passive

LEMMA NobodyMoves ==
    ASSUME UNCHANGED <<pc, work, held>>
    PROVE  \A q \in Processes : Passive(q)
  BY DEF Passive

LEMMA UnderLockPassive ==
    ASSUME TasksTyped, NEW p \in Processes \ {Closer}, UnderLock(p)
    PROVE  \A q \in Processes : Passive(q)
<1>1. CASE SyncWatch(p)
  <2>1. UNCHANGED <<work, held>> /\ pc'[p] = "finishing" /\ pc[p] = "syncing"
    BY <1>1 DEF SyncWatch, At
  <2>2. \A q \in Processes \ {p} : pc'[q] = pc[q] \/ pc'[q] = "spawned"
    BY <1>1 DEF SyncWatch
  <2> QED
    BY <2>1, <2>2 DEF Passive, Carrying, Locking
<1>2. CASE FinishError(p)
  <2>1. PICK label \in {After(p), "failed", "caught"} : pc' = [pc EXCEPT ![p] = label]
    BY <1>2 DEF FinishError, RaiseUnderLock, GoTo
  <2>2. work' = [work EXCEPT ![p] = NoWork] /\ held' = [held EXCEPT ![p] = NoEntry]
    BY <1>2 DEF FinishError
  <2>3. label \notin Carrying
    <3>1. p \in Handlers \cup Maintainers
      BY <1>2 DEF FinishError
    <3>2. After(p) \in {"idle", "reported"}
      BY <3>1, AfterFacts DEF Maintainers
    <3> QED
      BY <2>1, <3>2 DEF Carrying, Locking
  <2>4. OnlyOf(p)
    BY <2>2 DEF TasksTyped, OnlyOf
  <2> QED
    BY <2>1, <2>3, <2>4, OneMoves
<1>3. CASE SyncAdd(p)
  BY <1>3, NobodyMoves DEF SyncAdd
<1>4. CASE Wake(p) \/ ProcessDescription(p) \/ SyncRemove(p) \/ SyncPoolClosed(p)
  <2>1. UNCHANGED <<work, held>> /\ pc[p] \in Locking
    BY <1>4 DEF Wake, ProcessDescription, SyncRemove, SyncPoolClosed, At, Locking, taskVars
  <2>2. CASE pc' = pc
    BY <2>1, <2>2, NobodyMoves
  <2>3. CASE pc' # pc
    <3>1. PICK label \in {"locked", "finishing", "syncing", "syncing pool", "failed", "caught"} :
             pc' = [pc EXCEPT ![p] = label]
      BY <1>4, <2>3 DEF Wake, ProcessDescription, SyncRemove, SyncPoolClosed, GoTo, RaiseUnderLock
    <3>2. label \in Locking \/ label \notin Carrying
      BY DEF Carrying, Locking
    <3>3. OnlyOf(p)
      BY <2>1 DEF OnlyOf
    <3> QED
      BY <2>1, <3>1, <3>2, <3>3, OneMoves
  <2> QED
    BY <2>2, <2>3
<1> QED
  BY <1>1, <1>2, <1>3, <1>4 DEF UnderLock

LEMMA StillPassive ==
    ASSUME TasksTyped, NEW p \in Processes, NEW label, label \notin Carrying,
           pc' = pc \/ pc' = [pc EXCEPT ![p] = label], UNCHANGED <<work, held>>
    PROVE  \A q \in Processes : Passive(q)
<1>1. OnlyOf(p)
  BY DEF OnlyOf
<1> QED
  BY <1>1, OneMoves, NobodyMoves

\* A report that is queued carries the entry it is held against.
LEMMA HandleCarries ==
    ASSUME ManagerTyped, TasksTyped, Carries, Served, EntriesEvolve,
           NEW p \in Handlers \cup Maintainers, NEW a \in Addresses,
           NEW generation \in Nat, NEW clears \in BOOLEAN,
           HandleApplicationError(p, a, generation, clears),
           \A e \in Opened : entries'[e].generation = entries[e].generation
    PROVE  Carries'
<1>0. p \in Processes /\ p # Srv /\ p # Closer /\ p \in Reports
  BY TaskFacts DEF Maintainers, Reports
<1>1. CASE UNCHANGED <<held, work, lock>> /\ \E label \in {After(p), "failed"} : GoTo(p, label)
  <2>1. After(p) \in {"idle", "reported"}
    BY AfterFacts DEF Maintainers
  <2>2. PICK label \in {After(p), "failed"} : pc' = [pc EXCEPT ![p] = label]
    BY <1>1 DEF GoTo
  <2>3. label \notin Carrying
    BY <2>1, <2>2 DEF Carrying, Locking
  <2> QED
    BY <1>0, <1>1, <2>2, <2>3, StillPassive, PassiveTasks
<1>2. CASE /\ Known(a) /\ Current(a) \in Opened /\ Enter(p)
           /\ generation = entries[Current(a)].generation
           /\ \E w \in Work : /\ w.address = a /\ w.generation = generation
                              /\ w.clears = clears /\ work' = [work EXCEPT ![p] = w]
           /\ held' = [held EXCEPT ![p] = Current(a)]
  <2>1. PICK w \in Work : /\ w.address = a /\ w.generation = generation
                          /\ work' = [work EXCEPT ![p] = w]
    BY <1>2
  <2>2. PICK label \in {"locked", "queued"} : pc' = [pc EXCEPT ![p] = label]
    BY <1>2 DEF Enter, GoTo
  <2>3. PICK c \in Opened : c = servers[a] /\ held' = [held EXCEPT ![p] = c]
    BY <1>2 DEF Current
  <2>8. OnlyOf(p)
    BY <1>0, <2>1, <2>3 DEF TasksTyped, OnlyOf
  <2>4. pc'[p] = label /\ \A q \in Processes \ {p} : Passive(q)
    BY <1>0, <2>2, <2>8, OneMoves
  <2>5. work'[p] = w /\ held'[p] = c
    BY <1>0, <2>1, <2>3 DEF TasksTyped
  <2>6. /\ c \in Opened' /\ entries'[c].address = a /\ entries'[c].generation = generation
    <3>1. c # NoEntry /\ entries[c].address = a
      BY <2>3, OpenedEntries DEF Served, AddressOf
    <3> QED
      BY <1>2, <2>3, <3>1, EvolvedEntries DEF Current
  <2>7. CarriesItsOwn(p)'
    <3>1. pc'[p] # "using" /\ pc'[p] # "checking"
      BY <2>4
    <3>2. AddressOf(held[p])' = a
      BY <2>5, <2>6 DEF AddressOf
    <3>3. work'[p].generation <= entries'[held'[p]].generation
      BY <2>1, <2>5, <2>6
    <3> QED
      BY <2>1, <2>5, <2>6, <3>1, <3>2, <3>3 DEF CarriesItsOwn
  <2> QED
    BY <1>0, <2>4, <2>7, OthersPassive
<1> QED
  BY <1>1, <1>2, HandleEffects

LEMMA CarriesStep ==
    ASSUME ManagerTyped, TasksTyped, Carries, Served, [Next]_vars
    PROVE  Carries'
<1>0. EntriesEvolve
  BY StepsEvolve
<1>1. ASSUME NEW p \in Processes \ {Closer}, UnderLock(p) PROVE Carries'
  BY <1>0, <1>1, UnderLockPassive, PassiveTasks
<1>2. ASSUME NEW e \in Opened, MonitorStep(e) PROVE Carries'
  <2> DEFINE p == Monitor(e)
             a == AddressOf(e)
  <2>0. p \in Processes /\ p \in Reports /\ p \in Monitors /\ a \in Addresses
    BY OpenedEntries, TaskFacts DEF Reports, AddressOf, Entry
  <2>1. CASE Rest(e)
    <3>1. PICK label \in {"sleeping", "done"} : pc' = [pc EXCEPT ![p] = label]
      BY <2>1 DEF Rest, GoTo
    <3>2. UNCHANGED <<work, held>> /\ label \notin Carrying
      BY <2>1 DEF Rest, taskVars, Carrying, Locking
    <3> QED
      BY <1>0, <2>0, <3>1, <3>2, StillPassive, PassiveTasks
  <2>2. CASE StartCheck(e)
    <3>1. CASE pc' = [pc EXCEPT ![p] = "done"] /\ UNCHANGED <<work, held>>
      <4>1. "done" \notin Carrying
        BY DEF Carrying, Locking
      <4> QED
        BY <1>0, <2>0, <3>1, <4>1, StillPassive, PassiveTasks
    <3>2. CASE /\ pc' = [pc EXCEPT ![p] = "checking"] /\ UNCHANGED work /\ IsServed(a)
               /\ held' = [held EXCEPT ![p] = Current(a)]
      <4>1. PICK c \in Opened : held' = [held EXCEPT ![p] = c]
        BY <2>0, <3>2, OpenedEntries DEF IsServed, Current
      <4>6. OnlyOf(p)
        BY <2>0, <3>2, <4>1 DEF TasksTyped, OnlyOf
      <4>2. pc'[p] = "checking" /\ \A q \in Processes \ {p} : Passive(q)
        BY <2>0, <3>2, <4>6, OneMoves
      <4>3. held'[p] = c
        BY <2>0, <4>1 DEF TasksTyped
      <4>4. c \in Opened'
        BY <1>0, EvolvedEntries
      <4>5. CarriesItsOwn(p)'
        BY <4>2, <4>3, <4>4 DEF CarriesItsOwn, Locking
      <4> QED
        BY <1>0, <2>0, <4>2, <4>5, OthersPassive
    <3> QED
      BY <2>2, <3>1, <3>2 DEF StartCheck, GoTo
  <2>3. CASE CheckReturns(e)
    <3>1. CASE /\ pc' = [pc EXCEPT ![p] = "looping"] /\ UNCHANGED work
               /\ held' = [held EXCEPT ![p] = NoEntry]
      <4>1. "looping" \notin Carrying
        BY DEF Carrying, Locking
      <4>2. OnlyOf(p)
        BY <2>0, <3>1 DEF TasksTyped, OnlyOf
      <4>3. \A q \in Processes : Passive(q)
        BY <2>0, <3>1, <4>1, <4>2, OneMoves
      <4> QED
        BY <1>0, <4>3, PassiveTasks
    <3>2. CASE /\ Enter(p) /\ IsServed(a) /\ held' = [held EXCEPT ![p] = Current(a)]
               /\ \E w \in Work : w.address = a /\ work' = [work EXCEPT ![p] = w]
      <4>1. PICK c \in Opened : c = servers[a] /\ held' = [held EXCEPT ![p] = c]
        BY <2>0, <3>2, OpenedEntries DEF IsServed, Current
      <4>2. PICK w \in Work : w.address = a /\ work' = [work EXCEPT ![p] = w]
        BY <3>2
      <4>3. PICK label \in {"locked", "queued"} : pc' = [pc EXCEPT ![p] = label]
        BY <3>2 DEF Enter, GoTo
      <4>8. OnlyOf(p)
        BY <2>0, <4>1, <4>2 DEF TasksTyped, OnlyOf
      <4>4. pc'[p] = label /\ \A q \in Processes \ {p} : Passive(q)
        BY <2>0, <4>3, <4>8, OneMoves
      <4>5. held'[p] = c /\ work'[p] = w
        BY <2>0, <4>1, <4>2 DEF TasksTyped
      <4>6. c \in Opened' /\ entries'[c].address = a
        <5>1. c # NoEntry /\ entries[c].address = a
          BY <2>0, <4>1, OpenedEntries DEF Served, AddressOf
        <5> QED
          BY <1>0, <5>1, EvolvedEntries
      <4>7. CarriesItsOwn(p)'
        <5>1. AddressOf(held[p])' = a
          BY <4>5, <4>6 DEF AddressOf
        <5> QED
          BY <2>0, <4>2, <4>3, <4>4, <4>5, <4>6, <5>1 DEF CarriesItsOwn
      <4> QED
        BY <1>0, <2>0, <4>4, <4>7, OthersPassive
    <3> QED
      <4>1. CASE ~(IsDiscarded(p) \/ ~IsServed(a))
        <5>1. /\ Enter(p) /\ IsServed(a) /\ held' = [held EXCEPT ![p] = Current(a)]
          BY <2>3, <4>1 DEF CheckReturns
        <5>2. PICK reply \in Heard :
                 work' = [work EXCEPT ![p] = [address |-> a, reply |-> reply, generation |-> 0,
                                              clears |-> reply = Failure]]
          BY <2>3, <4>1 DEF CheckReturns
        <5>3. [address |-> a, reply |-> reply, generation |-> 0, clears |-> reply = Failure] \in Work
          BY <2>0 DEF Work
        <5> QED
          BY <3>2, <5>1, <5>2, <5>3
      <4>2. CASE IsDiscarded(p) \/ ~IsServed(a)
        BY <2>3, <3>1, <4>2 DEF CheckReturns, GoTo
      <4> QED
        BY <4>1, <4>2
  <2>4. CASE FinishCheck(e)
    <3>1. PICK label \in {"looping", "failed", "caught"} : pc' = [pc EXCEPT ![p] = label]
      <4>1. After(p) = "looping"
        BY OpenedEntries, AfterFacts
      <4> QED
        BY <2>4, <4>1 DEF FinishCheck, GoTo, RaiseUnderLock
    <3>2. label \notin Carrying
      BY DEF Carrying, Locking
    <3>3. work' = [work EXCEPT ![p] = NoWork] /\ held' = [held EXCEPT ![p] = NoEntry]
      BY <2>4 DEF FinishCheck
    <3>4. OnlyOf(p)
      BY <2>0, <3>3 DEF TasksTyped, OnlyOf
    <3>5. \A q \in Processes : Passive(q)
      BY <2>0, <3>1, <3>2, <3>4, OneMoves
    <3> QED
      BY <1>0, <3>5, PassiveTasks
  <2> QED
    BY <1>2, <2>1, <2>2, <2>3, <2>4 DEF MonitorStep
<1>3. ASSUME NEW e \in Opened, MaintenanceStep(e) PROVE Carries'
  <2> DEFINE p == Maintainer(e)
  <2>0. p \in Processes /\ p \in Maintainers /\ "caught" \notin Carrying /\ "idle" \notin Carrying
    BY OpenedEntries, TaskFacts DEF Carrying, Locking
  <2>1. CASE Maintain(e) \/ Connected(e)
    <3>1. UNCHANGED <<pc, work, held>>
      BY <2>1 DEF Maintain, Connected, taskVars
    <3> QED
      BY <1>0, <3>1, NobodyMoves, PassiveTasks
  <2>2. CASE ConnectionFails(e)
    <3>1. CASE GoTo(p, "caught") /\ UNCHANGED <<work, held, lock>>
      BY <1>0, <2>0, <3>1, StillPassive, PassiveTasks DEF GoTo
    <3>2. CASE \E generation \in Nat : HandleApplicationError(p, AddressOf(e), generation, TRUE)
      <4>1. \A d \in Opened : entries'[d].generation = entries[d].generation
        BY <2>2, ConnectionFailsEntries DEF Becomes
      <4>2. AddressOf(e) \in Addresses
        BY <2>2, ConnectionFailsHandled
      <4> QED
        BY <1>0, <2>0, <3>2, <4>1, <4>2, HandleCarries
    <3> QED
      BY <2>2, <3>1, <3>2, ConnectionFailsHandled
  <2>3. CASE EndMaintenance(e)
    <3>1. pc' = [pc EXCEPT ![p] = "idle"] /\ UNCHANGED <<work, held>>
      BY <2>3 DEF EndMaintenance, GoTo, taskVars
    <3> QED
      BY <1>0, <2>0, <3>1, StillPassive, PassiveTasks
  <2> QED
    BY <1>3, <2>1, <2>2, <2>3 DEF MaintenanceStep
<1>4. ASSUME NEW h \in Handlers, HandlerStep(h) PROVE Carries'
  <2>0. h \in Processes /\ h \in Reports
    BY TaskFacts DEF Reports
  <2>1. ASSUME NEW a \in Addresses, Borrow(h, a) PROVE Carries'
    <3> DEFINE w == [address |-> a, reply |-> Failure,
                     generation |-> entries[Current(a)].generation, clears |-> FALSE]
    <3>1. w \in Work
      BY <2>1, OpenedEntries, HeardAreReplies DEF Borrow, IsServed, Current, Entry, Work
    <3>2. work' = [work EXCEPT ![h] = w] /\ held' = held /\ pc' = [pc EXCEPT ![h] = "using"]
      BY <2>1 DEF Borrow, GoTo
    <3> HIDE DEF w
    <3>6. OnlyOf(h)
      BY <2>0, <3>2 DEF TasksTyped, OnlyOf
    <3>3. pc'[h] = "using" /\ \A q \in Processes \ {h} : Passive(q)
      BY <2>0, <3>2, <3>6, OneMoves
    <3>4. work'[h] = w
      BY <2>0, <3>2 DEF TasksTyped
    <3>5. CarriesItsOwn(h)'
      BY <3>1, <3>3, <3>4 DEF CarriesItsOwn, Locking
    <3> QED
      BY <1>0, <2>0, <3>3, <3>5, OthersPassive
  <2>2. CASE Succeed(h)
    <3>1. work' = [work EXCEPT ![h] = NoWork] /\ held' = held /\ pc' = [pc EXCEPT ![h] = "idle"]
      BY <2>2 DEF Succeed, GoTo
    <3>2. "idle" \notin Carrying
      BY DEF Carrying, Locking
    <3>3. OnlyOf(h)
      BY <2>0, <3>1 DEF TasksTyped, OnlyOf
    <3>4. \A q \in Processes : Passive(q)
      BY <2>0, <3>1, <3>2, <3>3, OneMoves
    <3> QED
      BY <1>0, <3>4, PassiveTasks
  <2>3. CASE Report(h)
    <3>1. /\ pc[h] = "using" /\ entries' = entries
          /\ \E clears \in BOOLEAN :
                HandleApplicationError(h, work[h].address, work[h].generation, clears)
      BY <2>3 DEF Report, At, managerVars
    <3> QED
      BY <1>0, <3>1, HandlerCarries, HandleCarries
  <2> QED
    BY <1>4, <2>1, <2>2, <2>3 DEF HandlerStep
<1>5. ASSUME PollingStep PROVE Carries'
  <2>0. Srv \in Processes /\ Srv \notin Reports /\ "sleeping" \notin Carrying /\ "done" \notin Carrying
    BY TaskFacts DEF Reports, Carrying, Locking
  <2>1. CASE Rescan
    <3>1. PICK hosts \in SUBSET Addresses : work' = [work EXCEPT ![Srv] = hosts]
      BY <2>1 DEF Rescan
    <3>2. held' = held /\ \E label : pc' = [pc EXCEPT ![Srv] = label]
      BY <2>1 DEF Rescan, Enter, GoTo
    <3>6. OnlyOf(Srv)
      BY <2>0, <3>1, <3>2 DEF TasksTyped, OnlyOf
    <3>3. \A q \in Processes \ {Srv} : Passive(q)
      BY <2>0, <3>2, <3>6, OneMoves
    <3>4. work'[Srv] \in SUBSET Addresses
      BY <2>0, <3>1 DEF TasksTyped
    <3>5. \A q \in Reports : CarriesItsOwn(q)'
      BY <1>0, <2>0, <3>3, PassiveTask DEF Reports
    <3> QED
      BY <3>4, <3>5 DEF Carries
  <2>2. CASE ApplyRescan
    <3>1. UNCHANGED <<work, held>> /\ pc[Srv] \in Locking
      BY <2>2 DEF ApplyRescan, At, Locking
    <3>2. PICK label \in {"syncing", "finishing"} : pc' = [pc EXCEPT ![Srv] = label]
      BY <2>2 DEF ApplyRescan, GoTo
    <3>3. label \in Locking
      BY DEF Locking
    <3>4. OnlyOf(Srv)
      BY <3>1 DEF OnlyOf
    <3>5. \A q \in Processes : Passive(q)
      BY <2>0, <3>1, <3>2, <3>3, <3>4, OneMoves
    <3> QED
      BY <1>0, <3>5, PassiveTasks
  <2>3. CASE FinishRescan
    <3>1. /\ work' = [work EXCEPT ![Srv] = NoWork] /\ held' = held
          /\ pc' = [pc EXCEPT ![Srv] = "sleeping"]
      BY <2>3 DEF FinishRescan, GoTo
    <3>2. OnlyOf(Srv)
      BY <2>0, <3>1 DEF TasksTyped, OnlyOf
    <3>3. \A q \in Processes : Passive(q)
      BY <2>0, <3>1, <3>2, OneMoves
    <3> QED
      BY <1>0, <3>3, PassiveTasks
  <2>4. CASE StopPolling
    <3>1. UNCHANGED <<work, held>> /\ pc' = [pc EXCEPT ![Srv] = "done"]
      BY <2>4 DEF StopPolling, GoTo, taskVars
    <3> QED
      BY <1>0, <2>0, <3>1, StillPassive, PassiveTasks
  <2> QED
    BY <1>5, <2>1, <2>2, <2>3, <2>4 DEF PollingStep
<1>6. ASSUME CloserStep PROVE Carries'
  <2>1. UNCHANGED <<work, held>>
    BY <1>6 DEF CloserStep, Close, AwaitMonitor, MonitorEnded, AwaitPolling, PollingEnded,
       CloseServer, PoolClosed, EndClose, taskVars
  <2>2. CASE pc' = pc
    BY <1>0, <2>1, <2>2, NobodyMoves, PassiveTasks
  <2>3. CASE pc' # pc
    <3>1. PICK label \in {"stopping", "awaiting monitor", "awaiting polling", "removing",
                          "removing pool", "done", "failed"} : pc' = [pc EXCEPT ![Closer] = label]
      BY <1>6, <2>3 DEF CloserStep, Close, AwaitMonitor, MonitorEnded, AwaitPolling, PollingEnded,
         CloseServer, PoolClosed, EndClose, GoTo
    <3>2. label \notin Carrying
      BY DEF Carrying, Locking
    <3> QED
      BY <1>0, <2>1, <3>1, <3>2, TaskFacts, StillPassive, PassiveTasks
  <2> QED
    BY <2>2, <2>3
<1>7. CASE UNCHANGED vars
  <2>1. UNCHANGED <<pc, work, held>>
    BY <1>7 DEF vars, taskVars
  <2> QED
    BY <1>0, <2>1, NobodyMoves, PassiveTasks
<1> QED
  BY <1>1, <1>2, <1>3, <1>4, <1>5, <1>6, <1>7 DEF Next

-----------------------------------------------------------------------------
(* Where each step starts, and where it leads.                             *)

\* p was at one of from, and goes to one of to; nobody else moves.
Runs(p, from, to) ==
    /\ p \in Processes /\ pc[p] \in from /\ pc'[p] \in to
    /\ \A q \in Processes \ {p} : pc'[q] = pc[q]

LEMMA Goes ==
    ASSUME TasksTyped, NEW p \in Processes, NEW label, GoTo(p, label)
    PROVE  pc'[p] = label /\ \A q \in Processes \ {p} : pc'[q] = pc[q]
  BY DEF GoTo, TasksTyped

LEMMA RunsFrom ==
    ASSUME TasksTyped, NEW p \in Processes, NEW from, NEW to,
           pc[p] \in from, NEW label \in to, GoTo(p, label)
    PROVE  Runs(p, from, to)
  BY DEF Runs, GoTo, TasksTyped

\* After(p), or the label of an error.
Outcome(p) ==
    CASE p \in Monitors -> {"looping", "failed"}
      [] p \in Maintainers -> {"reported", "caught"}
      [] p \in Handlers -> {"idle", "failed"}
      [] p = Srv -> {"sleeping"}

LEMMA Outcomes ==
    /\ \A e \in Entries : Outcome(Monitor(e)) = {"looping", "failed"}
                          /\ Outcome(Maintainer(e)) = {"reported", "caught"}
    /\ \A h \in Handlers : Outcome(h) = {"idle", "failed"}
    /\ Outcome(Srv) = {"sleeping"}
  BY TaskFacts DEF Outcome

LEMMA LeavesRuns ==
    ASSUME TasksTyped, NEW p \in Processes \ {Closer, Srv}, NEW from, pc[p] \in from,
           RaiseUnderLock(p) \/ GoTo(p, After(p))
    PROVE  /\ Runs(p, from, Outcome(p))
           /\ ~RaiseUnderLock(p) => pc'[p] = After(p)
<1>1. After(p) \in Outcome(p) /\ (IF p \in Maintainers THEN "caught" ELSE "failed") \in Outcome(p)
  <2>1. CASE \E e \in Entries : p = Monitor(e)
    BY <2>1, TaskFacts, AfterFacts, Outcomes
  <2>2. CASE \E e \in Entries : p = Maintainer(e)
    BY <2>2, TaskFacts, AfterFacts, Outcomes
  <2>3. CASE p \in Handlers
    BY <2>3, TaskFacts, AfterFacts, Outcomes
  <2> QED
    BY <2>1, <2>2, <2>3, TaskFacts
<1>2. \E label \in Outcome(p) : GoTo(p, label)
  BY <1>1 DEF RaiseUnderLock
<1>3. Runs(p, from, Outcome(p))
  BY <1>2, RunsFrom
<1>4. ~RaiseUnderLock(p) => pc'[p] = After(p)
  BY DEF GoTo, TasksTyped
<1> QED
  BY <1>3, <1>4

LEMMA UnderLockRuns ==
    ASSUME ManagerTyped, TasksTyped, NEW p \in Processes \ {Closer}
    PROVE  /\ Wake(p) => Runs(p, {"queued"}, {"locked"})
           /\ ProcessDescription(p) =>
                 /\ pc[p] = "locked" /\ p # Srv
                 /\ Runs(p, {"locked"}, {"finishing", "syncing", "failed", "caught"})
                 /\ ~RaiseUnderLock(p) => pc'[p] \in {"finishing", "syncing"}
           /\ SyncRemove(p) => Runs(p, {"syncing"}, Syncs)
           /\ SyncPoolClosed(p) => Runs(p, {"syncing pool"}, {"syncing"})
           /\ SyncAdd(p) => pc' = pc /\ pc[p] = "syncing"
           /\ SyncWatch(p) =>
                 /\ pc[p] = "syncing" /\ pc'[p] = "finishing"
                 /\ \A q \in Processes \ {p} :
                       \/ pc'[q] = pc[q]
                       \/ q \in Monitors /\ pc[q] = "idle" /\ pc'[q] = "spawned"
           /\ FinishError(p) =>
                 /\ p \in Handlers \cup Maintainers
                 /\ Runs(p, {"finishing"}, Outcome(p))
                 /\ ~RaiseUnderLock(p) => pc'[p] = After(p)
<1>1. ASSUME Wake(p) PROVE Runs(p, {"queued"}, {"locked"})
  BY <1>1, RunsFrom DEF Wake, At
<1>2. ASSUME ProcessDescription(p)
      PROVE  /\ pc[p] = "locked" /\ p # Srv
             /\ Runs(p, {"locked"}, {"finishing", "syncing", "failed", "caught"})
             /\ ~RaiseUnderLock(p) => pc'[p] \in {"finishing", "syncing"}
  <2>1. pc[p] = "locked" /\ p # Srv
    BY <1>2 DEF ProcessDescription, At
  <2>2. \/ \E label \in {"finishing", "syncing"} : GoTo(p, label)
        \/ RaiseUnderLock(p) /\ \E label \in {"failed", "caught"} : GoTo(p, label)
    BY <1>2 DEF ProcessDescription, RaiseUnderLock
  <2> QED
    BY <2>1, <2>2 DEF GoTo, Runs, TasksTyped
<1>3. ASSUME SyncRemove(p) PROVE Runs(p, {"syncing"}, Syncs)
  <2>1. pc[p] = "syncing" /\ (pc' = pc \/ GoTo(p, "syncing pool"))
    BY <1>3 DEF SyncRemove, At
  <2> QED
    BY <2>1 DEF GoTo, Runs, Syncs, TasksTyped
<1>4. ASSUME SyncPoolClosed(p) PROVE Runs(p, {"syncing pool"}, {"syncing"})
  <2>1. pc[p] \in {"syncing pool"} /\ GoTo(p, "syncing")
    BY <1>4 DEF SyncPoolClosed, At
  <2> QED
    BY <2>1 DEF Runs, GoTo, TasksTyped
<1>5. ASSUME SyncAdd(p) PROVE pc' = pc /\ pc[p] = "syncing"
  BY <1>5 DEF SyncAdd, At
<1>6. ASSUME SyncWatch(p)
      PROVE  /\ pc[p] = "syncing" /\ pc'[p] = "finishing"
             /\ \A q \in Processes \ {p} :
                   \/ pc'[q] = pc[q]
                   \/ q \in Monitors /\ pc[q] = "idle" /\ pc'[q] = "spawned"
  <2>1. pc[p] = "syncing" /\ pc'[p] = "finishing"
    BY <1>6 DEF SyncWatch, At
  <2> DEFINE watched == {Monitor(Current(a)) : a \in {x \in sync.watching : Current(x) # NoEntry}}
  <2>2. \A q \in Processes \ {p} :
           pc'[q] = pc[q] \/ (q \in watched /\ pc[q] = "idle" /\ pc'[q] = "spawned")
    BY <1>6 DEF SyncWatch
  <2>3. watched \subseteq Monitors
    <3>1. \A a \in sync.watching : Current(a) # NoEntry => Current(a) \in Entries
      BY OpenedEntries DEF Current, TasksTyped
    <3> QED
      BY <3>1, TaskFacts
  <2> QED
    BY <2>1, <2>2, <2>3
<1>7. ASSUME FinishError(p)
      PROVE  /\ p \in Handlers \cup Maintainers
             /\ Runs(p, {"finishing"}, Outcome(p))
             /\ ~RaiseUnderLock(p) => pc'[p] = After(p)
  <2>1. /\ p \in Handlers \cup Maintainers /\ pc[p] = "finishing"
        /\ RaiseUnderLock(p) \/ GoTo(p, After(p))
    BY <1>7 DEF FinishError, At
  <2>2. p # Srv
    BY <2>1, TaskFacts DEF Maintainers
  <2> QED
    BY <2>1, <2>2, LeavesRuns
<1> QED
  BY <1>1, <1>2, <1>3, <1>4, <1>5, <1>6, <1>7

LEMMA MonitorRuns ==
    ASSUME ManagerTyped, TasksTyped, NEW e \in Opened
    PROVE  LET p == Monitor(e)
               open == state = "open" /\ servers[AddressOf(e)] # NoEntry IN
           /\ Rest(e) => /\ Runs(p, {"looping"}, {"sleeping", "done"})
                         /\ open => pc'[p] = "sleeping"
           /\ StartCheck(e) => /\ Runs(p, {"spawned", "sleeping"}, {"checking", "done"})
                               /\ open => pc'[p] = "checking"
           /\ CheckReturns(e) => Runs(p, {"checking"}, {"looping", "locked", "queued"})
           /\ FinishCheck(e) => /\ Runs(p, {"finishing"}, {"looping", "failed"})
                                /\ ~RaiseUnderLock(p) => pc'[p] = "looping"
<1> DEFINE p == Monitor(e)
<1>0. p \in Processes \ {Closer, Srv} /\ Outcome(p) = {"looping", "failed"} /\ After(p) = "looping"
  BY OpenedEntries, TaskFacts, Outcomes, AfterFacts
<1>1. ASSUME Rest(e)
      PROVE  /\ Runs(p, {"looping"}, {"sleeping", "done"})
             /\ state = "open" /\ servers[AddressOf(e)] # NoEntry => pc'[p] = "sleeping"
  BY <1>0, <1>1 DEF Rest, At, GoTo, Runs, TasksTyped, IsServed, Current
<1>2. ASSUME StartCheck(e)
      PROVE  /\ Runs(p, {"spawned", "sleeping"}, {"checking", "done"})
             /\ state = "open" /\ servers[AddressOf(e)] # NoEntry => pc'[p] = "checking"
  BY <1>0, <1>2 DEF StartCheck, At, GoTo, Runs, TasksTyped, IsServed, Current
<1>3. ASSUME CheckReturns(e) PROVE Runs(p, {"checking"}, {"looping", "locked", "queued"})
  <2>1. pc[p] = "checking" /\ (Enter(p) \/ GoTo(p, "looping"))
    BY <1>3 DEF CheckReturns, At
  <2> QED
    BY <1>0, <2>1 DEF Enter, GoTo, Runs, TasksTyped
<1>4. ASSUME FinishCheck(e)
      PROVE  /\ Runs(p, {"finishing"}, {"looping", "failed"})
             /\ ~RaiseUnderLock(p) => pc'[p] = "looping"
  <2>1. pc[p] = "finishing" /\ (RaiseUnderLock(p) \/ GoTo(p, After(p)))
    BY <1>4 DEF FinishCheck, At
  <2>2. /\ Runs(p, {"finishing"}, Outcome(p))
        /\ ~RaiseUnderLock(p) => pc'[p] = After(p)
    BY <1>0, <2>1, LeavesRuns
  <2> QED
    BY <1>0, <2>2
<1> QED
  BY <1>1, <1>2, <1>3, <1>4

LEMMA MaintenanceRuns ==
    ASSUME ManagerTyped, TasksTyped, Unopened, NEW e \in Opened
    PROVE  LET p == Maintainer(e) IN
           /\ Maintain(e) \/ Connected(e) => pc' = pc
           /\ ConnectionFails(e) =>
                 /\ Runs(p, {"idle"}, {"caught", "reported", "locked", "queued"})
                 /\ pc'[p] = "caught" => servers[AddressOf(e)] = NoEntry
           /\ EndMaintenance(e) => Runs(p, {"reported", "caught"}, {"idle"})
<1> DEFINE p == Maintainer(e)
<1>0. p \in Processes /\ p \in Maintainers /\ After(p) = "reported"
  BY OpenedEntries, TaskFacts, AfterFacts
<1>1. Maintain(e) \/ Connected(e) => pc' = pc
  BY DEF Maintain, Connected
<1>2. ASSUME ConnectionFails(e)
      PROVE  /\ Runs(p, {"idle"}, {"caught", "reported", "locked", "queued"})
             /\ pc'[p] = "caught" => servers[AddressOf(e)] = NoEntry
  <2>1. pc[p] = "idle"
    BY <1>2 DEF ConnectionFails, Unopened
  <2>2. CASE GoTo(p, "caught") /\ Current(AddressOf(e)) = NoEntry
    BY <1>0, <2>1, <2>2 DEF GoTo, Runs, TasksTyped, Current
  <2>3. CASE /\ ~(Known(AddressOf(e)) /\ Current(AddressOf(e)) = NoEntry)
             /\ \E generation \in Nat : HandleApplicationError(p, AddressOf(e), generation, TRUE)
    <3>1. GoTo(p, "reported") \/ Enter(p)
      BY <1>0, <2>3 DEF HandleApplicationError
    <3> QED
      BY <1>0, <2>1, <3>1 DEF Enter, GoTo, Runs, TasksTyped
  <2> QED
    BY <1>2, <2>2, <2>3, ConnectionFailsHandled
<1>3. ASSUME EndMaintenance(e) PROVE Runs(p, {"reported", "caught"}, {"idle"})
  BY <1>0, <1>3 DEF EndMaintenance, At, GoTo, Runs, TasksTyped
<1> QED
  BY <1>1, <1>2, <1>3

LEMMA HandlerRuns ==
    ASSUME ManagerTyped, TasksTyped, NEW h \in Handlers, HandlerStep(h)
    PROVE  Runs(h, {"idle", "using"}, {"idle", "using", "failed", "locked", "queued"})
<1>0. h \in Processes /\ After(h) = "idle"
  BY TaskFacts, AfterFacts
<1>1. pc[h] \in {"idle", "using"}
  BY DEF HandlerStep, Borrow, Succeed, Report, At
<1>2. Enter(h) \/ \E label \in {"idle", "using", "failed"} : GoTo(h, label)
  BY <1>0 DEF HandlerStep, Borrow, Succeed, Report, HandleApplicationError
<1> QED
  BY <1>0, <1>1, <1>2 DEF Enter, GoTo, Runs, TasksTyped

LEMMA PollingRuns ==
    ASSUME TasksTyped
    PROVE  /\ Rescan => Runs(Srv, {"sleeping"}, {"locked", "queued"})
           /\ ApplyRescan => Runs(Srv, {"locked"}, {"syncing", "finishing"})
           /\ FinishRescan => Runs(Srv, {"finishing"}, {"sleeping"})
           /\ StopPolling => Runs(Srv, {"sleeping"}, {"done"})
  BY TaskFacts DEF Rescan, ApplyRescan, FinishRescan, StopPolling, At, Enter, GoTo, Runs, TasksTyped

LEMMA CloserRuns ==
    ASSUME TasksTyped
    PROVE  /\ Close => Runs(Closer, {"idle"}, {"stopping"})
           /\ AwaitMonitor => Runs(Closer, {"stopping"}, {"stopping", "failed", "awaiting monitor"})
           /\ MonitorEnded => Runs(Closer, {"awaiting monitor"}, {"failed", "stopping"})
           /\ AwaitPolling => Runs(Closer, {"stopping"}, {"awaiting polling"})
           /\ PollingEnded => Runs(Closer, {"awaiting polling"}, {"removing"})
           /\ CloseServer => Runs(Closer, {"removing"}, {"removing", "removing pool"})
           /\ PoolClosed => Runs(Closer, {"removing pool"}, {"removing"})
           /\ EndClose => Runs(Closer, {"removing"}, {"done"})
<1>0. Closer \in Processes
  BY TaskFacts
<1>1. Close => Runs(Closer, {"idle"}, {"stopping"})
  BY TaskFacts DEF Close, At, GoTo, Runs, TasksTyped
<1>2. AwaitMonitor => Runs(Closer, {"stopping"}, {"stopping", "failed", "awaiting monitor"})
  <2>1. AwaitMonitor => /\ pc[Closer] = "stopping"
                        /\ \/ pc' = pc
                           \/ \E label \in {"failed", "awaiting monitor"} : GoTo(Closer, label)
    BY DEF AwaitMonitor, At
  <2> QED
    BY <1>0, <2>1, Goes DEF Runs
<1>3. MonitorEnded => Runs(Closer, {"awaiting monitor"}, {"failed", "stopping"})
  <2>1. MonitorEnded => /\ pc[Closer] = "awaiting monitor"
                        /\ \E label \in {"failed", "stopping"} : GoTo(Closer, label)
    BY DEF MonitorEnded, At
  <2> QED
    BY <1>0, <2>1, Goes DEF Runs
<1>4. AwaitPolling => Runs(Closer, {"stopping"}, {"awaiting polling"})
  <2>1. AwaitPolling => pc[Closer] = "stopping" /\ GoTo(Closer, "awaiting polling")
    BY DEF AwaitPolling, At
  <2> QED
    BY <1>0, <2>1, Goes DEF Runs
<1>5. PollingEnded => Runs(Closer, {"awaiting polling"}, {"removing"})
  BY TaskFacts DEF PollingEnded, At, GoTo, Runs, TasksTyped
<1>6. CloseServer => Runs(Closer, {"removing"}, {"removing", "removing pool"})
  <2>1. CloseServer => pc[Closer] = "removing" /\ (pc' = pc \/ GoTo(Closer, "removing pool"))
    BY DEF CloseServer, At
  <2>2. CASE pc' = pc
    BY <1>0, <2>1, <2>2 DEF Runs
  <2>3. CASE GoTo(Closer, "removing pool")
    BY <1>0, <2>1, <2>3, Goes DEF Runs
  <2> QED
    BY <2>1, <2>2, <2>3
<1>7. PoolClosed => Runs(Closer, {"removing pool"}, {"removing"})
  <2>1. PoolClosed => pc[Closer] = "removing pool" /\ GoTo(Closer, "removing")
    BY DEF PoolClosed, At
  <2> QED
    BY <1>0, <2>1, Goes DEF Runs
<1>8. EndClose => Runs(Closer, {"removing"}, {"done"})
  BY TaskFacts DEF EndClose, At, GoTo, Runs, TasksTyped
<1> QED
  BY <1>1, <1>2, <1>3, <1>4, <1>5, <1>6, <1>7, <1>8

-----------------------------------------------------------------------------
(* The entries in the manager.                                             *)

\* Only SyncAdd opens entries.
LEMMA NoneOpened ==
    ASSUME ManagerTyped, TasksTyped, Carries, [Next]_vars
    PROVE  Opened' = Opened \/ \E p \in Processes \ {Closer} : SyncAdd(p)
<1>0. Opened = 1 .. Len(entries) /\ Opened' = 1 .. Len(entries')
  BY OpenedEntries, StepsEvolve, EvolvedEntries
<1>1. CASE KeepingStep
  BY <1>0, <1>1, KeepingKeeps DEF EntriesKeep
<1>2. ASSUME NEW p \in Processes \ {Closer}, FinishError(p)
      PROVE  Opened' = Opened
  BY <1>0, <1>2, FinishErrorEntries
<1>3. ASSUME NEW e \in Opened, FinishCheck(e)
      PROVE  Opened' = Opened
  <2>1. UNCHANGED entries \/ Len(entries') = Len(entries)
    BY <1>3, FinishCheckEntries DEF Becomes
  <2> QED
    BY <1>0, <2>1
<1>4. ASSUME NEW e \in Opened, ConnectionFails(e)
      PROVE  Opened' = Opened
  BY <1>0, <1>4, ConnectionFailsEntries DEF Becomes
<1>5. ASSUME NEW e \in Opened, EndMaintenance(e)
      PROVE  Opened' = Opened
  BY <1>0, <1>5, EndMaintenanceEntries DEF Becomes
<1> QED
  BY <1>1, <1>2, <1>3, <1>4, <1>5, Steps

\* Servers are left as they are, or taken out with a pool that is closed.
Forgets ==
    \A a \in Addresses :
       \/ servers'[a] = servers[a]
       \/ servers'[a] = NoEntry /\ (servers[a] # NoEntry => entries'[servers[a]].pool = "closed")

LEMMA RemoveForgets ==
    ASSUME ManagerTyped, NEW a \in Addresses, Current(a) # NoEntry, RemoveServer(a)
    PROVE  Forgets /\ entries'[Current(a)].pool = "closed"
<1>1. Current(a) \in Opened /\ entries[Current(a)] \in Entry
  BY OpenedEntries DEF Current
<1>2. entries' = [entries EXCEPT ![Current(a)] = [entries[Current(a)] EXCEPT !.pool = "closed"]]
  BY DEF RemoveServer
<1>3. [entries[Current(a)] EXCEPT !.pool = "closed"] \in Entry
  BY <1>1 DEF Entry
<1>4. entries'[Current(a)] = [entries[Current(a)] EXCEPT !.pool = "closed"]
  BY <1>1, <1>2, <1>3, OneBecomes DEF Becomes
<1>5. entries'[Current(a)].pool = "closed"
  BY <1>1, <1>4 DEF Entry
<1>6. servers' = servers \/ servers' = [servers EXCEPT ![a] = NoEntry]
  BY DEF RemoveServer
<1> QED
  BY <1>5, <1>6 DEF Forgets, ManagerTyped, Current

LEMMA TakenOutForgets ==
    ASSUME ManagerTyped, EntriesEvolve, NEW e \in Opened, entries[e].pool = "closed",
           servers[AddressOf(e)] \in {e, NoEntry},
           servers' = [servers EXCEPT ![AddressOf(e)] = NoEntry]
    PROVE  Forgets
<1>1. AddressOf(e) \in Addresses
  BY OpenedEntries DEF AddressOf, Entry
<1>2. entries'[e].pool = "closed"
  BY EvolvedEntries
<1> QED
  BY <1>1, <1>2 DEF Forgets, ManagerTyped

LEMMA ServersForget ==
    ASSUME ManagerTyped, TasksTyped, Carries, SyncShape, CloseShape, [Next]_vars
    PROVE  Forgets \/ \E p \in Processes \ {Closer} : SyncAdd(p)
<1>0. EntriesEvolve
  BY StepsEvolve
<1>1. CASE UNCHANGED servers
  BY <1>1 DEF Forgets
<1>2. ASSUME NEW p \in Processes \ {Closer}, SyncRemove(p)
      PROVE  Forgets
  <2>1. CASE UNCHANGED servers
    BY <2>1 DEF Forgets
  <2>2. CASE ~UNCHANGED servers
    <3>1. PICK a \in sync.removing : Current(a) # NoEntry /\ RemoveServer(a)
      BY <1>2, <2>2 DEF SyncRemove
    <3>2. a \in Addresses
      BY DEF TasksTyped
    <3> QED
      BY <3>1, <3>2, RemoveForgets
  <2> QED
    BY <2>1, <2>2
<1>3. CASE CloseServer
  <2>1. UNCHANGED servers \/ \E a \in closing.pools : Current(a) # NoEntry /\ RemoveServer(a)
    BY <1>3 DEF CloseServer
  <2>2. closing.pools \subseteq Addresses
    BY DEF TasksTyped
  <2> QED
    BY <1>1, <2>1, <2>2, RemoveForgets
<1>4. ASSUME NEW p \in Processes \ {Closer}, SyncPoolClosed(p)
      PROVE  Forgets
  <2>1. /\ sync.pool \in Opened /\ entries[sync.pool].pool = "closed"
        /\ servers[AddressOf(sync.pool)] \in {sync.pool, NoEntry}
    BY <1>4 DEF SyncPoolClosed, At, SyncShape, TasksTyped, MaybeEntry
  <2>2. servers' = [servers EXCEPT ![AddressOf(sync.pool)] = NoEntry]
    BY <1>4 DEF SyncPoolClosed
  <2> QED
    BY <1>0, <2>1, <2>2, TakenOutForgets
<1>5. CASE PoolClosed
  <2>1. /\ closing.entry \in Opened /\ entries[closing.entry].pool = "closed"
        /\ servers[AddressOf(closing.entry)] \in {closing.entry, NoEntry}
    BY <1>5 DEF PoolClosed, At, CloseShape, TasksTyped, MaybeEntry
  <2>2. servers' = [servers EXCEPT ![AddressOf(closing.entry)] = NoEntry]
    BY <1>5 DEF PoolClosed
  <2> QED
    BY <1>0, <2>1, <2>2, TakenOutForgets
<1> QED
  BY <1>1, <1>2, <1>3, <1>4, <1>5, ServersChange

LEMMA ServedStep ==
    ASSUME ManagerTyped, TasksTyped, Carries, Served, SyncShape, CloseShape, [Next]_vars
    PROVE  Served'
<1>0. EntriesEvolve
  BY StepsEvolve
<1>1. \A e \in Opened : /\ AddressOf(e)' = AddressOf(e) /\ AddressOf(e) \in Addresses
                        /\ e \in Opened' /\ e # NoEntry
                        /\ entries[e].pool = "closed" => entries'[e].pool = "closed"
  BY <1>0, EvolvedEntries, OpenedEntries DEF AddressOf, Entry
<1>2. \A a \in Addresses : servers[a] # NoEntry => servers[a] \in Opened
  BY OpenedEntries
<1>3. CASE Forgets /\ Opened' = Opened
  <2>1. \A a \in Addresses : servers'[a] # NoEntry =>
                                 entries'[servers[a]].address = a /\ servers'[a] = servers[a]
    BY <1>1, <1>2, <1>3 DEF Forgets, Served, AddressOf
  <2>2. ASSUME NEW e \in Opened, servers'[AddressOf(e)] # e
        PROVE  entries'[e].pool = "closed"
    <3>1. CASE servers[AddressOf(e)] = e
      BY <1>1, <1>3, <2>2, <3>1 DEF Forgets
    <3>2. CASE servers[AddressOf(e)] # e
      BY <1>1, <3>2 DEF Served
    <3> QED
      BY <3>1, <3>2
  <2>3. \A e \in Opened : entries'[e].address = AddressOf(e)
    BY <1>1 DEF AddressOf
  <2> QED
    BY <1>3, <2>1, <2>2, <2>3 DEF Served, AddressOf
<1>4. ASSUME NEW p \in Processes \ {Closer}, SyncAdd(p)
      PROVE  Served'
  <2>1. Opened' = 1 .. Len(entries')
    BY <1>0, EvolvedEntries
  <2>2. Missing \subseteq Addresses
    BY DEF Missing, TasksTyped
  <2>3. ASSUME NEW a \in Addresses, servers'[a] # NoEntry
        PROVE  entries'[servers'[a]].address = a
    <3>1. CASE a \in Missing
      BY <1>4, <3>1, SyncAddEntries, NewEntries
    <3>2. CASE a \notin Missing
      <4>1. servers'[a] = servers[a] /\ servers[a] \in Opened
        BY <1>2, <1>4, <2>3, <3>2, SyncAddEntries
      <4> QED
        BY <1>1, <2>3, <4>1 DEF Served, AddressOf
    <3> QED
      BY <3>1, <3>2
  <2>4. ASSUME NEW e \in Opened', servers'[entries'[e].address] # e
        PROVE  entries'[e].pool = "closed"
    <3>1. e \in Opened
      <4>1. CASE e \notin Opened
        <5>1. PICK a \in Missing : servers'[a] = e /\ entries'[e] = NewEntry(a)
          BY <1>4, <2>1, <4>1, SyncAddEntries
        <5>2. entries'[e].address = a
          BY <2>2, <5>1, NewEntries
        <5> QED
          BY <2>4, <5>1, <5>2
      <4> QED
        BY <4>1
    <3>2. entries'[e] = entries[e]
      BY <1>4, <3>1, SyncAddEntries
    <3>3. AddressOf(e) \in Addresses /\ AddressOf(e) = entries'[e].address
      BY <1>1, <3>1, <3>2 DEF AddressOf
    <3>4. AddressOf(e) \notin Missing => servers[AddressOf(e)] # e
      BY <1>4, <2>4, <3>3, SyncAddEntries
    <3>5. AddressOf(e) \in Missing => servers[AddressOf(e)] # e
      BY <1>1, <3>1 DEF Missing, Current
    <3> QED
      BY <3>1, <3>2, <3>4, <3>5 DEF Served
  <2> QED
    BY <2>3, <2>4 DEF Served, AddressOf
<1> QED
  BY <1>3, <1>4, NoneOpened, ServersForget

-----------------------------------------------------------------------------
(* Tasks that have not begun.                                              *)

\* No task of an entry that is yet to come begins, and no maintenance task begins to
\* report or ends.
NobodyBegins ==
    /\ \A e \in Entries \ Opened : pc'[Monitor(e)] = "idle" /\ pc'[Maintainer(e)] = "idle"
    /\ \A e \in Opened : pc'[Maintainer(e)] = "idle" <=> pc[Maintainer(e)] = "idle"

LEMMA RunsBegins ==
    ASSUME ManagerTyped, Unopened, NEW p, NEW from, NEW to, Runs(p, from, to),
           p \in Maintainers => "idle" \notin from /\ "idle" \notin to,
           pc[p] # "idle" \/ p \in Handlers \/ p = Srv \/ p = Closer
    PROVE  NobodyBegins
<1>1. \A e \in Entries \ Opened : p # Monitor(e) /\ p # Maintainer(e)
  BY TaskFacts DEF Unopened
<1>2. \A e \in Entries \ Opened : pc'[Monitor(e)] = "idle" /\ pc'[Maintainer(e)] = "idle"
  BY <1>1, TaskFacts DEF Unopened, Runs
<1>3. ASSUME NEW e \in Opened
      PROVE  pc'[Maintainer(e)] = "idle" <=> pc[Maintainer(e)] = "idle"
  <2>1. Maintainer(e) \in Processes /\ Maintainer(e) \in Maintainers
    BY OpenedEntries, TaskFacts
  <2> QED
    BY <2>1 DEF Runs
<1> QED
  BY <1>2, <1>3 DEF NobodyBegins

LEMMA StandsBegins == ASSUME Unopened, pc' = pc PROVE NobodyBegins
  BY DEF Unopened, NobodyBegins

LEMMA Begins ==
    ASSUME ManagerTyped, TasksTyped, Unopened, [Next]_vars
    PROVE  NobodyBegins \/ \E e \in Opened : ConnectionFails(e) \/ EndMaintenance(e)
<1>1. ASSUME NEW p \in Processes \ {Closer}, UnderLock(p)
      PROVE  NobodyBegins
  <2>1. CASE SyncWatch(p)
    <3>1. pc[p] = "syncing"
      BY <2>1, UnderLockRuns
    <3> DEFINE watched == {Monitor(Current(a)) : a \in {x \in sync.watching : Current(x) # NoEntry}}
    <3>2. \A q \in Processes \ {p} : q \notin watched => pc'[q] = pc[q]
      BY <2>1 DEF SyncWatch
    <3>3. \A q \in watched : \E d \in Opened : q = Monitor(d)
      BY OpenedEntries DEF TasksTyped, Current
    <3> HIDE DEF watched
    <3>4. ASSUME NEW e \in Entries \ Opened
          PROVE  pc'[Monitor(e)] = "idle" /\ pc'[Maintainer(e)] = "idle"
      <4>1. Monitor(e) \notin watched /\ Maintainer(e) \notin watched
        BY <3>3, OpenedEntries, TaskFacts
      <4> QED
        BY <3>1, <3>2, <4>1, TaskFacts DEF Unopened
    <3>5. ASSUME NEW e \in Opened
          PROVE  pc'[Maintainer(e)] = "idle" <=> pc[Maintainer(e)] = "idle"
      <4>1. Maintainer(e) \notin watched /\ Maintainer(e) \in Processes
        BY <3>3, OpenedEntries, TaskFacts
      <4>2. pc'[p] = "finishing"
        BY <2>1, UnderLockRuns
      <4> QED
        BY <3>1, <3>2, <4>1, <4>2
    <3> QED
      BY <3>4, <3>5 DEF NobodyBegins
  <2>2. CASE SyncAdd(p)
    BY <2>2, UnderLockRuns, StandsBegins
  <2>3. CASE FinishError(p)
    <3>1. Runs(p, {"finishing"}, Outcome(p)) /\ p \in Handlers \cup Maintainers
      BY <2>3, UnderLockRuns
    <3>2. p \in Maintainers => "idle" \notin Outcome(p)
      BY Outcomes, TaskFacts DEF Maintainers
    <3>3. pc[p] # "idle"
      BY <3>1 DEF Runs
    <3> QED
      BY <3>1, <3>2, <3>3, RunsBegins
  <2>4. CASE Wake(p) \/ ProcessDescription(p) \/ SyncRemove(p) \/ SyncPoolClosed(p)
    <3>1. \E from, to : Runs(p, from, to) /\ "idle" \notin from /\ "idle" \notin to
      <4>1. "idle" \notin Syncs
        BY DEF Syncs
      <4> QED
        BY <2>4, <4>1, UnderLockRuns
    <3>2. pc[p] # "idle"
      BY <3>1 DEF Runs
    <3> QED
      BY <3>1, <3>2, RunsBegins
  <2> QED
    BY <1>1, <2>1, <2>2, <2>3, <2>4 DEF UnderLock
<1>2. ASSUME NEW e \in Opened, MonitorStep(e)
      PROVE  NobodyBegins
  <2>1. Monitor(e) \notin Maintainers
    BY OpenedEntries, TaskFacts
  <2>2. \E from, to : Runs(Monitor(e), from, to) /\ "idle" \notin from
    BY <1>2, MonitorRuns DEF MonitorStep
  <2>3. pc[Monitor(e)] # "idle"
    BY <2>2 DEF Runs
  <2> QED
    BY <2>1, <2>2, <2>3, RunsBegins
<1>3. ASSUME NEW e \in Opened, MaintenanceStep(e)
      PROVE  NobodyBegins \/ ConnectionFails(e) \/ EndMaintenance(e)
  <2>1. CASE Maintain(e) \/ Connected(e)
    BY <2>1, MaintenanceRuns, StandsBegins
  <2> QED
    BY <1>3, <2>1 DEF MaintenanceStep
<1>4. ASSUME NEW h \in Handlers, HandlerStep(h)
      PROVE  NobodyBegins
  BY <1>4, HandlerRuns, RunsBegins, TaskFacts
<1>5. CASE PollingStep
  BY <1>5, PollingRuns, RunsBegins, TaskFacts DEF PollingStep
<1>6. CASE CloserStep
  BY <1>6, CloserRuns, RunsBegins, TaskFacts DEF CloserStep
<1>7. CASE UNCHANGED vars
  BY <1>7, StandsBegins DEF vars
<1> QED
  BY <1>1, <1>2, <1>3, <1>4, <1>5, <1>6, <1>7 DEF Next

\* No entry begins or ends to report, but by a step of its maintenance.
LEMMA SameTasks ==
    ASSUME ManagerTyped, TasksTyped, Carries, [Next]_vars
    PROVE  \/ \A e \in Opened : SameTask(entries[e], entries'[e])
           \/ \E e \in Opened : ConnectionFails(e) \/ EndMaintenance(e)
<1>0. \A e \in Opened : SameTask(entries[e], entries[e])
  BY DEF SameTask
<1>1. CASE KeepingStep
  BY <1>1, KeepingKeeps DEF EntriesKeep
<1>2. ASSUME NEW p \in Processes \ {Closer}, SyncAdd(p)
      PROVE  \A e \in Opened : SameTask(entries[e], entries'[e])
  BY <1>0, <1>2, SyncAddEntries
<1>3. ASSUME NEW p \in Processes \ {Closer}, FinishError(p)
      PROVE  \A e \in Opened : SameTask(entries[e], entries'[e])
  BY <1>3, FinishErrorEntries
<1>4. ASSUME NEW e \in Opened, FinishCheck(e)
      PROVE  \A d \in Opened : SameTask(entries[d], entries'[d])
  <2>1. CASE UNCHANGED entries
    BY <1>0, <2>1
  <2>2. CASE ~UNCHANGED entries
    <3>1. PICK now \in Opened : /\ Becomes(now, Clear(entries[now]))
                                /\ SameTask(entries[now], Clear(entries[now]))
      BY <1>4, <2>2, FinishCheckEntries
    <3> QED
      BY <1>0, <3>1 DEF Becomes
  <2> QED
    BY <2>1, <2>2
<1> QED
  BY <1>1, <1>2, <1>3, <1>4, Steps

LEMMA UnopenedStep ==
    ASSUME ManagerTyped, TasksTyped, Carries, Unopened, [Next]_vars
    PROVE  Unopened'
<1>0. Opened \subseteq Opened' /\ Opened' = 1 .. Len(entries')
  BY StepsEvolve, EvolvedEntries
<1>1. CASE NobodyBegins /\ \A e \in Opened : SameTask(entries[e], entries'[e])
  <2>1. ASSUME NEW e \in Opened', e \notin Opened
        PROVE  pc'[Maintainer(e)] = "idle" /\ entries'[e].task # "reporting"
    <3>1. PICK p \in Processes \ {Closer} : SyncAdd(p)
      BY <2>1, NoneOpened
    <3>2. PICK a \in Missing : entries'[e] = NewEntry(a)
      BY <1>0, <2>1, <3>1, SyncAddEntries
    <3>3. Len(entries') <= LastEntry /\ Len(entries') \in Nat
      BY <3>1, SyncAddEntries, LenProperties
    <3>4. e \in Entries
      BY <1>0, <3>3, BoundsAreNatural DEF Entries
    <3> QED
      BY <1>1, <2>1, <3>2, <3>4 DEF NobodyBegins, NewEntry
  <2> QED
    BY <1>0, <1>1, <2>1 DEF NobodyBegins, Unopened, SameTask
<1>2. ASSUME NEW e \in Opened, ConnectionFails(e) \/ EndMaintenance(e)
      PROVE  Unopened'
  <2>1. \E from, to : Runs(Maintainer(e), from, to)
    BY <1>2, MaintenanceRuns
  <2>2. pc'[Maintainer(e)] # "idle" <=> entries'[e].task = "reporting"
    <3>1. CASE ConnectionFails(e)
      <4>1. pc'[Maintainer(e)] # "idle"
        BY <3>1, MaintenanceRuns DEF Runs
      <4> QED
        BY <3>1, <4>1, ConnectionFailsEntries
    <3>2. CASE EndMaintenance(e)
      <4>1. pc'[Maintainer(e)] = "idle"
        BY <3>2, MaintenanceRuns DEF Runs
      <4> QED
        BY <3>2, <4>1, EndMaintenanceEntries DEF Becomes
    <3> QED
      BY <1>2, <3>1, <3>2
  <2>3. Opened' = Opened /\ \A d \in Opened \ {e} : entries'[d] = entries[d]
    <3>1. Len(entries') = Len(entries) /\ \A d \in Opened \ {e} : entries'[d] = entries[d]
      BY <1>2, ConnectionFailsEntries, EndMaintenanceEntries DEF Becomes
    <3> QED
      BY <1>0, <3>1, OpenedEntries
  <2>4. \A d \in Entries \ {e} : /\ pc'[Monitor(d)] = pc[Monitor(d)]
                                 /\ pc'[Maintainer(d)] = pc[Maintainer(d)]
    BY <2>1, OpenedEntries, TaskFacts DEF Runs
  <2> QED
    BY <2>2, <2>3, <2>4, OpenedEntries DEF Unopened
<1> QED
  BY <1>1, <1>2, Begins, SameTasks

-----------------------------------------------------------------------------
(* Who syncs.                                                              *)

\* Nobody begins to sync, or ends to, and what is left to do stays the same.
SyncersStay ==
    /\ sync' = sync
    /\ \A q \in Processes : pc'[q] \in Syncs \/ pc[q] \in Syncs => pc'[q] = pc[q]

\* p begins to sync.
StartsSync(p) ==
    /\ Runs(p, {"locked"}, {"syncing"})
    /\ sync' = Syncing(description, description') /\ servers' = servers
    /\ ProcessDescription(p) \/ ApplyRescan

SyncStep(p) == SyncRemove(p) \/ SyncPoolClosed(p) \/ SyncAdd(p) \/ SyncWatch(p)

LEMMA RunsStay ==
    ASSUME sync' = sync, NEW p, NEW from, NEW to, Runs(p, from, to),
           from \cap Syncs = {}, to \cap Syncs = {}
    PROVE  SyncersStay
  BY DEF Runs, SyncersStay

LEMMA StandsStay == ASSUME UNCHANGED <<sync, pc>> PROVE SyncersStay
  BY DEF SyncersStay

LEMMA Syncers ==
    ASSUME ManagerTyped, TasksTyped, Unopened, [Next]_vars
    PROVE  \/ SyncersStay
           \/ \E p \in Processes \ {Closer} : StartsSync(p) \/ SyncStep(p)
<1>1. ASSUME NEW p \in Processes \ {Closer}, UnderLock(p)
      PROVE  SyncersStay \/ StartsSync(p) \/ SyncStep(p)
  <2>1. CASE Wake(p)
    <3>1. sync' = sync
      BY <2>1 DEF Wake, taskVars
    <3>2. {"queued"} \cap Syncs = {} /\ {"locked"} \cap Syncs = {}
      BY DEF Syncs
    <3> QED
      BY <2>1, <3>1, <3>2, UnderLockRuns, RunsStay
  <2>2. CASE ProcessDescription(p)
    <3>1. /\ pc[p] = "locked" /\ servers' = servers
          /\ Runs(p, {"locked"}, {"finishing", "syncing", "failed", "caught"})
      BY <2>2, UnderLockRuns DEF ProcessDescription
    <3>2. CASE sync' = Syncing(description, description') /\ GoTo(p, "syncing")
      <4>1. Runs(p, {"locked"}, {"syncing"})
        BY <3>1, <3>2, RunsFrom
      <4> QED
        BY <2>2, <3>1, <3>2, <4>1 DEF StartsSync
    <3>3. CASE sync' = sync /\ \E label \in {"finishing", "failed", "caught"} : GoTo(p, label)
      <4>1. Runs(p, {"locked"}, {"finishing", "failed", "caught"})
        BY <3>1, <3>3, RunsFrom
      <4>2. {"locked"} \cap Syncs = {} /\ {"finishing", "failed", "caught"} \cap Syncs = {}
        BY DEF Syncs
      <4> QED
        BY <3>3, <4>1, <4>2, RunsStay
    <3> QED
      BY <2>2, <3>2, <3>3 DEF ProcessDescription, RaiseUnderLock
  <2>3. CASE FinishError(p)
    <3>1. sync' = sync /\ p \in Handlers \cup Maintainers /\ Runs(p, {"finishing"}, Outcome(p))
      BY <2>3, UnderLockRuns DEF FinishError
    <3>2. {"finishing"} \cap Syncs = {} /\ Outcome(p) \cap Syncs = {}
      BY <3>1, Outcomes DEF Syncs, Maintainers
    <3> QED
      BY <3>1, <3>2, RunsStay
  <2> QED
    BY <1>1, <2>1, <2>2, <2>3 DEF UnderLock, SyncStep
<1>2. ASSUME NEW e \in Opened, MonitorStep(e)
      PROVE  SyncersStay
  <2>1. sync' = sync
    BY <1>2 DEF MonitorStep, Rest, StartCheck, CheckReturns, FinishCheck, taskVars
  <2>2. \E from, to : Runs(Monitor(e), from, to) /\ from \cap Syncs = {} /\ to \cap Syncs = {}
    <3>1. /\ {"looping"} \cap Syncs = {} /\ {"sleeping", "done"} \cap Syncs = {}
          /\ {"spawned", "sleeping"} \cap Syncs = {} /\ {"checking", "done"} \cap Syncs = {}
          /\ {"checking"} \cap Syncs = {} /\ {"looping", "locked", "queued"} \cap Syncs = {}
          /\ {"finishing"} \cap Syncs = {} /\ {"looping", "failed"} \cap Syncs = {}
      BY DEF Syncs
    <3> QED
      BY <1>2, <3>1, MonitorRuns DEF MonitorStep
  <2> QED
    BY <2>1, <2>2, RunsStay
<1>3. ASSUME NEW e \in Opened, MaintenanceStep(e)
      PROVE  SyncersStay
  <2>1. sync' = sync
    BY <1>3 DEF MaintenanceStep, Maintain, Connected, ConnectionFails, EndMaintenance, taskVars
  <2>2. \/ pc' = pc
        \/ \E from, to : Runs(Maintainer(e), from, to) /\ from \cap Syncs = {} /\ to \cap Syncs = {}
    <3>1. /\ {"idle"} \cap Syncs = {} /\ {"caught", "reported", "locked", "queued"} \cap Syncs = {}
          /\ {"reported", "caught"} \cap Syncs = {}
      BY DEF Syncs
    <3> QED
      BY <1>3, <3>1, MaintenanceRuns DEF MaintenanceStep
  <2> QED
    BY <2>1, <2>2, RunsStay, StandsStay
<1>4. ASSUME NEW h \in Handlers, HandlerStep(h)
      PROVE  SyncersStay
  <2>1. sync' = sync
    BY <1>4 DEF HandlerStep, Borrow, Succeed, Report, taskVars
  <2>2. /\ {"idle", "using"} \cap Syncs = {}
        /\ {"idle", "using", "failed", "locked", "queued"} \cap Syncs = {}
    BY DEF Syncs
  <2> QED
    BY <1>4, <2>1, <2>2, HandlerRuns, RunsStay
<1>5. CASE PollingStep
  <2>1. CASE ApplyRescan /\ ~UNCHANGED sync
    <3>1. /\ sync' = Syncing(description, description') /\ servers' = servers
          /\ GoTo(Srv, "syncing") /\ pc[Srv] = "locked"
      BY <2>1 DEF ApplyRescan, At
    <3>2. Runs(Srv, {"locked"}, {"syncing"})
      BY <3>1, RunsFrom, TaskFacts
    <3> QED
      BY <2>1, <3>1, <3>2, TaskFacts DEF StartsSync
  <2>2. CASE ApplyRescan /\ UNCHANGED sync
    <3>1. CASE GoTo(Srv, "finishing")
      <4>1. Runs(Srv, {"locked"}, {"finishing"})
        BY <2>2, <3>1, RunsFrom, TaskFacts DEF ApplyRescan, At
      <4>2. {"locked"} \cap Syncs = {} /\ {"finishing"} \cap Syncs = {}
        BY DEF Syncs
      <4> QED
        BY <2>2, <4>1, <4>2, RunsStay
    <3>2. CASE GoTo(Srv, "syncing") /\ sync' = Syncing(description, description')
      <4>1. Runs(Srv, {"locked"}, {"syncing"}) /\ servers' = servers
        BY <2>2, <3>2, RunsFrom, TaskFacts DEF ApplyRescan, At
      <4> QED
        BY <2>2, <3>2, <4>1, TaskFacts DEF StartsSync
    <3> QED
      BY <2>2, <3>1, <3>2 DEF ApplyRescan
  <2>3. CASE Rescan \/ FinishRescan \/ StopPolling
    <3>1. sync' = sync
      BY <2>3 DEF Rescan, FinishRescan, StopPolling, taskVars
    <3>2. \E from, to : Runs(Srv, from, to) /\ from \cap Syncs = {} /\ to \cap Syncs = {}
      <4>1. /\ {"sleeping"} \cap Syncs = {} /\ {"locked", "queued"} \cap Syncs = {}
            /\ {"finishing"} \cap Syncs = {} /\ {"done"} \cap Syncs = {}
        BY DEF Syncs
      <4> QED
        BY <2>3, <4>1, PollingRuns
    <3> QED
      BY <3>1, <3>2, RunsStay
  <2> QED
    BY <1>5, <2>1, <2>2, <2>3 DEF PollingStep
<1>6. CASE CloserStep
  <2>1. sync' = sync
    BY <1>6 DEF CloserStep, Close, AwaitMonitor, MonitorEnded, AwaitPolling, PollingEnded,
       CloseServer, PoolClosed, EndClose, taskVars
  <2>2. \E from, to : Runs(Closer, from, to)
    BY <1>6, CloserRuns DEF CloserStep
  <2>3. pc[Closer] \notin Syncs
    BY TaskFacts, WhereTasksAre DEF TasksTyped, Syncs
  <2>4. pc'[Closer] \notin Syncs
    <3>1. /\ "stopping" \notin Syncs /\ "failed" \notin Syncs /\ "awaiting monitor" \notin Syncs
          /\ "awaiting polling" \notin Syncs /\ "removing" \notin Syncs
          /\ "removing pool" \notin Syncs /\ "done" \notin Syncs
      BY DEF Syncs
    <3> QED
      BY <1>6, <3>1, CloserRuns DEF CloserStep, Runs
  <2> QED
    BY <2>1, <2>2, <2>3, <2>4 DEF SyncersStay, Runs
<1>7. CASE UNCHANGED vars
  BY <1>7, StandsStay DEF vars, taskVars
<1> QED
  BY <1>1, <1>2, <1>3, <1>4, <1>5, <1>6, <1>7 DEF Next

\* A task that syncs is alone.
LEMMA OneSyncs ==
    ASSUME LockIsHeld, NEW p \in Processes, pc[p] \in Owning
    PROVE  \A q \in Processes \ {p} : pc[q] \notin Syncs /\ pc[q] \notin Owning
<1>1. Syncs \subseteq Owning
  BY DEF Syncs, Owning, Locking
<1> QED
  BY <1>1, OneOwns

LEMMA SyncShapeStep ==
    ASSUME ManagerTyped, TasksTyped, LockIsHeld, Carries, Served, Unopened, SyncShape, CloseShape,
           [Next]_vars
    PROVE  SyncShape'
<1>0. EntriesEvolve
  BY StepsEvolve
<1>1. CASE SyncersStay
  <2>1. sync' = sync /\ \A q \in Processes : pc'[q] \in Syncs \/ pc[q] \in Syncs => pc'[q] = pc[q]
    BY <1>1 DEF SyncersStay
  <2>2. \A q \in Processes : pc'[q] = "syncing" => sync'.pool = NoEntry
    BY <2>1 DEF SyncShape, Syncs
  <2>3. ASSUME NEW q \in Processes, pc'[q] = "syncing pool"
        PROVE  /\ sync.pool # NoEntry /\ entries'[sync.pool].pool = "closed"
               /\ servers'[entries'[sync.pool].address] \in {sync.pool, NoEntry}
    <3>1. pc[q] = "syncing pool" /\ pc[q] \in Owning
      BY <2>1, <2>3 DEF Syncs, Owning, Locking
    <3>2. /\ sync.pool \in Opened /\ sync.pool # NoEntry /\ entries[sync.pool].pool = "closed"
          /\ servers[AddressOf(sync.pool)] \in {sync.pool, NoEntry}
      BY <3>1 DEF SyncShape, TasksTyped, MaybeEntry
    <3>3. /\ entries'[sync.pool].pool = "closed" /\ AddressOf(sync.pool) \in Addresses
          /\ entries'[sync.pool].address = AddressOf(sync.pool)
      BY <1>0, <3>2, EvolvedEntries, OpenedEntries DEF AddressOf, Entry
    <3>4. Forgets
      <4>1. ASSUME NEW p \in Processes \ {Closer}, SyncAdd(p) PROVE FALSE
        <5>1. pc[p] = "syncing"
          BY <4>1, UnderLockRuns
        <5>2. pc[p] \in Syncs /\ p # q
          BY <3>1, <5>1 DEF Syncs
        <5> QED
          BY <3>1, <5>2, OneSyncs
      <4> QED
        BY <4>1, ServersForget
    <3> QED
      BY <3>2, <3>3, <3>4 DEF Forgets
  <2>4. (\A q \in Processes : pc'[q] \notin Syncs) => sync' = NothingToSync
    BY <2>1 DEF SyncShape
  <2> QED
    BY <2>1, <2>2, <2>3, <2>4 DEF SyncShape, AddressOf
<1>2. ASSUME NEW p \in Processes, pc[p] \in Owning, pc'[p] \in Syncs,
             \A q \in Processes \ {p} : pc'[q] = pc[q],
             pc'[p] = "syncing" => sync'.pool = NoEntry,
             pc'[p] = "syncing pool" =>
                /\ sync'.pool # NoEntry /\ entries'[sync'.pool].pool = "closed"
                /\ servers'[entries'[sync'.pool].address] \in {sync'.pool, NoEntry}
      PROVE  SyncShape'
  <2>1. \A q \in Processes \ {p} : pc'[q] \notin Syncs
    BY <1>2, OneSyncs
  <2> QED
    BY <1>2, <2>1 DEF SyncShape, Syncs, AddressOf
<1>3. ASSUME NEW p \in Processes \ {Closer}, StartsSync(p)
      PROVE  SyncShape'
  <2>1. /\ pc[p] = "locked" /\ pc'[p] = "syncing"
        /\ \A q \in Processes \ {p} : pc'[q] = pc[q]
    BY <1>3 DEF StartsSync, Runs
  <2>2. sync'.pool = NoEntry
    BY <1>3 DEF StartsSync, Syncing
  <2>3. pc[p] \in Owning /\ pc'[p] \in Syncs
    BY <2>1 DEF Owning, Locking, Syncs
  <2> QED
    BY <1>2, <2>1, <2>2, <2>3
<1>4. ASSUME NEW p \in Processes \ {Closer}, SyncRemove(p)
      PROVE  SyncShape'
  <2>1. /\ pc[p] = "syncing" /\ pc'[p] \in Syncs
        /\ \A q \in Processes \ {p} : pc'[q] = pc[q]
    BY <1>4, UnderLockRuns DEF Runs
  <2>2. pc[p] \in Owning /\ sync.pool = NoEntry
    BY <2>1 DEF Owning, Locking, SyncShape
  <2>3. PICK a \in sync.removing :
           \/ sync' = [sync EXCEPT !.removing = @ \ {a}] /\ UNCHANGED pc
           \/ /\ sync' = [sync EXCEPT !.removing = @ \ {a}, !.pool = Current(a)]
              /\ Current(a) # NoEntry /\ RemoveServer(a) /\ ~ClosesAtOnce(Current(a))
              /\ GoTo(p, "syncing pool")
    BY <1>4 DEF SyncRemove
  <2>4. CASE sync' = [sync EXCEPT !.removing = @ \ {a}] /\ UNCHANGED pc
    <3>1. sync'.pool = NoEntry /\ pc'[p] = "syncing"
      BY <2>1, <2>2, <2>4 DEF TasksTyped
    <3> QED
      BY <1>2, <2>1, <2>2, <3>1
  <2>5. CASE /\ sync' = [sync EXCEPT !.removing = @ \ {a}, !.pool = Current(a)]
             /\ Current(a) # NoEntry /\ RemoveServer(a) /\ ~ClosesAtOnce(Current(a))
             /\ GoTo(p, "syncing pool")
    <3>1. pc'[p] = "syncing pool" /\ sync'.pool = Current(a)
      BY <2>5, Goes DEF TasksTyped
    <3>2. a \in Addresses /\ Current(a) \in Opened /\ AddressOf(Current(a)) = a
      BY <2>5, OpenedEntries DEF TasksTyped, Current, Served
    <3>3. entries'[Current(a)].pool = "closed"
      BY <2>5, <3>2, RemoveForgets
    <3>4. servers'[a] = Current(a)
      BY <2>5 DEF RemoveServer, Current
    <3>5. entries'[Current(a)].address = a
      BY <1>0, <3>2, EvolvedEntries DEF AddressOf
    <3> QED
      BY <1>2, <2>1, <2>2, <2>5, <3>1, <3>3, <3>4, <3>5
  <2> QED
    BY <2>3, <2>4, <2>5
<1>5. ASSUME NEW p \in Processes \ {Closer}, SyncPoolClosed(p)
      PROVE  SyncShape'
  <2>1. /\ pc[p] = "syncing pool" /\ pc'[p] = "syncing"
        /\ \A q \in Processes \ {p} : pc'[q] = pc[q]
    BY <1>5, UnderLockRuns DEF Runs
  <2>2. sync'.pool = NoEntry
    BY <1>5 DEF SyncPoolClosed, TasksTyped
  <2>3. pc[p] \in Owning /\ pc'[p] \in Syncs
    BY <2>1 DEF Owning, Locking, Syncs
  <2> QED
    BY <1>2, <2>1, <2>2, <2>3
<1>6. ASSUME NEW p \in Processes \ {Closer}, SyncAdd(p)
      PROVE  SyncShape'
  <2>1. pc' = pc /\ pc[p] = "syncing"
    BY <1>6, UnderLockRuns
  <2>2. sync'.pool = NoEntry
    BY <1>6, <2>1 DEF SyncAdd, TasksTyped, SyncShape
  <2>3. pc[p] \in Owning /\ pc'[p] \in Syncs
    BY <2>1 DEF Owning, Locking, Syncs
  <2> QED
    BY <1>2, <2>1, <2>2, <2>3
<1>7. ASSUME NEW p \in Processes \ {Closer}, SyncWatch(p)
      PROVE  SyncShape'
  <2>1. /\ pc[p] = "syncing" /\ pc'[p] = "finishing"
        /\ \A q \in Processes \ {p} : pc'[q] = pc[q] \/ pc'[q] = "spawned"
    BY <1>7, UnderLockRuns
  <2>2. pc[p] \in Owning /\ "finishing" \notin Syncs /\ "spawned" \notin Syncs
    BY <2>1 DEF Owning, Locking, Syncs
  <2>3. \A q \in Processes : pc'[q] \notin Syncs
    BY <2>1, <2>2, OneSyncs
  <2>4. sync.pool = NoEntry /\ sync.removing = {} /\ sync.adding = {}
        /\ sync' = [sync EXCEPT !.watching = {}]
    BY <1>7, <2>1 DEF SyncShape, SyncWatch
  <2>5. sync' = NothingToSync
    BY <2>4 DEF NothingToSync, TasksTyped
  <2> QED
    BY <2>3, <2>5 DEF SyncShape, Syncs
<1> QED
  BY <1>1, <1>3, <1>4, <1>5, <1>6, <1>7, Syncers DEF SyncStep

-----------------------------------------------------------------------------
(* A manager that is closed.                                               *)

LEMMA CloserStays ==
    ASSUME ManagerTyped, TasksTyped, Unopened, [Next]_vars, ~CloserStep
    PROVE  pc'[Closer] = pc[Closer] /\ closing' = closing /\ state' = state
<1>0. closing' = closing /\ state' = state
  BY ClosingChanges, StateChanges DEF CloserStep
<1>1. ASSUME NEW p \in Processes \ {Closer}, UnderLock(p)
      PROVE  pc'[Closer] = pc[Closer]
  <2>1. \/ pc' = pc \/ (\E from, to : Runs(p, from, to))
        \/ \A q \in Processes \ {p} : pc'[q] = pc[q] \/ q \in Monitors
    BY <1>1, UnderLockRuns DEF UnderLock
  <2> QED
    BY <2>1, TaskFacts DEF Runs
<1>2. ASSUME NEW e \in Opened, MonitorStep(e)
      PROVE  pc'[Closer] = pc[Closer]
  <2>1. \E from, to : Runs(Monitor(e), from, to)
    BY <1>2, MonitorRuns DEF MonitorStep
  <2> QED
    BY <2>1, OpenedEntries, TaskFacts DEF Runs
<1>3. ASSUME NEW e \in Opened, MaintenanceStep(e)
      PROVE  pc'[Closer] = pc[Closer]
  <2>1. pc' = pc \/ \E from, to : Runs(Maintainer(e), from, to)
    BY <1>3, MaintenanceRuns DEF MaintenanceStep
  <2> QED
    BY <2>1, OpenedEntries, TaskFacts DEF Runs
<1>4. ASSUME NEW h \in Handlers, HandlerStep(h)
      PROVE  pc'[Closer] = pc[Closer]
  BY <1>4, HandlerRuns, TaskFacts DEF Runs
<1>5. ASSUME PollingStep
      PROVE  pc'[Closer] = pc[Closer]
  <2>1. \E from, to : Runs(Srv, from, to)
    BY <1>5, PollingRuns DEF PollingStep
  <2> QED
    BY <2>1, TaskFacts DEF Runs
<1>6. ASSUME UNCHANGED vars
      PROVE  pc'[Closer] = pc[Closer]
  BY <1>6 DEF vars
<1>7. pc'[Closer] = pc[Closer]
  BY <1>1, <1>2, <1>3, <1>4, <1>5, <1>6 DEF Next
<1> QED
  BY <1>0, <1>7

LEMMA ClosedStays ==
    ASSUME ManagerTyped, TasksTyped, Carries, CloseShape, [Next]_vars, state # "open"
    PROVE  description' = description /\ sync'.adding \subseteq sync.adding
<1>0. (\A a \in Addresses : ~Known(a)) /\ description.type = "Unknown" /\ pc[Closer] # "idle"
  BY DEF CloseShape
<1>1. ASSUME NEW p \in Processes \ {Closer}, ProcessDescription(p)
      PROVE  UNCHANGED <<description, sync>>
  <2>1. work[p].address \in Addresses
    BY <1>1, ProcessDescriptionReads
  <2>2. Ignores(description, work[p].address, work[p].reply, GenerationOf(p))
    BY <1>0, <2>1 DEF Ignores, Known
  <2> QED
    BY <1>1, <2>2 DEF ProcessDescription
<1>2. ASSUME NEW p \in Processes \ {Closer}, FinishError(p)
      PROVE  UNCHANGED <<description, sync>>
  <2>1. work[p].address \in Addresses
    BY <1>2, ReporterCarries DEF FinishError, At, Locking
  <2>2. ~MayTakeGeneration(description, work[p].address, ClearedByError(p)[held[p]].generation)
    BY <1>0, <2>1 DEF MayTakeGeneration, Known
  <2> QED
    BY <1>2, <2>2 DEF FinishError
<1>3. ASSUME NEW e \in Opened, FinishCheck(e)
      PROVE  UNCHANGED <<description, sync>>
  <2>1. work[Monitor(e)].address \in Addresses
    BY <1>3, FinishCheckEntries
  <2>2. \A generation : ~MayTakeGeneration(description, work[Monitor(e)].address, generation)
    BY <1>0, <2>1 DEF MayTakeGeneration, Known
  <2> QED
    BY <1>3, <2>2 DEF FinishCheck
<1>4. CASE ApplyRescan
  BY <1>4 DEF ApplyRescan
<1>5. ~Close
  BY <1>0 DEF Close, At
<1>6. description' = description
  BY <1>1, <1>2, <1>3, <1>4, <1>5, DescriptionChanges
<1>7. sync'.adding \subseteq sync.adding
  <2>1. ASSUME NEW p \in Processes \ {Closer}, SyncStep(p)
        PROVE  sync'.adding \subseteq sync.adding
    <3>1. sync'.adding \in {sync.adding, {}}
      BY <2>1 DEF SyncStep, SyncRemove, SyncPoolClosed, SyncAdd, SyncWatch, TasksTyped
    <3> QED
      BY <3>1
  <2> QED
    BY <1>1, <1>4, <2>1, SyncChanges DEF SyncStep
<1> QED
  BY <1>6, <1>7

LEMMA CloseShapeStep ==
    ASSUME ManagerTyped, TasksTyped, LockIsHeld, Carries, Served, Unopened, SyncShape, CloseShape,
           Normal => Match, [Next]_vars
    PROVE  CloseShape'
<1>0. EntriesEvolve
  BY StepsEvolve
<1>1. CASE Close
  <2>1. state = "open" /\ pc'[Closer] = "stopping" /\ state' = "closed_permanently"
    <3>1. pc[Closer] = "idle" /\ pc'[Closer] = "stopping"
      BY <1>1, CloserRuns DEF Runs
    <3> QED
      BY <1>1, <3>1 DEF Close, CloseShape
  <2>2. /\ \A a \in Addresses : description'.servers[a].type = "Absent"
        /\ description'.type = "Unknown"
    BY <1>1, ClosedTyped DEF Close, ManagerTyped
  <2>3. closing'.pools = {a \in Addresses : servers[a] # NoEntry} /\ sync' = sync
    BY <1>1 DEF Close, Current
  <2>4. \A a \in sync.adding : servers[a] = NoEntry
    <3>1. CASE Normal
      <4>1. Match
        BY <3>1
      <4> QED
        BY <4>1 DEF Match
    <3>2. CASE ~Normal
      <4>1. Lost
        BY <2>1, <3>2 DEF Normal
      <4>2. \A p \in Processes : pc[p] \notin Owning
        BY <4>1, OwnerIsHead
      <4>3. \A p \in Processes : pc[p] \notin Syncs
        BY <4>2 DEF Syncs, Owning, Locking
      <4>4. sync = NothingToSync
        BY <4>3 DEF SyncShape
      <4> QED
        BY <4>4 DEF NothingToSync
    <3> QED
      BY <3>1, <3>2
  <2> QED
    BY <2>1, <2>2, <2>3, <2>4 DEF CloseShape, Known
<1>2. ASSUME state # "open"
      PROVE  /\ state' = state /\ \A a \in Addresses : description'.servers[a].type = "Absent"
             /\ description'.type = "Unknown" /\ sync'.adding \subseteq sync.adding
  <2>1. ~Close
    BY <1>2 DEF Close, At, CloseShape
  <2> QED
    BY <1>2, <2>1, ClosedStays, StateChanges DEF CloseShape, Known
<1>3. CASE CloserStep /\ ~Close
  <2>1. pc[Closer] # "idle" /\ pc'[Closer] # "idle" /\ state # "open"
    <3>1. pc[Closer] # "idle" /\ pc'[Closer] # "idle"
      BY <1>3, CloserRuns DEF CloserStep, Runs
    <3> QED
      BY <3>1 DEF CloseShape
  <2>2. closing'.pools \subseteq closing.pools
    <3>1. UNCHANGED closing \/ AwaitMonitor \/ CloseServer
      BY <1>3, ClosingChanges
    <3>2. AwaitMonitor => closing'.pools = closing.pools
      BY DEF AwaitMonitor, TasksTyped
    <3>3. CloseServer => \E a : closing'.pools = closing.pools \ {a}
      BY DEF CloseServer, TasksTyped
    <3> QED
      BY <3>1, <3>2, <3>3
  <2>3. ASSUME pc'[Closer] = "removing pool"
        PROVE  /\ closing'.entry # NoEntry /\ entries'[closing'.entry].pool = "closed"
               /\ entries'[closing'.entry].address \notin sync'.adding
               /\ servers'[entries'[closing'.entry].address] \in {closing'.entry, NoEntry}
    <3>1. CloseServer
      BY <1>3, <2>3, CloserRuns DEF CloserStep, Runs
    <3>2. pc[Closer] = "removing"
      BY <3>1, CloserRuns DEF Runs
    <3>3. PICK a \in closing.pools :
             /\ Current(a) # NoEntry /\ RemoveServer(a) /\ ~ClosesAtOnce(Current(a))
             /\ closing' = [closing EXCEPT !.pools = @ \ {a}, !.entry = Current(a)]
      BY <2>3, <3>1, <3>2 DEF CloseServer
    <3>4. a \in Addresses /\ Current(a) \in Opened /\ AddressOf(Current(a)) = a
      BY <3>3, OpenedEntries DEF TasksTyped, Current, Served
    <3>5. closing'.entry = Current(a) /\ a \notin sync.adding
      BY <2>1, <3>3 DEF TasksTyped, CloseShape
    <3>6. entries'[Current(a)].pool = "closed" /\ entries'[Current(a)].address = a
      BY <1>0, <3>3, <3>4, RemoveForgets, EvolvedEntries DEF AddressOf
    <3>7. servers'[a] = Current(a)
      BY <3>3 DEF RemoveServer, Current
    <3> QED
      BY <1>2, <2>1, <3>3, <3>5, <3>6, <3>7
  <2>4. ASSUME pc'[Closer] = "awaiting monitor"
        PROVE  closing'.entry # NoEntry
    <3>1. AwaitMonitor
      BY <1>3, <2>4, CloserRuns DEF CloserStep, Runs
    <3>2. pc[Closer] = "stopping"
      BY <3>1, CloserRuns DEF Runs
    <3> QED
      BY <2>4, <3>1, <3>2 DEF AwaitMonitor, TasksTyped, GoTo
  <2> QED
    BY <1>2, <2>1, <2>2, <2>3, <2>4 DEF CloseShape, Known, AddressOf
<1>4. CASE ~CloserStep
  <2>1. pc'[Closer] = pc[Closer] /\ closing' = closing /\ state' = state
    BY <1>4, CloserStays
  <2>2. ASSUME pc[Closer] = "removing pool"
        PROVE  /\ closing.entry # NoEntry /\ entries'[closing.entry].pool = "closed"
               /\ entries'[closing.entry].address \notin sync'.adding
               /\ servers'[entries'[closing.entry].address] \in {closing.entry, NoEntry}
    <3>1. /\ closing.entry \in Opened /\ closing.entry # NoEntry
          /\ entries[closing.entry].pool = "closed"
          /\ AddressOf(closing.entry) \notin sync.adding
          /\ servers[AddressOf(closing.entry)] \in {closing.entry, NoEntry}
      BY <2>2 DEF CloseShape, TasksTyped, MaybeEntry
    <3>2. /\ entries'[closing.entry].pool = "closed" /\ AddressOf(closing.entry) \in Addresses
          /\ entries'[closing.entry].address = AddressOf(closing.entry)
      BY <1>0, <3>1, EvolvedEntries, OpenedEntries DEF AddressOf, Entry
    <3>3. state # "open"
      BY <2>2 DEF CloseShape
    <3>4. servers'[AddressOf(closing.entry)] \in {servers[AddressOf(closing.entry)], NoEntry}
      <4>1. CASE Forgets
        BY <3>2, <4>1 DEF Forgets
      <4>2. ASSUME NEW p \in Processes \ {Closer}, SyncAdd(p)
            PROVE  servers'[AddressOf(closing.entry)] = servers[AddressOf(closing.entry)]
        BY <3>1, <3>2, <4>2, SyncAddEntries DEF Missing
      <4> QED
        BY <4>1, <4>2, ServersForget
    <3> QED
      BY <1>2, <3>1, <3>2, <3>3, <3>4
  <2> QED
    BY <1>2, <2>1, <2>2 DEF CloseShape, Known, AddressOf
<1> QED
  BY <1>1, <1>3, <1>4

-----------------------------------------------------------------------------
(* A manager that is open, and has not lost its lock.                      *)

LEMMA StillNormal ==
    ASSUME ManagerTyped, TasksTyped, LockIsHeld, Carries, Unopened, CloseShape, [Next]_vars, Normal'
    PROVE  /\ Normal /\ ~CloserStep
           /\ \A p \in Processes : pc[p] \in Owning => ~RaiseUnderLock(p)
<1>1. ~Close /\ state = "open"
  <2>1. state' = "open"
    BY DEF Normal
  <2>2. ~Close
    BY <2>1 DEF Close
  <2> QED
    BY <2>1, <2>2, StateChanges
<1>2. ~CloserStep
  <2>1. pc[Closer] = "idle"
    BY <1>1 DEF CloseShape
  <2> QED
    BY <1>1, <2>1, CloserRuns DEF CloserStep, Runs
<1>3. ~Lost
  <2>1. Lost => Lost'
    BY StepKinds, LockStep
  <2> QED
    BY <2>1 DEF Normal
<1>4. \A p \in Processes : pc[p] \in Owning => ~RaiseUnderLock(p)
  BY RaisesLose DEF Normal
<1> QED
  BY <1>1, <1>2, <1>3, <1>4 DEF Normal

LEMMA ProcessingStarts ==
    ASSUME ManagerTyped, TasksTyped, NEW p \in Processes \ {Closer}, ProcessDescription(p),
           ~RaiseUnderLock(p)
    PROVE  \/ UNCHANGED <<description, entries, servers, sync>> /\ pc'[p] = "finishing"
           \/ StartsSync(p)
              /\ description' = Update(description, work[p].address, work[p].reply, GenerationOf(p))
              /\ ~Ignores(description, work[p].address, work[p].reply, GenerationOf(p))
<1>1. pc[p] = "locked" /\ servers' = servers
  BY UnderLockRuns DEF ProcessDescription
<1>2. \/ UNCHANGED <<description, entries, servers, sync>> /\ GoTo(p, "finishing")
      \/ /\ description' = Update(description, work[p].address, work[p].reply, GenerationOf(p))
         /\ ~Ignores(description, work[p].address, work[p].reply, GenerationOf(p))
         /\ sync' = Syncing(description, description') /\ GoTo(p, "syncing")
  BY DEF ProcessDescription
<1>3. CASE UNCHANGED <<description, entries, servers, sync>> /\ GoTo(p, "finishing")
  BY <1>3, Goes
<1>4. CASE /\ description' = Update(description, work[p].address, work[p].reply, GenerationOf(p))
           /\ ~Ignores(description, work[p].address, work[p].reply, GenerationOf(p))
           /\ sync' = Syncing(description, description') /\ GoTo(p, "syncing")
  <2>1. Runs(p, {"locked"}, {"syncing"})
    BY <1>1, <1>4, RunsFrom
  <2> QED
    BY <1>1, <1>4, <2>1 DEF StartsSync
<1> QED
  BY <1>2, <1>3, <1>4

LEMMA RescanStarts ==
    ASSUME TasksTyped, ApplyRescan
    PROVE  \/ UNCHANGED <<description, entries, servers, sync>>
           \/ StartsSync(Srv) /\ description' = WithSrvHosts(description, work[Srv])
              /\ entries' = entries
<1>1. pc[Srv] = "locked" /\ UNCHANGED <<servers, entries>> /\ Srv \in Processes
  BY TaskFacts DEF ApplyRescan, At
<1>2. \/ UNCHANGED <<description, sync>>
      \/ /\ description' = WithSrvHosts(description, work[Srv])
         /\ sync' = Syncing(description, description') /\ GoTo(Srv, "syncing")
  BY DEF ApplyRescan
<1>3. CASE /\ description' = WithSrvHosts(description, work[Srv])
           /\ sync' = Syncing(description, description') /\ GoTo(Srv, "syncing")
  <2>1. Runs(Srv, {"locked"}, {"syncing"})
    BY <1>1, <1>3, RunsFrom
  <2> QED
    BY <1>1, <1>3, <2>1 DEF StartsSync
<1> QED
  BY <1>1, <1>2, <1>3

\* Nobody syncs when a sync starts.
LEMMA NothingBefore ==
    ASSUME LockIsHeld, SyncShape, NEW p \in Processes, pc[p] \in {"locked", "finishing"}
    PROVE  sync = NothingToSync
<1>1. pc[p] \in Owning /\ pc[p] \notin Syncs
  BY DEF Owning, Locking, Syncs
<1> QED
  BY <1>1, OneSyncs DEF SyncShape

\* Apart from the start of a sync, no server becomes known or unknown.
KnownStay == \A a \in Addresses : Known(a)' <=> Known(a)

LEMMA KnownStays ==
    ASSUME ManagerTyped, TasksTyped, LockIsHeld, Carries, Unopened, CloseShape, [Next]_vars, Normal'
    PROVE  KnownStay \/ \E p \in Processes \ {Closer} : StartsSync(p)
<1>0. CASE UNCHANGED description
  BY <1>0 DEF KnownStay, Known
<1>1. ASSUME NEW p \in Processes \ {Closer}, ProcessDescription(p)
      PROVE  UNCHANGED description \/ StartsSync(p)
  <2>1. pc[p] \in Owning
    BY <1>1, UnderLockRuns DEF Owning, Locking
  <2> QED
    BY <1>1, <2>1, StillNormal, ProcessingStarts
<1>2. ASSUME NEW p \in Processes \ {Closer}, FinishError(p)
      PROVE  KnownStay
  <2>1. /\ work[p].address \in Addresses
        /\ ClearedByError(p)[held[p]].generation \in Nat
    BY <1>2, ReporterCarries, FinishErrorEntries DEF FinishError, At, Locking
  <2>2. description' \in {description,
           WithGeneration(description, work[p].address, ClearedByError(p)[held[p]].generation)}
    BY <1>2 DEF FinishError, RecordGeneration
  <2> DEFINE generation == ClearedByError(p)[held[p]].generation
             new == WithGeneration(description, work[p].address, generation)
  <2>3. \A b \in Addresses : new.servers[b].type = description.servers[b].type
    BY <2>1, WithGenerationTyped DEF ManagerTyped
  <2>4. description' \in {description, new}
    BY <2>2
  <2> HIDE DEF new
  <2> QED
    BY <2>3, <2>4 DEF KnownStay, Known
<1>3. ASSUME NEW e \in Opened, FinishCheck(e)
      PROVE  KnownStay
  <2> DEFINE a == work[Monitor(e)].address
             generation == Clear(entries[Current(a)]).generation
  <2>1. a \in Addresses
    BY <1>3, FinishCheckEntries
  <2>2. CASE description' = description
    BY <2>2 DEF KnownStay, Known
  <2>3. CASE description' # description
    <3>1. description' = WithGeneration(description, a, generation) /\ Current(a) # NoEntry
      BY <1>3, <2>3 DEF FinishCheck, RecordGeneration
    <3>2. generation \in Nat
      BY <2>1, <3>1, OpenedEntries, EntryOperators DEF Current, Follows, Entry
    <3> QED
      BY <2>1, <3>1, <3>2, WithGenerationTyped DEF KnownStay, Known, ManagerTyped
  <2> QED
    BY <2>2, <2>3
<1>4. CASE ApplyRescan
  BY <1>0, <1>4, RescanStarts, TaskFacts
<1>5. ~Close
  BY StillNormal DEF CloserStep
<1> QED
  BY <1>0, <1>1, <1>2, <1>3, <1>4, <1>5, DescriptionChanges

-----------------------------------------------------------------------------
(* The servers are those described.                                        *)

LEMMA MatchStart ==
    ASSUME ManagerTyped, TasksTyped, sync = NothingToSync, Match,
           servers' = servers, sync' = Syncing(description, description')
    PROVE  Match'
<1>1. \A a \in Addresses : servers[a] # NoEntry <=> Known(a)
  BY DEF Match, NothingToSync
<1>2. /\ sync'.pool = NoEntry
      /\ \A a : a \in sync'.removing <=> a \in Addresses /\ Known(a) /\ ~Known(a)'
      /\ \A a : a \in sync'.adding <=> a \in Addresses /\ Known(a)' /\ ~Known(a)
      /\ \A a : a \in sync'.watching <=> a \in Addresses /\ Known(a)'
  BY DEF Syncing, Present, Known
<1>3. servers' = servers
  OBVIOUS
<1> QED
  BY <1>1, <1>2, <1>3 DEF Match

\* The addresses a sync is about.
LEMMA SyncAddresses ==
    ASSUME ManagerTyped, TasksTyped, EntriesEvolve
    PROVE  /\ sync.adding \subseteq Addresses /\ sync.removing \subseteq Addresses
           /\ sync.pool # NoEntry => /\ sync.pool \in Opened /\ AddressOf(sync.pool) \in Addresses
                                     /\ entries'[sync.pool].address = AddressOf(sync.pool)
<1>1. sync.pool # NoEntry => sync.pool \in Opened
  BY DEF TasksTyped, MaybeEntry
<1>2. sync.pool # NoEntry => /\ AddressOf(sync.pool) \in Addresses
                             /\ entries'[sync.pool].address = AddressOf(sync.pool)
  BY <1>1, EvolvedEntries, OpenedEntries DEF AddressOf, Entry
<1> QED
  BY <1>1, <1>2 DEF TasksTyped

LEMMA MatchStep ==
    ASSUME ManagerTyped, TasksTyped, LockIsHeld, Carries, Served, Unopened, SyncShape, CloseShape,
           [Next]_vars, Normal', Match
    PROVE  Match'
<1>0. EntriesEvolve
  BY StepsEvolve
<1>1. ASSUME NEW p \in Processes \ {Closer}, StartsSync(p)
      PROVE  Match'
  <2>1. sync = NothingToSync
    BY <1>1, NothingBefore DEF StartsSync, Runs
  <2> QED
    BY <1>1, <2>1, MatchStart DEF StartsSync
<1>2. CASE KnownStay /\ UNCHANGED <<servers, sync>>
  <2>1. sync.pool # NoEntry => entries'[sync.pool].address = AddressOf(sync.pool)
                               /\ AddressOf(sync.pool) \in Addresses
    BY <1>0, SyncAddresses
  <2>2. sync.adding \subseteq Addresses /\ sync.removing \subseteq Addresses
    BY <1>0, SyncAddresses
  <2> QED
    BY <1>2, <2>1, <2>2 DEF Match, KnownStay, AddressOf
<1>3. ASSUME NEW p \in Processes \ {Closer}, SyncRemove(p), KnownStay
      PROVE  Match'
  <2>1. sync.pool = NoEntry
    BY <1>3, UnderLockRuns DEF Runs, SyncShape
  <2>2. PICK a \in sync.removing :
           \/ /\ Current(a) = NoEntry \/ (RemoveServer(a) /\ ClosesAtOnce(Current(a)))
              /\ sync' = [sync EXCEPT !.removing = @ \ {a}]
              /\ Current(a) = NoEntry => servers' = servers
           \/ /\ Current(a) # NoEntry /\ RemoveServer(a) /\ ~ClosesAtOnce(Current(a))
              /\ sync' = [sync EXCEPT !.removing = @ \ {a}, !.pool = Current(a)]
    BY <1>3 DEF SyncRemove
  <2>3. a \in Addresses /\ ~Known(a)
    BY <2>2 DEF TasksTyped, Match
  <2>4. CASE sync' = [sync EXCEPT !.removing = @ \ {a}]
             /\ servers'[a] = NoEntry /\ \A b \in Addresses \ {a} : servers'[b] = servers[b]
    <3>1. /\ sync'.pool = NoEntry /\ sync'.adding = sync.adding /\ sync'.watching = sync.watching
          /\ sync'.removing = sync.removing \ {a}
      BY <2>1, <2>4 DEF TasksTyped
    <3>2. sync.adding \subseteq Addresses /\ sync.removing \subseteq Addresses
      BY DEF TasksTyped
    <3> QED
      BY <1>3, <2>1, <2>3, <2>4, <3>1, <3>2 DEF Match, KnownStay
  <2>5. CASE Current(a) # NoEntry /\ RemoveServer(a) /\ ~ClosesAtOnce(Current(a))
             /\ sync' = [sync EXCEPT !.removing = @ \ {a}, !.pool = Current(a)]
    <3>1. /\ sync'.pool = Current(a) /\ sync'.adding = sync.adding /\ sync'.watching = sync.watching
          /\ sync'.removing = sync.removing \ {a}
      BY <2>5 DEF TasksTyped
    <3>2. sync.adding \subseteq Addresses /\ sync.removing \subseteq Addresses
      BY DEF TasksTyped
    <3>3. servers' = servers
      BY <2>5 DEF RemoveServer
    <3>4. entries'[Current(a)].address = a
      BY <1>0, <2>3, <2>5, OpenedEntries, EvolvedEntries DEF Served, Current, AddressOf
    <3>5. AddressOf(sync.pool)' = a /\ sync'.pool # NoEntry
      BY <2>5, <3>1, <3>4 DEF AddressOf
    <3>6. ~Known(a)' /\ \A b \in Addresses : Known(b)' <=> Known(b)
      BY <1>3, <2>3 DEF KnownStay
    <3>7. \A b \in Addresses : servers[b] # NoEntry => Known(b) \/ b \in sync'.removing \/ b = a
      BY <2>1, <3>1 DEF Match
    <3> QED
      BY <3>1, <3>2, <3>3, <3>5, <3>6, <3>7 DEF Match
  <2>6. CASE sync' = [sync EXCEPT !.removing = @ \ {a}] /\ Current(a) # NoEntry
             /\ RemoveServer(a) /\ ClosesAtOnce(Current(a))
    <3>1. servers' = [servers EXCEPT ![a] = NoEntry]
      BY <2>6 DEF RemoveServer
    <3> QED
      BY <2>3, <2>4, <2>6, <3>1 DEF ManagerTyped
  <2>7. CASE sync' = [sync EXCEPT !.removing = @ \ {a}] /\ Current(a) = NoEntry /\ servers' = servers
    BY <2>4, <2>7 DEF Current
  <2> QED
    BY <2>2, <2>5, <2>6, <2>7
<1>4. ASSUME NEW p \in Processes \ {Closer}, SyncPoolClosed(p), KnownStay
      PROVE  Match'
  <2> DEFINE x == AddressOf(sync.pool)
  <2>1. sync.pool # NoEntry
    BY <1>4, UnderLockRuns DEF Runs, SyncShape
  <2>2. x \in Addresses /\ ~Known(x)
    BY <1>0, <2>1, SyncAddresses DEF Match
  <2>3. servers' = [servers EXCEPT ![x] = NoEntry] /\ sync' = [sync EXCEPT !.pool = NoEntry]
    BY <1>4 DEF SyncPoolClosed
  <2>4. /\ sync'.pool = NoEntry /\ sync'.adding = sync.adding /\ sync'.watching = sync.watching
        /\ sync'.removing = sync.removing
    BY <2>3 DEF TasksTyped
  <2>5. servers'[x] = NoEntry /\ \A b \in Addresses \ {x} : servers'[b] = servers[b]
    BY <2>2, <2>3 DEF ManagerTyped
  <2>6. sync.adding \subseteq Addresses /\ sync.removing \subseteq Addresses
    BY DEF TasksTyped
  <2> QED
    BY <1>4, <2>1, <2>2, <2>4, <2>5, <2>6 DEF Match, KnownStay
<1>5. ASSUME NEW p \in Processes \ {Closer}, SyncAdd(p), KnownStay
      PROVE  Match'
  <2>1. sync.pool = NoEntry /\ sync.removing = {}
    BY <1>5, UnderLockRuns DEF SyncShape, SyncAdd
  <2>2. /\ sync'.pool = NoEntry /\ sync'.adding = {} /\ sync'.watching = sync.watching
        /\ sync'.removing = {}
    BY <1>5, <2>1 DEF SyncAdd, TasksTyped
  <2>3. Missing = sync.adding /\ sync.adding \subseteq Addresses
    BY DEF Missing, Match, Current, TasksTyped
  <2>4. \A a \in sync.adding : servers'[a] # NoEntry
    <3>1. \A a \in sync.adding : servers'[a] \in Opened'
      BY <1>0, <1>5, <2>3, SyncAddEntries, EvolvedEntries
    <3>2. NoEntry \notin Opened'
      <4>1. ManagerTyped'
        BY TypesStep
      <4>2. Opened' \subseteq Entries
        BY <1>0, <4>1, EvolvedEntries, LenProperties, BoundsAreNatural DEF Entries, ManagerTyped
      <4> QED
        BY <4>2, TasksAreDistinct
    <3> QED
      BY <3>1, <3>2
  <2>5. \A a \in Addresses \ sync.adding : servers'[a] = servers[a]
    BY <1>5, <2>3, SyncAddEntries
  <2> QED
    BY <1>5, <2>1, <2>2, <2>3, <2>4, <2>5 DEF Match, KnownStay
<1>6. ASSUME NEW p \in Processes \ {Closer}, SyncWatch(p), KnownStay
      PROVE  Match'
  <2>1. sync.pool = NoEntry /\ sync.removing = {} /\ sync.adding = {} /\ servers' = servers
        /\ sync' = [sync EXCEPT !.watching = {}]
    BY <1>6, UnderLockRuns DEF SyncShape, SyncWatch, managerVars
  <2>2. /\ sync'.pool = NoEntry /\ sync'.adding = {} /\ sync'.removing = {}
    BY <2>1 DEF TasksTyped
  <2> QED
    BY <1>6, <2>1, <2>2 DEF Match, KnownStay
<1>7. CASE KnownStay /\ ~(UNCHANGED <<servers, sync>>)
  <2>1. ~CloseServer /\ ~PoolClosed
    BY StillNormal DEF CloserStep
  <2>2. \A p \in Processes \ {Closer} : ProcessDescription(p) /\ ~StartsSync(p) => sync' = sync
    <3>1. ASSUME NEW p \in Processes \ {Closer}, ProcessDescription(p), ~StartsSync(p)
          PROVE  sync' = sync
      <4>1. pc[p] \in Owning
        BY <3>1, UnderLockRuns DEF Owning, Locking
      <4> QED
        BY <3>1, <4>1, StillNormal, ProcessingStarts
    <3> QED
      BY <3>1
  <2>3. ApplyRescan => sync' = sync \/ StartsSync(Srv)
    BY RescanStarts
  <2>4. Srv \in Processes \ {Closer}
    BY TaskFacts
  <2>5. \/ \E p \in Processes \ {Closer} : StartsSync(p) \/ SyncStep(p)
        \/ UNCHANGED <<servers, sync>>
    BY <2>1, <2>2, <2>3, <2>4, ServersChange, SyncChanges DEF SyncStep
  <2> QED
    BY <1>1, <1>3, <1>4, <1>5, <1>6, <1>7, <2>5 DEF SyncStep
<1> QED
  BY <1>1, <1>2, <1>7, KnownStays

-----------------------------------------------------------------------------
(* The generations of the description.                                     *)

LEMMA SoleBefore ==
    ASSUME ManagerTyped, EntriesEvolve
    PROVE  /\ \A a \in Addresses : Sole(a)' => Sole(a)
           /\ \A a \in Addresses : (\A e \in Opened' : entries'[e].address # a)
                                      => \A e \in Opened : AddressOf(e) # a
           /\ \A e \in Opened : entries'[e].address = AddressOf(e)
<1>1. \A e \in Opened : e \in Opened' /\ entries'[e].address = AddressOf(e)
  BY EvolvedEntries DEF AddressOf
<1> QED
  BY <1>1 DEF Sole, AddressOf

LEMMA GenerationsFrame ==
    ASSUME ManagerTyped, EntriesEvolve, Generations, description' = description,
           sync'.adding \subseteq sync.adding,
           \A a \in Addresses : servers'[a] # NoEntry =>
              /\ servers'[a] = servers[a]
              /\ entries'[servers[a]].generation = entries[servers[a]].generation
    PROVE  Generations'
<1>1. ASSUME NEW a \in Addresses,
             description'.servers[a].type # "Absent", servers'[a] # NoEntry, Sole(a)'
      PROVE  description'.servers[a].generation = entries'[servers'[a]].generation
  <2>1. Sole(a) /\ Known(a) /\ servers[a] # NoEntry
    BY <1>1, SoleBefore DEF Known
  <2> QED
    BY <1>1, <2>1 DEF Generations
<1>2. ASSUME NEW a \in Addresses, a \in sync'.adding, \A e \in Opened' : entries'[e].address # a
      PROVE  description'.servers[a].generation = 0
  BY <1>2, SoleBefore DEF Generations
<1> QED
  BY <1>1, <1>2 DEF Generations, Known, AddressOf

\* When one pool is cleared, and the description is given its generation.
LEMMA GenerationsTaken ==
    ASSUME ManagerTyped, Served, EntriesEvolve, Generations,
           NEW e \in Opened, NEW g \in Nat,
           description' = WithGeneration(description, AddressOf(e), g), servers' = servers,
           sync'.adding = {}, entries'[e].generation = g,
           \A d \in Opened \ {e} : entries'[d].generation = entries[d].generation
    PROVE  Generations'
<1> DEFINE a == AddressOf(e)
<1>1. /\ a \in Addresses /\ description'.servers[a].generation = g
      /\ \A b \in Addresses \ {a} : description'.servers[b] = description.servers[b]
  <2>1. a \in Addresses
    BY OpenedEntries DEF AddressOf, Entry
  <2> QED
    BY <2>1, WithGenerationTyped DEF ManagerTyped
<1> HIDE DEF a
<1>2. ASSUME NEW b \in Addresses,
             description'.servers[b].type # "Absent", servers'[b] # NoEntry, Sole(b)'
      PROVE  description'.servers[b].generation = entries'[servers'[b]].generation
  <2>1. Sole(b) /\ servers[b] \in Opened /\ AddressOf(servers[b]) = b
    BY <1>2, SoleBefore, OpenedEntries DEF Served
  <2>2. CASE b = a
    <3>1. servers[b] = e
      BY <2>1, <2>2 DEF Sole, a
    <3> QED
      BY <1>1, <2>2, <3>1
  <2>3. CASE b # a
    <3>1. servers[b] # e
      BY <2>1, <2>3 DEF a
    <3>2. Known(b)
      BY <1>1, <1>2, <2>3 DEF Known
    <3> QED
      BY <1>1, <1>2, <2>1, <2>3, <3>1, <3>2 DEF Generations
  <2> QED
    BY <2>2, <2>3
<1> QED
  BY <1>2 DEF Generations, Known, AddressOf

\* When a sync starts, on servers that are those described.
LEMMA GenerationsStart ==
    ASSUME ManagerTyped, TasksTyped, EntriesEvolve, Generations, Match, sync = NothingToSync,
           servers' = servers, sync' = Syncing(description, description'),
           \A e \in Opened : entries'[e].generation = entries[e].generation,
           \A b \in Addresses : description'.servers[b].type # "Absent" =>
              \/ Known(b) /\ description'.servers[b].generation = description.servers[b].generation
              \/ ~Known(b) /\ description'.servers[b].generation = 0
              \/ \E e \in Opened : /\ AddressOf(e) = b
                                   /\ Known(b) /\ Sole(b) /\ servers[b] # NoEntry =>
                                         description'.servers[b].generation = entries[servers[b]].generation
    PROVE  Generations'
<1>1. \A a \in Addresses : servers[a] # NoEntry => Known(a) /\ servers[a] \in Opened
  BY OpenedEntries DEF Match, NothingToSync
<1>2. ASSUME NEW b \in Addresses,
             description'.servers[b].type # "Absent", servers'[b] # NoEntry, Sole(b)'
      PROVE  description'.servers[b].generation = entries'[servers'[b]].generation
  <2>1. Sole(b) /\ servers[b] \in Opened /\ Known(b) /\ servers[b] # NoEntry
    BY <1>1, <1>2, SoleBefore
  <2>2. description'.servers[b].generation = entries[servers[b]].generation
    BY <1>2, <2>1 DEF Generations
  <2> QED
    BY <2>1, <2>2
<1>3. ASSUME NEW b \in Addresses, b \in sync'.adding, \A e \in Opened' : entries'[e].address # b
      PROVE  description'.servers[b].generation = 0
  <2>1. ~Known(b) /\ description'.servers[b].type # "Absent"
    BY <1>3 DEF Syncing, Present, Known
  <2>2. \A e \in Opened : AddressOf(e) # b
    BY <1>3, SoleBefore
  <2> QED
    BY <2>1, <2>2
<1> QED
  BY <1>2, <1>3 DEF Generations, Known, AddressOf

LEMMA GenerationsProcess ==
    ASSUME ManagerTyped, TasksTyped, LockIsHeld, Carries, Served, Unopened, SyncShape, CloseShape,
           [Next]_vars, Generations, Match,
           NEW p \in Processes \ {Closer}, ProcessDescription(p), StartsSync(p),
           description' = Update(description, work[p].address, work[p].reply, GenerationOf(p)),
           ~Ignores(description, work[p].address, work[p].reply, GenerationOf(p))
    PROVE  Generations'
<1> DEFINE a == work[p].address
           g == GenerationOf(p)
<1>0. EntriesEvolve
  BY StepsEvolve
<1>1. /\ a \in Addresses /\ work[p].reply \in Replies /\ g \in Nat /\ p \in Reports
      /\ held[p] \in Opened /\ AddressOf(held[p]) = a /\ pc[p] = "locked"
  BY ProcessDescriptionReads
<1>2. sync = NothingToSync
  BY <1>1, NothingBefore
<1>3. \A b \in Addresses : description'.servers[b].type # "Absent" =>
         \/ Known(b) /\ description'.servers[b].generation = description.servers[b].generation
         \/ b = a /\ description'.servers[b].generation = g
         \/ ~Known(b) /\ description'.servers[b].generation = 0
  BY <1>1, UpdateKeeps DEF ManagerTyped, Known
<1>4. Known(a) => g >= description.servers[a].generation
  <2>1. Known(a) => ~(g < description.servers[a].generation)
    BY DEF Ignores, Known
  <2>2. description.servers[a].generation \in Nat
    BY <1>1 DEF ManagerTyped, Descriptions, Servers
  <2> QED
    BY <1>1, <2>1, <2>2
<1>5. Known(a) /\ Sole(a) /\ servers[a] # NoEntry => g = entries[servers[a]].generation
  <2> SUFFICES ASSUME Known(a), Sole(a), servers[a] # NoEntry
               PROVE  g = entries[servers[a]].generation
    OBVIOUS
  <2>1. servers[a] \in Opened /\ AddressOf(servers[a]) = a
    BY <1>1, OpenedEntries DEF Served
  <2>2. servers[a] = held[p]
    BY <1>1, <2>1 DEF Sole
  <2>3. CASE p \in Monitors
    BY <2>2, <2>3 DEF GenerationOf
  <2>4. CASE p \notin Monitors
    <3>1. g = work[p].generation
      BY <2>4 DEF GenerationOf
    <3>2. work[p].generation <= entries[held[p]].generation
      BY <1>1, <2>4 DEF Carries, CarriesItsOwn, Locking
    <3>3. description.servers[a].generation = entries[servers[a]].generation
      BY <1>1 DEF Generations
    <3>4. entries[held[p]].generation \in Nat
      BY <1>1, OpenedEntries DEF Entry
    <3> QED
      BY <1>1, <1>4, <2>2, <3>1, <3>2, <3>3, <3>4
  <2> QED
    BY <2>3, <2>4
<1>6. \A e \in Opened : entries'[e].generation = entries[e].generation
  BY ProcessDescriptionKeeps DEF EntriesKeep
<1>7. servers' = servers /\ sync' = Syncing(description, description')
  BY DEF StartsSync
<1> HIDE DEF a, g
<1> QED
  BY <1>0, <1>1, <1>2, <1>3, <1>5, <1>6, <1>7, GenerationsStart

LEMMA AddingShrinks ==
    ASSUME ManagerTyped, TasksTyped, Unopened, [Next]_vars
    PROVE  sync'.adding \subseteq sync.adding \/ \E p \in Processes \ {Closer} : StartsSync(p)
<1>1. ASSUME NEW p \in Processes \ {Closer}, SyncStep(p)
      PROVE  sync'.adding \subseteq sync.adding
  <2>1. sync'.adding \in {sync.adding, {}}
    BY <1>1 DEF SyncStep, SyncRemove, SyncPoolClosed, SyncAdd, SyncWatch, TasksTyped
  <2> QED
    BY <2>1
<1>2. SyncersStay => sync'.adding \subseteq sync.adding
  BY DEF SyncersStay
<1> QED
  BY <1>1, <1>2, Syncers

\* Apart from the start of a sync, and from the clearing of a pool, the description stays.
LEMMA DescriptionStays ==
    ASSUME ManagerTyped, TasksTyped, LockIsHeld, Carries, Unopened, CloseShape, [Next]_vars, Normal'
    PROVE  \/ description' = description
           \/ \E p \in Processes \ {Closer} : StartsSync(p) \/ FinishError(p)
           \/ \E e \in Opened : FinishCheck(e)
<1>1. ASSUME NEW p \in Processes \ {Closer}, ProcessDescription(p)
      PROVE  description' = description \/ StartsSync(p)
  <2>1. pc[p] \in Owning
    BY <1>1, UnderLockRuns DEF Owning, Locking
  <2> QED
    BY <1>1, <2>1, StillNormal, ProcessingStarts
<1>2. ApplyRescan => description' = description \/ StartsSync(Srv)
  BY RescanStarts
<1>3. ~Close /\ Srv \in Processes \ {Closer}
  BY StillNormal, TaskFacts DEF CloserStep
<1> QED
  BY <1>1, <1>2, <1>3, DescriptionChanges

LEMMA GenerationsError ==
    ASSUME ManagerTyped, TasksTyped, LockIsHeld, Carries, Served, Unopened, SyncShape, CloseShape,
           [Next]_vars, Normal', Generations, NEW p \in Processes \ {Closer}, FinishError(p)
    PROVE  Generations'
<1> DEFINE a == work[p].address
           cleared == ClearedByError(p)
           g == cleared[held[p]].generation
           takes == work[p].clears /\ Current(a) # NoEntry
<1>0. EntriesEvolve
  BY StepsEvolve
<1>1. pc[p] = "finishing" /\ p \in Handlers \cup Maintainers /\ UNCHANGED <<servers, sync>>
  BY DEF FinishError, At
<1>2. ~RaiseUnderLock(p)
  BY <1>1, StillNormal DEF Owning, Locking
<1>3. IF takes THEN description' = WithGeneration(description, a, g) ELSE description' = description
  BY <1>2 DEF FinishError, RecordGeneration
<1>4. held[p] \in Opened /\ AddressOf(held[p]) = a /\ a \in Addresses
  BY <1>1, ReporterCarries DEF Locking
<1>5. /\ g \in Nat /\ \A d \in Opened : entries'[d].generation = cleared[d].generation
      /\ \A d \in Opened \ {held[p]} : cleared[d].generation = entries[d].generation
      /\ ~takes => cleared = entries
  BY FinishErrorEntries
<1>6. sync = NothingToSync
  BY <1>1, NothingBefore
<1>7. CASE takes
  <2>1. description' = WithGeneration(description, AddressOf(held[p]), g)
    BY <1>3, <1>4, <1>7
  <2>2. sync'.adding = {} /\ servers' = servers
    BY <1>1, <1>6 DEF NothingToSync
  <2>3. entries'[held[p]].generation = g
    BY <1>4, <1>5
  <2>4. \A d \in Opened \ {held[p]} : entries'[d].generation = entries[d].generation
    BY <1>5
  <2>5. g \in Nat
    BY <1>5
  <2> HIDE DEF g
  <2> QED
    BY <1>0, <1>4, <2>1, <2>2, <2>3, <2>4, <2>5, GenerationsTaken
<1>8. CASE ~takes
  <2>1. description' = description /\ sync'.adding \subseteq sync.adding /\ servers' = servers
    BY <1>1, <1>3, <1>8
  <2>2. \A b \in Addresses : servers'[b] # NoEntry =>
           /\ servers'[b] = servers[b]
           /\ entries'[servers[b]].generation = entries[servers[b]].generation
    BY <1>5, <1>8, <2>1, OpenedEntries
  <2> QED
    BY <1>0, <2>1, <2>2, GenerationsFrame
<1> QED
  BY <1>7, <1>8

LEMMA GenerationsCheck ==
    ASSUME ManagerTyped, TasksTyped, LockIsHeld, Carries, Served, Unopened, SyncShape, CloseShape,
           [Next]_vars, Normal', Generations, NEW e \in Opened, FinishCheck(e)
    PROVE  Generations'
<1> DEFINE p == Monitor(e)
           a == work[p].address
           now == Current(a)
           cleared == Clear(entries[now])
           takes == work[p].clears /\ now # NoEntry
<1>0. EntriesEvolve
  BY StepsEvolve
<1>1. pc[p] = "finishing" /\ UNCHANGED <<servers, sync>> /\ p \in Processes
  BY OpenedEntries, TaskFacts DEF FinishCheck, At
<1>2. ~RaiseUnderLock(p)
  BY <1>1, StillNormal DEF Owning, Locking
<1>3. IF takes THEN description' = WithGeneration(description, a, cleared.generation)
      ELSE description' = description
  BY <1>2 DEF FinishCheck, RecordGeneration
<1>4. /\ a \in Addresses
      /\ \/ UNCHANGED entries /\ ~takes
         \/ takes /\ now \in Opened /\ Becomes(now, cleared) /\ Follows(entries[now], cleared)
  BY FinishCheckEntries
<1>5. sync = NothingToSync
  BY <1>1, NothingBefore
<1>6. CASE takes
  <2>1. now \in Opened /\ Becomes(now, cleared) /\ Follows(entries[now], cleared)
    BY <1>4, <1>6
  <2>2. AddressOf(now) = a
    BY <1>4, <1>6 DEF Served, Current
  <2>3. cleared.generation \in Nat
    BY <2>1 DEF Follows, Entry
  <2>4. description' = WithGeneration(description, AddressOf(now), cleared.generation)
    BY <1>3, <1>6, <2>2
  <2>5. entries'[now].generation = cleared.generation
        /\ \A d \in Opened \ {now} : entries'[d].generation = entries[d].generation
    BY <2>1 DEF Becomes
  <2>6. sync'.adding = {} /\ servers' = servers
    BY <1>1, <1>5 DEF NothingToSync
  <2> HIDE DEF now, cleared
  <2> QED
    BY <1>0, <2>1, <2>3, <2>4, <2>5, <2>6, GenerationsTaken
<1>7. CASE ~takes
  <2>1. description' = description /\ sync'.adding \subseteq sync.adding /\ servers' = servers
        /\ entries' = entries
    BY <1>1, <1>3, <1>4, <1>7
  <2> QED
    BY <1>0, <2>1, GenerationsFrame
<1> QED
  BY <1>6, <1>7

LEMMA GenerationsAdd ==
    ASSUME ManagerTyped, TasksTyped, LockIsHeld, Carries, Served, Unopened, SyncShape, CloseShape,
           [Next]_vars, Generations, NEW p \in Processes \ {Closer}, SyncAdd(p)
    PROVE  Generations'
<1>0. EntriesEvolve /\ Opened' = 1 .. Len(entries') /\ Opened \subseteq Opened'
  BY StepsEvolve, EvolvedEntries
<1>1. description' = description /\ sync'.adding = {}
  BY DEF SyncAdd, TasksTyped
<1>2. ASSUME NEW a \in Addresses,
             description'.servers[a].type # "Absent", servers'[a] # NoEntry, Sole(a)'
      PROVE  description'.servers[a].generation = entries'[servers'[a]].generation
  <2>1. CASE a \in Missing
    <3>1. /\ servers'[a] \in Opened' /\ servers'[a] \notin Opened
          /\ entries'[servers'[a]].generation = 0 /\ entries'[servers'[a]].address = a
      BY <1>0, <2>1, SyncAddEntries, NewEntries
    <3>2. \A e \in Opened : AddressOf(e) # a
      <4>1. ASSUME NEW e \in Opened, AddressOf(e) = a PROVE FALSE
        <5>1. e \in Opened' /\ entries'[e].address = a
          BY <1>0, <4>1, SoleBefore
        <5> QED
          BY <1>2, <3>1, <5>1 DEF Sole, AddressOf
      <4> QED
        BY <4>1
    <3>3. description.servers[a].generation = 0
      BY <2>1, <3>2 DEF Generations, Missing
    <3> QED
      BY <1>1, <3>1, <3>3
  <2>2. CASE a \notin Missing
    <3>1. servers'[a] = servers[a] /\ servers[a] \in Opened
      BY <1>2, <2>2, SyncAddEntries, OpenedEntries
    <3>2. Sole(a) /\ Known(a)
      BY <1>0, <1>1, <1>2, SoleBefore DEF Known
    <3>3. entries'[servers[a]] = entries[servers[a]]
      BY <3>1, SyncAddEntries
    <3> QED
      BY <1>1, <1>2, <3>1, <3>2, <3>3 DEF Generations
  <2> QED
    BY <2>1, <2>2
<1> QED
  BY <1>1, <1>2 DEF Generations, Known, AddressOf

LEMMA GenerationsStep ==
    ASSUME ManagerTyped, TasksTyped, LockIsHeld, Carries, Served, Unopened, SyncShape, CloseShape,
           [Next]_vars, Normal', Match, Generations, Monitored
    PROVE  Generations'
<1>0. EntriesEvolve
  BY StepsEvolve
<1>1. ASSUME NEW p \in Processes \ {Closer}, StartsSync(p)
      PROVE  Generations'
  <2>1. CASE ProcessDescription(p) /\ description' # description
    <3>1. pc[p] \in Owning
      BY <2>1, UnderLockRuns DEF Owning, Locking
    <3> QED
      BY <1>1, <2>1, <3>1, StillNormal, ProcessingStarts, GenerationsProcess
  <2>2. CASE ApplyRescan
    <3>1. work[Srv] \in SUBSET Addresses
      BY <2>2 DEF ApplyRescan, At, Carries, Locking
    <3>2. description' \in {description, WithSrvHosts(description, work[Srv])} /\ entries' = entries
      BY <2>2 DEF ApplyRescan
    <3>3. \A b \in Addresses : description'.servers[b].type # "Absent" =>
             \/ Known(b) /\ description'.servers[b].generation = description.servers[b].generation
             \/ ~Known(b) /\ description'.servers[b].generation = 0
      BY <3>1, <3>2, WithSrvHostsKeeps DEF Evolves, Keeps, Known, ManagerTyped
    <3>4. sync = NothingToSync
      BY <1>1, NothingBefore DEF StartsSync, Runs
    <3>5. servers' = servers /\ sync' = Syncing(description, description')
      BY <1>1 DEF StartsSync
    <3> QED
      BY <1>0, <3>2, <3>3, <3>4, <3>5, GenerationsStart
  <2>3. CASE ProcessDescription(p) /\ description' = description
    <3>1. \A b \in Addresses : description'.servers[b].type # "Absent" =>
             Known(b) /\ description'.servers[b].generation = description.servers[b].generation
      BY <2>3 DEF Known
    <3>2. \A e \in Opened : entries'[e].generation = entries[e].generation
      BY <2>3, ProcessDescriptionKeeps DEF EntriesKeep
    <3>4. sync = NothingToSync
      BY <1>1, NothingBefore DEF StartsSync, Runs
    <3>5. servers' = servers /\ sync' = Syncing(description, description')
      BY <1>1 DEF StartsSync
    <3> QED
      BY <1>0, <3>1, <3>2, <3>4, <3>5, GenerationsStart
  <2> QED
    BY <1>1, <2>1, <2>2, <2>3 DEF StartsSync
<1>2. ASSUME description' = description, sync'.adding \subseteq sync.adding, Forgets,
             \A e \in Opened : (\E a \in Addresses : servers[a] = e) =>
                entries'[e].generation = entries[e].generation
      PROVE  Generations'
  <2>1. \A a \in Addresses : servers'[a] # NoEntry =>
           /\ servers'[a] = servers[a]
           /\ entries'[servers[a]].generation = entries[servers[a]].generation
    BY <1>2, OpenedEntries DEF Forgets
  <2> QED
    BY <1>0, <1>2, <2>1, GenerationsFrame
<1>3. CASE description' = description /\ sync'.adding \subseteq sync.adding /\ Forgets
  <2>1. CASE KeepingStep
    BY <1>2, <1>3, <2>1, KeepingKeeps DEF EntriesKeep
  <2>2. ASSUME NEW e \in Opened, ConnectionFails(e)
        PROVE  Generations'
    <3>1. \A d \in Opened : entries'[d].generation = entries[d].generation
      BY <2>2, ConnectionFailsEntries DEF Becomes
    <3> QED
      BY <1>2, <1>3, <3>1
  <2>3. ASSUME NEW e \in Opened, EndMaintenance(e)
        PROVE  Generations'
    <3>1. \A d \in Opened \ {e} : entries'[d].generation = entries[d].generation
      BY <2>3, EndMaintenanceEntries DEF Becomes
    <3>2. CASE pc[Maintainer(e)] = "caught"
      <4>1. \A a \in Addresses : servers[a] # e
        <5>1. servers[AddressOf(e)] # e /\ e # NoEntry
          BY <3>2, OpenedEntries DEF Monitored
        <5> QED
          BY <5>1 DEF Served
      <4> QED
        BY <1>2, <1>3, <3>1, <4>1
    <3>3. CASE pc[Maintainer(e)] # "caught"
      <4>1. entries'[e].generation = entries[e].generation
        BY <2>3, <3>3, EndMaintenanceEntries DEF Becomes
      <4> QED
        BY <1>2, <1>3, <3>1, <4>1
    <3> QED
      BY <3>2, <3>3
  <2> QED
    BY <2>1, <2>2, <2>3, GenerationsError, GenerationsCheck, GenerationsAdd, Steps
<1> QED
  BY <1>1, <1>3, AddingShrinks, DescriptionStays, ServersForget, GenerationsError, GenerationsCheck,
     GenerationsAdd

-----------------------------------------------------------------------------
(* Every server has a monitor.                                             *)

GoesOn(e) ==
    /\ pc'[Monitor(e)] \in Ended => pc[Monitor(e)] \in Ended
    /\ pc'[Monitor(e)] = "idle" => pc[Monitor(e)] = "idle"

LEMMA MonitorGoesOn ==
    ASSUME ManagerTyped, TasksTyped, LockIsHeld, Carries, Unopened, CloseShape, [Next]_vars, Normal',
           NEW e \in Opened, servers[AddressOf(e)] = e
    PROVE  GoesOn(e)
<1> DEFINE m == Monitor(e)
<1>0. /\ m \in Processes /\ m \in Monitors /\ m \notin Handlers \cup Maintainers /\ m # Srv /\ m # Closer
      /\ state = "open" /\ servers[AddressOf(e)] # NoEntry
      /\ \A p \in Processes : pc[p] \in Owning => ~RaiseUnderLock(p)
  BY OpenedEntries, TaskFacts, StillNormal DEF Normal, Maintainers
<1>1. CASE pc'[m] = pc[m]
  BY <1>1 DEF GoesOn
<1>2. ASSUME pc'[m] \notin Ended, pc'[m] # "idle"
      PROVE  GoesOn(e)
  BY <1>2 DEF GoesOn
<1>3. ASSUME NEW p \in Processes \ {Closer}, UnderLock(p)
      PROVE  GoesOn(e)
  <2>1. CASE p # m
    <3>1. \/ pc' = pc \/ (\E from, to : Runs(p, from, to))
          \/ \A q \in Processes \ {p} : pc'[q] = pc[q] \/ pc'[q] = "spawned"
      BY <1>3, UnderLockRuns DEF UnderLock
    <3>2. pc'[m] = pc[m] \/ pc'[m] = "spawned"
      BY <1>0, <2>1, <3>1 DEF Runs
    <3> QED
      BY <1>1, <1>2, <3>2 DEF Ended
  <2>2. CASE p = m
    <3>1. pc'[m] \in {"locked", "finishing", "syncing", "syncing pool"}
      <4>1. CASE ProcessDescription(m)
        <5>1. pc[m] \in Owning
          BY <1>0, <4>1, UnderLockRuns DEF Owning, Locking
        <5> QED
          BY <1>0, <4>1, <5>1, UnderLockRuns
      <4>2. CASE SyncAdd(m)
        BY <1>0, <4>2, UnderLockRuns
      <4>3. CASE Wake(m) \/ SyncRemove(m) \/ SyncPoolClosed(m) \/ SyncWatch(m)
        BY <1>0, <4>3, UnderLockRuns DEF Runs, Syncs
      <4>4. ~FinishError(m)
        BY <1>0, UnderLockRuns
      <4> QED
        BY <1>3, <2>2, <4>1, <4>2, <4>3, <4>4 DEF UnderLock
    <3> QED
      BY <1>2, <3>1 DEF Ended
  <2> QED
    BY <2>1, <2>2
<1>4. ASSUME NEW d \in Opened, MonitorStep(d)
      PROVE  GoesOn(e)
  <2>1. CASE d # e
    <3>1. \E from, to : Runs(Monitor(d), from, to)
      BY <1>4, MonitorRuns DEF MonitorStep
    <3>2. Monitor(d) # m
      BY <2>1, OpenedEntries, TaskFacts
    <3> QED
      BY <1>0, <1>1, <3>1, <3>2 DEF Runs
  <2>2. CASE d = e
    <3>1. pc'[m] \in {"sleeping", "checking", "looping", "locked", "queued"}
      <4>1. CASE FinishCheck(e)
        <5>1. pc[m] \in Owning
          BY <1>0, <4>1, MonitorRuns DEF Owning, Locking, Runs
        <5> QED
          BY <1>0, <4>1, <5>1, MonitorRuns
      <4>2. CASE Rest(e) \/ StartCheck(e)
        BY <1>0, <4>2, MonitorRuns
      <4>3. CASE CheckReturns(e)
        BY <4>3, MonitorRuns DEF Runs
      <4> QED
        BY <1>4, <2>2, <4>1, <4>2, <4>3 DEF MonitorStep
    <3> QED
      BY <1>2, <3>1 DEF Ended
  <2> QED
    BY <2>1, <2>2
<1>5. ASSUME NEW d \in Opened, MaintenanceStep(d)
      PROVE  GoesOn(e)
  <2>1. pc' = pc \/ \E from, to : Runs(Maintainer(d), from, to)
    BY <1>5, MaintenanceRuns DEF MaintenanceStep
  <2>2. Maintainer(d) # m
    BY OpenedEntries, TaskFacts
  <2> QED
    BY <1>0, <1>1, <2>1, <2>2 DEF Runs
<1>6. ASSUME NEW h \in Handlers, HandlerStep(h)
      PROVE  GoesOn(e)
  BY <1>0, <1>1, <1>6, HandlerRuns DEF Runs
<1>7. ASSUME PollingStep
      PROVE  GoesOn(e)
  <2>1. \E from, to : Runs(Srv, from, to)
    BY <1>7, PollingRuns DEF PollingStep
  <2> QED
    BY <1>0, <1>1, <2>1 DEF Runs
<1>8. ASSUME UNCHANGED vars
      PROVE  GoesOn(e)
  BY <1>1, <1>8 DEF vars
<1>9. ~CloserStep
  BY StillNormal
<1> QED
  BY <1>3, <1>4, <1>5, <1>6, <1>7, <1>8, <1>9 DEF Next

\* An error of maintenance that is caught was raised because the server is gone.
LEMMA CaughtWithoutServer ==
    ASSUME ManagerTyped, TasksTyped, LockIsHeld, Carries, Unopened, CloseShape, [Next]_vars, Normal',
           NEW e \in Opened, pc'[Maintainer(e)] = "caught"
    PROVE  pc[Maintainer(e)] = "caught" \/ servers[AddressOf(e)] = NoEntry
<1> DEFINE m == Maintainer(e)
<1>0. /\ m \in Processes /\ m \in Maintainers /\ m \notin Handlers \cup Monitors /\ m # Srv /\ m # Closer
      /\ After(m) = "reported" /\ \A p \in Processes : pc[p] \in Owning => ~RaiseUnderLock(p)
  BY OpenedEntries, TaskFacts, AfterFacts, StillNormal
<1>1. ASSUME NEW p, NEW from, NEW to, Runs(p, from, to), p # m
      PROVE  pc[m] = "caught"
  BY <1>0, <1>1 DEF Runs
<1>2. pc' = pc => pc[m] = "caught"
  OBVIOUS
<1>3. ASSUME NEW p \in Processes \ {Closer}, UnderLock(p)
      PROVE  pc[m] = "caught"
  <2>1. CASE p # m
    <3>1. \/ pc' = pc \/ (\E from, to : Runs(p, from, to))
          \/ \A q \in Processes \ {p} : pc'[q] = pc[q] \/ pc'[q] = "spawned"
      BY <1>3, UnderLockRuns DEF UnderLock
    <3> QED
      BY <1>0, <1>1, <2>1, <3>1
  <2>2. CASE p = m
    <3>1. CASE ProcessDescription(m) \/ FinishError(m)
      <4>1. pc[m] \in {"locked", "finishing"}
        BY <1>0, <3>1, UnderLockRuns DEF Runs
      <4>2. pc[m] \in Owning
        BY <4>1 DEF Owning, Locking
      <4> QED
        BY <1>0, <3>1, <4>2, UnderLockRuns
    <3>2. CASE SyncAdd(m)
      BY <1>0, <3>2, UnderLockRuns
    <3>3. CASE Wake(m) \/ SyncRemove(m) \/ SyncPoolClosed(m) \/ SyncWatch(m)
      BY <1>0, <3>3, UnderLockRuns DEF Runs, Syncs
    <3> QED
      BY <1>3, <2>2, <3>1, <3>2, <3>3 DEF UnderLock
  <2> QED
    BY <2>1, <2>2
<1>4. ASSUME NEW d \in Opened, MonitorStep(d)
      PROVE  pc[m] = "caught"
  <2>1. \E from, to : Runs(Monitor(d), from, to)
    BY <1>4, MonitorRuns DEF MonitorStep
  <2>2. Monitor(d) # m
    BY OpenedEntries, TaskFacts
  <2> QED
    BY <1>1, <2>1, <2>2
<1>5. ASSUME NEW d \in Opened, MaintenanceStep(d)
      PROVE  pc[m] = "caught" \/ servers[AddressOf(e)] = NoEntry
  <2>1. CASE d # e
    <3>1. pc' = pc \/ \E from, to : Runs(Maintainer(d), from, to)
      BY <1>5, MaintenanceRuns DEF MaintenanceStep
    <3>2. Maintainer(d) # m
      BY <2>1, OpenedEntries, TaskFacts
    <3> QED
      BY <1>1, <1>2, <3>1, <3>2
  <2>2. CASE d = e
    <3>1. CASE EndMaintenance(e)
      BY <3>1, MaintenanceRuns DEF Runs
    <3>2. CASE Maintain(e) \/ Connected(e)
      BY <1>2, <3>2, MaintenanceRuns
    <3>3. CASE ConnectionFails(e)
      BY <3>3, MaintenanceRuns
    <3> QED
      BY <1>5, <2>2, <3>1, <3>2, <3>3 DEF MaintenanceStep
  <2> QED
    BY <2>1, <2>2
<1>6. ASSUME NEW h \in Handlers, HandlerStep(h)
      PROVE  pc[m] = "caught"
  BY <1>0, <1>1, <1>6, HandlerRuns
<1>7. ASSUME PollingStep
      PROVE  pc[m] = "caught"
  <2>1. \E from, to : Runs(Srv, from, to)
    BY <1>7, PollingRuns DEF PollingStep
  <2> QED
    BY <1>0, <1>1, <2>1
<1>8. ASSUME UNCHANGED vars
      PROVE  pc[m] = "caught"
  BY <1>2, <1>8 DEF vars
<1>9. ~CloserStep
  BY StillNormal
<1> QED
  BY <1>3, <1>4, <1>5, <1>6, <1>7, <1>8, <1>9 DEF Next

LEMMA MonitoredStep ==
    ASSUME ManagerTyped, TasksTyped, LockIsHeld, Carries, Served, Unopened, SyncShape, CloseShape,
           [Next]_vars, Normal', Match, Monitored
    PROVE  Monitored'
<1>0. EntriesEvolve /\ Opened \subseteq Opened' /\ Opened' = 1 .. Len(entries')
  BY StepsEvolve, EvolvedEntries
<1>1. \A e \in Opened : /\ entries'[e].address = AddressOf(e) /\ AddressOf(e) \in Addresses
                        /\ e # NoEntry
  BY <1>0, EvolvedEntries, OpenedEntries DEF AddressOf, Entry
<1>2. \A e \in Opened' \ Opened : pc[Monitor(e)] = "idle" /\ pc[Maintainer(e)] = "idle"
  <2>1. Opened' \subseteq Entries
    <3>1. ManagerTyped'
      BY TypesStep
    <3> QED
      BY <1>0, <3>1, LenProperties, BoundsAreNatural DEF Entries, ManagerTyped
  <2> QED
    BY <2>1 DEF Unopened
<1>3. ASSUME NEW a \in Addresses, servers[a] # NoEntry, servers'[a] = servers[a],
             pc'[Monitor(servers[a])] = "idle"
      PROVE  a \in sync'.watching
  <2> DEFINE m == Monitor(servers[a])
  <2>1. servers[a] \in Opened /\ AddressOf(servers[a]) = a /\ m \in Processes
    BY <1>3, OpenedEntries, TaskFacts DEF Served
  <2>2. pc[m] = "idle"
    BY <1>3, <2>1, MonitorGoesOn DEF GoesOn
  <2>3. a \in sync.watching
    BY <1>3, <2>2 DEF Monitored
  <2>4. CASE SyncersStay
    BY <2>3, <2>4 DEF SyncersStay
  <2>5. ~ \E p \in Processes \ {Closer} : StartsSync(p)
    <3>1. ASSUME NEW p \in Processes \ {Closer}, StartsSync(p) PROVE FALSE
      <4>1. sync = NothingToSync
        BY <3>1, NothingBefore DEF StartsSync, Runs
      <4> QED
        BY <2>3, <4>1 DEF NothingToSync
    <3> QED
      BY <3>1
  <2>6. ASSUME NEW p \in Processes \ {Closer}, SyncRemove(p) \/ SyncPoolClosed(p) \/ SyncAdd(p)
        PROVE  a \in sync'.watching
    <3>1. sync'.watching = sync.watching
      BY <2>6 DEF SyncRemove, SyncPoolClosed, SyncAdd, TasksTyped
    <3> QED
      BY <2>3, <3>1
  <2>7. ASSUME NEW p \in Processes \ {Closer}, SyncWatch(p)
        PROVE  FALSE
    <3>1. pc[p] = "syncing"
      BY <2>7, UnderLockRuns
    <3>2. m \in {Monitor(Current(b)) : b \in {x \in sync.watching : Current(x) # NoEntry}}
      BY <1>3, <2>3 DEF Current
    <3>3. pc'[m] = "spawned"
      BY <2>1, <2>2, <2>7, <3>1, <3>2 DEF SyncWatch
    <3> QED
      BY <1>3, <3>3
  <2> QED
    BY <2>4, <2>5, <2>6, <2>7, Syncers DEF SyncStep
<1>4. ASSUME NEW a \in Addresses, servers[a] # NoEntry, servers'[a] = servers[a]
      PROVE  pc'[Monitor(servers[a])] \notin Ended
  <2>1. servers[a] \in Opened /\ AddressOf(servers[a]) = a
    BY <1>4, OpenedEntries DEF Served
  <2> QED
    BY <1>4, <2>1, MonitorGoesOn DEF GoesOn, Monitored
<1>5. ASSUME NEW a \in Addresses, servers'[a] # NoEntry
      PROVE  /\ pc'[Monitor(servers'[a])] \notin Ended
             /\ pc'[Monitor(servers'[a])] = "idle" => a \in sync'.watching
  <2>1. CASE Forgets
    <3>1. servers'[a] = servers[a]
      BY <1>5, <2>1 DEF Forgets
    <3> QED
      BY <1>3, <1>4, <1>5, <3>1
  <2>2. ASSUME NEW p \in Processes \ {Closer}, SyncAdd(p)
        PROVE  /\ pc'[Monitor(servers'[a])] \notin Ended
               /\ pc'[Monitor(servers'[a])] = "idle" => a \in sync'.watching
    <3>1. CASE a \notin Missing
      <4>1. servers'[a] = servers[a]
        BY <2>2, <3>1, SyncAddEntries
      <4> QED
        BY <1>3, <1>4, <1>5, <4>1
    <3>2. CASE a \in Missing
      <4>1. servers'[a] \in Opened' \ Opened
        BY <1>0, <2>2, <3>2, SyncAddEntries
      <4>2. pc[Monitor(servers'[a])] = "idle" /\ pc' = pc
        BY <1>2, <2>2, <4>1, UnderLockRuns
      <4>3. a \in sync.watching
        BY <3>2 DEF Missing, Match
      <4>4. sync'.watching = sync.watching
        BY <2>2 DEF SyncAdd, TasksTyped
      <4> QED
        BY <4>2, <4>3, <4>4 DEF Ended
    <3> QED
      BY <3>1, <3>2
  <2> QED
    BY <2>1, <2>2, ServersForget
<1>6. ASSUME NEW e \in Opened', pc'[Maintainer(e)] = "caught"
      PROVE  servers'[entries'[e].address] # e
  <2>1. e \in Opened
    <3>1. CASE e \notin Opened
      <4>1. PICK p \in Processes \ {Closer} : SyncAdd(p)
        BY <3>1, NoneOpened
      <4>2. pc' = pc
        BY <4>1, UnderLockRuns
      <4> QED
        BY <1>2, <1>6, <3>1, <4>2
    <3> QED
      BY <3>1
  <2>2. servers[AddressOf(e)] # e
    BY <1>1, <1>6, <2>1, CaughtWithoutServer DEF Monitored
  <2>3. servers'[AddressOf(e)] # e
    <3>1. CASE Forgets
      BY <1>1, <2>1, <2>2, <3>1 DEF Forgets
    <3>2. ASSUME NEW p \in Processes \ {Closer}, SyncAdd(p)
          PROVE  servers'[AddressOf(e)] # e
      BY <1>1, <2>1, <2>2, <3>2, SyncAddEntries
    <3> QED
      BY <3>1, <3>2, ServersForget
  <2> QED
    BY <1>1, <2>1, <2>3
<1> QED
  BY <1>5, <1>6 DEF Monitored, AddressOf

-----------------------------------------------------------------------------
(* The beginning.                                                          *)

LEMMA StartTyped ==
    /\ Start \in Descriptions
    /\ \A a \in Addresses : Start.servers[a].type # "Absent" => Start.servers[a].generation = 0
<1>1. PICK type \in {"Unknown", "Single", "ReplicaSetNoPrimary"}, name \in SetNames \cup {NoName},
           seeds \in (SUBSET Addresses) \ {{}} : Start = NewDescription(type, name, seeds)
  BY StartIsNew
<1> DEFINE new == [a \in Addresses |-> IF a \in seeds THEN Unchecked ELSE Absent]
<1>2. new \in [Addresses -> Servers]
  BY SpecialServers
<1>3. \A a \in Addresses : new[a].type # "Absent" => new[a].generation = 0
  BY SpecialServers
<1>4. type \in TopologyTypes
  BY DEF TopologyTypes
<1>5. Start = [type |-> type, set_name |-> name, seeds |-> seeds, servers |-> new,
               max_election_id |-> 0, max_set_version |-> 0]
  BY <1>1 DEF NewDescription
<1> HIDE DEF new
<1> QED
  BY <1>2, <1>3, <1>4, <1>5 DEF Descriptions

LEMMA Beginning ==
    ASSUME Init
    PROVE  LET seeds == Present(Start.servers)  n == Cardinality(seeds) IN
           /\ seeds \subseteq Addresses /\ n \in Nat /\ n <= LastEntry
           /\ entries \in Seq(Entry) /\ Len(entries) = n /\ Opened = 1 .. n /\ 1 .. n \subseteq Entries
           /\ servers \in [Addresses -> MaybeEntry]
           /\ \A a \in Addresses : /\ servers[a] # NoEntry <=> a \in seeds
                                   /\ a \in seeds => servers[a] \in 1 .. n
                                                     /\ entries[servers[a]].address = a
           /\ \A e \in 1 .. n : /\ entries[e].address \in seeds /\ servers[entries[e].address] = e
                                /\ entries[e].task = "none" /\ entries[e].generation = 0
<1> DEFINE seeds == Present(Start.servers)
           n == Cardinality(seeds)
           chosen(f, i) == CHOOSE a \in seeds : f[a] = i
<1>1. PICK f \in OpenedFor(seeds, 1) :
         /\ servers = [a \in Addresses |-> IF a \in seeds THEN f[a] ELSE NoEntry]
         /\ entries = [e \in 1 .. n |-> NewEntry(chosen(f, e))]
  BY DEF Init
<1>2. seeds \subseteq Addresses /\ IsFiniteSet(seeds) /\ n <= Cardinality(Addresses)
      /\ Cardinality(Addresses) \in Nat
  <2>1. seeds \subseteq Addresses
    BY DEF Present
  <2> QED
    BY <2>1, FS_Subset, FS_CardinalityType, AddressesFinite
<1>3. n \in Nat /\ 1 + n - 1 = n
  BY <1>2, FS_CardinalityType
<1>4. /\ \A a \in seeds : f[a] \in 1 .. n
      /\ \A a, b \in seeds : f[a] = f[b] => a = b
      /\ \A i \in 1 .. n : chosen(f, i) \in seeds /\ f[chosen(f, i)] = i
  BY <1>2, <1>3, NumbersAreUsed
<1> HIDE DEF seeds, n, chosen
<1>5. n <= LastEntry
  BY <1>2, <1>3, BoundsAreNatural
<1>6. 1 .. n \subseteq Entries /\ NoEntry \notin 1 .. n
  BY <1>3, <1>5, BoundsAreNatural, TasksAreDistinct DEF Entries
<1>7. \A i \in 1 .. n : /\ entries[i] \in Entry /\ entries[i].address = chosen(f, i)
                        /\ entries[i].task = "none" /\ entries[i].generation = 0
  BY <1>1, <1>2, <1>4, NewEntries
<1>8. entries \in Seq(Entry) /\ Len(entries) = n /\ Opened = 1 .. n
  <2>1. entries \in [1 .. n -> Entry]
    BY <1>1, <1>7
  <2>2. entries \in Seq(Entry)
    BY <1>3, <2>1, SeqDef
  <2>3. Len(entries) = n
    BY <1>3, <2>1, <2>2, LenProperties
  <2> QED
    BY <2>1, <2>2, <2>3 DEF Opened
<1>9. \A a \in Addresses : /\ servers[a] # NoEntry <=> a \in seeds
                           /\ a \in seeds => servers[a] = f[a] /\ servers[a] \in 1 .. n
  BY <1>1, <1>4, <1>6
<1>10. \A a \in seeds : entries[servers[a]].address = a
  BY <1>2, <1>4, <1>7, <1>9
<1>11. \A e \in 1 .. n : entries[e].address \in seeds /\ servers[entries[e].address] = e
  BY <1>2, <1>4, <1>7, <1>9
<1>12. servers \in [Addresses -> MaybeEntry]
  BY <1>1, <1>4, <1>8 DEF MaybeEntry
<1> QED
  BY <1>2, <1>3, <1>5, <1>6, <1>7, <1>8, <1>9, <1>10, <1>11, <1>12 DEF seeds, n

LEMMA InitShape ==
    ASSUME Init
    PROVE  IInv
<1> DEFINE seeds == Present(Start.servers)
           n == Cardinality(seeds)
<1>1. /\ seeds \subseteq Addresses /\ n \in Nat /\ n <= LastEntry
      /\ entries \in Seq(Entry) /\ Len(entries) = n /\ Opened = 1 .. n /\ 1 .. n \subseteq Entries
      /\ servers \in [Addresses -> MaybeEntry]
      /\ \A a \in Addresses : /\ servers[a] # NoEntry <=> a \in seeds
                              /\ a \in seeds => servers[a] \in 1 .. n
                                                /\ entries[servers[a]].address = a
      /\ \A e \in 1 .. n : /\ entries[e].address \in seeds /\ servers[entries[e].address] = e
                           /\ entries[e].task = "none" /\ entries[e].generation = 0
  BY Beginning
<1>2. /\ state = "open" /\ description = Start /\ lock = <<>>
      /\ held = [p \in Processes |-> NoEntry] /\ work = [p \in Processes |-> NoWork]
      /\ sync = NothingToSync /\ cancelled = {} /\ failures = 0 /\ rescans = 0
      /\ closing = [monitors |-> {}, pools |-> {}, entry |-> NoEntry]
  BY DEF Init, NothingToSync
<1>3. pc = [p \in Processes |->
              CASE p \in {Monitor(e) : e \in 1 .. n} -> "spawned"
                [] p = Srv -> "sleeping"
                [] OTHER -> "idle"]
  BY DEF Init
<1>4. \A a \in Addresses : Known(a) <=> a \in seeds
  BY <1>2 DEF Known, Present
<1> HIDE DEF n, seeds
<1>5. /\ \A e \in 1 .. n : pc[Monitor(e)] = "spawned"
      /\ \A e \in Entries \ (1 .. n) : pc[Monitor(e)] = "idle"
      /\ \A e \in Entries : pc[Maintainer(e)] = "idle"
      /\ \A h \in Handlers : pc[h] = "idle"
      /\ pc[Srv] = "sleeping" /\ pc[Closer] = "idle"
  <2>1. \A e \in 1 .. n : pc[Monitor(e)] = "spawned"
    BY <1>1, <1>3, TaskFacts
  <2>2. \A e \in Entries \ (1 .. n) : pc[Monitor(e)] = "idle"
    BY <1>1, <1>3, TaskFacts
  <2>3. \A e \in Entries : pc[Maintainer(e)] = "idle"
    BY <1>1, <1>3, TaskFacts
  <2>4. \A p \in Processes : p \notin Monitors /\ p # Srv => pc[p] = "idle"
    BY <1>1, <1>3 DEF Monitors
  <2>5. pc[Srv] = "sleeping"
    <3>1. Srv \notin {Monitor(e) : e \in 1 .. n} /\ Srv \in Processes
      BY <1>1, TaskFacts
    <3> QED
      BY <1>3, <3>1
  <2> QED
    BY <2>1, <2>2, <2>3, <2>4, <2>5, TaskFacts
<1>6. \A p \in Processes : pc[p] \in {"spawned", "idle", "sleeping"}
  BY <1>3
<1>7. pc \in [Processes -> Labels] /\ \A p \in Processes : pc[p] \in PCs(p)
  <2>1. \A p \in Processes : pc[p] \in PCs(p)
    <3>1. \A e \in Entries : pc[Monitor(e)] \in PCs(Monitor(e)) /\ pc[Maintainer(e)] \in PCs(Maintainer(e))
      BY <1>5, WhereTasksAre
    <3>2. \A h \in Handlers : pc[h] \in PCs(h)
      BY <1>5, WhereTasksAre
    <3>3. pc[Srv] \in PCs(Srv) /\ pc[Closer] \in PCs(Closer)
      BY <1>5, WhereTasksAre
    <3> QED
      BY <3>1, <3>2, <3>3, TaskFacts
  <2>2. \A p \in Processes : pc[p] \in Labels
    BY <2>1, LabelsOf
  <2> QED
    BY <1>3, <2>1, <2>2
<1>8. ManagerTyped
  BY <1>1, <1>2, StartTyped DEF ManagerTyped
<1>9. TasksTyped
  <2>1. lock \in Seq(Processes \cup {Nobody})
    BY <1>2, EmptySeq
  <2>2. NoEntry \in MaybeEntry /\ NoWork \in AnyWork
    BY DEF MaybeEntry, AnyWork
  <2>3. 0 \in 0 .. MaxFailures /\ 0 \in 0 .. MaxRescans
    BY BoundsAreNatural
  <2> QED
    BY <1>2, <1>7, <2>1, <2>2, <2>3 DEF TasksTyped, NothingToSync
<1>10. OneRuns
  BY <1>6 DEF OneRuns, Running
<1>11. LockIsHeld /\ ~Lost
  <2>1. Len(lock) = 0
    BY <1>2, EmptySeq
  <2>2. \A p \in Processes : pc[p] \notin Locking /\ pc[p] \notin Owning
    BY <1>6 DEF Locking, Owning
  <2>3. 1 .. Len(lock) = {} /\ 2 .. Len(lock) = {}
    BY <2>1
  <2> QED
    BY <2>2, <2>3 DEF LockIsHeld, Lost
<1>12. Carries
  BY <1>6, TaskFacts DEF Carries, CarriesItsOwn, Locking, Reports
<1>13. Served
  BY <1>1 DEF Served, AddressOf
<1>14. Unopened
  BY <1>1, <1>5 DEF Unopened
<1>15. SyncShape
  BY <1>2, <1>6 DEF SyncShape
<1>16. CloseShape
  BY <1>2, <1>5 DEF CloseShape
<1>17. Match
  BY <1>1, <1>2, <1>4 DEF Match, NothingToSync
<1>18. Generations
  <2>1. sync.adding = {}
    BY <1>2 DEF NothingToSync
  <2> QED
    BY <1>1, <1>2, <2>1, StartTyped DEF Generations, Known
<1>19. Monitored
  BY <1>1, <1>5 DEF Monitored, Ended
<1> QED
  BY <1>8, <1>9, <1>10, <1>11, <1>12, <1>13, <1>14, <1>15, <1>16, <1>17, <1>18, <1>19
  DEF IInv, Shape

-----------------------------------------------------------------------------
(* The theorems.                                                           *)

LEMMA IInvStep ==
    ASSUME IInv, [Next]_vars
    PROVE  IInv'
<1>1. /\ ManagerTyped /\ TasksTyped /\ OneRuns /\ LockIsHeld /\ Carries /\ Served /\ Unopened
      /\ SyncShape /\ CloseShape
      /\ Normal => Match /\ Generations /\ Monitored
  BY DEF IInv, Shape
<1>2. KindOfStep
  BY <1>1, StepKinds
<1>3. ManagerTyped' /\ TasksTyped'
  BY <1>1, TypesStep
<1>4. OneRuns'
  BY <1>1, <1>2, OneRunsStep
<1>5. LockIsHeld'
  BY <1>1, <1>2, LockStep
<1>6. Carries'
  BY <1>1, CarriesStep
<1>7. Served'
  BY <1>1, ServedStep
<1>8. Unopened'
  BY <1>1, UnopenedStep
<1>9. SyncShape'
  BY <1>1, SyncShapeStep
<1>10. Normal => Match
  BY <1>1
<1>11. CloseShape'
  BY <1>1, <1>10, CloseShapeStep
<1>12. ASSUME Normal'
       PROVE  Match' /\ Generations' /\ Monitored'
  <2>1. Normal
    BY <1>1, <1>12, StillNormal
  <2>2. Match /\ Generations /\ Monitored
    BY <1>1, <2>1
  <2>3. Match'
    BY <1>1, <1>12, <2>2, MatchStep
  <2>4. Generations'
    BY <1>1, <1>12, <2>2, GenerationsStep
  <2>5. Monitored'
    BY <1>1, <1>12, <2>2, MonitoredStep
  <2> QED
    BY <2>3, <2>4, <2>5
<1> QED
  BY <1>3, <1>4, <1>5, <1>6, <1>7, <1>8, <1>9, <1>11, <1>12 DEF IInv, Shape

\* The inductive invariant holds in every state the manager reaches.
THEOREM Invariance == Spec => []IInv
<1>1. Init => IInv
  BY InitShape
<1>2. IInv /\ [Next]_vars => IInv'
  BY IInvStep
<1> QED
  BY <1>1, <1>2, PTL DEF Spec

\* Every variable keeps its type: what a task kept over a wait still is an entry,
\* and nothing but tasks is ever in the queue of the lock.
THEOREM TypeCorrect == Spec => []TypeOK
<1>1. ASSUME IInv PROVE TypeOK
  <2>1. ManagerTyped /\ TasksTyped
    BY <1>1 DEF IInv, Shape
  <2>2. \A e \in Opened : entries[e] \in Entry
    BY <2>1, OpenedEntries
  <2>3. \A e \in Opened :
          /\ entries[e].address \in Addresses
          /\ entries[e].pool \in {"paused", "ready", "closed"}
          /\ entries[e].generation \in Nat
          /\ entries[e].check \in Monitors \cup {Nobody}
          /\ entries[e].task \in {"none", "scheduled", "connecting", "reporting"}
    BY <2>2 DEF Entry
  <2>4. \A i \in DOMAIN lock : lock[i] \in Processes \cup {Nobody}
    BY <2>1 DEF TasksTyped
  <2> QED
    BY <2>1, <2>3, <2>4 DEF TypeOK, ManagerTyped, TasksTyped, MaybeEntry
<1>2. IInv => TypeOK
  BY <1>1
<1> QED
  BY <1>2, Invariance, PTL

\* Between the tasks that wait for the manager lock and close, which never takes
\* it, at most one task is in the code the lock guards.
THEOREM LockExcludes ==
    Spec => [](\A p, q \in Processes : pc[p] \in Owning /\ pc[q] \in Owning => p = q)
<1>1. IInv => \A p, q \in Processes : pc[p] \in Owning /\ pc[q] \in Owning => p = q
  BY OneOwns DEF IInv, Shape
<1> QED
  BY <1>1, Invariance, PTL

LEMMA RestIsNormal ==
    ASSUME IInv, AtRest
    PROVE  /\ Normal /\ sync = NothingToSync
           /\ ManagerTyped /\ TasksTyped /\ Match /\ Generations /\ Monitored
<1>1. /\ ManagerTyped /\ TasksTyped /\ LockIsHeld /\ SyncShape
      /\ Normal => Match /\ Generations /\ Monitored
  BY DEF IInv, Shape
<1>2. Len(lock) = 0
  BY EmptySeq DEF AtRest
<1>3. Normal
  BY <1>2 DEF Normal, Lost, AtRest
<1>4. \A p \in Processes : pc[p] \notin Owning
  BY <1>1, <1>2 DEF LockIsHeld
<1>5. sync = NothingToSync
  <2>1. \A p \in Processes : pc[p] \notin Syncs
    BY <1>4 DEF Owning, Locking, Syncs
  <2> QED
    BY <1>1, <2>1 DEF SyncShape
<1> QED
  BY <1>1, <1>3, <1>5

\* When no task is at work on them, the manager has an entry for exactly the
\* servers of the description (sync_servers, under updates and rescans).
THEOREM ServersAlwaysMatch == Spec => []ServersMatchDescription
<1>1. ASSUME IInv, AtRest, NEW a \in Addresses
      PROVE  Current(a) # NoEntry <=> Known(a)
  <2>1. Match /\ sync = NothingToSync
    BY <1>1, RestIsNormal
  <2>2. sync.adding = {} /\ sync.removing = {} /\ sync.pool = NoEntry
    BY <2>1 DEF NothingToSync
  <2> QED
    BY <2>1, <2>2 DEF Match, Current
<1>2. IInv => ServersMatchDescription
  BY <1>1 DEF ServersMatchDescription
<1> QED
  BY <1>2, Invariance, PTL

\* When no task is at work on them, the description has the generation of the
\* pool of every server that was added once.
THEOREM GenerationsKnown == Spec => []DescriptionKnowsGenerations
<1>1. ASSUME IInv, AtRest, NEW a \in Addresses, Known(a), AddedOnce(a)
      PROVE  description.servers[a].generation = entries[Current(a)].generation
  <2>1. Match /\ Generations /\ sync.adding = {}
    BY <1>1, RestIsNormal DEF NothingToSync
  <2>2. servers[a] # NoEntry
    BY <1>1, <2>1 DEF Match
  <2>3. Sole(a)
    <3> DEFINE those == {e \in Opened : AddressOf(e) = a}
    <3>1. IsFiniteSet(those)
      <4>1. Opened = 1 .. Len(entries) /\ Len(entries) \in Nat
        BY <1>1, RestIsNormal, OpenedEntries
      <4>2. IsFiniteSet(Opened)
        BY <4>1, FS_Interval
      <4> QED
        BY <4>2, FS_Subset
    <3>2. Cardinality(those) = 1
      BY <1>1 DEF AddedOnce
    <3>3. PICK d : those = {d}
      BY <3>1, <3>2, FS_Singleton
    <3> QED
      BY <3>3 DEF Sole
  <2> QED
    BY <1>1, <2>1, <2>2, <2>3 DEF Generations, Current
<1>2. IInv => DescriptionKnowsGenerations
  BY <1>1 DEF DescriptionKnowsGenerations
<1> QED
  BY <1>2, Invariance, PTL

\* The manager never loses the entry of a pool that it has not closed, whatever
\* happens while remove_server waits for the maintenance of the pool.
THEOREM PoolsAreClosed == Spec => []NoPoolIsDropped
<1>1. IInv => NoPoolIsDropped
  BY DEF IInv, Shape, Served, NoPoolIsDropped, Current
<1> QED
  BY <1>1, Invariance, PTL

\* When no task is at work on them, every server has a monitor that goes on.
THEOREM ServersAreMonitored == Spec => []EveryServerIsMonitored
<1>1. ASSUME IInv, AtRest, NEW a \in Addresses, Current(a) # NoEntry
      PROVE  pc[Monitor(Current(a))] \notin {"idle"} \cup Ended
  <2>1. Monitored /\ sync.watching = {}
    BY <1>1, RestIsNormal DEF NothingToSync
  <2> QED
    BY <1>1, <2>1 DEF Monitored, Current
<1>2. IInv => EveryServerIsMonitored
  BY <1>1 DEF EveryServerIsMonitored
<1> QED
  BY <1>2, Invariance, PTL
=============================================================================
