# Verification of lua-mongodb

This directory models the MongoDB driver in `src/`, and the Python tools that its
project is run with, in TLA+. TLC checks the
models on small instances and TLAPS proves theorems about them for every
instance. `PROJECT.json` lists the runs, the theorems, the source lines behind
every definition, the disagreements found, and for every checked property one
faulty variant of the code (a "mutant") that the property catches.

Paths in sections 1 to 7 are relative to `src/src/mongodb/` unless they say
otherwise, in sections 8 to 10 to `src/`.

## 1. The system

The driver runs in one OS thread. Copas coroutines interleave where the code
yields: at socket I/O, sleeps, lock waits, task awaits, and inside callbacks and
listeners that do any of these. Between two yields nothing else runs. Shared
tables (pools, topology, sessions) are protected by non-reentrant FIFO locks
(`runtime/copas.lua`) wherever the code thought that a section may yield.

| Component | State it keeps | Operations | Talks to | Hard behaviour | Correct when |
| --- | --- | --- | --- | --- | --- |
| Connection pool `pool.lua` | connections by life stage, counters, wait queue, generations, maintenance task | check_out, check_in, mark_error, ready, clear, close, maintain | connect function, topology (on_connection_error), listeners | clear and close race with setups, loans and maintenance; polling waiters; retried limits | loans exclusive, limits kept, counters exact, no stale loan, each connection closed once, close ends, no waiter starves |
| Topology manager `topology.lua` | current description, server table (pool, monitor, RTT task), manager lock | open, close, monitor checks, application errors, SRV rescan, select_server, request_check | SDAM, pools, monitors, selection, DNS | check-then-act around the lock, removal of a server while its tasks run, a pool closed under the manager lock | one clear per generation, description and pool agree, no deadlock, close ends |
| SDAM `sdam.lua` | immutable descriptions of servers and topology | update, with_generation, with_srv_hosts, closed | topology manager | replies of different servers arrive in any order, old primaries keep answering | at most one primary, never an older one, kinds of servers fit the topology type |
| Server selection `selection.lua` | none | candidates, choose | topology manager | boundaries of staleness and latency windows | no unsuitable server is chosen |
| Sessions `session.lua` | sessions, transaction state, pool of server sessions | start/commit/abort/with_transaction, advance times, end | session executor, retry executor | commit retried after an unknown outcome, pins, dirty and expired server sessions, close during use | legal transaction life cycle, a server session has one owner |
| Session executor `session_executor.lua` | none of its own | command | sessions, retry executor | implicit sessions, transaction numbers | numbers grow, one per operation |
| Retry executor `retry_executor.lua` | per-operation attempts | command | topology executor | retry after an answer that was lost | at most the allowed attempts, writes retried under one number |
| Topology executor `topology_executor.lua` | none of its own | command | topology, pool | a connection must go back on every way out | each check_out has one check_in |
| Cursors `cursor.lua` | batch, id, pinned connection, session | next, getMore, close | executor, pool | failures while pinned, killCursors | pin released once |
| Change streams `change_stream.lua` | cursor, resume token | next, resume, close | cursor | resume from the right token | no event lost |
| Operation timeout `operation_timeout.lua`, `socket_timeout_executor.lua` | deadline budget | run, resume | all operations | nesting | budget shrinks only |
| Operation ids `operation_id.lua` | counter | next | command executor | 32-bit wrap | no id is zero or reused at once |
| Client `client.lua`, `init.lua` | owns all of the above | open, close | all | close during operations | ownership |
| Bulk writes `bulk.lua`, `client_bulk.lua` | models, index map | split, merge | executors | batch limits, index mapping | every model sent once, in order |
| GridFS `gridfs.lua` | stream buffers | upload, download, abort | collections | chunk boundaries | bytes in = bytes out |
| Authentication `auth/` | OIDC token cache | conversations | one connection | concurrent refresh of one token | one refresh at a time |
| Other | | CRUD and administration, URI and options, BSON, wire protocol, transport, commands, events, logging, runtime adapters | | pure construction, parsing, encoding or I/O | |

The repository also holds the tools its roadmap and its specifications are kept
with. They are processes that read and replace files; people edit, commit and push
between them.

| Tool | State it keeps | Operations | Talks to | Hard behaviour | Correct when |
| --- | --- | --- | --- | --- | --- |
| Roadmap `planning/update_plan.py` | `progress.json`, `current_state.json` | start, requeue, review, record-test, block, unblock, complete, render-state, next | `plan.json`, git | no lock, two files per write, reopened activities, edited plans | one activity active, nothing completed unproved, credit for fresh commits only, never wedged |
| Reference updates `planning/update_references.py` | `references.json`, the checkouts | dry run, review, update | git, generators, roadmap, ledger | reports that age, generators that fail, kills between writes | what it reports and says of its end is true; an approval is for what was seen |
| Artifact regeneration `planning/update_spec_artifacts.py` | artifacts | regenerate | generators | stops half way, order of commands | an artifact is made after what it reads |
| README projection `planning/update_readme_compatibility.py` | table in `README.md` | render, check | ledger, catalog, fixtures | exclusions, rounding | marker, percentage and note agree |
| Architecture check `planning/check_architecture.py` | none | check | Lua sources | visits each module once | every cycle found |
| Complexity ratchet `tools/check_lua_complexity.py` | baseline | check, update | luacheck | stale baselines | no score rises or falls unrecorded |
| Stringprep tables `tools/generate_stringprep_tables.py` | `auth/stringprep_tables.lua` | generate | Unicode data | ends of ranges | exactly the members |

`PROJECT.json` has one entry per component with its status, and under "hazards"
what is hard to test in this code, at its line.

## 2. Plan

Order of the modules, most important behaviour first.

1. **Pool** (done): `Pool`, the abstract `LendingPool`, their refinement
   `PoolLends`, proofs of types, loans, limits, counters, waiters, closing and of
   the refinement.
2. **SDAM** (done): `SDAM`, the transitions as operators on descriptions;
   `Discovery`, a description that hears anything; `ReplicaSet`, a replica set with
   elections whose replies arrive late and in any order. Proofs of what holds
   of a description whatever replies arrive.
3. **Topology manager** (done): `Topology`: monitors, application
   errors, rescans, server removal and close around the manager lock, over the
   operators of SDAM and a pool reduced to its generation, state and maintenance
   task. Proofs of the mutual exclusion of the lock and of every safety property.
   Left: RTT monitors, load balancing, `select_server`.
4. **Tools** (done): `Roadmap`, `References`, `QualityGates` and `Compatibility`,
   with proofs.
5. **Sessions**: the transaction state machine and the server session pool.
   Theorem: exclusive ownership of server sessions.
6. **Executors**: session, retry and topology executor composed; attempts,
   pins, check-ins.
7. **Cursors and change streams**: pins, kill, resume.
8. **Algorithms**: operation timeout, operation ids, selection, bulk splitting,
   GridFS chunking, the OIDC token cache, each against a reference definition.

Every safety property that a run checks, the refinement of the pool included, is
proved. Theorems left: the search of the architecture check (`DependencyCycles`), and
what later components bring.

## 3. The pool: `Pool.tla`

### State and actions

No code between `lock:acquire` and `lock:release` in `pool.lua` yields, so each
lock section is one action. The gaps between sections, where the code does
yield, are values of `pc`:

| `pc` | Who | Where the code is |
| --- | --- | --- |
| `waiting` | caller | polling loop of `check_out` |
| `taking` | caller | has an available connection, still closes perished ones |
| `opening` | caller, task | `establish`: closes perished connections, then `connect` |
| `binding` | caller | `establish` returned, checkout not yet begun |
| `reporting` | caller, task | in `on_connection_error` |
| `failed` | caller | setup failed, `checkout_failed` still to come |
| `lent` | caller | has the connection |
| `settling` | caller, controller, task | closing sockets, then `schedule_maintenance` |
| `scheduled`, `filling`, `ending` | task | `maintain`: not started, filling, leaving |
| `clearing` | task | in the clear it does itself after a failure |
| `awaiting` | controller | `close` waits for the maintenance task |

`closing[p]` and `cutting[p]` are the connections that process `p` has taken out
of the pool or interrupted and whose sockets it still closes, outside the lock.
The tables `pending`, `in_use` and `available` are read off `conn_state`; the
counters are kept as variables, exactly as the code keeps them, so that their
agreement is a property. `closes` and `born` are history variables. A connection
object may be reused once nobody refers to it (`GarbageCollect`); the set
`Conns` therefore bounds how many exist at once, not how many are ever made.

Abstracted: time (a connection may become idle too long, and a deadline may pass,
at any moment: `Ageing`, `GiveUp`), events and durations (except the count of
ConnectionClosed), the reason of a connect error, the order in which available
connections are scanned (any subset of the perished ones is culled before one
that has not perished is taken), and the connect function itself, which may
succeed, fail, or be overtaken by a clear or close.

`CheckOut`'s failures before the waiter is queued change nothing and have no
action. `CheckIn` has no branch for a connection that is not in use: the theorem
`LoansCorrect` shows it cannot be needed by a caller that checks in what it was
lent, once.

### Runs

| Run | Instance | Shows |
| --- | --- | --- |
| `pool_contention` | 2 callers, 2 tasks, 1 controller, max 1, min 1, ageing | all safety invariants when everybody wants the one connection; `Pool` implements `LendingPool` (`Lends`) |
| `pool_balanced` | 1 caller, 2 tasks, 2 services, max 2, min 2, 1 connecting, ageing | service clears while two tasks and a caller compete for one setup: no stale loan |
| `pool_close` | 1 caller, 2 tasks, max 1, fair | `close` ends and the pool drains |
| `pool_waiters` | 2 callers, max 1, fair, loans returned | no waiter starves |

Bounds. `Conns`: one more than the pool may hold where a closing connection and
its replacement should coexist (not in `pool_balanced`, whose limits the theorems
cover). `Tasks` bounds live maintenance tasks: a third
needs a third scheduling during two live ones and adds nothing, since tasks are
symmetric and interact through the pool only. `TaskClears` lets one task at a time
clear by itself, since every clear needs a free task slot afterwards.
`MaxGeneration` bounds clears at 1: connections of the generations before and
after, and those that straddle the clear, all exist; a second clear repeats the
first, as generations are only compared for equality (`IsCurrent`) and by `<=`
against the newest (`Interruptible`). One caller in `pool_close` is enough, as
`close` interacts with each caller alone; two callers are the least for order and
exclusion. `max_pool_size` 0 (no limit) is covered by the theorems.

Fairness (`FairSpec`). Copas resumes every runnable coroutine; closing a socket
ends; connect ends because it has a deadline and can be cancelled; callbacks
return. Nobody is assumed to ready, clear or close the pool, to ask, to return a
connection or to have a deadline. `EveryWaiterIsAnswered` additionally assumes
that borrowers return what they have (`ReturningSpec`): without it waiting forever
is right.

### Disagreements

`Pool` states two promises of the code that TLC refutes within seconds, as an
INVARIANT of a small instance; no listed run checks them. The first one needs two
callers, two connections and tasks, `MaxPoolSize` 2, `MinPoolSize` 1 and
`MaxConnecting` 1; the second one a caller, three connections, two tasks and 2 for
all three options.

* `OldConnectionsAreStale`: a connection being established
  while the pool is cleared without interruption takes the *new* generation when
  its handshake ends (`apply_connection_info`), so it is lent as current once the
  pool is ready again, although the comment at `pool.lua:1225` says that a
  generation bump marks existing connections stale.
* `CloseSettlesMaintenance`: `close` awaits only the
  task spawned last. When a clear or check-in spawned a second task while an older
  one was connecting, `close` returns with that older task still connecting. The
  test "settles in-flight minPoolSize maintenance before close returns" has one
  task only.

## 4. What is proved about the pool

For every number of callers, tasks, controllers, connections and services, and all
options that `validate_options` accepts (the named ASSUMEs of `Pool`):

| Theorem | Module | Inductive invariant |
| --- | --- | --- |
| `TypeCorrect`: `Spec => []TypeOK` | `Pool_proofs` | `TypeInv`: types, and who has a connection at each pc (`HasConn`) |
| `LoansCorrect`: `Spec => []LoansAreExclusive` | `Pool_proofs` | `LoanInv`: adds `Ownership` |
| `LimitsCorrect`: `Spec => []LimitsRespected` | `Pool_proofs` | `CountInv`: adds the connection counters and limits |
| `CountersCorrect`: `Spec => []CountersAgree` | `Pool_proofs` | `OperationInv`: adds the operation and purpose counters |
| `WaitersCorrect`: `Spec => []WaitersAreKnown` | `PoolFates_proofs` | `WaiterInv`: `TypeInv` suffices |
| `ClosesCorrect`: `Spec => []ClosedOnce` | `PoolFates_proofs` | `DebtInv`: adds who owes a closed connection (`OneDebt`, `DebtsApart`) to `LoanInv` |
| `AvailableCorrect`: `ClearsReachAll => (Spec => []AvailableAreUsable)` | `PoolFates_proofs` | `UsableInv`: adds what connections in use are worth (`UsableOrLags`) to `DebtInv` |
| `PoolImplementsLending`: `Spec => Lends` | `PoolFates_proofs` | `LendsInv`: `CountInv` and `WaitersAreKnown` |

`LoansAreExclusive` is not inductive: it does not say that a connection being
established has one owner, which is what makes the loan that follows exclusive, nor
that a connection in `available` is in nobody's hands. `Ownership` says both.
`LimitsRespected` needs that the counters are right, since the code compares
counters; those need `Ownership`, since removing a connection from one table must
not remove it from another. The counters are cardinalities of finite sets, so the
proofs rest on `FS_AddElement`, `FS_RemoveElement` and `FS_Subset` of
FiniteSetTheorems, wrapped in a few lemmas about sets that gain and lose elements.
Each invariant's preservation has one lemma per action.

`ClosedOnce` needs more than its own words: a process that begins to owe a
connection overwrites what it owed (`closing` is assigned, not extended, in
`check_in`, `clear` and the reports), so the proof keeps that it owed nothing at the
pcs where this happens (`DebtsApart`). `AvailableAreUsable` speaks of available
connections only; the proof must follow a connection while it is lent. `UsableOrLags`
says that an interrupted connection, and every connection in use of a paused pool,
has a generation that lags behind, and that generations never overtake the pool's.
Then `check_in`, which looks at the generation and the error only, cannot keep a
connection whose socket a clear has cut. The hypothesis `ClearsReachAll` excludes a
clear of a load balanced pool as a whole; without it TLC finds an
interrupted connection, of a service that was never cleared, back among the available
ones (`pool.lua:1233`).

`PoolImplementsLending` maps every action of `Pool` to one of `LendingPool` or to a
stutter. `Serve` is the step that needs the invariants: that the head of the queue
leaves it is `WaitersAreKnown` (the code removes the waiter by name), and that the
capacity is not exceeded is an injection from the callers being served into the
connections that are not available, whose number the counters bound (`FS_Injection`).
`Lend` needs that nobody else has the connection, which is `Ownership`.

Only model-checked: the three liveness properties (liveness is out of the prover's
reach).

## 5. Discovery: `SDAM.tla`, `Discovery.tla`, `ReplicaSet.tla`

`sdam.lua` is a pure library: a description and a `hello` reply give the next
description. `SDAM` holds its functions as operators, one per function of the code
(`UpdateFromPrimary` is `update_from_primary`, `Transition` is `transition`, and
so on, one operator per row of the type table that `transition` spells out). A
description keeps what transitions read: type, servers, set name, the largest
election id and set version witnessed, and the seeds. A server keeps its type, set
name, election id, set version, whether its wire version is at least 17,
`topologyVersion` and pool generation. The code's table of servers is a function on
all addresses in which a missing server is `Absent`. nil election ids and set
versions are 0, which `compare_nullable` orders below every value. Replies are taken
as `parse_server` leaves them; `NoVersion` is a reply without `topologyVersion`.

Two modules use these operators.

* `Discovery` keeps one description that may hear any reply of any server with any
  pool generation at any time (`update`), take a generation (`with_generation`),
  rescan SRV records (`with_srv_hosts`) and close (`closed`). Nothing is assumed
  of the servers, so what holds here holds against every interleaving of monitors.
  The one assumption, in `Hears`, is that nobody reports on a server that a Single
  topology does not have: `update` would add it. The manager does not guarantee it,
  see `SingleHasOneServer` in section 7.
* `ReplicaSet` puts the client next to servers that behave: primaries are elected
  with increasing election ids, step down or go on believing to be primary; a
  primary adds or removes a member, others learn of it later; servers restart,
  which begins a new `topologyVersion`. Answers to checks and refusals of operations
  ("not writable primary") travel, one of each per server, and are processed late.
  `ProcessCheck`, `ProcessFailure` and `ProcessRefusal` are what `topology.lua` does
  with them, each in one step. The servers are external.

### Runs

| Run | Instance | Shows |
| --- | --- | --- |
| `discovery` | 2 addresses, 2 set names, every kind of reply, 8 starts | all invariants of a description, `TypeIsForGood` |
| `replica_set_elections` | 3 servers, 2 elections, 1 lost check | no return to an older primary; the client converges |
| `replica_set_changes` | 2 servers, 1 election, a member removed and taken back, 1 restart each, 1 lost check | the client learns exactly the members and believes restarted servers |

Bounds. Two addresses are enough for the invariants of a description, as a
reply concerns its sender, one possible primary and the rest, who are all treated
alike, and the theorems cover any number. Election ids 0 to 2 and set versions 1 to
2 give every order of a reply relative to what was seen, with and without nil
election ids. Two changes of members, the second of which undoes
the first, give every pair of views of servers and client;
three servers are the least in which an overtaken primary, its successor and a third
view exist. `MaxFailures` 1 lets a primary be forgotten at any moment.

Deadlock is not checked in the replica set runs: when the bounds are used up the set
may settle with an answer in no one's hands.

Fairness (`FairSpec`). Monitors check again and again, and their answers and refusals
are processed, because the monitor loop runs until close and the manager lock is
fair. An overtaken primary steps down and configurations spread, as servers
promise. Nobody has to be elected, fail, restart or reconfigure.

## 6. What is proved about descriptions

For any finite set of addresses, any set names, any set of replies and any starts
that `M.new` accepts (`HeardAreReplies`, `StartsAreNew`), in `Discovery_proofs`:

| Theorem | States |
| --- | --- |
| `TypeCorrect` | `Spec => []TypeOK` |
| `OnePrimaryAtMost` | `Spec => []AtMostOnePrimary` |
| `TypeSaysServers` | `Spec => []ServersFitTopology` |
| `StrangersGo` | `Spec => []MembersAreOfTheSet` |
| `NewestPrimary` | `Spec => []PrimaryIsNewest` |
| `TypeRemains` | `Spec => TypeIsForGood` |

The invariant is `Good(description)`. It is stronger than the conjunction of the
properties in two ways. A replica set that has members has a name (`OfTheSet`):
otherwise a member without name would make the next primary's name look right.
And an unknown topology holds seeds only (`WithinSeeds`): otherwise a standalone
server that turns the topology into Single might not be alone in it.
The proof has one lemma per transition, for an arbitrary good description; within
replica sets they share `MembersFit`, a pointwise form of the invariant over all
servers but the one that just replied. `ServersFitTopology` speaks about
the one seed of a Single topology, so `FS_Subset` and `FS_Singleton` of
FiniteSetTheorems are used.

`ReplicaSet_proofs` adds what holds of servers that behave, for any number of them, of
elections, configurations, restarts and lost checks:

| Theorem | States |
| --- | --- |
| `NeverBackToAnOlder` | `Spec => NeverAnOlderPrimary` |

The action property speaks of two descriptions: the last election heard of never becomes
an earlier one, and each primary is of that election. The invariant, `FollowsInv`, says the
same of one (`Following`), and that the answers on their way are those of servers of
the supported versions (`Telling`: primaries send an election id, and `maxWireVersion`
is at least 17). It says nothing of their order or age: an answer may be as late as it
likes. Of primaries before 17 the property would be false: there the set version
decides, and a larger one may come with an earlier election (`StalePrimary`, `Witnessed`).
`UpdateFollows` is the step, with a lemma for each
transition of a replica set.

Only model-checked: `Convergence`, which is liveness.

## 7. The topology manager: `Topology.tla`, `Topology_proofs.tla`

### State and actions

The manager's tables are `state`, `description` (of `SDAM`) and `servers`, which
gives each address its entry. Entries are numbered as `add_server` creates them and
stay in `entries` after they are removed, since tasks may still hold them. An entry
keeps what others read of it: the flag `check_requested`, the running check, and its
pool, reduced to state, generation and maintenance task (section 3 has the real one).

Between two yields a task runs alone. Its `pc` is in `Running` while it is inside
such a stretch, and everybody else is at a standstill (`At`). A stretch that takes
several steps is one that loops (`sync_servers`) or that several handlers share
(`process_description`). These are the places at which the manager yields:

| `pc` | Where the code is |
| --- | --- |
| `spawned`, `sleeping`, `checking` | `monitor_loop`, its sleep, the I/O of `monitor_once`; `sleeping` is also the SRV loop's, with its DNS query |
| `queued` | waiting for the manager lock, in FIFO order |
| `syncing pool`, `removing pool` | `remove_server` awaits a maintenance task in `pool:close`, for `sync_servers` or for `close` |
| `awaiting monitor`, `awaiting polling` | `close` awaits a monitor or the SRV loop |
| `using` | an operation has a connection |

Only `remove_server` yields while it holds the lock, so without it there would be no
queue at all. An error raised under the lock leaves it locked: its owner becomes
`Nobody`. `failed` is a task or caller that an error has ended; `caught` is maintenance,
whose `pcall` catches it. `held[p]` is the entry a task has read before it waited and
still uses afterwards; `work[p]` is the reply or error it brings.

Maintenance is a field of its entry: `schedule_maintenance` may spawn a second
task while the first is connecting or reporting (`eclipsed`), and `pool:close` awaits
the second only. A connection attempt that fails, or that a close cancels, is reported
through the callback of `client.lua` with the pool's generation of that moment.

Abstracted: time (sleeps may end at any moment), heartbeat and SDAM events, the
order in which `close` visits addresses and `sync_servers` removes them, details of
errors (one that clears the pool or one that does not), and a `maintain` that opens
several connections, of which one is tried. Left out: RTT monitors, streaming
checks, load-balanced topologies, `select_server`, `process_hello`, `service_id`. The
operation errors here carry no `topologyVersion`; `ReplicaSet` is about those. The lock
is FIFO and a task that dies does not release it; this is copas, outside the
repository.

### Runs

| Run | Instance | Shows |
| --- | --- | --- |
| `topology` | 2 addresses, 1 rescan, 1 failure, maintenance, close | servers, generations and monitors agree with the description whenever the lock is free and the manager open; removed pools are closed |
| `topology_direct` | 1 address, Single, 1 operation, 3 failures, fair | close ends, pools recover |
| `topology_deadlock` | 2 addresses, 1 operation, 1 failure, maintenance, close | the disagreement below |

### Disagreements

`CloseIsNotStuck` (run `topology_deadlock`): while one monitor waits in
`remove_server`, a second one and the failed maintenance task of the second one's
server queue up behind it, in this order. The second monitor's answer removes its
server: it awaits the task, which waits for the lock. `close` then awaits the monitor
for ever, although `docs/API.md:389` says that the first close returns true.

`MCTopology` states further promises of the code that TLC refutes, with the bounds
that suffice. They are for a reader who wants the trace: an INVARIANT or PROPERTY line
in `Topology.cfg` or `TopologyDeadlock.cfg` gives it. All are races of two or three
tasks around the lock.

| Statement | What happens |
| --- | --- |
| `OldErrorsClearNothing` | An operation and maintenance fail with the same generation. Both pass `application_error_is_stale` before the lock; both clear the pool (`topology.lua:1595`). |
| `CloseNeverRaises` | A rescan waits for the pool of a server. `close` lists the servers, awaits another one's monitor, and finds the entry of the first gone (`topology.lua:1802`). |
| `LockIsNeverLost` | A failed check waits for the lock when the topology is closed. The description has no servers any more, the table has: `with_generation` raises under the lock (`topology.lua:705`). |
| `LockIsKept` | The same of an open manager: after a rescan, a late answer of the removed server is processed, as below, and `ready_pool` finds no entry (`topology.lua:544`). |
| `CloseClosesEveryPool` | A rescan that replaces one server by another waits for the pool of the old one. After `close` has listed the servers it goes on and adds the new one, whose pool nobody closes (`topology.lua:1787`). |
| `SingleHasOneServer` | A rescan removes a server whose check already waits for the lock, behind the check of the other one, which turns the topology into Single. `update` of a Single topology takes any address (`sdam.lua:1106`). |
| `AllGenerationsAreKnown` | A server is removed and added again while an error of its old entry waits for the lock. The description takes the old pool's generation and ignores the new server until its pool has caught up. This is why `DescriptionKnowsGenerations` speaks of servers added once. |

Bounds. Two addresses are enough for a server whose removal is waited for and
another one whose monitor or task meets it. `MaxFailures` bounds all failures
together, as each raises a generation. `LastEntry` is the most entries that the
given number of rescans can create, so `SyncAdd` is never held up by it. Replies of
routers and standalone servers make pools ready, remove servers (a standalone server
in a cluster) and turn the topology into Single. Addresses are symmetric in the runs
that check invariants only.

Deadlock is not checked: everything stops once the manager is closed.

Fairness (`FairSpec`, used by `topology_direct`). A task that can go on again and
again does so: strong fairness, since what a task can do is switched off while others
run, and copas resumes every coroutine that is due. A check and an operation end
because they have timeouts. No operation must begin, and nothing must fail or close.

`CloseEnds` is checked for the direct connection only; with several servers
`topology_deadlock` and the trace of `LockIsNeverLost` are counterexamples.

### What is proved

For any finite set of addresses, set names, replies, operations and bounds: the
assumptions of `Topology` are that the kinds of tasks are distinct
(`TasksAreDistinct`), that the client starts with a description as `M.new` makes it
(`StartIsNew`), that a failed check is heard as an unknown server
(`HeardAreReplies`), and that there is an entry at least for every address
(`BoundsAreNatural`).

| Theorem | States |
| --- | --- |
| `TypeCorrect` | `Spec => []TypeOK` |
| `LockExcludes` | among the tasks that take the lock at most one is in the code that it guards, even after an error has lost it |
| `ServersAlwaysMatch` | `Spec => []ServersMatchDescription` |
| `GenerationsKnown` | `Spec => []DescriptionKnowsGenerations` |
| `PoolsAreClosed` | `Spec => []NoPoolIsDropped` |
| `ServersAreMonitored` | `Spec => []EveryServerIsMonitored` |

The properties speak of a manager at rest, so none of them is inductive: all that
happens between two states of rest, with other tasks waiting in between, has to be
described. The inductive invariant `IInv` (theorem `Invariance`) does so in two halves.

* `Shape` always holds. `LockIsHeld`: who is at a label under the lock is the head of
  its queue, and the queue holds each waiting task once. `Carries`: what a task reads
  before it waits is still an entry of the address it reports on when it goes on, of a
  generation that the entry has reached. `Served`: an entry that is no longer its
  address's is closed. `SyncShape`: nothing is left in `sync` when nobody syncs, and the
  pool that is awaited has been closed. `CloseShape`: what a sync under way still adds
  is never what `close` has left to stop, which is why the two may go on side by side.
* `Match`, `Generations` and `Monitored` hold while the manager is open and has its
  lock (`Normal`; the table of disagreements says how it may lose it). They say of each
  address what the sync under way still owes it: a described server has an
  entry or is in `sync.adding`; an entry is described, or in `sync.removing`, or
  being removed; a monitor that does not run is in `sync.watching`.

That `DescriptionKnowsGenerations` holds only of servers added once is what
`Generations` needs as well (`Sole`). `OneRuns`, that one task at a time is between two
yields, follows from the guards of the actions (`At`); the proof uses it
wherever a stretch takes several steps. Transitions of a description keep
the generation of every server that they keep (`Evolves`), one lemma per row
of the table of `SDAM`. Each action is then classified once by what it does to entries,
tasks and the lock (`EntriesEvolve`, `KindOfStep`), so that most parts of the invariant
have to look at a few kinds of step instead of every action.

Only model-checked: `CloseEnds` and `PoolsRecover`, which are liveness.

## 8. The roadmap: `Roadmap.tla`, `DependencyGraph.tla`, `Roadmap_proofs.tla`

### State and actions

`plan`, `progress` and `state` are the three documents of `planning/`; of the plan
only the dependencies can be edited, and of an activity's record `progress` keeps the
status, the test evidence, the evidence put away by reopenings (`history`) and the
commit at the last reopening (`boundary`). `log` is the one branch of commits,
`pushed` how many of them a remote has. `attempt`, in evidence and commits, is a
history variable: the attempt at the activity that they belong to.

A command reads both documents, validates them, decides and then replaces two files.
`Prepare` is everything up to the first write, with the command's own guard and record
(`Start`, `RequeueActive`, `RequeueCompleted`, `Review`, `RecordTest`, `Block`,
`Unblock`, `Complete`, `RenderState`); `WriteProgress` and `WriteState` are the two
renames of `save_progress_and_state`; `Crash` may come before each of them. What the
command read is in its `draft`, so with several operators it may write over what
others have written meanwhile. `EditPlan`, the commits and `Push` are people's.

`git_commit_issues` is `HasItsCommit`, `compute_state` is `ComputeState`,
`validate_plan` is `ValidPlan`, with its depth-first search in `DependencyGraph`,
written as a recursive function, in the order of the document as in the code. It asks for
nodes one after the other and carries along what was visited, as the nested `visit` does.

Abstracted: notes and times; fields that describe an activity and their syntax, the
terminal activity of a track, plans that gain or lose activities; several branches;
the locks of references, which `next` also wants intact.

### The run

`roadmap`: two activities, the second of which depends on the first, has a track of
its own and needs red evidence; three plans (the dependency, none, a cycle); one
operator; one edit, one reopening, two commits, one of them of before the commit policy.

| Property | Shows |
| --- | --- |
| `OneActive`, `CompletedIsProved` | no order of commands and kills leaves two activities active, or one completed on the evidence of an earlier attempt |
| `StateIsCurrent` | the summary lags behind only after a kill between the two writes or an edit, and the next command puts it right |
| `NeverWedged` | while something is not completed, something can be done |
| `NextCanStart` | what `next` names `start` accepts: they decide it in different words |
| `CreditIsFresh` | nothing starts before every completed activity has its one pushed commit, made since it was reopened |
| `EvidenceIsKept` | evidence is added or put away |

Bounds. Two activities are a dependency, and the least of which one may be completed
while another is active. Two commits are an activity's commit and one more (of the
other activity, a follow-up, a mixed or a second one). One reopening, of either
activity, is the least that leaves evidence and commits of an earlier attempt behind; the
theorems are about any number. Deadlock is not checked: the
work may be done. The tool promises nothing about progress, so no fairness is assumed.

With two operators commands overwrite each other. TLC finds `EvidenceIsKept` violated
then (evidence or a completion vanishes) and `CreditIsFresh` (a reopening is
overtaken by a command that read the files before it); `OneActive`, `CompletedIsProved`,
`NeverWedged`, `NextCanStart` and `TypeOK` still hold on this instance.

`MCRoadmap` also states `NothingCompletedOnReopened`, which TLC refutes: `requeue`
refuses to reopen what a completed activity depends on ("cannot reopen ...; completed
dependents", `planning/update_plan.py:759`), but a dependent that is in progress is
completed afterwards, since `command_complete` looks at no dependency.

### What is proved

For any activities, plans, tracks and bounds (`RoadmapConstants`):

| Theorem | Operators | States |
| --- | --- | --- |
| `TypeCorrect` | any | `Spec => []TypeOK` |
| `AtMostOneActive` | any | `Spec => []OneActive` |
| `CompletedIsAlwaysProved` | any | `Spec => []CompletedIsProved` |
| `SummaryIsCurrent` | one | `Spec => []StateIsCurrent` |
| `EvidenceIsAlwaysKept` | one | `Spec => EvidenceIsKept` |
| `CreditIsAlwaysFresh` | one | `Spec => CreditIsFresh` |
| `PlanIsNeverWedged` | any | `Spec => []NeverWedged` |
| `NextCanAlwaysStart`, given `AdditionalHaveTracks` | any | `Spec => []NextCanStart` |
| `SearchIsRight` | | a cycle is found in exactly the graphs that have one, in any order |

`IInv` asks the same of `progress` and of every draft: to be `Good` by itself, with a
good record for each activity (all of its evidence is of the present attempt, whatever
its status) and at most one active. A command makes a good document of a good one,
so it does not matter whose write comes last. `SInv` adds, for one operator (`Sole`),
that a draft follows from what is on disk by one command (`Follows`) and that commits
behind an activity's boundary are of its present attempt (`Credited`); this is what
turns `HasItsCommit`, which knows boundaries only, into credit for the attempt.

`NeverWedged` rests on the search: in a plan that `validate_plan` accepts it found no
cycle, so one of the activities that are left waits for none of the others, and its
status is then one in which something can be done. `SearchIsRight` is an induction over
the recursion, done as a smallest counterexample. `Measure` is the number of nodes that are
not being visited and then the length of the list; it falls with every call
(`MeasureFalls`), so `CallIs` can define the function by well-founded recursion, and of the
calls with a wrong answer one has the least measure (`SmallestCall`), whose own calls
are answered rightly. What is shown in this way is that without a cycle all that is visited
stays `Settled` (closed under dependencies and without cycles among itself), and that
in a graph without cycles the nodes being visited form a chain (`Chained`), so that none
is met again.

`NextCanStart` needs that the first of a filtered list is in the list and passes the filter
(`InOrderIs`), and one condition on the plan. `next` names an additional activity
without asking for a track, and `start` refuses one without
(`planning/update_plan.py:709`), so additional activities must have tracks
(`AdditionalHaveTracks`). The 34 completed ones in `planning/plan.json` have none and are
behind us; TLC finds `NextCanStart` violated in an instance with one that is open.

## 9. Reference updates: `References.tla`, `References_proofs.tla`

### State and actions

One reference, the specifications. `head` is the commit of the checkout, `pin` the one
in `references.json`, `artifacts` the commit behind each group of generated files:
the ledger (with capabilities and catalog) is made from the checkout, the projections
from the ledger, the state of the roadmap from `references.json`. What a commit contains
is constant: the version of every case, requirement and document, whether all mapped
landmarks are there, where generation stops until somebody has classified the
commit's evidence, and whether generators repeat.

A dry run is one step (`DryRun`): it works in a clone and changes nothing. Its result,
`Report`, has the fields of `build_impact_report` that decisions hang on: the commits,
the inventory of upstream and of the ledger compared, one item per changed suite with
owners and disposition, the behavior verification, the simulation and the waypoint.
`Approve` compares a fresh report with the reviewed one (`ImpactDigest`), after which
the update goes on from step to step: `AdvanceApproved` (or `Advance`, without review),
`WritePin`, `Generate` once per group, `Finish` or `GenerateFails`. `Regenerate` is
`make update-spec-artifacts`. `Crash` may come between any two. People change the status
of activities, classify, commit and restore the checkout at any time that they can.

Abstracted: text and layout of reports, the classification of paths, summaries of
commits, other references than the specifications, which have no evidence, the
artifacts within a group, and one update at a time.

### The run

`references`: five commits, two lines that are merged; one commit that does not repeat,
three of which some artifact fails until they are classified; four pieces of evidence in
two suites, one of them a document, one found by no command; two activities.

| Property | Shows |
| --- | --- |
| `OutcomesAreTrue` | after "updated" the checkout, pin and every artifact are of one commit; a reviewed update does not fail in a generation that its simulation passed |
| `ReviewDecides` | a report is applied exactly as long as nothing it is about has changed |
| `ReportIsTrue` | no suite with changed evidence of begun activities is deferred; "passed" means that a command which finds it ran for each such passing piece; a waypoint passes and what comes after it fails |
| `TypeOK` | also that pins have all landmarks and only move forward |

Bounds. One merge gives commits that are before the candidate without being its
ancestors' ancestors in line; one status change and one project commit make every kind
of stale report. Deadlock is not checked and no fairness assumed: nobody has to update.

### What is proved

For any history in which parents come first, any contents, owners, failures, changes and
bounds (`ReferencesConstants`), by the invariant `IInv`:

| Theorem | States |
| --- | --- |
| `TypeCorrect` | `Spec => []TypeOK` |
| `OutcomesAreAlwaysTrue` | `Spec => []OutcomesAreTrue` |
| `ReviewAlwaysDecides` | `Spec => []ReviewDecides` |
| `ReportsAreTrue` | `Spec => []ReportIsTrue` |

* `JobInv` says of the job under way what is left to generate and that everything before
  is of its commit (`Made`), and that a guarded job's commit passes, which more
  classification does not undo.
* `TypeOK` is inductive with `JobInv`. That pins descend from the first one rests on
  `AncestorsAreTransitive`.
* `Reviewed` is what `ReviewDecides` needs: a project that is clean, as the same commit
  as at the time of the report, has never been soiled since, so all facts are those of
  the report (`seen = Facts`), and a fresh report is the old one but for the
  verification run (`ReportStays`, `DigestIsOf`). It cannot be said of the digest alone:
  a status may be changed and changed back, and facts then agree while the project is
  not clean. While a checkout is moved and artifacts are made the project is not clean.
* `ReportIsTrue` changes with `DryRun` only. `WaypointIs` needs that the commits between
  two are in order and end with the candidate (`BetweenIs`, `SortedIs`).

`History` is a recursive function. Induction over it is replaced by a smallest
counterexample: a set of commits that violate a statement has a least element
(`SmallestNumber`, from `WFMin` of WellFoundedInduction), whose parents then satisfy
it. `HistoryIs` shows in this way that the recursion defines what it says,
`AncestorsAreTransitive` that ancestry is transitive, `SortedExists` that every set of
commits can be put in order.

`MCReferences` states promises that TLC refutes:

| Statement | What happens |
| --- | --- |
| `WaypointIsGreen` | `find_green_waypoint` names the pin when no commit before the candidate passes, although nobody has simulated the pin, which fails if it was moved ahead of its evidence (`planning/update_references.py:542`). |
| `RegeneratedFromThePin` | An update is killed between the checkout and `references.json`. `make update-spec-artifacts` then makes the artifacts, "derived from the pinned MongoDB specifications" (`planning/update_spec_artifacts.py:2`), from a commit that is not the pin. |
| `TotalIsExplained` | The total row of the README's table gets a dagger for a suite that is unsupported altogether; the note below counts such fixtures only for suites that are scored. |

## 10. Small algorithms: `QualityGates.tla`, `Compatibility.tla`, `Tools_proofs.tla`

Functions without state are checked against what they are for, by named ASSUMEs that
TLC evaluates with the runs `roadmap` and `references`.

| ASSUME | In | Shows, over |
| --- | --- | --- |
| `CyclesAreFound` | `MCRoadmap` | both depth-first searches find a cycle exactly if there is one, and report walks that are cycles; all graphs of 3 nodes |
| `ArchitectureIsJudged` | `MCRoadmap` | `check_source` is content exactly with acyclic modules that leave the runtime's names to the runtime; 2 modules, one owned import and one owned global |
| `RatchetIsTight` | `MCRoadmap` | the gate passes exactly with the baseline it would generate; 2 functions, 4 scores |
| `TablesAreExact` | `MCRoadmap` | ranges are exact, in order and as few as possible, keys of compositions are distinct; all sets of 6 code points |
| `RowsAreTrue`, `PercentagesAreExact` | `MCReferences` | marker, percentage and dagger of a row agree; a rounded 100.0% (or 0.0%) of an incomplete row needs 2000 scored outcomes |
| `CountedOnce` | `MCReferences` | each case counts under one status, and is excluded only if its document or test excludes every supported server |

`Tools_proofs` has these for every input:

| Theorem | States |
| --- | --- |
| `BaselineIsExact` | the gate passes with exactly the baseline it would generate, for every measurement and limit (`RatchetIsTight`) |
| `RangesAreExact` | `contiguous_ranges` is exact, for every set of code points and every bound (the first half of `TablesAreExact`) |
| `KeysAreApart` | the keys of compositions are distinct (the second half) |
| `PercentagesAreHonest` | a row with scored outcomes has a percentage, 100.0 if all pass, 0.0 if none does, and below 2000 scored outcomes only then (`PercentagesAreExact`) |
| `MarkersAgree` | below 2000 scored outcomes marker and percentage say the same (`RowsAreTrue`) |
| `DaggersAreExplained` | a row has a dagger exactly if the note counts some of its fixtures (`RowsAreTrue`) |

A range grows with each code point that follows the last: that what was read so far
is exact is shown, like `SearchIsRight` of section 8, by a smallest bound at which it were
not. That some number of tenths is nearest is shown in the same way, by the smallest
that is not too small. The search of the architecture check (`DependencyCycles`), which
marks nodes where that of the roadmap keeps sets, and how a case is counted
(`CountedOnce`) are checked on small inputs only.

The project's real ledger has more than 2000 scored outcomes, so the first limit of
`PercentagesAreExact` is not academic for the total row.

## 11. Not modelled

The components of section 1 that are still in the plan. Of the tools: the Lua lexer of
`check_architecture.py`, the parsing of luacheck's report, reading and validating JSON,
Unicode data, links and layout of tables, and `git` itself, of which the modules keep
ancestry, one branch and what is pushed.
