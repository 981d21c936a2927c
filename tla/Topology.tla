------------------------------ MODULE Topology ------------------------------
(***************************************************************************)
(* The topology manager (src/src/mongodb/topology.lua): monitors,          *)
(* application errors, failed maintenance of pools, SRV rescans and close, *)
(* around the manager lock.                                                *)
(*                                                                         *)
(* Tasks are coroutines of one thread.  A task is `running` when it has    *)
(* not reached a point where the code yields; nobody else moves then.  It  *)
(* yields when it sleeps, does I/O, waits for the lock, or awaits a task.  *)
(*                                                                         *)
(* A pool is reduced to its state, its generation and its maintenance.     *)
(* LoadBalanced topologies, round-trip times and events are left out.      *)
(***************************************************************************)
EXTENDS SDAM, Sequences

CONSTANTS
    Start,          \* the description the manager opens with
    Heard,          \* the replies to checks
    Failure,        \* what is made of a failed check or operation
    LastEntry,      \* bounds the server entries that are ever created
    NoEntry,
    Handlers,       \* operations that may end with an error
    NoWork,
    Nobody,
    Srv,            \* the task that rescans SRV records
    Closer,
    PoolsConnect,   \* does maintenance open connections (min_pool_size > 0)?
    MaxFailures,    \* bounds the failed checks, operations and connections
    MaxRescans      \* bounds the rescans

Entries == 1 .. LastEntry
Monitor(e) == <<"monitor", e>>
Maintainer(e) == <<"maintenance", e>>
Monitors == {Monitor(e) : e \in Entries}
Maintainers == {Maintainer(e) : e \in Entries}
Processes == Monitors \cup Maintainers \cup Handlers \cup {Srv, Closer}

ASSUME TasksAreDistinct ==
    /\ Srv # Closer
    /\ {Srv, Closer} \cap (Monitors \cup Maintainers \cup Handlers) = {}
    /\ Handlers \cap (Monitors \cup Maintainers) = {}
    /\ Nobody \notin Processes /\ NoEntry \notin Entries

ASSUME StartIsNew ==
    \E type \in {"Unknown", "Single", "ReplicaSetNoPrimary"}, name \in SetNames \cup {NoName},
       seeds \in (SUBSET Addresses) \ {{}} :
       /\ type = "Single" => Cardinality(seeds) = 1
       /\ Start = NewDescription(type, name, seeds)

ASSUME HeardAreReplies == Heard \subseteq Replies /\ Failure \in Heard /\ Failure.type = "Unknown"

ASSUME BoundsAreNatural ==
    /\ {LastEntry, MaxFailures, MaxRescans} \subseteq Nat
    /\ LastEntry >= Cardinality(Addresses)

VARIABLES
    state,         \* "open" or "closed_permanently"
    description,
    servers,       \* the entry of each address, or NoEntry
    entries,       \* every entry ever created, with its pool
    lock,          \* who waits for the manager lock; the head owns it
    pc,
    held,          \* the entry a task read before it waited
    work,          \* what a task is going to do under the lock
    sync,          \* what sync_servers has left to do
    cancelled,     \* the monitors whose check is cancelled
    closing,       \* the addresses whose monitors and pools close has left to stop
    failures,
    rescans

managerVars == <<state, description, servers, entries>>
taskVars == <<held, work, sync, cancelled, closing>>
boundVars == <<failures, rescans>>
vars == <<managerVars, lock, pc, taskVars, boundVars>>

Known(a) == description.servers[a].type # "Absent"

\* A task is in one of these only within a run that the code does not interrupt.
Running == {"locked", "syncing", "finishing", "looping", "stopping", "removing",
            "reported", "caught"}
Quiet == \A p \in Processes : pc[p] \notin Running
At(p, label) == pc[p] = label /\ (label \in Running \/ Quiet)

GoTo(p, label) == pc' = [pc EXCEPT ![p] = label]

-----------------------------------------------------------------------------
(* Server entries and their pools.                                         *)

NewEntry(a) ==
    [address |-> a, pool |-> "paused", generation |-> 0, requested |-> FALSE,
     check |-> Nobody, task |-> "none", eclipsed |-> FALSE]

\* schedule_maintenance.  A task that has begun does not keep another one from
\* being spawned, which eclipses it: close awaits the newest only.
Schedule(s) ==
    CASE s.task = "none" -> [s EXCEPT !.task = "scheduled"]
      [] s.task = "scheduled" -> s
      [] s.task \in {"connecting", "reporting"} -> [s EXCEPT !.eclipsed = TRUE]

\* Faulty variant: a pool that was cleared once stays paused.
ReadyOnce(s) ==
    IF s.pool = "paused" /\ s.generation = 0 THEN Schedule([s EXCEPT !.pool = "ready"]) ELSE s

Ready(s) == IF s.pool = "paused" THEN Schedule([s EXCEPT !.pool = "ready"]) ELSE s

Clear(s) ==
    IF s.pool = "closed" THEN s
    ELSE Schedule([s EXCEPT !.pool = "paused", !.generation = @ + 1])

\* A maintenance task ends; after a failure it leaves a delayed one behind.
EndTask(s, failed) ==
    [s EXCEPT !.task = IF s.eclipsed \/ (failed /\ s.pool # "closed") THEN "scheduled" ELSE "none",
              !.eclipsed = FALSE]

OpenedFor(addresses, first) ==
    {f \in [addresses -> first .. first + Cardinality(addresses) - 1] :
        \A a, b \in addresses : f[a] = f[b] => a = b}

Init ==
    LET seeds == Present(Start.servers) IN
    /\ state = "open"
    /\ description = Start
    /\ \E entryOf \in OpenedFor(seeds, 1) :
          /\ servers = [a \in Addresses |-> IF a \in seeds THEN entryOf[a] ELSE NoEntry]
          /\ entries = [e \in 1 .. Cardinality(seeds) |->
                           NewEntry(CHOOSE a \in seeds : entryOf[a] = e)]
    /\ lock = <<>>
    /\ pc = [p \in Processes |->
                CASE p \in {Monitor(e) : e \in 1 .. Cardinality(seeds)} -> "spawned"
                  [] p = Srv -> "sleeping"
                  [] OTHER -> "idle"]
    /\ held = [p \in Processes |-> NoEntry]
    /\ work = [p \in Processes |-> NoWork]
    /\ sync = [removing |-> {}, adding |-> {}, watching |-> {}, pool |-> NoEntry]
    /\ cancelled = {}
    /\ closing = [monitors |-> {}, pools |-> {}, entry |-> NoEntry]
    /\ failures = 0
    /\ rescans = 0

-----------------------------------------------------------------------------
(* The manager lock.  An error that is raised under it is never followed   *)
(* by the release: the lock is lost to Nobody.                             *)

Enter(p) ==
    /\ lock' = Append(lock, p)
    /\ GoTo(p, IF lock = <<>> THEN "locked" ELSE "queued")

Wake(p) ==
    /\ At(p, "queued") /\ Head(lock) = p
    /\ GoTo(p, "locked")
    /\ UNCHANGED <<managerVars, lock, taskVars, boundVars>>

Release == lock' = Tail(lock)

LoseLock == lock' = <<Nobody>> \o Tail(lock)

\* The caller of maintenance's report catches the error; nobody else does.
RaiseUnderLock(p) ==
    /\ LoseLock
    /\ GoTo(p, IF p \in Maintainers THEN "caught" ELSE "failed")

After(p) ==
    CASE p \in Monitors -> "looping"
      [] p \in Maintainers -> "reported"
      [] p \in Handlers -> "idle"
      [] p = Srv -> "sleeping"

-----------------------------------------------------------------------------
(* Monitors.                                                               *)

AddressOf(e) == entries[e].address
Current(a) == servers[a]

\* Faulty variant: the manager's state is not looked at.
IsServedEvenClosed(a) == Current(a) # NoEntry

IsServed(a) == state = "open" /\ Current(a) # NoEntry

\* Faulty variant: even a check that does not run is cancelled.
CancelAnyCheck(e) == cancelled' = cancelled \cup {entries[e].check}

CancelCheck(e) == cancelled' = cancelled \cup ({entries[e].check} \ {Nobody})

\* The top of monitor_loop, up to the sleep.
Rest(e) ==
    LET p == Monitor(e)  a == AddressOf(e) IN
    /\ At(p, "looping")
    /\ IF IsServed(a)
       THEN /\ entries' = [entries EXCEPT ![Current(a)].requested = FALSE]
            /\ GoTo(p, "sleeping")
       ELSE GoTo(p, "done") /\ UNCHANGED entries
    /\ UNCHANGED <<state, description, servers, lock, taskVars, boundVars>>

\* The first check does not wait.
StartCheck(e) ==
    LET p == Monitor(e)  a == AddressOf(e) IN
    /\ At(p, "spawned") \/ At(p, "sleeping")
    /\ IF IsServed(a)
       THEN /\ entries' = [entries EXCEPT ![Current(a)].check = p,
                                          ![Current(a)].requested = @ /\ pc[p] = "sleeping"]
            /\ held' = [held EXCEPT ![p] = Current(a)]
            /\ GoTo(p, "checking")
       ELSE GoTo(p, "done") /\ UNCHANGED <<entries, held>>
    /\ UNCHANGED <<state, description, servers, lock, work, sync, cancelled, closing, boundVars>>

IsDiscarded(p) == p \in cancelled /\ entries[held[p]].requested

CheckReturns(e) ==
    LET p == Monitor(e)  a == AddressOf(e) IN
    /\ At(p, "checking")
    /\ entries' = [entries EXCEPT ![held[p]].check = Nobody]
    /\ cancelled' = cancelled \ {p}
    /\ IF IsDiscarded(p) \/ ~IsServed(a)
       THEN /\ held' = [held EXCEPT ![p] = NoEntry]
            /\ GoTo(p, "looping")
            /\ UNCHANGED <<work, lock, failures>>
       ELSE /\ \E reply \in Heard :
                  /\ reply = Failure => failures < MaxFailures
                  /\ failures' = IF reply = Failure THEN failures + 1 ELSE failures
                  /\ work' = [work EXCEPT ![p] = [address |-> a, reply |-> reply,
                                                  generation |-> 0, clears |-> reply = Failure]]
            /\ held' = [held EXCEPT ![p] = Current(a)]
            /\ Enter(p)
    /\ UNCHANGED <<state, description, servers, sync, closing, rescans>>

-----------------------------------------------------------------------------
(* process_description, under the lock.                                    *)

\* A check is judged by the generation its pool has now, an error by the one of
\* its connection.
GenerationOf(p) ==
    IF p \in Monitors THEN entries[held[p]].generation ELSE work[p].generation

DATA_BEARING_TYPES == {"Standalone", "Mongos", "RSPrimary", "RSSecondary", "LoadBalancer"}

MakesReady(td, a) ==
    \/ td.servers[a].type \in DATA_BEARING_TYPES
    \/ td.type = "Single" /\ td.servers[a].type \notin {"Unknown", "Absent"}

\* Faulty variants: servers that are gone are kept; new ones get no monitor.
SyncingWithoutRemoving(old, new) ==
    [removing |-> {}, adding |-> Present(new.servers) \ Present(old.servers),
     watching |-> Present(new.servers), pool |-> NoEntry]
WatchingTheOld(old, new) ==
    [removing |-> Present(old.servers) \ Present(new.servers),
     adding |-> Present(new.servers) \ Present(old.servers),
     watching |-> Present(old.servers), pool |-> NoEntry]

Syncing(old, new) ==
    [removing |-> Present(old.servers) \ Present(new.servers),
     adding |-> Present(new.servers) \ Present(old.servers),
     watching |-> Present(new.servers), pool |-> NoEntry]

ProcessDescription(p) ==
    LET a == work[p].address
        updated == Update(description, a, work[p].reply, GenerationOf(p)) IN
    /\ p # Srv
    /\ At(p, "locked")
    /\ IF Ignores(description, a, work[p].reply, GenerationOf(p))
       THEN GoTo(p, "finishing") /\ UNCHANGED <<description, entries, sync, lock>>
       ELSE /\ description' = updated
            /\ IF MakesReady(updated, a) /\ Current(a) = NoEntry
               THEN RaiseUnderLock(p) /\ UNCHANGED <<entries, sync>>
               ELSE /\ entries' = IF MakesReady(updated, a)
                                  THEN [entries EXCEPT ![Current(a)] = Ready(@)] ELSE entries
                    /\ sync' = Syncing(description, updated)
                    /\ GoTo(p, "syncing")
                    /\ UNCHANGED lock
    /\ UNCHANGED <<state, servers, held, work, cancelled, closing, boundVars>>

-----------------------------------------------------------------------------
(* sync_servers.                                                           *)

ClosesAtOnce(e) == entries[e].pool = "closed" \/ entries[e].task = "none"

\* Faulty variant: the pool is left open.
ForgetServer(a) ==
    /\ CancelCheck(Current(a))
    /\ servers' = [servers EXCEPT ![a] = NoEntry]
    /\ UNCHANGED entries

\* remove_server: the only thing that waits is the pool, for its maintenance.
RemoveServer(a) ==
    LET e == Current(a) IN
    /\ CancelCheck(e)
    /\ entries' = [entries EXCEPT ![e].pool = "closed"]
    /\ servers' = IF ClosesAtOnce(e) THEN [servers EXCEPT ![a] = NoEntry] ELSE servers

\* The task that eclipses another one ends without waiting for anybody.
IsClosed(e) == entries[e].task = "none" \/ entries[e].eclipsed

SyncRemove(p) ==
    /\ At(p, "syncing")
    /\ \E a \in sync.removing :
          IF Current(a) = NoEntry
          THEN /\ sync' = [sync EXCEPT !.removing = @ \ {a}]
               /\ UNCHANGED <<servers, entries, cancelled, pc>>
          ELSE /\ RemoveServer(a)
               /\ IF ClosesAtOnce(Current(a))
                  THEN sync' = [sync EXCEPT !.removing = @ \ {a}] /\ UNCHANGED pc
                  ELSE /\ sync' = [sync EXCEPT !.removing = @ \ {a}, !.pool = Current(a)]
                       /\ GoTo(p, "syncing pool")
    /\ UNCHANGED <<state, description, lock, held, work, closing, boundVars>>

SyncPoolClosed(p) ==
    /\ At(p, "syncing pool") /\ IsClosed(sync.pool)
    /\ servers' = [servers EXCEPT ![AddressOf(sync.pool)] = NoEntry]
    /\ sync' = [sync EXCEPT !.pool = NoEntry]
    /\ GoTo(p, "syncing")
    /\ UNCHANGED <<state, description, entries, lock, held, work, cancelled, closing, boundVars>>

\* sync_servers' second loop, add_server.
SyncAdd(p) ==
    LET missing == {a \in sync.adding : Current(a) = NoEntry} IN
    /\ At(p, "syncing") /\ sync.removing = {} /\ sync.adding # {}
    /\ \E entryOf \in OpenedFor(missing, Len(entries) + 1) :
          /\ servers' = [a \in Addresses |-> IF a \in missing THEN entryOf[a] ELSE servers[a]]
          /\ entries' = entries \o
                [i \in 1 .. Cardinality(missing) |->
                    NewEntry(CHOOSE a \in missing : entryOf[a] = Len(entries) + i)]
    /\ Len(entries') <= LastEntry
    /\ sync' = [sync EXCEPT !.adding = {}]
    /\ UNCHANGED <<state, description, lock, pc, held, work, cancelled, closing, boundVars>>

\* The third one, start_monitor.
SyncWatch(p) ==
    LET watched == {Monitor(Current(a)) : a \in {x \in sync.watching : Current(x) # NoEntry}} IN
    /\ At(p, "syncing") /\ sync.removing = {} /\ sync.adding = {}
    /\ pc' = [q \in Processes |->
                 CASE q = p -> "finishing"
                   [] q \in watched /\ pc[q] = "idle" -> "spawned"
                   [] OTHER -> pc[q]]
    /\ sync' = [sync EXCEPT !.watching = {}]
    /\ UNCHANGED <<managerVars, lock, held, work, cancelled, closing, boundVars>>

\* Faulty variant: the description is not told.
RecordNothing(a, generation) == description' = description

RecordGeneration(a, generation) == description' = WithGeneration(description, a, generation)

\* A failed check clears the pool the address has now.
FinishCheck(e) ==
    LET p == Monitor(e)  a == work[p].address  now == Current(a) IN
    /\ At(p, "finishing")
    /\ IF work[p].clears /\ now # NoEntry
       THEN LET cleared == Clear(entries[now]) IN
            /\ entries' = [entries EXCEPT ![now] = cleared]
            /\ IF MayTakeGeneration(description, a, cleared.generation)
               THEN /\ RecordGeneration(a, cleared.generation)
                    /\ Release /\ GoTo(p, After(p))
               ELSE RaiseUnderLock(p) /\ UNCHANGED description
       ELSE Release /\ GoTo(p, After(p)) /\ UNCHANGED <<description, entries>>
    /\ work' = [work EXCEPT ![p] = NoWork]
    /\ held' = [held EXCEPT ![p] = NoEntry]
    /\ UNCHANGED <<state, servers, sync, cancelled, closing, boundVars>>

-----------------------------------------------------------------------------
(* Errors of operations, and of maintenance that fails to connect.         *)

\* An operation takes a connection.
Borrow(h, a) ==
    /\ At(h, "idle") /\ IsServed(a)
    /\ entries[Current(a)].pool = "ready"
    /\ work' = [work EXCEPT ![h] = [address |-> a, reply |-> Failure,
                                    generation |-> entries[Current(a)].generation,
                                    clears |-> FALSE]]
    /\ GoTo(h, "using")
    /\ UNCHANGED <<managerVars, lock, held, sync, cancelled, closing, boundVars>>

Succeed(h) ==
    /\ At(h, "using")
    /\ work' = [work EXCEPT ![h] = NoWork]
    /\ GoTo(h, "idle")
    /\ UNCHANGED <<managerVars, lock, held, sync, cancelled, closing, boundVars>>

\* application_error_is_stale, for errors without a topologyVersion.
ApplicationErrorIsStale(a, generation) == generation # entries[Current(a)].generation

\* handle_application_error.  A state change error without a shutdown code does not
\* clear the pool.
HandleApplicationError(p, a, generation, clears) ==
    IF ~Known(a) THEN GoTo(p, After(p)) /\ UNCHANGED <<work, held, lock>>
    ELSE IF Current(a) = NoEntry THEN GoTo(p, "failed") /\ UNCHANGED <<work, held, lock>>
    ELSE IF ApplicationErrorIsStale(a, generation)
    THEN GoTo(p, After(p)) /\ UNCHANGED <<work, held, lock>>
    ELSE /\ work' = [work EXCEPT ![p] = [address |-> a, reply |-> Failure,
                                         generation |-> generation, clears |-> clears]]
         /\ held' = [held EXCEPT ![p] = Current(a)]
         /\ Enter(p)

Report(h) ==
    /\ At(h, "using")
    /\ failures < MaxFailures
    /\ failures' = failures + 1
    /\ \E clears \in BOOLEAN :
          HandleApplicationError(h, work[h].address, work[h].generation, clears)
    /\ UNCHANGED <<managerVars, sync, cancelled, closing, rescans>>

\* The rest of apply_application_error.  The pool is the one the error was held
\* against before the wait for the lock.
ClearedByError(p) ==
    IF work[p].clears /\ Current(work[p].address) # NoEntry
    THEN [entries EXCEPT ![held[p]] = Clear(@)] ELSE entries

FinishError(p) ==
    LET a == work[p].address
        now == Current(a)
        cleared == ClearedByError(p)
        generation == cleared[held[p]].generation
        takes == work[p].clears /\ now # NoEntry IN
    /\ p \in Handlers \cup Maintainers
    /\ At(p, "finishing")
    /\ IF \/ takes /\ ~MayTakeGeneration(description, a, generation)
          \/ Known(a) /\ now = NoEntry
       THEN RaiseUnderLock(p) /\ entries' = cleared /\ UNCHANGED <<description, cancelled>>
       ELSE /\ IF takes THEN RecordGeneration(a, generation) ELSE UNCHANGED description
            /\ entries' = IF Known(a) THEN [cleared EXCEPT ![now].requested = TRUE] ELSE cleared
            /\ IF now = NoEntry THEN UNCHANGED cancelled ELSE CancelCheck(now)
            /\ Release /\ GoTo(p, After(p))
    /\ work' = [work EXCEPT ![p] = NoWork]
    /\ held' = [held EXCEPT ![p] = NoEntry]
    /\ UNCHANGED <<state, servers, sync, closing, boundVars>>

\* schedule_maintenance's task, then maintain: one connection is tried at most.
Maintain(e) ==
    /\ Quiet /\ entries[e].task = "scheduled"
    /\ entries' = [entries EXCEPT ![e] =
                      IF PoolsConnect /\ @.pool = "ready" THEN [@ EXCEPT !.task = "connecting"]
                      ELSE EndTask(@, FALSE)]
    /\ UNCHANGED <<state, description, servers, lock, pc, taskVars, boundVars>>

Connected(e) ==
    /\ Quiet /\ entries[e].task = "connecting"
    /\ entries[e].pool # "closed"
    /\ entries' = [entries EXCEPT ![e] = EndTask(@, FALSE)]
    /\ UNCHANGED <<state, description, servers, lock, pc, taskVars, boundVars>>

\* Closing the pool cancels the attempt, which is reported like any other failure.
ConnectionFails(e) ==
    /\ Quiet /\ entries[e].task = "connecting"
    /\ IF entries[e].pool = "closed" THEN UNCHANGED failures
       ELSE failures < MaxFailures /\ failures' = failures + 1
    /\ entries' = [entries EXCEPT ![e].task = "reporting"]
    /\ IF Known(AddressOf(e)) /\ Current(AddressOf(e)) = NoEntry
       THEN GoTo(Maintainer(e), "caught") /\ UNCHANGED <<work, held, lock>>
       ELSE HandleApplicationError(Maintainer(e), AddressOf(e),
               IF Known(AddressOf(e)) THEN entries[Current(AddressOf(e))].generation ELSE 0, TRUE)
    /\ UNCHANGED <<state, description, servers, sync, cancelled, closing, rescans>>

\* Without an answer from the manager, maintenance clears its own pool.
EndMaintenance(e) ==
    LET p == Maintainer(e) IN
    /\ At(p, "reported") \/ At(p, "caught")
    /\ entries' = [entries EXCEPT ![e] =
                      EndTask(IF pc[p] = "caught" THEN Clear(@) ELSE @, TRUE)]
    /\ GoTo(p, "idle")
    /\ UNCHANGED <<state, description, servers, lock, taskVars, boundVars>>

-----------------------------------------------------------------------------
(* SRV rescans, and close.                                                 *)

PollingEnabled == description.type \in {"Unknown", "Sharded"}

Rescan ==
    /\ At(Srv, "sleeping") /\ rescans < MaxRescans
    /\ rescans' = rescans + 1
    /\ \E hosts \in (SUBSET Addresses) \ {{}} : work' = [work EXCEPT ![Srv] = hosts]
    /\ Enter(Srv)
    /\ UNCHANGED <<managerVars, held, sync, cancelled, closing, failures>>

ApplyRescan ==
    LET updated == WithSrvHosts(description, work[Srv]) IN
    /\ At(Srv, "locked")
    /\ IF state = "open" /\ PollingEnabled /\ updated # description
       THEN /\ description' = updated
            /\ sync' = Syncing(description, updated)
            /\ GoTo(Srv, "syncing")
       ELSE GoTo(Srv, "finishing") /\ UNCHANGED <<description, sync>>
    /\ UNCHANGED <<state, servers, entries, lock, held, work, cancelled, closing, boundVars>>

FinishRescan ==
    /\ At(Srv, "finishing")
    /\ Release
    /\ GoTo(Srv, "sleeping")
    /\ work' = [work EXCEPT ![Srv] = NoWork]
    /\ UNCHANGED <<managerVars, held, sync, cancelled, closing, boundVars>>

StopPolling ==
    /\ At(Srv, "sleeping") /\ ~(state = "open" /\ PollingEnabled)
    /\ GoTo(Srv, "done")
    /\ UNCHANGED <<managerVars, lock, taskVars, boundVars>>

\* close does not take the lock.
Close ==
    LET stopped == {a \in Addresses : Current(a) # NoEntry} IN
    /\ At(Closer, "idle")
    /\ state' = "closed_permanently"
    /\ description' = ClosedDescription(description)
    /\ cancelled' = cancelled \cup ({entries[Current(a)].check : a \in stopped} \ {Nobody})
    /\ closing' = [monitors |-> stopped, pools |-> stopped, entry |-> NoEntry]
    /\ GoTo(Closer, "stopping")
    /\ UNCHANGED <<servers, entries, lock, held, work, sync, boundVars>>

Ended == {"done", "failed"}

\* await_server_monitors, one address after the other.
AwaitMonitor ==
    /\ At(Closer, "stopping")
    /\ \E a \in closing.monitors :
          IF Current(a) = NoEntry
          THEN GoTo(Closer, "failed") /\ UNCHANGED closing
          ELSE /\ closing' = [closing EXCEPT !.monitors = @ \ {a}, !.entry = Current(a)]
               /\ IF pc[Monitor(Current(a))] \in Ended \cup {"idle"} THEN UNCHANGED pc
                  ELSE GoTo(Closer, "awaiting monitor")
    /\ UNCHANGED <<managerVars, lock, held, work, sync, cancelled, boundVars>>

\* Awaiting a task raises the error it ended with.
MonitorEnded ==
    /\ At(Closer, "awaiting monitor")
    /\ pc[Monitor(closing.entry)] \in Ended
    /\ GoTo(Closer, IF pc[Monitor(closing.entry)] = "failed" THEN "failed" ELSE "stopping")
    /\ UNCHANGED <<managerVars, lock, taskVars, boundVars>>

AwaitPolling ==
    /\ At(Closer, "stopping") /\ closing.monitors = {}
    /\ GoTo(Closer, "awaiting polling")
    /\ UNCHANGED <<managerVars, lock, taskVars, boundVars>>

PollingEnded ==
    /\ At(Closer, "awaiting polling") /\ pc[Srv] \in Ended
    /\ GoTo(Closer, "removing")
    /\ UNCHANGED <<managerVars, lock, taskVars, boundVars>>

CloseServer ==
    /\ At(Closer, "removing")
    /\ \E a \in closing.pools :
          IF Current(a) = NoEntry
          THEN /\ closing' = [closing EXCEPT !.pools = @ \ {a}]
               /\ UNCHANGED <<servers, entries, cancelled, pc>>
          ELSE /\ RemoveServer(a)
               /\ closing' = [closing EXCEPT !.pools = @ \ {a}, !.entry = Current(a)]
               /\ IF ClosesAtOnce(Current(a)) THEN UNCHANGED pc ELSE GoTo(Closer, "removing pool")
    /\ UNCHANGED <<state, description, lock, held, work, sync, boundVars>>

PoolClosed ==
    /\ At(Closer, "removing pool") /\ IsClosed(closing.entry)
    /\ servers' = [servers EXCEPT ![AddressOf(closing.entry)] = NoEntry]
    /\ GoTo(Closer, "removing")
    /\ UNCHANGED <<state, description, entries, lock, taskVars, boundVars>>

EndClose ==
    /\ At(Closer, "removing") /\ closing.pools = {}
    /\ GoTo(Closer, "done")
    /\ UNCHANGED <<managerVars, lock, taskVars, boundVars>>

-----------------------------------------------------------------------------
(* Next.                                                                   *)

\* The steps a task takes under the manager lock.
UnderLock(p) ==
    \/ Wake(p)
    \/ ProcessDescription(p)
    \/ SyncRemove(p) \/ SyncPoolClosed(p) \/ SyncAdd(p) \/ SyncWatch(p)
    \/ FinishError(p)

Opened == DOMAIN entries

MonitorStep(e) == Rest(e) \/ StartCheck(e) \/ CheckReturns(e) \/ FinishCheck(e)
MaintenanceStep(e) == Maintain(e) \/ Connected(e) \/ ConnectionFails(e) \/ EndMaintenance(e)
HandlerStep(h) == (\E a \in Addresses : Borrow(h, a)) \/ Succeed(h) \/ Report(h)
PollingStep == Rescan \/ ApplyRescan \/ FinishRescan \/ StopPolling
CloserStep ==
    \/ Close
    \/ AwaitMonitor \/ MonitorEnded
    \/ AwaitPolling \/ PollingEnded
    \/ CloseServer \/ PoolClosed \/ EndClose

Next ==
    \/ \E p \in Processes \ {Closer} : UnderLock(p)
    \/ \E e \in Opened : MonitorStep(e) \/ MaintenanceStep(e)
    \/ \E h \in Handlers : HandlerStep(h)
    \/ PollingStep
    \/ CloserStep

Spec == Init /\ [][Next]_vars

\* A task that can go on again and again does, and a check and an operation end.
\* Nothing makes an operation start or the manager close.
FairSpec ==
    /\ Spec
    /\ \A e \in Entries :
          /\ SF_vars(e \in Opened /\ (MonitorStep(e) \/ UnderLock(Monitor(e))))
          /\ SF_vars(e \in Opened /\ (MaintenanceStep(e) \/ UnderLock(Maintainer(e))))
    /\ \A h \in Handlers : SF_vars(Succeed(h) \/ Report(h) \/ UnderLock(h))
    /\ SF_vars(ApplyRescan \/ FinishRescan \/ StopPolling \/ UnderLock(Srv))
    /\ SF_vars(CloserStep /\ ~Close)

-----------------------------------------------------------------------------
(* Properties.                                                             *)

\* Every variable has its type.
TypeOK ==
    /\ state \in {"open", "closed_permanently"}
    /\ description \in Descriptions
    /\ servers \in [Addresses -> Opened \cup {NoEntry}]
    /\ \A e \in Opened :
          /\ entries[e].address \in Addresses
          /\ entries[e].pool \in {"paused", "ready", "closed"}
          /\ entries[e].generation \in Nat
          /\ entries[e].check \in Monitors \cup {Nobody}
          /\ entries[e].task \in {"none", "scheduled", "connecting", "reporting"}
    /\ \A i \in DOMAIN lock : lock[i] \in Processes \cup {Nobody}
    /\ held \in [Processes -> Opened \cup {NoEntry}]
    /\ cancelled \subseteq Monitors
    /\ failures \in 0 .. MaxFailures /\ rescans \in 0 .. MaxRescans

AtRest == state = "open" /\ lock = <<>> /\ Quiet

\* When nobody is at work on them, the servers of the manager are those of the
\* description.  This is about sync_servers, under updates and rescans.
ServersMatchDescription ==
    AtRest => \A a \in Addresses : Current(a) # NoEntry <=> Known(a)

AddedOnce(a) == Cardinality({e \in Opened : AddressOf(e) = a}) = 1

\* When nobody is at work on them, the description has the generation of each
\* pool: otherwise update would take old answers or ignore new ones.  It does not
\* hold of servers that were removed and added again.
DescriptionKnowsGenerations ==
    AtRest => \A a \in Addresses :
                 Known(a) /\ AddedOnce(a)
                    => description.servers[a].generation = entries[Current(a)].generation

\* The manager forgets no pool that it has not closed.  This is about
\* remove_server, which waits between the two.
NoPoolIsDropped ==
    \A e \in Opened : Quiet /\ Current(AddressOf(e)) # e => entries[e].pool = "closed"

\* When nobody is at work, every server has a monitor that goes on.  This is
\* about start_monitor, and about monitors that end by themselves.
EveryServerIsMonitored ==
    AtRest => \A a \in Addresses :
                 Current(a) # NoEntry => pc[Monitor(Current(a))] \notin {"idle"} \cup Ended

\* A close ends.  This is about the tasks it awaits.
CloseEnds == state = "closed_permanently" ~> pc[Closer] = "done"

\* The pool of a server that has failed is ready again, once it answers.  This is
\* about ready_pool and about checks that are discarded.
PoolsRecover ==
    \A a \in Addresses :
        state = "open" ~> state = "closed_permanently" \/ entries[Current(a)].pool = "ready"

\* close() "returns true for the first close" (docs/API.md), so it awaits no monitor
\* that awaits a task that waits for the monitor's lock.
CloseIsNotStuck ==
    ~ \E p \in Processes :
        /\ pc[p] = "syncing pool" /\ pc[Closer] = "awaiting monitor"
        /\ closing.entry \in Opened /\ p = Monitor(closing.entry)
        /\ \E i \in DOMAIN lock : i > 1 /\ lock[i] = Maintainer(sync.pool)
        /\ ~entries[sync.pool].eclipsed
=============================================================================
