-------------------------------- MODULE Pool --------------------------------
(***************************************************************************)
(* The connection pool of one server (src/src/mongodb/pool.lua).           *)
(*                                                                         *)
(* Copas coroutines run it: callers that check connections out and in,     *)
(* background maintenance tasks, and controllers (the topology manager or  *)
(* the client) that ready, clear and close the pool.  No code between an   *)
(* acquire and the release of the pool lock yields, so a lock section is   *)
(* one action.  Between lock sections the code yields: to listeners, to    *)
(* the injected connect, to closing sockets and to sleeps.  Every such gap *)
(* is a pc of the process that is in it.                                   *)
(***************************************************************************)
EXTENDS Integers, Sequences, FiniteSets, SequencesExt

CONSTANTS
    Callers,        \* coroutines that check connections out
    Tasks,          \* slots for live maintenance tasks (bounds how many)
    Controllers,    \* coroutines that ready, clear and close the pool
    Conns,          \* connection objects (bounds how many exist at once)
    NoConn,
    Services,       \* service ids of a load balancer; {} when not balanced
    NoService,
    Purposes,       \* checkout purposes: cursor, transaction, other
    NoPurpose,
    NoTask,
    MaxPoolSize,    \* 0 means no limit
    MinPoolSize,
    MaxConnecting,
    MaxGeneration,  \* bounds the number of clears
    WholeClears,    \* does anybody clear the whole pool, not one service?
    Ageing          \* may an available connection be idle too long or dead?

Procs == Callers \cup Tasks \cup Controllers

ASSUME ProcsDisjoint ==
    /\ Callers \cap Tasks = {}
    /\ Callers \cap Controllers = {}
    /\ Tasks \cap Controllers = {}

ASSUME SetsFinite == IsFiniteSet(Procs) /\ IsFiniteSet(Conns)

ASSUME NullsDistinct ==
    /\ NoConn \notin Conns
    /\ NoService \notin Services
    /\ NoPurpose \notin Purposes
    /\ NoTask \notin Tasks

\* validate_options: sizes are natural, max_connecting is positive and
\* min_pool_size does not exceed a limited max_pool_size.
ASSUME OptionsValid ==
    /\ MaxPoolSize \in Nat
    /\ MinPoolSize \in Nat
    /\ MaxConnecting \in Nat \ {0}
    /\ MaxPoolSize > 0 => MinPoolSize <= MaxPoolSize

ASSUME BoundsValid == MaxGeneration \in Nat /\ {Ageing, WholeClears} \subseteq BOOLEAN

\* What a completed handshake reports as the service of its connection.
ServiceIds == IF Services = {} THEN {NoService} ELSE Services

VARIABLES
    state,               \* paused, ready or closed
    generation,          \* counts the clears of the whole pool
    service_generations, \* counts the clears that reached a known service
    available,           \* connections that wait to be checked out
    wait_queue,          \* callers that wait, first come first served
    evicted,             \* why clear or close evicted a waiter, or "no"
    pending_count,
    in_use_count,
    total_count,
    operation_count,     \* callers between enqueueing and failure or check-in
    checkout_purposes,   \* how many connections each purpose has checked out
    maintenance_scheduled,
    maintenance_task,    \* the task spawned last
    conn_state,          \* none, pending, available, in_use or closed
    conn_generation,
    conn_service,
    checkout_purpose,    \* of a connection
    errored,
    interrupted,
    setup_cancelled,     \* setup_cancellation of a connection
    resource,            \* its socket: none, open or closed
    pc,                  \* where a process is between two lock sections
    conn,                \* the connection a process is working with
    purpose,             \* the purpose argument of a caller's check_out
    closing,             \* connections a process has still to finish_close
    cutting,             \* in-use sockets a clear has still to interrupt
    closes,              \* history: ConnectionClosed events of a connection
    born                 \* history: pool generation when it was created

poolVars == <<state, generation, service_generations>>
queueVars == <<wait_queue, evicted>>
countVars == <<pending_count, in_use_count, total_count>>
checkoutVars == <<operation_count, checkout_purposes, checkout_purpose>>
taskVars == <<maintenance_scheduled, maintenance_task>>
connVars == <<conn_generation, conn_service, errored, interrupted,
              setup_cancelled, born>>
closeVars == <<resource, closing, cutting, closes>>
procVars == <<pc, conn, purpose>>
vars == <<poolVars, queueVars, countVars, checkoutVars, taskVars, connVars,
          closeVars, procVars, available, conn_state>>

-----------------------------------------------------------------------------
(* The tables of the code, read off conn_state, and its queries.           *)

pending == {c \in Conns : conn_state[c] = "pending"}
in_use == {c \in Conns : conn_state[c] = "in_use"}
connections == {c \in Conns : conn_state[c] \notin {"none", "closed"}}

GenerationFor(s) == IF s = NoService THEN generation ELSE service_generations[s]

IsCurrent(c) == conn_generation[c] = GenerationFor(conn_service[c])

\* Stale for certain; idle too long or closed by its peer as the clock and the
\* peer decide.
MayBePerished(c) == ~IsCurrent(c) \/ Ageing

MatchesService(c, s) == s = NoService \/ conn_service[c] = s

\* Faulty variant: a pool one connection too large.
UnderLimitOrEqual(total) == MaxPoolSize = 0 \/ total <= MaxPoolSize
UnderLimit(total) == MaxPoolSize = 0 \/ total < MaxPoolSize

\* A process has closed every socket its last lock section left it to close.
Settled(p) == closing[p] = {} /\ cutting[p] = {}

Init ==
    /\ state = "paused"
    /\ generation = 0
    /\ service_generations = [s \in Services |-> 0]
    /\ available = {}
    /\ wait_queue = <<>>
    /\ evicted = [p \in Callers |-> "no"]
    /\ pending_count = 0
    /\ in_use_count = 0
    /\ total_count = 0
    /\ operation_count = 0
    /\ checkout_purposes = [x \in Purposes |-> 0]
    /\ maintenance_scheduled = FALSE
    /\ maintenance_task = NoTask
    /\ conn_state = [c \in Conns |-> "none"]
    /\ conn_generation = [c \in Conns |-> 0]
    /\ conn_service = [c \in Conns |-> NoService]
    /\ checkout_purpose = [c \in Conns |-> NoPurpose]
    /\ errored = {}
    /\ interrupted = {}
    /\ setup_cancelled = {}
    /\ resource = [c \in Conns |-> "none"]
    /\ pc = [p \in Procs |-> "idle"]
    /\ conn = [p \in Procs |-> NoConn]
    /\ purpose = [p \in Callers |-> NoPurpose]
    /\ closing = [p \in Procs |-> {}]
    /\ cutting = [p \in Procs |-> {}]
    /\ closes = [c \in Conns |-> 0]
    /\ born = [c \in Conns |-> 0]

-----------------------------------------------------------------------------
(* Steps that lock sections are made of.                                   *)

MoveTo(p, label) == pc' = [pc EXCEPT ![p] = label]

\* schedule_maintenance: p moves on to label, and a maintenance task is spawned
\* unless one is scheduled already or the pool is closed.
Schedule(p, label) ==
    IF maintenance_scheduled \/ state = "closed"
    THEN MoveTo(p, label) /\ UNCHANGED taskVars
    ELSE \E t \in Tasks :
            /\ pc[t] = "idle" \/ (t = p /\ label = "idle")
            /\ pc' = [pc EXCEPT ![p] = label, ![t] = "scheduled"]
            /\ maintenance_scheduled' = TRUE
            /\ maintenance_task' = t

\* Faulty variant: a caller that leaves forgets its place in the queue.
KeepWaiter(p) ==
    /\ p \in Range(wait_queue)
    /\ evicted' = [evicted EXCEPT ![p] = "no"]
    /\ UNCHANGED wait_queue

RemoveWaiter(p) ==
    /\ \E i \in DOMAIN wait_queue :
          wait_queue[i] = p /\ wait_queue' = RemoveAt(wait_queue, i)
    /\ evicted' = [evicted EXCEPT ![p] = "no"]

\* detach_locked of available connections, which p will finish_close once it
\* has released the lock.  Conjoined with the new state of one connection c.
Detach(p, culled, c, label) ==
    /\ conn_state' = [x \in Conns |-> IF x \in culled THEN "closed"
                                      ELSE IF x = c THEN label ELSE conn_state[x]]
    /\ closing' = [closing EXCEPT ![p] = @ \cup culled]
    /\ UNCHANGED <<resource, cutting, closes>>

\* new_connection_locked, after `culled` connections have left the pool.
NewConnection(p, c, culled) ==
    /\ conn_state[c] = "none"
    /\ Detach(p, culled, c, "pending")
    /\ available' = available \ culled
    /\ conn' = [conn EXCEPT ![p] = c]
    /\ conn_generation' = [conn_generation EXCEPT ![c] = generation]
    /\ born' = [born EXCEPT ![c] = generation]
    /\ pending_count' = pending_count + 1
    /\ total_count' = total_count - Cardinality(culled) + 1
    /\ UNCHANGED <<in_use_count, conn_service, errored, interrupted, setup_cancelled>>

\* apply_connection_info: the generation of the moment the handshake ended.
ApplyConnectionInfo(c, s) ==
    /\ conn_service' = [conn_service EXCEPT ![c] = s]
    /\ conn_generation' = [conn_generation EXCEPT ![c] = GenerationFor(s)]
    /\ UNCHANGED <<errored, interrupted, setup_cancelled, born>>

BeginCheckout(c, x) ==
    /\ checkout_purpose' = [checkout_purpose EXCEPT ![c] = x]
    /\ checkout_purposes' = [checkout_purposes EXCEPT ![x] = @ + 1]

\* checkout_failed of a caller that operation_count counts.
CheckOutFailed(p) ==
    /\ MoveTo(p, "idle")
    /\ operation_count' = operation_count - 1
    /\ purpose' = [purpose EXCEPT ![p] = NoPurpose]
    /\ UNCHANGED <<checkout_purposes, checkout_purpose>>

-----------------------------------------------------------------------------
(* finish_close and close_resource, outside the lock.                      *)

FinishClose(p, c) ==
    /\ c \in closing[p]
    /\ closing' = [closing EXCEPT ![p] = @ \ {c}]
    /\ closes' = [closes EXCEPT ![c] = @ + 1]
    /\ resource' = [resource EXCEPT ![c] = "closed"]
    /\ UNCHANGED <<poolVars, queueVars, countVars, checkoutVars, taskVars, connVars,
                   procVars, cutting, available, conn_state>>

\* The second loop of clear: the socket of an in-use connection is closed
\* unless finish_close was faster; the checkout stays with its owner.
CutResource(p, c) ==
    /\ closing[p] = {}
    /\ c \in cutting[p]
    /\ cutting' = [cutting EXCEPT ![p] = @ \ {c}]
    /\ resource' = [resource EXCEPT ![c] = "closed"]
    /\ UNCHANGED <<poolVars, queueVars, countVars, checkoutVars, taskVars, connVars,
                   procVars, closing, closes, available, conn_state>>

-----------------------------------------------------------------------------
(* check_out.  The failures before a waiter is queued change no state.     *)

CheckOut(p) ==
    /\ pc[p] = "idle" /\ Settled(p)
    /\ state = "ready"
    /\ \E x \in Purposes : purpose' = [purpose EXCEPT ![p] = x]
    /\ MoveTo(p, "waiting")
    /\ wait_queue' = Append(wait_queue, p)
    /\ operation_count' = operation_count + 1
    /\ UNCHANGED <<poolVars, evicted, countVars, checkout_purposes, checkout_purpose,
                   taskVars, connVars, closeVars, conn, available, conn_state>>

\* A turn of the polling loop begins, all sockets of the last turn closed.
Polls(p) == pc[p] = "waiting" /\ Settled(p)

\* The deadline passed or the operation was cancelled.
GiveUp(p) ==
    /\ Polls(p)
    /\ RemoveWaiter(p)
    /\ CheckOutFailed(p)
    /\ UNCHANGED <<poolVars, countVars, taskVars, connVars, closeVars, conn,
                   available, conn_state>>

LeaveEvicted(p) ==
    /\ Polls(p)
    /\ evicted[p] # "no"
    /\ RemoveWaiter(p)
    /\ CheckOutFailed(p)
    /\ UNCHANGED <<poolVars, countVars, taskVars, connVars, closeVars, conn,
                   available, conn_state>>

\* Faulty variant: any waiter is served, as in a pool without a queue.
IsServedAnyhow(p) == Polls(p) /\ evicted[p] = "no"

IsServed(p) ==
    /\ Polls(p)
    /\ evicted[p] = "no"
    /\ Head(wait_queue) = p

\* The first available connection that has not perished, after those that have.
TakeAvailable(p) ==
    /\ IsServed(p)
    /\ \E culled \in SUBSET {c \in available : MayBePerished(c)} :
       \E c \in available \ culled :
          /\ IsCurrent(c)
          /\ Detach(p, culled, c, "in_use")
          /\ available' = available \ (culled \cup {c})
          /\ total_count' = total_count - Cardinality(culled)
          /\ in_use_count' = in_use_count + 1
          /\ conn' = [conn EXCEPT ![p] = c]
          /\ BeginCheckout(c, purpose[p])
    /\ RemoveWaiter(p)
    /\ MoveTo(p, "taking")
    /\ UNCHANGED <<poolVars, pending_count, operation_count, taskVars, connVars, purpose>>

\* No connection is available and the limits allow to create one.
OpenConnection(p) ==
    /\ IsServed(p)
    /\ \A c \in available : MayBePerished(c)
    /\ UnderLimit(total_count - Cardinality(available))
    /\ pending_count < MaxConnecting
    /\ \E c \in Conns : NewConnection(p, c, available)
    /\ RemoveWaiter(p)
    /\ MoveTo(p, "opening")
    /\ UNCHANGED <<poolVars, checkoutVars, taskVars, purpose>>

\* Every available connection has perished but the limits forbid another one.
CullOnly(p) ==
    /\ IsServed(p)
    /\ available # {}
    /\ \A c \in available : MayBePerished(c)
    /\ ~(UnderLimit(total_count - Cardinality(available)) /\ pending_count < MaxConnecting)
    /\ Detach(p, available, NoConn, "closed")
    /\ available' = {}
    /\ total_count' = total_count - Cardinality(available)
    /\ UNCHANGED <<poolVars, queueVars, pending_count, in_use_count, checkoutVars,
                   taskVars, connVars, procVars>>

\* The operation is cancelled while its connection is being established.
CancelSetup(p) ==
    /\ pc[p] = "opening" /\ p \in Callers
    /\ setup_cancelled' = setup_cancelled \cup {conn[p]}
    /\ UNCHANGED <<poolVars, queueVars, countVars, checkoutVars, taskVars, closeVars,
                   procVars, conn_generation, conn_service, errored, interrupted, born,
                   available, conn_state>>

\* check_out hands the connection over once it has closed the perished ones.
Taken(p) ==
    /\ pc[p] = "taking" /\ Settled(p)
    /\ MoveTo(p, "lent")
    /\ purpose' = [purpose EXCEPT ![p] = NoPurpose]
    /\ UNCHANGED <<poolVars, queueVars, countVars, checkoutVars, taskVars, connVars,
                   closeVars, conn, available, conn_state>>

\* begin_checkout_locked of a new connection, in a lock section after the one
\* in which establish counted it as in use.
BindConnection(p) ==
    /\ pc[p] = "binding"
    /\ BeginCheckout(conn[p], purpose[p])
    /\ Schedule(p, "lent")
    /\ purpose' = [purpose EXCEPT ![p] = NoPurpose]
    /\ UNCHANGED <<poolVars, queueVars, countVars, operation_count, connVars, closeVars,
                   conn, available, conn_state>>

\* establish failed; its connection is closed by now.
FailCheckOut(p) ==
    /\ pc[p] = "failed" /\ Settled(p)
    /\ CheckOutFailed(p)
    /\ UNCHANGED <<poolVars, queueVars, countVars, taskVars, connVars, closeVars, conn,
                   available, conn_state>>

-----------------------------------------------------------------------------
(* establish, for callers (target in_use) and tasks (target available).    *)

\* connect is called once the perished connections are closed.
Connects(p) == pc[p] = "opening" /\ Settled(p)

\* Faulty variant: the slot in max_connecting is not released.
DropPendingOnly(c) ==
    /\ conn_state' = [conn_state EXCEPT ![c] = "closed"]
    /\ total_count' = total_count - 1
    /\ UNCHANGED <<pending_count, in_use_count, available>>

\* A connection that leaves "pending" because it cannot be used.
DropPending(c) ==
    /\ conn_state' = [conn_state EXCEPT ![c] = "closed"]
    /\ pending_count' = pending_count - 1
    /\ total_count' = total_count - 1
    /\ UNCHANGED <<in_use_count, available>>

\* connect returned an error, of a handshake that may have named a service.
\* on_connection_error is called before finish_close.
ConnectFails(p) ==
    /\ Connects(p)
    /\ \E s \in ServiceIds \cup {NoService} : ApplyConnectionInfo(conn[p], s)
    /\ DropPending(conn[p])
    /\ MoveTo(p, "reporting")
    /\ UNCHANGED <<poolVars, queueVars, checkoutVars, taskVars, closeVars, conn, purpose>>

\* connect returned a resource and the pool can use it.  That the connection is
\* current goes without saying: it just took the generation of this moment.
ConnectSucceeds(p) ==
    LET c == conn[p] IN
    /\ Connects(p)
    /\ state = "ready"
    /\ c \notin setup_cancelled
    /\ \E s \in ServiceIds : ApplyConnectionInfo(c, s)
    /\ resource' = [resource EXCEPT ![c] = "open"]
    /\ pending_count' = pending_count - 1
    /\ \/ /\ p \in Callers
          /\ conn_state' = [conn_state EXCEPT ![c] = "in_use"]
          /\ in_use_count' = in_use_count + 1
          /\ MoveTo(p, "binding")
          /\ UNCHANGED <<conn, available>>
       \/ /\ p \in Tasks
          /\ conn_state' = [conn_state EXCEPT ![c] = "available"]
          /\ available' = available \cup {c}
          /\ conn' = [conn EXCEPT ![p] = NoConn]
          /\ MoveTo(p, "filling")
          /\ UNCHANGED in_use_count
    /\ UNCHANGED <<poolVars, queueVars, total_count, checkoutVars, taskVars, closing,
                   cutting, closes, purpose>>

\* connect returned a resource, but the pool was cleared or closed or the setup
\* cancelled in the meantime: establish closes it and fails.
ConnectUnusable(p) ==
    LET c == conn[p] IN
    /\ Connects(p)
    /\ state # "ready" \/ c \in setup_cancelled
    /\ \E s \in ServiceIds : ApplyConnectionInfo(c, s)
    /\ resource' = [resource EXCEPT ![c] = "open"]
    /\ DropPending(c)
    /\ closing' = [closing EXCEPT ![p] = {c}]
    /\ conn' = [conn EXCEPT ![p] = NoConn]
    /\ MoveTo(p, IF p \in Callers THEN "failed" ELSE "reporting")
    /\ UNCHANGED <<poolVars, queueVars, checkoutVars, taskVars, cutting, closes, purpose>>

\* on_connection_error has returned to a caller.  What the topology does to the
\* pool in it are the controllers' actions.
CallerReported(p) ==
    /\ pc[p] = "reporting" /\ p \in Callers
    /\ closing' = [closing EXCEPT ![p] = {conn[p]}]
    /\ conn' = [conn EXCEPT ![p] = NoConn]
    /\ MoveTo(p, "failed")
    /\ UNCHANGED <<poolVars, queueVars, countVars, checkoutVars, taskVars, connVars,
                   resource, cutting, closes, purpose, available, conn_state>>

-----------------------------------------------------------------------------
(* check_in and mark_error.                                                *)

MarkError(p) ==
    /\ pc[p] = "lent"
    /\ conn_state[conn[p]] # "closed"
    /\ errored' = errored \cup {conn[p]}
    /\ UNCHANGED <<poolVars, queueVars, countVars, checkoutVars, taskVars, closeVars,
                   procVars, conn_generation, conn_service, interrupted, setup_cancelled,
                   born, available, conn_state>>

\* Faulty variants: check_in overlooks a clear, or a close.
DiscardsErrored(c) == state = "closed" \/ c \in errored
DiscardsStale(c) == ~IsCurrent(c) \/ c \in errored

\* Why check_in closes the connection instead of keeping it.
Discards(c) == state = "closed" \/ ~IsCurrent(c) \/ c \in errored

\* The branch of a connection closed while it was lent is never taken: see
\* LoansAreExclusive.
CheckIn(p) ==
    LET c == conn[p] IN
    /\ pc[p] = "lent"
    /\ conn_state[c] = "in_use"
    /\ operation_count' = operation_count - 1
    /\ checkout_purposes' = [checkout_purposes EXCEPT ![checkout_purpose[c]] = @ - 1]
    /\ checkout_purpose' = [checkout_purpose EXCEPT ![c] = NoPurpose]
    /\ in_use_count' = in_use_count - 1
    /\ IF Discards(c)
       THEN /\ conn_state' = [conn_state EXCEPT ![c] = "closed"]
            /\ total_count' = total_count - 1
            /\ closing' = [closing EXCEPT ![p] = {c}]
            /\ UNCHANGED available
       ELSE /\ conn_state' = [conn_state EXCEPT ![c] = "available"]
            /\ available' = available \cup {c}
            /\ UNCHANGED <<total_count, closing>>
    /\ conn' = [conn EXCEPT ![p] = NoConn]
    /\ MoveTo(p, "settling")
    /\ UNCHANGED <<poolVars, queueVars, pending_count, taskVars, connVars, resource,
                   cutting, closes, purpose>>

\* The sockets are closed; schedule_maintenance is the last call of check_in,
\* ready, clear and a failed maintain.
Settle(p) ==
    /\ pc[p] = "settling" /\ Settled(p)
    /\ Schedule(p, "idle")
    /\ UNCHANGED <<poolVars, queueVars, countVars, checkoutVars, connVars, closeVars,
                   conn, purpose, available, conn_state>>

-----------------------------------------------------------------------------
(* ready, clear and close.                                                 *)

Ready(k) ==
    /\ pc[k] = "idle" /\ k \in Controllers
    /\ state = "paused"
    /\ state' = "ready"
    /\ MoveTo(k, "settling")
    /\ UNCHANGED <<generation, service_generations, queueVars, countVars, checkoutVars,
                   taskVars, connVars, closeVars, conn, purpose, available, conn_state>>

\* Faulty variant: only the caller at the head of the queue is told.
EvictHead(reason) ==
    evicted' = [q \in Callers |-> IF wait_queue # <<>> /\ q = Head(wait_queue)
                                 THEN reason ELSE evicted[q]]

Evict(reason) ==
    evicted' = [q \in Callers |-> IF q \in Range(wait_queue) THEN reason ELSE evicted[q]]

\* Faulty variants: connections in use are collected, too; a clear of one service
\* leaves its connections where they are.
GoneAnyhow(s) == {c \in available \cup in_use : MatchesService(c, s)}
GoneIfWhole(s) == {c \in available : s = NoService}

\* The connections a clear of s (NoService: of everything) closes at once.
Gone(s) == {c \in available : MatchesService(c, s)}

\* collect_available_locked.  `cut` are the connections in use that p interrupts.
Collect(p, s, cut) ==
    /\ available' = available \ Gone(s)
    /\ conn_state' = [c \in Conns |-> IF c \in Gone(s) THEN "closed" ELSE conn_state[c]]
    /\ total_count' = total_count - Cardinality(Gone(s))
    /\ closing' = [closing EXCEPT ![p] = Gone(s)]
    /\ cutting' = [cutting EXCEPT ![p] = {c \in cut : resource[c] # "closed"}]
    /\ UNCHANGED <<pending_count, in_use_count, resource, closes>>

\* The in-use connections that an interrupting clear of s reaches.
Interruptible(s) ==
    {c \in in_use : MatchesService(c, s) /\ conn_generation[c] <= GenerationFor(s)}

\* clear of the whole pool, in the lock section.
ClearPool(p, interrupt) ==
    LET cut == IF interrupt THEN Interruptible(NoService) ELSE {} IN
    /\ WholeClears
    /\ state # "closed"
    /\ generation < MaxGeneration
    /\ generation' = generation + 1
    /\ service_generations' = [s \in Services |->
          IF service_generations[s] = 0 THEN 0 ELSE service_generations[s] + 1]
    /\ state' = "paused"
    /\ Evict("connectionError")
    /\ Collect(p, NoService, cut)
    /\ interrupted' = interrupted \cup cut
    /\ setup_cancelled' = setup_cancelled \cup (IF interrupt THEN pending ELSE {})
    /\ UNCHANGED <<wait_queue, conn_generation, conn_service, errored, born>>

\* clear of one service leaves the other services and the waiters alone.
ClearService(p, s, interrupt) ==
    LET cut == IF interrupt THEN Interruptible(s) ELSE {} IN
    /\ state # "closed"
    /\ service_generations[s] < MaxGeneration
    /\ service_generations' = [service_generations EXCEPT ![s] = @ + 1]
    /\ Collect(p, s, cut)
    /\ interrupted' = interrupted \cup cut
    /\ UNCHANGED <<state, generation, queueVars, conn_generation, conn_service, errored,
                   setup_cancelled, born>>

Clear(k) ==
    /\ pc[k] = "idle" /\ k \in Controllers
    /\ \E interrupt \in BOOLEAN :
          \/ ClearPool(k, interrupt)
          \/ \E s \in Services : ClearService(k, s, interrupt)
    /\ MoveTo(k, "settling")
    /\ UNCHANGED <<checkoutVars, taskVars, conn, purpose>>

Close(k) ==
    /\ pc[k] = "idle" /\ k \in Controllers
    /\ state # "closed"
    /\ state' = "closed"
    /\ Evict("poolClosed")
    /\ Collect(k, NoService, {})
    /\ setup_cancelled' = setup_cancelled \cup pending
    /\ MoveTo(k, "awaiting")
    /\ UNCHANGED <<generation, service_generations, wait_queue, checkoutVars, taskVars,
                   conn_generation, conn_service, errored, interrupted, born, conn, purpose>>

\* Faulty variant: close waits for the connections in use.
CloseReturnsDrained(k) ==
    /\ pc[k] = "awaiting" /\ Settled(k)
    /\ in_use = {}
    /\ MoveTo(k, "idle")
    /\ UNCHANGED <<poolVars, queueVars, countVars, checkoutVars, taskVars, connVars,
                   closeVars, conn, purpose, available, conn_state>>

\* close awaits the task that was spawned last (none is spawned any more) and
\* publishes ConnectionPoolClosed.
CloseReturns(k) ==
    /\ pc[k] = "awaiting" /\ Settled(k)
    /\ maintenance_task # NoTask => pc[maintenance_task] = "idle"
    /\ MoveTo(k, "idle")
    /\ UNCHANGED <<poolVars, queueVars, countVars, checkoutVars, taskVars, connVars,
                   closeVars, conn, purpose, available, conn_state>>

-----------------------------------------------------------------------------
(* maintain, run by a task that schedule_maintenance spawned.              *)

\* Close every perished connection; only a ready pool is filled afterwards.
MaintainStart(t) ==
    /\ pc[t] = "scheduled"
    /\ maintenance_scheduled' = FALSE
    /\ \E culled \in SUBSET {c \in available : MayBePerished(c)} :
          /\ {c \in available : ~IsCurrent(c)} \subseteq culled
          /\ Detach(t, culled, NoConn, "closed")
          /\ available' = available \ culled
          /\ total_count' = total_count - Cardinality(culled)
    /\ MoveTo(t, IF state = "ready" THEN "filling" ELSE "ending")
    /\ UNCHANGED <<poolVars, queueVars, pending_count, in_use_count, checkoutVars,
                   maintenance_task, connVars, conn, purpose>>

NeedsConnection ==
    /\ state = "ready"
    /\ total_count < MinPoolSize
    /\ UnderLimit(total_count)
    /\ pending_count < MaxConnecting

MaintainOpen(t) ==
    /\ pc[t] = "filling" /\ Settled(t)
    /\ NeedsConnection
    /\ \E c \in Conns : NewConnection(t, c, {})
    /\ MoveTo(t, "opening")
    /\ UNCHANGED <<poolVars, queueVars, checkoutVars, taskVars, purpose>>

MaintainEnd(t) ==
    /\ Settled(t)
    /\ \/ pc[t] = "ending"
       \/ pc[t] = "filling" /\ ~NeedsConnection
    /\ MoveTo(t, "idle")
    /\ UNCHANGED <<poolVars, queueVars, countVars, checkoutVars, taskVars, connVars,
                   closeVars, conn, purpose, available, conn_state>>

\* Faulty variants: the task forgets the connection; it closes even a missing one.
ForgetFailed(t) ==
    /\ conn' = [conn EXCEPT ![t] = NoConn]
    /\ UNCHANGED closing

CloseAnyFailed(t) ==
    /\ closing' = [closing EXCEPT ![t] = {conn[t]}]
    /\ conn' = [conn EXCEPT ![t] = NoConn]

\* finish_close of the failed connection of a task, unless establish did it.
CloseFailed(t) ==
    /\ closing' = [closing EXCEPT ![t] = {conn[t]} \ {NoConn}]
    /\ conn' = [conn EXCEPT ![t] = NoConn]

\* on_connection_error decided, or there is nothing left to clear.
TaskReported(t) ==
    /\ pc[t] = "reporting" /\ t \in Tasks /\ Settled(t)
    /\ CloseFailed(t)
    /\ MoveTo(t, "settling")
    /\ UNCHANGED <<poolVars, queueVars, countVars, checkoutVars, taskVars, connVars,
                   resource, cutting, closes, purpose, available, conn_state>>

\* on_connection_error made no decision: the task clears the pool itself.  It
\* needs a slot for the next task later on, so one task does this at a time.
TaskClears(t) ==
    /\ pc[t] = "reporting" /\ t \in Tasks /\ Settled(t)
    /\ \A u \in Tasks : pc[u] # "clearing"
    /\ ClearPool(t, FALSE)
    /\ MoveTo(t, "clearing")
    /\ UNCHANGED <<checkoutVars, taskVars, conn, purpose>>

TaskCleared(t) ==
    /\ pc[t] = "clearing" /\ Settled(t)
    /\ Schedule(t, "settling")
    /\ CloseFailed(t)
    /\ UNCHANGED <<poolVars, queueVars, countVars, checkoutVars, connVars, resource,
                   cutting, closes, purpose, available, conn_state>>

-----------------------------------------------------------------------------
(* Lua collects a closed connection that no coroutine refers to any more;  *)
(* its object may then stand for a new connection.                         *)

Unreferenced(c) ==
    \A p \in Procs : conn[p] # c /\ c \notin closing[p] /\ c \notin cutting[p]

GarbageCollect(c) ==
    /\ conn_state[c] = "closed"
    /\ Unreferenced(c)
    /\ conn_state' = [conn_state EXCEPT ![c] = "none"]
    /\ conn_generation' = [conn_generation EXCEPT ![c] = 0]
    /\ conn_service' = [conn_service EXCEPT ![c] = NoService]
    /\ errored' = errored \ {c}
    /\ interrupted' = interrupted \ {c}
    /\ setup_cancelled' = setup_cancelled \ {c}
    /\ resource' = [resource EXCEPT ![c] = "none"]
    /\ closes' = [closes EXCEPT ![c] = 0]
    /\ born' = [born EXCEPT ![c] = 0]
    /\ UNCHANGED <<poolVars, queueVars, countVars, checkoutVars, taskVars, closing,
                   cutting, procVars, available>>

\* A closed pool that everybody has left.
Terminated ==
    /\ state = "closed"
    /\ \A p \in Procs : pc[p] = "idle" /\ Settled(p)
    /\ UNCHANGED vars

CallerStep(p) ==
    \/ GiveUp(p) \/ LeaveEvicted(p)
    \/ TakeAvailable(p) \/ OpenConnection(p) \/ CullOnly(p)
    \/ Taken(p) \/ BindConnection(p) \/ FailCheckOut(p)
    \/ CallerReported(p)

TaskStep(t) ==
    \/ MaintainStart(t) \/ MaintainOpen(t) \/ MaintainEnd(t)
    \/ TaskReported(t) \/ TaskClears(t) \/ TaskCleared(t)

\* What a coroutine does without being asked by anybody.
Establish(p) == ConnectFails(p) \/ ConnectSucceeds(p) \/ ConnectUnusable(p)
CloseStep(p) == \E c \in Conns : FinishClose(p, c) \/ CutResource(p, c)

Next ==
    \/ \E p \in Callers :
          \/ CheckOut(p) \/ CallerStep(p) \/ CancelSetup(p)
          \/ MarkError(p) \/ CheckIn(p)
    \/ \E t \in Tasks : TaskStep(t)
    \/ \E k \in Controllers : Ready(k) \/ Clear(k) \/ Close(k) \/ CloseReturns(k)
    \/ \E p \in Callers \cup Tasks : Establish(p)
    \/ \E p \in Procs : CloseStep(p) \/ Settle(p)
    \/ \E c \in Conns : GarbageCollect(c)
    \/ Terminated

Spec == Init /\ [][Next]_vars

-----------------------------------------------------------------------------
(* Fairness.  Copas resumes every runnable coroutine, sockets close, connect *)
(* returns (it has a deadline or can be cancelled), and callbacks return.   *)
(* Nobody has to ready, clear or close a pool, to ask for a connection, to  *)
(* return one, or to have a deadline.                                       *)

Fairness ==
    /\ \A p \in Callers :
          /\ WF_vars(LeaveEvicted(p))
          /\ WF_vars(TakeAvailable(p) \/ OpenConnection(p) \/ CullOnly(p))
          /\ WF_vars(Taken(p) \/ BindConnection(p) \/ FailCheckOut(p) \/ CallerReported(p))
    /\ \A t \in Tasks : WF_vars(TaskStep(t))
    /\ \A k \in Controllers : WF_vars(CloseReturns(k))
    /\ \A p \in Callers \cup Tasks : WF_vars(Establish(p))
    /\ \A p \in Procs : WF_vars(CloseStep(p)) /\ WF_vars(Settle(p))
    /\ \A c \in Conns : WF_vars(GarbageCollect(c))

FairSpec == Spec /\ Fairness

\* Besides, whoever has a connection returns it.
ReturningSpec == FairSpec /\ \A p \in Callers : WF_vars(CheckIn(p))

-----------------------------------------------------------------------------
(* Properties.                                                             *)

CallerPCs == {"idle", "waiting", "taking", "opening", "binding", "lent", "reporting",
              "failed", "settling"}
TaskPCs == {"idle", "scheduled", "filling", "opening", "reporting", "clearing",
            "settling", "ending"}
ControllerPCs == {"idle", "settling", "awaiting"}

PoolTypes ==
    /\ state \in {"paused", "ready", "closed"}
    /\ generation \in Nat
    /\ service_generations \in [Services -> Nat]

QueueTypes ==
    /\ wait_queue \in Seq(Callers)
    /\ evicted \in [Callers -> {"no", "connectionError", "poolClosed"}]

CountTypes == pending_count \in Int /\ in_use_count \in Int /\ total_count \in Int

CheckoutTypes ==
    /\ operation_count \in Int
    /\ checkout_purposes \in [Purposes -> Int]
    /\ checkout_purpose \in [Conns -> Purposes \cup {NoPurpose}]

TaskTypes == maintenance_scheduled \in BOOLEAN /\ maintenance_task \in Tasks \cup {NoTask}

ConnTypes ==
    /\ conn_generation \in [Conns -> Nat]
    /\ conn_service \in [Conns -> Services \cup {NoService}]
    /\ errored \subseteq Conns
    /\ interrupted \subseteq Conns
    /\ setup_cancelled \subseteq Conns
    /\ born \in [Conns -> Nat]

StateTypes ==
    /\ available \subseteq Conns
    /\ conn_state \in [Conns -> {"none", "pending", "available", "in_use", "closed"}]

CloseTypes ==
    /\ resource \in [Conns -> {"none", "open", "closed"}]
    /\ closing \in [Procs -> SUBSET Conns]
    /\ cutting \in [Procs -> SUBSET Conns]
    /\ closes \in [Conns -> Nat]

ProcTypes ==
    /\ pc \in [Procs -> CallerPCs \cup TaskPCs \cup ControllerPCs]
    /\ \A p \in Callers : pc[p] \in CallerPCs
    /\ \A t \in Tasks : pc[t] \in TaskPCs
    /\ \A k \in Controllers : pc[k] \in ControllerPCs
    /\ conn \in [Procs -> Conns \cup {NoConn}]
    /\ purpose \in [Callers -> Purposes \cup {NoPurpose}]

\* Every variable has values of its kind.
TypeOK ==
    /\ PoolTypes /\ QueueTypes /\ CountTypes /\ CheckoutTypes /\ TaskTypes
    /\ ConnTypes /\ StateTypes /\ CloseTypes /\ ProcTypes

\* Callers that operation_count counts, and connections checked out for x.
Counted == {p \in Callers : pc[p] \notin {"idle", "settling"}}
CheckedOutFor(x) == {c \in Conns : checkout_purpose[c] = x}

\* Every counter agrees with what it counts, whatever way a connection or a
\* caller left: setup failure, check-in, clear, maintenance, close, deadline or
\* cancellation release their capacity exactly once.
CountersAgree ==
    /\ pending_count = Cardinality(pending)
    /\ in_use_count = Cardinality(in_use)
    /\ total_count = Cardinality(connections)
    /\ operation_count = Cardinality(Counted)
    /\ \A x \in Purposes : checkout_purposes[x] = Cardinality(CheckedOutFor(x))

\* The pool never has more connections than max_pool_size, nor establishes more
\* of them at once than max_connecting, callers and maintenance together.
LimitsRespected ==
    /\ MaxPoolSize > 0 => Cardinality(connections) <= MaxPoolSize
    /\ Cardinality(pending) <= MaxConnecting

Holds(p) == p \in Callers /\ pc[p] \in {"taking", "binding", "lent"}

\* A connection in use belongs to one caller, who alone can end the loan: no
\* clear, close or maintenance takes the checkout away from its owner.
LoansAreExclusive ==
    /\ \A p \in Procs : Holds(p) => conn[p] \in in_use
    /\ \A c \in in_use : \E p \in Procs : Holds(p) /\ conn[p] = c
    /\ \A p, q \in Procs : Holds(p) /\ conn[p] = conn[q] => p = q

\* What waits in the pool can be lent: it is of the current generation of its
\* service, open, without error or interruption, and only in a pool that may
\* lend it (a pool of one service that is not ready is empty).
AvailableAreUsable ==
    /\ available = {c \in Conns : conn_state[c] = "available"}
    /\ \A c \in available :
          /\ IsCurrent(c)
          /\ resource[c] = "open"
          /\ c \notin errored \cup interrupted
          /\ state = "ready" \/ (Services # {} /\ state = "paused")

\* The queue holds the waiting callers, each once, and a pool that stopped
\* being ready leaves no waiter behind that is not evicted.
WaitersAreKnown ==
    /\ Range(wait_queue) = {p \in Callers : pc[p] = "waiting"}
    /\ IsInjective(wait_queue)
    /\ \A p \in Callers : evicted[p] # "no" => pc[p] = "waiting"
    /\ state # "ready" => \A p \in Range(wait_queue) : evicted[p] # "no"
    /\ state = "closed" => \A p \in Range(wait_queue) : evicted[p] = "poolClosed"

\* p will still call finish_close for c.
Owes(p, c) == c \in closing[p] \/ (conn[p] = c /\ pc[p] \in {"reporting", "clearing"})

\* ConnectionClosed is published once for every connection that was closed, by
\* the one process that owes it, and afterwards its socket is closed.
ClosedOnce ==
    \A c \in Conns :
       LET owing == {p \in Procs : Owes(p, c)} IN
       IF conn_state[c] = "closed"
       THEN /\ closes[c] + Cardinality(owing) = 1
            /\ closes[c] = 1 => resource[c] = "closed"
       ELSE closes[c] = 0 /\ owing = {}

\* ConnectionPoolClosed has been published.
CloseReturned == state = "closed" /\ \A k \in Controllers : pc[k] # "awaiting"

\* A connection that belonged to the pool before it was cleared as a whole is
\* stale: "A generation bump marks existing connections stale without scanning
\* them" (src/src/mongodb/pool.lua:1225).
OldConnectionsAreStale ==
    \A c \in connections : born[c] < generation => ~IsCurrent(c)

\* close waits for the maintenance that is establishing connections: "settles
\* in-flight minPoolSize maintenance before close returns"
\* (src/spec/unit/pool_spec.lua:486).
CloseSettlesMaintenance ==
    CloseReturned => \A t \in Tasks : pc[t] # "opening"

\* close ends, although it waits for maintenance.
CloseEnds == \A k \in Controllers : pc[k] = "awaiting" ~> pc[k] = "idle"

\* Once closed, the pool gets rid of every connection that is not lent.
ClosedPoolDrains ==
    state = "closed" ~> (\A c \in Conns : resource[c] = "open" => c \in in_use)

\* A caller without a deadline does not wait forever, as long as connections
\* are returned: it gets one, or an error.
EveryWaiterIsAnswered ==
    \A p \in Callers : pc[p] = "waiting" ~> pc[p] # "waiting"
=============================================================================
