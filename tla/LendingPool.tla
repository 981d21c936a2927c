---------------------------- MODULE LendingPool ----------------------------
(***************************************************************************)
(* What a connection pool promises to its callers, whatever it does inside *)
(* (docs/ARCHITECTURE.md, "Connection pools and pinning"): callers are     *)
(* served in the order they asked, no connection is lent twice, no more    *)
(* than Capacity callers are being served or hold a connection, a clear or *)
(* a close turns away everybody who waits, and what is closed for good     *)
(* takes no new requests.                                                  *)
(***************************************************************************)
EXTENDS Naturals, Sequences, FiniteSets, SequencesExt

CONSTANTS
    Callers,
    Conns,
    NoConn,     \* not in Conns
    Capacity    \* 0 means no limit

VARIABLES
    phase,      \* paused, ready or closed
    queue,      \* callers that wait, in the order they asked
    turned,     \* waiting callers that will be turned away
    serving,    \* callers a connection is on its way to
    loan        \* the connection a caller has

lendingVars == <<phase, queue, turned, serving, loan>>

Borrowers == {p \in Callers : loan[p] # NoConn}
Waiting == Range(queue)

LendingInit ==
    /\ phase = "paused"
    /\ queue = <<>>
    /\ turned = {}
    /\ serving = {}
    /\ loan = [p \in Callers |-> NoConn]

Ask(p) ==
    /\ phase = "ready"
    /\ p \notin Waiting \cup serving \cup Borrowers
    /\ queue' = Append(queue, p)
    /\ UNCHANGED <<phase, turned, serving, loan>>

\* The caller that has waited longest is served, never one turned away.
Serve(p) ==
    /\ queue # <<>> /\ p = Head(queue) /\ p \notin turned
    /\ Capacity > 0 => Cardinality(serving \cup Borrowers) < Capacity
    /\ queue' = Tail(queue)
    /\ serving' = serving \cup {p}
    /\ UNCHANGED <<phase, turned, loan>>

Lend(p, c) ==
    /\ p \in serving
    /\ \A q \in Callers : loan[q] # c
    /\ serving' = serving \ {p}
    /\ loan' = [loan EXCEPT ![p] = c]
    /\ UNCHANGED <<phase, queue, turned>>

\* A waiting caller leaves without a connection, at any time.
Leave(p) ==
    /\ \E i \in DOMAIN queue : queue[i] = p /\ queue' = RemoveAt(queue, i)
    /\ turned' = turned \ {p}
    /\ UNCHANGED <<phase, serving, loan>>

\* No connection could be established for a caller being served.
Fail(p) ==
    /\ p \in serving
    /\ serving' = serving \ {p}
    /\ UNCHANGED <<phase, queue, turned, loan>>

Return(p) ==
    /\ p \in Borrowers
    /\ loan' = [loan EXCEPT ![p] = NoConn]
    /\ UNCHANGED <<phase, queue, turned, serving>>

Start ==
    /\ phase = "paused"
    /\ phase' = "ready"
    /\ UNCHANGED <<queue, turned, serving, loan>>

\* A clear or a close; what is closed stays closed.
Stop(to) ==
    /\ phase # "closed"
    /\ phase' = to
    /\ turned' = Waiting
    /\ UNCHANGED <<queue, serving, loan>>

LendingNext ==
    \/ \E p \in Callers : Ask(p) \/ Serve(p) \/ Leave(p) \/ Fail(p) \/ Return(p)
    \/ \E p \in Callers, c \in Conns : Lend(p, c)
    \/ Start \/ Stop("paused") \/ Stop("closed")

LendingSpec == LendingInit /\ [][LendingNext]_lendingVars
=============================================================================
