----------------------------- MODULE PoolLends -----------------------------
(***************************************************************************)
(* The pool implements LendingPool.  A caller is being served from the     *)
(* lock section that takes it off the wait queue to the return of its      *)
(* connection or to the closing of the connection that failed.             *)
(***************************************************************************)
EXTENDS Pool

Turned == {p \in Callers : evicted[p] # "no"}
Serving == {p \in Callers : pc[p] \in {"taking", "opening", "binding"}}
Loan == [p \in Callers |-> IF pc[p] = "lent" THEN conn[p] ELSE NoConn]

Lending == INSTANCE LendingPool WITH
    Capacity <- MaxPoolSize, phase <- state, queue <- wait_queue,
    turned <- Turned, serving <- Serving, loan <- Loan

\* Callers see a lending pool: first come first served, exclusive loans within
\* max_pool_size, nobody served after an eviction.
Lends == Lending!LendingSpec
=============================================================================
