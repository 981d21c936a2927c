-------------------------- MODULE PoolFates_proofs --------------------------
(***************************************************************************)
(* What becomes of waiters and of connections: the proofs that nobody is   *)
(* forgotten in the queue, that what is kept can be lent, that what is     *)
(* closed is closed once, and that the pool implements LendingPool.        *)
(***************************************************************************)
EXTENDS Pool_proofs, PoolLends

-----------------------------------------------------------------------------
(* Waiters.                                                                *)

LEMMA RemovedRange ==
    ASSUME NEW s \in Seq(Callers), NEW i \in DOMAIN s, IsInjective(s)
    PROVE  /\ Range(RemoveAt(s, i)) = Range(s) \ {s[i]}
           /\ IsInjective(RemoveAt(s, i))
<1> DEFINE r == RemoveAt(s, i)
<1>1. i \in 1..Len(s) /\ Len(s) \in Nat
  OBVIOUS
<1>2. /\ SubSeq(s, 1, i-1) \in Seq(Callers) /\ Len(SubSeq(s, 1, i-1)) = i - 1
      /\ \A k \in 1..i-1 : SubSeq(s, 1, i-1)[k] = s[k]
  BY <1>1, SubSeqProperties
<1>3. /\ SubSeq(s, i+1, Len(s)) \in Seq(Callers)
      /\ Len(SubSeq(s, i+1, Len(s))) = Len(s) - i
      /\ \A k \in 1..Len(s)-i : SubSeq(s, i+1, Len(s))[k] = s[k+i]
  BY <1>1, SubSeqProperties
<1>4. r \in Seq(Callers) /\ Len(r) = Len(s) - 1
  <2>1. r \in Seq(Callers) /\ Len(r) = (i - 1) + (Len(s) - i)
    BY <1>2, <1>3, ConcatProperties DEF RemoveAt
  <2> QED
    BY <1>1, <2>1
<1>5. \A k \in 1..Len(s)-1 : r[k] = IF k < i THEN s[k] ELSE s[k+1]
  <2> TAKE k \in 1..Len(s)-1
  <2>1. r[k] = IF k <= i - 1 THEN SubSeq(s, 1, i-1)[k]
               ELSE SubSeq(s, i+1, Len(s))[k - (i - 1)]
    <3> DEFINE a == SubSeq(s, 1, i-1)
               b == SubSeq(s, i+1, Len(s))
    <3>1. a \in Seq(Callers) /\ b \in Seq(Callers) /\ r = a \o b
      BY <1>2, <1>3 DEF RemoveAt
    <3>2. Len(a) = i - 1 /\ Len(b) = Len(s) - i
      BY <1>2, <1>3
    <3> HIDE DEF a, b, r
    <3>3. k \in 1..Len(a) + Len(b)
      BY <1>1, <3>2
    <3>4. (a \o b)[k] = IF k <= Len(a) THEN a[k] ELSE b[k - Len(a)]
      BY <3>1, <3>3, ConcatProperties
    <3>5. r[k] = IF k <= i - 1 THEN a[k] ELSE b[k - (i - 1)]
      BY <3>1, <3>2, <3>4
    <3> QED
      BY <3>5 DEF a, b
  <2>2. CASE k <= i - 1
    BY <1>1, <1>2, <2>1, <2>2
  <2>3. CASE ~(k <= i - 1)
    <3>1. k - (i - 1) \in 1..Len(s)-i /\ k - (i - 1) + i = k + 1
      BY <1>1, <2>3
    <3>2. SubSeq(s, i+1, Len(s))[k - (i - 1)] = s[k + 1]
      BY <1>3, <3>1
    <3> QED
      BY <1>1, <2>1, <2>3, <3>2
  <2> QED
    BY <2>2, <2>3
<1>6. DOMAIN r = 1..Len(s)-1 /\ DOMAIN s = 1..Len(s)
  BY <1>4
<1>7. IsInjective(r)
  <2> SUFFICES ASSUME NEW a \in 1..Len(s)-1, NEW b \in 1..Len(s)-1, r[a] = r[b]
               PROVE  a = b
    BY <1>6 DEF IsInjective
  <2> QED
    BY <1>1, <1>5, <1>6 DEF IsInjective
<1>8. \A x \in Range(r) : x \in Range(s) /\ x # s[i]
  <2> SUFFICES ASSUME NEW k \in 1..Len(s)-1
               PROVE  r[k] \in Range(s) /\ r[k] # s[i]
    BY <1>6 DEF Range
  <2> QED
    BY <1>1, <1>5, <1>6 DEF Range, IsInjective
<1>9. \A x \in Range(s) : x # s[i] => x \in Range(r)
  <2> SUFFICES ASSUME NEW k \in 1..Len(s), s[k] # s[i]
               PROVE  s[k] \in Range(r)
    BY <1>6 DEF Range
  <2>1. CASE k < i
    <3>1. k \in 1..Len(s)-1 /\ r[k] = s[k]
      BY <1>1, <1>5, <2>1
    <3> QED
      BY <1>6, <3>1 DEF Range
  <2>2. CASE k > i
    <3>1. k - 1 \in 1..Len(s)-1 /\ r[k - 1] = s[k]
      BY <1>1, <1>5, <2>2
    <3> QED
      BY <1>6, <3>1 DEF Range
  <2> QED
    BY <1>1, <2>1, <2>2
<1> HIDE DEF r
<1>10. Range(r) = Range(s) \ {s[i]}
  BY <1>8, <1>9
<1> QED
  BY <1>7, <1>10 DEF r

LEMMA AppendedRange ==
    ASSUME NEW s \in Seq(Callers), NEW p \in Callers, IsInjective(s), p \notin Range(s)
    PROVE  Range(Append(s, p)) = Range(s) \cup {p} /\ IsInjective(Append(s, p))
<1> DEFINE r == Append(s, p)
<1>1. /\ Len(s) \in Nat /\ DOMAIN s = 1..Len(s) /\ DOMAIN r = 1..Len(s)+1
      /\ \A k \in 1..Len(s) : r[k] = s[k]
      /\ r[Len(s)+1] = p
  OBVIOUS
<1> HIDE DEF r
<1>2. IsInjective(r)
  <2> SUFFICES ASSUME NEW a \in 1..Len(s)+1, NEW b \in 1..Len(s)+1, r[a] = r[b]
               PROVE  a = b
    BY <1>1 DEF IsInjective
  <2>1. CASE a \in 1..Len(s) /\ b \in 1..Len(s)
    BY <1>1, <2>1 DEF IsInjective
  <2>2. CASE a = Len(s)+1 \/ b = Len(s)+1
    BY <1>1, <2>2 DEF Range
  <2> QED
    BY <1>1, <2>1, <2>2
<1>3. \A x \in Range(r) : x \in Range(s) \cup {p}
  <2> SUFFICES ASSUME NEW k \in 1..Len(s)+1 PROVE r[k] \in Range(s) \cup {p}
    BY <1>1 DEF Range
  <2>1. k \in 1..Len(s) \/ k = Len(s)+1
    BY <1>1
  <2> QED
    BY <1>1, <2>1 DEF Range
<1>4. \A x \in Range(s) \cup {p} : x \in Range(r)
  <2>1. p \in Range(r)
    <3>1. Len(s)+1 \in DOMAIN r
      BY <1>1
    <3> QED
      BY <1>1, <3>1 DEF Range
  <2>2. \A k \in 1..Len(s) : s[k] \in Range(r)
    BY <1>1 DEF Range
  <2> QED
    BY <1>1, <2>1, <2>2 DEF Range
<1> QED
  BY <1>2, <1>3, <1>4 DEF r

WaiterInv == TypeInv /\ WaitersAreKnown

\* Steps in which nobody begins or ceases to wait and the pool stays as ready.
LEMMA WaitersGoOn ==
    ASSUME WaiterInv, UNCHANGED queueVars,
           state' = state \/ state' = "ready",
           \A p \in Callers : pc'[p] = "waiting" <=> pc[p] = "waiting"
    PROVE  WaitersAreKnown'
  BY DEF WaiterInv, WaitersAreKnown, queueVars

\* One caller leaves the queue.
LEMMA WaitersLeave ==
    ASSUME WaiterInv, NEW p \in Callers, RemoveWaiter(p), UNCHANGED state,
           NEW label, label # "waiting", MoveTo(p, label)
    PROVE  WaitersAreKnown'
<1> USE DEF WaiterInv, TypeInv, TypeOK, WaitersAreKnown
<1>1. PICK i \in DOMAIN wait_queue : wait_queue[i] = p /\ wait_queue' = RemoveAt(wait_queue, i)
  BY DEF RemoveWaiter
<1>2. Range(wait_queue') = Range(wait_queue) \ {p} /\ IsInjective(wait_queue')
  BY <1>1, RemovedRange DEF QueueTypes
<1>3. \A q \in Callers : pc'[q] = IF q = p THEN label ELSE pc[q]
  BY DEF MoveTo, ProcTypes, Procs
<1>4. \A q \in Callers : evicted'[q] = IF q = p THEN "no" ELSE evicted[q]
  BY DEF RemoveWaiter, QueueTypes
<1> QED
  BY <1>2, <1>3, <1>4

LEMMA WaitersCheckOut ==
    ASSUME WaiterInv, NEW p \in Callers, CheckOut(p)
    PROVE  WaitersAreKnown'
<1> USE DEF WaiterInv, TypeInv, TypeOK, WaitersAreKnown
<1>1. Range(wait_queue') = Range(wait_queue) \cup {p} /\ IsInjective(wait_queue')
  BY AppendedRange DEF CheckOut, QueueTypes
<1>2. \A q \in Callers : pc'[q] = IF q = p THEN "waiting" ELSE pc[q]
  BY DEF CheckOut, MoveTo, ProcTypes, Procs
<1> QED
  BY <1>1, <1>2 DEF CheckOut, poolVars

\* The pool stops being ready and evicts everybody who waits.
LEMMA WaitersEvicted ==
    ASSUME WaiterInv, NEW reason \in {"connectionError", "poolClosed"}, Evict(reason),
           UNCHANGED wait_queue,
           state' = "closed" => reason = "poolClosed",
           \A p \in Callers : pc'[p] = pc[p]
    PROVE  WaitersAreKnown'
  BY DEF Evict, WaiterInv, WaitersAreKnown

LEMMA WaitersOfCallers ==
    ASSUME WaiterInv, NEW p \in Callers,
           CheckOut(p) \/ CallerStep(p) \/ CancelSetup(p) \/ MarkError(p) \/ CheckIn(p)
    PROVE  WaitersAreKnown'
<1> USE DEF WaiterInv, TypeInv, TypeOK
<1>1. CASE GiveUp(p) \/ LeaveEvicted(p)
  BY <1>1, WaitersLeave DEF GiveUp, LeaveEvicted, CheckOutFailed, poolVars
<1>2. CASE TakeAvailable(p) \/ OpenConnection(p)
  BY <1>2, WaitersLeave DEF TakeAvailable, OpenConnection, poolVars
<1>3. CASE CullOnly(p) \/ CancelSetup(p) \/ MarkError(p)
  BY <1>3, WaitersGoOn DEF CullOnly, CancelSetup, MarkError, poolVars, procVars
<1>4. CASE Taken(p) \/ BindConnection(p) \/ FailCheckOut(p) \/ CallerReported(p) \/ CheckIn(p)
  <2>1. UNCHANGED queueVars /\ state' = state /\ pc[p] # "waiting"
    BY <1>4 DEF Taken, BindConnection, FailCheckOut, CallerReported, CheckIn, poolVars
  <2>2. \A q \in Callers : q # p => pc'[q] = pc[q]
    BY <1>4, ProcsDisjoint DEF Taken, BindConnection, FailCheckOut, CheckOutFailed,
       CallerReported, CheckIn, Schedule, MoveTo, ProcTypes, Procs
  <2>3. pc'[p] # "waiting"
    BY <1>4, ProcsDisjoint DEF Taken, BindConnection, FailCheckOut, CheckOutFailed,
       CallerReported, CheckIn, Schedule, MoveTo, ProcTypes, Procs
  <2> QED
    BY <2>1, <2>2, <2>3, WaitersGoOn
<1> QED
  BY <1>1, <1>2, <1>3, <1>4, WaitersCheckOut DEF CallerStep

LEMMA WaitersOfTasks ==
    ASSUME WaiterInv, NEW t \in Tasks, TaskStep(t)
    PROVE  WaitersAreKnown'
<1> USE DEF WaiterInv, TypeInv, TypeOK
<1>1. \A p \in Callers : pc'[p] = pc[p]
  BY ProcsDisjoint DEF TaskStep, MaintainStart, MaintainOpen, MaintainEnd, TaskReported,
                       TaskClears, TaskCleared, Schedule, MoveTo, ProcTypes, Procs
<1>2. CASE TaskClears(t)
  BY <1>1, <1>2, WaitersEvicted DEF TaskClears, ClearPool
<1>3. CASE ~TaskClears(t)
  BY <1>1, <1>3, WaitersGoOn DEF TaskStep, MaintainStart, MaintainOpen, MaintainEnd,
     TaskReported, TaskCleared, poolVars
<1> QED
  BY <1>2, <1>3

LEMMA WaitersOfControllers ==
    ASSUME WaiterInv, NEW k \in Controllers, Ready(k) \/ Clear(k) \/ Close(k) \/ CloseReturns(k)
    PROVE  WaitersAreKnown'
<1> USE DEF WaiterInv, TypeInv, TypeOK
<1>0. \E label : MoveTo(k, label)
  BY DEF Ready, Clear, Close, CloseReturns
<1>1. \A p \in Callers : pc'[p] = pc[p]
  BY <1>0, ProcsDisjoint DEF MoveTo, ProcTypes, Procs
<1>2. CASE Ready(k) \/ CloseReturns(k)
  BY <1>1, <1>2, WaitersGoOn DEF Ready, CloseReturns, poolVars
<1>3. CASE Clear(k)
  <2>1. PICK interrupt \in BOOLEAN :
           ClearPool(k, interrupt) \/ \E s \in Services : ClearService(k, s, interrupt)
    BY <1>3 DEF Clear
  <2>2. CASE ClearPool(k, interrupt)
    BY <1>1, <2>2, WaitersEvicted DEF ClearPool
  <2>3. CASE \E s \in Services : ClearService(k, s, interrupt)
    BY <1>1, <2>3, WaitersGoOn DEF ClearService
  <2> QED
    BY <2>1, <2>2, <2>3
<1>4. CASE Close(k)
  BY <1>1, <1>4, WaitersEvicted DEF Close
<1> QED
  BY <1>2, <1>3, <1>4

LEMMA WaitersOfOthers ==
    ASSUME WaiterInv,
           \/ \E p \in Callers \cup Tasks : Establish(p)
           \/ \E p \in Procs : CloseStep(p) \/ Settle(p)
           \/ \E c \in Conns : GarbageCollect(c)
    PROVE  WaitersAreKnown'
<1> USE DEF WaiterInv, TypeInv, TypeOK
<1>1. UNCHANGED queueVars /\ state' = state
  BY DEF Establish, ConnectFails, ConnectSucceeds, ConnectUnusable, CloseStep,
     FinishClose, CutResource, Settle, GarbageCollect, poolVars
<1>2. CASE \E p \in Callers \cup Tasks : Establish(p)
  <2>1. PICK p \in Callers \cup Tasks : Establish(p)
    BY <1>2
  <2>2. pc[p] = "opening" /\ \E label \in {"reporting", "binding", "filling", "failed"} :
                                MoveTo(p, label)
    BY <2>1 DEF Establish, ConnectFails, ConnectSucceeds, ConnectUnusable, Connects
  <2>3. \A q \in Callers : pc'[q] = "waiting" <=> pc[q] = "waiting"
    BY <2>2 DEF MoveTo, ProcTypes, Procs
  <2> QED
    BY <1>1, <2>3, WaitersGoOn
<1>3. CASE \E p \in Procs : CloseStep(p)
  BY <1>1, <1>3, WaitersGoOn DEF CloseStep, FinishClose, CutResource, procVars
<1>4. CASE \E p \in Procs : Settle(p)
  <2>1. PICK p \in Procs : Settle(p)
    BY <1>4
  <2>2. \A q \in Callers : pc'[q] = "waiting" <=> pc[q] = "waiting"
    BY <2>1, ProcsDisjoint DEF Settle, Schedule, MoveTo, ProcTypes, Procs
  <2> QED
    BY <1>1, <2>2, WaitersGoOn
<1>5. CASE \E c \in Conns : GarbageCollect(c)
  BY <1>1, <1>5, WaitersGoOn DEF GarbageCollect, procVars
<1> QED
  BY <1>2, <1>3, <1>4, <1>5

LEMMA WaitersInit == Init => WaitersAreKnown
  BY DEF Init, WaitersAreKnown, Range, IsInjective, Procs

LEMMA WaitersNext == WaiterInv /\ [Next]_vars => WaiterInv'
<1> SUFFICES ASSUME WaiterInv, [Next]_vars PROVE WaitersAreKnown'
  BY TypeNext DEF WaiterInv
<1>1. CASE Terminated \/ UNCHANGED vars
  BY <1>1, WaitersGoOn DEF Terminated, vars, procVars, poolVars
<1> QED
  BY <1>1, WaitersOfCallers, WaitersOfTasks, WaitersOfControllers, WaitersOfOthers
     DEF Next

\* The queue holds whoever waits, once, and a pool that was cleared or closed
\* leaves nobody behind without an error to give: no wake-up is lost.
THEOREM WaitersCorrect == Spec => []WaitersAreKnown
<1>1. Init => WaiterInv
  BY TypeInit, WaitersInit DEF WaiterInv
<1>2. WaiterInv => WaitersAreKnown
  BY DEF WaiterInv
<1> QED
  BY <1>1, <1>2, WaitersNext, PTL DEF Spec

-----------------------------------------------------------------------------
(* Closed connections.                                                     *)

\* A closed connection is owed by one process until its event is published.
DebtOf(c) ==
    IF conn_state[c] = "closed"
    THEN \/ closes[c] = 0 /\ \E p \in Procs : \A q \in Procs : Owes(q, c) <=> q = p
         \/ /\ closes[c] = 1 /\ resource[c] = "closed"
            /\ \A q \in Procs : ~Owes(q, c)
    ELSE closes[c] = 0 /\ \A q \in Procs : ~Owes(q, c)

OneDebt == \A c \in Conns : DebtOf(c)

\* Who begins to owe a connection owes no other one, and nobody owes the
\* connection it works with twice.
DebtsApart ==
    /\ \A p \in Procs :
          (\/ pc[p] \in {"idle", "binding", "lent"}
           \/ pc[p] = "reporting" /\ p \in Callers)
          => closing[p] = {}
    /\ \A p \in Procs : \A c \in closing[p] : conn[p] # c

DebtInv == LoanInv /\ OneDebt /\ DebtsApart

\* Steps that neither close a connection nor pass a debt on.
LEMMA DebtsGoOn ==
    ASSUME DebtInv, UNCHANGED closes,
           \A c \in Conns : conn_state'[c] = "closed" <=> conn_state[c] = "closed",
           \A c \in Conns : \/ resource'[c] = resource[c] \/ resource'[c] = "closed"
                            \/ conn_state[c] # "closed",
           \A p \in Procs, c \in Conns : Owes(p, c)' <=> Owes(p, c)
    PROVE  OneDebt'
  BY DEF DebtInv, OneDebt, DebtOf

\* p detaches available connections and goes on.
LEMMA DebtsRetire ==
    ASSUME DebtInv, NEW p \in Procs, NEW gone \in SUBSET available,
           UNCHANGED <<resource, closes>>,
           \A c \in Conns : conn_state'[c] = "closed" <=> conn_state[c] = "closed" \/ c \in gone,
           \A q \in Procs, c \in Conns :
              Owes(q, c)' <=> Owes(q, c) \/ (q = p /\ c \in gone)
    PROVE  OneDebt'
<1> USE DEF DebtInv, OneDebt, DebtOf, LoanInv, TypeInv, TypeOK
<1>1. \A c \in gone : conn_state[c] # "closed" /\ c \in Conns
  BY DEF Ownership, StateTypes
<1> SUFFICES ASSUME NEW c \in Conns
             PROVE  DebtOf(c)'
  OBVIOUS
<1>2. CASE c \in gone
  <2>1. conn_state'[c] = "closed" /\ closes'[c] = 0
    BY <1>1, <1>2
  <2>2. \A q \in Procs : Owes(q, c)' <=> q = p
    BY <1>1, <1>2
  <2> QED
    BY <2>1, <2>2
<1>3. CASE c \notin gone
  BY <1>3
<1> QED
  BY <1>2, <1>3

\* One connection is closed and p owes it.
LEMMA DebtsBegin ==
    ASSUME DebtInv, NEW p \in Procs, NEW d \in Conns, conn_state[d] # "closed",
           UNCHANGED closes,
           \A c \in Conns : conn_state'[c] = IF c = d THEN "closed" ELSE conn_state[c],
           \A c \in Conns \ {d} : resource'[c] = resource[c],
           \A q \in Procs, c \in Conns :
              Owes(q, c)' <=> Owes(q, c) \/ (q = p /\ c = d)
    PROVE  OneDebt'
<1> USE DEF DebtInv, OneDebt, DebtOf
<1> SUFFICES ASSUME NEW c \in Conns
             PROVE  DebtOf(c)'
  OBVIOUS
<1>1. CASE c = d
  <2>1. conn_state'[c] = "closed" /\ closes'[c] = 0
    BY <1>1
  <2>2. \A q \in Procs : Owes(q, c)' <=> q = p
    BY <1>1
  <2> QED
    BY <2>1, <2>2
<1>2. CASE c # d
  BY <1>2
<1> QED
  BY <1>1, <1>2

\* Steps of a process that works with no connection it would owe.
LEMMA DebtsMove ==
    ASSUME DebtInv, NEW p \in Procs, NEW label, MoveTo(p, label), UNCHANGED <<closing, closes>>,
           \A c \in Conns : conn_state'[c] = "closed" <=> conn_state[c] = "closed",
           \A c \in Conns : resource'[c] = resource[c] \/ conn_state[c] # "closed",
           \A q \in Procs \ {p} : conn'[q] = conn[q],
           pc[p] \notin {"reporting", "clearing"}, label \notin {"reporting", "clearing"},
           conn'[p] = NoConn \/ conn'[p] = conn[p] \/ conn_state[conn'[p]] = "none",
           label \in {"idle", "binding", "lent"} => closing[p] = {}
    PROVE  OneDebt' /\ DebtsApart'
<1> USE DEF DebtInv, LoanInv, TypeInv, TypeOK
<1>1. \A q \in Procs : pc'[q] = IF q = p THEN label ELSE pc[q]
  BY DEF MoveTo, ProcTypes
<1>2. \A q \in Procs, c \in Conns : Owes(q, c)' <=> Owes(q, c)
  BY <1>1 DEF Owes
<1>3. OneDebt'
  BY <1>2, DebtsGoOn
<1>4. conn_state[conn'[p]] = "none" => conn'[p] \notin closing[p]
  BY DEF OneDebt, DebtOf, Owes, CloseTypes
<1>5. DebtsApart'
  BY <1>1, <1>4, NullsDistinct DEF DebtsApart, CloseTypes, ProcTypes
<1> QED
  BY <1>3, <1>5

LEMMA DebtsFinishClose ==
    ASSUME DebtInv, NEW p \in Procs, NEW d \in Conns, FinishClose(p, d)
    PROVE  OneDebt' /\ DebtsApart'
<1> USE DEF DebtInv, LoanInv, TypeInv, TypeOK
<1>1. /\ pc' = pc /\ conn' = conn /\ conn_state' = conn_state
      /\ \A c \in Conns : /\ closes'[c] = IF c = d THEN closes[c] + 1 ELSE closes[c]
                          /\ resource'[c] = IF c = d THEN "closed" ELSE resource[c]
      /\ \A q \in Procs : closing'[q] = IF q = p THEN closing[q] \ {d} ELSE closing[q]
  BY DEF FinishClose, procVars, CloseTypes
<1>2. d \in closing[p] /\ conn[p] # d
  BY DEF FinishClose, DebtsApart
<1>3. /\ conn_state[d] = "closed" /\ closes[d] = 0
      /\ \A q \in Procs : Owes(q, d) <=> q = p
  BY <1>2 DEF OneDebt, DebtOf, Owes
<1>4. \A q \in Procs, c \in Conns : Owes(q, c)' <=> Owes(q, c) /\ c # d
  BY <1>1, <1>2, <1>3 DEF Owes
<1>5. OneDebt'
  BY <1>1, <1>3, <1>4 DEF OneDebt, DebtOf
<1>6. DebtsApart'
  BY <1>1 DEF DebtsApart
<1> QED
  BY <1>5, <1>6

LEMMA DebtsCutResource ==
    ASSUME DebtInv, NEW p \in Procs, NEW d \in Conns, CutResource(p, d)
    PROVE  OneDebt' /\ DebtsApart'
<1> USE DEF DebtInv, LoanInv, TypeInv, TypeOK
<1>1. \A c \in Conns : resource'[c] = resource[c] \/ resource'[c] = "closed"
  BY DEF CutResource, CloseTypes
<1>2. OneDebt'
  BY <1>1, DebtsGoOn DEF CutResource, procVars, Owes
<1> QED
  BY <1>2 DEF CutResource, procVars, DebtsApart

LEMMA DebtsGarbageCollect ==
    ASSUME DebtInv, NEW d \in Conns, GarbageCollect(d)
    PROVE  OneDebt' /\ DebtsApart'
<1> USE DEF DebtInv, LoanInv, TypeInv, TypeOK
<1>1. \A q \in Procs, c \in Conns : Owes(q, c)' <=> Owes(q, c)
  BY DEF GarbageCollect, procVars, Owes
<1>2. \A q \in Procs : ~Owes(q, d)
  BY DEF GarbageCollect, Unreferenced, Owes
<1>3. OneDebt'
  BY <1>1, <1>2 DEF GarbageCollect, OneDebt, DebtOf, StateTypes, CloseTypes
<1> QED
  BY <1>3 DEF GarbageCollect, procVars, DebtsApart

\* p detaches connections; what it owes because of its pc stays the same.
LEMMA DebtsDetach ==
    ASSUME DebtInv, NEW p \in Procs, NEW gone \in SUBSET available,
           UNCHANGED <<resource, closes>>,
           \A c \in Conns : conn_state'[c] = "closed" <=> conn_state[c] = "closed" \/ c \in gone,
           closing' = [closing EXCEPT ![p] = closing[p] \cup gone],
           NEW label, \A q \in Procs : pc'[q] = IF q = p THEN label ELSE pc[q],
           label \notin {"idle", "binding", "lent"},
           label \in {"reporting", "clearing"} <=> pc[p] \in {"reporting", "clearing"},
           label = "reporting" => p \notin Callers,
           \A q \in Procs \ {p} : conn'[q] = conn[q],
           \/ conn'[p] = conn[p]
           \/ label \notin {"reporting", "clearing"} /\ conn_state[conn'[p]] # "closed",
           conn'[p] \notin gone
    PROVE  OneDebt' /\ DebtsApart'
<1> USE DEF DebtInv, LoanInv, TypeInv, TypeOK
<1>1. \A q \in Procs : closing'[q] = IF q = p THEN closing[q] \cup gone ELSE closing[q]
  BY DEF CloseTypes
<1>2. \A q \in Procs, c \in Conns : Owes(q, c)' <=> Owes(q, c) \/ (q = p /\ c \in gone)
  BY <1>1 DEF Owes
<1>3. OneDebt'
  BY <1>2, DebtsRetire
<1>4. DebtsApart'
  BY <1>1 DEF DebtsApart, OneDebt, DebtOf, Owes, CloseTypes
<1> QED
  BY <1>3, <1>4

LEMMA DebtsOfDetaching ==
    ASSUME DebtInv, NEW p \in Callers, TakeAvailable(p) \/ OpenConnection(p) \/ CullOnly(p)
    PROVE  OneDebt' /\ DebtsApart'
<1> USE DEF DebtInv, LoanInv, TypeInv, TypeOK
<1>1. p \in Procs /\ pc[p] = "waiting" /\ conn[p] = NoConn
  BY DEF TakeAvailable, OpenConnection, CullOnly, IsServed, Polls, Ownership, WorksWith,
     Holds, Procs
<1>2. CASE TakeAvailable(p)
  <2>1. PICK culled \in SUBSET {c \in available : MayBePerished(c)},
             c \in available :
           /\ c \notin culled
           /\ Detach(p, culled, c, "in_use")
           /\ conn' = [conn EXCEPT ![p] = c]
    BY <1>2 DEF TakeAvailable
  <2>2. \A q \in Procs : pc'[q] = IF q = p THEN "taking" ELSE pc[q]
    BY <1>2 DEF TakeAvailable, MoveTo, ProcTypes
  <2>3. conn_state[c] = "available"
    BY <2>1 DEF Ownership, StateTypes
  <2>4. culled \in SUBSET available /\ c \notin culled
    BY <2>1
  <2> QED
    BY <1>1, <2>1, <2>2, <2>3, <2>4, DebtsDetach DEF Detach, ProcTypes, StateTypes
<1>3. CASE OpenConnection(p)
  <2>1. PICK c \in Conns : NewConnection(p, c, available)
    BY <1>3 DEF OpenConnection
  <2>2. \A q \in Procs : pc'[q] = IF q = p THEN "opening" ELSE pc[q]
    BY <1>3 DEF OpenConnection, MoveTo, ProcTypes
  <2>3. c \notin available
    BY <2>1 DEF NewConnection, Ownership
  <2> QED
    BY <1>1, <2>1, <2>2, <2>3, DebtsDetach DEF NewConnection, Detach, ProcTypes, StateTypes
<1>4. CASE CullOnly(p)
  <2>1. \A q \in Procs : pc'[q] = IF q = p THEN "waiting" ELSE pc[q]
    BY <1>1, <1>4 DEF CullOnly, procVars
  <2>2. conn'[p] \notin available
    BY <1>1, <1>4, NullsDistinct DEF CullOnly, procVars, StateTypes
  <2> QED
    BY <1>1, <1>4, <2>1, <2>2, NullsDistinct, DebtsDetach DEF CullOnly, Detach, procVars,
       StateTypes
<1> QED
  BY <1>2, <1>3, <1>4

LEMMA DebtsMaintain ==
    ASSUME DebtInv, NEW t \in Tasks, MaintainStart(t) \/ MaintainOpen(t)
    PROVE  OneDebt' /\ DebtsApart'
<1> USE DEF DebtInv, LoanInv, TypeInv, TypeOK
<1>1. t \in Procs /\ pc[t] \in {"scheduled", "filling"} /\ conn[t] = NoConn
  BY ProcsDisjoint DEF MaintainStart, MaintainOpen, Ownership, WorksWith, Holds, Procs
<1>2. CASE MaintainStart(t)
  <2>1. PICK culled \in SUBSET {c \in available : MayBePerished(c)} :
           Detach(t, culled, NoConn, "closed")
    BY <1>2 DEF MaintainStart
  <2>2. PICK label \in {"filling", "ending"} : MoveTo(t, label)
    BY <1>2 DEF MaintainStart
  <2>3. \A q \in Procs : pc'[q] = IF q = t THEN label ELSE pc[q]
    BY <2>2 DEF MoveTo, ProcTypes
  <2>4. culled \in SUBSET available /\ conn' = conn /\ conn'[t] \notin culled
    BY <1>1, <1>2, NullsDistinct DEF MaintainStart, StateTypes
  <2> QED
    BY <1>1, <2>1, <2>2, <2>3, <2>4, NullsDistinct, DebtsDetach DEF Detach, StateTypes
<1>3. CASE MaintainOpen(t)
  <2>1. PICK c \in Conns : NewConnection(t, c, {})
    BY <1>3 DEF MaintainOpen
  <2>2. \A q \in Procs : pc'[q] = IF q = t THEN "opening" ELSE pc[q]
    BY <1>3 DEF MaintainOpen, MoveTo, ProcTypes
  <2> DEFINE gone == {}
  <2>3. /\ \A x \in Conns : conn_state'[x] = "closed" <=> conn_state[x] = "closed" \/ x \in gone
        /\ closing' = [closing EXCEPT ![t] = closing[t] \cup gone]
        /\ UNCHANGED <<resource, closes>>
    BY <2>1 DEF NewConnection, Detach, StateTypes
  <2>4. conn'[t] = c /\ conn_state[c] = "none" /\ \A q \in Procs \ {t} : conn'[q] = conn[q]
    BY <1>1, <2>1 DEF NewConnection, ProcTypes
  <2>5. gone \in SUBSET available /\ conn'[t] \notin gone
    OBVIOUS
  <2>6. "opening" \notin {"reporting", "clearing"} /\ conn_state[conn'[t]] # "closed"
    BY <2>4
  <2>7. pc[t] \notin {"reporting", "clearing"}
    BY <1>1
  <2> HIDE DEF gone, DebtInv, LoanInv, TypeInv, TypeOK
  <2> QED
    BY <1>1, <2>2, <2>3, <2>4, <2>5, <2>6, <2>7, DebtsDetach
<1> QED
  BY <1>2, <1>3

\* clear and close, in their lock sections.
LEMMA DebtsCollect ==
    ASSUME DebtInv, NEW p \in Procs, NEW s, NEW cut, Collect(p, s, cut), closing[p] = {},
           UNCHANGED conn,
           NEW label, MoveTo(p, label),
           label \notin {"idle", "binding", "lent", "reporting"},
           label = "clearing" <=> pc[p] \in {"reporting", "clearing"}
    PROVE  OneDebt' /\ DebtsApart'
<1> USE DEF DebtInv, LoanInv, TypeInv, TypeOK
<1>1. Gone(s) \in SUBSET available
  BY DEF Gone
<1>2. \A q \in Procs : pc'[q] = IF q = p THEN label ELSE pc[q]
  BY DEF MoveTo, ProcTypes
<1>3. closing' = [closing EXCEPT ![p] = closing[p] \cup Gone(s)]
  BY DEF Collect
<1>4. conn[p] \notin Gone(s)
  BY <1>1, NullsDistinct DEF Ownership, WorksWith, StateTypes
<1>5. \A c \in Conns : conn_state'[c] = "closed" <=> conn_state[c] = "closed" \/ c \in Gone(s)
  BY DEF Collect
<1>6. UNCHANGED <<resource, closes, conn>>
  BY DEF Collect
<1>7. /\ label \notin {"idle", "binding", "lent"}
      /\ label \in {"reporting", "clearing"} <=> pc[p] \in {"reporting", "clearing"}
      /\ label = "reporting" => p \notin Callers
  OBVIOUS
<1>8. /\ \A q \in Procs \ {p} : conn'[q] = conn[q]
      /\ conn'[p] = conn[p]
      /\ conn'[p] \notin Gone(s)
  BY <1>4, <1>6
<1> HIDE DEF DebtInv, LoanInv, TypeInv, TypeOK
<1> QED
  BY <1>1, <1>2, <1>3, <1>5, <1>6, <1>7, <1>8, DebtsDetach

LEMMA DebtsOfControllers ==
    ASSUME DebtInv, NEW k \in Controllers, Ready(k) \/ Clear(k) \/ Close(k) \/ CloseReturns(k)
    PROVE  OneDebt' /\ DebtsApart'
<1> USE DEF DebtInv, LoanInv, TypeInv, TypeOK
<1>0. k \in Procs /\ k \notin Callers
  BY ProcsDisjoint DEF Procs
<1>1. CASE Ready(k)
  BY <1>0, <1>1, DebtsMove DEF Ready, closeVars
<1>2. CASE CloseReturns(k)
  BY <1>0, <1>2, DebtsMove DEF CloseReturns, closeVars, Settled
<1>3. CASE Clear(k)
  <2>1. PICK s, cut : Collect(k, s, cut)
    BY <1>3 DEF Clear, ClearPool, ClearService
  <2>2. closing[k] = {} /\ pc[k] = "idle" /\ UNCHANGED conn /\ MoveTo(k, "settling")
    BY <1>0, <1>3 DEF Clear, DebtsApart
  <2> QED
    BY <1>0, <2>1, <2>2, DebtsCollect
<1>4. CASE Close(k)
  <2>1. closing[k] = {} /\ pc[k] = "idle" /\ UNCHANGED conn /\ MoveTo(k, "awaiting")
    BY <1>0, <1>4 DEF Close, DebtsApart
  <2> QED
    BY <1>0, <1>4, <2>1, DebtsCollect DEF Close
<1> QED
  BY <1>1, <1>2, <1>3, <1>4

LEMMA DebtsConnectFails ==
    ASSUME DebtInv, NEW p \in Callers \cup Tasks, ConnectFails(p)
    PROVE  OneDebt' /\ DebtsApart'
<1> USE DEF DebtInv, LoanInv, TypeInv, TypeOK
<1>1. /\ p \in Procs /\ pc[p] = "opening" /\ closing[p] = {}
      /\ conn[p] \in Conns /\ conn_state[conn[p]] = "pending"
  BY NullsDistinct DEF ConnectFails, Connects, Settled, HasConn, Ownership, WorksWith, Holds, Procs
<1>2. \A q \in Procs : pc'[q] = IF q = p THEN "reporting" ELSE pc[q]
  BY <1>1 DEF ConnectFails, MoveTo, ProcTypes
<1>3. conn' = conn /\ closing' = closing /\ resource' = resource /\ closes' = closes
  BY DEF ConnectFails, closeVars
<1>4. \A q \in Procs, c \in Conns : Owes(q, c)' <=> Owes(q, c) \/ (q = p /\ c = conn[p])
  BY <1>1, <1>2, <1>3 DEF Owes
<1>5. \A c \in Conns : conn_state'[c] = IF c = conn[p] THEN "closed" ELSE conn_state[c]
  BY DEF ConnectFails, DropPending, StateTypes
<1>6. OneDebt'
  BY <1>1, <1>3, <1>4, <1>5, DebtsBegin
<1>7. DebtsApart'
  BY <1>1, <1>2, <1>3 DEF DebtsApart
<1> QED
  BY <1>6, <1>7

LEMMA DebtsConnectSucceeds ==
    ASSUME DebtInv, NEW p \in Callers \cup Tasks, ConnectSucceeds(p)
    PROVE  OneDebt' /\ DebtsApart'
<1> USE DEF DebtInv, LoanInv, TypeInv, TypeOK
<1>1. /\ p \in Procs /\ pc[p] = "opening" /\ closing[p] = {}
      /\ conn[p] \in Conns /\ conn_state[conn[p]] = "pending"
  BY NullsDistinct DEF ConnectSucceeds, Connects, Settled, HasConn, Ownership, WorksWith,
     Holds, Procs
<1>2. \E label \in {"binding", "filling"} : MoveTo(p, label)
  BY DEF ConnectSucceeds
<1>3. \A c \in Conns : conn_state'[c] = "closed" <=> conn_state[c] = "closed"
  BY <1>1 DEF ConnectSucceeds, StateTypes
<1>4. \A c \in Conns : resource'[c] = resource[c] \/ conn_state[c] # "closed"
  BY <1>1 DEF ConnectSucceeds, CloseTypes
<1>5. /\ \A q \in Procs \ {p} : conn'[q] = conn[q]
      /\ conn'[p] = NoConn \/ conn'[p] = conn[p]
      /\ UNCHANGED <<closing, closes>>
  BY <1>1 DEF ConnectSucceeds, ProcTypes
<1> QED
  BY <1>1, <1>2, <1>3, <1>4, <1>5, DebtsMove

\* Steps that close the connection that p works with and leave it to p.
LEMMA DebtsClosing ==
    ASSUME DebtInv, NEW p \in Procs, conn[p] \in Conns, closing[p] = {},
           conn_state[conn[p]] # "closed",
           \A c \in Conns : conn_state'[c] = IF c = conn[p] THEN "closed" ELSE conn_state[c],
           \A c \in Conns \ {conn[p]} : resource'[c] = resource[c],
           UNCHANGED closes,
           closing' = [closing EXCEPT ![p] = {conn[p]}],
           conn' = [conn EXCEPT ![p] = NoConn],
           NEW label, MoveTo(p, label),
           label \in {"failed", "settling"} \/ (label = "reporting" /\ p \in Tasks)
    PROVE  OneDebt' /\ DebtsApart'
<1> USE DEF DebtInv, LoanInv, TypeInv, TypeOK
<1>1. /\ \A q \in Procs : pc'[q] = IF q = p THEN label ELSE pc[q]
      /\ \A q \in Procs : conn'[q] = IF q = p THEN NoConn ELSE conn[q]
      /\ \A q \in Procs : closing'[q] = IF q = p THEN {conn[p]} ELSE closing[q]
  BY DEF MoveTo, ProcTypes, CloseTypes
<1>2. \A c \in Conns : ~Owes(p, c)
  BY DEF Owes, OneDebt, DebtOf, Ownership, WorksWith
<1>3. \A q \in Procs, c \in Conns : Owes(q, c)' <=> Owes(q, c) \/ (q = p /\ c = conn[p])
  BY <1>1, <1>2, NullsDistinct DEF Owes
<1>4. OneDebt'
  BY <1>3, DebtsBegin
<1>5. DebtsApart'
  BY <1>1, ProcsDisjoint, NullsDistinct DEF DebtsApart, CloseTypes
<1> QED
  BY <1>4, <1>5

LEMMA DebtsConnectUnusable ==
    ASSUME DebtInv, NEW p \in Callers \cup Tasks, ConnectUnusable(p)
    PROVE  OneDebt' /\ DebtsApart'
<1> USE DEF DebtInv, LoanInv, TypeInv, TypeOK
<1>1. /\ p \in Procs /\ pc[p] = "opening" /\ closing[p] = {}
      /\ conn[p] \in Conns /\ conn_state[conn[p]] = "pending"
  BY NullsDistinct DEF ConnectUnusable, Connects, Settled, HasConn, Ownership, WorksWith,
     Holds, Procs
<1>2. PICK label : /\ MoveTo(p, label)
                   /\ label = "failed" \/ (label = "reporting" /\ p \in Tasks)
  BY DEF ConnectUnusable
<1>3. /\ \A c \in Conns : conn_state'[c] = IF c = conn[p] THEN "closed" ELSE conn_state[c]
      /\ \A c \in Conns \ {conn[p]} : resource'[c] = resource[c]
      /\ UNCHANGED closes
      /\ closing' = [closing EXCEPT ![p] = {conn[p]}]
      /\ conn' = [conn EXCEPT ![p] = NoConn]
  BY <1>1 DEF ConnectUnusable, DropPending, StateTypes, CloseTypes
<1> QED
  BY <1>1, <1>2, <1>3, DebtsClosing

LEMMA DebtsCheckIn ==
    ASSUME DebtInv, NEW p \in Callers, CheckIn(p)
    PROVE  OneDebt' /\ DebtsApart'
<1> USE DEF DebtInv, LoanInv, TypeInv, TypeOK
<1>1. /\ p \in Procs /\ pc[p] = "lent" /\ closing[p] = {} /\ conn[p] \in Conns
      /\ conn_state[conn[p]] = "in_use" /\ MoveTo(p, "settling")
      /\ conn' = [conn EXCEPT ![p] = NoConn] /\ UNCHANGED <<resource, closes>>
  BY DEF CheckIn, HasConn, DebtsApart, Procs
<1>2. CASE Discards(conn[p])
  BY <1>1, <1>2, DebtsClosing DEF CheckIn, StateTypes
<1>3. CASE ~Discards(conn[p])
  <2>1. /\ UNCHANGED closing
        /\ \A c \in Conns : conn_state'[c] = "closed" <=> conn_state[c] = "closed"
    BY <1>1, <1>3 DEF CheckIn, StateTypes
  <2>2. conn'[p] = NoConn /\ \A q \in Procs \ {p} : conn'[q] = conn[q]
    BY <1>1 DEF ProcTypes
  <2> QED
    BY <1>1, <2>1, <2>2, DebtsMove
<1> QED
  BY <1>2, <1>3

\* p is done with reporting a failed connection and will close it.
LEMMA DebtsPassOn ==
    ASSUME DebtInv, NEW p \in Procs, closing[p] = {}, pc[p] \in {"reporting", "clearing"},
           UNCHANGED <<resource, closes, conn_state>>,
           closing' = [closing EXCEPT ![p] = {conn[p]} \ {NoConn}],
           conn' = [conn EXCEPT ![p] = NoConn],
           NEW label, label \in {"failed", "settling"},
           pc'[p] = label,
           \A q \in Procs \ {p} : pc'[q] = pc[q] \/ (pc[q] = "idle" /\ pc'[q] = "scheduled")
    PROVE  OneDebt' /\ DebtsApart'
<1> USE DEF DebtInv, LoanInv, TypeInv, TypeOK
<1>1. /\ \A q \in Procs : conn'[q] = IF q = p THEN NoConn ELSE conn[q]
      /\ \A q \in Procs : closing'[q] = IF q = p THEN {conn[p]} \ {NoConn} ELSE closing[q]
  BY DEF ProcTypes, CloseTypes
<1>2. \A q \in Procs, c \in Conns : Owes(q, c)' <=> Owes(q, c)
  BY <1>1, NullsDistinct DEF Owes
<1>3. OneDebt'
  BY <1>2, DebtsGoOn
<1>4. DebtsApart'
  BY <1>1 DEF DebtsApart
<1> QED
  BY <1>3, <1>4

\* Steps that move a process past its settling, and may spawn a task.
LEMMA DebtsSchedule ==
    ASSUME DebtInv, NEW p \in Procs, closing[p] = {}, pc[p] \in {"binding", "settling"},
           UNCHANGED <<closeVars, conn_state, conn>>,
           NEW label, label \in {"lent", "idle"}, Schedule(p, label)
    PROVE  OneDebt' /\ DebtsApart'
<1> USE DEF DebtInv, LoanInv, TypeInv, TypeOK
<1>1. /\ pc'[p] \notin {"reporting", "clearing"}
      /\ \A q \in Procs \ {p} : pc'[q] = pc[q] \/ (pc[q] = "idle" /\ pc'[q] = "scheduled")
  BY DEF Schedule, MoveTo, ProcTypes
<1>2. \A q \in Procs, c \in Conns : Owes(q, c)' <=> Owes(q, c)
  BY <1>1 DEF Owes, closeVars
<1>3. OneDebt'
  BY <1>2, DebtsGoOn DEF closeVars
<1>4. DebtsApart'
  BY <1>1 DEF DebtsApart, closeVars
<1> QED
  BY <1>3, <1>4

LEMMA DebtsOfCallers ==
    ASSUME DebtInv, NEW p \in Callers,
           CheckOut(p) \/ CallerStep(p) \/ CancelSetup(p) \/ MarkError(p) \/ CheckIn(p)
    PROVE  OneDebt' /\ DebtsApart'
<1> USE DEF DebtInv, LoanInv, TypeInv, TypeOK
<1>0. p \in Procs
  BY DEF Procs
<1>1. CASE CheckOut(p) \/ GiveUp(p) \/ LeaveEvicted(p) \/ Taken(p) \/ FailCheckOut(p)
  <2>1. PICK label \in {"waiting", "idle", "lent"} : MoveTo(p, label)
    BY <1>1 DEF CheckOut, GiveUp, LeaveEvicted, Taken, FailCheckOut, CheckOutFailed
  <2>2. pc[p] \in {"idle", "waiting", "taking", "failed"} /\ closing[p] = {}
    BY <1>1 DEF CheckOut, GiveUp, LeaveEvicted, Taken, FailCheckOut, Polls, Settled
  <2>3. UNCHANGED <<closing, closes, resource, conn, conn_state>>
    BY <1>1 DEF CheckOut, GiveUp, LeaveEvicted, Taken, FailCheckOut, closeVars
  <2> HIDE DEF DebtInv
  <2> QED
    BY <1>0, <2>1, <2>2, <2>3, DebtsMove
<1>2. CASE CancelSetup(p) \/ MarkError(p)
  <2>1. UNCHANGED <<closing, closes, resource, conn, conn_state, pc>>
    BY <1>2 DEF CancelSetup, MarkError, closeVars, procVars
  <2> QED
    BY <2>1, DebtsGoOn DEF Owes, DebtsApart
<1>3. CASE BindConnection(p)
  <2>1. closing[p] = {} /\ pc[p] = "binding"
    BY <1>0, <1>3 DEF BindConnection, DebtsApart
  <2> QED
    BY <1>0, <1>3, <2>1, DebtsSchedule DEF BindConnection
<1>4. CASE CallerReported(p)
  <2>1. closing[p] = {} /\ pc[p] = "reporting" /\ conn[p] \in Conns
    BY <1>0, <1>4 DEF CallerReported, DebtsApart, HasConn
  <2>2. /\ closing' = [closing EXCEPT ![p] = {conn[p]} \ {NoConn}]
        /\ conn' = [conn EXCEPT ![p] = NoConn]
        /\ UNCHANGED <<resource, closes, conn_state>>
    BY <1>4, <2>1, NullsDistinct DEF CallerReported
  <2>3. pc'[p] = "failed" /\ \A q \in Procs \ {p} : pc'[q] = pc[q]
    BY <1>0, <1>4 DEF CallerReported, MoveTo, ProcTypes
  <2> HIDE DEF DebtInv
  <2> QED
    BY <1>0, <2>1, <2>2, <2>3, DebtsPassOn
<1> QED
  BY <1>1, <1>2, <1>3, <1>4, DebtsOfDetaching, DebtsCheckIn DEF CallerStep

LEMMA DebtsOfTasks ==
    ASSUME DebtInv, NEW t \in Tasks, TaskStep(t)
    PROVE  OneDebt' /\ DebtsApart'
<1> USE DEF DebtInv, LoanInv, TypeInv, TypeOK
<1>0. t \in Procs /\ t \notin Callers
  BY ProcsDisjoint DEF Procs
<1>1. CASE MaintainEnd(t)
  <2>1. /\ MoveTo(t, "idle") /\ pc[t] \in {"ending", "filling"} /\ closing[t] = {}
        /\ UNCHANGED <<closing, closes, resource, conn, conn_state>>
    BY <1>1 DEF MaintainEnd, Settled, closeVars
  <2> HIDE DEF DebtInv
  <2> QED
    BY <1>0, <2>1, DebtsMove
<1>2. CASE TaskReported(t) \/ TaskCleared(t)
  <2>1. /\ closing[t] = {} /\ pc[t] \in {"reporting", "clearing"}
        /\ closing' = [closing EXCEPT ![t] = {conn[t]} \ {NoConn}]
        /\ conn' = [conn EXCEPT ![t] = NoConn]
        /\ UNCHANGED <<resource, closes, conn_state>>
    BY <1>2 DEF TaskReported, TaskCleared, CloseFailed, Settled
  <2>2. /\ pc'[t] = "settling"
        /\ \A q \in Procs \ {t} : pc'[q] = pc[q] \/ (pc[q] = "idle" /\ pc'[q] = "scheduled")
    BY <1>0, <1>2 DEF TaskReported, TaskCleared, Schedule, MoveTo, ProcTypes
  <2> HIDE DEF DebtInv
  <2> QED
    BY <1>0, <2>1, <2>2, DebtsPassOn
<1>3. CASE TaskClears(t)
  <2>1. PICK s, cut : Collect(t, s, cut)
    BY <1>3 DEF TaskClears, ClearPool
  <2>2. /\ closing[t] = {} /\ pc[t] = "reporting" /\ UNCHANGED conn
        /\ MoveTo(t, "clearing")
    BY <1>3 DEF TaskClears, Settled
  <2> HIDE DEF DebtInv
  <2> QED
    BY <1>0, <2>1, <2>2, DebtsCollect
<1> QED
  BY <1>1, <1>2, <1>3, DebtsMaintain DEF TaskStep

LEMMA DebtsInit == Init => OneDebt /\ DebtsApart
  BY DEF Init, OneDebt, DebtOf, Owes, DebtsApart

LEMMA DebtsNext == DebtInv /\ [Next]_vars => DebtInv'
<1> SUFFICES ASSUME DebtInv, [Next]_vars PROVE OneDebt' /\ DebtsApart'
  BY LoansNext DEF DebtInv
<1>1. CASE \E p \in Callers \cup Tasks : Establish(p)
  BY <1>1, DebtsConnectFails, DebtsConnectSucceeds, DebtsConnectUnusable DEF Establish
<1>2. CASE \E p \in Procs : CloseStep(p)
  BY <1>2, DebtsFinishClose, DebtsCutResource DEF CloseStep
<1>3. CASE \E p \in Procs : Settle(p)
  BY <1>3, DebtsSchedule DEF Settle, Settled
<1>4. CASE \E c \in Conns : GarbageCollect(c)
  BY <1>4, DebtsGarbageCollect
<1>5. CASE Terminated \/ UNCHANGED vars
  BY <1>5, DebtsGoOn DEF Terminated, vars, procVars, closeVars, Owes, DebtInv, DebtsApart
<1> QED
  BY <1>1, <1>2, <1>3, <1>4, <1>5, DebtsOfCallers, DebtsOfTasks, DebtsOfControllers
     DEF Next

\* A connection that was closed is reported and its socket closed exactly once,
\* by the process that took it out of the pool, whoever else is closing things.
THEOREM ClosesCorrect == Spec => []ClosedOnce
<1>1. Init => DebtInv
  BY TypeInit, LoansInit, DebtsInit DEF DebtInv, LoanInv
<1>2. DebtInv => ClosedOnce
  <2> SUFFICES ASSUME DebtInv, NEW c \in Conns
               PROVE  LET owing == {p \in Procs : Owes(p, c)} IN
                      IF conn_state[c] = "closed"
                      THEN /\ closes[c] + Cardinality(owing) = 1
                           /\ closes[c] = 1 => resource[c] = "closed"
                      ELSE closes[c] = 0 /\ owing = {}
    BY DEF ClosedOnce
  <2> USE DEF DebtInv, OneDebt, DebtOf
  <2> DEFINE owing == {p \in Procs : Owes(p, c)}
  <2>1. CASE conn_state[c] = "closed" /\ closes[c] = 0
    <3>1. PICK p \in Procs : \A q \in Procs : Owes(q, c) <=> q = p
      BY <2>1
    <3>2. owing = {p}
      BY <3>1
    <3>3. Cardinality(owing) = 1
      BY <3>2, FS_Singleton
    <3> QED
      BY <2>1, <3>3
  <2>2. CASE conn_state[c] = "closed" /\ closes[c] = 1
    <3>1. owing = {} /\ resource[c] = "closed"
      BY <2>2
    <3>2. Cardinality(owing) = 0
      BY <3>1, FS_EmptySet
    <3> QED
      BY <2>2, <3>1, <3>2
  <2>3. CASE conn_state[c] # "closed"
    BY <2>3
  <2> QED
    BY <2>1, <2>2, <2>3
<1> QED
  BY <1>1, <1>2, DebtsNext, PTL DEF Spec

-----------------------------------------------------------------------------
(* Available connections.                                                  *)

\* What the theorem assumes: every clear reaches the connections it should.  A
\* clear of a load balanced pool as a whole leaves connections of the services
\* that were never cleared current (src/src/mongodb/pool.lua:1233), whereas the
\* topology clears such a pool by service.
ClearsReachAll == Services = {} \/ ~WholeClears

Lags(c) == conn_generation[c] < GenerationFor(conn_service[c])

MayLend == state = "ready" \/ (Services # {} /\ state = "paused")

\* What is in use may be returned as good only if it is; a clear since then, or
\* a pool that is not ready again, shows in its generation.
UsableOrLags(c) ==
    /\ conn_state[c] = "available" =>
          /\ MayLend /\ IsCurrent(c) /\ resource[c] = "open"
          /\ c \notin errored \cup interrupted
    /\ conn_state[c] = "in_use" =>
          /\ conn_generation[c] <= GenerationFor(conn_service[c])
          /\ resource[c] = "open" \/ c \in interrupted
          /\ c \in interrupted \/ (Services = {} /\ state = "paused") => Lags(c)
    /\ c \in errored \cup interrupted => conn_state[c] \in {"in_use", "closed"}

Usable ==
    /\ \A c \in Conns : UsableOrLags(c)
    /\ \A p \in Procs : cutting[p] \subseteq interrupted

UsableInv == DebtInv /\ Usable

LEMMA Generations ==
    ASSUME UsableInv, NEW c \in Conns
    PROVE  /\ GenerationFor(conn_service[c]) \in Int /\ conn_generation[c] \in Int
           /\ conn_service[c] \in Services \cup {NoService}
  BY NullsDistinct DEF UsableInv, DebtInv, LoanInv, TypeInv, TypeOK, PoolTypes, ConnTypes,
     GenerationFor

\* What a step does to a connection that it leaves alone, or takes out of use.
LeavesAlone(c) ==
    /\ conn_state'[c] = conn_state[c] /\ resource'[c] = resource[c]
    /\ conn_generation'[c] = conn_generation[c] /\ conn_service'[c] = conn_service[c]
    /\ c \in errored' <=> c \in errored
    /\ c \in interrupted' <=> c \in interrupted

PutsAside(c) ==
    /\ conn_state'[c] \in {"pending", "closed", "none"}
    /\ c \in errored' \cup interrupted' => conn_state'[c] = "closed"

LEMMA UsableGoesOn ==
    ASSUME UsableInv, UNCHANGED poolVars, NEW c \in Conns, LeavesAlone(c) \/ PutsAside(c)
    PROVE  UsableOrLags(c)'
<1>1. CASE LeavesAlone(c)
  BY <1>1 DEF LeavesAlone, UsableInv, Usable, UsableOrLags, MayLend, IsCurrent, Lags,
     GenerationFor, poolVars
<1>2. CASE PutsAside(c)
  BY <1>2 DEF PutsAside, UsableOrLags
<1> QED
  BY <1>1, <1>2

\* Steps that have nothing to do with what connections are worth.
LEMMA UsableElsewhere ==
    ASSUME UsableInv,
           UNCHANGED <<poolVars, conn_state, resource, cutting, conn_generation, conn_service,
                       errored, interrupted>>
    PROVE  Usable'
  BY UsableGoesOn DEF LeavesAlone, UsableInv, Usable

LEMMA UsableOfOthers ==
    ASSUME UsableInv,
           \/ \E p \in Callers : \/ CheckOut(p) \/ GiveUp(p) \/ LeaveEvicted(p) \/ Taken(p)
                               \/ BindConnection(p) \/ FailCheckOut(p) \/ CallerReported(p)
                               \/ CancelSetup(p)
           \/ \E t \in Tasks : MaintainEnd(t) \/ TaskReported(t) \/ TaskCleared(t)
           \/ \E k \in Controllers : CloseReturns(k)
           \/ \E p \in Procs : Settle(p)
           \/ Terminated \/ UNCHANGED vars
    PROVE  Usable'
<1>1. UNCHANGED <<poolVars, conn_state, resource, cutting, conn_generation, conn_service,
                  errored, interrupted>>
  BY DEF CheckOut, GiveUp, LeaveEvicted, Taken, BindConnection, FailCheckOut, CallerReported,
     CancelSetup, MaintainEnd, TaskReported, TaskCleared, CloseReturns, Settle, Terminated,
     vars, connVars, closeVars
<1> QED
  BY <1>1, UsableElsewhere

LEMMA UsableFinishClose ==
    ASSUME UsableInv, NEW p \in Procs, NEW d \in Conns, FinishClose(p, d)
    PROVE  Usable'
<1>1. conn_state[d] = "closed"
  BY DEF FinishClose, UsableInv, DebtInv, OneDebt, DebtOf, Owes
<1>2. \A c \in Conns : LeavesAlone(c) \/ PutsAside(c)
  BY <1>1 DEF FinishClose, connVars, LeavesAlone, PutsAside, UsableInv, DebtInv, LoanInv,
     TypeInv, TypeOK, CloseTypes
<1> QED
  BY <1>2, UsableGoesOn DEF FinishClose, connVars, UsableInv, Usable

LEMMA UsableCutResource ==
    ASSUME UsableInv, NEW p \in Procs, NEW d \in Conns, CutResource(p, d)
    PROVE  Usable'
<1> USE DEF UsableInv, DebtInv, LoanInv, TypeInv, TypeOK
<1>1. d \in interrupted
  BY DEF CutResource, Usable
<1>2. \A c \in Conns \ {d} : LeavesAlone(c)
  BY DEF CutResource, connVars, LeavesAlone, CloseTypes
<1>3. UsableOrLags(d)'
  BY <1>1 DEF CutResource, connVars, poolVars, Usable, UsableOrLags, Lags, GenerationFor
<1>4. \A q \in Procs : cutting'[q] \subseteq interrupted'
  BY DEF CutResource, connVars, Usable, CloseTypes
<1> QED
  BY <1>2, <1>3, <1>4, UsableGoesOn DEF CutResource, Usable

LEMMA UsableGarbageCollect ==
    ASSUME UsableInv, NEW d \in Conns, GarbageCollect(d)
    PROVE  Usable'
<1> USE DEF UsableInv, DebtInv, LoanInv, TypeInv, TypeOK
<1>1. \A c \in Conns : LeavesAlone(c) \/ PutsAside(c)
  BY DEF GarbageCollect, LeavesAlone, PutsAside, StateTypes, CloseTypes, ConnTypes
<1>2. \A q \in Procs : cutting'[q] \subseteq interrupted'
  BY DEF GarbageCollect, Unreferenced, Usable
<1> QED
  BY <1>1, <1>2, UsableGoesOn DEF GarbageCollect, Usable

LEMMA UsableMarkError ==
    ASSUME UsableInv, NEW p \in Callers, MarkError(p)
    PROVE  Usable'
<1> USE DEF UsableInv, DebtInv, LoanInv, TypeInv, TypeOK
<1>0. PICK d \in Conns : d = conn[p]
  BY DEF MarkError, HasConn, Procs
<1>1. conn_state[d] = "in_use"
  BY <1>0, NullsDistinct DEF MarkError, Ownership, WorksWith, Holds, Procs
<1>2. \A c \in Conns \ {d} : LeavesAlone(c)
  BY <1>0 DEF MarkError, closeVars, LeavesAlone
<1>3. UsableOrLags(d)'
  BY <1>1 DEF MarkError, closeVars, procVars, poolVars, Usable, UsableOrLags, Lags,
     GenerationFor
<1>4. \A c \in Conns : UsableOrLags(c)'
  <2> TAKE c \in Conns
  <2> HIDE DEF UsableInv
  <2>1. CASE c = d
    BY <1>3, <2>1
  <2>2. CASE c # d
    BY <1>2, <2>2, UsableGoesOn DEF MarkError
  <2> QED
    BY <2>1, <2>2
<1> QED
  BY <1>4 DEF MarkError, closeVars, Usable

LEMMA UsableTakeAvailable ==
    ASSUME UsableInv, NEW p \in Callers, TakeAvailable(p)
    PROVE  Usable'
<1> USE DEF UsableInv, DebtInv, LoanInv, TypeInv, TypeOK
<1>1. PICK culled \in SUBSET {c \in available : MayBePerished(c)}, d \in available :
         d \notin culled /\ IsCurrent(d) /\ Detach(p, culled, d, "in_use")
  BY DEF TakeAvailable
<1>2. UNCHANGED <<poolVars, resource, cutting, conn_generation, conn_service, errored,
                  interrupted>>
  BY <1>1 DEF TakeAvailable, Detach, connVars
<1>3. d \in Conns /\ conn_state[d] = "available" /\ conn_state'[d] = "in_use"
  BY <1>1 DEF Detach, Ownership, StateTypes
<1>4. UsableOrLags(d)'
  BY <1>1, <1>2, <1>3, Generations DEF Usable, UsableOrLags, MayLend, IsCurrent, Lags,
     GenerationFor, poolVars
<1>5. \A c \in Conns \ {d} : LeavesAlone(c) \/ PutsAside(c)
  BY <1>1, <1>2 DEF Detach, LeavesAlone, PutsAside
<1>6. \A c \in Conns : UsableOrLags(c)'
  <2> TAKE c \in Conns
  <2> HIDE DEF UsableInv
  <2>1. CASE c = d
    BY <1>4, <2>1
  <2>2. CASE c # d
    BY <1>2, <1>5, <2>2, UsableGoesOn
  <2> QED
    BY <2>1, <2>2
<1> QED
  BY <1>2, <1>6 DEF Usable

LEMMA UsableOfDetaching ==
    ASSUME UsableInv,
           \/ \E p \in Callers : OpenConnection(p) \/ CullOnly(p)
           \/ \E t \in Tasks : MaintainStart(t) \/ MaintainOpen(t)
    PROVE  Usable'
<1> USE DEF UsableInv, DebtInv, LoanInv, TypeInv, TypeOK
<1>1. CASE \/ \E p \in Callers : CullOnly(p)
           \/ \E t \in Tasks : MaintainStart(t)
  <2>1. PICK p, culled : Detach(p, culled, NoConn, "closed")
    BY <1>1 DEF CullOnly, MaintainStart
  <2>2. UNCHANGED <<poolVars, conn_generation, conn_service, errored, interrupted>>
    BY <1>1 DEF CullOnly, MaintainStart, connVars
  <2>3. \A c \in Conns : LeavesAlone(c) \/ PutsAside(c)
    BY <2>1, <2>2, NullsDistinct DEF Detach, LeavesAlone, PutsAside
  <2> QED
    BY <2>1, <2>2, <2>3, UsableGoesOn DEF Detach, Usable
<1>2. CASE \/ \E p \in Callers : OpenConnection(p)
           \/ \E t \in Tasks : MaintainOpen(t)
  <2>1. PICK p, culled, d : d \in Conns /\ NewConnection(p, d, culled)
    BY <1>2 DEF OpenConnection, MaintainOpen
  <2>2. UNCHANGED <<poolVars, conn_service, errored, interrupted>>
    BY <1>2, <2>1 DEF OpenConnection, MaintainOpen, NewConnection
  <2>3. d \notin errored \cup interrupted
    BY <2>1 DEF NewConnection, Usable, UsableOrLags
  <2>4. \A c \in Conns : LeavesAlone(c) \/ PutsAside(c)
    BY <2>1, <2>2, <2>3 DEF NewConnection, Detach, LeavesAlone, PutsAside, ConnTypes
  <2> QED
    BY <2>1, <2>2, <2>4, UsableGoesOn DEF NewConnection, Detach, Usable
<1> QED
  BY <1>1, <1>2

LEMMA UsableEstablish ==
    ASSUME UsableInv, NEW p \in Callers \cup Tasks, Establish(p)
    PROVE  Usable'
<1> USE DEF UsableInv, DebtInv, LoanInv, TypeInv, TypeOK
<1>0. PICK d \in Conns : d = conn[p]
  BY DEF Establish, ConnectFails, ConnectSucceeds, ConnectUnusable, Connects, HasConn, Procs
<1>1. conn_state[d] = "pending"
  BY <1>0, NullsDistinct DEF Establish, ConnectFails, ConnectSucceeds, ConnectUnusable, Connects,
     Ownership, WorksWith, Holds, Procs
<1>2. d \notin errored \cup interrupted
  BY <1>1 DEF Usable, UsableOrLags
<1>3. UNCHANGED <<poolVars, cutting, errored, interrupted>>
  BY DEF Establish, ConnectFails, ConnectSucceeds, ConnectUnusable, ApplyConnectionInfo,
     closeVars
<1>4. PICK s \in ServiceIds \cup {NoService} : ApplyConnectionInfo(d, s)
  BY <1>0 DEF Establish, ConnectFails, ConnectSucceeds, ConnectUnusable
<1>5. \A c \in Conns \ {d} : LeavesAlone(c)
  BY <1>0, <1>3, <1>4 DEF Establish, ConnectFails, ConnectSucceeds, ConnectUnusable, DropPending,
     ApplyConnectionInfo, closeVars, LeavesAlone, StateTypes, ConnTypes, CloseTypes
<1>6. conn_service'[d] = s /\ conn_generation'[d] = GenerationFor(s)
  BY <1>1, <1>4 DEF ApplyConnectionInfo, ConnTypes
<1>7. UsableOrLags(d)'
  <2>1. CASE ConnectSucceeds(p)
    <3>1. resource'[d] = "open" /\ state = "ready" /\ conn_state'[d] \in {"in_use", "available"}
      BY <1>0, <1>1, <2>1 DEF ConnectSucceeds, StateTypes, CloseTypes
    <3>2. GenerationFor(s)' = GenerationFor(s) /\ state' = state
      BY <1>3 DEF poolVars, GenerationFor
    <3>3. GenerationFor(s) \in Int
      BY <1>4, NullsDistinct DEF ServiceIds, GenerationFor, PoolTypes
    <3> QED
      BY <1>2, <1>3, <1>6, <3>1, <3>2, <3>3 DEF UsableOrLags, MayLend, IsCurrent, Lags
  <2>2. CASE ConnectFails(p) \/ ConnectUnusable(p)
    <3>1. conn_state'[d] = "closed"
      BY <1>0, <1>1, <2>2 DEF ConnectFails, ConnectUnusable, DropPending, StateTypes
    <3> QED
      BY <3>1 DEF UsableOrLags
  <2> QED
    BY <2>1, <2>2 DEF Establish
<1>8. \A c \in Conns : UsableOrLags(c)'
  <2> TAKE c \in Conns
  <2> HIDE DEF UsableInv
  <2>1. CASE c = d
    BY <1>7, <2>1
  <2>2. CASE c # d
    BY <1>3, <1>5, <2>2, UsableGoesOn
  <2> QED
    BY <2>1, <2>2
<1> QED
  BY <1>3, <1>8 DEF Usable

LEMMA UsableCheckIn ==
    ASSUME UsableInv, NEW p \in Callers, CheckIn(p)
    PROVE  Usable'
<1> USE DEF UsableInv, DebtInv, LoanInv, TypeInv, TypeOK
<1>0. PICK d \in Conns : d = conn[p]
  BY DEF CheckIn, HasConn, Procs
<1>1. conn_state[d] = "in_use"
  BY <1>0 DEF CheckIn
<1>2. UNCHANGED <<poolVars, resource, cutting, conn_generation, conn_service, errored,
                  interrupted>>
  BY DEF CheckIn, connVars
<1>3. \A c \in Conns \ {d} : LeavesAlone(c)
  BY <1>0, <1>2 DEF CheckIn, LeavesAlone, StateTypes
<1>4. UsableOrLags(d)'
  <2>1. CASE Discards(d)
    <3>1. conn_state'[d] = "closed"
      BY <1>0, <1>1, <2>1 DEF CheckIn, StateTypes
    <3> QED
      BY <3>1 DEF UsableOrLags
  <2>2. CASE ~Discards(d)
    <3>1. conn_state'[d] = "available"
      BY <1>0, <1>1, <2>2 DEF CheckIn, StateTypes
    <3>2. ~Lags(d)
      BY <1>1, <2>2, Generations DEF Discards, IsCurrent, Lags
    <3>3. d \notin interrupted /\ resource[d] = "open" /\ ~(Services = {} /\ state = "paused")
      BY <1>1, <3>2 DEF Usable, UsableOrLags
    <3>4. MayLend /\ d \notin errored
      BY <2>2, <3>3 DEF Discards, MayLend, PoolTypes
    <3> QED
      BY <1>2, <2>2, <3>1, <3>3, <3>4 DEF Discards, UsableOrLags, MayLend, IsCurrent,
         GenerationFor, poolVars
  <2> QED
    BY <2>1, <2>2
<1>5. \A c \in Conns : UsableOrLags(c)'
  <2> TAKE c \in Conns
  <2> HIDE DEF UsableInv
  <2>1. CASE c = d
    BY <1>0, <1>4, <2>1
  <2>2. CASE c # d
    BY <1>2, <1>3, <2>2, UsableGoesOn
  <2> QED
    BY <2>1, <2>2
<1> QED
  BY <1>2, <1>5 DEF Usable

LEMMA UsableReady ==
    ASSUME UsableInv, NEW k \in Controllers, Ready(k)
    PROVE  Usable'
<1>1. UNCHANGED <<generation, service_generations, conn_state, resource, cutting,
                  conn_generation, conn_service, errored, interrupted>>
  BY DEF Ready, connVars, closeVars
<1>2. \A c \in Conns : UsableOrLags(c)'
  BY <1>1 DEF Ready, UsableInv, Usable, UsableOrLags, MayLend, IsCurrent, Lags, GenerationFor
<1> QED
  BY <1>1, <1>2 DEF UsableInv, Usable

LEMMA UsableClearPool ==
    ASSUME UsableInv, ClearsReachAll, NEW p \in Procs, NEW interrupt \in BOOLEAN,
           ClearPool(p, interrupt)
    PROVE  Usable'
<1> USE DEF UsableInv, DebtInv, LoanInv, TypeInv, TypeOK
<1> DEFINE cut == IF interrupt THEN Interruptible(NoService) ELSE {}
<1>1. Services = {}
  BY DEF ClearPool, ClearsReachAll
<1>2. \A c \in Conns : conn_service[c] = NoService
  BY <1>1 DEF ConnTypes
<1>3. generation' = generation + 1 /\ generation \in Nat
  BY DEF ClearPool, PoolTypes
<1>4. /\ UNCHANGED <<resource, conn_generation, conn_service, errored>>
      /\ state' = "paused" /\ interrupted' = interrupted \cup cut
      /\ \A c \in Conns : conn_state'[c] = IF c \in available THEN "closed" ELSE conn_state[c]
      /\ cutting' = [cutting EXCEPT ![p] = {c \in cut : resource[c] # "closed"}]
  BY DEF ClearPool, Collect, Gone, MatchesService
<1>5. \A c \in cut : c \in Conns /\ conn_state[c] = "in_use"
  BY DEF Interruptible, in_use
<1>6. \A q \in Procs : cutting'[q] \subseteq interrupted'
  BY <1>4 DEF Usable, CloseTypes
<1> HIDE DEF cut
<1>7. ASSUME NEW c \in Conns PROVE UsableOrLags(c)'
  <2>1. CASE conn_state[c] = "in_use"
    <3>1. conn_state'[c] = "in_use"
      BY <1>4, <2>1 DEF Ownership
    <3>2. conn_generation[c] <= generation /\ conn_generation[c] \in Nat
      BY <1>2, <2>1 DEF Usable, UsableOrLags, GenerationFor, ConnTypes
    <3>3. conn_generation'[c] < GenerationFor(conn_service[c])' /\ Lags(c)'
      BY <1>2, <1>3, <1>4, <3>2 DEF GenerationFor, Lags
    <3>4. GenerationFor(conn_service[c])' \in Nat /\ conn_generation'[c] \in Nat
      BY <1>2, <1>3, <1>4, <3>2 DEF GenerationFor
    <3>5. resource'[c] = "open" \/ c \in interrupted'
      BY <1>4, <2>1 DEF Usable, UsableOrLags
    <3> QED
      BY <3>1, <3>3, <3>4, <3>5 DEF UsableOrLags
  <2>2. CASE conn_state[c] # "in_use"
    <3>1. conn_state'[c] \notin {"in_use", "available"}
      BY <1>4, <2>2 DEF Ownership
    <3>2. c \in errored' \cup interrupted' => conn_state'[c] = "closed"
      BY <1>4, <1>5, <2>2 DEF Usable, UsableOrLags
    <3> QED
      BY <3>1, <3>2 DEF UsableOrLags
  <2> QED
    BY <2>1, <2>2
<1> QED
  BY <1>6, <1>7 DEF Usable

LEMMA UsableClearService ==
    ASSUME UsableInv, NEW p \in Procs, NEW s \in Services, NEW interrupt \in BOOLEAN,
           ClearService(p, s, interrupt)
    PROVE  Usable'
<1> USE DEF UsableInv, DebtInv, LoanInv, TypeInv, TypeOK
<1> DEFINE cut == IF interrupt THEN Interruptible(s) ELSE {}
<1>1. s # NoService /\ Services # {}
  BY NullsDistinct
<1>2. /\ \A x \in Services \cup {NoService} :
             GenerationFor(x)' = IF x = s THEN GenerationFor(x) + 1 ELSE GenerationFor(x)
      /\ GenerationFor(s) \in Int
  BY <1>1 DEF ClearService, GenerationFor, PoolTypes
<1>3. /\ UNCHANGED <<state, resource, conn_generation, conn_service, errored>>
      /\ interrupted' = interrupted \cup cut
      /\ \A c \in Conns : conn_state'[c] = IF c \in available /\ conn_service[c] = s
                                         THEN "closed" ELSE conn_state[c]
      /\ cutting' = [cutting EXCEPT ![p] = {c \in cut : resource[c] # "closed"}]
  BY <1>1 DEF ClearService, Collect, Gone, MatchesService
<1>4. \A c \in cut : /\ c \in Conns /\ conn_state[c] = "in_use"
                    /\ conn_service[c] = s
  BY <1>1 DEF Interruptible, in_use, MatchesService
<1>5. \A q \in Procs : cutting'[q] \subseteq interrupted'
  BY <1>3 DEF Usable, CloseTypes
<1> HIDE DEF cut
<1>6. ASSUME NEW c \in Conns PROVE UsableOrLags(c)'
  <2> DEFINE g == GenerationFor(conn_service[c])
  <2>1. g \in Int /\ conn_generation[c] \in Int /\ conn_service[c] \in Services \cup {NoService}
    BY Generations
  <2>2. /\ conn_service'[c] = conn_service[c] /\ conn_generation'[c] = conn_generation[c]
        /\ g' = IF conn_service[c] = s THEN g + 1 ELSE g
    BY <1>2, <1>3, <2>1 DEF GenerationFor
  <2> HIDE DEF g
  <2>3. CASE conn_state[c] = "in_use"
    <3>1. conn_state'[c] = "in_use"
      BY <1>3, <2>3 DEF Ownership
    <3>2. conn_generation[c] <= g
      BY <2>3 DEF Usable, UsableOrLags, g
    <3>3. conn_generation'[c] <= g'
      BY <2>1, <2>2, <3>2
    <3>4. c \in interrupted' => conn_generation'[c] < g'
      <4>1. CASE c \in interrupted
        <5>1. conn_generation[c] < g
          BY <2>3, <4>1 DEF Usable, UsableOrLags, Lags, g
        <5> QED
          BY <2>1, <2>2, <5>1
      <4>2. CASE c \in cut
        BY <1>4, <2>1, <2>2, <3>2, <4>2
      <4> QED
        BY <1>3, <4>1, <4>2
    <3>5. resource'[c] = "open" \/ c \in interrupted'
      BY <1>3, <2>3 DEF Usable, UsableOrLags
    <3> QED
      BY <1>1, <3>1, <3>3, <3>4, <3>5 DEF UsableOrLags, Lags, g
  <2>4. CASE conn_state[c] = "available"
    <3>1. CASE conn_service[c] = s
      <4>1. conn_state'[c] = "closed"
        BY <1>3, <2>4, <3>1 DEF Ownership
      <4> QED
        BY <4>1 DEF UsableOrLags
    <3>2. CASE conn_service[c] # s
      <4>1. /\ MayLend /\ conn_generation[c] = g /\ resource[c] = "open"
            /\ c \notin errored \cup interrupted
        BY <2>4 DEF Usable, UsableOrLags, IsCurrent, g
      <4>2. MayLend' /\ conn_generation'[c] = g' /\ resource'[c] = "open"
        BY <1>3, <2>2, <3>2, <4>1 DEF MayLend
      <4>3. c \notin errored' \cup interrupted' /\ conn_state'[c] = "available"
        BY <1>3, <1>4, <2>4, <3>2, <4>1
      <4> QED
        BY <4>2, <4>3 DEF UsableOrLags, IsCurrent, g
    <3> QED
      BY <3>1, <3>2
  <2>5. CASE conn_state[c] \notin {"in_use", "available"}
    <3>1. conn_state'[c] = conn_state[c]
      BY <1>3, <2>5 DEF Ownership
    <3>2. c \in errored' \cup interrupted' => conn_state[c] = "closed"
      BY <1>3, <1>4, <2>5 DEF Usable, UsableOrLags
    <3> QED
      BY <2>5, <3>1, <3>2 DEF UsableOrLags
  <2> QED
    BY <2>3, <2>4, <2>5
<1> QED
  BY <1>5, <1>6 DEF Usable

LEMMA UsableClose ==
    ASSUME UsableInv, NEW k \in Controllers, Close(k)
    PROVE  Usable'
<1> USE DEF UsableInv, DebtInv, LoanInv, TypeInv, TypeOK
<1>1. /\ UNCHANGED <<generation, service_generations, resource, conn_generation,
                     conn_service, errored, interrupted>>
      /\ state' = "closed"
      /\ \A c \in Conns : conn_state'[c] = IF c \in available THEN "closed" ELSE conn_state[c]
      /\ cutting' = [cutting EXCEPT ![k] = {}]
  BY DEF Close, Collect, Gone, MatchesService
<1>2. \A q \in Procs : cutting'[q] \subseteq interrupted'
  BY <1>1 DEF Usable, CloseTypes
<1>3. ASSUME NEW c \in Conns PROVE UsableOrLags(c)'
  <2>1. conn_state[c] = "available" => conn_state'[c] = "closed"
    BY <1>1 DEF Ownership
  <2>2. conn_state[c] # "available" => conn_state'[c] = conn_state[c]
    BY <1>1 DEF Ownership
  <2> QED
    BY <1>1, <2>1, <2>2 DEF Usable, UsableOrLags, MayLend, Lags, GenerationFor
<1> QED
  BY <1>2, <1>3 DEF Usable

LEMMA UsableInit == Init => Usable
  BY DEF Init, Usable, UsableOrLags

LEMMA UsableNext == ClearsReachAll /\ UsableInv /\ [Next]_vars => UsableInv'
<1> SUFFICES ASSUME ClearsReachAll, UsableInv, [Next]_vars PROVE Usable'
  BY DebtsNext DEF UsableInv
<1>1. CASE \E p \in Callers : CheckOut(p) \/ CallerStep(p) \/ CancelSetup(p) \/ MarkError(p)
                              \/ CheckIn(p)
  BY <1>1, UsableOfOthers, UsableOfDetaching, UsableTakeAvailable, UsableMarkError,
     UsableCheckIn DEF CallerStep
<1>2. CASE \E t \in Tasks : TaskStep(t)
  BY <1>2, UsableOfOthers, UsableOfDetaching, UsableClearPool DEF TaskStep, TaskClears, Procs
<1>3. CASE \E k \in Controllers : Ready(k) \/ Clear(k) \/ Close(k) \/ CloseReturns(k)
  BY <1>3, UsableReady, UsableClearPool, UsableClearService, UsableClose, UsableOfOthers
     DEF Clear, Procs
<1>4. CASE \E p \in Callers \cup Tasks : Establish(p)
  BY <1>4, UsableEstablish
<1>5. CASE \E p \in Procs : CloseStep(p) \/ Settle(p)
  BY <1>5, UsableFinishClose, UsableCutResource, UsableOfOthers DEF CloseStep
<1>6. CASE \E c \in Conns : GarbageCollect(c)
  BY <1>6, UsableGarbageCollect
<1>7. CASE Terminated \/ UNCHANGED vars
  BY <1>7, UsableOfOthers
<1> QED
  BY <1>1, <1>2, <1>3, <1>4, <1>5, <1>6, <1>7 DEF Next

\* What is kept can be lent: no connection that a clear, a close, an error or an
\* interruption reached while it was in use ever becomes available again.
THEOREM AvailableCorrect == ClearsReachAll => (Spec => []AvailableAreUsable)
<1> SUFFICES ASSUME ClearsReachAll PROVE Spec => []AvailableAreUsable
  OBVIOUS
<1>1. Init => UsableInv
  BY TypeInit, LoansInit, DebtsInit, UsableInit DEF UsableInv, DebtInv, LoanInv
<1>2. UsableInv /\ [Next]_vars => UsableInv'
  BY UsableNext
<1>3. UsableInv => AvailableAreUsable
  BY DEF UsableInv, DebtInv, LoanInv, TypeInv, TypeOK, StateTypes, Ownership, Usable,
     UsableOrLags, MayLend, AvailableAreUsable
<1> QED
  BY <1>1, <1>2, <1>3, PTL DEF Spec

-----------------------------------------------------------------------------
(* Lending: every step of the pool is a step of a lending pool or changes  *)
(* nothing that a caller sees.                                             *)

LendsInv == CountInv /\ WaitersAreKnown

\* Callers that a connection is on its way to, or that have one.
Borrowing == {p \in Callers : pc[p] \in {"taking", "opening", "binding", "lent"}}

\* Each of them has a connection of its own that is not available.
LEMMA BorrowingIsBounded ==
    ASSUME LendsInv
    PROVE  /\ Cardinality(Borrowing) <= total_count - Cardinality(available)
           /\ Cardinality(Borrowing) \in Nat /\ Cardinality(available) \in Nat
<1> USE DEF LendsInv, CountInv, LoanInv, TypeInv, TypeOK
<1> DEFINE T == connections \ available
           f == [p \in Borrowing |-> conn[p]]
<1>1. available \in SUBSET connections /\ connections \in SUBSET Conns
  BY DEF connections, Ownership, StateTypes
<1>2. \A p \in Borrowing : conn[p] \in T
  BY NullsDistinct DEF Borrowing, HasConn, Ownership, WorksWith, Holds, connections, Procs
<1>3. \A p, q \in Borrowing : conn[p] = conn[q] => p = q
  BY NullsDistinct DEF Borrowing, HasConn, Ownership, Procs
<1>4. f \in Injection(Borrowing, T)
  BY <1>2, <1>3 DEF Injection, IsInjective
<1>5. IsFiniteSet(T)
  BY <1>1, SetsFinite, FS_Subset
<1>6. Cardinality(Borrowing) <= Cardinality(T) /\ IsFiniteSet(Borrowing)
  BY <1>4, <1>5, FS_Injection
<1>7. Cardinality(T) = total_count - Cardinality(available)
  BY <1>1, CardinalityMinus DEF Counts
<1>8. Cardinality(available) \in Nat
  BY <1>1, CardinalityInt
<1> QED
  BY <1>6, <1>7, <1>8, FS_CardinalityType

\* Who borrows, in the terms of the abstract pool.
LEMMA BorrowersLent ==
    ASSUME LendsInv
    PROVE  /\ Lending!Borrowers = {p \in Callers : pc[p] = "lent"}
           /\ Serving \cup Lending!Borrowers = Borrowing
           /\ Lending!Waiting = Range(wait_queue)
<1>1. \A p \in Callers : Loan[p] # NoConn <=> pc[p] = "lent"
  BY NullsDistinct DEF Loan, LendsInv, CountInv, LoanInv, TypeInv, HasConn, Procs
<1>2. Lending!Borrowers = {p \in Callers : pc[p] = "lent"}
  BY <1>1 DEF Lending!Borrowers
<1> QED
  BY <1>2 DEF Serving, Borrowing, Lending!Waiting, Lending!Range, Range

\* Steps that no caller notices.
LEMMA Unnoticed ==
    ASSUME UNCHANGED <<state, wait_queue, evicted>>,
           \A p \in Callers : pc'[p] # pc[p] \/ conn'[p] # conn[p] =>
              \/ {pc[p], pc'[p]} \subseteq {"taking", "opening", "binding"}
              \/ {pc[p], pc'[p]} \cap {"taking", "opening", "binding", "lent"} = {}
    PROVE  UNCHANGED Lending!lendingVars
<1>1. Turned' = Turned
  BY DEF Turned
<1>2. Serving' = Serving
  BY DEF Serving
<1>3. Loan' = Loan
  BY DEF Loan
<1> QED
  BY <1>1, <1>2, <1>3 DEF Lending!lendingVars

LEMMA LendsCheckOut ==
    ASSUME LendsInv, NEW p \in Callers, CheckOut(p)
    PROVE  Lending!Ask(p)
<1> USE DEF LendsInv, CountInv, LoanInv, TypeInv, TypeOK
<1>1. \A q \in Callers : pc'[q] = IF q = p THEN "waiting" ELSE pc[q]
  BY DEF CheckOut, MoveTo, ProcTypes, Procs
<1>2. Turned' = Turned /\ Serving' = Serving /\ Loan' = Loan
  BY <1>1 DEF CheckOut, Turned, Serving, Loan
<1>3. p \notin Lending!Waiting \cup Serving \cup Lending!Borrowers
  BY BorrowersLent DEF CheckOut, WaitersAreKnown, Serving
<1> QED
  BY <1>2, <1>3 DEF CheckOut, poolVars, Lending!Ask

LEMMA LendsLeave ==
    ASSUME LendsInv, NEW p \in Callers, GiveUp(p) \/ LeaveEvicted(p)
    PROVE  Lending!Leave(p)
<1> USE DEF LendsInv, CountInv, LoanInv, TypeInv, TypeOK
<1>1. RemoveWaiter(p) /\ UNCHANGED <<state, conn>> /\ pc[p] = "waiting" /\ MoveTo(p, "idle")
  BY DEF GiveUp, LeaveEvicted, Polls, CheckOutFailed, poolVars
<1>2. \A q \in Callers : pc'[q] = IF q = p THEN "idle" ELSE pc[q]
  BY <1>1 DEF MoveTo, ProcTypes, Procs
<1>3. Serving' = Serving /\ Loan' = Loan
  BY <1>1, <1>2 DEF Serving, Loan
<1>4. Turned' = Turned \ {p}
  BY <1>1 DEF RemoveWaiter, Turned, QueueTypes
<1>5. PICK i \in DOMAIN wait_queue : wait_queue[i] = p /\ wait_queue' = RemoveAt(wait_queue, i)
  BY <1>1 DEF RemoveWaiter
<1>6. RemoveAt(wait_queue, i) = Lending!RemoveAt(wait_queue, i)
  BY DEF RemoveAt, Lending!RemoveAt
<1> QED
  BY <1>1, <1>3, <1>4, <1>5, <1>6 DEF Lending!Leave

LEMMA LendsServe ==
    ASSUME LendsInv, NEW p \in Callers, TakeAvailable(p) \/ OpenConnection(p)
    PROVE  Lending!Serve(p)
<1> USE DEF LendsInv, CountInv, LoanInv, TypeInv, TypeOK
<1>1. /\ RemoveWaiter(p) /\ UNCHANGED state /\ pc[p] = "waiting" /\ evicted[p] = "no"
      /\ Head(wait_queue) = p
      /\ \A q \in Callers \ {p} : conn'[q] = conn[q]
      /\ \E label \in {"taking", "opening"} : MoveTo(p, label)
  BY DEF TakeAvailable, OpenConnection, NewConnection, IsServed, Polls, poolVars, ProcTypes,
     Procs
<1>2. PICK label \in {"taking", "opening"} : MoveTo(p, label)
  BY <1>1
<1>3. \A q \in Callers : pc'[q] = IF q = p THEN label ELSE pc[q]
  BY <1>2 DEF MoveTo, ProcTypes, Procs
<1>4. Serving' = Serving \cup {p} /\ Loan' = Loan
  BY <1>1, <1>3 DEF Serving, Loan
<1>5. Turned' = Turned /\ p \notin Turned
  BY <1>1 DEF RemoveWaiter, Turned, QueueTypes
<1>6. wait_queue # <<>> /\ wait_queue' = Tail(wait_queue)
  <2>1. PICK i \in DOMAIN wait_queue : wait_queue[i] = p /\ wait_queue' = RemoveAt(wait_queue, i)
    BY <1>1 DEF RemoveWaiter
  <2>2. wait_queue \in Seq(Callers) /\ i \in 1..Len(wait_queue) /\ Len(wait_queue) \in Nat
    BY DEF QueueTypes
  <2>3. wait_queue # <<>> /\ wait_queue[1] = p /\ 1 \in DOMAIN wait_queue
    BY <1>1, <2>2
  <2>4. i = 1
    BY <2>1, <2>3 DEF WaitersAreKnown, IsInjective
  <2>5. RemoveAt(wait_queue, 1) = SubSeq(wait_queue, 1, 0) \o SubSeq(wait_queue, 2, Len(wait_queue))
    BY DEF RemoveAt
  <2>6. SubSeq(wait_queue, 1, 0) = <<>>
    BY SubSeqEmpty
  <2>7. Tail(wait_queue) = SubSeq(wait_queue, 2, Len(wait_queue)) /\ Tail(wait_queue) \in Seq(Callers)
    BY <2>2, <2>3, TailIsSubSeq, HeadTailProperties
  <2>8. <<>> \o Tail(wait_queue) = Tail(wait_queue)
    BY <2>7, ConcatEmptySeq
  <2> QED
    BY <2>1, <2>3, <2>4, <2>5, <2>6, <2>7, <2>8
<1>7. MaxPoolSize > 0 => Cardinality(Borrowing) < MaxPoolSize
  <2>1. CASE TakeAvailable(p)
    <3>1. Cardinality(available) > 0
      BY <2>1, BorrowingIsBounded, SetsFinite, FS_Subset, FS_EmptySet
         DEF TakeAvailable, StateTypes
    <3> QED
      BY <3>1, BorrowingIsBounded, OptionsValid DEF WithinLimits, CountTypes
  <2>2. CASE OpenConnection(p)
    BY <2>2, BorrowingIsBounded, OptionsValid DEF OpenConnection, UnderLimit, CountTypes
  <2> QED
    BY <2>1, <2>2
<1>8. Lending!Cardinality(Borrowing) = Cardinality(Borrowing)
  BY DEF Lending!Cardinality, Cardinality
<1> QED
  BY <1>1, <1>4, <1>5, <1>6, <1>7, <1>8, BorrowersLent DEF Lending!Serve

\* The connection is handed over, and nobody else has it.
LEMMA LendsLend ==
    ASSUME LendsInv, NEW p \in Callers, Taken(p) \/ BindConnection(p)
    PROVE  \E c \in Conns : Lending!Lend(p, c)
<1> USE DEF LendsInv, CountInv, LoanInv, TypeInv, TypeOK
<1>1. /\ UNCHANGED <<state, wait_queue, evicted, conn>> /\ pc[p] \in {"taking", "binding"}
      /\ conn[p] \in Conns
  BY DEF Taken, BindConnection, poolVars, queueVars, HasConn, Procs
<1>2. \A q \in Callers : pc'[q] = IF q = p THEN "lent" ELSE pc[q]
  BY ProcsDisjoint DEF Taken, BindConnection, Schedule, MoveTo, ProcTypes, Procs
<1>3. Serving' = Serving \ {p} /\ p \in Serving /\ Turned' = Turned
  BY <1>1, <1>2 DEF Serving, Turned
<1>4. Loan' = [Loan EXCEPT ![p] = conn[p]]
  BY <1>1, <1>2 DEF Loan
<1>5. \A q \in Callers : Loan[q] # conn[p]
  BY <1>1, NullsDistinct DEF Loan, Ownership, Procs
<1> QED
  BY <1>1, <1>3, <1>4, <1>5 DEF Lending!Lend

LEMMA LendsReturn ==
    ASSUME LendsInv, NEW p \in Callers, CheckIn(p)
    PROVE  Lending!Return(p)
<1> USE DEF LendsInv, CountInv, LoanInv, TypeInv, TypeOK
<1>1. /\ UNCHANGED <<state, wait_queue, evicted>> /\ pc[p] = "lent"
      /\ \A q \in Callers \ {p} : conn'[q] = conn[q]
  BY DEF CheckIn, poolVars, queueVars, ProcTypes, Procs
<1>2. \A q \in Callers : pc'[q] = IF q = p THEN "settling" ELSE pc[q]
  BY DEF CheckIn, MoveTo, ProcTypes, Procs
<1>3. Serving' = Serving /\ Turned' = Turned
  BY <1>1, <1>2 DEF Serving, Turned
<1>4. Loan' = [Loan EXCEPT ![p] = NoConn]
  BY <1>1, <1>2 DEF Loan
<1> QED
  BY <1>1, <1>3, <1>4, BorrowersLent DEF Lending!Return

LEMMA LendsEstablish ==
    ASSUME LendsInv, NEW p \in Callers \cup Tasks, Establish(p)
    PROVE  (p \in Callers /\ Lending!Fail(p)) \/ UNCHANGED Lending!lendingVars
<1> USE DEF LendsInv, CountInv, LoanInv, TypeInv, TypeOK
<1>1. /\ UNCHANGED <<state, wait_queue, evicted>> /\ pc[p] = "opening"
      /\ \A q \in Callers \ {p} : conn'[q] = conn[q]
      /\ \E label \in {"reporting", "binding", "filling", "failed"} : MoveTo(p, label)
  BY DEF Establish, ConnectFails, ConnectSucceeds, ConnectUnusable, Connects, poolVars,
     queueVars, ProcTypes, Procs
<1>2. PICK label \in {"reporting", "binding", "filling", "failed"} : MoveTo(p, label)
  BY <1>1
<1>3. \A q \in Callers : pc'[q] = IF q = p THEN label ELSE pc[q]
  BY <1>2 DEF MoveTo, ProcTypes, Procs
<1>4. CASE p \in Callers /\ label # "binding"
  <2>1. Serving' = Serving \ {p} /\ p \in Serving /\ Turned' = Turned /\ Loan' = Loan
    BY <1>1, <1>3, <1>4 DEF Serving, Turned, Loan
  <2> QED
    BY <1>1, <1>4, <2>1 DEF Lending!Fail
<1>5. CASE p \in Tasks \/ label = "binding"
  <2>1. \A q \in Callers : pc'[q] # pc[q] \/ conn'[q] # conn[q] =>
           {pc[q], pc'[q]} \subseteq {"taking", "opening", "binding"}
    BY <1>1, <1>3, <1>5, ProcsDisjoint
  <2> QED
    BY <1>1, <2>1, Unnoticed
<1> QED
  BY <1>4, <1>5

\* A clear of the whole pool, or a close.
LEMMA LendsStop ==
    ASSUME LendsInv, NEW reason \in {"connectionError", "poolClosed"}, Evict(reason),
           UNCHANGED wait_queue, state # "closed",
           \A p \in Callers : pc'[p] = pc[p] /\ conn'[p] = conn[p]
    PROVE  Lending!Stop(state')
<1> USE DEF LendsInv, CountInv, LoanInv, TypeInv, TypeOK
<1>1. Serving' = Serving /\ Loan' = Loan
  BY DEF Serving, Loan
<1>2. Turned' = Range(wait_queue)
  BY DEF Evict, Turned, WaitersAreKnown
<1> QED
  BY <1>1, <1>2, BorrowersLent DEF Lending!Stop

LEMMA LendsOfCallers ==
    ASSUME LendsInv, NEW p \in Callers,
           CheckOut(p) \/ CallerStep(p) \/ CancelSetup(p) \/ MarkError(p) \/ CheckIn(p)
    PROVE  Lending!LendingNext \/ UNCHANGED Lending!lendingVars
<1> USE DEF LendsInv, CountInv, LoanInv, TypeInv, TypeOK
<1>1. CASE CullOnly(p) \/ CancelSetup(p) \/ MarkError(p)
  BY <1>1, Unnoticed DEF CullOnly, CancelSetup, MarkError, poolVars, queueVars, procVars
<1>2. CASE FailCheckOut(p) \/ CallerReported(p)
  <2>1. UNCHANGED <<state, wait_queue, evicted>>
    BY <1>2 DEF FailCheckOut, CallerReported, poolVars, queueVars
  <2>2. pc[p] \in {"reporting", "failed"} /\ pc'[p] \in {"failed", "idle"}
    BY <1>2 DEF FailCheckOut, CallerReported, CheckOutFailed, MoveTo, ProcTypes, Procs
  <2>3. \A q \in Callers \ {p} : pc'[q] = pc[q] /\ conn'[q] = conn[q]
    BY <1>2 DEF FailCheckOut, CallerReported, CheckOutFailed, MoveTo, ProcTypes, Procs
  <2> QED
    BY <2>1, <2>2, <2>3, Unnoticed
<1> HIDE DEF LendsInv
<1> QED
  BY <1>1, <1>2, LendsCheckOut, LendsLeave, LendsServe, LendsLend, LendsReturn
     DEF CallerStep, Lending!LendingNext

LEMMA LendsOfTasks ==
    ASSUME LendsInv, NEW t \in Tasks, TaskStep(t)
    PROVE  Lending!LendingNext \/ UNCHANGED Lending!lendingVars
<1> USE DEF LendsInv, CountInv, LoanInv, TypeInv, TypeOK
<1>1. \A p \in Callers : conn'[p] = conn[p]
  BY ProcsDisjoint DEF TaskStep, MaintainStart, MaintainOpen, NewConnection, MaintainEnd,
                       TaskReported, TaskClears, TaskCleared, CloseFailed, ProcTypes, Procs
<1>2. \A p \in Callers : pc'[p] = pc[p]
  BY ProcsDisjoint DEF TaskStep, MaintainStart, MaintainOpen, MaintainEnd, TaskReported,
                       TaskClears, TaskCleared, Schedule, MoveTo, ProcTypes, Procs
<1>3. CASE TaskClears(t)
  <2>1. /\ Evict("connectionError") /\ UNCHANGED wait_queue
        /\ state # "closed" /\ state' = "paused"
    BY <1>3 DEF TaskClears, ClearPool
  <2>2. Lending!Stop(state')
    BY <1>1, <1>2, <2>1, LendsStop
  <2> QED
    BY <2>1, <2>2 DEF Lending!LendingNext
<1>4. CASE ~TaskClears(t)
  <2>1. UNCHANGED <<state, wait_queue, evicted>>
    BY <1>4 DEF TaskStep, MaintainStart, MaintainOpen, MaintainEnd, TaskReported,
       TaskCleared, poolVars, queueVars
  <2> QED
    BY <1>1, <1>2, <2>1, Unnoticed
<1> QED
  BY <1>3, <1>4

LEMMA LendsOfControllers ==
    ASSUME LendsInv, NEW k \in Controllers, Ready(k) \/ Clear(k) \/ Close(k) \/ CloseReturns(k)
    PROVE  Lending!LendingNext \/ UNCHANGED Lending!lendingVars
<1> USE DEF LendsInv, CountInv, LoanInv, TypeInv, TypeOK
<1>1. UNCHANGED conn /\ \E label : MoveTo(k, label)
  BY DEF Ready, Clear, Close, CloseReturns
<1>2. \A p \in Callers : pc'[p] = pc[p] /\ conn'[p] = conn[p]
  BY <1>1, ProcsDisjoint DEF MoveTo, ProcTypes, Procs
<1>3. CASE Ready(k)
  <2>1. Serving' = Serving /\ Loan' = Loan /\ Turned' = Turned
    BY <1>2, <1>3 DEF Ready, Serving, Loan, Turned, queueVars
  <2> QED
    BY <1>3, <2>1 DEF Ready, queueVars, Lending!Start, Lending!LendingNext
<1>4. CASE CloseReturns(k) \/ \E interrupt \in BOOLEAN, s \in Services :
                                 ClearService(k, s, interrupt)
  BY <1>2, <1>4, Unnoticed DEF CloseReturns, ClearService, poolVars, queueVars
<1>5. CASE Close(k) \/ \E interrupt \in BOOLEAN : ClearPool(k, interrupt)
  <2>1. PICK reason \in {"connectionError", "poolClosed"} : Evict(reason)
    BY <1>5 DEF Close, ClearPool
  <2>2. UNCHANGED wait_queue /\ state # "closed" /\ state' \in {"paused", "closed"}
    BY <1>5 DEF Close, ClearPool
  <2>3. Lending!Stop(state')
    BY <1>2, <2>1, <2>2, LendsStop
  <2> QED
    BY <2>2, <2>3 DEF Lending!LendingNext
<1> QED
  BY <1>3, <1>4, <1>5 DEF Clear

LEMMA LendsNext ==
    LendsInv /\ [Next]_vars => [Lending!LendingNext]_(Lending!lendingVars)
<1> SUFFICES ASSUME LendsInv, [Next]_vars
             PROVE  Lending!LendingNext \/ UNCHANGED Lending!lendingVars
  OBVIOUS
<1>1. CASE \E p \in Callers \cup Tasks : Establish(p)
  BY <1>1, LendsEstablish DEF Lending!LendingNext
<1>2. CASE \E p \in Procs : CloseStep(p)
  BY <1>2, Unnoticed DEF CloseStep, FinishClose, CutResource, poolVars, queueVars, procVars
<1>3. CASE \E p \in Procs : Settle(p)
  <2>1. PICK p \in Procs : Settle(p)
    BY <1>3
  <2>2. UNCHANGED <<state, wait_queue, evicted, conn>> /\ pc[p] = "settling"
    BY <2>1 DEF Settle, poolVars, queueVars
  <2>3. \A q \in Callers : pc'[q] = IF q = p THEN "idle" ELSE pc[q]
    BY <2>1, ProcsDisjoint DEF Settle, Schedule, MoveTo, LendsInv, CountInv, LoanInv,
       TypeInv, TypeOK, ProcTypes, Procs
  <2> QED
    BY <2>2, <2>3, Unnoticed
<1>4. CASE \E c \in Conns : GarbageCollect(c)
  BY <1>4, Unnoticed DEF GarbageCollect, poolVars, queueVars, procVars
<1>5. CASE Terminated \/ UNCHANGED vars
  BY <1>5, Unnoticed DEF Terminated, vars, poolVars, queueVars, procVars
<1> QED
  BY <1>1, <1>2, <1>3, <1>4, <1>5, LendsOfCallers, LendsOfTasks, LendsOfControllers DEF Next

\* Callers see a lending pool: first come first served, exclusive loans within
\* max_pool_size, nobody served after an eviction, whatever clears, closes and
\* maintenance do inside.
THEOREM PoolImplementsLending == Spec => Lends
<1>1. Init => Lending!LendingInit
  BY DEF Init, Lending!LendingInit, Turned, Serving, Loan, Procs
<1>2. Spec => []LendsInv
  BY CountInvariant, WaitersCorrect, PTL DEF LendsInv
<1> QED
  BY <1>1, <1>2, LendsNext, PTL DEF Spec, Lends, Lending!LendingSpec
=============================================================================
