---------------------------- MODULE Pool_proofs ----------------------------
(***************************************************************************)
(* Theorems about Pool and their proofs.                                   *)
(***************************************************************************)
EXTENDS Pool, FiniteSetTheorems, SequenceTheorems, TLAPS

\* A process that works with a connection has one.
HasConn ==
    \A p \in Procs :
       (\/ pc[p] \in {"taking", "opening", "binding", "lent"}
        \/ pc[p] = "reporting" /\ p \in Callers)
       => conn[p] \in Conns

TypeInv == TypeOK /\ HasConn

LEMMA RemoveAtType ==
    ASSUME NEW S, NEW s \in Seq(S), NEW i \in DOMAIN s
    PROVE  RemoveAt(s, i) \in Seq(S)
<1>1. i \in 1..Len(s) /\ Len(s) \in Nat
  OBVIOUS
<1>2. SubSeq(s, 1, i-1) \in Seq(S)
  BY <1>1, SubSeqProperties
<1>3. SubSeq(s, i+1, Len(s)) \in Seq(S)
  BY <1>1, SubSeqProperties
<1> QED
  BY <1>2, <1>3, ConcatProperties DEF RemoveAt

LEMMA ExceptInt ==
    ASSUME NEW S, NEW f \in [S -> Int], NEW a
    PROVE  /\ [f EXCEPT ![a] = @ + 1] \in [S -> Int]
           /\ [f EXCEPT ![a] = @ - 1] \in [S -> Int]
<1>1. CASE a \in S
  <2>1. \A x : x \in S => f[x] \in Int
    OBVIOUS
  <2>2. f[a] + 1 \in Int /\ f[a] - 1 \in Int
    BY <1>1, <2>1
  <2>3. \A v \in Int : [f EXCEPT ![a] = v] \in [S -> Int]
    OBVIOUS
  <2> QED BY <2>2, <2>3
<1>2. CASE ~(a \in S)
  BY <1>2
<1> QED BY <1>1, <1>2

LEMMA CardinalityInt ==
    \A S \in SUBSET Conns : IsFiniteSet(S) /\ Cardinality(S) \in Nat
  BY SetsFinite, FS_Subset, FS_CardinalityType

LEMMA TypeInit == Init => TypeInv
<1> SUFFICES ASSUME Init PROVE TypeInv
  OBVIOUS
<1>1. PoolTypes /\ QueueTypes /\ CountTypes /\ CheckoutTypes
  BY DEF Init, PoolTypes, QueueTypes, CountTypes, CheckoutTypes
<1>2. TaskTypes /\ ConnTypes /\ StateTypes /\ CloseTypes
  BY DEF Init, TaskTypes, ConnTypes, StateTypes, CloseTypes
<1>3. ProcTypes
  BY DEF Init, ProcTypes, Procs, CallerPCs, TaskPCs, ControllerPCs
<1>4. HasConn
  BY DEF Init, HasConn
<1> QED
  BY <1>1, <1>2, <1>3, <1>4 DEF TypeInv, TypeOK

\* The variables of a group keep their types when the group does not change.
LEMMA TypesUnchanged ==
    /\ PoolTypes /\ UNCHANGED poolVars => PoolTypes'
    /\ QueueTypes /\ UNCHANGED queueVars => QueueTypes'
    /\ CountTypes /\ UNCHANGED countVars => CountTypes'
    /\ CheckoutTypes /\ UNCHANGED checkoutVars => CheckoutTypes'
    /\ TaskTypes /\ UNCHANGED taskVars => TaskTypes'
    /\ ConnTypes /\ UNCHANGED connVars => ConnTypes'
    /\ StateTypes /\ UNCHANGED <<available, conn_state>> => StateTypes'
    /\ CloseTypes /\ UNCHANGED closeVars => CloseTypes'
    /\ ProcTypes /\ UNCHANGED procVars => ProcTypes'
  BY DEF PoolTypes, poolVars, QueueTypes, queueVars, CountTypes, countVars,
         CheckoutTypes, checkoutVars, TaskTypes, taskVars, ConnTypes, connVars,
         StateTypes, CloseTypes, closeVars, ProcTypes, procVars

LEMMA TypeFinishClose ==
    ASSUME TypeInv, NEW p \in Procs, NEW c \in Conns, FinishClose(p, c)
    PROVE  TypeInv'
<1> USE DEF TypeInv, TypeOK
<1>1. /\ PoolTypes' /\ QueueTypes' /\ CountTypes' /\ CheckoutTypes' /\ TaskTypes'
      /\ ConnTypes' /\ StateTypes' /\ ProcTypes'
  BY TypesUnchanged DEF FinishClose
<1>2. CloseTypes'
  BY DEF FinishClose, CloseTypes, Procs
<1>3. HasConn'
  BY DEF HasConn, FinishClose, procVars
<1> QED
  BY <1>1, <1>2, <1>3

LEMMA TypeCutResource ==
    ASSUME TypeInv, NEW p \in Procs, NEW c \in Conns, CutResource(p, c)
    PROVE  TypeInv'
<1> USE DEF TypeInv, TypeOK
<1>1. /\ PoolTypes' /\ QueueTypes' /\ CountTypes' /\ CheckoutTypes' /\ TaskTypes'
      /\ ConnTypes' /\ StateTypes' /\ ProcTypes'
  BY TypesUnchanged DEF CutResource
<1>2. CloseTypes'
  BY DEF CutResource, CloseTypes, Procs
<1>3. HasConn'
  BY DEF HasConn, CutResource, procVars
<1> QED
  BY <1>1, <1>2, <1>3

LEMMA TypeCheckOut ==
    ASSUME TypeInv, NEW p \in Callers, CheckOut(p)
    PROVE  TypeInv'
<1> USE DEF TypeInv, TypeOK
<1>1. /\ PoolTypes' /\ CountTypes' /\ TaskTypes' /\ ConnTypes' /\ StateTypes'
      /\ CloseTypes'
  BY TypesUnchanged DEF CheckOut
<1>2. QueueTypes'
  BY DEF CheckOut, QueueTypes
<1>3. CheckoutTypes'
  BY DEF CheckOut, CheckoutTypes
<1>4. ProcTypes'
  BY ProcsDisjoint DEF CheckOut, ProcTypes, MoveTo, CallerPCs, Procs
<1>5. HasConn'
  BY ProcsDisjoint DEF HasConn, CheckOut, MoveTo, ProcTypes, Procs
<1> QED
  BY <1>1, <1>2, <1>3, <1>4, <1>5

LEMMA TypeGiveUp ==
    ASSUME TypeInv, NEW p \in Callers, GiveUp(p)
    PROVE  TypeInv'
<1> USE DEF TypeInv, TypeOK
<1>1. /\ PoolTypes' /\ CountTypes' /\ TaskTypes' /\ ConnTypes' /\ StateTypes'
      /\ CloseTypes'
  BY TypesUnchanged DEF GiveUp
<1>2. QueueTypes'
  BY RemoveAtType DEF GiveUp, RemoveWaiter, QueueTypes
<1>3. CheckoutTypes'
  BY DEF GiveUp, CheckOutFailed, CheckoutTypes
<1>4. ProcTypes'
  BY ProcsDisjoint DEF GiveUp, CheckOutFailed, ProcTypes, MoveTo, CallerPCs, Procs
<1>5. HasConn'
  BY ProcsDisjoint DEF HasConn, GiveUp, CheckOutFailed, MoveTo, ProcTypes, Procs
<1> QED
  BY <1>1, <1>2, <1>3, <1>4, <1>5

LEMMA TypeLeaveEvicted ==
    ASSUME TypeInv, NEW p \in Callers, LeaveEvicted(p)
    PROVE  TypeInv'
<1> USE DEF TypeInv, TypeOK
<1>1. /\ PoolTypes' /\ CountTypes' /\ TaskTypes' /\ ConnTypes' /\ StateTypes'
      /\ CloseTypes'
  BY TypesUnchanged DEF LeaveEvicted
<1>2. QueueTypes'
  BY RemoveAtType DEF LeaveEvicted, RemoveWaiter, QueueTypes
<1>3. CheckoutTypes'
  BY DEF LeaveEvicted, CheckOutFailed, CheckoutTypes
<1>4. ProcTypes'
   BY ProcsDisjoint DEF LeaveEvicted, CheckOutFailed, ProcTypes, MoveTo, CallerPCs,
                       Procs
<1>5. HasConn'
   BY ProcsDisjoint DEF HasConn, LeaveEvicted, CheckOutFailed, MoveTo, ProcTypes,
                       Procs
<1> QED
  BY <1>1, <1>2, <1>3, <1>4, <1>5

LEMMA TypeTakeAvailable ==
    ASSUME TypeInv, NEW p \in Callers, TakeAvailable(p)
    PROVE  TypeInv'
<1> USE DEF TypeInv, TypeOK
<1>1. PoolTypes' /\ TaskTypes' /\ ConnTypes'
  BY TypesUnchanged DEF TakeAvailable
<1>2. QueueTypes'
  BY RemoveAtType DEF TakeAvailable, RemoveWaiter, QueueTypes
<1>3. CountTypes'
  BY CardinalityInt DEF TakeAvailable, CountTypes, StateTypes
<1>4. CheckoutTypes'
  <2>1. PICK c \in Conns : BeginCheckout(c, purpose[p]) /\ UNCHANGED operation_count
    BY DEF TakeAvailable, StateTypes
  <2> QED
    BY <2>1, ExceptInt DEF BeginCheckout, CheckoutTypes, ProcTypes
<1>5. StateTypes'
  BY DEF TakeAvailable, Detach, StateTypes
<1>6. CloseTypes'
  BY DEF TakeAvailable, Detach, CloseTypes, StateTypes, Procs
<1>7. ProcTypes'
  BY ProcsDisjoint DEF TakeAvailable, MoveTo, ProcTypes, StateTypes, CallerPCs, TaskPCs,
                       ControllerPCs, Procs
<1>8. HasConn'
  BY ProcsDisjoint DEF TakeAvailable, MoveTo, HasConn, ProcTypes, StateTypes, Procs
<1> QED
  BY <1>1, <1>2, <1>3, <1>4, <1>5, <1>6, <1>7, <1>8

LEMMA TypeOpenConnection ==
    ASSUME TypeInv, NEW p \in Callers, OpenConnection(p)
    PROVE  TypeInv'
<1> USE DEF TypeInv, TypeOK
<1>1. PoolTypes' /\ CheckoutTypes' /\ TaskTypes'
  BY TypesUnchanged DEF OpenConnection
<1>2. QueueTypes'
  BY RemoveAtType DEF OpenConnection, RemoveWaiter, QueueTypes
<1>3. CountTypes'
  BY CardinalityInt DEF OpenConnection, NewConnection, CountTypes, StateTypes
<1>4. ConnTypes'
  BY DEF OpenConnection, NewConnection, ConnTypes, PoolTypes
<1>5. StateTypes'
  BY DEF OpenConnection, NewConnection, Detach, StateTypes
<1>6. CloseTypes'
  BY DEF OpenConnection, NewConnection, Detach, CloseTypes, StateTypes, Procs
<1>7. ProcTypes'
   BY ProcsDisjoint DEF OpenConnection, NewConnection, ProcTypes, MoveTo, CallerPCs,
                       Procs
<1>8. HasConn'
   BY ProcsDisjoint DEF HasConn, OpenConnection, NewConnection, MoveTo, ProcTypes,
                       Procs
<1> QED
  BY <1>1, <1>2, <1>3, <1>4, <1>5, <1>6, <1>7, <1>8

LEMMA TypeCullOnly ==
    ASSUME TypeInv, NEW p \in Callers, CullOnly(p)
    PROVE  TypeInv'
<1> USE DEF TypeInv, TypeOK
<1>1. /\ PoolTypes' /\ QueueTypes' /\ CheckoutTypes' /\ TaskTypes' /\ ConnTypes'
      /\ ProcTypes'
  BY TypesUnchanged DEF CullOnly
<1>2. CountTypes'
  BY CardinalityInt DEF CullOnly, CountTypes, StateTypes
<1>3. StateTypes'
  BY DEF CullOnly, Detach, StateTypes
<1>4. CloseTypes'
  BY DEF CullOnly, Detach, CloseTypes, StateTypes, Procs
<1>5. HasConn'
  BY DEF HasConn, CullOnly, procVars
<1> QED
  BY <1>1, <1>2, <1>3, <1>4, <1>5

LEMMA TypeCancelSetup ==
    ASSUME TypeInv, NEW p \in Callers, CancelSetup(p)
    PROVE  TypeInv'
<1> USE DEF TypeInv, TypeOK
<1>1. /\ PoolTypes' /\ QueueTypes' /\ CountTypes' /\ CheckoutTypes' /\ TaskTypes'
      /\ StateTypes' /\ CloseTypes' /\ ProcTypes'
  BY TypesUnchanged DEF CancelSetup
<1>2. ConnTypes'
  BY DEF CancelSetup, ConnTypes, HasConn, Procs
<1>3. HasConn'
  BY DEF HasConn, CancelSetup, procVars
<1> QED
  BY <1>1, <1>2, <1>3

LEMMA TypeTaken ==
    ASSUME TypeInv, NEW p \in Callers, Taken(p)
    PROVE  TypeInv'
<1> USE DEF TypeInv, TypeOK
<1>1. /\ PoolTypes' /\ QueueTypes' /\ CountTypes' /\ CheckoutTypes' /\ TaskTypes'
      /\ ConnTypes' /\ StateTypes' /\ CloseTypes'
  BY TypesUnchanged DEF Taken
<1>2. ProcTypes'
  BY ProcsDisjoint DEF Taken, ProcTypes, MoveTo, CallerPCs, Procs
<1>3. HasConn'
  BY ProcsDisjoint DEF HasConn, Taken, MoveTo, ProcTypes, Procs
<1> QED
  BY <1>1, <1>2, <1>3

LEMMA TypeBindConnection ==
    ASSUME TypeInv, NEW p \in Callers, BindConnection(p)
    PROVE  TypeInv'
<1> USE DEF TypeInv, TypeOK
<1>1. /\ PoolTypes' /\ QueueTypes' /\ CountTypes' /\ ConnTypes' /\ StateTypes'
      /\ CloseTypes'
  BY TypesUnchanged DEF BindConnection
<1>2. CheckoutTypes'
  BY ExceptInt DEF BindConnection, BeginCheckout, CheckoutTypes, ProcTypes
<1>3. TaskTypes'
  BY DEF BindConnection, Schedule, TaskTypes, taskVars
<1>4. ProcTypes'
   BY ProcsDisjoint DEF BindConnection, Schedule, ProcTypes, taskVars, MoveTo,
                       CallerPCs, TaskPCs, Procs
<1>5. HasConn'
   BY ProcsDisjoint DEF HasConn, BindConnection, Schedule, MoveTo, ProcTypes, Procs,
                       taskVars
<1> QED
  BY <1>1, <1>2, <1>3, <1>4, <1>5

LEMMA TypeFailCheckOut ==
    ASSUME TypeInv, NEW p \in Callers, FailCheckOut(p)
    PROVE  TypeInv'
<1> USE DEF TypeInv, TypeOK
<1>1. /\ PoolTypes' /\ QueueTypes' /\ CountTypes' /\ TaskTypes' /\ ConnTypes'
      /\ StateTypes' /\ CloseTypes'
  BY TypesUnchanged DEF FailCheckOut
<1>2. CheckoutTypes'
  BY DEF FailCheckOut, CheckOutFailed, CheckoutTypes
<1>3. ProcTypes'
   BY ProcsDisjoint DEF FailCheckOut, CheckOutFailed, ProcTypes, MoveTo, CallerPCs,
                       Procs
<1>4. HasConn'
   BY ProcsDisjoint DEF HasConn, FailCheckOut, CheckOutFailed, MoveTo, ProcTypes,
                       Procs
<1> QED
  BY <1>1, <1>2, <1>3, <1>4

LEMMA TypeConnectFails ==
    ASSUME TypeInv, NEW p \in Callers \cup Tasks, ConnectFails(p)
    PROVE  TypeInv'
<1> USE DEF TypeInv, TypeOK
<1>1. PoolTypes' /\ QueueTypes' /\ CheckoutTypes' /\ TaskTypes' /\ CloseTypes'
  BY TypesUnchanged DEF ConnectFails
<1>2. CountTypes'
  BY DEF ConnectFails, DropPending, CountTypes, HasConn, Procs, Connects
<1>3. ConnTypes'
   BY DEF ConnectFails, ApplyConnectionInfo, GenerationFor, ServiceIds, ConnTypes,
         PoolTypes, ProcTypes, HasConn, Procs, Connects
<1>4. StateTypes'
  BY DEF ConnectFails, DropPending, StateTypes, HasConn, Procs, Connects
<1>5. ProcTypes'
  BY ProcsDisjoint DEF ConnectFails, ProcTypes, MoveTo, CallerPCs, TaskPCs, Procs
<1>6. HasConn'
  BY ProcsDisjoint DEF HasConn, ConnectFails, Connects, MoveTo, ProcTypes, Procs
<1> QED
  BY <1>1, <1>2, <1>3, <1>4, <1>5, <1>6

LEMMA TypeConnectSucceeds ==
    ASSUME TypeInv, NEW p \in Callers \cup Tasks, ConnectSucceeds(p)
    PROVE  TypeInv'
<1> USE DEF TypeInv, TypeOK
<1>1. PoolTypes' /\ QueueTypes' /\ CheckoutTypes' /\ TaskTypes'
  BY TypesUnchanged DEF ConnectSucceeds
<1>2. CountTypes'
  BY DEF ConnectSucceeds, CountTypes, HasConn, Procs, Connects
<1>3. ConnTypes'
   BY DEF ConnectSucceeds, ApplyConnectionInfo, GenerationFor, ServiceIds, ConnTypes,
         PoolTypes, ProcTypes, HasConn, Procs, Connects
<1>4. StateTypes'
  BY DEF ConnectSucceeds, StateTypes, HasConn, Procs, Connects
<1>5. CloseTypes'
  BY DEF ConnectSucceeds, CloseTypes, ProcTypes, HasConn, Procs, Connects
<1>6. ProcTypes'
  BY ProcsDisjoint DEF ConnectSucceeds, ProcTypes, MoveTo, CallerPCs, TaskPCs, Procs
<1>7. HasConn'
  BY ProcsDisjoint DEF HasConn, ConnectSucceeds, Connects, MoveTo, ProcTypes, Procs
<1> QED
  BY <1>1, <1>2, <1>3, <1>4, <1>5, <1>6, <1>7

LEMMA TypeConnectUnusable ==
    ASSUME TypeInv, NEW p \in Callers \cup Tasks, ConnectUnusable(p)
    PROVE  TypeInv'
<1> USE DEF TypeInv, TypeOK
<1>1. PoolTypes' /\ QueueTypes' /\ CheckoutTypes' /\ TaskTypes'
  BY TypesUnchanged DEF ConnectUnusable
<1>2. CountTypes'
  BY DEF ConnectUnusable, DropPending, CountTypes, HasConn, Procs, Connects
<1>3. ConnTypes'
   BY DEF ConnectUnusable, ApplyConnectionInfo, GenerationFor, ServiceIds, ConnTypes,
         PoolTypes, ProcTypes, HasConn, Procs, Connects
<1>4. StateTypes'
  BY DEF ConnectUnusable, DropPending, StateTypes, HasConn, Procs, Connects
<1>5. CloseTypes'
  BY DEF ConnectUnusable, CloseTypes, ProcTypes, HasConn, Procs, Connects
<1>6. ProcTypes'
  BY ProcsDisjoint DEF ConnectUnusable, ProcTypes, MoveTo, CallerPCs, TaskPCs, Procs
<1>7. HasConn'
  BY ProcsDisjoint DEF HasConn, ConnectUnusable, Connects, MoveTo, ProcTypes, Procs
<1> QED
  BY <1>1, <1>2, <1>3, <1>4, <1>5, <1>6, <1>7

LEMMA TypeCallerReported ==
    ASSUME TypeInv, NEW p \in Callers, CallerReported(p)
    PROVE  TypeInv'
<1> USE DEF TypeInv, TypeOK
<1>1. /\ PoolTypes' /\ QueueTypes' /\ CountTypes' /\ CheckoutTypes' /\ TaskTypes'
      /\ ConnTypes' /\ StateTypes'
  BY TypesUnchanged DEF CallerReported
<1>2. CloseTypes'
  BY DEF CallerReported, CloseTypes, ProcTypes, HasConn, Procs
<1>3. ProcTypes'
  BY ProcsDisjoint DEF CallerReported, ProcTypes, MoveTo, CallerPCs, Procs
<1>4. HasConn'
  BY ProcsDisjoint DEF HasConn, CallerReported, MoveTo, ProcTypes, Procs
<1> QED
  BY <1>1, <1>2, <1>3, <1>4

LEMMA TypeMarkError ==
    ASSUME TypeInv, NEW p \in Callers, MarkError(p)
    PROVE  TypeInv'
<1> USE DEF TypeInv, TypeOK
<1>1. /\ PoolTypes' /\ QueueTypes' /\ CountTypes' /\ CheckoutTypes' /\ TaskTypes'
      /\ StateTypes' /\ CloseTypes' /\ ProcTypes'
  BY TypesUnchanged DEF MarkError
<1>2. ConnTypes'
  BY DEF MarkError, ConnTypes, HasConn, Procs
<1>3. HasConn'
  BY DEF HasConn, MarkError, procVars
<1> QED
  BY <1>1, <1>2, <1>3

LEMMA TypeCheckIn ==
    ASSUME TypeInv, NEW p \in Callers, CheckIn(p)
    PROVE  TypeInv'
<1> USE DEF TypeInv, TypeOK
<1>1. PoolTypes' /\ QueueTypes' /\ TaskTypes' /\ ConnTypes'
  BY TypesUnchanged DEF CheckIn
<1>2. CountTypes'
  BY DEF CheckIn, CountTypes, HasConn, Procs
<1>3. CheckoutTypes'
  <2>1. checkout_purposes' \in [Purposes -> Int]
    BY ExceptInt DEF CheckIn, CheckoutTypes
  <2>2. operation_count' \in Int
    BY DEF CheckIn, CheckoutTypes
  <2>3. checkout_purpose' \in [Conns -> Purposes \cup {NoPurpose}]
    BY DEF CheckIn, CheckoutTypes
  <2> QED
    BY <2>1, <2>2, <2>3 DEF CheckoutTypes
<1>4. StateTypes'
  BY DEF CheckIn, StateTypes, HasConn, Procs
<1>5. CloseTypes'
  BY DEF CheckIn, CloseTypes, ProcTypes, HasConn, Procs
<1>6. ProcTypes'
  BY ProcsDisjoint DEF CheckIn, ProcTypes, MoveTo, CallerPCs, Procs
<1>7. HasConn'
  BY ProcsDisjoint DEF HasConn, CheckIn, MoveTo, ProcTypes, Procs
<1> QED
  BY <1>1, <1>2, <1>3, <1>4, <1>5, <1>6, <1>7

LEMMA TypeSettle ==
    ASSUME TypeInv, NEW p \in Procs, Settle(p)
    PROVE  TypeInv'
<1> USE DEF TypeInv, TypeOK
<1>1. /\ PoolTypes' /\ QueueTypes' /\ CountTypes' /\ CheckoutTypes' /\ ConnTypes'
      /\ StateTypes' /\ CloseTypes'
  BY TypesUnchanged DEF Settle
<1>2. TaskTypes'
  BY DEF Settle, Schedule, TaskTypes, taskVars
<1>3. ProcTypes'
   BY ProcsDisjoint DEF Settle, Schedule, ProcTypes, taskVars, MoveTo, CallerPCs,
                       TaskPCs, ControllerPCs, Procs
<1>4. HasConn'
  BY ProcsDisjoint DEF HasConn, Settle, Schedule, MoveTo, ProcTypes, Procs, taskVars
<1> QED
  BY <1>1, <1>2, <1>3, <1>4

LEMMA TypeReady ==
    ASSUME TypeInv, NEW k \in Controllers, Ready(k)
    PROVE  TypeInv'
<1> USE DEF TypeInv, TypeOK
<1>1. /\ QueueTypes' /\ CountTypes' /\ CheckoutTypes' /\ TaskTypes' /\ ConnTypes'
      /\ StateTypes' /\ CloseTypes'
  BY TypesUnchanged DEF Ready
<1>2. PoolTypes'
  BY DEF Ready, PoolTypes
<1>3. ProcTypes'
  BY ProcsDisjoint DEF Ready, ProcTypes, MoveTo, ControllerPCs, Procs
<1>4. HasConn'
  BY ProcsDisjoint DEF HasConn, Ready, MoveTo, ProcTypes, Procs
<1> QED
  BY <1>1, <1>2, <1>3, <1>4

LEMMA TypeCollect ==
    ASSUME TypeInv, NEW p \in Procs, NEW s, NEW cut \in SUBSET Conns, Collect(p, s, cut)
    PROVE  CountTypes' /\ StateTypes' /\ CloseTypes'
<1> USE DEF TypeInv, TypeOK
<1>1. Gone(s) \subseteq Conns
  BY DEF Gone, StateTypes
<1>2. CountTypes'
  BY <1>1, CardinalityInt DEF Collect, CountTypes
<1>3. StateTypes'
  BY <1>1 DEF Collect, StateTypes
<1>4. CloseTypes'
  BY <1>1 DEF Collect, CloseTypes
<1> QED
  BY <1>2, <1>3, <1>4

LEMMA TypeEvict ==
    ASSUME QueueTypes, NEW reason \in {"connectionError", "poolClosed"}, Evict(reason),
           UNCHANGED wait_queue
    PROVE  QueueTypes'
  BY DEF Evict, QueueTypes

LEMMA TypeClearPool ==
    ASSUME TypeInv, NEW p \in Procs, NEW interrupt \in BOOLEAN, ClearPool(p, interrupt)
    PROVE  /\ PoolTypes' /\ QueueTypes' /\ CountTypes' /\ ConnTypes' /\ StateTypes'
           /\ CloseTypes'
<1> USE DEF TypeInv, TypeOK
<1> DEFINE cut == IF interrupt THEN Interruptible(NoService) ELSE {}
<1>1. cut \in SUBSET Conns
  BY DEF Interruptible, in_use
<1>2. CountTypes' /\ StateTypes' /\ CloseTypes'
  BY <1>1, TypeCollect DEF ClearPool
<1>3. PoolTypes'
  BY DEF ClearPool, PoolTypes
<1>4. QueueTypes'
  BY TypeEvict DEF ClearPool
<1>5. ConnTypes'
  BY <1>1 DEF ClearPool, ConnTypes, pending
<1> QED
  BY <1>2, <1>3, <1>4, <1>5

LEMMA TypeClearService ==
    ASSUME TypeInv, NEW p \in Procs, NEW s \in Services, NEW interrupt \in BOOLEAN,
           ClearService(p, s, interrupt)
    PROVE  /\ PoolTypes' /\ QueueTypes' /\ CountTypes' /\ ConnTypes' /\ StateTypes'
           /\ CloseTypes'
<1> USE DEF TypeInv, TypeOK
<1> DEFINE cut == IF interrupt THEN Interruptible(s) ELSE {}
<1>1. cut \in SUBSET Conns
  BY DEF Interruptible, in_use
<1>2. CountTypes' /\ StateTypes' /\ CloseTypes'
  BY <1>1, TypeCollect DEF ClearService
<1>3. PoolTypes'
  BY DEF ClearService, PoolTypes
<1>4. QueueTypes'
  BY TypesUnchanged DEF ClearService
<1>5. ConnTypes'
  BY <1>1 DEF ClearService, ConnTypes
<1> QED
  BY <1>2, <1>3, <1>4, <1>5

LEMMA TypeClear ==
    ASSUME TypeInv, NEW k \in Controllers, Clear(k)
    PROVE  TypeInv'
<1> USE DEF TypeInv, TypeOK
<1>1. CheckoutTypes' /\ TaskTypes'
  BY TypesUnchanged DEF Clear
<1>2. /\ PoolTypes' /\ QueueTypes' /\ CountTypes' /\ ConnTypes' /\ StateTypes'
      /\ CloseTypes'
  BY TypeClearPool, TypeClearService DEF Clear, Procs
<1>3. ProcTypes'
  BY ProcsDisjoint DEF Clear, MoveTo, ProcTypes, ControllerPCs, Procs
<1>4. HasConn'
  BY ProcsDisjoint DEF Clear, MoveTo, HasConn, ProcTypes, Procs
<1> QED
  BY <1>1, <1>2, <1>3, <1>4

LEMMA TypeClose ==
    ASSUME TypeInv, NEW k \in Controllers, Close(k)
    PROVE  TypeInv'
<1> USE DEF TypeInv, TypeOK
<1>1. CheckoutTypes' /\ TaskTypes'
  BY TypesUnchanged DEF Close
<1>2. CountTypes' /\ StateTypes' /\ CloseTypes'
  BY TypeCollect DEF Close, Procs
<1>3. PoolTypes'
  BY DEF Close, PoolTypes
<1>4. QueueTypes'
  BY TypeEvict DEF Close
<1>5. ConnTypes'
  BY DEF Close, ConnTypes, pending
<1>6. ProcTypes'
  BY ProcsDisjoint DEF Close, MoveTo, ProcTypes, ControllerPCs, Procs
<1>7. HasConn'
  BY ProcsDisjoint DEF Close, MoveTo, HasConn, ProcTypes, Procs
<1> QED
  BY <1>1, <1>2, <1>3, <1>4, <1>5, <1>6, <1>7

LEMMA TypeCloseReturns ==
    ASSUME TypeInv, NEW k \in Controllers, CloseReturns(k)
    PROVE  TypeInv'
<1> USE DEF TypeInv, TypeOK
<1>1. /\ PoolTypes' /\ QueueTypes' /\ CountTypes' /\ CheckoutTypes' /\ TaskTypes'
      /\ ConnTypes' /\ StateTypes' /\ CloseTypes'
  BY TypesUnchanged DEF CloseReturns
<1>2. ProcTypes'
  BY ProcsDisjoint DEF CloseReturns, ProcTypes, MoveTo, ControllerPCs, Procs
<1>3. HasConn'
  BY ProcsDisjoint DEF HasConn, CloseReturns, MoveTo, ProcTypes, Procs
<1> QED
  BY <1>1, <1>2, <1>3

LEMMA TypeMaintainStart ==
    ASSUME TypeInv, NEW t \in Tasks, MaintainStart(t)
    PROVE  TypeInv'
<1> USE DEF TypeInv, TypeOK
<1>1. PoolTypes' /\ QueueTypes' /\ CheckoutTypes' /\ ConnTypes'
  BY TypesUnchanged DEF MaintainStart
<1>2. CountTypes'
  BY CardinalityInt DEF MaintainStart, CountTypes, StateTypes
<1>3. TaskTypes'
  BY DEF MaintainStart, TaskTypes
<1>4. StateTypes'
  BY DEF MaintainStart, Detach, StateTypes
<1>5. CloseTypes'
  BY DEF MaintainStart, Detach, CloseTypes, StateTypes, Procs
<1>6. ProcTypes'
  BY ProcsDisjoint DEF MaintainStart, ProcTypes, MoveTo, TaskPCs, Procs
<1>7. HasConn'
  BY ProcsDisjoint DEF HasConn, MaintainStart, MoveTo, ProcTypes, Procs
<1> QED
  BY <1>1, <1>2, <1>3, <1>4, <1>5, <1>6, <1>7

LEMMA TypeMaintainOpen ==
    ASSUME TypeInv, NEW t \in Tasks, MaintainOpen(t)
    PROVE  TypeInv'
<1> USE DEF TypeInv, TypeOK
<1>1. PoolTypes' /\ QueueTypes' /\ CheckoutTypes' /\ TaskTypes'
  BY TypesUnchanged DEF MaintainOpen
<1>2. CountTypes'
  BY CardinalityInt DEF MaintainOpen, NewConnection, CountTypes, StateTypes
<1>3. ConnTypes'
  BY DEF MaintainOpen, NewConnection, ConnTypes, PoolTypes
<1>4. StateTypes'
  BY DEF MaintainOpen, NewConnection, Detach, StateTypes
<1>5. CloseTypes'
  BY DEF MaintainOpen, NewConnection, Detach, CloseTypes, StateTypes, Procs
<1>6. ProcTypes'
  BY ProcsDisjoint DEF MaintainOpen, NewConnection, ProcTypes, MoveTo, TaskPCs, Procs
<1>7. HasConn'
  BY ProcsDisjoint DEF HasConn, MaintainOpen, NewConnection, MoveTo, ProcTypes, Procs
<1> QED
  BY <1>1, <1>2, <1>3, <1>4, <1>5, <1>6, <1>7

LEMMA TypeMaintainEnd ==
    ASSUME TypeInv, NEW t \in Tasks, MaintainEnd(t)
    PROVE  TypeInv'
<1> USE DEF TypeInv, TypeOK
<1>1. /\ PoolTypes' /\ QueueTypes' /\ CountTypes' /\ CheckoutTypes' /\ TaskTypes'
      /\ ConnTypes' /\ StateTypes' /\ CloseTypes'
  BY TypesUnchanged DEF MaintainEnd
<1>2. ProcTypes'
  BY ProcsDisjoint DEF MaintainEnd, ProcTypes, MoveTo, TaskPCs, Procs
<1>3. HasConn'
  BY ProcsDisjoint DEF HasConn, MaintainEnd, MoveTo, ProcTypes, Procs
<1> QED
  BY <1>1, <1>2, <1>3

LEMMA TypeTaskReported ==
    ASSUME TypeInv, NEW t \in Tasks, TaskReported(t)
    PROVE  TypeInv'
<1> USE DEF TypeInv, TypeOK
<1>1. /\ PoolTypes' /\ QueueTypes' /\ CountTypes' /\ CheckoutTypes' /\ TaskTypes'
      /\ ConnTypes' /\ StateTypes'
  BY TypesUnchanged DEF TaskReported
<1>2. CloseTypes'
  BY DEF TaskReported, CloseFailed, CloseTypes, ProcTypes, Procs
<1>3. ProcTypes'
  BY ProcsDisjoint DEF TaskReported, CloseFailed, ProcTypes, MoveTo, TaskPCs, Procs
<1>4. HasConn'
  BY ProcsDisjoint DEF HasConn, TaskReported, CloseFailed, MoveTo, ProcTypes, Procs
<1> QED
  BY <1>1, <1>2, <1>3, <1>4

LEMMA TypeTaskClears ==
    ASSUME TypeInv, NEW t \in Tasks, TaskClears(t)
    PROVE  TypeInv'
<1> USE DEF TypeInv, TypeOK
<1>1. CheckoutTypes' /\ TaskTypes'
  BY TypesUnchanged DEF TaskClears
<1>2. /\ PoolTypes' /\ QueueTypes' /\ CountTypes' /\ ConnTypes' /\ StateTypes'
      /\ CloseTypes'
  BY TypeClearPool DEF TaskClears, Procs
<1>3. ProcTypes'
  BY ProcsDisjoint DEF TaskClears, MoveTo, ProcTypes, TaskPCs, Procs
<1>4. HasConn'
  BY ProcsDisjoint DEF TaskClears, MoveTo, HasConn, ProcTypes, Procs
<1> QED
  BY <1>1, <1>2, <1>3, <1>4

LEMMA TypeTaskCleared ==
    ASSUME TypeInv, NEW t \in Tasks, TaskCleared(t)
    PROVE  TypeInv'
<1> USE DEF TypeInv, TypeOK
<1>1. /\ PoolTypes' /\ QueueTypes' /\ CountTypes' /\ CheckoutTypes' /\ ConnTypes'
      /\ StateTypes'
  BY TypesUnchanged DEF TaskCleared
<1>2. TaskTypes'
  BY DEF TaskCleared, Schedule, TaskTypes, taskVars
<1>3. CloseTypes'
  BY DEF TaskCleared, CloseFailed, CloseTypes, ProcTypes, taskVars, Procs
<1>4. ProcTypes'
   BY ProcsDisjoint DEF TaskCleared, CloseFailed, Schedule, ProcTypes, taskVars,
                       MoveTo, TaskPCs, Procs
<1>5. HasConn'
   BY ProcsDisjoint DEF HasConn, TaskCleared, CloseFailed, Schedule, MoveTo,
                       ProcTypes, Procs, taskVars
<1> QED
  BY <1>1, <1>2, <1>3, <1>4, <1>5

LEMMA TypeGarbageCollect ==
    ASSUME TypeInv, NEW c \in Conns, GarbageCollect(c)
    PROVE  TypeInv'
<1> USE DEF TypeInv, TypeOK
<1>1. /\ PoolTypes' /\ QueueTypes' /\ CountTypes' /\ CheckoutTypes' /\ TaskTypes'
      /\ ProcTypes'
  BY TypesUnchanged DEF GarbageCollect
<1>2. ConnTypes'
  BY DEF GarbageCollect, ConnTypes
<1>3. StateTypes'
  BY DEF GarbageCollect, StateTypes
<1>4. CloseTypes'
  BY DEF GarbageCollect, CloseTypes, Procs
<1>5. HasConn'
  BY DEF HasConn, GarbageCollect, procVars
<1> QED
  BY <1>1, <1>2, <1>3, <1>4, <1>5

LEMMA TypeNext == TypeInv /\ [Next]_vars => TypeInv'
<1> SUFFICES ASSUME TypeInv, [Next]_vars PROVE TypeInv'
  OBVIOUS
<1>1. CASE \E p \in Callers : CheckOut(p) \/ CallerStep(p) \/ CancelSetup(p) \/ MarkError(p)
                              \/ CheckIn(p)
  BY <1>1, TypeCheckOut, TypeGiveUp, TypeLeaveEvicted, TypeTakeAvailable,
     TypeOpenConnection, TypeCullOnly, TypeTaken, TypeBindConnection, TypeFailCheckOut,
     TypeCallerReported, TypeCancelSetup, TypeMarkError, TypeCheckIn DEF CallerStep
<1>2. CASE \E t \in Tasks : TaskStep(t)
  BY <1>2, TypeMaintainStart, TypeMaintainOpen, TypeMaintainEnd, TypeTaskReported,
     TypeTaskClears, TypeTaskCleared DEF TaskStep
<1>3. CASE \E k \in Controllers : Ready(k) \/ Clear(k) \/ Close(k) \/ CloseReturns(k)
  BY <1>3, TypeReady, TypeClear, TypeClose, TypeCloseReturns
<1>4. CASE \E p \in Callers \cup Tasks : Establish(p)
  BY <1>4, TypeConnectFails, TypeConnectSucceeds, TypeConnectUnusable DEF Establish
<1>5. CASE \E p \in Procs : CloseStep(p) \/ Settle(p)
  BY <1>5, TypeFinishClose, TypeCutResource, TypeSettle DEF CloseStep
<1>6. CASE \E c \in Conns : GarbageCollect(c)
  BY <1>6, TypeGarbageCollect
<1>7. CASE Terminated \/ UNCHANGED vars
  <2>1. UNCHANGED vars
    BY <1>7 DEF Terminated
  <2>2. TypeOK'
    BY <2>1, TypesUnchanged DEF TypeInv, TypeOK, vars
  <2>3. HasConn'
    BY <2>1 DEF TypeInv, HasConn, vars, procVars
  <2> QED
    BY <2>2, <2>3 DEF TypeInv
<1> QED
  BY <1>1, <1>2, <1>3, <1>4, <1>5, <1>6, <1>7 DEF Next

\* Every variable of the pool keeps its type, and a coroutine that works with a
\* connection has one, for any number of callers, tasks and connections.
THEOREM TypeCorrect == Spec => []TypeOK
<1>1. TypeInv => TypeOK
  BY DEF TypeInv
<1> QED
  BY <1>1, TypeInit, TypeNext, PTL DEF Spec

-----------------------------------------------------------------------------
(* Whose a connection is: the proof that loans are exclusive. *)

\* A connection that a process works with is in the state that its pc says.
WorksWith(p) ==
    \/ pc[p] = "opening" /\ conn_state[conn[p]] = "pending"
    \/ Holds(p) /\ conn_state[conn[p]] = "in_use"
    \/ pc[p] \in {"reporting", "clearing"} /\ conn_state[conn[p]] = "closed"

\* Every connection is available, or has one owner, or is out of use.
Ownership ==
    /\ \A c \in Conns : c \in available <=> conn_state[c] = "available"
    /\ \A p \in Procs : conn[p] # NoConn => WorksWith(p)
    /\ \A p, q \in Procs : conn[p] = conn[q] /\ conn[p] # NoConn => p = q
    /\ \A c \in Conns : conn_state[c] \in {"pending", "in_use"} => \E p \in Procs : conn[p] = c

LoanInv == TypeInv /\ Ownership

LEMMA LoansFinishClose ==
    ASSUME LoanInv, NEW p \in Procs, NEW c \in Conns, FinishClose(p, c)
    PROVE  Ownership'
  BY DEF FinishClose, LoanInv, Ownership, WorksWith, Holds, procVars

LEMMA LoansCutResource ==
    ASSUME LoanInv, NEW p \in Procs, NEW c \in Conns, CutResource(p, c)
    PROVE  Ownership'
  BY DEF CutResource, LoanInv, Ownership, WorksWith, Holds, procVars

LEMMA LoansCheckOut ==
    ASSUME LoanInv, NEW p \in Callers, CheckOut(p)
    PROVE  Ownership'
  BY DEF CheckOut, MoveTo, LoanInv, Ownership, WorksWith, Holds

LEMMA LoansGiveUp ==
    ASSUME LoanInv, NEW p \in Callers, GiveUp(p)
    PROVE  Ownership'
  BY DEF GiveUp, Polls, CheckOutFailed, MoveTo, LoanInv, Ownership, WorksWith, Holds

LEMMA LoansLeaveEvicted ==
    ASSUME LoanInv, NEW p \in Callers, LeaveEvicted(p)
    PROVE  Ownership'
  BY DEF LeaveEvicted, Polls, CheckOutFailed, MoveTo, LoanInv, Ownership, WorksWith,
     Holds

LEMMA LoansTakeAvailable ==
    ASSUME LoanInv, NEW p \in Callers, TakeAvailable(p)
    PROVE  Ownership'
  BY NullsDistinct DEF TakeAvailable, IsServed, Polls, Detach, MoveTo, LoanInv,
     Ownership, WorksWith, Holds, TypeInv, TypeOK, StateTypes, ProcTypes, Procs

LEMMA LoansOpenConnection ==
    ASSUME LoanInv, NEW p \in Callers, OpenConnection(p)
    PROVE  Ownership'
  BY NullsDistinct DEF OpenConnection, IsServed, Polls, NewConnection, Detach,
     MoveTo, LoanInv, Ownership, WorksWith, Holds, TypeInv, TypeOK, ProcTypes, Procs

LEMMA LoansCullOnly ==
    ASSUME LoanInv, NEW p \in Callers, CullOnly(p)
    PROVE  Ownership'
  BY DEF CullOnly, Detach, LoanInv, Ownership, WorksWith, Holds, TypeInv, TypeOK,
     ProcTypes, procVars

LEMMA LoansCancelSetup ==
    ASSUME LoanInv, NEW p \in Callers, CancelSetup(p)
    PROVE  Ownership'
  BY DEF CancelSetup, LoanInv, Ownership, WorksWith, Holds, procVars

LEMMA LoansTaken ==
    ASSUME LoanInv, NEW p \in Callers, Taken(p)
    PROVE  Ownership'
  BY DEF Taken, MoveTo, LoanInv, Ownership, WorksWith, Holds

LEMMA LoansBindConnection ==
    ASSUME LoanInv, NEW p \in Callers, BindConnection(p)
    PROVE  Ownership'
  BY DEF BindConnection, Schedule, MoveTo, LoanInv, Ownership, WorksWith, Holds,
     TypeInv, TypeOK, ProcTypes

LEMMA LoansFailCheckOut ==
    ASSUME LoanInv, NEW p \in Callers, FailCheckOut(p)
    PROVE  Ownership'
  BY DEF FailCheckOut, CheckOutFailed, MoveTo, LoanInv, Ownership, WorksWith, Holds

LEMMA LoansConnectFails ==
    ASSUME LoanInv, NEW p \in Callers \cup Tasks, ConnectFails(p)
    PROVE  Ownership'
  BY NullsDistinct DEF ConnectFails, DropPending, MoveTo, LoanInv, Ownership,
     WorksWith, Holds, TypeInv, TypeOK, StateTypes, ProcTypes, Procs

LEMMA LoansConnectSucceeds ==
    ASSUME LoanInv, NEW p \in Callers \cup Tasks, ConnectSucceeds(p)
    PROVE  Ownership'
  BY NullsDistinct DEF ConnectSucceeds, MoveTo, LoanInv, Ownership, WorksWith, Holds,
     TypeInv, TypeOK, StateTypes, ProcTypes, Procs

LEMMA LoansConnectUnusable ==
    ASSUME LoanInv, NEW p \in Callers \cup Tasks, ConnectUnusable(p)
    PROVE  Ownership'
  BY NullsDistinct DEF ConnectUnusable, DropPending, MoveTo, LoanInv, Ownership,
     WorksWith, Holds, TypeInv, TypeOK, StateTypes, ProcTypes, Procs

LEMMA LoansCallerReported ==
    ASSUME LoanInv, NEW p \in Callers, CallerReported(p)
    PROVE  Ownership'
  BY DEF CallerReported, MoveTo, LoanInv, Ownership, WorksWith, Holds, TypeInv,
     TypeOK, ProcTypes

LEMMA LoansMarkError ==
    ASSUME LoanInv, NEW p \in Callers, MarkError(p)
    PROVE  Ownership'
  BY DEF MarkError, LoanInv, Ownership, WorksWith, Holds, procVars

LEMMA LoansCheckIn ==
    ASSUME LoanInv, NEW p \in Callers, CheckIn(p)
    PROVE  Ownership'
  BY DEF CheckIn, MoveTo, LoanInv, Ownership, WorksWith, Holds, TypeInv, TypeOK,
     StateTypes, ProcTypes, Procs

LEMMA LoansSettle ==
    ASSUME LoanInv, NEW p \in Procs, Settle(p)
    PROVE  Ownership'
  BY DEF Settle, Schedule, MoveTo, LoanInv, Ownership, WorksWith, Holds, TypeInv,
     TypeOK, ProcTypes

LEMMA LoansReady ==
    ASSUME LoanInv, NEW k \in Controllers, Ready(k)
    PROVE  Ownership'
  BY DEF Ready, MoveTo, LoanInv, Ownership, WorksWith, Holds

\* Closing available connections disturbs nobody's work.
LEMMA LoansCollect ==
    ASSUME LoanInv, NEW p \in Procs, NEW s, NEW cut, Collect(p, s, cut), UNCHANGED conn,
           NEW q \in Procs, conn[q] = NoConn, NEW label, MoveTo(q, label)
    PROVE  Ownership'
  BY DEF Collect, Gone, MoveTo, LoanInv, Ownership, WorksWith, Holds, TypeInv,
                       TypeOK, StateTypes, ProcTypes

LEMMA LoansClear ==
    ASSUME LoanInv, NEW k \in Controllers, Clear(k)
    PROVE  Ownership'
<1>1. conn[k] = NoConn
  BY ProcsDisjoint DEF Clear, LoanInv, Ownership, WorksWith, Holds, Procs
<1>2. PICK s, cut : Collect(k, s, cut)
  BY DEF Clear, ClearPool, ClearService
<1> QED
  BY <1>1, <1>2, LoansCollect DEF Clear, Procs

LEMMA LoansClose ==
    ASSUME LoanInv, NEW k \in Controllers, Close(k)
    PROVE  Ownership'
  BY DEF Close, Collect, Gone, MoveTo, LoanInv, Ownership, WorksWith, Holds, TypeInv,
     TypeOK, ProcTypes

LEMMA LoansCloseReturns ==
    ASSUME LoanInv, NEW k \in Controllers, CloseReturns(k)
    PROVE  Ownership'
  BY DEF CloseReturns, MoveTo, LoanInv, Ownership, WorksWith, Holds

LEMMA LoansMaintainStart ==
    ASSUME LoanInv, NEW t \in Tasks, MaintainStart(t)
    PROVE  Ownership'
  BY NullsDistinct DEF MaintainStart, Detach, MoveTo, LoanInv, Ownership, WorksWith,
     Holds, TypeInv, TypeOK, ProcTypes

LEMMA LoansMaintainOpen ==
    ASSUME LoanInv, NEW t \in Tasks, MaintainOpen(t)
    PROVE  Ownership'
  BY NullsDistinct DEF MaintainOpen, NewConnection, Detach, MoveTo, LoanInv,
     Ownership, WorksWith, Holds, TypeInv, TypeOK, ProcTypes, Procs

LEMMA LoansMaintainEnd ==
    ASSUME LoanInv, NEW t \in Tasks, MaintainEnd(t)
    PROVE  Ownership'
  BY DEF MaintainEnd, MoveTo, LoanInv, Ownership, WorksWith, Holds

LEMMA LoansTaskReported ==
    ASSUME LoanInv, NEW t \in Tasks, TaskReported(t)
    PROVE  Ownership'
  BY DEF TaskReported, CloseFailed, MoveTo, LoanInv, Ownership, WorksWith, Holds,
     TypeInv, TypeOK, ProcTypes

LEMMA LoansTaskClears ==
    ASSUME LoanInv, NEW t \in Tasks, TaskClears(t)
    PROVE  Ownership'
  BY DEF TaskClears, ClearPool, Collect, Gone, MoveTo, LoanInv, Ownership, WorksWith,
     Holds, TypeInv, TypeOK, ProcTypes

LEMMA LoansTaskCleared ==
    ASSUME LoanInv, NEW t \in Tasks, TaskCleared(t)
    PROVE  Ownership'
  BY DEF TaskCleared, CloseFailed, Schedule, MoveTo, LoanInv, Ownership, WorksWith,
     Holds, TypeInv, TypeOK, ProcTypes

LEMMA LoansGarbageCollect ==
    ASSUME LoanInv, NEW c \in Conns, GarbageCollect(c)
    PROVE  Ownership'
<1>1. \A p \in Procs : conn[p] # c
  BY DEF GarbageCollect, Unreferenced
<1> QED
  BY <1>1, NullsDistinct DEF GarbageCollect, procVars, LoanInv, Ownership, WorksWith,
     Holds, TypeInv, TypeOK, StateTypes, ProcTypes

LEMMA LoansInit == Init => Ownership
  BY NullsDistinct DEF Init, Ownership

LEMMA LoansNext == LoanInv /\ [Next]_vars => LoanInv'
<1> SUFFICES ASSUME LoanInv, [Next]_vars PROVE Ownership'
  BY TypeNext DEF LoanInv
<1>1. CASE \E p \in Callers : CheckOut(p) \/ CallerStep(p) \/ CancelSetup(p) \/ MarkError(p)
                              \/ CheckIn(p)
  BY <1>1, LoansCheckOut, LoansGiveUp, LoansLeaveEvicted, LoansTakeAvailable,
     LoansOpenConnection, LoansCullOnly, LoansTaken, LoansBindConnection,
     LoansFailCheckOut,
     LoansCallerReported, LoansCancelSetup, LoansMarkError, LoansCheckIn DEF CallerStep
<1>2. CASE \E t \in Tasks : TaskStep(t)
  BY <1>2, LoansMaintainStart, LoansMaintainOpen, LoansMaintainEnd, LoansTaskReported,
     LoansTaskClears, LoansTaskCleared DEF TaskStep
<1>3. CASE \E k \in Controllers : Ready(k) \/ Clear(k) \/ Close(k) \/ CloseReturns(k)
  BY <1>3, LoansReady, LoansClear, LoansClose, LoansCloseReturns
<1>4. CASE \E p \in Callers \cup Tasks : Establish(p)
  BY <1>4, LoansConnectFails, LoansConnectSucceeds, LoansConnectUnusable DEF Establish
<1>5. CASE \E p \in Procs : CloseStep(p) \/ Settle(p)
  BY <1>5, LoansFinishClose, LoansCutResource, LoansSettle DEF CloseStep
<1>6. CASE \E c \in Conns : GarbageCollect(c)
  BY <1>6, LoansGarbageCollect
<1>7. CASE Terminated \/ UNCHANGED vars
  BY <1>7 DEF Terminated, vars, procVars, LoanInv, Ownership, WorksWith, Holds
<1> QED
  BY <1>1, <1>2, <1>3, <1>4, <1>5, <1>6, <1>7 DEF Next

LEMMA LoanInvariant == Spec => []LoanInv
<1>1. Init => LoanInv
  BY TypeInit, LoansInit DEF LoanInv
<1> QED
  BY <1>1, LoansNext, PTL DEF Spec

\* A connection in use belongs to exactly one caller until that caller checks
\* it in, whatever clears, closes and maintenance do meanwhile.
THEOREM LoansCorrect == Spec => []LoansAreExclusive
<1>1. LoanInv => LoansAreExclusive
  BY NullsDistinct DEF LoanInv, TypeInv, HasConn, Ownership, WorksWith, Holds,
     in_use, LoansAreExclusive, TypeOK, ProcTypes, StateTypes
<1> QED
  BY <1>1, LoanInvariant, PTL

-----------------------------------------------------------------------------
(* The counters count what they should, so that the limits they guard are  *)
(* limits of the connections themselves.                                   *)

Counts ==
    /\ pending_count = Cardinality(pending)
    /\ in_use_count = Cardinality(in_use)
    /\ total_count = Cardinality(connections)

WithinLimits ==
    /\ MaxPoolSize > 0 => total_count <= MaxPoolSize
    /\ pending_count <= MaxConnecting

CountInv == LoanInv /\ Counts /\ WithinLimits

LEMMA CardinalityAdd ==
    ASSUME NEW S \in SUBSET Conns, NEW c \in Conns, ~(c \in S)
    PROVE  Cardinality(S \cup {c}) = Cardinality(S) + 1
  BY CardinalityInt, FS_AddElement

LEMMA CardinalityRemove ==
    ASSUME NEW S \in SUBSET Conns, NEW c \in S
    PROVE  Cardinality(S \ {c}) = Cardinality(S) - 1
  BY CardinalityInt, FS_RemoveElement

LEMMA CardinalityMinus ==
    ASSUME NEW S \in SUBSET Conns, NEW T \in SUBSET S
    PROVE  Cardinality(S \ T) = Cardinality(S) - Cardinality(T)
<1>1. S \cap T = T
  OBVIOUS
<1> QED
  BY <1>1, CardinalityInt, FS_Difference

\* What closing available connections does to the tables.
LEMMA CountsRetire ==
    ASSUME CountInv, NEW gone \in SUBSET available,
           conn_state' = [c \in Conns |-> IF c \in gone THEN "closed" ELSE conn_state[c]],
           total_count' = total_count - Cardinality(gone),
           UNCHANGED <<pending_count, in_use_count>>
    PROVE  Counts' /\ WithinLimits'
<1> USE DEF CountInv, LoanInv, TypeInv, TypeOK
<1>1. gone \in SUBSET connections /\ connections \in SUBSET Conns
  BY DEF connections, Ownership, StateTypes
<1>2. pending' = pending /\ in_use' = in_use /\ connections' = connections \ gone
  BY DEF pending, in_use, connections, Ownership, StateTypes
<1>3. Cardinality(connections') = Cardinality(connections) - Cardinality(gone)
  BY <1>1, <1>2, CardinalityMinus
<1>4. Counts'
  BY <1>2, <1>3 DEF Counts
<1>5. Cardinality(gone) \in Nat
  BY <1>1, CardinalityInt
<1> QED
  BY <1>4, <1>5, OptionsValid DEF WithinLimits, CountTypes

\* What opening a connection, after closing available ones, does to the tables.
LEMMA CountsNew ==
    ASSUME CountInv, NEW p, NEW c \in Conns, NEW culled \in SUBSET available,
           NewConnection(p, c, culled),
           UnderLimit(total_count - Cardinality(culled)),
           pending_count < MaxConnecting
    PROVE  Counts' /\ WithinLimits'
<1> USE DEF CountInv, LoanInv, TypeInv, TypeOK
<1>1. /\ culled \in SUBSET connections /\ connections \in SUBSET Conns
      /\ pending \in SUBSET Conns
  BY DEF connections, pending, Ownership, StateTypes
<1>2. conn_state' = [x \in Conns |-> IF x \in culled THEN "closed"
                                     ELSE IF x = c THEN "pending" ELSE conn_state[x]]
  BY DEF NewConnection, Detach
<1>3. conn_state[c] = "none" /\ ~(c \in culled)
  BY DEF NewConnection, Ownership
<1>4. /\ pending' = pending \cup {c} /\ in_use' = in_use
      /\ connections' = (connections \ culled) \cup {c}
  BY <1>2, <1>3 DEF pending, in_use, connections, Ownership, StateTypes
<1>5. ~(c \in connections \ culled) /\ ~(c \in pending)
  BY <1>3 DEF connections, pending
<1>6. Cardinality(pending') = Cardinality(pending) + 1
  BY <1>1, <1>4, <1>5, CardinalityAdd
<1>7. Cardinality(connections') = Cardinality(connections) - Cardinality(culled) + 1
  <2>1. connections \ culled \in SUBSET Conns
    BY <1>1
  <2>2. Cardinality(connections') = Cardinality(connections \ culled) + 1
    BY <1>4, <1>5, <2>1, CardinalityAdd
  <2> QED
    BY <1>1, <2>2, CardinalityMinus
<1>8. Counts'
  BY <1>4, <1>6, <1>7 DEF Counts, NewConnection
<1>9. Cardinality(culled) \in Nat
  BY <1>1, CardinalityInt
<1> QED
  BY <1>8, <1>9, OptionsValid DEF WithinLimits, CountTypes, NewConnection, UnderLimit

\* One connection changes its state and the tables follow it.
One(b) == IF b THEN 1 ELSE 0

LEMMA CardinalityMove ==
    ASSUME NEW S \in SUBSET Conns, NEW T \in SUBSET Conns, NEW c \in Conns,
           \A x \in Conns : x # c => (x \in S <=> x \in T)
    PROVE  Cardinality(T) = Cardinality(S) - One(c \in S) + One(c \in T)
<1>0. Cardinality(S) \in Nat
  BY CardinalityInt
<1>1. CASE c \in S /\ c \in T
  <2>1. S = T
    BY <1>1
  <2>2. One(c \in S) = 1 /\ One(c \in T) = 1
    BY <1>1 DEF One
  <2>3. Cardinality(T) = Cardinality(S)
    BY <2>1
  <2> QED
    BY <1>0, <2>2, <2>3
<1>2. CASE c \in S /\ ~(c \in T)
  <2>1. T = S \ {c}
    BY <1>2
  <2>2. One(c \in S) = 1 /\ One(c \in T) = 0
    BY <1>2 DEF One
  <2>3. Cardinality(T) = Cardinality(S) - 1
    BY <1>2, <2>1, CardinalityRemove
  <2> QED
    BY <1>0, <2>2, <2>3
<1>3. CASE ~(c \in S) /\ c \in T
  <2>1. T = S \cup {c}
    BY <1>3
  <2>2. One(c \in S) = 0 /\ One(c \in T) = 1
    BY <1>3 DEF One
  <2>3. Cardinality(T) = Cardinality(S) + 1
    BY <1>3, <2>1, CardinalityAdd
  <2> QED
    BY <1>0, <2>2, <2>3
<1>4. CASE ~(c \in S) /\ ~(c \in T)
  <2>1. S = T
    BY <1>4
  <2>2. One(c \in S) = 0 /\ One(c \in T) = 0
    BY <1>4 DEF One
  <2>3. Cardinality(T) = Cardinality(S)
    BY <2>1
  <2> QED
    BY <1>0, <2>2, <2>3
<1> QED
  BY <1>1, <1>2, <1>3, <1>4

LEMMA CountsMove ==
    ASSUME CountInv, NEW c \in Conns,
           NEW to \in {"none", "pending", "available", "in_use", "closed"},
           conn_state' = [conn_state EXCEPT ![c] = to]
    PROVE  /\ to # "pending" => Cardinality(pending') =
                IF conn_state[c] = "pending" THEN pending_count - 1 ELSE pending_count
           /\ to = "in_use" /\ conn_state[c] # "in_use" =>
                Cardinality(in_use') = in_use_count + 1
           /\ to # "in_use" => Cardinality(in_use') =
                IF conn_state[c] = "in_use" THEN in_use_count - 1 ELSE in_use_count
           /\ to \in {"none", "closed"} => Cardinality(connections') =
                IF conn_state[c] \in {"none", "closed"} THEN total_count ELSE total_count - 1
           /\ ~(to \in {"none", "closed"}) /\ ~(conn_state[c] \in {"none", "closed"}) =>
                Cardinality(connections') = total_count
<1> USE DEF CountInv, LoanInv, TypeInv, TypeOK
<1>1. /\ pending \in SUBSET Conns /\ in_use \in SUBSET Conns /\ connections \in SUBSET Conns
      /\ pending' \in SUBSET Conns /\ in_use' \in SUBSET Conns /\ connections' \in SUBSET Conns
  BY DEF pending, in_use, connections
<1>2. \A x \in Conns : x # c => /\ x \in pending <=> x \in pending'
                                /\ x \in in_use <=> x \in in_use'
                                /\ x \in connections <=> x \in connections'
  BY DEF pending, in_use, connections, StateTypes
<1>3. /\ c \in pending <=> conn_state[c] = "pending"
      /\ c \in pending' <=> to = "pending"
      /\ c \in in_use <=> conn_state[c] = "in_use"
      /\ c \in in_use' <=> to = "in_use"
      /\ c \in connections <=> ~(conn_state[c] \in {"none", "closed"})
      /\ c \in connections' <=> ~(to \in {"none", "closed"})
  BY DEF pending, in_use, connections, StateTypes
<1>4. Cardinality(pending') = Cardinality(pending) - One(c \in pending) + One(c \in pending')
  BY <1>1, <1>2, CardinalityMove
<1>5. Cardinality(in_use') = Cardinality(in_use) - One(c \in in_use) + One(c \in in_use')
  BY <1>1, <1>2, CardinalityMove
<1>6. Cardinality(connections')
        = Cardinality(connections) - One(c \in connections) + One(c \in connections')
  BY <1>1, <1>2, CardinalityMove
<1> QED
  BY <1>3, <1>4, <1>5, <1>6 DEF Counts, One, CountTypes

LEMMA CountsUnmoved ==
    ASSUME CountInv, UNCHANGED <<conn_state, countVars>>
    PROVE  Counts' /\ WithinLimits'
  BY DEF CountInv, Counts, WithinLimits, pending, in_use, connections, countVars

LEMMA CountsTakeAvailable ==
    ASSUME CountInv, NEW p \in Callers, TakeAvailable(p)
    PROVE  Counts' /\ WithinLimits'
<1> USE DEF CountInv, LoanInv, TypeInv, TypeOK
<1>1. PICK culled \in SUBSET available : \E c \in available \ culled :
          /\ Detach(p, culled, c, "in_use")
          /\ total_count' = total_count - Cardinality(culled)
          /\ in_use_count' = in_use_count + 1
  BY DEF TakeAvailable
<1>2. PICK c \in available \ culled :
          /\ Detach(p, culled, c, "in_use")
          /\ total_count' = total_count - Cardinality(culled)
          /\ in_use_count' = in_use_count + 1
  BY <1>1
<1>3. conn_state' = [x \in Conns |-> IF x \in culled THEN "closed"
                                     ELSE IF x = c THEN "in_use" ELSE conn_state[x]]
  BY <1>2 DEF Detach
<1>4. /\ culled \in SUBSET connections /\ connections \in SUBSET Conns
      /\ in_use \in SUBSET Conns /\ c \in Conns /\ ~(c \in in_use)
  BY DEF connections, in_use, Ownership, StateTypes
<1>5. /\ pending' = pending /\ in_use' = in_use \cup {c}
      /\ connections' = connections \ culled
  BY <1>3 DEF pending, in_use, connections, Ownership, StateTypes
<1>6. Cardinality(in_use') = Cardinality(in_use) + 1
  BY <1>4, <1>5, CardinalityAdd
<1>7. Cardinality(connections') = Cardinality(connections) - Cardinality(culled)
  BY <1>4, <1>5, CardinalityMinus
<1>8. Counts'
  BY <1>2, <1>5, <1>6, <1>7 DEF Counts, TakeAvailable
<1>9. Cardinality(culled) \in Nat
  BY <1>4, CardinalityInt
<1> QED
  BY <1>2, <1>8, <1>9, OptionsValid DEF WithinLimits, CountTypes, TakeAvailable

LEMMA CountsOpenConnection ==
    ASSUME CountInv, NEW p \in Callers, OpenConnection(p)
    PROVE  Counts' /\ WithinLimits'
  BY CountsNew DEF OpenConnection

LEMMA CountsMaintainOpen ==
    ASSUME CountInv, NEW t \in Tasks, MaintainOpen(t)
    PROVE  Counts' /\ WithinLimits'
<1>1. Cardinality({}) = 0
  BY FS_EmptySet
<1>2. total_count - Cardinality({}) = total_count
  BY <1>1 DEF CountInv, LoanInv, TypeInv, TypeOK, CountTypes
<1> QED
  BY <1>2, CountsNew DEF MaintainOpen, NeedsConnection

LEMMA CountsDetach ==
    ASSUME CountInv, NEW p, NEW culled \in SUBSET available,
           Detach(p, culled, NoConn, "closed"),
           total_count' = total_count - Cardinality(culled),
           UNCHANGED <<pending_count, in_use_count>>
    PROVE  Counts' /\ WithinLimits'
<1>1. conn_state' = [c \in Conns |-> IF c \in culled THEN "closed" ELSE conn_state[c]]
  BY NullsDistinct DEF Detach
<1> QED
  BY <1>1, CountsRetire

LEMMA CountsCullOnly ==
    ASSUME CountInv, NEW p \in Callers, CullOnly(p)
    PROVE  Counts' /\ WithinLimits'
  BY CountsDetach DEF CullOnly

LEMMA CountsMaintainStart ==
    ASSUME CountInv, NEW t \in Tasks, MaintainStart(t)
    PROVE  Counts' /\ WithinLimits'
<1>1. PICK culled \in SUBSET available :
          /\ Detach(t, culled, NoConn, "closed")
          /\ total_count' = total_count - Cardinality(culled)
  BY DEF MaintainStart
<1> QED
  BY <1>1, CountsDetach DEF MaintainStart

LEMMA CountsCollect ==
    ASSUME CountInv, NEW p, NEW s, NEW cut, Collect(p, s, cut)
    PROVE  Counts' /\ WithinLimits'
<1>1. Gone(s) \in SUBSET available
  BY DEF Gone
<1> QED
  BY <1>1, CountsRetire DEF Collect

LEMMA CountsClear ==
    ASSUME CountInv, NEW k \in Controllers, Clear(k)
    PROVE  Counts' /\ WithinLimits'
<1>1. PICK s, cut : Collect(k, s, cut)
  BY DEF Clear, ClearPool, ClearService
<1> QED
  BY <1>1, CountsCollect

LEMMA CountsClose ==
    ASSUME CountInv, NEW k \in Controllers, Close(k)
    PROVE  Counts' /\ WithinLimits'
  BY CountsCollect DEF Close

LEMMA CountsTaskClears ==
    ASSUME CountInv, NEW t \in Tasks, TaskClears(t)
    PROVE  Counts' /\ WithinLimits'
<1>1. PICK s, cut : Collect(t, s, cut)
  BY DEF TaskClears, ClearPool
<1> QED
  BY <1>1, CountsCollect

\* The connection of a process that is establishing it.
LEMMA ConnectingIsPending ==
    ASSUME LoanInv, NEW p \in Procs, Connects(p)
    PROVE  conn[p] \in Conns /\ conn_state[conn[p]] = "pending"
  BY NullsDistinct DEF Connects, LoanInv, TypeInv, HasConn, Ownership, WorksWith, Holds

LEMMA CountsDrop ==
    ASSUME CountInv, NEW c \in Conns, conn_state[c] = "pending", DropPending(c)
    PROVE  Counts' /\ WithinLimits'
<1>1. /\ Cardinality(pending') = pending_count - 1
      /\ Cardinality(in_use') = in_use_count
      /\ Cardinality(connections') = total_count - 1
  BY CountsMove DEF DropPending
<1>2. Counts'
  BY <1>1 DEF DropPending, Counts
<1> QED
  BY <1>2, OptionsValid DEF DropPending, WithinLimits, CountInv, LoanInv, TypeInv, TypeOK, CountTypes

LEMMA CountsConnectFails ==
    ASSUME CountInv, NEW p \in Callers \cup Tasks, ConnectFails(p)
    PROVE  Counts' /\ WithinLimits'
  BY ConnectingIsPending, CountsDrop DEF ConnectFails, CountInv, Procs

LEMMA CountsConnectUnusable ==
    ASSUME CountInv, NEW p \in Callers \cup Tasks, ConnectUnusable(p)
    PROVE  Counts' /\ WithinLimits'
  BY ConnectingIsPending, CountsDrop DEF ConnectUnusable, CountInv, Procs

LEMMA CountsConnectSucceeds ==
    ASSUME CountInv, NEW p \in Callers \cup Tasks, ConnectSucceeds(p)
    PROVE  Counts' /\ WithinLimits'
<1> USE DEF CountInv, LoanInv, TypeInv, TypeOK, CountTypes
<1>1. conn[p] \in Conns /\ conn_state[conn[p]] = "pending"
  BY ConnectingIsPending DEF ConnectSucceeds, Procs
<1>2. CASE conn_state' = [conn_state EXCEPT ![conn[p]] = "in_use"] /\ in_use_count' = in_use_count + 1
  <2>1. /\ Cardinality(pending') = pending_count - 1
        /\ Cardinality(in_use') = in_use_count + 1
        /\ Cardinality(connections') = total_count
    BY <1>1, <1>2, CountsMove
  <2> QED
    BY <1>2, <2>1, OptionsValid DEF Counts, WithinLimits, ConnectSucceeds
<1>3. CASE conn_state' = [conn_state EXCEPT ![conn[p]] = "available"] /\ UNCHANGED in_use_count
  <2>1. /\ Cardinality(pending') = pending_count - 1
        /\ Cardinality(in_use') = in_use_count
        /\ Cardinality(connections') = total_count
    BY <1>1, <1>3, CountsMove
  <2> QED
    BY <1>3, <2>1, OptionsValid DEF Counts, WithinLimits, ConnectSucceeds
<1> QED
  BY <1>2, <1>3 DEF ConnectSucceeds

LEMMA CountsCheckIn ==
    ASSUME CountInv, NEW p \in Callers, CheckIn(p)
    PROVE  Counts' /\ WithinLimits'
<1> USE DEF CountInv, LoanInv, TypeInv, TypeOK, CountTypes
<1>1. conn[p] \in Conns /\ conn_state[conn[p]] = "in_use"
  BY DEF CheckIn, HasConn, Procs
<1>2. CASE conn_state' = [conn_state EXCEPT ![conn[p]] = "closed"] /\ total_count' = total_count - 1
  <2>1. /\ Cardinality(pending') = pending_count
        /\ Cardinality(in_use') = in_use_count - 1
        /\ Cardinality(connections') = total_count - 1
    BY <1>1, <1>2, CountsMove
  <2> QED
    BY <1>2, <2>1, OptionsValid DEF Counts, WithinLimits, CheckIn
<1>3. CASE conn_state' = [conn_state EXCEPT ![conn[p]] = "available"] /\ UNCHANGED total_count
  <2>1. /\ Cardinality(pending') = pending_count
        /\ Cardinality(in_use') = in_use_count - 1
        /\ Cardinality(connections') = total_count
    BY <1>1, <1>3, CountsMove
  <2> QED
    BY <1>3, <2>1, OptionsValid DEF Counts, WithinLimits, CheckIn
<1> QED
  BY <1>2, <1>3 DEF CheckIn

LEMMA CountsGarbageCollect ==
    ASSUME CountInv, NEW c \in Conns, GarbageCollect(c)
    PROVE  Counts' /\ WithinLimits'
<1> USE DEF CountInv, LoanInv, TypeInv, TypeOK, CountTypes
<1>1. /\ Cardinality(pending') = pending_count
      /\ Cardinality(in_use') = in_use_count
      /\ Cardinality(connections') = total_count
  BY CountsMove DEF GarbageCollect
<1> QED
  BY <1>1 DEF GarbageCollect, Counts, WithinLimits, countVars

LEMMA CountsInit == Init => Counts /\ WithinLimits
<1> SUFFICES ASSUME Init PROVE Counts /\ WithinLimits
  OBVIOUS
<1>1. pending = {} /\ in_use = {} /\ connections = {}
  BY DEF Init, pending, in_use, connections
<1> QED
  BY <1>1, FS_EmptySet, OptionsValid DEF Init, Counts, WithinLimits

LEMMA CountsNext == CountInv /\ [Next]_vars => CountInv'
<1> SUFFICES ASSUME CountInv, [Next]_vars PROVE Counts' /\ WithinLimits'
  BY LoansNext DEF CountInv
<1>1. CASE \E p \in Callers : CheckOut(p) \/ CallerStep(p) \/ CancelSetup(p) \/ MarkError(p)
                              \/ CheckIn(p)
  <2> SUFFICES ASSUME NEW p \in Callers,
                      \/ CheckOut(p) \/ CallerStep(p) \/ CancelSetup(p) \/ MarkError(p)
                      \/ CheckIn(p)
               PROVE  Counts' /\ WithinLimits'
    BY <1>1
  <2>1. CASE CheckOut(p) \/ GiveUp(p) \/ LeaveEvicted(p)
    BY <2>1, CountsUnmoved DEF CheckOut, GiveUp, LeaveEvicted
  <2>2. CASE Taken(p) \/ BindConnection(p) \/ FailCheckOut(p) \/ CallerReported(p)
    BY <2>2, CountsUnmoved DEF Taken, BindConnection, FailCheckOut, CallerReported
  <2>3. CASE CancelSetup(p) \/ MarkError(p)
    BY <2>3, CountsUnmoved DEF CancelSetup, MarkError
  <2> QED
    BY <2>1, <2>2, <2>3, CountsTakeAvailable, CountsOpenConnection, CountsCullOnly,
       CountsCheckIn DEF CallerStep
<1>2. CASE \E t \in Tasks : TaskStep(t)
  <2> SUFFICES ASSUME NEW t \in Tasks, TaskStep(t) PROVE Counts' /\ WithinLimits'
    BY <1>2
  <2>1. CASE MaintainEnd(t) \/ TaskReported(t) \/ TaskCleared(t)
    BY <2>1, CountsUnmoved DEF MaintainEnd, TaskReported, TaskCleared
  <2> QED
    BY <2>1, CountsMaintainStart, CountsMaintainOpen, CountsTaskClears DEF TaskStep
<1>3. CASE \E k \in Controllers : Ready(k) \/ Clear(k) \/ Close(k) \/ CloseReturns(k)
  <2> SUFFICES ASSUME NEW k \in Controllers, Ready(k) \/ Clear(k) \/ Close(k) \/ CloseReturns(k)
               PROVE  Counts' /\ WithinLimits'
    BY <1>3
  <2>1. CASE Ready(k) \/ CloseReturns(k)
    BY <2>1, CountsUnmoved DEF Ready, CloseReturns
  <2> QED
    BY <2>1, CountsClear, CountsClose
<1>4. CASE \E p \in Callers \cup Tasks : Establish(p)
  BY <1>4, CountsConnectFails, CountsConnectSucceeds, CountsConnectUnusable DEF Establish
<1>5. CASE \E p \in Procs : CloseStep(p) \/ Settle(p)
  BY <1>5, CountsUnmoved DEF CloseStep, FinishClose, CutResource, Settle
<1>6. CASE \E c \in Conns : GarbageCollect(c)
  BY <1>6, CountsGarbageCollect
<1>7. CASE Terminated \/ UNCHANGED vars
  BY <1>7, CountsUnmoved DEF Terminated, vars
<1> QED
  BY <1>1, <1>2, <1>3, <1>4, <1>5, <1>6, <1>7 DEF Next

LEMMA CountInvariant == Spec => []CountInv
<1>1. Init => CountInv
  BY TypeInit, LoansInit, CountsInit DEF CountInv, LoanInv
<1> QED
  BY <1>1, CountsNext, PTL DEF Spec

\* Callers and maintenance together never establish more connections at once
\* than max_connecting, nor does the pool ever have more than max_pool_size,
\* for any options, any number of coroutines and any history of clears.
THEOREM LimitsCorrect == Spec => []LimitsRespected
<1>1. CountInv => LimitsRespected
  BY DEF CountInv, Counts, WithinLimits, LimitsRespected
<1> QED
  BY <1>1, CountInvariant, PTL

-----------------------------------------------------------------------------
(* Operations and the purposes of checkouts.                               *)

\* A connection has a purpose exactly while it is on its way to, or with, the
\* caller it was checked out for.
Checkouts ==
    /\ \A c \in Conns : checkout_purpose[c] # NoPurpose
          => \E p \in Callers : pc[p] \in {"taking", "lent"} /\ conn[p] = c
    /\ \A p \in Callers : pc[p] \in {"taking", "lent"} => checkout_purpose[conn[p]] \in Purposes
    /\ \A p \in Callers : pc[p] \in {"waiting", "opening", "binding"} => purpose[p] \in Purposes

OperationCounts ==
    /\ operation_count = Cardinality(Counted)
    /\ \A x \in Purposes : checkout_purposes[x] = Cardinality(CheckedOutFor(x))

OperationInv == LoanInv /\ Checkouts /\ OperationCounts

LEMMA CountedFinite == IsFiniteSet(Counted) /\ IsFiniteSet(Callers)
<1>1. IsFiniteSet(Callers)
  BY SetsFinite, FS_Subset DEF Procs
<1> QED
  BY <1>1, FS_Subset DEF Counted

\* Steps that leave every caller where it is.
LEMMA OperationsOfOthers ==
    ASSUME OperationInv, UNCHANGED <<checkoutVars, purpose>>,
           \A p \in Callers : pc'[p] = pc[p] /\ conn'[p] = conn[p]
    PROVE  Checkouts' /\ OperationCounts'
<1>1. Checkouts'
  BY DEF OperationInv, Checkouts, checkoutVars
<1>2. Counted' = Counted /\ \A x \in Purposes : CheckedOutFor(x)' = CheckedOutFor(x)
  BY DEF Counted, CheckedOutFor, checkoutVars
<1>3. OperationCounts'
  BY <1>2 DEF OperationInv, OperationCounts, checkoutVars
<1> QED
  BY <1>1, <1>3

\* Steps of a caller that neither begin nor end its operation or its checkout.
LEMMA OperationsGoOn ==
    ASSUME OperationInv, NEW p \in Callers, NEW label, MoveTo(p, label),
           UNCHANGED checkoutVars,
           \A q \in Callers \ {p} : conn'[q] = conn[q] /\ purpose'[q] = purpose[q],
           pc[p] \in {"idle", "settling"} <=> label \in {"idle", "settling"},
           label \in {"taking", "lent"} => pc[p] \in {"taking", "lent"} /\ conn'[p] = conn[p],
           pc[p] \in {"taking", "lent"} => label \in {"taking", "lent"},
           label \in {"waiting", "opening", "binding"} => purpose'[p] \in Purposes
    PROVE  Checkouts' /\ OperationCounts'
<1> USE DEF OperationInv, LoanInv, TypeInv, TypeOK
<1>1. /\ \A q \in Callers : pc'[q] = IF q = p THEN label ELSE pc[q]
      /\ UNCHANGED <<operation_count, checkout_purposes, checkout_purpose>>
  BY DEF MoveTo, ProcTypes, Procs, checkoutVars
<1>2. Checkouts'
  BY <1>1 DEF Checkouts
<1>3. Counted' = Counted /\ \A x \in Purposes : CheckedOutFor(x)' = CheckedOutFor(x)
  BY <1>1 DEF Counted, CheckedOutFor
<1>4. OperationCounts'
  BY <1>1, <1>3 DEF OperationCounts
<1> QED
  BY <1>2, <1>4

LEMMA OperationsCheckOut ==
    ASSUME OperationInv, NEW p \in Callers, CheckOut(p)
    PROVE  Checkouts' /\ OperationCounts'
<1> USE DEF OperationInv, LoanInv, TypeInv, TypeOK
<1>1. \A q \in Callers : pc'[q] = IF q = p THEN "waiting" ELSE pc[q]
  BY DEF CheckOut, MoveTo, ProcTypes, Procs
<1>2. Checkouts'
  BY <1>1 DEF CheckOut, Checkouts, ProcTypes
<1>3. Counted' = Counted \cup {p} /\ ~(p \in Counted)
  BY <1>1 DEF CheckOut, Counted
<1>4. Cardinality(Counted') = Cardinality(Counted) + 1
  BY <1>3, CountedFinite, FS_AddElement
<1>5. \A x \in Purposes : CheckedOutFor(x)' = CheckedOutFor(x)
  BY DEF CheckOut, CheckedOutFor
<1> QED
  BY <1>2, <1>4, <1>5 DEF CheckOut, OperationCounts

LEMMA OperationsCheckOutFailed ==
    ASSUME OperationInv, NEW p \in Callers, CheckOutFailed(p), UNCHANGED conn,
           pc[p] \in {"waiting", "failed"}
    PROVE  Checkouts' /\ OperationCounts'
<1> USE DEF OperationInv, LoanInv, TypeInv, TypeOK
<1>1. \A q \in Callers : pc'[q] = IF q = p THEN "idle" ELSE pc[q]
  BY DEF CheckOutFailed, MoveTo, ProcTypes, Procs
<1>2. Checkouts'
  BY <1>1 DEF CheckOutFailed, Checkouts, ProcTypes
<1>3. Counted' = Counted \ {p} /\ p \in Counted
  BY <1>1 DEF Counted
<1>4. Cardinality(Counted') = Cardinality(Counted) - 1
  BY <1>3, CountedFinite, FS_RemoveElement
<1>5. \A x \in Purposes : CheckedOutFor(x)' = CheckedOutFor(x)
  BY DEF CheckOutFailed, CheckedOutFor
<1> QED
  BY <1>2, <1>4, <1>5 DEF CheckOutFailed, OperationCounts

\* begin_checkout_locked of a connection nobody has checked out.
LEMMA PurposeBegins ==
    ASSUME OperationInv, NEW c \in Conns, NEW x \in Purposes, BeginCheckout(c, x),
           checkout_purpose[c] = NoPurpose
    PROVE  \A y \in Purposes : checkout_purposes'[y] = Cardinality(CheckedOutFor(y)')
<1> USE DEF OperationInv, LoanInv, TypeInv, TypeOK
<1>1. checkout_purpose' = [checkout_purpose EXCEPT ![c] = x]
  BY DEF BeginCheckout
<1>2. checkout_purposes' = [checkout_purposes EXCEPT ![x] = checkout_purposes[x] + 1]
  BY DEF BeginCheckout
<1>3. TAKE y \in Purposes
<1>4. CASE y = x
  <2>1. CheckedOutFor(y)' = CheckedOutFor(y) \cup {c} /\ ~(c \in CheckedOutFor(y))
    BY <1>1, <1>4, NullsDistinct DEF CheckedOutFor, CheckoutTypes
  <2>2. CheckedOutFor(y) \in SUBSET Conns
    BY DEF CheckedOutFor
  <2>3. Cardinality(CheckedOutFor(y)') = Cardinality(CheckedOutFor(y)) + 1
    BY <2>1, <2>2, CardinalityAdd
  <2> QED
    BY <1>2, <1>4, <2>3 DEF OperationCounts, CheckoutTypes
<1>5. CASE y # x
  <2>1. CheckedOutFor(y)' = CheckedOutFor(y)
    BY <1>1, <1>5, NullsDistinct DEF CheckedOutFor, CheckoutTypes
  <2> QED
    BY <1>2, <1>5, <2>1 DEF OperationCounts, CheckoutTypes
<1> QED
  BY <1>4, <1>5

LEMMA OperationsTakeAvailable ==
    ASSUME OperationInv, NEW p \in Callers, TakeAvailable(p)
    PROVE  Checkouts' /\ OperationCounts'
<1> USE DEF OperationInv, LoanInv, TypeInv, TypeOK
<1>1. PICK c \in Conns : /\ c \in available /\ conn' = [conn EXCEPT ![p] = c]
                         /\ BeginCheckout(c, purpose[p])
  BY DEF TakeAvailable, StateTypes
<1>2. \A q \in Callers : pc'[q] = IF q = p THEN "taking" ELSE pc[q]
  BY DEF TakeAvailable, MoveTo, ProcTypes, Procs
<1>3. purpose[p] \in Purposes /\ pc[p] = "waiting"
  BY DEF TakeAvailable, IsServed, Polls, Checkouts
<1>4. checkout_purpose[c] = NoPurpose
  BY <1>1, NullsDistinct DEF Checkouts, Ownership, WorksWith, Holds, ProcTypes, Procs
<1>5. \A x \in Purposes : checkout_purposes'[x] = Cardinality(CheckedOutFor(x)')
  BY <1>1, <1>3, <1>4, PurposeBegins
<1>6. Counted' = Counted
  BY <1>2, <1>3 DEF Counted
<1>7. \A q \in Callers : q # p => conn'[q] = conn[q] /\ conn[q] # c
  BY <1>1, NullsDistinct DEF ProcTypes, Procs, Ownership, WorksWith, Holds
<1>8. checkout_purpose' = [checkout_purpose EXCEPT ![c] = purpose[p]] /\ conn'[p] = c
  BY <1>1 DEF BeginCheckout, ProcTypes, Procs
<1>9. Checkouts'
  BY <1>2, <1>3, <1>7, <1>8 DEF TakeAvailable, Checkouts, CheckoutTypes
<1> QED
  BY <1>5, <1>6, <1>9 DEF TakeAvailable, OperationCounts

LEMMA OperationsBindConnection ==
    ASSUME OperationInv, NEW p \in Callers, BindConnection(p)
    PROVE  Checkouts' /\ OperationCounts'
<1> USE DEF OperationInv, LoanInv, TypeInv, TypeOK
<1>1. /\ pc[p] = "binding" /\ BeginCheckout(conn[p], purpose[p]) /\ UNCHANGED conn
      /\ purpose' = [purpose EXCEPT ![p] = NoPurpose]
  BY DEF BindConnection
<1>2. \A q \in Callers : pc'[q] = IF q = p THEN "lent" ELSE pc[q]
  BY ProcsDisjoint DEF BindConnection, Schedule, MoveTo, ProcTypes, Procs
<1>3. purpose[p] \in Purposes /\ conn[p] \in Conns
  BY <1>1 DEF Checkouts, HasConn, Procs
<1>4. \A q \in Callers : q # p => conn[q] # conn[p]
  BY <1>3, NullsDistinct DEF Ownership, Procs
<1>5. checkout_purpose[conn[p]] = NoPurpose
  BY <1>1, <1>3, <1>4 DEF Checkouts
<1>6. \A x \in Purposes : checkout_purposes'[x] = Cardinality(CheckedOutFor(x)')
  BY <1>1, <1>3, <1>5, PurposeBegins
<1>7. Counted' = Counted
  BY <1>1, <1>2 DEF Counted
<1>8. checkout_purpose' = [checkout_purpose EXCEPT ![conn[p]] = purpose[p]]
  BY <1>1 DEF BeginCheckout
<1>9. Checkouts'
  BY <1>1, <1>2, <1>3, <1>4, <1>8 DEF Checkouts, CheckoutTypes, ProcTypes
<1> QED
  BY <1>6, <1>7, <1>9 DEF BindConnection, OperationCounts

LEMMA OperationsCheckIn ==
    ASSUME OperationInv, NEW p \in Callers, CheckIn(p)
    PROVE  Checkouts' /\ OperationCounts'
<1> USE DEF OperationInv, LoanInv, TypeInv, TypeOK
<1> DEFINE c == conn[p]
<1>1. /\ checkout_purpose' = [checkout_purpose EXCEPT ![c] = NoPurpose]
      /\ checkout_purposes' = [checkout_purposes EXCEPT
                                 ![checkout_purpose[c]] = checkout_purposes[checkout_purpose[c]] - 1]
      /\ conn' = [conn EXCEPT ![p] = NoConn]
      /\ pc[p] = "lent"
      /\ UNCHANGED purpose
  BY DEF CheckIn
<1>2. \A q \in Callers : pc'[q] = IF q = p THEN "settling" ELSE pc[q]
  BY DEF CheckIn, MoveTo, ProcTypes, Procs
<1>3. c \in Conns /\ checkout_purpose[c] \in Purposes
  BY <1>1 DEF Checkouts, HasConn, Procs
<1>4. \A q \in Callers : q # p => conn'[q] = conn[q] /\ conn[q] # c
  BY <1>1, <1>3, NullsDistinct DEF ProcTypes, Procs, Ownership
<1>5. Checkouts'
  BY <1>1, <1>2, <1>3, <1>4 DEF Checkouts, CheckoutTypes
<1>6. Counted' = Counted \ {p} /\ p \in Counted
  BY <1>1, <1>2 DEF Counted
<1>7. Cardinality(Counted') = Cardinality(Counted) - 1
  BY <1>6, CountedFinite, FS_RemoveElement
<1>8. ASSUME NEW x \in Purposes
      PROVE  checkout_purposes'[x] = Cardinality(CheckedOutFor(x)')
  <2>1. CASE x = checkout_purpose[c]
    <3>1. CheckedOutFor(x)' = CheckedOutFor(x) \ {c} /\ c \in CheckedOutFor(x)
      BY <1>1, <1>3, <2>1, NullsDistinct DEF CheckedOutFor, CheckoutTypes
    <3>2. CheckedOutFor(x) \in SUBSET Conns
      BY DEF CheckedOutFor
    <3>3. Cardinality(CheckedOutFor(x)') = Cardinality(CheckedOutFor(x)) - 1
      BY <3>1, <3>2, CardinalityRemove
    <3> QED
      BY <1>1, <2>1, <3>3 DEF OperationCounts, CheckoutTypes
  <2>2. CASE x # checkout_purpose[c]
    <3>1. CheckedOutFor(x)' = CheckedOutFor(x)
      BY <1>1, <1>3, <2>2, NullsDistinct DEF CheckedOutFor, CheckoutTypes
    <3> QED
      BY <1>1, <2>2, <3>1 DEF OperationCounts, CheckoutTypes
  <2> QED
    BY <2>1, <2>2
<1> QED
  BY <1>5, <1>7, <1>8 DEF CheckIn, OperationCounts

LEMMA OperationsOfCallers ==
    ASSUME OperationInv, NEW p \in Callers,
           CheckOut(p) \/ CallerStep(p) \/ CancelSetup(p) \/ MarkError(p) \/ CheckIn(p)
    PROVE  Checkouts' /\ OperationCounts'
<1> USE DEF OperationInv, LoanInv, TypeInv, TypeOK
<1>1. CASE GiveUp(p) \/ LeaveEvicted(p) \/ FailCheckOut(p)
  BY <1>1, OperationsCheckOutFailed DEF GiveUp, LeaveEvicted, FailCheckOut, Polls
<1>2. CASE CullOnly(p) \/ CancelSetup(p) \/ MarkError(p)
  BY <1>2, OperationsOfOthers DEF CullOnly, CancelSetup, MarkError, procVars, checkoutVars
<1>3. CASE OpenConnection(p)
  <2>1. /\ pc[p] = "waiting" /\ MoveTo(p, "opening")
        /\ UNCHANGED <<checkoutVars, purpose>>
    BY <1>3 DEF OpenConnection, IsServed, Polls
  <2>2. \A q \in Callers \ {p} : conn'[q] = conn[q]
    BY <1>3 DEF OpenConnection, NewConnection, ProcTypes, Procs
  <2> QED
    BY <2>1, <2>2, OperationsGoOn DEF Checkouts
<1>4. CASE Taken(p)
  <2>1. /\ pc[p] = "taking" /\ MoveTo(p, "lent") /\ UNCHANGED <<checkoutVars, conn>>
        /\ \A q \in Callers \ {p} : purpose'[q] = purpose[q]
    BY <1>4 DEF Taken, ProcTypes
  <2> QED
    BY <2>1, OperationsGoOn
<1>5. CASE CallerReported(p)
  <2>1. /\ pc[p] = "reporting" /\ MoveTo(p, "failed") /\ UNCHANGED <<checkoutVars, purpose>>
        /\ \A q \in Callers \ {p} : conn'[q] = conn[q]
    BY <1>5 DEF CallerReported, ProcTypes, Procs
  <2> QED
    BY <2>1, OperationsGoOn
<1> QED
  BY <1>1, <1>2, <1>3, <1>4, <1>5, OperationsCheckOut, OperationsTakeAvailable,
     OperationsBindConnection, OperationsCheckIn DEF CallerStep

LEMMA OperationsEstablish ==
    ASSUME OperationInv, NEW p \in Callers \cup Tasks, Establish(p)
    PROVE  Checkouts' /\ OperationCounts'
<1> USE DEF OperationInv, LoanInv, TypeInv, TypeOK
<1>1. /\ pc[p] = "opening" /\ UNCHANGED <<checkoutVars, purpose>>
      /\ \A q \in Callers \ {p} : conn'[q] = conn[q]
      /\ \E label \in {"reporting", "binding", "filling", "failed"} : MoveTo(p, label)
  BY DEF Establish, ConnectFails, ConnectSucceeds, ConnectUnusable, Connects, ProcTypes, Procs
<1>2. PICK label \in {"reporting", "binding", "filling", "failed"} : MoveTo(p, label)
  BY <1>1
<1>3. CASE p \in Callers
  <2>1. purpose'[p] \in Purposes
    BY <1>1, <1>3 DEF Checkouts
  <2> QED
    BY <1>1, <1>2, <1>3, <2>1, OperationsGoOn
<1>4. CASE p \in Tasks
  <2>1. \A q \in Callers : pc'[q] = pc[q] /\ conn'[q] = conn[q]
    BY <1>1, <1>2, <1>4, ProcsDisjoint DEF MoveTo, ProcTypes, Procs
  <2> QED
    BY <1>1, <2>1, OperationsOfOthers
<1> QED
  BY <1>3, <1>4

LEMMA OperationsOfTasks ==
    ASSUME OperationInv, NEW t \in Tasks, TaskStep(t)
    PROVE  Checkouts' /\ OperationCounts'
<1> USE DEF OperationInv, LoanInv, TypeInv, TypeOK
<1>1. UNCHANGED <<checkoutVars, purpose>>
  BY DEF TaskStep, MaintainStart, MaintainOpen, MaintainEnd, TaskReported, TaskClears, TaskCleared
<1>2. \A p \in Callers : conn'[p] = conn[p]
  BY ProcsDisjoint DEF TaskStep, MaintainStart, MaintainOpen, NewConnection, MaintainEnd,
                       TaskReported, TaskClears, TaskCleared, CloseFailed, ProcTypes, Procs
<1>3. \A p \in Callers : pc'[p] = pc[p]
  BY ProcsDisjoint DEF TaskStep, MaintainStart, MaintainOpen, MaintainEnd, TaskReported,
                       TaskClears, TaskCleared, Schedule, MoveTo, ProcTypes, Procs
<1> QED
  BY <1>1, <1>2, <1>3, OperationsOfOthers

LEMMA OperationsOfControllers ==
    ASSUME OperationInv, NEW k \in Controllers, Ready(k) \/ Clear(k) \/ Close(k) \/ CloseReturns(k)
    PROVE  Checkouts' /\ OperationCounts'
<1>1. UNCHANGED <<checkoutVars, purpose, conn>> /\ \E label : MoveTo(k, label)
  BY DEF Ready, Clear, Close, CloseReturns
<1>2. \A p \in Callers : pc'[p] = pc[p]
  BY <1>1, ProcsDisjoint DEF MoveTo, OperationInv, LoanInv, TypeInv, TypeOK, ProcTypes, Procs
<1> QED
  BY <1>1, <1>2, OperationsOfOthers

LEMMA OperationsSettle ==
    ASSUME OperationInv, NEW p \in Procs, CloseStep(p) \/ Settle(p)
    PROVE  Checkouts' /\ OperationCounts'
<1> USE DEF OperationInv, LoanInv, TypeInv, TypeOK
<1>1. CASE CloseStep(p)
  BY <1>1, OperationsOfOthers DEF CloseStep, FinishClose, CutResource, procVars
<1>2. CASE Settle(p)
  <2>1. /\ UNCHANGED <<checkoutVars, purpose, conn>> /\ pc[p] = "settling"
        /\ \A q \in Callers : pc'[q] = IF q = p THEN "idle" ELSE pc[q]
    BY <1>2, ProcsDisjoint DEF Settle, Schedule, MoveTo, ProcTypes, Procs
  <2>2. Checkouts'
    BY <2>1 DEF Checkouts, checkoutVars
  <2>3. Counted' = Counted /\ \A x \in Purposes : CheckedOutFor(x)' = CheckedOutFor(x)
    BY <2>1 DEF Counted, CheckedOutFor, checkoutVars
  <2> QED
    BY <2>1, <2>2, <2>3 DEF OperationCounts, checkoutVars
<1> QED
  BY <1>1, <1>2

LEMMA OperationsInit == Init => Checkouts /\ OperationCounts
<1> SUFFICES ASSUME Init PROVE Checkouts /\ OperationCounts
  OBVIOUS
<1>1. Checkouts
  BY DEF Init, Checkouts, Procs
<1>2. Counted = {} /\ \A x \in Purposes : CheckedOutFor(x) = {}
  BY NullsDistinct DEF Init, Counted, CheckedOutFor, Procs
<1> QED
  BY <1>1, <1>2, FS_EmptySet DEF Init, OperationCounts

LEMMA OperationsNext == OperationInv /\ [Next]_vars => OperationInv'
<1> SUFFICES ASSUME OperationInv, [Next]_vars PROVE Checkouts' /\ OperationCounts'
  BY LoansNext DEF OperationInv
<1>1. CASE \E c \in Conns : GarbageCollect(c)
  BY <1>1, OperationsOfOthers DEF GarbageCollect, procVars
<1>2. CASE Terminated \/ UNCHANGED vars
  BY <1>2, OperationsOfOthers DEF Terminated, vars, procVars
<1> QED
  BY <1>1, <1>2, OperationsOfCallers, OperationsOfTasks, OperationsOfControllers,
     OperationsEstablish, OperationsSettle DEF Next

\* Every counter agrees with what it counts at any time: no way to lose or to
\* close a connection, and no way to end a checkout, releases capacity twice or
\* never.
THEOREM CountersCorrect == Spec => []CountersAgree
<1>1. Init => OperationInv
  BY TypeInit, LoansInit, OperationsInit DEF OperationInv, LoanInv
<1>2. CountInv /\ OperationInv => CountersAgree
  BY DEF CountInv, Counts, OperationInv, OperationCounts, CountersAgree
<1> QED
  BY <1>1, <1>2, OperationsNext, CountInvariant, PTL DEF Spec
=============================================================================
