--------------------------- MODULE Roadmap_proofs ---------------------------
(***************************************************************************)
(* Proofs about Roadmap.                                                   *)
(*                                                                         *)
(* Whatever the activities, the plans, the operators and where their       *)
(* commands are killed, progress.json is typed, names one active activity  *)
(* and has completed only what is proved.  A command that has not yet      *)
(* written carries a document of its own, and may write it after others    *)
(* have written theirs: so each of these documents must be good by itself. *)
(* For one operator, the summary is current, evidence is kept and credit   *)
(* is fresh.                                                               *)
(***************************************************************************)
EXTENDS Roadmap, FiniteSetTheorems, FunctionTheorems, SequenceTheorems,
        WellFoundedInduction, TLAPS

-----------------------------------------------------------------------------
(* A good document, for a history of n commits. *)

TypedRecord(record, n) ==
    /\ record \in Record
    /\ record.boundary <= n
    /\ record.boundary > 0 <=> record.history # <<>>

ProvedRecord(a, record) ==
    /\ \A i \in DOMAIN record.evidence : record.evidence[i].attempt = Attempt(record)
    /\ record.status = "completed" => EvidenceSuffices(a, record.evidence)

GoodRecord(a, record, n) == TypedRecord(record, n) /\ ProvedRecord(a, record)

Good(document, n) ==
    /\ document \in Progress
    /\ \A a \in Activity : GoodRecord(a, document.records[a], n)
    /\ \A a, b \in With(document, "in_progress") : a = b

StateTyped ==
    /\ state.active \cup state.ready \cup state.blocked \cup state.needs_review \subseteq Activity
    /\ state.digest \in Plan /\ state.stale \in BOOLEAN

\* The inductive invariant.
IInv ==
    /\ plan \in Plan
    /\ log \in Seq(Commit) /\ pushed \in 0 .. Len(log)
    /\ pc \in [Operator -> {"idle", "progress", "state"}]
    /\ draft \in [Operator -> [plan : Plan, progress : Progress]]
    /\ edits \in Nat /\ mishap \in BOOLEAN
    /\ StateTyped
    /\ Good(progress, Len(log))
    /\ \A o \in Operator : Good(draft[o].progress, Len(log))

-----------------------------------------------------------------------------
LEMMA NothingIsGood ==
    /\ Nothing \in [plan : Plan, progress : Progress]
    /\ Good(Nothing.progress, 0)
<1> DEFINE record == [status |-> "pending", evidence |-> <<>>, history |-> <<>>, boundary |-> 0]
<1>1. record \in Record
  BY SMT DEF Record, Status
<1>2. Nothing.progress \in Progress /\ Nothing.plan \in Plan
  BY <1>1, RoadmapConstants DEF Nothing, Progress
<1>3. \A a \in Activity : Nothing.progress.records[a] = record
  BY DEF Nothing
<1>4. ASSUME NEW a \in Activity PROVE GoodRecord(a, record, 0)
  BY <1>1 DEF GoodRecord, TypedRecord, ProvedRecord
<1>5. With(Nothing.progress, "in_progress") = {}
  BY <1>3 DEF With, StatusOf
<1>6. Nothing \in [plan : Plan, progress : Progress]
  BY <1>2 DEF Nothing
<1> QED
  BY <1>2, <1>3, <1>4, <1>5, <1>6 DEF Good

LEMMA GoodLater ==
    ASSUME NEW document, NEW n \in Nat, NEW k \in Nat, n <= k, Good(document, n)
    PROVE  Good(document, k)
<1>1. ASSUME NEW a \in Activity PROVE document.records[a].boundary \in Nat
  BY DEF Good, GoodRecord, TypedRecord, Record
<1> QED
  BY <1>1 DEF Good, GoodRecord, TypedRecord

\* A document stays good when one record is replaced by a good one that is not
\* active beside another.
LEMMA ReplacedIsGood ==
    ASSUME NEW document, NEW n \in Nat, Good(document, n),
           NEW a \in Activity, NEW record, GoodRecord(a, record, n),
           record.status = "in_progress" => With(document, "in_progress") \subseteq {a}
    PROVE  Good([document EXCEPT !.records[a] = record], n)
<1> DEFINE new == [document EXCEPT !.records[a] = record]
<1>1. document \in Progress /\ record \in Record
  BY DEF Good, GoodRecord, TypedRecord
<1>2. new \in Progress
  BY <1>1 DEF Progress
<1>3. \A b \in Activity : new.records[b] = IF b = a THEN record ELSE document.records[b]
  BY <1>1 DEF Progress
<1>4. \A b \in Activity : GoodRecord(b, new.records[b], n)
  BY <1>3 DEF Good
<1>5. ASSUME NEW b \in With(new, "in_progress"), NEW c \in With(new, "in_progress")
      PROVE  b = c
  <2>1. b \in Activity /\ c \in Activity
    BY DEF With
  <2>2. CASE record.status = "in_progress"
    BY <1>3, <1>5, <2>1, <2>2 DEF With, StatusOf
  <2>3. CASE record.status # "in_progress"
    BY <1>3, <1>5, <2>1, <2>3 DEF With, StatusOf, Good
  <2> QED
    BY <2>2, <2>3
<1> QED
  BY <1>2, <1>4, <1>5 DEF Good

LEMMA SummaryIsTyped ==
    ASSUME NEW p \in Plan, NEW document
    PROVE  LET summary == ComputeState(p, document)
           IN  /\ summary.active \cup summary.ready \cup summary.blocked
                     \cup summary.needs_review \subseteq Activity
               /\ summary.digest \in Plan /\ summary.stale \in BOOLEAN
<1>1. Ready(p, document) \subseteq Activity
  BY DEF Ready, With
<1>2. \A s : With(document, s) \subseteq Activity
  BY DEF With
<1> QED
  BY <1>1, <1>2 DEF ComputeState

-----------------------------------------------------------------------------
(* What a command decides to write is good. *)

\* A new status alone, neither active beside another nor unproved.
LEMMA StatusIsGood ==
    ASSUME NEW a \in Activity, NEW record, NEW n \in Nat, GoodRecord(a, record, n),
           NEW s \in Status, s # "completed" \/ EvidenceSuffices(a, record.evidence)
    PROVE  GoodRecord(a, [record EXCEPT !.status = s], n)
<1> DEFINE new == [record EXCEPT !.status = s]
<1>1. record \in Record
  BY DEF GoodRecord, TypedRecord
<1>2. /\ new.status = s /\ new.evidence = record.evidence
      /\ new.history = record.history /\ new.boundary = record.boundary
  BY <1>1 DEF Record
<1>3. new \in Record
  BY <1>1 DEF Record
<1>4. Attempt(new) = Attempt(record)
  BY <1>2 DEF Attempt
<1> QED
  BY <1>2, <1>3, <1>4 DEF GoodRecord, TypedRecord, ProvedRecord

\* Evidence of this attempt on top of the evidence there is.
LEMMA MoreEvidenceIsGood ==
    ASSUME NEW a \in Activity, NEW record, NEW n \in Nat, GoodRecord(a, record, n),
           record.status = "in_progress", NEW phase \in {"red", "green"}
    PROVE  GoodRecord(a, [record EXCEPT !.evidence =
                             Append(@, [phase |-> phase, attempt |-> Attempt(record)])], n)
<1> DEFINE piece == [phase |-> phase, attempt |-> Attempt(record)]
           new == [record EXCEPT !.evidence = Append(@, piece)]
<1>1. record \in Record /\ record.evidence \in Seq(Evidence) /\ Len(record.history) \in Nat
  BY DEF GoodRecord, TypedRecord, Record
<1>2. piece \in Evidence
  BY <1>1 DEF Evidence, Attempt
<1>3. /\ new.status = record.status /\ new.history = record.history
      /\ new.boundary = record.boundary /\ new.evidence = Append(record.evidence, piece)
  BY <1>1 DEF Record
<1>4. new.evidence \in Seq(Evidence)
  BY <1>1, <1>2, <1>3
<1>5. new \in Record
  BY <1>1, <1>4 DEF Record
<1>6. Attempt(new) = Attempt(record)
  BY <1>3 DEF Attempt
<1>7. ASSUME NEW i \in DOMAIN new.evidence PROVE new.evidence[i].attempt = Attempt(record)
  <2>1. CASE i \in DOMAIN record.evidence
    BY <1>1, <1>2, <1>3, <2>1 DEF GoodRecord, ProvedRecord
  <2>2. CASE i = Len(record.evidence) + 1
    BY <1>1, <1>2, <1>3, <2>2
  <2> QED
    BY <1>1, <1>2, <1>3, <2>1, <2>2
<1> QED
  BY <1>3, <1>5, <1>6, <1>7 DEF GoodRecord, TypedRecord, ProvedRecord

LEMMA AppendIsLonger ==
    ASSUME NEW S, NEW list \in Seq(S), NEW e \in S
    PROVE  Append(list, e) \in Seq(S) /\ Append(list, e) # <<>>
  BY AppendProperties, EmptySeq

\* A reopened record starts again, after the commits there are.
LEMMA ReopenedIsGood ==
    ASSUME NEW a \in Activity, NEW record, log \in Seq(Commit), log # <<>>,
           GoodRecord(a, record, Len(log))
    PROVE  GoodRecord(a, Reopened(record), Len(log))
<1> DEFINE new == Reopened(record)
<1>1. record \in Record /\ record.evidence \in Seq(Evidence)
      /\ record.history \in Seq(Seq(Evidence))
  BY DEF GoodRecord, TypedRecord, Record
<1>2. Len(log) \in Nat /\ Len(log) > 0
  OBVIOUS
<1>3. /\ new.status = "pending" /\ new.evidence = <<>> /\ new.boundary = Len(log)
      /\ new.history = Append(record.history, record.evidence)
  BY DEF Reopened
<1>4. new.history \in Seq(Seq(Evidence)) /\ new.history # <<>>
  <2> DEFINE Attempts == Seq(Evidence)
  <2>1. record.history \in Seq(Attempts) /\ record.evidence \in Attempts
    BY <1>1
  <2> HIDE DEF Attempts
  <2>2. /\ Append(record.history, record.evidence) \in Seq(Attempts)
        /\ Append(record.history, record.evidence) # <<>>
    BY <2>1, AppendIsLonger
  <2>3. new.history \in Seq(Attempts) /\ new.history # <<>>
    BY <1>3, <2>2
  <2> QED
    BY <2>3 DEF Attempts
<1>5. <<>> \in Seq(Evidence)
  OBVIOUS
<1>6. new \in Record
  BY <1>1, <1>2, <1>4, <1>5 DEF Record, Reopened, Status
<1> QED
  BY <1>2, <1>3, <1>4, <1>6 DEF GoodRecord, TypedRecord, ProvedRecord

\* One step for each command that changes a record.
LEMMA CommandsAreGood ==
    ASSUME IInv, NEW o \in Operator, NEW a \in Activity, Command(o, a)
    PROVE  \E document : Good(document, Len(log)) /\ Prepare(o, document)
<1> DEFINE record == progress.records[a]
           Written(r) == [progress EXCEPT !.records[a] = r]
<1>1. Len(log) \in Nat /\ Good(progress, Len(log)) /\ GoodRecord(a, record, Len(log))
  BY DEF IInv, Good
<1>2. record \in Record
  BY <1>1 DEF GoodRecord, TypedRecord
\* A change is good if its record is and it activates none beside another.
<1>3. ASSUME NEW r, GoodRecord(a, r, Len(log)), Change(o, a, r),
             r.status = "in_progress" => With(progress, "in_progress") \subseteq {a}
      PROVE  \E document : Good(document, Len(log)) /\ Prepare(o, document)
  <2>1. Good(Written(r), Len(log))
    BY <1>1, <1>3, ReplacedIsGood
  <2>2. Prepare(o, Written(r))
    BY <1>3 DEF Change
  <2> QED
    BY <2>1, <2>2
<1>4. \A s \in Status : [record EXCEPT !.status = s].status = s
  BY <1>2 DEF Record
\* A change of the status alone.
<1>5. ASSUME NEW s \in Status \ {"in_progress"}, Change(o, a, [record EXCEPT !.status = s]),
             s # "completed" \/ EvidenceSuffices(a, record.evidence)
      PROVE  \E document : Good(document, Len(log)) /\ Prepare(o, document)
  <2>1. GoodRecord(a, [record EXCEPT !.status = s], Len(log))
    BY <1>1, <1>5, StatusIsGood
  <2> QED
    BY <1>3, <1>4, <1>5, <2>1
<1>6. CASE Start(o, a)
  <2>1. With(progress, "in_progress") = {}
    BY <1>6 DEF Start, MayStart
  <2>2. Change(o, a, [record EXCEPT !.status = "in_progress"])
    BY <1>6 DEF Start
  <2>3. GoodRecord(a, [record EXCEPT !.status = "in_progress"], Len(log))
    BY <1>1, StatusIsGood DEF Status
  <2> QED
    BY <1>3, <2>1, <2>2, <2>3
<1>7. CASE RequeueActive(o, a)
  BY <1>5, <1>7 DEF RequeueActive, Status
<1>8. CASE RequeueCompleted(o, a)
  <2>1. log # <<>> /\ log \in Seq(Commit) /\ Change(o, a, Reopened(record))
    BY <1>8 DEF RequeueCompleted, IInv
  <2>2. GoodRecord(a, Reopened(record), Len(log))
    BY <1>1, <2>1, ReopenedIsGood
  <2>3. Reopened(record).status = "pending"
    BY DEF Reopened
  <2> QED
    BY <1>3, <2>1, <2>2, <2>3
<1>9. CASE Review(o, a)
  BY <1>5, <1>9 DEF Review, Status
<1>10. ASSUME NEW phase \in {"red", "green"}, RecordTest(o, a, phase)
       PROVE  \E document : Good(document, Len(log)) /\ Prepare(o, document)
  <2> DEFINE new == [record EXCEPT !.evidence =
                        Append(@, [phase |-> phase, attempt |-> Attempt(record)])]
  <2>1. record.status = "in_progress" /\ Change(o, a, new)
    BY <1>10 DEF RecordTest
  <2>2. GoodRecord(a, new, Len(log))
    BY <1>1, <2>1, MoreEvidenceIsGood
  <2>3. \A b \in With(progress, "in_progress") : b = a
    BY <1>1, <2>1 DEF Good, With, StatusOf
  <2> QED
    BY <1>3, <2>1, <2>2, <2>3
<1>11. CASE Block(o, a)
  BY <1>5, <1>11 DEF Block, Status
<1>12. CASE Unblock(o, a)
  BY <1>5, <1>12 DEF Unblock, Status
<1>13. CASE Complete(o, a)
  BY <1>5, <1>13 DEF Complete, Status
<1> QED
  BY <1>6, <1>7, <1>8, <1>9, <1>10, <1>11, <1>12, <1>13 DEF Command

LEMMA RenderStateIsGood ==
    ASSUME IInv, NEW o \in Operator, RenderState(o)
    PROVE  \E document : Good(document, Len(log)) /\ Prepare(o, document)
<1> DEFINE document == [progress EXCEPT !.digest = plan]
<1>1. progress \in Progress /\ plan \in Plan
  BY DEF IInv, Good
<1>2. document \in Progress /\ document.records = progress.records
  BY <1>1 DEF Progress
<1>3. Good(document, Len(log))
  BY <1>2 DEF IInv, Good, With, StatusOf
<1> QED
  BY <1>3 DEF RenderState

-----------------------------------------------------------------------------
(* The invariant is inductive. *)

LEMMA InitIsGood == Init => IInv
<1> SUFFICES ASSUME Init PROVE IInv
  OBVIOUS
<1>1. plan \in Plan /\ pushed = 0 /\ log = <<>> /\ edits \in Nat /\ mishap \in BOOLEAN
  BY RoadmapConstants DEF Init
<1>2. log \in Seq(Commit) /\ Len(log) = 0
  BY <1>1
<1>3. StateTyped
  BY RoadmapConstants, SummaryIsTyped DEF Init, StateTyped
<1>4. pc \in [Operator -> {"idle", "progress", "state"}]
  BY DEF Init
<1>5. draft \in [Operator -> [plan : Plan, progress : Progress]]
  BY NothingIsGood DEF Init
<1>6. Good(progress, Len(log)) /\ \A o \in Operator : Good(draft[o].progress, Len(log))
  BY <1>2, NothingIsGood DEF Init
<1> QED
  BY <1>1, <1>2, <1>3, <1>4, <1>5, <1>6 DEF IInv

LEMMA PrepareKeeps ==
    ASSUME IInv, NEW o \in Operator, NEW document, Good(document, Len(log)),
           Prepare(o, document)
    PROVE  IInv'
<1>1. UNCHANGED <<plan, log, pushed, edits, progress, state, mishap>>
  BY DEF Prepare, people
<1>2. draft' = [draft EXCEPT ![o] = [plan |-> plan, progress |-> document]]
      /\ pc' = [pc EXCEPT ![o] = "progress"]
  BY DEF Prepare
<1>3. document \in Progress /\ plan \in Plan
  BY DEF Good, IInv
<1>4. draft' \in [Operator -> [plan : Plan, progress : Progress]]
      /\ pc' \in [Operator -> {"idle", "progress", "state"}]
  BY <1>2, <1>3 DEF IInv
<1>5. \A p \in Operator :
         draft'[p].progress = IF p = o THEN document ELSE draft[p].progress
  BY <1>2 DEF IInv
<1>6. \A p \in Operator : Good(draft'[p].progress, Len(log)')
  BY <1>1, <1>5 DEF IInv
<1>7. Good(progress, Len(log))' /\ StateTyped'
  BY <1>1 DEF IInv, StateTyped, Good, GoodRecord, TypedRecord, ProvedRecord
<1>8. (\A p \in Operator : Good(draft[p].progress, Len(log)))'
  BY <1>6 DEF Good, GoodRecord, TypedRecord, ProvedRecord
<1> QED
  BY <1>1, <1>4, <1>7, <1>8 DEF IInv

\* A command ends, or is killed: its draft is nothing again.
LEMMA DraftsAreCleared ==
    ASSUME IInv, NEW o \in Operator, draft' = [draft EXCEPT ![o] = Nothing], log' = log
    PROVE  /\ draft' \in [Operator -> [plan : Plan, progress : Progress]]
           /\ \A p \in Operator : Good(draft'[p].progress, Len(log)')
<1>1. Good(Nothing.progress, Len(log)) /\ Len(log) \in Nat
  BY NothingIsGood, GoodLater DEF IInv
<1>2. \A p \in Operator : draft'[p] = IF p = o THEN Nothing ELSE draft[p]
  BY DEF IInv
<1> QED
  BY <1>1, <1>2, NothingIsGood DEF IInv

LEMMA WriteProgressKeeps ==
    ASSUME IInv, NEW o \in Operator, WriteProgress(o)
    PROVE  IInv'
<1>1. UNCHANGED <<plan, log, pushed, edits, state, mishap, draft>>
      /\ progress' = draft[o].progress /\ pc' = [pc EXCEPT ![o] = "state"]
  BY DEF WriteProgress, people
<1>2. Good(progress', Len(log)') /\ \A p \in Operator : Good(draft'[p].progress, Len(log)')
  BY <1>1 DEF IInv
<1>3. pc' \in [Operator -> {"idle", "progress", "state"}]
  BY <1>1 DEF IInv
<1> QED
  BY <1>1, <1>2, <1>3 DEF IInv, StateTyped, Good, GoodRecord, TypedRecord, ProvedRecord

LEMMA WriteStateKeeps ==
    ASSUME IInv, NEW o \in Operator, WriteState(o)
    PROVE  IInv'
<1>1. UNCHANGED <<plan, log, pushed, edits, progress>>
      /\ draft' = [draft EXCEPT ![o] = Nothing] /\ pc' = [pc EXCEPT ![o] = "idle"]
      /\ state' = ComputeState(draft[o].plan, draft[o].progress) /\ mishap' \in BOOLEAN
  BY DEF WriteState, people
<1>2. Good(progress', Len(log)') /\ \A p \in Operator : Good(draft'[p].progress, Len(log)')
  BY <1>1, DraftsAreCleared DEF IInv
<1>3. pc' \in [Operator -> {"idle", "progress", "state"}]
  BY <1>1 DEF IInv
<1>4. draft[o].plan \in Plan
  BY DEF IInv
<1>5. StateTyped'
  BY <1>1, <1>4, SummaryIsTyped DEF StateTyped
<1>6. draft' \in [Operator -> [plan : Plan, progress : Progress]]
  BY <1>1, DraftsAreCleared
<1> QED
  BY <1>1, <1>2, <1>3, <1>5, <1>6
     DEF IInv, Good, GoodRecord, TypedRecord, ProvedRecord

LEMMA CrashKeeps ==
    ASSUME IInv, NEW o \in Operator, Crash(o)
    PROVE  IInv'
<1>1. UNCHANGED <<plan, log, pushed, edits, progress, state>>
      /\ draft' = [draft EXCEPT ![o] = Nothing] /\ pc' = [pc EXCEPT ![o] = "idle"]
      /\ mishap' \in BOOLEAN
  BY DEF Crash, people, IInv
<1>2. Good(progress', Len(log)') /\ \A p \in Operator : Good(draft'[p].progress, Len(log)')
  BY <1>1, DraftsAreCleared DEF IInv
<1>3. pc' \in [Operator -> {"idle", "progress", "state"}]
  BY <1>1 DEF IInv
<1>4. draft' \in [Operator -> [plan : Plan, progress : Progress]]
  BY <1>1, DraftsAreCleared
<1> QED
  BY <1>1, <1>2, <1>3, <1>4 DEF IInv, StateTyped, Good, GoodRecord, TypedRecord, ProvedRecord

\* Commits: the history only grows, so what was good for it stays so.
LEMMA MakeCommitKeeps ==
    ASSUME IInv, NEW o \in Operator, NEW a \in Activity,
           NEW subject \in Activity \cup {NoActivity}, NEW trailers \in SUBSET Activity,
           MakeCommit(o, a, subject, trailers)
    PROVE  IInv'
<1> DEFINE commit == [subject |-> subject, trailers |-> trailers,
                      attempt |-> Attempt(progress.records[a])]
<1>1. UNCHANGED <<plan, pushed, edits, progress, state, mishap, draft, pc>>
      /\ log' = Append(log, commit)
  BY DEF MakeCommit
<1>2. Len(progress.records[a].history) \in Nat
  <2>1. progress.records[a] \in Record
    BY DEF IInv, Good, GoodRecord, TypedRecord
  <2> QED
    BY <2>1 DEF Record
<1>3. commit \in Commit
  BY <1>2 DEF Commit, Attempt
<1>4. log' \in Seq(Commit) /\ Len(log') = Len(log) + 1 /\ Len(log) \in Nat
  BY <1>1, <1>3 DEF IInv
<1>5. Good(progress', Len(log')) /\ \A p \in Operator : Good(draft'[p].progress, Len(log'))
  BY <1>1, <1>4, GoodLater DEF IInv
<1>6. pushed' \in 0 .. Len(log')
  BY <1>1, <1>4 DEF IInv
<1> QED
  BY <1>1, <1>4, <1>5, <1>6
     DEF IInv, StateTyped, Good, GoodRecord, TypedRecord, ProvedRecord

LEMMA EditPlanKeeps ==
    ASSUME IInv, NEW o \in Operator, EditPlan(o)
    PROVE  IInv'
<1>1. UNCHANGED <<progress, state, log, pushed, pc, draft>>
      /\ plan' \in Plan /\ edits' = edits + 1 /\ mishap' = TRUE
  BY DEF EditPlan
<1>2. edits' \in Nat
  BY <1>1 DEF IInv
<1>3. mishap' \in BOOLEAN
  BY <1>1
<1> QED
  BY <1>1, <1>2, <1>3 DEF IInv, StateTyped, Good, GoodRecord, TypedRecord, ProvedRecord

LEMMA PushKeeps ==
    ASSUME IInv, NEW o \in Operator, Push(o)
    PROVE  IInv'
<1>1. UNCHANGED <<plan, progress, state, log, pc, draft, edits, mishap>> /\ pushed' = Len(log)
  BY DEF Push
<1>2. pushed' \in 0 .. Len(log)
  BY <1>1 DEF IInv
<1> QED
  BY <1>1, <1>2 DEF IInv, StateTyped, Good, GoodRecord, TypedRecord, ProvedRecord

LEMMA NextKeeps == IInv /\ [Next]_vars => IInv'
<1> SUFFICES ASSUME IInv, [Next]_vars PROVE IInv'
  OBVIOUS
<1>1. ASSUME NEW o \in Operator, NEW a \in Activity, Command(o, a) PROVE IInv'
  BY <1>1, CommandsAreGood, PrepareKeeps
<1>2. ASSUME NEW o \in Operator, RenderState(o) PROVE IInv'
  BY <1>2, RenderStateIsGood, PrepareKeeps
<1>3. ASSUME NEW o \in Operator, NEW a \in Activity, CommitActivity(o, a) PROVE IInv'
  BY <1>3, MakeCommitKeeps DEF CommitActivity
<1>4. ASSUME NEW o \in Operator, NEW a \in Activity, CommitFollowUp(o, a) PROVE IInv'
  BY <1>4, MakeCommitKeeps DEF CommitFollowUp
<1>5. ASSUME NEW o \in Operator, NEW a \in Activity, CommitMixed(o, a) PROVE IInv'
  BY <1>5, MakeCommitKeeps DEF CommitMixed, With
<1>6. CASE UNCHANGED vars
  BY <1>6 DEF vars, IInv, StateTyped, Good, GoodRecord, TypedRecord, ProvedRecord
<1> QED
  BY <1>1, <1>2, <1>3, <1>4, <1>5, <1>6,
     WriteProgressKeeps, WriteStateKeeps, CrashKeeps, EditPlanKeeps, PushKeeps DEF Next

LEMMA Invariance == Spec => []IInv
  BY InitIsGood, NextKeeps, PTL DEF Spec

-----------------------------------------------------------------------------
(* What follows from the invariant, for any number of operators. *)

\* Type correctness: the documents, the history and the commands hold what the
\* tool can put there (save_progress_and_state, git_commit_issues).
THEOREM TypeCorrect == Spec => []TypeOK
<1>1. IInv => TypeOK
  BY DEF IInv, StateTyped, Good, GoodRecord, TypedRecord, TypeOK
<1> QED
  BY <1>1, Invariance, PTL

\* At most one activity is active (command_start), though two commands may both
\* have read that none is.
THEOREM AtMostOneActive == Spec => []OneActive
<1>1. IInv => OneActive
  BY DEF IInv, Good, OneActive
<1> QED
  BY <1>1, Invariance, PTL

\* What is completed is proved, by evidence of its present attempt
\* (command_complete, command_requeue), though commands may overwrite each other.
THEOREM CompletedIsAlwaysProved == Spec => []CompletedIsProved
<1>1. IInv => CompletedIsProved
  BY DEF IInv, Good, GoodRecord, ProvedRecord, CompletedIsProved, With, StatusOf
<1> QED
  BY <1>1, Invariance, PTL

-----------------------------------------------------------------------------
(* One operator: between its reading and its writes nobody else writes. *)

Sole == \A o, p \in Operator : o = p

\* `new' follows `old' by one command: the same attempt with more evidence, or
\* the next attempt, which begins after the commits there are.
SameAttempt(old, new) ==
    /\ new.history = old.history /\ new.boundary = old.boundary
    /\ Len(new.evidence) >= Len(old.evidence)
    /\ SubSeq(new.evidence, 1, Len(old.evidence)) = old.evidence
NextAttempt(old, new) ==
    new.history = Append(old.history, old.evidence) /\ new.boundary = Len(log)
Follows(old, new) == SameAttempt(old, new) \/ NextAttempt(old, new)

\* The commits of an activity since its boundary are of its present attempt.
Credited(document) ==
    \A a \in Activity : \A i \in DOMAIN log :
        log[i].subject = a /\ i > document.records[a].boundary
            => log[i].attempt = Attempt(document.records[a])

SInv ==
    /\ (\A o \in Operator : pc[o] # "state") /\ ~mishap => state = ComputeState(plan, progress)
    /\ \A o \in Operator : pc[o] = "state" => draft[o].progress = progress
    /\ \A o \in Operator : pc[o] = "progress" =>
          \A a \in Activity : Follows(progress.records[a], draft[o].progress.records[a])
    /\ Credited(progress)
    /\ \A o \in Operator : pc[o] # "idle" => Credited(draft[o].progress)

LEMMA Prefixes ==
    ASSUME NEW S, NEW list \in Seq(S)
    PROVE  /\ SubSeq(list, 1, Len(list)) = list
           /\ \A e \in S : /\ SubSeq(Append(list, e), 1, Len(list)) = list
                           /\ Len(Append(list, e)) >= Len(list)
  OBVIOUS

LEMMA StatusFollows ==
    ASSUME NEW record \in Record, NEW s
    PROVE  SameAttempt(record, [record EXCEPT !.status = s])
<1> DEFINE new == [record EXCEPT !.status = s]
<1>1. /\ new.history = record.history /\ new.boundary = record.boundary
      /\ new.evidence = record.evidence
  BY DEF Record
<1>2. record.evidence \in Seq(Evidence)
  BY DEF Record
<1> QED
  BY <1>1, <1>2, Prefixes DEF SameAttempt

LEMMA EvidenceFollows ==
    ASSUME NEW record \in Record, NEW piece \in Evidence
    PROVE  SameAttempt(record, [record EXCEPT !.evidence = Append(@, piece)])
<1> DEFINE new == [record EXCEPT !.evidence = Append(@, piece)]
<1>1. /\ new.history = record.history /\ new.boundary = record.boundary
      /\ new.evidence = Append(record.evidence, piece)
  BY DEF Record
<1>2. record.evidence \in Seq(Evidence)
  BY DEF Record
<1> QED
  BY <1>1, <1>2, Prefixes DEF SameAttempt

\* Every command writes a record that follows the one it has read; what it
\* activates was started, with the commits in order.
LEMMA CommandsFollow ==
    ASSUME IInv, NEW o \in Operator, NEW a \in Activity, Command(o, a)
    PROVE  \E r : /\ Change(o, a, r)
                  /\ Follows(progress.records[a], r)
                  /\ \/ r.status # "in_progress"
                     \/ StatusOf(progress, a) = "in_progress"
                     \/ CommitsInOrder(progress)
<1> DEFINE record == progress.records[a]
<1>1. record \in Record
  BY DEF IInv, Good, GoodRecord, TypedRecord
<1>2. \A s : SameAttempt(record, [record EXCEPT !.status = s])
             /\ [record EXCEPT !.status = s].status = s
  BY <1>1, StatusFollows DEF Record
<1>3. CASE Start(o, a)
  <2>1. CommitsInOrder(progress) /\ Change(o, a, [record EXCEPT !.status = "in_progress"])
    BY <1>3 DEF Start, MayStart
  <2> QED
    BY <1>2, <2>1 DEF Follows
<1>4. ASSUME NEW s \in {"pending", "completed", "needs_review", "blocked"},
             Change(o, a, [record EXCEPT !.status = s])
      PROVE  \E r : Change(o, a, r) /\ Follows(record, r) /\ r.status # "in_progress"
  BY <1>2, <1>4 DEF Follows
<1>5. CASE RequeueActive(o, a) \/ Review(o, a) \/ Block(o, a) \/ Unblock(o, a) \/ Complete(o, a)
  BY <1>4, <1>5 DEF RequeueActive, Review, Block, Unblock, Complete
<1>6. CASE RequeueCompleted(o, a)
  <2>1. Change(o, a, Reopened(record))
    BY <1>6 DEF RequeueCompleted
  <2>2. NextAttempt(record, Reopened(record)) /\ Reopened(record).status = "pending"
    BY DEF NextAttempt, Reopened
  <2> QED
    BY <2>1, <2>2 DEF Follows
<1>7. ASSUME NEW phase \in {"red", "green"}, RecordTest(o, a, phase)
      PROVE  \E r : Change(o, a, r) /\ Follows(record, r)
                    /\ StatusOf(progress, a) = "in_progress"
  <2> DEFINE piece == [phase |-> phase, attempt |-> Attempt(record)]
  <2>1. /\ Change(o, a, [record EXCEPT !.evidence = Append(@, piece)])
        /\ StatusOf(progress, a) = "in_progress"
    BY <1>7 DEF RecordTest, StatusOf
  <2>2. piece \in Evidence
    BY <1>1 DEF Evidence, Attempt, Record
  <2>3. SameAttempt(record, [record EXCEPT !.evidence = Append(@, piece)])
    BY <1>1, <2>2, EvidenceFollows
  <2> QED
    BY <2>1, <2>3 DEF Follows
<1> QED
  BY <1>3, <1>5, <1>6, <1>7, <1>4 DEF Command

LEMMA FollowersAreCredited ==
    ASSUME IInv, Credited(progress), NEW document,
           \A a \in Activity : Follows(progress.records[a], document.records[a])
    PROVE  Credited(document)
<1> SUFFICES ASSUME NEW a \in Activity, NEW i \in DOMAIN log,
                    log[i].subject = a, i > document.records[a].boundary
             PROVE  log[i].attempt = Attempt(document.records[a])
  BY DEF Credited
<1>1. CASE SameAttempt(progress.records[a], document.records[a])
  BY <1>1 DEF SameAttempt, Credited, Attempt
<1>2. CASE NextAttempt(progress.records[a], document.records[a])
  <2>1. i > Len(log) /\ log \in Seq(Commit)
    BY <1>2 DEF NextAttempt, IInv
  <2> QED
    BY <2>1
<1> QED
  BY <1>1, <1>2 DEF Follows

LEMMA PrepareKeepsSole ==
    ASSUME IInv, SInv, Sole, NEW o \in Operator, NEW document, Prepare(o, document),
           \A a \in Activity : Follows(progress.records[a], document.records[a])
    PROVE  SInv'
<1>1. UNCHANGED <<plan, log, progress, state, mishap>> /\ pc[o] = "idle"
  BY DEF Prepare, people
<1>2. \A p \in Operator : p = o
  BY DEF Sole
<1>3. pc'[o] = "progress" /\ draft'[o].progress = document
  BY DEF Prepare, IInv
<1>4. Credited(document)
  BY FollowersAreCredited DEF SInv
<1>5. (~mishap => state = ComputeState(plan, progress))'
  <2>1. ~mishap => state = ComputeState(plan, progress)
    BY <1>1, <1>2 DEF SInv
  <2> QED
    BY <1>1, <2>1 DEF ComputeState, Ready, With, StatusOf
<1>6. Credited(progress)'
  BY <1>1 DEF SInv, Credited, Attempt
<1>7. (\A p \in Operator : pc[p] # "idle" => Credited(draft[p].progress))'
  BY <1>1, <1>2, <1>3, <1>4 DEF Credited, Attempt
<1>8. (\A p \in Operator : pc[p] = "progress" =>
         \A a \in Activity : Follows(progress.records[a], draft[p].progress.records[a]))'
  BY <1>1, <1>2, <1>3 DEF Follows, SameAttempt, NextAttempt
<1> QED
  BY <1>2, <1>3, <1>5, <1>6, <1>7, <1>8 DEF SInv

LEMMA CommandKeepsSole ==
    ASSUME IInv, SInv, Sole, NEW o \in Operator, NEW a \in Activity, Command(o, a)
    PROVE  SInv'
<1>1. PICK r : Change(o, a, r) /\ Follows(progress.records[a], r)
  BY CommandsFollow
<1> DEFINE document == [progress EXCEPT !.records[a] = r]
<1>2. \A b \in Activity : document.records[b] = IF b = a THEN r ELSE progress.records[b]
  BY DEF IInv, Good, Progress
<1>3. \A b \in Activity : Follows(progress.records[b], progress.records[b])
  <2> SUFFICES ASSUME NEW b \in Activity
               PROVE  SameAttempt(progress.records[b], progress.records[b])
    BY DEF Follows
  <2>1. progress.records[b].evidence \in Seq(Evidence)
    BY DEF IInv, Good, GoodRecord, TypedRecord, Record
  <2> QED
    BY <2>1, Prefixes DEF SameAttempt
<1>4. \A b \in Activity : Follows(progress.records[b], document.records[b])
  BY <1>1, <1>2, <1>3
<1>5. Prepare(o, document)
  BY <1>1 DEF Change
<1> QED
  BY <1>4, <1>5, PrepareKeepsSole

LEMMA RenderStateKeepsSole ==
    ASSUME IInv, SInv, Sole, NEW o \in Operator, RenderState(o)
    PROVE  SInv'
<1> DEFINE document == [progress EXCEPT !.digest = plan]
<1>1. document.records = progress.records
  BY DEF IInv, Good, Progress
<1>2. ASSUME NEW a \in Activity
      PROVE  SameAttempt(progress.records[a], document.records[a])
  <2>1. progress.records[a].evidence \in Seq(Evidence)
    BY DEF IInv, Good, GoodRecord, TypedRecord, Record
  <2> QED
    BY <1>1, <2>1, Prefixes DEF SameAttempt
<1>3. Prepare(o, document)
  BY DEF RenderState
<1> QED
  BY <1>2, <1>3, PrepareKeepsSole DEF Follows

\* The summary of documents that stay as they are stays as it is.
LEMMA SummaryStays ==
    ASSUME UNCHANGED <<plan, progress>>, state' = ComputeState(plan, progress)
    PROVE  (state = ComputeState(plan, progress))'
  BY DEF ComputeState, Ready, With, StatusOf

LEMMA WriteProgressKeepsSole ==
    ASSUME IInv, SInv, Sole, NEW o \in Operator, WriteProgress(o)
    PROVE  SInv'
<1>1. UNCHANGED <<plan, log, state, mishap, draft>> /\ progress' = draft[o].progress
      /\ pc[o] = "progress" /\ pc'[o] = "state"
  BY DEF WriteProgress, people, IInv
<1>2. \A p \in Operator : p = o
  BY DEF Sole
<1>3. Credited(draft[o].progress)
  BY <1>1 DEF SInv
<1>4. Credited(progress)' /\ \A p \in Operator : Credited(draft[p].progress)'
  BY <1>1, <1>2, <1>3 DEF Credited, Attempt
<1> QED
  BY <1>1, <1>2, <1>4 DEF SInv

LEMMA WriteStateKeepsSole ==
    ASSUME IInv, SInv, Sole, NEW o \in Operator, WriteState(o)
    PROVE  SInv'
<1>1. UNCHANGED <<plan, log, progress>> /\ pc[o] = "state" /\ pc'[o] = "idle"
      /\ state' = ComputeState(draft[o].plan, draft[o].progress)
      /\ mishap' = (draft[o].plan # plan)
  BY DEF WriteState, people, IInv
<1>2. \A p \in Operator : p = o
  BY DEF Sole
<1>3. draft[o].progress = progress
  BY <1>1 DEF SInv
<1>4. ~mishap' => state' = ComputeState(plan, progress)
  <2> SUFFICES ASSUME ~mishap' PROVE state' = ComputeState(plan, progress)
    OBVIOUS
  <2>1. draft[o].plan = plan
    BY <1>1, Zenon
  <2> QED
    BY <1>1, <1>3, <2>1, Zenon
<1>5. (~mishap => state = ComputeState(plan, progress))'
  BY <1>1, <1>4, SummaryStays
<1>6. Credited(progress)'
  BY <1>1 DEF SInv, Credited, Attempt
<1> QED
  BY <1>1, <1>2, <1>5, <1>6 DEF SInv

LEMMA CrashKeepsSole ==
    ASSUME IInv, SInv, Sole, NEW o \in Operator, Crash(o)
    PROVE  SInv'
<1>1. UNCHANGED <<plan, log, progress, state>> /\ pc[o] # "idle" /\ pc'[o] = "idle"
      /\ mishap' = (mishap \/ pc[o] = "state")
  BY DEF Crash, people, IInv
<1>2. \A p \in Operator : p = o
  BY DEF Sole
<1>3. ~mishap' => state = ComputeState(plan, progress)
  BY <1>1, <1>2 DEF SInv
<1>4. (~mishap => state = ComputeState(plan, progress))'
  BY <1>1, <1>3, SummaryStays
<1>5. Credited(progress)'
  BY <1>1 DEF SInv, Credited, Attempt
<1> QED
  BY <1>1, <1>2, <1>4, <1>5 DEF SInv

LEMMA MakeCommitKeepsSole ==
    ASSUME IInv, SInv, Sole, NEW o \in Operator, NEW a \in Activity,
           NEW subject \in {a, NoActivity}, NEW trailers,
           MakeCommit(o, a, subject, trailers)
    PROVE  SInv'
<1> DEFINE commit == [subject |-> subject, trailers |-> trailers,
                      attempt |-> Attempt(progress.records[a])]
<1>1. UNCHANGED <<plan, progress, state, mishap, draft, pc>> /\ pc[o] = "idle"
      /\ log' = Append(log, commit)
  BY DEF MakeCommit
<1>2. \A p \in Operator : p = o
  BY DEF Sole
<1>3. log \in Seq(Commit)
  BY DEF IInv
<1>4. ASSUME NEW b \in Activity, NEW i \in DOMAIN log', log'[i].subject = b,
             i > progress.records[b].boundary
      PROVE  log'[i].attempt = Attempt(progress.records[b])
  <2>1. CASE i \in DOMAIN log
    <3>1. log'[i] = log[i]
      BY <1>1, <1>3, <2>1
    <3> QED
      BY <1>4, <2>1, <3>1 DEF SInv, Credited
  <2>2. CASE i = Len(log) + 1
    <3>1. log'[i] = commit
      BY <1>1, <1>3, <2>2
    <3>2. b = a
      BY <1>4, <3>1, RoadmapConstants
    <3> QED
      BY <3>1, <3>2
  <2> QED
    BY <1>1, <1>3, <2>1, <2>2
<1>5. Credited(progress)'
  BY <1>1, <1>4 DEF Credited, Attempt
<1>6. (~mishap => state = ComputeState(plan, progress))'
  <2>1. ~mishap => state = ComputeState(plan, progress)
    BY <1>1, <1>2 DEF SInv
  <2> QED
    BY <1>1, <2>1, SummaryStays
<1> QED
  BY <1>1, <1>2, <1>5, <1>6 DEF SInv

LEMMA EditPlanKeepsSole ==
    ASSUME IInv, SInv, Sole, NEW o \in Operator, EditPlan(o)
    PROVE  SInv'
<1>1. UNCHANGED <<progress, log, pc, draft>> /\ mishap' = TRUE /\ pc[o] = "idle"
  BY DEF EditPlan
<1>2. \A p \in Operator : p = o
  BY DEF Sole
<1>3. Credited(progress)'
  BY <1>1 DEF SInv, Credited, Attempt
<1> QED
  BY <1>1, <1>2, <1>3 DEF SInv

\* Nothing of what the invariant is about changes.
LEMMA StutterKeepsSole ==
    ASSUME SInv, UNCHANGED <<plan, progress, state, log, pc, draft, mishap>>
    PROVE  SInv'
<1>1. (\A o \in Operator : pc[o] # "state") /\ ~mishap => state = ComputeState(plan, progress)
  BY DEF SInv
<1>2. ((\A o \in Operator : pc[o] # "state") /\ ~mishap => state = ComputeState(plan, progress))'
  BY <1>1, SummaryStays
<1>3. Credited(progress)'
      /\ (\A o \in Operator : pc[o] # "idle" => Credited(draft[o].progress))'
  BY DEF SInv, Credited, Attempt
<1>4. (\A o \in Operator : pc[o] = "progress" =>
         \A a \in Activity : Follows(progress.records[a], draft[o].progress.records[a]))'
  BY DEF SInv, Follows, SameAttempt, NextAttempt
<1> QED
  BY <1>2, <1>3, <1>4 DEF SInv

LEMMA InitIsSole == Init => SInv
<1> SUFFICES ASSUME Init PROVE SInv
  OBVIOUS
<1>1. state = ComputeState(plan, progress) /\ DOMAIN log = {} /\ \A o \in Operator : pc[o] = "idle"
  BY DEF Init, Nothing
<1> QED
  BY <1>1 DEF SInv, Credited

LEMMA NextKeepsSole == Sole /\ IInv /\ SInv /\ [Next]_vars => SInv'
<1> SUFFICES ASSUME Sole, IInv, SInv, [Next]_vars PROVE SInv'
  OBVIOUS
<1>1. ASSUME NEW o \in Operator, NEW a \in Activity,
             CommitActivity(o, a) \/ CommitFollowUp(o, a) \/ CommitMixed(o, a)
      PROVE  SInv'
  BY <1>1, MakeCommitKeepsSole DEF CommitActivity, CommitFollowUp, CommitMixed
<1>2. ASSUME NEW o \in Operator, Push(o) PROVE SInv'
  BY <1>2, StutterKeepsSole DEF Push
<1>3. CASE UNCHANGED vars
  BY <1>3, StutterKeepsSole DEF vars
<1> QED
  BY <1>1, <1>2, <1>3, CommandKeepsSole, RenderStateKeepsSole, WriteProgressKeepsSole,
     WriteStateKeepsSole, CrashKeepsSole, EditPlanKeepsSole DEF Next

LEMMA SoleInvariance == ASSUME Sole PROVE Spec => [](IInv /\ SInv)
<1>1. Init => IInv /\ SInv
  BY InitIsGood, InitIsSole
<1>2. (IInv /\ SInv) /\ [Next]_vars => (IInv /\ SInv)'
  BY NextKeeps, NextKeepsSole
<1> QED
  BY <1>1, <1>2, PTL DEF Spec

-----------------------------------------------------------------------------
(* What follows for one operator. *)

\* Between commands current_state.json is the summary of the two documents,
\* unless a crash between the two writes or an edit left it behind
\* (save_progress_and_state).
THEOREM SummaryIsCurrent == ASSUME Sole PROVE Spec => []StateIsCurrent
<1>1. SInv => StateIsCurrent
  BY DEF SInv, StateIsCurrent
<1> QED
  BY <1>1, SoleInvariance, PTL

LEMMA StepsKeepEvidence ==
    ASSUME Sole, IInv, SInv, [Next]_vars
    PROVE  [KeepsEvidence]_vars
<1>1. CASE UNCHANGED progress
  <2> SUFFICES ASSUME NEW a \in Activity
               PROVE  SubSeq(progress.records[a].evidence, 1, Len(progress.records[a].evidence))
                         = progress.records[a].evidence
    BY <1>1 DEF KeepsEvidence, IInv, Good, GoodRecord, TypedRecord, Record
  <2>1. progress.records[a].evidence \in Seq(Evidence)
    BY DEF IInv, Good, GoodRecord, TypedRecord, Record
  <2> QED
    BY <2>1, Prefixes
<1>2. ASSUME NEW o \in Operator, WriteProgress(o) PROVE KeepsEvidence
  <2>1. progress' = draft[o].progress /\ pc[o] = "progress"
    BY <1>2 DEF WriteProgress
  <2>2. \A a \in Activity : Follows(progress.records[a], progress'.records[a])
    BY <2>1 DEF SInv
  <2> QED
    BY <2>2 DEF Follows, SameAttempt, NextAttempt, KeepsEvidence
<1>3. ASSUME NEW o \in Operator, NEW document, Prepare(o, document) PROVE UNCHANGED progress
  BY <1>3 DEF Prepare
<1>4. ASSUME NEW o \in Operator, NEW a \in Activity, Command(o, a) PROVE UNCHANGED progress
  BY <1>3, <1>4, CommandsAreGood
<1>5. ASSUME NEW o \in Operator, NEW a \in Activity,
             CommitActivity(o, a) \/ CommitFollowUp(o, a) \/ CommitMixed(o, a)
      PROVE  UNCHANGED progress
  BY <1>5 DEF CommitActivity, CommitFollowUp, CommitMixed, MakeCommit
<1>6. ASSUME NEW o \in Operator,
             RenderState(o) \/ WriteState(o) \/ Crash(o) \/ EditPlan(o) \/ Push(o)
      PROVE  UNCHANGED progress
  BY <1>3, <1>6 DEF RenderState, WriteState, Crash, EditPlan, Push
<1> QED
  BY <1>1, <1>2, <1>4, <1>5, <1>6 DEF Next, vars

\* Evidence is added or put away, never lost (command_record_test,
\* command_requeue).
THEOREM EvidenceIsAlwaysKept == ASSUME Sole PROVE Spec => EvidenceIsKept
<1>1. IInv /\ SInv /\ [Next]_vars => [KeepsEvidence]_vars
  BY StepsKeepEvidence
<1> QED
  BY <1>1, SoleInvariance, PTL DEF Spec, EvidenceIsKept

\* The commit that git_commit_issues accepts is of the present attempt.
LEMMA AcceptedIsFresh ==
    ASSUME IInv, SInv, NEW d \in Activity, HasItsCommit(d, progress.records[d])
    PROVE  \E i \in 1 .. pushed : /\ log[i].subject = d /\ log[i].trailers = {d}
                                  /\ log[i].attempt = Attempt(progress.records[d])
<1> DEFINE record == progress.records[d]
<1>1. log \in Seq(Commit) /\ pushed \in 0 .. Len(log) /\ record.boundary \in Nat
  BY DEF IInv, Good, GoodRecord, TypedRecord, Record
<1>2. PICK i \in DOMAIN log :
         /\ record.boundary = 0 \/ i \in Descendants(record.boundary)
         /\ log[i].subject = d /\ log[i].trailers = {d} /\ i <= pushed
  BY DEF HasItsCommit, Descendants
<1>3. i \in 1 .. pushed /\ i > record.boundary
  BY <1>1, <1>2 DEF Descendants
<1>4. log[i].attempt = Attempt(record)
  BY <1>2, <1>3 DEF SInv, Credited
<1> QED
  BY <1>2, <1>3, <1>4

\* Only a command that finds the commits in order starts anything.
LEMMA StartersFindOrder ==
    ASSUME IInv, [Next]_vars, NEW a \in Activity, Starts(a)
    PROVE  CommitsInOrder(progress)
<1>1. PICK p \in Operator : /\ pc[p] = "idle" /\ pc'[p] = "progress"
                            /\ StatusOf(progress, a) # "in_progress"
                            /\ StatusOf(draft'[p].progress, a) = "in_progress"
  BY DEF Starts
<1>2. ASSUME NEW o \in Operator, NEW document, Prepare(o, document)
      PROVE  draft'[p].progress = document
  <2>1. pc' = [pc EXCEPT ![o] = "progress"]
        /\ draft' = [draft EXCEPT ![o] = [plan |-> plan, progress |-> document]]
    BY <1>2 DEF Prepare
  <2>2. p = o
    BY <1>1, <2>1 DEF IInv
  <2> QED
    BY <2>1, <2>2 DEF IInv
<1>3. ASSUME NEW o \in Operator, NEW b \in Activity, Command(o, b)
      PROVE  CommitsInOrder(progress)
  <2>1. PICK r : /\ Change(o, b, r)
                 /\ \/ r.status # "in_progress"
                    \/ StatusOf(progress, b) = "in_progress"
                    \/ CommitsInOrder(progress)
    BY <1>3, CommandsFollow
  <2>2. draft'[p].progress = [progress EXCEPT !.records[b] = r]
    BY <1>2, <2>1 DEF Change
  <2>3. progress \in Progress
    BY DEF IInv, Good
  <2>4. draft'[p].progress.records[a] = IF a = b THEN r ELSE progress.records[a]
    BY <2>2, <2>3 DEF Progress
  <2> QED
    BY <1>1, <2>1, <2>4 DEF StatusOf
<1>4. ASSUME NEW o \in Operator, RenderState(o) PROVE FALSE
  <2>1. draft'[p].progress = [progress EXCEPT !.digest = plan]
    BY <1>2, <1>4 DEF RenderState
  <2>2. draft'[p].progress.records = progress.records
    BY <2>1 DEF IInv, Good, Progress
  <2> QED
    BY <1>1, <2>2 DEF StatusOf
<1>5. ASSUME NEW o \in Operator, NEW b \in Activity,
             CommitActivity(o, b) \/ CommitFollowUp(o, b) \/ CommitMixed(o, b)
      PROVE  FALSE
  BY <1>1, <1>5 DEF CommitActivity, CommitFollowUp, CommitMixed, MakeCommit
<1>6. ASSUME NEW o \in Operator, WriteProgress(o) \/ WriteState(o) \/ Crash(o) PROVE FALSE
  BY <1>1, <1>6 DEF WriteProgress, WriteState, Crash, IInv
<1>7. ASSUME NEW o \in Operator, EditPlan(o) \/ Push(o) PROVE FALSE
  BY <1>1, <1>7 DEF EditPlan, Push
<1>8. CASE UNCHANGED vars
  BY <1>1, <1>8 DEF vars
<1> QED
  BY <1>3, <1>4, <1>5, <1>6, <1>7, <1>8 DEF Next

\* A start rests on commits of the present attempts, the reopened ones included
\* (command_start, git_commit_issues).
THEOREM CreditIsAlwaysFresh == ASSUME Sole PROVE Spec => CreditIsFresh
<1>1. ASSUME IInv, SInv, [Next]_vars PROVE StartsOnCredit
  <2> SUFFICES ASSUME NEW a \in Activity, Starts(a), NEW d \in With(progress, "completed")
               PROVE  \E i \in 1 .. pushed :
                         /\ log[i].subject = d /\ log[i].trailers = {d}
                         /\ log[i].attempt = Attempt(progress.records[d])
    BY DEF StartsOnCredit
  <2>1. d \in Activity /\ HasItsCommit(d, progress.records[d])
    BY <1>1, StartersFindOrder DEF CommitsInOrder, With
  <2> QED
    BY <1>1, <2>1, AcceptedIsFresh
<1>2. IInv /\ SInv /\ [Next]_vars => [StartsOnCredit]_vars
  BY <1>1
<1> QED
  BY <1>2, SoleInvariance, PTL DEF Spec, CreditIsFresh

-----------------------------------------------------------------------------
(* The members of a set, in order. *)

LEMMA SmallestNumber ==
    ASSUME NEW T, T \subseteq Nat, T # {}
    PROVE  \E n \in T : \A m \in T : n <= m
<1>1. PICK n \in T : \A m \in T : ~ (<<m, n>> \in OpToRel(<, Nat))
  BY WFMin, NatLessThanWellFounded, Zenon
<1>2. ASSUME NEW m \in T PROVE n <= m
  <2>1. n \in Nat /\ m \in Nat
    OBVIOUS
  <2>2. ~ (m < n)
    BY <1>1, <2>1 DEF OpToRel
  <2> QED
    BY <2>1, <2>2
<1> QED
  BY <1>2

\* How many positions of a set are not after one of them: each has its own rank.
Rank(at, i) == Cardinality({j \in at : j <= i})

LEMMA RanksAreApart ==
    ASSUME NEW top \in Nat, NEW at \in SUBSET (1 .. top), NEW i \in at, NEW k \in at, i < k
    PROVE  Rank(at, i) < Rank(at, k)
<1> DEFINE A == {j \in at : j <= i}
           B == {j \in at : j <= k}
<1>1. \A j \in at : j \in Nat
  OBVIOUS
<1>2. A \subseteq B /\ k \in B /\ k \notin A
  <2>1. k <= k /\ ~(k <= i) /\ \A j \in at : j <= i => j <= k
    BY <1>1
  <2> QED
    BY <2>1
<1>3. IsFiniteSet(B)
  <2>1. IsFiniteSet(1 .. top)
    BY FS_Interval
  <2>2. B \in SUBSET (1 .. top)
    OBVIOUS
  <2> HIDE DEF B
  <2> QED
    BY <2>1, <2>2, FS_Subset
<1> HIDE DEF A, B
<1>4. IsFiniteSet(A) /\ Cardinality(A) <= Cardinality(B) /\ Cardinality(A) # Cardinality(B)
  BY <1>2, <1>3, FS_Subset
<1>5. Cardinality(A) \in Nat /\ Cardinality(B) \in Nat
  BY <1>3, <1>4, FS_CardinalityType
<1>6. Cardinality(A) < Cardinality(B)
  BY <1>4, <1>5
<1> QED
  BY <1>6 DEF A, B, Rank

LEMMA RanksAre ==
    ASSUME NEW top \in Nat, NEW at \in SUBSET (1 .. top)
    PROVE  /\ Cardinality(at) \in 0 .. top
           /\ \A i \in at : Rank(at, i) \in 1 .. Cardinality(at)
           /\ \A i, k \in at : Rank(at, i) = Rank(at, k) => i = k
           /\ \A n \in 1 .. Cardinality(at) : \E i \in at : Rank(at, i) = n
<1> DEFINE n == Cardinality(at)
           f == [i \in at |-> Rank(at, i)]
<1>1. IsFiniteSet(at) /\ n \in Nat /\ n <= top
  <2>1. IsFiniteSet(1 .. top) /\ Cardinality(1 .. top) = top
    BY FS_Interval
  <2> QED
    BY <2>1, FS_Subset, FS_CardinalityType
<1>2. ASSUME NEW i \in at PROVE Rank(at, i) \in 1 .. n
  <2> DEFINE A == {j \in at : j <= i}
  <2>1. A \in SUBSET at /\ i \in A
    OBVIOUS
  <2> HIDE DEF A
  <2>2. IsFiniteSet(A) /\ Cardinality(A) <= n /\ Cardinality(A) \in Nat
    BY <1>1, <2>1, FS_Subset, FS_CardinalityType
  <2>3. Cardinality(A) # 0
    BY <2>1, <2>2, FS_EmptySet
  <2> QED
    BY <1>1, <2>2, <2>3 DEF A, Rank
<1>3. ASSUME NEW i \in at, NEW k \in at, Rank(at, i) = Rank(at, k) PROVE i = k
  <2>1. Rank(at, i) \in Nat
    BY <1>1, <1>2
  <2>2. i \in Nat /\ k \in Nat
    OBVIOUS
  <2>3. ~(i < k) /\ ~(k < i)
    BY <1>3, <2>1, RanksAreApart
  <2> QED
    BY <2>2, <2>3
<1>4. f \in Injection(at, 1 .. n)
  <2>1. f \in [at -> 1 .. n] /\ \A i, k \in at : f[i] = f[k] => i = k
    BY <1>2, <1>3
  <2> QED
    BY <2>1, Fun_IsInj
<1>5. IsFiniteSet(1 .. n) /\ Cardinality(1 .. n) = n
  BY <1>1, FS_Interval
<1>6. f \in Surjection(at, 1 .. n)
  <2> HIDE DEF f
  <2> QED
    BY <1>4, <1>5, FS_Injection
<1>7. \A m \in 1 .. n : \E i \in at : f[i] = m
  <2> HIDE DEF f
  <2> QED
    BY <1>6 DEF Surjection
<1> QED
  BY <1>1, <1>2, <1>3, <1>7

\* InOrder has the members of the set that the order has, and no others.
LEMMA InOrderIs ==
    ASSUME NEW Node, NEW order \in Seq(Node), NEW set
    PROVE  \E n \in 0 .. Len(order) :
              /\ InOrder(set, order) \in [1 .. n -> set \cap {order[i] : i \in DOMAIN order}]
              /\ \A i \in DOMAIN order :
                    order[i] \in set => \E k \in 1 .. n : InOrder(set, order)[k] = order[i]
<1> DEFINE at == {i \in DOMAIN order : order[i] \in set}
           top == Len(order)
           n == Cardinality(at)
           Nth(k) == CHOOSE i \in at : Cardinality({j \in at : j <= i}) = k
<1>1. top \in Nat /\ DOMAIN order = 1 .. top
  BY LenProperties
<1>2. at \in SUBSET (1 .. top)
  BY <1>1
<1>3. InOrder(set, order) = [k \in 1 .. n |-> order[Nth(k)]]
  BY DEF InOrder
<1> HIDE DEF at, top
<1>4. n \in 0 .. top
  BY <1>1, <1>2, RanksAre
<1>5. \A k \in 1 .. n : Nth(k) \in at /\ Rank(at, Nth(k)) = k
  <2> TAKE k \in 1 .. n
  <2>1. \E i \in at : Cardinality({j \in at : j <= i}) = k
    BY <1>1, <1>2, RanksAre DEF Rank
  <2> QED
    BY <2>1 DEF Rank
<1>6. \A i \in at : \E k \in 1 .. n : Nth(k) = i
  <2> TAKE i \in at
  <2>1. Rank(at, i) \in 1 .. n
    BY <1>1, <1>2, RanksAre
  <2> HIDE DEF Nth, n
  <2>2. Nth(Rank(at, i)) \in at /\ Rank(at, Nth(Rank(at, i))) = Rank(at, i)
    BY <1>5, <2>1
  <2>3. Nth(Rank(at, i)) = i
    BY <1>1, <1>2, <2>2, RanksAre
  <2> QED
    BY <2>1, <2>3
<1> HIDE DEF Nth, n
<1>7. \A k \in 1 .. n : order[Nth(k)] \in set \cap {order[i] : i \in DOMAIN order}
  BY <1>5 DEF at
<1>8. InOrder(set, order) \in [1 .. n -> set \cap {order[i] : i \in DOMAIN order}]
  BY <1>3, <1>7
<1>9. ASSUME NEW i \in DOMAIN order, order[i] \in set
      PROVE  \E k \in 1 .. n : InOrder(set, order)[k] = order[i]
  <2>1. PICK k \in 1 .. n : Nth(k) = i
    BY <1>6, <1>9 DEF at
  <2> QED
    BY <1>3, <2>1
<1> QED
  BY <1>4, <1>8, <1>9 DEF top

-----------------------------------------------------------------------------
(* The search is well defined. *)

Listed(order) == {order[i] : i \in DOMAIN order}
Lists(order) == UNION {[1 .. n -> Listed(order)] : n \in 0 .. Len(order)}
Sets(order) == SUBSET Listed(order)
Asked(order) == [list : Lists(order), visiting : Sets(order), visited : Sets(order)]
Found(order) == [visited : Sets(order), cycle : BOOLEAN]

IsGraph(graph, order) ==
    /\ order \in Seq(Listed(order))
    /\ graph \in [Listed(order) -> Sets(order)]

\* One call of the search, with `visit' for the calls in it.
Call(visit, graph, order, list, visiting, visited) ==
    IF list = <<>> THEN [visited |-> visited, cycle |-> FALSE]
    ELSE LET node == Head(list)
             below == visit[Ask(InOrder(graph[node], order), visiting \cup {node}, visited)]
             here ==
                IF node \in visited THEN [visited |-> visited, cycle |-> FALSE]
                ELSE IF node \in visiting THEN [visited |-> visited, cycle |-> TRUE]
                ELSE [visited |-> below.visited \cup {node}, cycle |-> below.cycle]
             rest == visit[Ask(Tail(list), visiting, here.visited)]
         IN  [visited |-> rest.visited, cycle |-> here.cycle \/ rest.cycle]

\* What every call in a call has less of.
Measure(order, list, visiting) ==
    Cardinality(Listed(order) \ visiting) * (Len(order) + 1) + Len(list)

-----------------------------------------------------------------------------
LEMMA ListIs ==
    ASSUME NEW order, order \in Seq(Listed(order)), NEW list \in Lists(order)
    PROVE  /\ Len(list) \in 0 .. Len(order)
           /\ list \in [1 .. Len(list) -> Listed(order)]
           /\ list \in Seq(Listed(order))
           /\ list # <<>> => /\ Len(list) > 0
                             /\ Head(list) \in Listed(order) /\ Head(list) = list[1]
                             /\ Tail(list) \in Lists(order)
                             /\ Len(Tail(list)) = Len(list) - 1
                             /\ \A i \in 2 .. Len(list) : list[i] = Tail(list)[i - 1]
<1>1. Len(order) \in Nat
  BY LenProperties
<1>2. PICK n \in 0 .. Len(order) : list \in [1 .. n -> Listed(order)]
  BY DEF Lists
<1>3. list \in Seq(Listed(order)) /\ Len(list) = n
  BY <1>1, <1>2
<1>4. ASSUME list # <<>>
      PROVE  /\ Len(list) > 0
             /\ Head(list) \in Listed(order) /\ Head(list) = list[1]
             /\ Tail(list) \in Lists(order)
             /\ Len(Tail(list)) = Len(list) - 1
             /\ \A i \in 2 .. Len(list) : list[i] = Tail(list)[i - 1]
  <2>1. Len(list) > 0
    BY <1>1, <1>3, <1>4, EmptySeq
  <2>2. /\ Head(list) \in Listed(order) /\ Tail(list) \in Seq(Listed(order))
        /\ Len(Tail(list)) = n - 1
    BY <1>3, <1>4, HeadTailProperties
  <2>3. Tail(list) \in [1 .. n - 1 -> Listed(order)]
    BY <2>2, LenProperties
  <2>4. n - 1 \in 0 .. Len(order)
    BY <1>1, <1>3, <2>1
  <2>5. Head(list) = list[1] /\ \A i \in 2 .. Len(list) : list[i] = Tail(list)[i - 1]
    BY <1>1, <1>3, <2>1
  <2> QED
    BY <1>3, <2>1, <2>2, <2>3, <2>4, <2>5 DEF Lists
<1> QED
  BY <1>2, <1>3, <1>4

LEMMA OrderIsListed ==
    ASSUME NEW order, order \in Seq(Listed(order)), NEW set
    PROVE  /\ order \in Lists(order) /\ InOrder(set, order) \in Lists(order)
           /\ \A k \in 1 .. Len(InOrder(set, order)) : InOrder(set, order)[k] \in set
           /\ \A node \in Listed(order) \cap set :
                 \E k \in 1 .. Len(InOrder(set, order)) : InOrder(set, order)[k] = node
<1>1. Len(order) \in Nat /\ order \in [1 .. Len(order) -> Listed(order)]
  BY LenProperties
<1>2. PICK n \in 0 .. Len(order) :
              /\ InOrder(set, order) \in [1 .. n -> set \cap {order[i] : i \in DOMAIN order}]
              /\ \A i \in DOMAIN order :
                    order[i] \in set => \E k \in 1 .. n : InOrder(set, order)[k] = order[i]
  BY InOrderIs
<1>3. InOrder(set, order) \in [1 .. n -> Listed(order)] /\ Len(InOrder(set, order)) = n
      /\ \A k \in 1 .. n : InOrder(set, order)[k] \in set
  BY <1>1, <1>2 DEF Listed
<1>4. Len(order) \in 0 .. Len(order)
  BY <1>1
<1>5. order \in Lists(order) /\ InOrder(set, order) \in Lists(order)
  BY <1>1, <1>3, <1>4 DEF Lists
<1>6. \A node \in Listed(order) \cap set : \E k \in 1 .. n : InOrder(set, order)[k] = node
  BY <1>2 DEF Listed
<1> QED
  BY <1>3, <1>5, <1>6

LEMMA OneLess == ASSUME NEW c \in Nat, c > 0, NEW w \in Nat PROVE (c - 1) * w + w = c * w
  OBVIOUS

LEMMA ListedIsFinite ==
    ASSUME NEW order, order \in Seq(Listed(order)), NEW set
    PROVE  IsFiniteSet(Listed(order) \ set) /\ Cardinality(Listed(order) \ set) \in Nat
<1>1. Len(order) \in Nat /\ DOMAIN order = 1 .. Len(order)
  BY LenProperties
<1>2. IsFiniteSet(DOMAIN order)
  BY <1>1, FS_Interval
<1>3. IsFiniteSet(Listed(order))
  <2>1. order \in Surjection(DOMAIN order, Listed(order))
    BY <1>1, LenProperties DEF Surjection, Listed
  <2> QED
    BY <1>2, <2>1, FS_Surjection
<1> QED
  BY <1>3, FS_Subset, FS_CardinalityType

LEMMA MeasureFalls ==
    ASSUME NEW order, order \in Seq(Listed(order)),
           NEW list \in Lists(order), NEW visiting \in Sets(order)
    PROVE  /\ Measure(order, list, visiting) \in Nat
           /\ list # <<>> =>
                 Measure(order, Tail(list), visiting) < Measure(order, list, visiting)
           /\ \A node \in Listed(order) \ visiting, l \in Lists(order) :
                 list # <<>> =>
                    Measure(order, l, visiting \cup {node}) < Measure(order, list, visiting)
<1> DEFINE w == Len(order) + 1
           c == Cardinality(Listed(order) \ visiting)
<1>1. w \in Nat /\ w = Len(order) + 1
  BY LenProperties
<1>2. c \in Nat /\ IsFiniteSet(Listed(order) \ visiting)
  BY ListedIsFinite
<1>3. Len(list) \in Nat /\ (list # <<>> => Len(Tail(list)) = Len(list) - 1)
  BY ListIs
<1>4. Measure(order, list, visiting) = c * w + Len(list)
      /\ Measure(order, Tail(list), visiting) = c * w + Len(Tail(list))
  BY DEF Measure
<1> HIDE DEF w, c
<1>5. c * w \in Nat
  BY <1>1, <1>2
<1>6. ASSUME NEW node \in Listed(order) \ visiting, NEW l \in Lists(order), list # <<>>
      PROVE  Measure(order, l, visiting \cup {node}) < Measure(order, list, visiting)
  <2> DEFINE d == Cardinality(Listed(order) \ (visiting \cup {node}))
  <2>1. Listed(order) \ (visiting \cup {node}) = (Listed(order) \ visiting) \ {node}
    OBVIOUS
  <2>2. d = c - 1 /\ d \in Nat
    BY <1>2, <2>1, FS_RemoveElement, ListedIsFinite DEF c
  <2>3. Measure(order, l, visiting \cup {node}) = d * w + Len(l)
    BY DEF Measure, w
  <2> HIDE DEF d
  <2>4. c > 0
    BY <1>2, <2>2
  <2>5. (c - 1) * w + w = c * w
    BY <1>1, <1>2, <2>4, OneLess
  <2>6. d * w \in Nat
    BY <1>1, <2>2
  <2>7. d * w + w = c * w
    BY <2>2, <2>5
  <2>8. Len(l) \in Nat /\ Len(l) < w
    BY <1>1, ListIs
  <2> HIDE DEF Measure
  <2> QED
    BY <1>1, <1>3, <1>4, <1>5, <2>3, <2>6, <2>7, <2>8
<1> QED
  BY <1>3, <1>4, <1>5, <1>6

\* A search that is right about the calls with a measure below m.
IsSearch(f, m, graph, order) ==
    \A list \in Lists(order), visiting \in Sets(order), visited \in Sets(order) :
        Measure(order, list, visiting) < m =>
            /\ f[Ask(list, visiting, visited)] \in Found(order)
            /\ f[Ask(list, visiting, visited)] = Call(f, graph, order, list, visiting, visited)

\* A call depends on the calls in it only.
LEMMA CallIs ==
    ASSUME NEW graph, NEW order, IsGraph(graph, order), NEW f, NEW g,
           NEW list \in Lists(order), NEW visiting \in Sets(order), NEW visited \in Sets(order),
           \A l \in Lists(order), v \in Sets(order), w \in Sets(order) :
              Measure(order, l, v) < Measure(order, list, visiting) =>
                 f[Ask(l, v, w)] \in Found(order) /\ g[Ask(l, v, w)] = f[Ask(l, v, w)]
    PROVE  /\ Call(f, graph, order, list, visiting, visited) \in Found(order)
           /\ Call(g, graph, order, list, visiting, visited)
                 = Call(f, graph, order, list, visiting, visited)
<1>1. CASE list = <<>>
  BY <1>1 DEF Call, Found
<1>2. CASE list # <<>>
  <2> DEFINE node == Head(list)
             inner == InOrder(graph[node], order)
             Here(h) == IF node \in visited THEN [visited |-> visited, cycle |-> FALSE]
                        ELSE IF node \in visiting THEN [visited |-> visited, cycle |-> TRUE]
                        ELSE [visited |-> h[Ask(inner, visiting \cup {node}, visited)].visited
                                             \cup {node},
                              cycle |-> h[Ask(inner, visiting \cup {node}, visited)].cycle]
             Rest(h) == h[Ask(Tail(list), visiting, Here(h).visited)]
  <2>1. \A h : Call(h, graph, order, list, visiting, visited)
                  = [visited |-> Rest(h).visited, cycle |-> Here(h).cycle \/ Rest(h).cycle]
    BY <1>2 DEF Call
  <2>2. node \in Listed(order) /\ Tail(list) \in Lists(order) /\ inner \in Lists(order)
    BY <1>2, ListIs, OrderIsListed DEF IsGraph
  <2>3. order \in Seq(Listed(order))
    BY DEF IsGraph
  <2> HIDE DEF node, inner
  <2>4. Here(f) \in Found(order) /\ Here(g) = Here(f)
    <3>1. CASE node \in visited
      BY <3>1 DEF Found
    <3>2. CASE node \notin visited /\ node \in visiting
      BY <3>2 DEF Found
    <3>3. CASE node \notin visited /\ node \notin visiting
      <4>1. visiting \cup {node} \in Sets(order)
        BY <2>2 DEF Sets
      <4>2. Measure(order, inner, visiting \cup {node}) < Measure(order, list, visiting)
        BY <1>2, <2>2, <2>3, <3>3, MeasureFalls
      <4>3. f[Ask(inner, visiting \cup {node}, visited)] \in Found(order)
            /\ g[Ask(inner, visiting \cup {node}, visited)] = f[Ask(inner, visiting \cup {node}, visited)]
        BY <2>2, <4>1, <4>2
      <4> DEFINE r == f[Ask(inner, visiting \cup {node}, visited)]
      <4>4. r.visited \in Sets(order) /\ r.cycle \in BOOLEAN
        BY <4>3 DEF Found
      <4>5. Here(f) = [visited |-> r.visited \cup {node}, cycle |-> r.cycle]
            /\ Here(g) = Here(f)
        BY <3>3, <4>3
      <4> HIDE DEF r, Here
      <4>6. r.visited \cup {node} \in Sets(order)
        BY <2>2, <4>4 DEF Sets
      <4> QED
        BY <4>4, <4>5, <4>6 DEF Found
    <3> QED
      BY <3>1, <3>2, <3>3
  <2> HIDE DEF Here
  <2>5. Here(f).visited \in Sets(order) /\ Here(f).cycle \in BOOLEAN
    BY <2>4 DEF Found
  <2>6. Measure(order, Tail(list), visiting) < Measure(order, list, visiting)
    BY <1>2, <2>3, MeasureFalls
  <2>7. Rest(f) \in Found(order) /\ Rest(g) = Rest(f)
    BY <2>2, <2>4, <2>5, <2>6
  <2> HIDE DEF Rest
  <2>8. Rest(f).visited \in Sets(order) /\ Rest(f).cycle \in BOOLEAN
    BY <2>7 DEF Found
  <2>9. [visited |-> Rest(f).visited, cycle |-> Here(f).cycle \/ Rest(f).cycle] \in Found(order)
    BY <2>5, <2>8 DEF Found
  <2> QED
    BY <2>1, <2>4, <2>7, <2>9
<1> QED
  BY <1>1, <1>2

LEMMA SomeSearch ==
    ASSUME NEW graph, NEW order, IsGraph(graph, order), NEW n \in Nat
    PROVE  \E f : IsSearch(f, n, graph, order)
<1> DEFINE T == {m \in Nat : ~ \E f : IsSearch(f, m, graph, order)}
<1>0. \A list \in Lists(order), visiting \in Sets(order) : Measure(order, list, visiting) \in Nat
  BY MeasureFalls DEF IsGraph
<1> SUFFICES ASSUME T # {} PROVE FALSE
  OBVIOUS
<1>1. PICK m \in T : \A k \in T : m <= k
  BY SmallestNumber
<1>2. m # 0
  <2>1. \A i \in Nat : ~ (i < 0)
    OBVIOUS
  <2>2. \A f : IsSearch(f, 0, graph, order)
    BY <1>0, <2>1 DEF IsSearch
  <2> QED
    BY <2>2
<1>3. m \in Nat /\ m - 1 \in Nat /\ m - 1 \notin T
  BY <1>1, <1>2
<1>4. PICK f : IsSearch(f, m - 1, graph, order)
  BY <1>3
<1> DEFINE g == [asked \in Asked(order) |->
                    Call(f, graph, order, asked.list, asked.visiting, asked.visited)]
<1>5. \A list \in Lists(order), visiting \in Sets(order), visited \in Sets(order) :
         g[Ask(list, visiting, visited)] = Call(f, graph, order, list, visiting, visited)
  BY DEF Ask, Asked
<1> HIDE DEF g
<1>6. ASSUME NEW list \in Lists(order), NEW visiting \in Sets(order),
             NEW visited \in Sets(order), Measure(order, list, visiting) < m
      PROVE  /\ g[Ask(list, visiting, visited)] \in Found(order)
             /\ g[Ask(list, visiting, visited)] = Call(g, graph, order, list, visiting, visited)
  <2>1. ASSUME NEW l \in Lists(order), NEW v \in Sets(order), NEW w \in Sets(order),
               Measure(order, l, v) < Measure(order, list, visiting)
        PROVE  f[Ask(l, v, w)] \in Found(order) /\ g[Ask(l, v, w)] = f[Ask(l, v, w)]
    <3>1. Measure(order, l, v) < m - 1
      <4>1. Measure(order, l, v) \in Nat /\ Measure(order, list, visiting) \in Nat
        BY <1>0
      <4> QED
        BY <1>3, <1>6, <2>1, <4>1
    <3> QED
      BY <1>4, <1>5, <3>1 DEF IsSearch
  <2> QED
    BY <1>5, <2>1, CallIs
<1>7. IsSearch(g, m, graph, order)
  BY <1>6 DEF IsSearch
<1> QED
  BY <1>1, <1>7

LEMMA MoreTimes == ASSUME NEW c \in Nat, NEW d \in Nat, c <= d, NEW w \in Nat PROVE c * w <= d * w
<1>1. (d - c) * w >= 0 /\ (d - c) * w = d * w - c * w
  OBVIOUS
<1> QED
  BY <1>1

LEMMA MeasureIsBounded ==
    ASSUME NEW order, order \in Seq(Listed(order))
    PROVE  \E n \in Nat : \A list \in Lists(order), visiting \in Sets(order) :
              Measure(order, list, visiting) < n
<1> DEFINE w == Len(order) + 1
           d == Cardinality(Listed(order))
<1>1. w \in Nat /\ Len(order) \in Nat
  BY LenProperties
<1>2. d \in Nat /\ IsFiniteSet(Listed(order))
  <2>1. Listed(order) = Listed(order) \ {}
    OBVIOUS
  <2> QED
    BY <2>1, ListedIsFinite
<1>3. d * w \in Nat
  <2> HIDE DEF d, w
  <2> QED
    BY <1>1, <1>2
<1>4. ASSUME NEW list \in Lists(order), NEW visiting \in Sets(order)
      PROVE  Measure(order, list, visiting) < d * w + w
  <2> DEFINE c == Cardinality(Listed(order) \ visiting)
  <2>1. c \in Nat /\ c <= d
    BY <1>2, FS_Subset, ListedIsFinite
  <2>2. Len(list) \in Nat /\ Len(list) < w
    BY <1>1, ListIs
  <2>3. Measure(order, list, visiting) = c * w + Len(list)
    BY DEF Measure
  <2> HIDE DEF c, d, w
  <2>4. c * w <= d * w /\ c * w \in Nat
    BY <1>1, <1>2, <2>1, MoreTimes
  <2> QED
    BY <1>1, <1>3, <2>2, <2>3, <2>4
<1>5. d * w + w \in Nat
  <2> HIDE DEF d, w
  <2> QED
    BY <1>1, <1>3
<1> QED
  BY <1>4, <1>5

\* The search is what its definition says, on every list and all sets.
LEMMA VisitIs ==
    ASSUME NEW graph, NEW order, IsGraph(graph, order),
           NEW list \in Lists(order), NEW visiting \in Sets(order), NEW visited \in Sets(order)
    PROVE  /\ Visit(graph, order)[Ask(list, visiting, visited)] \in Found(order)
           /\ Visit(graph, order)[Ask(list, visiting, visited)]
                 = Call(Visit(graph, order), graph, order, list, visiting, visited)
<1> DEFINE Result(f) == [asked \in Asked(order) |->
                Call(f, graph, order, asked.list, asked.visiting, asked.visited)]
<1>1. Visit(graph, order) = CHOOSE f : f = Result(f)
  BY DEF Visit, Call, Asked, Lists, Listed, Sets
<1>2. PICK n \in Nat : \A l \in Lists(order), v \in Sets(order) : Measure(order, l, v) < n
  BY MeasureIsBounded DEF IsGraph
<1>3. PICK f : IsSearch(f, n, graph, order)
  BY SomeSearch
<1>4. ASSUME NEW l \in Lists(order), NEW v \in Sets(order), NEW w \in Sets(order)
      PROVE  Result(f)[Ask(l, v, w)] = f[Ask(l, v, w)] /\ f[Ask(l, v, w)] \in Found(order)
  <2>1. f[Ask(l, v, w)] \in Found(order)
        /\ f[Ask(l, v, w)] = Call(f, graph, order, l, v, w)
    BY <1>2, <1>3 DEF IsSearch
  <2>2. Ask(l, v, w) \in Asked(order) /\ Ask(l, v, w).list = l
        /\ Ask(l, v, w).visiting = v /\ Ask(l, v, w).visited = w
    BY DEF Ask, Asked
  <2> QED
    BY <2>1, <2>2
<1> DEFINE g == Result(f)
<1>5. ASSUME NEW asked \in Asked(order)
      PROVE  Call(g, graph, order, asked.list, asked.visiting, asked.visited)
                = Call(f, graph, order, asked.list, asked.visiting, asked.visited)
  <2>1. asked.list \in Lists(order) /\ asked.visiting \in Sets(order)
        /\ asked.visited \in Sets(order)
    BY DEF Asked
  <2> HIDE DEF Result
  <2> QED
    BY <1>4, <2>1, CallIs
<1>6. g = Result(g)
  <2> HIDE DEF g
  <2>1. Result(g) = Result(f)
    BY <1>5
  <2> QED
    BY <2>1 DEF g
<1>7. Visit(graph, order) = Result(Visit(graph, order))
  <2> HIDE DEF g, Result
  <2> QED
    BY <1>1, <1>6
<1> DEFINE visit == Visit(graph, order)
           T == {m \in Nat : \E l \in Lists(order), v \in Sets(order), w \in Sets(order) :
                    m = Measure(order, l, v) /\ visit[Ask(l, v, w)] \notin Found(order)}
<1>8. ASSUME NEW l \in Lists(order), NEW v \in Sets(order), NEW w \in Sets(order)
      PROVE  visit[Ask(l, v, w)] = Call(visit, graph, order, l, v, w)
  <2>1. Ask(l, v, w) \in Asked(order) /\ Ask(l, v, w).list = l
        /\ Ask(l, v, w).visiting = v /\ Ask(l, v, w).visited = w
    BY DEF Ask, Asked
  <2> HIDE DEF visit
  <2>2. visit = Result(visit)
    BY <1>7 DEF visit
  <2> QED
    BY <2>1, <2>2
<1> HIDE DEF visit
<1>9. T = {}
  <2> SUFFICES ASSUME T # {} PROVE FALSE
    OBVIOUS
  <2>1. PICK m \in T : \A k \in T : m <= k
    BY SmallestNumber
  <2>2. PICK l \in Lists(order), v \in Sets(order), w \in Sets(order) :
           m = Measure(order, l, v) /\ visit[Ask(l, v, w)] \notin Found(order)
    BY <2>1
  <2>3. ASSUME NEW k \in Lists(order), NEW u \in Sets(order), NEW t \in Sets(order),
               Measure(order, k, u) < Measure(order, l, v)
        PROVE  visit[Ask(k, u, t)] \in Found(order)
    <3>1. Measure(order, k, u) \in Nat /\ Measure(order, l, v) \in Nat
      BY MeasureFalls DEF IsGraph
    <3>2. Measure(order, k, u) \notin T
      BY <2>1, <2>2, <2>3, <3>1
    <3> QED
      BY <3>1, <3>2
  <2>4. Call(visit, graph, order, l, v, w) \in Found(order)
    BY <2>3, CallIs
  <2> QED
    BY <1>8, <2>2, <2>4
<1>10. visit[Ask(list, visiting, visited)] \in Found(order)
  <2>1. Measure(order, list, visiting) \in Nat
    BY MeasureFalls DEF IsGraph
  <2> QED
    BY <1>9, <2>1
<1> QED
  BY <1>8, <1>10 DEF visit

-----------------------------------------------------------------------------
(* The search is right. *)

\* What the search answers to a call.
Answer(graph, order, list, visiting, visited) ==
    Visit(graph, order)[Ask(list, visiting, visited)]

LEMMA AnswersAre ==
    ASSUME NEW graph, NEW order, IsGraph(graph, order),
           NEW list \in Lists(order), NEW visiting \in Sets(order), NEW visited \in Sets(order)
    PROVE  /\ Answer(graph, order, list, visiting, visited) \in Found(order)
           /\ Answer(graph, order, list, visiting, visited).visited \in Sets(order)
           /\ Answer(graph, order, list, visiting, visited).cycle \in BOOLEAN
  BY VisitIs DEF Answer, Found

\* Nothing to ask for.
LEMMA NothingAsked ==
    ASSUME NEW graph, NEW order, IsGraph(graph, order),
           NEW visiting \in Sets(order), NEW visited \in Sets(order), <<>> \in Lists(order)
    PROVE  Answer(graph, order, <<>>, visiting, visited) = [visited |-> visited, cycle |-> FALSE]
<1> DEFINE visit == Visit(graph, order)
<1>1. visit[Ask(<<>>, visiting, visited)] = Call(visit, graph, order, <<>>, visiting, visited)
  BY VisitIs
<1>2. visit[Ask(<<>>, visiting, visited)] = [visited |-> visited, cycle |-> FALSE]
  BY <1>1 DEF Call
<1> QED
  BY <1>2 DEF Answer

\* A node that has been visited is passed over.
LEMMA VisitedAsked ==
    ASSUME NEW graph, NEW order, IsGraph(graph, order),
           NEW list \in Lists(order), NEW visiting \in Sets(order), NEW visited \in Sets(order),
           list # <<>>, Head(list) \in visited
    PROVE  Answer(graph, order, list, visiting, visited)
              = Answer(graph, order, Tail(list), visiting, visited)
<1> DEFINE answer == Answer(graph, order, list, visiting, visited)
           rest == Answer(graph, order, Tail(list), visiting, visited)
           visit == Visit(graph, order)
<1>0. visit[Ask(list, visiting, visited)] = Call(visit, graph, order, list, visiting, visited)
  BY VisitIs
<1>1. answer = [visited |-> rest.visited, cycle |-> FALSE \/ rest.cycle]
  BY <1>0 DEF Call, Answer
<1>2. rest \in Found(order)
  BY AnswersAre, ListIs DEF IsGraph
<1> HIDE DEF answer, rest
<1>3. answer = rest
  BY <1>1, <1>2 DEF Found
<1> QED
  BY <1>3 DEF answer, rest

\* A node that is being visited is on a cycle.
LEMMA VisitingAsked ==
    ASSUME NEW graph, NEW order, IsGraph(graph, order),
           NEW list \in Lists(order), NEW visiting \in Sets(order), NEW visited \in Sets(order),
           list # <<>>, Head(list) \notin visited, Head(list) \in visiting
    PROVE  Answer(graph, order, list, visiting, visited).cycle
<1> DEFINE visit == Visit(graph, order)
           rest == visit[Ask(Tail(list), visiting, visited)]
<1>1. visit[Ask(list, visiting, visited)] = Call(visit, graph, order, list, visiting, visited)
  BY VisitIs
<1>2. visit[Ask(list, visiting, visited)] = [visited |-> rest.visited, cycle |-> TRUE \/ rest.cycle]
  BY <1>1 DEF Call
<1>3. visit[Ask(list, visiting, visited)].cycle
  <2> HIDE DEF visit, rest
  <2>1. (TRUE \/ rest.cycle) = TRUE
    OBVIOUS
  <2>2. visit[Ask(list, visiting, visited)] = [visited |-> rest.visited, cycle |-> TRUE]
    BY <1>2, <2>1
  <2> QED
    BY <2>2
<1> QED
  BY <1>3 DEF Answer

\* The dependencies of a new node are visited first, then it, then the rest.
LEMMA NewAsked ==
    ASSUME NEW graph, NEW order, IsGraph(graph, order),
           NEW list \in Lists(order), NEW visiting \in Sets(order), NEW visited \in Sets(order),
           list # <<>>, Head(list) \notin visited, Head(list) \notin visiting
    PROVE  LET below == Answer(graph, order, InOrder(graph[Head(list)], order),
                               visiting \cup {Head(list)}, visited)
               rest == Answer(graph, order, Tail(list), visiting,
                              below.visited \cup {Head(list)})
           IN  /\ Answer(graph, order, list, visiting, visited).visited = rest.visited
               /\ Answer(graph, order, list, visiting, visited).cycle
                     <=> below.cycle \/ rest.cycle
<1> DEFINE visit == Visit(graph, order)
<1>1. visit[Ask(list, visiting, visited)] = Call(visit, graph, order, list, visiting, visited)
  BY VisitIs
<1> DEFINE below == visit[Ask(InOrder(graph[Head(list)], order),
                              visiting \cup {Head(list)}, visited)]
           rest == visit[Ask(Tail(list), visiting, below.visited \cup {Head(list)})]
<1>2. visit[Ask(list, visiting, visited)]
         = [visited |-> rest.visited, cycle |-> below.cycle \/ rest.cycle]
  BY <1>1 DEF Call
<1>3. /\ visit[Ask(list, visiting, visited)].visited = rest.visited
      /\ visit[Ask(list, visiting, visited)].cycle <=> below.cycle \/ rest.cycle
  <2> DEFINE either == below.cycle \/ rest.cycle
  <2>1. visit[Ask(list, visiting, visited)] = [visited |-> rest.visited, cycle |-> either]
    BY <1>2
  <2> HIDE DEF below, rest, either
  <2>2. /\ visit[Ask(list, visiting, visited)].visited = rest.visited
        /\ visit[Ask(list, visiting, visited)].cycle = either
    BY <2>1
  <2> QED
    BY <2>2, Zenon DEF either
<1> QED
  BY <1>3 DEF Answer

\* Of the calls in a set, one that measures least.
LEMMA SmallestCall ==
    ASSUME NEW graph, NEW order, IsGraph(graph, order), NEW bad \in SUBSET Asked(order), bad # {}
    PROVE  \E asked \in bad : \A other \in Asked(order) :
              Measure(order, other.list, other.visiting)
                 < Measure(order, asked.list, asked.visiting) => other \notin bad
<1> DEFINE T == {Measure(order, asked.list, asked.visiting) : asked \in bad}
<1>1. \A asked \in Asked(order) : Measure(order, asked.list, asked.visiting) \in Nat
  BY MeasureFalls DEF IsGraph, Asked
<1>2. T \in SUBSET Nat /\ T # {}
  BY <1>1
<1>3. PICK m \in T : \A k \in T : m <= k
  <2> HIDE DEF T
  <2> QED
    BY <1>2, SmallestNumber
<1>4. PICK asked \in bad : m = Measure(order, asked.list, asked.visiting)
  BY <1>3
<1>5. ASSUME NEW other \in Asked(order), other \in bad,
             Measure(order, other.list, other.visiting)
                < Measure(order, asked.list, asked.visiting)
      PROVE  FALSE
  <2>1. Measure(order, other.list, other.visiting) \in T
    BY <1>5
  <2>2. m <= Measure(order, other.list, other.visiting)
    BY <1>3, <2>1
  <2>3. m \in Nat /\ Measure(order, other.list, other.visiting) \in Nat
    BY <1>1, <1>4
  <2> QED
    BY <1>4, <1>5, <2>2, <2>3
<1> QED
  BY <1>5

Members(list) == {list[k] : k \in 1 .. Len(list)}

\* A set of nodes with their dependencies and without a cycle.
Settled(graph, set) ==
    /\ \A node \in set : graph[node] \subseteq set
    /\ \A part \in (SUBSET set) \ {{}} : \E node \in part : graph[node] \cap part = {}

\* Every node of `visiting' has a dependency there, or depends on all of the list.
Chained(graph, list, visiting) ==
    \A node \in visiting :
        graph[node] \cap visiting # {} \/ Members(list) \subseteq graph[node]

LEMMA MembersAre ==
    ASSUME NEW order, order \in Seq(Listed(order)), NEW list \in Lists(order), list # <<>>
    PROVE  Members(list) = {Head(list)} \cup Members(Tail(list))
<1>1. /\ Len(list) \in Nat /\ Len(list) > 0 /\ Head(list) = list[1]
      /\ Len(Tail(list)) = Len(list) - 1
      /\ \A i \in 2 .. Len(list) : list[i] = Tail(list)[i - 1]
  BY ListIs
<1>2. ASSUME NEW k \in 1 .. Len(list)
      PROVE  list[k] \in {Head(list)} \cup Members(Tail(list))
  <2>1. CASE k = 1
    BY <1>1, <2>1
  <2>2. CASE k # 1
    <3>1. k \in 2 .. Len(list) /\ k - 1 \in 1 .. Len(Tail(list))
      BY <1>1, <2>2
    <3> QED
      BY <1>1, <3>1 DEF Members
  <2> QED
    BY <2>1, <2>2
<1>3. ASSUME NEW k \in 1 .. Len(Tail(list))
      PROVE  Tail(list)[k] \in Members(list)
  <2>1. k + 1 \in 2 .. Len(list) /\ k + 1 \in 1 .. Len(list) /\ (k + 1) - 1 = k
    BY <1>1
  <2>2. list[k + 1] = Tail(list)[k]
    BY <1>1, <2>1
  <2> QED
    BY <2>1, <2>2 DEF Members
<1>4. Head(list) \in Members(list)
  <2>1. 1 \in 1 .. Len(list)
    BY <1>1
  <2> QED
    BY <1>1, <2>1 DEF Members
<1> QED
  BY <1>2, <1>3, <1>4 DEF Members

\* A node whose dependencies are settled settles too.
LEMMA OneMoreSettles ==
    ASSUME NEW graph, NEW set, NEW new, Settled(graph, set), graph[new] \subseteq set
    PROVE  Settled(graph, set \cup {new})
<1>1. CASE new \in set
  <2>1. set \cup {new} = set
    BY <1>1
  <2> QED
    BY <2>1
<1>2. CASE new \notin set
  <2>1. \A node \in set \cup {new} : graph[node] \subseteq set
    BY DEF Settled
  <2>2. ASSUME NEW part \in (SUBSET (set \cup {new})) \ {{}}
        PROVE  \E node \in part : graph[node] \cap part = {}
    <3>1. CASE part \ {new} = {}
      <4>1. new \in part /\ graph[new] \cap part = {}
        BY <1>2, <2>2, <3>1
      <4> QED
        BY <4>1
    <3>2. CASE part \ {new} # {}
      <4>1. part \ {new} \in (SUBSET set) \ {{}}
        BY <3>2
      <4>2. PICK node \in part \ {new} : graph[node] \cap (part \ {new}) = {}
        BY <4>1 DEF Settled
      <4>3. new \notin graph[node]
        BY <1>2, <2>1, <4>1, <4>2
      <4> QED
        BY <4>2, <4>3
    <3> QED
      BY <3>1, <3>2
  <2> QED
    BY <2>1, <2>2 DEF Settled
<1> QED
  BY <1>1, <1>2

\* What was settled and what is found without a cycle is settled together.
LEMMA WithoutACycleItIsSettled ==
    ASSUME NEW graph, NEW order, IsGraph(graph, order),
           NEW list \in Lists(order), NEW visiting \in Sets(order), NEW visited \in Sets(order),
           Settled(graph, visited), ~ Answer(graph, order, list, visiting, visited).cycle
    PROVE  LET found == Answer(graph, order, list, visiting, visited).visited
           IN  Settled(graph, found) /\ visited \cup Members(list) \subseteq found
<1> DEFINE Fails(l, v, w) ==
               /\ Settled(graph, w) /\ ~ Answer(graph, order, l, v, w).cycle
               /\ ~ LET found == Answer(graph, order, l, v, w).visited
                    IN  Settled(graph, found) /\ w \cup Members(l) \subseteq found
           bad == {asked \in Asked(order) : Fails(asked.list, asked.visiting, asked.visited)}
<1>1. order \in Seq(Listed(order)) /\ graph \in [Listed(order) -> Sets(order)]
  BY DEF IsGraph
<1>2. ASSUME NEW l \in Lists(order), NEW v \in Sets(order), NEW w \in Sets(order),
             Fails(l, v, w),
             \A k \in Lists(order), u \in Sets(order), t \in Sets(order) :
                Measure(order, k, u) < Measure(order, l, v) => ~ Fails(k, u, t)
      PROVE  FALSE
  <2> DEFINE answer == Answer(graph, order, l, v, w)
             node == Head(l)
             inner == InOrder(graph[node], order)
             below == Answer(graph, order, inner, v \cup {node}, w)
             Rest(set) == Answer(graph, order, Tail(l), v, set)
  <2>0. Settled(graph, w) /\ ~ answer.cycle
    BY <1>2
  <2> HIDE DEF Fails
  <2>1. CASE l = <<>>
    <3>1. answer.visited = w
      BY <2>1, NothingAsked
    <3>2. Members(l) = {}
      BY <2>1 DEF Members
    <3> QED
      BY <1>2, <2>0, <3>1, <3>2 DEF Fails
  <2>2. CASE l # <<>>
    <3>1. /\ Tail(l) \in Lists(order) /\ node \in Listed(order)
          /\ Measure(order, Tail(l), v) < Measure(order, l, v)
          /\ Members(l) = {node} \cup Members(Tail(l))
      BY <1>1, <2>2, ListIs, MeasureFalls, MembersAre
    <3>2. CASE node \in w
      <4>1. answer = Rest(w)
        BY <2>2, <3>2, VisitedAsked
      <4>2. ~ Fails(Tail(l), v, w)
        BY <1>2, <3>1
      <4> HIDE DEF node
      <4> QED
        BY <1>2, <2>0, <3>1, <3>2, <4>1, <4>2 DEF Fails
    <3>3. CASE node \notin w /\ node \in v
      BY <2>0, <2>2, <3>3, VisitingAsked
    <3>4. CASE node \notin w /\ node \notin v
      <4>1. /\ inner \in Lists(order) /\ v \cup {node} \in Sets(order)
            /\ Measure(order, inner, v \cup {node}) < Measure(order, l, v)
        BY <1>1, <2>2, <3>1, <3>4, OrderIsListed, MeasureFalls DEF Sets
      <4>2. graph[node] \subseteq Members(inner)
        <5>1. graph[node] \subseteq Listed(order)
          BY <1>1, <3>1 DEF Sets
        <5>2. \A n \in Listed(order) \cap graph[node] :
                 \E k \in 1 .. Len(inner) : inner[k] = n
          BY <1>1, OrderIsListed
        <5> HIDE DEF inner
        <5> QED
          BY <5>1, <5>2 DEF Members
      <4>3. /\ answer.visited = Rest(below.visited \cup {node}).visited
            /\ ~ below.cycle /\ ~ Rest(below.visited \cup {node}).cycle
        <5>1. /\ answer.visited = Rest(below.visited \cup {node}).visited
              /\ answer.cycle <=> below.cycle \/ Rest(below.visited \cup {node}).cycle
          BY <2>2, <3>4, NewAsked
        <5> QED
          BY <2>0, <5>1
      <4>4. below.visited \in Sets(order)
        BY <4>1, AnswersAre
      <4>5. ~ Fails(inner, v \cup {node}, w)
        BY <1>2, <4>1
      <4>6. Settled(graph, below.visited) /\ w \cup Members(inner) \subseteq below.visited
        BY <2>0, <4>3, <4>5 DEF Fails
      <4> DEFINE set == below.visited \cup {node}
      <4> HIDE DEF answer, node, inner, below, Rest, Fails
      <4>7. Settled(graph, set)
        BY <4>2, <4>6, OneMoreSettles
      <4>8. set \in Sets(order)
        BY <3>1, <4>4 DEF Sets
      <4>9. ~ Fails(Tail(l), v, set)
        BY <1>2, <3>1, <4>8
      <4> HIDE DEF set
      <4>10. Settled(graph, Rest(set).visited)
             /\ set \cup Members(Tail(l)) \subseteq Rest(set).visited
        BY <4>3, <4>7, <4>9 DEF Fails, Rest, set
      <4>11. Settled(graph, answer.visited) /\ w \cup Members(l) \subseteq answer.visited
        BY <3>1, <4>3, <4>6, <4>10 DEF set
      <4> QED
        BY <1>2, <4>11 DEF Fails, answer
    <3> QED
      BY <3>2, <3>3, <3>4
  <2> QED
    BY <2>1, <2>2
<1> HIDE DEF Fails
<1>3. bad = {}
  <2> SUFFICES ASSUME bad # {} PROVE FALSE
    OBVIOUS
  <2>1. bad \in SUBSET Asked(order)
    OBVIOUS
  <2>2. PICK asked \in bad : \A other \in Asked(order) :
              Measure(order, other.list, other.visiting)
                 < Measure(order, asked.list, asked.visiting) => other \notin bad
    <3> HIDE DEF bad
    <3> QED
      BY <2>1, SmallestCall
  <2>3. asked.list \in Lists(order) /\ asked.visiting \in Sets(order)
        /\ asked.visited \in Sets(order) /\ Fails(asked.list, asked.visiting, asked.visited)
    BY DEF Asked
  <2>4. ASSUME NEW k \in Lists(order), NEW u \in Sets(order), NEW t \in Sets(order),
               Measure(order, k, u) < Measure(order, asked.list, asked.visiting)
        PROVE  ~ Fails(k, u, t)
    <3>1. /\ Ask(k, u, t) \in Asked(order) /\ Ask(k, u, t).list = k
          /\ Ask(k, u, t).visiting = u /\ Ask(k, u, t).visited = t
      BY DEF Ask, Asked
    <3> QED
      BY <2>2, <2>4, <3>1
  <2> QED
    BY <1>2, <2>3, <2>4
<1>4. ~ Fails(list, visiting, visited)
  <2>1. /\ Ask(list, visiting, visited) \in Asked(order)
        /\ Ask(list, visiting, visited).list = list
        /\ Ask(list, visiting, visited).visiting = visiting
        /\ Ask(list, visiting, visited).visited = visited
    BY DEF Ask, Asked
  <2> QED
    BY <1>3, <2>1
<1> QED
  BY <1>4 DEF Fails

\* In a graph without cycles no cycle is found.
LEMMA WithoutACycleNoneIsFound ==
    ASSUME NEW graph, NEW order, IsGraph(graph, order), Acyclic(graph),
           NEW list \in Lists(order), NEW visiting \in Sets(order), NEW visited \in Sets(order),
           Chained(graph, list, visiting)
    PROVE  ~ Answer(graph, order, list, visiting, visited).cycle
<1> DEFINE Fails(l, v, w) == Chained(graph, l, v) /\ Answer(graph, order, l, v, w).cycle
           bad == {asked \in Asked(order) : Fails(asked.list, asked.visiting, asked.visited)}
<1>1. order \in Seq(Listed(order)) /\ graph \in [Listed(order) -> Sets(order)]
  BY DEF IsGraph
<1>2. ASSUME NEW l \in Lists(order), NEW v \in Sets(order), NEW w \in Sets(order),
             Fails(l, v, w),
             \A k \in Lists(order), u \in Sets(order), t \in Sets(order) :
                Measure(order, k, u) < Measure(order, l, v) => ~ Fails(k, u, t)
      PROVE  FALSE
  <2> DEFINE answer == Answer(graph, order, l, v, w)
             node == Head(l)
             inner == InOrder(graph[node], order)
             below == Answer(graph, order, inner, v \cup {node}, w)
             Rest(set) == Answer(graph, order, Tail(l), v, set)
  <2>0. Chained(graph, l, v) /\ answer.cycle
    BY <1>2
  <2> HIDE DEF Fails
  <2>1. CASE l = <<>>
    <3>1. answer = [visited |-> w, cycle |-> FALSE]
      BY <2>1, NothingAsked
    <3> HIDE DEF answer
    <3> QED
      BY <2>0, <3>1
  <2>2. CASE l # <<>>
    <3>1. /\ Tail(l) \in Lists(order) /\ node \in Listed(order)
          /\ Measure(order, Tail(l), v) < Measure(order, l, v)
          /\ Members(l) = {node} \cup Members(Tail(l))
      BY <1>1, <2>2, ListIs, MeasureFalls, MembersAre
    <3>2. Chained(graph, Tail(l), v)
      <4> HIDE DEF node
      <4> QED
        BY <2>0, <3>1 DEF Chained
    <3>3. CASE node \in w
      <4>1. answer = Rest(w)
        BY <2>2, <3>3, VisitedAsked
      <4>2. ~ Fails(Tail(l), v, w)
        BY <1>2, <3>1
      <4> HIDE DEF node
      <4> QED
        BY <2>0, <3>2, <4>1, <4>2 DEF Fails
    <3>4. CASE node \notin w /\ node \in v
      <4> HIDE DEF node
      <4>1. \A n \in v : graph[n] \cap v # {}
        BY <2>0, <3>1, <3>4 DEF Chained
      <4>2. v \in (SUBSET DOMAIN graph) \ {{}}
        BY <1>1, <3>4 DEF Sets
      <4> QED
        BY <4>1, <4>2 DEF Acyclic
    <3>5. CASE node \notin w /\ node \notin v
      <4>1. /\ inner \in Lists(order) /\ v \cup {node} \in Sets(order)
            /\ Measure(order, inner, v \cup {node}) < Measure(order, l, v)
        BY <1>1, <2>2, <3>1, <3>5, OrderIsListed, MeasureFalls DEF Sets
      <4>2. below.visited \in Sets(order)
        BY <4>1, AnswersAre
      <4>3. Members(inner) \subseteq graph[node]
        <5>1. \A k \in 1 .. Len(inner) : inner[k] \in graph[node]
          BY <1>1, OrderIsListed
        <5> HIDE DEF inner
        <5> QED
          BY <5>1 DEF Members
      <4>4. below.cycle \/ Rest(below.visited \cup {node}).cycle
        <5>1. answer.cycle <=> below.cycle \/ Rest(below.visited \cup {node}).cycle
          BY <2>2, <3>5, NewAsked
        <5> QED
          BY <2>0, <5>1
      <4>5. ~ Fails(inner, v \cup {node}, w)
        BY <1>2, <4>1
      <4> DEFINE set == below.visited \cup {node}
      <4>6. set \in Sets(order)
        <5> HIDE DEF below, node
        <5> QED
          BY <3>1, <4>2 DEF Sets
      <4> HIDE DEF node, inner
      <4>7. Chained(graph, inner, v \cup {node})
        BY <2>0, <3>1, <4>3 DEF Chained
      <4>8. ~ below.cycle
        BY <4>5, <4>7 DEF Fails
      <4> HIDE DEF set
      <4>9. ~ Fails(Tail(l), v, set)
        BY <1>2, <3>1, <4>6
      <4>10. ~ Rest(set).cycle
        BY <3>2, <4>9 DEF Fails
      <4> HIDE DEF below, Rest
      <4> QED
        BY <4>4, <4>8, <4>10 DEF set
    <3> QED
      BY <3>3, <3>4, <3>5
  <2> QED
    BY <2>1, <2>2
<1> HIDE DEF Fails
<1>3. bad = {}
  <2> SUFFICES ASSUME bad # {} PROVE FALSE
    OBVIOUS
  <2>1. bad \in SUBSET Asked(order)
    OBVIOUS
  <2>2. PICK asked \in bad : \A other \in Asked(order) :
              Measure(order, other.list, other.visiting)
                 < Measure(order, asked.list, asked.visiting) => other \notin bad
    <3> HIDE DEF bad
    <3> QED
      BY <2>1, SmallestCall
  <2>3. asked.list \in Lists(order) /\ asked.visiting \in Sets(order)
        /\ asked.visited \in Sets(order) /\ Fails(asked.list, asked.visiting, asked.visited)
    BY DEF Asked
  <2>4. ASSUME NEW k \in Lists(order), NEW u \in Sets(order), NEW t \in Sets(order),
               Measure(order, k, u) < Measure(order, asked.list, asked.visiting)
        PROVE  ~ Fails(k, u, t)
    <3>1. /\ Ask(k, u, t) \in Asked(order) /\ Ask(k, u, t).list = k
          /\ Ask(k, u, t).visiting = u /\ Ask(k, u, t).visited = t
      BY DEF Ask, Asked
    <3> QED
      BY <2>2, <2>4, <3>1
  <2> QED
    BY <1>2, <2>3, <2>4
<1>4. ~ Fails(list, visiting, visited)
  <2>1. /\ Ask(list, visiting, visited) \in Asked(order)
        /\ Ask(list, visiting, visited).list = list
        /\ Ask(list, visiting, visited).visiting = visiting
        /\ Ask(list, visiting, visited).visited = visited
    BY DEF Ask, Asked
  <2> QED
    BY <1>3, <2>1
<1> QED
  BY <1>4 DEF Fails

\* The search of validate_plan, which visits each activity once, finds a cycle in
\* exactly the graphs that have one, whatever they are and in whatever order it
\* takes the activities.
THEOREM SearchIsRight ==
    ASSUME NEW graph, NEW order, IsGraph(graph, order)
    PROVE  HasCycle(graph, order) <=> ~ Acyclic(graph)
<1>1. /\ order \in Seq(Listed(order)) /\ graph \in [Listed(order) -> Sets(order)]
      /\ order \in Lists(order) /\ {} \in Sets(order)
  BY OrderIsListed DEF IsGraph, Sets
<1>2. HasCycle(graph, order) = Answer(graph, order, order, {}, {}).cycle
  BY DEF HasCycle, Answer
<1>3. ASSUME Acyclic(graph) PROVE ~ HasCycle(graph, order)
  <2>1. Chained(graph, order, {})
    BY DEF Chained
  <2>2. ~ Answer(graph, order, order, {}, {}).cycle
    BY <1>1, <1>3, <2>1, WithoutACycleNoneIsFound
  <2> QED
    BY <1>2, <2>2
<1>4. ASSUME ~ HasCycle(graph, order) PROVE Acyclic(graph)
  <2> DEFINE found == Answer(graph, order, order, {}, {}).visited
  <2>1. Settled(graph, {})
    BY DEF Settled
  <2>2. ~ Answer(graph, order, order, {}, {}).cycle
    BY <1>2, <1>4
  <2>3. Settled(graph, found) /\ {} \cup Members(order) \subseteq found
    BY <1>1, <2>1, <2>2, WithoutACycleItIsSettled
  <2>4. Members(order) = DOMAIN graph
    <3>1. DOMAIN order = 1 .. Len(order)
      BY <1>1, LenProperties
    <3> QED
      BY <1>1, <3>1 DEF Members, Listed
  <2> HIDE DEF found
  <2> QED
    BY <2>3, <2>4 DEF Settled, Acyclic
<1> QED
  BY <1>3, <1>4

-----------------------------------------------------------------------------
(* What the search and the choice of the next activity are good for. *)

LEMMA PlansAreGraphs ==
    /\ Order \in Seq(Listed(Order)) /\ Listed(Order) = Activity
    /\ \A p \in Plan : IsGraph(p, Order) /\ p \in [Activity -> SUBSET Activity]
<1>1. /\ Order \in Seq(Activity) /\ Activity = {Order[i] : i \in DOMAIN Order}
      /\ Plan \subseteq [Activity -> SUBSET Activity]
  BY RoadmapConstants
<1>2. Listed(Order) = Activity
  BY <1>1 DEF Listed
<1> QED
  BY <1>1, <1>2 DEF IsGraph, Sets

\* The first of the activities in a set is one of them.
LEMMA FirstIsThere ==
    ASSUME NEW set \in SUBSET Activity, set # {}
    PROVE  First(set) \in set
<1> DEFINE list == InOrder(set, Order)
<1>1. First(set) = Head(list)
  BY DEF First
<1>2. /\ list \in Lists(Order)
      /\ \A k \in 1 .. Len(list) : list[k] \in set
      /\ \A a \in Listed(Order) \cap set : \E k \in 1 .. Len(list) : list[k] = a
  BY PlansAreGraphs, OrderIsListed
<1> HIDE DEF list
<1>3. PICK a \in set : a \in Listed(Order)
  BY PlansAreGraphs
<1>4. PICK k \in 1 .. Len(list) : list[k] = a
  BY <1>2, <1>3
<1>5. Len(list) \in Nat /\ list # <<>>
  BY <1>2, <1>4, ListIs, PlansAreGraphs
<1>6. Len(list) > 0 /\ Head(list) = list[1]
  BY <1>2, <1>5, ListIs, PlansAreGraphs
<1>7. 1 \in 1 .. Len(list)
  BY <1>5, <1>6
<1> QED
  BY <1>1, <1>2, <1>6, <1>7

\* A plan that validate_plan accepts cannot be stuck: among the activities that are
\* not completed one waits for none of the others, whatever the plan, its edits,
\* the commands and where they are killed (validate_plan, compute_state).
THEOREM PlanIsNeverWedged == Spec => []NeverWedged
<1>1. ASSUME IInv, ValidPlan(plan), With(progress, "completed") # Activity,
             LET summary == ComputeState(plan, progress)
             IN  summary.ready \cup summary.active \cup summary.blocked
                    \cup summary.needs_review = {}
      PROVE  FALSE
  <2> DEFINE left == Activity \ With(progress, "completed")
  <2>1. plan \in Plan /\ progress \in Progress
    BY <1>1 DEF IInv, Good
  <2>2. Acyclic(plan)
    <3>1. ~ HasCycle(plan, Order)
      BY <1>1 DEF ValidPlan
    <3> QED
      BY <2>1, <3>1, PlansAreGraphs, SearchIsRight
  <2>3. /\ Ready(plan, progress) = {} /\ With(progress, "in_progress") = {}
        /\ With(progress, "blocked") = {} /\ With(progress, "needs_review") = {}
    BY <1>1 DEF ComputeState
  <2>4. \A a \in Activity : progress.records[a].status \in Status
    BY <2>1 DEF Progress, Record
  <2>5. \A a \in left : a \in With(progress, "pending")
    BY <2>3, <2>4 DEF Status, With, StatusOf
  <2>6. left \in (SUBSET DOMAIN plan) \ {{}}
    BY <1>1, <2>1, PlansAreGraphs DEF With
  <2>7. PICK a \in left : plan[a] \cap left = {}
    <3> HIDE DEF left
    <3> QED
      BY <2>2, <2>6 DEF Acyclic
  <2>8. plan[a] \subseteq With(progress, "completed")
    BY <2>1, <2>7, PlansAreGraphs
  <2>9. a \in Ready(plan, progress)
    BY <2>5, <2>7, <2>8 DEF Ready
  <2> QED
    BY <2>3, <2>9
<1>2. IInv => NeverWedged
  BY <1>1 DEF NeverWedged
<1> QED
  BY <1>2, Invariance, PTL

\* `start' asks for the track of an additional activity.
AdditionalHaveTracks == \A a \in Additional : TrackOf[a] # NoTrack

\* What `next' names can be started once nothing is active and the commits are in
\* order, as far as additional activities have tracks (command_next, command_start).
THEOREM NextCanAlwaysStart == ASSUME AdditionalHaveTracks PROVE Spec => []NextCanStart
<1>1. ASSUME IInv, NEW track \in Track \cup {NoTrack}, NextActivity(track) # NoActivity,
             With(progress, "in_progress") = {}, CommitsInOrder(progress)
      PROVE  \E t \in {track, TrackOf[NextActivity(track)]} : MayStart(NextActivity(track), t)
  <2> DEFINE a == NextActivity(track)
             ready == Ready(plan, progress)
             members == IF track = NoTrack THEN ready ELSE {b \in ready : TrackOf[b] = track}
  <2>1. ready \in SUBSET Activity
    BY DEF Ready, With
  <2>2. a = First(members)
    <3>1. CASE track = NoTrack
      BY <1>1, <3>1 DEF NextActivity, ComputeState
    <3>2. CASE track # NoTrack
      BY <1>1, <3>2 DEF NextActivity, ComputeState
    <3> QED
      BY <3>1, <3>2
  <2> HIDE DEF a
  <2>3. members # {} /\ members \in SUBSET Activity
    <3>1. a # NoActivity
      BY <1>1 DEF a
    <3> QED
      BY <2>1, <2>2, <3>1 DEF First
  <2>4. a \in members
    <3> HIDE DEF members
    <3> QED
      BY <2>2, <2>3, FirstIsThere
  <2>5. /\ a \in Activity /\ StatusOf(progress, a) = "pending"
        /\ plan[a] \subseteq With(progress, "completed")
    BY <2>4 DEF Ready, With
  <2>6. track # NoTrack => TrackOf[a] = track
    BY <2>4
  <2>7. a \in Additional => TrackOf[a] # NoTrack
    BY AdditionalHaveTracks DEF AdditionalHaveTracks
  <2>8. MayStart(a, TrackOf[a])
    BY <1>1, <2>5, <2>7 DEF MayStart
  <2> QED
    BY <2>8 DEF a
<1>2. IInv => NextCanStart
  BY <1>1 DEF NextCanStart
<1> QED
  BY <1>2, Invariance, PTL
=============================================================================
