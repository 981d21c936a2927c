-------------------------- MODULE References_proofs --------------------------
(***************************************************************************)
(* Proofs about References: whatever upstream contains and whatever people *)
(* do to the project meanwhile, what a report says of a commit, a review   *)
(* of a report and an update of its end is so.                             *)
(***************************************************************************)
EXTENDS References, FiniteSetTheorems, FunctionTheorems, SequenceTheorems,
        WellFoundedInduction, TLAPS

\* Artifact, in the order of its generation: what is left to generate, and what
\* has been generated by then.
LEMMA StepsAre == /\ Steps = <<"ledger", "projections", "state">>
                  /\ Artifact = {"ledger", "projections", "state"}
<1>1. Steps = <<"ledger", "projections", "state">>
  BY DEF Steps
<1>2. Artifact = {Steps[i] : i \in {1, 2, 3}}
  BY <1>1 DEF Artifact
<1> QED
  BY <1>1, <1>2

Rest == {Steps, <<"projections", "state">>, <<"state">>, <<>>}

\* Of an update that regenerates: everything but what is left is of its commit.
Made(todo) ==
    /\ todo # Steps => artifacts["ledger"] = job.to
    /\ todo \in {<<"state">>, <<>>} => artifacts["projections"] = job.to
    /\ todo = <<>> => artifacts["state"] = job.to

JobTyped ==
    /\ job \in [step : {"idle", "approved", "moved", "generating"}, to : Commit,
                kind : {"none", "update", "guarded", "pin_only", "regenerate"},
                todo : Rest]
    /\ job.step # "idle" => job.kind # "none"
    /\ artifacts \in [Artifact -> Commit]
    /\ head \in Commit /\ pin \in Commit
    /\ review = NoReport \/ review.to \in Commit

\* What a job's kind commits it to: a guarded one to a commit that passes,
\* which it still does when more evidence is classified.
Kinds ==
    /\ job.step \in {"approved", "moved"} /\ job.kind \in {"update", "guarded"} =>
          job.todo = Steps
    /\ job.kind = "guarded" /\ job.step # "idle" => Passes(job.to)
    /\ job.kind = "pin_only" => job.todo = <<>>
    /\ job.step = "moved" \/ (job.step = "generating" /\ job.kind # "regenerate") =>
          head = job.to
    /\ job.step = "generating" /\ job.kind \in {"update", "guarded"} =>
          pin = job.to /\ Made(job.todo)

\* What holds of the jobs, whatever reports say.
JobInv == JobTyped /\ Kinds /\ OutcomesAreTrue

-----------------------------------------------------------------------------
LEMMA NextOfRest ==
    ASSUME NEW todo \in Rest, todo # <<>>
    PROVE  /\ Tail(todo) \in Rest /\ Tail(todo) # Steps
           /\ Head(todo) \in {"ledger", "projections", "state"}
           /\ Head(todo) = "ledger" <=> todo = Steps
           /\ Tail(todo) = <<"state">> => Head(todo) = "projections"
           /\ Tail(todo) = <<>> => Head(todo) = "state" /\ todo = <<"state">>
<1>1. /\ Steps # <<"projections", "state">> /\ Steps # <<"state">> /\ Steps # <<>>
      /\ <<"projections", "state">> # <<"state">> /\ <<"projections", "state">> # <<>>
      /\ <<"state">> # <<>>
  <2>1. /\ Len(Steps) = 3 /\ Len(<<"projections", "state">>) = 2
        /\ Len(<<"state">>) = 1 /\ Len(<<>>) = 0
    BY DEF Steps
  <2> QED
    BY <2>1
<1>2. CASE todo = Steps
  <2>1. Tail(todo) = <<"projections", "state">> /\ Head(todo) = "ledger"
    BY <1>2 DEF Steps
  <2> QED
    BY <1>1, <1>2, <2>1 DEF Rest
<1>3. CASE todo = <<"projections", "state">>
  <2>1. Tail(todo) = <<"state">> /\ Head(todo) = "projections"
    BY <1>3
  <2> QED
    BY <1>1, <1>3, <2>1 DEF Rest
<1>4. CASE todo = <<"state">>
  <2>1. Tail(todo) = <<>> /\ Head(todo) = "state"
    BY <1>4
  <2> QED
    BY <1>1, <1>4, <2>1 DEF Rest
<1> QED
  BY <1>2, <1>3, <1>4 DEF Rest

LEMMA InitIsTrue == Init => JobInv
<1> SUFFICES ASSUME Init PROVE JobInv
  OBVIOUS
<1>1. FirstPin \in Commit
  BY ReferencesConstants
<1>2. JobTyped
  BY <1>1 DEF Init, Idle, JobTyped, Rest
<1>3. Kinds /\ OutcomesAreTrue
  BY DEF Init, Idle, Kinds, OutcomesAreTrue
<1> QED
  BY <1>2, <1>3 DEF JobInv

\* A commit that passes still does when more is classified.
LEMMA PassesLater ==
    ASSUME NEW commit, Passes(commit), classified \subseteq classified'
    PROVE  Passes(commit)'
  BY DEF Passes, StopsAt

-----------------------------------------------------------------------------
(* Jobs begin. *)

LEMMA ApproveKeeps ==
    ASSUME JobInv, Approve
    PROVE  JobInv'
<1>1. UNCHANGED <<head, pin, artifacts, classified, review, outcome>>
  BY DEF Approve, roadmap, reviewing
<1>2. review.to \in Commit
  BY DEF Approve, Approved, JobInv, JobTyped
<1>3. CASE Passes(review.to)
  <2>1. job' = [step |-> "approved", to |-> review.to, kind |-> "guarded", todo |-> Steps]
    BY <1>3 DEF Approve
  <2>2. JobTyped'
    BY <1>1, <1>2, <2>1 DEF JobInv, JobTyped, Rest
  <2>3. Kinds'
    BY <1>1, <1>3, <2>1, PassesLater DEF Kinds
  <2> QED
    BY <1>1, <2>1, <2>2, <2>3 DEF JobInv, OutcomesAreTrue
<1>4. CASE ~Passes(review.to)
  <2>1. job' = [step |-> "approved", to |-> review.to, kind |-> "pin_only", todo |-> <<>>]
    BY <1>4 DEF Approve
  <2>2. JobTyped'
    BY <1>1, <1>2, <2>1 DEF JobInv, JobTyped, Rest
  <2>3. Kinds'
    BY <2>1 DEF Kinds
  <2> QED
    BY <1>1, <2>1, <2>2, <2>3 DEF JobInv, OutcomesAreTrue
<1> QED
  BY <1>3, <1>4

LEMMA AdvanceKeeps ==
    ASSUME JobInv, NEW commit \in Commit, Advance(commit)
    PROVE  JobInv'
<1>1. UNCHANGED <<pin, artifacts, review, outcome>> /\ head' = commit
      /\ job' = [step |-> "moved", to |-> commit, kind |-> "update", todo |-> Steps]
  BY DEF Advance, reviewing
<1>2. JobTyped'
  BY <1>1 DEF JobInv, JobTyped, Rest
<1>3. Kinds'
  BY <1>1 DEF Kinds
<1> QED
  BY <1>1, <1>2, <1>3 DEF JobInv, OutcomesAreTrue

LEMMA AdvanceApprovedKeeps ==
    ASSUME JobInv, AdvanceApproved
    PROVE  JobInv'
<1>1. UNCHANGED <<pin, artifacts, classified, review>> /\ job.step = "approved"
  BY DEF AdvanceApproved, roadmap, reviewing
<1>2. CASE Acceptable(job.to) /\ job.to # pin
  <2>1. /\ head' = job.to /\ job' = [job EXCEPT !.step = "moved"]
        /\ UNCHANGED outcome
    BY <1>2 DEF AdvanceApproved
  <2>2. job' \in [step : {"moved"}, to : {job.to}, kind : {job.kind}, todo : {job.todo}]
    BY <2>1 DEF JobInv, JobTyped
  <2>3. JobTyped'
    BY <1>1, <2>1, <2>2 DEF JobInv, JobTyped
  <2>4. Kinds'
    BY <1>1, <2>1, <2>2, PassesLater DEF JobInv, Kinds
  <2> QED
    BY <2>1, <2>2, <2>3, <2>4 DEF JobInv, OutcomesAreTrue
<1>3. CASE ~(Acceptable(job.to) /\ job.to # pin)
  <2>1. job' = Idle /\ outcome' = "refused" /\ UNCHANGED <<head, clean>>
    BY <1>3 DEF AdvanceApproved
  <2>2. JobTyped'
    BY <1>1, <2>1, ReferencesConstants DEF JobInv, JobTyped, Rest, Idle
  <2>3. Kinds'
    BY <2>1 DEF Kinds, Idle
  <2> QED
    BY <2>1, <2>2, <2>3 DEF JobInv, OutcomesAreTrue
<1> QED
  BY <1>2, <1>3

LEMMA WritePinKeeps ==
    ASSUME JobInv, WritePin
    PROVE  JobInv'
<1>1. UNCHANGED <<head, artifacts, classified, review, outcome>> /\ job.step = "moved"
      /\ pin' = job.to /\ job' = [job EXCEPT !.step = "generating"]
  BY DEF WritePin, roadmap, reviewing
<1>2. job' \in [step : {"generating"}, to : {job.to}, kind : {job.kind}, todo : {job.todo}]
  BY <1>1 DEF JobInv, JobTyped
<1>3. JobTyped'
  BY <1>1, <1>2 DEF JobInv, JobTyped
<1>4. Steps \notin {<<"state">>, <<>>}
  <2>1. Len(Steps) = 3 /\ Len(<<"state">>) = 1 /\ Len(<<>>) = 0
    BY DEF Steps
  <2> QED
    BY <2>1
<1>5. Kinds'
  BY <1>1, <1>2, <1>4, PassesLater DEF JobInv, Kinds, Made
<1> QED
  BY <1>1, <1>2, <1>3, <1>5 DEF JobInv, OutcomesAreTrue

LEMMA RegenerateKeeps ==
    ASSUME JobInv, Regenerate
    PROVE  JobInv'
<1>1. UNCHANGED <<head, pin, artifacts, review, outcome>>
      /\ job' = [step |-> "generating", to |-> head, kind |-> "regenerate", todo |-> Steps]
  BY DEF Regenerate, reviewing
<1>2. JobTyped'
  BY <1>1 DEF JobInv, JobTyped, Rest
<1>3. Kinds'
  BY <1>1 DEF Kinds
<1> QED
  BY <1>1, <1>2, <1>3 DEF JobInv, OutcomesAreTrue

-----------------------------------------------------------------------------
(* Jobs generate, and end. *)

LEMMA GenerateKeeps ==
    ASSUME JobInv, Generate
    PROVE  JobInv'
<1> DEFINE made == Head(job.todo)
<1>1. UNCHANGED <<head, pin, classified, review, outcome>>
      /\ job.step = "generating" /\ job.todo # <<>>
      /\ artifacts' = [artifacts EXCEPT ![made] = MadeFrom(made)]
      /\ job' = [job EXCEPT !.todo = Tail(@)]
  BY DEF Generate, roadmap, reviewing
<1>2. job.todo \in Rest
  BY DEF JobInv, JobTyped
<1>3. /\ Tail(job.todo) \in Rest /\ Tail(job.todo) # Steps /\ made \in Artifact
      /\ made = "ledger" <=> job.todo = Steps
      /\ Tail(job.todo) = <<"state">> => made = "projections"
      /\ Tail(job.todo) = <<>> => made = "state" /\ job.todo = <<"state">>
  BY <1>1, <1>2, NextOfRest, StepsAre
<1>4. job' \in [step : {"generating"}, to : {job.to}, kind : {job.kind},
                todo : {Tail(job.todo)}]
  BY <1>1 DEF JobInv, JobTyped
<1>5. MadeFrom(made) \in Commit
  BY StepsAre DEF MadeFrom, JobInv, JobTyped
<1>6. JobTyped'
  BY <1>1, <1>3, <1>4, <1>5 DEF JobInv, JobTyped
<1>7. \A a \in Artifact : artifacts'[a] = IF a = made THEN MadeFrom(made) ELSE artifacts[a]
  BY <1>1 DEF JobInv, JobTyped
<1>8. job.kind # "pin_only"
  BY <1>1 DEF JobInv, Kinds
<1>9. ASSUME job.kind \in {"update", "guarded"} PROVE Made(job.todo)'
  <2>1. head = job.to /\ pin = job.to /\ Made(job.todo)
    BY <1>1, <1>9 DEF JobInv, Kinds
  <2>2. artifacts'["ledger"] = job.to
    <3>1. CASE job.todo = Steps
      BY <1>3, <1>7, <2>1, <3>1, StepsAre DEF MadeFrom
    <3>2. CASE job.todo # Steps
      BY <1>3, <1>7, <2>1, <3>2, StepsAre DEF Made
    <3> QED
      BY <3>1, <3>2
  <2>3. ASSUME Tail(job.todo) = <<"state">> PROVE artifacts'["projections"] = job.to
    <3>1. made = "projections" /\ job.todo # Steps
      BY <1>3, <2>3
    <3> QED
      BY <1>7, <2>1, <3>1, StepsAre DEF MadeFrom, Made
  <2>4. ASSUME Tail(job.todo) = <<>>
        PROVE  artifacts'["projections"] = job.to /\ artifacts'["state"] = job.to
    <3>1. made = "state" /\ job.todo = <<"state">>
      BY <1>3, <2>4
    <3> QED
      BY <1>7, <2>1, <3>1, StepsAre DEF MadeFrom, Made
  <2>5. job'.todo = Tail(job.todo) /\ job'.to = job.to
    BY <1>4
  <2> QED
    BY <2>2, <2>3, <2>4, <2>5 DEF Made
<1>10. Kinds'
  <2>1. Passes(job.to) => Passes(job.to)'
    BY <1>1, PassesLater
  <2> QED
    BY <1>1, <1>4, <1>8, <1>9, <2>1, PassesLater DEF JobInv, Kinds, Passes, StopsAt
<1> QED
  BY <1>1, <1>4, <1>6, <1>10 DEF JobInv, OutcomesAreTrue

\* A job that ends leaves the rest of the invariant to hold of no job.
LEMMA IdleIsTrue ==
    ASSUME JobInv, job' = Idle, UNCHANGED <<head, pin, artifacts, review>>
    PROVE  JobTyped' /\ Kinds'
<1>1. JobTyped'
  BY ReferencesConstants DEF JobInv, JobTyped, Rest, Idle
<1>2. Kinds'
  BY DEF Kinds, Idle
<1> QED
  BY <1>1, <1>2

LEMMA GenerateFailsKeeps ==
    ASSUME JobInv, GenerateFails
    PROVE  JobInv'
<1>1. UNCHANGED <<head, pin, artifacts, review>> /\ job' = Idle
  BY DEF GenerateFails, reviewing
<1>2. job.kind # "guarded"
  <2> SUFFICES ASSUME job.kind = "guarded" PROVE FALSE
    OBVIOUS
  <2>1. Passes(head) /\ job.todo # <<>> /\ job.todo \in Rest
    BY DEF GenerateFails, JobInv, Kinds, JobTyped
  <2>2. Head(job.todo) \in {"ledger", "projections", "state"}
    BY <2>1, NextOfRest
  <2> QED
    BY <2>1, <2>2 DEF GenerateFails, Passes
<1>3. outcome' = "failed"
  BY <1>2 DEF GenerateFails
<1> QED
  BY <1>1, <1>3, IdleIsTrue DEF JobInv, OutcomesAreTrue

LEMMA FinishKeeps ==
    ASSUME JobInv, Finish
    PROVE  JobInv'
<1>1. UNCHANGED <<head, pin, artifacts, review>> /\ job' = Idle
      /\ job.step = "generating" /\ job.todo = <<>>
  BY DEF Finish, reviewing
<1>2. job.kind \in {"update", "guarded", "pin_only", "regenerate"}
  BY <1>1 DEF JobInv, JobTyped
<1>3. CASE job.kind \in {"update", "guarded"}
  <2>1. head = pin /\ pin = job.to /\ Made(<<>>)
    BY <1>1, <1>3 DEF JobInv, Kinds
  <2>2. <<>> # Steps
    BY DEF Steps
  <2>3. \A a \in Artifact : artifacts[a] = pin
    BY <2>1, <2>2, StepsAre DEF Made
  <2>4. outcome' = "updated"
    BY <1>3 DEF Finish
  <2> QED
    BY <1>1, <2>1, <2>3, <2>4, IdleIsTrue DEF JobInv, OutcomesAreTrue
<1>4. CASE job.kind \in {"pin_only", "regenerate"}
  <2>1. outcome' \in {"pin moved", "regenerated"}
    BY <1>4 DEF Finish
  <2> QED
    BY <1>1, <2>1, IdleIsTrue DEF JobInv, OutcomesAreTrue
<1> QED
  BY <1>2, <1>3, <1>4

LEMMA CrashKeeps ==
    ASSUME JobInv, Crash
    PROVE  JobInv'
<1>1. UNCHANGED <<head, pin, artifacts, review>> /\ job' = Idle /\ outcome' = "killed"
  BY DEF Crash, reviewing
<1> QED
  BY <1>1, IdleIsTrue DEF JobInv, OutcomesAreTrue

-----------------------------------------------------------------------------
(* What is done around the jobs. *)

\* A report, or a change of the project, which can only make more commits pass.
LEMMA AroundKeeps ==
    ASSUME JobInv, UNCHANGED <<head, pin, artifacts, job, outcome>>,
           classified \subseteq classified', review' = NoReport \/ review'.to \in Commit
    PROVE  JobInv'
<1>1. JobTyped'
  BY DEF JobInv, JobTyped
<1>2. job.kind = "guarded" /\ job.step # "idle" => Passes(job.to)'
  BY PassesLater DEF JobInv, Kinds
<1>3. Kinds'
  BY <1>2 DEF JobInv, Kinds, Made, Passes, StopsAt
<1> QED
  BY <1>1, <1>3 DEF JobInv, OutcomesAreTrue

LEMMA RestoreCheckoutKeeps ==
    ASSUME JobInv, RestoreCheckout
    PROVE  JobInv'
<1>1. UNCHANGED <<pin, artifacts, review, job, outcome>> /\ head' = pin /\ job.step = "idle"
      /\ head # pin
  BY DEF RestoreCheckout, reviewing
<1>2. JobTyped'
  BY <1>1 DEF JobInv, JobTyped
<1>3. Kinds'
  BY <1>1 DEF JobInv, Kinds
<1> QED
  BY <1>1, <1>2, <1>3 DEF JobInv, OutcomesAreTrue

LEMMA NextKeeps == JobInv /\ [Next]_vars => JobInv'
<1> SUFFICES ASSUME JobInv, [Next]_vars PROVE JobInv'
  OBVIOUS
<1>1. review = NoReport \/ review.to \in Commit
  BY DEF JobInv, JobTyped
<1>2. ASSUME NEW c \in Commit, DryRun(c) PROVE JobInv'
  <2>1. review'.to = c
    <3>1. \A ran, failed : Report(c, ran, failed).to = c
      BY DEF Report
    <3> QED
      BY <1>2, <3>1 DEF DryRun
  <2>2. UNCHANGED <<head, pin, artifacts, classified, job, outcome>>
    BY <1>2 DEF DryRun, roadmap
  <2> QED
    BY <2>1, <2>2, AroundKeeps
<1>3. ASSUME NEW a \in Activity, NEW s, SetStatus(a, s) PROVE JobInv'
  BY <1>1, <1>3, AroundKeeps DEF SetStatus, reviewing
<1>4. CASE Classify
  BY <1>1, <1>4, AroundKeeps DEF Classify, reviewing
<1>5. CASE CommitProject
  BY <1>1, <1>5, AroundKeeps DEF CommitProject, reviewing
<1>6. CASE UNCHANGED vars
  BY <1>1, <1>6, AroundKeeps DEF vars
<1> QED
  BY <1>2, <1>3, <1>4, <1>5, <1>6, ApproveKeeps, AdvanceKeeps, AdvanceApprovedKeeps,
     WritePinKeeps, RegenerateKeeps, GenerateKeeps, GenerateFailsKeeps, FinishKeeps,
     CrashKeeps, RestoreCheckoutKeeps DEF Next

-----------------------------------------------------------------------------
(* The history, by smallest counterexamples.                               *)

LEMMA SmallestNumber ==
    ASSUME NEW T, T \subseteq Nat, T # {}
    PROVE  \E n \in T : \A m \in T : n <= m
<1>1. PICK n \in T : \A m \in T : ~ (<<m, n>> \in OpToRel(<, Nat))
  BY WFMin, NatLessThanWellFounded, Zenon
<1>2. ASSUME NEW m \in T PROVE n <= m
  <2>1. n \in Nat /\ m \in Nat
    OBVIOUS
  <2>2. ~ (m < n)
    BY <1>1, <2>1 DEF OpToRel
  <2> QED
    BY <2>1, <2>2
<1> QED
  BY <1>2

\* A history of the first n commits.
IsHistory(f, n) ==
    /\ f \in [1 .. n -> SUBSET Commit]
    /\ \A c \in 1 .. n : f[c] = {c} \cup UNION {f[p] : p \in Parents[c]}

LEMMA SomeHistory == \E f : IsHistory(f, Last)
<1> DEFINE T == {n \in 0 .. Last : ~ \E f : IsHistory(f, n)}
<1>0. /\ Last \in Nat /\ Commit = 1 .. Last
      /\ \A c \in Commit : Parents[c] \subseteq Commit /\ \A p \in Parents[c] : p < c
  BY ReferencesConstants DEF Commit
<1> SUFFICES ASSUME T # {} PROVE FALSE
  BY <1>0
<1>1. PICK m \in T : \A n \in T : m <= n
  <2>1. T \subseteq Nat
    BY <1>0
  <2> QED
    BY <2>1, SmallestNumber
<1>2. m \in Nat /\ m <= Last
  BY <1>0
<1>3. m # 0
  <2>1. IsHistory([c \in 1 .. 0 |-> {}], 0)
    BY DEF IsHistory
  <2> QED
    BY <2>1
<1>4. m - 1 \in 0 .. Last /\ m - 1 \notin T
  BY <1>0, <1>1, <1>2, <1>3
<1>5. PICK f : IsHistory(f, m - 1)
  BY <1>4
<1> DEFINE here == {m} \cup UNION {f[p] : p \in Parents[m]}
           g == [c \in 1 .. m |-> IF c = m THEN here ELSE f[c]]
<1>6. \A c \in 1 .. m : \A p \in Parents[c] : p \in 1 .. m - 1 /\ g[p] = f[p]
  BY <1>0, <1>2
<1>7. here \in SUBSET Commit
  BY <1>0, <1>2, <1>3, <1>5, <1>6 DEF IsHistory
<1>8. \A c \in 1 .. m : g[c] \in SUBSET Commit
  BY <1>2, <1>5, <1>7 DEF IsHistory
<1>9. ASSUME NEW c \in 1 .. m
      PROVE  g[c] = {c} \cup UNION {g[p] : p \in Parents[c]}
  <2>1. {g[p] : p \in Parents[c]} = {f[p] : p \in Parents[c]}
    BY <1>6
  <2>2. CASE c = m
    BY <2>1, <2>2
  <2>3. CASE c # m
    <3>1. c \in 1 .. m - 1
      BY <1>2, <2>3
    <3> QED
      BY <1>5, <2>1, <2>3, <3>1 DEF IsHistory
  <2> QED
    BY <2>2, <2>3
<1>10. IsHistory(g, m)
  BY <1>8, <1>9 DEF IsHistory
<1> QED
  BY <1>1, <1>10

\* What `git rev-list' computes, as the recursion says.
LEMMA HistoryIs ==
    /\ History \in [Commit -> SUBSET Commit]
    /\ \A c \in Commit : History[c] = {c} \cup UNION {History[p] : p \in Parents[c]}
<1>1. PICK f : IsHistory(f, Last)
  BY SomeHistory
<1>2. f = [c \in Commit |-> {c} \cup UNION {f[p] : p \in Parents[c]}]
  BY <1>1 DEF IsHistory, Commit
<1>3. History = [c \in Commit |-> {c} \cup UNION {History[p] : p \in Parents[c]}]
  BY <1>2 DEF History
<1> HIDE DEF History
<1>4. \A c \in Commit : History[c] = {c} \cup UNION {History[p] : p \in Parents[c]}
  BY <1>3
<1>5. DOMAIN History = Commit
  BY <1>3
<1>6. \A c \in Commit : Parents[c] \subseteq Commit /\ \A p \in Parents[c] : p < c
  BY ReferencesConstants
<1> DEFINE T == {c \in Commit : ~ (History[c] \subseteq Commit)}
<1>7. T = {}
  <2> SUFFICES ASSUME T # {} PROVE FALSE
    OBVIOUS
  <2>1. T \subseteq Nat
    BY DEF Commit
  <2>2. PICK c \in T : \A d \in T : c <= d
    BY <2>1, SmallestNumber
  <2>3. \A p \in Parents[c] : p \in Commit /\ History[p] \subseteq Commit
    BY <1>6, <2>1, <2>2 DEF Commit
  <2>4. History[c] \subseteq Commit
    BY <1>4, <2>3
  <2> QED
    BY <2>4
<1>8. \A c \in Commit : History[c] \in SUBSET Commit
  BY <1>7
<1> QED
  BY <1>3, <1>4, <1>8

-----------------------------------------------------------------------------
(* Ancestors. *)

LEMMA OwnAncestor == \A c \in Commit : IsAncestor(c, c)
  BY HistoryIs DEF IsAncestor

LEMMA ParentsPrecede ==
    \A c \in Commit : Parents[c] \subseteq Commit /\ \A p \in Parents[c] : p < c
  BY ReferencesConstants

LEMMA AncestorsAreTransitive ==
    ASSUME NEW a \in Commit, NEW b \in Commit, NEW c \in Commit,
           IsAncestor(a, b), IsAncestor(b, c)
    PROVE  IsAncestor(a, c)
<1> DEFINE T == {d \in Commit : b \in History[d] /\ a \notin History[d]}
<1> SUFFICES ASSUME T # {} PROVE FALSE
  BY DEF IsAncestor
<1>1. T \subseteq Nat
  BY DEF Commit
<1>2. PICK d \in T : \A e \in T : d <= e
  BY <1>1, SmallestNumber
<1>3. d # b
  BY <1>2 DEF IsAncestor
<1>4. PICK p \in Parents[d] : b \in History[p]
  BY <1>2, <1>3, HistoryIs
<1>5. p \in Commit /\ p < d
  BY <1>2, ParentsPrecede
<1>6. a \in History[p]
  BY <1>1, <1>2, <1>4, <1>5 DEF Commit
<1>7. a \in History[d]
  BY <1>2, <1>6, HistoryIs
<1> QED
  BY <1>2, <1>7

-----------------------------------------------------------------------------
(* Type correctness. *)

LEMMA ReportIsOf ==
    \A c, ran, failed : /\ Report(c, ran, failed).to = c
                        /\ c \in Commit => Report(c, ran, failed) # NoReport
<1>1. \A c, ran, failed : Report(c, ran, failed).to = c
  BY DEF Report
<1>2. NoReport.to = 0 /\ 0 \notin Commit
  BY DEF NoReport, Commit
<1> QED
  BY <1>1, <1>2

LEMMA FactsAreFacts == Facts # NoReport
<1>1. DOMAIN Facts = {"pin", "project", "status", "classified", "artifacts"}
  BY DEF Facts
<1>2. DOMAIN NoReport = {"to"}
  BY DEF NoReport
<1> QED
  BY <1>1, <1>2

LEMMA InitIsTyped == Init => TypeOK
<1> SUFFICES ASSUME Init PROVE TypeOK
  OBVIOUS
<1>1. IsAncestor(FirstPin, FirstPin)
  BY ReferencesConstants, OwnAncestor
<1>2. artifacts \in [Artifact -> Mapped]
  BY ReferencesConstants DEF Init
<1> QED
  BY <1>1, <1>2, ReferencesConstants DEF Init, Idle, TypeOK

\* What TypeOK says of the checkout, and of the rest.
Descends == Overrides \/ (IsAncestor(FirstPin, pin) /\ IsAncestor(pin, head))

\* The job alone.
JobOK ==
    /\ job.step \in {"idle", "approved", "moved", "generating"} /\ job.to \in Mapped
    /\ job.kind \in {"none", "update", "guarded", "pin_only", "regenerate"}

\* A step that neither moves the checkout nor makes an artifact.
LEMMA TypedAround ==
    ASSUME TypeOK, UNCHANGED <<head, pin, artifacts, status, classified, project, changes,
                               review, seen>>,
           JobOK', clean' \in BOOLEAN,
           outcome' \in {"none", "refused", "failed", "guarded failed", "killed",
                         "updated", "pin moved", "regenerated"}
    PROVE  TypeOK'
  BY DEF TypeOK, JobOK, IsAncestor

LEMMA IdleOK == job' = Idle => JobOK'
  BY ReferencesConstants DEF Idle, JobOK

LEMMA DryRunTyped ==
    ASSUME TypeOK, NEW c \in Commit, DryRun(c)
    PROVE  TypeOK'
<1>1. UNCHANGED <<head, pin, artifacts, status, classified, project, changes, clean, job,
                  outcome>>
      /\ seen' = Facts
  BY DEF DryRun, roadmap
<1>2. c \in Mapped
  BY DEF DryRun, Reports, Acceptable
<1>3. review' # NoReport /\ review'.to \in Mapped /\ seen' # NoReport
  <2>1. \E ran, failed : review' = Report(c, ran, failed)
    BY DEF DryRun
  <2> QED
    BY <1>1, <1>2, <2>1, ReportIsOf, FactsAreFacts
<1> QED
  BY <1>1, <1>3 DEF TypeOK, IsAncestor

LEMMA MoveTyped ==
    ASSUME TypeOK, NEW c, Acceptable(c), head' = c, clean' = FALSE, JobOK',
           UNCHANGED <<pin, artifacts, status, classified, project, changes, review, seen,
                       outcome>>
    PROVE  TypeOK'
<1>1. c \in Mapped /\ (Overrides \/ IsAncestor(pin, c))
  BY DEF Acceptable
<1> QED
  BY <1>1 DEF TypeOK, JobOK, IsAncestor

LEMMA WritePinTyped ==
    ASSUME JobInv, TypeOK, WritePin
    PROVE  TypeOK'
<1>1. UNCHANGED <<head, artifacts, status, classified, project, changes, clean, review, seen,
                  outcome>>
      /\ job.step = "moved" /\ pin' = job.to /\ job' = [job EXCEPT !.step = "generating"]
  BY DEF WritePin, roadmap, reviewing
<1>2. JobOK'
  BY <1>1 DEF JobInv, JobTyped, TypeOK, JobOK
<1>3. head = job.to
  BY <1>1 DEF JobInv, Kinds
<1>4. Overrides \/ (IsAncestor(FirstPin, head) /\ IsAncestor(head, head))
  <2>1. FirstPin \in Commit /\ pin \in Commit /\ head \in Commit
    BY ReferencesConstants DEF TypeOK
  <2> QED
    BY <2>1, OwnAncestor, AncestorsAreTransitive DEF TypeOK
<1>5. Overrides \/ (IsAncestor(FirstPin, pin') /\ IsAncestor(pin', head'))
  BY <1>1, <1>3, <1>4
<1> QED
  BY <1>1, <1>2, <1>3, <1>5 DEF TypeOK, JobOK, IsAncestor

LEMMA GenerateTyped ==
    ASSUME JobInv, TypeOK, Generate
    PROVE  TypeOK'
<1>1. UNCHANGED <<head, pin, status, classified, project, changes, clean, review, seen,
                  outcome>>
      /\ job.step = "generating" /\ job.todo # <<>>
      /\ artifacts' = [artifacts EXCEPT ![Head(job.todo)] = MadeFrom(Head(job.todo))]
      /\ job' = [job EXCEPT !.todo = Tail(@)]
  BY DEF Generate, roadmap, reviewing
<1>2. JobOK'
  BY <1>1 DEF JobInv, JobTyped, TypeOK, JobOK
<1>3. Head(job.todo) \in Artifact
  BY <1>1, NextOfRest, StepsAre DEF JobInv, JobTyped
<1>4. MadeFrom(Head(job.todo)) \in Mapped
  BY <1>3, StepsAre DEF MadeFrom, TypeOK
<1>5. artifacts' \in [Artifact -> Mapped]
  BY <1>1, <1>4 DEF TypeOK
<1> QED
  BY <1>1, <1>2, <1>5 DEF TypeOK, JobOK, IsAncestor

LEMMA TypedStep == JobInv /\ TypeOK /\ [Next]_vars => TypeOK'
<1> SUFFICES ASSUME JobInv, TypeOK, [Next]_vars PROVE TypeOK'
  OBVIOUS
<1> USE DEF roadmap, reviewing
<1>1. CASE Approve
  <2>1. review.to \in Mapped /\ JobOK'
    BY <1>1 DEF Approve, Approved, TypeOK, JobOK
  <2> QED
    BY <1>1, <2>1, TypedAround DEF Approve, TypeOK
<1>2. ASSUME NEW c \in Commit, Advance(c) PROVE TypeOK'
  <2>1. c \in Mapped /\ JobOK'
    BY <1>2 DEF Advance, Acceptable, JobOK
  <2> QED
    BY <1>2, <2>1, MoveTyped DEF Advance
<1>3. CASE AdvanceApproved
  <2>1. CASE Acceptable(job.to) /\ job.to # pin
    <3>1. job' = [job EXCEPT !.step = "moved"]
      BY <1>3, <2>1 DEF AdvanceApproved
    <3>2. JobOK'
      BY <3>1 DEF TypeOK, JobOK, JobInv, JobTyped
    <3> QED
      BY <1>3, <2>1, <3>2, MoveTyped DEF AdvanceApproved
  <2>2. CASE ~(Acceptable(job.to) /\ job.to # pin)
    BY <1>3, <2>2, IdleOK, TypedAround DEF AdvanceApproved, TypeOK
  <2> QED
    BY <2>1, <2>2
<1>4. CASE Regenerate
  <2>1. JobOK'
    BY <1>4 DEF Regenerate, TypeOK, JobOK
  <2> QED
    BY <1>4, <2>1, TypedAround DEF Regenerate, TypeOK
<1>5. CASE GenerateFails
  BY <1>5, IdleOK, TypedAround DEF GenerateFails, TypeOK
<1>6. CASE Finish
  <2>1. outcome' \in {"updated", "pin moved", "regenerated"}
    <3>1. job.kind \in {"update", "guarded", "pin_only", "regenerate"}
      BY <1>6 DEF Finish, JobInv, JobTyped
    <3> QED
      BY <1>6, <3>1 DEF Finish
  <2> QED
    BY <1>6, <2>1, IdleOK, TypedAround DEF Finish, TypeOK
<1>7. CASE Crash
  BY <1>7, IdleOK, TypedAround DEF Crash, TypeOK
<1>8. ASSUME NEW a \in Activity, NEW s \in {"pending", "completed", "needs_review"},
             SetStatus(a, s)
      PROVE  TypeOK'
  <2>1. status' \in [Activity -> Status] /\ changes' \in 0 .. MaxStatusChanges
    <3>1. s \in Status /\ status' = [status EXCEPT ![a] = s] /\ status \in [Activity -> Status]
      BY <1>8 DEF SetStatus, TypeOK, Status
    <3>2. changes < MaxStatusChanges /\ changes' = changes + 1
          /\ changes \in 0 .. MaxStatusChanges
          /\ MaxStatusChanges \in Nat
      BY <1>8, ReferencesConstants DEF SetStatus, TypeOK
    <3> QED
      BY <3>1, <3>2
  <2> QED
    BY <1>8, <2>1 DEF SetStatus, TypeOK, IsAncestor
<1>9. CASE Classify
  BY <1>9 DEF Classify, TypeOK, IsAncestor
<1>10. CASE CommitProject
  <2>1. project' \in 1 .. MaxProjects
    <3>1. project < MaxProjects /\ project' = project + 1 /\ project \in 1 .. MaxProjects
          /\ MaxProjects \in Nat
      BY <1>10, ReferencesConstants DEF CommitProject, TypeOK
    <3> QED
      BY <3>1
  <2> QED
    BY <1>10, <2>1 DEF CommitProject, TypeOK, IsAncestor
<1>11. CASE RestoreCheckout
  <2>1. pin \in Commit
    BY ReferencesConstants DEF TypeOK
  <2>2. IsAncestor(pin, pin)
    BY <2>1, OwnAncestor
  <2> QED
    BY <1>11, <2>2 DEF RestoreCheckout, TypeOK, IsAncestor
<1>12. CASE UNCHANGED vars
  BY <1>12 DEF vars, TypeOK, IsAncestor
<1> QED
  BY <1>1, <1>2, <1>3, <1>4, <1>5, <1>6, <1>7, <1>8, <1>9, <1>10, <1>11, <1>12,
     DryRunTyped, WritePinTyped, GenerateTyped DEF Next

-----------------------------------------------------------------------------
(* As long as the facts stay, so does the report. *)

Unmoved == UNCHANGED <<pin, project, status, classified, artifacts>>

LEMMA SimulationStays ==
    ASSUME Unmoved
    PROVE  /\ \A c : StopsAt(c)' = StopsAt(c)
           /\ \A c : Passes(c)' = Passes(c)
           /\ \A c : InventoryDelta(c)' = InventoryDelta(c)
           /\ \A c : LedgerAfter(c)' = LedgerAfter(c)
           /\ \A c : OwnershipDelta(c)' = OwnershipDelta(c)
           /\ \A c, e : OwnersOf(c, e)' = OwnersOf(c, e)
           /\ \A owners : AllPending(owners)' = AllPending(owners)
<1> USE DEF Unmoved
<1>1. \A c : StopsAt(c)' = StopsAt(c)
  BY DEF StopsAt
<1>2. \A c : Passes(c)' = Passes(c)
  BY <1>1 DEF Passes
<1>3. \A c : InventoryDelta(c)' = InventoryDelta(c)
  BY DEF InventoryDelta
<1>4. \A c : LedgerAfter(c)' = LedgerAfter(c)
  BY <1>1 DEF LedgerAfter
<1>5. \A c : OwnershipDelta(c)' = OwnershipDelta(c)
  BY <1>4 DEF OwnershipDelta
<1>6. \A c, e : OwnersOf(c, e)' = OwnersOf(c, e)
  BY <1>4 DEF OwnersOf
<1>7. \A owners : AllPending(owners)' = AllPending(owners)
  BY DEF AllPending
<1> QED
  BY <1>1, <1>2, <1>3, <1>4, <1>5, <1>6, <1>7

LEMMA SuitesStay ==
    ASSUME Unmoved, NEW c
    PROVE  SuiteItems(c)' = SuiteItems(c)
<1>1. \A s : SuiteOwners(c, s)' = SuiteOwners(c, s)
  <2> TAKE s
  <2> DEFINE touched == {x \in Touched(OwnershipDelta(c)) : SuiteOf[x] = s}
  <2>1. {x \in Touched(OwnershipDelta(c)') : SuiteOf[x] = s} = touched
    BY SimulationStays
  <2>2. {OwnersOf(c, e)' : e \in touched} = {OwnersOf(c, e) : e \in touched}
    BY SimulationStays
  <2> QED
    BY <2>1, <2>2 DEF SuiteOwners
<1>2. \A owners : AllPending(owners)' = AllPending(owners)
  BY SimulationStays
<1>3. InventoryDelta(c)' = InventoryDelta(c)
  BY SimulationStays
<1> DEFINE item(s) == [suite |-> s, owners |-> SuiteOwners(c, s),
                       disposition |-> IF AllPending(SuiteOwners(c, s)) THEN "deferred"
                                       ELSE "actionable"]
           item2(s) == [suite |-> s, owners |-> SuiteOwners(c, s)',
                        disposition |-> IF AllPending(SuiteOwners(c, s))' THEN "deferred"
                                        ELSE "actionable"]
           suites == {SuiteOf[e] : e \in Touched(InventoryDelta(c))}
<1>4. \A s : item2(s) = item(s)
  BY <1>1, <1>2
<1>5. SuiteItems(c) = {item(s) : s \in suites}
  BY DEF SuiteItems
<1>6. SuiteItems(c)' = {item2(s) : s \in suites}
  BY <1>3 DEF SuiteItems
<1> QED
  BY <1>4, <1>5, <1>6

LEMMA VerificationStays ==
    ASSUME Unmoved, NEW c, NEW ran, NEW failed
    PROVE  /\ Commands(c)' = Commands(c)
           /\ Verification(c, ran, failed)' = Verification(c, ran, failed)
<1>1. Verifiable(c)' = Verifiable(c)
  BY SimulationStays DEF Verifiable, Unmoved
<1>2. Commands(c)' = Commands(c) /\ Unverified(c)' = Unverified(c)
  BY <1>1 DEF Commands, Unverified
<1>3. SuiteItems(c)' = SuiteItems(c)
  BY SuitesStay
<1>4. Verification(c, ran, failed)' = Verification(c, ran, failed)
  BY <1>2, <1>3 DEF Verification
<1> QED
  BY <1>2, <1>4

LEMMA WaypointStays ==
    ASSUME Unmoved, NEW c
    PROVE  /\ Between(pin, c)' = Between(pin, c)
           /\ SearchesWaypoint(c)' = SearchesWaypoint(c)
           /\ \A cs : Searched(cs)' = Searched(cs)
           /\ \A cs : WaypointAfter(cs)' = WaypointAfter(cs)
<1>1. Between(pin, c)' = Between(pin, c)
  BY DEF Unmoved
<1>2. SearchesWaypoint(c)' = SearchesWaypoint(c)
  BY <1>1, SimulationStays DEF SearchesWaypoint
<1>3. \A cs : Greens(cs)' = Greens(cs)
  BY SimulationStays DEF Greens
<1>4. \A cs : Searched(cs)' = Searched(cs)
  BY <1>3 DEF Searched
<1>5. \A cs : WaypointAfter(cs)' = WaypointAfter(cs)
  BY <1>3 DEF WaypointAfter, Unmoved
<1> QED
  BY <1>1, <1>2, <1>4, <1>5

LEMMA ReportStays ==
    ASSUME Unmoved, NEW c, NEW ran, NEW failed
    PROVE  Report(c, ran, failed)' = Report(c, ran, failed)
<1>1. pin' = pin /\ project' = project
  BY DEF Unmoved
<1>2. /\ Between(pin, c)' = Between(pin, c)
      /\ SearchesWaypoint(c)' = SearchesWaypoint(c)
      /\ WaypointAfter(Between(pin, c))' = WaypointAfter(Between(pin, c))
  BY WaypointStays
<1>3. /\ StopsAt(c)' = StopsAt(c) /\ Passes(c)' = Passes(c)
      /\ InventoryDelta(c)' = InventoryDelta(c) /\ OwnershipDelta(c)' = OwnershipDelta(c)
  BY SimulationStays
<1>4. SuiteItems(c)' = SuiteItems(c)
  BY SuitesStay
<1>5. Verification(c, ran, failed)' = Verification(c, ran, failed)
  BY VerificationStays
<1> QED
  BY <1>1, <1>2, <1>3, <1>4, <1>5 DEF Report

-----------------------------------------------------------------------------
(* What has been reviewed, and whether it still holds. *)

\* What a dry run asks, but for the checkout.
Candidate(c) == c \in Mapped /\ (Overrides \/ IsAncestor(pin, c))
Reportable(c) ==
    /\ Candidate(c)
    /\ SearchesWaypoint(c) => \A d \in Searched(Between(pin, c)) : Candidate(d)

\* The facts of a report can be changed only by soiling the project, which is
\* never clean again as the same commit.
Reviewed ==
    /\ job.step \in {"moved", "generating"} => ~clean
    /\ review # NoReport =>
          /\ review.repeatable <=> review.to \notin Flaky
          /\ ImpactDigest(review).project_commit = seen.project
          /\ seen.project \in Nat /\ seen.project <= project
          /\ clean /\ seen.project = project =>
                /\ seen = Facts
                /\ Reportable(review.to)
                /\ ImpactDigest(Report(review.to, FALSE, {})) = ImpactDigest(review)

-----------------------------------------------------------------------------
\* Whether the commands of the verification are run is not part of the digest.
LEMMA DigestIsOf ==
    ASSUME NEW c, NEW ran, NEW failed
    PROVE  /\ ImpactDigest(Report(c, ran, failed)) = ImpactDigest(Report(c, FALSE, {}))
           /\ ImpactDigest(Report(c, ran, failed)).project_commit = project
           /\ Report(c, ran, failed).repeatable <=> c \notin Flaky
           /\ Report(c, ran, failed).valid <=> Passes(c)
<1> DEFINE one == Report(c, ran, failed)
           two == Report(c, FALSE, {})
           commands == Commands(c)
           unrun == IF Commands(c) = {} THEN "unavailable" ELSE "not_run"
           verified(v) == [v EXCEPT !.failed = {}, !.execution = unrun]
           needed == \E item \in SuiteItems(c) : item.disposition = "actionable"
           plain == [commands |-> commands, unverified |-> Unverified(c), failed |-> {},
                     execution |-> unrun, required |-> needed]
           basis == [from |-> pin, to |-> c, project_commit |-> project,
                     commits |-> Between(pin, c),
                     inventory |-> InventoryDelta(c), ownership |-> OwnershipDelta(c),
                     items |-> SuiteItems(c), stops_at |-> StopsAt(c),
                     repeatable |-> c \notin Flaky, valid |-> Passes(c),
                     verification |-> plain,
                     waypoint |-> IF SearchesWaypoint(c) THEN WaypointAfter(Between(pin, c))
                                  ELSE NoWaypoint]
<1>1. ASSUME NEW r, NEW f PROVE verified(Verification(c, r, f)) = plain
  <2> DEFINE ending == IF ~r THEN unrun
                       ELSE IF f # {} THEN "failed"
                       ELSE IF Unverified(c) # {} THEN "partial" ELSE "passed"
  <2>1. Verification(c, r, f) =
          [commands |-> commands, unverified |-> Unverified(c), failed |-> f,
           execution |-> ending, required |-> needed]
    BY DEF Verification
  <2>2. ASSUME NEW u, NEW k, NEW n
        PROVE  verified([commands |-> k, unverified |-> Unverified(c), failed |-> f,
                         execution |-> ending, required |-> n]) =
                 [commands |-> k, unverified |-> Unverified(c), failed |-> {},
                  execution |-> unrun, required |-> n]
    <3> DEFINE v == [commands |-> k, unverified |-> Unverified(c), failed |-> f,
                     execution |-> ending, required |-> n]
               w == [commands |-> k, unverified |-> Unverified(c), failed |-> {},
                     execution |-> ending, required |-> n]
    <3> HIDE DEF ending, unrun
    <3>1. [v EXCEPT !.failed = {}] = w
      OBVIOUS
    <3>2. [w EXCEPT !.execution = unrun] =
             [commands |-> k, unverified |-> Unverified(c), failed |-> {},
              execution |-> unrun, required |-> n]
      OBVIOUS
    <3>3. verified(v) = [[v EXCEPT !.failed = {}] EXCEPT !.execution = unrun]
      <4> HIDE DEF v
      <4> QED
        OBVIOUS
    <3> HIDE DEF w
    <3> QED
      BY <3>1, <3>2, <3>3
  <2> HIDE DEF verified, ending, needed, commands, unrun
  <2>3. verified(Verification(c, r, f)) =
          [commands |-> commands, unverified |-> Unverified(c), failed |-> {},
           execution |-> unrun, required |-> needed]
    BY <2>1, <2>2
  <2> QED
    BY <2>3
<1>2. \A r, f : Verification(c, r, f).commands = Commands(c)
  BY DEF Verification
<1>3. \A r, f : Report(c, r, f).verification = Verification(c, r, f)
  BY DEF Report
<1>4. ASSUME NEW r, NEW f PROVE ImpactDigest(Report(c, r, f)) = basis
  <2>1. ImpactDigest(Report(c, r, f)) =
          [Report(c, r, f) EXCEPT !.verification = verified(Verification(c, r, f))]
    BY <1>2, <1>3 DEF ImpactDigest, Report
  <2>2. ImpactDigest(Report(c, r, f)) = [Report(c, r, f) EXCEPT !.verification = plain]
    <3>1. verified(Verification(c, r, f)) = plain
      BY <1>1
    <3> HIDE DEF verified, plain
    <3> QED
      BY <2>1, <3>1
  <2> HIDE DEF plain
  <2> QED
    BY <2>2 DEF Report
<1>5. basis.project_commit = project
  OBVIOUS
<1>6. one.repeatable <=> c \notin Flaky
  BY DEF Report
<1>7. one.valid <=> Passes(c)
  BY DEF Report
<1> QED
  BY <1>4, <1>5, <1>6, <1>7

-----------------------------------------------------------------------------
LEMMA ReviewedAtFirst == Init => Reviewed
  BY DEF Init, Idle, Reviewed

LEMMA Report0Stays ==
    ASSUME Unmoved
    PROVE  /\ Facts' = Facts
           /\ \A c : Reportable(c)' = Reportable(c)
           /\ \A c : ImpactDigest(Report(c, FALSE, {}))' = ImpactDigest(Report(c, FALSE, {}))
<1>1. Facts' = Facts
  BY DEF Unmoved, Facts
<1>2. \A c : Candidate(c)' = Candidate(c)
  BY DEF Unmoved, Candidate
<1>3. ASSUME NEW c PROVE Reportable(c)' = Reportable(c)
  <2>1. /\ Between(pin, c)' = Between(pin, c)
        /\ SearchesWaypoint(c)' = SearchesWaypoint(c)
        /\ Searched(Between(pin, c))' = Searched(Between(pin, c))
    BY WaypointStays
  <2> QED
    BY <1>2, <2>1 DEF Reportable
<1>4. ASSUME NEW c
      PROVE  ImpactDigest(Report(c, FALSE, {}))' = ImpactDigest(Report(c, FALSE, {}))
  <2>1. Report(c, FALSE, {})' = Report(c, FALSE, {})
    BY ReportStays
  <2> QED
    BY <2>1
<1> QED
  BY <1>1, <1>3, <1>4

LEMMA ProjectIsNumbered == TypeOK => project \in Nat
<1> SUFFICES ASSUME TypeOK PROVE project \in Nat
  OBVIOUS
<1>1. project \in 1 .. MaxProjects
  BY DEF TypeOK
<1>2. MaxProjects \in Nat
  BY ReferencesConstants
<1> QED
  BY <1>1, <1>2

LEMMA ReviewedByDryRun ==
    ASSUME TypeOK, Reviewed, NEW c \in Commit, DryRun(c)
    PROVE  Reviewed'
<1>1. UNCHANGED <<head, pin, artifacts, status, classified, project, changes, clean, job,
                  outcome>>
      /\ seen' = Facts /\ Reports(c) /\ job.step = "idle"
  BY DEF DryRun, roadmap
<1>2. Unmoved
  BY <1>1 DEF Unmoved
<1>3. PICK ran, failed : review' = Report(c, ran, failed)
  BY DEF DryRun
<1>4. review'.to = c /\ review' # NoReport
  BY <1>3, ReportIsOf
<1>5. review'.repeatable <=> c \notin Flaky
  BY <1>3, DigestIsOf
<1>6. ImpactDigest(review') = ImpactDigest(Report(c, FALSE, {}))
      /\ ImpactDigest(review').project_commit = project
  BY <1>3, DigestIsOf
<1>7. seen'.project = project /\ project \in Nat /\ project <= project
  BY <1>1, ProjectIsNumbered DEF Facts
<1>8. Reportable(c)
  <2>1. \A d : Acceptable(d) => Candidate(d)
    BY DEF Acceptable, Candidate
  <2> QED
    BY <1>1, <2>1 DEF Reports, CanSimulate, Reportable
<1>9. seen' = Facts' /\ Reportable(c)'
      /\ ImpactDigest(Report(c, FALSE, {}))' = ImpactDigest(Report(c, FALSE, {}))
  BY <1>1, <1>2, <1>8, Report0Stays
<1>10. /\ Reportable(review.to)'
       /\ ImpactDigest(Report(review.to, FALSE, {}))' = ImpactDigest(review)'
  BY <1>4, <1>6, <1>9
<1> QED
  BY <1>1, <1>4, <1>5, <1>6, <1>7, <1>9, <1>10 DEF Reviewed

\* A step that changes no fact.
LEMMA ReviewedAround ==
    ASSUME Reviewed, Unmoved, UNCHANGED <<review, seen>>, clean' => clean,
           job'.step \in {"moved", "generating"} => ~clean'
    PROVE  Reviewed'
<1>1. /\ Facts' = Facts
      /\ Reportable(review.to)' = Reportable(review.to)
      /\ ImpactDigest(Report(review.to, FALSE, {}))' = ImpactDigest(Report(review.to, FALSE, {}))
  BY Report0Stays
<1>2. ImpactDigest(review)' = ImpactDigest(review) /\ project' = project
  BY DEF Unmoved
<1> QED
  BY <1>1, <1>2 DEF Reviewed

\* A step that changes some, and leaves the project soiled.
LEMMA ReviewedSoiled ==
    ASSUME Reviewed, UNCHANGED <<project, review, seen>>, ~clean'
    PROVE  Reviewed'
  BY DEF Reviewed

LEMMA ReviewedStep == JobInv /\ TypeOK /\ Reviewed /\ [Next]_vars => Reviewed'
<1> SUFFICES ASSUME JobInv, TypeOK, Reviewed, [Next]_vars PROVE Reviewed'
  OBVIOUS
<1> USE DEF roadmap, reviewing
<1>1. CASE Approve
  <2>1. job'.step = "approved"
    BY <1>1 DEF Approve
  <2> QED
    BY <1>1, <2>1, ReviewedAround DEF Approve, Unmoved
<1>2. ASSUME NEW c \in Commit, Advance(c) PROVE Reviewed'
  BY <1>2, ReviewedSoiled DEF Advance
<1>3. CASE AdvanceApproved
  <2>1. CASE Acceptable(job.to) /\ job.to # pin
    BY <1>3, <2>1, ReviewedSoiled DEF AdvanceApproved
  <2>2. CASE ~(Acceptable(job.to) /\ job.to # pin)
    BY <1>3, <2>2, ReviewedAround DEF AdvanceApproved, Unmoved, Idle
  <2> QED
    BY <2>1, <2>2
<1>4. CASE WritePin
  BY <1>4, ReviewedSoiled DEF WritePin, Reviewed
<1>5. CASE Regenerate
  BY <1>5, ReviewedSoiled DEF Regenerate
<1>6. CASE Generate
  BY <1>6, ReviewedSoiled DEF Generate, Reviewed
<1>7. CASE GenerateFails
  BY <1>7, ReviewedAround DEF GenerateFails, Unmoved, Idle
<1>8. CASE Finish
  BY <1>8, ReviewedAround DEF Finish, Unmoved, Idle
<1>9. CASE Crash
  BY <1>9, ReviewedAround DEF Crash, Unmoved, Idle
<1>10. ASSUME NEW a \in Activity, NEW s, SetStatus(a, s) PROVE Reviewed'
  BY <1>10, ReviewedSoiled DEF SetStatus
<1>11. CASE Classify
  BY <1>11, ReviewedSoiled DEF Classify
<1>12. CASE CommitProject
  <2>1. project' = project + 1 /\ project \in Nat /\ job'.step = "idle"
        /\ UNCHANGED <<review, seen>>
    BY <1>12, ProjectIsNumbered DEF CommitProject
  <2>2. review # NoReport => seen.project <= project' /\ seen.project # project'
    BY <2>1 DEF Reviewed
  <2>3. ImpactDigest(review)' = ImpactDigest(review)
    BY <2>1
  <2> QED
    BY <2>1, <2>2, <2>3 DEF Reviewed
<1>13. CASE RestoreCheckout
  BY <1>13, ReviewedAround DEF RestoreCheckout, Unmoved
<1>14. CASE UNCHANGED vars
  BY <1>14, ReviewedAround DEF vars, Unmoved, Reviewed
<1> QED
  BY <1>1, <1>2, <1>3, <1>4, <1>5, <1>6, <1>7, <1>8, <1>9, <1>10, <1>11, <1>12, <1>13, <1>14,
     ReviewedByDryRun DEF Next

-----------------------------------------------------------------------------
LEMMA ReviewedDecides == Reviewed => ReviewDecides
<1> SUFFICES ASSUME Reviewed, review # NoReport
             PROVE  Approved <=> /\ clean /\ head = pin
                                 /\ seen = Facts
                                 /\ review.repeatable
  BY DEF ReviewDecides
<1> DEFINE fresh == Report(review.to, FALSE, {})
<1>1. /\ ImpactDigest(fresh).project_commit = project
      /\ fresh.repeatable <=> review.to \notin Flaky
      /\ fresh.valid <=> Passes(review.to)
  BY DigestIsOf
<1>2. ASSUME Approved
      PROVE  clean /\ head = pin /\ seen = Facts /\ review.repeatable
  <2>1. /\ clean /\ head = pin /\ ImpactDigest(fresh) = ImpactDigest(review)
        /\ fresh.valid \/ fresh.repeatable
    BY <1>2 DEF Approved, Reports, Acceptable
  <2>2. seen.project = project
    BY <1>1, <2>1 DEF Reviewed
  <2>3. review.to \notin Flaky
    BY <1>1, <2>1 DEF Passes
  <2> QED
    BY <2>1, <2>2, <2>3 DEF Reviewed
<1>3. ASSUME clean, head = pin, seen = Facts, review.repeatable
      PROVE  Approved
  <2>1. seen.project = project
    BY <1>3 DEF Facts
  <2>2. Reportable(review.to) /\ ImpactDigest(fresh) = ImpactDigest(review)
    BY <1>3, <2>1 DEF Reviewed
  <2>3. \A d : Candidate(d) => Acceptable(d)
    BY <1>3 DEF Acceptable, Candidate
  <2>4. Reports(review.to)
    BY <1>3, <2>2, <2>3 DEF Reports, CanSimulate, Reportable
  <2>5. fresh.repeatable
    BY <1>1, <1>3 DEF Reviewed
  <2> QED
    BY <2>2, <2>4, <2>5 DEF Approved
<1> QED
  BY <1>2, <1>3

-----------------------------------------------------------------------------
(* Commits in the order of the history. *)

IsSorted(s, commits) ==
    /\ s \in [1 .. Cardinality(commits) -> commits]
    /\ \A i, j \in DOMAIN s : i < j => s[i] < s[j]

LEMMA CommitsAreFinite ==
    ASSUME NEW D \in SUBSET Commit
    PROVE  IsFiniteSet(D) /\ Cardinality(D) \in Nat
<1>1. Last \in Nat
  BY ReferencesConstants
<1>2. IsFiniteSet(Commit)
  BY <1>1, FS_Interval DEF Commit
<1> QED
  BY <1>2, FS_Subset, FS_CardinalityType

LEMMA SortedExists ==
    ASSUME NEW D0 \in SUBSET Commit
    PROVE  \E s : IsSorted(s, D0)
<1> DEFINE T == {n \in 0 .. Last : \E D \in SUBSET Commit : /\ D \subseteq 1 .. n
                                                           /\ ~ \E s : IsSorted(s, D)}
<1>0. Last \in Nat /\ Commit = 1 .. Last
  BY ReferencesConstants DEF Commit
<1> SUFFICES ASSUME T # {} PROVE FALSE
  <2>1. Last \in 0 .. Last /\ D0 \subseteq 1 .. Last
    BY <1>0
  <2> QED
    BY <2>1
<1>1. PICK n \in T : \A m \in T : n <= m
  <2>1. T \subseteq Nat
    BY <1>0
  <2> QED
    BY <2>1, SmallestNumber
<1>2. PICK D \in SUBSET Commit : D \subseteq 1 .. n /\ ~ \E s : IsSorted(s, D)
  BY <1>1
<1>3. n \in Nat /\ n <= Last
  BY <1>0
<1>4. D # {}
  <2>1. IsSorted([i \in 1 .. 0 |-> 0], {})
    BY FS_EmptySet DEF IsSorted
  <2> QED
    BY <1>2, <2>1
<1>5. n # 0
  <2>1. 1 .. 0 = {}
    OBVIOUS
  <2> QED
    BY <1>2, <1>4, <2>1
<1>6. n - 1 \in 0 .. Last /\ n - 1 \notin T
  <2>1. n - 1 \in 0 .. Last /\ ~(n <= n - 1)
    BY <1>0, <1>3, <1>5
  <2> HIDE DEF T
  <2> QED
    BY <1>1, <2>1
<1>7. n \in D
  <2> SUFFICES ASSUME n \notin D PROVE FALSE
    OBVIOUS
  <2>1. D \subseteq 1 .. n - 1
    BY <1>2, <1>3
  <2> QED
    BY <1>2, <1>6, <2>1
<1> DEFINE E == D \ {n}
<1>8. E \in SUBSET Commit /\ E \subseteq 1 .. n - 1
  BY <1>2, <1>3
<1>9. PICK s : IsSorted(s, E)
  BY <1>6, <1>8
<1> DEFINE k == Cardinality(E)
<1>10. k \in Nat /\ Cardinality(D) = k + 1
  <2>1. IsFiniteSet(E) /\ k \in Nat
    BY <1>8, CommitsAreFinite
  <2>2. D = E \cup {n} /\ n \notin E
    BY <1>7
  <2>3. Cardinality(E \cup {n}) = k + 1
    BY <2>1, <2>2, FS_AddElement
  <2> QED
    BY <2>1, <2>2, <2>3
<1> DEFINE t == [i \in 1 .. k + 1 |-> IF i = k + 1 THEN n ELSE s[i]]
<1> HIDE DEF k
<1>11. s \in [1 .. k -> E] /\ \A i, j \in 1 .. k : i < j => s[i] < s[j]
  BY <1>9 DEF IsSorted, k
<1> HIDE DEF E
<1>12. \A i \in 1 .. k : t[i] = s[i] /\ s[i] \in D /\ s[i] < n
  <2>1. \A i \in 1 .. k : i \in 1 .. k + 1 /\ i # k + 1
    BY <1>10
  <2>2. \A i \in 1 .. k : s[i] \in E
    BY <1>11
  <2>3. E \subseteq D /\ \A e \in E : e < n
    BY <1>3, <1>8 DEF E
  <2> QED
    BY <2>1, <2>2, <2>3
<1>13. t[k + 1] = n /\ k + 1 \in 1 .. k + 1
  BY <1>10
<1>14. \A i \in 1 .. k + 1 : i \in 1 .. k \/ i = k + 1
  BY <1>10
<1>15. t \in [1 .. k + 1 -> D]
  BY <1>7, <1>12, <1>13, <1>14
<1>16. ASSUME NEW i \in 1 .. k + 1, NEW j \in 1 .. k + 1, i < j
       PROVE  t[i] < t[j]
  <2>1. i \in 1 .. k
    BY <1>10, <1>16
  <2>2. CASE j = k + 1
    BY <1>12, <1>13, <2>1, <2>2
  <2>3. CASE j \in 1 .. k
    BY <1>11, <1>12, <1>16, <2>1, <2>3
  <2> QED
    BY <1>14, <2>2, <2>3
<1>17. IsSorted(t, D)
  <2>1. DOMAIN t = 1 .. k + 1
    OBVIOUS
  <2> HIDE DEF t
  <2> QED
    BY <1>10, <1>15, <1>16, <2>1 DEF IsSorted
<1> QED
  BY <1>2, <1>17

\* What is sorted is all there, and nothing else.
LEMMA SortedIs ==
    ASSUME NEW D \in SUBSET Commit
    PROVE  /\ Cardinality(D) \in Nat
           /\ Sorted(D) \in [1 .. Cardinality(D) -> D]
           /\ \A i, j \in 1 .. Cardinality(D) : i < j => Sorted(D)[i] < Sorted(D)[j]
           /\ Len(Sorted(D)) = Cardinality(D)
           /\ \A d \in D : \E i \in 1 .. Cardinality(D) : Sorted(D)[i] = d
<1> DEFINE s == Sorted(D)
           n == Cardinality(D)
<1>1. IsSorted(s, D)
  <2>1. \E r : IsSorted(r, D)
    BY SortedExists
  <2>2. s = CHOOSE r \in [1 .. Cardinality(D) -> D] :
               \A i, j \in DOMAIN r : i < j => r[i] < r[j]
    BY DEF Sorted
  <2> HIDE DEF s
  <2> QED
    BY <2>1, <2>2 DEF IsSorted
<1>2. IsFiniteSet(D) /\ n \in Nat
  BY CommitsAreFinite
<1> HIDE DEF s, n
<1>3. s \in [1 .. n -> D] /\ \A i, j \in 1 .. n : i < j => s[i] < s[j]
  BY <1>1 DEF IsSorted, n
<1>4. Len(s) = n
  BY <1>2, <1>3
<1>5. s \in Injection(1 .. n, D)
  <2> SUFFICES ASSUME NEW i \in 1 .. n, NEW j \in 1 .. n, s[i] = s[j] PROVE i = j
    BY <1>3, Fun_IsInj
  <2>1. s[i] \in Nat /\ s[j] \in Nat
    <3>1. D \subseteq Nat /\ s[i] \in D /\ s[j] \in D
      BY <1>3 DEF Commit
    <3> QED
      BY <3>1
  <2>2. ~(i < j) /\ ~(j < i)
    BY <1>3, <2>1
  <2> QED
    BY <1>2, <2>2
<1>6. Cardinality(1 .. n) = n
  BY <1>2, FS_Interval
<1>7. s \in Surjection(1 .. n, D)
  BY <1>2, <1>5, <1>6, FS_Injection DEF n
<1>8. \A d \in D : \E i \in 1 .. n : s[i] = d
  BY <1>7 DEF Surjection
<1> QED
  BY <1>2, <1>3, <1>4, <1>8 DEF s, n

-----------------------------------------------------------------------------
(* The commits between two, of which the candidate is the last. *)

LEMMA HistoryPrecedes == \A c \in Commit : History[c] \subseteq 1 .. c
<1> DEFINE T == {c \in Commit : ~ (History[c] \subseteq 1 .. c)}
<1> SUFFICES ASSUME T # {} PROVE FALSE
  OBVIOUS
<1>1. Commit \subseteq Nat /\ \A c \in Commit : c >= 1
  BY DEF Commit
<1>2. PICK c \in T : \A d \in T : c <= d
  <2>1. T \subseteq Nat
    BY <1>1
  <2> HIDE DEF T
  <2> QED
    BY <2>1, SmallestNumber
<1>3. \A p \in Parents[c] : History[p] \subseteq 1 .. c
  <2> TAKE p \in Parents[c]
  <2>1. p \in Commit /\ p < c
    BY <1>2, ParentsPrecede
  <2>2. p \notin T
    BY <1>1, <1>2, <2>1
  <2>3. History[p] \subseteq 1 .. p
    BY <2>1, <2>2
  <2>4. c \in Nat /\ p \in Nat
    BY <1>1, <1>2, <2>1
  <2>5. 1 .. p \subseteq 1 .. c
    BY <2>1, <2>4
  <2> QED
    BY <2>3, <2>5
<1>4. History[c] \subseteq 1 .. c
  BY <1>1, <1>2, <1>3, HistoryIs
<1> QED
  BY <1>2, <1>4

LEMMA BetweenIs ==
    ASSUME NEW old \in Commit, NEW c \in Commit
    PROVE  LET cs == Between(old, c)
           IN  /\ Len(cs) \in Nat
               /\ cs \in [1 .. Len(cs) -> Commit]
               /\ Len(cs) > 0 => cs[Len(cs)] = c
               /\ Len(cs) = 0 => cs = <<>>
<1> DEFINE D == History[c] \ History[old]
           cs == Between(old, c)
           n == Cardinality(D)
<1>1. D \in SUBSET Commit /\ cs = Sorted(D)
  BY HistoryIs DEF Between
<1> HIDE DEF cs
<1>2. /\ n \in Nat /\ cs \in [1 .. n -> D] /\ Len(cs) = n
      /\ \A i, j \in 1 .. n : i < j => cs[i] < cs[j]
      /\ \A d \in D : \E i \in 1 .. n : cs[i] = d
  <2> HIDE DEF D
  <2> QED
    BY <1>1, SortedIs
<1> HIDE DEF n
<1>3. cs \in [1 .. n -> Commit]
  <2> HIDE DEF D
  <2> QED
    BY <1>1, <1>2
<1>4. ASSUME n > 0 PROVE cs[n] = c
  <2>1. n \in 1 .. n
    BY <1>2, <1>4
  <2>2. cs[n] \in History[c] /\ cs[n] \notin History[old]
    BY <1>2, <2>1
  <2>3. c \in D
    <3>1. cs[n] \in Commit
      BY <1>3, <2>1
    <3>2. c \notin History[old]
      BY <2>2, <3>1, AncestorsAreTransitive DEF IsAncestor
    <3> QED
      BY <3>2, OwnAncestor DEF IsAncestor
  <2>4. PICK i \in 1 .. n : cs[i] = c
    BY <1>2, <2>3
  <2>5. cs[n] <= c /\ c \in Nat
    BY <2>2, HistoryPrecedes DEF Commit
  <2>6. ~(i < n)
    <3> SUFFICES ASSUME i < n PROVE FALSE
      OBVIOUS
    <3>1. cs[i] < cs[n]
      BY <1>2, <2>1
    <3>2. c < cs[n] /\ cs[n] \in Nat
      BY <1>3, <2>1, <2>4, <3>1 DEF Commit
    <3> QED
      BY <2>5, <3>2
  <2> QED
    BY <1>2, <2>4, <2>6
<1>5. n = 0 => cs = <<>>
  BY <1>2
<1> QED
  BY <1>2, <1>3, <1>4, <1>5 DEF cs

LEMMA LargestNumber ==
    ASSUME NEW n \in Nat, NEW G \in SUBSET (1 .. n), G # {}
    PROVE  \E i \in G : \A k \in G : k <= i
<1> DEFINE T == {n - g : g \in G}
<1>1. T \subseteq Nat /\ T # {}
  <2>1. \A g \in G : g \in 1 .. n
    OBVIOUS
  <2>2. \A g \in 1 .. n : n - g \in Nat
    OBVIOUS
  <2> QED
    BY <2>1, <2>2
<1>2. PICK m \in T : \A t \in T : m <= t
  <2> HIDE DEF T
  <2> QED
    BY <1>1, SmallestNumber
<1>3. PICK i \in G : m = n - i
  BY <1>2
<1>4. \A k \in G : n - i <= n - k
  BY <1>2, <1>3
<1>5. \A k \in G : k <= i
  <2> TAKE k \in G
  <2>1. n - i <= n - k /\ k \in Nat /\ i \in Nat
    BY <1>4
  <2> QED
    BY <2>1
<1> QED
  BY <1>5

\* The waypoint that the search finds, if it is not the pin.
LEMMA WaypointIs ==
    ASSUME NEW c \in Commit, pin \in Commit, StopsAt(c) # "none",
           Between(pin, c) # <<>>,
           WaypointAfter(Between(pin, c)).last_green # pin
    PROVE  LET cs == Between(pin, c)
           IN  \E i \in 1 .. Len(cs) - 1 :
                  /\ cs[i] = WaypointAfter(cs).last_green
                  /\ cs[i + 1] = WaypointAfter(cs).first_failing
                  /\ \A k \in i .. Len(cs) : Passes(cs[k]) <=> k = i
<1> DEFINE cs == Between(pin, c)
           G == Greens(cs)
           n == Len(cs)
<1>1. n \in Nat /\ n > 0 /\ cs[n] = c
  BY BetweenIs
<1> HIDE DEF cs
<1>2. G # {}
  BY DEF WaypointAfter, cs
<1>3. G \in SUBSET (1 .. n) /\ G \subseteq 1 .. n - 1
  BY <1>1 DEF Greens
<1> DEFINE i == Newest(G)
<1>4. i \in G /\ \A k \in G : k <= i
  <2>1. \E j \in G : \A k \in G : k <= j
    <3> HIDE DEF G, n
    <3> QED
      BY <1>1, <1>2, <1>3, LargestNumber
  <2> HIDE DEF G
  <2> QED
    BY <2>1 DEF Newest
<1>5. WaypointAfter(cs) = [last_green |-> cs[i], first_failing |-> cs[i + 1]]
  BY <1>2 DEF WaypointAfter
<1>6. WaypointAfter(cs).last_green = cs[i] /\ WaypointAfter(cs).first_failing = cs[i + 1]
  BY <1>5
<1> HIDE DEF i
<1>7. i \in 1 .. n - 1 /\ Passes(cs[i])
  BY <1>3, <1>4 DEF Greens
<1>8. ASSUME NEW k \in i .. n, k # i PROVE ~Passes(cs[k])
  <2>1. CASE k = n
    BY <1>1, <2>1 DEF Passes
  <2>2. CASE k # n
    <3>1. k \in 1 .. n - 1 /\ ~(k <= i)
      BY <1>1, <1>7, <1>8, <2>2
    <3>2. k \notin G
      BY <1>4, <3>1
    <3> QED
      BY <3>1, <3>2 DEF Greens
  <2> QED
    BY <2>1, <2>2
<1> QED
  BY <1>6, <1>7, <1>8 DEF cs

-----------------------------------------------------------------------------
(* What a report says is so. *)

\* AtStake, of a report that is being made.
Stake(c) ==
    {e \in Touched(InventoryDelta(c)) \ Documents :
        /\ status[Owner[e]] \in Begun
        /\ Content[artifacts["ledger"]][e] # Content[c][e]
        /\ StopsAt(c) # "ledger"}

LEMMA StakeIsOwned ==
    ASSUME TypeOK, NEW c \in Commit, NEW e \in Stake(c)
    PROVE  /\ e \in Evidence \ Documents
           /\ e \in Touched(OwnershipDelta(c))
           /\ Content[c][e] # 0 =>
                 e \in OwnershipDelta(c).added \cup OwnershipDelta(c).changed
           /\ Owner[e] \in OwnersOf(c, e)
<1> DEFINE old == Content[artifacts["ledger"]]
           new == Content[c]
<1>1. e \in Evidence \ Documents /\ LedgerAfter(c) = c /\ old[e] # new[e]
  <2>1. e \in Evidence
    BY DEF Stake, Touched, InventoryDelta, Delta
  <2> QED
    BY <2>1 DEF Stake, LedgerAfter
<1>2. OwnershipDelta(c) = Delta(old, new)
  BY <1>1 DEF OwnershipDelta
<1>3. e \in Touched(Delta(old, new))
      /\ (new[e] # 0 => e \in Delta(old, new).added \cup Delta(old, new).changed)
  <2> HIDE DEF old, new
  <2> QED
    BY <1>1 DEF Touched, Delta
<1>4. Owner[e] \in OwnersOf(c, e)
  <2>1. OwnersOf(c, e) = OwnersIn(old, e) \cup OwnersIn(new, e)
    BY <1>1 DEF OwnersOf
  <2> HIDE DEF old, new
  <2>2. old[e] # 0 \/ new[e] # 0
    BY <1>1
  <2> QED
    BY <1>1, <2>1, <2>2 DEF OwnersIn
<1> QED
  BY <1>1, <1>2, <1>3, <1>4

\* No suite with something at stake is deferred.
LEMMA DeferralIsTrue ==
    ASSUME TypeOK, NEW c \in Commit, NEW item \in SuiteItems(c),
           item.disposition = "deferred", NEW e \in Stake(c)
    PROVE  SuiteOf[e] # item.suite
<1> SUFFICES ASSUME SuiteOf[e] = item.suite PROVE FALSE
  OBVIOUS
<1>1. AllPending(SuiteOwners(c, item.suite))
  BY DEF SuiteItems
<1>2. e \in {x \in Touched(OwnershipDelta(c)) : SuiteOf[x] = item.suite}
  BY StakeIsOwned
<1>3. Owner[e] \in SuiteOwners(c, item.suite)
  BY <1>2, StakeIsOwned DEF SuiteOwners
<1>4. status[Owner[e]] = "pending"
  BY <1>1, <1>3 DEF AllPending
<1> QED
  BY <1>4 DEF Stake, Begun

\* A verification that passed has found what is at stake and passed before.
LEMMA VerificationIsTrue ==
    ASSUME TypeOK, NEW c \in Commit, NEW ran, NEW failed,
           Verification(c, ran, failed).execution = "passed",
           NEW e \in Stake(c) \cap Passed, Content[c][e] # 0
    PROVE  CommandOf[e] \in Commands(c) /\ e \in Discovers
<1>1. e \in OwnershipDelta(c).added \cup OwnershipDelta(c).changed
  BY StakeIsOwned
<1>2. e \in Verifiable(c)
  BY <1>1 DEF Verifiable, Stake
<1>3. Unverified(c) = {}
  <2> DEFINE unrun == IF Commands(c) = {} THEN "unavailable" ELSE "not_run"
  <2>1. Verification(c, ran, failed).execution =
           IF ~ran THEN unrun
           ELSE IF failed # {} THEN "failed"
           ELSE IF Unverified(c) # {} THEN "partial" ELSE "passed"
    BY DEF Verification
  <2>2. unrun # "passed"
    OBVIOUS
  <2> HIDE DEF unrun
  <2> QED
    BY <2>1, <2>2
<1>4. Covers(e)
  BY <1>2, <1>3 DEF Unverified
<1> QED
  BY <1>2, <1>4 DEF Commands, Covers

-----------------------------------------------------------------------------
LEMMA PassesAre ==
    ASSUME NEW c
    PROVE  Passes(c) <=> c \notin Flaky /\ (c \in classified \/ Breaks[c] = "none")
  BY DEF Passes, StopsAt

LEMMA ReportIsTrueOf ==
    ASSUME TypeOK, NEW c \in Commit, DryRun(c)
    PROVE  ReportIsTrue'
<1>1. PICK ran, failed : review' = Report(c, ran, failed)
  BY DEF DryRun
<1> DEFINE r == Report(c, ran, failed)
           cs == Between(pin, c)
<1>2. /\ r.from = pin /\ r.to = c /\ r.commits = cs /\ r.inventory = InventoryDelta(c)
      /\ r.items = SuiteItems(c) /\ r.stops_at = StopsAt(c)
      /\ r.verification = Verification(c, ran, failed)
      /\ r.waypoint = IF SearchesWaypoint(c) THEN WaypointAfter(cs) ELSE NoWaypoint
  BY DEF Report
<1>3. /\ seen'.status = status /\ seen'.artifacts = artifacts /\ seen'.classified = classified
  BY DEF DryRun, Facts
<1> HIDE DEF r, cs
<1>4. review' = r
  BY <1>1 DEF r
<1>5. pin \in Commit
  BY ReferencesConstants DEF TypeOK
<1>6. AtStake' = Stake(c)
  BY <1>2, <1>3, <1>4 DEF AtStake, Stake
<1>7. \A item \in r.items :
         item.disposition = "deferred" => \A e \in Stake(c) : SuiteOf[e] # item.suite
  BY <1>2, DeferralIsTrue
<1>8. r.verification.execution = "passed" =>
         \A e \in Stake(c) \cap Passed :
            Content[c][e] # 0 => CommandOf[e] \in r.verification.commands /\ e \in Discovers
  <2>1. Verification(c, ran, failed).commands = Commands(c)
    BY DEF Verification
  <2> QED
    BY <1>2, <2>1, VerificationIsTrue
<1>9. ASSUME r.waypoint.last_green \notin {0, pin}
      PROVE  \E i \in 1 .. Len(cs) - 1 :
                /\ cs[i] = r.waypoint.last_green
                /\ cs[i + 1] = r.waypoint.first_failing
                /\ \A k \in i .. Len(cs) : Passes(cs[k]) <=> k = i
  <2>1. SearchesWaypoint(c) /\ r.waypoint = WaypointAfter(cs)
    BY <1>2, <1>9 DEF NoWaypoint
  <2>2. StopsAt(c) # "none" /\ cs # <<>>
    BY <2>1 DEF SearchesWaypoint, cs
  <2> QED
    BY <1>5, <1>9, <2>1, <2>2, WaypointIs DEF cs
<1>10. \A k : Passes(cs[k]) <=> cs[k] \notin Flaky
                                  /\ (cs[k] \in seen'.classified \/ Breaks[cs[k]] = "none")
  BY <1>3, PassesAre
<1>11. /\ review'.items = r.items /\ review'.verification = r.verification /\ review'.to = c
       /\ review'.commits = cs /\ review'.from = pin /\ review'.waypoint = r.waypoint
  BY <1>2, <1>4
<1>12. (\A item \in review.items :
           item.disposition = "deferred" => \A e \in AtStake : SuiteOf[e] # item.suite)'
  BY <1>6, <1>7, <1>11
<1>13. (review.verification.execution = "passed" =>
           \A e \in AtStake \cap Passed :
               Content[review.to][e] # 0 =>
                   /\ CommandOf[e] \in review.verification.commands
                   /\ e \in Discovers)'
  BY <1>6, <1>8, <1>11
<1>14. (review.waypoint.last_green \notin {0, review.from} =>
           \E i \in 1 .. Len(review.commits) - 1 :
               /\ review.commits[i] = review.waypoint.last_green
               /\ review.commits[i + 1] = review.waypoint.first_failing
               /\ \A k \in i .. Len(review.commits) :
                     LET d == review.commits[k]
                         passes == d \notin Flaky
                                   /\ (d \in seen.classified \/ Breaks[d] = "none")
                     IN  passes <=> k = i)'
  BY <1>9, <1>10, <1>11
<1> QED
  BY <1>12, <1>13, <1>14 DEF ReportIsTrue

LEMMA ReportIsTrueStep == TypeOK /\ ReportIsTrue /\ [Next]_vars => ReportIsTrue'
<1> SUFFICES ASSUME TypeOK, ReportIsTrue, [Next]_vars PROVE ReportIsTrue'
  OBVIOUS
<1>1. CASE \E c \in Commit : DryRun(c)
  BY <1>1, ReportIsTrueOf
<1>2. CASE UNCHANGED <<review, seen>>
  BY <1>2 DEF ReportIsTrue, AtStake
<1>3. (\E c \in Commit : DryRun(c)) \/ UNCHANGED <<review, seen>>
  BY DEF Next, vars, reviewing, Advance, Approve, AdvanceApproved, WritePin, Regenerate,
         Generate, GenerateFails, Finish, Crash, SetStatus, Classify, CommitProject,
         RestoreCheckout
<1> QED
  BY <1>1, <1>2, <1>3

-----------------------------------------------------------------------------
(* The theorems. *)

\* The inductive invariant.
IInv == JobInv /\ TypeOK /\ Reviewed /\ ReportIsTrue

THEOREM Invariance == Spec => []IInv
<1>1. Init => IInv
  BY InitIsTrue, InitIsTyped, ReviewedAtFirst DEF Init, IInv, ReportIsTrue
<1>2. IInv /\ [Next]_vars => IInv'
  BY NextKeeps, TypedStep, ReviewedStep, ReportIsTrueStep DEF IInv
<1> QED
  BY <1>1, <1>2, PTL DEF Spec

\* Whatever upstream contains and whatever is classified or changed meanwhile,
\* an update that says it is done has brought the checkout, the pin and every
\* artifact to one commit, and a guarded one never fails in the generation that
\* its simulation has tried (advance_reference, advance_reviewed_reference,
\* run_generators).
THEOREM OutcomesAreAlwaysTrue == Spec => []OutcomesAreTrue
<1>1. IInv => OutcomesAreTrue
  BY DEF IInv, JobInv
<1> QED
  BY <1>1, Invariance, PTL

\* Whatever the order of updates, kills and changes, every variable holds what
\* the program can put there; and the pin and the checkout descend from the first
\* pin, in any history, unless the update was told otherwise (validate_candidate,
\* advance_reference).
THEOREM TypeCorrect == Spec => []TypeOK
<1>1. IInv => TypeOK
  BY DEF IInv
<1> QED
  BY <1>1, Invariance, PTL

\* A reviewed report is applied if, and only if, nothing it is about has changed,
\* which the commit of a clean project and the digest are enough to tell
\* (advance_reviewed_reference, impact_digest).
THEOREM ReviewAlwaysDecides == Spec => []ReviewDecides
<1>1. IInv => ReviewDecides
  BY ReviewedDecides DEF IInv
<1> QED
  BY <1>1, Invariance, PTL

\* A report never plays down what it found: deferred suites, passed
\* verifications and waypoints are what they say, whatever upstream contains
\* (propose_plan_items, build_behavior_verification, find_green_waypoint).
THEOREM ReportsAreTrue == Spec => []ReportIsTrue
<1>1. IInv => ReportIsTrue
  BY DEF IInv
<1> QED
  BY <1>1, Invariance, PTL
=============================================================================
