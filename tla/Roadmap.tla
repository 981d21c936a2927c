------------------------------- MODULE Roadmap -------------------------------
(***************************************************************************)
(* The executable roadmap (planning/update_plan.py): commands that read    *)
(* plan.json and progress.json, decide, and write progress.json and then   *)
(* current_state.json, each file in one rename.                            *)
(*                                                                         *)
(* No lock is taken: between its reading and its two writes a command may  *)
(* meet another one, and it may be killed.  Around the commands people     *)
(* edit the plan, commit and push.  The history is one branch.  Notes,     *)
(* times and the fields of an activity that only describe it are left out. *)
(***************************************************************************)
EXTENDS DependencyGraph

CONSTANTS
    Activity, NoActivity,
    Order,              \* the activities as the plan lists them
    RedGreen,           \* those whose test_policy is red_green, not validation
    Additional,         \* those of the milestone `additional'
    Track, NoTrack,
    TrackOf,            \* the track of each activity
    Entry, After,       \* of each track: its first activity and what that waits for
    Plan,               \* what the dependencies may be edited to
    FirstPlan,
    Operator,           \* those who run commands
    PolicyBaseline,     \* the commits of before the commit policy
    MaxEvidence,        \* bounds the evidence of each activity
    MaxReopenings,      \* when one was reopened so often, none is any more
    MaxCommits,         \* bounds the history
    MaxEdits            \* bounds the edits of the plan

ASSUME RoadmapConstants ==
    /\ NoActivity \notin Activity /\ NoTrack \notin Track
    /\ Order \in Seq(Activity) /\ Activity = {Order[i] : i \in DOMAIN Order}
    /\ RedGreen \subseteq Activity /\ Additional \subseteq Activity
    /\ TrackOf \in [Activity -> Track \cup {NoTrack}]
    /\ Entry \in [Track -> Activity] /\ After \in [Track -> Activity]
    /\ Plan \subseteq [Activity -> SUBSET Activity] /\ FirstPlan \in Plan
    /\ MaxEvidence \in [Activity -> Nat]
    /\ {PolicyBaseline, MaxReopenings, MaxCommits, MaxEdits} \subseteq Nat

VARIABLES
    plan,               \* plan.json: the dependencies
    progress,           \* progress.json
    state,              \* current_state.json
    log,                \* the commits
    pushed,             \* how many of them a remote branch has
    pc, draft,          \* where each operator's command is and what it will write
    edits, mishap       \* counts edits; did one, or a crash, leave `state' behind?

vars == <<plan, progress, state, log, pushed, pc, draft, edits, mishap>>
people == <<plan, log, pushed, edits>>

Status == {"pending", "in_progress", "blocked", "completed", "needs_review"}
\* `attempt' is the number of the attempt at the activity it belongs to.
Evidence == [phase : {"red", "green"}, attempt : Nat \ {0}]
\* `history' holds the evidence of the attempts that were reopened, `boundary'
\* the length of the history at the last reopening (0: never reopened).
Record == [status : Status, evidence : Seq(Evidence), history : Seq(Seq(Evidence)),
           boundary : Nat]
Progress == [digest : Plan, records : [Activity -> Record]]
\* `subject' names the activity whose exact subject the commit has.
Commit == [subject : Activity \cup {NoActivity}, trailers : SUBSET Activity,
           attempt : Nat]

StatusOf(document, a) == document.records[a].status
With(document, status) == {a \in Activity : StatusOf(document, a) = status}
Attempt(record) == Len(record.history) + 1

-----------------------------------------------------------------------------
(* What the commands make of the documents. *)

ValidButForCycles(p) ==
    /\ \A a \in Activity : a \notin p[a]
    /\ \A t \in Track : TrackOf[Entry[t]] = t /\ After[t] \in p[Entry[t]]

ValidPlan(p) ==
    /\ \A a \in Activity : a \notin p[a]
    /\ \A t \in Track : TrackOf[Entry[t]] = t /\ After[t] \in p[Entry[t]]
    /\ ~HasCycle(p, Order)

ValidProgress(document) == Cardinality(With(document, "in_progress")) <= 1

ValidCore == ValidPlan(plan) /\ ValidProgress(progress)

ReadyDespiteReview(p, document) ==
    {a \in With(document, "pending") :
        p[a] \subseteq With(document, "completed") \cup With(document, "needs_review")}

Ready(p, document) ==
    {a \in With(document, "pending") : p[a] \subseteq With(document, "completed")}

First(set) == IF set = {} THEN NoActivity ELSE Head(InOrder(set, Order))

ComputeState(p, document) ==
    [digest |-> p,
     counts |-> [s \in Status |-> Cardinality(With(document, s))],
     active |-> With(document, "in_progress"),
     blocked |-> With(document, "blocked"),
     needs_review |-> With(document, "needs_review"),
     ready |-> Ready(p, document),
     ready_by_track |-> [t \in Track |-> {a \in Ready(p, document) : TrackOf[a] = t}],
     stale |-> document.digest # p,
     next_ready |-> First(Ready(p, document))]

\* The activity that `next' names, NoActivity when it names none.
NextActivity(track) ==
    LET summary == ComputeState(plan, progress)
    IN  IF ~ValidCore \/ summary.stale THEN NoActivity
        ELSE IF track = NoTrack THEN summary.next_ready
        ELSE First(summary.ready_by_track[track])

\* reachable_commits, towards the children of a commit on the one branch.
Descendants(commit) == {i \in DOMAIN log : i > commit}

HasAnyCommit(a, record) ==
    \E i \in 1 .. pushed : log[i].subject = a /\ log[i].trailers = {a}

\* git_commit_issues finds nothing about a completed activity.
HasItsCommit(a, record) ==
    LET eligible == IF record.boundary = 0 THEN DOMAIN log ELSE Descendants(record.boundary)
        matching == {i \in eligible : a \in log[i].trailers}
        exact == {i \in matching : log[i].subject = a}
    IN  \E i \in exact :
            /\ exact = {i}
            /\ matching \ {i} \subseteq 1 .. PolicyBaseline
            /\ log[i].trailers = {a}
            /\ i <= pushed

CommitsInOrder(document) ==
    \A a \in With(document, "completed") : HasItsCommit(a, document.records[a])

Positions(evidence, phase) == {i \in DOMAIN evidence : evidence[i].phase = phase}

\* completion_evidence_issues finds nothing.
EvidenceSuffices(a, evidence) ==
    LET greens == Positions(evidence, "green")
        reds == Positions(evidence, "red")
    IN  /\ greens # {}
        /\ a \in RedGreen => \E r \in reds : \A g \in greens : r < g

-----------------------------------------------------------------------------
Nothing == [plan |-> FirstPlan,
            progress |-> [digest |-> FirstPlan,
                          records |-> [a \in Activity |->
                              [status |-> "pending", evidence |-> <<>>, history |-> <<>>,
                               boundary |-> 0]]]]

Init ==
    /\ plan = FirstPlan
    /\ progress = Nothing.progress
    /\ state = ComputeState(FirstPlan, Nothing.progress)
    /\ log = <<>> /\ pushed = 0
    /\ pc = [o \in Operator |-> "idle"]
    /\ draft = [o \in Operator |-> Nothing]
    /\ edits = 0 /\ mishap = FALSE

\* Every command reads both documents, refuses invalid ones, and from here on
\* works on what it has read.
Prepare(o, document) ==
    /\ pc[o] = "idle"
    /\ ValidCore
    /\ draft' = [draft EXCEPT ![o] = [plan |-> plan, progress |-> document]]
    /\ pc' = [pc EXCEPT ![o] = "progress"]
    /\ UNCHANGED <<people, progress, state, mishap>>

Change(o, a, record) == Prepare(o, [progress EXCEPT !.records[a] = record])

MayStartBeside(a, track) ==
    /\ StatusOf(progress, a) \in {"pending", "needs_review"}
    /\ plan[a] \subseteq With(progress, "completed")
    /\ CommitsInOrder(progress)

MayStart(a, track) ==
    /\ a \in Additional => track # NoTrack
    /\ track # NoTrack => TrackOf[a] = track
    /\ With(progress, "in_progress") = {}
    /\ StatusOf(progress, a) \in {"pending", "needs_review"}
    /\ plan[a] \subseteq With(progress, "completed")
    /\ CommitsInOrder(progress)

Start(o, a) ==
    /\ \E track \in Track \cup {NoTrack} : MayStart(a, track)
    /\ Change(o, a, [progress.records[a] EXCEPT !.status = "in_progress"])

RequeueAfresh(o, a) ==
    /\ StatusOf(progress, a) = "in_progress"
    /\ Change(o, a, [progress.records[a] EXCEPT !.status = "pending", !.evidence = <<>>])

\* Back to pending, with the evidence kept...
RequeueActive(o, a) ==
    /\ StatusOf(progress, a) = "in_progress"
    /\ Change(o, a, [progress.records[a] EXCEPT !.status = "pending"])

ReopenedWithEvidence(record) ==
    [record EXCEPT !.status = "pending", !.history = Append(@, record.evidence),
                   !.boundary = Len(log)]
ReopenedWithoutBoundary(record) ==
    [record EXCEPT !.status = "pending", !.history = Append(@, record.evidence),
                   !.evidence = <<>>]

\* ...or, from completed, with the evidence put away and the commit that HEAD is
\* at (there must be one) as the boundary.
Reopened(record) ==
    [status |-> "pending", evidence |-> <<>>, history |-> Append(record.history, record.evidence),
     boundary |-> Len(log)]

RequeueCompleted(o, a) ==
    /\ StatusOf(progress, a) = "completed"
    /\ \A b \in With(progress, "completed") : a \notin plan[b]
    /\ log # <<>>
    /\ \A b \in Activity : Len(progress.records[b].history) < MaxReopenings
    /\ Change(o, a, Reopened(progress.records[a]))

Review(o, a) ==
    /\ StatusOf(progress, a) \in {"completed", "in_progress"}
    /\ Change(o, a, [progress.records[a] EXCEPT !.status = "needs_review"])

\* A red phase with the exit code 0, or a green one with another, is refused.
RecordTest(o, a, phase) ==
    LET record == progress.records[a]
    IN  /\ record.status = "in_progress"
        /\ Len(record.evidence) < MaxEvidence[a]
        /\ Change(o, a, [record EXCEPT
               !.evidence = Append(@, [phase |-> phase, attempt |-> Attempt(record)])])

Block(o, a) ==
    /\ StatusOf(progress, a) \in {"pending", "in_progress", "needs_review"}
    /\ Change(o, a, [progress.records[a] EXCEPT !.status = "blocked"])

Unblock(o, a) ==
    /\ StatusOf(progress, a) = "blocked"
    /\ Change(o, a, [progress.records[a] EXCEPT !.status = "pending"])

Complete(o, a) ==
    /\ StatusOf(progress, a) = "in_progress"
    /\ EvidenceSuffices(a, progress.records[a].evidence)
    /\ Change(o, a, [progress.records[a] EXCEPT !.status = "completed"])

RenderState(o) == Prepare(o, [progress EXCEPT !.digest = plan])

WriteProgressOnly(o) ==
    /\ pc[o] = "progress"
    /\ progress' = draft[o].progress
    /\ pc' = [pc EXCEPT ![o] = "idle"]
    /\ draft' = [draft EXCEPT ![o] = Nothing]
    /\ UNCHANGED <<people, state, mishap>>

\* save_progress_and_state: two files, one after the other.
WriteProgress(o) ==
    /\ pc[o] = "progress"
    /\ progress' = draft[o].progress
    /\ pc' = [pc EXCEPT ![o] = "state"]
    /\ UNCHANGED <<people, state, draft, mishap>>

WriteState(o) ==
    /\ pc[o] = "state"
    /\ state' = ComputeState(draft[o].plan, draft[o].progress)
    /\ mishap' = (draft[o].plan # plan)
    /\ pc' = [pc EXCEPT ![o] = "idle"]
    /\ draft' = [draft EXCEPT ![o] = Nothing]
    /\ UNCHANGED <<people, progress>>

\* A command is killed; a file that was not replaced is the old one.
Crash(o) ==
    /\ pc[o] # "idle"
    /\ mishap' = (mishap \/ pc[o] = "state")
    /\ pc' = [pc EXCEPT ![o] = "idle"]
    /\ draft' = [draft EXCEPT ![o] = Nothing]
    /\ UNCHANGED <<people, progress, state>>

-----------------------------------------------------------------------------
(* What the operators do between two commands. *)

EditPlan(o) ==
    /\ pc[o] = "idle"
    /\ edits < MaxEdits
    /\ plan' \in Plan \ {plan}
    /\ edits' = edits + 1 /\ mishap' = TRUE
    /\ UNCHANGED <<progress, state, log, pushed, pc, draft>>

\* Work on an activity is committed: its own commit, a follow-up with its
\* trailer, or one for two activities at once.
MakeCommit(o, a, subject, trailers) ==
    /\ pc[o] = "idle"
    /\ StatusOf(progress, a) \in {"in_progress", "completed"}
    /\ Len(log) < MaxCommits
    /\ log' = Append(log, [subject |-> subject, trailers |-> trailers,
                           attempt |-> Attempt(progress.records[a])])
    /\ UNCHANGED <<plan, progress, state, pushed, pc, draft, edits, mishap>>

CommitActivity(o, a) == MakeCommit(o, a, a, {a})
CommitFollowUp(o, a) ==
    /\ \E i \in DOMAIN log : a \in log[i].trailers
    /\ MakeCommit(o, a, NoActivity, {a})
CommitMixed(o, a) ==
    \E b \in With(progress, "in_progress") \ {a} : MakeCommit(o, a, a, {a, b})

Push(o) ==
    /\ pc[o] = "idle"
    /\ pushed < Len(log)
    /\ pushed' = Len(log)
    /\ UNCHANGED <<plan, progress, state, log, pc, draft, edits, mishap>>

Command(o, a) ==
    \/ Start(o, a) \/ RequeueActive(o, a) \/ RequeueCompleted(o, a) \/ Review(o, a)
    \/ RecordTest(o, a, "red") \/ RecordTest(o, a, "green")
    \/ Block(o, a) \/ Unblock(o, a) \/ Complete(o, a)

Next ==
    \/ \E o \in Operator, a \in Activity :
          \/ Command(o, a)
          \/ CommitActivity(o, a) \/ CommitFollowUp(o, a) \/ CommitMixed(o, a)
    \/ \E o \in Operator :
          \/ RenderState(o) \/ WriteProgress(o) \/ WriteState(o) \/ Crash(o)
          \/ EditPlan(o) \/ Push(o)

Spec == Init /\ [][Next]_vars

-----------------------------------------------------------------------------
(* Properties. *)

\* Every variable holds what the program can put there; an activity has a
\* boundary, one that the history has reached, if it was ever reopened.
TypeOK ==
    /\ plan \in Plan
    /\ progress \in Progress
    /\ state.active \cup state.ready \cup state.blocked \cup state.needs_review \subseteq Activity
    /\ state.digest \in Plan /\ state.stale \in BOOLEAN
    /\ \A a \in Activity :
          LET record == progress.records[a]
          IN  /\ record.boundary <= Len(log)
              /\ record.boundary > 0 <=> record.history # <<>>
    /\ log \in Seq(Commit) /\ pushed \in 0 .. Len(log)
    /\ pc \in [Operator -> {"idle", "progress", "state"}]
    /\ draft \in [Operator -> [plan : Plan, progress : Progress]]
    /\ edits \in Nat /\ mishap \in BOOLEAN

\* "Only one activity may be in_progress": whatever the commands, their order
\* and where they are killed, progress.json never names two.
OneActive == \A a, b \in With(progress, "in_progress") : a = b

\* A completed activity has the evidence its policy asks for, recorded since it
\* was last reopened: what an earlier attempt showed proves nothing of this one.
CompletedIsProved ==
    \A a \in With(progress, "completed") :
        LET record == progress.records[a]
        IN  /\ EvidenceSuffices(a, record.evidence)
            /\ \A i \in DOMAIN record.evidence : record.evidence[i].attempt = Attempt(record)

\* Between commands current_state.json is the summary of progress.json and of
\* the plan, unless a crash between the two files or an edit of the plan came
\* after the last command that ended.  For one operator.
StateIsCurrent ==
    (\A o \in Operator : pc[o] = "idle") /\ ~mishap => state = ComputeState(plan, progress)

\* A valid plan cannot be stuck: while something is not completed, an activity
\* is ready, or active, or blocked, or waits for its review.
NeverWedged ==
    LET summary == ComputeState(plan, progress)
    IN  \/ With(progress, "completed") = Activity
        \/ summary.ready \cup summary.active \cup summary.blocked \cup summary.needs_review # {}
        \/ ~ValidPlan(plan)

\* What `next' names can be started, on the track it was named for, as soon as
\* nothing is active and the commits are in order: the two commands decide it
\* apart from each other.
NextCanStart ==
    With(progress, "in_progress") = {} /\ CommitsInOrder(progress) =>
        \A track \in Track \cup {NoTrack} :
            LET named == NextActivity(track)
            IN  named # NoActivity => \E t \in {track, TrackOf[named]} : MayStart(named, t)

\* The step in which a command that starts `a' has decided to.
Starts(a) ==
    \E o \in Operator :
        /\ pc[o] = "idle" /\ pc'[o] = "progress"
        /\ StatusOf(progress, a) # "in_progress"
        /\ StatusOf(draft'[o].progress, a) = "in_progress"

\* Nothing is started before every completed activity has one pushed commit of
\* its own, made since the activity was last reopened.  For one operator.
StartsOnCredit ==
    \A a \in Activity : Starts(a) =>
        \A d \in With(progress, "completed") :
            \E i \in 1 .. pushed :
                /\ log[i].subject = d /\ log[i].trailers = {d}
                /\ log[i].attempt = Attempt(progress.records[d])

CreditIsFresh == [][StartsOnCredit]_vars

\* Evidence is only ever added, or put away as that of an attempt that was
\* reopened.  For one operator.
KeepsEvidence ==
    \A a \in Activity :
        LET old == progress.records[a]
            new == progress'.records[a]
        IN  \/ /\ new.history = old.history
               /\ Len(new.evidence) >= Len(old.evidence)
               /\ SubSeq(new.evidence, 1, Len(old.evidence)) = old.evidence
            \/ new.history = Append(old.history, old.evidence)

EvidenceIsKept == [][KeepsEvidence]_vars
=============================================================================
