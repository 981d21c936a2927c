------------------------------ MODULE References ------------------------------
(***************************************************************************)
(* The pinned specifications (planning/update_references.py): the dry run  *)
(* that reports what a candidate commit would change, its review, and the  *)
(* update that moves the checkout, writes references.json and regenerates  *)
(* the artifacts, step by step (planning/update_spec_artifacts.py).        *)
(*                                                                         *)
(* One reference is modelled, the specifications, and one update at a      *)
(* time; people change the project around it, and it may be killed.  What  *)
(* a commit contains is a constant: the version of every piece of evidence *)
(* (cases, requirements, documents), whether the mapped landmarks are      *)
(* there, and which artifact cannot be generated before someone has        *)
(* classified what the commit brings.                                      *)
(***************************************************************************)
EXTENDS Naturals, Sequences, FiniteSets

CONSTANTS
    Last,               \* the upstream commits are 1 .. Last, parents first
    Parents,
    FirstPin,
    Mapped,             \* the commits that have every mapped path and symbol
    Evidence,           \* identities of evidence...
    Documents,          \* ...those that are documents...
    Content,            \* ...and at each commit the version of each (0: none)
    Suite, SuiteOf,
    Activity, FirstStatus,
    Owner,              \* the activity that owns a case or requirement
    Passed,             \* the evidence that the ledger records as passed
    CommandOf,          \* the command of its last execution, or NoCommand...
    NoCommand,
    Discovers,          \* ...and the evidence whose command names or finds it
    Breaks,             \* the artifact that fails at a commit, or "none"
    Flaky,              \* the commits at which generators do not repeat
    Overrides,          \* is --allow-non-fast-forward used?
    MaxProjects,        \* bounds the commits of the project
    MaxStatusChanges    \* bounds the changes of an activity's status

Commit == 1 .. Last
\* The capabilities, catalog and ledger; the scopes and the table of the README
\* that are made from them; and the state of the roadmap.
Steps == <<"ledger", "projections", "state">>
Artifact == {Steps[i] : i \in DOMAIN Steps}
Status == {"pending", "in_progress", "blocked", "completed", "needs_review"}
Begun == {"completed", "in_progress", "needs_review"}

ASSUME ReferencesConstants ==
    /\ Last \in Nat /\ FirstPin \in Commit /\ {FirstPin} \subseteq Mapped
    /\ Mapped \subseteq Commit /\ Flaky \subseteq Commit
    /\ Parents \in [Commit -> SUBSET Commit]
    /\ \A c \in Commit : \A p \in Parents[c] : p < c
    /\ Documents \subseteq Evidence /\ Passed \subseteq Evidence \ Documents
    /\ Discovers \subseteq Evidence
    /\ Content \in [Commit -> [Evidence -> Nat]]
    /\ SuiteOf \in [Evidence -> Suite] /\ Owner \in [Evidence -> Activity]
    /\ FirstStatus \in [Activity -> Status]
    /\ Breaks \in [Commit -> Artifact \cup {"none"}]
    /\ Overrides \in BOOLEAN
    /\ MaxProjects \in Nat \ {0} /\ MaxStatusChanges \in Nat

VARIABLES
    head,               \* the commit the checkout is at
    pin,                \* the one references.json names
    artifacts,          \* the commit that each artifact was made from
    status,             \* progress.json: of each activity
    classified,         \* the commits whose evidence has been classified
    project, clean,     \* the project's commit; is the working tree as committed?
    review, seen,       \* the report a reviewer holds, and the facts at that time
    job,                \* the update that is under way
    outcome,            \* how the last one ended
    changes             \* counts changes of status

vars == <<head, pin, artifacts, status, classified, project, clean, review, seen, job,
          outcome, changes>>
roadmap == <<status, classified, project, changes>>
reviewing == <<review, seen>>

-----------------------------------------------------------------------------
(* The upstream history. *)

\* A commit and all its ancestors.
History[c \in Commit] == {c} \cup UNION {History[p] : p \in Parents[c]}

IsAncestor(old, new) == old \in History[new]

Sorted(commits) ==
    CHOOSE s \in [1 .. Cardinality(commits) -> commits] :
        \A i, j \in DOMAIN s : i < j => s[i] < s[j]

\* rev-list --reverse --topo-order old..new
Between(old, new) == Sorted(History[new] \ History[old])

-----------------------------------------------------------------------------
(* The analysis of a candidate, as of the present state. *)

AcceptableOnAnyLine(commit) == head = pin /\ commit \in Mapped

\* What advance_reference and analyze_reference ask of a candidate.
Acceptable(commit) ==
    /\ head = pin
    /\ IsAncestor(pin, commit) \/ Overrides
    /\ commit \in Mapped

\* The artifact at which generation stops, "none" if it does not.
StopsAt(commit) == IF commit \in classified THEN "none" ELSE Breaks[commit]
Passes(commit) == StopsAt(commit) = "none" /\ commit \notin Flaky

\* inventory_delta
Delta(before, after) ==
    [added |-> {e \in Evidence : before[e] = 0 /\ after[e] # 0},
     removed |-> {e \in Evidence : before[e] # 0 /\ after[e] = 0},
     changed |-> {e \in Evidence : before[e] # 0 /\ after[e] # 0 /\ before[e] # after[e]}]

Touched(delta) == delta.added \cup delta.removed \cup delta.changed

\* specification_inventory_delta: what upstream changed since the pin.
InventoryDelta(commit) == Delta(Content[pin], Content[commit])

\* The ledger of the project against the one that the simulation generates; it
\* is not replaced if its own generator fails.
LedgerAfter(commit) == IF StopsAt(commit) = "ledger" THEN artifacts["ledger"] ELSE commit
OwnershipDelta(commit) ==
    Delta(Content[artifacts["ledger"]], Content[LedgerAfter(commit)])

\* ownership_records: a document belongs to whoever owns evidence of its suite.
OwnersIn(content, e) ==
    IF content[e] = 0 THEN {}
    ELSE IF e \in Documents
         THEN {Owner[d] : d \in {x \in Evidence \ Documents :
                                    content[x] # 0 /\ SuiteOf[x] = SuiteOf[e]}}
         ELSE {Owner[e]}

OwnersOf(commit, e) ==
    OwnersIn(Content[artifacts["ledger"]], e) \cup OwnersIn(Content[LedgerAfter(commit)], e)

\* apply_specification_activity_impacts: the activities that a suite's changed
\* evidence belongs to.
SuiteOwners(commit, suite) ==
    UNION {OwnersOf(commit, e) :
           e \in {x \in Touched(OwnershipDelta(commit)) : SuiteOf[x] = suite}}

AllPending(owners) == owners # {} /\ \A a \in owners : status[a] = "pending"

\* propose_plan_items: one item per suite that upstream changed.
SuiteItems(commit) ==
    {[suite |-> s, owners |-> SuiteOwners(commit, s),
      disposition |-> IF AllPending(SuiteOwners(commit, s)) THEN "deferred" ELSE "actionable"] :
     s \in {SuiteOf[e] : e \in Touched(InventoryDelta(commit))}}

-----------------------------------------------------------------------------
(* Behavior verification. *)

\* Passing evidence, added or changed, of an activity that has begun.
Verifiable(commit) ==
    LET delta == OwnershipDelta(commit)
    IN  {e \in (delta.added \cup delta.changed) \cap Passed : status[Owner[e]] \in Begun}

\* verification_command_covers_identity
HasCommand(e) == CommandOf[e] # NoCommand
Covers(e) == HasCommand(e) /\ e \in Discovers

\* propose_verification_commands and unverified_behavior_identities
Commands(commit) == {CommandOf[e] : e \in {x \in Verifiable(commit) : Covers(x)}}
Unverified(commit) == {e \in Verifiable(commit) : ~Covers(e)}

\* build_behavior_verification, with the commands that failed if they were run.
Verification(commit, ran, failed) ==
    [commands |-> Commands(commit),
     unverified |-> Unverified(commit),
     failed |-> failed,
     execution |-> IF ~ran THEN (IF Commands(commit) = {} THEN "unavailable" ELSE "not_run")
                   ELSE IF failed # {} THEN "failed"
                   ELSE IF Unverified(commit) # {} THEN "partial" ELSE "passed",
     required |-> \E item \in SuiteItems(commit) : item.disposition = "actionable"]

-----------------------------------------------------------------------------
(* The waypoint, and the report. *)

\* A simulation checks its candidate again, as a candidate of its own.
CanSimulate(commit) == Acceptable(commit)

\* No report: of no commit.
NoReport == [to |-> 0]
NoWaypoint == [last_green |-> 0, first_failing |-> 0]

\* find_green_waypoint: the commits before the candidate that pass...
Greens(commits) == {i \in 1 .. Len(commits) - 1 : Passes(commits[i])}
Newest(positions) == CHOOSE i \in positions : \A k \in positions : k <= i

\* ...of which the newest is met first.
WaypointAfter(commits) ==
    IF Greens(commits) = {} THEN [last_green |-> pin, first_failing |-> commits[1]]
    ELSE LET i == Newest(Greens(commits))
         IN  [last_green |-> commits[i], first_failing |-> commits[i + 1]]

\* The commits that the search asks for: a simulation of one may be refused.
Searched(commits) ==
    {commits[i] : i \in {k \in 1 .. Len(commits) - 1 :
                            \A g \in Greens(commits) : g <= k}}

SearchesWaypoint(commit) ==
    /\ StopsAt(commit) # "none" /\ commit \notin Flaky
    /\ Between(pin, commit) # <<>>

\* Whether a dry run yields a report at all: the simulation wants a clean project.
Reports(commit) ==
    /\ clean
    /\ Acceptable(commit)
    /\ SearchesWaypoint(commit) =>
          \A c \in Searched(Between(pin, commit)) : CanSimulate(c)

Report(commit, ran, failed) ==
    [from |-> pin, to |-> commit, project_commit |-> project,
     commits |-> Between(pin, commit),
     inventory |-> InventoryDelta(commit),
     ownership |-> OwnershipDelta(commit),
     items |-> SuiteItems(commit),
     stops_at |-> StopsAt(commit),
     repeatable |-> commit \notin Flaky,
     valid |-> Passes(commit),
     verification |-> Verification(commit, ran, failed),
     waypoint |-> IF SearchesWaypoint(commit) THEN WaypointAfter(Between(pin, commit))
                  ELSE NoWaypoint]

DigestWithoutProject(report) ==
    [report EXCEPT !.project_commit = 0,
                   !.verification.failed = {}, !.verification.execution = "not_run"]

\* What the digest is taken of: not of whether, and how, commands were run.
ImpactDigest(report) ==
    [report EXCEPT !.verification.failed = {},
                   !.verification.execution =
                       IF report.verification.commands = {} THEN "unavailable" ELSE "not_run"]

\* Everything a report is about.
Facts == [pin |-> pin, project |-> project, status |-> status, classified |-> classified,
          artifacts |-> artifacts]

-----------------------------------------------------------------------------
Idle == [step |-> "idle", to |-> FirstPin, kind |-> "none", todo |-> <<>>]

Init ==
    /\ head = FirstPin /\ pin = FirstPin
    /\ artifacts = [a \in Artifact |-> FirstPin]
    /\ status = FirstStatus
    /\ classified = {FirstPin}
    /\ project = 1 /\ clean = TRUE
    /\ review = NoReport /\ seen = NoReport
    /\ job = Idle /\ outcome = "none" /\ changes = 0

\* --dry-run, with --verify or without; the report is read and its digest kept.
DryRun(commit) ==
    /\ job.step = "idle"
    /\ Reports(commit)
    /\ \/ review' = Report(commit, FALSE, {})
       \/ \E failed \in SUBSET Commands(commit) : review' = Report(commit, TRUE, failed)
    /\ seen' = Facts
    /\ UNCHANGED <<head, pin, artifacts, roadmap, clean, job, outcome>>

\* --expect-impact: a fresh report must be repeatable and match.
Approved ==
    /\ review # NoReport
    /\ Reports(review.to)
    /\ LET report == Report(review.to, FALSE, {})
       IN  /\ report.valid \/ report.repeatable
           /\ ImpactDigest(report) = ImpactDigest(review)

ApproveAndRegenerate ==
    /\ job.step = "idle" /\ Approved
    /\ job' = [step |-> "approved", to |-> review.to, kind |-> "guarded", todo |-> Steps]
    /\ UNCHANGED <<head, pin, artifacts, roadmap, clean, reviewing, outcome>>

Approve ==
    /\ job.step = "idle"
    /\ Approved
    /\ job' = IF Passes(review.to)
              THEN [step |-> "approved", to |-> review.to, kind |-> "guarded", todo |-> Steps]
              ELSE [step |-> "approved", to |-> review.to, kind |-> "pin_only", todo |-> <<>>]
    /\ UNCHANGED <<head, pin, artifacts, roadmap, clean, reviewing, outcome>>

\* advance_reference, up to the checkout: without a review...
Advance(commit) ==
    /\ job.step = "idle"
    /\ Acceptable(commit) /\ commit # pin
    /\ head' = commit /\ clean' = FALSE
    /\ job' = [step |-> "moved", to |-> commit, kind |-> "update", todo |-> Steps]
    /\ UNCHANGED <<pin, artifacts, roadmap, reviewing, outcome>>

\* ...and after one; what does not hold any more ends the update.
AdvanceApproved ==
    /\ job.step = "approved"
    /\ IF Acceptable(job.to) /\ job.to # pin
       THEN /\ head' = job.to /\ clean' = FALSE
            /\ job' = [job EXCEPT !.step = "moved"]
            /\ UNCHANGED outcome
       ELSE /\ job' = Idle /\ outcome' = "refused"
            /\ UNCHANGED <<head, clean>>
    /\ UNCHANGED <<pin, artifacts, roadmap, reviewing>>

WritePin ==
    /\ job.step = "moved"
    /\ pin' = job.to
    /\ job' = [job EXCEPT !.step = "generating"]
    /\ UNCHANGED <<head, artifacts, roadmap, clean, reviewing, outcome>>

\* make update-spec-artifacts, whatever the checkout is at.
Regenerate ==
    /\ job.step = "idle"
    /\ clean' = FALSE
    /\ job' = [step |-> "generating", to |-> head, kind |-> "regenerate", todo |-> Steps]
    /\ UNCHANGED <<head, pin, artifacts, roadmap, reviewing, outcome>>

\* What an artifact is made from: the checkout, references.json or an earlier one.
MadeFrom(artifact) ==
    CASE artifact = "ledger" -> head
      [] artifact = "state" -> pin
      [] OTHER -> artifacts["ledger"]

\* run_generators and regenerate: the next command, if it succeeds.  At a flaky
\* commit it does or not.
Generate ==
    /\ job.step = "generating" /\ job.todo # <<>>
    /\ Head(job.todo) # StopsAt(head)
    /\ artifacts' = [artifacts EXCEPT ![Head(job.todo)] = MadeFrom(Head(job.todo))]
    /\ job' = [job EXCEPT !.todo = Tail(@)]
    /\ UNCHANGED <<head, pin, roadmap, clean, reviewing, outcome>>

GenerateFails ==
    /\ job.step = "generating" /\ job.todo # <<>>
    /\ Head(job.todo) = StopsAt(head) \/ head \in Flaky
    /\ outcome' = IF job.kind = "guarded" THEN "guarded failed" ELSE "failed"
    /\ job' = Idle
    /\ UNCHANGED <<head, pin, artifacts, roadmap, clean, reviewing>>

\* Nothing is left to generate, or nothing was to be.
Finish ==
    /\ job.step = "generating" /\ job.todo = <<>>
    /\ outcome' = CASE job.kind \in {"update", "guarded"} -> "updated"
                    [] job.kind = "pin_only" -> "pin moved"
                    [] job.kind = "regenerate" -> "regenerated"
    /\ job' = Idle
    /\ UNCHANGED <<head, pin, artifacts, roadmap, clean, reviewing>>

\* The tool is killed.
Crash ==
    /\ job.step # "idle"
    /\ job' = Idle /\ outcome' = "killed"
    /\ UNCHANGED <<head, pin, artifacts, roadmap, clean, reviewing>>

-----------------------------------------------------------------------------
(* What people do to the project. *)

SetStatus(a, s) ==
    /\ changes < MaxStatusChanges /\ s # status[a]
    /\ status' = [status EXCEPT ![a] = s]
    /\ clean' = FALSE /\ changes' = changes + 1
    /\ UNCHANGED <<head, pin, artifacts, classified, project, reviewing, job, outcome>>

Classify ==
    /\ pin \notin classified
    /\ classified' = classified \cup {pin}
    /\ clean' = FALSE
    /\ UNCHANGED <<head, pin, artifacts, status, project, changes, reviewing, job, outcome>>

CommitProject ==
    /\ ~clean /\ head = pin /\ job.step = "idle"
    /\ project < MaxProjects
    /\ project' = project + 1 /\ clean' = TRUE
    /\ UNCHANGED <<head, pin, artifacts, status, classified, changes, reviewing, job, outcome>>

\* git submodule update, after an update was killed between its two writes.
RestoreCheckout ==
    /\ job.step = "idle" /\ head # pin
    /\ head' = pin
    /\ UNCHANGED <<pin, artifacts, roadmap, clean, reviewing, job, outcome>>

Next ==
    \/ \E c \in Commit : DryRun(c) \/ Advance(c)
    \/ Approve \/ AdvanceApproved \/ WritePin \/ Regenerate
    \/ Generate \/ GenerateFails \/ Finish \/ Crash
    \/ \E a \in Activity, s \in {"pending", "completed", "needs_review"} : SetStatus(a, s)
    \/ Classify \/ CommitProject \/ RestoreCheckout

Spec == Init /\ [][Next]_vars

-----------------------------------------------------------------------------
(* Properties. *)

\* Every variable holds what the program can put there; the pin is always a
\* commit that has every mapped landmark, and descends from the first one unless
\* the update was told otherwise.
TypeOK ==
    /\ head \in Mapped /\ pin \in Mapped
    /\ Overrides \/ (IsAncestor(FirstPin, pin) /\ IsAncestor(pin, head))
    /\ artifacts \in [Artifact -> Mapped]
    /\ status \in [Activity -> Status] /\ classified \subseteq Mapped
    /\ project \in 1 .. MaxProjects /\ clean \in BOOLEAN
    /\ review = NoReport <=> seen = NoReport
    /\ review # NoReport => review.to \in Mapped
    /\ job.step \in {"idle", "approved", "moved", "generating"} /\ job.to \in Mapped
    /\ job.kind \in {"none", "update", "guarded", "pin_only", "regenerate"}
    /\ outcome \in {"none", "refused", "failed", "guarded failed", "killed",
                    "updated", "pin moved", "regenerated"}
    /\ changes \in 0 .. MaxStatusChanges

\* What an update says of its end is so.  "updated": the checkout, the pin and
\* every artifact, those made from other artifacts included, are of one commit.
\* A guarded update regenerates only what its simulation could, and then does
\* not fail; if not, it moves the pin and leaves the artifacts alone.
OutcomesAreTrue ==
    /\ outcome = "updated" /\ job.step = "idle" =>
          head = pin /\ \A a \in Artifact : artifacts[a] = pin
    /\ outcome # "guarded failed"

\* A reviewed report is applied as long as nothing it is about has changed, and
\* never after that, however much or little of a change the report shows; and
\* having run the verification commands does not make it another report.
ReviewDecides ==
    review # NoReport =>
        (Approved <=> /\ clean /\ head = pin
                      /\ seen = Facts
                      /\ review.repeatable)

\* What upstream changed of the evidence of activities that have begun, as far
\* as the ledger did not have it, by a ledger that could be generated.
AtStake ==
    {e \in Touched(review.inventory) \ Documents :
        /\ seen.status[Owner[e]] \in Begun
        /\ Content[seen.artifacts["ledger"]][e] # Content[review.to][e]
        /\ review.stops_at # "ledger"}

\* A report does not play down what it found.  No suite with such evidence is
\* deferred.  When verification passed, a command that ran finds each piece of
\* it that passed before and is still there.  A waypoint other than the pin
\* passes, and from there to the candidate everything fails.
ReportIsTrue ==
    review # NoReport =>
        /\ \A item \in review.items :
              item.disposition = "deferred" => \A e \in AtStake : SuiteOf[e] # item.suite
        /\ review.verification.execution = "passed" =>
              \A e \in AtStake \cap Passed :
                  Content[review.to][e] # 0 =>
                      /\ CommandOf[e] \in review.verification.commands
                      /\ e \in Discovers
        /\ review.waypoint.last_green \notin {0, review.from} =>
              \E i \in 1 .. Len(review.commits) - 1 :
                  /\ review.commits[i] = review.waypoint.last_green
                  /\ review.commits[i + 1] = review.waypoint.first_failing
                  /\ \A k \in i .. Len(review.commits) :
                        LET c == review.commits[k]
                            passes == c \notin Flaky
                                      /\ (c \in seen.classified \/ Breaks[c] = "none")
                        IN  passes <=> k = i
=============================================================================
