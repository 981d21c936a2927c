----------------------------- MODULE ReplicaSet -----------------------------
(***************************************************************************)
(* A client discovers a replica set that elects primaries and changes its  *)
(* members while the monitors' answers are on their way.                   *)
(*                                                                         *)
(* The client's side is sdam.lua and what topology.lua does with the       *)
(* answer of a monitor and with a refused operation; it is taken to hold   *)
(* the manager lock from the check for staleness to the update.  The       *)
(* servers are the environment: a server answers with its own view, an old *)
(* primary may go on answering as one, and a new configuration spreads     *)
(* from the primary.                                                       *)
(***************************************************************************)
EXTENDS SDAM, Sequences

CONSTANTS
    Core,         \* a seed that is never removed from the replica set
    Seeds,
    FirstMembers,
    TheSet,       \* its name
    NoAnswer,
    MaxTerm,      \* bounds the elections
    MaxConfig,    \* bounds the configurations
    MaxProcess,   \* bounds the restarts of a server
    MaxFailures   \* bounds the failed checks

ASSUME CoreStays == Core \in Seeds \cap FirstMembers

ASSUME SetIsNamed == TheSet \in SetNames /\ Seeds \cup FirstMembers \subseteq Addresses

VARIABLES
    description,
    answer,       \* the answer to the check of a server, on its way
    refusal,      \* the topologyVersion of a refused operation, on its way
    failures,
    term,         \* the number of elections so far
    configs,      \* the members, configuration by configuration
    role,
    won,          \* the last election a server won, 0 if none
    config,       \* the configuration a server knows of
    version       \* its topologyVersion

clientVars == <<description, answer, refusal, failures>>
serverVars == <<role, won, config, version>>
vars == <<clientVars, term, configs, serverVars>>

Current == Len(configs)
Members == configs[Current]

Init ==
    /\ description = NewDescription("ReplicaSetNoPrimary", TheSet, Seeds)
    /\ answer = [a \in Addresses |-> NoAnswer]
    /\ refusal = [a \in Addresses |-> NoVersion]
    /\ failures = 0
    /\ term = 0
    /\ configs = <<FirstMembers>>
    /\ role = [a \in Addresses |-> "secondary"]
    /\ won = [a \in Addresses |-> 0]
    /\ config = [a \in Addresses |-> 1]
    /\ version = [a \in Addresses |-> [process |-> 1, counter |-> 1]]

-----------------------------------------------------------------------------
(* The servers.                                                            *)

\* Every change a server reports makes its topologyVersion grow.
Changes(a) == version' = [version EXCEPT ![a].counter = @ + 1]

Elect(a) ==
    /\ term < MaxTerm
    /\ a \in Members /\ config[a] = Current /\ role[a] = "secondary"
    /\ term' = term + 1
    /\ role' = [role EXCEPT ![a] = "primary"]
    /\ won' = [won EXCEPT ![a] = term + 1]
    /\ Changes(a)
    /\ UNCHANGED <<clientVars, configs, config>>

StepDown(a) ==
    /\ role[a] = "primary"
    /\ role' = [role EXCEPT ![a] = "secondary"]
    /\ Changes(a)
    /\ UNCHANGED <<clientVars, term, configs, won, config>>

IsOvertaken(a) == won[a] < term

Reconfigure(a) ==
    /\ Current < MaxConfig
    /\ role[a] = "primary" /\ ~IsOvertaken(a)
    /\ \E x \in Addresses \ {a, Core} :
          LET members == IF x \in Members THEN Members \ {x} ELSE Members \cup {x} IN
          configs' = Append(configs, members)
    /\ config' = [config EXCEPT ![a] = Current + 1]
    /\ Changes(a)
    /\ UNCHANGED <<clientVars, term, role, won>>

Learn(a) ==
    /\ config[a] < Current /\ role[a] = "secondary"
    /\ config' = [config EXCEPT ![a] = Current]
    /\ Changes(a)
    /\ UNCHANGED <<clientVars, term, configs, role, won>>

Restart(a) ==
    /\ version[a].process < MaxProcess
    /\ version' = [version EXCEPT ![a] = [process |-> @.process + 1, counter |-> 1]]
    /\ role' = [role EXCEPT ![a] = "secondary"]
    /\ UNCHANGED <<clientVars, term, configs, won, config>>

-----------------------------------------------------------------------------
(* What the servers say.                                                   *)

NoHello ==
    [type |-> "Unknown", set_name |-> NoName, all_hosts |-> {}, me |-> NoAddress,
     primary |-> NoAddress, election_id |-> 0, set_version |-> 0, post_17 |-> FALSE,
     topology_version |-> NoVersion]

\* A server that knows that it is no member gives the reply of a ghost.
Hello(a) ==
    IF a \notin configs[config[a]]
    THEN [NoHello EXCEPT !.type = "RSGhost", !.topology_version = version[a]]
    ELSE [type |-> IF role[a] = "primary" THEN "RSPrimary" ELSE "RSSecondary",
          set_name |-> TheSet,
          all_hosts |-> configs[config[a]],
          me |-> a,
          primary |-> IF role[a] = "primary" THEN a ELSE NoAddress,
          election_id |-> IF role[a] = "primary" THEN won[a] ELSE 0,
          set_version |-> config[a],
          post_17 |-> TRUE,
          topology_version |-> version[a]]

IsMonitored(a) == a \in Present(description.servers)

Answer(a) ==
    /\ IsMonitored(a)
    /\ answer[a] = NoAnswer
    /\ answer' = [answer EXCEPT ![a] = Hello(a)]
    /\ UNCHANGED <<description, refusal, failures, term, configs, serverVars>>

\* An operation for the primary reaches a server that is none any more.
Refuse(a) ==
    /\ IsMonitored(a)
    /\ won[a] > 0 /\ role[a] # "primary" /\ refusal[a] = NoVersion
    /\ refusal' = [refusal EXCEPT ![a] = version[a]]
    /\ UNCHANGED <<description, answer, failures, term, configs, serverVars>>

-----------------------------------------------------------------------------
(* The client.                                                             *)

Processes(a, r) == description' = Update(description, a, r, 0)

\* process_check_result of a check that succeeded.
ProcessCheck(a) ==
    /\ answer[a] # NoAnswer
    /\ Processes(a, answer[a])
    /\ answer' = [answer EXCEPT ![a] = NoAnswer]
    /\ UNCHANGED <<refusal, failures, term, configs, serverVars>>

\* process_check_result of a check that failed; its answer is lost.
ProcessFailure(a) ==
    /\ IsMonitored(a) /\ failures < MaxFailures
    /\ failures' = failures + 1
    /\ Processes(a, NoHello)
    /\ answer' = [answer EXCEPT ![a] = NoAnswer]
    /\ UNCHANGED <<refusal, term, configs, serverVars>>

\* application_error_is_stale, as far as the topologyVersion decides it: unlike
\* an answer, a refusal says nothing new at the version that is already known.
IsStaleRefusal(current, incoming) ==
    /\ current.process = incoming.process
    /\ current.counter >= incoming.counter

\* handle_application_error of a command error "not writable primary".
ProcessRefusal(a) ==
    /\ refusal[a] # NoVersion
    /\ IF IsStaleRefusal(description.servers[a].topology_version, refusal[a])
       THEN UNCHANGED description
       ELSE Processes(a, [NoHello EXCEPT !.topology_version = refusal[a]])
    /\ refusal' = [refusal EXCEPT ![a] = NoVersion]
    /\ UNCHANGED <<answer, failures, term, configs, serverVars>>

Next ==
    \E a \in Addresses :
       \/ Elect(a) \/ StepDown(a) \/ Reconfigure(a) \/ Learn(a) \/ Restart(a)
       \/ Answer(a) \/ Refuse(a)
       \/ ProcessCheck(a) \/ ProcessFailure(a) \/ ProcessRefusal(a)

Spec == Init /\ [][Next]_vars

\* Monitors keep checking and lose finitely many answers; a primary that was
\* overtaken steps down and configurations spread.  Nobody has to be elected.
Fairness ==
    \A a \in Addresses :
       /\ WF_vars(Answer(a))
       /\ WF_vars(ProcessCheck(a))
       /\ WF_vars(ProcessRefusal(a))
       /\ WF_vars(IsOvertaken(a) /\ StepDown(a))
       /\ WF_vars(Learn(a))

FairSpec == Spec /\ Fairness

-----------------------------------------------------------------------------
(* Properties.                                                             *)

\* A client that has followed a primary never follows an older one again, however
\* late the older one's answers arrive and whatever it took for the primary in
\* between: the one it follows is of the last election it has heard of, and that
\* never becomes an earlier one.
FollowsTheLast ==
    /\ description'.max_election_id >= description.max_election_id
    /\ \A a \in Primaries(description'.servers) :
          description'.servers[a].election_id = description'.max_election_id

NeverAnOlderPrimary == [][FollowsTheLast]_vars

PrimaryOfNow == {a \in Addresses : role[a] = "primary"}

\* The client sees the replica set as it is.
Agrees ==
    /\ Primaries(description.servers) = PrimaryOfNow
    /\ PrimaryOfNow # {} =>
          /\ Present(description.servers) = Members
          /\ \A a \in Members \ PrimaryOfNow : description.servers[a].type = "RSSecondary"

\* When the replica set settles, the client comes to see it as it is.
Convergence == <>[]Agrees
=============================================================================
