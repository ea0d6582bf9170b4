---------------------------- MODULE AdminUpgrade ----------------------------
(***************************************************************************)
(* The rollout of one uploaded release package, from staging to the Skill  *)
(* that agents switch to: the upgrade functions of admin_management.py     *)
(* with the quorum of admin_ha.py.                                         *)
(*                                                                         *)
(* Every operation locks the plan and is one step, except the advance of a *)
(* node: it locks its own node only, so advances of two nodes interleave   *)
(* (AdvanceOpen, AdvanceCount, AdvanceCommit).                             *)
(***************************************************************************)
EXTENDS Naturals, FiniteSets, FiniteSetsExt

CONSTANTS
    Managers,        \* humans who may manage the platform
    Voters,          \* agents that are or become voting members
    VotingWeight,    \* their weights, valid for validate_weights
    MemberId,        \* the member id of an agent, the key of quorum's snapshot
    UpgradeNodes,    \* nodes that may be rolled out
    SkillAgents,     \* agents the Skill of the package may be sent to
    MaxVoteTerm      \* bound: terms of the group

ASSUME UpgradeAssumption ==
    /\ IsFiniteSet(Voters) /\ VotingWeight \in [Voters -> Nat \ {0}] /\ DOMAIN MemberId = Voters
    /\ MaxVoteTerm \in Nat \ {0}

VARIABLES
    plan,        \* CX_UPGRADE_PLANS: status, submitter, is the signature verified,
                 \* scheduled by its upload, and (history) the snapshot of its quorum
    verdicts,    \* CX_UPGRADE_APPROVALS of humans: <<manager, decision>>
    ballots,     \* ... and of admin agents: the last ballot of each
    voting,      \* active voting members, who are never removed
    voteTerm,    \* CURRENT_TERM of the group
    node,        \* CX_UPGRADE_NODES.STATE
    advance,     \* per node: the advance in flight
    skill,       \* CX_SKILL_DISTRIBUTION: per agent ACTIVATION_STATE of its row, if it has one
    overtaken    \* history: nodes changed in a way an open advance did not see

upgradeVars == <<plan, verdicts, ballots, voting, voteTerm, node, advance, skill, overtaken>>

PlanStatus == {"NONE", "STAGED", "PREFLIGHT", "HUMAN_APPROVAL", "REJECTED", "QUORUM_APPROVAL",
               "ROLLING", "AUTO_SCHEDULED", "SKILL_DISTRIBUTION"}
NodeStates == {"NONE", "PENDING", "DRAINING", "MIGRATING", "HEALTHY"}
NoBallot == [approves |-> FALSE, term |-> 0]
NoAdvance == [stage |-> "none", complete |-> FALSE]

UpgradeTypeOK ==
    /\ plan \in [status : PlanStatus, by : SUBSET Managers, verified : BOOLEAN, auto : BOOLEAN,
                electors : SUBSET Voters]
    /\ verdicts \subseteq (Managers \X BOOLEAN)
    /\ ballots \in [Voters -> [approves : BOOLEAN, term : 0..MaxVoteTerm]]
    /\ voting \subseteq Voters
    /\ voteTerm \in 1..MaxVoteTerm
    /\ node \in [UpgradeNodes -> NodeStates]
    /\ advance \in [UpgradeNodes -> [stage : {"none", "open", "counted"}, complete : BOOLEAN]]
    /\ skill \in [SkillAgents -> {"none", "OLD_VERSION", "ACTIVE"}]
    /\ overtaken \in BOOLEAN

UpgradeInit ==
    /\ plan = [status |-> "NONE", by |-> {}, verified |-> FALSE, auto |-> FALSE, electors |-> {}]
    /\ verdicts = {}
    /\ ballots = [a \in Voters |-> NoBallot]
    /\ voting \in {{}, Voters}
    /\ voteTerm = 1
    /\ node = [n \in UpgradeNodes |-> "NONE"]
    /\ advance = [n \in UpgradeNodes |-> NoAdvance]
    /\ skill = [a \in SkillAgents |-> "none"]
    /\ overtaken = FALSE

rolloutVars == <<node, advance, skill, overtaken>>
voteVars == <<verdicts, ballots, voting, voteTerm>>

-----------------------------------------------------------------------------
(* Staging and approval *)

(* stage_upgrade_archive, the row; uploading the digest again finds it. *)
Stage(h, signed) ==
    /\ plan.status = "NONE"
    /\ plan' = [status |-> "STAGED", by |-> {h}, verified |-> signed, auto |-> FALSE, electors |-> {}]
    /\ UNCHANGED <<voteVars, rolloutVars>>

(* The notice of the Skill: sent again, what the agent runs stays. *)
SentTo(S) == skill' = [a \in SkillAgents |-> IF a \in S /\ skill[a] = "none" THEN "OLD_VERSION" ELSE skill[a]]

(* auto_schedule_upgrade, at the end of every upload of a signed package, in *)
(* a transaction of its own and whatever became of the plan meanwhile: the   *)
(* nodes it finds are queued, and every active agent is sent the Skill.      *)
AutoSchedule ==
    /\ plan.verified /\ plan.status \notin {"NONE", "AUTO_SCHEDULED"}
    /\ plan' = [plan EXCEPT !.status = "AUTO_SCHEDULED", !.auto = TRUE]
    /\ \E found \in SUBSET UpgradeNodes \ {{}} :
         node' = [n \in UpgradeNodes |->
                    IF n \in found /\ node[n] = "NONE" THEN "PENDING" ELSE node[n]]
    /\ \E active \in SUBSET SkillAgents : SentTo(active)
    /\ overtaken' = (overtaken \/ \E n \in UpgradeNodes : advance[n] # NoAdvance)
    /\ UNCHANGED <<voteVars, advance>>

Preflight ==
    /\ plan.status = "STAGED" /\ plan.verified
    /\ plan' = [plan EXCEPT !.status = "PREFLIGHT"]
    /\ UNCHANGED <<voteVars, rolloutVars>>

MayDecide(h) == h \notin plan.by

ApproveUpgrade(h, approves) ==
    /\ plan.status = "PREFLIGHT" /\ MayDecide(h)
    /\ verdicts' = {v \in verdicts : v[1] # h} \cup {<<h, approves>>}
    /\ plan' = [plan EXCEPT !.status = IF approves THEN "HUMAN_APPROVAL" ELSE "REJECTED"]
    /\ UNCHANGED <<ballots, voting, voteTerm, rolloutVars>>

-----------------------------------------------------------------------------
(* The quorum *)

CastInAnyTerm(b) == {a \in Voters : b[a].term > 0}
(* Only ballots of the current term are read. *)
CastNow(b) == {a \in Voters : b[a].term = voteTerm}

WeightOf(S) == FoldSet(LAMBDA a, sum : sum + VotingWeight[a], 0, S)

(* quorum: the snapshot is keyed by member id, a ballot carries the agent id. *)
Accepted(b) == {a \in voting : MemberId[a] \in {v \in CastNow(b) : b[v].approves}}

Quorum(b) ==
    /\ 2 * Cardinality(Accepted(b)) > Cardinality(voting)
    /\ 2 * WeightOf(Accepted(b)) > WeightOf(voting)

(* vote_upgrade, with the term the agent believes is current. *)
Vote(a, approves) ==
    LET cast == [ballots EXCEPT ![a] = [approves |-> approves, term |-> voteTerm]] IN
    /\ plan.status = "HUMAN_APPROVAL" /\ a \in voting
    /\ ballots' = cast
    /\ plan' = [plan EXCEPT !.status = IF Quorum(cast) THEN "QUORUM_APPROVAL" ELSE "HUMAN_APPROVAL",
                            !.electors = IF Quorum(cast) THEN voting ELSE {}]
    /\ UNCHANGED <<verdicts, voting, voteTerm, rolloutVars>>

(* The group elects a leader, or admits another member. *)
NewTerm ==
    /\ voteTerm < MaxVoteTerm
    /\ voteTerm' = voteTerm + 1
    /\ UNCHANGED <<plan, verdicts, ballots, voting, rolloutVars>>

VoterJoins(a) ==
    /\ a \notin voting
    /\ voting' = voting \cup {a}
    /\ UNCHANGED <<plan, verdicts, ballots, voteTerm, rolloutVars>>

-----------------------------------------------------------------------------
(* The rollout *)

StartRollout ==
    /\ plan.status = "QUORUM_APPROVAL"
    /\ plan' = [plan EXCEPT !.status = "ROLLING"]
    /\ \E requested \in SUBSET UpgradeNodes \ {{}} :
         node' = [n \in UpgradeNodes |->
                    IF n \in requested /\ node[n] = "NONE" THEN "PENDING" ELSE node[n]]
    /\ UNCHANGED <<voteVars, advance, skill, overtaken>>

NextState == [PENDING |-> "DRAINING", DRAINING |-> "MIGRATING", MIGRATING |-> "HEALTHY"]
Busy(n) == node[n] \in {"DRAINING", "MIGRATING"}

(* As far as this transaction sees, no other node is on its way. *)
MayDrain(n) == \A k \in UpgradeNodes \ {n} : ~Busy(k)

(* _advance_upgrade_node: the node row is locked until the commit. *)
AdvanceOpen(n) ==
    /\ advance[n] = NoAdvance /\ node[n] \in DOMAIN NextState
    /\ node[n] = "PENDING" => MayDrain(n)
    /\ advance' = [advance EXCEPT ![n].stage = "open"]
    /\ overtaken' = (overtaken \/ (node[n] = "PENDING" /\
                        \E k \in UpgradeNodes \ {n} : advance[k] # NoAdvance /\ node[k] = "PENDING"))
    /\ UNCHANGED <<plan, voteVars, node, skill>>

(* It reads the states of all nodes, its own already written. *)
AdvanceCount(n) ==
    /\ advance[n].stage = "open"
    /\ advance' = [advance EXCEPT ![n] =
         [stage |-> "counted",
          complete |-> /\ NextState[node[n]] = "HEALTHY"
                       /\ \A k \in UpgradeNodes \ {n} : node[k] \in {"NONE", "HEALTHY"}]]
    /\ UNCHANGED <<plan, voteVars, node, skill, overtaken>>

AfterAdvance(complete) == IF complete THEN "SKILL_DISTRIBUTION" ELSE "ROLLING"

(* The plan is written whatever its status. *)
AdvanceCommit(n) ==
    /\ advance[n].stage = "counted"
    /\ node' = [node EXCEPT ![n] = NextState[@]]
    /\ plan' = [plan EXCEPT !.status = AfterAdvance(advance[n].complete)]
    /\ advance' = [advance EXCEPT ![n] = NoAdvance]
    /\ UNCHANGED <<voteVars, skill, overtaken>>

AdvanceAborts(n) ==
    /\ advance[n] # NoAdvance
    /\ advance' = [advance EXCEPT ![n] = NoAdvance]
    /\ UNCHANGED <<plan, voteVars, node, skill, overtaken>>

-----------------------------------------------------------------------------
(* The Skill *)

(* distribute_upgrade_skill, to the agents a manager names. *)
DistributeSkill(named) ==
    /\ plan.status = "SKILL_DISTRIBUTION" /\ plan.verified
    /\ SentTo(named)
    /\ UNCHANGED <<plan, voteVars, node, advance, overtaken>>

(* acknowledge_upgrade_skill: the agent tells whether the Skill verified and *)
(* whether it is at a safe point, and runs the new one if both.              *)
AcknowledgeSkill(a, verified, safe) ==
    /\ skill[a] # "none"
    /\ skill' = [skill EXCEPT ![a] = IF verified /\ safe THEN "ACTIVE" ELSE "OLD_VERSION"]
    /\ UNCHANGED <<plan, voteVars, node, advance, overtaken>>

UpgradeNext ==
    \/ \E h \in Managers, yes \in BOOLEAN : Stage(h, yes) \/ ApproveUpgrade(h, yes)
    \/ AutoSchedule \/ Preflight \/ NewTerm \/ StartRollout
    \/ \E a \in Voters : VoterJoins(a) \/ \E yes \in BOOLEAN : Vote(a, yes)
    \/ \E n \in UpgradeNodes :
         AdvanceOpen(n) \/ AdvanceCount(n) \/ AdvanceCommit(n) \/ AdvanceAborts(n)
    \/ \E named \in SUBSET SkillAgents \ {{}} : DistributeSkill(named)
    \/ \E a \in SkillAgents, verified, safe \in BOOLEAN : AcknowledgeSkill(a, verified, safe)

UpgradeSpec == UpgradeInit /\ [][UpgradeNext]_upgradeVars

-----------------------------------------------------------------------------
(* Properties *)

Rolling == \E n \in UpgradeNodes : node[n] # "NONE"
Sent == \E a \in SkillAgents : skill[a] # "none"

(* No unsigned package is rolled out or has its Skill sent to an agent, and *)
(* one that was not scheduled by its upload was approved by a human other   *)
(* than the submitter and, in a single term, by most of the voters holding  *)
(* most of the weight.                                                      *)
RolloutIsApproved ==
    Rolling \/ Sent =>
        /\ plan.verified
        /\ ~plan.auto =>
             /\ \E v \in verdicts : v[2] /\ v[1] \notin plan.by
             /\ \E t \in 1..MaxVoteTerm :
                  LET For == {a \in plan.electors : ballots[a] = [approves |-> TRUE, term |-> t]} IN
                  /\ 2 * Cardinality(For) > Cardinality(plan.electors)
                  /\ 2 * WeightOf(For) > WeightOf(plan.electors)

(* One node at a time leaves service, unless two drains opened before       *)
(* either was committed, which the code does not prevent.                   *)
OneNodeAtATime ==
    ~overtaken => Cardinality({n \in UpgradeNodes : Busy(n)}) <= 1

(* A rollout that its upload did not schedule reaches the agents only once  *)
(* every node of it is healthy, and no rollout is closed before: no advance *)
(* that counted earlier ends it with a node still under way.  A scheduled   *)
(* one sends the Skill at once, before its first node drains; an upload     *)
(* that adds nodes while an advance is open escapes this.                   *)
SkillsAfterNodes ==
    (plan.status = "SKILL_DISTRIBUTION" \/ (Sent /\ ~plan.auto)) /\ ~overtaken =>
        \A n \in UpgradeNodes : node[n] \in {"NONE", "HEALTHY"}

(* The rollout of a release, from its approval to the Skill. *)
RolloutIsGoverned == RolloutIsApproved /\ OneNodeAtATime /\ SkillsAfterNodes
=============================================================================
