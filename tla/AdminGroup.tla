----------------------------- MODULE AdminGroup -----------------------------
(***************************************************************************)
(* The group of Admin Agents: enrollment, weights and the leader, from     *)
(* admin_management.py with the decisions of admin_ha.py.                  *)
(*                                                                         *)
(* Every operation is one transaction that locks the rows it decides on,   *)
(* and one that raises leaves nothing behind.  The fencing token of the    *)
(* group moves with its term, so one number stands for both.               *)
(***************************************************************************)
EXTENDS Naturals, FiniteSets, FiniteSetsExt

CONSTANTS
    Admins,     \* agents that may become members
    Humans,     \* platform managers
    Weights,    \* weights they may give
    Platform,   \* the agent the deployment installs
    NoAdmin,    \* no leader yet
    MaxTerm     \* bound: elections

ASSUME GroupAssumption ==
    /\ IsFiniteSet(Admins) /\ Weights \subseteq Nat \ {0}
    /\ Platform \in Admins /\ NoAdmin \notin Admins /\ MaxTerm \in Nat

VARIABLES
    member,    \* CX_ADMIN_ENROLLMENTS and CX_ADMIN_AGENT_MEMBERS of an agent
    group,     \* CX_ADMIN_AGENT_GROUPS: term, leader, lease
    elected    \* CX_ADMIN_LEADER_EVIDENCE: <<term, leader>>

groupVars == <<member, group, elected>>

MemberStates == {"NONE", "CANDIDATE", "EXPIRED", "OBSERVATION", "ACTIVE"}
Unknown == [state |-> "NONE", by |-> {}, weight |-> 1]
Installed == [state |-> "ACTIVE", by |-> {}, weight |-> 5]

GroupTypeOK ==
    /\ member \in [Admins -> [state : MemberStates, by : SUBSET Humans, weight : Nat]]
    /\ group \in [term : 0..MaxTerm, leader : Admins \cup {NoAdmin}, leased : BOOLEAN]
    /\ elected \subseteq (1..MaxTerm) \X Admins

(* initialize; the platform's own agent votes from the start, if it is there. *)
GroupInit ==
    /\ \E there \in {{}, {Platform}} :
         member = [a \in Admins |-> IF a \in there THEN Installed ELSE Unknown]
    /\ group = [term |-> 0, leader |-> NoAdmin, leased |-> FALSE]
    /\ elected = {}

-----------------------------------------------------------------------------

Voting(m) == {a \in Admins : m[a].state = "ACTIVE"}

ValidLoosely(m) == \A a, b \in Voting(m) : a # b => m[a].weight # m[b].weight
WeightSum(m, S) == FoldSet(LAMBDA b, sum : sum + m[b].weight, 0, S)
(* validate_weights: distinct weights, and of three voters none outweighs   *)
(* the other two.                                                           *)
ValidWeights(m) ==
    LET V == Voting(m) IN
    /\ \A a, b \in V : a # b => m[a].weight # m[b].weight
    /\ Cardinality(V) = 3 =>
         \A a \in V : m[a].weight < WeightSum(m, V \ {a})

(* create_admin_enrollment *)
EnrollAdmin(h, a) ==
    /\ member[a].state \in {"NONE", "EXPIRED"}
    /\ member' = [member EXCEPT ![a].state = "CANDIDATE", ![a].by = {h}]
    /\ UNCHANGED <<group, elected>>

EnrollmentExpires(a) ==
    /\ member[a].state = "CANDIDATE"
    /\ member' = [member EXCEPT ![a].state = "EXPIRED"]
    /\ UNCHANGED <<group, elected>>

(* observe_admin_enrollment, with a credential that proves the identity. *)
ObserveAdmin(a) ==
    /\ member[a].state = "CANDIDATE"
    /\ member' = [member EXCEPT ![a].state = "OBSERVATION"]
    /\ UNCHANGED <<group, elected>>

(* approve_admin_member *)
ApproveAdmin(h, a, w) ==
    LET admitted == [member EXCEPT ![a].state = "ACTIVE", ![a].weight = w] IN
    /\ member[a].state = "OBSERVATION" /\ h \notin member[a].by
    /\ ValidWeights(admitted)
    /\ member' = admitted
    /\ UNCHANGED <<group, elected>>

(* set_member_weight; a member under observation has a weight as well. *)
SetWeight(a, w) ==
    LET changed == [member EXCEPT ![a].weight = w] IN
    /\ member[a].state \in {"OBSERVATION", "ACTIVE"} /\ member[a].weight # w
    /\ ValidWeights(changed)
    /\ member' = changed
    /\ UNCHANGED <<group, elected>>

(* leader_candidate *)
Heaviest(a) == a \in Voting(member) /\ \A b \in Voting(member) : member[b].weight <= member[a].weight

NextTerm(t) == t + 1

(* acquire_leader: also while the lease of another leader runs. *)
AcquireLeader(a) ==
    LET term == NextTerm(group.term) IN
    /\ ValidWeights(member) /\ Heaviest(a)
    /\ term <= MaxTerm
    /\ group' = [term |-> term, leader |-> a, leased |-> TRUE]
    /\ elected' = elected \cup {<<term, a>>}
    /\ UNCHANGED member

LeaderLeaseExpires ==
    /\ group.leased
    /\ group' = [group EXCEPT !.leased = FALSE]
    /\ UNCHANGED <<member, elected>>

GroupNext ==
    \/ \E a \in Admins :
         \/ \E h \in Humans : EnrollAdmin(h, a) \/ (\E w \in Weights : ApproveAdmin(h, a, w))
         \/ EnrollmentExpires(a) \/ ObserveAdmin(a) \/ AcquireLeader(a)
         \/ \E w \in Weights : SetWeight(a, w)
    \/ LeaderLeaseExpires

GroupSpec == GroupInit /\ [][GroupNext]_groupVars

-----------------------------------------------------------------------------
(* Properties *)

(* No single admin agent decides alone: of three voters any two are a       *)
(* majority of the weight, however members joined and weights were changed. *)
NoDominantAdmin ==
    LET V == Voting(member) IN
    Cardinality(V) = 3 =>
        \A a, b, c \in V : Cardinality({a, b, c}) = 3 =>
            2 * (member[a].weight + member[b].weight)
                > member[a].weight + member[b].weight + member[c].weight

(* A term, and with it a fencing token, names one leader, through changes   *)
(* of weight, expiry and elections during a running lease.                  *)
TermNamesOneLeader == \A e, f \in elected : e[1] = f[1] => e[2] = f[2]

(* The heaviest voter is never ambiguous, so the succession is determined:  *)
(* at any moment at most one agent can be elected.                          *)
SuccessionIsDetermined == \A a, b \in Admins : Heaviest(a) /\ Heaviest(b) => a = b

(* Leadership of the group, and what it rests on. *)
LeadershipHolds == NoDominantAdmin /\ TermNamesOneLeader /\ SuccessionIsDetermined
=============================================================================
