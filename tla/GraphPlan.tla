----------------------------- MODULE GraphPlan -----------------------------
(***************************************************************************)
(* The compiled plan a Graph Run executes, and the pure decisions the      *)
(* runtime takes from it: when a Join releases its target, and whether a   *)
(* failed attempt is retried.  One edge per pair of nodes; an edge is      *)
(* identified by its source where a Join records it.                       *)
(***************************************************************************)
EXTENDS Naturals, FiniteSets

CONSTANTS
    Nodes,   \* the node keys of the plan
    Entry,   \* entry_node of the plan
    Plan     \* [Nodes -> PlanNode]: the rows of node_index and join_specs

Strategies == {"ALL", "ANY", "N_OF_M", "QUORUM", "FIRST_SUCCESS"}

SideEffects == {"NONE", "DB_TRANSACTIONAL", "IDEMPOTENT_EXTERNAL", "NON_IDEMPOTENT"}

JoinSpecs == [strategy : Strategies \cup {"NONE"}, expected : Nat, required : Nat]

NoJoin == [strategy |-> "NONE", expected |-> 0, required |-> 0]

(***************************************************************************)
(* routes: the sets of targets the enabled edges of a node may select (one *)
(* set for FIXED edges, several when an edge carries an expression);       *)
(* wait: entering the node opens a wait subscription; timeout: that        *)
(* subscription has a deadline; cyclic: the node lies on a cycle.          *)
(***************************************************************************)
PlanNode ==
    [routes : SUBSET SUBSET Nodes, exit : BOOLEAN, wait : BOOLEAN, timeout : BOOLEAN,
     cyclic : BOOLEAN, join : JoinSpecs, effect : SideEffects, maxAttempts : Nat]

ASSUME PlanAssumption == Entry \in Nodes /\ Plan \in [Nodes -> PlanNode]

IsJoin(n) == Plan[n].join.strategy # "NONE"

(* Targets of any edge that leaves n, selected by its condition or not. *)
Targets(n) == UNION Plan[n].routes

JoinReadyEarly(spec, accepted) == accepted >= spec.required
(* _ensure_join_state_tx: does this many distinct inputs release the Join? *)
JoinReady(spec, accepted) ==
    \/ spec.strategy = "ALL" /\ accepted >= spec.expected
    \/ spec.strategy \in {"ANY", "FIRST_SUCCESS"} /\ accepted >= 1
    \/ spec.strategy = "N_OF_M" /\ accepted >= spec.required
    \/ /\ spec.strategy = "QUORUM"
       /\ accepted >= spec.required
       /\ accepted >= (spec.expected \div 2) + 1

(* side_effect_retry_decision *)
Retries(n, used) == Plan[n].effect # "NON_IDEMPOTENT" /\ used < Plan[n].maxAttempts

FailureAsReported(uncertain) == IF uncertain THEN "UNCERTAIN" ELSE "FAILED"
(* The status a node and its Run end in when the failure is not retried. *)
FailureStatus(uncertain) == IF uncertain THEN "REVIEW_REQUIRED" ELSE "FAILED"
=============================================================================
