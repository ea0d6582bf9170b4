--------------------------- MODULE GraphAdmission ---------------------------
(***************************************************************************)
(* How many nodes of one Run are claimed: the admission check of           *)
(* graph_scheduler.py and the budget reservation of graph_governance.py,   *)
(* as claim_ready and complete_attempt of graph_runtime.py use them.       *)
(*                                                                         *)
(* A claim counts, then takes a ready row under its conditional update,    *)
(* then reads the usage of the Run, and only at its end writes the usage   *)
(* back.  Nothing but the last write locks the Run.  A completion holds    *)
(* the Run's row (its checkpoint was written before) and is one step.      *)
(***************************************************************************)
EXTENDS Naturals, FiniteSets

CONSTANTS
    Tasks,           \* the node runs of the Run
    Claimants,       \* sessions in claim_ready
    MaxQueue,        \* max_queue_depth of the policy
    MaxConcurrency,  \* max_concurrency
    MaxCalls,        \* max_calls of the hard budget
    MaxTokens        \* max_tokens, reported by completions

ASSUME AdmissionAssumption ==
    /\ MaxQueue \in Nat \ {0} /\ MaxConcurrency \in Nat \ {0}
    /\ MaxCalls \in Nat /\ MaxTokens \in Nat
    /\ IsFiniteSet(Claimants)

VARIABLES
    queue,     \* tasks whose ready row is READY
    active,    \* tasks with a RUNNING attempt
    claimed,   \* tasks ever claimed
    held,      \* tasks put aside with the budget exhausted
    usage,     \* BUDGET_USAGE_JSON: calls and tokens
    review,    \* the Run is REVIEW_REQUIRED
    tokens,    \* history: tokens reported by completions
    raced,     \* history: some claim overlapped another write of the usage
    claim      \* per session: the claim in flight

admissionVars == <<queue, active, claimed, held, usage, review, tokens, raced, claim>>

Usage == [calls : Nat, tokens : Nat]
NoClaim == [stage |-> "idle"]
Claim == [stage : {"admitted", "taken"}, task : Tasks, seen : Usage]

AdmissionTypeOK ==
    /\ queue \subseteq Tasks /\ active \subseteq Tasks
    /\ claimed \subseteq Tasks /\ held \subseteq Tasks
    /\ usage \in Usage /\ tokens \in Nat
    /\ review \in BOOLEAN /\ raced \in BOOLEAN
    /\ claim \in [Claimants -> Claim \cup {NoClaim}]

AdmissionInit ==
    /\ queue \in {{}, Tasks}   \* a Run with nothing ready, or everything
    /\ active = {} /\ claimed = {} /\ held = {}
    /\ usage = [calls |-> 0, tokens |-> 0] /\ tokens = 0
    /\ review = FALSE /\ raced = FALSE
    /\ claim = [c \in Claimants |-> NoClaim]

-----------------------------------------------------------------------------

AdmitsShallow(depth, running) == depth + 1 < MaxQueue /\ running < MaxConcurrency
(* admission_decision, without rate and scoped quotas, which are the same   *)
(* comparison on other counters.                                            *)
Admits(depth, running) == depth < MaxQueue /\ running < MaxConcurrency

(* budget_decision on the usage a call would leave. *)
OverBudget(u) == u.calls > MaxCalls \/ u.tokens > MaxTokens

(* A task the policy refuses is only put off for a while. *)
Admit(c, t) ==
    /\ claim[c] = NoClaim /\ ~review
    /\ t \in queue /\ Admits(Cardinality(queue), Cardinality(active))
    /\ claim' = [claim EXCEPT ![c] = [stage |-> "admitted", task |-> t, seen |-> usage]]
    /\ UNCHANGED <<queue, active, claimed, held, usage, review, tokens, raced>>

(* The ready row is taken, or was taken by another claim; the usage is read *)
(* with the row held but the Run not locked.                                *)
Take(c) ==
    LET t == claim[c].task IN
    /\ claim[c].stage = "admitted"
    /\ IF t \in queue
       THEN /\ queue' = queue \ {t}
            /\ claim' = [claim EXCEPT ![c].stage = "taken", ![c].seen = usage]
       ELSE /\ claim' = [claim EXCEPT ![c] = NoClaim]
            /\ UNCHANGED queue
    /\ UNCHANGED <<active, claimed, held, usage, review, tokens, raced>>

OthersTaken(c) == \E d \in Claimants \ {c} : claim[d].stage = "taken"

WithTokens(u, n) == [u EXCEPT !.tokens = @ + n]
Forgotten(u) == u
(* The increment a claim reserves. *)
WithCall(u) == [u EXCEPT !.calls = @ + 1]

(* The end of the claim, in the transaction of the take. *)
Reserve(c) ==
    LET t == claim[c].task
        u == WithCall(claim[c].seen)
    IN
    /\ claim[c].stage = "taken"
    /\ IF OverBudget(u)
       THEN /\ held' = held \cup {t} /\ review' = TRUE
            /\ UNCHANGED <<active, claimed, usage, raced>>
       ELSE /\ active' = active \cup {t} /\ claimed' = claimed \cup {t}
            /\ usage' = u
            /\ raced' = (raced \/ OthersTaken(c))
            /\ UNCHANGED <<held, review>>
    /\ claim' = [claim EXCEPT ![c] = NoClaim]
    /\ UNCHANGED <<queue, tokens>>

(* The transaction of a claim dies and puts the row back. *)
Abort(c) ==
    /\ claim[c] # NoClaim
    /\ queue' = IF claim[c].stage = "taken" THEN queue \cup {claim[c].task} ELSE queue
    /\ claim' = [claim EXCEPT ![c] = NoClaim]
    /\ UNCHANGED <<active, claimed, held, usage, review, tokens, raced>>

(* complete_attempt with n tokens of evidence: _record_budget_completion_tx. *)
Complete(t, n) ==
    LET u == WithTokens(usage, n) IN
    /\ t \in active
    /\ active' = active \ {t}
    /\ usage' = u /\ tokens' = tokens + n
    /\ review' = (review \/ (n > 0 /\ OverBudget(u)))
    /\ raced' = (raced \/ (n > 0 /\ \E c \in Claimants : claim[c].stage = "taken"))
    /\ UNCHANGED <<queue, claimed, held, claim>>

AdmissionNext ==
    \/ \E c \in Claimants :
         (\E t \in Tasks : Admit(c, t)) \/ Take(c) \/ Reserve(c) \/ Abort(c)
    \/ \E t \in Tasks, n \in {0, 1} : Complete(t, n)

AdmissionSpec == AdmissionInit /\ [][AdmissionNext]_admissionVars

(* Workers keep claiming and finish what they claim.  A claim that loses its *)
(* transaction is tried again, and does not lose it for ever.               *)
AdmissionFairness ==
    /\ WF_admissionVars(\E c \in Claimants, t \in Tasks : Admit(c, t))
    /\ SF_admissionVars(\E c \in Claimants : Take(c))
    /\ SF_admissionVars(\E c \in Claimants : Reserve(c))
    /\ WF_admissionVars(\E t \in Tasks, n \in {0, 1} : Complete(t, n))

-----------------------------------------------------------------------------
(* Properties *)

(* Claims count before they take, so a limit can be passed by claims that   *)
(* counted together, and by no more than those.                             *)
ConcurrencyBounded ==
    Cardinality(active) < MaxConcurrency + Cardinality(Claimants)

(* The recorded usage is what was claimed and reported, as long as no claim *)
(* held an old usage while another write came; then updates are lost, and   *)
(* only lost: the usage never runs ahead of the work.                       *)
UsageIsExact ==
    /\ ~raced => usage = [calls |-> Cardinality(claimed), tokens |-> tokens]
    /\ usage.calls <= Cardinality(claimed) /\ usage.tokens <= tokens

(* Admission and budget, without a lock of the Run. *)
AdmissionHolds == ConcurrencyBounded /\ UsageIsExact

(* A queue below the policy's depth drains: every task is claimed in the    *)
(* end, or the Run stops for its budget.                                    *)
QueueDrains == queue # {} ~> claimed = Tasks \/ review
=============================================================================
