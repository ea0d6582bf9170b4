------------------------------ MODULE Barriers ------------------------------
(***************************************************************************)
(* A governance barrier (identity_api.py, governed_contracts.py): the       *)
(* participants of a snapshot arrive, the barrier becomes READY at its      *)
(* quorum, a human releases or rejects it, and an operator can recover one  *)
(* that does not get there.                                                 *)
(*                                                                         *)
(* Arrivals hold the row lock of the barrier.  A recovery reads the barrier *)
(* and the arrivals, decides, and later locks the row to write: it compares *)
(* the status and the retry count with what it read, and nothing else.      *)
(* Restoring a checkpoint also writes the Graph Run the barrier belongs to. *)
(***************************************************************************)
EXTENDS Naturals, FiniteSets

CONSTANTS
    Seats,          \* roles of the participant snapshot, one member each
    Required,       \* required_roles of the policy
    Operators,      \* calls of recover_barrier
    BarrierQuorum,
    MaxRecoveries   \* MAX_RETRIES

ASSUME BarriersAssumption ==
    /\ Required \subseteq Seats
    /\ BarrierQuorum \in 1..Cardinality(Seats) /\ MaxRecoveries \in Nat

VARIABLES
    barrier,    \* STATUS and RETRY_COUNT of CX_BARRIERS
    arrivals,   \* CX_BARRIER_ARRIVALS: the roles that have arrived
    late,       \* TIMEOUT_AT has passed
    recovery,   \* per operator: what its call has read and decided
    graphRun,   \* the Graph Run: status, and whether a queue row or a wait can move it
    decided     \* history: decisions taken on the barrier

barrierVars == <<barrier, arrivals, late, recovery, graphRun, decided>>

BarrierStates == {"WAITING", "READY", "REVIEW_REQUIRED", "RELEASED", "REJECTED"}
Recoveries == {"RETRY", "RESTORE_CHECKPOINT", "SUBSTITUTE", "HUMAN_DECISION_REQUIRED", "REVIEW"}
NoRecovery == [action |-> "none", status |-> "WAITING", retries |-> 0]

BarriersTypeOK ==
    /\ barrier \in [status : BarrierStates, retries : 0..MaxRecoveries]
    /\ arrivals \subseteq Seats
    /\ late \in BOOLEAN
    /\ \A o \in Operators : recovery[o] = NoRecovery \/ recovery[o].action \in Recoveries
    /\ graphRun \in [status : {"RUNNING", "WAITING", "SUCCEEDED", "FAILED", "CANCELLED"},
                     work : BOOLEAN]
    /\ decided \in 0..2

BarriersInit ==
    /\ barrier = [status |-> "WAITING", retries |-> 0]
    /\ arrivals = {}
    /\ late \in BOOLEAN
    /\ recovery = [o \in Operators |-> NoRecovery]
    /\ graphRun = [status |-> "RUNNING", work |-> TRUE]
    /\ decided = 0

Reached(arrived) == Cardinality(arrived) >= BarrierQuorum /\ Required \subseteq arrived

-----------------------------------------------------------------------------
(* Arrivals and decisions *)

(* The lock makes the duplicate check, the insert and the evaluation one    *)
(* step; a repeated arrival is accepted again and evaluates again.          *)
Arrive(s) ==
    /\ barrier.status = "WAITING"
    /\ arrivals' = arrivals \cup {s}
    /\ barrier' = [barrier EXCEPT !.status = IF Reached(arrivals') THEN "READY" ELSE @]
    /\ UNCHANGED <<late, recovery, graphRun, decided>>

Decide ==
    /\ barrier.status \in {"WAITING", "READY", "REVIEW_REQUIRED"}
    /\ \E s \in {"RELEASED", "REJECTED"} : barrier' = [barrier EXCEPT !.status = s]
    /\ decided' = decided + 1
    /\ UNCHANGED <<arrivals, late, recovery, graphRun>>

Deadline ==
    /\ ~late /\ late' = TRUE
    /\ UNCHANGED <<barrier, arrivals, recovery, graphRun, decided>>

-----------------------------------------------------------------------------
(* Recovery *)

(* barrier_recovery_decision: retry, then the checkpoint, then a            *)
(* substitute, then a human.  A role that has not arrived counts as failed. *)
Missing == Required \ arrivals
RetriesLeftOver == barrier.retries <= MaxRecoveries
RetriesLeft == barrier.retries < MaxRecoveries
StagedAction(expired, checkpoint, substitute) ==
    IF ~expired /\ Missing = {}
    THEN IF Cardinality(arrivals) >= BarrierQuorum THEN "REVIEW" ELSE "WAIT"
    ELSE IF ~expired /\ RetriesLeft THEN "RETRY"
    ELSE IF checkpoint THEN "RESTORE_CHECKPOINT"
    ELSE IF substitute THEN "SUBSTITUTE" ELSE "HUMAN_DECISION_REQUIRED"

(* Asking for a human counts as a timeout and must come out as that; a      *)
(* substitute needs a failed role to stand in for.                          *)
ReadBarrier(o) ==
    /\ recovery[o] = NoRecovery
    /\ barrier.status \notin {"RELEASED", "REJECTED"}
    /\ \E human, checkpoint, substitute \in BOOLEAN :
         LET action == StagedAction(late \/ human, checkpoint, substitute) IN
             /\ action # "WAIT"
             /\ human => action = "HUMAN_DECISION_REQUIRED"
             /\ substitute => Missing # {}
             /\ recovery' = [recovery EXCEPT ![o] =
                  [action |-> action, status |-> barrier.status, retries |-> barrier.retries]]
    /\ UNCHANGED <<barrier, arrivals, late, graphRun, decided>>

NextStatus(action) ==
    IF action \in {"RETRY", "RESTORE_CHECKPOINT", "SUBSTITUTE"} THEN "WAITING" ELSE "REVIEW_REQUIRED"

RetriesOnly(o) == barrier.retries = recovery[o].retries
Unchanged(o) == barrier.status = recovery[o].status /\ barrier.retries = recovery[o].retries

(* The Run becomes WAITING whatever it was, unless it SUCCEEDED or was      *)
(* CANCELLED; its queue and its waits stay as they are.                     *)
RestoreRun ==
    /\ graphRun.status \notin {"SUCCEEDED", "CANCELLED"}
    /\ graphRun' = [graphRun EXCEPT !.status = "WAITING"]

(* A substitution is written into POLICY_JSON; the snapshot column, which   *)
(* says who may arrive, stays as it was.                                    *)
PersistRecovery(o) ==
    /\ recovery[o] # NoRecovery /\ Unchanged(o)
    /\ barrier' = [status |-> NextStatus(recovery[o].action),
                   retries |-> recovery[o].retries + (IF recovery[o].action = "RETRY" THEN 1 ELSE 0)]
    /\ IF recovery[o].action = "RESTORE_CHECKPOINT" THEN RestoreRun ELSE UNCHANGED graphRun
    /\ recovery' = [recovery EXCEPT ![o] = NoRecovery]
    /\ UNCHANGED <<arrivals, late, decided>>

(* The row changed meanwhile, the Run has ended, or the call dies. *)
RecoveryEnds(o) ==
    /\ recovery[o] # NoRecovery
    /\ recovery' = [recovery EXCEPT ![o] = NoRecovery]
    /\ UNCHANGED <<barrier, arrivals, late, graphRun, decided>>

-----------------------------------------------------------------------------
(* What the Graph Runtime does to its Run meanwhile: a Run that is RUNNING  *)
(* has work queued and one that is WAITING an open wait, until it ends.     *)
RunMoves ==
    /\ graphRun.work
    /\ \/ \E s \in {"RUNNING", "WAITING"} \ {graphRun.status} : graphRun' = [status |-> s, work |-> TRUE]
       \/ \E s \in {"SUCCEEDED", "FAILED", "CANCELLED"} : graphRun' = [status |-> s, work |-> FALSE]
    /\ UNCHANGED <<barrier, arrivals, late, recovery, decided>>

BarriersNext ==
    \/ \E s \in Seats : Arrive(s)
    \/ Decide \/ Deadline \/ RunMoves
    \/ \E o \in Operators : ReadBarrier(o) \/ PersistRecovery(o) \/ RecoveryEnds(o)

BarriersSpec == BarriersInit /\ [][BarriersNext]_barrierVars

-----------------------------------------------------------------------------
(* Properties *)

(* A barrier is READY only with its quorum and every required role. *)
ReadyHasQuorum ==
    barrier.status = "READY" => Cardinality(arrivals) >= BarrierQuorum /\ Required \subseteq arrivals

(* It is decided once: no recovery that read it before the decision, and no *)
(* late arrival, opens it again.                                            *)
DecidedOnce ==
    /\ decided <= 1
    /\ barrier.status \in {"RELEASED", "REJECTED"} <=> decided = 1

(* The life of a barrier, under arrivals, decisions and recoveries. *)
BarrierHolds == ReadyHasQuorum /\ DecidedOnce
=============================================================================
