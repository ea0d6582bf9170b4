------------------------ MODULE AdministrationProofs -------------------------
(***************************************************************************)
(* What the group that administers a platform promises, for any people,    *)
(* seats, members, weights and terms: a barrier is decided once and with   *)
(* its quorum, a rollout is approved by whom it needs, leadership is never *)
(* ambiguous, and a command runs once, as it was approved.                 *)
(***************************************************************************)
EXTENDS Barriers, AdminUpgrade, AdminGroup, PlatformCommands, FiniteSetTheorems, TLAPS

-----------------------------------------------------------------------------
(* Barriers *)

(* A recovery writes a status it chose from what it read.  Such a reading  *)
(* is never that of a decided barrier, and never one without a retry left  *)
(* when it means to retry; as it is compared with the row before it is     *)
(* written, nothing decided is opened again.                               *)

USE BarriersAssumption

Final == {"RELEASED", "REJECTED"}
Readings == [action : Recoveries \cup {"none"}, status : BarrierStates, retries : 0..MaxRecoveries]

(* A recovery under way was decided on an open barrier. *)
ReadOpen ==
    \A o \in Operators : recovery[o] # NoRecovery =>
        /\ recovery[o].action # "none" /\ recovery[o].status \notin Final
        /\ recovery[o].action = "RETRY" => recovery[o].retries < MaxRecoveries

BarrierInv ==
    /\ BarriersTypeOK
    /\ recovery \in [Operators -> Readings]
    /\ ReadOpen /\ BarrierHolds

LEMMA Bound == MaxRecoveries \in Nat /\ NoRecovery \in Readings
BY DEF Readings, NoRecovery, BarrierStates

LEMMA BarrierBegins == BarriersInit => BarrierInv
<1> SUFFICES ASSUME BarriersInit PROVE BarrierInv
  OBVIOUS
<1>1. recovery = [o \in Operators |-> NoRecovery] /\ barrier = [status |-> "WAITING", retries |-> 0]
      /\ decided = 0 /\ arrivals = {}
  BY DEF BarriersInit
<1>2. BarriersTypeOK
  BY <1>1, Bound DEF BarriersTypeOK, BarriersInit, BarrierStates
<1>3. recovery \in [Operators -> Readings] /\ ReadOpen
  BY <1>1, Bound DEF ReadOpen
<1>4. BarrierHolds
  BY <1>1 DEF BarrierHolds, ReadyHasQuorum, DecidedOnce
<1> QED BY <1>2, <1>3, <1>4 DEF BarrierInv

(* Steps that leave the recoveries alone: an arrival, a decision, the      *)
(* deadline, and the Run.                                                  *)
LEMMA RowStepKeeps ==
    ASSUME BarrierInv, UNCHANGED recovery, BarriersTypeOK', BarrierHolds'
    PROVE  BarrierInv'
BY DEF BarrierInv, ReadOpen

LEMMA ArriveKeeps ==
    ASSUME BarrierInv, NEW s \in Seats, Arrive(s)
    PROVE  BarrierInv'
<1>1. /\ barrier.status = "WAITING" /\ arrivals' = arrivals \cup {s}
      /\ UNCHANGED <<late, recovery, graphRun, decided>>
      /\ barrier' = [status |-> IF Reached(arrivals') THEN "READY" ELSE "WAITING", retries |-> barrier.retries]
  BY DEF Arrive, BarrierInv, BarriersTypeOK
<1>2. BarriersTypeOK'
  BY <1>1 DEF BarrierInv, BarriersTypeOK, BarrierStates
<1>3. BarrierHolds'
  BY <1>1 DEF BarrierInv, BarrierHolds, ReadyHasQuorum, DecidedOnce, Reached
<1> QED BY <1>1, <1>2, <1>3, RowStepKeeps

LEMMA DecideKeeps ==
    ASSUME BarrierInv, Decide
    PROVE  BarrierInv'
<1>1. PICK s \in Final : barrier' = [status |-> s, retries |-> barrier.retries]
  BY DEF Decide, BarrierInv, BarriersTypeOK, Final
<1>2. /\ barrier.status \in {"WAITING", "READY", "REVIEW_REQUIRED"} /\ decided' = decided + 1
      /\ UNCHANGED <<arrivals, late, recovery, graphRun>>
  BY DEF Decide
<1>3. decided = 0
  BY <1>2 DEF BarrierInv, BarriersTypeOK, BarrierHolds, DecidedOnce
<1>4. BarriersTypeOK'
  BY <1>1, <1>2, <1>3 DEF BarrierInv, BarriersTypeOK, BarrierStates, Final
<1>5. BarrierHolds'
  BY <1>1, <1>2, <1>3 DEF BarrierHolds, ReadyHasQuorum, DecidedOnce, Final
<1> QED BY <1>2, <1>4, <1>5, RowStepKeeps

LEMMA RunKeeps ==
    ASSUME BarrierInv, UNCHANGED <<barrier, arrivals, recovery, decided>>, late' \in BOOLEAN,
           graphRun' \in [status : {"RUNNING", "WAITING", "SUCCEEDED", "FAILED", "CANCELLED"}, work : BOOLEAN]
    PROVE  BarrierInv'
<1>1. BarriersTypeOK' /\ BarrierHolds'
  BY DEF BarrierInv, BarriersTypeOK, BarrierHolds, ReadyHasQuorum, DecidedOnce
<1> QED BY <1>1, RowStepKeeps

-----------------------------------------------------------------------------
(* A reading, and its end. *)
LEMMA ReadingKeeps ==
    ASSUME BarrierInv, UNCHANGED <<barrier, arrivals, late, graphRun, decided>>,
           NEW o \in Operators, NEW r \in Readings, recovery' = [recovery EXCEPT ![o] = r],
           r # NoRecovery => /\ r.action # "none" /\ r.status \notin Final
                             /\ r.action = "RETRY" => r.retries < MaxRecoveries
    PROVE  BarrierInv'
<1>1. recovery' \in [Operators -> Readings]
      /\ \A p \in Operators : recovery'[p] = IF p = o THEN r ELSE recovery[p]
  BY DEF BarrierInv
<1>2. ReadOpen'
  BY <1>1 DEF BarrierInv, ReadOpen
<1>3. \A p \in Operators : recovery'[p] = NoRecovery \/ recovery'[p].action \in Recoveries
  BY <1>1, <1>2 DEF ReadOpen, Readings
<1>4. BarriersTypeOK' /\ BarrierHolds'
  BY <1>3 DEF BarrierInv, BarriersTypeOK, BarrierHolds, ReadyHasQuorum, DecidedOnce
<1> QED BY <1>1, <1>2, <1>4 DEF BarrierInv

LEMMA ReadBarrierKeeps ==
    ASSUME BarrierInv, NEW o \in Operators, ReadBarrier(o)
    PROVE  BarrierInv'
<1>1. PICK human \in BOOLEAN, checkpoint \in BOOLEAN, substitute \in BOOLEAN :
        LET action == StagedAction(late \/ human, checkpoint, substitute) IN
          /\ action # "WAIT"
          /\ recovery' = [recovery EXCEPT ![o] =
               [action |-> action, status |-> barrier.status, retries |-> barrier.retries]]
  BY SMTT(20), ZenonT(40) DEF ReadBarrier
<1> DEFINE act == StagedAction(late \/ human, checkpoint, substitute)
<1>2. act \in Recoveries /\ (act = "RETRY" => barrier.retries < MaxRecoveries)
  BY <1>1 DEF StagedAction, Recoveries, RetriesLeft
<1>3. barrier.status \in BarrierStates \ Final /\ barrier.retries \in 0..MaxRecoveries
  BY DEF ReadBarrier, BarrierInv, BarriersTypeOK, Final
<1>4. PICK r \in Readings : r = [action |-> act, status |-> barrier.status, retries |-> barrier.retries]
  BY <1>2, <1>3 DEF Readings
<1>5. r.action \in Recoveries /\ r.status \notin Final /\ (r.action = "RETRY" => r.retries < MaxRecoveries)
  BY <1>2, <1>3, <1>4
<1>6. r.action # "none"
  BY <1>5 DEF Recoveries
<1> QED BY <1>1, <1>4, <1>5, <1>6, ReadingKeeps DEF ReadBarrier

LEMMA BarrierEndKeeps ==
    ASSUME BarrierInv, NEW o \in Operators, RecoveryEnds(o)
    PROVE  BarrierInv'
BY Bound, ReadingKeeps DEF RecoveryEnds

(* What is written is WAITING or REVIEW_REQUIRED, over a row that is still *)
(* the open one that was read.                                             *)
LEMMA PersistKeeps ==
    ASSUME BarrierInv, NEW o \in Operators, PersistRecovery(o)
    PROVE  BarrierInv'
<1> DEFINE r == recovery[o]
<1>1. /\ r \in Readings /\ r # NoRecovery /\ r.status \notin Final /\ barrier.status = r.status
      /\ r.action = "RETRY" => r.retries < MaxRecoveries
  BY DEF PersistRecovery, Unchanged, BarrierInv, ReadOpen
<1>2. /\ barrier' = [status |-> NextStatus(r.action), retries |-> r.retries + (IF r.action = "RETRY" THEN 1 ELSE 0)]
      /\ recovery' = [recovery EXCEPT ![o] = NoRecovery]
      /\ UNCHANGED <<arrivals, late, decided>>
  BY DEF PersistRecovery
<1>3. barrier' \in [status : {"WAITING", "REVIEW_REQUIRED"}, retries : 0..MaxRecoveries]
  BY <1>1, <1>2, Bound DEF NextStatus, Readings
<1>4. graphRun' \in [status : {"RUNNING", "WAITING", "SUCCEEDED", "FAILED", "CANCELLED"}, work : BOOLEAN]
  <2>1. graphRun \in [status : {"RUNNING", "WAITING", "SUCCEEDED", "FAILED", "CANCELLED"}, work : BOOLEAN]
    BY DEF BarrierInv, BarriersTypeOK
  <2>2. graphRun' = graphRun \/ graphRun' = [graphRun EXCEPT !.status = "WAITING"]
    BY DEF PersistRecovery, RestoreRun
  <2> QED BY <2>1, <2>2
<1>5. recovery' \in [Operators -> Readings]
      /\ \A p \in Operators : recovery'[p] = IF p = o THEN NoRecovery ELSE recovery[p]
  BY <1>2, Bound DEF BarrierInv
<1>6. ReadOpen'
  BY <1>5 DEF BarrierInv, ReadOpen
<1>7. decided = 0
  BY <1>1 DEF BarrierInv, BarriersTypeOK, BarrierHolds, DecidedOnce, Final
<1>8. BarriersTypeOK'
  <2>1. \A p \in Operators : recovery'[p] = NoRecovery \/ recovery'[p].action \in Recoveries
    BY <1>5 DEF BarrierInv, BarriersTypeOK
  <2> QED BY <1>2, <1>3, <1>4, <2>1 DEF BarrierInv, BarriersTypeOK, BarrierStates
<1>9. BarrierHolds'
  BY <1>2, <1>3, <1>7 DEF BarrierHolds, ReadyHasQuorum, DecidedOnce
<1> QED BY <1>5, <1>6, <1>8, <1>9 DEF BarrierInv

LEMMA BarrierStepKeeps ==
    ASSUME BarrierInv, [BarriersNext]_barrierVars
    PROVE  BarrierInv'
<1>0. /\ graphRun \in [status : {"RUNNING", "WAITING", "SUCCEEDED", "FAILED", "CANCELLED"}, work : BOOLEAN]
      /\ late \in BOOLEAN
  BY DEF BarrierInv, BarriersTypeOK
<1>1. CASE UNCHANGED barrierVars
  BY <1>0, <1>1, RunKeeps DEF barrierVars
<1>2. CASE Deadline
  BY <1>0, <1>2, RunKeeps DEF Deadline
<1>3. CASE RunMoves
  <2>1. graphRun' \in [status : {"RUNNING", "WAITING", "SUCCEEDED", "FAILED", "CANCELLED"}, work : BOOLEAN]
    <3>1. \/ \E s \in {"RUNNING", "WAITING"} : graphRun' = [status |-> s, work |-> TRUE]
          \/ \E s \in {"SUCCEEDED", "FAILED", "CANCELLED"} : graphRun' = [status |-> s, work |-> FALSE]
      BY <1>3 DEF RunMoves
    <3>2. CASE \E s \in {"RUNNING", "WAITING"} : graphRun' = [status |-> s, work |-> TRUE]
      <4>1. PICK s \in {"RUNNING", "WAITING"} : graphRun' = [status |-> s, work |-> TRUE]
        BY <3>2
      <4> QED BY <4>1
    <3>3. CASE \E s \in {"SUCCEEDED", "FAILED", "CANCELLED"} : graphRun' = [status |-> s, work |-> FALSE]
      <4>1. PICK s \in {"SUCCEEDED", "FAILED", "CANCELLED"} : graphRun' = [status |-> s, work |-> FALSE]
        BY <3>3
      <4> QED BY <4>1
    <3> QED BY <3>1, <3>2, <3>3
  <2> QED BY <1>0, <1>3, <2>1, RunKeeps DEF RunMoves
<1> QED
  BY <1>1, <1>2, <1>3, ArriveKeeps, DecideKeeps, ReadBarrierKeeps, PersistKeeps,
       BarrierEndKeeps DEF BarriersNext

LEMMA BarrierKeeps == BarriersSpec => []BarrierInv
<1>1. BarrierInv /\ [BarriersNext]_barrierVars => BarrierInv' BY BarrierStepKeeps
<1> QED BY BarrierBegins, <1>1, PTL DEF BarriersSpec

(* Barrier, arrivals and recoveries have their types: the retry count      *)
(* never passes MAX_RETRIES.                                               *)
THEOREM BarrierTypes == BarriersSpec => []BarriersTypeOK
<1>1. BarrierInv => BarriersTypeOK BY DEF BarrierInv
<1> QED BY BarrierKeeps, <1>1, PTL

(* READY only with its quorum, decided once (identity_api.py:4115-4577).   *)
THEOREM BarrierIsDecidedOnce == BarriersSpec => []BarrierHolds
<1>1. BarrierInv => BarrierHolds BY DEF BarrierInv
<1> QED BY BarrierKeeps, <1>1, PTL

HIDE BarriersAssumption

-----------------------------------------------------------------------------
(* The rollout of a release *)

(* How far a plan has come says what was decided on it: approvals are      *)
(* never taken back, and a plan that is edited starts over.  An advance in *)
(* flight still sees what it saw, as long as no other overtook it.         *)

(* The group knows its voting agents by their own ids, or by ids no agent has. *)
MembersHaveIds ==
    (\A a \in Voters : MemberId[a] = a) \/ (\A a \in Voters : MemberId[a] \notin Voters)

Unrolled == {"NONE", "STAGED", "PREFLIGHT", "HUMAN_APPROVAL", "REJECTED", "QUORUM_APPROVAL"}
AfterQuorum == {"QUORUM_APPROVAL", "ROLLING", "SKILL_DISTRIBUTION"}
HumanApproved == \E v \in verdicts : v[2] /\ v[1] \notin plan.by
ApprovedIn(t) == {a \in plan.electors : ballots[a] = [approves |-> TRUE, term |-> t]}
QuorumHeld ==
    \E t \in 1..MaxVoteTerm :
        /\ 2 * Cardinality(ApprovedIn(t)) > Cardinality(plan.electors)
        /\ 2 * WeightOf(ApprovedIn(t)) > WeightOf(plan.electors)

(* How far a plan has come says what was decided on it, and nothing rolls    *)
(* before.  The approvals of a plan are what no later step takes back.       *)
PlanIsGoverned ==
    /\ plan.status \in Unrolled => ~Rolling /\ ~Sent /\ ~plan.auto
    /\ plan.status \notin {"NONE", "STAGED"} => plan.verified
    /\ ~plan.auto =>
         /\ plan.status \in {"HUMAN_APPROVAL"} \cup AfterQuorum => HumanApproved
         /\ plan.status \in AfterQuorum => QuorumHeld
    /\ plan.status = "AUTO_SCHEDULED" => plan.auto

Moving(n) == advance[n] # NoAdvance
Departs(n) == Moving(n) /\ node[n] = "PENDING"
Completes(n) == advance[n].stage = "counted" /\ advance[n].complete

(* An advance in flight is of a node that has a next state; while nothing     *)
(* overtook, it still sees what it saw.                                      *)
AdvancesSee ==
    /\ \A n \in UpgradeNodes : Moving(n) => node[n] \in {"PENDING", "DRAINING", "MIGRATING"}
    /\ ~overtaken =>
         /\ \A n, k \in UpgradeNodes : Busy(n) /\ (Busy(k) \/ Departs(k)) => n = k
         /\ \A n, k \in UpgradeNodes : Departs(n) /\ Departs(k) => n = k
         /\ \A n \in UpgradeNodes : Completes(n) =>
              /\ node[n] = "MIGRATING"
              /\ \A k \in UpgradeNodes \ {n} : node[k] \in {"NONE", "HEALTHY"}

UpgradeInv == UpgradeTypeOK /\ PlanIsGoverned /\ AdvancesSee /\ SkillsAfterNodes

LEMMA PlanParts ==
    ASSUME UpgradeTypeOK
    PROVE  /\ plan = [status |-> plan.status, by |-> plan.by, verified |-> plan.verified,
                      auto |-> plan.auto, electors |-> plan.electors]
           /\ plan.status \in PlanStatus /\ plan.by \in SUBSET Managers /\ plan.verified \in BOOLEAN
           /\ plan.auto \in BOOLEAN /\ plan.electors \in SUBSET Voters
BY DEF UpgradeTypeOK

(* A plan that only moves on to another status. *)
LEMMA PlanMoves ==
    ASSUME UpgradeTypeOK, NEW status \in PlanStatus, plan' = [plan EXCEPT !.status = status]
    PROVE  /\ plan' \in [status : PlanStatus, by : SUBSET Managers, verified : BOOLEAN, auto : BOOLEAN,
                         electors : SUBSET Voters]
           /\ plan'.status = status /\ plan'.by = plan.by /\ plan'.verified = plan.verified
           /\ plan'.auto = plan.auto /\ plan'.electors = plan.electors
BY PlanParts DEF UpgradeTypeOK

(* Steps that leave the nodes and their advances alone. *)
LEMMA NodesRest ==
    ASSUME UpgradeInv, UNCHANGED rolloutVars,
           plan'.status = "SKILL_DISTRIBUTION" => plan.status = "SKILL_DISTRIBUTION",
           plan'.auto = plan.auto
    PROVE  AdvancesSee' /\ SkillsAfterNodes' /\ Rolling' = Rolling /\ Sent' = Sent
BY DEF UpgradeInv, rolloutVars, AdvancesSee, Moving, Departs, Completes, Busy, SkillsAfterNodes,
     Rolling, Sent

LEMMA StagingKeeps ==
    ASSUME UpgradeInv,
           \/ \E h \in Managers, yes \in BOOLEAN : Stage(h, yes) \/ ApproveUpgrade(h, yes)
           \/ Preflight \/ NewTerm \/ \E a \in Voters : VoterJoins(a)
    PROVE  UpgradeInv'
<1>0. UpgradeTypeOK /\ PlanIsGoverned
  BY DEF UpgradeInv
<1>1. ASSUME NEW h \in Managers, NEW yes \in BOOLEAN, Stage(h, yes)
      PROVE  UpgradeInv'
  <2>1. /\ plan.status = "NONE" /\ UNCHANGED <<voteVars, rolloutVars>>
        /\ plan' = [status |-> "STAGED", by |-> {h}, verified |-> yes, auto |-> FALSE, electors |-> {}]
    BY <1>1 DEF Stage
  <2>2. UpgradeTypeOK'
    BY <1>0, <2>1 DEF UpgradeTypeOK, voteVars, rolloutVars, PlanStatus
  <2>3. AdvancesSee' /\ SkillsAfterNodes' /\ Rolling' = Rolling /\ Sent' = Sent
    BY <1>0, <2>1, NodesRest, PlanParts DEF PlanIsGoverned, Unrolled
  <2> QED
    BY <1>0, <2>1, <2>2, <2>3 DEF UpgradeInv, PlanIsGoverned, Unrolled, AfterQuorum
<1>2. ASSUME NEW h \in Managers, NEW yes \in BOOLEAN, ApproveUpgrade(h, yes)
      PROVE  UpgradeInv'
  <2> DEFINE status == IF yes THEN "HUMAN_APPROVAL" ELSE "REJECTED"
  <2>1. /\ plan.status = "PREFLIGHT" /\ h \notin plan.by /\ UNCHANGED <<ballots, voting, voteTerm, rolloutVars>>
        /\ verdicts' = {v \in verdicts : v[1] # h} \cup {<<h, yes>>}
        /\ plan' = [plan EXCEPT !.status = status] /\ status \in PlanStatus
    BY <1>2 DEF ApproveUpgrade, MayDecide, PlanStatus
  <2>2. /\ plan' \in [status : PlanStatus, by : SUBSET Managers, verified : BOOLEAN, auto : BOOLEAN,
                      electors : SUBSET Voters]
        /\ plan'.status = status /\ plan'.by = plan.by /\ plan'.verified = plan.verified
        /\ plan'.auto = plan.auto
    <3> HIDE DEF status
    <3> QED
      BY <1>0, <2>1, PlanMoves
  <2>3. UpgradeTypeOK'
    BY <1>0, <2>1, <2>2 DEF UpgradeTypeOK, rolloutVars
  <2>4. AdvancesSee' /\ SkillsAfterNodes' /\ Rolling' = Rolling /\ Sent' = Sent
    BY <2>1, <2>2, NodesRest
  <2>5. yes => HumanApproved'
    <3>1. <<h, yes>> \in verdicts' /\ <<h, yes>>[1] = h /\ <<h, yes>>[2] = yes
      BY <2>1
    <3> QED
      BY <2>1, <2>2, <3>1 DEF HumanApproved
  <2> QED
    BY <1>0, <2>1, <2>2, <2>3, <2>4, <2>5 DEF UpgradeInv, PlanIsGoverned, Unrolled, AfterQuorum
<1>3. CASE Preflight
  <2>1. /\ plan.status = "STAGED" /\ plan.verified /\ UNCHANGED <<voteVars, rolloutVars>>
        /\ plan' = [plan EXCEPT !.status = "PREFLIGHT"]
    BY <1>3 DEF Preflight
  <2>2. /\ plan' \in [status : PlanStatus, by : SUBSET Managers, verified : BOOLEAN, auto : BOOLEAN,
                      electors : SUBSET Voters]
        /\ plan'.status = "PREFLIGHT" /\ plan'.verified = plan.verified /\ plan'.auto = plan.auto
    BY <1>0, <2>1, PlanMoves DEF PlanStatus
  <2>3. UpgradeTypeOK'
    BY <1>0, <2>1, <2>2 DEF UpgradeTypeOK, rolloutVars, voteVars
  <2>4. AdvancesSee' /\ SkillsAfterNodes' /\ Rolling' = Rolling /\ Sent' = Sent
    BY <2>1, <2>2, NodesRest
  <2> QED
    BY <1>0, <2>1, <2>2, <2>3, <2>4 DEF UpgradeInv, PlanIsGoverned, Unrolled, AfterQuorum
<1>4. ASSUME NewTerm \/ \E a \in Voters : VoterJoins(a)
      PROVE  UpgradeInv'
  <2>1. UNCHANGED <<plan, verdicts, ballots, rolloutVars>> /\ voteTerm' \in 1..MaxVoteTerm /\ voting' \subseteq Voters
    BY <1>0, <1>4, UpgradeAssumption DEF NewTerm, VoterJoins, UpgradeTypeOK
  <2>2. UpgradeTypeOK'
    BY <1>0, <2>1 DEF UpgradeTypeOK, rolloutVars
  <2>3. AdvancesSee' /\ SkillsAfterNodes' /\ Rolling' = Rolling /\ Sent' = Sent
    BY <2>1, NodesRest
  <2> QED
    BY <1>0, <2>1, <2>2, <2>3 DEF UpgradeInv, PlanIsGoverned, HumanApproved, QuorumHeld, ApprovedIn
<1> QED
  BY <1>1, <1>2, <1>3, <1>4

(* A quorum counts, of the voting members, those that approved in this term. *)
LEMMA QuorumIsOfOneTerm ==
    ASSUME UpgradeTypeOK, MembersHaveIds,
           NEW b \in [Voters -> [approves : BOOLEAN, term : 0..MaxVoteTerm]], Quorum(b)
    PROVE  /\ Accepted(b) = {a \in voting : b[a] = [approves |-> TRUE, term |-> voteTerm]}
           /\ 2 * Cardinality(Accepted(b)) > Cardinality(voting)
           /\ 2 * WeightOf(Accepted(b)) > WeightOf(voting)
<1>0. voting \subseteq Voters
  BY DEF UpgradeTypeOK
<1>1. CASE \A a \in Voters : MemberId[a] = a
  <2>1. Accepted(b) = {a \in voting : b[a].term = voteTerm /\ b[a].approves}
    BY <1>0, <1>1 DEF Accepted, CastNow
  <2>2. \A a \in Voters : b[a].term = voteTerm /\ b[a].approves
                          <=> b[a] = [approves |-> TRUE, term |-> voteTerm]
    OBVIOUS
  <2> QED
    BY <1>0, <2>1, <2>2 DEF Quorum
<1>2. CASE \A a \in Voters : MemberId[a] \notin Voters
  <2>1. Accepted(b) = {}
    BY <1>0, <1>2 DEF Accepted, CastNow
  <2>2. Cardinality(Accepted(b)) = 0 /\ Cardinality(voting) \in Nat
    BY <1>0, <2>1, UpgradeAssumption, FS_EmptySet, FS_Subset, FS_CardinalityType
  <2> QED
    BY <2>2 DEF Quorum
<1> QED
  BY <1>1, <1>2 DEF MembersHaveIds

LEMMA VoteKeeps ==
    ASSUME UpgradeInv, MembersHaveIds, NEW a \in Voters, NEW yes \in BOOLEAN, Vote(a, yes)
    PROVE  UpgradeInv'
<1> DEFINE cast == [ballots EXCEPT ![a] = [approves |-> yes, term |-> voteTerm]]
<1>0. /\ UpgradeTypeOK /\ PlanIsGoverned /\ plan.status = "HUMAN_APPROVAL"
      /\ UNCHANGED <<verdicts, voting, voteTerm, rolloutVars>>
      /\ ballots' = cast
  BY DEF UpgradeInv, Vote
<1>1. cast \in [Voters -> [approves : BOOLEAN, term : 0..MaxVoteTerm]]
  BY <1>0, UpgradeAssumption DEF UpgradeTypeOK
<1>2. /\ plan' \in [status : PlanStatus, by : SUBSET Managers, verified : BOOLEAN, auto : BOOLEAN,
                    electors : SUBSET Voters]
      /\ plan'.by = plan.by /\ plan'.verified = plan.verified /\ plan'.auto = plan.auto
      /\ plan'.status \in {"HUMAN_APPROVAL", "QUORUM_APPROVAL"}
      /\ plan'.status = "QUORUM_APPROVAL" => Quorum(cast) /\ plan'.electors = voting
  <2> DEFINE status == IF Quorum(cast) THEN "QUORUM_APPROVAL" ELSE "HUMAN_APPROVAL"
             electors == IF Quorum(cast) THEN voting ELSE {}
             new == [plan EXCEPT !.status = status, !.electors = electors]
  <2>1. plan' = new
    BY DEF Vote
  <2>2. status \in PlanStatus /\ electors \in SUBSET Voters
    BY <1>0 DEF UpgradeTypeOK, PlanStatus
  <2>3. new = [status |-> status, by |-> plan.by, verified |-> plan.verified, auto |-> plan.auto,
               electors |-> electors]
    <3> HIDE DEF status, electors
    <3>1. plan = [status |-> plan.status, by |-> plan.by, verified |-> plan.verified,
                  auto |-> plan.auto, electors |-> plan.electors]
      BY <1>0, PlanParts
    <3>2. [plan EXCEPT !.status = status]
            = [status |-> status, by |-> plan.by, verified |-> plan.verified, auto |-> plan.auto,
               electors |-> plan.electors]
      BY <3>1
    <3>3. new = [[plan EXCEPT !.status = status] EXCEPT !.electors = electors]
      OBVIOUS
    <3>4. [[status |-> status, by |-> plan.by, verified |-> plan.verified, auto |-> plan.auto,
            electors |-> plan.electors] EXCEPT !.electors = electors]
            = [status |-> status, by |-> plan.by, verified |-> plan.verified, auto |-> plan.auto,
               electors |-> electors]
      OBVIOUS
    <3> HIDE DEF new
    <3> QED
      BY <3>2, <3>3, <3>4, Zenon
  <2> HIDE DEF new
  <2> QED
    BY <1>0, <2>1, <2>2, <2>3, PlanParts
<1>3. UpgradeTypeOK'
  BY <1>0, <1>1, <1>2 DEF UpgradeTypeOK, rolloutVars
<1>4. AdvancesSee' /\ SkillsAfterNodes' /\ Rolling' = Rolling /\ Sent' = Sent
  BY <1>0, <1>2, NodesRest
<1>5. HumanApproved' = HumanApproved
  BY <1>0, <1>2 DEF HumanApproved
<1>6. plan'.status = "QUORUM_APPROVAL" => QuorumHeld'
  <2> SUFFICES ASSUME plan'.status = "QUORUM_APPROVAL"
               PROVE  QuorumHeld'
    OBVIOUS
  <2> HIDE DEF cast
  <2>1. Quorum(cast) /\ plan'.electors = voting
    BY <1>2
  <2>2. /\ Accepted(cast) = {v \in voting : cast[v] = [approves |-> TRUE, term |-> voteTerm]}
        /\ 2 * Cardinality(Accepted(cast)) > Cardinality(voting)
        /\ 2 * WeightOf(Accepted(cast)) > WeightOf(voting)
    BY <1>0, <1>1, <2>1, QuorumIsOfOneTerm
  <2>3. voteTerm \in 1..MaxVoteTerm
    BY <1>0 DEF UpgradeTypeOK
  <2>4. ApprovedIn(voteTerm)' = Accepted(cast)
    BY <1>0, <2>1, <2>2 DEF ApprovedIn
  <2> QED
    BY <1>0, <2>1, <2>2, <2>3, <2>4 DEF QuorumHeld, ApprovedIn
<1> QED
  BY <1>0, <1>2, <1>3, <1>4, <1>5, <1>6 DEF UpgradeInv, PlanIsGoverned, Unrolled, AfterQuorum

(* What the approvals of a plan rest on. *)
LEMMA ApprovalsLast ==
    ASSUME UpgradeInv, UNCHANGED <<verdicts, ballots>>,
           plan'.by = plan.by, plan'.electors = plan.electors
    PROVE  HumanApproved' = HumanApproved /\ QuorumHeld' = QuorumHeld
BY DEF HumanApproved, QuorumHeld, ApprovedIn

(* Nodes are added to the rollout. *)
LEMMA AddedNodes ==
    ASSUME UpgradeTypeOK, NEW added \in SUBSET UpgradeNodes,
           node' = [n \in UpgradeNodes |-> IF n \in added /\ node[n] = "NONE" THEN "PENDING" ELSE node[n]]
    PROVE  /\ node' \in [UpgradeNodes -> NodeStates]
           /\ \A n \in UpgradeNodes :
                node'[n] = node[n] \/ (node[n] = "NONE" /\ node'[n] = "PENDING")
<1>1. \A n \in UpgradeNodes : node'[n] = node[n] \/ (node[n] = "NONE" /\ node'[n] = "PENDING")
  OBVIOUS
<1>2. \A n \in UpgradeNodes : node[n] \in NodeStates /\ node'[n] \in NodeStates
  BY <1>1 DEF UpgradeTypeOK, NodeStates
<1>3. node' = [n \in UpgradeNodes |-> node'[n]]
  OBVIOUS
<1> QED
  BY <1>1, <1>2, <1>3

LEMMA SendingKeepsType ==
    ASSUME UpgradeTypeOK, NEW S \in SUBSET SkillAgents, SentTo(S)
    PROVE  skill' \in [SkillAgents -> {"none", "OLD_VERSION", "ACTIVE"}]
BY DEF UpgradeTypeOK, SentTo

LEMMA SchedulingKeeps ==
    ASSUME UpgradeInv, AutoSchedule
    PROVE  UpgradeInv'
<1>0. UpgradeTypeOK /\ PlanIsGoverned /\ AdvancesSee
  BY DEF UpgradeInv
<1>1. /\ plan.verified /\ UNCHANGED <<voteVars, advance>>
      /\ overtaken' = (overtaken \/ \E n \in UpgradeNodes : Moving(n))
      /\ plan' = [plan EXCEPT !.status = "AUTO_SCHEDULED", !.auto = TRUE]
  BY DEF AutoSchedule, Moving
<1>2. PICK added \in SUBSET UpgradeNodes :
          node' = [n \in UpgradeNodes |-> IF n \in added /\ node[n] = "NONE" THEN "PENDING" ELSE node[n]]
  BY DEF AutoSchedule
<1>3. /\ node' \in [UpgradeNodes -> NodeStates]
      /\ \A n \in UpgradeNodes : node'[n] = node[n] \/ (node[n] = "NONE" /\ node'[n] = "PENDING")
  BY <1>0, <1>2, AddedNodes
<1>4. /\ plan' \in [status : PlanStatus, by : SUBSET Managers, verified : BOOLEAN, auto : BOOLEAN,
                    electors : SUBSET Voters]
      /\ plan'.status = "AUTO_SCHEDULED" /\ plan'.auto = TRUE /\ plan'.verified = plan.verified
  BY <1>0, <1>1, PlanParts DEF UpgradeTypeOK, PlanStatus
<1>5. UpgradeTypeOK'
  <2>1. PICK active \in SUBSET SkillAgents : SentTo(active)
    BY DEF AutoSchedule
  <2>2. skill' \in [SkillAgents -> {"none", "OLD_VERSION", "ACTIVE"}]
    BY <1>0, <2>1, SendingKeepsType
  <2> QED
    BY <1>0, <1>1, <1>3, <1>4, <2>2 DEF UpgradeTypeOK, voteVars
<1>6. PlanIsGoverned'
  BY <1>1, <1>4 DEF PlanIsGoverned, Unrolled
<1>7. SkillsAfterNodes'
  BY <1>4 DEF SkillsAfterNodes
<1>8. AdvancesSee'
  <2>1. \A n \in UpgradeNodes : Moving(n)' = Moving(n) /\ (Moving(n) => node'[n] = node[n])
    BY <1>0, <1>1, <1>3 DEF AdvancesSee, Moving
  <2>2. ~overtaken' => \A n \in UpgradeNodes : ~Moving(n) /\ ~Completes(n)
    <3>1. \A n \in UpgradeNodes : Completes(n) => Moving(n)
      BY DEF Moving, Completes, NoAdvance
    <3>2. ~overtaken' => \A n \in UpgradeNodes : ~Moving(n)
      BY <1>1, Zenon
    <3> QED
      BY <3>1, <3>2
  <2>3. \A n \in UpgradeNodes : Busy(n)' = Busy(n) /\ (~Moving(n) => ~Departs(n)') /\ Completes(n)' = Completes(n)
    BY <1>1, <1>3, <2>1 DEF Busy, Departs, Completes
  <2> QED
    BY <1>0, <1>1, <2>1, <2>2, <2>3 DEF AdvancesSee
<1> QED
  BY <1>5, <1>6, <1>7, <1>8 DEF UpgradeInv

LEMMA StartKeeps ==
    ASSUME UpgradeInv, StartRollout
    PROVE  UpgradeInv'
<1>0. UpgradeTypeOK /\ PlanIsGoverned /\ AdvancesSee
  BY DEF UpgradeInv
<1>1. /\ plan.status = "QUORUM_APPROVAL" /\ UNCHANGED <<voteVars, advance, skill, overtaken>>
      /\ plan' = [plan EXCEPT !.status = "ROLLING"]
  BY DEF StartRollout
<1>2. PICK added \in SUBSET UpgradeNodes :
          node' = [n \in UpgradeNodes |-> IF n \in added /\ node[n] = "NONE" THEN "PENDING" ELSE node[n]]
  BY DEF StartRollout
<1>3. /\ node' \in [UpgradeNodes -> NodeStates]
      /\ \A n \in UpgradeNodes : node'[n] \in {"NONE", "PENDING"} /\ ~Moving(n)
  <2>1. \A n \in UpgradeNodes : node[n] = "NONE"
    BY <1>0, <1>1 DEF PlanIsGoverned, Unrolled, Rolling
  <2> QED
    BY <1>0, <1>2, <2>1, AddedNodes DEF AdvancesSee
<1>4. /\ plan' \in [status : PlanStatus, by : SUBSET Managers, verified : BOOLEAN, auto : BOOLEAN,
                    electors : SUBSET Voters]
      /\ plan'.status = "ROLLING" /\ plan'.auto = plan.auto /\ plan'.verified = plan.verified
      /\ plan'.by = plan.by /\ plan'.electors = plan.electors
  BY <1>0, <1>1, PlanMoves DEF PlanStatus
<1>5. UpgradeTypeOK'
  BY <1>0, <1>1, <1>3, <1>4 DEF UpgradeTypeOK, voteVars
<1>6. PlanIsGoverned'
  <2>1. HumanApproved' = HumanApproved /\ QuorumHeld' = QuorumHeld
    BY <1>1, <1>4, ApprovalsLast DEF voteVars
  <2> QED
    BY <1>0, <1>1, <1>4, <2>1 DEF PlanIsGoverned, Unrolled, AfterQuorum
<1>7. SkillsAfterNodes'
  BY <1>0, <1>1, <1>4 DEF SkillsAfterNodes, PlanIsGoverned, Unrolled, Sent
<1>8. AdvancesSee'
  BY <1>1, <1>3 DEF AdvancesSee, Moving, Departs, Completes, Busy, NoAdvance
<1> QED
  BY <1>5, <1>6, <1>7, <1>8 DEF UpgradeInv

LEMMA OpeningsKeep ==
    ASSUME UpgradeInv, NEW n \in UpgradeNodes,
           AdvanceOpen(n) \/ AdvanceCount(n) \/ AdvanceAborts(n)
    PROVE  UpgradeInv'
<1>0. /\ UpgradeTypeOK /\ PlanIsGoverned /\ AdvancesSee /\ SkillsAfterNodes
      /\ UNCHANGED <<plan, verdicts, ballots, voting, voteTerm, node, skill>>
      /\ overtaken => overtaken'
  <2>1. /\ UpgradeTypeOK /\ PlanIsGoverned /\ AdvancesSee /\ SkillsAfterNodes
        /\ UNCHANGED <<plan, verdicts, ballots, voting, voteTerm, node, skill>>
    BY DEF UpgradeInv, voteVars, AdvanceOpen, AdvanceCount, AdvanceAborts
  <2>2. overtaken => overtaken'
    BY Zenon DEF AdvanceOpen, AdvanceCount, AdvanceAborts
  <2> QED
    BY <2>1, <2>2
<1>1. advance[n] = [stage |-> advance[n].stage, complete |-> advance[n].complete]
      /\ advance[n].complete \in BOOLEAN
  BY <1>0 DEF UpgradeTypeOK
<1>2. PlanIsGoverned' /\ SkillsAfterNodes' /\ \A k \in UpgradeNodes : Busy(k)' = Busy(k)
  BY <1>0 DEF PlanIsGoverned, Rolling, Sent, HumanApproved, QuorumHeld, ApprovedIn, SkillsAfterNodes, Busy
<1>3. CASE AdvanceOpen(n)
  <2>1. /\ ~Moving(n) /\ node[n] \in {"PENDING", "DRAINING", "MIGRATING"}
        /\ node[n] = "PENDING" => \A k \in UpgradeNodes \ {n} : ~Busy(k)
        /\ advance' = [advance EXCEPT ![n] = [stage |-> "open", complete |-> advance[n].complete]]
        /\ ~overtaken' => ~overtaken /\ (node[n] = "PENDING" => \A k \in UpgradeNodes \ {n} : ~Departs(k))
    <3>1. ~Moving(n) /\ node[n] \in {"PENDING", "DRAINING", "MIGRATING"}
      BY <1>3 DEF AdvanceOpen, Moving, NextState
    <3>2. node[n] = "PENDING" => \A k \in UpgradeNodes \ {n} : ~Busy(k)
      BY <1>3 DEF AdvanceOpen, MayDrain
    <3>3. advance' = [advance EXCEPT ![n] = [stage |-> "open", complete |-> advance[n].complete]]
      <4>1. advance' = [advance EXCEPT ![n] = [advance[n] EXCEPT !.stage = "open"]]
        BY <1>3 DEF AdvanceOpen
      <4>2. [advance[n] EXCEPT !.stage = "open"] = [stage |-> "open", complete |-> advance[n].complete]
        BY <1>1
      <4> QED
        BY <4>1, <4>2
    <3>4. ~overtaken' => ~overtaken /\ (node[n] = "PENDING" => \A k \in UpgradeNodes \ {n} : ~Departs(k))
      BY <1>3, Zenon DEF AdvanceOpen, Departs, Moving
    <3> QED
      BY <3>1, <3>2, <3>3, <3>4
  <2>2. UpgradeTypeOK'
    BY <1>0, <1>1, <1>3, <2>1 DEF UpgradeTypeOK, AdvanceOpen
  <2>3. /\ \A k \in UpgradeNodes : k # n => advance'[k] = advance[k]
        /\ advance'[n] = [stage |-> "open", complete |-> advance[n].complete]
    BY <1>0, <2>1 DEF UpgradeTypeOK
  <2>4. AdvancesSee'
    <3>1. \A k \in UpgradeNodes : /\ Moving(k)' => k = n \/ Moving(k)
                                  /\ Departs(k)' => Departs(k) \/ (k = n /\ node[n] = "PENDING")
                                  /\ Completes(k)' => k # n /\ Completes(k)
      <4> TAKE k \in UpgradeNodes
      <4>1. CASE k = n
        BY <1>0, <2>3, <4>1 DEF Departs, Completes
      <4>2. CASE k # n
        BY <1>0, <2>3, <4>2 DEF Moving, Departs, Completes
      <4> QED
        BY <4>1, <4>2
    <3>2. \A k \in UpgradeNodes : Moving(k)' => node'[k] \in {"PENDING", "DRAINING", "MIGRATING"}
      BY <1>0, <2>1, <3>1 DEF AdvancesSee
    <3> QED
      BY <1>0, <1>2, <2>1, <3>1, <3>2 DEF AdvancesSee, Busy
  <2> QED
    BY <1>2, <2>2, <2>4 DEF UpgradeInv
<1>4. CASE AdvanceCount(n)
  <2>1. PICK complete \in BOOLEAN :
          /\ advance' = [advance EXCEPT ![n] = [stage |-> "counted", complete |-> complete]]
          /\ complete => /\ NextState[node[n]] = "HEALTHY"
                         /\ \A k \in UpgradeNodes \ {n} : node[k] \in {"NONE", "HEALTHY"}
          /\ advance[n].stage = "open" /\ UNCHANGED overtaken
    BY <1>4 DEF AdvanceCount
  <2>2. UpgradeTypeOK'
    BY <1>0, <2>1 DEF UpgradeTypeOK
  <2>3. /\ \A k \in UpgradeNodes : k # n => advance'[k] = advance[k]
        /\ advance'[n] = [stage |-> "counted", complete |-> complete] /\ Moving(n)
    BY <1>0, <2>1 DEF UpgradeTypeOK, Moving, NoAdvance
  <2>4. complete => node[n] = "MIGRATING"
    BY <1>0, <2>1, <2>3 DEF AdvancesSee, NextState
  <2>5. AdvancesSee'
    <3>1. \A k \in UpgradeNodes : /\ Moving(k)' => Moving(k)
                                  /\ Departs(k)' => Departs(k)
                                  /\ Completes(k)' => (k = n /\ complete) \/ Completes(k)
      BY <1>0, <2>3 DEF Moving, Departs, Completes
    <3> QED
      BY <1>0, <1>2, <2>1, <2>4, <3>1 DEF AdvancesSee
  <2> QED
    BY <1>2, <2>2, <2>5 DEF UpgradeInv
<1>5. CASE AdvanceAborts(n)
  <2>1. advance' = [advance EXCEPT ![n] = NoAdvance] /\ UNCHANGED overtaken
    BY <1>5 DEF AdvanceAborts
  <2>2. UpgradeTypeOK'
    BY <1>0, <2>1 DEF UpgradeTypeOK, NoAdvance
  <2>3. \A k \in UpgradeNodes : /\ Moving(k)' => Moving(k)
                                /\ Departs(k)' => Departs(k)
                                /\ Completes(k)' => Completes(k)
    BY <1>0, <2>1 DEF UpgradeTypeOK, Moving, Departs, Completes, NoAdvance
  <2>4. AdvancesSee'
    BY <1>0, <1>2, <2>1, <2>3 DEF AdvancesSee
  <2> QED
    BY <1>2, <2>2, <2>4 DEF UpgradeInv
<1> QED
  BY <1>3, <1>4, <1>5

LEMMA CommitKeeps ==
    ASSUME UpgradeInv, NEW n \in UpgradeNodes, AdvanceCommit(n)
    PROVE  UpgradeInv'
<1> DEFINE status == AfterAdvance(advance[n].complete)
<1>0. /\ UpgradeTypeOK /\ PlanIsGoverned /\ AdvancesSee /\ SkillsAfterNodes
      /\ advance[n].stage = "counted" /\ UNCHANGED <<verdicts, ballots, voting, voteTerm, skill, overtaken>>
      /\ advance' = [advance EXCEPT ![n] = NoAdvance]
      /\ node' = [node EXCEPT ![n] = NextState[@]]
      /\ plan' = [plan EXCEPT !.status = status] /\ status \in {"SKILL_DISTRIBUTION", "ROLLING"}
      /\ status = "SKILL_DISTRIBUTION" => Completes(n)
  BY DEF UpgradeInv, AdvanceCommit, voteVars, AfterAdvance, Completes
<1> HIDE DEF status
<1>1. Moving(n) /\ node[n] \in {"PENDING", "DRAINING", "MIGRATING"}
  BY <1>0 DEF AdvancesSee, Moving, NoAdvance
<1>2. /\ node'[n] = IF node[n] = "PENDING" THEN "DRAINING"
                    ELSE IF node[n] = "DRAINING" THEN "MIGRATING" ELSE "HEALTHY"
      /\ \A k \in UpgradeNodes : k # n => node'[k] = node[k] /\ advance'[k] = advance[k]
      /\ advance'[n] = NoAdvance
      /\ node' \in [UpgradeNodes -> NodeStates]
  BY <1>0, <1>1 DEF UpgradeTypeOK, NextState, NodeStates
<1>3. /\ plan' \in [status : PlanStatus, by : SUBSET Managers, verified : BOOLEAN, auto : BOOLEAN,
                    electors : SUBSET Voters]
      /\ plan'.status = status /\ plan'.auto = plan.auto /\ plan'.verified = plan.verified
      /\ plan'.by = plan.by /\ plan'.electors = plan.electors
  BY <1>0, PlanMoves DEF PlanStatus
<1>4. UpgradeTypeOK'
  BY <1>0, <1>2, <1>3 DEF UpgradeTypeOK, NoAdvance
<1>5. PlanIsGoverned'
  <2>1. plan.status \notin Unrolled /\ plan.status \in PlanStatus
    BY <1>0, <1>1, PlanParts DEF PlanIsGoverned, Rolling
  <2>2. HumanApproved' = HumanApproved /\ QuorumHeld' = QuorumHeld
    BY <1>0, <1>3, ApprovalsLast
  <2> QED
    BY <1>0, <1>3, <2>1, <2>2 DEF PlanIsGoverned, Unrolled, AfterQuorum, PlanStatus
<1>6. \A k \in UpgradeNodes : /\ Moving(k)' => k # n /\ Moving(k)
                              /\ Departs(k)' => k # n /\ Departs(k)
                              /\ Completes(k)' => k # n /\ Completes(k)
                              /\ Busy(k)' => Busy(k) \/ (k = n /\ Departs(n))
  <2> TAKE k \in UpgradeNodes
  <2>1. CASE k = n
    <3>1. ~Moving(n)' /\ ~Completes(n)'
      BY <1>2 DEF Moving, Completes, NoAdvance
    <3>2. Busy(n)' => Busy(n) \/ Departs(n)
      BY <1>1, <1>2 DEF Busy, Departs
    <3> QED
      BY <2>1, <3>1, <3>2 DEF Departs
  <2>2. CASE k # n
    BY <1>2, <2>2 DEF Moving, Departs, Completes, Busy
  <2> QED
    BY <2>1, <2>2
<1>7. AdvancesSee'
  <2>1. \A k \in UpgradeNodes : Moving(k)' => node'[k] \in {"PENDING", "DRAINING", "MIGRATING"}
    BY <1>0, <1>2, <1>6 DEF AdvancesSee
  <2>2. ~overtaken' => \A k \in UpgradeNodes : Completes(k)' =>
            node'[k] = "MIGRATING" /\ \A j \in UpgradeNodes \ {k} : node'[j] \in {"NONE", "HEALTHY"}
    <3> SUFFICES ASSUME ~overtaken, NEW k \in UpgradeNodes, Completes(k)'
                 PROVE  FALSE
      BY <1>0
    <3>1. k # n /\ Completes(k)
      BY <1>6
    <3>2. node[n] \in {"NONE", "HEALTHY"}
      BY <1>0, <3>1 DEF AdvancesSee
    <3> QED
      BY <1>1, <3>2
  <2>3. ~overtaken' => \A j, k \in UpgradeNodes : Busy(j)' /\ (Busy(k)' \/ Departs(k)') => j = k
    BY <1>0, <1>6 DEF AdvancesSee
  <2>4. ~overtaken' => \A j, k \in UpgradeNodes : Departs(j)' /\ Departs(k)' => j = k
    BY <1>0, <1>6 DEF AdvancesSee
  <2> QED
    BY <2>1, <2>2, <2>3, <2>4 DEF AdvancesSee
<1>8. SkillsAfterNodes'
  <2>1. Sent' = Sent
    BY <1>0 DEF Sent
  <2> QED
    BY <1>0, <1>1, <1>2, <1>3, <2>1 DEF SkillsAfterNodes, AdvancesSee
<1> QED
  BY <1>4, <1>5, <1>7, <1>8 DEF UpgradeInv

(* What is told to the agents, and what they answer, moves no node. *)
LEMMA TellingKeeps ==
    ASSUME UpgradeInv,
           \/ \E named \in SUBSET SkillAgents \ {{}} : DistributeSkill(named)
           \/ \E a \in SkillAgents, verified, safe \in BOOLEAN : AcknowledgeSkill(a, verified, safe)
    PROVE  UpgradeInv'
<1>0. /\ UpgradeTypeOK /\ PlanIsGoverned /\ AdvancesSee /\ SkillsAfterNodes
      /\ UNCHANGED <<plan, verdicts, ballots, voting, voteTerm, node, advance, overtaken>>
  BY DEF UpgradeInv, DistributeSkill, AcknowledgeSkill, voteVars
<1>1. /\ skill' \in [SkillAgents -> {"none", "OLD_VERSION", "ACTIVE"}]
      /\ Sent' => Sent \/ plan.status = "SKILL_DISTRIBUTION"
  <2>1. ASSUME NEW named \in SUBSET SkillAgents, DistributeSkill(named)
        PROVE  skill' \in [SkillAgents -> {"none", "OLD_VERSION", "ACTIVE"}] /\ plan.status = "SKILL_DISTRIBUTION"
    BY <1>0, <2>1, SendingKeepsType DEF DistributeSkill
  <2>2. ASSUME NEW a \in SkillAgents, NEW verified \in BOOLEAN, NEW safe \in BOOLEAN,
               AcknowledgeSkill(a, verified, safe)
        PROVE  skill' \in [SkillAgents -> {"none", "OLD_VERSION", "ACTIVE"}] /\ Sent
    BY <1>0, <2>2 DEF AcknowledgeSkill, UpgradeTypeOK, Sent
  <2> QED
    BY <2>1, <2>2
<1>2. UpgradeTypeOK'
  BY <1>0, <1>1 DEF UpgradeTypeOK
<1>3. AdvancesSee' /\ SkillsAfterNodes' /\ Rolling' = Rolling
  BY <1>0, <1>1 DEF AdvancesSee, Moving, Departs, Completes, Busy, SkillsAfterNodes, Rolling
<1>4. PlanIsGoverned'
  BY <1>0, <1>1, <1>3 DEF PlanIsGoverned, Unrolled, HumanApproved, QuorumHeld, ApprovedIn
<1> QED
  BY <1>2, <1>3, <1>4 DEF UpgradeInv

LEMMA RolloutStepKeeps == MembersHaveIds /\ UpgradeInv /\ [UpgradeNext]_upgradeVars => UpgradeInv'
<1> SUFFICES ASSUME MembersHaveIds, UpgradeInv, [UpgradeNext]_upgradeVars
             PROVE  UpgradeInv'
  OBVIOUS
<1>1. CASE UNCHANGED upgradeVars
  <2>1. UNCHANGED rolloutVars /\ UpgradeTypeOK' /\ UNCHANGED plan
    BY <1>1 DEF upgradeVars, rolloutVars, UpgradeInv, UpgradeTypeOK
  <2>2. AdvancesSee' /\ SkillsAfterNodes' /\ Rolling' = Rolling /\ Sent' = Sent
    BY <2>1, NodesRest
  <2> QED
    BY <1>1, <2>1, <2>2 DEF upgradeVars, UpgradeInv, PlanIsGoverned, HumanApproved, QuorumHeld, ApprovedIn
<1> QED
  BY <1>1, StagingKeeps, VoteKeeps, SchedulingKeeps, StartKeeps, OpeningsKeep, CommitKeeps,
     TellingKeeps DEF UpgradeNext

LEMMA RolloutBegins == UpgradeInit => UpgradeInv
<1> SUFFICES ASSUME UpgradeInit
             PROVE  UpgradeInv
  OBVIOUS
<1>1. UpgradeTypeOK
  <2>1. plan \in [status : PlanStatus, by : SUBSET Managers, verified : BOOLEAN, auto : BOOLEAN,
                  electors : SUBSET Voters]
    BY DEF UpgradeInit, PlanStatus
  <2>2. /\ ballots \in [Voters -> [approves : BOOLEAN, term : 0..MaxVoteTerm]]
        /\ voteTerm \in 1..MaxVoteTerm
    BY UpgradeAssumption DEF UpgradeInit, NoBallot
  <2>3. /\ node \in [UpgradeNodes -> NodeStates]
        /\ advance \in [UpgradeNodes -> [stage : {"none", "open", "counted"}, complete : BOOLEAN]]
    BY DEF UpgradeInit, NodeStates, NoAdvance
  <2>4. /\ voting \subseteq Voters /\ verdicts = {} /\ overtaken = FALSE
        /\ skill \in [SkillAgents -> {"none", "OLD_VERSION", "ACTIVE"}]
    BY DEF UpgradeInit
  <2> QED
    BY <2>1, <2>2, <2>3, <2>4 DEF UpgradeTypeOK
<1>2. plan.status = "NONE" /\ plan.auto = FALSE /\ ~Rolling /\ ~Sent
  BY DEF UpgradeInit, Rolling, Sent
<1>3. PlanIsGoverned /\ SkillsAfterNodes
  BY <1>2 DEF PlanIsGoverned, AfterQuorum, SkillsAfterNodes
<1>4. \A n \in UpgradeNodes : ~Moving(n) /\ ~Busy(n) /\ ~Completes(n)
  BY DEF UpgradeInit, Moving, Busy, Completes, NoAdvance
<1>5. AdvancesSee
  BY <1>4 DEF AdvancesSee, Departs
<1> QED
  BY <1>1, <1>3, <1>5 DEF UpgradeInv

(* The types need no assumption on the ids: whatever the quorum decides, a   *)
(* step writes what the columns admit, and an advance is of a node that has  *)
(* a next state.                                                             *)
UpgradeTypes ==
    UpgradeTypeOK /\ \A n \in UpgradeNodes : Moving(n) => node[n] \in {"PENDING", "DRAINING", "MIGRATING"}

LEMMA UpgradeTypesKeep ==
    ASSUME UpgradeTypes, [UpgradeNext]_upgradeVars
    PROVE  UpgradeTypes'
<1> DEFINE PlanRow == [status : PlanStatus, by : SUBSET Managers, verified : BOOLEAN, auto : BOOLEAN,
                       electors : SUBSET Voters]
           BallotRow == [approves : BOOLEAN, term : 0..MaxVoteTerm]
           AdvanceRow == [stage : {"none", "open", "counted"}, complete : BOOLEAN]
           Keeps == \A n \in UpgradeNodes :
                      Moving(n)' => node'[n] \in {"PENDING", "DRAINING", "MIGRATING"}
           VotesTyped == /\ verdicts \subseteq (Managers \X BOOLEAN) /\ ballots \in [Voters -> BallotRow]
                         /\ voting \subseteq Voters /\ voteTerm \in 1..MaxVoteTerm
           NodesTyped == /\ node \in [UpgradeNodes -> NodeStates] /\ advance \in [UpgradeNodes -> AdvanceRow]
                         /\ skill \in [SkillAgents -> {"none", "OLD_VERSION", "ACTIVE"}]
                         /\ overtaken \in BOOLEAN
           Typed == plan \in PlanRow /\ VotesTyped /\ NodesTyped
<1>0. Typed <=> UpgradeTypeOK
  BY DEF UpgradeTypeOK
<1>1. Typed' <=> UpgradeTypeOK'
  BY DEF UpgradeTypeOK
<1>2. Typed /\ \A n \in UpgradeNodes : Moving(n) => node[n] \in {"PENDING", "DRAINING", "MIGRATING"}
  BY <1>0 DEF UpgradeTypes
<1>3. ASSUME UNCHANGED voteVars PROVE VotesTyped'
  BY <1>2, <1>3 DEF voteVars
<1>4. ASSUME UNCHANGED rolloutVars PROVE NodesTyped' /\ Keeps
  BY <1>2, <1>4 DEF rolloutVars, Moving
<1>5. ASSUME NEW h \in Managers, NEW yes \in BOOLEAN, Stage(h, yes) PROVE Typed' /\ Keeps
  <2>1. plan' \in PlanRow
    BY <1>5 DEF Stage, PlanStatus
  <2>2. VotesTyped'
    <3>1. UNCHANGED voteVars
      BY <1>5 DEF Stage
    <3> QED
      BY <1>3, <3>1
  <2>3. NodesTyped' /\ Keeps
    <3>1. UNCHANGED rolloutVars
      BY <1>5 DEF Stage
    <3> QED
      BY <1>4, <3>1
  <2> HIDE DEF PlanRow, VotesTyped, NodesTyped, Keeps
  <2> QED
    BY <2>1, <2>2, <2>3
<1>6. ASSUME NEW h \in Managers, NEW yes \in BOOLEAN, ApproveUpgrade(h, yes) PROVE Typed' /\ Keeps
  <2>1. plan' \in PlanRow
    BY <1>2, <1>6 DEF ApproveUpgrade, PlanStatus
  <2>2. verdicts' \subseteq Managers \X BOOLEAN
    <3>1. verdicts' = {v \in verdicts : v[1] # h} \cup {<<h, yes>>} /\ verdicts \subseteq Managers \X BOOLEAN
      BY <1>2, <1>6 DEF ApproveUpgrade
    <3> QED
      BY <3>1
  <2>3. VotesTyped'
    BY <1>2, <1>6, <2>2 DEF ApproveUpgrade
  <2>4. NodesTyped' /\ Keeps
    <3>1. UNCHANGED rolloutVars
      BY <1>6 DEF ApproveUpgrade
    <3> QED
      BY <1>4, <3>1
  <2> HIDE DEF PlanRow, VotesTyped, NodesTyped, Keeps
  <2> QED
    BY <2>1, <2>3, <2>4
<1>7. ASSUME AutoSchedule PROVE Typed' /\ Keeps
  <2>1. plan' \in PlanRow
    BY <1>2, <1>7 DEF AutoSchedule, PlanStatus
  <2>2. node' \in [UpgradeNodes -> NodeStates] /\ UNCHANGED advance
    BY <1>2, <1>7 DEF AutoSchedule, NodeStates
  <2>3. Keeps
    BY <1>2, <1>7 DEF AutoSchedule, Moving
  <2>4. overtaken' \in BOOLEAN /\ skill' \in [SkillAgents -> {"none", "OLD_VERSION", "ACTIVE"}]
    BY <1>0, <1>2, <1>7, SendingKeepsType DEF AutoSchedule
  <2>5. NodesTyped'
    BY <1>2, <2>2, <2>4
  <2>6. VotesTyped'
    <3>1. UNCHANGED voteVars
      BY <1>7 DEF AutoSchedule
    <3> QED
      BY <1>3, <3>1
  <2> HIDE DEF PlanRow, VotesTyped, NodesTyped, Keeps
  <2> QED
    BY <2>1, <2>3, <2>5, <2>6
<1>8. ASSUME Preflight PROVE Typed' /\ Keeps
  <2>1. plan' \in PlanRow
    BY <1>2, <1>8 DEF Preflight, PlanStatus
  <2>2. VotesTyped'
    <3>1. UNCHANGED voteVars
      BY <1>8 DEF Preflight
    <3> QED
      BY <1>3, <3>1
  <2>3. NodesTyped' /\ Keeps
    <3>1. UNCHANGED rolloutVars
      BY <1>8 DEF Preflight
    <3> QED
      BY <1>4, <3>1
  <2> HIDE DEF PlanRow, VotesTyped, NodesTyped, Keeps
  <2> QED
    BY <2>1, <2>2, <2>3
<1>9. ASSUME NewTerm PROVE Typed' /\ Keeps
  <2>1. VotesTyped' /\ UNCHANGED plan
    BY <1>2, <1>9, UpgradeAssumption DEF NewTerm
  <2>2. NodesTyped' /\ Keeps
    <3>1. UNCHANGED rolloutVars
      BY <1>9 DEF NewTerm
    <3> QED
      BY <1>4, <3>1
  <2> HIDE DEF PlanRow, VotesTyped, NodesTyped, Keeps
  <2> QED
    BY <1>2, <2>1, <2>2
<1>10. ASSUME NEW a \in Voters, VoterJoins(a) PROVE Typed' /\ Keeps
  <2>1. VotesTyped' /\ UNCHANGED plan
    BY <1>2, <1>10 DEF VoterJoins
  <2>2. NodesTyped' /\ Keeps
    <3>1. UNCHANGED rolloutVars
      BY <1>10 DEF VoterJoins
    <3> QED
      BY <1>4, <3>1
  <2> HIDE DEF PlanRow, VotesTyped, NodesTyped, Keeps
  <2> QED
    BY <1>2, <2>1, <2>2
<1>11. ASSUME NEW a \in Voters, NEW yes \in BOOLEAN, Vote(a, yes) PROVE Typed' /\ Keeps
  <2> DEFINE cast == [ballots EXCEPT ![a] = [approves |-> yes, term |-> voteTerm]]
             counts == Quorum(cast)
  <2>1. cast \in [Voters -> BallotRow]
    <3>1. [approves |-> yes, term |-> voteTerm] \in BallotRow
      BY <1>2, UpgradeAssumption
    <3> QED
      BY <1>2, <3>1
  <2>2. /\ ballots' = cast /\ UNCHANGED <<verdicts, voting, voteTerm>>
        /\ plan' = [plan EXCEPT !.status = IF counts THEN "QUORUM_APPROVAL" ELSE "HUMAN_APPROVAL",
                                !.electors = IF counts THEN voting ELSE {}]
    BY <1>11 DEF Vote
  <2> HIDE DEF cast, counts
  <2>3. plan' \in PlanRow
    BY <1>2, <2>2 DEF PlanStatus
  <2>4. VotesTyped'
    BY <1>2, <2>1, <2>2
  <2>5. NodesTyped' /\ Keeps
    <3>1. UNCHANGED rolloutVars
      BY <1>11 DEF Vote
    <3> QED
      BY <1>4, <3>1
  <2> HIDE DEF PlanRow, VotesTyped, NodesTyped, Keeps
  <2> QED
    BY <2>3, <2>4, <2>5
<1>12. ASSUME StartRollout PROVE Typed' /\ Keeps
  <2>1. plan' \in PlanRow
    BY <1>2, <1>12 DEF StartRollout, PlanStatus
  <2>2. node' \in [UpgradeNodes -> NodeStates] /\ UNCHANGED <<advance, skill, overtaken>>
    BY <1>2, <1>12 DEF StartRollout, NodeStates
  <2>3. Keeps
    BY <1>2, <1>12 DEF StartRollout, Moving
  <2>4. NodesTyped'
    BY <1>2, <2>2
  <2>5. VotesTyped'
    <3>1. UNCHANGED voteVars
      BY <1>12 DEF StartRollout
    <3> QED
      BY <1>3, <3>1
  <2> HIDE DEF PlanRow, VotesTyped, NodesTyped, Keeps
  <2> QED
    BY <2>1, <2>3, <2>4, <2>5
<1>13. ASSUME NEW n \in UpgradeNodes, AdvanceOpen(n) \/ AdvanceCount(n) \/ AdvanceAborts(n)
       PROVE  Typed' /\ Keeps
  <2>1. UNCHANGED <<plan, node, skill>> /\ UNCHANGED voteVars /\ overtaken' \in BOOLEAN
    BY <1>2, <1>13 DEF AdvanceOpen, AdvanceCount, AdvanceAborts
  <2>2. advance' \in [UpgradeNodes -> AdvanceRow]
    <3>1. PICK r \in AdvanceRow : advance' = [advance EXCEPT ![n] = r]
      <4>1. CASE AdvanceOpen(n)
        <5>1. [advance[n] EXCEPT !.stage = "open"] \in AdvanceRow
          BY <1>2
        <5>2. advance' = [advance EXCEPT ![n] = [advance[n] EXCEPT !.stage = "open"]]
          BY <1>2, <4>1 DEF AdvanceOpen
        <5> QED
          BY <5>1, <5>2
      <4>2. CASE AdvanceCount(n)
        <5> DEFINE all == /\ NextState[node[n]] = "HEALTHY"
                          /\ \A k \in UpgradeNodes \ {n} : node[k] \in {"NONE", "HEALTHY"}
        <5>1. advance' = [advance EXCEPT ![n] = [stage |-> "counted", complete |-> all]]
          BY <4>2 DEF AdvanceCount
        <5>2. all \in BOOLEAN
          OBVIOUS
        <5> HIDE DEF all
        <5>3. [stage |-> "counted", complete |-> all] \in AdvanceRow
          BY <5>2
        <5> QED
          BY <5>1, <5>3
      <4>3. CASE AdvanceAborts(n)
        BY <4>3 DEF AdvanceAborts, NoAdvance
      <4> QED
        BY <1>13, <4>1, <4>2, <4>3
    <3> QED
      BY <1>2, <3>1
  <2>3. \A k \in UpgradeNodes : k # n => advance'[k] = advance[k]
    BY <1>2, <1>13 DEF AdvanceOpen, AdvanceCount, AdvanceAborts
  <2>4. Moving(n)' => node[n] \in {"PENDING", "DRAINING", "MIGRATING"}
    BY <1>2, <1>13 DEF AdvanceOpen, AdvanceCount, AdvanceAborts, Moving, NoAdvance, NextState
  <2>5. Keeps
    BY <1>2, <2>1, <2>3, <2>4 DEF Moving
  <2> QED
    BY <1>2, <1>3, <2>1, <2>2, <2>5
<1>14. ASSUME NEW n \in UpgradeNodes, AdvanceCommit(n) PROVE Typed' /\ Keeps
  <2>1. plan' \in PlanRow
    BY <1>2, <1>14 DEF AdvanceCommit, AfterAdvance, PlanStatus
  <2>2. NextState[node[n]] \in NodeStates
    BY <1>2, <1>14 DEF AdvanceCommit, Moving, NoAdvance, NextState, NodeStates
  <2>3. /\ node' \in [UpgradeNodes -> NodeStates] /\ advance' \in [UpgradeNodes -> AdvanceRow]
        /\ UNCHANGED <<skill, overtaken>>
    BY <1>2, <1>14, <2>2 DEF AdvanceCommit, NoAdvance
  <2>4. Keeps
    BY <1>2, <1>14 DEF AdvanceCommit, Moving
  <2>5. NodesTyped'
    BY <1>2, <2>3
  <2>6. VotesTyped'
    <3>1. UNCHANGED voteVars
      BY <1>14 DEF AdvanceCommit
    <3> QED
      BY <1>3, <3>1
  <2> HIDE DEF PlanRow, VotesTyped, NodesTyped, Keeps
  <2> QED
    BY <2>1, <2>4, <2>5, <2>6
<1>15. ASSUME UNCHANGED upgradeVars PROVE Typed' /\ Keeps
  <2>1. UNCHANGED plan /\ UNCHANGED voteVars /\ UNCHANGED rolloutVars
    BY <1>15 DEF upgradeVars, voteVars, rolloutVars
  <2> HIDE DEF PlanRow, VotesTyped, NodesTyped, Keeps
  <2> QED
    BY <1>2, <1>3, <1>4, <2>1
<1>16. ASSUME \/ \E named \in SUBSET SkillAgents \ {{}} : DistributeSkill(named)
              \/ \E a \in SkillAgents, verified, safe \in BOOLEAN : AcknowledgeSkill(a, verified, safe)
       PROVE  Typed' /\ Keeps
  <2>1. UNCHANGED <<plan, node, advance, overtaken>> /\ UNCHANGED voteVars
    BY <1>16 DEF DistributeSkill, AcknowledgeSkill
  <2>2. skill' \in [SkillAgents -> {"none", "OLD_VERSION", "ACTIVE"}]
    <3>1. CASE \E named \in SUBSET SkillAgents \ {{}} : DistributeSkill(named)
      BY <1>0, <1>2, <3>1, SendingKeepsType DEF DistributeSkill
    <3>2. CASE \E a \in SkillAgents, verified, safe \in BOOLEAN : AcknowledgeSkill(a, verified, safe)
      BY <1>2, <3>2 DEF AcknowledgeSkill
    <3> QED
      BY <1>16, <3>1, <3>2
  <2>3. Keeps
    BY <1>2, <2>1 DEF Moving
  <2> QED
    BY <1>2, <1>3, <2>1, <2>2, <2>3
<1> HIDE DEF Typed, Keeps
<1>17. Typed' /\ Keeps
  BY <1>5, <1>6, <1>7, <1>8, <1>9, <1>10, <1>11, <1>12, <1>13, <1>14, <1>15, <1>16 DEF UpgradeNext
<1> QED
  BY <1>1, <1>17 DEF UpgradeTypes, Keeps

(* Every row of a rollout holds what its columns admit, whatever ids the     *)
(* group knows its members by.                                               *)
THEOREM RolloutTypes == UpgradeSpec => []UpgradeTypeOK
<1>1. UpgradeInit => UpgradeTypes
  BY RolloutBegins DEF UpgradeInv, UpgradeTypes, AdvancesSee
<1>2. UpgradeTypes => UpgradeTypeOK
  BY DEF UpgradeTypes
<1> QED
  BY <1>1, <1>2, UpgradeTypesKeep, PTL DEF UpgradeSpec

(* No unsigned package is rolled out or sent to an agent, none without a      *)
(* human approval and a quorum of one term unless its upload scheduled it;    *)
(* one node at a time leaves service, and the Skill of a rollout that its     *)
(* upload did not schedule waits for all of them; whatever advances           *)
(* interleave.                                                               *)
THEOREM RolloutStaysGoverned ==
    MembersHaveIds => (UpgradeSpec => [](UpgradeTypeOK /\ RolloutIsGoverned))
<1> SUFFICES ASSUME MembersHaveIds
             PROVE  UpgradeSpec => [](UpgradeTypeOK /\ RolloutIsGoverned)
  OBVIOUS
<1>1. UpgradeInit => UpgradeInv
  BY RolloutBegins
<1>2. UpgradeInv => UpgradeTypeOK /\ RolloutIsGoverned
  <2> SUFFICES ASSUME UpgradeInv
               PROVE  UpgradeTypeOK /\ RolloutIsGoverned
    OBVIOUS
  <2>0. UpgradeTypeOK /\ PlanIsGoverned /\ AdvancesSee /\ SkillsAfterNodes
    BY DEF UpgradeInv
  <2>1. RolloutIsApproved
    <3> SUFFICES ASSUME Rolling \/ Sent
                 PROVE  plan.verified /\ (~plan.auto => HumanApproved /\ QuorumHeld)
      BY DEF RolloutIsApproved, HumanApproved, QuorumHeld, ApprovedIn
    <3>1. plan.status \in {"ROLLING", "SKILL_DISTRIBUTION", "AUTO_SCHEDULED"}
      BY <2>0, PlanParts DEF PlanIsGoverned, Unrolled, PlanStatus
    <3> QED
      BY <2>0, <3>1 DEF PlanIsGoverned, AfterQuorum
  <2>2. OneNodeAtATime
    <3> SUFFICES ASSUME ~overtaken
                 PROVE  Cardinality({n \in UpgradeNodes : Busy(n)}) <= 1
      BY DEF OneNodeAtATime
    <3>1. CASE \E n \in UpgradeNodes : Busy(n)
      <4>1. PICK n \in UpgradeNodes : Busy(n)
        BY <3>1
      <4>2. {k \in UpgradeNodes : Busy(k)} = {n}
        BY <2>0, <4>1 DEF AdvancesSee
      <4>3. Cardinality({n}) = 1
        BY FS_Singleton
      <4> QED
        BY <4>2, <4>3
    <3>2. CASE ~\E n \in UpgradeNodes : Busy(n)
      <4>1. {k \in UpgradeNodes : Busy(k)} = {}
        BY <3>2
      <4> QED
        BY <4>1, FS_EmptySet
    <3> QED
      BY <3>1, <3>2
  <2> QED
    BY <2>0, <2>1, <2>2 DEF RolloutIsGoverned
<1> QED
  BY <1>1, <1>2, RolloutStepKeeps, PTL DEF UpgradeSpec

(* Where the group knows its members by ids that no agent has, as those the   *)
(* enrollment makes, no ballot counts for any of them: a release never gets   *)
(* past its human approval, nor to an agent, but by the schedule of its upload.*)
THEOREM ForeignIdsNeverApprove ==
    (\A a \in Voters : MemberId[a] \notin Voters) =>
        (UpgradeSpec => []( plan.status # "QUORUM_APPROVAL" /\ (Rolling \/ Sent => plan.auto)))
<1> SUFFICES ASSUME \A a \in Voters : MemberId[a] \notin Voters
             PROVE  UpgradeSpec => []( plan.status # "QUORUM_APPROVAL" /\ (Rolling \/ Sent => plan.auto))
  OBVIOUS
<1> DEFINE Unapproved == plan.status \in AfterQuorum => plan.auto
<1>0. MembersHaveIds
  BY DEF MembersHaveIds
<1>1. UpgradeInit => UpgradeInv /\ Unapproved
  BY RolloutBegins DEF UpgradeInit, AfterQuorum
<1>2. UpgradeInv /\ Unapproved /\ [UpgradeNext]_upgradeVars => UpgradeInv' /\ Unapproved'
  <2> SUFFICES ASSUME UpgradeInv, Unapproved, [UpgradeNext]_upgradeVars
               PROVE  Unapproved'
    BY <1>0, RolloutStepKeeps
  <2>0. UpgradeTypeOK /\ PlanIsGoverned /\ AdvancesSee
    BY DEF UpgradeInv
  <2>1. ASSUME NEW a \in Voters, NEW yes \in BOOLEAN, Vote(a, yes)
        PROVE  Unapproved'
    <3> DEFINE cast == [ballots EXCEPT ![a] = [approves |-> yes, term |-> voteTerm]]
    <3>1. Accepted(cast) = {}
      BY <2>0 DEF Accepted, CastNow, UpgradeTypeOK
    <3>2. Cardinality(Accepted(cast)) = 0 /\ Cardinality(voting) \in Nat
      BY <2>0, <3>1, UpgradeAssumption, FS_EmptySet, FS_Subset, FS_CardinalityType DEF UpgradeTypeOK
    <3>3. ~Quorum(cast)
      BY <3>2 DEF Quorum
    <3>4. plan' = [plan EXCEPT !.status = "HUMAN_APPROVAL", !.electors = {}]
      BY <2>1, <3>3 DEF Vote
    <3>5. plan'.status = "HUMAN_APPROVAL"
      BY <2>0, <3>4, PlanParts
    <3> QED
      BY <3>5 DEF AfterQuorum
  <2>2. ASSUME NEW n \in UpgradeNodes, AdvanceCommit(n)
        PROVE  Unapproved'
    <3>1. Rolling
      <4>1. advance[n].stage = "counted" /\ Moving(n)
        BY <2>2 DEF AdvanceCommit, Moving, NoAdvance
      <4> QED
        BY <2>0, <4>1 DEF AdvancesSee, Rolling
    <3>2. plan.status \notin Unrolled
      BY <2>0, <3>1 DEF PlanIsGoverned
    <3>3. plan.auto
      BY <2>0, <3>2, PlanParts DEF PlanIsGoverned, Unrolled, AfterQuorum, PlanStatus
    <3>4. plan'.auto = plan.auto
      BY <2>0, <2>2, PlanParts DEF AdvanceCommit
    <3> QED
      BY <3>3, <3>4
  <2>3. CASE AutoSchedule
    BY <2>0, <2>3, PlanParts DEF AutoSchedule, AfterQuorum
  <2>4. CASE StartRollout
    BY <2>0, <2>4 DEF StartRollout, PlanIsGoverned, Unrolled, AfterQuorum
  <2>5. CASE Preflight
    BY <2>0, <2>5, PlanParts DEF Preflight, AfterQuorum
  <2>6. ASSUME NEW h \in Managers, NEW yes \in BOOLEAN, Stage(h, yes) \/ ApproveUpgrade(h, yes)
        PROVE  Unapproved'
    BY <2>0, <2>6, PlanParts DEF Stage, ApproveUpgrade, AfterQuorum
  <2>7. CASE UNCHANGED plan
    BY <2>7
  <2> QED
    BY <2>1, <2>2, <2>3, <2>4, <2>5, <2>6, <2>7
       DEF UpgradeNext, upgradeVars, NewTerm, VoterJoins, AdvanceOpen, AdvanceCount, AdvanceAborts,
           DistributeSkill, AcknowledgeSkill
<1>3. UpgradeInv /\ Unapproved => plan.status # "QUORUM_APPROVAL" /\ (Rolling \/ Sent => plan.auto)
  BY PlanParts DEF UpgradeInv, PlanIsGoverned, Unrolled, AfterQuorum, PlanStatus
<1> QED
  BY <1>1, <1>2, <1>3, PTL DEF UpgradeSpec

-----------------------------------------------------------------------------
(* Platform administration commands *)

(* What a call knows of the card was read in an earlier transaction.  What *)
(* it read still holds: a card is written once, by the call that wrote the *)
(* command, and a decision on it is final.                                 *)

USE PlatformCommandsAssumption

CommandStatus == {"NONE", "PENDING_APPROVAL", "COMPLETED", "PROPOSAL_CONFIRMED", "EXPIRED"}
CardStatus == {"NONE", "PROPOSED", "CONFIRMED", "REJECTED"}
CallPlaces == {"idle", "card", "decide", "look", "execute"}
CardCalls == [at : CallPlaces, contract : Versions]

(* The types, with the fields of every record. *)
CardRows ==
    /\ command \in [status : CommandStatus, by : Officials]
    /\ actionCard \in [status : CardStatus, contract : Versions, by : Officials]
    /\ call \in [Officials -> CardCalls]
    /\ contract \in Versions /\ officials \subseteq Officials /\ overdue \in BOOLEAN

(* A card is written by the requester's own call, and only while there is none. *)
CardIsNew ==
    /\ command.status = "NONE" => actionCard.status = "NONE"
    /\ \A a \in Officials : call[a].at = "card" =>
         a = command.by /\ actionCard.status = "NONE" /\ command.status # "NONE"

(* Whoever is about to decide may, and whoever decided was allowed to. *)
DecidersMay ==
    /\ \A a \in Officials : call[a].at = "decide" => MayApprove(a)
    /\ actionCard.status = "CONFIRMED" => MayApprove(actionCard.by)

(* A call that is about to execute saw a decision that still stands. *)
ExecutorsSawConfirmed ==
    \A a \in Officials : call[a].at = "execute" => actionCard.status = "CONFIRMED"

CommandInv ==
    /\ CardRows /\ CardIsNew /\ DecidersMay /\ ExecutorsSawConfirmed
    /\ RunsOnceAsApproved

LEMMA CommandBegins == PlatformCommandsInit => CommandInv
<1> SUFFICES ASSUME PlatformCommandsInit PROVE CommandInv
  OBVIOUS
<1>1. PICK a \in Officials : /\ command = [status |-> "NONE", by |-> a]
                             /\ actionCard = [status |-> "NONE", contract |-> 1, by |-> a]
  BY DEF PlatformCommandsInit
<1>2. /\ contract = 1 /\ officials = Officials /\ overdue = FALSE
      /\ call = [b \in Officials |-> [at |-> "idle", contract |-> 1]]
      /\ executions = {}
  BY DEF PlatformCommandsInit, NoCallYet
<1>3. 1 \in Versions
  BY DEF Versions
<1>4. CardRows
  BY <1>1, <1>2, <1>3 DEF CardRows, CommandStatus, CardStatus, CardCalls, CallPlaces
<1> QED
  BY <1>1, <1>2, <1>4 DEF CommandInv, CardIsNew, DecidersMay, ExecutorsSawConfirmed, RunsOnceAsApproved

(* A step that leaves card and command alone and moves no call to a place  *)
(* that asks for more than is known.                                       *)
LEMMA CommandCallKeeps ==
    ASSUME CommandInv, NEW a \in Officials, NEW at \in {"idle", "decide", "look", "execute"},
           NEW con \in Versions,
           call' = [call EXCEPT ![a] = [at |-> at, contract |-> con]],
           at = "decide" => MayApprove(a),
           at = "execute" => actionCard.status = "CONFIRMED",
           UNCHANGED <<command, actionCard, contract, officials, overdue, executions>>
    PROVE  CommandInv'
<1>1. CardRows'
  BY DEF CommandInv, CardRows, CardCalls, CallPlaces
<1>2. \A b \in Officials : call'[b] = IF b = a THEN [at |-> at, contract |-> con] ELSE call[b]
  BY DEF CommandInv, CardRows
<1>3. CardIsNew' /\ DecidersMay' /\ ExecutorsSawConfirmed' /\ RunsOnceAsApproved'
  BY <1>2 DEF CommandInv, CardIsNew, DecidersMay, ExecutorsSawConfirmed, RunsOnceAsApproved, MayApprove
<1> QED BY <1>1, <1>3 DEF CommandInv

LEMMA CommandCallForm ==
    ASSUME CommandInv, NEW a \in Officials, NEW at
    PROVE  /\ [call EXCEPT ![a].at = at] = [call EXCEPT ![a] = [at |-> at, contract |-> call[a].contract]]
           /\ call[a].contract \in Versions
<1>1. call \in [Officials -> CardCalls] /\ call[a] \in CardCalls
  BY DEF CommandInv, CardRows
<1>2. [call[a] EXCEPT !.at = at] = [at |-> at, contract |-> call[a].contract]
  BY <1>1 DEF CardCalls
<1>3. [call EXCEPT ![a].at = at] = [call EXCEPT ![a] = [call[a] EXCEPT !.at = at]]
  OBVIOUS
<1> QED BY <1>1, <1>2, <1>3 DEF CardCalls

LEMMA HangUpForm ==
    ASSUME NEW a \in Officials, HangsUp(a)
    PROVE  call' = [call EXCEPT ![a] = [at |-> "idle", contract |-> 1]] /\ 1 \in Versions
BY DEF HangsUp, NoCallYet, Versions

(* Steps of the environment and the expiry of the command. *)
LEMMA QuietStepKeeps ==
    ASSUME CommandInv, UNCHANGED <<actionCard, call, executions>>,
           contract' \in Versions, officials' \subseteq Officials, overdue' \in BOOLEAN,
           \/ command' = command
           \/ PendingCommand /\ command' = [command EXCEPT !.status = "EXPIRED"]
    PROVE  CommandInv'
<1>1. /\ command' \in [status : CommandStatus, by : Officials] /\ command'.by = command.by
      /\ command' # command => command.status = "PENDING_APPROVAL" /\ command'.status = "EXPIRED"
  <2>1. CASE command' = command BY <2>1 DEF CommandInv, CardRows
  <2>2. CASE PendingCommand /\ command' = [command EXCEPT !.status = "EXPIRED"]
    <3>1. command' = [status |-> "EXPIRED", by |-> command.by]
      BY <2>2 DEF CommandInv, CardRows
    <3> QED BY <2>2, <3>1 DEF CommandInv, CardRows, PendingCommand, CommandStatus
  <2> QED BY <2>1, <2>2
<1>2. CardRows'
  BY <1>1 DEF CommandInv, CardRows, CommandStatus, CardStatus, CardCalls, CallPlaces
<1>3. CardIsNew' /\ DecidersMay' /\ ExecutorsSawConfirmed'
  BY <1>1 DEF CommandInv, CardIsNew, DecidersMay, ExecutorsSawConfirmed, MayApprove
<1>4. RunsOnceAsApproved'
  BY <1>1 DEF CommandInv, RunsOnceAsApproved
<1> QED BY <1>2, <1>3, <1>4 DEF CommandInv

LEMMA CreateCommandKeeps ==
    ASSUME CommandInv, NEW a \in Officials, CreateCommand(a)
    PROVE  CommandInv'
<1>1. /\ command' = [status |-> "PENDING_APPROVAL", by |-> command.by]
      /\ call' = [call EXCEPT ![a] = [at |-> "card", contract |-> contract]]
      /\ a = command.by /\ command.status = "NONE" /\ actionCard.status = "NONE"
      /\ UNCHANGED <<actionCard, contract, officials, overdue, executions>>
  BY DEF CreateCommand, CommandInv, CardRows, CardIsNew
<1>2. CardRows'
  BY <1>1 DEF CommandInv, CardRows, CommandStatus, CardStatus, CardCalls, CallPlaces
<1>3. executions = {}
  BY <1>1 DEF CommandInv, RunsOnceAsApproved
<1> QED
  BY <1>1, <1>2, <1>3 DEF CommandInv, CardRows, CardIsNew, DecidersMay, ExecutorsSawConfirmed,
                          RunsOnceAsApproved, MayApprove

LEMMA CreateCardKeeps ==
    ASSUME CommandInv, NEW a \in Officials, CreateCard(a)
    PROVE  CommandInv'
<1>1. /\ actionCard' = [status |-> "PROPOSED", contract |-> call[a].contract, by |-> a]
      /\ call[a].at = "card"
      /\ UNCHANGED <<command, contract, officials, overdue, executions>>
  BY DEF CreateCard
<1>2. call' = [call EXCEPT ![a] = [at |-> "idle", contract |-> 1]] /\ 1 \in Versions
  BY HangUpForm DEF CreateCard
<1>3. a = command.by /\ actionCard.status = "NONE" /\ command.status # "NONE"
  BY <1>1 DEF CommandInv, CardIsNew
<1>4. CardRows'
  BY <1>1, <1>2 DEF CommandInv, CardRows, CommandStatus, CardStatus, CardCalls, CallPlaces
<1>5. executions = {}
  BY <1>3 DEF CommandInv, RunsOnceAsApproved
<1>6. \A b \in Officials : call[b].at = "execute" => FALSE
  BY <1>3 DEF CommandInv, ExecutorsSawConfirmed
<1> QED
  BY <1>1, <1>2, <1>3, <1>4, <1>5, <1>6
     DEF CommandInv, CardRows, CardIsNew, DecidersMay, ExecutorsSawConfirmed, RunsOnceAsApproved,
          MayApprove

LEMMA DecisionKeeps ==
    ASSUME CommandInv, NEW a \in Officials, DecideAction(a)
    PROVE  CommandInv'
<1>1. PICK d \in {"CONFIRMED", "REJECTED"} :
        /\ actionCard' = IF actionCard.status # "PROPOSED" THEN actionCard
                         ELSE [actionCard EXCEPT !.status = d, !.by = a]
        /\ IF d = "CONFIRMED" THEN MovesTo(a, "look") ELSE HangsUp(a)
  BY DEF DecideAction
<1>2. call[a].at = "decide" /\ UNCHANGED <<command, contract, officials, overdue, executions>>
  BY DEF DecideAction
<1>3. PICK at \in {"idle", "look"}, con \in Versions : call' = [call EXCEPT ![a] = [at |-> at, contract |-> con]]
  <2>1. CASE d = "CONFIRMED"
    <3>1. call' = [call EXCEPT ![a] = [at |-> "look", contract |-> call[a].contract]]
      BY <1>1, <2>1, CommandCallForm DEF MovesTo
    <3> QED BY <3>1, CommandCallForm
  <2>2. CASE d # "CONFIRMED"
    BY <1>1, <2>2, HangUpForm
  <2> QED BY <2>1, <2>2
<1>4. CASE actionCard.status # "PROPOSED"
  <2>1. actionCard' = actionCard BY <1>1, <1>4
  <2> QED BY <1>2, <1>3, <2>1, CommandCallKeeps
<1>5. CASE actionCard.status = "PROPOSED"
  <2>1. actionCard' = [status |-> d, contract |-> actionCard.contract, by |-> a]
    BY <1>1, <1>5 DEF CommandInv, CardRows
  <2>2. MayApprove(a)
    BY <1>2 DEF CommandInv, DecidersMay
  <2>3. CardRows'
    BY <1>2, <1>3, <2>1 DEF CommandInv, CardRows, CommandStatus, CardStatus, CardCalls, CallPlaces
  <2>4. executions = {}
    BY <1>5 DEF CommandInv, RunsOnceAsApproved
  <2>5. command.status # "NONE" /\ \A b \in Officials : call[b].at # "card" /\ call[b].at # "execute"
    BY <1>5 DEF CommandInv, CardIsNew, ExecutorsSawConfirmed
  <2>6. CardIsNew' /\ ExecutorsSawConfirmed' /\ RunsOnceAsApproved'
    BY <1>2, <1>3, <2>4, <2>5 DEF CommandInv, CardRows, CardIsNew, ExecutorsSawConfirmed,
         RunsOnceAsApproved
  <2>7. DecidersMay'
    BY <1>2, <1>3, <2>1, <2>2 DEF CommandInv, CardRows, DecidersMay, MayApprove
  <2> QED BY <2>3, <2>6, <2>7 DEF CommandInv
<1> QED BY <1>4, <1>5

LEMMA ExecuteKeeps ==
    ASSUME CommandInv, NEW a \in Officials, ExecuteCommand(a)
    PROVE  CommandInv'
<1>1. PICK s \in {"COMPLETED", "PROPOSAL_CONFIRMED"} : command' = [command EXCEPT !.status = s]
  BY DEF ExecuteCommand
<1>2. /\ call[a].at = "execute" /\ actionCard.contract = contract /\ command.status = "PENDING_APPROVAL"
      /\ executions' = executions \cup {[by |-> a, contract |-> contract]}
      /\ UNCHANGED <<actionCard, contract, officials, overdue>>
  BY DEF ExecuteCommand, ApprovedContract, Executable, PendingCommand
<1>3. call' = [call EXCEPT ![a] = [at |-> "idle", contract |-> 1]] /\ 1 \in Versions
  BY HangUpForm DEF ExecuteCommand
<1>4. command' = [status |-> s, by |-> command.by]
  BY <1>1 DEF CommandInv, CardRows
<1>5. actionCard.status = "CONFIRMED" /\ MayApprove(actionCard.by)
  BY <1>2 DEF CommandInv, ExecutorsSawConfirmed, DecidersMay
<1>6. executions' = {[by |-> a, contract |-> contract]}
  BY <1>2 DEF CommandInv, RunsOnceAsApproved
<1>7. CardRows'
  BY <1>2, <1>3, <1>4 DEF CommandInv, CardRows, CommandStatus, CardStatus, CardCalls, CallPlaces
<1>8. CardIsNew' /\ DecidersMay' /\ ExecutorsSawConfirmed'
  BY <1>2, <1>3, <1>4, <1>5 DEF CommandInv, CardRows, CardIsNew, DecidersMay,
       ExecutorsSawConfirmed, MayApprove
<1>9. RunsOnceAsApproved'
  BY <1>2, <1>4, <1>5, <1>6 DEF RunsOnceAsApproved, MayApprove
<1> QED BY <1>7, <1>8, <1>9 DEF CommandInv

LEMMA CommandStepKeeps ==
    ASSUME CommandInv, [PlatformCommandsNext]_commandVars
    PROVE  CommandInv'
<1>0. contract \in Versions /\ officials \subseteq Officials /\ overdue \in BOOLEAN
  BY DEF CommandInv, CardRows, CommandStatus, CardStatus, CardCalls, CallPlaces
<1>1. CASE UNCHANGED commandVars \/ ExpireCommand \/ TimePasses \/ \E a \in Officials : RevokeOfficial(a)
  BY <1>0, <1>1, QuietStepKeeps DEF commandVars, ExpireCommand, TimePasses, RevokeOfficial
<1>2. CASE PublishContract
  <2>1. contract' \in Versions BY <1>0, <1>2 DEF PublishContract, Versions
  <2> QED BY <1>0, <1>2, <2>1, QuietStepKeeps DEF PublishContract
<1>3. ASSUME NEW a \in Officials, ReadCard(a) PROVE CommandInv'
  <2>1. PICK at \in {"decide", "look"} :
          /\ call' = [call EXCEPT ![a] = [at |-> at, contract |-> call[a].contract]]
          /\ at = "decide" => MayApprove(a)
    BY <1>3, CommandCallForm DEF ReadCard, MovesTo
  <2> QED BY <1>3, <2>1, CommandCallForm, CommandCallKeeps DEF ReadCard
<1>4. ASSUME NEW a \in Officials, LookAtDecision(a) PROVE CommandInv'
  <2>1. CASE actionCard.status = "CONFIRMED"
    <3>1. call' = [call EXCEPT ![a] = [at |-> "execute", contract |-> call[a].contract]]
      BY <1>4, <2>1, CommandCallForm DEF LookAtDecision, MovesTo
    <3> QED BY <1>4, <2>1, <3>1, CommandCallForm, CommandCallKeeps DEF LookAtDecision
  <2>2. CASE actionCard.status # "CONFIRMED"
    BY <1>4, <2>2, HangUpForm, CommandCallKeeps DEF LookAtDecision
  <2> QED BY <2>1, <2>2
<1>5. ASSUME NEW a \in Officials, CallEnds(a) PROVE CommandInv'
  BY <1>5, HangUpForm, CommandCallKeeps DEF CallEnds
<1> QED
  BY <1>1, <1>2, <1>3, <1>4, <1>5, CreateCommandKeeps, CreateCardKeeps, DecisionKeeps, ExecuteKeeps
     DEF PlatformCommandsNext

LEMMA CommandKeeps == PlatformCommandsSpec => []CommandInv
<1>1. CommandInv /\ [PlatformCommandsNext]_commandVars => CommandInv' BY CommandStepKeeps
<1> QED BY CommandBegins, <1>1, PTL DEF PlatformCommandsSpec

(* Command, card and calls have their types. *)
THEOREM CommandTypes == PlatformCommandsSpec => []PlatformCommandsTypeOK
<1>1. CommandInv => PlatformCommandsTypeOK
  BY DEF CommandInv, CardRows, PlatformCommandsTypeOK, CommandStatus, CardStatus, CardCalls,
       CallPlaces
<1> QED BY CommandKeeps, <1>1, PTL

(* A command runs at most once, under the contract its confirmed card      *)
(* shows, decided by someone who may (platform_agent_pool.py:607-826).     *)
THEOREM CommandsRunOnceAsApproved == PlatformCommandsSpec => []RunsOnceAsApproved
<1>1. CommandInv => RunsOnceAsApproved BY DEF CommandInv
<1> QED BY CommandKeeps, <1>1, PTL

HIDE PlatformCommandsAssumption

-----------------------------------------------------------------------------
(* The group of admin agents *)

(* Every change of a weight, a membership or the leader ends in the check  *)
(* of the weights and in the term that is current.                         *)

(* The fold of validate_weights over the two other voters is their sum. *)
LEMMA SumOfTwo ==
    ASSUME NEW m, NEW a, NEW b, a # b, m[a].weight \in Nat, m[b].weight \in Nat
    PROVE  WeightSum(m, {a, b}) = m[a].weight + m[b].weight
<1> DEFINE pick(s) == CHOOSE x \in s : TRUE
           sums(f) == [s \in SUBSET {a, b} |->
                         IF s = {} THEN 0 ELSE f[s \ {pick(s)}] + m[pick(s)].weight]
           iter == CHOOSE f : f = sums(f)
           it == [s \in SUBSET {a, b} |->
                    (IF a \in s THEN m[a].weight ELSE 0) + (IF b \in s THEN m[b].weight ELSE 0)]
<1>0. WeightSum(m, {a, b}) = iter[{a, b}]
  BY DEF WeightSum, FoldSet, MapThenFoldSet
<1>1. it = sums(it)
  <2> SUFFICES ASSUME NEW s \in SUBSET {a, b}
               PROVE  it[s] = IF s = {} THEN 0 ELSE it[s \ {pick(s)}] + m[pick(s)].weight
    BY SMTT(20), ZenonT(40)
  <2>1. CASE s = {}
    BY <2>1
  <2>2. CASE s # {}
    <3>1. pick(s) \in s /\ pick(s) \in {a, b} /\ s \ {pick(s)} \in SUBSET {a, b}
      BY <2>2
    <3> HIDE DEF pick
    <3>2. it[s \ {pick(s)}] = (IF a \in s \ {pick(s)} THEN m[a].weight ELSE 0)
                              + (IF b \in s \ {pick(s)} THEN m[b].weight ELSE 0)
      BY <3>1
    <3>3. it[s] = (IF a \in s THEN m[a].weight ELSE 0) + (IF b \in s THEN m[b].weight ELSE 0)
      OBVIOUS
    <3> HIDE DEF it
    <3>4. CASE pick(s) = a
      BY <2>2, <3>1, <3>2, <3>3, <3>4
    <3>5. CASE pick(s) = b
      BY <2>2, <3>1, <3>2, <3>3, <3>5
    <3> QED
      BY <3>1, <3>4, <3>5
  <2> QED
    BY <2>1, <2>2
<1> HIDE DEF it
<1>2. iter = sums(iter)
  <2> HIDE DEF sums
  <2> QED
    BY <1>1
<1> HIDE DEF iter
<1>3. \A s \in SUBSET {a, b} :
        iter[s] = IF s = {} THEN 0 ELSE iter[s \ {pick(s)}] + m[pick(s)].weight
  BY <1>2
<1>4. iter[{}] = 0
  BY <1>3
<1>5. \A x \in {a, b} : iter[{x}] = m[x].weight
  <2> SUFFICES ASSUME NEW x \in {a, b}
               PROVE  iter[{x}] = m[x].weight
    OBVIOUS
  <2>1. pick({x}) = x
    OBVIOUS
  <2>2. {x} \in SUBSET {a, b} /\ {x} # {} /\ {x} \ {x} = {} /\ m[x].weight \in Nat
    OBVIOUS
  <2> HIDE DEF pick
  <2>3. iter[{x}] = iter[{x} \ {pick({x})}] + m[pick({x})].weight
    BY <1>3, <2>2
  <2> QED
    BY <1>4, <2>1, <2>2, <2>3
<1>6. iter[{a, b}] = iter[{a, b} \ {pick({a, b})}] + m[pick({a, b})].weight
  BY <1>3
<1>7. pick({a, b}) = a \/ pick({a, b}) = b
  OBVIOUS
<1> HIDE DEF pick
<1>8. {a, b} \ {a} = {b} /\ {a, b} \ {b} = {a}
  OBVIOUS
<1>9. CASE pick({a, b}) = a
  <2>1. iter[{a, b}] = iter[{b}] + m[a].weight
    BY <1>6, <1>8, <1>9
  <2> QED
    BY <1>0, <1>5, <2>1
<1>10. CASE pick({a, b}) = b
  <2>1. iter[{a, b}] = iter[{a}] + m[b].weight
    BY <1>6, <1>8, <1>10
  <2> QED
    BY <1>0, <1>5, <2>1
<1> QED
  BY <1>7, <1>9, <1>10

GroupInv == GroupTypeOK /\ ValidWeights(member) /\ TermNamesOneLeader /\ \A e \in elected : e[1] <= group.term

LEMMA GroupParts ==
    ASSUME GroupTypeOK
    PROVE  /\ \A a \in Admins : member[a] = [state |-> member[a].state, by |-> member[a].by,
                                             weight |-> member[a].weight]
           /\ \A a \in Admins : /\ member[a].state \in MemberStates /\ member[a].by \in SUBSET Humans
                                /\ member[a].weight \in Nat
           /\ group = [term |-> group.term, leader |-> group.leader, leased |-> group.leased]
           /\ group.term \in 0..MaxTerm /\ group.leader \in Admins \cup {NoAdmin} /\ group.leased \in BOOLEAN
BY DEF GroupTypeOK

(* The weights of the voters are all validate_weights reads. *)
LEMMA OnlyVotersWeigh ==
    ASSUME NEW m, NEW k, Voting(k) = Voting(m), \A a \in Voting(m) : k[a].weight = m[a].weight,
           \A a \in Voting(m) : m[a].weight \in Nat, ValidWeights(m)
    PROVE  ValidWeights(k)
<1> DEFINE V == Voting(m)
<1>1. \A a, b \in V : a # b => k[a].weight # k[b].weight
  BY DEF ValidWeights
<1>2. ASSUME Cardinality(V) = 3, NEW a \in V
      PROVE  k[a].weight < WeightSum(k, V \ {a})
  <2>1. m[a].weight < WeightSum(m, V \ {a})
    BY <1>2 DEF ValidWeights
  <2>2. PICK b, c : b # c /\ V \ {a} = {b, c}
    <3>1. IsFiniteSet(V)
      BY <1>2, GroupAssumption, FS_Subset DEF Voting
    <3>2. IsFiniteSet(V \ {a}) /\ Cardinality(V \ {a}) = 2
      <4> HIDE DEF V
      <4> QED
        BY <1>2, <3>1, FS_RemoveElement
    <3>3. PICK b : b \in V \ {a}
      BY <3>2, FS_EmptySet
    <3>4. IsFiniteSet((V \ {a}) \ {b}) /\ Cardinality((V \ {a}) \ {b}) = 1
      BY <3>2, <3>3, FS_RemoveElement
    <3>5. PICK c : (V \ {a}) \ {b} = {c}
      BY <3>4, FS_Singleton
    <3>6. b # c /\ V \ {a} = {b, c}
      BY <3>3, <3>5
    <3> QED
      BY <3>6
  <2>3. b \in V /\ c \in V
    BY <2>2
  <2>4. /\ k[b].weight = m[b].weight /\ k[c].weight = m[c].weight /\ k[a].weight = m[a].weight
        /\ m[b].weight \in Nat /\ m[c].weight \in Nat
    BY <1>2, <2>3
  <2>5. WeightSum(k, {b, c}) = k[b].weight + k[c].weight
    <3>1. k[b].weight \in Nat /\ k[c].weight \in Nat
      BY <2>4
    <3> QED
      BY <2>2, <3>1, SumOfTwo
  <2>6. WeightSum(m, {b, c}) = m[b].weight + m[c].weight
    <3>1. m[b].weight \in Nat /\ m[c].weight \in Nat
      BY <2>4
    <3> QED
      BY <2>2, <3>1, SumOfTwo
  <2> QED
    BY <2>1, <2>2, <2>4, <2>5, <2>6
<1> QED
  BY <1>1, <1>2 DEF ValidWeights

(* A step that writes one or two columns of a member replaces its row. *)
MemberRows == [state : MemberStates, by : SUBSET Humans, weight : Nat]

LEMMA EnrollWrites ==
    ASSUME member \in [Admins -> MemberRows], NEW a \in Admins, NEW h \in Humans, EnrollAdmin(h, a)
    PROVE  member' = [member EXCEPT ![a] = [state |-> "CANDIDATE", by |-> {h}, weight |-> member[a].weight]]
<1> DEFINE row == [state |-> "CANDIDATE", by |-> member[a].by, weight |-> member[a].weight]
           half == [member EXCEPT ![a] = row]
           new == [state |-> "CANDIDATE", by |-> {h}, weight |-> member[a].weight]
<1>1. [member EXCEPT ![a].state = "CANDIDATE"] = half
  <2>1. member[a] \in MemberRows
    OBVIOUS
  <2>2. [member[a] EXCEPT !.state = "CANDIDATE"] = row
    BY <2>1 DEF MemberRows
  <2>3. [member EXCEPT ![a].state = "CANDIDATE"] = [member EXCEPT ![a] = [member[a] EXCEPT !.state = "CANDIDATE"]]
    OBVIOUS
  <2> QED
    BY <2>2, <2>3
<1>2. member' = [[member EXCEPT ![a].state = "CANDIDATE"] EXCEPT ![a].by = {h}]
  BY DEF EnrollAdmin
<1>3. member' = [half EXCEPT ![a].by = {h}]
  <2> HIDE DEF half
  <2> QED
    BY <1>1, <1>2, Zenon
<1>4. [half EXCEPT ![a].by = {h}] = [half EXCEPT ![a] = [half[a] EXCEPT !.by = {h}]]
  OBVIOUS
<1>5. half[a] = row
  <2> HIDE DEF row
  <2> QED
    OBVIOUS
<1>6. [row EXCEPT !.by = {h}] = new
  OBVIOUS
<1>7. [half EXCEPT ![a] = new] = [member EXCEPT ![a] = new]
  <2> HIDE DEF row, new
  <2> QED
    OBVIOUS
<1> HIDE DEF half, row, new
<1>8. member' = [member EXCEPT ![a] = new]
  BY <1>3, <1>4, <1>5, <1>6, <1>7, Zenon
<1> QED
  BY <1>8 DEF new

LEMMA ApproveWrites ==
    ASSUME member \in [Admins -> MemberRows], NEW a \in Admins, NEW h \in Humans, NEW w \in Weights, ApproveAdmin(h, a, w)
    PROVE  member' = [member EXCEPT ![a] = [state |-> "ACTIVE", by |-> member[a].by, weight |-> w]]
<1> DEFINE row == [state |-> "ACTIVE", by |-> member[a].by, weight |-> member[a].weight]
           half == [member EXCEPT ![a] = row]
           new == [state |-> "ACTIVE", by |-> member[a].by, weight |-> w]
<1>1. [member EXCEPT ![a].state = "ACTIVE"] = half
  <2>1. member[a] \in MemberRows
    OBVIOUS
  <2>2. [member[a] EXCEPT !.state = "ACTIVE"] = row
    BY <2>1 DEF MemberRows
  <2>3. [member EXCEPT ![a].state = "ACTIVE"] = [member EXCEPT ![a] = [member[a] EXCEPT !.state = "ACTIVE"]]
    OBVIOUS
  <2> QED
    BY <2>2, <2>3
<1>2. member' = [[member EXCEPT ![a].state = "ACTIVE"] EXCEPT ![a].weight = w]
  BY DEF ApproveAdmin
<1>3. member' = [half EXCEPT ![a].weight = w]
  <2> HIDE DEF half
  <2> QED
    BY <1>1, <1>2, Zenon
<1>4. [half EXCEPT ![a].weight = w] = [half EXCEPT ![a] = [half[a] EXCEPT !.weight = w]]
  OBVIOUS
<1>5. half[a] = row
  <2> HIDE DEF row
  <2> QED
    OBVIOUS
<1>6. [row EXCEPT !.weight = w] = new
  OBVIOUS
<1>7. [half EXCEPT ![a] = new] = [member EXCEPT ![a] = new]
  <2> HIDE DEF row, new
  <2> QED
    OBVIOUS
<1> HIDE DEF half, row, new
<1>8. member' = [member EXCEPT ![a] = new]
  BY <1>3, <1>4, <1>5, <1>6, <1>7, Zenon
<1> QED
  BY <1>8 DEF new

(* A step that changes the enrollment of one agent that does not vote. *)
LEMMA VotersStay ==
    ASSUME GroupInv, UNCHANGED <<group, elected>>,
           NEW a \in Admins, member[a].state # "ACTIVE",
           NEW row \in MemberRows, row.state # "ACTIVE",
           member' = [member EXCEPT ![a] = row]
    PROVE  GroupInv'
<1>1. GroupTypeOK'
  BY DEF GroupInv, GroupTypeOK, MemberRows
<1>2. \A b \in Admins : member'[b] = IF b = a THEN row ELSE member[b]
  BY DEF GroupInv, GroupTypeOK
<1>3. Voting(member') = Voting(member) /\ \A b \in Voting(member) : member'[b] = member[b]
  BY <1>2 DEF Voting
<1>4. \A b \in Voting(member) : member[b].weight \in Nat
  BY GroupParts DEF GroupInv, Voting
<1>5. ValidWeights(member')
  BY <1>3, <1>4, OnlyVotersWeigh DEF GroupInv
<1> QED
  BY <1>1, <1>5 DEF GroupInv, TermNamesOneLeader

LEMMA EnrollmentKeeps ==
    ASSUME GroupInv, NEW a \in Admins,
           (\E h \in Humans : EnrollAdmin(h, a)) \/ EnrollmentExpires(a) \/ ObserveAdmin(a)
    PROVE  GroupInv'
<1>0. GroupTypeOK /\ UNCHANGED <<group, elected>> /\ member[a].state # "ACTIVE"
  BY DEF GroupInv, EnrollAdmin, EnrollmentExpires, ObserveAdmin
<1>1. /\ member \in [Admins -> MemberRows]
      /\ member[a].by \in SUBSET Humans /\ member[a].weight \in Nat
  BY <1>0, GroupParts DEF GroupTypeOK, MemberRows
<1>2. ASSUME NEW h \in Humans, EnrollAdmin(h, a)
      PROVE  GroupInv'
  <2> DEFINE row == [state |-> "CANDIDATE", by |-> {h}, weight |-> member[a].weight]
  <2>1. member' = [member EXCEPT ![a] = row]
    BY <1>1, <1>2, EnrollWrites
  <2>2. row \in MemberRows /\ row.state # "ACTIVE"
    BY <1>1 DEF MemberStates, MemberRows
  <2> HIDE DEF row
  <2> QED
    BY <1>0, <2>1, <2>2, VotersStay
<1>3. ASSUME NEW state \in {"EXPIRED", "OBSERVATION"}, member' = [member EXCEPT ![a].state = state]
      PROVE  GroupInv'
  <2> DEFINE row == [state |-> state, by |-> member[a].by, weight |-> member[a].weight]
  <2>1. member' = [member EXCEPT ![a] = row]
    <3>1. member[a] \in MemberRows
      BY <1>1
    <3>2. [member[a] EXCEPT !.state = state] = row
      BY <3>1 DEF MemberRows
    <3> QED
      BY <1>3, <3>2
  <2>2. row \in MemberRows /\ row.state # "ACTIVE"
    BY <1>1 DEF MemberStates, MemberRows
  <2> HIDE DEF row
  <2> QED
    BY <1>0, <2>1, <2>2, VotersStay
<1> QED
  BY <1>2, <1>3 DEF EnrollmentExpires, ObserveAdmin

(* A step validate_weights allowed. *)
LEMMA WeighingKeeps ==
    ASSUME GroupInv, NEW a \in Admins, NEW w \in Weights,
           (\E h \in Humans : ApproveAdmin(h, a, w)) \/ SetWeight(a, w)
    PROVE  GroupInv'
<1>0. GroupTypeOK /\ UNCHANGED <<group, elected>> /\ ValidWeights(member')
  BY DEF GroupInv, ApproveAdmin, SetWeight
<1>1. /\ member \in [Admins -> MemberRows]
      /\ member[a].state \in MemberStates /\ member[a].by \in SUBSET Humans /\ w \in Nat
  BY <1>0, GroupParts, GroupAssumption DEF GroupTypeOK, MemberRows
<1>2. member' \in [Admins -> MemberRows]
  <2>1. CASE SetWeight(a, w)
    <3>1. member' = [member EXCEPT ![a] = [state |-> member[a].state, by |-> member[a].by, weight |-> w]]
      <4>1. member[a] \in MemberRows
        BY <1>1
      <4>2. [member[a] EXCEPT !.weight = w] = [state |-> member[a].state, by |-> member[a].by, weight |-> w]
        BY <4>1 DEF MemberRows
      <4> QED
        BY <2>1, <4>2 DEF SetWeight
    <3> QED
      BY <1>1, <3>1 DEF MemberRows
  <2>2. CASE \E h \in Humans : ApproveAdmin(h, a, w)
    <3>1. member' = [member EXCEPT ![a] = [state |-> "ACTIVE", by |-> member[a].by, weight |-> w]]
      BY <1>1, <2>2, ApproveWrites
    <3> QED
      BY <1>1, <3>1 DEF MemberRows, MemberStates
  <2> QED
    BY <2>1, <2>2
<1>3. GroupTypeOK'
  BY <1>0, <1>2 DEF GroupTypeOK, MemberRows
<1> QED
  BY <1>0, <1>3 DEF GroupInv, TermNamesOneLeader

LEMMA ElectionKeeps ==
    ASSUME GroupInv, NEW a \in Admins, AcquireLeader(a)
    PROVE  GroupInv'
<1> DEFINE term == group.term + 1
<1>0. /\ GroupTypeOK /\ UNCHANGED member /\ term <= MaxTerm
      /\ group' = [term |-> term, leader |-> a, leased |-> TRUE]
      /\ elected' = elected \cup {<<term, a>>}
  BY DEF GroupInv, AcquireLeader, NextTerm
<1>1. group.term \in 0..MaxTerm /\ MaxTerm \in Nat /\ term \in 1..MaxTerm
  BY <1>0, GroupParts, GroupAssumption
<1> HIDE DEF term
<1>2. GroupTypeOK'
  <2>1. group' \in [term : 0..MaxTerm, leader : Admins \cup {NoAdmin}, leased : BOOLEAN]
    BY <1>0, <1>1
  <2>2. elected' \subseteq (1..MaxTerm) \X Admins
    BY <1>0, <1>1 DEF GroupTypeOK
  <2> QED
    BY <1>0, <2>1, <2>2 DEF GroupTypeOK
<1>3. \A e \in elected : e[1] \in Int /\ e[1] < term
  BY <1>0, <1>1 DEF GroupInv, GroupTypeOK, term
<1>4. \A e \in elected' : e[1] <= group'.term
  BY <1>0, <1>1, <1>3
<1>5. TermNamesOneLeader'
  BY <1>0, <1>1, <1>3 DEF GroupInv, TermNamesOneLeader
<1> QED
  BY <1>0, <1>2, <1>4, <1>5 DEF GroupInv

LEMMA GroupStepKeeps == GroupInv /\ [GroupNext]_groupVars => GroupInv'
<1> SUFFICES ASSUME GroupInv, [GroupNext]_groupVars
             PROVE  GroupInv'
  OBVIOUS
<1>1. CASE UNCHANGED groupVars
  BY <1>1 DEF groupVars, GroupInv, GroupTypeOK, TermNamesOneLeader
<1>2. CASE LeaderLeaseExpires
  <2>1. UNCHANGED <<member, elected>> /\ group' = [group EXCEPT !.leased = FALSE]
    BY <1>2 DEF LeaderLeaseExpires
  <2>2. group' \in [term : 0..MaxTerm, leader : Admins \cup {NoAdmin}, leased : BOOLEAN]
        /\ group'.term = group.term
    BY <2>1, GroupParts DEF GroupInv, GroupTypeOK
  <2> QED
    BY <2>1, <2>2 DEF GroupInv, GroupTypeOK, TermNamesOneLeader
<1> QED
  BY <1>1, <1>2, EnrollmentKeeps, WeighingKeeps, ElectionKeeps DEF GroupNext

(* With no voter, or one, every weighting is valid. *)
LEMMA GroupBegins == GroupInit => GroupInv
<1> SUFFICES ASSUME GroupInit
             PROVE  GroupInv
  OBVIOUS
<1>1. PICK there \in {{}, {Platform}} :
        member = [a \in Admins |-> IF a \in there THEN Installed ELSE Unknown]
  BY DEF GroupInit
<1>2. GroupTypeOK
  <2>1. group \in [term : 0..MaxTerm, leader : Admins \cup {NoAdmin}, leased : BOOLEAN]
    BY GroupAssumption DEF GroupInit
  <2> QED
    BY <1>1, <2>1 DEF GroupInit, GroupTypeOK, Installed, Unknown, MemberStates
<1>3. Voting(member) \subseteq {Platform}
  BY <1>1 DEF Voting, Unknown
<1>4. Cardinality(Voting(member)) # 3
  <2> DEFINE V == Voting(member)
  <2>1. V \subseteq {Platform} /\ IsFiniteSet({Platform}) /\ Cardinality({Platform}) = 1
    BY <1>3, FS_Singleton
  <2> HIDE DEF V
  <2>2. IsFiniteSet(V) /\ Cardinality(V) <= 1
    BY <2>1, FS_Subset
  <2>3. Cardinality(V) \in Nat
    BY <2>2, FS_CardinalityType
  <2> QED
    BY <2>2, <2>3 DEF V
<1>5. ValidWeights(member)
  BY <1>3, <1>4 DEF ValidWeights
<1> QED
  BY <1>2, <1>5 DEF GroupInit, GroupInv, TermNamesOneLeader

(* Of three voters, the other two of any one are the two one names. *)
LEMMA NobodyDominates == GroupInv => NoDominantAdmin
<1> DEFINE V == Voting(member)
<1> SUFFICES ASSUME GroupInv, Cardinality(V) = 3, NEW a \in V, NEW b \in V, NEW c \in V,
                    Cardinality({a, b, c}) = 3
             PROVE  2 * (member[a].weight + member[b].weight)
                      > member[a].weight + member[b].weight + member[c].weight
  BY DEF NoDominantAdmin
<1>1. member[a].weight \in Nat /\ member[b].weight \in Nat /\ member[c].weight \in Nat
  BY GroupParts DEF GroupInv, Voting
<1>2. a # b /\ a # c /\ b # c
  <2>1. \A x, y : IsFiniteSet({x, y}) /\ Cardinality({x, y}) <= 2
    <3> TAKE x, y
    <3>1. IsFiniteSet({x}) /\ Cardinality({x}) = 1 /\ {x} \cup {y} = {x, y}
      BY FS_Singleton
    <3> QED
      BY <3>1, FS_AddElement
  <2>2. ~ 3 <= 2
    OBVIOUS
  <2>3. ASSUME NEW x, NEW y, {a, b, c} = {x, y} PROVE FALSE
    <3>1. Cardinality({x, y}) = 3
      BY <2>3
    <3>2. Cardinality({x, y}) <= 2
      BY <2>1
    <3> QED
      BY <3>1, <3>2, <2>2
  <2>4. ASSUME a = b PROVE {a, b, c} = {a, c}
    BY <2>4
  <2>5. ASSUME a = c PROVE {a, b, c} = {a, b}
    BY <2>5
  <2>6. ASSUME b = c PROVE {a, b, c} = {a, b}
    BY <2>6
  <2> QED
    BY <2>3, <2>4, <2>5, <2>6
<1>3. V = {a, b, c}
  <2>1. IsFiniteSet(V)
    BY GroupAssumption, FS_Subset DEF Voting
  <2> HIDE DEF V
  <2> QED
    BY <2>1, FS_Subset
<1>4. member[c].weight < WeightSum(member, V \ {c})
  BY DEF GroupInv, ValidWeights
<1> HIDE DEF V
<1>5. V \ {c} = {a, b}
  BY <1>2, <1>3
<1>6. WeightSum(member, {a, b}) = member[a].weight + member[b].weight
  BY <1>1, <1>2, SumOfTwo
<1>7. \A x, y, z \in Nat : z < x + y => 2 * (x + y) > x + y + z
  OBVIOUS
<1>8. member[c].weight < member[a].weight + member[b].weight
  BY <1>4, <1>5, <1>6
<1> QED
  BY <1>1, <1>7, <1>8

(* No admin agent outweighs the other two of three, a term names one leader, *)
(* and the succession is never ambiguous, for any weights and any order of   *)
(* enrollments, changes of weight and elections.                             *)
THEOREM LeadershipIsSound == GroupSpec => [](GroupTypeOK /\ LeadershipHolds)
<1>1. GroupInv => GroupTypeOK /\ LeadershipHolds
  <2> SUFFICES ASSUME GroupInv
               PROVE  GroupTypeOK /\ LeadershipHolds
    OBVIOUS
  <2>1. SuccessionIsDetermined
    <3> SUFFICES ASSUME NEW a \in Admins, NEW b \in Admins, Heaviest(a), Heaviest(b)
                 PROVE  a = b
      BY DEF SuccessionIsDetermined
    <3>1. member[a].weight \in Nat /\ member[b].weight \in Nat
      BY GroupParts DEF GroupInv
    <3>2. /\ a \in Voting(member) /\ b \in Voting(member)
          /\ member[a].weight <= member[b].weight /\ member[b].weight <= member[a].weight
      BY DEF Heaviest
    <3> QED
      BY <3>1, <3>2 DEF GroupInv, ValidWeights
  <2> QED
    BY <2>1, NobodyDominates DEF GroupInv, LeadershipHolds
<1> QED
  BY <1>1, GroupBegins, GroupStepKeeps, PTL DEF GroupSpec
==============================================================================
