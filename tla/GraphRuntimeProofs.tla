------------------------- MODULE GraphRuntimeProofs -------------------------
(***************************************************************************)
(* Proofs about GraphRuntime, for every plan, every number of workers and  *)
(* operators and every bound.                                              *)
(***************************************************************************)
EXTENDS GraphRuntime, FiniteSetTheorems, TLAPS

-----------------------------------------------------------------------------
(* Rows *)

LEMMA EntryRow == <<Entry, 1>> \in NodeRuns
BY PlanAssumption, BoundAssumption DEF NodeRuns

LEMMA RowParts ==
    ASSUME NEW x \in NodeRuns
    PROVE  x[1] \in Nodes /\ x[2] \in 1..MaxGen /\ x = <<x[1], x[2]>>
BY DEF NodeRuns

LEMMA PlanType ==
    ASSUME NEW n \in Nodes
    PROVE  /\ Plan[n] \in PlanNode
           /\ \A chosen \in Plan[n].routes : chosen \subseteq Nodes
           /\ Targets(n) \subseteq Nodes
<1>1. Plan[n] \in PlanNode
  BY PlanAssumption
<1>2. Plan[n].routes \in SUBSET SUBSET Nodes
  BY <1>1 DEF PlanNode
<1> QED
  BY <1>1, <1>2 DEF Targets

LEMMA IdleType == Idle \in Session
BY EntryRow DEF Idle, Session

LEMMA FreshRows ==
    ASSUME NEW t, NEW y \in Fresh(t)
    PROVE  y \in NodeRuns /\ y[1] = t /\ nodeStatus[y] = "NONE"
BY DEF Fresh, Exists

(* What routing inserts are rows that did not exist, of an activated target *)
(* whose identity the unique key and the bounds admit.                      *)
LEMMA InsertedRows ==
    ASSUME NEW x, NEW chosen, NEW y \in Inserted(x, chosen),
           \A t \in Activated(x, chosen) : CanInsert(t, Identity(x, chosen, t))
    PROVE  /\ y \in NodeRuns /\ nodeStatus[y] = "NONE"
           /\ y[1] \in chosen
           /\ Identity(x, chosen, y[1]).iter <= MaxIter
<1>1. PICK t \in Activated(x, chosen) :
          Reused(t, Identity(x, chosen, t)) = {} /\ y \in Fresh(t)
  BY DEF Inserted
<1>2. Identity(x, chosen, t).iter <= MaxIter
  BY <1>1 DEF CanInsert
<1>3. t \in chosen
  BY <1>1 DEF Activated
<1> QED
  BY <1>1, <1>2, <1>3, FreshRows

LEMMA StartStatusType ==
    ASSUME NEW n
    PROVE  StartStatus(n) \in {"READY", "WAITING"}
BY DEF StartStatus

LEMMA IdentityType ==
    ASSUME ident \in [NodeRuns -> [iter : 0..MaxIter, branch : Branches]],
           NEW x \in NodeRuns, NEW chosen, NEW t \in Nodes
    PROVE  /\ Identity(x, chosen, t).iter \in Nat
           /\ Identity(x, chosen, t).branch \in Branches
           /\ Identity(x, chosen, t) = [iter |-> Identity(x, chosen, t).iter,
                                        branch |-> Identity(x, chosen, t).branch]
<1>1. ident[x].iter \in Nat /\ ident[x].branch \in Branches
  BY BoundAssumption
<1>2. <<t>> \in Branches /\ <<>> \in Branches /\ <<x, t>> \in Branches
  BY DEF Branches
<1> QED
  BY <1>1, <1>2 DEF Identity

(* Routing keeps every table typed. *)
LEMMA ActivateType ==
    ASSUME TypeOK, NEW x \in NodeRuns, NEW chosen \in SUBSET Nodes,
           NEW status \in RunStatus,
           NEW nodes \in [NodeRuns -> NodeStatus \cup {"NONE"}],
           NEW readies \in [NodeRuns -> ReadyStatus \cup {"NONE"}],
           Activate(x, chosen, status, nodes, readies)
    PROVE  /\ run' \in RunStatus
           /\ nodeStatus' \in [NodeRuns -> NodeStatus \cup {"NONE"}]
           /\ readyStatus' \in [NodeRuns -> ReadyStatus \cup {"NONE"}]
           /\ ident' \in [NodeRuns -> [iter : 0..MaxIter, branch : Branches]]
           /\ waits' \in [NodeRuns -> WaitStatus \cup {"NONE"}]
           /\ joins' \in [Nodes -> [inputs : SUBSET Nodes, committed : BOOLEAN]]
<1> USE DEF Activate
<1>1. run' \in RunStatus
  BY DEF RunAfter, RunStatus, Final
<1>2. \A n : StartStatus(n) \in NodeStatus /\ StartStatus(n) \in ReadyStatus
  BY StartStatusType DEF NodeStatus, ReadyStatus
<1>3. nodeStatus' \in [NodeRuns -> NodeStatus \cup {"NONE"}]
  BY <1>2
<1>4. readyStatus' \in [NodeRuns -> ReadyStatus \cup {"NONE"}]
  BY <1>2
<1>5. ident' \in [NodeRuns -> [iter : 0..MaxIter, branch : Branches]]
  <2>1. ASSUME NEW y \in Inserted(x, chosen)
        PROVE  Identity(x, chosen, y[1]) \in [iter : 0..MaxIter, branch : Branches]
    <3>1. y[1] \in Nodes /\ Identity(x, chosen, y[1]).iter <= MaxIter
      BY <2>1, InsertedRows
    <3> QED
      BY <3>1, IdentityType, BoundAssumption DEF TypeOK
  <2> QED
    BY <2>1 DEF TypeOK
<1>6. waits' \in [NodeRuns -> WaitStatus \cup {"NONE"}]
  BY DEF TypeOK, WaitStatus
<1>7. joins' \in [Nodes -> [inputs : SUBSET Nodes, committed : BOOLEAN]]
  <2>1. x[1] \in Nodes
    BY RowParts
  <2>2. \A t \in Nodes : JoinInputs(x, t) \in SUBSET Nodes
    BY <2>1 DEF JoinInputs, TypeOK
  <2> QED
    BY <2>2 DEF TypeOK
<1> QED
  BY <1>1, <1>3, <1>4, <1>5, <1>6, <1>7

LEMMA WriteType ==
    ASSUME TypeOK, NEW source \in (NodeRuns \X Fences) \cup {NoSource},
           WriteCheckpoint(source)
    PROVE  /\ log' \in Seq((NodeRuns \X Fences) \cup {NoSource}) /\ Len(log') <= MaxLog
           /\ Len(log') = Len(log) + 1 /\ NextSeq \in 1..MaxLog
           /\ log'[NextSeq] = source
           /\ \A i \in DOMAIN log : log'[i] = log[i]
<1> DEFINE S == (NodeRuns \X Fences) \cup {NoSource}
<1>1. source \in S /\ log \in Seq(S) /\ Len(log) < MaxLog /\ log' = Append(log, source) /\ MaxLog \in Nat
  BY BoundAssumption DEF TypeOK, WriteCheckpoint
<1> HIDE DEF S
<1>2. log' \in Seq(S) /\ Len(log') = Len(log) + 1
  BY <1>1
<1> QED
  BY <1>1, <1>2 DEF NextSeq, S

LEMMA RejectedType ==
    ASSUME NEW bad, NEW S, NEW to \in S, NEW status \in [NodeRuns -> S]
    PROVE  Rejected(bad, status, to) \in [NodeRuns -> S]
BY DEF Rejected

LEMMA EndedType ==
    ASSUME NEW a \in Attempt, NEW status \in AttemptStatus \cup {"NONE"}
    PROVE  Ended(a, status) \in Attempt /\ Ended(a, status).status = status
BY DEF Attempt, Ended

LEMMA LeasedType ==
    ASSUME NEW a \in Attempt
    PROVE  /\ Lapsed(a) \in Attempt /\ Lapsed(a).status = a.status
           /\ Renewed(a) \in Attempt /\ Renewed(a).status = a.status
BY DEF Attempt, Lapsed, Renewed

-----------------------------------------------------------------------------
(* Type correctness *)

LEMMA InitType == Init => TypeOK
<1> SUFFICES ASSUME Init PROVE TypeOK
  OBVIOUS
<1> USE DEF Init
<1>1. run \in RunStatus
  BY DEF RunStatus
<1>2. nodeStatus \in [NodeRuns -> NodeStatus \cup {"NONE"}]
  BY DEF NodeStatus
<1>3. readyStatus \in [NodeRuns -> ReadyStatus \cup {"NONE"}]
  BY DEF ReadyStatus
<1>4. ident \in [NodeRuns -> [iter : 0..MaxIter, branch : Branches]]
  BY BoundAssumption DEF Branches
<1>5. att \in [NodeRuns -> [Fences -> Attempt]]
  BY DEF Attempt, NoAttempt
<1>6. log \in Seq((NodeRuns \X Fences) \cup {NoSource}) /\ Len(log) <= MaxLog
  BY BoundAssumption
<1>7. /\ out \in [NodeRuns -> 0..MaxLog]
      /\ joins \in [Nodes -> [inputs : SUBSET Nodes, committed : BOOLEAN]]
      /\ waits \in [NodeRuns -> WaitStatus \cup {"NONE"}]
  BY BoundAssumption
<1>8. /\ ws \in [Workers -> Session] /\ os \in [Operators -> Session]
      /\ rs \in [active : BOOLEAN, attempts : SUBSET (NodeRuns \X Fences),
                 waits : SUBSET NodeRuns]
  BY IdleType DEF NoReap
<1> QED
  BY <1>1, <1>2, <1>3, <1>4, <1>5, <1>6, <1>7, <1>8 DEF TypeOK

(* Steps of a Worker. *)
LEMMA WorkerType ==
    ASSUME TypeOK, NEW w \in Workers, WorkerStep(w)
    PROVE  TypeOK'
<1> USE DEF TypeOK, rows, vars
<1>0. /\ Idle \in Session
      /\ ws[w] \in Session /\ ws[w].seen \in SUBSET NodeRuns
      /\ ws[w].row \in NodeRuns
      /\ ws[w].op \in LeaseCalls => ws[w].fence \in Fences
  BY IdleType DEF Session, LeaseCalls
<1>1. CASE ClaimRead(w)
  <2>1. ws' \in [Workers -> Session]
    BY <1>0, <1>1, EntryRow DEF ClaimRead, Session
  <2> QED
    BY <1>1, <2>1 DEF ClaimRead
<1>2. CASE ClaimNone(w)
  <2>1. PICK bad \in Rejections(w) :
          /\ readyStatus' = Rejected(bad, readyStatus, "CANCELLED")
          /\ nodeStatus' = Rejected(bad, nodeStatus, "REVIEW_REQUIRED")
          /\ run' = RunOfRejected(bad)
    BY <1>2 DEF ClaimNone
  <2>2. run' \in RunStatus
    BY <2>1 DEF RunOfRejected, RunStatus
  <2>3. readyStatus' \in [NodeRuns -> ReadyStatus \cup {"NONE"}]
    BY <2>1, RejectedType DEF ReadyStatus
  <2>4. nodeStatus' \in [NodeRuns -> NodeStatus \cup {"NONE"}]
    BY <2>1, RejectedType DEF NodeStatus
  <2> QED
    BY <1>0, <1>2, <2>2, <2>3, <2>4 DEF ClaimNone, Done
<1>3. CASE ClaimCommit(w)
  <2>1. PICK bad \in Rejections(w), x \in ws[w].seen, f \in Fences :
          /\ readyStatus' = [Rejected(bad, readyStatus, "CANCELLED") EXCEPT ![x] = "CLAIMED"]
          /\ nodeStatus' = [Rejected(bad, nodeStatus, "REVIEW_REQUIRED") EXCEPT ![x] = "RUNNING"]
          /\ att' = [att EXCEPT ![x][f] =
                 [worker |-> w, status |-> "RUNNING", expired |-> FALSE, revoked |-> FALSE]]
          /\ run' = RunOfRejected(bad)
    BY <1>3 DEF ClaimCommit
  <2>2. run' \in RunStatus
    BY <2>1 DEF RunOfRejected, RunStatus
  <2>3. readyStatus' \in [NodeRuns -> ReadyStatus \cup {"NONE"}]
    <3>1. Rejected(bad, readyStatus, "CANCELLED") \in [NodeRuns -> ReadyStatus \cup {"NONE"}]
      BY RejectedType DEF ReadyStatus
    <3> QED
      BY <2>1, <3>1 DEF ReadyStatus
  <2>4. nodeStatus' \in [NodeRuns -> NodeStatus \cup {"NONE"}]
    <3>1. Rejected(bad, nodeStatus, "REVIEW_REQUIRED") \in [NodeRuns -> NodeStatus \cup {"NONE"}]
      BY RejectedType DEF NodeStatus
    <3> QED
      BY <2>1, <3>1 DEF NodeStatus
  <2>5. att' \in [NodeRuns -> [Fences -> Attempt]]
    BY <2>1 DEF Attempt, AttemptStatus
  <2> QED
    BY <1>0, <1>3, <2>2, <2>3, <2>4, <2>5 DEF ClaimCommit, Done
<1>4. CASE ClaimOverBudget(w)
  <2>1. PICK bad \in Rejections(w), x \in ws[w].seen :
          /\ readyStatus' = [Rejected(bad, readyStatus, "CANCELLED") EXCEPT ![x] = "WAITING"]
          /\ nodeStatus' = Rejected(bad, nodeStatus, "REVIEW_REQUIRED")
    BY <1>4 DEF ClaimOverBudget
  <2>2. run' \in RunStatus
    BY <1>4 DEF ClaimOverBudget, RunStatus
  <2>3. readyStatus' \in [NodeRuns -> ReadyStatus \cup {"NONE"}]
    <3>1. Rejected(bad, readyStatus, "CANCELLED") \in [NodeRuns -> ReadyStatus \cup {"NONE"}]
      BY RejectedType DEF ReadyStatus
    <3> QED
      BY <2>1, <3>1 DEF ReadyStatus
  <2>4. nodeStatus' \in [NodeRuns -> NodeStatus \cup {"NONE"}]
    BY <2>1, RejectedType DEF NodeStatus
  <2> QED
    BY <1>0, <1>4, <2>2, <2>3, <2>4 DEF ClaimOverBudget, Done
<1>5. CASE \E op \in LeaseCalls, x \in NodeRuns, f \in Fences : Verify(w, op, x, f)
  <2>1. PICK op \in LeaseCalls, x \in NodeRuns, f \in Fences : Verify(w, op, x, f)
    BY <1>5
  <2>2. [op |-> op, row |-> x, fence |-> f, seen |-> {}] \in Session
    BY <2>1 DEF Session
  <2> QED
    BY <2>1, <2>2 DEF Verify, Begin
<1>6. CASE HeartbeatCommit(w)
  <2>1. att' \in [NodeRuns -> [Fences -> Attempt]]
    <3>1. ws[w].fence \in Fences /\ att' = [att EXCEPT ![ws[w].row][ws[w].fence] = Renewed(@)]
      BY <1>0, <1>6 DEF HeartbeatCommit, LeaseCalls
    <3>2. Renewed(att[ws[w].row][ws[w].fence]) \in Attempt
      BY <1>0, <3>1, LeasedType
    <3> QED
      BY <1>0, <3>1, <3>2
  <2> QED
    BY <1>0, <1>6, <2>1 DEF HeartbeatCommit, Done
<1>7. CASE CheckpointCommit(w)
  <2>1. <<ws[w].row, ws[w].fence>> \in NodeRuns \X Fences
    BY <1>0, <1>7 DEF CheckpointCommit, LeaseCalls
  <2> QED
    BY <1>0, <1>7, <2>1, WriteType DEF CheckpointCommit, Done
<1>8. CASE RevokeCommit(w)
  <2>1. att' \in [NodeRuns -> [Fences -> Attempt]]
    <3> DEFINE a == att[ws[w].row][ws[w].fence]
    <3>1. ws[w].fence \in Fences /\ att' = [att EXCEPT ![ws[w].row][ws[w].fence] = Ended(@, @.status)]
      BY <1>0, <1>8 DEF RevokeCommit, LeaseCalls
    <3>2. a \in Attempt /\ a.status \in AttemptStatus \cup {"NONE"}
      BY <1>0, <3>1 DEF Attempt
    <3>3. Ended(a, a.status) \in Attempt
      BY <3>2, EndedType
    <3> QED
      BY <1>0, <3>1, <3>3
  <2> QED
    BY <1>0, <1>8, <2>1 DEF RevokeCommit, Done
<1>9. CASE CompleteCommit(w)
  <2> DEFINE x == ws[w].row
             f == ws[w].fence
             nodes == [nodeStatus EXCEPT ![x] = "SUCCEEDED"]
             readies == [readyStatus EXCEPT ![x] = IF @ = "CLAIMED" THEN "DONE" ELSE @]
  <2>1. x \in NodeRuns /\ f \in Fences
    BY <1>0, <1>9 DEF CompleteCommit, LeaseCalls
  <2>2. /\ nodes \in [NodeRuns -> NodeStatus \cup {"NONE"}]
        /\ readies \in [NodeRuns -> ReadyStatus \cup {"NONE"}]
    BY <2>1 DEF NodeStatus, ReadyStatus
  <2>3. /\ att' \in [NodeRuns -> [Fences -> Attempt]]
        /\ out' \in [NodeRuns -> 0..MaxLog]
        /\ log' \in Seq((NodeRuns \X Fences) \cup {NoSource}) /\ Len(log') <= MaxLog
    <3>1. WriteCheckpoint(<<x, f>>) /\ out' = [out EXCEPT ![x] = NextSeq]
          /\ att' = [att EXCEPT ![x][f] = Ended(@, "SUCCEEDED")]
      BY <1>9 DEF CompleteCommit
    <3>2. att' \in [NodeRuns -> [Fences -> Attempt]]
      BY <2>1, <3>1, EndedType DEF AttemptStatus
    <3> QED
      BY <2>1, <3>1, <3>2, WriteType, BoundAssumption, SMTT(20), ZenonT(40)
  <2>4. /\ run' \in RunStatus
        /\ nodeStatus' \in [NodeRuns -> NodeStatus \cup {"NONE"}]
        /\ readyStatus' \in [NodeRuns -> ReadyStatus \cup {"NONE"}]
        /\ ident' \in [NodeRuns -> [iter : 0..MaxIter, branch : Branches]]
        /\ waits' \in [NodeRuns -> WaitStatus \cup {"NONE"}]
        /\ joins' \in [Nodes -> [inputs : SUBSET Nodes, committed : BOOLEAN]]
    <3>1. CASE \E chosen \in Plan[x[1]].routes : Activate(x, chosen, run, nodes, readies)
      <4>1. PICK chosen \in Plan[x[1]].routes : Activate(x, chosen, run, nodes, readies)
        BY <3>1
      <4>2. chosen \in SUBSET Nodes
        BY <2>1, <4>1, RowParts, PlanType
      <4> HIDE DEF nodes, readies, x
      <4> QED
        BY <2>1, <2>2, <4>1, <4>2, ActivateType
    <3>2. CASE NoRouting(run, nodes, readies)
      BY <2>2, <3>2 DEF NoRouting
    <3>3. CASE NoRouting(IF run \in Final THEN run ELSE "REVIEW_REQUIRED", nodes, readies)
      <4>1. run' \in RunStatus
        BY <3>3 DEF NoRouting, RunStatus
      <4> QED
        BY <2>2, <3>3, <4>1 DEF NoRouting
    <3> QED
      BY <1>9, <3>1, <3>2, <3>3 DEF CompleteCommit
  <2> QED
    BY <1>0, <1>9, <2>3, <2>4 DEF CompleteCommit, Done
<1>10. CASE FailCommit(w)
  <2> DEFINE x == ws[w].row
             f == ws[w].fence
  <2>1. x \in NodeRuns /\ f \in Fences /\ x[1] \in Nodes
    BY <1>0, <1>10, RowParts DEF FailCommit, LeaseCalls
  <2>2. att' \in [NodeRuns -> [Fences -> Attempt]]
    BY <1>10, <2>1, EndedType DEF FailCommit, AttemptStatus
  <2>3. run' \in RunStatus
    BY <1>10 DEF FailCommit, Restarted, FailureStatus, RunStatus
  <2>4. nodeStatus' \in [NodeRuns -> NodeStatus \cup {"NONE"}]
    BY <1>10 DEF FailCommit, FailureStatus, NodeStatus
  <2>5. readyStatus' \in [NodeRuns -> ReadyStatus \cup {"NONE"}]
    <3>1. Requeued(readyStatus[x]) \in ReadyStatus \cup {"NONE"}
      BY <2>1 DEF Requeued, ReadyStatus
    <3>2. \/ readyStatus' = [readyStatus EXCEPT ![x] = Requeued(@)]
          \/ UNCHANGED readyStatus
      BY <1>10 DEF FailCommit
    <3> HIDE DEF x
    <3> QED
      BY <2>1, <3>1, <3>2
  <2> QED
    BY <1>0, <1>10, <2>2, <2>3, <2>4, <2>5 DEF FailCommit, Done
<1>11. CASE WorkerReturn(w)
  BY <1>0, <1>11 DEF WorkerReturn, Done
<1> QED
  BY <1>1, <1>2, <1>3, <1>4, <1>5, <1>6, <1>7, <1>8, <1>9, <1>10, <1>11 DEF WorkerStep

(* Steps of an operator session. *)
LEMMA OperatorType ==
    ASSUME TypeOK, NEW o \in Operators, OperatorStep(o)
    PROVE  TypeOK'
<1> USE DEF TypeOK, rows, vars
<1>0. /\ Idle \in Session
      /\ os[o] \in Session /\ os[o].row \in NodeRuns
      /\ os[o].op = "reassign" => os[o].fence \in Fences
  BY IdleType DEF Session
<1>1. CASE \E x \in NodeRuns : RetryRead(o, x) \/ SkipRead(o, x) \/ ForceRead(o, x)
  <2>1. PICK x \in NodeRuns : RetryRead(o, x) \/ SkipRead(o, x) \/ ForceRead(o, x)
    BY <1>1
  <2>2. PICK op \in {"retry", "skip", "force"} : OpBegin(o, op, x, 0)
    BY <2>1 DEF RetryRead, SkipRead, ForceRead
  <2>3. [op |-> op, row |-> x, fence |-> 0, seen |-> {}] \in Session
    BY <2>2 DEF Session
  <2> QED
    BY <2>2, <2>3 DEF OpBegin
<1>2. CASE \E x \in NodeRuns, f \in Fences : ReassignRead(o, x, f)
  <2>1. PICK x \in NodeRuns, f \in Fences : ReassignRead(o, x, f)
    BY <1>2
  <2>2. [op |-> "reassign", row |-> x, fence |-> f, seen |-> {}] \in Session
    BY DEF Session
  <2> QED
    BY <2>1, <2>2 DEF ReassignRead, OpBegin
<1>3. CASE RetryWrite(o)
  <2>1. run' \in RunStatus
    BY <1>3 DEF RetryWrite, Restarted, RunStatus
  <2>2. nodeStatus' \in [NodeRuns -> NodeStatus \cup {"NONE"}]
    BY <1>3 DEF RetryWrite, NodeStatus
  <2>3. readyStatus' \in [NodeRuns -> ReadyStatus \cup {"NONE"}]
    BY <1>3 DEF RetryWrite, ReadyStatus
  <2>4. ident' \in [NodeRuns -> [iter : 0..MaxIter, branch : Branches]]
    <3>1. [iter |-> 0, branch |-> <<>>] \in [iter : 0..MaxIter, branch : Branches]
      BY BoundAssumption DEF Branches
    <3> QED
      BY <1>3, <3>1 DEF RetryWrite
  <2> QED
    BY <1>0, <1>3, <2>1, <2>2, <2>3, <2>4 DEF RetryWrite, OpDone
<1>4. CASE ReassignWrite(o)
  <2>1. os[o].row \in NodeRuns /\ os[o].fence \in Fences
    BY <1>0, <1>4 DEF ReassignWrite
  <2>2. att' \in [NodeRuns -> [Fences -> Attempt]]
    <3>1. att[os[o].row][os[o].fence] \in Attempt
      BY <2>1
    <3>2. FencedStatus(att[os[o].row][os[o].fence].status) \in AttemptStatus \cup {"NONE"}
      BY <3>1 DEF Attempt, FencedStatus, AttemptStatus
    <3> QED
      BY <1>4, <2>1, <3>1, <3>2, EndedType DEF ReassignWrite
  <2>3. nodeStatus' \in [NodeRuns -> NodeStatus \cup {"NONE"}]
    BY <1>4 DEF ReassignWrite, NodeStatus
  <2>4. readyStatus' \in [NodeRuns -> ReadyStatus \cup {"NONE"}]
    BY <1>4 DEF ReassignWrite, Requeued, ReadyStatus
  <2> QED
    BY <1>0, <1>4, <2>2, <2>3, <2>4 DEF ReassignWrite, OpDone
<1>5. CASE SkipWrite(o)
  <2> DEFINE x == os[o].row
             nodes == [nodeStatus EXCEPT ![x] = "SKIPPED"]
             readies == [readyStatus EXCEPT ![x] = Closed(@)]
  <2>1. x \in NodeRuns
    BY <1>0
  <2>2. /\ nodes \in [NodeRuns -> NodeStatus \cup {"NONE"}]
        /\ readies \in [NodeRuns -> ReadyStatus \cup {"NONE"}]
    BY <2>1 DEF NodeStatus, ReadyStatus, Closed
  <2>3. /\ out' \in [NodeRuns -> 0..MaxLog]
        /\ log' \in Seq((NodeRuns \X Fences) \cup {NoSource}) /\ Len(log') <= MaxLog
    <3>1. WriteCheckpoint(NoSource) /\ out' = [out EXCEPT ![x] = NextSeq]
      BY <1>5 DEF SkipWrite
    <3> QED
      BY <2>1, <3>1, WriteType, BoundAssumption, SMTT(20), ZenonT(40)
  <2>4. PICK chosen \in Plan[x[1]].routes : Activate(x, chosen, run, nodes, readies)
    BY <1>5 DEF SkipWrite
  <2>5. chosen \in SUBSET Nodes
    BY <2>1, <2>4, RowParts, PlanType
  <2>6. /\ run' \in RunStatus
        /\ nodeStatus' \in [NodeRuns -> NodeStatus \cup {"NONE"}]
        /\ readyStatus' \in [NodeRuns -> ReadyStatus \cup {"NONE"}]
        /\ ident' \in [NodeRuns -> [iter : 0..MaxIter, branch : Branches]]
        /\ waits' \in [NodeRuns -> WaitStatus \cup {"NONE"}]
        /\ joins' \in [Nodes -> [inputs : SUBSET Nodes, committed : BOOLEAN]]
    <3> HIDE DEF nodes, readies, x
    <3> QED
      BY <2>1, <2>2, <2>4, <2>5, ActivateType
  <2> QED
    BY <1>0, <1>5, <2>3, <2>6 DEF SkipWrite, OpDone
<1>6. CASE ForceWrite(o)
  <2> DEFINE x == os[o].row
  <2>1. x \in NodeRuns
    BY <1>0
  <2>2. log' \in Seq((NodeRuns \X Fences) \cup {NoSource}) /\ Len(log') <= MaxLog
    <3>1. WriteCheckpoint(NoSource) \/ UNCHANGED log
      BY <1>6 DEF ForceWrite
    <3> QED
      BY <3>1, WriteType
  <2>3. PICK chosen \in {{t} : t \in Targets(x[1])} \cup {{}} :
            Activate(x, chosen, run, nodeStatus, readyStatus)
    BY <1>6 DEF ForceWrite
  <2>4. chosen \in SUBSET Nodes
    BY <2>1, <2>3, RowParts, PlanType
  <2>5. /\ run' \in RunStatus
        /\ nodeStatus' \in [NodeRuns -> NodeStatus \cup {"NONE"}]
        /\ readyStatus' \in [NodeRuns -> ReadyStatus \cup {"NONE"}]
        /\ ident' \in [NodeRuns -> [iter : 0..MaxIter, branch : Branches]]
        /\ waits' \in [NodeRuns -> WaitStatus \cup {"NONE"}]
        /\ joins' \in [Nodes -> [inputs : SUBSET Nodes, committed : BOOLEAN]]
    <3> HIDE DEF x
    <3> QED
      BY <2>1, <2>3, <2>4, ActivateType
  <2> QED
    BY <1>0, <1>6, <2>2, <2>5 DEF ForceWrite, OpDone
<1>7. CASE OpReturn(o)
  BY <1>0, <1>7 DEF OpReturn, OpDone
<1> QED
  BY <1>1, <1>2, <1>3, <1>4, <1>5, <1>6, <1>7 DEF OperatorStep

(* Steps of the reaper, the controls of a Run and the passing of time. *)
LEMMA ReapType ==
    ASSUME TypeOK, ReapRead \/ ReapCommit \/ ReapReturn
    PROVE  TypeOK'
<1> USE DEF TypeOK, rows, vars
<1>1. CASE ReapRead
  <2>1. rs' \in [active : BOOLEAN, attempts : SUBSET (NodeRuns \X Fences), waits : SUBSET NodeRuns]
    <3> DEFINE lost == {a \in NodeRuns \X Fences :
                           Running(a[1], a[2]) /\ att[a[1]][a[2]].expired}
    <3>1. lost \in SUBSET (NodeRuns \X Fences)
      OBVIOUS
    <3>2. PICK late \in SUBSET NodeRuns :
              rs' = [active |-> TRUE, attempts |-> lost, waits |-> late]
      BY <1>1, Zenon DEF ReapRead
    <3> HIDE DEF lost, TypeOK
    <3> QED
      BY <3>1, <3>2
  <2> QED
    BY <1>1, <2>1, SMTT(20), ZenonT(40) DEF ReapRead
<1>2. CASE ReapCommit
  <2>1. att' \in [NodeRuns -> [Fences -> Attempt]]
    BY <1>2, EndedType DEF ReapCommit, AttemptStatus
  <2>2. run' \in RunStatus
    BY <1>2 DEF ReapCommit, RunStatus
  <2>3. nodeStatus' \in [NodeRuns -> NodeStatus \cup {"NONE"}]
    BY <1>2 DEF ReapCommit, NodeStatus
  <2>4. readyStatus' \in [NodeRuns -> ReadyStatus \cup {"NONE"}]
    BY <1>2 DEF ReapCommit, Recovered, ReadyStatus
  <2>5. waits' \in [NodeRuns -> WaitStatus \cup {"NONE"}]
    BY <1>2 DEF ReapCommit, WaitStatus
  <2> QED
    BY <1>2, <2>1, <2>2, <2>3, <2>4, <2>5 DEF ReapCommit, NoReap
<1>3. CASE ReapReturn
  BY <1>3 DEF ReapReturn, NoReap
<1> QED
  BY <1>1, <1>2, <1>3

LEMMA ControlType ==
    ASSUME TypeOK,
           \/ \E x \in NodeRuns, f \in Fences : Expire(x, f)
           \/ Pause \/ Resume \/ Cancel
           \/ \E x \in NodeRuns : ResolveWait(x)
    PROVE  TypeOK'
<1> USE DEF TypeOK, rows, vars
<1>1. CASE \E x \in NodeRuns, f \in Fences : Expire(x, f)
  <2>1. PICK x \in NodeRuns, f \in Fences : Expire(x, f)
    BY <1>1
  <2>2. Lapsed(att[x][f]) \in Attempt
    BY LeasedType
  <2> QED
    BY <2>1, <2>2 DEF Expire
<1>2. CASE Pause
  BY <1>2 DEF Pause, RunStatus, ReadyStatus
<1>3. CASE Resume
  BY <1>3 DEF Resume, RunStatus, ReadyStatus, NodeStatus
<1>4. CASE Cancel
  <2>1. att' \in [NodeRuns -> [Fences -> Attempt]]
    <3>1. ASSUME NEW x \in NodeRuns, NEW f \in Fences
          PROVE  att'[x][f] \in Attempt
      <4>1. att[x][f] \in Attempt /\ att[x][f].status \in AttemptStatus \cup {"NONE"}
        BY DEF Attempt
      <4>2. "CANCELLED" \in AttemptStatus
        BY DEF AttemptStatus
      <4> QED
        BY <1>4, <4>1, <4>2, EndedType DEF Cancel
    <3> QED
      BY <1>4, <3>1 DEF Cancel
  <2>2. nodeStatus' \in [NodeRuns -> NodeStatus \cup {"NONE"}]
    BY <1>4 DEF Cancel, NodeStatus
  <2>3. readyStatus' \in [NodeRuns -> ReadyStatus \cup {"NONE"}]
    BY <1>4 DEF Cancel, ReadyStatus
  <2>4. waits' \in [NodeRuns -> WaitStatus \cup {"NONE"}]
    BY <1>4 DEF Cancel, WaitStatus
  <2> QED
    BY <1>4, <2>1, <2>2, <2>3, <2>4 DEF Cancel, RunStatus
<1>5. CASE \E x \in NodeRuns : ResolveWait(x)
  <2>1. PICK x \in NodeRuns : ResolveWait(x)
    BY <1>5
  <2>2. log' \in Seq((NodeRuns \X Fences) \cup {NoSource}) /\ Len(log') <= MaxLog
    BY <2>1, WriteType DEF ResolveWait
  <2>3. /\ run' \in RunStatus
        /\ nodeStatus' \in [NodeRuns -> NodeStatus \cup {"NONE"}]
        /\ readyStatus' \in [NodeRuns -> ReadyStatus \cup {"NONE"}]
        /\ waits' \in [NodeRuns -> WaitStatus \cup {"NONE"}]
    BY <2>1 DEF ResolveWait, RunStatus, NodeStatus, ReadyStatus, WaitStatus
  <2> QED
    BY <2>1, <2>2, <2>3 DEF ResolveWait
<1> QED
  BY <1>1, <1>2, <1>3, <1>4, <1>5

(* Every reachable state is typed: what a row holds is a value its column   *)
(* allows, and a call in flight names a row and a fence that exist.         *)
THEOREM TypeCorrect == Spec => []TypeOK
<1>1. TypeOK /\ [Next]_vars => TypeOK'
  <2> SUFFICES ASSUME TypeOK, [Next]_vars PROVE TypeOK'
    OBVIOUS
  <2>1. CASE Next
    BY <2>1, WorkerType, OperatorType, ReapType, ControlType DEF Next
  <2>2. CASE UNCHANGED vars
    BY <2>2 DEF TypeOK, vars, rows
  <2> QED
    BY <2>1, <2>2
<1> QED
  BY InitType, <1>1, PTL DEF Spec
-----------------------------------------------------------------------------
(* What a step may do to one node run.  Every action is one of these fates  *)
(* for every row; the invariants below are proved fate by fate.             *)

SameStatuses(y) == \A g \in Fences : att'[y][g].status = att[y][g].status

Becomes(y, f, status) ==
    \A g \in Fences : att'[y][g].status = IF g = f THEN status ELSE att[y][g].status

Untouched(y) ==
    /\ nodeStatus'[y] = nodeStatus[y] /\ readyStatus'[y] = readyStatus[y]
    /\ SameStatuses(y)

Created(y) ==
    /\ y \in Fresh(y[1])
    /\ Reused(y[1], ident'[y]) = {} /\ ~Clashes(y[1], ident'[y])
    /\ IsJoin(y[1]) => ident'[y].branch = <<y[1]>> \/ \E o \in Operators : os[o].op = "retry"
    /\ nodeStatus'[y] \in {"READY", "WAITING"} /\ readyStatus'[y] = nodeStatus'[y]
    /\ SameStatuses(y)

Refused(y) ==
    /\ "reject" \in WorkerOps
    /\ nodeStatus'[y] = IF nodeStatus[y] = "READY" THEN "REVIEW_REQUIRED" ELSE nodeStatus[y]
    /\ readyStatus'[y] = IF readyStatus[y] = "READY" THEN "CANCELLED" ELSE readyStatus[y]
    /\ SameStatuses(y)

Claimed(y) ==
    /\ Claimable(y)
    /\ \E w \in Workers : ClaimCommit(w) /\ y \in ws[w].seen
    /\ \E f \in Fences : Fenced(y) = 1..(f - 1) /\ Becomes(y, f, "RUNNING")
    /\ nodeStatus'[y] = "RUNNING" /\ readyStatus'[y] = "CLAIMED"

HeldBack(y) ==
    /\ readyStatus[y] = "READY"
    /\ nodeStatus'[y] = nodeStatus[y] /\ readyStatus'[y] = "WAITING"
    /\ SameStatuses(y)

Committed(y) ==
    /\ \E w \in Workers : CompleteCommit(w) /\ ws[w].row = y
    /\ \E f \in Fences : Running(y, f) /\ Becomes(y, f, "SUCCEEDED")
    /\ nodeStatus[y] = "RUNNING" /\ nodeStatus'[y] = "SUCCEEDED"
    /\ readyStatus'[y] = IF readyStatus[y] = "CLAIMED" THEN "DONE" ELSE readyStatus[y]

AttemptFailed(y) ==
    /\ \E f \in Fences : Running(y, f) /\ Becomes(y, f, "FAILED")
    /\ \/ nodeStatus'[y] = "READY" /\ readyStatus'[y] = Requeued(readyStatus[y])
       \/ /\ nodeStatus'[y] \in {"FAILED", "REVIEW_REQUIRED"}
          /\ readyStatus'[y] = readyStatus[y]

Reaped(y) ==
    /\ \E f \in Fences : Running(y, f) /\ att'[y][f].status = "STALE"
    /\ \A g \in Fences : \/ att'[y][g].status = att[y][g].status
                         \/ Running(y, g) /\ att'[y][g].status = "STALE"
    /\ \/ nodeStatus[y] = "RUNNING" /\ nodeStatus'[y] = "READY"
       \/ nodeStatus[y] = "WAITING" /\ nodeStatus'[y] = "FAILED"
       \/ nodeStatus[y] # "RUNNING" /\ nodeStatus'[y] = nodeStatus[y]
    /\ readyStatus'[y] = Recovered(readyStatus[y])

WaitLapsed(y) ==
    /\ nodeStatus'[y] = IF nodeStatus[y] = "WAITING" THEN "FAILED" ELSE nodeStatus[y]
    /\ readyStatus'[y] = IF readyStatus[y] = "WAITING" THEN "DONE" ELSE readyStatus[y]
    /\ SameStatuses(y)

Released(y) ==
    /\ nodeStatus'[y] = IF nodeStatus[y] = "WAITING" THEN "READY" ELSE nodeStatus[y]
    /\ readyStatus'[y] = IF readyStatus[y] = "WAITING" THEN "READY" ELSE readyStatus[y]
    /\ SameStatuses(y)

RowCancelled(y) ==
    /\ nodeStatus'[y] = IF nodeStatus[y] \in {"READY", "WAITING", "RUNNING"} THEN "CANCELLED"
                        ELSE nodeStatus[y]
    /\ readyStatus'[y] = IF readyStatus[y] \in LiveReady THEN "CANCELLED" ELSE readyStatus[y]
    /\ \A g \in Fences : att'[y][g].status = IF Running(y, g) THEN "CANCELLED" ELSE att[y][g].status

Retried(y) ==
    /\ \E o \in Operators : RetryWrite(o) /\ os[o].row = y
    /\ nodeStatus'[y] = "READY"
    /\ readyStatus'[y] = IF readyStatus[y] = "DONE" THEN "DONE" ELSE "READY"
    /\ SameStatuses(y)

Reassigned(y) ==
    /\ \E o \in Operators : ReassignWrite(o) /\ os[o].row = y
    /\ nodeStatus'[y] = IF nodeStatus[y] \in {"RUNNING", "WAITING"} THEN "READY" ELSE nodeStatus[y]
    /\ readyStatus'[y] = Requeued(readyStatus[y])
    /\ \A g \in Fences : \/ att'[y][g].status = att[y][g].status
                         \/ Running(y, g) /\ att'[y][g].status = "STALE"

Skipped(y) ==
    /\ \E o \in Operators : SkipWrite(o) /\ os[o].row = y
    /\ nodeStatus'[y] = "SKIPPED" /\ readyStatus'[y] = Closed(readyStatus[y])
    /\ SameStatuses(y)

Fate(y) ==
    \/ Untouched(y) \/ Refused(y) \/ Claimed(y) \/ HeldBack(y) \/ Committed(y)
    \/ AttemptFailed(y) \/ Reaped(y) \/ WaitLapsed(y) \/ Released(y) \/ RowCancelled(y)
    \/ Retried(y) \/ Reassigned(y) \/ Skipped(y)

RowFate(y) == Created(y) \/ (ident'[y] = ident[y] /\ Fate(y))

LEMMA SameAttempts ==
    ASSUME NEW y, att'[y] = att[y]
    PROVE  SameStatuses(y)
BY DEF SameStatuses

(* Routing leaves a row as its caller wrote it, or creates it. *)
LEMMA ActivateRow ==
    ASSUME NEW x, NEW chosen, NEW status, NEW nodes, NEW readies,
           Activate(x, chosen, status, nodes, readies),
           NEW y \in NodeRuns, SameStatuses(y)
    PROVE  \/ /\ nodeStatus'[y] = nodes[y] /\ readyStatus'[y] = readies[y]
              /\ ident'[y] = ident[y]
           \/ Created(y)
<1>1. /\ nodeStatus'[y] = IF y \in Inserted(x, chosen) THEN StartStatus(y[1]) ELSE nodes[y]
      /\ readyStatus'[y] = IF y \in Inserted(x, chosen) THEN StartStatus(y[1]) ELSE readies[y]
      /\ ident'[y] = IF y \in Inserted(x, chosen) THEN Identity(x, chosen, y[1]) ELSE ident[y]
      /\ \A t \in Activated(x, chosen) : CanInsert(t, Identity(x, chosen, t))
  BY DEF Activate
<1>2. CASE y \in Inserted(x, chosen)
  <2>1. PICK t \in Activated(x, chosen) :
            Reused(t, Identity(x, chosen, t)) = {} /\ y \in Fresh(t)
    BY <1>2 DEF Inserted
  <2>2. y[1] = t
    BY <2>1, FreshRows
  <2>3. ~Clashes(t, Identity(x, chosen, t))
    BY <1>1, <2>1 DEF CanInsert
  <2>4. IsJoin(t) => Identity(x, chosen, t).branch = <<t>>
    BY DEF Identity
  <2> QED
    BY <1>1, <1>2, <2>1, <2>2, <2>3, <2>4, StartStatusType DEF Created
<1>3. CASE y \notin Inserted(x, chosen)
  BY <1>1, <1>3
<1> QED
  BY <1>2, <1>3

LEMMA WorkerFate ==
    ASSUME TypeOK, NEW w \in Workers, WorkerStep(w), NEW y \in NodeRuns
    PROVE  RowFate(y)
<1> USE DEF rows, vars
<1>0. /\ ws[w] \in Session /\ ws[w].seen \in SUBSET NodeRuns
      /\ ws[w].row \in NodeRuns
      /\ ws[w].op \in LeaseCalls => ws[w].fence \in Fences
      /\ nodeStatus \in [NodeRuns -> NodeStatus \cup {"NONE"}]
      /\ readyStatus \in [NodeRuns -> ReadyStatus \cup {"NONE"}]
      /\ att \in [NodeRuns -> [Fences -> Attempt]]
  BY DEF TypeOK, Session, LeaseCalls
<1>1. CASE \/ ClaimRead(w) \/ CheckpointCommit(w) \/ WorkerReturn(w)
           \/ \E op \in LeaseCalls, x \in NodeRuns, f \in Fences : Verify(w, op, x, f)
  <2>1. UNCHANGED <<nodeStatus, readyStatus, att, ident>>
    BY <1>1 DEF ClaimRead, CheckpointCommit, WorkerReturn, Verify
  <2> QED
    BY <2>1, SameAttempts DEF RowFate, Fate, Untouched
<1>2. CASE ClaimNone(w)
  <2>1. PICK bad \in Rejections(w) :
          /\ readyStatus' = Rejected(bad, readyStatus, "CANCELLED")
          /\ nodeStatus' = Rejected(bad, nodeStatus, "REVIEW_REQUIRED")
          /\ bad # {}
          /\ UNCHANGED <<att, ident>>
    BY <1>2 DEF ClaimNone
  <2>2. "reject" \in WorkerOps
    BY <2>1 DEF Rejections
  <2>3. Refused(y) \/ Untouched(y)
    BY <2>1, <2>2, SameAttempts DEF Rejected, Refused, Untouched
  <2> QED
    BY <2>1, <2>3 DEF RowFate, Fate
<1>3. CASE ClaimCommit(w)
  <2>1. PICK bad \in Rejections(w), x \in ws[w].seen, f \in Fences :
          /\ x \notin bad
          /\ Claimable(x) /\ Fenced(x) = 1..(f - 1)
          /\ readyStatus' = [Rejected(bad, readyStatus, "CANCELLED") EXCEPT ![x] = "CLAIMED"]
          /\ nodeStatus' = [Rejected(bad, nodeStatus, "REVIEW_REQUIRED") EXCEPT ![x] = "RUNNING"]
          /\ att' = [att EXCEPT ![x][f] =
                 [worker |-> w, status |-> "RUNNING", expired |-> FALSE, revoked |-> FALSE]]
          /\ UNCHANGED ident
    BY <1>3 DEF ClaimCommit
  <2>2. /\ x \in NodeRuns /\ Becomes(x, f, "RUNNING") /\ (y # x => SameStatuses(y))
    BY <1>0, <2>1 DEF Becomes, SameStatuses
  <2>3. CASE y = x
    <3>1. nodeStatus'[y] = "RUNNING" /\ readyStatus'[y] = "CLAIMED"
      BY <2>1, <2>3 DEF Rejected
    <3>2. Claimed(y)
      BY <1>3, <2>1, <2>2, <2>3, <3>1 DEF Claimed
    <3> QED
      BY <2>1, <3>2 DEF RowFate, Fate
  <2>4. CASE y # x
    <3>1. bad # {} => "reject" \in WorkerOps
      BY DEF Rejections
    <3>2. Refused(y) \/ Untouched(y)
      BY <2>1, <2>2, <2>4, <3>1 DEF Rejected, Refused, Untouched
    <3> QED
      BY <2>1, <3>2 DEF RowFate, Fate
  <2> QED
    BY <2>3, <2>4
<1>4. CASE ClaimOverBudget(w)
  <2>1. PICK bad \in Rejections(w), x \in ws[w].seen :
          /\ x \notin bad
          /\ readyStatus[x] = "READY"
          /\ readyStatus' = [Rejected(bad, readyStatus, "CANCELLED") EXCEPT ![x] = "WAITING"]
          /\ nodeStatus' = Rejected(bad, nodeStatus, "REVIEW_REQUIRED")
          /\ UNCHANGED <<att, ident>>
    BY <1>4 DEF ClaimOverBudget
  <2>2. bad # {} => "reject" \in WorkerOps
    BY DEF Rejections
  <2>3. Refused(y) \/ Untouched(y) \/ HeldBack(y)
    BY <2>1, <2>2, SameAttempts DEF Rejected, Refused, Untouched, HeldBack
  <2> QED
    BY <2>1, <2>3 DEF RowFate, Fate
<1>5. CASE HeartbeatCommit(w) \/ RevokeCommit(w)
  <2> DEFINE x == ws[w].row
             f == ws[w].fence
             a == att[x][f]
  <2>1. /\ f \in Fences
        /\ att' = [att EXCEPT ![x][f] = Renewed(a)] \/ att' = [att EXCEPT ![x][f] = Ended(a, a.status)]
        /\ UNCHANGED <<nodeStatus, readyStatus, ident>>
    BY <1>0, <1>5 DEF HeartbeatCommit, RevokeCommit, LeaseCalls
  <2>2. Renewed(a).status = a.status /\ Ended(a, a.status).status = a.status
    <3>1. a \in Attempt /\ a.status \in AttemptStatus \cup {"NONE"}
      BY <1>0, <2>1 DEF Attempt
    <3> QED
      BY <3>1, EndedType, LeasedType
  <2>3. SameStatuses(y)
    <3> HIDE DEF x, f
    <3>1. x \in NodeRuns
      BY <1>0 DEF x
    <3> QED
      BY <1>0, <2>1, <2>2, <3>1, SMTT(20), ZenonT(40) DEF SameStatuses
  <2> QED
    BY <2>1, <2>3 DEF RowFate, Fate, Untouched
<1>6. CASE CompleteCommit(w)
  <2> DEFINE x == ws[w].row
             f == ws[w].fence
             nodes == [nodeStatus EXCEPT ![x] = "SUCCEEDED"]
             readies == [readyStatus EXCEPT ![x] = IF @ = "CLAIMED" THEN "DONE" ELSE @]
  <2>1. /\ f \in Fences /\ nodeStatus[x] = "RUNNING" /\ Running(x, f)
        /\ att' = [att EXCEPT ![x][f] = Ended(att[x][f], "SUCCEEDED")]
        /\ \/ \E chosen \in Plan[x[1]].routes : Activate(x, chosen, run, nodes, readies)
           \/ nodeStatus' = nodes /\ readyStatus' = readies /\ ident' = ident
    BY <1>0, <1>6 DEF CompleteCommit, LeaseCalls, Commits, LeaseValid, NoRouting
  <2>2. Becomes(x, f, "SUCCEEDED") /\ (y # x => SameStatuses(y))
    <3>1. Ended(att[x][f], "SUCCEEDED").status = "SUCCEEDED"
      BY <1>0, <2>1, EndedType DEF AttemptStatus
    <3>2. x \in NodeRuns
      BY <1>0
    <3> HIDE DEF x, f
    <3> QED
      BY <1>0, <2>1, <3>1, <3>2 DEF Becomes, SameStatuses
  <2>3. CASE y = x
    <3>1. ~(y \in Fresh(y[1]))
      BY <2>1, <2>3, FreshRows
    <3>2. /\ nodeStatus'[y] = nodes[y] /\ readyStatus'[y] = readies[y] /\ ident'[y] = ident[y]
      <4>1. ASSUME NEW chosen, Activate(x, chosen, run, nodes, readies)
            PROVE  /\ nodeStatus'[y] = nodes[y] /\ readyStatus'[y] = readies[y]
                   /\ ident'[y] = ident[y]
        <5>1. y \notin Inserted(x, chosen)
          <6>1. \A t \in Activated(x, chosen) : CanInsert(t, Identity(x, chosen, t))
            BY <4>1 DEF Activate
          <6> QED
            BY <2>1, <2>3, <6>1, InsertedRows
        <5> HIDE DEF x, nodes, readies
        <5> QED
          BY <4>1, <5>1 DEF Activate
      <4> QED
        BY <2>1, <4>1
    <3>3. /\ nodes[y] = "SUCCEEDED"
          /\ readies[y] = IF readyStatus[y] = "CLAIMED" THEN "DONE" ELSE readyStatus[y]
      BY <1>0, <2>3
    <3>4. Committed(y)
      BY <1>6, <2>1, <2>2, <2>3, <3>2, <3>3 DEF Committed
    <3> QED
      BY <3>2, <3>4 DEF RowFate, Fate
  <2>4. CASE y # x
    <3>1. nodes[y] = nodeStatus[y] /\ readies[y] = readyStatus[y] /\ SameStatuses(y)
      BY <1>0, <2>2, <2>4
    <3> HIDE DEF x, nodes, readies
    <3> QED
      BY <2>1, <3>1, ActivateRow DEF RowFate, Fate, Untouched
  <2> QED
    BY <2>3, <2>4
<1>7. CASE FailCommit(w)
  <2> DEFINE x == ws[w].row
             f == ws[w].fence
  <2>1. /\ f \in Fences /\ Running(x, f)
        /\ att' = [att EXCEPT ![x][f] = Ended(att[x][f], "FAILED")]
        /\ \/ /\ nodeStatus' = [nodeStatus EXCEPT ![x] = "READY"]
              /\ readyStatus' = [readyStatus EXCEPT ![x] = Requeued(@)]
           \/ /\ \E u \in BOOLEAN : nodeStatus' = [nodeStatus EXCEPT ![x] = FailureStatus(u)]
              /\ UNCHANGED readyStatus
        /\ UNCHANGED ident
    BY <1>0, <1>7 DEF FailCommit, LeaseCalls
  <2>2. Becomes(x, f, "FAILED") /\ (y # x => SameStatuses(y))
    <3>1. Ended(att[x][f], "FAILED").status = "FAILED"
      BY <1>0, <2>1, EndedType DEF AttemptStatus
    <3>2. x \in NodeRuns
      BY <1>0
    <3> HIDE DEF x, f
    <3> QED
      BY <1>0, <2>1, <3>1, <3>2 DEF Becomes, SameStatuses
  <2>3. CASE y = x
    <3>1. AttemptFailed(y)
      BY <1>0, <2>1, <2>2, <2>3 DEF AttemptFailed, FailureStatus
    <3> QED
      BY <2>1, <3>1 DEF RowFate, Fate
  <2>4. CASE y # x
    BY <1>0, <2>1, <2>2, <2>4 DEF RowFate, Fate, Untouched
  <2> QED
    BY <2>3, <2>4
<1> QED
  BY <1>1, <1>2, <1>3, <1>4, <1>5, <1>6, <1>7 DEF WorkerStep

LEMMA OperatorFate ==
    ASSUME TypeOK, NEW o \in Operators, OperatorStep(o), NEW y \in NodeRuns
    PROVE  RowFate(y)
<1> USE DEF rows, vars
<1> DEFINE x == os[o].row
<1>0. /\ x \in NodeRuns
      /\ os[o].op = "reassign" => os[o].fence \in Fences
      /\ nodeStatus \in [NodeRuns -> NodeStatus \cup {"NONE"}]
      /\ readyStatus \in [NodeRuns -> ReadyStatus \cup {"NONE"}]
      /\ att \in [NodeRuns -> [Fences -> Attempt]]
  BY DEF TypeOK, Session
<1>1. CASE \/ \E z \in NodeRuns : RetryRead(o, z) \/ SkipRead(o, z) \/ ForceRead(o, z)
           \/ \E z \in NodeRuns, f \in Fences : ReassignRead(o, z, f)
           \/ OpReturn(o)
  <2>1. UNCHANGED <<nodeStatus, readyStatus, att, ident>>
    BY <1>1 DEF RetryRead, SkipRead, ForceRead, ReassignRead, OpBegin, OpReturn
  <2> QED
    BY <2>1, SameAttempts DEF RowFate, Fate, Untouched
<1>2. CASE RetryWrite(o)
  <2> DEFINE id == [iter |-> 0, branch |-> <<>>]
             new == IF readyStatus[x] = "DONE" /\ Reused(x[1], id) = {} THEN Fresh(x[1]) ELSE {}
  <2>1. /\ nodeStatus'[y] = IF y = x \/ y \in new THEN "READY" ELSE nodeStatus[y]
        /\ readyStatus'[y] = IF (y = x /\ readyStatus[x] # "DONE") \/ y \in new
                             THEN "READY" ELSE readyStatus[y]
        /\ ident'[y] = IF y \in new THEN id ELSE ident[y]
        /\ readyStatus[x] = "DONE" => CanInsert(x[1], id)
        /\ SameStatuses(y)
        /\ os[o].op = "retry"
    BY <1>2, SameAttempts DEF RetryWrite
  <2>2. CASE y \in new
    <3>1. y \in Fresh(x[1]) /\ Reused(x[1], id) = {} /\ readyStatus[x] = "DONE"
      BY <2>2
    <3>2. y[1] = x[1]
      BY <3>1, FreshRows
    <3>3. ~Clashes(x[1], id)
      BY <2>1, <3>1 DEF CanInsert
    <3> HIDE DEF id, new, x
    <3> QED
      BY <2>1, <2>2, <3>1, <3>2, <3>3 DEF RowFate, Created
  <2>3. CASE y \notin new /\ y = x
    BY <1>2, <2>1, <2>3 DEF RowFate, Fate, Retried
  <2>4. CASE y \notin new /\ y # x
    BY <2>1, <2>4 DEF RowFate, Fate, Untouched
  <2> QED
    BY <2>2, <2>3, <2>4
<1>3. CASE ReassignWrite(o)
  <2> DEFINE f == os[o].fence
             a == att[x][f]
  <2>1. /\ f \in Fences
        /\ att' = [att EXCEPT ![x][f] = Ended(a, FencedStatus(a.status))]
        /\ readyStatus' = [readyStatus EXCEPT ![x] = Requeued(@)]
        /\ nodeStatus' = [nodeStatus EXCEPT ![x] =
               IF @ \in {"RUNNING", "WAITING"} THEN "READY" ELSE @]
        /\ UNCHANGED ident
    BY <1>0, <1>3 DEF ReassignWrite
  <2>2. Ended(a, FencedStatus(a.status)).status = FencedStatus(a.status)
    <3>1. a \in Attempt /\ a.status \in AttemptStatus \cup {"NONE"}
      BY <1>0, <2>1 DEF Attempt
    <3>2. FencedStatus(a.status) \in AttemptStatus \cup {"NONE"}
      BY <3>1 DEF FencedStatus, AttemptStatus
    <3> QED
      BY <3>1, <3>2, EndedType
  <2>3. CASE y = x
    <3>1. \A g \in Fences : \/ att'[y][g].status = att[y][g].status
                            \/ Running(y, g) /\ att'[y][g].status = "STALE"
      BY <1>0, <2>1, <2>2, <2>3 DEF FencedStatus, Running
    <3>2. /\ readyStatus'[y] = Requeued(readyStatus[y])
          /\ nodeStatus'[y] = IF nodeStatus[y] \in {"RUNNING", "WAITING"} THEN "READY" ELSE nodeStatus[y]
      BY <1>0, <2>1, <2>3
    <3> QED
      BY <1>3, <2>1, <2>3, <3>1, <3>2 DEF RowFate, Fate, Reassigned
  <2>4. CASE y # x
    BY <1>0, <2>1, <2>4 DEF RowFate, Fate, Untouched, SameStatuses
  <2> QED
    BY <2>3, <2>4
<1>4. CASE SkipWrite(o)
  <2> DEFINE nodes == [nodeStatus EXCEPT ![x] = "SKIPPED"]
             readies == [readyStatus EXCEPT ![x] = Closed(@)]
  <2>1. PICK chosen : Activate(x, chosen, run, nodes, readies)
    BY <1>4 DEF SkipWrite
  <2>2. SameStatuses(y)
    BY <1>4, SameAttempts DEF SkipWrite
  <2>3. /\ nodes[y] = IF y = x THEN "SKIPPED" ELSE nodeStatus[y]
        /\ readies[y] = IF y = x THEN Closed(readyStatus[y]) ELSE readyStatus[y]
    BY <1>0
  <2>4. \/ /\ nodeStatus'[y] = nodes[y] /\ readyStatus'[y] = readies[y]
           /\ ident'[y] = ident[y]
        \/ Created(y)
    <3> HIDE DEF x, nodes, readies
    <3> QED
      BY <2>1, <2>2, ActivateRow
  <2>5. CASE y = x
    BY <1>4, <2>2, <2>3, <2>4, <2>5 DEF RowFate, Fate, Skipped
  <2>6. CASE y # x
    BY <2>2, <2>3, <2>4, <2>6 DEF RowFate, Fate, Untouched
  <2> QED
    BY <2>5, <2>6
<1>5. CASE ForceWrite(o)
  <2>1. PICK chosen : Activate(x, chosen, run, nodeStatus, readyStatus)
    BY <1>5 DEF ForceWrite
  <2>2. SameStatuses(y)
    BY <1>5, SameAttempts DEF ForceWrite
  <2> HIDE DEF x
  <2> QED
    BY <2>1, <2>2, ActivateRow DEF RowFate, Fate, Untouched
<1> QED
  BY <1>1, <1>2, <1>3, <1>4, <1>5 DEF OperatorStep

LEMMA ReaperFate ==
    ASSUME TypeOK, ReapRead \/ ReapCommit \/ ReapReturn, NEW y \in NodeRuns
    PROVE  RowFate(y)
<1> USE DEF rows, vars
<1>1. CASE ReapRead \/ ReapReturn
  <2>1. UNCHANGED <<nodeStatus, readyStatus, att, ident>>
    BY <1>1 DEF ReapRead, ReapReturn
  <2> QED
    BY <2>1, SameAttempts DEF RowFate, Fate, Untouched
<1>2. CASE ReapCommit
  <2> DEFINE stale == {a \in rs.attempts : Running(a[1], a[2])}
             reaped == {a[1] : a \in stale}
  <2>1. /\ att' = [x \in NodeRuns |-> [f \in Fences |->
               IF <<x, f>> \in stale THEN Ended(att[x][f], "STALE") ELSE att[x][f]]]
        /\ nodeStatus'[y] = IF y \in reaped /\ nodeStatus[y] = "RUNNING" THEN "READY"
                            ELSE IF y \in rs.waits /\ nodeStatus[y] = "WAITING" THEN "FAILED"
                            ELSE nodeStatus[y]
        /\ readyStatus'[y] = IF y \in reaped THEN Recovered(readyStatus[y])
                             ELSE IF y \in rs.waits /\ readyStatus[y] = "WAITING" THEN "DONE"
                             ELSE readyStatus[y]
        /\ ident' = ident
    BY <1>2 DEF ReapCommit
  <2>2. \A g \in Fences : Ended(att[y][g], "STALE").status = "STALE"
    <3>1. \A g \in Fences : att[y][g] \in Attempt
      BY DEF TypeOK
    <3> QED
      BY <3>1, EndedType DEF AttemptStatus
  <2>3. \A g \in Fences : att'[y][g].status =
            IF <<y, g>> \in stale THEN "STALE" ELSE att[y][g].status
    BY <2>1, <2>2
  <2>4. \A g \in Fences : <<y, g>> \in stale => Running(y, g)
    OBVIOUS
  <2>5. y \in reaped => \E f \in Fences : <<y, f>> \in stale
    <3>1. rs.attempts \subseteq NodeRuns \X Fences
      BY DEF TypeOK
    <3> QED
      BY <3>1
  <2>6. \A f \in Fences : <<y, f>> \in stale => y \in reaped
    OBVIOUS
  <2> HIDE DEF stale, reaped
  <2>7. CASE y \in reaped
    BY <2>1, <2>3, <2>4, <2>5, <2>7 DEF RowFate, Fate, Reaped
  <2>8. CASE y \notin reaped
    BY <2>1, <2>3, <2>6, <2>8 DEF RowFate, Fate, Untouched, WaitLapsed, SameStatuses
  <2> QED
    BY <2>7, <2>8
<1> QED
  BY <1>1, <1>2

LEMMA ControlFate ==
    ASSUME TypeOK, NEW y \in NodeRuns,
           \/ \E x \in NodeRuns, f \in Fences : Expire(x, f)
           \/ Pause \/ Resume \/ Cancel
           \/ \E x \in NodeRuns : ResolveWait(x)
    PROVE  RowFate(y)
<1>0. /\ nodeStatus \in [NodeRuns -> NodeStatus \cup {"NONE"}]
      /\ readyStatus \in [NodeRuns -> ReadyStatus \cup {"NONE"}]
      /\ att \in [NodeRuns -> [Fences -> Attempt]]
  BY DEF TypeOK
<1>1. CASE \E x \in NodeRuns, f \in Fences : Expire(x, f)
  <2>1. PICK x \in NodeRuns, f \in Fences : Expire(x, f)
    BY <1>1
  <2>2. SameStatuses(y)
    BY <1>0, <2>1, LeasedType DEF Expire, SameStatuses
  <2> QED
    BY <2>1, <2>2 DEF Expire, RowFate, Fate, Untouched
<1>2. CASE Pause
  BY <1>2, SameAttempts DEF Pause, RowFate, Fate, Untouched, HeldBack
<1>3. CASE Resume
  BY <1>3, SameAttempts DEF Resume, RowFate, Fate, Released
<1>4. CASE Cancel
  <2>1. \A g \in Fences :
            att'[y][g].status = IF Running(y, g) THEN "CANCELLED" ELSE att[y][g].status
    <3> TAKE g \in Fences
    <3>1. att[y][g] \in Attempt /\ att[y][g].status \in AttemptStatus \cup {"NONE"}
      BY <1>0 DEF Attempt
    <3>2. /\ Ended(att[y][g], "CANCELLED").status = "CANCELLED"
          /\ Ended(att[y][g], att[y][g].status).status = att[y][g].status
      BY <3>1, EndedType DEF AttemptStatus
    <3> QED
      BY <1>4, <3>2 DEF Cancel, Running
  <2>2. /\ readyStatus'[y] = IF readyStatus[y] \in LiveReady THEN "CANCELLED" ELSE readyStatus[y]
        /\ nodeStatus'[y] = IF nodeStatus[y] \in {"READY", "WAITING", "RUNNING"}
                            THEN "CANCELLED" ELSE nodeStatus[y]
        /\ ident' = ident
    BY <1>4 DEF Cancel
  <2> QED
    BY <2>1, <2>2 DEF RowFate, Fate, RowCancelled
<1>5. CASE \E x \in NodeRuns : ResolveWait(x)
  <2>1. PICK x \in NodeRuns : ResolveWait(x)
    BY <1>5
  <2>2. /\ nodeStatus'[y] = IF y = x /\ nodeStatus[y] = "WAITING" THEN "READY" ELSE nodeStatus[y]
        /\ readyStatus'[y] = IF y = x /\ readyStatus[y] = "WAITING" THEN "READY" ELSE readyStatus[y]
        /\ UNCHANGED <<att, ident>>
    BY <1>0, <2>1 DEF ResolveWait
  <2> QED
    BY <2>2, SameAttempts DEF RowFate, Fate, Untouched, Released
<1> QED
  BY <1>1, <1>2, <1>3, <1>4, <1>5

LEMMA StepFate ==
    ASSUME TypeOK, [Next]_vars, NEW y \in NodeRuns
    PROVE  RowFate(y)
<1>1. CASE Next
  BY <1>1, WorkerFate, OperatorFate, ReaperFate, ControlFate DEF Next
<1>2. CASE UNCHANGED vars
  BY <1>2, SameAttempts DEF vars, rows, RowFate, Fate, Untouched
<1> QED
  BY <1>1, <1>2

(* The fates without their names, for leaves that look at all of them. *)
LEMMA FateKeepsRow ==
    ASSUME NEW y \in NodeRuns, RowFate(y), Exists(y)
    PROVE  Exists(y)'
BY DEF RowFate, Fate, Created, Fresh, Exists, Untouched, Refused, Claimed, HeldBack, Committed,
       AttemptFailed, Reaped, WaitLapsed, Released, RowCancelled, Retried, Reassigned, Skipped

LEMMA FateKeepsQueue ==
    ASSUME NEW y \in NodeRuns, RowFate(y), ~Created(y), ~Retried(y),
           readyStatus'[y] \in LiveReady
    PROVE  readyStatus[y] \in LiveReady
BY DEF LiveReady, RowFate, Fate, Untouched, Refused, Claimed, Claimable, HeldBack, Committed,
       AttemptFailed, Reaped, WaitLapsed, Released, RowCancelled, Reassigned, Skipped, Closed,
       Requeued, Recovered

-----------------------------------------------------------------------------
(* A node run is committed once. *)

LEMMA FateAgrees ==
    ASSUME TypeOK, NEW y \in NodeRuns, TablesAgree(y), RowFate(y)
    PROVE  TablesAgree(y)'
<1>0. att \in [NodeRuns -> [Fences -> Attempt]]
  BY DEF TypeOK
<1>1. CASE Created(y)
  BY <1>0, <1>1, FreshRows DEF TablesAgree, Created, SameStatuses
<1>2. CASE Untouched(y) \/ Refused(y) \/ HeldBack(y) \/ WaitLapsed(y) \/ Released(y)
  BY <1>0, <1>2 DEF TablesAgree, Untouched, Refused, HeldBack, WaitLapsed, Released, SameStatuses
<1>3. CASE Claimed(y)
  BY <1>0, <1>3 DEF TablesAgree, Claimed, Claimable, Becomes
<1>4. CASE Committed(y)
  <2>1. readyStatus[y] = "CLAIMED" /\ readyStatus'[y] = "DONE" /\ nodeStatus'[y] = "SUCCEEDED"
    BY <1>4 DEF TablesAgree, Committed
  <2>2. \A g \in Fences : att[y][g].status # "SUCCEEDED"
    BY <2>1 DEF TablesAgree
  <2> QED
    BY <1>4, <2>1, <2>2 DEF TablesAgree, Committed, Becomes
<1>5. CASE AttemptFailed(y)
  BY <1>5 DEF TablesAgree, AttemptFailed, Requeued, Becomes, Running
<1>6. CASE Reaped(y)
  BY <1>6 DEF TablesAgree, Reaped, Recovered, Running
<1>7. CASE RowCancelled(y)
  BY <1>7 DEF TablesAgree, RowCancelled, LiveReady, Running
<1>8. CASE Retried(y)
  BY <1>8 DEF TablesAgree, Retried, SameStatuses
<1>9. CASE Reassigned(y)
  BY <1>9 DEF TablesAgree, Reassigned, Requeued, Running
<1>10. CASE Skipped(y)
  BY <1>10 DEF TablesAgree, Skipped, Closed, LiveReady, SameStatuses
<1> QED
  BY <1>1, <1>2, <1>3, <1>4, <1>5, <1>6, <1>7, <1>8, <1>9, <1>10 DEF RowFate, Fate

(* The three tables agree about every node run in every reachable state,    *)
(* however workers, reaper and operators interleave.                        *)
THEOREM TablesAlwaysAgree == Spec => []TablesAgreeOnAll
<1>1. Init => TablesAgreeOnAll
  <2> SUFFICES ASSUME Init, NEW x \in NodeRuns PROVE TablesAgree(x)
    BY DEF TablesAgreeOnAll
  <2>1. /\ readyStatus[x] = nodeStatus[x]
        /\ nodeStatus[x] \in {"READY", "WAITING", "NONE"}
        /\ \A f \in Fences : att[x][f].status = "NONE"
    BY DEF Init, NoAttempt
  <2> QED
    BY <2>1 DEF TablesAgree
<1>2. TypeOK /\ TablesAgreeOnAll /\ [Next]_vars => TablesAgreeOnAll'
  BY StepFate, FateAgrees DEF TablesAgreeOnAll
<1> QED
  BY <1>1, <1>2, TypeCorrect, PTL DEF Spec

(* No node run is committed by two attempts. *)
THEOREM CommittedOnce == Spec => []CommitOnce
<1>1. TablesAgreeOnAll => CommitOnce
  BY DEF TablesAgreeOnAll, TablesAgree, CommitOnce
<1> QED
  BY <1>1, TablesAlwaysAgree, PTL

(* No committed node run returns to the claim queue. *)
THEOREM CommittedStaysDone == Spec => []CommittedIsNotRequeued
<1>1. TablesAgreeOnAll => CommittedIsNotRequeued
  BY DEF TablesAgreeOnAll, TablesAgree, CommittedIsNotRequeued
<1> QED
  BY <1>1, TablesAlwaysAgree, PTL

-----------------------------------------------------------------------------
(* Outcomes *)

(* Routing leaves a Run that ended as it is, unless its caller moved it. *)
LEMMA RoutedRun ==
    ASSUME NEW x, NEW chosen, NEW status, status \in Final
    PROVE  RunAfter(x, chosen, status) = status
  BY DEF RunAfter, Final

(* A Run that was cancelled or has succeeded stays so: every writer of the  *)
(* status either tests it or goes through Restarted or RunAfter.            *)
THEOREM RunOutcomeIsFinal == Spec => OutcomeOfRunIsFinal
<1>1. ASSUME [Next]_vars, run \in {"CANCELLED", "SUCCEEDED"}
      PROVE  run' = run
  <2> USE <1>1 DEF rows, vars, Final
  <2>1. ASSUME NEW w \in Workers, WorkerStep(w)
        PROVE  run' = run
    <3>1. CASE \/ ClaimRead(w) \/ HeartbeatCommit(w) \/ CheckpointCommit(w)
               \/ RevokeCommit(w) \/ WorkerReturn(w)
               \/ \E op \in LeaseCalls, x \in NodeRuns, f \in Fences : Verify(w, op, x, f)
      BY <3>1 DEF ClaimRead, HeartbeatCommit, CheckpointCommit, RevokeCommit, WorkerReturn, Verify
    <3>2. CASE ClaimNone(w) \/ ClaimCommit(w) \/ ClaimOverBudget(w)
      BY <3>2 DEF ClaimNone, ClaimCommit, ClaimOverBudget, RunOfRejected
    <3>3. CASE CompleteCommit(w)
      BY <3>3, RoutedRun DEF CompleteCommit, NoRouting, Activate
    <3>4. CASE FailCommit(w)
      BY <3>4 DEF FailCommit, Restarted
    <3> QED
      BY <2>1, <3>1, <3>2, <3>3, <3>4 DEF WorkerStep
  <2>2. ASSUME NEW o \in Operators, OperatorStep(o)
        PROVE  run' = run
    <3>1. CASE \/ \E x \in NodeRuns : RetryRead(o, x) \/ SkipRead(o, x) \/ ForceRead(o, x)
               \/ \E x \in NodeRuns, f \in Fences : ReassignRead(o, x, f)
               \/ OpReturn(o)
      BY <3>1 DEF RetryRead, SkipRead, ForceRead, ReassignRead, OpBegin, OpReturn
    <3>2. CASE RetryWrite(o) \/ ReassignWrite(o)
      BY <3>2 DEF RetryWrite, ReassignWrite, Restarted
    <3>3. CASE SkipWrite(o) \/ ForceWrite(o)
      BY <3>3, RoutedRun DEF SkipWrite, ForceWrite, Activate
    <3> QED
      BY <2>2, <3>1, <3>2, <3>3 DEF OperatorStep
  <2>3. CASE \/ \E x \in NodeRuns, f \in Fences : Expire(x, f)
             \/ ReapRead \/ ReapCommit \/ ReapReturn
    BY <2>3 DEF Expire, ReapRead, ReapCommit, ReapReturn
  <2>4. CASE Pause \/ Resume \/ Cancel \/ \E x \in NodeRuns : ResolveWait(x)
    BY <2>4 DEF Pause, Resume, Cancel, ResolveWait
  <2> QED
    BY <2>1, <2>2, <2>3, <2>4 DEF Next
<1> QED
  BY <1>1, PTL DEF Spec, OutcomeOfRunIsFinal

LEMMA FateKeepsOutcome ==
    ASSUME NEW y \in NodeRuns, NEW g \in Fences, RowFate(y),
           att[y][g].status \notin {"NONE", "RUNNING"}
    PROVE  att'[y][g].status = att[y][g].status
<1>1. CASE Claimed(y)
  <2>1. PICK f \in Fences : Fenced(y) = 1..(f - 1) /\ Becomes(y, f, "RUNNING")
    BY <1>1 DEF Claimed
  <2>2. g # f
    BY <2>1 DEF Fenced, Fences
  <2> QED
    BY <2>1, <2>2 DEF Becomes
<1>2. CASE Committed(y) \/ AttemptFailed(y)
  BY <1>2 DEF Committed, AttemptFailed, Becomes, Running
<1> QED
  BY <1>1, <1>2 DEF RowFate, Fate, Created, Untouched, Refused, HeldBack, Reaped, WaitLapsed,
                    Released, RowCancelled, Retried, Reassigned, Skipped, SameStatuses, Running

(* An attempt that ended keeps its outcome: every writer of an attempt row  *)
(* finds it RUNNING, finds no row, or writes back the status it found.      *)
THEOREM AttemptOutcomeIsFinal == Spec => OutcomeIsFinal
<1>1. TypeOK /\ [Next]_vars =>
        [\A x \in NodeRuns, f \in Fences :
            att[x][f].status \notin {"NONE", "RUNNING"}
                => att'[x][f].status = att[x][f].status]_vars
  BY StepFate, FateKeepsOutcome
<1> QED
  BY <1>1, TypeCorrect, PTL DEF Spec, OutcomeIsFinal

-----------------------------------------------------------------------------
(* One attempt at a time.  reassign_attempt, and a retry_node that decides  *)
(* on what another one has changed since, release a row under a running     *)
(* attempt; without them the attempt holds its row and the highest fence of *)
(* it until it ends.                                                        *)

(* No operator reassigns, and of those who retry only one is at work. *)
OneDecides ==
    /\ "reassign" \notin Controls
    /\ "retry" \in Controls => \A o, p \in Operators : o = p

Stuck == {"FAILED", "REVIEW_REQUIRED"}

HoldsRow(x) == \A f \in Fences :
    /\ Running(x, f) => /\ readyStatus[x] \in {"CLAIMED", "DONE"}
                        /\ nodeStatus[x] \in {"RUNNING", "SKIPPED"}
                        /\ readyStatus[x] = "CLAIMED" => nodeStatus[x] = "RUNNING"
    /\ att[x][f].status \in {"RUNNING", "SUCCEEDED"} =>
           \A g \in Fences : g > f => att[x][g].status = "NONE"

(* A retry under way still finds the node run it was asked to retry. *)
RetryIsDue(o) ==
    /\ os[o].op # "reassign"
    /\ os[o].op = "retry" => "retry" \in Controls /\ nodeStatus[os[o].row] \in Stuck

RunningHoldsRow == /\ \A x \in NodeRuns : HoldsRow(x)
                   /\ \A o \in Operators : RetryIsDue(o)

LEMMA OneHolder ==
    ASSUME NEW x \in NodeRuns, HoldsRow(x), NEW f \in Fences, Running(x, f),
           NEW g \in Fences, Running(x, g)
    PROVE  f = g
<1>1. ~(f > g) /\ ~(g > f)
  BY DEF HoldsRow, Running
<1> QED
  BY <1>1 DEF Fences

LEMMA FateHolds ==
    ASSUME TypeOK, RunningHoldsRow, NEW y \in NodeRuns, TablesAgree(y), RowFate(y)
    PROVE  HoldsRow(y)'
<1>0. HoldsRow(y) /\ att \in [NodeRuns -> [Fences -> Attempt]]
  BY DEF RunningHoldsRow, TypeOK
<1>1. CASE Created(y)
  BY <1>0, <1>1, FreshRows DEF HoldsRow, Created, SameStatuses, TablesAgree, Running
<1>2. CASE Untouched(y) \/ Refused(y) \/ HeldBack(y) \/ WaitLapsed(y) \/ Released(y)
  BY <1>0, <1>2 DEF HoldsRow, Untouched, Refused, HeldBack, WaitLapsed, Released, SameStatuses, Running
<1>3. CASE Claimed(y)
  <2>1. PICK f \in Fences : Fenced(y) = 1..(f - 1) /\ Becomes(y, f, "RUNNING")
    BY <1>3 DEF Claimed
  <2>2. /\ readyStatus[y] = "READY"
        /\ nodeStatus'[y] = "RUNNING" /\ readyStatus'[y] = "CLAIMED"
    BY <1>3 DEF Claimed, Claimable
  <2>3. \A g \in Fences : att[y][g].status \notin {"RUNNING", "SUCCEEDED"}
    BY <1>0, <2>2 DEF HoldsRow, Running, TablesAgree
  <2>4. \A g \in Fences : g > f => att[y][g].status = "NONE"
    BY <2>1 DEF Fenced, Fences
  <2> QED
    BY <2>1, <2>2, <2>3, <2>4 DEF HoldsRow, Running, Becomes, Fences
<1>4. CASE Committed(y) \/ AttemptFailed(y)
  <2>1. PICK f \in Fences, status \in {"SUCCEEDED", "FAILED"} :
            Running(y, f) /\ Becomes(y, f, status)
    BY <1>4 DEF Committed, AttemptFailed
  <2>2. \A g \in Fences : att'[y][g].status # "RUNNING"
    BY <1>0, <2>1, OneHolder DEF Becomes, Running
  <2>3. \A g \in Fences : g > f => att'[y][g].status = "NONE"
    BY <1>0, <2>1 DEF Becomes, HoldsRow, Running, Fences
  <2>4. \A g \in Fences : g # f => att'[y][g].status = att[y][g].status
    BY <2>1 DEF Becomes
  <2>5. \A g \in Fences : att[y][g].status = "SUCCEEDED" => g = f \/ f > g
    BY <1>0, <2>1 DEF HoldsRow, Running, Fences
  <2>6. \A g \in Fences : g # f => att'[y][g].status # "SUCCEEDED"
    BY <1>0, <2>1, <2>4, <2>5 DEF HoldsRow, Running
  <2> QED
    BY <2>2, <2>3, <2>6 DEF HoldsRow, Running
<1>5. CASE Reaped(y)
  <2>1. \A g \in Fences : att'[y][g].status # "RUNNING"
    BY <1>0, <1>5, OneHolder DEF Reaped, Running
  <2>2. \A g \in Fences : \/ att'[y][g].status = att[y][g].status
                          \/ Running(y, g) /\ att'[y][g].status = "STALE"
    BY <1>5 DEF Reaped
  <2> QED
    BY <1>0, <2>1, <2>2 DEF HoldsRow, Running
<1>6. CASE RowCancelled(y)
  BY <1>0, <1>6 DEF HoldsRow, RowCancelled, Running
<1>7. CASE Retried(y)
  <2>1. nodeStatus[y] \in Stuck
    BY <1>7 DEF Retried, RetryWrite, RunningHoldsRow, RetryIsDue
  <2>2. \A g \in Fences : ~Running(y, g)
    BY <1>0, <2>1 DEF HoldsRow, Stuck
  <2> QED
    BY <1>0, <1>7, <2>2 DEF HoldsRow, Retried, SameStatuses, Running
<1>8. CASE Reassigned(y)
  BY <1>8 DEF Reassigned, ReassignWrite, RunningHoldsRow, RetryIsDue
<1>9. CASE Skipped(y)
  BY <1>0, <1>9 DEF HoldsRow, Skipped, Closed, LiveReady, SameStatuses, Running
<1> QED
  BY <1>1, <1>2, <1>3, <1>4, <1>5, <1>6, <1>7, <1>8, <1>9 DEF RowFate, Fate

(* Only a retry moves a node run that failed or waits for a review. *)
LEMMA FateKeepsStuck ==
    ASSUME RunningHoldsRow, NEW y \in NodeRuns, RowFate(y), nodeStatus[y] \in Stuck
    PROVE  nodeStatus'[y] \in Stuck \/ Retried(y) \/ Skipped(y)
<1>1. \A f \in Fences : ~Running(y, f)
  BY DEF RunningHoldsRow, HoldsRow, Stuck
<1> QED
  BY <1>1 DEF Stuck, RowFate, Fate, Created, Fresh, Exists, Untouched, Refused, Claimed, Claimable,
              HeldBack, Committed, AttemptFailed, Reaped, WaitLapsed, Released, RowCancelled, Reassigned

LEMMA OthersKeepSession ==
    ASSUME TypeOK, [Next]_vars, NEW o \in Operators, ~OperatorStep(o)
    PROVE  os'[o] = os[o]
<1>0. os \in [Operators -> Session]
  BY DEF TypeOK
<1>1. CASE \E p \in Operators : OperatorStep(p)
  <2>1. PICK p \in Operators : OperatorStep(p)
    BY <1>1
  <2>2. \E session : os' = [os EXCEPT ![p] = session]
    BY <2>1 DEF OperatorStep, RetryRead, SkipRead, ForceRead, ReassignRead, OpBegin,
                RetryWrite, ReassignWrite, SkipWrite, ForceWrite, OpReturn, OpDone
  <2>3. p # o
    BY <2>1
  <2> QED
    BY <1>0, <2>2, <2>3
<1>2. CASE ~\E p \in Operators : OperatorStep(p)
  BY <1>2, SMTT(20), ZenonT(40)
     DEF Next, WorkerStep, ClaimRead, ClaimNone, ClaimCommit, ClaimOverBudget, Verify,
              HeartbeatCommit, CheckpointCommit, RevokeCommit, CompleteCommit, FailCommit,
              WorkerReturn, Expire, ReapRead, ReapCommit, ReapReturn, Pause, Resume, Cancel,
              ResolveWait, vars
<1> QED
  BY <1>1, <1>2

LEMMA OperatorKeepsDue ==
    ASSUME OneDecides, TypeOK, RunningHoldsRow, [Next]_vars, NEW p \in Operators
    PROVE  RetryIsDue(p)'
<1> DEFINE x == os[p].row
<1>0. /\ x \in NodeRuns /\ os \in [Operators -> Session] /\ RetryIsDue(p) /\ RowFate(x)
  BY StepFate DEF TypeOK, Session, RunningHoldsRow
<1>1. CASE OperatorStep(p)
  <2>1. CASE \E z \in NodeRuns : RetryRead(p, z)
    <3>1. PICK z \in NodeRuns : RetryRead(p, z)
      BY <2>1
    <3>2. os'[p] = [op |-> "retry", row |-> z, fence |-> 0, seen |-> {}]
      BY <1>0, <3>1 DEF RetryRead, OpBegin
    <3> QED
      BY <3>1, <3>2 DEF RetryRead, OpBegin, RetryIsDue, Stuck, rows
  <2>2. CASE \E z \in NodeRuns : SkipRead(p, z) \/ ForceRead(p, z)
    BY <1>0, <2>2 DEF SkipRead, ForceRead, OpBegin, RetryIsDue
  <2>3. CASE \E z \in NodeRuns, f \in Fences : ReassignRead(p, z, f)
    BY <2>3 DEF ReassignRead, OpBegin, OneDecides
  <2>4. CASE RetryWrite(p) \/ ReassignWrite(p) \/ SkipWrite(p) \/ ForceWrite(p) \/ OpReturn(p)
    BY <1>0, <2>4, SMTT(20), ZenonT(40)
    DEF RetryWrite, ReassignWrite, SkipWrite, ForceWrite, OpReturn, OpDone, Idle, RetryIsDue
  <2> QED
    BY <1>1, <2>1, <2>2, <2>3, <2>4 DEF OperatorStep
<1>2. CASE ~OperatorStep(p)
  <2>1. os'[p] = os[p]
    BY <1>2, OthersKeepSession
  <2>2. CASE os[p].op = "retry"
    <3>1. ~\E o \in Operators : OperatorStep(o)
      BY <1>0, <1>2, <2>2 DEF RetryIsDue, OneDecides
    <3>2. ~Retried(x) /\ ~Skipped(x)
      BY <3>1 DEF Retried, Skipped, OperatorStep
    <3> QED
      BY <1>0, <2>1, <3>2, FateKeepsStuck DEF RetryIsDue
  <2>3. CASE os[p].op # "retry"
    BY <1>0, <2>1, <2>3 DEF RetryIsDue
  <2> QED
    BY <2>2, <2>3
<1> QED
  BY <1>1, <1>2

LEMMA AlwaysHolds ==
    ASSUME OneDecides
    PROVE  Spec => []RunningHoldsRow
<1>1. Init => RunningHoldsRow
  BY DEF Init, RunningHoldsRow, RetryIsDue, HoldsRow, Running, Idle, NoAttempt
<1>2. TypeOK /\ TablesAgreeOnAll /\ RunningHoldsRow /\ [Next]_vars => RunningHoldsRow'
  BY StepFate, FateHolds, OperatorKeepsDue DEF RunningHoldsRow, TablesAgreeOnAll
<1> QED
  BY <1>1, <1>2, TypeCorrect, TablesAlwaysAgree, PTL DEF Spec

(* Where no operator reassigns, and no second one retries, a node run is     *)
(* executed by one attempt at a time, whatever leases expire, workers stall *)
(* and one operator pauses, retries, skips or forces.                       *)
THEOREM OneAttemptAtATime ==
    ASSUME OneDecides
    PROVE  Spec => []OneRunning
<1>1. RunningHoldsRow => OneRunning
  BY OneHolder DEF RunningHoldsRow, OneRunning
<1> QED
  BY <1>1, AlwaysHolds, PTL

(* And the attempt that commits holds the highest fence handed out. *)
THEOREM NewestCommits ==
    ASSUME OneDecides
    PROVE  Spec => []CommitIsNewest
<1>1. RunningHoldsRow => CommitIsNewest
  BY DEF RunningHoldsRow, HoldsRow, CommitIsNewest
<1> QED
  BY <1>1, AlwaysHolds, PTL

(* A row of the queue stands over a node run that is ready. *)
QueueMatches ==
    \A x \in NodeRuns :
        /\ readyStatus[x] = "READY" => nodeStatus[x] = "READY"
        /\ readyStatus[x] = "WAITING" => nodeStatus[x] \in {"READY", "WAITING"}

LEMMA FateMatches ==
    ASSUME "reject" \notin WorkerOps, RunningHoldsRow, QueueMatches,
           NEW y \in NodeRuns, TablesAgree(y), RowFate(y)
    PROVE  /\ readyStatus'[y] = "READY" => nodeStatus'[y] = "READY"
           /\ readyStatus'[y] = "WAITING" => nodeStatus'[y] \in {"READY", "WAITING"}
<1>0. /\ HoldsRow(y)
      /\ readyStatus[y] = "READY" => nodeStatus[y] = "READY"
      /\ readyStatus[y] = "WAITING" => nodeStatus[y] \in {"READY", "WAITING"}
  BY DEF RunningHoldsRow, QueueMatches
<1>1. CASE Reassigned(y)
  BY <1>1 DEF Reassigned, ReassignWrite, RunningHoldsRow, RetryIsDue
<1>2. CASE Committed(y) \/ AttemptFailed(y)
  <2>1. readyStatus[y] \in {"CLAIMED", "DONE"}
    BY <1>0, <1>2 DEF Committed, AttemptFailed, HoldsRow
  <2> QED
    BY <1>2, <2>1 DEF Committed, AttemptFailed, Requeued
<1>3. CASE Reaped(y)
  <2>1. /\ readyStatus[y] \in {"CLAIMED", "DONE"}
        /\ readyStatus[y] = "CLAIMED" => nodeStatus[y] = "RUNNING"
    BY <1>0, <1>3 DEF Reaped, HoldsRow
  <2> QED
    BY <1>3, <2>1 DEF Reaped, Recovered
<1>4. CASE \/ Created(y) \/ Untouched(y) \/ Refused(y) \/ Claimed(y) \/ HeldBack(y)
           \/ WaitLapsed(y) \/ Released(y) \/ RowCancelled(y) \/ Retried(y) \/ Skipped(y)
  BY <1>0, <1>4 DEF Created, Untouched, Refused, Claimed, HeldBack, WaitLapsed, Released,
                    RowCancelled, Retried, Skipped, Closed, LiveReady
<1> QED
  BY <1>1, <1>2, <1>3, <1>4 DEF RowFate, Fate

(* No row of the claim queue makes claim_ready raise: where no claim sends   *)
(* other candidates to review, the queue and the node runs agree.           *)
THEOREM QueueCanBeClaimed ==
    ASSUME OneDecides, "reject" \notin WorkerOps
    PROVE  Spec => []QueueIsClaimable
<1>1. Init => QueueMatches
  BY DEF Init, QueueMatches
<1>2. TypeOK /\ TablesAgreeOnAll /\ RunningHoldsRow /\ QueueMatches /\ [Next]_vars => QueueMatches'
  BY StepFate, FateMatches DEF TablesAgreeOnAll, QueueMatches
<1>3. QueueMatches => QueueIsClaimable
  BY DEF QueueMatches, QueueIsClaimable
<1> QED
  BY <1>1, <1>2, <1>3, TypeCorrect, TablesAlwaysAgree, AlwaysHolds, PTL DEF Spec

-----------------------------------------------------------------------------
(* Node runs are leased work *)

(* Fences are handed out in order, without a gap. *)
FencesInOrder == \A x \in NodeRuns : \E k \in 0..MaxFence : Fenced(x) = 1..k

LEMMA CountOfFences ==
    ASSUME NEW k \in Nat
    PROVE  IsFiniteSet(1..k) /\ Cardinality(1..k) = k
BY FS_Interval

LEMMA WinnerIs ==
    ASSUME NEW x \in NodeRuns, NEW f \in Fences, att[x][f].status = "SUCCEEDED",
           \A g \in Fences : att[x][g].status = "SUCCEEDED" => g = f
    PROVE  Winner(x) = f
BY DEF Winner

LEMMA NoWinner ==
    ASSUME NEW x \in NodeRuns, \A f \in Fences : att[x][f].status # "SUCCEEDED"
    PROVE  Winner(x) = 0
BY DEF Winner

(* What every fate but a claim does to the count, and but a commit to the   *)
(* winner.                                                                  *)
LEMMA FateKeepsCount ==
    ASSUME NEW y \in NodeRuns, RowFate(y), ~Claimed(y)
    PROVE  Fenced(y)' = Fenced(y)
<1>1. \A g \in Fences : att'[y][g].status = "NONE" <=> att[y][g].status = "NONE"
  BY DEF RowFate, Fate, Created, Untouched, Refused, HeldBack, Committed, AttemptFailed, Reaped,
         WaitLapsed, Released, RowCancelled, Retried, Reassigned, Skipped, SameStatuses, Becomes, Running
<1> QED
  BY <1>1 DEF Fenced

LEMMA FateKeepsWinner ==
    ASSUME NEW y \in NodeRuns, RowFate(y), ~Committed(y), TablesAgree(y)
    PROVE  Winner(y)' = Winner(y)
<1>1. \A g \in Fences : att'[y][g].status = "SUCCEEDED" <=> att[y][g].status = "SUCCEEDED"
  <2>1. CASE Claimed(y)
    <3>1. \A g \in Fences : att[y][g].status # "SUCCEEDED"
      BY <2>1 DEF Claimed, Claimable, TablesAgree
    <3> QED
      BY <2>1, <3>1 DEF Claimed, Becomes
  <2>2. CASE ~Claimed(y)
    BY <2>2 DEF RowFate, Fate, Created, Untouched, Refused, HeldBack, AttemptFailed, Reaped,
           WaitLapsed, Released, RowCancelled, Retried, Reassigned, Skipped, SameStatuses, Becomes,
           Running
  <2> QED
    BY <2>1, <2>2
<1>2. CASE \E f \in Fences : att[y][f].status = "SUCCEEDED"
  <2>1. PICK f \in Fences : att[y][f].status = "SUCCEEDED"
    BY <1>2
  <2>2. \A g \in Fences : att[y][g].status = "SUCCEEDED" => g = f
    BY <2>1 DEF TablesAgree
  <2>3. Winner(y) = f
    BY <2>1, <2>2, WinnerIs
  <2>4. Winner(y)' = f
    BY <1>1, <2>1, <2>2 DEF Winner
  <2> QED
    BY <2>3, <2>4
<1>3. CASE ~\E f \in Fences : att[y][f].status = "SUCCEEDED"
  <2>1. Winner(y) = 0
    BY <1>3 DEF Winner
  <2>2. Winner(y)' = 0
    BY <1>1, <1>3 DEF Winner
  <2> QED
    BY <2>1, <2>2
<1> QED
  BY <1>2, <1>3

LEMMA ClaimCounts ==
    ASSUME NEW y \in NodeRuns, Claimed(y), FencesInOrder
    PROVE  /\ \E k \in 0..MaxFence : Fenced(y)' = 1..k
           /\ Cardinality(Fenced(y)) < MaxFence
           /\ Cardinality(Fenced(y))' = Cardinality(Fenced(y)) + 1
<1>1. PICK f \in Fences : Fenced(y) = 1..(f - 1) /\ Becomes(y, f, "RUNNING")
  BY DEF Claimed
<1>2. f \in 1..MaxFence /\ MaxFence \in Nat
  BY BoundAssumption DEF Fences
<1>3. Fenced(y)' = Fenced(y) \cup {f}
  BY <1>1 DEF Fenced, Becomes
<1>4. Fenced(y)' = 1..f
  BY <1>1, <1>2, <1>3
<1>5. Cardinality(1..(f - 1)) = f - 1 /\ Cardinality(1..f) = f
  BY <1>2, CountOfFences
<1> QED
  BY <1>1, <1>2, <1>4, <1>5

LEMMA CommitWins ==
    ASSUME NEW y \in NodeRuns, Committed(y), TablesAgree(y), HoldsRow(y), FencesInOrder
    PROVE  /\ Winner(y) = 0 /\ Cardinality(Fenced(y)) > 0
           /\ Winner(y)' = Cardinality(Fenced(y))
<1>1. PICK f \in Fences : Running(y, f) /\ Becomes(y, f, "SUCCEEDED")
  BY DEF Committed
<1>2. \A g \in Fences : att[y][g].status # "SUCCEEDED"
  BY DEF Committed, TablesAgree
<1>3. PICK k \in 0..MaxFence : Fenced(y) = 1..k
  BY DEF FencesInOrder
<1>4. f \in 1..MaxFence /\ MaxFence \in Nat
  BY BoundAssumption DEF Fences
<1>5. f \in Fenced(y) /\ \A g \in Fences : g > f => g \notin Fenced(y)
  BY <1>1 DEF HoldsRow, Fenced, Running
<1>6. k = f
  <2>1. f \in 1..k
    BY <1>3, <1>5
  <2>2. k \in Fences /\ k \in 1..k
    BY <1>3, <1>4, <2>1 DEF Fences
  <2> QED
    BY <1>3, <1>4, <1>5, <2>1, <2>2
<1>7. Cardinality(Fenced(y)) = f
  BY <1>3, <1>4, <1>6, CountOfFences
<1>8. Winner(y)' = f
  <2>1. att'[y][f].status = "SUCCEEDED" /\ \A g \in Fences : att'[y][g].status = "SUCCEEDED" => g = f
    BY <1>1, <1>2 DEF Becomes
  <2> QED
    BY <2>1 DEF Winner
<1> QED
  BY <1>2, <1>4, <1>7, <1>8, NoWinner

(* Three tables, stale reads, the reaper and the operators implement one     *)
(* counter of claims and one winner per node run.                           *)
THEOREM NodesImplementLeasedWork ==
    ASSUME OneDecides
    PROVE  Spec => NodesAreLeasedWork
<1> DEFINE Count == [x \in NodeRuns |-> Cardinality(Fenced(x))]
           Won == [x \in NodeRuns |-> Winner(x)]
<1>1. Init => FencesInOrder /\ NodeWork!WorkInit
  <2> SUFFICES ASSUME Init PROVE FencesInOrder /\ NodeWork!WorkInit
    OBVIOUS
  <2>1. \A x \in NodeRuns : Fenced(x) = {} /\ Winner(x) = 0
    BY DEF Init, NoAttempt, Fenced, Winner
  <2>2. {} = 1..0 /\ 0 \in 0..MaxFence
    BY BoundAssumption
  <2>3. Cardinality({}) = 0
    BY FS_EmptySet
  <2> QED
    BY <2>1, <2>2, <2>3 DEF FencesInOrder, NodeWork!WorkInit
<1>2. TypeOK /\ TablesAgreeOnAll /\ FencesInOrder /\ [Next]_vars => FencesInOrder'
  <2> SUFFICES ASSUME TypeOK, TablesAgreeOnAll, FencesInOrder, [Next]_vars, NEW y \in NodeRuns
               PROVE  \E k \in 0..MaxFence : Fenced(y)' = 1..k
    BY DEF FencesInOrder
  <2>1. CASE Claimed(y)
    BY <2>1, ClaimCounts
  <2>2. CASE ~Claimed(y)
    BY <2>2, StepFate, FateKeepsCount DEF FencesInOrder
  <2> QED
    BY <2>1, <2>2
<1>3. TypeOK /\ TablesAgreeOnAll /\ RunningHoldsRow /\ FencesInOrder /\ [Next]_vars
        => [NodeWork!WorkNext]_(NodeWork!workVars)
  <2> SUFFICES ASSUME TypeOK, TablesAgreeOnAll, RunningHoldsRow, FencesInOrder, [Next]_vars
               PROVE  (\E y \in NodeRuns : NodeWork!ClaimWork(y) \/ NodeWork!FinishWork(y))
                      \/ (Count' = Count /\ Won' = Won)
    BY DEF NodeWork!WorkNext, NodeWork!workVars
  <2>0. \A y \in NodeRuns : RowFate(y) /\ TablesAgree(y) /\ HoldsRow(y)
    BY StepFate DEF TablesAgreeOnAll, RunningHoldsRow
  <2>1. ASSUME NEW y \in NodeRuns, Claimed(y)
        PROVE  NodeWork!ClaimWork(y)
    <3>1. Winner(y) = 0
      BY <2>0, <2>1, NoWinner DEF Claimed, Claimable, TablesAgree
    <3>2. \A z \in NodeRuns \ {y} : Fenced(z)' = Fenced(z)
      <4>1. PICK w \in Workers : ClaimCommit(w)
        BY <2>1 DEF Claimed
      <4>2. PICK x \in NodeRuns, f \in Fences : att' = [att EXCEPT ![x][f] =
                 [worker |-> w, status |-> "RUNNING", expired |-> FALSE, revoked |-> FALSE]]
        BY <4>1 DEF ClaimCommit, TypeOK, Session
      <4>3. att \in [NodeRuns -> [Fences -> Attempt]]
        BY DEF TypeOK
      <4>4. y = x
        <5>1. PICK g \in Fences : Fenced(y) = 1..(g - 1) /\ Becomes(y, g, "RUNNING")
          BY <2>1 DEF Claimed
        <5>2. att[y][g].status = "NONE" /\ att'[y][g].status = "RUNNING"
          BY <5>1 DEF Fenced, Becomes, Fences
        <5> QED
          BY <4>2, <4>3, <5>2
      <4> QED
        BY <4>2, <4>3, <4>4 DEF Fenced
    <3>3. Count' = [Count EXCEPT ![y] = @ + 1] /\ Count[y] < MaxFence
      BY <2>1, <3>2, ClaimCounts
    <3>4. Won' = Won /\ Won[y] = 0
      <4>1. \A z \in NodeRuns : ~Committed(z)
        <5>1. PICK w \in Workers : ClaimCommit(w)
          BY <2>1 DEF Claimed
        <5>2. PICK x \in NodeRuns, f \in Fences : att' = [att EXCEPT ![x][f] =
                   [worker |-> w, status |-> "RUNNING", expired |-> FALSE, revoked |-> FALSE]]
          BY <5>1 DEF ClaimCommit, TypeOK, Session
        <5>3. att \in [NodeRuns -> [Fences -> Attempt]]
          BY DEF TypeOK
        <5>4. ASSUME NEW z \in NodeRuns, NEW g \in Fences, Running(z, g)
              PROVE  att'[z][g].status = "RUNNING"
          BY <5>2, <5>3, <5>4 DEF Running
        <5> QED
          BY <5>4 DEF Committed, Becomes
      <4> QED
        BY <2>0, <3>1, <4>1, FateKeepsWinner
    <3> QED
      BY <3>3, <3>4 DEF NodeWork!ClaimWork
  <2>2. ASSUME NEW y \in NodeRuns, Committed(y)
        PROVE  NodeWork!FinishWork(y)
    <3>1. \A z \in NodeRuns : ~Claimed(z) /\ (z # y => ~Committed(z))
      <4>1. PICK w \in Workers : CompleteCommit(w) /\ ws[w].row = y
        BY <2>2 DEF Committed
      <4>2. PICK f \in Fences :
              att' = [att EXCEPT ![y][f] = Ended(att[y][f], "SUCCEEDED")] /\ Running(y, f)
        BY <4>1 DEF CompleteCommit, TypeOK, Session, LeaseCalls, Commits, LeaseValid
      <4>3. att \in [NodeRuns -> [Fences -> Attempt]]
        BY DEF TypeOK
      <4>4. ASSUME NEW z \in NodeRuns, NEW g \in Fences, att[z][g].status = "NONE"
            PROVE  att'[z][g].status = "NONE"
        BY <4>2, <4>3, <4>4 DEF Running
      <4>5. \A z \in NodeRuns : z # y => att'[z] = att[z]
        BY <4>2, <4>3
      <4>6. ASSUME NEW z \in NodeRuns, Claimed(z) PROVE FALSE
        <5>1. PICK g \in Fences : Fenced(z) = 1..(g - 1) /\ Becomes(z, g, "RUNNING")
          BY <4>6 DEF Claimed
        <5>2. att[z][g].status = "NONE" /\ att'[z][g].status = "RUNNING"
          BY <5>1 DEF Fenced, Becomes, Fences
        <5> QED
          BY <4>4, <5>2
      <4> QED
        BY <4>5, <4>6 DEF Committed, Becomes, Running
    <3>2. Count' = Count
      BY <2>0, <3>1, FateKeepsCount
    <3>3. \A z \in NodeRuns \ {y} : Winner(z)' = Winner(z)
      BY <2>0, <3>1, FateKeepsWinner
    <3>4. Won[y] = 0 /\ Count[y] > 0 /\ Won' = [Won EXCEPT ![y] = Count[y]]
      BY <2>0, <2>2, <3>3, CommitWins
    <3> QED
      BY <3>2, <3>4 DEF NodeWork!FinishWork
  <2>3. CASE \A y \in NodeRuns : ~Claimed(y) /\ ~Committed(y)
    BY <2>0, <2>3, FateKeepsCount, FateKeepsWinner
  <2> QED
    BY <2>1, <2>2, <2>3
<1> QED
  BY <1>1, <1>2, <1>3, TypeCorrect, TablesAlwaysAgree, AlwaysHolds, PTL
     DEF Spec, NodesAreLeasedWork, NodeWork!WorkSpec

-----------------------------------------------------------------------------
(* Without retry_node no row comes back to the queue.  Routing then never    *)
(* queues work twice, and cancel_run leaves nothing to claim.               *)

NoRetry == "retry" \notin Controls

(* What sessions have read are rows that exist, and exist for good. *)
SessionsReadRows ==
    /\ Exists(<<Entry, 1>>)
    /\ \A w \in Workers : \A x \in ws[w].seen : Exists(x)
    /\ \A o \in Operators : Exists(os[o].row) /\ os[o].op # "retry"

(* A worker keeps what it read, drops it, or reads the queue anew. *)
LEMMA SessionsForget ==
    ASSUME TypeOK, [Next]_vars, NEW w \in Workers
    PROVE  ws'[w] = ws[w] \/ ws'[w].seen = {} \/ ClaimRead(w)
<1>0. ws \in [Workers -> Session]
  BY DEF TypeOK
<1>1. ASSUME NEW v \in Workers, WorkerStep(v)
      PROVE  ws'[w] = ws[w] \/ ws'[w].seen = {} \/ ClaimRead(w)
  <2>1. CASE v = w
    BY <1>0, <1>1, <2>1, SMTT(20), ZenonT(40) DEF WorkerStep, ClaimNone, ClaimCommit, ClaimOverBudget, Verify, Begin,
         HeartbeatCommit, CheckpointCommit, RevokeCommit, CompleteCommit, FailCommit,
         WorkerReturn, Done, Idle
  <2>2. CASE v # w
    BY <1>0, <1>1, <2>2 DEF WorkerStep, ClaimRead, ClaimNone, ClaimCommit, ClaimOverBudget,
         Verify, Begin, HeartbeatCommit, CheckpointCommit, RevokeCommit, CompleteCommit,
         FailCommit, WorkerReturn, Done
  <2> QED
    BY <2>1, <2>2
<1> QED
  BY <1>1 DEF Next, OperatorStep, RetryRead, SkipRead, ForceRead, ReassignRead, OpBegin,
       RetryWrite, ReassignWrite, SkipWrite, ForceWrite, OpReturn, Expire, ReapRead,
       ReapCommit, ReapReturn, Pause, Resume, Cancel, ResolveWait, vars

LEMMA ReadRowsExist ==
    ASSUME NoRetry
    PROVE  Spec => []SessionsReadRows
<1>1. Init => SessionsReadRows
  <2> SUFFICES ASSUME Init
               PROVE  SessionsReadRows
    OBVIOUS
  <2>1. Exists(<<Entry, 1>>)
    <3>1. nodeStatus[<<Entry, 1>>] = (IF run = "PAUSED" THEN "WAITING" ELSE "READY")
      BY EntryRow DEF Init
    <3> QED
      BY <3>1 DEF Exists
  <2>2. /\ \A w \in Workers : ws[w].seen = {}
        /\ \A o \in Operators : os[o].row = <<Entry, 1>> /\ os[o].op = "idle"
    BY DEF Init, Idle
  <2> QED
    BY <2>1, <2>2 DEF SessionsReadRows
<1>2. TypeOK /\ TablesAgreeOnAll /\ SessionsReadRows /\ [Next]_vars => SessionsReadRows'
  <2> SUFFICES ASSUME TypeOK, TablesAgreeOnAll, SessionsReadRows, [Next]_vars
               PROVE  SessionsReadRows'
    OBVIOUS
  <2>0. /\ \A x \in NodeRuns : Exists(x) => Exists(x)'
        /\ ws \in [Workers -> Session] /\ os \in [Operators -> Session]
        /\ \A o \in Operators : os[o].row \in NodeRuns
        /\ \A w \in Workers : ws[w].seen \subseteq NodeRuns
    BY StepFate, FateKeepsRow DEF TypeOK, Session
  <2>1. Exists(<<Entry, 1>>)'
    BY <2>0, EntryRow DEF SessionsReadRows
  <2>2. ASSUME NEW w \in Workers, NEW x \in ws'[w].seen
        PROVE  Exists(x)'
    <3>1. CASE ws'[w].seen \subseteq ws[w].seen
      BY <2>0, <2>2, <3>1 DEF SessionsReadRows
    <3>2. CASE ClaimRead(w)
      <4>1. x \in NodeRuns /\ readyStatus[x] = "READY"
        BY <2>0, <2>2, <3>2 DEF ClaimRead
      <4> QED
        BY <2>0, <4>1 DEF TablesAgreeOnAll, TablesAgree, Exists
    <3>3. ws'[w] = ws[w] \/ ws'[w].seen = {} \/ ClaimRead(w)
      BY SessionsForget
    <3> QED
      BY <2>2, <3>1, <3>2, <3>3
  <2>3. ASSUME NEW o \in Operators
        PROVE  nodeStatus'[os'[o].row] # "NONE" /\ os'[o].op # "retry"
    <3>0. \A x \in NodeRuns : Exists(x) => nodeStatus'[x] # "NONE"
      BY <2>0 DEF Exists
    <3>1. CASE os'[o] = os[o] \/ os'[o] = Idle
      <4>1. os[o].row \in NodeRuns /\ Exists(os[o].row) /\ os[o].op # "retry"
        BY <2>0 DEF SessionsReadRows
      <4>2. Idle.row = <<Entry, 1>> /\ Idle.op = "idle"
        BY DEF Idle
      <4>3. nodeStatus'[<<Entry, 1>>] # "NONE"
        BY <2>1 DEF Exists
      <4> QED
        BY <3>0, <3>1, <4>1, <4>2, <4>3
    <3>2. ASSUME NEW x \in NodeRuns, NEW f, NEW op \in {"skip", "force", "reassign"},
                 OpBegin(o, op, x, f), Exists(x)
          PROVE  nodeStatus'[os'[o].row] # "NONE" /\ os'[o].op # "retry"
      <4>1. os'[o].row = x /\ os'[o].op = op
        BY <2>0, <3>2 DEF OpBegin
      <4> QED
        BY <3>0, <3>2, <4>1
    <3>3. CASE OperatorStep(o)
      <4>1. CASE \E x \in NodeRuns : RetryRead(o, x) \/ SkipRead(o, x) \/ ForceRead(o, x)
        BY <3>2, <4>1 DEF RetryRead, SkipRead, ForceRead, NoRetry, OpBegin, Exists
      <4>2. CASE \E x \in NodeRuns, f \in Fences : ReassignRead(o, x, f)
        BY <3>2, <4>2 DEF ReassignRead, TablesAgreeOnAll, TablesAgree, Exists, Running
      <4>3. CASE RetryWrite(o) \/ ReassignWrite(o) \/ SkipWrite(o) \/ ForceWrite(o) \/ OpReturn(o)
        BY <2>0, <3>1, <4>3 DEF RetryWrite, ReassignWrite, SkipWrite, ForceWrite, OpReturn, OpDone
      <4> QED
        BY <3>3, <4>1, <4>2, <4>3 DEF OperatorStep
    <3>4. CASE ~OperatorStep(o)
      BY <2>0, <3>1, <3>4, OthersKeepSession
    <3> QED
      BY <3>3, <3>4
  <2> QED
    BY <2>1, <2>2, <2>3 DEF SessionsReadRows, Exists
<1> QED
  BY <1>1, <1>2, TypeCorrect, TablesAlwaysAgree, PTL DEF Spec

LEMMA OneFreshRow ==
    ASSUME NEW t, NEW y \in Fresh(t), NEW z \in Fresh(t)
    PROVE  y = z
<1>1. /\ y \in NodeRuns /\ z \in NodeRuns /\ y[1] = t /\ z[1] = t
      /\ ~Exists(y) /\ ~Exists(z)
      /\ \A g \in 1..(y[2] - 1) : Exists(<<t, g>>)
      /\ \A g \in 1..(z[2] - 1) : Exists(<<t, g>>)
  BY DEF Fresh
<1>2. y = <<t, y[2]>> /\ z = <<t, z[2]>> /\ y[2] \in 1..MaxGen /\ z[2] \in 1..MaxGen
  BY <1>1, RowParts
<1>3. ~(y[2] \in 1..(z[2] - 1)) /\ ~(z[2] \in 1..(y[2] - 1))
  BY <1>1, <1>2
<1>4. y[2] = z[2]
  BY <1>2, <1>3, BoundAssumption
<1> QED
  BY <1>2, <1>4

(* Two rows of one node with one identity: at most one of them is new. *)
LEMMA CreatedAlone ==
    ASSUME NEW y \in NodeRuns, NEW z \in NodeRuns, Created(y), Created(z), y[1] = z[1]
    PROVE  y = z
BY OneFreshRow DEF Created

LEMMA NothingReused ==
    ASSUME NEW t, NEW id, Reused(t, id) = {}, NEW z \in NodeRuns,
           z[1] = t, Exists(z), ident[z] = id
    PROVE  readyStatus[z] \notin LiveReady
BY DEF Reused, Same

(* Routing a node again, by a loop, a second branch or force_route, never    *)
(* queues work twice that is queued or under way.                           *)
THEOREM QueuedOnce ==
    ASSUME NoRetry
    PROVE  Spec => []WorkIsQueuedOnce
<1>1. Init => WorkIsQueuedOnce
  BY DEF Init, WorkIsQueuedOnce, Exists
<1>2. TypeOK /\ TablesAgreeOnAll /\ SessionsReadRows /\ WorkIsQueuedOnce /\ [Next]_vars
        => WorkIsQueuedOnce'
  <2> SUFFICES ASSUME TypeOK, TablesAgreeOnAll, SessionsReadRows, WorkIsQueuedOnce, [Next]_vars,
                      NEW x \in NodeRuns, NEW y \in NodeRuns,
                      x[1] = y[1], ident'[x] = ident'[y],
                      readyStatus'[x] \in LiveReady, readyStatus'[y] \in LiveReady
               PROVE  x = y
    BY DEF WorkIsQueuedOnce
  <2>1. \A z \in NodeRuns :
            readyStatus'[z] \in LiveReady =>
                Created(z) \/ (readyStatus[z] \in LiveReady /\ ident'[z] = ident[z] /\ Exists(z))
    <3> SUFFICES ASSUME NEW z \in NodeRuns, readyStatus'[z] \in LiveReady, ~Created(z)
                 PROVE  readyStatus[z] \in LiveReady /\ ident'[z] = ident[z] /\ Exists(z)
      OBVIOUS
    <3>1. RowFate(z) /\ ~Retried(z)
      BY StepFate DEF Retried, RetryWrite, SessionsReadRows
    <3>2. readyStatus[z] \in LiveReady
      BY <3>1, FateKeepsQueue
    <3> QED
      BY <3>1, <3>2 DEF RowFate, LiveReady, TablesAgreeOnAll, TablesAgree, Exists
  <2>2. CASE Created(x) /\ Created(y)
    BY <2>2, CreatedAlone
  <2>3. CASE Created(x) /\ ~Created(y)
    BY <2>1, <2>3, NothingReused DEF Created
  <2>4. CASE ~Created(x) /\ Created(y)
    BY <2>1, <2>4, NothingReused DEF Created
  <2>5. CASE ~Created(x) /\ ~Created(y)
    BY <2>1, <2>5 DEF WorkIsQueuedOnce
  <2> QED
    BY <2>2, <2>3, <2>4, <2>5
<1> QED
  BY <1>1, <1>2, TypeCorrect, TablesAlwaysAgree, ReadRowsExist, PTL DEF Spec

(* However a Join is activated again, by a late branch, a skip or a forced   *)
(* route, it has one node run per iteration.                                *)
THEOREM JoinEnteredOnce ==
    ASSUME NoRetry
    PROVE  Spec => []JoinEntersOnce
<1>1. Init => JoinEntersOnce
  BY DEF Init, JoinEntersOnce, Exists
<1>2. TypeOK /\ TablesAgreeOnAll /\ SessionsReadRows /\ JoinEntersOnce /\ [Next]_vars
        => JoinEntersOnce'
  <2> SUFFICES ASSUME TypeOK, TablesAgreeOnAll, SessionsReadRows, JoinEntersOnce, [Next]_vars,
                      NEW x \in NodeRuns, NEW y \in NodeRuns,
                      IsJoin(x[1]), x[1] = y[1], Exists(x)', Exists(y)', ident'[x] = ident'[y]
               PROVE  x = y
    BY DEF JoinEntersOnce
  <2>1. \A z \in NodeRuns : Exists(z)' => Created(z) \/ (Exists(z) /\ ident'[z] = ident[z])
    <3> SUFFICES ASSUME NEW z \in NodeRuns, Exists(z)', ~Created(z)
                 PROVE  Exists(z) /\ ident'[z] = ident[z]
      OBVIOUS
    <3>1. RowFate(z) /\ TablesAgree(z)
      BY StepFate DEF TablesAgreeOnAll
    <3>2. ~Retried(z) /\ (Skipped(z) => Exists(z))
      BY DEF Retried, RetryWrite, Skipped, SessionsReadRows
    <3> QED
      BY <3>1, <3>2 DEF RowFate, Fate, Exists, Untouched, Refused, Claimed, Claimable, HeldBack,
             Committed, AttemptFailed, Reaped, WaitLapsed, Released, RowCancelled, Reassigned,
             TablesAgree, Running
  <2>2. ASSUME NEW v \in NodeRuns, NEW z \in NodeRuns, Created(v), Exists(z),
               v[1] = z[1], IsJoin(v[1]), ident'[v] = ident[z]
        PROVE  FALSE
    <3>1. ident'[v].branch = <<v[1]>>
      BY <2>2 DEF Created, SessionsReadRows
    <3>2. ident'[v].branch # <<>>
      BY <3>1
    <3>3. z \in Same(v[1], ident'[v])
      BY <2>2 DEF Same
    <3> QED
      BY <2>2, <3>2, <3>3 DEF Created, Clashes
  <2>3. CASE Created(x) /\ Created(y)
    BY <2>3, CreatedAlone
  <2>4. CASE ~(Created(x) /\ Created(y))
    BY <2>1, <2>2, <2>4 DEF JoinEntersOnce
  <2> QED
    BY <2>3, <2>4
<1> QED
  BY <1>1, <1>2, TypeCorrect, TablesAlwaysAgree, ReadRowsExist, PTL DEF Spec

(* In a cancelled Run no attempt is under way, and no session that read a    *)
(* row before the cancellation can still start one from it.                 *)
CancelledIsQuiet ==
    run = "CANCELLED" => \A x \in NodeRuns :
        /\ \A f \in Fences : ~Running(x, f)
        /\ \A w \in Workers : x \in ws[w].seen => readyStatus[x] \notin LiveReady

LEMMA CancelledRow ==
    ASSUME TypeOK, Cancel, NEW x \in NodeRuns
    PROVE  (\A f \in Fences : ~Running(x, f)') /\ readyStatus'[x] \notin LiveReady
<1> SUFFICES ASSUME NEW f \in Fences
             PROVE  ~Running(x, f)' /\ readyStatus'[x] \notin LiveReady
  <2>1. 1 \in Fences
    BY BoundAssumption DEF Fences
  <2> QED
    BY <2>1
<1>1. att[x][f] \in Attempt /\ att[x][f].status \in AttemptStatus \cup {"NONE"}
  BY DEF TypeOK, Attempt
<1>2. /\ Ended(att[x][f], "CANCELLED").status = "CANCELLED"
      /\ Ended(att[x][f], att[x][f].status).status = att[x][f].status
  BY <1>1, EndedType DEF AttemptStatus
<1> QED
  BY <1>2 DEF Cancel, Running, LiveReady

(* Nothing but cancel_run cancels a Run. *)
LEMMA OnlyCancelCancels ==
    ASSUME Next, run # "CANCELLED", run' = "CANCELLED"
    PROVE  Cancel
<1>1. \A x, chosen : RunAfter(x, chosen, run) # "CANCELLED"
  BY DEF RunAfter
<1>2. ASSUME NEW w \in Workers, WorkerStep(w)
      PROVE  FALSE
  <2>1. CASE CompleteCommit(w)
    BY <1>1, <2>1 DEF CompleteCommit, Activate, NoRouting
  <2>2. CASE ~CompleteCommit(w)
    BY <1>2, <2>2 DEF WorkerStep, ClaimRead, ClaimNone, ClaimCommit, ClaimOverBudget, Verify,
         HeartbeatCommit, CheckpointCommit, RevokeCommit, FailCommit, WorkerReturn, RunOfRejected,
         Restarted, FailureStatus, rows
  <2> QED
    BY <2>1, <2>2
<1>3. ASSUME NEW o \in Operators, OperatorStep(o)
      PROVE  FALSE
  <2>1. CASE SkipWrite(o) \/ ForceWrite(o)
    BY <1>1, <2>1 DEF SkipWrite, ForceWrite, Activate
  <2>2. CASE ~SkipWrite(o) /\ ~ForceWrite(o)
    BY <1>3, <2>2 DEF OperatorStep, RetryRead, SkipRead, ForceRead, ReassignRead, OpBegin,
         RetryWrite, ReassignWrite, OpReturn, Restarted, rows
  <2> QED
    BY <2>1, <2>2
<1> QED
  BY <1>2, <1>3 DEF Next, Expire, ReapRead, ReapCommit, ReapReturn, Pause, Resume, ResolveWait, rows

(* cancel_run leaves no worker with authority, claims under way included,    *)
(* whatever operators do before and after it, retry_node alone excepted.    *)
THEOREM CancelFencesAll ==
    ASSUME NoRetry
    PROVE  Spec => []CancelFences
<1>1. Init => CancelledIsQuiet
  BY DEF Init, CancelledIsQuiet
<1>2. TypeOK /\ TablesAgreeOnAll /\ SessionsReadRows /\ CancelledIsQuiet /\ [Next]_vars
        => CancelledIsQuiet'
  <2> SUFFICES ASSUME TypeOK, TablesAgreeOnAll, SessionsReadRows, CancelledIsQuiet, [Next]_vars,
                      run' = "CANCELLED", NEW x \in NodeRuns
               PROVE  /\ \A f \in Fences : ~Running(x, f)'
                      /\ \A w \in Workers : x \in ws'[w].seen => readyStatus'[x] \notin LiveReady
    BY DEF CancelledIsQuiet
  <2>0. RowFate(x)
    BY StepFate
  <2>1. CASE run # "CANCELLED"
    <3>1. Cancel
      BY <2>1, OnlyCancelCancels DEF vars, rows
    <3> QED
      BY <3>1, CancelledRow
  <2>2. CASE run = "CANCELLED"
    <3>1. /\ \A f \in Fences : ~Running(x, f)
          /\ \A w \in Workers : x \in ws[w].seen => readyStatus[x] \notin LiveReady
      BY <2>2 DEF CancelledIsQuiet
    <3>2. ~Claimed(x) /\ ~Retried(x)
      BY <3>1 DEF Claimed, Claimable, LiveReady, Retried, RetryWrite, SessionsReadRows
    <3>3. \A f \in Fences : ~Running(x, f)'
      BY <2>0, <3>1, <3>2 DEF RowFate, Fate, Running, Created, Untouched, Refused, HeldBack, Committed,
             AttemptFailed, Reaped, WaitLapsed, Released, RowCancelled, Reassigned, Skipped,
             SameStatuses, Becomes
    <3>4. ASSUME NEW w \in Workers, x \in ws'[w].seen
          PROVE  readyStatus'[x] \notin LiveReady
      <4>1. ws'[w] = ws[w] \/ ws'[w].seen = {}
        BY <2>2, SessionsForget DEF ClaimRead
      <4>2. x \in ws[w].seen
        BY <3>4, <4>1
      <4>3. Exists(x)
        BY <4>2 DEF SessionsReadRows
      <4>4. ~Created(x)
        BY <4>3 DEF Created, Fresh
      <4> QED
        BY <2>0, <3>1, <3>2, <4>2, <4>4, FateKeepsQueue
    <3> QED
      BY <3>3, <3>4
  <2> QED
    BY <2>1, <2>2
<1>3. CancelledIsQuiet => CancelFences
  BY DEF CancelledIsQuiet, CancelFences
<1> QED
  BY <1>1, <1>2, <1>3, TypeCorrect, TablesAlwaysAgree, ReadRowsExist, PTL DEF Spec

-----------------------------------------------------------------------------
(* Operators only do what Controls lets them. *)

OperatorsFollowControls == \A o \in Operators : os[o].op \in Controls \cup {"idle"}

LEMMA OperatorsStayInControls == Spec => []OperatorsFollowControls
<1>1. Init => OperatorsFollowControls
  BY DEF Init, OperatorsFollowControls, Idle
<1>2. TypeOK /\ OperatorsFollowControls /\ [Next]_vars => OperatorsFollowControls'
  <2> SUFFICES ASSUME TypeOK, OperatorsFollowControls, [Next]_vars, NEW o \in Operators
               PROVE  os'[o].op \in Controls \cup {"idle"}
    BY DEF OperatorsFollowControls
  <2>0. os \in [Operators -> Session] /\ os[o].op \in Controls \cup {"idle"}
    BY DEF TypeOK, OperatorsFollowControls
  <2>1. CASE OperatorStep(o)
    <3>1. CASE OpDone(o)
      BY <2>0, <3>1 DEF OpDone, Idle
    <3>2. CASE \E op, x, f : OpBegin(o, op, x, f)
      <4>1. PICK op, x, f : OpBegin(o, op, x, f)
        BY <3>2
      <4> QED
        BY <2>0, <4>1 DEF OpBegin
    <3> QED
      BY <2>1, <3>1, <3>2 DEF OperatorStep, RetryRead, SkipRead, ForceRead, ReassignRead,
           RetryWrite, ReassignWrite, SkipWrite, ForceWrite, OpReturn
  <2>2. CASE ~OperatorStep(o)
    BY <2>0, <2>2, OthersKeepSession
  <2> QED
    BY <2>1, <2>2
<1> QED
  BY <1>1, <1>2, TypeCorrect, PTL DEF Spec

-----------------------------------------------------------------------------
(* What a committed node run returns on a replay. *)

(* The checkpoint log only grows, and only the commit of a node run or a    *)
(* skip of it sets the checkpoint of its output.                            *)
LEMMA LogGrows ==
    ASSUME [Next]_vars
    PROVE  log' = log \/ \E source : log' = Append(log, source)
  BY SMTT(20), ZenonT(40)
  DEF WriteCheckpoint, Next, WorkerStep, ClaimRead, ClaimNone, ClaimCommit, ClaimOverBudget,
       Verify, HeartbeatCommit, CheckpointCommit, RevokeCommit, CompleteCommit, FailCommit,
       WorkerReturn, Expire, ReapRead, ReapCommit, ReapReturn, Pause, Resume, Cancel, ResolveWait,
       OperatorStep, RetryRead, SkipRead, ForceRead, ReassignRead, OpBegin, RetryWrite,
       ReassignWrite, SkipWrite, ForceWrite, OpReturn, vars, rows

LEMMA OutputStays ==
    ASSUME TypeOK, [Next]_vars, NEW y \in NodeRuns,
           ~\E w \in Workers : CompleteCommit(w) /\ ws[w].row = y,
           ~\E o \in Operators : SkipWrite(o) /\ os[o].row = y
    PROVE  out'[y] = out[y]
<1>0. out \in [NodeRuns -> 0..MaxLog]
  BY DEF TypeOK
<1>1. CASE \E w \in Workers : CompleteCommit(w)
  BY <1>0, <1>1 DEF CompleteCommit
<1>2. CASE \E o \in Operators : SkipWrite(o)
  BY <1>0, <1>2 DEF SkipWrite
<1>3. CASE ~(\E w \in Workers : CompleteCommit(w)) /\ ~(\E o \in Operators : SkipWrite(o))
  BY <1>3 DEF Next, WorkerStep, ClaimRead, ClaimNone, ClaimCommit, ClaimOverBudget,
       Verify, HeartbeatCommit, CheckpointCommit, RevokeCommit, FailCommit,
       WorkerReturn, Expire, ReapRead, ReapCommit, ReapReturn, Pause, Resume, Cancel, ResolveWait,
       OperatorStep, RetryRead, SkipRead, ForceRead, ReassignRead, OpBegin, RetryWrite,
       ReassignWrite, ForceWrite, OpReturn, vars, rows
<1> QED
  BY <1>1, <1>2, <1>3

LEMMA FateKeepsUncommitted ==
    ASSUME NEW y \in NodeRuns, RowFate(y), ~Committed(y), NEW f \in Fences,
           att'[y][f].status = "SUCCEEDED"
    PROVE  att[y][f].status = "SUCCEEDED"
BY DEF RowFate, Fate, Created, Untouched, Refused, Claimed, HeldBack, AttemptFailed, Reaped,
       WaitLapsed, Released, RowCancelled, Retried, Reassigned, Skipped, SameStatuses, Becomes

(* complete_attempt, asked again by a worker that lost the answer, returns   *)
(* the checkpoint the committed attempt wrote, whatever came after it.       *)
(* Without skip_node, which moves the output of the node run it skips.       *)
THEOREM ReplaysAreExact ==
    ASSUME "skip" \notin Controls
    PROVE  Spec => []ReplayIsExact
<1>1. Init => ReplayIsExact
  BY DEF Init, ReplayIsExact, NoAttempt
<1>2. /\ TypeOK /\ TablesAgreeOnAll /\ OperatorsFollowControls /\ ReplayIsExact
      /\ [Next]_vars
      => ReplayIsExact'
  <2> SUFFICES ASSUME TypeOK, TablesAgreeOnAll, OperatorsFollowControls, ReplayIsExact, [Next]_vars,
                      NEW x \in NodeRuns, NEW f \in Fences, att'[x][f].status = "SUCCEEDED"
               PROVE  out'[x] \in DOMAIN log' /\ log'[out'[x]] = <<x, f>>
    BY DEF ReplayIsExact
  <2>0. /\ RowFate(x) /\ TablesAgree(x)
        /\ log \in Seq((NodeRuns \X Fences) \cup {NoSource})
        /\ out \in [NodeRuns -> 0..MaxLog] /\ att \in [NodeRuns -> [Fences -> Attempt]]
    BY StepFate DEF TypeOK, TablesAgreeOnAll
  <2>1. CASE \E w \in Workers : CompleteCommit(w) /\ ws[w].row = x
    <3>1. PICK w \in Workers : CompleteCommit(w) /\ ws[w].row = x
      BY <2>1
    <3> DEFINE g == ws[w].fence
    <3>2. /\ g \in Fences /\ nodeStatus[x] = "RUNNING"
          /\ log' = Append(log, <<x, g>>) /\ out' = [out EXCEPT ![x] = Len(log) + 1]
          /\ att' = [att EXCEPT ![x][g] = Ended(@, "SUCCEEDED")]
      BY <3>1 DEF CompleteCommit, Commits, WriteCheckpoint, NextSeq, TypeOK, Session, LeaseCalls
    <3>3. \A h \in Fences : att[x][h].status # "SUCCEEDED"
      BY <2>0, <3>2 DEF TablesAgree
    <3>4. f = g
      BY <2>0, <3>2, <3>3
    <3>5. out'[x] = Len(log) + 1
      BY <2>0, <3>2
    <3>6. <<x, g>> \in (NodeRuns \X Fences) \cup {NoSource}
      BY <3>2
    <3> HIDE DEF g
    <3> QED
      BY <2>0, <3>2, <3>4, <3>5, <3>6
  <2>2. CASE ~\E w \in Workers : CompleteCommit(w) /\ ws[w].row = x
    <3>1. att[x][f].status = "SUCCEEDED"
      BY <2>0, <2>2, FateKeepsUncommitted DEF Committed
    <3>2. out[x] \in DOMAIN log /\ log[out[x]] = <<x, f>>
      BY <3>1 DEF ReplayIsExact
    <3>3. out'[x] = out[x]
      BY <2>2, OutputStays DEF SkipWrite, OperatorsFollowControls
    <3>4. CASE \E source : log' = Append(log, source)
      <4>1. PICK source : log' = Append(log, source)
        BY <3>4
      <4>2. /\ DOMAIN log = 1..Len(log) /\ Len(log) \in Nat
            /\ DOMAIN log' = 1..(Len(log) + 1)
            /\ \A i \in 1..Len(log) : log'[i] = log[i]
        BY <2>0, <4>1
      <4> QED
        BY <3>2, <3>3, <4>2
    <3> QED
      BY <3>2, <3>3, <3>4, LogGrows
  <2> QED
    BY <2>1, <2>2
<1> QED
  BY <1>1, <1>2, TypeCorrect, TablesAlwaysAgree, OperatorsStayInControls, PTL DEF Spec

-----------------------------------------------------------------------------
(* Joins. *)

Sources(t) == {n \in Nodes : t \in Targets(n)}

CommittedSources(t) ==
    {n \in Nodes : t \in Targets(n) /\
        \E x \in NodeRuns : x[1] = n /\ nodeStatus[x] = "SUCCEEDED"}

(* A plan as the compiler builds it: the entry is no Join, and an ALL Join  *)
(* expects each of the nodes with an edge to it.                            *)
JoinsAreCompiled ==
    /\ IsFiniteSet(Nodes) /\ ~IsJoin(Entry)
    /\ \A t \in Nodes : Plan[t].join.strategy = "ALL" =>
           Plan[t].join.expected = Cardinality(Sources(t))

(* No operator moves a Run along an edge its source has not committed. *)
RoutesFollowCommits == OneDecides /\ "skip" \notin Controls /\ "force" \notin Controls

(* A Join counts branches that committed, was committed only with enough of *)
(* them, and has no node run before that.                                   *)
JoinCountsCommits ==
    /\ \A t \in Nodes : IsJoin(t) =>
           /\ joins[t].inputs \subseteq CommittedSources(t)
           /\ joins[t].committed => JoinReady(Plan[t].join, Cardinality(joins[t].inputs))
    /\ \A y \in NodeRuns : IsJoin(y[1]) /\ Exists(y) => joins[y[1]].committed

LEMMA FateKeepsSucceeded ==
    ASSUME RoutesFollowCommits, OperatorsFollowControls, RunningHoldsRow,
           NEW y \in NodeRuns, RowFate(y), nodeStatus[y] = "SUCCEEDED"
    PROVE  nodeStatus'[y] = "SUCCEEDED"
<1>1. /\ \A f \in Fences : ~Running(y, f)
      /\ ~Retried(y) /\ ~Reassigned(y) /\ ~Skipped(y)
  BY DEF RoutesFollowCommits, OneDecides, OperatorsFollowControls, RunningHoldsRow, HoldsRow,
         RetryIsDue, Stuck, Retried, RetryWrite, Reassigned, ReassignWrite, Skipped, SkipWrite
<1> QED
  BY <1>1 DEF RowFate, Fate, Created, Fresh, Exists, Untouched, Refused, Claimed, Claimable,
              HeldBack, Committed, AttemptFailed, Reaped, WaitLapsed, Released, RowCancelled

(* What routing does to the Joins. *)
LEMMA ActivateJoins ==
    ASSUME NEW x \in NodeRuns, NEW chosen \in SUBSET Nodes, NEW status, NEW nodes, NEW readies,
           Activate(x, chosen, status, nodes, readies), NEW t \in Nodes, IsJoin(t)
    PROVE  \/ joins'[t] = joins[t] /\ (t \in Activated(x, chosen) => joins[t].committed)
           \/ /\ t \in chosen /\ ~joins[t].committed
              /\ joins'[t] = [inputs |-> joins[t].inputs \cup {x[1]},
                              committed |-> t \in Activated(x, chosen)]
              /\ t \in Activated(x, chosen) =>
                     JoinReady(Plan[t].join, Cardinality(joins[t].inputs \cup {x[1]}))
BY DEF Activate, Activated, JoinInputs

(* Joins change only when an attempt is committed or an operator skips or   *)
(* forces a route.                                                          *)
LEMMA OthersKeepJoins ==
    ASSUME [Next]_vars, ~\E w \in Workers : CompleteCommit(w),
           ~\E o \in Operators : SkipWrite(o) \/ ForceWrite(o)
    PROVE  joins' = joins
BY SMTT(20), ZenonT(40) DEF Next, WorkerStep, ClaimRead, ClaimNone, ClaimCommit, ClaimOverBudget,
       Verify, HeartbeatCommit, CheckpointCommit, RevokeCommit, FailCommit,
       WorkerReturn, Expire, ReapRead, ReapCommit, ReapReturn, Pause, Resume, Cancel, ResolveWait,
       OperatorStep, RetryRead, SkipRead, ForceRead, ReassignRead, OpBegin, RetryWrite,
       ReassignWrite, OpReturn, vars, rows

(* What complete_attempt does to Joins and rows: it routes from a node run   *)
(* that is committed in the same transaction, or not at all.                *)
LEMMA CommitRoutes ==
    ASSUME TypeOK, NEW w \in Workers, CompleteCommit(w)
    PROVE  LET x == ws[w].row IN
           /\ x \in NodeRuns
           /\ \/ \E chosen \in SUBSET Targets(x[1]) : \E status, nodes, readies :
                    /\ chosen \subseteq Nodes
                    /\ Activate(x, chosen, status, nodes, readies)
                    /\ \A y \in NodeRuns :
                           nodeStatus'[y] # "NONE" /\ nodeStatus[y] = "NONE"
                               => y \in Inserted(x, chosen)
              \/ /\ joins' = joins
                 /\ \A y \in NodeRuns : nodeStatus'[y] # "NONE" => nodeStatus[y] # "NONE"
<1> DEFINE x == ws[w].row
           nodes == [nodeStatus EXCEPT ![x] = "SUCCEEDED"]
           readies == [readyStatus EXCEPT ![x] = IF @ = "CLAIMED" THEN "DONE" ELSE @]
<1>1. /\ x \in NodeRuns /\ nodeStatus[x] = "RUNNING"
      /\ nodeStatus \in [NodeRuns -> NodeStatus \cup {"NONE"}]
      /\ x[1] \in Nodes
  BY RowParts DEF TypeOK, Session, CompleteCommit, Commits
<1>2. \A y \in NodeRuns : nodes[y] # "NONE" => nodeStatus[y] # "NONE"
  BY <1>1
<1>3. CASE \E chosen \in Plan[x[1]].routes : Activate(x, chosen, run, nodes, readies)
  <2>1. PICK chosen \in Plan[x[1]].routes : Activate(x, chosen, run, nodes, readies)
    BY <1>3
  <2>2. chosen \subseteq Nodes /\ chosen \subseteq Targets(x[1])
    BY <1>1, <2>1, PlanType DEF Targets
  <2>3. \A y \in NodeRuns : nodeStatus'[y] # "NONE" /\ nodeStatus[y] = "NONE"
                              => y \in Inserted(x, chosen)
    <3> HIDE DEF nodes, readies, x
    <3> QED
      BY <1>2, <2>1 DEF Activate
  <2> HIDE DEF nodes, readies, x
  <2> QED
    BY <1>1, <2>1, <2>2, <2>3 DEF x
<1>4. CASE nodeStatus' = nodes /\ joins' = joins
  BY <1>1, <1>2, <1>4
<1> QED
  BY <1>3, <1>4 DEF CompleteCommit, NoRouting

LEMMA CommitSucceeds ==
    ASSUME TypeOK, NEW w \in Workers, CompleteCommit(w)
    PROVE  nodeStatus'[ws[w].row] = "SUCCEEDED"
<1> DEFINE x == ws[w].row
           nodes == [nodeStatus EXCEPT ![x] = "SUCCEEDED"]
           readies == [readyStatus EXCEPT ![x] = IF @ = "CLAIMED" THEN "DONE" ELSE @]
<1>1. /\ x \in NodeRuns /\ nodeStatus[x] = "RUNNING"
      /\ nodes[x] = "SUCCEEDED"
  BY DEF TypeOK, Session, CompleteCommit, Commits
<1>2. CASE \E chosen : Activate(x, chosen, run, nodes, readies)
  <2>1. PICK chosen : Activate(x, chosen, run, nodes, readies)
    BY <1>2
  <2>2. x \notin Inserted(x, chosen)
    <3>1. \A t \in Activated(x, chosen) : CanInsert(t, Identity(x, chosen, t))
      BY <2>1 DEF Activate
    <3> QED
      BY <1>1, <3>1, InsertedRows
  <2> HIDE DEF x, nodes, readies
  <2>3. nodeStatus'[x] = nodes[x]
    BY <1>1, <2>1, <2>2 DEF Activate
  <2> QED
    BY <1>1, <2>3 DEF x
<1>3. CASE nodeStatus' = nodes
  BY <1>1, <1>3
<1> QED
  BY <1>2, <1>3 DEF CompleteCommit, NoRouting

(* A step commits one node run. *)
LEMMA OneCommits ==
    ASSUME TypeOK, NEW w \in Workers, CompleteCommit(w), NEW v \in Workers, CompleteCommit(v)
    PROVE  ws[v].row = ws[w].row
<1>1. /\ ws[w].row \in NodeRuns /\ ws[v].row \in NodeRuns
      /\ ws[w].fence \in Fences /\ ws[v].fence \in Fences
      /\ log \in Seq((NodeRuns \X Fences) \cup {NoSource})
  BY DEF TypeOK, Session, LeaseCalls, CompleteCommit
<1>2. /\ log' = Append(log, <<ws[w].row, ws[w].fence>>)
      /\ log' = Append(log, <<ws[v].row, ws[v].fence>>)
  BY DEF CompleteCommit, WriteCheckpoint
<1>3. log'[Len(log) + 1] = <<ws[w].row, ws[w].fence>> /\ log'[Len(log) + 1] = <<ws[v].row, ws[v].fence>>
  BY <1>1, <1>2
<1> QED
  BY <1>3

(* Rows come into being by routing or retry_node. *)
LEMMA OnlyRoutingCreates ==
    ASSUME TypeOK, TablesAgreeOnAll, [Next]_vars, NEW y \in NodeRuns, Exists(y)',
           ~\E w \in Workers : CompleteCommit(w),
           ~\E o \in Operators : RetryWrite(o) \/ SkipWrite(o) \/ ForceWrite(o)
    PROVE  Exists(y)
<1>0. /\ nodeStatus \in [NodeRuns -> NodeStatus \cup {"NONE"}]
      /\ nodeStatus'[y] # "NONE"
  BY DEF TypeOK, Exists
<1>1. ASSUME NEW w \in Workers, WorkerStep(w)
      PROVE  nodeStatus[y] # "NONE"
  <2>1. CASE FailCommit(w)
    <3>1. \A f \in Fences : Running(ws[w].row, f) => nodeStatus[ws[w].row] # "NONE"
      BY DEF TablesAgreeOnAll, TablesAgree, Running, TypeOK, Session
    <3>2. ws[w].fence \in Fences /\ Running(ws[w].row, ws[w].fence)
      BY <2>1 DEF FailCommit, TypeOK, Session, LeaseCalls
    <3> QED
      BY <1>0, <2>1, <3>1, <3>2 DEF FailCommit
  <2>2. CASE ClaimNone(w) \/ ClaimCommit(w) \/ ClaimOverBudget(w)
    BY <1>0, <2>2 DEF ClaimNone, ClaimCommit, ClaimOverBudget, Claimable, Rejected
  <2> QED
    BY <1>0, <1>1, <2>1, <2>2 DEF WorkerStep, ClaimRead, Verify, HeartbeatCommit,
         CheckpointCommit, RevokeCommit, WorkerReturn, rows
<1>2. ASSUME NEW o \in Operators, OperatorStep(o)
      PROVE  nodeStatus[y] # "NONE"
  BY <1>0, <1>2 DEF OperatorStep, RetryRead, SkipRead, ForceRead, ReassignRead, OpBegin,
       ReassignWrite, OpReturn, rows
<1>3. CASE ReapCommit \/ Resume \/ Cancel \/ \E x \in NodeRuns : ResolveWait(x)
  <2>1. CASE ReapCommit
    BY <1>0, <2>1 DEF ReapCommit, Exists
  <2>2. CASE Resume \/ Cancel
    BY <1>0, <2>2 DEF Resume, Cancel, Exists
  <2>3. CASE \E x \in NodeRuns : ResolveWait(x)
    BY <1>0, <2>3 DEF ResolveWait, Exists
  <2> QED
    BY <1>3, <2>1, <2>2, <2>3
<1> QED
  BY <1>0, <1>1, <1>2, <1>3 DEF Next, Expire, ReapRead, ReapReturn, Pause, vars, rows, Exists

LEMMA CommittedSourcesStay ==
    ASSUME TypeOK, RoutesFollowCommits, OperatorsFollowControls, RunningHoldsRow, [Next]_vars,
           NEW t \in Nodes
    PROVE  CommittedSources(t) \subseteq CommittedSources(t)'
<1>1. \A y \in NodeRuns : nodeStatus[y] = "SUCCEEDED" => nodeStatus'[y] = "SUCCEEDED"
  BY StepFate, FateKeepsSucceeded
<1> QED
  BY <1>1 DEF CommittedSources

LEMMA JoinsCount ==
    ASSUME JoinsAreCompiled, RoutesFollowCommits
    PROVE  Spec => []JoinCountsCommits
<1>1. Init => JoinCountsCommits
  <2> SUFFICES ASSUME Init
               PROVE  JoinCountsCommits
    OBVIOUS
  <2>1. \A t \in Nodes : joins[t].inputs = {} /\ ~joins[t].committed
    BY DEF Init
  <2>2. \A y \in NodeRuns : Exists(y) => y[1] = Entry
    BY DEF Init, Exists
  <2> QED
    BY <2>1, <2>2 DEF JoinCountsCommits, JoinsAreCompiled
<1>2. /\ TypeOK /\ TablesAgreeOnAll /\ OperatorsFollowControls /\ RunningHoldsRow
      /\ JoinCountsCommits /\ [Next]_vars
      => JoinCountsCommits'
  <2> SUFFICES ASSUME TypeOK, TablesAgreeOnAll, OperatorsFollowControls, RunningHoldsRow,
                      JoinCountsCommits, [Next]_vars
               PROVE  JoinCountsCommits'
    OBVIOUS
  <2>0. /\ \A y \in NodeRuns : y[1] \in Nodes
        /\ \A t \in Nodes : CommittedSources(t) \subseteq CommittedSources(t)'
    BY RowParts, CommittedSourcesStay
  <2>1. CASE \E w \in Workers : CompleteCommit(w)
    <3>1. PICK w \in Workers : CompleteCommit(w)
      BY <2>1
    <3> DEFINE x == ws[w].row
    <3>2. x \in NodeRuns /\ x[1] \in Nodes
      BY <2>0, <3>1, CommitRoutes
    <3>3. nodeStatus'[x] = "SUCCEEDED"
      BY <3>1, CommitSucceeds
    <3>4. CASE \E chosen \in SUBSET Targets(x[1]) : \E status, nodes, readies :
                    /\ chosen \subseteq Nodes
                    /\ Activate(x, chosen, status, nodes, readies)
                    /\ \A y \in NodeRuns :
                           nodeStatus'[y] # "NONE" /\ nodeStatus[y] = "NONE"
                               => y \in Inserted(x, chosen)
      <4>0. PICK chosen \in SUBSET Targets(x[1]) : \E status, nodes, readies :
                    /\ chosen \subseteq Nodes
                    /\ Activate(x, chosen, status, nodes, readies)
                    /\ \A y \in NodeRuns :
                           nodeStatus'[y] # "NONE" /\ nodeStatus[y] = "NONE"
                               => y \in Inserted(x, chosen)
        BY <3>4
      <4>1. PICK status, nodes, readies :
                    /\ chosen \subseteq Nodes
                    /\ Activate(x, chosen, status, nodes, readies)
                    /\ \A y \in NodeRuns :
                           nodeStatus'[y] # "NONE" /\ nodeStatus[y] = "NONE"
                               => y \in Inserted(x, chosen)
        BY <4>0
      <4>2. ASSUME NEW t \in Nodes, IsJoin(t)
            PROVE  /\ joins'[t].inputs \subseteq CommittedSources(t)'
                   /\ joins'[t].committed => JoinReady(Plan[t].join, Cardinality(joins'[t].inputs))
                   /\ joins[t].committed \/ t \in Activated(x, chosen) => joins'[t].committed
        <5>1. t \in chosen => x[1] \in CommittedSources(t)'
          BY <3>2, <3>3, <4>1 DEF CommittedSources
        <5>2. /\ joins[t].inputs \subseteq CommittedSources(t)
              /\ joins[t].committed => JoinReady(Plan[t].join, Cardinality(joins[t].inputs))
          BY <4>2 DEF JoinCountsCommits
        <5>3. \/ joins'[t] = joins[t] /\ (t \in Activated(x, chosen) => joins[t].committed)
              \/ /\ t \in chosen /\ ~joins[t].committed
                 /\ joins'[t] = [inputs |-> joins[t].inputs \cup {x[1]},
                                 committed |-> t \in Activated(x, chosen)]
                 /\ t \in Activated(x, chosen) =>
                        JoinReady(Plan[t].join, Cardinality(joins[t].inputs \cup {x[1]}))
          BY <3>2, <4>1, <4>2, ActivateJoins DEF Activated
        <5> HIDE DEF x
        <5>4. CASE joins'[t] = joins[t] /\ (t \in Activated(x, chosen) => joins[t].committed)
          BY <2>0, <5>2, <5>4
        <5>5. CASE /\ t \in chosen
                   /\ joins'[t] = [inputs |-> joins[t].inputs \cup {x[1]},
                                   committed |-> t \in Activated(x, chosen)]
                   /\ t \in Activated(x, chosen) =>
                          JoinReady(Plan[t].join, Cardinality(joins[t].inputs \cup {x[1]}))
                   /\ ~joins[t].committed
          <6>1. /\ joins'[t].inputs = joins[t].inputs \cup {x[1]}
                /\ joins'[t].committed = (t \in Activated(x, chosen))
            BY <5>5
          <6> QED
            BY <2>0, <5>1, <5>2, <5>5, <6>1
        <5> QED
          BY <5>3, <5>4, <5>5
      <4>3. ASSUME NEW y \in NodeRuns, IsJoin(y[1]), Exists(y)'
            PROVE  joins'[y[1]].committed
        <5>1. CASE Exists(y)
          BY <2>0, <4>2, <4>3, <5>1 DEF JoinCountsCommits
        <5>2. CASE ~Exists(y)
          <6>1. y \in Inserted(x, chosen)
            BY <4>1, <4>3, <5>2 DEF Exists
          <6>2. PICK t \in Activated(x, chosen) : y \in Fresh(t)
            BY <6>1 DEF Inserted
          <6>3. y[1] = t
            BY <6>2, FreshRows
          <6> QED
            BY <2>0, <4>2, <4>3, <6>2, <6>3
        <5> QED
          BY <5>1, <5>2
      <4> QED
        BY <4>2, <4>3 DEF JoinCountsCommits
    <3>5. CASE joins' = joins /\ \A y \in NodeRuns : nodeStatus'[y] # "NONE" => nodeStatus[y] # "NONE"
      BY <2>0, <3>5 DEF JoinCountsCommits, Exists
    <3> QED
      BY <3>1, <3>4, <3>5, CommitRoutes
  <2>2. CASE ~\E w \in Workers : CompleteCommit(w)
    <3>1. ~\E o \in Operators : SkipWrite(o) \/ ForceWrite(o)
      BY DEF SkipWrite, ForceWrite, OperatorsFollowControls, RoutesFollowCommits
    <3>2. joins' = joins
      BY <2>2, <3>1, OthersKeepJoins
    <3>3. ASSUME NEW y \in NodeRuns, IsJoin(y[1]), Exists(y)'
          PROVE  \E z \in NodeRuns : z[1] = y[1] /\ Exists(z)
      <4>1. CASE \E o \in Operators : RetryWrite(o)
        <5>1. PICK o \in Operators : RetryWrite(o)
          BY <4>1
        <5>2. os[o].row \in NodeRuns /\ Exists(os[o].row)
          BY <5>1 DEF RetryWrite, RunningHoldsRow, RetryIsDue, Stuck, Exists, TypeOK, Session
        <5>3. Exists(y) \/ y = os[o].row \/ y \in Fresh(os[o].row[1])
          BY <3>3, <5>1 DEF RetryWrite, Exists
        <5> QED
          BY <5>2, <5>3, FreshRows
      <4>2. CASE ~\E o \in Operators : RetryWrite(o)
        BY <2>2, <3>1, <3>3, <4>2, OnlyRoutingCreates
      <4> QED
        BY <4>1, <4>2
    <3> QED
      BY <2>0, <3>2, <3>3 DEF JoinCountsCommits
  <2> QED
    BY <2>1, <2>2
<1> QED
  BY <1>1, <1>2, TypeCorrect, TablesAlwaysAgree, OperatorsStayInControls, AlwaysHolds, PTL DEF Spec, RoutesFollowCommits

(* The target of a Join is entered only when the branches its strategy asks  *)
(* for have committed: none is counted twice and none before it commits,     *)
(* for every plan, in every order in which branches fail and are retried.    *)
THEOREM JoinsWait ==
    ASSUME JoinsAreCompiled, RoutesFollowCommits
    PROVE  Spec => []JoinWaitsForBranches
<1>1. JoinCountsCommits => JoinWaitsForBranches
  <2> SUFFICES ASSUME JoinCountsCommits, NEW t \in Nodes, IsJoin(t),
                      NEW y \in NodeRuns, y[1] = t, Exists(y)
               PROVE  Demanded(Plan[t].join, Cardinality(CommittedSources(t)))
    BY DEF JoinWaitsForBranches, CommittedSources
  <2> DEFINE spec == Plan[t].join
             m == Cardinality(joins[t].inputs)
             n == Cardinality(CommittedSources(t))
             s == Cardinality(Sources(t))
  <2>1. /\ joins[t].inputs \subseteq CommittedSources(t) /\ JoinReady(spec, m)
    BY DEF JoinCountsCommits
  <2>2. IsFiniteSet(Sources(t)) /\ CommittedSources(t) \subseteq Sources(t)
    BY FS_Subset DEF JoinsAreCompiled, Sources, CommittedSources
  <2>3. IsFiniteSet(CommittedSources(t)) /\ IsFiniteSet(joins[t].inputs)
    BY <2>1, <2>2, FS_Subset
  <2>4. m \in Nat /\ n \in Nat /\ s \in Nat /\ m <= n /\ n <= s
    BY <2>1, <2>2, <2>3, FS_Subset, FS_CardinalityType
  <2>5. /\ spec.expected \in Nat /\ spec.required \in Nat
        /\ spec.strategy \in Strategies \cup {"NONE"} /\ spec.strategy # "NONE"
        /\ spec.strategy = "ALL" => spec.expected = s
    BY PlanType DEF PlanNode, JoinSpecs, JoinsAreCompiled, IsJoin
  <2> HIDE DEF spec, m, n, s
  <2>6. Demanded(spec, n)
    BY <2>1, <2>4, <2>5 DEF JoinReady, Demanded, Strategies
  <2> QED
    BY <2>6 DEF spec, n
<1> QED
  BY <1>1, JoinsCount, PTL

-----------------------------------------------------------------------------
(* A Join loses no input, as long as nothing stops the Run between the       *)
(* commits of its branches: complete_attempt routes unless the Run is        *)
(* paused, cancelled, in review or over budget.                              *)

(* Every edge is taken, and every Join can be released by its branches. *)
JoinsCanFire ==
    /\ JoinsAreCompiled
    /\ \A n \in Nodes : /\ Plan[n].routes \subseteq {Targets(n)}
                        /\ Targets(n) = {} => Plan[n].exit
    /\ \A t \in Nodes : IsJoin(t) =>
           Sources(t) # {} /\ JoinReady(Plan[t].join, Cardinality(Sources(t)))

NothingStopsTheRun ==
    /\ Controls \cap {"pause", "cancel"} = {}
    /\ WorkerOps \cap {"reject", "budget", "fail"} = {}

WorkersFollowOps == \A w \in Workers : ws[w].op \in WorkerOps \cup {"idle", "claim"}

LEMMA WorkersStayInOps == Spec => []WorkersFollowOps
<1>1. Init => WorkersFollowOps
  BY DEF Init, WorkersFollowOps, Idle
<1>2. TypeOK /\ WorkersFollowOps /\ [Next]_vars => WorkersFollowOps'
  <2> SUFFICES ASSUME TypeOK, WorkersFollowOps, [Next]_vars, NEW w \in Workers
               PROVE  ws'[w].op \in WorkerOps \cup {"idle", "claim"}
    BY DEF WorkersFollowOps
  <2>0. ws \in [Workers -> Session] /\ ws[w].op \in WorkerOps \cup {"idle", "claim"}
    BY DEF TypeOK, WorkersFollowOps
  <2>1. ASSUME NEW v \in Workers, WorkerStep(v)
        PROVE  ws'[w].op \in WorkerOps \cup {"idle", "claim"}
    <3>1. CASE Done(v)
      BY <2>0, <3>1 DEF Done, Idle
    <3>2. CASE ClaimRead(v)
      BY <2>0, <3>2 DEF ClaimRead
    <3>3. CASE \E op, x, f : Verify(v, op, x, f)
      <4>1. PICK op, x, f : Verify(v, op, x, f)
        BY <3>3
      <4> QED
        BY <2>0, <4>1 DEF Verify, Begin
    <3> QED
      BY <2>1, <3>1, <3>2, <3>3 DEF WorkerStep, ClaimNone, ClaimCommit, ClaimOverBudget,
           HeartbeatCommit, CheckpointCommit, RevokeCommit, CompleteCommit, FailCommit, WorkerReturn
  <2>2. CASE ws' = ws
    BY <2>0, <2>2
  <2> QED
    BY <2>1, <2>2 DEF Next, OperatorStep, RetryRead, SkipRead, ForceRead, ReassignRead, OpBegin,
         RetryWrite, ReassignWrite, SkipWrite, ForceWrite, OpReturn, Expire, ReapRead,
         ReapCommit, ReapReturn, Pause, Resume, Cancel, ResolveWait, vars
<1> QED
  BY <1>1, <1>2, TypeCorrect, PTL DEF Spec

(* A Run that was not started yet has no attempt and no call in flight; one  *)
(* that was is never stopped.                                                *)
RunStaysOpen ==
    /\ run \notin {"CANCELLED", "REVIEW_REQUIRED"}
    /\ run = "PAUSED" => /\ \A w \in Workers : ws[w].op = "idle"
                         /\ \A x \in NodeRuns, f \in Fences : ~Running(x, f)

LEMMA RunIsNeverStopped ==
    ASSUME JoinsCanFire, NothingStopsTheRun, RoutesFollowCommits
    PROVE  Spec => []RunStaysOpen
<1>1. Init => RunStaysOpen
  BY DEF Init, RunStaysOpen, Idle, Running, NoAttempt
<1>2. /\ TypeOK /\ WorkersFollowOps /\ OperatorsFollowControls /\ RunStaysOpen /\ [Next]_vars
      => RunStaysOpen'
  <2> SUFFICES ASSUME TypeOK, WorkersFollowOps, OperatorsFollowControls, RunStaysOpen, [Next]_vars
               PROVE  RunStaysOpen'
    OBVIOUS
  <2>1. ASSUME NEW w \in Workers, WorkerStep(w)
        PROVE  run # "PAUSED" /\ run' \notin {"CANCELLED", "REVIEW_REQUIRED", "PAUSED"}
    <3>1. run # "PAUSED"
      <4>1. ws[w].op = "idle" => ClaimRead(w) \/ \E op \in LeaseCalls, x \in NodeRuns, f \in Fences :
                                                   Verify(w, op, x, f)
        BY <2>1 DEF WorkerStep, ClaimNone, ClaimCommit, ClaimOverBudget, HeartbeatCommit,
             CheckpointCommit, RevokeCommit, CompleteCommit, FailCommit, WorkerReturn
      <4> QED
        BY <4>1 DEF RunStaysOpen, ClaimRead, Verify, LeaseValid
    <3>2. \A bad \in Rejections(w) : bad = {}
      BY DEF Rejections, NothingStopsTheRun
    <3>3. CASE CompleteCommit(w)
      <4>1. ws[w].row[1] \in Nodes
        BY RowParts DEF TypeOK, Session
      <4>2. \A chosen \in Plan[ws[w].row[1]].routes :
                RunAfter(ws[w].row, chosen, run) \notin {"CANCELLED", "REVIEW_REQUIRED", "PAUSED"}
        BY <3>1, <4>1 DEF RunAfter, JoinsCanFire, RunStaysOpen, Final
      <4> QED
        BY <3>1, <3>3, <4>2 DEF CompleteCommit, Activate, NoRouting, RunStaysOpen, NothingStopsTheRun
    <3>4. CASE ClaimNone(w) \/ ClaimCommit(w)
      BY <3>1, <3>2, <3>4 DEF ClaimNone, ClaimCommit, RunOfRejected, RunStaysOpen
    <3>5. ~ClaimOverBudget(w) /\ ~FailCommit(w)
      BY DEF ClaimOverBudget, FailCommit, NothingStopsTheRun, WorkersFollowOps
    <3> QED
      BY <2>1, <3>1, <3>3, <3>4, <3>5 DEF WorkerStep, ClaimRead, Verify, HeartbeatCommit,
           CheckpointCommit, RevokeCommit, WorkerReturn, rows, RunStaysOpen
  <2>2. CASE ~\E w \in Workers : WorkerStep(w)
    <3>1. \A o \in Operators : ~SkipWrite(o) /\ ~ForceWrite(o) /\ ~ReassignWrite(o)
      BY DEF SkipWrite, ForceWrite, ReassignWrite, OperatorsFollowControls, RoutesFollowCommits,
             OneDecides
    <3>2. ~Pause /\ ~Cancel
      BY DEF Pause, Cancel, NothingStopsTheRun
    <3>3. /\ run' \notin {"CANCELLED", "REVIEW_REQUIRED"}
          /\ run' = "PAUSED" => run = "PAUSED"
      BY <2>2, <3>1, <3>2 DEF Next, OperatorStep, RetryRead, SkipRead, ForceRead, ReassignRead,
           OpBegin, RetryWrite, Restarted, OpReturn, Expire, ReapRead, ReapCommit, ReapReturn,
           Resume, ResolveWait, RunStaysOpen, vars, rows
    <3>4. ws' = ws
      BY <2>2, <3>1, <3>2 DEF Next, OperatorStep, RetryRead, SkipRead, ForceRead, ReassignRead,
           OpBegin, RetryWrite, OpReturn, Expire, ReapRead, ReapCommit, ReapReturn,
           Resume, ResolveWait, vars
    <3>5. ASSUME NEW x \in NodeRuns, NEW f \in Fences, Running(x, f)'
          PROVE  Running(x, f)
      <4>1. RowFate(x)
        BY StepFate
      <4>2. ~Claimed(x)
        BY <2>2 DEF Claimed, WorkerStep
      <4> QED
        BY <3>5, <4>1, <4>2 DEF RowFate, Fate, Running, Created, Untouched, Refused, HeldBack,
             Committed, AttemptFailed, Reaped, WaitLapsed, Released, RowCancelled, Retried,
             Reassigned, Skipped, SameStatuses, Becomes
    <3> QED
      BY <3>3, <3>4, <3>5 DEF RunStaysOpen
  <2> QED
    BY <2>1, <2>2 DEF RunStaysOpen
<1> QED
  BY <1>1, <1>2, TypeCorrect, WorkersStayInOps, OperatorsStayInControls, PTL DEF Spec

(* Every committed branch is counted by the Joins it leads to until they are *)
(* released, and a Join is released as soon as it counted enough of them.    *)
JoinsCountAll ==
    /\ \A x \in NodeRuns : nodeStatus[x] = "SUCCEEDED" =>
           \A t \in Nodes : IsJoin(t) /\ t \in Targets(x[1]) =>
               x[1] \in joins[t].inputs \/ joins[t].committed
    /\ \A t \in Nodes : IsJoin(t) =>
           IF joins[t].committed THEN \E y \in NodeRuns : y[1] = t /\ Exists(y)
           ELSE joins[t].inputs # {} => ~JoinReady(Plan[t].join, Cardinality(joins[t].inputs))

(* The target of a Join that routing activates has a node run afterwards. *)
LEMMA ActivatedExists ==
    ASSUME NEW x \in NodeRuns, NEW chosen \in SUBSET Nodes, NEW status, NEW nodes, NEW readies,
           Activate(x, chosen, status, nodes, readies),
           \A y \in NodeRuns : Exists(y) => nodes[y] # "NONE",
           NEW t \in Activated(x, chosen)
    PROVE  \E y \in NodeRuns : y[1] = t /\ Exists(y)'
<1> DEFINE id == Identity(x, chosen, t)
<1>1. CASE Reused(t, id) # {}
  <2>1. PICK y \in Reused(t, id) : TRUE
    BY <1>1
  <2>2. y \in Same(t, id)
    BY <2>1 DEF Reused
  <2>3. y \in NodeRuns /\ y[1] = t /\ Exists(y)
    BY <2>2 DEF Same
  <2>4. nodeStatus'[y] # "NONE"
    BY <2>3, StartStatusType DEF Activate
  <2> QED
    BY <2>3, <2>4 DEF Exists
<1>2. CASE Reused(t, id) = {}
  <2>1. PICK y \in Fresh(t) : TRUE
    BY <1>2 DEF Activate, CanInsert
  <2>2. y \in NodeRuns /\ y[1] = t
    BY <2>1, FreshRows
  <2>3. y \in Inserted(x, chosen)
    BY <1>2, <2>1 DEF Inserted
  <2>4. nodeStatus'[y] # "NONE"
    BY <2>2, <2>3, StartStatusType DEF Activate
  <2> QED
    BY <2>2, <2>4 DEF Exists
<1> QED
  BY <1>1, <1>2

(* In a Run that nothing stops, complete_attempt takes every edge. *)
LEMMA CommitTakesAllEdges ==
    ASSUME TypeOK, JoinsCanFire, NothingStopsTheRun, RunStaysOpen,
           NEW w \in Workers, CompleteCommit(w)
    PROVE  LET x == ws[w].row IN
           /\ x \in NodeRuns /\ Targets(x[1]) \subseteq Nodes
           /\ \E status, nodes, readies :
                  /\ Activate(x, Targets(x[1]), status, nodes, readies)
                  /\ \A y \in NodeRuns : Exists(y) => nodes[y] # "NONE"
<1> DEFINE x == ws[w].row
           nodes == [nodeStatus EXCEPT ![x] = "SUCCEEDED"]
           readies == [readyStatus EXCEPT ![x] = IF @ = "CLAIMED" THEN "DONE" ELSE @]
<1>1. /\ x \in NodeRuns /\ x[1] \in Nodes
      /\ nodeStatus \in [NodeRuns -> NodeStatus \cup {"NONE"}]
  BY RowParts DEF TypeOK, Session
<1>2. PICK chosen \in Plan[x[1]].routes : Activate(x, chosen, run, nodes, readies)
  BY DEF CompleteCommit, RunStaysOpen, NothingStopsTheRun
<1>3. chosen = Targets(x[1]) /\ Targets(x[1]) \subseteq Nodes
  BY <1>1, <1>2, PlanType DEF JoinsCanFire
<1>4. \A y \in NodeRuns : Exists(y) => nodes[y] # "NONE"
  BY <1>1 DEF Exists
<1> HIDE DEF nodes, readies
<1> QED
  BY <1>1, <1>2, <1>3, <1>4

LEMMA AllBranchesCount ==
    ASSUME JoinsCanFire, NothingStopsTheRun, RoutesFollowCommits
    PROVE  Spec => []JoinsCountAll
<1>1. Init => JoinsCountAll
  <2> SUFFICES ASSUME Init
               PROVE  JoinsCountAll
    OBVIOUS
  <2>1. /\ \A t \in Nodes : joins[t].inputs = {} /\ ~joins[t].committed
        /\ \A x \in NodeRuns : nodeStatus[x] # "SUCCEEDED"
    BY DEF Init
  <2> QED
    BY <2>1 DEF JoinsCountAll
<1>2. /\ TypeOK /\ OperatorsFollowControls /\ RunningHoldsRow /\ RunStaysOpen
      /\ JoinsCountAll /\ [Next]_vars
      => JoinsCountAll'
  <2> SUFFICES ASSUME TypeOK, OperatorsFollowControls, RunningHoldsRow, RunStaysOpen,
                      JoinsCountAll, [Next]_vars
               PROVE  JoinsCountAll'
    OBVIOUS
  <2>0. /\ \A y \in NodeRuns : RowFate(y) /\ y[1] \in Nodes
        /\ \A y \in NodeRuns : Exists(y) => Exists(y)'
    BY StepFate, RowParts, FateKeepsRow
  <2>1. ASSUME NEW y \in NodeRuns, nodeStatus'[y] = "SUCCEEDED", nodeStatus[y] # "SUCCEEDED"
        PROVE  \E w \in Workers : CompleteCommit(w) /\ ws[w].row = y
    BY <2>0, <2>1 DEF RowFate, Fate, Created, Untouched, Refused, Claimed, HeldBack, Committed,
         AttemptFailed, Reaped, WaitLapsed, Released, RowCancelled, Retried, Reassigned, Skipped
  <2>2. CASE \E w \in Workers : CompleteCommit(w)
    <3>1. PICK w \in Workers : CompleteCommit(w)
      BY <2>2
    <3> DEFINE x == ws[w].row
               chosen == Targets(x[1])
    <3>2. /\ x \in NodeRuns /\ chosen \in SUBSET Nodes
          /\ \E status, nodes, readies :
                 /\ Activate(x, chosen, status, nodes, readies)
                 /\ \A y \in NodeRuns : Exists(y) => nodes[y] # "NONE"
      BY <3>1, CommitTakesAllEdges
    <3>3. PICK status, nodes, readies :
                 /\ Activate(x, chosen, status, nodes, readies)
                 /\ \A y \in NodeRuns : Exists(y) => nodes[y] # "NONE"
      BY <3>2
    <3>4. nodeStatus'[x] = "SUCCEEDED"
      BY <3>1, CommitSucceeds
    <3>5. \A y \in NodeRuns : nodeStatus'[y] = "SUCCEEDED" => y = x \/ nodeStatus[y] = "SUCCEEDED"
      <4>1. \A v \in Workers : CompleteCommit(v) => ws[v].row = x
        BY <3>1, OneCommits
      <4> QED
        BY <2>1, <4>1
    <3>6. ASSUME NEW t \in Nodes, IsJoin(t)
          PROVE  /\ joins[t].inputs \subseteq joins'[t].inputs \/ joins'[t].committed
                 /\ t \in chosen => x[1] \in joins'[t].inputs \/ joins'[t].committed
                 /\ joins[t].committed => joins'[t].committed
                 /\ IF joins'[t].committed THEN \E y \in NodeRuns : y[1] = t /\ Exists(y)'
                    ELSE joins'[t].inputs # {} =>
                             ~JoinReady(Plan[t].join, Cardinality(joins'[t].inputs))
      <4>1. IF joins[t].committed THEN \E y \in NodeRuns : y[1] = t /\ Exists(y)
            ELSE joins[t].inputs # {} => ~JoinReady(Plan[t].join, Cardinality(joins[t].inputs))
        BY <3>6 DEF JoinsCountAll
      <4>2. t \in Activated(x, chosen) => \E y \in NodeRuns : y[1] = t /\ Exists(y)'
        BY <3>2, <3>3, ActivatedExists
      <4>3. joins'[t] = IF t \in chosen /\ ~joins[t].committed
                        THEN [inputs |-> joins[t].inputs \cup {x[1]},
                              committed |-> t \in Activated(x, chosen)]
                        ELSE joins[t]
        BY <3>3, <3>6 DEF Activate, JoinInputs
      <4>4. t \in chosen /\ t \notin Activated(x, chosen) =>
                ~JoinReady(Plan[t].join, Cardinality(joins[t].inputs \cup {x[1]}))
        BY <3>6 DEF Activated, JoinInputs
      <4> HIDE DEF x, chosen
      <4>5. CASE t \in chosen /\ ~joins[t].committed
        <5>1. /\ joins'[t].inputs = joins[t].inputs \cup {x[1]}
              /\ joins'[t].committed = (t \in Activated(x, chosen))
          BY <4>3, <4>5
        <5> QED
          BY <4>2, <4>4, <4>5, <5>1
      <4>6. CASE ~(t \in chosen /\ ~joins[t].committed)
        BY <2>0, <4>1, <4>3, <4>6
      <4> QED
        BY <4>5, <4>6
    <3>7. ASSUME NEW y \in NodeRuns, nodeStatus'[y] = "SUCCEEDED",
                 NEW t \in Nodes, IsJoin(t), t \in Targets(y[1])
          PROVE  y[1] \in joins'[t].inputs \/ joins'[t].committed
      <4>1. CASE y = x
        BY <3>6, <3>7, <4>1
      <4>2. CASE nodeStatus[y] = "SUCCEEDED"
        <5>1. y[1] \in joins[t].inputs \/ joins[t].committed
          BY <3>7, <4>2 DEF JoinsCountAll
        <5> QED
          BY <3>6, <3>7, <5>1
      <4> QED
        BY <3>5, <3>7, <4>1, <4>2
    <3> HIDE DEF x, chosen
    <3> QED
      BY <3>6, <3>7 DEF JoinsCountAll
  <2>3. CASE ~\E w \in Workers : CompleteCommit(w)
    <3>1. ~\E o \in Operators : SkipWrite(o) \/ ForceWrite(o)
      BY DEF SkipWrite, ForceWrite, OperatorsFollowControls, RoutesFollowCommits
    <3>2. joins' = joins
      BY <2>3, <3>1, OthersKeepJoins
    <3>3. \A y \in NodeRuns : nodeStatus'[y] = "SUCCEEDED" => nodeStatus[y] = "SUCCEEDED"
      BY <2>1, <2>3
    <3> QED
      BY <2>0, <3>2, <3>3 DEF JoinsCountAll
  <2> QED
    BY <2>2, <2>3
<1> QED
  BY <1>1, <1>2, TypeCorrect, OperatorsStayInControls, AlwaysHolds, RunIsNeverStopped, PTL
     DEF Spec, RoutesFollowCommits

(* A Join whose branches all committed has been entered, and entered once,   *)
(* in whatever order they finish, lose their leases and are claimed again.   *)
THEOREM JoinsFireOnce ==
    ASSUME JoinsCanFire, NothingStopsTheRun, RoutesFollowCommits, NoRetry
    PROVE  Spec => []JoinFiresOnce
<1>1. JoinCountsCommits /\ JoinsCountAll => JoinIsReleased
  <2> SUFFICES ASSUME JoinCountsCommits, JoinsCountAll, NEW t \in Nodes, IsJoin(t),
                      \A n \in Nodes : t \in Targets(n) =>
                          \E x \in NodeRuns : x[1] = n /\ nodeStatus[x] = "SUCCEEDED"
               PROVE  \E y \in NodeRuns : y[1] = t /\ Exists(y)
    BY DEF JoinIsReleased
  <2>1. CASE joins[t].committed
    BY <2>1 DEF JoinsCountAll
  <2>2. CASE ~joins[t].committed
    <3>1. Sources(t) \subseteq joins[t].inputs
      BY <2>2 DEF JoinsCountAll, Sources
    <3>2. joins[t].inputs \subseteq Sources(t)
      BY DEF JoinCountsCommits, CommittedSources, Sources
    <3>3. joins[t].inputs = Sources(t)
      BY <3>1, <3>2
    <3> QED
      BY <2>2, <3>3 DEF JoinsCountAll, JoinsCanFire
  <2> QED
    BY <2>1, <2>2
<1>2. JoinsAreCompiled
  BY DEF JoinsCanFire
<1> QED
  BY <1>1, <1>2, JoinsCount, AllBranchesCount, JoinEnteredOnce, PTL DEF JoinFiresOnce
-----------------------------------------------------------------------------
(* A Run always has a reason to wait or something to do. *)

(* A plan without cycles as the compiler admits it: only the entry has no    *)
(* incoming edge, two edges into one node need a join key, and some node     *)
(* ends the Run.  A wait has one incoming edge.                              *)
PlanFlows ==
    /\ \A t \in Nodes : Sources(t) = {} <=> t = Entry
    /\ \A t \in Nodes : ~IsJoin(t) => \A m, n \in Sources(t) : m = n
    /\ \A S \in SUBSET Nodes : S # {} => \E n \in S : Sources(n) \cap S = {}
    /\ \E n \in Nodes : Targets(n) = {}
    /\ \A n \in Nodes : ~Plan[n].cyclic /\ (Plan[n].wait => ~IsJoin(n))

(* Each node is entered once, a node other than the entry and the Joins     *)
(* after its source has committed; only rows that exist were waited for.     *)
NodesEnteredOnce ==
    /\ \A y \in NodeRuns :
           /\ ident[y].iter = 0
           /\ Exists(y) /\ IsJoin(y[1]) => ident[y].branch = <<y[1]>>
           /\ Exists(y) /\ ~IsJoin(y[1]) /\ y[1] # Entry =>
                  \E z \in NodeRuns : nodeStatus[z] = "SUCCEEDED" /\ y[1] \in Targets(z[1])
           /\ waits[y] # "NONE" => Exists(y)
    /\ \A y, z \in NodeRuns : Exists(y) /\ Exists(z) /\ y[1] = z[1] => y = z

(* The statuses a row and its node run have together while the Run is open. *)
InStep(y) == <<nodeStatus[y], readyStatus[y]>> \in
    {<<"READY", "READY">>, <<"WAITING", "WAITING">>, <<"RUNNING", "CLAIMED">>,
     <<"SUCCEEDED", "DONE">>}

(* What an open Run has: rows in step, a row for each node a committed one   *)
(* leads to, a wait if it is WAITING, and none before it was started.        *)
OpenRunFlows ==
    run \notin Final =>
        /\ \A y \in NodeRuns :
               /\ Exists(y) => InStep(y)
               /\ nodeStatus[y] = "SUCCEEDED" =>
                      /\ Targets(y[1]) # {}
                      /\ \A t \in Targets(y[1]) :
                             IsJoin(t) \/ \E z \in NodeRuns : z[1] = t /\ Exists(z)
        /\ WaitingRunHasWait
        /\ run = "PAUSED" => rs.waits = {} /\ \A y \in NodeRuns : waits[y] = "NONE"

(* The steps of a Run that nobody stops, retries, skips or forces. *)
LEMMA OpenRunSteps ==
    ASSUME NothingStopsTheRun, RoutesFollowCommits, NoRetry,
           WorkersFollowOps, OperatorsFollowControls, [Next]_vars
    PROVE  \/ \E w \in Workers : ClaimCommit(w) \/ CompleteCommit(w)
           \/ ReapRead \/ ReapCommit \/ ReapReturn \/ Resume
           \/ \E x \in NodeRuns : ResolveWait(x)
           \/ UNCHANGED <<run, nodeStatus, readyStatus, ident, waits, rs>>
<1>1. ASSUME NEW w \in Workers, WorkerStep(w)
      PROVE  \/ ClaimCommit(w) \/ CompleteCommit(w)
             \/ UNCHANGED <<run, nodeStatus, readyStatus, ident, waits, rs>>
  <2>1. ~ClaimNone(w)
    BY DEF ClaimNone, Rejections, NothingStopsTheRun
  <2>2. ~ClaimOverBudget(w) /\ ~FailCommit(w)
    BY DEF ClaimOverBudget, FailCommit, NothingStopsTheRun, WorkersFollowOps
  <2> QED
    BY <1>1, <2>1, <2>2 DEF WorkerStep, ClaimRead, Verify, HeartbeatCommit, CheckpointCommit,
         RevokeCommit, WorkerReturn, rows
<1>2. ASSUME NEW o \in Operators, OperatorStep(o)
      PROVE  UNCHANGED <<run, nodeStatus, readyStatus, ident, waits, rs>>
  <2>1. ~RetryWrite(o) /\ ~ReassignWrite(o) /\ ~SkipWrite(o) /\ ~ForceWrite(o)
    BY DEF RetryWrite, ReassignWrite, SkipWrite, ForceWrite, OperatorsFollowControls,
         RoutesFollowCommits, OneDecides, NoRetry
  <2> QED
    BY <1>2, <2>1 DEF OperatorStep, RetryRead, SkipRead, ForceRead, ReassignRead, OpBegin,
         OpReturn, rows
<1>3. ~Pause /\ ~Cancel
  BY DEF Pause, Cancel, NothingStopsTheRun
<1> QED
  BY <1>1, <1>2, <1>3 DEF Next, Expire, vars, rows

(* What an attempt commits from: its node run, and every edge that leaves it. *)
LEMMA CommitFollows ==
    ASSUME TypeOK, JoinsCanFire, NothingStopsTheRun, RunStaysOpen,
           NEW w \in Workers, CompleteCommit(w)
    PROVE  LET x == ws[w].row IN
           /\ x \in NodeRuns /\ nodeStatus[x] = "RUNNING" /\ run # "PAUSED"
           /\ Targets(x[1]) \in SUBSET Nodes
           /\ Activate(x, Targets(x[1]), run, [nodeStatus EXCEPT ![x] = "SUCCEEDED"],
                  [readyStatus EXCEPT ![x] = IF @ = "CLAIMED" THEN "DONE" ELSE @])
           /\ rs' = rs
<1> DEFINE x == ws[w].row
           nodes == [nodeStatus EXCEPT ![x] = "SUCCEEDED"]
           readies == [readyStatus EXCEPT ![x] = IF @ = "CLAIMED" THEN "DONE" ELSE @]
<1>1. /\ x \in NodeRuns /\ x[1] \in Nodes /\ nodeStatus[x] = "RUNNING"
  BY RowParts DEF TypeOK, Session, CompleteCommit, Commits
<1>2. run # "PAUSED"
  BY DEF CompleteCommit, RunStaysOpen
<1>3. PICK chosen \in Plan[x[1]].routes : Activate(x, chosen, run, nodes, readies)
  BY <1>2 DEF CompleteCommit, RunStaysOpen, NothingStopsTheRun
<1>4. chosen = Targets(x[1]) /\ Targets(x[1]) \in SUBSET Nodes
  BY <1>1, <1>3, PlanType DEF JoinsCanFire
<1> HIDE DEF nodes, readies
<1>5. Activate(x, Targets(x[1]), run, nodes, readies)
  BY <1>3, <1>4
<1> QED
  BY <1>1, <1>2, <1>4, <1>5 DEF nodes, readies, CompleteCommit

(* A node that is no Join is entered by the one node that leads to it, and   *)
(* when that node commits it has not been entered yet.                       *)
LEMMA NotEnteredYet ==
    ASSUME PlanFlows, NodesEnteredOnce, NEW x \in NodeRuns, nodeStatus[x] = "RUNNING",
           NEW t \in Targets(x[1]), t \in Nodes, ~IsJoin(t),
           NEW y \in NodeRuns, y[1] = t, Exists(y)
    PROVE  FALSE
<1>1. x[1] \in Nodes /\ x[1] \in Sources(t) /\ Exists(x)
  BY RowParts DEF Sources, Exists
<1>2. t # Entry
  BY <1>1 DEF PlanFlows
<1>3. PICK z \in NodeRuns : nodeStatus[z] = "SUCCEEDED" /\ t \in Targets(z[1])
  BY <1>2 DEF NodesEnteredOnce
<1>4. z[1] \in Sources(t) /\ Exists(z)
  BY <1>3, RowParts DEF Sources, Exists
<1>5. z = x
  BY <1>1, <1>3, <1>4 DEF PlanFlows, NodesEnteredOnce
<1> QED
  BY <1>3, <1>5

(* What is new after a commit lies behind an edge of the committed node and   *)
(* inherits its iteration; a Join takes its key as branch.                    *)
LEMMA CommitInserts ==
    ASSUME TypeOK, PlanFlows, NodesEnteredOnce, NEW x \in NodeRuns, NEW chosen \in SUBSET Nodes,
           NEW status, NEW nodes, NEW readies,
           Activate(x, chosen, status, nodes, readies),
           NEW y \in NodeRuns
    PROVE  \/ /\ y \in Inserted(x, chosen) /\ y[1] \in chosen /\ ~Exists(y)
              /\ nodeStatus'[y] = StartStatus(y[1]) /\ readyStatus'[y] = StartStatus(y[1])
              /\ ident'[y].iter = 0
              /\ IsJoin(y[1]) => ident'[y].branch = <<y[1]>>
           \/ /\ y \notin Inserted(x, chosen)
              /\ nodeStatus'[y] = nodes[y] /\ readyStatus'[y] = readies[y]
              /\ ident'[y] = ident[y]
<1>1. /\ nodeStatus'[y] = IF y \in Inserted(x, chosen) THEN StartStatus(y[1]) ELSE nodes[y]
      /\ readyStatus'[y] = IF y \in Inserted(x, chosen) THEN StartStatus(y[1]) ELSE readies[y]
      /\ ident'[y] = IF y \in Inserted(x, chosen) THEN Identity(x, chosen, y[1]) ELSE ident[y]
      /\ \A t \in Activated(x, chosen) : CanInsert(t, Identity(x, chosen, t))
  BY DEF Activate
<1>2. CASE y \in Inserted(x, chosen)
  <2>1. y[1] \in chosen /\ ~Exists(y)
    BY <1>1, <1>2, InsertedRows DEF Exists
  <2>2. ident[x].iter = 0 /\ ~Plan[x[1]].cyclic
    BY RowParts DEF NodesEnteredOnce, PlanFlows
  <2>3. /\ Identity(x, chosen, y[1]).iter = 0
        /\ IsJoin(y[1]) => Identity(x, chosen, y[1]).branch = <<y[1]>>
    BY <2>2 DEF Identity
  <2> QED
    BY <1>1, <1>2, <2>1, <2>3
<1>3. CASE y \notin Inserted(x, chosen)
  BY <1>1, <1>3
<1> QED
  BY <1>2, <1>3

(* Each node is entered once. *)
LEMMA EnteredOnce ==
    ASSUME JoinsCanFire, PlanFlows, NothingStopsTheRun, RoutesFollowCommits, NoRetry
    PROVE  Spec => []NodesEnteredOnce
<1>1. Init => NodesEnteredOnce
  <2> SUFFICES ASSUME Init
               PROVE  NodesEnteredOnce
    OBVIOUS
  <2>1. \A y \in NodeRuns : /\ ident[y].iter = 0 /\ waits[y] = "NONE"
                            /\ Exists(y) => y = <<Entry, 1>>
    BY DEF Init, Exists
  <2>2. ~IsJoin(Entry) /\ <<Entry, 1>>[1] = Entry
    BY DEF JoinsCanFire, JoinsAreCompiled
  <2> QED
    BY <2>1, <2>2 DEF NodesEnteredOnce
<1>2. /\ TypeOK /\ TablesAgreeOnAll /\ WorkersFollowOps /\ OperatorsFollowControls
      /\ RunningHoldsRow /\ RunStaysOpen /\ NodesEnteredOnce /\ [Next]_vars
      => NodesEnteredOnce'
  <2> SUFFICES ASSUME TypeOK, TablesAgreeOnAll, WorkersFollowOps, OperatorsFollowControls,
                      RunningHoldsRow, RunStaysOpen, NodesEnteredOnce, [Next]_vars
               PROVE  NodesEnteredOnce'
    OBVIOUS
  <2>0. /\ \A y \in NodeRuns : nodeStatus[y] = "SUCCEEDED" => nodeStatus'[y] = "SUCCEEDED"
        /\ \A y \in NodeRuns : Exists(y) => Exists(y)'
        /\ \A y \in NodeRuns : y[1] \in Nodes
    BY StepFate, FateKeepsSucceeded, FateKeepsRow, RowParts
  <2>1. CASE \E w \in Workers : CompleteCommit(w)
    <3>1. PICK w \in Workers : CompleteCommit(w)
      BY <2>1
    <3> DEFINE x == ws[w].row
               chosen == Targets(x[1])
               nodes == [nodeStatus EXCEPT ![x] = "SUCCEEDED"]
               readies == [readyStatus EXCEPT ![x] = IF @ = "CLAIMED" THEN "DONE" ELSE @]
    <3>2. /\ x \in NodeRuns /\ nodeStatus[x] = "RUNNING" /\ chosen \in SUBSET Nodes
          /\ Activate(x, chosen, run, nodes, readies)
      BY <3>1, CommitFollows
    <3>3. nodeStatus'[x] = "SUCCEEDED"
      BY <3>1, CommitSucceeds
    <3>4. \A y \in NodeRuns : nodes[y] # "NONE" => Exists(y)
      BY <3>2 DEF TypeOK, Exists
    <3> HIDE DEF nodes, readies
    <3>5. ASSUME NEW y \in NodeRuns
          PROVE  \/ /\ y \in Inserted(x, chosen) /\ y[1] \in chosen /\ ~Exists(y)
                    /\ ident'[y].iter = 0
                    /\ IsJoin(y[1]) => ident'[y].branch = <<y[1]>>
                 \/ /\ Exists(y)' => Exists(y)
                    /\ ident'[y] = ident[y]
      BY <3>2, <3>4, CommitInserts DEF Exists
    <3> HIDE DEF x, chosen
    <3>6. ASSUME NEW y \in NodeRuns
          PROVE  /\ ident'[y].iter = 0
                 /\ Exists(y)' /\ IsJoin(y[1]) => ident'[y].branch = <<y[1]>>
      BY <3>5 DEF NodesEnteredOnce
    <3>7. ASSUME NEW y \in NodeRuns, Exists(y)', ~IsJoin(y[1]), y[1] # Entry
          PROVE  \E z \in NodeRuns : nodeStatus'[z] = "SUCCEEDED" /\ y[1] \in Targets(z[1])
      <4>1. CASE Exists(y)
        BY <2>0, <3>7, <4>1 DEF NodesEnteredOnce
      <4>2. CASE ~Exists(y)
        BY <3>2, <3>3, <3>5, <3>7, <4>2 DEF chosen
      <4> QED
        BY <4>1, <4>2
    <3>8. ASSUME NEW y \in NodeRuns, waits'[y] # "NONE"
          PROVE  Exists(y)'
      <4>1. CASE waits[y] # "NONE"
        BY <2>0, <4>1 DEF NodesEnteredOnce
      <4>2. CASE waits[y] = "NONE"
        <5>1. y \in Subscribed(x, chosen)
          BY <3>2, <3>8, <4>2 DEF Activate
        <5>2. CASE y \in Inserted(x, chosen)
          BY <3>2, <5>2, StartStatusType DEF Activate, Exists
        <5>3. CASE \E t \in Activated(x, chosen) : y \in Reused(t, Identity(x, chosen, t))
          <6>1. PICK t \in Activated(x, chosen) : y \in Reused(t, Identity(x, chosen, t))
            BY <5>3
          <6>2. y \in Same(t, Identity(x, chosen, t))
            BY <6>1 DEF Reused
          <6> QED
            BY <2>0, <6>2 DEF Same
        <5> QED
          BY <5>1, <5>2, <5>3 DEF Subscribed
      <4> QED
        BY <4>1, <4>2
    <3>9. ASSUME NEW y \in NodeRuns, NEW z \in NodeRuns, Exists(y)', ~Exists(y), Exists(z), y[1] = z[1]
          PROVE  FALSE
      <4>1. y \in Inserted(x, chosen) /\ y[1] \in chosen
        BY <3>5, <3>9
      <4>2. CASE IsJoin(y[1])
        <5>1. Created(y)
          <6>1. RowFate(y) /\ TablesAgree(y) /\ nodeStatus[y] = "NONE"
            BY <3>9, StepFate DEF TablesAgreeOnAll, Exists
          <6>2. ~Retried(y) /\ ~Skipped(y)
            BY DEF Retried, RetryWrite, Skipped, SkipWrite, OperatorsFollowControls,
                   RoutesFollowCommits, NoRetry
          <6> QED
            BY <3>9, <6>1, <6>2 DEF RowFate, Fate, Exists, Untouched, Refused, Claimed, Claimable,
               HeldBack, Committed, AttemptFailed, Reaped, WaitLapsed, Released, RowCancelled,
               Reassigned, TablesAgree, Running
        <5>2. /\ ident'[y].branch = <<y[1]>> /\ ident'[y].iter = 0
              /\ ident[z].branch = <<y[1]>> /\ ident[z].iter = 0
          BY <3>5, <3>9, <4>2 DEF NodesEnteredOnce
        <5>3. ident'[y] = ident[z] /\ ident'[y].branch # <<>>
          <6>1. /\ ident'[y] \in [iter : 0..MaxIter, branch : Branches]
                /\ ident[z] \in [iter : 0..MaxIter, branch : Branches]
            BY <3>1, WorkerType DEF TypeOK, WorkerStep
          <6> QED
            BY <5>2, <6>1
        <5>4. z \in Same(y[1], ident'[y])
          BY <3>9, <5>3 DEF Same
        <5> QED
          BY <5>1, <5>3, <5>4 DEF Created, Clashes
      <4>3. CASE ~IsJoin(y[1])
        BY <2>0, <3>2, <3>9, <4>1, <4>3, NotEnteredYet DEF chosen
      <4> QED
        BY <4>2, <4>3
    <3>10. ASSUME NEW y \in NodeRuns, NEW z \in NodeRuns, Exists(y)', Exists(z)', y[1] = z[1]
           PROVE  y = z
      <4>1. CASE Exists(y) /\ Exists(z)
        BY <3>10, <4>1 DEF NodesEnteredOnce
      <4>2. CASE ~Exists(y) /\ ~Exists(z)
        <5>1. y \in Inserted(x, chosen) /\ z \in Inserted(x, chosen)
          BY <3>5, <3>10, <4>2
        <5>2. y \in Fresh(y[1]) /\ z \in Fresh(z[1])
          BY <5>1, FreshRows DEF Inserted
        <5> QED
          BY <3>10, <5>2, OneFreshRow
      <4> QED
        BY <3>9, <3>10, <4>1, <4>2
    <3> QED
      BY <3>6, <3>7, <3>8, <3>10 DEF NodesEnteredOnce
  <2>2. CASE ~\E w \in Workers : CompleteCommit(w)
    <3>1. \A y \in NodeRuns : Exists(y)' => Exists(y)
      <4>1. ~\E o \in Operators : RetryWrite(o) \/ SkipWrite(o) \/ ForceWrite(o)
        BY DEF RetryWrite, SkipWrite, ForceWrite, OperatorsFollowControls, RoutesFollowCommits,
               NoRetry
      <4> QED
        BY <2>2, <4>1, OnlyRoutingCreates
    <3>2. \A y \in NodeRuns : ident'[y] = ident[y] /\ (waits'[y] # "NONE" => waits[y] # "NONE")
      BY <2>2, OpenRunSteps DEF ClaimCommit, ReapRead, ReapCommit, ReapReturn, Resume, ResolveWait,
           rows, TypeOK
    <3> QED
      BY <2>0, <3>1, <3>2 DEF NodesEnteredOnce
  <2> QED
    BY <2>1, <2>2
<1> QED
  BY <1>1, <1>2, TypeCorrect, TablesAlwaysAgree, WorkersStayInOps, OperatorsStayInControls,
     AlwaysHolds, RunIsNeverStopped, PTL DEF Spec, RoutesFollowCommits

(* A commit in an open Run keeps it in order, or ends it. *)
LEMMA CommitKeepsFlow ==
    ASSUME TypeOK, JoinsCanFire, PlanFlows, NothingStopsTheRun, RunStaysOpen, NodesEnteredOnce,
           OpenRunFlows, run \notin Final, NEW w \in Workers, CompleteCommit(w), run' \notin Final
    PROVE  OpenRunFlows'
<1> DEFINE x == ws[w].row
           chosen == Targets(x[1])
           nodes == [nodeStatus EXCEPT ![x] = "SUCCEEDED"]
           readies == [readyStatus EXCEPT ![x] = IF @ = "CLAIMED" THEN "DONE" ELSE @]
<1>1. /\ x \in NodeRuns /\ x[1] \in Nodes /\ nodeStatus[x] = "RUNNING" /\ run # "PAUSED"
      /\ chosen \in SUBSET Nodes
      /\ Activate(x, chosen, run, nodes, readies) /\ rs' = rs
  BY CommitFollows, RowParts
<1>2. chosen # {}
  <2>1. chosen = {} => run' = "SUCCEEDED"
    BY <1>1 DEF Activate, RunAfter, JoinsCanFire
  <2> QED
    BY <2>1 DEF Final
<1>3. /\ nodeStatus \in [NodeRuns -> NodeStatus \cup {"NONE"}]
      /\ readyStatus \in [NodeRuns -> ReadyStatus \cup {"NONE"}]
  BY DEF TypeOK
<1>4. /\ nodes[x] = "SUCCEEDED" /\ readies[x] = "DONE"
      /\ \A y \in NodeRuns : y # x => nodes[y] = nodeStatus[y] /\ readies[y] = readyStatus[y]
      /\ \A y \in NodeRuns : Exists(y) => nodes[y] # "NONE"
  <2>1. readyStatus[x] = "CLAIMED"
    BY <1>1 DEF OpenRunFlows, Exists, InStep
  <2> QED
    BY <1>1, <1>3, <2>1 DEF Exists
<1> HIDE DEF nodes, readies
<1>5. ASSUME NEW y \in NodeRuns
      PROVE  \/ /\ y \in Inserted(x, chosen) /\ ~Exists(y)
                /\ nodeStatus'[y] = StartStatus(y[1]) /\ readyStatus'[y] = StartStatus(y[1])
             \/ nodeStatus'[y] = nodes[y] /\ readyStatus'[y] = readies[y]
  BY <1>1, CommitInserts
<1> HIDE DEF x, chosen
<1>6. ASSUME NEW y \in NodeRuns, Exists(y)'
      PROVE  InStep(y)'
  BY <1>4, <1>5, <1>6, StartStatusType DEF InStep, Exists, OpenRunFlows
<1>7. ASSUME NEW y \in NodeRuns, nodeStatus'[y] = "SUCCEEDED"
      PROVE  /\ Targets(y[1]) # {}
             /\ \A t \in Targets(y[1]) : IsJoin(t) \/ \E z \in NodeRuns : z[1] = t /\ Exists(z)'
  <2>0. \A z \in NodeRuns : Exists(z) => Exists(z)'
    BY <1>4, <1>5, StartStatusType DEF Exists
  <2>1. CASE y = x
    <3>1. \A t \in chosen : IsJoin(t) \/ t \in Activated(x, chosen)
      BY DEF Activated
    <3>2. \A t \in Activated(x, chosen) : \E z \in NodeRuns : z[1] = t /\ Exists(z)'
      BY <1>1, <1>4, ActivatedExists
    <3> QED
      BY <1>2, <2>1, <3>1, <3>2 DEF chosen
  <2>2. CASE y # x
    <3>1. nodeStatus[y] = "SUCCEEDED"
      BY <1>4, <1>5, <1>7, <2>2, StartStatusType
    <3> QED
      BY <2>0, <3>1 DEF OpenRunFlows
  <2> QED
    BY <2>1, <2>2
<1>8. WaitingRunHasWait'
  <2> SUFFICES ASSUME run' = "WAITING"
               PROVE  \E y \in NodeRuns : waits'[y] = "WAITING"
    BY DEF WaitingRunHasWait
  <2>1. \A y \in NodeRuns : waits'[y] = IF y \in Subscribed(x, chosen) THEN "WAITING" ELSE waits[y]
    BY <1>1 DEF Activate
  <2>2. CASE run = "WAITING"
    BY <2>1, <2>2 DEF OpenRunFlows, WaitingRunHasWait
  <2>3. CASE run # "WAITING"
    <3>1. PICK t \in Activated(x, chosen) : Plan[t].wait
      BY <1>1, <1>2, <2>3 DEF Activate, RunAfter, Final
    <3>2. t \in Nodes /\ t \in Targets(x[1]) /\ ~IsJoin(t)
      BY <1>1, <3>1 DEF Activated, PlanFlows, chosen
    <3>3. Reused(t, Identity(x, chosen, t)) = {}
      <4>1. \A y \in Same(t, Identity(x, chosen, t)) : y \in NodeRuns /\ y[1] = t /\ Exists(y)
        BY DEF Same
      <4>2. Same(t, Identity(x, chosen, t)) = {}
        BY <1>1, <3>2, <4>1, NotEnteredYet
      <4> QED
        BY <4>2 DEF Reused
    <3>4. PICK y \in Fresh(t) : TRUE
      BY <1>1, <3>1, <3>3 DEF Activate, CanInsert
    <3>5. y \in NodeRuns /\ y[1] = t /\ ~Exists(y) /\ y \in Inserted(x, chosen)
      BY <3>1, <3>3, <3>4, FreshRows DEF Inserted, Exists
    <3>6. waits[y] = "NONE"
      BY <3>5 DEF NodesEnteredOnce
    <3>7. y \in Subscribed(x, chosen)
      BY <3>1, <3>5, <3>6 DEF Subscribed
    <3> QED
      BY <2>1, <3>5, <3>7
  <2> QED
    BY <2>2, <2>3
<1>9. run' # "PAUSED"
  BY <1>1 DEF Activate, RunAfter, Final
<1> QED
  BY <1>6, <1>7, <1>8, <1>9 DEF OpenRunFlows

(* A Run in which no commit gets lost stays in order until it ends. *)
LEMMA OpenRunsFlow ==
    ASSUME JoinsCanFire, PlanFlows, NothingStopsTheRun, RoutesFollowCommits, NoRetry
    PROVE  Spec => []OpenRunFlows
<1>1. Init => OpenRunFlows
  <2> SUFFICES ASSUME Init
               PROVE  OpenRunFlows
    OBVIOUS
  <2>1. /\ \A y \in NodeRuns : /\ waits[y] = "NONE"
                               /\ readyStatus[y] = nodeStatus[y]
                               /\ nodeStatus[y] \in {"READY", "WAITING", "NONE"}
        /\ rs.waits = {} /\ run # "WAITING"
    BY DEF Init, NoReap
  <2> QED
    BY <2>1 DEF OpenRunFlows, InStep, Exists, WaitingRunHasWait
<1>2. /\ TypeOK /\ WorkersFollowOps /\ OperatorsFollowControls /\ RunningHoldsRow /\ RunStaysOpen
      /\ NodesEnteredOnce /\ OpenRunFlows /\ [Next]_vars
      => OpenRunFlows'
  <2> SUFFICES ASSUME TypeOK, WorkersFollowOps, OperatorsFollowControls, RunningHoldsRow,
                      RunStaysOpen, NodesEnteredOnce, OpenRunFlows, [Next]_vars, run' \notin Final
               PROVE  OpenRunFlows'
    BY DEF OpenRunFlows
  <2>0. /\ nodeStatus \in [NodeRuns -> NodeStatus \cup {"NONE"}]
        /\ readyStatus \in [NodeRuns -> ReadyStatus \cup {"NONE"}]
        /\ waits \in [NodeRuns -> WaitStatus \cup {"NONE"}]
    BY DEF TypeOK
  <2>1. CASE \E w \in Workers : CompleteCommit(w)
    <3>1. PICK w \in Workers : CompleteCommit(w)
      BY <2>1
    <3>2. run \notin Final
      BY <3>1, CommitFollows DEF Activate, RunAfter, Final
    <3> QED
      BY <3>1, <3>2, CommitKeepsFlow
  <2>2. CASE ~\E w \in Workers : CompleteCommit(w)
    <3>0. /\ \A y \in NodeRuns : nodeStatus'[y] = "SUCCEEDED" => nodeStatus[y] = "SUCCEEDED"
          /\ \A y \in NodeRuns : Exists(y) => Exists(y)'
      <4>1. \A y \in NodeRuns : RowFate(y)
        BY StepFate
      <4>2. ASSUME NEW y \in NodeRuns, nodeStatus'[y] = "SUCCEEDED"
            PROVE  nodeStatus[y] = "SUCCEEDED"
        BY <2>2, <4>1, <4>2 DEF RowFate, Fate, Created, Untouched, Refused, Claimed, HeldBack,
             Committed, AttemptFailed, Reaped, WaitLapsed, Released, RowCancelled, Retried,
             Reassigned, Skipped
      <4> QED
        BY <4>1, <4>2, FateKeepsRow
    <3>1. ASSUME /\ run \notin Final
                 /\ \A y \in NodeRuns : InStep(y) => InStep(y)'
                 /\ \A y \in NodeRuns : Exists(y)' => Exists(y)
                 /\ WaitingRunHasWait'
                 /\ run' = "PAUSED" => rs'.waits = {} /\ \A y \in NodeRuns : waits'[y] = "NONE"
          PROVE  OpenRunFlows'
      BY <3>0, <3>1 DEF OpenRunFlows
    <3>2. CASE \E w \in Workers : ClaimCommit(w)
      <4>1. PICK w \in Workers : ClaimCommit(w)
        BY <3>2
      <4>2. PICK bad \in Rejections(w), x \in NodeRuns :
              /\ Claimable(x)
              /\ readyStatus' = [Rejected(bad, readyStatus, "CANCELLED") EXCEPT ![x] = "CLAIMED"]
              /\ nodeStatus' = [Rejected(bad, nodeStatus, "REVIEW_REQUIRED") EXCEPT ![x] = "RUNNING"]
              /\ run' = RunOfRejected(bad)
              /\ UNCHANGED <<waits, rs>>
        BY <4>1 DEF ClaimCommit, TypeOK, Session
      <4>3. bad = {}
        BY DEF Rejections, NothingStopsTheRun
      <4>4. \A y \in NodeRuns : /\ nodeStatus'[y] = IF y = x THEN "RUNNING" ELSE nodeStatus[y]
                                /\ readyStatus'[y] = IF y = x THEN "CLAIMED" ELSE readyStatus[y]
        BY <4>2, <4>3 DEF Rejected
      <4>5. run' = run
        BY <4>2, <4>3 DEF RunOfRejected
      <4> QED
        BY <3>1, <4>2, <4>4, <4>5 DEF InStep, Exists, Claimable, OpenRunFlows, WaitingRunHasWait
    <3>3. CASE ReapRead \/ ReapReturn
      <4>1. UNCHANGED rows
        BY <3>3 DEF ReapRead, ReapReturn
      <4>2. (\A y \in NodeRuns : waits[y] = "NONE") /\ rs.waits = {} => rs'.waits = {}
        BY <3>3 DEF ReapRead, ReapReturn, NoReap
      <4> QED
        BY <3>1, <4>1, <4>2 DEF rows, InStep, Exists, OpenRunFlows, WaitingRunHasWait
    <3>4. CASE ReapCommit
      <4>1. /\ rs.waits = {} \/ run \notin {"WAITING", "RUNNING"}
            /\ run' = run /\ rs'.waits = {}
        BY <3>4 DEF ReapCommit, Final, NoReap
      <4>2. rs.waits = {}
        BY <4>1 DEF OpenRunFlows, RunStaysOpen, TypeOK, RunStatus, Final
      <4>3. \A y \in NodeRuns :
              waits'[y] = waits[y]
        BY <3>4, <4>2 DEF ReapCommit
      <4> DEFINE stale == {a[1] : a \in {b \in rs.attempts : Running(b[1], b[2])}}
      <4>4. \A y \in NodeRuns :
              /\ nodeStatus'[y] = IF y \in stale /\ nodeStatus[y] = "RUNNING" THEN "READY"
                                  ELSE nodeStatus[y]
              /\ readyStatus'[y] = IF y \in stale THEN Recovered(readyStatus[y]) ELSE readyStatus[y]
        BY <3>4, <4>2 DEF ReapCommit
      <4> HIDE DEF stale
      <4>5. \A y \in NodeRuns : InStep(y) => InStep(y)'
        BY <4>4 DEF InStep, Recovered
      <4>6. \A y \in NodeRuns : Exists(y)' => Exists(y)
        BY <4>4 DEF Exists
      <4>7. WaitingRunHasWait'
        BY <4>1, <4>3 DEF OpenRunFlows, WaitingRunHasWait
      <4> QED
        BY <3>1, <4>1, <4>3, <4>5, <4>6, <4>7 DEF OpenRunFlows
    <3>5. CASE Resume
      BY <3>1, <3>5 DEF Resume, Final, InStep, Exists, WaitingRunHasWait
    <3>6. CASE \E z \in NodeRuns : ResolveWait(z)
      <4>1. PICK x \in NodeRuns : ResolveWait(x)
        BY <3>6
      <4>2. \A y \in NodeRuns :
              /\ nodeStatus'[y] = IF y = x /\ nodeStatus[y] = "WAITING" THEN "READY" ELSE nodeStatus[y]
              /\ readyStatus'[y] = IF y = x /\ readyStatus[y] = "WAITING" THEN "READY"
                                   ELSE readyStatus[y]
              /\ waits'[y] = IF y = x THEN "RESOLVED" ELSE waits[y]
        BY <2>0, <4>1 DEF ResolveWait
      <4>3. run' = IF run = "WAITING" /\ IsLastWait(x) THEN "RUNNING" ELSE run
        BY <4>1 DEF ResolveWait
      <4>4. run \notin Final /\ run # "PAUSED" /\ run' # "PAUSED"
        BY <4>1, <4>3 DEF OpenRunFlows, ResolveWait, Final
      <4>5. WaitingRunHasWait'
        BY <4>2, <4>3 DEF WaitingRunHasWait, IsLastWait
      <4> QED
        BY <3>1, <4>2, <4>4, <4>5 DEF InStep, Exists
    <3>7. CASE UNCHANGED <<run, nodeStatus, readyStatus, ident, waits, rs>>
      BY <3>1, <3>7 DEF InStep, Exists, OpenRunFlows, WaitingRunHasWait
    <3> QED
      BY <2>2, <3>2, <3>3, <3>4, <3>5, <3>6, <3>7, OpenRunSteps
  <2> QED
    BY <2>1, <2>2
<1> QED
  BY <1>1, <1>2, TypeCorrect, WorkersStayInOps, OperatorsStayInControls,
     AlwaysHolds, RunIsNeverStopped, EnteredOnce, PTL DEF Spec, RoutesFollowCommits

(* Every row of a Run without work has been committed, and then every node   *)
(* was entered: the first one that was not would have committed sources.     *)
LEMMA WorkRemains ==
    ASSUME JoinsCanFire, PlanFlows, OpenRunFlows, JoinCountsCommits, JoinsCountAll,
           Exists(<<Entry, 1>>), run = "RUNNING"
    PROVE  RunningHasWork
<1> SUFFICES ASSUME \A x \in NodeRuns : readyStatus[x] \notin LiveReady
             PROVE  FALSE
  BY DEF RunningHasWork
<1>1. \A x \in NodeRuns : Exists(x) => nodeStatus[x] = "SUCCEEDED"
  BY DEF OpenRunFlows, InStep, LiveReady, Final
<1> DEFINE missing == {n \in Nodes : \A x \in NodeRuns : x[1] = n => ~Exists(x)}
<1>2. missing # {}
  <2>1. PICK n \in Nodes : Targets(n) = {}
    BY DEF PlanFlows
  <2>2. \A x \in NodeRuns : x[1] = n => ~Exists(x)
    BY <1>1, <2>1 DEF OpenRunFlows, Final
  <2> QED
    BY <2>2
<1>3. missing \in SUBSET Nodes
  OBVIOUS
<1>4. PICK n \in missing : Sources(n) \cap missing = {}
  <2> HIDE DEF missing
  <2> QED
    BY <1>2, <1>3 DEF PlanFlows
<1>5. n \in Nodes /\ \A x \in NodeRuns : x[1] = n => ~Exists(x)
  OBVIOUS
<1>6. n # Entry /\ Sources(n) # {}
  BY <1>5, EntryRow DEF PlanFlows
<1>7. ASSUME NEW m \in Sources(n)
      PROVE  \E x \in NodeRuns : x[1] = m /\ nodeStatus[x] = "SUCCEEDED" /\ n \in Targets(m)
  <2>1. m \in Nodes /\ n \in Targets(m) /\ m \notin missing
    BY <1>4 DEF Sources
  <2> QED
    BY <1>1, <2>1
<1> HIDE DEF missing
<1>8. CASE ~IsJoin(n)
  <2>1. PICK x \in NodeRuns : nodeStatus[x] = "SUCCEEDED" /\ n \in Targets(x[1])
    BY <1>6, <1>7
  <2>2. \E z \in NodeRuns : z[1] = n /\ Exists(z)
    BY <1>8, <2>1 DEF OpenRunFlows, Final
  <2> QED
    BY <1>5, <2>2
<1>9. CASE IsJoin(n)
  <2>1. ~joins[n].committed
    BY <1>5, <1>9 DEF JoinsCountAll
  <2>2. Sources(n) \subseteq joins[n].inputs
    BY <1>5, <1>7, <1>9, <2>1 DEF JoinsCountAll
  <2>3. joins[n].inputs \subseteq Sources(n)
    BY <1>5, <1>9 DEF JoinCountsCommits, CommittedSources, Sources
  <2>4. joins[n].inputs = Sources(n)
    BY <2>2, <2>3
  <2> QED
    BY <1>5, <1>6, <1>9, <2>1, <2>4 DEF JoinsCountAll, JoinsCanFire
<1> QED
  BY <1>8, <1>9

(* A RUNNING Run has work and a WAITING one an open wait, whatever leases    *)
(* expire and in whatever order branches commit and waits are answered: a    *)
(* Run that nothing stops comes to rest only at its end.                     *)
THEOREM RunAlwaysHasReason ==
    ASSUME JoinsCanFire, PlanFlows, NothingStopsTheRun, RoutesFollowCommits, NoRetry
    PROVE  Spec => []RunHasReason
<1>1. /\ OpenRunFlows /\ JoinCountsCommits /\ JoinsCountAll /\ SessionsReadRows
      => RunHasReason
  <2> SUFFICES ASSUME OpenRunFlows, JoinCountsCommits, JoinsCountAll, SessionsReadRows
               PROVE  RunHasReason
    OBVIOUS
  <2>1. RunningHasWork
    BY WorkRemains DEF RunningHasWork, SessionsReadRows
  <2>2. WaitingRunHasWait
    BY DEF OpenRunFlows, WaitingRunHasWait, Final
  <2> QED
    BY <2>1, <2>2 DEF RunHasReason
<1>2. JoinsAreCompiled
  BY DEF JoinsCanFire
<1> QED
  BY <1>1, <1>2, OpenRunsFlow, JoinsCount, AllBranchesCount, ReadRowsExist, PTL
=============================================================================
