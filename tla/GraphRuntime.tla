---------------------------- MODULE GraphRuntime ----------------------------
(***************************************************************************)
(* One Graph Run of scripts/lib/graph_runtime.py: its node runs and ready  *)
(* rows, the attempts workers make under fenced leases, the checkpoint     *)
(* log, joins, waits, the lease reaper and the operator controls.          *)
(*                                                                         *)
(* A step is a database transaction, or the part of one that other         *)
(* sessions can come between: PostgreSQL runs them READ COMMITTED, so what *)
(* a call read before its first row lock may be stale when it writes.  A   *)
(* call that does so is two actions, its read leaving a session record     *)
(* behind; a call whose first statement locks what it needs is one action. *)
(***************************************************************************)
EXTENDS GraphPlan, Sequences

CONSTANTS
    Workers,     \* Worker sessions
    NoWorker,    \* the worker of an attempt row that does not exist
    Operators,   \* concurrent operator sessions
    WorkerOps,   \* what Workers may do beside claiming
    Controls,    \* the operator and event operations that may occur
    MaxGen,      \* bound: node runs of one node key
    MaxFence,    \* bound: attempts of one node run
    MaxLog,      \* bound: checkpoints of the Run
    MaxIter      \* bound: iteration number of a cycle

NodeRuns == Nodes \X (1..MaxGen)
Fences == 1..MaxFence

ASSUME BoundAssumption ==
    /\ MaxGen \in Nat \ {0} /\ MaxFence \in Nat \ {0}
    /\ MaxLog \in Nat /\ MaxIter \in Nat
    /\ NoWorker \notin Workers

VARIABLES
    run,          \* GRAPH_RUNS.STATUS
    nodeStatus,   \* GRAPH_NODE_RUNS.STATUS, "NONE" where no row exists
    ident,        \* GRAPH_NODE_RUNS.ITERATION_NO and BRANCH_KEY
    out,          \* GRAPH_NODE_RUNS.OUTPUT_CHECKPOINT_ID as its SEQ_NO, 0 if null
    readyStatus,  \* GRAPH_READY_NODES.STATUS of the node run's row
    att,          \* GRAPH_ATTEMPTS and the GRAPH_LEASE_TOKENS row of each
    log,          \* GRAPH_CHECKPOINTS by SEQ_NO: the attempt each came from
    joins,        \* GRAPH_JOIN_STATES: INPUTS_JSON keys and whether COMMITTED
    waits,        \* GRAPH_WAIT_SUBSCRIPTIONS.STATUS of the node run's row
    ws,           \* per Worker: the call in flight, between its read and its write
    os,           \* the same per operator session
    rs            \* the same for the reaper

rows == <<run, nodeStatus, ident, out, readyStatus, att, log, joins, waits>>
vars == <<rows, ws, os, rs>>

RunStatus == {"RUNNING", "WAITING", "PAUSED", "REVIEW_REQUIRED",
              "SUCCEEDED", "FAILED", "CANCELLED"}
NodeStatus == {"READY", "RUNNING", "WAITING", "SUCCEEDED", "FAILED",
               "CANCELLED", "SKIPPED", "REVIEW_REQUIRED"}
ReadyStatus == {"READY", "CLAIMED", "WAITING", "DONE", "CANCELLED"}
AttemptStatus == {"RUNNING", "SUCCEEDED", "FAILED", "CANCELLED", "STALE"}
WaitStatus == {"WAITING", "RESOLVED", "EXPIRED", "CANCELLED"}
Branches == {<<>>} \cup {<<n>> : n \in Nodes} \cup (NodeRuns \X Nodes)

Attempt == [worker : Workers \cup {NoWorker}, status : AttemptStatus \cup {"NONE"},
            expired : BOOLEAN, revoked : BOOLEAN]
NoAttempt == [worker |-> NoWorker, status |-> "NONE", expired |-> FALSE, revoked |-> FALSE]

Final == {"SUCCEEDED", "FAILED", "CANCELLED"}
LiveReady == {"READY", "CLAIMED", "WAITING"}

(* Sources of a checkpoint that no attempt wrote. *)
NoSource == <<>>

Idle == [op |-> "idle", row |-> <<Entry, 1>>, fence |-> 0, seen |-> {}]
LeaseCalls == {"heartbeat", "checkpoint", "complete", "fail", "revoke"}
Session ==
    [op : {"idle", "claim", "retry", "skip", "force"}, row : NodeRuns,
     fence : {0}, seen : SUBSET NodeRuns]
    \cup [op : LeaseCalls \cup {"reassign"}, row : NodeRuns, fence : Fences, seen : {{}}]

NoReap == [active |-> FALSE, attempts |-> {}, waits |-> {}]

(* The type invariant: every table holds values its CHECK constraints allow. *)
TypeOK ==
    /\ run \in RunStatus
    /\ nodeStatus \in [NodeRuns -> NodeStatus \cup {"NONE"}]
    /\ ident \in [NodeRuns -> [iter : 0..MaxIter, branch : Branches]]
    /\ out \in [NodeRuns -> 0..MaxLog]
    /\ readyStatus \in [NodeRuns -> ReadyStatus \cup {"NONE"}]
    /\ att \in [NodeRuns -> [Fences -> Attempt]]
    /\ log \in Seq((NodeRuns \X Fences) \cup {NoSource}) /\ Len(log) <= MaxLog
    /\ joins \in [Nodes -> [inputs : SUBSET Nodes, committed : BOOLEAN]]
    /\ waits \in [NodeRuns -> WaitStatus \cup {"NONE"}]
    /\ ws \in [Workers -> Session]
    /\ os \in [Operators -> Session]
    /\ rs \in [active : BOOLEAN, attempts : SUBSET (NodeRuns \X Fences),
               waits : SUBSET NodeRuns]

-----------------------------------------------------------------------------
(* create_run: the entry node run, ready at once or held back by start_paused *)

Init ==
    /\ run \in {"RUNNING", "PAUSED"}
    /\ LET start == IF run = "PAUSED" THEN "WAITING" ELSE "READY" IN
       /\ nodeStatus = [x \in NodeRuns |-> IF x = <<Entry, 1>> THEN start ELSE "NONE"]
       /\ readyStatus = nodeStatus
    /\ ident = [x \in NodeRuns |-> [iter |-> 0, branch |-> <<>>]]
    /\ out = [x \in NodeRuns |-> 0]
    /\ att = [x \in NodeRuns |-> [f \in Fences |-> NoAttempt]]
    /\ log = <<>>
    /\ joins = [n \in Nodes |-> [inputs |-> {}, committed |-> FALSE]]
    /\ waits = [x \in NodeRuns |-> "NONE"]
    /\ ws = [w \in Workers |-> Idle]
    /\ os = [o \in Operators |-> Idle]
    /\ rs = NoReap

-----------------------------------------------------------------------------
(* Rows *)

Exists(x) == nodeStatus[x] # "NONE"
Running(x, f) == att[x][f].status = "RUNNING"

(* Fencing tokens handed out for x; the next one is MAX + 1. *)
Fenced(x) == {f \in Fences : att[x][f].status # "NONE"}

(* _verify_lease *)
LeaseUnchecked(x, f) == TRUE
LeaseValid(x, f) == Running(x, f) /\ ~att[x][f].revoked /\ ~att[x][f].expired

(* The conditional updates a claim and a completion must win.  The first is *)
(* the claim barrier on the ready row, followed by the node row.            *)
ClaimableAsRead(x) == TRUE
Claimable(x) == readyStatus[x] = "READY" /\ nodeStatus[x] = "READY"

CommitsUnderLease(x, f) == LeaseValid(x, f)
Commits(x, f) == LeaseValid(x, f) /\ nodeStatus[x] = "RUNNING"

(* What updates of single rows leave behind.  An attempt ends together with *)
(* its lease token.                                                         *)
Ended(a, status) == [a EXCEPT !.status = status, !.revoked = TRUE]
Lapsed(a) == [a EXCEPT !.expired = TRUE]
Renewed(a) == [a EXCEPT !.expired = FALSE]

FencedAlways(status) == "STALE"
FencedStatus(status) == IF status = "RUNNING" THEN "STALE" ELSE status

RequeuedAlways(status) == "READY"
Requeued(status) == IF status \in {"CLAIMED", "WAITING"} THEN "READY" ELSE status

StillClaimed(status) == status
Recovered(status) == IF status = "CLAIMED" THEN "READY" ELSE status

ClosedIfClaimed(status) == IF status = "CLAIMED" THEN "DONE" ELSE status
Closed(status) == IF status \in LiveReady THEN "DONE" ELSE status

RestartedAlways == "RUNNING"
Restarted == IF run \in {"CANCELLED", "SUCCEEDED"} THEN run ELSE "RUNNING"

(* The identity _insert_ready_tx gives the target t that x activates.  A    *)
(* Join takes its join key as branch, a fan-out opens one branch per edge.  *)
Identity(x, chosen, t) ==
    [iter |-> ident[x].iter + (IF Plan[x[1]].cyclic /\ Plan[t].cyclic THEN 1 ELSE 0),
     branch |-> IF IsJoin(t) THEN <<t>>
                ELSE IF ident[x].branch # <<>> THEN ident[x].branch
                ELSE IF chosen # {t} THEN <<x, t>> ELSE <<>>]

Same(t, id) == {y \in NodeRuns : y[1] = t /\ Exists(y) /\ ident[y] = id}

NeverReused(t, id) == {}
(* The row _insert_ready_tx finds and reuses (a set of at most one). *)
Reused(t, id) ==
    LET live == {y \in Same(t, id) : readyStatus[y] \in LiveReady}
    IN IF live = {} THEN {} ELSE {CHOOSE y \in live : TRUE}

(* The next unused row of node key t; empty when the bound is reached. *)
Fresh(t) ==
    {y \in NodeRuns : y[1] = t /\ ~Exists(y) /\ \A g \in 1..(y[2] - 1) : Exists(<<t, g>>)}

(* The unique key (RUN_ID, NODE_KEY, ITERATION_NO, BRANCH_KEY) refuses the *)
(* row; a null BRANCH_KEY never conflicts.                                 *)
NeverClashes(t, id) == FALSE
Clashes(t, id) == Reused(t, id) = {} /\ id.branch # <<>> /\ Same(t, id) # {}

CanInsert(t, id) ==
    Reused(t, id) = {} => Fresh(t) # {} /\ id.iter <= MaxIter /\ ~Clashes(t, id)

-----------------------------------------------------------------------------
(* _activate_downstream_tx *)

JoinInputs(x, t) == joins[t].inputs \cup {x[1]}

(* A Join that was committed before still computes READY from its inputs. *)
Activated(x, chosen) ==
    {t \in chosen : IsJoin(t) => JoinReady(Plan[t].join, Cardinality(JoinInputs(x, t)))}

Inserted(x, chosen) ==
    UNION {Fresh(t) : t \in {u \in Activated(x, chosen) : Reused(u, Identity(x, chosen, u)) = {}}}

Subscribed(x, chosen) ==
    {y \in Inserted(x, chosen)
           \cup UNION {Reused(t, Identity(x, chosen, t)) : t \in Activated(x, chosen)} :
       Plan[y[1]].wait /\ waits[y] = "NONE"}

StartStatus(n) == IF Plan[n].wait THEN "WAITING" ELSE "READY"

RunAfterLastNode(x, chosen, status) ==
    IF status = "RUNNING" /\ \E t \in Activated(x, chosen) : Plan[t].wait
    THEN "WAITING" ELSE status
RunAfter(x, chosen, status) ==
    IF chosen = {}
    THEN IF status \in Final THEN status
         ELSE IF Plan[x[1]].exit THEN "SUCCEEDED" ELSE "REVIEW_REQUIRED"
    ELSE IF status = "RUNNING" /\ \E t \in Activated(x, chosen) : Plan[t].wait
         THEN "WAITING" ELSE status

(* Route x to the chosen targets, on top of what the caller's transaction  *)
(* already wrote to the run, node and ready rows.                          *)
Activate(x, chosen, status, nodes, readies) ==
    /\ \A t \in Activated(x, chosen) : CanInsert(t, Identity(x, chosen, t))
    /\ run' = RunAfter(x, chosen, status)
    /\ nodeStatus' = [y \in NodeRuns |->
           IF y \in Inserted(x, chosen) THEN StartStatus(y[1]) ELSE nodes[y]]
    /\ readyStatus' = [y \in NodeRuns |->
           IF y \in Inserted(x, chosen) THEN StartStatus(y[1]) ELSE readies[y]]
    /\ ident' = [y \in NodeRuns |->
           IF y \in Inserted(x, chosen) THEN Identity(x, chosen, y[1]) ELSE ident[y]]
    /\ waits' = [y \in NodeRuns |->
           IF y \in Subscribed(x, chosen) THEN "WAITING" ELSE waits[y]]
    /\ joins' = [t \in Nodes |->
           IF t \in chosen /\ IsJoin(t) /\ ~joins[t].committed
           THEN [inputs |-> JoinInputs(x, t), committed |-> t \in Activated(x, chosen)]
           ELSE joins[t]]

NoRouting(status, nodes, readies) ==
    /\ run' = status
    /\ nodeStatus' = nodes
    /\ readyStatus' = readies
    /\ UNCHANGED <<ident, waits, joins>>

(* _write_checkpoint_tx; (RUN_ID, SEQ_NO) is unique, so writers of one Run  *)
(* are serialised and a number is never reused.                             *)
LastSeq == Len(log)
NextSeq == Len(log) + 1

WriteCheckpoint(source) == Len(log) < MaxLog /\ log' = Append(log, source)

-----------------------------------------------------------------------------
(* Worker calls *)

Begin(w, op, x, f) ==
    ws' = [ws EXCEPT ![w] = [op |-> op, row |-> x, fence |-> f, seen |-> {}]]

Done(w) == ws' = [ws EXCEPT ![w] = Idle]

(* claim_ready reads its candidates, runnable rows of a RUNNING Run. *)
ClaimRead(w) ==
    LET seen == {x \in NodeRuns : readyStatus[x] = "READY"} IN
    /\ ws[w].op = "idle"
    /\ run = "RUNNING" /\ seen # {}
    /\ ws' = [ws EXCEPT ![w] = [op |-> "claim", row |-> <<Entry, 1>>, fence |-> 0, seen |-> seen]]
    /\ UNCHANGED <<rows, os, rs>>

(* Candidates past their deadline, without an executor or with invalid      *)
(* input go to review in the transaction of the claim.                      *)
Rejections(w) == IF "reject" \in WorkerOps THEN SUBSET ws[w].seen ELSE {{}}

Rejected(bad, status, to) == [x \in NodeRuns |->
    IF x \in bad /\ status[x] = "READY" THEN to ELSE status[x]]

RunOfRejected(bad) == IF bad # {} /\ run = "RUNNING" THEN "REVIEW_REQUIRED" ELSE run

(* No candidate is left, or the claim barrier of the one chosen was lost. *)
ClaimNone(w) ==
    /\ ws[w].op = "claim"
    /\ \E bad \in Rejections(w) \ {{}} :
         /\ readyStatus' = Rejected(bad, readyStatus, "CANCELLED")
         /\ nodeStatus' = Rejected(bad, nodeStatus, "REVIEW_REQUIRED")
         /\ run' = RunOfRejected(bad)
    /\ Done(w)
    /\ UNCHANGED <<ident, out, att, log, joins, waits, os, rs>>

(* The fence and the attempt follow under the lock of the ready row; the    *)
(* status of the Run is not read again.                                     *)
ClaimCommit(w) ==
    /\ ws[w].op = "claim"
    /\ \E bad \in Rejections(w) : \E x \in ws[w].seen \ bad, f \in Fences :
         /\ Claimable(x)
         /\ Fenced(x) = 1..(f - 1)
         /\ readyStatus' = [Rejected(bad, readyStatus, "CANCELLED") EXCEPT ![x] = "CLAIMED"]
         /\ nodeStatus' = [Rejected(bad, nodeStatus, "REVIEW_REQUIRED") EXCEPT ![x] = "RUNNING"]
         /\ att' = [att EXCEPT ![x][f] =
                [worker |-> w, status |-> "RUNNING", expired |-> FALSE, revoked |-> FALSE]]
         /\ run' = RunOfRejected(bad)
    /\ Done(w)
    /\ UNCHANGED <<ident, out, log, joins, waits, os, rs>>

(* The claim won the row but the call budget of the Run is spent. *)
ClaimOverBudget(w) ==
    /\ ws[w].op = "claim" /\ "budget" \in WorkerOps
    /\ \E bad \in Rejections(w) : \E x \in ws[w].seen \ bad :
         /\ readyStatus[x] = "READY"
         /\ readyStatus' = [Rejected(bad, readyStatus, "CANCELLED") EXCEPT ![x] = "WAITING"]
         /\ nodeStatus' = Rejected(bad, nodeStatus, "REVIEW_REQUIRED")
    /\ run' = IF run \in Final THEN run ELSE "REVIEW_REQUIRED"
    /\ Done(w)
    /\ UNCHANGED <<ident, out, att, log, joins, waits, os, rs>>

(* A lease runs out. *)
Expire(x, f) ==
    /\ Running(x, f) /\ ~att[x][f].expired
    /\ att' = [att EXCEPT ![x][f] = Lapsed(@)]
    /\ UNCHANGED <<run, nodeStatus, ident, out, readyStatus, log, joins, waits, ws, os, rs>>

(* The lease is verified in a transaction of its own before the call acts. *)
Verify(w, op, x, f) ==
    /\ ws[w].op = "idle" /\ op \in WorkerOps
    /\ att[x][f].worker = w /\ LeaseValid(x, f)
    /\ Begin(w, op, x, f)
    /\ UNCHANGED <<rows, os, rs>>

HeartbeatCommit(w) ==
    LET x == ws[w].row  f == ws[w].fence IN
    /\ ws[w].op = "heartbeat" /\ Running(x, f)
    /\ att' = [att EXCEPT ![x][f] = Renewed(@)]
    /\ Done(w)
    /\ UNCHANGED <<run, nodeStatus, ident, out, readyStatus, log, joins, waits, os, rs>>

(* graph_worker.checkpoint: append_checkpoint does not look at the lease. *)
CheckpointCommit(w) ==
    /\ ws[w].op = "checkpoint"
    /\ WriteCheckpoint(<<ws[w].row, ws[w].fence>>)
    /\ Done(w)
    /\ UNCHANGED <<run, nodeStatus, ident, out, readyStatus, att, joins, waits, os, rs>>

(* graph_worker.revoke *)
RevokeCommit(w) ==
    /\ ws[w].op = "revoke"
    /\ att' = [att EXCEPT ![ws[w].row][ws[w].fence] = Ended(@, @.status)]
    /\ Done(w)
    /\ UNCHANGED <<run, nodeStatus, ident, out, readyStatus, log, joins, waits, os, rs>>

(* complete_attempt, with attempt and lease row locked and checked again.  *)
(* Downstream work is activated unless the Run is stopped or over budget.  *)
CompleteCommit(w) ==
    LET x == ws[w].row  f == ws[w].fence
        nodes == [nodeStatus EXCEPT ![x] = "SUCCEEDED"]
        readies == [readyStatus EXCEPT ![x] = IF @ = "CLAIMED" THEN "DONE" ELSE @] IN
    /\ ws[w].op = "complete"
    /\ Commits(x, f)
    /\ WriteCheckpoint(<<x, f>>)
    /\ out' = [out EXCEPT ![x] = NextSeq]
    /\ att' = [att EXCEPT ![x][f] = Ended(@, "SUCCEEDED")]
    /\ \/ /\ run \notin {"CANCELLED", "PAUSED", "REVIEW_REQUIRED"}
          /\ \E chosen \in Plan[x[1]].routes : Activate(x, chosen, run, nodes, readies)
       \/ /\ run \in {"CANCELLED", "PAUSED", "REVIEW_REQUIRED"}
          /\ NoRouting(run, nodes, readies)
       \/ /\ "budget" \in WorkerOps
          /\ NoRouting(IF run \in Final THEN run ELSE "REVIEW_REQUIRED", nodes, readies)
    /\ Done(w)
    /\ UNCHANGED <<os, rs>>

(* fail_attempt: retried while the plan allows it, whatever became of the   *)
(* node or the Run in the meantime; otherwise node and Run end here.        *)
FailCommit(w) ==
    LET x == ws[w].row  f == ws[w].fence IN
    /\ ws[w].op = "fail" /\ Running(x, f)
    /\ att' = [att EXCEPT ![x][f] = Ended(@, "FAILED")]
    /\ \/ /\ Retries(x[1], Cardinality(Fenced(x)))
          /\ nodeStatus' = [nodeStatus EXCEPT ![x] = "READY"]
          /\ readyStatus' = [readyStatus EXCEPT ![x] = Requeued(@)]
          /\ run' = Restarted
       \/ /\ ~Retries(x[1], Cardinality(Fenced(x)))
          /\ \E uncertain \in BOOLEAN :
               /\ nodeStatus' = [nodeStatus EXCEPT ![x] = FailureStatus(uncertain)]
               /\ run' = IF run \in Final THEN run ELSE FailureStatus(uncertain)
          /\ UNCHANGED readyStatus
    /\ Done(w)
    /\ UNCHANGED <<ident, out, log, joins, waits, os, rs>>

(* The call is refused, rolled back, or its process dies: no row changes. *)
WorkerReturn(w) ==
    /\ ws[w].op # "idle"
    /\ Done(w)
    /\ UNCHANGED <<rows, os, rs>>

-----------------------------------------------------------------------------
(* reap_expired_leases: rows are selected first and fenced afterwards *)

ReapRead ==
    LET lost == {a \in NodeRuns \X Fences : Running(a[1], a[2]) /\ att[a[1]][a[2]].expired} IN
    /\ ~rs.active
    /\ \E late \in SUBSET {x \in NodeRuns : waits[x] = "WAITING" /\ Plan[x[1]].timeout} :
         /\ lost # {} \/ late # {}
         /\ rs' = [active |-> TRUE, attempts |-> lost, waits |-> late]
    /\ UNCHANGED <<rows, ws, os>>

(* Every row is updated only in the status it was selected for, except the *)
(* Run of a late wait, which fails whether or not the wait was still open. *)
ReapCommit ==
    LET stale == {a \in rs.attempts : Running(a[1], a[2])}
        nodes == {a[1] : a \in stale} IN
    /\ rs.active
    /\ att' = [x \in NodeRuns |-> [f \in Fences |->
           IF <<x, f>> \in stale THEN Ended(att[x][f], "STALE") ELSE att[x][f]]]
    /\ nodeStatus' = [x \in NodeRuns |->
           IF x \in nodes /\ nodeStatus[x] = "RUNNING" THEN "READY"
           ELSE IF x \in rs.waits /\ nodeStatus[x] = "WAITING" THEN "FAILED"
           ELSE nodeStatus[x]]
    /\ readyStatus' = [x \in NodeRuns |->
           IF x \in nodes THEN Recovered(readyStatus[x])
           ELSE IF x \in rs.waits /\ readyStatus[x] = "WAITING" THEN "DONE"
           ELSE readyStatus[x]]
    /\ waits' = [x \in NodeRuns |->
           IF x \in rs.waits /\ waits[x] = "WAITING" THEN "EXPIRED" ELSE waits[x]]
    /\ run' = IF rs.waits # {} /\ run \in {"WAITING", "RUNNING"} THEN "FAILED" ELSE run
    /\ rs' = NoReap
    /\ UNCHANGED <<ident, out, log, joins, ws, os>>

ReapReturn == rs.active /\ rs' = NoReap /\ UNCHANGED <<rows, ws, os>>

-----------------------------------------------------------------------------
(* Controls whose first statement is a conditional update of the Run *)

Pause ==
    /\ "pause" \in Controls
    /\ run \in {"RUNNING", "WAITING"}
    /\ run' = "PAUSED"
    /\ readyStatus' = [x \in NodeRuns |->
           IF readyStatus[x] = "READY" THEN "WAITING" ELSE readyStatus[x]]
    /\ UNCHANGED <<nodeStatus, ident, out, att, log, joins, waits, ws, os, rs>>

(* Rows that wait for an event are released together with the paused ones. *)
Resume ==
    /\ "resume" \in Controls
    /\ run = "PAUSED"
    /\ run' = "RUNNING"
    /\ readyStatus' = [x \in NodeRuns |->
           IF readyStatus[x] = "WAITING" THEN "READY" ELSE readyStatus[x]]
    /\ nodeStatus' = [x \in NodeRuns |->
           IF nodeStatus[x] = "WAITING" THEN "READY" ELSE nodeStatus[x]]
    /\ UNCHANGED <<ident, out, att, log, joins, waits, ws, os, rs>>

Cancel ==
    /\ "cancel" \in Controls
    /\ run \notin Final
    /\ run' = "CANCELLED"
    /\ readyStatus' = [x \in NodeRuns |->
           IF readyStatus[x] \in LiveReady THEN "CANCELLED" ELSE readyStatus[x]]
    /\ nodeStatus' = [x \in NodeRuns |->
           IF nodeStatus[x] \in {"READY", "WAITING", "RUNNING"} THEN "CANCELLED"
           ELSE nodeStatus[x]]
    /\ att' = [x \in NodeRuns |-> [f \in Fences |->
           IF att[x][f].status = "NONE" THEN att[x][f]
           ELSE Ended(att[x][f], IF Running(x, f) THEN "CANCELLED" ELSE att[x][f].status)]]
    /\ waits' = [x \in NodeRuns |-> IF waits[x] = "WAITING" THEN "CANCELLED" ELSE waits[x]]
    /\ UNCHANGED <<ident, out, log, joins, ws, os, rs>>

AnyWaitOpen(x) == \A y \in NodeRuns : waits[y] # "WAITING"
IsLastWait(x) == \A y \in NodeRuns \ {x} : waits[y] # "WAITING"

(* resolve_waits: an event or a human answers the open subscription of x. *)
ResolveWait(x) ==
    /\ "event" \in Controls
    /\ waits[x] = "WAITING"
    /\ waits' = [waits EXCEPT ![x] = "RESOLVED"]
    /\ WriteCheckpoint(NoSource)
    /\ nodeStatus' = [nodeStatus EXCEPT ![x] = IF @ = "WAITING" THEN "READY" ELSE @]
    /\ readyStatus' = [readyStatus EXCEPT ![x] = IF @ = "WAITING" THEN "READY" ELSE @]
    /\ run' = IF run = "WAITING" /\ IsLastWait(x) THEN "RUNNING" ELSE run
    /\ UNCHANGED <<ident, out, att, joins, ws, os, rs>>

-----------------------------------------------------------------------------
(* Controls that decide on a row they read without locking it *)

OpBegin(o, op, x, f) ==
    /\ op \in Controls /\ os[o].op = "idle"
    /\ os' = [os EXCEPT ![o] = [op |-> op, row |-> x, fence |-> f, seen |-> {}]]
    /\ UNCHANGED <<rows, ws, rs>>

OpDone(o) == os' = [os EXCEPT ![o] = Idle]

RetryRead(o, x) ==
    nodeStatus[x] \in {"FAILED", "REVIEW_REQUIRED"} /\ OpBegin(o, "retry", x, 0)

(* retry_node: the node is ready again; when its row is done another node  *)
(* run of iteration 0 is used or inserted.                                 *)
RetryWrite(o) ==
    LET x == os[o].row
        id == [iter |-> 0, branch |-> <<>>]
        new == IF readyStatus[x] = "DONE" /\ Reused(x[1], id) = {} THEN Fresh(x[1]) ELSE {} IN
    /\ os[o].op = "retry"
    /\ readyStatus[x] = "DONE" => CanInsert(x[1], id)
    /\ nodeStatus' = [y \in NodeRuns |-> IF y = x \/ y \in new THEN "READY" ELSE nodeStatus[y]]
    /\ readyStatus' = [y \in NodeRuns |->
           IF (y = x /\ readyStatus[x] # "DONE") \/ y \in new THEN "READY" ELSE readyStatus[y]]
    /\ ident' = [y \in NodeRuns |-> IF y \in new THEN id ELSE ident[y]]
    /\ run' = Restarted
    /\ OpDone(o)
    /\ UNCHANGED <<out, att, log, joins, waits, ws, rs>>

ReassignRead(o, x, f) == Running(x, f) /\ OpBegin(o, "reassign", x, f)

(* reassign_attempt: the attempt is fenced if it still runs; its node and   *)
(* ready row are released even when it does not.                            *)
ReassignWrite(o) ==
    LET x == os[o].row  f == os[o].fence IN
    /\ os[o].op = "reassign"
    /\ att' = [att EXCEPT ![x][f] = Ended(@, FencedStatus(@.status))]
    /\ readyStatus' = [readyStatus EXCEPT ![x] = Requeued(@)]
    /\ nodeStatus' = [nodeStatus EXCEPT ![x] =
           IF @ \in {"RUNNING", "WAITING"} THEN "READY" ELSE @]
    /\ OpDone(o)
    /\ UNCHANGED <<run, ident, out, log, joins, waits, ws, rs>>

SkipRead(o, x) ==
    /\ Exists(x) /\ nodeStatus[x] \notin {"SUCCEEDED", "SKIPPED", "CANCELLED"}
    /\ OpBegin(o, "skip", x, 0)

(* skip_node: an attempt under way is left alone, and downstream work is   *)
(* activated whatever the status of the Run.                               *)
SkipWrite(o) ==
    LET x == os[o].row
        nodes == [nodeStatus EXCEPT ![x] = "SKIPPED"]
        readies == [readyStatus EXCEPT ![x] = Closed(@)] IN
    /\ os[o].op = "skip"
    /\ WriteCheckpoint(NoSource)
    /\ out' = [out EXCEPT ![x] = NextSeq]
    /\ \E chosen \in Plan[x[1]].routes : Activate(x, chosen, run, nodes, readies)
    /\ OpDone(o)
    /\ UNCHANGED <<att, ws, rs>>

ForceRead(o, x) ==
    /\ nodeStatus[x] \in {"READY", "WAITING", "FAILED", "RUNNING"}
    /\ OpBegin(o, "force", x, 0)

(* force_route: along one edge, or along none when the edge is unknown.  The *)
(* node run itself is left as it is.                                         *)
ForceWrite(o) ==
    LET x == os[o].row IN
    /\ os[o].op = "force"
    /\ IF log = <<>> THEN WriteCheckpoint(NoSource) ELSE UNCHANGED log
    /\ \E chosen \in {{t} : t \in Targets(x[1])} \cup {{}} :
         Activate(x, chosen, run, nodeStatus, readyStatus)
    /\ OpDone(o)
    /\ UNCHANGED <<out, att, ws, rs>>

OpReturn(o) == os[o].op # "idle" /\ OpDone(o) /\ UNCHANGED <<rows, ws, rs>>

-----------------------------------------------------------------------------

WorkerStep(w) ==
    \/ ClaimRead(w) \/ ClaimNone(w) \/ ClaimCommit(w) \/ ClaimOverBudget(w)
    \/ \E op \in LeaseCalls, x \in NodeRuns, f \in Fences : Verify(w, op, x, f)
    \/ HeartbeatCommit(w) \/ CheckpointCommit(w) \/ RevokeCommit(w)
    \/ CompleteCommit(w) \/ FailCommit(w)
    \/ WorkerReturn(w)

OperatorStep(o) ==
    \/ \E x \in NodeRuns : RetryRead(o, x) \/ SkipRead(o, x) \/ ForceRead(o, x)
    \/ \E x \in NodeRuns, f \in Fences : ReassignRead(o, x, f)
    \/ RetryWrite(o) \/ ReassignWrite(o) \/ SkipWrite(o) \/ ForceWrite(o)
    \/ OpReturn(o)

Next ==
    \/ \E w \in Workers : WorkerStep(w)
    \/ \E x \in NodeRuns, f \in Fences : Expire(x, f)
    \/ ReapRead \/ ReapCommit \/ ReapReturn
    \/ Pause \/ Resume \/ Cancel
    \/ \E x \in NodeRuns : ResolveWait(x)
    \/ \E o \in Operators : OperatorStep(o)

Spec == Init /\ [][Next]_vars

(* Fairness, for a Run in which leases are lost finitely often: the last    *)
(* fence within the bound goes to a worker that keeps polling and finishes  *)
(* what it claims before its lease runs out.  The other workers may stall   *)
(* for good.  Their leases expire, and recover_runtime is run repeatedly.   *)
LastFenceIsGood(good) ==
    \A x \in NodeRuns : att'[x][MaxFence].worker \in {good, NoWorker}
                         /\ ~att'[x][MaxFence].expired

FairTo(good) ==
    /\ WF_vars(ClaimRead(good)) /\ SF_vars(ClaimCommit(good))
    /\ \A x \in NodeRuns, f \in Fences :
         /\ SF_vars(Verify(good, "complete", x, f))
         /\ WF_vars(Expire(x, f))
    /\ SF_vars(CompleteCommit(good))
    /\ WF_vars(WorkerReturn(good))
    /\ WF_vars(ReapRead) /\ SF_vars(ReapCommit)

-----------------------------------------------------------------------------
(* Safety *)

(* A node run is committed by at most one of its attempts, whatever leases *)
(* expire, workers stall or operators do: complete_attempt's conditional   *)
(* updates against the node and ready rows.                                *)
CommitOnce ==
    \A x \in NodeRuns : \A f, g \in Fences :
        att[x][f].status = "SUCCEEDED" /\ att[x][g].status = "SUCCEEDED" => f = g

(* An attempt that was fenced, failed, cancelled or committed keeps that   *)
(* outcome: a call that verified its lease before cannot revive it.        *)
OutcomeIsFinal ==
    [][\A x \in NodeRuns, f \in Fences :
        att[x][f].status \notin {"NONE", "RUNNING"}
            => att'[x][f].status = att[x][f].status]_vars

(* Once a node run is committed its ready row never returns to the claim   *)
(* queue, so no second worker repeats the work: claim, retry, resume and   *)
(* reassign all leave a DONE row alone.                                    *)
CommittedIsNotRequeued ==
    \A x \in NodeRuns, f \in Fences :
        att[x][f].status = "SUCCEEDED" => readyStatus[x] = "DONE"

(* What makes a commit unique, whatever operators do: the three tables      *)
(* agree about a node run.  One that executes holds its claim, one that was *)
(* committed has left the queue, one that was never activated has nothing.  *)
TablesAgree(x) ==
    /\ nodeStatus[x] = "NONE" =>
           readyStatus[x] = "NONE" /\ \A f \in Fences : att[x][f].status = "NONE"
    /\ nodeStatus[x] = "RUNNING" => readyStatus[x] = "CLAIMED"
    /\ \A f \in Fences : att[x][f].status = "SUCCEEDED" => readyStatus[x] = "DONE"
    /\ \A f, g \in Fences :
           att[x][f].status = "SUCCEEDED" /\ att[x][g].status = "SUCCEEDED" => f = g

TablesAgreeOnAll == \A x \in NodeRuns : TablesAgree(x)

(* invariant_scan "conflicting_current_attempts": one attempt at a time. *)
OneRunning ==
    \A x \in NodeRuns : \A f, g \in Fences : Running(x, f) /\ Running(x, g) => f = g

(* The attempt that commits holds the highest fence handed out: a stalled  *)
(* worker cannot commit once its work was claimed again.                   *)
CommitIsNewest ==
    \A x \in NodeRuns : \A f, g \in Fences :
        att[x][f].status = "SUCCEEDED" /\ g > f => att[x][g].status = "NONE"

(* Node runs are leased work: three tables, stale reads, the reaper and the *)
(* operators implement one counter of claims and one winner.                *)
Winner(x) == IF \E f \in Fences : att[x][f].status = "SUCCEEDED"
             THEN CHOOSE f \in Fences : att[x][f].status = "SUCCEEDED" ELSE 0
NodeWork == INSTANCE LeasedWork WITH
    Work <- NodeRuns, MaxClaims <- MaxFence,
    claims <- [x \in NodeRuns |-> Cardinality(Fenced(x))],
    winner <- [x \in NodeRuns |-> Winner(x)]
NodesAreLeasedWork == NodeWork!WorkSpec

(* Every row of the claim queue can be claimed.  A READY row over a node   *)
(* run in another status makes claim_ready raise for each worker that      *)
(* picks it, and no row behind it is ever reached.                         *)
QueueIsClaimable ==
    \A x \in NodeRuns : readyStatus[x] = "READY" => nodeStatus[x] = "READY"

(* cancel_run leaves no worker with authority: no attempt runs in a        *)
(* cancelled Run, a claim under way included.                              *)
CancelFences ==
    run = "CANCELLED" => \A x \in NodeRuns, f \in Fences : ~Running(x, f)

(* A cancelled Run stays cancelled and a successful one successful: no     *)
(* failure, retry, wait or review moves it.                                *)
OutcomeOfRunIsFinal ==
    [][(run \in {"CANCELLED", "SUCCEEDED"}) => run' = run]_vars

(* How many branches the definition of a Join asks for. *)
Demanded(spec, n) ==
    CASE spec.strategy = "ALL"    -> n = spec.expected
      [] spec.strategy = "N_OF_M" -> n >= spec.required
      [] spec.strategy = "QUORUM" -> n >= spec.required /\ 2 * n > spec.expected
      [] OTHER                    -> n # 0

(* A Join target is entered only when enough of its incoming branches have *)
(* a committed node run: no branch is counted twice, or before it commits. *)
JoinWaitsForBranches ==
    \A t \in Nodes : IsJoin(t) /\ (\E y \in NodeRuns : y[1] = t /\ Exists(y)) =>
        Demanded(Plan[t].join,
            Cardinality({n \in Nodes : t \in Targets(n) /\
                \E x \in NodeRuns : x[1] = n /\ nodeStatus[x] = "SUCCEEDED"}))

(* A Join whose branches have all committed has been entered: none of their *)
(* inputs was lost, in whatever order the branches finish, fail or restart. *)
JoinIsReleased ==
    \A t \in Nodes :
        /\ IsJoin(t)
        /\ \A n \in Nodes : t \in Targets(n) =>
               \E x \in NodeRuns : x[1] = n /\ nodeStatus[x] = "SUCCEEDED"
        => \E y \in NodeRuns : y[1] = t /\ Exists(y)

(* Repeated activation, by a late branch, a skip or a forced route, never   *)
(* makes a second node run of a Join in one iteration.                      *)
JoinEntersOnce ==
    \A x, y \in NodeRuns :
        IsJoin(x[1]) /\ x[1] = y[1] /\ Exists(x) /\ Exists(y) /\ ident[x] = ident[y] => x = y

(* A Join is entered once: when its branches have committed, never twice.    *)
JoinFiresOnce == JoinIsReleased /\ JoinEntersOnce

(* A replay of a committed completion returns the checkpoint that attempt   *)
(* wrote (_existing_completion_result_tx reads it through the node run), so *)
(* nothing later may move the node run's output.                            *)
ReplayIsExact ==
    \A x \in NodeRuns, f \in Fences :
        att[x][f].status = "SUCCEEDED" => out[x] \in DOMAIN log /\ log[out[x]] = <<x, f>>

(* A WAITING Run has an open subscription: resolve_waits finds the last one *)
(* and restarts the Run.  Without one nothing would, as claim_ready only    *)
(* looks at RUNNING Runs.                                                   *)
WaitingRunHasWait == run = "WAITING" => \E x \in NodeRuns : waits[x] = "WAITING"

(* Activating a node again, by a retry, a loop or a second route, never      *)
(* queues work twice that is already queued or under way.                   *)
WorkIsQueuedOnce ==
    \A x, y \in NodeRuns :
        /\ x[1] = y[1] /\ Exists(x) /\ Exists(y) /\ ident[x] = ident[y]
        /\ readyStatus[x] \in LiveReady /\ readyStatus[y] \in LiveReady
        => x = y

(* A RUNNING Run has a row a worker can claim, is working on or waits for:  *)
(* otherwise nothing will ever move it again.                               *)
RunningHasWork == run = "RUNNING" => \E x \in NodeRuns : readyStatus[x] \in LiveReady

(* Neither a RUNNING nor a WAITING Run is stuck: both.                        *)
RunHasReason == RunningHasWork /\ WaitingRunHasWait

-----------------------------------------------------------------------------
(* Liveness *)

(* A RUNNING Run comes to an end or to a human, whichever workers stall and *)
(* wherever their leases are lost: reaped work is claimed again.            *)
RunSettles == run = "RUNNING" ~> run \in Final \cup {"REVIEW_REQUIRED"}

-----------------------------------------------------------------------------
(* What the documents promise and the code does not keep *)

(* invariant_scan "terminal_run_active_nodes": a Run that ended has no node *)
(* run left in an active status.                                            *)
TerminalRunIsIdle ==
    run \in Final => \A x \in NodeRuns : nodeStatus[x] \notin {"READY", "RUNNING", "WAITING"}

(* A non-idempotent node is not executed again without a human decision.    *)
NonIdempotentNotReplayed ==
    \A x \in NodeRuns : Plan[x[1]].effect = "NON_IDEMPOTENT" => Fenced(x) \subseteq {1}
=============================================================================
