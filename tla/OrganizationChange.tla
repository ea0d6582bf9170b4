------------------------- MODULE OrganizationChange -------------------------
(***************************************************************************)
(* Changes of the organization tree (organization_api.py): a change set is  *)
(* drafted, validated, submitted, and published or rejected, or withdrawn.  *)
(*                                                                         *)
(* Submission, withdrawal, decision and publication are transactions that  *)
(* lock the change set.  Append, undo, redo and validation read in one      *)
(* statement and write in a later one, and approval reads its request       *)
(* before its transaction: such a call may be overtaken by others between   *)
(* the two, one call at a time.                                             *)
(* Operations are without an expected row version, and units carry the      *)
(* people and agents placed in them.  Approvals are enabled, as in the      *)
(* Enterprise edition.                                                       *)
(***************************************************************************)
EXTENDS Integers, Sequences, FiniteSets, SequencesExt, FiniteSetsExt

CONSTANTS
    Staff,          \* who drafts and decides, with scope over all units
    Emergency,      \* of those, the protected bootstrap administrators
    MaxChanges,     \* bound: rows of CX_ORG_CHANGESETS
    MaxOvertaken,   \* bound: the first change sets, whose calls may be overtaken
    Units,          \* CX_ORGANIZATIONS, present or not yet created
    FirstTree,      \* the parent of every unit that is there at first
    Null,           \* no parent, no decider
    Operations,     \* semantic operations: [kind, target, parent]
    Workers, Bots,  \* principals and agents placed in a unit
    HomeOf,         \* the unit of a worker or bot
    OwnerOf,        \* the worker with an agent relationship to a bot
    MaxOperations,  \* MAX_DRAFT_OPERATIONS
    MaxPublished,   \* bound: publications
    MaxRows,        \* bound: rows of CX_ORG_CHANGE_OPERATIONS
    MaxEffort       \* bound: those and rows of APPROVAL_REQUESTS together

ASSUME OrganizationAssumption ==
    /\ IsFiniteSet(Units) /\ Emergency \subseteq Staff /\ Null \notin Units \cup Staff
    /\ FirstTree \in [DOMAIN FirstTree -> Units \cup {Null}] /\ DOMAIN FirstTree \subseteq Units
    /\ Operations \subseteq [kind : {"CREATE", "RENAME", "DOMAIN", "MOVE", "RETIRE"},
                             target : Units, parent : Units \cup {Null}]
    /\ HomeOf \in [Workers \cup Bots -> DOMAIN FirstTree]
    /\ MaxChanges \in Nat /\ MaxOvertaken \in Nat /\ MaxOperations \in Nat /\ MaxPublished \in Nat \ {0}
    /\ MaxRows \in Nat /\ MaxEffort \in Nat

VARIABLES
    unit,           \* status and parent of every unit
    closure,        \* CX_ORGANIZATION_CLOSURE: ancestor and descendant
    version,        \* number of the CURRENT organization version
    changeSet,      \* CX_ORG_CHANGESETS with its operations
    approvals,      \* per change set: its APPROVAL_REQUESTS, oldest first
    publication,    \* history: per change set, what its publication applied
    slowCall,       \* what one caller read and has not yet acted on
    signedOut       \* workers and bots whose sessions and tokens the newest
                    \* publication made invalid

organizationVars ==
    <<unit, closure, version, changeSet, approvals, publication, slowCall, signedOut>>

ChangeSets == 1..MaxChanges    \* numbered as they are created
NoChange == [status |-> "none", base |-> 0, author |-> Null, ops |-> <<>>]
NotPublished == [ops |-> {}, approval |-> 0]
NothingRead == [step |-> "none"]
NotYetThere == [status |-> "none", parent |-> Null]

OrganizationTypeOK ==
    /\ unit \in [Units -> [status : {"none", "ACTIVE", "RETIRED"}, parent : Units \cup {Null}]]
    /\ closure \subseteq Units \X Units /\ version \in 1..MaxPublished
    /\ \A c \in ChangeSets :
         /\ changeSet[c].status \in {"none", "DRAFT", "VALIDATED", "PENDING_APPROVAL", "PUBLISHED",
                                     "CANCELLED", "REJECTED"}
         /\ changeSet[c].base \in 0..MaxPublished /\ changeSet[c].author \in Staff \cup {Null}
         /\ \A i \in DOMAIN changeSet[c].ops : changeSet[c].ops[i] \in [op : Operations, active : BOOLEAN]
         /\ \A i \in DOMAIN approvals[c] :
              approvals[c][i] \in [by : Staff, status : {"PENDING", "APPROVED", "REJECTED"},
                                   decider : Staff \cup {Null}]
         /\ publication[c].approval \in 0..Len(approvals[c])
    /\ slowCall.step \in {"none", "append", "undo", "redo", "validate", "approve"}
    /\ signedOut \subseteq Workers \cup Bots

-----------------------------------------------------------------------------
(* The tree and its closure *)

Living(tree) == {u \in Units : tree[u].status # "none"}

(* Pairs at distance k, one parent at a time.                                *)
Above(tree) ==
    LET at[k \in 0..Cardinality(Units)] ==
          IF k = 0 THEN {<<u, u>> : u \in Living(tree)}
          ELSE {<<tree[e[1]].parent, e[2]>> : e \in {f \in at[k - 1] : f[1] \in Living(tree)
                                                        /\ tree[f[1]].parent # Null}}
    IN at
(* _cycle_nodes: a walk upwards that does not end.                           *)
Cyclic(tree) == Above(tree)[Cardinality(Living(tree))] # {}
MissingParent(tree) == \E u \in Living(tree) : tree[u].parent \notin Living(tree) \cup {Null}
(* _rebuild_closure_tx                                                       *)
Rebuilt(tree) == UNION {Above(tree)[k] : k \in 0..Cardinality(Units)}

OnlyItself(u) == {u}
Subtree(u) == {e[2] : e \in {f \in closure : f[1] = u}}

(* _apply_operation_tx: the tree after one operation, if it applies.         *)
Applies(op, tree) ==
    CASE op.kind = "CREATE" -> tree[op.target].status = "none"
      [] op.kind = "RETIRE" -> tree[op.target].status = "ACTIVE"
      [] OTHER -> tree[op.target].status # "none"
ApplyOperation(op, tree) ==
    CASE op.kind = "CREATE" -> [tree EXCEPT ![op.target] = [status |-> "ACTIVE", parent |-> op.parent]]
      [] op.kind = "MOVE" -> [tree EXCEPT ![op.target].parent = op.parent]
      [] op.kind = "RETIRE" -> [tree EXCEPT ![op.target].status = "RETIRED"]
      [] OTHER -> tree
(* One row after the other; what was undone is left out.                     *)
ApplyAll(rows) ==
    LET after[k \in 0..Len(rows)] ==
          IF k = 0 THEN [ok |-> TRUE, tree |-> unit]
          ELSE LET op == rows[k].op
                   before == after[k - 1]
               IN IF rows[k].active
                  THEN [ok |-> before.ok /\ Applies(op, before.tree), tree |-> ApplyOperation(op, before.tree)]
                  ELSE before
    IN after[Len(rows)]

Structural(ops) == \E op \in ops : op.kind \in {"CREATE", "MOVE", "RETIRE"}
LowRisk(ops) == \A op \in ops : op.kind \in {"CREATE", "RENAME"}
Touched(ops) == UNION {Subtree(op.target) : op \in {o \in ops : o.kind \in {"MOVE", "RETIRE", "DOMAIN"}}}

FirstUnits == [u \in Units |-> IF u \in DOMAIN FirstTree
                               THEN [status |-> "ACTIVE", parent |-> FirstTree[u]] ELSE NotYetThere]
ASSUME FirstTreeAssumption == ~Cyclic(FirstUnits) /\ ~MissingParent(FirstUnits)

OrganizationInit ==
    /\ unit = FirstUnits
    /\ closure = Rebuilt(unit)
    /\ version = 1
    /\ changeSet = [c \in ChangeSets |-> NoChange]
    /\ approvals = [c \in ChangeSets |-> <<>>]
    /\ publication = [c \in ChangeSets |-> NotPublished]
    /\ slowCall = NothingRead
    /\ signedOut = {}

-----------------------------------------------------------------------------
(* The draft *)

Status(c, status) == changeSet[c].status = status
RowsOf(c) == changeSet[c].ops
DraftRows == MapThenSumSet(LAMBDA c : Len(RowsOf(c)), ChangeSets)
Effort == DraftRows + MapThenSumSet(LAMBDA c : Len(approvals[c]), ChangeSets)
ActiveAt(c) == {i \in DOMAIN RowsOf(c) : RowsOf(c)[i].active}
(* _operations *)
ActiveOps(c) == {RowsOf(c)[i].op : i \in ActiveAt(c)}

NoneSlow == slowCall = NothingRead
MayBeOvertaken(c) == NoneSlow /\ c <= MaxOvertaken
WritesChange(c, row) == changeSet' = [changeSet EXCEPT ![c] = row]

treeVars == <<unit, closure, version, publication, signedOut>>

CreateChangeSet(p, c) ==
    /\ Status(c, "none") /\ \A d \in 1..(c - 1) : ~Status(d, "none")
    /\ WritesChange(c, [status |-> "DRAFT", base |-> version, author |-> p, ops |-> <<>>])
    /\ UNCHANGED <<treeVars, approvals, slowCall>>

(* Each of these reads what it decides on, and then acts on it: at once, or   *)
(* after others were faster.                                                   *)
Appends(c, op) ==
    /\ Status(c, "DRAFT") /\ Cardinality(ActiveAt(c)) < MaxOperations
    /\ IF op.kind = "CREATE"
       THEN /\ unit[op.target].status = "none" /\ op.parent # op.target
            /\ \A i \in ActiveAt(c) : ~(RowsOf(c)[i].op.kind = "CREATE" /\ RowsOf(c)[i].op.target = op.target)
            /\ op.parent # Null => unit[op.parent].status # "none"
       ELSE unit[op.target].status # "none"
AppendCall(c, op) == [step |-> "append", change |-> c, op |-> op, at |-> Cardinality(ActiveAt(c)) + 1]

(* undo_operation and redo_operation: the last active, the first undone.      *)
UndoRows(c, step) == IF step = "undo" THEN ActiveAt(c) ELSE DOMAIN RowsOf(c) \ ActiveAt(c)
Undoes(c, step) == Status(c, "DRAFT") /\ UndoRows(c, step) # {}
UndoCall(c, step) ==
    [step |-> step, change |-> c,
     at |-> IF step = "undo" THEN Max(UndoRows(c, step)) ELSE Min(UndoRows(c, step))]

(* _proposed_parents applies what changes parents, whether or not it would.  *)
Proposed(rows) ==
    FoldLeft(LAMBDA tree, row : IF ~row.active \/ row.op.kind = "RETIRE" THEN tree
                                ELSE ApplyOperation(row.op, tree), unit, rows)
IsValid(c) ==
    LET rows == RowsOf(c)
        created == {i \in ActiveAt(c) : rows[i].op.kind = "CREATE"}
    IN /\ ActiveAt(c) # {} /\ changeSet[c].base = version
       /\ \A i, j \in created : rows[i].op.target = rows[j].op.target => i = j
       /\ \A i \in created : unit[rows[i].op.target].status = "none"
       /\ ~MissingParent(Proposed(rows)) /\ ~Cyclic(Proposed(rows))
Validates(c) == changeSet[c].status \in {"DRAFT", "VALIDATED", "PENDING_APPROVAL"}
ValidateCall(c) == [step |-> "validate", change |-> c, valid |-> IsValid(c)]

CallsOf(c) ==
    {AppendCall(c, op) : op \in {o \in Operations : Appends(c, o)}}
    \cup {UndoCall(c, step) : step \in {s \in {"undo", "redo"} : Undoes(c, s)}}
    \cup IF Validates(c) THEN {ValidateCall(c)} ELSE {}

(* The number is unique in its change set, undone operations included.       *)
RowAppended(call) ==
    /\ call.step = "append" /\ call.at > Len(RowsOf(call.change))
    /\ DraftRows < MaxRows /\ Effort < MaxEffort
    /\ changeSet' = [changeSet EXCEPT ![call.change].ops = Append(@, [op |-> call.op, active |-> TRUE])]
RowChanged(call) ==
    /\ call.step \in {"undo", "redo"}
    /\ changeSet' = [changeSet EXCEPT ![call.change].ops[call.at].active = call.step = "redo"]
StatusChanged(call) ==
    /\ call.step = "validate" /\ changeSet[call.change].status \in {"DRAFT", "VALIDATED"}
    /\ changeSet' = [changeSet EXCEPT ![call.change].status = IF call.valid THEN "VALIDATED" ELSE "DRAFT"]
Acts(call) == RowAppended(call) \/ RowChanged(call) \/ StatusChanged(call)

EditDraft(c) ==
    /\ \E call \in CallsOf(c) : Acts(call)
    /\ UNCHANGED <<treeVars, approvals, slowCall>>

ReadDraft(c) ==
    /\ MayBeOvertaken(c) /\ slowCall' \in CallsOf(c)
    /\ UNCHANGED <<treeVars, changeSet, approvals>>

WriteDraft ==
    /\ slowCall.step # "approve" /\ Acts(slowCall)
    /\ slowCall' = NothingRead
    /\ UNCHANGED <<treeVars, approvals>>

CancelChangeSet(p, c) ==
    /\ changeSet[c].status \in {"DRAFT", "VALIDATED"}
    /\ p = changeSet[c].author \/ p \in Emergency
    /\ changeSet' = [changeSet EXCEPT ![c].status = "CANCELLED"]
    /\ UNCHANGED <<treeVars, approvals, slowCall>>

-----------------------------------------------------------------------------
(* Submission and withdrawal *)

OpenRequests(c) == {i \in DOMAIN approvals[c] : approvals[c][i].status = "PENDING"}
Decided(c, i, status, by) ==
    [approvals EXCEPT ![c][i] = [by |-> approvals[c][i].by, status |-> status, decider |-> by]]

(* Submitting what is PENDING_APPROVAL returns its request and changes       *)
(* nothing.                                                                   *)
SubmitChangeSet(p, c) ==
    /\ Status(c, "VALIDATED")
    /\ Effort < MaxEffort
    /\ ActiveAt(c) # {} /\ changeSet[c].base = version
    /\ changeSet' = [changeSet EXCEPT ![c].status = "PENDING_APPROVAL"]
    /\ approvals' = [approvals EXCEPT ![c] =
         Append(@, [by |-> p, status |-> "PENDING", decider |-> Null])]
    /\ UNCHANGED <<treeVars, slowCall>>

WithdrawChangeSet(p, c) ==
    /\ Status(c, "PENDING_APPROVAL") /\ p = changeSet[c].author
    /\ \E i \in OpenRequests(c) : approvals' = Decided(c, i, "REJECTED", Null)
    /\ changeSet' = [changeSet EXCEPT ![c].status = "VALIDATED"]
    /\ UNCHANGED <<treeVars, slowCall>>

-----------------------------------------------------------------------------
(* Decision and publication *)

Affected(ops, homes) == {x \in homes : HomeOf[x] \in Touched(ops)}

(* Workers get another permission version, which ends their sessions; bots    *)
(* lose their tokens, and with them the bots of the last worker.  The loop    *)
(* over bots uses the worker that the loop before it left behind: without an  *)
(* affected worker the transaction fails.                                      *)
Revokes(ops) ==
    LET people == Affected(ops, Workers)
        agents == Affected(ops, Bots)
    IN IF agents = {} THEN signedOut' = people
       ELSE \E last \in people :
              signedOut' = people \cup agents \cup {g \in Bots : OwnerOf[g] = last}

(* _publish_change up to the decision of the request                          *)
Publish(c, from, approval) ==
    LET ops == ActiveOps(c)
        result == ApplyAll(RowsOf(c))
    IN /\ Status(c, from) /\ changeSet[c].base = version /\ version < MaxPublished
       /\ result.ok
       /\ Structural(ops) => ~Cyclic(result.tree) /\ ~MissingParent(result.tree)
       /\ Revokes(ops)
       /\ unit' = result.tree
       /\ closure' = IF Structural(ops) THEN Rebuilt(result.tree) ELSE closure
       /\ version' = version + 1
       /\ changeSet' = [changeSet EXCEPT ![c].status = "PUBLISHED"]
       /\ publication' = [publication EXCEPT ![c] = [ops |-> ops, approval |-> approval]]

(* publish_low_risk, and submit_change_set without the approval feature.      *)
PublishLowRisk(c) ==
    /\ LowRisk(ActiveOps(c))
    /\ Publish(c, "VALIDATED", 0)
    /\ UNCHANGED <<approvals, slowCall>>

Approves(p, c, i) == i \in OpenRequests(c) /\ (approvals[c][i].by # p \/ p \in Emergency)
ApproveCall(p, c, i) == [step |-> "approve", change |-> c, by |-> p, at |-> i]

StillOpen(c, i) == i \in OpenRequests(c)
Approved(call) ==
    LET c == call.change IN
    /\ call.step = "approve"
    /\ changeSet[c].author # call.by \/ call.by \in Emergency
    /\ StillOpen(c, call.at)
    /\ Publish(c, "PENDING_APPROVAL", call.at)
    /\ approvals' = Decided(c, call.at, "APPROVED", call.by)

ApproveChange(p, c) ==
    /\ \E i \in OpenRequests(c) : Approves(p, c, i) /\ Approved(ApproveCall(p, c, i))
    /\ UNCHANGED slowCall

ReadApproval(p, c) ==
    /\ MayBeOvertaken(c)
    /\ \E i \in OpenRequests(c) : Approves(p, c, i) /\ slowCall' = ApproveCall(p, c, i)
    /\ UNCHANGED <<treeVars, changeSet, approvals>>

WriteApproval == Approved(slowCall) /\ slowCall' = NothingRead

(* Its statement changes no row or fails, or the caller gives up.             *)
GiveUp ==
    /\ ~NoneSlow
    /\ slowCall' = NothingRead
    /\ UNCHANGED <<treeVars, changeSet, approvals>>

RejectChange(p, c) ==
    /\ Status(c, "PENDING_APPROVAL")
    /\ \E i \in OpenRequests(c) :
         /\ approvals[c][i].by # p \/ p \in Emergency
         /\ approvals' = Decided(c, i, "REJECTED", p)
    /\ changeSet' = [changeSet EXCEPT ![c].status = "REJECTED"]
    /\ UNCHANGED <<treeVars, slowCall>>

OrganizationNext ==
    \/ \E c \in ChangeSets :
         \/ EditDraft(c) \/ ReadDraft(c)
         \/ \E p \in Staff :
              \/ CreateChangeSet(p, c) \/ CancelChangeSet(p, c)
              \/ SubmitChangeSet(p, c) \/ WithdrawChangeSet(p, c)
              \/ ApproveChange(p, c) \/ ReadApproval(p, c) \/ RejectChange(p, c)
         \/ PublishLowRisk(c)
    \/ WriteDraft \/ WriteApproval \/ GiveUp

OrganizationSpec == OrganizationInit /\ [][OrganizationNext]_organizationVars

-----------------------------------------------------------------------------
(* Properties *)

(* The closure that scopes every permission is the closure of the tree of    *)
(* now, and the tree has no cycle, whatever changes were validated against   *)
(* each other's past.                                                         *)
ClosureIsExact ==
    \A a \in Units, d \in Units :
        /\ <<a, d>> \in closure <=>
             /\ d \in Living(unit)
             /\ (a = d \/ <<a, unit[d].parent>> \in closure)
        /\ <<a, d>> \in closure /\ <<d, a>> \in closure => a = d

(* A change set waits for a decision exactly while it has one open request,   *)
(* and an approved request belongs to a publication that names it.            *)
RequestsFollowChanges ==
    \A c \in ChangeSets :
        /\ Cardinality(OpenRequests(c)) = IF Status(c, "PENDING_APPROVAL") THEN 1 ELSE 0
        /\ \A i \in DOMAIN approvals[c] :
             approvals[c][i].status = "APPROVED" <=> Status(c, "PUBLISHED") /\ publication[c].approval = i

(* What was applied with high risk was approved by someone who neither wrote *)
(* nor submitted it, or by the emergency administrator; however operations    *)
(* were appended, undone or redone behind the back of the validation.         *)
HighRiskIsApproved ==
    \A c \in ChangeSets :
        (\E op \in publication[c].ops : op.kind \in {"MOVE", "RETIRE", "DOMAIN"}) =>
          /\ publication[c].approval # 0
          /\ LET request == approvals[c][publication[c].approval] IN
             \/ request.decider \in Emergency
             \/ request.decider \notin {changeSet[c].author, request.by}

(* Whoever's place in the tree changes, with all above it, loses sessions and *)
(* tokens in the same step, even when one change set moves several units.      *)
ChainOf(u) == {a \in Units : <<a, u>> \in closure}
MovedLoseAccess ==
    [][\A x \in Workers \cup Bots :
         ChainOf(HomeOf[x])' # ChainOf(HomeOf[x]) => x \in signedOut']_organizationVars

(* All four. *)
OrganizationHolds ==
    MovedLoseAccess /\ []ClosureIsExact /\ []RequestsFollowChanges /\ []HighRiskIsApproved
=============================================================================
