---------------------------- MODULE Containment ----------------------------
(***************************************************************************)
(* Containment commands for one agent instance: request, issue, pull and   *)
(* acknowledge of admin_management.py, with the approval check of          *)
(* governed_approval.py and the ordering of containment.py.                *)
(*                                                                         *)
(* issue_containment is not one transaction: it checks the approval, reads *)
(* the newest command, revokes the instance and inserts the command, each  *)
(* by itself, and may stop between any two.                                *)
(***************************************************************************)
EXTENDS Naturals, Sequences, FiniteSets

CONSTANTS
    Officers,      \* humans who may manage the platform and decide Action Cards
    Requests,      \* states they ask for
    MaxCards,      \* bound: cards in force at a time
    MaxCommands    \* bound: rows of CX_AGENT_CONTAINMENT_COMMANDS

STATES == {"OBSERVE", "DRAIN", "QUARANTINE", "TERMINATE", "INFRA_TERMINATE"}
Terminal == {"TERMINATE", "INFRA_TERMINATE"}
HighImpact == Terminal \cup {"QUARANTINE"}

ASSUME ContainmentAssumption == Requests \subseteq STATES /\ MaxCards \in Nat /\ MaxCommands \in Nat

VARIABLES
    commands,    \* rows of CX_AGENT_CONTAINMENT_COMMANDS, oldest first
    cards,       \* CX_ACTION_CARDS for this action, those still in force
    agentRow,    \* the CX_AGENT_INSTANCES row: is it revoked? and the agent's token with it
    issue,       \* per officer: the call in flight
    collided     \* history: a command was inserted between a call's read and its insert

containmentVars == <<commands, cards, agentRow, issue, collided>>

NoIssue == [stage |-> "none"]
Command == [state : Requests, gen : 1..MaxCommands, ack : {"PENDING", "ANSWERED", "EXPIRED"},
            signers : SUBSET Officers]

ContainmentTypeOK ==
    /\ commands \in Seq(Command) /\ Len(commands) <= MaxCommands
    /\ cards \subseteq [by : Officers, for : Requests, decided : SUBSET Officers]
    /\ agentRow \in {"ACTIVE", "REVOKED"}
    /\ issue \in [Officers -> {NoIssue} \cup
         [stage : {"approved", "read", "revoked"}, state : Requests, gen : 0..MaxCommands,
          signers : SUBSET Officers]]
    /\ collided \in BOOLEAN

ContainmentInit ==
    /\ commands = <<>>
    /\ cards = {}
    /\ agentRow = "ACTIVE"
    /\ issue = [h \in Officers |-> NoIssue]
    /\ collided = FALSE

-----------------------------------------------------------------------------
(* Approval *)

(* request_containment, decide_action_card; a proposer may hold the right to *)
(* decide its own cards.                                                     *)
RequestCard(h, state) ==
    /\ state \in HighImpact
    /\ Cardinality(cards) < MaxCards
    /\ cards' = cards \cup {[by |-> h, for |-> state, decided |-> {}]}
    /\ UNCHANGED <<commands, agentRow, issue, collided>>

DecideContainment(h, c) ==
    /\ c.decided = {}
    /\ cards' = (cards \ {c}) \cup {[c EXCEPT !.decided = {h}]}
    /\ UNCHANGED <<commands, agentRow, issue, collided>>

(* Rejected, fifteen minutes old, or an authority behind it was revoked. *)
CardEnds(c) ==
    /\ cards' = cards \ {c}
    /\ UNCHANGED <<commands, agentRow, issue, collided>>

(* require_tx asks for an independent decision. *)
Independent(c) == c.decided # {} /\ c.by \notin c.decided

-----------------------------------------------------------------------------
(* issue_containment *)

IssueApproved(h, state) ==
    /\ issue[h] = NoIssue
    /\ \E signers \in {{c.by} \cup c.decided : c \in {d \in cards : d.for = state /\ Independent(d)}}
                     \cup {{} : x \in {state} \ HighImpact} :
         issue' = [issue EXCEPT ![h] = [stage |-> "approved", state |-> state, gen |-> 0, signers |-> signers]]
    /\ UNCHANGED <<commands, cards, agentRow, collided>>

(* The newest command; of two with the same generation the database gives   *)
(* either.                                                                  *)
Newest(i) == \A j \in DOMAIN commands : commands[j].gen <= commands[i].gen

DrainPrecedes(current, requested) == requested \notin Terminal \/ current # "OBSERVE"
(* quarantine_precedes_termination *)
QuarantinePrecedes(current, requested) == requested \notin Terminal \/ current \in HighImpact

Read(h, state, gen) ==
    IF QuarantinePrecedes(state, issue[h].state)
    THEN issue' = [issue EXCEPT ![h] = [stage |-> "read", state |-> @.state, gen |-> gen, signers |-> @.signers]]
    ELSE issue' = [issue EXCEPT ![h] = NoIssue]

IssueRead(h) ==
    /\ issue[h].stage = "approved"
    /\ IF commands = <<>> THEN Read(h, "OBSERVE", 0)
       ELSE \E i \in DOMAIN commands : Newest(i) /\ Read(h, commands[i].state, commands[i].gen)
    /\ UNCHANGED <<commands, cards, agentRow, collided>>

(* The instance and its access tokens. *)
Isolated(state) == IF state \in HighImpact THEN "REVOKED" ELSE agentRow

IssueRevoke(h) ==
    /\ issue[h].stage = "read"
    /\ agentRow' = Isolated(issue[h].state)
    /\ issue' = [issue EXCEPT ![h].stage = "revoked"]
    /\ UNCHANGED <<commands, cards, collided>>

NextGeneration(gen) == gen + 1

IssueInsert(h) ==
    LET gen == NextGeneration(issue[h].gen) IN
    /\ issue[h].stage = "revoked" /\ Len(commands) < MaxCommands
    /\ commands' = Append(commands, [state |-> issue[h].state, gen |-> gen, ack |-> "PENDING",
                                     signers |-> issue[h].signers])
    /\ collided' = (collided \/ \E i \in DOMAIN commands : commands[i].gen > issue[h].gen)
    /\ issue' = [issue EXCEPT ![h] = NoIssue]
    /\ UNCHANGED <<cards, agentRow>>

IssueStops(h) ==
    /\ issue[h] # NoIssue
    /\ issue' = [issue EXCEPT ![h] = NoIssue]
    /\ UNCHANGED <<commands, cards, agentRow, collided>>

-----------------------------------------------------------------------------
(* The agent *)

(* authenticate_access_token stands before both gateway calls. *)
Authenticated == agentRow = "ACTIVE"

Actionable(i) == commands[i].ack = "PENDING"

(* pull_containment_command gives the newest actionable command, and         *)
(* acknowledge_containment answers it, or one pulled before.                 *)
Acknowledge(i) ==
    /\ Authenticated /\ Actionable(i)
    /\ commands' = [commands EXCEPT ![i].ack = "ANSWERED"]
    /\ UNCHANGED <<cards, agentRow, issue, collided>>

CommandExpires(i) ==
    /\ Actionable(i)
    /\ commands' = [commands EXCEPT ![i].ack = "EXPIRED"]
    /\ UNCHANGED <<cards, agentRow, issue, collided>>

ContainmentNext ==
    \/ \E h \in Officers :
         \/ \E s \in Requests : RequestCard(h, s) \/ IssueApproved(h, s)
         \/ \E c \in cards : DecideContainment(h, c)
         \/ IssueRead(h) \/ IssueRevoke(h) \/ IssueInsert(h) \/ IssueStops(h)
    \/ \E c \in cards : CardEnds(c)
    \/ \E i \in DOMAIN commands :
         CommandExpires(i) \/ Acknowledge(i)

ContainmentSpec == ContainmentInit /\ [][ContainmentNext]_containmentVars

-----------------------------------------------------------------------------
(* Properties *)

(* Termination is ordered after quarantine: below every command to terminate *)
(* there is a quarantine of an older generation, whoever issued commands at  *)
(* the same time.                                                            *)
QuarantineBeforeTermination ==
    \A i \in DOMAIN commands : commands[i].state \in Terminal =>
        \E j \in DOMAIN commands :
            commands[j].state = "QUARANTINE" /\ commands[j].gen < commands[i].gen

(* The platform isolates before it commands: no high-impact command exists   *)
(* while the instance or its tokens still work, and two humans stand behind  *)
(* it however late the command was written.                                  *)
IsolatedBeforeCommand ==
    \A i \in DOMAIN commands : commands[i].state \in HighImpact =>
        /\ agentRow = "REVOKED"
        /\ \E g, h \in commands[i].signers : g # h

(* Calls that do not overlap number the commands in order, so that an agent  *)
(* can refuse an older one.                                                  *)
GenerationsOrderCommands ==
    ~collided => \A i, j \in DOMAIN commands : i < j => commands[i].gen < commands[j].gen

(* Commands to an agent, and what comes before them. *)
ContainmentHolds == QuarantineBeforeTermination /\ IsolatedBeforeCommand /\ GenerationsOrderCommands
=============================================================================
