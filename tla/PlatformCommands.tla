-------------------------- MODULE PlatformCommands --------------------------
(***************************************************************************)
(* A platform administration command (platform_agent_pool.py) and the       *)
(* Action Card that approves it (identity_api.py, the decision endpoint of  *)
(* web_app.py).  The command is committed first, its card in a second       *)
(* transaction, the decision in a third, and the execution in a fourth: a   *)
(* call can die between any of them, and a decision that is sent again      *)
(* resumes an execution that was interrupted.  Meanwhile the contract of    *)
(* the command can be republished, administrators can be revoked, and the   *)
(* command expires.                                                         *)
(***************************************************************************)
EXTENDS Naturals

CONSTANTS
    Officials,      \* human principals who can be administrators
    SelfApprovers,  \* those granted channels.actions.decide.self
    MaxContract     \* bound on contract versions

ASSUME PlatformCommandsAssumption ==
    SelfApprovers \subseteq Officials /\ MaxContract \in Nat \ {0}

VARIABLES
    command,    \* the row of CX_PLATFORM_ADMIN_COMMANDS, "NONE" before it exists
    actionCard, \* its row of CX_ACTION_CARDS; by: who proposed, then who decided it
    contract,   \* version of the published contract of the command's type
    officials,  \* who is an administrator now
    overdue,    \* EXPIRES_AT has passed
    call,       \* per official: where its call is
    executions  \* history: what each execution ran under

commandVars == <<command, actionCard, contract, officials, overdue, call, executions>>

Versions == 1..MaxContract
PlatformCommandsTypeOK ==
    /\ command.status \in {"NONE", "PENDING_APPROVAL", "COMPLETED", "PROPOSAL_CONFIRMED", "EXPIRED"}
    /\ command.by \in Officials
    /\ actionCard.status \in {"NONE", "PROPOSED", "CONFIRMED", "REJECTED"}
    /\ actionCard.contract \in Versions /\ actionCard.by \in Officials
    /\ contract \in Versions /\ officials \subseteq Officials /\ overdue \in BOOLEAN
    /\ \A a \in Officials :
         /\ call[a].at \in {"idle", "card", "decide", "look", "execute"}
         /\ call[a].contract \in Versions

NoCallYet == [at |-> "idle", contract |-> 1]
PlatformCommandsInit ==
    /\ \E a \in Officials : /\ command = [status |-> "NONE", by |-> a]
                          /\ actionCard = [status |-> "NONE", contract |-> 1, by |-> a]
    /\ contract = 1 /\ officials = Officials /\ overdue = FALSE
    /\ call = [a \in Officials |-> NoCallYet]
    /\ executions = {}

MovesTo(a, at) == call' = [call EXCEPT ![a].at = at]
HangsUp(a) == call' = [call EXCEPT ![a] = NoCallYet]

-----------------------------------------------------------------------------
(* create_command: the contract is read before the command is written. *)
CreateCommand(a) ==
    /\ a = command.by /\ a \in officials
    /\ call[a].at = "idle" /\ command.status = "NONE"
    /\ command' = [command EXCEPT !.status = "PENDING_APPROVAL"]
    /\ call' = [call EXCEPT ![a] = [at |-> "card", contract |-> contract]]
    /\ UNCHANGED <<actionCard, contract, officials, overdue, executions>>

CreateCard(a) ==
    /\ call[a].at = "card"
    /\ actionCard' = [status |-> "PROPOSED", contract |-> call[a].contract, by |-> a]
    /\ HangsUp(a)
    /\ UNCHANGED <<command, contract, officials, overdue, executions>>

(* decide_action_card: found PROPOSED and proposed by someone else (or the  *)
(* decider may decide his own), then a compare-and-set on PROPOSED.  A      *)
(* decision that finds it decided goes on.                                  *)
MayApprove(a) == a # command.by \/ a \in SelfApprovers
ReadCard(a) ==
    /\ call[a].at = "idle" /\ a \in officials /\ actionCard.status # "NONE"
    /\ actionCard.status = "PROPOSED" => MayApprove(a)
    /\ MovesTo(a, IF actionCard.status = "PROPOSED" THEN "decide" ELSE "look")
    /\ UNCHANGED <<command, actionCard, contract, officials, overdue, executions>>

DecideAction(a) ==
    /\ call[a].at = "decide"
    /\ \E d \in {"CONFIRMED", "REJECTED"} :
         /\ actionCard' = IF actionCard.status # "PROPOSED" THEN actionCard
                          ELSE [actionCard EXCEPT !.status = d, !.by = a]
         /\ IF d = "CONFIRMED" THEN MovesTo(a, "look") ELSE HangsUp(a)
    /\ UNCHANGED <<command, contract, officials, overdue, executions>>

LookAtDecision(a) ==
    /\ call[a].at = "look"
    /\ IF actionCard.status = "CONFIRMED" THEN MovesTo(a, "execute") ELSE HangsUp(a)
    /\ UNCHANGED <<command, actionCard, contract, officials, overdue, executions>>

(* execute_approved_command: one transaction under the locks of the card    *)
(* and the command, which refuses unless the caller and the requester are   *)
(* administrators, the contract is the one approved and the command is      *)
(* still pending and in time.                                               *)
PendingCommand == command.status = "PENDING_APPROVAL"
AnyContract == actionCard.contract <= contract
ApprovedContract == actionCard.contract = contract
Executable == PendingCommand /\ ~overdue
ExecuteCommand(a) ==
    /\ call[a].at = "execute"
    /\ a \in officials /\ command.by \in officials
    /\ ApprovedContract /\ Executable
    /\ \E s \in {"COMPLETED", "PROPOSAL_CONFIRMED"} : command' = [command EXCEPT !.status = s]
    /\ executions' = executions \cup {[by |-> a, contract |-> contract]}
    /\ HangsUp(a)
    /\ UNCHANGED <<actionCard, contract, officials, overdue>>

(* Refused, answered from what was done before, or dead. *)
CallEnds(a) ==
    /\ call[a].at # "idle" /\ HangsUp(a)
    /\ UNCHANGED <<command, actionCard, contract, officials, overdue, executions>>

(* expire_commands looks at the command alone. *)
ExpireCommand ==
    /\ PendingCommand /\ overdue /\ officials # {}
    /\ command' = [command EXCEPT !.status = "EXPIRED"]
    /\ UNCHANGED <<actionCard, contract, officials, overdue, call, executions>>

-----------------------------------------------------------------------------
PublishContract ==
    /\ contract < MaxContract /\ contract' = contract + 1
    /\ UNCHANGED <<command, actionCard, officials, overdue, call, executions>>
RevokeOfficial(a) ==
    /\ a \in officials /\ officials' = officials \ {a}
    /\ UNCHANGED <<command, actionCard, contract, overdue, call, executions>>
TimePasses ==
    /\ ~overdue /\ overdue' = TRUE
    /\ UNCHANGED <<command, actionCard, contract, officials, call, executions>>

PlatformCommandsNext ==
    \/ \E a \in Officials :
         \/ CreateCommand(a) \/ CreateCard(a) \/ ReadCard(a) \/ DecideAction(a)
         \/ LookAtDecision(a) \/ ExecuteCommand(a) \/ CallEnds(a) \/ RevokeOfficial(a)
    \/ ExpireCommand \/ PublishContract \/ TimePasses

PlatformCommandsSpec == PlatformCommandsInit /\ [][PlatformCommandsNext]_commandVars

-----------------------------------------------------------------------------
(* Properties *)

(* However often a decision is sent again and whatever was republished or   *)
(* revoked on the way, a command runs at most once, under the contract that *)
(* its card shows, confirmed, and on its requester's word alone only where  *)
(* the requester was granted that.                                          *)
RunsOnceAsApproved ==
    \A x \in executions :
        /\ \A y \in executions : x = y
        /\ actionCard.status = "CONFIRMED" /\ actionCard.contract = x.contract
        /\ actionCard.by # command.by \/ actionCard.by \in SelfApprovers
        /\ command.status \in {"COMPLETED", "PROPOSAL_CONFIRMED"}
=============================================================================
