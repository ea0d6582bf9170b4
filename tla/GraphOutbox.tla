---------------------------- MODULE GraphOutbox ----------------------------
(***************************************************************************)
(* The event outbox of the graph runtime: enqueue_outbox of                *)
(* graph_runtime.py and mark_outbox of graph_event_api.py, and the         *)
(* dispatchers that call it.  A dispatcher is outside the repository: it   *)
(* claims a message, hands it to the remote side, and marks it.            *)
(***************************************************************************)
EXTENDS Naturals, FiniteSets

CONSTANTS
    Messages,     \* outbox keys <<event type, idempotency key>>
    Dispatchers,  \* processes that deliver
    RowMax,       \* MAX_ATTEMPTS of a row, given to enqueue
    CallerMax     \* max_attempts of mark_outbox, given by its caller

ASSUME OutboxAssumption ==
    RowMax \in Nat \ {0} /\ CallerMax \in Nat \ {0} /\ IsFiniteSet(Dispatchers)

VARIABLES
    outbox,      \* GRAPH_OUTBOX.STATUS, "NONE" where no row exists
    sends,       \* GRAPH_OUTBOX.ATTEMPTS
    arrived,     \* history: how often the remote side received the message
    disturbed,   \* history: messages whose dispatcher died or repeated a mark
    hand         \* per dispatcher: the message in its hands

outboxVars == <<outbox, sends, arrived, disturbed, hand>>

OutboxStatus == {"PENDING", "DISPATCHING", "SENT", "DEAD_LETTER"}
HandStages == {"claimed", "delivered", "failed", "retrying"}

Empty == [stage |-> "empty"]
Hand == [stage : HandStages, message : Messages, dead : BOOLEAN]

OutboxTypeOK ==
    /\ outbox \in [Messages -> OutboxStatus \cup {"NONE"}]
    /\ sends \in [Messages -> Nat]
    /\ arrived \in [Messages -> Nat]
    /\ disturbed \subseteq Messages
    /\ hand \in [Dispatchers -> Hand \cup {Empty}]

OutboxInit ==
    /\ outbox = [m \in Messages |-> "NONE"]
    /\ sends = [m \in Messages |-> 0]
    /\ arrived = [m \in Messages |-> 0]
    /\ disturbed = {}
    /\ hand = [d \in Dispatchers |-> Empty]

-----------------------------------------------------------------------------

(* enqueue_outbox: a key that exists is answered with its row. *)
Enqueue(m) ==
    /\ outbox[m] = "NONE"
    /\ outbox' = [outbox EXCEPT ![m] = "PENDING"]
    /\ UNCHANGED <<sends, arrived, disturbed, hand>>

MaySend(m) == sends[m] < CallerMax

(* mark_outbox DISPATCHING *)
Dispatch(d, m) ==
    /\ hand[d] = Empty
    /\ outbox[m] = "PENDING" /\ MaySend(m)
    /\ outbox' = [outbox EXCEPT ![m] = "DISPATCHING"]
    /\ sends' = [sends EXCEPT ![m] = @ + 1]
    /\ hand' = [hand EXCEPT ![d] = [stage |-> "claimed", message |-> m, dead |-> FALSE]]
    /\ UNCHANGED <<arrived, disturbed>>

(* The remote side receives the message; the dispatcher may not learn it. *)
Deliver(d) ==
    /\ hand[d].stage = "claimed"
    /\ arrived' = [arrived EXCEPT ![hand[d].message] = @ + 1]
    /\ \E stage \in {"delivered", "failed"} : hand' = [hand EXCEPT ![d].stage = stage]
    /\ UNCHANGED <<outbox, sends, disturbed>>

FailDelivery(d) ==
    /\ hand[d].stage = "claimed"
    /\ hand' = [hand EXCEPT ![d].stage = "failed"]
    /\ UNCHANGED <<outbox, sends, arrived, disturbed>>

(* Every mark after the claim is conditional on the row being DISPATCHING. *)
Marks(m) == outbox[m] = "DISPATCHING"

(* A dispatcher that did not get the answer of its mark sends it again. *)
AfterMark(d) ==
    \/ hand' = [hand EXCEPT ![d] = Empty] /\ UNCHANGED disturbed
    \/ UNCHANGED hand /\ disturbed' = disturbed \cup {hand[d].message}

MarkSent(d) ==
    LET m == hand[d].message IN
    /\ hand[d].stage = "delivered"
    /\ outbox' = [outbox EXCEPT ![m] = IF Marks(m) THEN "SENT" ELSE @]
    /\ AfterMark(d)
    /\ UNCHANGED <<sends, arrived>>

(* mark_outbox DEAD_LETTER: the dispatcher gives up. *)
MarkDead(d) ==
    LET m == hand[d].message IN
    /\ hand[d].stage = "failed"
    /\ outbox' = [outbox EXCEPT ![m] = IF Marks(m) THEN "DEAD_LETTER" ELSE @]
    /\ AfterMark(d)
    /\ UNCHANGED <<sends, arrived>>

ExhaustedLate(m) == sends[m] > RowMax
(* mark_outbox RETRY compares the row's own MAX_ATTEMPTS. *)
Exhausted(m) == sends[m] >= RowMax

(* mark_outbox RETRY reads ATTEMPTS, and writes in a second statement. *)
RetryLookup(d) ==
    /\ hand[d].stage = "failed"
    /\ hand' = [hand EXCEPT ![d].stage = "retrying", ![d].dead = Exhausted(hand[d].message)]
    /\ UNCHANGED <<outbox, sends, arrived, disturbed>>

MarkRetry(d) ==
    LET m == hand[d].message IN
    /\ hand[d].stage = "retrying"
    /\ outbox' = [outbox EXCEPT ![m] =
           IF ~Marks(m) THEN @ ELSE IF hand[d].dead THEN "DEAD_LETTER" ELSE "PENDING"]
    /\ \/ hand' = [hand EXCEPT ![d] = Empty] /\ UNCHANGED disturbed
       \/ hand' = [hand EXCEPT ![d].stage = "failed"] /\ disturbed' = disturbed \cup {m}
    /\ UNCHANGED <<sends, arrived>>

(* A dispatcher dies; no code takes a DISPATCHING row back. *)
DispatcherDies(d) ==
    /\ hand[d] # Empty
    /\ disturbed' = disturbed \cup {hand[d].message}
    /\ hand' = [hand EXCEPT ![d] = Empty]
    /\ UNCHANGED <<outbox, sends, arrived>>

OutboxNext ==
    \/ \E m \in Messages : Enqueue(m)
    \/ \E d \in Dispatchers :
         \/ \E m \in Messages : Dispatch(d, m)
         \/ Deliver(d) \/ FailDelivery(d)
         \/ MarkSent(d) \/ MarkDead(d) \/ RetryLookup(d) \/ MarkRetry(d)
         \/ DispatcherDies(d)

OutboxSpec == OutboxInit /\ [][OutboxNext]_outboxVars

(* A dispatcher that lives finishes what it holds and polls again. *)
OutboxFairness ==
    /\ \A m \in Messages : SF_outboxVars(\E d \in Dispatchers : Dispatch(d, m))
    /\ \A d \in Dispatchers : WF_outboxVars(
         \/ Deliver(d) \/ FailDelivery(d) \/ MarkSent(d) \/ MarkDead(d)
         \/ RetryLookup(d) \/ MarkRetry(d))

-----------------------------------------------------------------------------
(* Properties *)

(* The remote side gets a message at most as often as attempts are allowed, *)
(* whatever dispatchers die, repeat their marks or act on old reads.        *)
DeliveriesBounded == \A m \in Messages : arrived[m] <= CallerMax

(* A message marked SENT arrived, and stays SENT: the late or repeated mark *)
(* of another dispatcher neither requeues nor buries it.                    *)
SentStaysSent ==
    [][\A m \in Messages : outbox[m] = "SENT" => arrived[m] > 0 /\ outbox'[m] = "SENT"]_outboxVars

(* A message ends SENT or in the dead letters, unless its dispatcher died   *)
(* or repeated a mark: failures alone never leave it PENDING for good.      *)
OutboxDrains ==
    \A m \in Messages :
        outbox[m] \in {"PENDING", "DISPATCHING"}
            ~> outbox[m] \in {"SENT", "DEAD_LETTER"} \/ m \in disturbed

OutboxHolds == OutboxDrains /\ SentStaysSent /\ []DeliveriesBounded
=============================================================================
