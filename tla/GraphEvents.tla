---------------------------- MODULE GraphEvents ----------------------------
(***************************************************************************)
(* The event inbox of the graph runtime: ingest_event and                  *)
(* replay_dead_letter of graph_runtime.py, claim_inbox, mark_inbox and     *)
(* fire_trigger of graph_event_api.py.                                     *)
(*                                                                         *)
(* Every statement outside resolve_waits commits by itself, so a call is a *)
(* series of steps between which its process may die and other callers     *)
(* come.  An event is a pair of source and idempotency key, the unique key *)
(* of GRAPH_INBOX.                                                         *)
(***************************************************************************)
EXTENDS Naturals, FiniteSets

CONSTANTS
    Events,       \* inbox keys
    Triggered,    \* those delivered by a trigger that starts a Run
    Callers,      \* sessions that deliver, replay or consume events
    MaxTries,     \* DEFAULT_MAX_ATTEMPTS of the inbox
    MaxWaits      \* bound: subscriptions opened for one event

ASSUME EventAssumption ==
    /\ Triggered \subseteq Events
    /\ MaxTries \in Nat \ {0} /\ MaxWaits \in Nat

VARIABLES
    inbox,     \* GRAPH_INBOX.STATUS, "NONE" where no row exists
    tries,     \* GRAPH_INBOX.ATTEMPTS
    waiting,   \* open GRAPH_WAIT_SUBSCRIPTIONS that match the event
    opened,    \* how many were opened so far
    started,   \* Runs created for the event by its trigger
    effects,   \* history: how often the event was activated or consumed
    lost,      \* history: events whose caller died holding them
    snatched,  \* history: events consumed while their delivery still worked on them
    call       \* per caller: the call in flight

eventVars == <<inbox, tries, waiting, opened, started, effects, lost, snatched, call>>

InboxStatus == {"RECEIVED", "PROCESSING", "PROCESSED", "DUPLICATE", "DEAD_LETTER"}
Kinds == {"ingest", "replay", "consume"}
(* Where a call stands: row inserted, row taken, effect done or refused, or *)
(* only the Run of the trigger left to look up and to insert.               *)
Stages == {"inserted", "taken", "done", "refused", "lookup", "create"}

NoCall == [kind |-> "none"]
Call == [kind : Kinds, event : Events, stage : Stages, seen : Nat]

EventsTypeOK ==
    /\ inbox \in [Events -> InboxStatus \cup {"NONE"}]
    /\ tries \in [Events -> Nat]
    /\ waiting \in [Events -> 0..MaxWaits]
    /\ opened \in [Events -> 0..MaxWaits]
    /\ started \in [Events -> Nat]
    /\ effects \in [Events -> Nat]
    /\ lost \subseteq Events /\ snatched \subseteq Events
    /\ call \in [Callers -> Call \cup {NoCall}]

EventsInit ==
    /\ inbox = [e \in Events |-> "NONE"]
    /\ tries = [e \in Events |-> 0]
    /\ waiting = [e \in Events |-> 0]
    /\ opened = [e \in Events |-> 0]
    /\ started = [e \in Events |-> 0]
    /\ effects = [e \in Events |-> 0]
    /\ lost = {}
    /\ snatched = {}
    /\ call = [c \in Callers |-> NoCall]

-----------------------------------------------------------------------------
(* Calls *)

Idles(c) == call[c].kind = "none"
At(c, kind, stage) == call[c].kind = kind /\ call[c].stage = stage

Enter(c, kind, e, stage) ==
    call' = [call EXCEPT ![c] = [kind |-> kind, event |-> e, stage |-> stage, seen |-> 0]]
Advance(c, stage) == call' = [call EXCEPT ![c].stage = stage]
Leave(c) == call' = [call EXCEPT ![c] = NoCall]

Move(e, from, to) ==
    inbox' = [inbox EXCEPT ![e] = IF @ \in from THEN to ELSE @]

(* The first delivery of e has not settled its row. *)
Fresh(e) ==
    \E c \in Callers : /\ call[c].kind = "ingest" /\ call[c].event = e
                       /\ call[c].stage \notin {"lookup", "create"}

-----------------------------------------------------------------------------
(* ingest_event *)

(* The INSERT.  verdict is classify_event's: "ok" allows activation, "held"  *)
(* is an unauthenticated event, "poison" one with errors; the call ends with *)
(* the INSERT unless activation is allowed.                                 *)
Ingest(c, e, verdict) ==
    /\ Idles(c) /\ inbox[e] = "NONE"
    /\ inbox' = [inbox EXCEPT ![e] = IF verdict = "poison" THEN "DEAD_LETTER" ELSE "RECEIVED"]
    /\ IF verdict = "ok" THEN Enter(c, "ingest", e, "inserted") ELSE UNCHANGED call
    /\ UNCHANGED <<tries, waiting, opened, started, effects, lost, snatched>>

(* A second delivery of the same key finds the row and touches nothing.     *)
(* Its receipt is DUPLICATE, neither poison nor blocked, so a trigger goes  *)
(* on to create its Run.                                                    *)
IngestDuplicate(c, e) == e \in Triggered /\ Enter(c, "ingest", e, "lookup")

Redeliver(c, e) ==
    /\ Idles(c) /\ inbox[e] # "NONE"
    /\ IngestDuplicate(c, e)
    /\ UNCHANGED <<inbox, tries, waiting, opened, started, effects, lost, snatched>>

(* The row is moved to PROCESSING where it is still RECEIVED; the number of *)
(* rows changed is not looked at.                                           *)
IngestTake(c) ==
    LET e == call[c].event IN
    /\ At(c, "ingest", "inserted")
    /\ Move(e, {"RECEIVED"}, "PROCESSING")
    /\ tries' = [tries EXCEPT ![e] = IF inbox[e] = "RECEIVED" THEN @ + 1 ELSE @]
    /\ Advance(c, "taken")
    /\ UNCHANGED <<waiting, opened, started, effects, lost, snatched>>

(* replay_dead_letter *)
ReplaysAny(e) == inbox[e] # "NONE"
(* Only a dead letter is taken, and the conditional update takes it once. *)
Replayable(e) == inbox[e] = "DEAD_LETTER"

ReplayTake(c, e) ==
    /\ Idles(c) /\ Replayable(e)
    /\ inbox' = [inbox EXCEPT ![e] = "PROCESSING"]
    /\ Enter(c, "replay", e, "taken")
    /\ UNCHANGED <<tries, waiting, opened, started, effects, lost, snatched>>

(* claim_inbox: a row out of attempts goes to the dead letters instead. *)
ConsumeTake(c, e) ==
    /\ Idles(c) /\ inbox[e] = "RECEIVED"
    /\ snatched' = IF Fresh(e) THEN snatched \cup {e} ELSE snatched
    /\ IF tries[e] < MaxTries
       THEN /\ inbox' = [inbox EXCEPT ![e] = "PROCESSING"]
            /\ tries' = [tries EXCEPT ![e] = @ + 1]
            /\ Enter(c, "consume", e, "taken")
       ELSE /\ inbox' = [inbox EXCEPT ![e] = "DEAD_LETTER"]
            /\ UNCHANGED <<tries, call>>
    /\ UNCHANGED <<waiting, opened, started, effects, lost>>

-----------------------------------------------------------------------------
(* The effect, and the row after it *)

(* resolve_waits answers every matching subscription in one transaction; a *)
(* consumer does its own work instead.                                     *)
Apply(c) ==
    LET e == call[c].event IN
    /\ ~Idles(c) /\ call[c].stage = "taken"
    /\ effects' = [effects EXCEPT ![e] = @ + 1]
    /\ waiting' = [waiting EXCEPT ![e] = IF call[c].kind = "consume" THEN @ ELSE 0]
    /\ Advance(c, "done")
    /\ UNCHANGED <<inbox, tries, opened, started, lost, snatched>>

(* The transaction fails and leaves nothing; the caller reads ATTEMPTS. *)
Refuse(c) ==
    /\ ~Idles(c) /\ call[c].stage = "taken"
    /\ call' = [call EXCEPT ![c].stage = "refused", ![c].seen = tries[call[c].event]]
    /\ UNCHANGED <<inbox, tries, waiting, opened, started, effects, lost, snatched>>

NotRequeued(seen) == IF seen >= MaxTries THEN "DEAD_LETTER" ELSE "PROCESSING"
(* Where an event goes whose activation failed after so many attempts. *)
AfterFailure(seen) == IF seen >= MaxTries THEN "DEAD_LETTER" ELSE "RECEIVED"

(* The status a call leaves the row in, by what became of the activation. *)
Outcome(c) ==
    IF call[c].stage = "done" THEN "PROCESSED"
    ELSE IF call[c].kind = "replay" THEN "DEAD_LETTER" ELSE AfterFailure(call[c].seen)

Settle(c) ==
    /\ ~Idles(c) /\ call[c].stage \in {"done", "refused"}
    /\ Move(call[c].event, {"PROCESSING"}, Outcome(c))
    /\ IF call[c].kind = "ingest" /\ call[c].event \in Triggered /\ Outcome(c) # "DEAD_LETTER"
       THEN Advance(c, "lookup")
       ELSE Leave(c)
    /\ UNCHANGED <<tries, waiting, opened, started, effects, lost, snatched>>

(* A consumer that gives the event up (mark_inbox DUPLICATE, DEAD_LETTER). *)
GiveUp(c) ==
    /\ At(c, "consume", "refused")
    /\ \E status \in {"DUPLICATE", "DEAD_LETTER"} : Move(call[c].event, {"PROCESSING"}, status)
    /\ Leave(c)
    /\ UNCHANGED <<tries, waiting, opened, started, effects, lost, snatched>>

(* create_run under the key of trigger and delivery returns the Run it finds *)
(* or, in a race, the one a concurrent call inserted first.                 *)
LookUpRun(c) ==
    /\ At(c, "ingest", "lookup")
    /\ IF started[call[c].event] = 0 THEN Advance(c, "create") ELSE Leave(c)
    /\ UNCHANGED <<inbox, tries, waiting, opened, started, effects, lost, snatched>>

KeyFree(e) == started[e] = 0

CreateRun(c) ==
    LET e == call[c].event IN
    /\ At(c, "ingest", "create")
    /\ started' = [started EXCEPT ![e] = IF KeyFree(e) THEN @ + 1 ELSE @]
    /\ Leave(c)
    /\ UNCHANGED <<inbox, tries, waiting, opened, effects, lost, snatched>>

-----------------------------------------------------------------------------
(* The environment *)

(* A wait node is entered whose event and correlation key match e. *)
OpenWait(e) ==
    /\ opened[e] < MaxWaits
    /\ opened' = [opened EXCEPT ![e] = @ + 1]
    /\ waiting' = [waiting EXCEPT ![e] = @ + 1]
    /\ UNCHANGED <<inbox, tries, started, effects, lost, snatched, call>>

(* A process dies in the middle of a call.  No code takes a PROCESSING row *)
(* back.                                                                   *)
Die(c) ==
    /\ ~Idles(c)
    /\ lost' = lost \cup {call[c].event}
    /\ Leave(c)
    /\ UNCHANGED <<inbox, tries, waiting, opened, started, effects, snatched>>

EventStep(c) ==
    \/ \E e \in Events :
         \/ \E v \in {"ok", "held", "poison"} : Ingest(c, e, v)
         \/ Redeliver(c, e) \/ ReplayTake(c, e) \/ ConsumeTake(c, e)
    \/ IngestTake(c) \/ Apply(c) \/ Refuse(c) \/ Settle(c) \/ GiveUp(c)
    \/ LookUpRun(c) \/ CreateRun(c)
    \/ Die(c)

EventsNext ==
    \/ \E c \in Callers : EventStep(c)
    \/ \E e \in Events : OpenWait(e)

EventsSpec == EventsInit /\ [][EventsNext]_eventVars

(* A caller that lives goes on with its call, and consumers keep polling. *)
EventFairness ==
    /\ \A c \in Callers : WF_eventVars(
         IngestTake(c) \/ Apply(c) \/ Settle(c) \/ LookUpRun(c) \/ CreateRun(c))
    /\ \A e \in Events : SF_eventVars(\E c \in Callers : ConsumeTake(c, e))

-----------------------------------------------------------------------------
(* Properties *)

(* However often an event is delivered, consumed after a failure or replayed *)
(* from the dead letters, and wherever a process dies, it takes effect once  *)
(* and starts one Run, by the unique keys and the conditional updates that   *)
(* take a row, and it is not acknowledged before: ingest_event must "not     *)
(* acknowledge the event as successfully processed" when it failed.  The one *)
(* exception is a consumer that takes the row of a delivery still under way. *)
EffectOnce ==
    \A e \in Events :
        /\ e \notin snatched => effects[e] <= 1
        /\ started[e] <= 1
        /\ inbox[e] = "PROCESSED" => effects[e] > 0

(* An event that was received ends processed, refused or with the operator, *)
(* unless the process that held it died: failures alone cannot keep it.     *)
EventSettles ==
    \A e \in Events :
        inbox[e] \in {"RECEIVED", "PROCESSING"}
            ~> inbox[e] \in {"PROCESSED", "DUPLICATE", "DEAD_LETTER"} \/ e \in lost
=============================================================================
