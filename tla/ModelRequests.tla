--------------------------- MODULE ModelRequests ---------------------------
(***************************************************************************)
(* Calls of a model through the governed gateway: forward and              *)
(* stream_forward (model_usage_api.py), gateway_embeddings                 *)
(* (embedding_governance.py), with their quota reservations and replay     *)
(* snapshots (model_governance_api.py).                                    *)
(*                                                                         *)
(* A call is a row of CX_MODEL_REQUESTS, one reservation per policy, a row *)
(* of the usage ledger and the answer of the provider.  Each statement     *)
(* commits by itself, except the reservation of all policies, the          *)
(* settlement, and snapshot with final status.  A call may end between any *)
(* two: its process dies, its client closes the stream, a secret cannot be *)
(* read.                                                                   *)
(***************************************************************************)
EXTENDS Integers, FiniteSets, Functions

CONSTANTS
    Calls,          \* calls of one actor with the same input
    Policies,       \* ACTIVE quota policies that match the calls
    Hard,           \* those with ENFORCEMENT = 'HARD', the others are 'WARN'
    Releasing,      \* those with INCOMPLETE_POLICY = 'RELEASE'
    Monetary,       \* those whose METRIC is a cost, the others count tokens
    Limit,          \* LIMIT_VALUE, in units of RESERVATION_VALUE
    MaxTokens,      \* bound: usage of one call, in the same unit
    NoCall

ASSUME CallsAssumption ==
    /\ Hard \subseteq Policies /\ Releasing \subseteq Policies /\ Monetary \subseteq Policies
    /\ IsFiniteSet(Calls) /\ NoCall \notin Calls
    /\ Limit \in Nat /\ MaxTokens \in Nat \ {0}

VARIABLES
    modelCall,      \* per call: how far the handler is, and what it knows
    request,        \* per call: its row of CX_MODEL_REQUESTS
    reservation,    \* per call and policy: the row of CX_MODEL_QUOTA_RESERVATIONS
    ledger,         \* per call: its row of CX_MODEL_USAGE
    snapshot,       \* calls with a replay snapshot that has not expired
    policyLock,     \* per policy: the call whose transaction has its row FOR UPDATE
    dispatched      \* history: calls whose request reached the provider

callVars == <<modelCall, request, reservation, ledger, snapshot, policyLock, dispatched>>

Kinds == {"chat", "stream", "embedding"}
Keys == {"shared", "own"}
Unreported == 0        \* TOTAL_TOKENS IS NULL: provenance INCOMPLETE
Idle == [phase |-> "idle", kind |-> "chat", key |-> "own", todo |-> {}, tokens |-> 0, answer |-> NoCall]
NoReservation == [status |-> "none", value |-> 0]
Reserved == [status |-> "RESERVED", value |-> 1]

CallsTypeOK ==
    /\ modelCall \in [Calls -> [phase : {"idle", "checked", "inserted", "reserving", "reserved", "rejected",
                                         "aborted", "open", "ledgered", "settled", "failing", "released", "over"},
                                kind : Kinds, key : Keys, todo : SUBSET Policies,
                                tokens : Unreported..MaxTokens, answer : Calls \cup {NoCall}]]
    /\ request \in [Calls -> {"none", "AUTHORIZED", "DISPATCHED", "SUCCEEDED", "FAILED",
                              "INCOMPLETE", "QUOTA_REJECTED"}]
    /\ reservation \in [Calls \X Policies ->
         [status : {"none", "RESERVED", "SETTLED", "SETTLED_INCOMPLETE", "RELEASED"}, value : 0..MaxTokens]]
    /\ ledger \in [Calls -> {"none", "PROVIDER_REPORTED", "INCOMPLETE"}]
    /\ snapshot \subseteq Calls /\ dispatched \subseteq Calls
    /\ policyLock \in [Policies -> Calls \cup {NoCall}]

CallsInit ==
    /\ modelCall = [c \in Calls |-> Idle]
    /\ request = [c \in Calls |-> "none"]
    /\ reservation = [r \in Calls \X Policies |-> NoReservation]
    /\ ledger = [c \in Calls |-> "none"]
    /\ snapshot = {} /\ dispatched = {}
    /\ policyLock = [p \in Policies |-> NoCall]

Phase(c, phase) == modelCall[c].phase = phase
CallMoves(c, phase) == modelCall' = [modelCall EXCEPT ![c].phase = phase]

-----------------------------------------------------------------------------
(* The idempotency key *)

SameKey(c, d) == modelCall[c].key = "shared" /\ modelCall[d].key = "shared"
(* The unique index on actor and key; a call without a key uses its own id. *)
Occupies(d, key) == request[d] # "none" /\ key = "shared" /\ modelCall[d].key = "shared"

(* _idempotent_replay, then _reserve_idempotency; only forward replays.     *)
CheckKey(c, kind, key) ==
    /\ Phase(c, "idle")
    /\ LET taken == {d \in Calls : Occupies(d, key)}
           replay == {d \in taken : request[d] = "SUCCEEDED" /\ d \in snapshot /\ kind = "chat"}
       IN modelCall' = [modelCall EXCEPT ![c] =
            [phase |-> IF taken = {} THEN "checked" ELSE "over", kind |-> kind, key |-> key, todo |-> {},
             tokens |-> Unreported, answer |-> IF replay = {} THEN NoCall ELSE CHOOSE d \in replay : TRUE]]
    /\ UNCHANGED <<request, reservation, ledger, snapshot, policyLock, dispatched>>

InsertRequest(c) ==
    /\ Phase(c, "checked")
    /\ IF \E d \in Calls : Occupies(d, modelCall[c].key)
       THEN CallMoves(c, "over") /\ UNCHANGED request
       ELSE /\ request' = [request EXCEPT ![c] =
                 IF modelCall[c].kind = "stream" THEN "DISPATCHED" ELSE "AUTHORIZED"]
            /\ modelCall' = [modelCall EXCEPT ![c].phase = "inserted", ![c].todo = Policies]
    /\ UNCHANGED <<reservation, ledger, snapshot, policyLock, dispatched>>

-----------------------------------------------------------------------------
(* reserve_quota: one transaction that locks policy after policy *)

Counted == {"RESERVED", "SETTLED", "SETTLED_INCOMPLETE"}
(* Rows of a transaction that has not committed are only visible to itself. *)
Visible(c, d) == c = d \/ ~Phase(d, "reserving")
ValueOn(p) == [d \in Calls |-> reservation[<<d, p>>].value]
TotalSeen(c, p) ==
    SumFunctionOnSet(ValueOn(p), {d \in Calls : Visible(c, d) /\ reservation[<<d, p>>].status \in Counted})
Exhausted(c, p) == p \in Hard /\ TotalSeen(c, p) + 1 > Limit
WithoutLock(p) == TRUE
Unlocked(p) == policyLock[p] = NoCall

RolledBack(c) ==
    /\ reservation' = [r \in Calls \X Policies |-> IF r[1] = c THEN NoReservation ELSE reservation[r]]
    /\ policyLock' = [p \in Policies |-> IF policyLock[p] = c THEN NoCall ELSE policyLock[p]]

ReservePolicy(c, p) ==
    /\ modelCall[c].phase \in {"inserted", "reserving"} /\ p \in modelCall[c].todo /\ Unlocked(p)
    /\ IF Exhausted(c, p)
       THEN RolledBack(c) /\ CallMoves(c, "rejected")
       ELSE /\ policyLock' = [policyLock EXCEPT ![p] = c]
            /\ reservation' = [reservation EXCEPT ![<<c, p>>] = Reserved]
            /\ modelCall' = [modelCall EXCEPT ![c].phase = "reserving", ![c].todo = @ \ {p}]
    /\ UNCHANGED <<request, ledger, snapshot, dispatched>>

CommitReservations(c) ==
    /\ Phase(c, "reserving") /\ modelCall[c].todo = {}
    /\ policyLock' = [p \in Policies |-> IF policyLock[p] = c THEN NoCall ELSE policyLock[p]]
    /\ CallMoves(c, "reserved")
    /\ UNCHANGED <<request, reservation, ledger, snapshot, dispatched>>

(* The transaction fails, for one when two calls lock the policies in       *)
(* opposite orders.  Only gateway_embeddings has a branch for it.            *)
AbortReservations(c) ==
    /\ Phase(c, "reserving")
    /\ RolledBack(c)
    /\ CallMoves(c, IF modelCall[c].kind = "embedding" THEN "aborted" ELSE "over")
    /\ UNCHANGED <<request, ledger, snapshot, dispatched>>

MarkRefused(c) ==
    /\ modelCall[c].phase \in {"rejected", "aborted"}
    /\ request' = [request EXCEPT ![c] = IF Phase(c, "rejected") THEN "QUOTA_REJECTED" ELSE "FAILED"]
    /\ CallMoves(c, "over")
    /\ UNCHANGED <<reservation, ledger, snapshot, policyLock, dispatched>>

-----------------------------------------------------------------------------
(* The provider, the ledger and the settlement *)

Dispatch(c) ==
    /\ Phase(c, "reserved")
    /\ dispatched' = dispatched \cup {c}
    /\ \E tokens \in Unreported..MaxTokens, next \in {"open", "failing"} :
         modelCall' = [modelCall EXCEPT ![c].phase = next, ![c].tokens = tokens]
    /\ UNCHANGED <<request, reservation, ledger, snapshot, policyLock>>

WriteLedger(c) ==
    /\ Phase(c, "open")
    /\ ledger' = [ledger EXCEPT ![c] =
         IF modelCall[c].tokens = Unreported THEN "INCOMPLETE" ELSE "PROVIDER_REPORTED"]
    /\ CallMoves(c, "ledgered")
    /\ UNCHANGED <<request, reservation, snapshot, policyLock, dispatched>>

(* Without a tariff for the model a cost is not known (_price).              *)
Settlement(p, incomplete, tokens, priced) ==
    IF \/ incomplete /\ p \in Releasing
       \/ ~incomplete /\ p \in Monetary /\ ~priced
    THEN [status |-> "RELEASED", value |-> 0]
    ELSE IF incomplete THEN [status |-> "SETTLED_INCOMPLETE", value |-> 1]
    ELSE [status |-> "SETTLED", value |-> tokens]
Settled(c, incomplete, priced) ==
    [r \in Calls \X Policies |->
       IF r[1] = c /\ reservation[r].status = "RESERVED"
       THEN Settlement(r[2], incomplete, modelCall[c].tokens, priced) ELSE reservation[r]]

SettleQuota(c) ==
    /\ Phase(c, "ledgered")
    /\ \E priced \in BOOLEAN : reservation' = Settled(c, modelCall[c].tokens = Unreported, priced)
    /\ CallMoves(c, "settled")
    /\ UNCHANGED <<request, ledger, snapshot, policyLock, dispatched>>

Succeeds(c) ==
    /\ request' = [request EXCEPT ![c] = "SUCCEEDED"]
    /\ snapshot' = IF modelCall[c].kind = "chat" THEN snapshot \cup {c} ELSE snapshot

Finish(c) ==
    /\ Phase(c, "settled")
    /\ Succeeds(c)
    /\ modelCall' = [modelCall EXCEPT ![c].phase = "over", ![c].answer = c]
    /\ UNCHANGED <<reservation, ledger, policyLock, dispatched>>

(* The handler's statement failed, or it committed and its answer was lost. *)
Fails(c) ==
    /\ modelCall[c].phase \in {"open", "ledgered", "settled"}
    /\ CallMoves(c, "failing")
    /\ \/ UNCHANGED <<request, snapshot>>
       \/ Phase(c, "settled") /\ Succeeds(c)
    /\ UNCHANGED <<reservation, ledger, policyLock, dispatched>>

Released(c) ==
    [r \in Calls \X Policies |->
       IF r[1] = c /\ reservation[r].status = "RESERVED" THEN [status |-> "RELEASED", value |-> 0]
       ELSE reservation[r]]
ReleaseQuota(c) ==
    /\ Phase(c, "failing")
    /\ reservation' = IF modelCall[c].kind = "stream" THEN Settled(c, TRUE, FALSE) ELSE Released(c)
    /\ CallMoves(c, "released")
    /\ UNCHANGED <<request, ledger, snapshot, policyLock, dispatched>>

(* Two of the four branches spare a row that is SUCCEEDED.                   *)
MarkFailed(c) ==
    /\ Phase(c, "released")
    /\ \E spares \in BOOLEAN :
         /\ modelCall[c].kind = "embedding" => spares
         /\ modelCall[c].kind = "stream" => ~spares
         /\ request' = [request EXCEPT ![c] =
              IF spares /\ @ = "SUCCEEDED" THEN @
              ELSE IF modelCall[c].kind = "stream" THEN "INCOMPLETE" ELSE "FAILED"]
    /\ CallMoves(c, "over")
    /\ UNCHANGED <<reservation, ledger, snapshot, policyLock, dispatched>>

-----------------------------------------------------------------------------
(* What ends a call without a branch of its own: its process dies; the      *)
(* secret of the profile cannot be decrypted; the client closes a stream,    *)
(* which the generator does not catch.                                        *)
Abandon(c) ==
    /\ modelCall[c].phase \notin {"idle", "over"}
    /\ IF Phase(c, "reserving") THEN RolledBack(c) ELSE UNCHANGED <<reservation, policyLock>>
    /\ CallMoves(c, "over")
    /\ UNCHANGED <<request, ledger, snapshot, dispatched>>

SnapshotExpires(c) ==
    /\ c \in snapshot
    /\ snapshot' = snapshot \ {c}
    /\ UNCHANGED <<modelCall, request, reservation, ledger, policyLock, dispatched>>

CallsNext ==
    \E c \in Calls :
        \/ \E kind \in Kinds, key \in Keys : CheckKey(c, kind, key)
        \/ InsertRequest(c) \/ CommitReservations(c) \/ AbortReservations(c) \/ MarkRefused(c)
        \/ \E p \in Policies : ReservePolicy(c, p)
        \/ Dispatch(c) \/ WriteLedger(c) \/ SettleQuota(c) \/ Finish(c)
        \/ Fails(c) \/ ReleaseQuota(c) \/ MarkFailed(c) \/ Abandon(c) \/ SnapshotExpires(c)

CallsSpec == CallsInit /\ [][CallsNext]_callVars

-----------------------------------------------------------------------------
(* Properties *)

(* A retry never dispatches the provider again: of the calls with one       *)
(* idempotency key at most one reaches it, however they interleave and      *)
(* wherever one of them stopped.                                            *)
OneDispatchPerKey == \A c, d \in dispatched : SameKey(c, d) => c = d

(* Whoever got an answer, from the provider or replayed, got one that is in *)
(* the ledger and that every quota was charged for, unless the policy       *)
(* releases what the provider did not report or counts a cost nobody priced. *)
AnswersAreCharged ==
    \A c \in Calls : modelCall[c].answer # NoCall =>
        LET d == modelCall[c].answer IN
        /\ d \in dispatched /\ ledger[d] # "none"
        /\ \A p \in Policies :
             \/ reservation[<<d, p>>].status \in {"SETTLED", "SETTLED_INCOMPLETE"}
             \/ ledger[d] = "INCOMPLETE" /\ p \in Releasing
             \/ ledger[d] # "INCOMPLETE" /\ p \in Monetary

TotalOf(p) == SumFunctionOnSet(ValueOn(p), {d \in Calls : reservation[<<d, p>>].status \in Counted})
(* A hard quota has room for what is reserved on it, counting all that other *)
(* transactions have not committed yet: no two calls share the last unit.     *)
HardQuotaHolds ==
    [][\A c \in Calls, p \in Hard :
         reservation[<<c, p>>] = NoReservation /\ reservation'[<<c, p>>] # NoReservation
           => TotalOf(p)' <= Limit]_callVars

(* All three. *)
ModelCallsHold == HardQuotaHolds /\ []OneDispatchPerKey /\ []AnswersAreCharged
=============================================================================
