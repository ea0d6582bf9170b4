--------------------------- MODULE SchedulerLease ---------------------------
(***************************************************************************)
(* The lease of a scheduler group: acquire, verify and release of          *)
(* graph_scheduler.py, and the claims a scheduler makes under its lease    *)
(* (claim_ready of graph_runtime.py verifies it first, in a transaction of *)
(* its own).                                                               *)
(*                                                                         *)
(* acquire_scheduler_lease reads the row without a lock and writes a token *)
(* computed from what it read, so it is two actions.                       *)
(***************************************************************************)
EXTENDS Naturals

CONSTANTS
    Schedulers,
    Nobody,       \* the owner of a row that does not exist
    MaxToken      \* bound: fencing tokens

ASSUME LeaseAssumption ==
    Nobody \notin Schedulers /\ MaxToken \in Nat \ {0}

VARIABLES
    lease,    \* the GRAPH_SCHEDULER_LEASES row of the group
    grants,   \* history: <<scheduler, token>> pairs acquire returned
    book,     \* per scheduler: row read by acquire, token held, claim verified
    crossed   \* history: an acquire wrote over a row that changed since its read

leaseVars == <<lease, grants, book, crossed>>

Tokens == 0..MaxToken
Row == [owner : Schedulers \cup {Nobody}, token : Tokens, active : BOOLEAN, expired : BOOLEAN]
NoRow == [owner |-> Nobody, token |-> 0, active |-> FALSE, expired |-> TRUE]
(* held = 0: acquire has not returned a lease. *)
Closed == [reading |-> FALSE, row |-> NoRow, held |-> 0, verified |-> FALSE]

LeaseTypeOK ==
    /\ lease \in Row
    /\ grants \subseteq (Schedulers \X Tokens)
    /\ book \in [Schedulers -> [reading : BOOLEAN, row : Row, held : Tokens, verified : BOOLEAN]]
    /\ crossed \in BOOLEAN

LeaseInit ==
    /\ lease = NoRow
    /\ grants = {}
    /\ book = [s \in Schedulers |-> Closed]
    /\ crossed = FALSE

-----------------------------------------------------------------------------

(* The lease another scheduler holds refuses the call, and the caller stops. *)
Refused(s, row) == row.active /\ row.owner # s /\ ~row.expired

AcquireRead(s) ==
    /\ ~book[s].reading /\ ~book[s].verified
    /\ book' = [book EXCEPT ![s] = IF Refused(s, lease) THEN Closed
                                   ELSE [@ EXCEPT !.reading = TRUE, !.row = lease]]
    /\ UNCHANGED <<lease, grants, crossed>>

SameToken(s, row) == IF row.active THEN row.token ELSE row.token + 1
(* A renewal keeps the token; a takeover, or a lease released before, takes *)
(* the next one after the row that was read.                                *)
NextToken(s, row) == IF row.active /\ row.owner = s THEN row.token ELSE row.token + 1

(* The conditional update. *)
Wins(s) == lease.owner = s \/ ~lease.active \/ lease.expired

(* Where no row was read the write is an INSERT; one that collides aborts   *)
(* the transaction, as nothing sets a savepoint before it.                  *)
AcquireWrite(s) ==
    LET row == book[s].row
        token == NextToken(s, row)
    IN
    /\ book[s].reading
    /\ token <= MaxToken
    /\ IF Wins(s) /\ (row = NoRow => lease = NoRow)
       THEN /\ lease' = [owner |-> s, token |-> token, active |-> TRUE, expired |-> FALSE]
            /\ grants' = grants \cup {<<s, token>>}
            /\ crossed' = (crossed \/ lease # row)
            /\ book' = [book EXCEPT ![s].reading = FALSE, ![s].row = NoRow, ![s].held = token]
       ELSE /\ book' = [book EXCEPT ![s] = Closed]
            /\ UNCHANGED <<lease, grants, crossed>>

(* verify_scheduler_lease, then the claim in another transaction. *)
Valid(s) ==
    /\ lease.owner = s /\ lease.token = book[s].held
    /\ lease.active /\ ~lease.expired

Verify(s) ==
    /\ book[s].held > 0 /\ ~book[s].reading /\ ~book[s].verified
    /\ Valid(s)
    /\ book' = [book EXCEPT ![s].verified = TRUE]
    /\ UNCHANGED <<lease, grants, crossed>>

ClaimUnderLease(s) ==
    /\ book[s].verified
    /\ book' = [book EXCEPT ![s].verified = FALSE]
    /\ UNCHANGED <<lease, grants, crossed>>

(* release_scheduler_lease: by owner and token, whether expired or not. *)
Releases(s) == lease.owner = s /\ lease.active /\ lease.token = book[s].held

(* The row stays, so that the next lease continues its tokens. *)
Inactive(row) == [row EXCEPT !.active = FALSE]

Release(s) ==
    /\ book[s].held > 0 /\ ~book[s].reading /\ ~book[s].verified
    /\ lease' = IF Releases(s) THEN Inactive(lease) ELSE lease
    /\ book' = [book EXCEPT ![s] = Closed]
    /\ UNCHANGED <<grants, crossed>>

(* EXPIRES_AT passes. *)
LeaseExpires ==
    /\ lease.active /\ ~lease.expired
    /\ lease' = [lease EXCEPT !.expired = TRUE]
    /\ UNCHANGED <<grants, book, crossed>>

(* A scheduler process dies and forgets what it held. *)
SchedulerDies(s) ==
    /\ book[s] # Closed
    /\ book' = [book EXCEPT ![s] = Closed]
    /\ UNCHANGED <<lease, grants, crossed>>

LeaseNext ==
    \/ \E s \in Schedulers :
         \/ AcquireRead(s) \/ AcquireWrite(s)
         \/ Verify(s) \/ ClaimUnderLease(s) \/ Release(s) \/ SchedulerDies(s)
    \/ LeaseExpires

LeaseSpec == LeaseInit /\ [][LeaseNext]_leaseVars

-----------------------------------------------------------------------------
(* Properties *)

(* A fencing token names one scheduler: what was done under a token can be  *)
(* told from what another scheduler does after the lease changed hands.     *)
(* Both hold until an acquire writes over a row it has not read.           *)
TokenNamesOneScheduler ==
    ~crossed => \A g, h \in grants : g[2] = h[2] => g[1] = h[1]

(* Only the newest token is accepted: a scheduler that stalled and lost the *)
(* lease cannot claim with the token it still holds.                        *)
AcceptedIsNewest ==
    [][~crossed => \A s \in Schedulers : book'[s].verified /\ ~book[s].verified =>
           \A g \in grants : g[2] <= book[s].held]_leaseVars
=============================================================================
