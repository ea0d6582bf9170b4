--------------------------- MODULE ServicesProofs ----------------------------
(***************************************************************************)
(* What the services of the graph engine promise, for any schedulers,      *)
(* callers, dispatchers, claimants, jobs and workers: a fencing token      *)
(* names one scheduler, an event takes effect once, a message goes out     *)
(* within its bounds, a budget bounds what is active, and the queues of    *)
(* jobs that execute and that embed are leased work.  The parts share no   *)
(* row; each has an invariant of its own, and the last part puts them      *)
(* together.                                                               *)
(***************************************************************************)
EXTENDS MCServices, FiniteSetTheorems, TLAPS

-----------------------------------------------------------------------------
(* The lease of a scheduler group *)

(* As long as no acquire writes over a row it has not read, a token names  *)
(* one scheduler, tokens only grow, and a claim is accepted under the      *)
(* newest token alone.                                                     *)

USE LeaseAssumption

(* The invariant: every token that was granted is at most the one in the   *)
(* row, and those that equal it were granted to the row's owner.           *)
GrantsFollowRow ==
    /\ \A g \in grants : g[2] <= lease.token
    /\ \A g \in grants : g[2] = lease.token => g[1] = lease.owner
    /\ lease = NoRow => grants = {}

LeaseInv ==
    /\ LeaseTypeOK
    /\ ~crossed => GrantsFollowRow /\ TokenNamesOneScheduler

LEMMA LeaseRows == NoRow \in Row /\ Closed \in [reading : BOOLEAN, row : Row, held : Tokens, verified : BOOLEAN]
BY DEF NoRow, Row, Closed, Tokens

LEMMA LeaseBegins == LeaseInit => LeaseInv
BY LeaseRows DEF LeaseInit, LeaseInv, LeaseTypeOK, GrantsFollowRow, TokenNamesOneScheduler

LEMMA NextTokenType ==
    ASSUME NEW s, NEW row \in Row, NextToken(s, row) <= MaxToken
    PROVE  NextToken(s, row) \in Tokens
BY DEF NextToken, Row, Tokens

(* An acquire that writes over the row it read takes a token that is newer *)
(* than every grant, or renews its own.                                    *)
LEMMA NextTokenIsFresh ==
    ASSUME NEW s \in Schedulers, LeaseInv, ~crossed
    PROVE  /\ NextToken(s, lease) >= lease.token
           /\ NextToken(s, lease) = lease.token => lease.owner = s
           /\ \A g \in grants : g[2] <= NextToken(s, lease)
           /\ \A g \in grants : g[2] = NextToken(s, lease) => g[1] = s
<1>1. /\ lease.token \in Nat
      /\ NextToken(s, lease) >= lease.token
      /\ NextToken(s, lease) = lease.token => lease.owner = s
  BY DEF LeaseInv, LeaseTypeOK, Row, Tokens, NextToken
<1>2. \A g \in grants : g[2] \in Nat
  BY DEF LeaseInv, LeaseTypeOK, Tokens
<1>3. NextToken(s, lease) \in Nat
  BY <1>1 DEF NextToken
<1>4. ASSUME NEW g \in grants PROVE g[2] <= NextToken(s, lease)
  BY <1>1, <1>2, <1>3 DEF LeaseInv, GrantsFollowRow
<1>5. ASSUME NEW g \in grants, g[2] = NextToken(s, lease) PROVE g[1] = s
  BY <1>1, <1>2, <1>3, <1>5 DEF LeaseInv, GrantsFollowRow
<1> QED BY <1>1, <1>4, <1>5

LEMMA WriteKeeps ==
    ASSUME LeaseInv, NEW s \in Schedulers, AcquireWrite(s)
    PROVE  LeaseInv'
<1> DEFINE row == book[s].row
           token == NextToken(s, row)
<1>1. row \in Row /\ token \in Tokens
  BY NextTokenType DEF AcquireWrite, LeaseInv, LeaseTypeOK
<1>2. CASE Wins(s) /\ (row = NoRow => lease = NoRow)
  <2>1. /\ lease' = [owner |-> s, token |-> token, active |-> TRUE, expired |-> FALSE]
        /\ grants' = grants \cup {<<s, token>>}
        /\ crossed' = (crossed \/ lease # row)
        /\ book' = [book EXCEPT ![s].reading = FALSE, ![s].row = NoRow, ![s].held = token]
    BY <1>2 DEF AcquireWrite
  <2>2. lease' \in Row /\ grants' \subseteq Schedulers \X Tokens /\ crossed' \in BOOLEAN
    BY <1>1, <2>1 DEF Row, LeaseInv, LeaseTypeOK
  <2>3. book' \in [Schedulers -> [reading : BOOLEAN, row : Row, held : Tokens, verified : BOOLEAN]]
    BY <1>1, <2>1, LeaseRows DEF LeaseInv, LeaseTypeOK
  <2>4. ASSUME ~crossed' PROVE GrantsFollowRow' /\ TokenNamesOneScheduler'
    <3>1. ~crossed /\ lease = row
      BY <2>1, <2>4
    <3>2. \A g \in grants : g[2] <= token /\ (g[2] = token => g[1] = s)
      BY <3>1, NextTokenIsFresh
    <3>3. lease'.token = token /\ lease'.owner = s /\ lease'.active
      BY <2>1
    <3>4. lease' # NoRow
      BY <3>3 DEF NoRow
    <3>5. GrantsFollowRow'
      BY <1>1, <2>1, <3>2, <3>3, <3>4 DEF GrantsFollowRow, Tokens
    <3>6. TokenNamesOneScheduler'
      BY <2>1, <3>1, <3>2 DEF TokenNamesOneScheduler, LeaseInv
    <3> QED BY <3>5, <3>6
  <2> QED BY <2>2, <2>3, <2>4 DEF LeaseInv, LeaseTypeOK
<1>3. CASE ~(Wins(s) /\ (row = NoRow => lease = NoRow))
  <2>1. book' = [book EXCEPT ![s] = Closed] /\ UNCHANGED <<lease, grants, crossed>>
    BY <1>3 DEF AcquireWrite
  <2>2. book' \in [Schedulers -> [reading : BOOLEAN, row : Row, held : Tokens, verified : BOOLEAN]]
    BY <2>1, LeaseRows DEF LeaseInv, LeaseTypeOK
  <2> QED BY <2>1, <2>2 DEF LeaseInv, LeaseTypeOK, GrantsFollowRow, TokenNamesOneScheduler
<1> QED BY <1>2, <1>3

(* Every other step leaves the row's token and owner as they are. *)
LEMMA QuietStepKeeps ==
    ASSUME LeaseInv, UNCHANGED <<grants, crossed>>,
           lease' = lease \/ lease' = [lease EXCEPT !.active = FALSE] \/ lease' = [lease EXCEPT !.expired = TRUE],
           lease' # lease => lease.active,
           book' \in [Schedulers -> [reading : BOOLEAN, row : Row, held : Tokens, verified : BOOLEAN]]
    PROVE  LeaseInv'
<1>1. lease' \in Row /\ lease'.token = lease.token /\ lease'.owner = lease.owner /\ lease.token \in Nat
  <2>1. /\ lease = [owner |-> lease.owner, token |-> lease.token, active |-> lease.active, expired |-> lease.expired]
        /\ lease.owner \in Schedulers \cup {Nobody} /\ lease.token \in Tokens
        /\ lease.active \in BOOLEAN /\ lease.expired \in BOOLEAN
    BY DEF LeaseInv, LeaseTypeOK, Row
  <2>2. CASE lease' = lease BY <2>1, <2>2 DEF Row, Tokens
  <2>3. CASE lease' = [lease EXCEPT !.active = FALSE]
    <3>1. lease' = [owner |-> lease.owner, token |-> lease.token, active |-> FALSE, expired |-> lease.expired]
      BY <2>1, <2>3
    <3> QED BY <2>1, <3>1 DEF Row, Tokens
  <2>4. CASE lease' = [lease EXCEPT !.expired = TRUE]
    <3>1. lease' = [owner |-> lease.owner, token |-> lease.token, active |-> lease.active, expired |-> TRUE]
      BY <2>1, <2>4
    <3> QED BY <2>1, <3>1 DEF Row, Tokens
  <2> QED BY <2>2, <2>3, <2>4
<1>2. ASSUME ~crossed PROVE lease' = NoRow => grants' = {}
  <2>1. CASE lease' = lease BY <1>2, <2>1 DEF LeaseInv, GrantsFollowRow
  <2>2. CASE lease' # lease /\ lease' = NoRow
    <3>1. lease.token = 0 /\ lease.owner = Nobody BY <1>1, <2>2 DEF NoRow
    <3>2. ASSUME NEW g \in grants PROVE FALSE
      <4>1. g[2] \in Nat /\ g[1] \in Schedulers BY DEF LeaseInv, LeaseTypeOK, Tokens
      <4>2. g[2] = 0 BY <1>2, <3>1, <4>1 DEF LeaseInv, GrantsFollowRow
      <4> QED BY <1>2, <3>1, <4>1, <4>2 DEF LeaseInv, GrantsFollowRow
    <3> QED BY <3>2
  <2> QED BY <2>1, <2>2
<1>3. LeaseTypeOK'
  BY <1>1 DEF LeaseInv, LeaseTypeOK
<1>4. ~crossed' => GrantsFollowRow' /\ TokenNamesOneScheduler'
  BY <1>1, <1>2 DEF LeaseInv, GrantsFollowRow, TokenNamesOneScheduler
<1> QED BY <1>1, <1>3, <1>4 DEF LeaseInv

LEMMA LeaseStepKeeps ==
    ASSUME LeaseInv, [LeaseNext]_leaseVars
    PROVE  LeaseInv'
<1> DEFINE Book == [Schedulers -> [reading : BOOLEAN, row : Row, held : Tokens, verified : BOOLEAN]]
<1>0. book \in Book /\ lease \in Row
  BY DEF LeaseInv, LeaseTypeOK
<1>1. CASE UNCHANGED leaseVars
  BY <1>0, <1>1, QuietStepKeeps DEF leaseVars
<1>2. CASE LeaseExpires
  BY <1>0, <1>2, QuietStepKeeps DEF LeaseExpires
<1>3. ASSUME NEW s \in Schedulers, AcquireRead(s)
      PROVE  LeaseInv'
  <2>1. book' \in Book BY <1>0, <1>3, LeaseRows DEF AcquireRead
  <2> QED BY <1>3, <2>1, QuietStepKeeps DEF AcquireRead
<1>4. ASSUME NEW s \in Schedulers, AcquireWrite(s)
      PROVE  LeaseInv'
  BY <1>4, WriteKeeps
<1>5. ASSUME NEW s \in Schedulers, Verify(s) \/ ClaimUnderLease(s)
      PROVE  LeaseInv'
  <2>1. book' \in Book BY <1>0, <1>5, SMTT(20), ZenonT(40) DEF Verify, ClaimUnderLease
  <2> QED BY <1>5, <2>1, QuietStepKeeps DEF Verify, ClaimUnderLease
<1>6. ASSUME NEW s \in Schedulers, Release(s)
      PROVE  LeaseInv'
  <2>1. book' \in Book BY <1>0, <1>6, LeaseRows DEF Release
  <2>2. /\ lease' = lease \/ lease' = [lease EXCEPT !.active = FALSE]
        /\ lease' # lease => lease.active
    BY <1>6 DEF Release, Releases, Inactive
  <2> QED BY <1>6, <2>1, <2>2, QuietStepKeeps DEF Release
<1>7. ASSUME NEW s \in Schedulers, SchedulerDies(s)
      PROVE  LeaseInv'
  <2>1. book' \in Book BY <1>0, <1>7, LeaseRows DEF SchedulerDies
  <2> QED BY <1>7, <2>1, QuietStepKeeps DEF SchedulerDies
<1> QED BY <1>1, <1>2, <1>3, <1>4, <1>5, <1>6, <1>7 DEF LeaseNext

LEMMA LeaseKeeps == LeaseSpec => []LeaseInv
<1>1. LeaseInv /\ [LeaseNext]_leaseVars => LeaseInv' BY LeaseStepKeeps
<1> QED BY LeaseBegins, <1>1, PTL DEF LeaseSpec

(* The row, the grants and what every scheduler remembers have their types *)
(* whatever acquire, verify and release do (graph_scheduler.py:204-351).   *)
THEOREM LeaseTypes == LeaseSpec => []LeaseTypeOK
<1>1. LeaseInv => LeaseTypeOK BY DEF LeaseInv
<1> QED BY LeaseKeeps, <1>1, PTL

(* A fencing token names one scheduler.                                     *)
THEOREM TokensNameOneScheduler == LeaseSpec => []TokenNamesOneScheduler
<1>1. LeaseInv => TokenNamesOneScheduler BY DEF LeaseInv, TokenNamesOneScheduler
<1> QED BY LeaseKeeps, <1>1, PTL

(* Only the newest token passes verify_scheduler_lease, so a scheduler that *)
(* stalled and lost the lease claims nothing with the token it still has.   *)
THEOREM OnlyNewestAccepted == LeaseSpec => AcceptedIsNewest
<1> DEFINE Newest == ~crossed => \A s \in Schedulers : book'[s].verified /\ ~book[s].verified =>
                         \A g \in grants : g[2] <= book[s].held
<1>1. ASSUME LeaseInv, [LeaseNext]_leaseVars PROVE [Newest]_leaseVars
  <2> SUFFICES ASSUME ~crossed, NEW s \in Schedulers, book'[s].verified, ~book[s].verified
               PROVE  \A g \in grants : g[2] <= book[s].held
    OBVIOUS
  <2>1. lease.token = book[s].held => \A g \in grants : g[2] <= book[s].held
    BY <1>1 DEF LeaseInv, GrantsFollowRow
  <2>2. Verify(s) => lease.token = book[s].held
    BY DEF Verify, Valid
  <2>3. ~UNCHANGED leaseVars /\ book' # book
    BY DEF leaseVars
  <2>4. PICK t \in Schedulers : \/ AcquireRead(t) \/ AcquireWrite(t) \/ Verify(t)
                                \/ ClaimUnderLease(t) \/ Release(t) \/ SchedulerDies(t)
    BY <1>1, <2>3 DEF LeaseNext, LeaseExpires
  <2>5. t = s /\ Verify(s)
    <3>1. book \in [Schedulers -> [reading : BOOLEAN, row : Row, held : Tokens, verified : BOOLEAN]]
      BY <1>1 DEF LeaseInv, LeaseTypeOK
    <3>2. CASE Verify(t) BY <2>4, <3>1, <3>2 DEF Verify
    <3>3. CASE AcquireRead(t) BY <2>4, <3>1, <3>3 DEF AcquireRead, Closed
    <3>4. CASE AcquireWrite(t)
      <4>1. \/ book' = [book EXCEPT ![t] = Closed]
            \/ book' = [book EXCEPT ![t].reading = FALSE, ![t].row = NoRow,
                                   ![t].held = NextToken(t, book[t].row)]
        BY <3>4 DEF AcquireWrite
      <4> QED BY <2>4, <3>1, <4>1 DEF Closed
    <3>5. CASE ClaimUnderLease(t) BY <2>4, <3>1, <3>5 DEF ClaimUnderLease
    <3>6. CASE Release(t) BY <2>4, <3>1, <3>6 DEF Release, Closed
    <3>7. CASE SchedulerDies(t) BY <2>4, <3>1, <3>7 DEF SchedulerDies, Closed
    <3> QED BY <2>4, <3>2, <3>3, <3>4, <3>5, <3>6, <3>7
  <2> QED BY <2>1, <2>2, <2>5
<1> QED BY LeaseKeeps, <1>1, PTL DEF LeaseSpec, AcceptedIsNewest

HIDE LeaseAssumption

-----------------------------------------------------------------------------
(* The event inbox *)

(* At most one call at a time works on the row of an event, in the status  *)
(* that call left the row in; once the effect has happened nobody is left  *)
(* who could repeat it.                                                    *)

(* A call that has to do with the row of e, before what its trigger starts. *)
Works(c, e) ==
    call[c].kind # "none" /\ call[c].event = e /\ call[c].stage \notin {"lookup", "create"}

(* One delivery, replay or consumer works on a row, in the status it left   *)
(* the row in, and after the effect nobody is left who could repeat it.     *)
HeldByOne(e) ==
    /\ \A c, d \in Callers : Works(c, e) /\ Works(d, e) => c = d
    /\ \A c \in Callers : Works(c, e) =>
           /\ inbox[e] = IF call[c].stage = "inserted" THEN "RECEIVED" ELSE "PROCESSING"
           /\ call[c].stage = "done" <=> effects[e] > 0
    /\ effects[e] <= 1
    /\ effects[e] > 0 => inbox[e] \in {"PROCESSING", "PROCESSED"}

InboxRow(e) ==
    /\ started[e] <= 1
    /\ inbox[e] = "PROCESSED" => effects[e] > 0
    /\ inbox[e] = "NONE" => effects[e] = 0 /\ \A c \in Callers : ~Works(c, e)
    /\ \A c \in Callers : Works(c, e) =>
           /\ call[c].stage = "inserted" => call[c].kind = "ingest"
           /\ call[c].stage = "done" => effects[e] > 0
    /\ e \notin snatched => HeldByOne(e)

InboxInv == EventsTypeOK /\ \A e \in Events : InboxRow(e)

WaitsWereOpened == \A e \in Events : waiting[e] <= opened[e]

(* What a call in flight is. *)
LEMMA CallParts ==
    ASSUME EventsTypeOK, NEW c \in Callers
    PROVE  \/ call[c] = NoCall
           \/ /\ call[c] = [kind |-> call[c].kind, event |-> call[c].event, stage |-> call[c].stage,
                            seen |-> call[c].seen]
              /\ call[c].kind \in Kinds /\ call[c].event \in Events /\ call[c].stage \in Stages
              /\ call[c].seen \in Nat
BY DEF EventsTypeOK, Call

(* A step in which one caller c goes on with its call for e, or takes it up: *)
(* only the row of e, and the works of c, are to be looked at.               *)
LEMMA OneRowMoves ==
    ASSUME InboxInv, NEW c \in Callers, NEW e \in Events, NEW next \in Call \cup {NoCall},
           call' = [call EXCEPT ![c] = next],
           call[c] = NoCall \/ call[c].event = e,
           next = NoCall \/ next.event = e,
           EventsTypeOK', InboxRow(e)',
           \A f \in Events \ {e} :
               /\ inbox'[f] = inbox[f] /\ started'[f] = started[f] /\ effects'[f] = effects[f]
               /\ f \in snatched => f \in snatched'
    PROVE  InboxInv'
<1>1. /\ call \in [Callers -> Call \cup {NoCall}] /\ call'[c] = next
      /\ \A d \in Callers : d # c => call'[d] = call[d]
  BY DEF InboxInv, EventsTypeOK
<1>2. ASSUME NEW f \in Events \ {e}
      PROVE  InboxRow(f)'
  <2>1. InboxRow(f)
    BY DEF InboxInv
  <2>2. \A d \in Callers : Works(d, f)' <=> Works(d, f)
    BY <1>1 DEF Works, NoCall
  <2>3. \A d \in Callers : Works(d, f) => call'[d] = call[d]
    BY <1>1 DEF Works, NoCall
  <2> QED
    BY <2>1, <2>2, <2>3 DEF InboxRow, HeldByOne
<1> QED
  BY <1>2 DEF InboxInv

LEMMA RefusedCall ==
    ASSUME NEW c \in Callers, call \in [Callers -> Call \cup {NoCall}], NEW n \in Nat,
           call[c] = [kind |-> call[c].kind, event |-> call[c].event, stage |-> call[c].stage,
                      seen |-> call[c].seen]
    PROVE  [call EXCEPT ![c].stage = "refused", ![c].seen = n]
             = [call EXCEPT ![c] = [kind |-> call[c].kind, event |-> call[c].event,
                                    stage |-> "refused", seen |-> n]]
<1> DEFINE row == [[call[c] EXCEPT !.stage = "refused"] EXCEPT !.seen = n]
<1>1. [call[c] EXCEPT !.stage = "refused"]
          = [kind |-> call[c].kind, event |-> call[c].event, stage |-> "refused", seen |-> call[c].seen]
  OBVIOUS
<1>2. row = [kind |-> call[c].kind, event |-> call[c].event, stage |-> "refused", seen |-> n]
  <2>1. [[kind |-> call[c].kind, event |-> call[c].event, stage |-> "refused", seen |-> call[c].seen]
             EXCEPT !.seen = n]
          = [kind |-> call[c].kind, event |-> call[c].event, stage |-> "refused", seen |-> n]
    OBVIOUS
  <2> QED
    BY <1>1, <2>1, Zenon
<1>3. [call EXCEPT ![c].stage = "refused", ![c].seen = n] = [call EXCEPT ![c] = row]
  OBVIOUS
<1> HIDE DEF row
<1> QED
  BY <1>2, <1>3

LEMMA EventsTypeStep ==
    ASSUME EventsTypeOK, NEW c \in Callers, EventStep(c)
    PROVE  EventsTypeOK'
<1> USE EventAssumption DEF EventsTypeOK
<1>0. \A kind \in Kinds, e \in Events, stage \in Stages :
          [kind |-> kind, event |-> e, stage |-> stage, seen |-> 0] \in Call
  BY DEF Call
<1>1. ASSUME NEW e \in Events, NEW v \in {"ok", "held", "poison"}, Ingest(c, e, v)
      PROVE  EventsTypeOK'
  BY <1>0, <1>1 DEF Ingest, Enter, InboxStatus, Kinds, Stages
<1>2. ASSUME NEW e \in Events, Redeliver(c, e)
      PROVE  EventsTypeOK'
  BY <1>0, <1>2 DEF Redeliver, IngestDuplicate, Enter, Kinds, Stages
<1>3. ASSUME NEW e \in Events, ReplayTake(c, e)
      PROVE  EventsTypeOK'
  BY <1>0, <1>3 DEF ReplayTake, Enter, InboxStatus, Kinds, Stages
<1>4. ASSUME NEW e \in Events, ConsumeTake(c, e)
      PROVE  EventsTypeOK'
  <2>0. snatched' \subseteq Events
    BY <1>4 DEF ConsumeTake
  <2>1. CASE tries[e] < MaxTries
    <3>1. call' \in [Callers -> Call \cup {NoCall}]
      BY <1>0, <1>4, <2>1, SMTT(20), ZenonT(40) DEF ConsumeTake, Enter, Kinds, Stages
    <3> QED
      BY <1>4, <2>0, <2>1, <3>1 DEF ConsumeTake, InboxStatus
  <2>2. CASE ~(tries[e] < MaxTries)
    BY <1>4, <2>0, <2>2 DEF ConsumeTake, InboxStatus
  <2> QED
    BY <2>1, <2>2
<1>5. ASSUME NEW stage \in Stages, call[c].kind # "none"
      PROVE  /\ call[c].event \in Events
             /\ [call[c] EXCEPT !.stage = stage] =
                    [kind |-> call[c].kind, event |-> call[c].event, stage |-> stage, seen |-> call[c].seen]
             /\ [call EXCEPT ![c].stage = stage] \in [Callers -> Call \cup {NoCall}]
  <2>1. /\ call[c] = [kind |-> call[c].kind, event |-> call[c].event, stage |-> call[c].stage,
                      seen |-> call[c].seen]
        /\ call[c].kind \in Kinds /\ call[c].event \in Events /\ call[c].seen \in Nat
    BY <1>5, CallParts DEF NoCall
  <2>2. [call[c] EXCEPT !.stage = stage] =
            [kind |-> call[c].kind, event |-> call[c].event, stage |-> stage, seen |-> call[c].seen]
    BY <2>1
  <2>3. [call[c] EXCEPT !.stage = stage] \in Call
    BY <2>1, <2>2 DEF Call
  <2> QED
    BY <2>1, <2>2, <2>3
<1>6. CASE IngestTake(c)
  BY <1>5, <1>6 DEF IngestTake, At, Move, Advance, Stages, InboxStatus
<1>7. CASE Apply(c)
  BY <1>5, <1>7 DEF Apply, Idles, Advance, Stages
<1>8. CASE Refuse(c)
  <2>1. /\ call[c] = [kind |-> call[c].kind, event |-> call[c].event, stage |-> call[c].stage,
                      seen |-> call[c].seen]
        /\ call[c].kind \in Kinds /\ call[c].event \in Events
    BY <1>8, CallParts DEF NoCall, Refuse, Idles
  <2>2. [kind |-> call[c].kind, event |-> call[c].event, stage |-> "refused",
         seen |-> tries[call[c].event]] \in Call
    BY <2>1 DEF Call, Stages
  <2>3. call' = [call EXCEPT ![c] = [kind |-> call[c].kind, event |-> call[c].event,
                                     stage |-> "refused", seen |-> tries[call[c].event]]]
    BY <1>8, <2>1, RefusedCall DEF Refuse
  <2> QED
    BY <1>8, <2>2, <2>3, SMTT(20), ZenonT(40) DEF Refuse
<1>9. CASE Settle(c) \/ GiveUp(c)
  <2>1. \A status \in InboxStatus : Move(call[c].event, {"PROCESSING"}, status) =>
            inbox' \in [Events -> InboxStatus \cup {"NONE"}]
    BY DEF Move
  <2>2. Outcome(c) \in InboxStatus
    BY DEF Outcome, AfterFailure, InboxStatus
  <2>3. CASE Settle(c)
    BY <1>5, <2>1, <2>2, <2>3 DEF Settle, Idles, Advance, Leave, Stages
  <2>4. CASE GiveUp(c)
    BY <2>1, <2>4 DEF GiveUp, Leave, InboxStatus
  <2> QED
    BY <1>9, <2>3, <2>4
<1>10. CASE LookUpRun(c) \/ CreateRun(c) \/ Die(c)
  <2>1. call[c].kind # "none" => call[c].event \in Events
    BY CallParts DEF NoCall
  <2> QED
    BY <1>5, <1>10, <2>1 DEF LookUpRun, CreateRun, Die, At, Idles, Advance, Leave, Stages
<1> QED
  BY <1>1, <1>2, <1>3, <1>4, <1>6, <1>7, <1>8, <1>9, <1>10 DEF EventStep

LEMMA EnterCall ==
    ASSUME NEW kind \in Kinds, NEW e \in Events, NEW stage \in Stages
    PROVE  [kind |-> kind, event |-> e, stage |-> stage, seen |-> 0] \in Call
BY DEF Call

(* A call is taken up, from nothing. *)
LEMMA EntriesKeep ==
    ASSUME InboxInv, NEW c \in Callers, NEW e \in Events,
           \/ \E v \in {"ok", "held", "poison"} : Ingest(c, e, v)
           \/ Redeliver(c, e) \/ ReplayTake(c, e) \/ ConsumeTake(c, e)
    PROVE  InboxInv'
<1>0. /\ InboxRow(e) /\ EventsTypeOK /\ EventsTypeOK' /\ call[c] = NoCall
      /\ call \in [Callers -> Call \cup {NoCall}]
      /\ call = [call EXCEPT ![c] = NoCall]
  <2>1. EventStep(c)
    BY DEF EventStep
  <2>2. InboxRow(e) /\ EventsTypeOK /\ call[c].kind = "none"
    BY DEF InboxInv, Ingest, Redeliver, ReplayTake, ConsumeTake, Idles
  <2>3. call[c] = NoCall
    BY <2>2, CallParts DEF Kinds
  <2> QED
    BY <2>1, <2>2, <2>3, EventsTypeStep DEF EventsTypeOK
<1>1. \A d \in Callers : ~Works(c, e) /\ (d # c => call'[d] = call[d])
  BY <1>0 DEF Works, NoCall, Ingest, Redeliver, IngestDuplicate, ReplayTake, ConsumeTake, Enter
<1>2. ASSUME NEW v \in {"ok", "held", "poison"}, Ingest(c, e, v)
      PROVE  InboxInv'
  <2>1. PICK next \in Call \cup {NoCall} :
            /\ call' = [call EXCEPT ![c] = next]
            /\ \/ next = NoCall
               \/ v = "ok" /\ next = [kind |-> "ingest", event |-> e, stage |-> "inserted", seen |-> 0]
    BY <1>0, <1>2, EnterCall DEF Ingest, Enter, Kinds, Stages
  <2>2. /\ call'[c] = next /\ inbox[e] = "NONE" /\ UNCHANGED <<started, effects, snatched>>
        /\ inbox' = [inbox EXCEPT ![e] = IF v = "poison" THEN "DEAD_LETTER" ELSE "RECEIVED"]
    BY <1>0, <1>2, <2>1 DEF Ingest
  <2>3. InboxRow(e)'
    <3>1. \A d \in Callers : Works(d, e)' => d = c /\ next # NoCall
      BY <1>0, <1>1, <2>1, <2>2 DEF InboxRow, Works, NoCall
    <3>2. effects[e] = 0
      BY <1>0, <2>2 DEF InboxRow
    <3>3. inbox'[e] \in {"DEAD_LETTER", "RECEIVED"} /\ (v = "ok" => inbox'[e] = "RECEIVED")
      BY <1>0, <2>2 DEF EventsTypeOK
    <3> QED
      BY <1>0, <2>1, <2>2, <3>1, <3>2, <3>3 DEF InboxRow, HeldByOne
  <2> QED
    BY <1>0, <2>1, <2>2, <2>3, OneRowMoves, SMTT(20), ZenonT(40) DEF EventsTypeOK, NoCall
<1>3. CASE Redeliver(c, e)
  <2> DEFINE next == [kind |-> "ingest", event |-> e, stage |-> "lookup", seen |-> 0]
  <2>1. /\ next \in Call /\ call' = [call EXCEPT ![c] = next] /\ UNCHANGED <<inbox, started, effects, snatched>>
    BY <1>3, EnterCall DEF Redeliver, IngestDuplicate, Enter, Kinds, Stages
  <2>2. call'[c] = next
    BY <1>0, <2>1
  <2>3. InboxRow(e)'
    <3>1. \A d \in Callers : Works(d, e)' => Works(d, e) /\ call'[d] = call[d]
      BY <1>1, <2>2 DEF Works
    <3> QED
      BY <1>0, <2>1, <3>1 DEF InboxRow, HeldByOne
  <2> QED
    BY <1>0, <2>1, <2>3, OneRowMoves
<1>4. CASE ReplayTake(c, e) \/ (ConsumeTake(c, e) /\ tries[e] < MaxTries)
  <2>1. PICK next \in Call :
            /\ call' = [call EXCEPT ![c] = next]
            /\ next.event = e /\ next.stage = "taken" /\ next.kind \in {"replay", "consume"}
    BY <1>4, EnterCall DEF ReplayTake, ConsumeTake, Enter, Kinds, Stages
  <2>2. /\ call'[c] = next /\ inbox'[e] = "PROCESSING" /\ UNCHANGED <<started, effects>>
        /\ inbox[e] \in {"DEAD_LETTER", "RECEIVED"}
        /\ \A f \in Events \ {e} : inbox'[f] = inbox[f]
        /\ snatched \subseteq snatched'
    BY <1>0, <1>4, <2>1 DEF ReplayTake, ConsumeTake, Replayable, EventsTypeOK
  <2>3. InboxRow(e)'
    <3>1. \A d \in Callers : d # c => (Works(d, e)' <=> Works(d, e)) /\ call'[d] = call[d]
      BY <1>1 DEF Works
    <3>2. ASSUME e \notin snatched'
          PROVE  /\ effects[e] = 0 /\ \A d \in Callers : ~Works(d, e)
      <4>1. HeldByOne(e)
        BY <1>0, <2>2, <3>2 DEF InboxRow
      <4>2. effects[e] = 0
        BY <1>0, <2>2, <4>1 DEF HeldByOne, EventsTypeOK
      <4>3. \A d \in Callers : Works(d, e) => inbox[e] = "RECEIVED" /\ Fresh(e)
        BY <1>0, <2>2, <4>1 DEF HeldByOne, InboxRow, Works, Fresh
      <4>4. inbox[e] = "RECEIVED" => ~Fresh(e)
        BY <1>4, <3>2 DEF ReplayTake, ConsumeTake, Replayable
      <4> QED
        BY <4>2, <4>3, <4>4
    <3>3. e \notin snatched' => HeldByOne(e)'
      BY <1>0, <2>1, <2>2, <3>1, <3>2 DEF HeldByOne, Works
    <3> QED
      BY <1>0, <2>1, <2>2, <3>1, <3>3 DEF InboxRow
  <2> QED
    BY <1>0, <2>1, <2>2, <2>3, OneRowMoves
<1>5. CASE ConsumeTake(c, e) /\ ~(tries[e] < MaxTries)
  <2>1. /\ call' = [call EXCEPT ![c] = NoCall] /\ UNCHANGED <<started, effects, call>>
        /\ inbox[e] = "RECEIVED" /\ inbox'[e] = "DEAD_LETTER"
        /\ \A f \in Events \ {e} : inbox'[f] = inbox[f]
        /\ snatched \subseteq snatched'
    BY <1>0, <1>5 DEF ConsumeTake, EventsTypeOK
  <2>2. InboxRow(e)'
    <3>1. \A d \in Callers : Works(d, e)' <=> Works(d, e)
      BY <2>1 DEF Works
    <3>2. ASSUME e \notin snatched'
          PROVE  HeldByOne(e)'
      <4>1. HeldByOne(e)
        BY <1>0, <2>1, <3>2 DEF InboxRow
      <4>2. \A d \in Callers : Works(d, e) => Fresh(e)
        BY <1>0, <2>1, <4>1 DEF HeldByOne, InboxRow, Works, Fresh
      <4>3. ~Fresh(e)
        BY <1>5, <3>2 DEF ConsumeTake
      <4> QED
        BY <2>1, <3>1, <4>1, <4>2, <4>3 DEF HeldByOne
    <3> QED
      BY <1>0, <2>1, <3>1, <3>2 DEF InboxRow
  <2> QED
    BY <1>0, <2>1, <2>2, OneRowMoves DEF NoCall
<1> QED
  BY <1>2, <1>3, <1>4, <1>5

LEMMA StagesKeep ==
    ASSUME InboxInv, NEW c \in Callers,
           \/ IngestTake(c) \/ Apply(c) \/ Refuse(c) \/ Settle(c) \/ GiveUp(c)
           \/ LookUpRun(c) \/ CreateRun(c) \/ Die(c)
    PROVE  InboxInv'
<1>0. /\ EventsTypeOK /\ EventsTypeOK' /\ call[c].kind # "none"
      /\ call \in [Callers -> Call \cup {NoCall}]
  <2>1. EventStep(c)
    BY DEF EventStep
  <2> QED
    BY <2>1, EventsTypeStep
       DEF InboxInv, EventsTypeOK, IngestTake, Apply, Refuse, Settle, GiveUp, LookUpRun, CreateRun, Die,
           Idles, At
<1>1. /\ call[c] = [kind |-> call[c].kind, event |-> call[c].event, stage |-> call[c].stage,
                    seen |-> call[c].seen]
      /\ call[c].kind \in Kinds /\ call[c].event \in Events /\ call[c].stage \in Stages
      /\ call[c].seen \in Nat
  BY <1>0, CallParts DEF NoCall
<1>2. PICK e \in Events : e = call[c].event
  BY <1>1
<1>3. InboxRow(e)
  BY DEF InboxInv
(* How the call goes on, from its stage to the next. *)
<1>4. ASSUME NEW stage \in Stages, Advance(c, stage)
      PROVE  \E next \in Call : /\ call' = [call EXCEPT ![c] = next]
                                /\ next.event = e /\ next.kind = call[c].kind /\ next.stage = stage
  <2> DEFINE next == [kind |-> call[c].kind, event |-> e, stage |-> stage, seen |-> call[c].seen]
  <2>1. [call[c] EXCEPT !.stage = stage] = next
    BY <1>1, <1>2
  <2>2. next \in Call /\ call' = [call EXCEPT ![c] = next]
    BY <1>1, <1>4, <2>1 DEF Call, Advance
  <2> QED
    BY <2>2
<1>5. PICK next \in Call \cup {NoCall} :
          /\ call' = [call EXCEPT ![c] = next]
          /\ next # NoCall => next.event = e /\ next.kind = call[c].kind
  <2>1. CASE Leave(c)
    BY <2>1 DEF Leave
  <2>2. CASE \E stage \in Stages : Advance(c, stage)
    BY <1>4, <2>2
  <2>3. CASE Refuse(c)
    <3> DEFINE next == [kind |-> call[c].kind, event |-> call[c].event, stage |-> "refused",
                        seen |-> tries[call[c].event]]
    <3>1. call' = [call EXCEPT ![c] = next] /\ next \in Call
      BY <1>0, <1>1, <2>3, RefusedCall DEF Refuse, EventsTypeOK, Call, Stages
    <3>2. next.event = e /\ next.kind = call[c].kind
      BY <1>2
    <3> HIDE DEF next
    <3> QED
      BY <3>1, <3>2
  <2> QED
    BY <2>1, <2>2, <2>3 DEF IngestTake, Apply, Settle, GiveUp, LookUpRun, CreateRun, Die, Stages
<1>6. /\ call'[c] = next /\ \A d \in Callers : d # c => call'[d] = call[d]
      /\ IngestTake(c) => next # NoCall /\ next.stage = "taken"
      /\ Apply(c) => next # NoCall /\ next.stage = "done"
      /\ Refuse(c) => next # NoCall /\ next.stage = "refused"
      /\ Settle(c) \/ GiveUp(c) \/ LookUpRun(c) \/ CreateRun(c) \/ Die(c) =>
             next = NoCall \/ next.stage \in {"lookup", "create"}
  <2>1. call'[c] = next /\ \A d \in Callers : d # c => call'[d] = call[d]
    BY <1>0, <1>5
  <2>2. ASSUME NEW stage \in Stages, Advance(c, stage)
        PROVE  next # NoCall /\ next.stage = stage
    <3>1. next = [call[c] EXCEPT !.stage = stage]
      BY <1>0, <2>1, <2>2 DEF Advance
    <3>2. [call[c] EXCEPT !.stage = stage]
            = [kind |-> call[c].kind, event |-> call[c].event, stage |-> stage, seen |-> call[c].seen]
      BY <1>1
    <3> QED
      BY <1>1, <3>1, <3>2 DEF NoCall, Kinds
  <2>3. Leave(c) => next = NoCall
    BY <1>0, <2>1 DEF Leave
  <2>4. Refuse(c) => next # NoCall /\ next.stage = "refused"
    <3> DEFINE refused == [kind |-> call[c].kind, event |-> call[c].event, stage |-> "refused",
                           seen |-> tries[call[c].event]]
    <3>1. Refuse(c) => call' = [call EXCEPT ![c] = refused]
      BY <1>0, <1>1, RefusedCall DEF Refuse, EventsTypeOK
    <3>2. refused # NoCall /\ refused.stage = "refused"
      BY <1>1 DEF NoCall, Kinds
    <3> HIDE DEF refused
    <3> QED
      BY <1>0, <2>1, <3>1, <3>2
  <2> QED
    BY <2>1, <2>2, <2>3, <2>4 DEF IngestTake, Apply, Settle, GiveUp, LookUpRun, CreateRun, Die, Stages
<1>7. /\ UNCHANGED snatched
      /\ \A f \in Events \ {e} :
             inbox'[f] = inbox[f] /\ started'[f] = started[f] /\ effects'[f] = effects[f]
  BY <1>0, <1>2 DEF EventsTypeOK, IngestTake, Apply, Refuse, Settle, GiveUp, LookUpRun, CreateRun, Die,
     Move
<1>8. \A d \in Callers : d # c => (Works(d, e)' <=> Works(d, e))
  BY <1>6 DEF Works
<1>9. Works(c, e)' => next # NoCall /\ next.stage \notin {"lookup", "create"}
  BY <1>6 DEF Works, NoCall
<1>10. started'[e] <= 1
  <2>1. started[e] \in Nat /\ started[e] <= 1
    BY <1>0, <1>3 DEF EventsTypeOK, InboxRow
  <2>2. CASE CreateRun(c)
    BY <1>0, <1>2, <2>1, <2>2 DEF EventsTypeOK, CreateRun, KeyFree
  <2>3. CASE UNCHANGED started
    BY <2>1, <2>3
  <2> QED
    BY <2>2, <2>3 DEF IngestTake, Apply, Refuse, Settle, GiveUp, LookUpRun, Die
<1>11. InboxRow(e)'
  <2>1. CASE IngestTake(c)
    <3>1. /\ Works(c, e) /\ call[c].stage = "inserted" /\ UNCHANGED effects
          /\ next # NoCall /\ next.stage = "taken" /\ next.kind = call[c].kind
          /\ inbox'[e] = IF inbox[e] = "RECEIVED" THEN "PROCESSING" ELSE inbox[e]
      BY <1>0, <1>1, <1>2, <1>5, <1>6, <2>1 DEF IngestTake, At, Works, Move, EventsTypeOK
    <3>2. HeldByOne(e) => HeldByOne(e)'
      BY <1>6, <1>8, <3>1 DEF HeldByOne
    <3> QED
      BY <1>3, <1>6, <1>7, <1>8, <1>10, <3>1, <3>2 DEF InboxRow
  <2>2. CASE Apply(c)
    <3>1. /\ Works(c, e) /\ call[c].stage = "taken" /\ UNCHANGED inbox
          /\ next # NoCall /\ next.stage = "done" /\ next.kind = call[c].kind
          /\ effects'[e] = effects[e] + 1 /\ effects[e] \in Nat
      BY <1>0, <1>1, <1>2, <1>5, <1>6, <2>2 DEF Apply, Idles, Works, EventsTypeOK
    <3>2. HeldByOne(e) => HeldByOne(e)'
      BY <1>6, <1>8, <3>1 DEF HeldByOne
    <3> QED
      BY <1>3, <1>6, <1>7, <1>8, <1>10, <3>1, <3>2 DEF InboxRow
  <2>3. CASE Refuse(c)
    <3>1. /\ Works(c, e) /\ call[c].stage = "taken" /\ UNCHANGED <<inbox, effects>>
          /\ next # NoCall /\ next.stage = "refused" /\ next.kind = call[c].kind
      BY <1>0, <1>1, <1>2, <1>5, <1>6, <2>3 DEF Refuse, Idles, Works
    <3>2. HeldByOne(e) => HeldByOne(e)'
      BY <1>6, <1>8, <3>1 DEF HeldByOne
    <3> QED
      BY <1>3, <1>6, <1>7, <1>8, <1>10, <3>1, <3>2 DEF InboxRow
  <2>4. CASE Settle(c)
    <3>1. /\ Works(c, e) /\ call[c].stage \in {"done", "refused"} /\ UNCHANGED effects
          /\ effects[e] \in Nat
          /\ inbox'[e] = IF inbox[e] = "PROCESSING" THEN Outcome(c) ELSE inbox[e]
          /\ ~Works(c, e)'
      BY <1>0, <1>1, <1>2, <1>5, <1>6, <1>9, <2>4
         DEF Settle, Idles, Works, Move, EventsTypeOK
    <3>2. IF call[c].stage = "done" THEN Outcome(c) = "PROCESSED"
          ELSE Outcome(c) \in {"DEAD_LETTER", "RECEIVED"}
      BY DEF Outcome, AfterFailure
    <3>3. HeldByOne(e) => HeldByOne(e)'
      BY <1>6, <1>8, <3>1, <3>2 DEF HeldByOne
    <3> QED
      BY <1>3, <1>6, <1>7, <1>8, <1>10, <3>1, <3>2, <3>3 DEF InboxRow
  <2>5. CASE GiveUp(c)
    <3>1. /\ Works(c, e) /\ call[c].stage = "refused" /\ UNCHANGED effects
          /\ effects[e] \in Nat
          /\ inbox'[e] \in IF inbox[e] = "PROCESSING" THEN {"DUPLICATE", "DEAD_LETTER"} ELSE {inbox[e]}
          /\ ~Works(c, e)'
      BY <1>0, <1>1, <1>2, <1>5, <1>6, <1>9, <2>5
         DEF GiveUp, At, Works, Move, EventsTypeOK
    <3>2. HeldByOne(e) => HeldByOne(e)'
      BY <1>6, <1>8, <3>1 DEF HeldByOne
    <3> QED
      BY <1>3, <1>6, <1>7, <1>8, <1>10, <3>1, <3>2 DEF InboxRow
  <2>6. CASE LookUpRun(c) \/ CreateRun(c) \/ Die(c)
    <3>1. UNCHANGED <<inbox, effects>> /\ ~Works(c, e)'
      BY <1>0, <1>1, <1>2, <1>5, <1>6, <1>9, <2>6
         DEF LookUpRun, CreateRun, Die
    <3>2. HeldByOne(e) => HeldByOne(e)'
      BY <1>6, <1>8, <3>1 DEF HeldByOne
    <3> QED
      BY <1>3, <1>6, <1>7, <1>8, <1>10, <3>1, <3>2 DEF InboxRow
  <2> QED
    BY <2>1, <2>2, <2>3, <2>4, <2>5, <2>6
<1> QED
  BY <1>0, <1>2, <1>5, <1>7, <1>11, OneRowMoves DEF NoCall

EventsInv == InboxInv /\ WaitsWereOpened

LEMMA InboxStepKeeps == EventsInv /\ [EventsNext]_eventVars => EventsInv'
<1> SUFFICES ASSUME EventsInv, [EventsNext]_eventVars
             PROVE  EventsInv'
  OBVIOUS
<1>0. InboxInv /\ WaitsWereOpened /\ EventsTypeOK
  BY DEF EventsInv, InboxInv
<1>1. ASSUME NEW c \in Callers, EventStep(c)
      PROVE  EventsInv'
  <2>1. InboxInv'
    BY <1>0, <1>1, EntriesKeep, StagesKeep DEF EventStep
  <2>2. UNCHANGED opened /\ \A e \in Events : waiting'[e] = waiting[e] \/ waiting'[e] = 0
    BY <1>0, <1>1 DEF EventStep, Ingest, Redeliver, ReplayTake, ConsumeTake, IngestTake, Apply, Refuse,
       Settle, GiveUp, LookUpRun, CreateRun, Die, EventsTypeOK
  <2>3. WaitsWereOpened'
    BY <1>0, <2>2, EventAssumption DEF WaitsWereOpened, EventsTypeOK
  <2> QED
    BY <2>1, <2>3 DEF EventsInv
<1>2. ASSUME NEW e \in Events, OpenWait(e)
      PROVE  EventsInv'
  <2>1. EventsTypeOK' /\ WaitsWereOpened'
    BY <1>0, <1>2, EventAssumption DEF WaitsWereOpened, EventsTypeOK, OpenWait
  <2>2. \A f \in Events : InboxRow(f)'
    BY <1>0, <1>2 DEF InboxInv, InboxRow, HeldByOne, Works, OpenWait
  <2> QED
    BY <2>1, <2>2 DEF EventsInv, InboxInv
<1>3. CASE UNCHANGED eventVars
  BY <1>3 DEF eventVars, EventsInv, WaitsWereOpened, InboxInv, EventsTypeOK, InboxRow, HeldByOne, Works
<1> QED
  BY <1>1, <1>2, <1>3 DEF EventsNext

(* However often an event is delivered, consumed or replayed, and wherever a *)
(* process dies, it takes effect once and starts one Run, and it is          *)
(* PROCESSED only after its effect; unless a consumer took the row of a      *)
(* delivery still under way.                                                 *)
THEOREM EventsTakeEffectOnce == EventsSpec => [](EventsTypeOK /\ EffectOnce)
<1>1. EventsInit => EventsInv
  BY EventAssumption DEF EventsInit, EventsInv, WaitsWereOpened, InboxInv, EventsTypeOK, InboxRow, HeldByOne, Works, NoCall
<1>2. EventsInv => EventsTypeOK /\ EffectOnce
  BY DEF EventsInv, InboxInv, InboxRow, HeldByOne, EffectOnce
<1> QED
  BY <1>1, <1>2, InboxStepKeeps, PTL DEF EventsSpec

-----------------------------------------------------------------------------
(* Admission and budget *)

(* A claim counts first and writes later.  A claim in flight may add one   *)
(* task to those that are active, so both are bounded together.            *)

InFlight == {c \in Claimants : claim[c] # NoClaim}
Taken(c) == claim[c].stage = "taken"

(* A claim counted fewer active tasks than the policy allows; each claim in  *)
(* flight may add one.  So active tasks and claims in flight are bounded     *)
(* together.                                                                 *)
ClaimsAreCounted ==
    /\ IsFiniteSet(active)
    /\ Cardinality(active) + Cardinality(InFlight) < MaxConcurrency + Cardinality(Claimants)

(* A task is queued, taken by one claim, or claimed, and a usage that a claim *)
(* has read is behind the work done, or exact as long as nothing raced.       *)
TasksAreOnce ==
    /\ queue \cap claimed = {}
    /\ \A c \in Claimants : Taken(c) => claim[c].task \notin queue \cup claimed
    /\ \A c, d \in Claimants : Taken(c) /\ Taken(d) /\ claim[c].task = claim[d].task => c = d

Behind(u) == u.calls <= Cardinality(claimed) /\ u.tokens <= tokens
UsageIsRead ==
    /\ IsFiniteSet(claimed)
    /\ Behind(usage) /\ \A c \in Claimants : Taken(c) => Behind(claim[c].seen)
    /\ ~raced => /\ usage = [calls |-> Cardinality(claimed), tokens |-> tokens]
                 /\ \A c \in Claimants : Taken(c) => claim[c].seen = usage

AdmissionInv == AdmissionTypeOK /\ ClaimsAreCounted /\ TasksAreOnce /\ UsageIsRead

LEMMA InFlightIsFinite ==
    ASSUME NEW S \in SUBSET Claimants
    PROVE  IsFiniteSet(S) /\ Cardinality(S) \in Nat /\ Cardinality(S) <= Cardinality(Claimants)
           /\ Cardinality(Claimants) \in Nat
BY AdmissionAssumption, FS_Subset, FS_CardinalityType

(* What is known of the sets that change. *)
LEMMA CountsMove ==
    ASSUME NEW S, IsFiniteSet(S), NEW x
    PROVE  /\ IsFiniteSet(S \cup {x}) /\ IsFiniteSet(S \ {x}) /\ Cardinality(S) \in Nat
           /\ Cardinality(S \cup {x}) = IF x \in S THEN Cardinality(S) ELSE Cardinality(S) + 1
           /\ Cardinality(S \ {x}) = IF x \in S THEN Cardinality(S) - 1 ELSE Cardinality(S)
BY FS_AddElement, FS_RemoveElement, FS_CardinalityType

LEMMA ClaimParts ==
    ASSUME AdmissionTypeOK, NEW c \in Claimants
    PROVE  \/ claim[c] = NoClaim
           \/ /\ claim[c] \in Claim /\ claim[c].stage \in {"admitted", "taken"}
              /\ claim[c].task \in Tasks /\ claim[c].seen \in Usage
              /\ claim[c] = [stage |-> claim[c].stage, task |-> claim[c].task, seen |-> claim[c].seen]
BY DEF AdmissionTypeOK, Claim

LEMMA TakenIsClaim ==
    ASSUME AdmissionTypeOK, NEW c \in Claimants, Taken(c)
    PROVE  claim[c].seen \in Usage /\ claim[c].seen.calls \in Nat /\ claim[c].seen.tokens \in Nat
           /\ claim[c].task \in Tasks
<1>1. claim[c] # NoClaim
  BY DEF Taken, NoClaim
<1>2. claim[c].seen \in Usage /\ claim[c].task \in Tasks
  BY <1>1, ClaimParts
<1> QED
  BY <1>2 DEF Usage

(* The claim of one session becomes next: how many are in flight. *)
LEMMA OneClaimMoves ==
    ASSUME AdmissionTypeOK, NEW c \in Claimants, NEW next \in Claim \cup {NoClaim},
           claim' = [claim EXCEPT ![c] = next]
    PROVE  /\ claim' \in [Claimants -> Claim \cup {NoClaim}] /\ claim'[c] = next
           /\ \A d \in Claimants : d # c => claim'[d] = claim[d] /\ (Taken(d)' <=> Taken(d))
           /\ InFlight' = IF next = NoClaim THEN InFlight \ {c} ELSE InFlight \cup {c}
BY DEF AdmissionTypeOK, InFlight, Taken

LEMMA AdmitKeeps ==
    ASSUME AdmissionInv, NEW c \in Claimants, NEW t \in Tasks, Admit(c, t)
    PROVE  AdmissionInv'
<1> DEFINE next == [stage |-> "admitted", task |-> t, seen |-> usage]
<1>0. /\ AdmissionTypeOK /\ ClaimsAreCounted /\ TasksAreOnce /\ UsageIsRead
      /\ UNCHANGED <<queue, active, claimed, held, usage, review, tokens, raced>>
      /\ claim[c] = NoClaim /\ claim' = [claim EXCEPT ![c] = next]
      /\ next \in Claim /\ next # NoClaim /\ next.stage = "admitted"
      /\ Cardinality(active) < MaxConcurrency
  BY DEF AdmissionInv, AdmissionTypeOK, Admit, Admits, Claim, NoClaim
<1>1. /\ claim' \in [Claimants -> Claim \cup {NoClaim}] /\ ~Taken(c)'
      /\ \A d \in Claimants : d # c => claim'[d] = claim[d] /\ (Taken(d)' <=> Taken(d))
      /\ InFlight' \in SUBSET Claimants
  <2> HIDE DEF next
  <2>1. /\ claim' \in [Claimants -> Claim \cup {NoClaim}] /\ claim'[c] = next
        /\ \A d \in Claimants : d # c => claim'[d] = claim[d] /\ (Taken(d)' <=> Taken(d))
    BY <1>0, OneClaimMoves
  <2> QED
    BY <1>0, <2>1 DEF Taken, InFlight
<1>2. ClaimsAreCounted'
  <2>1. Cardinality(active) \in Nat /\ IsFiniteSet(active)
    BY <1>0, FS_CardinalityType DEF ClaimsAreCounted
  <2>2. Cardinality(InFlight') \in Nat /\ Cardinality(InFlight') <= Cardinality(Claimants)
        /\ Cardinality(Claimants) \in Nat
    BY <1>1, InFlightIsFinite
  <2> QED
    BY <1>0, <2>1, <2>2, AdmissionAssumption DEF ClaimsAreCounted
<1>3. AdmissionTypeOK' /\ TasksAreOnce' /\ UsageIsRead'
  BY <1>0, <1>1 DEF AdmissionTypeOK, TasksAreOnce, UsageIsRead, Behind
<1> QED
  BY <1>2, <1>3 DEF AdmissionInv

LEMMA TakenClaim ==
    ASSUME NEW c \in Claimants, claim \in [Claimants -> Claim \cup {NoClaim}], NEW u \in Usage,
           claim[c] = [stage |-> claim[c].stage, task |-> claim[c].task, seen |-> claim[c].seen]
    PROVE  [claim EXCEPT ![c].stage = "taken", ![c].seen = u]
             = [claim EXCEPT ![c] = [stage |-> "taken", task |-> claim[c].task, seen |-> u]]
<1> DEFINE row == [[claim[c] EXCEPT !.stage = "taken"] EXCEPT !.seen = u]
<1>1. [claim[c] EXCEPT !.stage = "taken"]
          = [stage |-> "taken", task |-> claim[c].task, seen |-> claim[c].seen]
  OBVIOUS
<1>2. [[stage |-> "taken", task |-> claim[c].task, seen |-> claim[c].seen] EXCEPT !.seen = u]
          = [stage |-> "taken", task |-> claim[c].task, seen |-> u]
  OBVIOUS
<1>3. row = [stage |-> "taken", task |-> claim[c].task, seen |-> u]
  BY <1>1, <1>2, Zenon
<1>4. [claim EXCEPT ![c].stage = "taken", ![c].seen = u] = [claim EXCEPT ![c] = row]
  OBVIOUS
<1> HIDE DEF row
<1> QED
  BY <1>3, <1>4

LEMMA TakeKeeps ==
    ASSUME AdmissionInv, NEW c \in Claimants, Take(c)
    PROVE  AdmissionInv'
<1> DEFINE t == claim[c].task
           next == IF t \in queue THEN [stage |-> "taken", task |-> t, seen |-> usage] ELSE NoClaim
<1>0. /\ AdmissionTypeOK /\ ClaimsAreCounted /\ TasksAreOnce /\ UsageIsRead
      /\ UNCHANGED <<active, claimed, held, usage, review, tokens, raced>>
      /\ claim[c].stage = "admitted" /\ claim[c] # NoClaim /\ c \in InFlight /\ InFlight \in SUBSET Claimants
      /\ t \in Tasks /\ claim[c] = [stage |-> claim[c].stage, task |-> t, seen |-> claim[c].seen]
      /\ next \in Claim \cup {NoClaim}
      /\ queue' = IF t \in queue THEN queue \ {t} ELSE queue
  <2>1. AdmissionTypeOK /\ claim[c].stage = "admitted"
    BY DEF AdmissionInv, Take
  <2>2. claim[c] # NoClaim
    BY <2>1 DEF NoClaim
  <2> QED
    BY <2>1, <2>2, ClaimParts DEF AdmissionInv, Take, InFlight, AdmissionTypeOK, Claim
<1>1. claim' = [claim EXCEPT ![c] = next]
  <2>1. CASE t \in queue
    BY <1>0, <2>1, TakenClaim DEF Take
  <2>2. CASE t \notin queue
    BY <2>2 DEF Take
  <2> QED
    BY <2>1, <2>2
<1>2. /\ claim' \in [Claimants -> Claim \cup {NoClaim}] /\ claim'[c] = next
      /\ \A d \in Claimants : d # c => claim'[d] = claim[d] /\ (Taken(d)' <=> Taken(d))
      /\ InFlight' = IF next = NoClaim THEN InFlight \ {c} ELSE InFlight \cup {c}
  <2> HIDE DEF next
  <2> QED
    BY <1>0, <1>1, OneClaimMoves
<1>3. ClaimsAreCounted'
  <2>1. Cardinality(InFlight') <= Cardinality(InFlight) /\ Cardinality(InFlight') \in Nat
        /\ Cardinality(InFlight) \in Nat
    <3>1. IsFiniteSet(InFlight)
      BY <1>0, InFlightIsFinite
    <3>2. InFlight' = InFlight \ {c} \/ InFlight' = InFlight
      BY <1>0, <1>2
    <3>3. IsFiniteSet(InFlight \ {c}) /\ Cardinality(InFlight) \in Nat
          /\ Cardinality(InFlight \ {c}) = IF c \in InFlight THEN Cardinality(InFlight) - 1
                                           ELSE Cardinality(InFlight)
      BY <3>1, CountsMove
    <3>4. Cardinality(InFlight \ {c}) \in Nat
      BY <3>3, FS_CardinalityType
    <3> HIDE DEF InFlight
    <3> QED
      BY <3>2, <3>3, <3>4
  <2> QED
    BY <1>0, <2>1, InFlightIsFinite, FS_CardinalityType, AdmissionAssumption DEF ClaimsAreCounted
<1>4. TasksAreOnce'
  BY <1>0, <1>2 DEF TasksAreOnce, Taken, NoClaim
<1>5. UsageIsRead'
  BY <1>0, <1>2 DEF UsageIsRead, Taken, NoClaim, Behind
<1>6. AdmissionTypeOK'
  BY <1>0, <1>2 DEF AdmissionTypeOK
<1> QED
  BY <1>3, <1>4, <1>5, <1>6 DEF AdmissionInv

(* A claim ends: it is no longer in flight. *)
LEMMA ClaimEnds ==
    ASSUME AdmissionTypeOK, NEW c \in Claimants, claim[c] # NoClaim,
           claim' = [claim EXCEPT ![c] = NoClaim]
    PROVE  /\ claim' \in [Claimants -> Claim \cup {NoClaim}] /\ ~Taken(c)'
           /\ \A d \in Claimants : d # c => claim'[d] = claim[d] /\ (Taken(d)' <=> Taken(d))
           /\ Cardinality(InFlight') = Cardinality(InFlight) - 1
           /\ Cardinality(InFlight) \in Nat /\ Cardinality(Claimants) \in Nat
<1>1. /\ claim' \in [Claimants -> Claim \cup {NoClaim}] /\ claim'[c] = NoClaim
      /\ \A d \in Claimants : d # c => claim'[d] = claim[d] /\ (Taken(d)' <=> Taken(d))
      /\ InFlight' = InFlight \ {c}
  BY OneClaimMoves
<1>2. c \in InFlight /\ InFlight \in SUBSET Claimants
  BY DEF InFlight
<1>3. IsFiniteSet(InFlight) /\ Cardinality(InFlight) \in Nat /\ Cardinality(Claimants) \in Nat
  BY <1>2, InFlightIsFinite
<1>4. Cardinality(InFlight \ {c}) = Cardinality(InFlight) - 1
  BY <1>2, <1>3, CountsMove
<1> QED
  BY <1>1, <1>3, <1>4 DEF Taken, NoClaim

LEMMA ReserveKeeps ==
    ASSUME AdmissionInv, NEW c \in Claimants, Reserve(c)
    PROVE  AdmissionInv'
<1> DEFINE t == claim[c].task
           seen == claim[c].seen
           u == WithCall(seen)
<1>0. /\ AdmissionTypeOK /\ ClaimsAreCounted /\ TasksAreOnce /\ UsageIsRead
      /\ UNCHANGED <<queue, tokens>> /\ claim' = [claim EXCEPT ![c] = NoClaim]
      /\ Taken(c) /\ claim[c] # NoClaim
  BY DEF AdmissionInv, Reserve, Taken, NoClaim
<1>1. /\ t \in Tasks /\ seen \in Usage /\ seen = [calls |-> seen.calls, tokens |-> seen.tokens]
      /\ seen.calls \in Nat /\ seen.tokens \in Nat
  BY <1>0, ClaimParts DEF Usage
<1>2. u = [calls |-> seen.calls + 1, tokens |-> seen.tokens] /\ u \in Usage
  BY <1>1 DEF WithCall, Usage
<1>3. /\ claim' \in [Claimants -> Claim \cup {NoClaim}] /\ ~Taken(c)'
      /\ \A d \in Claimants : d # c => claim'[d] = claim[d] /\ (Taken(d)' <=> Taken(d))
      /\ Cardinality(InFlight') = Cardinality(InFlight) - 1
      /\ Cardinality(InFlight) \in Nat /\ Cardinality(Claimants) \in Nat
  BY <1>0, ClaimEnds
<1>4. IsFiniteSet(active) /\ IsFiniteSet(claimed) /\ t \notin claimed /\ t \notin queue
  BY <1>0 DEF ClaimsAreCounted, UsageIsRead, TasksAreOnce
<1>5. Cardinality(active) \in Nat /\ Cardinality(claimed) \in Nat
  BY <1>4, FS_CardinalityType
<1>6. CASE OverBudget(u)
  <2>1. UNCHANGED <<active, claimed, usage, raced>> /\ held' = held \cup {t} /\ review' = TRUE
    BY <1>6 DEF Reserve
  <2>2. ClaimsAreCounted'
    BY <1>0, <1>3, <1>5, <2>1, AdmissionAssumption DEF ClaimsAreCounted
  <2> QED
    BY <1>0, <1>1, <1>3, <2>1, <2>2 DEF AdmissionInv, AdmissionTypeOK, TasksAreOnce, UsageIsRead, Behind
<1>7. CASE ~OverBudget(u)
  <2>1. /\ active' = active \cup {t} /\ claimed' = claimed \cup {t} /\ usage' = u
        /\ raced' = (raced \/ OthersTaken(c)) /\ UNCHANGED <<held, review>>
    BY <1>7 DEF Reserve
  <2>2. ClaimsAreCounted'
    <3>1. IsFiniteSet(active') /\ Cardinality(active') \in Nat
          /\ Cardinality(active') <= Cardinality(active) + 1
      <4>1. IsFiniteSet(active \cup {t})
            /\ Cardinality(active \cup {t}) = IF t \in active THEN Cardinality(active)
                                              ELSE Cardinality(active) + 1
        BY <1>4, CountsMove
      <4> QED
        BY <1>5, <2>1, <4>1
    <3> QED
      BY <1>0, <1>3, <1>5, <3>1, AdmissionAssumption DEF ClaimsAreCounted
  <2>3. IsFiniteSet(claimed') /\ Cardinality(claimed') = Cardinality(claimed) + 1
    BY <1>4, <2>1, CountsMove
  <2>4. TasksAreOnce'
    BY <1>0, <1>3, <1>4, <2>1 DEF TasksAreOnce
  <2>5. UsageIsRead'
    <3>1. Behind(usage)' /\ \A d \in Claimants : Taken(d)' => Behind(claim[d].seen)'
      <4>1. Behind(seen)
        BY <1>0 DEF UsageIsRead
      <4>2. Behind(usage)'
        BY <1>0, <1>1, <1>2, <1>5, <2>1, <2>3, <4>1 DEF Behind
      <4>3. ASSUME NEW d \in Claimants, Taken(d)'
            PROVE  Behind(claim[d].seen)'
        <5>1. d # c /\ claim'[d] = claim[d] /\ Taken(d)
          BY <1>3, <4>3
        <5>2. Behind(claim[d].seen) /\ claim[d].seen.calls \in Nat
          BY <1>0, <5>1, TakenIsClaim DEF UsageIsRead
        <5> QED
          BY <1>0, <1>5, <2>3, <5>1, <5>2 DEF Behind
      <4> QED
        BY <4>2, <4>3
    <3>2. ~raced' => /\ usage' = [calls |-> Cardinality(claimed'), tokens |-> tokens']
                     /\ \A d \in Claimants : ~Taken(d)'
      <4> SUFFICES ASSUME ~raced'
                   PROVE  /\ usage' = [calls |-> Cardinality(claimed'), tokens |-> tokens']
                          /\ \A d \in Claimants : ~Taken(d)'
        OBVIOUS
      <4>1. ~raced /\ ~OthersTaken(c) /\ raced \in BOOLEAN
        BY <1>0, <2>1 DEF AdmissionTypeOK
      <4>2. \A d \in Claimants : ~Taken(d)'
        BY <1>3, <4>1 DEF OthersTaken, Taken
      <4>3. usage = [calls |-> Cardinality(claimed), tokens |-> tokens] /\ seen = usage
        BY <1>0, <4>1 DEF UsageIsRead
      <4>4. seen.calls = Cardinality(claimed) /\ seen.tokens = tokens
        BY <4>3
      <4> QED
        BY <1>0, <1>2, <2>1, <2>3, <4>2, <4>4
    <3> QED
      BY <2>3, <3>1, <3>2 DEF UsageIsRead
  <2>6. AdmissionTypeOK'
    BY <1>0, <1>1, <1>2, <1>3, <2>1 DEF AdmissionTypeOK
  <2> QED
    BY <2>2, <2>4, <2>5, <2>6 DEF AdmissionInv
<1> QED
  BY <1>6, <1>7

LEMMA AbortKeeps ==
    ASSUME AdmissionInv, NEW c \in Claimants, Abort(c)
    PROVE  AdmissionInv'
<1>0. /\ AdmissionTypeOK /\ ClaimsAreCounted /\ TasksAreOnce /\ UsageIsRead
      /\ UNCHANGED <<active, claimed, held, usage, review, tokens, raced>>
      /\ claim' = [claim EXCEPT ![c] = NoClaim] /\ claim[c] # NoClaim
      /\ queue' = IF Taken(c) THEN queue \cup {claim[c].task} ELSE queue
  BY DEF AdmissionInv, Abort, Taken
<1>1. claim[c].task \in Tasks
  BY <1>0, ClaimParts
<1>2. /\ claim' \in [Claimants -> Claim \cup {NoClaim}] /\ ~Taken(c)'
      /\ \A d \in Claimants : d # c => claim'[d] = claim[d] /\ (Taken(d)' <=> Taken(d))
      /\ Cardinality(InFlight') = Cardinality(InFlight) - 1
      /\ Cardinality(InFlight) \in Nat /\ Cardinality(Claimants) \in Nat
  BY <1>0, ClaimEnds
<1>3. ClaimsAreCounted'
  BY <1>0, <1>2, FS_CardinalityType, AdmissionAssumption DEF ClaimsAreCounted
<1>4. TasksAreOnce'
  BY <1>0, <1>2 DEF TasksAreOnce
<1>5. AdmissionTypeOK' /\ UsageIsRead'
  BY <1>0, <1>1, <1>2 DEF AdmissionTypeOK, UsageIsRead, Behind
<1> QED
  BY <1>3, <1>4, <1>5 DEF AdmissionInv

LEMMA CompleteKeeps ==
    ASSUME AdmissionInv, NEW t \in Tasks, NEW n \in {0, 1}, Complete(t, n)
    PROVE  AdmissionInv'
<1>0. /\ AdmissionTypeOK /\ ClaimsAreCounted /\ TasksAreOnce /\ UsageIsRead
      /\ UNCHANGED <<queue, claimed, held, claim>> /\ t \in active /\ active' = active \ {t}
      /\ usage' = WithTokens(usage, n) /\ tokens' = tokens + n
      /\ raced' = (raced \/ (n > 0 /\ \E c \in Claimants : Taken(c)))
      /\ review' \in BOOLEAN
  BY DEF AdmissionInv, AdmissionTypeOK, Complete, Taken
<1>1. /\ usage \in Usage /\ usage = [calls |-> usage.calls, tokens |-> usage.tokens]
      /\ usage.calls \in Nat /\ usage.tokens \in Nat /\ tokens \in Nat /\ raced \in BOOLEAN
  BY <1>0 DEF AdmissionTypeOK, Usage
<1>2. usage' = [calls |-> usage.calls, tokens |-> usage.tokens + n] /\ usage' \in Usage
  BY <1>0, <1>1 DEF WithTokens, Usage
<1>3. AdmissionTypeOK'
  BY <1>0, <1>1, <1>2 DEF AdmissionTypeOK
<1>4. ClaimsAreCounted'
  <2>1. IsFiniteSet(active) /\ Cardinality(active) \in Nat
    BY <1>0, FS_CardinalityType DEF ClaimsAreCounted
  <2>2. IsFiniteSet(active') /\ Cardinality(active') = Cardinality(active) - 1
    BY <1>0, <2>1, CountsMove
  <2>3. InFlight' = InFlight /\ Cardinality(InFlight) \in Nat /\ Cardinality(Claimants) \in Nat
    BY <1>0, InFlightIsFinite DEF InFlight
  <2> QED
    BY <1>0, <2>1, <2>2, <2>3, AdmissionAssumption DEF ClaimsAreCounted
<1>5. TasksAreOnce'
  BY <1>0 DEF TasksAreOnce, Taken
<1>6. UsageIsRead'
  <2>1. Behind(usage)'
    BY <1>0, <1>1, <1>2 DEF UsageIsRead, Behind
  <2>2. ASSUME NEW d \in Claimants, Taken(d)'
        PROVE  Behind(claim[d].seen)' /\ (~raced' => claim'[d].seen = usage')
    <3>1. Taken(d) /\ claim'[d] = claim[d]
      BY <1>0, <2>2 DEF Taken
    <3>2. claim[d].seen.tokens \in Nat /\ Behind(claim[d].seen)
      BY <1>0, <3>1, TakenIsClaim DEF UsageIsRead
    <3>3. ~raced' => n = 0 /\ ~raced
      <4>1. n # 0 => n > 0
        OBVIOUS
      <4> QED
        BY <1>0, <3>1, <4>1, Zenon
    <3>4. ~raced => claim[d].seen = usage
      BY <1>0, <3>1 DEF UsageIsRead
    <3> QED
      BY <1>0, <1>1, <1>2, <3>1, <3>2, <3>3, <3>4 DEF Behind
  <2>3. ~raced' => usage' = [calls |-> Cardinality(claimed'), tokens |-> tokens']
    <3> SUFFICES ASSUME ~raced'
                 PROVE  usage' = [calls |-> Cardinality(claimed'), tokens |-> tokens']
      OBVIOUS
    <3>1. usage = [calls |-> Cardinality(claimed), tokens |-> tokens]
      BY <1>0 DEF UsageIsRead
    <3>2. usage.calls = Cardinality(claimed) /\ usage.tokens = tokens
      BY <3>1
    <3> QED
      BY <1>0, <1>2, <3>2
  <2> QED
    BY <1>0, <2>1, <2>2, <2>3 DEF UsageIsRead
<1> QED
  BY <1>3, <1>4, <1>5, <1>6 DEF AdmissionInv

(* However claims, completions and aborts interleave, no more tasks are       *)
(* active than the policy allows and the claims that counted together, and   *)
(* the recorded usage is exact until a claim overlaps a write of it, and     *)
(* behind the work then.                                                     *)
THEOREM AdmissionIsBounded == AdmissionSpec => [](AdmissionTypeOK /\ AdmissionHolds)
<1>1. AdmissionInit => AdmissionInv
  <2> SUFFICES ASSUME AdmissionInit
               PROVE  AdmissionInv
    OBVIOUS
  <2>1. AdmissionTypeOK /\ TasksAreOnce
    BY DEF AdmissionInit, AdmissionTypeOK, Usage, TasksAreOnce, Taken, NoClaim
  <2>2. IsFiniteSet({}) /\ Cardinality({}) = 0
    BY FS_EmptySet
  <2>3. ClaimsAreCounted
    <3>1. InFlight = {} /\ Cardinality(Claimants) \in Nat
      BY InFlightIsFinite DEF AdmissionInit, InFlight
    <3> QED
      BY <2>2, <3>1, AdmissionAssumption DEF AdmissionInit, ClaimsAreCounted
  <2>4. UsageIsRead
    BY <2>2 DEF AdmissionInit, UsageIsRead, Behind, Taken, NoClaim
  <2> QED
    BY <2>1, <2>3, <2>4 DEF AdmissionInv
<1>2. AdmissionInv /\ [AdmissionNext]_admissionVars => AdmissionInv'
  <2> SUFFICES ASSUME AdmissionInv, [AdmissionNext]_admissionVars
               PROVE  AdmissionInv'
    OBVIOUS
  <2>1. CASE UNCHANGED admissionVars
    BY <2>1 DEF admissionVars, AdmissionInv, AdmissionTypeOK, ClaimsAreCounted, InFlight, TasksAreOnce,
       UsageIsRead, Behind, Taken
  <2> QED
    BY <2>1, AdmitKeeps, TakeKeeps, ReserveKeeps, AbortKeeps, CompleteKeeps DEF AdmissionNext
<1>3. AdmissionInv => AdmissionTypeOK /\ AdmissionHolds
  <2> SUFFICES ASSUME AdmissionInv
               PROVE  AdmissionTypeOK /\ AdmissionHolds
    OBVIOUS
  <2>1. Cardinality(active) \in Nat /\ Cardinality(InFlight) \in Nat /\ Cardinality(Claimants) \in Nat
    BY FS_CardinalityType, InFlightIsFinite DEF AdmissionInv, ClaimsAreCounted, InFlight
  <2> QED
    BY <2>1, AdmissionAssumption DEF AdmissionInv, ClaimsAreCounted, UsageIsRead, Behind, AdmissionHolds,
       ConcurrencyBounded, UsageIsExact
<1> QED
  BY <1>1, <1>2, <1>3, PTL DEF AdmissionSpec

-----------------------------------------------------------------------------
(* The execution queue *)

(* The update that takes a job does not look at the count of attempts.  It *)
(* needs no look: a job only waits (PENDING, RETRY) while attempts are     *)
(* left.  A failure decided on an older read keeps this, as it is written  *)
(* under the token it was decided for, and the token is the count.         *)

USE JobAssumption

TokenIsCount ==
    \A j \in Jobs :
        /\ job[j].status = "RUNNING" => job[j].token = job[j].tries /\ job[j].tries > 0
        /\ job[j].status \in {"NONE", "WAITING_APPROVAL", "PENDING", "RETRY"} => job[j].tries < JobMaxTries
        /\ job[j].tries <= JobMaxTries

WonByNewest ==
    \A j \in Jobs : won[j] = IF job[j].status = "SUCCEEDED" THEN job[j].tries ELSE 0

RetriesAreLeft ==
    \A w \in JobWorkers :
        desk[w].stage = "judged" => /\ desk[w].token < JobMaxTries \/ desk[w].verdict # "RETRY"
                                    /\ desk[w].verdict # "SUCCEEDED"

JobsInv == JobsTypeOK /\ TokenIsCount /\ WonByNewest /\ RetriesAreLeft

-----------------------------------------------------------------------------
(* Forms of rows and desks *)

LEMMA JobForm ==
    ASSUME JobsTypeOK, NEW j \in Jobs
    PROVE  /\ job[j].status \in JobStatus /\ job[j].tries \in Nat /\ job[j].token \in Nat
           /\ job[j].cancel \in BOOLEAN /\ job[j].lapsed \in BOOLEAN /\ job[j] \in JobRow
BY DEF JobsTypeOK, JobRow

LEMMA DeskForm ==
    ASSUME JobsTypeOK, NEW w \in JobWorkers
    PROVE  /\ desk[w] \in Desk \cup {AtRest}
           /\ desk[w].stage = "choosing" => desk[w].picks \subseteq Jobs
           /\ desk[w].stage \in {"took", "working", "judged", "closing"} =>
                 desk[w].job \in Jobs /\ desk[w].token \in Nat
           /\ desk[w].stage \in {"judged", "closing"} => desk[w].verdict \in {"SUCCEEDED", "RETRY", "FAILED"}
<1>1. desk[w] \in Desk \cup {AtRest}
  BY DEF JobsTypeOK
<1> QED BY <1>1 DEF Desk, AtRest

LEMMA JobsBegin == JobsInit => JobsInv
BY DEF JobsInit, JobsInv, JobsTypeOK, TokenIsCount, WonByNewest, RetriesAreLeft, NewJob, JobRow, JobStatus,
       JobEnded, AtRest

(* A step that gives one job the row r and keeps what was won. *)
LEMMA JobRowKeeps ==
    ASSUME JobsInv, NEW j \in Jobs, NEW r \in JobRow, job' = [job EXCEPT ![j] = r],
           r.status = "RUNNING" => r.token = r.tries /\ r.tries > 0,
           r.status \in {"NONE", "WAITING_APPROVAL", "PENDING", "RETRY"} => r.tries < JobMaxTries,
           r.tries <= JobMaxTries,
           won' = [won EXCEPT ![j] = IF r.status = "SUCCEEDED" THEN r.tries ELSE 0]
    PROVE  job' \in [Jobs -> JobRow] /\ won' \in [Jobs -> Nat] /\ TokenIsCount' /\ WonByNewest'
<1>1. \A k \in Jobs : job'[k] = IF k = j THEN r ELSE job[k]
  BY DEF JobsInv, JobsTypeOK
<1>2. r.tries \in Nat
  BY DEF JobRow
<1>3. \A k \in Jobs : won'[k] = IF k = j THEN (IF r.status = "SUCCEEDED" THEN r.tries ELSE 0) ELSE won[k]
  BY DEF JobsInv, JobsTypeOK
<1>4. job' \in [Jobs -> JobRow] /\ won' \in [Jobs -> Nat]
  BY <1>2 DEF JobsInv, JobsTypeOK
<1>5. TokenIsCount'
  BY <1>1 DEF JobsInv, TokenIsCount
<1>6. WonByNewest'
  BY <1>1, <1>3 DEF JobsInv, WonByNewest
<1> QED BY <1>4, <1>5, <1>6

(* A step of one worker's desk. *)
LEMMA DeskKeeps ==
    ASSUME JobsInv, NEW w \in JobWorkers, NEW d \in Desk \cup {AtRest}, desk' = [desk EXCEPT ![w] = d],
           d.stage = "judged" => (d.token < JobMaxTries \/ d.verdict # "RETRY") /\ d.verdict # "SUCCEEDED"
    PROVE  desk' \in [JobWorkers -> Desk \cup {AtRest}] /\ RetriesAreLeft'
<1>1. \A v \in JobWorkers : desk'[v] = IF v = w THEN d ELSE desk[v]
  BY DEF JobsInv, JobsTypeOK
<1>2. desk' \in [JobWorkers -> Desk \cup {AtRest}]
  BY DEF JobsInv, JobsTypeOK
<1> QED BY <1>1, <1>2 DEF JobsInv, RetriesAreLeft

LEMMA RestForm == AtRest \in Desk \cup {AtRest} /\ AtRest.stage = "rest"
BY DEF AtRest

LEMMA SameWon ==
    ASSUME JobsInv, NEW j \in Jobs, NEW r \in JobRow, UNCHANGED won,
           job[j].status # "SUCCEEDED", r.status # "SUCCEEDED"
    PROVE  won' = [won EXCEPT ![j] = IF r.status = "SUCCEEDED" THEN r.tries ELSE 0]
<1>1. won[j] = 0 /\ won \in [Jobs -> Nat]
  BY DEF JobsInv, WonByNewest, JobsTypeOK
<1> QED BY <1>1

-----------------------------------------------------------------------------
(* Each operation *)

(* Callers and time change one row: its status moves on, or a flag is set. *)
LEMMA CallerKeeps ==
    ASSUME JobsInv, NEW j \in Jobs,
           \/ \E b \in BOOLEAN : EnqueueJob(j, b) \/ DecideJob(j, b)
           \/ CancelJob(j)
           \/ JobLeaseLapses(j)
    PROVE  JobsInv'
<1>1. UNCHANGED <<attempts, won, dropped, desk>>
  BY DEF EnqueueJob, DecideJob, CancelJob, JobLeaseLapses
<1>2. JobsTypeOK /\ job \in [Jobs -> JobRow]
  BY DEF JobsInv, JobsTypeOK
<1>3. PICK r \in JobRow :
          /\ job' = [job EXCEPT ![j] = r]
          /\ r.tries = job[j].tries /\ r.token = job[j].token
          /\ job[j].status # "SUCCEEDED" /\ r.status # "SUCCEEDED"
          /\ r.status = "RUNNING" => job[j].status = "RUNNING"
          /\ r.status \in {"NONE", "WAITING_APPROVAL", "PENDING", "RETRY"} =>
                job[j].status \in {"NONE", "WAITING_APPROVAL", "PENDING", "RETRY"}
  <2>1. ASSUME NEW b \in BOOLEAN, EnqueueJob(j, b) \/ DecideJob(j, b)
        PROVE  \E s \in {"WAITING_APPROVAL", "PENDING", "REJECTED"} :
                 /\ job' = [job EXCEPT ![j] = [job[j] EXCEPT !.status = s]]
                 /\ job[j].status \in {"NONE", "WAITING_APPROVAL"}
    BY <2>1, <1>2 DEF EnqueueJob, DecideJob, JobMoves
  <2>2. ASSUME NEW s \in {"WAITING_APPROVAL", "PENDING", "REJECTED"}
        PROVE  /\ [job[j] EXCEPT !.status = s] \in JobRow
               /\ [job[j] EXCEPT !.status = s].status = s
               /\ [job[j] EXCEPT !.status = s].tries = job[j].tries
               /\ [job[j] EXCEPT !.status = s].token = job[j].token
    BY <1>2 DEF JobRow, JobStatus, JobEnded
  <2>3. CASE \E b \in BOOLEAN : EnqueueJob(j, b) \/ DecideJob(j, b)
    BY <2>1, <2>2, <2>3
  <2>4. CASE CancelJob(j)
    <3> DEFINE r == [job[j] EXCEPT !.cancel = TRUE,
                                   !.status = IF @ = "RUNNING" THEN @ ELSE "CANCELLED"]
    <3>1. r \in JobRow /\ r.tries = job[j].tries /\ r.token = job[j].token
      BY <1>2 DEF JobRow, JobStatus, JobEnded
    <3>2. r.status = IF job[j].status = "RUNNING" THEN "RUNNING" ELSE "CANCELLED"
      BY <1>2 DEF JobRow
    <3>3. job' = [job EXCEPT ![j] = r] /\ job[j].status # "SUCCEEDED"
      BY <2>4, <1>2 DEF CancelJob, JobEnded
    <3> HIDE DEF r
    <3> QED BY <3>1, <3>2, <3>3
  <2>5. CASE JobLeaseLapses(j)
    <3> DEFINE r == [job[j] EXCEPT !.lapsed = TRUE]
    <3>1. r \in JobRow /\ r.tries = job[j].tries /\ r.token = job[j].token /\ r.status = job[j].status
      BY <1>2 DEF JobRow
    <3>2. job' = [job EXCEPT ![j] = r] /\ job[j].status = "RUNNING"
      BY <2>5, <1>2 DEF JobLeaseLapses
    <3> QED BY <3>1, <3>2
  <2> QED BY <2>3, <2>4, <2>5
<1>4. job' \in [Jobs -> JobRow] /\ won' \in [Jobs -> Nat] /\ TokenIsCount' /\ WonByNewest'
  <2>1. won' = [won EXCEPT ![j] = IF r.status = "SUCCEEDED" THEN r.tries ELSE 0]
    BY <1>1, <1>3, SameWon
  <2>2. /\ r.status = "RUNNING" => r.token = r.tries /\ r.tries > 0
        /\ r.status \in {"NONE", "WAITING_APPROVAL", "PENDING", "RETRY"} => r.tries < JobMaxTries
        /\ r.tries <= JobMaxTries
    BY <1>3 DEF JobsInv, TokenIsCount
  <2> QED BY <1>3, <2>1, <2>2, JobRowKeeps
<1>5. JobsTypeOK' /\ RetriesAreLeft'
  BY <1>1, <1>4 DEF JobsInv, JobsTypeOK, RetriesAreLeft
<1> QED BY <1>4, <1>5 DEF JobsInv

LEMMA SweptForm ==
    ASSUME JobsInv, NEW j \in Jobs
    PROVE  /\ Swept(job[j]) \in JobRow /\ Swept(job[j]).tries = job[j].tries
           /\ Swept(job[j]).status = "SUCCEEDED" <=> job[j].status = "SUCCEEDED"
           /\ Swept(job[j]).status = "RUNNING" => job[j].status = "RUNNING" /\ Swept(job[j]) = job[j]
           /\ Swept(job[j]).status \in {"NONE", "WAITING_APPROVAL", "PENDING", "RETRY"} =>
                 job[j].tries < JobMaxTries
<1>1. job[j] \in JobRow /\ job[j].tries \in Nat
  BY JobForm DEF JobsInv
<1>2. [job[j] EXCEPT !.status = "RETRY", !.token = 0] \in JobRow
  BY <1>1 DEF JobRow, JobStatus
<1>3. /\ [job[j] EXCEPT !.status = "RETRY", !.token = 0].status = "RETRY"
      /\ [job[j] EXCEPT !.status = "RETRY", !.token = 0].tries = job[j].tries
  BY <1>1 DEF JobRow
<1> QED BY <1>1, <1>2, <1>3 DEF Swept, TriesLeft, JobsInv, TokenIsCount

LEMMA ChooseKeeps ==
    ASSUME JobsInv, NEW w \in JobWorkers, ChooseJobs(w)
    PROVE  JobsInv'
<1>1. job' = [j \in Jobs |-> Swept(job[j])] /\ UNCHANGED <<attempts, won, dropped>>
  BY DEF ChooseJobs
<1>2. job' \in [Jobs -> JobRow]
  BY <1>1, SweptForm
<1>3. TokenIsCount' /\ WonByNewest'
  BY <1>1, SweptForm DEF JobsInv, TokenIsCount, WonByNewest
<1>4. PICK p \in SUBSET Jobs :
          desk' = desk \/ desk' = [desk EXCEPT ![w] = [stage |-> "choosing", picks |-> p]]
  BY DEF ChooseJobs
<1>5. [stage |-> "choosing", picks |-> p] \in Desk
  BY DEF Desk
<1>6. desk' \in [JobWorkers -> Desk \cup {AtRest}] /\ RetriesAreLeft'
  <2>1. CASE desk' = desk
    BY <2>1 DEF JobsInv, JobsTypeOK, RetriesAreLeft
  <2>2. CASE desk' = [desk EXCEPT ![w] = [stage |-> "choosing", picks |-> p]]
    BY <2>2, <1>5, DeskKeeps
  <2> QED BY <1>4, <2>1, <2>2
<1> QED BY <1>1, <1>2, <1>3, <1>6 DEF JobsInv, JobsTypeOK

LEMMA JobTakeKeeps ==
    ASSUME JobsInv, NEW w \in JobWorkers, NEW j \in Jobs, TakeJob(w, j)
    PROVE  JobsInv'
<1>0. JobsTypeOK /\ UNCHANGED <<attempts, won, dropped>> /\ desk[w].stage = "choosing"
  BY DEF JobsInv, TakeJob
<1>1. CASE job[j].status \in {"PENDING", "RETRY"} /\ ~job[j].cancel
  <2>1. PICK r \in JobRow : /\ job' = [job EXCEPT ![j] = r]
                            /\ r.status = "RUNNING" /\ r.tries = job[j].tries + 1 /\ r.token = r.tries
    <3> DEFINE r == [status |-> "RUNNING", tries |-> job[j].tries + 1, cancel |-> FALSE,
                     token |-> job[j].tries + 1, lapsed |-> FALSE]
    <3>1. r \in JobRow /\ r.status = "RUNNING" /\ r.tries = job[j].tries + 1 /\ r.token = r.tries
      BY <1>0, JobForm DEF JobRow, JobStatus
    <3>2. job' = [job EXCEPT ![j] = r]
      BY <1>1 DEF TakeJob
    <3> HIDE DEF r
    <3> QED BY <3>1, <3>2
  <2>2. r.tries > 0 /\ r.tries <= JobMaxTries
    <3>1. job[j].tries \in Nat /\ job[j].tries < JobMaxTries
      BY <1>0, <1>1, JobForm DEF JobsInv, TokenIsCount
    <3> QED BY <2>1, <3>1
  <2>3. job' \in [Jobs -> JobRow] /\ won' \in [Jobs -> Nat] /\ TokenIsCount' /\ WonByNewest'
    <3>1. won' = [won EXCEPT ![j] = IF r.status = "SUCCEEDED" THEN r.tries ELSE 0]
      BY <1>0, <1>1, <2>1, SameWon
    <3> QED BY <2>1, <2>2, <3>1, JobRowKeeps
  <2>4. desk' = [desk EXCEPT ![w] = [stage |-> "took", job |-> j, token |-> job[j].tries + 1]]
    BY <1>1 DEF TakeJob
  <2>5. [stage |-> "took", job |-> j, token |-> job[j].tries + 1] \in Desk
    BY <1>0, JobForm DEF Desk
  <2>6. desk' \in [JobWorkers -> Desk \cup {AtRest}] /\ RetriesAreLeft'
    BY <2>4, <2>5, DeskKeeps
  <2> QED BY <1>0, <2>3, <2>6 DEF JobsInv, JobsTypeOK
<1>2. CASE ~(job[j].status \in {"PENDING", "RETRY"} /\ ~job[j].cancel)
  <2>1. PICK d \in Desk \cup {AtRest} : /\ desk' = [desk EXCEPT ![w] = d]
                                        /\ d.stage \in {"rest", "choosing"}
    <3> DEFINE d == IF desk[w].picks = {j} THEN AtRest
                    ELSE [stage |-> "choosing", picks |-> desk[w].picks \ {j}]
    <3>1. desk' = [desk EXCEPT ![w] = d]
      BY <1>2 DEF TakeJob
    <3>2. d \in Desk \cup {AtRest} /\ d.stage \in {"rest", "choosing"}
      BY <1>0, DeskForm, RestForm DEF Desk
    <3> HIDE DEF d
    <3> QED BY <3>1, <3>2
  <2>2. UNCHANGED job
    BY <1>2 DEF TakeJob
  <2>3. desk' \in [JobWorkers -> Desk \cup {AtRest}] /\ RetriesAreLeft'
    BY <2>1, DeskKeeps
  <2> QED BY <1>0, <2>2, <2>3 DEF JobsInv, JobsTypeOK, TokenIsCount, WonByNewest
<1> QED BY <1>1, <1>2
(* A step that leaves the rows of the jobs alone. *)
LEMMA RowsKept ==
    ASSUME JobsInv, NEW w \in JobWorkers, NEW d \in Desk \cup {AtRest}, desk' = [desk EXCEPT ![w] = d],
           UNCHANGED <<job, won>>, attempts' \subseteq AttemptRow, dropped' \subseteq Jobs,
           d.stage = "judged" => (d.token < JobMaxTries \/ d.verdict # "RETRY") /\ d.verdict # "SUCCEEDED"
    PROVE  JobsInv'
<1>1. desk' \in [JobWorkers -> Desk \cup {AtRest}] /\ RetriesAreLeft'
  BY DeskKeeps
<1> QED BY <1>1 DEF JobsInv, JobsTypeOK, TokenIsCount, WonByNewest

LEMMA OpenKeeps ==
    ASSUME JobsInv, NEW w \in JobWorkers, OpenAttempt(w)
    PROVE  JobsInv'
<1>1. /\ desk[w].stage = "took" /\ desk[w].job \in Jobs /\ desk[w].token \in Nat
      /\ UNCHANGED <<job, won, dropped>> /\ JobsTypeOK
  BY DeskForm DEF OpenAttempt, JobsInv
<1>2. PICK j \in Jobs : j = desk[w].job
  BY <1>1
<1>3. CASE \E a \in attempts : a.job = j /\ a.number = job[j].tries
  <2>1. desk' = [desk EXCEPT ![w] = AtRest] /\ UNCHANGED attempts
    BY <1>2, <1>3 DEF OpenAttempt
  <2> QED BY <1>1, <2>1, RestForm, RowsKept DEF JobsTypeOK
<1>4. CASE ~\E a \in attempts : a.job = j /\ a.number = job[j].tries
  <2>1. PICK d \in Desk : desk' = [desk EXCEPT ![w] = d] /\ d.stage = "working"
    <3> DEFINE d == [stage |-> "working", job |-> j, token |-> job[j].token]
    <3>1. desk' = [desk EXCEPT ![w] = d]
      BY <1>2, <1>4 DEF OpenAttempt
    <3>2. d \in Desk /\ d.stage = "working"
      BY <1>1, JobForm DEF Desk
    <3> HIDE DEF d
    <3> QED BY <3>1, <3>2
  <2>2. attempts' \subseteq AttemptRow
    <3>1. attempts' = attempts \cup {[job |-> j, number |-> job[j].tries, token |-> desk[w].token,
                                      status |-> "RUNNING"]}
      BY <1>2, <1>4 DEF OpenAttempt
    <3> QED BY <1>1, <3>1, JobForm DEF AttemptRow, JobsTypeOK
  <2> QED BY <1>1, <2>1, <2>2, RowsKept DEF JobsTypeOK
<1> QED BY <1>3, <1>4

(* The renewal of a lease that is still held. *)
LEMMA RenewKeeps ==
    ASSUME JobsInv, NEW w \in JobWorkers, RenewLease(w)
    PROVE  JobsInv'
<1>1. /\ desk[w].stage = "working" /\ desk[w].job \in Jobs /\ Holds(w)
      /\ UNCHANGED <<attempts, won, dropped, desk>> /\ JobsTypeOK
  BY DeskForm DEF RenewLease, JobsInv
<1>2. PICK j \in Jobs : j = desk[w].job
  BY <1>1
<1>3. PICK r \in JobRow : /\ job' = [job EXCEPT ![j] = r] /\ r.status = job[j].status
                          /\ r.tries = job[j].tries /\ r.token = job[j].token
  <2> DEFINE r == [job[j] EXCEPT !.lapsed = FALSE]
  <2>1. r \in JobRow /\ r.status = job[j].status /\ r.tries = job[j].tries /\ r.token = job[j].token
    BY <1>1, JobForm DEF JobRow
  <2>2. job' = [job EXCEPT ![j] = r]
    BY <1>2 DEF RenewLease
  <2> HIDE DEF r
  <2> QED BY <2>1, <2>2
<1>4. job' \in [Jobs -> JobRow] /\ won' \in [Jobs -> Nat] /\ TokenIsCount' /\ WonByNewest'
  <2>1. job[j].status = "RUNNING"
    BY <1>1, <1>2 DEF Holds
  <2>2. won' = [won EXCEPT ![j] = IF r.status = "SUCCEEDED" THEN r.tries ELSE 0]
    BY <1>1, <1>3, <2>1, SameWon
  <2> QED BY <1>3, <2>1, <2>2, JobRowKeeps DEF JobsInv, TokenIsCount
<1> QED BY <1>1, <1>4 DEF JobsInv, JobsTypeOK, RetriesAreLeft

(* A report that is accepted: the row, the winner and the desk. *)
LEMMA ReportKeeps ==
    ASSUME JobsInv, NEW w \in JobWorkers, NEW verdict \in {"SUCCEEDED", "RETRY", "FAILED"},
           desk[w].stage \in {"working", "judged"}, Holds(w), Reported(w, verdict),
           UNCHANGED <<attempts, dropped>>,
           verdict = "RETRY" => desk[w].token < JobMaxTries,
           won' = IF verdict = "SUCCEEDED" THEN [won EXCEPT ![desk[w].job] = desk[w].token] ELSE won
    PROVE  JobsInv'
<1>1. desk[w].job \in Jobs /\ desk[w].token \in Nat /\ JobsTypeOK
  BY DeskForm DEF JobsInv
<1>2. PICK j \in Jobs : j = desk[w].job
  BY <1>1
<1>3. job[j].status = "RUNNING" /\ job[j].token = desk[w].token /\ job[j].tries = desk[w].token
  BY <1>2 DEF Holds, JobsInv, TokenIsCount
<1>4. PICK r \in JobRow : /\ job' = [job EXCEPT ![j] = r] /\ r.status = verdict
                          /\ r.tries = job[j].tries
  <2> DEFINE r == [job[j] EXCEPT !.status = verdict, !.token = 0]
  <2>1. r \in JobRow /\ r.status = verdict /\ r.tries = job[j].tries
    BY <1>1, JobForm DEF JobRow, JobStatus, JobEnded
  <2>2. job' = [job EXCEPT ![j] = r]
    BY <1>2 DEF Reported
  <2> HIDE DEF r
  <2> QED BY <2>1, <2>2
<1>5. job' \in [Jobs -> JobRow] /\ won' \in [Jobs -> Nat] /\ TokenIsCount' /\ WonByNewest'
  <2>1. won' = [won EXCEPT ![j] = IF r.status = "SUCCEEDED" THEN r.tries ELSE 0]
    <3>1. CASE verdict = "SUCCEEDED"
      BY <1>2, <1>3, <1>4, <3>1
    <3>2. CASE verdict # "SUCCEEDED"
      BY <1>3, <1>4, <3>2, SameWon
    <3> QED BY <3>1, <3>2
  <2>2. r.tries <= JobMaxTries /\ (r.status = "RETRY" => r.tries < JobMaxTries)
    BY <1>3, <1>4 DEF JobsInv, TokenIsCount
  <2> QED BY <1>4, <2>1, <2>2, JobRowKeeps
<1>6. desk' \in [JobWorkers -> Desk \cup {AtRest}] /\ RetriesAreLeft'
  <2> DEFINE d == [stage |-> "closing", job |-> j, token |-> desk[w].token, verdict |-> verdict]
  <2>1. desk' = [desk EXCEPT ![w] = d]
    BY <1>2 DEF Reported
  <2>2. d \in Desk /\ d.stage = "closing"
    BY <1>1 DEF Desk
  <2> HIDE DEF d
  <2> QED BY <2>1, <2>2, DeskKeeps
<1> QED BY <1>1, <1>5, <1>6 DEF JobsInv, JobsTypeOK

LEMMA JobCompleteKeeps ==
    ASSUME JobsInv, NEW w \in JobWorkers, CompleteJob(w)
    PROVE  JobsInv'
<1>1. CASE MayComplete(w)
  BY <1>1, ReportKeeps DEF CompleteJob, MayComplete
<1>2. CASE ~MayComplete(w)
  BY <1>2, RowsKept, RestForm DEF CompleteJob, JobsInv, JobsTypeOK
<1> QED BY <1>1, <1>2

LEMMA JudgeKeeps ==
    ASSUME JobsInv, NEW w \in JobWorkers, JudgeFailure(w)
    PROVE  JobsInv'
<1>1. /\ desk[w].job \in Jobs /\ desk[w].token \in Nat /\ JobsTypeOK
      /\ UNCHANGED <<job, attempts, won, dropped>>
  BY DeskForm DEF JobsInv, JudgeFailure
<1>2. CASE ~Holds(w)
  <2>1. desk' = [desk EXCEPT ![w] = AtRest]
    BY <1>2 DEF JudgeFailure
  <2> QED BY <1>1, <2>1, RowsKept, RestForm DEF JobsTypeOK
<1>3. CASE Holds(w)
  <2>1. PICK j \in Jobs : j = desk[w].job
    BY <1>1
  <2>2. job[j].tries = desk[w].token
    BY <1>3, <2>1 DEF Holds, JobsInv, TokenIsCount
  <2> DEFINE d == [stage |-> "judged", job |-> j, token |-> desk[w].token,
                   verdict |-> IF job[j].tries < JobMaxTries THEN "RETRY" ELSE "FAILED"]
  <2>3. desk' = [desk EXCEPT ![w] = d]
    BY <1>3, <2>1 DEF JudgeFailure
  <2>4. d \in Desk /\ (d.token < JobMaxTries \/ d.verdict # "RETRY") /\ d.verdict # "SUCCEEDED"
    BY <1>1, <2>2 DEF Desk
  <2> HIDE DEF d
  <2> QED BY <1>1, <2>3, <2>4, RowsKept DEF JobsTypeOK
<1> QED BY <1>2, <1>3

LEMMA FailKeeps ==
    ASSUME JobsInv, NEW w \in JobWorkers, FailJob(w)
    PROVE  JobsInv'
<1>1. CASE Holds(w)
  <2>1. desk[w].verdict \in {"RETRY", "FAILED"} /\ (desk[w].verdict = "RETRY" => desk[w].token < JobMaxTries)
    BY DeskForm DEF FailJob, JobsInv, RetriesAreLeft
  <2> QED BY <1>1, <2>1, ReportKeeps DEF FailJob
<1>2. CASE ~Holds(w)
  BY <1>2, RowsKept, RestForm DEF FailJob, JobsInv, JobsTypeOK
<1> QED BY <1>1, <1>2

LEMMA CloseKeeps ==
    ASSUME JobsInv, NEW w \in JobWorkers, CloseAttempt(w) \/ JobWorkerDies(w)
    PROVE  JobsInv'
<1>1. desk' = [desk EXCEPT ![w] = AtRest] /\ UNCHANGED <<job, won>>
  BY DEF CloseAttempt, JobWorkerDies
<1>2. JobsTypeOK
  BY DEF JobsInv
<1>3. attempts' \subseteq AttemptRow
  <2>1. CASE CloseAttempt(w)
    <3>1. desk[w].verdict \in {"SUCCEEDED", "RETRY", "FAILED"}
      BY <1>2, <2>1, DeskForm DEF CloseAttempt
    <3>2. \A a \in attempts : [a EXCEPT !.status = desk[w].verdict] \in AttemptRow
      BY <1>2, <3>1 DEF AttemptRow, JobsTypeOK
    <3> QED BY <1>2, <2>1, <3>2 DEF CloseAttempt, JobsTypeOK
  <2>2. CASE JobWorkerDies(w)
    BY <1>2, <2>2 DEF JobWorkerDies, JobsTypeOK
  <2> QED BY <2>1, <2>2
<1>4. dropped' \subseteq Jobs
  <2>1. CASE CloseAttempt(w)
    BY <1>2, <2>1 DEF CloseAttempt, JobsTypeOK
  <2>2. CASE JobWorkerDies(w)
    <3>1. desk[w].stage \in {"took", "working", "judged", "closing"}
      BY <1>2, <2>2, DeskForm DEF JobWorkerDies, Desk, AtRest
    <3> QED BY <1>2, <2>2, <3>1, DeskForm DEF JobWorkerDies, JobsTypeOK
  <2> QED BY <2>1, <2>2
<1> QED BY <1>1, <1>3, <1>4, RestForm, RowsKept

LEMMA JobStepKeeps ==
    ASSUME JobsInv, [JobsNext]_jobVars
    PROVE  JobsInv'
<1>1. CASE UNCHANGED jobVars
  BY <1>1 DEF jobVars, JobsInv, JobsTypeOK, TokenIsCount, WonByNewest, RetriesAreLeft
<1> QED
  BY <1>1, CallerKeeps, ChooseKeeps, JobTakeKeeps, OpenKeeps, RenewKeeps, JobCompleteKeeps, JudgeKeeps,
     FailKeeps, CloseKeeps DEF JobsNext

LEMMA JobsKeep == JobsSpec => []JobsInv
<1>1. JobsInv /\ [JobsNext]_jobVars => JobsInv' BY JobStepKeeps
<1> QED BY JobsBegin, <1>1, PTL DEF JobsSpec

-----------------------------------------------------------------------------
(* Theorems *)

(* Every row holds what its column admits (execution_control.py:41-212).  *)
THEOREM JobTypes == JobsSpec => []JobsTypeOK
<1>1. JobsInv => JobsTypeOK BY DEF JobsInv
<1> QED BY JobsKeep, <1>1, PTL

(* No job is claimed more often than MAX_ATTEMPTS, and the claim that      *)
(* succeeded is its newest one (execution_control.py:128-212).             *)
THEOREM TriesAndWinner == JobsSpec => [](JobTriesBounded /\ NewestClaimWins)
<1>1. JobsInv => JobTriesBounded /\ NewestClaimWins
  BY DEF JobsInv, TokenIsCount, WonByNewest, JobTriesBounded, NewestClaimWins
<1> QED BY JobsKeep, <1>1, PTL

(* After the answer of cancel_job no claim and no success: the guard is in  *)
(* the statements that write (execution_control.py:113-192).               *)
THEOREM NothingAfterCancel == JobsSpec => CancelledStaysCancelled
<1> DEFINE Kept == \A j \in Jobs : job[j].cancel => job'[j].tries = job[j].tries /\ won'[j] = won[j]
<1>1. ASSUME JobsInv, JobsNext PROVE Kept
  <2> SUFFICES ASSUME NEW j \in Jobs, job[j].cancel
               PROVE  job'[j].tries = job[j].tries /\ won'[j] = won[j]
    OBVIOUS
  <2>0. job \in [Jobs -> JobRow] /\ won \in [Jobs -> Nat] /\ job[j] \in JobRow
    BY <1>1 DEF JobsInv, JobsTypeOK
  <2>1. ASSUME NEW k \in Jobs, \/ \E b \in BOOLEAN : EnqueueJob(k, b) \/ DecideJob(k, b)
                               \/ CancelJob(k) \/ JobLeaseLapses(k)
        PROVE  job'[j].tries = job[j].tries /\ won'[j] = won[j]
    BY <2>0, <2>1 DEF EnqueueJob, DecideJob, CancelJob, JobLeaseLapses, JobMoves, JobRow
  <2>2. ASSUME NEW w \in JobWorkers, ChooseJobs(w)
        PROVE  job'[j].tries = job[j].tries /\ won'[j] = won[j]
    <3>1. job' = [k \in Jobs |-> Swept(job[k])] /\ UNCHANGED won
      BY <2>2 DEF ChooseJobs
    <3>2. job'[j] = Swept(job[j])
      BY <3>1
    <3> QED BY <1>1, <3>1, <3>2, SweptForm
  <2>3. ASSUME NEW w \in JobWorkers, NEW k \in Jobs, TakeJob(w, k)
        PROVE  job'[j].tries = job[j].tries /\ won'[j] = won[j]
    BY <2>0, <2>3 DEF TakeJob
  <2>4. ASSUME NEW w \in JobWorkers, NEW verdict, Reported(w, verdict)
        PROVE  job'[j].tries = job[j].tries
    <3>1. [job[j] EXCEPT !.status = verdict, !.token = 0].tries = job[j].tries
      BY <2>0 DEF JobRow
    <3> QED BY <2>0, <2>4, <3>1 DEF Reported
  <2>5. ASSUME NEW w \in JobWorkers, CompleteJob(w) \/ FailJob(w)
        PROVE  job'[j].tries = job[j].tries /\ won'[j] = won[j]
    <3>1. job' = job \/ \E verdict : Reported(w, verdict)
      BY <2>5 DEF CompleteJob, FailJob
    <3>2. won'[j] = won[j]
      BY <2>0, <2>5 DEF CompleteJob, FailJob, MayComplete
    <3> QED BY <2>4, <3>1, <3>2
  <2>6. ASSUME NEW w \in JobWorkers, RenewLease(w)
        PROVE  job'[j].tries = job[j].tries /\ won'[j] = won[j]
    BY <2>0, <2>6 DEF RenewLease, JobRow
  <2>7. ASSUME NEW w \in JobWorkers, \/ OpenAttempt(w) \/ JudgeFailure(w) \/ CloseAttempt(w)
                                     \/ JobWorkerDies(w)
        PROVE  job'[j].tries = job[j].tries /\ won'[j] = won[j]
    BY <2>7 DEF OpenAttempt, JudgeFailure, CloseAttempt, JobWorkerDies
  <2> QED BY <1>1, <2>1, <2>2, <2>3, <2>5, <2>6, <2>7 DEF JobsNext
<1>2. JobsInv /\ [JobsNext]_jobVars => [Kept]_jobVars
  BY <1>1
<1>3. JobsSpec => [][Kept]_jobVars
  BY JobsKeep, <1>2, PTL DEF JobsSpec
<1> QED BY <1>3 DEF CancelledStaysCancelled
-----------------------------------------------------------------------------
(* The refinement *)

LEMMA WorkStutters ==
    ASSUME \A j \in Jobs : job'[j].tries = job[j].tries, UNCHANGED won
    PROVE  UNCHANGED JobWork!workVars
<1>1. [j \in Jobs |-> job'[j].tries] = [j \in Jobs |-> job[j].tries]
  OBVIOUS
<1> QED BY <1>1 DEF JobWork!workVars

LEMMA TakeRefines ==
    ASSUME JobsInv, NEW w \in JobWorkers, NEW j \in Jobs, TakeJob(w, j)
    PROVE  JobWork!WorkNext \/ UNCHANGED JobWork!workVars
<1>1. CASE job[j].status \in {"PENDING", "RETRY"} /\ ~job[j].cancel
  <2>1. won[j] = 0 /\ job[j].tries < JobMaxTries
    BY <1>1 DEF JobsInv, WonByNewest, TokenIsCount
  <2>2. \A k \in Jobs : job'[k].tries = IF k = j THEN job[j].tries + 1 ELSE job[k].tries
    BY <1>1 DEF TakeJob, JobsInv, JobsTypeOK
  <2>3. [k \in Jobs |-> job'[k].tries] = [[k \in Jobs |-> job[k].tries] EXCEPT ![j] = @ + 1]
    BY <2>2
  <2>4. JobWork!ClaimWork(j)
    BY <2>1, <2>3 DEF JobWork!ClaimWork, TakeJob
  <2> QED BY <2>4 DEF JobWork!WorkNext
<1>2. CASE ~(job[j].status \in {"PENDING", "RETRY"} /\ ~job[j].cancel)
  BY <1>2, WorkStutters DEF TakeJob
<1> QED BY <1>1, <1>2

LEMMA ReportedTries ==
    ASSUME JobsInv, NEW w \in JobWorkers, NEW verdict, Reported(w, verdict), NEW j \in Jobs
    PROVE  job'[j].tries = job[j].tries
<1>1. job \in [Jobs -> JobRow]
  BY DEF JobsInv, JobsTypeOK
<1>2. [job[j] EXCEPT !.status = verdict, !.token = 0].tries = job[j].tries
  BY <1>1 DEF JobRow
<1> QED BY <1>1, <1>2 DEF Reported

LEMMA CompleteRefines ==
    ASSUME JobsInv, NEW w \in JobWorkers, CompleteJob(w)
    PROVE  JobWork!WorkNext \/ UNCHANGED JobWork!workVars
<1>1. CASE MayComplete(w)
  <2>1. PICK j \in Jobs : j = desk[w].job
    BY DeskForm DEF CompleteJob, JobsInv
  <2>2. job[j].status = "RUNNING" /\ job[j].tries = desk[w].token /\ job[j].tries > 0
    BY <1>1, <2>1 DEF MayComplete, Holds, JobsInv, TokenIsCount
  <2>3. won[j] = 0 /\ won' = [won EXCEPT ![j] = job[j].tries] /\ Reported(w, "SUCCEEDED")
    BY <1>1, <2>1, <2>2 DEF CompleteJob, JobsInv, WonByNewest
  <2>4. [k \in Jobs |-> job'[k].tries] = [k \in Jobs |-> job[k].tries]
    <3>1. \A k \in Jobs : job'[k].tries = job[k].tries
      BY <2>3, ReportedTries
    <3> QED BY <3>1
  <2>5. JobWork!FinishWork(j)
    BY <2>2, <2>3, <2>4 DEF JobWork!FinishWork
  <2> QED BY <2>5 DEF JobWork!WorkNext
<1>2. CASE ~MayComplete(w)
  BY <1>2, WorkStutters DEF CompleteJob
<1> QED BY <1>1, <1>2

(* What leaves the count of attempts and the winner alone. *)
LEMMA OthersStutter ==
    ASSUME JobsInv,
           \/ \E j \in Jobs : \/ \E b \in BOOLEAN : EnqueueJob(j, b) \/ DecideJob(j, b)
                              \/ CancelJob(j) \/ JobLeaseLapses(j)
           \/ \E w \in JobWorkers : \/ ChooseJobs(w) \/ OpenAttempt(w) \/ RenewLease(w) \/ JudgeFailure(w)
                                    \/ FailJob(w) \/ CloseAttempt(w) \/ JobWorkerDies(w)
    PROVE  UNCHANGED JobWork!workVars
<1>0. job \in [Jobs -> JobRow]
  BY DEF JobsInv, JobsTypeOK
<1>1. ASSUME NEW k \in Jobs, \/ \E b \in BOOLEAN : EnqueueJob(k, b) \/ DecideJob(k, b)
                             \/ CancelJob(k) \/ JobLeaseLapses(k)
      PROVE  \A j \in Jobs : job'[j].tries = job[j].tries
  BY <1>0, <1>1 DEF EnqueueJob, DecideJob, CancelJob, JobLeaseLapses, JobMoves, JobRow
<1>2. ASSUME NEW w \in JobWorkers, ChooseJobs(w)
      PROVE  \A j \in Jobs : job'[j].tries = job[j].tries
  <2>1. \A j \in Jobs : job'[j] = Swept(job[j])
    BY <1>2 DEF ChooseJobs
  <2> QED BY <2>1, SweptForm
<1>3. ASSUME NEW w \in JobWorkers, FailJob(w)
      PROVE  \A j \in Jobs : job'[j].tries = job[j].tries
  BY <1>3, ReportedTries DEF FailJob
<1>4. ASSUME NEW w \in JobWorkers, RenewLease(w)
      PROVE  \A j \in Jobs : job'[j].tries = job[j].tries
  BY <1>0, <1>4 DEF RenewLease, JobRow
<1>5. ASSUME NEW w \in JobWorkers, OpenAttempt(w) \/ JudgeFailure(w) \/ CloseAttempt(w) \/ JobWorkerDies(w)
      PROVE  \A j \in Jobs : job'[j].tries = job[j].tries
  BY <1>5 DEF OpenAttempt, JudgeFailure, CloseAttempt, JobWorkerDies
<1>6. UNCHANGED won
  BY DEF EnqueueJob, DecideJob, CancelJob, JobLeaseLapses, ChooseJobs, OpenAttempt, RenewLease, JudgeFailure,
         FailJob, CloseAttempt, JobWorkerDies
<1>7. \A j \in Jobs : job'[j].tries = job[j].tries
  BY <1>1, <1>2, <1>3, <1>4, <1>5
<1> QED BY <1>6, <1>7, WorkStutters

(* A job is claimed under growing tokens, at most MAX_ATTEMPTS times, and   *)
(* completed once, by its newest claim (execution_control.py:128-212).     *)
THEOREM JobsRefineLeasedWork == JobsSpec => JobsAreLeasedWork
<1>1. JobsInit => JobWork!WorkInit
  BY DEF JobsInit, JobWork!WorkInit, NewJob
<1>2. JobsInv /\ [JobsNext]_jobVars => [JobWork!WorkNext]_(JobWork!workVars)
  <2> SUFFICES ASSUME JobsInv, [JobsNext]_jobVars
               PROVE  JobWork!WorkNext \/ UNCHANGED JobWork!workVars
    OBVIOUS
  <2>1. CASE UNCHANGED jobVars
    BY <2>1, WorkStutters DEF jobVars
  <2> QED BY <2>1, TakeRefines, CompleteRefines, OthersStutter DEF JobsNext
<1>3. JobsSpec => JobWork!WorkSpec
  BY JobsKeep, <1>1, <1>2, PTL DEF JobsSpec, JobWork!WorkSpec
<1> QED BY <1>3 DEF JobsAreLeasedWork

HIDE JobAssumption

-----------------------------------------------------------------------------
(* The outbox *)

(* Every claim of a message counts a send: what arrived and what is still  *)
(* carried never exceed the sends counted, and these stop at the limit.    *)

(* Who has a message of the row in hand and has not delivered it yet.        *)
Carriers(m) == {d \in Dispatchers : hand[d] # Empty /\ hand[d].stage = "claimed" /\ hand[d].message = m}
OutboxInv ==
    /\ OutboxTypeOK
    /\ \A m \in Messages :
         /\ arrived[m] + Cardinality(Carriers(m)) <= sends[m] /\ sends[m] <= CallerMax
         /\ outbox[m] = "SENT" => arrived[m] > 0
    /\ \A d \in Dispatchers : hand[d] # Empty /\ hand[d].stage = "delivered" => arrived[hand[d].message] > 0

(* One element more adds at most one to what is counted. *)
LEMMA OneMoreElement ==
    ASSUME NEW S, NEW d, IsFiniteSet(S)
    PROVE  /\ IsFiniteSet(S \cup {d})
           /\ Cardinality(S \cup {d}) \in Nat
           /\ Cardinality(S \cup {d}) <= Cardinality(S) + 1
<1>1. IsFiniteSet(S \cup {d})
  BY FS_AddElement
<1>2. Cardinality(S \cup {d}) \in Nat /\ Cardinality(S) \in Nat
  BY <1>1, FS_CardinalityType
<1>3. CASE d \in S
  <2>1. S \cup {d} = S
    BY <1>3
  <2> QED
    BY <1>1, <1>2, <2>1
<1>4. CASE d \notin S
  <2>1. Cardinality(S \cup {d}) = Cardinality(S) + 1
    BY <1>4, FS_AddElement
  <2> QED
    BY <1>1, <1>2, <2>1
<1> QED
  BY <1>3, <1>4

LEMMA CarriersCount ==
    ASSUME NEW m \in Messages
    PROVE  IsFiniteSet(Carriers(m)) /\ Cardinality(Carriers(m)) \in Nat
<1>1. Carriers(m) \subseteq Dispatchers BY DEF Carriers
<1> QED BY <1>1, OutboxAssumption, FS_Subset, FS_CardinalityType

LEMMA CarriersCountLater ==
    ASSUME NEW m \in Messages
    PROVE  IsFiniteSet(Carriers(m)') /\ Cardinality(Carriers(m)') \in Nat
<1>1. Carriers(m)' \subseteq Dispatchers BY DEF Carriers
<1> QED BY <1>1, OutboxAssumption, FS_Subset, FS_CardinalityType

LEMMA FewerCarriers ==
    ASSUME NEW m \in Messages, Carriers(m)' \subseteq Carriers(m)
    PROVE  Cardinality(Carriers(m)') <= Cardinality(Carriers(m))
  BY CarriersCount, FS_Subset

LEMMA OneMoreCarrier ==
    ASSUME NEW m \in Messages, NEW d, Carriers(m)' \subseteq Carriers(m) \cup {d}
    PROVE  Cardinality(Carriers(m)') <= Cardinality(Carriers(m)) + 1
<1> DEFINE S == Carriers(m)
<1>1. IsFiniteSet(S) /\ Cardinality(S) \in Nat BY CarriersCount
<1>2. Carriers(m)' \subseteq S \cup {d} OBVIOUS
<1> HIDE DEF S
<1>3. IsFiniteSet(S \cup {d}) /\ Cardinality(S \cup {d}) \in Nat
  BY <1>1, OneMoreElement
<1>4. Cardinality(S \cup {d}) <= Cardinality(S) + 1
  BY <1>1, OneMoreElement
<1>5. Cardinality(Carriers(m)') <= Cardinality(S \cup {d})
  BY <1>2, <1>3, FS_Subset
<1>6. Cardinality(Carriers(m)') \in Nat BY CarriersCountLater
<1>7. Cardinality(Carriers(m)') <= Cardinality(S) + 1
  BY <1>1, <1>3, <1>4, <1>5, <1>6
<1> QED BY <1>7 DEF S

LEMMA OneLessCarrier ==
    ASSUME NEW m \in Messages, NEW d \in Carriers(m), Carriers(m)' \subseteq Carriers(m) \ {d}
    PROVE  Cardinality(Carriers(m)') + 1 <= Cardinality(Carriers(m))
<1> DEFINE S == Carriers(m)
<1>1. IsFiniteSet(S) /\ Cardinality(S) \in Nat /\ d \in S BY CarriersCount
<1>2. Carriers(m)' \subseteq S \ {d} OBVIOUS
<1> HIDE DEF S
<1>3. IsFiniteSet(S \ {d}) /\ Cardinality(S \ {d}) \in Nat
  BY <1>1, FS_RemoveElement, FS_CardinalityType
<1>4. Cardinality(S \ {d}) = Cardinality(S) - 1
  BY <1>1, FS_RemoveElement
<1>5. Cardinality(Carriers(m)') <= Cardinality(S \ {d})
  BY <1>2, <1>3, FS_Subset
<1>6. Cardinality(Carriers(m)') \in Nat BY CarriersCountLater
<1>7. Cardinality(Carriers(m)') + 1 <= Cardinality(S)
  BY <1>1, <1>3, <1>4, <1>5, <1>6
<1> QED BY <1>7 DEF S

(* What a mark after the claim does: counts stay, a row may leave            *)
(* DISPATCHING, and it becomes SENT only with a message that was delivered.  *)
MarkedBy(d) ==
    /\ UNCHANGED <<sends, arrived>> /\ disturbed' \subseteq Messages
    /\ outbox' \in [Messages -> OutboxStatus \cup {"NONE"}]
    /\ \A m \in Messages : outbox'[m] # outbox[m] =>
         /\ outbox[m] # "SENT"
         /\ outbox'[m] = "SENT" => hand[d] # Empty /\ hand[d].stage = "delivered" /\ hand[d].message = m
    /\ hand' \in [Dispatchers -> Hand \cup {Empty}]
    /\ \A e \in Dispatchers \ {d} : hand'[e] = hand[e]
    /\ hand'[d] # Empty =>
         /\ hand[d] # Empty /\ hand'[d].message = hand[d].message /\ hand'[d].stage # "claimed"
         /\ hand'[d].stage = "delivered" => hand[d].stage = "delivered"

LEMMA HandForm ==
    ASSUME OutboxInv, NEW d \in Dispatchers
    PROVE  /\ Empty \notin Hand /\ Empty.stage = "empty"
           /\ hand[d] \in Hand \cup {Empty}
           /\ hand[d] # Empty => /\ hand[d] \in Hand /\ hand[d].message \in Messages
                                 /\ hand[d].stage \in HandStages /\ hand[d].dead \in BOOLEAN
<1>1. \A h \in Hand : h.stage \in HandStages /\ h.message \in Messages /\ h.dead \in BOOLEAN BY DEF Hand
<1>2. Empty.stage = "empty" BY DEF Empty
<1>3. Empty \notin Hand BY <1>1, <1>2 DEF HandStages
<1>4. hand[d] \in Hand \cup {Empty} BY DEF OutboxInv, OutboxTypeOK
<1> QED BY <1>1, <1>2, <1>3, <1>4

LEMMA HandType ==
    \A h \in Hand, s \in HandStages, b \in BOOLEAN :
      /\ [h EXCEPT !.stage = s, !.dead = b] \in Hand
      /\ [h EXCEPT !.stage = s, !.dead = b].message = h.message
      /\ [h EXCEPT !.stage = s, !.dead = b].stage = s
  BY DEF Hand

LEMMA MarkKeeps ==
    ASSUME OutboxInv, NEW d \in Dispatchers, MarkedBy(d)
    PROVE  OutboxInv'
<1>1. OutboxTypeOK' BY DEF OutboxInv, OutboxTypeOK, MarkedBy
<1>2. ASSUME NEW m \in Messages
      PROVE  (/\ arrived[m] + Cardinality(Carriers(m)) <= sends[m] /\ sends[m] <= CallerMax
              /\ outbox[m] = "SENT" => arrived[m] > 0)'
  <2>1. Carriers(m)' \subseteq Carriers(m) BY DEF MarkedBy, Carriers
  <2>2. Cardinality(Carriers(m)') \in Nat /\ Cardinality(Carriers(m)') <= Cardinality(Carriers(m))
    BY <2>1, FewerCarriers, CarriersCountLater
  <2>3. arrived[m] + Cardinality(Carriers(m)') <= sends[m]
    BY <2>2, CarriersCount DEF OutboxInv, OutboxTypeOK
  <2>4. outbox'[m] = "SENT" => arrived[m] > 0
    BY DEF MarkedBy, OutboxInv
  <2>5. sends[m] <= CallerMax BY DEF OutboxInv
  <2> QED BY <2>3, <2>4, <2>5 DEF MarkedBy
<1>3. ASSUME NEW e \in Dispatchers, hand'[e] # Empty, hand'[e].stage = "delivered"
      PROVE  arrived'[hand'[e].message] > 0
  <2>1. CASE e = d BY <1>3, <2>1 DEF MarkedBy, OutboxInv
  <2>2. CASE e # d BY <1>3, <2>2 DEF MarkedBy, OutboxInv
  <2> QED BY <2>1, <2>2
<1> QED BY <1>1, <1>2, <1>3 DEF OutboxInv

LEMMA HandWrites ==
    ASSUME OutboxInv, NEW d \in Dispatchers, hand[d] # Empty
    PROVE  /\ \A s \in HandStages : [hand[d] EXCEPT !.stage = s] \in Hand
           /\ \A s : /\ [hand[d] EXCEPT !.stage = s].message = hand[d].message
                     /\ [hand[d] EXCEPT !.stage = s].stage = s
<1>1. hand[d] \in Hand BY HandForm
<1> QED BY <1>1 DEF Hand

LEMMA MarksMark ==
    ASSUME OutboxInv, NEW d \in Dispatchers,
           \/ FailDelivery(d) \/ MarkSent(d) \/ MarkDead(d) \/ RetryLookup(d) \/ MarkRetry(d) \/ DispatcherDies(d)
    PROVE  MarkedBy(d)
<1> DEFINE m == hand[d].message
<1>0. hand[d] # Empty
  BY HandForm DEF FailDelivery, MarkSent, MarkDead, RetryLookup, MarkRetry, DispatcherDies
<1>1. m \in Messages /\ hand[d] \in Hand BY <1>0, HandForm
<1>2. outbox \in [Messages -> OutboxStatus \cup {"NONE"}] /\ disturbed \subseteq Messages
      /\ hand \in [Dispatchers -> Hand \cup {Empty}]
  BY DEF OutboxInv, OutboxTypeOK
<1>3. UNCHANGED <<sends, arrived>>
  BY DEF FailDelivery, MarkSent, MarkDead, RetryLookup, MarkRetry, DispatcherDies
<1> HIDE DEF m
<1>4. disturbed' = disturbed \/ disturbed' = disturbed \cup {m}
  BY DEF FailDelivery, MarkSent, MarkDead, RetryLookup, MarkRetry, DispatcherDies, AfterMark, m
<1>5. /\ outbox' \in [Messages -> OutboxStatus \cup {"NONE"}]
      /\ \A n \in Messages : outbox'[n] # outbox[n] =>
           /\ outbox[n] # "SENT"
           /\ outbox'[n] = "SENT" => hand[d] # Empty /\ hand[d].stage = "delivered" /\ hand[d].message = n
  <2>1. CASE UNCHANGED outbox BY <1>2, <2>1
  <2>2. CASE MarkSent(d)
    <3>1. outbox' = [outbox EXCEPT ![m] = IF Marks(m) THEN "SENT" ELSE @] /\ hand[d].stage = "delivered"
      BY <2>2 DEF MarkSent, m
    <3> QED BY <1>0, <1>1, <1>2, <3>1 DEF Marks, OutboxStatus, m
  <2>3. CASE MarkDead(d)
    <3>1. outbox' = [outbox EXCEPT ![m] = IF Marks(m) THEN "DEAD_LETTER" ELSE @]
      BY <2>3 DEF MarkDead, m
    <3> QED BY <1>1, <1>2, <3>1 DEF Marks, OutboxStatus
  <2>4. CASE MarkRetry(d)
    <3>1. outbox' = [outbox EXCEPT ![m] =
            IF ~Marks(m) THEN @ ELSE IF hand[d].dead THEN "DEAD_LETTER" ELSE "PENDING"]
      BY <2>4 DEF MarkRetry, m
    <3> QED BY <1>1, <1>2, <3>1 DEF Marks, OutboxStatus
  <2> QED BY <2>1, <2>2, <2>3, <2>4 DEF FailDelivery, RetryLookup, DispatcherDies
<1>6. PICK row \in Hand \cup {Empty} :
        /\ hand' = [hand EXCEPT ![d] = row]
        /\ row # Empty => row.message = m /\ row.stage # "claimed" /\ (row.stage = "delivered" => hand[d].stage = "delivered")
  <2>1. CASE hand' = [hand EXCEPT ![d] = Empty] BY <2>1
  <2>2. ASSUME NEW s \in HandStages \ {"claimed", "delivered"}, hand' = [hand EXCEPT ![d].stage = s]
        PROVE  \E row \in Hand \cup {Empty} :
                 /\ hand' = [hand EXCEPT ![d] = row]
                 /\ row # Empty => row.message = m /\ row.stage # "claimed" /\ (row.stage = "delivered" => hand[d].stage = "delivered")
    <3> DEFINE row == [hand[d] EXCEPT !.stage = s]
    <3>1. row \in Hand /\ row.message = m /\ row.stage = s BY <1>0, HandWrites DEF m
    <3>2. hand' = [hand EXCEPT ![d] = row] BY <2>2
    <3> HIDE DEF row
    <3> QED BY <2>2, <3>1, <3>2
  <2>3. CASE RetryLookup(d)
    <3> DEFINE row == [hand[d] EXCEPT !.stage = "retrying", !.dead = Exhausted(m)]
    <3>1. row \in Hand /\ row.message = m /\ row.stage = "retrying"
      <4> DEFINE b == Exhausted(m)
      <4>1. b \in BOOLEAN BY DEF Exhausted
      <4> HIDE DEF b
      <4>2. hand[d] \in Hand /\ hand[d].message = m BY <1>1 DEF m
      <4>3. "retrying" \in HandStages BY DEF HandStages
      <4>4. LET r == [hand[d] EXCEPT !.stage = "retrying", !.dead = b] IN
            r \in Hand /\ r.message = m /\ r.stage = "retrying"
        BY <4>1, <4>2, <4>3, HandType
      <4> QED BY <4>4 DEF b
    <3>2. hand' = [hand EXCEPT ![d] = row] BY <2>3 DEF RetryLookup, m
    <3> HIDE DEF row
    <3> QED BY <3>1, <3>2
  <2>4. CASE UNCHANGED hand /\ (MarkSent(d) \/ MarkDead(d))
    <3>1. hand[d].stage # "claimed" BY <2>4 DEF MarkSent, MarkDead
    <3>2. hand' = [hand EXCEPT ![d] = hand[d]] BY <1>2, <2>4
    <3> QED BY <1>1, <3>1, <3>2 DEF m
  <2>5. FailDelivery(d) => \E s \in HandStages \ {"claimed", "delivered"} : hand' = [hand EXCEPT ![d].stage = s]
    <3>1. "failed" \in HandStages \ {"claimed", "delivered"} BY DEF HandStages
    <3> QED BY <3>1 DEF FailDelivery
  <2>6. MarkRetry(d) => \/ hand' = [hand EXCEPT ![d] = Empty]
                        \/ \E s \in HandStages \ {"claimed", "delivered"} : hand' = [hand EXCEPT ![d].stage = s]
    <3>1. "failed" \in HandStages \ {"claimed", "delivered"} BY DEF HandStages
    <3> QED BY <3>1 DEF MarkRetry
  <2>7. MarkSent(d) \/ MarkDead(d) => hand' = [hand EXCEPT ![d] = Empty] \/ UNCHANGED hand
    BY DEF MarkSent, MarkDead, AfterMark
  <2>8. DispatcherDies(d) => hand' = [hand EXCEPT ![d] = Empty] BY DEF DispatcherDies
  <2> QED BY <2>1, <2>2, <2>3, <2>4, <2>5, <2>6, <2>7, <2>8
<1>7. /\ hand' \in [Dispatchers -> Hand \cup {Empty}] /\ hand'[d] = row
      /\ \A e \in Dispatchers \ {d} : hand'[e] = hand[e]
  BY <1>2, <1>6
<1>8. hand'[d] # Empty =>
        /\ hand[d] # Empty /\ hand'[d].message = hand[d].message /\ hand'[d].stage # "claimed"
        /\ hand'[d].stage = "delivered" => hand[d].stage = "delivered"
  BY <1>0, <1>6, <1>7 DEF m
<1> QED BY <1>1, <1>2, <1>3, <1>4, <1>5, <1>7, <1>8 DEF MarkedBy

LEMMA EnqueueOutboxKeeps ==
    ASSUME OutboxInv, NEW m \in Messages, Enqueue(m)
    PROVE  OutboxInv'
<1>1. outbox' = [outbox EXCEPT ![m] = "PENDING"] /\ UNCHANGED <<sends, arrived, disturbed, hand>>
  BY DEF Enqueue
<1>2. OutboxTypeOK' BY <1>1 DEF OutboxInv, OutboxTypeOK, OutboxStatus
<1>3. \A n \in Messages : Carriers(n)' = Carriers(n) BY <1>1 DEF Carriers
<1>4. \A n \in Messages : outbox'[n] = "SENT" => outbox[n] = "SENT" BY <1>1 DEF OutboxInv, OutboxTypeOK
<1> QED BY <1>1, <1>2, <1>3, <1>4 DEF OutboxInv

LEMMA DispatchKeeps ==
    ASSUME OutboxInv, NEW d \in Dispatchers, NEW m \in Messages, Dispatch(d, m)
    PROVE  OutboxInv'
<1> DEFINE row == [stage |-> "claimed", message |-> m, dead |-> FALSE]
<1>1. /\ hand[d] = Empty /\ sends[m] < CallerMax /\ outbox' = [outbox EXCEPT ![m] = "DISPATCHING"]
      /\ sends' = [sends EXCEPT ![m] = @ + 1] /\ hand' = [hand EXCEPT ![d] = row]
      /\ UNCHANGED <<arrived, disturbed>>
  BY DEF Dispatch, MaySend
<1>2. row \in Hand BY DEF Hand, HandStages
<1>3. OutboxTypeOK' BY <1>1, <1>2 DEF OutboxInv, OutboxTypeOK, OutboxStatus
<1>4. hand'[d] = row /\ \A e \in Dispatchers \ {d} : hand'[e] = hand[e]
  BY <1>1 DEF OutboxInv, OutboxTypeOK
<1>5. ASSUME NEW n \in Messages
      PROVE  (/\ arrived[n] + Cardinality(Carriers(n)) <= sends[n] /\ sends[n] <= CallerMax
              /\ outbox[n] = "SENT" => arrived[n] > 0)'
  <2>0. /\ arrived[n] + Cardinality(Carriers(n)) <= sends[n] /\ sends[n] <= CallerMax
        /\ arrived[n] \in Nat /\ sends[n] \in Nat /\ Cardinality(Carriers(n)) \in Nat
        /\ Cardinality(Carriers(n)') \in Nat /\ arrived'[n] = arrived[n]
    BY <1>1, CarriersCount, CarriersCountLater DEF OutboxInv, OutboxTypeOK
  <2>1. outbox'[n] = "SENT" => arrived'[n] > 0
    BY <1>1 DEF OutboxInv, OutboxTypeOK
  <2>2. CASE n = m
    <3>1. Carriers(n)' \subseteq Carriers(n) \cup {d} BY <1>4 DEF Carriers
    <3>2. Cardinality(Carriers(n)') <= Cardinality(Carriers(n)) + 1 BY <3>1, OneMoreCarrier
    <3>3. sends'[n] = sends[n] + 1 BY <1>1, <2>2 DEF OutboxInv, OutboxTypeOK
    <3>4. sends'[n] <= CallerMax BY <1>1, <2>0, <2>2, <3>3, OutboxAssumption
    <3>5. arrived'[n] + Cardinality(Carriers(n)') <= sends'[n] BY <2>0, <3>2, <3>3
    <3> QED BY <2>1, <3>4, <3>5
  <2>3. CASE n # m
    <3>1. Carriers(n)' \subseteq Carriers(n)
      <4>1. row.message = m /\ row # Empty BY <1>2, HandForm
      <4> HIDE DEF row
      <4> QED BY <1>4, <2>3, <4>1 DEF Carriers
    <3>2. Cardinality(Carriers(n)') <= Cardinality(Carriers(n)) BY <3>1, FewerCarriers
    <3>3. sends'[n] = sends[n] BY <1>1, <2>3 DEF OutboxInv, OutboxTypeOK
    <3>5. arrived'[n] + Cardinality(Carriers(n)') <= sends'[n] BY <2>0, <3>2, <3>3
    <3> QED BY <2>0, <2>1, <3>3, <3>5
  <2> QED BY <2>2, <2>3
<1>6. ASSUME NEW e \in Dispatchers, hand'[e] # Empty, hand'[e].stage = "delivered"
      PROVE  arrived'[hand'[e].message] > 0
  <2>1. row.stage = "claimed" OBVIOUS
  <2> HIDE DEF row
  <2>2. e # d BY <1>4, <1>6, <2>1
  <2> QED BY <1>1, <1>4, <1>6, <2>2 DEF OutboxInv
<1> QED BY <1>3, <1>5, <1>6 DEF OutboxInv

LEMMA DeliverKeeps ==
    ASSUME OutboxInv, NEW d \in Dispatchers, Deliver(d)
    PROVE  OutboxInv'
<1> PICK s \in {"delivered", "failed"} : hand' = [hand EXCEPT ![d].stage = s] BY DEF Deliver
<1>0. hand[d] # Empty /\ hand[d].message \in Messages /\ hand[d].stage = "claimed"
  BY HandForm DEF Deliver
<1> PICK m \in Messages : m = hand[d].message BY <1>0
<1>1. arrived' = [arrived EXCEPT ![m] = @ + 1] /\ UNCHANGED <<outbox, sends, disturbed>>
  BY DEF Deliver
<1> DEFINE row == [hand[d] EXCEPT !.stage = s]
<1>2. row \in Hand /\ row.message = m /\ row.stage = s
  BY <1>0, HandWrites DEF HandStages
<1>3. hand' = [hand EXCEPT ![d] = row] OBVIOUS
<1> HIDE DEF row
<1>4. hand'[d] = row /\ \A e \in Dispatchers \ {d} : hand'[e] = hand[e]
  BY <1>3 DEF OutboxInv, OutboxTypeOK
<1>5. OutboxTypeOK' BY <1>1, <1>2, <1>3 DEF OutboxInv, OutboxTypeOK
<1>6. \A n \in Messages : arrived'[n] >= arrived[n] /\ arrived[n] \in Nat /\ arrived'[n] \in Nat
  BY <1>1 DEF OutboxInv, OutboxTypeOK
<1>7. arrived'[m] = arrived[m] + 1 BY <1>1 DEF OutboxInv, OutboxTypeOK
<1>8. ASSUME NEW n \in Messages
      PROVE  (/\ arrived[n] + Cardinality(Carriers(n)) <= sends[n] /\ sends[n] <= CallerMax
              /\ outbox[n] = "SENT" => arrived[n] > 0)'
  <2>0. /\ arrived[n] + Cardinality(Carriers(n)) <= sends[n] /\ sends[n] <= CallerMax
        /\ arrived[n] \in Nat /\ sends[n] \in Nat /\ Cardinality(Carriers(n)) \in Nat
        /\ Cardinality(Carriers(n)') \in Nat /\ sends'[n] = sends[n]
    BY <1>1, CarriersCount, CarriersCountLater DEF OutboxInv, OutboxTypeOK
  <2>1. outbox'[n] = "SENT" => arrived'[n] > 0
    BY <1>1, <1>6 DEF OutboxInv
  <2>2. CASE n = m
    <3>1. d \in Carriers(n) /\ Carriers(n)' \subseteq Carriers(n) \ {d}
      BY <1>0, <1>2, <1>4, <2>2 DEF Carriers
    <3>2. Cardinality(Carriers(n)') + 1 <= Cardinality(Carriers(n)) BY <3>1, OneLessCarrier
    <3>3. arrived'[n] + Cardinality(Carriers(n)') <= sends'[n] BY <1>7, <2>0, <2>2, <3>2
    <3> QED BY <2>0, <2>1, <3>3
  <2>3. CASE n # m
    <3>1. Carriers(n)' \subseteq Carriers(n) BY <1>2, <1>4, <2>3 DEF Carriers
    <3>2. Cardinality(Carriers(n)') <= Cardinality(Carriers(n)) BY <3>1, FewerCarriers
    <3>3. arrived'[n] = arrived[n] BY <1>1, <2>3 DEF OutboxInv, OutboxTypeOK
    <3>4. arrived'[n] + Cardinality(Carriers(n)') <= sends'[n] BY <2>0, <3>2, <3>3
    <3> QED BY <2>0, <2>1, <3>4
  <2> QED BY <2>2, <2>3
<1>9. ASSUME NEW e \in Dispatchers, hand'[e] # Empty, hand'[e].stage = "delivered"
      PROVE  arrived'[hand'[e].message] > 0
  <2>1. CASE e = d BY <1>2, <1>4, <1>6, <1>7, <2>1
  <2>2. CASE e # d
    <3>1. hand[e] # Empty /\ hand[e].stage = "delivered" /\ hand'[e] = hand[e] BY <1>4, <1>9, <2>2
    <3>2. arrived[hand[e].message] > 0 /\ hand[e].message \in Messages BY <3>1, HandForm DEF OutboxInv
    <3> QED BY <1>6, <3>1, <3>2
  <2> QED BY <2>1, <2>2
<1> QED BY <1>5, <1>8, <1>9 DEF OutboxInv

LEMMA OutboxBegins == OutboxInit => OutboxInv
<1> SUFFICES ASSUME OutboxInit PROVE OutboxInv OBVIOUS
<1>1. OutboxTypeOK BY DEF OutboxInit, OutboxTypeOK
<1>2. \A m \in Messages : Carriers(m) = {} BY DEF OutboxInit, Carriers
<1>3. \A m \in Messages : Cardinality(Carriers(m)) = 0 BY <1>2, FS_EmptySet
<1> QED BY <1>1, <1>3, OutboxAssumption DEF OutboxInv, OutboxInit

LEMMA OutboxStepKeeps ==
    ASSUME OutboxInv, [OutboxNext]_outboxVars
    PROVE  OutboxInv'
<1>1. CASE UNCHANGED outboxVars
  <2>1. \A m \in Messages : Carriers(m)' = Carriers(m) BY <1>1 DEF outboxVars, Carriers
  <2>2. OutboxTypeOK' BY <1>1 DEF outboxVars, OutboxInv, OutboxTypeOK
  <2> QED BY <1>1, <2>1, <2>2 DEF outboxVars, OutboxInv
<1>2. CASE OutboxNext
  BY <1>2, EnqueueOutboxKeeps, DispatchKeeps, DeliverKeeps, MarksMark, MarkKeeps DEF OutboxNext
<1> QED BY <1>1, <1>2

(* The remote side gets a message at most as often as attempts are allowed,   *)
(* and what is SENT arrived and stays SENT, whatever dispatchers die, repeat   *)
(* their marks or act on old reads (mark_outbox, graph_event_api.py).        *)
THEOREM OutboxDeliversInBounds ==
    OutboxSpec => [](OutboxTypeOK /\ DeliveriesBounded) /\ SentStaysSent
<1>1. OutboxInv => OutboxTypeOK /\ DeliveriesBounded
  <2> SUFFICES ASSUME OutboxInv, NEW m \in Messages PROVE arrived[m] <= CallerMax
    BY DEF OutboxInv, DeliveriesBounded
  <2>1. arrived[m] + Cardinality(Carriers(m)) <= sends[m] /\ sends[m] <= CallerMax
        /\ arrived[m] \in Nat /\ sends[m] \in Nat /\ Cardinality(Carriers(m)) \in Nat
    BY CarriersCount DEF OutboxInv, OutboxTypeOK
  <2> QED BY <2>1, OutboxAssumption
<1> DEFINE Kept == \A m \in Messages : outbox[m] = "SENT" => arrived[m] > 0 /\ outbox'[m] = "SENT"
<1>2. ASSUME OutboxInv, OutboxNext PROVE Kept
  <2> SUFFICES ASSUME NEW m \in Messages, outbox[m] = "SENT" PROVE arrived[m] > 0 /\ outbox'[m] = "SENT"
    OBVIOUS
  <2>1. arrived[m] > 0 BY <1>2 DEF OutboxInv
  <2>2. ASSUME NEW n \in Messages, Enqueue(n) PROVE outbox'[m] = "SENT"
    BY <1>2, <2>2 DEF Enqueue, OutboxInv, OutboxTypeOK
  <2>3. ASSUME NEW d \in Dispatchers, NEW n \in Messages, Dispatch(d, n) PROVE outbox'[m] = "SENT"
    BY <1>2, <2>3 DEF Dispatch, OutboxInv, OutboxTypeOK
  <2>4. ASSUME NEW d \in Dispatchers, MarkedBy(d) PROVE outbox'[m] = "SENT"
    BY <2>4 DEF MarkedBy
  <2>5. ASSUME NEW d \in Dispatchers, Deliver(d) PROVE outbox'[m] = "SENT"
    BY <2>5 DEF Deliver
  <2>6. outbox'[m] = "SENT"
    BY <1>2, <2>2, <2>3, <2>4, <2>5, MarksMark DEF OutboxNext
  <2> QED BY <2>1, <2>6
<1>3. OutboxInv /\ [OutboxNext]_outboxVars => [Kept]_outboxVars
  BY <1>2
<1> QED BY <1>1, <1>3, OutboxBegins, OutboxStepKeeps, PTL DEF OutboxSpec, SentStaysSent

-----------------------------------------------------------------------------
(* Embedding jobs *)

(* A claim writes the token of its job before the batch is run, so a batch *)
(* that outlives its lease leaves the jobs behind it exposed to a second   *)
(* claim.  Each claim beyond the first is paid for by one crash or one     *)
(* overrun.                                                                *)

EmbJobRow == [status : EmbStatus, worker : EmbWorkers \cup {NoWorker}, token : Nat, expired : BOOLEAN]
BookRow == [pc : {"asleep", "claiming", "next", "embedding", "writing", "done", "failed"},
            found : SUBSET EmbJobs, batch : Seq(EmbJobs \X Nat), seen : 0..MaxContent, counted : BOOLEAN]
EmbRows ==
    /\ embJobs \in [EmbJobs -> EmbJobRow] /\ embBook \in [EmbWorkers -> BookRow]
    /\ content \in 1..MaxContent /\ vector \in 0..MaxContent
    /\ embedded \subseteq EmbJobs \X Nat /\ trouble \in 0..MaxTrouble

Members(s) == {s[i] : i \in DOMAIN s}
OneEach(s) == \A i, k \in DOMAIN s : s[i][1] = s[k][1] => i = k
Entries(w) == Members(embBook[w].batch)

EmbJobKnows(j) ==
    /\ embJobs[j].status \in {"ABSENT", "PENDING"} => embJobs[j].token = 1
    /\ embJobs[j].status \in {"CLAIMED", "FAILED"} => embJobs[j].token > 1
    /\ embJobs[j].status = "COMPLETED" => embJobs[j].token > 1 /\ <<j, embJobs[j].token>> \in embedded
    /\ \A t \in Nat : <<j, t>> \in embedded => t > 1 /\ t <= embJobs[j].token
(* A batch names each of its jobs once, under a token that is that of the    *)
(* job as long as nobody took the job over.                                  *)
EmbWorkerKnows(w) ==
    /\ embBook[w].pc = "asleep" => embBook[w].batch = <<>>
    /\ embBook[w].pc \in {"embedding", "writing", "done", "failed"} => embBook[w].batch # <<>>
    /\ embBook[w].pc = "done" => Current(w) \in embedded
    /\ OneEach(embBook[w].batch)
    /\ \A e \in Entries(w) :
         /\ e[1] \notin embBook[w].found /\ e[2] > 1 /\ e[2] <= embJobs[e[1]].token
         /\ e[2] = embJobs[e[1]].token => embJobs[e[1]].status = "CLAIMED"
OneHolds == \A v, w \in EmbWorkers, j \in EmbJobs : HoldsClaim(v, j) /\ HoldsClaim(w, j) => v = w

(* What a claim of j may still cost.  A job that waits for its lease to run   *)
(* out is paid for.  A worker whose lease ran out over one job of its batch   *)
(* will drop the rest, and the jobs it is about to claim with it: each such   *)
(* worker is one crash or overrun of its own.                                *)
Lost(j) ==
    embJobs[j].status = "CLAIMED" /\ (embJobs[j].expired \/ \A w \in EmbWorkers : ~HoldsClaim(w, j))
Stale(e) == embJobs[e[1]].token # e[2] \/ embJobs[e[1]].expired
Doomed(w) == \E e \in Entries(w) : Stale(e)
Exposed(j) ==
    {w \in EmbWorkers : Doomed(w) /\ (j \in embBook[w].found \/ (HoldsClaim(w, j) /\ ~embJobs[j].expired))}
Spent(j) ==
    IF embJobs[j].status \in {"ABSENT", "PENDING"} THEN 2
    ELSE IF Lost(j) THEN embJobs[j].token + 1 ELSE embJobs[j].token
TroublePays == \A j \in EmbJobs : Spent(j) + Cardinality(Exposed(j)) <= 2 + trouble

EmbKnows ==
    /\ EmbRows /\ OneHolds
    /\ \A j \in EmbJobs : EmbJobKnows(j)
    /\ \A w \in EmbWorkers : EmbWorkerKnows(w)
EmbInv == EmbKnows /\ TroublePays

-----------------------------------------------------------------------------
(* Batches *)

LEMMA AppendMembers ==
    ASSUME NEW S, NEW s \in Seq(S), NEW e \in S
    PROVE  Members(Append(s, e)) = Members(s) \cup {e}
<1>1. ASSUME NEW x \in Members(Append(s, e)) PROVE x \in Members(s) \cup {e}
  <2> PICK i \in DOMAIN Append(s, e) : x = Append(s, e)[i]
    BY DEF Members
  <2>1. CASE i = Len(s) + 1 BY <2>1
  <2>2. CASE i # Len(s) + 1
    <3>1. i \in DOMAIN s /\ Append(s, e)[i] = s[i] BY <2>2
    <3> QED BY <3>1 DEF Members
  <2> QED BY <2>1, <2>2
<1>2. ASSUME NEW i \in DOMAIN s PROVE s[i] \in Members(Append(s, e))
  <2>1. i \in DOMAIN Append(s, e) /\ Append(s, e)[i] = s[i] OBVIOUS
  <2> QED BY <2>1 DEF Members
<1>3. e \in Members(Append(s, e))
  <2>1. Len(s) + 1 \in DOMAIN Append(s, e) /\ Append(s, e)[Len(s) + 1] = e OBVIOUS
  <2> QED BY <2>1 DEF Members
<1> QED BY <1>1, <1>2, <1>3 DEF Members

LEMMA TailMembers ==
    ASSUME NEW S, NEW s \in Seq(S), s # <<>>, OneEach(s)
    PROVE  /\ Head(s) \in Members(s) /\ Members(Tail(s)) \subseteq Members(s)
           /\ Members(s) = Members(Tail(s)) \cup {Head(s)}
           /\ \A e \in Members(Tail(s)) : e[1] # Head(s)[1]
           /\ OneEach(Tail(s))
<1>1. 1 \in DOMAIN s /\ s[1] = Head(s) OBVIOUS
<1>2. ASSUME NEW i \in DOMAIN Tail(s)
      PROVE  i + 1 \in DOMAIN s /\ Tail(s)[i] = s[i + 1] /\ i # 0 /\ i \in Int
  OBVIOUS
<1>3. ASSUME NEW i \in DOMAIN s, i # 1
      PROVE  i - 1 \in DOMAIN Tail(s) /\ Tail(s)[i - 1] = s[i]
  BY <1>3
<1>4. \A e \in Members(Tail(s)) : e \in Members(s) /\ e[1] # Head(s)[1]
  <2> TAKE e \in Members(Tail(s))
  <2> PICK i \in DOMAIN Tail(s) : e = Tail(s)[i] BY DEF Members
  <2>1. e = s[i + 1] /\ i + 1 \in DOMAIN s /\ i + 1 # 1 BY <1>2
  <2> QED BY <2>1, <1>1 DEF Members, OneEach
<1>5. \A e \in Members(s) : e = Head(s) \/ e \in Members(Tail(s))
  <2> TAKE e \in Members(s)
  <2> PICK i \in DOMAIN s : e = s[i] BY DEF Members
  <2>1. CASE i = 1 BY <2>1, <1>1
  <2>2. CASE i # 1 BY <2>2, <1>3 DEF Members
  <2> QED BY <2>1, <2>2
<1>6. OneEach(Tail(s))
  <2> SUFFICES ASSUME NEW i \in DOMAIN Tail(s), NEW k \in DOMAIN Tail(s), Tail(s)[i][1] = Tail(s)[k][1]
               PROVE  i = k
    BY DEF OneEach
  <2>1. i + 1 = k + 1 BY <1>2 DEF OneEach
  <2> QED BY <2>1, <1>2
<1>7. Head(s) \in Members(s) BY <1>1 DEF Members
<1> QED BY <1>4, <1>5, <1>6, <1>7

LEMMA AppendOnce ==
    ASSUME NEW S, NEW s \in Seq(S), NEW e \in S, OneEach(s), \A x \in Members(s) : x[1] # e[1]
    PROVE  OneEach(Append(s, e))
<1> SUFFICES ASSUME NEW i \in DOMAIN Append(s, e), NEW k \in DOMAIN Append(s, e),
                    Append(s, e)[i][1] = Append(s, e)[k][1]
             PROVE  i = k
  BY DEF OneEach
<1>1. \A m \in DOMAIN Append(s, e) :
        \/ m \in DOMAIN s /\ Append(s, e)[m] = s[m] /\ s[m] \in Members(s)
        \/ m = Len(s) + 1 /\ Append(s, e)[m] = e
  BY DEF Members
<1> QED BY <1>1 DEF OneEach

LEMMA NothingIn == Members(<<>>) = {} /\ OneEach(<<>>)
  BY DEF Members, OneEach

(* A worker holds a claim when its batch names the job under its token.      *)
LEMMA HoldsEntry ==
    ASSUME NEW w \in EmbWorkers, NEW j \in EmbJobs
    PROVE  HoldsClaim(w, j) <=> <<j, embJobs[j].token>> \in Entries(w)
  BY DEF HoldsClaim, Entries, Members

LEMMA HoldsEntryLater ==
    ASSUME NEW w \in EmbWorkers, NEW j \in EmbJobs
    PROVE  HoldsClaim(w, j)' <=> <<j, embJobs'[j].token>> \in Entries(w)'
  BY DEF HoldsClaim, Entries, Members

LEMMA ExposedCount ==
    ASSUME NEW j \in EmbJobs
    PROVE  IsFiniteSet(Exposed(j)) /\ Exposed(j) \subseteq EmbWorkers /\ Cardinality(Exposed(j)) \in Nat
  BY EmbeddingJobsAssumption, FS_Subset, FS_CardinalityType DEF Exposed

LEMMA ExposedLater ==
    ASSUME NEW j \in EmbJobs
    PROVE  IsFiniteSet(Exposed(j)') /\ Cardinality(Exposed(j)') \in Nat
<1>1. Exposed(j)' \subseteq EmbWorkers BY DEF Exposed
<1> QED BY <1>1, EmbeddingJobsAssumption, FS_Subset, FS_CardinalityType

LEMMA FewerExposed ==
    ASSUME NEW j \in EmbJobs, Exposed(j)' \subseteq Exposed(j)
    PROVE  Cardinality(Exposed(j)') <= Cardinality(Exposed(j))
  BY ExposedCount, FS_Subset

LEMMA OneMoreExposed ==
    ASSUME NEW j \in EmbJobs, NEW w, Exposed(j)' \subseteq Exposed(j) \cup {w}
    PROVE  Cardinality(Exposed(j)') <= Cardinality(Exposed(j)) + 1
<1>1. /\ IsFiniteSet(Exposed(j) \cup {w})
      /\ Cardinality(Exposed(j) \cup {w}) <= Cardinality(Exposed(j)) + 1
      /\ Cardinality(Exposed(j) \cup {w}) \in Nat
  BY ExposedCount, OneMoreElement
<1>2. Cardinality(Exposed(j)') <= Cardinality(Exposed(j) \cup {w})
  BY <1>1, FS_Subset
<1> QED BY <1>1, <1>2, ExposedCount, ExposedLater

LEMMA OneLessExposed ==
    ASSUME NEW j \in EmbJobs, NEW w \in Exposed(j), Exposed(j)' \subseteq Exposed(j) \ {w}
    PROVE  Cardinality(Exposed(j)') + 1 <= Cardinality(Exposed(j))
<1>1. /\ IsFiniteSet(Exposed(j) \ {w})
      /\ Cardinality(Exposed(j) \ {w}) = Cardinality(Exposed(j)) - 1
      /\ Cardinality(Exposed(j) \ {w}) \in Nat
  BY ExposedCount, FS_RemoveElement, FS_CardinalityType
<1>2. Cardinality(Exposed(j)') <= Cardinality(Exposed(j) \ {w})
  BY <1>1, FS_Subset
<1> QED BY <1>1, <1>2, ExposedCount, ExposedLater

(* A worker that leaves its batch and the jobs as they are.                  *)
LEMMA BookStep ==
    ASSUME EmbInv, NEW w \in EmbWorkers,
           embBook' \in [EmbWorkers -> BookRow], \A v \in EmbWorkers \ {w} : embBook'[v] = embBook[v],
           UNCHANGED <<embJobs, content, trouble>>, vector' \in 0..MaxContent,
           embedded \subseteq embedded',
           embedded' = embedded \/ (embBook[w].batch # <<>> /\ embedded' = embedded \cup {Current(w)}),
           embBook'[w].batch = embBook[w].batch,
           embBook'[w].found \subseteq embBook[w].found \/ embBook[w].batch = <<>>,
           embBook'[w].pc = "asleep" => embBook[w].batch = <<>>,
           embBook'[w].pc \in {"embedding", "writing", "done", "failed"} => embBook[w].batch # <<>>,
           embBook'[w].pc = "done" => Current(w) \in embedded'
    PROVE  EmbInv'
<1> USE DEF EmbInv, EmbKnows
<1>0. embBook[w].batch \in Seq(EmbJobs \X Nat) BY DEF EmbRows, BookRow
<1>1. \A v \in EmbWorkers : Entries(v)' = Entries(v) /\ embBook'[v].batch = embBook[v].batch
  BY DEF Entries
<1>2. \A v \in EmbWorkers, j \in EmbJobs : HoldsClaim(v, j)' <=> HoldsClaim(v, j)
  BY <1>1 DEF HoldsClaim
<1>3. ASSUME embBook[w].batch # <<>>
      PROVE  Current(w) \in Entries(w) /\ Current(w)[1] \in EmbJobs /\ Current(w)[2] \in Nat
             /\ Current(w) = <<Current(w)[1], Current(w)[2]>>
  <2>1. Current(w) \in EmbJobs \X Nat BY <1>0, <1>3 DEF Current
  <2>2. OneEach(embBook[w].batch) BY DEF EmbWorkerKnows
  <2>3. Current(w) \in Entries(w) BY <1>0, <1>3, <2>2, TailMembers DEF Current, Entries
  <2> QED BY <2>1, <2>3
<1>4. EmbRows'
  BY <1>3 DEF EmbRows
<1>5. OneHolds'
  BY <1>2 DEF OneHolds
<1>6. ASSUME NEW j \in EmbJobs PROVE EmbJobKnows(j)'
  <2>1. EmbJobKnows(j) OBVIOUS
  <2>2. embBook[w].batch # <<>> => Current(w)[2] > 1 /\ Current(w)[2] <= embJobs[Current(w)[1]].token
    BY <1>3 DEF EmbWorkerKnows
  <2> QED BY <1>3, <2>1, <2>2 DEF EmbJobKnows
<1>7. ASSUME NEW v \in EmbWorkers PROVE EmbWorkerKnows(v)'
  <2>1. EmbWorkerKnows(v) OBVIOUS
  <2>2. CASE v # w
    BY <1>1, <2>1, <2>2 DEF EmbWorkerKnows, Current
  <2>3. CASE v = w
    <3>1. \A e \in Entries(v)' :
            /\ e[1] \notin embBook'[v].found /\ e[2] > 1 /\ e[2] <= embJobs'[e[1]].token
            /\ e[2] = embJobs'[e[1]].token => embJobs'[e[1]].status = "CLAIMED"
      <4>1. CASE embBook[w].batch = <<>> BY <1>1, <2>3, <4>1, NothingIn DEF Entries
      <4>2. CASE embBook'[w].found \subseteq embBook[w].found
        BY <1>1, <2>1, <2>3, <4>2 DEF EmbWorkerKnows
      <4> QED BY <4>1, <4>2
    <3> QED BY <1>1, <2>1, <2>3, <3>1 DEF EmbWorkerKnows, Current
  <2> QED BY <2>2, <2>3
<1>8. TroublePays'
  <2> SUFFICES ASSUME NEW j \in EmbJobs PROVE (Spent(j) + Cardinality(Exposed(j)) <= 2 + trouble)'
    BY DEF TroublePays
  <2>1. Spent(j)' = Spent(j) BY <1>2 DEF Spent, Lost
  <2>2. \A v \in EmbWorkers : Doomed(v)' <=> Doomed(v)
    BY <1>1 DEF Doomed, Stale
  <2>3. embBook[w].batch = <<>> => ~Doomed(w)
    BY NothingIn DEF Doomed, Entries
  <2>4. Exposed(j)' \subseteq Exposed(j)
    BY <1>2, <2>2, <2>3 DEF Exposed
  <2>5. Spent(j) + Cardinality(Exposed(j)) <= 2 + trouble /\ Spent(j) \in Nat /\ trouble \in Nat
    BY EmbeddingJobsAssumption DEF TroublePays, Spent, EmbRows, EmbJobRow
  <2>6. Cardinality(Exposed(j)') <= Cardinality(Exposed(j)) BY <2>4, FewerExposed
  <2>7. Cardinality(Exposed(j)) \in Nat /\ Cardinality(Exposed(j)') \in Nat BY ExposedCount, ExposedLater
  <2>8. Spent(j) + Cardinality(Exposed(j)') <= 2 + trouble BY <2>5, <2>6, <2>7
  <2> QED BY <2>1, <2>8
<1> QED BY <1>4, <1>5, <1>6, <1>7, <1>8

-----------------------------------------------------------------------------

LEMMA BookParts ==
    ASSUME EmbInv, NEW w \in EmbWorkers
    PROVE  /\ embBook[w] \in BookRow /\ embBook[w].batch \in Seq(EmbJobs \X Nat)
           /\ \A e \in Entries(w) : e[1] \in EmbJobs /\ e[2] \in Nat /\ e = <<e[1], e[2]>>
           /\ OneEach(embBook[w].batch)
<1>1. embBook[w] \in BookRow BY DEF EmbInv, EmbKnows, EmbRows
<1>2. embBook[w].batch \in Seq(EmbJobs \X Nat) BY <1>1 DEF BookRow
<1>3. \A e \in Entries(w) : e \in EmbJobs \X Nat BY <1>2 DEF Entries, Members
<1>4. OneEach(embBook[w].batch) BY DEF EmbInv, EmbKnows, EmbWorkerKnows
<1> QED BY <1>1, <1>2, <1>3, <1>4

(* A change of some fields of a worker's record.                             *)
LEMMA BookWrite ==
    ASSUME EmbInv, NEW w \in EmbWorkers, NEW row \in BookRow, embBook' = [embBook EXCEPT ![w] = row]
    PROVE  /\ embBook' \in [EmbWorkers -> BookRow] /\ embBook'[w] = row
           /\ \A v \in EmbWorkers \ {w} : embBook'[v] = embBook[v]
  BY DEF EmbInv, EmbKnows, EmbRows

LEMMA AsleepRow == Asleep \in BookRow /\ Asleep.pc = "asleep" /\ Asleep.batch = <<>> /\ Asleep.found = {}
  BY EmbeddingJobsAssumption DEF Asleep, BookRow

LEMMA SelectKeeps ==
    ASSUME EmbInv, NEW w \in EmbWorkers, SelectJobs(w)
    PROVE  EmbInv'
<1> DEFINE row == [embBook[w] EXCEPT !.pc = "claiming", !.found = {j \in EmbJobs : JobClaimable(j)}]
<1>1. row \in BookRow /\ row.pc = "claiming" /\ row.batch = embBook[w].batch
  BY BookParts DEF BookRow
<1>2. embBook' = [embBook EXCEPT ![w] = row]
  BY DEF SelectJobs
<1>3. embBook[w].batch = <<>>
  BY DEF SelectJobs, EmbInv, EmbKnows, EmbWorkerKnows
<1>4. UNCHANGED <<embJobs, content, vector, embedded, trouble>> /\ vector \in 0..MaxContent
  BY DEF SelectJobs, EmbInv, EmbKnows, EmbRows
<1> HIDE DEF row
<1> QED BY <1>1, <1>2, <1>3, <1>4, BookWrite, BookStep

LEMMA EndClaimsKeeps ==
    ASSUME EmbInv, NEW w \in EmbWorkers, EndClaims(w)
    PROVE  EmbInv'
<1> DEFINE row == [embBook[w] EXCEPT !.pc = "next"]
<1>1. row \in BookRow /\ row.pc = "next" /\ row.batch = embBook[w].batch /\ row.found = embBook[w].found
  BY BookParts DEF BookRow
<1>2. embBook' = [embBook EXCEPT ![w] = row]
  BY DEF EndClaims
<1>4. UNCHANGED <<embJobs, content, vector, embedded, trouble>> /\ vector \in 0..MaxContent
  BY DEF EndClaims, EmbInv, EmbKnows, EmbRows
<1> HIDE DEF row
<1> QED BY <1>1, <1>2, <1>4, BookWrite, BookStep

LEMMA RunKeeps ==
    ASSUME EmbInv, NEW w \in EmbWorkers, RunJob(w)
    PROVE  EmbInv'
<1>0. UNCHANGED <<embJobs, content, vector, trouble>> /\ vector \in 0..MaxContent /\ content \in 0..MaxContent
      /\ embBook[w].batch # <<>>
  BY DEF RunJob, EmbInv, EmbKnows, EmbRows
<1>1. PICK pc \in {"failed", "done", "embedding"}, seen \in 0..MaxContent :
        /\ embBook' = [embBook EXCEPT ![w] = [embBook[w] EXCEPT !.pc = pc, !.seen = seen]]
        /\ embedded' = IF pc = "done" THEN embedded \cup {Current(w)} ELSE embedded
  <2>1. embBook[w] = [embBook[w] EXCEPT !.seen = embBook[w].seen] /\ embBook[w].seen \in 0..MaxContent
    BY BookParts DEF BookRow
  <2>2. CASE embBook' = [embBook EXCEPT ![w].pc = "failed"] /\ UNCHANGED embedded
    <3>1. embBook' = [embBook EXCEPT ![w] = [embBook[w] EXCEPT !.pc = "failed", !.seen = embBook[w].seen]]
      BY <2>1, <2>2
    <3> QED BY <2>1, <2>2, <3>1
  <2>3. CASE embBook' = [embBook EXCEPT ![w].pc = "done"] /\ embedded' = embedded \cup {Current(w)}
    <3>1. embBook' = [embBook EXCEPT ![w] = [embBook[w] EXCEPT !.pc = "done", !.seen = embBook[w].seen]]
      BY <2>1, <2>3
    <3> QED BY <2>1, <2>3, <3>1
  <2>4. CASE embBook' = [embBook EXCEPT ![w].pc = "embedding", ![w].seen = content] /\ UNCHANGED embedded
    BY <1>0, <2>4
  <2> QED BY <2>2, <2>3, <2>4 DEF RunJob
<1> DEFINE row == [embBook[w] EXCEPT !.pc = pc, !.seen = seen]
<1>2. row \in BookRow /\ row.pc = pc /\ row.batch = embBook[w].batch /\ row.found = embBook[w].found
  BY BookParts DEF BookRow
<1>3. embBook' = [embBook EXCEPT ![w] = row] BY <1>1
<1> HIDE DEF row
<1> QED BY <1>0, <1>1, <1>2, <1>3, BookWrite, BookStep

LEMMA EmbedKeeps ==
    ASSUME EmbInv, NEW w \in EmbWorkers, Embed(w)
    PROVE  EmbInv'
<1>0. UNCHANGED <<embJobs, content, vector, embedded, trouble>> /\ vector \in 0..MaxContent
      /\ embBook[w].batch # <<>>
  BY DEF Embed, EmbInv, EmbKnows, EmbRows, EmbWorkerKnows
<1>1. PICK pc \in {"failed", "writing"}, counted \in BOOLEAN :
        embBook' = [embBook EXCEPT ![w] = [embBook[w] EXCEPT !.pc = pc, !.counted = counted]]
  <2>1. embBook[w] = [embBook[w] EXCEPT !.counted = embBook[w].counted] /\ embBook[w].counted \in BOOLEAN
    BY BookParts DEF BookRow
  <2>2. CASE embBook' = [embBook EXCEPT ![w].pc = "failed"]
    <3>1. embBook' = [embBook EXCEPT ![w] = [embBook[w] EXCEPT !.pc = "failed", !.counted = embBook[w].counted]]
      BY <2>1, <2>2
    <3> QED BY <2>1, <3>1
  <2>3. CASE embBook' = [embBook EXCEPT ![w].pc = "writing", ![w].counted = vector # 0]
    BY <2>3
  <2> QED BY <2>2, <2>3 DEF Embed
<1> DEFINE row == [embBook[w] EXCEPT !.pc = pc, !.counted = counted]
<1>2. row \in BookRow /\ row.pc = pc /\ row.batch = embBook[w].batch /\ row.found = embBook[w].found
  BY BookParts DEF BookRow
<1>3. embBook' = [embBook EXCEPT ![w] = row] BY <1>1
<1> HIDE DEF row
<1> QED BY <1>0, <1>1, <1>2, <1>3, BookWrite, BookStep

LEMMA EmbWriteKeeps ==
    ASSUME EmbInv, NEW w \in EmbWorkers, WriteVector(w)
    PROVE  EmbInv'
<1>0. /\ UNCHANGED <<embJobs, content, trouble>> /\ embBook[w].batch # <<>>
      /\ vector' \in 0..MaxContent
      /\ \/ embedded' = embedded \cup {Current(w)} /\ embBook' = [embBook EXCEPT ![w].pc = "done"]
         \/ embedded' = embedded /\ embBook' = [embBook EXCEPT ![w].pc = "failed"]
  BY BookParts DEF WriteVector, EmbInv, EmbKnows, EmbRows, EmbWorkerKnows, BookRow
<1>1. PICK pc \in {"failed", "done"} :
        /\ embBook' = [embBook EXCEPT ![w] = [embBook[w] EXCEPT !.pc = pc]]
        /\ embedded' = IF pc = "done" THEN embedded \cup {Current(w)} ELSE embedded
  BY <1>0
<1> DEFINE row == [embBook[w] EXCEPT !.pc = pc]
<1>2. row \in BookRow /\ row.pc = pc /\ row.batch = embBook[w].batch /\ row.found = embBook[w].found
  BY BookParts DEF BookRow
<1>3. embBook' = [embBook EXCEPT ![w] = row] BY <1>1
<1> HIDE DEF row
<1> QED BY <1>0, <1>1, <1>2, <1>3, BookWrite, BookStep

LEMMA EndBatchKeeps ==
    ASSUME EmbInv, NEW w \in EmbWorkers, EndBatch(w)
    PROVE  EmbInv'
<1>1. embBook' = [embBook EXCEPT ![w] = Asleep] /\ embBook[w].batch = <<>>
      /\ UNCHANGED <<embJobs, content, vector, embedded, trouble>> /\ vector \in 0..MaxContent
  BY DEF EndBatch, EmbInv, EmbKnows, EmbRows
<1> QED BY <1>1, AsleepRow, BookWrite, BookStep

-----------------------------------------------------------------------------

(* A job that is enqueued, or whose lease runs out: its token stays.         *)
LEMMA JobStep ==
    ASSUME EmbInv, NEW j \in EmbJobs, NEW row \in EmbJobRow, embJobs' = [embJobs EXCEPT ![j] = row],
           row.token = embJobs[j].token,
           \/ embJobs[j].status = "ABSENT" /\ row.status = "PENDING"
           \/ embJobs[j].status = "CLAIMED" /\ row.status = "CLAIMED",
           UNCHANGED <<content, vector, embBook, embedded>>, trouble' \in 0..MaxTrouble
    PROVE  /\ EmbKnows' /\ embJobs'[j] = row /\ \A k \in EmbJobs \ {j} : embJobs'[k] = embJobs[k]
           /\ \A k \in EmbJobs : embJobs'[k].token = embJobs[k].token
           /\ \A w \in EmbWorkers : Entries(w)' = Entries(w)
           /\ \A w \in EmbWorkers, k \in EmbJobs : HoldsClaim(w, k)' <=> HoldsClaim(w, k)
<1> USE DEF EmbInv, EmbKnows
<1>1. /\ embJobs' \in [EmbJobs -> EmbJobRow] /\ embJobs'[j] = row
      /\ \A k \in EmbJobs \ {j} : embJobs'[k] = embJobs[k]
      /\ \A k \in EmbJobs : embJobs'[k].token = embJobs[k].token
  BY DEF EmbRows
<1>2. \A w \in EmbWorkers : Entries(w)' = Entries(w)
  BY DEF Entries
<1>3. \A w \in EmbWorkers, k \in EmbJobs : HoldsClaim(w, k)' <=> HoldsClaim(w, k)
  BY <1>1 DEF HoldsClaim
<1>4. EmbRows' BY <1>1 DEF EmbRows
<1>5. OneHolds' BY <1>3 DEF OneHolds
<1>6. ASSUME NEW k \in EmbJobs PROVE EmbJobKnows(k)'
  <2>1. EmbJobKnows(k) /\ EmbJobKnows(j) OBVIOUS
  <2>2. CASE k = j BY <1>1, <2>1, <2>2 DEF EmbJobKnows
  <2>3. CASE k # j BY <1>1, <2>1, <2>3 DEF EmbJobKnows
  <2> QED BY <2>2, <2>3
<1>7. ASSUME NEW w \in EmbWorkers PROVE EmbWorkerKnows(w)'
  <2>1. EmbWorkerKnows(w) OBVIOUS
  <2>2. \A e \in Entries(w) : e[2] = embJobs'[e[1]].token => embJobs'[e[1]].status = "CLAIMED"
    BY <1>1, <2>1, BookParts DEF EmbWorkerKnows
  <2>3. \A e \in Entries(w) : e[2] <= embJobs'[e[1]].token
    BY <1>1, <2>1, BookParts DEF EmbWorkerKnows
  <2> QED BY <1>2, <2>1, <2>2, <2>3 DEF EmbWorkerKnows, Current
<1> QED BY <1>1, <1>2, <1>3, <1>4, <1>5, <1>6, <1>7

LEMMA PaidBefore ==
    ASSUME EmbInv, NEW k \in EmbJobs
    PROVE  /\ Spent(k) \in Nat /\ trouble \in Nat /\ Cardinality(Exposed(k)) \in Nat
           /\ Spent(k) + Cardinality(Exposed(k)) <= 2 + trouble
  BY EmbeddingJobsAssumption, ExposedCount DEF EmbInv, EmbKnows, EmbRows, TroublePays, Spent, EmbJobRow

LEMMA EnqueueKeeps ==
    ASSUME EmbInv, NEW j \in EmbJobs, EnqueueEmbedding(j)
    PROVE  EmbInv'
<1> DEFINE row == [embJobs[j] EXCEPT !.status = "PENDING"]
<1>1. /\ row \in EmbJobRow /\ row.token = embJobs[j].token /\ row.status = "PENDING" /\ row.expired = embJobs[j].expired
      /\ embJobs[j].status = "ABSENT" /\ embJobs' = [embJobs EXCEPT ![j] = row]
      /\ UNCHANGED <<content, vector, embBook, embedded, trouble>> /\ trouble \in 0..MaxTrouble
  BY DEF EnqueueEmbedding, EmbInv, EmbKnows, EmbRows, EmbJobRow, EmbStatus
<1> HIDE DEF row
<1>2. /\ EmbKnows' /\ embJobs'[j] = row /\ \A k \in EmbJobs \ {j} : embJobs'[k] = embJobs[k]
      /\ \A k \in EmbJobs : embJobs'[k].token = embJobs[k].token
      /\ \A w \in EmbWorkers : Entries(w)' = Entries(w)
      /\ \A w \in EmbWorkers, k \in EmbJobs : HoldsClaim(w, k)' <=> HoldsClaim(w, k)
  BY <1>1, JobStep
<1>3. \A k \in EmbJobs : embJobs'[k].expired = embJobs[k].expired
  BY <1>1, <1>2
<1>4. \A w \in EmbWorkers : Doomed(w)' <=> Doomed(w)
  BY <1>2, <1>3, BookParts DEF Doomed, Stale
<1>5. ASSUME NEW k \in EmbJobs PROVE (Spent(k) + Cardinality(Exposed(k)) <= 2 + trouble)'
  <2>1. Exposed(k)' \subseteq Exposed(k)
    BY <1>1, <1>2, <1>3, <1>4 DEF Exposed
  <2>2. Spent(k)' = Spent(k)
    BY <1>1, <1>2, <1>3 DEF Spent, Lost
  <2>3. Cardinality(Exposed(k)') \in Nat /\ Cardinality(Exposed(k)') <= Cardinality(Exposed(k))
    BY <2>1, FewerExposed, ExposedLater
  <2>4. Spent(k) + Cardinality(Exposed(k)') <= 2 + trouble
    BY <2>3, PaidBefore
  <2> QED BY <1>1, <2>2, <2>4
<1> QED BY <1>2, <1>5 DEF EmbInv, TroublePays

(* The lease of j runs out.                                                  *)
LEMMA ExpiresWrites ==
    ASSUME EmbInv, NEW j \in EmbJobs, Expires(j), trouble' \in 0..MaxTrouble
    PROVE  /\ EmbKnows' /\ embJobs'[j].expired /\ embJobs'[j].status = "CLAIMED" /\ embJobs[j].status = "CLAIMED"
           /\ \A k \in EmbJobs \ {j} : embJobs'[k] = embJobs[k]
           /\ \A k \in EmbJobs : embJobs'[k].token = embJobs[k].token
           /\ embBook' = embBook
           /\ \A w \in EmbWorkers : Entries(w)' = Entries(w)
           /\ \A w \in EmbWorkers, k \in EmbJobs : HoldsClaim(w, k)' <=> HoldsClaim(w, k)
<1> DEFINE row == [embJobs[j] EXCEPT !.expired = TRUE]
<1>1. /\ row \in EmbJobRow /\ row.token = embJobs[j].token /\ row.status = "CLAIMED" /\ row.expired
      /\ embJobs[j].status = "CLAIMED" /\ embJobs' = [embJobs EXCEPT ![j] = row]
      /\ UNCHANGED <<content, vector, embBook, embedded>>
  BY DEF Expires, EmbInv, EmbKnows, EmbRows, EmbJobRow
<1> HIDE DEF row
<1> QED BY <1>1, JobStep

LEMMA OrphanKeeps ==
    ASSUME EmbInv, NEW j \in EmbJobs, OrphanExpires(j)
    PROVE  EmbInv'
<1>0. trouble' = trouble /\ trouble \in 0..MaxTrouble /\ Expires(j) /\ \A w \in EmbWorkers : ~HoldsClaim(w, j)
  BY DEF OrphanExpires, EmbInv, EmbKnows, EmbRows
<1>1. /\ EmbKnows' /\ embJobs'[j].expired /\ embJobs'[j].status = "CLAIMED" /\ embJobs[j].status = "CLAIMED"
      /\ \A k \in EmbJobs \ {j} : embJobs'[k] = embJobs[k]
      /\ \A k \in EmbJobs : embJobs'[k].token = embJobs[k].token
      /\ embBook' = embBook
      /\ \A w \in EmbWorkers : Entries(w)' = Entries(w)
      /\ \A w \in EmbWorkers, k \in EmbJobs : HoldsClaim(w, k)' <=> HoldsClaim(w, k)
  BY <1>0, ExpiresWrites
<1>2. ASSUME NEW w \in EmbWorkers PROVE Doomed(w)' <=> Doomed(w)
  <2>1. \A e \in Entries(w) : e[1] = j => e[2] # embJobs[j].token
    BY <1>0, BookParts, HoldsEntry
  <2>2. \A e \in Entries(w) : Stale(e)' <=> Stale(e)
    BY <1>1, <2>1, BookParts DEF Stale
  <2> QED BY <1>1, <2>2 DEF Doomed
<1>3. ASSUME NEW k \in EmbJobs PROVE (Spent(k) + Cardinality(Exposed(k)) <= 2 + trouble)'
  <2>1. Exposed(k)' \subseteq Exposed(k)
    BY <1>0, <1>1, <1>2 DEF Exposed
  <2>2. Spent(k)' = Spent(k)
    BY <1>0, <1>1 DEF Spent, Lost
  <2>3. Cardinality(Exposed(k)') \in Nat /\ Cardinality(Exposed(k)') <= Cardinality(Exposed(k))
    BY <2>1, FewerExposed, ExposedLater
  <2>4. Spent(k) + Cardinality(Exposed(k)') <= 2 + trouble
    BY <2>3, PaidBefore
  <2> QED BY <1>0, <2>2, <2>4
<1> QED BY <1>1, <1>3 DEF EmbInv, TroublePays

(* A lease that runs out under its worker dooms that worker's batch alone.   *)
LEMMA OverrunKeeps ==
    ASSUME EmbInv, NEW j \in EmbJobs, Overruns(j)
    PROVE  EmbInv'
<1>0. trouble' = trouble + 1 /\ trouble \in Nat /\ trouble' \in 0..MaxTrouble /\ Expires(j)
      /\ ~embJobs[j].expired
  BY EmbeddingJobsAssumption DEF Overruns, EmbInv, EmbKnows, EmbRows, Expires
<1>1. /\ EmbKnows' /\ embJobs'[j].expired /\ embJobs'[j].status = "CLAIMED" /\ embJobs[j].status = "CLAIMED"
      /\ \A k \in EmbJobs \ {j} : embJobs'[k] = embJobs[k]
      /\ \A k \in EmbJobs : embJobs'[k].token = embJobs[k].token
      /\ embBook' = embBook
      /\ \A w \in EmbWorkers : Entries(w)' = Entries(w)
      /\ \A w \in EmbWorkers, k \in EmbJobs : HoldsClaim(w, k)' <=> HoldsClaim(w, k)
  BY <1>0, ExpiresWrites
<1> PICK h \in EmbWorkers : HoldsClaim(h, j)
  BY DEF Overruns
<1>2. ASSUME NEW w \in EmbWorkers, w # h PROVE Doomed(w)' <=> Doomed(w)
  <2>1. \A e \in Entries(w) : e[1] = j => e[2] # embJobs[j].token
    BY <1>2, BookParts, HoldsEntry DEF EmbInv, EmbKnows, OneHolds
  <2>2. \A e \in Entries(w) : Stale(e)' <=> Stale(e)
    BY <1>1, <2>1, BookParts DEF Stale
  <2> QED BY <1>1, <2>2 DEF Doomed
<1>3. j \notin embBook[h].found
  <2>1. <<j, embJobs[j].token>> \in Entries(h) BY HoldsEntry
  <2>2. <<j, embJobs[j].token>>[1] \notin embBook[h].found BY <2>1 DEF EmbInv, EmbKnows, EmbWorkerKnows
  <2> QED BY <2>2
<1>4. ASSUME NEW k \in EmbJobs PROVE (Spent(k) + Cardinality(Exposed(k)) <= 2 + trouble)'
  <2>1. CASE k = j
    <3>1. Exposed(k)' \subseteq Exposed(k)
      BY <1>1, <1>2, <1>3, <2>1 DEF Exposed
    <3>2. Spent(k)' <= Spent(k) + 1 /\ Spent(k)' \in Nat
      BY <1>1, <2>1 DEF Spent, Lost, EmbKnows, EmbRows, EmbJobRow
    <3>3. Cardinality(Exposed(k)') \in Nat /\ Cardinality(Exposed(k)') <= Cardinality(Exposed(k))
      BY <3>1, FewerExposed, ExposedLater
    <3>4. Spent(k)' + Cardinality(Exposed(k)') <= 2 + trouble + 1
      BY <3>2, <3>3, PaidBefore
    <3> QED BY <1>0, <3>4
  <2>2. CASE k # j
    <3>1. Exposed(k)' \subseteq Exposed(k) \cup {h}
      BY <1>1, <1>2, <2>2 DEF Exposed
    <3>2. Spent(k)' = Spent(k)
      BY <1>1, <2>2 DEF Spent, Lost
    <3>3. Cardinality(Exposed(k)') \in Nat /\ Cardinality(Exposed(k)') <= Cardinality(Exposed(k)) + 1
      BY <3>1, OneMoreExposed, ExposedLater
    <3>4. Spent(k) + Cardinality(Exposed(k)') <= 2 + trouble + 1
      BY <3>3, PaidBefore
    <3> QED BY <1>0, <3>2, <3>4
  <2> QED BY <2>1, <2>2
<1> QED BY <1>1, <1>4 DEF EmbInv, TroublePays

(* A worker drops its batch, the jobs stay as they are.                      *)
LEMMA DropStep ==
    ASSUME EmbInv, NEW w \in EmbWorkers, embBook' = [embBook EXCEPT ![w] = Asleep],
           UNCHANGED <<embJobs, content, vector, embedded>>, trouble' \in 0..MaxTrouble
    PROVE  /\ EmbKnows' /\ Entries(w)' = {} /\ embBook'[w].found = {}
           /\ \A v \in EmbWorkers \ {w} : embBook'[v] = embBook[v] /\ Entries(v)' = Entries(v)
           /\ \A v \in EmbWorkers, k \in EmbJobs : HoldsClaim(v, k)' <=> v # w /\ HoldsClaim(v, k)
           /\ \A v \in EmbWorkers : Doomed(v)' <=> v # w /\ Doomed(v)
<1> USE DEF EmbInv, EmbKnows
<1>1. /\ embBook' \in [EmbWorkers -> BookRow] /\ embBook'[w] = Asleep
      /\ \A v \in EmbWorkers \ {w} : embBook'[v] = embBook[v]
  BY AsleepRow, BookWrite
<1>2. Entries(w)' = {} /\ \A v \in EmbWorkers \ {w} : Entries(v)' = Entries(v)
  BY <1>1, AsleepRow, NothingIn DEF Entries
<1>3. ASSUME NEW v \in EmbWorkers, NEW k \in EmbJobs
      PROVE  HoldsClaim(v, k)' <=> v # w /\ HoldsClaim(v, k)
  <2>1. CASE v # w BY <1>1, <2>1 DEF HoldsClaim
  <2>2. CASE v = w
    <3>1. embBook'[v].batch = <<>> BY <1>1, <2>2, AsleepRow
    <3> QED BY <2>2, <3>1 DEF HoldsClaim
  <2> QED BY <2>1, <2>2
<1>4. \A v \in EmbWorkers : Doomed(v)' <=> v # w /\ Doomed(v)
  BY <1>2, BookParts DEF Doomed, Stale
<1>5. EmbRows' BY <1>1 DEF EmbRows
<1>6. OneHolds' BY <1>3 DEF OneHolds
<1>7. \A k \in EmbJobs : EmbJobKnows(k)' BY DEF EmbJobKnows
<1>8. ASSUME NEW v \in EmbWorkers PROVE EmbWorkerKnows(v)'
  <2>1. EmbWorkerKnows(v) OBVIOUS
  <2>2. CASE v # w BY <1>1, <1>2, <2>1, <2>2 DEF EmbWorkerKnows, Current
  <2>3. CASE v = w BY <1>1, <1>2, <2>3, AsleepRow, NothingIn DEF EmbWorkerKnows
  <2> QED BY <2>2, <2>3
<1>9. embBook'[w].found = {} BY <1>1, AsleepRow
<1> QED BY <1>1, <1>2, <1>3, <1>4, <1>5, <1>6, <1>7, <1>8, <1>9

LEMMA DieKeeps ==
    ASSUME EmbInv, NEW w \in EmbWorkers, EmbWorkerDies(w)
    PROVE  EmbInv'
<1>0. /\ embBook' = [embBook EXCEPT ![w] = Asleep] /\ UNCHANGED <<embJobs, content, vector, embedded>>
      /\ trouble' = trouble + 1 /\ trouble' \in 0..MaxTrouble /\ trouble \in Nat
  BY EmbeddingJobsAssumption DEF EmbWorkerDies, EmbInv, EmbKnows, EmbRows
<1>1. /\ EmbKnows' /\ embBook'[w].found = {}
      /\ \A v \in EmbWorkers \ {w} : embBook'[v] = embBook[v]
      /\ \A v \in EmbWorkers, k \in EmbJobs : HoldsClaim(v, k)' <=> v # w /\ HoldsClaim(v, k)
      /\ \A v \in EmbWorkers : Doomed(v)' <=> v # w /\ Doomed(v)
  BY <1>0, DropStep
<1>2. ASSUME NEW k \in EmbJobs PROVE (Spent(k) + Cardinality(Exposed(k)) <= 2 + trouble)'
  <2>1. Exposed(k)' \subseteq Exposed(k) BY <1>0, <1>1 DEF Exposed
  <2>2. Spent(k)' <= Spent(k) + 1 /\ Spent(k)' \in Nat
    BY <1>0 DEF Spent, Lost, EmbInv, EmbKnows, EmbRows, EmbJobRow
  <2>3. Cardinality(Exposed(k)') \in Nat /\ Cardinality(Exposed(k)') <= Cardinality(Exposed(k))
    BY <2>1, FewerExposed, ExposedLater
  <2>4. Spent(k)' + Cardinality(Exposed(k)') <= 2 + trouble + 1
    BY <2>2, <2>3, PaidBefore
  <2> QED BY <1>0, <2>4
<1> QED BY <1>1, <1>2 DEF EmbInv, TroublePays

(* A job that complete_job refuses was taken over, so the worker was doomed. *)
LEMMA RefusedKeeps ==
    ASSUME EmbInv, NEW w \in EmbWorkers, EndEmbedding(w), ~MayEnd(w)
    PROVE  EmbInv'
<1>0. /\ embBook' = [embBook EXCEPT ![w] = Asleep]
      /\ UNCHANGED <<embJobs, content, vector, embedded, trouble>> /\ trouble \in 0..MaxTrouble
      /\ embBook[w].batch # <<>>
  BY DEF EndEmbedding, EmbInv, EmbKnows, EmbRows, EmbWorkerKnows
<1>1. /\ EmbKnows' /\ embBook'[w].found = {}
      /\ \A v \in EmbWorkers \ {w} : embBook'[v] = embBook[v]
      /\ \A v \in EmbWorkers, k \in EmbJobs : HoldsClaim(v, k)' <=> v # w /\ HoldsClaim(v, k)
      /\ \A v \in EmbWorkers : Doomed(v)' <=> v # w /\ Doomed(v)
  BY <1>0, DropStep
<1>2. Doomed(w)
  <2>1. Current(w) \in Entries(w)
    BY <1>0, BookParts, TailMembers DEF Current, Entries
  <2>2. Current(w)[2] # embJobs[Current(w)[1]].token
    BY <2>1 DEF MayEnd, EmbInv, EmbKnows, EmbWorkerKnows
  <2> QED BY <2>1, <2>2 DEF Doomed, Stale
<1>3. ASSUME NEW k \in EmbJobs PROVE (Spent(k) + Cardinality(Exposed(k)) <= 2 + trouble)'
  <2>0. Exposed(k)' \subseteq Exposed(k) \ {w}
    BY <1>0, <1>1 DEF Exposed
  <2>1. Cardinality(Exposed(k)') \in Nat /\ Cardinality(Exposed(k)') <= Cardinality(Exposed(k))
    <3>1. Exposed(k)' \subseteq Exposed(k) BY <2>0
    <3> QED BY <3>1, FewerExposed, ExposedLater
  <2>2. CASE HoldsClaim(w, k) /\ ~embJobs[k].expired
    <3>1. w \in Exposed(k) BY <1>2, <2>2 DEF Exposed
    <3>2. Cardinality(Exposed(k)') + 1 <= Cardinality(Exposed(k)) BY <2>0, <3>1, OneLessExposed
    <3>3. Spent(k)' <= Spent(k) + 1 /\ Spent(k)' \in Nat
      BY <1>0 DEF Spent, Lost, EmbInv, EmbKnows, EmbRows, EmbJobRow
    <3>4. Spent(k)' + Cardinality(Exposed(k)') <= 2 + trouble
      BY <2>1, <3>2, <3>3, PaidBefore
    <3> QED BY <1>0, <3>4
  <2>3. CASE ~HoldsClaim(w, k) \/ embJobs[k].expired
    <3>1. Spent(k)' = Spent(k)
      BY <1>0, <1>1, <2>3 DEF Spent, Lost
    <3>2. Spent(k) + Cardinality(Exposed(k)') <= 2 + trouble
      BY <2>1, PaidBefore
    <3> QED BY <1>0, <3>1, <3>2
  <2> QED BY <2>2, <2>3
<1> QED BY <1>1, <1>3 DEF EmbInv, TroublePays

(* complete_job accepts: the job ends, the batch moves on.                   *)
LEMMA AcceptedWrites ==
    ASSUME EmbInv, NEW w \in EmbWorkers, EndEmbedding(w), MayEnd(w)
    PROVE  /\ Current(w)[1] \in EmbJobs /\ HoldsClaim(w, Current(w)[1]) /\ embJobs[Current(w)[1]].status = "CLAIMED"
           /\ embJobs'[Current(w)[1]].status = IF embBook[w].pc = "done" THEN "COMPLETED" ELSE "FAILED"
           /\ embJobs' \in [EmbJobs -> EmbJobRow]
           /\ \A k \in EmbJobs : embJobs'[k].token = embJobs[k].token /\ embJobs'[k].expired = embJobs[k].expired
           /\ \A k \in EmbJobs \ {Current(w)[1]} : embJobs'[k] = embJobs[k]
           /\ embBook' \in [EmbWorkers -> BookRow]
           /\ embBook'[w] = [Asleep EXCEPT !.pc = "next", !.batch = Tail(embBook[w].batch)]
           /\ \A v \in EmbWorkers \ {w} : embBook'[v] = embBook[v] /\ Entries(v)' = Entries(v)
           /\ Entries(w) = Entries(w)' \cup {Current(w)} /\ OneEach(embBook'[w].batch)
           /\ \A e \in Entries(w)' : e[1] # Current(w)[1]
           /\ embBook[w].pc = "done" => Current(w) \in embedded
           /\ Current(w) = <<Current(w)[1], embJobs[Current(w)[1]].token>>
<1>0. embBook[w].batch # <<>> /\ (embBook[w].pc = "done" => Current(w) \in embedded)
  BY DEF EndEmbedding, EmbInv, EmbKnows, EmbWorkerKnows
<1>1. /\ Current(w) \in Entries(w) /\ Entries(w) = Members(Tail(embBook[w].batch)) \cup {Current(w)}
      /\ \A e \in Members(Tail(embBook[w].batch)) : e[1] # Current(w)[1]
      /\ OneEach(Tail(embBook[w].batch)) /\ Tail(embBook[w].batch) \in Seq(EmbJobs \X Nat)
  BY <1>0, BookParts, TailMembers DEF Current, Entries
<1> DEFINE j == Current(w)[1]
<1>2. j \in EmbJobs /\ embJobs[j].status = "CLAIMED" /\ Current(w) = <<j, embJobs[j].token>>
  BY <1>1, BookParts DEF MayEnd
<1>3. HoldsClaim(w, j) BY <1>1, <1>2, HoldsEntry
<1> DEFINE next == IF embBook[w].pc = "done" THEN "COMPLETED" ELSE "FAILED"
<1>4. embJobs' = [embJobs EXCEPT ![j].status = next] /\ next \in EmbStatus
  BY DEF EndEmbedding, EmbStatus
<1>5. embBook' = [embBook EXCEPT ![w] = [Asleep EXCEPT !.pc = "next", !.batch = Tail(embBook[w].batch)]]
  BY DEF EndEmbedding
<1> DEFINE row == [Asleep EXCEPT !.pc = "next", !.batch = Tail(embBook[w].batch)]
<1>6. row \in BookRow /\ row.batch = Tail(embBook[w].batch)
  BY <1>1, AsleepRow DEF BookRow
<1>7. /\ embBook' \in [EmbWorkers -> BookRow] /\ embBook'[w] = row
      /\ \A v \in EmbWorkers \ {w} : embBook'[v] = embBook[v]
  <2> HIDE DEF row
  <2>1. embBook' = [embBook EXCEPT ![w] = row] BY <1>5 DEF row
  <2> QED BY <1>6, <2>1, BookWrite
<1>8. Entries(w)' = Members(Tail(embBook[w].batch)) /\ \A v \in EmbWorkers \ {w} : Entries(v)' = Entries(v)
  <2> HIDE DEF row
  <2> QED BY <1>6, <1>7 DEF Entries
<1>9. /\ embJobs' \in [EmbJobs -> EmbJobRow] /\ embJobs'[j].status = next
      /\ \A k \in EmbJobs : embJobs'[k].token = embJobs[k].token /\ embJobs'[k].expired = embJobs[k].expired
      /\ \A k \in EmbJobs \ {j} : embJobs'[k] = embJobs[k]
  <2> HIDE DEF j, next
  <2>1. embJobs \in [EmbJobs -> EmbJobRow] BY DEF EmbInv, EmbKnows, EmbRows
  <2>2. [embJobs[j] EXCEPT !.status = next] \in EmbJobRow BY <1>2, <1>4, <2>1 DEF EmbJobRow
  <2>3. \A k \in EmbJobs \ {j} : embJobs'[k] = embJobs[k] BY <1>4, <2>1
  <2>4. embJobs'[j] = [embJobs[j] EXCEPT !.status = next] BY <1>2, <1>4, <2>1
  <2>5. embJobs' \in [EmbJobs -> EmbJobRow] BY <1>2, <1>4, <2>1, <2>2
  <2>6. /\ embJobs'[j].status = next /\ embJobs'[j].token = embJobs[j].token
        /\ embJobs'[j].expired = embJobs[j].expired
    BY <2>1, <2>4, <1>2 DEF EmbJobRow
  <2> QED BY <2>3, <2>5, <2>6
<1> HIDE DEF next, row
<1>10. embBook'[w] = [Asleep EXCEPT !.pc = "next", !.batch = Tail(embBook[w].batch)] BY <1>7 DEF row
<1>11. OneEach(embBook'[w].batch) BY <1>1, <1>6, <1>7
<1>12. embJobs'[j].status = IF embBook[w].pc = "done" THEN "COMPLETED" ELSE "FAILED" BY <1>9 DEF next
<1> HIDE DEF j
<1>13. j = Current(w)[1] BY DEF j
<1> QED BY <1>0, <1>1, <1>2, <1>3, <1>7, <1>8, <1>9, <1>10, <1>11, <1>12, <1>13

LEMMA AcceptedKeeps ==
    ASSUME EmbInv, NEW w \in EmbWorkers, EndEmbedding(w), MayEnd(w)
    PROVE  EmbInv'
<1> PICK j \in EmbJobs : j = Current(w)[1] BY AcceptedWrites
<1>1. /\ j \in EmbJobs /\ HoldsClaim(w, j) /\ embJobs[j].status = "CLAIMED"
      /\ embJobs'[j].status = IF embBook[w].pc = "done" THEN "COMPLETED" ELSE "FAILED"
      /\ embJobs' \in [EmbJobs -> EmbJobRow]
      /\ \A k \in EmbJobs : embJobs'[k].token = embJobs[k].token /\ embJobs'[k].expired = embJobs[k].expired
      /\ \A k \in EmbJobs \ {j} : embJobs'[k] = embJobs[k]
      /\ embBook[w].pc = "done" => Current(w) \in embedded
      /\ Current(w) = <<j, embJobs[j].token>>
  BY AcceptedWrites
<1>2. /\ embBook' \in [EmbWorkers -> BookRow]
      /\ embBook'[w] = [Asleep EXCEPT !.pc = "next", !.batch = Tail(embBook[w].batch)]
      /\ \A v \in EmbWorkers \ {w} : embBook'[v] = embBook[v] /\ Entries(v)' = Entries(v)
      /\ Entries(w) = Entries(w)' \cup {Current(w)} /\ OneEach(embBook'[w].batch)
      /\ \A e \in Entries(w)' : e[1] # j
  BY AcceptedWrites
<1>3. embBook'[w].pc = "next" /\ embBook'[w].found = {}
  BY <1>2 DEF Asleep
<1>4. UNCHANGED <<content, vector, embedded, trouble>> BY DEF EndEmbedding
<1>5. ASSUME NEW v \in EmbWorkers, NEW k \in EmbJobs, k # j
      PROVE  HoldsClaim(v, k)' <=> HoldsClaim(v, k)
  <2>1. <<k, embJobs[k].token>> # Current(w) BY <1>1, <1>5
  <2>2. HoldsClaim(v, k)' <=> <<k, embJobs'[k].token>> \in Entries(v)'
    BY <1>1, HoldsEntryLater
  <2>3. <<k, embJobs[k].token>> \in Entries(v)' <=> <<k, embJobs[k].token>> \in Entries(v)
    BY <1>2, <2>1
  <2> QED BY <1>1, <2>2, <2>3, HoldsEntry
<1>6. ASSUME NEW v \in EmbWorkers PROVE ~HoldsClaim(v, j)'
  <2>1. HoldsClaim(v, j)' <=> <<j, embJobs'[j].token>> \in Entries(v)'
    BY <1>1, HoldsEntryLater
  <2>2. CASE v = w
    <3>1. <<j, embJobs'[j].token>>[1] = j OBVIOUS
    <3> QED BY <1>2, <2>1, <2>2, <3>1
  <2>3. CASE v # w
    <3>1. ~HoldsClaim(v, j) BY <1>1, <2>3 DEF EmbInv, EmbKnows, OneHolds
    <3> QED BY <1>1, <1>2, <2>1, <2>3, <3>1, HoldsEntry
  <2> QED BY <2>2, <2>3
<1>7. ASSUME NEW v \in EmbWorkers PROVE Doomed(v)' => Doomed(v)
  <2>1. Entries(v)' \subseteq Entries(v) BY <1>2
  <2>2. \A e \in Entries(v)' : Stale(e)' <=> Stale(e) BY <1>1, <2>1, BookParts DEF Stale
  <2> QED BY <2>1, <2>2 DEF Doomed
<1>8. EmbRows' BY <1>1, <1>2, <1>4 DEF EmbInv, EmbKnows, EmbRows
<1>9. OneHolds'
  <2> SUFFICES ASSUME NEW u \in EmbWorkers, NEW v \in EmbWorkers, NEW k \in EmbJobs,
                      HoldsClaim(u, k)', HoldsClaim(v, k)'
               PROVE  u = v
    BY DEF OneHolds
  <2>1. k # j BY <1>6
  <2>2. HoldsClaim(u, k) /\ HoldsClaim(v, k) BY <1>5, <2>1
  <2> QED BY <2>2 DEF EmbInv, EmbKnows, OneHolds
<1>10. ASSUME NEW k \in EmbJobs PROVE EmbJobKnows(k)'
  <2>1. EmbJobKnows(k) BY DEF EmbInv, EmbKnows
  <2>2. CASE k = j BY <1>1, <1>4, <2>1, <2>2 DEF EmbJobKnows
  <2>3. CASE k # j BY <1>1, <1>4, <2>1, <2>3 DEF EmbJobKnows
  <2> QED BY <2>2, <2>3
<1>11. ASSUME NEW v \in EmbWorkers PROVE EmbWorkerKnows(v)'
  <2>1. EmbWorkerKnows(v) BY DEF EmbInv, EmbKnows
  <2>2. CASE v = w
    <3>1. \A e \in Entries(w)' :
            /\ e[1] \notin embBook'[w].found /\ e[2] > 1 /\ e[2] <= embJobs'[e[1]].token
            /\ e[2] = embJobs'[e[1]].token => embJobs'[e[1]].status = "CLAIMED"
      <4> TAKE e \in Entries(w)'
      <4>1. e \in Entries(w) /\ e[1] # j /\ e[1] \in EmbJobs BY <1>2, BookParts
      <4> QED BY <1>1, <1>3, <2>1, <2>2, <4>1 DEF EmbWorkerKnows
    <3> QED BY <1>2, <1>3, <2>2, <3>1 DEF EmbWorkerKnows
  <2>3. CASE v # w
    <3>1. \A e \in Entries(v) : e[1] = j => e[2] # embJobs[j].token
      <4>1. ~HoldsClaim(v, j) BY <1>1, <2>3 DEF EmbInv, EmbKnows, OneHolds
      <4> QED BY <1>1, <4>1, BookParts, HoldsEntry
    <3>2. \A e \in Entries(v) :
            /\ e[1] \notin embBook[v].found /\ e[2] > 1 /\ e[2] <= embJobs'[e[1]].token
            /\ e[2] = embJobs'[e[1]].token => embJobs'[e[1]].status = "CLAIMED"
      BY <1>1, <2>1, <3>1, BookParts DEF EmbWorkerKnows
    <3> QED BY <1>2, <1>4, <2>1, <2>3, <3>2 DEF EmbWorkerKnows, Current
  <2> QED BY <2>2, <2>3
<1>12. ASSUME NEW k \in EmbJobs PROVE (Spent(k) + Cardinality(Exposed(k)) <= 2 + trouble)'
  <2>1. Exposed(k)' \subseteq Exposed(k)
    <3> SUFFICES ASSUME NEW v \in Exposed(k)' PROVE v \in Exposed(k) OBVIOUS
    <3>1. /\ v \in EmbWorkers /\ Doomed(v)
          /\ k \in embBook'[v].found \/ (HoldsClaim(v, k)' /\ ~embJobs[k].expired)
      BY <1>1, <1>7 DEF Exposed
    <3>2. HoldsClaim(v, k)' => HoldsClaim(v, k)
      <4>1. CASE k = j BY <1>6, <3>1, <4>1
      <4>2. CASE k # j BY <1>5, <3>1, <4>2
      <4> QED BY <4>1, <4>2
    <3>3. embBook'[v].found \subseteq embBook[v].found BY <1>2, <1>3, <3>1
    <3> QED BY <3>1, <3>2, <3>3 DEF Exposed
  <2>2. Spent(k)' <= Spent(k) /\ Spent(k)' \in Nat
    <3>1. CASE k = j
      BY <1>1, <3>1 DEF Spent, Lost, EmbJobRow, EmbInv, EmbKnows, EmbRows
    <3>2. CASE k # j
      BY <1>1, <1>5, <3>2, PaidBefore DEF Spent, Lost
    <3> QED BY <3>1, <3>2
  <2>3. Cardinality(Exposed(k)') \in Nat /\ Cardinality(Exposed(k)') <= Cardinality(Exposed(k))
    BY <2>1, FewerExposed, ExposedLater
  <2>4. Spent(k)' + Cardinality(Exposed(k)') <= 2 + trouble
    BY <2>2, <2>3, PaidBefore
  <2> QED BY <1>4, <2>4
<1> QED BY <1>8, <1>9, <1>10, <1>11, <1>12 DEF EmbInv, EmbKnows, TroublePays

(* A claim is paid for by what its job had cost, also the claim of a worker   *)
(* that is doomed already: the job was exposed to it.                        *)
LEMMA ClaimWrites ==
    ASSUME EmbInv, NEW w \in EmbWorkers, NEW j \in embBook[w].found, JobClaimable(j),
           embBook' = [embBook EXCEPT ![w].found = @ \ {j},
                                      ![w].batch = IF JobClaimable(j) THEN Append(@, <<j, NextFence(j)>>) ELSE @],
           embJobs' = [embJobs EXCEPT ![j] = IF ~JobClaimable(j) THEN @
                          ELSE [status |-> "CLAIMED", worker |-> w, token |-> NextFence(j), expired |-> FALSE]]
    PROVE  /\ j \in EmbJobs /\ embJobs' \in [EmbJobs -> EmbJobRow]
           /\ embJobs'[j] = [status |-> "CLAIMED", worker |-> w, token |-> embJobs[j].token + 1, expired |-> FALSE]
           /\ \A k \in EmbJobs \ {j} : embJobs'[k] = embJobs[k]
           /\ embBook' \in [EmbWorkers -> BookRow]
           /\ embBook'[w].found = embBook[w].found \ {j} /\ embBook'[w].pc = embBook[w].pc
           /\ embBook'[w].batch = Append(embBook[w].batch, <<j, embJobs[j].token + 1>>)
           /\ Entries(w)' = Entries(w) \cup {<<j, embJobs[j].token + 1>>} /\ OneEach(embBook'[w].batch)
           /\ \A v \in EmbWorkers \ {w} : embBook'[v] = embBook[v] /\ Entries(v)' = Entries(v)
<1>0. embBook[w].found \in SUBSET EmbJobs BY BookParts DEF BookRow
<1>1. j \in EmbJobs /\ embJobs[j].token \in Nat /\ embJobs \in [EmbJobs -> EmbJobRow]
  BY <1>0 DEF EmbInv, EmbKnows, EmbRows, EmbJobRow
<1> DEFINE new == [status |-> "CLAIMED", worker |-> w, token |-> embJobs[j].token + 1, expired |-> FALSE]
           entry == <<j, embJobs[j].token + 1>>
           row == [embBook[w] EXCEPT !.found = embBook[w].found \ {j}, !.batch = Append(embBook[w].batch, entry)]
<1>2. new \in EmbJobRow /\ entry \in EmbJobs \X Nat
  BY <1>1 DEF EmbJobRow, EmbStatus
<1>3. embJobs' = [embJobs EXCEPT ![j] = new]
  BY DEF NextFence
<1>4. Append(embBook[w].batch, entry) \in Seq(EmbJobs \X Nat)
  <2> HIDE DEF entry
  <2> QED BY <1>2, BookParts
<1>5. row \in BookRow /\ row.batch = Append(embBook[w].batch, entry) /\ row.found = embBook[w].found \ {j}
      /\ row.pc = embBook[w].pc
  <2> HIDE DEF entry
  <2> QED BY <1>0, <1>4, BookParts DEF BookRow
<1>6. embBook' = [embBook EXCEPT ![w] = row]
  BY DEF NextFence
<1> HIDE DEF new, row
<1>7. /\ embJobs' \in [EmbJobs -> EmbJobRow] /\ embJobs'[j] = new
      /\ \A k \in EmbJobs \ {j} : embJobs'[k] = embJobs[k]
  BY <1>1, <1>2, <1>3
<1>8. /\ embBook' \in [EmbWorkers -> BookRow] /\ embBook'[w] = row
      /\ \A v \in EmbWorkers \ {w} : embBook'[v] = embBook[v]
  BY <1>5, <1>6, BookWrite
<1>9. embBook'[w].batch = Append(embBook[w].batch, entry)
  BY <1>5, <1>8
<1>10. Entries(w)' = Members(Append(embBook[w].batch, entry))
  BY <1>9 DEF Entries
<1>11. Members(Append(embBook[w].batch, entry)) = Entries(w) \cup {entry}
  <2> HIDE DEF entry
  <2> QED BY <1>2, BookParts, AppendMembers DEF Entries
<1>12. OneEach(Append(embBook[w].batch, entry))
  <2>1. \A e \in Members(embBook[w].batch) : e[1] # j
    BY DEF EmbInv, EmbKnows, EmbWorkerKnows, Entries
  <2>2. entry[1] = j OBVIOUS
  <2> HIDE DEF entry
  <2> QED BY <1>2, <2>1, <2>2, BookParts, AppendOnce
<1>13. \A v \in EmbWorkers \ {w} : Entries(v)' = Entries(v)
  BY <1>8 DEF Entries
<1> QED BY <1>1, <1>5, <1>7, <1>8, <1>9, <1>10, <1>11, <1>12, <1>13 DEF new

LEMMA ClaimKeeps ==
    ASSUME EmbInv, NEW w \in EmbWorkers, NEW j \in embBook[w].found, JobClaimable(j), embBook[w].pc = "claiming",
           embBook' = [embBook EXCEPT ![w].found = @ \ {j},
                                      ![w].batch = IF JobClaimable(j) THEN Append(@, <<j, NextFence(j)>>) ELSE @],
           embJobs' = [embJobs EXCEPT ![j] = IF ~JobClaimable(j) THEN @
                          ELSE [status |-> "CLAIMED", worker |-> w, token |-> NextFence(j), expired |-> FALSE]],
           UNCHANGED <<content, vector, embedded, trouble>>
    PROVE  EmbInv'
<1>1. /\ j \in EmbJobs /\ embJobs' \in [EmbJobs -> EmbJobRow]
      /\ embJobs'[j] = [status |-> "CLAIMED", worker |-> w, token |-> embJobs[j].token + 1, expired |-> FALSE]
      /\ \A k \in EmbJobs \ {j} : embJobs'[k] = embJobs[k]
  BY ClaimWrites
<1>2. /\ embBook' \in [EmbWorkers -> BookRow]
      /\ embBook'[w].found = embBook[w].found \ {j} /\ embBook'[w].pc = embBook[w].pc
      /\ Entries(w)' = Entries(w) \cup {<<j, embJobs[j].token + 1>>} /\ OneEach(embBook'[w].batch)
      /\ \A v \in EmbWorkers \ {w} : embBook'[v] = embBook[v] /\ Entries(v)' = Entries(v)
  BY ClaimWrites
<1> PICK t \in Nat : t = embJobs[j].token
  BY <1>1 DEF EmbInv, EmbKnows, EmbRows, EmbJobRow
<1>3. \A e \in Entries(w) : e[1] # j
  BY DEF EmbInv, EmbKnows, EmbWorkerKnows
<1>4. \A v \in EmbWorkers : \A e \in Entries(v) : e[1] = j => e[2] <= t
  BY DEF EmbInv, EmbKnows, EmbWorkerKnows
<1>5. ASSUME NEW v \in EmbWorkers, NEW k \in EmbJobs, k # j
      PROVE  HoldsClaim(v, k)' <=> HoldsClaim(v, k)
  <2>1. <<k, embJobs[k].token>> \in Entries(v)' <=> <<k, embJobs[k].token>> \in Entries(v)
    BY <1>2, <1>5
  <2>2. embJobs'[k] = embJobs[k] BY <1>1, <1>5
  <2> QED BY <2>1, <2>2, HoldsEntry, HoldsEntryLater
<1>6. HoldsClaim(w, j)'
  BY <1>1, <1>2, HoldsEntryLater
<1>7. ASSUME NEW v \in EmbWorkers, v # w PROVE ~HoldsClaim(v, j)'
  <2>1. <<j, t + 1>> \notin Entries(v) BY <1>4
  <2> QED BY <1>1, <1>2, <1>7, <2>1, HoldsEntryLater
<1>8. ASSUME NEW v \in EmbWorkers PROVE Doomed(v)' => Doomed(v)
  <2>1. ASSUME NEW e \in Entries(v)', Stale(e)' PROVE e \in Entries(v) /\ Stale(e)
    <3>1. ~Stale(<<j, t + 1>>)' BY <1>1 DEF Stale
    <3>2. e \in Entries(v) /\ e[1] \in EmbJobs BY <1>2, <2>1, <3>1, BookParts
    <3>3. CASE e[1] # j BY <1>1, <2>1, <3>2, <3>3 DEF Stale
    <3>4. CASE e[1] = j
      <4>1. CASE e[2] # t BY <3>2, <3>4, <4>1 DEF Stale
      <4>2. CASE e[2] = t
        <5>1. embJobs[j].status = "CLAIMED" BY <3>2, <3>4, <4>2 DEF EmbInv, EmbKnows, EmbWorkerKnows
        <5>2. embJobs[j].expired BY <5>1 DEF JobClaimable
        <5> QED BY <3>2, <3>4, <5>2 DEF Stale
      <4> QED BY <4>1, <4>2
    <3> QED BY <3>3, <3>4
  <2> QED BY <2>1 DEF Doomed
<1>9. EmbRows' BY <1>1, <1>2 DEF EmbInv, EmbKnows, EmbRows
<1>10. OneHolds'
  <2> SUFFICES ASSUME NEW u \in EmbWorkers, NEW v \in EmbWorkers, NEW k \in EmbJobs,
                      HoldsClaim(u, k)', HoldsClaim(v, k)'
               PROVE  u = v
    BY DEF OneHolds
  <2>1. CASE k = j BY <1>7, <2>1
  <2>2. CASE k # j
    <3>1. HoldsClaim(u, k) /\ HoldsClaim(v, k) BY <1>5, <2>2
    <3> QED BY <3>1 DEF EmbInv, EmbKnows, OneHolds
  <2> QED BY <2>1, <2>2
<1>11. ASSUME NEW k \in EmbJobs PROVE EmbJobKnows(k)'
  <2>1. EmbJobKnows(k) BY DEF EmbInv, EmbKnows
  <2>2. CASE k = j
    <3>1. t >= 1 BY <2>1, <2>2 DEF EmbJobKnows, JobClaimable
    <3> QED BY <1>1, <2>1, <2>2, <3>1 DEF EmbJobKnows
  <2>3. CASE k # j BY <1>1, <2>1, <2>3 DEF EmbJobKnows
  <2> QED BY <2>2, <2>3
<1>12. ASSUME NEW v \in EmbWorkers PROVE EmbWorkerKnows(v)'
  <2>1. EmbWorkerKnows(v) BY DEF EmbInv, EmbKnows
  <2>2. ASSUME NEW e \in Entries(v), e[1] # j \/ e[2] <= t
        PROVE  /\ e[2] > 1 /\ e[2] <= embJobs'[e[1]].token
               /\ e[2] = embJobs'[e[1]].token => embJobs'[e[1]].status = "CLAIMED"
    <3>1. e[1] \in EmbJobs /\ e[2] \in Nat /\ e[2] > 1 BY <2>1, BookParts DEF EmbWorkerKnows
    <3>2. CASE e[1] = j BY <1>1, <2>2, <3>1, <3>2
    <3>3. CASE e[1] # j BY <1>1, <2>1, <3>1, <3>3 DEF EmbWorkerKnows
    <3> QED BY <3>2, <3>3
  <2>3. CASE v = w
    <3>1. \A e \in Entries(w)' :
            /\ e[1] \notin embBook'[w].found /\ e[2] > 1 /\ e[2] <= embJobs'[e[1]].token
            /\ e[2] = embJobs'[e[1]].token => embJobs'[e[1]].status = "CLAIMED"
      <4> TAKE e \in Entries(w)'
      <4>0. t >= 1
        <5>1. EmbJobKnows(j) BY <1>1 DEF EmbInv, EmbKnows
        <5> QED BY <5>1 DEF EmbJobKnows, JobClaimable
      <4>1. CASE e = <<j, t + 1>> BY <1>1, <1>2, <4>0, <4>1
      <4>2. CASE e \in Entries(w) BY <1>2, <1>3, <2>1, <2>2, <2>3, <4>2 DEF EmbWorkerKnows
      <4> QED BY <1>2, <4>1, <4>2
    <3> QED BY <1>2, <2>3, <3>1 DEF EmbWorkerKnows
  <2>4. CASE v # w
    <3>1. embBook'[v] = embBook[v] /\ Entries(v)' = Entries(v) BY <1>2, <2>4
    <3>2. Current(v)' = Current(v) BY <3>1 DEF Current
    <3> QED BY <1>4, <2>1, <2>2, <3>1, <3>2 DEF EmbWorkerKnows
  <2> QED BY <2>3, <2>4
<1>13. ASSUME NEW k \in EmbJobs PROVE (Spent(k) + Cardinality(Exposed(k)) <= 2 + trouble)'
  <2>1. Exposed(k)' \subseteq Exposed(k)
    <3> SUFFICES ASSUME NEW v \in Exposed(k)' PROVE v \in Exposed(k) OBVIOUS
    <3>1. /\ v \in EmbWorkers /\ Doomed(v)
          /\ k \in embBook'[v].found \/ (HoldsClaim(v, k)' /\ ~embJobs'[k].expired)
      BY <1>8 DEF Exposed
    <3>2. embBook'[v].found \subseteq embBook[v].found BY <1>2, <3>1
    <3>3. CASE k = j
      <4>1. k \in embBook[v].found
        <5>1. CASE v = w BY <3>3, <5>1
        <5>2. CASE v # w BY <1>7, <3>1, <3>2, <3>3, <5>2
        <5> QED BY <5>1, <5>2
      <4> QED BY <3>1, <4>1 DEF Exposed
    <3>4. CASE k # j
      BY <1>1, <1>5, <3>1, <3>2, <3>4 DEF Exposed
    <3> QED BY <3>3, <3>4
  <2>2. Spent(k)' <= Spent(k) /\ Spent(k)' \in Nat
    <3>1. CASE k = j
      <4>1. EmbJobKnows(j) BY <1>1 DEF EmbInv, EmbKnows
      <4>2. Spent(j)' = t + 1
        BY <1>1, <1>6 DEF Spent, Lost
      <4>3. Spent(j) >= t + 1
        BY <1>1, <4>1 DEF Spent, Lost, JobClaimable, EmbJobKnows
      <4> QED BY <3>1, <4>2, <4>3, PaidBefore, <1>1
    <3>2. CASE k # j
      BY <1>1, <1>5, <3>2, PaidBefore DEF Spent, Lost
    <3> QED BY <3>1, <3>2
  <2>3. Cardinality(Exposed(k)') \in Nat /\ Cardinality(Exposed(k)') <= Cardinality(Exposed(k))
    BY <2>1, FewerExposed, ExposedLater
  <2>4. Spent(k)' + Cardinality(Exposed(k)') <= 2 + trouble
    BY <2>2, <2>3, PaidBefore
  <2> QED BY <2>4
<1> QED BY <1>9, <1>10, <1>11, <1>12, <1>13 DEF EmbInv, EmbKnows, TroublePays

(* A job of the selection that is no longer there for the taking.            *)
LEMMA PassKeeps ==
    ASSUME EmbInv, NEW w \in EmbWorkers, NEW j \in embBook[w].found, ~JobClaimable(j), embBook[w].pc = "claiming",
           embBook' = [embBook EXCEPT ![w].found = @ \ {j},
                                      ![w].batch = IF JobClaimable(j) THEN Append(@, <<j, NextFence(j)>>) ELSE @],
           embJobs' = [embJobs EXCEPT ![j] = IF ~JobClaimable(j) THEN @
                          ELSE [status |-> "CLAIMED", worker |-> w, token |-> NextFence(j), expired |-> FALSE]],
           UNCHANGED <<content, vector, embedded, trouble>>
    PROVE  EmbInv'
<1> DEFINE row == [embBook[w] EXCEPT !.found = embBook[w].found \ {j}]
<1>1. row \in BookRow /\ row.pc = "claiming" /\ row.batch = embBook[w].batch /\ row.found \subseteq embBook[w].found
  BY BookParts DEF BookRow
<1>2. embBook' = [embBook EXCEPT ![w] = row]
  <2>1. embBook[w] = [embBook[w] EXCEPT !.batch = embBook[w].batch] BY BookParts DEF BookRow
  <2>2. embBook' = [embBook EXCEPT ![w] = [embBook[w] EXCEPT !.found = embBook[w].found \ {j},
                                                            !.batch = embBook[w].batch]]
    OBVIOUS
  <2>3. [embBook[w] EXCEPT !.found = embBook[w].found \ {j}, !.batch = embBook[w].batch] = row
    BY BookParts DEF BookRow
  <2> QED BY <2>2, <2>3
<1>3. embJobs' = embJobs /\ vector' \in 0..MaxContent
  BY DEF EmbInv, EmbKnows, EmbRows
<1> HIDE DEF row
<1> QED BY <1>1, <1>2, <1>3, BookWrite, BookStep

LEMMA ClaimJobKeeps ==
    ASSUME EmbInv, NEW w \in EmbWorkers, ClaimJob(w)
    PROVE  EmbInv'
<1> PICK j \in embBook[w].found :
      /\ embBook' = [embBook EXCEPT ![w].found = @ \ {j},
                                    ![w].batch = IF JobClaimable(j) THEN Append(@, <<j, NextFence(j)>>) ELSE @]
      /\ embJobs' = [embJobs EXCEPT ![j] = IF ~JobClaimable(j) THEN @
                       ELSE [status |-> "CLAIMED", worker |-> w, token |-> NextFence(j), expired |-> FALSE]]
  BY DEF ClaimJob
<1>1. embBook[w].pc = "claiming" /\ UNCHANGED <<content, vector, embedded, trouble>>
  BY DEF ClaimJob
<1> QED BY <1>1, ClaimKeeps, PassKeeps

LEMMA NothingMoves ==
    ASSUME EmbInv, UNCHANGED <<embJobs, vector, embBook, embedded, trouble>>, content' \in 1..MaxContent
    PROVE  EmbInv'
<1>1. \A w \in EmbWorkers : Entries(w)' = Entries(w) BY DEF Entries
<1>2. \A w \in EmbWorkers, j \in EmbJobs : HoldsClaim(w, j)' <=> HoldsClaim(w, j) BY DEF HoldsClaim
<1>3. \A w \in EmbWorkers : Doomed(w)' <=> Doomed(w) BY <1>1 DEF Doomed, Stale
<1>4. EmbRows' BY DEF EmbInv, EmbKnows, EmbRows
<1>5. OneHolds' BY <1>2 DEF EmbInv, EmbKnows, OneHolds
<1>6. \A j \in EmbJobs : EmbJobKnows(j)' BY DEF EmbInv, EmbKnows, EmbJobKnows
<1>7. \A w \in EmbWorkers : EmbWorkerKnows(w)' BY <1>1 DEF EmbInv, EmbKnows, EmbWorkerKnows, Current
<1>8. ASSUME NEW k \in EmbJobs PROVE (Spent(k) + Cardinality(Exposed(k)) <= 2 + trouble)'
  <2>1. Exposed(k)' = Exposed(k) BY <1>2, <1>3 DEF Exposed
  <2>2. Spent(k)' = Spent(k) BY <1>2 DEF Spent, Lost
  <2>3. Spent(k) + Cardinality(Exposed(k)) <= 2 + trouble BY PaidBefore
  <2> QED BY <2>1, <2>2, <2>3
<1> QED BY <1>4, <1>5, <1>6, <1>7, <1>8 DEF EmbInv, EmbKnows, TroublePays

LEMMA EmbStepKeeps ==
    ASSUME EmbInv, [EmbeddingNext]_embeddingVars
    PROVE  EmbInv'
<1>1. CASE UNCHANGED embeddingVars
  <2>1. content' \in 1..MaxContent BY <1>1 DEF embeddingVars, EmbInv, EmbKnows, EmbRows
  <2> QED BY <1>1, <2>1, NothingMoves DEF embeddingVars
<1>2. ASSUME EditContent PROVE EmbInv'
  <2>1. content' \in 1..MaxContent
    BY <1>2, EmbeddingJobsAssumption DEF EditContent, EmbInv, EmbKnows, EmbRows
  <2> QED BY <1>2, <2>1, NothingMoves DEF EditContent
<1>3. ASSUME NEW j \in EmbJobs, EnqueueEmbedding(j) \/ OrphanExpires(j) \/ Overruns(j)
      PROVE  EmbInv'
  BY <1>3, EnqueueKeeps, OrphanKeeps, OverrunKeeps
<1>4. ASSUME NEW w \in EmbWorkers, EmbWorkerStep(w) \/ EmbWorkerDies(w)
      PROVE  EmbInv'
  <2>1. EndEmbedding(w) => EmbInv' BY RefusedKeeps, AcceptedKeeps
  <2> QED BY <1>4, <2>1, SelectKeeps, ClaimJobKeeps, EndClaimsKeeps, RunKeeps, EmbedKeeps, EmbWriteKeeps,
             EndBatchKeeps, DieKeeps DEF EmbWorkerStep
<1> QED BY <1>1, <1>2, <1>3, <1>4 DEF EmbeddingNext

LEMMA EmbBegins == EmbeddingInit => EmbInv
<1> SUFFICES ASSUME EmbeddingInit PROVE EmbInv OBVIOUS
<1>1. EmbRows
  BY EmbeddingJobsAssumption, AsleepRow DEF EmbeddingInit, EmbRows, EmbJobRow, EmbStatus
<1>2. \A w \in EmbWorkers : embBook[w] = Asleep /\ Entries(w) = {}
  BY AsleepRow, NothingIn DEF EmbeddingInit, Entries
<1>3. \A w \in EmbWorkers, j \in EmbJobs : ~HoldsClaim(w, j)
  BY <1>2, HoldsEntry
<1>4. \A j \in EmbJobs : embJobs[j].status = "ABSENT" /\ embJobs[j].token = 1
  BY DEF EmbeddingInit
<1>5. \A j \in EmbJobs : EmbJobKnows(j) BY <1>4 DEF EmbJobKnows, EmbeddingInit
<1>6. \A w \in EmbWorkers : EmbWorkerKnows(w) BY <1>2, AsleepRow, NothingIn DEF EmbWorkerKnows
<1>7. OneHolds BY <1>3 DEF OneHolds
<1>8. TroublePays
  <2> SUFFICES ASSUME NEW j \in EmbJobs PROVE Spent(j) + Cardinality(Exposed(j)) <= 2 + trouble
    BY DEF TroublePays
  <2>1. Exposed(j) = {} BY <1>2 DEF Exposed, Doomed
  <2>2. Cardinality(Exposed(j)) = 0 BY <2>1, FS_EmptySet
  <2>3. Spent(j) = 2 /\ trouble = 0 BY <1>4 DEF Spent, EmbeddingInit
  <2> QED BY <2>2, <2>3
<1> QED BY <1>1, <1>5, <1>6, <1>7, <1>8 DEF EmbInv, EmbKnows

LEMMA EmbKeeps == EmbeddingJobsSpec => []EmbInv
  BY EmbBegins, EmbStepKeeps, PTL DEF EmbeddingJobsSpec

(* No job is claimed more often than once and once for every trouble.        *)
LEMMA TokensBounded ==
    ASSUME EmbInv, NEW j \in EmbJobs
    PROVE  embJobs[j].token \in Fences /\ embJobs[j].token <= 2 + trouble
<1>1. embJobs[j].token \in Nat /\ trouble \in 0..MaxTrouble /\ embJobs[j].status \in EmbStatus
  BY DEF EmbInv, EmbKnows, EmbRows, EmbJobRow
<1>2. embJobs[j].token <= Spent(j) /\ embJobs[j].token >= 1
  <2>1. EmbJobKnows(j) BY DEF EmbInv, EmbKnows
  <2>2. embJobs[j].token >= 1 BY <1>1, <2>1 DEF EmbJobKnows, EmbStatus
  <2>3. embJobs[j].token <= Spent(j)
    BY <1>1, <2>1 DEF EmbJobKnows, Spent, EmbStatus
  <2> QED BY <2>2, <2>3
<1> QED BY <1>1, <1>2, PaidBefore, EmbeddingJobsAssumption DEF Fences

LEMMA EmbTypes == EmbInv => EmbTypeOK
<1> SUFFICES ASSUME EmbInv PROVE EmbTypeOK OBVIOUS
<1>1. embJobs \in [EmbJobs -> [status : EmbStatus, worker : EmbWorkers \cup {NoWorker},
                               token : Fences, expired : BOOLEAN]]
  <2>1. embJobs \in [EmbJobs -> EmbJobRow] BY DEF EmbInv, EmbKnows, EmbRows
  <2>2. \A j \in EmbJobs : embJobs[j].token \in Fences BY TokensBounded
  <2> QED BY <2>1, <2>2 DEF EmbJobRow
<1>2. ASSUME NEW j \in EmbJobs, NEW t \in Nat, t <= embJobs[j].token, t >= 1 PROVE t \in Fences
  <2>1. embJobs[j].token \in Nat BY DEF EmbInv, EmbKnows, EmbRows, EmbJobRow
  <2> QED BY <1>2, <2>1, TokensBounded, EmbeddingJobsAssumption DEF Fences
<1>3. ASSUME NEW w \in EmbWorkers
      PROVE  /\ embBook[w].pc \in {"asleep", "claiming", "next", "embedding", "writing", "done", "failed"}
             /\ embBook[w].found \subseteq EmbJobs
             /\ \A i \in DOMAIN embBook[w].batch : embBook[w].batch[i] \in (EmbJobs \X Fences)
  <2>1. embBook[w].pc \in {"asleep", "claiming", "next", "embedding", "writing", "done", "failed"}
        /\ embBook[w].found \subseteq EmbJobs
    BY BookParts DEF BookRow
  <2>2. ASSUME NEW i \in DOMAIN embBook[w].batch PROVE embBook[w].batch[i] \in (EmbJobs \X Fences)
    <3> DEFINE e == embBook[w].batch[i]
    <3>1. e \in Entries(w) BY DEF Entries, Members
    <3> HIDE DEF e
    <3>2. e[1] \in EmbJobs /\ e[2] \in Nat /\ e = <<e[1], e[2]>> BY <3>1, BookParts
    <3>3. e[2] <= embJobs[e[1]].token /\ e[2] >= 1
      <4>1. e[2] <= embJobs[e[1]].token /\ e[2] > 1
        BY <3>1 DEF EmbInv, EmbKnows, EmbWorkerKnows
      <4> QED BY <3>2, <4>1
    <3>4. e[2] \in Fences BY <1>2, <3>2, <3>3
    <3>5. e \in EmbJobs \X Fences BY <3>2, <3>4
    <3> QED BY <3>5 DEF e
  <2> QED BY <2>1, <2>2
<1>4. embedded \subseteq EmbJobs \X Fences
  <2> SUFFICES ASSUME NEW e \in embedded PROVE e \in EmbJobs \X Fences OBVIOUS
  <2>1. e \in EmbJobs \X Nat BY DEF EmbInv, EmbKnows, EmbRows
  <2>2. e[1] \in EmbJobs /\ e[2] \in Nat /\ e = <<e[1], e[2]>> BY <2>1
  <2>3. e[2] <= embJobs[e[1]].token /\ e[2] >= 1
    <3>1. EmbJobKnows(e[1]) /\ <<e[1], e[2]>> \in embedded BY <2>2 DEF EmbInv, EmbKnows
    <3>2. e[2] <= embJobs[e[1]].token /\ e[2] > 1 BY <2>2, <3>1 DEF EmbJobKnows
    <3> QED BY <2>2, <3>2
  <2>4. e[2] \in Fences BY <1>2, <2>2, <2>3
  <2> QED BY <2>2, <2>4
<1> QED BY <1>1, <1>3, <1>4 DEF EmbTypeOK, EmbInv, EmbKnows, EmbRows

-----------------------------------------------------------------------------
(* Embedding jobs are leased work *)

LEMMA TheLargest ==
    ASSUME NEW runs \in SUBSET Nat, NEW n \in runs, \A u \in runs : u <= n
    PROVE  (CHOOSE t \in runs : \A u \in runs : u <= t) = n
<1>1. \A t \in runs : (\A u \in runs : u <= t) => t = n
  OBVIOUS
<1> QED BY <1>1

(* The newest run of a job that is completed is that of its last claim, and   *)
(* so it stays.                                                              *)
LEMMA NewestIsLast ==
    ASSUME EmbInv, NEW j \in EmbJobs, embJobs[j].status = "COMPLETED"
    PROVE  NewestRun(j) = embJobs[j].token
<1> DEFINE runs == {t \in Fences : t = 1 \/ <<j, t>> \in embedded}
<1>1. embJobs[j].token \in Fences /\ Fences \subseteq Nat /\ EmbJobKnows(j)
  BY TokensBounded DEF Fences, EmbInv, EmbKnows
<1>2. embJobs[j].token \in runs /\ embJobs[j].token > 1
  BY <1>1 DEF EmbJobKnows
<1>3. ASSUME NEW u \in runs PROVE u <= embJobs[j].token
  <2>1. u \in Nat /\ (u = 1 \/ <<j, u>> \in embedded) /\ embJobs[j].token \in Nat BY <1>1
  <2>2. CASE u = 1 BY <1>2, <2>1, <2>2
  <2>3. CASE <<j, u>> \in embedded BY <1>1, <2>1, <2>3 DEF EmbJobKnows
  <2> QED BY <2>1, <2>2, <2>3
<1>4. runs \in SUBSET Nat BY <1>1
<1> HIDE DEF runs
<1>5. (CHOOSE t \in runs : \A u \in runs : u <= t) = embJobs[j].token
  BY <1>2, <1>3, <1>4, TheLargest
<1> QED BY <1>5 DEF NewestRun, runs

LEMMA NewestStays ==
    ASSUME EmbInv, EmbInv', NEW j \in EmbJobs, embJobs'[j].token = embJobs[j].token,
           embJobs'[j].status = "COMPLETED"
    PROVE  NewestRun(j)' = embJobs[j].token
<1> DEFINE runs == {t \in Fences : t = 1 \/ <<j, t>> \in embedded'}
<1>1. embJobs[j].token \in Fences /\ Fences \subseteq Nat /\ EmbJobKnows(j)'
  BY TokensBounded DEF Fences, EmbInv, EmbKnows
<1>2. embJobs[j].token \in runs /\ embJobs[j].token > 1
  BY <1>1 DEF EmbJobKnows
<1>3. ASSUME NEW u \in runs PROVE u <= embJobs[j].token
  <2>1. u \in Nat /\ (u = 1 \/ <<j, u>> \in embedded') /\ embJobs[j].token \in Nat BY <1>1
  <2>2. CASE u = 1 BY <1>2, <2>1, <2>2
  <2>3. CASE <<j, u>> \in embedded' BY <1>1, <2>1, <2>3 DEF EmbJobKnows
  <2> QED BY <2>1, <2>2, <2>3
<1>4. runs \in SUBSET Nat BY <1>1
<1>5. NewestRun(j)' = CHOOSE t \in runs : \A u \in runs : u <= t
  BY DEF NewestRun
<1> HIDE DEF runs
<1> QED BY <1>2, <1>3, <1>4, <1>5, TheLargest

Claimed(j) == embJobs[j].token - 1
WonBy(j) == IF embJobs[j].status = "COMPLETED" THEN NewestRun(j) - 1 ELSE 0
EmbClaims == [j \in EmbJobs |-> Claimed(j)]
EmbWinner == [j \in EmbJobs |-> WonBy(j)]

(* What a step does to one job, with the job's state before and after.       *)
LEMMA JobUntouched ==
    ASSUME EmbInv, EmbInv', NEW k \in EmbJobs, embJobs'[k].token = embJobs[k].token,
           embJobs'[k].status = "COMPLETED" <=> embJobs[k].status = "COMPLETED"
    PROVE  Claimed(k)' = Claimed(k) /\ WonBy(k)' = WonBy(k)
<1>1. CASE embJobs[k].status = "COMPLETED"
  BY <1>1, NewestIsLast, NewestStays DEF Claimed, WonBy
<1>2. CASE embJobs[k].status # "COMPLETED" BY <1>2 DEF Claimed, WonBy
<1> QED BY <1>1, <1>2

LEMMA ClaimedIsNat ==
    ASSUME EmbInv, NEW j \in EmbJobs
    PROVE  Claimed(j) \in Nat /\ embJobs[j].token \in Nat /\ embJobs[j].token >= 1
<1>1. embJobs[j].token \in Nat /\ embJobs[j].token >= 1
  BY TokensBounded DEF Fences
<1> QED BY <1>1 DEF Claimed

LEMMA EmbStutters ==
    ASSUME EmbInv, EmbInv', \A k \in EmbJobs : embJobs'[k].token = embJobs[k].token,
           \A k \in EmbJobs : embJobs'[k].status = "COMPLETED" <=> embJobs[k].status = "COMPLETED"
    PROVE  EmbClaims' = EmbClaims /\ EmbWinner' = EmbWinner
<1>1. \A k \in EmbJobs : Claimed(k)' = Claimed(k) /\ WonBy(k)' = WonBy(k)
  BY JobUntouched
<1> QED BY <1>1 DEF EmbClaims, EmbWinner

LEMMA TokenBoundedLater ==
    ASSUME EmbInv', NEW j \in EmbJobs
    PROVE  embJobs'[j].token <= 2 + MaxTrouble
<1>1. embJobs'[j].token \in Nat /\ trouble' \in 0..MaxTrouble
  BY DEF EmbInv, EmbKnows, EmbRows, EmbJobRow
<1>2. Spent(j)' + Cardinality(Exposed(j)') <= 2 + trouble' /\ Cardinality(Exposed(j)') \in Nat
  BY ExposedLater DEF EmbInv, TroublePays
<1>3. embJobs'[j].token <= Spent(j)' /\ Spent(j)' \in Nat
  <2>1. EmbJobKnows(j)' /\ embJobs'[j].status \in EmbStatus BY DEF EmbInv, EmbKnows, EmbRows, EmbJobRow
  <2> QED BY <1>1, <2>1 DEF EmbJobKnows, Spent, EmbStatus
<1> QED BY <1>1, <1>2, <1>3, EmbeddingJobsAssumption

LEMMA ClaimRefines ==
    ASSUME EmbInv, EmbInv', NEW w \in EmbWorkers, ClaimJob(w)
    PROVE  \/ EmbClaims' = EmbClaims /\ EmbWinner' = EmbWinner
           \/ \E j \in EmbJobs :
                /\ EmbWinner[j] = 0 /\ EmbClaims[j] < 1 + MaxTrouble
                /\ EmbClaims' = [EmbClaims EXCEPT ![j] = @ + 1] /\ EmbWinner' = EmbWinner
<1> PICK j \in embBook[w].found :
      /\ embBook' = [embBook EXCEPT ![w].found = @ \ {j},
                                    ![w].batch = IF JobClaimable(j) THEN Append(@, <<j, NextFence(j)>>) ELSE @]
      /\ embJobs' = [embJobs EXCEPT ![j] = IF ~JobClaimable(j) THEN @
                       ELSE [status |-> "CLAIMED", worker |-> w, token |-> NextFence(j), expired |-> FALSE]]
  BY DEF ClaimJob
<1>1. CASE ~JobClaimable(j)
  <2>1. embJobs' = embJobs BY <1>1 DEF EmbInv, EmbKnows, EmbRows
  <2> QED BY <2>1, EmbStutters
<1>2. CASE JobClaimable(j)
  <2>1. /\ j \in EmbJobs
        /\ embJobs'[j] = [status |-> "CLAIMED", worker |-> w, token |-> embJobs[j].token + 1, expired |-> FALSE]
        /\ \A k \in EmbJobs \ {j} : embJobs'[k] = embJobs[k]
    BY <1>2, ClaimWrites
  <2>2. embJobs[j].status \in {"PENDING", "CLAIMED"} BY <1>2 DEF JobClaimable
  <2>3. \A k \in EmbJobs \ {j} : Claimed(k)' = Claimed(k) /\ WonBy(k)' = WonBy(k)
    BY <2>1, JobUntouched
  <2>4. WonBy(j)' = 0 /\ WonBy(j) = 0 BY <2>1, <2>2 DEF WonBy
  <2>5. Claimed(j)' = Claimed(j) + 1 BY <2>1, ClaimedIsNat DEF Claimed
  <2>6. Claimed(j) < 1 + MaxTrouble
    <3>1. embJobs'[j].token <= 2 + MaxTrouble
      BY <2>1, TokenBoundedLater
    <3> QED BY <2>1, <3>1, ClaimedIsNat, EmbeddingJobsAssumption DEF Claimed
  <2>7. EmbClaims' = [EmbClaims EXCEPT ![j] = @ + 1] BY <2>1, <2>3, <2>5 DEF EmbClaims
  <2>8. EmbWinner' = EmbWinner BY <2>1, <2>3, <2>4 DEF EmbWinner
  <2> QED BY <2>1, <2>4, <2>6, <2>7, <2>8 DEF EmbWinner, EmbClaims
<1> QED BY <1>1, <1>2

LEMMA EndRefines ==
    ASSUME EmbInv, EmbInv', NEW w \in EmbWorkers, EndEmbedding(w)
    PROVE  \/ EmbClaims' = EmbClaims /\ EmbWinner' = EmbWinner
           \/ \E j \in EmbJobs :
                /\ EmbWinner[j] = 0 /\ EmbClaims[j] > 0
                /\ EmbClaims' = EmbClaims /\ EmbWinner' = [EmbWinner EXCEPT ![j] = EmbClaims[j]]
<1>1. CASE ~MayEnd(w)
  <2>1. embJobs' = embJobs BY <1>1 DEF EndEmbedding
  <2> QED BY <2>1, EmbStutters
<1>2. CASE MayEnd(w)
  <2> PICK j \in EmbJobs : j = Current(w)[1] BY <1>2, AcceptedWrites
  <2>1. /\ embJobs[j].status = "CLAIMED"
        /\ embJobs'[j].status = IF embBook[w].pc = "done" THEN "COMPLETED" ELSE "FAILED"
        /\ \A k \in EmbJobs : embJobs'[k].token = embJobs[k].token
        /\ \A k \in EmbJobs \ {j} : embJobs'[k] = embJobs[k]
    BY <1>2, AcceptedWrites
  <2>2. CASE embBook[w].pc # "done"
    <3>1. \A k \in EmbJobs : embJobs'[k].status = "COMPLETED" <=> embJobs[k].status = "COMPLETED"
      BY <2>1, <2>2
    <3> QED BY <2>1, <3>1, EmbStutters
  <2>3. CASE embBook[w].pc = "done"
    <3>1. \A k \in EmbJobs \ {j} : Claimed(k)' = Claimed(k) /\ WonBy(k)' = WonBy(k)
      BY <2>1, JobUntouched
    <3>2. Claimed(j)' = Claimed(j) BY <2>1 DEF Claimed
    <3>3. WonBy(j) = 0 /\ WonBy(j)' = Claimed(j)
      BY <2>1, <2>3, NewestStays DEF WonBy, Claimed
    <3>4. Claimed(j) > 0
      <4>1. EmbJobKnows(j) BY DEF EmbInv, EmbKnows
      <4> QED BY <2>1, <4>1, ClaimedIsNat DEF Claimed, EmbJobKnows
    <3>5. EmbClaims' = EmbClaims BY <3>1, <3>2 DEF EmbClaims
    <3>6. EmbWinner' = [EmbWinner EXCEPT ![j] = EmbClaims[j]] BY <3>1, <3>3 DEF EmbWinner, EmbClaims
    <3> QED BY <3>3, <3>4, <3>5, <3>6 DEF EmbWinner, EmbClaims
  <2> QED BY <2>2, <2>3
<1> QED BY <1>1, <1>2

LEMMA OthersKeepJobs ==
    ASSUME EmbInv, EmbInv', [EmbeddingNext]_embeddingVars,
           \A w \in EmbWorkers : ~ClaimJob(w) /\ ~EndEmbedding(w)
    PROVE  EmbClaims' = EmbClaims /\ EmbWinner' = EmbWinner
<1> DEFINE Same == /\ \A k \in EmbJobs : embJobs'[k].token = embJobs[k].token
                   /\ \A k \in EmbJobs : embJobs'[k].status = "COMPLETED" <=> embJobs[k].status = "COMPLETED"
<1>1. embJobs' = embJobs => Same OBVIOUS
<1>2. ASSUME NEW j \in EmbJobs, EnqueueEmbedding(j) PROVE Same
  BY <1>2 DEF EnqueueEmbedding, EmbInv, EmbKnows, EmbRows, EmbJobRow
<1>3. ASSUME NEW j \in EmbJobs, Expires(j) PROVE Same
  BY <1>3 DEF Expires, EmbInv, EmbKnows, EmbRows, EmbJobRow
<1>4. ASSUME NEW w \in EmbWorkers, EmbWorkerStep(w) \/ EmbWorkerDies(w) PROVE embJobs' = embJobs
  BY <1>4 DEF EmbWorkerStep, SelectJobs, EndClaims, RunJob, Embed, WriteVector, EndBatch, EmbWorkerDies
<1> HIDE DEF Same
<1>5. Same
  BY <1>1, <1>2, <1>3, <1>4 DEF EmbeddingNext, embeddingVars, EditContent, OrphanExpires, Overruns
<1> QED BY <1>5, EmbStutters DEF Same

(* Managed embedding jobs implement LeasedWork: each claim takes the next     *)
(* token, the claim that completes a job is the newest and its worker has run *)
(* the job, although a batch outlives its leases (embedding_governance.py).   *)
THEOREM EmbeddingsRefineLeasedWork == EmbeddingJobsSpec => EmbeddingsAreLeasedWork
<1>1. EmbeddingInit => EmbeddingWork!WorkInit
  BY DEF EmbeddingInit, EmbeddingWork!WorkInit
<1>2. ASSUME EmbInv, EmbInv', [EmbeddingNext]_embeddingVars
      PROVE  [EmbeddingWork!WorkNext]_(EmbeddingWork!workVars)
  <2>1. \/ EmbClaims' = EmbClaims /\ EmbWinner' = EmbWinner
        \/ \E j \in EmbJobs :
             /\ EmbWinner[j] = 0 /\ EmbClaims[j] < 1 + MaxTrouble
             /\ EmbClaims' = [EmbClaims EXCEPT ![j] = @ + 1] /\ EmbWinner' = EmbWinner
        \/ \E j \in EmbJobs :
             /\ EmbWinner[j] = 0 /\ EmbClaims[j] > 0
             /\ EmbClaims' = EmbClaims /\ EmbWinner' = [EmbWinner EXCEPT ![j] = EmbClaims[j]]
    BY <1>2, ClaimRefines, EndRefines, OthersKeepJobs
  <2> QED BY <2>1 DEF EmbeddingWork!WorkNext, EmbeddingWork!workVars, EmbeddingWork!ClaimWork,
                      EmbeddingWork!FinishWork, EmbClaims, EmbWinner, Claimed, WonBy
<1>3. EmbInv /\ EmbInv' /\ [EmbeddingNext]_embeddingVars => [EmbeddingWork!WorkNext]_(EmbeddingWork!workVars)
  BY <1>2
<1>4. EmbeddingJobsSpec => EmbeddingWork!WorkSpec
  BY EmbKeeps, <1>1, <1>3, PTL DEF EmbeddingJobsSpec, EmbeddingWork!WorkSpec
<1> QED BY <1>4 DEF EmbeddingsAreLeasedWork

-----------------------------------------------------------------------------
(* All services together *)

LEMMA ServicesBegin ==
    ServicesInit => /\ EventsInit /\ OutboxInit /\ AdmissionInit
                    /\ LeaseInit /\ JobsInit /\ EmbeddingInit
  BY DEF ServicesInit

(* Whichever service has the focus, the steps of each are its own.           *)
LEMMA ServicesStep ==
    ASSUME [ServicesNext]_serviceVars
    PROVE  /\ [EventsNext]_eventVars /\ [OutboxNext]_outboxVars /\ [AdmissionNext]_admissionVars
           /\ [LeaseNext]_leaseVars /\ [JobsNext]_jobVars /\ [EmbeddingNext]_embeddingVars
<1>1. CASE UNCHANGED serviceVars BY <1>1 DEF serviceVars
<1>2. CASE ServicesNext BY <1>2 DEF ServicesNext, Rests
<1> QED BY <1>1, <1>2

LEMMA EachServiceRuns ==
    ServicesSpec => /\ EventsSpec /\ OutboxSpec /\ AdmissionSpec
                    /\ LeaseSpec /\ JobsSpec /\ EmbeddingJobsSpec
  BY ServicesBegin, ServicesStep, PTL
     DEF ServicesSpec, EventsSpec, OutboxSpec, AdmissionSpec, LeaseSpec, JobsSpec, EmbeddingJobsSpec

(* In every state of the services each of their rows holds what its column  *)
(* admits: no service is brought by another where it does not come alone.   *)
THEOREM ServicesKeepTypes == ServicesSpec => []ServicesTypeOK
<1>1. EmbeddingJobsSpec => []EmbTypeOK BY EmbKeeps, EmbTypes, PTL
<1>2. EventsTypeOK /\ OutboxTypeOK /\ AdmissionTypeOK /\ LeaseTypeOK /\ JobsTypeOK /\ EmbTypeOK
      => ServicesTypeOK
  BY DEF ServicesTypeOK
<1> QED
  BY <1>1, <1>2, EachServiceRuns, EventsTakeEffectOnce, OutboxDeliversInBounds, AdmissionIsBounded,
     LeaseTypes, JobTypes, PTL

(* The queue of jobs that execute and the queue of those that embed are     *)
(* leased work, also where other services are served between their steps.   *)
THEOREM QueuesImplementLeasedWork == ServicesSpec => QueuesAreLeasedWork
  BY EachServiceRuns, JobsRefineLeasedWork, EmbeddingsRefineLeasedWork, PTL DEF QueuesAreLeasedWork

(* What is proved of events, of admission and of scheduler leases holds where *)
(* all of them run.                                                          *)
THEOREM ServicesHold ==
    ServicesSpec => []EffectOnce /\ []AdmissionHolds /\ []TokenNamesOneScheduler
  BY EachServiceRuns, EventsTakeEffectOnce, AdmissionIsBounded, TokensNameOneScheduler, PTL
==============================================================================
