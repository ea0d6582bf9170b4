-------------------------- MODULE GovernanceProofs --------------------------
(***************************************************************************)
(* Proofs about what is governed: calls of a model (ModelRequests.tla),     *)
(* changes of the organization (OrganizationChange.tla) and definitions of  *)
(* graphs (GraphDefinitions.tla), for any number of calls, policies,        *)
(* people, units, change sets, authors, versions and plans.                 *)
(*                                                                         *)
(* The first two need induction over a finite set: a quota is a sum, the    *)
(* closure of the organization a walk from parent to parent.  Each          *)
(* induction is a smallest counterexample (SmallestSubset).                 *)
(***************************************************************************)
EXTENDS ModelRequests, OrganizationChange, GraphDefinitions, FiniteSetTheorems, SequenceTheorems, WellFoundedInduction, TLAPS

-----------------------------------------------------------------------------
(* Sums over a finite set *)

LEMMA SmallestSubset ==
    ASSUME NEW S, IsFiniteSet(S), NEW B \in SUBSET SUBSET S, B # {}
    PROVE  \E T \in B : \A U \in B : U \subseteq T => U = T
<1>1. IsWellFoundedOn(StrictSubsetOrdering(S), SUBSET S)
  BY FS_StrictSubsetOrderingWellFounded, FS_FiniteSubsetsOfFinite
<1>2. PICK T \in B : \A U \in B : <<U, T>> \notin StrictSubsetOrdering(S)
  <2> HIDE DEF StrictSubsetOrdering
  <2> QED
    BY <1>1, WFMin
<1> QED
  BY <1>2 DEF StrictSubsetOrdering

Pick(s) == CHOOSE x \in s : TRUE
SumStep(f, T, g) == [s \in SUBSET T |-> IF s = {} THEN 0 ELSE f[Pick(s)] + g[s \ {Pick(s)}]]

LEMMA PickIsIn == ASSUME NEW s, s # {} PROVE Pick(s) \in s
BY DEF Pick

LEMMA SumIsChosen ==
    ASSUME NEW f, NEW T
    PROVE  SumFunctionOnSet(f, T) = (CHOOSE g : g = SumStep(f, T, g))[T]
BY DEF SumFunctionOnSet, FoldFunctionOnSet, MapThenFoldSet, SumStep, Pick

(* What solves the recursion on a set solves it on its subsets, and alone.    *)
LEMMA SumStepUnique ==
    ASSUME NEW S, IsFiniteSet(S), NEW f, NEW T \in SUBSET S, NEW U \in SUBSET T,
           NEW g, g = SumStep(f, T, g), NEW h, h = SumStep(f, U, h)
    PROVE  \A s \in SUBSET U : g[s] = h[s]
<1> DEFINE bad == {s \in SUBSET U : g[s] # h[s]}
<1> SUFFICES ASSUME bad # {} PROVE FALSE
  OBVIOUS
<1>1. IsFiniteSet(U) /\ bad \in SUBSET SUBSET U
  BY FS_Subset
<1>2. PICK s \in bad : \A r \in bad : r \subseteq s => r = s
  <2> HIDE DEF bad
  <2> QED
    BY <1>1, SmallestSubset
<1>3. s \in SUBSET U /\ s \in SUBSET T /\ g[s] # h[s]
  OBVIOUS
<1>4. /\ g[s] = IF s = {} THEN 0 ELSE f[Pick(s)] + g[s \ {Pick(s)}]
      /\ h[s] = IF s = {} THEN 0 ELSE f[Pick(s)] + h[s \ {Pick(s)}]
  BY <1>3 DEF SumStep
<1>5. s # {}
  BY <1>3, <1>4
<1>6. Pick(s) \in s
  BY <1>5, PickIsIn
<1>7. g[s \ {Pick(s)}] = h[s \ {Pick(s)}]
  BY <1>2, <1>3, <1>6
<1> QED
  BY <1>3, <1>4, <1>5, <1>7

LEMMA SumSolves ==
    ASSUME NEW S, IsFiniteSet(S), NEW f, NEW T \in SUBSET S
    PROVE  \E g : g = SumStep(f, T, g)
<1> DEFINE Solved(U) == \E g : g = SumStep(f, U, g)
           sum(U) == (CHOOSE g : g = SumStep(f, U, g))[U]
           bad == {U \in SUBSET S : ~Solved(U)}
<1> SUFFICES ASSUME bad # {} PROVE FALSE
  OBVIOUS
<1>1. PICK U \in bad : \A V \in bad : V \subseteq U => V = U
  <2>1. bad \in SUBSET SUBSET S
    OBVIOUS
  <2> HIDE DEF bad
  <2> QED
    BY <2>1, SmallestSubset
<1>2. U \in SUBSET S /\ ~Solved(U)
  OBVIOUS
<1>3. \A V \in SUBSET U : V # U => Solved(V)
  BY <1>1, <1>2
<1>4. ASSUME NEW V \in SUBSET U, V # U
      PROVE  sum(V) = IF V = {} THEN 0 ELSE f[Pick(V)] + sum(V \ {Pick(V)})
  <2> DEFINE g == CHOOSE g : g = SumStep(f, V, g)
  <2>1. g = SumStep(f, V, g)
    BY <1>3, <1>4
  <2> HIDE DEF g
  <2>2. g[V] = IF V = {} THEN 0 ELSE f[Pick(V)] + g[V \ {Pick(V)}]
    BY <2>1 DEF SumStep
  <2>3. CASE V = {}
    BY <2>2, <2>3 DEF g
  <2>4. CASE V # {}
    <3> DEFINE W == V \ {Pick(V)}
               h == CHOOSE h : h = SumStep(f, W, h)
    <3>1. W \in SUBSET V /\ W \in SUBSET U /\ W # U /\ V \in SUBSET S
      BY <1>2, <2>4, PickIsIn
    <3>2. h = SumStep(f, W, h)
      <4> HIDE DEF W
      <4> QED
        BY <1>3, <3>1
    <3> HIDE DEF h, W
    <3>3. g[W] = h[W]
      BY <2>1, <3>1, <3>2, SumStepUnique
    <3> QED
      BY <2>2, <2>4, <3>3, SMTT(20), ZenonT(40) DEF g, h, W
  <2> QED
    BY <2>3, <2>4
<1> DEFINE k == [V \in SUBSET U |-> IF V = {} THEN 0 ELSE f[Pick(V)] + sum(V \ {Pick(V)})]
<1>5. k = SumStep(f, U, k)
  <2>1. ASSUME NEW V \in SUBSET U, V # {}
        PROVE  k[V \ {Pick(V)}] = sum(V \ {Pick(V)})
    <3> DEFINE W == V \ {Pick(V)}
    <3>1. W \in SUBSET U /\ W # U
      BY <2>1, PickIsIn
    <3> HIDE DEF W
    <3>2. k[W] = IF W = {} THEN 0 ELSE f[Pick(W)] + sum(W \ {Pick(W)})
      BY <3>1
    <3> HIDE DEF k, sum
    <3> QED
      BY <1>4, <3>1, <3>2 DEF W
  <2> HIDE DEF sum
  <2>2. k = [V \in SUBSET U |-> IF V = {} THEN 0 ELSE f[Pick(V)] + k[V \ {Pick(V)}]]
    BY <2>1
  <2> QED
    BY <2>2 DEF SumStep
<1> HIDE DEF k
<1> QED
  BY <1>2, <1>5

(* The sum over a finite set, one element at a time ... *)
LEMMA SumUnfolds ==
    ASSUME NEW S, IsFiniteSet(S), NEW f
    PROVE  SumFunctionOnSet(f, S) = IF S = {} THEN 0
                                    ELSE f[Pick(S)] + SumFunctionOnSet(f, S \ {Pick(S)})
<1> DEFINE g == CHOOSE g : g = SumStep(f, S, g)
<1>1. g = SumStep(f, S, g)
  BY SumSolves
<1>2. SumFunctionOnSet(f, S) = g[S]
  BY SumIsChosen
<1> HIDE DEF g
<1>3. g[S] = IF S = {} THEN 0 ELSE f[Pick(S)] + g[S \ {Pick(S)}]
  BY <1>1 DEF SumStep
<1>4. CASE S = {}
  BY <1>2, <1>3, <1>4
<1>5. CASE S # {}
  <2> DEFINE W == S \ {Pick(S)}
             h == CHOOSE h : h = SumStep(f, W, h)
  <2>1. W \in SUBSET S /\ S \in SUBSET S
    OBVIOUS
  <2> HIDE DEF W
  <2>2. h = SumStep(f, W, h)
    BY <2>1, SumSolves
  <2>3. SumFunctionOnSet(f, W) = h[W]
    BY SumIsChosen
  <2> HIDE DEF h
  <2>4. g[W] = h[W]
    BY <1>1, <2>1, <2>2, SumStepUnique
  <2> QED
    BY <1>2, <1>3, <1>5, <2>3, <2>4 DEF W
<1> QED
  BY <1>4, <1>5

(* ... is the same in whatever order. *)
LEMMA SumAdds ==
    ASSUME NEW D, IsFiniteSet(D), NEW f \in [D -> Nat]
    PROVE  \A S \in SUBSET D :
             /\ SumFunctionOnSet(f, S) \in Nat
             /\ \A x \in S : SumFunctionOnSet(f, S) = f[x] + SumFunctionOnSet(f, S \ {x})
<1> DEFINE sum(S) == SumFunctionOnSet(f, S)
           good(S) == sum(S) \in Nat /\ \A x \in S : sum(S) = f[x] + sum(S \ {x})
           bad == {S \in SUBSET D : ~good(S)}
<1> HIDE DEF sum
<1>0. ASSUME NEW S \in SUBSET D
      PROVE  sum(S) = IF S = {} THEN 0 ELSE f[Pick(S)] + sum(S \ {Pick(S)})
  <2>1. IsFiniteSet(S)
    BY FS_Subset
  <2> QED
    BY <2>1, SumUnfolds DEF sum
<1> SUFFICES ASSUME bad # {} PROVE FALSE
  BY DEF sum
<1>1. PICK S \in bad : \A V \in bad : V \subseteq S => V = S
  <2>1. bad \in SUBSET SUBSET D
    OBVIOUS
  <2> HIDE DEF bad
  <2> QED
    BY <2>1, SmallestSubset
<1>2. S \in SUBSET D /\ ~good(S)
  OBVIOUS
<1>3. \A V \in SUBSET S : V # S => good(V)
  BY <1>1, <1>2
<1>4. S # {}
  <2>1. S = {} => sum(S) = 0
    BY <1>0, <1>2
  <2> QED
    BY <1>2, <2>1
<1> DEFINE y == Pick(S)
<1>5. y \in S /\ y \in D /\ f[y] \in Nat
  BY <1>2, <1>4, PickIsIn
<1>6. sum(S) = f[y] + sum(S \ {y})
  BY <1>0, <1>2, <1>4
<1> HIDE DEF y
<1>7. good(S \ {y})
  BY <1>3, <1>5
<1>8. sum(S) \in Nat
  BY <1>5, <1>6, <1>7
<1>9. ASSUME NEW x \in S, x # y
      PROVE  sum(S) = f[x] + sum(S \ {x})
  <2>1. good(S \ {x})
    BY <1>3
  <2>2. sum(S \ {y}) = f[x] + sum((S \ {y}) \ {x})
    BY <1>7, <1>9
  <2>3. sum(S \ {x}) = f[y] + sum((S \ {x}) \ {y})
    BY <1>5, <1>9, <2>1
  <2>4. (S \ {x}) \ {y} = (S \ {y}) \ {x}
    OBVIOUS
  <2>5. good((S \ {y}) \ {x})
    BY <1>3, <1>5
  <2>6. f[x] \in Nat /\ sum((S \ {y}) \ {x}) \in Nat
    BY <1>2, <2>5
  <2> QED
    BY <1>5, <1>6, <2>2, <2>3, <2>4, <2>6
<1> QED
  BY <1>2, <1>6, <1>8, <1>9

LEMMA SumOfEqual ==
    ASSUME NEW D, IsFiniteSet(D), NEW f \in [D -> Nat], NEW g \in [D -> Nat],
           NEW T \in SUBSET D, \A x \in T : f[x] = g[x]
    PROVE  SumFunctionOnSet(f, T) = SumFunctionOnSet(g, T)
<1> DEFINE F(S) == SumFunctionOnSet(f, S)
           G(S) == SumFunctionOnSet(g, S)
           bad == {S \in SUBSET T : F(S) # G(S)}
<1>0. /\ \A S \in SUBSET D : \A x \in S : F(S) = f[x] + F(S \ {x})
      /\ \A S \in SUBSET D : \A x \in S : G(S) = g[x] + G(S \ {x})
  BY SumAdds
<1>00. F({}) = 0 /\ G({}) = 0
  BY SumUnfolds, FS_EmptySet
<1> HIDE DEF F, G
<1> SUFFICES ASSUME bad # {} PROVE FALSE
  BY DEF F, G
<1>1. PICK S \in bad : \A V \in bad : V \subseteq S => V = S
  <2>1. bad \in SUBSET SUBSET T /\ IsFiniteSet(T)
    BY FS_Subset
  <2> HIDE DEF bad
  <2> QED
    BY <2>1, SmallestSubset
<1>2. S \in SUBSET T /\ S \in SUBSET D /\ F(S) # G(S)
  OBVIOUS
<1>3. S # {}
  BY <1>00, <1>2
<1>4. PICK x \in S : TRUE
  BY <1>3
<1>5. F(S \ {x}) = G(S \ {x})
  BY <1>1, <1>2
<1>6. F(S) = f[x] + F(S \ {x}) /\ G(S) = g[x] + G(S \ {x}) /\ f[x] = g[x]
  BY <1>0, <1>2
<1> QED
  BY <1>2, <1>5, <1>6
-----------------------------------------------------------------------------
(* Calls of a model *)

USE CallsAssumption

CallSet == [phase : {"idle", "checked", "inserted", "reserving", "reserved", "rejected",
                     "aborted", "open", "ledgered", "settled", "failing", "released", "over"},
            kind : Kinds, key : Keys, todo : SUBSET Policies,
            tokens : Unreported..MaxTokens, answer : Calls \cup {NoCall}]
RowSet == [status : {"none", "RESERVED", "SETTLED", "SETTLED_INCOMPLETE", "RELEASED"}, value : 0..MaxTokens]

(* A call answers only when the provider was reached, the ledger written and *)
(* every policy settled; what it then says of itself no longer changes.      *)
AfterSettlement == {"settled", "failing", "released", "over"}
Charged(d) ==
    /\ d \in dispatched /\ ledger[d] # "none"
    /\ \A p \in Policies :
         \/ reservation[<<d, p>>].status \in {"SETTLED", "SETTLED_INCOMPLETE"}
         \/ ledger[d] = "INCOMPLETE" /\ p \in Releasing
         \/ ledger[d] # "INCOMPLETE" /\ p \in Monetary
Answers(d) == Charged(d) /\ modelCall[d].phase \in AfterSettlement

(* What the phase of a call says of its rows. *)
RequestRow(c) ==
    /\ modelCall[c].phase \in {"idle", "checked"} => request[c] = "none"
    /\ modelCall[c].phase \notin {"idle", "checked", "over"} \/ c \in dispatched => request[c] # "none"
QuotaRows(c) ==
    /\ modelCall[c].phase \in {"idle", "checked", "inserted"} =>
         \A p \in Policies : reservation[<<c, p>>] = NoReservation
    /\ modelCall[c].phase = "inserted" => modelCall[c].todo = Policies
    /\ modelCall[c].phase = "reserving" =>
         \A p \in Policies \ modelCall[c].todo : reservation[<<c, p>>].status = "RESERVED"
    /\ modelCall[c].phase \in {"reserved", "open", "ledgered"} =>
         \A p \in Policies : reservation[<<c, p>>].status = "RESERVED"
LedgerRow(c) ==
    /\ modelCall[c].phase \in {"open", "ledgered"} => c \in dispatched
    /\ modelCall[c].phase = "ledgered" =>
         ledger[c] = IF modelCall[c].tokens = Unreported THEN "INCOMPLETE" ELSE "PROVIDER_REPORTED"
    /\ modelCall[c].phase = "settled" \/ c \in snapshot => Answers(c)
CallRow(c) == RequestRow(c) /\ QuotaRows(c) /\ LedgerRow(c)

(* A transaction that has reserved on a policy holds its lock. *)
LockIsHeld(c) ==
    \A p \in Policies : Phase(c, "reserving") /\ reservation[<<c, p>>] # NoReservation => policyLock[p] = c
HasAnswer(c) == modelCall[c].answer # NoCall => Answers(modelCall[c].answer)
(* The unique index on actor and key. *)
OneRequest == \A c, d \in Calls : request[c] # "none" /\ request[d] # "none" /\ SameKey(c, d) => c = d

CallsInv ==
    /\ CallsTypeOK /\ OneRequest
    /\ \A c \in Calls : CallRow(c) /\ LockIsHeld(c) /\ HasAnswer(c)

LEMMA CallsBegin == CallsInit => CallsInv
<1> SUFFICES ASSUME CallsInit PROVE CallsInv
  OBVIOUS
<1>1. CallsTypeOK
  BY DEF CallsInit, CallsTypeOK, Idle, NoReservation, Kinds, Keys, Unreported
<1>2. ASSUME NEW c \in Calls PROVE CallRow(c) /\ LockIsHeld(c) /\ HasAnswer(c)
  BY DEF CallsInit, CallRow, RequestRow, QuotaRows, LedgerRow, LockIsHeld, HasAnswer, Idle, Phase
<1>3. OneRequest
  BY DEF CallsInit, OneRequest
<1> QED
  BY <1>1, <1>2, <1>3 DEF CallsInv

-----------------------------------------------------------------------------
(* One step: only one call moves *)

(* The step of c leaves the rows of d as they are; a snapshot may expire.    *)
Same(d) ==
    /\ modelCall'[d] = modelCall[d] /\ request'[d] = request[d] /\ ledger'[d] = ledger[d]
    /\ \A p \in Policies : reservation'[<<d, p>>] = reservation[<<d, p>>]
    /\ d \in dispatched' <=> d \in dispatched
    /\ d \in snapshot' => d \in snapshot

MovesOf(c) ==
    \/ \E kind \in Kinds, key \in Keys : CheckKey(c, kind, key)
    \/ InsertRequest(c) \/ CommitReservations(c) \/ AbortReservations(c) \/ MarkRefused(c)
    \/ \E p \in Policies : ReservePolicy(c, p)
    \/ Dispatch(c) \/ WriteLedger(c) \/ SettleQuota(c) \/ Finish(c)
    \/ Fails(c) \/ ReleaseQuota(c) \/ MarkFailed(c) \/ Abandon(c) \/ SnapshotExpires(c)

LEMMA NextMoves == CallsNext => \E c \in Calls : MovesOf(c)
BY DEF CallsNext, MovesOf

LEMMA OthersStay ==
    ASSUME CallsTypeOK, NEW c \in Calls, MovesOf(c), NEW d \in Calls, d # c
    PROVE  Same(d)
<1> USE DEF CallsTypeOK
<1>1. ASSUME NEW kind \in Kinds, NEW key \in Keys, CheckKey(c, kind, key) PROVE Same(d)
  BY <1>1 DEF CheckKey, Same
<1>2. CASE InsertRequest(c)
  BY <1>2 DEF InsertRequest, Same, CallMoves
<1>3. CASE CommitReservations(c)
  BY <1>3 DEF CommitReservations, Same, CallMoves
<1>4. CASE AbortReservations(c)
  BY <1>4 DEF AbortReservations, Same, CallMoves, RolledBack
<1>5. CASE MarkRefused(c)
  BY <1>5 DEF MarkRefused, Same, CallMoves
<1>6. ASSUME NEW p \in Policies, ReservePolicy(c, p) PROVE Same(d)
  <2>1. CASE Exhausted(c, p)
    BY <1>6, <2>1 DEF ReservePolicy, Same, CallMoves, RolledBack
  <2>2. CASE ~Exhausted(c, p)
    BY <1>6, <2>2 DEF ReservePolicy, Same
  <2> QED
    BY <2>1, <2>2
<1>7. CASE Dispatch(c)
  BY <1>7 DEF Dispatch, Same
<1>8. CASE WriteLedger(c)
  BY <1>8 DEF WriteLedger, Same, CallMoves
<1>9. CASE SettleQuota(c)
  BY <1>9 DEF SettleQuota, Same, CallMoves, Settled
<1>10. CASE Finish(c)
  BY <1>10 DEF Finish, Same, Succeeds
<1>11. CASE Fails(c)
  BY <1>11 DEF Fails, Same, CallMoves, Succeeds
<1>12. CASE ReleaseQuota(c)
  <2>1. CASE modelCall[c].kind = "stream"
    BY <1>12, <2>1 DEF ReleaseQuota, Same, CallMoves, Settled
  <2>2. CASE modelCall[c].kind # "stream"
    BY <1>12, <2>2 DEF ReleaseQuota, Same, CallMoves, Released
  <2> QED
    BY <2>1, <2>2
<1>13. CASE MarkFailed(c)
  BY <1>13 DEF MarkFailed, Same, CallMoves
<1>14. CASE Abandon(c)
  BY <1>14 DEF Abandon, Same, CallMoves, RolledBack
<1>15. CASE SnapshotExpires(c)
  BY <1>15 DEF SnapshotExpires, Same
<1> QED
  BY <1>1, <1>2, <1>3, <1>4, <1>5, <1>6, <1>7, <1>8, <1>9, <1>10, <1>11, <1>12, <1>13, <1>14, <1>15
     DEF MovesOf

-----------------------------------------------------------------------------
(* Types *)

(* The three ways in which a step writes the reservations. *)
LEMMA ReservationsForm ==
    ASSUME CallsTypeOK, NEW c \in Calls
    PROVE  /\ [r \in Calls \X Policies |-> IF r[1] = c THEN NoReservation ELSE reservation[r]]
                \in [Calls \X Policies -> RowSet]
           /\ \A incomplete \in BOOLEAN, priced \in BOOLEAN :
                Settled(c, incomplete, priced) \in [Calls \X Policies -> RowSet]
           /\ Released(c) \in [Calls \X Policies -> RowSet]
<1>1. reservation \in [Calls \X Policies -> RowSet] /\ modelCall[c].tokens \in 0..MaxTokens
  BY DEF CallsTypeOK, RowSet, Unreported
<1>2. NoReservation \in RowSet /\ [status |-> "RELEASED", value |-> 0] \in RowSet
  BY DEF NoReservation, RowSet
<1>3. \A p \in Policies, incomplete \in BOOLEAN, priced \in BOOLEAN :
        Settlement(p, incomplete, modelCall[c].tokens, priced) \in RowSet
  BY <1>1 DEF Settlement, RowSet
<1>4. \A incomplete \in BOOLEAN, priced \in BOOLEAN :
        Settled(c, incomplete, priced) \in [Calls \X Policies -> RowSet]
  BY <1>1, <1>3 DEF Settled
<1> QED
  BY <1>1, <1>2, <1>4 DEF Released

LEMMA CallForm ==
    ASSUME NEW r \in CallSet
    PROVE  /\ \A phase \in {"idle", "checked", "inserted", "reserving", "reserved", "rejected",
                     "aborted", "open", "ledgered", "settled", "failing", "released", "over"} :
                [r EXCEPT !.phase = phase] \in CallSet
           /\ \A todo \in SUBSET Policies :
                /\ [r EXCEPT !.phase = "inserted", !.todo = todo] \in CallSet
                /\ [r EXCEPT !.phase = "reserving", !.todo = todo] \in CallSet
           /\ \A tokens \in Unreported..MaxTokens : \A phase \in {"open", "failing"} :
                [r EXCEPT !.phase = phase, !.tokens = tokens] \in CallSet
           /\ \A d \in Calls : [r EXCEPT !.phase = "over", !.answer = d] \in CallSet
           /\ [r EXCEPT !.phase = "reserving"] \in CallSet
<1> HIDE CallsAssumption
<1>1. \A todo \in SUBSET Policies :
                /\ [r EXCEPT !.phase = "inserted", !.todo = todo] \in CallSet
                /\ [r EXCEPT !.phase = "reserving", !.todo = todo] \in CallSet
  BY DEF CallSet
<1>2. \A tokens \in Unreported..MaxTokens : \A phase \in {"open", "failing"} :
                [r EXCEPT !.phase = phase, !.tokens = tokens] \in CallSet
  BY DEF CallSet
<1>3. \A d \in Calls : [r EXCEPT !.phase = "over", !.answer = d] \in CallSet
  BY DEF CallSet
<1> QED
  BY <1>1, <1>2, <1>3 DEF CallSet

CallPart == modelCall' \in [Calls -> CallSet]
RequestPart == request' \in [Calls -> {"none", "AUTHORIZED", "DISPATCHED", "SUCCEEDED", "FAILED",
                                        "INCOMPLETE", "QUOTA_REJECTED"}]
QuotaPart == reservation' \in [Calls \X Policies -> RowSet]
LedgerPart == ledger' \in [Calls -> {"none", "PROVIDER_REPORTED", "INCOMPLETE"}]
LockPart == policyLock' \in [Policies -> Calls \cup {NoCall}]

LEMMA PartsMakeTypes ==
    ASSUME CallPart, RequestPart, QuotaPart, LedgerPart, LockPart,
           snapshot' \subseteq Calls, dispatched' \subseteq Calls
    PROVE  CallsTypeOK'
BY DEF CallPart, RequestPart, QuotaPart, LedgerPart, LockPart, CallsTypeOK, CallSet, RowSet

LEMMA TypesAsParts ==
    ASSUME CallsTypeOK
    PROVE  /\ modelCall \in [Calls -> CallSet]
           /\ reservation \in [Calls \X Policies -> RowSet]
BY DEF CallsTypeOK, CallSet, RowSet

LEMMA CallPartHolds ==
    ASSUME CallsTypeOK, NEW c \in Calls, MovesOf(c)
    PROVE  CallPart
<1>0. modelCall \in [Calls -> CallSet] /\ modelCall[c] \in CallSet
  BY TypesAsParts
<1>1. ASSUME NEW r \in CallSet, modelCall' = [modelCall EXCEPT ![c] = r]
      PROVE  CallPart
  BY <1>0, <1>1 DEF CallPart
<1>2. ASSUME NEW phase \in {"idle", "checked", "inserted", "reserving", "reserved", "rejected",
                     "aborted", "open", "ledgered", "settled", "failing", "released", "over"},
             CallMoves(c, phase)
      PROVE  CallPart
  BY <1>0, <1>1, <1>2, CallForm DEF CallMoves
<1>3. ASSUME NEW kind \in Kinds, NEW key \in Keys, CheckKey(c, kind, key) PROVE CallPart
  <2> DEFINE replay == {d \in Calls : Occupies(d, key) /\ request[d] = "SUCCEEDED" /\ d \in snapshot /\ kind = "chat"}
             answer == IF replay = {} THEN NoCall ELSE CHOOSE d \in replay : TRUE
  <2>1. answer \in Calls \cup {NoCall}
    OBVIOUS
  <2>2. \A a \in Calls \cup {NoCall}, phase \in {"checked", "over"} :
          [phase |-> phase, kind |-> kind, key |-> key, todo |-> {}, tokens |-> Unreported, answer |-> a] \in CallSet
    BY DEF CallSet, Unreported
  <2>3. \E phase \in {"checked", "over"}, a \in Calls \cup {NoCall} :
          modelCall' = [modelCall EXCEPT ![c] =
            [phase |-> phase, kind |-> kind, key |-> key, todo |-> {}, tokens |-> Unreported, answer |-> a]]
    <3>1. \E phase \in {"checked", "over"} :
          modelCall' = [modelCall EXCEPT ![c] =
            [phase |-> phase, kind |-> kind, key |-> key, todo |-> {}, tokens |-> Unreported, answer |-> answer]]
      BY <1>3 DEF CheckKey
    <3> HIDE DEF answer
    <3> QED
      BY <2>1, <3>1
  <2> QED
    BY <1>1, <2>2, <2>3
<1>4. CASE InsertRequest(c)
  <2>1. CASE \E d \in Calls : Occupies(d, modelCall[c].key)
    BY <1>2, <1>4, <2>1 DEF InsertRequest
  <2>2. CASE ~\E d \in Calls : Occupies(d, modelCall[c].key)
    BY <1>0, <1>1, <1>4, <2>2, CallForm DEF InsertRequest
  <2> QED
    BY <2>1, <2>2
<1>5. ASSUME NEW p \in Policies, ReservePolicy(c, p) PROVE CallPart
  <2>1. CASE Exhausted(c, p)
    BY <1>2, <1>5, <2>1 DEF ReservePolicy
  <2>2. CASE ~Exhausted(c, p)
    <3>1. modelCall[c].todo \ {p} \in SUBSET Policies
      BY <1>0 DEF CallSet
    <3> QED
      BY <1>0, <1>1, <1>5, <2>2, <3>1, CallForm DEF ReservePolicy
  <2> QED
    BY <2>1, <2>2
<1>6. CASE Dispatch(c)
  BY <1>0, <1>1, <1>6, CallForm DEF Dispatch
<1>7. CASE Finish(c)
  BY <1>0, <1>1, <1>7, CallForm DEF Finish
<1>8. CASE SnapshotExpires(c)
  BY <1>0, <1>8 DEF SnapshotExpires, CallPart
<1> QED
  BY <1>2, <1>3, <1>4, <1>5, <1>6, <1>7, <1>8
     DEF MovesOf, CommitReservations, AbortReservations, MarkRefused, WriteLedger, SettleQuota, Fails,
         ReleaseQuota, MarkFailed, Abandon

LEMMA OtherPartsHold ==
    ASSUME CallsTypeOK, NEW c \in Calls, MovesOf(c)
    PROVE  /\ RequestPart /\ QuotaPart /\ LedgerPart /\ LockPart
           /\ snapshot' \subseteq Calls /\ dispatched' \subseteq Calls
<1>1. RequestPart
  BY SMTT(20), ZenonT(40) DEF RequestPart, CallsTypeOK, MovesOf, CheckKey, InsertRequest, CommitReservations, AbortReservations,
         MarkRefused, ReservePolicy, Dispatch, WriteLedger, SettleQuota, Finish, Fails, ReleaseQuota,
         MarkFailed, Abandon, SnapshotExpires, Succeeds
<1>2. LedgerPart
  BY SMTT(20), ZenonT(40) DEF LedgerPart, CallsTypeOK, MovesOf, CheckKey, InsertRequest, CommitReservations, AbortReservations,
         MarkRefused, ReservePolicy, Dispatch, WriteLedger, SettleQuota, Finish, Fails, ReleaseQuota,
         MarkFailed, Abandon, SnapshotExpires
<1>3. LockPart
  BY SMTT(20), ZenonT(40) DEF LockPart, CallsTypeOK, MovesOf, CheckKey, InsertRequest, CommitReservations, AbortReservations,
         MarkRefused, ReservePolicy, Dispatch, WriteLedger, SettleQuota, Finish, Fails, ReleaseQuota,
         MarkFailed, Abandon, SnapshotExpires, RolledBack
<1>4. snapshot' \subseteq Calls /\ dispatched' \subseteq Calls
  BY DEF CallsTypeOK, MovesOf, CheckKey, InsertRequest, CommitReservations, AbortReservations,
         MarkRefused, ReservePolicy, Dispatch, WriteLedger, SettleQuota, Finish, Fails, ReleaseQuota,
         MarkFailed, Abandon, SnapshotExpires, Succeeds
<1>5. QuotaPart
  <2>1. reservation \in [Calls \X Policies -> RowSet] /\ Reserved \in RowSet
    BY TypesAsParts DEF Reserved, RowSet
  <2>2. RolledBack(c) => QuotaPart
    BY ReservationsForm DEF RolledBack, QuotaPart
  <2>3. UNCHANGED reservation => QuotaPart
    BY <2>1 DEF QuotaPart
  <2>4. ASSUME NEW p \in Policies, ReservePolicy(c, p) PROVE QuotaPart
    BY <2>1, <2>2, <2>4 DEF ReservePolicy, QuotaPart
  <2>5. SettleQuota(c) \/ ReleaseQuota(c) => QuotaPart
    <3>1. (modelCall[c].tokens = Unreported) \in BOOLEAN
      OBVIOUS
    <3>2. ASSUME SettleQuota(c) PROVE QuotaPart
      <4>1. PICK priced \in BOOLEAN : reservation' = Settled(c, modelCall[c].tokens = Unreported, priced)
        BY <3>2 DEF SettleQuota
      <4> DEFINE incomplete == modelCall[c].tokens = Unreported
      <4>2. incomplete \in BOOLEAN /\ reservation' = Settled(c, incomplete, priced)
        BY <3>1, <4>1
      <4> HIDE DEF incomplete
      <4> QED
        BY <4>2, ReservationsForm DEF QuotaPart
    <3>3. ReleaseQuota(c) => QuotaPart
      BY ReservationsForm DEF ReleaseQuota, QuotaPart
    <3> QED
      BY <3>2, <3>3
  <2> QED
    BY <2>2, <2>3, <2>4, <2>5
       DEF MovesOf, CheckKey, InsertRequest, CommitReservations, AbortReservations, MarkRefused, Dispatch,
           WriteLedger, Finish, Fails, MarkFailed, Abandon, SnapshotExpires
<1> QED
  BY <1>1, <1>2, <1>3, <1>4, <1>5

-----------------------------------------------------------------------------
(* The rows of the call that moves *)

LEMMA RequestRowKept ==
    ASSUME CallsTypeOK, CallsTypeOK', NEW c \in Calls, RequestRow(c), MovesOf(c)
    PROVE  RequestRow(c)'
<1> USE DEF CallsTypeOK, RequestRow, CallMoves
<1>1. ASSUME NEW kind \in Kinds, NEW key \in Keys, CheckKey(c, kind, key) PROVE RequestRow(c)'
  <2>1. modelCall'[c].phase \in {"checked", "over"} /\ Phase(c, "idle")
    BY <1>1 DEF CheckKey, Idle
  <2> QED
    BY <1>1, <2>1 DEF CheckKey, Phase
<1>2. CASE InsertRequest(c)
  <2>1. CASE \E d \in Calls : Occupies(d, modelCall[c].key)
    BY <1>2, <2>1 DEF InsertRequest, Phase
  <2>2. CASE ~\E d \in Calls : Occupies(d, modelCall[c].key)
    <3>1. modelCall'[c].phase = "inserted" /\ request'[c] # "none"
      BY <1>2, <2>2 DEF InsertRequest
    <3> QED
      BY <3>1
  <2> QED
    BY <2>1, <2>2
<1>3. ASSUME NEW p \in Policies, ReservePolicy(c, p) PROVE RequestRow(c)'
  <2>1. modelCall'[c].phase \in {"rejected", "reserving"}
    BY <1>3 DEF ReservePolicy
  <2> QED
    BY <1>3, <2>1 DEF ReservePolicy
<1>4. CASE Dispatch(c)
  <2>1. modelCall'[c].phase \in {"open", "failing"}
    BY <1>4 DEF Dispatch
  <2> QED
    BY <1>4, <2>1 DEF Dispatch, Phase
<1>5. CASE Finish(c)
  BY <1>5 DEF Finish, Phase, Succeeds
<1>6. CASE Fails(c)
  BY <1>6 DEF Fails, Phase, Succeeds
<1>7. CASE MarkRefused(c)
  BY <1>7 DEF MarkRefused, Phase
<1>8. CASE MarkFailed(c)
  BY <1>8 DEF MarkFailed, Phase
<1>9. CASE Abandon(c)
  BY <1>9 DEF Abandon, Phase
<1>10. CASE SnapshotExpires(c)
  BY <1>10 DEF SnapshotExpires
<1>11. CASE CommitReservations(c)
  BY <1>11 DEF CommitReservations, Phase
<1>12. CASE AbortReservations(c)
  BY <1>12 DEF AbortReservations, Phase
<1>13. CASE WriteLedger(c)
  BY <1>13 DEF WriteLedger, Phase
<1>14. CASE SettleQuota(c)
  BY <1>14 DEF SettleQuota, Phase
<1>15. CASE ReleaseQuota(c)
  BY <1>15 DEF ReleaseQuota, Phase
<1> QED
  BY <1>1, <1>2, <1>3, <1>4, <1>5, <1>6, <1>7, <1>8, <1>9, <1>10, <1>11, <1>12, <1>13, <1>14, <1>15
     DEF MovesOf

LEMMA QuotaRowsKept ==
    ASSUME CallsTypeOK, CallsTypeOK', NEW c \in Calls, QuotaRows(c), MovesOf(c)
    PROVE  QuotaRows(c)'
<1> USE DEF CallsTypeOK, QuotaRows, CallMoves
<1>1. ASSUME NEW kind \in Kinds, NEW key \in Keys, CheckKey(c, kind, key) PROVE QuotaRows(c)'
  <2>1. modelCall'[c].phase \in {"checked", "over"} /\ Phase(c, "idle")
    BY <1>1 DEF CheckKey, Idle
  <2> QED
    BY <1>1, <2>1 DEF CheckKey, Phase
<1>2. CASE InsertRequest(c)
  <2>1. CASE \E d \in Calls : Occupies(d, modelCall[c].key)
    BY <1>2, <2>1 DEF InsertRequest, Phase
  <2>2. CASE ~\E d \in Calls : Occupies(d, modelCall[c].key)
    <3>1. modelCall'[c].phase = "inserted" /\ modelCall'[c].todo = Policies
      BY <1>2, <2>2 DEF InsertRequest
    <3> QED
      BY <1>2, <3>1 DEF InsertRequest, Phase
  <2> QED
    BY <2>1, <2>2
<1>3. ASSUME NEW p \in Policies, ReservePolicy(c, p) PROVE QuotaRows(c)'
  <2>1. CASE Exhausted(c, p)
    BY <1>3, <2>1 DEF ReservePolicy
  <2>2. CASE ~Exhausted(c, p)
    <3>1. modelCall'[c].phase = "reserving" /\ modelCall'[c].todo = modelCall[c].todo \ {p}
      BY <1>3, <2>2 DEF ReservePolicy
    <3>2. \A q \in Policies : reservation'[<<c, q>>] = IF q = p THEN Reserved ELSE reservation[<<c, q>>]
      BY <1>3, <2>2 DEF ReservePolicy
    <3>3. \A q \in Policies \ modelCall[c].todo : reservation[<<c, q>>].status = "RESERVED"
      BY <1>3 DEF ReservePolicy
    <3> QED
      BY <3>1, <3>2, <3>3 DEF Reserved
  <2> QED
    BY <2>1, <2>2
<1>4. CASE Dispatch(c)
  <2>1. modelCall'[c].phase \in {"open", "failing"}
    BY <1>4 DEF Dispatch
  <2> QED
    BY <1>4, <2>1 DEF Dispatch, Phase
<1>5. CASE Finish(c)
  BY <1>5 DEF Finish, Phase, Succeeds
<1>6. CASE Fails(c)
  BY <1>6 DEF Fails, Phase, Succeeds
<1>7. CASE MarkRefused(c)
  BY <1>7 DEF MarkRefused, Phase
<1>8. CASE MarkFailed(c)
  BY <1>8 DEF MarkFailed, Phase
<1>9. CASE Abandon(c)
  BY <1>9 DEF Abandon, Phase
<1>10. CASE SnapshotExpires(c)
  BY <1>10 DEF SnapshotExpires
<1>11. CASE CommitReservations(c)
  BY <1>11 DEF CommitReservations, Phase
<1>12. CASE AbortReservations(c)
  BY <1>12 DEF AbortReservations, Phase
<1>13. CASE WriteLedger(c)
  BY <1>13 DEF WriteLedger, Phase
<1>14. CASE SettleQuota(c)
  BY <1>14 DEF SettleQuota, Phase
<1>15. CASE ReleaseQuota(c)
  BY <1>15 DEF ReleaseQuota, Phase
<1> QED
  BY <1>1, <1>2, <1>3, <1>4, <1>5, <1>6, <1>7, <1>8, <1>9, <1>10, <1>11, <1>12, <1>13, <1>14, <1>15
     DEF MovesOf

(* A settled reservation is never touched again. *)
LEMMA AnswersKept ==
    ASSUME CallsTypeOK, CallsTypeOK', NEW c \in Calls, MovesOf(c), Answers(c)
    PROVE  Answers(c)'
<1> USE DEF CallsTypeOK, Answers, CallMoves, AfterSettlement
<1>1. CASE Finish(c)
  BY <1>1 DEF Finish, Charged
<1>2. CASE Fails(c)
  BY <1>2 DEF Fails, Charged
<1>3. CASE ReleaseQuota(c)
  <2>1. \A p \in Policies :
          reservation[<<c, p>>].status # "RESERVED" => reservation'[<<c, p>>] = reservation[<<c, p>>]
    BY <1>3 DEF ReleaseQuota, Settled, Released
  <2>2. modelCall'[c].phase = "released" /\ UNCHANGED <<ledger, dispatched>>
    BY <1>3 DEF ReleaseQuota
  <2>3. Charged(c)'
    BY <2>1, <2>2 DEF Charged
  <2> QED
    BY <2>2, <2>3
<1>4. CASE MarkFailed(c)
  BY <1>4 DEF MarkFailed, Charged
<1>5. CASE Abandon(c)
  BY <1>5 DEF Abandon, Charged, Phase
<1>6. CASE SnapshotExpires(c)
  BY <1>6 DEF SnapshotExpires, Charged
<1> QED
  BY <1>1, <1>2, <1>3, <1>4, <1>5, <1>6
     DEF MovesOf, CheckKey, InsertRequest, CommitReservations, AbortReservations, MarkRefused, ReservePolicy,
         Dispatch, WriteLedger, SettleQuota, Phase

(* The settlement charges every policy, or says why not. *)
LEMMA SettlementCharges ==
    ASSUME CallsTypeOK, CallsTypeOK', NEW c \in Calls, QuotaRows(c), LedgerRow(c), SettleQuota(c)
    PROVE  Answers(c)'
<1>1. /\ modelCall[c].phase = "ledgered" /\ modelCall'[c].phase = "settled"
      /\ UNCHANGED <<ledger, dispatched>>
  BY DEF SettleQuota, Phase, CallMoves, CallsTypeOK
<1>2. PICK priced \in BOOLEAN : reservation' = Settled(c, modelCall[c].tokens = Unreported, priced)
  BY DEF SettleQuota
<1>3. ASSUME NEW p \in Policies
      PROVE  reservation'[<<c, p>>] = Settlement(p, modelCall[c].tokens = Unreported, modelCall[c].tokens, priced)
  BY <1>1, <1>2 DEF Settled, QuotaRows
<1>4. c \in dispatched /\ ledger[c] = IF modelCall[c].tokens = Unreported THEN "INCOMPLETE" ELSE "PROVIDER_REPORTED"
  BY <1>1 DEF LedgerRow
<1>5. ASSUME NEW p \in Policies
      PROVE  \/ reservation'[<<c, p>>].status \in {"SETTLED", "SETTLED_INCOMPLETE"}
             \/ ledger[c] = "INCOMPLETE" /\ p \in Releasing
             \/ ledger[c] # "INCOMPLETE" /\ p \in Monetary
  BY <1>3, <1>4 DEF Settlement
<1> QED
  BY <1>1, <1>4, <1>5 DEF Answers, Charged, AfterSettlement

MovesElse(c) ==
    \/ \E kind \in Kinds, key \in Keys : CheckKey(c, kind, key)
    \/ InsertRequest(c) \/ CommitReservations(c) \/ AbortReservations(c) \/ MarkRefused(c)
    \/ \E p \in Policies : ReservePolicy(c, p)
    \/ ReleaseQuota(c) \/ MarkFailed(c) \/ Abandon(c)

LEMMA MovesElseTo ==
    ASSUME CallsTypeOK, NEW c \in Calls, MovesElse(c)
    PROVE  /\ modelCall'[c].phase \notin {"open", "ledgered", "settled"}
           /\ UNCHANGED snapshot
<1> USE DEF CallsTypeOK, CallMoves
<1>1. CASE \E kind \in Kinds, key \in Keys : CheckKey(c, kind, key)
  BY <1>1 DEF CheckKey
<1>2. CASE InsertRequest(c)
  BY <1>2 DEF InsertRequest
<1>3. CASE CommitReservations(c)
  BY <1>3 DEF CommitReservations
<1>4. CASE AbortReservations(c)
  BY <1>4 DEF AbortReservations
<1>5. CASE MarkRefused(c)
  BY <1>5 DEF MarkRefused
<1>6. CASE \E p \in Policies : ReservePolicy(c, p)
  BY <1>6 DEF ReservePolicy
<1>7. CASE ReleaseQuota(c)
  BY <1>7 DEF ReleaseQuota
<1>8. CASE MarkFailed(c)
  BY <1>8 DEF MarkFailed
<1>9. CASE Abandon(c)
  BY <1>9 DEF Abandon
<1> QED
  BY <1>1, <1>2, <1>3, <1>4, <1>5, <1>6, <1>7, <1>8, <1>9 DEF MovesElse

LEMMA LedgerRowKept ==
    ASSUME CallsTypeOK, CallsTypeOK', NEW c \in Calls, QuotaRows(c), LedgerRow(c), MovesOf(c)
    PROVE  LedgerRow(c)'
<1> DEFINE Facts == /\ modelCall[c].phase \in {"open", "ledgered"} => c \in dispatched
                    /\ modelCall[c].phase = "ledgered" =>
                         ledger[c] = IF modelCall[c].tokens = Unreported THEN "INCOMPLETE" ELSE "PROVIDER_REPORTED"
           Told == modelCall[c].phase = "settled" \/ c \in snapshot
<1>1. Told' => Answers(c)'
  <2>1. CASE Told
    <3>1. Answers(c)
      BY <2>1 DEF LedgerRow
    <3> QED
      BY <3>1, AnswersKept
  <2>2. CASE ~Told
    <3>1. CASE SettleQuota(c)
      BY <3>1, SettlementCharges
    <3>2. CASE Dispatch(c)
      <4>1. modelCall'[c].phase \in {"open", "failing"} /\ UNCHANGED snapshot
        BY <3>2 DEF Dispatch, CallsTypeOK
      <4> QED
        BY <2>2, <4>1
    <3>3. CASE WriteLedger(c)
      <4>1. modelCall'[c].phase = "ledgered" /\ UNCHANGED snapshot
        BY <3>3 DEF WriteLedger, CallMoves, CallsTypeOK
      <4> QED
        BY <2>2, <4>1
    <3>4. CASE Finish(c)
      BY <2>2, <3>4 DEF Finish, Phase
    <3>5. CASE Fails(c)
      <4>1. modelCall'[c].phase = "failing" /\ UNCHANGED snapshot
        BY <2>2, <3>5 DEF Fails, Phase, CallMoves, CallsTypeOK
      <4> QED
        BY <2>2, <4>1
    <3>6. CASE SnapshotExpires(c)
      BY <2>2, <3>6 DEF SnapshotExpires
    <3>7. CASE MovesElse(c)
      BY <2>2, <3>7, MovesElseTo
    <3> QED
      BY <3>1, <3>2, <3>3, <3>4, <3>5, <3>6, <3>7 DEF MovesOf, MovesElse
  <2> QED
    BY <2>1, <2>2
<1>2. Facts'
  <2>1. Facts
    BY DEF LedgerRow
  <2>2. CASE Dispatch(c)
    <3>1. modelCall'[c].phase \in {"open", "failing"} /\ c \in dispatched'
      BY <2>2 DEF Dispatch, CallsTypeOK
    <3> QED
      BY <3>1
  <2>3. CASE WriteLedger(c)
    <3>1. /\ modelCall'[c].phase = "ledgered" /\ modelCall'[c].tokens = modelCall[c].tokens
          /\ ledger'[c] = IF modelCall[c].tokens = Unreported THEN "INCOMPLETE" ELSE "PROVIDER_REPORTED"
          /\ modelCall[c].phase = "open" /\ UNCHANGED dispatched
      BY <2>3 DEF WriteLedger, CallsTypeOK, CallMoves, Phase
    <3> QED
      BY <2>1, <3>1
  <2>4. CASE SnapshotExpires(c)
    BY <2>1, <2>4 DEF SnapshotExpires
  <2>5. CASE ~(Dispatch(c) \/ WriteLedger(c) \/ SnapshotExpires(c))
    <3>1. modelCall'[c].phase \notin {"open", "ledgered"}
      <4>1. CASE SettleQuota(c)
        BY <4>1 DEF SettleQuota, CallMoves, CallsTypeOK
      <4>2. CASE Finish(c)
        BY <4>2 DEF Finish, CallsTypeOK
      <4>3. CASE Fails(c)
        BY <4>3 DEF Fails, CallMoves, CallsTypeOK
      <4>4. CASE MovesElse(c)
        BY <4>4, MovesElseTo
      <4> QED
        BY <2>5, <4>1, <4>2, <4>3, <4>4 DEF MovesOf, MovesElse
    <3> QED
      BY <3>1
  <2> QED
    BY <2>2, <2>3, <2>4, <2>5
<1> QED
  BY <1>1, <1>2 DEF LedgerRow

LEMMA LockKept ==
    ASSUME CallsTypeOK, CallsTypeOK', NEW c \in Calls, QuotaRows(c), MovesOf(c),
           \A d \in Calls : LockIsHeld(d)
    PROVE  \A d \in Calls : LockIsHeld(d)'
<1>1. ASSUME NEW p \in Policies, ReservePolicy(c, p), ~Exhausted(c, p), NEW d \in Calls
      PROVE  LockIsHeld(d)'
  <2>1. /\ policyLock[p] = NoCall /\ policyLock' = [policyLock EXCEPT ![p] = c]
        /\ reservation' = [reservation EXCEPT ![<<c, p>>] = Reserved]
    BY <1>1 DEF ReservePolicy, Unlocked
  <2>2. CASE d = c
    <3>1. modelCall[c].phase \in {"inserted", "reserving"}
      BY <1>1 DEF ReservePolicy
    <3>2. ASSUME NEW q \in Policies, q # p, reservation'[<<c, q>>] # NoReservation
          PROVE  policyLock'[q] = c
      <4>1. reservation[<<c, q>>] # NoReservation
        BY <2>1, <3>2 DEF CallsTypeOK
      <4>2. modelCall[c].phase = "reserving"
        BY <3>1, <4>1 DEF QuotaRows
      <4> QED
        BY <2>1, <3>2, <4>1, <4>2 DEF LockIsHeld, Phase, CallsTypeOK
    <3>3. policyLock'[p] = c
      BY <2>1 DEF CallsTypeOK
    <3> QED
      BY <2>2, <3>2, <3>3 DEF LockIsHeld
  <2>3. CASE d # c
    <3>1. Same(d)
      BY <1>1, <2>3, OthersStay DEF MovesOf
    <3>2. ASSUME NEW q \in Policies, Phase(d, "reserving"), reservation[<<d, q>>] # NoReservation
          PROVE  policyLock'[q] = d
      <4>1. policyLock[q] = d /\ q # p
        BY <2>1, <3>2 DEF LockIsHeld
      <4> QED
        BY <2>1, <4>1 DEF CallsTypeOK
    <3> QED
      BY <3>1, <3>2 DEF LockIsHeld, Same, Phase
  <2> QED
    BY <2>2, <2>3
<1>2. ASSUME modelCall'[c].phase # "reserving",
             \A p \in Policies : policyLock'[p] = policyLock[p] \/ policyLock[p] = c,
             NEW d \in Calls
      PROVE  LockIsHeld(d)'
  <2>1. CASE d = c
    BY <1>2, <2>1 DEF LockIsHeld, Phase
  <2>2. CASE d # c
    <3>1. Same(d)
      BY <2>2, OthersStay
    <3> QED
      BY <1>2, <2>2, <3>1 DEF LockIsHeld, Same, Phase
  <2> QED
    BY <2>1, <2>2
<1>3. CASE UNCHANGED <<modelCall, reservation, policyLock>>
  BY <1>3 DEF LockIsHeld, Phase
<1>4. ASSUME NEW p \in Policies, ReservePolicy(c, p), Exhausted(c, p)
      PROVE  /\ modelCall'[c].phase # "reserving"
             /\ \A q \in Policies : policyLock'[q] = policyLock[q] \/ policyLock[q] = c
  BY <1>4 DEF ReservePolicy, RolledBack, CallMoves, CallsTypeOK
<1>5. CASE CommitReservations(c) \/ AbortReservations(c) \/ Abandon(c)
  <2>1. /\ modelCall'[c].phase # "reserving"
        /\ \A q \in Policies : policyLock'[q] = policyLock[q] \/ policyLock[q] = c
    BY <1>5 DEF CommitReservations, AbortReservations, Abandon, RolledBack, CallMoves, CallsTypeOK
  <2> QED
    BY <1>2, <2>1
<1>6. CASE \E kind \in Kinds, key \in Keys : CheckKey(c, kind, key)
  <2>1. modelCall'[c].phase # "reserving" /\ UNCHANGED policyLock
    BY <1>6 DEF CheckKey, CallsTypeOK
  <2> QED
    BY <1>2, <2>1
<1>7. CASE InsertRequest(c)
  <2>1. modelCall'[c].phase # "reserving" /\ UNCHANGED policyLock
    BY <1>7 DEF InsertRequest, CallMoves, CallsTypeOK
  <2> QED
    BY <1>2, <2>1
<1>8. CASE MarkRefused(c) \/ WriteLedger(c) \/ SettleQuota(c) \/ Finish(c) \/ Fails(c) \/ ReleaseQuota(c)
             \/ MarkFailed(c)
  <2>1. modelCall'[c].phase # "reserving" /\ UNCHANGED policyLock
    <3>1. CASE MarkRefused(c)
      BY <3>1 DEF MarkRefused, CallMoves, CallsTypeOK
    <3>2. CASE WriteLedger(c)
      BY <3>2 DEF WriteLedger, CallMoves, CallsTypeOK
    <3>3. CASE SettleQuota(c)
      BY <3>3 DEF SettleQuota, CallMoves, CallsTypeOK
    <3>4. CASE Finish(c)
      BY <3>4 DEF Finish, CallMoves, CallsTypeOK
    <3>5. CASE Fails(c)
      BY <3>5 DEF Fails, CallMoves, CallsTypeOK
    <3>6. CASE ReleaseQuota(c)
      BY <3>6 DEF ReleaseQuota, CallMoves, CallsTypeOK
    <3>7. CASE MarkFailed(c)
      BY <3>7 DEF MarkFailed, CallMoves, CallsTypeOK
    <3> QED
      BY <1>8, <3>1, <3>2, <3>3, <3>4, <3>5, <3>6, <3>7
  <2> QED
    BY <1>2, <2>1
<1>9. CASE Dispatch(c)
  <2>1. modelCall'[c].phase \in {"open", "failing"} /\ UNCHANGED policyLock
    BY <1>9 DEF Dispatch, CallsTypeOK
  <2> QED
    BY <1>2, <2>1
<1>10. CASE SnapshotExpires(c)
  BY <1>3, <1>10 DEF SnapshotExpires
<1> QED
  BY <1>1, <1>2, <1>4, <1>5, <1>6, <1>7, <1>8, <1>9, <1>10 DEF MovesOf

-----------------------------------------------------------------------------
(* Between calls *)

LEMMA OthersKeepTheirRow ==
    ASSUME NEW d \in Calls, CallRow(d), Same(d)
    PROVE  CallRow(d)' /\ (Answers(d) => Answers(d)')
<1> USE DEF Same
<1>1. RequestRow(d)' /\ QuotaRows(d)'
  BY DEF CallRow, RequestRow, QuotaRows
<1>2. Answers(d) => Answers(d)'
  BY DEF Answers, Charged
<1>3. LedgerRow(d)'
  BY <1>2 DEF CallRow, LedgerRow
<1> QED
  BY <1>1, <1>2, <1>3 DEF CallRow

LEMMA OneRequestKept ==
    ASSUME CallsInv, CallsTypeOK', NEW c \in Calls, MovesOf(c)
    PROVE  OneRequest'
<1> USE DEF CallsInv
<1>1. ASSUME request'[c] # "none" => request[c] # "none" /\ modelCall'[c].key = modelCall[c].key
      PROVE  OneRequest'
  <2>1. \A d \in Calls : d # c => request'[d] = request[d] /\ modelCall'[d].key = modelCall[d].key
    BY OthersStay DEF Same
  <2> QED
    BY <1>1, <2>1 DEF OneRequest, SameKey
<1>2. CASE InsertRequest(c)
  <2>1. CASE \E d \in Calls : Occupies(d, modelCall[c].key)
    <3>1. UNCHANGED request /\ modelCall'[c].key = modelCall[c].key
      BY <1>2, <2>1 DEF InsertRequest, CallMoves, CallsTypeOK
    <3> QED
      BY <1>1, <3>1
  <2>2. CASE ~\E d \in Calls : Occupies(d, modelCall[c].key)
    <3>1. \A d \in Calls : modelCall'[d].key = modelCall[d].key /\ (d # c => request'[d] = request[d])
      BY <1>2, <2>2 DEF InsertRequest, CallsTypeOK
    <3>2. \A d \in Calls : request[d] # "none" => ~(modelCall[c].key = "shared" /\ modelCall[d].key = "shared")
      BY <2>2 DEF Occupies
    <3> QED
      BY <3>1, <3>2 DEF OneRequest, SameKey
  <2> QED
    BY <2>1, <2>2
<1>3. CASE \E kind \in Kinds, key \in Keys : CheckKey(c, kind, key)
  <2>1. UNCHANGED request /\ modelCall[c].phase = "idle"
    BY <1>3 DEF CheckKey, Phase
  <2>2. request[c] = "none"
    BY <2>1 DEF CallRow, RequestRow
  <2> QED
    BY <1>1, <2>1, <2>2
<1>4. ASSUME NEW p \in Policies, ReservePolicy(c, p) PROVE OneRequest'
  <2>1. UNCHANGED request /\ modelCall'[c].key = modelCall[c].key
    BY <1>4 DEF ReservePolicy, CallMoves, CallsTypeOK
  <2> QED
    BY <1>1, <2>1
<1>5. CASE Dispatch(c) \/ CommitReservations(c) \/ AbortReservations(c) \/ WriteLedger(c) \/ SettleQuota(c)
             \/ ReleaseQuota(c) \/ Abandon(c) \/ SnapshotExpires(c)
  <2>1. UNCHANGED request /\ modelCall'[c].key = modelCall[c].key
    <3>1. CASE Dispatch(c)
      BY <3>1 DEF Dispatch, CallMoves, CallsTypeOK
    <3>2. CASE CommitReservations(c)
      BY <3>2 DEF CommitReservations, CallMoves, CallsTypeOK
    <3>3. CASE AbortReservations(c)
      BY <3>3 DEF AbortReservations, CallMoves, CallsTypeOK
    <3>4. CASE WriteLedger(c)
      BY <3>4 DEF WriteLedger, CallMoves, CallsTypeOK
    <3>5. CASE SettleQuota(c)
      BY <3>5 DEF SettleQuota, CallMoves, CallsTypeOK
    <3>6. CASE ReleaseQuota(c)
      BY <3>6 DEF ReleaseQuota, CallMoves, CallsTypeOK
    <3>7. CASE Abandon(c)
      BY <3>7 DEF Abandon, CallMoves, CallsTypeOK
    <3>8. CASE SnapshotExpires(c)
      BY <3>8 DEF SnapshotExpires, CallMoves, CallsTypeOK
    <3> QED
      BY <1>5, <3>1, <3>2, <3>3, <3>4, <3>5, <3>6, <3>7, <3>8
  <2> QED
    BY <1>1, <2>1
<1>6. CASE MarkRefused(c) \/ Finish(c) \/ Fails(c) \/ MarkFailed(c)
  <2>1. modelCall'[c].key = modelCall[c].key
    BY <1>6 DEF MarkRefused, Finish, Fails, MarkFailed, CallMoves, CallsTypeOK
  <2>2. modelCall[c].phase \notin {"idle", "checked", "over"}
    BY <1>6 DEF MarkRefused, Finish, Fails, MarkFailed, Phase
  <2>3. request[c] # "none"
    BY <2>2 DEF CallRow, RequestRow
  <2> QED
    BY <1>1, <2>1, <2>3
<1> QED
  BY <1>2, <1>3, <1>4, <1>5, <1>6 DEF MovesOf

LEMMA AnswerKept ==
    ASSUME CallsInv, CallsTypeOK', NEW c \in Calls, MovesOf(c),
           \A d \in Calls : Answers(d) => Answers(d)'
    PROVE  \A d \in Calls : HasAnswer(d)'
<1> USE DEF CallsInv
<1>0. \A d \in Calls : modelCall[d].answer \in Calls \cup {NoCall}
  BY DEF CallsTypeOK
<1>1. ASSUME NEW d \in Calls, modelCall'[d].answer = modelCall[d].answer
      PROVE  HasAnswer(d)'
  <2> DEFINE a == modelCall[d].answer
  <2>1. a # NoCall => a \in Calls /\ Answers(a)
    BY <1>0 DEF HasAnswer
  <2>2. a \in Calls /\ Answers(a) => \E x \in Calls : x = modelCall'[d].answer /\ Answers(x)'
    BY <1>1
  <2>3. ASSUME NEW x \in Calls, x = modelCall'[d].answer, Answers(x)' PROVE HasAnswer(d)'
    BY <2>3 DEF HasAnswer, Answers, Charged
  <2>4. a = NoCall => HasAnswer(d)'
    BY <1>1 DEF HasAnswer
  <2> QED
    BY <2>1, <2>2, <2>3, <2>4
<1>2. ASSUME NEW d \in Calls, d # c PROVE HasAnswer(d)'
  BY <1>1, <1>2, OthersStay DEF Same
<1>3. HasAnswer(c)'
  <2>1. ASSUME NEW kind \in Kinds, NEW key \in Keys, CheckKey(c, kind, key) PROVE HasAnswer(c)'
    <3> DEFINE replay == {d \in Calls : Occupies(d, key) /\ request[d] = "SUCCEEDED" /\ d \in snapshot /\ kind = "chat"}
               answer == IF replay = {} THEN NoCall ELSE CHOOSE d \in replay : TRUE
    <3>1. modelCall'[c].answer = answer
      BY <2>1 DEF CheckKey, CallsTypeOK
    <3>2. answer = NoCall \/ (answer \in Calls /\ answer \in snapshot)
      <4>1. replay # {} => answer \in replay
        OBVIOUS
      <4>2. replay = {} => answer = NoCall
        OBVIOUS
      <4>3. answer \in replay => answer \in Calls /\ answer \in snapshot
        <5> HIDE DEF answer
        <5> QED
          OBVIOUS
      <4> HIDE DEF answer, replay
      <4> QED
        BY <4>1, <4>2, <4>3
    <3> HIDE DEF answer
    <3>3. ASSUME NEW x \in Calls, x \in snapshot, answer = x PROVE HasAnswer(c)'
      <4>1. Answers(x)'
        BY <3>3 DEF CallRow, LedgerRow
      <4> QED
        BY <3>1, <3>3, <4>1 DEF HasAnswer, Answers, Charged
    <3> QED
      BY <3>1, <3>2, <3>3 DEF HasAnswer
  <2>2. CASE Finish(c)
    <3>1. modelCall'[c].answer = c /\ modelCall[c].phase = "settled"
      BY <2>2 DEF Finish, Phase, CallsTypeOK
    <3>2. Answers(c)'
      BY <3>1 DEF CallRow, LedgerRow
    <3> QED
      BY <3>1, <3>2 DEF HasAnswer, Answers, Charged
  <2>3. CASE InsertRequest(c)
    <3>1. modelCall'[c].answer = modelCall[c].answer
      BY <2>3 DEF InsertRequest, CallMoves, CallsTypeOK
    <3> QED
      BY <1>1, <3>1
  <2>4. ASSUME NEW p \in Policies, ReservePolicy(c, p) PROVE HasAnswer(c)'
    <3>1. modelCall'[c].answer = modelCall[c].answer
      BY <2>4 DEF ReservePolicy, CallMoves, CallsTypeOK
    <3> QED
      BY <1>1, <3>1
  <2>5. CASE Dispatch(c) \/ CommitReservations(c) \/ AbortReservations(c) \/ MarkRefused(c) \/ WriteLedger(c)
               \/ SettleQuota(c) \/ Fails(c) \/ ReleaseQuota(c) \/ MarkFailed(c) \/ Abandon(c) \/ SnapshotExpires(c)
    <3>1. modelCall'[c].answer = modelCall[c].answer
      <4>1. CASE Dispatch(c)
        BY <4>1 DEF Dispatch, CallMoves, CallsTypeOK
      <4>2. CASE CommitReservations(c)
        BY <4>2 DEF CommitReservations, CallMoves, CallsTypeOK
      <4>3. CASE AbortReservations(c)
        BY <4>3 DEF AbortReservations, CallMoves, CallsTypeOK
      <4>4. CASE MarkRefused(c)
        BY <4>4 DEF MarkRefused, CallMoves, CallsTypeOK
      <4>5. CASE WriteLedger(c)
        BY <4>5 DEF WriteLedger, CallMoves, CallsTypeOK
      <4>6. CASE SettleQuota(c)
        BY <4>6 DEF SettleQuota, CallMoves, CallsTypeOK
      <4>7. CASE Fails(c)
        BY <4>7 DEF Fails, CallMoves, CallsTypeOK
      <4>8. CASE ReleaseQuota(c)
        BY <4>8 DEF ReleaseQuota, CallMoves, CallsTypeOK
      <4>9. CASE MarkFailed(c)
        BY <4>9 DEF MarkFailed, CallMoves, CallsTypeOK
      <4>10. CASE Abandon(c)
        BY <4>10 DEF Abandon, CallMoves, CallsTypeOK
      <4>11. CASE SnapshotExpires(c)
        BY <4>11 DEF SnapshotExpires, CallMoves, CallsTypeOK
      <4> QED
        BY <2>5, <4>1, <4>2, <4>3, <4>4, <4>5, <4>6, <4>7, <4>8, <4>9, <4>10, <4>11
    <3> QED
      BY <1>1, <3>1
  <2> QED
    BY <2>1, <2>2, <2>3, <2>4, <2>5 DEF MovesOf
<1> QED
  BY <1>2, <1>3

LEMMA CallsStep == CallsInv /\ CallsNext => CallsInv'
<1> SUFFICES ASSUME CallsInv, CallsNext PROVE CallsInv'
  OBVIOUS
<1>0. PICK c \in Calls : MovesOf(c)
  BY NextMoves
<1>1. CallsTypeOK /\ CallsTypeOK'
  BY <1>0, CallPartHolds, OtherPartsHold, PartsMakeTypes DEF CallsInv
<1>2. \A d \in Calls : CallRow(d) /\ LockIsHeld(d) /\ HasAnswer(d)
  BY DEF CallsInv
<1>3. CallRow(c)' /\ (Answers(c) => Answers(c)')
  BY <1>0, <1>1, <1>2, RequestRowKept, QuotaRowsKept, LedgerRowKept, AnswersKept DEF CallRow
<1>4. \A d \in Calls : CallRow(d)' /\ (Answers(d) => Answers(d)')
  BY <1>0, <1>1, <1>2, <1>3, OthersStay, OthersKeepTheirRow
<1>5. \A d \in Calls : LockIsHeld(d)'
  BY <1>0, <1>1, <1>2, LockKept DEF CallRow
<1>6. OneRequest'
  BY <1>0, <1>1, OneRequestKept
<1>7. \A d \in Calls : HasAnswer(d)'
  BY <1>0, <1>1, <1>4, AnswerKept
<1> QED
  BY <1>1, <1>4, <1>5, <1>6, <1>7 DEF CallsInv

-----------------------------------------------------------------------------
(* What the callers rely on *)

LEMMA CallsKeep == CallsSpec => []CallsInv
<1>1. CallsInv /\ UNCHANGED callVars => CallsInv'
  <2> SUFFICES ASSUME CallsInv, UNCHANGED callVars PROVE CallsInv'
    OBVIOUS
  <2>0. UNCHANGED <<modelCall, request, reservation, ledger, snapshot, policyLock, dispatched>>
    BY DEF callVars
  <2>1. CallsTypeOK' /\ OneRequest'
    BY <2>0 DEF CallsInv, CallsTypeOK, OneRequest, SameKey
  <2>2. ASSUME NEW c \in Calls PROVE CallRow(c)' /\ LockIsHeld(c)' /\ HasAnswer(c)'
    <3>1. Same(c)
      BY <2>0 DEF Same
    <3>2. CallRow(c)'
      BY <3>1, OthersKeepTheirRow DEF CallsInv
    <3>3. LockIsHeld(c)' /\ HasAnswer(c)'
      BY <2>0 DEF CallsInv, LockIsHeld, HasAnswer, Phase, Answers, Charged
    <3> QED
      BY <3>2, <3>3
  <2> QED
    BY <2>1, <2>2 DEF CallsInv
<1> QED
  BY <1>1, CallsBegin, CallsStep, PTL DEF CallsSpec

LEMMA OneIsDispatched == CallsInv => OneDispatchPerKey
BY DEF CallsInv, CallsTypeOK, OneRequest, OneDispatchPerKey, CallRow, RequestRow

LEMMA AnswersAreThere == CallsInv => AnswersAreCharged
<1> SUFFICES ASSUME CallsInv, NEW c \in Calls, modelCall[c].answer # NoCall
             PROVE  Charged(modelCall[c].answer)
  BY DEF AnswersAreCharged, Charged
<1> QED
  BY DEF CallsInv, HasAnswer, Answers

(* Whoever takes a unit of a policy saw all that were taken: those that have *)
(* not committed hold the lock of the policy, and it is free.                *)
LEMMA RoomWasLeft ==
    ASSUME CallsInv, NEW c \in Calls, NEW p \in Hard, ReservePolicy(c, p), ~Exhausted(c, p),
           reservation[<<c, p>>] = NoReservation
    PROVE  TotalOf(p)' <= Limit
<1> DEFINE Seen == {d \in Calls : Visible(c, d) /\ reservation[<<d, p>>].status \in Counted}
           There == {d \in Calls : reservation'[<<d, p>>].status \in Counted}
           was == ValueOn(p)
           is == [d \in Calls |-> reservation'[<<d, p>>].value]
<1>0. p \in Policies /\ IsFiniteSet(Calls)
  OBVIOUS
<1>1. /\ policyLock[p] = NoCall
      /\ reservation' = [reservation EXCEPT ![<<c, p>>] = Reserved]
  BY DEF ReservePolicy, Unlocked
<1>2. reservation \in [Calls \X Policies -> RowSet]
  BY TypesAsParts DEF CallsInv
<1>3. was \in [Calls -> Nat]
  BY <1>0, <1>2 DEF RowSet, ValueOn
<1>4. is \in [Calls -> Nat] /\ is[c] = 1 /\ \A d \in Calls \ {c} : is[d] = was[d]
  <2>1. \A d \in Calls : reservation'[<<d, p>>] = IF d = c THEN Reserved ELSE reservation[<<d, p>>]
    BY <1>0, <1>1, <1>2
  <2>2. Reserved.value = 1
    BY DEF Reserved
  <2>3. \A d \in Calls : is[d] = IF d = c THEN 1 ELSE was[d]
    BY <2>1, <2>2 DEF ValueOn
  <2> HIDE DEF was
  <2> QED
    BY <1>3, <2>3
<1>5. There = Seen \cup {c} /\ c \notin Seen
  <2>1. c \notin Seen
    BY DEF NoReservation, Counted
  <2>2. c \in There
    BY <1>0, <1>1, <1>2 DEF Reserved, Counted
  <2>3. ASSUME NEW d \in Calls, d # c PROVE d \in There <=> d \in Seen
    <3>1. reservation'[<<d, p>>] = reservation[<<d, p>>]
      BY <1>0, <1>1, <1>2, <2>3
    <3>2. ASSUME reservation[<<d, p>>].status \in Counted PROVE Visible(c, d)
      <4>1. reservation[<<d, p>>] # NoReservation
        BY <3>2 DEF NoReservation, Counted
      <4>2. ~Phase(d, "reserving")
        BY <1>0, <1>1, <4>1 DEF CallsInv, LockIsHeld
      <4> QED
        BY <4>2 DEF Visible
    <3> QED
      BY <3>1, <3>2
  <2> QED
    BY <2>1, <2>2, <2>3
<1> HIDE DEF Seen, There, was, is
<1>6. Seen \in SUBSET Calls /\ There \in SUBSET Calls /\ There \ {c} = Seen /\ c \in There
  BY <1>5 DEF Seen, There
<1>7. SumFunctionOnSet(is, There) = 1 + SumFunctionOnSet(is, Seen)
  BY <1>0, <1>4, <1>6, SumAdds
<1>8. SumFunctionOnSet(is, Seen) = SumFunctionOnSet(was, Seen)
  <2>1. \A d \in Seen : is[d] = was[d]
    BY <1>4, <1>5, <1>6
  <2> QED
    BY <1>0, <1>3, <1>4, <1>6, <2>1, SumOfEqual
<1>9. SumFunctionOnSet(was, Seen) \in Nat
  BY <1>0, <1>3, <1>6, SumAdds
<1>10. ~(SumFunctionOnSet(was, Seen) + 1 > Limit)
  BY DEF Exhausted, TotalSeen, was, Seen
<1>11. TotalOf(p)' = SumFunctionOnSet(is, There)
  BY DEF TotalOf, ValueOn, is, There
<1> QED
  BY <1>7, <1>8, <1>9, <1>10, <1>11

LEMMA OnlyReservationsAppear ==
    ASSUME CallsInv, CallsNext, NEW c \in Calls, NEW p \in Hard,
           reservation[<<c, p>>] = NoReservation, reservation'[<<c, p>>] # NoReservation
    PROVE  ReservePolicy(c, p) /\ ~Exhausted(c, p)
<1>1. PICK x \in Calls : MovesOf(x)
  BY NextMoves
<1>2. CallsTypeOK /\ p \in Policies
  BY DEF CallsInv
<1>3. x = c
  BY <1>1, <1>2, OthersStay DEF Same
<1>4. ~RolledBack(c) /\ ~UNCHANGED reservation
  BY <1>2 DEF RolledBack
<1>5. reservation[<<c, p>>].status # "RESERVED"
  BY DEF NoReservation
<1>6. ~SettleQuota(c) /\ ~ReleaseQuota(c)
  BY <1>2, <1>5 DEF SettleQuota, ReleaseQuota, Settled, Released
<1>7. PICK q \in Policies : ReservePolicy(c, q)
  BY <1>1, <1>3, <1>4, <1>6
     DEF MovesOf, CheckKey, InsertRequest, CommitReservations, AbortReservations, MarkRefused, Dispatch,
         WriteLedger, Finish, Fails, MarkFailed, Abandon, SnapshotExpires
<1>8. ~Exhausted(c, q)
  BY <1>4, <1>7 DEF ReservePolicy
<1>9. reservation' = [reservation EXCEPT ![<<c, q>>] = Reserved]
  BY <1>7, <1>8 DEF ReservePolicy
<1>10. q = p
  BY <1>2, <1>9 DEF CallsTypeOK
<1> QED
  BY <1>7, <1>8, <1>10

(* Model calls: a key reaches the provider once, an answer is charged to      *)
(* every quota that counts it, and no unit of a hard quota is given twice, by *)
(* however many calls at once and wherever one of them stops.                 *)
THEOREM ModelCallsAreGoverned == CallsSpec => ModelCallsHold
<1> DEFINE Room == \A c \in Calls, p \in Hard :
                     reservation[<<c, p>>] = NoReservation /\ reservation'[<<c, p>>] # NoReservation
                       => TotalOf(p)' <= Limit
<1>1. CallsInv /\ CallsNext => Room
  BY OnlyReservationsAppear, RoomWasLeft
<1>2. CallsSpec => HardQuotaHolds
  <2>1. CallsInv /\ [CallsNext]_callVars => [Room]_callVars
    BY <1>1
  <2>2. HardQuotaHolds <=> [][Room]_callVars
    BY DEF HardQuotaHolds
  <2> HIDE DEF Room
  <2> QED
    BY <2>1, <2>2, CallsKeep, PTL DEF CallsSpec
<1>3. CallsSpec => []OneDispatchPerKey /\ []AnswersAreCharged
  BY CallsKeep, OneIsDispatched, AnswersAreThere, PTL
<1> QED
  BY <1>2, <1>3 DEF ModelCallsHold

HIDE CallsAssumption
-----------------------------------------------------------------------------
(* Induction up to a bound, stated over a set of numbers *)

LEMMA BoundedInduction ==
    ASSUME NEW n \in Nat, NEW B \in SUBSET (0..n), 0 \in B, \A k \in 0..(n - 1) : k \in B => k + 1 \in B
    PROVE  B = 0..n
<1> DEFINE Left == {0..k : k \in (0..n) \ B}
<1> SUFFICES ASSUME Left # {} PROVE FALSE
  OBVIOUS
<1> DEFINE S == 0..n
<1>1. IsFiniteSet(S) /\ Left \in SUBSET SUBSET S
  <2>1. IsFiniteSet(0..n)
    BY FS_Interval
  <2>2. \A k \in 0..n : 0..k \in SUBSET (0..n)
    OBVIOUS
  <2> QED
    BY <2>1, <2>2
<1>2. PICK T \in Left : \A U \in Left : U \subseteq T => U = T
  <2> HIDE DEF Left, S
  <2> QED
    BY <1>1, SmallestSubset
<1>3. PICK k \in (0..n) \ B : T = 0..k
  BY <1>2
<1>4. k - 1 \in 0..(n - 1) /\ k - 1 \notin B
  BY <1>3
<1>5. 0..(k - 1) \in Left
  BY <1>4
<1>6. 0..(k - 1) \subseteq T /\ k \in T /\ k \notin 0..(k - 1)
  BY <1>3, <1>4
<1> HIDE DEF Left
<1> QED
  BY <1>2, <1>5, <1>6

-----------------------------------------------------------------------------
(* The tree of units and its closure *)

USE OrganizationAssumption

UnitSet == [status : {"none", "ACTIVE", "RETIRED"}, parent : Units \cup {Null}]
Height == Cardinality(Units)
AboveStep(tree, g) ==
    [k \in 0..Height |->
       IF k = 0 THEN {<<u, u>> : u \in Living(tree)}
       ELSE {<<tree[e[1]].parent, e[2]>> : e \in {f \in g[k - 1] : f[1] \in Living(tree)
                                                        /\ tree[f[1]].parent # Null}}]

LEMMA HeightIsNatural == Height \in Nat
BY FS_CardinalityType DEF Height

(* The walk upwards, one step at a time. *)
LEMMA AboveUnfolds == ASSUME NEW tree PROVE Above(tree) = AboveStep(tree, Above(tree))
<1> DEFINE S(k) == {<<u, u>> : u \in Living(tree)}
           Next1(E) == {<<tree[e[1]].parent, e[2]>> : e \in {f \in E : f[1] \in Living(tree)
                                                        /\ tree[f[1]].parent # Null}}
           Upto(k, g) == g = [i \in 0..k |-> IF i = 0 THEN S(0) ELSE Next1(g[i - 1])]
           B == {k \in 0..Height : \E g : Upto(k, g)}
<1>0. Height \in Nat
  BY HeightIsNatural
<1> HIDE DEF S, Next1
<1>1. 0 \in B
  <2> DEFINE g == [i \in 0..0 |-> S(0)]
  <2>1. Upto(0, g)
    OBVIOUS
  <2> HIDE DEF g, Upto
  <2> QED
    BY <1>0, <2>1
<1>2. ASSUME NEW k \in 0..(Height - 1), k \in B PROVE k + 1 \in B
  <2>1. PICK g : Upto(k, g)
    BY <1>2
  <2> DEFINE h == [i \in 0..(k + 1) |-> IF i = k + 1 THEN Next1(g[k]) ELSE g[i]]
  <2>2. k \in Nat /\ k + 1 \in 0..Height
    BY <1>0
  <2>3. \A i \in 0..(k + 1) : h[i] = IF i = 0 THEN S(0) ELSE Next1(h[i - 1])
    <3>1. ASSUME NEW i \in 0..k PROVE h[i] = IF i = 0 THEN S(0) ELSE Next1(h[i - 1])
      <4>1. h[i] = g[i] /\ (i # 0 => h[i - 1] = g[i - 1])
        BY <2>2
      <4>2. g[i] = IF i = 0 THEN S(0) ELSE Next1(g[i - 1])
        BY <2>1
      <4> QED
        BY <4>1, <4>2
    <3>2. h[k + 1] = Next1(h[k])
      BY <2>2
    <3>3. \A i \in 0..(k + 1) : i \in 0..k \/ i = k + 1
      BY <2>2
    <3>4. k + 1 # 0 /\ (k + 1) - 1 = k
      BY <2>2
    <3> HIDE DEF h
    <3> QED
      BY <3>1, <3>2, <3>3, <3>4
  <2>4. Upto(k + 1, h)
    <3>1. h = [i \in 0..(k + 1) |-> h[i]]
      OBVIOUS
    <3> HIDE DEF h
    <3> QED
      BY <2>3, <3>1
  <2> HIDE DEF h, Upto
  <2> QED
    BY <2>2, <2>4
<1>3. B = 0..Height
  <2> HIDE DEF B
  <2>1. B \in SUBSET (0..Height)
    BY DEF B
  <2> QED
    BY <1>0, <1>1, <1>2, <2>1, BoundedInduction
<1>4. \E g : Upto(Height, g)
  <2>1. Height \in B
    <3> HIDE DEF B
    <3> QED
      BY <1>0, <1>3
  <2> QED
    BY <2>1
<1>5. \A g : Upto(Height, g) <=> g = AboveStep(tree, g)
  BY DEF AboveStep, S, Next1
<1>6. Above(tree) = CHOOSE g : g = AboveStep(tree, g)
  BY DEF Above, AboveStep, Height
<1> HIDE DEF Upto
<1> QED
  BY <1>4, <1>5, <1>6

(* There is a walk of k steps from d up to a. *)
Walk(tree, k, a, d) == <<a, d>> \in Above(tree)[k]
Sound(tree) == tree \in [Units -> UnitSet] /\ ~MissingParent(tree) /\ ~Cyclic(tree)

LEMMA WalksStayInTree ==
    ASSUME NEW tree, Sound(tree)
    PROVE  \A k \in 0..Height : Above(tree)[k] \subseteq Living(tree) \X Living(tree)
<1> DEFINE L == Living(tree)
           B == {k \in 0..Height : Above(tree)[k] \subseteq L \X L}
<1>0. Height \in Nat
  BY HeightIsNatural
<1>1. \A k \in 0..Height : Above(tree)[k] = AboveStep(tree, Above(tree))[k]
  BY AboveUnfolds
<1>2. 0 \in B
  <2>1. AboveStep(tree, Above(tree))[0] = {<<u, u>> : u \in L}
    BY <1>0 DEF AboveStep
  <2>2. Above(tree)[0] \subseteq L \X L
    BY <1>0, <1>1, <2>1
  <2> QED
    BY <1>0, <2>2
<1>3. ASSUME NEW k \in 0..(Height - 1), k \in B PROVE k + 1 \in B
  <2>1. k + 1 \in 0..Height /\ k + 1 # 0 /\ (k + 1) - 1 = k
    BY <1>0
  <2>2. Above(tree)[k + 1] = {<<tree[e[1]].parent, e[2]>> : e \in {f \in Above(tree)[k] :
                                  f[1] \in L /\ tree[f[1]].parent # Null}}
    BY <1>1, <2>1 DEF AboveStep
  <2>3. \A x \in L : tree[x].parent # Null => tree[x].parent \in L
    BY DEF Sound, MissingParent
  <2>4. Above(tree)[k] \subseteq L \X L
    BY <1>3
  <2> HIDE DEF L
  <2> QED
    BY <2>1, <2>2, <2>3, <2>4
<1> HIDE DEF B
<1>4. B \in SUBSET (0..Height)
  BY DEF B
<1>5. B = 0..Height
  BY <1>0, <1>2, <1>3, <1>4, BoundedInduction
<1> QED
  BY <1>5 DEF B

(* A walk starts where it is, and goes on at its upper end ... *)
LEMMA WalkGoesUp ==
    ASSUME NEW tree, Sound(tree), NEW a \in Units, NEW d \in Units
    PROVE  /\ Walk(tree, 0, a, d) <=> a = d /\ d \in Living(tree)
           /\ \A k \in 0..(Height - 1) :
                Walk(tree, k + 1, a, d) <=>
                  /\ a \in Living(tree)
                  /\ \E y \in Living(tree) : Walk(tree, k, y, d) /\ tree[y].parent = a
<1> DEFINE L == Living(tree)
<1>0. Height \in Nat
  BY HeightIsNatural
<1>1. \A k \in 0..Height : Above(tree)[k] = AboveStep(tree, Above(tree))[k]
  BY AboveUnfolds
<1>2. Walk(tree, 0, a, d) <=> a = d /\ d \in L
  <2>1. Above(tree)[0] = {<<u, u>> : u \in L}
    <3>1. AboveStep(tree, Above(tree))[0] = {<<u, u>> : u \in L}
      BY <1>0 DEF AboveStep
    <3> QED
      BY <1>0, <1>1, <3>1
  <2> QED
    BY <2>1 DEF Walk
<1>3. ASSUME NEW k \in 0..(Height - 1)
      PROVE  Walk(tree, k + 1, a, d) <=> a \in L /\ \E y \in L : Walk(tree, k, y, d) /\ tree[y].parent = a
  <2>1. k + 1 \in 0..Height /\ k \in 0..Height /\ k + 1 # 0 /\ (k + 1) - 1 = k
    BY <1>0
  <2>2. Above(tree)[k + 1] = {<<tree[e[1]].parent, e[2]>> : e \in {f \in Above(tree)[k] :
                                  f[1] \in L /\ tree[f[1]].parent # Null}}
    BY <1>1, <2>1 DEF AboveStep
  <2>3. \A x \in L : tree[x].parent # Null => tree[x].parent \in L
    BY DEF Sound, MissingParent
  <2>4. Above(tree)[k] \subseteq L \X L /\ Null \notin L
    BY <2>1, WalksStayInTree DEF Living
  <2> HIDE DEF L
  <2>5. ASSUME Walk(tree, k + 1, a, d)
        PROVE  a \in L /\ \E y \in L : Walk(tree, k, y, d) /\ tree[y].parent = a
    <3>1. PICK e \in Above(tree)[k] : /\ e[1] \in L /\ tree[e[1]].parent # Null
                                      /\ a = tree[e[1]].parent /\ d = e[2]
      BY <2>2, <2>5 DEF Walk
    <3>2. e = <<e[1], d>>
      BY <2>4, <3>1
    <3> QED
      BY <2>3, <3>1, <3>2 DEF Walk
  <2>6. ASSUME a \in L, NEW y \in L, Walk(tree, k, y, d), tree[y].parent = a
        PROVE  Walk(tree, k + 1, a, d)
    <3> DEFINE e == <<y, d>>
    <3>1. e \in Above(tree)[k] /\ e[1] = y /\ e[2] = d
      BY <2>6 DEF Walk
    <3> HIDE DEF e
    <3> QED
      BY <2>2, <2>4, <2>6, <3>1 DEF Walk
  <2> QED
    BY <2>5, <2>6
<1> QED
  BY <1>2, <1>3

LEMMA WalkEnds ==
    ASSUME NEW tree, Sound(tree), NEW k \in 0..Height, NEW a, NEW d, Walk(tree, k, a, d)
    PROVE  a \in Living(tree) /\ d \in Living(tree) /\ a \in Units /\ d \in Units /\ Null \notin Living(tree)
BY WalksStayInTree DEF Walk, Living

(* ... or at its lower end. *)
LEMMA WalkGoesDown ==
    ASSUME NEW tree, Sound(tree)
    PROVE  \A k \in 0..(Height - 1), a \in Living(tree), d \in Living(tree) :
             Walk(tree, k + 1, a, d) <=> tree[d].parent \in Living(tree) /\ Walk(tree, k, a, tree[d].parent)
<1> DEFINE L == Living(tree)
           Good(k) == \A a \in L, d \in L :
                        Walk(tree, k + 1, a, d) <=> tree[d].parent \in L /\ Walk(tree, k, a, tree[d].parent)
           B == {k \in 0..(Height - 1) : Good(k)}
<1>0. Height \in Nat /\ L \subseteq Units
  BY HeightIsNatural DEF Living
<1>1. CASE Height = 0
  BY <1>1
<1>2. CASE Height # 0
  <2>0. Height - 1 \in Nat /\ 0 \in 0..(Height - 1)
    BY <1>0, <1>2
  <2> HIDE DEF L
  <2>1. Good(0)
    <3> SUFFICES ASSUME NEW a \in L, NEW d \in L
                 PROVE  Walk(tree, 0 + 1, a, d) <=> tree[d].parent \in L /\ Walk(tree, 0, a, tree[d].parent)
      OBVIOUS
    <3>1. Walk(tree, 0 + 1, a, d) <=> \E y \in L : Walk(tree, 0, y, d) /\ tree[y].parent = a
      BY <1>0, <2>0, WalkGoesUp DEF L
    <3>2. \A y \in L : Walk(tree, 0, y, d) <=> y = d
      BY <1>0, WalkGoesUp DEF L
    <3>3. tree[d].parent \in L => (Walk(tree, 0, a, tree[d].parent) <=> a = tree[d].parent)
      BY <1>0, WalkGoesUp DEF L
    <3> QED
      BY <3>1, <3>2, <3>3
  <2>2. ASSUME NEW k \in 0..((Height - 1) - 1), Good(k) PROVE Good(k + 1)
    <3>0. k \in 0..(Height - 1) /\ k + 1 \in 0..(Height - 1)
      BY <2>0
    <3> SUFFICES ASSUME NEW a \in L, NEW d \in L
                 PROVE  Walk(tree, (k + 1) + 1, a, d) <=> tree[d].parent \in L /\ Walk(tree, k + 1, a, tree[d].parent)
      OBVIOUS
    <3>1. Walk(tree, (k + 1) + 1, a, d) <=> \E y \in L : Walk(tree, k + 1, y, d) /\ tree[y].parent = a
      BY <1>0, <3>0, WalkGoesUp DEF L
    <3>2. \A y \in L : Walk(tree, k + 1, y, d) <=> tree[d].parent \in L /\ Walk(tree, k, y, tree[d].parent)
      BY <2>2
    <3>3. tree[d].parent \in L =>
            (Walk(tree, k + 1, a, tree[d].parent) <=> \E y \in L : Walk(tree, k, y, tree[d].parent) /\ tree[y].parent = a)
      BY <1>0, <3>0, WalkGoesUp DEF L
    <3> QED
      BY <3>1, <3>2, <3>3
  <2>3. 0 \in B /\ B \in SUBSET (0..(Height - 1))
    BY <2>0, <2>1
  <2>4. \A k \in 0..((Height - 1) - 1) : k \in B => k + 1 \in B
    <3> HIDE DEF Good
    <3>1. \A k \in 0..((Height - 1) - 1) : k + 1 \in 0..(Height - 1)
      BY <2>0
    <3> QED
      BY <2>2, <3>1
  <2> HIDE DEF B
  <2>5. B = 0..(Height - 1)
    BY <2>0, <2>3, <2>4, BoundedInduction
  <2> QED
    BY <2>5 DEF B, L
<1> QED
  BY <1>1, <1>2

(* No walk is as long as the tree is high. *)
LEMMA WalksAreShort ==
    ASSUME NEW tree, Sound(tree), NEW a, NEW d
    PROVE  ~Walk(tree, Height, a, d)
<1> DEFINE N == Cardinality(Living(tree))
           B == {k \in 0..(Height - N) : Above(tree)[N + k] = {}}
<1>0. Height \in Nat /\ N \in Nat /\ N <= Height
  BY HeightIsNatural, FS_Subset, FS_CardinalityType DEF Living, Height
<1>1. \A k \in 0..Height : Above(tree)[k] = AboveStep(tree, Above(tree))[k]
  BY AboveUnfolds
<1>2. Above(tree)[N] = {}
  BY DEF Sound, Cyclic
<1> HIDE DEF N
<1>3. 0 \in B /\ Height - N \in Nat /\ B \in SUBSET (0..(Height - N))
  BY <1>0, <1>2
<1>4. ASSUME NEW k \in 0..((Height - N) - 1), k \in B PROVE k + 1 \in B
  <2>1. /\ N + (k + 1) \in 0..Height /\ N + (k + 1) # 0 /\ (N + (k + 1)) - 1 = N + k
        /\ k + 1 \in 0..(Height - N)
    BY <1>0
  <2>2. Above(tree)[N + k] = {}
    BY <1>4
  <2>3. Above(tree)[N + (k + 1)] = {}
    BY <1>1, <2>1, <2>2 DEF AboveStep
  <2> QED
    BY <2>1, <2>3
<1>5. B = 0..(Height - N)
  <2> HIDE DEF B
  <2> QED
    BY <1>3, <1>4, BoundedInduction
<1>6. Height - N \in B /\ N + (Height - N) = Height
  <2> HIDE DEF B
  <2> QED
    BY <1>0, <1>3, <1>5
<1> QED
  BY <1>6 DEF Walk

(* The closure holds exactly the walks. *)
LEMMA RebuiltIsWalks ==
    ASSUME NEW tree, NEW a, NEW d
    PROVE  <<a, d>> \in Rebuilt(tree) <=> \E k \in 0..Height : Walk(tree, k, a, d)
BY DEF Rebuilt, Walk, Height

LEMMA ClosureIsRecursive ==
    ASSUME NEW tree, Sound(tree), NEW a \in Units, NEW d \in Units
    PROVE  <<a, d>> \in Rebuilt(tree) <=>
             d \in Living(tree) /\ (a = d \/ <<a, tree[d].parent>> \in Rebuilt(tree))
<1> DEFINE L == Living(tree)
           p == tree[d].parent
<1>0. Height \in Nat
  BY HeightIsNatural
<1>1. ASSUME NEW k \in 0..Height, Walk(tree, k, a, d), a # d
      PROVE  d \in L /\ \E j \in 0..Height : Walk(tree, j, a, p)
  <2>1. a \in L /\ d \in L
    BY <1>1, WalkEnds
  <2>2. k # 0
    BY <1>1, WalkGoesUp
  <2>3. k - 1 \in 0..(Height - 1) /\ (k - 1) + 1 = k /\ k - 1 \in 0..Height
    BY <1>0, <2>2
  <2>4. Walk(tree, (k - 1) + 1, a, d)
    BY <1>1, <2>3
  <2>5. Walk(tree, k - 1, a, p)
    BY <2>1, <2>3, <2>4, WalkGoesDown
  <2> QED
    BY <2>1, <2>3, <2>5
<1>2. ASSUME d \in L, NEW j \in 0..Height, Walk(tree, j, a, p)
      PROVE  \E k \in 0..Height : Walk(tree, k, a, d)
  <2>1. a \in L /\ p \in L
    BY <1>2, WalkEnds
  <2>2. j # Height
    BY <1>2, WalksAreShort
  <2>3. j \in 0..(Height - 1) /\ j + 1 \in 0..Height
    BY <1>0, <2>2
  <2>4. Walk(tree, j + 1, a, d)
    BY <1>2, <2>1, <2>3, WalkGoesDown
  <2> QED
    BY <2>3, <2>4
<1>3. d \in L /\ a = d => Walk(tree, 0, a, d) /\ 0 \in 0..Height
  BY <1>0, WalkGoesUp
<1>4. ASSUME NEW k \in 0..Height, Walk(tree, k, a, d) PROVE d \in L
  BY <1>4, WalkEnds
<1> HIDE DEF L, p
<1>5. /\ <<a, d>> \in Rebuilt(tree) <=> \E k \in 0..Height : Walk(tree, k, a, d)
      /\ <<a, p>> \in Rebuilt(tree) <=> \E k \in 0..Height : Walk(tree, k, a, p)
  BY RebuiltIsWalks
<1>6. <<a, d>> \in Rebuilt(tree) <=> d \in L /\ (a = d \/ <<a, p>> \in Rebuilt(tree))
  BY <1>1, <1>2, <1>3, <1>4, <1>5
<1> QED
  BY <1>6 DEF L, p

LEMMA ClosureInTree ==
    ASSUME NEW tree, Sound(tree), NEW a, NEW d, <<a, d>> \in Rebuilt(tree)
    PROVE  a \in Living(tree) /\ d \in Living(tree) /\ a \in Units /\ d \in Units
BY RebuiltIsWalks, WalkEnds

LEMMA ClosureIsTransitive ==
    ASSUME NEW tree, Sound(tree), NEW a \in Units, NEW b \in Units, NEW d \in Units,
           <<b, a>> \in Rebuilt(tree), <<a, d>> \in Rebuilt(tree)
    PROVE  <<b, d>> \in Rebuilt(tree)
<1> DEFINE L == Living(tree)
           Good(k) == \A y \in L : Walk(tree, k, a, y) => <<b, y>> \in Rebuilt(tree)
           B == {k \in 0..Height : Good(k)}
<1>0. Height \in Nat /\ L \subseteq Units
  BY HeightIsNatural DEF Living
<1> HIDE DEF L
<1>1. Good(0)
  BY <1>0, WalkGoesUp DEF L
<1>2. ASSUME NEW k \in 0..(Height - 1), Good(k) PROVE Good(k + 1)
  <2> SUFFICES ASSUME NEW y \in L, Walk(tree, k + 1, a, y) PROVE <<b, y>> \in Rebuilt(tree)
    OBVIOUS
  <2>1. a \in L
    BY ClosureInTree DEF L
  <2>2. tree[y].parent \in L /\ Walk(tree, k, a, tree[y].parent)
    BY <2>1, WalkGoesDown DEF L
  <2>3. <<b, tree[y].parent>> \in Rebuilt(tree)
    BY <1>2, <2>2
  <2> QED
    BY <1>0, <2>3, ClosureIsRecursive DEF L
<1>3. B = 0..Height
  <2>1. 0 \in B /\ B \in SUBSET (0..Height)
    BY <1>0, <1>1
  <2>2. \A k \in 0..(Height - 1) : k \in B => k + 1 \in B
    <3> HIDE DEF Good
    <3>1. \A k \in 0..(Height - 1) : k + 1 \in 0..Height
      BY <1>0
    <3> QED
      BY <1>2, <3>1
  <2> HIDE DEF B
  <2> QED
    BY <1>0, <2>1, <2>2, BoundedInduction
<1>4. PICK k \in 0..Height : Walk(tree, k, a, d)
  BY RebuiltIsWalks
<1>5. k \in B /\ d \in L
  <2> HIDE DEF B
  <2> QED
    BY <1>3, ClosureInTree DEF L
<1> QED
  BY <1>4, <1>5

(* Two units above each other would make a walk without end. *)
LEMMA ClosureHasNoCycle ==
    ASSUME NEW tree, Sound(tree), NEW a \in Units, NEW d \in Units,
           <<a, d>> \in Rebuilt(tree), <<d, a>> \in Rebuilt(tree)
    PROVE  a = d
<1> SUFFICES ASSUME a # d PROVE FALSE
  OBVIOUS
<1> DEFINE L == Living(tree)
           Circling(x, k) == Walk(tree, k, x, d) /\ <<d, x>> \in Rebuilt(tree)
           B == {k \in 0..Height : \E x \in L : Circling(x, k)}
<1>0. Height \in Nat /\ L \subseteq Units /\ a \in L /\ d \in L
  BY HeightIsNatural, ClosureInTree DEF Living
<1> HIDE DEF L
<1>1. 0 \in B
  <2>1. Walk(tree, 0, d, d)
    BY <1>0, WalkGoesUp DEF L
  <2>2. <<d, d>> \in Rebuilt(tree)
    BY <1>0, ClosureIsRecursive DEF L
  <2> QED
    BY <1>0, <2>1, <2>2
<1>2. ASSUME NEW x \in L, <<d, x>> \in Rebuilt(tree)
      PROVE  tree[x].parent \in L /\ <<d, tree[x].parent>> \in Rebuilt(tree)
  <2>1. CASE x # d
    <3>1. <<d, tree[x].parent>> \in Rebuilt(tree)
      BY <1>0, <1>2, <2>1, ClosureIsRecursive DEF L
    <3> QED
      BY <3>1, ClosureInTree DEF L
  <2>2. CASE x = d
    <3>1. <<a, tree[d].parent>> \in Rebuilt(tree)
      BY <1>0, ClosureIsRecursive DEF L
    <3>2. tree[d].parent \in L
      BY <3>1, ClosureInTree DEF L
    <3>3. <<d, tree[d].parent>> \in Rebuilt(tree)
      BY <1>0, <3>1, <3>2, ClosureIsTransitive
    <3> QED
      BY <2>2, <3>2, <3>3
  <2> QED
    BY <2>1, <2>2
<1>3. ASSUME NEW k \in 0..(Height - 1), k \in B PROVE k + 1 \in B
  <2>1. PICK x \in L : Circling(x, k)
    BY <1>3
  <2>2. tree[x].parent \in L /\ <<d, tree[x].parent>> \in Rebuilt(tree)
    BY <1>2, <2>1
  <2>3. Walk(tree, k + 1, tree[x].parent, d)
    BY <1>0, <2>1, <2>2, WalkGoesUp DEF L
  <2>4. k + 1 \in 0..Height
    BY <1>0
  <2> QED
    BY <2>2, <2>3, <2>4
<1>4. Height \in B
  <2>1. B \in SUBSET (0..Height)
    OBVIOUS
  <2> HIDE DEF B
  <2>2. B = 0..Height
    BY <1>0, <1>1, <1>3, <2>1, BoundedInduction
  <2> QED
    BY <1>0, <2>2
<1> QED
  BY <1>4, WalksAreShort

(* Who is not below a unit that moves keeps all that is above. *)
LEMMA ChainStays ==
    ASSUME NEW tree, Sound(tree), NEW next, Sound(next), NEW u \in Living(tree), u \in Living(next),
           \A w \in Living(tree) : <<w, u>> \in Rebuilt(tree) =>
              w \in Living(next) /\ next[w].parent = tree[w].parent
    PROVE  \A a \in Units : <<a, u>> \in Rebuilt(tree) <=> <<a, u>> \in Rebuilt(next)
<1> DEFINE Good(k) == \A a \in Units : Walk(tree, k, a, u) <=> Walk(next, k, a, u)
           B == {k \in 0..Height : Good(k)}
<1>0. Height \in Nat /\ u \in Units /\ Living(tree) \subseteq Units /\ Living(next) \subseteq Units
  BY HeightIsNatural DEF Living
<1>1. Good(0)
  BY <1>0, WalkGoesUp
<1>2. ASSUME NEW k \in 0..(Height - 1), Good(k) PROVE Good(k + 1)
  <2>0. k \in 0..Height
    BY <1>0
  <2>1. \A w \in Living(tree) : Walk(tree, k, w, u) =>
          w \in Living(next) /\ next[w].parent = tree[w].parent
    BY <2>0, RebuiltIsWalks
  <2> SUFFICES ASSUME NEW a \in Units
               PROVE  Walk(tree, k + 1, a, u) <=> Walk(next, k + 1, a, u)
    OBVIOUS
  <2>2. Walk(tree, k + 1, a, u) <=>
          a \in Living(tree) /\ \E y \in Living(tree) : Walk(tree, k, y, u) /\ tree[y].parent = a
    BY <1>0, WalkGoesUp
  <2>3. Walk(next, k + 1, a, u) <=>
          a \in Living(next) /\ \E y \in Living(next) : Walk(next, k, y, u) /\ next[y].parent = a
    BY <1>0, WalkGoesUp
  <2>4. ASSUME NEW y \in Living(tree), Walk(tree, k, y, u)
        PROVE  y \in Living(next) /\ Walk(next, k, y, u) /\ next[y].parent = tree[y].parent
    BY <1>0, <1>2, <2>1, <2>4
  <2>5. ASSUME NEW y \in Living(next), Walk(next, k, y, u)
        PROVE  y \in Living(tree) /\ Walk(tree, k, y, u)
    <3>1. Walk(tree, k, y, u)
      BY <1>0, <1>2, <2>5
    <3> QED
      BY <2>0, <3>1, WalkEnds
  <2>6. \A y \in Living(tree) : Walk(tree, k, y, u) /\ tree[y].parent = a => (a \in Living(tree) <=> a \in Living(next))
    <3> SUFFICES ASSUME NEW y \in Living(tree), Walk(tree, k, y, u), tree[y].parent = a
                 PROVE  a \in Living(tree) <=> a \in Living(next)
      OBVIOUS
    <3>1. \A x \in Living(tree) : tree[x].parent \in Living(tree) \cup {Null}
      BY DEF Sound, MissingParent
    <3>2. \A x \in Living(next) : next[x].parent \in Living(next) \cup {Null}
      BY DEF Sound, MissingParent
    <3>3. a # Null
      OBVIOUS
    <3> QED
      BY <2>4, <3>1, <3>2, <3>3
  <2> QED
    BY <2>2, <2>3, <2>4, <2>5, <2>6
<1>3. B = 0..Height
  <2>1. 0 \in B /\ B \in SUBSET (0..Height)
    BY <1>0, <1>1
  <2>2. \A k \in 0..(Height - 1) : k \in B => k + 1 \in B
    <3> HIDE DEF Good
    <3>1. \A k \in 0..(Height - 1) : k + 1 \in 0..Height
      BY <1>0
    <3> QED
      BY <1>2, <3>1
  <2> HIDE DEF B
  <2> QED
    BY <1>0, <2>1, <2>2, BoundedInduction
<1>4. \A k \in 0..Height : Good(k)
  <2> HIDE DEF Good
  <2> QED
    BY <1>3
<1> QED
  BY <1>4, RebuiltIsWalks

-----------------------------------------------------------------------------
(* What a change set does to the tree *)

OpRow == [op : Operations, active : BOOLEAN]
AfterStep(rows, g) ==
    [k \in 0..Len(rows) |->
       IF k = 0 THEN [ok |-> TRUE, tree |-> unit]
       ELSE IF rows[k].active
            THEN [ok |-> g[k - 1].ok /\ Applies(rows[k].op, g[k - 1].tree),
                  tree |-> ApplyOperation(rows[k].op, g[k - 1].tree)]
            ELSE g[k - 1]]
After(rows) == CHOOSE g : g = AfterStep(rows, g)

LEMMA AfterUnfolds ==
    ASSUME NEW rows, Len(rows) \in Nat
    PROVE  After(rows) = AfterStep(rows, After(rows)) /\ ApplyAll(rows) = After(rows)[Len(rows)]
<1> DEFINE n == Len(rows)
           first == [ok |-> TRUE, tree |-> unit]
           Then(k, r) == IF rows[k].active
                         THEN [ok |-> r.ok /\ Applies(rows[k].op, r.tree), tree |-> ApplyOperation(rows[k].op, r.tree)]
                         ELSE r
           Upto(k, g) == g = [i \in 0..k |-> IF i = 0 THEN first ELSE Then(i, g[i - 1])]
           B == {k \in 0..n : \E g : Upto(k, g)}
<1>0. n \in Nat
  OBVIOUS
<1> HIDE DEF n, first, Then
<1>1. 0 \in B
  <2> DEFINE g == [i \in 0..0 |-> first]
  <2>1. Upto(0, g)
    OBVIOUS
  <2> HIDE DEF g, Upto
  <2> QED
    BY <1>0, <2>1
<1>2. ASSUME NEW k \in 0..(n - 1), k \in B PROVE k + 1 \in B
  <2>1. PICK g : Upto(k, g)
    BY <1>2
  <2> DEFINE h == [i \in 0..(k + 1) |-> IF i = k + 1 THEN Then(k + 1, g[k]) ELSE g[i]]
  <2>2. k \in Nat /\ k + 1 \in 0..n
    BY <1>0
  <2>3. \A i \in 0..(k + 1) : h[i] = IF i = 0 THEN first ELSE Then(i, h[i - 1])
    <3>1. ASSUME NEW i \in 0..k PROVE h[i] = IF i = 0 THEN first ELSE Then(i, h[i - 1])
      <4>1. h[i] = g[i] /\ (i # 0 => h[i - 1] = g[i - 1])
        BY <2>2
      <4>2. g[i] = IF i = 0 THEN first ELSE Then(i, g[i - 1])
        BY <2>1
      <4> QED
        BY <4>1, <4>2
    <3>2. h[k + 1] = Then(k + 1, h[k])
      BY <2>2
    <3>3. \A i \in 0..(k + 1) : i \in 0..k \/ i = k + 1
      BY <2>2
    <3>4. k + 1 # 0 /\ (k + 1) - 1 = k
      BY <2>2
    <3> HIDE DEF h
    <3> QED
      BY <3>1, <3>2, <3>3, <3>4
  <2>4. Upto(k + 1, h)
    <3>1. h = [i \in 0..(k + 1) |-> h[i]]
      OBVIOUS
    <3> HIDE DEF h
    <3> QED
      BY <2>3, <3>1
  <2> HIDE DEF h, Upto
  <2> QED
    BY <2>2, <2>4
<1>3. B = 0..n
  <2> HIDE DEF B
  <2>1. B \in SUBSET (0..n)
    BY DEF B
  <2> QED
    BY <1>0, <1>1, <1>2, <2>1, BoundedInduction
<1>4. \E g : Upto(n, g)
  <2>1. n \in B
    <3> HIDE DEF B
    <3> QED
      BY <1>0, <1>3
  <2> QED
    BY <2>1
<1>5. \A g : Upto(n, g) <=> g = AfterStep(rows, g)
  BY DEF AfterStep, first, Then, n
<1>6. ApplyAll(rows) = After(rows)[Len(rows)]
  BY DEF ApplyAll, After, AfterStep
<1> HIDE DEF Upto
<1>7. After(rows) = AfterStep(rows, After(rows))
  BY <1>4, <1>5 DEF After
<1> QED
  BY <1>6, <1>7

LEMMA OperationForm ==
    ASSUME NEW tree \in [Units -> UnitSet], NEW op \in Operations
    PROVE  /\ ApplyOperation(op, tree) \in [Units -> UnitSet]
           /\ op.kind \notin {"CREATE", "MOVE", "RETIRE"} => ApplyOperation(op, tree) = tree
           /\ Applies(op, tree) => \A w \in Units :
                /\ tree[w].status # "none" => ApplyOperation(op, tree)[w].status # "none"
                /\ tree[w].status # "none" /\ ApplyOperation(op, tree)[w].parent # tree[w].parent =>
                     op.kind = "MOVE" /\ op.target = w
<1>1. op.kind \in {"CREATE", "RENAME", "DOMAIN", "MOVE", "RETIRE"} /\ op.target \in Units /\ op.parent \in Units \cup {Null}
  OBVIOUS
<1>2. CASE op.kind = "CREATE"
  <2>1. ApplyOperation(op, tree) = [tree EXCEPT ![op.target] = [status |-> "ACTIVE", parent |-> op.parent]]
    BY <1>2 DEF ApplyOperation
  <2>2. Applies(op, tree) => tree[op.target].status = "none"
    BY <1>2 DEF Applies
  <2> QED
    BY <1>1, <1>2, <2>1, <2>2 DEF UnitSet
<1>3. CASE op.kind = "MOVE"
  <2>1. ApplyOperation(op, tree) = [tree EXCEPT ![op.target].parent = op.parent]
    BY <1>3 DEF ApplyOperation
  <2> QED
    BY <1>1, <1>3, <2>1 DEF UnitSet
<1>4. CASE op.kind = "RETIRE"
  <2>1. ApplyOperation(op, tree) = [tree EXCEPT ![op.target].status = "RETIRED"]
    BY <1>4 DEF ApplyOperation
  <2> QED
    BY <1>1, <1>4, <2>1 DEF UnitSet
<1>5. CASE op.kind \in {"RENAME", "DOMAIN"}
  <2>1. ApplyOperation(op, tree) = tree
    BY <1>5 DEF ApplyOperation
  <2> QED
    BY <1>5, <2>1
<1> QED
  BY <1>1, <1>2, <1>3, <1>4, <1>5

(* What is there stays there, and changes its parent only by a move.          *)
LEMMA ApplyAllForm ==
    ASSUME unit \in [Units -> UnitSet], NEW rows \in Seq(OpRow)
    PROVE  /\ ApplyAll(rows).tree \in [Units -> UnitSet]
           /\ (\A i \in 1..Len(rows) : rows[i].active => rows[i].op.kind \notin {"CREATE", "MOVE", "RETIRE"})
                => ApplyAll(rows).tree = unit
           /\ ApplyAll(rows).ok => \A w \in Units : unit[w].status # "none" =>
                /\ ApplyAll(rows).tree[w].status # "none"
                /\ ApplyAll(rows).tree[w].parent # unit[w].parent =>
                     \E i \in 1..Len(rows) : rows[i].active /\ rows[i].op.kind = "MOVE" /\ rows[i].op.target = w
<1> DEFINE n == Len(rows)
           Calm == \A i \in 1..n : rows[i].active => rows[i].op.kind \notin {"CREATE", "MOVE", "RETIRE"}
           Moved(w) == \E i \in 1..n : rows[i].active /\ rows[i].op.kind = "MOVE" /\ rows[i].op.target = w
           Kept(tree) == \A w \in Units : unit[w].status # "none" =>
                           tree[w].status # "none" /\ (tree[w].parent # unit[w].parent => Moved(w))
           Good(r) == r.tree \in [Units -> UnitSet] /\ (Calm => r.tree = unit) /\ (r.ok => Kept(r.tree))
           B == {k \in 0..n : Good(After(rows)[k])}
<1>0. n \in Nat /\ After(rows) = AfterStep(rows, After(rows)) /\ ApplyAll(rows) = After(rows)[n]
  BY AfterUnfolds
<1>1. 0 \in B
  <2>1. After(rows)[0] = [ok |-> TRUE, tree |-> unit]
    <3>1. AfterStep(rows, After(rows))[0] = [ok |-> TRUE, tree |-> unit]
      BY <1>0 DEF AfterStep
    <3> QED
      BY <1>0, <3>1
  <2>2. Good(After(rows)[0])
    BY <2>1
  <2> HIDE DEF Good
  <2> QED
    BY <1>0, <2>2
<1>2. ASSUME NEW k \in 0..(n - 1), k \in B PROVE k + 1 \in B
  <2> DEFINE r == After(rows)[k]
             s == After(rows)[k + 1]
             op == rows[k + 1].op
  <2>0. k + 1 \in 0..n /\ k + 1 # 0 /\ (k + 1) - 1 = k /\ k + 1 \in 1..n
    BY <1>0
  <2>1. s = IF rows[k + 1].active THEN [ok |-> r.ok /\ Applies(op, r.tree), tree |-> ApplyOperation(op, r.tree)]
            ELSE r
    <3>1. AfterStep(rows, After(rows))[k + 1] =
            IF rows[k + 1].active THEN [ok |-> r.ok /\ Applies(op, r.tree), tree |-> ApplyOperation(op, r.tree)]
            ELSE r
      BY <2>0 DEF AfterStep
    <3> QED
      BY <1>0, <3>1
  <2>2. rows[k + 1] \in OpRow /\ op \in Operations
    <3>1. rows[k + 1] \in OpRow
      BY <2>0
    <3> QED
      BY <3>1 DEF OpRow
  <2>3. Good(r)
    BY <1>2
  <2>4. CASE ~rows[k + 1].active
    <3>1. s = r
      BY <2>1, <2>4
    <3> HIDE DEF s, r, Good
    <3>2. Good(s)
      BY <2>3, <3>1
    <3> QED
      BY <2>0, <3>2 DEF s
  <2>5. CASE rows[k + 1].active
    <3> DEFINE t == r.tree
               t2 == ApplyOperation(op, t)
    <3>1. s.tree = t2 /\ (s.ok => r.ok /\ Applies(op, t))
      <4> DEFINE both == r.ok /\ Applies(op, t)
      <4>1. s = [ok |-> both, tree |-> t2]
        BY <2>1, <2>5
      <4> HIDE DEF both, t2, s
      <4>2. s.tree = t2 /\ s.ok = both
        BY <4>1
      <4> QED
        BY <4>2 DEF both
    <3>2. t \in [Units -> UnitSet]
      BY <2>3
    <3>3. /\ t2 \in [Units -> UnitSet]
          /\ op.kind \notin {"CREATE", "MOVE", "RETIRE"} => t2 = t
          /\ Applies(op, t) => \A w \in Units :
                /\ t[w].status # "none" => t2[w].status # "none"
                /\ t[w].status # "none" /\ t2[w].parent # t[w].parent => op.kind = "MOVE" /\ op.target = w
      <4> HIDE DEF t, op
      <4> QED
        BY <2>2, <3>2, OperationForm
    <3>4. Calm => op.kind \notin {"CREATE", "MOVE", "RETIRE"}
      BY <2>0, <2>5
    <3>5. \A w \in Units : op.kind = "MOVE" /\ op.target = w => Moved(w)
      BY <2>0, <2>5
    <3>6. (Calm => t = unit) /\ (r.ok => Kept(t))
      BY <2>3
    <3> HIDE DEF t2, t, s, r, op, Calm, Moved
    <3>7. (Calm => t2 = unit) /\ (s.ok => Kept(t2))
      BY <3>1, <3>3, <3>4, <3>5, <3>6
    <3>8. Good(s)
      BY <3>1, <3>3, <3>7
    <3> HIDE DEF Good
    <3> QED
      BY <2>0, <3>8 DEF s
  <2> QED
    BY <2>4, <2>5
<1>3. n \in B
  <2>1. B \in SUBSET (0..n)
    OBVIOUS
  <2> HIDE DEF B
  <2>2. B = 0..n
    BY <1>0, <1>1, <1>2, <2>1, BoundedInduction
  <2> QED
    BY <1>0, <2>2
<1>4. Good(ApplyAll(rows))
  <2> HIDE DEF Good
  <2> QED
    BY <1>0, <1>3
<1> QED
  BY <1>4

-----------------------------------------------------------------------------
(* The invariant *)

ChangeRow == [status : {"none", "DRAFT", "VALIDATED", "PENDING_APPROVAL", "PUBLISHED", "CANCELLED", "REJECTED"},
              base : Nat, author : Staff \cup {Null}, ops : Seq(OpRow)]
ApprovalRow == [by : Staff, status : {"PENDING", "APPROVED", "REJECTED"}, decider : Staff \cup {Null}]
PublicationRow == [ops : SUBSET Operations, approval : Nat]

RowsInv ==
    /\ changeSet \in [ChangeSets -> ChangeRow]
    /\ approvals \in [ChangeSets -> Seq(ApprovalRow)]
    /\ publication \in [ChangeSets -> PublicationRow]
    /\ version \in Nat
(* The tree has no cycle and no gap, and the closure is its own.             *)
TreeInv ==
    /\ Sound(unit) /\ closure = Rebuilt(unit)
    /\ \A u \in DOMAIN FirstTree : unit[u].status # "none"
SlowInv ==
    slowCall.step # "none" =>
      /\ slowCall.change \in ChangeSets
      /\ slowCall.step = "append" => slowCall.op \in Operations
      /\ slowCall.step = "approve" =>
           LET asked == approvals[slowCall.change][slowCall.at] IN
           /\ slowCall.by \in Staff /\ slowCall.at \in DOMAIN approvals[slowCall.change]
           /\ asked.by # slowCall.by \/ slowCall.by \in Emergency
(* One open request while a change set waits, none else; what is approved is *)
(* what was published.                                                        *)
RequestInv(c) ==
    /\ changeSet[c].status = "PENDING_APPROVAL" => \E i \in DOMAIN approvals[c] : OpenRequests(c) = {i}
    /\ changeSet[c].status # "PENDING_APPROVAL" => OpenRequests(c) = {}
    /\ \A i \in DOMAIN approvals[c] :
         approvals[c][i].status = "APPROVED" <=> changeSet[c].status = "PUBLISHED" /\ publication[c].approval = i
HighRisk(ops) == \E op \in ops : op.kind \in {"MOVE", "RETIRE", "DOMAIN"}
RiskInv(c) ==
    /\ changeSet[c].status # "PUBLISHED" => publication[c] = NotPublished
    /\ HighRisk(publication[c].ops) =>
         /\ publication[c].approval # 0
         /\ LET asked == approvals[c][publication[c].approval] IN
            asked.decider \in Emergency \/ asked.decider \notin {changeSet[c].author, asked.by}

OrganizationInv ==
    /\ RowsInv /\ TreeInv /\ SlowInv
    /\ \A c \in ChangeSets : RequestInv(c) /\ RiskInv(c)

LEMMA OrganizationBegins == OrganizationInit => OrganizationInv
<1> SUFFICES ASSUME OrganizationInit PROVE OrganizationInv
  OBVIOUS
<1> USE DEF OrganizationInit
<1>1. RowsInv
  <2>1. NoChange \in ChangeRow
    <3>1. <<>> \in Seq(OpRow)
      OBVIOUS
    <3> QED
      BY <3>1 DEF NoChange, ChangeRow
  <2>2. NotPublished \in PublicationRow
    BY DEF NotPublished, PublicationRow
  <2>3. <<>> \in Seq(ApprovalRow)
    OBVIOUS
  <2> QED
    BY <2>1, <2>2, <2>3 DEF RowsInv
<1>2. FirstUnits \in [Units -> UnitSet]
  BY DEF FirstUnits, UnitSet, NotYetThere
<1>3. TreeInv
  <2>1. Sound(unit)
    BY <1>2, FirstTreeAssumption DEF Sound
  <2>2. \A u \in DOMAIN FirstTree : unit[u].status # "none"
    BY DEF FirstUnits
  <2> QED
    BY <2>1, <2>2 DEF TreeInv
<1>4. SlowInv
  BY DEF SlowInv, NothingRead
<1>5. ASSUME NEW c \in ChangeSets PROVE RequestInv(c) /\ RiskInv(c)
  <2>1. changeSet[c] = NoChange /\ approvals[c] = <<>> /\ publication[c] = NotPublished
    OBVIOUS
  <2>2. DOMAIN approvals[c] = {}
    BY <2>1
  <2> QED
    BY <2>1, <2>2 DEF RequestInv, RiskInv, NoChange, NotPublished, OpenRequests, HighRisk
<1> QED
  BY <1>1, <1>3, <1>4, <1>5 DEF OrganizationInv

-----------------------------------------------------------------------------
(* A draft changes *)

LEMMA ChangeForm ==
    ASSUME RowsInv, NEW c \in ChangeSets
    PROVE  /\ changeSet[c] \in ChangeRow /\ changeSet[c].ops \in Seq(OpRow)
           /\ approvals[c] \in Seq(ApprovalRow) /\ publication[c] \in PublicationRow
BY DEF RowsInv, ChangeRow

(* What a draft call may do to its change set; nothing else moves. *)
Drafted(c) ==
    /\ changeSet' \in [ChangeSets -> ChangeRow]
    /\ changeSet'[c].author = changeSet[c].author
    /\ \/ changeSet'[c].status = changeSet[c].status
       \/ changeSet[c].status \in {"DRAFT", "VALIDATED"} /\ changeSet'[c].status \in {"DRAFT", "VALIDATED", "CANCELLED"}
    /\ \A d \in ChangeSets : d # c => changeSet'[d] = changeSet[d]

LEMMA ChangeRowForm ==
    ASSUME NEW r \in ChangeRow
    PROVE  /\ \A next \in Seq(OpRow) : [r EXCEPT !.ops = next] \in ChangeRow
           /\ \A status \in {"none", "DRAFT", "VALIDATED", "PENDING_APPROVAL", "PUBLISHED", "CANCELLED", "REJECTED"} :
                [r EXCEPT !.status = status] \in ChangeRow
<1> DEFINE S == Seq(OpRow)
           R(s) == [status : {"none", "DRAFT", "VALIDATED", "PENDING_APPROVAL", "PUBLISHED", "CANCELLED", "REJECTED"},
                    base : Nat, author : Staff \cup {Null}, ops : s]
<1>1. ChangeRow = R(S)
  BY DEF ChangeRow
<1> HIDE DEF S
<1>2. ASSUME NEW next \in S PROVE [r EXCEPT !.ops = next] \in R(S)
  BY <1>1
<1>3. ASSUME NEW status \in {"none", "DRAFT", "VALIDATED", "PENDING_APPROVAL", "PUBLISHED", "CANCELLED", "REJECTED"}
      PROVE  [r EXCEPT !.status = status] \in R(S)
  BY <1>1
<1> HIDE DEF R
<1>4. \A next \in S : [r EXCEPT !.ops = next] \in ChangeRow
  BY <1>1, <1>2
<1>5. \A status \in {"none", "DRAFT", "VALIDATED", "PENDING_APPROVAL", "PUBLISHED", "CANCELLED", "REJECTED"} :
        [r EXCEPT !.status = status] \in ChangeRow
  BY <1>1, <1>3
<1> QED
  BY <1>4, <1>5 DEF S

LEMMA OpRowForm ==
    ASSUME NEW rows \in Seq(OpRow), NEW at, NEW b \in BOOLEAN
    PROVE  [rows EXCEPT ![at].active = b] \in Seq(OpRow)
<1> DEFINE n == Len(rows)
           next == [rows EXCEPT ![at].active = b]
<1>1. n \in Nat /\ DOMAIN rows = 1..n /\ rows \in [1..n -> OpRow]
  OBVIOUS
<1>2. \A r \in OpRow : [r EXCEPT !.active = b] \in OpRow
  BY DEF OpRow
<1> HIDE DEF n
<1>3. next \in [1..n -> OpRow]
  BY <1>1, <1>2
<1> HIDE DEF next
<1>4. next \in Seq(OpRow)
  BY <1>1, <1>3
<1> QED
  BY <1>4 DEF next

LEMMA ActsDraft ==
    ASSUME RowsInv, NEW call, call.change \in ChangeSets, call.step = "append" => call.op \in Operations, Acts(call)
    PROVE  Drafted(call.change)
<1> DEFINE c == call.change
           rows == changeSet[c].ops
<1>0. c \in ChangeSets /\ changeSet \in [ChangeSets -> ChangeRow] /\ rows \in Seq(OpRow)
  BY ChangeForm DEF RowsInv
<1>1. ASSUME NEW next \in Seq(OpRow), changeSet' = [changeSet EXCEPT ![c].ops = next]
      PROVE  Drafted(c)
  <2>1. [changeSet[c] EXCEPT !.ops = next] \in ChangeRow
    BY <1>0, ChangeRowForm
  <2> QED
    BY <1>0, <1>1, <2>1 DEF Drafted, ChangeRow
<1>2. CASE RowAppended(call)
  <2>1. [op |-> call.op, active |-> TRUE] \in OpRow
    BY <1>2 DEF RowAppended, OpRow
  <2>2. Append(rows, [op |-> call.op, active |-> TRUE]) \in Seq(OpRow)
    BY <1>0, <2>1
  <2>3. changeSet' = [changeSet EXCEPT ![c].ops = Append(rows, [op |-> call.op, active |-> TRUE])]
    BY <1>0, <1>2 DEF RowAppended
  <2> QED
    BY <1>1, <2>2, <2>3
<1>3. CASE RowChanged(call)
  <2> DEFINE b == call.step = "redo"
             next == [rows EXCEPT ![call.at].active = b]
  <2>1. b \in BOOLEAN
    OBVIOUS
  <2>2. next \in Seq(OpRow)
    <3> HIDE DEF b, rows
    <3> QED
      BY <1>0, <2>1, OpRowForm
  <2>3. changeSet' = [changeSet EXCEPT ![c].ops = next]
    BY <1>0, <1>3 DEF RowChanged
  <2> HIDE DEF next
  <2> QED
    BY <1>1, <2>2, <2>3
<1>4. CASE StatusChanged(call)
  <2> DEFINE status == IF call.valid THEN "VALIDATED" ELSE "DRAFT"
  <2>1. status \in {"DRAFT", "VALIDATED"}
    OBVIOUS
  <2>2. changeSet' = [changeSet EXCEPT ![c].status = status] /\ changeSet[c].status \in {"DRAFT", "VALIDATED"}
    BY <1>4 DEF StatusChanged
  <2> HIDE DEF status
  <2>3. [changeSet[c] EXCEPT !.status = status] \in ChangeRow
    BY <1>0, <2>1, ChangeRowForm
  <2> QED
    BY <1>0, <2>1, <2>2, <2>3 DEF Drafted, ChangeRow
<1> QED
  BY <1>2, <1>3, <1>4 DEF Acts

(* The requests and the publication of a change set are kept as long as its  *)
(* row neither starts nor stops to wait or to be published.                   *)
LEMMA RowKept ==
    ASSUME NEW c \in ChangeSets, RequestInv(c), RiskInv(c),
           approvals'[c] = approvals[c], publication'[c] = publication[c],
           changeSet'[c].author = changeSet[c].author \/ changeSet[c].status # "PUBLISHED",
           changeSet'[c].status = changeSet[c].status
             \/ {changeSet[c].status, changeSet'[c].status} \cap {"PENDING_APPROVAL", "PUBLISHED"} = {}
    PROVE  RequestInv(c)' /\ RiskInv(c)'
<1>1. OpenRequests(c)' = OpenRequests(c)
  BY DEF OpenRequests
<1>2. RequestInv(c)'
  BY <1>1 DEF RequestInv
<1>3. RiskInv(c)'
  <2>1. CASE changeSet[c].status = "PUBLISHED"
    BY <2>1 DEF RiskInv
  <2>2. CASE changeSet[c].status # "PUBLISHED"
    BY <2>2 DEF RiskInv, NotPublished, HighRisk
  <2> QED
    BY <2>1, <2>2
<1> QED
  BY <1>2, <1>3

LEMMA DraftedKeeps ==
    ASSUME OrganizationInv, NEW c \in ChangeSets, Drafted(c), UNCHANGED <<treeVars, approvals>>, SlowInv'
    PROVE  OrganizationInv'
<1>0. UNCHANGED <<unit, closure, version, publication, approvals>>
  BY DEF treeVars
<1>1. RowsInv'
  BY <1>0 DEF OrganizationInv, RowsInv, Drafted
<1>2. TreeInv'
  BY <1>0 DEF OrganizationInv, TreeInv
<1>3. ASSUME NEW d \in ChangeSets PROVE RequestInv(d)' /\ RiskInv(d)'
  <2>1. CASE d = c
    <3>1. /\ changeSet'[d].author = changeSet[d].author
          /\ changeSet'[d].status = changeSet[d].status
             \/ {changeSet[d].status, changeSet'[d].status} \cap {"PENDING_APPROVAL", "PUBLISHED"} = {}
      BY <2>1 DEF Drafted
    <3> QED
      BY <1>0, <3>1, RowKept DEF OrganizationInv
  <2>2. CASE d # c
    <3>1. changeSet'[d] = changeSet[d]
      BY <2>2 DEF Drafted
    <3> QED
      BY <1>0, <3>1, RowKept DEF OrganizationInv
  <2> QED
    BY <2>1, <2>2
<1> QED
  BY <1>1, <1>2, <1>3 DEF OrganizationInv

LEMMA CallsOfForm ==
    ASSUME NEW c \in ChangeSets, NEW call \in CallsOf(c)
    PROVE  /\ call.change = c /\ call.step \in {"append", "undo", "redo", "validate"}
           /\ call.step = "append" => call.op \in Operations
<1>1. CASE \E op \in Operations : call = AppendCall(c, op)
  BY <1>1 DEF AppendCall
<1>2. CASE \E step \in {"undo", "redo"} : call = UndoCall(c, step)
  BY <1>2 DEF UndoCall
<1>3. CASE call = ValidateCall(c)
  BY <1>3 DEF ValidateCall
<1> QED
  BY <1>1, <1>2, <1>3 DEF CallsOf

-----------------------------------------------------------------------------
(* A request is opened and decided *)

RequestForm(c, i, status, by) == [by |-> approvals[c][i].by, status |-> status, decider |-> by]

LEMMA DecidedForm ==
    ASSUME RowsInv, NEW c \in ChangeSets, NEW i \in DOMAIN approvals[c],
           NEW status \in {"PENDING", "APPROVED", "REJECTED"}, NEW by \in Staff \cup {Null},
           approvals' = Decided(c, i, status, by)
    PROVE  /\ approvals' \in [ChangeSets -> Seq(ApprovalRow)]
           /\ \A d \in ChangeSets : d # c => approvals'[d] = approvals[d]
           /\ DOMAIN approvals'[c] = DOMAIN approvals[c]
           /\ \A j \in DOMAIN approvals[c] :
                approvals'[c][j] = IF j = i THEN RequestForm(c, i, status, by) ELSE approvals[c][j]
<1> DEFINE rows == approvals[c]
           n == Len(rows)
           one == RequestForm(c, i, status, by)
           next == [rows EXCEPT ![i] = one]
<1>1. rows \in Seq(ApprovalRow) /\ approvals \in [ChangeSets -> Seq(ApprovalRow)]
  BY ChangeForm DEF RowsInv
<1>2. n \in Nat /\ DOMAIN rows = 1..n /\ rows \in [1..n -> ApprovalRow] /\ i \in 1..n
  BY <1>1
<1>3. one \in ApprovalRow
  BY <1>2 DEF RequestForm, ApprovalRow
<1>4. approvals' = [approvals EXCEPT ![c] = next]
  BY <1>1 DEF Decided, RequestForm
<1> HIDE DEF n, one, rows
<1>5. next \in [1..n -> ApprovalRow] /\ \A j \in 1..n : next[j] = IF j = i THEN one ELSE rows[j]
  BY <1>2, <1>3
<1>6. DOMAIN next = 1..n
  BY <1>5
<1> HIDE DEF next
<1>7. next \in Seq(ApprovalRow)
  BY <1>2, <1>5
<1> QED
  BY <1>1, <1>2, <1>4, <1>5, <1>6, <1>7 DEF rows, one

(* A slow approval outlives what happens to the requests: they are never      *)
(* removed, and who submitted one does not change.                            *)
LEMMA SlowKept ==
    ASSUME OrganizationInv, UNCHANGED slowCall,
           \A c \in ChangeSets : \A i \in DOMAIN approvals[c] :
              i \in DOMAIN approvals'[c] /\ approvals'[c][i].by = approvals[c][i].by
    PROVE  SlowInv'
BY DEF OrganizationInv, SlowInv

LEMMA DecidedSlow ==
    ASSUME OrganizationInv, NEW c \in ChangeSets, NEW i \in DOMAIN approvals[c],
           NEW status \in {"PENDING", "APPROVED", "REJECTED"}, NEW by \in Staff \cup {Null},
           approvals' = Decided(c, i, status, by)
    PROVE  \A d \in ChangeSets : \A j \in DOMAIN approvals[d] :
              j \in DOMAIN approvals'[d] /\ approvals'[d][j].by = approvals[d][j].by
<1>1. /\ \A d \in ChangeSets : d # c => approvals'[d] = approvals[d]
      /\ DOMAIN approvals'[c] = DOMAIN approvals[c]
      /\ \A j \in DOMAIN approvals[c] :
           approvals'[c][j] = IF j = i THEN RequestForm(c, i, status, by) ELSE approvals[c][j]
  BY DecidedForm DEF OrganizationInv
<1>2. RequestForm(c, i, status, by).by = approvals[c][i].by
  BY DEF RequestForm
<1> QED
  BY <1>1, <1>2

LEMMA SubmitKeeps ==
    ASSUME OrganizationInv, NEW p \in Staff, NEW c \in ChangeSets, SubmitChangeSet(p, c)
    PROVE  OrganizationInv'
<1> DEFINE rows == approvals[c]
           n == Len(rows)
           one == [by |-> p, status |-> "PENDING", decider |-> Null]
<1>0. /\ UNCHANGED <<unit, closure, version, publication, slowCall>>
      /\ changeSet[c].status = "VALIDATED"
      /\ changeSet' = [changeSet EXCEPT ![c].status = "PENDING_APPROVAL"]
      /\ approvals' = [approvals EXCEPT ![c] = Append(rows, one)]
  BY DEF SubmitChangeSet, treeVars, Status, OrganizationInv, RowsInv
<1>1. RowsInv /\ rows \in Seq(ApprovalRow) /\ one \in ApprovalRow /\ changeSet[c] \in ChangeRow
  BY ChangeForm DEF OrganizationInv, ApprovalRow
<1>2. n \in Nat /\ DOMAIN rows = 1..n
  BY <1>1
<1>3. /\ Append(rows, one) \in Seq(ApprovalRow) /\ DOMAIN Append(rows, one) = 1..(n + 1)
      /\ Append(rows, one)[n + 1] = one /\ \A j \in 1..n : Append(rows, one)[j] = rows[j]
  BY <1>1
<1> DEFINE next == Append(rows, one)
<1>3a. next[n + 1].status = "PENDING" /\ \A j \in 1..n : next[j] = rows[j]
  <2>1. one.status = "PENDING"
    OBVIOUS
  <2> HIDE DEF one
  <2> QED
    BY <1>3, <2>1
<1> HIDE DEF next, n, rows, one
<1>4. /\ approvals'[c] = next /\ \A d \in ChangeSets : d # c => approvals'[d] = approvals[d]
      /\ approvals' \in [ChangeSets -> Seq(ApprovalRow)]
  BY <1>0, <1>1, <1>3 DEF RowsInv, next
<1>5. /\ changeSet'[c].status = "PENDING_APPROVAL"
      /\ \A d \in ChangeSets : d # c => changeSet'[d] = changeSet[d]
      /\ changeSet' \in [ChangeSets -> ChangeRow]
  <2>1. [changeSet[c] EXCEPT !.status = "PENDING_APPROVAL"] \in ChangeRow
    BY <1>1, ChangeRowForm
  <2> QED
    BY <1>0, <1>1, <2>1 DEF RowsInv, ChangeRow
<1>6. RowsInv'
  BY <1>0, <1>1, <1>4, <1>5 DEF RowsInv
<1>7. TreeInv'
  BY <1>0 DEF OrganizationInv, TreeInv
<1>8. SlowInv'
  <2>1. \A i \in DOMAIN approvals[c] : i \in DOMAIN approvals'[c] /\ approvals'[c][i] = approvals[c][i]
    BY <1>2, <1>3, <1>4 DEF rows, next
  <2> QED
    BY <1>0, <1>4, <2>1, SlowKept
<1>9. RequestInv(c)' /\ RiskInv(c)'
  <2>0. OpenRequests(c) = {} /\ publication[c] = NotPublished /\ \A i \in 1..n : rows[i].status # "APPROVED"
    BY <1>0, <1>2 DEF OrganizationInv, RequestInv, RiskInv, rows
  <2>1. OpenRequests(c)' = {n + 1}
    <3>1. \A j \in 1..n : rows[j].status # "PENDING"
      BY <1>2, <2>0 DEF OpenRequests, rows
    <3>2. OpenRequests(c)' = {i \in 1..(n + 1) : next[i].status = "PENDING"}
      BY <1>3, <1>4 DEF OpenRequests, next
    <3>3. next[n + 1].status = "PENDING" /\ \A j \in 1..n : next[j].status # "PENDING"
      BY <1>3a, <3>1
    <3> QED
      BY <1>2, <3>2, <3>3
  <2>2. n + 1 \in DOMAIN approvals'[c] /\ \A i \in DOMAIN approvals'[c] : approvals'[c][i].status # "APPROVED"
    <3>1. \A j \in 1..(n + 1) : j = n + 1 \/ (j \in 1..n /\ next[j] = rows[j])
      BY <1>2, <1>3a
    <3>2. DOMAIN approvals'[c] = 1..(n + 1)
      BY <1>3, <1>4 DEF next
    <3> QED
      BY <1>2, <1>3a, <1>4, <2>0, <3>1, <3>2
  <2>3. RequestInv(c)'
    BY <1>5, <2>1, <2>2 DEF RequestInv
  <2>4. RiskInv(c)'
    BY <1>0, <1>5, <2>0 DEF RiskInv, NotPublished, HighRisk
  <2> QED
    BY <2>3, <2>4
<1>10. ASSUME NEW d \in ChangeSets, d # c PROVE RequestInv(d)' /\ RiskInv(d)'
  BY <1>0, <1>4, <1>5, <1>10, RowKept DEF OrganizationInv
<1> QED
  BY <1>6, <1>7, <1>8, <1>9, <1>10 DEF OrganizationInv

(* Withdrawal and rejection close the one open request. *)
LEMMA ClosingKeeps ==
    ASSUME OrganizationInv, NEW c \in ChangeSets, NEW by \in Staff \cup {Null},
           NEW i \in OpenRequests(c), NEW status \in {"VALIDATED", "REJECTED"},
           changeSet[c].status = "PENDING_APPROVAL",
           approvals' = Decided(c, i, "REJECTED", by),
           changeSet' = [changeSet EXCEPT ![c].status = status],
           UNCHANGED <<treeVars, slowCall>>
    PROVE  OrganizationInv'
<1>0. UNCHANGED <<unit, closure, version, publication, slowCall>> /\ RowsInv /\ i \in DOMAIN approvals[c]
  BY DEF treeVars, OrganizationInv, OpenRequests
<1>1. /\ approvals' \in [ChangeSets -> Seq(ApprovalRow)]
      /\ \A d \in ChangeSets : d # c => approvals'[d] = approvals[d]
      /\ DOMAIN approvals'[c] = DOMAIN approvals[c]
      /\ \A j \in DOMAIN approvals[c] :
           approvals'[c][j] = IF j = i THEN RequestForm(c, i, "REJECTED", by) ELSE approvals[c][j]
  BY <1>0, DecidedForm
<1>2. /\ changeSet'[c].status = status
      /\ \A d \in ChangeSets : d # c => changeSet'[d] = changeSet[d]
      /\ changeSet' \in [ChangeSets -> ChangeRow]
  <2>1. changeSet[c] \in ChangeRow /\ [changeSet[c] EXCEPT !.status = status] \in ChangeRow
    BY <1>0, ChangeForm, ChangeRowForm
  <2> QED
    BY <1>0, <2>1 DEF RowsInv, ChangeRow
<1>3. RowsInv'
  BY <1>0, <1>1, <1>2 DEF RowsInv
<1>4. TreeInv'
  BY <1>0 DEF OrganizationInv, TreeInv
<1>5. SlowInv'
  BY <1>0, DecidedSlow, SlowKept
<1>6. RequestInv(c)' /\ RiskInv(c)'
  <2>1. OpenRequests(c) = {i} /\ publication[c] = NotPublished
    BY DEF OrganizationInv, RequestInv, RiskInv
  <2>2. \A j \in DOMAIN approvals[c] : j # i => approvals[c][j].status \notin {"PENDING", "APPROVED"}
    BY <2>1 DEF OrganizationInv, RequestInv, OpenRequests
  <2>3. \A j \in DOMAIN approvals'[c] : approvals'[c][j].status \notin {"PENDING", "APPROVED"}
    BY <1>1, <2>2 DEF RequestForm
  <2>4. OpenRequests(c)' = {}
    BY <2>3 DEF OpenRequests
  <2>5. RequestInv(c)'
    BY <1>2, <2>3, <2>4 DEF RequestInv
  <2>6. RiskInv(c)'
    BY <1>0, <1>2, <2>1 DEF RiskInv, NotPublished, HighRisk
  <2> QED
    BY <2>5, <2>6
<1>7. ASSUME NEW d \in ChangeSets, d # c PROVE RequestInv(d)' /\ RiskInv(d)'
  BY <1>0, <1>1, <1>2, <1>7, RowKept DEF OrganizationInv
<1> QED
  BY <1>3, <1>4, <1>5, <1>6, <1>7 DEF OrganizationInv

-----------------------------------------------------------------------------
(* A change set is published *)

LEMMA PublishedTree ==
    ASSUME OrganizationInv, NEW c \in ChangeSets, NEW from, NEW approval, Publish(c, from, approval)
    PROVE  /\ TreeInv'
           /\ \A w \in Living(unit) : /\ w \in Living(unit')
                                      /\ unit'[w].parent # unit[w].parent =>
                                           \E op \in ActiveOps(c) : op.kind = "MOVE" /\ op.target = w
<1> DEFINE rows == changeSet[c].ops
           ops == ActiveOps(c)
           next == ApplyAll(rows).tree
<1>0. rows \in Seq(OpRow) /\ Sound(unit) /\ unit \in [Units -> UnitSet]
  BY ChangeForm DEF OrganizationInv, TreeInv, Sound
<1>1. /\ ApplyAll(rows).ok
      /\ Structural(ops) => ~Cyclic(next) /\ ~MissingParent(next)
      /\ unit' = next
      /\ closure' = IF Structural(ops) THEN Rebuilt(next) ELSE closure
  BY DEF Publish, RowsOf
<1>2. ops = {rows[i].op : i \in {j \in 1..Len(rows) : rows[j].active}}
  BY <1>0, SMTT(20), ZenonT(40) DEF ActiveOps, ActiveAt, RowsOf
<1>3. /\ next \in [Units -> UnitSet]
      /\ (\A i \in 1..Len(rows) : rows[i].active => rows[i].op.kind \notin {"CREATE", "MOVE", "RETIRE"}) => next = unit
      /\ \A w \in Units : unit[w].status # "none" =>
           /\ next[w].status # "none"
           /\ next[w].parent # unit[w].parent =>
                \E i \in 1..Len(rows) : rows[i].active /\ rows[i].op.kind = "MOVE" /\ rows[i].op.target = w
  BY <1>0, <1>1, ApplyAllForm
<1> HIDE DEF rows, next
<1>4. ~Structural(ops) => next = unit
  BY <1>2, <1>3 DEF Structural
<1>5. \A w \in Units : unit[w].status # "none" =>
        /\ next[w].status # "none"
        /\ next[w].parent # unit[w].parent => \E op \in ops : op.kind = "MOVE" /\ op.target = w
  BY <1>2, <1>3
<1> HIDE DEF ops
<1>6. Sound(next)
  BY <1>0, <1>1, <1>3, <1>4 DEF Sound
<1>7. closure' = Rebuilt(next)
  BY <1>1, <1>4 DEF OrganizationInv, TreeInv
<1>8. \A u \in DOMAIN FirstTree : next[u].status # "none"
  BY <1>5 DEF OrganizationInv, TreeInv
<1>9. TreeInv'
  BY <1>1, <1>6, <1>7, <1>8 DEF TreeInv
<1>10. \A w \in Living(unit) : /\ w \in Living(unit')
                               /\ unit'[w].parent # unit[w].parent =>
                                    \E op \in ops : op.kind = "MOVE" /\ op.target = w
  BY <1>1, <1>5 DEF Living
<1> QED
  BY <1>9, <1>10 DEF ops

(* Publication, with its approval or without one. *)
LEMMA PublishedRows ==
    ASSUME OrganizationInv, NEW c \in ChangeSets, NEW from \in {"VALIDATED", "PENDING_APPROVAL"},
           NEW approval \in Nat, Publish(c, from, approval)
    PROVE  /\ changeSet[c].status = from /\ changeSet'[c].status = "PUBLISHED"
           /\ changeSet'[c].author = changeSet[c].author
           /\ publication'[c] = [ops |-> ActiveOps(c), approval |-> approval]
           /\ \A d \in ChangeSets : d # c => changeSet'[d] = changeSet[d] /\ publication'[d] = publication[d]
           /\ changeSet' \in [ChangeSets -> ChangeRow] /\ publication' \in [ChangeSets -> PublicationRow]
           /\ version' \in Nat
<1>0. RowsInv /\ changeSet[c] \in ChangeRow /\ changeSet[c].ops \in Seq(OpRow)
  BY ChangeForm DEF OrganizationInv
<1>1. /\ changeSet[c].status = from /\ version' = version + 1
      /\ changeSet' = [changeSet EXCEPT ![c].status = "PUBLISHED"]
      /\ publication' = [publication EXCEPT ![c] = [ops |-> ActiveOps(c), approval |-> approval]]
  BY DEF Publish, Status
<1>2. ActiveOps(c) \in SUBSET Operations
  <2>1. \A i \in 1..Len(changeSet[c].ops) : changeSet[c].ops[i] \in OpRow
    BY <1>0
  <2>2. DOMAIN changeSet[c].ops = 1..Len(changeSet[c].ops)
    BY <1>0
  <2> QED
    BY <2>1, <2>2 DEF ActiveOps, ActiveAt, RowsOf, OpRow
<1>3. [ops |-> ActiveOps(c), approval |-> approval] \in PublicationRow
  BY <1>2, SMTT(20), ZenonT(40) DEF PublicationRow
<1>4. [changeSet[c] EXCEPT !.status = "PUBLISHED"] \in ChangeRow
  BY <1>0, ChangeRowForm
<1> QED
  BY <1>0, <1>1, <1>3, <1>4, SMTT(20), ZenonT(40) DEF RowsInv, ChangeRow

LEMMA LowRiskKeeps ==
    ASSUME OrganizationInv, NEW c \in ChangeSets, PublishLowRisk(c)
    PROVE  OrganizationInv'
<1>0. LowRisk(ActiveOps(c)) /\ Publish(c, "VALIDATED", 0) /\ UNCHANGED <<approvals, slowCall>> /\ 0 \in Nat
  BY DEF PublishLowRisk
<1>1. /\ changeSet[c].status = "VALIDATED" /\ changeSet'[c].status = "PUBLISHED"
      /\ publication'[c] = [ops |-> ActiveOps(c), approval |-> 0]
      /\ \A d \in ChangeSets : d # c => changeSet'[d] = changeSet[d] /\ publication'[d] = publication[d]
      /\ changeSet' \in [ChangeSets -> ChangeRow] /\ publication' \in [ChangeSets -> PublicationRow]
      /\ version' \in Nat
  BY <1>0, PublishedRows
<1>2. TreeInv'
  BY <1>0, PublishedTree
<1>3. RowsInv'
  BY <1>0, <1>1 DEF OrganizationInv, RowsInv
<1>4. SlowInv'
  BY <1>0, SlowKept
<1>5. RequestInv(c)'
  <2>1. /\ OpenRequests(c) = {}
        /\ \A i \in DOMAIN approvals[c] : approvals[c][i].status # "APPROVED"
    BY <1>1 DEF OrganizationInv, RequestInv
  <2>2. 0 \notin DOMAIN approvals[c]
    BY ChangeForm DEF OrganizationInv
  <2>3. publication'[c].approval = 0
    BY <1>1
  <2>4. OpenRequests(c)' = {}
    BY <1>0, <2>1 DEF OpenRequests
  <2> QED
    BY <1>0, <1>1, <2>1, <2>2, <2>3, <2>4 DEF RequestInv
<1>6. RiskInv(c)'
  <2>1. publication'[c].ops = ActiveOps(c)
    BY <1>1
  <2> QED
    BY <1>0, <1>1, <2>1 DEF RiskInv, LowRisk, HighRisk
<1>7. ASSUME NEW d \in ChangeSets, d # c PROVE RequestInv(d)' /\ RiskInv(d)'
  BY <1>0, <1>1, <1>7, RowKept DEF OrganizationInv
<1> QED
  BY <1>2, <1>3, <1>4, <1>5, <1>6, <1>7 DEF OrganizationInv

LEMMA ApprovedKeeps ==
    ASSUME OrganizationInv, NEW call, call.change \in ChangeSets, call.by \in Staff,
           call.at \in DOMAIN approvals[call.change],
           approvals[call.change][call.at].by # call.by \/ call.by \in Emergency,
           Approved(call), SlowInv'
    PROVE  OrganizationInv'
<1> DEFINE c == call.change
           i == call.at
           by == call.by
<1>0. /\ changeSet[c].author # by \/ by \in Emergency
      /\ i \in OpenRequests(c) /\ Publish(c, "PENDING_APPROVAL", i)
      /\ approvals' = Decided(c, i, "APPROVED", by)
  BY DEF Approved, StillOpen
<1>0a. c \in ChangeSets /\ i \in DOMAIN approvals[c] /\ by \in Staff \cup {Null} /\ RowsInv
       /\ (approvals[c][i].by # by \/ by \in Emergency)
  BY DEF OrganizationInv
<1> HIDE DEF c, i, by
<1>0b. i \in Nat \ {0}
  BY <1>0a, ChangeForm
<1>1. /\ changeSet[c].status = "PENDING_APPROVAL" /\ changeSet'[c].status = "PUBLISHED"
      /\ changeSet'[c].author = changeSet[c].author
      /\ publication'[c] = [ops |-> ActiveOps(c), approval |-> i]
      /\ \A d \in ChangeSets : d # c => changeSet'[d] = changeSet[d] /\ publication'[d] = publication[d]
      /\ changeSet' \in [ChangeSets -> ChangeRow] /\ publication' \in [ChangeSets -> PublicationRow]
      /\ version' \in Nat
  BY <1>0, <1>0a, <1>0b, PublishedRows
<1>2. /\ approvals' \in [ChangeSets -> Seq(ApprovalRow)]
      /\ \A d \in ChangeSets : d # c => approvals'[d] = approvals[d]
      /\ DOMAIN approvals'[c] = DOMAIN approvals[c]
      /\ \A j \in DOMAIN approvals[c] :
           approvals'[c][j] = IF j = i THEN RequestForm(c, i, "APPROVED", by) ELSE approvals[c][j]
  BY <1>0, <1>0a, DecidedForm
<1>3. TreeInv'
  BY <1>0, <1>0a, PublishedTree
<1>4. RowsInv'
  BY <1>1, <1>2 DEF RowsInv
<1>5. RequestInv(c)'
  <2>1. OpenRequests(c) = {i}
    BY <1>0, <1>0a, <1>1 DEF OrganizationInv, RequestInv
  <2>2. \A j \in DOMAIN approvals[c] : j # i => approvals[c][j].status \notin {"PENDING", "APPROVED"}
    BY <1>0a, <1>1, <2>1 DEF OrganizationInv, RequestInv, OpenRequests
  <2>3. RequestForm(c, i, "APPROVED", by).status = "APPROVED"
    BY DEF RequestForm
  <2>4. \A j \in DOMAIN approvals'[c] :
          approvals'[c][j].status # "PENDING" /\ (approvals'[c][j].status = "APPROVED" <=> j = i)
    BY <1>2, <2>2, <2>3
  <2>5. OpenRequests(c)' = {}
    BY <2>4 DEF OpenRequests
  <2>6. publication'[c].approval = i
    BY <1>1
  <2> QED
    BY <1>1, <2>4, <2>5, <2>6 DEF RequestInv
<1>6. RiskInv(c)'
  <2>1. approvals'[c][i].decider = by /\ approvals'[c][i].by = approvals[c][i].by
    BY <1>0a, <1>2 DEF RequestForm
  <2>2. publication'[c].approval = i
    BY <1>1
  <2> QED
    BY <1>0, <1>0a, <1>0b, <1>1, <2>1, <2>2 DEF RiskInv
<1>7. ASSUME NEW d \in ChangeSets, d # c PROVE RequestInv(d)' /\ RiskInv(d)'
  BY <1>1, <1>2, <1>7, RowKept DEF OrganizationInv
<1> QED
  BY <1>3, <1>4, <1>5, <1>6, <1>7 DEF OrganizationInv

-----------------------------------------------------------------------------
(* Every step *)

LEMMA DraftSteps ==
    ASSUME OrganizationInv,
           \/ \E c \in ChangeSets : EditDraft(c) \/ ReadDraft(c)
           \/ \E c \in ChangeSets, p \in Staff : CreateChangeSet(p, c) \/ CancelChangeSet(p, c)
           \/ WriteDraft \/ GiveUp
    PROVE  OrganizationInv'
<1>0. RowsInv
  BY DEF OrganizationInv
<1>1. ASSUME NEW c \in ChangeSets, EditDraft(c) PROVE OrganizationInv'
  <2>1. PICK call \in CallsOf(c) : Acts(call)
    BY <1>1 DEF EditDraft
  <2>2. UNCHANGED <<treeVars, approvals, slowCall>>
    BY <1>1 DEF EditDraft
  <2>3. call.change = c /\ (call.step = "append" => call.op \in Operations)
    BY CallsOfForm
  <2>4. Drafted(c)
    BY <1>0, <2>1, <2>3, ActsDraft
  <2>5. SlowInv'
    BY <2>2, SlowKept
  <2> QED
    BY <2>2, <2>4, <2>5, DraftedKeeps
<1>2. ASSUME NEW c \in ChangeSets, ReadDraft(c) PROVE OrganizationInv'
  <2>1. slowCall' \in CallsOf(c) /\ UNCHANGED <<treeVars, changeSet, approvals>>
    BY <1>2 DEF ReadDraft
  <2>2. PICK call \in CallsOf(c) : slowCall' = call
    BY <2>1
  <2>3. /\ call.change = c /\ call.step \in {"append", "undo", "redo", "validate"}
        /\ call.step = "append" => call.op \in Operations
    BY CallsOfForm
  <2>4. SlowInv'
    BY <2>2, <2>3 DEF SlowInv
  <2>5. Drafted(c)
    BY <1>0, <2>1 DEF Drafted, RowsInv
  <2> QED
    BY <2>1, <2>4, <2>5, DraftedKeeps
<1>3. ASSUME NEW c \in ChangeSets, NEW p \in Staff, CreateChangeSet(p, c) PROVE OrganizationInv'
  <2> DEFINE row == [status |-> "DRAFT", base |-> version, author |-> p, ops |-> <<>>]
  <2>1. /\ UNCHANGED <<unit, closure, version, publication, approvals, slowCall>>
        /\ changeSet[c].status = "none" /\ changeSet' = [changeSet EXCEPT ![c] = row]
    BY <1>3 DEF CreateChangeSet, treeVars, Status, WritesChange
  <2>2. row \in ChangeRow
    <3>1. <<>> \in Seq(OpRow) /\ version \in Nat
      BY <1>0 DEF RowsInv
    <3> QED
      BY <3>1 DEF ChangeRow
  <2>3. row.status = "DRAFT"
    OBVIOUS
  <2> HIDE DEF row
  <2>4. RowsInv' /\ changeSet'[c] = row /\ \A d \in ChangeSets : d # c => changeSet'[d] = changeSet[d]
    BY <1>0, <2>1, <2>2 DEF RowsInv
  <2>5. TreeInv' /\ SlowInv'
    BY <2>1, SlowKept DEF OrganizationInv, TreeInv
  <2>6. ASSUME NEW d \in ChangeSets PROVE RequestInv(d)' /\ RiskInv(d)'
    <3>1. CASE d = c
      BY <2>1, <2>3, <2>4, <3>1, RowKept DEF OrganizationInv
    <3>2. CASE d # c
      BY <2>1, <2>4, <3>2, RowKept DEF OrganizationInv
    <3> QED
      BY <3>1, <3>2
  <2> QED
    BY <2>4, <2>5, <2>6 DEF OrganizationInv
<1>4. ASSUME NEW c \in ChangeSets, NEW p \in Staff, CancelChangeSet(p, c) PROVE OrganizationInv'
  <2>1. /\ UNCHANGED <<treeVars, approvals, slowCall>>
        /\ changeSet[c].status \in {"DRAFT", "VALIDATED"}
        /\ changeSet' = [changeSet EXCEPT ![c].status = "CANCELLED"]
    BY <1>4 DEF CancelChangeSet
  <2>2. changeSet[c] \in ChangeRow /\ [changeSet[c] EXCEPT !.status = "CANCELLED"] \in ChangeRow
    BY <1>0, ChangeForm, ChangeRowForm
  <2>3. Drafted(c)
    BY <1>0, <2>1, <2>2 DEF Drafted, RowsInv, ChangeRow
  <2>4. SlowInv'
    BY <2>1, SlowKept
  <2> QED
    BY <2>1, <2>3, <2>4, DraftedKeeps
<1>5. CASE WriteDraft
  <2> DEFINE c == slowCall.change
  <2>1. /\ Acts(slowCall) /\ slowCall' = NothingRead /\ UNCHANGED <<treeVars, approvals>>
    BY <1>5 DEF WriteDraft
  <2>2. slowCall.step # "none"
    BY <2>1 DEF Acts, RowAppended, RowChanged, StatusChanged
  <2>3. c \in ChangeSets /\ (slowCall.step = "append" => slowCall.op \in Operations)
    BY <2>2 DEF OrganizationInv, SlowInv
  <2>4. Drafted(c)
    BY <1>0, <2>1, <2>3, ActsDraft
  <2>5. SlowInv'
    BY <2>1 DEF SlowInv, NothingRead
  <2> QED
    BY <2>1, <2>3, <2>4, <2>5, DraftedKeeps
<1>6. CASE GiveUp
  <2>1. slowCall' = NothingRead /\ UNCHANGED <<treeVars, changeSet, approvals>>
    BY <1>6 DEF GiveUp
  <2>2. SlowInv'
    BY <2>1 DEF SlowInv, NothingRead
  <2>3. /\ UNCHANGED <<unit, closure, version, publication, changeSet, approvals>>
    BY <2>1 DEF treeVars
  <2>4. ASSUME NEW d \in ChangeSets PROVE RequestInv(d)' /\ RiskInv(d)'
    BY <2>3, RowKept DEF OrganizationInv
  <2> QED
    BY <2>2, <2>3, <2>4 DEF OrganizationInv, RowsInv, TreeInv
<1> QED
  BY <1>1, <1>2, <1>3, <1>4, <1>5, <1>6

LEMMA DecisionSteps ==
    ASSUME OrganizationInv,
           \/ \E c \in ChangeSets, p \in Staff :
                \/ SubmitChangeSet(p, c) \/ WithdrawChangeSet(p, c)
                \/ ApproveChange(p, c) \/ ReadApproval(p, c) \/ RejectChange(p, c)
           \/ \E c \in ChangeSets : PublishLowRisk(c)
           \/ WriteApproval
    PROVE  OrganizationInv'
<1>0. RowsInv
  BY DEF OrganizationInv
<1>1. ASSUME NEW c \in ChangeSets, NEW p \in Staff, WithdrawChangeSet(p, c) PROVE OrganizationInv'
  <2>1. PICK i \in OpenRequests(c) : approvals' = Decided(c, i, "REJECTED", Null)
    BY <1>1 DEF WithdrawChangeSet
  <2>2. /\ changeSet[c].status = "PENDING_APPROVAL" /\ UNCHANGED <<treeVars, slowCall>>
        /\ changeSet' = [changeSet EXCEPT ![c].status = "VALIDATED"]
    BY <1>1 DEF WithdrawChangeSet, Status
  <2> QED
    BY <2>1, <2>2, ClosingKeeps
<1>2. ASSUME NEW c \in ChangeSets, NEW p \in Staff, RejectChange(p, c) PROVE OrganizationInv'
  <2>1. PICK i \in OpenRequests(c) : approvals' = Decided(c, i, "REJECTED", p)
    BY <1>2 DEF RejectChange
  <2>2. /\ changeSet[c].status = "PENDING_APPROVAL" /\ UNCHANGED <<treeVars, slowCall>>
        /\ changeSet' = [changeSet EXCEPT ![c].status = "REJECTED"]
    BY <1>2 DEF RejectChange, Status
  <2> QED
    BY <2>1, <2>2, ClosingKeeps
<1>3. ASSUME NEW c \in ChangeSets, NEW p \in Staff, ApproveChange(p, c) PROVE OrganizationInv'
  <2>1. PICK i \in OpenRequests(c) : Approves(p, c, i) /\ Approved(ApproveCall(p, c, i))
    BY <1>3 DEF ApproveChange
  <2> DEFINE call == ApproveCall(p, c, i)
  <2>2. call.change = c /\ call.by = p /\ call.at = i
    BY DEF ApproveCall
  <2>3. i \in DOMAIN approvals[c] /\ (approvals[c][i].by # p \/ p \in Emergency)
    BY <2>1 DEF Approves, OpenRequests
  <2>4. Approved(call)
    BY <2>1
  <2>5. approvals' = Decided(c, i, "APPROVED", p)
    BY <2>2, <2>4 DEF Approved
  <2>6. SlowInv'
    <3>1. p \in Staff \cup {Null} /\ UNCHANGED slowCall
      BY <1>3 DEF ApproveChange
    <3> QED
      BY <2>3, <2>5, <3>1, DecidedSlow, SlowKept
  <2> HIDE DEF call
  <2> QED
    BY <2>2, <2>3, <2>4, <2>6, ApprovedKeeps
<1>4. CASE WriteApproval
  <2>1. Approved(slowCall) /\ slowCall' = NothingRead
    BY <1>4 DEF WriteApproval
  <2>2. slowCall.step = "approve"
    BY <2>1 DEF Approved
  <2>3. SlowInv'
    BY <2>1 DEF SlowInv, NothingRead
  <2>4. /\ slowCall.change \in ChangeSets /\ slowCall.by \in Staff
        /\ slowCall.at \in DOMAIN approvals[slowCall.change]
        /\ approvals[slowCall.change][slowCall.at].by # slowCall.by \/ slowCall.by \in Emergency
    BY <2>2 DEF OrganizationInv, SlowInv
  <2> QED
    BY <2>1, <2>3, <2>4, ApprovedKeeps
<1>5. ASSUME NEW c \in ChangeSets, NEW p \in Staff, ReadApproval(p, c) PROVE OrganizationInv'
  <2>1. PICK i \in OpenRequests(c) : Approves(p, c, i) /\ slowCall' = ApproveCall(p, c, i)
    BY <1>5 DEF ReadApproval
  <2>2. UNCHANGED <<treeVars, changeSet, approvals>>
    BY <1>5 DEF ReadApproval
  <2>3. i \in DOMAIN approvals[c] /\ (approvals[c][i].by # p \/ p \in Emergency)
    BY <2>1 DEF Approves, OpenRequests
  <2>4. slowCall'.step = "approve" /\ slowCall'.change = c /\ slowCall'.by = p /\ slowCall'.at = i
    BY <2>1 DEF ApproveCall
  <2>5. SlowInv'
    BY <2>2, <2>3, <2>4 DEF SlowInv
  <2>6. Drafted(c)
    BY <1>0, <2>2 DEF Drafted, RowsInv
  <2> QED
    BY <2>2, <2>5, <2>6, DraftedKeeps
<1> QED
  BY <1>1, <1>2, <1>3, <1>4, <1>5, SubmitKeeps, LowRiskKeeps

LEMMA OrganizationKeeps == OrganizationSpec => []OrganizationInv
<1>1. OrganizationInv /\ OrganizationNext => OrganizationInv'
  BY DraftSteps, DecisionSteps DEF OrganizationNext
<1>2. OrganizationInv /\ UNCHANGED organizationVars => OrganizationInv'
  <2> SUFFICES ASSUME OrganizationInv, UNCHANGED organizationVars PROVE OrganizationInv'
    OBVIOUS
  <2>1. UNCHANGED <<unit, closure, version, publication, changeSet, approvals, slowCall>>
    BY DEF organizationVars
  <2>2. ASSUME NEW d \in ChangeSets PROVE RequestInv(d)' /\ RiskInv(d)'
    BY <2>1, RowKept DEF OrganizationInv
  <2> QED
    BY <2>1, <2>2 DEF OrganizationInv, RowsInv, TreeInv, SlowInv
<1> QED
  BY <1>1, <1>2, OrganizationBegins, PTL DEF OrganizationSpec

-----------------------------------------------------------------------------
(* What the organization relies on *)

LEMMA TreeIsExact == OrganizationInv => ClosureIsExact
<1> SUFFICES ASSUME OrganizationInv, NEW a \in Units, NEW d \in Units
             PROVE  /\ <<a, d>> \in closure <=> d \in Living(unit) /\ (a = d \/ <<a, unit[d].parent>> \in closure)
                    /\ <<a, d>> \in closure /\ <<d, a>> \in closure => a = d
  BY DEF ClosureIsExact
<1>1. Sound(unit) /\ closure = Rebuilt(unit)
  BY DEF OrganizationInv, TreeInv
<1> QED
  BY <1>1, ClosureIsRecursive, ClosureHasNoCycle

LEMMA RequestsAreFollowed == OrganizationInv => RequestsFollowChanges
<1> SUFFICES ASSUME OrganizationInv, NEW c \in ChangeSets
             PROVE  /\ Cardinality(OpenRequests(c)) = IF Status(c, "PENDING_APPROVAL") THEN 1 ELSE 0
                    /\ \A i \in DOMAIN approvals[c] :
                         approvals[c][i].status = "APPROVED" <=>
                           Status(c, "PUBLISHED") /\ publication[c].approval = i
  BY DEF RequestsFollowChanges
<1>1. RequestInv(c)
  BY DEF OrganizationInv
<1>2. Cardinality({}) = 0 /\ \A i : Cardinality({i}) = 1
  BY FS_EmptySet, FS_Singleton
<1> QED
  BY <1>1, <1>2 DEF RequestInv, Status

LEMMA RiskIsApproved == OrganizationInv => HighRiskIsApproved
BY DEF OrganizationInv, RiskInv, HighRisk, HighRiskIsApproved

LEMMA MovesSignOut ==
    ASSUME OrganizationInv, NEW c \in ChangeSets, NEW from, NEW approval, Publish(c, from, approval),
           NEW x \in Workers \cup Bots, ChainOf(HomeOf[x])' # ChainOf(HomeOf[x])
    PROVE  x \in signedOut'
<1> DEFINE u == HomeOf[x]
           ops == ActiveOps(c)
<1>0. u \in DOMAIN FirstTree /\ u \in Units
  OBVIOUS
<1>1. /\ TreeInv /\ TreeInv'
      /\ \A w \in Living(unit) : /\ w \in Living(unit')
                                 /\ unit'[w].parent # unit[w].parent =>
                                      \E op \in ops : op.kind = "MOVE" /\ op.target = w
  BY PublishedTree DEF OrganizationInv
<1>2. /\ Sound(unit) /\ closure = Rebuilt(unit) /\ u \in Living(unit)
      /\ Sound(unit') /\ closure' = Rebuilt(unit')
  BY <1>0, <1>1 DEF TreeInv, Living
<1>3. Revokes(ops)
  BY DEF Publish
<1>4. ChainOf(HomeOf[x]) = {a \in Units : <<a, u>> \in closure}
  BY DEF ChainOf
<1>5. ChainOf(HomeOf[x])' = {a \in Units : <<a, u>> \in closure'}
  BY DEF ChainOf
<1> HIDE DEF u, ops
<1>6. PICK w \in Living(unit) : <<w, u>> \in Rebuilt(unit) /\ unit'[w].parent # unit[w].parent
  <2> SUFFICES ASSUME \A w \in Living(unit) : <<w, u>> \in Rebuilt(unit) => unit'[w].parent = unit[w].parent
               PROVE  FALSE
    OBVIOUS
  <2>1. PICK next : next = unit'
    OBVIOUS
  <2>2. \A a \in Units : <<a, u>> \in Rebuilt(unit) <=> <<a, u>> \in Rebuilt(next)
    BY <1>1, <1>2, <2>1, ChainStays
  <2> QED
    BY <1>2, <1>4, <1>5, <2>1, <2>2
<1>7. PICK op \in ops : op.kind = "MOVE" /\ op.target = w
  BY <1>1, <1>6
<1>8. u \in Subtree(w)
  <2> DEFINE e == <<w, u>>
  <2>1. e \in closure /\ e[1] = w /\ e[2] = u
    BY <1>2, <1>6
  <2> HIDE DEF e
  <2> QED
    BY <2>1 DEF Subtree
<1>9. u \in Touched(ops)
  BY <1>7, <1>8 DEF Touched
<1>10. (x \in Workers => x \in Affected(ops, Workers)) /\ (x \in Bots => x \in Affected(ops, Bots))
  BY <1>9 DEF Affected, u
<1>11. Affected(ops, Workers) \cup Affected(ops, Bots) \subseteq signedOut'
  BY <1>3 DEF Revokes
<1> QED
  BY <1>10, <1>11

LEMMA OnlyPublicationsMove ==
    ASSUME OrganizationInv, OrganizationNext, NEW x \in Workers \cup Bots,
           ChainOf(HomeOf[x])' # ChainOf(HomeOf[x])
    PROVE  x \in signedOut'
<1>1. closure' # closure
  BY DEF ChainOf
<1>2. ~UNCHANGED treeVars
  BY <1>1 DEF treeVars
<1>3. ASSUME NEW c \in ChangeSets, PublishLowRisk(c) PROVE x \in signedOut'
  BY <1>3, MovesSignOut DEF PublishLowRisk
<1>4. ASSUME NEW call, call.change \in ChangeSets, Approved(call) PROVE x \in signedOut'
  BY <1>4, MovesSignOut DEF Approved
<1>5. ASSUME NEW c \in ChangeSets, NEW p \in Staff, ApproveChange(p, c) PROVE x \in signedOut'
  <2>1. PICK i \in OpenRequests(c) : Approved(ApproveCall(p, c, i))
    BY <1>5 DEF ApproveChange
  <2>2. ApproveCall(p, c, i).change = c
    BY DEF ApproveCall
  <2> QED
    BY <1>4, <2>1, <2>2
<1>6. ASSUME WriteApproval PROVE x \in signedOut'
  <2>1. Approved(slowCall) /\ slowCall.step = "approve"
    BY <1>6 DEF WriteApproval, Approved
  <2>2. slowCall.change \in ChangeSets
    BY <2>1 DEF OrganizationInv, SlowInv
  <2> QED
    BY <1>4, <2>1, <2>2
<1> QED
  BY <1>2, <1>3, <1>5, <1>6
     DEF OrganizationNext, EditDraft, ReadDraft, CreateChangeSet, CancelChangeSet, SubmitChangeSet,
         WithdrawChangeSet, ReadApproval, RejectChange, WriteDraft, GiveUp

(* Changes of the organization, however drafts and approvals overtake each    *)
(* other: the closure that scopes every permission is that of the tree, which *)
(* stays one; requests follow their change sets; high risk is approved by     *)
(* another; and whoever moves with a unit loses sessions and tokens.          *)
THEOREM OrganizationIsGoverned == OrganizationSpec => OrganizationHolds
<1> DEFINE SignedOut == \A x \in Workers \cup Bots :
                          ChainOf(HomeOf[x])' # ChainOf(HomeOf[x]) => x \in signedOut'
<1>1. OrganizationInv /\ OrganizationNext => SignedOut
  BY OnlyPublicationsMove
<1>2. OrganizationSpec => MovedLoseAccess
  <2>1. OrganizationInv /\ [OrganizationNext]_organizationVars => [SignedOut]_organizationVars
    BY <1>1
  <2>2. MovedLoseAccess <=> [][SignedOut]_organizationVars
    BY DEF MovedLoseAccess
  <2> HIDE DEF SignedOut
  <2> QED
    BY <2>1, <2>2, OrganizationKeeps, PTL DEF OrganizationSpec
<1>3. OrganizationSpec => []ClosureIsExact /\ []RequestsFollowChanges /\ []HighRiskIsApproved
  BY OrganizationKeeps, TreeIsExact, RequestsAreFollowed, RiskIsApproved, PTL
<1> QED
  BY <1>2, <1>3 DEF OrganizationHolds

-----------------------------------------------------------------------------
(* What the columns of the organization admit, beyond the invariant: a change *)
(* set starts from a published version, and a publication names a request     *)
(* that is there.                                                             *)

BasesPublished == \A c \in ChangeSets : changeSet[c].base \in 0..version
RequestsThere == \A c \in ChangeSets : publication[c].approval \in {0} \cup DOMAIN approvals[c]
SlowStep == slowCall.step \in {"none", "append", "undo", "redo", "validate", "approve"}
OrganizationTypes ==
    /\ version \in 1..MaxPublished /\ BasesPublished /\ RequestsThere /\ SlowStep
    /\ signedOut \subseteq Workers \cup Bots

(* A step that creates no change set keeps every base. *)
LEMMA BasesKept ==
    ASSUME OrganizationInv, OrganizationNext, NEW d \in ChangeSets
    PROVE  changeSet'[d].base \in {changeSet[d].base, version}
<1>0. changeSet \in [ChangeSets -> ChangeRow] /\ changeSet[d] \in ChangeRow
  BY DEF OrganizationInv, RowsInv
<1>1. ASSUME NEW c \in ChangeSets, NEW status, changeSet' = [changeSet EXCEPT ![c].status = status]
      PROVE  changeSet'[d].base = changeSet[d].base
  <2> DEFINE row == [changeSet[c] EXCEPT !.status = status]
  <2>1. row.base = changeSet[c].base
    BY <1>0 DEF ChangeRow
  <2>2. changeSet' = [changeSet EXCEPT ![c] = row]
    BY <1>1
  <2> HIDE DEF row
  <2> QED
    BY <1>0, <2>1, <2>2
<1>2. ASSUME NEW c \in ChangeSets, NEW ops, changeSet' = [changeSet EXCEPT ![c].ops = ops]
      PROVE  changeSet'[d].base = changeSet[d].base
  <2> DEFINE row == [changeSet[c] EXCEPT !.ops = ops]
  <2>1. row.base = changeSet[c].base
    BY <1>0 DEF ChangeRow
  <2>2. changeSet' = [changeSet EXCEPT ![c] = row]
    BY <1>2
  <2> HIDE DEF row
  <2> QED
    BY <1>0, <2>1, <2>2
<1>3. ASSUME NEW draft, draft.change \in ChangeSets, Acts(draft) PROVE changeSet'[d].base = changeSet[d].base
  <2> DEFINE c == draft.change
             appended == Append(changeSet[c].ops, [op |-> draft.op, active |-> TRUE])
             redone == draft.step = "redo"
             changed == [changeSet[c].ops EXCEPT ![draft.at].active = redone]
             status == IF draft.valid THEN "VALIDATED" ELSE "DRAFT"
  <2>1. CASE RowAppended(draft)
    <3>1. changeSet' = [changeSet EXCEPT ![c].ops = appended]
      BY <1>0, <2>1 DEF RowAppended
    <3> HIDE DEF appended
    <3> QED
      BY <1>2, <1>3, <3>1
  <2>2. CASE RowChanged(draft)
    <3>1. changeSet' = [changeSet EXCEPT ![c].ops = changed]
      BY <1>0, <2>2 DEF RowChanged
    <3> HIDE DEF changed
    <3> QED
      BY <1>2, <1>3, <3>1
  <2>3. CASE StatusChanged(draft)
    <3>1. changeSet' = [changeSet EXCEPT ![c].status = status]
      BY <2>3 DEF StatusChanged
    <3> HIDE DEF status
    <3> QED
      BY <1>1, <1>3, <3>1
  <2> QED
    BY <1>3, <2>1, <2>2, <2>3 DEF Acts
<1>4. ASSUME NEW c \in ChangeSets, EditDraft(c) PROVE changeSet'[d].base = changeSet[d].base
  <2>1. PICK draft \in CallsOf(c) : Acts(draft)
    BY <1>4 DEF EditDraft
  <2> QED
    BY <1>3, <2>1, CallsOfForm
<1>5. CASE WriteDraft
  <2>1. slowCall.change \in ChangeSets /\ Acts(slowCall)
    BY <1>5 DEF WriteDraft, Acts, RowAppended, RowChanged, StatusChanged, OrganizationInv, SlowInv
  <2> QED
    BY <1>3, <2>1
<1>6. ASSUME NEW c \in ChangeSets, NEW p \in Staff,
             CancelChangeSet(p, c) \/ SubmitChangeSet(p, c) \/ WithdrawChangeSet(p, c) \/ RejectChange(p, c)
      PROVE  changeSet'[d].base = changeSet[d].base
  BY <1>1, <1>6 DEF CancelChangeSet, SubmitChangeSet, WithdrawChangeSet, RejectChange
<1>7. ASSUME NEW c \in ChangeSets, NEW from, NEW approval, Publish(c, from, approval)
      PROVE  changeSet'[d].base = changeSet[d].base
  BY <1>1, <1>7 DEF Publish
<1>8. ASSUME NEW c \in ChangeSets, PublishLowRisk(c) PROVE changeSet'[d].base = changeSet[d].base
  BY <1>7, <1>8 DEF PublishLowRisk
<1>9. ASSUME NEW c \in ChangeSets, NEW p \in Staff, ApproveChange(p, c)
      PROVE  changeSet'[d].base = changeSet[d].base
  <2>1. PICK i \in OpenRequests(c) : Approved(ApproveCall(p, c, i))
    BY <1>9 DEF ApproveChange
  <2>2. ApproveCall(p, c, i).change = c
    BY DEF ApproveCall
  <2> QED
    BY <1>7, <2>1, <2>2 DEF Approved
<1>10. CASE WriteApproval
  <2>1. slowCall.change \in ChangeSets /\ Approved(slowCall)
    BY <1>10 DEF WriteApproval, Approved, OrganizationInv, SlowInv
  <2> QED
    BY <1>7, <2>1 DEF Approved
<1>11. ASSUME NEW c \in ChangeSets, NEW p \in Staff, CreateChangeSet(p, c)
       PROVE  changeSet'[d].base \in {changeSet[d].base, version}
  <2> DEFINE row == [status |-> "DRAFT", base |-> version, author |-> p, ops |-> <<>>]
  <2>1. changeSet' = [changeSet EXCEPT ![c] = row] /\ row.base = version
    BY <1>11 DEF CreateChangeSet, WritesChange
  <2> HIDE DEF row
  <2> QED
    BY <1>0, <2>1
<1>12. ASSUME NEW c \in ChangeSets, NEW p \in Staff, ReadDraft(c) \/ ReadApproval(p, c)
       PROVE  changeSet' = changeSet
  BY <1>12 DEF ReadDraft, ReadApproval
<1>13. ASSUME NEW c \in ChangeSets, ReadDraft(c) PROVE changeSet' = changeSet
  BY <1>13 DEF ReadDraft
<1>14. CASE GiveUp
  BY <1>14 DEF GiveUp
<1> QED
  BY <1>4, <1>5, <1>6, <1>8, <1>9, <1>10, <1>11, <1>12, <1>13, <1>14 DEF OrganizationNext

(* Requests are decided, never removed. *)
LEMMA RequestsStay ==
    ASSUME OrganizationInv, OrganizationNext, NEW d \in ChangeSets
    PROVE  DOMAIN approvals[d] \subseteq DOMAIN approvals'[d]
<1>0. RowsInv
  BY DEF OrganizationInv
<1>1. ASSUME NEW c \in ChangeSets, NEW i \in DOMAIN approvals[c], NEW status \in {"PENDING", "APPROVED", "REJECTED"},
             NEW by \in Staff \cup {Null}, approvals' = Decided(c, i, status, by)
      PROVE  DOMAIN approvals[d] \subseteq DOMAIN approvals'[d]
  BY <1>0, <1>1, DecidedForm
<1>2. ASSUME NEW c \in ChangeSets, NEW p \in Staff, SubmitChangeSet(p, c)
      PROVE  DOMAIN approvals[d] \subseteq DOMAIN approvals'[d]
  <2> DEFINE one == [by |-> p, status |-> "PENDING", decider |-> Null]
             rows == approvals[c]
  <2>1. approvals' = [approvals EXCEPT ![c] = Append(rows, one)] /\ rows \in Seq(ApprovalRow)
        /\ approvals \in [ChangeSets -> Seq(ApprovalRow)] /\ one \in ApprovalRow
    BY <1>0, <1>2, ChangeForm DEF SubmitChangeSet, RowsInv, ApprovalRow
  <2> HIDE DEF one, rows
  <2>2. DOMAIN rows \subseteq DOMAIN Append(rows, one)
    BY <2>1
  <2> QED
    BY <2>1, <2>2 DEF rows
<1>3. ASSUME NEW c \in ChangeSets, NEW p \in Staff, WithdrawChangeSet(p, c) \/ RejectChange(p, c)
      PROVE  DOMAIN approvals[d] \subseteq DOMAIN approvals'[d]
  <2>1. PICK i \in DOMAIN approvals[c], by \in Staff \cup {Null} : approvals' = Decided(c, i, "REJECTED", by)
    BY <1>3 DEF WithdrawChangeSet, RejectChange, OpenRequests
  <2> QED
    BY <1>1, <2>1
<1>4. ASSUME NEW approval, approval.change \in ChangeSets, approval.by \in Staff, Approved(approval)
      PROVE  DOMAIN approvals[d] \subseteq DOMAIN approvals'[d]
  <2>1. /\ approval.at \in DOMAIN approvals[approval.change] /\ approval.by \in Staff \cup {Null}
        /\ approvals' = Decided(approval.change, approval.at, "APPROVED", approval.by)
    BY <1>4 DEF Approved, StillOpen, OpenRequests
  <2> QED
    BY <1>1, <1>4, <2>1
<1>5. ASSUME NEW c \in ChangeSets, NEW p \in Staff, ApproveChange(p, c)
      PROVE  DOMAIN approvals[d] \subseteq DOMAIN approvals'[d]
  <2>1. PICK i \in OpenRequests(c) : Approved(ApproveCall(p, c, i))
    BY <1>5 DEF ApproveChange
  <2>2. ApproveCall(p, c, i).change = c /\ ApproveCall(p, c, i).by = p
    BY DEF ApproveCall
  <2> QED
    BY <1>4, <2>1, <2>2
<1>6. CASE WriteApproval
  <2>1. slowCall.change \in ChangeSets /\ slowCall.by \in Staff /\ Approved(slowCall)
    BY <1>6 DEF WriteApproval, Approved, OrganizationInv, SlowInv
  <2> QED
    BY <1>4, <2>1
<1>7. CASE UNCHANGED approvals
  BY <1>7
<1> QED
  BY <1>2, <1>3, <1>5, <1>6, <1>7
     DEF OrganizationNext, EditDraft, ReadDraft, CreateChangeSet, CancelChangeSet, ReadApproval,
         PublishLowRisk, WriteDraft, GiveUp

(* A publication is for the next version, and signs out people and agents. *)
LEMMA PublishesTyped ==
    ASSUME OrganizationInv, OrganizationTypes, NEW c \in ChangeSets, NEW from, NEW approval,
           approval \in {0} \cup DOMAIN approvals[c], Publish(c, from, approval)
    PROVE  /\ version' \in 1..MaxPublished /\ version <= version'
           /\ signedOut' \subseteq Workers \cup Bots
           /\ \A d \in ChangeSets : publication'[d].approval \in {0} \cup DOMAIN approvals[d]
<1>1. version' = version + 1 /\ version < MaxPublished /\ version \in 1..MaxPublished
  BY DEF Publish, OrganizationTypes
<1>2. signedOut' \subseteq Workers \cup Bots
  <2> DEFINE people == Affected(ActiveOps(c), Workers)
             agents == Affected(ActiveOps(c), Bots)
  <2>1. people \subseteq Workers /\ agents \subseteq Bots
    BY DEF Affected
  <2>2. IF agents = {} THEN signedOut' = people
        ELSE \E last \in people : signedOut' = people \cup agents \cup {g \in Bots : OwnerOf[g] = last}
    BY DEF Publish, Revokes
  <2> HIDE DEF people, agents
  <2> QED
    BY <2>1, <2>2
<1>3. \A d \in ChangeSets : publication'[d].approval \in {0} \cup DOMAIN approvals[d]
  <2> DEFINE ops == ActiveOps(c)
             row == [ops |-> ops, approval |-> approval]
  <2>1. publication' = [publication EXCEPT ![c] = row] /\ row.approval = approval
    BY DEF Publish
  <2>2. publication \in [ChangeSets -> PublicationRow] /\ RequestsThere
    BY DEF OrganizationInv, RowsInv, OrganizationTypes
  <2> HIDE DEF row
  <2> QED
    BY <2>1, <2>2 DEF RequestsThere
<1> QED
  BY <1>1, <1>2, <1>3

LEMMA OrganizationTypesKeep ==
    ASSUME OrganizationInv, OrganizationTypes, OrganizationNext
    PROVE  OrganizationTypes'
<1>0. /\ version \in 1..MaxPublished /\ BasesPublished /\ RequestsThere /\ SlowStep
      /\ signedOut \subseteq Workers \cup Bots
  BY DEF OrganizationTypes
<1> DEFINE Later == /\ version' \in 1..MaxPublished /\ version <= version'
                    /\ signedOut' \subseteq Workers \cup Bots
                    /\ \A d \in ChangeSets : publication'[d].approval \in {0} \cup DOMAIN approvals[d]
<1>1. Later
  <2>1. ASSUME NEW c \in ChangeSets, PublishLowRisk(c) PROVE Later
    BY <2>1, PublishesTyped DEF PublishLowRisk
  <2>2. ASSUME NEW approval, approval.change \in ChangeSets, Approved(approval) PROVE Later
    <3>1. /\ approval.at \in {0} \cup DOMAIN approvals[approval.change]
          /\ Publish(approval.change, "PENDING_APPROVAL", approval.at)
      BY <2>2 DEF Approved, StillOpen, OpenRequests
    <3> QED
      BY <2>2, <3>1, PublishesTyped
  <2>3. ASSUME NEW c \in ChangeSets, NEW p \in Staff, ApproveChange(p, c) PROVE Later
    <3>1. PICK i \in OpenRequests(c) : Approved(ApproveCall(p, c, i))
      BY <2>3 DEF ApproveChange
    <3>2. ApproveCall(p, c, i).change = c
      BY DEF ApproveCall
    <3> HIDE DEF Later
    <3> QED
      BY <2>2, <3>1, <3>2
  <2>4. CASE WriteApproval
    <3>1. slowCall.change \in ChangeSets /\ Approved(slowCall)
      BY <2>4 DEF WriteApproval, Approved, OrganizationInv, SlowInv
    <3> HIDE DEF Later
    <3> QED
      BY <2>2, <3>1
  <2>5. CASE UNCHANGED treeVars
    BY <1>0, <2>5 DEF treeVars, RequestsThere
  <2> HIDE DEF Later
  <2> QED
    BY <2>1, <2>3, <2>4, <2>5
       DEF OrganizationNext, EditDraft, ReadDraft, CreateChangeSet, CancelChangeSet, SubmitChangeSet,
           WithdrawChangeSet, ReadApproval, RejectChange, WriteDraft, GiveUp
<1>2. BasesPublished'
  <2> SUFFICES ASSUME NEW d \in ChangeSets PROVE changeSet'[d].base \in 0..version'
    BY DEF BasesPublished
  <2>1. changeSet'[d].base \in {changeSet[d].base, version} /\ changeSet[d].base \in 0..version
    BY <1>0, BasesKept DEF BasesPublished
  <2> QED
    BY <1>0, <1>1, <2>1
<1>3. RequestsThere'
  BY <1>1, RequestsStay DEF RequestsThere
<1>4. SlowStep'
  <2>1. ASSUME NEW c \in ChangeSets, ReadDraft(c) PROVE SlowStep'
    BY <2>1, CallsOfForm DEF ReadDraft, SlowStep
  <2>2. ASSUME NEW c \in ChangeSets, NEW p \in Staff, ReadApproval(p, c) PROVE SlowStep'
    BY <2>2 DEF ReadApproval, ApproveCall, SlowStep
  <2>3. CASE slowCall' \in {slowCall, NothingRead}
    BY <1>0, <2>3 DEF SlowStep, NothingRead
  <2> QED
    BY <2>1, <2>2, <2>3
       DEF OrganizationNext, EditDraft, CreateChangeSet, CancelChangeSet, SubmitChangeSet, PublishLowRisk,
           WithdrawChangeSet, ApproveChange, RejectChange, WriteDraft, WriteApproval, GiveUp
<1> QED
  BY <1>1, <1>2, <1>3, <1>4 DEF OrganizationTypes

(* Every row of the organization and of its change sets holds what its        *)
(* columns admit.                                                             *)
THEOREM OrganizationTypesHold == OrganizationSpec => []OrganizationTypeOK
<1>1. OrganizationInit => OrganizationTypes
  <2> SUFFICES ASSUME OrganizationInit PROVE OrganizationTypes
    OBVIOUS
  <2>1. \A c \in ChangeSets : changeSet[c].base = 0 /\ publication[c].approval = 0
    BY DEF OrganizationInit, NoChange, NotPublished
  <2>2. version = 1 /\ slowCall.step = "none" /\ signedOut = {}
    BY DEF OrganizationInit, NothingRead
  <2> QED
    BY <2>1, <2>2 DEF OrganizationTypes, BasesPublished, RequestsThere, SlowStep
<1>2. OrganizationInv /\ OrganizationTypes /\ [OrganizationNext]_organizationVars => OrganizationTypes'
  <2>1. OrganizationTypes /\ UNCHANGED organizationVars => OrganizationTypes'
    BY DEF organizationVars, OrganizationTypes, BasesPublished, RequestsThere, SlowStep
  <2> QED
    BY <2>1, OrganizationTypesKeep
<1>3. OrganizationInv /\ OrganizationTypes => OrganizationTypeOK
  <2> SUFFICES ASSUME OrganizationInv, OrganizationTypes PROVE OrganizationTypeOK
    OBVIOUS
  <2>1. unit \in [Units -> [status : {"none", "ACTIVE", "RETIRED"}, parent : Units \cup {Null}]]
    BY DEF OrganizationInv, TreeInv, Sound, UnitSet
  <2>2. closure \subseteq Units \X Units
    <3>1. closure = UNION {Above(unit)[k] : k \in 0..Height} /\ Sound(unit)
      BY DEF OrganizationInv, TreeInv, Rebuilt, Height
    <3>2. Living(unit) \subseteq Units
      BY DEF Living
    <3> QED
      BY <3>1, <3>2, WalksStayInTree
  <2>3. ASSUME NEW c \in ChangeSets
        PROVE  /\ changeSet[c].status \in {"none", "DRAFT", "VALIDATED", "PENDING_APPROVAL", "PUBLISHED",
                                           "CANCELLED", "REJECTED"}
               /\ changeSet[c].base \in 0..MaxPublished /\ changeSet[c].author \in Staff \cup {Null}
               /\ \A i \in DOMAIN changeSet[c].ops : changeSet[c].ops[i] \in [op : Operations, active : BOOLEAN]
               /\ \A i \in DOMAIN approvals[c] :
                    approvals[c][i] \in [by : Staff, status : {"PENDING", "APPROVED", "REJECTED"},
                                         decider : Staff \cup {Null}]
               /\ publication[c].approval \in 0..Len(approvals[c])
    <3>1. changeSet[c] \in ChangeRow /\ changeSet[c].ops \in Seq(OpRow) /\ approvals[c] \in Seq(ApprovalRow)
      BY ChangeForm DEF OrganizationInv
    <3>2. changeSet[c].base \in 0..MaxPublished
      BY DEF OrganizationTypes, BasesPublished
    <3>3. publication[c].approval \in 0..Len(approvals[c])
      BY <3>1 DEF OrganizationTypes, RequestsThere
    <3>4. \A i \in DOMAIN changeSet[c].ops : changeSet[c].ops[i] \in OpRow
      BY <3>1
    <3>5. \A i \in DOMAIN approvals[c] : approvals[c][i] \in ApprovalRow
      BY <3>1
    <3>6. changeSet[c].author \in Staff \cup {Null}
          /\ changeSet[c].status \in {"none", "DRAFT", "VALIDATED", "PENDING_APPROVAL", "PUBLISHED",
                                      "CANCELLED", "REJECTED"}
      BY <3>1 DEF ChangeRow
    <3> QED
      BY <3>2, <3>3, <3>4, <3>5, <3>6 DEF OpRow, ApprovalRow
  <2> QED
    BY <2>1, <2>2, <2>3 DEF OrganizationTypes, SlowStep, OrganizationTypeOK
<1>4. OrganizationSpec => []OrganizationTypes
  BY <1>1, <1>2, OrganizationKeeps, PTL DEF OrganizationSpec
<1> QED
  BY <1>3, <1>4, OrganizationKeeps, PTL

HIDE OrganizationAssumption
-----------------------------------------------------------------------------
(* Definitions of graphs.  A call reads in one transaction and writes in a   *)
(* later one.  The invariant says, step by step of a call, what of its       *)
(* reading still holds when it writes: a version about to be published has   *)
(* its plan and its clearances, one about to be named or run was published,  *)
(* and no two calls record where the same version comes from.                *)

(* What a call under way has read, and what of that still holds *)

Compiling == {"validate", "plan", "replace", "persist", "review"}
ServiceCall ==
    {NoServiceCall}
    \cup [step : {"insert"}, v : VersionNos, origin : {"edit", "import", "propose"}]
    \cup [step : {"record", "alias"}, v : VersionNos]
    \cup [step : Compiling, v : VersionNos, digest : 1..MaxManifests,
          next : {"none", "review", "persist"}]
    \cup [step : {"transition"}, v : VersionNos, seen : {"DRAFT", "VALIDATED", "PUBLISHED", "DEPRECATED"},
          to : {"PUBLISHED", "DEPRECATED", "ARCHIVED"}]
    \cup [step : {"run"}, v : VersionNos, plan : 1..MaxPlans]

(* Version v was published, or archived. *)
WasPublished(v) == StatusOf(v) \in Runnable \cup {"ARCHIVED"}

(* A second transaction of the call still has to record where v comes from.  *)
Tells(a, v) == serviceCall[a].step = "record" /\ serviceCall[a].v = v
Proposes(a, v) ==
    serviceCall[a].step \in Compiling /\ serviceCall[a].v = v /\ serviceCall[a].next = "persist"
Publishes(a, v) ==
    serviceCall[a].step = "transition" /\ serviceCall[a].v = v /\ serviceCall[a].to = "PUBLISHED"

Cleared(v) == Trusted(v) /\ proposed[v] # "PENDING_APPROVAL" /\ ~NotYetRecorded(v)

ServiceKnows(a) ==
    LET call == serviceCall[a] IN
    /\ call.step = "record" =>
           graphVersion[call.v].origin = "import" /\ provenance[call.v] = "none"
    /\ call.step \in Compiling =>
           /\ StatusOf(call.v) # "none"
           /\ call.next = "persist" =>
                  graphVersion[call.v].origin = "propose" /\ proposed[call.v] = "none"
    /\ call.step = "persist" => call.next = "persist"
    /\ call.step = "replace" =>
           /\ StatusOf(call.v) # "DRAFT" /\ graphVersion[call.v].digest = call.digest
           /\ WasPublished(call.v) => call.v \in planRaced
    /\ call.step = "transition" =>
           IF call.to = "PUBLISHED"
           THEN /\ call.seen = "VALIDATED" /\ StatusOf(call.v) \notin {"none", "DRAFT"}
                /\ HasItsPlan(call.v)
                /\ call.v \notin unseen => Cleared(call.v)
           ELSE Retires(call.seen, call.to)
    /\ call.step \in {"alias", "run"} => WasPublished(call.v)
    /\ call.step = "run" /\ call.v \notin planRaced => compiled[call.v].id = call.plan

(* No two calls record the same version. *)
OneRecords ==
    \A a, b \in Authors, v \in VersionNos :
        (Tells(a, v) /\ Tells(b, v)) \/ (Proposes(a, v) /\ Proposes(b, v)) => a = b

VersionKnows(v) ==
    /\ StatusOf(v) \in {"none", "DRAFT"} => graphVersion[v].digest = 0
    /\ StatusOf(v) = "none" =>
           graphVersion[v].origin = "none" /\ provenance[v] = "none" /\ proposed[v] = "none"
    /\ StatusOf(v) \in Runnable => HasItsPlan(v)
    /\ StatusOf(v) \in Runnable /\ v \notin unseen => Cleared(v)

AdmittedKnow ==
    /\ lastRun = NoRun \/ lastRun.version \in VersionNos
    /\ NamesPublished /\ RunKeepsItsPlan

DefinitionsInv ==
    /\ DefinitionsTypeOK
    /\ serviceCall \in [Authors -> ServiceCall]
    /\ \A a \in Authors : ServiceKnows(a)
    /\ \A v \in VersionNos : VersionKnows(v)
    /\ OneRecords /\ AdmittedKnow

LEMMA CallTypes ==
    ASSUME NEW c \in ServiceCall
    PROVE  /\ c.step \in {"insert", "record", "alias", "transition", "run"} \cup Compiling => c.v \in VersionNos
           /\ c.step = "insert" =>
                  c = [step |-> "insert", v |-> c.v, origin |-> c.origin]
                  /\ c.origin \in {"edit", "import", "propose"}
           /\ c.step \in Compiling =>
                  /\ c = [step |-> c.step, v |-> c.v, digest |-> c.digest, next |-> c.next]
                  /\ c.digest \in 1..MaxManifests /\ c.next \in {"none", "review", "persist"}
           /\ c.step = "transition" =>
                  /\ c.to \in {"PUBLISHED", "DEPRECATED", "ARCHIVED"}
                  /\ c.seen \in {"DRAFT", "VALIDATED", "PUBLISHED", "DEPRECATED"}
           /\ c.step = "run" => c.plan \in 1..MaxPlans
           /\ c.step \in {"idle", "insert", "record", "alias", "transition", "run"} \cup Compiling
BY DEF ServiceCall, NoServiceCall, Compiling

LEMMA NextNoType == NextNo <= MaxVersionNo => NextNo \in VersionNos
<1> DEFINE used == {v \in VersionNos : StatusOf(v) # "none"}
<1>1. IsFiniteSet(VersionNos)
  BY DefinitionsAssumption, FS_Interval DEF VersionNos
<1>2. Cardinality(used) \in Nat
  BY <1>1, FS_Subset, FS_CardinalityType
<1> QED
  BY <1>2, DefinitionsAssumption DEF NextNo, VersionNos

(* A call that changes no version, and what it comes to know. *)
LEMMA OnlyTheCall ==
    ASSUME DefinitionsInv, NEW a \in Authors, NEW c \in ServiceCall,
           serviceCall' = [serviceCall EXCEPT ![a] = c],
           UNCHANGED <<graphVersion, compiled, plansMade, provenance, proposed, unseen, planRaced>>,
           manifest' \in 1..MaxManifests, aliasOf' \in 0..MaxVersionNo,
           lastRun' \in [version : 0..MaxVersionNo, plan : 0..MaxPlans],
           ServiceKnows(a)', AdmittedKnow',
           \A v \in VersionNos : (Tells(a, v)' => Tells(a, v)) /\ (Proposes(a, v)' => Proposes(a, v))
    PROVE  DefinitionsInv'
<1>0. /\ serviceCall \in [Authors -> ServiceCall] /\ serviceCall' \in [Authors -> ServiceCall]
      /\ \A b \in Authors : b # a => serviceCall'[b] = serviceCall[b]
  BY DEF DefinitionsInv
<1>1. DefinitionsTypeOK'
  <2>1. \A b \in Authors : serviceCall'[b].step \in
           {"idle", "insert", "record", "validate", "plan", "replace", "persist", "review",
            "transition", "alias", "run"}
    BY <1>0, CallTypes DEF Compiling
  <2> QED
    BY <2>1 DEF DefinitionsInv, DefinitionsTypeOK
<1>2. \A b \in Authors : ServiceKnows(b)'
  <2> TAKE b \in Authors
  <2>1. CASE b = a
    BY <2>1
  <2>2. CASE b # a
    <3>1. ServiceKnows(b) /\ serviceCall'[b] = serviceCall[b]
      BY <1>0, <2>2 DEF DefinitionsInv
    <3> QED
      BY <3>1 DEF ServiceKnows, StatusOf, WasPublished, HasItsPlan, Cleared, Trusted, NotYetRecorded
  <2> QED
    BY <2>1, <2>2
<1>3. \A v \in VersionNos : VersionKnows(v)'
  BY DEF DefinitionsInv, VersionKnows, StatusOf, HasItsPlan, Cleared, Trusted, NotYetRecorded
<1>4. OneRecords'
  BY <1>0 DEF DefinitionsInv, OneRecords, Tells, Proposes
<1> QED
  BY <1>0, <1>1, <1>2, <1>3, <1>4 DEF DefinitionsInv

LEMMA StepOf ==
    ASSUME DefinitionsInv, NEW a \in Authors, NEW step, Continues(a, step),
           serviceCall[a].step \in Compiling, step \in Compiling
    PROVE  \E c \in ServiceCall :
               /\ serviceCall' = [serviceCall EXCEPT ![a] = c]
               /\ c = [step |-> step, v |-> serviceCall[a].v, digest |-> serviceCall[a].digest,
                       next |-> serviceCall[a].next]
<1> DEFINE call == serviceCall[a]
           c == [step |-> step, v |-> call.v, digest |-> call.digest, next |-> call.next]
<1>1. /\ call \in ServiceCall /\ serviceCall \in [Authors -> ServiceCall]
      /\ serviceCall' = [serviceCall EXCEPT ![a].step = step]
  BY DEF DefinitionsInv, Continues
<1>2. /\ call = [step |-> call.step, v |-> call.v, digest |-> call.digest, next |-> call.next]
      /\ call.v \in VersionNos /\ call.digest \in 1..MaxManifests
      /\ call.next \in {"none", "review", "persist"}
  BY <1>1, CallTypes
<1>3. [call EXCEPT !.step = step] = c
  BY <1>2
<1>4. serviceCall' = [serviceCall EXCEPT ![a] = c]
  BY <1>1, <1>3
<1>5. c \in ServiceCall
  BY <1>2 DEF ServiceCall
<1> QED
  BY <1>4, <1>5

LEMMA BeginningsKeep ==
    ASSUME DefinitionsInv, NEW a \in Authors, NEW v \in VersionNos,
           \/ \E origin \in {"edit", "import", "propose"} : CreateVersion(a, origin)
           \/ \E next \in {"none", "review"} : Compile(a, v, next)
           \/ \E new \in {"DEPRECATED", "ARCHIVED"} : BeginRetirement(a, v, new)
           \/ BeginAlias(a, v) \/ BeginRun(a, v)
    PROVE  DefinitionsInv'
<1>0. /\ manifest \in 1..MaxManifests /\ aliasOf \in 0..MaxVersionNo
      /\ lastRun \in [version : 0..MaxVersionNo, plan : 0..MaxPlans]
      /\ compiled[v].id \in 0..MaxPlans
      /\ serviceCall \in [Authors -> ServiceCall] /\ AdmittedKnow /\ VersionKnows(v)
  BY DEF DefinitionsInv, DefinitionsTypeOK
<1>1. CASE \E origin \in {"edit", "import", "propose"} : CreateVersion(a, origin)
  <2>1. PICK origin \in {"edit", "import", "propose"} : CreateVersion(a, origin)
    BY <1>1
  <2> DEFINE c == [step |-> "insert", v |-> NextNo, origin |-> origin]
  <2>2. c \in ServiceCall /\ serviceCall' = [serviceCall EXCEPT ![a] = c]
    BY <2>1, NextNoType DEF CreateVersion, Begins, ServiceCall
  <2>3. serviceCall'[a] = c
    BY <1>0, <2>2
  <2>4. ServiceKnows(a)' /\ ~Tells(a, v)'
    BY <2>3 DEF ServiceKnows, Tells, Compiling
  <2>5. \A w \in VersionNos : ~Tells(a, w)' /\ ~Proposes(a, w)'
    BY <2>3 DEF Tells, Proposes, Compiling
  <2>6. AdmittedKnow'
    BY <1>0, <2>1 DEF CreateVersion, AdmittedKnow, NamesPublished, RunKeepsItsPlan, StatusOf
  <2> HIDE DEF c
  <2> QED
    BY <1>0, <2>1, <2>2, <2>4, <2>5, <2>6, OnlyTheCall DEF CreateVersion
<1>2. CASE \E next \in {"none", "review"} : Compile(a, v, next)
  <2>1. PICK next \in {"none", "review"} : Compile(a, v, next)
    BY <1>2
  <2> DEFINE c == [step |-> "validate", v |-> v, digest |-> manifest, next |-> next]
  <2>2. c \in ServiceCall /\ serviceCall' = [serviceCall EXCEPT ![a] = c]
    BY <1>0, <2>1 DEF Compile, Begins, ServiceCall, Compiling
  <2>3. serviceCall'[a] = c
    BY <1>0, <2>2
  <2>4. ServiceKnows(a)'
    BY <2>1, <2>3 DEF ServiceKnows, Compiling, Compile, StatusOf
  <2>5. \A w \in VersionNos : ~Tells(a, w)' /\ ~Proposes(a, w)'
    BY <2>3 DEF Tells, Proposes, Compiling
  <2>6. AdmittedKnow'
    BY <1>0, <2>1 DEF Compile, AdmittedKnow, NamesPublished, RunKeepsItsPlan, StatusOf
  <2> HIDE DEF c
  <2> QED
    BY <1>0, <2>1, <2>2, <2>4, <2>5, <2>6, OnlyTheCall DEF Compile
<1>3. CASE \E new \in {"DEPRECATED", "ARCHIVED"} : BeginRetirement(a, v, new)
  <2>1. PICK new \in {"DEPRECATED", "ARCHIVED"} : BeginRetirement(a, v, new)
    BY <1>3
  <2> DEFINE c == [step |-> "transition", v |-> v, seen |-> StatusOf(v), to |-> new]
  <2>2. c \in ServiceCall /\ serviceCall' = [serviceCall EXCEPT ![a] = c]
    BY <1>0, <2>1 DEF BeginRetirement, Retires, Begins, ServiceCall
  <2>3. serviceCall'[a] = c
    BY <1>0, <2>2
  <2>4. ServiceKnows(a)'
    BY <2>1, <2>3 DEF ServiceKnows, Compiling, BeginRetirement, Retires
  <2>5. \A w \in VersionNos : ~Tells(a, w)' /\ ~Proposes(a, w)'
    BY <2>3 DEF Tells, Proposes, Compiling
  <2>6. AdmittedKnow'
    BY <1>0, <2>1 DEF BeginRetirement, AdmittedKnow, NamesPublished, RunKeepsItsPlan, StatusOf
  <2> HIDE DEF c
  <2> QED
    BY <1>0, <2>1, <2>2, <2>4, <2>5, <2>6, OnlyTheCall DEF BeginRetirement
<1>4. CASE BeginAlias(a, v)
  <2> DEFINE c == [step |-> "alias", v |-> v]
  <2>2. c \in ServiceCall /\ serviceCall' = [serviceCall EXCEPT ![a] = c]
    BY <1>4 DEF BeginAlias, Begins, ServiceCall
  <2>3. serviceCall'[a] = c
    BY <1>0, <2>2
  <2>4. ServiceKnows(a)'
    BY <1>4, <2>3 DEF ServiceKnows, Compiling, BeginAlias, WasPublished, StatusOf
  <2>5. \A w \in VersionNos : ~Tells(a, w)' /\ ~Proposes(a, w)'
    BY <2>3 DEF Tells, Proposes, Compiling
  <2>6. AdmittedKnow'
    BY <1>0, <1>4 DEF BeginAlias, AdmittedKnow, NamesPublished, RunKeepsItsPlan, StatusOf
  <2> HIDE DEF c
  <2> QED
    BY <1>0, <1>4, <2>2, <2>4, <2>5, <2>6, OnlyTheCall DEF BeginAlias
<1>5. CASE BeginRun(a, v)
  <2> DEFINE c == [step |-> "run", v |-> v, plan |-> compiled[v].id]
  <2>2. c \in ServiceCall /\ serviceCall' = [serviceCall EXCEPT ![a] = c]
    BY <1>0, <1>5, DefinitionsAssumption DEF BeginRun, Begins, ServiceCall, HasItsPlan
  <2>3. serviceCall'[a] = c
    BY <1>0, <2>2
  <2>4. ServiceKnows(a)'
    BY <1>5, <2>3 DEF ServiceKnows, Compiling, BeginRun, WasPublished, StatusOf
  <2>5. \A w \in VersionNos : ~Tells(a, w)' /\ ~Proposes(a, w)'
    BY <2>3 DEF Tells, Proposes, Compiling
  <2>6. AdmittedKnow'
    BY <1>0, <1>5 DEF BeginRun, AdmittedKnow, NamesPublished, RunKeepsItsPlan, StatusOf
  <2> HIDE DEF c
  <2> QED
    BY <1>0, <1>5, <2>2, <2>4, <2>5, <2>6, OnlyTheCall DEF BeginRun
<1> QED
  BY <1>1, <1>2, <1>3, <1>4, <1>5

LEMMA EndingsKeep ==
    ASSUME DefinitionsInv, NEW a \in Authors,
           CheckForPlan(a) \/ SetAlias(a) \/ AdmitRun(a) \/ CallStops(a)
    PROVE  DefinitionsInv'
<1> DEFINE call == serviceCall[a]
<1>0. /\ manifest \in 1..MaxManifests /\ aliasOf \in 0..MaxVersionNo
      /\ lastRun \in [version : 0..MaxVersionNo, plan : 0..MaxPlans]
      /\ serviceCall \in [Authors -> ServiceCall] /\ call \in ServiceCall
      /\ AdmittedKnow /\ ServiceKnows(a)
  BY DEF DefinitionsInv, DefinitionsTypeOK
<1>1. ASSUME Returns(a)
      PROVE  /\ NoServiceCall \in ServiceCall
             /\ serviceCall' = [serviceCall EXCEPT ![a] = NoServiceCall]
             /\ ServiceKnows(a)'
             /\ \A w \in VersionNos : ~Tells(a, w)' /\ ~Proposes(a, w)'
  <2>1. serviceCall'[a] = NoServiceCall
    BY <1>0, <1>1 DEF Returns
  <2> QED
    BY <1>1, <2>1 DEF Returns, ServiceCall, ServiceKnows, Tells, Proposes, NoServiceCall, Compiling
<1>2. CASE CheckForPlan(a)
  <2>1. AdmittedKnow'
    BY <1>0, <1>2 DEF CheckForPlan, AdmittedKnow, NamesPublished, RunKeepsItsPlan, StatusOf
  <2>2. CASE Compilable(call.v, call.digest)
    <3>1. Continues(a, "replace") /\ call.step = "plan"
      BY <1>2, <2>2 DEF CheckForPlan
    <3>2. PICK c \in ServiceCall :
              /\ serviceCall' = [serviceCall EXCEPT ![a] = c]
              /\ c = [step |-> "replace", v |-> call.v, digest |-> call.digest, next |-> call.next]
      BY <3>1, StepOf DEF Compiling
    <3>3. serviceCall'[a] = c /\ call.v \in VersionNos /\ call.digest \in 1..MaxManifests
      BY <1>0, <3>1, <3>2, CallTypes DEF Compiling
    <3>4. StatusOf(call.v) \notin {"none", "DRAFT"} /\ ~WasPublished(call.v)
      BY <2>2, <3>3 DEF Compilable, DefinitionsInv, VersionKnows, WasPublished, Runnable
    <3>5. ServiceKnows(a)'
      BY <1>0, <1>2, <2>2, <3>1, <3>2, <3>3, <3>4
         DEF ServiceKnows, CheckForPlan, Compilable, Compiling, StatusOf, WasPublished
    <3>6. \A w \in VersionNos : (Tells(a, w)' => Tells(a, w)) /\ (Proposes(a, w)' => Proposes(a, w))
      BY <3>1, <3>2, <3>3 DEF Tells, Proposes, Compiling
    <3> QED
      BY <1>0, <1>2, <2>1, <3>2, <3>5, <3>6, OnlyTheCall DEF CheckForPlan
  <2>3. CASE ~Compilable(call.v, call.digest)
    <3>1. Returns(a)
      BY <1>2, <2>3 DEF CheckForPlan
    <3> QED
      BY <1>0, <1>1, <1>2, <2>1, <3>1, OnlyTheCall DEF CheckForPlan
  <2> QED
    BY <2>2, <2>3
<1>3. CASE SetAlias(a)
  <2>1. call.v \in VersionNos /\ WasPublished(call.v)
    BY <1>0, <1>3, CallTypes DEF SetAlias, ServiceKnows
  <2>2. aliasOf' \in 0..MaxVersionNo /\ aliasOf' = call.v
    BY <1>3, <2>1, DefinitionsAssumption DEF SetAlias, VersionNos
  <2>3. AdmittedKnow'
    BY <1>0, <1>3, <2>1, <2>2
       DEF SetAlias, AdmittedKnow, NamesPublished, RunKeepsItsPlan, StatusOf, WasPublished
  <2> QED
    BY <1>0, <1>1, <1>3, <2>2, <2>3, OnlyTheCall DEF SetAlias
<1>4. CASE AdmitRun(a)
  <2>1. /\ call.v \in VersionNos /\ WasPublished(call.v) /\ call.plan \in 1..MaxPlans
        /\ call.v \notin planRaced => compiled[call.v].id = call.plan
    BY <1>0, <1>4, CallTypes DEF AdmitRun, ServiceKnows
  <2>2. /\ lastRun' \in [version : 0..MaxVersionNo, plan : 0..MaxPlans]
        /\ lastRun' = [version |-> call.v, plan |-> call.plan]
    BY <1>4, <2>1, DefinitionsAssumption DEF AdmitRun, VersionNos
  <2>3. AdmittedKnow'
    BY <1>0, <1>4, <2>1, <2>2
       DEF AdmitRun, AdmittedKnow, NamesPublished, RunKeepsItsPlan, StatusOf, WasPublished
  <2> QED
    BY <1>0, <1>1, <1>4, <2>2, <2>3, OnlyTheCall DEF AdmitRun
<1>5. CASE CallStops(a)
  <2>1. AdmittedKnow'
    BY <1>0, <1>5 DEF CallStops, AdmittedKnow, NamesPublished, RunKeepsItsPlan, StatusOf
  <2> QED
    BY <1>0, <1>1, <1>5, <2>1, OnlyTheCall DEF CallStops
<1> QED
  BY <1>2, <1>3, <1>4, <1>5

(* A call that changes versions: what has to be seen to. *)
LEMMA TheCallAndVersions ==
    ASSUME DefinitionsInv, NEW a \in Authors, NEW c \in ServiceCall,
           serviceCall' = [serviceCall EXCEPT ![a] = c],
           UNCHANGED <<manifest, aliasOf, lastRun>>,
           graphVersion' \in [VersionNos ->
               [status : {"none", "DRAFT", "VALIDATED", "PUBLISHED", "DEPRECATED", "ARCHIVED"},
                digest : 0..MaxManifests, origin : {"none", "edit", "import", "propose"}]],
           compiled' \in [VersionNos -> [id : 0..MaxPlans, digest : 0..MaxManifests]],
           plansMade' \in 0..MaxPlans,
           provenance' \in [VersionNos -> {"none", "TRUSTED", "UNTRUSTED_DRAFT"}],
           proposed' \in [VersionNos -> {"none", "DRAFT", "PENDING_APPROVAL", "granted", "APPROVED"}],
           unseen' \subseteq VersionNos, planRaced' \subseteq VersionNos,
           planRaced \subseteq planRaced',
           ServiceKnows(a)',
           \A b \in Authors \ {a} : serviceCall'[b] = serviceCall[b] /\ ServiceKnows(b) => ServiceKnows(b)',
           \A v \in VersionNos :
               /\ VersionKnows(v)'
               /\ WasPublished(v) => WasPublished(v)'
               /\ WasPublished(v) /\ v \notin planRaced' => compiled'[v].id = compiled[v].id
               /\ Tells(a, v)' => Tells(a, v) \/ \A b \in Authors \ {a} : ~Tells(b, v)
               /\ Proposes(a, v)' => Proposes(a, v) \/ \A b \in Authors \ {a} : ~Proposes(b, v)
    PROVE  DefinitionsInv'
<1>0. /\ serviceCall \in [Authors -> ServiceCall] /\ serviceCall' \in [Authors -> ServiceCall]
      /\ \A b \in Authors : b # a => serviceCall'[b] = serviceCall[b]
  BY DEF DefinitionsInv
<1>1. DefinitionsTypeOK'
  <2>1. \A b \in Authors : serviceCall'[b].step \in
           {"idle", "insert", "record", "validate", "plan", "replace", "persist", "review",
            "transition", "alias", "run"}
    BY <1>0, CallTypes DEF Compiling
  <2> QED
    BY <2>1 DEF DefinitionsInv, DefinitionsTypeOK
<1>2. \A b \in Authors : ServiceKnows(b)'
  BY <1>0 DEF DefinitionsInv
<1>3. OneRecords'
  BY <1>0 DEF DefinitionsInv, OneRecords, Tells, Proposes
<1>4. AdmittedKnow'
  <2>1. /\ AdmittedKnow
        /\ aliasOf \in 0..MaxVersionNo
        /\ lastRun \in [version : 0..MaxVersionNo, plan : 0..MaxPlans]
    BY DEF DefinitionsInv, DefinitionsTypeOK
  <2>2. \A v \in 0..MaxVersionNo : v # 0 => v \in VersionNos
    BY DefinitionsAssumption DEF VersionNos
  <2>3. NamesPublished'
    BY <2>1, <2>2 DEF AdmittedKnow, NamesPublished, WasPublished
  <2>4. RunKeepsItsPlan'
    <3> SUFFICES ASSUME lastRun # NoRun, lastRun.version \notin planRaced'
                 PROVE  compiled'[lastRun.version].id = lastRun.plan
      BY DEF RunKeepsItsPlan
    <3>1. lastRun.version \in VersionNos /\ compiled[lastRun.version].id = lastRun.plan
      BY <2>1 DEF AdmittedKnow, RunKeepsItsPlan
    <3>2. WasPublished(lastRun.version)
      BY <2>1, <3>1 DEF AdmittedKnow, NamesPublished, WasPublished, VersionNos
    <3> QED
      BY <3>1, <3>2
  <2> QED
    BY <2>1, <2>3, <2>4 DEF AdmittedKnow
<1> QED
  BY <1>0, <1>1, <1>2, <1>3, <1>4 DEF DefinitionsInv

LEMMA ManifestKeeps ==
    ASSUME DefinitionsInv, RegisterExecutor
    PROVE  DefinitionsInv'
<1>1. DefinitionsTypeOK'
  BY DefinitionsAssumption DEF DefinitionsInv, DefinitionsTypeOK, RegisterExecutor
<1>2. \A a \in Authors : ServiceKnows(a)'
  BY DEF DefinitionsInv, RegisterExecutor, ServiceKnows, StatusOf, WasPublished, HasItsPlan,
         Cleared, Trusted, NotYetRecorded
<1>3. \A v \in VersionNos : VersionKnows(v)'
  BY DEF DefinitionsInv, RegisterExecutor, VersionKnows, StatusOf, HasItsPlan, Cleared, Trusted,
         NotYetRecorded
<1>4. OneRecords' /\ AdmittedKnow'
  BY DEF DefinitionsInv, RegisterExecutor, OneRecords, Tells, Proposes, AdmittedKnow,
         NamesPublished, RunKeepsItsPlan, StatusOf
<1> QED
  BY <1>1, <1>2, <1>3, <1>4 DEF DefinitionsInv, RegisterExecutor

LEMMA ApprovalKeeps ==
    ASSUME DefinitionsInv, NEW v \in VersionNos, ApproveProposal(v)
    PROVE  DefinitionsInv'
<1>0. /\ proposed \in [VersionNos -> {"none", "DRAFT", "PENDING_APPROVAL", "granted", "APPROVED"}]
      /\ proposed[v] = "PENDING_APPROVAL" /\ proposed' = [proposed EXCEPT ![v] = "granted"]
      /\ UNCHANGED <<manifest, graphVersion, compiled, plansMade, provenance, aliasOf, lastRun,
                     unseen, planRaced, serviceCall>>
      /\ serviceCall \in [Authors -> ServiceCall]
  BY DEF DefinitionsInv, DefinitionsTypeOK, ApproveProposal
<1>1. DefinitionsTypeOK'
  BY <1>0 DEF DefinitionsInv, DefinitionsTypeOK
<1>2. \A a \in Authors : ServiceKnows(a)'
  <2> TAKE a \in Authors
  <2>1. ServiceKnows(a) /\ serviceCall[a] \in ServiceCall
    BY <1>0 DEF DefinitionsInv
  <2> QED
    BY <1>0, <2>1, CallTypes DEF ServiceKnows, StatusOf, WasPublished, HasItsPlan, Cleared, Trusted,
         NotYetRecorded
<1>3. \A w \in VersionNos : VersionKnows(w)'
  BY <1>0 DEF DefinitionsInv, VersionKnows, StatusOf, HasItsPlan, Cleared, Trusted,
         NotYetRecorded
<1>4. OneRecords' /\ AdmittedKnow'
  BY <1>0 DEF DefinitionsInv, OneRecords, Tells, Proposes, AdmittedKnow,
         NamesPublished, RunKeepsItsPlan, StatusOf
<1> QED
  BY <1>0, <1>1, <1>2, <1>3, <1>4 DEF DefinitionsInv

LEMMA DefinitionInsertKeeps ==
    ASSUME DefinitionsInv, NEW a \in Authors, InsertVersion(a)
    PROVE  DefinitionsInv'
<1> DEFINE call == serviceCall[a]
           v == call.v
<1>0. /\ DefinitionsTypeOK /\ serviceCall \in [Authors -> ServiceCall] /\ call \in ServiceCall
      /\ AdmittedKnow /\ call.step = "insert" /\ v \in VersionNos
      /\ call = [step |-> "insert", v |-> v, origin |-> call.origin]
      /\ call.origin \in {"edit", "import", "propose"}
  BY CallTypes DEF DefinitionsInv, InsertVersion
<1>1. CASE StatusOf(v) = "none"
  <2> DEFINE c == AfterInsert(call)
  <2>1. /\ serviceCall' = [serviceCall EXCEPT ![a] = c]
        /\ graphVersion' = [graphVersion EXCEPT ![v] =
                 [status |-> "DRAFT", digest |-> 0, origin |-> call.origin]]
        /\ UNCHANGED <<manifest, compiled, plansMade, provenance, proposed, aliasOf, lastRun, unseen,
                   planRaced>>
    BY <1>1 DEF InsertVersion
  <2>2. /\ c \in ServiceCall
        /\ \/ c = [step |-> "record", v |-> v] /\ call.origin = "import"
           \/ /\ call.origin = "propose"
              /\ c = [step |-> "validate", v |-> v, digest |-> manifest, next |-> "persist"]
           \/ c = NoServiceCall /\ call.origin = "edit"
    BY <1>0 DEF AfterInsert, ServiceCall, Compiling, DefinitionsTypeOK
  <2>3. serviceCall'[a] = c
    BY <1>0, <2>1
  <2>4. \A b \in Authors \ {a} : ~Tells(b, v) /\ ~Proposes(b, v)
    <3>1. \A b \in Authors : ServiceKnows(b) /\ VersionKnows(v)
      BY <1>0 DEF DefinitionsInv
    <3> QED
      BY <1>1, <3>1 DEF ServiceKnows, VersionKnows, Tells, Proposes
  <2>5. provenance[v] = "none" /\ proposed[v] = "none"
    BY <1>0, <1>1 DEF DefinitionsInv, VersionKnows
  <2>6. /\ graphVersion'[v] = [status |-> "DRAFT", digest |-> 0, origin |-> call.origin]
        /\ \A w \in VersionNos : w # v => graphVersion'[w] = graphVersion[w]
    BY <1>0, <2>1 DEF DefinitionsTypeOK
  <2> HIDE DEF c
  <2>7. ServiceKnows(a)'
    BY <1>0, <2>1, <2>2, <2>3, <2>5, <2>6
       DEF ServiceKnows, StatusOf, Compiling, NoServiceCall
  <2>8. ASSUME NEW b \in Authors \ {a}, serviceCall'[b] = serviceCall[b], ServiceKnows(b)
        PROVE  ServiceKnows(b)'
    <3>1. serviceCall[b] \in ServiceCall
      BY <1>0
    <3>2. CASE serviceCall[b].v = v
      BY <1>1, <2>1, <2>4, <2>6, <2>8, <3>1, <3>2, CallTypes
         DEF ServiceKnows, StatusOf, WasPublished, Runnable, Compiling, Tells
    <3>3. CASE serviceCall[b].v # v
      BY <1>1, <2>1, <2>6, <2>8, <3>1, <3>3, CallTypes
         DEF ServiceKnows, StatusOf, WasPublished, HasItsPlan, Cleared, Trusted, NotYetRecorded
    <3> QED
      BY <3>2, <3>3
  <2>9. ASSUME NEW w \in VersionNos
        PROVE  /\ VersionKnows(w)'
               /\ WasPublished(w) => WasPublished(w)'
               /\ WasPublished(w) /\ w \notin planRaced' => compiled'[w].id = compiled[w].id
               /\ Tells(a, w)' => Tells(a, w) \/ \A b \in Authors \ {a} : ~Tells(b, w)
               /\ Proposes(a, w)' => Proposes(a, w) \/ \A b \in Authors \ {a} : ~Proposes(b, w)
    <3>1. VersionKnows(w)
      BY DEF DefinitionsInv
    <3>2. CASE w = v
      BY <1>1, <2>1, <2>4, <2>6, <3>1, <3>2 DEF VersionKnows, StatusOf, WasPublished, Runnable
    <3>3. CASE w # v
      <4>1. ~Tells(a, w)' /\ ~Proposes(a, w)'
        BY <2>2, <2>3, <3>3 DEF Tells, Proposes, NoServiceCall, Compiling
      <4> QED
        BY <2>1, <2>6, <3>1, <3>3, <4>1 DEF VersionKnows, StatusOf, WasPublished,
           HasItsPlan, Cleared, Trusted, NotYetRecorded
    <3> QED
      BY <3>2, <3>3
  <2>10. graphVersion' \in [VersionNos ->
               [status : {"none", "DRAFT", "VALIDATED", "PUBLISHED", "DEPRECATED", "ARCHIVED"},
                digest : 0..MaxManifests, origin : {"none", "edit", "import", "propose"}]]
    BY <1>0, <2>1, DefinitionsAssumption DEF DefinitionsTypeOK
  <2> QED
    BY <1>0, <2>1, <2>2, <2>7, <2>8, <2>9, <2>10, TheCallAndVersions DEF DefinitionsTypeOK
<1>2. CASE StatusOf(v) # "none"
  <2> DEFINE c == [call EXCEPT !.v = NextNo]
  <2>1. /\ NextNo \in VersionNos /\ serviceCall' = [serviceCall EXCEPT ![a] = c]
        /\ UNCHANGED <<manifest, graphVersion, compiled, plansMade, provenance, proposed, aliasOf,
                       lastRun, unseen, planRaced>>
    BY <1>0, <1>2, NextNoType DEF InsertVersion
  <2>2. c = [step |-> "insert", v |-> NextNo, origin |-> call.origin]
    BY <1>0
  <2>3. c \in ServiceCall
    BY <1>0, <2>1, <2>2 DEF ServiceCall
  <2>4. serviceCall'[a] = c
    BY <1>0, <2>1
  <2>5. ServiceKnows(a)' /\ \A w \in VersionNos : ~Tells(a, w)' /\ ~Proposes(a, w)'
    BY <2>2, <2>4 DEF ServiceKnows, Tells, Proposes, Compiling
  <2>6. AdmittedKnow'
    BY <1>0, <2>1 DEF AdmittedKnow, NamesPublished, RunKeepsItsPlan, StatusOf
  <2> HIDE DEF c
  <2> QED
    BY <1>0, <2>1, <2>3, <2>5, <2>6, OnlyTheCall DEF DefinitionsTypeOK
<1> QED
  BY <1>1, <1>2

LEMMA RecordsKeep ==
    ASSUME DefinitionsInv, NEW a \in Authors,
           \/ \E trust \in {"TRUSTED", "UNTRUSTED_DRAFT"} : RecordImport(a, trust)
           \/ \E status \in {"DRAFT", "PENDING_APPROVAL"} : RecordProposal(a, status)
    PROVE  DefinitionsInv'
<1> DEFINE call == serviceCall[a]
           v == call.v
<1>0. /\ DefinitionsTypeOK /\ serviceCall \in [Authors -> ServiceCall] /\ call \in ServiceCall
      /\ v \in VersionNos /\ ServiceKnows(a) /\ OneRecords /\ VersionKnows(v)
      /\ UNCHANGED <<manifest, graphVersion, compiled, plansMade, aliasOf, lastRun, unseen, planRaced>>
      /\ serviceCall' = [serviceCall EXCEPT ![a] = NoServiceCall]
      /\ NoServiceCall \in ServiceCall
  BY CallTypes DEF DefinitionsInv, RecordImport, RecordProposal, Compiling, Returns, ServiceCall
<1>1. serviceCall'[a] = NoServiceCall
  BY <1>0
<1>2. ServiceKnows(a)' /\ \A w \in VersionNos : ~Tells(a, w)' /\ ~Proposes(a, w)'
  BY <1>1 DEF ServiceKnows, Tells, Proposes, NoServiceCall, Compiling
<1>3. CASE \E trust \in {"TRUSTED", "UNTRUSTED_DRAFT"} : RecordImport(a, trust)
  <2>1. PICK trust \in {"TRUSTED", "UNTRUSTED_DRAFT"} : RecordImport(a, trust)
    BY <1>3
  <2>2. /\ provenance' = [provenance EXCEPT ![v] = trust] /\ UNCHANGED proposed
        /\ graphVersion[v].origin = "import" /\ provenance[v] = "none" /\ Tells(a, v)
        /\ \A w \in VersionNos : w # v => provenance'[w] = provenance[w]
    BY <1>0, <2>1 DEF RecordImport, ServiceKnows, Tells, DefinitionsTypeOK
  <2>3. NotYetRecorded(v)
    BY <2>2 DEF NotYetRecorded
  <2>4. ASSUME NEW b \in Authors \ {a}, serviceCall'[b] = serviceCall[b], ServiceKnows(b)
        PROVE  ServiceKnows(b)'
    <3>1. serviceCall[b] \in ServiceCall /\ ~Tells(b, v)
      BY <1>0, <2>2 DEF OneRecords
    <3>2. CASE serviceCall[b].v = v
      BY <1>0, <2>2, <2>3, <2>4, <3>1, <3>2, CallTypes
         DEF ServiceKnows, StatusOf, WasPublished, HasItsPlan, Cleared, Tells, Compiling
    <3>3. CASE serviceCall[b].v # v
      BY <1>0, <2>2, <2>4, <3>1, <3>3, CallTypes
         DEF ServiceKnows, StatusOf, WasPublished, HasItsPlan, Cleared, Trusted, NotYetRecorded
    <3> QED
      BY <3>2, <3>3
  <2>5. ASSUME NEW w \in VersionNos
        PROVE  VersionKnows(w)'
    <3>1. VersionKnows(w)
      BY DEF DefinitionsInv
    <3>2. CASE w = v
      BY <1>0, <2>2, <2>3, <3>1, <3>2 DEF VersionKnows, StatusOf, HasItsPlan, Cleared, Runnable
    <3>3. CASE w # v
      BY <1>0, <2>2, <3>1, <3>3 DEF VersionKnows, StatusOf, HasItsPlan, Cleared, Trusted, NotYetRecorded
    <3> QED
      BY <3>2, <3>3
  <2>6. \A w \in VersionNos : WasPublished(w) => WasPublished(w)'
    BY <1>0 DEF WasPublished, StatusOf
  <2> QED
    BY <1>0, <1>2, <2>2, <2>4, <2>5, <2>6, TheCallAndVersions DEF DefinitionsTypeOK
<1>4. CASE \E status \in {"DRAFT", "PENDING_APPROVAL"} : RecordProposal(a, status)
  <2>1. PICK status \in {"DRAFT", "PENDING_APPROVAL"} : RecordProposal(a, status)
    BY <1>4
  <2>2. /\ proposed' = [proposed EXCEPT ![v] = status] /\ UNCHANGED provenance
        /\ \A w \in VersionNos : w # v => proposed'[w] = proposed[w]
        /\ call.step = "persist"
    BY <1>0, <2>1 DEF RecordProposal, DefinitionsTypeOK
  <2>3. /\ graphVersion[v].origin = "propose" /\ proposed[v] = "none" /\ Proposes(a, v)
    BY <1>0, <2>2 DEF ServiceKnows, Proposes, Compiling
  <2>4. NotYetRecorded(v)
    BY <2>3 DEF NotYetRecorded
  <2>5. ASSUME NEW b \in Authors \ {a}, serviceCall'[b] = serviceCall[b], ServiceKnows(b)
        PROVE  ServiceKnows(b)'
    <3>1. serviceCall[b] \in ServiceCall /\ ~Proposes(b, v)
      BY <1>0, <2>3 DEF OneRecords
    <3>2. CASE serviceCall[b].v = v
      BY <1>0, <2>2, <2>3, <2>4, <2>5, <3>1, <3>2, CallTypes
         DEF ServiceKnows, StatusOf, WasPublished, HasItsPlan, Cleared, Proposes, Compiling
    <3>3. CASE serviceCall[b].v # v
      BY <1>0, <2>2, <2>5, <3>1, <3>3, CallTypes
         DEF ServiceKnows, StatusOf, WasPublished, HasItsPlan, Cleared, Trusted, NotYetRecorded
    <3> QED
      BY <3>2, <3>3
  <2>6. ASSUME NEW w \in VersionNos
        PROVE  VersionKnows(w)'
    <3>1. VersionKnows(w)
      BY DEF DefinitionsInv
    <3>2. CASE w = v
      BY <1>0, <2>2, <2>3, <2>4, <3>1, <3>2 DEF VersionKnows, StatusOf, HasItsPlan, Cleared, Runnable
    <3>3. CASE w # v
      BY <1>0, <2>2, <3>1, <3>3 DEF VersionKnows, StatusOf, HasItsPlan, Cleared, Trusted, NotYetRecorded
    <3> QED
      BY <3>2, <3>3
  <2>7. \A w \in VersionNos : WasPublished(w) => WasPublished(w)'
    BY <1>0 DEF WasPublished, StatusOf
  <2> QED
    BY <1>0, <1>2, <2>2, <2>5, <2>6, <2>7, TheCallAndVersions DEF DefinitionsTypeOK
<1> QED
  BY <1>3, <1>4

LEMMA ValidatedRow ==
    ASSUME NEW row \in [status : {"none", "DRAFT", "VALIDATED", "PUBLISHED", "DEPRECATED", "ARCHIVED"},
                        digest : 0..MaxManifests, origin : {"none", "edit", "import", "propose"}],
           NEW digest \in 0..MaxManifests
    PROVE  /\ row.origin \in {"none", "edit", "import", "propose"}
           /\ [row EXCEPT !.status = "VALIDATED", !.digest = digest]
                = [status |-> "VALIDATED", digest |-> digest, origin |-> row.origin]
<1>1. /\ row.origin \in {"none", "edit", "import", "propose"}
      /\ row = [status |-> row.status, digest |-> row.digest, origin |-> row.origin]
  OBVIOUS
<1>2. [row EXCEPT !.status = "VALIDATED"] = [status |-> "VALIDATED", digest |-> row.digest, origin |-> row.origin]
  BY <1>1
<1>3. [row EXCEPT !.status = "VALIDATED", !.digest = digest]
          = [[row EXCEPT !.status = "VALIDATED"] EXCEPT !.digest = digest]
  BY <1>1
<1>4. [[status |-> "VALIDATED", digest |-> row.digest, origin |-> row.origin] EXCEPT !.digest = digest]
          = [status |-> "VALIDATED", digest |-> digest, origin |-> row.origin]
  OBVIOUS
<1> QED
  BY <1>1, <1>2, <1>3, <1>4, Zenon

LEMMA ValidationKeeps ==
    ASSUME DefinitionsInv, NEW a \in Authors, SetValidationResult(a)
    PROVE  DefinitionsInv'
<1> DEFINE call == serviceCall[a]
           v == call.v
<1>0. /\ DefinitionsTypeOK /\ serviceCall \in [Authors -> ServiceCall] /\ call \in ServiceCall
      /\ v \in VersionNos /\ ServiceKnows(a) /\ VersionKnows(v) /\ call.step = "validate"
      /\ call.digest \in 1..MaxManifests
      /\ UNCHANGED <<manifest, compiled, plansMade, provenance, proposed, aliasOf, lastRun, unseen,
                     planRaced>>
      /\ Continues(a, "plan")
  BY CallTypes DEF DefinitionsInv, SetValidationResult, Compiling
<1>1. PICK c \in ServiceCall :
          /\ serviceCall' = [serviceCall EXCEPT ![a] = c]
          /\ c = [step |-> "plan", v |-> v, digest |-> call.digest, next |-> call.next]
  BY <1>0, StepOf DEF Compiling
<1>2. serviceCall'[a] = c
  BY <1>0, <1>1
<1>3. /\ graphVersion' \in [VersionNos ->
               [status : {"none", "DRAFT", "VALIDATED", "PUBLISHED", "DEPRECATED", "ARCHIVED"},
                digest : 0..MaxManifests, origin : {"none", "edit", "import", "propose"}]]
      /\ \A w \in VersionNos : w # v => graphVersion'[w] = graphVersion[w]
      /\ graphVersion'[v].origin = graphVersion[v].origin
      /\ StatusOf(v) # "DRAFT" => graphVersion'[v] = graphVersion[v]
      /\ StatusOf(v) = "DRAFT" => graphVersion'[v].status = "VALIDATED"
  <2>1. CASE StatusOf(v) = "DRAFT"
    <3>1. graphVersion' = [graphVersion EXCEPT ![v] =
              [graphVersion[v] EXCEPT !.status = "VALIDATED", !.digest = call.digest]]
      BY <1>0, <2>1 DEF SetValidationResult, DefinitionsTypeOK
    <3> DEFINE new == [graphVersion[v] EXCEPT !.status = "VALIDATED", !.digest = call.digest]
    <3>2. call.digest \in 0..MaxManifests
      BY <1>0, DefinitionsAssumption
    <3>3. /\ graphVersion[v].origin \in {"none", "edit", "import", "propose"}
          /\ new = [status |-> "VALIDATED", digest |-> call.digest, origin |-> graphVersion[v].origin]
      <4>1. graphVersion[v] \in
              [status : {"none", "DRAFT", "VALIDATED", "PUBLISHED", "DEPRECATED", "ARCHIVED"},
               digest : 0..MaxManifests, origin : {"none", "edit", "import", "propose"}]
        BY <1>0 DEF DefinitionsTypeOK
      <4> QED
        BY <3>2, <4>1, ValidatedRow
    <3>4. /\ new \in [status : {"none", "DRAFT", "VALIDATED", "PUBLISHED", "DEPRECATED", "ARCHIVED"},
                      digest : 0..MaxManifests, origin : {"none", "edit", "import", "propose"}]
          /\ new.origin = graphVersion[v].origin /\ new.status = "VALIDATED"
      BY <3>2, <3>3
    <3>5. graphVersion'[v] = new
      BY <1>0, <3>1 DEF DefinitionsTypeOK
    <3> HIDE DEF new
    <3> QED
      BY <1>0, <2>1, <3>1, <3>4, <3>5 DEF DefinitionsTypeOK
  <2>2. CASE StatusOf(v) # "DRAFT"
    BY <1>0, <2>2 DEF SetValidationResult, DefinitionsTypeOK
  <2> QED
    BY <2>1, <2>2
<1>4. ServiceKnows(a)'
  BY <1>0, <1>1, <1>2, <1>3 DEF ServiceKnows, StatusOf, Compiling
<1>5. ASSUME NEW b \in Authors \ {a}, serviceCall'[b] = serviceCall[b], ServiceKnows(b)
      PROVE  ServiceKnows(b)'
  <2>1. serviceCall[b] \in ServiceCall
    BY <1>0
  <2>2. CASE serviceCall[b].v = v /\ StatusOf(v) = "DRAFT"
    BY <1>0, <1>3, <1>5, <2>1, <2>2, CallTypes
       DEF ServiceKnows, StatusOf, WasPublished, Compiling, Runnable
  <2>3. CASE serviceCall[b].v # v \/ StatusOf(v) # "DRAFT"
    BY <1>0, <1>3, <1>5, <2>1, <2>3, CallTypes
       DEF ServiceKnows, StatusOf, WasPublished, HasItsPlan, Cleared, Trusted, NotYetRecorded
  <2> QED
    BY <2>2, <2>3
<1>6. ASSUME NEW w \in VersionNos
      PROVE  /\ VersionKnows(w)' /\ (WasPublished(w) => WasPublished(w)')
             /\ (Tells(a, w)' => Tells(a, w)) /\ (Proposes(a, w)' => Proposes(a, w))
  <2>1. VersionKnows(w)
    BY DEF DefinitionsInv
  <2>2. (Tells(a, w)' => Tells(a, w)) /\ (Proposes(a, w)' => Proposes(a, w))
    BY <1>0, <1>1, <1>2 DEF Tells, Proposes, Compiling
  <2>3. CASE w = v /\ StatusOf(v) = "DRAFT"
    BY <1>0, <1>3, <2>1, <2>2, <2>3 DEF VersionKnows, StatusOf, WasPublished, Runnable
  <2>4. CASE w # v \/ StatusOf(v) # "DRAFT"
    BY <1>0, <1>3, <2>1, <2>2, <2>4 DEF VersionKnows, StatusOf, WasPublished, HasItsPlan, Cleared,
       Trusted, NotYetRecorded
  <2> QED
    BY <2>3, <2>4
<1> QED
  BY <1>0, <1>1, <1>3, <1>4, <1>5, <1>6, TheCallAndVersions DEF DefinitionsTypeOK

LEMMA PlanKeeps ==
    ASSUME DefinitionsInv, NEW a \in Authors, ReplacePlan(a)
    PROVE  DefinitionsInv'
<1> DEFINE call == serviceCall[a]
           v == call.v
<1>0. /\ DefinitionsTypeOK /\ serviceCall \in [Authors -> ServiceCall] /\ call \in ServiceCall
      /\ v \in VersionNos /\ ServiceKnows(a) /\ VersionKnows(v) /\ call.step = "replace"
      /\ call.digest \in 1..MaxManifests /\ call.next \in {"none", "review", "persist"}
      /\ UNCHANGED <<manifest, graphVersion, provenance, proposed, aliasOf, lastRun, unseen,
                     planRaced>>
      /\ plansMade < MaxPlans /\ plansMade' = plansMade + 1
      /\ compiled' = [compiled EXCEPT ![v] = [id |-> plansMade + 1, digest |-> call.digest]]
      /\ IF call.next = "none" THEN Returns(a) ELSE Continues(a, call.next)
  BY CallTypes DEF DefinitionsInv, ReplacePlan, Compiling
<1>1. PICK c \in ServiceCall :
          /\ serviceCall' = [serviceCall EXCEPT ![a] = c]
          /\ \/ c = NoServiceCall
             \/ c = [step |-> call.next, v |-> v, digest |-> call.digest, next |-> call.next]
                /\ call.next \in {"review", "persist"}
  <2>1. CASE call.next = "none"
    BY <1>0, <2>1 DEF Returns, ServiceCall
  <2>2. CASE call.next # "none"
    BY <1>0, <2>2, StepOf DEF Compiling
  <2> QED
    BY <2>1, <2>2
<1>2. serviceCall'[a] = c
  BY <1>0, <1>1
<1>3. /\ compiled' \in [VersionNos -> [id : 0..MaxPlans, digest : 0..MaxManifests]]
      /\ plansMade' \in 0..MaxPlans
      /\ compiled'[v].id # 0 /\ compiled'[v].digest = graphVersion[v].digest
      /\ \A w \in VersionNos : w # v => compiled'[w] = compiled[w]
      /\ WasPublished(v) => v \in planRaced
  BY <1>0, DefinitionsAssumption DEF DefinitionsTypeOK, ServiceKnows
<1>4. ServiceKnows(a)'
  BY <1>0, <1>1, <1>2 DEF ServiceKnows, StatusOf, Compiling, NoServiceCall
<1>5. ASSUME NEW b \in Authors \ {a}, serviceCall'[b] = serviceCall[b], ServiceKnows(b)
      PROVE  ServiceKnows(b)'
  <2>1. serviceCall[b] \in ServiceCall
    BY <1>0
  <2>2. CASE serviceCall[b].v = v
    BY <1>0, <1>3, <1>5, <2>1, <2>2, CallTypes
       DEF ServiceKnows, StatusOf, WasPublished, HasItsPlan, Cleared, Trusted, NotYetRecorded
  <2>3. CASE serviceCall[b].v # v
    BY <1>0, <1>3, <1>5, <2>1, <2>3, CallTypes
       DEF ServiceKnows, StatusOf, WasPublished, HasItsPlan, Cleared, Trusted, NotYetRecorded
  <2> QED
    BY <2>2, <2>3
<1>6. ASSUME NEW w \in VersionNos
      PROVE  /\ VersionKnows(w)' /\ (WasPublished(w) => WasPublished(w)')
             /\ WasPublished(w) /\ w \notin planRaced' => compiled'[w].id = compiled[w].id
             /\ (Tells(a, w)' => Tells(a, w)) /\ (Proposes(a, w)' => Proposes(a, w))
  <2>1. VersionKnows(w)
    BY DEF DefinitionsInv
  <2>2. (Tells(a, w)' => Tells(a, w)) /\ (Proposes(a, w)' => Proposes(a, w))
    BY <1>0, <1>1, <1>2 DEF Tells, Proposes, Compiling, NoServiceCall
  <2>3. VersionKnows(w)'
    BY <1>0, <1>3, <2>1 DEF VersionKnows, StatusOf, HasItsPlan, Cleared, Trusted, NotYetRecorded
  <2>4. WasPublished(w) => WasPublished(w)'
    BY <1>0 DEF WasPublished, StatusOf
  <2> QED
    BY <1>0, <1>3, <2>2, <2>3, <2>4
<1> QED
  BY <1>0, <1>1, <1>3, <1>4, <1>5, <1>6, TheCallAndVersions DEF DefinitionsTypeOK

LEMMA DefinitionReviewKeeps ==
    ASSUME DefinitionsInv, NEW a \in Authors, ReviewForPublication(a)
    PROVE  DefinitionsInv'
<1> DEFINE call == serviceCall[a]
<1>00. PICK v \in VersionNos : v = call.v
  BY CallTypes DEF DefinitionsInv, ReviewForPublication, Compiling
<1> DEFINE passes == StatusOf(v) = "VALIDATED" /\ HasItsPlan(v) /\ Trusted(v) /\ Publishable(v)
<1>0. /\ DefinitionsTypeOK /\ serviceCall \in [Authors -> ServiceCall] /\ call \in ServiceCall
      /\ v = call.v /\ ServiceKnows(a) /\ VersionKnows(v) /\ call.step = "review"
      /\ UNCHANGED <<manifest, graphVersion, compiled, plansMade, provenance, aliasOf, lastRun,
                     planRaced>>
      /\ AdmittedKnow
  BY <1>00 DEF DefinitionsInv, ReviewForPublication
<1>1. CASE passes
  <2> DEFINE c == [step |-> "transition", v |-> v, seen |-> "VALIDATED", to |-> "PUBLISHED"]
  <2>1. /\ serviceCall' = [serviceCall EXCEPT ![a] = c] /\ c \in ServiceCall
        /\ proposed' = IF proposed[v] = "granted"
                       THEN [proposed EXCEPT ![v] = "APPROVED"] ELSE proposed
        /\ unseen' = IF NotYetRecorded(v) THEN unseen \cup {v} ELSE unseen
    BY <1>0, <1>1 DEF ReviewForPublication, ServiceCall
  <2>2. serviceCall'[a] = c
    BY <1>0, <2>1
  <2>3. /\ proposed' \in [VersionNos -> {"none", "DRAFT", "PENDING_APPROVAL", "granted", "APPROVED"}]
        /\ \A w \in VersionNos : w # v => proposed'[w] = proposed[w]
        /\ proposed'[v] # "PENDING_APPROVAL"
        /\ proposed'[v] = "none" <=> proposed[v] = "none"
        /\ unseen' \subseteq VersionNos /\ unseen \subseteq unseen'
        /\ \A w \in VersionNos : w # v /\ w \in unseen' => w \in unseen
    BY <1>0, <1>1, <2>1 DEF DefinitionsTypeOK, Publishable
  <2>4. v \notin unseen' => Cleared(v)'
    BY <1>0, <1>1, <2>1, <2>3 DEF Cleared, Trusted, NotYetRecorded
  <2>5. ServiceKnows(a)'
    BY <1>0, <1>1, <2>2, <2>4 DEF ServiceKnows, StatusOf, HasItsPlan, Compiling
  <2>6. ASSUME NEW b \in Authors \ {a}, serviceCall'[b] = serviceCall[b], ServiceKnows(b)
        PROVE  ServiceKnows(b)'
    <3>1. serviceCall[b] \in ServiceCall
      BY <1>0
    <3>2. CASE serviceCall[b].v = v
      BY <1>0, <2>3, <2>4, <2>6, <3>1, <3>2, CallTypes
         DEF ServiceKnows, StatusOf, WasPublished, HasItsPlan
    <3>3. CASE serviceCall[b].v # v
      BY <1>0, <2>3, <2>6, <3>1, <3>3, CallTypes
         DEF ServiceKnows, StatusOf, WasPublished, HasItsPlan, Cleared, Trusted, NotYetRecorded
    <3> QED
      BY <3>2, <3>3
  <2>7. ASSUME NEW w \in VersionNos
        PROVE  /\ VersionKnows(w)' /\ (WasPublished(w) => WasPublished(w)')
               /\ ~Tells(a, w)' /\ ~Proposes(a, w)'
    <3>1. VersionKnows(w)
      BY DEF DefinitionsInv
    <3>2. ~Tells(a, w)' /\ ~Proposes(a, w)'
      BY <2>2 DEF Tells, Proposes, Compiling
    <3>3. WasPublished(w) => WasPublished(w)'
      BY <1>0 DEF WasPublished, StatusOf
    <3>4. CASE w = v
      BY <1>0, <2>3, <2>4, <3>1, <3>2, <3>3, <3>4 DEF VersionKnows, StatusOf, HasItsPlan
    <3>5. CASE w # v
      BY <1>0, <2>3, <3>1, <3>2, <3>3, <3>5 DEF VersionKnows, StatusOf, HasItsPlan, Cleared, Trusted,
         NotYetRecorded
    <3> QED
      BY <3>4, <3>5
  <2> HIDE DEF c
  <2> QED
    BY <1>0, <2>1, <2>3, <2>5, <2>6, <2>7, TheCallAndVersions DEF DefinitionsTypeOK
<1>2. CASE ~passes
  <2>1. /\ serviceCall' = [serviceCall EXCEPT ![a] = NoServiceCall] /\ UNCHANGED <<proposed, unseen>>
        /\ NoServiceCall \in ServiceCall
    BY <1>0, <1>2 DEF ReviewForPublication, Returns, ServiceCall
  <2>2. serviceCall'[a] = NoServiceCall
    BY <1>0, <2>1
  <2>3. ServiceKnows(a)' /\ \A w \in VersionNos : ~Tells(a, w)' /\ ~Proposes(a, w)'
    BY <2>2 DEF ServiceKnows, Tells, Proposes, NoServiceCall, Compiling
  <2>4. AdmittedKnow'
    BY <1>0 DEF AdmittedKnow, NamesPublished, RunKeepsItsPlan, StatusOf
  <2> QED
    BY <1>0, <2>1, <2>3, <2>4, OnlyTheCall DEF DefinitionsTypeOK
<1> QED
  BY <1>1, <1>2

LEMMA TransitionKeeps ==
    ASSUME DefinitionsInv, NEW a \in Authors, TransitionVersion(a)
    PROVE  DefinitionsInv'
<1> DEFINE call == serviceCall[a]
<1>00. PICK v \in VersionNos : v = call.v
  BY CallTypes DEF DefinitionsInv, TransitionVersion, Compiling
<1>0. /\ DefinitionsTypeOK /\ serviceCall \in [Authors -> ServiceCall] /\ call \in ServiceCall
      /\ v = call.v /\ ServiceKnows(a) /\ VersionKnows(v) /\ call.step = "transition"
      /\ call.to \in {"PUBLISHED", "DEPRECATED", "ARCHIVED"}
      /\ UNCHANGED <<manifest, compiled, plansMade, provenance, proposed, aliasOf, lastRun, unseen>>
      /\ serviceCall' = [serviceCall EXCEPT ![a] = NoServiceCall] /\ NoServiceCall \in ServiceCall
  BY <1>00, CallTypes DEF DefinitionsInv, TransitionVersion, Returns, ServiceCall
<1>1. serviceCall'[a] = NoServiceCall
  BY <1>0
<1>2. ServiceKnows(a)' /\ \A w \in VersionNos : ~Tells(a, w)' /\ ~Proposes(a, w)'
  BY <1>1 DEF ServiceKnows, Tells, Proposes, NoServiceCall, Compiling
<1>3. /\ planRaced' \subseteq VersionNos /\ planRaced \subseteq planRaced'
      /\ \A b \in Authors : serviceCall[b].step = "replace" /\ serviceCall[b].v = v => v \in planRaced'
      /\ \A w \in VersionNos : w # v /\ w \in planRaced' => w \in planRaced
  BY <1>0 DEF TransitionVersion, DefinitionsTypeOK
<1>4. /\ graphVersion' \in [VersionNos ->
               [status : {"none", "DRAFT", "VALIDATED", "PUBLISHED", "DEPRECATED", "ARCHIVED"},
                digest : 0..MaxManifests, origin : {"none", "edit", "import", "propose"}]]
      /\ \A w \in VersionNos : w # v => graphVersion'[w] = graphVersion[w]
      /\ graphVersion'[v].origin = graphVersion[v].origin
      /\ graphVersion'[v].digest = graphVersion[v].digest
      /\ IF StatusOf(v) = call.seen THEN graphVersion'[v].status = call.to
         ELSE graphVersion'[v] = graphVersion[v]
  <2>1. CASE StatusOf(v) = call.seen
    <3>1. graphVersion' = [graphVersion EXCEPT ![v].status = call.to]
      BY <1>0, <2>1 DEF TransitionVersion, StillAs
    <3>2. /\ call.to \in {"PUBLISHED", "DEPRECATED", "ARCHIVED"} /\ v \in VersionNos
          /\ graphVersion \in [VersionNos ->
               [status : {"none", "DRAFT", "VALIDATED", "PUBLISHED", "DEPRECATED", "ARCHIVED"},
                digest : 0..MaxManifests, origin : {"none", "edit", "import", "propose"}]]
      BY <1>0 DEF DefinitionsTypeOK
    <3> HIDE DEF call
    <3> QED
      BY <2>1, <3>1, <3>2
  <2>2. CASE StatusOf(v) # call.seen
    BY <1>0, <2>2 DEF TransitionVersion, StillAs, DefinitionsTypeOK
  <2> QED
    BY <2>1, <2>2
<1>5. /\ StatusOf(v) # "none" => graphVersion'[v].status \notin {"none", "DRAFT"} \/ graphVersion'[v] = graphVersion[v]
      /\ StatusOf(v) = "none" => graphVersion'[v] = graphVersion[v]
      /\ WasPublished(v) => WasPublished(v)'
  BY <1>0, <1>4 DEF ServiceKnows, Retires, WasPublished, Runnable, StatusOf
<1>6. ASSUME NEW b \in Authors \ {a}, serviceCall'[b] = serviceCall[b], ServiceKnows(b)
      PROVE  ServiceKnows(b)'
  <2>1. serviceCall[b] \in ServiceCall
    BY <1>0
  <2>2. CASE serviceCall[b].v = v
    <3>1. HasItsPlan(v)' = HasItsPlan(v) /\ Cleared(v)' = Cleared(v)
      BY <1>0, <1>4 DEF HasItsPlan, Cleared, Trusted, NotYetRecorded
    <3>2. /\ StatusOf(v) # "none" => StatusOf(v)' # "none"
          /\ StatusOf(v) \notin {"none", "DRAFT"} => StatusOf(v)' \notin {"none", "DRAFT"}
      BY <1>5 DEF StatusOf
    <3> QED
      BY <1>0, <1>3, <1>4, <1>5, <1>6, <2>1, <2>2, <3>1, <3>2, CallTypes DEF ServiceKnows
  <2>3. CASE serviceCall[b].v # v
    BY <1>0, <1>3, <1>4, <1>6, <2>1, <2>3, CallTypes
       DEF ServiceKnows, StatusOf, WasPublished, HasItsPlan, Cleared, Trusted, NotYetRecorded
  <2> QED
    BY <2>2, <2>3
<1>7. ASSUME NEW w \in VersionNos
      PROVE  VersionKnows(w)' /\ (WasPublished(w) => WasPublished(w)')
  <2>1. VersionKnows(w)
    BY DEF DefinitionsInv
  <2>2. CASE w = v
    <3>1. HasItsPlan(v)' = HasItsPlan(v) /\ Cleared(v)' = Cleared(v)
      BY <1>0, <1>4 DEF HasItsPlan, Cleared, Trusted, NotYetRecorded
    <3>2. StatusOf(v)' \in Runnable =>
              HasItsPlan(v) /\ (v \notin unseen => Cleared(v))
      BY <1>0, <1>4 DEF ServiceKnows, VersionKnows, Retires, StatusOf, Runnable
    <3>3. StatusOf(v)' \in {"none", "DRAFT"} => graphVersion'[v] = graphVersion[v]
      BY <1>0, <1>5 DEF StatusOf
    <3> QED
      BY <1>0, <1>5, <2>1, <2>2, <3>1, <3>2, <3>3 DEF VersionKnows, StatusOf
  <2>3. CASE w # v
    BY <1>0, <1>4, <2>1, <2>3 DEF VersionKnows, StatusOf, WasPublished, HasItsPlan, Cleared, Trusted,
       NotYetRecorded
  <2> QED
    BY <2>2, <2>3
<1> QED
  BY <1>0, <1>2, <1>3, <1>4, <1>6, <1>7, TheCallAndVersions DEF DefinitionsTypeOK

LEMMA StepKeeps ==
    ASSUME DefinitionsInv, [DefinitionsNext]_definitionVars
    PROVE  DefinitionsInv'
<1>1. CASE RegisterExecutor
  BY <1>1, ManifestKeeps
<1>2. ASSUME NEW v \in VersionNos, ApproveProposal(v)
      PROVE  DefinitionsInv'
  BY <1>2, ApprovalKeeps
<1>3. ASSUME NEW a \in Authors, NEW origin \in {"edit", "import", "propose"}, CreateVersion(a, origin)
      PROVE  DefinitionsInv'
  <2>1. 1 \in VersionNos
    BY DefinitionsAssumption DEF VersionNos
  <2> QED
    BY <1>3, <2>1, BeginningsKeep
<1>4. ASSUME NEW a \in Authors, NEW v \in VersionNos,
             \/ \E next \in {"none", "review"} : Compile(a, v, next)
             \/ \E new \in {"DEPRECATED", "ARCHIVED"} : BeginRetirement(a, v, new)
             \/ BeginAlias(a, v) \/ BeginRun(a, v)
      PROVE  DefinitionsInv'
  BY <1>4, BeginningsKeep
<1>5. ASSUME NEW a \in Authors, InsertVersion(a)
      PROVE  DefinitionsInv'
  BY <1>5, DefinitionInsertKeeps
<1>6. ASSUME NEW a \in Authors,
             \/ \E trust \in {"TRUSTED", "UNTRUSTED_DRAFT"} : RecordImport(a, trust)
             \/ \E status \in {"DRAFT", "PENDING_APPROVAL"} : RecordProposal(a, status)
      PROVE  DefinitionsInv'
  BY <1>6, RecordsKeep
<1>7. ASSUME NEW a \in Authors, CheckForPlan(a) \/ SetAlias(a) \/ AdmitRun(a) \/ CallStops(a)
      PROVE  DefinitionsInv'
  BY <1>7, EndingsKeep
<1>8. ASSUME NEW a \in Authors,
             \/ SetValidationResult(a) \/ ReplacePlan(a) \/ ReviewForPublication(a)
             \/ TransitionVersion(a)
      PROVE  DefinitionsInv'
  BY <1>8, ValidationKeeps, PlanKeeps, DefinitionReviewKeeps, TransitionKeeps
<1>9. CASE UNCHANGED definitionVars
  BY <1>9 DEF definitionVars, DefinitionsInv, DefinitionsTypeOK, ServiceKnows, VersionKnows,
       OneRecords,
     AdmittedKnow, Tells, Proposes, NamesPublished, RunKeepsItsPlan, StatusOf, WasPublished,
     HasItsPlan, Cleared, Trusted, NotYetRecorded
<1> QED
  BY <1>1, <1>2, <1>3, <1>4, <1>5, <1>6, <1>7, <1>8, <1>9 DEF DefinitionsNext

LEMMA InitKnows == DefinitionsInit => DefinitionsInv
<1> SUFFICES ASSUME DefinitionsInit
             PROVE  DefinitionsInv
  OBVIOUS
<1>1. DefinitionsTypeOK
  BY DefinitionsAssumption DEF DefinitionsInit, DefinitionsTypeOK, NoVersion, NoPlan, NoRun, NoServiceCall
<1>2. serviceCall \in [Authors -> ServiceCall] /\ \A a \in Authors : ServiceKnows(a)
  BY DEF DefinitionsInit, ServiceCall, NoServiceCall, ServiceKnows, Compiling
<1>3. \A v \in VersionNos : VersionKnows(v)
  BY DEF DefinitionsInit, VersionKnows, StatusOf, NoVersion, Runnable
<1>4. OneRecords /\ AdmittedKnow
  BY DEF DefinitionsInit, OneRecords, Tells, Proposes, NoServiceCall, Compiling, AdmittedKnow,
     NamesPublished, RunKeepsItsPlan, NoRun
<1> QED
  BY <1>1, <1>2, <1>3, <1>4 DEF DefinitionsInv

LEMMA StepGoesForward ==
    ASSUME DefinitionsInv, [DefinitionsNext]_definitionVars
    PROVE  GoesForward
<1>0. DefinitionsTypeOK /\ serviceCall \in [Authors -> ServiceCall]
  BY DEF DefinitionsInv
<1>1. CASE UNCHANGED graphVersion
  BY <1>0, <1>1 DEF GoesForward, Rank, StatusOf, Runnable, DefinitionsTypeOK
<1>2. ASSUME NEW a \in Authors, InsertVersion(a)
      PROVE  GoesForward
  <2>1. serviceCall[a].v \in VersionNos
    BY <1>0, <1>2, CallTypes DEF InsertVersion
  <2>2. CASE StatusOf(serviceCall[a].v) = "none"
    BY <1>0, <1>2, <2>1, <2>2 DEF InsertVersion, GoesForward, Rank, StatusOf, Runnable, DefinitionsTypeOK
  <2> QED
    BY <1>1, <1>2, <2>2 DEF InsertVersion
<1>3. ASSUME NEW a \in Authors, SetValidationResult(a)
      PROVE  GoesForward
  <2> DEFINE call == serviceCall[a]
  <2>1. call.v \in VersionNos
    BY <1>0, <1>3, CallTypes DEF SetValidationResult, Compiling
  <2>2. CASE StatusOf(call.v) = "DRAFT"
    <3>1. graphVersion' = [graphVersion EXCEPT ![call.v] =
              [graphVersion[call.v] EXCEPT !.status = "VALIDATED", !.digest = call.digest]]
      BY <1>0, <1>3, <2>1, <2>2 DEF SetValidationResult, DefinitionsTypeOK
    <3> QED
      BY <1>0, <2>1, <2>2, <3>1 DEF GoesForward, Rank, StatusOf, Runnable, DefinitionsTypeOK
  <2> QED
    BY <1>1, <1>3, <2>2 DEF SetValidationResult
<1>4. ASSUME NEW a \in Authors, TransitionVersion(a)
      PROVE  GoesForward
  <2> DEFINE call == serviceCall[a]
  <2>1. call.v \in VersionNos /\ ServiceKnows(a) /\ call.step = "transition"
    BY <1>0, <1>4, CallTypes DEF TransitionVersion, DefinitionsInv
  <2>2. CASE StatusOf(call.v) = call.seen
    <3>1. graphVersion' = [graphVersion EXCEPT ![call.v].status = call.to]
      BY <1>4, <2>2 DEF TransitionVersion, StillAs
    <3>2. (call.to = "PUBLISHED" /\ call.seen = "VALIDATED") \/ Retires(call.seen, call.to)
      BY <2>1 DEF ServiceKnows
    <3> QED
      BY <1>0, <2>1, <2>2, <3>1, <3>2
         DEF GoesForward, Rank, StatusOf, Runnable, DefinitionsTypeOK, Retires
  <2> QED
    BY <1>1, <1>4, <2>2 DEF TransitionVersion, StillAs
<1> QED
  BY <1>1, <1>2, <1>3, <1>4 DEF DefinitionsNext, definitionVars, RegisterExecutor, ApproveProposal,
     CreateVersion, RecordImport, RecordProposal, Compile, BeginRetirement, BeginAlias, BeginRun,
     CheckForPlan, ReplacePlan, ReviewForPublication, SetAlias, AdmitRun, CallStops

(* What is PUBLISHED was compiled and reviewed, an alias names what was        *)
(* published, a Run keeps the plan it was admitted with, and a version only   *)
(* goes forward: for any authors, versions, plans and manifests, whatever     *)
(* calls interleave or stop half way.                                         *)
THEOREM DefinitionsKeepTheirWord == DefinitionsSpec => DefinitionsHold
<1>1. DefinitionsInv /\ [DefinitionsNext]_definitionVars => DefinitionsInv'
  BY StepKeeps
<1>2. DefinitionsInv => PublishedIsCompiled /\ ReviewedBeforePublished /\ NamesPublished /\ RunKeepsItsPlan
  BY DEF DefinitionsInv, VersionKnows, AdmittedKnow, PublishedIsCompiled, ReviewedBeforePublished, Cleared
<1>3. DefinitionsInv /\ [DefinitionsNext]_definitionVars => [GoesForward]_definitionVars
  BY StepGoesForward
<1> QED
  BY InitKnows, <1>1, <1>2, <1>3, PTL DEF DefinitionsSpec, DefinitionsHold
=============================================================================
