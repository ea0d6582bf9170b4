----------------------------- MODULE LeasedWork -----------------------------
(***************************************************************************)
(* What every queue of the system promises the work in it: a piece of work *)
(* is claimed again and again, each claim under the next fencing token,    *)
(* until one claim succeeds.  The claim that succeeds is the newest one,    *)
(* and work that is done is not claimed again.                              *)
(*                                                                         *)
(* Node runs (GraphRuntime), execution jobs (ExecutionJobs), embedding jobs *)
(* (EmbeddingJobs), memory jobs and their items (MemoryJobs) implement it;  *)
(* each of those modules gives the refinement mapping.                      *)
(***************************************************************************)
EXTENDS Naturals

CONSTANTS
    Work,
    MaxClaims   \* how often a piece of work may be claimed

VARIABLES
    claims,     \* per piece of work, the claims so far, and so the newest token
    winner      \* the token of the claim that succeeded, 0 while there is none

workVars == <<claims, winner>>

WorkInit ==
    /\ claims = [w \in Work |-> 0]
    /\ winner = [w \in Work |-> 0]

ClaimWork(w) ==
    /\ winner[w] = 0 /\ claims[w] < MaxClaims
    /\ claims' = [claims EXCEPT ![w] = @ + 1]
    /\ UNCHANGED winner

FinishWork(w) ==
    /\ winner[w] = 0 /\ claims[w] > 0
    /\ winner' = [winner EXCEPT ![w] = claims[w]]
    /\ UNCHANGED claims

WorkNext == \E w \in Work : ClaimWork(w) \/ FinishWork(w)

WorkSpec == WorkInit /\ [][WorkNext]_workVars
=============================================================================
