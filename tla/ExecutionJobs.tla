--------------------------- MODULE ExecutionJobs ---------------------------
(***************************************************************************)
(* The durable execution queue of execution_control.py: jobs wait for an   *)
(* approval, workers claim them under a lease with a token, and report.    *)
(*                                                                         *)
(* Every statement commits by itself, so claim_job is a sweep, a select, a *)
(* conditional update, an INSERT and a read, and a worker may die between  *)
(* any two of them.  The token of a claim is the attempt number it got.    *)
(***************************************************************************)
EXTENDS Naturals

CONSTANTS
    Jobs,
    JobWorkers,
    JobMaxTries    \* MAX_ATTEMPTS of a job

ASSUME JobAssumption == JobMaxTries \in Nat \ {0}

VARIABLES
    job,       \* EXECUTION_JOBS
    attempts,  \* EXECUTION_ATTEMPTS
    won,       \* history: per job, the token of the claim that succeeded, or 0
    dropped,   \* history: jobs out of attempts whose worker died
    desk       \* per worker: what it is doing

jobVars == <<job, attempts, won, dropped, desk>>

JobEnded == {"SUCCEEDED", "FAILED", "CANCELLED", "REJECTED"}
JobStatus == {"NONE", "WAITING_APPROVAL", "PENDING", "RUNNING", "RETRY"} \cup JobEnded
JobRow == [status : JobStatus, tries : Nat, token : Nat, cancel : BOOLEAN, lapsed : BOOLEAN]
NewJob == [status |-> "NONE", tries |-> 0, token |-> 0, cancel |-> FALSE, lapsed |-> FALSE]

AttemptRow ==
    [job : Jobs, number : Nat, token : Nat, status : {"RUNNING", "SUCCEEDED", "RETRY", "FAILED"}]

(* A worker has swept and read candidates, took one, works on it under a    *)
(* token, has judged its failure, or still has to close its attempt.        *)
AtRest == [stage |-> "rest"]
Desk ==
    [stage : {"choosing"}, picks : SUBSET Jobs] \cup
    [stage : {"took", "working"}, job : Jobs, token : Nat] \cup
    [stage : {"judged", "closing"}, job : Jobs, token : Nat, verdict : {"SUCCEEDED", "RETRY", "FAILED"}]

JobsTypeOK ==
    /\ job \in [Jobs -> JobRow]
    /\ attempts \subseteq AttemptRow
    /\ won \in [Jobs -> Nat]
    /\ dropped \subseteq Jobs
    /\ desk \in [JobWorkers -> Desk \cup {AtRest}]

JobsInit ==
    /\ job = [j \in Jobs |-> NewJob]
    /\ attempts = {}
    /\ won = [j \in Jobs |-> 0]
    /\ dropped = {}
    /\ desk = [w \in JobWorkers |-> AtRest]

-----------------------------------------------------------------------------
(* Callers *)

JobMoves(j, status) == job' = [job EXCEPT ![j].status = status]

EnqueueJob(j, approval) ==
    /\ job[j].status = "NONE"
    /\ JobMoves(j, IF approval THEN "WAITING_APPROVAL" ELSE "PENDING")
    /\ UNCHANGED <<attempts, won, dropped, desk>>

DecideJob(j, approved) ==
    /\ job[j].status = "WAITING_APPROVAL"
    /\ JobMoves(j, IF approved THEN "PENDING" ELSE "REJECTED")
    /\ UNCHANGED <<attempts, won, dropped, desk>>

(* A running job is only asked to stop: its worker's reports are refused    *)
(* from now on, and nothing else ends it.                                   *)
CancelJob(j) ==
    /\ job[j].status \notin JobEnded \cup {"NONE"}
    /\ job' = [job EXCEPT ![j].cancel = TRUE,
                          ![j].status = IF @ = "RUNNING" THEN @ ELSE "CANCELLED"]
    /\ UNCHANGED <<attempts, won, dropped, desk>>

-----------------------------------------------------------------------------
(* claim_job *)

TriesLeft(r) == r.tries < JobMaxTries

NeverSwept(r) == r
(* The sweep leaves a job that is out of attempts as it is. *)
Swept(r) ==
    IF r.status = "RUNNING" /\ r.lapsed /\ ~r.cancel /\ TriesLeft(r)
    THEN [r EXCEPT !.status = "RETRY", !.token = 0] ELSE r

Candidate(r) == r.status \in {"PENDING", "RETRY"} /\ ~r.cancel /\ TriesLeft(r)

(* The sweep of expired leases, and the select after it. *)
ChooseJobs(w) ==
    /\ desk[w] = AtRest
    /\ job' = [j \in Jobs |-> Swept(job[j])]
    /\ LET picks == {j \in Jobs : Candidate(Swept(job[j]))} IN
         desk' = IF picks = {} THEN desk
                 ELSE [desk EXCEPT ![w] = [stage |-> "choosing", picks |-> picks]]
    /\ UNCHANGED <<attempts, won, dropped>>

(* The conditional update; one that changes no row goes on with the next.   *)
TakeJob(w, j) ==
    LET r == job[j] IN
    /\ desk[w].stage = "choosing" /\ j \in desk[w].picks
    /\ IF r.status \in {"PENDING", "RETRY"} /\ ~r.cancel
       THEN /\ job' = [job EXCEPT ![j] = [status |-> "RUNNING", tries |-> r.tries + 1, cancel |-> FALSE,
                                          token |-> r.tries + 1, lapsed |-> FALSE]]
            /\ desk' = [desk EXCEPT ![w] = [stage |-> "took", job |-> j, token |-> r.tries + 1]]
       ELSE /\ desk' = [desk EXCEPT ![w] = IF @.picks = {j} THEN AtRest
                                           ELSE [stage |-> "choosing", picks |-> @.picks \ {j}]]
            /\ UNCHANGED job
    /\ UNCHANGED <<attempts, won, dropped>>

(* The INSERT numbers the attempt by the count it finds, fails where that   *)
(* number is taken, and the worker goes on with the token it reads back.    *)
OpenAttempt(w) ==
    LET j == desk[w].job IN
    /\ desk[w].stage = "took"
    /\ IF \E a \in attempts : a.job = j /\ a.number = job[j].tries
       THEN desk' = [desk EXCEPT ![w] = AtRest] /\ UNCHANGED attempts
       ELSE /\ attempts' = attempts \cup {[job |-> j, number |-> job[j].tries,
                                           token |-> desk[w].token, status |-> "RUNNING"]}
            /\ desk' = [desk EXCEPT ![w] = [stage |-> "working", job |-> j, token |-> job[j].token]]
    /\ UNCHANGED <<job, won, dropped>>

-----------------------------------------------------------------------------
(* Reports *)

HoldsAny(w) == job[desk[w].job].status = "RUNNING"
(* The claim the worker reports for is still the current one. *)
Holds(w) ==
    LET r == job[desk[w].job] IN r.status = "RUNNING" /\ r.token = desk[w].token

RenewLease(w) ==
    /\ desk[w].stage = "working" /\ Holds(w) /\ ~job[desk[w].job].cancel
    /\ job' = [job EXCEPT ![desk[w].job].lapsed = FALSE]
    /\ UNCHANGED <<attempts, won, dropped, desk>>

CompletesLate(w) == HoldsAny(w) /\ ~job[desk[w].job].cancel
MayComplete(w) == Holds(w) /\ ~job[desk[w].job].cancel

Reported(w, verdict) ==
    /\ job' = [job EXCEPT ![desk[w].job] = [@ EXCEPT !.status = verdict, !.token = 0]]
    /\ desk' = [desk EXCEPT ![w] = [stage |-> "closing", job |-> desk[w].job,
                                    token |-> desk[w].token, verdict |-> verdict]]

(* complete_job; run_worker_once does not look at its answer. *)
CompleteJob(w) ==
    /\ desk[w].stage = "working"
    /\ IF MayComplete(w)
       THEN /\ Reported(w, "SUCCEEDED")
            /\ won' = [won EXCEPT ![desk[w].job] = desk[w].token]
       ELSE /\ desk' = [desk EXCEPT ![w] = AtRest]
            /\ UNCHANGED <<job, won>>
    /\ UNCHANGED <<attempts, dropped>>

(* fail_job reads the job and decides, then writes under the token. *)
JudgeFailure(w) ==
    LET r == job[desk[w].job] IN
    /\ desk[w].stage = "working"
    /\ desk' = [desk EXCEPT ![w] =
           IF ~Holds(w) THEN AtRest
           ELSE [stage |-> "judged", job |-> desk[w].job, token |-> desk[w].token,
                 verdict |-> IF r.tries < JobMaxTries THEN "RETRY" ELSE "FAILED"]]
    /\ UNCHANGED <<job, attempts, won, dropped>>

FailJob(w) ==
    /\ desk[w].stage = "judged"
    /\ IF Holds(w) THEN Reported(w, desk[w].verdict)
       ELSE desk' = [desk EXCEPT ![w] = AtRest] /\ UNCHANGED job
    /\ UNCHANGED <<attempts, won, dropped>>

(* _finish_attempt *)
CloseAttempt(w) ==
    LET d == desk[w] IN
    /\ d.stage = "closing"
    /\ attempts' = {IF a.job = d.job /\ a.token = d.token /\ a.status = "RUNNING"
                    THEN [a EXCEPT !.status = d.verdict] ELSE a : a \in attempts}
    /\ desk' = [desk EXCEPT ![w] = AtRest]
    /\ UNCHANGED <<job, won, dropped>>

-----------------------------------------------------------------------------
(* The environment *)

JobLeaseLapses(j) ==
    /\ job[j].status = "RUNNING" /\ ~job[j].lapsed
    /\ job' = [job EXCEPT ![j].lapsed = TRUE]
    /\ UNCHANGED <<attempts, won, dropped, desk>>

JobWorkerDies(w) ==
    /\ desk[w].stage \notin {"rest", "choosing"}
    /\ dropped' = IF job[desk[w].job].tries = JobMaxTries
                  THEN dropped \cup {desk[w].job} ELSE dropped
    /\ desk' = [desk EXCEPT ![w] = AtRest]
    /\ UNCHANGED <<job, attempts, won>>

JobsNext ==
    \/ \E j \in Jobs :
         \/ \E b \in BOOLEAN : EnqueueJob(j, b) \/ DecideJob(j, b)
         \/ CancelJob(j) \/ JobLeaseLapses(j)
    \/ \E w \in JobWorkers :
         \/ ChooseJobs(w) \/ (\E j \in Jobs : TakeJob(w, j)) \/ OpenAttempt(w)
         \/ RenewLease(w) \/ CompleteJob(w) \/ JudgeFailure(w) \/ FailJob(w)
         \/ CloseAttempt(w) \/ JobWorkerDies(w)

JobsSpec == JobsInit /\ [][JobsNext]_jobVars

(* Time passes, and workers poll and finish what they claimed. *)
JobsFairness ==
    /\ \A j \in Jobs : WF_jobVars(JobLeaseLapses(j))
    /\ \A w \in JobWorkers : WF_jobVars(
         \/ ChooseJobs(w) \/ (\E j \in Jobs : TakeJob(w, j)) \/ OpenAttempt(w)
         \/ CompleteJob(w) \/ JudgeFailure(w) \/ FailJob(w) \/ CloseAttempt(w))

-----------------------------------------------------------------------------
(* Properties *)

(* No job is started more often than it allows, although the update that    *)
(* takes a job does not look at the count: claims on old reads, expiry and  *)
(* late failures together never pass the limit.                             *)
JobTriesBounded == \A j \in Jobs : job[j].tries <= JobMaxTries

(* The newest claim is the one that succeeds: a worker whose lease lapsed   *)
(* and was taken over cannot complete the job with its old token.           *)
NewestClaimWins ==
    \A j \in Jobs : job[j].status = "SUCCEEDED" => won[j] = job[j].tries

(* From the answer of cancel_job on, no worker starts the job again and     *)
(* none reports its success, whatever it had read or done before.           *)
CancelledStaysCancelled ==
    [][\A j \in Jobs : job[j].cancel =>
           job'[j].tries = job[j].tries /\ won'[j] = won[j]]_jobVars

(* Claims by sweep, select and conditional update, reports under a token:   *)
(* together they are leased work.  No job is started more often than it     *)
(* allows, although the update that takes it does not look at the count.    *)
JobWork == INSTANCE LeasedWork WITH
    Work <- Jobs, MaxClaims <- JobMaxTries,
    claims <- [j \in Jobs |-> job[j].tries], winner <- won
JobsAreLeasedWork == JobWork!WorkSpec

(* A job that may run is finished in the end, whatever leases lapse: unless *)
(* it was cancelled, or the worker of its last attempt died, which leaves   *)
(* it RUNNING for good.                                                     *)
JobSettles ==
    \A j \in Jobs : job[j].status = "PENDING"
        ~> job[j].status \in JobEnded \/ job[j].cancel \/ j \in dropped
=============================================================================
