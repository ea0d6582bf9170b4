----------------------------- MODULE MemoryJobs -----------------------------
(***************************************************************************)
(* A memory job and its items (memory_lifecycle.py): run_job_once claims    *)
(* the job under a fenced lease, then its items one by one, each under a    *)
(* fenced lease of its own, and completes the job when no item is left.     *)
(* Both leases can run out under a live worker, and a worker can die at any *)
(* point; the job can be cancelled and queued again meanwhile.              *)
(***************************************************************************)
EXTENDS Naturals

CONSTANTS
    MemoryWorkers,
    NoOne,          \* LEASE_OWNER NULL
    Items,          \* the items frozen into the job when it was created
    MaxClaim        \* bound on fencing tokens

ASSUME MemoryJobsAssumption == NoOne \notin MemoryWorkers /\ MaxClaim \in Nat

VARIABLES
    memJob,     \* the row of CX_MEMORY_JOBS
    item,       \* its rows of CX_MEMORY_JOB_ITEMS
    runner,     \* per worker: where its run_job_once is, and the tokens it holds
    worked      \* history: <<item, token>> whose work was done under that claim

memoryJobVars == <<memJob, item, runner, worked>>

Claimed(row, w) == [status |-> "RUNNING", owner |-> w, fence |-> row.fence + 1, lapsed |-> FALSE]
Queued(row) == [row EXCEPT !.status = "QUEUED", !.owner = NoOne, !.lapsed = FALSE]
Away == [at |-> "away", fence |-> 0, item |-> CHOOSE i \in Items : TRUE, itemFence |-> 0]

Rows == [status : {"QUEUED", "RUNNING", "COMPLETED", "FAILED", "CANCELLED"},
         owner : MemoryWorkers \cup {NoOne}, fence : 0..MaxClaim, lapsed : BOOLEAN]
MemoryJobsTypeOK ==
    /\ memJob \in Rows
    /\ item \in [Items -> Rows]
    /\ runner \in [MemoryWorkers ->
         [at : {"away", "items", "work", "report", "renew", "finish", "complete", "raise"},
          fence : 0..MaxClaim, item : Items \cup {Away.item}, itemFence : 0..MaxClaim]]
    /\ worked \subseteq (Items \X (0..MaxClaim))

MemoryJobsInit ==
    /\ memJob = [status |-> "QUEUED", owner |-> NoOne, fence |-> 0, lapsed |-> FALSE]
    /\ item = [i \in Items |-> memJob]
    /\ runner = [w \in MemoryWorkers |-> Away]
    /\ worked = {}

OpenWhenLapsed(row) == row.status = "QUEUED" \/ row.lapsed
Open(row) == row.status = "QUEUED" \/ (row.status = "RUNNING" /\ row.lapsed)
Goes(w, to) == runner' = [runner EXCEPT ![w].at = to]
Stops(w) == runner' = [runner EXCEPT ![w] = Away]

(* What a fenced update asks for: the claim is still the row's newest one.  *)
(* Whether its lease has run out matters only where noted.                  *)
Owns(row, w, fence) == row.status = "RUNNING" /\ row.owner = w /\ row.fence = fence
HoldsJob(w) == Owns(memJob, w, runner[w].fence)
HoldsItem(w) == Owns(item[runner[w].item], w, runner[w].itemFence)

-----------------------------------------------------------------------------
(* run_job_once *)

ClaimMemoryJob(w) ==
    /\ runner[w].at = "away" /\ Open(memJob) /\ memJob.fence < MaxClaim
    /\ memJob' = Claimed(memJob, w)
    /\ runner' = [runner EXCEPT ![w] = [at |-> "items", fence |-> memJob.fence + 1,
                                         item |-> @.item, itemFence |-> @.itemFence]]
    /\ UNCHANGED <<item, worked>>

(* The claim of an item proves that the job's lease is held and alive.  An  *)
(* open item the guard refuses ends the loop as no item at all does.        *)
ClaimItem(w) ==
    /\ runner[w].at = "items" /\ HoldsJob(w) /\ ~memJob.lapsed
    /\ \E i \in Items :
         /\ Open(item[i]) /\ item[i].fence < MaxClaim
         /\ item' = [item EXCEPT ![i] = Claimed(@, w)]
         /\ runner' = [runner EXCEPT ![w] = [at |-> "work", fence |-> @.fence,
                                             item |-> i, itemFence |-> item[i].fence + 1]]
    /\ UNCHANGED <<memJob, worked>>

NoItem(w) ==
    /\ runner[w].at = "items"
    /\ (HoldsJob(w) /\ ~memJob.lapsed) => \A i \in Items : ~Open(item[i])
    /\ Goes(w, "finish")
    /\ UNCHANGED <<memJob, item, worked>>

(* The deterministic representations are written before the report. *)
WorkItem(w) ==
    /\ runner[w].at = "work"
    /\ \/ /\ worked' = worked \cup {<<runner[w].item, runner[w].itemFence>>}
          /\ Goes(w, "report")
       \/ Goes(w, "raise") /\ UNCHANGED worked
    /\ UNCHANGED <<memJob, item>>

ReportItem(w) ==
    /\ runner[w].at = "report"
    /\ IF HoldsItem(w)
       THEN /\ item' = [item EXCEPT ![runner[w].item].status = "COMPLETED",
                                    ![runner[w].item].lapsed = TRUE]
            /\ Goes(w, "renew")
       ELSE Goes(w, "raise") /\ UNCHANGED item
    /\ UNCHANGED <<memJob, worked>>

(* renew_job_lease refuses a lease that has run out. *)
RenewJob(w) ==
    /\ runner[w].at = "renew"
    /\ Goes(w, IF HoldsJob(w) /\ ~memJob.lapsed THEN "items" ELSE "raise")
    /\ UNCHANGED <<memJob, item, worked>>

Ends(w, status) ==
    memJob' = IF HoldsJob(w) THEN [memJob EXCEPT !.status = status, !.lapsed = TRUE] ELSE memJob

(* _finish_job_if_done counts what is neither COMPLETED nor CANCELLED; with *)
(* a remainder the call returns and leaves the job RUNNING.                 *)
NothingQueued == \A i \in Items : item[i].status # "QUEUED"
NothingRemains == \A i \in Items : item[i].status \in {"COMPLETED", "CANCELLED"}
CountRemaining(w) ==
    /\ runner[w].at = "finish"
    /\ IF NothingRemains THEN Goes(w, "complete") ELSE Stops(w)
    /\ UNCHANGED <<memJob, item, worked>>

CompleteMemoryJob(w) ==
    /\ runner[w].at = "complete"
    /\ Ends(w, "COMPLETED") /\ Stops(w)
    /\ UNCHANGED <<item, worked>>

FailJob(w) ==
    /\ runner[w].at = "raise"
    /\ Ends(w, "FAILED") /\ Stops(w)
    /\ UNCHANGED <<item, worked>>

MemoryWorkerDies(w) ==
    /\ runner[w] # Away /\ Stops(w)
    /\ UNCHANGED <<memJob, item, worked>>

-----------------------------------------------------------------------------
(* Operators and time *)

Becomes(from, row) == [i \in Items |-> IF item[i].status \in from THEN row[i] ELSE item[i]]

CancelJob ==
    /\ memJob.status \in {"QUEUED", "RUNNING"}
    /\ memJob' = [memJob EXCEPT !.status = "CANCELLED"]
    /\ item' = Becomes({"QUEUED", "RUNNING"}, [i \in Items |-> [item[i] EXCEPT !.status = "CANCELLED"]])
    /\ UNCHANGED <<runner, worked>>

RetryJob ==
    /\ memJob.status \in {"FAILED", "CANCELLED"}
    /\ memJob' = Queued(memJob)
    /\ item' = Becomes({"FAILED", "CANCELLED"}, [i \in Items |-> Queued(item[i])])
    /\ UNCHANGED <<runner, worked>>

Lapse ==
    /\ \/ memJob.status = "RUNNING" /\ memJob' = [memJob EXCEPT !.lapsed = TRUE] /\ UNCHANGED item
       \/ /\ \E i \in Items : item[i].status = "RUNNING" /\ item' = [item EXCEPT ![i].lapsed = TRUE]
          /\ UNCHANGED memJob
    /\ UNCHANGED <<runner, worked>>

MemoryJobsNext ==
    \/ \E w \in MemoryWorkers :
         \/ ClaimMemoryJob(w) \/ ClaimItem(w) \/ NoItem(w) \/ WorkItem(w) \/ ReportItem(w)
         \/ RenewJob(w) \/ CountRemaining(w) \/ CompleteMemoryJob(w) \/ FailJob(w) \/ MemoryWorkerDies(w)
    \/ CancelJob \/ RetryJob \/ Lapse

MemoryJobsSpec == MemoryJobsInit /\ [][MemoryJobsNext]_memoryJobVars

-----------------------------------------------------------------------------
(* Properties *)

(* A job that is COMPLETED has every item completed, under the newest claim *)
(* of that item and after its work was done: not by the count of a worker   *)
(* whose job was cancelled and queued again, nor by the report of one that  *)
(* lost its item.                                                           *)
CompletedJobIsDone ==
    memJob.status = "COMPLETED" =>
        \A i \in Items : item[i].status = "COMPLETED" /\ <<i, item[i].fence>> \in worked

(* The job and its items are leased work, although the queue puts cancelled *)
(* and failed rows back and every lease may run out under its worker.       *)
Outcome(row) == IF row.status = "COMPLETED" THEN row.fence ELSE 0
ItemWork == INSTANCE LeasedWork WITH
    Work <- Items, MaxClaims <- MaxClaim,
    claims <- [i \in Items |-> item[i].fence], winner <- [i \in Items |-> Outcome(item[i])]
WholeJob == INSTANCE LeasedWork WITH
    Work <- {"job"}, MaxClaims <- MaxClaim,
    claims <- [j \in {"job"} |-> memJob.fence], winner <- [j \in {"job"} |-> Outcome(memJob)]
MemoryIsLeasedWork == ItemWork!WorkSpec /\ WholeJob!WorkSpec
=============================================================================
