---------------------------- MODULE MemoryProofs -----------------------------
(***************************************************************************)
(* The lifecycle of memories, for any workers, items, editors, candidates, *)
(* reviewers and versions: a job that is COMPLETED is done and is leased   *)
(* work, no edit is lost, and a candidate becomes one version.             *)
(***************************************************************************)
EXTENDS MemoryJobs, MemoryVersions, TLAPS

-----------------------------------------------------------------------------
(* Memory jobs *)

(* An item is CANCELLED only while its job is, so a worker that counts     *)
(* nothing left in a job that still runs has seen every item COMPLETED;    *)
(* and a count taken before the job was cancelled is of no use afterwards, *)
(* as the job can only run again under a new fence.                        *)

USE MemoryJobsAssumption

Places == {"away", "items", "work", "report", "renew", "finish", "complete", "raise"}
RunnerRows == [at : Places, fence : 0..MaxClaim, item : Items \cup {Away.item}, itemFence : 0..MaxClaim]

MemoryRecords ==
    /\ memJob \in Rows /\ item \in [Items -> Rows]
    /\ runner \in [MemoryWorkers -> RunnerRows]
    /\ \A w \in MemoryWorkers :
         /\ runner[w].at \in {"work", "report"} => runner[w].item \in Items
         /\ runner[w].fence <= memJob.fence

(* A claim comes with a fence of its own. *)
FencedRows ==
    /\ memJob.status \in {"RUNNING", "COMPLETED"} => memJob.fence > 0
    /\ \A i \in Items : item[i].status \in {"RUNNING", "COMPLETED"} => item[i].fence > 0

CancelledTogether ==
    \A i \in Items : item[i].status = "CANCELLED" => memJob.status = "CANCELLED"

(* What is reported was worked on, under the claim it is reported for. *)
ReportsWorked ==
    /\ \A w \in MemoryWorkers : runner[w].at = "report" => <<runner[w].item, runner[w].itemFence>> \in worked
    /\ \A i \in Items : item[i].status = "COMPLETED" => <<i, item[i].fence>> \in worked

AllCompleted == \A i \in Items : item[i].status = "COMPLETED"

(* A worker about to complete the job it still holds has counted right. *)
CountsStand ==
    /\ \A w \in MemoryWorkers : runner[w].at = "complete" /\ HoldsJob(w) => AllCompleted
    /\ memJob.status = "COMPLETED" => AllCompleted

MemoryJobInv ==
    MemoryRecords /\ FencedRows /\ CancelledTogether /\ ReportsWorked /\ CountsStand

LEMMA AwayForm ==
    /\ Away \in RunnerRows /\ Away.at = "away" /\ Away.fence = 0
BY DEF Away, RunnerRows, Places

LEMMA MemoryJobBegins == MemoryJobsInit => MemoryJobInv
<1> SUFFICES ASSUME MemoryJobsInit PROVE MemoryJobInv
  OBVIOUS
<1>1. /\ memJob = [status |-> "QUEUED", owner |-> NoOne, fence |-> 0, lapsed |-> FALSE]
      /\ item = [i \in Items |-> memJob] /\ runner = [w \in MemoryWorkers |-> Away]
  BY DEF MemoryJobsInit
<1>2. memJob \in Rows
  BY <1>1 DEF Rows
<1>3. MemoryRecords
  <2>1. memJob.fence = 0 /\ \A w \in MemoryWorkers : runner[w] = Away
    BY <1>1
  <2>2. item \in [Items -> Rows] /\ runner \in [MemoryWorkers -> RunnerRows]
    BY <1>1, <1>2, AwayForm
  <2> QED BY <1>2, <2>1, <2>2, AwayForm DEF MemoryRecords
<1>4. FencedRows /\ CancelledTogether /\ ReportsWorked /\ CountsStand
  BY <1>1, AwayForm DEF FencedRows, CancelledTogether, ReportsWorked, CountsStand, AllCompleted
<1> QED BY <1>3, <1>4 DEF MemoryJobInv

-----------------------------------------------------------------------------
(* Steps of a worker that leave the rows alone. *)
LEMMA MemoryWalkKeeps ==
    ASSUME MemoryJobInv, UNCHANGED <<memJob, item>>, worked \subseteq worked',
           NEW w \in MemoryWorkers, NEW r \in RunnerRows,
           runner' = [runner EXCEPT ![w] = r],
           r.fence <= memJob.fence,
           r.at \in {"work", "report"} => r.item \in Items,
           r.at = "report" => <<r.item, r.itemFence>> \in worked',
           r.at = "complete" /\ Owns(memJob, w, r.fence) => AllCompleted
    PROVE  MemoryJobInv'
<1>1. \A v \in MemoryWorkers : runner'[v] = IF v = w THEN r ELSE runner[v]
  BY DEF MemoryJobInv, MemoryRecords
<1>2. MemoryRecords'
  BY <1>1 DEF MemoryJobInv, MemoryRecords
<1>3. FencedRows' /\ CancelledTogether'
  BY DEF MemoryJobInv, FencedRows, CancelledTogether
<1>4. ReportsWorked'
  BY <1>1 DEF MemoryJobInv, ReportsWorked
<1>5. CountsStand'
  BY <1>1 DEF MemoryJobInv, CountsStand, AllCompleted, HoldsJob, Owns
<1> QED BY <1>2, <1>3, <1>4, <1>5 DEF MemoryJobInv

LEMMA RunnerForm ==
    ASSUME MemoryJobInv, NEW w \in MemoryWorkers
    PROVE  /\ runner[w] \in RunnerRows /\ runner[w].fence <= memJob.fence
           /\ runner[w].at \in {"work", "report"} => runner[w].item \in Items
           /\ memJob \in Rows /\ memJob.fence \in Nat /\ runner[w].fence \in Nat
           /\ item \in [Items -> Rows]
BY DEF MemoryJobInv, MemoryRecords, RunnerRows, Rows

LEMMA RowsForm ==
    ASSUME MemoryJobInv
    PROVE  memJob \in Rows /\ item \in [Items -> Rows] /\ \A i \in Items : item[i] \in Rows
BY DEF MemoryJobInv, MemoryRecords

LEMMA GoesForm ==
    ASSUME MemoryJobInv, NEW w \in MemoryWorkers, NEW to \in Places, Goes(w, to)
    PROVE  \E r \in RunnerRows : /\ runner' = [runner EXCEPT ![w] = r] /\ r.at = to
                                 /\ r.fence = runner[w].fence /\ r.item = runner[w].item
                                 /\ r.itemFence = runner[w].itemFence
<1> DEFINE r == [runner[w] EXCEPT !.at = to]
<1>1. r \in RunnerRows /\ r.at = to /\ r.fence = runner[w].fence /\ r.item = runner[w].item
      /\ r.itemFence = runner[w].itemFence
  BY RunnerForm DEF RunnerRows
<1>2. runner' = [runner EXCEPT ![w] = r]
  BY DEF Goes
<1> QED BY <1>1, <1>2

LEMMA StopsKeeps ==
    ASSUME MemoryJobInv, UNCHANGED <<memJob, item, worked>>, NEW w \in MemoryWorkers, Stops(w)
    PROVE  MemoryJobInv'
<1>1. Away \in RunnerRows /\ Away.at = "away" /\ Away.fence <= memJob.fence
  BY AwayForm, RunnerForm
<1> QED BY <1>1, MemoryWalkKeeps DEF Stops

LEMMA GoesKeeps ==
    ASSUME MemoryJobInv, UNCHANGED <<memJob, item, worked>>, NEW w \in MemoryWorkers,
           NEW to \in {"items", "finish", "raise"}, Goes(w, to)
    PROVE  MemoryJobInv'
<1>1. PICK r \in RunnerRows : /\ runner' = [runner EXCEPT ![w] = r] /\ r.at = to
                              /\ r.fence = runner[w].fence
  BY GoesForm DEF Places
<1>2. r.fence <= memJob.fence /\ r.at \notin {"work", "report", "complete"}
  BY <1>1, RunnerForm
<1> QED BY <1>1, <1>2, MemoryWalkKeeps

-----------------------------------------------------------------------------
LEMMA ClaimJobKeeps ==
    ASSUME MemoryJobInv, NEW w \in MemoryWorkers, ClaimMemoryJob(w)
    PROVE  MemoryJobInv'
<1>1. /\ Open(memJob) /\ memJob.fence < MaxClaim /\ UNCHANGED <<item, worked>>
      /\ memJob' = [status |-> "RUNNING", owner |-> w, fence |-> memJob.fence + 1, lapsed |-> FALSE]
      /\ runner' = [runner EXCEPT ![w] = [at |-> "items", fence |-> memJob.fence + 1,
                                         item |-> @.item, itemFence |-> @.itemFence]]
  BY DEF ClaimMemoryJob, Claimed
<1>2. memJob' \in Rows /\ memJob'.fence = memJob.fence + 1 /\ memJob.fence \in Nat
  BY <1>1, RunnerForm DEF Rows
<1>3. PICK r \in RunnerRows : r.at = "items" /\ r.fence = memJob.fence + 1 /\ runner' = [runner EXCEPT ![w] = r]
  <2> DEFINE s == [at |-> "items", fence |-> memJob.fence + 1, item |-> runner[w].item,
                  itemFence |-> runner[w].itemFence]
  <2>1. s \in RunnerRows /\ s.at = "items" /\ s.fence = memJob.fence + 1
    BY <1>1, <1>2, RunnerForm DEF RunnerRows, Places
  <2>2. runner' = [runner EXCEPT ![w] = s]
    BY <1>1
  <2> QED BY <2>1, <2>2
<1>4. \A v \in MemoryWorkers : runner'[v] = IF v = w THEN r ELSE runner[v]
  BY <1>3 DEF MemoryJobInv, MemoryRecords
<1>5. MemoryRecords'
  <2>1. runner' \in [MemoryWorkers -> RunnerRows] /\ item' \in [Items -> Rows]
    BY <1>1, <1>3, RunnerForm DEF MemoryJobInv, MemoryRecords
  <2>2. \A v \in MemoryWorkers : /\ runner'[v].at \in {"work", "report"} => runner'[v].item \in Items
                                 /\ runner'[v].fence <= memJob'.fence
    BY <1>2, <1>3, <1>4, RunnerForm
  <2> QED BY <1>2, <2>1, <2>2 DEF MemoryRecords
<1>6. memJob.status # "CANCELLED" /\ memJob.status # "COMPLETED"
  BY <1>1 DEF Open
<1>7. FencedRows' /\ CancelledTogether'
  BY <1>1, <1>2, <1>6 DEF MemoryJobInv, FencedRows, CancelledTogether
<1>8. ReportsWorked'
  BY <1>1, <1>3, <1>4 DEF MemoryJobInv, ReportsWorked
<1>9. CountsStand'
  <2>1. \A v \in MemoryWorkers : v # w => runner'[v].fence < memJob'.fence
    BY <1>2, <1>4, RunnerForm
  <2>2. \A v \in MemoryWorkers : runner'[v].at = "complete" => v # w
    BY <1>3, <1>4
  <2>3. \A v \in MemoryWorkers : runner'[v].at = "complete" => ~HoldsJob(v)'
    <3> SUFFICES ASSUME NEW v \in MemoryWorkers, runner'[v].at = "complete", HoldsJob(v)' PROVE FALSE
      OBVIOUS
    <3>1. memJob'.fence = runner'[v].fence BY DEF HoldsJob, Owns
    <3>2. runner'[v].fence < memJob'.fence BY <2>1, <2>2
    <3> QED BY <1>2, <3>1, <3>2
  <2> QED BY <1>1, <2>3 DEF CountsStand
<1> QED BY <1>5, <1>7, <1>8, <1>9 DEF MemoryJobInv

LEMMA ClaimItemKeeps ==
    ASSUME MemoryJobInv, NEW w \in MemoryWorkers, ClaimItem(w)
    PROVE  MemoryJobInv'
<1>1. PICK i \in Items :
         /\ Open(item[i]) /\ item[i].fence < MaxClaim
         /\ item' = [item EXCEPT ![i] = Claimed(@, w)]
         /\ runner' = [runner EXCEPT ![w] = [at |-> "work", fence |-> @.fence,
                                             item |-> i, itemFence |-> item[i].fence + 1]]
  BY DEF ClaimItem
<1>2. HoldsJob(w) /\ UNCHANGED <<memJob, worked>>
  BY DEF ClaimItem
<1> DEFINE new == [status |-> "RUNNING", owner |-> w, fence |-> item[i].fence + 1, lapsed |-> FALSE]
<1>3. new \in Rows /\ item[i].fence \in Nat
  BY <1>1, RunnerForm DEF Rows
<1>4. item' = [item EXCEPT ![i] = new]
  BY <1>1, RunnerForm DEF Claimed
<1>5. PICK r \in RunnerRows : /\ r = [at |-> "work", fence |-> runner[w].fence, item |-> i, itemFence |-> item[i].fence + 1]
                              /\ runner' = [runner EXCEPT ![w] = r]
  <2>1. [at |-> "work", fence |-> runner[w].fence, item |-> i, itemFence |-> item[i].fence + 1] \in RunnerRows
    BY <1>1, <1>3, RunnerForm DEF RunnerRows, Places
  <2> QED BY <1>1, <2>1
<1>6. /\ \A v \in MemoryWorkers : runner'[v] = IF v = w THEN r ELSE runner[v]
      /\ \A j \in Items : item'[j] = IF j = i THEN new ELSE item[j]
  BY <1>4, <1>5, RunnerForm DEF MemoryJobInv, MemoryRecords
<1>7. item[i].status # "COMPLETED" /\ memJob.status = "RUNNING"
  BY <1>1, <1>2 DEF Open, HoldsJob, Owns
<1>8. MemoryRecords'
  <2>1. item' \in [Items -> Rows] /\ runner' \in [MemoryWorkers -> RunnerRows]
    BY <1>3, <1>4, <1>5, RunnerForm DEF MemoryJobInv, MemoryRecords
  <2> QED BY <1>2, <1>5, <1>6, <2>1, RunnerForm DEF MemoryRecords
<1>9. FencedRows' /\ CancelledTogether'
  BY <1>2, <1>3, <1>6 DEF MemoryJobInv, FencedRows, CancelledTogether
<1>10. ReportsWorked'
  BY <1>2, <1>5, <1>6 DEF MemoryJobInv, ReportsWorked
<1>11. CountsStand'
  <2>1. ~AllCompleted
    BY <1>7 DEF AllCompleted
  <2>2. \A v \in MemoryWorkers : runner'[v].at = "complete" => runner'[v] = runner[v]
    BY <1>5, <1>6
  <2> QED BY <1>2, <1>7, <2>1, <2>2 DEF MemoryJobInv, CountsStand, HoldsJob, Owns
<1> QED BY <1>8, <1>9, <1>10, <1>11 DEF MemoryJobInv

LEMMA WorkKeeps ==
    ASSUME MemoryJobInv, NEW w \in MemoryWorkers, WorkItem(w)
    PROVE  MemoryJobInv'
<1>1. /\ runner[w].at = "work" /\ runner[w].item \in Items /\ UNCHANGED <<memJob, item>>
      /\ runner[w].fence <= memJob.fence
  BY RunnerForm DEF WorkItem
<1>2. CASE worked' = worked \cup {<<runner[w].item, runner[w].itemFence>>} /\ Goes(w, "report")
  <2>1. PICK r \in RunnerRows : /\ runner' = [runner EXCEPT ![w] = r] /\ r.at = "report"
                                /\ r.fence = runner[w].fence /\ r.item = runner[w].item
                                /\ r.itemFence = runner[w].itemFence
    BY <1>2, GoesForm DEF Places
  <2>2. /\ r.fence <= memJob.fence /\ r.item \in Items /\ <<r.item, r.itemFence>> \in worked'
        /\ worked \subseteq worked' /\ r.at # "complete"
    BY <1>1, <1>2, <2>1
  <2> QED BY <1>1, <2>1, <2>2, MemoryWalkKeeps
<1>3. CASE Goes(w, "raise") /\ UNCHANGED worked
  BY <1>1, <1>3, GoesKeeps
<1> QED BY <1>2, <1>3 DEF WorkItem

(* The report is accepted for the newest claim of the item alone, and that  *)
(* is the claim the work was done under.                                   *)
LEMMA ReportKeeps ==
    ASSUME MemoryJobInv, NEW w \in MemoryWorkers, ReportItem(w)
    PROVE  MemoryJobInv'
<1> DEFINE i == runner[w].item
<1>1. /\ runner[w].at = "report" /\ i \in Items /\ UNCHANGED <<memJob, worked>>
      /\ <<i, runner[w].itemFence>> \in worked
  BY RunnerForm DEF ReportItem, MemoryJobInv, ReportsWorked
<1>2. CASE ~HoldsItem(w)
  BY <1>1, <1>2, GoesKeeps DEF ReportItem
<1>3. CASE HoldsItem(w)
  <2>1. /\ item' = [item EXCEPT ![i].status = "COMPLETED", ![i].lapsed = TRUE]
        /\ Goes(w, "renew")
    BY <1>3 DEF ReportItem
  <2>2. item[i] \in Rows /\ item[i].fence = runner[w].itemFence /\ item[i].status = "RUNNING"
    BY <1>1, <1>3, RunnerForm DEF HoldsItem, Owns
  <2>3. /\ item' \in [Items -> Rows] /\ item'[i].status = "COMPLETED" /\ item'[i].fence = item[i].fence
        /\ \A j \in Items : j # i => item'[j] = item[j]
    BY <1>1, <2>1, <2>2, RunnerForm DEF Rows
  <2>4. PICK r \in RunnerRows : /\ runner' = [runner EXCEPT ![w] = r] /\ r.at = "renew"
                                /\ r.fence = runner[w].fence
    BY <2>1, GoesForm DEF Places
  <2>5. \A v \in MemoryWorkers : runner'[v] = IF v = w THEN r ELSE runner[v]
    BY <2>4 DEF MemoryJobInv, MemoryRecords
  <2>6. MemoryRecords'
    <3>1. runner' \in [MemoryWorkers -> RunnerRows]
      BY <2>4 DEF MemoryJobInv, MemoryRecords
    <3> QED BY <1>1, <2>3, <2>4, <2>5, <3>1, RunnerForm DEF MemoryRecords
  <2>7. item[i].fence > 0
    BY <1>1, <2>2 DEF MemoryJobInv, FencedRows
  <2>8. FencedRows' /\ CancelledTogether'
    BY <1>1, <2>3, <2>7 DEF MemoryJobInv, FencedRows, CancelledTogether
  <2>9. ReportsWorked'
    BY <1>1, <2>2, <2>3, <2>4, <2>5 DEF MemoryJobInv, ReportsWorked
  <2>10. CountsStand'
    <3>1. AllCompleted => AllCompleted'
      BY <2>3 DEF AllCompleted
    <3>2. \A v \in MemoryWorkers : runner'[v].at = "complete" => runner'[v] = runner[v]
      BY <2>4, <2>5
    <3> QED BY <1>1, <3>1, <3>2 DEF MemoryJobInv, CountsStand, HoldsJob, Owns
  <2> QED BY <2>6, <2>8, <2>9, <2>10 DEF MemoryJobInv
<1> QED BY <1>2, <1>3

(* A worker that counts nothing left in a job it still holds sees every    *)
(* item COMPLETED.                                                         *)
LEMMA CountKeeps ==
    ASSUME MemoryJobInv, NEW w \in MemoryWorkers, CountRemaining(w)
    PROVE  MemoryJobInv'
<1>1. UNCHANGED <<memJob, item, worked>>
  BY DEF CountRemaining
<1>2. CASE ~NothingRemains
  BY <1>1, <1>2, StopsKeeps DEF CountRemaining
<1>3. CASE NothingRemains
  <2>1. PICK r \in RunnerRows : /\ runner' = [runner EXCEPT ![w] = r] /\ r.at = "complete"
                                /\ r.fence = runner[w].fence
    BY <1>3, GoesForm DEF CountRemaining, Places
  <2>2. r.fence <= memJob.fence /\ r.at \notin {"work", "report"}
    BY <2>1, RunnerForm
  <2>3. Owns(memJob, w, r.fence) => AllCompleted
    BY <1>3 DEF Owns, NothingRemains, AllCompleted, MemoryJobInv, CancelledTogether
  <2> QED BY <1>1, <2>1, <2>2, <2>3, MemoryWalkKeeps
<1> QED BY <1>2, <1>3

(* The end of the job under its current fence, COMPLETED or FAILED. *)
LEMMA EndKeeps ==
    ASSUME MemoryJobInv, NEW w \in MemoryWorkers, NEW status \in {"COMPLETED", "FAILED"},
           Ends(w, status), Stops(w), UNCHANGED <<item, worked>>,
           status = "COMPLETED" => runner[w].at = "complete"
    PROVE  MemoryJobInv'
<1>1. CASE ~HoldsJob(w)
  BY <1>1, StopsKeeps DEF Ends
<1>2. CASE HoldsJob(w)
  <2>1. memJob' = [memJob EXCEPT !.status = status, !.lapsed = TRUE]
    BY <1>2 DEF Ends
  <2>2. memJob' \in Rows /\ memJob'.status = status /\ memJob'.fence = memJob.fence
    BY <2>1, RunnerForm DEF Rows
  <2>3. memJob.status = "RUNNING" /\ (status = "COMPLETED" => AllCompleted)
    BY <1>2 DEF HoldsJob, Owns, MemoryJobInv, CountsStand
  <2>4. \A v \in MemoryWorkers : runner'[v] = IF v = w THEN Away ELSE runner[v]
    BY DEF Stops, MemoryJobInv, MemoryRecords
  <2>5. MemoryRecords'
    <3>1. runner' \in [MemoryWorkers -> RunnerRows]
      BY AwayForm DEF Stops, MemoryJobInv, MemoryRecords
    <3> QED BY <2>2, <2>4, <3>1, AwayForm, RunnerForm DEF MemoryRecords
  <2>6. FencedRows' /\ CancelledTogether'
    BY <2>2, <2>3 DEF MemoryJobInv, FencedRows, CancelledTogether
  <2>7. ReportsWorked'
    BY <2>4, AwayForm DEF MemoryJobInv, ReportsWorked
  <2>8. CountsStand'
    BY <2>2, <2>3 DEF CountsStand, HoldsJob, Owns, AllCompleted
  <2> QED BY <2>5, <2>6, <2>7, <2>8 DEF MemoryJobInv
<1> QED BY <1>1, <1>2

LEMMA RowForm ==
    ASSUME NEW r \in Rows
    PROVE  /\ r.fence \in 0..MaxClaim
           /\ [r EXCEPT !.status = "CANCELLED"] \in Rows
           /\ [r EXCEPT !.status = "CANCELLED"].status = "CANCELLED"
           /\ [r EXCEPT !.status = "CANCELLED"].fence = r.fence
           /\ [r EXCEPT !.lapsed = TRUE] \in Rows
           /\ [r EXCEPT !.lapsed = TRUE].status = r.status
           /\ [r EXCEPT !.lapsed = TRUE].fence = r.fence
           /\ [r EXCEPT !.lapsed = TRUE].owner = r.owner
           /\ Queued(r) \in Rows /\ Queued(r).status = "QUEUED" /\ Queued(r).fence = r.fence
<1>1. /\ r.fence \in 0..MaxClaim /\ r.owner \in MemoryWorkers \cup {NoOne}
      /\ r.status \in {"QUEUED", "RUNNING", "COMPLETED", "FAILED", "CANCELLED"}
      /\ r = [status |-> r.status, owner |-> r.owner, fence |-> r.fence, lapsed |-> r.lapsed]
  BY DEF Rows
<1>2. /\ [r EXCEPT !.status = "CANCELLED"] \in Rows
      /\ [r EXCEPT !.status = "CANCELLED"].status = "CANCELLED"
      /\ [r EXCEPT !.status = "CANCELLED"].fence = r.fence
  BY DEF Rows
<1>3. /\ [r EXCEPT !.lapsed = TRUE] \in Rows
      /\ [r EXCEPT !.lapsed = TRUE].status = r.status
      /\ [r EXCEPT !.lapsed = TRUE].fence = r.fence
      /\ [r EXCEPT !.lapsed = TRUE].owner = r.owner
  BY DEF Rows
<1>4. Queued(r) \in Rows /\ Queued(r).status = "QUEUED" /\ Queued(r).fence = r.fence
  BY DEF Queued, Rows
<1> QED BY <1>1, <1>2, <1>3, <1>4

LEMMA CancelKeeps ==
    ASSUME MemoryJobInv, CancelJob
    PROVE  MemoryJobInv'
<1>1. /\ memJob.status \in {"QUEUED", "RUNNING"} /\ memJob' = [memJob EXCEPT !.status = "CANCELLED"]
      /\ item' = [i \in Items |-> IF item[i].status \in {"QUEUED", "RUNNING"}
                                  THEN [item[i] EXCEPT !.status = "CANCELLED"] ELSE item[i]]
      /\ UNCHANGED <<runner, worked>>
  BY DEF CancelJob, Becomes
<1>2. memJob' \in Rows /\ memJob'.status = "CANCELLED" /\ memJob'.fence = memJob.fence
  BY <1>1, RowsForm, RowForm
<1>3. \A i \in Items : /\ item'[i] \in Rows /\ item'[i].fence = item[i].fence
                       /\ item'[i].status \in {"RUNNING", "COMPLETED"} => item'[i] = item[i]
  BY <1>1, RowsForm, RowForm
<1>4. item' \in [Items -> Rows]
  <2>1. item' = [i \in Items |-> item'[i]]
    BY <1>1
  <2> QED BY <1>3, <2>1
<1>5. MemoryRecords'
  BY <1>1, <1>2, <1>4 DEF MemoryJobInv, MemoryRecords
<1>6. FencedRows' /\ CancelledTogether'
  <2>1. FencedRows BY DEF MemoryJobInv
  <2>2. \A i \in Items : item'[i].status \in {"RUNNING", "COMPLETED"} => item'[i].fence > 0
    BY <1>3, <2>1 DEF FencedRows
  <2> QED BY <1>2, <2>2 DEF FencedRows, CancelledTogether
<1>7. ReportsWorked' /\ CountsStand'
  BY <1>1, <1>2, <1>3 DEF MemoryJobInv, ReportsWorked, CountsStand, HoldsJob, Owns
<1> QED BY <1>5, <1>6, <1>7 DEF MemoryJobInv

LEMMA RetryKeeps ==
    ASSUME MemoryJobInv, RetryJob
    PROVE  MemoryJobInv'
<1>1. /\ memJob.status \in {"FAILED", "CANCELLED"} /\ memJob' = Queued(memJob)
      /\ item' = [i \in Items |-> IF item[i].status \in {"FAILED", "CANCELLED"}
                                  THEN Queued(item[i]) ELSE item[i]]
      /\ UNCHANGED <<runner, worked>>
  BY DEF RetryJob, Becomes
<1>2. \A r \in Rows : Queued(r) \in Rows /\ Queued(r).status = "QUEUED" /\ Queued(r).fence = r.fence
  BY RowForm
<1>3. memJob' \in Rows /\ memJob'.status = "QUEUED" /\ memJob'.fence = memJob.fence
  BY <1>1, <1>2, RowsForm
<1>4. \A i \in Items : /\ item'[i] \in Rows /\ item'[i].fence = item[i].fence
                       /\ item'[i].status # "CANCELLED"
                       /\ item'[i].status \in {"RUNNING", "COMPLETED"} => item'[i] = item[i]
  BY <1>1, <1>2, RowsForm
<1>5. item' \in [Items -> Rows]
  <2>1. item' = [i \in Items |-> item'[i]]
    BY <1>1
  <2> QED BY <1>4, <2>1
<1>6. MemoryRecords'
  BY <1>1, <1>3, <1>5 DEF MemoryJobInv, MemoryRecords
<1>7. FencedRows' /\ CancelledTogether'
  <2>1. FencedRows BY DEF MemoryJobInv
  <2>2. \A i \in Items : item'[i].status \in {"RUNNING", "COMPLETED"} => item'[i].fence > 0
    BY <1>4, <2>1 DEF FencedRows
  <2> QED BY <1>3, <1>4, <2>2 DEF FencedRows, CancelledTogether
<1>8. ReportsWorked' /\ CountsStand'
  <2>1. ReportsWorked'
    BY <1>1, <1>4 DEF MemoryJobInv, ReportsWorked
  <2>2. CountsStand'
    BY <1>1, <1>3 DEF CountsStand, HoldsJob, Owns
  <2> QED BY <2>1, <2>2
<1> QED BY <1>6, <1>7, <1>8 DEF MemoryJobInv

LEMMA LapseKeeps ==
    ASSUME MemoryJobInv, Lapse
    PROVE  MemoryJobInv'
<1>1. UNCHANGED <<runner, worked>>
  BY DEF Lapse
<1>2. /\ memJob' \in Rows /\ memJob'.status = memJob.status /\ memJob'.fence = memJob.fence
      /\ memJob'.owner = memJob.owner
  BY RowsForm, RowForm DEF Lapse
<1>3. /\ item' \in [Items -> Rows]
      /\ \A i \in Items : item'[i].status = item[i].status /\ item'[i].fence = item[i].fence
  <2>1. CASE UNCHANGED item BY <2>1, RowsForm
  <2>2. ASSUME NEW i \in Items, item' = [item EXCEPT ![i].lapsed = TRUE]
        PROVE  /\ item' \in [Items -> Rows]
               /\ \A j \in Items : item'[j].status = item[j].status /\ item'[j].fence = item[j].fence
    BY <2>2, RowsForm, RowForm, SMTT(20), ZenonT(40)
  <2> QED BY <2>1, <2>2 DEF Lapse
<1>4. MemoryRecords'
  BY <1>1, <1>2, <1>3 DEF MemoryJobInv, MemoryRecords
<1>5. FencedRows' /\ CancelledTogether' /\ ReportsWorked' /\ CountsStand'
  BY <1>1, <1>2, <1>3 DEF MemoryJobInv, FencedRows, CancelledTogether, ReportsWorked, CountsStand,
                          HoldsJob, Owns, AllCompleted
<1> QED BY <1>4, <1>5 DEF MemoryJobInv

LEMMA StutterKeeps ==
    ASSUME MemoryJobInv, UNCHANGED memoryJobVars
    PROVE  MemoryJobInv'
BY DEF memoryJobVars, MemoryJobInv, MemoryRecords, FencedRows, CancelledTogether, ReportsWorked, CountsStand,
       HoldsJob, Owns, AllCompleted

LEMMA MemoryJobStepKeeps ==
    ASSUME MemoryJobInv, [MemoryJobsNext]_memoryJobVars
    PROVE  MemoryJobInv'
<1>1. ASSUME NEW w \in MemoryWorkers, NoItem(w) \/ RenewJob(w) PROVE MemoryJobInv'
  BY <1>1, GoesKeeps DEF NoItem, RenewJob
<1>2. ASSUME NEW w \in MemoryWorkers, MemoryWorkerDies(w) PROVE MemoryJobInv'
  BY <1>2, StopsKeeps DEF MemoryWorkerDies
<1>3. ASSUME NEW w \in MemoryWorkers, CompleteMemoryJob(w) \/ FailJob(w) PROVE MemoryJobInv'
  BY <1>3, EndKeeps DEF CompleteMemoryJob, FailJob
<1> QED
  BY <1>1, <1>2, <1>3, ClaimJobKeeps, ClaimItemKeeps, WorkKeeps, ReportKeeps, CountKeeps, CancelKeeps,
     RetryKeeps, LapseKeeps, StutterKeeps DEF MemoryJobsNext

LEMMA MemoryJobKeeps == MemoryJobsSpec => []MemoryJobInv
<1>1. MemoryJobInv /\ [MemoryJobsNext]_memoryJobVars => MemoryJobInv' BY MemoryJobStepKeeps
<1> QED BY MemoryJobBegins, <1>1, PTL DEF MemoryJobsSpec

LEMMA WorkedKeep ==
    ASSUME MemoryJobInv, worked \subseteq Items \X (0..MaxClaim), [MemoryJobsNext]_memoryJobVars
    PROVE  worked' \subseteq Items \X (0..MaxClaim)
<1>1. ASSUME NEW w \in MemoryWorkers, WorkItem(w) PROVE worked' \subseteq Items \X (0..MaxClaim)
  <2>1. <<runner[w].item, runner[w].itemFence>> \in Items \X (0..MaxClaim)
    BY <1>1, RunnerForm DEF WorkItem, RunnerRows
  <2> QED BY <1>1, <2>1 DEF WorkItem
<1>2. CASE UNCHANGED worked
  BY <1>2
<1> QED
  BY <1>1, <1>2 DEF MemoryJobsNext, memoryJobVars, ClaimMemoryJob, ClaimItem, NoItem, ReportItem, RenewJob,
     CountRemaining, CompleteMemoryJob, FailJob, MemoryWorkerDies, CancelJob, RetryJob, Lapse

(* Every row of a job, of its items and of its workers holds what its        *)
(* columns admit (memory_lifecycle.py:1037-1290).                            *)
THEOREM MemoryJobTypes == MemoryJobsSpec => []MemoryJobsTypeOK
<1> DEFINE WorkedTyped == worked \subseteq Items \X (0..MaxClaim)
<1>1. MemoryJobsInit => WorkedTyped
  BY DEF MemoryJobsInit
<1>2. MemoryJobInv /\ WorkedTyped /\ [MemoryJobsNext]_memoryJobVars => WorkedTyped'
  BY WorkedKeep
<1>3. MemoryJobInv /\ WorkedTyped => MemoryJobsTypeOK
  <2>1. RunnerRows = [at : {"away", "items", "work", "report", "renew", "finish", "complete", "raise"},
                      fence : 0..MaxClaim, item : Items \cup {Away.item}, itemFence : 0..MaxClaim]
    BY DEF RunnerRows, Places
  <2> QED BY <2>1 DEF MemoryJobInv, MemoryRecords, MemoryJobsTypeOK
<1> HIDE DEF WorkedTyped
<1>4. MemoryJobsSpec => []WorkedTyped
  BY <1>1, <1>2, MemoryJobKeeps, PTL DEF MemoryJobsSpec
<1> QED BY <1>3, <1>4, MemoryJobKeeps, PTL

(* A COMPLETED job has every item completed under its newest claim and     *)
(* after its work (memory_lifecycle.py:1152-1290).                         *)
THEOREM CompletedJobsAreDone == MemoryJobsSpec => []CompletedJobIsDone
<1>1. MemoryJobInv => CompletedJobIsDone
  BY DEF MemoryJobInv, CountsStand, AllCompleted, ReportsWorked, CompletedJobIsDone
<1> QED BY MemoryJobKeeps, <1>1, PTL
-----------------------------------------------------------------------------
(* The refinement.  A step that keeps the fence and the outcome of a row   *)
(* stutters; a claim and a completion are the two steps of leased work.    *)

LEMMA ItemsStutter ==
    ASSUME \A i \in Items : item'[i].fence = item[i].fence /\ Outcome(item'[i]) = Outcome(item[i])
    PROVE  UNCHANGED ItemWork!workVars
BY DEF ItemWork!workVars

LEMMA ItemClaimed ==
    ASSUME MemoryJobInv, NEW w \in MemoryWorkers, ClaimItem(w)
    PROVE  ItemWork!WorkNext
<1>1. PICK i \in Items : /\ Open(item[i]) /\ item[i].fence < MaxClaim
                         /\ item' = [item EXCEPT ![i] = Claimed(@, w)]
  BY DEF ClaimItem
<1>2. /\ Outcome(item[i]) = 0 /\ Outcome(Claimed(item[i], w)) = 0
      /\ Claimed(item[i], w).fence = item[i].fence + 1
  BY <1>1 DEF Open, Outcome, Claimed
<1>3. \A k \in Items : item'[k] = IF k = i THEN Claimed(item[i], w) ELSE item[k]
  BY <1>1 DEF MemoryJobInv, MemoryRecords
<1>4. [k \in Items |-> item'[k].fence]
        = [[k \in Items |-> item[k].fence] EXCEPT ![i] = @ + 1]
  BY <1>2, <1>3
<1>5. [k \in Items |-> Outcome(item'[k])] = [k \in Items |-> Outcome(item[k])]
  <2>1. \A k \in Items : Outcome(item'[k]) = Outcome(item[k])
    BY <1>2, <1>3
  <2> QED BY <2>1
<1>6. ItemWork!ClaimWork(i)
  BY <1>1, <1>2, <1>4, <1>5 DEF ItemWork!ClaimWork
<1> QED BY <1>6 DEF ItemWork!WorkNext

LEMMA ItemReported ==
    ASSUME MemoryJobInv, NEW w \in MemoryWorkers, ReportItem(w)
    PROVE  ItemWork!WorkNext \/ UNCHANGED ItemWork!workVars
<1>1. CASE ~HoldsItem(w)
  <2>1. UNCHANGED item
    BY <1>1 DEF ReportItem
  <2> QED BY <2>1, ItemsStutter
<1>2. CASE HoldsItem(w)
  <2>1. PICK i \in Items : i = runner[w].item
    BY DEF ReportItem, MemoryJobInv, MemoryRecords
  <2>2. /\ item[i].status = "RUNNING" /\ item[i] \in Rows
        /\ item' = [item EXCEPT ![i].status = "COMPLETED", ![i].lapsed = TRUE]
    BY <1>2, <2>1 DEF ReportItem, HoldsItem, Owns, MemoryJobInv, MemoryRecords
  <2>3. \A k \in Items : /\ item'[k].fence = item[k].fence
                         /\ item'[k].status = IF k = i THEN "COMPLETED" ELSE item[k].status
    BY <2>2 DEF MemoryJobInv, MemoryRecords, Rows
  <2>4. item[i].fence > 0
    BY <2>2 DEF MemoryJobInv, FencedRows
  <2>5. /\ Outcome(item[i]) = 0 /\ Outcome(item'[i]) = item[i].fence
        /\ \A k \in Items \ {i} : Outcome(item'[k]) = Outcome(item[k])
    BY <2>2, <2>3 DEF Outcome
  <2>6. [k \in Items |-> item'[k].fence] = [k \in Items |-> item[k].fence]
    BY <2>3
  <2>7. [k \in Items |-> Outcome(item'[k])]
          = [[k \in Items |-> Outcome(item[k])] EXCEPT ![i] = item[i].fence]
    BY <2>5
  <2>8. ItemWork!FinishWork(i)
    BY <2>4, <2>5, <2>6, <2>7 DEF ItemWork!FinishWork
  <2> QED BY <2>8 DEF ItemWork!WorkNext
<1> QED BY <1>1, <1>2

LEMMA ItemsRefine ==
    ASSUME MemoryJobInv, [MemoryJobsNext]_memoryJobVars
    PROVE  [ItemWork!WorkNext]_(ItemWork!workVars)
<1>1. CASE UNCHANGED item
  BY <1>1, ItemsStutter
<1>2. CASE CancelJob
  <2>1. \A i \in Items : item[i] \in Rows /\
          item'[i] = IF item[i].status \in {"QUEUED", "RUNNING"}
                     THEN [item[i] EXCEPT !.status = "CANCELLED"] ELSE item[i]
    BY <1>2, RowsForm DEF CancelJob, Becomes
  <2>2. \A i \in Items : item'[i].fence = item[i].fence /\ Outcome(item'[i]) = Outcome(item[i])
    BY <2>1, RowForm, SMTT(20), ZenonT(40) DEF Outcome
  <2> QED BY <2>2, ItemsStutter
<1>3. CASE RetryJob
  <2>1. \A i \in Items : item[i] \in Rows /\
          item'[i] = IF item[i].status \in {"FAILED", "CANCELLED"} THEN Queued(item[i]) ELSE item[i]
    BY <1>3, RowsForm DEF RetryJob, Becomes
  <2>2. \A i \in Items : item'[i].fence = item[i].fence /\ Outcome(item'[i]) = Outcome(item[i])
    BY <2>1, RowForm DEF Outcome
  <2> QED BY <2>2, ItemsStutter
<1>4. CASE Lapse
  <2>1. ASSUME NEW i \in Items, item' = [item EXCEPT ![i].lapsed = TRUE]
        PROVE  \A j \in Items : item'[j].fence = item[j].fence /\ Outcome(item'[j]) = Outcome(item[j])
    BY <2>1, RowsForm, RowForm DEF Outcome
  <2> QED BY <1>1, <1>4, <2>1, ItemsStutter DEF Lapse
<1>5. ASSUME NEW w \in MemoryWorkers, ClaimItem(w) PROVE ItemWork!WorkNext
  BY <1>5, ItemClaimed
<1>6. ASSUME NEW w \in MemoryWorkers, ReportItem(w)
      PROVE  ItemWork!WorkNext \/ UNCHANGED ItemWork!workVars
  BY <1>6, ItemReported
<1> QED
  BY <1>1, <1>2, <1>3, <1>4, <1>5, <1>6
  DEF MemoryJobsNext, memoryJobVars, ClaimMemoryJob, NoItem, WorkItem, RenewJob, CountRemaining,
      CompleteMemoryJob, FailJob, MemoryWorkerDies

LEMMA JobStutters ==
    ASSUME memJob'.fence = memJob.fence, Outcome(memJob') = Outcome(memJob)
    PROVE  UNCHANGED WholeJob!workVars
BY DEF WholeJob!workVars

LEMMA JobClaimed ==
    ASSUME MemoryJobInv, NEW w \in MemoryWorkers, ClaimMemoryJob(w)
    PROVE  WholeJob!WorkNext
<1>1. /\ Outcome(memJob) = 0 /\ Outcome(memJob') = 0 /\ memJob.fence < MaxClaim
      /\ memJob'.fence = memJob.fence + 1
  BY DEF ClaimMemoryJob, Open, Outcome, Claimed
<1>2. WholeJob!ClaimWork("job")
  BY <1>1 DEF WholeJob!ClaimWork
<1> QED BY <1>2 DEF WholeJob!WorkNext

LEMMA JobEnded ==
    ASSUME MemoryJobInv, NEW w \in MemoryWorkers, NEW status \in {"COMPLETED", "FAILED"},
           Ends(w, status)
    PROVE  WholeJob!WorkNext \/ UNCHANGED WholeJob!workVars
<1>1. CASE ~HoldsJob(w)
  BY <1>1, JobStutters DEF Ends
<1>2. CASE HoldsJob(w)
  <2>1. /\ memJob \in Rows /\ memJob.status = "RUNNING" /\ memJob.fence > 0
        /\ memJob' = [memJob EXCEPT !.status = status, !.lapsed = TRUE]
    BY <1>2 DEF Ends, HoldsJob, Owns, MemoryJobInv, MemoryRecords, FencedRows
  <2>2. memJob'.fence = memJob.fence /\ memJob'.status = status /\ Outcome(memJob) = 0
    BY <2>1 DEF Rows, Outcome
  <2>3. CASE status = "FAILED"
    BY <2>2, <2>3, JobStutters DEF Outcome
  <2>4. CASE status = "COMPLETED"
    <3>1. WholeJob!FinishWork("job")
      BY <2>1, <2>2, <2>4 DEF WholeJob!FinishWork, Outcome
    <3> QED BY <3>1 DEF WholeJob!WorkNext
  <2> QED BY <2>3, <2>4
<1> QED BY <1>1, <1>2

LEMMA JobRefines ==
    ASSUME MemoryJobInv, [MemoryJobsNext]_memoryJobVars
    PROVE  [WholeJob!WorkNext]_(WholeJob!workVars)
<1>1. CASE UNCHANGED memJob
  BY <1>1, JobStutters
<1>2. CASE CancelJob \/ RetryJob \/ Lapse
  BY <1>1, <1>2, RowsForm, RowForm, JobStutters DEF CancelJob, RetryJob, Lapse, Outcome
<1>3. ASSUME NEW w \in MemoryWorkers, ClaimMemoryJob(w) PROVE WholeJob!WorkNext
  BY <1>3, JobClaimed
<1>4. ASSUME NEW w \in MemoryWorkers, CompleteMemoryJob(w) \/ FailJob(w)
      PROVE  WholeJob!WorkNext \/ UNCHANGED WholeJob!workVars
  BY <1>4, JobEnded DEF CompleteMemoryJob, FailJob
<1> QED
  BY <1>1, <1>2, <1>3, <1>4
  DEF MemoryJobsNext, memoryJobVars, ClaimItem, NoItem, WorkItem, ReportItem, RenewJob, CountRemaining,
      MemoryWorkerDies

(* The job and its items are claimed under growing fences and completed    *)
(* once, by the newest claim (memory_lifecycle.py:1016-1290).              *)
THEOREM JobAndItemsAreLeasedWork == MemoryJobsSpec => MemoryIsLeasedWork
<1>1. MemoryJobsInit => ItemWork!WorkInit /\ WholeJob!WorkInit
  BY DEF MemoryJobsInit, ItemWork!WorkInit, WholeJob!WorkInit, Outcome
<1>2. MemoryJobInv /\ [MemoryJobsNext]_memoryJobVars
        => [ItemWork!WorkNext]_(ItemWork!workVars) /\ [WholeJob!WorkNext]_(WholeJob!workVars)
  BY ItemsRefine, JobRefines
<1>3. MemoryJobsSpec => ItemWork!WorkSpec /\ WholeJob!WorkSpec
  BY MemoryJobKeeps, <1>1, <1>2, PTL DEF MemoryJobsSpec, ItemWork!WorkSpec, WholeJob!WorkSpec
<1> QED BY <1>3 DEF MemoryIsLeasedWork

HIDE MemoryJobsAssumption

-----------------------------------------------------------------------------
(* The versions of a memory *)

(* The version a candidate is to replace is fixed when it is proposed, and *)
(* the version made of it is a later one.  Of the claims that may activate *)
(* it, at most one is ever past the check that none has been made.         *)

VersionRow == [body : Bodies, state : LifecycleStates, made : Candidates \cup {"editor"}]
ProposalStatus == {"NONE", "PENDING", "APPROVED", "REJECTED", "ACTIVATING", "ACTIVATED"}

(* What is known of a candidate: the version it proposes to replace is fixed  *)
(* when it is created, and the version made of it comes after that one.       *)
MadeOf(c) == {v \in Numbers : versions[v].made = c}
CandidateIsKnown(c) ==
    /\ \A v \in MadeOf(c) : proposal[c].status # "NONE" /\ proposal[c].source < v
    /\ \A v, w \in MadeOf(c) : v = w
    /\ proposal[c].status = "ACTIVATED" \/ activation[c]["made"] > 0 => MadeOf(c) # {}
    /\ Claims(c) > 0 => proposal[c].status # "NONE"
    /\ Claims(c) <= 2

ReviewsAreOfProposals == \A r \in Reviewers : review[r] # NoReview => proposal[review[r].of].status # "NONE"

VersionsInv ==
    /\ MemoryVersionsTypeOK /\ OneVersionInUse
    /\ ReviewsAreOfProposals /\ \A c \in Candidates : CandidateIsKnown(c)

LEMMA VersionParts ==
    ASSUME MemoryVersionsTypeOK
    PROVE  /\ Len(versions) \in Nat /\ current \in Numbers /\ Numbers = 1..Len(versions)
           /\ \A v \in Numbers : versions[v] \in VersionRow
           /\ \A c \in Candidates : /\ proposal[c].status \in ProposalStatus /\ proposal[c].source \in Numbers
                                    /\ proposal[c].body \in Bodies
                                    /\ \A s \in ActivationSteps : activation[c][s] \in 0..2
           /\ \A k \in 1..Len(pins) : pins[k].version \in Numbers /\ pins[k].state \in {"ACTIVE", "REFRESHED"}
<1>1. Len(versions) \in Nat /\ \A v \in Numbers : versions[v] \in VersionRow
  <2>1. versions \in Seq(VersionRow)
    BY DEF MemoryVersionsTypeOK, VersionRow
  <2> QED
    BY <2>1 DEF Numbers
<1>2. \A c \in Candidates :
        proposal[c].status \in ProposalStatus /\ proposal[c].source \in Numbers /\ proposal[c].body \in Bodies
  BY DEF MemoryVersionsTypeOK, ProposalStatus
<1>3. \A c \in Candidates : \A s \in ActivationSteps : activation[c][s] \in 0..2
  <2>1. activation \in [Candidates -> [ActivationSteps -> 0..2]]
    BY DEF MemoryVersionsTypeOK
  <2> QED
    BY <2>1
<1>4. \A k \in 1..Len(pins) : pins[k] \in [version : Numbers, state : {"ACTIVE", "REFRESHED"}]
  <2> DEFINE PinRow == [version : Numbers, state : {"ACTIVE", "REFRESHED"}]
  <2>1. pins \in Seq(PinRow)
    BY DEF MemoryVersionsTypeOK
  <2> HIDE DEF PinRow
  <2>2. \A k \in 1..Len(pins) : pins[k] \in PinRow
    BY <2>1
  <2> QED
    BY <2>2 DEF PinRow
<1>5. current \in Numbers /\ Numbers = 1..Len(versions)
  BY DEF MemoryVersionsTypeOK, Numbers
<1> QED
  BY <1>1, <1>2, <1>3, <1>4, <1>5

(* The rows of the family after a successor is made of its newest version. *)
LEMMA SuccessorIsAppended ==
    ASSUME MemoryVersionsTypeOK, OneVersionInUse, NEW expected, NEW body \in Bodies,
           NEW state \in LifecycleStates, NEW by \in Candidates \cup {"editor"},
           Succeed(expected, body, state, by)
    PROVE  /\ expected = current /\ current = Len(versions) /\ current' = Len(versions) + 1
           /\ Len(versions)' = Len(versions) + 1
           /\ versions' \in Seq(VersionRow)
           /\ \A v \in Numbers : /\ v \in Numbers' /\ versions'[v].made = versions[v].made
                                 /\ versions'[v].state = IF v = current /\ versions[v].state = "ACTIVE"
                                                         THEN "SUPERSEDED" ELSE versions[v].state
           /\ versions'[Len(versions) + 1] = [body |-> body, state |-> state, made |-> by]
           /\ Numbers' = Numbers \cup {Len(versions) + 1}
<1> DEFINE row == [body |-> body, state |-> state, made |-> by]
           older == [v \in Numbers |-> IF v = expected /\ versions[v].state = "ACTIVE"
                                       THEN [versions[v] EXCEPT !.state = "SUPERSEDED"] ELSE versions[v]]
<1>1. /\ expected = current /\ current = Len(versions) /\ current' = Len(versions) + 1
      /\ versions' = Append(older, row) /\ Len(versions) \in Nat
  BY VersionParts DEF Succeed, StillCurrent, OneVersionInUse
<1>2. \A v \in Numbers : versions[v] \in VersionRow
  BY VersionParts
<1>3. \A v \in Numbers :
        [versions[v] EXCEPT !.state = "SUPERSEDED"]
          = [body |-> versions[v].body, state |-> "SUPERSEDED", made |-> versions[v].made]
  BY <1>2 DEF VersionRow
<1>4. \A v \in Numbers : /\ older[v] \in VersionRow /\ older[v].made = versions[v].made
                         /\ older[v].state = IF v = current /\ versions[v].state = "ACTIVE"
                                             THEN "SUPERSEDED" ELSE versions[v].state
  <2> SUFFICES ASSUME NEW v \in Numbers
               PROVE  /\ older[v] \in VersionRow /\ older[v].made = versions[v].made
                      /\ older[v].state = IF v = current /\ versions[v].state = "ACTIVE"
                                          THEN "SUPERSEDED" ELSE versions[v].state
    OBVIOUS
  <2>1. versions[v] \in VersionRow /\ "SUPERSEDED" \in LifecycleStates
    BY <1>2 DEF LifecycleStates
  <2>2. CASE v = expected /\ versions[v].state = "ACTIVE"
    <3>1. older[v] = [body |-> versions[v].body, state |-> "SUPERSEDED", made |-> versions[v].made]
      BY <1>3, <2>2
    <3> HIDE DEF older
    <3> QED
      BY <1>1, <2>1, <2>2, <3>1 DEF VersionRow
  <2>3. CASE ~(v = expected /\ versions[v].state = "ACTIVE")
    <3>1. older[v] = versions[v]
      BY <2>3
    <3> HIDE DEF older
    <3> QED
      BY <1>1, <2>1, <2>3, <3>1
  <2> QED
    BY <2>2, <2>3
<1>5. older = [v \in 1..Len(versions) |-> older[v]]
  BY DEF Numbers
<1>6. row \in VersionRow
  BY DEF VersionRow
<1> HIDE DEF older, row
<1>7. older \in Seq(VersionRow) /\ Len(older) = Len(versions)
  <2>1. \A v \in 1..Len(versions) : older[v] \in VersionRow
    BY <1>4 DEF Numbers
  <2> QED
    BY <1>1, <1>5, <2>1
<1>8. /\ versions' \in Seq(VersionRow) /\ Len(versions') = Len(versions) + 1
      /\ \A v \in 1..Len(versions) : versions'[v] = older[v]
      /\ versions'[Len(versions) + 1] = row
  BY <1>1, <1>6, <1>7
<1>9. Numbers' = Numbers \cup {Len(versions) + 1}
  BY <1>1, <1>8 DEF Numbers
<1>10. versions'[Len(versions) + 1] = [body |-> body, state |-> state, made |-> by]
  BY <1>8 DEF row
<1>11. \A v \in Numbers : versions'[v] = older[v] /\ v \in Numbers'
  BY <1>8, <1>9 DEF Numbers
<1> QED
  BY <1>1, <1>4, <1>8, <1>9, <1>10, <1>11

(* Making it loses no edit. *)
LEMMA SuccessorKeepsVersions ==
    ASSUME VersionsInv, NEW expected, NEW body \in Bodies, NEW state \in LifecycleStates,
           NEW by \in Candidates \cup {"editor"}, Succeed(expected, body, state, by)
    PROVE  OneVersionInUse'
<1>0. MemoryVersionsTypeOK /\ OneVersionInUse
  BY DEF VersionsInv
<1>1. /\ current = Len(versions) /\ current' = Len(versions)' /\ current' # current
      /\ Len(versions) \in Nat /\ current' = Len(versions) + 1
      /\ Numbers' = Numbers \cup {current'}
      /\ \A v \in Numbers : versions'[v].state = IF v = current /\ versions[v].state = "ACTIVE"
                                                 THEN "SUPERSEDED" ELSE versions[v].state
  <2>1. /\ current = Len(versions) /\ current' = Len(versions) + 1 /\ Len(versions)' = Len(versions) + 1
        /\ Numbers' = Numbers \cup {Len(versions) + 1}
        /\ \A v \in Numbers : versions'[v].state = IF v = current /\ versions[v].state = "ACTIVE"
                                                   THEN "SUPERSEDED" ELSE versions[v].state
    BY <1>0, SuccessorIsAppended
  <2>2. Len(versions) \in Nat
    BY <1>0, VersionParts
  <2> QED
    BY <2>1, <2>2
<1>2. \A v \in Numbers' : v # current' => versions'[v].state # "ACTIVE"
  BY <1>0, <1>1 DEF OneVersionInUse
<1> QED
  BY <1>1, <1>2 DEF OneVersionInUse

(* What a step leaves of the versions, and how it must treat the candidates  *)
(* for all that is known of them to remain.                                  *)
LEMMA CandidateStays ==
    ASSUME VersionsInv, NEW c \in Candidates, MadeOf(c)' = MadeOf(c),
           activation'[c] = activation[c], proposal'[c] = proposal[c]
    PROVE  CandidateIsKnown(c)'
BY DEF VersionsInv, CandidateIsKnown, Claims

LEMMA SameVersions ==
    ASSUME VersionsInv, UNCHANGED <<versions, current>>
    PROVE  OneVersionInUse' /\ Numbers' = Numbers /\ \A c : MadeOf(c)' = MadeOf(c)
BY DEF VersionsInv, OneVersionInUse, Numbers, MadeOf

(* The versions made of a candidate after one was made by by. *)
LEMMA MadeGrows ==
    ASSUME VersionsInv, NEW expected, NEW body \in Bodies, NEW state \in LifecycleStates,
           NEW by \in Candidates \cup {"editor"}, Succeed(expected, body, state, by), NEW c \in Candidates
    PROVE  MadeOf(c)' = IF c = by THEN MadeOf(c) \cup {Len(versions) + 1} ELSE MadeOf(c)
<1>0. MemoryVersionsTypeOK /\ OneVersionInUse
  BY DEF VersionsInv
<1>1. /\ Numbers' = Numbers \cup {Len(versions) + 1}
      /\ \A v \in Numbers : versions'[v].made = versions[v].made
      /\ versions'[Len(versions) + 1] = [body |-> body, state |-> state, made |-> by]
  BY <1>0, SuccessorIsAppended
<1>2. Len(versions) + 1 \notin Numbers
  BY <1>0, VersionParts
<1>3. MadeOf(c)' = {v \in Numbers' : versions'[v].made = c}
  BY DEF MadeOf
<1> QED
  BY <1>1, <1>2, <1>3 DEF MadeOf

(* The types a successor touches. *)
LEMMA SuccessorKeepsTypes ==
    ASSUME VersionsInv, NEW expected, NEW body \in Bodies, NEW state \in LifecycleStates,
           NEW by \in Candidates \cup {"editor"}, Succeed(expected, body, state, by),
           UNCHANGED <<proposal, review, pins>>,
           \A e \in Editors : editor'[e] \in {editor[e], 0},
           editor' = [e \in Editors |-> editor'[e]],
           activation' \in [Candidates -> [ActivationSteps -> 0..2]]
    PROVE  MemoryVersionsTypeOK'
<1>0. MemoryVersionsTypeOK /\ OneVersionInUse
  BY DEF VersionsInv
<1>1. /\ current' = Len(versions) + 1 /\ Len(versions)' = Len(versions) + 1
      /\ versions' \in Seq(VersionRow) /\ Numbers' = Numbers \cup {Len(versions) + 1}
  BY <1>0, SuccessorIsAppended
<1>2. Len(versions) \in Nat /\ Numbers \subseteq Numbers' /\ current' \in Numbers'
  BY <1>0, <1>1, VersionParts
<1>3. versions' \in Seq([body : Bodies, state : LifecycleStates, made : Candidates \cup {"editor"}])
  BY <1>1 DEF VersionRow
<1>4. editor' \in [Editors -> 0..Len(versions)']
  <2>1. \A e \in Editors : editor[e] \in 0..Len(versions)
    BY <1>0 DEF MemoryVersionsTypeOK
  <2>2. \A e \in Editors : editor'[e] \in 0..Len(versions)'
    BY <1>1, <1>2, <2>1
  <2> QED
    BY <2>2
<1>5. proposal' \in [Candidates -> [status : {"NONE", "PENDING", "APPROVED", "REJECTED", "ACTIVATING", "ACTIVATED"},
                                    source : Numbers', body : Bodies]]
  <2> DEFINE Columns(N) == [status : {"NONE", "PENDING", "APPROVED", "REJECTED", "ACTIVATING", "ACTIVATED"},
                         source : N, body : Bodies]
  <2>1. Columns(Numbers) \subseteq Columns(Numbers')
    BY <1>2
  <2>2. proposal \in [Candidates -> Columns(Numbers)]
    BY <1>0 DEF MemoryVersionsTypeOK
  <2> HIDE DEF Columns
  <2>3. proposal' \in [Candidates -> Columns(Numbers')]
    BY <2>1, <2>2
  <2> QED
    BY <2>3 DEF Columns
<1>6. pins' \in Seq([version : Numbers', state : {"ACTIVE", "REFRESHED"}])
  <2> DEFINE Pins(N) == [version : N, state : {"ACTIVE", "REFRESHED"}]
  <2>1. Pins(Numbers) \subseteq Pins(Numbers')
    BY <1>2
  <2>2. pins \in Seq(Pins(Numbers))
    BY <1>0 DEF MemoryVersionsTypeOK
  <2> HIDE DEF Pins
  <2>3. pins \in Seq(Pins(Numbers'))
    BY <2>1, <2>2
  <2> QED
    BY <2>3 DEF Pins
<1> QED
  BY <1>0, <1>2, <1>3, <1>4, <1>5, <1>6 DEF MemoryVersionsTypeOK

(* Editors read, replace, restrict, give up, archive. *)
LEMMA EditsKeep ==
    ASSUME VersionsInv, NEW e \in Editors, ReadFamily(e) \/ Replace(e) \/ RestrictFamily(e) \/ EditorEnds(e)
    PROVE  VersionsInv'
<1>0. MemoryVersionsTypeOK /\ OneVersionInUse /\ UNCHANGED <<proposal, review, activation, pins>>
  BY DEF VersionsInv, ReadFamily, Replace, RestrictFamily, EditorEnds
<1>1. ReviewsAreOfProposals'
  BY <1>0 DEF VersionsInv, ReviewsAreOfProposals, NoReview
<1>2. CASE ReadFamily(e) \/ EditorEnds(e)
  <2>1. UNCHANGED <<versions, current>> /\ \E x \in {0, current} : editor' = [editor EXCEPT ![e] = x]
    BY <1>2 DEF ReadFamily, EditorEnds
  <2>2. OneVersionInUse' /\ Numbers' = Numbers /\ \A c : MadeOf(c)' = MadeOf(c)
    BY <2>1, SameVersions
  <2>3. editor' \in [Editors -> 0..Len(versions)]
    <3>1. 0 \in 0..Len(versions) /\ current \in 0..Len(versions)
      BY <1>0, VersionParts
    <3>2. editor \in [Editors -> 0..Len(versions)]
      BY <1>0 DEF MemoryVersionsTypeOK
    <3> QED
      BY <2>1, <3>1, <3>2
  <2>4. MemoryVersionsTypeOK'
    BY <1>0, <2>1, <2>2, <2>3 DEF MemoryVersionsTypeOK
  <2>5. \A c \in Candidates : CandidateIsKnown(c)'
    BY <1>0, <2>2, CandidateStays
  <2> QED
    BY <1>1, <2>2, <2>4, <2>5 DEF VersionsInv
<1>3. CASE Replace(e) \/ RestrictFamily(e)
  <2>1. PICK body \in Bodies, state \in LifecycleStates : Succeed(editor[e], body, state, "editor")
    <3>1. CASE Replace(e)
      BY <3>1 DEF Replace, LifecycleStates
    <3>2. CASE RestrictFamily(e)
      <4>1. PICK s \in {"UNAVAILABLE", "QUARANTINED"} :
              Succeed(editor[e], versions[editor[e]].body, s, "editor")
        BY <3>2 DEF RestrictFamily
      <4>2. editor[e] = current
        BY <4>1 DEF Succeed, StillCurrent
      <4>3. versions[editor[e]].body \in Bodies
        BY <1>0, <4>2, VersionParts DEF VersionRow
      <4> QED
        BY <4>1, <4>3 DEF LifecycleStates
    <3> QED
      BY <1>3, <3>1, <3>2
  <2>2. editor' = [editor EXCEPT ![e] = 0]
    BY <1>3 DEF Replace, RestrictFamily
  <2>3. MemoryVersionsTypeOK'
    <3>1. editor' = [f \in Editors |-> editor'[f]] /\ \A f \in Editors : editor'[f] \in {editor[f], 0}
      BY <1>0, <2>2 DEF MemoryVersionsTypeOK
    <3>2. activation' \in [Candidates -> [ActivationSteps -> 0..2]]
      BY <1>0 DEF MemoryVersionsTypeOK
    <3> QED
      BY <1>0, <2>1, <3>1, <3>2, SuccessorKeepsTypes
  <2>4. OneVersionInUse'
    BY <1>0, <2>1, SuccessorKeepsVersions
  <2>5. \A c \in Candidates : MadeOf(c)' = MadeOf(c)
    BY <2>1, MadeGrows, MemoryVersionsAssumption
  <2>6. \A c \in Candidates : CandidateIsKnown(c)'
    BY <1>0, <2>5, CandidateStays
  <2> QED
    BY <1>1, <2>3, <2>4, <2>6 DEF VersionsInv
<1> QED
  BY <1>2, <1>3

LEMMA ArchiveKeeps ==
    ASSUME VersionsInv, NEW v \in Numbers, Archive(v)
    PROVE  VersionsInv'
<1>0. /\ MemoryVersionsTypeOK /\ versions' = [versions EXCEPT ![v].state = "ARCHIVED"]
      /\ UNCHANGED <<current, editor, proposal, review, activation, pins>>
  BY DEF VersionsInv, Archive
<1>1. /\ versions \in Seq(VersionRow) /\ Numbers = 1..Len(versions) /\ Len(versions) \in Nat
      /\ versions[v] \in VersionRow
  BY <1>0, VersionParts DEF MemoryVersionsTypeOK, VersionRow
<1>2. /\ [versions[v] EXCEPT !.state = "ARCHIVED"]
           = [body |-> versions[v].body, state |-> "ARCHIVED", made |-> versions[v].made]
      /\ [body |-> versions[v].body, state |-> "ARCHIVED", made |-> versions[v].made] \in VersionRow
  BY <1>1 DEF VersionRow, LifecycleStates
<1> DEFINE row == [body |-> versions[v].body, state |-> "ARCHIVED", made |-> versions[v].made]
<1>3. versions' = [versions EXCEPT ![v] = row]
  BY <1>0, <1>2
<1>4. row.state = "ARCHIVED" /\ row.made = versions[v].made /\ row \in VersionRow
  BY <1>2
<1> HIDE DEF row
<1>5. /\ versions' \in Seq(VersionRow) /\ Len(versions') = Len(versions)
      /\ \A w \in Numbers : versions'[w] = IF w = v THEN row ELSE versions[w]
  BY <1>1, <1>3, <1>4
<1>6. Numbers' = Numbers
  BY <1>5 DEF Numbers
<1>7. \A w \in Numbers : /\ versions'[w].made = versions[w].made
                         /\ versions'[w].state \in {versions[w].state, "ARCHIVED"}
  BY <1>4, <1>5
<1>8. MemoryVersionsTypeOK'
  <2>1. versions' \in Seq([body : Bodies, state : LifecycleStates, made : Candidates \cup {"editor"}])
    BY <1>5 DEF VersionRow
  <2> QED
    BY <1>0, <1>5, <1>6, <2>1 DEF MemoryVersionsTypeOK
<1>9. OneVersionInUse'
  BY <1>0, <1>5, <1>6, <1>7 DEF VersionsInv, OneVersionInUse
<1>10. \A c : MadeOf(c)' = MadeOf(c)
  BY <1>6, <1>7 DEF MadeOf
<1>11. \A c \in Candidates : CandidateIsKnown(c)'
  BY <1>0, <1>10, CandidateStays
<1> QED
  BY <1>0, <1>8, <1>9, <1>11 DEF VersionsInv, ReviewsAreOfProposals, NoReview

(* A step of the calls on candidates that leaves the versions, editors and    *)
(* snapshots alone.                                                          *)
LEMMA RestKeeps ==
    ASSUME VersionsInv, UNCHANGED <<versions, current, editor, pins>>,
           proposal' \in [Candidates -> [status : ProposalStatus, source : Numbers, body : Bodies]],
           review' \in [Reviewers -> {NoReview} \cup [of : Candidates, decision : {"APPROVED", "REJECTED"}]],
           activation' \in [Candidates -> [ActivationSteps -> 0..2]],
           ReviewsAreOfProposals', \A c \in Candidates : CandidateIsKnown(c)'
    PROVE  VersionsInv'
<1>1. OneVersionInUse' /\ Numbers' = Numbers
  BY SameVersions
<1>2. MemoryVersionsTypeOK'
  BY <1>1 DEF VersionsInv, MemoryVersionsTypeOK, ProposalStatus
<1> QED
  BY <1>1, <1>2 DEF VersionsInv

(* A candidate moves on to another status; none is forgotten, and ACTIVATED   *)
(* is only written by a call that made its version.                          *)
LEMMA StatusMoves ==
    ASSUME MemoryVersionsTypeOK, NEW c \in Candidates, NEW status \in ProposalStatus,
           proposal' = [proposal EXCEPT ![c].status = status]
    PROVE  /\ proposal' \in [Candidates -> [status : ProposalStatus, source : Numbers, body : Bodies]]
           /\ proposal'[c].status = status /\ proposal'[c].source = proposal[c].source
           /\ \A d \in Candidates : d # c => proposal'[d] = proposal[d]
<1>1. /\ proposal \in [Candidates -> [status : ProposalStatus, source : Numbers, body : Bodies]]
      /\ proposal[c].source \in Numbers /\ proposal[c].body \in Bodies
  BY DEF MemoryVersionsTypeOK, ProposalStatus
<1> DEFINE row == [status |-> status, source |-> proposal[c].source, body |-> proposal[c].body]
<1>2. proposal[c] \in [status : ProposalStatus, source : Numbers, body : Bodies]
  BY <1>1
<1>3. [proposal[c] EXCEPT !.status = status] = row
  BY <1>2
<1>4. proposal' = [proposal EXCEPT ![c] = row]
  BY <1>3
<1>5. /\ row \in [status : ProposalStatus, source : Numbers, body : Bodies]
      /\ row.status = status /\ row.source = proposal[c].source
  BY <1>1
<1> HIDE DEF row
<1> QED
  BY <1>1, <1>4, <1>5

(* One activation of a candidate moves from one step to the next, or ends. *)
LEMMA ActivationMoves ==
    ASSUME MemoryVersionsTypeOK, NEW c \in Candidates, Claims(c) <= 2,
           NEW from \in ActivationSteps, activation[c][from] > 0,
           Leaves(c, from) \/ \E to \in ActivationSteps \ {from} : Moves(c, from, to)
    PROVE  /\ activation' \in [Candidates -> [ActivationSteps -> 0..2]]
           /\ \A d \in Candidates : d # c => activation'[d] = activation[d]
           /\ Claims(c)' <= Claims(c) /\ Claims(c) > 0
           /\ \A s \in ActivationSteps :
                activation'[c][s] > activation[c][s] => \E to \in ActivationSteps \ {from} : Moves(c, from, to) /\ s = to
<1>1. activation \in [Candidates -> [ActivationSteps -> 0..2]]
  BY DEF MemoryVersionsTypeOK
<1>2. /\ activation[c]["claimed"] \in 0..2 /\ activation[c]["made"] \in 0..2
      /\ activation[c]["failed"] \in 0..2 /\ ActivationSteps = {"claimed", "made", "failed"}
  BY <1>1 DEF ActivationSteps
<1>3. Claims(c) > 0
  BY <1>2 DEF Claims
<1>4. CASE Leaves(c, from)
  <2>1. activation' = [activation EXCEPT ![c] = [activation[c] EXCEPT ![from] = activation[c][from] - 1]]
    BY <1>4 DEF Leaves
  <2>2. \A s \in ActivationSteps : activation'[c][s] = IF s = from THEN activation[c][s] - 1 ELSE activation[c][s]
    BY <1>1, <2>1
  <2>3. activation' \in [Candidates -> [ActivationSteps -> 0..2]]
    BY <1>1, <2>1, <1>2
  <2>4. Claims(c)' <= Claims(c)
    BY <1>2, <2>2 DEF Claims
  <2>5. \A s \in ActivationSteps : ~(activation'[c][s] > activation[c][s])
    BY <1>2, <2>2
  <2> QED
    BY <1>1, <1>3, <2>1, <2>3, <2>4, <2>5
<1>5. ASSUME NEW to \in ActivationSteps \ {from}, Moves(c, from, to)
      PROVE  /\ activation' \in [Candidates -> [ActivationSteps -> 0..2]]
             /\ \A d \in Candidates : d # c => activation'[d] = activation[d]
             /\ Claims(c)' <= Claims(c)
             /\ \A s \in ActivationSteps : activation'[c][s] > activation[c][s] => s = to
  <2> DEFINE half == [activation[c] EXCEPT ![from] = activation[c][from] - 1]
             moved == [half EXCEPT ![to] = half[to] + 1]
  <2>1. activation' = [activation EXCEPT ![c] = moved]
    <3>1. activation' = [[activation EXCEPT ![c] = half] EXCEPT ![c] = [[activation EXCEPT ![c] = half][c] EXCEPT
                                                                  ![to] = [activation EXCEPT ![c] = half][c][to] + 1]]
      BY <1>5 DEF Moves
    <3>2. [activation EXCEPT ![c] = half][c] = half
      <4> HIDE DEF half
      <4> QED
        BY <1>1
    <3>3. \A x : [[activation EXCEPT ![c] = half] EXCEPT ![c] = x] = [activation EXCEPT ![c] = x]
      <4> HIDE DEF half
      <4> QED
        OBVIOUS
    <3> HIDE DEF half
    <3> QED
      BY <3>1, <3>2, <3>3, Zenon
  <2>2. \A s \in ActivationSteps : moved[s] = IF s = from THEN activation[c][s] - 1
                                              ELSE IF s = to THEN activation[c][s] + 1 ELSE activation[c][s]
    <3>1. activation[c] \in [ActivationSteps -> 0..2]
      BY <1>1
    <3>2. /\ \A s \in ActivationSteps : half[s] = IF s = from THEN activation[c][s] - 1 ELSE activation[c][s]
          /\ half = [s \in ActivationSteps |-> half[s]]
      BY <3>1
    <3> HIDE DEF half
    <3> QED
      BY <1>5, <3>2
  <2>3. moved = [s \in ActivationSteps |-> moved[s]]
    <3>1. DOMAIN activation[c] = ActivationSteps
      BY <1>1
    <3> QED
      BY <3>1
  <2> HIDE DEF moved
  <2>4. activation'[c] = moved /\ \A d \in Candidates : d # c => activation'[d] = activation[d]
    BY <1>1, <2>1
  <2>5. /\ activation'[c]["claimed"] + activation'[c]["made"] + activation'[c]["failed"]
             = activation[c]["claimed"] + activation[c]["made"] + activation[c]["failed"]
        /\ \A s \in ActivationSteps : activation'[c][s] \in Nat
    <3>1. /\ activation'[c]["claimed"] = moved["claimed"] /\ activation'[c]["made"] = moved["made"]
          /\ activation'[c]["failed"] = moved["failed"]
      BY <2>4
    <3>2. /\ from = "claimed" \/ from = "made" \/ from = "failed"
          /\ to = "claimed" \/ to = "made" \/ to = "failed"
          /\ to # from
      BY <1>2, <1>5
    <3>3. /\ moved["claimed"] = IF "claimed" = from THEN activation[c]["claimed"] - 1
                                ELSE IF "claimed" = to THEN activation[c]["claimed"] + 1
                                ELSE activation[c]["claimed"]
          /\ moved["made"] = IF "made" = from THEN activation[c]["made"] - 1
                             ELSE IF "made" = to THEN activation[c]["made"] + 1 ELSE activation[c]["made"]
          /\ moved["failed"] = IF "failed" = from THEN activation[c]["failed"] - 1
                               ELSE IF "failed" = to THEN activation[c]["failed"] + 1 ELSE activation[c]["failed"]
      BY <1>2, <2>2
    <3>4. \A s \in ActivationSteps : activation'[c][s] \in Nat
      BY <1>2, <2>2, <2>4
    <3>8. \A x, y, z \in Nat : (x - 1) + y + (z + 1) = x + y + z
      OBVIOUS
    <3>9. \A x, y, z \in Nat : (x + 1) + y + (z - 1) = x + y + z
      OBVIOUS
    <3>10. activation[c]["claimed"] \in Nat /\ activation[c]["made"] \in Nat /\ activation[c]["failed"] \in Nat
      BY <1>2
    <3>5. CASE from = "claimed"
      <4>1. CASE to = "made"
        BY <1>2, <3>1, <3>3, <3>4, <3>5, <4>1
      <4>2. CASE to = "failed"
        <5>1. /\ activation'[c]["claimed"] = activation[c]["claimed"] - 1
              /\ activation'[c]["made"] = activation[c]["made"]
              /\ activation'[c]["failed"] = activation[c]["failed"] + 1
          BY <3>1, <3>3, <3>5, <4>2
        <5>2. (activation[c]["claimed"] - 1) + activation[c]["made"] + (activation[c]["failed"] + 1)
                = activation[c]["claimed"] + activation[c]["made"] + activation[c]["failed"]
          BY <3>8, <3>10
        <5> QED
          BY <3>4, <5>1, <5>2
      <4> QED
        BY <3>2, <3>5, <4>1, <4>2
    <3>6. CASE from = "made"
      BY <1>2, <3>1, <3>2, <3>3, <3>4, <3>6
    <3>7. CASE from = "failed"
      <4>1. CASE to = "claimed"
        <5>1. /\ activation'[c]["claimed"] = activation[c]["claimed"] + 1
              /\ activation'[c]["made"] = activation[c]["made"]
              /\ activation'[c]["failed"] = activation[c]["failed"] - 1
          BY <3>1, <3>3, <3>7, <4>1
        <5>2. (activation[c]["claimed"] + 1) + activation[c]["made"] + (activation[c]["failed"] - 1)
                = activation[c]["claimed"] + activation[c]["made"] + activation[c]["failed"]
          BY <3>9, <3>10
        <5> QED
          BY <3>4, <5>1, <5>2
      <4>2. CASE to = "made"
        BY <1>2, <3>1, <3>3, <3>4, <3>7, <4>2
      <4> QED
        BY <3>2, <3>7, <4>1, <4>2
    <3> QED
      BY <3>2, <3>5, <3>6, <3>7
  <2>6. Claims(c)' = Claims(c) /\ Claims(c) \in 0..2
    BY <1>2, <2>5 DEF Claims
  <2>7. \A s \in ActivationSteps : activation'[c][s] \in 0..2
    <3>1. /\ Claims(c) = activation[c]["claimed"] + activation[c]["made"] + activation[c]["failed"]
          /\ Claims(c) \in 0..2
      BY <2>6 DEF Claims
    <3>2. /\ activation'[c]["claimed"] \in Nat /\ activation'[c]["made"] \in Nat
          /\ activation'[c]["failed"] \in Nat
      BY <1>2, <2>5
    <3>3. \A x, y, z \in Nat : x + y + z \in 0..2 => x \in 0..2 /\ y \in 0..2 /\ z \in 0..2
      OBVIOUS
    <3>4. activation'[c]["claimed"] + activation'[c]["made"] + activation'[c]["failed"] \in 0..2
      BY <2>5, <3>1
    <3>5. /\ activation'[c]["claimed"] \in 0..2 /\ activation'[c]["made"] \in 0..2
          /\ activation'[c]["failed"] \in 0..2
      BY <3>2, <3>3, <3>4
    <3> QED
      BY <1>2, <3>5
  <2>8. activation' \in [Candidates -> [ActivationSteps -> 0..2]]
    <3>1. moved \in [ActivationSteps -> 0..2]
      BY <2>3, <2>4, <2>7
    <3> QED
      BY <1>1, <2>1, <3>1
  <2>9. \A s \in ActivationSteps : activation'[c][s] > activation[c][s] => s = to
    BY <1>2, <2>2, <2>4
  <2> QED
    BY <2>4, <2>6, <2>8, <2>9
<1> QED
  BY <1>3, <1>4, <1>5

LEMMA ClaimMoves ==
    ASSUME MemoryVersionsTypeOK, NEW c \in Candidates, Claims(c) < 2,
           activation' = [activation EXCEPT ![c]["claimed"] = @ + 1]
    PROVE  /\ activation' \in [Candidates -> [ActivationSteps -> 0..2]]
           /\ \A d \in Candidates : d # c => activation'[d] = activation[d]
           /\ Claims(c)' <= 2 /\ activation'[c]["made"] = activation[c]["made"]
<1>1. activation \in [Candidates -> [ActivationSteps -> 0..2]]
  BY DEF MemoryVersionsTypeOK
<1>2. /\ activation[c]["claimed"] \in 0..2 /\ activation[c]["made"] \in 0..2
      /\ activation[c]["failed"] \in 0..2 /\ ActivationSteps = {"claimed", "made", "failed"}
  BY <1>1 DEF ActivationSteps
<1>3. \A x, y, z \in 0..2 : x + y + z < 2 => x + 1 \in 0..2 /\ (x + 1) + y + z <= 2
  OBVIOUS
<1>4. activation[c]["claimed"] + 1 \in 0..2
      /\ (activation[c]["claimed"] + 1) + activation[c]["made"] + activation[c]["failed"] <= 2
  BY <1>2, <1>3 DEF Claims
<1>5. activation' = [activation EXCEPT ![c] = [activation[c] EXCEPT !["claimed"] = activation[c]["claimed"] + 1]]
  OBVIOUS
<1>6. /\ activation'[c]["claimed"] = activation[c]["claimed"] + 1
      /\ activation'[c]["made"] = activation[c]["made"] /\ activation'[c]["failed"] = activation[c]["failed"]
  BY <1>1, <1>2, <1>5
<1>7. activation' \in [Candidates -> [ActivationSteps -> 0..2]]
  BY <1>1, <1>2, <1>4, <1>5
<1>8. \A d \in Candidates : d # c => activation'[d] = activation[d]
  BY <1>1, <1>5
<1>9. Claims(c)' = (activation[c]["claimed"] + 1) + activation[c]["made"] + activation[c]["failed"]
  BY <1>6 DEF Claims
<1> QED
  BY <1>4, <1>6, <1>7, <1>8, <1>9

(* A step of one candidate that keeps what is known of it. *)
LEMMA CandidateMoves ==
    ASSUME VersionsInv, NEW c \in Candidates, UNCHANGED <<versions, current, editor, pins, review>>,
           NEW status \in ProposalStatus, status # "NONE", status = "ACTIVATED" => MadeOf(c) # {},
           proposal' = [proposal EXCEPT ![c].status = status],
           activation' \in [Candidates -> [ActivationSteps -> 0..2]],
           \A d \in Candidates : d # c => activation'[d] = activation[d],
           Claims(c)' <= 2, activation'[c]["made"] > 0 => MadeOf(c) # {}
    PROVE  VersionsInv'
<1>0. MemoryVersionsTypeOK
  BY DEF VersionsInv
<1>1. /\ proposal' \in [Candidates -> [status : ProposalStatus, source : Numbers, body : Bodies]]
      /\ proposal'[c].status = status /\ proposal'[c].source = proposal[c].source
      /\ \A d \in Candidates : d # c => proposal'[d] = proposal[d]
  BY <1>0, StatusMoves
<1>2. \A d : MadeOf(d)' = MadeOf(d)
  BY SameVersions
<1>3. CandidateIsKnown(c)'
  BY <1>1, <1>2 DEF VersionsInv, CandidateIsKnown
<1>4. \A d \in Candidates : d # c => CandidateIsKnown(d)'
  BY <1>1, <1>2, CandidateStays
<1>5. ReviewsAreOfProposals'
  <2> SUFFICES ASSUME NEW r \in Reviewers, review[r] # NoReview
               PROVE  proposal'[review[r].of].status # "NONE"
    BY DEF ReviewsAreOfProposals, NoReview
  <2>1. review[r].of \in Candidates /\ proposal[review[r].of].status # "NONE"
    BY <1>0 DEF MemoryVersionsTypeOK, VersionsInv, ReviewsAreOfProposals
  <2> QED
    BY <1>1, <2>1
<1>6. review' \in [Reviewers -> {NoReview} \cup [of : Candidates, decision : {"APPROVED", "REJECTED"}]]
  BY <1>0 DEF MemoryVersionsTypeOK
<1> QED
  BY <1>1, <1>3, <1>4, <1>5, <1>6, RestKeeps

(* What is known while a call activates the candidate. *)
LEMMA ActivatingIsKnown ==
    ASSUME VersionsInv, NEW c \in Candidates, NEW from \in ActivationSteps, activation[c][from] > 0
    PROVE  /\ Claims(c) \in 1..2 /\ proposal[c].status \in ProposalStatus \ {"NONE"}
           /\ from = "made" => MadeOf(c) # {}
           /\ activation[c]["made"] > 0 => MadeOf(c) # {}
           /\ proposal[c].status = "ACTIVATED" => MadeOf(c) # {}
<1>1. /\ activation[c]["claimed"] \in 0..2 /\ activation[c]["made"] \in 0..2 /\ activation[c]["failed"] \in 0..2
      /\ proposal[c].status \in ProposalStatus
  BY VersionParts DEF VersionsInv, ActivationSteps
<1>2. Claims(c) > 0 /\ Claims(c) \in Nat
  BY <1>1 DEF ActivationSteps, Claims
<1> QED
  BY <1>1, <1>2 DEF VersionsInv, CandidateIsKnown

LEMMA ProposalsKeep ==
    ASSUME VersionsInv, NEW c \in Candidates,
           CreateCandidate(c) \/ ClaimCandidate(c) \/ \E r \in Reviewers : ReadCandidate(r, c)
    PROVE  VersionsInv'
<1>0. /\ MemoryVersionsTypeOK /\ CandidateIsKnown(c) /\ UNCHANGED <<versions, current, editor, pins>>
      /\ proposal \in [Candidates -> [status : ProposalStatus, source : Numbers, body : Bodies]]
      /\ activation \in [Candidates -> [ActivationSteps -> 0..2]]
      /\ review \in [Reviewers -> {NoReview} \cup [of : Candidates, decision : {"APPROVED", "REJECTED"}]]
  BY DEF VersionsInv, CreateCandidate, ClaimCandidate, ReadCandidate, MemoryVersionsTypeOK, ProposalStatus
<1>1. \A d : MadeOf(d)' = MadeOf(d)
  BY <1>0, SameVersions
<1>2. CASE CreateCandidate(c)
  <2>1. PICK v \in Numbers, b \in Bodies :
          proposal' = [proposal EXCEPT ![c] = [status |-> "PENDING", source |-> v, body |-> b]]
    BY <1>2 DEF CreateCandidate
  <2>2. /\ proposal' \in [Candidates -> [status : ProposalStatus, source : Numbers, body : Bodies]]
        /\ proposal'[c].status = "PENDING" /\ \A d \in Candidates : d # c => proposal'[d] = proposal[d]
    BY <1>0, <2>1 DEF ProposalStatus
  <2>3. proposal[c].status = "NONE" /\ UNCHANGED <<review, activation>>
    BY <1>2 DEF CreateCandidate
  <2>4. MadeOf(c) = {} /\ ~(Claims(c) > 0) /\ ~(activation[c]["made"] > 0)
    BY <1>0, <2>3 DEF CandidateIsKnown
  <2>5. CandidateIsKnown(c)'
    BY <1>0, <1>1, <2>2, <2>3, <2>4 DEF CandidateIsKnown, Claims
  <2>6. \A d \in Candidates : d # c => CandidateIsKnown(d)'
    BY <1>1, <2>2, <2>3, CandidateStays
  <2>7. ReviewsAreOfProposals'
    <3> SUFFICES ASSUME NEW r \in Reviewers, review[r] # NoReview
                 PROVE  proposal'[review[r].of].status # "NONE"
      BY <2>3 DEF ReviewsAreOfProposals, NoReview
    <3>1. review[r].of \in Candidates /\ proposal[review[r].of].status # "NONE"
      BY <1>0 DEF VersionsInv, ReviewsAreOfProposals
    <3> QED
      BY <2>2, <3>1
  <2> QED
    BY <1>0, <2>2, <2>3, <2>5, <2>6, <2>7, RestKeeps
<1>3. CASE ClaimCandidate(c)
  <2>1. /\ proposal[c].status = "APPROVED" /\ Claims(c) < 2 /\ UNCHANGED review
        /\ proposal' = [proposal EXCEPT ![c].status = "ACTIVATING"]
        /\ activation' = [activation EXCEPT ![c]["claimed"] = @ + 1]
    BY <1>3 DEF ClaimCandidate
  <2>2. /\ activation' \in [Candidates -> [ActivationSteps -> 0..2]]
        /\ \A d \in Candidates : d # c => activation'[d] = activation[d]
        /\ Claims(c)' <= 2 /\ activation'[c]["made"] = activation[c]["made"]
    BY <1>0, <2>1, ClaimMoves
  <2>3. "ACTIVATING" \in ProposalStatus
    BY DEF ProposalStatus
  <2>4. activation[c]["made"] > 0 => MadeOf(c) # {}
    BY <1>0 DEF CandidateIsKnown
  <2> QED
    BY <1>0, <2>1, <2>2, <2>3, <2>4, CandidateMoves
<1>4. ASSUME NEW r \in Reviewers, ReadCandidate(r, c)
      PROVE  VersionsInv'
  <2>1. /\ proposal[c].status = "PENDING" /\ UNCHANGED <<proposal, activation>>
        /\ \E d \in {"APPROVED", "REJECTED"} : review' = [review EXCEPT ![r] = [of |-> c, decision |-> d]]
    BY <1>4 DEF ReadCandidate
  <2>2. review' \in [Reviewers -> {NoReview} \cup [of : Candidates, decision : {"APPROVED", "REJECTED"}]]
    BY <1>0, <2>1
  <2>3. ReviewsAreOfProposals'
    <3> SUFFICES ASSUME NEW q \in Reviewers, review'[q] # NoReview
                 PROVE  proposal[review'[q].of].status # "NONE"
      BY <2>1 DEF ReviewsAreOfProposals, NoReview
    <3>1. CASE q = r
      BY <1>0, <2>1, <3>1
    <3>2. CASE q # r
      BY <1>0, <2>1, <3>2 DEF VersionsInv, ReviewsAreOfProposals
    <3> QED
      BY <3>1, <3>2
  <2>4. \A d \in Candidates : CandidateIsKnown(d)'
    BY <1>1, <2>1, CandidateStays
  <2> QED
    BY <1>0, <2>1, <2>2, <2>3, <2>4, RestKeeps
<1> QED
  BY <1>2, <1>3, <1>4

LEMMA ReviewKeeps ==
    ASSUME VersionsInv, NEW r \in Reviewers, Review(r)
    PROVE  VersionsInv'
<1>0. /\ MemoryVersionsTypeOK /\ review[r] # NoReview /\ UNCHANGED <<versions, current, editor, activation, pins>>
      /\ proposal' = [proposal EXCEPT ![review[r].of].status = review[r].decision]
      /\ review' = [review EXCEPT ![r] = NoReview]
  BY DEF VersionsInv, Review
<1>1. /\ review \in [Reviewers -> {NoReview} \cup [of : Candidates, decision : {"APPROVED", "REJECTED"}]]
      /\ activation \in [Candidates -> [ActivationSteps -> 0..2]]
  BY <1>0 DEF MemoryVersionsTypeOK
<1>2. PICK c \in Candidates : c = review[r].of
  BY <1>0, <1>1
<1>3. PICK status \in {"APPROVED", "REJECTED"} : status = review[r].decision
  BY <1>0, <1>1
<1>4. /\ proposal' \in [Candidates -> [status : ProposalStatus, source : Numbers, body : Bodies]]
      /\ proposal'[c].status = status /\ proposal'[c].source = proposal[c].source
      /\ \A d \in Candidates : d # c => proposal'[d] = proposal[d]
  <2>1. status \in ProposalStatus /\ proposal' = [proposal EXCEPT ![c].status = status]
    BY <1>0, <1>2, <1>3 DEF ProposalStatus
  <2> QED
    BY <1>0, <2>1, StatusMoves
<1>5. \A d : MadeOf(d)' = MadeOf(d)
  BY <1>0, SameVersions
<1>10. proposal[c].status # "NONE"
  BY <1>0, <1>2 DEF VersionsInv, ReviewsAreOfProposals
<1>6. CandidateIsKnown(c)'
  BY <1>0, <1>4, <1>5, <1>10 DEF VersionsInv, CandidateIsKnown, Claims
<1>7. \A d \in Candidates : d # c => CandidateIsKnown(d)'
  BY <1>0, <1>4, <1>5, CandidateStays
<1>8. review' \in [Reviewers -> {NoReview} \cup [of : Candidates, decision : {"APPROVED", "REJECTED"}]]
  BY <1>0, <1>1
<1>9. ReviewsAreOfProposals'
  <2> SUFFICES ASSUME NEW q \in Reviewers, review'[q] # NoReview
               PROVE  proposal'[review'[q].of].status # "NONE"
    BY DEF ReviewsAreOfProposals, NoReview
  <2>1. review'[q] = review[q]
    BY <1>0, <1>1
  <2>2. review[q].of \in Candidates /\ proposal[review[q].of].status # "NONE"
    BY <1>1, <2>1 DEF VersionsInv, ReviewsAreOfProposals
  <2> QED
    BY <1>4, <2>1, <2>2
<1> QED
  BY <1>0, <1>1, <1>4, <1>6, <1>7, <1>8, <1>9, RestKeeps

(* The steps of activate_candidate. *)
LEMMA ActivationKeeps ==
    ASSUME VersionsInv, NEW c \in Candidates,
           SuccessorFails(c) \/ RecordActivated(c) \/ RecordFails(c) \/ HandBack(c) \/ ActivationDies(c)
    PROVE  VersionsInv'
<1>0. /\ MemoryVersionsTypeOK /\ UNCHANGED <<versions, current, editor, pins, review>> /\ Claims(c) <= 2
      /\ proposal \in [Candidates -> [status : ProposalStatus, source : Numbers, body : Bodies]]
  BY DEF VersionsInv, CandidateIsKnown, SuccessorFails, RecordActivated, RecordFails, HandBack, ActivationDies,
         MemoryVersionsTypeOK, ProposalStatus
<1>1. ASSUME NEW from \in ActivationSteps, activation[c][from] > 0,
             Leaves(c, from) \/ (from # "failed" /\ Moves(c, from, "failed")),
             NEW status \in ProposalStatus \ {"NONE"}, status = "ACTIVATED" => MadeOf(c) # {},
             proposal' = [proposal EXCEPT ![c].status = status]
      PROVE  VersionsInv'
  <2>1. Leaves(c, from) \/ \E to \in ActivationSteps \ {from} : Moves(c, from, to)
    BY <1>1 DEF ActivationSteps
  <2>2. /\ activation' \in [Candidates -> [ActivationSteps -> 0..2]]
        /\ \A d \in Candidates : d # c => activation'[d] = activation[d]
        /\ Claims(c)' <= Claims(c)
    BY <1>0, <1>1, <2>1, ActivationMoves
  <2>3. Claims(c)' <= 2 /\ Claims(c) \in 1..2 /\ (activation[c]["made"] > 0 => MadeOf(c) # {})
    <3>1. Claims(c) \in 1..2 /\ (activation[c]["made"] > 0 => MadeOf(c) # {})
      BY <1>1, ActivatingIsKnown
    <3>2. Claims(c)' \in Nat
      BY <2>2 DEF Claims, ActivationSteps
    <3> QED
      BY <1>0, <2>2, <3>1, <3>2
  <2>4. activation'[c]["made"] > 0 => activation[c]["made"] > 0
    <3>1. activation \in [Candidates -> [ActivationSteps -> 0..2]] /\ "made" \in ActivationSteps
      BY <1>0 DEF MemoryVersionsTypeOK, ActivationSteps
    <3>2. CASE Leaves(c, from)
      BY <1>1, <3>1, <3>2 DEF Leaves
    <3>3. CASE from # "failed" /\ Moves(c, from, "failed")
      BY <1>1, <3>1, <3>3 DEF Moves
    <3> QED
      BY <1>1, <3>2, <3>3
  <2> QED
    BY <1>0, <1>1, <2>2, <2>3, <2>4, CandidateMoves
<1>2. ASSUME NEW from \in ActivationSteps, activation[c][from] > 0,
             Leaves(c, from) \/ (from # "failed" /\ Moves(c, from, "failed")), UNCHANGED proposal
      PROVE  VersionsInv'
  <2>1. PICK status : status = proposal[c].status
    OBVIOUS
  <2>2. status \in ProposalStatus \ {"NONE"} /\ (status = "ACTIVATED" => MadeOf(c) # {})
    BY <1>2, <2>1, ActivatingIsKnown
  <2>3. proposal' = [proposal EXCEPT ![c].status = status]
    <3>1. proposal[c] \in [status : ProposalStatus, source : Numbers, body : Bodies]
      BY <1>0
    <3>2. [proposal[c] EXCEPT !.status = status] = proposal[c]
      BY <2>1, <3>1
    <3>3. [proposal EXCEPT ![c] = proposal[c]] = proposal
      BY <1>0
    <3> QED
      BY <1>2, <3>2, <3>3
  <2> QED
    BY <1>1, <1>2, <2>2, <2>3
<1>3. CASE SuccessorFails(c)
  <2>1. activation[c]["claimed"] > 0 /\ Moves(c, "claimed", "failed") /\ UNCHANGED proposal
    BY <1>3 DEF SuccessorFails
  <2> QED
    BY <1>2, <2>1 DEF ActivationSteps
<1>4. CASE ActivationDies(c)
  <2>1. /\ UNCHANGED proposal
        /\ \E from \in {"claimed", "made", "failed"} : activation[c][from] > 0 /\ Leaves(c, from)
    BY <1>4 DEF ActivationDies
  <2> QED
    BY <1>2, <2>1 DEF ActivationSteps
<1>5. CASE RecordActivated(c)
  <2>1. /\ activation[c]["made"] > 0 /\ Leaves(c, "made")
        /\ proposal' = [proposal EXCEPT ![c].status = "ACTIVATED"]
    BY <1>5 DEF RecordActivated
  <2>2. "made" \in ActivationSteps /\ "ACTIVATED" \in ProposalStatus \ {"NONE"}
    BY DEF ActivationSteps, ProposalStatus
  <2>3. MadeOf(c) # {}
    BY <2>1, <2>2, ActivatingIsKnown
  <2> QED
    BY <1>1, <2>1, <2>2, <2>3
<1>6. CASE HandBack(c)
  <2>1. PICK status : status = IF proposal[c].status = "ACTIVATING" THEN "APPROVED" ELSE proposal[c].status
    OBVIOUS
  <2>2. /\ activation[c]["failed"] > 0 /\ Leaves(c, "failed")
        /\ proposal' = [proposal EXCEPT ![c].status = status]
    BY <1>6, <2>1 DEF HandBack
  <2>3. "failed" \in ActivationSteps
    BY DEF ActivationSteps
  <2>4. status \in ProposalStatus \ {"NONE"} /\ (status = "ACTIVATED" => MadeOf(c) # {})
    BY <2>1, <2>2, <2>3, ActivatingIsKnown DEF ProposalStatus
  <2> QED
    BY <1>1, <2>2, <2>3, <2>4
<1>7. CASE RecordFails(c)
  <2>1. activation[c]["made"] > 0 /\ Moves(c, "made", "failed") /\ UNCHANGED proposal
    BY <1>7 DEF RecordFails
  <2> QED
    BY <1>2, <2>1 DEF ActivationSteps
<1> QED
  BY <1>3, <1>4, <1>5, <1>6, <1>7

(* The successor of a candidate is made while the version it replaces is the   *)
(* newest: none of the versions there are was made of this candidate.         *)
LEMMA MakingKeeps ==
    ASSUME VersionsInv, NEW c \in Candidates, MakeSuccessor(c)
    PROVE  VersionsInv'
<1>0. /\ MemoryVersionsTypeOK /\ OneVersionInUse /\ CandidateIsKnown(c)
      /\ activation[c]["claimed"] > 0 /\ Moves(c, "claimed", "made")
      /\ UNCHANGED <<editor, proposal, review, pins>>
  BY DEF VersionsInv, MakeSuccessor
<1>1. PICK body \in Bodies : Succeed(proposal[c].source, body, "ACTIVE", c)
  BY <1>0, VersionParts DEF MakeSuccessor
<1>2. "ACTIVE" \in LifecycleStates /\ "claimed" \in ActivationSteps /\ "made" \in ActivationSteps \ {"claimed"}
  BY DEF LifecycleStates, ActivationSteps
<1>3. /\ activation' \in [Candidates -> [ActivationSteps -> 0..2]]
      /\ \A d \in Candidates : d # c => activation'[d] = activation[d]
      /\ Claims(c)' <= Claims(c)
  BY <1>0, <1>2, ActivationMoves DEF CandidateIsKnown
<1>4. Claims(c)' <= 2
  <2>1. Claims(c)' \in Nat /\ Claims(c) \in 1..2
    BY <1>0, <1>2, <1>3, ActivatingIsKnown DEF Claims, ActivationSteps
  <2> QED
    BY <1>3, <2>1
<1>5. proposal[c].source = Len(versions) /\ Len(versions) \in Nat /\ proposal[c].status # "NONE"
  <2>1. proposal[c].source = Len(versions)
    BY <1>0, <1>1, <1>2, SuccessorIsAppended
  <2>2. Len(versions) \in Nat
    BY <1>0, VersionParts
  <2> QED
    BY <1>0, <1>2, <2>1, <2>2, ActivatingIsKnown
<1>6. MadeOf(c) = {}
  <2>1. \A v \in MadeOf(c) : v \in 1..Len(versions)
    BY DEF MadeOf, Numbers
  <2>2. \A v \in MadeOf(c) : Len(versions) < v
    BY <1>0, <1>5 DEF CandidateIsKnown
  <2> QED
    BY <1>5, <2>1, <2>2
<1>7. MadeOf(c)' = {Len(versions) + 1} /\ \A d \in Candidates : d # c => MadeOf(d)' = MadeOf(d)
  <2>1. \A d \in Candidates : MadeOf(d)' = IF d = c THEN MadeOf(d) \cup {Len(versions) + 1} ELSE MadeOf(d)
    BY <1>1, <1>2, MadeGrows
  <2> QED
    BY <1>6, <2>1
<1>8. CandidateIsKnown(c)'
  <2>1. \A v \in MadeOf(c)' : proposal'[c].status # "NONE" /\ proposal'[c].source < v
    BY <1>0, <1>5, <1>7
  <2>2. MadeOf(c)' # {} /\ \A v, w \in MadeOf(c)' : v = w
    BY <1>7
  <2> QED
    BY <1>0, <1>4, <1>5, <2>1, <2>2 DEF CandidateIsKnown
<1>9. \A d \in Candidates : d # c => CandidateIsKnown(d)'
  BY <1>0, <1>3, <1>7, CandidateStays
<1>10. MemoryVersionsTypeOK'
  <2>1. editor' = [e \in Editors |-> editor'[e]] /\ \A e \in Editors : editor'[e] \in {editor[e], 0}
    BY <1>0 DEF MemoryVersionsTypeOK
  <2> QED
    BY <1>0, <1>1, <1>2, <1>3, <2>1, SuccessorKeepsTypes
<1>11. OneVersionInUse'
  BY <1>0, <1>1, <1>2, SuccessorKeepsVersions
<1> QED
  BY <1>0, <1>8, <1>9, <1>10, <1>11 DEF VersionsInv, ReviewsAreOfProposals, NoReview

(* A snapshot pins the current version, which is in ordinary use. *)
LEMMA SnapshotsKeep ==
    ASSUME VersionsInv, CreateSnapshot \/ \E k \in 1..Len(pins) : RefreshSnapshot(k)
    PROVE  VersionsInv'
<1> DEFINE PinRow == [version : Numbers, state : {"ACTIVE", "REFRESHED"}]
           new == [version |-> current, state |-> "ACTIVE"]
<1>0. /\ MemoryVersionsTypeOK /\ Selectable /\ UNCHANGED <<versions, current, editor, proposal, review, activation>>
  BY DEF VersionsInv, CreateSnapshot, RefreshSnapshot
<1>1. pins \in Seq(PinRow) /\ new \in PinRow
  BY <1>0, VersionParts DEF MemoryVersionsTypeOK
<1>2. PICK old \in Seq(PinRow) :
        /\ pins' = Append(old, new) /\ Len(old) = Len(pins)
        /\ \A k \in 1..Len(pins) : old[k].version = pins[k].version
  <2>1. CASE CreateSnapshot
    BY <1>1, <2>1 DEF CreateSnapshot
  <2>2. ASSUME NEW k \in 1..Len(pins), RefreshSnapshot(k)
        PROVE  \E old \in Seq(PinRow) :
                 /\ pins' = Append(old, new) /\ Len(old) = Len(pins)
                 /\ \A j \in 1..Len(pins) : old[j].version = pins[j].version
    <3> DEFINE row == [version |-> pins[k].version, state |-> "REFRESHED"]
               old == [pins EXCEPT ![k] = row]
    <3>1. pins[k] \in PinRow
      <4> HIDE DEF PinRow
      <4> QED
        BY <1>1
    <3>2. [pins[k] EXCEPT !.state = "REFRESHED"] = row /\ row \in PinRow /\ row.version = pins[k].version
      BY <3>1
    <3>3. pins' = Append([pins EXCEPT ![k] = [pins[k] EXCEPT !.state = "REFRESHED"]], new)
      BY <2>2 DEF RefreshSnapshot
    <3>4. pins' = Append(old, new)
      <4> HIDE DEF row, new
      <4> QED
        BY <3>2, <3>3
    <3>5. old \in Seq(PinRow) /\ Len(old) = Len(pins) /\ \A j \in 1..Len(pins) : old[j].version = pins[j].version
      <4> HIDE DEF row, PinRow
      <4> QED
        BY <1>1, <3>2
    <3> HIDE DEF old, new, PinRow
    <3> QED
      BY <3>4, <3>5
  <2> QED
    BY <1>0, <2>1, <2>2
<1>3. Numbers' = Numbers /\ OneVersionInUse' /\ \A c : MadeOf(c)' = MadeOf(c)
  BY <1>0, SameVersions
<1>4. /\ pins' \in Seq(PinRow) /\ Len(pins') = Len(pins) + 1 /\ pins'[Len(pins) + 1] = new
      /\ \A k \in 1..Len(pins) : pins'[k].version = pins[k].version
  <2> HIDE DEF PinRow, new
  <2> QED
    BY <1>1, <1>2
<1>5. MemoryVersionsTypeOK'
  BY <1>0, <1>3, <1>4 DEF MemoryVersionsTypeOK
<1>6. \A c \in Candidates : CandidateIsKnown(c)'
  BY <1>0, <1>3, CandidateStays
<1> QED
  BY <1>0, <1>3, <1>5, <1>6 DEF VersionsInv, ReviewsAreOfProposals, NoReview

LEMMA VersionStepKeeps == VersionsInv /\ [MemoryVersionsNext]_memoryVars => VersionsInv'
<1> SUFFICES ASSUME VersionsInv, [MemoryVersionsNext]_memoryVars
             PROVE  VersionsInv'
  OBVIOUS
<1>1. CASE UNCHANGED memoryVars
  <2>1. /\ UNCHANGED <<versions, current, editor, proposal, review, activation, pins>>
        /\ OneVersionInUse' /\ Numbers' = Numbers /\ \A c : MadeOf(c)' = MadeOf(c)
    BY <1>1, SameVersions DEF memoryVars
  <2>2. MemoryVersionsTypeOK' /\ ReviewsAreOfProposals'
    BY <2>1 DEF VersionsInv, MemoryVersionsTypeOK, ReviewsAreOfProposals, NoReview
  <2>3. \A c \in Candidates : CandidateIsKnown(c)'
    BY <2>1, CandidateStays
  <2> QED
    BY <2>1, <2>2, <2>3 DEF VersionsInv
<1> QED
  BY <1>1, EditsKeep, ArchiveKeeps, ProposalsKeep, MakingKeeps, ActivationKeeps, ReviewKeeps, SnapshotsKeep
  DEF MemoryVersionsNext

LEMMA VersionsBegin == MemoryVersionsInit => VersionsInv
<1> SUFFICES ASSUME MemoryVersionsInit
             PROVE  VersionsInv
  OBVIOUS
<1>1. PICK b \in Bodies, s \in {"ACTIVE", "QUARANTINED"} :
        versions = <<[body |-> b, state |-> s, made |-> "editor"]>>
  BY DEF MemoryVersionsInit
<1>2. /\ Len(versions) = 1 /\ Numbers = {1} /\ versions[1] = [body |-> b, state |-> s, made |-> "editor"]
      /\ versions \in Seq([body : Bodies, state : LifecycleStates, made : Candidates \cup {"editor"}])
  BY <1>1 DEF Numbers, LifecycleStates
<1>3. (CHOOSE x \in Bodies : TRUE) \in Bodies
  BY <1>1
<1>4. /\ current = 1 /\ pins = <<>> /\ editor = [e \in Editors |-> 0]
      /\ proposal = [c \in Candidates |-> Unproposed]
      /\ review = [r \in Reviewers |-> NoReview]
      /\ activation = [c \in Candidates |-> [t \in ActivationSteps |-> 0]]
  BY DEF MemoryVersionsInit
<1>5. MemoryVersionsTypeOK
  <2>1. proposal \in [Candidates ->
          [status : {"NONE", "PENDING", "APPROVED", "REJECTED", "ACTIVATING", "ACTIVATED"},
           source : Numbers, body : Bodies]]
    BY <1>2, <1>3, <1>4 DEF Unproposed
  <2>2. editor \in [Editors -> 0..Len(versions)] /\ activation \in [Candidates -> [ActivationSteps -> 0..2]]
    BY <1>2, <1>4
  <2> QED
    BY <1>2, <1>4, <2>1, <2>2 DEF MemoryVersionsTypeOK
<1>6. \A c \in Candidates : CandidateIsKnown(c)
  <2> SUFFICES ASSUME NEW c \in Candidates
               PROVE  CandidateIsKnown(c)
    OBVIOUS
  <2>1. MadeOf(c) = {}
    BY <1>2, MemoryVersionsAssumption DEF MadeOf
  <2>2. Claims(c) = 0 /\ activation[c]["made"] = 0 /\ proposal[c].status = "NONE"
    BY <1>4 DEF Claims, ActivationSteps, Unproposed
  <2> QED
    BY <2>1, <2>2 DEF CandidateIsKnown
<1> QED
  BY <1>2, <1>4, <1>5, <1>6 DEF VersionsInv, OneVersionInUse, ReviewsAreOfProposals

(* No edit is lost, and a candidate becomes at most one version and is only   *)
(* reported activated with it: for any number of editors, candidates,         *)
(* reviewers and versions (memory_lifecycle.py:394-419, 970-1012).            *)
THEOREM VersionsAreKept == MemoryVersionsSpec => [](MemoryVersionsTypeOK /\ VersionsHold)
<1>1. VersionsInv => MemoryVersionsTypeOK /\ VersionsHold
  BY DEF VersionsInv, VersionsHold, ActivatedOnce, CandidateIsKnown, MadeOf
<1> QED
  BY <1>1, VersionsBegin, VersionStepKeeps, PTL DEF MemoryVersionsSpec
==============================================================================
