----------------------------- MODULE MCServices -----------------------------
(***************************************************************************)
(* The queues and leases that daemons and schedulers serve, each under the *)
(* fairness its callers give it.  They share no row, so one run checks them *)
(* all: focus says which of them moves, the others rest.                    *)
(***************************************************************************)
EXTENDS GraphEvents, GraphOutbox, GraphAdmission, SchedulerLease, ExecutionJobs, EmbeddingJobs

VARIABLE focus

Services == {"events", "outbox", "admission", "lease", "jobs", "embedding"}

serviceVars ==
    <<focus, eventVars, outboxVars, admissionVars, leaseVars, jobVars, embeddingVars>>

ServicesInit ==
    /\ focus \in Services
    /\ EventsInit /\ OutboxInit /\ AdmissionInit /\ LeaseInit /\ JobsInit /\ EmbeddingInit
    /\ (queue = {}) = (focus # "admission")   \* what rests has nothing to do

Rests(service, vars) == focus = service \/ UNCHANGED vars
ServicesNext ==
    /\ UNCHANGED focus
    /\ Rests("events", eventVars) /\ Rests("outbox", outboxVars)
    /\ Rests("admission", admissionVars) /\ Rests("lease", leaseVars)
    /\ Rests("jobs", jobVars) /\ Rests("embedding", embeddingVars)
    /\ \/ focus = "events" /\ EventsNext
       \/ focus = "outbox" /\ OutboxNext
       \/ focus = "admission" /\ AdmissionNext
       \/ focus = "lease" /\ LeaseNext
       \/ focus = "jobs" /\ JobsNext
       \/ focus = "embedding" /\ EmbeddingNext

ServicesSpec ==
    /\ ServicesInit /\ [][ServicesNext]_serviceVars
    /\ EventFairness /\ OutboxFairness /\ AdmissionFairness /\ JobsFairness /\ EmbeddingFairness

-----------------------------------------------------------------------------

(* Every row holds what its column admits. *)
ServicesTypeOK ==
    /\ EventsTypeOK /\ OutboxTypeOK /\ AdmissionTypeOK
    /\ LeaseTypeOK /\ JobsTypeOK /\ EmbTypeOK

(* What comes in and what goes out ends somewhere, at most once.  *)
EventsFlow == EventSettles /\ OutboxHolds

(* The queues of jobs that execute and embed are leased work. *)
QueuesAreLeasedWork == JobsAreLeasedWork /\ EmbeddingsAreLeasedWork

(* The jobs that daemons run come to an end, whatever leases run out. *)
QueuesSettle == JobSettles /\ EmbeddingJobsEnd
=============================================================================
