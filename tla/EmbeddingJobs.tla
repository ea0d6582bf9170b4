--------------------------- MODULE EmbeddingJobs ----------------------------
(***************************************************************************)
(* Managed embedding jobs (embedding_governance.py): enqueue by            *)
(* idempotency key, claim under a five minute lease with a fencing token,  *)
(* run_managed_worker, which claims a batch and then runs it one job after *)
(* the other, and complete_job.                                            *)
(*                                                                         *)
(* Every job here embeds the content of one entity into one space.         *)
(* Statements outside a transaction (the selection, each claim, the count, *)
(* the write of the vector) are actions of their own.                      *)
(***************************************************************************)
EXTENDS Naturals, Sequences, FiniteSets

CONSTANTS
    EmbJobs,       \* idempotency keys, numbers in the order of creation
    EmbWorkers,
    NoWorker,
    MaxContent,    \* bound: versions of the entity's content
    MaxTrouble     \* bound: crashes, and leases that run out under a live worker

ASSUME EmbeddingJobsAssumption ==
    /\ EmbJobs \subseteq Nat /\ IsFiniteSet(EmbWorkers)
    /\ NoWorker \notin EmbWorkers
    /\ MaxContent \in Nat \ {0} /\ MaxTrouble \in Nat

VARIABLES
    embJobs,   \* CX_EMBEDDING_JOBS
    content,   \* version of the entity's content
    vector,    \* version the ENTITY_EMBEDDINGS row was computed from, 0: no row
    embBook,   \* the workers
    embedded,  \* history: <<job, token>> whose run ended without an error
    trouble    \* crashes and overrun leases so far

embeddingVars == <<embJobs, content, vector, embBook, embedded, trouble>>

EmbStatus == {"ABSENT", "PENDING", "CLAIMED", "COMPLETED", "FAILED"}
Fences == 1..(2 + MaxTrouble)
Asleep == [pc |-> "asleep", found |-> {}, batch |-> <<>>, seen |-> 0, counted |-> FALSE]

EmbTypeOK ==
    /\ embJobs \in [EmbJobs -> [status : EmbStatus, worker : EmbWorkers \cup {NoWorker},
                                token : Fences, expired : BOOLEAN]]
    /\ content \in 1..MaxContent /\ vector \in 0..MaxContent
    /\ \A w \in EmbWorkers :
         /\ embBook[w].pc \in {"asleep", "claiming", "next", "embedding", "writing", "done", "failed"}
         /\ embBook[w].found \subseteq EmbJobs
         /\ \A i \in DOMAIN embBook[w].batch : embBook[w].batch[i] \in (EmbJobs \X Fences)
    /\ embedded \subseteq (EmbJobs \X Fences)
    /\ trouble \in 0..MaxTrouble

EmbeddingInit ==
    /\ embJobs = [j \in EmbJobs |->
         [status |-> "ABSENT", worker |-> NoWorker, token |-> 1, expired |-> FALSE]]
    /\ content = 1 /\ vector = 0
    /\ embBook = [w \in EmbWorkers |-> Asleep]
    /\ embedded = {}
    /\ trouble = 0

-----------------------------------------------------------------------------
(* Jobs *)

(* A key that is known returns its job, whatever became of it. *)
EnqueueEmbedding(j) ==
    /\ embJobs[j].status = "ABSENT"
    /\ embJobs' = [embJobs EXCEPT ![j].status = "PENDING"]
    /\ UNCHANGED <<content, vector, embBook, embedded, trouble>>

Unfinished(j) == embJobs[j].status \in {"PENDING", "CLAIMED"}
(* What the selection and the guarded update of claim_jobs both ask for. *)
JobClaimable(j) ==
    \/ embJobs[j].status = "PENDING"
    \/ embJobs[j].status = "CLAIMED" /\ embJobs[j].expired

SelectJobs(w) ==
    LET found == {j \in EmbJobs : JobClaimable(j)} IN
    /\ embBook[w].pc = "asleep" /\ found # {}
    /\ embBook' = [embBook EXCEPT ![w].pc = "claiming", ![w].found = found]
    /\ UNCHANGED <<embJobs, content, vector, embedded, trouble>>

NextFence(j) == embJobs[j].token + 1

(* One guarded update in the loop over the selection; the row read back     *)
(* after it is the one just written, as its lease is fresh.                 *)
ClaimJob(w) ==
    /\ embBook[w].pc = "claiming"
    /\ \E j \in embBook[w].found :
         /\ \A k \in embBook[w].found : j <= k
         /\ embBook' = [embBook EXCEPT ![w].found = @ \ {j},
              ![w].batch = IF JobClaimable(j) THEN Append(@, <<j, NextFence(j)>>) ELSE @]
         /\ embJobs' = [embJobs EXCEPT ![j] = IF ~JobClaimable(j) THEN @
              ELSE [status |-> "CLAIMED", worker |-> w, token |-> NextFence(j), expired |-> FALSE]]
    /\ UNCHANGED <<content, vector, embedded, trouble>>

EndClaims(w) ==
    /\ embBook[w].pc = "claiming" /\ embBook[w].found = {}
    /\ embBook' = [embBook EXCEPT ![w].pc = "next"]
    /\ UNCHANGED <<embJobs, content, vector, embedded, trouble>>

-----------------------------------------------------------------------------
(* The batch *)

Current(w) == Head(embBook[w].batch)

(* Space, Contract and Profile are read, then the candidates: the worker    *)
(* refuses the job, finds nothing to embed, or reads the content.           *)
RunJob(w) ==
    /\ embBook[w].pc = "next" /\ embBook[w].batch # <<>>
    /\ \/ embBook' = [embBook EXCEPT ![w].pc = "failed"] /\ UNCHANGED embedded
       \/ /\ embBook' = [embBook EXCEPT ![w].pc = "done"]
          /\ embedded' = embedded \cup {Current(w)}
       \/ /\ embBook' = [embBook EXCEPT ![w].pc = "embedding", ![w].seen = content]
          /\ UNCHANGED embedded
    /\ UNCHANGED <<embJobs, content, vector, trouble>>

(* The provider answers, or does not; then _managed_write counts the rows. *)
Embed(w) ==
    /\ embBook[w].pc = "embedding"
    /\ \/ embBook' = [embBook EXCEPT ![w].pc = "failed"]
       \/ embBook' = [embBook EXCEPT ![w].pc = "writing", ![w].counted = vector # 0]
    /\ UNCHANGED <<embJobs, content, vector, embedded, trouble>>

(* An INSERT where a row has appeared meanwhile meets the primary key. *)
WriteVector(w) ==
    /\ embBook[w].pc = "writing"
    /\ IF embBook[w].counted = (vector # 0)
       THEN /\ vector' = embBook[w].seen
            /\ embedded' = embedded \cup {Current(w)}
            /\ embBook' = [embBook EXCEPT ![w].pc = "done"]
       ELSE /\ embBook' = [embBook EXCEPT ![w].pc = "failed"]
            /\ UNCHANGED <<vector, embedded>>
    /\ UNCHANGED <<embJobs, content, trouble>>

(* Only the state and the token are compared: neither the worker nor the    *)
(* lease matters.                                                           *)
MayEnd(w) == embJobs[Current(w)[1]].status = "CLAIMED"
                  /\ embJobs[Current(w)[1]].token = Current(w)[2]

(* complete_job. When it refuses, the except branch calls it once more, and *)
(* that refusal leaves run_managed_worker: the rest of the batch is dropped *)
(* with its leases running.                                                 *)
EndEmbedding(w) ==
    /\ embBook[w].pc \in {"done", "failed"}
    /\ IF MayEnd(w)
       THEN /\ embJobs' = [embJobs EXCEPT ![Current(w)[1]].status =
                             IF embBook[w].pc = "done" THEN "COMPLETED" ELSE "FAILED"]
            /\ embBook' = [embBook EXCEPT ![w] =
                             [Asleep EXCEPT !.pc = "next", !.batch = Tail(embBook[w].batch)]]
       ELSE /\ embBook' = [embBook EXCEPT ![w] = Asleep]
            /\ UNCHANGED embJobs
    /\ UNCHANGED <<content, vector, embedded, trouble>>

EndBatch(w) ==
    /\ embBook[w].pc = "next" /\ embBook[w].batch = <<>>
    /\ embBook' = [embBook EXCEPT ![w] = Asleep]
    /\ UNCHANGED <<embJobs, content, vector, embedded, trouble>>

-----------------------------------------------------------------------------
(* Environment *)

EditContent ==
    /\ content < MaxContent /\ content' = content + 1
    /\ UNCHANGED <<embJobs, vector, embBook, embedded, trouble>>

HoldsClaim(w, j) == \E i \in DOMAIN embBook[w].batch : embBook[w].batch[i] = <<j, embJobs[j].token>>
Expires(j) ==
    /\ embJobs[j].status = "CLAIMED" /\ ~embJobs[j].expired
    /\ embJobs' = [embJobs EXCEPT ![j].expired = TRUE]
    /\ UNCHANGED <<content, vector, embBook, embedded>>
(* The lease of a job whose worker is gone, and one that runs out in the    *)
(* queue of a live worker's batch.                                          *)
OrphanExpires(j) == (\A w \in EmbWorkers : ~HoldsClaim(w, j)) /\ Expires(j) /\ UNCHANGED trouble
Overruns(j) ==
    /\ \E w \in EmbWorkers : HoldsClaim(w, j)
    /\ trouble < MaxTrouble /\ trouble' = trouble + 1
    /\ Expires(j)

EmbWorkerDies(w) ==
    /\ embBook[w] # Asleep
    /\ trouble < MaxTrouble /\ trouble' = trouble + 1
    /\ embBook' = [embBook EXCEPT ![w] = Asleep]
    /\ UNCHANGED <<embJobs, content, vector, embedded>>

EmbWorkerStep(w) ==
    \/ SelectJobs(w) \/ ClaimJob(w) \/ EndClaims(w)
    \/ RunJob(w) \/ Embed(w) \/ WriteVector(w) \/ EndEmbedding(w) \/ EndBatch(w)

EmbeddingNext ==
    \/ \E j \in EmbJobs : EnqueueEmbedding(j) \/ OrphanExpires(j) \/ Overruns(j)
    \/ \E w \in EmbWorkers : EmbWorkerStep(w) \/ EmbWorkerDies(w)
    \/ EditContent

EmbeddingJobsSpec == EmbeddingInit /\ [][EmbeddingNext]_embeddingVars
(* embedding_worker.py is run again and again; time passes. *)
EmbeddingFairness ==
    /\ \A w \in EmbWorkers : WF_embeddingVars(EmbWorkerStep(w))
    /\ \A j \in EmbJobs : WF_embeddingVars(OrphanExpires(j))

-----------------------------------------------------------------------------
(* Properties *)

(* Batches of claims that run out one behind the other are leased work: the *)
(* claim that completes a job is the newest one, and its worker has run the *)
(* job.  The bound on claims is the model's, the code has none.             *)
NewestRun(j) ==
    LET runs == {t \in Fences : t = 1 \/ <<j, t>> \in embedded} IN
    CHOOSE t \in runs : \A u \in runs : u <= t
EmbeddingWork == INSTANCE LeasedWork WITH
    Work <- EmbJobs, MaxClaims <- 1 + MaxTrouble,
    claims <- [j \in EmbJobs |-> embJobs[j].token - 1],
    winner <- [j \in EmbJobs |->
        IF embJobs[j].status = "COMPLETED" THEN NewestRun(j) - 1 ELSE 0]
EmbeddingsAreLeasedWork == EmbeddingWork!WorkSpec

(* Every job ends although workers die, lose leases in the queue of their   *)
(* own batch and drop the rest of it.                                       *)
EmbeddingJobsEnd == (\E j \in EmbJobs : Unfinished(j)) ~> (\A j \in EmbJobs : ~Unfinished(j))
=============================================================================
