----------------------------- MODULE NorushStore -----------------------------
(***************************************************************************)
(* The part of the NoRush database the batch engine reads and writes: the  *)
(* tables requests, batches and results, the operations of PostgresStore   *)
(* on them (each one SQL statement, hence one atomic change), and what the *)
(* provider has been asked to do.                                          *)
(*                                                                         *)
(* Ids are ULIDs, which grow with time, so a row id is a natural number    *)
(* and "ORDER BY created_at ASC" is the order of the ids.                  *)
(***************************************************************************)
EXTENDS Naturals, FiniteSets

CONSTANTS
  Requests,      \* ids of the requests users may enqueue
  Batches,       \* ids of the batches that may be created (a bound)
  Groups,        \* the (provider, model, userId) groups requests fall into
  GroupOf,       \* the group of each request
  MaxRetries,    \* requests.max_retries
  MaxAttempts,   \* batches.max_submission_attempts
  Retirable,     \* groups whose model the catalog may mark retired
  FaultKinds,    \* what may fail: see FaultKind
  MaxFaults,     \* bound on failures of the provider and of the database
  MaxCrashes,    \* bound on crashes of the worker process
  MaxUserRetries \* bound on user-triggered retries

\* "rejected"  a provider call throws and the provider created no job
\* "timed_out" a provider call throws although the provider created the job
\* "store"     a database call of the flush or of the tracker throws
\* "ingest"    a database call of a result handler throws
\* "stream"    the provider's result stream throws
FaultKind == {"rejected", "timed_out", "store", "ingest", "stream"}

ASSUME IdAssumption ==
  /\ Requests \subseteq Nat \ {0}
  /\ Batches \subseteq Nat \ {0}

ASSUME LimitAssumption ==
  /\ MaxRetries \in Nat
  /\ MaxAttempts \in Nat \ {0}
  /\ MaxFaults \in Nat
  /\ MaxCrashes \in Nat
  /\ MaxUserRetries \in Nat

ASSUME GroupAssumption ==
  /\ GroupOf \in [Requests -> Groups]
  /\ Retirable \subseteq Groups
  /\ FaultKinds \subseteq FaultKind

NoBatch == 0     \* requests.batch_id IS NULL

RequestStatus ==
  {"absent", "queued", "batched", "succeeded", "failed", "expired", "failed_final"}

BatchStatus ==
  {"absent", "pending", "submitted", "processing",
   "ended", "expired", "failed", "cancelled"}

VARIABLES
  reqStatus,     \* requests.status; "absent" before the row exists
  reqBatch,      \* requests.batch_id
  retryCount,    \* requests.retry_count
  result,        \* the row of results for a request, at most one (UNIQUE)
  batStatus,     \* batches.status; "absent" before the row exists
  batRef,        \* batches.provider_batch_id, as the set of requests the
                 \* provider job holds; {} when the column is NULL
  attempts,      \* batches.submission_attempts
  aged,          \* batches.updated_at is older than the grace period
  retired,       \* groups whose catalog entry says lifecycle_state = retired
  calls,         \* history: provider submissions made for a batch
  jobs,          \* history: provider jobs a request is in, since the user
                 \* last asked for it
  faults,        \* failures so far
  crashes,       \* crashes so far
  userRetries    \* user-triggered retries so far

requestVars == <<reqStatus, reqBatch, retryCount>>
batchVars   == <<batStatus, batRef, attempts, aged>>
historyVars == <<calls, jobs>>
worldVars   == <<retired, crashes, userRetries>>
storeVars   == <<requestVars, result, batchVars, historyVars, faults, worldVars>>

StoreTypeOK ==
  /\ reqStatus \in [Requests -> RequestStatus]
  /\ reqBatch \in [Requests -> Batches \cup {NoBatch}]
  /\ retryCount \in [Requests -> 0..MaxRetries]
  /\ result \in [Requests -> {"none", "good", "bad"}]
  /\ batStatus \in [Batches -> BatchStatus]
  /\ batRef \in [Batches -> SUBSET Requests]
  /\ attempts \in [Batches -> 0..MaxAttempts]
  /\ aged \in [Batches -> BOOLEAN]
  /\ retired \in SUBSET Groups
  /\ calls \in [Batches -> Nat]
  /\ jobs \in [Requests -> Nat]
  /\ faults \in 0..MaxFaults
  /\ crashes \in 0..MaxCrashes
  /\ userRetries \in 0..MaxUserRetries

StoreInit ==
  /\ reqStatus = [r \in Requests |-> "absent"]
  /\ reqBatch = [r \in Requests |-> NoBatch]
  /\ retryCount = [r \in Requests |-> 0]
  /\ result = [r \in Requests |-> "none"]
  /\ batStatus = [b \in Batches |-> "absent"]
  /\ batRef = [b \in Batches |-> {}]
  /\ attempts = [b \in Batches |-> 0]
  /\ aged = [b \in Batches |-> FALSE]
  /\ retired = {}
  /\ calls = [b \in Batches |-> 0]
  /\ jobs = [r \in Requests |-> 0]
  /\ faults = 0
  /\ crashes = 0
  /\ userRetries = 0

-----------------------------------------------------------------------------
(* Queries *)

\* ORDER BY created_at ASC LIMIT n
Oldest(S, n) == {x \in S : Cardinality({y \in S : y < x}) < n}

\* getQueuedRequests(limit)
QueuedRequests(limit) == Oldest({r \in Requests : reqStatus[r] = "queued"}, limit)

\* getRequestsByBatchId
RequestsOf(b) == {r \in Requests : reqBatch[r] = b}

\* x is the first element of S a loop in id order comes to
IsFirst(x, S) == x \in S /\ \A y \in S : x <= y

-----------------------------------------------------------------------------
(* Updates *)

\* createBatch: the next ULID, status pending, no attempts, no reference
CreateBatch(b) ==
  /\ IsFirst(b, {c \in Batches : batStatus[c] = "absent"})
  /\ batStatus' = [batStatus EXCEPT ![b] = "pending"]
  /\ UNCHANGED <<batRef, attempts, aged>>

\* assignBatchToRequests: unconditional on the current status
AssignBatch(S, b) ==
  /\ reqStatus' = [r \in Requests |-> IF r \in S THEN "batched" ELSE reqStatus[r]]
  /\ reqBatch' = [r \in Requests |-> IF r \in S THEN b ELSE reqBatch[r]]
  /\ UNCHANGED retryCount

\* updateRequest(r, {status})
SetStatus(r, s) ==
  /\ reqStatus' = [reqStatus EXCEPT ![r] = s]
  /\ UNCHANGED <<reqBatch, retryCount>>

\* Mutant: the batch id is left in place.
Requeue_KeepsBatch(r, n) ==
  /\ reqStatus' = [reqStatus EXCEPT ![r] = "queued"]
  /\ retryCount' = [retryCount EXCEPT ![r] = n]
  /\ UNCHANGED reqBatch

\* updateRequest(r, {status: 'queued', batchId: null, retryCount})
Requeue(r, n) ==
  /\ reqStatus' = [reqStatus EXCEPT ![r] = "queued"]
  /\ reqBatch' = [reqBatch EXCEPT ![r] = NoBatch]
  /\ retryCount' = [retryCount EXCEPT ![r] = n]

\* updateBatch(b, {submissionAttempts}); every updateBatch renews updated_at
SetAttempts(b, n) ==
  /\ attempts' = [attempts EXCEPT ![b] = n]
  /\ aged' = [aged EXCEPT ![b] = FALSE]
  /\ UNCHANGED <<batStatus, batRef>>

\* updateBatch(b, {status, endedAt})
SetBatchStatus(b, s) ==
  /\ batStatus' = [batStatus EXCEPT ![b] = s]
  /\ aged' = [aged EXCEPT ![b] = FALSE]
  /\ UNCHANGED <<batRef, attempts>>

\* Mutant: the status is written before the reference.
RecordSubmission_NoRef(b, job) ==
  /\ batStatus' = [batStatus EXCEPT ![b] = "submitted"]
  /\ aged' = [aged EXCEPT ![b] = FALSE]
  /\ UNCHANGED <<batRef, attempts>>

\* updateBatch(b, {providerBatchId, status: 'submitted', submittedAt})
RecordSubmission(b, job) ==
  /\ batStatus' = [batStatus EXCEPT ![b] = "submitted"]
  /\ batRef' = [batRef EXCEPT ![b] = job]
  /\ aged' = [aged EXCEPT ![b] = FALSE]
  /\ UNCHANGED attempts

\* createResult: the UNIQUE constraint keeps the first row of a request
CreateResult(r, ok) ==
  result' = [result EXCEPT ![r] =
               IF @ # "none" THEN @ ELSE IF ok THEN "good" ELSE "bad"]

-----------------------------------------------------------------------------
(* The provider, as adapter.submitBatch shows it (external) *)

Fault(kind) == /\ kind \in FaultKinds
               /\ faults < MaxFaults
               /\ faults' = faults + 1

\* the provider creates a job for the requests S of batch b
ProviderAccepts(b, S) ==
  /\ calls' = [calls EXCEPT ![b] = @ + 1]
  /\ jobs' = [r \in Requests |-> IF r \in S THEN jobs[r] + 1 ELSE jobs[r]]

\* the provider is called for batch b and creates nothing
ProviderRejects(b) ==
  /\ calls' = [calls EXCEPT ![b] = @ + 1]
  /\ UNCHANGED jobs
=============================================================================
