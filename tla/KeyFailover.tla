----------------------------- MODULE KeyFailover -----------------------------
(***************************************************************************)
(* engine/batch-manager.ts with a KeyResolver: a flush tries the keys of   *)
(* the user in order of priority (keys/selector.ts), with a new batch for  *)
(* each key, and goes on to the next key on a rate limit or an exhausted   *)
(* credit.  Orphan recovery runs beside it and picks up what other errors  *)
(* and crashes leave behind.  A step ends at each await.                   *)
(***************************************************************************)
EXTENDS OrphanRecovery, Sequences, SequencesExt

CONSTANTS
  Keys,          \* the API keys of the user for the provider
  Priority,      \* api_keys.priority: lower is preferred
  ForFailover,   \* keys with failoverEnabled
  FlushLimit,    \* requests one flush reads; they are one chunk
  MaxLimited     \* bound on the refusals for rate or credit

ASSUME KeyAssumption ==
  /\ Priority \in [Keys -> Nat]
  /\ ForFailover \subseteq Keys
  /\ FlushLimit \in Nat \ {0}
  /\ MaxLimited \in Nat

VARIABLES
  revoked,       \* keys the user has revoked
  kpc,           \* where the flush is
  kKeys,         \* the candidates not yet tried, the next one first
  kBatch,        \* the batch of the key being tried
  kChunk,        \* the requests of the flush
  kTodo,         \* those a loop over them has still to update
  limited        \* refusals for rate or credit so far

keyVars == <<kpc, kKeys, kBatch, kChunk, kTodo>>
vars == <<storeVars, tickVars, revoked, keyVars, limited>>

FlushPC == {"idle", "next", "assign", "attempt", "submit", "record", "reset", "close"}

FlushDone ==
  /\ kpc' = "idle"
  /\ kKeys' = <<>>
  /\ kBatch' = NoBatch
  /\ kChunk' = {}
  /\ kTodo' = {}

Init ==
  /\ StoreInit
  /\ TickInit
  /\ revoked = {}
  /\ kpc = "idle" /\ kKeys = <<>> /\ kBatch = NoBatch /\ kChunk = {} /\ kTodo = {}
  /\ limited = 0

-----------------------------------------------------------------------------
\* selectKeys: the keys that are not revoked in order of priority; after the
\* first, only those with failoverEnabled
SelectKeys(active) ==
  LET sorted == SetToSortSeq(active, LAMBDA j, k : Priority[j] < Priority[k])
  IN IF active = {} THEN <<>>
     ELSE <<Head(sorted)>> \o SelectSeq(Tail(sorted), LAMBDA k : k \in ForFailover)

\* getQueuedRequests and getKeysForUser; without a key the flush returns
FlushRead ==
  LET chunk == QueuedRequests(FlushLimit)
      keys  == SelectKeys(Keys \ revoked)
  IN /\ kpc = "idle"
     /\ chunk # {} /\ keys # <<>>
     /\ kpc' = "next"
     /\ kKeys' = keys
     /\ kChunk' = chunk
     /\ UNCHANGED <<kBatch, kTodo, storeVars, tickVars, revoked, limited>>

\* The loop ends: all keys are exhausted.
FlushExhausted ==
  /\ kpc = "next" /\ kKeys = <<>>
  /\ FlushDone
  /\ UNCHANGED <<storeVars, tickVars, revoked, limited>>

\* submitBatchWithAdapter: write-before-submit
FlushCreate(b) ==
  /\ kpc = "next" /\ kKeys # <<>>
  /\ CreateBatch(b)
  /\ kKeys' = Tail(kKeys)
  /\ kBatch' = b
  /\ kTodo' = kChunk
  /\ kpc' = "assign"
  /\ UNCHANGED <<kChunk, requestVars, result, historyVars, faults, worldVars,
                 tickVars, revoked, limited>>

\* updateRequest(r, {batchId, status: 'batched'}), one after the other
FlushAssign(r) ==
  /\ kpc = "assign" /\ IsFirst(r, kTodo)
  /\ AssignBatch({r}, kBatch)
  /\ kTodo' = kTodo \ {r}
  /\ kpc' = IF kTodo = {r} THEN "attempt" ELSE "assign"
  /\ UNCHANGED <<kKeys, kBatch, kChunk, result, batchVars, historyVars, faults, worldVars,
                 tickVars, revoked, limited>>

FlushAttempt ==
  /\ kpc = "attempt"
  /\ SetAttempts(kBatch, 1)
  /\ kpc' = "submit"
  /\ UNCHANGED <<kKeys, kBatch, kChunk, kTodo, requestVars, result, historyVars, faults,
                 worldVars, tickVars, revoked, limited>>

FlushAccepted ==
  /\ kpc = "submit"
  /\ ProviderAccepts(kBatch, kChunk)
  /\ kpc' = "record"
  /\ UNCHANGED <<kKeys, kBatch, kChunk, kTodo, requestVars, result, batchVars, faults,
                 worldVars, tickVars, revoked, limited>>

\* isFailoverEligibleError: the provider creates no job
FlushLimited ==
  /\ kpc = "submit"
  /\ limited < MaxLimited
  /\ limited' = limited + 1
  /\ ProviderRejects(kBatch)
  /\ kTodo' = kChunk
  /\ kpc' = "reset"
  /\ UNCHANGED <<kKeys, kBatch, kChunk, requestVars, result, batchVars, faults,
                 worldVars, tickVars, revoked>>

\* mutant: every error is failed over, not only a rate limit
FlushSubmitFails_FailsOver ==
  /\ kpc = "submit"
  /\ \/ Fault("rejected") /\ ProviderRejects(kBatch)
     \/ Fault("timed_out") /\ ProviderAccepts(kBatch, kChunk)
  /\ kTodo' = kChunk
  /\ kpc' = "reset"
  /\ UNCHANGED <<kKeys, kBatch, kChunk, requestVars, result, batchVars, worldVars,
                 tickVars, revoked, limited>>

\* any other error: the batch stays pending and its requests batched
FlushSubmitFails ==
  /\ kpc = "submit"
  /\ \/ Fault("rejected") /\ ProviderRejects(kBatch)
     \/ Fault("timed_out") /\ ProviderAccepts(kBatch, kChunk)
  /\ FlushDone
  /\ UNCHANGED <<requestVars, result, batchVars, worldVars, tickVars, revoked, limited>>

FlushRecord ==
  /\ kpc = "record"
  /\ RecordSubmission(kBatch, kChunk)
  /\ FlushDone
  /\ UNCHANGED <<requestVars, result, historyVars, faults, worldVars, tickVars, revoked, limited>>

\* mutant: the batch is closed before its requests are reset
FlushReset_ClosesFirst(r) ==
  /\ kpc = "reset" /\ IsFirst(r, kTodo)
  /\ Requeue(r, retryCount[r])
  /\ IF kTodo = kChunk THEN SetBatchStatus(kBatch, "failed") ELSE UNCHANGED batchVars
  /\ kTodo' = kTodo \ {r}
  /\ kpc' = IF kTodo = {r} THEN "close" ELSE "reset"
  /\ UNCHANGED <<kKeys, kBatch, kChunk, result, historyVars, faults, worldVars,
                 tickVars, revoked, limited>>

\* updateRequest(r, {batchId: null, status: 'queued'}), one after the other
FlushReset(r) ==
  /\ kpc = "reset" /\ IsFirst(r, kTodo)
  /\ Requeue(r, retryCount[r])
  /\ kTodo' = kTodo \ {r}
  /\ kpc' = IF kTodo = {r} THEN "close" ELSE "reset"
  /\ UNCHANGED <<kKeys, kBatch, kChunk, result, batchVars, historyVars, faults, worldVars,
                 tickVars, revoked, limited>>

\* mutant: the batch of the key that was refused is left as it is
FlushClose_LeavesPending ==
  /\ kpc = "close"
  /\ kBatch' = NoBatch
  /\ kpc' = "next"
  /\ UNCHANGED <<kKeys, kChunk, kTodo, requestVars, result, batchVars, historyVars, faults,
                 worldVars, tickVars, revoked, limited>>

\* updateBatch(b, {status: 'failed'}); on to the next key
FlushClose ==
  /\ kpc = "close"
  /\ SetBatchStatus(kBatch, "failed")
  /\ kBatch' = NoBatch
  /\ kpc' = "next"
  /\ UNCHANGED <<kKeys, kChunk, kTodo, requestVars, result, historyVars, faults,
                 worldVars, tickVars, revoked, limited>>

\* A database call or buildProvider throws, in the catch block too: that error
\* is not failed over.
FlushThrows ==
  /\ kpc \in FlushPC \ {"idle", "submit"}
  /\ kpc = "next" => kKeys # <<>>
  /\ Fault("store")
  /\ FlushDone
  /\ UNCHANGED <<requestVars, result, batchVars, historyVars, worldVars, tickVars,
                 revoked, limited>>

Flush ==
  \/ FlushRead \/ FlushExhausted
  \/ \E b \in Batches : FlushCreate(b)
  \/ \E r \in Requests : FlushAssign(r) \/ FlushReset(r)
  \/ FlushAttempt \/ FlushAccepted \/ FlushLimited \/ FlushSubmitFails \/ FlushRecord
  \/ FlushClose \/ FlushThrows

-----------------------------------------------------------------------------
(* Orphan recovery and the surroundings *)

\* the scan is over, or a database call outside resubmit's try block throws
ScanEnds ==
  \/ tpc = "recover" /\ tTodo = {} /\ TickReset /\ UNCHANGED storeVars
  \/ /\ tpc \in {"gather", "verdict", "fail", "failread", "failing"}
     /\ Fault("store")
     /\ TickReset
     /\ UNCHANGED <<requestVars, result, batchVars, historyVars, worldVars>>

Recovery ==
  /\ RecoverWork \/ RecoverSubmitFails \/ RecoverRecordFails \/ ScanEnds
  /\ UNCHANGED <<revoked, keyVars, limited>>

Enqueue(r) ==
  /\ IsFirst(r, {q \in Requests : reqStatus[q] = "absent"})
  /\ SetStatus(r, "queued")
  /\ UNCHANGED <<result, batchVars, historyVars, faults, worldVars, tickVars,
                 revoked, keyVars, limited>>

\* a key is revoked or restored in the settings
SetRevoked(k) ==
  /\ revoked' = IF k \in revoked THEN revoked \ {k} ELSE revoked \cup {k}
  /\ UNCHANGED <<storeVars, tickVars, keyVars, limited>>

\* the grace period passes; a flush is done with its batch well before
Age(b) ==
  /\ batStatus[b] = "pending" /\ ~aged[b] /\ kBatch # b
  /\ aged' = [aged EXCEPT ![b] = TRUE]
  /\ UNCHANGED <<requestVars, result, batStatus, batRef, attempts, historyVars,
                 faults, worldVars, tickVars, revoked, keyVars, limited>>

Crash ==
  /\ crashes < MaxCrashes
  /\ crashes' = crashes + 1
  /\ FlushDone
  /\ TickReset
  /\ UNCHANGED <<requestVars, result, batchVars, historyVars, faults, retired,
                 userRetries, revoked, limited>>

Next ==
  \/ Flush
  \/ Recovery
  \/ \E r \in Requests : Enqueue(r)
  \/ \E k \in Keys : SetRevoked(k)
  \/ \E b \in Batches : Age(b)
  \/ Crash

Spec == Init /\ [][Next]_vars

-----------------------------------------------------------------------------
(* Properties *)

\* "Requests remain 'batched' to avoid duplicate submissions": whatever the
\* flush, recovery, crashes and partial resets do, a flush never submits a
\* request that may already be in a provider job.
FlushSubmitsFresh == kpc = "submit" => \A r \in kChunk : jobs[r] = 0

\* A request never waits in a batch that failover has closed, where neither
\* recovery nor polling would look; only a recovery that has used up the
\* attempts, and dies between its two updates, can leave one there.
ClosedBatchIsEmpty ==
  \A r \in Requests : \A b \in Batches :
    reqStatus[r] = "batched" /\ reqBatch[r] = b /\ batStatus[b] = "failed" =>
      attempts[b] >= MaxAttempts

\* Rate limits alone leave nothing behind: without faults and crashes, what a
\* flush over any number of keys has left is submitted or queued again, and
\* every other batch is closed.
FailoverLeavesNothing ==
  kpc = "idle" /\ faults = 0 /\ crashes = 0 =>
    /\ \A b \in Batches : batStatus[b] # "pending"
    /\ \A r \in Requests : reqStatus[r] = "batched" => batStatus[reqBatch[r]] = "submitted"
=============================================================================
