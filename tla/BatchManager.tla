---------------------------- MODULE BatchManager ----------------------------
(***************************************************************************)
(* engine/batch-manager.ts: one flush of the queue on the provider-map     *)
(* path createNorush wires (no KeyResolver).  A step ends at each await,   *)
(* so other threads of the worker run between any two of them.  The flag   *)
(* `flushing` (here ~FlushIdle) is the guard of both RequestQueue and    *)
(* BatchManager.                                                           *)
(***************************************************************************)
EXTENDS NorushStore

CONSTANTS
  FlushLimit,    \* batching.maxRequests: rows one flush reads
  ChunkLimit,    \* provider limit on requests per batch
  Oversized,     \* requests whose params alone exceed the byte limit
  Unserved       \* groups with no provider adapter

ASSUME FlushAssumption ==
  /\ FlushLimit \in Nat \ {0}
  /\ ChunkLimit \in Nat \ {0}
  /\ Oversized \subseteq Requests
  /\ Unserved \subseteq Groups

VARIABLES
  fpc,           \* where the flush is
  fDead,         \* requests read whose model is retired, still to be failed
  fTodo,         \* requests read, still to be put in a batch
  fBatch,        \* the batch being submitted
  fChunk         \* its requests; while reverting, those still to revert

flushVars == <<fpc, fDead, fTodo, fBatch, fChunk>>

FlushPC == {"ready", "assign", "attempt", "submit", "record", "revert"}

FlushTypeOK ==
  /\ fpc \in FlushPC
  /\ fDead \in SUBSET Requests
  /\ fTodo \in SUBSET Requests
  /\ fBatch \in Batches \cup {NoBatch}
  /\ fChunk \in SUBSET Requests

FlushInit ==
  /\ fpc = "ready"
  /\ fDead = {}
  /\ fTodo = {}
  /\ fBatch = NoBatch
  /\ fChunk = {}

\* No flush is running: `flushing` is false.
FlushIdle == fpc = "ready" /\ fDead = {} /\ fTodo = {}

\* The flush returns, throws, or dies with the process.
FlushReset ==
  /\ fpc' = "ready"
  /\ fDead' = {}
  /\ fTodo' = {}
  /\ fBatch' = NoBatch
  /\ fChunk' = {}

-----------------------------------------------------------------------------
\* Requests of a snapshot that reach submitWithLegacyProvider with an adapter.
Submittable(S) == {r \in S \ Oversized : GroupOf[r] \notin retired \cup Unserved}

\* getQueuedRequests and the lifecycle lookups of preflightLifecycle
FlushRead ==
  /\ FlushIdle
  /\ LET read == QueuedRequests(FlushLimit) IN
       /\ read # {}
       /\ fDead' = {r \in read : GroupOf[r] \in retired}
       /\ fTodo' = Submittable(read)
  /\ UNCHANGED <<fpc, fBatch, fChunk, storeVars>>

\* preflightLifecycle: a request of a retired model fails for good
FlushRetire_SkipsOnly(r) ==    \* mutant: the request is skipped, not failed
  /\ fpc = "ready"
  /\ IsFirst(r, fDead)
  /\ fDead' = fDead \ {r}
  /\ UNCHANGED <<fpc, fTodo, fBatch, fChunk, storeVars>>

FlushRetire(r) ==
  /\ fpc = "ready"
  /\ IsFirst(r, fDead)
  /\ fDead' = fDead \ {r}
  /\ SetStatus(r, "failed_final")
  /\ UNCHANGED <<fpc, fTodo, fBatch, fChunk, result, batchVars, historyVars, faults, worldVars>>

\* groupRequests and splitByProviderLimits: the next chunk of group g
NextChunk(g) == Oldest({r \in fTodo : GroupOf[r] = g}, ChunkLimit)

\* write-before-submit: the batch row comes first
FlushCreate(g, b) ==
  /\ fpc = "ready"
  /\ fDead = {}
  /\ NextChunk(g) # {}
  /\ CreateBatch(b)
  /\ fBatch' = b
  /\ fChunk' = NextChunk(g)
  /\ fTodo' = fTodo \ NextChunk(g)
  /\ fpc' = "assign"
  /\ UNCHANGED <<fDead, requestVars, result, historyVars, faults, worldVars>>

FlushAssign_AllQueued ==    \* mutant: the UPDATE selects by status, not by id
  /\ fpc = "assign"
  /\ AssignBatch({r \in Requests : reqStatus[r] = "queued"}, fBatch)
  /\ fpc' = "attempt"
  /\ UNCHANGED <<fDead, fTodo, fBatch, fChunk, result, batchVars, historyVars, faults, worldVars>>

FlushAssign ==
  /\ fpc = "assign"
  /\ AssignBatch(fChunk, fBatch)
  /\ fpc' = "attempt"
  /\ UNCHANGED <<fDead, fTodo, fBatch, fChunk, result, batchVars, historyVars, faults, worldVars>>

FlushAttempt ==
  /\ fpc = "attempt"
  /\ SetAttempts(fBatch, 1)
  /\ fpc' = "submit"
  /\ UNCHANGED <<fDead, fTodo, fBatch, fChunk, requestVars, result, historyVars, faults, worldVars>>

FlushAccepted ==
  /\ fpc = "submit"
  /\ ProviderAccepts(fBatch, fChunk)
  /\ fpc' = "record"
  /\ UNCHANGED <<fDead, fTodo, fBatch, fChunk, requestVars, result, batchVars, faults, worldVars>>

\* adapter.submitBatch throws, with or without a job on the provider's side
FlushSubmitFails ==
  /\ fpc = "submit"
  /\ \/ Fault("rejected") /\ ProviderRejects(fBatch)
     \/ Fault("timed_out") /\ ProviderAccepts(fBatch, fChunk)
  /\ fpc' = "revert"
  /\ UNCHANGED <<fDead, fTodo, fBatch, fChunk, requestVars, result, batchVars, worldVars>>

FlushRecord ==
  /\ fpc = "record"
  /\ RecordSubmission(fBatch, fChunk)
  /\ fpc' = "ready"
  /\ fBatch' = NoBatch
  /\ fChunk' = {}
  /\ UNCHANGED <<fDead, fTodo, requestVars, result, historyVars, faults, worldVars>>

\* The same try block covers the final updateBatch.
FlushRecordFails ==
  /\ fpc = "record"
  /\ Fault("store")
  /\ fpc' = "revert"
  /\ UNCHANGED <<fDead, fTodo, fBatch, fChunk, requestVars, result, batchVars, historyVars, worldVars>>

\* catch: Promise.all of {batchId: null, status: 'queued'}, in any order
FlushRevert(r) ==
  /\ fpc = "revert"
  /\ r \in fChunk
  /\ Requeue(r, retryCount[r])
  /\ fChunk' = fChunk \ {r}
  /\ fpc' = IF fChunk = {r} THEN "ready" ELSE "revert"
  /\ fBatch' = IF fChunk = {r} THEN NoBatch ELSE fBatch
  /\ UNCHANGED <<fDead, fTodo, result, batchVars, historyVars, faults, worldVars>>

\* A database call outside the try block throws: the flush ends there.  In the
\* catch block this is a revert that fails, alone or with others of its chunk.
FlushThrows ==
  /\ ~FlushIdle
  /\ fpc \in {"ready", "assign", "attempt", "revert"}
  /\ Fault("store")
  /\ FlushReset
  /\ UNCHANGED <<requestVars, result, batchVars, historyVars, worldVars>>

FlushWork ==
  \/ FlushRead
  \/ \E r \in Requests : FlushRetire(r) \/ FlushRevert(r)
  \/ \E g \in Groups, b \in Batches : FlushCreate(g, b)
  \/ FlushAssign \/ FlushAttempt \/ FlushAccepted \/ FlushRecord

FlushNext == FlushWork \/ FlushSubmitFails \/ FlushRecordFails \/ FlushThrows
=============================================================================
