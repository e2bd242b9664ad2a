--------------------------- MODULE OrphanRecovery ---------------------------
(***************************************************************************)
(* engine/orphan-recovery.ts: the first half of every tick of the status   *)
(* tracker.  Pending batches without a provider reference that are older   *)
(* than the grace period are submitted again, or failed once their         *)
(* attempts are used up.  A step ends at each await; the rows of the       *)
(* snapshot are used until the scan ends.                                  *)
(*                                                                         *)
(* One tracker runs in the worker process and its `ticking` flag excludes  *)
(* a second scan, so the process-wide claim set is never contended and is  *)
(* not modelled.                                                           *)
(***************************************************************************)
EXTENDS NorushStore

VARIABLES
  tpc,           \* where the tick is
  tRows,         \* the rows of batches as the tick last read them
  tTodo,         \* the batches of that snapshot still to be looked at
  tBatch,        \* the batch being recovered
  tReqs          \* its requests, to submit or to fail

tickVars == <<tpc, tRows, tTodo, tBatch, tReqs>>

TickPC == {"idle", "recover", "gather", "resubmit", "record", "verdict",
           "fail", "failread", "failing", "poll"}

Row == [status : BatchStatus, attempts : 0..MaxAttempts, ref : SUBSET Requests]

NoRows == [b \in Batches |-> [status |-> "absent", attempts |-> 0, ref |-> {}]]

\* The rows a query returns, at the moment it runs.
RowsNow ==
  [b \in Batches |-> [status |-> batStatus[b], attempts |-> attempts[b], ref |-> batRef[b]]]

TickTypeOK ==
  /\ tpc \in TickPC
  /\ tRows \in [Batches -> Row]
  /\ tTodo \in SUBSET Batches
  /\ tBatch \in Batches \cup {NoBatch}
  /\ tReqs \in SUBSET Requests

TickInit ==
  /\ tpc = "idle"
  /\ tRows = NoRows
  /\ tTodo = {}
  /\ tBatch = NoBatch
  /\ tReqs = {}

\* The tick returns, throws, or dies with the process.
TickReset ==
  /\ tpc' = "idle"
  /\ tRows' = NoRows
  /\ tTodo' = {}
  /\ tBatch' = NoBatch
  /\ tReqs' = {}

-----------------------------------------------------------------------------
Orphans_NoGrace ==        \* mutant: the grace period is not waited for
  {b \in Batches : batStatus[b] = "pending" /\ batRef[b] = {}}

Orphans_Attempted ==      \* mutant: only batches that were tried once
  {b \in Batches : batStatus[b] = "pending" /\ batRef[b] = {} /\ aged[b] /\ attempts[b] > 0}

\* status = 'pending', providerBatchId = null, updatedAt before the cutoff
Orphans == {b \in Batches : batStatus[b] = "pending" /\ batRef[b] = {} /\ aged[b]}

\* getPendingBatches and the filters of the loop, which use the same rows
RecoverScan ==
  /\ tpc = "idle"
  /\ tRows' = RowsNow
  /\ tTodo' = Orphans
  /\ tpc' = "recover"
  /\ UNCHANGED <<tBatch, tReqs, storeVars>>

\* Mutant: the attempt is not counted.
RecoverAttempt_Uncounted(b) ==
  /\ tpc = "recover"
  /\ IsFirst(b, tTodo)
  /\ tRows[b].attempts < MaxAttempts
  /\ SetAttempts(b, tRows[b].attempts)
  /\ tTodo' = tTodo \ {b}
  /\ tBatch' = b
  /\ tpc' = "gather"
  /\ UNCHANGED <<tRows, tReqs, requestVars, result, historyVars, faults, worldVars>>

\* resubmit: one more attempt, counted from the snapshot
RecoverAttempt(b) ==
  /\ tpc = "recover"
  /\ IsFirst(b, tTodo)
  /\ tRows[b].attempts < MaxAttempts
  /\ SetAttempts(b, tRows[b].attempts + 1)
  /\ tTodo' = tTodo \ {b}
  /\ tBatch' = b
  /\ tpc' = "gather"
  /\ UNCHANGED <<tRows, tReqs, requestVars, result, historyVars, faults, worldVars>>

\* submissionAttempts >= maxSubmissionAttempts
RecoverExhausted(b) ==
  /\ tpc = "recover"
  /\ IsFirst(b, tTodo)
  /\ tRows[b].attempts >= MaxAttempts
  /\ tTodo' = tTodo \ {b}
  /\ tBatch' = b
  /\ tpc' = "fail"
  /\ UNCHANGED <<tRows, tReqs, storeVars>>

\* buildNorushRequests; a batch without requests is not submitted
RecoverGather ==
  /\ tpc = "gather"
  /\ tReqs' = RequestsOf(tBatch)
  /\ tpc' = IF tReqs' = {} THEN "verdict" ELSE "resubmit"
  /\ UNCHANGED <<tRows, tTodo, tBatch, storeVars>>

RecoverAccepted ==
  /\ tpc = "resubmit"
  /\ ProviderAccepts(tBatch, tReqs)
  /\ tpc' = "record"
  /\ UNCHANGED <<tRows, tTodo, tBatch, tReqs, requestVars, result, batchVars, faults, worldVars>>

RecoverSubmitFails ==
  /\ tpc = "resubmit"
  /\ \/ Fault("rejected") /\ ProviderRejects(tBatch)
     \/ Fault("timed_out") /\ ProviderAccepts(tBatch, tReqs)
  /\ tReqs' = {}
  /\ tpc' = "verdict"
  /\ UNCHANGED <<tRows, tTodo, tBatch, requestVars, result, batchVars, worldVars>>

RecoverRecord ==
  /\ tpc = "record"
  /\ RecordSubmission(tBatch, tReqs)
  /\ tReqs' = {}
  /\ tBatch' = NoBatch
  /\ tpc' = "recover"
  /\ UNCHANGED <<tRows, tTodo, requestVars, result, historyVars, faults, worldVars>>

\* The same try block covers the final updateBatch.
RecoverRecordFails ==
  /\ tpc = "record"
  /\ Fault("store")
  /\ tReqs' = {}
  /\ tpc' = "verdict"
  /\ UNCHANGED <<tRows, tTodo, tBatch, requestVars, result, batchVars, historyVars, worldVars>>

\* Not recovered: getBatch again, and give up when the attempts are used up.
RecoverVerdict ==
  /\ tpc = "verdict"
  /\ IF attempts[tBatch] >= MaxAttempts
       THEN tpc' = "fail" /\ UNCHANGED tBatch
       ELSE tpc' = "recover" /\ tBatch' = NoBatch
  /\ UNCHANGED <<tRows, tTodo, tReqs, storeVars>>

\* markOrphanFailed: the batch first
OrphanFail ==
  /\ tpc = "fail"
  /\ SetBatchStatus(tBatch, "failed")
  /\ tpc' = "failread"
  /\ UNCHANGED <<tRows, tTodo, tBatch, tReqs, requestVars, result, historyVars, faults, worldVars>>

OrphanFailRead ==
  /\ tpc = "failread"
  /\ tReqs' = RequestsOf(tBatch)
  /\ tpc' = IF tReqs' = {} THEN "recover" ELSE "failing"
  /\ tBatch' = IF tReqs' = {} THEN NoBatch ELSE tBatch
  /\ UNCHANGED <<tRows, tTodo, storeVars>>

\* ... then its requests, one after the other
OrphanFailRequest(r) ==
  /\ tpc = "failing"
  /\ IsFirst(r, tReqs)
  /\ SetStatus(r, "failed")
  /\ tReqs' = tReqs \ {r}
  /\ tpc' = IF tReqs = {r} THEN "recover" ELSE "failing"
  /\ tBatch' = IF tReqs = {r} THEN NoBatch ELSE tBatch
  /\ UNCHANGED <<tRows, tTodo, result, batchVars, historyVars, faults, worldVars>>

RecoverWork ==
  \/ RecoverScan
  \/ \E b \in Batches : RecoverAttempt(b) \/ RecoverExhausted(b)
  \/ RecoverGather \/ RecoverAccepted \/ RecoverRecord \/ RecoverVerdict
  \/ OrphanFail \/ OrphanFailRead
  \/ \E r \in Requests : OrphanFailRequest(r)
=============================================================================
