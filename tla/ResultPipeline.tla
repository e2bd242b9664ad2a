--------------------------- MODULE ResultPipeline ---------------------------
(***************************************************************************)
(* What norush.ts runs when a batch ends: the fire-and-forget handlers of  *)
(* batch:completed (ResultIngester.ingest, then Repackager.repackage) and  *)
(* of batch:expired (mark expired, then repackage).  A handler is volatile *)
(* and nothing waits for it, so handlers of several batches interleave     *)
(* with each other, with the flush and with the tracker.                   *)
(*                                                                         *)
(* Bound: a batch has one handler at a time (see StatusTracker).           *)
(***************************************************************************)
EXTENDS NorushStore

VARIABLES
  hpc,           \* where the handler of a batch is
  hTodo,         \* requests still to ingest, or still to mark expired
  hNow,          \* the result in hand: <<request, success>>
  hRows          \* rows still to repackage: <<request, retryCount as read>>

handlerVars == <<hpc, hTodo, hNow, hRows>>

HandlerPC == {"idle", "completed", "ingest", "status", "expired", "expiring",
              "repackage", "requeue"}

NoResult == <<0, FALSE>>

HandlerTypeOK ==
  /\ hpc \in [Batches -> HandlerPC]
  /\ hTodo \in [Batches -> SUBSET Requests]
  /\ hNow \in [Batches -> (Requests \cup {0}) \X BOOLEAN]
  /\ hRows \in [Batches -> SUBSET (Requests \X (0..MaxRetries))]

HandlerInit ==
  /\ hpc = [b \in Batches |-> "idle"]
  /\ hTodo = [b \in Batches |-> {}]
  /\ hNow = [b \in Batches |-> NoResult]
  /\ hRows = [b \in Batches |-> {}]

\* The process dies.
HandlerReset ==
  /\ hpc' = [b \in Batches |-> "idle"]
  /\ hTodo' = [b \in Batches |-> {}]
  /\ hNow' = [b \in Batches |-> NoResult]
  /\ hRows' = [b \in Batches |-> {}]

Goto(b, to) == hpc' = [hpc EXCEPT ![b] = to]

-----------------------------------------------------------------------------
(* ResultIngester.ingest *)

\* getBatch, then fetchResults(ref): one result per request of the job.
\* Without a reference ingest returns at once, as if the job were empty.
IngestStart(b) ==
  /\ hpc[b] = "completed"
  /\ hTodo' = [hTodo EXCEPT ![b] = batRef[b]]
  /\ Goto(b, "ingest")
  /\ UNCHANGED <<hNow, hRows, storeVars>>

\* The next result of the stream: createResult, or its duplicate error.
IngestResult(b, r, ok) ==
  /\ hpc[b] = "ingest"
  /\ r \in hTodo[b]
  /\ CreateResult(r, ok)
  /\ hTodo' = [hTodo EXCEPT ![b] = @ \ {r}]
  /\ hNow' = [hNow EXCEPT ![b] = <<r, ok>>]
  /\ Goto(b, "status")
  /\ UNCHANGED <<hRows, requestVars, batchVars, historyVars, faults, worldVars>>

\* updateRequest, on the normal path and on the duplicate path alike
IngestStatus(b) ==
  /\ hpc[b] = "status"
  /\ SetStatus(hNow[b][1], IF hNow[b][2] THEN "succeeded" ELSE "failed")
  /\ hNow' = [hNow EXCEPT ![b] = NoResult]
  /\ Goto(b, "ingest")
  /\ UNCHANGED <<hTodo, hRows, result, batchVars, historyVars, faults, worldVars>>

\* Mutant: any error of createResult is taken for a duplicate.
IngestSkips_AsDuplicate(b, r) ==
  /\ hpc[b] = "ingest"
  /\ r \in hTodo[b]
  /\ Fault("ingest")
  /\ hTodo' = [hTodo EXCEPT ![b] = @ \ {r}]
  /\ hNow' = [hNow EXCEPT ![b] = <<r, TRUE>>]
  /\ Goto(b, "status")
  /\ UNCHANGED <<hRows, requestVars, result, batchVars, historyVars, worldVars>>

\* createResult throws something else than a duplicate error: next result
IngestSkips(b, r) ==
  /\ hpc[b] = "ingest"
  /\ r \in hTodo[b]
  /\ Fault("ingest")
  /\ hTodo' = [hTodo EXCEPT ![b] = @ \ {r}]
  /\ UNCHANGED <<hpc, hNow, hRows, requestVars, result, batchVars, historyVars, worldVars>>

\* updateRequest throws after createResult: next result
IngestStatusFails(b) ==
  /\ hpc[b] = "status"
  /\ Fault("ingest")
  /\ hNow' = [hNow EXCEPT ![b] = NoResult]
  /\ Goto(b, "ingest")
  /\ UNCHANGED <<hTodo, hRows, requestVars, result, batchVars, historyVars, worldVars>>

\* The stream is exhausted (the batch's result counters are recomputed).
IngestDone(b) ==
  /\ hpc[b] = "ingest"
  /\ hTodo[b] = {}
  /\ Goto(b, "repackage")
  /\ UNCHANGED <<hTodo, hNow, hRows, storeVars>>

-----------------------------------------------------------------------------
(* batch:expired *)

\* getRequestsByBatchId and the filter on batched
ExpireRead(b) ==
  /\ hpc[b] = "expired"
  /\ hTodo' = [hTodo EXCEPT ![b] = {r \in RequestsOf(b) : reqStatus[r] = "batched"}]
  /\ Goto(b, IF hTodo'[b] = {} THEN "repackage" ELSE "expiring")
  /\ UNCHANGED <<hNow, hRows, storeVars>>

\* Promise.all of {status: 'expired'}, in any order
ExpireRequest(b, r) ==
  /\ hpc[b] = "expiring"
  /\ r \in hTodo[b]
  /\ SetStatus(r, "expired")
  /\ hTodo' = [hTodo EXCEPT ![b] = @ \ {r}]
  /\ Goto(b, IF hTodo[b] = {r} THEN "repackage" ELSE "expiring")
  /\ UNCHANGED <<hNow, hRows, result, batchVars, historyVars, faults, worldVars>>

-----------------------------------------------------------------------------
(* Repackager.repackage *)

Repackageable_All == {"batched", "succeeded", "failed", "expired"}  \* mutant: no filter

Repackageable == {"failed", "expired"}

RepackageRead(b) ==
  /\ hpc[b] = "repackage"
  /\ hRows' = [hRows EXCEPT ![b] =
                 {<<r, retryCount[r]>> :
                    r \in {q \in RequestsOf(b) : reqStatus[q] \in Repackageable}}]
  /\ Goto(b, IF hRows'[b] = {} THEN "idle" ELSE "requeue")
  /\ UNCHANGED <<hTodo, hNow, storeVars>>

RepackageRow_NoBudget(r, n) == Requeue(r, n + 1)    \* mutant: no upper limit

\* Mutant: the retry is not counted.
RepackageRow_Uncounted(r, n) ==
  \/ n < MaxRetries /\ Requeue(r, n)
  \/ n >= MaxRetries /\ SetStatus(r, "failed_final")

\* Mutant: the last retry is not made.
RepackageRow_OneShort(r, n) ==
  \/ n + 1 < MaxRetries /\ Requeue(r, n + 1)
  \/ n + 1 >= MaxRetries /\ SetStatus(r, "failed_final")

RepackageRow(r, n) ==
  \/ n < MaxRetries /\ Requeue(r, n + 1)
  \/ n >= MaxRetries /\ SetStatus(r, "failed_final")

RepackageRequest(b, row) ==
  /\ hpc[b] = "requeue"
  /\ row \in hRows[b] /\ \A other \in hRows[b] : row[1] <= other[1]
  /\ RepackageRow(row[1], row[2])
  /\ hRows' = [hRows EXCEPT ![b] = @ \ {row}]
  /\ Goto(b, IF hRows[b] = {row} THEN "idle" ELSE "requeue")
  /\ UNCHANGED <<hTodo, hNow, result, batchVars, historyVars, faults, worldVars>>

-----------------------------------------------------------------------------
\* The stream throws, or a database call outside the per-result try does:
\* the handler's own catch reports pipeline_error and nothing retries it.
HandlerThrows(b) ==
  /\ \/ hpc[b] \in {"completed", "ingest"} /\ Fault("stream")
     \/ hpc[b] \notin {"idle", "status"} /\ Fault("ingest")
  /\ Goto(b, "idle")
  /\ hTodo' = [hTodo EXCEPT ![b] = {}]
  /\ hNow' = [hNow EXCEPT ![b] = NoResult]
  /\ hRows' = [hRows EXCEPT ![b] = {}]
  /\ UNCHANGED <<requestVars, result, batchVars, historyVars, worldVars>>

HandlerWork(b) ==
  \/ IngestStart(b) \/ IngestStatus(b) \/ IngestDone(b)
  \/ \E r \in Requests, ok \in BOOLEAN : IngestResult(b, r, ok)
  \/ ExpireRead(b) \/ \E r \in Requests : ExpireRequest(b, r)
  \/ RepackageRead(b)
  \/ \E row \in Requests \X (0..MaxRetries) : RepackageRequest(b, row)

HandlerNext(b) ==
  \/ HandlerWork(b)
  \/ \E r \in Requests : IngestSkips(b, r)
  \/ IngestStatusFails(b)
  \/ HandlerThrows(b)
=============================================================================
