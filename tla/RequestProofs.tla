---------------------------- MODULE RequestProofs ----------------------------
(***************************************************************************)
(* What becomes of a request in Engine, for all values of the constants:   *)
(* it is in the job of its batch, its status and its batch agree, it is    *)
(* paid for as often as its row says, a success is final, and every step   *)
(* of the engine is one RequestLifecycle allows.                           *)
(***************************************************************************)
EXTENDS EngineProofs

USE DEF NoBatch

-----------------------------------------------------------------------------
(* The job of a batch, whether or not a provider call may outlast the      *)
(* grace period: only FlushAssign puts requests in a batch, and it does so *)
(* before anything is submitted.                                           *)

\* A batch that was not assigned yet is empty and was never submitted.
EmptyAtFirst ==
  \A b \in Batches :
    batStatus[b] = "absent" \/ (fpc = "assign" /\ fBatch = b) =>
      RequestsOf(b) = {} /\ batRef[b] = {}

\* What is submitted for a batch holds all of its requests.
SubmitsAll ==
  /\ fpc \in {"attempt", "submit", "record"} => RequestsOf(fBatch) \subseteq fChunk
  /\ tpc \in {"resubmit", "record"} => RequestsOf(tBatch) \subseteq tReqs

JobHoldsBatch == \A b \in Batches : batRef[b] # {} => RequestsOf(b) \subseteq batRef[b]

JobInv == EmptyAtFirst /\ SubmitsAll /\ JobHoldsBatch

LEMMA InitJob == Init => JobInv
BY IdAssumption
DEF Init, StoreInit, FlushInit, TickInit, JobInv, EmptyAtFirst, SubmitsAll, JobHoldsBatch,
    RequestsOf

\* No request enters a batch.
NoneEnters ==
  \A r \in Requests : reqBatch'[r] \in Batches => reqBatch'[r] = reqBatch[r]

\* What JobInv talks about, while requests only leave batches.
LEMMA JobFrame ==
  ASSUME SubmissionInv, JobInv, NoneEnters,
         UNCHANGED <<batStatus, batRef, fpc, fBatch, fChunk, tpc, tBatch, tReqs>>
  PROVE  JobInv'
<1>1. \A b \in Batches : RequestsOf(b)' \subseteq RequestsOf(b)
  BY DEF NoneEnters, RequestsOf
<1>2. EmptyAtFirst' /\ JobHoldsBatch'
  BY <1>1 DEF JobInv, EmptyAtFirst, JobHoldsBatch
<1>3. SubmitsAll'
  BY <1>1 DEF JobInv, SubmitsAll, SubmissionInv, FlushHolds, TickHolds
<1>4. QED
  BY <1>2, <1>3 DEF JobInv

LEMMA FlushJob ==
  ASSUME TypeOK, SubmissionInv, JobInv, Flush
  PROVE  JobInv'
<1> USE IdAssumption
    DEF Flush, TypeOK, StoreTypeOK, FlushTypeOK, TickTypeOK, JobInv, EmptyAtFirst, SubmitsAll,
        JobHoldsBatch, RequestsOf, SubmissionInv, FlushHolds, batchVars, requestVars, tickVars
<1>1. CASE FlushRead \/ \E r \in Requests : FlushRetire(r)
  BY <1>1, JobFrame DEF NoneEnters, FlushRead, FlushRetire, SetStatus, storeVars
<1>2. CASE \E r \in Requests : FlushRevert(r)
  <2>1. PICK r \in Requests : FlushRevert(r)
    BY <1>2
  <2>2. /\ reqBatch' = [reqBatch EXCEPT ![r] = NoBatch]
        /\ fpc = "revert" /\ fpc' \in {"ready", "revert"}
        /\ UNCHANGED <<batStatus, batRef, tpc, tBatch, tReqs>>
    BY <2>1 DEF FlushRevert, Requeue
  <2>3. \A b \in Batches : RequestsOf(b)' \subseteq RequestsOf(b)
    BY <2>2
  <2>4. QED
    BY <2>2, <2>3 DEF TickHolds
<1>3. CASE \E g \in Groups, b \in Batches : FlushCreate(g, b)
  BY <1>3 DEF FlushCreate, CreateBatch, IsFirst, TickHolds
<1>4. CASE FlushAssign
  BY <1>4 DEF FlushAssign, AssignBatch, TickHolds, FlushAlone
<1>5. CASE FlushAttempt
  BY <1>5 DEF FlushAttempt, SetAttempts
<1>6. CASE FlushAccepted \/ FlushSubmitFails \/ FlushRecordFails
  BY <1>6 DEF FlushAccepted, FlushSubmitFails, FlushRecordFails
<1>7. CASE FlushRecord
  BY <1>7 DEF FlushRecord, RecordSubmission
<1>8. CASE FlushThrows
  BY <1>8 DEF FlushThrows, FlushReset
<1>9. QED
  BY <1>1, <1>2, <1>3, <1>4, <1>5, <1>6, <1>7, <1>8 DEF FlushNext, FlushWork

LEMMA TickJob ==
  ASSUME TypeOK, SubmissionInv, JobInv, Tick
  PROVE  JobInv'
<1> USE IdAssumption
    DEF Tick, TypeOK, StoreTypeOK, FlushTypeOK, TickTypeOK, JobInv, EmptyAtFirst, SubmitsAll,
        JobHoldsBatch, RequestsOf, SubmissionInv, FlushAlone, TickHolds, batchVars, requestVars,
        flushVars
<1>1. CASE RecoverScan \/ \E b \in Batches : RecoverAttempt(b) \/ RecoverExhausted(b)
  BY <1>1 DEF RecoverScan, RecoverAttempt, RecoverExhausted, SetAttempts, storeVars
<1>2. CASE RecoverGather
  BY <1>2 DEF RecoverGather, storeVars
<1>3. CASE RecoverAccepted \/ RecoverSubmitFails \/ RecoverRecordFails \/ RecoverVerdict
  BY <1>3
  DEF RecoverAccepted, RecoverSubmitFails, RecoverRecordFails, RecoverVerdict, storeVars
<1>4. CASE RecoverRecord
  BY <1>4 DEF RecoverRecord, RecordSubmission
<1>5. CASE OrphanFail \/ OrphanFailRead \/ \E r \in Requests : OrphanFailRequest(r)
  BY <1>5
  DEF OrphanFail, OrphanFailRead, OrphanFailRequest, SetBatchStatus, SetStatus, storeVars
<1>6. CASE PollScan \/ TickDone \/ TickThrows \/ \E b \in Batches : PollSkips(b)
  BY <1>6 DEF PollScan, TickDone, TickThrows, TickReset, PollSkips, storeVars
<1>7. ASSUME NEW b \in Batches, NEW s \in Terminal \cup {"processing"}, PollSees(b, s)
      PROVE  JobInv'
  <2>1. /\ batStatus' = [batStatus EXCEPT ![b] = s]
        /\ UNCHANGED <<batRef, reqBatch, fpc, fBatch, fChunk, tpc, tBatch, tReqs>>
    BY <1>7 DEF PollSees, SetBatchStatus
  <2>2. s # "absent"
    BY DEF Terminal
  <2>3. QED
    BY <2>1, <2>2
<1>8. CASE \E b \in Batches : PollSees(b, "processing") \/ PollSeesEnd(b)
  <2>1. PICK b \in Batches : PollSees(b, "processing") \/ PollSeesEnd(b)
    BY <1>8
  <2>2. PICK s \in Terminal \cup {"processing"} : PollSees(b, s)
    BY <2>1, OutcomeAssumption DEF PollSeesEnd
  <2>3. QED
    BY <2>2, <1>7
<1>9. QED
  BY <1>1, <1>2, <1>3, <1>4, <1>5, <1>6, <1>8 DEF TickNext, TickWork, RecoverWork

LEMMA HandlerJob ==
  ASSUME TypeOK, SubmissionInv, JobInv, NEW b \in Batches, Handler(b)
  PROVE  JobInv'
<1>1. UNCHANGED <<batStatus, batRef, fpc, fBatch, fChunk, tpc, tBatch, tReqs>>
  BY DEF Handler, HandlerNext, HandlerWork, IngestStart, IngestResult, IngestStatus,
     IngestDone, IngestSkips, IngestStatusFails, ExpireRead, ExpireRequest,
     RepackageRead, RepackageRequest, HandlerThrows, storeVars, batchVars, flushVars, tickVars
<1>2. NoneEnters
  BY IdAssumption
  DEF NoneEnters, TypeOK, StoreTypeOK, Handler, HandlerNext, HandlerWork, IngestStart, IngestResult, IngestStatus,
     IngestDone, IngestSkips, IngestStatusFails, ExpireRead, ExpireRequest,
     RepackageRead, RepackageRequest, RepackageRow, HandlerThrows, SetStatus, Requeue,
     storeVars, requestVars
<1>3. QED
  BY <1>1, <1>2, JobFrame

LEMMA EnvironmentJob ==
  ASSUME TypeOK, SubmissionInv, JobInv, Environment
  PROVE  JobInv'
<1> USE IdAssumption DEF TypeOK, StoreTypeOK
<1>1. CASE ~Crash
  <2>1. UNCHANGED <<batStatus, batRef, fpc, fBatch, fChunk, tpc, tBatch, tReqs>>
    BY <1>1 DEF Environment, Enqueue, UserRetry, Retire, Age, batchVars, flushVars, tickVars
  <2>2. NoneEnters
    BY <1>1
    DEF NoneEnters, Environment, Enqueue, UserRetry, Retire, Age, SetStatus, Requeue, requestVars
  <2>3. QED
    BY <2>1, <2>2, JobFrame
<1>2. CASE Crash
  BY <1>2
  DEF Crash, FlushReset, TickReset, JobInv, EmptyAtFirst, SubmitsAll, JobHoldsBatch, RequestsOf,
      requestVars, batchVars
<1>3. QED
  BY <1>1, <1>2

LEMMA JobInductive == Spec => [](TypeOK /\ SubmissionInv /\ JobInv)
<1>1. TypeOK /\ SubmissionInv /\ JobInv /\ [Next]_vars => JobInv'
  <2> SUFFICES ASSUME TypeOK, SubmissionInv, JobInv, [Next]_vars
               PROVE  JobInv'
    OBVIOUS
  <2>1. CASE UNCHANGED vars
    BY <2>1, JobFrame DEF NoneEnters, vars, storeVars, requestVars, batchVars, flushVars, tickVars
  <2>2. CASE Next
    BY <2>2, FlushJob, TickJob, HandlerJob, EnvironmentJob DEF Next
  <2>3. QED
    BY <2>1, <2>2
<1>2. QED
  BY InitJob, <1>1, SubmissionInductive, PTL DEF Spec

\* A request that waits in a batch is in the job that is polled for the batch,
\* for any number of requests, crashes and failures, and also when two threads
\* submit the batch because a provider call outlasts the grace period.
THEOREM WaitingAlwaysInJob == Spec => []WaitingIsInJob
<1>1. JobInv => WaitingIsInJob
  BY DEF JobInv, JobHoldsBatch, RequestsOf, WaitingIsInJob
<1>2. QED
  BY JobInductive, <1>1, PTL

-----------------------------------------------------------------------------
(* The requests of a batch, while provider calls are shorter than the      *)
(* grace period.                                                           *)

\* A request that was never taken, or was given back, is in no batch; one that
\* was taken is in a batch that exists.
Placed ==
  \A r \in Requests :
    /\ reqStatus[r] \in {"absent", "queued"} => reqBatch[r] = NoBatch
    /\ reqStatus[r] \in {"batched", "failed", "expired", "succeeded"} => reqBatch[r] # NoBatch
    /\ reqBatch[r] # NoBatch => batStatus[reqBatch[r]] # "absent"

\* The requests of batch b all wait.
AllWait(b) == \A r \in RequestsOf(b) : reqStatus[r] = "batched"

\* Nothing was decided of the requests of a batch that is not over, and the
\* provider's job is exactly that batch.
OpenBatches ==
  \A b \in Batches :
    /\ batStatus[b] = "pending" => AllWait(b)
    /\ b \in InFlight => AllWait(b) /\ batRef[b] = RequestsOf(b)

\* The flush holds queued requests, each once, or exactly the requests of
\* its batch.
FlushHand ==
  /\ \A r \in fDead \cup fTodo : reqStatus[r] = "queued"
  /\ fDead \cap fTodo = {}
  /\ fpc = "assign" => \A r \in fChunk : reqStatus[r] = "queued" /\ r \notin fDead \cup fTodo
  /\ fpc \in {"attempt", "submit", "record", "revert"} => RequestsOf(fBatch) = fChunk

\* Recovery holds the requests of its batch, and fails those that wait.
TickHand ==
  /\ tpc \in {"resubmit", "record"} => RequestsOf(tBatch) = tReqs
  /\ tpc = "failread" => batStatus[tBatch] = "failed" /\ AllWait(tBatch)
  /\ tpc = "failing" =>
       /\ batStatus[tBatch] = "failed"
       /\ \A r \in tReqs : reqBatch[r] = tBatch /\ reqStatus[r] = "batched"

\* A handler works on a batch that is over: at first all of its requests wait;
\* those it has still to decide do; the rows it repackages are current.
HandlerHand(b) ==
  /\ hpc[b] # "idle" => batStatus[b] \in {"ended", "expired"}
  /\ hpc[b] = "completed" => AllWait(b) /\ batRef[b] = RequestsOf(b)
  /\ hpc[b] \in {"ingest", "status", "expiring"} =>
       \A r \in hTodo[b] : reqBatch[r] = b /\ reqStatus[r] = "batched"
  /\ hpc[b] = "status" =>
       LET r == hNow[b][1] IN
         r \in Requests \ hTodo[b] /\ reqBatch[r] = b /\ reqStatus[r] = "batched"
  /\ hpc[b] = "requeue" =>
       \A row \in hRows[b] :
         /\ reqBatch[row[1]] = b /\ reqStatus[row[1]] \in {"failed", "expired"}
         /\ row[2] = retryCount[row[1]]

HandlerHands == \A b \in Batches : HandlerHand(b)

RequestInv == Placed /\ OpenBatches /\ FlushHand /\ TickHand /\ HandlerHands

LEMMA InitRequest == Init => RequestInv
BY IdAssumption
DEF Init, StoreInit, FlushInit, TickInit, HandlerInit, RequestInv, Placed, OpenBatches,
    FlushHand, TickHand, HandlerHands, HandlerHand, AllWait, RequestsOf, InFlight

LEMMA RequestFrame ==
  ASSUME RequestInv,
         UNCHANGED <<requestVars, batStatus, batRef, fDead, fTodo, fpc, fBatch, fChunk,
                     tpc, tBatch, tReqs, handlerVars>>
  PROVE  RequestInv'
BY DEF RequestInv, Placed, OpenBatches, FlushHand, TickHand, HandlerHands, HandlerHand,
       AllWait, RequestsOf, InFlight, requestVars, handlerVars

\* A new batch is empty, and its chunk is queued.
LEMMA CreateRequest ==
  ASSUME TypeOK, SubmissionInv, JobInv, RequestInv,
         NEW g \in Groups, NEW b \in Batches, FlushCreate(g, b), UNCHANGED <<tickVars, handlerVars>>
  PROVE  RequestInv'
<1>1. NextChunk(g) \subseteq fTodo
  BY OldestSubset DEF NextChunk
<1>2. /\ fpc = "ready" /\ fpc' = "assign" /\ fBatch' = b
      /\ fChunk' = NextChunk(g) /\ fTodo' = fTodo \ NextChunk(g)
      /\ batStatus[b] = "absent" /\ batStatus' = [batStatus EXCEPT ![b] = "pending"]
      /\ fDead = {}
      /\ UNCHANGED <<batRef, requestVars, fDead, tpc, tBatch, tReqs, handlerVars>>
  BY DEF FlushCreate, CreateBatch, IsFirst, tickVars
<1>3. /\ RequestsOf(b) = {}
      /\ batStatus'[b] = "pending"
      /\ \A c \in Batches : c # b => batStatus'[c] = batStatus[c]
      /\ \A c \in Batches : RequestsOf(c)' = RequestsOf(c)
  BY <1>2 DEF TypeOK, StoreTypeOK, JobInv, EmptyAtFirst, RequestsOf, requestVars
<1>4. Placed'
  BY <1>2, <1>3 DEF TypeOK, StoreTypeOK, RequestInv, Placed, requestVars
<1>5. OpenBatches'
  BY <1>2, <1>3 DEF RequestInv, OpenBatches, AllWait, InFlight, requestVars
<1>6. FlushHand'
  BY <1>1, <1>2 DEF TypeOK, FlushTypeOK, RequestInv, FlushHand, requestVars
<1>7. TickHand'
  BY <1>2, <1>3, IdAssumption
  DEF RequestInv, TickHand, SubmissionInv, TickHolds, AllWait, requestVars
<1>8. HandlerHands'
  BY <1>2, <1>3 DEF RequestInv, HandlerHands, HandlerHand, AllWait, requestVars, handlerVars
<1>9. QED
  BY <1>4, <1>5, <1>6, <1>7, <1>8 DEF RequestInv

\* A chunk of queued requests enters an empty batch that nobody else holds.
LEMMA AssignRequest ==
  ASSUME TypeOK, SubmissionInv, JobInv, RequestInv, FlushAssign,
         UNCHANGED <<tickVars, handlerVars>>
  PROVE  RequestInv'
<1>1. /\ fpc = "assign" /\ fpc' = "attempt"
      /\ fBatch \in Batches /\ batStatus[fBatch] = "pending" /\ fBatch # tBatch
      /\ RequestsOf(fBatch) = {} /\ fChunk \subseteq Requests
      /\ reqStatus' = [r \in Requests |-> IF r \in fChunk THEN "batched" ELSE reqStatus[r]]
      /\ reqBatch' = [r \in Requests |-> IF r \in fChunk THEN fBatch ELSE reqBatch[r]]
      /\ UNCHANGED <<retryCount, fDead, fTodo, fBatch, fChunk, batStatus, batRef,
                     tpc, tBatch, tReqs, handlerVars>>
  BY IdAssumption
  DEF FlushAssign, AssignBatch, tickVars, batchVars, TypeOK, FlushTypeOK, SubmissionInv,
      FlushHolds, FlushAlone, JobInv, EmptyAtFirst
<1>2. \A r \in fChunk : reqStatus[r] = "queued" /\ reqBatch[r] = NoBatch /\ r \notin fDead \cup fTodo
  BY <1>1 DEF RequestInv, FlushHand, Placed
<1>3. \A r \in Requests : r \notin fChunk => reqStatus'[r] = reqStatus[r] /\ reqBatch'[r] = reqBatch[r]
  BY <1>1
<1>4. \A r \in fChunk : reqStatus'[r] = "batched" /\ reqBatch'[r] = fBatch
  BY <1>1
<1>5. RequestsOf(fBatch)' = fChunk
  BY <1>1, <1>3, <1>4 DEF RequestsOf
<1>6. \A b \in Batches : b # fBatch =>
        /\ RequestsOf(b)' = RequestsOf(b)
        /\ \A r \in RequestsOf(b) : r \notin fChunk
  <2> SUFFICES ASSUME NEW b \in Batches, b # fBatch
               PROVE  /\ RequestsOf(b)' = RequestsOf(b)
                      /\ \A r \in RequestsOf(b) : r \notin fChunk
    OBVIOUS
  <2>1. \A r \in fChunk : reqBatch[r] # b
    BY <1>2, IdAssumption
  <2>2. \A r \in Requests : reqBatch'[r] = b <=> reqBatch[r] = b
    BY <2>1, <1>3, <1>4
  <2>3. QED
    BY <2>1, <2>2 DEF RequestsOf
<1>7. Placed'
  BY <1>1, <1>3, <1>4, IdAssumption DEF RequestInv, Placed
<1>8. OpenBatches'
  BY <1>1, <1>3, <1>4, <1>5, <1>6 DEF RequestInv, OpenBatches, AllWait, InFlight, RequestsOf
<1>9. FlushHand'
  BY <1>1, <1>2, <1>3, <1>5 DEF RequestInv, FlushHand, TypeOK, FlushTypeOK
<1>10. TickHand'
  BY <1>1, <1>2, <1>3, <1>6, IdAssumption
  DEF RequestInv, TickHand, AllWait, SubmissionInv, TickHolds, TypeOK, TickTypeOK, RequestsOf
<1>11. HandlerHands'
  <2> SUFFICES ASSUME NEW b \in Batches PROVE HandlerHand(b)'
    BY DEF HandlerHands
  <2>1. HandlerHand(b)
    BY DEF RequestInv, HandlerHands
  <2>2. CASE b = fBatch
    BY <1>1, <2>1, <2>2 DEF HandlerHand, handlerVars
  <2>3. CASE b # fBatch
    <3>1. \A r \in Requests : reqBatch[r] = b => reqStatus'[r] = reqStatus[r] /\ reqBatch'[r] = b
      BY <1>3, <1>6, <2>3 DEF RequestsOf
    <3>2. \A r \in hTodo[b] : r \in Requests
      BY DEF TypeOK, HandlerTypeOK
    <3>3. \A row \in hRows[b] : row[1] \in Requests
      BY DEF TypeOK, HandlerTypeOK
    <3>4. QED
      BY <1>1, <1>6, <2>1, <2>3, <3>1, <3>2, <3>3 DEF HandlerHand, AllWait, RequestsOf, handlerVars
  <2>4. QED
    BY <2>2, <2>3
<1>12. QED
  BY <1>7, <1>8, <1>9, <1>10, <1>11 DEF RequestInv

LEMMA FlushRequest ==
  ASSUME TypeOK, SubmissionInv, OwnerInv, JobInv, RequestInv, Flush
  PROVE  RequestInv'
<1> USE IdAssumption
    DEF Flush, TypeOK, StoreTypeOK, FlushTypeOK, TickTypeOK, HandlerTypeOK,
        RequestInv, Placed, OpenBatches, FlushHand, TickHand, HandlerHands, HandlerHand,
        AllWait, RequestsOf, InFlight, SubmissionInv, FlushHolds, TickHolds, OwnerInv,
        FlushOwns, JobInv, EmptyAtFirst, batchVars, requestVars, tickVars, handlerVars
<1>1. CASE FlushRead
  BY <1>1, OldestSubset DEF FlushRead, FlushIdle, QueuedRequests, Submittable, storeVars
<1>2. CASE \E r \in Requests : FlushRetire(r)
  BY <1>2 DEF FlushRetire, SetStatus, IsFirst
<1>3. CASE \E r \in Requests : FlushRevert(r)
  BY <1>3 DEF FlushRevert, Requeue
<1>4. CASE \E g \in Groups, b \in Batches : FlushCreate(g, b)
  BY <1>4, CreateRequest
<1>5. CASE FlushAssign
  BY <1>5, AssignRequest
<1>6. CASE FlushAttempt
  BY <1>6 DEF FlushAttempt, SetAttempts
<1>7. CASE FlushAccepted \/ FlushSubmitFails \/ FlushRecordFails
  <2>1. /\ fpc \in {"submit", "record"} /\ fpc' \in {"record", "revert"}
        /\ UNCHANGED <<requestVars, batStatus, batRef, fDead, fTodo, fBatch, fChunk, tickVars,
                       handlerVars>>
    BY <1>7 DEF FlushAccepted, FlushSubmitFails, FlushRecordFails
  <2>2. QED
    BY <2>1
<1>8. CASE FlushRecord
  BY <1>8 DEF FlushRecord, RecordSubmission
<1>9. CASE FlushThrows
  BY <1>9 DEF FlushThrows, FlushReset
<1>10. QED
  BY <1>1, <1>2, <1>3, <1>4, <1>5, <1>6, <1>7, <1>8, <1>9 DEF FlushNext, FlushWork

-----------------------------------------------------------------------------
\* A batch whose result is decided, one way or another.
IsOver(b) == batStatus[b] \in {"failed", "ended", "expired"}

\* Request r of a batch that is over gets a verdict, or is queued again; the
\* other requests stay as they are.
OneDecided(r, b) ==
  /\ reqBatch[r] = b
  /\ reqStatus[r] \in {"batched", "failed", "expired"}
  /\ \A q \in Requests \ {r} :
       reqStatus'[q] = reqStatus[q] /\ reqBatch'[q] = reqBatch[q] /\ retryCount'[q] = retryCount[q]
  /\ \/ reqStatus'[r] = "queued" /\ reqBatch'[r] = NoBatch
     \/ reqStatus'[r] \in {"succeeded", "failed", "expired", "failed_final"} /\ reqBatch'[r] = b

\* The decision concerns nobody but the one who takes it: the flush holds
\* queued requests or a pending batch, recovery another batch.
LEMMA DecideRequest ==
  ASSUME TypeOK, SubmissionInv, OwnerInv, RequestInv,
         NEW b \in Batches, NEW r \in Requests, IsOver(b), OneDecided(r, b),
         UNCHANGED <<batStatus, batRef, flushVars>>
  PROVE  /\ Placed' /\ OpenBatches' /\ FlushHand'
         /\ UNCHANGED <<tpc, tBatch, tReqs>> /\ tBatch # b => TickHand'
         /\ \A c \in Batches \ {b} :
              hpc'[c] = hpc[c] /\ hTodo'[c] = hTodo[c] /\ hNow'[c] = hNow[c] /\ hRows'[c] = hRows[c]
                => HandlerHand(c)'
<1>1. \A c \in Batches \ {b} :
        /\ r \notin RequestsOf(c)
        /\ RequestsOf(c)' = RequestsOf(c)
        /\ AllWait(c) => AllWait(c)'
  BY IdAssumption DEF OneDecided, RequestsOf, AllWait
<1>2. Placed'
  BY DEF TypeOK, StoreTypeOK, OneDecided, RequestInv, Placed, IsOver
<1>3. OpenBatches'
  BY <1>1 DEF RequestInv, OpenBatches, InFlight, IsOver
<1>4. r \notin fDead \cup fTodo /\ (fpc = "assign" => r \notin fChunk)
  BY DEF RequestInv, FlushHand, OneDecided
<1>5. fpc # "ready" => fBatch \in Batches \ {b}
  BY DEF SubmissionInv, FlushHolds, OwnerInv, FlushOwns, IsOver
<1>6. FlushHand'
  BY <1>1, <1>4, <1>5
  DEF TypeOK, FlushTypeOK, RequestInv, FlushHand, OneDecided, flushVars
<1>7. ASSUME UNCHANGED <<tpc, tBatch, tReqs>>, tBatch # b
      PROVE  TickHand'
  <2>1. tpc \in {"resubmit", "record", "failread", "failing"} => tBatch \in Batches \ {b}
    BY <1>7 DEF SubmissionInv, TickHolds
  <2>2. tpc = "failing" => r \notin tReqs
    BY <1>7 DEF RequestInv, TickHand, OneDecided
  <2>3. QED
    BY <1>1, <1>7, <2>1, <2>2
    DEF RequestInv, TickHand, OneDecided, TypeOK, TickTypeOK
<1>8. ASSUME NEW c \in Batches \ {b},
             hpc'[c] = hpc[c], hTodo'[c] = hTodo[c], hNow'[c] = hNow[c], hRows'[c] = hRows[c]
      PROVE  HandlerHand(c)'
  <2>1. HandlerHand(c)
    BY DEF RequestInv, HandlerHands
  <2>2. \A q \in Requests : reqBatch[q] = c =>
          reqBatch'[q] = c /\ reqStatus'[q] = reqStatus[q] /\ retryCount'[q] = retryCount[q]
    BY DEF OneDecided
  <2>3. hTodo[c] \subseteq Requests /\ \A row \in hRows[c] : row[1] \in Requests
    BY DEF TypeOK, HandlerTypeOK
  <2>4. QED
    BY <1>1, <1>8, <2>1, <2>2, <2>3 DEF HandlerHand
<1>9. QED
  BY <1>2, <1>3, <1>6, <1>7, <1>8

\* A poll sees how a batch it holds is doing: only then does a handler start.
LEMMA SeesRequest ==
  ASSUME TypeOK, SubmissionInv, OwnerInv, RequestInv, UNCHANGED flushVars,
         NEW b \in Batches, NEW s \in Terminal \cup {"processing"}, PollSees(b, s)
  PROVE  RequestInv'
<1>1. /\ tpc = "poll" /\ b \in InFlight
      /\ batStatus' = [batStatus EXCEPT ![b] = s]
      /\ UNCHANGED <<requestVars, batRef, flushVars, tpc, tBatch, tReqs, hTodo, hNow, hRows>>
      /\ \A c \in Batches \ {b} : hpc'[c] = hpc[c]
      /\ \/ s = "ended" /\ hpc'[b] = "completed"
         \/ s = "expired" /\ hpc'[b] = "expired"
         \/ s \notin {"ended", "expired"} /\ hpc'[b] = hpc[b]
  BY DEF PollSees, SetBatchStatus, Emit, Goto, IsFirst, OwnerInv, TickOwns, TypeOK,
         HandlerTypeOK
<1>2. s \notin {"absent", "pending"} /\ batStatus'[b] = s
  BY <1>1 DEF Terminal, TypeOK, StoreTypeOK
<1>3. \A c \in Batches \ {b} : batStatus'[c] = batStatus[c]
  BY <1>1 DEF TypeOK, StoreTypeOK
<1>4. AllWait(b) /\ batRef[b] = RequestsOf(b) /\ hpc[b] = "idle"
  BY <1>1 DEF RequestInv, OpenBatches, HandlerHands, HandlerHand, InFlight
<1>5. Placed'
  BY <1>1, <1>2, <1>3 DEF TypeOK, StoreTypeOK, RequestInv, Placed, requestVars
<1>6. OpenBatches'
  BY <1>1, <1>2, <1>3, <1>4 DEF RequestInv, OpenBatches, AllWait, RequestsOf, InFlight, requestVars
<1>7. FlushHand' /\ TickHand'
  BY <1>1 DEF RequestInv, FlushHand, TickHand, RequestsOf, requestVars, flushVars
<1>8. HandlerHands'
  <2> SUFFICES ASSUME NEW c \in Batches PROVE HandlerHand(c)'
    BY DEF HandlerHands
  <2>1. HandlerHand(c)
    BY DEF RequestInv, HandlerHands
  <2>2. CASE c # b
    BY <1>1, <1>3, <2>1, <2>2 DEF HandlerHand, AllWait, RequestsOf, requestVars
  <2>3. CASE c = b
    BY <1>1, <1>2, <1>4, <2>3 DEF HandlerHand, AllWait, RequestsOf, requestVars
  <2>4. QED
    BY <2>2, <2>3
<1>9. QED
  BY <1>5, <1>6, <1>7, <1>8 DEF RequestInv

LEMMA TickRequest ==
  ASSUME TypeOK, SubmissionInv, OwnerInv, RequestInv, Tick
  PROVE  RequestInv'
<1>0. UNCHANGED flushVars
  BY DEF Tick
<1>1. CASE \/ PollScan \/ TickDone \/ TickThrows
           \/ /\ \/ RecoverScan \/ RecoverVerdict \/ RecoverSubmitFails \/ RecoverRecordFails
                 \/ \E b \in Batches : RecoverAttempt(b) \/ RecoverExhausted(b)
              /\ UNCHANGED handlerVars
           \/ \E b \in Batches : PollSkips(b)
  <2>1. /\ UNCHANGED <<requestVars, batStatus, batRef, flushVars, handlerVars>>
        /\ tpc' \notin {"resubmit", "record", "failread", "failing"}
    BY <1>0, <1>1
    DEF PollScan, TickDone, TickThrows, TickReset, RecoverScan, RecoverVerdict,
        RecoverSubmitFails, RecoverRecordFails, RecoverAttempt, RecoverExhausted, PollSkips,
        SetAttempts, storeVars, batchVars
  <2>2. QED
    BY <2>1
    DEF RequestInv, Placed, OpenBatches, FlushHand, TickHand, HandlerHands, HandlerHand,
        AllWait, RequestsOf, InFlight, requestVars, flushVars, handlerVars
<1>2. CASE (RecoverGather \/ RecoverAccepted) /\ UNCHANGED handlerVars
  <2>1. /\ UNCHANGED <<requestVars, batStatus, batRef, flushVars, handlerVars, tBatch>>
        /\ \/ tpc' \in {"verdict", "resubmit"} /\ tReqs' = RequestsOf(tBatch)
           \/ tpc = "resubmit" /\ tpc' = "record" /\ tReqs' = tReqs
    BY <1>0, <1>2 DEF RecoverGather, RecoverAccepted, storeVars, batchVars
  <2>2. QED
    BY <2>1
    DEF RequestInv, Placed, OpenBatches, FlushHand, TickHand, HandlerHands, HandlerHand,
        AllWait, RequestsOf, InFlight, requestVars, flushVars, handlerVars
<1>3. CASE RecoverRecord /\ UNCHANGED handlerVars
  <2>1. /\ tBatch \in Batches /\ batStatus[tBatch] = "pending" /\ tReqs = RequestsOf(tBatch)
        /\ UNCHANGED <<requestVars, flushVars, handlerVars>>
        /\ batStatus' = [batStatus EXCEPT ![tBatch] = "submitted"]
        /\ batRef' = [batRef EXCEPT ![tBatch] = tReqs]
        /\ tpc' = "recover"
    BY <1>0, <1>3
    DEF RecoverRecord, RecordSubmission, SubmissionInv, TickHolds, OwnerInv, TickOwns,
        RequestInv, TickHand
  <2>2. AllWait(tBatch)
    BY <2>1 DEF RequestInv, OpenBatches
  <2>3. \A b \in Batches : hpc[b] # "idle" => b # tBatch
    BY <2>1 DEF RequestInv, HandlerHands, HandlerHand
  <2>4. Placed' /\ FlushHand' /\ TickHand'
    BY <2>1
    DEF TypeOK, StoreTypeOK, RequestInv, Placed, FlushHand, TickHand, RequestsOf, requestVars,
        flushVars
  <2>5. OpenBatches'
    BY <2>1, <2>2
    DEF TypeOK, StoreTypeOK, RequestInv, OpenBatches, AllWait, RequestsOf, InFlight, requestVars
  <2>6. HandlerHands'
    BY <2>1, <2>3
    DEF TypeOK, StoreTypeOK, RequestInv, HandlerHands, HandlerHand, AllWait, RequestsOf,
        requestVars, handlerVars
  <2>7. QED
    BY <2>4, <2>5, <2>6 DEF RequestInv
<1>4. CASE OrphanFail /\ UNCHANGED handlerVars
  <2>1. /\ tBatch \in Batches /\ batStatus[tBatch] = "pending"
        /\ UNCHANGED <<requestVars, flushVars, handlerVars, batRef, tBatch, tReqs>>
        /\ batStatus' = [batStatus EXCEPT ![tBatch] = "failed"]
        /\ tpc' = "failread"
    BY <1>0, <1>4 DEF OrphanFail, SetBatchStatus, SubmissionInv, TickHolds, OwnerInv, TickOwns
  <2>2. AllWait(tBatch)
    BY <2>1 DEF RequestInv, OpenBatches
  <2>3. \A b \in Batches : hpc[b] # "idle" => b # tBatch
    BY <2>1 DEF RequestInv, HandlerHands, HandlerHand
  <2>4. Placed' /\ FlushHand' /\ TickHand' /\ OpenBatches'
    BY <2>1, <2>2
    DEF TypeOK, StoreTypeOK, RequestInv, Placed, FlushHand, TickHand, OpenBatches, AllWait,
        RequestsOf, InFlight, requestVars, flushVars
  <2>5. HandlerHands'
    BY <2>1, <2>3
    DEF TypeOK, StoreTypeOK, RequestInv, HandlerHands, HandlerHand, AllWait, RequestsOf,
        requestVars, handlerVars
  <2>6. QED
    BY <2>4, <2>5 DEF RequestInv
<1>5. CASE OrphanFailRead /\ UNCHANGED handlerVars
  <2>1. /\ tBatch \in Batches /\ batStatus[tBatch] = "failed" /\ AllWait(tBatch)
        /\ UNCHANGED <<requestVars, flushVars, handlerVars, batStatus, batRef>>
        /\ \/ tpc' = "recover"
           \/ tpc' = "failing" /\ tReqs' = RequestsOf(tBatch) /\ tBatch' = tBatch
    BY <1>0, <1>5
    DEF OrphanFailRead, storeVars, batchVars, SubmissionInv, TickHolds, RequestInv, TickHand
  <2>2. TickHand'
    BY <2>1 DEF TickHand, AllWait, RequestsOf, requestVars
  <2>3. Placed' /\ OpenBatches' /\ FlushHand' /\ HandlerHands'
    BY <2>1
    DEF RequestInv, Placed, OpenBatches, FlushHand, HandlerHands, HandlerHand,
        AllWait, RequestsOf, InFlight, requestVars, flushVars, handlerVars
  <2>4. QED
    BY <2>2, <2>3 DEF RequestInv
<1>6. ASSUME NEW r \in Requests, OrphanFailRequest(r), UNCHANGED handlerVars
      PROVE  RequestInv'
  <2>0. /\ tpc = "failing" /\ r \in tReqs
        /\ reqStatus' = [reqStatus EXCEPT ![r] = "failed"]
        /\ UNCHANGED <<reqBatch, retryCount, batStatus, batRef>>
        /\ tReqs' = tReqs \ {r}
        /\ \/ tpc' = "recover"
           \/ tpc' = "failing" /\ tBatch' = tBatch
    BY <1>6 DEF OrphanFailRequest, SetStatus, IsFirst, batchVars
  <2>1. /\ tBatch \in Batches /\ batStatus[tBatch] = "failed" /\ tReqs \subseteq Requests
        /\ \A q \in tReqs : reqBatch[q] = tBatch /\ reqStatus[q] = "batched"
    BY <2>0 DEF SubmissionInv, TickHolds, RequestInv, TickHand, TypeOK, TickTypeOK
  <2>2. IsOver(tBatch) /\ OneDecided(r, tBatch)
    BY <2>0, <2>1 DEF IsOver, OneDecided, TypeOK, StoreTypeOK
  <2>3. TickHand'
    BY <2>0, <2>1 DEF TickHand, TypeOK, StoreTypeOK
  <2>4. /\ Placed' /\ OpenBatches' /\ FlushHand'
        /\ \A c \in Batches \ {tBatch} : HandlerHand(c)'
    BY <1>0, <1>6, <2>0, <2>1, <2>2, DecideRequest DEF handlerVars
  <2>5. ASSUME NEW c \in Batches, c = tBatch
        PROVE  HandlerHand(c)'
    <3>1. hpc[c] = "idle"
      BY <2>1, <2>5 DEF RequestInv, HandlerHands, HandlerHand
    <3>2. QED
      BY <3>1, <1>6 DEF HandlerHand, handlerVars
  <2>6. QED
    BY <2>3, <2>4, <2>5 DEF RequestInv, HandlerHands
<1>7. CASE \E b \in Batches : PollSees(b, "processing") \/ PollSeesEnd(b)
  <2>1. PICK b \in Batches : PollSees(b, "processing") \/ PollSeesEnd(b)
    BY <1>7
  <2>2. PICK s \in Terminal \cup {"processing"} : PollSees(b, s)
    BY <2>1, OutcomeAssumption DEF PollSeesEnd
  <2>3. QED
    BY <2>2, <1>0, SeesRequest
<1>8. QED
  BY <1>1, <1>2, <1>3, <1>4, <1>5, <1>6, <1>7 DEF Tick, TickNext, TickWork, RecoverWork

\* A step of the handler of b touches no other handler.
LEMMA HandlerOfOne ==
  ASSUME HandlerTypeOK, NEW b \in Batches, HandlerNext(b)
  PROVE  \A c \in Batches \ {b} :
           hpc'[c] = hpc[c] /\ hTodo'[c] = hTodo[c] /\ hNow'[c] = hNow[c] /\ hRows'[c] = hRows[c]
BY DEF HandlerTypeOK, HandlerNext, HandlerWork, IngestStart, IngestResult, IngestStatus,
       IngestDone, IngestSkips, IngestStatusFails, ExpireRead, ExpireRequest,
       RepackageRead, RepackageRequest, HandlerThrows, Goto

\* A handler that decides no request.
LEMMA HandlerKeepsRequest ==
  ASSUME TypeOK, RequestInv, NEW b \in Batches, HandlerNext(b), HandlerHand(b)',
         UNCHANGED <<requestVars, batStatus, batRef, flushVars, tickVars>>
  PROVE  RequestInv'
<1>1. Placed' /\ OpenBatches' /\ FlushHand' /\ TickHand'
  BY DEF RequestInv, Placed, OpenBatches, FlushHand, TickHand, AllWait, RequestsOf, InFlight,
         requestVars, flushVars, tickVars
<1>2. ASSUME NEW c \in Batches \ {b} PROVE HandlerHand(c)'
  BY HandlerOfOne
  DEF TypeOK, RequestInv, HandlerHands, HandlerHand, AllWait, RequestsOf, requestVars
<1>3. QED
  BY <1>1, <1>2 DEF RequestInv, HandlerHands

\* A handler that decides request r of its batch.
LEMMA HandlerDecides ==
  ASSUME TypeOK, SubmissionInv, OwnerInv, RequestInv, NEW b \in Batches, NEW r \in Requests,
         HandlerNext(b), hpc[b] # "idle", OneDecided(r, b), HandlerHand(b)',
         UNCHANGED <<batStatus, batRef, flushVars, tickVars>>
  PROVE  RequestInv'
<1>1. IsOver(b) /\ batStatus[b] # "failed"
  BY DEF RequestInv, HandlerHands, HandlerHand, IsOver
<1>2. /\ Placed' /\ OpenBatches' /\ FlushHand'
      /\ UNCHANGED <<tpc, tBatch, tReqs>> /\ tBatch # b => TickHand'
      /\ \A c \in Batches \ {b} : HandlerHand(c)'
  BY <1>1, HandlerOfOne, DecideRequest DEF TypeOK
<1>3. TickHand'
  <2>1. CASE tBatch # b
    BY <1>2, <2>1 DEF tickVars
  <2>2. CASE tBatch = b
    BY <1>1, <2>2
    DEF TickHand, OwnerInv, TickOwns, RequestInv, IsOver, tickVars
  <2>3. QED
    BY <2>1, <2>2
<1>4. QED
  BY <1>2, <1>3 DEF RequestInv, HandlerHands

LEMMA HandlerRequest ==
  ASSUME TypeOK, SubmissionInv, OwnerInv, RequestInv, NEW b \in Batches, Handler(b)
  PROVE  RequestInv'
<1>1. HandlerNext(b) /\ UNCHANGED <<flushVars, tickVars>>
  BY DEF Handler
<1>2. HandlerHand(b)
  BY DEF RequestInv, HandlerHands
<1>3. CASE \/ IngestStart(b) \/ IngestDone(b) \/ IngestStatusFails(b) \/ HandlerThrows(b)
           \/ \E r \in Requests : IngestSkips(b, r)
  <2>1. UNCHANGED <<requestVars, batStatus, batRef>>
    BY <1>3
    DEF IngestStart, IngestDone, IngestStatusFails, HandlerThrows, IngestSkips, storeVars, batchVars
  <2>2. HandlerHand(b)'
    BY <1>2, <1>3
    DEF IngestStart, IngestDone, IngestStatusFails, HandlerThrows, IngestSkips, Goto,
        storeVars, batchVars, requestVars, HandlerHand, AllWait, RequestsOf, TypeOK, HandlerTypeOK
  <2>3. QED
    BY <1>1, <2>1, <2>2, HandlerKeepsRequest
<1>4. ASSUME NEW r \in Requests, NEW ok \in BOOLEAN, IngestResult(b, r, ok)
      PROVE  RequestInv'
  <2>1. /\ hpc[b] = "ingest" /\ hpc'[b] = "status" /\ r \in hTodo[b]
        /\ hTodo'[b] = hTodo[b] \ {r} /\ hNow'[b] = <<r, ok>>
        /\ UNCHANGED <<requestVars, batStatus, batRef>>
    BY <1>4 DEF IngestResult, Goto, batchVars, TypeOK, HandlerTypeOK
  <2>2. HandlerHand(b)'
    BY <1>2, <2>1 DEF HandlerHand, requestVars
  <2>3. QED
    BY <1>1, <2>1, <2>2, HandlerKeepsRequest
<1>5. CASE IngestStatus(b)
  <2> DEFINE r == hNow[b][1]
  <2>1. /\ hpc[b] = "status" /\ hpc'[b] = "ingest" /\ r \in Requests \ hTodo[b]
        /\ reqBatch[r] = b /\ reqStatus[r] = "batched"
        /\ UNCHANGED <<hTodo, reqBatch, retryCount, batStatus, batRef>>
        /\ \E s \in {"succeeded", "failed"} : reqStatus' = [reqStatus EXCEPT ![r] = s]
    BY <1>2, <1>5
    DEF IngestStatus, SetStatus, Goto, HandlerHand, batchVars, TypeOK, HandlerTypeOK
  <2>2. OneDecided(r, b)
    BY <2>1 DEF OneDecided, TypeOK, StoreTypeOK
  <2>3. HandlerHand(b)'
    BY <1>2, <2>1 DEF HandlerHand, TypeOK, StoreTypeOK, HandlerTypeOK
  <2> HIDE DEF r
  <2>4. QED
    BY <1>1, <2>1, <2>2, <2>3, HandlerDecides
<1>6. CASE ExpireRead(b)
  <2>1. /\ hpc[b] = "expired" /\ hpc'[b] \in {"repackage", "expiring"}
        /\ hTodo'[b] = {r \in RequestsOf(b) : reqStatus[r] = "batched"}
        /\ UNCHANGED <<requestVars, batStatus, batRef>>
    BY <1>6 DEF ExpireRead, Goto, storeVars, batchVars, TypeOK, HandlerTypeOK
  <2>2. HandlerHand(b)'
    BY <1>2, <2>1 DEF HandlerHand, RequestsOf, requestVars
  <2>3. QED
    BY <1>1, <2>1, <2>2, HandlerKeepsRequest
<1>7. ASSUME NEW r \in Requests, ExpireRequest(b, r)
      PROVE  RequestInv'
  <2>1. /\ hpc[b] = "expiring" /\ hpc'[b] \in {"repackage", "expiring"}
        /\ r \in hTodo[b] /\ hTodo'[b] = hTodo[b] \ {r}
        /\ UNCHANGED <<reqBatch, retryCount, batStatus, batRef>>
        /\ reqStatus' = [reqStatus EXCEPT ![r] = "expired"]
    BY <1>7 DEF ExpireRequest, SetStatus, Goto, batchVars, TypeOK, HandlerTypeOK
  <2>2. reqBatch[r] = b /\ reqStatus[r] = "batched"
    BY <1>2, <2>1 DEF HandlerHand
  <2>3. OneDecided(r, b)
    BY <2>1, <2>2 DEF OneDecided, TypeOK, StoreTypeOK
  <2>4. HandlerHand(b)'
    BY <1>2, <2>1 DEF HandlerHand, TypeOK, StoreTypeOK, HandlerTypeOK
  <2>5. QED
    BY <1>1, <2>1, <2>3, <2>4, HandlerDecides
<1>8. CASE RepackageRead(b)
  <2>1. /\ hpc[b] = "repackage" /\ hpc'[b] \in {"idle", "requeue"}
        /\ hRows'[b] = {<<r, retryCount[r]>> :
                          r \in {q \in RequestsOf(b) : reqStatus[q] \in Repackageable}}
        /\ UNCHANGED <<requestVars, batStatus, batRef>>
    BY <1>8 DEF RepackageRead, Goto, storeVars, batchVars, TypeOK, HandlerTypeOK
  <2>2. HandlerHand(b)'
    BY <1>2, <2>1 DEF HandlerHand, RequestsOf, Repackageable, requestVars
  <2>3. QED
    BY <1>1, <2>1, <2>2, HandlerKeepsRequest
<1>9. ASSUME NEW row \in Requests \X (0..MaxRetries), RepackageRequest(b, row)
      PROVE  RequestInv'
  <2> DEFINE r == row[1]
  <2>1. /\ hpc[b] = "requeue" /\ hpc'[b] \in {"idle", "requeue"} /\ r \in Requests
        /\ row \in hRows[b] /\ hRows'[b] = hRows[b] \ {row}
        /\ UNCHANGED <<batStatus, batRef>>
        /\ RepackageRow(r, row[2])
    BY <1>9 DEF RepackageRequest, Goto, batchVars, TypeOK, HandlerTypeOK
  <2>2. reqBatch[r] = b /\ reqStatus[r] \in {"failed", "expired"} /\ row[2] = retryCount[r]
    BY <1>2, <2>1 DEF HandlerHand
  <2>3. OneDecided(r, b)
    BY <2>1, <2>2, IdAssumption DEF OneDecided, RepackageRow, Requeue, SetStatus, TypeOK, StoreTypeOK
  <2>4. \A other \in hRows[b] \ {row} : other[1] \in Requests \ {r}
    <3>1. \A other \in hRows[b] :
            other \in Requests \X (0..MaxRetries) /\ other[2] = retryCount[other[1]]
      BY <1>2, <2>1 DEF HandlerHand, TypeOK, HandlerTypeOK
    <3>2. QED
      BY <2>1, <3>1
  <2>5. HandlerHand(b)'
    BY <1>2, <2>1, <2>3, <2>4 DEF HandlerHand, OneDecided
  <2> HIDE DEF r
  <2>6. QED
    BY <1>1, <2>1, <2>3, <2>5, HandlerDecides
<1>10. QED
  BY <1>1, <1>3, <1>4, <1>5, <1>6, <1>7, <1>8, <1>9 DEF HandlerNext, HandlerWork

\* Only a request that nobody holds is submitted, or asked for again.
LEMMA EnvironmentRequest ==
  ASSUME TypeOK, SubmissionInv, OwnerInv, RequestInv, Environment
  PROVE  RequestInv'
<1>1. CASE \/ \E g \in Groups : Retire(g)
           \/ \E b \in Batches : Age(b)
  BY <1>1, RequestFrame
  DEF Retire, Age, requestVars, batchVars, flushVars, tickVars, handlerVars
<1>2. CASE Crash
  BY <1>2
  DEF Crash, FlushReset, TickReset, HandlerReset, RequestInv, Placed, OpenBatches, FlushHand,
      TickHand, HandlerHands, HandlerHand, AllWait, RequestsOf, InFlight, requestVars, batchVars
<1>3. ASSUME NEW r \in Requests, Enqueue(r) \/ UserRetry(r)
      PROVE  RequestInv'
  <2>1. /\ reqStatus[r] \in {"absent", "failed_final"}
        /\ reqStatus'[r] = "queued" /\ reqBatch'[r] = NoBatch
        /\ \A q \in Requests \ {r} :
             reqStatus'[q] = reqStatus[q] /\ reqBatch'[q] = reqBatch[q] /\ retryCount'[q] = retryCount[q]
        /\ UNCHANGED <<batStatus, batRef, flushVars, tickVars, handlerVars>>
    BY <1>3
    DEF Enqueue, UserRetry, SetStatus, Requeue, IsFirst, batchVars, TypeOK, StoreTypeOK,
        RequestInv, Placed
  <2>2. \A b \in Batches : AllWait(b) => RequestsOf(b)' = RequestsOf(b) /\ AllWait(b)'
    BY <2>1, IdAssumption DEF AllWait, RequestsOf
  <2>3. fpc # "ready" => batStatus[fBatch] = "pending" /\ fBatch \in Batches
    BY DEF SubmissionInv, FlushHolds, OwnerInv, FlushOwns
  <2>4. tpc \in {"resubmit", "record"} => batStatus[tBatch] = "pending"
    BY DEF OwnerInv, TickOwns
  <2>5. tpc \in {"resubmit", "record", "failread", "failing"} => tBatch \in Batches
    BY DEF SubmissionInv, TickHolds
  <2>6. Placed'
    BY <2>1 DEF RequestInv, Placed
  <2>7. OpenBatches'
    BY <2>1, <2>2 DEF RequestInv, OpenBatches, InFlight
  <2>8. FlushHand'
    BY <2>1, <2>2, <2>3
    DEF RequestInv, OpenBatches, FlushHand, flushVars, TypeOK, FlushTypeOK
  <2>9. TickHand'
    BY <2>1, <2>2, <2>4, <2>5
    DEF RequestInv, OpenBatches, TickHand, tickVars, TypeOK, TickTypeOK
  <2>10. HandlerHands'
    <3> SUFFICES ASSUME NEW b \in Batches PROVE HandlerHand(b)'
      BY DEF HandlerHands
    <3>1. HandlerHand(b)
      BY DEF RequestInv, HandlerHands
    <3>2. hTodo[b] \subseteq Requests /\ \A row \in hRows[b] : row[1] \in Requests
      BY DEF TypeOK, HandlerTypeOK
    <3>3. QED
      BY <2>1, <2>2, <3>1, <3>2 DEF HandlerHand, handlerVars
  <2>11. QED
    BY <2>6, <2>7, <2>8, <2>9, <2>10 DEF RequestInv
<1>4. QED
  BY <1>1, <1>2, <1>3 DEF Environment

LEMMA RequestInductive ==
  ASSUME ~SlowSubmit
  PROVE  Spec => [](TypeOK /\ SubmissionInv /\ OwnerInv /\ JobInv /\ RequestInv)
<1>1. TypeOK /\ SubmissionInv /\ OwnerInv /\ JobInv /\ RequestInv /\ [Next]_vars => RequestInv'
  <2> SUFFICES ASSUME TypeOK, SubmissionInv, OwnerInv, JobInv, RequestInv, [Next]_vars
               PROVE  RequestInv'
    OBVIOUS
  <2>1. CASE UNCHANGED vars
    BY <2>1, RequestFrame DEF vars, storeVars, batchVars, flushVars, tickVars
  <2>2. CASE Next
    BY <2>2, FlushRequest, TickRequest, HandlerRequest, EnvironmentRequest DEF Next
  <2>3. QED
    BY <2>1, <2>2
<1>2. QED
  BY InitRequest, <1>1, OwnerInductive, JobInductive, PTL DEF Spec

\* The status and the batch of a request agree at all times: what is queued is
\* in no batch, and what waits for a result or failed is in a batch that
\* exists, where recovery and the handlers look for it.
THEOREM AssignmentAlwaysMatches ==
  ASSUME ~SlowSubmit
  PROVE  Spec => []AssignmentMatchesStatus
<1>1. RequestInv => AssignmentMatchesStatus
  BY DEF RequestInv, Placed, AssignmentMatchesStatus
<1>2. QED
  BY <1>1, RequestInductive, PTL

-----------------------------------------------------------------------------
(* What was paid *)

\* The submissions a request's retries, and the troubles so far, account for.
Paid(r) == retryCount[r] + faults + crashes

\* The provider has taken batch b and its reference is not written yet.
Unrecorded(b) == (fpc = "record" /\ fBatch = b) \/ (tpc = "record" /\ tBatch = b)

\* Batch b waits for a submission.
ToSubmit(b) == batStatus[b] = "pending" /\ ~Unrecorded(b)

\* Request r is still to be submitted, in a batch or in the queue.
Unpaid(r) ==
  \/ reqStatus[r] \in {"absent", "queued"}
  \/ \E b \in Batches : reqBatch[r] = b /\ ToSubmit(b)

PaidFor(r) == jobs[r] <= 1 + Paid(r) /\ (Unpaid(r) => jobs[r] <= Paid(r))

PaidInv == \A r \in Requests : PaidFor(r)

LEMMA InitPaid == Init => PaidInv
BY LimitAssumption
DEF Init, StoreInit, PaidInv, PaidFor, Paid

LEMMA PaidType ==
  ASSUME TypeOK, NEW r \in Requests
  PROVE  Paid(r) \in Nat /\ jobs[r] \in Nat
BY LimitAssumption DEF TypeOK, StoreTypeOK, Paid

LEMMA PaidTypeNext ==
  ASSUME TypeOK', NEW r \in Requests
  PROVE  Paid(r)' \in Nat /\ jobs'[r] \in Nat
BY LimitAssumption DEF TypeOK, StoreTypeOK, Paid

\* No submission is made, and none becomes due.
LEMMA PaidKept ==
  ASSUME TypeOK, TypeOK', NEW r \in Requests, PaidFor(r),
         jobs'[r] <= jobs[r], Paid(r)' >= Paid(r), Unpaid(r)' => Unpaid(r)
  PROVE  PaidFor(r)'
BY PaidType, PaidTypeNext DEF PaidFor

\* A submission, or a submission that becomes due, comes with a retry or trouble.
LEMMA PaidMore ==
  ASSUME TypeOK, TypeOK', NEW r \in Requests, PaidFor(r),
         jobs'[r] <= jobs[r] \/ (Unpaid(r) /\ jobs'[r] <= jobs[r] + 1), Paid(r)' >= Paid(r) + 1
  PROVE  PaidFor(r)'
BY PaidType, PaidTypeNext DEF PaidFor

\* A submission that was due is made.
LEMMA PaidNow ==
  ASSUME TypeOK, TypeOK', NEW r \in Requests, PaidFor(r), Unpaid(r), ~Unpaid(r)',
         jobs'[r] <= jobs[r] + 1, Paid(r)' >= Paid(r)
  PROVE  PaidFor(r)'
BY PaidType, PaidTypeNext DEF PaidFor

\* The same for all requests, when only a fault is counted.
LEMMA PaidTrouble ==
  ASSUME TypeOK, TypeOK', PaidInv, UNCHANGED <<jobs, retryCount>>,
         \/ faults' = faults + 1 /\ crashes' = crashes
         \/ faults' = faults /\ crashes' = crashes + 1
  PROVE  PaidInv'
<1> SUFFICES ASSUME NEW r \in Requests PROVE PaidFor(r)'
  BY DEF PaidInv
<1>1. Paid(r)' >= Paid(r) + 1 /\ jobs'[r] <= jobs[r]
  BY LimitAssumption DEF Paid, TypeOK, StoreTypeOK
<1>2. QED
  BY <1>1, PaidMore DEF PaidInv

LEMMA PaidFrame ==
  ASSUME TypeOK, TypeOK', PaidInv, UNCHANGED <<jobs, retryCount, faults, crashes>>,
         \A r \in Requests : Unpaid(r)' => Unpaid(r)
  PROVE  PaidInv'
<1> SUFFICES ASSUME NEW r \in Requests PROVE PaidFor(r)'
  BY DEF PaidInv
<1>1. Paid(r)' >= Paid(r) /\ jobs'[r] <= jobs[r]
  BY LimitAssumption DEF Paid, TypeOK, StoreTypeOK
<1>2. QED
  BY <1>1, PaidKept DEF PaidInv

\* The requests in the hands of a thread about to submit them are due, those of
\* another batch are not concerned.
LEMMA FlushDue ==
  ASSUME SubmissionInv, OwnerInv, RequestInv, fpc \in {"submit", "revert"}
  PROVE  \A r \in fChunk : r \in Requests /\ reqBatch[r] = fBatch /\ Unpaid(r)
BY DEF SubmissionInv, FlushHolds, OwnerInv, FlushOwns, RequestInv, FlushHand, RequestsOf,
       Unpaid, ToSubmit, Unrecorded

LEMMA TickDue ==
  ASSUME SubmissionInv, OwnerInv, RequestInv, tpc = "resubmit"
  PROVE  \A r \in tReqs : r \in Requests /\ reqBatch[r] = tBatch /\ Unpaid(r)
<1>1. tBatch \in Batches /\ batStatus[tBatch] = "pending" /\ RequestsOf(tBatch) = tReqs
  BY DEF SubmissionInv, TickHolds, OwnerInv, TickOwns, RequestInv, TickHand
<1>2. fpc # "ready" => fBatch # tBatch
  BY DEF OwnerInv, FlushOwns
<1>3. QED
  BY <1>1, <1>2 DEF RequestsOf, Unpaid, ToSubmit, Unrecorded

LEMMA FlushPaid ==
  ASSUME TypeOK, TypeOK', SubmissionInv, OwnerInv, RequestInv, PaidInv, Flush
  PROVE  PaidInv'
<1>0. UNCHANGED tickVars
  BY DEF Flush
<1>1. CASE FlushRead
  BY <1>0, <1>1, PaidFrame
  DEF FlushRead, storeVars, requestVars, batchVars, historyVars, worldVars, tickVars,
      Unpaid, ToSubmit, Unrecorded
<1>2. ASSUME NEW r \in Requests, FlushRetire(r)
      PROVE  PaidInv'
  BY <1>0, <1>2, PaidFrame
  DEF FlushRetire, SetStatus, batchVars, historyVars, worldVars, tickVars, Unpaid, ToSubmit,
      Unrecorded, TypeOK, StoreTypeOK
<1>3. ASSUME NEW g \in Groups, NEW b \in Batches, FlushCreate(g, b)
      PROVE  PaidInv'
  <2>1. /\ batStatus[b] = "absent" /\ fpc = "ready" /\ fpc' = "assign"
        /\ batStatus' = [batStatus EXCEPT ![b] = "pending"]
        /\ UNCHANGED <<requestVars, historyVars, faults, worldVars, tickVars>>
    BY <1>0, <1>3 DEF FlushCreate, CreateBatch, IsFirst
  <2>2. \A r \in Requests : reqBatch[r] # b
    BY <2>1, IdAssumption DEF RequestInv, Placed
  <2>3. \A r \in Requests : Unpaid(r)' => Unpaid(r)
    BY <2>1, <2>2
    DEF Unpaid, ToSubmit, Unrecorded, requestVars, tickVars, TypeOK, StoreTypeOK
  <2>4. QED
    BY <2>1, <2>3, PaidFrame DEF requestVars, historyVars, worldVars
<1>4. CASE FlushAssign
  <2>1. \A r \in fChunk : reqStatus[r] = "queued"
    BY <1>4 DEF RequestInv, FlushHand, FlushAssign
  <2>2. QED
    BY <1>0, <1>4, <2>1, PaidFrame
    DEF FlushAssign, AssignBatch, batchVars, historyVars, worldVars, tickVars, Unpaid,
        ToSubmit, Unrecorded
<1>5. CASE FlushAttempt
  BY <1>0, <1>5, PaidFrame
  DEF FlushAttempt, SetAttempts, requestVars, historyVars, worldVars, tickVars, Unpaid,
      ToSubmit, Unrecorded
<1>6. CASE FlushAccepted
  <2> SUFFICES ASSUME NEW r \in Requests PROVE PaidFor(r)'
    BY DEF PaidInv
  <2>1. /\ fpc = "submit" /\ fpc' = "record"
        /\ jobs'[r] = IF r \in fChunk THEN jobs[r] + 1 ELSE jobs[r]
        /\ UNCHANGED <<fBatch, fChunk, requestVars, batStatus, faults, crashes, tickVars>>
    BY <1>0, <1>6 DEF FlushAccepted, ProviderAccepts, batchVars, worldVars
  <2>2. Paid(r)' = Paid(r)
    BY <2>1 DEF Paid, requestVars
  <2>3. CASE r \in fChunk
    <3>1. ~Unpaid(r)'
      <4>1. AllWait(fBatch) /\ reqBatch[r] = fBatch
        BY <2>1, <2>3, FlushDue
        DEF SubmissionInv, FlushHolds, OwnerInv, FlushOwns, RequestInv, OpenBatches
      <4>2. QED
        BY <2>1, <4>1 DEF AllWait, RequestsOf, Unpaid, ToSubmit, Unrecorded, requestVars
    <3>2. QED
      BY <2>1, <2>2, <2>3, <3>1, FlushDue, PaidNow, PaidType DEF PaidInv
  <2>4. CASE r \notin fChunk
    <3>1. Unpaid(r)' => Unpaid(r)
      BY <2>1 DEF Unpaid, ToSubmit, Unrecorded, requestVars, tickVars
    <3>2. QED
      BY <2>1, <2>2, <2>4, <3>1, PaidKept, PaidType DEF PaidInv
  <2>5. QED
    BY <2>3, <2>4
<1>7. CASE FlushSubmitFails
  <2> SUFFICES ASSUME NEW r \in Requests PROVE PaidFor(r)'
    BY DEF PaidInv
  <2>1. /\ fpc = "submit" /\ faults' = faults + 1
        /\ jobs'[r] = jobs[r] \/ (r \in fChunk /\ jobs'[r] = jobs[r] + 1)
        /\ UNCHANGED <<retryCount, crashes>>
    BY <1>7
    DEF FlushSubmitFails, ProviderAccepts, ProviderRejects, Fault, requestVars, worldVars
  <2>2. Paid(r)' >= Paid(r) + 1
    BY <2>1, LimitAssumption DEF Paid, TypeOK, StoreTypeOK
  <2>3. QED
    BY <2>1, <2>2, FlushDue, PaidMore, PaidType DEF PaidInv
<1>8. CASE FlushRecord
  <2>1. /\ fpc = "record" /\ fpc' = "ready" /\ batStatus'[fBatch] = "submitted"
        /\ \A b \in Batches \ {fBatch} : batStatus'[b] = batStatus[b]
        /\ UNCHANGED <<requestVars, jobs, faults, crashes, tickVars>>
    BY <1>0, <1>8
    DEF FlushRecord, RecordSubmission, historyVars, worldVars, TypeOK, StoreTypeOK,
        SubmissionInv, FlushHolds
  <2>2. \A r \in Requests : Unpaid(r)' => Unpaid(r)
    BY <2>1 DEF Unpaid, ToSubmit, Unrecorded, requestVars, tickVars
  <2>3. QED
    BY <2>1, <2>2, PaidFrame DEF requestVars
<1>9. CASE FlushRecordFails \/ FlushThrows
  BY <1>9, PaidTrouble
  DEF FlushRecordFails, FlushThrows, Fault, requestVars, historyVars, worldVars
<1>10. ASSUME NEW r \in Requests, FlushRevert(r)
       PROVE  PaidInv'
  <2>1. /\ Unpaid(r)
        /\ \A q \in Requests \ {r} : reqStatus'[q] = reqStatus[q] /\ reqBatch'[q] = reqBatch[q]
        /\ retryCount' = retryCount
        /\ fpc = "revert" /\ fpc' # "record"
        /\ UNCHANGED <<batStatus, jobs, faults, crashes, tickVars>>
    BY <1>0, <1>10, FlushDue
    DEF FlushRevert, Requeue, batchVars, historyVars, worldVars, TypeOK, StoreTypeOK
  <2>2. \A q \in Requests : Unpaid(q)' => Unpaid(q)
    BY <2>1 DEF Unpaid, ToSubmit, Unrecorded, tickVars
  <2>3. QED
    BY <2>1, <2>2, PaidFrame
<1>11. QED
  BY <1>1, <1>2, <1>3, <1>4, <1>5, <1>6, <1>7, <1>8, <1>9, <1>10
  DEF Flush, FlushNext, FlushWork

LEMMA TickPaid ==
  ASSUME TypeOK, TypeOK', SubmissionInv, OwnerInv, RequestInv, PaidInv, Tick
  PROVE  PaidInv'
<1>0. UNCHANGED flushVars
  BY DEF Tick
<1>1. CASE \/ RecoverScan \/ RecoverGather \/ RecoverVerdict \/ OrphanFailRead
           \/ PollScan \/ TickDone
           \/ \E b \in Batches : RecoverAttempt(b) \/ RecoverExhausted(b) \/ PollSkips(b)
  <2>1. /\ UNCHANGED <<requestVars, batStatus, jobs, faults, crashes, flushVars>>
        /\ tpc # "record"
    BY <1>0, <1>1
    DEF RecoverScan, RecoverGather, RecoverVerdict, OrphanFailRead, PollScan, TickDone,
        RecoverAttempt, RecoverExhausted, PollSkips, SetAttempts, storeVars, batchVars,
        historyVars, worldVars
  <2>2. \A r \in Requests : Unpaid(r)' => Unpaid(r)
    BY <2>1 DEF Unpaid, ToSubmit, Unrecorded, requestVars, flushVars
  <2>3. QED
    BY <2>1, <2>2, PaidFrame DEF requestVars
<1>2. CASE TickThrows \/ RecoverRecordFails
  BY <1>2, PaidTrouble
  DEF TickThrows, RecoverRecordFails, Fault, requestVars, historyVars, worldVars
<1>3. CASE RecoverSubmitFails
  <2> SUFFICES ASSUME NEW r \in Requests PROVE PaidFor(r)'
    BY DEF PaidInv
  <2>1. /\ tpc = "resubmit" /\ faults' = faults + 1
        /\ jobs'[r] = jobs[r] \/ (r \in tReqs /\ jobs'[r] = jobs[r] + 1)
        /\ UNCHANGED <<retryCount, crashes>>
    BY <1>3
    DEF RecoverSubmitFails, ProviderAccepts, ProviderRejects, Fault, requestVars, worldVars
  <2>2. Paid(r)' >= Paid(r) + 1
    BY <2>1, LimitAssumption DEF Paid, TypeOK, StoreTypeOK
  <2>3. QED
    BY <2>1, <2>2, TickDue, PaidMore, PaidType DEF PaidInv
<1>4. CASE RecoverAccepted
  <2> SUFFICES ASSUME NEW r \in Requests PROVE PaidFor(r)'
    BY DEF PaidInv
  <2>1. /\ tpc = "resubmit" /\ tpc' = "record"
        /\ jobs'[r] = IF r \in tReqs THEN jobs[r] + 1 ELSE jobs[r]
        /\ UNCHANGED <<tBatch, tReqs, requestVars, batStatus, faults, crashes, flushVars>>
    BY <1>0, <1>4 DEF RecoverAccepted, ProviderAccepts, batchVars, worldVars
  <2>2. Paid(r)' = Paid(r)
    BY <2>1 DEF Paid, requestVars
  <2>3. CASE r \in tReqs
    <3>1. ~Unpaid(r)'
      <4>1. AllWait(tBatch) /\ reqBatch[r] = tBatch
        BY <2>1, <2>3, TickDue
        DEF SubmissionInv, TickHolds, OwnerInv, TickOwns, RequestInv, OpenBatches
      <4>2. QED
        BY <2>1, <4>1 DEF AllWait, RequestsOf, Unpaid, ToSubmit, Unrecorded, requestVars
    <3>2. QED
      BY <2>1, <2>2, <2>3, <3>1, TickDue, PaidNow, PaidType DEF PaidInv
  <2>4. CASE r \notin tReqs
    <3>1. Unpaid(r)' => Unpaid(r)
      BY <2>1 DEF Unpaid, ToSubmit, Unrecorded, requestVars, flushVars
    <3>2. QED
      BY <2>1, <2>2, <2>4, <3>1, PaidKept, PaidType DEF PaidInv
  <2>5. QED
    BY <2>3, <2>4
<1>5. CASE RecoverRecord \/ OrphanFail
  <2>1. /\ tpc' # "record" /\ batStatus'[tBatch] # "pending"
        /\ \A b \in Batches \ {tBatch} : batStatus'[b] = batStatus[b]
        /\ UNCHANGED <<requestVars, jobs, faults, crashes, flushVars>>
    BY <1>0, <1>5
    DEF RecoverRecord, RecordSubmission, OrphanFail, SetBatchStatus, historyVars, worldVars,
        TypeOK, StoreTypeOK, SubmissionInv, TickHolds
  <2>2. \A r \in Requests : Unpaid(r)' => Unpaid(r)
    BY <2>1 DEF Unpaid, ToSubmit, Unrecorded, requestVars, flushVars
  <2>3. QED
    BY <2>1, <2>2, PaidFrame DEF requestVars
<1>6. ASSUME NEW r \in Requests, OrphanFailRequest(r)
      PROVE  PaidInv'
  <2>1. /\ reqStatus' = [reqStatus EXCEPT ![r] = "failed"]
        /\ tpc = "failing"
        /\ UNCHANGED <<reqBatch, retryCount, batStatus, jobs, faults, crashes, flushVars>>
    BY <1>0, <1>6 DEF OrphanFailRequest, SetStatus, batchVars, historyVars, worldVars
  <2>2. \A q \in Requests : Unpaid(q)' => Unpaid(q)
    BY <2>1 DEF Unpaid, ToSubmit, Unrecorded, flushVars, TypeOK, StoreTypeOK
  <2>3. QED
    BY <2>1, <2>2, PaidFrame
<1>7. ASSUME NEW b \in Batches, NEW s \in Terminal \cup {"processing"}, PollSees(b, s)
      PROVE  PaidInv'
  <2>1. /\ batStatus' = [batStatus EXCEPT ![b] = s] /\ s # "pending" /\ tpc = "poll"
        /\ UNCHANGED <<requestVars, jobs, faults, crashes, flushVars>>
    BY <1>0, <1>7 DEF PollSees, SetBatchStatus, historyVars, worldVars, Terminal
  <2>2. \A q \in Requests : Unpaid(q)' => Unpaid(q)
    BY <2>1 DEF Unpaid, ToSubmit, Unrecorded, requestVars, flushVars, TypeOK, StoreTypeOK
  <2>3. QED
    BY <2>1, <2>2, PaidFrame DEF requestVars
<1>8. CASE \E b \in Batches : PollSees(b, "processing") \/ PollSeesEnd(b)
  <2>1. PICK b \in Batches : PollSees(b, "processing") \/ PollSeesEnd(b)
    BY <1>8
  <2>2. PICK s \in Terminal \cup {"processing"} : PollSees(b, s)
    BY <2>1, OutcomeAssumption DEF PollSeesEnd
  <2>3. QED
    BY <2>2, <1>7
<1>9. QED
  BY <1>1, <1>2, <1>3, <1>4, <1>5, <1>6, <1>8 DEF Tick, TickNext, TickWork, RecoverWork

LEMMA HandlerPaid ==
  ASSUME TypeOK, TypeOK', RequestInv, PaidInv, NEW b \in Batches, Handler(b)
  PROVE  PaidInv'
<1>0. HandlerNext(b) /\ UNCHANGED <<flushVars, tickVars>>
  BY DEF Handler
<1>1. CASE \/ IngestStart(b) \/ IngestStatus(b) \/ IngestDone(b) \/ ExpireRead(b)
           \/ RepackageRead(b)
           \/ \E r \in Requests, ok \in BOOLEAN : IngestResult(b, r, ok)
           \/ \E r \in Requests : ExpireRequest(b, r)
  <2>1. /\ UNCHANGED <<reqBatch, retryCount, batStatus, jobs, faults, crashes, flushVars, tickVars>>
        /\ \A r \in Requests : \/ reqStatus'[r] = reqStatus[r]
                               \/ reqStatus'[r] \in {"succeeded", "failed", "expired"}
    BY <1>0, <1>1
    DEF IngestStart, IngestStatus, IngestDone, ExpireRead, RepackageRead, IngestResult,
        ExpireRequest, SetStatus, storeVars, requestVars, batchVars, historyVars, worldVars,
        TypeOK, StoreTypeOK
  <2>2. \A q \in Requests : Unpaid(q)' => Unpaid(q)
    BY <2>1 DEF Unpaid, ToSubmit, Unrecorded, flushVars, tickVars
  <2>3. QED
    BY <2>1, <2>2, PaidFrame
<1>2. CASE IngestStatusFails(b) \/ HandlerThrows(b) \/ \E r \in Requests : IngestSkips(b, r)
  BY <1>2, PaidTrouble
  DEF IngestStatusFails, HandlerThrows, IngestSkips, Fault, requestVars, historyVars, worldVars
<1>3. ASSUME NEW row \in Requests \X (0..MaxRetries), RepackageRequest(b, row)
      PROVE  PaidInv'
  <2> DEFINE r == row[1]
  <2>1. /\ r \in Requests /\ row[2] = retryCount[r]
        /\ RepackageRow(r, row[2])
        /\ UNCHANGED <<batStatus, jobs, faults, crashes, flushVars, tickVars>>
    BY <1>0, <1>3
    DEF RepackageRequest, batchVars, historyVars, worldVars, RequestInv, HandlerHands, HandlerHand
  <2>2. \A q \in Requests \ {r} :
          reqStatus'[q] = reqStatus[q] /\ reqBatch'[q] = reqBatch[q] /\ retryCount'[q] = retryCount[q]
    BY <2>1 DEF RepackageRow, Requeue, SetStatus, TypeOK, StoreTypeOK
  <2>3. \/ retryCount'[r] = retryCount[r] + 1
        \/ /\ reqStatus'[r] = "failed_final"
           /\ reqBatch'[r] = reqBatch[r] /\ retryCount'[r] = retryCount[r]
    BY <2>1 DEF RepackageRow, Requeue, SetStatus, TypeOK, StoreTypeOK
  <2> HIDE DEF r
  <2>4. ASSUME NEW q \in Requests PROVE PaidFor(q)'
    <3>1. CASE \/ q # r
               \/ /\ reqStatus'[r] = "failed_final"
                  /\ reqBatch'[r] = reqBatch[r] /\ retryCount'[r] = retryCount[r]
      <4>1. Unpaid(q)' => Unpaid(q)
        BY <3>1, <2>1, <2>2 DEF Unpaid, ToSubmit, Unrecorded, flushVars, tickVars
      <4>2. Paid(q)' = Paid(q)
        BY <3>1, <2>1, <2>2 DEF Paid
      <4>3. QED
        BY <2>1, <4>1, <4>2, PaidKept, PaidType DEF PaidInv
    <3>2. CASE q = r /\ retryCount'[r] = retryCount[r] + 1
      <4>1. Paid(q)' = Paid(q) + 1
        BY <3>2, <2>1, LimitAssumption DEF Paid, TypeOK, StoreTypeOK
      <4>2. QED
        BY <2>1, <4>1, PaidMore, PaidType DEF PaidInv
    <3>3. QED
      BY <2>3, <3>1, <3>2
  <2>5. QED
    BY <2>4 DEF PaidInv
<1>4. QED
  BY <1>0, <1>1, <1>2, <1>3 DEF HandlerNext, HandlerWork

LEMMA EnvironmentPaid ==
  ASSUME TypeOK, TypeOK', PaidInv, Environment
  PROVE  PaidInv'
<1>1. CASE \/ \E r \in Requests : Enqueue(r)
           \/ \E g \in Groups : Retire(g)
           \/ \E b \in Batches : Age(b)
  <2>1. /\ UNCHANGED <<reqBatch, retryCount, batStatus, jobs, faults, crashes, flushVars, tickVars>>
        /\ \A r \in Requests : \/ reqStatus'[r] = reqStatus[r]
                               \/ reqStatus[r] = "absent"
    BY <1>1
    DEF Enqueue, Retire, Age, SetStatus, IsFirst, requestVars, batchVars, historyVars, worldVars,
        TypeOK, StoreTypeOK
  <2>2. \A q \in Requests : Unpaid(q)' => Unpaid(q)
    BY <2>1 DEF Unpaid, ToSubmit, Unrecorded, flushVars, tickVars
  <2>3. QED
    BY <2>1, <2>2, PaidFrame
<1>2. CASE Crash
  BY <1>2, PaidTrouble DEF Crash, requestVars, historyVars
<1>3. ASSUME NEW r \in Requests, UserRetry(r)
      PROVE  PaidInv'
  <2>1. /\ jobs' = [jobs EXCEPT ![r] = 0]
        /\ \A q \in Requests \ {r} :
             reqStatus'[q] = reqStatus[q] /\ reqBatch'[q] = reqBatch[q] /\ retryCount'[q] = retryCount[q]
        /\ UNCHANGED <<batStatus, faults, crashes, flushVars, tickVars>>
    BY <1>3 DEF UserRetry, Requeue, batchVars, TypeOK, StoreTypeOK
  <2>2. ASSUME NEW q \in Requests PROVE PaidFor(q)'
    <3>1. CASE q = r
      <4>1. jobs'[q] = 0
        BY <2>1, <3>1 DEF TypeOK, StoreTypeOK
      <4>2. QED
        BY <4>1, PaidTypeNext DEF PaidFor
    <3>2. CASE q # r
      <4>1. Unpaid(q)' => Unpaid(q)
        BY <3>2, <2>1 DEF Unpaid, ToSubmit, Unrecorded, flushVars, tickVars
      <4>2. Paid(q)' = Paid(q) /\ jobs'[q] = jobs[q]
        BY <3>2, <2>1 DEF Paid, TypeOK, StoreTypeOK
      <4>3. QED
        BY <4>1, <4>2, PaidKept, PaidType DEF PaidInv
    <3>3. QED
      BY <3>1, <3>2
  <2>3. QED
    BY <2>2 DEF PaidInv
<1>4. QED
  BY <1>1, <1>2, <1>3 DEF Environment

\* A request is in more provider jobs than its retries pay for only if a crash
\* or a failure came between a submission and its record: flush, recovery and
\* the repackager never submit it twice of themselves.
THEOREM PaidAlwaysOnce ==
  ASSUME ~SlowSubmit
  PROVE  Spec => []PaidOnce
<1>1. /\ TypeOK /\ SubmissionInv /\ OwnerInv /\ RequestInv /\ PaidInv
      /\ [Next]_vars /\ TypeOK'
      => PaidInv'
  <2> SUFFICES ASSUME TypeOK, SubmissionInv, OwnerInv, RequestInv, PaidInv, [Next]_vars, TypeOK'
               PROVE  PaidInv'
    OBVIOUS
  <2>1. CASE UNCHANGED vars
    BY <2>1, PaidFrame
    DEF vars, storeVars, requestVars, batchVars, historyVars, worldVars, flushVars, tickVars,
        Unpaid, ToSubmit, Unrecorded
  <2>2. CASE Next
    BY <2>2, FlushPaid, TickPaid, HandlerPaid, EnvironmentPaid DEF Next
  <2>3. QED
    BY <2>1, <2>2
<1>2. TypeOK /\ PaidInv => PaidOnce
  <2> SUFFICES ASSUME TypeOK, PaidInv, NEW r \in Requests
               PROVE  jobs[r] <= 1 + retryCount[r] + faults + crashes
    BY DEF PaidOnce
  <2>1. /\ retryCount[r] \in Nat /\ faults \in Nat /\ crashes \in Nat /\ jobs[r] \in Nat
        /\ jobs[r] <= 1 + (retryCount[r] + faults + crashes)
    BY LimitAssumption DEF TypeOK, StoreTypeOK, PaidInv, PaidFor, Paid
  <2>2. QED
    BY <2>1
<1>3. QED
  BY InitPaid, <1>1, <1>2, RequestInductive, PTL DEF Spec

-----------------------------------------------------------------------------
(* The engine implements RequestLifecycle *)

\* Only request r moves.
LEMMA MoveOne ==
  ASSUME NEW r \in Requests, \A q \in Requests \ {r} : reqStatus'[q] = reqStatus[q],
         NEW from, NEW to, PhaseOf(reqStatus[r]) = from, PhaseOf(reqStatus'[r]) = to
  PROVE  Lifecycle!Move(r, from, to)
BY DEF Lifecycle!Move

\* No request moves.
LEMMA MoveNone ==
  ASSUME UNCHANGED <<reqStatus, retryCount>>
  PROVE  [Lifecycle!Next]_Lifecycle!lifecycleVars
BY DEF Lifecycle!lifecycleVars

LEMMA FlushLifecycle ==
  ASSUME TypeOK, SubmissionInv, OwnerInv, RequestInv, Flush
  PROVE  [Lifecycle!Next]_Lifecycle!lifecycleVars
<1>1. CASE \/ FlushRead \/ FlushAttempt \/ FlushAccepted \/ FlushSubmitFails \/ FlushRecord
           \/ FlushRecordFails \/ FlushThrows
           \/ \E g \in Groups, b \in Batches : FlushCreate(g, b)
  BY <1>1, MoveNone
  DEF FlushRead, FlushAttempt, FlushAccepted, FlushSubmitFails, FlushRecord, FlushRecordFails,
      FlushThrows, FlushCreate, storeVars, requestVars
<1>2. ASSUME NEW r \in Requests, FlushRetire(r)
      PROVE  Lifecycle!Reject(r)
  <2>1. /\ reqStatus[r] = "queued" /\ reqStatus' = [reqStatus EXCEPT ![r] = "failed_final"]
        /\ retryCount' = retryCount
    BY <1>2 DEF FlushRetire, SetStatus, IsFirst, RequestInv, FlushHand
  <2>2. /\ reqStatus'[r] = "failed_final"
        /\ \A q \in Requests \ {r} : reqStatus'[q] = reqStatus[q]
    BY <2>1 DEF TypeOK, StoreTypeOK
  <2>3. QED
    BY <2>1, <2>2, MoveOne DEF Lifecycle!Reject, PhaseOf
<1>3. CASE FlushAssign
  <2>1. /\ fChunk \in SUBSET Requests /\ \A r \in fChunk : reqStatus[r] = "queued"
        /\ reqStatus' = [r \in Requests |-> IF r \in fChunk THEN "batched" ELSE reqStatus[r]]
        /\ retryCount' = retryCount
    BY <1>3 DEF FlushAssign, AssignBatch, RequestInv, FlushHand, TypeOK, FlushTypeOK
  <2>2. Lifecycle!Take(fChunk)
    BY <2>1 DEF Lifecycle!Take, PhaseOf
  <2>3. QED
    BY <2>1, <2>2 DEF Lifecycle!Next
<1>4. ASSUME NEW r \in Requests, FlushRevert(r)
      PROVE  Lifecycle!GiveBack(r)
  <2>1. reqStatus[r] = "batched"
    BY <1>4
    DEF FlushRevert, RequestInv, FlushHand, OpenBatches, AllWait, OwnerInv, FlushOwns,
        SubmissionInv, FlushHolds
  <2>2. /\ reqStatus'[r] = "queued" /\ retryCount' = retryCount
        /\ \A q \in Requests \ {r} : reqStatus'[q] = reqStatus[q]
    BY <1>4 DEF FlushRevert, Requeue, TypeOK, StoreTypeOK
  <2>3. QED
    BY <2>1, <2>2, MoveOne DEF Lifecycle!GiveBack, PhaseOf
<1>5. QED
  BY <1>1, <1>2, <1>3, <1>4 DEF Flush, FlushNext, FlushWork, Lifecycle!Next

LEMMA TickLifecycle ==
  ASSUME TypeOK, RequestInv, Tick
  PROVE  [Lifecycle!Next]_Lifecycle!lifecycleVars
<1>1. ASSUME NEW r \in Requests, OrphanFailRequest(r)
      PROVE  Lifecycle!Fail(r)
  <2>1. /\ reqStatus[r] = "batched" /\ reqStatus' = [reqStatus EXCEPT ![r] = "failed"]
        /\ retryCount' = retryCount
    BY <1>1 DEF OrphanFailRequest, SetStatus, IsFirst, RequestInv, TickHand
  <2>2. /\ reqStatus'[r] = "failed"
        /\ \A q \in Requests \ {r} : reqStatus'[q] = reqStatus[q]
    BY <2>1 DEF TypeOK, StoreTypeOK
  <2>3. QED
    BY <2>1, <2>2, MoveOne DEF Lifecycle!Fail, PhaseOf
<1>2. CASE UNCHANGED requestVars
  BY <1>2, MoveNone DEF requestVars
<1>3. UNCHANGED requestVars \/ \E r \in Requests : OrphanFailRequest(r)
  BY DEF Tick, TickNext, TickWork, RecoverWork, RecoverScan, RecoverAttempt, RecoverExhausted,
         RecoverGather, RecoverAccepted, RecoverSubmitFails, RecoverRecord, RecoverRecordFails,
         RecoverVerdict, OrphanFail, OrphanFailRead, PollScan, PollSkips, PollSees,
         PollSeesEnd, TickDone, TickThrows, storeVars
<1>4. QED
  BY <1>1, <1>2, <1>3 DEF Lifecycle!Next

LEMMA HandlerLifecycle ==
  ASSUME TypeOK, RequestInv, NEW b \in Batches, Handler(b)
  PROVE  [Lifecycle!Next]_Lifecycle!lifecycleVars
<1>0. HandlerHand(b)
  BY DEF RequestInv, HandlerHands
<1>1. CASE IngestStatus(b)
  <2> DEFINE r == hNow[b][1]
  <2>1. /\ r \in Requests /\ reqStatus[r] = "batched" /\ retryCount' = retryCount
        /\ \E s \in {"succeeded", "failed"} : reqStatus' = [reqStatus EXCEPT ![r] = s]
    BY <1>0, <1>1 DEF IngestStatus, SetStatus, HandlerHand
  <2>2. /\ reqStatus'[r] \in {"succeeded", "failed"}
        /\ \A q \in Requests \ {r} : reqStatus'[q] = reqStatus[q]
    BY <2>1 DEF TypeOK, StoreTypeOK
  <2> HIDE DEF r
  <2>3. Lifecycle!Succeed(r) \/ Lifecycle!Fail(r)
    BY <2>1, <2>2, MoveOne DEF Lifecycle!Succeed, Lifecycle!Fail, PhaseOf
  <2>4. QED
    BY <2>1, <2>3 DEF Lifecycle!Next
<1>2. ASSUME NEW r \in Requests, ExpireRequest(b, r)
      PROVE  Lifecycle!Fail(r)
  <2>1. /\ reqStatus[r] = "batched" /\ reqStatus' = [reqStatus EXCEPT ![r] = "expired"]
        /\ retryCount' = retryCount
    BY <1>0, <1>2 DEF ExpireRequest, SetStatus, HandlerHand
  <2>2. /\ reqStatus'[r] = "expired"
        /\ \A q \in Requests \ {r} : reqStatus'[q] = reqStatus[q]
    BY <2>1 DEF TypeOK, StoreTypeOK
  <2>3. QED
    BY <2>1, <2>2, MoveOne DEF Lifecycle!Fail, PhaseOf
<1>3. ASSUME NEW row \in Requests \X (0..MaxRetries), RepackageRequest(b, row)
      PROVE  [Lifecycle!Next]_Lifecycle!lifecycleVars
  <2> DEFINE r == row[1]
  <2>1. /\ r \in Requests /\ row[2] = retryCount[r] /\ reqStatus[r] \in {"failed", "expired"}
        /\ RepackageRow(r, row[2])
    BY <1>0, <1>3 DEF RepackageRequest, HandlerHand
  <2> HIDE DEF r
  <2>2. CASE row[2] < MaxRetries /\ Requeue(r, row[2] + 1)
    <3>1. /\ reqStatus'[r] = "queued"
          /\ retryCount' = [retryCount EXCEPT ![r] = @ + 1]
          /\ \A q \in Requests \ {r} : reqStatus'[q] = reqStatus[q]
      BY <2>1, <2>2 DEF Requeue, TypeOK, StoreTypeOK
    <3>2. Lifecycle!Retry(r)
      BY <2>1, <2>2, <3>1, MoveOne DEF Lifecycle!Retry, PhaseOf
    <3>3. QED
      BY <2>1, <3>2 DEF Lifecycle!Next
  <2>3. CASE row[2] >= MaxRetries /\ SetStatus(r, "failed_final")
    <3>1. /\ reqStatus'[r] = "failed_final" /\ retryCount' = retryCount
          /\ \A q \in Requests \ {r} : reqStatus'[q] = reqStatus[q]
      BY <2>1, <2>3 DEF SetStatus, TypeOK, StoreTypeOK
    <3>2. retryCount[r] = MaxRetries
      BY <2>1, <2>3, LimitAssumption DEF TypeOK, StoreTypeOK
    <3>3. Lifecycle!GiveUp(r)
      BY <2>1, <3>1, <3>2, MoveOne DEF Lifecycle!GiveUp, PhaseOf
    <3>4. QED
      BY <2>1, <3>3 DEF Lifecycle!Next
  <2>4. QED
    BY <2>1, <2>2, <2>3 DEF RepackageRow
<1>4. CASE UNCHANGED requestVars
  BY <1>4, MoveNone DEF requestVars
<1>5. \/ UNCHANGED requestVars
      \/ IngestStatus(b)
      \/ \E r \in Requests : ExpireRequest(b, r)
      \/ \E row \in Requests \X (0..MaxRetries) : RepackageRequest(b, row)
  BY DEF Handler, HandlerNext, HandlerWork, IngestStart, IngestResult, IngestDone, IngestSkips,
         IngestStatusFails, ExpireRead, RepackageRead, HandlerThrows, storeVars
<1>6. QED
  BY <1>1, <1>2, <1>3, <1>4, <1>5 DEF Lifecycle!Next

LEMMA EnvironmentLifecycle ==
  ASSUME TypeOK, Environment
  PROVE  [Lifecycle!Next]_Lifecycle!lifecycleVars
<1>1. ASSUME NEW r \in Requests, Enqueue(r)
      PROVE  Lifecycle!Submit(r)
  <2>1. /\ reqStatus[r] = "absent" /\ reqStatus'[r] = "queued" /\ retryCount' = retryCount
        /\ \A q \in Requests \ {r} : reqStatus'[q] = reqStatus[q]
    BY <1>1 DEF Enqueue, SetStatus, IsFirst, TypeOK, StoreTypeOK
  <2>2. QED
    BY <2>1, MoveOne DEF Lifecycle!Submit, PhaseOf
<1>2. ASSUME NEW r \in Requests, UserRetry(r)
      PROVE  Lifecycle!AskAgain(r)
  <2>1. /\ reqStatus[r] = "failed_final" /\ reqStatus'[r] = "queued"
        /\ retryCount' = [retryCount EXCEPT ![r] = 0]
        /\ \A q \in Requests \ {r} : reqStatus'[q] = reqStatus[q]
    BY <1>2 DEF UserRetry, Requeue, TypeOK, StoreTypeOK
  <2>2. QED
    BY <2>1, MoveOne DEF Lifecycle!AskAgain, PhaseOf
<1>3. CASE Crash \/ (\E g \in Groups : Retire(g)) \/ \E b \in Batches : Age(b)
  BY <1>3, MoveNone DEF Crash, Retire, Age, requestVars
<1>4. QED
  BY <1>1, <1>2, <1>3 DEF Environment, Lifecycle!Next

LEMMA LifecycleStep ==
  ASSUME TypeOK, SubmissionInv, OwnerInv, RequestInv, [Next]_vars
  PROVE  [Lifecycle!Next]_Lifecycle!lifecycleVars
<1>1. CASE UNCHANGED vars
  BY <1>1, MoveNone DEF vars, storeVars, requestVars
<1>2. CASE Next
  BY <1>2, FlushLifecycle, TickLifecycle, HandlerLifecycle, EnvironmentLifecycle DEF Next
<1>3. QED
  BY <1>1, <1>2

\* The engine implements the lifecycle it promises: with any number of requests,
\* batches, crashes and failures, every step of its threads is, for the
\* requests, a step of RequestLifecycle or no step.
THEOREM LifecycleImplemented ==
  ASSUME ~SlowSubmit
  PROVE  Spec => ImplementsLifecycle
<1>1. Init => Lifecycle!Init
  BY DEF Init, StoreInit, Lifecycle!Init, PhaseOf
<1>2. /\ TypeOK /\ SubmissionInv /\ OwnerInv /\ JobInv /\ RequestInv
      /\ [Next]_vars
      => [Lifecycle!Next]_Lifecycle!lifecycleVars
  BY LifecycleStep
<1>3. QED
  BY <1>1, <1>2, RequestInductive, PTL DEF Spec, ImplementsLifecycle, Lifecycle!Spec

\* A success is final: no stale snapshot of the flush, of recovery or of a
\* handler takes a succeeded request back.
THEOREM SuccessStaysFinal ==
  ASSUME ~SlowSubmit
  PROVE  Spec => SuccessIsFinal
<1> DEFINE A == \A r \in Requests : reqStatus[r] = "succeeded" => reqStatus'[r] = "succeeded"
<1>1. ASSUME TypeOK, [Lifecycle!Next]_Lifecycle!lifecycleVars, NEW r \in Requests,
             reqStatus[r] = "succeeded"
      PROVE  PhaseOf(reqStatus'[r]) = "succeeded"
  <2>1. PhaseOf(reqStatus[r]) = "succeeded"
    BY <1>1 DEF PhaseOf
  <2>2. CASE UNCHANGED Lifecycle!lifecycleVars
    BY <2>1, <2>2 DEF Lifecycle!lifecycleVars
  <2>3. ASSUME NEW S \in SUBSET Requests, Lifecycle!Take(S)
        PROVE  PhaseOf(reqStatus'[r]) = "succeeded"
    BY <2>1, <2>3 DEF Lifecycle!Take
  <2>4. ASSUME NEW q \in Requests, NEW from, NEW to, from # "succeeded", Lifecycle!Move(q, from, to)
        PROVE  PhaseOf(reqStatus'[r]) = "succeeded"
    BY <2>1, <2>4 DEF Lifecycle!Move
  <2>5. QED
    BY <1>1, <2>2, <2>3, <2>4
    DEF Lifecycle!Next, Lifecycle!Submit, Lifecycle!GiveBack, Lifecycle!Succeed,
        Lifecycle!Fail, Lifecycle!Retry, Lifecycle!GiveUp, Lifecycle!Reject, Lifecycle!AskAgain
<1>2. /\ TypeOK /\ SubmissionInv /\ OwnerInv /\ JobInv /\ RequestInv
      /\ [Next]_vars
      => [A]_vars
  BY <1>1, LifecycleStep DEF PhaseOf
<1>3. QED
  BY <1>2, RequestInductive, PTL DEF Spec, SuccessIsFinal
=============================================================================
