---------------------------- MODULE FailoverProofs ----------------------------
(***************************************************************************)
(* The flush over the keys of a user, beside orphan recovery, crashes and  *)
(* faults: what KeyFailover promises, for all values of the constants.     *)
(***************************************************************************)
EXTENDS KeyFailover, TLAPS

USE DEF NoBatch

-----------------------------------------------------------------------------
(* The invariant *)

\* The flush is between the creation of a batch and its end.
Holding == kpc \in FlushPC \ {"idle", "next"}

FailoverTypeOK ==
  /\ StoreTypeOK
  /\ TickTypeOK
  /\ kpc \in FlushPC
  /\ kBatch \in Batches \cup {NoBatch}
  /\ kChunk \in SUBSET Requests
  /\ kTodo \in SUBSET Requests
  /\ limited \in 0..MaxLimited

\* Only a pending batch ages; nothing is known of a batch before its row
\* exists; a request waits in no batch and in no job, or is in a batch.
Rows ==
  /\ \A b \in Batches : aged[b] => batStatus[b] = "pending"
  /\ \A b \in Batches : batStatus[b] = "absent" =>
       batRef[b] = {} /\ \A r \in Requests : reqBatch[r] # b
  /\ \A r \in Requests : reqStatus[r] \in {"absent", "queued"} =>
       reqBatch[r] = NoBatch /\ jobs[r] = 0
  /\ \A r \in Requests : reqStatus[r] = "batched" => reqBatch[r] \in Batches

\* The flush has its batch to itself: it is too young to be an orphan, and
\* no scan has it.
FlushHand ==
  IF Holding
    THEN /\ kBatch \in Batches
         /\ batStatus[kBatch] = "pending" /\ batRef[kBatch] = {} /\ ~aged[kBatch]
         /\ kBatch \notin tTodo /\ kBatch # tBatch
    ELSE kBatch = NoBatch

\* The requests of the chunk that are in the flush's batch: those already
\* assigned, or not yet reset.
InBatch ==
  CASE kpc = "assign"                          -> kChunk \ kTodo
    [] kpc \in {"attempt", "submit", "record"} -> kChunk
    [] kpc = "reset"                           -> kTodo
    [] OTHER                                   -> {}

\* The chunk is queued or in the flush's batch, which holds nothing else, and
\* is in no job before the provider accepts it.
ChunkPlaced ==
  /\ \A r \in kChunk :
       IF r \in InBatch THEN reqStatus[r] = "batched" /\ reqBatch[r] = kBatch
                        ELSE reqStatus[r] = "queued"
  /\ Holding => \A r \in Requests : reqBatch[r] = kBatch => r \in kChunk
  /\ kpc # "record" => \A r \in kChunk : jobs[r] = 0
  /\ kTodo \subseteq kChunk
  /\ kpc = "idle" => kChunk = {}

\* The scan has its orphans to itself: they stay as its snapshot shows them
\* until their turn, and only one with all attempts used up is failed.
TickHand ==
  /\ \A b \in tTodo :
       /\ batStatus[b] = "pending" /\ batRef[b] = {} /\ b # tBatch
       /\ tRows[b].attempts = attempts[b]
  /\ tpc \in {"gather", "resubmit", "record", "verdict", "fail"} =>
       tBatch \in Batches /\ batStatus[tBatch] = "pending" /\ batRef[tBatch] = {}
  /\ tpc \in {"failread", "failing"} => tBatch \in Batches /\ batStatus[tBatch] = "failed"
  /\ tpc \in {"fail", "failread", "failing"} => attempts[tBatch] >= MaxAttempts
  /\ tpc \in {"idle", "recover", "poll"} => tBatch = NoBatch
  /\ tpc = "idle" => tTodo = {}
  /\ tpc \notin {"resubmit", "record", "failing"} => tReqs = {}
  /\ \A r \in tReqs : reqBatch[r] = tBatch

\* While nothing has failed, the only pending batch is the flush's, and
\* recovery has nothing to do.
Clean ==
  faults = 0 /\ crashes = 0 =>
    /\ tTodo = {} /\ tBatch = NoBatch
    /\ \A b \in Batches : batStatus[b] = "pending" => b = kBatch
    /\ \A r \in Requests : reqStatus[r] = "batched" =>
         batStatus[reqBatch[r]] = "submitted" \/ reqBatch[r] = kBatch

FailoverInv ==
  /\ FailoverTypeOK
  /\ Rows
  /\ FlushHand
  /\ ChunkPlaced
  /\ TickHand
  /\ ClosedBatchIsEmpty
  /\ Clean

-----------------------------------------------------------------------------
(* Types *)

LEMMA InitFailoverTypes == Init => FailoverTypeOK
<1> SUFFICES ASSUME Init PROVE FailoverTypeOK
  OBVIOUS
<1>1. StoreTypeOK
  BY LimitAssumption DEF Init, StoreInit, StoreTypeOK, RequestStatus, BatchStatus
<1>2. TickTypeOK
  BY LimitAssumption DEF Init, TickInit, TickTypeOK, TickPC, NoRows, Row, BatchStatus
<1>3. QED
  BY <1>1, <1>2, KeyAssumption DEF Init, FailoverTypeOK, FlushPC

\* A submission is counted, in the calls of its batch and the jobs of its
\* requests.
LEMMA SubmissionTypes ==
  ASSUME StoreTypeOK, NEW b, NEW S, ProviderAccepts(b, S) \/ ProviderRejects(b)
  PROVE  calls' \in [Batches -> Nat] /\ jobs' \in [Requests -> Nat]
<1>1. \A c \in Batches : calls[c] \in Nat /\ calls[c] + 1 \in Nat
  BY DEF StoreTypeOK
<1>2. calls' \in [Batches -> Nat]
  <2>1. calls' = [calls EXCEPT ![b] = calls[b] + 1]
    BY DEF ProviderAccepts, ProviderRejects
  <2>2. QED
    BY <1>1, <2>1 DEF StoreTypeOK
<1>3. \A r \in Requests : jobs[r] \in Nat /\ (IF r \in S THEN jobs[r] + 1 ELSE jobs[r]) \in Nat
  BY DEF StoreTypeOK
<1>4. jobs' \in [Requests -> Nat]
  BY <1>3 DEF ProviderAccepts, ProviderRejects, StoreTypeOK
<1>5. QED
  BY <1>2, <1>4

LEMMA FaultCount ==
  ASSUME NEW kind, StoreTypeOK, Fault(kind)
  PROVE  faults' \in 1..MaxFaults
BY LimitAssumption DEF Fault, StoreTypeOK

LEMMA FlushKeepsTypes ==
  ASSUME FailoverTypeOK, Flush
  PROVE  FailoverTypeOK'
<1> USE DEF FailoverTypeOK, StoreTypeOK, TickTypeOK, storeVars, requestVars, batchVars,
        historyVars, worldVars, tickVars
<1>1. CASE FlushRead
  BY <1>1 DEF FlushRead, QueuedRequests, Oldest, FlushPC
<1>2. CASE FlushExhausted
  BY <1>2 DEF FlushExhausted, FlushDone, FlushPC
<1>3. CASE \E b \in Batches : FlushCreate(b)
  BY <1>3 DEF FlushCreate, CreateBatch, BatchStatus, FlushPC
<1>4. CASE \E r \in Requests : FlushAssign(r)
  BY <1>4 DEF FlushAssign, AssignBatch, RequestStatus, FlushPC
<1>5. CASE \E r \in Requests : FlushReset(r)
  BY <1>5 DEF FlushReset, Requeue, RequestStatus, FlushPC
<1>6. CASE FlushAttempt
  <2>1. attempts' = [attempts EXCEPT ![kBatch] = 1] /\ 1 \in 0..MaxAttempts
    BY <1>6, LimitAssumption DEF FlushAttempt, SetAttempts
  <2>2. QED
    BY <1>6, <2>1 DEF FlushAttempt, SetAttempts, FlushPC
<1>7. CASE FlushAccepted
  <2>1. calls' \in [Batches -> Nat] /\ jobs' \in [Requests -> Nat]
    BY <1>7, SubmissionTypes DEF FlushAccepted
  <2>2. QED
    BY <1>7, <2>1 DEF FlushAccepted, FlushPC
<1>8. CASE FlushLimited
  <2>1. calls' \in [Batches -> Nat] /\ jobs' \in [Requests -> Nat]
    BY <1>8, SubmissionTypes DEF FlushLimited
  <2>2. limited' \in 0..MaxLimited
    BY <1>8, KeyAssumption DEF FlushLimited
  <2>3. QED
    BY <1>8, <2>1, <2>2 DEF FlushLimited, FlushPC
<1>9. CASE FlushSubmitFails
  <2>1. calls' \in [Batches -> Nat] /\ jobs' \in [Requests -> Nat]
    BY <1>9, SubmissionTypes DEF FlushSubmitFails
  <2>2. faults' \in 1..MaxFaults
    BY <1>9, FaultCount DEF FlushSubmitFails
  <2>3. QED
    BY <1>9, <2>1, <2>2 DEF FlushSubmitFails, FlushDone, FlushPC
<1>10. CASE FlushRecord
  BY <1>10 DEF FlushRecord, RecordSubmission, FlushDone, BatchStatus, FlushPC
<1>11. CASE FlushClose
  BY <1>11 DEF FlushClose, SetBatchStatus, BatchStatus, FlushPC
<1>12. CASE FlushThrows
  <2>1. faults' \in 1..MaxFaults
    BY <1>12, FaultCount DEF FlushThrows
  <2>2. QED
    BY <1>12, <2>1 DEF FlushThrows, FlushDone, FlushPC
<1>13. QED
  BY <1>1, <1>2, <1>3, <1>4, <1>5, <1>6, <1>7, <1>8, <1>9, <1>10, <1>11, <1>12 DEF Flush

LEMMA RecoveryKeepsTypes ==
  ASSUME FailoverTypeOK, Recovery
  PROVE  FailoverTypeOK'
<1> USE DEF FailoverTypeOK, StoreTypeOK, TickTypeOK, storeVars, requestVars, batchVars,
        historyVars, worldVars, keyVars
<1>0. UNCHANGED <<revoked, keyVars, limited>>
  BY DEF Recovery
<1>1. CASE RecoverScan
  <2>1. RowsNow \in [Batches -> Row]
    BY DEF RowsNow, Row
  <2>2. QED
    BY <1>0, <1>1, <2>1 DEF RecoverScan, Orphans, TickPC
<1>2. CASE \E b \in Batches : RecoverAttempt(b)
  <2>1. PICK b \in Batches : RecoverAttempt(b)
    BY <1>2
  <2>2. attempts' = [attempts EXCEPT ![b] = tRows[b].attempts + 1]
    BY <2>1 DEF RecoverAttempt, SetAttempts
  <2>3. tRows[b].attempts + 1 \in 0..MaxAttempts
    BY <2>1, LimitAssumption DEF RecoverAttempt, Row
  <2>4. attempts' \in [Batches -> 0..MaxAttempts]
    BY <2>2, <2>3
  <2>5. QED
    BY <1>0, <2>1, <2>4 DEF RecoverAttempt, SetAttempts, TickPC
<1>3. CASE (\E b \in Batches : RecoverExhausted(b)) \/ RecoverGather \/ RecoverVerdict
  BY <1>0, <1>3 DEF RecoverExhausted, RecoverGather, RecoverVerdict, RequestsOf, TickPC
<1>4. CASE RecoverAccepted
  <2>1. calls' \in [Batches -> Nat] /\ jobs' \in [Requests -> Nat]
    BY <1>4, SubmissionTypes DEF RecoverAccepted
  <2>2. QED
    BY <1>0, <1>4, <2>1 DEF RecoverAccepted, TickPC
<1>5. CASE RecoverSubmitFails
  <2>1. calls' \in [Batches -> Nat] /\ jobs' \in [Requests -> Nat]
    BY <1>5, SubmissionTypes DEF RecoverSubmitFails
  <2>2. faults' \in 1..MaxFaults
    BY <1>5, FaultCount DEF RecoverSubmitFails
  <2>3. QED
    BY <1>0, <1>5, <2>1, <2>2 DEF RecoverSubmitFails, TickPC
<1>6. CASE RecoverRecord
  BY <1>0, <1>6 DEF RecoverRecord, RecordSubmission, BatchStatus, TickPC
<1>7. CASE RecoverRecordFails
  BY <1>0, <1>7, FaultCount DEF RecoverRecordFails, TickPC
<1>8. CASE OrphanFail \/ OrphanFailRead
  BY <1>0, <1>8 DEF OrphanFail, OrphanFailRead, SetBatchStatus, BatchStatus, RequestsOf, TickPC
<1>9. CASE \E r \in Requests : OrphanFailRequest(r)
  BY <1>0, <1>9 DEF OrphanFailRequest, SetStatus, RequestStatus, TickPC
<1>10. CASE ScanEnds
  <2>1. NoRows \in [Batches -> Row]
    BY LimitAssumption DEF NoRows, Row, BatchStatus
  <2>2. faults' \in 0..MaxFaults
    BY <1>10, FaultCount DEF ScanEnds
  <2>3. QED
    BY <1>0, <1>10, <2>1, <2>2 DEF ScanEnds, TickReset, TickPC
<1>11. QED
  BY <1>1, <1>2, <1>3, <1>4, <1>5, <1>6, <1>7, <1>8, <1>9, <1>10 DEF Recovery, RecoverWork

LEMMA FailoverKeepsTypes ==
  ASSUME FailoverTypeOK, [Next]_vars
  PROVE  FailoverTypeOK'
<1> USE DEF FailoverTypeOK, StoreTypeOK, TickTypeOK, storeVars, requestVars, batchVars,
        historyVars, worldVars, tickVars, keyVars
<1>1. CASE \E r \in Requests : Enqueue(r)
  BY <1>1 DEF Enqueue, SetStatus, RequestStatus
<1>2. CASE \E k \in Keys : SetRevoked(k)
  BY <1>2 DEF SetRevoked
<1>3. CASE \E b \in Batches : Age(b)
  BY <1>3 DEF Age
<1>4. CASE Crash
  <2>1. NoRows \in [Batches -> Row]
    BY LimitAssumption DEF NoRows, Row, BatchStatus
  <2>2. QED
    BY <1>4, <2>1, LimitAssumption DEF Crash, FlushDone, TickReset, FlushPC, TickPC
<1>5. CASE UNCHANGED vars
  BY <1>5 DEF vars
<1>6. QED
  BY <1>1, <1>2, <1>3, <1>4, <1>5, FlushKeepsTypes, RecoveryKeepsTypes DEF Next

-----------------------------------------------------------------------------
(* The flush *)

LEMMA InitFailover == Init => FailoverInv
<1> SUFFICES ASSUME Init PROVE FailoverInv
  OBVIOUS
<1>1. Rows /\ FlushHand /\ ChunkPlaced
  BY DEF Init, StoreInit, Rows, FlushHand, Holding, ChunkPlaced
<1>2. TickHand /\ ClosedBatchIsEmpty /\ Clean
  BY DEF Init, StoreInit, TickInit, TickHand, ClosedBatchIsEmpty, Clean
<1>3. QED
  BY <1>1, <1>2, InitFailoverTypes DEF FailoverInv

\* A new batch, with nothing in it, for the key that is next.
LEMMA CreateKeeps ==
  ASSUME FailoverInv, NEW b \in Batches, FlushCreate(b)
  PROVE  Rows' /\ FlushHand' /\ ChunkPlaced' /\ TickHand' /\ ClosedBatchIsEmpty' /\ Clean'
<1> USE DEF FailoverInv, FailoverTypeOK, StoreTypeOK, TickTypeOK
<1>1. /\ kpc = "next" /\ kpc' = "assign" /\ kBatch' = b /\ kTodo' = kChunk
      /\ batStatus[b] = "absent" /\ batStatus' = [batStatus EXCEPT ![b] = "pending"]
      /\ UNCHANGED <<batRef, attempts, aged, reqStatus, reqBatch, jobs, kChunk, faults, crashes>>
      /\ UNCHANGED <<tpc, tRows, tTodo, tBatch, tReqs>>
  BY DEF FlushCreate, CreateBatch, IsFirst, requestVars, historyVars, worldVars, tickVars
<1>2. kBatch = NoBatch /\ b # NoBatch
  BY <1>1, IdAssumption DEF FlushHand, Holding
<1>3. batRef[b] = {} /\ ~aged[b] /\ \A r \in Requests : reqBatch[r] # b
  BY <1>1 DEF Rows
<1>4. b \notin tTodo /\ b # tBatch
  BY <1>1, <1>2 DEF TickHand, TickPC
<1>5. Rows'
  BY <1>1 DEF Rows
<1>6. FlushHand'
  BY <1>1, <1>3, <1>4 DEF FlushHand, Holding, FlushPC
<1>7. ChunkPlaced'
  BY <1>1, <1>3 DEF ChunkPlaced, InBatch, Holding, FlushPC
<1>8. TickHand'
  BY <1>1, <1>4 DEF TickHand
<1>9. ClosedBatchIsEmpty'
  BY <1>1, <1>3 DEF ClosedBatchIsEmpty
<1>10. Clean'
  BY <1>1, <1>2, <1>3, IdAssumption DEF Clean, Rows
<1>11. QED
  BY <1>5, <1>6, <1>7, <1>8, <1>9, <1>10

\* A request of the chunk enters the batch, or is taken out of it.
LEMMA MoveKeeps ==
  ASSUME FailoverInv, NEW r \in Requests, FlushAssign(r) \/ FlushReset(r)
  PROVE  Rows' /\ FlushHand' /\ ChunkPlaced' /\ TickHand' /\ ClosedBatchIsEmpty' /\ Clean'
<1> USE IdAssumption DEF FailoverInv, FailoverTypeOK, StoreTypeOK, TickTypeOK
<1>1. /\ kpc \in {"assign", "reset"} /\ r \in kTodo /\ kTodo' = kTodo \ {r}
      /\ UNCHANGED <<kBatch, kChunk, batStatus, batRef, attempts, aged, jobs, faults, crashes>>
      /\ UNCHANGED <<tpc, tRows, tTodo, tBatch, tReqs>>
  BY DEF FlushAssign, FlushReset, IsFirst, batchVars, historyVars, worldVars, tickVars
<1>2. kpc = "assign" =>
        /\ kpc' = IF kTodo = {r} THEN "attempt" ELSE "assign"
        /\ reqStatus' = [reqStatus EXCEPT ![r] = "batched"]
        /\ reqBatch' = [reqBatch EXCEPT ![r] = kBatch]
  BY DEF FlushAssign, FlushReset, AssignBatch
<1>3. kpc = "reset" =>
        /\ kpc' = IF kTodo = {r} THEN "close" ELSE "reset"
        /\ reqStatus' = [reqStatus EXCEPT ![r] = "queued"]
        /\ reqBatch' = [reqBatch EXCEPT ![r] = NoBatch]
  BY DEF FlushAssign, FlushReset, Requeue
<1>4. /\ kBatch \in Batches /\ batStatus[kBatch] = "pending" /\ batRef[kBatch] = {}
      /\ ~aged[kBatch] /\ kBatch \notin tTodo /\ kBatch # tBatch /\ r \in kChunk
      /\ jobs[r] = 0 /\ kTodo \subseteq kChunk
  BY <1>1 DEF FlushHand, Holding, FlushPC, ChunkPlaced
<1>5. reqBatch[r] \in {NoBatch, kBatch}
  BY <1>1, <1>4 DEF ChunkPlaced, Rows
<1>6. r \notin tReqs
  BY <1>1, <1>4, <1>5 DEF TickHand, TickPC
<1>7. Rows'
  BY <1>1, <1>2, <1>3, <1>4 DEF Rows
<1>8. FlushHand'
  BY <1>1, <1>2, <1>3, <1>4 DEF FlushHand, Holding, FlushPC
<1>9. ChunkPlaced'
  BY <1>1, <1>2, <1>3, <1>4 DEF ChunkPlaced, InBatch, Holding, FlushPC
<1>10. TickHand'
  BY <1>1, <1>2, <1>3, <1>6 DEF TickHand
<1>11. ClosedBatchIsEmpty'
  BY <1>1, <1>2, <1>3, <1>4 DEF ClosedBatchIsEmpty
<1>12. Clean'
  BY <1>1, <1>2, <1>3 DEF Clean
<1>13. QED
  BY <1>7, <1>8, <1>9, <1>10, <1>11, <1>12

\* The attempt is counted; the provider creates the job, or refuses the key
\* for its rate or its credit.
LEMMA SubmitKeeps ==
  ASSUME FailoverInv, FlushAttempt \/ FlushAccepted \/ FlushLimited
  PROVE  Rows' /\ FlushHand' /\ ChunkPlaced' /\ TickHand' /\ ClosedBatchIsEmpty' /\ Clean'
<1> USE IdAssumption DEF FailoverInv, FailoverTypeOK, StoreTypeOK, TickTypeOK
<1>1. /\ kpc \in {"attempt", "submit"}
      /\ kpc = "attempt" => kpc' = "submit" /\ UNCHANGED jobs
      /\ kpc = "submit" => kpc' \in {"record", "reset"}
      /\ kpc' = "record" => jobs' = [q \in Requests |-> IF q \in kChunk THEN jobs[q] + 1 ELSE jobs[q]]
      /\ kpc' # "record" => UNCHANGED jobs
      /\ kTodo' = IF kpc' = "reset" THEN kChunk ELSE kTodo
      /\ UNCHANGED <<kBatch, kChunk, reqStatus, reqBatch, batStatus, batRef, faults, crashes>>
      /\ UNCHANGED <<tpc, tRows, tTodo, tBatch, tReqs>>
  BY DEF FlushAttempt, FlushAccepted, FlushLimited, SetAttempts, ProviderAccepts,
         ProviderRejects, requestVars, batchVars, historyVars, worldVars, tickVars
<1>2. kBatch \in Batches /\ batStatus[kBatch] = "pending" /\ kBatch \notin tTodo /\ kBatch # tBatch
  BY <1>1 DEF FlushHand, Holding, FlushPC
<1>3. /\ \A b \in Batches : b # kBatch => attempts'[b] = attempts[b]
      /\ \A b \in Batches : aged'[b] => aged[b]
  BY DEF FlushAttempt, FlushAccepted, FlushLimited, SetAttempts, batchVars
<1>4. \A q \in kChunk : reqStatus[q] = "batched"
  BY <1>1 DEF ChunkPlaced, InBatch
<1>5. Rows'
  BY <1>1, <1>3, <1>4 DEF Rows
<1>6. FlushHand'
  BY <1>1, <1>3 DEF FlushHand, Holding, FlushPC
<1>7. ChunkPlaced'
  BY <1>1 DEF ChunkPlaced, InBatch, Holding, FlushPC
<1>8. TickHand'
  BY <1>1, <1>2, <1>3 DEF TickHand
<1>9. ClosedBatchIsEmpty'
  BY <1>1, <1>2, <1>3 DEF ClosedBatchIsEmpty
<1>10. Clean'
  BY <1>1 DEF Clean
<1>11. QED
  BY <1>5, <1>6, <1>7, <1>8, <1>9, <1>10

\* The batch is submitted, and the flush done; or it is closed, with nothing
\* in it any more, and the flush goes on to the next key.
LEMMA SettleKeeps ==
  ASSUME FailoverInv, FlushRecord \/ FlushClose
  PROVE  Rows' /\ FlushHand' /\ ChunkPlaced' /\ TickHand' /\ ClosedBatchIsEmpty' /\ Clean'
<1> USE IdAssumption DEF FailoverInv, FailoverTypeOK, StoreTypeOK, TickTypeOK
<1>1. /\ kpc \in {"record", "close"} /\ kBatch' = NoBatch
      /\ kpc = "record" => kpc' = "idle" /\ kChunk' = {} /\ kTodo' = {}
      /\ kpc = "close" => kpc' = "next" /\ UNCHANGED <<kChunk, kTodo, batRef>>
      /\ UNCHANGED <<reqStatus, reqBatch, jobs, attempts, faults, crashes>>
      /\ UNCHANGED <<tpc, tRows, tTodo, tBatch, tReqs>>
  BY DEF FlushRecord, FlushClose, FlushDone, RecordSubmission, SetBatchStatus, requestVars,
         historyVars, worldVars, tickVars
<1>2. /\ batStatus' = [batStatus EXCEPT ![kBatch] = IF kpc = "record" THEN "submitted" ELSE "failed"]
      /\ aged' = [aged EXCEPT ![kBatch] = FALSE]
      /\ \A b \in Batches : b # kBatch => batRef'[b] = batRef[b]
  BY DEF FlushRecord, FlushClose, RecordSubmission, SetBatchStatus
<1>3. kBatch \in Batches /\ batStatus[kBatch] = "pending" /\ kBatch \notin tTodo /\ kBatch # tBatch
  BY <1>1 DEF FlushHand, Holding, FlushPC
<1>4. kpc = "close" =>
        /\ \A r \in Requests : reqBatch[r] # kBatch
        /\ \A r \in kChunk : reqStatus[r] = "queued"
  BY <1>3 DEF ChunkPlaced, InBatch, Holding, FlushPC, Rows
<1>5. Rows'
  BY <1>1, <1>2, <1>3 DEF Rows
<1>6. FlushHand'
  BY <1>1 DEF FlushHand, Holding, FlushPC
<1>7. ChunkPlaced'
  BY <1>1, <1>4 DEF ChunkPlaced, InBatch, Holding, FlushPC
<1>8. TickHand'
  BY <1>1, <1>2, <1>3 DEF TickHand
<1>9. ClosedBatchIsEmpty'
  BY <1>1, <1>2, <1>4 DEF ClosedBatchIsEmpty
<1>10. Clean'
  BY <1>1, <1>2, <1>3, <1>4 DEF Clean, Rows
<1>11. QED
  BY <1>5, <1>6, <1>7, <1>8, <1>9, <1>10

\* A flush that begins, or gives up with or without an error: the database is
\* left as it is.
LEMMA FlushEdgeKeeps ==
  ASSUME FailoverInv, FlushRead \/ FlushExhausted \/ FlushSubmitFails \/ FlushThrows
  PROVE  Rows' /\ FlushHand' /\ ChunkPlaced' /\ TickHand' /\ ClosedBatchIsEmpty' /\ Clean'
<1> USE IdAssumption DEF FailoverInv, FailoverTypeOK, StoreTypeOK, TickTypeOK
<1>1. /\ UNCHANGED <<reqStatus, reqBatch, batStatus, batRef, attempts, aged, crashes>>
      /\ UNCHANGED <<tpc, tRows, tTodo, tBatch, tReqs>>
  BY DEF FlushRead, FlushExhausted, FlushSubmitFails, FlushThrows, storeVars, requestVars,
         batchVars, worldVars, tickVars
<1>2. \/ FlushRead
      \/ kpc' = "idle" /\ kBatch' = NoBatch /\ kChunk' = {} /\ kTodo' = {}
  BY DEF FlushExhausted, FlushSubmitFails, FlushThrows, FlushDone
<1>3. FlushRead =>
        /\ kpc = "idle" /\ kpc' = "next" /\ UNCHANGED <<kBatch, kTodo>>
        /\ kChunk' \subseteq {r \in Requests : reqStatus[r] = "queued"}
  BY DEF FlushRead, QueuedRequests, Oldest
<1>4. \/ UNCHANGED jobs
      \/ kpc = "submit" /\ jobs' = [q \in Requests |-> IF q \in kChunk THEN jobs[q] + 1 ELSE jobs[q]]
  BY DEF FlushRead, FlushExhausted, FlushSubmitFails, FlushThrows, ProviderAccepts,
         ProviderRejects, storeVars, historyVars
<1>5. \/ kBatch = NoBatch /\ UNCHANGED faults
      \/ faults' \in 1..MaxFaults
  BY FaultCount
  DEF FlushRead, FlushExhausted, FlushSubmitFails, FlushThrows, FlushHand, Holding, storeVars
<1>6. kpc = "submit" => \A q \in kChunk : reqStatus[q] = "batched"
  BY DEF ChunkPlaced, InBatch
<1>7. Rows'
  BY <1>1, <1>4, <1>6 DEF Rows
<1>8. FlushHand'
  BY <1>2, <1>3 DEF FlushHand, Holding, FlushPC
<1>9. ChunkPlaced'
  <2>1. CASE FlushRead
    <3>1. kTodo = {} /\ UNCHANGED jobs
      BY <1>3, <1>4, <2>1 DEF ChunkPlaced
    <3>2. QED
      BY <1>1, <1>3, <2>1, <3>1 DEF ChunkPlaced, Rows, InBatch, Holding, FlushPC
  <2>2. CASE kpc' = "idle" /\ kBatch' = NoBatch /\ kChunk' = {} /\ kTodo' = {}
    BY <2>2 DEF ChunkPlaced, Holding
  <2>3. QED
    BY <1>2, <2>1, <2>2
<1>10. TickHand' /\ ClosedBatchIsEmpty'
  BY <1>1 DEF TickHand, ClosedBatchIsEmpty
<1>11. Clean'
  <2>1. kBatch = NoBatch => kBatch' = NoBatch
    BY <1>2, <1>3
  <2>2. QED
    BY <1>1, <1>5, <2>1 DEF Clean
<1>12. QED
  BY <1>7, <1>8, <1>9, <1>10, <1>11

LEMMA FlushKeeps ==
  ASSUME FailoverInv, Flush
  PROVE  Rows' /\ FlushHand' /\ ChunkPlaced' /\ TickHand' /\ ClosedBatchIsEmpty' /\ Clean'
BY CreateKeeps, MoveKeeps, SubmitKeeps, SettleKeeps, FlushEdgeKeeps DEF Flush

-----------------------------------------------------------------------------
(* Orphan recovery *)

\* The variables of the flush, which recovery leaves alone.
LEMMA RecoveryLeavesFlush ==
  ASSUME Recovery
  PROVE  UNCHANGED <<kpc, kBatch, kChunk, kTodo>> /\ crashes' = crashes
<1>1. UNCHANGED <<kpc, kBatch, kChunk, kTodo>>
  BY DEF Recovery, keyVars
<1>2. crashes' = crashes
  BY DEF Recovery, RecoverWork, RecoverScan, RecoverAttempt, RecoverExhausted, RecoverGather,
         RecoverAccepted, RecoverRecord, RecoverVerdict, OrphanFail, OrphanFailRead,
         OrphanFailRequest, RecoverSubmitFails, RecoverRecordFails, ScanEnds, storeVars, worldVars
<1>3. QED
  BY <1>1, <1>2

\* The scan reads: its orphans are none of the flush's, and the rest of the
\* recovery decides on what it holds.
LEMMA ScanKeeps ==
  ASSUME FailoverInv, Recovery,
         \/ RecoverScan \/ \E b \in Batches : RecoverExhausted(b)
         \/ RecoverGather \/ RecoverVerdict \/ OrphanFailRead
  PROVE  Rows' /\ FlushHand' /\ ChunkPlaced' /\ TickHand' /\ ClosedBatchIsEmpty' /\ Clean'
<1> USE IdAssumption DEF FailoverInv, FailoverTypeOK, StoreTypeOK, TickTypeOK
<1>1. /\ UNCHANGED <<reqStatus, reqBatch, batStatus, batRef, attempts, aged, jobs, faults, crashes>>
      /\ UNCHANGED <<kpc, kBatch, kChunk, kTodo>>
  BY RecoveryLeavesFlush
  DEF RecoverScan, RecoverExhausted, RecoverGather, RecoverVerdict, OrphanFailRead, storeVars,
      requestVars, batchVars, historyVars
<1>2. Rows' /\ ChunkPlaced' /\ ClosedBatchIsEmpty'
  BY <1>1 DEF Rows, ChunkPlaced, InBatch, Holding, ClosedBatchIsEmpty
<1>3. CASE RecoverScan
  <2>1. /\ tpc = "idle" /\ tpc' = "recover" /\ UNCHANGED <<tBatch, tReqs>>
        /\ tTodo' = Orphans /\ \A b \in Batches : tRows'[b].attempts = attempts[b]
    BY <1>3 DEF RecoverScan, RowsNow
  <2>2. \A b \in Orphans : batStatus[b] = "pending" /\ batRef[b] = {} /\ aged[b] /\ b \in Batches
    BY DEF Orphans
  <2>3. FlushHand'
    BY <1>1, <2>1, <2>2 DEF FlushHand, Holding
  <2>4. TickHand'
    BY <1>1, <2>1, <2>2 DEF TickHand
  <2>5. Clean'
    <3>1. faults = 0 /\ crashes = 0 => Orphans = {}
      BY <2>2 DEF Clean, FlushHand
    <3>2. QED
      BY <1>1, <2>1, <3>1 DEF Clean
  <2>6. QED
    BY <1>2, <2>3, <2>4, <2>5
<1>4. ASSUME NEW b \in Batches, RecoverExhausted(b)
      PROVE  FlushHand' /\ TickHand' /\ Clean'
  <2>1. /\ tpc = "recover" /\ b \in tTodo /\ tRows[b].attempts >= MaxAttempts
        /\ tTodo' = tTodo \ {b} /\ tBatch' = b /\ tpc' = "fail" /\ UNCHANGED <<tRows, tReqs>>
    BY <1>4 DEF RecoverExhausted, IsFirst
  <2>2. FlushHand'
    BY <1>1, <2>1 DEF FlushHand, Holding
  <2>3. TickHand'
    BY <1>1, <2>1 DEF TickHand
  <2>4. Clean'
    BY <1>1, <2>1 DEF Clean
  <2>5. QED
    BY <2>2, <2>3, <2>4
<1>5. CASE RecoverGather \/ RecoverVerdict \/ OrphanFailRead
  <2>1. UNCHANGED <<tRows, tTodo>> /\ tBatch' \in {tBatch, NoBatch}
    BY <1>5 DEF RecoverGather, RecoverVerdict, OrphanFailRead
  <2>2. FlushHand'
    BY <1>1, <2>1 DEF FlushHand, Holding
  <2>3. TickHand'
    BY <1>1, <1>5 DEF TickHand, RecoverGather, RecoverVerdict, OrphanFailRead, RequestsOf
  <2>4. Clean'
    BY <1>1, <2>1 DEF Clean
  <2>5. QED
    BY <1>2, <2>2, <2>3, <2>4
<1>6. QED
  BY <1>2, <1>3, <1>4, <1>5

\* What recovery writes to its batch, which is not the flush's: an attempt,
\* the reference of the job, or that it failed.
LEMMA RecoveryWritesKeep ==
  ASSUME FailoverInv, Recovery,
         (\E b \in Batches : RecoverAttempt(b)) \/ RecoverRecord \/ OrphanFail
  PROVE  Rows' /\ FlushHand' /\ ChunkPlaced' /\ TickHand' /\ ClosedBatchIsEmpty' /\ Clean'
<1> USE IdAssumption DEF FailoverInv, FailoverTypeOK, StoreTypeOK, TickTypeOK
<1>1. /\ UNCHANGED <<reqStatus, reqBatch, jobs, faults, crashes>>
      /\ UNCHANGED <<kpc, kBatch, kChunk, kTodo>> /\ UNCHANGED tRows
  BY RecoveryLeavesFlush
  DEF RecoverAttempt, RecoverRecord, OrphanFail, storeVars, requestVars, historyVars
<1>2. PICK b \in Batches :
        /\ batStatus[b] = "pending" /\ b \notin tTodo' /\ ~(Holding /\ b = kBatch)
        /\ tTodo' \subseteq tTodo /\ tTodo \subseteq tTodo' \cup {b}
        /\ \A c \in Batches \ {b} : /\ batStatus'[c] = batStatus[c] /\ batRef'[c] = batRef[c]
                                 /\ attempts'[c] = attempts[c]
        /\ \A c \in Batches : aged'[c] => aged[c] /\ c # b
        /\ tBatch' \in {b, NoBatch}
        /\ batStatus'[b] \in {"pending", "submitted", "failed"}
        /\ batStatus'[b] = "failed" => attempts'[b] >= MaxAttempts
        /\ b \in tTodo \/ b = tBatch
        /\ \/ /\ tpc = "recover" /\ tpc' = "gather" /\ tBatch' = b /\ UNCHANGED <<tReqs, batStatus, batRef>>
           \/ /\ tpc = "record" /\ tpc' = "recover" /\ tBatch' = NoBatch /\ tReqs' = {}
           \/ /\ tpc = "fail" /\ tpc' = "failread" /\ tBatch' = b /\ UNCHANGED tReqs
              /\ batStatus'[b] = "failed" /\ attempts' = attempts
  <2>1. ASSUME NEW b \in Batches, RecoverAttempt(b)
        PROVE  /\ tpc = "recover" /\ b \in tTodo /\ tTodo' = tTodo \ {b} /\ tBatch' = b /\ tpc' = "gather"
               /\ UNCHANGED <<tReqs, batStatus, batRef>>
               /\ attempts' = [attempts EXCEPT ![b] = tRows[b].attempts + 1]
               /\ aged' = [aged EXCEPT ![b] = FALSE]
    BY <2>1 DEF RecoverAttempt, SetAttempts, IsFirst
  <2>2. CASE \E b \in Batches : RecoverAttempt(b)
    BY <2>1, <2>2 DEF TickHand, FlushHand
  <2>3. CASE RecoverRecord
    BY <2>3 DEF RecoverRecord, RecordSubmission, TickHand, FlushHand
  <2>4. CASE OrphanFail
    BY <2>4 DEF OrphanFail, SetBatchStatus, TickHand, FlushHand
  <2>5. QED
    BY <2>2, <2>3, <2>4
<1>3. Rows'
  BY <1>1, <1>2 DEF Rows
<1>4. FlushHand'
  BY <1>1, <1>2 DEF FlushHand, Holding
<1>5. ChunkPlaced'
  BY <1>1 DEF ChunkPlaced, InBatch, Holding
<1>6. TickHand'
  <2>1. \A c \in tTodo' : /\ batStatus'[c] = "pending" /\ batRef'[c] = {} /\ c # tBatch'
                          /\ tRows'[c].attempts = attempts'[c]
    BY <1>1, <1>2 DEF TickHand
  <2>2. CASE tpc = "recover"
    BY <1>1, <1>2, <2>1, <2>2 DEF TickHand
  <2>3. CASE tpc = "record"
    BY <1>1, <1>2, <2>1, <2>3 DEF TickHand
  <2>4. CASE tpc = "fail"
    BY <1>1, <1>2, <2>1, <2>4 DEF TickHand
  <2>5. QED
    BY <1>2, <2>2, <2>3, <2>4
<1>7. ClosedBatchIsEmpty'
  BY <1>1, <1>2 DEF ClosedBatchIsEmpty
<1>8. Clean'
  BY <1>1, <1>2 DEF Clean
<1>9. QED
  BY <1>3, <1>4, <1>5, <1>6, <1>7, <1>8

\* The provider is called, and answers or not; the record of the answer may
\* fail.
LEMMA ResubmitKeeps ==
  ASSUME FailoverInv, Recovery, RecoverAccepted \/ RecoverSubmitFails \/ RecoverRecordFails
  PROVE  Rows' /\ FlushHand' /\ ChunkPlaced' /\ TickHand' /\ ClosedBatchIsEmpty' /\ Clean'
<1> USE IdAssumption DEF FailoverInv, FailoverTypeOK, StoreTypeOK, TickTypeOK
<1>1. /\ UNCHANGED <<reqStatus, reqBatch, batStatus, batRef, attempts, aged, tRows, tTodo, tBatch>>
      /\ UNCHANGED <<kpc, kBatch, kChunk, kTodo, crashes>>
      /\ tpc \in {"resubmit", "record"}
      /\ \/ tpc' = "record" /\ tpc = "resubmit" /\ UNCHANGED tReqs
         \/ tpc' = "verdict" /\ tReqs' = {}
  BY RecoveryLeavesFlush
  DEF RecoverAccepted, RecoverSubmitFails, RecoverRecordFails, requestVars, batchVars
<1>2. \A r \in Requests \ tReqs : jobs'[r] = jobs[r]
  BY DEF RecoverAccepted, RecoverSubmitFails, RecoverRecordFails, ProviderAccepts,
         ProviderRejects, historyVars
<1>3. \A r \in tReqs : reqBatch[r] = tBatch /\ tBatch \in Batches
  BY <1>1 DEF TickHand
<1>4. \A r \in kChunk : r \notin tReqs
  BY <1>3 DEF ChunkPlaced, InBatch, Rows, FlushHand, Holding, FlushPC
<1>5. Rows'
  BY <1>1, <1>2, <1>3 DEF Rows
<1>6. FlushHand' /\ ClosedBatchIsEmpty'
  BY <1>1 DEF FlushHand, Holding, ClosedBatchIsEmpty
<1>7. ChunkPlaced'
  BY <1>1, <1>2, <1>4 DEF ChunkPlaced, InBatch, Holding
<1>8. TickHand'
  BY <1>1 DEF TickHand
<1>9. Clean'
  <2>1. tBatch # NoBatch
    BY <1>1 DEF TickHand
  <2>2. ~(faults = 0 /\ crashes = 0)
    BY <2>1 DEF Clean
  <2>3. faults' = faults \/ faults' \in 1..MaxFaults
    BY FaultCount DEF RecoverAccepted, RecoverSubmitFails, RecoverRecordFails
  <2>4. QED
    BY <1>1, <2>2, <2>3, LimitAssumption DEF Clean
<1>10. QED
  BY <1>5, <1>6, <1>7, <1>8, <1>9

\* A request of the failed batch is failed; the scan ends, well or with an
\* error.
LEMMA RecoveryEndKeeps ==
  ASSUME FailoverInv, Recovery, (\E r \in Requests : OrphanFailRequest(r)) \/ ScanEnds
  PROVE  Rows' /\ FlushHand' /\ ChunkPlaced' /\ TickHand' /\ ClosedBatchIsEmpty' /\ Clean'
<1> USE IdAssumption DEF FailoverInv, FailoverTypeOK, StoreTypeOK, TickTypeOK
<1>1. /\ UNCHANGED <<reqBatch, batStatus, batRef, attempts, aged, jobs>>
      /\ UNCHANGED <<kpc, kBatch, kChunk, kTodo, crashes>>
      /\ tBatch' \in {tBatch, NoBatch} /\ tTodo' \subseteq tTodo
  BY RecoveryLeavesFlush
  DEF OrphanFailRequest, ScanEnds, SetStatus, TickReset, storeVars, requestVars, batchVars,
      historyVars
<1>2. FlushHand'
  BY <1>1 DEF FlushHand, Holding
<1>3. CASE ScanEnds
  <2>1. UNCHANGED reqStatus /\ tpc' = "idle" /\ tTodo' = {} /\ tBatch' = NoBatch /\ tReqs' = {}
    BY <1>3 DEF ScanEnds, TickReset, storeVars, requestVars
  <2>2. Rows' /\ ChunkPlaced' /\ ClosedBatchIsEmpty' /\ TickHand'
    BY <1>1, <2>1 DEF Rows, ChunkPlaced, InBatch, Holding, ClosedBatchIsEmpty, TickHand
  <2>3. faults' = faults \/ faults' \in 1..MaxFaults
    BY <1>3, FaultCount DEF ScanEnds, storeVars
  <2>4. Clean'
    BY <1>1, <2>1, <2>3 DEF Clean
  <2>5. QED
    BY <1>2, <2>2, <2>4
<1>4. ASSUME NEW r \in Requests, OrphanFailRequest(r)
      PROVE  Rows' /\ ChunkPlaced' /\ ClosedBatchIsEmpty' /\ TickHand' /\ Clean'
  <2>1. /\ tpc = "failing" /\ r \in tReqs /\ reqStatus' = [reqStatus EXCEPT ![r] = "failed"]
        /\ tReqs' = tReqs \ {r} /\ UNCHANGED <<tRows, tTodo, faults>>
        /\ tpc' = IF tReqs = {r} THEN "recover" ELSE "failing"
        /\ tBatch' = IF tReqs = {r} THEN NoBatch ELSE tBatch
    BY <1>4 DEF OrphanFailRequest, SetStatus, IsFirst
  <2>2. r \notin kChunk
    BY <2>1 DEF TickHand, ChunkPlaced, InBatch, Rows, FlushHand, Holding, FlushPC
  <2>3. Rows' /\ ClosedBatchIsEmpty'
    BY <1>1, <2>1 DEF Rows, ClosedBatchIsEmpty
  <2>4. ChunkPlaced'
    BY <1>1, <2>1, <2>2 DEF ChunkPlaced, InBatch, Holding
  <2>5. TickHand'
    BY <1>1, <2>1 DEF TickHand
  <2>6. Clean'
    BY <1>1, <2>1 DEF Clean
  <2>7. QED
    BY <2>3, <2>4, <2>5, <2>6
<1>5. QED
  BY <1>2, <1>3, <1>4

LEMMA RecoveryKeeps ==
  ASSUME FailoverInv, Recovery
  PROVE  Rows' /\ FlushHand' /\ ChunkPlaced' /\ TickHand' /\ ClosedBatchIsEmpty' /\ Clean'
BY ScanKeeps, RecoveryWritesKeep, ResubmitKeeps, RecoveryEndKeeps DEF Recovery, RecoverWork

-----------------------------------------------------------------------------
(* The surroundings, and the specification *)

LEMMA SurroundingsKeep ==
  ASSUME FailoverInv,
         \/ \E r \in Requests : Enqueue(r)
         \/ \E k \in Keys : SetRevoked(k)
         \/ \E b \in Batches : Age(b)
         \/ Crash
         \/ UNCHANGED vars
  PROVE  Rows' /\ FlushHand' /\ ChunkPlaced' /\ TickHand' /\ ClosedBatchIsEmpty' /\ Clean'
<1> USE IdAssumption DEF FailoverInv, FailoverTypeOK, StoreTypeOK, TickTypeOK
<1>1. ASSUME NEW r \in Requests, Enqueue(r)
      PROVE  Rows' /\ FlushHand' /\ ChunkPlaced' /\ TickHand' /\ ClosedBatchIsEmpty' /\ Clean'
  <2>1. /\ reqStatus[r] = "absent" /\ reqStatus' = [reqStatus EXCEPT ![r] = "queued"]
        /\ UNCHANGED <<reqBatch, batStatus, batRef, attempts, aged, jobs, faults, crashes>>
        /\ UNCHANGED <<tpc, tRows, tTodo, tBatch, tReqs, kpc, kBatch, kChunk, kTodo>>
    BY <1>1 DEF Enqueue, SetStatus, IsFirst, batchVars, historyVars, worldVars, tickVars, keyVars
  <2>2. r \notin kChunk
    BY <2>1 DEF ChunkPlaced
  <2>3. Rows' /\ FlushHand' /\ TickHand' /\ ClosedBatchIsEmpty' /\ Clean'
    BY <2>1 DEF Rows, FlushHand, Holding, TickHand, ClosedBatchIsEmpty, Clean
  <2>4. ChunkPlaced'
    BY <2>1, <2>2 DEF ChunkPlaced, InBatch, Holding
  <2>5. QED
    BY <2>3, <2>4
<1>2. CASE (\E k \in Keys : SetRevoked(k)) \/ UNCHANGED vars
  <2>1. /\ UNCHANGED <<reqStatus, reqBatch, batStatus, batRef, attempts, aged, jobs>>
        /\ UNCHANGED <<faults, crashes>>
        /\ UNCHANGED <<tpc, tRows, tTodo, tBatch, tReqs, kpc, kBatch, kChunk, kTodo>>
    BY <1>2 DEF SetRevoked, vars, storeVars, requestVars, batchVars, historyVars, worldVars,
                tickVars, keyVars
  <2>2. QED
    BY <2>1 DEF Rows, FlushHand, Holding, ChunkPlaced, InBatch, TickHand, ClosedBatchIsEmpty, Clean
<1>3. ASSUME NEW b \in Batches, Age(b)
      PROVE  Rows' /\ FlushHand' /\ ChunkPlaced' /\ TickHand' /\ ClosedBatchIsEmpty' /\ Clean'
  <2>1. /\ batStatus[b] = "pending" /\ kBatch # b /\ aged' = [aged EXCEPT ![b] = TRUE]
        /\ UNCHANGED <<reqStatus, reqBatch, batStatus, batRef, attempts, jobs, faults, crashes>>
        /\ UNCHANGED <<tpc, tRows, tTodo, tBatch, tReqs, kpc, kBatch, kChunk, kTodo>>
    BY <1>3 DEF Age, requestVars, historyVars, worldVars, tickVars, keyVars
  <2>2. QED
    BY <2>1 DEF Rows, FlushHand, Holding, ChunkPlaced, InBatch, TickHand, ClosedBatchIsEmpty, Clean
<1>4. CASE Crash
  <2>1. /\ crashes' > 0 /\ kpc' = "idle" /\ kBatch' = NoBatch /\ kChunk' = {} /\ kTodo' = {}
        /\ tpc' = "idle" /\ tTodo' = {} /\ tBatch' = NoBatch /\ tReqs' = {}
        /\ UNCHANGED <<reqStatus, reqBatch, batStatus, batRef, attempts, aged, jobs>>
    BY <1>4 DEF Crash, FlushDone, TickReset, requestVars, batchVars, historyVars
  <2>2. QED
    BY <2>1 DEF Rows, FlushHand, Holding, ChunkPlaced, InBatch, TickHand, ClosedBatchIsEmpty, Clean
<1>5. QED
  BY <1>1, <1>2, <1>3, <1>4

\* The inductive invariant of the failover flush and the recovery beside it.
THEOREM FailoverInvariant == Spec => []FailoverInv
<1>1. FailoverInv /\ [Next]_vars => FailoverInv'
  <2> SUFFICES ASSUME FailoverInv, [Next]_vars PROVE FailoverInv'
    OBVIOUS
  <2>1. FailoverTypeOK'
    BY FailoverKeepsTypes DEF FailoverInv
  <2>2. Rows' /\ FlushHand' /\ ChunkPlaced' /\ TickHand' /\ ClosedBatchIsEmpty' /\ Clean'
    BY FlushKeeps, RecoveryKeeps, SurroundingsKeep DEF Next
  <2>3. QED
    BY <2>1, <2>2 DEF FailoverInv
<1>2. QED
  BY <1>1, InitFailover, PTL DEF Spec

\* Types of KeyFailover's variables: what the flush and recovery hold are
\* batches and requests, and counters stay within the bounds.
THEOREM FailoverTypesHold == Spec => []FailoverTypeOK
BY FailoverInvariant, PTL DEF FailoverInv

\* For any keys, priorities and numbers of requests, batches, faults and
\* crashes: what a flush submits is in no provider job yet.
THEOREM FlushAlwaysSubmitsFresh == Spec => []FlushSubmitsFresh
<1>1. FailoverInv => FlushSubmitsFresh
  BY DEF FailoverInv, ChunkPlaced, FlushSubmitsFresh
<1>2. QED
  BY <1>1, FailoverInvariant, PTL

\* Likewise: no request is left batched in a batch that failover has closed.
THEOREM ClosedBatchAlwaysEmpty == Spec => []ClosedBatchIsEmpty
BY FailoverInvariant, PTL DEF FailoverInv

\* Likewise: refusals alone leave no pending batch and no request that waits
\* in a batch which was not submitted.
THEOREM FailoverNeverLeavesAny == Spec => []FailoverLeavesNothing
<1>1. FailoverInv => FailoverLeavesNothing
  <2> SUFFICES ASSUME FailoverInv, kpc = "idle", faults = 0, crashes = 0
               PROVE  /\ \A b \in Batches : batStatus[b] # "pending"
                      /\ \A r \in Requests :
                           reqStatus[r] = "batched" => batStatus[reqBatch[r]] = "submitted"
    BY DEF FailoverLeavesNothing
  <2>1. kBatch = NoBatch
    BY DEF FailoverInv, FlushHand, Holding
  <2>2. QED
    BY <2>1, IdAssumption DEF FailoverInv, Clean, Rows
<1>2. QED
  BY <1>1, FailoverInvariant, PTL
=============================================================================
