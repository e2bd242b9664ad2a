---------------------------- MODULE EngineProofs ----------------------------
(***************************************************************************)
(* Type correctness of Engine, and the two safety properties of batch      *)
(* submission, for all values of the constants.                            *)
(***************************************************************************)
EXTENDS Engine, TLAPS

USE DEF NoBatch

-----------------------------------------------------------------------------
(* What the operations of the store preserve *)

\* A LIMIT query returns rows of its table.
LEMMA OldestSubset ==
  ASSUME NEW S, NEW n
  PROVE  Oldest(S, n) \subseteq S
BY DEF Oldest

\* The empty database and a process without work are well typed.
LEMMA InitTypes == Init => TypeOK
<1> SUFFICES ASSUME Init PROVE TypeOK
  OBVIOUS
<1>1. StoreTypeOK
  BY LimitAssumption DEF Init, StoreInit, StoreTypeOK, RequestStatus, BatchStatus
<1>2. FlushTypeOK
  BY DEF Init, FlushInit, FlushTypeOK, FlushPC
<1>3. TickTypeOK
  BY LimitAssumption DEF Init, TickInit, TickTypeOK, TickPC, NoRows, Row, BatchStatus
<1>4. HandlerTypeOK
  BY DEF Init, HandlerInit, HandlerTypeOK, HandlerPC, NoResult
<1>5. QED
  BY <1>1, <1>2, <1>3, <1>4 DEF TypeOK

\* The history counters stay natural numbers when the provider is called.
LEMMA ProviderTypes ==
  ASSUME StoreTypeOK, NEW b, NEW S,
         ProviderAccepts(b, S) \/ ProviderRejects(b)
  PROVE  calls' \in [Batches -> Nat] /\ jobs' \in [Requests -> Nat]
<1>1. calls' = [calls EXCEPT ![b] = calls[b] + 1]
  BY DEF ProviderAccepts, ProviderRejects
<1>2. calls' \in [Batches -> Nat]
  <2>1. calls \in [Batches -> Nat]
    BY DEF StoreTypeOK
  <2>2. \A c \in Batches : calls[c] \in Nat /\ calls[c] + 1 \in Nat
    BY <2>1
  <2>3. QED
    BY <1>1, <2>1, <2>2
<1>3. jobs' \in [Requests -> Nat]
  <2>1. CASE ProviderRejects(b)
    BY <2>1 DEF ProviderRejects, StoreTypeOK
  <2>2. CASE ProviderAccepts(b, S)
    <3>1. \A r \in Requests : jobs[r] \in Nat
      BY DEF StoreTypeOK
    <3>2. jobs' = [r \in Requests |-> IF r \in S THEN jobs[r] + 1 ELSE jobs[r]]
      BY <2>2 DEF ProviderAccepts
    <3>3. \A r \in Requests : (IF r \in S THEN jobs[r] + 1 ELSE jobs[r]) \in Nat
      BY <3>1
    <3>4. QED
      BY <3>2, <3>3
  <2>3. QED
    BY <2>1, <2>2
<1>4. QED
  BY <1>2, <1>3

\* A counted failure keeps the count within its bound.
LEMMA FaultTypes ==
  ASSUME NEW kind, StoreTypeOK, Fault(kind)
  PROVE  faults' \in 0..MaxFaults
BY LimitAssumption DEF Fault, StoreTypeOK

\* A step of the flush: ids come from what was read, statuses from the schema.
LEMMA FlushTypes ==
  ASSUME TypeOK, Flush
  PROVE  TypeOK'
<1> USE DEF Flush, TypeOK, StoreTypeOK, FlushTypeOK, TickTypeOK, HandlerTypeOK,
        storeVars, requestVars, batchVars, historyVars, worldVars, tickVars,
        handlerVars
<1>1. CASE FlushRead
  BY <1>1, OldestSubset DEF FlushRead, QueuedRequests, Submittable
<1>2. CASE \E r \in Requests : FlushRetire(r)
  BY <1>2 DEF FlushRetire, SetStatus, RequestStatus
<1>3. CASE \E r \in Requests : FlushRevert(r)
  BY <1>3 DEF FlushRevert, Requeue, RequestStatus, FlushPC
<1>4. CASE \E g \in Groups, b \in Batches : FlushCreate(g, b)
  BY <1>4, OldestSubset DEF FlushCreate, CreateBatch, NextChunk, BatchStatus, FlushPC
<1>5. CASE FlushAssign
  BY <1>5 DEF FlushAssign, AssignBatch, RequestStatus, FlushPC
<1>6. CASE FlushAttempt
  <2>1. attempts' = [attempts EXCEPT ![fBatch] = 1]
    BY <1>6 DEF FlushAttempt, SetAttempts
  <2>2. 1 \in 0..MaxAttempts
    BY LimitAssumption
  <2>3. attempts' \in [Batches -> 0..MaxAttempts]
    BY <2>1, <2>2
  <2>4. QED
    BY <1>6, <2>3 DEF FlushAttempt, SetAttempts, FlushPC
<1>7. CASE FlushAccepted
  <2>1. calls' \in [Batches -> Nat] /\ jobs' \in [Requests -> Nat]
    BY <1>7, ProviderTypes DEF FlushAccepted
  <2>2. QED
    BY <1>7, <2>1 DEF FlushAccepted, FlushPC
<1>8. CASE FlushRecord
  BY <1>8 DEF FlushRecord, RecordSubmission, FlushPC, BatchStatus
<1>9. CASE FlushSubmitFails
  <2>1. calls' \in [Batches -> Nat] /\ jobs' \in [Requests -> Nat]
    BY <1>9, ProviderTypes DEF FlushSubmitFails
  <2>2. faults' \in 0..MaxFaults
    BY <1>9, FaultTypes DEF FlushSubmitFails
  <2>3. QED
    BY <1>9, <2>1, <2>2 DEF FlushSubmitFails, FlushPC
<1>10. CASE FlushRecordFails
  BY <1>10, FaultTypes DEF FlushRecordFails, FlushPC
<1>11. CASE FlushThrows
  BY <1>11, FaultTypes DEF FlushThrows, FlushReset, FlushPC
<1>12. QED
  BY <1>1, <1>2, <1>3, <1>4, <1>5, <1>6, <1>7, <1>8, <1>9, <1>10, <1>11
  DEF FlushNext, FlushWork

\* The tick and what it shares with the flush.
LEMMA TickTypes ==
  ASSUME TypeOK, Tick
  PROVE  TypeOK'
<1> USE DEF Tick, TypeOK, StoreTypeOK, FlushTypeOK, TickTypeOK, HandlerTypeOK,
        storeVars, requestVars, batchVars, historyVars, worldVars, flushVars,
        handlerVars
<1>1. CASE RecoverScan /\ UNCHANGED handlerVars
  <2>1. RowsNow \in [Batches -> Row]
    BY DEF RowsNow, Row
  <2>2. QED
    BY <1>1, <2>1 DEF RecoverScan, Orphans, TickPC
<1>2. CASE (\E b \in Batches : RecoverAttempt(b)) /\ UNCHANGED handlerVars
  <2>1. PICK b \in Batches : RecoverAttempt(b)
    BY <1>2
  <2>2. attempts' = [attempts EXCEPT ![b] = tRows[b].attempts + 1]
    BY <2>1 DEF RecoverAttempt, SetAttempts
  <2>3. tRows[b].attempts + 1 \in 0..MaxAttempts
    BY <2>1, LimitAssumption DEF RecoverAttempt, Row
  <2>4. attempts' \in [Batches -> 0..MaxAttempts]
    BY <2>2, <2>3
  <2>5. QED
    BY <1>2, <2>1, <2>4 DEF RecoverAttempt, SetAttempts, TickPC
<1>3. CASE (\E b \in Batches : RecoverExhausted(b)) /\ UNCHANGED handlerVars
  BY <1>3 DEF RecoverExhausted, TickPC
<1>4. CASE RecoverGather /\ UNCHANGED handlerVars
  BY <1>4 DEF RecoverGather, RequestsOf, TickPC
<1>5. CASE RecoverAccepted /\ UNCHANGED handlerVars
  <2>1. calls' \in [Batches -> Nat] /\ jobs' \in [Requests -> Nat]
    BY <1>5, ProviderTypes DEF RecoverAccepted
  <2>2. QED
    BY <1>5, <2>1 DEF RecoverAccepted, TickPC
<1>6. CASE RecoverRecord /\ UNCHANGED handlerVars
  BY <1>6 DEF RecoverRecord, RecordSubmission, TickPC, BatchStatus
<1>7. CASE RecoverVerdict /\ UNCHANGED handlerVars
  BY <1>7 DEF RecoverVerdict, TickPC
<1>8. CASE OrphanFail /\ UNCHANGED handlerVars
  BY <1>8 DEF OrphanFail, SetBatchStatus, TickPC, BatchStatus
<1>9. CASE OrphanFailRead /\ UNCHANGED handlerVars
  BY <1>9 DEF OrphanFailRead, RequestsOf, TickPC
<1>10. CASE (\E r \in Requests : OrphanFailRequest(r)) /\ UNCHANGED handlerVars
  BY <1>10 DEF OrphanFailRequest, SetStatus, TickPC, RequestStatus
<1>11. CASE PollScan
  <2>1. RowsNow \in [Batches -> Row]
    BY DEF RowsNow, Row
  <2>2. QED
    BY <1>11, <2>1 DEF PollScan, InFlight, TickPC
<1>12. CASE \E b \in Batches : PollSkips(b)
  BY <1>12 DEF PollSkips
<1>13. ASSUME NEW b \in Batches, NEW s \in BatchStatus, PollSees(b, s)
       PROVE  TypeOK'
  <2>1. hpc' \in [Batches -> HandlerPC]
    <3>1. Emit(b, s)
      BY <1>13 DEF PollSees
    <3>2. \/ UNCHANGED hpc
          \/ hpc' = [hpc EXCEPT ![b] = "completed"]
          \/ hpc' = [hpc EXCEPT ![b] = "expired"]
      BY <3>1 DEF Emit, Goto
    <3>3. QED
      BY <3>2 DEF HandlerPC
  <2>2. QED
    BY <1>13, <2>1 DEF PollSees, SetBatchStatus
<1>14. CASE \E b \in Batches : PollSees(b, "processing") \/ PollSeesEnd(b)
  <2>1. PICK b \in Batches : PollSees(b, "processing") \/ PollSeesEnd(b)
    BY <1>14
  <2>2. PICK s \in BatchStatus : PollSees(b, s)
    <3>1. "processing" \in BatchStatus /\ ProviderOutcomes \subseteq BatchStatus
      BY OutcomeAssumption DEF BatchStatus, Terminal
    <3>2. QED
      BY <2>1, <3>1 DEF PollSeesEnd
  <2>3. QED
    BY <2>2, <1>13
<1>15. ASSUME TickReset PROVE TickTypeOK'
  BY <1>15, LimitAssumption DEF TickReset, NoRows, Row, BatchStatus, TickPC
<1>16. CASE TickDone
  BY <1>15, <1>16 DEF TickDone
<1>17. CASE TickThrows
  BY <1>15, <1>17, FaultTypes DEF TickThrows
<1>18. CASE RecoverSubmitFails /\ UNCHANGED handlerVars
  <2>1. calls' \in [Batches -> Nat] /\ jobs' \in [Requests -> Nat]
    BY <1>18, ProviderTypes DEF RecoverSubmitFails
  <2>2. faults' \in 0..MaxFaults
    BY <1>18, FaultTypes DEF RecoverSubmitFails
  <2>3. QED
    BY <1>18, <2>1, <2>2 DEF RecoverSubmitFails, TickPC
<1>19. CASE RecoverRecordFails /\ UNCHANGED handlerVars
  BY <1>19, FaultTypes DEF RecoverRecordFails, TickPC
<1>20. QED
  BY <1>1, <1>2, <1>3, <1>4, <1>5, <1>6, <1>7, <1>8, <1>9, <1>10, <1>11, <1>12,
     <1>14, <1>16, <1>17, <1>18, <1>19
  DEF TickNext, TickWork, RecoverWork

\* A result handler.
LEMMA HandlerTypes ==
  ASSUME TypeOK, NEW b \in Batches, Handler(b)
  PROVE  TypeOK'
<1> USE DEF Handler, TypeOK, StoreTypeOK, FlushTypeOK, TickTypeOK, HandlerTypeOK,
        storeVars, requestVars, batchVars, historyVars, worldVars, flushVars,
        tickVars, Goto
<1>1. CASE IngestStart(b)
  BY <1>1 DEF IngestStart, HandlerPC
<1>2. CASE IngestStatus(b)
  BY <1>2 DEF IngestStatus, SetStatus, HandlerPC, RequestStatus, NoResult
<1>3. CASE IngestDone(b)
  BY <1>3 DEF IngestDone, HandlerPC
<1>4. CASE \E r \in Requests, ok \in BOOLEAN : IngestResult(b, r, ok)
  BY <1>4 DEF IngestResult, CreateResult, HandlerPC
<1>5. CASE ExpireRead(b)
  BY <1>5 DEF ExpireRead, RequestsOf, HandlerPC
<1>6. CASE \E r \in Requests : ExpireRequest(b, r)
  BY <1>6 DEF ExpireRequest, SetStatus, HandlerPC, RequestStatus
<1>7. CASE RepackageRead(b)
  BY <1>7 DEF RepackageRead, RequestsOf, HandlerPC
<1>8. CASE \E row \in Requests \X (0..MaxRetries) : RepackageRequest(b, row)
  <2>1. PICK row \in Requests \X (0..MaxRetries) : RepackageRequest(b, row)
    BY <1>8
  <2>2. row[1] \in Requests /\ row[2] \in 0..MaxRetries
    BY <2>1
  <2>3. hpc' \in [Batches -> HandlerPC] /\ hRows' \in [Batches -> SUBSET (Requests \X (0..MaxRetries))]
    BY <2>1 DEF RepackageRequest, HandlerPC
  <2>4. CASE row[2] < MaxRetries /\ Requeue(row[1], row[2] + 1)
    <3>1. row[2] + 1 \in 0..MaxRetries
      BY <2>2, <2>4, LimitAssumption
    <3>2. retryCount' = [retryCount EXCEPT ![row[1]] = row[2] + 1]
      BY <2>4 DEF Requeue
    <3>3. retryCount' \in [Requests -> 0..MaxRetries]
      BY <3>1, <3>2
    <3>4. QED
      BY <2>1, <2>3, <2>4, <3>3 DEF RepackageRequest, Requeue, RequestStatus
  <2>5. CASE SetStatus(row[1], "failed_final")
    BY <2>1, <2>3, <2>5 DEF RepackageRequest, SetStatus, RequestStatus
  <2>6. QED
    BY <2>1, <2>4, <2>5 DEF RepackageRequest, RepackageRow
<1>9. CASE \E r \in Requests : IngestSkips(b, r)
  <2>1. PICK r \in Requests : IngestSkips(b, r)
    BY <1>9
  <2>2. faults' \in 0..MaxFaults
    BY <2>1, FaultTypes DEF IngestSkips
  <2>3. hTodo' \in [Batches -> SUBSET Requests]
    BY <2>1 DEF IngestSkips
  <2>4. QED
    BY <2>1, <2>2, <2>3 DEF IngestSkips
<1>10. CASE IngestStatusFails(b)
  <2>1. faults' \in 0..MaxFaults
    BY <1>10, FaultTypes DEF IngestStatusFails
  <2>2. QED
    BY <1>10, <2>1 DEF IngestStatusFails, HandlerPC, NoResult
<1>11. CASE HandlerThrows(b)
  <2>1. faults' \in 0..MaxFaults
    BY <1>11, FaultTypes DEF HandlerThrows
  <2>2. QED
    BY <1>11, <2>1 DEF HandlerThrows, HandlerPC, NoResult
<1>12. QED
  BY <1>1, <1>2, <1>3, <1>4, <1>5, <1>6, <1>7, <1>8, <1>9, <1>10, <1>11
  DEF HandlerNext, HandlerWork

\* The API, the catalog, the clock and the crash.
LEMMA EnvironmentTypes ==
  ASSUME TypeOK, Environment
  PROVE  TypeOK'
<1> USE DEF TypeOK, StoreTypeOK, FlushTypeOK, TickTypeOK, HandlerTypeOK,
        storeVars, requestVars, batchVars, historyVars, worldVars, flushVars,
        tickVars, handlerVars
<1>1. CASE \E r \in Requests : Enqueue(r)
  BY <1>1 DEF Enqueue, SetStatus, RequestStatus
<1>2. CASE \E r \in Requests : UserRetry(r)
  BY <1>2, LimitAssumption DEF UserRetry, Requeue, RequestStatus
<1>3. CASE \E g \in Groups : Retire(g)
  BY <1>3 DEF Retire
<1>4. CASE \E b \in Batches : Age(b)
  BY <1>4 DEF Age
<1>5. CASE Crash
  <2>1. StoreTypeOK'
    BY <1>5, LimitAssumption DEF Crash
  <2>2. FlushTypeOK'
    BY <1>5 DEF Crash, FlushReset, FlushPC
  <2>3. TickTypeOK'
    BY <1>5, LimitAssumption DEF Crash, TickReset, NoRows, Row, BatchStatus, TickPC
  <2>4. HandlerTypeOK'
    BY <1>5 DEF Crash, HandlerReset, HandlerPC, NoResult
  <2>5. QED
    BY <2>1, <2>2, <2>3, <2>4
<1>6. QED
  BY <1>1, <1>2, <1>3, <1>4, <1>5 DEF Environment

\* Nothing happens.
LEMMA StutterTypes ==
  ASSUME TypeOK, UNCHANGED vars
  PROVE  TypeOK'
BY DEF TypeOK, StoreTypeOK, FlushTypeOK, TickTypeOK, HandlerTypeOK, vars,
       storeVars, requestVars, batchVars, historyVars, worldVars, flushVars,
       tickVars, handlerVars

\* Every state of the engine is well typed: in particular retry_count never
\* passes max_retries and submission_attempts never passes its cap, whatever
\* stale rows recovery and the repackager count from.
THEOREM TypeCorrect == Spec => []TypeOK
<1>1. TypeOK /\ [Next]_vars => TypeOK'
  BY FlushTypes, TickTypes, HandlerTypes, EnvironmentTypes, StutterTypes DEF Next
<1>2. QED
  BY InitTypes, <1>1, PTL DEF Spec

-----------------------------------------------------------------------------
(* Submission: the inductive invariant SubmissionInv of Engine *)

\* Nothing is submitted before the first batch row exists.
LEMMA InitSubmission == Init => SubmissionInv
BY DEF Init, StoreInit, FlushInit, TickInit, NoRows, SubmissionInv, FlushHolds,
       FlushAlone, Unborn, TickHolds, SnapshotCurrent, SnapshotRefs, TurnsCounted,
       FlushTurn, TickTurn, InFlightHasRef, InFlight

\* What SubmissionInv talks about.
LEMMA SubmissionFrame ==
  ASSUME SubmissionInv, UNCHANGED <<batchVars, calls, fpc, fBatch, fChunk, tickVars>>
  PROVE  SubmissionInv'
BY DEF batchVars, tickVars, SubmissionInv, FlushHolds, FlushAlone, Unborn, TickHolds,
       SnapshotCurrent, SnapshotRefs, TurnsCounted, FlushTurn, TickTurn,
       InFlightHasRef, InFlight

\* The flush: it creates its batch, and writes the attempt before it calls the
\* provider and the reference before the tracker can find the batch in flight.
LEMMA FlushSubmission ==
  ASSUME TypeOK, SubmissionInv, Flush
  PROVE  SubmissionInv'
<1> USE DEF Flush, TypeOK, StoreTypeOK, FlushTypeOK, TickTypeOK, SubmissionInv,
        FlushHolds, FlushAlone, Unborn, TickHolds, SnapshotCurrent, SnapshotRefs,
        TurnsCounted, FlushTurn, TickTurn, InFlightHasRef, InFlight,
        batchVars, historyVars, tickVars
<1>1. CASE FlushRead
  BY <1>1, SubmissionFrame DEF FlushRead, storeVars
<1>2. CASE \E r \in Requests : FlushRetire(r)
  BY <1>2, SubmissionFrame DEF FlushRetire
<1>3. CASE \E r \in Requests : FlushRevert(r)
  BY <1>3 DEF FlushRevert
<1>4. CASE \E g \in Groups, b \in Batches : FlushCreate(g, b)
  BY <1>4, IdAssumption DEF FlushCreate, CreateBatch, IsFirst
<1>5. CASE FlushAssign
  BY <1>5 DEF FlushAssign
<1>6. CASE FlushAttempt
  BY <1>6 DEF FlushAttempt, SetAttempts
<1>7. CASE FlushAccepted
  BY <1>7 DEF FlushAccepted, ProviderAccepts
<1>8. CASE FlushRecord
  BY <1>8 DEF FlushRecord, RecordSubmission
<1>9. CASE FlushSubmitFails
  BY <1>9 DEF FlushSubmitFails, ProviderRejects, ProviderAccepts
<1>10. CASE FlushRecordFails
  BY <1>10 DEF FlushRecordFails
<1>11. CASE FlushThrows
  BY <1>11 DEF FlushThrows, FlushReset
<1>12. QED
  BY <1>1, <1>2, <1>3, <1>4, <1>5, <1>6, <1>7, <1>8, <1>9, <1>10, <1>11
  DEF FlushNext, FlushWork

\* Recovery and polling: an attempt is counted from a row that is still current,
\* and a batch leaves pending with a reference or as failed.
LEMMA TickSubmission ==
  ASSUME TypeOK, SubmissionInv, Tick
  PROVE  SubmissionInv'
<1> USE DEF Tick, TypeOK, StoreTypeOK, FlushTypeOK, TickTypeOK, SubmissionInv,
        FlushHolds, FlushAlone, Unborn, TickHolds, SnapshotCurrent, SnapshotRefs,
        TurnsCounted, FlushTurn, TickTurn, InFlightHasRef, InFlight,
        batchVars, historyVars, flushVars
<1>1. CASE RecoverScan
  BY <1>1 DEF RecoverScan, Orphans, RowsNow, storeVars
<1>2. CASE \E b \in Batches : RecoverAttempt(b)
  BY <1>2 DEF RecoverAttempt, SetAttempts, IsFirst
<1>3. CASE \E b \in Batches : RecoverExhausted(b)
  BY <1>3 DEF RecoverExhausted, IsFirst, storeVars
<1>4. CASE RecoverGather
  BY <1>4 DEF RecoverGather, storeVars
<1>5. CASE RecoverAccepted
  BY <1>5 DEF RecoverAccepted, ProviderAccepts
<1>6. CASE RecoverRecord
  BY <1>6, IdAssumption DEF RecoverRecord, RecordSubmission
<1>7. CASE RecoverVerdict
  BY <1>7, IdAssumption DEF RecoverVerdict, storeVars
<1>8. CASE OrphanFail
  BY <1>8 DEF OrphanFail, SetBatchStatus
<1>9. CASE OrphanFailRead
  BY <1>9, IdAssumption DEF OrphanFailRead, storeVars
<1>10. CASE \E r \in Requests : OrphanFailRequest(r)
  BY <1>10, IdAssumption DEF OrphanFailRequest
<1>11. CASE PollScan
  BY <1>11 DEF PollScan, RowsNow, storeVars
<1>12. CASE \E b \in Batches : PollSkips(b)
  BY <1>12 DEF PollSkips, storeVars
<1>13. ASSUME NEW b \in Batches, NEW s \in Terminal \cup {"processing"}, PollSees(b, s)
       PROVE  SubmissionInv'
  <2>1. /\ tpc = "poll" /\ tpc' = tpc /\ b \in tTodo /\ tRows[b].ref # {}
        /\ batStatus' = [batStatus EXCEPT ![b] = s]
        /\ aged' = [aged EXCEPT ![b] = FALSE]
        /\ tTodo' = tTodo \ {b}
        /\ UNCHANGED <<batRef, attempts, calls, fpc, fBatch, fChunk, tRows, tBatch, tReqs>>
    BY <1>13 DEF PollSees, SetBatchStatus, IsFirst
  <2>2. s \notin {"absent", "pending"}
    BY DEF Terminal
  <2>3. FlushHolds' /\ FlushAlone'
    BY <2>1, <2>2
  <2>4. Unborn' /\ TickHolds' /\ SnapshotCurrent' /\ SnapshotRefs'
    BY <2>1, <2>2
  <2>5. TurnsCounted'
    BY <2>1
  <2>6. InFlightHasRef'
    BY <2>1, <2>2
  <2>7. QED
    BY <2>3, <2>4, <2>5, <2>6
<1>14. CASE \E b \in Batches : PollSees(b, "processing") \/ PollSeesEnd(b)
  <2>1. PICK b \in Batches : PollSees(b, "processing") \/ PollSeesEnd(b)
    BY <1>14
  <2>2. PICK s \in Terminal \cup {"processing"} : PollSees(b, s)
    BY <2>1, OutcomeAssumption DEF PollSeesEnd
  <2>3. QED
    BY <2>2, <1>13
<1>15. CASE TickDone \/ TickThrows
  <2>1. TickReset /\ UNCHANGED <<batStatus, batRef, attempts, aged, calls, fpc, fBatch, fChunk>>
    BY <1>15 DEF TickDone, TickThrows, storeVars
  <2>2. FlushHolds' /\ FlushAlone'
    BY <2>1, IdAssumption DEF TickReset
  <2>3. Unborn' /\ TickHolds' /\ SnapshotCurrent' /\ SnapshotRefs'
    BY <2>1 DEF TickReset, NoRows
  <2>4. TurnsCounted'
    BY <2>1 DEF TickReset
  <2>5. InFlightHasRef'
    BY <2>1
  <2>6. QED
    BY <2>2, <2>3, <2>4, <2>5
<1>16. CASE RecoverSubmitFails
  BY <1>16 DEF RecoverSubmitFails, ProviderRejects, ProviderAccepts
<1>17. CASE RecoverRecordFails
  BY <1>17 DEF RecoverRecordFails
<1>18. QED
  BY <1>1, <1>2, <1>3, <1>4, <1>5, <1>6, <1>7, <1>8, <1>9, <1>10, <1>11, <1>12,
     <1>14, <1>15, <1>16, <1>17
  DEF TickNext, TickWork, RecoverWork

\* Result handlers write neither batches nor submissions.
LEMMA HandlerSubmission ==
  ASSUME SubmissionInv, NEW b \in Batches, Handler(b)
  PROVE  SubmissionInv'
<1>1. UNCHANGED <<batchVars, calls, fpc, fBatch, fChunk, tickVars>>
  BY DEF Handler, HandlerNext, HandlerWork, IngestStart, IngestResult, IngestStatus,
     IngestDone, IngestSkips, IngestStatusFails, ExpireRead, ExpireRequest,
     RepackageRead, RepackageRequest, HandlerThrows, storeVars, historyVars, flushVars
<1>2. QED
  BY <1>1, SubmissionFrame

\* The API leaves batches alone, a batch ages only when the flush is done with
\* it or waits for the provider, and a crash only empties hands.
LEMMA EnvironmentSubmission ==
  ASSUME TypeOK, SubmissionInv, Environment
  PROVE  SubmissionInv'
<1>1. CASE \E r \in Requests : Enqueue(r) \/ UserRetry(r)
  BY <1>1, SubmissionFrame DEF Enqueue, UserRetry, historyVars, flushVars
<1>2. CASE \E g \in Groups : Retire(g)
  BY <1>2, SubmissionFrame DEF Retire, historyVars, flushVars
<1>3. CASE \E b \in Batches : Age(b)
  BY <1>3
  DEF Age, Submitting, TypeOK, StoreTypeOK, FlushTypeOK, SubmissionInv, FlushHolds,
      FlushAlone, Unborn, TickHolds, SnapshotCurrent, SnapshotRefs, TurnsCounted,
      FlushTurn, TickTurn, InFlightHasRef, InFlight, historyVars, flushVars, tickVars
<1>4. CASE Crash
  BY <1>4
  DEF Crash, FlushReset, TickReset, NoRows, TypeOK, StoreTypeOK, SubmissionInv,
      FlushHolds, FlushAlone, Unborn, TickHolds, SnapshotCurrent, SnapshotRefs,
      TurnsCounted, FlushTurn, TickTurn, InFlightHasRef, InFlight, batchVars, historyVars
<1>5. QED
  BY <1>1, <1>2, <1>3, <1>4 DEF Environment

\* SubmissionInv is inductive over well-typed states.
LEMMA SubmissionInductive == Spec => [](TypeOK /\ SubmissionInv)
<1>1. Init => TypeOK /\ SubmissionInv
  BY InitTypes, InitSubmission
<1>2. TypeOK /\ SubmissionInv /\ [Next]_vars => TypeOK' /\ SubmissionInv'
  <2> SUFFICES ASSUME TypeOK, SubmissionInv, [Next]_vars
               PROVE  TypeOK' /\ SubmissionInv'
    OBVIOUS
  <2>1. TypeOK'
    BY FlushTypes, TickTypes, HandlerTypes, EnvironmentTypes, StutterTypes DEF Next
  <2>2. CASE UNCHANGED vars
    BY <2>1, <2>2, SubmissionFrame DEF vars, storeVars, historyVars, flushVars
  <2>3. CASE Next
    BY <2>1, <2>3, FlushSubmission, TickSubmission, HandlerSubmission, EnvironmentSubmission
    DEF Next
  <2>4. QED
    BY <2>1, <2>2, <2>3
<1>3. QED
  BY <1>1, <1>2, PTL DEF Spec

\* A batch the tracker polls always has the reference of its provider job,
\* although the flush, orphan recovery and polling write the two columns at
\* different times and crashes and failures come between.
THEOREM InFlightAlwaysHasRef == Spec => []InFlightHasRef
<1>1. TypeOK /\ SubmissionInv => InFlightHasRef
  BY DEF SubmissionInv
<1>2. QED
  BY SubmissionInductive, <1>1, PTL

\* A batch is never sent to the provider more often than its row admits, for
\* any number of batches, crashes and failures, and also when a provider call
\* outlasts the grace period.
THEOREM SubmissionsAlwaysCounted == Spec => []SubmissionsCounted
<1>1. TypeOK /\ SubmissionInv => SubmissionsCounted
  BY DEF TypeOK, StoreTypeOK, SubmissionInv, TurnsCounted, SubmissionsCounted,
         FlushTurn, TickTurn
<1>2. QED
  BY SubmissionInductive, <1>1, PTL

\* What relates the flush, the tick's snapshot and the store, whoever writes.
THEOREM SubmissionHolds == Spec => []SubmissionInv
BY SubmissionInductive, PTL

-----------------------------------------------------------------------------
(* Results: the ingester writes the row before the status *)

\* The result whose status is to be written next is stored.
ResultInHand ==
  \A b \in Batches :
    hpc[b] = "status" => hNow[b][1] \in Requests /\ result[hNow[b][1]] # "none"

ResultInv == SucceededHasResult /\ ResultInHand

LEMMA InitResults == Init => ResultInv
BY DEF Init, StoreInit, HandlerInit, ResultInv, SucceededHasResult, ResultInHand

\* Nothing but an ingestion makes a request succeed.
NoSuccess == \A r \in Requests : reqStatus'[r] = "succeeded" => reqStatus[r] = "succeeded"

LEMMA ResultFrame ==
  ASSUME ResultInv, NoSuccess, UNCHANGED <<result, hNow>>,
         \A b \in Batches : hpc'[b] = "status" => hpc[b] = "status"
  PROVE  ResultInv'
BY DEF ResultInv, NoSuccess, SucceededHasResult, ResultInHand

\* The flush and the tick write statuses, and the events they emit start a
\* handler at its beginning.
LEMMA FlushResults ==
  ASSUME TypeOK, ResultInv, Flush
  PROVE  ResultInv'
<1>1. UNCHANGED <<result, hpc, hNow>>
  BY DEF Flush, FlushNext, FlushWork, FlushRead, FlushRetire, FlushCreate, FlushAssign,
         FlushAttempt, FlushAccepted, FlushSubmitFails, FlushRecord, FlushRecordFails,
         FlushRevert, FlushThrows, handlerVars, storeVars
<1>2. NoSuccess
  BY DEF NoSuccess, TypeOK, StoreTypeOK, Flush, FlushNext, FlushWork, FlushRead, FlushRetire,
         FlushCreate, FlushAssign, FlushAttempt, FlushAccepted, FlushSubmitFails,
         FlushRecord, FlushRecordFails, FlushRevert, FlushThrows, SetStatus, AssignBatch,
         Requeue, storeVars, requestVars
<1>3. QED
  BY <1>1, <1>2, ResultFrame

LEMMA TickResults ==
  ASSUME TypeOK, ResultInv, Tick
  PROVE  ResultInv'
<1> USE DEF TypeOK, StoreTypeOK, HandlerTypeOK
<1>1. CASE (RecoverWork \/ RecoverSubmitFails \/ RecoverRecordFails) /\ UNCHANGED handlerVars
  <2>1. UNCHANGED result /\ NoSuccess
    BY <1>1
    DEF NoSuccess, RecoverWork, RecoverScan, RecoverAttempt, RecoverExhausted,
        RecoverGather, RecoverAccepted, RecoverSubmitFails, RecoverRecord,
        RecoverRecordFails, RecoverVerdict, OrphanFail, OrphanFailRead, OrphanFailRequest,
        SetStatus, storeVars, requestVars
  <2>2. QED
    BY <1>1, <2>1, ResultFrame DEF handlerVars
<1>2. CASE PollScan \/ TickDone \/ TickThrows \/ \E b \in Batches : PollSkips(b)
  BY <1>2, ResultFrame
  DEF NoSuccess, PollScan, TickDone, TickThrows, PollSkips, handlerVars, storeVars, requestVars
<1>3. ASSUME NEW b \in Batches, NEW s \in Terminal \cup {"processing"}, PollSees(b, s)
      PROVE  ResultInv'
  <2>1. UNCHANGED <<requestVars, result, hNow>> /\ Emit(b, s)
    BY <1>3 DEF PollSees
  <2>2. \A c \in Batches : hpc'[c] = "status" => hpc[c] = "status"
    BY <2>1 DEF Emit, Goto
  <2>3. QED
    BY <2>1, <2>2, ResultFrame DEF NoSuccess, requestVars
<1>4. CASE \E b \in Batches : PollSees(b, "processing") \/ PollSeesEnd(b)
  <2>1. PICK b \in Batches : PollSees(b, "processing") \/ PollSeesEnd(b)
    BY <1>4
  <2>2. PICK s \in Terminal \cup {"processing"} : PollSees(b, s)
    BY <2>1, OutcomeAssumption DEF PollSeesEnd
  <2>3. QED
    BY <2>2, <1>3
<1>5. QED
  BY <1>1, <1>2, <1>4 DEF Tick, TickNext, TickWork

\* A handler stores a result, takes it in hand, and then writes its status.
LEMMA HandlerResults ==
  ASSUME TypeOK, ResultInv, NEW b \in Batches, Handler(b)
  PROVE  ResultInv'
<1> USE DEF TypeOK, StoreTypeOK, HandlerTypeOK, Goto
<1>1. CASE \E r \in Requests, ok \in BOOLEAN : IngestResult(b, r, ok)
  <2>1. PICK r \in Requests, ok \in BOOLEAN : IngestResult(b, r, ok)
    BY <1>1
  <2>2. /\ reqStatus' = reqStatus
        /\ result' = [result EXCEPT ![r] = IF @ # "none" THEN @ ELSE IF ok THEN "good" ELSE "bad"]
        /\ hNow' = [hNow EXCEPT ![b] = <<r, ok>>]
        /\ hpc' = [hpc EXCEPT ![b] = "status"]
    BY <2>1 DEF IngestResult, CreateResult, requestVars
  <2>3. \A q \in Requests : result'[q] # "none" \/ result'[q] = result[q]
    BY <2>2
  <2>4. result'[r] # "none"
    BY <2>2
  <2>5. QED
    BY <2>2, <2>3, <2>4 DEF ResultInv, SucceededHasResult, ResultInHand
<1>2. CASE IngestStatus(b)
  <2>1. /\ hpc[b] = "status" /\ hpc' = [hpc EXCEPT ![b] = "ingest"]
        /\ hNow' = [hNow EXCEPT ![b] = NoResult]
        /\ result' = result
        /\ \E s \in {"succeeded", "failed"} :
             reqStatus' = [reqStatus EXCEPT ![hNow[b][1]] = s]
    BY <1>2 DEF IngestStatus, SetStatus
  <2>2. QED
    BY <2>1 DEF ResultInv, SucceededHasResult, ResultInHand
<1>3. CASE \/ IngestStart(b) \/ IngestDone(b) \/ IngestStatusFails(b) \/ HandlerThrows(b)
           \/ \E r \in Requests : IngestSkips(b, r)
           \/ ExpireRead(b) \/ \E r \in Requests : ExpireRequest(b, r)
           \/ RepackageRead(b)
           \/ \E row \in Requests \X (0..MaxRetries) : RepackageRequest(b, row)
  <2>1. /\ UNCHANGED result
        /\ \/ UNCHANGED hNow
           \/ hNow' = [hNow EXCEPT ![b] = NoResult] /\ hpc'[b] # "status"
    BY <1>3
    DEF IngestStart, IngestDone, IngestStatusFails, HandlerThrows, IngestSkips, ExpireRead,
        ExpireRequest, RepackageRead, RepackageRequest, storeVars
  <2>2. hpc' = hpc \/ \E to \in HandlerPC \ {"status"} : hpc' = [hpc EXCEPT ![b] = to]
    BY <1>3
    DEF IngestStart, IngestDone, IngestStatusFails, HandlerThrows, IngestSkips, ExpireRead,
        ExpireRequest, RepackageRead, RepackageRequest, storeVars, HandlerPC
  <2>3. NoSuccess
    BY <1>3
    DEF NoSuccess, IngestStart, IngestDone, IngestStatusFails, HandlerThrows, IngestSkips,
        ExpireRead, ExpireRequest, RepackageRead, RepackageRequest, RepackageRow, SetStatus,
        Requeue, storeVars, requestVars
  <2>4. QED
    BY <2>1, <2>2, <2>3 DEF ResultInv, NoSuccess, SucceededHasResult, ResultInHand
<1>4. QED
  BY <1>1, <1>2, <1>3 DEF Handler, HandlerNext, HandlerWork

LEMMA EnvironmentResults ==
  ASSUME TypeOK, ResultInv, Environment
  PROVE  ResultInv'
<1>1. CASE Crash
  BY <1>1
  DEF Crash, HandlerReset, ResultInv, SucceededHasResult, ResultInHand, requestVars
<1>2. CASE ~Crash
  <2>1. UNCHANGED <<result, hpc, hNow>> /\ NoSuccess
    BY <1>2
    DEF TypeOK, StoreTypeOK, NoSuccess, Environment, Enqueue, UserRetry, Retire, Age,
        SetStatus, Requeue, requestVars, handlerVars
  <2>2. QED
    BY <2>1, ResultFrame
<1>3. QED
  BY <1>1, <1>2

\* A request that counts as succeeded has a result to deliver, whatever crashes,
\* failures and handlers of other batches come between the two writes.
THEOREM SucceededAlwaysHasResult == Spec => []SucceededHasResult
<1>1. Init => TypeOK /\ ResultInv
  BY InitTypes, InitResults
<1>2. TypeOK /\ ResultInv /\ [Next]_vars => TypeOK' /\ ResultInv'
  <2> SUFFICES ASSUME TypeOK, ResultInv, [Next]_vars
               PROVE  TypeOK' /\ ResultInv'
    OBVIOUS
  <2>1. TypeOK'
    BY FlushTypes, TickTypes, HandlerTypes, EnvironmentTypes, StutterTypes DEF Next
  <2>2. CASE UNCHANGED vars
    BY <2>1, <2>2, ResultFrame
    DEF vars, storeVars, requestVars, handlerVars, NoSuccess
  <2>3. CASE Next
    BY <2>1, <2>3, FlushResults, TickResults, HandlerResults, EnvironmentResults DEF Next
  <2>4. QED
    BY <2>2, <2>1, <2>3
<1>3. ResultInv => SucceededHasResult
  BY DEF ResultInv
<1>4. QED
  BY <1>1, <1>2, <1>3, PTL DEF Spec

-----------------------------------------------------------------------------
(* Two threads, one batch: while a provider call is shorter than the grace *)
(* period, a batch is in the hands of the flush or of recovery, not both.  *)

\* The flush holds a young pending batch that no tick has in its hands.
FlushOwns ==
  fpc # "ready" =>
    /\ batStatus[fBatch] = "pending" /\ batRef[fBatch] = {} /\ ~aged[fBatch]
    /\ fBatch \notin tTodo /\ fBatch # tBatch

\* Recovery holds pending batches; polling holds rows that are current.
TickOwns ==
  /\ tpc \notin {"idle", "poll"} =>
       \A b \in tTodo : batStatus[b] = "pending" /\ batRef[b] = {}
  /\ tpc \in {"gather", "resubmit", "record", "verdict", "fail"} =>
       batStatus[tBatch] = "pending" /\ batRef[tBatch] = {} /\ tBatch \notin tTodo
  /\ tpc = "failread" \/ tpc = "failing" => tBatch \notin tTodo
  /\ tpc = "poll" =>
       \A b \in tTodo : b \in InFlight /\ tRows[b].status = batStatus[b]

NoRefYet == \A b \in Batches : batStatus[b] = "absent" => batRef[b] = {}

OwnerInv == FlushOwns /\ TickOwns /\ NoRefYet

LEMMA InitOwner == Init => OwnerInv
BY DEF Init, StoreInit, FlushInit, TickInit, OwnerInv, FlushOwns, TickOwns, NoRefYet

\* What OwnerInv talks about.
LEMMA OwnerFrame ==
  ASSUME OwnerInv, UNCHANGED <<batStatus, batRef, aged, fpc, fBatch, tickVars>>
  PROVE  OwnerInv'
BY DEF OwnerInv, FlushOwns, TickOwns, NoRefYet, InFlight, tickVars

LEMMA FlushOwner ==
  ASSUME TypeOK, SubmissionInv, OwnerInv, Flush
  PROVE  OwnerInv'
<1> USE DEF Flush, TypeOK, StoreTypeOK, FlushTypeOK, TickTypeOK, OwnerInv, FlushOwns,
        TickOwns, NoRefYet, InFlight, batchVars, tickVars
<1>1. CASE FlushRead \/ \E r \in Requests : FlushRetire(r)
  BY <1>1, OwnerFrame DEF FlushRead, FlushRetire, storeVars
<1>2. CASE \E r \in Requests : FlushRevert(r)
  BY <1>2 DEF FlushRevert
<1>3. CASE \E g \in Groups, b \in Batches : FlushCreate(g, b)
  BY <1>3, IdAssumption
  DEF FlushCreate, CreateBatch, IsFirst, SubmissionInv, Unborn, TickHolds
<1>4. CASE FlushAssign
  BY <1>4 DEF FlushAssign
<1>5. CASE FlushAttempt
  BY <1>5 DEF FlushAttempt, SetAttempts
<1>6. CASE FlushAccepted \/ FlushSubmitFails \/ FlushRecordFails
  BY <1>6 DEF FlushAccepted, FlushSubmitFails, FlushRecordFails
<1>7. CASE FlushRecord
  BY <1>7 DEF FlushRecord, RecordSubmission, SubmissionInv, FlushHolds
<1>8. CASE FlushThrows
  BY <1>8 DEF FlushThrows, FlushReset
<1>9. QED
  BY <1>1, <1>2, <1>3, <1>4, <1>5, <1>6, <1>7, <1>8 DEF FlushNext, FlushWork

LEMMA TickOwner ==
  ASSUME TypeOK, SubmissionInv, OwnerInv, Tick
  PROVE  OwnerInv'
<1> USE DEF Tick, TypeOK, StoreTypeOK, FlushTypeOK, TickTypeOK, OwnerInv, FlushOwns,
        TickOwns, NoRefYet, InFlight, batchVars, flushVars
<1>1. CASE RecoverScan
  BY <1>1, IdAssumption DEF RecoverScan, Orphans, storeVars
<1>2. CASE \E b \in Batches : RecoverAttempt(b) \/ RecoverExhausted(b)
  <2>1. PICK b \in Batches : RecoverAttempt(b) \/ RecoverExhausted(b)
    BY <1>2
  <2>2. /\ b \in tTodo /\ tpc = "recover"
        /\ tTodo' = tTodo \ {b} /\ tBatch' = b
        /\ tpc' = "gather" \/ tpc' = "fail"
        /\ aged' = aged \/ aged' = [aged EXCEPT ![b] = FALSE]
        /\ UNCHANGED <<batStatus, batRef, fpc, fBatch>>
    BY <2>1 DEF RecoverAttempt, RecoverExhausted, SetAttempts, IsFirst, storeVars
  <2>3. QED
    BY <2>2 DEF SubmissionInv, FlushHolds
<1>3. CASE RecoverGather \/ RecoverAccepted \/ RecoverSubmitFails \/ RecoverRecordFails
  BY <1>3
  DEF RecoverGather, RecoverAccepted, RecoverSubmitFails, RecoverRecordFails, storeVars
<1>4. CASE RecoverRecord
  BY <1>4, IdAssumption DEF RecoverRecord, RecordSubmission, SubmissionInv, TickHolds, FlushHolds
<1>5. CASE RecoverVerdict
  BY <1>5, IdAssumption DEF RecoverVerdict, SubmissionInv, FlushHolds, storeVars
<1>6. CASE OrphanFail
  BY <1>6 DEF OrphanFail, SetBatchStatus, SubmissionInv, TickHolds
<1>7. CASE OrphanFailRead \/ \E r \in Requests : OrphanFailRequest(r)
  BY <1>7, IdAssumption
  DEF OrphanFailRead, OrphanFailRequest, SubmissionInv, FlushHolds, storeVars
<1>8. CASE PollScan
  BY <1>8 DEF PollScan, RowsNow, storeVars
<1>9. CASE \E b \in Batches : PollSkips(b)
  BY <1>9 DEF PollSkips, storeVars
<1>10. ASSUME NEW b \in Batches, NEW s \in Terminal \cup {"processing"}, PollSees(b, s)
       PROVE  OwnerInv'
  <2>1. /\ tpc = "poll" /\ tpc' = tpc /\ b \in tTodo
        /\ batStatus' = [batStatus EXCEPT ![b] = s]
        /\ aged' = [aged EXCEPT ![b] = FALSE]
        /\ tTodo' = tTodo \ {b}
        /\ UNCHANGED <<batRef, fpc, fBatch, tRows, tBatch>>
    BY <1>10 DEF PollSees, SetBatchStatus, IsFirst
  <2>2. s \notin {"absent", "pending"}
    BY DEF Terminal
  <2>3. QED
    BY <2>1, <2>2
<1>11. CASE \E b \in Batches : PollSees(b, "processing") \/ PollSeesEnd(b)
  <2>1. PICK b \in Batches : PollSees(b, "processing") \/ PollSeesEnd(b)
    BY <1>11
  <2>2. PICK s \in Terminal \cup {"processing"} : PollSees(b, s)
    BY <2>1, OutcomeAssumption DEF PollSeesEnd
  <2>3. QED
    BY <2>2, <1>10
<1>12. CASE TickDone \/ TickThrows
  BY <1>12, IdAssumption DEF TickDone, TickThrows, TickReset, SubmissionInv, FlushHolds, storeVars
<1>13. QED
  BY <1>1, <1>2, <1>3, <1>4, <1>5, <1>6, <1>7, <1>8, <1>9, <1>11, <1>12
  DEF TickNext, TickWork, RecoverWork

LEMMA OtherOwner ==
  ASSUME ~SlowSubmit, TypeOK, OwnerInv, Environment \/ \E b \in Batches : Handler(b)
  PROVE  OwnerInv'
<1>1. CASE \E b \in Batches : Handler(b)
  <2>1. UNCHANGED <<batStatus, batRef, aged, fpc, fBatch, tickVars>>
    BY <1>1
    DEF Handler, HandlerNext, HandlerWork, IngestStart, IngestResult, IngestStatus,
        IngestSkips, IngestStatusFails, IngestDone, ExpireRead, ExpireRequest,
        RepackageRead, RepackageRequest, HandlerThrows, flushVars, storeVars, batchVars
  <2>2. QED
    BY <2>1, OwnerFrame
<1>2. CASE \/ \E r \in Requests : Enqueue(r) \/ UserRetry(r)
           \/ \E g \in Groups : Retire(g)
  BY <1>2, OwnerFrame DEF Enqueue, UserRetry, Retire, flushVars, batchVars
<1>3. CASE \E b \in Batches : Age(b)
  BY <1>3
  DEF Age, Submitting, TypeOK, StoreTypeOK, FlushTypeOK, OwnerInv, FlushOwns, TickOwns,
      NoRefYet, InFlight, flushVars, tickVars
<1>4. CASE Crash
  BY <1>4
  DEF Crash, FlushReset, TickReset, OwnerInv, FlushOwns, TickOwns, NoRefYet, batchVars
<1>5. QED
  BY <1>1, <1>2, <1>3, <1>4 DEF Environment

LEMMA OwnerInductive ==
  ASSUME ~SlowSubmit
  PROVE  Spec => [](TypeOK /\ SubmissionInv /\ OwnerInv)
<1>1. Init => OwnerInv
  BY InitOwner
<1>2. TypeOK /\ SubmissionInv /\ OwnerInv /\ [Next]_vars => OwnerInv'
  <2> SUFFICES ASSUME TypeOK, SubmissionInv, OwnerInv, [Next]_vars
               PROVE  OwnerInv'
    OBVIOUS
  <2>1. CASE UNCHANGED vars
    BY <2>1, OwnerFrame DEF vars, storeVars, batchVars, flushVars
  <2>2. CASE Next
    BY <2>2, FlushOwner, TickOwner, OtherOwner DEF Next
  <2>3. QED
    BY <2>1, <2>2
<1>3. QED
  BY <1>1, <1>2, SubmissionInductive, PTL DEF Spec

\* A batch whose provider job is known is never submitted again and keeps its
\* reference, for any number of batches, crashes and failures, as long as the
\* grace period is longer than a provider call: otherwise recovery and a late
\* flush may both submit the batch.
THEOREM KnownJobNeverResubmitted ==
  ASSUME ~SlowSubmit
  PROVE  Spec => KnownJobNotResubmitted
<1> DEFINE A == \A b \in Batches : batRef[b] # {} => calls'[b] = calls[b] /\ batRef'[b] = batRef[b]
<1>1. TypeOK /\ SubmissionInv /\ OwnerInv /\ [Next]_vars => [A]_vars
  <2> SUFFICES ASSUME TypeOK, SubmissionInv, OwnerInv, Next
               PROVE  A
    BY DEF vars, storeVars, batchVars, historyVars
  <2> USE DEF TypeOK, StoreTypeOK, OwnerInv
  <2>1. CASE Flush
    BY <2>1
    DEF Flush, FlushNext, FlushWork, FlushRead, FlushRetire, FlushCreate, FlushAssign,
        FlushAttempt, FlushAccepted, FlushSubmitFails, FlushRecord, FlushRecordFails,
        FlushRevert, FlushThrows, CreateBatch, SetAttempts, RecordSubmission,
        ProviderAccepts, ProviderRejects, FlushOwns, storeVars, batchVars, historyVars
  <2>2. CASE Tick
    BY <2>2
    DEF Tick, TickNext, TickWork, RecoverWork, RecoverScan, RecoverAttempt, RecoverExhausted,
        RecoverGather, RecoverAccepted, RecoverSubmitFails, RecoverRecord,
        RecoverRecordFails, RecoverVerdict, OrphanFail, OrphanFailRead, OrphanFailRequest,
        PollScan, PollSkips, PollSees, PollSeesEnd, TickDone, TickThrows, SetAttempts,
        SetBatchStatus, RecordSubmission, ProviderAccepts, ProviderRejects, TickOwns,
        storeVars, batchVars, historyVars
  <2>3. CASE \E b \in Batches : Handler(b)
    BY <2>3
    DEF Handler, HandlerNext, HandlerWork, IngestStart, IngestResult, IngestStatus,
        IngestSkips, IngestStatusFails, IngestDone, ExpireRead, ExpireRequest,
        RepackageRead, RepackageRequest, HandlerThrows, storeVars, batchVars, historyVars
  <2>4. CASE Environment
    BY <2>4
    DEF Environment, Enqueue, UserRetry, Retire, Age, Crash, batchVars, historyVars
  <2>5. QED
    BY <2>1, <2>2, <2>3, <2>4 DEF Next
<1>2. QED
  BY <1>1, OwnerInductive, PTL DEF Spec, KnownJobNotResubmitted

\* A batch never goes back: no flush, recovery or poll writes a status over a
\* later one, under the same assumption.
THEOREM BatchesMoveForward ==
  ASSUME ~SlowSubmit
  PROVE  Spec => BatchMovesForward
<1> DEFINE A == \A b \in Batches :
                  batStatus'[b] # batStatus[b] => Stage(batStatus[b]) < Stage(batStatus'[b])
<1>1. TypeOK /\ SubmissionInv /\ OwnerInv /\ [Next]_vars => [A]_vars
  <2> SUFFICES ASSUME TypeOK, SubmissionInv, OwnerInv, Next
               PROVE  A
    BY DEF vars, storeVars, batchVars
  <2> USE DEF TypeOK, StoreTypeOK, OwnerInv
  <2>1. CASE Flush
    BY <2>1
    DEF Flush, FlushNext, FlushWork, FlushRead, FlushRetire, FlushCreate, FlushAssign,
        FlushAttempt, FlushAccepted, FlushSubmitFails, FlushRecord, FlushRecordFails,
        FlushRevert, FlushThrows, FlushReset, CreateBatch, IsFirst, SetAttempts,
        RecordSubmission, FlushOwns, Stage, storeVars, batchVars
  <2>2. CASE (RecoverWork \/ RecoverSubmitFails \/ RecoverRecordFails)
    BY <2>2
    DEF RecoverWork, RecoverScan, RecoverAttempt, RecoverExhausted,
        RecoverGather, RecoverAccepted, RecoverSubmitFails, RecoverRecord,
        RecoverRecordFails, RecoverVerdict, OrphanFail, OrphanFailRead, OrphanFailRequest,
        SetAttempts, SetBatchStatus, RecordSubmission, TickOwns, Stage, storeVars, batchVars
  <2>3. ASSUME NEW b \in Batches, NEW s \in Terminal \cup {"processing"}, PollSees(b, s)
        PROVE  A
    <3>1. batStatus' = [batStatus EXCEPT ![b] = s] /\ s # batStatus[b] /\ b \in InFlight
      BY <2>3 DEF PollSees, SetBatchStatus, IsFirst, TickOwns
    <3>2. s = "processing" \/ Stage(s) = 4
      BY DEF Stage, Terminal
    <3>3. QED
      BY <3>1, <3>2 DEF InFlight, Stage
  <2>4. CASE Tick
    <3>1. CASE \E b \in Batches : PollSees(b, "processing") \/ PollSeesEnd(b)
      BY <3>1, <2>3, OutcomeAssumption DEF PollSeesEnd
    <3>2. CASE PollScan \/ TickDone \/ TickThrows \/ \E b \in Batches : PollSkips(b)
      BY <3>2 DEF PollScan, PollSkips, TickDone, TickThrows, storeVars, batchVars
    <3>3. QED
      BY <2>2, <2>4, <3>1, <3>2 DEF Tick, TickNext, TickWork
  <2>5. CASE \E b \in Batches : Handler(b)
    BY <2>5
    DEF Handler, HandlerNext, HandlerWork, IngestStart, IngestResult, IngestStatus,
        IngestSkips, IngestStatusFails, IngestDone, ExpireRead, ExpireRequest,
        RepackageRead, RepackageRequest, HandlerThrows, storeVars, batchVars
  <2>6. CASE Environment
    BY <2>6
    DEF Environment, Enqueue, UserRetry, Retire, Age, Crash, batchVars
  <2>7. QED
    BY <2>1, <2>4, <2>5, <2>6 DEF Next
<1>2. QED
  BY <1>1, OwnerInductive, PTL DEF Spec, BatchMovesForward
=============================================================================
