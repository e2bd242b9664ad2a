---------------------------- MODULE StatusTracker ----------------------------
(***************************************************************************)
(* engine/status-tracker.ts: one tick runs orphan recovery, reads the      *)
(* in-flight batches, polls each of them and emits the lifecycle events    *)
(* that start the handlers of ResultPipeline.  When a batch is due for a   *)
(* poll is left open: PollSkips stands for a poll that is not due, fails,  *)
(* or reports the status the row already has.                              *)
(*                                                                         *)
(* Bound: the event of a batch waits while an earlier handler of the same  *)
(* batch runs (it can only in the SlowSubmit model).                       *)
(***************************************************************************)
EXTENDS OrphanRecovery, ResultPipeline

CONSTANT ProviderOutcomes    \* terminal statuses the provider may report

Terminal == {"ended", "expired", "failed", "cancelled"}

ASSUME OutcomeAssumption == ProviderOutcomes \subseteq Terminal

InFlight_WithEnded ==          \* mutant: ended batches are polled again
  {b \in Batches : batStatus[b] \in {"submitted", "processing", "ended"}}

InFlight == {b \in Batches : batStatus[b] \in {"submitted", "processing"}}

\* recover() has returned: getInFlightBatches
PollScan ==
  /\ tpc = "recover"
  /\ tTodo = {}
  /\ tRows' = RowsNow
  /\ tTodo' = InFlight
  /\ tpc' = "poll"
  /\ UNCHANGED <<tBatch, tReqs, handlerVars, storeVars>>

PollSkips(b) ==
  /\ tpc = "poll"
  /\ IsFirst(b, tTodo)
  /\ tTodo' = tTodo \ {b}
  /\ UNCHANGED <<tpc, tRows, tBatch, tReqs, handlerVars, storeVars>>

\* emit: the handlers norush.ts registered; the other events have none
Emit(b, s) ==
  CASE s = "ended" -> hpc[b] = "idle" /\ Goto(b, "completed")
    [] s = "expired" -> hpc[b] = "idle" /\ Goto(b, "expired")
    [] OTHER -> UNCHANGED hpc

\* applyStatusTransition: the row first, then the event
PollSees(b, s) ==
  /\ tpc = "poll"
  /\ IsFirst(b, tTodo)
  /\ tRows[b].ref # {}
  /\ s # tRows[b].status
  /\ SetBatchStatus(b, s)
  /\ Emit(b, s)
  /\ tTodo' = tTodo \ {b}
  /\ UNCHANGED <<tpc, tRows, tBatch, tReqs, hTodo, hNow, hRows,
                 requestVars, result, historyVars, faults, worldVars>>

TickDone ==
  /\ tpc = "poll"
  /\ tTodo = {}
  /\ TickReset
  /\ UNCHANGED <<handlerVars, storeVars>>

\* A database call throws where no catch is: the tick ends there.
TickThrows ==
  /\ tpc \notin {"idle", "resubmit", "record"}
  /\ Fault("store")
  /\ TickReset
  /\ UNCHANGED <<handlerVars, requestVars, result, batchVars, historyVars, worldVars>>

TickWork ==
  \/ RecoverWork /\ UNCHANGED handlerVars
  \/ PollScan
  \/ \E b \in Batches : PollSkips(b) \/ PollSees(b, "processing")
  \/ TickDone

\* The provider's job of b comes to an end and a poll sees it.
PollSeesEnd(b) == \E s \in ProviderOutcomes : PollSees(b, s)

TickNext ==
  \/ TickWork
  \/ \E b \in Batches : PollSeesEnd(b)
  \/ (RecoverSubmitFails \/ RecoverRecordFails) /\ UNCHANGED handlerVars
  \/ TickThrows
=============================================================================
