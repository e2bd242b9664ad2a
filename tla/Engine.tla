-------------------------------- MODULE Engine --------------------------------
(***************************************************************************)
(* The NoRush worker: norush.ts wires the flush, the tracker's tick and    *)
(* the result handlers of one Node.js process to one database.  Their      *)
(* steps interleave; the API inserts requests and retries failed ones      *)
(* from another process; the process may crash at any await and restart    *)
(* with the database as it is.                                             *)
(***************************************************************************)
EXTENDS BatchManager, StatusTracker

CONSTANTS
  SlowSubmit,     \* may a provider call outlast the grace period?
  CrashInHandler  \* may the process crash while a result handler runs?

ASSUME EnvironmentAssumption ==
  /\ SlowSubmit \in BOOLEAN
  /\ CrashInHandler \in BOOLEAN

vars == <<storeVars, flushVars, tickVars, handlerVars>>

TypeOK ==
  /\ StoreTypeOK
  /\ FlushTypeOK
  /\ TickTypeOK
  /\ HandlerTypeOK

Init == StoreInit /\ FlushInit /\ TickInit /\ HandlerInit

-----------------------------------------------------------------------------
(* The API and the surroundings of the worker *)

\* createRequest
Enqueue(r) ==
  /\ IsFirst(r, {q \in Requests : reqStatus[q] = "absent"})
  /\ SetStatus(r, "queued")
  /\ UNCHANGED <<result, batchVars, historyVars, faults, worldVars,
                 flushVars, tickVars, handlerVars>>

\* Mutant: the UPDATE does not check the status again.
UserRetry_Unguarded(r) ==
  /\ userRetries < MaxUserRetries
  /\ userRetries' = userRetries + 1
  /\ reqStatus[r] # "absent"
  /\ Requeue(r, 0)
  /\ jobs' = [jobs EXCEPT ![r] = 0]
  /\ UNCHANGED <<result, batchVars, calls, faults, retired, crashes,
                 flushVars, tickVars, handlerVars>>

\* POST /requests/:id/retry: one conditional UPDATE
UserRetry(r) ==
  /\ userRetries < MaxUserRetries
  /\ userRetries' = userRetries + 1
  /\ reqStatus[r] = "failed_final"
  /\ Requeue(r, 0)
  /\ jobs' = [jobs EXCEPT ![r] = 0]
  /\ UNCHANGED <<result, batchVars, calls, faults, retired, crashes,
                 flushVars, tickVars, handlerVars>>

\* The catalog refresh learns that a model is retired.
Retire(g) ==
  /\ g \in Retirable \ retired
  /\ retired' = retired \cup {g}
  /\ UNCHANGED <<requestVars, result, batchVars, historyVars, faults, crashes,
                 userRetries, flushVars, tickVars, handlerVars>>

\* The flush has batch b in its hands.
Submitting(b) == fpc # "ready" /\ fBatch = b

\* Five minutes pass since the last update of a pending batch.  A flush is
\* done with its batch well before, unless SlowSubmit lets the provider's
\* answer take longer.
Age(b) ==
  /\ batStatus[b] = "pending"
  /\ ~aged[b]
  /\ Submitting(b) => SlowSubmit /\ fpc \in {"submit", "record"}
  /\ aged' = [aged EXCEPT ![b] = TRUE]
  /\ UNCHANGED <<requestVars, result, batStatus, batRef, attempts, historyVars,
                 faults, worldVars, flushVars, tickVars, handlerVars>>

\* The process dies and is restarted: only the database survives.
Crash ==
  /\ crashes < MaxCrashes
  /\ CrashInHandler \/ \A b \in Batches : hpc[b] = "idle"
  /\ crashes' = crashes + 1
  /\ FlushReset
  /\ TickReset
  /\ HandlerReset
  /\ UNCHANGED <<requestVars, result, batchVars, historyVars, faults, retired, userRetries>>

Flush == FlushNext /\ UNCHANGED <<tickVars, handlerVars>>

Tick == TickNext /\ UNCHANGED flushVars

Handler(b) == HandlerNext(b) /\ UNCHANGED <<flushVars, tickVars>>

Environment ==
  \/ \E r \in Requests : Enqueue(r) \/ UserRetry(r)
  \/ \E g \in Groups : Retire(g)
  \/ \E b \in Batches : Age(b)
  \/ Crash

Next ==
  \/ Flush
  \/ Tick
  \/ \E b \in Batches : Handler(b)
  \/ Environment

Spec == Init /\ [][Next]_vars

-----------------------------------------------------------------------------
(* Fairness.  The timers keep firing and an awaited call returns, so the   *)
(* flush, the tick and the handlers take a step when they can; wall-clock  *)
(* time passes; every job the provider holds ends, and as intervals are    *)
(* bounded some poll sees it.                                              *)

Fairness ==
  /\ WF_vars(FlushWork /\ UNCHANGED <<tickVars, handlerVars>>)
  /\ WF_vars(TickWork /\ UNCHANGED flushVars)
  /\ \A b \in Batches :
       /\ WF_vars(HandlerWork(b) /\ UNCHANGED <<flushVars, tickVars>>)
       /\ WF_vars(Age(b))
       /\ SF_vars(PollSeesEnd(b) /\ UNCHANGED flushVars)

FairSpec == Spec /\ Fairness

-----------------------------------------------------------------------------
(* Safety *)

\* status-tracker.ts reports "Invariant violated: in-flight batch is missing
\* providerBatchId" when this fails; three writers in two threads keep it.
InFlightHasRef == \A b \in InFlight : batRef[b] # {}

\* Write-before-submit: however flush, recovery and crashes interleave, a
\* batch is never sent to the provider more often than its row admits, and
\* the row never admits more than the cap.
SubmissionsCounted == \A b \in Batches : calls[b] <= attempts[b]

\* A request waiting in a batch the provider holds is in the job that is
\* polled for that batch: no request is left out of the job of its batch.
WaitingIsInJob ==
  \A r \in Requests : \A b \in Batches :
    reqStatus[r] = "batched" /\ reqBatch[r] = b /\ batRef[b] # {} => r \in batRef[b]

\* The status and the batch of a request agree: a queued request is in no
\* batch, and a request that waits for a result, or failed in a batch, is
\* in a batch that exists, where recovery and the handlers can find it.
AssignmentMatchesStatus ==
  \A r \in Requests :
    /\ reqStatus[r] \in {"absent", "queued"} => reqBatch[r] = NoBatch
    /\ reqStatus[r] \in {"batched", "failed", "expired", "succeeded"} =>
         reqBatch[r] # NoBatch /\ batStatus[reqBatch[r]] # "absent"

\* A request is in more provider jobs than its retries pay for only if a
\* crash or a failure came between a submission and its record.
PaidOnce ==
  \A r \in Requests : jobs[r] <= 1 + retryCount[r] + faults + crashes

\* A request counts as succeeded only with a result row to deliver: the
\* ingester writes the row first.
SucceededHasResult ==
  \A r \in Requests : reqStatus[r] = "succeeded" => result[r] # "none"

-----------------------------------------------------------------------------
(* What a step may never do *)

\* A success is final: no stale snapshot of the flush, of recovery or of a
\* handler takes a succeeded request back.
SuccessIsFinal ==
  [][\A r \in Requests : reqStatus[r] = "succeeded" => reqStatus'[r] = "succeeded"]_vars

Stage(s) == CASE s = "absent" -> 0
              [] s = "pending" -> 1
              [] s = "submitted" -> 2
              [] s = "processing" -> 3
              [] OTHER -> 4

\* A batch only moves forward, and a terminal status never changes, although
\* the flush, recovery and polling all write it from what they read before.
BatchMovesForward ==
  [][\A b \in Batches :
       batStatus'[b] # batStatus[b] => Stage(batStatus[b]) < Stage(batStatus'[b])]_vars

\* A batch whose provider job is known is never submitted again: the grace
\* period keeps recovery off the batches that the flush still holds.
KnownJobNotResubmitted ==
  [][\A b \in Batches : batRef[b] # {} => calls'[b] = calls[b] /\ batRef'[b] = batRef[b]]_vars

-----------------------------------------------------------------------------
(* The refinement of RequestLifecycle *)

PhaseOf(s) ==
  CASE s = "batched" -> "in_flight"
    [] s \in {"failed", "expired"} -> "retryable"
    [] OTHER -> s

Lifecycle == INSTANCE RequestLifecycle WITH
  phase <- [r \in Requests |-> PhaseOf(reqStatus[r])],
  tries <- retryCount

\* The engine implements the lifecycle it promises: every step of its
\* threads is, for the requests, a step of RequestLifecycle or no step.
ImplementsLifecycle == Lifecycle!Spec

-----------------------------------------------------------------------------
(* Liveness *)

Settled(r) == reqStatus[r] \in {"succeeded", "failed_final"}

Routable(r) == r \notin Oversized /\ GroupOf[r] \notin Unserved

\* Every request that can be served ends as succeeded or failed_final.
EveryRequestSettles ==
  \A r \in Requests : Routable(r) /\ reqStatus[r] = "queued" ~> Settled(r)

-----------------------------------------------------------------------------
(* What InFlightHasRef and SubmissionsCounted rest on: the facts about the *)
(* hands of the two threads that submit, which no later step undoes.       *)

\* The flush works on a batch that exists, with requests in hand.
FlushHolds ==
  fpc # "ready" => fBatch \in Batches /\ batStatus[fBatch] # "absent" /\ fChunk # {}

\* Until the attempt is written the batch of the flush is out of the
\* tracker's reach: it is young, and no snapshot of orphans holds it.
FlushAlone ==
  fpc \in {"assign", "attempt"} =>
    /\ batStatus[fBatch] = "pending"
    /\ ~aged[fBatch]
    /\ fBatch \notin tTodo
    /\ fBatch # tBatch
    /\ calls[fBatch] = 0

\* A batch that is not created yet has no history.
Unborn == \A b \in Batches : batStatus[b] = "absent" => calls[b] = 0 /\ ~aged[b]

\* The tracker works on batches that exist, and holds one only while it
\* recovers it.
TickHolds ==
  /\ \A b \in tTodo : batStatus[b] # "absent"
  /\ IF tpc \in {"idle", "recover", "poll"}
       THEN tBatch = NoBatch
       ELSE tBatch \in Batches /\ batStatus[tBatch] # "absent"
  /\ tpc \in {"resubmit", "record"} => tReqs # {}

\* The rows a recovery scan read still show the attempts the table shows.
SnapshotCurrent ==
  tpc # "poll" => \A b \in tTodo : tRows[b].attempts = attempts[b]

\* A reference a tick has read is never cleared.
SnapshotRefs == \A b \in Batches : tRows[b].ref # {} => batRef[b] # {}

\* A thread about to call the provider for b has written its attempt.
FlushTurn(b) == IF fpc = "submit" /\ fBatch = b THEN 1 ELSE 0
TickTurn(b)  == IF tpc \in {"gather", "resubmit"} /\ tBatch = b THEN 1 ELSE 0

TurnsCounted ==
  \A b \in Batches : calls[b] + FlushTurn(b) + TickTurn(b) <= attempts[b]

SubmissionInv ==
  /\ FlushHolds
  /\ FlushAlone
  /\ Unborn
  /\ TickHolds
  /\ SnapshotCurrent
  /\ SnapshotRefs
  /\ TurnsCounted
  /\ InFlightHasRef
===============================================================================
