--------------------------- MODULE DeliveryWorker ---------------------------
(***************************************************************************)
(* engine/delivery-worker.ts: phase B of the result pipeline.  A tick      *)
(* reads the oldest undelivered results and delivers those that are due,   *)
(* one after the other, to the callbacks and the webhook of their request; *)
(* a step ends at each await.  The ingester adds results from the same     *)
(* process, the redeliver endpoint resets a result from another one, and   *)
(* the process may crash at any await.                                     *)
(*                                                                         *)
(* Result ids grow with created_at.  The worker process runs one delivery  *)
(* worker and its `ticking` flag excludes a second tick.                   *)
(***************************************************************************)
EXTENDS Naturals, FiniteSets

CONSTANTS
  Results,          \* ids of the results that may be ingested
  HasTarget,        \* results with a callback or a callback URL
  BatchSize,        \* rows one tick reads
  MaxDelivery,      \* results.max_delivery_attempts
  FaultKinds,       \* "late": the target takes a delivery, the call throws
                    \* "store": a database call throws; "log": logEvent does
  MaxFaults,        \* bound on these failures
  MaxCrashes,       \* bound on crashes
  MaxRedeliveries   \* bound on calls of the redeliver endpoint

ASSUME DeliveryAssumption ==
  /\ Results \subseteq Nat \ {0}
  /\ HasTarget \subseteq Results
  /\ BatchSize \in Nat \ {0}
  /\ MaxDelivery \in Nat \ {0}
  /\ FaultKinds \subseteq {"late", "store", "log"}
  /\ MaxFaults \in Nat
  /\ MaxCrashes \in Nat
  /\ MaxRedeliveries \in Nat

VARIABLES
  response,         \* results.response: "none" before the row exists
  succeeded,        \* the request's status is 'succeeded'
  deliveryStatus,   \* results.delivery_status
  deliveryAttempts, \* results.delivery_attempts
  due,              \* next_delivery_at is NULL or in the past
  wpc,              \* where the tick is
  wTodo,            \* results of the snapshot that passed the filters
  wAttempts,        \* delivery_attempts of the snapshot
  wSays,            \* the status in the payload being sent
  sent,             \* history: deliveries tried since the last (re)start
  received,         \* history: deliveries the target has taken
  told,             \* history: statuses the target was told
  asked,            \* history: a redelivery was asked and not tried yet
  faults, crashes, redeliveries

rowVars     == <<response, succeeded, deliveryStatus, deliveryAttempts, due>>
tickVars    == <<wpc, wTodo, wAttempts, wSays>>
historyVars == <<sent, received, told, asked>>
boundVars   == <<faults, crashes, redeliveries>>
vars        == <<rowVars, tickVars, historyVars, boundVars>>

DeliveryStatus == {"absent", "pending", "delivered", "failed", "no_target"}
WorkerPC == {"ready", "send", "mark", "log", "record"}
Said == {"succeeded", "failed"}

DeliveryTypeOK ==
  /\ response \in [Results -> {"none", "good", "bad"}]
  /\ succeeded \in [Results -> BOOLEAN]
  /\ deliveryStatus \in [Results -> DeliveryStatus]
  /\ deliveryAttempts \in [Results -> 0..MaxDelivery]
  /\ due \in [Results -> BOOLEAN]
  /\ wpc \in WorkerPC
  /\ wTodo \in SUBSET Results
  /\ wAttempts \in [Results -> 0..MaxDelivery]
  /\ wSays \in Said
  /\ sent \in [Results -> Nat]
  /\ received \in [Results -> Nat]
  /\ told \in [Results -> SUBSET Said]
  /\ asked \in [Results -> BOOLEAN]
  /\ faults \in 0..MaxFaults
  /\ crashes \in 0..MaxCrashes
  /\ redeliveries \in 0..MaxRedeliveries

Init ==
  /\ response = [r \in Results |-> "none"]
  /\ succeeded = [r \in Results |-> FALSE]
  /\ deliveryStatus = [r \in Results |-> "absent"]
  /\ deliveryAttempts = [r \in Results |-> 0]
  /\ due = [r \in Results |-> TRUE]
  /\ wpc = "ready"
  /\ wTodo = {}
  /\ wAttempts = [r \in Results |-> 0]
  /\ wSays = "failed"
  /\ sent = [r \in Results |-> 0]
  /\ received = [r \in Results |-> 0]
  /\ told = [r \in Results |-> {}]
  /\ asked = [r \in Results |-> FALSE]
  /\ faults = 0
  /\ crashes = 0
  /\ redeliveries = 0

-----------------------------------------------------------------------------
(* The ingester, the clock and the API *)

Exists(r) == deliveryStatus[r] # "absent"

\* createResult
Persist(r, ok) ==
  /\ ~Exists(r)
  /\ \A q \in Results : q < r => Exists(q)
  /\ response' = [response EXCEPT ![r] = IF ok THEN "good" ELSE "bad"]
  /\ deliveryStatus' = [deliveryStatus EXCEPT ![r] = "pending"]
  /\ UNCHANGED <<succeeded, deliveryAttempts, due, tickVars, historyVars, boundVars>>

\* The updateRequest that follows createResult; for a bad response, that of
\* a later batch which ran the request again.
Succeed(r) ==
  /\ Exists(r)
  /\ ~succeeded[r]
  /\ succeeded' = [succeeded EXCEPT ![r] = TRUE]
  /\ UNCHANGED <<response, deliveryStatus, deliveryAttempts, due, tickVars,
                 historyVars, boundVars>>

\* next_delivery_at passes
BecomeDue(r) ==
  /\ ~due[r]
  /\ due' = [due EXCEPT ![r] = TRUE]
  /\ UNCHANGED <<response, succeeded, deliveryStatus, deliveryAttempts, tickVars,
                 historyVars, boundVars>>

\* POST /requests/:id/redeliver: unconditional on the delivery status
Redeliver(r) ==
  /\ redeliveries < MaxRedeliveries
  /\ redeliveries' = redeliveries + 1
  /\ Exists(r) /\ r \in HasTarget
  /\ deliveryStatus' = [deliveryStatus EXCEPT ![r] = "pending"]
  /\ deliveryAttempts' = [deliveryAttempts EXCEPT ![r] = 0]
  /\ due' = [due EXCEPT ![r] = TRUE]
  /\ sent' = [sent EXCEPT ![r] = 0]
  /\ asked' = [asked EXCEPT ![r] = TRUE]
  /\ UNCHANGED <<response, succeeded, tickVars, received, told, faults, crashes>>

-----------------------------------------------------------------------------
(* The tick *)

TickReset ==
  /\ wpc' = "ready"
  /\ wTodo' = {}
  /\ wAttempts' = [r \in Results |-> 0]
  /\ wSays' = "failed"

Undelivered_All == {r \in Results : Exists(r)}    \* mutant: no filter on the status

\* delivery_status IN ('pending', 'failed')
Undelivered == {r \in Results : deliveryStatus[r] \in {"pending", "failed"}}

\* getUndeliveredResults: ORDER BY created_at ASC LIMIT batchSize
Window == {r \in Undelivered : Cardinality({q \in Undelivered : q < r}) < BatchSize}

Deliverable_NoCap == {r \in Window : due[r]}    \* mutant: attempts are not capped

\* the two `continue`s of the loop, which use the rows of the snapshot
Deliverable == {r \in Window : due[r] /\ deliveryAttempts[r] < MaxDelivery}

Read ==
  /\ wpc = "ready"
  /\ wTodo = {}
  /\ wTodo' = Deliverable
  /\ wAttempts' = deliveryAttempts
  /\ UNCHANGED <<wpc, wSays, rowVars, historyVars, boundVars>>

\* The result in hand.
Now(r) == r \in wTodo /\ \A q \in wTodo : r <= q

\* neither a callback nor a callback URL
NoTarget(r) ==
  /\ wpc = "ready" /\ Now(r) /\ r \notin HasTarget
  /\ deliveryStatus' = [deliveryStatus EXCEPT ![r] = "no_target"]
  /\ wTodo' = wTodo \ {r}
  /\ UNCHANGED <<response, succeeded, deliveryAttempts, due, wpc, wAttempts, wSays,
                 historyVars, boundVars>>

\* getRequest and buildWebhookPayload
Prepare(r) ==
  /\ wpc = "ready" /\ Now(r) /\ r \in HasTarget
  /\ wSays' = IF succeeded[r] THEN "succeeded" ELSE "failed"
  /\ wpc' = "send"
  /\ UNCHANGED <<wTodo, wAttempts, rowVars, historyVars, boundVars>>

Fault(kind) == kind \in FaultKinds /\ faults < MaxFaults /\ faults' = faults + 1

Try(r) ==
  /\ wpc = "send" /\ Now(r)
  /\ sent' = [sent EXCEPT ![r] = @ + 1]
  /\ asked' = [asked EXCEPT ![r] = FALSE]
  /\ UNCHANGED <<wTodo, wAttempts, wSays, rowVars, crashes, redeliveries>>

Taken(r) ==
  /\ received' = [received EXCEPT ![r] = @ + 1]
  /\ told' = [told EXCEPT ![r] = @ \cup {wSays}]

\* every callback returns and the webhook answers 2xx
Deliver(r) ==
  /\ Try(r)
  /\ Taken(r)
  /\ wpc' = "mark"
  /\ UNCHANGED faults

\* Mutant: the status of the answer is not looked at.
Reject_Unchecked(r) ==
  /\ Try(r)
  /\ wpc' = "mark"
  /\ UNCHANGED <<received, told, faults>>

\* a callback throws, or the webhook refuses
Reject(r) ==
  /\ Try(r)
  /\ wpc' = "record"
  /\ UNCHANGED <<received, told, faults>>

\* the webhook takes the payload and the answer comes too late
TimeOut(r) ==
  /\ Try(r)
  /\ Taken(r)
  /\ Fault("late")
  /\ wpc' = "record"

\* markDelivered; inside the try, so its failure is recorded as one of the target
Mark(r) ==
  /\ wpc = "mark" /\ Now(r)
  /\ \/ /\ deliveryStatus' = [deliveryStatus EXCEPT ![r] = "delivered"]
        /\ wpc' = "log"
        /\ UNCHANGED faults
     \/ Fault("store") /\ wpc' = "record" /\ UNCHANGED deliveryStatus
  /\ UNCHANGED <<response, succeeded, deliveryAttempts, due, wTodo, wAttempts, wSays,
                 historyVars, crashes, redeliveries>>

\* logEvent('delivery_succeeded'), inside the try as well
Log(r) ==
  /\ wpc = "log" /\ Now(r)
  /\ \/ wpc' = "ready" /\ wTodo' = wTodo \ {r} /\ UNCHANGED faults
     \/ Fault("log") /\ wpc' = "record" /\ UNCHANGED wTodo
  /\ UNCHANGED <<rowVars, wAttempts, wSays, historyVars, crashes, redeliveries>>

Retry_Uncounted(r) ==    \* mutant: the attempt is not written
  /\ wAttempts[r] + 1 < MaxDelivery
  /\ due' = [due EXCEPT ![r] = FALSE]
  /\ UNCHANGED <<deliveryStatus, deliveryAttempts>>

\* attempts left: count this one and set the backoff
Retry(r) ==
  /\ wAttempts[r] + 1 < MaxDelivery
  /\ deliveryAttempts' = [deliveryAttempts EXCEPT ![r] = wAttempts[r] + 1]
  /\ due' = [due EXCEPT ![r] = FALSE]
  /\ UNCHANGED deliveryStatus

Exhaust_KeepsPending(r) ==    \* mutant: the status is not written
  /\ wAttempts[r] + 1 >= MaxDelivery
  /\ deliveryAttempts' = [deliveryAttempts EXCEPT ![r] = wAttempts[r] + 1]
  /\ UNCHANGED <<deliveryStatus, due>>

\* no attempt left
Exhaust(r) ==
  /\ wAttempts[r] + 1 >= MaxDelivery
  /\ deliveryAttempts' = [deliveryAttempts EXCEPT ![r] = wAttempts[r] + 1]
  /\ deliveryStatus' = [deliveryStatus EXCEPT ![r] = "failed"]
  /\ UNCHANGED due

\* the catch block, counting from the snapshot
Record(r) ==
  /\ wpc = "record" /\ Now(r)
  /\ Retry(r) \/ Exhaust(r)
  /\ wpc' = "ready"
  /\ wTodo' = wTodo \ {r}
  /\ UNCHANGED <<response, succeeded, wAttempts, wSays, historyVars, boundVars>>

\* A database call outside the try throws: the tick ends there.
Throw ==
  /\ wTodo # {}
  /\ wpc \in {"ready", "record"}
  /\ Fault("store")
  /\ TickReset
  /\ UNCHANGED <<rowVars, historyVars, crashes, redeliveries>>

\* The process dies and is restarted.
Crash ==
  /\ crashes < MaxCrashes
  /\ crashes' = crashes + 1
  /\ TickReset
  /\ UNCHANGED <<rowVars, historyVars, faults, redeliveries>>

Tick ==
  \/ Read
  \/ \E r \in Results :
       \/ NoTarget(r) \/ Prepare(r) \/ Deliver(r) \/ Reject(r)
       \/ Mark(r) \/ Log(r) \/ Record(r)

Next ==
  \/ Tick
  \/ \E r \in Results : TimeOut(r) \/ Succeed(r) \/ BecomeDue(r) \/ Redeliver(r)
  \/ \E r \in Results, ok \in BOOLEAN : Persist(r, ok)
  \/ Throw
  \/ Crash

Spec == Init /\ [][Next]_vars

\* The timer keeps firing, awaited calls return, and time passes.
FairSpec == Spec /\ WF_vars(Tick) /\ \A r \in Results : WF_vars(BecomeDue(r))

-----------------------------------------------------------------------------
(* Safety *)

\* A result counts as delivered only if its target has taken it, and a
\* result without a target never does.
DeliveredWasReceived ==
  \A r \in Results : deliveryStatus[r] = "delivered" => received[r] > 0 /\ r \in HasTarget

\* Since a result was ingested or redelivered, its target is called at most
\* max_delivery_attempts times, and once more for each crash or failure that
\* kept an attempt from being counted.
SentWithinBudget ==
  \A r \in Results : sent[r] <= MaxDelivery + crashes + faults

\* A target is given a result twice only after a redelivery, a crash or a
\* failure: ticks alone, however they overlap with the API, never do it.
DeliveredOnce ==
  \A r \in Results : received[r] <= 1 + redeliveries + crashes + faults

\* A delivered result stays delivered unless its user asks for it again, or a
\* call failed: an event log entry that cannot be written after markDelivered
\* is counted as a failed delivery.
DeliveredIsFinal ==
  [][\A r \in Results :
       deliveryStatus[r] = "delivered" /\ deliveryStatus'[r] # "delivered"
         => redeliveries' # redeliveries \/ faults > 0]_vars

-----------------------------------------------------------------------------
(* Liveness *)

\* Every ingested result is delivered, or given up on once its attempts are
\* used up, through faults, crashes, backoffs and redeliveries, as long as the
\* undelivered results fit in one window: exhausted results that fill it hide
\* the younger ones for ever.
EveryResultIsDecided ==
  \A r \in Results : deliveryStatus[r] = "pending" ~> deliveryStatus[r] # "pending"

-----------------------------------------------------------------------------
(* What the safety properties rest on *)

\* The target of a result that is about to be marked has taken it.
MarkAfterDelivery ==
  \A r \in Results : wpc # "ready" /\ Now(r) =>
    r \in HasTarget /\ (wpc = "mark" => received[r] > 0)

\* The snapshot never shows fewer attempts than the table, and its results
\* have attempts left: a redelivery can only lower what the table shows.
SnapshotAbove ==
  \A r \in wTodo : deliveryAttempts[r] <= wAttempts[r] /\ wAttempts[r] < MaxDelivery

\* Only the result in hand can be delivered while it is still to be done.
TodoUndelivered ==
  \A r \in wTodo : deliveryStatus[r] = "delivered" => Now(r) /\ wpc \in {"log", "record"}

\* A delivered result still has an attempt left.
DeliveredBelowCap ==
  \A r \in Results : deliveryStatus[r] = "delivered" => deliveryAttempts[r] < MaxDelivery

\* The last call of a target that no attempt accounts for.
Uncounted(r) ==
  IF deliveryStatus[r] = "delivered" \/ (wpc \in {"mark", "record"} /\ Now(r)) THEN 1 ELSE 0

SentCounted ==
  \A r \in Results : sent[r] <= deliveryAttempts[r] + Uncounted(r) + crashes + faults

DeliveryInv ==
  /\ DeliveredWasReceived
  /\ MarkAfterDelivery
  /\ SnapshotAbove
  /\ TodoUndelivered
  /\ DeliveredBelowCap
  /\ SentCounted
=============================================================================
