------------------------------- MODULE Polling -------------------------------
(***************************************************************************)
(* engine/status-tracker.ts as a schedule: which batches a tick polls,     *)
(* what an error of one batch costs the others, and what the breaker       *)
(* learns.  One provider holds jobs, the other is the Flex adapter.        *)
(*                                                                         *)
(* The timer fires every TickEvery units; a tick takes no time beside the  *)
(* intervals, and the clock moves between ticks.                           *)
(***************************************************************************)
EXTENDS PollStrategies, CircuitBreaker, FlexAdapter, FiniteSets

CONSTANTS
  JobBatches,    \* batches submitted at time 0 to the provider that holds jobs
  NoAdapter,     \* those of a provider with no adapter
  Strategies,    \* values of pollingStrategy, among them names of no preset
  TickEvery,     \* tickIntervalMs
  MaxTime,       \* bound on the clock
  MaxFaults,     \* bound on checks that fail and updates that throw
  MaxRestarts,   \* bound on restarts of the process
  MaxOrphans     \* bound on orphans recovered

ASSUME PollingAssumption ==
  /\ JobBatches \subseteq Nat \ {0} /\ FlexBatches \subseteq Nat \ {0}
  /\ JobBatches \cap FlexBatches = {}
  /\ NoAdapter \subseteq JobBatches
  /\ TickEvery \in Nat \ {0}

Batches == JobBatches \cup FlexBatches

VARIABLES
  strategy,     \* batches.polling_strategy, or the default where it is NULL
  now,          \* the clock
  status,       \* batches.status; "absent" for a Flex batch not yet recorded
  poll,         \* pollStates of the tracker: NoPoll or [last, count]
  job,          \* the provider's own state of a job
  endedAt,      \* when a job ended, until the tracker has seen it
  ticking,      \* the snapshot of in-flight batches still to be checked
  handler,      \* "none", "running" or "done": the result handler of a Flex
                \* batch; that of a job is no concern of the schedule
  breaker,      \* the circuit breaker
  faults, restarts, orphans    \* bounded counts

pollVars == <<now, status, poll, job, endedAt, ticking, handler, breaker, faults, restarts, orphans, strategy>>
vars == <<pollVars, flexVars>>

NoPoll   == [last |-> -1, count |-> 0]     \* lastPolledAt is null
NoTick   == {0}                            \* no tick is running
Terminal == {"ended", "expired", "failed", "cancelled"}

Init ==
  /\ strategy \in [Batches -> Strategies]
  /\ now = 0
  /\ status = [b \in Batches |-> IF b \in JobBatches THEN "submitted" ELSE "absent"]
  /\ poll = [b \in Batches |-> NoPoll]
  /\ job = [b \in JobBatches |-> "validating"]
  /\ endedAt = [b \in JobBatches |-> 0]
  /\ ticking = NoTick
  /\ handler = [b \in FlexBatches |-> "none"]
  /\ breaker = NewBreaker
  /\ faults = 0 /\ restarts = 0 /\ orphans = 0
  /\ FlexInit

-----------------------------------------------------------------------------
(* The tick *)

InFlight_SubmittedOnly == {b \in Batches : status[b] = "submitted"}     \* mutant

\* getInFlightBatches
InFlight == {b \in Batches : status[b] \in {"submitted", "processing"}}

\* The timer fires: n orphans are recovered and the snapshot is read.
TickBegins(n) ==
  /\ ticking = NoTick
  /\ now + TickEvery <= MaxTime
  /\ now' = now + TickEvery
  /\ orphans + n <= MaxOrphans /\ orphans' = orphans + n
  /\ breaker' = IF n > 0 THEN RecordSuccess(breaker, now') ELSE breaker
  /\ ticking' = InFlight
  /\ UNCHANGED <<strategy, status, poll, job, endedAt, handler, faults, restarts, flexVars>>

\* cleanupPollStates
TickEnds ==
  /\ ticking = {}
  /\ poll' = [b \in Batches |-> IF b \in InFlight THEN poll[b] ELSE NoPoll]
  /\ ticking' = NoTick
  /\ UNCHANGED <<strategy, now, status, job, endedAt, handler, breaker, faults, restarts, orphans, flexVars>>

\* checkBatch comes to b
Turn(b) == b \in ticking /\ \A c \in ticking : b <= c

IsDue(b) ==
  poll[b] = NoPoll
    \/ now - poll[b].last >= NextInterval(strategy[b], now, poll[b].count)

Polled(b) ==
  poll' = [poll EXCEPT ![b] = [last |-> now, count |-> IF @.count < 6 THEN @.count + 1 ELSE @.count]]

\* getClampedStrategy throws of an unknown name, and the tick with it
UnknownStrategy(b) ==
  /\ Turn(b) /\ strategy[b] \notin Presets
  /\ ticking' = NoTick
  /\ UNCHANGED <<strategy, now, status, poll, job, endedAt, handler, breaker, faults, restarts, orphans, flexVars>>

\* not due, or no adapter: nothing is noted
Skip(b) ==
  /\ Turn(b) /\ strategy[b] \in Presets
  /\ ~IsDue(b) \/ b \in NoAdapter
  /\ ticking' = ticking \ {b}
  /\ UNCHANGED <<strategy, now, status, poll, job, endedAt, handler, breaker, faults, restarts, orphans, flexVars>>

Asks(b) == Turn(b) /\ strategy[b] \in Presets /\ IsDue(b) /\ b \notin NoAdapter

\* mapStatus of openai-batch.ts
MapStatus(native) ==
  CASE native \in {"validating", "in_progress", "finalizing", "cancelling"} -> "processing"
    [] native = "completed" -> "ended"
    [] OTHER                -> native

Answer(b) == IF b \in FlexBatches THEN FlexStatus(b) ELSE MapStatus(job[b])

\* checkStatus throws: the tracker backs off all the same
CheckFails(b) ==
  /\ Asks(b)
  /\ IF Answer(b) = "throws" THEN UNCHANGED faults
     ELSE faults < MaxFaults /\ faults' = faults + 1
  /\ Polled(b)
  /\ ticking' = ticking \ {b}
  /\ UNCHANGED <<strategy, now, status, job, endedAt, handler, breaker, restarts, orphans, flexVars>>

\* applyStatusTransition and the listeners it calls
CheckAnswers(b) ==
  /\ Asks(b) /\ Answer(b) # "throws"
  /\ Polled(b)
  /\ status' = [status EXCEPT ![b] = Answer(b)]
  /\ endedAt' = [c \in JobBatches |-> IF c = b THEN 0 ELSE endedAt[c]]
  /\ handler' = [c \in FlexBatches |->
                   IF c = b /\ Answer(b) = "ended" THEN "running" ELSE handler[c]]
  /\ breaker' = IF Answer(b) = "failed" THEN RecordFailure(breaker, now) ELSE breaker
  /\ ticking' = ticking \ {b}
  /\ UNCHANGED <<strategy, now, job, faults, restarts, orphans, flexVars>>

\* updateBatch throws, and the tick with it; the poll is noted already
UpdateFails(b) ==
  /\ Asks(b) /\ Answer(b) # "throws" /\ Answer(b) # status[b]
  /\ faults < MaxFaults /\ faults' = faults + 1
  /\ Polled(b)
  /\ ticking' = NoTick
  /\ UNCHANGED <<strategy, now, status, job, endedAt, handler, breaker, restarts, orphans, flexVars>>

Tick ==
  \/ \E n \in 0..1 : TickBegins(n)
  \/ TickEnds
  \/ \E b \in Batches : UnknownStrategy(b) \/ Skip(b) \/ CheckFails(b) \/ CheckAnswers(b) \/ UpdateFails(b)

-----------------------------------------------------------------------------
(* The providers, the flush, the handlers *)

\* a job moves on at the provider, between two ticks: it fails while its
\* input is validated, or expires with what is done until then
JobMoves(b, s) ==
  /\ ticking = NoTick
  /\ \/ job[b] = "validating"  /\ s \in {"in_progress", "failed"}
     \/ job[b] = "in_progress" /\ s \in {"completed", "expired"}
  /\ job' = [job EXCEPT ![b] = s]
  /\ endedAt' = [endedAt EXCEPT ![b] = IF MapStatus(s) \in Terminal THEN now ELSE 0]
  /\ UNCHANGED <<strategy, now, status, poll, ticking, handler, breaker, faults, restarts, orphans, flexVars>>

\* the flush hands a batch to the Flex adapter, and records the reference
FlexSubmit ==
  \/ /\ \E b \in FlexBatches : status[b] = "absent" /\ FlexBegin(b)
     /\ UNCHANGED pollVars
  \/ (\E success \in BOOLEAN : FlexAnswer(success)) /\ UNCHANGED pollVars
  \/ FlexRetry /\ UNCHANGED pollVars
  \/ \E b \in FlexBatches :
       /\ FlexReturn(b)
       /\ status' = [status EXCEPT ![b] = "submitted"]
       /\ UNCHANGED <<strategy, now, poll, job, endedAt, ticking, handler, breaker, faults, restarts, orphans>>

\* the handler iterates the results to the end, or throws on the way
HandlerEnds(b) ==
  /\ handler[b] = "running"
  /\ handler' = [handler EXCEPT ![b] = "done"]
  /\ FlexFetched(b)
  /\ UNCHANGED <<strategy, now, status, poll, job, endedAt, ticking, breaker, faults, restarts, orphans>>

\* a new process: the memory of tracker, breaker and adapter is lost
Restart ==
  /\ restarts < MaxRestarts
  /\ restarts' = restarts + 1
  /\ poll' = [b \in Batches |-> NoPoll]
  /\ ticking' = NoTick
  /\ handler' = [b \in FlexBatches |-> IF handler[b] = "running" THEN "none" ELSE handler[b]]
  /\ breaker' = NewBreaker
  /\ FlexReset
  /\ UNCHANGED <<strategy, now, status, job, endedAt, faults, orphans>>

Next ==
  \/ Tick
  \/ \E b \in JobBatches, s \in {"in_progress", "completed", "expired", "failed"} : JobMoves(b, s)
  \/ FlexSubmit
  \/ \E b \in FlexBatches : HandlerEnds(b)
  \/ Restart

Spec == Init /\ [][Next]_vars

-----------------------------------------------------------------------------
(* Properties *)

\* Between two ticks, a job that has ended was looked for within the longest
\* interval, whatever the strategy; a failed check or update, of any batch,
\* costs an interval and a tick more at most, and a restart the tick it ends.
\* Excepted are batches behind one whose strategy has no preset: every tick
\* ends at that one.
FoundInTime ==
  \A b \in JobBatches \ NoAdapter :
    /\ MapStatus(job[b]) \in Terminal
    /\ \A c \in Batches : c <= b => strategy[c] \in Presets
    /\ status[b] \notin Terminal /\ ticking = NoTick
    => now - endedAt[b] <= MaxInterval + faults * (MaxInterval + TickEvery) + restarts * TickEvery

\* A stale success, of an orphan sent before the breaker tripped, does not
\* cut the cooldown short: once open, the breaker stays so until its time is
\* over or the process is restarted.
CooldownHolds ==
  [][breaker.state = "open" /\ now' - breaker.trippedAt < Cooldown /\ restarts' = restarts =>
       breaker' = [breaker EXCEPT !.failures = breaker'.failures]]_vars

\* A Flex batch is marked ended only while its results are in memory, and the
\* handler started then finds all of them: no restart makes a batch look
\* ended that has nothing to fetch.
EndedHasResults ==
  \A b \in FlexBatches : handler[b] = "running" => Len(cache[b]) = FlexRequests
=============================================================================
