---------------------------- MODULE RequestQueue ----------------------------
(***************************************************************************)
(* engine/queue.ts: the counters of the requests a process has enqueued    *)
(* since its last flush, and the one flush that may run.  Requests arrive  *)
(* while a flush runs; onFlush is BatchManager.flush, which reads at most  *)
(* maxRequests rows, the oldest first, and may throw half-way.             *)
(***************************************************************************)
EXTENDS Integers, FiniteSets

CONSTANTS
  Items,         \* requests that may be enqueued
  Size,          \* estimateBytes of each
  MaxRequests,   \* batching.maxRequests: the count trigger, and rows per flush
  MaxBytes,      \* batching.maxBytes: the byte trigger
  Timer,         \* the trigger of setInterval and of stop's final flush
  FlushApi,      \* the trigger of POST /api/v1/flush
  NoOne,         \* nobody has triggered a flush
  NotRead        \* the flush that runs has not read its rows

ASSUME QueueAssumption ==
  /\ Size \in [Items -> Nat]
  /\ MaxRequests \in Nat \ {0}
  /\ MaxBytes \in Nat \ {0}
  /\ \A T \in SUBSET Items : NotRead # T

VARIABLES
  queued,        \* rows with status queued
  older,         \* their order: <<i, j>> if i was created before j
  pendingCount,  \* requests counted since the last flush
  pendingBytes,  \* and their size
  flusher,       \* who triggered the flush that runs: `flushing` is # NoOne
  snapshot,      \* the counters when it began
  taken,         \* the rows it has read, or NotRead
  started,       \* the interval timer runs
  flushed,       \* queued rows a flush that returned has read
  fullPage       \* the last flush that returned read maxRequests rows

queueVars == <<queued, older, pendingCount, pendingBytes, flusher, snapshot, taken,
               started, flushed, fullPage>>

QueueInit ==
  /\ queued = {} /\ older = {}
  /\ pendingCount = 0 /\ pendingBytes = 0
  /\ flusher = NoOne
  /\ snapshot = [count |-> 0, bytes |-> 0]
  /\ taken = NotRead
  /\ started = FALSE
  /\ flushed = {}
  /\ fullPage = FALSE

flushing == flusher # NoOne

-----------------------------------------------------------------------------
(* enqueue: the row is inserted, then counted *)

StoreItem(i) ==
  /\ queued' = queued \cup {i}
  /\ older' = older \cup (queued \X {i})
  /\ UNCHANGED <<pendingCount, pendingBytes, flusher, snapshot, taken,
                 started, flushed, fullPage>>

\* triggerFlush that finds no flush running; the counters are those of now
BeginFlush(who, count, bytes) ==
  /\ flusher' = who
  /\ snapshot' = [count |-> count, bytes |-> bytes]
  /\ taken' = NotRead

\* checkFlushTriggers with the new counters
Triggers(count, bytes) == count >= MaxRequests \/ bytes >= MaxBytes

\* The request is counted, and either triggers a flush its caller waits for or
\* leaves it to the flush that runs, to a later enqueue or to the timer.
CountItem(i, who) ==
  LET count == pendingCount + 1
      bytes == pendingBytes + Size[i]
  IN /\ pendingCount' = count
     /\ pendingBytes' = bytes
     /\ IF Triggers(count, bytes) /\ ~flushing
          THEN BeginFlush(who, count, bytes)
          ELSE UNCHANGED <<flusher, snapshot, taken>>
     /\ UNCHANGED <<queued, older, started, flushed, fullPage>>

-----------------------------------------------------------------------------
(* The other triggers *)

\* start(): idempotent
StartTimer ==
  /\ started' = TRUE
  /\ UNCHANGED <<queued, older, pendingCount, pendingBytes, flusher, snapshot, taken,
                 flushed, fullPage>>

\* tick() of the timer, flush() of the API: a flush that runs makes it a no-op
TriggerFlush(who) ==
  /\ who = Timer => started
  /\ ~flushing
  /\ BeginFlush(who, pendingCount, pendingBytes)
  /\ UNCHANGED <<queued, older, pendingCount, pendingBytes, started, flushed, fullPage>>

\* stop({finalFlush: true})
StopTimer ==
  /\ started
  /\ started' = FALSE
  /\ IF flushing THEN UNCHANGED <<flusher, snapshot, taken>>
                 ELSE BeginFlush(Timer, pendingCount, pendingBytes)
  /\ UNCHANGED <<queued, older, pendingCount, pendingBytes, flushed, fullPage>>

-----------------------------------------------------------------------------
(* The flush *)

NoSnapshot == [count |-> 0, bytes |-> 0]

EndFlush ==
  /\ flusher' = NoOne
  /\ snapshot' = NoSnapshot
  /\ taken' = NotRead

\* ORDER BY created_at LIMIT maxRequests
OldestPage(T) ==
  /\ Cardinality(T) = IF Cardinality(queued) < MaxRequests THEN Cardinality(queued)
                      ELSE MaxRequests
  /\ \A i \in T, j \in queued \ T : <<i, j>> \in older

\* getQueuedRequests(maxRequests)
FlushReads ==
  /\ flushing /\ taken = NotRead
  /\ \E T \in SUBSET queued : OldestPage(T) /\ taken' = T
  /\ UNCHANGED <<queued, older, pendingCount, pendingBytes, flusher, snapshot,
                 started, flushed, fullPage>>

\* The rows of S leave status queued; a flush that reverts a chunk keeps them.
Dequeue(S) ==
  /\ queued' = queued \ S
  /\ older' = {p \in older : p[1] \notin S /\ p[2] \notin S}

Less(n, m) == IF m > n THEN 0 ELSE n - m    \* Math.max(0, n - m)

\* mutant: the counters are cleared, as if nothing arrived during the flush
FlushReturns_Clears ==
  /\ flushing /\ taken # NotRead
  /\ \E S \in SUBSET taken : Dequeue(S)
  /\ pendingCount' = 0
  /\ pendingBytes' = 0
  /\ flushed' = (flushed \cup taken) \cap queued'
  /\ fullPage' = (Cardinality(taken) = MaxRequests)
  /\ EndFlush
  /\ UNCHANGED started

\* onFlush returns: what was counted before it began is counted no more
FlushReturns ==
  /\ flushing /\ taken # NotRead
  /\ \E S \in SUBSET taken : Dequeue(S)
  /\ pendingCount' = Less(pendingCount, snapshot.count)
  /\ pendingBytes' = Less(pendingBytes, snapshot.bytes)
  /\ flushed' = (flushed \cup taken) \cap queued'
  /\ fullPage' = (Cardinality(taken) = MaxRequests)
  /\ EndFlush
  /\ UNCHANGED started

\* onFlush throws, with some of the rows in batches: the counters stay
FlushThrows ==
  /\ flushing
  /\ \E S \in SUBSET (IF taken = NotRead THEN {} ELSE taken) : Dequeue(S)
  /\ flushed' = flushed \cap queued'
  /\ EndFlush
  /\ UNCHANGED <<pendingCount, pendingBytes, started, fullPage>>
=============================================================================
