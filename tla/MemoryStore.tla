----------------------------- MODULE MemoryStore -----------------------------
(***************************************************************************)
(* store/memory.ts: the store that tests and ephemeral scripts run on.     *)
(* Every method runs to its end without an await, so it is one function    *)
(* from a database to a database; `count` is what a method returns.        *)
(***************************************************************************)
EXTENDS StoreRows

-----------------------------------------------------------------------------
(* Request and batch lifecycle *)

CreateRequest(db, r, now) == [db EXCEPT !.requests[r] = NewRequest(r, now)]

UpdateRequest(db, r, updates) == [db EXCEPT !.requests[r] = Update(@, updates)]

GetQueuedRequests(db, limit) ==
  LET queued == {r \in Requests : Has(db.requests, r) /\ db.requests[r].status = "queued"}
  IN Oldest(queued, [r \in queued |-> db.requests[r].createdAt], limit)

\* Promise.all of one updateRequest per id
AssignBatchToRequests(db, S, b) ==
  [db EXCEPT !.requests =
     [r \in Requests |->
        IF r \in S THEN Update(@[r], [batch |-> b, status |-> "batched"]) ELSE @[r]]]

\* keys are not kept
FindApiKeyId(u, provider) == NoKey

CreateBatch(db, b, key) == [db EXCEPT !.batches[b] = NewBatch(key)]

UpdateBatch(db, b, updates) == [db EXCEPT !.batches[b] = Update(@, updates)]

BatchesIn(db, statuses) ==
  {b \in Batches : Has(db.batches, b) /\ db.batches[b].status \in statuses}

GetPendingBatches(db) == BatchesIn(db, {"pending"})

GetInFlightBatches(db) == BatchesIn(db, {"submitted", "processing"})

GetRequestsByBatchId(db, b) ==
  {r \in Requests : Has(db.requests, r) /\ db.requests[r].batch = b}

-----------------------------------------------------------------------------
(* Results and events *)

\* the Map is keyed by the new result id: a second row of a request is taken
CreateResult(db, r, now, tokens) ==
  [db EXCEPT !.results[r] = Append(@, NewResult(now, tokens))]

UpdateResult(db, r, i, updates) == [db EXCEPT !.results[r][i] = Update(@, updates)]

MarkDelivered(db, r, i) == [db EXCEPT !.results[r][i].delivery = "delivered"]

GetUndeliveredResults(db, limit) ==
  LET undelivered == {id \in ResultIds(db) :
                        ResultRow(db, id).delivery \in {"pending", "failed"}}
  IN Oldest(undelivered, [id \in undelivered |-> ResultRow(db, id).createdAt], limit)

LogEvent(db, e, details) == [db EXCEPT !.events[e] = details]

-----------------------------------------------------------------------------
(* Retention *)

\* Requests and results that satisfy a test are scrubbed and counted.
Scrub(db, requests, results) ==
  [db    |-> ScrubRequests(ScrubResults(db, results), requests),
   count |-> Cardinality(requests) + Cardinality(results)]

Unscrubbed(db) == {r \in Requests : Has(db.requests, r) /\ ~db.requests[r].scrubbed}

UnscrubbedResults(db) == {id \in ResultIds(db) : ~ResultRow(db, id).scrubbed}

ScrubExpiredContent(db, before) ==
  Scrub(db,
    {r \in Unscrubbed(db) :
       db.requests[r].createdAt < before /\ db.requests[r].status \in Finished},
    {id \in UnscrubbedResults(db) : ResultRow(db, id).createdAt < before})

ScrubContentForUser(db, u, before) ==
  Scrub(db,
    {r \in Unscrubbed(db) :
       /\ UserOf[r] = u
       /\ db.requests[r].createdAt < before
       /\ db.requests[r].status \in Finished},
    {id \in UnscrubbedResults(db) :
       UserOf[id[1]] = u /\ ResultRow(db, id).createdAt < before})

\* the results first, collecting their requests; then those requests,
\* whatever their status
ScrubDeliveredContent(db, u) ==
  LET results == {id \in UnscrubbedResults(db) :
                    ResultRow(db, id).delivery = "delivered" /\ UserOf[id[1]] = u}
      delivered == {id[1] : id \in results}
  IN Scrub(db, delivered \cap Unscrubbed(db), results)

GetDistinctUserIdsWithUnscrubbedContent(db) ==
  {UserOf[r] : r \in {q \in Unscrubbed(db) : db.requests[q].status \in Finished}}
    \cup {UserOf[id[1]] : id \in UnscrubbedResults(db)}

\* the ids a scrub has reached, of one user or of all
ScrubbedEntities(db, users) ==
  {<<"request", r>> : r \in {q \in Requests : /\ Has(db.requests, q)
                                              /\ UserOf[q] \in users
                                              /\ db.requests[q].scrubbed}}
    \cup {<<"result", id[1]>> : id \in {j \in ResultIds(db) \ UnscrubbedResults(db) :
                                          UserOf[j[1]] \in users}}

ScrubEvents(db, users) ==
  LET hit == {e \in Entities : e \in ScrubbedEntities(db, users)
                                 /\ db.events[e] \notin {"none", "scrubbed"}}
  IN [db    |-> [db EXCEPT !.events = [e \in Entities |-> IF e \in hit THEN "scrubbed" ELSE @[e]]],
      count |-> Cardinality(hit)]

ScrubEventLogForUser(db, u) == ScrubEvents(db, {u})

ScrubEventLogsForScrubbedContent(db) == ScrubEvents(db, Users)

-----------------------------------------------------------------------------
(* Analytics *)

InPeriod(db, u, from, to) ==
  {r \in Requests : /\ Has(db.requests, r)
                    /\ UserOf[r] = u
                    /\ db.requests[r].createdAt \in from..to}

Tokens(db, S) ==
  Sum([id \in ResultIds(db) |-> ResultRow(db, id).tokens],
      {id \in ResultIds(db) : id[1] \in S})

GetStats(db, u, from, to) ==
  LET S == InPeriod(db, u, from, to)
      Of(statuses) == Cardinality({r \in S : db.requests[r].status \in statuses})
  IN [totalRequests     |-> Cardinality(S),
      succeededRequests |-> Of({"succeeded"}),
      failedRequests    |-> Of({"failed", "failed_final"}),
      totalTokens       |-> Tokens(db, S),
      totalBatches      |-> Cardinality({db.requests[r].batch : r \in S} \ {Null})]

\* one group per model; of several results of a request the index keeps the last
CostBreakdown(db, u, from, to) ==
  LET S == InPeriod(db, u, from, to)
      Last(r) == IF db.results[r] = <<>> THEN 0
                 ELSE db.results[r][Len(db.results[r])].tokens
  IN {[model        |-> m,
       requestCount |-> Cardinality({r \in S : ModelOf[r] = m}),
       tokens       |-> Sum([r \in Requests |-> Last(r)], {r \in S : ModelOf[r] = m})] :
        m \in {ModelOf[r] : r \in S}}

\* a batch that was submitted and ended counts once if it holds a request of S
Turnarounds(db, u, from, to) ==
  {b \in Batches :
     /\ Has(db.batches, b)
     /\ db.batches[b].submitted
     /\ db.batches[b].endedAt # Null
     /\ {r \in InPeriod(db, u, from, to) : db.requests[r].batch = b} # {}}

GetDetailedStats(db, u, from, to) ==
  <<GetStats(db, u, from, to), CostBreakdown(db, u, from, to), Turnarounds(db, u, from, to)>>

-----------------------------------------------------------------------------
(* User limits and the catalog *)

\* input.x ?? null
OrNull(value) == IF value = Undefined THEN Unlimited ELSE value

UpsertUserLimits_KeepsNull(db, u, input, now) ==    \* mutant: null as undefined
  IF Has(db.limits, u)
    THEN [db EXCEPT
            !.limits[u].maxRequests =
               IF input.maxRequests \in {Undefined, Unlimited} THEN @ ELSE input.maxRequests,
            !.limits[u].hardSpend =
               IF input.hardSpend \in {Undefined, Unlimited} THEN @ ELSE input.hardSpend]
    ELSE [db EXCEPT !.limits[u] =
            NewLimits(OrNull(input.maxRequests), OrNull(input.hardSpend), now + 1)]

\* undefined leaves a field alone; a new row's period ends an hour from now
UpsertUserLimits(db, u, input, now) ==
  IF Has(db.limits, u)
    THEN [db EXCEPT
            !.limits[u].maxRequests =
               IF input.maxRequests = Undefined THEN @ ELSE input.maxRequests,
            !.limits[u].hardSpend =
               IF input.hardSpend = Undefined THEN @ ELSE input.hardSpend]
    ELSE [db EXCEPT !.limits[u] =
            NewLimits(OrNull(input.maxRequests), OrNull(input.hardSpend), now + 1)]

\* currentPeriodTokens or currentPeriodRequests += n
Increment(db, u, field, n) ==
  IF Has(db.limits, u) THEN [db EXCEPT !.limits[u][field] = @ + n] ELSE db

\* currentSpendUsd += amountUsd
IncrementSpend(db, u, amount) ==
  IF Has(db.limits, u) THEN [db EXCEPT !.limits[u].spend = @ + amount] ELSE db

\* check, then increment, within one turn of the event loop
ConsumePeriodRequests(db, u, n, limit) ==
  IF ~Has(db.limits, u) \/ db.limits[u].requests + n > limit
    THEN [db |-> db, count |-> 0]
    ELSE [db |-> [db EXCEPT !.limits[u].requests = @ + n], count |-> n]

ResetPeriod(db, u, now, next) ==
  IF ~Has(db.limits, u) \/ now < db.limits[u].resetAt
    THEN db
    ELSE [db EXCEPT !.limits[u] =
            Update(@, [requests |-> 0, tokens |-> 0, resetAt |-> next])]

\* per batch: skipped without a request of the user or ended before the window
GetSlidingWindow(db, u, start) ==
  LET Counted == {b \in Batches :
                    /\ Has(db.batches, b)
                    /\ \E r \in GetRequestsByBatchId(db, b) : UserOf[r] = u
                    /\ db.batches[b].endedAt # Null
                    /\ db.batches[b].endedAt >= start}
      Good == {b \in Counted : db.batches[b].status = "ended" /\ db.batches[b].failedCount = 0}
      Bad  == {b \in Counted \ Good : db.batches[b].status \in {"ended", "failed", "expired"}}
  IN [succeeded |-> Cardinality(Good), failed |-> Cardinality(Bad)]

GetProviderCatalogEntry(db, m) == db.catalog[m]

\* filtered, then sorted by provider and label
ListProviderCatalog(db, provider) ==
  LET rows == {m \in Models :
                 Has(db.catalog, m) /\ ~(provider # Undefined /\ m[1] # provider)}
      Before(m, k) == IF m[1] # k[1] THEN m[1] < k[1]
                      ELSE db.catalog[m].label < db.catalog[k].label
  IN [rows |-> rows, order |-> {p \in rows \X rows : Before(p[1], p[2])}]

\* the row is replaced
UpsertProviderCatalogEntry(db, m, entry) == [db EXCEPT !.catalog[m] = entry]
=============================================================================
