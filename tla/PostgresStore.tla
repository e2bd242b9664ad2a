---------------------------- MODULE PostgresStore ----------------------------
(***************************************************************************)
(* store/postgres.ts: the store the worker and the web process share.      *)
(* Each SQL statement is one function from a database to a database;       *)
(* `count` is what a method returns.  A method of two statements is the    *)
(* composition of two functions, and a crash may fall between them.        *)
(***************************************************************************)
EXTENDS StoreRows

-----------------------------------------------------------------------------
(* Request and batch lifecycle *)

\* INSERT; the columns left out take the defaults of the migration
CreateRequest(db, r, now) == [db EXCEPT !.requests[r] = NewRequest(r, now)]

\* UPDATE requests SET ... WHERE id = r
UpdateRequest(db, r, updates) == [db EXCEPT !.requests[r] = Update(@, updates)]

GetQueuedRequests(db, limit) ==
  LET queued == {r \in Requests : Has(db.requests, r) /\ db.requests[r].status = "queued"}
  IN Oldest(queued, [r \in queued |-> db.requests[r].createdAt], limit)

\* UPDATE requests ... WHERE id = ANY(S)
AssignBatchToRequests(db, S, b) ==
  [db EXCEPT !.requests =
     [r \in Requests |->
        IF r \in S THEN Update(@[r], [status |-> "batched", batch |-> b]) ELSE @[r]]]

\* SELECT id FROM user_api_keys WHERE ... ORDER BY priority, created_at LIMIT 1
FindApiKeyId(keys, u, provider) ==
  LET own == {k \in keys : KeyOwner[k] = <<u, provider>>}
  IN IF own = {} THEN NoKey ELSE CHOOSE k \in own : \A j \in own : KeyRank[k] <= KeyRank[j]

\* api_key_id REFERENCES user_api_keys (id): without its row the INSERT throws
CreateBatch(db, keys, b, key) ==
  IF key \in keys THEN [db EXCEPT !.batches[b] = NewBatch(key)] ELSE db

UpdateBatch(db, b, updates) == [db EXCEPT !.batches[b] = Update(@, updates)]

GetPendingBatches(db) ==
  {b \in Batches : Has(db.batches, b) /\ db.batches[b].status = "pending"}

GetInFlightBatches(db) ==
  {b \in Batches : Has(db.batches, b) /\ db.batches[b].status \in {"submitted", "processing"}}

GetRequestsByBatchId(db, b) ==
  {r \in Requests : Has(db.requests, r) /\ db.requests[r].batch = b}

-----------------------------------------------------------------------------
(* Results and events *)

\* UNIQUE (request_id): the second INSERT throws
CreateResult(db, r, now, tokens) ==
  IF db.results[r] = <<>>
    THEN [db EXCEPT !.results[r] = <<NewResult(now, tokens)>>]
    ELSE db

\* WHERE id = i: a row that was never inserted is not updated
UpdateResult(db, r, i, updates) ==
  IF i \in DOMAIN db.results[r]
    THEN [db EXCEPT !.results[r][i] = Update(@, updates)]
    ELSE db

MarkDelivered(db, r, i) == UpdateResult(db, r, i, [delivery |-> "delivered"])

GetUndeliveredResults(db, limit) ==
  LET undelivered == {id \in ResultIds(db) :
                        ResultRow(db, id).delivery \in {"pending", "failed"}}
  IN Oldest(undelivered, [id \in undelivered |-> ResultRow(db, id).createdAt], limit)

LogEvent(db, e, details) == [db EXCEPT !.events[e] = details]

-----------------------------------------------------------------------------
(* Retention: UPDATE requests and UPDATE results, in no transaction        *)

\* UPDATE requests SET params, content_scrubbed_at WHERE
\*   content_scrubbed_at IS NULL AND status IN (...) AND id IN S
ScrubRequestRows(db, S) ==
  LET hit == {r \in S : /\ Has(db.requests, r)
                        /\ ~db.requests[r].scrubbed
                        /\ db.requests[r].status \in Finished}
  IN [db |-> ScrubRequests(db, hit), count |-> Cardinality(hit)]

\* UPDATE results SET response, content_scrubbed_at WHERE
\*   content_scrubbed_at IS NULL AND id IN S
ScrubResultRows(db, S) ==
  LET hit == {id \in S : ~ResultRow(db, id).scrubbed}
  IN [db |-> ScrubResults(db, hit), count |-> Cardinality(hit)]

RequestsOf(users) == {r \in Requests : UserOf[r] \in users}

RequestsBefore(db, users, before) ==
  {r \in RequestsOf(users) : Has(db.requests, r) /\ db.requests[r].createdAt < before}

ResultsBefore(db, users, before) ==
  {id \in ResultIds(db) : id[1] \in RequestsOf(users) /\ ResultRow(db, id).createdAt < before}

\* the two statements of scrubExpiredContent and scrubContentForUser
ScrubBefore(db, users, before) ==
  LET first  == ScrubRequestRows(db, RequestsBefore(db, users, before))
      second == ScrubResultRows(first.db, ResultsBefore(first.db, users, before))
  IN [half |-> first.db, db |-> second.db, count |-> first.count + second.count]

ScrubExpiredContent(db, before) == ScrubBefore(db, Users, before)

ScrubContentForUser(db, u, before) == ScrubBefore(db, {u}, before)

DeliveredResults(db, u) ==
  {id \in ResultIds(db) : UserOf[id[1]] = u /\ ResultRow(db, id).delivery = "delivered"}

ScrubDeliveredContent_JustScrubbed(db, u) ==    \* mutant: RETURNING request_id
  LET first  == ScrubResultRows(db, DeliveredResults(db, u))
      gone   == {id[1] : id \in {j \in DeliveredResults(db, u) : ~ResultRow(db, j).scrubbed}}
      second == ScrubRequestRows(first.db, gone)
  IN [half |-> first.db, db |-> second.db, count |-> first.count + second.count]

\* the requests with a delivered result that is scrubbed, by whichever call
ScrubDeliveredContent(db, u) ==
  LET first  == ScrubResultRows(db, DeliveredResults(db, u))
      gone   == {id[1] : id \in {j \in DeliveredResults(first.db, u) :
                                   ResultRow(first.db, j).scrubbed}}
      second == ScrubRequestRows(first.db, gone)
  IN [half |-> first.db, db |-> second.db, count |-> first.count + second.count]

\* SELECT ... FROM requests UNION SELECT ... FROM results JOIN requests
GetDistinctUserIdsWithUnscrubbedContent(db) ==
  {u \in Users :
     \/ \E r \in RequestsOf({u}) :
          /\ Has(db.requests, r)
          /\ ~db.requests[r].scrubbed
          /\ db.requests[r].status \in Finished
     \/ \E id \in ResultIds(db) : UserOf[id[1]] = u /\ ~ResultRow(db, id).scrubbed}

ScrubbedEntity(db, e) ==
  CASE e[1] = "request" -> Has(db.requests, e[2]) /\ db.requests[e[2]].scrubbed
    [] e[1] = "result"  -> \E id \in ResultIds(db) : id[1] = e[2] /\ ResultRow(db, id).scrubbed

\* UPDATE event_log WHERE details IS NOT NULL AND NOT (details ? 'scrubbed')
ScrubEventRows(db, S) ==
  LET hit == {e \in S : db.events[e] = "text" /\ ScrubbedEntity(db, e)}
  IN [db    |-> [db EXCEPT !.events = [e \in Entities |-> IF e \in hit THEN "scrubbed" ELSE @[e]]],
      count |-> Cardinality(hit)]

ScrubEventLogForUser(db, u) == ScrubEventRows(db, {e \in Entities : UserOf[e[2]] = u})

ScrubEventLogsForScrubbedContent(db) == ScrubEventRows(db, Entities)

-----------------------------------------------------------------------------
(* Analytics: aggregates over requests LEFT JOIN results *)

Selected(db, u, from, to) ==
  {r \in RequestsOf({u}) : Has(db.requests, r) /\ db.requests[r].createdAt \in from..to}

\* SUM(res.tokens) over the join; the constraint leaves one result at most
SumTokens(db, S) ==
  Sum([r \in Requests |-> IF db.results[r] = <<>> THEN 0 ELSE db.results[r][1].tokens], S)

GetStats(db, u, from, to) ==
  LET rows == Selected(db, u, from, to)
      CountWhere(statuses) == Cardinality({r \in rows : db.requests[r].status \in statuses})
  IN [totalRequests     |-> Cardinality(rows),
      succeededRequests |-> CountWhere({"succeeded"}),
      failedRequests    |-> CountWhere({"failed", "failed_final"}),
      totalTokens       |-> SumTokens(db, rows),
      totalBatches      |-> Cardinality({b \in Batches : \E r \in rows : db.requests[r].batch = b})]

\* GROUP BY provider, model
CostBreakdown(db, u, from, to) ==
  LET rows == Selected(db, u, from, to)
      Group(m) == {r \in rows : ModelOf[r] = m}
  IN {[model |-> m, requestCount |-> Cardinality(Group(m)), tokens |-> SumTokens(db, Group(m))] :
        m \in {k \in Models : Group(k) # {}}}

\* batches that ended, of which EXISTS a selected request
Turnarounds(db, u, from, to) ==
  {b \in Batches :
     /\ Has(db.batches, b)
     /\ db.batches[b].submitted /\ db.batches[b].endedAt # Null
     /\ \E r \in Selected(db, u, from, to) : db.requests[r].batch = b}

\* three queries in parallel
GetDetailedStats(db, u, from, to) ==
  <<GetStats(db, u, from, to), CostBreakdown(db, u, from, to), Turnarounds(db, u, from, to)>>

-----------------------------------------------------------------------------
(* User limits and the catalog *)

\* NUMERIC(10,2): what is stored is rounded to cents, half a cent upwards
ToCents(amount) == Cent * ((amount + Cent \div 2) \div Cent)

\* INSERT ... ON CONFLICT (user_id) DO UPDATE
UpsertUserLimits(db, u, input, now) ==
  LET Value(limit) == IF limit = Undefined THEN Unlimited ELSE limit
      Cents(limit) == IF Value(limit) = Unlimited THEN Unlimited ELSE ToCents(limit)
  IN [db EXCEPT !.limits[u] =
        IF ~Has(db.limits, u)
          THEN NewLimits(Value(input.maxRequests), Cents(input.hardSpend), now + 1)
          ELSE Update(@,
                 [maxRequests |-> IF input.maxRequests = Undefined THEN @.maxRequests
                                  ELSE Value(input.maxRequests),
                  hardSpend   |-> IF input.hardSpend = Undefined THEN @.hardSpend
                                  ELSE Cents(input.hardSpend)])]

\* UPDATE user_limits SET field = field + n WHERE user_id = u: the integer counters
Increment(db, u, field, n) ==
  [db EXCEPT !.limits[u] =
     IF Has(db.limits, u) THEN [@ EXCEPT ![field] = db.limits[u][field] + n] ELSE @]

\* ... SET current_spend_usd = current_spend_usd + amount
IncrementSpend(db, u, amount) ==
  [db EXCEPT !.limits[u] =
     IF Has(db.limits, u) THEN [@ EXCEPT !.spend = ToCents(db.limits[u].spend + amount)]
     ELSE @]

\* one UPDATE: the WHERE clause is the check
ConsumePeriodRequests(db, u, n, limit) ==
  LET match == Has(db.limits, u) /\ db.limits[u].requests + n <= limit
  IN [db    |-> IF match THEN [db EXCEPT !.limits[u].requests = @ + n] ELSE db,
      count |-> IF match THEN n ELSE 0]

\* ... WHERE user_id = u AND period_reset_at <= now()
ResetPeriod(db, u, now, next) ==
  IF Has(db.limits, u) /\ db.limits[u].resetAt <= now
    THEN [db EXCEPT !.limits[u] =
            Update(@, [requests |-> 0, tokens |-> 0, resetAt |-> next])]
    ELSE db

GetSlidingWindow_Cancelled(db, u, start) ==    \* mutant: cancelled batches failed
  LET ended == {b \in Batches :
                  /\ Has(db.batches, b)
                  /\ db.batches[b].endedAt # Null /\ db.batches[b].endedAt >= start
                  /\ \E r \in RequestsOf({u}) : Has(db.requests, r) /\ db.requests[r].batch = b}
      Ok(b) == db.batches[b].status = "ended" /\ db.batches[b].failedCount = 0
  IN [succeeded |-> Cardinality({b \in ended : Ok(b)}),
      failed    |-> Cardinality({b \in ended : ~Ok(b)})]

\* COUNT(*) FILTER (...) over batches with ended_at >= start
GetSlidingWindow(db, u, start) ==
  LET ended == {b \in Batches :
                  /\ Has(db.batches, b)
                  /\ db.batches[b].endedAt # Null /\ db.batches[b].endedAt >= start
                  /\ \E r \in RequestsOf({u}) : Has(db.requests, r) /\ db.requests[r].batch = b}
      Failed(b) == /\ db.batches[b].status \in {"ended", "failed", "expired"}
                   /\ \/ db.batches[b].failedCount > 0
                      \/ db.batches[b].status \in {"failed", "expired"}
      Ok(b) == db.batches[b].status = "ended" /\ db.batches[b].failedCount = 0
  IN [succeeded |-> Cardinality({b \in ended : Ok(b)}),
      failed    |-> Cardinality({b \in ended : Failed(b)})]

GetProviderCatalogEntry(db, m) == db.catalog[m]

\* [WHERE provider = ...] ORDER BY provider, display_label
ListProviderCatalog(db, provider) ==
  LET rows == {m \in Models : Has(db.catalog, m) /\ provider \in {Undefined, m[1]}}
  IN [rows  |-> rows,
      order |-> {p \in rows \X rows :
                   \/ p[1][1] < p[2][1]
                   \/ /\ p[1][1] = p[2][1]
                      /\ db.catalog[p[1]].label < db.catalog[p[2]].label}]

\* ON CONFLICT DO UPDATE SET every column = EXCLUDED
UpsertProviderCatalogEntry(db, m, entry) ==
  [db EXCEPT !.catalog[m] = IF Has(db.catalog, m) THEN Update(@, entry) ELSE entry]
=============================================================================
