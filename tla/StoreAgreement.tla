--------------------------- MODULE StoreAgreement ---------------------------
(***************************************************************************)
(* Two implementations of one interface (interfaces/store.ts).  The        *)
(* program runs on PostgresStore and most of its tests on MemoryStore, so  *)
(* a test shows something of the program only where the two agree.  Both   *)
(* receive the same calls here, those the engine, the ingester, the        *)
(* delivery and retention workers, the API and the catalog refresh make.   *)
(*                                                                         *)
(* The calls on which the two are known to part are made too: they set     *)
(* `parted`, and a behaviour ends there.  They are those that create a     *)
(* batch for a key that is not stored or through findApiKeyId, that charge *)
(* or limit a fraction of a cent, that store a second result of a request, *)
(* that scrub the delivered content of some requests, and the scrubs that  *)
(* are cut in half.                                                        *)
(***************************************************************************)
EXTENDS StoreRows

CONSTANT Amounts    \* costs and spend limits, in the fractions that are counted

ASSUME AmountAssumption == Amounts \subseteq Nat

Mem == INSTANCE MemoryStore
Pg  == INSTANCE PostgresStore

VARIABLES
  mem,      \* the maps of MemoryStore
  pg,       \* the tables of PostgresStore
  keys,     \* the rows of user_api_keys, which only the database has
  now,      \* the time; new rows are created at it
  parted    \* the last call was one on which the stores part

vars == <<mem, pg, keys, now, parted>>

Counters == {"requests", "tokens"}
MaxCount == 2           \* bound on each counter of user_limits
MaxSpend == 2 * Cent    \* bound on the spend of a user

Init ==
  /\ mem = EmptyDb
  /\ pg = EmptyDb
  /\ keys = {}
  /\ now = 1
  /\ parted = FALSE

Both(m, p) ==
  /\ ~parted
  /\ mem' = m
  /\ pg' = p
  /\ UNCHANGED <<keys, now, parted>>

Part(m, p) ==
  /\ ~parted
  /\ mem' = m
  /\ pg' = p
  /\ parted' = TRUE
  /\ UNCHANGED <<keys, now>>

Clock ==
  /\ now < MaxTime /\ ~parted
  /\ now' = now + 1
  /\ UNCHANGED <<mem, pg, keys, parted>>

-----------------------------------------------------------------------------
(* The flush, the tracker and the result handlers *)

Status(r) == IF Has(pg.requests, r) THEN pg.requests[r].status ELSE "absent"

BatchStatus(b) == IF Has(pg.batches, b) THEN pg.batches[b].status ELSE "absent"

CreateRequest(r) ==
  /\ Status(r) = "absent" /\ \A q \in Requests : q < r => Status(q) # "absent"
  /\ Both(Mem!CreateRequest(mem, r, now), Pg!CreateRequest(pg, r, now))

NextBatch(b) ==
  BatchStatus(b) = "absent" /\ \A c \in Batches : c < b => BatchStatus(c) # "absent"

\* The caller names the key, as the failover path does.
CreateBatch(b, key) ==
  /\ NextBatch(b) /\ key \in keys
  /\ Both(Mem!CreateBatch(mem, b, key), Pg!CreateBatch(pg, keys, b, key))

\* A key without a row violates a foreign key of the database only.
CreateBatchUnknownKey(b, key) ==
  /\ NextBatch(b) /\ key \notin keys
  /\ Part(Mem!CreateBatch(mem, b, key), Pg!CreateBatch(pg, keys, b, key))

\* The caller asks the store for the key and takes the user's id in its stead:
\* the map always answers null, and PostgreSQL refuses the id.
CreateBatchFor(b, u, provider) ==
  LET OrUser(key) == IF key = NoKey THEN u ELSE key
  IN /\ NextBatch(b)
     /\ Part(Mem!CreateBatch(mem, b, OrUser(Mem!FindApiKeyId(u, provider))),
             Pg!CreateBatch(pg, keys, b, OrUser(Pg!FindApiKeyId(keys, u, provider))))

\* The key pages of the web app, which know no other store than the database.
AddKey(k) ==
  /\ ~parted
  /\ keys' = keys \cup {k}
  /\ UNCHANGED <<mem, pg, now, parted>>

\* refused while a batch names the key
DeleteKey(k) ==
  /\ ~parted
  /\ \A b \in Batches : Has(pg.batches, b) => pg.batches[b].apiKey # k
  /\ keys' = keys \ {k}
  /\ UNCHANGED <<mem, pg, now, parted>>

\* the flush: queued requests join a pending batch
AssignBatchToRequests(S, b) ==
  /\ BatchStatus(b) = "pending"
  /\ S # {} /\ S \subseteq Pg!GetQueuedRequests(pg, 2)
  /\ Both(Mem!AssignBatchToRequests(mem, S, b), Pg!AssignBatchToRequests(pg, S, b))

UpdateRequest(r, updates) ==
  Both(Mem!UpdateRequest(mem, r, updates), Pg!UpdateRequest(pg, r, updates))

\* ingestion and expiry
Settle(r, s) ==
  /\ Status(r) = "batched" /\ s \in {"succeeded", "failed", "expired"}
  /\ UpdateRequest(r, [status |-> s])

\* repackaging, the retry endpoint and the reverts of the flush
Requeue(r) ==
  /\ Status(r) \in {"batched", "failed", "expired", "failed_final"}
  /\ UpdateRequest(r, [status |-> "queued", batch |-> Null])

GiveUp(r) ==
  /\ Status(r) \in {"queued", "failed", "expired"}
  /\ UpdateRequest(r, [status |-> "failed_final"])

UpdateBatch(b, updates) ==
  Both(Mem!UpdateBatch(mem, b, updates), Pg!UpdateBatch(pg, b, updates))

Submit(b) ==
  /\ BatchStatus(b) = "pending"
  /\ UpdateBatch(b, [status |-> "submitted", submitted |-> TRUE])

End(b, s) ==
  /\ BatchStatus(b) = "submitted" /\ s \in {"ended", "expired", "failed", "cancelled"}
  /\ UpdateBatch(b, [status |-> s, endedAt |-> now])

\* the ingester's counts
CountFailures(b) ==
  /\ BatchStatus(b) = "ended"
  /\ UpdateBatch(b, [failedCount |-> 1])

CreateResult(r, tokens) ==
  /\ Status(r) = "batched" /\ pg.results[r] = <<>>
  /\ Both(Mem!CreateResult(mem, r, now, tokens), Pg!CreateResult(pg, r, now, tokens))

\* A retried request has a result of its earlier attempt: PostgreSQL refuses
\* the second row, the map takes it.
CreateSecondResult(r, tokens) ==
  /\ Status(r) = "batched" /\ Len(pg.results[r]) = 1
  /\ Part(Mem!CreateResult(mem, r, now, tokens), Pg!CreateResult(pg, r, now, tokens))

-----------------------------------------------------------------------------
(* Delivery and retention *)

MarkDelivered(r) ==
  /\ pg.results[r] # <<>>
  /\ Both(Mem!MarkDelivered(mem, r, 1), Pg!MarkDelivered(pg, r, 1))

SetDelivery(r, s) ==
  /\ pg.results[r] # <<>> /\ s \in {"pending", "failed"}
  /\ Both(Mem!UpdateResult(mem, r, 1, [delivery |-> s]),
          Pg!UpdateResult(pg, r, 1, [delivery |-> s]))

\* an event with details is logged of an entity that exists
LogEvent(e) ==
  /\ pg.events[e] = "none"
  /\ IF e[1] = "request" THEN Has(pg.requests, e[2]) ELSE pg.results[e[2]] # <<>>
  /\ Both(Mem!LogEvent(mem, e, "text"), Pg!LogEvent(pg, e, "text"))

ScrubExpiredContent(before) ==
  Both(Mem!ScrubExpiredContent(mem, before).db, Pg!ScrubExpiredContent(pg, before).db)

ScrubContentForUser(u, before) ==
  Both(Mem!ScrubContentForUser(mem, u, before).db, Pg!ScrubContentForUser(pg, u, before).db)

\* The requests of u with a delivered result on which the stores part: the map
\* scrubs a request whatever its status, and only along with its result.
Contested(u) ==
  {r \in Requests :
     /\ UserOf[r] = u /\ Has(pg.requests, r) /\ ~pg.requests[r].scrubbed
     /\ \E id \in Pg!DeliveredResults(pg, u) :
          id[1] = r /\ (pg.requests[r].status \in Finished <=> pg.results[r][1].scrubbed)}

ScrubDeliveredContent(u) ==
  /\ Contested(u) = {}
  /\ Both(Mem!ScrubDeliveredContent(mem, u).db, Pg!ScrubDeliveredContent(pg, u).db)

ScrubContested(u) ==
  /\ Contested(u) # {}
  /\ Part(Mem!ScrubDeliveredContent(mem, u).db, Pg!ScrubDeliveredContent(pg, u).db)

\* The worker dies, or the connection breaks, between the two UPDATEs of a
\* scrub; the map knows no such state.
ScrubHalf(half) == half # pg /\ Part(mem, half)

ScrubEvents(u) ==
  \/ Both(Mem!ScrubEventLogForUser(mem, u).db, Pg!ScrubEventLogForUser(pg, u).db)
  \/ Both(Mem!ScrubEventLogsForScrubbedContent(mem).db,
          Pg!ScrubEventLogsForScrubbedContent(pg).db)

-----------------------------------------------------------------------------
(* Limits and the catalog *)

WholeCents(amount) == amount % Cent = 0

LimitInCents(limit) == limit \notin {Undefined, Unlimited} => WholeCents(limit)

\* A limit is a number, null or left alone; the settings page takes fractions.
LimitsInput ==
  [maxRequests : {Undefined, Unlimited, 1, 2}, hardSpend : Amounts \cup {Undefined, Unlimited}]

UpsertUserLimits(u, input) ==
  /\ LimitInCents(input.hardSpend)
  /\ Both(Mem!UpsertUserLimits(mem, u, input, now), Pg!UpsertUserLimits(pg, u, input, now))

\* The database keeps cents, the map what it is given.
UpsertFraction(u, input) ==
  /\ ~LimitInCents(input.hardSpend)
  /\ Part(Mem!UpsertUserLimits(mem, u, input, now), Pg!UpsertUserLimits(pg, u, input, now))

Increment(u, field, n) ==
  /\ Has(pg.limits, u) => pg.limits[u][field] + n <= MaxCount
  /\ Both(Mem!Increment(mem, u, field, n), Pg!Increment(pg, u, field, n))

\* a user without limits is not charged
IncrementSpend(u, amount) ==
  /\ Has(pg.limits, u) => WholeCents(amount) /\ pg.limits[u].spend + amount <= MaxSpend
  /\ Both(Mem!IncrementSpend(mem, u, amount), Pg!IncrementSpend(pg, u, amount))

\* The cost of a batch is seldom a whole number of cents.
IncrementFraction(u, amount) ==
  /\ Has(pg.limits, u) /\ ~WholeCents(amount)
  /\ Part(Mem!IncrementSpend(mem, u, amount), Pg!IncrementSpend(pg, u, amount))

ConsumePeriodRequests(u, n, limit) ==
  /\ Has(pg.limits, u) => pg.limits[u].requests + n <= MaxCount + 1
  /\ Both(Mem!ConsumePeriodRequests(mem, u, n, limit).db,
          Pg!ConsumePeriodRequests(pg, u, n, limit).db)

\* nextResetAt is an hour after the caller's clock
ResetPeriod(u) ==
  Both(Mem!ResetPeriod(mem, u, now, now + 1), Pg!ResetPeriod(pg, u, now, now + 1))

CatalogRow == [state : {"active", "retired"}, priced : BOOLEAN, label : 1..2]

UpsertProviderCatalogEntry(m, entry) ==
  Both(Mem!UpsertProviderCatalogEntry(mem, m, entry),
       Pg!UpsertProviderCatalogEntry(pg, m, entry))

-----------------------------------------------------------------------------

Cutoffs == 1..MaxTime + 1

RequestCall ==
  \E r \in Requests :
    \/ CreateRequest(r)
    \/ \E s \in {"succeeded", "failed", "expired"} : Settle(r, s)
    \/ Requeue(r)
    \/ GiveUp(r)
    \/ CreateResult(r, 1) \/ CreateSecondResult(r, 2)
    \/ MarkDelivered(r)
    \/ \E s \in {"pending", "failed"} : SetDelivery(r, s)

BatchCall ==
  \E b \in Batches :
    \/ \E k \in Keys : CreateBatch(b, k) \/ CreateBatchUnknownKey(b, k)
    \/ \E u \in Users, p \in Providers : CreateBatchFor(b, u, p)
    \/ \E S \in SUBSET Requests : AssignBatchToRequests(S, b)
    \/ Submit(b)
    \/ \E s \in {"ended", "expired", "failed", "cancelled"} : End(b, s)
    \/ CountFailures(b)

KeyCall == \E k \in Keys : AddKey(k) \/ DeleteKey(k)

RetentionCall ==
  \/ \E e \in Entities : LogEvent(e)
  \/ \E before \in Cutoffs : ScrubExpiredContent(before)
  \/ \E u \in Users :
       \/ \E before \in Cutoffs :
            \/ ScrubContentForUser(u, before)
            \/ ScrubHalf(Pg!ScrubContentForUser(pg, u, before).half)
       \/ ScrubDeliveredContent(u)
       \/ ScrubHalf(Pg!ScrubDeliveredContent(pg, u).half)
       \/ ScrubContested(u)
       \/ ScrubEvents(u)

SettingsCall ==
  \/ \E u \in Users :
       \/ \E input \in LimitsInput : UpsertUserLimits(u, input) \/ UpsertFraction(u, input)
       \/ \E field \in Counters : Increment(u, field, 1)
       \/ \E amount \in Amounts : IncrementSpend(u, amount) \/ IncrementFraction(u, amount)
       \/ \E n \in 1..2, limit \in 0..MaxCount : ConsumePeriodRequests(u, n, limit)
       \/ ResetPeriod(u)
  \/ \E m \in Models, entry \in CatalogRow : UpsertProviderCatalogEntry(m, entry)

Next == RequestCall \/ BatchCall \/ KeyCall \/ RetentionCall \/ SettingsCall \/ Clock

Spec == Init /\ [][Next]_vars

-----------------------------------------------------------------------------
(* What a database holds: the rows these calls make.  A request has one    *)
(* result at most.                                                         *)

RequestStatus == {"queued", "batched", "succeeded", "failed", "expired", "failed_final"}
EndStatus     == {"ended", "expired", "failed", "cancelled"}
BatchStates   == {"pending", "submitted"} \cup EndStatus

RequestRow ==
  [status : RequestStatus, batch : Batches \cup {Null}, scrubbed : BOOLEAN, createdAt : Nat]

BatchRow ==
  [status : BatchStates, apiKey : Keys, failedCount : Nat, submitted : BOOLEAN, endedAt : Nat]

ResultRowType ==
  [tokens : Nat, delivery : {"pending", "delivered", "failed"}, scrubbed : BOOLEAN,
   createdAt : Nat]

Slots == {rows \in Seq(ResultRowType) : Len(rows) <= 1}

Money == {n \in Nat : WholeCents(n)}

LimitsRow ==
  [maxRequests : Nat \cup {Unlimited}, hardSpend : Money \cup {Unlimited},
   requests : Nat, tokens : Nat, spend : Money, resetAt : Nat]

Database ==
  [requests : [Requests -> RequestRow \cup {NoRow}],
   batches  : [Batches -> BatchRow \cup {NoRow}],
   results  : [Requests -> Slots],
   events   : [Entities -> {"none", "text", "scrubbed"}],
   limits   : [Users -> LimitsRow \cup {NoRow}],
   catalog  : [Models -> CatalogRow \cup {NoRow}]]

\* A result belongs to a request that has a row.
ResultsHaveRequests == \A r \in Requests : pg.results[r] # <<>> => Has(pg.requests, r)

StoreTypeOK ==
  /\ pg \in Database
  /\ keys \in SUBSET Keys
  /\ now \in Nat
  /\ parted \in BOOLEAN

-----------------------------------------------------------------------------
(* Properties *)

\* The two stores hold the same rows, but for those of API keys, as long as no
\* call was made on which they part: whatever order the callers interleave
\* their calls in, a test on the maps meets the states of the database.
RowsAgree == ~parted => mem = pg

\* And they answer the queries alike in all of these states, although one
\* filters maps in loops and the other aggregates joins: the rows and the order
\* of those that have one, the statistics, the counts of the scrubs and the
\* outcome of consumePeriodRequests.  getRequest, getBatch and getUserLimits
\* answer with a row that RowsAgree compares.  findApiKeyId is alike only for a
\* user without a key.
AnswersAgree ==
  ~parted =>
    /\ \A n \in 1..2 :
         /\ Mem!GetQueuedRequests(mem, n) = Pg!GetQueuedRequests(pg, n)
         /\ Mem!GetUndeliveredResults(mem, n) = Pg!GetUndeliveredResults(pg, n)
    /\ Mem!GetPendingBatches(mem) = Pg!GetPendingBatches(pg)
    /\ Mem!GetInFlightBatches(mem) = Pg!GetInFlightBatches(pg)
    /\ \A b \in Batches : Mem!GetRequestsByBatchId(mem, b) = Pg!GetRequestsByBatchId(pg, b)
    /\ Mem!GetDistinctUserIdsWithUnscrubbedContent(mem)
         = Pg!GetDistinctUserIdsWithUnscrubbedContent(pg)
    /\ \A before \in Cutoffs :
         Mem!ScrubExpiredContent(mem, before).count = Pg!ScrubExpiredContent(pg, before).count
    /\ Mem!ScrubEventLogsForScrubbedContent(mem).count
         = Pg!ScrubEventLogsForScrubbedContent(pg).count
    /\ \A p \in Providers \cup {Undefined} :
         Mem!ListProviderCatalog(mem, p) = Pg!ListProviderCatalog(pg, p)
    /\ \A m \in Models :
         Mem!GetProviderCatalogEntry(mem, m) = Pg!GetProviderCatalogEntry(pg, m)
    /\ \A u \in Users :
         /\ \A p \in Providers :
              (\A k \in keys : KeyOwner[k] # <<u, p>>) =>
                Mem!FindApiKeyId(u, p) = Pg!FindApiKeyId(keys, u, p)
         /\ \A from, to \in 1..MaxTime :
              Mem!GetDetailedStats(mem, u, from, to) = Pg!GetDetailedStats(pg, u, from, to)
         /\ \A start \in 1..MaxTime :
              Mem!GetSlidingWindow(mem, u, start) = Pg!GetSlidingWindow(pg, u, start)
         /\ \A before \in Cutoffs :
              Mem!ScrubContentForUser(mem, u, before).count
                = Pg!ScrubContentForUser(pg, u, before).count
         /\ Contested(u) = {} =>
              Mem!ScrubDeliveredContent(mem, u).count = Pg!ScrubDeliveredContent(pg, u).count
         /\ Mem!ScrubEventLogForUser(mem, u).count = Pg!ScrubEventLogForUser(pg, u).count
         /\ \A n \in 1..2, limit \in 0..MaxCount :
              Mem!ConsumePeriodRequests(mem, u, n, limit).count
                = Pg!ConsumePeriodRequests(pg, u, n, limit).count

\* A scrub that was cut in half is completed by the next one: from every state
\* of the database, those between the two statements included, the delivered
\* content of a user is gone after scrubDeliveredContent, and with it the
\* prompts of the requests that are finished.
ScrubCompletes ==
  \A u \in Users :
    LET db == Pg!ScrubDeliveredContent(pg, u).db
    IN \A id \in Pg!DeliveredResults(db, u) :
         /\ ResultRow(db, id).scrubbed
         /\ db.requests[id[1]].status \in Finished => db.requests[id[1]].scrubbed
=============================================================================
