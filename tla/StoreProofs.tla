----------------------------- MODULE StoreProofs -----------------------------
(***************************************************************************)
(* The two stores agree, for all values of the constants: they hold the    *)
(* same rows and give the same answers until a call on which they are      *)
(* known to part (StoreAgreement names these calls); and a scrub that was  *)
(* cut in half is completed.                                               *)
(*                                                                         *)
(* First, call by call, that both stores make the same of a database and   *)
(* keep it one; then the invariant; then the queries.  The sums of tokens  *)
(* are recursive: they are shown to count points, by looking at a smallest *)
(* set for which they would not.                                           *)
(***************************************************************************)
EXTENDS StoreAgreement, FiniteSetTheorems, SequenceTheorems, TLAPS

-----------------------------------------------------------------------------
(* Rows *)

LEMMA RowsExist ==
  /\ NoRow \notin RequestRow
  /\ NoRow \notin BatchRow
  /\ NoRow \notin LimitsRow
  /\ NoRow \notin CatalogRow
BY DEF NoRow, RequestRow, BatchRow, LimitsRow, CatalogRow

LEMMA RequestUpdates ==
  ASSUME NEW row \in RequestRow, NEW s \in RequestStatus, NEW b \in Batches \cup {Null}
  PROVE  /\ Update(row, [status |-> s]) \in RequestRow
         /\ Update(row, [status |-> s, batch |-> b]) \in RequestRow
BY DEF Update, RequestRow

LEMMA RequestScrubbed ==
  ASSUME NEW row \in RequestRow
  PROVE  /\ Update(row, [scrubbed |-> TRUE]) \in RequestRow
         /\ Update(row, [scrubbed |-> TRUE]).status = row.status
         /\ Update(row, [scrubbed |-> TRUE]).scrubbed = TRUE
BY DEF Update, RequestRow

LEMMA BatchSubmitted ==
  ASSUME NEW row \in BatchRow
  PROVE  /\ Update(row, [status |-> "submitted", submitted |-> TRUE]) \in BatchRow
         /\ Update(row, [failedCount |-> 1]) \in BatchRow
BY DEF Update, BatchRow, BatchStates

LEMMA BatchEnded ==
  ASSUME NEW row \in BatchRow, NEW s \in BatchStates, NEW t \in Nat
  PROVE  Update(row, [status |-> s, endedAt |-> t]) \in BatchRow
BY DEF Update, BatchRow

LEMMA ResultUpdates ==
  ASSUME NEW row \in ResultRowType, NEW s \in {"pending", "delivered", "failed"}
  PROVE  /\ Update(row, [delivery |-> s]) \in ResultRowType
         /\ Update(row, [delivery |-> s]) = [row EXCEPT !.delivery = s]
BY DEF Update, ResultRowType

LEMMA ResultScrubbed ==
  ASSUME NEW row \in ResultRowType
  PROVE  /\ Update(row, [scrubbed |-> TRUE]) \in ResultRowType
         /\ Update(row, [scrubbed |-> TRUE]).delivery = row.delivery
         /\ Update(row, [scrubbed |-> TRUE]).createdAt = row.createdAt
         /\ Update(row, [scrubbed |-> TRUE]).scrubbed = TRUE
BY DEF Update, ResultRowType

WithLimits(row, m, h) == [row EXCEPT !.maxRequests = m, !.hardSpend = h]

LEMMA LimitsUpdates ==
  ASSUME NEW row \in LimitsRow, NEW m \in Nat \cup {Unlimited},
         NEW h \in Money \cup {Unlimited}
  PROVE  /\ Update(row, [maxRequests |-> m, hardSpend |-> h]) \in LimitsRow
         /\ Update(row, [maxRequests |-> m, hardSpend |-> h])
              = WithLimits(row, m, h)
<1> DEFINE updates == [maxRequests |-> m, hardSpend |-> h]
           new     == [row EXCEPT !.maxRequests = m, !.hardSpend = h]
<1>1. new \in LimitsRow
  BY DEF LimitsRow
<1>2. DOMAIN row = DOMAIN row \cup DOMAIN updates
  BY DEF LimitsRow
<1>3. new = [field \in DOMAIN row |->
               IF field = "maxRequests" THEN m ELSE IF field = "hardSpend" THEN h ELSE row[field]]
  BY DEF LimitsRow
<1>4. Update(row, updates) =
        [field \in DOMAIN row |->
           IF field \in {"maxRequests", "hardSpend"} THEN updates[field] ELSE row[field]]
  BY <1>2 DEF Update
<1>5. Update(row, updates) = new
  BY <1>3, <1>4
<1>6. QED
  BY <1>1, <1>5 DEF WithLimits

\* NUMERIC(10,2) stores cents and leaves a whole number of them as it is.
LEMMA Rounding ==
  ASSUME NEW x \in Nat
  PROVE  /\ Pg!ToCents(x) \in Money
         /\ WholeCents(x) => Pg!ToCents(x) = x
BY DEF Pg!ToCents, Pg!Cent, Cent, Money, WholeCents

LEMMA WholeSums ==
  ASSUME NEW x \in Money, NEW a \in Nat, WholeCents(a)
  PROVE  WholeCents(x + a)
BY DEF Money, WholeCents, Cent

LEMMA LimitsReset ==
  ASSUME NEW row \in LimitsRow, NEW t \in Nat
  PROVE  Update(row, [requests |-> 0, tokens |-> 0, resetAt |-> t]) \in LimitsRow
BY DEF Update, LimitsRow

LEMMA CatalogUpdates ==
  ASSUME NEW row \in CatalogRow, NEW entry \in CatalogRow
  PROVE  Update(row, entry) = entry
BY DEF Update, CatalogRow

-----------------------------------------------------------------------------
(* Tables: a call that writes one table leaves the others. *)

LEMMA InSlots ==
  /\ <<>> \in Slots
  /\ \A row \in ResultRowType : <<row>> \in Slots
  /\ \A rows \in Slots : rows = <<>> \/ \E row \in ResultRowType : rows = <<row>>
<1>1. <<>> \in Slots /\ \A row \in ResultRowType : <<row>> \in Slots
  BY DEF Slots
<1>2. ASSUME NEW rows \in Slots, rows # <<>>
      PROVE  \E row \in ResultRowType : rows = <<row>>
  <2>1. rows \in Seq(ResultRowType) /\ Len(rows) = 1
    <3>1. rows \in Seq(ResultRowType) /\ Len(rows) <= 1
      BY DEF Slots
    <3>2. Len(rows) \in Nat \ {0}
      BY <3>1, <1>2, EmptySeq
    <3>3. \A n \in Nat \ {0} : n <= 1 => n = 1
      OBVIOUS
    <3>4. QED
      BY <3>1, <3>2, <3>3
  <2>2. rows[1] \in ResultRowType /\ rows = <<rows[1]>>
    BY <2>1
  <2>3. QED
    BY <2>2
<1>3. QED
  BY <1>1, <1>2

LEMMA Tables ==
  ASSUME NEW db \in Database
  PROVE  /\ db.requests \in [Requests -> RequestRow \cup {NoRow}]
         /\ db.batches \in [Batches -> BatchRow \cup {NoRow}]
         /\ db.results \in [Requests -> Slots]
         /\ db.events \in [Entities -> {"none", "text", "scrubbed"}]
         /\ db.limits \in [Users -> LimitsRow \cup {NoRow}]
         /\ db.catalog \in [Models -> CatalogRow \cup {NoRow}]
BY DEF Database, Slots

\* Rows of requests stay, and no result comes without its request.
Keeps(db, new) ==
  /\ new \in Database
  /\ \A q \in Requests : Has(db.requests, q) => Has(new.requests, q)
  /\ \A q \in Requests : new.results[q] # <<>> => db.results[q] # <<>>

LEMMA NewRequests ==
  ASSUME NEW db \in Database, NEW table \in [Requests -> RequestRow \cup {NoRow}]
  PROVE  /\ [db EXCEPT !.requests = table] \in Database
         /\ [db EXCEPT !.requests = table].requests = table
         /\ [db EXCEPT !.requests = table].results = db.results
BY DEF Database

LEMMA RequestsKept ==
  ASSUME NEW db \in Database, NEW table \in [Requests -> RequestRow \cup {NoRow}],
         \A q \in Requests : Has(db.requests, q) => Has(table, q)
  PROVE  Keeps(db, [db EXCEPT !.requests = table])
BY NewRequests DEF Keeps

LEMMA NewResults ==
  ASSUME NEW db \in Database, NEW table \in [Requests -> Slots]
  PROVE  /\ [db EXCEPT !.results = table] \in Database
         /\ [db EXCEPT !.results = table].results = table
         /\ [db EXCEPT !.results = table].requests = db.requests
BY DEF Database, Slots

LEMMA NewBatches ==
  ASSUME NEW db \in Database, NEW table \in [Batches -> BatchRow \cup {NoRow}]
  PROVE  Keeps(db, [db EXCEPT !.batches = table])
BY DEF Database, Keeps

LEMMA NewEvents ==
  ASSUME NEW db \in Database, NEW table \in [Entities -> {"none", "text", "scrubbed"}]
  PROVE  Keeps(db, [db EXCEPT !.events = table])
BY DEF Database, Keeps

LEMMA NewLimitsTable ==
  ASSUME NEW db \in Database, NEW table \in [Users -> LimitsRow \cup {NoRow}]
  PROVE  Keeps(db, [db EXCEPT !.limits = table])
BY DEF Database, Keeps

LEMMA NewCatalog ==
  ASSUME NEW db \in Database, NEW table \in [Models -> CatalogRow \cup {NoRow}]
  PROVE  Keeps(db, [db EXCEPT !.catalog = table])
BY DEF Database, Keeps

-----------------------------------------------------------------------------
(* Calls *)

LEMMA CreateRequestAgrees ==
  ASSUME NEW db \in Database, NEW r \in Requests, NEW t \in Nat
  PROVE  /\ Mem!CreateRequest(db, r, t) = Pg!CreateRequest(db, r, t)
         /\ Keeps(db, Pg!CreateRequest(db, r, t))
<1> DEFINE row   == [status |-> "queued", batch |-> Null, scrubbed |-> FALSE, createdAt |-> t]
           table == [db.requests EXCEPT ![r] = row]
<1>1. row \in RequestRow
  BY DEF RequestRow, RequestStatus
<1>2. db.requests \in [Requests -> RequestRow \cup {NoRow}]
  BY Tables
<1>3. table \in [Requests -> RequestRow \cup {NoRow}]
  BY <1>1, <1>2
<1>4. /\ Pg!CreateRequest(db, r, t) = [db EXCEPT !.requests = table]
      /\ Mem!CreateRequest(db, r, t) = [db EXCEPT !.requests = table]
  BY DEF Mem!CreateRequest, Pg!CreateRequest, Mem!NewRequest, Pg!NewRequest, Mem!Null, Pg!Null, Null
<1>5. \A q \in Requests : Has(db.requests, q) => Has(table, q)
  BY <1>1, <1>2, RowsExist DEF Has
<1> HIDE DEF table
<1>6. QED
  BY <1>3, <1>4, <1>5, RequestsKept

LEMMA UpdateRequestAgrees ==
  ASSUME NEW db \in Database, NEW r \in Requests, NEW updates,
         Update(db.requests[r], updates) \in RequestRow
  PROVE  /\ Mem!UpdateRequest(db, r, updates) = Pg!UpdateRequest(db, r, updates)
         /\ Keeps(db, Pg!UpdateRequest(db, r, updates))
<1> DEFINE table == [db.requests EXCEPT ![r] = Update(db.requests[r], updates)]
<1>2. db.requests \in [Requests -> RequestRow \cup {NoRow}]
  BY Tables
<1>3. table \in [Requests -> RequestRow \cup {NoRow}]
  BY <1>2
<1>4. /\ Pg!UpdateRequest(db, r, updates) = [db EXCEPT !.requests = table]
      /\ Mem!UpdateRequest(db, r, updates) = [db EXCEPT !.requests = table]
  BY DEF Mem!UpdateRequest, Pg!UpdateRequest, Mem!Update, Pg!Update, Update
<1>5. \A q \in Requests : Has(db.requests, q) => Has(table, q)
  BY <1>2, RowsExist DEF Has
<1> HIDE DEF table
<1>6. QED
  BY <1>3, <1>4, <1>5, RequestsKept

LEMMA AssignAgrees ==
  ASSUME NEW db \in Database, NEW S \in SUBSET Requests, NEW b \in Batches,
         \A r \in S : Has(db.requests, r)
  PROVE  /\ Mem!AssignBatchToRequests(db, S, b) = Pg!AssignBatchToRequests(db, S, b)
         /\ Keeps(db, Pg!AssignBatchToRequests(db, S, b))
<1> DEFINE table == [r \in Requests |-> IF r \in S
                       THEN Update(db.requests[r], [status |-> "batched", batch |-> b])
                       ELSE db.requests[r]]
<1>1. db.requests \in [Requests -> RequestRow \cup {NoRow}]
  BY Tables
<1>2. \A r \in S : Update(db.requests[r], [status |-> "batched", batch |-> b]) \in RequestRow
  BY <1>1, RequestUpdates DEF Has, RequestStatus
<1>3. table \in [Requests -> RequestRow \cup {NoRow}]
  BY <1>1, <1>2
<1>4. [status |-> "batched", batch |-> b] = [batch |-> b, status |-> "batched"]
  OBVIOUS
<1>5. /\ Pg!AssignBatchToRequests(db, S, b) = [db EXCEPT !.requests = table]
      /\ Mem!AssignBatchToRequests(db, S, b) = [db EXCEPT !.requests = table]
  BY <1>4 DEF Mem!AssignBatchToRequests, Pg!AssignBatchToRequests, Mem!Update, Pg!Update, Update
<1>6. \A q \in Requests : Has(db.requests, q) => Has(table, q)
  BY <1>1, <1>2, RowsExist DEF Has
<1> HIDE DEF table
<1>7. QED
  BY <1>3, <1>5, <1>6, RequestsKept

LEMMA CreateBatchAgrees ==
  ASSUME NEW db \in Database, NEW stored \in SUBSET Keys, NEW b \in Batches, NEW key
  PROVE  /\ key \in stored => Mem!CreateBatch(db, b, key) = Pg!CreateBatch(db, stored, b, key)
         /\ Keeps(db, Pg!CreateBatch(db, stored, b, key))
<1> DEFINE row   == [status |-> "pending", apiKey |-> key, failedCount |-> 0, submitted |-> FALSE,
                    endedAt |-> Null]
           table == [db.batches EXCEPT ![b] = row]
<1>1. CASE key \in stored
  <2>1. row \in BatchRow
    BY <1>1 DEF BatchRow, BatchStates, Null
  <2>2. table \in [Batches -> BatchRow \cup {NoRow}]
    BY <2>1, Tables
  <2>3. /\ Pg!CreateBatch(db, stored, b, key) = [db EXCEPT !.batches = table]
        /\ Mem!CreateBatch(db, b, key) = [db EXCEPT !.batches = table]
    BY <1>1 DEF Mem!CreateBatch, Pg!CreateBatch, Mem!NewBatch, Pg!NewBatch, Mem!Null, Pg!Null, Null
  <2>4. QED
    BY <2>2, <2>3, NewBatches
<1>2. CASE key \notin stored
  BY <1>2 DEF Pg!CreateBatch, Keeps
<1>3. QED
  BY <1>1, <1>2

LEMMA UpdateBatchAgrees ==
  ASSUME NEW db \in Database, NEW b \in Batches, NEW updates,
         Update(db.batches[b], updates) \in BatchRow
  PROVE  /\ Mem!UpdateBatch(db, b, updates) = Pg!UpdateBatch(db, b, updates)
         /\ Keeps(db, Pg!UpdateBatch(db, b, updates))
<1> DEFINE table == [db.batches EXCEPT ![b] = Update(db.batches[b], updates)]
<1>1. table \in [Batches -> BatchRow \cup {NoRow}]
  BY Tables
<1>2. /\ Pg!UpdateBatch(db, b, updates) = [db EXCEPT !.batches = table]
      /\ Mem!UpdateBatch(db, b, updates) = [db EXCEPT !.batches = table]
  BY DEF Mem!UpdateBatch, Pg!UpdateBatch, Mem!Update, Pg!Update, Update
<1>3. QED
  BY <1>1, <1>2, NewBatches

LEMMA InSlot ==
  ASSUME NEW db \in Database, NEW r \in Requests, db.results[r] # <<>>
  PROVE  /\ db.results[r][1] \in ResultRowType
         /\ db.results[r] = <<db.results[r][1]>>
         /\ DOMAIN db.results[r] = {1}
         /\ Len(db.results[r]) = 1
<1>1. db.results[r] \in Slots
  BY Tables
<1>2. PICK row \in ResultRowType : db.results[r] = <<row>>
  BY <1>1, InSlots
<1>3. QED
  BY <1>2

LEMMA CreateResultAgrees ==
  ASSUME NEW db \in Database, NEW r \in Requests, NEW t \in Nat, NEW tokens \in Nat,
         db.results[r] = <<>>
  PROVE  /\ Mem!CreateResult(db, r, t, tokens) = Pg!CreateResult(db, r, t, tokens)
         /\ Pg!CreateResult(db, r, t, tokens) \in Database
         /\ Pg!CreateResult(db, r, t, tokens).requests = db.requests
         /\ \A q \in Requests \ {r} :
              Pg!CreateResult(db, r, t, tokens).results[q] = db.results[q]
<1> DEFINE row   == [tokens |-> tokens, delivery |-> "pending", scrubbed |-> FALSE,
                    createdAt |-> t]
           table == [db.results EXCEPT ![r] = <<row>>]
<1>1. row \in ResultRowType
  BY DEF ResultRowType
<1>2. table \in [Requests -> Slots] /\ \A q \in Requests \ {r} : table[q] = db.results[q]
  BY <1>1, Tables, InSlots
<1>3. Append(<<>>, row) = <<row>>
  BY <1>1
<1>4. Pg!CreateResult(db, r, t, tokens) = [db EXCEPT !.results = table]
  BY DEF Pg!CreateResult, Pg!NewResult
<1>5. Mem!CreateResult(db, r, t, tokens) = [db EXCEPT !.results = table]
  BY <1>3 DEF Mem!CreateResult, Mem!NewResult
<1> HIDE DEF table
<1>6. QED
  BY <1>2, <1>4, <1>5, NewResults

LEMMA UpdateResultAgrees ==
  ASSUME NEW db \in Database, NEW r \in Requests, db.results[r] # <<>>,
         NEW s \in {"pending", "delivered", "failed"}
  PROVE  /\ Mem!UpdateResult(db, r, 1, [delivery |-> s]) = Pg!UpdateResult(db, r, 1, [delivery |-> s])
         /\ s = "delivered" => Mem!MarkDelivered(db, r, 1) = Pg!MarkDelivered(db, r, 1)
         /\ Keeps(db, Pg!UpdateResult(db, r, 1, [delivery |-> s]))
         /\ s = "delivered" => Keeps(db, Pg!MarkDelivered(db, r, 1))
<1> DEFINE row   == db.results[r][1]
           new   == Update(row, [delivery |-> s])
           table == [db.results EXCEPT ![r] = [db.results[r] EXCEPT ![1] = new]]
<1>1. row \in ResultRowType /\ db.results[r] = <<row>> /\ 1 \in DOMAIN db.results[r]
  BY InSlot
<1>2. new \in ResultRowType /\ new = [row EXCEPT !.delivery = s]
  BY <1>1, ResultUpdates
<1>3. [db.results[r] EXCEPT ![1] = new] = <<new>>
  BY <1>1
<1>4. table \in [Requests -> Slots] /\ \A q \in Requests : table[q] # <<>> => db.results[q] # <<>>
  BY <1>2, <1>3, Tables, InSlots
<1>5. /\ Pg!UpdateResult(db, r, 1, [delivery |-> s]) = [db EXCEPT !.results = table]
      /\ Mem!UpdateResult(db, r, 1, [delivery |-> s]) = [db EXCEPT !.results = table]
  BY <1>1 DEF Pg!UpdateResult, Mem!UpdateResult, Pg!Update, Mem!Update, Update
<1>6. s = "delivered" => Pg!MarkDelivered(db, r, 1) = [db EXCEPT !.results = table]
  BY <1>5 DEF Pg!MarkDelivered
<1>7. s = "delivered" => Mem!MarkDelivered(db, r, 1) = [db EXCEPT !.results = table]
  BY <1>2 DEF Mem!MarkDelivered
<1> HIDE DEF table
<1>8. Keeps(db, [db EXCEPT !.results = table])
  BY <1>4, NewResults DEF Keeps
<1>9. QED
  BY <1>5, <1>6, <1>7, <1>8

LEMMA LogEventAgrees ==
  ASSUME NEW db \in Database, NEW e \in Entities
  PROVE  /\ Mem!LogEvent(db, e, "text") = Pg!LogEvent(db, e, "text")
         /\ Keeps(db, Pg!LogEvent(db, e, "text"))
<1>1. [db.events EXCEPT ![e] = "text"] \in [Entities -> {"none", "text", "scrubbed"}]
  BY Tables
<1>2. QED
  BY <1>1, NewEvents DEF Mem!LogEvent, Pg!LogEvent

-----------------------------------------------------------------------------
(* Limits and the catalog *)

LEMMA UpsertLimitsAgrees ==
  ASSUME NEW db \in Database, NEW u \in Users, NEW t \in Nat, NEW input \in LimitsInput
  PROVE  /\ LimitInCents(input.hardSpend) =>
              Mem!UpsertUserLimits(db, u, input, t) = Pg!UpsertUserLimits(db, u, input, t)
         /\ Keeps(db, Pg!UpsertUserLimits(db, u, input, t))
<1> DEFINE value(x) == IF x = Undefined THEN Unlimited ELSE x
           cents(x) == IF value(x) = Unlimited THEN Unlimited ELSE Pg!ToCents(x)
           fresh == [maxRequests |-> value(input.maxRequests), hardSpend |-> cents(input.hardSpend),
                     requests |-> 0, tokens |-> 0, spend |-> 0, resetAt |-> t + 1]
           row   == db.limits[u]
           max   == IF input.maxRequests = Undefined THEN row.maxRequests ELSE value(input.maxRequests)
           hard  == IF input.hardSpend = Undefined THEN row.hardSpend ELSE cents(input.hardSpend)
           new   == IF row = NoRow THEN fresh ELSE Update(row, [maxRequests |-> max, hardSpend |-> hard])
           table == [db.limits EXCEPT ![u] = new]
<1>1. row \in LimitsRow \cup {NoRow}
  BY Tables
<1>2. /\ input.maxRequests \in Nat \cup {Undefined, Unlimited}
      /\ input.hardSpend \in Nat \cup {Undefined, Unlimited}
  <2> HIDE DEF value, cents, fresh, max, hard, new, table
  <2>1. input.maxRequests \in {Undefined, Unlimited, 1, 2}
    BY DEF LimitsInput
  <2>2. input.maxRequests \in Nat \cup {Undefined, Unlimited}
    BY <2>1
  <2>3. input.hardSpend \in Amounts \cup {Undefined, Unlimited}
    BY DEF LimitsInput
  <2>4. input.hardSpend \in Nat \cup {Undefined, Unlimited}
    BY <2>3, AmountAssumption
  <2>5. QED
    BY <2>2, <2>4
<1>3. /\ value(input.maxRequests) \in Nat \cup {Unlimited}
      /\ cents(input.hardSpend) \in Money \cup {Unlimited}
  BY <1>2, Rounding
<1>4. LimitInCents(input.hardSpend) => cents(input.hardSpend) = value(input.hardSpend)
  BY <1>2, Rounding DEF LimitInCents
<1>5. fresh \in LimitsRow
  <2>1. 0 \in Money
    BY DEF Money, WholeCents, Cent
  <2> HIDE DEF value, cents
  <2>2. QED
    BY <2>1, <1>3 DEF LimitsRow
<1> HIDE DEF cents
<1>6. row # NoRow => /\ max \in Nat \cup {Unlimited}
                     /\ hard \in Money \cup {Unlimited}
  BY <1>1, <1>3 DEF LimitsRow
<1>7. row # NoRow => /\ Update(row, [maxRequests |-> max, hardSpend |-> hard]) \in LimitsRow
                     /\ Update(row, [maxRequests |-> max, hardSpend |-> hard])
                          = WithLimits(row, max, hard)
  <2> HIDE DEF row, max, hard, new, table, fresh
  <2>1. \A r \in LimitsRow : \A m \in Nat \cup {Unlimited} : \A h \in Money \cup {Unlimited} :
          /\ Update(r, [maxRequests |-> m, hardSpend |-> h]) \in LimitsRow
          /\ Update(r, [maxRequests |-> m, hardSpend |-> h])
               = WithLimits(r, m, h)
    BY LimitsUpdates
  <2>2. row # NoRow => row \in LimitsRow
    BY <1>1
  <2>3. QED
    BY <1>6, <2>1, <2>2
<1>8. table \in [Users -> LimitsRow \cup {NoRow}]
  <2>1. new \in LimitsRow
    BY <1>5, <1>7
  <2> HIDE DEF new
  <2>2. QED
    BY <2>1, Tables
<1>9. Pg!UpsertUserLimits(db, u, input, t) = [db EXCEPT !.limits = table]
  BY DEF Pg!UpsertUserLimits, Pg!Has, Pg!NoRow, NoRow, Pg!NewLimits, Pg!Update, Update, cents
<1>10. ASSUME LimitInCents(input.hardSpend)
       PROVE  Mem!UpsertUserLimits(db, u, input, t) = [db EXCEPT !.limits = table]
  <2>1. CASE row = NoRow
    BY <2>1, <1>4, <1>10 DEF Mem!UpsertUserLimits, Mem!Has, Mem!NoRow, NoRow, Mem!NewLimits, Mem!OrNull
  <2>2. CASE row # NoRow
    <3>1. /\ max = IF input.maxRequests = Undefined THEN row.maxRequests ELSE input.maxRequests
          /\ hard = IF input.hardSpend = Undefined THEN row.hardSpend ELSE input.hardSpend
      BY <1>4, <1>10
    <3>2. new = WithLimits(row, max, hard)
      BY <2>2, <1>7
    <3> HIDE DEF new, max, hard
    <3>3. QED
      BY <2>2, <3>1, <3>2 DEF Mem!UpsertUserLimits, Mem!Has, Mem!NoRow, NoRow, WithLimits
  <2>3. QED
    BY <2>1, <2>2
<1> HIDE DEF table
<1>11. QED
  BY <1>8, <1>9, <1>10, NewLimitsTable

LEMMA SameLimits ==
  ASSUME NEW db \in Database, NEW u \in Users
  PROVE  /\ [db EXCEPT !.limits = [db.limits EXCEPT ![u] = db.limits[u]]] = db
         /\ Keeps(db, db)
<1>1. [db.limits EXCEPT ![u] = db.limits[u]] = db.limits
  BY Tables
<1>2. [db EXCEPT !.limits = db.limits] = db
  BY DEF Database
<1>3. QED
  BY <1>1, <1>2 DEF Keeps

LEMMA IncrementAgrees ==
  ASSUME NEW db \in Database, NEW u \in Users, NEW field \in Counters, NEW n \in Nat
  PROVE  /\ Mem!Increment(db, u, field, n) = Pg!Increment(db, u, field, n)
         /\ Keeps(db, Pg!Increment(db, u, field, n))
<1> DEFINE row   == db.limits[u]
           new   == IF row # NoRow THEN [row EXCEPT ![field] = row[field] + n] ELSE row
           table == [db.limits EXCEPT ![u] = new]
<1>1. row \in LimitsRow \cup {NoRow}
  BY Tables
<1>2. row # NoRow => [row EXCEPT ![field] = row[field] + n] \in LimitsRow
  <2>1. CASE field = "requests"
    BY <1>1, <2>1 DEF LimitsRow
  <2>2. CASE field = "tokens"
    BY <1>1, <2>2 DEF LimitsRow
  <2>3. QED
    BY <2>1, <2>2 DEF Counters
<1>3. table \in [Users -> LimitsRow \cup {NoRow}]
  BY <1>1, <1>2, Tables
<1>4. Pg!Increment(db, u, field, n) = [db EXCEPT !.limits = table]
  BY DEF Pg!Increment, Pg!Has, Pg!NoRow, NoRow
<1>5. CASE row # NoRow
  <2>1. Mem!Increment(db, u, field, n) = [db EXCEPT !.limits = table]
    BY <1>5 DEF Mem!Increment, Mem!Has, Mem!NoRow, NoRow
  <2> HIDE DEF table
  <2>2. QED
    BY <1>3, <1>4, <2>1, NewLimitsTable
<1>6. CASE row = NoRow
  <2>1. Mem!Increment(db, u, field, n) = db
    BY <1>6 DEF Mem!Increment, Mem!Has, Mem!NoRow, NoRow
  <2>2. table = [db.limits EXCEPT ![u] = db.limits[u]]
    BY <1>6
  <2> HIDE DEF table
  <2>3. QED
    BY <1>4, <2>1, <2>2, SameLimits
<1>7. QED
  BY <1>5, <1>6

LEMMA IncrementSpendAgrees ==
  ASSUME NEW db \in Database, NEW u \in Users, NEW a \in Nat
  PROVE  /\ (Has(db.limits, u) => WholeCents(a)) =>
              Mem!IncrementSpend(db, u, a) = Pg!IncrementSpend(db, u, a)
         /\ Keeps(db, Pg!IncrementSpend(db, u, a))
<1> DEFINE row   == db.limits[u]
           spend == Pg!ToCents(row.spend + a)
           new   == IF row # NoRow THEN [row EXCEPT !.spend = spend] ELSE row
           table == [db.limits EXCEPT ![u] = new]
<1>1. row \in LimitsRow \cup {NoRow}
  BY Tables
<1>2. row # NoRow => row.spend \in Money /\ row.spend + a \in Nat
  BY <1>1 DEF LimitsRow, Money
<1>3. row # NoRow => spend \in Money
  BY <1>2, Rounding
<1>4. row # NoRow /\ WholeCents(a) => spend = row.spend + a
  BY <1>2, Rounding, WholeSums
<1> HIDE DEF spend
<1>5. row # NoRow => [row EXCEPT !.spend = spend] \in LimitsRow
  BY <1>1, <1>3 DEF LimitsRow
<1>6. table \in [Users -> LimitsRow \cup {NoRow}]
  BY <1>1, <1>5, Tables
<1>7. Pg!IncrementSpend(db, u, a) = [db EXCEPT !.limits = table]
  BY DEF Pg!IncrementSpend, Pg!Has, Pg!NoRow, NoRow, spend
<1>8. CASE row # NoRow
  <2>1. WholeCents(a) => Mem!IncrementSpend(db, u, a) = [db EXCEPT !.limits = table]
    BY <1>8, <1>4 DEF Mem!IncrementSpend, Mem!Has, Mem!NoRow, NoRow
  <2>2. Has(db.limits, u)
    BY <1>8 DEF Has
  <2> HIDE DEF table
  <2>3. QED
    BY <1>6, <1>7, <2>1, <2>2, NewLimitsTable
<1>9. CASE row = NoRow
  <2>1. Mem!IncrementSpend(db, u, a) = db
    BY <1>9 DEF Mem!IncrementSpend, Mem!Has, Mem!NoRow, NoRow
  <2>2. table = [db.limits EXCEPT ![u] = db.limits[u]]
    BY <1>9
  <2> HIDE DEF table
  <2>3. QED
    BY <1>7, <2>1, <2>2, SameLimits
<1>10. QED
  BY <1>8, <1>9

LEMMA ConsumeAgrees ==
  ASSUME NEW db \in Database, NEW u \in Users, NEW n \in Nat, NEW limit \in Nat
  PROVE  /\ Mem!ConsumePeriodRequests(db, u, n, limit).db
              = Pg!ConsumePeriodRequests(db, u, n, limit).db
         /\ Mem!ConsumePeriodRequests(db, u, n, limit).count
              = Pg!ConsumePeriodRequests(db, u, n, limit).count
         /\ Keeps(db, Pg!ConsumePeriodRequests(db, u, n, limit).db)
<1> DEFINE row   == db.limits[u]
           new   == [row EXCEPT !.requests = row.requests + n]
           table == [db.limits EXCEPT ![u] = new]
           fits  == row # NoRow /\ row.requests + n <= limit
<1>1. row \in LimitsRow \cup {NoRow}
  BY Tables
<1>2. Mem!ConsumePeriodRequests(db, u, n, limit) =
        IF row = NoRow \/ row.requests + n > limit THEN [db |-> db, count |-> 0]
        ELSE [db |-> [db EXCEPT !.limits = table], count |-> n]
  BY DEF Mem!ConsumePeriodRequests, Mem!Has, Mem!NoRow, NoRow
<1>3. Pg!ConsumePeriodRequests(db, u, n, limit) =
        [db |-> IF fits THEN [db EXCEPT !.limits = table] ELSE db,
         count |-> IF fits THEN n ELSE 0]
  BY DEF Pg!ConsumePeriodRequests, Pg!Has, Pg!NoRow, NoRow
<1>4. fits <=> ~(row = NoRow \/ row.requests + n > limit)
  <2>1. row # NoRow => row.requests \in Nat
    BY <1>1 DEF LimitsRow
  <2>2. QED
    BY <2>1
<1>5. fits => new \in LimitsRow
  BY <1>1 DEF LimitsRow
<1>6. fits => table \in [Users -> LimitsRow \cup {NoRow}]
  BY <1>5, Tables
<1> HIDE DEF table, fits
<1>7. Keeps(db, db)
  BY SameLimits
<1>8. QED
  BY <1>2, <1>3, <1>4, <1>6, <1>7, NewLimitsTable

LEMMA ResetAgrees ==
  ASSUME NEW db \in Database, NEW u \in Users, NEW t \in Nat
  PROVE  /\ Mem!ResetPeriod(db, u, t, t + 1) = Pg!ResetPeriod(db, u, t, t + 1)
         /\ Keeps(db, Pg!ResetPeriod(db, u, t, t + 1))
<1> DEFINE row   == db.limits[u]
           new   == Update(row, [requests |-> 0, tokens |-> 0, resetAt |-> t + 1])
           table == [db.limits EXCEPT ![u] = new]
           due   == row # NoRow /\ row.resetAt <= t
<1>1. row \in LimitsRow \cup {NoRow}
  BY Tables
<1>2. Mem!ResetPeriod(db, u, t, t + 1) =
        IF row = NoRow \/ t < row.resetAt THEN db ELSE [db EXCEPT !.limits = table]
  BY DEF Mem!ResetPeriod, Mem!Has, Mem!NoRow, NoRow, Mem!Update, Update
<1>3. Pg!ResetPeriod(db, u, t, t + 1) = IF due THEN [db EXCEPT !.limits = table] ELSE db
  BY DEF Pg!ResetPeriod, Pg!Has, Pg!NoRow, NoRow, Pg!Update, Update
<1>4. due <=> ~(row = NoRow \/ t < row.resetAt)
  <2>1. row # NoRow => row.resetAt \in Nat
    BY <1>1 DEF LimitsRow
  <2>2. QED
    BY <2>1
<1>5. due => new \in LimitsRow
  BY <1>1, LimitsReset
<1>6. due => table \in [Users -> LimitsRow \cup {NoRow}]
  BY <1>5, Tables
<1> HIDE DEF table, due
<1>7. Keeps(db, db)
  BY SameLimits
<1>8. QED
  BY <1>2, <1>3, <1>4, <1>6, <1>7, NewLimitsTable

LEMMA UpsertCatalogAgrees ==
  ASSUME NEW db \in Database, NEW m \in Models, NEW entry \in CatalogRow
  PROVE  /\ Mem!UpsertProviderCatalogEntry(db, m, entry) = Pg!UpsertProviderCatalogEntry(db, m, entry)
         /\ Keeps(db, Pg!UpsertProviderCatalogEntry(db, m, entry))
<1> DEFINE row   == db.catalog[m]
           table == [db.catalog EXCEPT ![m] = entry]
<1>1. row \in CatalogRow \cup {NoRow}
  BY Tables
<1>2. Mem!UpsertProviderCatalogEntry(db, m, entry) = [db EXCEPT !.catalog = table]
  BY DEF Mem!UpsertProviderCatalogEntry
<1>3. (IF row # NoRow THEN Update(row, entry) ELSE entry) = entry
  BY <1>1, CatalogUpdates
<1>4. Pg!UpsertProviderCatalogEntry(db, m, entry) = [db EXCEPT !.catalog = table]
  BY <1>3 DEF Pg!UpsertProviderCatalogEntry, Pg!Has, Pg!NoRow, NoRow, Pg!Update, Update
<1>5. table \in [Models -> CatalogRow \cup {NoRow}]
  BY Tables
<1> HIDE DEF table
<1>6. QED
  BY <1>2, <1>4, <1>5, NewCatalog

-----------------------------------------------------------------------------
(* Scrubs *)

\* A result is named by its request: there is one at most.
LEMMA Results ==
  ASSUME NEW db \in Database
  PROVE  /\ \A r \in Requests : <<r, 1>> \in ResultIds(db) <=> db.results[r] # <<>>
         /\ \A id \in ResultIds(db) :
              /\ id[1] \in Requests /\ id = <<id[1], 1>>
              /\ db.results[id[1]] # <<>>
              /\ ResultRow(db, id) = db.results[id[1]][1]
              /\ ResultRow(db, id) \in ResultRowType
<1>1. \A r \in Requests : db.results[r] = <<>> => Len(db.results[r]) = 0
  OBVIOUS
<1>2. \A r \in Requests : <<r, 1>> \in ResultIds(db) <=> db.results[r] # <<>>
  <2> TAKE r \in Requests
  <2>1. <<r, 1>> \in ResultIds(db) <=> 1 <= Len(db.results[r])
    BY DEF ResultIds
  <2>2. QED
    BY <2>1, <1>1, InSlot
<1>3. ASSUME NEW id \in ResultIds(db)
      PROVE  /\ id[1] \in Requests /\ id = <<id[1], 1>>
             /\ db.results[id[1]] # <<>>
             /\ ResultRow(db, id) = db.results[id[1]][1]
             /\ ResultRow(db, id) \in ResultRowType
  <2>1. PICK r \in Requests, i \in 1..2 : id = <<r, i>> /\ i <= Len(db.results[r])
    BY DEF ResultIds
  <2>2. db.results[r] # <<>> /\ i = 1
    BY <2>1, <1>1, InSlot
  <2>3. QED
    BY <2>1, <2>2, InSlot DEF ResultRow
<1>4. QED
  BY <1>2, <1>3

LEMMA ScrubbedRequests ==
  ASSUME NEW db \in Database, NEW S \in SUBSET Requests, \A r \in S : Has(db.requests, r)
  PROVE  /\ Keeps(db, ScrubRequests(db, S))
         /\ ScrubRequests(db, S).results = db.results
         /\ \A r \in Requests \ S : ScrubRequests(db, S).requests[r] = db.requests[r]
         /\ \A r \in S :
              /\ ScrubRequests(db, S).requests[r].scrubbed
              /\ ScrubRequests(db, S).requests[r].status = db.requests[r].status
<1> DEFINE table == [r \in Requests |->
                       IF r \in S THEN Update(db.requests[r], [scrubbed |-> TRUE])
                       ELSE db.requests[r]]
<1>1. db.requests \in [Requests -> RequestRow \cup {NoRow}]
  BY Tables
<1>2. \A r \in S : db.requests[r] \in RequestRow
  BY <1>1 DEF Has
<1>3. \A r \in S : /\ table[r] \in RequestRow
                   /\ table[r].scrubbed
                   /\ table[r].status = db.requests[r].status
  BY <1>2, RequestScrubbed
<1>4. table \in [Requests -> RequestRow \cup {NoRow}]
  BY <1>1, <1>3
<1>5. \A q \in Requests : Has(db.requests, q) => Has(table, q)
  BY <1>1, <1>3, RowsExist DEF Has
<1>6. \A r \in Requests \ S : table[r] = db.requests[r]
  OBVIOUS
<1>7. ScrubRequests(db, S) = [db EXCEPT !.requests = table]
  BY DEF ScrubRequests
<1> HIDE DEF table
<1>8. Keeps(db, ScrubRequests(db, S))
  BY <1>4, <1>5, <1>7, RequestsKept
<1>9. QED
  BY <1>3, <1>4, <1>6, <1>7, <1>8, NewRequests

LEMMA ScrubbedResults ==
  ASSUME NEW db \in Database, NEW S \in SUBSET ResultIds(db)
  PROVE  /\ Keeps(db, ScrubResults(db, S))
         /\ ScrubResults(db, S).requests = db.requests
         /\ ResultIds(ScrubResults(db, S)) = ResultIds(db)
         /\ \A id \in ResultIds(db) :
              LET row == ResultRow(ScrubResults(db, S), id)
              IN /\ row.delivery = ResultRow(db, id).delivery
                 /\ row.createdAt = ResultRow(db, id).createdAt
                 /\ row.scrubbed = (id \in S \/ ResultRow(db, id).scrubbed)
<1> DEFINE slot(r) == [i \in DOMAIN db.results[r] |->
                         IF <<r, i>> \in S THEN Update(db.results[r][i], [scrubbed |-> TRUE])
                         ELSE db.results[r][i]]
           new(r)  == IF <<r, 1>> \in S THEN Update(db.results[r][1], [scrubbed |-> TRUE])
                      ELSE db.results[r][1]
           table   == [r \in Requests |-> slot(r)]
<1>1. ASSUME NEW r \in Requests, db.results[r] = <<>>
      PROVE  slot(r) = <<>>
  BY <1>1
<1>2. ASSUME NEW r \in Requests, db.results[r] # <<>>
      PROVE  slot(r) = <<new(r)>>
  BY <1>2, InSlot
<1>3. ASSUME NEW r \in Requests, db.results[r] # <<>>
      PROVE  /\ new(r) \in ResultRowType
             /\ new(r).delivery = db.results[r][1].delivery
             /\ new(r).createdAt = db.results[r][1].createdAt
             /\ new(r).scrubbed = (<<r, 1>> \in S \/ db.results[r][1].scrubbed)
  <2>1. db.results[r][1] \in ResultRowType
    BY <1>3, InSlot
  <2>2. db.results[r][1].scrubbed \in BOOLEAN
    BY <2>1 DEF ResultRowType
  <2>3. QED
    BY <2>1, <2>2, ResultScrubbed
<1> HIDE DEF slot, new
<1>4. table \in [Requests -> Slots]
  BY <1>1, <1>2, <1>3, InSlots
<1>5. \A q \in Requests : table[q] # <<>> <=> db.results[q] # <<>>
  BY <1>1, <1>2
<1>6. ScrubResults(db, S) = [db EXCEPT !.results = table]
  BY DEF ScrubResults, slot
<1>7. \A r \in Requests : db.results[r] # <<>> => table[r][1] = new(r)
  BY <1>2
<1> HIDE DEF table
<1>8. /\ ScrubResults(db, S) \in Database
      /\ ScrubResults(db, S).requests = db.requests
      /\ ScrubResults(db, S).results = table
  BY <1>4, <1>6, NewResults
<1>9. Keeps(db, ScrubResults(db, S))
  BY <1>5, <1>8 DEF Keeps
<1>10. ResultIds(ScrubResults(db, S)) = ResultIds(db)
  <2> DEFINE after == ScrubResults(db, S)
  <2>1. after \in Database /\ \A q \in Requests : after.results[q] # <<>> <=> db.results[q] # <<>>
    BY <1>5, <1>8
  <2> HIDE DEF after
  <2>2. ASSUME NEW id \in ResultIds(after)
        PROVE  id \in ResultIds(db)
    <3>1. id[1] \in Requests /\ id = <<id[1], 1>> /\ after.results[id[1]] # <<>>
      BY <2>1, Results
    <3>2. QED
      BY <2>1, <3>1, Results
  <2>3. ASSUME NEW id \in ResultIds(db)
        PROVE  id \in ResultIds(after)
    <3>1. id[1] \in Requests /\ id = <<id[1], 1>> /\ db.results[id[1]] # <<>>
      BY Results
    <3>2. QED
      BY <2>1, <3>1, Results
  <2>4. QED
    BY <2>2, <2>3 DEF after
<1>11. ASSUME NEW id \in ResultIds(db)
       PROVE  LET row == ResultRow(ScrubResults(db, S), id)
              IN /\ row.delivery = ResultRow(db, id).delivery
                 /\ row.createdAt = ResultRow(db, id).createdAt
                 /\ row.scrubbed = (id \in S \/ ResultRow(db, id).scrubbed)
  <2>1. /\ id[1] \in Requests /\ id = <<id[1], 1>> /\ db.results[id[1]] # <<>>
        /\ ResultRow(db, id) = db.results[id[1]][1]
    BY Results
  <2>2. ResultRow(ScrubResults(db, S), id) = new(id[1])
    BY <2>1, <1>7, <1>8, <1>10, Results
  <2>3. QED
    BY <2>1, <2>2, <1>3
<1>12. QED
  BY <1>8, <1>9, <1>10, <1>11

LEMMA ScrubsCommute ==
  ASSUME NEW db \in Database, NEW R, NEW S
  PROVE  ScrubRequests(ScrubResults(db, S), R) = ScrubResults(ScrubRequests(db, R), S)
BY DEF ScrubRequests, ScrubResults, Database

LEMMA Counted ==
  ASSUME NEW S
  PROVE  /\ Mem!Cardinality(S) = Cardinality(S)
         /\ Pg!Cardinality(S) = Cardinality(S)
BY DEF Mem!Cardinality, Pg!Cardinality, Cardinality, Mem!IsFiniteSet, Pg!IsFiniteSet, IsFiniteSet

\* The scrubs of the maps, in terms of the rows they reach.
MemScrub(db, requests, results) ==
  [db    |-> ScrubRequests(ScrubResults(db, results), requests),
   count |-> Cardinality(requests) + Cardinality(results)]

LEMMA MemScrubs ==
  ASSUME NEW db, NEW requests, NEW results
  PROVE  Mem!Scrub(db, requests, results) = MemScrub(db, requests, results)
<1>1. \A D, T : Mem!ScrubRequests(D, T) = ScrubRequests(D, T)
  BY DEF Mem!ScrubRequests, ScrubRequests, Mem!Update, Update
<1>2. \A D, T : Mem!ScrubResults(D, T) = ScrubResults(D, T)
  BY DEF Mem!ScrubResults, ScrubResults, Mem!Update, Update
<1>3. QED
  BY <1>1, <1>2, Counted DEF Mem!Scrub, MemScrub

Reached(db, users, before) ==
  {r \in Requests : /\ UserOf[r] \in users
                   /\ Has(db.requests, r) /\ ~db.requests[r].scrubbed
                   /\ db.requests[r].createdAt < before
                   /\ db.requests[r].status \in Finished}

ReachedResults(db, users, before) ==
  {id \in ResultIds(db) : /\ UserOf[id[1]] \in users
                         /\ ~ResultRow(db, id).scrubbed
                         /\ ResultRow(db, id).createdAt < before}

LEMMA MemReaches ==
  ASSUME NEW db, NEW users, NEW before
  PROVE  /\ {r \in Mem!Unscrubbed(db) : /\ UserOf[r] \in users
                                       /\ db.requests[r].createdAt < before
                                       /\ db.requests[r].status \in Mem!Finished}
              = Reached(db, users, before)
         /\ {id \in Mem!UnscrubbedResults(db) :
               UserOf[id[1]] \in users /\ Mem!ResultRow(db, id).createdAt < before}
              = ReachedResults(db, users, before)
BY DEF Reached, Mem!Unscrubbed, Mem!Has, Mem!NoRow, Has, NoRow, Mem!Finished, Finished,
       ReachedResults, Mem!UnscrubbedResults, Mem!ResultIds, ResultIds, Mem!ResultRow, ResultRow

LEMMA MemScrubsUser ==
  ASSUME NEW db, NEW u, NEW before
  PROVE  Mem!ScrubContentForUser(db, u, before)
           = MemScrub(db, Reached(db, {u}, before), ReachedResults(db, {u}, before))
<1>1. {r \in Mem!Unscrubbed(db) : /\ UserOf[r] = u
                                 /\ db.requests[r].createdAt < before
                                 /\ db.requests[r].status \in Mem!Finished}
        = Reached(db, {u}, before)
  BY MemReaches
<1>2. {id \in Mem!UnscrubbedResults(db) :
         UserOf[id[1]] = u /\ Mem!ResultRow(db, id).createdAt < before}
        = ReachedResults(db, {u}, before)
  BY MemReaches
<1>3. QED
  BY <1>1, <1>2, MemScrubs DEF Mem!ScrubContentForUser

LEMMA MemScrubsExpired ==
  ASSUME NEW db \in Database, NEW before
  PROVE  Mem!ScrubExpiredContent(db, before)
           = MemScrub(db, Reached(db, Users, before), ReachedResults(db, Users, before))
<1>1. {r \in Mem!Unscrubbed(db) : /\ db.requests[r].createdAt < before
                                 /\ db.requests[r].status \in Mem!Finished}
        = Reached(db, Users, before)
  BY MemReaches DEF Mem!Unscrubbed, Users
<1>2. {id \in Mem!UnscrubbedResults(db) : Mem!ResultRow(db, id).createdAt < before}
        = ReachedResults(db, Users, before)
  BY MemReaches DEF Mem!UnscrubbedResults, Mem!ResultIds, Users
<1>3. QED
  BY <1>1, <1>2, MemScrubs DEF Mem!ScrubExpiredContent

LEMMA PgScrubsOld ==
  ASSUME NEW db \in Database, NEW users, NEW before
  PROVE  LET R      == Reached(db, users, before)
             S      == ReachedResults(db, users, before)
             result == Pg!ScrubBefore(db, users, before)
         IN /\ result.half = ScrubRequests(db, R)
            /\ result.db = ScrubResults(ScrubRequests(db, R), S)
            /\ result.count = Cardinality(R) + Cardinality(S)
<1> DEFINE R == Reached(db, users, before)
           S == ReachedResults(db, users, before)
           half == ScrubRequests(db, R)
<1>1. {r \in Pg!RequestsBefore(db, users, before) :
         Pg!Has(db.requests, r) /\ ~db.requests[r].scrubbed /\ db.requests[r].status \in Pg!Finished}
        = R
  BY DEF Reached, Pg!RequestsBefore, Pg!RequestsOf, Pg!Has, Pg!NoRow, Has, NoRow, Pg!Finished, Finished
<1>2. \A T : Pg!ScrubRequests(db, T) = ScrubRequests(db, T)
  BY DEF Pg!ScrubRequests, ScrubRequests, Pg!Update, Update
<1>3. Pg!ScrubRequestRows(db, Pg!RequestsBefore(db, users, before))
        = [db |-> half, count |-> Cardinality(R)]
  <2> HIDE DEF R
  <2>1. QED
    BY <1>1, <1>2, Counted DEF Pg!ScrubRequestRows
<1>4. half \in Database /\ half.results = db.results
  <2>1. R \in SUBSET Requests /\ \A r \in R : Has(db.requests, r)
    BY DEF Reached
  <2> HIDE DEF R
  <2>2. QED
    BY <2>1, ScrubbedRequests DEF Keeps
<1>5. {id \in Pg!ResultsBefore(half, users, before) : ~Pg!ResultRow(half, id).scrubbed} = S
  BY <1>4 DEF ReachedResults, Pg!ResultsBefore, Pg!RequestsOf, Pg!ResultIds, ResultIds, Pg!ResultRow,
              ResultRow
<1>6. \A T : Pg!ScrubResults(half, T) = ScrubResults(half, T)
  BY DEF Pg!ScrubResults, ScrubResults, Pg!Update, Update
<1> HIDE DEF R, S, half
<1>7. Pg!ScrubResultRows(half, Pg!ResultsBefore(half, users, before))
        = [db |-> ScrubResults(half, S), count |-> Cardinality(S)]
  BY <1>5, <1>6, Counted DEF Pg!ScrubResultRows
<1>8. Pg!ScrubBefore(db, users, before)
        = [half |-> half, db |-> ScrubResults(half, S), count |-> Cardinality(R) + Cardinality(S)]
  BY <1>3, <1>7 DEF Pg!ScrubBefore
<1>9. QED
  BY <1>8 DEF R, S, half

LEMMA ScrubBothWays ==
  ASSUME NEW db \in Database, NEW R \in SUBSET Requests, \A r \in R : Has(db.requests, r),
         NEW S \in SUBSET ResultIds(db)
  PROVE  /\ ScrubRequests(ScrubResults(db, S), R) = ScrubResults(ScrubRequests(db, R), S)
         /\ Keeps(db, ScrubRequests(db, R))
         /\ Keeps(db, ScrubRequests(ScrubResults(db, S), R))
<1> DEFINE half == ScrubResults(db, S)
<1>1. Keeps(db, half) /\ half.requests = db.requests
  BY ScrubbedResults
<1> HIDE DEF half
<1>2. Keeps(half, ScrubRequests(half, R))
  BY <1>1, ScrubbedRequests DEF Keeps
<1>3. Keeps(db, ScrubRequests(half, R))
  BY <1>1, <1>2 DEF Keeps
<1>4. Keeps(db, ScrubRequests(db, R))
  BY ScrubbedRequests
<1>5. QED
  BY <1>3, <1>4, ScrubsCommute DEF half

LEMMA OldScrubsAgree ==
  ASSUME NEW db \in Database, NEW users, NEW before
  PROVE  LET old == MemScrub(db, Reached(db, users, before), ReachedResults(db, users, before))
             new == Pg!ScrubBefore(db, users, before)
         IN /\ old.db = new.db
            /\ old.count = new.count
            /\ Keeps(db, new.db)
            /\ Keeps(db, new.half)
<1> DEFINE R == Reached(db, users, before)
           S == ReachedResults(db, users, before)
<1>1. R \in SUBSET Requests /\ \A r \in R : Has(db.requests, r)
  BY DEF Reached
<1>2. S \in SUBSET ResultIds(db)
  BY DEF ReachedResults
<1>3. /\ MemScrub(db, R, S).db = ScrubRequests(ScrubResults(db, S), R)
      /\ MemScrub(db, R, S).count = Cardinality(R) + Cardinality(S)
  BY DEF MemScrub
<1> HIDE DEF R, S
<1>4. /\ ScrubRequests(ScrubResults(db, S), R) = ScrubResults(ScrubRequests(db, R), S)
      /\ Keeps(db, ScrubRequests(db, R))
      /\ Keeps(db, ScrubRequests(ScrubResults(db, S), R))
  BY <1>1, <1>2, ScrubBothWays
<1>5. QED
  BY <1>3, <1>4, PgScrubsOld DEF R, S

LEMMA ScrubContentAgrees ==
  ASSUME NEW db \in Database, NEW u \in Users, NEW before
  PROVE  /\ Mem!ScrubContentForUser(db, u, before).db = Pg!ScrubContentForUser(db, u, before).db
         /\ Mem!ScrubContentForUser(db, u, before).count
              = Pg!ScrubContentForUser(db, u, before).count
         /\ Keeps(db, Pg!ScrubContentForUser(db, u, before).db)
         /\ Keeps(db, Pg!ScrubContentForUser(db, u, before).half)
<1>1. Pg!ScrubContentForUser(db, u, before) = Pg!ScrubBefore(db, {u}, before)
  BY DEF Pg!ScrubContentForUser
<1>2. QED
  BY <1>1, MemScrubsUser, OldScrubsAgree

LEMMA ScrubExpiredAgrees ==
  ASSUME NEW db \in Database, NEW before
  PROVE  /\ Mem!ScrubExpiredContent(db, before).db = Pg!ScrubExpiredContent(db, before).db
         /\ Mem!ScrubExpiredContent(db, before).count = Pg!ScrubExpiredContent(db, before).count
         /\ Keeps(db, Pg!ScrubExpiredContent(db, before).db)
<1>1. Pg!ScrubExpiredContent(db, before) = Pg!ScrubBefore(db, Users, before)
  BY DEF Pg!ScrubExpiredContent, Pg!Users, Users
<1>2. QED
  BY <1>1, MemScrubsExpired, OldScrubsAgree

\* What scrubDeliveredContent reaches: results of delivered rows; and, of the
\* requests, in the maps those of a result it has just scrubbed, in the
\* database the finished ones of any scrubbed result.
Delivered(db, u) ==
  {id \in ResultIds(db) : UserOf[id[1]] = u /\ ResultRow(db, id).delivery = "delivered"}

Fresh(db, u) == {id \in Delivered(db, u) : ~ResultRow(db, id).scrubbed}

Swept(db, u) ==
  {r \in Requests : /\ \E id \in Delivered(db, u) : id[1] = r
                   /\ Has(db.requests, r) /\ ~db.requests[r].scrubbed
                   /\ db.requests[r].status \in Finished}

LEMMA PgScrubsDelivered ==
  ASSUME NEW db \in Database, NEW u \in Users
  PROVE  LET result == Pg!ScrubDeliveredContent(db, u)
         IN /\ result.half = ScrubResults(db, Fresh(db, u))
            /\ result.db = ScrubRequests(ScrubResults(db, Fresh(db, u)), Swept(db, u))
            /\ result.count = Cardinality(Fresh(db, u)) + Cardinality(Swept(db, u))
<1> DEFINE S    == Fresh(db, u)
           R    == Swept(db, u)
           half == ScrubResults(db, S)
           gone == {id[1] : id \in {j \in Pg!DeliveredResults(half, u) :
                                      Pg!ResultRow(half, j).scrubbed}}
<1>1. \A D : Pg!DeliveredResults(D, u) = Delivered(D, u)
  BY DEF Pg!DeliveredResults, Delivered, Pg!ResultIds, ResultIds, Pg!ResultRow, ResultRow
<1>2. {id \in Pg!DeliveredResults(db, u) : ~Pg!ResultRow(db, id).scrubbed} = S
  BY <1>1 DEF Fresh, Pg!ResultRow, ResultRow
<1>3. \A D, T : Pg!ScrubResults(D, T) = ScrubResults(D, T)
  BY DEF Pg!ScrubResults, ScrubResults, Pg!Update, Update
<1>4. \A D, T : Pg!ScrubRequests(D, T) = ScrubRequests(D, T)
  BY DEF Pg!ScrubRequests, ScrubRequests, Pg!Update, Update
<1>5. Pg!ScrubResultRows(db, Pg!DeliveredResults(db, u)) = [db |-> half, count |-> Cardinality(S)]
  <2> HIDE DEF S
  <2>1. QED
    BY <1>2, <1>3, Counted DEF Pg!ScrubResultRows
<1>6. /\ half \in Database /\ half.requests = db.requests
      /\ ResultIds(half) = ResultIds(db)
      /\ \A id \in ResultIds(db) :
           /\ ResultRow(half, id).delivery = ResultRow(db, id).delivery
           /\ ResultRow(half, id).scrubbed = (id \in S \/ ResultRow(db, id).scrubbed)
  <2>1. S \in SUBSET ResultIds(db)
    BY DEF Fresh, Delivered
  <2> HIDE DEF S
  <2>2. QED
    BY <2>1, ScrubbedResults DEF Keeps
<1> HIDE DEF half
<1>7. Delivered(half, u) = Delivered(db, u)
  BY <1>6 DEF Delivered
<1>8. \A id \in Delivered(half, u) : ResultRow(half, id).scrubbed
  BY <1>6, <1>7 DEF Delivered, Fresh
<1>9. gone = {id[1] : id \in Delivered(db, u)}
  BY <1>1, <1>7, <1>8 DEF Pg!ResultRow, ResultRow
<1>10. \A r \in gone : r \in Requests
  BY <1>9, Results DEF Delivered
<1>11. {r \in gone : /\ Pg!Has(half.requests, r)
                     /\ ~half.requests[r].scrubbed
                     /\ half.requests[r].status \in Pg!Finished} = R
  BY <1>6, <1>9, <1>10 DEF Swept, Pg!Has, Pg!NoRow, Has, NoRow, Pg!Finished, Finished
<1> HIDE DEF S, R
<1>12. Pg!ScrubRequestRows(half, gone) = [db |-> ScrubRequests(half, R), count |-> Cardinality(R)]
  <2> HIDE DEF gone
  <2>1. QED
    BY <1>4, <1>11, Counted DEF Pg!ScrubRequestRows
<1>13. Pg!ScrubDeliveredContent(db, u)
         = [half |-> half, db |-> ScrubRequests(half, R), count |-> Cardinality(S) + Cardinality(R)]
  BY <1>5, <1>12 DEF Pg!ScrubDeliveredContent
<1>14. QED
  BY <1>13 DEF S, R, half

LEMMA FiniteRows ==
  ASSUME NEW db \in Database
  PROVE  /\ IsFiniteSet(Requests)
         /\ IsFiniteSet(ResultIds(db))
<1>1. IsFiniteSet(Requests)
  BY RowAssumption
<1>2. IsFiniteSet(1..2)
  <2>1. 1..2 = {1, 2}
    OBVIOUS
  <2>2. IsFiniteSet({1} \cup {2})
    BY FS_Singleton, FS_Union
  <2>3. {1, 2} = {1} \cup {2}
    OBVIOUS
  <2>4. QED
    BY <2>1, <2>2, <2>3
<1>3. IsFiniteSet(Requests \X (1..2))
  BY <1>1, <1>2, FS_Product
<1>4. QED
  BY <1>1, <1>3, FS_Subset DEF ResultIds

LEMMA MemScrubsDelivered ==
  ASSUME NEW db \in Database, NEW u \in Users
  PROVE  Mem!ScrubDeliveredContent(db, u)
           = MemScrub(db, {r \in Requests : /\ \E id \in Fresh(db, u) : id[1] = r
                                            /\ Has(db.requests, r) /\ ~db.requests[r].scrubbed},
                      Fresh(db, u))
<1> DEFINE S == Fresh(db, u)
           R == {r \in Requests : /\ \E id \in S : id[1] = r
                                 /\ Has(db.requests, r) /\ ~db.requests[r].scrubbed}
<1>1. {id \in Mem!UnscrubbedResults(db) :
         Mem!ResultRow(db, id).delivery = "delivered" /\ UserOf[id[1]] = u} = S
  BY DEF Fresh, Delivered, Mem!UnscrubbedResults, Mem!ResultIds, ResultIds, Mem!ResultRow, ResultRow
<1>2. {id[1] : id \in S} \cap Mem!Unscrubbed(db) = R
  BY DEF Mem!Unscrubbed, Mem!Has, Mem!NoRow, Has, NoRow
<1>3. \A requests, results :
        Mem!Scrub(db, requests, results) = MemScrub(db, requests, results)
  BY MemScrubs
<1> HIDE DEF S, R
<1>4. Mem!ScrubDeliveredContent(db, u) = Mem!Scrub(db, R, S)
  BY <1>1, <1>2 DEF Mem!ScrubDeliveredContent
<1>5. QED
  BY <1>3, <1>4 DEF S, R

\* Where nobody is contested, the two scrub the same requests.
LEMMA DeliveredScrubsAgree ==
  ASSUME pg \in Database, NEW u \in Users
  PROVE  /\ Keeps(pg, Pg!ScrubDeliveredContent(pg, u).db)
         /\ Keeps(pg, Pg!ScrubDeliveredContent(pg, u).half)
         /\ Contested(u) = {} =>
              /\ Mem!ScrubDeliveredContent(pg, u).db = Pg!ScrubDeliveredContent(pg, u).db
              /\ Mem!ScrubDeliveredContent(pg, u).count = Pg!ScrubDeliveredContent(pg, u).count
<1> DEFINE S == Fresh(pg, u)
           R == Swept(pg, u)
           M == {r \in Requests : /\ \E id \in S : id[1] = r
                                 /\ Has(pg.requests, r) /\ ~pg.requests[r].scrubbed}
<1>1. S \in SUBSET ResultIds(pg) /\ R \in SUBSET Requests /\ \A r \in R : Has(pg.requests, r)
  BY DEF Fresh, Delivered, Swept
<1>2. ASSUME Contested(u) = {}
      PROVE  M = R
  <2>1. Pg!DeliveredResults(pg, u) = Delivered(pg, u)
    BY DEF Pg!DeliveredResults, Delivered, Pg!ResultIds, ResultIds, Pg!ResultRow, ResultRow
  <2>2. ASSUME NEW r \in Requests, Has(pg.requests, r), ~pg.requests[r].scrubbed,
               NEW id \in Delivered(pg, u), id[1] = r
        PROVE  pg.requests[r].status \in Finished <=> ~ResultRow(pg, id).scrubbed
    <3>1. UserOf[r] = u /\ ResultRow(pg, id) = pg.results[r][1]
      BY <2>2, Results DEF Delivered
    <3>2. ~(pg.requests[r].status \in Finished <=> pg.results[r][1].scrubbed)
      BY <1>2, <2>1, <2>2, <3>1 DEF Contested
    <3>3. QED
      BY <3>1, <3>2
  <2>3. QED
    BY <2>2 DEF Fresh, Swept
<1>3. Mem!ScrubDeliveredContent(pg, u) = MemScrub(pg, M, S)
  BY MemScrubsDelivered
<1> HIDE DEF S, R, M
<1>4. /\ Keeps(pg, ScrubRequests(ScrubResults(pg, S), R))
      /\ Keeps(pg, ScrubResults(pg, S))
  BY <1>1, ScrubBothWays, ScrubbedResults
<1>5. Contested(u) = {} =>
        /\ Mem!ScrubDeliveredContent(pg, u).db = ScrubRequests(ScrubResults(pg, S), R)
        /\ Mem!ScrubDeliveredContent(pg, u).count = Cardinality(R) + Cardinality(S)
  BY <1>2, <1>3 DEF MemScrub
<1>6. Cardinality(R) + Cardinality(S) = Cardinality(S) + Cardinality(R)
  <2>1. IsFiniteSet(R) /\ IsFiniteSet(S)
    BY <1>1, FiniteRows, FS_Subset DEF S
  <2>2. QED
    BY <2>1, FS_CardinalityType
<1>7. QED
  BY <1>4, <1>5, <1>6, PgScrubsDelivered DEF S, R

LEMMA ScrubEventsAgree ==
  ASSUME NEW db \in Database, NEW u
  PROVE  /\ Mem!ScrubEventLogForUser(db, u).db = Pg!ScrubEventLogForUser(db, u).db
         /\ Mem!ScrubEventLogForUser(db, u).count = Pg!ScrubEventLogForUser(db, u).count
         /\ Keeps(db, Pg!ScrubEventLogForUser(db, u).db)
         /\ Mem!ScrubEventLogsForScrubbedContent(db).db
              = Pg!ScrubEventLogsForScrubbedContent(db).db
         /\ Mem!ScrubEventLogsForScrubbedContent(db).count
              = Pg!ScrubEventLogsForScrubbedContent(db).count
         /\ Keeps(db, Pg!ScrubEventLogsForScrubbedContent(db).db)
<1> DEFINE hit(users) == {e \in Entities : /\ UserOf[e[2]] \in users
                                          /\ db.events[e] = "text"
                                          /\ Pg!ScrubbedEntity(db, e)}
           after(users) == [db |-> [db EXCEPT !.events =
                                      [e \in Entities |-> IF e \in hit(users) THEN "scrubbed"
                                                          ELSE db.events[e]]],
                            count |-> Cardinality(hit(users))]
<1>1. ASSUME NEW e \in Entities
      PROVE  \A users : e \in Mem!ScrubbedEntities(db, users)
                          <=> UserOf[e[2]] \in users /\ Pg!ScrubbedEntity(db, e)
  <2>1. e \in {"request", "result"} \X Requests
    BY RowAssumption
  <2>2. CASE e[1] = "request"
    BY <2>1, <2>2 DEF Mem!ScrubbedEntities, Pg!ScrubbedEntity, Mem!Has, Pg!Has, Mem!NoRow, Pg!NoRow
  <2>3. CASE e[1] = "result"
    BY <2>1, <2>3
    DEF Mem!ScrubbedEntities, Pg!ScrubbedEntity, Mem!UnscrubbedResults, Mem!ResultIds,
        Pg!ResultIds, Mem!ResultRow, Pg!ResultRow
  <2>4. QED
    BY <2>1, <2>2, <2>3
<1>2. \A e \in Entities : db.events[e] \notin {"none", "scrubbed"} <=> db.events[e] = "text"
  BY Tables
<1>3. \A users : {e \in Entities : /\ e \in Mem!ScrubbedEntities(db, users)
                                   /\ db.events[e] \notin {"none", "scrubbed"}} = hit(users)
  BY <1>1, <1>2
<1>4. \A users : Keeps(db, after(users).db)
  <2> TAKE users
  <2> DEFINE table == [e \in Entities |-> IF e \in hit(users) THEN "scrubbed" ELSE db.events[e]]
  <2>1. table \in [Entities -> {"none", "text", "scrubbed"}]
    BY Tables
  <2>2. after(users).db = [db EXCEPT !.events = table]
    OBVIOUS
  <2> HIDE DEF table, after
  <2>3. QED
    BY <2>1, <2>2, NewEvents
<1>5. {e \in {d \in Entities : UserOf[d[2]] = u} : db.events[e] = "text" /\ Pg!ScrubbedEntity(db, e)}
        = hit({u})
  OBVIOUS
<1>6. {e \in Entities : db.events[e] = "text" /\ Pg!ScrubbedEntity(db, e)} = hit(Users)
  BY RowAssumption DEF Users
<1> HIDE DEF hit
<1>7. \A users : Mem!ScrubEvents(db, users) = after(users)
  BY <1>3, Counted DEF Mem!ScrubEvents
<1>8. Pg!ScrubEventLogForUser(db, u) = after({u})
  BY <1>5, Counted DEF Pg!ScrubEventLogForUser, Pg!ScrubEventRows
<1>9. Pg!ScrubEventLogsForScrubbedContent(db) = after(Users)
  BY <1>6, Counted DEF Pg!ScrubEventLogsForScrubbedContent, Pg!ScrubEventRows
<1>10. /\ Mem!ScrubEventLogForUser(db, u) = after({u})
       /\ Mem!ScrubEventLogsForScrubbedContent(db) = after(Users)
  BY <1>7 DEF Mem!ScrubEventLogForUser, Mem!ScrubEventLogsForScrubbedContent, Mem!Users, Users
<1> HIDE DEF after
<1>11. QED
  BY <1>4, <1>8, <1>9, <1>10

-----------------------------------------------------------------------------
(* The invariant *)

StoreInv == StoreTypeOK /\ ResultsHaveRequests /\ RowsAgree

LEMMA StoreInit == Init => StoreInv
<1> SUFFICES ASSUME Init PROVE StoreInv
  OBVIOUS
<1>1. EmptyDb \in Database
  BY InSlots DEF EmptyDb, Database
<1>2. pg = EmptyDb /\ mem = EmptyDb /\ keys = {} /\ now = 1 /\ parted = FALSE
  BY DEF Init
<1>3. \A r \in Requests : EmptyDb.results[r] = <<>>
  BY DEF EmptyDb
<1>4. QED
  BY <1>1, <1>2, <1>3 DEF StoreInv, StoreTypeOK, ResultsHaveRequests, RowsAgree

\* A call that does the same to both stores, and keeps rows, keeps them equal.
LEMMA SameCall ==
  ASSUME StoreInv, NEW STATE m, NEW STATE p, Both(m, p),
         ~parted => m = p, Keeps(pg, p)
  PROVE  StoreInv'
<1>1. ~parted /\ pg' = p /\ mem' = m /\ keys' = keys /\ now' = now /\ parted' = parted
  BY DEF Both
<1>2. QED
  BY <1>1 DEF StoreInv, StoreTypeOK, ResultsHaveRequests, RowsAgree, Keeps

LEMMA PartingCall ==
  ASSUME StoreInv, NEW STATE m, NEW STATE p, Part(m, p), Keeps(pg, p)
  PROVE  StoreInv'
<1>1. pg' = p /\ mem' = m /\ keys' = keys /\ now' = now /\ parted' = TRUE
  BY DEF Part
<1>2. QED
  BY <1>1 DEF StoreInv, StoreTypeOK, ResultsHaveRequests, RowsAgree, Keeps

\* What the guards say of a row.
LEMMA RowOfStatus ==
  ASSUME StoreInv
  PROVE  /\ \A r \in Requests :
              Status(r) # "absent" => Has(pg.requests, r) /\ pg.requests[r] \in RequestRow
         /\ \A b \in Batches :
              BatchStatus(b) # "absent" => pg.batches[b] \in BatchRow
BY Tables DEF StoreInv, StoreTypeOK, Status, BatchStatus, Has

LEMMA RequestCallHolds ==
  ASSUME StoreInv, RequestCall
  PROVE  StoreInv'
<1> USE DEF StoreInv, StoreTypeOK
<1>1. PICK r \in Requests :
        \/ CreateRequest(r)
        \/ \E s \in {"succeeded", "failed", "expired"} : Settle(r, s)
        \/ Requeue(r)
        \/ GiveUp(r)
        \/ CreateResult(r, 1) \/ CreateSecondResult(r, 2)
        \/ MarkDelivered(r)
        \/ \E s \in {"pending", "failed"} : SetDelivery(r, s)
  BY DEF RequestCall
<1>2. ~parted => mem = pg
  BY DEF RowsAgree
<1>3. CASE CreateRequest(r)
  <2>1. Both(Mem!CreateRequest(mem, r, now), Pg!CreateRequest(pg, r, now))
    BY <1>3 DEF CreateRequest
  <2>2. QED
    BY <2>1, <1>2, CreateRequestAgrees, SameCall
<1>4. ASSUME NEW updates, UpdateRequest(r, updates), Update(pg.requests[r], updates) \in RequestRow
      PROVE  StoreInv'
  <2>1. Both(Mem!UpdateRequest(mem, r, updates), Pg!UpdateRequest(pg, r, updates))
    BY <1>4 DEF UpdateRequest
  <2>2. QED
    BY <2>1, <1>2, <1>4, UpdateRequestAgrees, SameCall
<1>5. ASSUME NEW s \in {"succeeded", "failed", "expired"}, Settle(r, s)
      PROVE  StoreInv'
  <2>1. UpdateRequest(r, [status |-> s]) /\ pg.requests[r] \in RequestRow
    BY <1>5, RowOfStatus DEF Settle
  <2>2. Update(pg.requests[r], [status |-> s]) \in RequestRow
    BY <2>1, RequestUpdates DEF RequestStatus
  <2>3. QED
    BY <2>1, <2>2, <1>4
<1>6. CASE Requeue(r)
  <2>1. UpdateRequest(r, [status |-> "queued", batch |-> Null]) /\ pg.requests[r] \in RequestRow
    BY <1>6, RowOfStatus DEF Requeue
  <2>2. Update(pg.requests[r], [status |-> "queued", batch |-> Null]) \in RequestRow
    BY <2>1, RequestUpdates DEF RequestStatus
  <2>3. QED
    BY <2>1, <2>2, <1>4
<1>7. CASE GiveUp(r)
  <2>1. UpdateRequest(r, [status |-> "failed_final"]) /\ pg.requests[r] \in RequestRow
    BY <1>7, RowOfStatus DEF GiveUp
  <2>2. Update(pg.requests[r], [status |-> "failed_final"]) \in RequestRow
    BY <2>1, RequestUpdates DEF RequestStatus
  <2>3. QED
    BY <2>1, <2>2, <1>4
<1>8. CASE CreateResult(r, 1)
  <2> DEFINE new == Pg!CreateResult(pg, r, now, 1)
  <2>1. /\ Both(Mem!CreateResult(mem, r, now, 1), new)
        /\ pg.results[r] = <<>> /\ Has(pg.requests, r)
    BY <1>8, RowOfStatus DEF CreateResult
  <2>2. /\ Mem!CreateResult(pg, r, now, 1) = new /\ new \in Database
        /\ new.requests = pg.requests
        /\ \A q \in Requests \ {r} : new.results[q] = pg.results[q]
    <3>1. 1 \in Nat /\ now \in Nat /\ pg \in Database /\ pg.results[r] = <<>>
      BY <2>1
    <3>2. QED
      BY <3>1, CreateResultAgrees
  <2> HIDE DEF new
  <2>3. /\ pg' = new /\ mem' = new /\ keys' = keys /\ now' = now /\ parted' = parted
    BY <2>1, <2>2, <1>2 DEF Both
  <2>4. QED
    BY <2>1, <2>2, <2>3 DEF ResultsHaveRequests, RowsAgree
<1>9. CASE CreateSecondResult(r, 2)
  <2>1. /\ Part(Mem!CreateResult(mem, r, now, 2), Pg!CreateResult(pg, r, now, 2))
        /\ Len(pg.results[r]) = 1
    BY <1>9 DEF CreateSecondResult
  <2>2. Pg!CreateResult(pg, r, now, 2) = pg
    <3>1. pg.results[r] # <<>>
      <4>1. pg.results[r] = <<>> => Len(pg.results[r]) = 0
        OBVIOUS
      <4>2. QED
        BY <2>1, <4>1
    <3>2. QED
      BY <3>1 DEF Pg!CreateResult
  <2>3. Keeps(pg, Pg!CreateResult(pg, r, now, 2))
    BY <2>2 DEF Keeps
  <2>4. QED
    BY <2>1, <2>3, PartingCall
<1>10. CASE MarkDelivered(r)
  <2>1. Both(Mem!MarkDelivered(mem, r, 1), Pg!MarkDelivered(pg, r, 1)) /\ pg.results[r] # <<>>
    BY <1>10 DEF MarkDelivered
  <2>2. Mem!MarkDelivered(pg, r, 1) = Pg!MarkDelivered(pg, r, 1) /\ Keeps(pg, Pg!MarkDelivered(pg, r, 1))
    BY <2>1, UpdateResultAgrees
  <2>3. QED
    BY <2>1, <2>2, <1>2, SameCall
<1>11. ASSUME NEW s \in {"pending", "failed"}, SetDelivery(r, s)
       PROVE  StoreInv'
  <2>1. /\ Both(Mem!UpdateResult(mem, r, 1, [delivery |-> s]), Pg!UpdateResult(pg, r, 1, [delivery |-> s]))
        /\ pg.results[r] # <<>>
    BY <1>11 DEF SetDelivery
  <2>2. /\ Mem!UpdateResult(pg, r, 1, [delivery |-> s]) = Pg!UpdateResult(pg, r, 1, [delivery |-> s])
        /\ Keeps(pg, Pg!UpdateResult(pg, r, 1, [delivery |-> s]))
    BY <2>1, UpdateResultAgrees
  <2>3. QED
    BY <2>1, <2>2, <1>2, SameCall
<1>12. QED
  BY <1>1, <1>3, <1>5, <1>6, <1>7, <1>8, <1>9, <1>10, <1>11

LEMMA BatchCallHolds ==
  ASSUME StoreInv, BatchCall
  PROVE  StoreInv'
<1> USE DEF StoreInv, StoreTypeOK
<1>1. PICK b \in Batches :
        \/ \E k \in Keys : CreateBatch(b, k) \/ CreateBatchUnknownKey(b, k)
        \/ \E u \in Users, p \in Providers : CreateBatchFor(b, u, p)
        \/ \E S \in SUBSET Requests : AssignBatchToRequests(S, b)
        \/ Submit(b)
        \/ \E s \in EndStatus : End(b, s)
        \/ CountFailures(b)
  BY DEF BatchCall, EndStatus
<1>2. ~parted => mem = pg
  BY DEF RowsAgree
<1>3. ASSUME NEW k \in Keys, CreateBatch(b, k) \/ CreateBatchUnknownKey(b, k)
      PROVE  StoreInv'
  <2>1. CASE CreateBatch(b, k)
    <3>1. Both(Mem!CreateBatch(mem, b, k), Pg!CreateBatch(pg, keys, b, k)) /\ k \in keys
      BY <2>1 DEF CreateBatch
    <3>2. QED
      BY <3>1, <1>2, CreateBatchAgrees, SameCall
  <2>2. CASE CreateBatchUnknownKey(b, k)
    BY <2>2, CreateBatchAgrees, PartingCall DEF CreateBatchUnknownKey
  <2>3. QED
    BY <1>3, <2>1, <2>2
<1>10. ASSUME NEW u \in Users, NEW p \in Providers, CreateBatchFor(b, u, p)
       PROVE  StoreInv'
  BY <1>10, CreateBatchAgrees, PartingCall DEF CreateBatchFor
<1>4. ASSUME NEW S \in SUBSET Requests, AssignBatchToRequests(S, b)
      PROVE  StoreInv'
  <2>1. Both(Mem!AssignBatchToRequests(mem, S, b), Pg!AssignBatchToRequests(pg, S, b))
    BY <1>4 DEF AssignBatchToRequests
  <2>2. \A r \in S : Has(pg.requests, r)
    BY <1>4 DEF AssignBatchToRequests, Pg!GetQueuedRequests, Pg!Oldest, Pg!Has, Pg!NoRow, Has, NoRow
  <2>3. QED
    BY <2>1, <2>2, <1>2, AssignAgrees, SameCall
<1>5. ASSUME NEW updates, UpdateBatch(b, updates), Update(pg.batches[b], updates) \in BatchRow
      PROVE  StoreInv'
  <2>1. Both(Mem!UpdateBatch(mem, b, updates), Pg!UpdateBatch(pg, b, updates))
    BY <1>5 DEF UpdateBatch
  <2>2. QED
    BY <2>1, <1>2, <1>5, UpdateBatchAgrees, SameCall
<1>6. CASE Submit(b)
  <2>1. UpdateBatch(b, [status |-> "submitted", submitted |-> TRUE]) /\ pg.batches[b] \in BatchRow
    BY <1>6, RowOfStatus DEF Submit
  <2>2. Update(pg.batches[b], [status |-> "submitted", submitted |-> TRUE]) \in BatchRow
    BY <2>1, BatchSubmitted
  <2>3. QED
    BY <2>1, <2>2, <1>5
<1>7. ASSUME NEW s \in EndStatus, End(b, s)
      PROVE  StoreInv'
  <2>1. UpdateBatch(b, [status |-> s, endedAt |-> now]) /\ pg.batches[b] \in BatchRow
    BY <1>7, RowOfStatus DEF End
  <2>2. Update(pg.batches[b], [status |-> s, endedAt |-> now]) \in BatchRow
    BY <2>1, BatchEnded DEF BatchStates
  <2>3. QED
    BY <2>1, <2>2, <1>5
<1>8. CASE CountFailures(b)
  <2>1. UpdateBatch(b, [failedCount |-> 1]) /\ pg.batches[b] \in BatchRow
    BY <1>8, RowOfStatus DEF CountFailures
  <2>2. Update(pg.batches[b], [failedCount |-> 1]) \in BatchRow
    BY <2>1, BatchSubmitted
  <2>3. QED
    BY <2>1, <2>2, <1>5
<1>9. QED
  BY <1>1, <1>3, <1>10, <1>4, <1>6, <1>7, <1>8

LEMMA HalfHolds ==
  ASSUME StoreInv, NEW STATE half, ScrubHalf(half), Keeps(pg, half)
  PROVE  StoreInv'
BY PartingCall DEF ScrubHalf

LEMMA RetentionCallHolds ==
  ASSUME StoreInv, RetentionCall
  PROVE  StoreInv'
<1> USE DEF StoreInv, StoreTypeOK
<1>1. ~parted => mem = pg
  BY DEF RowsAgree
<1>2. ASSUME NEW e \in Entities, LogEvent(e)
      PROVE  StoreInv'
  <2>1. Both(Mem!LogEvent(mem, e, "text"), Pg!LogEvent(pg, e, "text"))
    BY <1>2 DEF LogEvent
  <2>2. QED
    BY <2>1, <1>1, LogEventAgrees, SameCall
<1>3. ASSUME NEW before \in Cutoffs, ScrubExpiredContent(before)
      PROVE  StoreInv'
  <2>1. Both(Mem!ScrubExpiredContent(mem, before).db, Pg!ScrubExpiredContent(pg, before).db)
    BY <1>3 DEF ScrubExpiredContent
  <2>2. /\ Mem!ScrubExpiredContent(pg, before).db = Pg!ScrubExpiredContent(pg, before).db
        /\ Keeps(pg, Pg!ScrubExpiredContent(pg, before).db)
    BY ScrubExpiredAgrees
  <2>3. QED
    BY <2>1, <2>2, <1>1, SameCall
<1>4. ASSUME NEW u \in Users, NEW before \in Cutoffs, ScrubContentForUser(u, before)
      PROVE  StoreInv'
  <2>1. Both(Mem!ScrubContentForUser(mem, u, before).db, Pg!ScrubContentForUser(pg, u, before).db)
    BY <1>4 DEF ScrubContentForUser
  <2>2. /\ Mem!ScrubContentForUser(pg, u, before).db = Pg!ScrubContentForUser(pg, u, before).db
        /\ Keeps(pg, Pg!ScrubContentForUser(pg, u, before).db)
    BY ScrubContentAgrees
  <2>3. QED
    BY <2>1, <2>2, <1>1, SameCall
<1>5. ASSUME NEW u \in Users, NEW before \in Cutoffs,
             ScrubHalf(Pg!ScrubContentForUser(pg, u, before).half)
      PROVE  StoreInv'
  BY <1>5, ScrubContentAgrees, HalfHolds
<1>6. ASSUME NEW u \in Users, ScrubDeliveredContent(u)
      PROVE  StoreInv'
  <2>1. /\ Both(Mem!ScrubDeliveredContent(mem, u).db, Pg!ScrubDeliveredContent(pg, u).db)
        /\ Contested(u) = {}
    BY <1>6 DEF ScrubDeliveredContent
  <2>2. /\ Mem!ScrubDeliveredContent(pg, u).db = Pg!ScrubDeliveredContent(pg, u).db
        /\ Keeps(pg, Pg!ScrubDeliveredContent(pg, u).db)
    BY <2>1, DeliveredScrubsAgree
  <2>3. QED
    BY <2>1, <2>2, <1>1, SameCall
<1>7. ASSUME NEW u \in Users, ScrubHalf(Pg!ScrubDeliveredContent(pg, u).half)
      PROVE  StoreInv'
  BY <1>7, DeliveredScrubsAgree, HalfHolds
<1>8. ASSUME NEW u \in Users, ScrubContested(u)
      PROVE  StoreInv'
  BY <1>8, DeliveredScrubsAgree, PartingCall DEF ScrubContested
<1>9. ASSUME NEW u \in Users, ScrubEvents(u)
      PROVE  StoreInv'
  <2>1. CASE Both(Mem!ScrubEventLogForUser(mem, u).db, Pg!ScrubEventLogForUser(pg, u).db)
    BY <2>1, <1>1, ScrubEventsAgree, SameCall
  <2>2. CASE Both(Mem!ScrubEventLogsForScrubbedContent(mem).db,
                  Pg!ScrubEventLogsForScrubbedContent(pg).db)
    BY <2>2, <1>1, ScrubEventsAgree, SameCall
  <2>3. QED
    BY <1>9, <2>1, <2>2 DEF ScrubEvents
<1>10. QED
  BY <1>2, <1>3, <1>4, <1>5, <1>6, <1>7, <1>8, <1>9 DEF RetentionCall

LEMMA SettingsCallHolds ==
  ASSUME StoreInv, SettingsCall
  PROVE  StoreInv'
<1> USE DEF StoreInv, StoreTypeOK
<1>1. ~parted => mem = pg
  BY DEF RowsAgree
<1>2. ASSUME NEW u \in Users, NEW input \in LimitsInput,
             UpsertUserLimits(u, input) \/ UpsertFraction(u, input)
      PROVE  StoreInv'
  <2>1. CASE UpsertUserLimits(u, input)
    <3>1. /\ LimitInCents(input.hardSpend)
          /\ Both(Mem!UpsertUserLimits(mem, u, input, now), Pg!UpsertUserLimits(pg, u, input, now))
      BY <2>1 DEF UpsertUserLimits
    <3>2. QED
      BY <3>1, <1>1, UpsertLimitsAgrees, SameCall
  <2>2. CASE UpsertFraction(u, input)
    BY <2>2, UpsertLimitsAgrees, PartingCall DEF UpsertFraction
  <2>3. QED
    BY <1>2, <2>1, <2>2
<1>3. ASSUME NEW u \in Users, NEW field \in Counters, Increment(u, field, 1)
      PROVE  StoreInv'
  <2>1. Both(Mem!Increment(mem, u, field, 1), Pg!Increment(pg, u, field, 1))
    BY <1>3 DEF Increment
  <2>2. QED
    BY <2>1, <1>1, IncrementAgrees, SameCall
<1>4. ASSUME NEW u \in Users, NEW n \in 1..2, NEW limit \in 0..MaxCount,
             ConsumePeriodRequests(u, n, limit)
      PROVE  StoreInv'
  <2>1. Both(Mem!ConsumePeriodRequests(mem, u, n, limit).db, Pg!ConsumePeriodRequests(pg, u, n, limit).db)
    BY <1>4 DEF ConsumePeriodRequests
  <2>2. n \in Nat /\ limit \in Nat
    BY DEF MaxCount
  <2>3. QED
    BY <2>1, <2>2, <1>1, ConsumeAgrees, SameCall
<1>5. ASSUME NEW u \in Users, ResetPeriod(u)
      PROVE  StoreInv'
  <2>1. Both(Mem!ResetPeriod(mem, u, now, now + 1), Pg!ResetPeriod(pg, u, now, now + 1))
    BY <1>5 DEF ResetPeriod
  <2>2. QED
    BY <2>1, <1>1, ResetAgrees, SameCall
<1>6. ASSUME NEW m \in Models, NEW entry \in CatalogRow, UpsertProviderCatalogEntry(m, entry)
      PROVE  StoreInv'
  <2>1. Both(Mem!UpsertProviderCatalogEntry(mem, m, entry), Pg!UpsertProviderCatalogEntry(pg, m, entry))
    BY <1>6 DEF UpsertProviderCatalogEntry
  <2>2. QED
    BY <2>1, <1>1, UpsertCatalogAgrees, SameCall
<1>7. ASSUME NEW u \in Users, NEW amount \in Amounts,
             IncrementSpend(u, amount) \/ IncrementFraction(u, amount)
      PROVE  StoreInv'
  <2>1. amount \in Nat
    BY AmountAssumption
  <2>2. CASE IncrementSpend(u, amount)
    <3>1. /\ Has(pg.limits, u) => WholeCents(amount)
          /\ Both(Mem!IncrementSpend(mem, u, amount), Pg!IncrementSpend(pg, u, amount))
      BY <2>2 DEF IncrementSpend
    <3>2. QED
      BY <2>1, <3>1, <1>1, IncrementSpendAgrees, SameCall
  <2>3. CASE IncrementFraction(u, amount)
    BY <2>1, <2>3, IncrementSpendAgrees, PartingCall DEF IncrementFraction
  <2>4. QED
    BY <1>7, <2>2, <2>3
<1>8. QED
  BY <1>2, <1>3, <1>4, <1>5, <1>6, <1>7 DEF SettingsCall

LEMMA KeyCallHolds ==
  ASSUME StoreInv, KeyCall
  PROVE  StoreInv'
<1>1. pg' = pg /\ mem' = mem /\ now' = now /\ parted' = parted /\ keys' \in SUBSET Keys
  BY DEF KeyCall, AddKey, DeleteKey, StoreInv, StoreTypeOK
<1>2. QED
  BY <1>1 DEF StoreInv, StoreTypeOK, ResultsHaveRequests, RowsAgree

LEMMA StoreStep == StoreInv /\ [Next]_vars => StoreInv'
<1> SUFFICES ASSUME StoreInv, [Next]_vars PROVE StoreInv'
  OBVIOUS
<1>1. CASE Clock
  BY <1>1 DEF Clock, StoreInv, StoreTypeOK, ResultsHaveRequests, RowsAgree
<1>2. CASE UNCHANGED vars
  BY <1>2 DEF vars, StoreInv, StoreTypeOK, ResultsHaveRequests, RowsAgree
<1>3. QED
  BY <1>1, <1>2, RequestCallHolds, BatchCallHolds, KeyCallHolds, RetentionCallHolds,
     SettingsCallHolds DEF Next

THEOREM StoreInvariant == Spec => []StoreInv
BY StoreInit, StoreStep, PTL DEF Spec

\* The rows of the two stores, but for those of API keys, never differ before a
\* call on which they part: in batches, where the key is stored; in limits, while
\* money comes in whole cents; in results, while a request has one; in scrubs.
THEOREM RowsAlwaysAgree == Spec => []RowsAgree
<1>1. StoreInv => RowsAgree
  BY DEF StoreInv
<1>2. QED
  BY <1>1, StoreInvariant, PTL

\* Cut short or not, a scrub of delivered content is completed by the next.
THEOREM ScrubsAlwaysComplete == Spec => []ScrubCompletes
<1>1. StoreInv => ScrubCompletes
  <2> SUFFICES ASSUME StoreInv, NEW u \in Users
               PROVE  LET db == Pg!ScrubDeliveredContent(pg, u).db
                      IN \A id \in Pg!DeliveredResults(db, u) :
                           /\ ResultRow(db, id).scrubbed
                           /\ db.requests[id[1]].status \in Finished => db.requests[id[1]].scrubbed
    BY DEF ScrubCompletes
  <2> DEFINE S    == Fresh(pg, u)
             R    == Swept(pg, u)
             half == ScrubResults(pg, S)
             db   == ScrubRequests(half, R)
  <2>1. pg \in Database /\ ResultsHaveRequests
    BY DEF StoreInv, StoreTypeOK
  <2>2. Pg!ScrubDeliveredContent(pg, u).db = db
    BY <2>1, PgScrubsDelivered
  <2>3. S \in SUBSET ResultIds(pg) /\ R \in SUBSET Requests /\ \A r \in R : Has(pg.requests, r)
    BY DEF Fresh, Delivered, Swept
  <2>4. /\ half \in Database /\ half.requests = pg.requests
        /\ ResultIds(half) = ResultIds(pg)
        /\ \A id \in ResultIds(pg) :
             /\ ResultRow(half, id).delivery = ResultRow(pg, id).delivery
             /\ ResultRow(half, id).scrubbed = (id \in S \/ ResultRow(pg, id).scrubbed)
    <3> HIDE DEF S
    <3>1. QED
      BY <2>1, <2>3, ScrubbedResults DEF Keeps
  <2> HIDE DEF half
  <2>5. /\ db.results = half.results
        /\ \A r \in Requests \ R : db.requests[r] = pg.requests[r]
        /\ \A r \in R : db.requests[r].scrubbed
    <3> HIDE DEF R
    <3>1. QED
      BY <2>3, <2>4, ScrubbedRequests
  <2> HIDE DEF db
  <2>6. Pg!DeliveredResults(db, u) = Delivered(pg, u)
    BY <2>4, <2>5 DEF Pg!DeliveredResults, Pg!ResultIds, Pg!ResultRow, Delivered, ResultIds, ResultRow
  <2>7. ASSUME NEW id \in Delivered(pg, u)
        PROVE  /\ ResultRow(db, id).scrubbed
               /\ db.requests[id[1]].status \in Finished => db.requests[id[1]].scrubbed
    <3>1. ResultRow(db, id) = ResultRow(half, id) /\ id \in ResultIds(pg)
      BY <2>5 DEF ResultRow, Delivered
    <3>2. ResultRow(half, id).scrubbed
      BY <3>1, <2>4 DEF Fresh
    <3>3. id[1] \in Requests /\ Has(pg.requests, id[1])
      BY <3>1, <2>1, Results DEF ResultsHaveRequests
    <3>4. id[1] \notin R =>
            (pg.requests[id[1]].status \in Finished => pg.requests[id[1]].scrubbed)
      BY <3>3 DEF Swept
    <3>5. QED
      BY <3>1, <3>2, <3>3, <3>4, <2>5
  <2>8. QED
    BY <2>2, <2>6, <2>7
<1>2. QED
  BY <1>1, StoreInvariant, PTL

-----------------------------------------------------------------------------
(* Sums *)

\* Sets of subsets of a finite set have a minimal element.
LEMMA Smallest ==
  ASSUME NEW S, IsFiniteSet(S), NEW Bad \in SUBSET (SUBSET S), Bad # {}
  PROVE  \E T \in Bad : \A U \in SUBSET T : U # T => U \notin Bad
<1>1. IsWellFoundedOn(StrictSubsetOrdering(S), SUBSET S)
  BY FS_StrictSubsetOrderingWellFounded, FS_FiniteSubsetsOfFinite
<1>2. PICK T \in Bad : \A U \in Bad : <<U, T>> \notin StrictSubsetOrdering(S)
  BY <1>1, WFMin
<1>3. ASSUME NEW U \in SUBSET T, U # T, U \in Bad
      PROVE  FALSE
  <2>1. <<U, T>> \in StrictSubsetOrdering(S)
    BY <1>3 DEF StrictSubsetOrdering
  <2>2. QED
    BY <2>1, <1>2, <1>3
<1>4. QED
  BY <1>3

Points(w, T) == {p \in T \X Nat : p[2] < w[p[1]]}

Total(w, T) == Cardinality(Points(w, T))

\* The points of one element.
LEMMA OneElement ==
  ASSUME NEW T, NEW w, NEW x \in T, w[x] \in Nat
  PROVE  /\ Points(w, T) = Points(w, T \ {x}) \cup ({x} \X (0..(w[x] - 1)))
         /\ Points(w, T \ {x}) \cap ({x} \X (0..(w[x] - 1))) = {}
         /\ IsFiniteSet({x} \X (0..(w[x] - 1)))
         /\ Cardinality({x} \X (0..(w[x] - 1))) = w[x]
<1> DEFINE n == w[x]
<1>1. n \in Nat
  OBVIOUS
<1>2. {x} \X (0..(n - 1)) = {p \in {x} \X Nat : p[2] < n}
  BY <1>1
<1>3. Points(w, T) = Points(w, T \ {x}) \cup {p \in {x} \X Nat : p[2] < w[x]}
  BY DEF Points
<1>4. Points(w, T \ {x}) \cap {p \in {x} \X Nat : p[2] < w[x]} = {}
  BY DEF Points
<1>5. IsFiniteSet(0..(n - 1)) /\ Cardinality(0..(n - 1)) = n
  <2>1. 0 \in Int /\ n - 1 \in Int
    BY <1>1
  <2>2. /\ IsFiniteSet(0..(n - 1))
        /\ Cardinality(0..(n - 1)) = IF 0 > n - 1 THEN 0 ELSE (n - 1) - 0 + 1
    BY <2>1, FS_Interval
  <2> HIDE DEF n
  <2>3. (IF 0 > n - 1 THEN 0 ELSE (n - 1) - 0 + 1) = n
    BY <1>1
  <2>4. QED
    BY <2>2, <2>3
<1>6. IsFiniteSet({x}) /\ Cardinality({x}) = 1
  BY FS_Singleton
<1>7. /\ IsFiniteSet({x} \X (0..(n - 1)))
      /\ Cardinality({x} \X (0..(n - 1))) = Cardinality({x}) * Cardinality(0..(n - 1))
  BY <1>5, <1>6, FS_Product
<1>8. 1 * n = n
  BY <1>1
<1>9. QED
  BY <1>2, <1>3, <1>4, <1>5, <1>6, <1>7, <1>8

LEMMA FinitePoints ==
  ASSUME NEW S, IsFiniteSet(S), NEW w, \A x \in S : w[x] \in Nat
  PROVE  \A T \in SUBSET S : IsFiniteSet(Points(w, T))
<1> DEFINE Bad == {T \in SUBSET S : ~IsFiniteSet(Points(w, T))}
<1>1. SUFFICES ASSUME Bad # {} PROVE FALSE
  OBVIOUS
<1>2. PICK T \in Bad : \A U \in SUBSET T : U # T => U \notin Bad
  <2>1. Bad \in SUBSET (SUBSET S)
    OBVIOUS
  <2> HIDE DEF Bad
  <2>2. QED
    BY <1>1, <2>1, Smallest
<1>3. CASE T = {}
  <2>1. Points(w, T) = {}
    BY <1>3 DEF Points
  <2>2. QED
    BY <2>1, <1>2, FS_EmptySet
<1>4. CASE T # {}
  <2>1. PICK x \in T : TRUE
    BY <1>4
  <2>2. IsFiniteSet(Points(w, T \ {x}))
    BY <2>1, <1>2
  <2>3. /\ Points(w, T) = Points(w, T \ {x}) \cup ({x} \X (0..(w[x] - 1)))
        /\ IsFiniteSet({x} \X (0..(w[x] - 1)))
    BY <2>1, OneElement
  <2>4. IsFiniteSet(Points(w, T))
    <3> DEFINE own == {x} \X (0..(w[x] - 1))
    <3>1. IsFiniteSet(own) /\ Points(w, T) = Points(w, T \ {x}) \cup own
      BY <2>3
    <3> HIDE DEF own
    <3>2. QED
      BY <2>2, <3>1, FS_Union
  <2>5. QED
    BY <2>4, <1>2
<1>5. QED
  BY <1>3, <1>4

LEMMA TotalStep ==
  ASSUME NEW S, IsFiniteSet(S), NEW w, \A x \in S : w[x] \in Nat, NEW T \in SUBSET S
  PROVE  /\ Total(w, T) \in Nat
         /\ T = {} => Total(w, T) = 0
         /\ \A x \in T : Total(w, T) = w[x] + Total(w, T \ {x})
<1>1. IsFiniteSet(Points(w, T))
  BY FinitePoints
<1>2. Total(w, T) \in Nat
  BY <1>1, FS_CardinalityType DEF Total
<1>3. ASSUME T = {} PROVE Total(w, T) = 0
  <2>1. Points(w, T) = {}
    BY <1>3 DEF Points
  <2>2. QED
    BY <2>1, FS_EmptySet DEF Total
<1>4. ASSUME NEW x \in T
      PROVE  Total(w, T) = w[x] + Total(w, T \ {x})
  <2> DEFINE rest == Points(w, T \ {x})
             own  == {x} \X (0..(w[x] - 1))
  <2>1. /\ Points(w, T) = rest \cup own
        /\ rest \cap own = {}
        /\ IsFiniteSet(own)
        /\ Cardinality(own) = w[x]
    BY OneElement
  <2>2. IsFiniteSet(rest)
    <3>1. T \ {x} \in SUBSET S
      OBVIOUS
    <3>2. QED
      BY <3>1, FinitePoints
  <2>3. Cardinality(rest) \in Nat /\ w[x] \in Nat
    BY <2>2, FS_CardinalityType
  <2> HIDE DEF rest, own
  <2>4. Cardinality(rest \cup own) = Cardinality(rest) + Cardinality(own) - Cardinality(rest \cap own)
    BY <2>1, <2>2, FS_Union
  <2>5. Cardinality(rest \cap own) = 0
    BY <2>1, FS_EmptySet
  <2>6. Cardinality(Points(w, T)) = w[x] + Cardinality(rest)
    BY <2>1, <2>3, <2>4, <2>5
  <2>7. QED
    BY <2>6 DEF Total, rest
<1>5. QED
  BY <1>2, <1>3, <1>4

Pick(T) == CHOOSE y \in T : TRUE

\* What the recursive sums of the two stores are: functions that take out one
\* element at a time.
IsSum(g, w, S) ==
  g = [T \in SUBSET S |-> IF T = {} THEN 0 ELSE w[Pick(T)] + g[T \ {Pick(T)}]]

LEMMA SumIsTotal ==
  ASSUME NEW S, IsFiniteSet(S), NEW w, \A x \in S : w[x] \in Nat, NEW g, IsSum(g, w, S)
  PROVE  \A T \in SUBSET S : g[T] = Total(w, T)
<1> DEFINE Bad == {T \in SUBSET S : g[T] # Total(w, T)}
<1>1. SUFFICES ASSUME Bad # {} PROVE FALSE
  OBVIOUS
<1>2. PICK T \in Bad : \A U \in SUBSET T : U # T => U \notin Bad
  <2>1. Bad \in SUBSET (SUBSET S)
    OBVIOUS
  <2> HIDE DEF Bad
  <2>2. QED
    BY <1>1, <2>1, Smallest
<1>3. g[T] = IF T = {} THEN 0 ELSE w[Pick(T)] + g[T \ {Pick(T)}]
  BY DEF IsSum
<1>4. CASE T = {}
  BY <1>2, <1>3, <1>4, TotalStep
<1>5. CASE T # {}
  <2>1. Pick(T) \in T
    BY <1>5 DEF Pick
  <2>2. g[T \ {Pick(T)}] = Total(w, T \ {Pick(T)})
    BY <2>1, <1>2
  <2>3. Total(w, T) = w[Pick(T)] + Total(w, T \ {Pick(T)})
    BY <2>1, TotalStep
  <2>4. QED
    BY <2>2, <2>3, <1>2, <1>3, <1>5
<1>6. QED
  BY <1>4, <1>5

LEMMA SumExists ==
  ASSUME NEW S, IsFiniteSet(S), NEW w, \A x \in S : w[x] \in Nat
  PROVE  IsSum([T \in SUBSET S |-> Total(w, T)], w, S)
<1> DEFINE g == [T \in SUBSET S |-> Total(w, T)]
<1>1. ASSUME NEW T \in SUBSET S
      PROVE  g[T] = IF T = {} THEN 0 ELSE w[Pick(T)] + g[T \ {Pick(T)}]
  <2>1. CASE T = {}
    BY <2>1, TotalStep
  <2>2. CASE T # {}
    <3>1. Pick(T) \in T
      BY <2>2 DEF Pick
    <3>2. Total(w, T) = w[Pick(T)] + Total(w, T \ {Pick(T)})
      BY <3>1, TotalStep
    <3>3. QED
      BY <3>1, <3>2, <2>2
  <2>3. QED
    BY <2>1, <2>2
<1>2. QED
  BY <1>1 DEF IsSum

LEMMA TheSum ==
  ASSUME NEW S, IsFiniteSet(S), NEW w, \A x \in S : w[x] \in Nat
  PROVE  (CHOOSE g : IsSum(g, w, S))[S] = Total(w, S)
<1>1. IsSum(CHOOSE g : IsSum(g, w, S), w, S)
  BY SumExists
<1>2. QED
  BY <1>1, SumIsTotal

LEMMA MemSum ==
  ASSUME NEW S, IsFiniteSet(S), NEW w, \A x \in S : w[x] \in Nat
  PROVE  Mem!Sum(w, S) = Total(w, S)
<1>1. Mem!Sum(w, S) = (CHOOSE g : IsSum(g, w, S))[S]
  BY DEF Mem!Sum, IsSum, Pick
<1>2. QED
  BY <1>1, TheSum

LEMMA PgSum ==
  ASSUME NEW S, IsFiniteSet(S), NEW w, \A x \in S : w[x] \in Nat
  PROVE  Pg!Sum(w, S) = Total(w, S)
<1>1. Pg!Sum(w, S) = (CHOOSE g : IsSum(g, w, S))[S]
  BY DEF Pg!Sum, IsSum, Pick
<1>2. QED
  BY <1>1, TheSum

\* The tokens of a request: those of its result, if it has one.
TokensOf(db) == [r \in Requests |-> IF db.results[r] = <<>> THEN 0 ELSE db.results[r][1].tokens]

LEMMA TokensType ==
  ASSUME NEW db \in Database
  PROVE  \A r \in Requests : TokensOf(db)[r] \in Nat
BY InSlot DEF TokensOf, ResultRowType

\* The sum over the results of some requests is that over the requests, whose
\* results are joined to them: a request has one result at most.
LEMMA TokensAgree ==
  ASSUME NEW db \in Database, NEW S \in SUBSET Requests
  PROVE  /\ Mem!Tokens(db, S) = Total(TokensOf(db), S)
         /\ Pg!SumTokens(db, S) = Total(TokensOf(db), S)
<1> DEFINE ids == {id \in ResultIds(db) : id[1] \in S}
           w   == [id \in ResultIds(db) |-> ResultRow(db, id).tokens]
           v   == TokensOf(db)
           A   == Points(w, ids)
           B   == Points(v, S)
<1>1. IsFiniteSet(ids) /\ IsFiniteSet(S)
  BY FiniteRows, FS_Subset
<1>2. \A id \in ids : /\ id[1] \in S /\ id = <<id[1], 1>>
                      /\ w[id] = v[id[1]] /\ w[id] \in Nat
  BY Results DEF TokensOf, ResultRowType
<1>3. \A r \in S : v[r] \in Nat
  BY TokensType
<1>4. \A r \in S : v[r] # 0 => <<r, 1>> \in ids
  BY Results DEF TokensOf
<1> HIDE DEF ids, w, v
<1>5. Mem!Tokens(db, S) = Total(w, ids)
  <2>1. Mem!Tokens(db, S) = Mem!Sum(w, ids)
    BY DEF Mem!Tokens, Mem!ResultIds, ResultIds, Mem!ResultRow, ResultRow, w, ids
  <2>2. QED
    BY <2>1, <1>1, <1>2, MemSum
<1>6. Pg!SumTokens(db, S) = Total(v, S)
  <2>1. Pg!SumTokens(db, S) = Pg!Sum(v, S)
    BY DEF Pg!SumTokens, v, TokensOf
  <2>2. QED
    BY <2>1, <1>1, <1>3, PgSum
<1>7. ExistsBijection(A, B)
  <2> DEFINE f == [p \in A |-> <<p[1][1], p[2]>>]
  <2>1. f \in [A -> B]
    BY <1>2 DEF Points
  <2>2. \A p, q \in A : f[p] = f[q] => p = q
    BY <1>2 DEF Points
  <2>3. ASSUME NEW t \in B
        PROVE  \E p \in A : f[p] = t
    <3>1. t[1] \in S /\ t[2] \in Nat /\ t[2] < v[t[1]] /\ t = <<t[1], t[2]>>
      BY DEF Points
    <3>2. v[t[1]] # 0
      BY <3>1, <1>3
    <3>3. <<t[1], 1>> \in ids /\ w[<<t[1], 1>>] = v[t[1]]
      BY <3>1, <3>2, <1>2, <1>4
    <3>4. <<<<t[1], 1>>, t[2]>> \in A
      BY <3>1, <3>3 DEF Points
    <3>5. QED
      BY <3>1, <3>4
  <2> HIDE DEF f, A, B
  <2>4. f \in Bijection(A, B)
    BY <2>1, <2>2, <2>3 DEF Bijection, Injection, Surjection, IsInjective
  <2>5. QED
    BY <2>4 DEF ExistsBijection
<1>8. IsFiniteSet(A)
  BY <1>1, <1>2, FinitePoints
<1>9. Total(w, ids) = Total(v, S)
  <2> HIDE DEF A, B
  <2>1. Cardinality(A) = Cardinality(B)
    BY <1>7, <1>8, FS_Bijection
  <2>2. QED
    BY <2>1 DEF Total, A, B
<1>10. QED
  BY <1>5, <1>6, <1>9 DEF v

-----------------------------------------------------------------------------
(* Queries *)

LEMMA QueriesAgree ==
  ASSUME NEW db \in Database
  PROVE  /\ \A n : Mem!GetQueuedRequests(db, n) = Pg!GetQueuedRequests(db, n)
         /\ \A n : Mem!GetUndeliveredResults(db, n) = Pg!GetUndeliveredResults(db, n)
         /\ Mem!GetPendingBatches(db) = Pg!GetPendingBatches(db)
         /\ Mem!GetInFlightBatches(db) = Pg!GetInFlightBatches(db)
         /\ \A b : Mem!GetRequestsByBatchId(db, b) = Pg!GetRequestsByBatchId(db, b)
         /\ \A p \in Providers \cup {Undefined} :
              Mem!ListProviderCatalog(db, p) = Pg!ListProviderCatalog(db, p)
         /\ \A m : Mem!GetProviderCatalogEntry(db, m) = Pg!GetProviderCatalogEntry(db, m)
<1>1. \A S, f, n : Mem!Oldest(S, f, n) = Pg!Oldest(S, f, n)
  BY Counted DEF Mem!Oldest, Pg!Oldest
<1>2. \A n : Mem!GetQueuedRequests(db, n) = Pg!GetQueuedRequests(db, n)
  BY <1>1 DEF Mem!GetQueuedRequests, Pg!GetQueuedRequests, Mem!Has, Pg!Has, Mem!NoRow, Pg!NoRow
<1>3. \A n : Mem!GetUndeliveredResults(db, n) = Pg!GetUndeliveredResults(db, n)
  BY <1>1 DEF Mem!GetUndeliveredResults, Pg!GetUndeliveredResults, Mem!ResultIds, Pg!ResultIds,
              Mem!ResultRow, Pg!ResultRow
<1>4. /\ Mem!GetPendingBatches(db) = Pg!GetPendingBatches(db)
      /\ Mem!GetInFlightBatches(db) = Pg!GetInFlightBatches(db)
  BY DEF Mem!GetPendingBatches, Pg!GetPendingBatches, Mem!GetInFlightBatches, Pg!GetInFlightBatches,
         Mem!BatchesIn, Mem!Has, Pg!Has, Mem!NoRow, Pg!NoRow
<1>5. \A b : Mem!GetRequestsByBatchId(db, b) = Pg!GetRequestsByBatchId(db, b)
  BY DEF Mem!GetRequestsByBatchId, Pg!GetRequestsByBatchId, Mem!Has, Pg!Has, Mem!NoRow, Pg!NoRow
<1>6. \A p \in Providers \cup {Undefined} :
        Mem!ListProviderCatalog(db, p) = Pg!ListProviderCatalog(db, p)
  <2> TAKE p \in Providers \cup {Undefined}
  <2> DEFINE rows == {m \in Models : Has(db.catalog, m) /\ p \in {Undefined, m[1]}}
             before(m, k) == \/ m[1] < k[1]
                             \/ m[1] = k[1] /\ db.catalog[m].label < db.catalog[k].label
             after(m, k)  == IF m[1] # k[1] THEN m[1] < k[1]
                             ELSE db.catalog[m].label < db.catalog[k].label
  <2>1. {m \in Models : Has(db.catalog, m) /\ ~(p # Undefined /\ m[1] # p)} = rows
    OBVIOUS
  <2>2. \A m, k \in rows : after(m, k) <=> before(m, k)
    BY RowAssumption
  <2>3. Pg!ListProviderCatalog(db, p) =
          [rows |-> rows, order |-> {q \in rows \X rows : before(q[1], q[2])}]
    BY DEF Pg!ListProviderCatalog, Pg!Has, Has, Pg!NoRow, NoRow
  <2>4. Mem!ListProviderCatalog(db, p) =
          [rows |-> rows, order |-> {q \in rows \X rows : after(q[1], q[2])}]
    BY <2>1 DEF Mem!ListProviderCatalog, Mem!Has, Has, Mem!NoRow, NoRow
  <2> HIDE DEF rows, before, after
  <2>5. {q \in rows \X rows : after(q[1], q[2])} = {q \in rows \X rows : before(q[1], q[2])}
    BY <2>2
  <2>6. QED
    BY <2>3, <2>4, <2>5
<1>7. \A m : Mem!GetProviderCatalogEntry(db, m) = Pg!GetProviderCatalogEntry(db, m)
  BY DEF Mem!GetProviderCatalogEntry, Pg!GetProviderCatalogEntry
<1>8. QED
  BY <1>2, <1>3, <1>4, <1>5, <1>6, <1>7

LEMMA UsersAgree ==
  ASSUME NEW db \in Database
  PROVE  Mem!GetDistinctUserIdsWithUnscrubbedContent(db)
           = Pg!GetDistinctUserIdsWithUnscrubbedContent(db)
<1> DEFINE M == Mem!GetDistinctUserIdsWithUnscrubbedContent(db)
           P == Pg!GetDistinctUserIdsWithUnscrubbedContent(db)
<1>1. \A r \in Requests : UserOf[r] \in Users
  BY DEF Users
<1>2. \A id \in ResultIds(db) : id[1] \in Requests
  BY Results
<1>3. M = {UserOf[r] : r \in {q \in Requests : /\ Has(db.requests, q) /\ ~db.requests[q].scrubbed
                                               /\ db.requests[q].status \in Finished}}
            \cup {UserOf[id[1]] : id \in {j \in ResultIds(db) : ~ResultRow(db, j).scrubbed}}
  BY DEF Mem!GetDistinctUserIdsWithUnscrubbedContent, Mem!Unscrubbed, Mem!UnscrubbedResults,
         Mem!ResultIds, ResultIds, Mem!ResultRow, ResultRow, Mem!Has, Has, Mem!NoRow, NoRow,
         Mem!Finished, Finished
<1>4. P = {u \in Users :
             \/ \E r \in Requests : /\ UserOf[r] = u
                                    /\ Has(db.requests, r) /\ ~db.requests[r].scrubbed
                                    /\ db.requests[r].status \in Finished
             \/ \E id \in ResultIds(db) : UserOf[id[1]] = u /\ ~ResultRow(db, id).scrubbed}
  BY DEF Pg!GetDistinctUserIdsWithUnscrubbedContent, Pg!RequestsOf, Pg!Users, Users,
         Pg!ResultIds, ResultIds, Pg!ResultRow, ResultRow, Pg!Has, Has, Pg!NoRow, NoRow,
         Pg!Finished, Finished
<1> HIDE DEF M, P
<1>5. QED
  BY <1>1, <1>2, <1>3, <1>4 DEF M, P

\* The requests of a user in a period.
InRange(db, u, from, to) ==
  {r \in Requests : UserOf[r] = u /\ Has(db.requests, r) /\ db.requests[r].createdAt \in from..to}

LEMMA Ranges ==
  ASSUME NEW db, NEW u, NEW from, NEW to
  PROVE  /\ Mem!InPeriod(db, u, from, to) = InRange(db, u, from, to)
         /\ Pg!Selected(db, u, from, to) = InRange(db, u, from, to)
BY DEF Mem!InPeriod, Pg!Selected, Pg!RequestsOf, InRange, Mem!Has, Pg!Has, Has, Mem!NoRow, Pg!NoRow,
       NoRow

LEMMA StatsAgree ==
  ASSUME NEW db \in Database, NEW u, NEW from, NEW to
  PROVE  Mem!GetStats(db, u, from, to) = Pg!GetStats(db, u, from, to)
<1> DEFINE S == InRange(db, u, from, to)
<1>1. S \in SUBSET Requests /\ \A r \in S : db.requests[r] \in RequestRow
  BY Tables DEF InRange, Has
<1>2. {db.requests[r].batch : r \in S} \ {Null} = {b \in Batches : \E r \in S : db.requests[r].batch = b}
  <2>1. \A r \in S : db.requests[r].batch \in Batches \cup {Null}
    BY <1>1 DEF RequestRow
  <2>2. Null \notin Batches
    BY RowAssumption DEF Null
  <2>3. QED
    BY <2>1, <2>2
<1>3. Mem!Tokens(db, S) = Pg!SumTokens(db, S)
  BY <1>1, TokensAgree
<1> HIDE DEF S
<1>4. Mem!InPeriod(db, u, from, to) = S /\ Pg!Selected(db, u, from, to) = S
  BY Ranges DEF S
<1>5. Mem!GetStats(db, u, from, to) =
        [totalRequests     |-> Cardinality(S),
         succeededRequests |-> Cardinality({r \in S : db.requests[r].status \in {"succeeded"}}),
         failedRequests    |-> Cardinality({r \in S : db.requests[r].status \in {"failed", "failed_final"}}),
         totalTokens       |-> Mem!Tokens(db, S),
         totalBatches      |-> Cardinality({db.requests[r].batch : r \in S} \ {Null})]
  BY <1>4, Counted DEF Mem!GetStats, Mem!Null, Null
<1>6. Pg!GetStats(db, u, from, to) =
        [totalRequests     |-> Cardinality(S),
         succeededRequests |-> Cardinality({r \in S : db.requests[r].status \in {"succeeded"}}),
         failedRequests    |-> Cardinality({r \in S : db.requests[r].status \in {"failed", "failed_final"}}),
         totalTokens       |-> Pg!SumTokens(db, S),
         totalBatches      |-> Cardinality({b \in Batches : \E r \in S : db.requests[r].batch = b})]
  BY <1>4, Counted DEF Pg!GetStats
<1>7. QED
  BY <1>2, <1>3, <1>5, <1>6

LEMMA CostsAgree ==
  ASSUME NEW db \in Database, NEW u, NEW from, NEW to
  PROVE  Mem!CostBreakdown(db, u, from, to) = Pg!CostBreakdown(db, u, from, to)
<1> DEFINE S        == InRange(db, u, from, to)
           Group(m) == {r \in S : ModelOf[r] = m}
           v        == [r \in Requests |-> IF db.results[r] = <<>> THEN 0
                                          ELSE db.results[r][Len(db.results[r])].tokens]
           row(m)   == [model |-> m, requestCount |-> Cardinality(Group(m)),
                        tokens |-> Total(TokensOf(db), Group(m))]
<1>1. S \in SUBSET Requests
  BY DEF InRange
<1>2. v = TokensOf(db)
  BY InSlot DEF TokensOf
<1>3. \A m : Group(m) \in SUBSET Requests
  BY <1>1
<1>4. \A m : Pg!SumTokens(db, Group(m)) = Total(TokensOf(db), Group(m))
  BY <1>3, TokensAgree
<1>5. \A m : Mem!Sum(v, Group(m)) = Total(TokensOf(db), Group(m))
  <2> TAKE m
  <2> HIDE DEF v, Group
  <2>1. IsFiniteSet(Group(m)) /\ \A r \in Group(m) : TokensOf(db)[r] \in Nat
    BY <1>3, FiniteRows, FS_Subset, TokensType
  <2>2. QED
    BY <1>2, <2>1, MemSum
<1>6. {ModelOf[r] : r \in S} = {k \in Models : Group(k) # {}}
  BY <1>1, RowAssumption
<1>7. Mem!InPeriod(db, u, from, to) = S /\ Pg!Selected(db, u, from, to) = S
  BY Ranges
<1> HIDE DEF S, v
<1>8. Mem!CostBreakdown(db, u, from, to) =
        {[model |-> m, requestCount |-> Cardinality(Group(m)), tokens |-> Mem!Sum(v, Group(m))] :
           m \in {ModelOf[r] : r \in S}}
  BY <1>7, Counted DEF Mem!CostBreakdown, v
<1>9. Pg!CostBreakdown(db, u, from, to) =
        {[model |-> m, requestCount |-> Cardinality(Group(m)), tokens |-> Pg!SumTokens(db, Group(m))] :
           m \in {k \in Models : Group(k) # {}}}
  BY <1>7, Counted DEF Pg!CostBreakdown
<1> HIDE DEF Group
<1>10. QED
  BY <1>4, <1>5, <1>6, <1>8, <1>9

LEMMA DetailedStatsAgree ==
  ASSUME NEW db \in Database, NEW u, NEW from, NEW to
  PROVE  Mem!GetDetailedStats(db, u, from, to) = Pg!GetDetailedStats(db, u, from, to)
<1>1. Mem!Turnarounds(db, u, from, to) = Pg!Turnarounds(db, u, from, to)
  <2> DEFINE S == InRange(db, u, from, to)
  <2>1. Mem!InPeriod(db, u, from, to) = S /\ Pg!Selected(db, u, from, to) = S
    BY Ranges
  <2> HIDE DEF S
  <2>2. QED
    BY <2>1 DEF Mem!Turnarounds, Pg!Turnarounds, Mem!Has, Pg!Has, Mem!NoRow, Pg!NoRow, Mem!Null, Pg!Null
<1>2. QED
  BY <1>1, StatsAgree, CostsAgree DEF Mem!GetDetailedStats, Pg!GetDetailedStats

LEMMA WindowsAgree ==
  ASSUME NEW db \in Database, NEW u, NEW start
  PROVE  Mem!GetSlidingWindow(db, u, start) = Pg!GetSlidingWindow(db, u, start)
<1> DEFINE ended == {b \in Batches :
                       /\ Has(db.batches, b)
                       /\ db.batches[b].endedAt # Null /\ db.batches[b].endedAt >= start
                       /\ \E r \in Requests : /\ UserOf[r] = u /\ Has(db.requests, r)
                                              /\ db.requests[r].batch = b}
           good == {b \in ended : db.batches[b].status = "ended" /\ db.batches[b].failedCount = 0}
           bad  == {b \in ended : /\ db.batches[b].status \in {"ended", "failed", "expired"}
                                 /\ \/ db.batches[b].failedCount > 0
                                    \/ db.batches[b].status \in {"failed", "expired"}}
<1>1. {b \in ended \ good : db.batches[b].status \in {"ended", "failed", "expired"}} = bad
  <2>1. \A b \in ended : db.batches[b].failedCount \in Nat
    BY Tables DEF Has, BatchRow
  <2> HIDE DEF ended
  <2>2. QED
    BY <2>1
<1>2. {b \in Batches : /\ Mem!Has(db.batches, b)
                      /\ \E r \in Mem!GetRequestsByBatchId(db, b) : UserOf[r] = u
                      /\ db.batches[b].endedAt # Mem!Null
                      /\ db.batches[b].endedAt >= start} = ended
  BY DEF Mem!Has, Has, Mem!NoRow, NoRow, Mem!Null, Null, Mem!GetRequestsByBatchId
<1>3. {b \in Batches : /\ Pg!Has(db.batches, b)
                      /\ db.batches[b].endedAt # Pg!Null /\ db.batches[b].endedAt >= start
                      /\ \E r \in Pg!RequestsOf({u}) :
                           Pg!Has(db.requests, r) /\ db.requests[r].batch = b} = ended
  BY DEF Pg!Has, Has, Pg!NoRow, NoRow, Pg!Null, Null, Pg!RequestsOf
<1> HIDE DEF ended
<1>4. Mem!GetSlidingWindow(db, u, start) = [succeeded |-> Cardinality(good), failed |-> Cardinality(bad)]
  BY <1>1, <1>2, Counted DEF Mem!GetSlidingWindow
<1>5. Pg!GetSlidingWindow(db, u, start) = [succeeded |-> Cardinality(good), failed |-> Cardinality(bad)]
  BY <1>3, Counted DEF Pg!GetSlidingWindow
<1>6. QED
  BY <1>4, <1>5

\* Before a call on which they part, the two stores give the same answers: rows
\* and their order, the totals of the dashboards, the counts of the scrubs.  Of
\* findApiKeyId this is said only for a user without a key of the provider.
THEOREM AnswersAlwaysAgree == Spec => []AnswersAgree
<1>1. StoreInv => AnswersAgree
  <2> SUFFICES ASSUME StoreInv, ~parted PROVE AnswersAgree
    BY DEF AnswersAgree
  <2>1. mem = pg /\ pg \in Database
    BY DEF StoreInv, StoreTypeOK, RowsAgree
  <2>2. \A before \in Cutoffs :
          Mem!ScrubExpiredContent(pg, before).count = Pg!ScrubExpiredContent(pg, before).count
    BY <2>1, ScrubExpiredAgrees
  <2>3. \A u \in Users : \A before \in Cutoffs :
          Mem!ScrubContentForUser(pg, u, before).count = Pg!ScrubContentForUser(pg, u, before).count
    BY <2>1, ScrubContentAgrees
  <2>4. \A u \in Users : Contested(u) = {} =>
          Mem!ScrubDeliveredContent(pg, u).count = Pg!ScrubDeliveredContent(pg, u).count
    BY <2>1, DeliveredScrubsAgree
  <2>5. /\ \A u \in Users :
             Mem!ScrubEventLogForUser(pg, u).count = Pg!ScrubEventLogForUser(pg, u).count
        /\ Mem!ScrubEventLogsForScrubbedContent(pg).count
             = Pg!ScrubEventLogsForScrubbedContent(pg).count
    BY <2>1, ScrubEventsAgree
  <2>6. \A u \in Users : \A n \in 1..2, limit \in 0..MaxCount :
          Mem!ConsumePeriodRequests(pg, u, n, limit).count
            = Pg!ConsumePeriodRequests(pg, u, n, limit).count
    <3>1. \A n \in 1..2 : n \in Nat
      OBVIOUS
    <3>2. \A limit \in 0..MaxCount : limit \in Nat
      BY DEF MaxCount
    <3>3. QED
      BY <2>1, <3>1, <3>2, ConsumeAgrees
  <2>7. \A u \in Users :
          /\ \A from, to \in 1..MaxTime :
               Mem!GetDetailedStats(pg, u, from, to) = Pg!GetDetailedStats(pg, u, from, to)
          /\ \A start \in 1..MaxTime :
               Mem!GetSlidingWindow(pg, u, start) = Pg!GetSlidingWindow(pg, u, start)
    BY <2>1, DetailedStatsAgree, WindowsAgree
  <2>8. Mem!GetDistinctUserIdsWithUnscrubbedContent(pg)
          = Pg!GetDistinctUserIdsWithUnscrubbedContent(pg)
    BY <2>1, UsersAgree
  <2>9. QED
    <3>1. /\ \A n \in 1..2 :
               /\ Mem!GetQueuedRequests(pg, n) = Pg!GetQueuedRequests(pg, n)
               /\ Mem!GetUndeliveredResults(pg, n) = Pg!GetUndeliveredResults(pg, n)
          /\ Mem!GetPendingBatches(pg) = Pg!GetPendingBatches(pg)
          /\ Mem!GetInFlightBatches(pg) = Pg!GetInFlightBatches(pg)
          /\ \A b \in Batches : Mem!GetRequestsByBatchId(pg, b) = Pg!GetRequestsByBatchId(pg, b)
          /\ \A p \in Providers \cup {Undefined} :
               Mem!ListProviderCatalog(pg, p) = Pg!ListProviderCatalog(pg, p)
          /\ \A m \in Models :
               Mem!GetProviderCatalogEntry(pg, m) = Pg!GetProviderCatalogEntry(pg, m)
      BY <2>1, QueriesAgree
    <3>2. \A u \in Users, p \in Providers :
            (\A k \in keys : KeyOwner[k] # <<u, p>>) =>
              Mem!FindApiKeyId(u, p) = Pg!FindApiKeyId(keys, u, p)
      BY DEF Mem!FindApiKeyId, Pg!FindApiKeyId, Mem!NoKey, Pg!NoKey
    <3>3. QED
      BY <2>1, <2>2, <2>3, <2>4, <2>5, <2>6, <2>7, <2>8, <3>1, <3>2, Zenon DEF AnswersAgree
<1>2. QED
  BY <1>1, StoreInvariant, PTL
=============================================================================
