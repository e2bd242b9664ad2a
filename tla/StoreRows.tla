------------------------------ MODULE StoreRows ------------------------------
(***************************************************************************)
(* core/src/types.ts: the rows both implementations of the Store interface *)
(* keep.  A database is a record of tables; a missing row is NoRow.        *)
(*                                                                         *)
(* What is kept of a row is what some query or constraint of a store       *)
(* reads.  createdAt is a time; `scrubbed` stands for content_scrubbed_at  *)
(* and for the content, which is the tombstone exactly when the date is    *)
(* set; `submitted` says that submittedAt is set; `maxRequests` stands for *)
(* the two integer limits.  Money is counted in fractions of a cent.       *)
(***************************************************************************)
EXTENDS Naturals, FiniteSets, Sequences, TLC

CONSTANTS
  Requests,    \* ids of the requests that may be created; ids grow with time
  UserOf,      \* the user of each request
  Models,      \* <<provider, model>>; providers are numbered by their names
  ModelOf,     \* the provider and model of each request
  Batches,     \* ids of the batches that may be created
  Keys,        \* ids of the API keys that may be stored
  KeyOwner,    \* <<user, provider>> of each key
  KeyRank,     \* place of each key by priority, then by age
  Entities,    \* <<type, request>> of the events that may be logged
  MaxTime,     \* the clock runs from 1 to MaxTime
  Undefined,   \* a limit the caller leaves alone
  Unlimited    \* a limit that is NULL

ASSUME RowAssumption ==
  /\ Requests \subseteq Nat \ {0} /\ IsFiniteSet(Requests)
  /\ Batches \subseteq Nat \ {0}
  /\ DOMAIN UserOf = Requests
  /\ ModelOf \in [Requests -> Models]
  /\ \A m \in Models : m[1] \in Nat
  /\ KeyRank \in [Keys -> Nat]
  /\ Entities \subseteq {"request", "result"} \X Requests
  /\ MaxTime \in Nat \ {0}

Users     == {UserOf[r] : r \in Requests}
Providers == {m[1] : m \in Models}

Null  == 0                 \* a NULL id or date
NoKey == "none"            \* a NULL key
NoRow == [row |-> "none"]
Cent  == 4                 \* a cent, in the fractions that are counted

\* Statuses that end a request's content: those a scrub looks for.
Finished == {"succeeded", "failed", "failed_final"}

NewRequest(r, now) ==
  [status |-> "queued", batch |-> Null, scrubbed |-> FALSE, createdAt |-> now]

NewBatch(key) ==
  [status |-> "pending", apiKey |-> key, failedCount |-> 0, submitted |-> FALSE,
   endedAt |-> Null]

NewResult(now, tokens) ==
  [tokens |-> tokens, delivery |-> "pending", scrubbed |-> FALSE, createdAt |-> now]

NewLimits(maxRequests, hardSpend, resetAt) ==
  [maxRequests |-> maxRequests, hardSpend |-> hardSpend,
   requests |-> 0, tokens |-> 0, spend |-> 0, resetAt |-> resetAt]

\* A database: for each request the rows of results that name it, in order
\* of creation, and for each entity the details of its event.
EmptyDb ==
  [requests |-> [r \in Requests |-> NoRow],
   batches  |-> [b \in Batches |-> NoRow],
   results  |-> [r \in Requests |-> <<>>],
   events   |-> [e \in Entities |-> "none"],
   limits   |-> [u \in Users |-> NoRow],
   catalog  |-> [m \in Models |-> NoRow]]

Has(table, id) == table[id] # NoRow

\* Partial<Row>: the fields of `updates` replace those of the row.
Update(row, updates) ==
  [field \in DOMAIN row \cup DOMAIN updates |->
     IF field \in DOMAIN updates THEN updates[field] ELSE row[field]]

\* ORDER BY created_at ASC LIMIT n: what may be among the first n, where rows of
\* one time come in any order.
Oldest(S, createdAt, n) ==
  {x \in S : Cardinality({y \in S : createdAt[y] < createdAt[x]}) < n}

\* All (request, position) pairs that name a row of results.
ResultIds(db) == {id \in Requests \X (1..2) : id[2] <= Len(db.results[id[1]])}

ResultRow(db, id) == db.results[id[1]][id[2]]

\* The sum of f over a finite set.
Sum(f, S) == LET sum[T \in SUBSET S] ==
                   IF T = {} THEN 0
                   ELSE LET x == CHOOSE y \in T : TRUE IN f[x] + sum[T \ {x}]
             IN sum[S]

\* The tables with the content of the given requests and results scrubbed.
ScrubRequests(db, S) ==
  [db EXCEPT !.requests =
     [r \in Requests |-> IF r \in S THEN Update(@[r], [scrubbed |-> TRUE]) ELSE @[r]]]

ScrubResults(db, S) ==
  [db EXCEPT !.results =
     [r \in Requests |->
        [i \in DOMAIN @[r] |->
           IF <<r, i>> \in S THEN Update(@[r][i], [scrubbed |-> TRUE]) ELSE @[r][i]]]]
=============================================================================
