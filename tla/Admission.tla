------------------------------ MODULE Admission ------------------------------
(***************************************************************************)
(* POST /api/v1/requests: how calls of one user, concurrent in the web     *)
(* process, pass the rate limiter (core/src/rate-limit) and enter the      *)
(* request queue.  A step ends at each await.  The limits a call decides   *)
(* on are those it read; others consume, reset the period, record usage    *)
(* and change the limits meanwhile.                                        *)
(***************************************************************************)
EXTENDS RequestQueue

CONSTANTS
  Calls,          \* calls of the endpoint
  ChatItems,      \* requests sent from the chat, which no limit meters
  LimitSettings,  \* [maxRequests, maxTokens, hardSpend] a user may save
  MaxLimit,       \* no maxRequests among them is larger
  Windows,        \* <<succeeded, total>> batches of the last hour
  MaxTime,        \* the clock runs from 1 to MaxTime; a period lasts 1
  MaxTokens,      \* bound on the tokens (and the spend) recorded
  Unlimited,      \* a limit that is null
  NoRow           \* the user has no row in user_limits

\* the rows of user_limits
UserLimits ==
  [maxRequests : {Unlimited} \cup 1..MaxLimit,
   maxTokens : {Unlimited} \cup (Nat \ {0}), hardSpend : {Unlimited} \cup Nat,
   requests : 0..MaxLimit, tokens : Nat, spend : Nat, resetAt : Nat]

ASSUME AdmissionAssumption ==
  /\ Items = (Calls \X (1..2)) \cup ChatItems
  /\ Calls \cap ChatItems = {}
  /\ {Timer, FlushApi, NoOne} \cap (Calls \cup ChatItems) = {}
  /\ MaxLimit \in Nat \ {0}
  /\ \A s \in LimitSettings :
       /\ s.maxRequests \in {Unlimited} \cup 1..MaxLimit
       /\ s.maxTokens \in {Unlimited} \cup (Nat \ {0})
       /\ s.hardSpend \in {Unlimited} \cup Nat
  /\ Unlimited \notin Nat
  /\ NoRow \notin UserLimits
  /\ \A w \in Windows : w[1] \in Nat /\ w[2] \in Nat /\ w[1] <= w[2]
  /\ MaxTime \in Nat \ {0} /\ MaxTokens \in Nat

VARIABLES
  limits,     \* the row of user_limits, or NoRow
  now,        \* the clock of the process and of the database
  call,       \* each call: where it is and what it has read
  chat,       \* chat requests: "unsent", "store", "count", "flush", "sent"
  metered,    \* requests stored on consumed capacity
  since,      \* periods of the row up to now are at most now - since
  rivals      \* calls some other call has consumed capacity during

admissionVars == <<limits, now, call, chat, metered, since, rivals>>
vars == <<admissionVars, queueVars>>

Row(setting, requests, resetAt) ==
  [maxRequests |-> setting.maxRequests, maxTokens |-> setting.maxTokens,
   hardSpend |-> setting.hardSpend,
   requests |-> requests, tokens |-> 0, spend |-> 0, resetAt |-> resetAt]

Idle == [pc |-> "idle", n |-> 0, seen |-> NoRow, window |-> <<0, 0>>,
         reason |-> "none", expired |-> FALSE, at |-> 0, effective |-> Unlimited, item |-> 0]

\* The row's first period ends at time 2 and all of its requests are used up.
Init ==
  /\ QueueInit
  /\ limits \in {NoRow} \cup {Row(s, MaxLimit, 2) : s \in LimitSettings}
  /\ now = 1
  /\ call = [c \in Calls |-> Idle]
  /\ chat = [i \in ChatItems |-> "unsent"]
  /\ metered = 0
  /\ since = 1
  /\ rivals = {}

Goto(c, pc) == call' = [call EXCEPT ![c].pc = pc]

-----------------------------------------------------------------------------
(* The rate limiter *)

\* computeHealth: the factor in hundredths; succeeded / total is compared
\* with 0.9 and 0.5
HealthFactor(w) ==
  CASE w[2] = 0 \/ 10 * w[1] >= 9 * w[2]          -> 100
    [] w[2] > 0 /\ 10 * w[1] < 9 * w[2] /\ 2 * w[1] >= w[2] -> 50
    [] w[1] > 0 /\ 2 * w[1] < w[2]                -> 25
    [] w[1] = 0 /\ w[2] > 0                       -> 10

\* mutant: without the minimum of one request per period
EffectiveLimit_NoMinimum(base, w) == (base * HealthFactor(w)) \div 100

\* computeEffectiveLimit
EffectiveLimit(base, w) ==
  LET raw == (base * HealthFactor(w)) \div 100
  IN IF raw > 1 THEN raw ELSE 1

\* checkRateLimit at time t: the reason to refuse, "none" if allowed
Refusal(row, w, n, t) ==
  LET expired  == row # NoRow /\ t >= row.resetAt
      requests == IF expired THEN 0 ELSE row.requests
      tokens   == IF expired THEN 0 ELSE row.tokens
  IN CASE row = NoRow -> "none"
       [] row # NoRow /\ row.hardSpend # Unlimited /\ row.spend >= row.hardSpend -> "spend"
       [] OTHER ->
            IF row.maxRequests # Unlimited /\ requests + n > EffectiveLimit(row.maxRequests, w)
              THEN "requests"
            ELSE IF row.maxTokens # Unlimited /\ tokens >= row.maxTokens THEN "tokens"
            ELSE "none"

-----------------------------------------------------------------------------
(* POST /api/v1/requests *)

\* n valid items arrive (a call with an invalid item changes nothing), and the
\* limits and the window are read
Receive(c, n, w) ==
  /\ call[c].pc = "idle"
  /\ call' = [call EXCEPT ![c] = [Idle EXCEPT !.pc = "check", !.n = n,
                                             !.seen = limits, !.window = w]]
  /\ rivals' = rivals \ {c}
  /\ UNCHANGED <<limits, now, chat, metered, since, queueVars>>

Check(c) ==
  LET k == call[c]
      reason  == Refusal(k.seen, k.window, k.n, now)
      expired == k.seen # NoRow /\ now >= k.seen.resetAt
      metering == k.seen # NoRow /\ k.seen.maxRequests # Unlimited
      Decided == [Idle EXCEPT !.n = k.n, !.reason = reason, !.expired = expired, !.at = now]
  IN /\ k.pc = "check"
     /\ call' = [call EXCEPT ![c] =
          IF reason # "none" THEN [Decided EXCEPT !.pc = "refused"]
          ELSE IF ~metering THEN [Decided EXCEPT !.pc = "store", !.item = 1]
          ELSE [Decided EXCEPT !.pc = IF expired THEN "reset" ELSE "consume", !.item = 1,
                  !.effective = EffectiveLimit(k.seen.maxRequests, k.window)]]
     /\ UNCHANGED <<limits, now, chat, metered, since, rivals, queueVars>>

\* mutant: without WHERE period_reset_at <= now()
FreshPeriod_Unconditional(row, t) == [row EXCEPT !.requests = 0, !.tokens = 0, !.resetAt = t + 1]

\* store.resetPeriod(userId, nextPeriodReset())
FreshPeriod(row, t) ==
  IF t >= row.resetAt
    THEN [row EXCEPT !.requests = 0, !.tokens = 0, !.resetAt = t + 1]
    ELSE row

ResetPeriod(c) ==
  /\ call[c].pc = "reset"
  /\ limits' = FreshPeriod(limits, now)
  /\ Goto(c, "consume")
  /\ UNCHANGED <<now, chat, metered, since, rivals, queueVars>>

\* store.consumePeriodRequests, one UPDATE
Consume(c) ==
  LET k == call[c]
      fits == limits.requests + k.n <= k.effective
  IN /\ k.pc = "consume"
     /\ limits' = IF fits THEN [limits EXCEPT !.requests = @ + k.n] ELSE limits
     /\ rivals' = IF fits THEN rivals \cup (Calls \ {c}) ELSE rivals
     /\ call' = [call EXCEPT ![c].pc = IF fits THEN "store" ELSE "refused",
                             ![c].reason = IF fits THEN "none" ELSE "requests"]
     /\ UNCHANGED <<now, chat, metered, since, queueVars>>

\* engine.enqueue of the next item: the row, then the counters
Store(c) ==
  /\ call[c].pc = "store"
  /\ StoreItem(<<c, call[c].item>>)
  /\ metered' = IF call[c].effective = Unlimited THEN metered ELSE metered + 1
  /\ Goto(c, "count")
  /\ UNCHANGED <<limits, now, chat, since, rivals>>

\* createRequest throws: the capacity consumed is not given back
StoreFails(c) ==
  /\ call[c].pc = "store"
  /\ Goto(c, "failed")
  /\ UNCHANGED <<limits, now, chat, metered, since, rivals, queueVars>>

NextItem(k) ==
  IF k.item < k.n THEN [k EXCEPT !.pc = "store", !.item = @ + 1]
  ELSE [k EXCEPT !.pc = "created"]

Count(c) ==
  /\ call[c].pc = "count"
  /\ CountItem(<<c, call[c].item>>, c)
  /\ call' = [call EXCEPT ![c] = IF flusher' = c THEN [@ EXCEPT !.pc = "flush"]
                                 ELSE NextItem(@)]
  /\ UNCHANGED <<limits, now, chat, metered, since, rivals>>

-----------------------------------------------------------------------------
(* The chat enqueues without a look at the limits (api/messages) *)

ChatStore(i) ==
  /\ chat[i] = "unsent"
  /\ StoreItem(i)
  /\ chat' = [chat EXCEPT ![i] = "count"]
  /\ UNCHANGED <<limits, now, call, metered, since, rivals>>

ChatCount(i) ==
  /\ chat[i] = "count"
  /\ CountItem(i, i)
  /\ chat' = [chat EXCEPT ![i] = IF flusher' = i THEN "flush" ELSE "sent"]
  /\ UNCHANGED <<limits, now, call, metered, since, rivals>>

-----------------------------------------------------------------------------
(* The flush, for those who wait for it *)

\* who triggered the flush goes on, or answers 500 although its row is stored
Resume(ok) ==
  /\ call' = [c \in Calls |->
       IF flusher # c THEN call[c]
       ELSE IF ok THEN NextItem(call[c])
       ELSE [call[c] EXCEPT !.pc = "failed"]]
  /\ chat' = [i \in ChatItems |-> IF flusher = i THEN "sent" ELSE chat[i]]
  /\ UNCHANGED <<limits, now, metered, since, rivals>>

Flush ==
  \/ \E who \in {Timer, FlushApi} : TriggerFlush(who) /\ UNCHANGED admissionVars
  \/ ~started /\ StartTimer /\ UNCHANGED admissionVars
  \/ StopTimer /\ UNCHANGED admissionVars
  \/ FlushReads /\ UNCHANGED admissionVars
  \/ FlushReturns /\ Resume(TRUE)
  \/ FlushThrows /\ Resume(FALSE)

-----------------------------------------------------------------------------
(* Usage and settings *)

\* updateUsageCounters: each counter is incremented, or its increment lost
Ingest(tokens, spend) ==
  /\ limits # NoRow
  /\ tokens + spend > 0
  /\ limits.tokens + tokens <= MaxTokens /\ limits.spend + spend <= MaxTokens
  /\ limits' = [limits EXCEPT !.tokens = @ + tokens, !.spend = @ + spend]
  /\ UNCHANGED <<now, call, chat, metered, since, rivals, queueVars>>

\* the settings page; a new row's period ends an hour from now
UpdateLimits(s) ==
  /\ limits' = IF limits = NoRow THEN Row(s, 0, now + 1)
               ELSE [limits EXCEPT !.maxRequests = s.maxRequests,
                                   !.maxTokens = s.maxTokens, !.hardSpend = s.hardSpend]
  /\ since' = IF limits = NoRow THEN now - 1 ELSE since
  /\ UNCHANGED <<now, call, chat, metered, rivals, queueVars>>

Clock ==
  /\ now < MaxTime
  /\ now' = now + 1
  /\ UNCHANGED <<limits, call, chat, metered, since, rivals, queueVars>>

Next ==
  \/ \E c \in Calls :
       \/ \E n \in 1..2, w \in Windows : Receive(c, n, w)
       \/ Check(c) \/ ResetPeriod(c) \/ Consume(c)
       \/ Store(c) \/ StoreFails(c) \/ Count(c)
  \/ \E i \in ChatItems : ChatStore(i) \/ ChatCount(i)
  \/ Flush
  \/ \E tokens, spend \in 0..1 : Ingest(tokens, spend)
  \/ \E s \in LimitSettings : UpdateLimits(s)
  \/ Clock

Spec == Init /\ [][Next]_vars

-----------------------------------------------------------------------------
(* Properties *)

\* The quota holds across concurrent calls: whoever checks on a stale row,
\* and however many calls find the period expired at once, no more requests
\* are stored on the user's quota than the largest limit allows in each of the
\* periods that have begun.
QuotaHolds == metered <= MaxLimit * (now - since)

\* "Guarantees a minimum throughput of 1 request per period even at critical
\* health" (health.ts): a call of one item that finds the period expired is
\* refused by the request limit only if another call has taken capacity
\* since it read the row.
MinimumThroughput ==
  \A c \in Calls :
    /\ call[c].pc = "refused" /\ call[c].reason = "requests"
    /\ call[c].n = 1 /\ call[c].expired
    => c \in rivals

\* the callers that have stored a row and not counted it yet
Uncounted == {c \in Calls : call[c].pc = "count"} \cup {i \in ChatItems : chat[i] = "count"}

\* Requests that arrive while a flush runs, or whose flush throws, stay
\* counted towards the next trigger: between flushes, no row that waits for
\* its first flush is missing in pendingCount, unless the last flush has read
\* a full page and left the rest behind.
WaitingIsCounted ==
  ~flushing /\ ~fullPage =>
    Cardinality(queued \ flushed) <= pendingCount + Cardinality(Uncounted)

\* "When `periodExpired` is true the caller must invoke store.resetPeriod
\* before incrementing counters so the period resets for subsequent requests"
\* (limiter.ts): whatever is admitted on an expired period is stored in a
\* period that has been reset.
ExpiredPeriodIsReset ==
  \A c \in Calls :
    call[c].pc = "created" /\ call[c].expired => limits.resetAt > call[c].at
=============================================================================
