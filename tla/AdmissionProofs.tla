--------------------------- MODULE AdmissionProofs ---------------------------
(***************************************************************************)
(* Theorems about Admission: the quota holds for any number of concurrent  *)
(* calls, limits and periods (QuotaInv), a call of one item is refused on  *)
(* an expired period only because of another call (FreshInv), and every    *)
(* row that waits for its first flush is counted (CountInv).               *)
(***************************************************************************)
EXTENDS Admission, FiniteSetTheorems, TLAPS

Phase == {"idle", "check", "reset", "consume", "store", "count", "flush", "created",
          "refused", "failed"}
Reason == {"none", "spend", "requests", "tokens"}

CallStates ==
  [pc : Phase,
   n : 0..2, seen : UserLimits \cup {NoRow}, window : Windows \cup {<<0, 0>>},
   reason : Reason, expired : BOOLEAN, at : Nat,
   effective : {Unlimited} \cup 1..MaxLimit, item : 0..2]

LimiterTypeOK ==
  /\ limits \in UserLimits \cup {NoRow}
  /\ now \in Nat \ {0}
  /\ call \in [Calls -> CallStates]
  /\ metered \in Nat
  /\ since \in Nat /\ since <= now
  /\ rivals \subseteq Calls

\* The counters are numbers, and a chat request that triggered a flush waits.
QueueInv ==
  /\ chat \in [ChatItems -> {"unsent", "count", "flush", "sent"}]
  /\ \A i \in ChatItems : flusher = i => chat[i] = "flush"
  /\ IsFiniteSet(queued)
  /\ pendingCount \in Nat /\ snapshot.count \in Nat

\* What a call knows in each phase: while it stores its items, which of them
\* is next; before, no capacity.
Phases ==
  \A c \in Calls :
    /\ call[c].pc # "idle" => call[c].n \in 1..2
    /\ call[c].pc \in {"store", "count", "flush"} => call[c].item \in 1..call[c].n
    /\ call[c].pc \in {"reset", "consume"} => call[c].effective # Unlimited /\ call[c].item = 1
    /\ flusher = c => call[c].pc = "flush"

\* Without a row nothing has been metered, and nobody has read one.
NothingBefore ==
  limits = NoRow =>
    /\ metered = 0
    /\ \A c \in Calls : call[c].effective = Unlimited /\ call[c].seen = NoRow

Basics == LimiterTypeOK /\ Phases /\ NothingBefore

-----------------------------------------------------------------------------
(* The quota *)

\* The item c has consumed capacity for and has not stored.
Held(k, i) ==
  /\ k.effective # Unlimited
  /\ \/ k.pc = "store" /\ k.item <= i
     \/ k.pc \in {"count", "flush"} /\ k.item < i
  /\ i <= k.n

Outstanding == {p \in Calls \X (1..2) : Held(call[p[1]], p[2])}

Quota(periods) == MaxLimit * periods

\* What is stored and what may still be stored on consumed capacity fits in the
\* periods before the row's and in what the row counts.
QuotaInv ==
  /\ IsFiniteSet(Outstanding)
  /\ limits # NoRow =>
       /\ since + 1 <= limits.resetAt /\ limits.resetAt <= now + 1
       /\ metered + Cardinality(Outstanding) + MaxLimit
            <= Quota(limits.resetAt - 1 - since) + limits.requests

-----------------------------------------------------------------------------
(* The minimum throughput *)

\* As long as no other call takes capacity, a call that has seen the period
\* expire finds it expired or empty at each of its steps.
Fresh(c) ==
  /\ call[c].pc = "check" /\ call[c].seen # NoRow =>
       limits.requests = 0 \/ limits.resetAt = call[c].seen.resetAt
  /\ call[c].pc = "reset" => limits.requests = 0 \/ limits.resetAt <= now
  /\ call[c].pc = "consume" /\ call[c].expired => limits.requests = 0
  /\ ~ (/\ call[c].pc = "refused" /\ call[c].reason = "requests"
        /\ call[c].n = 1 /\ call[c].expired)

FreshInv == \A c \in Calls : c \notin rivals => Fresh(c)

-----------------------------------------------------------------------------
(* The requests that wait *)

Waiting == queued \ flushed

\* While a flush runs, what was counted before it stays counted; what it has
\* read without filling its page was all there was.
CountInv ==
  /\ IsFiniteSet(Uncounted)
  /\ ~fullPage => Cardinality(Waiting) <= pendingCount + Cardinality(Uncounted)
  /\ flushing => snapshot.count <= pendingCount
  /\ flushing /\ taken # NotRead =>
       /\ Cardinality(taken) \in Nat /\ Cardinality(taken) <= MaxRequests
       /\ Cardinality(taken) < MaxRequests =>
            Cardinality(queued \ taken)
              <= pendingCount - snapshot.count + Cardinality(Uncounted)

-----------------------------------------------------------------------------
(* The operators *)

LEMMA FactorRange ==
  ASSUME NEW w \in Windows \cup {<<0, 0>>}
  PROVE  HealthFactor(w) \in {10, 25, 50, 100}
<1>1. w[1] \in Nat /\ w[2] \in Nat /\ w[1] <= w[2]
  BY AdmissionAssumption
<1>2. QED
  BY <1>1 DEF HealthFactor

\* computeEffectiveLimit neither raises a limit nor takes its last request.
LEMMA EffectiveBounds ==
  ASSUME NEW base \in 1..MaxLimit, NEW w \in Windows \cup {<<0, 0>>}
  PROVE  EffectiveLimit(base, w) \in 1..MaxLimit
<1>0. MaxLimit \in Nat
  BY AdmissionAssumption
<1>1. CASE HealthFactor(w) = 10
  BY <1>0, <1>1 DEF EffectiveLimit
<1>2. CASE HealthFactor(w) = 25
  BY <1>0, <1>2 DEF EffectiveLimit
<1>3. CASE HealthFactor(w) = 50
  BY <1>0, <1>3 DEF EffectiveLimit
<1>4. CASE HealthFactor(w) = 100
  BY <1>0, <1>4 DEF EffectiveLimit
<1>5. QED
  BY <1>1, <1>2, <1>3, <1>4, FactorRange

LEMMA RefusalReasons ==
  ASSUME NEW row, NEW w, NEW n, NEW t
  PROVE  Refusal(row, w, n, t) \in Reason
BY DEF Refusal, Reason

\* A refusal for the number of requests compares with the effective limit.
LEMMA RequestRefusal ==
  ASSUME NEW row, NEW w, NEW n, NEW t, Refusal(row, w, n, t) = "requests"
  PROVE  /\ row # NoRow /\ row.maxRequests # Unlimited
         /\ (IF t >= row.resetAt THEN 0 ELSE row.requests) + n
              > EffectiveLimit(row.maxRequests, w)
BY DEF Refusal

LEMMA RowKept ==
  ASSUME NEW s \in LimitSettings, NEW requests \in 0..MaxLimit, NEW resetAt \in Nat
  PROVE  Row(s, requests, resetAt) \in UserLimits
BY AdmissionAssumption DEF Row, UserLimits

-----------------------------------------------------------------------------
(* One caller's step *)

\* What a step of c leaves as it was, given the new state of its call.
LEMMA OneCall ==
  ASSUME LimiterTypeOK, NEW c \in Calls, NEW k \in CallStates,
         call' = [call EXCEPT ![c] = k]
  PROVE  /\ call' \in [Calls -> CallStates]
         /\ call'[c] = k
         /\ \A d \in Calls \ {c} : call'[d] = call[d]
BY DEF LimiterTypeOK

LEMMA IdleCall == Idle \in CallStates
BY DEF Idle, CallStates, Phase, Reason

LEMMA Fields ==
  ASSUME NEW k \in CallStates
  PROVE  /\ \A x \in Phase : [k EXCEPT !.pc = x] \in CallStates
         /\ \A x \in 0..2 : [k EXCEPT !.n = x] \in CallStates
         /\ \A x \in UserLimits \cup {NoRow} : [k EXCEPT !.seen = x] \in CallStates
         /\ \A x \in Windows : [k EXCEPT !.window = x] \in CallStates
         /\ \A x \in Reason : [k EXCEPT !.reason = x] \in CallStates
         /\ \A x \in BOOLEAN : [k EXCEPT !.expired = x] \in CallStates
         /\ \A x \in Nat : [k EXCEPT !.at = x] \in CallStates
         /\ \A x \in 1..MaxLimit : [k EXCEPT !.effective = x] \in CallStates
         /\ \A x \in 0..2 : [k EXCEPT !.item = x] \in CallStates
BY DEF CallStates

\* What the call of c is after each of its steps.
LEMMA ReceiveEffect ==
  ASSUME LimiterTypeOK, NEW c \in Calls, NEW n \in 1..2, NEW w \in Windows, Receive(c, n, w)
  PROVE  \E k \in CallStates :
           /\ call' = [call EXCEPT ![c] = k]
           /\ k.pc = "check" /\ k.n = n /\ k.seen = limits /\ k.window = w
           /\ k.effective = Unlimited
<1> DEFINE k == [Idle EXCEPT !.pc = "check", !.n = n, !.seen = limits, !.window = w]
<1>1. k \in CallStates
  <2> DEFINE k1 == [Idle EXCEPT !.pc = "check"]
             k2 == [k1 EXCEPT !.n = n]
             k3 == [k2 EXCEPT !.seen = limits]
  <2>1. k1 \in CallStates
    BY IdleCall, Fields DEF Phase
  <2>2. k2 \in CallStates
    <3> HIDE DEF k1
    <3>1. n \in 0..2
      OBVIOUS
    <3> QED
      BY <2>1, <3>1, Fields
  <2>3. k3 \in CallStates
    <3> HIDE DEF k2
    <3> QED
      BY <2>2, Fields DEF LimiterTypeOK
  <2>4. [k3 EXCEPT !.window = w] \in CallStates
    <3> HIDE DEF k3
    <3> QED
      BY <2>3, Fields
  <2>5. QED
    BY <2>4
<1>2. /\ k.pc = "check" /\ k.n = n /\ k.seen = limits /\ k.window = w
      /\ k.effective = Unlimited
  BY DEF Idle
<1>3. call' = [call EXCEPT ![c] = k]
  BY DEF Receive
<1>4. QED
  BY <1>1, <1>2, <1>3

\* The call is refused, or goes on with the limit it has computed.
LEMMA CheckEffect ==
  ASSUME LimiterTypeOK, Phases, NEW c \in Calls, Check(c)
  PROVE  \E k \in CallStates :
           /\ call' = [call EXCEPT ![c] = k]
           /\ k.n = call[c].n /\ k.seen = NoRow
           /\ k.reason = Refusal(call[c].seen, call[c].window, call[c].n, now)
           /\ k.expired = (call[c].seen # NoRow /\ now >= call[c].seen.resetAt)
           /\ \/ k.pc = "refused" /\ k.effective = Unlimited
              \/ k.pc = "store" /\ k.effective = Unlimited /\ k.item = 1
              \/ /\ k.pc = IF k.expired THEN "reset" ELSE "consume"
                 /\ k.effective # Unlimited /\ k.item = 1 /\ call[c].seen # NoRow
           /\ k.reason # "none" <=> k.pc = "refused"
<1> DEFINE row == call[c].seen
           reason == Refusal(row, call[c].window, call[c].n, now)
           expired == row # NoRow /\ now >= row.resetAt
           metering == row # NoRow /\ row.maxRequests # Unlimited
           D == [Idle EXCEPT !.n = call[c].n, !.reason = reason, !.expired = expired,
                             !.at = now]
           limit == EffectiveLimit(row.maxRequests, call[c].window)
           k == IF reason # "none" THEN [D EXCEPT !.pc = "refused"]
                ELSE IF ~metering THEN [D EXCEPT !.pc = "store", !.item = 1]
                ELSE [D EXCEPT !.pc = IF expired THEN "reset" ELSE "consume", !.item = 1,
                               !.effective = limit]
<1>0. /\ call[c] \in CallStates /\ now \in Nat
      /\ reason \in Reason
      /\ expired \in BOOLEAN
  BY RefusalReasons DEF LimiterTypeOK
<1>1. D \in CallStates
  <2> DEFINE k1 == [Idle EXCEPT !.n = call[c].n]
             k2 == [k1 EXCEPT !.reason = reason]
             k3 == [k2 EXCEPT !.expired = expired]
  <2>1. k1 \in CallStates
    <3>1. call[c].n \in 0..2
      BY <1>0 DEF CallStates
    <3>2. QED
      BY <3>1, IdleCall, Fields
  <2> HIDE DEF reason, expired
  <2>2. k2 \in CallStates
    <3> HIDE DEF k1
    <3> QED
      BY <1>0, <2>1, Fields
  <2>3. k3 \in CallStates
    <3> HIDE DEF k2
    <3> QED
      BY <1>0, <2>2, Fields
  <2>4. [k3 EXCEPT !.at = now] \in CallStates
    <3> HIDE DEF k3
    <3> QED
      BY <1>0, <2>3, Fields
  <2>5. QED
    BY <2>4
<1>2. metering => limit \in 1..MaxLimit
  BY <1>0, EffectiveBounds DEF CallStates, UserLimits
<1>3. k \in CallStates
  <2> HIDE DEF D, reason, expired, limit, metering
  <2>1. CASE reason # "none"
    BY <1>1, <2>1, Fields DEF Phase
  <2>2. CASE reason = "none" /\ ~metering
    <3> DEFINE d == [D EXCEPT !.pc = "store"]
    <3>1. d \in CallStates
      BY <1>1, Fields DEF Phase
    <3>2. [d EXCEPT !.item = 1] \in CallStates
      <4>1. 1 \in 0..2
        OBVIOUS
      <4> HIDE DEF d
      <4> QED
        BY <3>1, <4>1, Fields
    <3>3. QED
      BY <2>2, <3>2
  <2>3. CASE reason = "none" /\ metering
    <3> DEFINE pc == IF expired THEN "reset" ELSE "consume"
               d == [D EXCEPT !.pc = pc]
               e == [d EXCEPT !.item = 1]
    <3>1. d \in CallStates
      <4>1. pc \in Phase
        BY DEF Phase
      <4> HIDE DEF pc
      <4> QED
        BY <1>1, <4>1, Fields
    <3>2. e \in CallStates
      <4>1. 1 \in 0..2
        OBVIOUS
      <4> HIDE DEF d
      <4> QED
        BY <3>1, <4>1, Fields
    <3>3. [e EXCEPT !.effective = limit] \in CallStates
      <4> HIDE DEF e
      <4> QED
        BY <1>2, <2>3, <3>2, Fields
    <3>4. QED
      BY <2>3, <3>3
  <2>4. QED
    BY <2>1, <2>2, <2>3
<1>4. call' = [call EXCEPT ![c] = k]
  BY DEF Check
<1>5. /\ D.n = call[c].n /\ D.seen = NoRow /\ D.reason = reason /\ D.expired = expired
      /\ D.effective = Unlimited /\ D.pc = "idle"
      /\ DOMAIN D = {"pc", "n", "seen", "window", "reason", "expired", "at", "effective",
                     "item"}
  BY DEF Idle
<1>6. /\ k.n = call[c].n /\ k.seen = NoRow /\ k.reason = reason /\ k.expired = expired
  BY <1>1, <1>5 DEF CallStates
<1>7. metering => limit # Unlimited
  BY <1>2, AdmissionAssumption
<1>8. /\ \/ k.pc = "refused" /\ k.effective = Unlimited
         \/ k.pc = "store" /\ k.effective = Unlimited /\ k.item = 1
         \/ /\ k.pc = IF expired THEN "reset" ELSE "consume"
            /\ k.effective # Unlimited /\ k.item = 1 /\ row # NoRow
      /\ reason # "none" <=> k.pc = "refused"
  BY <1>1, <1>5, <1>7 DEF CallStates
<1>9. /\ \/ k.pc = "refused" /\ k.effective = Unlimited
         \/ k.pc = "store" /\ k.effective = Unlimited /\ k.item = 1
         \/ /\ k.pc = IF k.expired THEN "reset" ELSE "consume"
            /\ k.effective # Unlimited /\ k.item = 1 /\ call[c].seen # NoRow
      /\ k.reason # "none" <=> k.pc = "refused"
  <2> HIDE DEF k, expired, reason
  <2> QED
    BY <1>6, <1>8
<1>10. QED
  <2> HIDE DEF k
  <2> QED
    BY <1>3, <1>4, <1>6, <1>9

\* k is the call of d in another phase, with the same plan and the same limit.
Continues(k, d) ==
  /\ k \in CallStates
  /\ k.n = d.n /\ k.effective = d.effective /\ k.seen = d.seen /\ k.expired = d.expired

LEMMA PhaseChange ==
  ASSUME NEW d \in CallStates, NEW pc \in Phase
  PROVE  LET k == [d EXCEPT !.pc = pc]
         IN Continues(k, d) /\ k.pc = pc /\ k.item = d.item /\ k.reason = d.reason
<1>1. [d EXCEPT !.pc = pc] \in CallStates
  BY Fields
<1>2. QED
  BY <1>1 DEF Continues, CallStates

LEMMA GotoEffect ==
  ASSUME LimiterTypeOK, NEW c \in Calls, NEW pc \in Phase, Goto(c, pc)
  PROVE  \E k \in CallStates :
           /\ call' = [call EXCEPT ![c] = k]
           /\ Continues(k, call[c]) /\ k.pc = pc /\ k.item = call[c].item
           /\ k.reason = call[c].reason
<1> DEFINE k == [call[c] EXCEPT !.pc = pc]
<1>1. call[c] \in CallStates
  BY DEF LimiterTypeOK
<1>2. /\ Continues(k, call[c]) /\ k.pc = pc /\ k.item = call[c].item
      /\ k.reason = call[c].reason
  BY <1>1, PhaseChange
<1>3. call' = [call EXCEPT ![c] = k]
  BY DEF Goto
<1>4. QED
  <2> HIDE DEF k
  <2> QED
    BY <1>2, <1>3 DEF Continues

\* store.consumePeriodRequests either takes all of the call's items or none.
LEMMA ConsumeEffect ==
  ASSUME LimiterTypeOK, NEW c \in Calls, Consume(c)
  PROVE  \E k \in CallStates :
           /\ call' = [call EXCEPT ![c] = k]
           /\ Continues(k, call[c]) /\ k.item = call[c].item
           /\ k.pc = IF limits.requests + call[c].n <= call[c].effective
                       THEN "store" ELSE "refused"
<1> DEFINE fits == limits.requests + call[c].n <= call[c].effective
           pc == IF fits THEN "store" ELSE "refused"
           d == [call[c] EXCEPT !.pc = pc]
           reason == IF fits THEN "none" ELSE "requests"
           k == [d EXCEPT !.reason = reason]
<1>1. /\ call[c] \in CallStates /\ pc \in Phase /\ reason \in Reason
  BY DEF LimiterTypeOK, Phase, Reason
<1>2. call' = [call EXCEPT ![c] = k]
  BY <1>1 DEF Consume, LimiterTypeOK
<1>3. Continues(d, call[c]) /\ d.pc = pc /\ d.item = call[c].item
  <2> HIDE DEF pc
  <2> QED
    BY <1>1, PhaseChange
<1>4. Continues(k, d) /\ k.pc = d.pc /\ k.item = d.item
  <2> HIDE DEF d, reason
  <2>1. d \in CallStates
    BY <1>3 DEF Continues
  <2>2. k \in CallStates
    BY <1>1, <2>1, Fields
  <2>3. QED
    BY <2>1, <2>2 DEF Continues, CallStates
<1>5. /\ k \in CallStates /\ Continues(k, call[c]) /\ k.item = call[c].item /\ k.pc = pc
  <2> HIDE DEF k, d, pc
  <2> QED
    BY <1>3, <1>4 DEF Continues
<1>6. QED
  <2> HIDE DEF k
  <2> QED
    BY <1>2, <1>5

LEMMA NextItemEffect ==
  ASSUME NEW d \in CallStates, d.n \in 1..2, d.item \in 1..d.n
  PROVE  LET k == NextItem(d)
         IN /\ Continues(k, d)
            /\ \/ d.item < d.n /\ k.pc = "store" /\ k.item = d.item + 1
               \/ d.item = d.n /\ k.pc = "created"
<1>1. CASE d.item < d.n
  <2> DEFINE m == [d EXCEPT !.pc = "store"]
             k == [m EXCEPT !.item = d.item + 1]
  <2>1. NextItem(d) = k
    BY <1>1 DEF NextItem, CallStates
  <2>2. Continues(m, d) /\ m.pc = "store"
    BY PhaseChange DEF Phase
  <2>3. Continues(k, m) /\ k.pc = m.pc /\ k.item = d.item + 1
    <3>1. d.item + 1 \in 0..2
      BY <1>1 DEF CallStates
    <3> DEFINE next == d.item + 1
    <3> HIDE DEF m, next
    <3>2. m \in CallStates
      BY <2>2 DEF Continues
    <3>3. next \in 0..2
      BY <3>1 DEF next
    <3>4. [m EXCEPT !.item = next] \in CallStates
      BY <3>2, <3>3, Fields
    <3>5. LET e == [m EXCEPT !.item = next] IN Continues(e, m) /\ e.pc = m.pc /\ e.item = next
      BY <3>2, <3>4 DEF Continues, CallStates
    <3>6. QED
      BY <3>5 DEF next
  <2>4. QED
    <3> HIDE DEF k, m
    <3> QED
      BY <1>1, <2>1, <2>2, <2>3 DEF Continues
<1>2. CASE ~ (d.item < d.n)
  <2>1. NextItem(d) = [d EXCEPT !.pc = "created"]
    BY <1>2 DEF NextItem
  <2>2. d.item = d.n
    BY <1>2 DEF CallStates
  <2>3. LET k == [d EXCEPT !.pc = "created"]
        IN Continues(k, d) /\ k.pc = "created"
    BY PhaseChange DEF Phase
  <2>4. QED
    BY <2>1, <2>2, <2>3
<1>3. QED
  BY <1>1, <1>2

LEMMA CountEffect ==
  ASSUME LimiterTypeOK, Phases, NEW c \in Calls, Count(c)
  PROVE  \E k \in CallStates :
           /\ call' = [call EXCEPT ![c] = k]
           /\ Continues(k, call[c])
           /\ \/ flusher' = c /\ k.pc = "flush" /\ k.item = call[c].item
              \/ /\ flusher' # c /\ call[c].item < call[c].n
                 /\ k.pc = "store" /\ k.item = call[c].item + 1
              \/ flusher' # c /\ call[c].item = call[c].n /\ k.pc = "created"
<1> DEFINE d == call[c]
           k == IF flusher' = c THEN [d EXCEPT !.pc = "flush"] ELSE NextItem(d)
<1>1. d \in CallStates /\ d.n \in 1..2 /\ d.item \in 1..d.n
  BY DEF LimiterTypeOK, Phases, Count
<1>2. call' = [call EXCEPT ![c] = k]
  BY DEF Count
<1>3. /\ Continues(k, d)
      /\ \/ flusher' = c /\ k.pc = "flush" /\ k.item = d.item
         \/ /\ flusher' # c /\ d.item < d.n
            /\ k.pc = "store" /\ k.item = d.item + 1
         \/ flusher' # c /\ d.item = d.n /\ k.pc = "created"
  <2>1. CASE flusher' = c
    <3>1. k = [d EXCEPT !.pc = "flush"]
      BY <2>1
    <3> HIDE DEF k
    <3>2. QED
      BY <1>1, <2>1, <3>1, PhaseChange DEF Phase
  <2>2. CASE flusher' # c
    <3>1. k = NextItem(d)
      BY <2>2
    <3> HIDE DEF k
    <3>2. QED
      BY <1>1, <2>2, <3>1, NextItemEffect
  <2>3. QED
    BY <2>1, <2>2
<1>4. QED
  <2> HIDE DEF k
  <2> QED
    BY <1>2, <1>3 DEF Continues

\* A flush that ends lets the call that triggered it go on, or fail.
LEMMA ResumeEffect ==
  ASSUME LimiterTypeOK, Phases, NEW ok \in BOOLEAN, Resume(ok)
  PROVE  /\ call' \in [Calls -> CallStates]
         /\ \A c \in Calls :
              /\ Continues(call'[c], call[c])
              /\ flusher # c => call'[c] = call[c]
              /\ flusher = c =>
                   \/ call'[c].pc = "failed"
                   \/ /\ call[c].item < call[c].n
                      /\ call'[c].pc = "store" /\ call'[c].item = call[c].item + 1
                   \/ call'[c].pc = "created"
<1> SUFFICES ASSUME NEW c \in Calls
             PROVE  /\ Continues(call'[c], call[c])
                    /\ flusher # c => call'[c] = call[c]
                    /\ flusher = c =>
                         \/ call'[c].pc = "failed"
                         \/ /\ call[c].item < call[c].n
                            /\ call'[c].pc = "store" /\ call'[c].item = call[c].item + 1
                         \/ call'[c].pc = "created"
  BY DEF Resume, Continues
<1>1. call[c] \in CallStates
  BY DEF LimiterTypeOK
<1>2. CASE flusher # c
  <2>1. call'[c] = call[c]
    BY <1>2 DEF Resume
  <2>2. QED
    BY <1>1, <1>2, <2>1 DEF Continues
<1>3. CASE flusher = c /\ ok
  <2>1. call'[c] = NextItem(call[c])
    BY <1>3 DEF Resume
  <2>2. call[c].n \in 1..2 /\ call[c].item \in 1..call[c].n
    BY <1>3 DEF Phases
  <2>3. QED
    BY <1>1, <1>3, <2>1, <2>2, NextItemEffect
<1>4. CASE flusher = c /\ ~ok
  <2>1. call'[c] = [call[c] EXCEPT !.pc = "failed"]
    BY <1>4 DEF Resume
  <2>2. LET k == [call[c] EXCEPT !.pc = "failed"]
        IN Continues(k, call[c]) /\ k.pc = "failed"
    BY <1>1, PhaseChange DEF Phase
  <2>3. QED
    BY <1>4, <2>1, <2>2
<1>5. QED
  BY <1>2, <1>3, <1>4

-----------------------------------------------------------------------------
(* The row *)

LEMMA RowFields ==
  ASSUME NEW row \in UserLimits
  PROVE  /\ \A x \in {Unlimited} \cup 1..MaxLimit : [row EXCEPT !.maxRequests = x] \in UserLimits
         /\ \A x \in {Unlimited} \cup (Nat \ {0}) : [row EXCEPT !.maxTokens = x] \in UserLimits
         /\ \A x \in {Unlimited} \cup Nat : [row EXCEPT !.hardSpend = x] \in UserLimits
         /\ \A x \in 0..MaxLimit : [row EXCEPT !.requests = x] \in UserLimits
         /\ \A x \in Nat : [row EXCEPT !.tokens = x] \in UserLimits
         /\ \A x \in Nat : [row EXCEPT !.spend = x] \in UserLimits
         /\ \A x \in Nat : [row EXCEPT !.resetAt = x] \in UserLimits
BY DEF UserLimits

\* resetPeriod begins a period without requests if the row's is over.
LEMMA FreshRow ==
  ASSUME NEW row \in UserLimits, NEW t \in Nat
  PROVE  LET fresh == FreshPeriod(row, t)
         IN /\ fresh \in UserLimits
            /\ IF t >= row.resetAt THEN fresh.requests = 0 /\ fresh.resetAt = t + 1
               ELSE fresh = row
<1>1. CASE t >= row.resetAt
  <2> DEFINE r1 == [row EXCEPT !.requests = 0]
             r2 == [r1 EXCEPT !.tokens = 0]
             next == t + 1
             r3 == [r2 EXCEPT !.resetAt = next]
  <2>1. r1 \in UserLimits /\ r1.requests = 0
    <3>1. 0 \in 0..MaxLimit
      BY AdmissionAssumption
    <3>2. QED
      BY <3>1, RowFields DEF UserLimits
  <2>2. r2 \in UserLimits /\ r2.requests = 0
    <3> HIDE DEF r1
    <3> QED
      BY <2>1, RowFields DEF UserLimits
  <2>3. r3 \in UserLimits /\ r3.requests = 0 /\ r3.resetAt = next
    <3> HIDE DEF r2
    <3>1. next \in Nat
      OBVIOUS
    <3> HIDE DEF next
    <3>2. QED
      BY <2>2, <3>1, RowFields DEF UserLimits
  <2>4. FreshPeriod(row, t) = r3
    BY <1>1 DEF FreshPeriod
  <2>5. QED
    <3> HIDE DEF r3
    <3> QED
      BY <1>1, <2>3, <2>4 DEF next
<1>2. CASE ~ (t >= row.resetAt)
  BY <1>2 DEF FreshPeriod
<1>3. QED
  BY <1>1, <1>2

\* Of the row, ingestion and settings change neither the requests nor the period.
SamePeriod(new, old) ==
  new \in UserLimits /\ new.requests = old.requests /\ new.resetAt = old.resetAt

LEMMA IngestEffect ==
  ASSUME LimiterTypeOK, NEW tokens \in 0..1, NEW spend \in 0..1, Ingest(tokens, spend)
  PROVE  limits # NoRow /\ limits' # NoRow /\ SamePeriod(limits', limits)
<1> DEFINE newTokens == limits.tokens + tokens
           newSpend == limits.spend + spend
           r1 == [limits EXCEPT !.tokens = newTokens]
           r2 == [r1 EXCEPT !.spend = newSpend]
<1>0. limits \in UserLimits /\ limits # NoRow
  BY DEF Ingest, LimiterTypeOK
<1>1. newTokens \in Nat /\ newSpend \in Nat
  BY <1>0 DEF UserLimits
<1>2. limits' = r2
  BY DEF Ingest
<1> HIDE DEF newTokens, newSpend
<1>3. SamePeriod(r1, limits)
  BY <1>0, <1>1, RowFields DEF SamePeriod, UserLimits
<1>4. SamePeriod(r2, limits)
  <2> HIDE DEF r1
  <2> QED
    BY <1>1, <1>3, RowFields DEF SamePeriod, UserLimits
<1>5. QED
  <2> HIDE DEF r2
  <2> QED
    BY <1>0, <1>2, <1>4, AdmissionAssumption DEF SamePeriod

LEMMA UpdateEffect ==
  ASSUME LimiterTypeOK, NEW s \in LimitSettings, UpdateLimits(s)
  PROVE  /\ limits' \in UserLimits /\ limits' # NoRow
         /\ IF limits = NoRow
              THEN limits'.requests = 0 /\ limits'.resetAt = now + 1 /\ since' = now - 1
              ELSE SamePeriod(limits', limits) /\ since' = since
<1>0. /\ s.maxRequests \in {Unlimited} \cup 1..MaxLimit
      /\ s.maxTokens \in {Unlimited} \cup (Nat \ {0})
      /\ s.hardSpend \in {Unlimited} \cup Nat
      /\ MaxLimit \in Nat /\ NoRow \notin UserLimits
  BY AdmissionAssumption
<1>1. CASE limits = NoRow
  <2>1. limits' = Row(s, 0, now + 1) /\ since' = now - 1
    BY <1>1 DEF UpdateLimits
  <2>2. limits' \in UserLimits
    <3>1. 0 \in 0..MaxLimit /\ now + 1 \in Nat
      BY <1>0 DEF LimiterTypeOK
    <3>2. QED
      BY <2>1, <3>1, RowKept
  <2>3. QED
    BY <1>0, <1>1, <2>1, <2>2 DEF Row
<1>2. CASE limits # NoRow
  <2> DEFINE r1 == [limits EXCEPT !.maxRequests = s.maxRequests]
             r2 == [r1 EXCEPT !.maxTokens = s.maxTokens]
             r3 == [r2 EXCEPT !.hardSpend = s.hardSpend]
  <2>1. limits' = r3 /\ since' = since
    BY <1>2 DEF UpdateLimits
  <2>2. SamePeriod(r1, limits)
    BY <1>0, <1>2, RowFields DEF SamePeriod, UserLimits, LimiterTypeOK
  <2>3. SamePeriod(r2, limits)
    <3> HIDE DEF r1
    <3> QED
      BY <1>0, <2>2, RowFields DEF SamePeriod, UserLimits
  <2>4. SamePeriod(r3, limits)
    <3> HIDE DEF r2
    <3> QED
      BY <1>0, <2>3, RowFields DEF SamePeriod, UserLimits
  <2>5. QED
    <3> HIDE DEF r3
    <3> QED
      BY <1>0, <1>2, <2>1, <2>4 DEF SamePeriod
<1>3. QED
  BY <1>1, <1>2

\* The capacity of the row grows by the items of the call.
LEMMA ConsumeRow ==
  ASSUME LimiterTypeOK, Phases, NothingBefore, NEW c \in Calls, Consume(c)
  PROVE  /\ limits \in UserLimits /\ limits # NoRow /\ limits' # NoRow
         /\ limits' \in UserLimits /\ limits'.resetAt = limits.resetAt
         /\ limits'.requests = IF limits.requests + call[c].n <= call[c].effective
                                 THEN limits.requests + call[c].n ELSE limits.requests
<1>0. /\ call[c] \in CallStates /\ call[c].effective # Unlimited /\ call[c].n \in 1..2
      /\ MaxLimit \in Nat /\ NoRow \notin UserLimits
  BY AdmissionAssumption DEF LimiterTypeOK, Phases, Consume
<1>1. limits \in UserLimits /\ limits # NoRow
  BY <1>0 DEF LimiterTypeOK, NothingBefore
<1>2. CASE limits.requests + call[c].n <= call[c].effective
  <2> DEFINE sum == limits.requests + call[c].n
  <2>1. limits' = [limits EXCEPT !.requests = sum]
    BY <1>2 DEF Consume
  <2>2. sum \in 0..MaxLimit
    BY <1>0, <1>1, <1>2 DEF CallStates, UserLimits
  <2>3. limits' \in UserLimits /\ limits'.resetAt = limits.resetAt /\ limits'.requests = sum
    <3> HIDE DEF sum
    <3> QED
      BY <1>1, <2>1, <2>2, RowFields DEF UserLimits
  <2>4. QED
    BY <1>0, <1>1, <1>2, <2>3
<1>3. CASE ~ (limits.requests + call[c].n <= call[c].effective)
  <2>1. limits' = limits
    BY <1>3 DEF Consume
  <2>2. QED
    BY <1>1, <1>3, <2>1
<1>4. QED
  BY <1>2, <1>3

-----------------------------------------------------------------------------
(* Types and phases *)

LEMMA Names ==
  /\ MaxLimit \in Nat \ {0} /\ Unlimited \notin Nat /\ NoRow \notin UserLimits
  /\ Timer \notin Calls /\ FlushApi \notin Calls /\ NoOne \notin Calls
  /\ \A i \in ChatItems : i \notin Calls /\ i # NoOne
BY AdmissionAssumption

\* Only counting triggers a flush in a caller's name; nobody takes it over.
LEMMA CountFlusher ==
  ASSUME NEW i, NEW who, CountItem(i, who)
  PROVE  flusher' = flusher \/ (flusher = NoOne /\ flusher' = who)
BY DEF CountItem, BeginFlush, flushing

\* A step of c that leaves the row alone.
LEMMA CallerKeepsRow ==
  ASSUME Basics, NEW c \in Calls, NEW k \in CallStates,
         call' = [call EXCEPT ![c] = k],
         k.pc # "idle", k.n \in 1..2,
         k.pc \in {"store", "count", "flush"} => k.item \in 1..k.n,
         k.pc \in {"reset", "consume"} => k.effective # Unlimited /\ k.item = 1,
         flusher' = flusher \/ (flusher = NoOne /\ flusher' = c),
         flusher' = c => k.pc = "flush",
         limits' = limits, now' = now, since' = since, rivals' \subseteq Calls,
         metered' \in Nat, k.effective = Unlimited => metered' = metered,
         limits = NoRow => k.effective = Unlimited /\ k.seen = NoRow
  PROVE  Basics'
<1> USE DEF Basics
<1>1. /\ call' \in [Calls -> CallStates] /\ call'[c] = k
      /\ \A d \in Calls \ {c} : call'[d] = call[d]
  BY OneCall
<1>2. LimiterTypeOK'
  BY <1>1 DEF LimiterTypeOK
<1>3. Phases'
  BY <1>1, Names DEF Phases
<1>4. NothingBefore'
  BY <1>1 DEF NothingBefore
<1>5. QED
  BY <1>2, <1>3, <1>4

LEMMA BasicsInit == Init => Basics
<1> SUFFICES ASSUME Init PROVE Basics
  OBVIOUS
<1>1. limits \in UserLimits \cup {NoRow}
  <2>1. CASE limits = NoRow
    BY <2>1
  <2>2. CASE limits # NoRow
    <3>1. PICK s \in LimitSettings : limits = Row(s, MaxLimit, 2)
      BY <2>2 DEF Init
    <3>2. MaxLimit \in 0..MaxLimit /\ 2 \in Nat
      BY Names
    <3>3. QED
      BY <3>1, <3>2, RowKept
  <2>3. QED
    BY <2>1, <2>2
<1>2. \A c \in Calls : call[c] = Idle
  BY DEF Init
<1>3. LimiterTypeOK
  BY <1>1, IdleCall DEF Init, LimiterTypeOK
<1>4. Phases
  BY <1>2, Names DEF Phases, Idle, Init, QueueInit
<1>5. NothingBefore
  BY <1>2 DEF NothingBefore, Idle, Init
<1>6. QED
  BY <1>3, <1>4, <1>5 DEF Basics

LEMMA BasicsCaller ==
  ASSUME Basics, NEW c \in Calls,
         \/ \E n \in 1..2, w \in Windows : Receive(c, n, w)
         \/ Check(c) \/ Store(c) \/ StoreFails(c) \/ Count(c)
  PROVE  Basics'
<1>0. /\ LimiterTypeOK /\ Phases /\ NothingBefore
      /\ call[c] \in CallStates /\ call[c].n \in 0..2 /\ call[c].item \in 0..2
      /\ call[c].pc # "idle" => call[c].n \in 1..2
      /\ call[c].pc \in {"store", "count", "flush"} => call[c].item \in 1..call[c].n
      /\ flusher = c => call[c].pc = "flush"
      /\ limits = NoRow => call[c].effective = Unlimited /\ call[c].seen = NoRow
      /\ c # NoOne /\ c # Timer /\ c # FlushApi
      /\ metered \in Nat /\ rivals \subseteq Calls
  BY Names DEF Basics, LimiterTypeOK, Phases, NothingBefore, CallStates
<1>1. ASSUME NEW n \in 1..2, NEW w \in Windows, Receive(c, n, w)
      PROVE  Basics'
  <2>1. PICK k \in CallStates :
          /\ call' = [call EXCEPT ![c] = k]
          /\ k.pc = "check" /\ k.n = n /\ k.seen = limits /\ k.window = w
          /\ k.effective = Unlimited
    BY <1>0, <1>1, ReceiveEffect
  <2>2. /\ UNCHANGED <<limits, now, since, metered, flusher>> /\ rivals' \subseteq Calls
        /\ flusher # c
    BY <1>0, <1>1 DEF Receive, queueVars
  <2>3. QED
    BY <1>0, <2>1, <2>2, CallerKeepsRow
<1>2. CASE Check(c)
  <2>1. PICK k \in CallStates :
           /\ call' = [call EXCEPT ![c] = k]
           /\ k.n = call[c].n /\ k.seen = NoRow
           /\ \/ k.pc = "refused" /\ k.effective = Unlimited
              \/ k.pc = "store" /\ k.effective = Unlimited /\ k.item = 1
              \/ /\ k.pc = IF k.expired THEN "reset" ELSE "consume"
                 /\ k.effective # Unlimited /\ k.item = 1 /\ call[c].seen # NoRow
    BY <1>0, <1>2, CheckEffect
  <2>2. /\ UNCHANGED <<limits, now, since, metered, flusher>> /\ rivals' \subseteq Calls
        /\ flusher # c /\ call[c].pc = "check"
    BY <1>0, <1>2 DEF Check, queueVars
  <2>3. /\ k.pc \in {"refused", "store", "reset", "consume"} /\ k.n \in 1..2
        /\ k.pc = "store" => k.item \in 1..k.n
        /\ k.pc \in {"reset", "consume"} => k.effective # Unlimited /\ k.item = 1
        /\ limits = NoRow => k.effective = Unlimited
    BY <1>0, <2>1, <2>2
  <2>4. /\ flusher' = flusher /\ flusher' # c
        /\ limits = NoRow => k.effective = Unlimited /\ k.seen = NoRow
    BY <2>1, <2>2, <2>3
  <2>5. QED
    BY <1>0, <2>1, <2>2, <2>3, <2>4, CallerKeepsRow
<1>3. CASE Store(c)
  <2>1. PICK k \in CallStates :
           /\ call' = [call EXCEPT ![c] = k]
           /\ Continues(k, call[c]) /\ k.pc = "count" /\ k.item = call[c].item
    BY <1>0, <1>3, GotoEffect DEF Store, Phase
  <2>2. /\ UNCHANGED <<limits, now, since, flusher, rivals>>
        /\ flusher # c /\ call[c].pc = "store"
        /\ metered' = IF call[c].effective = Unlimited THEN metered ELSE metered + 1
    BY <1>0, <1>3 DEF Store, StoreItem
  <2>3. /\ k.n \in 1..2 /\ k.item \in 1..k.n
        /\ limits = NoRow => k.effective = Unlimited /\ k.seen = NoRow
        /\ metered' \in Nat /\ (k.effective = Unlimited => metered' = metered)
    BY <1>0, <2>1, <2>2 DEF Continues
  <2>4. QED
    BY <1>0, <2>1, <2>2, <2>3, CallerKeepsRow
<1>4. CASE StoreFails(c)
  <2>1. PICK k \in CallStates :
           /\ call' = [call EXCEPT ![c] = k]
           /\ Continues(k, call[c]) /\ k.pc = "failed"
    BY <1>0, <1>4, GotoEffect DEF StoreFails, Phase
  <2>2. /\ UNCHANGED <<limits, now, since, flusher, rivals, metered>>
        /\ flusher # c /\ call[c].pc = "store"
    BY <1>0, <1>4 DEF StoreFails, queueVars
  <2>3. QED
    BY <1>0, <2>1, <2>2, CallerKeepsRow DEF Continues
<1>5. CASE Count(c)
  <2>1. PICK k \in CallStates :
           /\ call' = [call EXCEPT ![c] = k]
           /\ Continues(k, call[c])
           /\ \/ flusher' = c /\ k.pc = "flush" /\ k.item = call[c].item
              \/ /\ flusher' # c /\ call[c].item < call[c].n
                 /\ k.pc = "store" /\ k.item = call[c].item + 1
              \/ flusher' # c /\ call[c].item = call[c].n /\ k.pc = "created"
    BY <1>0, <1>5, CountEffect
  <2>2. /\ UNCHANGED <<limits, now, since, rivals, metered>>
        /\ flusher # c /\ call[c].pc = "count"
        /\ flusher' = flusher \/ (flusher = NoOne /\ flusher' = c)
    BY <1>0, <1>5, CountFlusher DEF Count
  <2>3. /\ k.pc \in {"flush", "store", "created"}
        /\ k.pc \in {"flush", "store"} => k.item \in 1..k.n
        /\ flusher' = c => k.pc = "flush"
    BY <1>0, <2>1, <2>2 DEF Continues
  <2>4. QED
    BY <1>0, <2>1, <2>2, <2>3, CallerKeepsRow DEF Continues
<1>6. QED
  BY <1>1, <1>2, <1>3, <1>4, <1>5

\* The flush knows nothing of limits; calls other than its trigger go on.
LEMMA FlushFrame ==
  ASSUME Basics, Flush
  PROVE  /\ UNCHANGED <<limits, now, since, metered, rivals>>
         /\ call' \in [Calls -> CallStates]
         /\ \A c \in Calls :
              /\ Continues(call'[c], call[c])
              /\ call'[c] # call[c] =>
                   /\ call[c].pc = "flush" /\ flusher = c /\ flusher' # c
                   /\ \/ call'[c].pc = "failed"
                      \/ /\ call[c].item < call[c].n
                         /\ call'[c].pc = "store" /\ call'[c].item = call[c].item + 1
                      \/ call'[c].pc = "created"
              /\ flusher' = c => flusher = c /\ call'[c] = call[c]
<1>0. /\ LimiterTypeOK /\ Phases
      /\ \A c \in Calls : flusher = c => call[c].pc = "flush"
      /\ \A c \in Calls : c # Timer /\ c # FlushApi /\ c # NoOne
  BY Names DEF Basics, Phases
<1>1. CASE UNCHANGED admissionVars
           /\ (flusher' = flusher \/ flusher' \in {Timer, FlushApi})
  <2>1. UNCHANGED <<limits, now, since, metered, rivals, call>>
    BY <1>1 DEF admissionVars
  <2>2. \A c \in Calls : Continues(call[c], call[c])
    BY <1>0 DEF Continues, LimiterTypeOK
  <2>3. QED
    BY <1>0, <1>1, <2>1, <2>2 DEF LimiterTypeOK
<1>2. ASSUME NEW ok \in BOOLEAN, Resume(ok), flusher' = NoOne
      PROVE  /\ UNCHANGED <<limits, now, since, metered, rivals>>
             /\ call' \in [Calls -> CallStates]
             /\ \A c \in Calls :
                  /\ Continues(call'[c], call[c])
                  /\ call'[c] # call[c] =>
                       /\ call[c].pc = "flush" /\ flusher = c /\ flusher' # c
                       /\ \/ call'[c].pc = "failed"
                          \/ /\ call[c].item < call[c].n
                             /\ call'[c].pc = "store" /\ call'[c].item = call[c].item + 1
                          \/ call'[c].pc = "created"
                  /\ flusher' = c => flusher = c /\ call'[c] = call[c]
  <2>1. UNCHANGED <<limits, now, since, metered, rivals>>
    BY <1>2 DEF Resume
  <2>2. /\ call' \in [Calls -> CallStates]
        /\ \A c \in Calls :
              /\ Continues(call'[c], call[c])
              /\ flusher # c => call'[c] = call[c]
              /\ flusher = c =>
                   \/ call'[c].pc = "failed"
                   \/ /\ call[c].item < call[c].n
                      /\ call'[c].pc = "store" /\ call'[c].item = call[c].item + 1
                   \/ call'[c].pc = "created"
    BY <1>0, <1>2, ResumeEffect
  <2>3. QED
    BY <1>0, <1>2, <2>1, <2>2
<1>3. CASE FlushReturns /\ Resume(TRUE)
  <2>1. flusher' = NoOne
    BY <1>3 DEF FlushReturns, EndFlush
  <2>2. QED
    BY <1>2, <1>3, <2>1
<1>4. CASE FlushThrows /\ Resume(FALSE)
  <2>1. flusher' = NoOne
    BY <1>4 DEF FlushThrows, EndFlush
  <2>2. QED
    BY <1>2, <1>4, <2>1
<1>5. CASE FlushReads /\ UNCHANGED admissionVars
  BY <1>1, <1>5 DEF FlushReads
<1>6. CASE \E who \in {Timer, FlushApi} : TriggerFlush(who) /\ UNCHANGED admissionVars
  BY <1>1, <1>6 DEF TriggerFlush, BeginFlush
<1>7. CASE (StartTimer \/ StopTimer) /\ UNCHANGED admissionVars
  BY <1>1, <1>7 DEF StartTimer, StopTimer, BeginFlush
<1>8. QED
  BY <1>3, <1>4, <1>5, <1>6, <1>7 DEF Flush

LEMMA BasicsFlush ==
  ASSUME Basics, Flush
  PROVE  Basics'
<1>0. /\ LimiterTypeOK /\ Phases /\ NothingBefore
  BY DEF Basics
<1>1. /\ UNCHANGED <<limits, now, since, metered, rivals>>
      /\ call' \in [Calls -> CallStates]
      /\ \A c \in Calls :
           /\ Continues(call'[c], call[c])
           /\ call'[c] # call[c] =>
                /\ call[c].pc = "flush" /\ flusher = c /\ flusher' # c
                /\ \/ call'[c].pc = "failed"
                   \/ /\ call[c].item < call[c].n
                      /\ call'[c].pc = "store" /\ call'[c].item = call[c].item + 1
                   \/ call'[c].pc = "created"
           /\ flusher' = c => flusher = c /\ call'[c] = call[c]
  BY FlushFrame
<1>2. LimiterTypeOK'
  BY <1>0, <1>1 DEF LimiterTypeOK
<1>3. Phases'
  <2> SUFFICES ASSUME NEW c \in Calls
               PROVE  /\ call'[c].pc # "idle" => call'[c].n \in 1..2
                      /\ call'[c].pc \in {"store", "count", "flush"} =>
                           call'[c].item \in 1..call'[c].n
                      /\ call'[c].pc \in {"reset", "consume"} =>
                           call'[c].effective # Unlimited /\ call'[c].item = 1
                      /\ flusher' = c => call'[c].pc = "flush"
    BY DEF Phases
  <2>1. CASE call'[c] = call[c]
    BY <1>0, <1>1, <2>1 DEF Phases
  <2>2. CASE call'[c] # call[c]
    <3>1. /\ call[c].n \in 1..2 /\ call[c].item \in 1..call[c].n
          /\ call'[c].n = call[c].n /\ flusher' # c
      BY <1>0, <1>1, <2>2 DEF Phases, Continues
    <3>2. \/ call'[c].pc \in {"failed", "created"}
          \/ /\ call[c].item < call[c].n
             /\ call'[c].pc = "store" /\ call'[c].item = call[c].item + 1
      BY <1>1, <2>2
    <3>3. QED
      BY <3>1, <3>2
  <2>3. QED
    BY <2>1, <2>2
<1>4. NothingBefore'
  BY <1>0, <1>1 DEF NothingBefore, Continues
<1>5. QED
  BY <1>2, <1>3, <1>4 DEF Basics

\* A step of c that changes the row the user has.
LEMMA BasicsCapacity ==
  ASSUME Basics, NEW c \in Calls, ResetPeriod(c) \/ Consume(c)
  PROVE  Basics'
<1>0. /\ LimiterTypeOK /\ Phases /\ NothingBefore
      /\ call[c] \in CallStates /\ call[c].n \in 1..2
      /\ call[c].effective # Unlimited /\ call[c].item = 1
      /\ flusher # c
      /\ limits # NoRow /\ limits \in UserLimits
      /\ MaxLimit \in Nat /\ NoRow \notin UserLimits
  BY Names DEF Basics, LimiterTypeOK, Phases, NothingBefore, ResetPeriod, Consume
<1>1. \E k \in CallStates :
        /\ call' = [call EXCEPT ![c] = k] /\ Continues(k, call[c])
        /\ k.pc \in {"consume", "store", "refused"} /\ k.item = call[c].item
  <2>1. CASE ResetPeriod(c)
    BY <1>0, <2>1, GotoEffect DEF ResetPeriod, Phase
  <2>2. CASE Consume(c)
    BY <1>0, <2>2, ConsumeEffect
  <2>3. QED
    BY <2>1, <2>2
<1>2. PICK k \in CallStates :
        /\ call' = [call EXCEPT ![c] = k] /\ Continues(k, call[c])
        /\ k.pc \in {"consume", "store", "refused"} /\ k.item = call[c].item
  BY <1>1
<1>3. /\ call' \in [Calls -> CallStates] /\ call'[c] = k
      /\ \A d \in Calls \ {c} : call'[d] = call[d]
  BY <1>0, <1>2, OneCall
<1>4. /\ limits' \in UserLimits /\ limits' # NoRow
      /\ UNCHANGED <<now, since, metered, flusher>> /\ rivals' \subseteq Calls
  <2>1. CASE ResetPeriod(c)
    <3>1. limits' = FreshPeriod(limits, now)
      BY <2>1 DEF ResetPeriod
    <3>2. limits' \in UserLimits
      BY <1>0, <3>1, FreshRow DEF LimiterTypeOK
    <3>3. QED
      BY <1>0, <2>1, <3>2 DEF ResetPeriod, LimiterTypeOK, queueVars
  <2>2. CASE Consume(c)
    <3>1. limits' \in UserLimits /\ limits' # NoRow
      BY <1>0, <2>2, ConsumeRow
    <3>2. QED
      BY <1>0, <2>2, <3>1 DEF Consume, LimiterTypeOK, queueVars
  <2>3. QED
    BY <2>1, <2>2
<1>5. LimiterTypeOK'
  BY <1>0, <1>3, <1>4 DEF LimiterTypeOK
<1>6. Phases'
  BY <1>0, <1>2, <1>3, <1>4 DEF Phases, Continues
<1>7. NothingBefore'
  BY <1>4 DEF NothingBefore
<1>8. QED
  BY <1>5, <1>6, <1>7 DEF Basics

LEMMA BasicsNext ==
  ASSUME Basics, [Next]_vars
  PROVE  Basics'
<1>0. /\ LimiterTypeOK /\ Phases /\ NothingBefore
      /\ now \in Nat \ {0} /\ since \in Nat /\ since <= now
      /\ NoRow \notin UserLimits
  BY Names DEF Basics, LimiterTypeOK
<1>1. ASSUME NEW c \in Calls,
             \/ \E n \in 1..2, w \in Windows : Receive(c, n, w)
             \/ Check(c) \/ ResetPeriod(c) \/ Consume(c)
             \/ Store(c) \/ StoreFails(c) \/ Count(c)
      PROVE  Basics'
  BY <1>1, BasicsCaller, BasicsCapacity
<1>2. ASSUME NEW i \in ChatItems, ChatStore(i) \/ ChatCount(i)
      PROVE  Basics'
  <2>1. /\ UNCHANGED <<limits, now, since, metered, rivals, call>>
        /\ \A c \in Calls : flusher' = c => flusher = c
    <3>1. CASE ChatStore(i)
      BY <3>1 DEF ChatStore, StoreItem
    <3>2. CASE ChatCount(i)
      <4>1. flusher' = flusher \/ flusher' = i
        BY <3>2, CountFlusher DEF ChatCount
      <4>2. QED
        BY <3>2, <4>1, Names DEF ChatCount
    <3>3. QED
      BY <1>2, <3>1, <3>2
  <2>2. QED
    BY <1>0, <2>1 DEF Basics, LimiterTypeOK, Phases, NothingBefore
<1>3. CASE Flush
  BY <1>3, BasicsFlush
<1>4. ASSUME NEW tokens \in 0..1, NEW spend \in 0..1, Ingest(tokens, spend)
      PROVE  Basics'
  <2>1. limits' \in UserLimits /\ limits' # NoRow
    BY <1>0, <1>4, IngestEffect DEF SamePeriod
  <2>2. UNCHANGED <<now, call, metered, since, rivals, flusher>>
    BY <1>4 DEF Ingest, queueVars
  <2>3. QED
    BY <1>0, <2>1, <2>2 DEF Basics, LimiterTypeOK, Phases, NothingBefore
<1>5. ASSUME NEW s \in LimitSettings, UpdateLimits(s)
      PROVE  Basics'
  <2>1. /\ limits' \in UserLimits /\ limits' # NoRow
        /\ since' = since \/ since' = now - 1
    BY <1>0, <1>5, UpdateEffect
  <2>2. UNCHANGED <<now, call, metered, rivals, flusher>>
    BY <1>5 DEF UpdateLimits, queueVars
  <2>3. since' \in Nat /\ since' <= now
    BY <1>0, <2>1
  <2>4. QED
    BY <1>0, <2>1, <2>2, <2>3 DEF Basics, LimiterTypeOK, Phases, NothingBefore
<1>6. CASE Clock
  BY <1>0, <1>6 DEF Clock, queueVars, Basics, LimiterTypeOK, Phases, NothingBefore
<1>7. CASE UNCHANGED vars
  BY <1>0, <1>7
  DEF vars, admissionVars, queueVars, Basics, LimiterTypeOK, Phases, NothingBefore
<1>8. QED
  BY <1>1, <1>2, <1>3, <1>4, <1>5, <1>6, <1>7 DEF Next

-----------------------------------------------------------------------------
(* The quota is kept *)

LEMMA QuotaGrows ==
  ASSUME NEW a \in Nat, NEW b \in Nat
  PROVE  /\ Quota(a) \in Nat /\ Quota(0) = 0 /\ Quota(1) = MaxLimit
         /\ Quota(a + 1) = Quota(a) + MaxLimit
         /\ a <= b => Quota(a) <= Quota(b)
<1>1. MaxLimit \in Nat
  BY AdmissionAssumption
<1>2. Quota(a) \in Nat /\ Quota(0) = 0 /\ Quota(1) = MaxLimit
  BY <1>1 DEF Quota
<1>3. Quota(a + 1) = Quota(a) + MaxLimit
  BY <1>1 DEF Quota
<1>4. ASSUME a <= b PROVE Quota(a) <= Quota(b)
  <2>1. MaxLimit * b = MaxLimit * a + MaxLimit * (b - a)
    BY <1>1
  <2>2. MaxLimit * (b - a) >= 0 /\ MaxLimit * a \in Nat
    BY <1>1, <1>4
  <2>3. MaxLimit * b \in Nat /\ MaxLimit * (b - a) \in Int
    BY <1>1
  <2>4. QED
    BY <2>1, <2>2, <2>3 DEF Quota
<1>5. QED
  BY <1>2, <1>3, <1>4

\* Nothing is held by a call that has no limit or stores nothing, and only
\* consuming makes a call hold more.
LEMMA HeldLess ==
  ASSUME NEW d \in CallStates, NEW k \in CallStates, NEW i \in 1..2, Held(k, i),
         \/ k = d
         \/ k.effective = Unlimited
         \/ k.pc \notin {"store", "count", "flush"}
         \/ /\ Continues(k, d)
            /\ \/ /\ d.pc = "count" /\ k.pc = "flush" /\ k.item = d.item
               \/ /\ d.pc \in {"count", "flush"} /\ k.pc = "store" /\ k.item = d.item + 1
  PROVE  Held(d, i)
BY DEF Held, Continues, CallStates

LEMMA OutstandingLess ==
  ASSUME IsFiniteSet(Outstanding),
         \A c \in Calls, i \in 1..2 : Held(call'[c], i) => Held(call[c], i)
  PROVE  /\ IsFiniteSet(Outstanding')
         /\ Cardinality(Outstanding') <= Cardinality(Outstanding)
<1>1. Outstanding' \in SUBSET Outstanding
  BY DEF Outstanding, Held
<1>2. QED
  BY <1>1, FS_Subset

\* A step that neither stores on the quota nor begins a period.
LEMMA QuotaKept ==
  ASSUME Basics, Basics', QuotaInv,
         \A c \in Calls, i \in 1..2 : Held(call'[c], i) => Held(call[c], i),
         metered' = metered, since' = since, now' = now \/ now' = now + 1,
         limits = NoRow => limits' = NoRow,
         limits # NoRow => SamePeriod(limits', limits)
  PROVE  QuotaInv'
<1>1. /\ IsFiniteSet(Outstanding')
      /\ Cardinality(Outstanding') <= Cardinality(Outstanding)
  BY OutstandingLess DEF QuotaInv
<1>2. Cardinality(Outstanding) \in Nat /\ Cardinality(Outstanding') \in Nat
  BY <1>1, FS_CardinalityType DEF QuotaInv
<1>3. ASSUME limits' # NoRow
      PROVE  /\ since' + 1 <= limits'.resetAt /\ limits'.resetAt <= now' + 1
             /\ metered' + Cardinality(Outstanding') + MaxLimit
                  <= Quota(limits'.resetAt - 1 - since') + limits'.requests
  <2>1. /\ limits \in UserLimits /\ limits'.resetAt = limits.resetAt
        /\ limits'.requests = limits.requests /\ limits.resetAt \in Nat
        /\ limits.requests \in Nat /\ now \in Nat /\ since \in Nat /\ metered \in Nat
        /\ MaxLimit \in Nat
    BY <1>3, Names DEF Basics, LimiterTypeOK, SamePeriod, UserLimits
  <2>2. /\ since + 1 <= limits.resetAt /\ limits.resetAt <= now + 1
        /\ metered + Cardinality(Outstanding) + MaxLimit
             <= Quota(limits.resetAt - 1 - since) + limits.requests
    BY <1>3 DEF QuotaInv
  <2>3. Quota(limits.resetAt - 1 - since) \in Nat
    <3>1. limits.resetAt - 1 - since \in Nat
      BY <2>1, <2>2
    <3>2. QED
      BY <3>1, QuotaGrows
  <2> DEFINE quota == Quota(limits.resetAt - 1 - since)
  <2>4. quota = Quota(limits'.resetAt - 1 - since')
    BY <2>1
  <2> HIDE DEF quota
  <2>5. quota \in Nat /\ metered + Cardinality(Outstanding) + MaxLimit <= quota + limits.requests
    BY <2>2, <2>3 DEF quota
  <2>6. metered' + Cardinality(Outstanding') + MaxLimit <= quota + limits'.requests
    BY <1>1, <1>2, <2>1, <2>5
  <2>7. QED
    BY <2>1, <2>2, <2>4, <2>6
<1>4. QED
  BY <1>1, <1>3 DEF QuotaInv

LEMMA QuotaInit == Init => QuotaInv
<1> SUFFICES ASSUME Init PROVE QuotaInv
  OBVIOUS
<1>1. Outstanding = {}
  BY DEF Init, Outstanding, Held, Idle
<1>2. IsFiniteSet(Outstanding) /\ Cardinality(Outstanding) = 0
  BY <1>1, FS_EmptySet
<1>3. ASSUME limits # NoRow
      PROVE  limits.resetAt = 2 /\ limits.requests = MaxLimit
  BY <1>3 DEF Init, Row
<1>4. Quota(0) = 0 /\ MaxLimit \in Nat
  BY QuotaGrows, Names
<1>5. metered = 0 /\ since = 1 /\ now = 1
  BY DEF Init
<1>6. ASSUME limits # NoRow
      PROVE  Quota(limits.resetAt - 1 - since) = 0
  BY <1>3, <1>4, <1>5, <1>6
<1>7. QED
  BY <1>2, <1>3, <1>4, <1>5, <1>6 DEF QuotaInv

\* What is stored on the quota is no longer held.
LEMMA QuotaStore ==
  ASSUME Basics, Basics', QuotaInv, NEW c \in Calls, Store(c)
  PROVE  QuotaInv'
<1>0. /\ LimiterTypeOK /\ call[c] \in CallStates /\ call[c].pc = "store"
      /\ call[c].n \in 1..2 /\ call[c].item \in 1..call[c].n
      /\ UNCHANGED <<limits, now, since>>
  BY DEF Basics, LimiterTypeOK, Phases, Store
<1>1. PICK k \in CallStates :
        /\ call' = [call EXCEPT ![c] = k]
        /\ Continues(k, call[c]) /\ k.pc = "count" /\ k.item = call[c].item
  BY <1>0, GotoEffect DEF Store, Phase
<1>2. /\ call'[c] = k /\ \A d \in Calls \ {c} : call'[d] = call[d]
  BY <1>0, <1>1, OneCall
<1>3. \A i \in 1..2 : Held(k, i) <=> Held(call[c], i) /\ i # call[c].item
  BY <1>0, <1>1 DEF Held, Continues, CallStates
<1>4. \A d \in Calls, i \in 1..2 : Held(call'[d], i) => Held(call[d], i)
  BY <1>2, <1>3
<1>5. CASE call[c].effective = Unlimited
  <2>1. metered' = metered
    BY <1>5 DEF Store
  <2>2. limits # NoRow => SamePeriod(limits', limits)
    BY <1>0 DEF LimiterTypeOK, SamePeriod
  <2>3. QED
    BY <1>0, <1>4, <2>1, <2>2, QuotaKept
<1>6. CASE call[c].effective # Unlimited
  <2> DEFINE stored == <<c, call[c].item>>
  <2>1. metered' = metered + 1
    BY <1>6 DEF Store
  <2>2. stored \in Outstanding
    BY <1>0, <1>6 DEF Outstanding, Held
  <2>3. Outstanding' = Outstanding \ {stored}
    BY <1>0, <1>2, <1>3 DEF Outstanding
  <2>4. /\ IsFiniteSet(Outstanding')
        /\ Cardinality(Outstanding') = Cardinality(Outstanding) - 1
    BY <2>2, <2>3, FS_RemoveElement DEF QuotaInv
  <2>5. /\ metered \in Nat /\ Cardinality(Outstanding) \in Nat
    BY <1>0, FS_CardinalityType DEF LimiterTypeOK, QuotaInv
  <2>6. metered' + Cardinality(Outstanding') = metered + Cardinality(Outstanding)
    BY <2>1, <2>4, <2>5
  <2>7. QED
    BY <1>0, <2>4, <2>6 DEF QuotaInv
<1>7. QED
  BY <1>5, <1>6

LEMMA AddOne ==
  ASSUME NEW S, NEW x, IsFiniteSet(S)
  PROVE  /\ IsFiniteSet(S \cup {x})
         /\ Cardinality(S \cup {x}) \in Nat /\ Cardinality(S) \in Nat
         /\ Cardinality(S \cup {x}) <= Cardinality(S) + 1
<1>1. /\ IsFiniteSet(S \cup {x})
      /\ Cardinality(S \cup {x}) = IF x \in S THEN Cardinality(S) ELSE Cardinality(S) + 1
  BY FS_AddElement
<1>2. Cardinality(S) \in Nat
  BY FS_CardinalityType
<1>3. QED
  BY <1>1, <1>2

\* What a call holds after it has consumed, the row counts.
LEMMA QuotaConsume ==
  ASSUME Basics, Basics', QuotaInv, NEW c \in Calls, Consume(c)
  PROVE  QuotaInv'
<1>0. /\ LimiterTypeOK /\ call[c] \in CallStates /\ call[c].pc = "consume"
      /\ call[c].n \in 1..2 /\ call[c].item = 1
      /\ UNCHANGED <<now, since, metered>>
  BY DEF Basics, LimiterTypeOK, Phases, Consume
<1>1. PICK k \in CallStates :
        /\ call' = [call EXCEPT ![c] = k]
        /\ Continues(k, call[c]) /\ k.item = call[c].item
        /\ k.pc = IF limits.requests + call[c].n <= call[c].effective
                   THEN "store" ELSE "refused"
  BY <1>0, ConsumeEffect
<1>2. /\ call'[c] = k /\ \A d \in Calls \ {c} : call'[d] = call[d]
  BY <1>0, <1>1, OneCall
<1>3. /\ limits \in UserLimits /\ limits # NoRow /\ limits' # NoRow
      /\ limits' \in UserLimits /\ limits'.resetAt = limits.resetAt
      /\ limits'.requests = IF limits.requests + call[c].n <= call[c].effective
                             THEN limits.requests + call[c].n ELSE limits.requests
  BY ConsumeRow DEF Basics
<1>4. CASE limits.requests + call[c].n <= call[c].effective
  <2> DEFINE n == call[c].n
  <2>1. \A i \in 1..2 : ~Held(call[c], i)
    BY <1>0 DEF Held
  <2>2. \A i \in 1..2 : Held(k, i) => i <= n
    BY <1>1 DEF Held, Continues
  <2>3. Outstanding' \subseteq Outstanding \cup {<<c, i>> : i \in 1..n}
    <3> SUFFICES ASSUME NEW d \in Calls, NEW i \in 1..2, Held(call'[d], i)
                 PROVE  Held(call[d], i) \/ (d = c /\ i \in 1..n)
      BY DEF Outstanding
    <3>1. QED
      BY <1>0, <1>2, <2>2
  <2>4. /\ IsFiniteSet(Outstanding \cup {<<c, i>> : i \in 1..n})
        /\ Cardinality(Outstanding \cup {<<c, i>> : i \in 1..n})
             <= Cardinality(Outstanding) + n
    <3>0. IsFiniteSet(Outstanding) /\ Cardinality(Outstanding) \in Nat
      BY FS_CardinalityType DEF QuotaInv
    <3> DEFINE one == Outstanding \cup {<<c, 1>>}
               two == one \cup {<<c, 2>>}
    <3>1. IsFiniteSet(one) /\ Cardinality(one) <= Cardinality(Outstanding) + 1
          /\ Cardinality(one) \in Nat
      BY <3>0, AddOne
    <3>2. IsFiniteSet(two) /\ Cardinality(two) <= Cardinality(one) + 1
          /\ Cardinality(two) \in Nat
      <4> HIDE DEF one
      <4> QED
        BY <3>1, AddOne
    <3>3. CASE n = 1
      <4>1. Outstanding \cup {<<c, i>> : i \in 1..n} = one
        BY <3>3
      <4>2. QED
        BY <3>1, <3>3, <4>1
    <3>4. CASE n = 2
      <4>1. Outstanding \cup {<<c, i>> : i \in 1..n} = two
        BY <3>4
      <4>2. Cardinality(two) <= Cardinality(Outstanding) + n
        <5> HIDE DEF one, two
        <5> QED
          BY <3>0, <3>1, <3>2, <3>4
      <4>3. QED
        BY <3>2, <4>1, <4>2
    <3>5. QED
      BY <1>0, <3>3, <3>4
  <2>5. /\ IsFiniteSet(Outstanding')
        /\ Cardinality(Outstanding') <= Cardinality(Outstanding) + n
    <3> DEFINE more == Outstanding \cup {<<c, i>> : i \in 1..n}
    <3>1. /\ IsFiniteSet(Outstanding') /\ Cardinality(Outstanding') <= Cardinality(more)
      BY <2>3, <2>4, FS_Subset
    <3>2. /\ Cardinality(Outstanding') \in Nat /\ Cardinality(more) \in Nat
          /\ Cardinality(Outstanding) \in Nat
      BY <2>4, <3>1, FS_CardinalityType DEF QuotaInv
    <3>3. Cardinality(more) <= Cardinality(Outstanding) + n
      BY <2>4
    <3> HIDE DEF more
    <3>4. QED
      BY <1>0, <3>1, <3>2, <3>3
  <2>6. /\ metered \in Nat /\ MaxLimit \in Nat
        /\ Cardinality(Outstanding) \in Nat /\ Cardinality(Outstanding') \in Nat
        /\ limits.requests \in Nat /\ limits.resetAt \in Nat /\ since \in Nat
    BY <1>0, <1>3, <2>5, Names, FS_CardinalityType DEF LimiterTypeOK, QuotaInv, UserLimits
  <2> DEFINE quota == Quota(limits.resetAt - 1 - since)
  <2>7. quota \in Nat
    <3>1. limits.resetAt - 1 - since \in Nat
      BY <1>3, <2>6 DEF QuotaInv
    <3>2. QED
      BY <3>1, QuotaGrows
  <2>8. metered + Cardinality(Outstanding) + MaxLimit <= quota + limits.requests
    BY <1>3 DEF QuotaInv
  <2>9. metered + Cardinality(Outstanding') + MaxLimit <= quota + limits'.requests
    <3> HIDE DEF quota
    <3> QED
      BY <1>0, <1>3, <1>4, <2>5, <2>6, <2>7, <2>8
  <2>10. /\ since + 1 <= limits.resetAt /\ limits.resetAt <= now + 1
    BY <1>3 DEF QuotaInv
  <2>11. QED
    BY <1>0, <1>3, <2>5, <2>9, <2>10 DEF QuotaInv
<1>5. CASE ~ (limits.requests + call[c].n <= call[c].effective)
  <2>1. k.pc = "refused"
    BY <1>1, <1>5
  <2>2. \A d \in Calls, i \in 1..2 : Held(call'[d], i) => Held(call[d], i)
    BY <1>2, <2>1 DEF Held
  <2>3. SamePeriod(limits', limits)
    BY <1>3, <1>5 DEF SamePeriod
  <2>4. QED
    BY <1>0, <1>3, <2>2, <2>3, QuotaKept
<1>6. QED
  BY <1>4, <1>5

\* A period that begins adds as much to the quota as the row may have counted.
LEMMA QuotaReset ==
  ASSUME Basics, Basics', QuotaInv, NEW c \in Calls, ResetPeriod(c)
  PROVE  QuotaInv'
<1>0. /\ LimiterTypeOK /\ call[c] \in CallStates /\ call[c].pc = "reset"
      /\ limits # NoRow /\ limits \in UserLimits
      /\ UNCHANGED <<now, since, metered>> /\ limits' = FreshPeriod(limits, now)
  BY DEF Basics, LimiterTypeOK, Phases, NothingBefore, ResetPeriod
<1>1. PICK k \in CallStates :
        /\ call' = [call EXCEPT ![c] = k] /\ k.pc = "consume"
  BY <1>0, GotoEffect DEF ResetPeriod, Phase
<1>2. /\ call'[c] = k /\ \A d \in Calls \ {c} : call'[d] = call[d]
  BY <1>0, <1>1, OneCall
<1>3. \A d \in Calls, i \in 1..2 : Held(call'[d], i) => Held(call[d], i)
  BY <1>1, <1>2 DEF Held
<1>4. /\ limits' \in UserLimits
      /\ IF now >= limits.resetAt THEN limits'.requests = 0 /\ limits'.resetAt = now + 1
         ELSE limits' = limits
  BY <1>0, FreshRow DEF LimiterTypeOK
<1>5. CASE ~ (now >= limits.resetAt)
  BY <1>0, <1>3, <1>4, <1>5, QuotaKept DEF SamePeriod
<1>6. CASE now >= limits.resetAt
  <2>1. /\ IsFiniteSet(Outstanding')
        /\ Cardinality(Outstanding') <= Cardinality(Outstanding)
    BY <1>3, OutstandingLess DEF QuotaInv
  <2>2. /\ metered \in Nat /\ MaxLimit \in Nat /\ now \in Nat
        /\ Cardinality(Outstanding) \in Nat /\ Cardinality(Outstanding') \in Nat
        /\ limits.requests \in 0..MaxLimit /\ limits.resetAt \in Nat /\ since \in Nat
    BY <1>0, <2>1, Names, FS_CardinalityType DEF LimiterTypeOK, QuotaInv, UserLimits
  <2>3. /\ since + 1 <= limits.resetAt
        /\ metered + Cardinality(Outstanding) + MaxLimit
             <= Quota(limits.resetAt - 1 - since) + limits.requests
    BY <1>0 DEF QuotaInv
  <2> DEFINE a == limits.resetAt - 1 - since
             b == limits'.resetAt - 1 - since'
  <2>4. a \in Nat /\ b \in Nat /\ a + 1 <= b /\ a + 1 \in Nat
    BY <1>0, <1>4, <1>6, <2>2, <2>3
  <2>5. /\ Quota(a) \in Nat /\ Quota(a + 1) = Quota(a) + MaxLimit
        /\ Quota(a + 1) <= Quota(b) /\ Quota(b) \in Nat
    <3> HIDE DEF a, b
    <3> QED
      BY <2>4, QuotaGrows
  <2>6. metered + Cardinality(Outstanding) + MaxLimit <= Quota(a) + limits.requests
    BY <2>3
  <2>7. metered' + Cardinality(Outstanding') + MaxLimit <= Quota(b) + limits'.requests
    <3>0. metered' = metered /\ limits'.requests = 0
      BY <1>0, <1>4, <1>6
    <3> HIDE DEF a, b
    <3> QED
      BY <2>1, <2>2, <2>5, <2>6, <3>0
  <2>8. since' + 1 <= limits'.resetAt /\ limits'.resetAt <= now' + 1
    BY <1>0, <1>4, <1>6, <2>2, <2>3
  <2>9. QED
    BY <2>1, <2>7, <2>8 DEF QuotaInv
<1>7. QED
  BY <1>5, <1>6

\* The first limits a user saves begin a period of their own.
LEMMA QuotaUpdate ==
  ASSUME Basics, Basics', QuotaInv, NEW s \in LimitSettings, UpdateLimits(s)
  PROVE  QuotaInv'
<1>0. /\ LimiterTypeOK /\ UNCHANGED <<now, call, metered>>
      /\ now \in Nat \ {0} /\ MaxLimit \in Nat
  BY Names DEF Basics, LimiterTypeOK, UpdateLimits
<1>1. /\ limits' \in UserLimits /\ limits' # NoRow
      /\ IF limits = NoRow
            THEN limits'.requests = 0 /\ limits'.resetAt = now + 1 /\ since' = now - 1
            ELSE SamePeriod(limits', limits) /\ since' = since
  BY <1>0, UpdateEffect
<1>2. CASE limits # NoRow
  BY <1>0, <1>1, <1>2, QuotaKept
<1>3. CASE limits = NoRow
  <2>1. Outstanding' = {} /\ metered' = 0
    BY <1>0, <1>3 DEF Basics, NothingBefore, Outstanding, Held
  <2>2. IsFiniteSet(Outstanding') /\ Cardinality(Outstanding') = 0
    BY <2>1, FS_EmptySet
  <2>3. limits'.resetAt - 1 - since' = 1
    BY <1>0, <1>1, <1>3
  <2>4. Quota(limits'.resetAt - 1 - since') = MaxLimit
    BY <2>3, QuotaGrows
  <2>5. since' + 1 <= limits'.resetAt /\ limits'.resetAt <= now' + 1
    BY <1>0, <1>1, <1>3
  <2>6. metered' + Cardinality(Outstanding') + MaxLimit <= MaxLimit + limits'.requests
    BY <1>0, <1>1, <1>3, <2>1, <2>2
  <2>7. QED
    BY <2>2, <2>4, <2>5, <2>6 DEF QuotaInv
<1>4. QED
  BY <1>2, <1>3

\* The other actions: no call holds more than before.
LEMMA QuotaNext ==
  ASSUME Basics, QuotaInv, [Next]_vars
  PROVE  QuotaInv'
<1>0. /\ Basics' /\ LimiterTypeOK /\ Phases
      /\ limits # NoRow => SamePeriod(limits, limits)
      /\ \A c \in Calls : call[c] \in CallStates
  BY BasicsNext DEF Basics, LimiterTypeOK, SamePeriod
<1>1. ASSUME UNCHANGED <<limits, metered, since, call>>, now' = now \/ now' = now + 1
      PROVE  QuotaInv'
  BY <1>0, <1>1, QuotaKept
<1>2. ASSUME NEW c \in Calls, NEW k \in CallStates, call' = [call EXCEPT ![c] = k],
             UNCHANGED <<limits, metered, since, now>>,
             \A i \in 1..2 : Held(k, i) => Held(call[c], i)
      PROVE  QuotaInv'
  <2>1. /\ call'[c] = k /\ \A d \in Calls \ {c} : call'[d] = call[d]
    BY <1>0, <1>2, OneCall
  <2>2. \A d \in Calls, i \in 1..2 : Held(call'[d], i) => Held(call[d], i)
    BY <1>2, <2>1
  <2>3. QED
    BY <1>0, <1>2, <2>2, QuotaKept
<1>3. ASSUME NEW c \in Calls, NEW n \in 1..2, NEW w \in Windows, Receive(c, n, w)
      PROVE  QuotaInv'
  <2>1. PICK k \in CallStates : call' = [call EXCEPT ![c] = k] /\ k.effective = Unlimited
    BY <1>0, <1>3, ReceiveEffect
  <2>2. QED
    BY <1>2, <1>3, <2>1 DEF Receive, Held
<1>4. ASSUME NEW c \in Calls, Check(c)
      PROVE  QuotaInv'
  <2>1. PICK k \in CallStates :
           /\ call' = [call EXCEPT ![c] = k]
           /\ \/ k.effective = Unlimited
              \/ k.pc = IF k.expired THEN "reset" ELSE "consume"
    BY <1>0, <1>4, CheckEffect
  <2>2. \A i \in 1..2 : ~Held(k, i)
    BY <2>1 DEF Held
  <2>3. QED
    BY <1>2, <1>4, <2>1, <2>2 DEF Check
<1>5. ASSUME NEW c \in Calls, StoreFails(c)
      PROVE  QuotaInv'
  <2>1. PICK k \in CallStates : call' = [call EXCEPT ![c] = k] /\ k.pc = "failed"
    BY <1>0, <1>5, GotoEffect DEF StoreFails, Phase
  <2>2. QED
    BY <1>2, <1>5, <2>1 DEF StoreFails, Held
<1>6. ASSUME NEW c \in Calls, Count(c)
      PROVE  QuotaInv'
  <2>1. PICK k \in CallStates :
           /\ call' = [call EXCEPT ![c] = k]
           /\ Continues(k, call[c])
           /\ \/ k.pc = "flush" /\ k.item = call[c].item
              \/ k.pc = "store" /\ k.item = call[c].item + 1
              \/ k.pc = "created"
    BY <1>0, <1>6, CountEffect
  <2>2. call[c].pc = "count"
    BY <1>6 DEF Count
  <2>3. \A i \in 1..2 : Held(k, i) => Held(call[c], i)
    BY <1>0, <2>1, <2>2, HeldLess
  <2>4. QED
    BY <1>2, <1>6, <2>1, <2>3 DEF Count
<1>7. CASE Flush
  <2>1. /\ UNCHANGED <<limits, now, since, metered>>
        /\ call' \in [Calls -> CallStates]
        /\ \A c \in Calls :
             /\ Continues(call'[c], call[c])
             /\ call'[c] # call[c] =>
                  /\ call[c].pc = "flush"
                  /\ \/ call'[c].pc = "failed"
                     \/ call'[c].pc = "store" /\ call'[c].item = call[c].item + 1
                     \/ call'[c].pc = "created"
    BY <1>7, FlushFrame
  <2>2. ASSUME NEW c \in Calls, NEW i \in 1..2, Held(call'[c], i)
        PROVE  Held(call[c], i)
    <3>1. call[c] \in CallStates /\ call'[c] \in CallStates
      BY <1>0, <2>1
    <3>2. QED
      BY <2>1, <2>2, <3>1, HeldLess
  <2>3. QED
    BY <1>0, <2>1, <2>2, QuotaKept
<1>8. ASSUME NEW tokens \in 0..1, NEW spend \in 0..1, Ingest(tokens, spend)
      PROVE  QuotaInv'
  <2>1. limits # NoRow /\ SamePeriod(limits', limits)
    BY <1>0, <1>8, IngestEffect
  <2>2. UNCHANGED <<now, call, metered, since>>
    BY <1>8 DEF Ingest
  <2>3. QED
    BY <1>0, <2>1, <2>2, QuotaKept
<1>9. ASSUME NEW i \in ChatItems, ChatStore(i) \/ ChatCount(i)
      PROVE  QuotaInv'
  BY <1>1, <1>9 DEF ChatStore, ChatCount
<1>10. CASE Clock \/ UNCHANGED vars
  BY <1>1, <1>10 DEF Clock, vars, admissionVars
<1>11. QED
  BY <1>0, <1>3, <1>4, <1>5, <1>6, <1>7, <1>8, <1>9, <1>10, QuotaStore, QuotaConsume,
     QuotaReset, QuotaUpdate
  DEF Next

\* Type correctness, what each call knows in its phase, and the quota's
\* invariant (api/v1/requests POST, rate-limit/).
THEOREM LimiterInvariant == Spec => [](Basics /\ QuotaInv)
<1>1. Init => Basics /\ QuotaInv
  BY BasicsInit, QuotaInit
<1>2. Basics /\ QuotaInv /\ [Next]_vars => (Basics /\ QuotaInv)'
  BY BasicsNext, QuotaNext
<1>3. QED
  BY <1>1, <1>2, PTL DEF Spec

\* However many calls check on stale rows or find the period expired at once,
\* no more is stored on the quota than the periods that have begun allow
\* (checkRateLimit, resetPeriod and consumePeriodRequests between awaits).
THEOREM QuotaAlwaysHolds == Spec => []QuotaHolds
<1>1. Basics /\ QuotaInv => QuotaHolds
  <2> SUFFICES ASSUME Basics, QuotaInv PROVE QuotaHolds
    OBVIOUS
  <2>0. /\ metered \in Nat /\ now \in Nat /\ since \in Nat /\ since <= now
        /\ MaxLimit \in Nat /\ limits \in UserLimits \cup {NoRow}
    BY Names DEF Basics, LimiterTypeOK
  <2>1. now - since \in Nat /\ Quota(now - since) \in Nat
    <3>1. now - since \in Nat
      BY <2>0
    <3>2. QED
      BY <3>1, QuotaGrows
  <2>2. metered <= Quota(now - since)
    <3>1. CASE limits = NoRow
      BY <2>1, <3>1 DEF Basics, NothingBefore
    <3>2. CASE limits # NoRow
      <4> DEFINE a == limits.resetAt - 1 - since
      <4>1. /\ limits.resetAt \in Nat /\ limits.requests \in 0..MaxLimit
            /\ Cardinality(Outstanding) \in Nat
        BY <2>0, <3>2, FS_CardinalityType DEF UserLimits, QuotaInv
      <4>2. /\ since + 1 <= limits.resetAt /\ limits.resetAt <= now + 1
            /\ metered + Cardinality(Outstanding) + MaxLimit <= Quota(a) + limits.requests
        BY <3>2 DEF QuotaInv
      <4>3. a \in Nat /\ a <= now - since
        BY <2>0, <4>1, <4>2
      <4>4. Quota(a) \in Nat /\ Quota(a) <= Quota(now - since)
        <5> HIDE DEF a
        <5> QED
          BY <2>1, <4>3, QuotaGrows
      <4>5. QED
        <5> HIDE DEF a
        <5> QED
          BY <2>0, <2>1, <4>1, <4>2, <4>4
    <3>3. QED
      BY <3>1, <3>2
  <2>3. QED
    BY <2>2 DEF Quota, QuotaHolds
<1>2. QED
  BY <1>1, LimiterInvariant, PTL

-----------------------------------------------------------------------------
(* A call of one item on an expired period *)

\* Another's step that takes no capacity leaves the period as it was, or empty.
LEMMA FreshKept ==
  ASSUME Basics, FreshInv, NEW d \in Calls, call'[d] = call[d],
         d \notin rivals' => d \notin rivals,
         now' = now \/ now' = now + 1,
         \/ d \in rivals'
         \/ limits'.requests = 0
         \/ limits'.requests = limits.requests /\ limits'.resetAt = limits.resetAt
  PROVE  d \notin rivals' => Fresh(d)'
<1> SUFFICES ASSUME d \notin rivals', d \notin rivals PROVE Fresh(d)'
  OBVIOUS
<1>1. Fresh(d)
  BY DEF FreshInv
<1>2. CASE limits'.requests = 0
  BY <1>1, <1>2 DEF Fresh
<1>3. CASE limits'.requests = limits.requests /\ limits'.resetAt = limits.resetAt
  <2>1. limits.resetAt <= now /\ limits.requests # 0 /\ call[d].pc = "reset"
          => limits'.resetAt <= now'
    <3>1. ASSUME call[d].pc = "reset" PROVE limits \in UserLimits
      BY <3>1 DEF Basics, LimiterTypeOK, Phases, NothingBefore
    <3>2. limits \in UserLimits => limits.resetAt \in Nat
      BY DEF UserLimits
    <3>3. now \in Nat
      BY DEF Basics, LimiterTypeOK
    <3>4. QED
      BY <1>3, <3>1, <3>2, <3>3
  <2>2. QED
    BY <1>1, <1>3, <2>1 DEF Fresh
<1>4. QED
  BY <1>2, <1>3

\* The steps of d itself.
LEMMA FreshOwn ==
  ASSUME Basics, FreshInv, NEW d \in Calls, d \notin rivals',
         \/ \E n \in 1..2, w \in Windows : Receive(d, n, w)
         \/ Check(d) \/ ResetPeriod(d) \/ Consume(d)
  PROVE  Fresh(d)'
<1>0. /\ LimiterTypeOK /\ Phases /\ NothingBefore
      /\ call[d] \in CallStates /\ now \in Nat
      /\ call[d].pc # "idle" => call[d].n \in 1..2
  BY DEF Basics, LimiterTypeOK, Phases
<1>1. ASSUME NEW n \in 1..2, NEW w \in Windows, Receive(d, n, w)
      PROVE  Fresh(d)'
  <2>1. PICK k \in CallStates :
          call' = [call EXCEPT ![d] = k] /\ k.pc = "check" /\ k.seen = limits
    BY <1>0, <1>1, ReceiveEffect
  <2>2. call'[d] = k
    BY <1>0, <2>1, OneCall
  <2>3. limits' = limits
    BY <1>1 DEF Receive
  <2>4. QED
    BY <2>1, <2>2, <2>3 DEF Fresh
<1>2. CASE Check(d)
  <2> DEFINE row == call[d].seen
             w == call[d].window
  <2>1. PICK k \in CallStates :
           /\ call' = [call EXCEPT ![d] = k] /\ k.n = call[d].n
           /\ k.reason = Refusal(row, w, call[d].n, now)
           /\ k.expired = (row # NoRow /\ now >= row.resetAt)
           /\ k.pc \in {"refused", "store"} \/ k.pc = IF k.expired THEN "reset" ELSE "consume"
    BY <1>0, <1>2, CheckEffect
  <2>2. call'[d] = k
    BY <1>0, <2>1, OneCall
  <2>3. /\ limits' = limits /\ now' = now /\ rivals' = rivals /\ call[d].pc = "check"
        /\ row \in UserLimits \cup {NoRow}
    BY <1>0, <1>2 DEF Check, CallStates
  <2>4. row # NoRow => limits.requests = 0 \/ limits.resetAt = row.resetAt
    BY <2>3 DEF FreshInv, Fresh
  <2>5. k.pc = "reset" => limits.requests = 0 \/ limits.resetAt <= now
    BY <2>1, <2>4
  <2>6. ~(k.reason = "requests" /\ k.n = 1 /\ k.expired)
    <3> SUFFICES ASSUME k.reason = "requests", k.n = 1, k.expired PROVE FALSE
      OBVIOUS
    <3>1. /\ row # NoRow /\ row.maxRequests # Unlimited
          /\ (IF now >= row.resetAt THEN 0 ELSE row.requests) + 1
               > EffectiveLimit(row.maxRequests, w)
      BY <2>1, RequestRefusal
    <3>2. now >= row.resetAt
      BY <2>1
    <3>3. EffectiveLimit(row.maxRequests, w) \in 1..MaxLimit
      BY <1>0, <2>3, <3>1, EffectiveBounds DEF CallStates, UserLimits
    <3>4. QED
      BY <3>1, <3>2, <3>3, Names
  <2>7. k.pc = "consume" => ~k.expired
    BY <2>1
  <2>8. QED
    BY <2>1, <2>2, <2>3, <2>5, <2>6, <2>7 DEF Fresh
<1>3. CASE ResetPeriod(d)
  <2>1. PICK k \in CallStates :
          call' = [call EXCEPT ![d] = k] /\ k.pc = "consume"
    BY <1>0, <1>3, GotoEffect DEF ResetPeriod, Phase
  <2>2. call'[d] = k
    BY <1>0, <2>1, OneCall
  <2>3. /\ limits \in UserLimits /\ limits' = FreshPeriod(limits, now)
        /\ rivals' = rivals /\ call[d].pc = "reset"
    BY <1>0, <1>3 DEF ResetPeriod, Phases, NothingBefore, LimiterTypeOK
  <2>4. limits.requests = 0 \/ limits.resetAt <= now
    BY <2>3 DEF FreshInv, Fresh
  <2>5. limits'.requests = 0
    <3>1. limits.resetAt \in Nat
      BY <2>3 DEF UserLimits
    <3>2. IF now >= limits.resetAt THEN limits'.requests = 0 ELSE limits' = limits
      BY <1>0, <2>3, FreshRow
    <3>3. QED
      BY <1>0, <2>4, <3>1, <3>2
  <2>6. QED
    BY <2>1, <2>2, <2>5 DEF Fresh
<1>4. CASE Consume(d)
  <2>1. PICK k \in CallStates :
           /\ call' = [call EXCEPT ![d] = k] /\ Continues(k, call[d])
           /\ k.pc = IF limits.requests + call[d].n <= call[d].effective
                      THEN "store" ELSE "refused"
    BY <1>0, <1>4, ConsumeEffect
  <2>2. call'[d] = k
    BY <1>0, <2>1, OneCall
  <2>3. call[d].pc = "consume" /\ d \notin rivals
    BY <1>4 DEF Consume
  <2>4. call[d].expired => limits.requests = 0
    BY <2>3 DEF FreshInv, Fresh
  <2>5. call[d].effective \in 1..MaxLimit
    BY <1>0, <2>3 DEF Phases, CallStates
  <2>6. k.pc = "refused" => ~(k.n = 1 /\ k.expired)
    BY <2>1, <2>4, <2>5, Names DEF Continues
  <2>7. QED
    BY <2>1, <2>2, <2>6 DEF Fresh
<1>5. QED
  BY <1>1, <1>2, <1>3, <1>4

LEMMA FreshNext ==
  ASSUME Basics, FreshInv, [Next]_vars
  PROVE  FreshInv'
<1> SUFFICES ASSUME NEW d \in Calls, d \notin rivals'
             PROVE  Fresh(d)'
  BY DEF FreshInv
<1>0. /\ LimiterTypeOK /\ Phases /\ NothingBefore
      /\ \A c \in Calls : call[c] \in CallStates
  BY DEF Basics, LimiterTypeOK
<1>1. ASSUME call'[d].pc \notin {"check", "reset", "consume", "refused"}
      PROVE  Fresh(d)'
  BY <1>1 DEF Fresh
<1>2. ASSUME call'[d] = call[d], UNCHANGED <<limits, rivals>>, now' = now \/ now' = now + 1
      PROVE  Fresh(d)'
  BY <1>2, FreshKept
<1>3. ASSUME NEW c \in Calls, NEW k \in CallStates, call' = [call EXCEPT ![c] = k], c # d
      PROVE  call'[d] = call[d]
  BY <1>0, <1>3, OneCall
<1>4. ASSUME NEW c \in Calls,
             \/ \E n \in 1..2, w \in Windows : Receive(c, n, w)
             \/ Check(c)
      PROVE  Fresh(d)'
  <2>1. CASE c = d
    BY <1>4, <2>1, FreshOwn
  <2>2. CASE c # d
    <3>1. \E k \in CallStates : call' = [call EXCEPT ![c] = k]
      <4>1. ASSUME NEW n \in 1..2, NEW w \in Windows, Receive(c, n, w)
            PROVE  \E k \in CallStates : call' = [call EXCEPT ![c] = k]
        BY <1>0, <4>1, ReceiveEffect
      <4>2. CASE Check(c)
        BY <1>0, <4>2, CheckEffect
      <4>3. QED
        BY <1>4, <4>1, <4>2
    <3>2. call'[d] = call[d]
      BY <1>3, <2>2, <3>1
    <3>3. limits' = limits /\ now' = now /\ d \notin rivals
      BY <1>4, <2>2 DEF Receive, Check
    <3>4. QED
      BY <3>2, <3>3, FreshKept
  <2>3. QED
    BY <2>1, <2>2
<1>5. ASSUME NEW c \in Calls, ResetPeriod(c)
      PROVE  Fresh(d)'
  <2>1. CASE c = d
    BY <1>5, <2>1, FreshOwn
  <2>2. CASE c # d
    <3>1. call'[d] = call[d]
      <4>1. \E k \in CallStates : call' = [call EXCEPT ![c] = k]
        BY <1>0, <1>5, GotoEffect DEF ResetPeriod, Phase
      <4>2. QED
        BY <1>3, <2>2, <4>1
    <3>2. now' = now /\ rivals' = rivals
      BY <1>5 DEF ResetPeriod
    <3>3. \/ limits'.requests = 0
          \/ limits'.requests = limits.requests /\ limits'.resetAt = limits.resetAt
      <4>1. limits \in UserLimits /\ limits' = FreshPeriod(limits, now) /\ now \in Nat
        BY <1>0, <1>5 DEF ResetPeriod, Phases, NothingBefore, LimiterTypeOK
      <4>2. QED
        BY <4>1, FreshRow
    <3>4. QED
      BY <3>1, <3>2, <3>3, FreshKept
  <2>3. QED
    BY <2>1, <2>2
<1>6. ASSUME NEW c \in Calls, Consume(c)
      PROVE  Fresh(d)'
  <2>1. CASE c = d
    BY <1>6, <2>1, FreshOwn
  <2>2. CASE c # d
    <3>1. call'[d] = call[d]
      <4>1. \E k \in CallStates : call' = [call EXCEPT ![c] = k]
        BY <1>0, <1>6, ConsumeEffect
      <4>2. QED
        BY <1>3, <2>2, <4>1
    <3>2. limits' = limits /\ rivals' = rivals /\ now' = now
      BY <1>6, <2>2 DEF Consume
    <3>3. QED
      BY <1>2, <3>1, <3>2
  <2>3. QED
    BY <2>1, <2>2
<1>7. ASSUME NEW c \in Calls, Store(c) \/ StoreFails(c) \/ Count(c)
      PROVE  Fresh(d)'
  <2>1. PICK k \in CallStates :
          /\ call' = [call EXCEPT ![c] = k]
          /\ k.pc \in {"count", "failed", "flush", "store", "created"}
    <3>1. CASE Store(c)
      BY <1>0, <3>1, GotoEffect DEF Store, Phase
    <3>2. CASE StoreFails(c)
      BY <1>0, <3>2, GotoEffect DEF StoreFails, Phase
    <3>3. CASE Count(c)
      BY <1>0, <3>3, CountEffect
    <3>4. QED
      BY <1>7, <3>1, <3>2, <3>3
  <2>2. UNCHANGED <<limits, now, rivals>>
    BY <1>7 DEF Store, StoreFails, Count
  <2>3. CASE c = d
    <3>1. call'[d] = k
      BY <1>0, <2>1, <2>3, OneCall
    <3>2. QED
      BY <1>1, <2>1, <3>1
  <2>4. CASE c # d
    BY <1>2, <1>3, <2>1, <2>2, <2>4
  <2>5. QED
    BY <2>3, <2>4
<1>8. ASSUME NEW i \in ChatItems, ChatStore(i) \/ ChatCount(i)
      PROVE  Fresh(d)'
  BY <1>2, <1>8 DEF ChatStore, ChatCount
<1>9. CASE Flush
  <2>1. /\ UNCHANGED <<limits, now, rivals>>
        /\ call'[d] # call[d] => call'[d].pc \in {"failed", "store", "created"}
    BY <1>9, FlushFrame
  <2>2. QED
    BY <1>1, <1>2, <2>1
<1>10. ASSUME NEW tokens \in 0..1, NEW spend \in 0..1, Ingest(tokens, spend)
       PROVE  Fresh(d)'
  <2>1. /\ limits'.requests = limits.requests /\ limits'.resetAt = limits.resetAt
        /\ UNCHANGED <<call, now, rivals>>
    BY <1>0, <1>10, IngestEffect DEF SamePeriod, Ingest
  <2>2. QED
    BY <2>1, FreshKept
<1>11. ASSUME NEW s \in LimitSettings, UpdateLimits(s)
       PROVE  Fresh(d)'
  <2>1. /\ \/ limits'.requests = 0
           \/ limits'.requests = limits.requests /\ limits'.resetAt = limits.resetAt
        /\ UNCHANGED <<call, now, rivals>>
    BY <1>0, <1>11, UpdateEffect DEF SamePeriod, UpdateLimits
  <2>2. QED
    BY <2>1, FreshKept
<1>12. CASE Clock \/ UNCHANGED vars
  BY <1>2, <1>12 DEF Clock, vars, admissionVars
<1>13. QED
  BY <1>4, <1>5, <1>6, <1>7, <1>8, <1>9, <1>10, <1>11, <1>12 DEF Next

\* A call of one item that finds the period expired is refused by the request
\* limit only if another has taken capacity since it read the row, at any
\* health and under any limit (computeEffectiveLimit's minimum of one).
THEOREM MinimumAlwaysAdmitted == Spec => []MinimumThroughput
<1>1. Init => FreshInv
  BY DEF Init, FreshInv, Fresh, Idle
<1>2. Basics /\ FreshInv /\ [Next]_vars => FreshInv'
  BY FreshNext
<1>3. FreshInv => MinimumThroughput
  BY DEF FreshInv, Fresh, MinimumThroughput
<1>4. QED
  BY <1>1, <1>2, <1>3, LimiterInvariant, PTL DEF Spec

-----------------------------------------------------------------------------
(* Every row that waits is counted *)

LEMMA SmallerSet ==
  ASSUME NEW S, NEW T, IsFiniteSet(S), T \subseteq S
  PROVE  /\ IsFiniteSet(T) /\ Cardinality(T) <= Cardinality(S)
         /\ Cardinality(T) \in Nat /\ Cardinality(S) \in Nat
BY FS_Subset, FS_CardinalityType

\* A row is inserted, and its caller has still to count it.
LEMMA CountStored ==
  ASSUME QueueInv, CountInv, NEW i, StoreItem(i), NEW u, u \notin Uncounted,
         Uncounted' = Uncounted \cup {u}
  PROVE  IsFiniteSet(queued') /\ CountInv'
<1>1. /\ IsFiniteSet(Uncounted') /\ Cardinality(Uncounted') = Cardinality(Uncounted) + 1
      /\ Cardinality(Uncounted) \in Nat
  BY FS_AddElement, FS_CardinalityType DEF CountInv
<1>2. /\ queued' = queued \cup {i}
      /\ UNCHANGED <<pendingCount, flusher, snapshot, taken, flushed, fullPage>>
  BY DEF StoreItem
<1>3. ASSUME NEW S
      PROVE  /\ Cardinality(queued \ S) \in Nat /\ Cardinality(queued' \ S) \in Nat
             /\ Cardinality(queued' \ S) <= Cardinality(queued \ S) + 1
  <2>1. IsFiniteSet(queued \ S)
    BY SmallerSet DEF QueueInv
  <2> DEFINE more == (queued \ S) \cup {i}
  <2>2. /\ IsFiniteSet(more) /\ Cardinality(more) \in Nat
        /\ Cardinality(queued \ S) \in Nat /\ Cardinality(more) <= Cardinality(queued \ S) + 1
    BY <2>1, AddOne
  <2>3. queued' \ S \subseteq more
    BY <1>2
  <2> HIDE DEF more
  <2>4. Cardinality(queued' \ S) <= Cardinality(more) /\ Cardinality(queued' \ S) \in Nat
    BY <2>2, <2>3, SmallerSet
  <2>5. QED
    BY <2>2, <2>4
<1>4. IsFiniteSet(queued')
  BY <1>2, AddOne DEF QueueInv
<1>5. ASSUME ~fullPage PROVE Cardinality(Waiting') <= pendingCount + Cardinality(Uncounted')
  <2>1. Cardinality(Waiting) <= pendingCount + Cardinality(Uncounted)
    BY <1>5 DEF CountInv
  <2>2. /\ Cardinality(Waiting') <= Cardinality(Waiting) + 1
        /\ Cardinality(Waiting') \in Nat /\ Cardinality(Waiting) \in Nat
    BY <1>2, <1>3 DEF Waiting
  <2>3. QED
    BY <1>1, <2>1, <2>2 DEF QueueInv
<1>6. ASSUME flushing, taken # NotRead, Cardinality(taken) < MaxRequests
      PROVE  Cardinality(queued' \ taken)
               <= pendingCount - snapshot.count + Cardinality(Uncounted')
  <2>1. Cardinality(queued \ taken)
          <= pendingCount - snapshot.count + Cardinality(Uncounted)
    BY <1>6 DEF CountInv
  <2>2. /\ Cardinality(queued' \ taken) <= Cardinality(queued \ taken) + 1
        /\ Cardinality(queued' \ taken) \in Nat /\ Cardinality(queued \ taken) \in Nat
    BY <1>3
  <2>3. QED
    BY <1>1, <2>1, <2>2 DEF QueueInv
<1>7. QED
  BY <1>1, <1>2, <1>4, <1>5, <1>6 DEF CountInv, flushing

\* The row is counted, and no longer its caller.
LEMMA CountCounted ==
  ASSUME QueueInv, CountInv, NEW i, NEW who, CountItem(i, who), NEW u, u \in Uncounted,
         Uncounted' = Uncounted \ {u}
  PROVE  pendingCount' \in Nat /\ snapshot.count' \in Nat /\ CountInv'
<1>1. /\ IsFiniteSet(Uncounted') /\ Cardinality(Uncounted') = Cardinality(Uncounted) - 1
      /\ Cardinality(Uncounted) \in Nat
  BY FS_RemoveElement, FS_CardinalityType DEF CountInv
<1>2. /\ UNCHANGED <<queued, flushed, fullPage>> /\ pendingCount' = pendingCount + 1
      /\ \/ UNCHANGED <<flusher, snapshot, taken>>
         \/ ~flushing /\ snapshot'.count = pendingCount + 1 /\ taken' = NotRead
  BY DEF CountItem, BeginFlush
<1>3. /\ pendingCount \in Nat /\ snapshot.count \in Nat
      /\ pendingCount' \in Nat /\ snapshot'.count \in Nat
  BY <1>2 DEF QueueInv
<1>4. pendingCount' + Cardinality(Uncounted') = pendingCount + Cardinality(Uncounted)
  BY <1>1, <1>2, <1>3
<1>5. ~fullPage' => Cardinality(Waiting') <= pendingCount' + Cardinality(Uncounted')
  BY <1>2, <1>4 DEF CountInv, Waiting
<1>6. CASE UNCHANGED <<flusher, snapshot, taken>>
  <2>1. flushing' => snapshot'.count <= pendingCount'
    BY <1>2, <1>3, <1>6 DEF CountInv, flushing
  <2>2. pendingCount' - snapshot'.count + Cardinality(Uncounted')
          = pendingCount - snapshot.count + Cardinality(Uncounted)
    BY <1>1, <1>2, <1>3, <1>6
  <2>3. QED
    BY <1>1, <1>2, <1>3, <1>5, <1>6, <2>1, <2>2 DEF CountInv, flushing
<1>7. CASE snapshot'.count = pendingCount + 1 /\ taken' = NotRead
  BY <1>1, <1>2, <1>3, <1>5, <1>7 DEF CountInv
<1>8. QED
  BY <1>2, <1>6, <1>7

\* What a flush has read it has flushed, or put back; what it has not read is
\* counted unless its page was full.
LEMMA CountFlushed ==
  ASSUME QueueInv, CountInv, Uncounted' = Uncounted,
         \/ \E who : TriggerFlush(who)
         \/ StartTimer \/ StopTimer \/ FlushReads \/ FlushReturns \/ FlushThrows
  PROVE  /\ IsFiniteSet(queued') /\ pendingCount' \in Nat /\ snapshot'.count \in Nat
         /\ CountInv'
<1>0. /\ IsFiniteSet(queued) /\ pendingCount \in Nat /\ snapshot.count \in Nat
      /\ IsFiniteSet(Uncounted) /\ Cardinality(Uncounted) \in Nat
      /\ Cardinality(Waiting) \in Nat /\ IsFiniteSet(Waiting)
      /\ MaxRequests \in Nat
  BY FS_CardinalityType, SmallerSet, QueueAssumption DEF QueueInv, CountInv, Waiting
<1>1. CASE \/ \E who : TriggerFlush(who)
           \/ StartTimer \/ StopTimer
  <2>1. /\ UNCHANGED <<queued, pendingCount, flushed, fullPage>>
        /\ \/ UNCHANGED <<flusher, snapshot, taken>>
           \/ snapshot'.count = pendingCount /\ taken' = NotRead
    BY <1>1 DEF TriggerFlush, StartTimer, StopTimer, BeginFlush
  <2>2. CASE UNCHANGED <<flusher, snapshot, taken>>
    BY <1>0, <2>1, <2>2 DEF CountInv, flushing, Waiting
  <2>3. CASE snapshot'.count = pendingCount /\ taken' = NotRead
    BY <1>0, <2>1, <2>3 DEF CountInv, Waiting
  <2>4. QED
    BY <2>1, <2>2, <2>3
<1>2. CASE FlushReads
  <2>1. /\ UNCHANGED <<queued, pendingCount, flusher, snapshot, flushed, fullPage>>
        /\ flushing
    BY <1>2 DEF FlushReads
  <2>2. PICK T \in SUBSET queued : OldestPage(T) /\ taken' = T
    BY <1>2 DEF FlushReads
  <2>3. /\ IsFiniteSet(T) /\ Cardinality(T) \in Nat /\ Cardinality(queued) \in Nat
        /\ Cardinality(T) = IF Cardinality(queued) < MaxRequests THEN Cardinality(queued)
                            ELSE MaxRequests
    BY <1>0, <2>2, SmallerSet DEF OldestPage
  <2>4. Cardinality(T) <= MaxRequests
    BY <1>0, <2>3
  <2>5. ASSUME Cardinality(T) < MaxRequests
        PROVE  Cardinality(queued \ T) <= pendingCount - snapshot.count + Cardinality(Uncounted)
    <3>1. Cardinality(T) = Cardinality(queued)
      BY <1>0, <2>3, <2>5
    <3>2. T = queued
      BY <1>0, <2>2, <3>1, FS_Subset
    <3>3. Cardinality(queued \ T) = 0
      BY <3>2, FS_EmptySet
    <3>4. snapshot.count <= pendingCount
      BY <2>1 DEF CountInv
    <3>5. QED
      BY <1>0, <3>3, <3>4
  <2>6. QED
    BY <1>0, <2>1, <2>2, <2>3, <2>4, <2>5 DEF CountInv, flushing, Waiting
<1>3. CASE FlushReturns
  <2>1. PICK S \in SUBSET taken : queued' = queued \ S
    BY <1>3 DEF FlushReturns, Dequeue
  <2>2. /\ flushing /\ taken # NotRead /\ flusher' = NoOne /\ snapshot'.count = 0
        /\ pendingCount' = Less(pendingCount, snapshot.count)
        /\ flushed' = (flushed \cup taken) \cap queued'
        /\ fullPage' = (Cardinality(taken) = MaxRequests)
    BY <1>3 DEF FlushReturns, EndFlush, NoSnapshot
  <2>3. IsFiniteSet(queued')
    BY <1>0, <2>1, SmallerSet
  <2>4. pendingCount' = pendingCount - snapshot.count /\ pendingCount' \in Nat
    BY <1>0, <2>2 DEF Less, CountInv
  <2>5. ASSUME ~fullPage' PROVE Cardinality(Waiting') <= pendingCount' + Cardinality(Uncounted')
    <3>1. Cardinality(taken) < MaxRequests
      <4>1. Cardinality(taken) # MaxRequests
        BY <2>2, <2>5
      <4>2. Cardinality(taken) \in Nat /\ Cardinality(taken) <= MaxRequests
        BY <2>2 DEF CountInv
      <4>3. QED
        BY <1>0, <4>1, <4>2
    <3>2. Cardinality(queued \ taken)
            <= pendingCount - snapshot.count + Cardinality(Uncounted)
      BY <2>2, <3>1 DEF CountInv
    <3>3. Waiting' \subseteq queued \ taken /\ IsFiniteSet(queued \ taken)
      BY <1>0, <2>1, <2>2, SmallerSet DEF Waiting
    <3>4. /\ Cardinality(Waiting') <= Cardinality(queued \ taken)
          /\ Cardinality(Waiting') \in Nat /\ Cardinality(queued \ taken) \in Nat
      BY <3>3, SmallerSet
    <3>5. QED
      BY <1>0, <2>4, <3>2, <3>4
  <2>6. ~flushing'
    BY <2>2 DEF flushing
  <2>7. QED
    BY <1>0, <2>2, <2>3, <2>4, <2>5, <2>6 DEF CountInv
<1>4. CASE FlushThrows
  <2>1. PICK S : queued' = queued \ S
    BY <1>4 DEF FlushThrows, Dequeue
  <2>2. /\ flusher' = NoOne /\ snapshot'.count = 0
        /\ flushed' = flushed \cap queued'
        /\ UNCHANGED <<pendingCount, fullPage>>
    BY <1>4 DEF FlushThrows, EndFlush, NoSnapshot
  <2>3. IsFiniteSet(queued')
    BY <1>0, <2>1, SmallerSet
  <2>4. Cardinality(Waiting') <= Cardinality(Waiting) /\ Cardinality(Waiting') \in Nat
    <3>1. Waiting' \subseteq Waiting
      BY <2>1, <2>2 DEF Waiting
    <3>2. QED
      BY <1>0, <3>1, SmallerSet
  <2>5. ~fullPage' => Cardinality(Waiting') <= pendingCount' + Cardinality(Uncounted')
    BY <1>0, <2>2, <2>4 DEF CountInv
  <2>6. ~flushing'
    BY <2>2 DEF flushing
  <2>7. QED
    BY <1>0, <2>2, <2>3, <2>5, <2>6 DEF CountInv
<1>5. QED
  BY <1>1, <1>2, <1>3, <1>4

LEMMA CountInit == Init => QueueInv /\ CountInv
<1> SUFFICES ASSUME Init PROVE QueueInv /\ CountInv
  OBVIOUS
<1>1. Uncounted = {} /\ queued = {} /\ Waiting = {}
  BY DEF Init, QueueInit, Uncounted, Waiting, Idle
<1>2. QED
  BY <1>1, FS_EmptySet, Names DEF Init, QueueInit, QueueInv, CountInv, flushing

\* Who has a row to count changes only with the steps that store and count.
LEMMA SameUncounted ==
  ASSUME \A c \in Calls : call'[c].pc = "count" <=> call[c].pc = "count",
         \A i \in ChatItems : chat'[i] = "count" <=> chat[i] = "count"
  PROVE  Uncounted' = Uncounted
BY DEF Uncounted

LEMMA CountKept ==
  ASSUME QueueInv, CountInv, UNCHANGED queueVars,
         \A c \in Calls : call'[c].pc = "count" <=> call[c].pc = "count", chat' = chat
  PROVE  (QueueInv /\ CountInv)'
<1>1. Uncounted' = Uncounted
  BY SameUncounted
<1>2. QED
  BY <1>1 DEF queueVars, QueueInv, CountInv, Waiting, flushing

LEMMA CountNext ==
  ASSUME Basics, QueueInv, CountInv, [Next]_vars
  PROVE  (QueueInv /\ CountInv)'
<1>0. /\ LimiterTypeOK /\ Phases
      /\ \A c \in Calls : call[c] \in CallStates
      /\ chat \in [ChatItems -> {"unsent", "count", "flush", "sent"}]
      /\ \A i \in ChatItems : flusher = i => chat[i] = "flush"
      /\ \A c \in Calls : c \notin ChatItems
      /\ \A i \in ChatItems : i # Timer /\ i # FlushApi /\ i # NoOne
  BY Names, AdmissionAssumption DEF Basics, LimiterTypeOK, QueueInv
<1>1. ASSUME NEW c \in Calls, NEW k \in CallStates, call' = [call EXCEPT ![c] = k],
             k.pc # "count", call[c].pc # "count", chat' = chat, UNCHANGED queueVars
      PROVE  (QueueInv /\ CountInv)'
  <2>1. call'[c] = k /\ \A d \in Calls \ {c} : call'[d] = call[d]
    BY <1>0, <1>1, OneCall
  <2>2. QED
    BY <1>1, <2>1, CountKept
<1>2. ASSUME NEW c \in Calls, NEW n \in 1..2, NEW w \in Windows, Receive(c, n, w)
      PROVE  (QueueInv /\ CountInv)'
  <2>1. PICK k \in CallStates : call' = [call EXCEPT ![c] = k] /\ k.pc = "check"
    BY <1>0, <1>2, ReceiveEffect
  <2>2. QED
    BY <1>1, <1>2, <2>1 DEF Receive
<1>3. ASSUME NEW c \in Calls, Check(c)
      PROVE  (QueueInv /\ CountInv)'
  <2>1. PICK k \in CallStates : call' = [call EXCEPT ![c] = k] /\ k.pc # "count"
    <3>1. PICK k \in CallStates :
           /\ call' = [call EXCEPT ![c] = k]
           /\ k.pc \in {"refused", "store"} \/ k.pc = IF k.expired THEN "reset" ELSE "consume"
      BY <1>0, <1>3, CheckEffect
    <3>2. QED
      BY <3>1
  <2>2. QED
    BY <1>1, <1>3, <2>1 DEF Check
<1>4. ASSUME NEW c \in Calls, ResetPeriod(c) \/ StoreFails(c)
      PROVE  (QueueInv /\ CountInv)'
  <2>1. PICK k \in CallStates :
          call' = [call EXCEPT ![c] = k] /\ k.pc \in {"consume", "failed"}
    <3>1. CASE ResetPeriod(c)
      BY <1>0, <3>1, GotoEffect DEF ResetPeriod, Phase
    <3>2. CASE StoreFails(c)
      BY <1>0, <3>2, GotoEffect DEF StoreFails, Phase
    <3>3. QED
      BY <1>4, <3>1, <3>2
  <2>2. QED
    BY <1>1, <1>4, <2>1 DEF ResetPeriod, StoreFails
<1>5. ASSUME NEW c \in Calls, Consume(c)
      PROVE  (QueueInv /\ CountInv)'
  <2>1. PICK k \in CallStates :
          call' = [call EXCEPT ![c] = k] /\ k.pc \in {"store", "refused"}
    BY <1>0, <1>5, ConsumeEffect
  <2>2. QED
    BY <1>1, <1>5, <2>1 DEF Consume
<1>6. ASSUME NEW c \in Calls, Store(c)
      PROVE  (QueueInv /\ CountInv)'
  <2>1. PICK k \in CallStates : call' = [call EXCEPT ![c] = k] /\ k.pc = "count"
    BY <1>0, <1>6, GotoEffect DEF Store, Phase
  <2>2. call'[c] = k /\ \A d \in Calls \ {c} : call'[d] = call[d]
    BY <1>0, <2>1, OneCall
  <2>3. /\ call[c].pc = "store" /\ chat' = chat /\ StoreItem(<<c, call[c].item>>)
    BY <1>6 DEF Store
  <2>4. c \notin Uncounted /\ Uncounted' = Uncounted \cup {c}
    BY <1>0, <2>1, <2>2, <2>3 DEF Uncounted
  <2>5. IsFiniteSet(queued') /\ CountInv'
    BY <2>3, <2>4, CountStored
  <2>6. QED
    BY <1>0, <2>3, <2>5 DEF QueueInv, StoreItem
<1>7. ASSUME NEW c \in Calls, Count(c)
      PROVE  (QueueInv /\ CountInv)'
  <2>1. PICK k \in CallStates :
          call' = [call EXCEPT ![c] = k] /\ k.pc \in {"flush", "store", "created"}
    BY <1>0, <1>7, CountEffect
  <2>2. call'[c] = k /\ \A d \in Calls \ {c} : call'[d] = call[d]
    BY <1>0, <2>1, OneCall
  <2>3. /\ call[c].pc = "count" /\ chat' = chat /\ CountItem(<<c, call[c].item>>, c)
    BY <1>7 DEF Count
  <2>4. c \in Uncounted /\ Uncounted' = Uncounted \ {c}
    BY <1>0, <2>1, <2>2, <2>3 DEF Uncounted
  <2>5. pendingCount' \in Nat /\ snapshot.count' \in Nat /\ CountInv'
    BY <2>3, <2>4, CountCounted
  <2>6. queued' = queued /\ (flusher' = flusher \/ flusher' = c)
    BY <2>3, CountFlusher DEF CountItem
  <2>7. QED
    BY <1>0, <2>3, <2>5, <2>6 DEF QueueInv
<1>8. ASSUME NEW i \in ChatItems, ChatStore(i)
      PROVE  (QueueInv /\ CountInv)'
  <2>1. /\ chat[i] = "unsent" /\ chat' = [chat EXCEPT ![i] = "count"] /\ call' = call
        /\ StoreItem(i)
    BY <1>8 DEF ChatStore
  <2>2. i \notin Uncounted /\ Uncounted' = Uncounted \cup {i}
    BY <1>0, <2>1 DEF Uncounted
  <2>3. IsFiniteSet(queued') /\ CountInv'
    BY <2>1, <2>2, CountStored
  <2>4. QED
    BY <1>0, <2>1, <2>3 DEF QueueInv, StoreItem
<1>9. ASSUME NEW i \in ChatItems, ChatCount(i)
      PROVE  (QueueInv /\ CountInv)'
  <2> DEFINE next == IF flusher' = i THEN "flush" ELSE "sent"
  <2>1. /\ chat[i] = "count" /\ chat' = [chat EXCEPT ![i] = next]
        /\ call' = call /\ CountItem(i, i)
    BY <1>9 DEF ChatCount
  <2>2. next \in {"flush", "sent"} /\ (flusher' = i => next = "flush")
    OBVIOUS
  <2> HIDE DEF next
  <2>3. i \in Uncounted /\ Uncounted' = Uncounted \ {i}
    BY <1>0, <2>1, <2>2 DEF Uncounted
  <2>4. pendingCount' \in Nat /\ snapshot.count' \in Nat /\ CountInv'
    BY <2>1, <2>3, CountCounted
  <2>5. queued' = queued /\ (flusher' = flusher \/ flusher' = i)
    BY <2>1, CountFlusher DEF CountItem
  <2>6. QED
    BY <1>0, <2>1, <2>2, <2>4, <2>5 DEF QueueInv
<1>10. CASE Flush
  <2>1. /\ \A c \in Calls : call'[c].pc = "count" <=> call[c].pc = "count"
    BY <1>10, FlushFrame
  <2>2. /\ chat' \in [ChatItems -> {"unsent", "count", "flush", "sent"}]
        /\ \A i \in ChatItems : chat'[i] = "count" <=> chat[i] = "count"
        /\ \A i \in ChatItems : flusher' = i => chat'[i] = "flush"
    <3>1. CASE UNCHANGED admissionVars /\ flusher' \in {flusher, Timer, FlushApi}
      BY <1>0, <3>1 DEF admissionVars
    <3>2. CASE flusher' = NoOne /\ \E ok \in BOOLEAN : Resume(ok)
      <4>1. chat' = [i \in ChatItems |-> IF flusher = i THEN "sent" ELSE chat[i]]
        BY <3>2 DEF Resume
      <4>2. QED
        BY <1>0, <3>2, <4>1
    <3>3. QED
      BY <1>10, <3>1, <3>2
      DEF Flush, TriggerFlush, BeginFlush, StartTimer, StopTimer, FlushReads, FlushReturns,
          FlushThrows, EndFlush
  <2>3. Uncounted' = Uncounted
    BY <2>1, <2>2, SameUncounted
  <2>4. \/ \E who : TriggerFlush(who)
        \/ StartTimer \/ StopTimer \/ FlushReads \/ FlushReturns \/ FlushThrows
    BY <1>10 DEF Flush
  <2>5. /\ IsFiniteSet(queued') /\ pendingCount' \in Nat /\ snapshot'.count \in Nat
        /\ CountInv'
    BY <2>3, <2>4, CountFlushed
  <2>6. QED
    BY <2>2, <2>5 DEF QueueInv
<1>11. ASSUME UNCHANGED <<call, chat, queueVars>>
       PROVE  (QueueInv /\ CountInv)'
  BY <1>11, CountKept
<1>12. ASSUME \/ \E tokens, spend \in 0..1 : Ingest(tokens, spend)
              \/ \E s \in LimitSettings : UpdateLimits(s)
              \/ Clock \/ UNCHANGED vars
       PROVE  (QueueInv /\ CountInv)'
  BY <1>11, <1>12 DEF Ingest, UpdateLimits, Clock, vars, admissionVars
<1>13. QED
  BY <1>2, <1>3, <1>4, <1>5, <1>6, <1>7, <1>8, <1>9, <1>10, <1>12 DEF Next

\* Between flushes no row that waits for its first flush is missing in
\* pendingCount, unless the last flush filled its page: requests that arrive
\* while a flush runs, or whose flush throws, count towards the next trigger
\* (RequestQueue.triggerFlush subtracts what it counted when it began).
THEOREM WaitingAlwaysCounted == Spec => []WaitingIsCounted
<1>1. Basics /\ QueueInv /\ CountInv /\ [Next]_vars => (QueueInv /\ CountInv)'
  BY CountNext
<1>2. CountInv => WaitingIsCounted
  BY DEF CountInv, WaitingIsCounted, Waiting
<1>3. QED
  BY <1>1, <1>2, CountInit, LimiterInvariant, PTL DEF Spec
=============================================================================
