---------------------------- MODULE PollingProofs ----------------------------
(***************************************************************************)
(* The schedule of the tracker, the breaker and the Flex adapter's memory, *)
(* for all values of the constants.                                        *)
(***************************************************************************)
EXTENDS Polling, TLAPS, SequenceTheorems

-----------------------------------------------------------------------------
(* The strategies *)

\* Every preset asks again after at least 10 and at most 15 minutes.
LEMMA IntervalBounded ==
  ASSUME NEW name \in Presets, NEW elapsed \in Int, NEW polls \in Nat
  PROVE  NextInterval(name, elapsed, polls) \in MinInterval..MaxInterval
<1> USE DEF Least, Greatest, Clamp, MinInterval, MaxInterval
<1>1. \A i \in Int : Clamp(i) \in 1..60
  OBVIOUS
<1>2. Backoff(polls) \in Int
  BY DEF Backoff
<1>3. DeadlineAware(elapsed) \in Int
  <2> DEFINE left == Greatest(0, Least(CompletionWindow, CompletionWindow - elapsed))
  <2>1. left \in Int /\ left * 19 \in Int
    BY WindowAssumption
  <2>2. (left * 19) \div CompletionWindow \in Int
    BY <2>1, WindowAssumption
  <2>3. QED
    BY <2>2 DEF DeadlineAware
<1>4. Eager(elapsed, polls) \in Int
  BY <1>2 DEF Eager
<1>5. QED
  BY <1>1, <1>2, <1>3, <1>4 DEF NextInterval, Presets

-----------------------------------------------------------------------------
(* The results of the Flex adapter *)

Sendings == [batch : FlexBatches \cup {0}, results : Seq(BOOLEAN), attempt : Nat]

\* A batch in the cache has all of its results, and so does one whose handler
\* runs: nothing but the handler itself and a restart takes them away.
FlexInv ==
  /\ sending \in Sendings
  /\ cache \in [FlexBatches -> Seq(BOOLEAN)]
  /\ \A b \in FlexBatches : cache[b] # NoEntry => Len(cache[b]) = FlexRequests
  /\ handler \in [FlexBatches -> {"none", "running", "done"}]
  /\ EndedHasResults

LEMMA SendingTypes ==
  ASSUME NEW R, NEW x \in [batch : FlexBatches \cup {0}, results : R, attempt : Nat],
         NEW s \in R, NEW n \in Nat
  PROVE  /\ [x EXCEPT !.results = s, !.attempt = n]
              \in [batch : FlexBatches \cup {0}, results : R, attempt : Nat]
         /\ [x EXCEPT !.attempt = n] \in [batch : FlexBatches \cup {0}, results : R, attempt : Nat]
         /\ x.results \in R /\ x.attempt + 1 \in Nat
<1>1. x.batch \in FlexBatches \cup {0} /\ x.results \in R /\ x.attempt \in Nat
  OBVIOUS
<1>2. x.attempt + 1 \in Nat
  BY <1>1
<1>3. [x EXCEPT !.attempt = n] \in [batch : FlexBatches \cup {0}, results : R, attempt : Nat]
  OBVIOUS
<1>4. [x EXCEPT !.results = s, !.attempt = n]
        \in [batch : FlexBatches \cup {0}, results : R, attempt : Nat]
  OBVIOUS
<1>5. QED
  BY <1>1, <1>2, <1>3, <1>4

LEMMA FlexStarts == Init => FlexInv
BY DEF Sendings, Init, FlexInit, FlexInv, NotSending, NoEntry, EndedHasResults

LEMMA SendKeeps ==
  ASSUME FlexInv, FlexSubmit
  PROVE  FlexInv'
<1> USE FlexAssumption DEF FlexInv, EndedHasResults
<1>1. CASE \E b \in FlexBatches : FlexBegin(b) /\ UNCHANGED pollVars
  BY <1>1 DEF FlexBegin, pollVars, Sendings
<1>2. ASSUME NEW success \in BOOLEAN, FlexAnswer(success), UNCHANGED pollVars
      PROVE  FlexInv'
  <2>1. Append(sending.results, success) \in Seq(BOOLEAN)
    <3>1. sending.results \in Seq(BOOLEAN)
      BY Zenon, SendingTypes DEF Sendings
    <3>2. QED
      BY <3>1, AppendProperties, Zenon
  <2>2. sending' = [sending EXCEPT !.results = Append(sending.results, success), !.attempt = 0]
    BY <1>2 DEF FlexAnswer
  <2>3. sending' \in Sendings
    <3>1. 0 \in Nat
      OBVIOUS
    <3>2. QED
      BY <2>1, <2>2, <3>1, SendingTypes, Zenon DEF Sendings
  <2>4. QED
    BY <1>2, <2>3 DEF FlexAnswer, pollVars
<1>3. CASE FlexRetry /\ UNCHANGED pollVars
  <2>1. sending' = [sending EXCEPT !.attempt = sending.attempt + 1]
    BY <1>3 DEF FlexRetry
  <2>2. sending' \in Sendings
    <3>1. sending.attempt + 1 \in Nat
      BY Zenon, SendingTypes DEF Sendings
    <3>2. QED
      BY <2>1, <3>1, SendingTypes, Zenon DEF Sendings
  <2>3. QED
    BY <1>3, <2>2 DEF FlexRetry, pollVars
<1>4. ASSUME NEW b \in FlexBatches, FlexReturn(b), UNCHANGED handler
      PROVE  FlexInv'
  BY <1>4 DEF FlexReturn, NotSending, Sendings
<1>5. QED
  BY <1>1, <1>2, <1>3, <1>4 DEF FlexSubmit

LEMMA FlexKeeps ==
  ASSUME FlexInv, [Next]_vars
  PROVE  FlexInv'
<1> USE FlexAssumption DEF FlexInv, EndedHasResults
<1>1. CASE UNCHANGED <<flexVars, handler>>
  BY <1>1 DEF flexVars
<1>2. ASSUME NEW b \in Batches, CheckAnswers(b)
      PROVE  FlexInv'
  <2>1. /\ UNCHANGED flexVars
        /\ handler' = [c \in FlexBatches |->
                         IF c = b /\ Answer(b) = "ended" THEN "running" ELSE handler[c]]
        /\ Answer(b) # "throws"
    BY <1>2 DEF CheckAnswers
  <2>2. b \in FlexBatches => cache[b] # NoEntry
    BY <2>1 DEF Answer, FlexStatus
  <2>3. QED
    BY <2>1, <2>2 DEF flexVars
<1>3. CASE \E b \in FlexBatches : HandlerEnds(b)
  BY <1>3 DEF HandlerEnds, FlexFetched, NoEntry
<1>4. CASE Restart
  BY <1>4 DEF Restart, FlexReset, NotSending, NoEntry, Sendings
<1>5. QED
  BY <1>1, <1>2, <1>3, <1>4, SendKeeps
  DEF Next, Tick, TickBegins, TickEnds, UnknownStrategy, Skip, CheckFails, UpdateFails, JobMoves,
      vars, pollVars

\* However many requests, batches, retries and restarts there are: a handler
\* that runs for a Flex batch finds all of its results.
THEOREM EndedAlwaysHasResults == Spec => []EndedHasResults
<1>1. FlexInv => EndedHasResults
  BY DEF FlexInv
<1>2. QED
  BY <1>1, FlexStarts, FlexKeeps, PTL DEF Spec

-----------------------------------------------------------------------------
(* The breaker *)

Breakers == [state : {"closed", "open", "half_open"}, failures : Nat, trippedAt : Nat]

BreakerInv == now \in Nat /\ restarts \in Nat /\ breaker \in Breakers

LEMMA BreakerTypes ==
  ASSUME NEW brk \in Breakers, NEW t \in Nat
  PROVE  RecordSuccess(brk, t) \in Breakers /\ RecordFailure(brk, t) \in Breakers
<1>1. \A x \in Breakers : Observe(x, t) \in Breakers
  BY DEF Breakers, Observe
<1>2. RecordSuccess(brk, t) \in Breakers
  <2>1. [brk EXCEPT !.failures = 0] \in Breakers
    BY DEF Breakers
  <2>2. \A x \in Breakers : [x EXCEPT !.state = "closed"] \in Breakers
    BY DEF Breakers
  <2>3. QED
    BY <1>1, <2>1, <2>2 DEF RecordSuccess
<1>3. RecordFailure(brk, t) \in Breakers
  <2>1. [brk EXCEPT !.failures = IF brk.failures < Threshold THEN brk.failures + 1
                                 ELSE brk.failures] \in Breakers
    BY DEF Breakers
  <2>2. \A x \in Breakers : [x EXCEPT !.state = "open", !.trippedAt = t] \in Breakers
    BY DEF Breakers
  <2>3. QED
    BY <1>1, <2>1, <2>2 DEF RecordFailure
<1>4. QED
  BY <1>2, <1>3

\* While it cools down, an open breaker counts, and nothing else.
LEMMA OpenStaysOpen ==
  ASSUME NEW brk \in Breakers, NEW t \in Nat, brk.state = "open", t - brk.trippedAt < Cooldown,
         NEW next \in {RecordSuccess(brk, t), RecordFailure(brk, t)}
  PROVE  next = [brk EXCEPT !.failures = next.failures]
BY BreakerAssumption DEF Breakers, RecordSuccess, RecordFailure, Observe

LEMMA BreakerStarts == Init => BreakerInv
BY DEF Init, BreakerInv, Breakers, NewBreaker

\* A step leaves the breaker, records an outcome at the present time, or is a
\* restart.
LEMMA BreakerSteps ==
  ASSUME BreakerInv, [Next]_vars
  PROVE  /\ now' \in Nat /\ restarts' \in Nat
         /\ \/ UNCHANGED <<breaker, restarts>>
            \/ breaker' \in {RecordSuccess(breaker, now'), RecordFailure(breaker, now')}
            \/ breaker' = NewBreaker /\ restarts' = restarts + 1
<1> USE PollingAssumption DEF BreakerInv
<1>1. CASE UNCHANGED <<breaker, restarts, now>>
  BY <1>1
<1>2. CASE \E n \in 0..1 : TickBegins(n)
  BY <1>2 DEF TickBegins
<1>3. CASE \E b \in Batches : CheckAnswers(b)
  BY <1>3 DEF CheckAnswers
<1>4. CASE Restart
  BY <1>4 DEF Restart
<1>5. QED
  BY <1>1, <1>2, <1>3, <1>4
  DEF Next, Tick, TickEnds, UnknownStrategy, Skip, CheckFails, UpdateFails, JobMoves, FlexSubmit,
      HandlerEnds, vars, pollVars

LEMMA BreakerKeeps ==
  ASSUME BreakerInv, [Next]_vars
  PROVE  BreakerInv'
<1>1. NewBreaker \in Breakers
  BY DEF NewBreaker, Breakers
<1>2. QED
  BY <1>1, BreakerSteps, BreakerTypes DEF BreakerInv

\* Whatever successes and failures arrive meanwhile: for any threshold and
\* cooldown, a breaker that opened stays so until its time is over.
THEOREM CooldownAlwaysHolds == Spec => CooldownHolds
<1> DEFINE Cools ==
      breaker.state = "open" /\ now' - breaker.trippedAt < Cooldown /\ restarts' = restarts =>
        breaker' = [breaker EXCEPT !.failures = breaker'.failures]
<1>1. BreakerInv /\ [Next]_vars => Cools
  <2> SUFFICES ASSUME BreakerInv, [Next]_vars, breaker.state = "open",
                      now' - breaker.trippedAt < Cooldown, restarts' = restarts
               PROVE  breaker' = [breaker EXCEPT !.failures = breaker'.failures]
    OBVIOUS
  <2>1. CASE UNCHANGED breaker
    BY <2>1 DEF BreakerInv, Breakers
  <2>2. CASE breaker' \in {RecordSuccess(breaker, now'), RecordFailure(breaker, now')}
    BY <2>2, BreakerSteps, OpenStaysOpen DEF BreakerInv
  <2>3. restarts' # restarts + 1
    BY DEF BreakerInv
  <2>4. QED
    BY <2>1, <2>2, <2>3, BreakerSteps
<1>2. BreakerInv /\ [Next]_vars => [Cools]_vars
  BY <1>1
<1>3. QED
  BY <1>2, BreakerStarts, BreakerKeeps, PTL DEF Spec, CooldownHolds

-----------------------------------------------------------------------------
(* The schedule *)

BatchStatus == {"absent", "submitted", "processing", "ended", "expired", "failed", "cancelled"}
JobState    == {"validating", "in_progress", "completed", "expired", "failed"}
Polls       == [last : Int, count : Nat]

ScheduleTypeOK ==
  /\ strategy \in [Batches -> Strategies]
  /\ now \in Nat /\ faults \in Nat /\ restarts \in Nat
  /\ status \in [Batches -> BatchStatus]
  /\ \A b \in JobBatches : status[b] # "absent"
  /\ poll \in [Batches -> Polls] /\ \A b \in Batches : poll[b].last <= now
  /\ job \in [JobBatches -> JobState]
  /\ endedAt \in [JobBatches -> Nat]
  /\ ticking = NoTick \/ ticking \subseteq Batches

\* What failures and restarts have cost so far.
Cost == faults * (MaxInterval + TickEvery) + restarts * TickEvery

\* A job the tracker has to find, with no batch of an unknown strategy before it.
Sought(b) ==
  /\ b \in JobBatches \ NoAdapter
  /\ MapStatus(job[b]) \in Terminal /\ status[b] \notin Terminal
  /\ \A c \in Batches : c <= b => strategy[c] \in Presets

\* While its turn is to come, the job may have waited a tick longer; and a poll
\* that did not find it is among the failures.
OnTime ==
  \A b \in Batches : Sought(b) =>
    /\ now - endedAt[b] <= MaxInterval + Cost + (IF b \in ticking THEN TickEvery ELSE 0)
    /\ poll[b].last - endedAt[b] <= Cost

ScheduleInv == ScheduleTypeOK /\ OnTime

\* The ids of batches are positive, so no batch is in NoTick.
LEMMA BatchIds == Batches \subseteq Nat \ {0} /\ JobBatches \subseteq Batches
BY PollingAssumption DEF Batches

LEMMA CostType ==
  ASSUME ScheduleTypeOK
  PROVE  Cost \in Nat /\ TickEvery \in Nat /\ MaxInterval = 60
BY PollingAssumption DEF Cost, ScheduleTypeOK, MaxInterval

\* A failure costs an interval and a tick, a restart a tick.
LEMMA CostOfTrouble ==
  ASSUME ScheduleTypeOK
  PROVE  /\ faults' = faults /\ restarts' = restarts => Cost' = Cost
         /\ faults' = faults + 1 /\ restarts' = restarts =>
              Cost' = Cost + MaxInterval + TickEvery
         /\ faults' = faults /\ restarts' = restarts + 1 => Cost' = Cost + TickEvery
<1> DEFINE k == MaxInterval + TickEvery
<1>1. faults \in Nat /\ restarts \in Nat /\ TickEvery \in Nat /\ k \in Nat
  BY PollingAssumption DEF ScheduleTypeOK, MaxInterval
<1>2. \A n, m \in Nat : (n + 1) * m = n * m + m /\ n * m \in Nat
  OBVIOUS
<1>3. Cost = faults * k + restarts * TickEvery /\ Cost' = faults' * k + restarts' * TickEvery
  BY DEF Cost, MaxInterval
<1>4. (faults + 1) * k = faults * k + k /\ (restarts + 1) * TickEvery = restarts * TickEvery + TickEvery
  BY <1>1, <1>2
<1> HIDE DEF k
<1>5. /\ faults' = faults /\ restarts' = restarts => Cost' = Cost
      /\ faults' = faults + 1 /\ restarts' = restarts => Cost' = Cost + k
      /\ faults' = faults /\ restarts' = restarts + 1 => Cost' = Cost + TickEvery
  BY <1>1, <1>2, <1>3, <1>4
<1>6. QED
  BY <1>1, <1>5, CostType DEF k

LEMMA ScheduleStarts == Init => ScheduleInv
<1> SUFFICES ASSUME Init PROVE ScheduleInv
  OBVIOUS
<1>1. ScheduleTypeOK
  BY BatchIds DEF Init, ScheduleTypeOK, BatchStatus, JobState, Polls, NoPoll
<1>2. OnTime
  BY <1>1 DEF Init, OnTime, Sought, MapStatus, Terminal
<1>3. QED
  BY <1>1, <1>2 DEF ScheduleInv

\* What is answered of a job is a status, and no check of a job throws by itself.
LEMMA JobAnswer ==
  ASSUME ScheduleTypeOK, NEW b \in JobBatches
  PROVE  /\ Answer(b) = MapStatus(job[b])
         /\ Answer(b) \in BatchStatus \ {"absent"} /\ Answer(b) # "throws"
<1>1. b \notin FlexBatches
  BY PollingAssumption
<1>2. job[b] \in JobState
  BY DEF ScheduleTypeOK
<1>3. QED
  BY <1>1, <1>2 DEF Answer, MapStatus, JobState, BatchStatus

LEMMA AnswerType ==
  ASSUME ScheduleTypeOK, NEW b \in Batches, Answer(b) # "throws"
  PROVE  Answer(b) \in BatchStatus \ {"absent"}
<1>1. CASE b \in JobBatches
  BY <1>1, JobAnswer
<1>2. CASE b \in FlexBatches
  BY <1>2 DEF Answer, FlexStatus, BatchStatus
<1>3. QED
  BY <1>1, <1>2 DEF Batches

\* A poll is noted with the time, a counter stays a number.
LEMMA PolledType ==
  ASSUME ScheduleTypeOK, NEW b \in Batches, Polled(b)
  PROVE  /\ poll' \in [Batches -> Polls]
         /\ poll'[b].last = now
         /\ \A c \in Batches \ {b} : poll'[c] = poll[c]
<1>1. poll[b] \in Polls
  BY DEF ScheduleTypeOK
<1>2. [last |-> now, count |-> IF poll[b].count < 6 THEN poll[b].count + 1 ELSE poll[b].count] \in Polls
  BY <1>1 DEF Polls, ScheduleTypeOK
<1>3. poll' = [poll EXCEPT ![b] =
                 [last |-> now, count |-> IF poll[b].count < 6 THEN poll[b].count + 1 ELSE poll[b].count]]
  BY DEF Polled
<1>4. QED
  BY <1>2, <1>3 DEF ScheduleTypeOK

LEMMA TickKeepsTypes ==
  ASSUME ScheduleTypeOK, Tick
  PROVE  ScheduleTypeOK'
<1> USE BatchIds DEF ScheduleTypeOK
<1>1. CASE \E n \in 0..1 : TickBegins(n)
  BY <1>1, CostType DEF TickBegins, InFlight, Polls
<1>2. CASE TickEnds
  BY <1>2 DEF TickEnds, NoPoll, Polls
<1>3. CASE \E b \in Batches : UnknownStrategy(b) \/ Skip(b)
  BY <1>3 DEF UnknownStrategy, Skip, Turn, NoTick
<1>4. ASSUME NEW b \in Batches, CheckFails(b)
      PROVE  ScheduleTypeOK'
  <2>1. /\ Polled(b) /\ b \in ticking /\ ticking' = ticking \ {b}
        /\ faults' \in Nat
        /\ UNCHANGED <<strategy, now, status, job, endedAt, restarts>>
    BY <1>4 DEF CheckFails, Asks, Turn
  <2>2. QED
    BY <2>1, PolledType DEF NoTick
<1>5. ASSUME NEW b \in Batches, CheckAnswers(b)
      PROVE  ScheduleTypeOK'
  <2>1. /\ Polled(b) /\ b \in ticking /\ ticking' = ticking \ {b}
        /\ status' = [status EXCEPT ![b] = Answer(b)] /\ Answer(b) # "throws"
        /\ endedAt' = [c \in JobBatches |-> IF c = b THEN 0 ELSE endedAt[c]]
        /\ UNCHANGED <<strategy, now, job, faults, restarts>>
    BY <1>5 DEF CheckAnswers, Asks, Turn
  <2>2. QED
    BY <2>1, PolledType, AnswerType DEF NoTick
<1>6. ASSUME NEW b \in Batches, UpdateFails(b)
      PROVE  ScheduleTypeOK'
  <2>1. /\ Polled(b) /\ ticking' = NoTick /\ faults' \in Nat
        /\ UNCHANGED <<strategy, now, status, job, endedAt, restarts>>
    BY <1>6 DEF UpdateFails
  <2>2. QED
    BY <2>1, PolledType
<1>7. QED
  BY <1>1, <1>2, <1>3, <1>4, <1>5, <1>6 DEF Tick

LEMMA ScheduleKeepsTypes ==
  ASSUME ScheduleTypeOK, [Next]_vars
  PROVE  ScheduleTypeOK'
<1> USE BatchIds DEF ScheduleTypeOK
<1>1. CASE UNCHANGED pollVars \/ \E b \in FlexBatches : HandlerEnds(b)
  BY <1>1 DEF pollVars, HandlerEnds
<1>2. CASE \E b \in JobBatches, s \in {"in_progress", "completed", "expired", "failed"} : JobMoves(b, s)
  BY <1>2 DEF JobMoves, JobState
<1>3. CASE FlexSubmit
  <2>1. ASSUME NEW b \in FlexBatches, status' = [status EXCEPT ![b] = "submitted"],
               UNCHANGED <<strategy, now, poll, job, endedAt, ticking, faults, restarts>>
        PROVE  ScheduleTypeOK'
    BY <2>1 DEF BatchStatus
  <2>2. QED
    BY <1>1, <1>3, <2>1 DEF FlexSubmit
<1>4. CASE Restart
  BY <1>4 DEF Restart, NoPoll, Polls
<1>5. QED
  BY <1>1, <1>2, <1>3, <1>4, TickKeepsTypes DEF Next, vars

\* A tick begins and ends; the jobs that are sought are in its snapshot.
LEMMA TickEdgeOnTime ==
  ASSUME ScheduleInv, (\E n \in 0..1 : TickBegins(n)) \/ TickEnds
  PROVE  OnTime'
<1> USE BatchIds, CostType DEF ScheduleInv, ScheduleTypeOK
<1>1. UNCHANGED <<strategy, status, job, endedAt, faults, restarts>> /\ Cost' = Cost
  BY CostOfTrouble DEF TickBegins, TickEnds
<1>2. \A b \in Batches : Sought(b)' <=> Sought(b)
  BY <1>1 DEF Sought
<1>3. CASE \E n \in 0..1 : TickBegins(n)
  <2>1. ticking = NoTick /\ now' = now + TickEvery /\ ticking' = InFlight /\ UNCHANGED poll
    BY <1>3 DEF TickBegins
  <2>2. \A b \in Batches : Sought(b) => b \in InFlight /\ b \notin ticking
    BY <2>1 DEF Sought, InFlight, NoTick, Terminal, BatchStatus
  <2>3. QED
    BY <1>1, <1>2, <2>1, <2>2 DEF OnTime, Sought, Polls
<1>4. CASE TickEnds
  <2>1. /\ ticking = {} /\ ticking' = NoTick /\ now' = now
        /\ \A b \in Batches : poll'[b] \in {poll[b], NoPoll}
    BY <1>4 DEF TickEnds
  <2>2. \A b \in Batches : poll'[b].last <= poll[b].last \/ poll'[b].last = -1
    BY <2>1 DEF NoPoll, Polls
  <2>3. QED
    BY <1>1, <1>2, <2>1, <2>2 DEF OnTime, Sought, NoTick, NoPoll, Polls
<1>5. QED
  BY <1>3, <1>4

\* It ends at a batch with an unknown strategy, behind which nothing is sought;
\* or a batch is not due, which was polled within the longest interval.
LEMMA PassOnTime ==
  ASSUME ScheduleInv, NEW c \in Batches, UnknownStrategy(c) \/ Skip(c)
  PROVE  OnTime'
<1> USE BatchIds, CostType DEF ScheduleInv, ScheduleTypeOK
<1>1. /\ UNCHANGED <<strategy, now, status, poll, job, endedAt, faults, restarts>> /\ Cost' = Cost
      /\ Turn(c) /\ ticking \subseteq Batches
  BY CostOfTrouble DEF UnknownStrategy, Skip, Turn, NoTick
<1>2. \A b \in Batches : Sought(b)' <=> Sought(b)
  BY <1>1 DEF Sought
<1>3. CASE UnknownStrategy(c)
  <2>1. ticking' = NoTick /\ \A b \in ticking : ~Sought(b)
    BY <1>1, <1>3 DEF UnknownStrategy, Turn, Sought
  <2>2. QED
    BY <1>1, <1>2, <2>1 DEF OnTime, NoTick
<1>4. CASE Skip(c)
  <2>1. ticking' = ticking \ {c}
    BY <1>4 DEF Skip
  <2>2. Sought(c) => now - poll[c].last < MaxInterval
    <3>1. Sought(c) => strategy[c] \in Presets /\ ~IsDue(c)
      BY <1>4 DEF Skip, Sought
    <3>2. poll[c].last \in Int /\ poll[c].count \in Nat
      BY DEF Polls
    <3>3. strategy[c] \in Presets =>
            NextInterval(strategy[c], now, poll[c].count) \in MinInterval..MaxInterval
      BY <3>2, IntervalBounded
    <3>4. QED
      BY <3>1, <3>2, <3>3 DEF IsDue, MinInterval
  <2>3. Sought(c) => now - endedAt[c] <= MaxInterval + Cost
    BY <2>2 DEF OnTime, Sought, Polls
  <2>4. QED
    BY <1>1, <1>2, <2>1, <2>3 DEF OnTime
<1>5. QED
  BY <1>3, <1>4

\* The provider has not answered, or the answer could not be written: the poll
\* is noted, and counted among the failures.
LEMMA FailedCheckOnTime ==
  ASSUME ScheduleInv, NEW c \in Batches, CheckFails(c) \/ UpdateFails(c)
  PROVE  OnTime'
<1> USE BatchIds, CostType DEF ScheduleInv, ScheduleTypeOK
<1>1. /\ UNCHANGED <<strategy, now, status, job, endedAt, restarts>>
      /\ Turn(c) /\ ticking \subseteq Batches
      /\ ticking' = ticking \ {c} \/ (ticking' = NoTick /\ faults' = faults + 1)
      /\ faults' = faults \/ faults' = faults + 1
      /\ c \in JobBatches => faults' = faults + 1
  BY JobAnswer DEF CheckFails, UpdateFails, Asks, Turn, NoTick
<1>2. \A b \in Batches : Sought(b)' <=> Sought(b)
  BY <1>1 DEF Sought
<1>3. /\ poll'[c].last = now /\ \A b \in Batches \ {c} : poll'[b] = poll[b]
  BY PolledType DEF CheckFails, UpdateFails
<1>4. \/ faults' = faults + 1 /\ Cost' = Cost + MaxInterval + TickEvery
      \/ faults' = faults /\ Cost' = Cost /\ ticking' = ticking \ {c}
  BY <1>1, CostOfTrouble
<1>5. CASE faults' = faults + 1 /\ Cost' = Cost + MaxInterval + TickEvery
  <2> SUFFICES ASSUME NEW b \in Batches, Sought(b)
               PROVE  /\ now - endedAt[b] <= MaxInterval + Cost'
                      /\ poll'[b].last - endedAt[b] <= Cost'
    <3>1. \A b \in Batches : Sought(b) => endedAt[b] \in Nat
      BY DEF Sought
    <3>2. Cost' \in Nat
      BY <1>5
    <3>3. QED
      BY <1>1, <1>2, <3>1, <3>2 DEF OnTime
  <2>1. now - endedAt[b] <= MaxInterval + Cost + TickEvery /\ poll[b].last - endedAt[b] <= Cost
    BY DEF OnTime, Sought
  <2>2. poll[b].last \in Int /\ endedAt[b] \in Nat
    BY DEF Sought, Polls
  <2>3. QED
    BY <1>3, <1>5, <2>1, <2>2
<1>6. CASE faults' = faults /\ Cost' = Cost /\ ticking' = ticking \ {c}
  <2>1. ~Sought(c)
    BY <1>1, <1>6 DEF Sought
  <2>2. QED
    BY <1>1, <1>2, <1>3, <1>6, <2>1 DEF OnTime
<1>7. QED
  BY <1>4, <1>5, <1>6

\* The provider has answered: a job that has ended is found.
LEMMA CheckOnTime ==
  ASSUME ScheduleInv, NEW c \in Batches, CheckAnswers(c)
  PROVE  OnTime'
<1> USE BatchIds, CostType DEF ScheduleInv, ScheduleTypeOK
<1>1. /\ UNCHANGED <<strategy, now, job, faults, restarts>> /\ Cost' = Cost
      /\ ticking' = ticking \ {c}
      /\ status' = [status EXCEPT ![c] = Answer(c)]
      /\ \A b \in JobBatches \ {c} : endedAt'[b] = endedAt[b]
  BY CostOfTrouble DEF CheckAnswers
<1>2. \A b \in Batches \ {c} : poll'[b] = poll[b]
  BY PolledType DEF CheckAnswers
<1>3. ~Sought(c)'
  BY <1>1, JobAnswer DEF Sought
<1>4. \A b \in Batches \ {c} : Sought(b)' <=> Sought(b)
  BY <1>1 DEF Sought
<1>5. \A b \in Batches \ {c} : Sought(b) => endedAt'[b] = endedAt[b]
  BY <1>1 DEF Sought
<1>6. QED
  BY <1>1, <1>2, <1>3, <1>4, <1>5 DEF OnTime

LEMMA ScheduleKeeps ==
  ASSUME ScheduleInv, [Next]_vars
  PROVE  ScheduleInv'
<1> USE BatchIds, CostType DEF ScheduleInv, ScheduleTypeOK
<1>1. ScheduleTypeOK'
  BY ScheduleKeepsTypes
<1>2. CASE UNCHANGED pollVars \/ \E b \in FlexBatches : HandlerEnds(b)
  <2>1. /\ UNCHANGED <<strategy, now, status, poll, job, endedAt, ticking, faults, restarts>>
        /\ Cost' = Cost
    BY <1>2, CostOfTrouble DEF pollVars, HandlerEnds
  <2>2. QED
    BY <1>1, <2>1 DEF OnTime, Sought
<1>3. ASSUME NEW b \in JobBatches, NEW s \in {"in_progress", "completed", "expired", "failed"}, JobMoves(b, s)
      PROVE  OnTime'
  <2>1. /\ ticking = NoTick /\ job' = [job EXCEPT ![b] = s]
        /\ endedAt' = [endedAt EXCEPT ![b] = IF MapStatus(s) \in Terminal THEN now ELSE 0]
        /\ UNCHANGED <<strategy, now, status, poll, ticking, faults, restarts>> /\ Cost' = Cost
    BY <1>3, CostOfTrouble DEF JobMoves
  <2>2. Sought(b)' => endedAt'[b] = now
    BY <2>1 DEF Sought
  <2>3. \A c \in Batches \ {b} : Sought(c)' <=> Sought(c)
    BY <2>1 DEF Sought
  <2>4. poll[b].last \in Int /\ poll[b].last <= now
    BY DEF Polls
  <2>5. QED
    BY <2>1, <2>2, <2>3, <2>4 DEF OnTime, Sought, NoTick
<1>4. CASE FlexSubmit
  <2>1. ASSUME NEW b \in FlexBatches, status' = [status EXCEPT ![b] = "submitted"],
               UNCHANGED <<strategy, now, poll, job, endedAt, ticking, faults, restarts>>
        PROVE  OnTime'
    <3>1. Cost' = Cost
      BY <2>1, CostOfTrouble
    <3>2. \A c \in Batches : Sought(c)' <=> Sought(c)
      BY <2>1, PollingAssumption DEF Sought
    <3>3. QED
      BY <2>1, <3>1, <3>2 DEF OnTime
  <2>2. QED
    BY <1>1, <1>2, <1>4, <2>1 DEF FlexSubmit
<1>5. CASE Restart
  <2>1. /\ Cost' = Cost + TickEvery /\ ticking' = NoTick
        /\ poll' = [c \in Batches |-> NoPoll]
        /\ UNCHANGED <<strategy, now, status, job, endedAt>>
    BY <1>5, CostOfTrouble DEF Restart
  <2>2. \A c \in Batches : Sought(c)' <=> Sought(c)
    BY <2>1 DEF Sought
  <2>3. \A c \in Batches : poll'[c].last = -1
    BY <2>1 DEF NoPoll
  <2>4. \A c \in Batches : c \notin ticking'
    BY <2>1 DEF NoTick
  <2>5. \A c \in Batches : Sought(c) =>
          /\ now - endedAt[c] <= MaxInterval + Cost + TickEvery
          /\ -1 - endedAt[c] <= Cost + TickEvery
    BY DEF OnTime, Sought
  <2>6. QED
    BY <1>1, <2>1, <2>2, <2>3, <2>4, <2>5 DEF OnTime
<1>6. CASE Tick
  BY <1>1, <1>6, TickEdgeOnTime, PassOnTime, FailedCheckOnTime, CheckOnTime DEF Tick
<1>7. QED
  BY <1>1, <1>2, <1>3, <1>4, <1>5, <1>6 DEF Next, vars

\* For any jobs, strategies, intervals of the timer, faults and restarts: a job
\* that has ended is found in time.
THEOREM AlwaysFoundInTime == Spec => []FoundInTime
<1>1. ScheduleInv => FoundInTime
  <2> SUFFICES ASSUME ScheduleInv, NEW b \in JobBatches \ NoAdapter, ticking = NoTick, Sought(b)
               PROVE  now - endedAt[b] <= MaxInterval + faults * (MaxInterval + TickEvery) + restarts * TickEvery
    BY BatchIds DEF FoundInTime, Sought
  <2>1. b \in Batches /\ b \notin ticking
    BY BatchIds DEF NoTick
  <2>2. now - endedAt[b] <= MaxInterval + Cost
    BY <2>1, CostType DEF ScheduleInv, OnTime
  <2>3. faults * (MaxInterval + TickEvery) \in Nat /\ restarts * TickEvery \in Nat
    BY CostType DEF ScheduleInv, ScheduleTypeOK
  <2>4. Cost = faults * (MaxInterval + TickEvery) + restarts * TickEvery
    BY DEF Cost
  <2>5. MaxInterval + Cost = MaxInterval + faults * (MaxInterval + TickEvery) + restarts * TickEvery
    <3>1. \A i, j, k \in Nat : i + (j + k) = i + j + k
      OBVIOUS
    <3>2. MaxInterval \in Nat
      BY DEF MaxInterval
    <3>3. QED
      BY <2>3, <2>4, <3>1, <3>2, Zenon
  <2>6. QED
    BY <2>2, <2>5
<1>2. QED
  BY <1>1, ScheduleStarts, ScheduleKeeps, PTL DEF Spec
=============================================================================
