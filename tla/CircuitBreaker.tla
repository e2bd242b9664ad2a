--------------------------- MODULE CircuitBreaker ---------------------------
(***************************************************************************)
(* engine/circuit-breaker.ts: closed -> open -> half_open -> closed.  All  *)
(* methods are synchronous, so each is a function of the breaker and of    *)
(* the time t; the cooldown is noticed only when the state is asked for.   *)
(* canSubmit has no caller, so the probe it would let through is left out. *)
(***************************************************************************)
EXTENDS Naturals

CONSTANTS
  Threshold,   \* consecutive failures before the breaker trips
  Cooldown     \* time it stays open

ASSUME BreakerAssumption == Threshold \in Nat \ {0} /\ Cooldown \in Nat

NewBreaker == [state |-> "closed", failures |-> 0, trippedAt |-> 0]

\* get state()
Observe(brk, t) ==
  IF brk.state = "open" /\ t - brk.trippedAt >= Cooldown
    THEN [brk EXCEPT !.state = "half_open"]
    ELSE brk

\* mutant: a success closes the breaker in every state
RecordSuccess_Closes(brk, t) ==
  [brk EXCEPT !.failures = 0, !.state = "closed"]

\* recordSuccess(): closes a half-open breaker; of an open one it only clears
\* the count
RecordSuccess(brk, t) ==
  LET b == Observe([brk EXCEPT !.failures = 0], t)
  IN IF b.state = "half_open" THEN [b EXCEPT !.state = "closed"] ELSE b

\* recordFailure(); the count is capped at Threshold, above which it has no
\* effect of its own
RecordFailure(brk, t) ==
  LET counted == [brk EXCEPT !.failures = IF @ < Threshold THEN @ + 1 ELSE @]
      b == Observe(counted, t)
  IN IF b.state = "half_open" \/ (b.state = "closed" /\ b.failures >= Threshold)
       THEN [b EXCEPT !.state = "open", !.trippedAt = t]
       ELSE b
=============================================================================
