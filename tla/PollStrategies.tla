--------------------------- MODULE PollStrategies ---------------------------
(***************************************************************************)
(* core/src/polling: how long the tracker waits before it asks a provider  *)
(* again.  Time is counted in units of 15 seconds, the finest interval of  *)
(* a preset.                                                               *)
(***************************************************************************)
EXTENDS Integers

CONSTANT CompletionWindow   \* defaultCompletionWindowMs

ASSUME WindowAssumption == CompletionWindow \in Nat \ {0}

Presets == {"linear", "backoff", "deadline-aware", "eager"}

Least(a, b)    == IF a < b THEN a ELSE b
Greatest(a, b) == IF a > b THEN a ELSE b

MinInterval == 1     \* MIN_INTERVAL_MS is 10 seconds; no preset comes near it
MaxInterval == 60    \* MAX_INTERVAL_MS: 15 minutes

\* clampInterval
Clamp(interval) == Greatest(MinInterval, Least(MaxInterval, interval))

\* 30 seconds, doubled by every poll, at most 10 minutes
Backoff(polls) == IF polls < 5 THEN <<2, 4, 8, 16, 32>>[polls + 1] ELSE 40

\* from 5 minutes to 15 seconds, in proportion to what is left of the window
DeadlineAware(elapsed) ==
  1 + (Greatest(0, Least(CompletionWindow, CompletionWindow - elapsed)) * 19) \div CompletionWindow

\* 15 seconds in the first 5 minutes
Eager(elapsed, polls) == IF elapsed < 20 THEN 1 ELSE Backoff(polls)

\* getClampedStrategy(name).nextInterval({elapsed since submittedAt, pollCount})
NextInterval(name, elapsed, polls) ==
  Clamp(CASE name = "linear"         -> 4
          [] name = "backoff"        -> Backoff(polls)
          [] name = "deadline-aware" -> DeadlineAware(elapsed)
          [] name = "eager"          -> Eager(elapsed, polls))
=============================================================================
