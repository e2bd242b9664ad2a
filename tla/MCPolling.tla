------------------------------ MODULE MCPolling ------------------------------
(***************************************************************************)
(* An instance of Polling for TLC.                                         *)
(***************************************************************************)
EXTENDS Polling

\* The strategies matter for the batch that comes first; the batches after it
\* have one that polls at every tick.
Start == Init /\ \A b \in Batches \ {1} : strategy[b] \in {"linear", "daily"}

\* A behaviour looks at the Flex batch, while the jobs stand still and within
\* the first ticks, or at the jobs, without it.
FlexSubject == (\A b \in JobBatches : job[b] = "validating") /\ now <= 4 * TickEvery
JobSubject  == sending = NotSending /\ \A b \in FlexBatches : status[b] = "absent"

\* The first batch has time to keep the tracker waiting; the second one ends
\* or fails in the first ticks.
SecondIsQuick == endedAt[2] <= 2 * TickEvery

MCSpec ==
  Start /\ [][Next /\ (FlexSubject' \/ JobSubject') /\ SecondIsQuick']_vars
=============================================================================
