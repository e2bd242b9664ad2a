------------------------------ MODULE MCDelivery ------------------------------
(***************************************************************************)
(* An instance of DeliveryWorker and RetentionWorker for TLC.              *)
(***************************************************************************)
EXTENDS RetentionWorker

\* The first result is bob's and has no target, the second one is ann's.
TwoUsers == [r \in Results |-> IF r = 1 THEN "bob" ELSE "ann"]

OnAck    == [kind |-> "on_ack",  days |-> 0]
OneDay   == [kind |-> "days",    days |-> 1]
LongTime == [kind |-> "days",    days |-> 9]
Unset    == [kind |-> "null",    days |-> 0]
Wrong    == [kind |-> "invalid", days |-> 0]

FourPolicies == {OnAck, LongTime, Unset, Wrong}

Start == RetentionInit /\ policyOf["bob"] = Unset /\ policyOf["ann"] # Unset

\* A behaviour looks at the deliveries alone, with every trouble they can have;
\* the policies do not matter then, so one is enough.
DeliverySubject ==
  /\ spc = "idle"
  /\ \A r \in Results : age[r] = 0 /\ ~resultScrubbed[r]
  /\ policyOf["ann"] # OnAck => ~Exists(2) /\ faults + crashes + redeliveries = 0

\* Or it looks at the sweeps beside the deliveries to ann, while bob's result
\* is done with, through one failure or one redelivery.
RetentionSubject ==
  /\ faults + redeliveries <= 1 /\ crashes = 0
  /\ response[1] = "good" /\ succeeded[1] /\ deliveryStatus[1] = "no_target"
  /\ age[2] = age[1]

\* Once a day has passed or a sweep runs, it is the sweep that fails and no
\* request changes; a day passes between two sweeps.
Steady ==
  /\ spc # "idle" \/ age[1] > 0 =>
       (faults' # faults => sFailed' # sFailed) /\ succeeded' = succeeded
  /\ age' # age => spc = "idle" /\ wpc = "ready"

Allowed == Steady /\ (DeliverySubject' \/ RetentionSubject')

\* The fairness of DeliveryWorker's FairSpec, for the steps that are allowed:
\* the subjects never keep one of them from happening.
MCSpec ==
  /\ Start
  /\ [][RetentionNext /\ Allowed]_retentionVars
  /\ WF_retentionVars(Tick /\ Traces /\ Allowed)
  /\ \A r \in Results : WF_retentionVars(BecomeDue(r) /\ Traces /\ Allowed)
===============================================================================
