-------------------------- MODULE RequestLifecycle --------------------------
(***************************************************************************)
(* What the engine promises of each request, without batches, providers,   *)
(* crashes or threads (PLAN.md, "Partial Batch Failures & Repackaging"): a *)
(* request waits, is in flight, and either succeeds for good or becomes    *)
(* retryable; a retryable request is tried again while its budget lasts    *)
(* and fails for good when it is used up; only its user brings back a      *)
(* request that failed for good.                                           *)
(***************************************************************************)
EXTENDS Naturals

CONSTANTS Requests, MaxRetries

VARIABLES phase, tries

lifecycleVars == <<phase, tries>>

Phase == {"absent", "queued", "in_flight", "retryable", "succeeded", "failed_final"}

Init ==
  /\ phase = [r \in Requests |-> "absent"]
  /\ tries = [r \in Requests |-> 0]

Move(r, from, to) ==
  /\ phase[r] = from
  /\ phase' = [phase EXCEPT ![r] = to]

Submit(r) == Move(r, "absent", "queued") /\ UNCHANGED tries

\* a batch takes several waiting requests at once
Take(S) ==
  /\ \A r \in S : phase[r] = "queued"
  /\ phase' = [r \in Requests |-> IF r \in S THEN "in_flight" ELSE phase[r]]
  /\ UNCHANGED tries

GiveBack(r) == Move(r, "in_flight", "queued") /\ UNCHANGED tries
Succeed(r)  == Move(r, "in_flight", "succeeded") /\ UNCHANGED tries
Fail(r)     == Move(r, "in_flight", "retryable") /\ UNCHANGED tries

Retry(r) ==
  /\ tries[r] < MaxRetries
  /\ Move(r, "retryable", "queued")
  /\ tries' = [tries EXCEPT ![r] = @ + 1]

GiveUp(r) ==
  /\ tries[r] = MaxRetries
  /\ Move(r, "retryable", "failed_final")
  /\ UNCHANGED tries

\* the model of a waiting request was retired
Reject(r) == Move(r, "queued", "failed_final") /\ UNCHANGED tries

AskAgain(r) ==
  /\ Move(r, "failed_final", "queued")
  /\ tries' = [tries EXCEPT ![r] = 0]

Next ==
  \/ \E S \in SUBSET Requests : Take(S)
  \/ \E r \in Requests :
       \/ Submit(r) \/ GiveBack(r) \/ Succeed(r) \/ Fail(r)
       \/ Retry(r) \/ GiveUp(r) \/ Reject(r) \/ AskAgain(r)

Spec == Init /\ [][Next]_lifecycleVars
=============================================================================
