--------------------------- MODULE RetentionWorker ---------------------------
(***************************************************************************)
(* engine/retention-worker.ts beside the delivery worker: a sweep replaces *)
(* old or delivered content by tombstones, in the process that delivers    *)
(* it.  Every statement of a sweep is one step and may fail: the hard cap, *)
(* then the users one after the other by their policy, then the event log. *)
(*                                                                         *)
(* A user has one policy, which does not change.  The ages of a request    *)
(* and its result are one number of days; only results are followed whose  *)
(* request is finished or is run again.                                    *)
(***************************************************************************)
EXTENDS DeliveryWorker, Integers

CONSTANTS
  Users,            \* users.id
  UserOf,           \* the user of a result's request
  Policies,         \* what policyResolver may answer
  DefaultPolicy,    \* options.defaultPolicy
  HardCap,          \* options.hardCapDays
  MaxAge            \* bound on the age of a result

ASSUME RetentionAssumption ==
  /\ UserOf \in [Results -> Users]
  /\ \A p \in Policies \cup {DefaultPolicy} :
       p.kind \in {"null", "on_ack", "days", "invalid"} /\ p.days \in Nat
  /\ DefaultPolicy.kind # "null"
  /\ HardCap \in Nat \ {0}
  /\ MaxAge \in Nat

VARIABLES
  policyOf,         \* what policyResolver answers for a user
  age,              \* days since a result and its request were created
  requestScrubbed,  \* requests.content_scrubbed_at is set
  resultScrubbed,   \* results.content_scrubbed_at is set
  details,          \* event_log.details of a result: "none", "text", "tombstone"
  wTombs,           \* results of the tick's snapshot that hold a tombstone
  spc,              \* the statement the sweep is at; "idle" when none runs
  sUsers,           \* users the loop of scrubByPolicy has still to do
  sUser,            \* the user it is at
  sAge,             \* the ages at `now`, which fix the cutoffs
  sFailed,          \* the steps and users that count in result.errors
  gotContent        \* history: the target has taken the response itself

contentVars   == <<policyOf, age, requestScrubbed, resultScrubbed, details>>
sweepVars     == <<spc, sUsers, sUser, sAge, sFailed>>
retentionVars == <<vars, contentVars, sweepVars, wTombs, gotContent>>

Nobody == "nobody"

RetentionInit ==
  /\ Init
  /\ policyOf \in [Users -> Policies]
  /\ age = [r \in Results |-> 0]
  /\ requestScrubbed = [r \in Results |-> FALSE]
  /\ resultScrubbed = [r \in Results |-> FALSE]
  /\ details = [r \in Results |-> "none"]
  /\ wTombs = {}
  /\ spc = "idle"
  /\ sUsers = {}
  /\ sUser = Nobody
  /\ sAge = [r \in Results |-> 0]
  /\ sFailed = {}
  /\ gotContent = [r \in Results |-> FALSE]

-----------------------------------------------------------------------------
(* The policies *)

NotAPolicy == -1

\* parseRetentionPolicy
ParseRetentionPolicy(p) ==
  CASE p.kind = "on_ack" -> 0
    [] p.kind = "days"   -> p.days
    [] OTHER             -> NotAPolicy

\* the resolver's answer, or the default
PolicyDays(u) ==
  ParseRetentionPolicy(IF policyOf[u].kind = "null" THEN DefaultPolicy ELSE policyOf[u])

\* computeCutoffDate: the days before `now`
CutoffDays(days) == IF days < HardCap THEN days ELSE HardCap

\* created_at < cutoff
Past(days) == {r \in Results : Exists(r) /\ sAge[r] > days}

ResultsOf(u) == {r \in Results : UserOf[r] = u}

-----------------------------------------------------------------------------
(* The statements *)

\* UPDATE requests ... WHERE status IN ('succeeded', 'failed', 'failed_final'):
\* a request without a good response may be in one of them or run again.
ScrubRequestsOf(S) ==
  \E failed \in SUBSET {r \in S : ~succeeded[r]} :
    requestScrubbed' =
      [r \in Results |-> requestScrubbed[r] \/ (r \in S /\ (succeeded[r] \/ r \in failed))]

\* UPDATE results SET response = <tombstone>
ScrubResultsOf(S) == resultScrubbed' = [r \in Results |-> resultScrubbed[r] \/ r \in S]

DeliveredOf_Decided(u) ==    \* mutant: an exhausted delivery counts as one
  {r \in ResultsOf(u) : deliveryStatus[r] \in {"delivered", "failed"}}

\* delivery_status = 'delivered'
DeliveredOf(u) == {r \in ResultsOf(u) : deliveryStatus[r] = "delivered"}

Unchanged == <<vars, policyOf, age, wTombs, gotContent>>

GoTo(pc) == spc' = pc /\ UNCHANGED <<sUsers, sUser, sAge, sFailed>>

SweepStart ==
  /\ spc = "idle"
  /\ spc' = "cap_requests"
  /\ sAge' = age
  /\ sFailed' = {}
  /\ UNCHANGED <<Unchanged, requestScrubbed, resultScrubbed, details, sUsers, sUser>>

\* step 1: scrubExpiredContent
CapRequests ==
  /\ spc = "cap_requests"
  /\ ScrubRequestsOf(Past(HardCap))
  /\ GoTo("cap_results")
  /\ UNCHANGED <<Unchanged, resultScrubbed, details>>

CapResults ==
  /\ spc = "cap_results"
  /\ ScrubResultsOf(Past(HardCap))
  /\ GoTo("users")
  /\ UNCHANGED <<Unchanged, requestScrubbed, details>>

\* step 2: getDistinctUserIdsWithUnscrubbedContent, over requests and results
ReadUsers ==
  /\ spc = "users"
  /\ \E failed \in SUBSET {r \in Results : Exists(r) /\ ~succeeded[r]} :
       sUsers' = {UserOf[r] : r \in {q \in Results :
                    \/ Exists(q) /\ ~resultScrubbed[q]
                    \/ (succeeded[q] \/ q \in failed) /\ ~requestScrubbed[q]}}
  /\ spc' = "next_user"
  /\ UNCHANGED <<Unchanged, requestScrubbed, resultScrubbed, details, sUser, sAge, sFailed>>

\* an invalid policy counts as an error of the user
TakeUser(u) ==
  /\ spc = "next_user" /\ u \in sUsers
  /\ sUsers' = sUsers \ {u}
  /\ IF PolicyDays(u) = NotAPolicy
       THEN sFailed' = sFailed \cup {u} /\ UNCHANGED <<spc, sUser>>
       ELSE /\ spc' = IF PolicyDays(u) = 0 THEN "delivered_results" ELSE "requests"
            /\ sUser' = u
            /\ UNCHANGED sFailed
  /\ UNCHANGED <<Unchanged, requestScrubbed, resultScrubbed, details, sAge>>

UsersDone ==
  /\ spc = "next_user" /\ sUsers = {}
  /\ GoTo("events")
  /\ UNCHANGED <<Unchanged, requestScrubbed, resultScrubbed, details>>

\* scrubContentForUser
UserRequests ==
  /\ spc = "requests"
  /\ ScrubRequestsOf(ResultsOf(sUser) \cap Past(CutoffDays(PolicyDays(sUser))))
  /\ GoTo("results")
  /\ UNCHANGED <<Unchanged, resultScrubbed, details>>

EndUser == spc' = "next_user" /\ sUser' = Nobody /\ UNCHANGED <<sUsers, sAge>>

UserResults ==
  /\ spc = "results"
  /\ ScrubResultsOf(ResultsOf(sUser) \cap Past(CutoffDays(PolicyDays(sUser))))
  /\ EndUser
  /\ UNCHANGED <<Unchanged, requestScrubbed, details, sFailed>>

\* scrubDeliveredContent: the results first
DeliveredResults ==
  /\ spc = "delivered_results"
  /\ ScrubResultsOf(DeliveredOf(sUser))
  /\ GoTo("delivered_requests")
  /\ UNCHANGED <<Unchanged, requestScrubbed, details>>

DeliveredRequests ==
  /\ spc = "delivered_requests"
  /\ ScrubRequestsOf({r \in DeliveredOf(sUser) : resultScrubbed[r]})
  /\ EndUser
  /\ UNCHANGED <<Unchanged, resultScrubbed, details, sFailed>>

\* UPDATE event_log ... WHERE the result has been scrubbed, by any sweep
ScrubEvents ==
  details' = [r \in Results |->
                IF resultScrubbed[r] /\ details[r] = "text" THEN "tombstone" ELSE details[r]]

\* step 3: scrubEventLogsForScrubbedContent; the sweep's counts go to telemetry
EndSweep ==
  /\ spc' = "idle"
  /\ sAge' = [r \in Results |-> 0]
  /\ UNCHANGED <<sUsers, sUser>>

Events ==
  /\ spc = "events"
  /\ ScrubEvents
  /\ EndSweep
  /\ UNCHANGED <<Unchanged, requestScrubbed, resultScrubbed, sFailed>>

-----------------------------------------------------------------------------
(* Failures *)

UserFails_EndsLoop ==    \* mutant: the error of one user ends the loop
  /\ spc \in {"requests", "results", "delivered_results", "delivered_requests"}
  /\ sFailed' = sFailed \cup {sUser}
  /\ spc' = "next_user" /\ sUser' = Nobody /\ sUsers' = {}
  /\ UNCHANGED sAge

\* the catch inside the loop: the next user is done all the same
UserFails ==
  /\ spc \in {"requests", "results", "delivered_results", "delivered_requests"}
  /\ sFailed' = sFailed \cup {sUser}
  /\ EndUser

\* the catch of a step: the next step runs all the same
StepFails(pcs, step, next) ==
  /\ spc \in pcs
  /\ spc' = next
  /\ sFailed' = sFailed \cup {step}
  /\ UNCHANGED <<sUsers, sUser, sAge>>

SweepFault ==
  /\ Fault("store")
  /\ \/ StepFails({"cap_requests", "cap_results"}, "cap", "users")
     \/ StepFails({"users"}, "users", "events")
     \/ UserFails
     \/ spc = "events" /\ sFailed' = sFailed \cup {"events"} /\ EndSweep
  /\ UNCHANGED <<rowVars, tickVars, historyVars, crashes, redeliveries,
                 contentVars, wTombs, gotContent>>

-----------------------------------------------------------------------------
(* The delivery worker, the clock and the process *)

\* A day passes; an older result is never younger.
GrowOlder ==
  /\ \E S \in SUBSET {r \in Results : Exists(r) /\ age[r] < MaxAge} :
       /\ S # {}
       /\ \A r \in S, q \in Results : q < r => q \in S \/ age[q] = MaxAge
       /\ age' = [r \in Results |-> IF r \in S THEN age[r] + 1 ELSE age[r]]
  /\ UNCHANGED <<vars, policyOf, requestScrubbed, resultScrubbed, details, wTombs,
                 gotContent, sweepVars>>

\* The payload is built from the row the tick has read, and every outcome is
\* logged with details.
Traces ==
  /\ wTombs' = IF wpc = "ready" /\ wTodo = {} /\ wTodo' # {}
                 THEN {r \in wTodo' : resultScrubbed[r]}
                 ELSE wTombs \cap wTodo'
  /\ gotContent' = [r \in Results |->
                      gotContent[r] \/ (received'[r] > received[r] /\ r \notin wTombs)]
  /\ details' = [r \in Results |->
                   IF wpc \in {"log", "record"} /\ wpc' = "ready" /\ r \in wTodo \ wTodo'
                        /\ ~(faults' > faults)
                     THEN "text" ELSE details[r]]
  /\ UNCHANGED <<policyOf, age, requestScrubbed, resultScrubbed, sweepVars>>

Delivering ==
  \/ Tick
  \/ \E r \in Results : TimeOut(r) \/ Succeed(r) \/ BecomeDue(r) \/ Redeliver(r)
  \/ \E r \in Results, ok \in BOOLEAN : Persist(r, ok)
  \/ Throw

\* The process dies: the tick and the sweep are gone.
Die ==
  /\ Crash
  /\ wTombs' = {}
  /\ spc' = "idle" /\ sUsers' = {} /\ sUser' = Nobody /\ sFailed' = {}
  /\ sAge' = [r \in Results |-> 0]
  /\ UNCHANGED <<contentVars, gotContent>>

Sweep ==
  \/ SweepStart \/ CapRequests \/ CapResults \/ ReadUsers
  \/ \E u \in Users : TakeUser(u)
  \/ UsersDone \/ UserRequests \/ UserResults \/ DeliveredResults \/ DeliveredRequests
  \/ Events

RetentionNext ==
  \/ Delivering /\ Traces
  \/ Sweep
  \/ SweepFault
  \/ GrowOlder
  \/ Die

RetentionSpec == RetentionInit /\ [][RetentionNext]_retentionVars

-----------------------------------------------------------------------------
(* Properties *)

WaitsForAck(r) == PolicyDays(UserOf[r]) = 0 /\ age[r] <= HardCap

\* retention-worker.ts:9 (scrub "after webhook 2xx ACK"): while the hard cap
\* has not come, content of a user on on_ack goes only after its target has
\* taken the response itself, whatever redeliveries, late answers, crashes and
\* sweeps lie between.
AckWaitsForReceipt ==
  \A r \in Results :
    WaitsForAck(r) /\ (resultScrubbed[r] \/ requestScrubbed[r]) => gotContent[r]

\* What is past its user's policy, or past the hard cap whatever the policy.
Overdue(r) ==
  \/ "cap" \notin sFailed /\ r \in Past(HardCap)
  \/ /\ UserOf[r] \notin sFailed /\ "users" \notin sFailed
     /\ PolicyDays(UserOf[r]) > 0
     /\ r \in Past(CutoffDays(PolicyDays(UserOf[r])))

\* A sweep that comes to its end leaves no response that was overdue when it
\* began, and no details logged of it, except where its own step or user
\* failed: an error of one user or step is never paid by another.
SweepLeavesNothingOverdue ==
  [][spc = "events" /\ spc' = "idle" /\ crashes' = crashes =>
       \A r \in Results : Overdue(r) =>
         resultScrubbed'[r] /\ ("events" \notin sFailed' => details'[r] # "text")]_retentionVars
=============================================================================
