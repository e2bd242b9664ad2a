------------------------------ MODULE MCEngine ------------------------------
(***************************************************************************)
(* Instances of Engine for TLC.                                            *)
(***************************************************************************)
EXTENDS Engine

\* Requests of four groups: they never share a batch.
FourGroups == [r \in Requests |-> r % 4]

\* All requests share one group.
OneGroup == [r \in Requests |-> 0]

\* The behaviours in which at most one thing goes wrong, a fault or a crash at
\* any place; the rest runs as fast or as slowly as it likes.
OneTrouble == Init /\ [][Next /\ faults' + crashes' <= 1]_vars

-----------------------------------------------------------------------------
(* What documents and comments of the repository say, and the code does    *)
(* not do: each of these is refuted by a run of its own.                   *)

\* norush.ts:237-239: ingestion lost on shutdown "will be re-triggered on the
\* next tick when the store still shows the batch as "ended"".
LostIngestionIsRetriggered ==
  \A r \in Requests, b \in Batches :
    batStatus[b] = "ended" /\ reqBatch[r] = b /\ reqStatus[r] = "batched"
      ~> reqStatus[r] # "batched"

\* PLAN.md:566: the result of a request that succeeded is ingested.
SuccessIsIngested ==
  \A r \in Requests : reqStatus[r] = "succeeded" => result[r] = "good"
=============================================================================
