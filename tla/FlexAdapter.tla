---------------------------- MODULE FlexAdapter ----------------------------
(***************************************************************************)
(* providers/openai-flex.ts: a "batch" that is answered while it is        *)
(* submitted.  The requests are sent one after the other, each again after *)
(* a 429, and the results stay in the memory of the process until they are *)
(* fetched.  A step ends at each await.                                    *)
(***************************************************************************)
EXTENDS Naturals, Sequences

CONSTANTS
  FlexBatches,    \* batches of the adapter
  FlexRequests,   \* requests of each
  FlexRetries     \* maxRetries: how often a 429 is retried

ASSUME FlexAssumption == FlexRequests \in Nat \ {0} /\ FlexRetries \in Nat

VARIABLES
  sending,   \* the batch in submitBatch: its results so far and the attempt
  cache      \* resultCache: the results of each batch, NoEntry without one

flexVars == <<sending, cache>>

NoEntry == <<>>     \* a batch has at least one request
NotSending == [batch |-> 0, results |-> <<>>, attempt |-> 0]

FlexInit ==
  /\ sending = NotSending
  /\ cache = [b \in FlexBatches |-> NoEntry]

\* The process dies with its memory.
FlexReset ==
  /\ sending' = NotSending
  /\ cache' = [b \in FlexBatches |-> NoEntry]

\* submitBatch is called
FlexBegin(b) ==
  /\ sending.batch = 0
  /\ sending' = [batch |-> b, results |-> <<>>, attempt |-> 0]
  /\ UNCHANGED cache

\* sendSingleRequest: an answer, or an error that is not retried (any more),
\* is the result
FlexAnswer(success) ==
  /\ sending.batch # 0 /\ Len(sending.results) < FlexRequests
  /\ sending' = [sending EXCEPT !.results = Append(@, success), !.attempt = 0]
  /\ UNCHANGED cache

\* 429, and a retry is left
FlexRetry ==
  /\ sending.batch # 0 /\ Len(sending.results) < FlexRequests
  /\ sending.attempt < FlexRetries
  /\ sending' = [sending EXCEPT !.attempt = @ + 1]
  /\ UNCHANGED cache

\* resultCache.set, and submitBatch returns the synthetic id
FlexReturn(b) ==
  /\ sending.batch = b /\ Len(sending.results) = FlexRequests
  /\ cache' = [cache EXCEPT ![b] = sending.results]
  /\ sending' = NotSending

\* mutant: a Flex batch always counts as ended
FlexStatus_AlwaysEnded(b) == "ended"

\* checkStatus: throws when the results are gone
FlexStatus(b) == IF cache[b] = NoEntry THEN "throws" ELSE "ended"

\* fetchResults: the entry is deleted when the consumer is done or gives up
FlexFetched(b) ==
  /\ cache' = [cache EXCEPT ![b] = NoEntry]
  /\ UNCHANGED sending
=============================================================================
