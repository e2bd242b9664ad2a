---------------------------- MODULE MCAdmission ----------------------------
(***************************************************************************)
(* Instances of Admission for TLC.                                         *)
(***************************************************************************)
EXTENDS Admission, TLC

AllItems == (Calls \X (1..2)) \cup ChatItems
UnitSize == [i \in AllItems |-> IF i \in ChatItems THEN 2 ELSE 1]

RequestLimits ==
  {[maxRequests |-> 1, maxTokens |-> Unlimited, hardSpend |-> Unlimited],
   [maxRequests |-> 2, maxTokens |-> 1, hardSpend |-> 1]}
TokenLimit == {[maxRequests |-> Unlimited, maxTokens |-> 1, hardSpend |-> Unlimited]}

NoWindow == {<<0, 0>>}
AllTiers == {<<0, 0>>, <<1, 1>>, <<1, 2>>, <<1, 3>>, <<0, 1>>}

\* The limits and the queue have the calls in common and nothing else, so a
\* behaviour looks at one of them.  While the user has limits, calls alone
\* trigger a flush, and it takes what it reads; a user without limits has no
\* window, no period and no need of a second way to ask for a flush.
LimitsSubject ==
  /\ limits # NoRow
  /\ chat = [i \in ChatItems |-> "unsent"]
  /\ ~started /\ flusher \notin {Timer, FlushApi} /\ flushed = {}

QueueSubject ==
  /\ limits = NoRow /\ now = 1
  /\ \A c \in Calls : call[c].window = <<0, 0>>
  /\ started => flusher # FlushApi

\* limits are saved for the first time before anything is stored
OneSubject ==
  /\ LimitsSubject' \/ QueueSubject'
  /\ limits = NoRow /\ limits' # NoRow => queued = {} /\ pendingCount = 0

MCSpec == Init /\ [][Next /\ OneSubject]_vars

CallSymmetry == Permutations(Calls)
=============================================================================
