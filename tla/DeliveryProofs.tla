--------------------------- MODULE DeliveryProofs ---------------------------
(***************************************************************************)
(* The delivery worker and the sweeps beside it, for all values of the     *)
(* constants: types, that a delivered result was received once and its     *)
(* target not called beyond its budget; then that content of a user on     *)
(* on_ack goes only after its target has taken it, and that a sweep that   *)
(* ends leaves nothing that was overdue.                                   *)
(***************************************************************************)
EXTENDS RetentionWorker, TLAPS

\* Without results and without a tick every variable is in its type.
LEMMA InitTypes == Init => DeliveryTypeOK
BY DeliveryAssumption
DEF Init, DeliveryTypeOK, DeliveryStatus, WorkerPC, Said

\* The history of a call of the target keeps its type.
LEMMA CallTypes ==
  ASSUME DeliveryTypeOK, NEW r \in Results, Try(r)
  PROVE  /\ sent' \in [Results -> Nat]
         /\ asked' \in [Results -> BOOLEAN]
         /\ Taken(r) => received' \in [Results -> Nat] /\ told' \in [Results -> SUBSET Said]
BY DEF DeliveryTypeOK, Try, Taken

\* A counted failure keeps the count within its bound.
LEMMA FaultTypes ==
  ASSUME NEW kind, DeliveryTypeOK, Fault(kind)
  PROVE  faults' \in 0..MaxFaults
BY DeliveryAssumption DEF Fault, DeliveryTypeOK

\* A step of the tick: the attempts stay within the cap because those of the
\* snapshot are below it.
LEMMA TickTypes ==
  ASSUME DeliveryTypeOK, SnapshotAbove, Tick
  PROVE  DeliveryTypeOK'
<1> USE DEF DeliveryTypeOK, rowVars, tickVars, historyVars, boundVars
<1>1. CASE Read
  BY <1>1 DEF Read, Deliverable, Window, Undelivered
<1>2. ASSUME NEW r \in Results, NoTarget(r) PROVE DeliveryTypeOK'
  BY <1>2 DEF NoTarget, DeliveryStatus
<1>3. ASSUME NEW r \in Results, Prepare(r) PROVE DeliveryTypeOK'
  BY <1>3 DEF Prepare, WorkerPC, Said
<1>4. ASSUME NEW r \in Results, Deliver(r) PROVE DeliveryTypeOK'
  BY <1>4, CallTypes DEF Deliver, Try, WorkerPC
<1>5. ASSUME NEW r \in Results, Reject(r) PROVE DeliveryTypeOK'
  BY <1>5, CallTypes DEF Reject, Try, WorkerPC
<1>6. ASSUME NEW r \in Results, Mark(r) PROVE DeliveryTypeOK'
  <2>1. faults' \in 0..MaxFaults
    BY <1>6, FaultTypes DEF Mark
  <2>2. deliveryStatus' \in [Results -> DeliveryStatus]
    BY <1>6 DEF Mark, DeliveryStatus
  <2>3. QED
    BY <1>6, <2>1, <2>2 DEF Mark, WorkerPC
<1>7. ASSUME NEW r \in Results, Log(r) PROVE DeliveryTypeOK'
  <2>1. faults' \in 0..MaxFaults
    BY <1>7, FaultTypes DEF Log
  <2>2. QED
    BY <1>7, <2>1 DEF Log, WorkerPC
<1>8. ASSUME NEW r \in Results, Record(r) PROVE DeliveryTypeOK'
  <2>1. wAttempts[r] + 1 \in 0..MaxDelivery
    BY <1>8, DeliveryAssumption DEF Record, Now, SnapshotAbove
  <2>2. deliveryAttempts' = [deliveryAttempts EXCEPT ![r] = wAttempts[r] + 1]
    BY <1>8 DEF Record, Retry, Exhaust
  <2>3. deliveryAttempts' \in [Results -> 0..MaxDelivery]
    BY <2>1, <2>2
  <2>4. deliveryStatus' \in [Results -> DeliveryStatus] /\ due' \in [Results -> BOOLEAN]
    BY <1>8 DEF Record, Retry, Exhaust, DeliveryStatus
  <2>5. QED
    BY <1>8, <2>3, <2>4 DEF Record, WorkerPC
<1>9. QED
  BY <1>1, <1>2, <1>3, <1>4, <1>5, <1>6, <1>7, <1>8 DEF Tick

\* The surroundings of the tick, and its abrupt ends.
LEMMA OtherTypes ==
  ASSUME DeliveryTypeOK, Next, ~Tick
  PROVE  DeliveryTypeOK'
<1> USE DEF DeliveryTypeOK, rowVars, tickVars, historyVars, boundVars
<1>1. ASSUME NEW r \in Results, TimeOut(r) PROVE DeliveryTypeOK'
  <2>1. faults' \in 0..MaxFaults
    BY <1>1, FaultTypes DEF TimeOut
  <2>2. QED
    BY <1>1, <2>1, CallTypes DEF TimeOut, Try, WorkerPC
<1>2. ASSUME NEW r \in Results, Succeed(r) PROVE DeliveryTypeOK'
  BY <1>2 DEF Succeed
<1>3. ASSUME NEW r \in Results, BecomeDue(r) PROVE DeliveryTypeOK'
  BY <1>3 DEF BecomeDue
<1>4. ASSUME NEW r \in Results, Redeliver(r) PROVE DeliveryTypeOK'
  BY <1>4, DeliveryAssumption DEF Redeliver, DeliveryStatus
<1>5. ASSUME NEW r \in Results, NEW ok \in BOOLEAN, Persist(r, ok) PROVE DeliveryTypeOK'
  BY <1>5 DEF Persist, DeliveryStatus
<1>6. ASSUME TickReset
      PROVE  /\ wpc' \in WorkerPC /\ wTodo' \in SUBSET Results
             /\ wAttempts' \in [Results -> 0..MaxDelivery] /\ wSays' \in Said
  BY <1>6, DeliveryAssumption DEF TickReset, WorkerPC, Said
<1>7. CASE Throw
  BY <1>6, <1>7, FaultTypes DEF Throw
<1>8. CASE Crash
  BY <1>6, <1>8, DeliveryAssumption DEF Crash
<1>9. QED
  BY <1>1, <1>2, <1>3, <1>4, <1>5, <1>7, <1>8 DEF Next

-----------------------------------------------------------------------------
(* DeliveryInv is inductive *)

\* Nothing was delivered before the first result exists.
LEMMA InitDelivery == Init => DeliveryInv
BY DeliveryAssumption
DEF Init, DeliveryInv, DeliveredWasReceived, MarkAfterDelivery, SnapshotAbove,
    TodoUndelivered, DeliveredBelowCap, SentCounted, Uncounted

\* One result at a time is in hand.
LEMMA OneInHand ==
  ASSUME DeliveryTypeOK, NEW q \in Results, NEW r \in Results, Now(q), Now(r)
  PROVE  q = r
BY DeliveryAssumption DEF Now, DeliveryTypeOK

\* A step of the tick: markDelivered comes after the call, and an attempt is
\* counted from a snapshot that was below the cap.
LEMMA TickDelivery ==
  ASSUME DeliveryTypeOK, DeliveryInv, Tick \/ \E r \in Results : TimeOut(r)
  PROVE  DeliveryInv'
<1> USE DEF DeliveryTypeOK, DeliveryInv, DeliveredWasReceived, MarkAfterDelivery,
        SnapshotAbove, TodoUndelivered, DeliveredBelowCap, SentCounted, Uncounted,
        rowVars, tickVars, historyVars, boundVars
<1>1. CASE Read
  BY <1>1 DEF Read, Deliverable, Window, Undelivered, Now
<1>2. ASSUME NEW r \in Results, NoTarget(r) PROVE DeliveryInv'
  BY <1>2 DEF NoTarget, Now
<1>3. ASSUME NEW r \in Results, Prepare(r) PROVE DeliveryInv'
  BY <1>3, OneInHand DEF Prepare, Now
<1>4. ASSUME NEW r \in Results, Deliver(r) \/ TimeOut(r) PROVE DeliveryInv'
  BY <1>4, OneInHand DEF Deliver, TimeOut, Try, Taken, Fault, Now
<1>5. ASSUME NEW r \in Results, Reject(r) PROVE DeliveryInv'
  BY <1>5, OneInHand DEF Reject, Try, Now
<1>6. ASSUME NEW r \in Results, Mark(r) PROVE DeliveryInv'
  <2>1. CASE deliveryStatus' = [deliveryStatus EXCEPT ![r] = "delivered"] /\ wpc' = "log"
             /\ faults' = faults
    <3>1. /\ wpc = "mark" /\ Now(r) /\ r \in HasTarget /\ received[r] > 0
          /\ UNCHANGED <<deliveryAttempts, sent, received, wTodo, wAttempts, crashes>>
      BY <1>6 DEF Mark
    <3>2. deliveryAttempts[r] < MaxDelivery
      <4>1. deliveryAttempts[r] <= wAttempts[r] /\ wAttempts[r] < MaxDelivery
        BY <3>1 DEF Now
      <4>2. deliveryAttempts[r] \in Nat /\ wAttempts[r] \in Nat /\ MaxDelivery \in Nat
        BY DeliveryAssumption
      <4>3. QED
        BY <4>1, <4>2
    <3>3. DeliveredWasReceived' /\ MarkAfterDelivery' /\ SnapshotAbove'
      BY <2>1, <3>1 DEF Now
    <3>4. TodoUndelivered' /\ DeliveredBelowCap'
      BY <2>1, <3>1, <3>2 DEF Now
    <3>5. SentCounted'
      BY <2>1, <3>1, OneInHand DEF Now
    <3>6. QED
      BY <3>3, <3>4, <3>5
  <2>2. CASE Fault("store") /\ wpc' = "record" /\ UNCHANGED deliveryStatus
    BY <1>6, <2>2, OneInHand DEF Mark, Fault, Now
  <2>3. QED
    BY <1>6, <2>1, <2>2 DEF Mark
<1>7. ASSUME NEW r \in Results, Log(r) PROVE DeliveryInv'
  <2>1. CASE wpc' = "ready" /\ wTodo' = wTodo \ {r} /\ UNCHANGED faults
    BY <1>7, <2>1, OneInHand DEF Log, Now
  <2>2. CASE Fault("log") /\ wpc' = "record" /\ UNCHANGED wTodo
    BY <1>7, <2>2, OneInHand DEF Log, Fault, Now
  <2>3. QED
    BY <1>7, <2>1, <2>2 DEF Log
<1>8. ASSUME NEW r \in Results, Record(r) PROVE DeliveryInv'
  BY <1>8, OneInHand DEF Record, Retry, Exhaust, Now
<1>9. QED
  BY <1>1, <1>2, <1>3, <1>4, <1>5, <1>6, <1>7, <1>8 DEF Tick

\* The ingester, the clock and a redelivery, which may overtake the snapshot, and
\* the abrupt ends of a tick, which each pay for one uncounted call.
LEMMA OtherDelivery ==
  ASSUME DeliveryTypeOK, DeliveryInv, Next, ~Tick
  PROVE  DeliveryInv'
<1> USE DEF DeliveryTypeOK, DeliveryInv, DeliveredWasReceived, MarkAfterDelivery,
        SnapshotAbove, TodoUndelivered, DeliveredBelowCap, SentCounted, Uncounted,
        rowVars, tickVars, historyVars, boundVars
<1>1. ASSUME NEW r \in Results, Succeed(r) \/ BecomeDue(r) PROVE DeliveryInv'
  BY <1>1 DEF Succeed, BecomeDue, Now
<1>2. ASSUME NEW r \in Results, Redeliver(r) PROVE DeliveryInv'
  BY <1>2, DeliveryAssumption DEF Redeliver, Now
<1>3. ASSUME NEW r \in Results, NEW ok \in BOOLEAN, Persist(r, ok) PROVE DeliveryInv'
  <2>1. /\ deliveryStatus' = [deliveryStatus EXCEPT ![r] = "pending"]
        /\ UNCHANGED <<deliveryAttempts, sent, received, wpc, wTodo, wAttempts, faults, crashes>>
    BY <1>3 DEF Persist
  <2>2. DeliveredWasReceived' /\ MarkAfterDelivery' /\ SnapshotAbove'
    BY <2>1 DEF Now
  <2>3. TodoUndelivered' /\ DeliveredBelowCap'
    BY <2>1 DEF Now
  <2>4. SentCounted'
    <3>1. deliveryStatus[r] = "absent"
      BY <1>3 DEF Persist, Exists
    <3>2. QED
      BY <2>1, <3>1 DEF Now
  <2>5. QED
    BY <2>2, <2>3, <2>4
<1>4. CASE Throw
  BY <1>4 DEF Throw, Fault, TickReset, Now
<1>5. CASE Crash
  BY <1>5 DEF Crash, TickReset, Now
<1>6. QED
  BY <1>1, <1>2, <1>3, <1>4, <1>5, TickDelivery DEF Next

\* Nothing happens.
LEMMA StutterDelivery ==
  ASSUME DeliveryTypeOK, DeliveryInv, UNCHANGED vars
  PROVE  DeliveryTypeOK' /\ DeliveryInv'
BY DEF vars, rowVars, tickVars, historyVars, boundVars, DeliveryTypeOK, DeliveryInv,
       DeliveredWasReceived, MarkAfterDelivery, SnapshotAbove, TodoUndelivered,
       DeliveredBelowCap, SentCounted, Uncounted, Now

\* The attempts a result shows stay within the cap only because those of the
\* snapshot do, so the types and the invariant are proved together.
LEMMA DeliveryStep ==
  ASSUME DeliveryTypeOK, DeliveryInv, [Next]_vars
  PROVE  DeliveryTypeOK' /\ DeliveryInv'
<1>1. CASE Tick
  BY <1>1, TickTypes, TickDelivery DEF DeliveryInv
<1>2. CASE Next /\ ~Tick
  BY <1>2, OtherTypes, OtherDelivery
<1>3. CASE UNCHANGED vars
  BY <1>3, StutterDelivery
<1>4. QED
  BY <1>1, <1>2, <1>3

LEMMA DeliveryInductive == Spec => [](DeliveryTypeOK /\ DeliveryInv)
<1>1. Init => DeliveryTypeOK /\ DeliveryInv
  BY InitTypes, InitDelivery
<1>2. DeliveryTypeOK /\ DeliveryInv /\ [Next]_vars => DeliveryTypeOK' /\ DeliveryInv'
  BY DeliveryStep
<1>3. QED
  BY <1>1, <1>2, PTL DEF Spec

\* Every state is well typed: delivery_attempts never passes its cap, although
\* it is counted from a snapshot that a redelivery may have overtaken.
THEOREM DeliveryTypeCorrect == Spec => []DeliveryTypeOK
BY DeliveryInductive, PTL

\* A result is marked as delivered only after its target has taken it.
THEOREM DeliveredAlwaysReceived == Spec => []DeliveredWasReceived
<1>1. DeliveryTypeOK /\ DeliveryInv => DeliveredWasReceived
  BY DEF DeliveryInv
<1>2. QED
  BY DeliveryInductive, <1>1, PTL

\* A target is called max_delivery_attempts times at most, and once more for
\* each crash or failure, whatever the number of results and redeliveries.
THEOREM SentAlwaysWithinBudget == Spec => []SentWithinBudget
<1>1. DeliveryTypeOK /\ DeliveryInv => SentWithinBudget
  BY DeliveryAssumption
  DEF DeliveryTypeOK, DeliveryInv, SentCounted, Uncounted, DeliveredBelowCap,
      SnapshotAbove, Now, SentWithinBudget
<1>2. QED
  BY DeliveryInductive, <1>1, PTL

\* What relates the counters, the tick's snapshot and the target's receipts.
THEOREM DeliveryHolds == Spec => []DeliveryInv
BY DeliveryInductive, PTL

-----------------------------------------------------------------------------
(* What a target was given, and when a delivery is taken back *)

\* What may make a target receive a result once more.
Troubles == redeliveries + crashes + faults

\* The receipt that no trouble accounts for: the result is delivered, or about
\* to be marked; a delivery recorded as failed was one trouble more.
Receipt(r) ==
  IF \/ deliveryStatus[r] = "delivered" /\ ~(wpc = "record" /\ Now(r))
     \/ wpc = "mark" /\ Now(r)
    THEN 1 ELSE 0

ReceivedCounted == \A r \in Results : received[r] <= Troubles + Receipt(r)

\* A delivered result is recorded as failed only after its event was not logged.
RecordAfterFault ==
  \A r \in Results : wpc = "record" /\ Now(r) /\ deliveryStatus[r] = "delivered" => faults > 0

ReceiptInv == ReceivedCounted /\ RecordAfterFault

LEMMA InitReceipts == Init => ReceiptInv
BY DEF Init, ReceiptInv, ReceivedCounted, RecordAfterFault, Troubles, Receipt, Now

LEMMA TroublesType == DeliveryTypeOK => Troubles \in Nat
BY DeliveryAssumption DEF DeliveryTypeOK, Troubles

LEMMA TroublesTypeNext == DeliveryTypeOK' => Troubles' \in Nat
<1> SUFFICES ASSUME DeliveryTypeOK' PROVE Troubles' \in Nat
  OBVIOUS
<1>1. redeliveries' \in Nat /\ crashes' \in Nat /\ faults' \in Nat
  BY DeliveryAssumption DEF DeliveryTypeOK
<1>2. Troubles' = redeliveries' + crashes' + faults'
  BY DEF Troubles
<1>3. \A x, y, z \in Nat : x + y + z \in Nat
  OBVIOUS
<1>4. QED
  BY <1>1, <1>2, <1>3

\* Nothing is received, while what may be received does not shrink.
LEMMA ReceiptKept ==
  ASSUME DeliveryTypeOK, DeliveryTypeOK', ReceiptInv, UNCHANGED received,
         \/ Troubles' >= Troubles + 1
         \/ Troubles' >= Troubles /\ \A r \in Results : Receipt(r) <= Receipt(r)'
  PROVE  ReceivedCounted'
<1> SUFFICES ASSUME NEW r \in Results PROVE received'[r] <= Troubles' + Receipt(r)'
  BY DEF ReceivedCounted
<1>1. received[r] <= Troubles + Receipt(r) /\ received'[r] = received[r]
  BY DEF ReceiptInv, ReceivedCounted
<1>2. received[r] \in Nat /\ Troubles \in Nat /\ Troubles' \in Nat
  BY TroublesType, TroublesTypeNext DEF DeliveryTypeOK
<1>3. Receipt(r) \in {0, 1}
  BY DEF Receipt
<1>4. Receipt(r)' \in {0, 1}
  BY DEF Receipt
<1>5. QED
  BY <1>1, <1>2, <1>3, <1>4

LEMMA TickReceipts ==
  ASSUME DeliveryTypeOK, DeliveryTypeOK', DeliveryInv, ReceiptInv,
         Tick \/ \E r \in Results : TimeOut(r)
  PROVE  ReceiptInv'
<1> USE DEF DeliveryTypeOK, rowVars, tickVars, historyVars, boundVars
<1>1. CASE Read
  <2>1. wpc = "ready" /\ UNCHANGED <<wpc, deliveryStatus, received, redeliveries, crashes, faults>>
    BY <1>1 DEF Read
  <2>2. QED
    BY <2>1, ReceiptKept, TroublesType
    DEF ReceiptInv, ReceivedCounted, RecordAfterFault, Troubles, Receipt
<1>2. ASSUME NEW r \in Results, NoTarget(r) PROVE ReceiptInv'
  <2>1. /\ wpc = "ready" /\ deliveryStatus[r] # "delivered" /\ deliveryStatus'[r] # "delivered"
        /\ \A q \in Results \ {r} : deliveryStatus'[q] = deliveryStatus[q]
        /\ UNCHANGED <<wpc, received, redeliveries, crashes, faults>>
    BY <1>2 DEF NoTarget, DeliveryInv, DeliveredWasReceived
  <2>2. QED
    BY <2>1, TroublesType DEF ReceiptInv, ReceivedCounted, RecordAfterFault, Troubles, Receipt
<1>3. ASSUME NEW r \in Results, Prepare(r) PROVE ReceiptInv'
  BY <1>3, TroublesType DEF Prepare, ReceiptInv, ReceivedCounted, RecordAfterFault, Troubles, Receipt
<1>4. ASSUME NEW r \in Results, Try(r)
      PROVE  /\ received[r] <= Troubles
             /\ \A q \in Results \ {r} : ~Now(q) /\ ~Now(q)'
             /\ deliveryStatus[r] # "delivered" /\ Now(r) /\ Now(r)'
  <2>1. /\ wpc = "send" /\ Now(r) /\ UNCHANGED <<wTodo, deliveryStatus>>
    BY <1>4 DEF Try
  <2>2. deliveryStatus[r] # "delivered"
    BY <2>1 DEF Now, DeliveryInv, TodoUndelivered
  <2>3. QED
    BY <2>1, <2>2, TroublesType, OneInHand DEF ReceiptInv, ReceivedCounted, Receipt, Now
<1>5. ASSUME NEW r \in Results, Deliver(r) PROVE ReceiptInv'
  <2>1. /\ wpc' = "mark" /\ received'[r] = received[r] + 1 /\ wpc = "send"
        /\ \A q \in Results \ {r} : received'[q] = received[q]
        /\ UNCHANGED <<deliveryStatus, redeliveries, crashes, faults>>
    BY <1>5 DEF Deliver, Try, Taken
  <2>2. QED
    BY <2>1, <1>4, <1>5, TroublesType
    DEF Deliver, ReceiptInv, ReceivedCounted, RecordAfterFault, Troubles, Receipt
<1>6. ASSUME NEW r \in Results, TimeOut(r) PROVE ReceiptInv'
  <2>1. /\ wpc' = "record" /\ received'[r] = received[r] + 1 /\ wpc = "send"
        /\ \A q \in Results \ {r} : received'[q] = received[q]
        /\ faults' = faults + 1
        /\ UNCHANGED <<deliveryStatus, redeliveries, crashes>>
    BY <1>6 DEF TimeOut, Try, Taken, Fault
  <2>2. Troubles' = Troubles + 1 /\ faults' > 0
    BY <2>1, DeliveryAssumption DEF Troubles
  <2>3. QED
    BY <2>1, <2>2, <1>4, <1>6, TroublesType
    DEF TimeOut, ReceiptInv, ReceivedCounted, RecordAfterFault, Receipt
<1>7. ASSUME NEW r \in Results, Reject(r) PROVE ReceiptInv'
  <2>1. /\ wpc' = "record" /\ wpc = "send"
        /\ UNCHANGED <<received, deliveryStatus, redeliveries, crashes, faults>>
    BY <1>7 DEF Reject, Try
  <2>2. QED
    BY <2>1, <1>4, <1>7, TroublesType
    DEF Reject, ReceiptInv, ReceivedCounted, RecordAfterFault, Troubles, Receipt
<1>8. ASSUME NEW kind, Fault(kind), UNCHANGED <<received, crashes, redeliveries>>
      PROVE  ReceivedCounted' /\ faults' > 0
  <2>1. Troubles' = Troubles + 1 /\ faults' > 0
    BY <1>8, DeliveryAssumption DEF Fault, Troubles
  <2>2. QED
    BY <1>8, <2>1, ReceiptKept
<1>9. ASSUME NEW r \in Results, Mark(r) PROVE ReceiptInv'
  <2>1. CASE deliveryStatus' = [deliveryStatus EXCEPT ![r] = "delivered"] /\ wpc' = "log"
             /\ UNCHANGED faults
    <3>1. /\ wpc = "mark" /\ Now(r)
          /\ UNCHANGED <<received, crashes, redeliveries, wTodo>>
      BY <1>9 DEF Mark
    <3>2. \A q \in Results \ {r} : ~Now(q)
      BY <3>1, OneInHand
    <3>3. QED
      BY <2>1, <3>1, <3>2, TroublesType
      DEF ReceiptInv, ReceivedCounted, RecordAfterFault, Troubles, Receipt
  <2>2. CASE Fault("store") /\ wpc' = "record" /\ UNCHANGED deliveryStatus
    BY <1>8, <1>9, <2>2 DEF Mark, ReceiptInv, RecordAfterFault
  <2>3. QED
    BY <1>9, <2>1, <2>2 DEF Mark
<1>10. ASSUME NEW r \in Results, Log(r) PROVE ReceiptInv'
  <2>1. CASE wpc' = "ready" /\ wTodo' = wTodo \ {r} /\ UNCHANGED faults
    BY <1>10, <2>1, TroublesType
    DEF Log, ReceiptInv, ReceivedCounted, RecordAfterFault, Troubles, Receipt
  <2>2. CASE Fault("log") /\ wpc' = "record" /\ UNCHANGED wTodo
    BY <1>8, <1>10, <2>2 DEF Log, ReceiptInv, RecordAfterFault
  <2>3. QED
    BY <1>10, <2>1, <2>2 DEF Log
<1>11. ASSUME NEW r \in Results, Record(r) PROVE ReceiptInv'
  <2>1. /\ wpc = "record" /\ wpc' = "ready" /\ Now(r)
        /\ deliveryStatus'[r] \in {deliveryStatus[r], "failed"}
        /\ \A q \in Results \ {r} : deliveryStatus'[q] = deliveryStatus[q]
        /\ UNCHANGED <<received, redeliveries, crashes, faults>>
    BY <1>11 DEF Record, Retry, Exhaust
  <2>2. QED
    BY <2>1, TroublesType DEF ReceiptInv, ReceivedCounted, RecordAfterFault, Troubles, Receipt
<1>12. QED
  BY <1>1, <1>2, <1>3, <1>5, <1>6, <1>7, <1>9, <1>10, <1>11 DEF Tick

LEMMA OtherReceipts ==
  ASSUME DeliveryTypeOK, DeliveryTypeOK', DeliveryInv, ReceiptInv, Next, ~Tick
  PROVE  ReceiptInv'
<1> USE DEF DeliveryTypeOK, rowVars, tickVars, historyVars, boundVars
<1>1. ASSUME NEW r \in Results, Succeed(r) \/ BecomeDue(r) PROVE ReceiptInv'
  BY <1>1
  DEF Succeed, BecomeDue, Now, ReceiptInv, ReceivedCounted, RecordAfterFault, Troubles, Receipt
<1>2. ASSUME NEW r \in Results, Redeliver(r) PROVE ReceiptInv'
  <2>1. /\ deliveryStatus' = [deliveryStatus EXCEPT ![r] = "pending"]
        /\ redeliveries' = redeliveries + 1
        /\ UNCHANGED <<received, wpc, wTodo, crashes, faults>>
    BY <1>2 DEF Redeliver
  <2>2. ReceivedCounted'
    <3>1. Troubles' = Troubles + 1
      BY <2>1, DeliveryAssumption DEF Troubles
    <3>2. QED
      BY <2>1, <3>1, ReceiptKept
  <2>3. QED
    BY <2>1, <2>2 DEF ReceiptInv, RecordAfterFault, Now
<1>3. ASSUME NEW r \in Results, NEW ok \in BOOLEAN, Persist(r, ok) PROVE ReceiptInv'
  <2>1. /\ deliveryStatus' = [deliveryStatus EXCEPT ![r] = "pending"]
        /\ deliveryStatus[r] = "absent"
        /\ UNCHANGED <<received, wpc, wTodo, redeliveries, crashes, faults>>
    BY <1>3 DEF Persist, Exists
  <2>2. QED
    BY <2>1 DEF Now, ReceiptInv, ReceivedCounted, RecordAfterFault, Troubles, Receipt
<1>4. CASE Throw \/ Crash
  <2>1. /\ wpc' = "ready" /\ UNCHANGED <<received, redeliveries>>
        /\ \/ faults' = faults + 1 /\ crashes' = crashes
           \/ faults' = faults /\ crashes' = crashes + 1
    BY <1>4 DEF Throw, Crash, TickReset, Fault
  <2>2. redeliveries \in Nat /\ faults \in Nat /\ crashes \in Nat
    BY DeliveryAssumption
  <2>3. Troubles' = Troubles + 1
    <3>1. CASE faults' = faults + 1 /\ crashes' = crashes
      BY <2>1, <2>2, <3>1 DEF Troubles
    <3>2. CASE faults' = faults /\ crashes' = crashes + 1
      BY <2>1, <2>2, <3>2 DEF Troubles
    <3>3. QED
      BY <2>1, <3>1, <3>2
  <2>4. QED
    BY <2>1, <2>3, ReceiptKept DEF ReceiptInv, RecordAfterFault
<1>5. QED
  BY <1>1, <1>2, <1>3, <1>4, TickReceipts DEF Next

LEMMA ReceiptInductive == Spec => [](DeliveryTypeOK /\ DeliveryInv /\ ReceiptInv)
<1>1. DeliveryTypeOK /\ DeliveryTypeOK' /\ DeliveryInv /\ ReceiptInv /\ [Next]_vars => ReceiptInv'
  <2> SUFFICES ASSUME DeliveryTypeOK, DeliveryTypeOK', DeliveryInv, ReceiptInv, [Next]_vars
               PROVE  ReceiptInv'
    OBVIOUS
  <2>1. CASE UNCHANGED vars
    BY <2>1
    DEF vars, rowVars, tickVars, boundVars, historyVars, Now, ReceiptInv, ReceivedCounted,
        RecordAfterFault, Troubles, Receipt
  <2>2. QED
    BY <2>1, TickReceipts, OtherReceipts
<1>2. QED
  BY InitReceipts, <1>1, DeliveryInductive, PTL DEF Spec

\* A target is given a result a second time only after a redelivery, a crash or
\* a failure, one for each: no overlap of ticks with the ingester and the API
\* does it.
THEOREM DeliveredAtMostOnce == Spec => []DeliveredOnce
<1>1. DeliveryTypeOK /\ ReceiptInv => DeliveredOnce
  <2> SUFFICES ASSUME DeliveryTypeOK, ReceiptInv, NEW r \in Results
               PROVE  received[r] <= 1 + redeliveries + crashes + faults
    BY DEF DeliveredOnce
  <2>1. received[r] <= (redeliveries + crashes + faults) + Receipt(r) /\ Receipt(r) \in {0, 1}
    BY DEF ReceiptInv, ReceivedCounted, Troubles, Receipt
  <2>2. /\ received[r] \in Nat /\ redeliveries \in Nat /\ crashes \in Nat /\ faults \in Nat
    BY DeliveryAssumption DEF DeliveryTypeOK
  <2>3. QED
    BY <2>1, <2>2
<1>2. QED
  BY ReceiptInductive, <1>1, PTL

\* A delivered result stays delivered unless its user asks for it again, or a
\* call failed.
THEOREM DeliveredStaysDelivered == Spec => DeliveredIsFinal
<1> DEFINE A == \A r \in Results :
                  deliveryStatus[r] = "delivered" /\ deliveryStatus'[r] # "delivered"
                    => redeliveries' # redeliveries \/ faults > 0
<1>1. DeliveryTypeOK /\ DeliveryInv /\ ReceiptInv /\ [Next]_vars => [A]_vars
  <2> SUFFICES ASSUME DeliveryTypeOK, DeliveryInv, ReceiptInv, Next,
                      NEW r \in Results,
                      deliveryStatus[r] = "delivered", deliveryStatus'[r] # "delivered"
               PROVE  redeliveries' # redeliveries \/ faults > 0
    BY DEF vars, rowVars
  <2>1. \/ \E q \in Results : NoTarget(q) \/ Mark(q) \/ Record(q) \/ Redeliver(q)
        \/ \E q \in Results, ok \in BOOLEAN : Persist(q, ok)
    BY DEF Next, Tick, Read, Prepare, Deliver, Reject, TimeOut, Try, Log, Succeed, BecomeDue,
           Throw, Crash, rowVars
  <2>2. ASSUME NEW q \in Results, NoTarget(q) PROVE FALSE
    BY <2>2 DEF NoTarget, DeliveryInv, DeliveredWasReceived, DeliveryTypeOK
  <2>3. ASSUME NEW q \in Results, Mark(q) PROVE FALSE
    BY <2>3 DEF Mark, DeliveryTypeOK
  <2>4. ASSUME NEW q \in Results, Record(q) PROVE faults > 0
    <3>1. wpc = "record" /\ Now(q) /\ q = r
      BY <2>4 DEF Record, Retry, Exhaust, DeliveryTypeOK
    <3>2. QED
      BY <3>1 DEF ReceiptInv, RecordAfterFault
  <2>5. ASSUME NEW q \in Results, Redeliver(q) PROVE redeliveries' # redeliveries
    BY <2>5, DeliveryAssumption DEF Redeliver, DeliveryTypeOK
  <2>6. ASSUME NEW q \in Results, NEW ok \in BOOLEAN, Persist(q, ok) PROVE FALSE
    BY <2>6 DEF Persist, Exists, DeliveryTypeOK
  <2>7. QED
    BY <2>1, <2>2, <2>3, <2>4, <2>5, <2>6
<1>2. QED
  BY <1>1, ReceiptInductive, PTL DEF Spec, DeliveredIsFinal

-----------------------------------------------------------------------------
(* Sweeps *)

RetentionTypeOK ==
  /\ policyOf \in [Users -> Policies]
  /\ age \in [Results -> Nat]
  /\ requestScrubbed \in [Results -> BOOLEAN]
  /\ resultScrubbed \in [Results -> BOOLEAN]
  /\ sAge \in [Results -> Nat]
  /\ gotContent \in [Results -> BOOLEAN]

\* The policy of a user, in days or none; what it cuts off is some days old.
LEMMA PolicyType ==
  ASSUME RetentionTypeOK, NEW u \in Users
  PROVE  PolicyDays(u) \in Nat \cup {NotAPolicy}
<1>1. policyOf[u] \in Policies
  BY DEF RetentionTypeOK
<1>2. QED
  BY <1>1, RetentionAssumption DEF PolicyDays, ParseRetentionPolicy

LEMMA CutoffType ==
  ASSUME NEW days \in Nat, days > 0
  PROVE  CutoffDays(days) \in Nat
BY RetentionAssumption DEF CutoffDays

\* The steps of a sweep, which leave deliveries alone, and those beside it.
LEMMA SweepFrame ==
  ASSUME Sweep \/ GrowOlder
  PROVE  UNCHANGED <<vars, policyOf, wTombs, gotContent>>
BY DEF Sweep, GrowOlder, SweepStart, CapRequests, CapResults, ReadUsers, TakeUser, UsersDone,
       UserRequests, UserResults, DeliveredResults, DeliveredRequests, Events, Unchanged

-----------------------------------------------------------------------------
(* The deliveries beside a sweep *)

LEMMA DeliveringStep ==
  ASSUME RetentionNext
  PROVE  [Next]_vars \/ SweepFault
BY SweepFrame DEF RetentionNext, Delivering, Next, Die

LEMMA FaultDelivery ==
  ASSUME DeliveryTypeOK, DeliveryInv, SweepFault
  PROVE  DeliveryTypeOK' /\ DeliveryInv'
<1>1. /\ faults \in Nat /\ faults' = faults + 1 /\ faults' \in 0..MaxFaults
      /\ UNCHANGED <<rowVars, tickVars, historyVars, crashes, redeliveries>>
  BY FaultTypes, DeliveryAssumption DEF SweepFault, Fault, DeliveryTypeOK
<1>2. DeliveryTypeOK'
  BY <1>1 DEF DeliveryTypeOK, rowVars, tickVars, historyVars
<1>3. \A r \in Results : Uncounted(r)' = Uncounted(r)
  BY <1>1 DEF Uncounted, Now, rowVars, tickVars
<1>4. SentCounted'
  <2> SUFFICES ASSUME NEW r \in Results
               PROVE  sent[r] <= deliveryAttempts[r] + Uncounted(r) + crashes + faults'
    BY <1>1, <1>3 DEF SentCounted, rowVars, historyVars
  <2>1. /\ sent[r] \in Nat /\ deliveryAttempts[r] \in Nat /\ crashes \in Nat
        /\ Uncounted(r) \in {0, 1}
    BY DeliveryAssumption DEF DeliveryTypeOK, Uncounted
  <2>2. sent[r] <= deliveryAttempts[r] + Uncounted(r) + crashes + faults
    BY DEF DeliveryInv, SentCounted
  <2>3. QED
    BY <1>1, <2>1, <2>2
<1>5. QED
  BY <1>1, <1>2, <1>4
  DEF DeliveryInv, DeliveredWasReceived, MarkAfterDelivery, SnapshotAbove, TodoUndelivered,
      DeliveredBelowCap, Now, rowVars, tickVars, historyVars

\* Whatever the sweeps do, what DeliveryProofs shows of the deliveries holds.
LEMMA DeliveryBesideSweeps == RetentionSpec => [](DeliveryTypeOK /\ DeliveryInv)
<1>1. RetentionInit => DeliveryTypeOK /\ DeliveryInv
  BY InitTypes, InitDelivery DEF RetentionInit
<1>2. DeliveryTypeOK /\ DeliveryInv /\ [RetentionNext]_retentionVars
        => DeliveryTypeOK' /\ DeliveryInv'
  <2> SUFFICES ASSUME DeliveryTypeOK, DeliveryInv, [RetentionNext]_retentionVars
               PROVE  DeliveryTypeOK' /\ DeliveryInv'
    OBVIOUS
  <2>1. CASE UNCHANGED retentionVars
    BY <2>1, DeliveryStep DEF retentionVars
  <2>2. CASE RetentionNext
    BY <2>2, DeliveringStep, DeliveryStep, FaultDelivery
  <2>3. QED
    BY <2>1, <2>2
<1>3. QED
  BY <1>1, <1>2, PTL DEF RetentionSpec

-----------------------------------------------------------------------------
(* Content goes after its receipt *)

\* What a tick holds as a tombstone was scrubbed before.
TombsAreScrubbed == \A r \in Results : r \in wTombs => resultScrubbed[r]

\* What a target was given before the hard cap was content.
ReceivedIsContent ==
  \A r \in Results : WaitsForAck(r) /\ received[r] > 0 => gotContent[r]

\* The ages of the sweep are not those of the future, and only results grow old.
SweepAges ==
  \A r \in Results :
    /\ sAge[r] <= age[r]
    /\ age[r] > 0 => Exists(r)

\* A user whose content is scrubbed by age is not on on_ack.
UserByAge == spc \in {"requests", "results"} => PolicyDays(sUser) # 0

AckInv ==
  /\ AckWaitsForReceipt
  /\ TombsAreScrubbed
  /\ ReceivedIsContent
  /\ SweepAges
  /\ UserByAge

LEMMA InitAck == RetentionInit => RetentionTypeOK /\ AckInv
BY DEF RetentionInit, Init, RetentionTypeOK, AckInv, AckWaitsForReceipt, TombsAreScrubbed,
       ReceivedIsContent, SweepAges, UserByAge, Exists

\* A step that scrubs only what is past the hard cap, what belongs to a user
\* not on on_ack, or what was delivered.
LEMMA ScrubAck ==
  ASSUME DeliveryTypeOK, DeliveryInv, RetentionTypeOK, AckInv,
         UNCHANGED <<vars, policyOf, age, wTombs, gotContent, sAge>>, UserByAge',
         NEW S,
         \A r \in S \cap Results : WaitsForAck(r) => deliveryStatus[r] = "delivered",
         ScrubRequestsOf(S) \/ UNCHANGED requestScrubbed,
         ScrubResultsOf(S) \/ UNCHANGED resultScrubbed
  PROVE  RetentionTypeOK' /\ AckInv'
<1>1. RetentionTypeOK'
  BY DEF RetentionTypeOK, ScrubRequestsOf, ScrubResultsOf
<1>2. \A r \in Results : WaitsForAck(r)' = WaitsForAck(r)
  BY DEF WaitsForAck, PolicyDays, ParseRetentionPolicy
<1>3. \A r \in S \cap Results : WaitsForAck(r) => gotContent[r]
  BY DEF DeliveryInv, DeliveredWasReceived, AckInv, ReceivedIsContent
<1>4. \A r \in Results : requestScrubbed'[r] => requestScrubbed[r] \/ r \in S
  BY DEF ScrubRequestsOf, RetentionTypeOK
<1>5. \A r \in Results :
        /\ resultScrubbed'[r] => resultScrubbed[r] \/ r \in S
        /\ resultScrubbed[r] => resultScrubbed'[r]
  BY DEF ScrubResultsOf, RetentionTypeOK
<1>6. AckWaitsForReceipt'
  BY <1>2, <1>3, <1>4, <1>5 DEF AckInv, AckWaitsForReceipt
<1>7. TombsAreScrubbed'
  BY <1>5 DEF AckInv, TombsAreScrubbed
<1>8. ReceivedIsContent' /\ SweepAges'
  BY <1>2 DEF AckInv, ReceivedIsContent, SweepAges, Exists, vars, rowVars, historyVars
<1>9. QED
  BY <1>1, <1>6, <1>7, <1>8 DEF AckInv

\* What is past the hard cap, or past the days of a user's policy, does not wait.
LEMMA PastHardCap ==
  ASSUME RetentionTypeOK, AckInv, NEW r \in Past(HardCap)
  PROVE  r \in Results /\ ~WaitsForAck(r)
BY RetentionAssumption DEF Past, AckInv, SweepAges, WaitsForAck, RetentionTypeOK

LEMMA SweepAck ==
  ASSUME DeliveryTypeOK, DeliveryInv, RetentionTypeOK, AckInv, Sweep
  PROVE  RetentionTypeOK' /\ AckInv'
<1>0. UNCHANGED <<vars, policyOf, wTombs, gotContent>>
  BY SweepFrame
<1>1. \A u : PolicyDays(u)' = PolicyDays(u)
  BY <1>0 DEF PolicyDays, ParseRetentionPolicy
<1>2. CASE SweepStart \/ Events
  <2>1. /\ UNCHANGED <<age, requestScrubbed, resultScrubbed>>
        /\ spc' \in {"cap_requests", "idle"}
        /\ sAge' = age \/ sAge' = [r \in Results |-> 0]
    BY <1>2 DEF SweepStart, Events, EndSweep, Unchanged
  <2>2. RetentionTypeOK' /\ SweepAges'
    BY <1>0, <2>1 DEF RetentionTypeOK, AckInv, SweepAges, Exists, vars, rowVars
  <2>3. AckWaitsForReceipt' /\ TombsAreScrubbed' /\ ReceivedIsContent'
    BY <1>0, <1>1, <2>1
    DEF AckInv, AckWaitsForReceipt, TombsAreScrubbed, ReceivedIsContent, WaitsForAck, vars,
        historyVars
  <2>4. QED
    BY <2>1, <2>2, <2>3 DEF AckInv, UserByAge
<1>3. CASE ReadUsers \/ UsersDone \/ \E u \in Users : TakeUser(u)
  <2>1. /\ UNCHANGED <<age, requestScrubbed, resultScrubbed, sAge>>
        /\ spc' = "requests" => PolicyDays(sUser') # 0
        /\ spc' # "results"
    BY <1>3 DEF ReadUsers, UsersDone, TakeUser, GoTo, Unchanged
  <2>2. UserByAge'
    BY <1>1, <2>1 DEF UserByAge
  <2>3. \A r \in {} \cap Results : WaitsForAck(r) => deliveryStatus[r] = "delivered"
    OBVIOUS
  <2>4. QED
    BY <1>0, <2>1, <2>2, <2>3, ScrubAck
<1>4. CASE CapRequests \/ CapResults
  <2>1. /\ UNCHANGED <<age, sAge>> /\ spc' \in {"cap_results", "users"}
        /\ ScrubRequestsOf(Past(HardCap)) \/ UNCHANGED requestScrubbed
        /\ ScrubResultsOf(Past(HardCap)) \/ UNCHANGED resultScrubbed
    BY <1>4 DEF CapRequests, CapResults, GoTo, Unchanged
  <2>2. UserByAge'
    BY <2>1 DEF UserByAge
  <2>3. QED
    BY <1>0, <2>1, <2>2, PastHardCap, ScrubAck
<1>5. CASE UserRequests \/ UserResults
  <2> DEFINE S == ResultsOf(sUser) \cap Past(CutoffDays(PolicyDays(sUser)))
  <2>1. /\ UNCHANGED <<age, sAge>> /\ PolicyDays(sUser) # 0
        /\ \/ spc' = "results" /\ sUser' = sUser
           \/ spc' = "next_user"
        /\ ScrubRequestsOf(S) \/ UNCHANGED requestScrubbed
        /\ ScrubResultsOf(S) \/ UNCHANGED resultScrubbed
    BY <1>5 DEF UserRequests, UserResults, GoTo, EndUser, Unchanged, AckInv, UserByAge
  <2>2. UserByAge'
    BY <1>1, <2>1 DEF UserByAge
  <2>3. \A r \in S \cap Results : ~WaitsForAck(r)
    BY <2>1 DEF ResultsOf, WaitsForAck
  <2> HIDE DEF S
  <2>4. QED
    BY <1>0, <2>1, <2>2, <2>3, ScrubAck
<1>6. CASE DeliveredResults \/ DeliveredRequests
  <2>1. /\ UNCHANGED <<age, sAge>> /\ spc' \in {"delivered_requests", "next_user"}
        /\ \E S \in SUBSET DeliveredOf(sUser) :
             /\ ScrubRequestsOf(S) \/ UNCHANGED requestScrubbed
             /\ ScrubResultsOf(S) \/ UNCHANGED resultScrubbed
    BY <1>6 DEF DeliveredResults, DeliveredRequests, GoTo, EndUser, Unchanged
  <2>2. UserByAge'
    BY <2>1 DEF UserByAge
  <2>3. \A r \in DeliveredOf(sUser) : deliveryStatus[r] = "delivered"
    BY DEF DeliveredOf
  <2>4. QED
    BY <1>0, <2>1, <2>2, <2>3, ScrubAck
<1>7. QED
  BY <1>2, <1>3, <1>4, <1>5, <1>6 DEF Sweep

\* A result exists once it does.
LEMMA ExistsKept ==
  ASSUME DeliveryTypeOK, [Next]_vars, NEW r \in Results, Exists(r)
  PROVE  Exists(r)'
BY DEF Next, vars, Tick, Read, NoTarget, Prepare, Deliver, Reject, TimeOut, Try, Mark, Log, Record,
       Retry, Exhaust, Succeed, BecomeDue, Redeliver, Persist, Throw, Crash, rowVars, Exists,
       DeliveryTypeOK

\* The deliveries only add receipts, and those of content are content.
LEMMA DeliveringAck ==
  ASSUME DeliveryTypeOK, DeliveryTypeOK', RetentionTypeOK, AckInv, Delivering, Traces
  PROVE  RetentionTypeOK' /\ AckInv'
<1>1. UNCHANGED <<policyOf, age, requestScrubbed, resultScrubbed, sweepVars>>
  BY DEF Traces
<1>2. \A r \in Results : gotContent'[r] = (gotContent[r] \/ (received'[r] > received[r] /\ r \notin wTombs))
  BY DEF Traces
<1>3. RetentionTypeOK'
  BY <1>1 DEF Traces, RetentionTypeOK, sweepVars
<1>4. \A r \in Results : WaitsForAck(r)' = WaitsForAck(r)
  BY <1>1 DEF WaitsForAck, PolicyDays, ParseRetentionPolicy
<1>5. AckWaitsForReceipt'
  BY <1>1, <1>2, <1>4 DEF AckInv, AckWaitsForReceipt
<1>6. TombsAreScrubbed'
  BY <1>1 DEF Traces, AckInv, TombsAreScrubbed
<1>7. ReceivedIsContent'
  <2> SUFFICES ASSUME NEW r \in Results, WaitsForAck(r), received'[r] > 0
               PROVE  gotContent'[r]
    BY <1>4 DEF ReceivedIsContent
  <2>1. CASE received'[r] > received[r]
    BY <1>2, <2>1 DEF AckInv, TombsAreScrubbed, AckWaitsForReceipt
  <2>2. CASE ~(received'[r] > received[r])
    <3>1. received[r] > 0
      BY <2>2 DEF DeliveryTypeOK
    <3>2. QED
      BY <1>2, <3>1 DEF AckInv, ReceivedIsContent
  <2>3. QED
    BY <2>1, <2>2
<1>8. SweepAges'
  <2>1. [Next]_vars
    BY DEF Delivering, Next
  <2>2. QED
    BY <1>1, <2>1, ExistsKept DEF AckInv, SweepAges, sweepVars
<1>9. UserByAge'
  BY <1>1 DEF AckInv, UserByAge, sweepVars, PolicyDays, ParseRetentionPolicy
<1>10. QED
  BY <1>3, <1>5, <1>6, <1>7, <1>8, <1>9 DEF AckInv

\* Days pass, and what no longer waits never waits again.
LEMMA OlderAck ==
  ASSUME RetentionTypeOK, AckInv, GrowOlder
  PROVE  RetentionTypeOK' /\ AckInv'
<1>1. PICK S \in SUBSET {r \in Results : Exists(r) /\ age[r] < MaxAge} :
        age' = [r \in Results |-> IF r \in S THEN age[r] + 1 ELSE age[r]]
  BY DEF GrowOlder
<1>2. UNCHANGED <<vars, policyOf, requestScrubbed, resultScrubbed, wTombs, gotContent, sweepVars>>
  BY DEF GrowOlder
<1>3. RetentionTypeOK'
  BY <1>1, <1>2 DEF RetentionTypeOK, sweepVars
<1>4. \A r \in Results : age'[r] \in Nat /\ age[r] <= age'[r] /\ (age'[r] > 0 => Exists(r))
  BY <1>1 DEF RetentionTypeOK, AckInv, SweepAges
<1>5. \A r \in Results : WaitsForAck(r)' => WaitsForAck(r)
  BY <1>2, <1>4, RetentionAssumption
  DEF WaitsForAck, PolicyDays, ParseRetentionPolicy, RetentionTypeOK
<1>6. AckWaitsForReceipt' /\ TombsAreScrubbed' /\ ReceivedIsContent'
  BY <1>2, <1>5
  DEF AckInv, AckWaitsForReceipt, TombsAreScrubbed, ReceivedIsContent, vars, historyVars
<1>7. SweepAges'
  BY <1>2, <1>4
  DEF AckInv, SweepAges, Exists, RetentionTypeOK, sweepVars, vars, rowVars
<1>8. UserByAge'
  BY <1>2 DEF AckInv, UserByAge, sweepVars, PolicyDays, ParseRetentionPolicy
<1>9. QED
  BY <1>3, <1>6, <1>7, <1>8 DEF AckInv

\* A step that fails, and a process that dies, scrub nothing.
LEMMA TroubleAck ==
  ASSUME DeliveryTypeOK, RetentionTypeOK, AckInv, SweepFault \/ Die
  PROVE  RetentionTypeOK' /\ AckInv'
<1>1. /\ UNCHANGED <<rowVars, historyVars, contentVars, gotContent>>
      /\ wTombs' = wTombs \/ wTombs' = {}
      /\ sAge' = sAge \/ sAge' = [r \in Results |-> 0]
      /\ spc' \notin {"requests", "results"}
  BY DEF SweepFault, StepFails, UserFails, EndUser, EndSweep, Die, Crash
<1>2. RetentionTypeOK'
  BY <1>1 DEF RetentionTypeOK, contentVars
<1>3. \A r \in Results : WaitsForAck(r)' = WaitsForAck(r)
  BY <1>1 DEF WaitsForAck, PolicyDays, ParseRetentionPolicy, contentVars
<1>4. AckWaitsForReceipt' /\ TombsAreScrubbed' /\ ReceivedIsContent' /\ UserByAge'
  BY <1>1, <1>3
  DEF AckInv, AckWaitsForReceipt, TombsAreScrubbed, ReceivedIsContent, UserByAge, contentVars,
      historyVars
<1>5. SweepAges'
  BY <1>1 DEF AckInv, SweepAges, Exists, RetentionTypeOK, contentVars, rowVars
<1>6. QED
  BY <1>2, <1>4, <1>5 DEF AckInv

LEMMA AckInductive == RetentionSpec => [](DeliveryTypeOK /\ DeliveryInv /\ RetentionTypeOK /\ AckInv)
<1>1. /\ DeliveryTypeOK /\ DeliveryTypeOK' /\ DeliveryInv /\ RetentionTypeOK /\ AckInv
      /\ [RetentionNext]_retentionVars
      => RetentionTypeOK' /\ AckInv'
  <2> SUFFICES ASSUME DeliveryTypeOK, DeliveryTypeOK', DeliveryInv, RetentionTypeOK, AckInv,
                      [RetentionNext]_retentionVars
               PROVE  RetentionTypeOK' /\ AckInv'
    OBVIOUS
  <2>1. CASE UNCHANGED retentionVars
    <3>1. \A r \in Results : WaitsForAck(r)' = WaitsForAck(r) /\ Exists(r)' = Exists(r)
      BY <2>1
      DEF retentionVars, contentVars, vars, rowVars, WaitsForAck, PolicyDays,
          ParseRetentionPolicy, Exists
    <3>2. PolicyDays(sUser)' = PolicyDays(sUser)
      BY <2>1 DEF retentionVars, contentVars, sweepVars, PolicyDays, ParseRetentionPolicy
    <3>3. QED
      BY <2>1, <3>1, <3>2
      DEF retentionVars, contentVars, sweepVars, vars, historyVars, RetentionTypeOK, AckInv,
          AckWaitsForReceipt, TombsAreScrubbed, ReceivedIsContent, SweepAges, UserByAge
  <2>2. CASE RetentionNext
    BY <2>2, DeliveringAck, SweepAck, OlderAck, TroubleAck DEF RetentionNext
  <2>3. QED
    BY <2>1, <2>2
<1>2. QED
  BY InitAck, <1>1, DeliveryBesideSweeps, PTL DEF RetentionSpec

\* While the hard cap has not come, content of a user on on_ack goes only after
\* its target has taken the response itself, with any number of users, results,
\* sweeps, redeliveries, late answers, crashes and failed statements.
THEOREM AckAlwaysWaits == RetentionSpec => []AckWaitsForReceipt
<1>1. AckInv => AckWaitsForReceipt
  BY DEF AckInv
<1>2. QED
  BY AckInductive, <1>1, PTL

-----------------------------------------------------------------------------
(* A sweep leaves nothing overdue *)

AfterCap == {"users", "next_user", "requests", "results", "delivered_results",
             "delivered_requests", "events"}
AfterUsers == AfterCap \ {"users"}

\* Past the hard cap when the sweep began.
OverCap(r) == "cap" \notin sFailed /\ sAge[r] > HardCap

\* Past the days of its user's policy when the sweep began.
OverPolicy(r) ==
  /\ UserOf[r] \notin sFailed /\ "users" \notin sFailed
  /\ PolicyDays(UserOf[r]) > 0
  /\ sAge[r] > CutoffDays(PolicyDays(UserOf[r]))

\* The user of a result is still to be done, or is being done.
UserAhead(r) ==
  \/ UserOf[r] \in sUsers
  \/ spc \in {"requests", "results"} /\ sUser = UserOf[r]

CapDone == spc \in AfterCap => \A r \in Results : OverCap(r) => resultScrubbed[r]

UsersAhead ==
  spc \in AfterUsers =>
    \A r \in Results : OverPolicy(r) => resultScrubbed[r] \/ UserAhead(r)

\* Users wait only inside the loop.
UsersOfLoop == spc \in {"idle", "cap_requests", "cap_results", "users", "events"} => sUsers = {}

OverdueInv == CapDone /\ UsersAhead /\ UsersOfLoop

LEMMA InitOverdue == RetentionInit => OverdueInv
BY DEF RetentionInit, OverdueInv, CapDone, UsersAhead, UsersOfLoop, AfterCap, AfterUsers

\* What counts as overdue for a sweep exists.
LEMMA OverdueExists ==
  ASSUME RetentionTypeOK, AckInv, NEW r \in Results, OverCap(r) \/ OverPolicy(r)
  PROVE  Exists(r)
<1>1. sAge[r] > 0
  <2>1. CASE OverCap(r)
    BY <2>1, RetentionAssumption DEF OverCap, RetentionTypeOK
  <2>2. CASE OverPolicy(r)
    <3>1. UserOf[r] \in Users
      BY RetentionAssumption
    <3>2. PolicyDays(UserOf[r]) \in Nat
      BY <2>2, <3>1, PolicyType DEF OverPolicy, NotAPolicy
    <3>3. CutoffDays(PolicyDays(UserOf[r])) \in Nat
      BY <2>2, <3>2, CutoffType DEF OverPolicy
    <3>4. QED
      BY <2>2, <3>3 DEF OverPolicy, RetentionTypeOK
  <2>3. QED
    BY <2>1, <2>2
<1>2. QED
  BY <1>1 DEF AckInv, SweepAges, RetentionTypeOK

\* Nothing of the sweep changes.
LEMMA OverdueFrame ==
  ASSUME OverdueInv, UNCHANGED <<sweepVars, policyOf, resultScrubbed>>
  PROVE  OverdueInv'
<1>1. \A r \in Results : /\ OverCap(r)' = OverCap(r) /\ OverPolicy(r)' = OverPolicy(r)
                         /\ UserAhead(r)' = UserAhead(r)
  BY DEF OverCap, OverPolicy, UserAhead, PolicyDays, ParseRetentionPolicy, sweepVars
<1>2. QED
  BY <1>1 DEF OverdueInv, CapDone, UsersAhead, UsersOfLoop, sweepVars

\* The sweep goes on, and what has failed so far stays failed.
LEMMA OverdueLess ==
  ASSUME NEW r \in Results, UNCHANGED <<policyOf, sAge>>, sFailed \subseteq sFailed'
  PROVE  (OverCap(r)' => OverCap(r)) /\ (OverPolicy(r)' => OverPolicy(r))
BY DEF OverCap, OverPolicy, PolicyDays, ParseRetentionPolicy

LEMMA SweepOverdue ==
  ASSUME DeliveryTypeOK, RetentionTypeOK, AckInv, OverdueInv, Sweep
  PROVE  OverdueInv'
<1>0. UNCHANGED <<vars, policyOf, wTombs, gotContent>>
  BY SweepFrame
<1>1. CASE SweepStart \/ Events
  BY <1>1
  DEF SweepStart, Events, EndSweep, OverdueInv, CapDone, UsersAhead, UsersOfLoop, AfterCap,
      AfterUsers
<1>2. CASE CapRequests \/ DeliveredRequests \/ DeliveredResults \/ UserRequests
  <2>1. /\ UNCHANGED <<sAge, sFailed, sUsers, policyOf>>
        /\ \A r \in Results : resultScrubbed[r] => resultScrubbed'[r]
        /\ \/ spc = "cap_requests" /\ spc' = "cap_results"
           \/ spc = "delivered_requests" /\ spc' = "next_user"
           \/ spc = "delivered_results" /\ spc' = "delivered_requests"
           \/ spc = "requests" /\ spc' = "results" /\ sUser' = sUser
    BY <1>0, <1>2
    DEF CapRequests, DeliveredRequests, DeliveredResults, UserRequests, GoTo, EndUser,
        ScrubResultsOf
  <2>2. \A r \in Results : /\ (OverCap(r)' => OverCap(r)) /\ (OverPolicy(r)' => OverPolicy(r))
    BY <2>1, OverdueLess
  <2>3. \A r \in Results : spc \in AfterUsers => (UserAhead(r) => UserAhead(r)')
    BY <2>1 DEF UserAhead
  <2>4. QED
    BY <2>1, <2>2, <2>3 DEF OverdueInv, CapDone, UsersAhead, UsersOfLoop, AfterCap, AfterUsers
<1>3. CASE CapResults
  <2>1. /\ UNCHANGED <<sAge, sFailed, sUsers, policyOf>>
        /\ spc = "cap_results" /\ spc' = "users"
        /\ ScrubResultsOf(Past(HardCap))
    BY <1>0, <1>3 DEF CapResults, GoTo
  <2>2. ASSUME NEW r \in Results, OverCap(r)' PROVE resultScrubbed'[r]
    <3>1. OverCap(r)
      BY <2>1, <2>2, OverdueLess
    <3>2. r \in Past(HardCap)
      BY <3>1, OverdueExists DEF OverCap, Past
    <3>3. QED
      BY <2>1, <3>2 DEF ScrubResultsOf
  <2>3. QED
    BY <2>1, <2>2 DEF OverdueInv, CapDone, UsersAhead, UsersOfLoop, AfterUsers, AfterCap
<1>4. CASE ReadUsers
  <2>1. /\ UNCHANGED <<sAge, sFailed, resultScrubbed, policyOf>>
        /\ spc = "users" /\ spc' = "next_user"
        /\ \A r \in Results : Exists(r) /\ ~resultScrubbed[r] => UserOf[r] \in sUsers'
    BY <1>0, <1>4 DEF ReadUsers
  <2>2. \A r \in Results : (OverCap(r)' => OverCap(r)) /\ (OverPolicy(r)' => OverPolicy(r))
    BY <2>1, OverdueLess
  <2>3. \A r \in Results : OverPolicy(r) => resultScrubbed[r] \/ UserAhead(r)'
    BY <2>1, OverdueExists DEF UserAhead, RetentionTypeOK
  <2>4. QED
    BY <2>1, <2>2, <2>3 DEF OverdueInv, CapDone, UsersAhead, UsersOfLoop, AfterCap, AfterUsers
<1>5. ASSUME NEW u \in Users, TakeUser(u)
      PROVE  OverdueInv'
  <2>1. /\ UNCHANGED <<sAge, resultScrubbed, policyOf>>
        /\ spc = "next_user" /\ sUsers' = sUsers \ {u}
        /\ sFailed \subseteq sFailed'
        /\ \/ u \in sFailed' /\ spc' = "next_user"
           \/ PolicyDays(u) = 0 /\ spc' = "delivered_results"
           \/ spc' = "requests" /\ sUser' = u
    BY <1>0, <1>5 DEF TakeUser
  <2>2. \A r \in Results : (OverCap(r)' => OverCap(r)) /\ (OverPolicy(r)' => OverPolicy(r))
    BY <2>1, OverdueLess
  <2>3. ASSUME NEW r \in Results, OverPolicy(r)'
        PROVE  resultScrubbed'[r] \/ UserAhead(r)'
    <3>1. OverPolicy(r) /\ UserOf[r] \notin sFailed' /\ PolicyDays(UserOf[r]) > 0
      BY <2>2, <2>3 DEF OverPolicy
    <3>2. resultScrubbed[r] \/ UserOf[r] \in sUsers
      BY <2>1, <3>1 DEF OverdueInv, UsersAhead, UserAhead, AfterUsers, AfterCap
    <3>3. CASE UserOf[r] = u
      BY <2>1, <3>1, <3>3 DEF UserAhead
    <3>4. CASE UserOf[r] # u
      BY <2>1, <3>2, <3>4 DEF UserAhead
    <3>5. QED
      BY <3>3, <3>4
  <2>4. QED
    BY <2>1, <2>2, <2>3 DEF OverdueInv, CapDone, UsersAhead, UsersOfLoop, AfterCap, AfterUsers
<1>6. CASE UsersDone
  <2>1. /\ UNCHANGED <<sAge, sFailed, sUsers, resultScrubbed, policyOf>>
        /\ spc = "next_user" /\ spc' = "events" /\ sUsers = {}
    BY <1>0, <1>6 DEF UsersDone, GoTo
  <2>2. \A r \in Results : (OverCap(r)' => OverCap(r)) /\ (OverPolicy(r)' => OverPolicy(r))
    BY <2>1, OverdueLess
  <2>3. \A r \in Results : UserAhead(r) => UserAhead(r)'
    BY <2>1 DEF UserAhead
  <2>4. QED
    BY <2>1, <2>2, <2>3 DEF OverdueInv, CapDone, UsersAhead, UsersOfLoop, AfterCap, AfterUsers
<1>7. CASE UserResults
  <2> DEFINE S == ResultsOf(sUser) \cap Past(CutoffDays(PolicyDays(sUser)))
  <2>1. /\ UNCHANGED <<sAge, sFailed, sUsers, policyOf>>
        /\ spc = "results" /\ spc' = "next_user"
        /\ \A r \in Results : resultScrubbed'[r] = (resultScrubbed[r] \/ r \in S)
    BY <1>0, <1>7 DEF UserResults, EndUser, ScrubResultsOf
  <2>2. \A r \in Results : (OverCap(r)' => OverCap(r)) /\ (OverPolicy(r)' => OverPolicy(r))
    BY <2>1, OverdueLess
  <2>3. ASSUME NEW r \in Results, OverPolicy(r)
        PROVE  resultScrubbed'[r] \/ UserAhead(r)'
    <3>1. CASE sUser = UserOf[r]
      <4>1. r \in S
        BY <2>3, <3>1, OverdueExists DEF OverPolicy, ResultsOf, Past
      <4>2. QED
        BY <2>1, <4>1
    <3>2. CASE sUser # UserOf[r]
      BY <2>1, <2>3, <3>2 DEF OverdueInv, UsersAhead, UserAhead, AfterUsers, AfterCap
    <3>3. QED
      BY <3>1, <3>2
  <2> HIDE DEF S
  <2>4. QED
    BY <2>1, <2>2, <2>3 DEF OverdueInv, CapDone, UsersAhead, UsersOfLoop, AfterCap, AfterUsers
<1>8. QED
  BY <1>1, <1>2, <1>3, <1>4, <1>5, <1>6, <1>7 DEF Sweep

\* What fails is counted, and nothing else is left out because of it.
LEMMA FaultOverdue ==
  ASSUME RetentionTypeOK, OverdueInv, SweepFault
  PROVE  OverdueInv'
<1>0. UNCHANGED <<policyOf, resultScrubbed>>
  BY DEF SweepFault, contentVars
<1>1. CASE StepFails({"cap_requests", "cap_results"}, "cap", "users")
  BY <1>0, <1>1
  DEF StepFails, OverCap, OverdueInv, CapDone, UsersAhead, UsersOfLoop, AfterCap, AfterUsers
<1>2. CASE StepFails({"users"}, "users", "events")
  <2>1. /\ UNCHANGED <<sAge, sUsers>> /\ sFailed \subseteq sFailed' /\ "users" \in sFailed'
        /\ spc = "users" /\ spc' = "events"
    BY <1>2 DEF StepFails
  <2>2. \A r \in Results : (OverCap(r)' => OverCap(r)) /\ ~OverPolicy(r)'
    BY <1>0, <2>1, OverdueLess DEF OverPolicy
  <2>3. QED
    BY <1>0, <2>1, <2>2 DEF OverdueInv, CapDone, UsersAhead, UsersOfLoop, AfterCap, AfterUsers
<1>3. CASE UserFails
  <2>1. /\ UNCHANGED <<sAge, sUsers>> /\ sFailed' = sFailed \cup {sUser}
        /\ spc \in {"requests", "results", "delivered_results", "delivered_requests"}
        /\ spc' = "next_user"
    BY <1>3 DEF UserFails, EndUser
  <2>2. \A r \in Results : (OverCap(r)' => OverCap(r)) /\ (OverPolicy(r)' => OverPolicy(r))
    BY <1>0, <2>1, OverdueLess
  <2>3. \A r \in Results : OverPolicy(r)' => (UserAhead(r) => UserAhead(r)')
    BY <2>1 DEF OverPolicy, UserAhead
  <2>4. QED
    BY <1>0, <2>1, <2>2, <2>3
    DEF OverdueInv, CapDone, UsersAhead, UsersOfLoop, AfterCap, AfterUsers
<1>4. CASE spc = "events" /\ sFailed' = sFailed \cup {"events"} /\ EndSweep
  BY <1>4 DEF EndSweep, OverdueInv, CapDone, UsersAhead, UsersOfLoop, AfterCap, AfterUsers
<1>5. QED
  BY <1>1, <1>2, <1>3, <1>4 DEF SweepFault

LEMMA OverdueInductive ==
  RetentionSpec => [](DeliveryTypeOK /\ RetentionTypeOK /\ AckInv /\ OverdueInv)
<1>1. /\ DeliveryTypeOK /\ RetentionTypeOK /\ AckInv /\ OverdueInv
      /\ [RetentionNext]_retentionVars
      => OverdueInv'
  <2> SUFFICES ASSUME DeliveryTypeOK, RetentionTypeOK, AckInv, OverdueInv,
                      [RetentionNext]_retentionVars
               PROVE  OverdueInv'
    OBVIOUS
  <2>1. CASE UNCHANGED retentionVars \/ GrowOlder \/ (Delivering /\ Traces)
    BY <2>1, OverdueFrame DEF retentionVars, contentVars, GrowOlder, Traces
  <2>2. CASE Die
    BY <2>2 DEF Die, OverdueInv, CapDone, UsersAhead, UsersOfLoop, AfterCap, AfterUsers
  <2>3. QED
    BY <2>1, <2>2, SweepOverdue, FaultOverdue DEF RetentionNext
<1>2. QED
  BY InitOverdue, <1>1, AckInductive, PTL DEF RetentionSpec

\* A sweep that comes to its end leaves no response that was overdue when it
\* began, and no details logged of it, except where its own step or user failed:
\* the error of one user or step is never paid by another, for any number of
\* users, policies and results.
THEOREM SweepsLeaveNothingOverdue == RetentionSpec => SweepLeavesNothingOverdue
<1> DEFINE A == spc = "events" /\ spc' = "idle" /\ crashes' = crashes =>
                  \A r \in Results : Overdue(r) =>
                    resultScrubbed'[r] /\ ("events" \notin sFailed' => details'[r] # "text")
<1>1. DeliveryTypeOK /\ RetentionTypeOK /\ OverdueInv /\ [RetentionNext]_retentionVars
        => [A]_retentionVars
  <2> SUFFICES ASSUME DeliveryTypeOK, RetentionTypeOK, OverdueInv, RetentionNext,
                      spc = "events", spc' = "idle", crashes' = crashes,
                      NEW r \in Results, Overdue(r)
               PROVE  resultScrubbed'[r] /\ ("events" \notin sFailed' => details'[r] # "text")
    BY DEF retentionVars, sweepVars
  <2>1. resultScrubbed[r]
    BY DEF Overdue, Past, OverdueInv, CapDone, UsersAhead, UsersOfLoop, AfterCap, AfterUsers,
           OverCap, OverPolicy, UserAhead
  <2>2. CASE Events
    <3>1. UNCHANGED resultScrubbed /\ ScrubEvents
      BY <2>2 DEF Events
    <3>2. QED
      BY <2>1, <3>1 DEF ScrubEvents
  <2>3. CASE SweepFault
    BY <2>1, <2>3 DEF SweepFault, StepFails, UserFails, contentVars
  <2>4. Events \/ SweepFault
    <3>1. CASE GrowOlder \/ (Delivering /\ Traces)
      BY <3>1 DEF GrowOlder, Traces, sweepVars
    <3>2. CASE Die
      BY <3>2, DeliveryAssumption DEF Die, Crash, DeliveryTypeOK
    <3>3. CASE Sweep
      BY <3>3
      DEF Sweep, SweepStart, CapRequests, CapResults, ReadUsers, TakeUser, UsersDone,
          UserRequests, UserResults, DeliveredResults, DeliveredRequests, GoTo, EndUser
    <3>4. QED
      BY <3>1, <3>2, <3>3 DEF RetentionNext
  <2>5. QED
    BY <2>2, <2>3, <2>4
<1>2. QED
  BY <1>1, OverdueInductive, PTL DEF RetentionSpec, SweepLeavesNothingOverdue
=============================================================================
