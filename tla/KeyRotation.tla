----------------------------- MODULE KeyRotation -----------------------------
(***************************************************************************)
(* cli/rotate-key.ts: a rotation pages through user_api_keys in one READ   *)
(* COMMITTED transaction and re-encrypts every row, beside the web process *)
(* that adds and deletes rows (lib/server/api-keys.ts) and beside a second *)
(* rotation.                                                               *)
(*                                                                         *)
(* A stored key is the master key its blob was encrypted under: AES-GCM    *)
(* (crypto/vault.ts) decrypts it under no other.  Row ids grow with time.  *)
(***************************************************************************)
EXTENDS Naturals, FiniteSets

CONSTANTS
  ApiKeys,          \* ids of user_api_keys
  OldKey,           \* the master key before any rotation
  Rotations,        \* the rotations that may run
  NewKeyOf,         \* the --new-key of each; --old-key is OldKey
  PageSize,         \* rows read at a time
  MaxLateRows       \* bound on rows added once a rotation has begun

NoBlob == "none"

ASSUME RotationAssumption ==
  /\ ApiKeys \subseteq Nat \ {0}
  /\ OldKey # NoBlob
  /\ \A t \in Rotations : NewKeyOf[t] \notin {OldKey, NoBlob}
  /\ PageSize \in Nat \ {0}
  /\ MaxLateRows \in Nat

VARIABLES
  under,            \* the master key of a committed blob, or NoBlob
  masterKey,        \* the key the web process has derived and keeps
  rStep,            \* "idle", "page", "row", "committed", "aborted"
  rDry,             \* --dry-run
  rPage,            \* rows of the page still to do, with their key as read
  rLast,            \* lastId
  rWrites,          \* uncommitted updates, whose rows are locked
  newest,           \* the last id that was given
  early             \* history: rows older than every rotation

rotationVars == <<under, masterKey, rStep, rDry, rPage, rLast, rWrites, newest, early>>

RotationInit ==
  /\ under = [k \in ApiKeys |-> NoBlob]
  /\ masterKey = OldKey
  /\ rStep = [t \in Rotations |-> "idle"]
  /\ rDry = [t \in Rotations |-> FALSE]
  /\ rPage = [t \in Rotations |-> <<>>]
  /\ rLast = [t \in Rotations |-> 0]
  /\ rWrites = [t \in Rotations |-> <<>>]
  /\ newest = 0
  /\ early = {}

Stored == {k \in ApiKeys : under[k] # NoBlob}
Begun == \E t \in Rotations : rStep[t] # "idle"
Locked(k) == \E t \in Rotations : k \in DOMAIN rWrites[t]

-----------------------------------------------------------------------------
(* The web process *)

\* createApiKey, under the key derived at the process's first use
CreateApiKey(k) ==
  /\ k = newest + 1
  /\ Begun => Cardinality({j \in 1..newest : j \notin early}) < MaxLateRows
  /\ newest' = k
  /\ under' = [under EXCEPT ![k] = masterKey]
  /\ early' = IF Begun THEN early ELSE early \cup {k}
  /\ UNCHANGED <<masterKey, rStep, rDry, rPage, rLast, rWrites>>

\* deleteApiKey waits for a transaction that has updated the row.
DeleteApiKey(k) ==
  /\ k \in Stored /\ ~Locked(k)
  /\ under' = [under EXCEPT ![k] = NoBlob]
  /\ UNCHANGED <<masterKey, rStep, rDry, rPage, rLast, rWrites, newest, early>>

-----------------------------------------------------------------------------
(* rotateKeys *)

RotationBegin(t, dry) ==
  /\ rStep[t] = "idle"
  /\ rStep' = [rStep EXCEPT ![t] = "page"]
  /\ rDry' = [rDry EXCEPT ![t] = dry]
  /\ UNCHANGED <<under, masterKey, rPage, rLast, rWrites, newest, early>>

\* what a statement of t reads: committed rows and its own updates
Seen(t, k) == IF k \in DOMAIN rWrites[t] THEN rWrites[t][k] ELSE under[k]

After(n) == {k \in Stored : k > n}

\* SELECT ... WHERE id > lastId ORDER BY id LIMIT batchSize
PageAfter(n) == {k \in After(n) : Cardinality({j \in After(n) : j < k}) < PageSize}

\* An empty page ends the loop and commits.
ReadPage(t) ==
  LET page == PageAfter(rLast[t]) IN
  /\ rStep[t] = "page"
  /\ IF After(rLast[t]) = {}
       THEN /\ rStep' = [rStep EXCEPT ![t] = "committed"]
            /\ under' = [k \in ApiKeys |-> Seen(t, k)]
            /\ rWrites' = [rWrites EXCEPT ![t] = <<>>]
            /\ UNCHANGED <<rPage, rLast>>
       ELSE /\ rStep' = [rStep EXCEPT ![t] = "row"]
            /\ rPage' = [rPage EXCEPT ![t] = [k \in page |-> Seen(t, k)]]
            /\ \E k \in page :
                 (\A j \in page : j <= k) /\ rLast' = [rLast EXCEPT ![t] = k]
            /\ UNCHANGED <<under, rWrites>>
  /\ UNCHANGED <<masterKey, rDry, newest, early>>

InHand(t, k) ==
  /\ rStep[t] = "row" /\ k \in DOMAIN rPage[t]
  /\ \A j \in DOMAIN rPage[t] : k <= j

RowDone(t, k) ==
  LET left == DOMAIN rPage[t] \ {k} IN
  /\ rPage' = [rPage EXCEPT ![t] = [j \in left |-> rPage[t][j]]]
  /\ rStep' = [rStep EXCEPT ![t] = IF left = {} THEN "page" ELSE "row"]

\* decrypt, encrypt and UPDATE ... WHERE id, which waits for the other
\* rotation's update of the row and finds nothing when the row is deleted
RotateRow(t, k) ==
  /\ InHand(t, k)
  /\ rPage[t][k] = OldKey
  /\ rDry[t] \/ \A s \in Rotations \ {t} : k \notin DOMAIN rWrites[s]
  /\ rWrites' = [rWrites EXCEPT ![t] =
       IF rDry[t] \/ k \notin Stored THEN @
       ELSE [j \in DOMAIN @ \cup {k} |-> IF j = k THEN NewKeyOf[t] ELSE @[j]]]
  /\ RowDone(t, k)
  /\ UNCHANGED <<under, masterKey, rDry, rLast, newest, early>>

Abort(t) ==
  /\ rStep' = [rStep EXCEPT ![t] = "aborted"]
  /\ rWrites' = [rWrites EXCEPT ![t] = <<>>]
  /\ rPage' = [rPage EXCEPT ![t] = <<>>]
  /\ UNCHANGED <<under, masterKey, rDry, rLast, newest, early>>

Unreadable_Skipped(t, k) ==    \* mutant: a row that does not decrypt is passed over
  /\ InHand(t, k)
  /\ rPage[t][k] # OldKey
  /\ RowDone(t, k)
  /\ UNCHANGED <<under, masterKey, rDry, rLast, rWrites, newest, early>>

\* A row that does not decrypt with the old key aborts the whole rotation.
Unreadable(t, k) ==
  /\ InHand(t, k)
  /\ rPage[t][k] # OldKey
  /\ Abort(t)

\* The command is interrupted or a statement fails.
RotationFails(t) ==
  /\ rStep[t] \in {"page", "row"}
  /\ Abort(t)

\* The web process is started with the new key of a rotation that committed.
Rekey(t) ==
  /\ rStep[t] = "committed" /\ ~rDry[t]
  /\ masterKey' = NewKeyOf[t]
  /\ UNCHANGED <<under, rStep, rDry, rPage, rLast, rWrites, newest, early>>

Rotating(t) ==
  \/ \E dry \in BOOLEAN : RotationBegin(t, dry)
  \/ ReadPage(t)
  \/ \E k \in ApiKeys : RotateRow(t, k) \/ Unreadable(t, k)
  \/ RotationFails(t)

-----------------------------------------------------------------------------
(* Properties *)

\* rotate-key.ts:48-49: whatever rotations, with equal or different new keys,
\* failures, and keys added and deleted meanwhile interleave, all the keys that
\* were stored before the first rotation can be read with one master key.
RowsShareAKey ==
  \A j, k \in early \cap Stored : under[j] = under[k]
=============================================================================
