---------------------------- MODULE UpkeepProofs ----------------------------
(***************************************************************************)
(* Proofs about Upkeep: migrations run once, in order, before a process is *)
(* ready, for any number of processes and releases; rotations leave the    *)
(* stored keys under one master key, for any number of rotations, rows and *)
(* pages; and the catalog's Anthropic rows are what the page once said,    *)
(* for any pages and failures.                                             *)
(***************************************************************************)
EXTENDS Upkeep, TLAPS, FiniteSetTheorems

-----------------------------------------------------------------------------
(* The starts *)

\* Whoever is inside the transaction holds the lock, so what it found pending
\* is still pending.
StartupInv ==
  /\ applied \subseteq AllFiles
  /\ ran \in [AllFiles -> Nat]
  /\ step \in [Processes -> {"down", "create", "lock", "read", "apply", "ready", "failed"}]
  /\ pending \in [Processes -> SUBSET AllFiles]
  /\ \A p \in Processes : step[p] \in {"read", "apply"} => lock = p
  /\ \A p \in Processes : step[p] = "apply" => pending[p] = Files(p) \ applied
  /\ MigratedOnce

LEMMA StartupStarts == StartupInit => StartupInv
BY DEF StartupInit, StartupInv, MigratedOnce

\* The files of a process are numbered without a gap.
LEMMA FilesInOrder ==
  ASSUME NEW p \in Processes
  PROVE  /\ Files(p) \subseteq AllFiles
         /\ \A f \in Files(p) : 1..f \subseteq Files(p)
<1>1. Shipped[p] \in Nat
  BY StartupAssumption
<1>2. QED
  BY <1>1 DEF Files, AllFiles

\* A start, a failed one or a restart preserves the invariant: only Commit
\* changes the schema, with the lock in hand.
LEMMA StartupSteps ==
  ASSUME StartupInv, NEW p \in Processes, Starting(p) \/ BootFails(p) \/ Restart(p)
  PROVE  StartupInv'
<1> USE StartupAssumption DEF StartupInv, MigratedOnce, Goto, Release
<1>1. CASE Boot(p)
  BY <1>1 DEF Boot
<1>2. CASE CreateTable(p)
  BY <1>2 DEF CreateTable
<1>3. CASE TakeLock(p)
  BY <1>3 DEF TakeLock
<1>4. CASE ReadApplied(p)
  <2>1. Files(p) \ applied \in SUBSET AllFiles
    BY FilesInOrder
  <2>2. QED
    BY <1>4, <2>1 DEF ReadApplied
<1>5. CASE Commit(p)
  <2>1. /\ lock = p
        /\ applied' = applied \cup Files(p)
        /\ pending[p] = Files(p) \ applied
    BY <1>5 DEF Commit
  <2>2. \A q \in Processes : q # p => step[q] \notin {"read", "apply"}
    BY <2>1
  <2>3. \A f \in AllFiles : ran'[f] = IF f \in applied' THEN 1 ELSE 0
    BY <1>5, <2>1 DEF Commit
  <2>4. \A f \in applied' : 1..f \subseteq applied'
    BY <2>1, FilesInOrder
  <2>5. QED
    BY <1>5, <2>1, <2>2, <2>3, <2>4, FilesInOrder DEF Commit
<1>6. CASE BootFails(p)
  BY <1>6 DEF BootFails
<1>7. CASE Restart(p)
  BY <1>7 DEF Restart
<1>8. QED
  BY <1>1, <1>2, <1>3, <1>4, <1>5, <1>6, <1>7 DEF Starting

\* However the starts of two releases interleave, a migration runs once, in
\* its order, and a process that is ready finds its schema.
THEOREM AlwaysMigratedOnce == UpkeepSpec => []MigratedOnce
<1>1. UpkeepInit => StartupInv
  BY StartupStarts DEF UpkeepInit
<1>2. StartupInv /\ [UpkeepNext]_upkeepVars => StartupInv'
  <2> SUFFICES ASSUME StartupInv, [UpkeepNext]_upkeepVars
               PROVE  StartupInv'
    OBVIOUS
  <2>1. CASE UNCHANGED startupVars
    BY <2>1 DEF startupVars, StartupInv, MigratedOnce
  <2>2. CASE \E p \in Processes : Starting(p) \/ BootFails(p) \/ Restart(p)
    BY <2>2, StartupSteps
  <2>3. QED
    BY <2>1, <2>2 DEF UpkeepNext, Start, StartFails, StopProcess, RefreshStep, upkeepVars
<1>3. StartupInv => MigratedOnce
  BY DEF StartupInv
<1>4. QED
  BY <1>1, <1>2, <1>3, PTL DEF UpkeepSpec

-----------------------------------------------------------------------------
(* The rotations *)

\* What a rotation that writes has passed, among the old rows that are left,
\* is in its page or among its updates.
Passed(t) ==
  ~rDry[t] /\ rStep[t] \in {"page", "row"} =>
    \A k \in early \cap Stored :
      k <= rLast[t] => k \in DOMAIN rPage[t] \cup DOMAIN rWrites[t]

\* Updates lock rows that exist; a dry run makes none.
Writes(t) ==
  /\ \A k \in DOMAIN rWrites[t] : k \in Stored /\ rWrites[t][k] = NewKeyOf[t]
  /\ rDry[t] => DOMAIN rWrites[t] = {}

\* Between two pages nothing is in hand, before the first nothing is passed.
Between(t) ==
  /\ rStep[t] \in {"idle", "page"} => DOMAIN rPage[t] = {}
  /\ rStep[t] = "idle" => DOMAIN rWrites[t] = {} /\ rLast[t] = 0

MasterKeys == {OldKey} \cup {NewKeyOf[t] : t \in Rotations}

RotationTypes ==
  /\ under \in [ApiKeys -> MasterKeys \cup {NoBlob}]
  /\ masterKey \in MasterKeys
  /\ rStep \in [Rotations -> {"idle", "page", "row", "committed", "aborted"}]
  /\ rDry \in [Rotations -> BOOLEAN]
  /\ rLast \in [Rotations -> Nat]
  /\ DOMAIN rPage = Rotations /\ DOMAIN rWrites = Rotations
  /\ newest \in Nat
  /\ early \subseteq ApiKeys /\ \A k \in early : k <= newest

\* Until a rotation begins, everything is under the old key.
UnderOldKey == masterKey = OldKey /\ \A k \in early \cap Stored : under[k] = OldKey

RotationInv ==
  /\ RotationTypes
  /\ \A t \in Rotations : Passed(t) /\ Writes(t) /\ Between(t)
  /\ Begun \/ UnderOldKey
  /\ RowsShareAKey

LEMMA RotationStarts == RotationInit => RotationInv
BY DEF RotationInit, RotationInv, RotationTypes, Passed, Writes, Between, UnderOldKey,
       RowsShareAKey, Stored, MasterKeys

\* A page leaves out no row up to its last one.
LEMMA PageIsPrefix ==
  ASSUME NEW n \in Nat, NEW last \in PageAfter(n), NEW k \in After(n), k <= last
  PROVE  k \in PageAfter(n)
<1> DEFINE Below(m) == {j \in After(n) : j < m}
<1>1. After(n) \subseteq Nat /\ last \in Nat /\ last \in After(n) /\ k \in Nat
  BY RotationAssumption DEF PageAfter, After, Stored
<1>2. IsFiniteSet(0..last)
  BY <1>1, FS_Interval
<1>3. IsFiniteSet(Below(last))
  <2>1. Below(last) \in SUBSET (0..last)
    BY <1>1
  <2>2. QED
    BY <1>2, <2>1, FS_Subset
<1>4. Below(k) \in SUBSET Below(last)
  BY <1>1
<1>5. Cardinality(Below(k)) <= Cardinality(Below(last)) /\ IsFiniteSet(Below(k))
  BY <1>3, <1>4, FS_Subset
<1>6. Cardinality(Below(k)) \in Nat /\ Cardinality(Below(last)) \in Nat
  BY <1>3, <1>5, FS_CardinalityType
<1>7. Cardinality(Below(last)) < PageSize
  BY DEF PageAfter
<1>8. Cardinality(Below(k)) < PageSize
  BY <1>5, <1>6, <1>7, RotationAssumption
<1>9. QED
  BY <1>8 DEF PageAfter

\* Rows that are added or deleted: an old row never comes back.
LEMMA RowSteps ==
  ASSUME RotationInv, NEW k \in ApiKeys, CreateApiKey(k) \/ DeleteApiKey(k)
  PROVE  RotationInv'
<1> USE RotationAssumption
    DEF RotationInv, RotationTypes, Passed, Writes, Between, UnderOldKey, RowsShareAKey, Stored, Begun
<1>1. CASE CreateApiKey(k)
  <2>1. /\ k \notin early /\ k = newest + 1 /\ k \in Nat
        /\ newest' = k /\ under' = [under EXCEPT ![k] = masterKey]
        /\ early' = IF Begun THEN early ELSE early \cup {k}
        /\ UNCHANGED <<masterKey, rStep, rDry, rPage, rLast, rWrites>>
    BY <1>1 DEF CreateApiKey
  <2>2. RotationTypes'
    BY <2>1 DEF MasterKeys
  <2>3. CASE Begun
    <3>1. early' \cap Stored' = early \cap Stored /\ Stored \subseteq Stored'
      BY <2>1, <2>3 DEF MasterKeys
    <3>2. QED
      BY <2>1, <2>2, <2>3, <3>1
  <2>4. CASE ~Begun
    BY <2>1, <2>2, <2>4
  <2>5. QED
    BY <2>3, <2>4
<1>2. CASE DeleteApiKey(k)
  BY <1>2 DEF DeleteApiKey, Locked
<1>3. QED
  BY <1>1, <1>2

\* The last page is empty: everything old has been updated, or nothing.
LEMMA CommitStep ==
  ASSUME RotationInv, NEW t \in Rotations, ReadPage(t), After(rLast[t]) = {}
  PROVE  RotationInv'
<1>1. /\ rStep[t] = "page" /\ rStep' = [rStep EXCEPT ![t] = "committed"]
      /\ under' = [k \in ApiKeys |-> Seen(t, k)]
      /\ rWrites' = [rWrites EXCEPT ![t] = <<>>]
      /\ UNCHANGED <<rPage, rLast, masterKey, rDry, newest, early>>
  BY DEF ReadPage
<1>2. Stored' = Stored
  BY <1>1, RotationAssumption DEF RotationInv, RotationTypes, Writes, Stored, Seen
<1>3. \A k \in Stored : k <= rLast[t]
  <2>1. \A k \in Stored : ~(k > rLast[t])
    BY DEF After
  <2>2. rLast[t] \in Nat /\ Stored \subseteq Nat
    BY RotationAssumption DEF Stored, RotationInv, RotationTypes
  <2>3. QED
    BY <2>1, <2>2
<1>4. CASE rDry[t]
  <2>1. under' = under
    BY <1>1, <1>4 DEF RotationInv, RotationTypes, Writes, Seen
  <2>2. RowsShareAKey'
    BY <1>1, <1>2, <2>1 DEF RotationInv, RowsShareAKey
  <2>3. QED
    BY <1>1, <1>2, <2>1, <2>2
    DEF RotationInv, RotationTypes, Passed, Writes, Between, Begun
<1>5. CASE ~rDry[t]
  <2>1. \A k \in early \cap Stored : k \in DOMAIN rWrites[t]
    BY <1>1, <1>3, <1>5 DEF RotationInv, Passed, Between
  <2>2. \A k \in early \cap Stored : under'[k] = NewKeyOf[t]
    BY <1>1, <2>1 DEF RotationInv, RotationTypes, Writes, Seen
  <2>3. RowsShareAKey'
    BY <1>1, <1>2, <2>2 DEF RowsShareAKey
  <2>4. RotationTypes'
    BY <1>1 DEF RotationInv, RotationTypes, Writes, Seen, MasterKeys
  <2>5. QED
    BY <1>1, <1>2, <2>3, <2>4
    DEF RotationInv, RotationTypes, Passed, Writes, Between, Begun
<1>6. QED
  BY <1>4, <1>5 DEF RotationInv, RotationTypes

\* A full page: the rows up to its last one are in hand.
LEMMA PageStep ==
  ASSUME RotationInv, NEW t \in Rotations, ReadPage(t), After(rLast[t]) # {}
  PROVE  RotationInv'
<1>1. PICK last \in PageAfter(rLast[t]) : rLast' = [rLast EXCEPT ![t] = last]
  BY DEF ReadPage
<1>2. /\ rStep[t] = "page" /\ rStep' = [rStep EXCEPT ![t] = "row"]
      /\ rPage' = [rPage EXCEPT ![t] = [k \in PageAfter(rLast[t]) |-> Seen(t, k)]]
      /\ UNCHANGED <<under, rWrites, masterKey, rDry, newest, early>>
  BY DEF ReadPage
<1>3. rLast[t] \in Nat /\ last \in Nat
  BY <1>1, RotationAssumption DEF PageAfter, After, Stored, RotationInv, RotationTypes
<1>4. \A k \in Stored : rLast[t] < k /\ k <= last => k \in PageAfter(rLast[t])
  <2> SUFFICES ASSUME NEW k \in Stored, rLast[t] < k, k <= last
               PROVE  k \in PageAfter(rLast[t])
    OBVIOUS
  <2>1. k \in After(rLast[t])
    BY DEF After
  <2>2. QED
    BY <1>1, <1>3, <2>1, PageIsPrefix
<1>5. Passed(t)'
  BY <1>1, <1>2, <1>3, <1>4, RotationAssumption
  DEF RotationInv, RotationTypes, Passed, Between, Stored
<1>6. QED
  BY <1>1, <1>2, <1>3, <1>5
  DEF RotationInv, RotationTypes, Passed, Writes, Between, UnderOldKey, RowsShareAKey,
      Stored, Begun

\* The other steps of a rotation touch no row.
LEMMA RotationSteps ==
  ASSUME RotationInv, NEW t \in Rotations, Rotating(t) \/ Rekey(t)
  PROVE  RotationInv'
<1>1. CASE \E dry \in BOOLEAN : RotationBegin(t, dry)
  BY <1>1, RotationAssumption
  DEF RotationBegin, RotationInv, RotationTypes, Passed, Writes, Between, UnderOldKey,
      RowsShareAKey, Stored, Begun
<1>2. CASE ReadPage(t)
  BY <1>2, CommitStep, PageStep
<1>3. CASE \E k \in ApiKeys : RotateRow(t, k)
  BY <1>3
  DEF RotateRow, InHand, RowDone, RotationInv, RotationTypes, Passed, Writes, Between,
      UnderOldKey, RowsShareAKey, Stored, Begun
<1>4. CASE RotationFails(t) \/ \E k \in ApiKeys : Unreadable(t, k)
  <2>1. rStep[t] \in {"page", "row"} /\ Abort(t)
    BY <1>4 DEF RotationFails, Unreadable, InHand
  <2>2. Stored' = Stored /\ Begun'
    BY <2>1 DEF Abort, Stored, Begun, RotationInv, RotationTypes
  <2>3. \A s \in Rotations : Passed(s)' /\ Writes(s)' /\ Between(s)'
    BY <2>1, <2>2 DEF Abort, RotationInv, RotationTypes, Passed, Writes, Between
  <2>4. QED
    BY <2>1, <2>2, <2>3 DEF Abort, RotationInv, RotationTypes, RowsShareAKey
<1>5. CASE Rekey(t)
  BY <1>5
  DEF Rekey, RotationInv, RotationTypes, Passed, Writes, Between, UnderOldKey,
      RowsShareAKey, Stored, Begun, MasterKeys
<1>6. QED
  BY <1>1, <1>2, <1>3, <1>4, <1>5 DEF Rotating

\* However rotations, failures, and rows added and deleted interleave, the keys
\* stored before the first rotation are readable with one master key.
THEOREM RowsAlwaysShareAKey == UpkeepSpec => []RowsShareAKey
<1>1. UpkeepInit => RotationInv
  BY RotationStarts DEF UpkeepInit
<1>2. RotationInv /\ [UpkeepNext]_upkeepVars => RotationInv'
  <2> SUFFICES ASSUME RotationInv, [UpkeepNext]_upkeepVars
               PROVE  RotationInv'
    OBVIOUS
  <2>1. CASE UNCHANGED rotationVars
    BY <2>1
    DEF rotationVars, RotationInv, RotationTypes, Passed, Writes, Between, UnderOldKey,
        RowsShareAKey, Stored, Begun
  <2>2. CASE \E t \in Rotations : Rotating(t) \/ Rekey(t)
    BY <2>2, RotationSteps
  <2>3. CASE \E k \in ApiKeys : CreateApiKey(k) \/ DeleteApiKey(k)
    BY <2>3, RowSteps
  <2>4. QED
    BY <2>1, <2>2, <2>3
    DEF UpkeepNext, Start, StartFails, StopProcess, RefreshStep, upkeepVars
<1>3. RotationInv => RowsShareAKey
  BY DEF RotationInv
<1>4. QED
  BY <1>1, <1>2, <1>3, PTL DEF UpkeepSpec

-----------------------------------------------------------------------------
(* The catalog refreshes *)

\* The page has listed model m as row r, in a version up to the present one.
Published(m, r) ==
  \E v \in 1..page["claude"] :
    /\ m \in DOMAIN ParseAnthropic(ClaudePages[v])
    /\ r = ParseAnthropic(ClaudePages[v])[m]

\* What a refresh holds of the Anthropic source was on the page, and so were
\* the rows: a version may be old by the time it is written.
CatalogInv ==
  /\ page \in [{"claude", "openai"} -> Nat \ {0}]
  /\ tSource \in [Tasks -> 1..2]
  /\ DOMAIN tEntries = Tasks
  /\ \A t \in Tasks : tSource[t] = 1 =>
       \A m \in DOMAIN tEntries[t] : Published(m, tEntries[t][m])
  /\ \A row \in DOMAIN catalog : row[1] = "claude" => Published(row[2], catalog[row])

LEMMA CatalogStarts == CatalogInit => CatalogInv
BY DEF CatalogInit, CatalogInv, Published

\* A page only grows in versions.
LEMMA StaysPublished ==
  ASSUME CatalogInv, page'["claude"] \in Nat, page["claude"] <= page'["claude"],
         NEW m, NEW r, Published(m, r)
  PROVE  Published(m, r)'
<1>1. PICK v \in 1..page["claude"] : /\ m \in DOMAIN ParseAnthropic(ClaudePages[v])
                                    /\ r = ParseAnthropic(ClaudePages[v])[m]
  BY DEF Published
<1>2. v \in 1..page'["claude"]
  BY <1>1 DEF CatalogInv
<1>3. QED
  BY <1>1, <1>2 DEF Published

\* The next source, or the end of the refresh: nothing is held.
LEMMA NextSourceHoldsNothing ==
  ASSUME CatalogInv, NEW t \in Tasks, NextSource(t)
  PROVE  /\ tSource' \in [Tasks -> 1..2]
         /\ tEntries' = [tEntries EXCEPT ![t] = <<>>]
         /\ \A u \in Tasks \ {t} : tSource'[u] = tSource[u]
BY DEF NextSource, Refreshed, CatalogInv, Sources

\* Entries that were published, if they are of the Anthropic source, are taken.
LEMMA TakeKeeps ==
  ASSUME CatalogInv, NEW t \in Tasks, NEW entries, Take(t, entries),
         tSource[t] = 1 => \A m \in DOMAIN entries : Published(m, entries[m]),
         UNCHANGED <<page, catalog>>
  PROVE  CatalogInv'
<1>1. \A m, r : Published(m, r)' <=> Published(m, r)
  BY DEF Published
<1>2. CASE DOMAIN entries = {}
  <2>1. NextSource(t)
    BY <1>2 DEF Take
  <2>2. QED
    BY <1>1, <2>1, NextSourceHoldsNothing DEF CatalogInv
<1>3. CASE DOMAIN entries # {}
  <2>1. tEntries' = [tEntries EXCEPT ![t] = entries] /\ UNCHANGED tSource
    BY <1>3 DEF Take
  <2>2. QED
    BY <1>1, <2>1 DEF CatalogInv
<1>4. QED
  BY <1>2, <1>3

\* What the page says now is published; a page that fails gives nothing.
LEMMA FetchedIsPublished ==
  ASSUME CatalogInv
  PROVE  /\ \A m \in DOMAIN Parsed("claude", page["claude"]) :
              Published(m, Parsed("claude", page["claude"])[m])
         /\ DOMAIN WithoutPage("claude") = {}
<1>1. DOMAIN WithoutPage("claude") = {}
  BY DEF WithoutPage
<1>2. Pages["claude"] = ClaudePages
  BY DEF Pages
<1>3. page["claude"] \in 1..page["claude"]
  BY DEF CatalogInv
<1>4. QED
  BY <1>1, <1>2, <1>3 DEF Parsed, Published

LEMMA UpsertKeeps ==
  ASSUME CatalogInv, NEW t \in Tasks, NEW m \in DOMAIN tEntries[t], Upsert(t, m)
  PROVE  CatalogInv'
<1> DEFINE written == <<Sources[tSource[t]], m>>
<1>1. /\ catalog' = [k \in DOMAIN catalog \cup {written} |->
                       IF k = written THEN tEntries[t][m] ELSE catalog[k]]
      /\ UNCHANGED page
  BY DEF Upsert
<1>2. \A n, r : Published(n, r)' <=> Published(n, r)
  BY <1>1 DEF Published
<1>3. written[1] = "claude" => tSource[t] = 1
  BY DEF Sources, CatalogInv
<1>4. written[1] = "claude" => Published(written[2], tEntries[t][m])
  BY <1>3 DEF CatalogInv
<1>5. (\A row \in DOMAIN catalog : row[1] = "claude" => Published(row[2], catalog[row]))'
  <2> SUFFICES ASSUME NEW row \in DOMAIN catalog', row[1] = "claude"
               PROVE  Published(row[2], catalog'[row])
    BY <1>1 DEF Published
  <2>1. row \in DOMAIN catalog \cup {written}
    BY <1>1
  <2>2. CASE row = written
    <3>1. catalog'[row] = tEntries[t][m]
      BY <1>1, <2>2
    <3>2. QED
      BY <1>4, <2>2, <3>1
  <2>3. CASE row # written
    <3>1. row \in DOMAIN catalog /\ catalog'[row] = catalog[row]
      BY <1>1, <2>1, <2>3
    <3>2. QED
      BY <3>1 DEF CatalogInv
  <2>4. QED
    BY <2>2, <2>3
<1>6. CASE DOMAIN tEntries[t] \ {m} = {}
  <2>1. NextSource(t)
    BY <1>6 DEF Upsert
  <2>2. /\ tSource' \in [Tasks -> 1..2]
        /\ tEntries' = [tEntries EXCEPT ![t] = <<>>]
        /\ \A u \in Tasks \ {t} : tSource'[u] = tSource[u]
    BY <2>1, NextSourceHoldsNothing
  <2>3. (\A u \in Tasks : tSource[u] = 1 =>
          \A n \in DOMAIN tEntries[u] : Published(n, tEntries[u][n]))'
    BY <1>2, <2>2 DEF CatalogInv
  <2>4. QED
    BY <1>1, <1>5, <2>2, <2>3 DEF CatalogInv
<1>7. CASE DOMAIN tEntries[t] \ {m} # {}
  <2>1. /\ tEntries' = [tEntries EXCEPT ![t] = [n \in DOMAIN tEntries[t] \ {m} |-> tEntries[t][n]]]
        /\ UNCHANGED tSource
    BY <1>7 DEF Upsert, CatalogInv
  <2>2. QED
    BY <1>1, <1>2, <1>5, <2>1 DEF CatalogInv
<1>8. QED
  BY <1>6, <1>7

LEMMA RefreshKeeps ==
  ASSUME CatalogInv, NEW t \in Tasks, Refreshing(t)
  PROVE  CatalogInv'
<1>1. CASE Wake(t)
  BY <1>1 DEF Wake, CatalogInv, Published
<1>2. CASE Fetch(t)
  <2>1. tSource[t] = 1 => Sources[tSource[t]] = "claude"
    BY DEF Sources
  <2>2. QED
    BY <1>2, <2>1, TakeKeeps, FetchedIsPublished DEF Fetch
<1>3. CASE FetchFails(t)
  <2>1. tSource[t] = 1 => Sources[tSource[t]] = "claude"
    BY DEF Sources
  <2>2. QED
    BY <1>3, <2>1, TakeKeeps, FetchedIsPublished DEF FetchFails
<1>4. CASE Writing(t)
  BY <1>4, UpsertKeeps DEF Writing
<1>5. CASE UpsertFails(t)
  <2>1. NextSource(t) /\ UNCHANGED <<page, catalog>>
    BY <1>5 DEF UpsertFails
  <2>2. QED
    BY <2>1, NextSourceHoldsNothing DEF CatalogInv, Published
<1>6. QED
  BY <1>1, <1>2, <1>3, <1>4, <1>5 DEF Refreshing

\* For any pages, tables and numbers of failures, and however the refreshes of
\* the start, the timer and the administrator overlap: a row of an Anthropic
\* model is what its page said in some version up to the present one.
THEOREM ClaudeRowsAlwaysPublished == UpkeepSpec => []ClaudeRowsWerePublished
<1>1. UpkeepInit => CatalogInv
  BY CatalogStarts DEF UpkeepInit
<1>2. CatalogInv /\ [UpkeepNext]_upkeepVars => CatalogInv'
  <2> SUFFICES ASSUME CatalogInv, [UpkeepNext]_upkeepVars
               PROVE  CatalogInv'
    OBVIOUS
  <2>1. CASE UNCHANGED catalogVars
    BY <2>1 DEF catalogVars, CatalogInv, Published
  <2>2. CASE \E t \in Tasks : Refreshing(t)
    BY <2>2, RefreshKeeps
  <2>3. CASE StartCatalogRefresh
    BY <2>3 DEF StartCatalogRefresh, CatalogInv, Published
  <2>4. CASE StopCatalogRefresh
    BY <2>4 DEF StopCatalogRefresh, CatalogInv, Published
  <2>5. ASSUME NEW s \in {"claude", "openai"}, PageChanges(s)
        PROVE  CatalogInv'
    <3>1. /\ page' = [page EXCEPT ![s] = page[s] + 1]
          /\ UNCHANGED <<catalog, tSource, tEntries>>
      BY <2>5 DEF PageChanges
    <3>2. /\ page' \in [{"claude", "openai"} -> Nat \ {0}]
          /\ page["claude"] <= page'["claude"]
      BY <3>1 DEF CatalogInv
    <3>3. \A m, r : Published(m, r) => Published(m, r)'
      BY <3>2, StaysPublished
    <3>4. QED
      BY <3>1, <3>2, <3>3 DEF CatalogInv
  <2>6. QED
    BY <2>1, <2>2, <2>3, <2>4, <2>5
    DEF UpkeepNext, Start, StartFails, StopProcess, RefreshStep, upkeepVars
<1>3. CatalogInv => ClaudeRowsWerePublished
  BY DEF CatalogInv, Published, ClaudeRowsWerePublished
<1>4. QED
  BY <1>1, <1>2, <1>3, PTL DEF UpkeepSpec
=============================================================================
