------------------------------ MODULE MCStores ------------------------------
(***************************************************************************)
(* Instances of StoreAgreement for TLC.                                    *)
(***************************************************************************)
EXTENDS StoreAgreement

\* Two requests of two users; three models, two of one provider.
TwoUsers    == [r \in Requests |-> IF r = 1 THEN "ann" ELSE "bob"]
ThreeModels == {<<1, "sonnet">>, <<1, "haiku">>, <<2, "gpt">>}
TwoModels   == [r \in Requests |-> IF r = 1 THEN <<1, "sonnet">> ELSE <<2, "gpt">>]

\* Two keys of one user and provider.
OneOwner == [k \in Keys |-> <<"ann", 1>>]
TwoRanks == [k \in Keys |-> IF k = "main" THEN 1 ELSE 2]

\* Less than half a cent, half a cent, a cent.
SomeAmounts == {1, Cent \div 2, Cent}

SomeEntities == {<<"request", 1>>, <<"result", 1>>}

\* No query or update relates the limits, the catalog and the other tables, so
\* a behaviour may keep to one of the three.
OneSubject(db) ==
  Cardinality({t \in {"content", "limits", "catalog"} :
                 CASE t = "content" -> <<db.requests, db.batches>>
                                         # <<EmptyDb.requests, EmptyDb.batches>>
                   [] OTHER -> db[t] # EmptyDb[t]}) <= 1

\* The keys are of the first subject; the spare key is not kept beside requests.
FewKeys(db, stored) ==
  /\ db.limits # EmptyDb.limits \/ db.catalog # EmptyDb.catalog => stored = {}
  /\ db.requests # EmptyDb.requests => stored \subseteq {"main"}

\* The second request is there to be told from the first: it goes the straight
\* way, before time passes, and its result stays pending.  The second user does
\* not run into the limits.
Bystander(db) ==
  /\ Has(db.requests, 2) =>
       db.requests[2].status \in {"queued", "batched"} /\ db.requests[2].createdAt = 1
  /\ \A id \in ResultIds(db) : id[1] = 2 =>
       ResultRow(db, id).delivery = "pending" /\ ResultRow(db, id).createdAt = 1
  /\ Has(db.limits, "bob") =>
       db.limits["bob"].requests = 0 /\ db.limits["bob"].tokens = 0 /\ db.limits["bob"].spend = 0

\* A scrub of events looks at one entity at a time, so one event is logged, and
\* without the bystander.
OneEvent(db) ==
  LET logged == {e \in Entities : db.events[e] # "none"}
  IN Cardinality(logged) <= 1 /\ (Has(db.requests, 2) => logged = {})

MCSpec ==
  Init /\ [][Next /\ OneSubject(pg') /\ FewKeys(pg', keys') /\ Bystander(pg') /\ OneEvent(pg')]_vars
=============================================================================
