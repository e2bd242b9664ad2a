--------------------------- MODULE CatalogRefresh ---------------------------
(***************************************************************************)
(* lib/server/catalog.ts: the refreshes that copy the providers' published *)
(* models into provider_catalog, row by row.  The one at the start, the    *)
(* hourly one and those of the admin endpoint may overlap; a page changes, *)
(* cannot be fetched or parses to nothing, and an upsert may fail.         *)
(*                                                                         *)
(* A provider publishes the versions of its page in order; a version is    *)
(* the sequence of its lines.  A row keeps its lifecycle state and its two *)
(* rates, as one number; labels, dates and replacements are left out.      *)
(***************************************************************************)
EXTENDS Naturals, Sequences, FiniteSetsExt

CONSTANTS
  ClaudePages,      \* versions of the page: sequences of [model, state, price]
  OpenAIPages,      \* the same, a version that only runs in a browser is <<>>
  ModelIds,         \* what has the form of a model's id
  KnownPrice,       \* ANTHROPIC_PRICING and OPENAI_PRICING: models to rates
  Seed,             \* the curated OpenAI rows: models to [state, price]
  MaxUpstream       \* bound on failed fetches and upserts

ASSUME CatalogAssumption ==
  /\ Len(ClaudePages) > 0 /\ Len(OpenAIPages) > 0
  /\ MaxUpstream \in Nat

VARIABLES
  page,             \* the version each provider publishes
  catalog,          \* provider_catalog: its rows, by <<provider, model>>
  tStep,            \* a refresh: "off", "asleep", "fetch", "write"
  tSource,          \* the source it is at
  tEntries,         \* the parsed entries it has still to upsert
  upstream          \* failures so far

catalogVars == <<page, catalog, tStep, tSource, tEntries, upstream>>

\* startCatalogRefresh's immediate run, its timer, and POST /refresh-catalog
Tasks == {"startup", "timer", "admin"}
Sources == <<"claude", "openai">>
Pages == [claude |-> ClaudePages, openai |-> OpenAIPages]

Unpriced == 0    \* null: published rates are above zero

CatalogInit ==
  /\ page = [s \in {"claude", "openai"} |-> 1]
  /\ catalog = <<>>
  /\ tStep = [t \in Tasks |-> "off"]
  /\ tSource = [t \in Tasks |-> 1]
  /\ tEntries = [t \in Tasks |-> <<>>]
  /\ upstream = 0

-----------------------------------------------------------------------------
(* Parsing *)

\* normaliseState: an unknown word counts as active; OpenAI has more words
NormaliseState(source, word) ==
  CASE word \in {"active", "legacy", "deprecated", "retired"}   -> word
    [] source = "openai" /\ word \in {"shutdown", "sunset"}     -> "retired"
    [] OTHER                                                    -> "active"

TablePrice(model) == IF model \in DOMAIN KnownPrice THEN KnownPrice[model] ELSE Unpriced

\* rowToEntry: a price on Anthropic's page is not read
RowToEntry(line) ==
  [state |-> NormaliseState("claude", line.state), price |-> TablePrice(line.model)]

\* rawToEntry: a price on OpenAI's page goes before the table's
RawToEntry(line) ==
  [state |-> NormaliseState("openai", line.state),
   price |-> IF line.price # Unpriced THEN line.price ELSE TablePrice(line.model)]

\* byModel: the last line of a model wins
LastLine(lines, m) == lines[Max({i \in DOMAIN lines : lines[i].model = m})]
ModelsOf(lines)    == {lines[i].model : i \in DOMAIN lines}

\* parseAnthropicDeprecationPage: headings and totals are no models
ParseAnthropic(lines) ==
  [m \in ModelsOf(lines) \cap ModelIds |-> RowToEntry(LastLine(lines, m))]

\* parseOpenAIDeprecationPage
ParseOpenAI(lines) == [m \in ModelsOf(lines) |-> RawToEntry(LastLine(lines, m))]

WithoutPage_Unpriced(source) ==    \* mutant: the known models with nothing else
  IF source = "openai" THEN Seed
  ELSE [m \in DOMAIN KnownPrice \ DOMAIN Seed |-> [state |-> "active", price |-> Unpriced]]

\* What an unreachable or unreadable page gives: for OpenAI the curated rows.
WithoutPage(source) == IF source = "openai" THEN Seed ELSE <<>>

\* fetchAnthropicCatalog and fetchOpenAICatalog
Parsed(source, version) ==
  LET lines  == Pages[source][version]
      parsed == IF source = "claude" THEN ParseAnthropic(lines) ELSE ParseOpenAI(lines)
  IN IF DOMAIN parsed = {} THEN WithoutPage(source) ELSE parsed

-----------------------------------------------------------------------------
(* The refreshes *)

\* startCatalogRefresh, once per process
StartCatalogRefresh ==
  /\ tStep' = [tStep EXCEPT !["startup"] = "fetch", !["timer"] = "asleep"]
  /\ UNCHANGED <<page, catalog, tSource, tEntries, upstream>>

StopCatalogRefresh ==
  /\ tStep' = [t \in Tasks |-> "off"]
  /\ tSource' = [t \in Tasks |-> 1]
  /\ tEntries' = [t \in Tasks |-> <<>>]
  /\ UNCHANGED <<page, catalog, upstream>>

PageChanges(source) ==
  /\ page[source] < Len(Pages[source])
  /\ page' = [page EXCEPT ![source] = @ + 1]
  /\ UNCHANGED <<catalog, tStep, tSource, tEntries, upstream>>

\* The timer fires, or the endpoint is called.
Wake(t) ==
  /\ \/ t = "timer" /\ tStep[t] = "asleep"
     \/ t = "admin" /\ tStep[t] = "off"
  /\ tStep' = [tStep EXCEPT ![t] = "fetch"]
  /\ UNCHANGED <<page, catalog, tSource, tEntries, upstream>>

Refreshed_Forgotten(t) ==    \* mutant: the timer is not set again
  /\ tStep' = [tStep EXCEPT ![t] = "off"]
  /\ tSource' = [tSource EXCEPT ![t] = 1]
  /\ tEntries' = [tEntries EXCEPT ![t] = <<>>]

\* All sources are done; the `finally` of the timer schedules the next run.
Refreshed(t) ==
  /\ tStep' = [tStep EXCEPT ![t] = IF t = "timer" THEN "asleep" ELSE "off"]
  /\ tSource' = [tSource EXCEPT ![t] = 1]
  /\ tEntries' = [tEntries EXCEPT ![t] = <<>>]

\* On to the next source: also after an empty parse and an error.
NextSource(t) ==
  IF tSource[t] = Len(Sources)
    THEN Refreshed(t)
    ELSE /\ tSource' = [tSource EXCEPT ![t] = @ + 1]
         /\ tStep' = [tStep EXCEPT ![t] = "fetch"]
         /\ tEntries' = [tEntries EXCEPT ![t] = <<>>]

Take(t, entries) ==
  IF DOMAIN entries = {}
    THEN NextSource(t)
    ELSE /\ tEntries' = [tEntries EXCEPT ![t] = entries]
         /\ tStep' = [tStep EXCEPT ![t] = "write"]
         /\ UNCHANGED tSource

\* The page is fetched and parsed.
Fetch(t) ==
  LET source == Sources[tSource[t]] IN
  /\ tStep[t] = "fetch"
  /\ Take(t, Parsed(source, page[source]))
  /\ UNCHANGED <<page, catalog, upstream>>

Upstream == upstream < MaxUpstream /\ upstream' = upstream + 1

FetchFails(t) ==
  /\ tStep[t] = "fetch"
  /\ Upstream
  /\ Take(t, WithoutPage(Sources[tSource[t]]))
  /\ UNCHANGED <<page, catalog>>

\* upsertProviderCatalogEntry: every column of the row is overwritten
Upsert(t, m) ==
  LET rest == DOMAIN tEntries[t] \ {m}
      row  == <<Sources[tSource[t]], m>>
  IN
  /\ tStep[t] = "write" /\ m \in DOMAIN tEntries[t]
  /\ catalog' = [k \in DOMAIN catalog \cup {row} |->
                   IF k = row THEN tEntries[t][m] ELSE catalog[k]]
  /\ IF rest = {} THEN NextSource(t)
     ELSE /\ tEntries' = [tEntries EXCEPT ![t] = [n \in rest |-> @[n]]]
          /\ UNCHANGED <<tStep, tSource>>
  /\ UNCHANGED <<page, upstream>>

\* The catch of a source: its other rows are not written.
UpsertFails(t) ==
  /\ tStep[t] = "write"
  /\ Upstream
  /\ NextSource(t)
  /\ UNCHANGED <<page, catalog>>

Writing(t) == \E m \in DOMAIN tEntries[t] : Upsert(t, m)

Refreshing(t) == Wake(t) \/ Fetch(t) \/ FetchFails(t) \/ Writing(t) \/ UpsertFails(t)

-----------------------------------------------------------------------------
(* Properties *)

\* catalog.ts:17-19: through failed fetches, failed upserts and overlapping
\* refreshes, a row of an Anthropic model is always what the page once said.
\* The OpenAI source keeps no such promise: a failed fetch writes the seed.
ClaudeRowsWerePublished ==
  \A row \in DOMAIN catalog : row[1] = "claude" =>
    \E v \in 1..page["claude"] :
      LET published == ParseAnthropic(ClaudePages[v]) IN
      row[2] \in DOMAIN published /\ catalog[row] = published[row[2]]
=============================================================================
