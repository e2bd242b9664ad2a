------------------------------ MODULE MCUpkeep ------------------------------
(***************************************************************************)
(* An instance of Upkeep for TLC.                                          *)
(***************************************************************************)
EXTENDS Upkeep

\* A rolling release: the worker is a file ahead of the web process.
TwoProcesses == {"web", "worker"}
Releases == [p \in TwoProcesses |-> IF p = "web" THEN 1 ELSE 2]

\* Anthropic's page has a total and, later, a model on two lines; its second
\* version retires that model and lists the other no more.  OpenAI's page is
\* a shell at first, then lists a model twice, with a price no table knows.
Line(model, state, price) == [model |-> model, state |-> state, price |-> price]
ClaudeVersions ==
  << <<Line("sonnet", "active", 0), Line("haiku", "beta", 9), Line("Total: 2", "-", 0)>>,
     <<Line("sonnet", "deprecated", 0), Line("sonnet", "retired", 0)>> >>
OpenAIVersions ==
  << <<>>, <<Line("mini", "active", 0), Line("mini", "shutdown", 7)>> >>
ModelNames == {"sonnet", "haiku", "mini"}
Prices  == [sonnet |-> 3, haiku |-> 1]
Curated == [mini |-> [state |-> "legacy", price |-> 0]]

NewKeys == [t \in Rotations |-> IF t = "first" THEN "new" ELSE "newer"]

\* The three parts meet only when the web process starts and stops, so a
\* behaviour looks at one of them: the starts, until the first page is fetched;
\* then the refreshes, beside a worker that is up; or the rotations, while the
\* web process only serves the pages for API keys.
NoFetch ==
  /\ catalog = <<>> /\ page["claude"] = 1 /\ page["openai"] = 1
  /\ \A t \in Tasks : tStep[t] \in {"off", "asleep", "fetch"} /\ tSource[t] = 1
NoRotation == newest = 0 /\ ~Begun
AllDown == \A p \in Processes : step[p] = "down"

Allowed ==
  \/ NoRotation' /\ (NoFetch' \/ \A p \in Processes \ Webs : step'[p] = "ready")
  \/ AllDown' /\ NoFetch'

\* UpkeepSpec for the steps that are allowed.
MCSpec ==
  /\ UpkeepInit /\ [][UpkeepNext /\ Allowed]_upkeepVars
  /\ \A p \in Processes : WF_upkeepVars(Start(p) /\ Allowed)
  /\ WF_upkeepVars(RefreshStep("timer") /\ Allowed)
  /\ \A t \in {"startup", "admin"} :
       WF_upkeepVars(tStep[t] # "off" /\ RefreshStep(t) /\ Allowed)
=============================================================================
