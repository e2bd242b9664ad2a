-------------------------------- MODULE Upkeep --------------------------------
(***************************************************************************)
(* What surrounds the engine in a deployment: the starts of the processes, *)
(* the catalog refreshes the web process begins when its engine is ready   *)
(* (lib/server/norush.ts), and the rotation of the master key, which the   *)
(* web process learns of when it is restarted.                             *)
(***************************************************************************)
EXTENDS Startup, KeyRotation, CatalogRefresh

upkeepVars == <<startupVars, rotationVars, catalogVars>>

UpkeepInit == StartupInit /\ RotationInit /\ CatalogInit

\* The start of the web process ends with startCatalogRefresh and createNorush.
Start(p) ==
  /\ Starting(p)
  /\ IF p \in Webs /\ step[p] # "ready" /\ step'[p] = "ready"
       THEN StartCatalogRefresh
       ELSE UNCHANGED catalogVars
  /\ UNCHANGED rotationVars

StartFails(p) == BootFails(p) /\ UNCHANGED <<rotationVars, catalogVars>>

\* With the web process go its promise, its refreshes and its derived key.
StopProcess(p) ==
  /\ Restart(p)
  /\ IF p \in Webs
       THEN StopCatalogRefresh /\ (UNCHANGED rotationVars \/ \E t \in Rotations : Rekey(t))
       ELSE UNCHANGED <<catalogVars, rotationVars>>

RefreshStep(t) == Refreshing(t) /\ UNCHANGED <<startupVars, rotationVars>>

\* The admin endpoint awaits getEngine; the pages for API keys do not.
Serving == \E w \in Webs : step[w] = "ready"

UpkeepNext ==
  \/ \E p \in Processes : Start(p) \/ StartFails(p) \/ StopProcess(p)
  \/ \E t \in Tasks : (t = "admin" => Serving) /\ RefreshStep(t)
  \/ \E s \in {"claude", "openai"} : PageChanges(s) /\ UNCHANGED <<startupVars, rotationVars>>
  \/ /\ \/ \E k \in ApiKeys : CreateApiKey(k) \/ DeleteApiKey(k)
        \/ \E t \in Rotations : Rotating(t)
     /\ UNCHANGED <<startupVars, catalogVars>>

\* Statements and fetches return, the platform starts what is down, and the
\* timer fires.
UpkeepSpec ==
  /\ UpkeepInit /\ [][UpkeepNext]_upkeepVars
  /\ \A p \in Processes : WF_upkeepVars(Start(p))
  /\ WF_upkeepVars(RefreshStep("timer"))
  /\ \A t \in {"startup", "admin"} :
       WF_upkeepVars(tStep[t] # "off" /\ RefreshStep(t))

-----------------------------------------------------------------------------
(* Liveness *)

Shown(s) ==
  LET now == Parsed(s, page[s]) IN
  \A m \in DOMAIN now : <<s, m>> \in DOMAIN catalog /\ catalog[<<s, m>>] = now[m]

\* While the web process stays up, the pages stop changing, and fetches and
\* upserts stop failing, every row that a page lists ends up as the page says:
\* also when a slow refresh wrote an older version over it, or the seed did.
CatalogCatchesUp ==
  <>[](\A w \in Webs : step[w] = "ready") => <>[](Shown("claude") /\ Shown("openai"))
=============================================================================
