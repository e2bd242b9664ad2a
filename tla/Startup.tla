------------------------------- MODULE Startup -------------------------------
(***************************************************************************)
(* store/migrate.ts and its two callers: the worker's main() and the web   *)
(* process's getEngine(), which keeps the promise of its first call.  The  *)
(* processes start side by side on one database, and a migration is one    *)
(* transaction under an advisory lock.                                     *)
(*                                                                         *)
(* The files are 1, 2, ... in the order of their names; a release ships    *)
(* the first ones, so processes of two releases differ in how many.        *)
(***************************************************************************)
EXTENDS Naturals, FiniteSets

CONSTANTS
  Processes,        \* the processes that migrate at their start
  Webs,             \* those that keep the promise of a failed start
  Shipped,          \* how many migration files a process ships
  MaxTrouble,       \* bound on failed statements
  MaxRestarts       \* bound on restarts

NoHolder == "nobody"

ASSUME StartupAssumption ==
  /\ NoHolder \notin Processes
  /\ Webs \subseteq Processes
  /\ Shipped \in [Processes -> Nat]
  /\ MaxTrouble \in Nat
  /\ MaxRestarts \in Nat

VARIABLES
  table,            \* schema_migrations exists
  applied,          \* the names it holds
  ran,              \* history: how often a file's statements were committed
  lock,             \* who holds the advisory lock
  step,             \* where a process is in its start; "down" before it
  pending,          \* the files its transaction has still to run
  trouble, restarts

startupVars == <<table, applied, ran, lock, step, pending, trouble, restarts>>

Files(p) == 1..Shipped[p]
AllFiles == UNION {Files(p) : p \in Processes}

StartupInit ==
  /\ table = FALSE
  /\ applied = {}
  /\ ran = [f \in AllFiles |-> 0]
  /\ lock = NoHolder
  /\ step = [p \in Processes |-> "down"]
  /\ pending = [p \in Processes |-> {}]
  /\ trouble = 0
  /\ restarts = 0

Goto(p, s) == step' = [step EXCEPT ![p] = s]

\* main(), or the first getEngine(): a later call gets the promise of the first.
Boot(p) ==
  /\ step[p] = "down"
  /\ Goto(p, "create")
  /\ UNCHANGED <<table, applied, ran, lock, pending, trouble, restarts>>

\* CREATE TABLE IF NOT EXISTS schema_migrations
CreateTable(p) ==
  /\ step[p] = "create"
  /\ table' = TRUE
  /\ Goto(p, "lock")
  /\ UNCHANGED <<applied, ran, lock, pending, trouble, restarts>>

TakeLock_Unlocked(p) ==    \* mutant: the transaction takes no lock
  /\ step[p] = "lock"
  /\ Goto(p, "read")
  /\ UNCHANGED <<table, applied, ran, lock, pending, trouble, restarts>>

\* BEGIN; pg_advisory_xact_lock, which waits for the transaction that holds it
TakeLock(p) ==
  /\ step[p] = "lock"
  /\ lock = NoHolder
  /\ lock' = p
  /\ Goto(p, "read")
  /\ UNCHANGED <<table, applied, ran, pending, trouble, restarts>>

\* The end of a transaction releases its lock.
Release(p) == lock' = IF lock = p THEN NoHolder ELSE lock

\* The applied names are read under the lock; nothing pending ends the
\* transaction and the start.
ReadApplied(p) ==
  /\ step[p] = "read"
  /\ pending' = [pending EXCEPT ![p] = Files(p) \ applied]
  /\ IF Files(p) \subseteq applied
       THEN Goto(p, "ready") /\ Release(p)
       ELSE Goto(p, "apply") /\ UNCHANGED lock
  /\ UNCHANGED <<table, applied, ran, trouble, restarts>>

\* The statements of the pending files and their names become visible together.
Commit(p) ==
  /\ step[p] = "apply"
  /\ ran' = [f \in AllFiles |-> IF f \in pending[p] THEN ran[f] + 1 ELSE ran[f]]
  /\ applied' = applied \cup pending[p]
  /\ pending' = [pending EXCEPT ![p] = {}]
  /\ Release(p)
  /\ Goto(p, "ready")
  /\ UNCHANGED <<table, trouble, restarts>>

\* A statement fails: the transaction is rolled back.  The worker exits and is
\* started again; the web process keeps the rejected promise.  Two processes
\* that both find no table can fail each other in CREATE TABLE.
BootFails(p) ==
  /\ step[p] \in {"create", "lock", "read", "apply"}
  /\ \/ trouble < MaxTrouble /\ trouble' = trouble + 1
     \/ /\ step[p] = "create" /\ table
        /\ \E q \in Processes \ {p} : step[q] = "lock"
        /\ UNCHANGED trouble
  /\ Goto(p, IF p \in Webs THEN "failed" ELSE "down")
  /\ pending' = [pending EXCEPT ![p] = {}]
  /\ Release(p)
  /\ UNCHANGED <<table, applied, ran, restarts>>

\* A process dies or is deployed anew, at any point.
Restart(p) ==
  /\ restarts < MaxRestarts
  /\ restarts' = restarts + 1
  /\ Goto(p, "down")
  /\ pending' = [pending EXCEPT ![p] = {}]
  /\ Release(p)
  /\ UNCHANGED <<table, applied, ran, trouble>>

Starting(p) == Boot(p) \/ CreateTable(p) \/ TakeLock(p) \/ ReadApplied(p) \/ Commit(p)

-----------------------------------------------------------------------------
(* Properties *)

\* migrate.ts:50-51: however starts, failures and restarts of two releases
\* interleave, every file runs once, after the files before it, and a process
\* that is ready finds the schema its release was written for.
MigratedOnce ==
  /\ \A f \in AllFiles : ran[f] = IF f \in applied THEN 1 ELSE 0
  /\ \A f \in applied : 1..f \subseteq applied
  /\ \A p \in Processes : step[p] = "ready" => Files(p) \subseteq applied
=============================================================================
