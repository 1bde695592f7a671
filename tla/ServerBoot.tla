----------------------------- MODULE ServerBoot -----------------------------
(***************************************************************************)
(* The start of the process (server.py, _main_async, and load_or_create):  *)
(* a fresh database gets a seed and a founding scenario from the genesis   *)
(* call, a first snapshot, the genesis event, its world_meta row and the   *)
(* founding event, each committed on its own.  The process may be killed   *)
(* between any two of them, and is then started again.                     *)
(***************************************************************************)
EXTENDS Integers, FiniteSets

CONSTANTS
  Scenarios,   \* what genesis calls may return
  NoScenario,  \* --seed was given: there is no genesis call
  MaxBoots     \* bound: starts of the process

NoWorld == "no world"
Told == Scenarios \cup {NoScenario}

ASSUME BootAssumption ==
  /\ IsFiniteSet(Scenarios) /\ NoScenario \notin Scenarios
  /\ NoWorld \notin Told
  /\ MaxBoots \in Nat

VARIABLES
  snapshot,  \* committed: the scenario of the saved world, or NoWorld
  meta,      \* committed: the world_meta row exists
  log,       \* committed: "genesis" and the scenarios of founding events
  pc,        \* "off", "resolve", "load", "genesis", "meta", "founding", "run"
  fresh,     \* is_fresh(conn) when the process started
  scenario,  \* what this process's genesis call returned
  world,     \* the scenario of the world in memory
  buffer,    \* founding events logged and not committed
  boots

durable == <<snapshot, meta, log>>
bootVars == <<durable, pc, fresh, scenario, world, buffer, boots>>

BootInit ==
  /\ snapshot = NoWorld /\ meta = FALSE /\ log = {}
  /\ pc = "off" /\ fresh = FALSE
  /\ scenario = NoScenario /\ world = NoWorld /\ buffer = {}
  /\ boots = 0

\* Freshness is read once, from world_meta.
Boot ==
  /\ pc = "off" /\ boots < MaxBoots
  /\ boots' = boots + 1
  /\ fresh' = ~meta
  /\ pc' = IF meta THEN "load" ELSE "resolve"
  /\ scenario' = NoScenario
  /\ UNCHANGED <<durable, world, buffer>>

\* _resolve_genesis_seed, unless a seed was asked for.
Resolve(s) ==
  /\ pc = "resolve"
  /\ pc' = "load"
  /\ scenario' = s
  /\ UNCHANGED <<durable, fresh, world, buffer, boots>>

\* Mutant: freshness decides whether a world is created.
LoadOrCreateFresh ==
  /\ pc = "load"
  /\ \/ /\ fresh
        /\ world' = scenario /\ snapshot' = scenario
        /\ pc' = "genesis"
     \/ /\ ~fresh
        /\ world' = snapshot /\ snapshot' = snapshot
        /\ pc' = IF fresh THEN "meta" ELSE "run"
  /\ UNCHANGED <<meta, log, fresh, scenario, buffer, boots>>

\* load_or_create: the latest snapshot, or a new world that is saved.
LoadOrCreate ==
  /\ pc = "load"
  /\ \/ /\ snapshot = NoWorld
        /\ world' = scenario /\ snapshot' = scenario
        /\ pc' = "genesis"
     \/ /\ snapshot # NoWorld
        /\ world' = snapshot /\ snapshot' = snapshot
        /\ pc' = IF fresh THEN "meta" ELSE "run"
  /\ UNCHANGED <<meta, log, fresh, scenario, buffer, boots>>

\* "The world was created.", with a commit of its own.
LogGenesis ==
  /\ pc = "genesis"
  /\ log' = log \cup {"genesis"}
  /\ pc' = IF fresh THEN "meta" ELSE "run"
  /\ UNCHANGED <<snapshot, meta, fresh, scenario, world, buffer, boots>>

WriteMeta ==
  /\ pc = "meta"
  /\ meta' = TRUE
  /\ pc' = IF scenario = NoScenario THEN "run" ELSE "founding"
  /\ UNCHANGED <<snapshot, log, fresh, scenario, world, buffer, boots>>

\* log_founding_scenario: buffered until a tick commits.
LogFounding ==
  /\ pc = "founding"
  /\ buffer' = buffer \cup {scenario}
  /\ pc' = "run"
  /\ UNCHANGED <<durable, fresh, scenario, world, boots>>

\* A tick, or the final save.
Commit ==
  /\ pc = "run" /\ buffer # {}
  /\ log' = log \cup buffer
  /\ buffer' = {}
  /\ UNCHANGED <<snapshot, meta, pc, fresh, scenario, world, boots>>

\* The process is killed, or stops after its final save.
Killed ==
  /\ pc # "off"
  /\ pc' = "off"
  /\ fresh' = FALSE /\ scenario' = NoScenario /\ world' = NoWorld /\ buffer' = {}
  /\ UNCHANGED <<durable, boots>>

BootNext ==
  \/ Boot \/ LoadOrCreate \/ LogGenesis \/ WriteMeta \/ LogFounding \/ Commit
  \/ \E s \in Told : Resolve(s)
  \/ Killed

BootSpec == BootInit /\ [][BootNext]_bootVars

-----------------------------------------------------------------------------
(* Properties *)

\* The types of the start-up's state.
BootTypeOK ==
  /\ snapshot \in Told \cup {NoWorld} /\ meta \in BOOLEAN
  /\ log \subseteq Scenarios \cup {"genesis"}
  /\ pc \in {"off", "resolve", "load", "genesis", "meta", "founding", "run"}
  /\ fresh \in BOOLEAN /\ scenario \in Told
  /\ world \in Told \cup {NoWorld} /\ buffer \subseteq Scenarios
  /\ boots \in 0..MaxBoots

\* A world that was once saved is the world of every later start, however the
\* starts were interrupted.
WorldIsForever == [][snapshot # NoWorld => snapshot' = snapshot]_bootVars

\* A running process has the saved world in memory and never without its
\* world_meta row, which tells later starts not to found it again.
RunningIsSettled == pc = "run" => world = snapshot /\ meta

\* "Called once, right after a brand-new world is created, with the one-time
\* genesis call's scenario": the founding told in the log is this world's.
FoundingIsTrue == log \subseteq {"genesis", world, snapshot}
=============================================================================
