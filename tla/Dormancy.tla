------------------------------ MODULE Dormancy ------------------------------
(***************************************************************************)
(* Wild herds that nobody sees are left out of the world's tick, and the   *)
(* ticks they missed are made up for at once when somebody comes near      *)
(* (engine.py: _update_wildlife_dormancy; dormancy.py: DormancyManager).   *)
(* Sleep and clock are the manager's, which herds are under review is the  *)
(* engine's own book, and the world is told the sleepers before each tick. *)
(***************************************************************************)
EXTENDS Integers, FiniteSets, FiniteSetsExt, Functions

CONSTANTS
  Herd,         \* ids: those of the founding, and those that come later
  Founding,
  TicksPerDay,
  IdleChecks,   \* days unseen before the sleep, by strategy (_dormancy_idle_threshold)
  LastTick      \* bound: where the run stops

DormancyAssumption ==
  /\ Founding \subseteq Herd
  /\ TicksPerDay \in Nat \ {0} /\ LastTick \in Nat
  /\ IdleChecks \subseteq Nat \ {0}
  /\ \E least, most \in IdleChecks : \A n \in IdleChecks : least <= n /\ n <= most

VARIABLES
  tick,     \* WorldClock.tick_count
  unborn,   \* ids that _next_id has not reached
  living,   \* herds with count > 0
  herdIdle,     \* _wildlife_idle_checks
  dormant,  \* entries of the manager that are not scheduled
  since,    \* _since_tick
  missed,   \* history: ticks that left a herd out and are not made up for
  seen      \* history: when somebody was near a herd at a review

herdVars == <<tick, unborn, living, herdIdle, dormant, since, missed, seen>>

HerdTypeOK ==
  /\ tick \in Nat /\ unborn \subseteq Herd /\ living \subseteq Herd \ unborn
  /\ DOMAIN herdIdle \subseteq Herd /\ Range(herdIdle) \subseteq 0..Max(IdleChecks)
  /\ dormant \subseteq DOMAIN since /\ DOMAIN since \subseteq Herd
  /\ missed \in [Herd -> Int] /\ seen \in [Herd -> Nat]

DormancyInit ==
  /\ tick = 0 /\ unborn = Herd \ Founding /\ living = Founding
  /\ herdIdle = [h \in {} |-> 0] /\ dormant = {} /\ since = [h \in {} |-> 0]
  /\ missed = [h \in Herd |-> 0] /\ seen = [h \in Herd |-> 0]

\* _dormant_wildlife_herd_ids: told to WildlifeGrid.tick, which passes over them.
Skipped == DOMAIN herdIdle \cap dormant

\* Mutant: going to sleep again sets the clock again.
FallsAsleepAnew(h, checks, limit) == checks[h] >= limit

\* DormancyManager.sleep: who sleeps already keeps its clock.
FallsAsleep(h, checks, limit) == checks[h] >= limit /\ h \notin dormant

\* _update_wildlife_dormancy after the tick `now`: the herds `near` are seen, those
\* of them that wake are caught up, and those in `lapsed` are found to have died out.
\* (The counter of a herd stops at the longest patience: a bound.)
ReviewHerds(now, alive, near, lapsed, limit) ==
  LET fresh == alive \ DOMAIN herdIdle
      watched == (alive \ fresh) \cap near
      unseen == (alive \ fresh) \ near
      checks == [h \in alive |->
        IF h \in unseen THEN Min({herdIdle[h] + 1, Max(IdleChecks)}) ELSE 0]
      sleepers == {h \in unseen : FallsAsleep(h, checks, limit)}
      wakers == watched \cap dormant
  IN /\ lapsed \subseteq wakers
     /\ living' = alive \ lapsed
     /\ herdIdle' = checks
     /\ dormant' = (dormant \ (fresh \cup watched)) \cup sleepers
     /\ since' = [h \in DOMAIN since \cup fresh |->
          IF h \in fresh \cup wakers \cup sleepers THEN now ELSE since[h]]
     /\ missed' = [h \in Herd |->
          LET owed == missed[h] + (IF h \in living \cap Skipped THEN 1 ELSE 0)
          IN IF h \in wakers THEN owed - (now - since[h]) ELSE owed]
     /\ seen' = [h \in Herd |-> IF h \in fresh \cup watched THEN now ELSE seen[h]]

\* One tick: the world's part, which leaves the sleepers out, some herds die
\* (a sleeper may be hunted too) and a new one may come; and at a day's end the review.
Tick(died, born, near, lapsed, limit) ==
  LET now == tick + 1
      alive == (living \ died) \cup born
  IN /\ tick < LastTick
     /\ died \subseteq living /\ born \subseteq unborn
     /\ tick' = now /\ unborn' = unborn \ born
     /\ IF now % TicksPerDay = 0 THEN ReviewHerds(now, alive, near, lapsed, limit)
        ELSE /\ near = {} /\ lapsed = {} /\ limit = Min(IdleChecks)
             /\ living' = alive
             /\ missed' = [h \in Herd |->
                  missed[h] + (IF h \in living \cap Skipped THEN 1 ELSE 0)]
             /\ UNCHANGED <<herdIdle, dormant, since, seen>>

\* The manager and the book are not saved: every herd is awake again, and what it
\* has missed is forgiven.
HerdsRestart ==
  /\ herdIdle' = [h \in {} |-> 0] /\ dormant' = {} /\ since' = [h \in {} |-> 0]
  /\ missed' = [h \in Herd |-> 0]
  /\ seen' = [h \in Herd |-> tick]
  /\ UNCHANGED <<tick, unborn, living>>

DormancyNext ==
  \/ \E died, near, lapsed \in SUBSET living, born \in SUBSET unborn, limit \in IdleChecks :
       Tick(died, born, near, lapsed, limit)
  \/ HerdsRestart

DormancySpec == DormancyInit /\ [][DormancyNext]_herdVars

-----------------------------------------------------------------------------
GapsAreRepaid ==
  \A h \in living :
    missed[h] = IF h \in Skipped THEN tick - since[h] ELSE 0

SleepsIffUnseen ==
  \A h \in living \cap DOMAIN herdIdle :
    /\ h \in dormant => tick - seen[h] >= TicksPerDay * Min(IdleChecks)
    /\ tick - seen[h] >= TicksPerDay * (Max(IdleChecks)) => h \in dormant

\* What waking makes up for is exactly what the world left out, tick for tick, over
\* any order of reviews, deaths and strategies: a herd awake owes nothing.  Nobody
\* was near a sleeper for the shortest patience at least, and no herd unseen for
\* longer than the longest is still awake.
RestIsRepaid == HerdTypeOK /\ GapsAreRepaid /\ SleepsIffUnseen
=============================================================================
