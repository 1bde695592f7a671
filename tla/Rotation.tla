------------------------------ MODULE Rotation ------------------------------
(***************************************************************************)
(* Whose turn it is: a settlement's monthly and seasonal jobs are about    *)
(* one settlement at a time, chosen by the month (engine.py: _job_target)  *)
(* among the named ones that are awake.  A settlement where nothing coarse *)
(* has changed for some monthly reviews in a row falls asleep.  The module *)
(* puts the choice on top of the gates that say when a job asks.           *)
(***************************************************************************)
EXTENDS CadenceGates, FiniteSets, FiniteSetsExt

CONSTANTS
  MaxSettlements, \* MAX_SETTLEMENTS
  IdleLimits      \* reviews without a change before the sleep, by strategy

RotationAssumption ==
  /\ GatesAssumption
  /\ MaxSettlements \in Nat \ {0}
  /\ IdleLimits \subseteq Nat \ {0} /\ IdleLimits # {} /\ IsFiniteSet(IdleLimits)

Place == 1..MaxSettlements

VARIABLES
  named,   \* the settlements with a name
  idle,    \* _settlement_idle_checks, of the settlements reviewed so far
  asleep,  \* the settlements _settlement_dormancy does not schedule
  pools,   \* history: of each job, the pool of its last turn
  passed   \* history: of each job, the turns in a row that passed a settlement by

rotaVars == <<named, idle, asleep, pools, passed>>

RotationTypeOK ==
  /\ named \subseteq Place /\ asleep \subseteq named
  /\ DOMAIN idle \subseteq named /\ Range(idle) \subseteq 0..Max(IdleLimits)
  /\ pools \in [Job -> SUBSET Place]
  /\ passed \in [Job -> [Place -> Nat]]

NotPassed == [p \in Place |-> 0]

RotationInit ==
  /\ GatesInit
  /\ named = {} /\ idle = [p \in {} |-> 0] /\ asleep = {}
  /\ pools = [j \in Job |-> {}] /\ passed = [j \in Job |-> NotPassed]

\* Narrowed to those awake, unless all of them sleep.
Pool(names) == IF names \ asleep # {} THEN names \ asleep ELSE names

\* The place of a settlement in a pool, which keeps the order of their founding.
Rank(pool, p) == Cardinality({q \in pool : q < p})

\* Mutant: the month is counted with the number of seasons.
TargetBySeasons(pool, d) ==
  CHOOSE p \in pool : Rank(pool, p) = (year(d) * Seasons + monthIndex(d)) % Cardinality(pool)

\* _job_target, of a pool that is not empty.
Target(pool, d) == CHOOSE p \in pool : Rank(pool, p) = monthOrdinal(d) % Cardinality(pool)

\* _update_settlement_dormancy, where `moved` differ from their last fingerprint.
\* (The counter stops at the largest limit: a bound.)
Review(names, moved, limit) ==
  LET still == (DOMAIN idle \cap names) \ moved
      checks == [p \in names |-> IF p \in still THEN Min({idle[p] + 1, Max(IdleLimits)}) ELSE 0]
  IN /\ idle' = checks
     /\ asleep' = {p \in still : p \in asleep \/ checks[p] >= limit}

\* The settlements that may have moved, and the limits, when a day ends in a review.
Reviewed(d) == IF "month_end" \in Crossed(d) THEN SUBSET DOMAIN idle ELSE {{}}
Limits(d) == IF "month_end" \in Crossed(d) THEN IdleLimits ELSE {Min(IdleLimits)}

\* A day ends.  World.tick names the settlements `built` in; the seasonal jobs come
\* before the monthly review in the tick, the monthly ones on later days.
RotaDay(free, built, moved, limit) ==
  LET d == day + 1
      names == named \cup built
      pool == Pool(names)
      runs == {j \in free : Open(j, d)}
      begins(j) == Boundary[j] \in Crossed(d)
      before(j) ==  \* a period without a call, or another pool, begins the count again
        IF (begins(j) /\ calls[j] = 0) \/ (j \in runs /\ pools[j] # pool)
        THEN NotPassed ELSE passed[j]
  IN /\ moved \in Reviewed(d) /\ limit \in Limits(d)
     /\ names = {} => free = {}
     /\ NewDay(free)
     /\ named' = names
     /\ IF "month_end" \in Crossed(d) THEN Review(names, moved, limit)
        ELSE UNCHANGED <<idle, asleep>>
     /\ pools' = [j \in Job |-> IF j \in runs THEN pool ELSE pools[j]]
     /\ passed' = [j \in Job |->
          IF j \in runs /\ (begins(j) \/ calls[j] = 0)
          THEN [p \in Place |-> IF p \in pool \ {Target(pool, d)} THEN before(j)[p] + 1 ELSE 0]
          ELSE before(j)]

\* The engine's books are empty after a restart: every settlement is awake.
RotaRestart ==
  /\ Restart
  /\ idle' = [p \in {} |-> 0] /\ asleep' = {}
  /\ UNCHANGED <<named, pools, passed>>

RotationNext ==
  \/ \E free \in SUBSET Job, built \in SUBSET (Place \ named),
        moved \in Reviewed(day + 1), limit \in Limits(day + 1) :
       RotaDay(free, built, moved, limit)
  \/ RotaRestart

RotationSpec == RotationInit /\ [][RotationNext]_<<gateVars, rotaVars>>

-----------------------------------------------------------------------------
\* "A month-indexed round-robin": while a job has its turn in every period and the
\* pool stays as it is, no settlement of the pool is passed by for a whole round.
TurnsComeRound(j) == \A p \in pools[j] : passed[j][p] < Cardinality(pools[j])

MonthlyTurnsComeRound == \A j \in Job : Monthly(j) => TurnsComeRound(j)

\* So it is for the monthly jobs, over years, restarts and reviews.
TurnsAreKept == RotationTypeOK /\ MonthlyTurnsComeRound

\* "Any given settlement's invention roll ... only fires on its 1-in-N turn": so it
\* would be for the seasonal jobs too.
EveryTurnComesRound == \A j \in Job : TurnsComeRound(j)
=============================================================================
