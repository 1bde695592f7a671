------------------------------- MODULE People -------------------------------
(***************************************************************************)
(* Who is alive and which settlement each person belongs to: the part of   *)
(* hearthmind/agents/population.py that the core cast, the estates and the *)
(* institutions all read.  A person who is born, arrives, moves, dies or   *)
(* is folded into a district changes it; the modules that extend this one  *)
(* say what else changes in the same step.                                 *)
(*                                                                         *)
(* Identities are never reused, so a person is unborn, living or gone.     *)
(***************************************************************************)
EXTENDS Integers, FiniteSets, FiniteSetsExt

CONSTANTS
  Person,         \* every identity that will ever be given out
  Settlement,     \* the settlements the world may have, 1 is the first one
  FoundingParty,  \* Config.initial_population
  MigrantFloor,   \* outsiders arrive only below this population
  DistrictCap     \* DISTRICT_INDIVIDUAL_CAP

Primary == 1

ASSUME PeopleAssumption ==
  /\ IsFiniteSet(Person)
  /\ Settlement \subseteq Nat \ {0} /\ Primary \in Settlement
  /\ FoundingParty \in 1..Cardinality(Person)
  /\ MigrantFloor \in Nat \ {0} /\ DistrictCap \in Nat

VARIABLES
  home,  \* Agent.settlement_id of the people of Population.agents
  born   \* the identities given out so far (Population._next_id)

peopleVars == <<home, born>>

living == DOMAIN home

PeopleTypeOK ==
  /\ living \subseteq born /\ born \subseteq Person
  /\ home \in [living -> Settlement]

At(s) == {p \in living : home[p] = s}

\* The first settlement opens with its founders; nobody else is born yet.
PeopleInit ==
  /\ home \in {[p \in P |-> Primary] : P \in kSubset(FoundingParty, Person)}
  /\ born = living

\* The newcomers settle at s, under identities nobody had before.
Come(newcomers, s) ==
  /\ newcomers \subseteq Person \ born
  /\ born' = born \cup newcomers
  /\ home' = [p \in living \cup newcomers |->
                IF p \in newcomers THEN s ELSE home[p]]

\* A child is of the household of the parent who was met first.
Born(child, parent) == Come({child}, home[parent])

\* An outsider takes the default settlement id, that of the first settlement,
\* and comes only while the population is thin (or extinct).
Arrives(newcomer) ==
  /\ Cardinality(living) < MigrantFloor
  /\ Come({newcomer}, Primary)

\* After a true extinction, a new founding party under a new settlement id.
\* Bound: the successors are fewer than a founding party when the identities
\* of the instance run out.
Succeed(party, s) ==
  /\ living = {}
  /\ party # {}
  /\ \/ Cardinality(party) = FoundingParty
     \/ party = Person \ born /\ Cardinality(party) < FoundingParty
  /\ Come(party, s)

\* The dead and the folded leave every index.
Leave(gone) ==
  /\ home' = [p \in living \ gone |-> home[p]]
  /\ UNCHANGED born

Settle(movers, s) ==
  /\ home' = [p \in living |-> IF p \in movers THEN s ELSE home[p]]
  /\ UNCHANGED born

\* One thing that happens to people in a tick of the population.
PeopleMoves ==
  \/ \E p \in Person : Arrives(p) \/ \E parent \in living : Born(p, parent)
  \/ \E p \in living, s \in Settlement : s # home[p] /\ Settle({p}, s)
  \/ \E D \in SUBSET living \ {{}} : Leave(D)

\* One daily pass folds F into districts: at each settlement as many of those
\* not exempt as exceed the cap.  Which of them (the least prominent) is left open.
Folds(F, exempt) ==
  LET Excess(s) == Cardinality(At(s) \ exempt) - DistrictCap
  IN /\ F \subseteq living \ exempt
     /\ \A s \in Settlement : Cardinality(F \cap At(s)) = Max({0, Excess(s)})
=============================================================================
