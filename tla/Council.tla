------------------------------- MODULE Council ------------------------------
(***************************************************************************)
(* The council of each settlement: formed once the settlement is large,    *)
(* topped up after deaths and departures, contested now and then.  Members *)
(* are never struck off when they die or move (Institution.member_agent_ids*)
(* outlives them), so "how many seats are filled" is always relative to    *)
(* who is alive and at home when it is asked.                              *)
(* "people" is the tick of the population, "civic" what follows its end.   *)
(***************************************************************************)
EXTENDS People

CONSTANTS
  CouncilSize,      \* COUNCIL_SIZE
  CouncilThreshold  \* COUNCIL_FORMATION_POPULATION_THRESHOLD

CouncilAssumption ==
  /\ CouncilSize \in Nat \ {0} /\ CouncilThreshold \in Nat
  /\ CouncilSize <= CouncilThreshold

VARIABLES
  titled,  \* settlements with a name
  council, \* member_agent_ids of the COUNCIL, of the settlements that have one
  session

councilVars == <<home, born, titled, council, session>>

seated == DOMAIN council

CouncilTypeOK ==
  /\ PeopleTypeOK
  /\ titled \subseteq Settlement /\ seated \subseteq titled
  /\ council \in [seated -> SUBSET Person]
  /\ session \in {"people", "civic"}

CouncilInit ==
  /\ PeopleInit
  /\ titled = {} /\ council = [s \in {} |-> {}] /\ session = "people"

\* Births, arrivals, moves and deaths of the tick leave the rolls alone.
CouncilPeople ==
  /\ session = "people"
  /\ PeopleMoves
  /\ UNCHANGED <<titled, council, session>>

\* The first council: the most prominent, as many as there are seats.
FirstCouncil(s) ==
  IF s \in seated THEN {council[s]}
  ELSE IF s \in titled /\ Cardinality(At(s)) >= CouncilThreshold
       THEN kSubset(CouncilSize, At(s)) ELSE {}

\* Mutant: the dead keep their seats.
OpenSeatsOnRoll(roll, s) ==
  LET filled == Cardinality(roll)
  IN IF filled < CouncilSize THEN CouncilSize - filled ELSE 0

\* A seat is open when its holder is dead or has left: the living members who
\* are at home are counted, and the seats are filled from those who are not on
\* the roll.  With every seat filled, a contest may swap one for another.
OpenSeats(roll, s) ==
  LET filled == Cardinality(roll \cap At(s))
  IN IF filled < CouncilSize THEN CouncilSize - filled ELSE 0

Joiners(roll, s) ==
  LET outside == At(s) \ roll
  IN kSubset(Min({OpenSeats(roll, s), Cardinality(outside)}), outside)

Refreshed(roll, s, contest) ==
  LET outside == At(s) \ roll
  IN IF OpenSeats(roll, s) > 0 THEN {roll \cup new : new \in Joiners(roll, s)}
     ELSE {roll} \cup (IF contest
            THEN {(roll \ {old}) \cup {new} : old \in roll \cap At(s), new \in outside}
            ELSE {})

\* Form and refresh, at one settlement after the other.
CouncilCivic(contest) ==
  /\ session = "people"
  /\ LET Outcomes(s) == UNION {Refreshed(roll, s, contest) : roll \in FirstCouncil(s)}
         sitting == {s \in Settlement : FirstCouncil(s) # {}}
     IN council' \in {c \in [sitting -> SUBSET Person] :
                        \A s \in sitting : c[s] \in Outcomes(s)}
  /\ session' = "civic"
  /\ UNCHANGED <<home, born, titled>>

\* After the population's tick: the district pass, answers that move people, and
\* as the next tick opens a settlement where a building stands gets its name.
CouncilAfter ==
  /\ session = "civic"
  /\ \/ \E exempt \in SUBSET living, F \in SUBSET living : Folds(F, exempt) /\ Leave(F)
     \/ \E P \in SUBSET living, s \in Settlement : P # {} /\ Settle(P, s)
     \/ UNCHANGED <<home, born>>
  /\ \E S \in SUBSET Settlement : titled' = titled \cup S
  /\ session' = "people"
  /\ UNCHANGED council

CouncilNext == CouncilPeople \/ (\E contest \in BOOLEAN : CouncilCivic(contest)) \/ CouncilAfter

CouncilSpec == CouncilInit /\ [][CouncilNext]_councilVars

-----------------------------------------------------------------------------
SeatsAreFilled ==
  session = "civic" =>
    \A s \in seated :
      Cardinality(council[s] \cap At(s)) >= Min({CouncilSize, Cardinality(At(s))})

\* A council is never a roster of ghosts: after every tick of the population its
\* living members at home fill the seats, or everybody at home is a member, however
\* many died, moved away or were folded since.
CouncilHasQuorum == CouncilTypeOK /\ SeatsAreFilled
=============================================================================
