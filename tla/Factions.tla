------------------------------ MODULE Factions ------------------------------
(***************************************************************************)
(* Factions: groups of mutual trust that are found among the unaffiliated  *)
(* of a settlement and founded when the model has named them, ticks later, *)
(* with the members that were captured then.  A settlement stores a        *)
(* bounded number of them.                                                 *)
(***************************************************************************)
EXTENDS Rolls

CONSTANTS
  FactionMin,  \* FACTION_MIN_SIZE
  FactionCap,  \* FACTION_MAX_STORED
  MaxNaming    \* bound: factions being named

FactionsAssumption ==
  FactionMin \in Nat \ {0} /\ FactionCap \in Nat /\ MaxNaming \in Nat

VARIABLES
  factions, \* at each settlement the member sets in the order of founding
  naming,   \* groups being named: settlement and members
  refused   \* the settlement whose group was just refused a place, 0 for none

factionsVars == <<home, born, factions, naming, refused>>

FactionsTypeOK ==
  /\ PeopleTypeOK
  /\ factions \in [Settlement -> Seq(SUBSET Person)]
  /\ naming \subseteq [at : Settlement, members : SUBSET Person]
  /\ Cardinality(naming) <= MaxNaming
  /\ refused \in Settlement \cup {0}

FactionsInit ==
  /\ PeopleInit
  /\ factions = [s \in Settlement |-> <<>>] /\ naming = {} /\ refused = 0

Stored(s) == {factions[s][i] : i \in DOMAIN factions[s]}

FactionPeople ==
  /\ PeopleMoves
  /\ refused' = 0
  /\ UNCHANGED <<factions, naming>>

\* A cluster among those who are on no roll of this settlement; which of the
\* people trust each other is left open.
Pool(s) == At(s) \ UNION Stored(s)

Detect(s) ==
  /\ Cardinality(naming) < MaxNaming
  /\ \E cluster \in SUBSET Pool(s) :
       /\ Cardinality(cluster) >= FactionMin
       /\ naming' = naming \cup {[at |-> s, members |-> cluster]}
  /\ refused' = 0
  /\ UNCHANGED <<home, born, factions>>

\* form_faction: prune, refuse at the cap, found.
Form(d) ==
  LET list == Pruned(factions[d.at], FactionCap)
  IN /\ d \in naming
     /\ naming' = naming \ {d}
     /\ IF Len(list) >= FactionCap
        THEN factions' = [factions EXCEPT ![d.at] = list] /\ refused' = d.at
        ELSE factions' = [factions EXCEPT ![d.at] = Append(list, d.members)] /\ refused' = 0
     /\ UNCHANGED <<home, born>>

FactionsNext ==
  \/ FactionPeople
  \/ \E s \in Settlement : Detect(s)
  \/ \E d \in naming : Form(d)

FactionsSpec == FactionsInit /\ [][FactionsNext]_factionsVars

-----------------------------------------------------------------------------
\* The store of a settlement stays within its cap with several groups being
\* named at once, and no faction with a living member is dropped to make room.
FactionsStayBounded ==
  \A s \in Settlement :
    /\ Len(factions'[s]) <= FactionCap
    /\ \A members \in Stored(s) :
         members \cap living # {} => members \in Stored(s)'

\* "Returns None if the cap has no room even after pruning the fully-dead": a
\* group is refused only when every stored faction has somebody alive.
DeadMakeRoom == refused # 0 => \A members \in Stored(refused) : members \cap living # {}
=============================================================================
