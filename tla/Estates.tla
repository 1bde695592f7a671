------------------------------ MODULE Estates -------------------------------
(***************************************************************************)
(* What people leave behind: the families that name their heirs, the huts  *)
(* they own, the mounts they ride and the crafts they know, through births,*)
(* moves, deaths of several people in one tick and foldings into districts *)
(* (agents/population.py: _apply_deaths, _apply_inheritance, _extend_family*)
(* and the places where an estate begins or ends).                         *)
(***************************************************************************)
EXTENDS Rolls

CONSTANTS
  House, Vehicle, Craft,
  Stable,     \* the settlement each vehicle belongs to
  Workshop,   \* the settlement each craft was invented in
  FamilyCap,  \* INSTITUTION_LIST_MAX_STORED
  NoOne

EstatesAssumption ==
  /\ Stable \in [Vehicle -> Settlement] /\ Workshop \in [Craft -> Settlement]
  /\ FamilyCap \in Nat /\ NoOne \notin Person

VARIABLES
  families, \* at each settlement, the member sets in the order of founding
  site,     \* the settlement of each hut that stands or is being built
  owner,    \* Building.owner_agent_id of those huts
  rider,    \* Vehicle.assigned_agent_id
  knowers,  \* invention_knowledge: who knows each tracked craft
  dormant,  \* the tracked crafts that are dormant
  grave     \* Settlement.memorials: where each of the dead lived

estate == <<families, site, owner, rider, knowers, dormant, grave>>
estatesVars == <<home, born, families, site, owner, rider, knowers, dormant, grave>>

tracked == DOMAIN knowers

EstatesTypeOK ==
  /\ PeopleTypeOK
  /\ families \in [Settlement -> Seq(SUBSET Person)]
  /\ site \in [DOMAIN site -> Settlement] /\ DOMAIN site \subseteq House
  /\ owner \in [DOMAIN site -> Person]
  /\ rider \in [Vehicle -> Person \cup {NoOne}]
  /\ knowers \in [tracked -> SUBSET Person] /\ tracked \subseteq Craft
  /\ dormant \subseteq tracked
  /\ DOMAIN grave \subseteq born \ living /\ grave \in [DOMAIN grave -> Settlement]

Nothing == [x \in {} |-> NoOne]

EstatesInit ==
  /\ PeopleInit
  /\ families = [s \in Settlement |-> <<>>]
  /\ site = Nothing /\ owner = Nothing
  /\ rider = [v \in Vehicle |-> NoOne]
  /\ knowers = Nothing /\ dormant = {}
  /\ grave = Nothing

-----------------------------------------------------------------------------
(* Births and families.                                                    *)

\* The child joins the first family that has both parents, or founds one.
Extended(list, a, b, child) ==
  LET both == {i \in DOMAIN list : {a, b} \subseteq list[i]}
  IN IF both # {} THEN [list EXCEPT ![Min(both)] = @ \cup {child}]
     ELSE Pruned(Append(list, {a, b, child}), FamilyCap)

BearInFamily(a, b, child) ==
  /\ a \in living /\ b \in living /\ a # b
  /\ Born(child, a)
  /\ families' = [families EXCEPT ![home[a]] = Extended(@, a, b, child)]
  /\ UNCHANGED <<site, owner, rider, knowers, dormant, grave>>

\* A move takes nothing along and gives nothing up.
Move(p, s) ==
  /\ p \in living /\ s # home[p]
  /\ Settle({p}, s)
  /\ UNCHANGED estate

Fold(F) ==
  /\ F # {} /\ \E exempt \in SUBSET living : Folds(F, exempt)
  /\ Leave(F)
  /\ UNCHANGED estate

-----------------------------------------------------------------------------
(* Deaths.  The heir is found in the newest family the dead belonged to at *)
(* the settlement they died in, among those who outlive this very tick.    *)

\* Mutant: somebody who dies in the same tick may inherit.
HeirsOfDying(p, D) ==
  LET list == families[home[p]]
      mine == {i \in DOMAIN list : p \in list[i]}
  IN IF mine = {} THEN {} ELSE (list[Max(mine)] \cap living) \ {p}

HeirsOf(p, D) ==
  LET list == families[home[p]]
      mine == {i \in DOMAIN list : p \in list[i]}
  IN IF mine = {} THEN {} ELSE (list[Max(mine)] \cap living) \ D

\* Every choice of an heir for each of the dying (the closest one: left open).
Wills(D) ==
  {w \in [D -> UNION {HeirsOf(p, D) : p \in D} \cup {NoOne}] :
     \A p \in D : IF HeirsOf(p, D) = {} THEN w[p] = NoOne ELSE w[p] \in HeirsOf(p, D)}

\* The huts of the settlement where the owner lived pass to the heir.
Bequeathed(will) ==
  [h \in DOMAIN owner |->
     LET p == owner[h]
     IN IF p \in DOMAIN will /\ site[h] = home[p] /\ will[p] # NoOne
        THEN will[p] ELSE p]

\* The dying are struck from the crafts of the settlement where they lived.
LocalKnowers(c, D) == {p \in knowers[c] \cap D : home[p] = Workshop[c]}

\* Mutant: only a craft with a single knower can be lost.
LostSolitary(D) ==
  {c \in tracked \ dormant :
     LocalKnowers(c, D) # {} /\ Cardinality(knowers[c]) = 1}

\* The crafts whose last listed knower dies now.
Lost(D) ==
  {c \in tracked \ dormant :
     LocalKnowers(c, D) # {} /\ knowers[c] \subseteq LocalKnowers(c, D)}

Released(D) == [v \in Vehicle |-> IF rider[v] \in D THEN NoOne ELSE rider[v]]

\* The heir of the last knower may rediscover a craft that was just lost.  The
\* last one is the youngest of the dying knowers, left open here.
DieWithEstate(D) ==
  /\ D # {} /\ D \subseteq living
  /\ \E will \in Wills(D), found \in SUBSET Lost(D) :
       /\ owner' = Bequeathed(will)
       /\ \E last \in [Lost(D) -> D] :
            LET Finder(c) == will[last[c]]
            IN /\ \A c \in Lost(D) : last[c] \in LocalKnowers(c, D)
               /\ \A c \in found : Finder(c) # NoOne
               /\ knowers' = [c \in tracked |->
                    IF c \in found THEN {Finder(c)}
                    ELSE knowers[c] \ LocalKnowers(c, D)]
               /\ dormant' = dormant \cup (Lost(D) \ found)
  /\ rider' = Released(D)
  /\ grave' = [p \in DOMAIN grave \cup D |-> IF p \in D THEN home[p] ELSE grave[p]]
  /\ Leave(D)
  /\ UNCHANGED <<families, site>>

-----------------------------------------------------------------------------
(* Estates begin and end.                                                  *)

\* Two people on a spot start a hut at the settlement of the first, and one of
\* the two owns it: perhaps one of another settlement.
Build(h, s, p) ==
  /\ h \notin DOMAIN site /\ p \in living
  /\ \E q \in living \ {p} : s \in {home[p], home[q]}
  /\ site' = [x \in DOMAIN site \cup {h} |-> IF x = h THEN s ELSE site[x]]
  /\ owner' = [x \in DOMAIN site \cup {h} |-> IF x = h THEN p ELSE owner[x]]
  /\ UNCHANGED <<home, born, families, rider, knowers, dormant, grave>>

Reclaim(h) ==
  /\ h \in DOMAIN site
  /\ site' = [x \in DOMAIN site \ {h} |-> site[x]]
  /\ owner' = [x \in DOMAIN site \ {h} |-> owner[x]]
  /\ UNCHANGED <<home, born, families, rider, knowers, dormant, grave>>

\* Whoever stands beside a free mount and rides no other of that settlement.
Claim(v, p) ==
  /\ rider[v] = NoOne /\ p \in living
  /\ \A w \in Vehicle : Stable[w] = Stable[v] => rider[w] # p
  /\ rider' = [rider EXCEPT ![v] = p]
  /\ UNCHANGED <<home, born, families, site, owner, knowers, dormant, grave>>

Break(v) ==
  /\ rider[v] # NoOne
  /\ rider' = [rider EXCEPT ![v] = NoOne]
  /\ UNCHANGED <<home, born, families, site, owner, knowers, dormant, grave>>

\* An invention is credited to someone of the settlement; with nobody there it
\* is not tracked.
Invent(c, p) ==
  /\ c \notin tracked /\ p \in At(Workshop[c])
  /\ knowers' = [x \in tracked \cup {c} |-> IF x = c THEN {p} ELSE knowers[x]]
  /\ UNCHANGED <<home, born, families, site, owner, rider, dormant, grave>>

\* The oldest tracked craft makes room and becomes common knowledge.
Outgrow(c) ==
  /\ c \in tracked
  /\ knowers' = [x \in tracked \ {c} |-> knowers[x]]
  /\ dormant' = dormant \ {c}
  /\ UNCHANGED <<home, born, families, site, owner, rider, grave>>

\* Two people of the craft's settlement meet, one of whom knows it.
Teach(c, a, b) ==
  /\ c \in tracked \ dormant
  /\ {a, b} \subseteq At(Workshop[c])
  /\ a \in knowers[c] /\ b \notin knowers[c]
  /\ knowers' = [knowers EXCEPT ![c] = @ \cup {b}]
  /\ UNCHANGED <<home, born, families, site, owner, rider, dormant, grave>>

EstatesNext ==
  \/ \E a, b, child \in Person : BearInFamily(a, b, child)
  \/ \E p \in Person : Arrives(p) /\ UNCHANGED estate
  \/ \E p \in Person, s \in Settlement : Move(p, s)
  \/ \E G \in SUBSET Person : Fold(G) \/ DieWithEstate(G)
  \/ \E h \in House, s \in Settlement, p \in Person : Build(h, s, p)
  \/ \E h \in House : Reclaim(h)
  \/ \E v \in Vehicle, p \in Person : Claim(v, p)
  \/ \E v \in Vehicle : Break(v)
  \/ \E c \in Craft, p \in Person : Invent(c, p)
  \/ \E c \in Craft : Outgrow(c)
  \/ \E c \in Craft, a, b \in Person : Teach(c, a, b)

EstatesSpec == EstatesInit /\ [][EstatesNext]_estatesVars

-----------------------------------------------------------------------------
\* Gone without a death: folded into a district.
folded == born \ (living \cup DOMAIN grave)

RidersLiveOn == \A v \in Vehicle : rider[v] \in living \cup folded \cup {NoOne}

CraftHasKeeper ==
  \A c \in tracked \ dormant :
    \E p \in knowers[c] :
      \/ p \in living \cup folded
      \/ p \in DOMAIN grave /\ grave[p] # Workshop[c]

\* Several people, their heirs among them, may die in one tick, or have moved
\* before: no mount is ever claimed by the dead (only by one folded away), and a
\* craft that counts as alive is known to somebody living, folded away, or dead
\* in another settlement.
EstatesAreKept == EstatesTypeOK /\ RidersLiveOn /\ CraftHasKeeper

\* A family that somebody alive belongs to is never forgotten, however many
\* families the settlement stores.
FamiliesKeepTheLiving ==
  \A s \in Settlement, p \in living' :
    (\E i \in DOMAIN families[s] : p \in families[s][i])
      => \E i \in DOMAIN families'[s] : p \in families'[s][i]

HeirsTakeTheHuts ==
  \A h \in DOMAIN owner :
    LET p == owner[h]
        list == families[home[p]]
        newest == Max({i \in DOMAIN list : p \in list[i]})
    IN /\ h \in DOMAIN owner'
       /\ p \in living /\ p \in DOMAIN grave'
       /\ site[h] = home[p]
       /\ \E i \in DOMAIN list : p \in list[i]
       /\ list[newest] \cap living' # {}
       => owner'[h] \in list[newest] \cap living'

\* When an owner dies at home, the hut goes to somebody who outlives the tick,
\* if anybody of the owner's newest family does.
HutsFollowTheFamily == [][HeirsTakeTheHuts]_estatesVars
=============================================================================
