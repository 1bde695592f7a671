--------------------------- MODULE CoreCastProofs ---------------------------
(***************************************************************************)
(* Proofs about CoreCast and Dialogue, for any people, any size of the     *)
(* cast and of the founding parties, any number of settlements and any     *)
(* cooldowns: the cast and the voice serve, the cast is sticky, splits of  *)
(* settlements are sustainable, and talk keeps its pace.                   *)
(***************************************************************************)
EXTENDS Dialogue, FiniteSetTheorems, TLAPS

\* The settlements are numbered in the order of their founding.
Numbered == \E n \in 1..MaxSettlements : founded = 1..n

\* Everybody belongs to a settlement that was founded, and so do both ends of
\* every decision that is under way.
Rooted ==
  /\ \A p \in living : home[p] \in founded
  /\ \A d \in pending : d.from \in founded /\ d.to \in founded

\* The inductive invariant.  A cast may be out of date between the people's part
\* of a tick and its upkeep, but it is never larger than configured.
CastInv ==
  /\ CastTypeOK /\ Numbered /\ Rooted
  /\ Cardinality(core) <= CastSize
  /\ CastServes

-----------------------------------------------------------------------------
(* Lemmas on numbers and sets.                                             *)

\* The smaller of two numbers is one of them.
LEMMA MinOfTwo ==
  ASSUME NEW a \in Int, NEW b \in Int
  PROVE  Min({a, b}) = IF a <= b THEN a ELSE b
<1>. DEFINE m == IF a <= b THEN a ELSE b
<1>1. m \in {a, b} /\ \A y \in {a, b} : m <= y
  OBVIOUS
<1>2. \A x \in {a, b} : (\A y \in {a, b} : x <= y) => x = m
  OBVIOUS
<1>. HIDE DEF m
<1>3. (CHOOSE x \in {a, b} : \A y \in {a, b} : x <= y) = m
  BY <1>1, <1>2
<1>. QED
  BY <1>3 DEF Min, m

\* The last of the numbers up to n is n.
LEMMA MaxOfRange ==
  ASSUME NEW n \in Nat \ {0}
  PROVE  Max(1..n) = n
<1>1. n \in 1..n /\ \A y \in 1..n : n >= y
  OBVIOUS
<1>2. \A x \in 1..n : (\A y \in 1..n : x >= y) => x = n
  OBVIOUS
<1>. QED
  BY <1>1, <1>2 DEF Max

\* The cast that a population supports is no larger than the population or the
\* configuration, and empty only if one of the two is.
LEMMA TargetFacts ==
  ASSUME NEW n \in Nat
  PROVE  /\ CastTarget(n) \in Nat
         /\ CastTarget(n) <= n /\ CastTarget(n) <= CastSize
         /\ CastTarget(n) = 0 => n = 0 \/ CastSize = 0
<1>. DEFINE share == (2 * n + 4) \div 5
<1>1. share \in Nat /\ share <= n /\ (share = 0 => n = 0)
  OBVIOUS
<1>. HIDE DEF share
<1>2. CastSize \in Nat
  BY CastAssumption
<1>3. CastTarget(n) = IF CastSize <= share THEN CastSize ELSE share
  BY <1>1, <1>2, MinOfTwo DEF CastTarget, share
<1>. QED
  BY <1>1, <1>2, <1>3

\* Any set of people is finite.
LEMMA PeopleFinite ==
  ASSUME NEW S \in SUBSET Person
  PROVE  IsFiniteSet(S) /\ Cardinality(S) \in Nat
  BY PeopleAssumption, FS_Subset, FS_CardinalityType

\* Taking away a part.
LEMMA PartTaken ==
  ASSUME NEW S \in SUBSET Person, NEW T \in SUBSET S
  PROVE  /\ Cardinality(S \ T) = Cardinality(S) - Cardinality(T)
         /\ Cardinality(T) <= Cardinality(S)
         /\ Cardinality(S) = Cardinality(T) => S = T
<1>1. S \cap T = T
  OBVIOUS
<1>. QED
  BY <1>1, PeopleFinite, FS_Difference, FS_Subset

\* Adding a set that is disjoint.
LEMMA PartAdded ==
  ASSUME NEW S \in SUBSET Person, NEW T \in SUBSET Person, S \cap T = {}
  PROVE  Cardinality(S \cup T) = Cardinality(S) + Cardinality(T)
<1>1. IsFiniteSet(S) /\ IsFiniteSet(T) /\ Cardinality(S) \in Nat /\ Cardinality(T) \in Nat
  BY PeopleFinite
<1>2. Cardinality(S \cup T) = Cardinality(S) + Cardinality(T) - Cardinality(S \cap T)
  BY <1>1, FS_Union
<1>3. Cardinality(S \cap T) = 0
  BY FS_EmptySet
<1>. QED
  BY <1>1, <1>2, <1>3

\* Two different people are two.
LEMMA TwoOfThem ==
  ASSUME NEW p \in Person, NEW q \in Person, p # q
  PROVE  Cardinality({p, q}) = 2
<1>1. Cardinality({p}) = 1 /\ IsFiniteSet({p})
  BY FS_Singleton
<1>2. Cardinality({p} \cup {q}) = 1 + 1
  BY <1>1, FS_AddElement
<1>3. {p} \cup {q} = {p, q}
  OBVIOUS
<1>. QED
  BY <1>2, <1>3

-----------------------------------------------------------------------------
(* Lemmas on the people.                                                   *)

\* Newcomers join the living at their settlement.
LEMMA ComeKeeps ==
  ASSUME PeopleTypeOK, NEW N, NEW s \in Settlement, Come(N, s)
  PROVE  /\ PeopleTypeOK'
         /\ living' = living \cup N
         /\ \A p \in living' : home'[p] = IF p \in N THEN s ELSE home[p]
  BY DEF PeopleTypeOK, Come, living

\* Those who leave leave; nobody else moves.
LEMMA LeaveKeeps ==
  ASSUME PeopleTypeOK, NEW gone, Leave(gone)
  PROVE  /\ PeopleTypeOK'
         /\ living' = living \ gone
         /\ \A p \in living' : home'[p] = home[p]
  BY DEF PeopleTypeOK, Leave, living

\* Those who move are at their new settlement; nobody else moves.
LEMMA SettleKeeps ==
  ASSUME PeopleTypeOK, NEW movers, NEW s \in Settlement, Settle(movers, s)
  PROVE  /\ PeopleTypeOK'
         /\ living' = living
         /\ \A p \in living : home'[p] = IF p \in movers THEN s ELSE home[p]
  BY DEF PeopleTypeOK, Settle, living
\* As long as there is room, the next number is that of a settlement that was
\* not founded yet.
LEMMA NextSettlement ==
  ASSUME Numbered, Cardinality(founded) < MaxSettlements,
         NEW s, s = Max(founded) + 1
  PROVE  /\ s \in Settlement \ founded
         /\ Cardinality(founded \cup {s}) <= MaxSettlements
         /\ founded' = founded \cup {s} => Numbered'
<1>1. PICK n \in 1..MaxSettlements : founded = 1..n
  BY DEF Numbered
<1>2. MaxSettlements \in Nat /\ 1..MaxSettlements \subseteq Settlement /\ n \in Nat \ {0}
  BY <1>1, CastAssumption
<1>3. s = n + 1
  BY <1>1, <1>2, MaxOfRange
<1>4. Cardinality(1..n) = n /\ Cardinality(1..(n + 1)) = n + 1
  BY <1>2, FS_Interval
<1>5. founded \cup {s} = 1..(n + 1)
  BY <1>1, <1>2, <1>3
<1>6. n + 1 \in 1..MaxSettlements
  BY <1>1, <1>2, <1>4
<1>7. s \in Settlement /\ s \notin founded
  BY <1>1, <1>2, <1>3, <1>6
<1>8. Cardinality(founded \cup {s}) <= MaxSettlements
  <2>1. n + 1 <= MaxSettlements
    BY <1>2, <1>6
  <2>2. Cardinality(founded \cup {s}) = n + 1
    BY <1>4, <1>5, Zenon
  <2>. QED
    BY <2>1, <2>2
<1>9. ASSUME founded' = founded \cup {s}  PROVE Numbered'
  BY <1>5, <1>6, <1>9 DEF Numbered
<1>. QED
  BY <1>7, <1>8, <1>9

-----------------------------------------------------------------------------
(* Lemmas on the invariant.                                                *)

\* Roots hold while nobody is at a place that was not founded.
LEMMA RootsHold ==
  ASSUME Rooted, founded \subseteq founded', pending' \subseteq pending,
         \A p \in living' : home'[p] \in founded' \/ (p \in living /\ home'[p] = home[p])
  PROVE  Rooted'
  BY DEF Rooted

\* Whoever lives and wherever they go, a step that leaves the cast alone keeps
\* the invariant, if it ends before the upkeep or changes none of the living.
LEMMA CastStands ==
  ASSUME CastInv, core' = core, voice' = voice,
         PeopleTypeOK', Numbered', Rooted',
         named' \subseteq founded', travelling' \subseteq living', pending' \subseteq Decision,
         \/ phase' \in {"people", "cast"}
         \/ /\ phase \in {"rotation", "fission", "migration", "wait"}
            /\ phase' \in {"fission", "migration", "wait"}
            /\ living' = living
  PROVE  CastInv'
<1>1. founded' \subseteq Settlement
  <2>1. PICK n \in 1..MaxSettlements : founded' = 1..n
    BY DEF Numbered
  <2>. QED
    BY <2>1, CastAssumption
<1>2. CastTypeOK'
  BY <1>1 DEF CastInv, CastTypeOK
<1>3. Cardinality(core') <= CastSize
  BY DEF CastInv
<1>4. CastServes'
  BY DEF CastInv, CastServes
<1>. QED
  BY <1>2, <1>3, <1>4 DEF CastInv

\* The upkeep keeps the living members and fills the cast to its size.
LEMMA UpkeepFills ==
  ASSUME CastInv, NEW c \in Casts(living, CastTarget(Cardinality(living)))
  PROVE  /\ c \subseteq living
         /\ Cardinality(c) \in CastTarget(Cardinality(living))..CastSize
         /\ core \cap living \subseteq c
<1>. DEFINE n == Cardinality(living)
            size == CastTarget(n)
            kept == core \cap living
            k == Cardinality(kept)
            deficit == IF size > k THEN size - k ELSE 0
            candidates == living \ kept
            seats == Min({deficit, Cardinality(candidates)})
<1>1. living \subseteq Person /\ core \subseteq Person /\ kept \subseteq living
      /\ kept \subseteq core /\ candidates \subseteq Person /\ kept \subseteq Person
  BY DEF CastInv, CastTypeOK, PeopleTypeOK
<1>2. n \in Nat /\ k \in Nat /\ Cardinality(candidates) = n - k /\ k <= n
  BY <1>1, PeopleFinite, PartTaken
<1>3. Cardinality(core) \in Nat /\ k <= Cardinality(core) /\ Cardinality(core) <= CastSize
  BY <1>1, PeopleFinite, PartTaken DEF CastInv
<1>4. CastSize \in Nat /\ size \in Nat /\ size <= n /\ size <= CastSize
      /\ (size = 0 => n = 0 \/ CastSize = 0)
  BY <1>2, TargetFacts, CastAssumption
<1>5. IF size = 0 THEN c = {} ELSE \E new \in kSubset(seats, candidates) : c = kept \cup new
  BY DEF Casts
<1>6. CASE size = 0
  <2>1. c = {} /\ Cardinality({}) = 0
    BY <1>5, <1>6, FS_EmptySet
  <2>2. k = 0
    BY <1>2, <1>3, <1>4, <1>6
  <2>3. kept = {}
    BY <1>1, <2>2, PeopleFinite, FS_EmptySet
  <2>. HIDE DEF size, n
  <2>4. Cardinality(c) \in size..CastSize
    BY <1>4, <1>6, <2>1
  <2>. QED
    BY <2>1, <2>3, <2>4 DEF size, n
<1>7. CASE size # 0
  <2>1. PICK new \in kSubset(seats, candidates) : c = kept \cup new
    BY <1>5, <1>7
  <2>2. new \subseteq candidates /\ Cardinality(new) = seats
    BY <2>1 DEF kSubset
  <2>3. Cardinality(c) = k + seats
    <3>1. new \in SUBSET Person /\ kept \in SUBSET Person /\ kept \cap new = {}
      BY <1>1, <2>2
    <3>. QED
      BY <2>1, <2>2, <3>1, PartAdded
  <2>. HIDE DEF size, n, k
  <2>4. deficit \in Int /\ Cardinality(candidates) \in Int
    BY <1>2, <1>4
  <2>5. seats = IF deficit <= Cardinality(candidates) THEN deficit ELSE Cardinality(candidates)
    BY <2>4, MinOfTwo
  <2>6. Cardinality(c) \in size..CastSize
    <3>. HIDE DEF seats, candidates
    <3>. QED
      BY <1>2, <1>3, <1>4, <2>3, <2>5
  <2>7. c \subseteq living /\ core \cap living \subseteq c
    BY <2>1, <2>2, <1>1
  <2>. QED
    BY <2>6, <2>7 DEF size, n
<1>. QED
  BY <1>6, <1>7

\* A pair of the cast is two of the cast, or nobody.
LEMMA PairFacts ==
  ASSUME NEW cast, NEW v \in Pairs(cast)
  PROVE  v \subseteq cast /\ Cardinality(v) \in {0, 2}
<1>1. CASE v = {}
  BY <1>1, FS_EmptySet
<1>2. CASE v # {}
  <2>1. v \in kSubset(2, cast)
    BY <1>2 DEF Pairs
  <2>. QED
    BY <2>1 DEF kSubset
<1>. QED
  BY <1>1, <1>2

\* The voice is two of the living, or nobody.
LEMMA VoiceFacts ==
  ASSUME CastInv, NEW cast \in SUBSET living, NEW w, NEW v \in Voices(cast, living, w)
  PROVE  v \subseteq living /\ Cardinality(v) \in {0, 2}
<1>. DEFINE alive == voice \cap living
<1>1. living \subseteq Person /\ voice \subseteq Person /\ Cardinality(voice) \in {0, 2}
  BY DEF CastInv, CastTypeOK, PeopleTypeOK
<1>2. \A x \in Pairs(cast) : x \subseteq living /\ Cardinality(x) \in {0, 2}
  BY PairFacts
<1>3. CASE voice = {} \/ alive = {}
  <2>1. v \in Pairs(cast)
    <3>1. Cardinality(alive) # 2
      BY <1>3, FS_EmptySet
    <3>. QED
      BY <1>3, <3>1 DEF Voices
  <2>. QED
    BY <1>2, <2>1
<1>4. CASE ~ (voice = {} \/ alive = {}) /\ Cardinality(alive) = 2
  <2>1. v \in Pairs(cast) \/ v = voice
    BY <1>4 DEF Voices
  <2>2. voice = alive
    <3>1. /\ Cardinality(alive) <= Cardinality(voice)
          /\ Cardinality(voice) = Cardinality(alive) => voice = alive
      BY <1>1, PartTaken
    <3>2. Cardinality(voice) = 2
      BY <1>1, <1>4, <3>1
    <3>. QED
      BY <1>4, <3>1, <3>2
  <2>3. voice \subseteq living
    BY <2>2
  <2>. QED
    BY <1>1, <1>2, <2>1, <2>3
<1>5. CASE ~ (voice = {} \/ alive = {}) /\ Cardinality(alive) # 2
  <2>1. \E p \in alive : v = {} \/ \E q \in cast \ {p} : v = {p, q}
    BY <1>5 DEF Voices
  <2>2. CASE v = {}
    BY <2>2, FS_EmptySet
  <2>3. CASE v # {}
    <3>0. PICK p \in alive : \E q \in cast \ {p} : v = {p, q}
      BY <2>1, <2>3
    <3>1. PICK q \in cast \ {p} : v = {p, q}
      BY <3>0
    <3>2. p \in Person /\ q \in Person /\ p # q /\ p \in living /\ q \in living
      BY <1>1, <3>1
    <3>3. Cardinality(v) = 2
      BY <3>1, <3>2, TwoOfThem
    <3>. QED
      BY <3>1, <3>2, <3>3
  <2>. QED
    BY <2>2, <2>3
<1>. QED
  BY <1>3, <1>4, <1>5
-----------------------------------------------------------------------------
(* The invariant.                                                          *)

\* The world opens with its founders at the first settlement.
LEMMA InitHolds == Init => CastInv
<1>. SUFFICES ASSUME Init  PROVE CastInv
  OBVIOUS
<1>1. PICK P \in kSubset(FoundingParty, Person) : home = [p \in P |-> Primary]
  BY DEF Init, PeopleInit
<1>2. P \subseteq Person /\ Primary \in Settlement
  BY <1>1, PeopleAssumption DEF kSubset
<1>3. PeopleTypeOK /\ living = P /\ \A p \in living : home[p] = Primary
  BY <1>1, <1>2 DEF Init, PeopleInit, PeopleTypeOK, living
<1>4. MaxSettlements \in Nat \ {0} /\ CastSize \in Nat
  BY CastAssumption
<1>5. founded = 1..1 /\ founded = {Primary}
  BY DEF Init, Primary
<1>6. Numbered
  BY <1>4, <1>5 DEF Numbered
<1>7. Rooted
  BY <1>3, <1>5 DEF Rooted, Init
<1>8. Cardinality(core) = 0 /\ Cardinality(voice) = 0
  BY FS_EmptySet DEF Init
<1>9. CastTypeOK
  BY <1>2, <1>3, <1>5, <1>8 DEF Init, CastTypeOK
<1>10. CastServes
  BY DEF Init, CastServes
<1>. QED
  BY <1>4, <1>6, <1>7, <1>8, <1>9, <1>10 DEF CastInv

\* A founding party goes to a settlement of its own; the rest stay.
LEMMA FissionKeeps ==
  ASSUME CastInv, NEW d, d.from \in founded, RoomForDaughter,
         NEW s, s = Max(founded) + 1, NEW P \in Parties(d.who, d.from),
         Settle(P, s), travelling' = travelling \cup P, founded' = founded \cup {s}
  PROVE  /\ PeopleTypeOK' /\ Numbered' /\ living' = living
         /\ travelling' \subseteq living'
         /\ \A p \in living' : home'[p] \in founded'
         /\ Cardinality(founded') <= MaxSettlements
         /\ \A t \in founded \ {d.from} : {p \in living' : home'[p] = t} = At(t)
         /\ Cardinality({p \in living' : home'[p] = d.from}) >= MinRemaining
<1>1. /\ s \in Settlement \ founded /\ Numbered'
      /\ Cardinality(founded') <= MaxSettlements
  BY NextSettlement DEF CastInv, RoomForDaughter
<1>2. /\ PeopleTypeOK' /\ living' = living
      /\ \A p \in living : home'[p] = IF p \in P THEN s ELSE home[p]
  BY <1>1, SettleKeeps DEF CastInv, CastTypeOK
<1>3. P \subseteq At(d.from) /\ Cardinality(At(d.from)) - Cardinality(P) >= MinRemaining
  BY DEF Parties
<1>4. travelling' \subseteq living' /\ \A p \in living' : home'[p] \in founded'
  BY <1>2, <1>3 DEF CastInv, CastTypeOK, Rooted, At
<1>5. \A t \in founded \ {d.from} : {p \in living' : home'[p] = t} = At(t)
  BY <1>1, <1>2, <1>3 DEF At
<1>6. {p \in living' : home'[p] = d.from} = At(d.from) \ P
  BY <1>1, <1>2 DEF At
<1>7. At(d.from) \in SUBSET Person
  BY DEF At, CastInv, CastTypeOK, PeopleTypeOK
<1>8. Cardinality(At(d.from) \ P) = Cardinality(At(d.from)) - Cardinality(P)
  BY <1>3, <1>7, PartTaken
<1>9. Cardinality({p \in living' : home'[p] = d.from}) >= MinRemaining
  BY <1>3, <1>6, <1>8
<1>. QED
  BY <1>1, <1>2, <1>4, <1>5, <1>9

\* Whatever an answer to a decision that is under way changes, nobody is lost.
LEMMA AppliedKeeps ==
  ASSUME CastInv, NEW d, d.from \in founded, d.to \in founded,
         \/ ApplyMigration(d)
         \/ ApplyFission(d)
         \/ UNCHANGED <<peopleVars, travelling, founded>>
  PROVE  /\ PeopleTypeOK' /\ Numbered' /\ living' = living
         /\ founded \subseteq founded' /\ travelling' \subseteq living'
         /\ \A p \in living' : home'[p] \in founded'
<1>1. CASE UNCHANGED <<peopleVars, travelling, founded>>
  BY <1>1 DEF peopleVars, CastInv, CastTypeOK, PeopleTypeOK, Numbered, Rooted, living
<1>2. CASE ApplyMigration(d) /\ ~ UNCHANGED <<peopleVars, travelling, founded>>
  <2>1. /\ d.who \in living \ travelling
        /\ Depart(d.who, d.to) /\ UNCHANGED founded
    BY <1>2 DEF ApplyMigration
  <2>2. d.to \in Settlement /\ PeopleTypeOK
    BY DEF CastInv, CastTypeOK
  <2>3. /\ PeopleTypeOK' /\ living' = living
        /\ \A p \in living : home'[p] = IF p \in {d.who} THEN d.to ELSE home[p]
    BY <2>1, <2>2, SettleKeeps DEF Depart
  <2>4. Numbered'
    BY <2>1 DEF CastInv, Numbered
  <2>. QED
    BY <2>1, <2>3, <2>4 DEF Depart, CastInv, CastTypeOK, Rooted
<1>3. CASE ApplyFission(d) /\ ~ UNCHANGED <<peopleVars, travelling, founded>>
  <2>. DEFINE s == Max(founded) + 1
  <2>1. RoomForDaughter /\ \E P \in Parties(d.who, d.from) :
             /\ Settle(P, s)
             /\ travelling' = travelling \cup P
             /\ founded' = founded \cup {s}
    BY <1>3 DEF ApplyFission
  <2>2. PICK P \in Parties(d.who, d.from) :
             /\ Settle(P, s)
             /\ travelling' = travelling \cup P
             /\ founded' = founded \cup {s}
    BY <2>1
  <2>. QED
    BY <2>1, <2>2, FissionKeeps
<1>. QED
  BY <1>1, <1>2, <1>3

\* The population's part of a tick.
LEMMA PeopleHold ==
  ASSUME CastInv,
         \/ \E D \in SUBSET Person : Die(D)
         \/ \E p \in Person : Bear(p) \/ Welcome(p) \/ Journey(p)
         \/ \E p \in Person, s \in Settlement : Migrate(p, s)
         \/ \E P \in SUBSET Person : FoundSuccessor(P)
         \/ \E s \in Settlement : NameSettlement(s)
         \/ ClosePeople
  PROVE  CastInv'
<1>0. /\ PeopleTypeOK /\ Numbered /\ Rooted /\ named \subseteq founded
      /\ travelling \subseteq living /\ pending \subseteq Decision
      /\ founded \subseteq Settlement
  BY DEF CastInv, CastTypeOK
<1>1. ASSUME NEW gone, Leave(gone), travelling' = travelling \ gone,
             UNCHANGED <<core, voice, founded, named, pending>>,
             phase' \in {"people", "cast"}
      PROVE  CastInv'
  <2>1. /\ PeopleTypeOK' /\ living' = living \ gone
        /\ \A p \in living' : home'[p] = home[p]
    BY <1>0, <1>1, LeaveKeeps
  <2>2. Rooted' /\ Numbered'
    BY <1>0, <1>1, <2>1 DEF Rooted, Numbered
  <2>. QED
    BY <1>0, <1>1, <2>1, <2>2, CastStands
<1>2. ASSUME NEW N, NEW s \in Settlement, Come(N, s), s \in founded',
             UNCHANGED <<core, voice, named, travelling, pending, phase>>,
             founded \subseteq founded', Numbered', phase = "people"
      PROVE  CastInv'
  <2>1. /\ PeopleTypeOK' /\ living' = living \cup N
        /\ \A p \in living' : home'[p] = IF p \in N THEN s ELSE home[p]
    BY <1>0, <1>2, ComeKeeps
  <2>2. Rooted'
    BY <1>0, <1>2, <2>1, RootsHold
  <2>. QED
    BY <1>0, <1>2, <2>1, <2>2, CastStands
<1>3. ASSUME UNCHANGED <<peopleVars, core, voice, founded, pending>>,
             named' \subseteq founded, travelling' \subseteq living,
             phase' \in {"people", "cast"}
      PROVE  CastInv'
  <2>1. PeopleTypeOK' /\ living' = living /\ Rooted' /\ Numbered'
    BY <1>0, <1>3 DEF peopleVars, PeopleTypeOK, living, Rooted, Numbered
  <2>. QED
    BY <1>0, <1>3, <2>1, CastStands
<1>4. ASSUME NEW D \in SUBSET Person, Die(D)  PROVE CastInv'
  BY <1>1, <1>4 DEF Die
<1>5. ASSUME NEW p \in Person, Bear(p)  PROVE CastInv'
  <2>1. PICK parent \in living : Born(p, parent)
    BY <1>5 DEF Bear
  <2>2. home[parent] \in founded /\ home[parent] \in Settlement
    BY <1>0, <2>1 DEF Rooted
  <2>3. Come({p}, home[parent])
    BY <2>1 DEF Born
  <2>4. phase = "people" /\ UNCHANGED castVars
    BY <1>5 DEF Bear
  <2>5. /\ UNCHANGED <<core, voice, named, travelling, pending, phase>>
        /\ founded' = founded /\ Numbered'
    BY <1>0, <2>4 DEF castVars, Numbered
  <2>. QED
    BY <1>2, <2>2, <2>3, <2>4, <2>5
<1>6. ASSUME NEW p \in Person, Welcome(p)  PROVE CastInv'
  <2>1. Primary \in founded /\ Primary \in Settlement
    BY <1>0 DEF Numbered, Primary
  <2>2. Come({p}, Primary) /\ phase = "people" /\ UNCHANGED castVars
    BY <1>6 DEF Welcome, Arrives
  <2>3. /\ UNCHANGED <<core, voice, named, travelling, pending, phase>>
        /\ founded' = founded /\ Numbered'
    BY <1>0, <2>2 DEF castVars, Numbered
  <2>. QED
    BY <1>2, <2>1, <2>2, <2>3
<1>7. ASSUME NEW p \in Person, Journey(p)  PROVE CastInv'
  <2>1. travelling' \subseteq living
    BY <1>0, <1>7 DEF Journey
  <2>. QED
    BY <1>0, <1>3, <1>7, <2>1 DEF Journey
<1>8. ASSUME NEW p \in Person, NEW s \in Settlement, Migrate(p, s)  PROVE CastInv'
  <2>1. p \in living /\ s \in founded /\ Settle({p}, s) /\ travelling' = travelling \cup {p}
        /\ UNCHANGED <<core, voice, founded, named, pending, phase>> /\ phase = "people"
    BY <1>0, <1>8 DEF Migrate, Depart
  <2>2. /\ PeopleTypeOK' /\ living' = living
        /\ \A q \in living : home'[q] = IF q \in {p} THEN s ELSE home[q]
    BY <1>0, <2>1, SettleKeeps
  <2>3. Rooted' /\ Numbered'
    BY <1>0, <2>1, <2>2 DEF Rooted, Numbered
  <2>. QED
    BY <1>0, <2>1, <2>2, <2>3, CastStands
<1>9. ASSUME NEW P \in SUBSET Person, FoundSuccessor(P)  PROVE CastInv'
  <2>. DEFINE s == Max(founded) + 1
  <2>1. /\ Succeed(P, s) /\ founded' = founded \cup {s} /\ phase = "people"
        /\ UNCHANGED <<core, voice, named, travelling, pending, phase>>
        /\ Cardinality(founded) < MaxSettlements
    BY <1>9 DEF FoundSuccessor
  <2>2. s \in Settlement /\ Numbered'
    BY <1>0, <2>1, NextSettlement
  <2>3. Come(P, s)
    BY <2>1 DEF Succeed
  <2>. HIDE DEF s
  <2>. QED
    BY <1>2, <2>1, <2>2, <2>3
<1>10. ASSUME NEW s \in Settlement, NameSettlement(s)  PROVE CastInv'
  BY <1>0, <1>3, <1>10 DEF NameSettlement
<1>11. ASSUME ClosePeople  PROVE CastInv'
  <2>1. phase' = "cast" /\ UNCHANGED <<core, voice, founded, named, pending>>
    BY <1>11 DEF ClosePeople
  <2>2. \/ \E F : Leave(F) /\ travelling' = travelling \ F
        \/ UNCHANGED <<peopleVars, travelling>>
    BY <1>11 DEF ClosePeople
  <2>3. CASE \E F : Leave(F) /\ travelling' = travelling \ F
    BY <1>1, <2>1, <2>3
  <2>4. CASE UNCHANGED <<peopleVars, travelling>>
    BY <1>0, <1>3, <2>1, <2>4
  <2>. QED
    BY <2>2, <2>3, <2>4
<1>. QED
  BY <1>4, <1>5, <1>6, <1>7, <1>8, <1>9, <1>10, <1>11
\* The upkeep of the cast and the monthly swap.
LEMMA UpkeepHolds ==
  ASSUME CastInv, NEW w \in BOOLEAN, MaintainCast(w)
  PROVE  CastInv' /\ core \cap living \subseteq core' /\ living' = living
<1>1. UNCHANGED <<peopleVars, founded, named, travelling, pending>> /\ phase' = "rotation"
      /\ core' \in Casts(living, CastTarget(Cardinality(living)))
      /\ voice' \in Voices(core', living, w)
  BY DEF MaintainCast
<1>2. /\ core' \subseteq living /\ core \cap living \subseteq core'
      /\ Cardinality(core') \in CastTarget(Cardinality(living))..CastSize
  BY <1>1, UpkeepFills
<1>3. voice' \subseteq living /\ Cardinality(voice') \in {0, 2}
  BY <1>1, <1>2, VoiceFacts
<1>4. PeopleTypeOK' /\ living' = living /\ Rooted' /\ Numbered' /\ living \subseteq Person
  BY <1>1 DEF peopleVars, CastInv, CastTypeOK, PeopleTypeOK, living, Rooted, Numbered
<1>5. CastTypeOK'
  BY <1>1, <1>2, <1>3, <1>4 DEF CastInv, CastTypeOK
<1>6. CastServes'
  BY <1>1, <1>2, <1>3, <1>4 DEF CastServes
<1>7. Cardinality(core') <= CastSize
  BY <1>2, <1>4, TargetFacts, PeopleFinite, CastAssumption
<1>. QED
  BY <1>2, <1>4, <1>5, <1>6, <1>7 DEF CastInv

\* In the swap one goes and one comes.
LEMMA SwapHolds ==
  ASSUME CastInv, Rotate
  PROVE  CastInv' /\ Cardinality(core') = Cardinality(core) /\ living' = living
<1>1. /\ UNCHANGED <<peopleVars, voice, founded, named, travelling, pending>>
      /\ phase = "rotation" /\ phase' = "fission"
      /\ \/ \E out \in core, in \in living \ core : core' = (core \ {out}) \cup {in}
         \/ core' = core
  BY DEF Rotate
<1>2. PeopleTypeOK' /\ living' = living /\ Rooted' /\ Numbered' /\ living \subseteq Person
  BY <1>1 DEF peopleVars, CastInv, CastTypeOK, PeopleTypeOK, living, Rooted, Numbered
<1>3. core \subseteq living /\ voice \subseteq living
      /\ Cardinality(core) \in CastTarget(Cardinality(living))..CastSize
  BY <1>1 DEF CastInv, CastServes
<1>4. core' \subseteq living /\ Cardinality(core') = Cardinality(core)
  <2>1. CASE core' = core
    BY <1>3, <2>1
  <2>2. ASSUME NEW out \in core, NEW in \in living \ core, core' = (core \ {out}) \cup {in}
        PROVE  core' \subseteq living /\ Cardinality(core') = Cardinality(core)
    <3>1. core \in SUBSET Person /\ core \ {out} \in SUBSET Person
      BY <1>2, <1>3
    <3>2. IsFiniteSet(core) /\ Cardinality(core) \in Nat /\ IsFiniteSet(core \ {out})
      BY <3>1, PeopleFinite
    <3>3. Cardinality(core \ {out}) = Cardinality(core) - 1
      BY <3>2, FS_RemoveElement
    <3>4. Cardinality((core \ {out}) \cup {in}) = Cardinality(core \ {out}) + 1
      BY <3>2, FS_AddElement
    <3>. QED
      BY <1>3, <2>2, <3>2, <3>3, <3>4
  <2>. QED
    BY <1>1, <2>1, <2>2
<1>5. CastTypeOK'
  BY <1>1, <1>2, <1>4 DEF CastInv, CastTypeOK
<1>6. CastServes'
  BY <1>1, <1>2, <1>3, <1>4 DEF CastServes
<1>7. Cardinality(core') <= CastSize
  BY <1>4 DEF CastInv
<1>. QED
  BY <1>2, <1>4, <1>5, <1>6, <1>7 DEF CastInv

\* The decisions: asked for in the tick, answered while the loop waits.
LEMMA DecisionsHold ==
  ASSUME CastInv,
         \/ ScheduleFission \/ ScheduleMigration
         \/ \E d \in pending : Answer(d)
         \/ Restart \/ NextTick
  PROVE  CastInv'
<1>0. /\ PeopleTypeOK /\ Numbered /\ Rooted /\ named \subseteq founded
      /\ travelling \subseteq living /\ pending \subseteq Decision
      /\ founded \subseteq Settlement /\ living \subseteq Person
  BY DEF CastInv, CastTypeOK, PeopleTypeOK
<1>1. ASSUME UNCHANGED <<peopleVars, core, voice, founded, named, travelling>>,
             pending' \subseteq Decision,
             \A d \in pending' : d.from \in founded /\ d.to \in founded,
             \/ phase' = "people"
             \/ /\ phase \in {"rotation", "fission", "migration", "wait"}
                /\ phase' \in {"fission", "migration", "wait"}
      PROVE  CastInv'
  <2>1. PeopleTypeOK' /\ living' = living /\ Rooted' /\ Numbered'
    BY <1>0, <1>1 DEF peopleVars, PeopleTypeOK, living, Rooted, Numbered
  <2>. QED
    BY <1>0, <1>1, <2>1, CastStands
<1>2. ASSUME NEW d, d.from \in founded, d.to \in founded,
             \/ ApplyMigration(d)
             \/ ApplyFission(d)
             \/ UNCHANGED <<peopleVars, travelling, founded>>,
             UNCHANGED <<core, voice, named>>, pending' \subseteq pending,
             phase \in {"fission", "wait"}, phase' \in {"migration", "wait"}
      PROVE  CastInv'
  <2>1. /\ PeopleTypeOK' /\ Numbered' /\ living' = living
        /\ founded \subseteq founded' /\ travelling' \subseteq living'
        /\ \A p \in living' : home'[p] \in founded'
    BY <1>2, AppliedKeeps
  <2>2. Rooted'
    BY <1>0, <1>2, <2>1, RootsHold
  <2>. QED
    BY <1>0, <1>2, <2>1, <2>2, CastStands
<1>3. CASE ScheduleFission
  <2>1. phase = "fission" /\ phase' = "migration" /\ UNCHANGED <<core, voice, named>>
    BY <1>3 DEF ScheduleFission
  <2>2. CASE UNCHANGED <<peopleVars, travelling, founded, pending>>
    BY <1>0, <1>1, <2>1, <2>2 DEF Rooted
  <2>3. CASE ~ UNCHANGED <<peopleVars, travelling, founded, pending>>
    <3>1. PICK s \in named, leader \in living :
             LET d == [kind |-> "fission", who |-> leader, from |-> s, to |-> s]
             IN \/ Ask(d) /\ UNCHANGED <<peopleVars, travelling, founded>>
                \/ ApplyFission(d) /\ UNCHANGED pending
      BY <1>3, <2>3 DEF ScheduleFission
    <3>. DEFINE d == [kind |-> "fission", who |-> leader, from |-> s, to |-> s]
    <3>2. d \in Decision /\ d.from \in founded /\ d.to \in founded
      BY <1>0 DEF Decision
    <3>3. CASE Ask(d) /\ UNCHANGED <<peopleVars, travelling, founded>>
      <4>1. pending' = pending \cup {d}
        BY <3>3 DEF Ask
      <4>2. /\ pending' \subseteq Decision
            /\ \A e \in pending' : e.from \in founded /\ e.to \in founded
        <5>. HIDE DEF d
        <5>. QED
          BY <1>0, <3>2, <4>1 DEF Rooted
      <4>. QED
        BY <1>1, <2>1, <3>3, <4>2
    <3>4. CASE ApplyFission(d) /\ UNCHANGED pending
      <4>. HIDE DEF d
      <4>. QED
        BY <1>2, <2>1, <3>2, <3>4
    <3>. QED
      BY <3>1, <3>3, <3>4
  <2>. QED
    BY <2>2, <2>3
<1>4. CASE ScheduleMigration
  <2>1. /\ phase = "migration" /\ phase' = "wait"
        /\ UNCHANGED <<peopleVars, core, voice, founded, named, travelling>>
    BY <1>4 DEF ScheduleMigration
  <2>2. CASE pending' = pending
    BY <1>0, <1>1, <2>1, <2>2 DEF Rooted
  <2>3. CASE pending' # pending
    <3>1. PICK p \in (core \cap living) \ travelling, s \in named :
             /\ home[p] \in named /\ s # home[p]
             /\ Ask([kind |-> "migration", who |-> p, from |-> home[p], to |-> s])
      BY <1>4, <2>3 DEF ScheduleMigration
    <3>. DEFINE d == [kind |-> "migration", who |-> p, from |-> home[p], to |-> s]
    <3>2. d \in Decision /\ d.from \in founded /\ d.to \in founded
      BY <1>0, <3>1 DEF Decision
    <3>3. pending' = pending \cup {d}
      BY <3>1 DEF Ask
    <3>. HIDE DEF d
    <3>4. /\ pending' \subseteq Decision
          /\ \A e \in pending' : e.from \in founded /\ e.to \in founded
      BY <1>0, <3>2, <3>3 DEF Rooted
    <3>. QED
      BY <1>1, <2>1, <3>4
  <2>. QED
    BY <2>2, <2>3
<1>5. ASSUME NEW d \in pending, Answer(d)  PROVE CastInv'
  <2>1. /\ phase = "wait" /\ pending' = pending \ {d}
        /\ UNCHANGED <<core, voice, named, phase>>
        /\ \/ ApplyMigration(d)
           \/ ApplyFission(d)
           \/ UNCHANGED <<peopleVars, travelling, founded>>
    BY <1>5 DEF Answer
  <2>2. d.from \in founded /\ d.to \in founded
    BY <1>0 DEF Rooted
  <2>. QED
    BY <1>2, <2>1, <2>2
<1>6. CASE Restart
  BY <1>1, <1>6 DEF Restart
<1>7. CASE NextTick
  BY <1>0, <1>1, <1>7 DEF NextTick, Rooted
<1>. QED
  BY <1>3, <1>4, <1>5, <1>6, <1>7

\* Every step keeps the invariant.
LEMMA StepHolds == CastInv /\ [Next]_vars => CastInv'
<1>. SUFFICES ASSUME CastInv, [Next]_vars  PROVE CastInv'
  OBVIOUS
<1>1. CASE UNCHANGED vars
  <2>1. living' = living
    BY <1>1 DEF vars, living
  <2>. QED
    BY <1>1, <2>1 DEF vars, CastInv, CastTypeOK, PeopleTypeOK, Numbered, Rooted, CastServes
<1>2. CASE Next
  BY <1>2, PeopleHold, UpkeepHolds, SwapHolds, DecisionsHold DEF Next
<1>. QED
  BY <1>1, <1>2

\* The inductive invariant holds for good.
LEMMA AlwaysCastInv == Spec => []CastInv
  BY InitHolds, StepHolds, PTL DEF Spec

-----------------------------------------------------------------------------
(* The theorems.                                                           *)

\* The types: who lives is known, the voice is nobody or two, nobody travels who
\* is gone, and every settlement that has a name was founded.
THEOREM TypeCorrect == Spec => []CastTypeOK
  BY AlwaysCastInv, PTL DEF CastInv

\* After the upkeep of each tick the cast lives, has the size the population
\* supports and no more than configured, and the voice lives (maintain_core_cast,
\* maintain_voice_pair, _maybe_rotate_core_cast and the jobs after them).
THEOREM CastAlwaysServes == Spec => []CastServes
  BY AlwaysCastInv, PTL DEF CastInv

\* No district takes a protagonist, and a living one gives up the place only in
\* the monthly swap, one for one (_maybe_collectivize_excess_population and
\* maintain_core_cast).
THEOREM CastStaysSticky == Spec => CastIsSticky
<1>. DEFINE Sticky ==
       /\ phase = "people" /\ phase' = "cast" => core \cap living \subseteq living'
       /\ \A p \in core \cap living' :
            p \notin core' => /\ phase = "rotation"
                              /\ Cardinality(core') = Cardinality(core)
<1>1. ASSUME CastInv, [Next]_vars  PROVE [Sticky]_vars
  <2>1. CASE UNCHANGED vars
    BY <2>1
  <2>2. ASSUME NEW w \in BOOLEAN, MaintainCast(w)  PROVE Sticky
    BY <1>1, <2>2, UpkeepHolds DEF MaintainCast
  <2>3. CASE Rotate
    BY <1>1, <2>3, SwapHolds DEF Rotate
  <2>4. CASE ClosePeople
    <3>1. core' = core
      BY <2>4 DEF ClosePeople
    <3>2. CASE UNCHANGED <<peopleVars, travelling>>
      BY <3>1, <3>2 DEF peopleVars, living
    <3>3. ASSUME NEW F, NEW mayor, Folds(F, Exempt(mayor)), Leave(F)
          PROVE  core \cap living \subseteq living'
      <4>1. F \cap core = {}
        BY <3>3 DEF Folds, Exempt
      <4>2. living' = living \ F
        BY <3>3 DEF Leave, living
      <4>. QED
        BY <4>1, <4>2
    <3>. QED
      BY <2>4, <3>1, <3>2, <3>3 DEF ClosePeople
  <2>5. CASE /\ Next /\ ~ ClosePeople /\ ~ Rotate /\ ~ \E w \in BOOLEAN : MaintainCast(w)
    <3>1. core' = core /\ ~ (phase = "people" /\ phase' = "cast")
      BY <2>5 DEF Next, Die, Bear, Welcome, Journey, Migrate, FoundSuccessor,
         NameSettlement, castVars, ScheduleFission, ScheduleMigration, Answer, Restart, NextTick
    <3>. QED
      BY <3>1
  <2>. QED
    BY <1>1, <2>1, <2>2, <2>3, <2>4, <2>5
<1>. QED
  BY <1>1, AlwaysCastInv, PTL DEF Spec, CastIsSticky

\* A party leaves only where enough people stay, whatever happened since it was
\* decided, nobody else moves in that step, and the settlements stay within their
\* limit (fission_party and the apply of _maybe_schedule_fission).
THEOREM SplitsAreSustainable == Spec => SplitIsSustainable
<1>. DEFINE Sustainable ==
       founded' # founded /\ living # {} =>
         /\ Cardinality(founded') <= MaxSettlements
         /\ \E s \in founded :
              /\ \A t \in founded \ {s} : {p \in living' : home'[p] = t} = At(t)
              /\ Cardinality({p \in living' : home'[p] = s}) >= MinRemaining
<1>1. ASSUME CastInv, [Next]_vars  PROVE [Sustainable]_vars
  <2>1. CASE UNCHANGED vars
    BY <2>1
  <2>2. ASSUME NEW d, d.from \in founded, ApplyFission(d)  PROVE Sustainable
    <3>. DEFINE new == Max(founded) + 1
    <3>1. CASE founded' = founded
      BY <3>1
    <3>2. CASE founded' # founded
      <4>1. RoomForDaughter /\ \E P \in Parties(d.who, d.from) :
               /\ Settle(P, new)
               /\ travelling' = travelling \cup P
               /\ founded' = founded \cup {new}
        BY <2>2, <3>2 DEF ApplyFission
      <4>2. PICK P \in Parties(d.who, d.from) :
               /\ Settle(P, new)
               /\ travelling' = travelling \cup P
               /\ founded' = founded \cup {new}
        BY <4>1
      <4>3. /\ Cardinality(founded') <= MaxSettlements
            /\ \A t \in founded \ {d.from} : {p \in living' : home'[p] = t} = At(t)
            /\ Cardinality({p \in living' : home'[p] = d.from}) >= MinRemaining
        BY <1>1, <2>2, <4>1, <4>2, FissionKeeps
      <4>. QED
        BY <2>2, <4>3
    <3>. QED
      BY <3>1, <3>2
  <2>3. CASE ScheduleFission
    <3>1. CASE founded' = founded
      BY <3>1
    <3>2. CASE founded' # founded
      <4>1. PICK s \in named, leader \in living :
               ApplyFission([kind |-> "fission", who |-> leader, from |-> s, to |-> s])
        BY <2>3, <3>2 DEF ScheduleFission
      <4>. DEFINE d == [kind |-> "fission", who |-> leader, from |-> s, to |-> s]
      <4>2. d.from \in founded /\ ApplyFission(d)
        BY <1>1, <4>1 DEF CastInv, CastTypeOK
      <4>. HIDE DEF d, Sustainable
      <4>. QED
        BY <2>2, <4>2
    <3>. QED
      BY <3>1, <3>2
  <2>4. ASSUME NEW d \in pending, Answer(d)  PROVE Sustainable
    <3>1. d.from \in founded
      BY <1>1 DEF CastInv, Rooted
    <3>2. CASE ApplyFission(d)
      BY <2>2, <3>1, <3>2
    <3>3. CASE ~ ApplyFission(d)
      <4>1. founded' = founded
        BY <2>4, <3>3 DEF Answer, ApplyMigration
      <4>. QED
        BY <4>1
    <3>. QED
      BY <3>2, <3>3
  <2>5. ASSUME NEW P \in SUBSET Person, FoundSuccessor(P)  PROVE Sustainable
    BY <2>5 DEF FoundSuccessor, Succeed
  <2>6. CASE /\ Next /\ ~ ScheduleFission /\ ~ \E d \in pending : Answer(d)
             /\ ~ \E P \in SUBSET Person : FoundSuccessor(P)
    <3>1. founded' = founded
      BY <2>6 DEF Next, Die, Bear, Welcome, Journey, Migrate, ClosePeople,
         NameSettlement, castVars, MaintainCast, Rotate, ScheduleMigration, Restart, NextTick
    <3>. QED
      BY <3>1
  <2>. HIDE DEF Sustainable
  <2>. QED
    BY <1>1, <2>1, <2>3, <2>4, <2>5, <2>6
<1>. QED
  BY <1>1, AlwaysCastInv, PTL DEF Spec, SplitIsSustainable

-----------------------------------------------------------------------------
(* The talk (Dialogue).                                                    *)

\* Calls and threads are of people, ages and entries of the books are bounded.
TalkTyped ==
  /\ thread \subseteq Person
  /\ DOMAIN books \subseteq PairOf(Person) /\ \A pair \in DOMAIN books : books[pair] \in 0..Horizon
  /\ sinceVoice \in 0..VoiceCooldown
  /\ calls \subseteq [pair : PairOf(Person), age : Age]
  /\ IsFiniteSet(calls) /\ Cardinality(calls) <= MaxCalls
  /\ results \subseteq [pair : PairOf(Person), age : Age, of : {"voice", "crowd"}]
  /\ DOMAIN heard \subseteq PairOf(Person) /\ \A pair \in DOMAIN heard : heard[pair] \in 0..(Cooldown - 1)

\* The last exchange of the pair is long enough ago for another one to count.
Rested(pair) == pair \in DOMAIN heard => heard[pair] + 1 >= Cooldown

\* The books of the living say no more than how long ago their last exchange
\* took effect, unless a cooldown has passed since.
BooksKeepPace ==
  \A pair \in DOMAIN heard : pair \subseteq living =>
    \/ pair \in DOMAIN books /\ books[pair] <= heard[pair] + 1
    \/ Rested(pair)

\* What was chosen in this tick and waits for the next one is in the books,
\* comes after a cooldown, and is not the voice's.
WaitingIsRested ==
  /\ phase # "wait" => results = {}
  /\ \A r \in results : r.of = "crowd" =>
       /\ r.pair \in DOMAIN books /\ books[r.pair] = 0
       /\ Rested(r.pair) /\ r.pair # voice

TalkInv == CastInv /\ TalkTyped /\ BooksKeepPace /\ WaitingIsRested

\* Pairs are of two people, and everybody's pairs are among Person's.
LEMMA PairsOfPeople ==
  ASSUME NEW S \in SUBSET Person, NEW pair \in PairOf(S)
  PROVE  pair \in PairOf(Person) /\ pair \subseteq S
  BY DEF PairOf, kSubset

\* A voice that is not empty is a pair.
LEMMA VoiceIsAPair ==
  ASSUME CastInv, voice # {}
  PROVE  voice \in PairOf(Person)
<1>1. voice \in SUBSET Person /\ Cardinality(voice) \in {0, 2}
  BY DEF CastInv, CastTypeOK
<1>2. Cardinality(voice) # 0
  BY <1>1, PeopleFinite, FS_EmptySet
<1>. QED
  BY <1>1, <1>2 DEF PairOf, kSubset

\* A clock that stops at its bound.
LEMMA LaterFacts ==
  ASSUME NEW n \in Nat, NEW bound \in Nat
  PROVE  /\ Later(n, bound) \in 0..bound /\ Later(n, bound) <= n + 1
  BY MinOfTwo DEF Later

LEMMA TalkBegins ==
  ASSUME DialogueAssumption, TalkInit
  PROVE  TalkInv
<1>1. CastInv
  BY InitHolds DEF TalkInit
<1>2. /\ thread = {} /\ DOMAIN books = {} /\ sinceVoice = VoiceCooldown
      /\ calls = {} /\ results = {} /\ DOMAIN heard = {}
  BY DEF TalkInit
<1>3. TalkTyped
  BY <1>2, FS_EmptySet DEF TalkTyped, DialogueAssumption
<1>. QED
  BY <1>1, <1>2, <1>3 DEF TalkInv, BooksKeepPace, WaitingIsRested

\* The cast and the voice are kept by the talk's own steps as by the others.
LEMMA TalkKeepsCast ==
  ASSUME CastInv, TalkNext
  PROVE  CastInv' /\ living' \subseteq living
<1>0. living \subseteq Person /\ PeopleTypeOK
  BY DEF CastInv, CastTypeOK, PeopleTypeOK
<1>1. CASE PeopleMove
  <2>1. \/ \E D \in SUBSET Person : Die(D)
        \/ ClosePeople
    BY <1>0, <1>1 DEF PeopleMove
  <2>2. CastInv'
    BY <2>1, PeopleHold
  <2>3. (\E gone : Leave(gone)) \/ UNCHANGED peopleVars
    BY <2>1 DEF Die, ClosePeople
  <2>4. living' \subseteq living
    BY <1>0, <2>3, LeaveKeeps DEF peopleVars, living
  <2>. QED
    BY <2>2, <2>4
<1>2. CASE \E w \in BOOLEAN : MaintainVoice(w)
  BY <1>2, UpkeepHolds DEF MaintainVoice
<1>3. CASE RotateCast
  BY <1>3, SwapHolds DEF RotateCast
<1>4. CASE BeginTick
  <2>1. NextTick
    BY <1>4 DEF BeginTick
  <2>2. living' = living
    BY <2>1 DEF NextTick, peopleVars, living
  <2>. QED
    BY <2>1, <2>2, DecisionsHold
<1>5. CASE Talk \/ (\E c \in calls : AnswerCall(c)) \/ StopAndStart
  <2>1. /\ UNCHANGED <<peopleVars, core, voice, founded, named, travelling, pending>>
        /\ phase \in {"fission", "wait"} /\ phase' = "wait"
    BY <1>5 DEF Talk, AnswerCall, StopAndStart, castVars
  <2>2. PeopleTypeOK' /\ living' = living /\ Rooted' /\ Numbered'
    BY <2>1 DEF peopleVars, CastInv, CastTypeOK, PeopleTypeOK, living, Rooted, Numbered
  <2>3. named' \subseteq founded' /\ travelling' \subseteq living' /\ pending' \subseteq Decision
    BY <2>1, <2>2 DEF CastInv, CastTypeOK
  <2>4. CastInv'
    BY <2>1, <2>2, <2>3, CastStands
  <2>. QED
    BY <2>2, <2>4
<1>. QED
  BY <1>1, <1>2, <1>3, <1>4, <1>5 DEF TalkNext

\* The people's part of a tick, the upkeep and the swap leave books and results
\* alone; whoever dies leaves the books' pace to the others.
LEMMA OtherStepsKeepTalk ==
  ASSUME DialogueAssumption, TalkInv,
         PeopleMove \/ (\E w \in BOOLEAN : MaintainVoice(w)) \/ RotateCast
  PROVE  TalkInv'
<1>1. CastInv' /\ living' \subseteq living
  BY TalkKeepsCast DEF TalkInv, TalkNext
<1>2. /\ UNCHANGED <<books, sinceVoice, calls, results, heard>>
      /\ thread' \subseteq thread
      /\ phase # "wait"
  BY DEF PeopleMove, Die, ClosePeople, MaintainVoice, MaintainCast, RotateCast, Rotate, talkVars
<1>3. results' = {}
  BY <1>2 DEF TalkInv, WaitingIsRested
<1>4. TalkTyped'
  BY <1>2 DEF TalkInv, TalkTyped
<1>5. BooksKeepPace'
  BY <1>1, <1>2 DEF TalkInv, BooksKeepPace, Rested
<1>. QED
  BY <1>1, <1>3, <1>4, <1>5 DEF TalkInv, WaitingIsRested

\* Both jobs of a tick: whoever is chosen has rested, and is not the voice.
LEMMA TalkStep ==
  ASSUME DialogueAssumption, TalkInv, Talk
  PROVE  TalkInv'
<1>0. CastInv' /\ living' \subseteq living
  BY TalkKeepsCast DEF TalkInv, TalkNext
<1>. DEFINE crowd(chosen) == {[pair |-> pair, age |-> 0, of |-> "crowd"] : pair \in chosen}
            byRule == [pair |-> voice, age |-> 0, of |-> "voice"]
            asked == [pair |-> voice, age |-> 0]
<1>1. PICK chosen \in SUBSET Candidates :
        /\ books' = [pair \in Kept \cup chosen |-> IF pair \in chosen THEN 0 ELSE books[pair]]
        /\ \/ /\ Speak /\ Cardinality(calls) < MaxCalls
              /\ calls' = calls \cup {asked}
              /\ results' = results \cup crowd(chosen)
           \/ Speak /\ results' = results \cup crowd(chosen) \cup {byRule} /\ UNCHANGED calls
           \/ results' = results \cup crowd(chosen) /\ UNCHANGED <<calls, sinceVoice>>
  BY DEF Talk
<1>2. /\ phase = "fission" /\ phase' = "wait" /\ results = {}
      /\ UNCHANGED <<peopleVars, voice, thread, heard>> /\ living' = living
  BY DEF Talk, TalkInv, WaitingIsRested, peopleVars, living
<1>3. /\ chosen \subseteq PairOf(Person) /\ voice \notin chosen
      /\ \A pair \in chosen : pair \subseteq living /\ (pair \in Kept => books[pair] >= Cooldown)
  <2>1. living \in SUBSET Person
    BY DEF TalkInv, CastInv, CastTypeOK, PeopleTypeOK
  <2>. QED
    BY <2>1, PairsOfPeople DEF Candidates
<1>4. /\ Cooldown \in Nat \ {0} /\ Horizon \in Nat /\ Horizon >= Cooldown
      /\ VoiceCooldown \in Nat /\ Stale \in Nat /\ MaxCalls \in Nat /\ 0 \in Age
  BY DEF DialogueAssumption, Age
<1>5. /\ \A pair \in DOMAIN books : books[pair] \in 0..Horizon /\ pair \in PairOf(Person)
      /\ \A pair \in DOMAIN heard : heard[pair] \in 0..(Cooldown - 1)
      /\ IsFiniteSet(calls) /\ Cardinality(calls) <= MaxCalls /\ Cardinality(calls) \in Nat
      /\ sinceVoice \in 0..VoiceCooldown
  BY FS_CardinalityType DEF TalkInv, TalkTyped
<1>6. Speak => voice \in PairOf(Person) /\ sinceVoice' = 0
  BY VoiceIsAPair DEF TalkInv, Speak
<1>7. \A pair \in Kept : pair \in DOMAIN books /\ books[pair] \in 0..Horizon
  BY <1>5 DEF Kept
<1>8. /\ DOMAIN books' = Kept \cup chosen
      /\ \A pair \in chosen : books'[pair] = 0
      /\ \A pair \in Kept \ chosen : books'[pair] = books[pair]
  BY <1>1
\* Whoever is chosen has rested.
<1>9. ASSUME NEW pair \in chosen  PROVE Rested(pair)
  <2>. SUFFICES ASSUME pair \in DOMAIN heard, ~ Rested(pair)  PROVE FALSE
    BY DEF Rested
  <2>1. pair \subseteq living /\ (pair \in Kept => books[pair] >= Cooldown)
    BY <1>3
  <2>2. pair \in DOMAIN books /\ books[pair] <= heard[pair] + 1 /\ heard[pair] + 1 < Cooldown
    BY <1>4, <1>5, <2>1 DEF TalkInv, BooksKeepPace, Rested
  <2>3. pair \in Kept
    BY <1>4, <1>5, <2>1, <2>2 DEF Kept
  <2>. QED
    BY <1>4, <1>5, <2>1, <2>2, <2>3
<1>10. /\ calls' \subseteq [pair : PairOf(Person), age : Age]
       /\ IsFiniteSet(calls') /\ Cardinality(calls') <= MaxCalls
  <2>1. CASE calls' = calls
    BY <1>5, <2>1 DEF TalkInv, TalkTyped
  <2>2. CASE calls' # calls
    <3>1. calls' = calls \cup {asked} /\ Speak /\ Cardinality(calls) < MaxCalls
      BY <1>1, <2>2
    <3>2. asked \in [pair : PairOf(Person), age : Age]
      BY <1>4, <1>6, <3>1
    <3>. HIDE DEF asked
    <3>3. IsFiniteSet(calls \cup {asked}) /\ Cardinality(calls \cup {asked}) <= MaxCalls
      BY <1>4, <1>5, <3>1, FS_AddElement
    <3>. QED
      BY <3>1, <3>2, <3>3 DEF TalkInv, TalkTyped
  <2>. QED
    BY <2>1, <2>2
<1>11. \A r \in results' : \/ r.of = "crowd" /\ r.pair \in chosen /\ r.age = 0
                           \/ r.of = "voice"
  BY <1>1, <1>2
<1>12. results' \subseteq [pair : PairOf(Person), age : Age, of : {"voice", "crowd"}]
  <2>1. crowd(chosen) \subseteq [pair : PairOf(Person), age : Age, of : {"voice", "crowd"}]
    BY <1>3, <1>4
  <2>2. Speak => byRule \in [pair : PairOf(Person), age : Age, of : {"voice", "crowd"}]
    BY <1>4, <1>6
  <2>. HIDE DEF crowd, byRule
  <2>. QED
    BY <1>1, <1>2, <2>1, <2>2
<1>13. sinceVoice' \in 0..VoiceCooldown
  BY <1>1, <1>4, <1>5, <1>6
<1>14. TalkTyped'
  <2>1. DOMAIN books' \subseteq PairOf(Person) /\ \A pair \in DOMAIN books' : books'[pair] \in 0..Horizon
    BY <1>3, <1>4, <1>5, <1>7, <1>8
  <2>. QED
    BY <1>2, <1>10, <1>12, <1>13, <2>1 DEF TalkInv, TalkTyped
<1>15. BooksKeepPace'
  <2>. SUFFICES ASSUME NEW pair \in DOMAIN heard, pair \subseteq living, ~ Rested(pair)
                PROVE  pair \in DOMAIN books' /\ books'[pair] <= heard[pair] + 1
    BY <1>2 DEF BooksKeepPace, Rested
  <2>1. pair \in DOMAIN books /\ books[pair] <= heard[pair] + 1 /\ heard[pair] + 1 < Cooldown
    BY <1>4, <1>5 DEF TalkInv, BooksKeepPace, Rested
  <2>2. pair \in Kept
    BY <1>4, <1>5, <2>1 DEF Kept
  <2>. QED
    BY <1>8, <1>9, <2>1, <2>2
<1>16. WaitingIsRested'
  <2>. SUFFICES ASSUME NEW r \in results', r.of = "crowd"
                PROVE  /\ r.pair \in DOMAIN books' /\ books'[r.pair] = 0
                       /\ Rested(r.pair)' /\ r.pair # voice'
    BY <1>2 DEF WaitingIsRested
  <2>1. r.pair \in chosen
    BY <1>11
  <2>2. Rested(r.pair)
    BY <1>9, <2>1
  <2>. QED
    BY <1>2, <1>3, <1>8, <2>1, <2>2 DEF Rested
<1>. QED
  BY <1>0, <1>14, <1>15, <1>16 DEF TalkInv

\* Between two ticks answers come, or calls and results are lost.
LEMMA WaitStep ==
  ASSUME DialogueAssumption, TalkInv, (\E c \in calls : AnswerCall(c)) \/ StopAndStart
  PROVE  TalkInv'
<1>0. CastInv'
  BY TalkKeepsCast DEF TalkInv, TalkNext
<1>1. /\ phase = "wait" /\ phase' = "wait" /\ voice' = voice
      /\ UNCHANGED <<books, sinceVoice, heard>> /\ living' = living
      /\ calls' \subseteq calls
  BY DEF AnswerCall, StopAndStart, castVars, peopleVars, living
<1>2. /\ thread' \subseteq Person
      /\ results' \subseteq [pair : PairOf(Person), age : Age, of : {"voice", "crowd"}]
      /\ \A r \in results' : r \in results \/ r.of = "voice"
  <2>1. CASE StopAndStart
    BY <2>1 DEF StopAndStart, TalkInv, TalkTyped
  <2>2. ASSUME NEW c \in calls, AnswerCall(c)
        PROVE  /\ thread' \subseteq Person
               /\ results' \subseteq [pair : PairOf(Person), age : Age, of : {"voice", "crowd"}]
               /\ \A r \in results' : r \in results \/ r.of = "voice"
    <3>1. c.pair \in PairOf(Person) /\ c.age \in Age
      BY DEF TalkInv, TalkTyped
    <3>2. c.pair \subseteq Person
      BY <3>1, PairsOfPeople
    <3>. QED
      BY <2>2, <3>1, <3>2 DEF AnswerCall, TalkInv, TalkTyped
  <2>. QED
    BY <2>1, <2>2
<1>3. IsFiniteSet(calls') /\ Cardinality(calls') <= MaxCalls
  <2>1. IsFiniteSet(calls') /\ Cardinality(calls') <= Cardinality(calls)
        /\ Cardinality(calls) \in Nat /\ Cardinality(calls') \in Nat
    BY <1>1, FS_Subset, FS_CardinalityType DEF TalkInv, TalkTyped
  <2>. QED
    BY <2>1 DEF TalkInv, TalkTyped, DialogueAssumption
<1>4. TalkTyped'
  BY <1>1, <1>2, <1>3 DEF TalkInv, TalkTyped
<1>5. BooksKeepPace'
  BY <1>1 DEF TalkInv, BooksKeepPace, Rested
<1>6. WaitingIsRested'
  BY <1>1, <1>2 DEF TalkInv, WaitingIsRested, Rested
<1>. QED
  BY <1>0, <1>4, <1>5, <1>6 DEF TalkInv

\* The exchanges take effect and every clock moves on.
LEMMA BeginTickStep ==
  ASSUME DialogueAssumption, TalkInv, BeginTick
  PROVE  TalkInv' /\ PaceIsKept
<1>0. CastInv' /\ living' \subseteq living
  BY TalkKeepsCast DEF TalkInv, TalkNext
<1>. DEFINE now == {r.pair : r \in {e \in Effective : e.of = "crowd"}}
            recent == {pair \in DOMAIN heard : heard[pair] + 1 < Cooldown}
            older(c) == [pair |-> c.pair, age |-> Later(c.age, Stale + 1)]
<1>1. /\ phase = "wait" /\ phase' = "people" /\ results' = {} /\ thread' = thread
      /\ heard' = [pair \in now \cup recent |-> IF pair \in now THEN 0 ELSE heard[pair] + 1]
      /\ books' = [pair \in DOMAIN books |-> Later(books[pair], Horizon)]
      /\ sinceVoice' = Later(sinceVoice, VoiceCooldown)
      /\ calls' = {older(c) : c \in calls}
  BY DEF BeginTick, NextTick
<1>2. /\ Cooldown \in Nat \ {0} /\ Horizon \in Nat /\ Horizon >= Cooldown
      /\ VoiceCooldown \in Nat /\ Stale \in Nat /\ MaxCalls \in Nat
  BY DEF DialogueAssumption
<1>3. /\ \A pair \in DOMAIN books : books[pair] \in 0..Horizon /\ pair \in PairOf(Person)
      /\ \A pair \in DOMAIN heard : heard[pair] \in 0..(Cooldown - 1) /\ pair \in PairOf(Person)
      /\ sinceVoice \in 0..VoiceCooldown
      /\ calls \subseteq [pair : PairOf(Person), age : Age]
      /\ IsFiniteSet(calls) /\ Cardinality(calls) <= MaxCalls
      /\ results \subseteq [pair : PairOf(Person), age : Age, of : {"voice", "crowd"}]
  BY DEF TalkInv, TalkTyped
<1>4. /\ DOMAIN books' = DOMAIN books
      /\ \A pair \in DOMAIN books :
           books'[pair] \in 0..Horizon /\ books'[pair] <= books[pair] + 1
  <2>1. \A pair \in DOMAIN books :
          Later(books[pair], Horizon) \in 0..Horizon
          /\ Later(books[pair], Horizon) <= books[pair] + 1
    BY <1>2, <1>3, LaterFacts
  <2>. QED
    BY <1>1, <2>1
<1>5. /\ DOMAIN heard' = now \cup recent
      /\ \A pair \in now : heard'[pair] = 0
      /\ \A pair \in recent \ now : heard'[pair] = heard[pair] + 1
  BY <1>1
<1>6. \A pair \in now : /\ pair \in PairOf(Person)
                        /\ pair \in DOMAIN books /\ books[pair] = 0
                        /\ Rested(pair) /\ pair # voice
  BY <1>1, <1>3 DEF Effective, TalkInv, WaitingIsRested
<1>7. calls' \subseteq [pair : PairOf(Person), age : Age]
  <2>1. ASSUME NEW c \in calls  PROVE older(c) \in [pair : PairOf(Person), age : Age]
    <3>1. c.pair \in PairOf(Person) /\ c.age \in 0..(Stale + 1)
      BY <1>3 DEF Age
    <3>. DEFINE limit == Stale + 1
    <3>2. c.age \in Nat /\ limit \in Nat
      BY <1>2, <3>1
    <3>. HIDE DEF limit
    <3>3. Later(c.age, limit) \in 0..limit
      BY <3>2, LaterFacts
    <3>4. Later(c.age, Stale + 1) \in 0..(Stale + 1)
      BY <3>3 DEF limit
    <3>. QED
      BY <3>1, <3>4 DEF Age
  <2>. QED
    BY <1>1, <2>1
<1>8. IsFiniteSet(calls') /\ Cardinality(calls') <= MaxCalls
  <2>. HIDE DEF older
  <2>. DEFINE aged == [c \in calls |-> older(c)]
  <2>0. aged \in Surjection(calls, calls')
    <3>1. aged \in [calls -> calls'] /\ \A d \in calls' : \E c \in calls : aged[c] = d
      BY <1>1
    <3>. QED
      BY <3>1 DEF Surjection
  <2>. HIDE DEF aged
  <2>1. IsFiniteSet(calls') /\ Cardinality(calls') <= Cardinality(calls)
    BY <1>3, <2>0, FS_Surjection
  <2>2. Cardinality(calls) \in Nat /\ Cardinality(calls') \in Nat
    BY <1>3, <2>1, FS_CardinalityType
  <2>. QED
    BY <1>2, <1>3, <2>1, <2>2
<1>9. \A pair \in DOMAIN heard' : pair \in PairOf(Person) /\ heard'[pair] \in 0..(Cooldown - 1)
  BY <1>2, <1>3, <1>5, <1>6
<1>10. TalkTyped'
  <2>1. sinceVoice' \in 0..VoiceCooldown
    BY <1>1, <1>2, <1>3, LaterFacts
  <2>2. DOMAIN books' \subseteq PairOf(Person) /\ \A pair \in DOMAIN books' : books'[pair] \in 0..Horizon
    BY <1>3, <1>4
  <2>3. thread' \subseteq Person /\ results' \subseteq [pair : PairOf(Person), age : Age, of : {"voice", "crowd"}]
    BY <1>1 DEF TalkInv, TalkTyped
  <2>. QED
    BY <1>7, <1>8, <1>9, <2>1, <2>2, <2>3 DEF TalkTyped
<1>11. BooksKeepPace'
  <2>. SUFFICES ASSUME NEW pair \in DOMAIN heard', pair \subseteq living
                PROVE  \/ pair \in DOMAIN books' /\ books'[pair] <= heard'[pair] + 1
                       \/ Rested(pair)'
    BY <1>0 DEF BooksKeepPace
  <2>1. CASE pair \in now
    BY <1>3, <1>4, <1>5, <1>6, <2>1
  <2>2. CASE pair \notin now
    <3>1. pair \in DOMAIN heard /\ heard[pair] + 1 < Cooldown /\ heard'[pair] = heard[pair] + 1
      BY <1>5, <2>2
    <3>2. pair \in DOMAIN books /\ books[pair] <= heard[pair] + 1
      BY <1>2, <1>3, <3>1 DEF TalkInv, BooksKeepPace, Rested
    <3>. QED
      BY <1>3, <1>4, <3>1, <3>2
  <2>. QED
    BY <2>1, <2>2
<1>12. WaitingIsRested'
  BY <1>1 DEF WaitingIsRested
<1>13. PaceIsKept
  BY DEF PaceIsKept, Effective, TalkInv, WaitingIsRested, Rested
<1>. QED
  BY <1>0, <1>10, <1>11, <1>12, <1>13 DEF TalkInv

LEMMA TalkStays == DialogueAssumption /\ TalkInv /\ [TalkNext]_<<vars, talkVars>> =>
                     TalkInv' /\ [PaceIsKept]_<<vars, talkVars>>
<1>. SUFFICES ASSUME DialogueAssumption, TalkInv, [TalkNext]_<<vars, talkVars>>
              PROVE  TalkInv' /\ [PaceIsKept]_<<vars, talkVars>>
  OBVIOUS
<1>1. CASE UNCHANGED <<vars, talkVars>>
  <2>1. CastInv'
    <3>1. UNCHANGED vars
      BY <1>1
    <3>. QED
      BY <3>1, StepHolds DEF TalkInv
  <2>2. living' = living
    BY <1>1 DEF vars, living
  <2>. QED
    BY <1>1, <2>1, <2>2
    DEF vars, talkVars, TalkInv, TalkTyped, BooksKeepPace, WaitingIsRested, Rested
<1>2. CASE BeginTick
  BY <1>2, BeginTickStep
<1>3. CASE TalkNext /\ ~ BeginTick
  <2>1. PaceIsKept
    BY <1>3 DEF PaceIsKept
  <2>2. TalkInv'
    BY <1>3, OtherStepsKeepTalk, TalkStep, WaitStep DEF TalkNext
  <2>. QED
    BY <2>1, <2>2
<1>. QED
  BY <1>1, <1>2, <1>3

\* Two people's exchange counts once in a cooldown, and the voice's two have no
\* other one, though the books forget the old and the dead and the voice passes on
\* between the choice of a pair and its effect (due_for_dialogue,
\* due_for_voice_dialogue, _apply_pending_dialogue_results).
THEOREM TalkAlwaysKeepsPace ==
  ASSUME DialogueAssumption
  PROVE  TalkSpec => TalkKeepsItsPace
<1>1. TalkInit => TalkInv
  BY TalkBegins
<1>2. TalkInv /\ [TalkNext]_<<vars, talkVars>> =>
        TalkInv' /\ [PaceIsKept]_<<vars, talkVars>>
  BY TalkStays
<1>3. TalkInv => DialogueTypeOK
  <2>. SUFFICES ASSUME TalkInv  PROVE DialogueTypeOK
    OBVIOUS
  <2>1. \A pair \in DOMAIN heard : heard[pair] < Cooldown
    BY DEF TalkInv, TalkTyped, DialogueAssumption
  <2>. QED
    BY <2>1 DEF TalkInv, TalkTyped, CastInv, DialogueTypeOK
<1>. QED
  BY <1>1, <1>2, <1>3, PTL DEF TalkSpec, TalkKeepsItsPace
=============================================================================
