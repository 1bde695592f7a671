------------------------- MODULE InstitutionsProofs -------------------------
(***************************************************************************)
(* Proofs about the institutions and the estates, for any people,          *)
(* settlements, trades and bounds: the quorum of the councils, the guilds, *)
(* the rolls of families and factions, and what the dead leave behind.     *)
(***************************************************************************)
EXTENDS Institutions, CoreCastProofs

-----------------------------------------------------------------------------
(* Lemmas on picking the entries of a list at some places.                 *)

Rank(S, i) == Cardinality({j \in S : j < i})

\* The rank of a number in a set counts the smaller ones, and tells all apart.
LEMMA RankFacts ==
  ASSUME NEW S \in SUBSET Nat, IsFiniteSet(S), NEW i \in S
  PROVE  /\ Rank(S, i) \in 0..(Cardinality(S) - 1)
         /\ \A k \in S : i < k => Rank(S, i) < Rank(S, k)
<1>. DEFINE below(x) == {j \in S : j < x}
<1>1. \A x \in S : IsFiniteSet(below(x)) /\ Cardinality(below(x)) \in Nat
  <2>1. \A x \in S : below(x) \in SUBSET S
    OBVIOUS
  <2>. HIDE DEF below
  <2>. QED
    BY <2>1, FS_Subset, FS_CardinalityType
<1>2. IsFiniteSet(below(i) \cup {i}) /\ Cardinality(below(i) \cup {i}) = Cardinality(below(i)) + 1
  <2>1. i \notin below(i)
    OBVIOUS
  <2>. HIDE DEF below
  <2>. QED
    BY <1>1, <2>1, FS_AddElement
<1>3. Cardinality(below(i)) + 1 <= Cardinality(S)
  <2>1. below(i) \cup {i} \in SUBSET S
    OBVIOUS
  <2>. HIDE DEF below
  <2>2. Cardinality(below(i) \cup {i}) <= Cardinality(S)
    BY <2>1, FS_Subset
  <2>. QED
    BY <1>2, <2>2
<1>4. ASSUME NEW k \in S, i < k
      PROVE  Cardinality(below(i)) < Cardinality(below(k))
  <2>1. below(i) \cup {i} \in SUBSET below(k)
    <3>1. i \in Nat /\ k \in Nat /\ \A j \in S : j \in Nat
      OBVIOUS
    <3>2. \A j \in S : j < i => j < k
      BY <1>4, <3>1
    <3>. QED
      BY <1>4, <3>2
  <2>2. IsFiniteSet(below(k)) /\ Cardinality(below(k)) \in Nat /\ Cardinality(below(i)) \in Nat
    BY <1>1
  <2>. HIDE DEF below
  <2>3. Cardinality(below(i) \cup {i}) <= Cardinality(below(k))
    BY <2>1, <2>2, FS_Subset
  <2>. QED
    BY <1>2, <2>2, <2>3
<1>5. Cardinality(S) \in Nat
  BY FS_CardinalityType
<1>6. Rank(S, i) = Cardinality(below(i)) /\ \A k \in S : Rank(S, k) = Cardinality(below(k))
  BY DEF Rank
<1>. HIDE DEF below
<1>7. Rank(S, i) \in 0..(Cardinality(S) - 1)
  BY <1>1, <1>3, <1>5, <1>6
<1>. QED
  BY <1>4, <1>6, <1>7

\* Every rank is taken: the k-th number is one of the set and has k - 1 below it.
LEMMA KthFacts ==
  ASSUME NEW S \in SUBSET Nat, IsFiniteSet(S), NEW k \in 1..Cardinality(S)
  PROVE  Kth(S, k) \in S /\ Rank(S, Kth(S, k)) = k - 1
<1>. DEFINE T == 0..(Cardinality(S) - 1)
            f == [i \in S |-> Rank(S, i)]
<1>1. Cardinality(S) \in Nat
  BY FS_CardinalityType
<1>2. IsFiniteSet(T) /\ Cardinality(T) = Cardinality(S)
  <2>1. 0 \in Int /\ Cardinality(S) - 1 \in Int
    BY <1>1
  <2>2. /\ IsFiniteSet(T)
        /\ Cardinality(T) = IF 0 > Cardinality(S) - 1 THEN 0 ELSE (Cardinality(S) - 1) - 0 + 1
    BY <2>1, FS_Interval
  <2>. QED
    BY <1>1, <2>2
<1>3. f \in Injection(S, T)
  <2>1. \A i \in S : Rank(S, i) \in T
    BY RankFacts
  <2>2. ASSUME NEW i \in S, NEW j \in S, Rank(S, i) = Rank(S, j)
        PROVE  i = j
    <3>1. /\ Rank(S, i) \in Int /\ Rank(S, j) \in Int /\ i \in Nat /\ j \in Nat
          /\ i < j => Rank(S, i) < Rank(S, j)
          /\ j < i => Rank(S, j) < Rank(S, i)
      BY RankFacts
    <3>. QED
      BY <2>2, <3>1
  <2>. QED
    BY <2>1, <2>2 DEF Injection, IsInjective
<1>4. f \in Surjection(S, T)
  <2>. HIDE DEF f, T
  <2>. QED
    BY <1>2, <1>3, FS_Injection
<1>5. PICK i \in S : f[i] = k - 1
  <2>1. k - 1 \in T
    BY <1>1
  <2>. HIDE DEF f, T
  <2>. QED
    BY <1>4, <2>1 DEF Surjection
<1>6. Cardinality({j \in S : j < i}) = k - 1
  BY <1>5 DEF Rank
<1>. QED
  BY <1>6 DEF Kth, Rank

\* Every number of the set is the k-th for some k.
LEMMA KthHits ==
  ASSUME NEW S \in SUBSET Nat, IsFiniteSet(S), NEW i \in S
  PROVE  \E k \in 1..Cardinality(S) : Kth(S, k) = i
<1>1. Cardinality(S) \in Nat /\ Rank(S, i) \in 0..(Cardinality(S) - 1)
  BY RankFacts, FS_CardinalityType
<1>2. Rank(S, i) + 1 \in 1..Cardinality(S)
  BY <1>1
<1>. DEFINE x == Kth(S, Rank(S, i) + 1)
<1>3. x \in S /\ Rank(S, x) = (Rank(S, i) + 1) - 1
  BY <1>2, KthFacts
<1>4. Rank(S, x) = Rank(S, i)
  BY <1>1, <1>3
<1>5. x = i
  <2>1. /\ x \in Nat /\ i \in Nat
        /\ x < i => Rank(S, x) < Rank(S, i)
        /\ i < x => Rank(S, i) < Rank(S, x)
    BY <1>3, RankFacts
  <2>. HIDE DEF x
  <2>. QED
    BY <1>1, <1>4, <2>1
<1>. QED
  BY <1>2, <1>5

\* What is picked from a list: entries of the list, all those at the places picked,
\* and none twice.
LEMMA PickedFacts ==
  ASSUME NEW A, NEW list \in Seq(A), NEW S \in SUBSET DOMAIN list
  PROVE  /\ Picked(list, S) \in Seq(A)
         /\ Len(Picked(list, S)) = Cardinality(S) /\ Cardinality(S) \in Nat
         /\ \A i \in S : \E k \in 1..Cardinality(S) : Picked(list, S)[k] = list[i]
         /\ \A k \in 1..Cardinality(S) :
              Kth(S, k) \in S /\ Picked(list, S)[k] = list[Kth(S, k)]
         /\ \A k, l \in 1..Cardinality(S) : Kth(S, k) = Kth(S, l) => k = l
<1>1. DOMAIN list = 1..Len(list) /\ Len(list) \in Nat
  OBVIOUS
<1>2. IsFiniteSet(S) /\ S \in SUBSET Nat /\ Cardinality(S) \in Nat
  <2>1. IsFiniteSet(DOMAIN list)
    BY <1>1, FS_Interval
  <2>. QED
    BY <1>1, <2>1, FS_Subset, FS_CardinalityType
<1>3. \A k \in 1..Cardinality(S) : Kth(S, k) \in S /\ Rank(S, Kth(S, k)) = k - 1
  BY <1>2, KthFacts
<1>4. \A k \in 1..Cardinality(S) : list[Kth(S, k)] \in A
  BY <1>1, <1>3
<1>5. Picked(list, S) \in Seq(A) /\ Len(Picked(list, S)) = Cardinality(S)
  BY <1>2, <1>4 DEF Picked
<1>6. \A k \in 1..Cardinality(S) : Picked(list, S)[k] = list[Kth(S, k)]
  BY DEF Picked
<1>7. \A i \in S : \E k \in 1..Cardinality(S) : Picked(list, S)[k] = list[i]
  BY <1>2, <1>6, KthHits
<1>8. \A k, l \in 1..Cardinality(S) : Kth(S, k) = Kth(S, l) => k = l
  <2>1. SUFFICES ASSUME NEW k \in 1..Cardinality(S), NEW l \in 1..Cardinality(S),
                        Kth(S, k) = Kth(S, l)
                 PROVE  k = l
    OBVIOUS
  <2>2. k - 1 = l - 1
    BY <1>3, <2>1
  <2>. QED
    BY <1>2, <2>2
<1>. QED
  BY <1>2, <1>3, <1>5, <1>6, <1>7, <1>8

-----------------------------------------------------------------------------
(* The eviction rule, and what happens to people.                          *)

\* Whoever is alive keeps the place: with no more than the cap nothing is evicted.
LEMMA PrunedFacts ==
  ASSUME NEW A, NEW list \in Seq(A), NEW cap \in Nat
  PROVE  /\ Pruned(list, cap) \in Seq(A)
         /\ \A i \in DOMAIN list : ~Extinct(list[i]) =>
              \E k \in DOMAIN Pruned(list, cap) : Pruned(list, cap)[k] = list[i]
         /\ Len(list) <= cap => Len(Pruned(list, cap)) = Len(list)
         /\ \A k \in DOMAIN Pruned(list, cap) :
              \E i \in DOMAIN list : Pruned(list, cap)[k] = list[i]
<1>. DEFINE S == Stays(list, cap)
<1>1. S \in SUBSET DOMAIN list
  BY DEF Stays
<1>2. DOMAIN list = 1..Len(list) /\ Len(list) \in Nat
  OBVIOUS
<1>3. \A i \in DOMAIN list : ~Extinct(list[i]) => i \in S
  BY DEF Stays
<1>4. ASSUME Len(list) <= cap
      PROVE  Cardinality(S) = Len(list)
  <2>1. ASSUME NEW i \in DOMAIN list
        PROVE  Cardinality(ExtinctBefore(list, i)) >= Len(list) - cap
    <3>1. ExtinctBefore(list, i) \in SUBSET (1..(i - 1)) /\ i \in Int
      BY <1>2 DEF ExtinctBefore
    <3>2. IsFiniteSet(1..(i - 1))
      BY <3>1, FS_Interval
    <3>3. Cardinality(ExtinctBefore(list, i)) \in Nat
      BY <3>1, <3>2, FS_Subset, FS_CardinalityType
    <3>. QED
      BY <1>2, <1>4, <3>3
  <2>2. S = 1..Len(list)
    BY <1>2, <2>1 DEF Stays
  <2>3. Cardinality(1..Len(list)) = Len(list)
    <3>1. 1 \in Int /\ Len(list) \in Int
      BY <1>2
    <3>2. Cardinality(1..Len(list)) = IF 1 > Len(list) THEN 0 ELSE Len(list) - 1 + 1
      BY <3>1, FS_Interval
    <3>. QED
      BY <1>2, <3>2
  <2>. QED
    BY <2>2, <2>3
<1>. HIDE DEF S
<1>5. /\ Picked(list, S) \in Seq(A) /\ Len(Picked(list, S)) = Cardinality(S)
      /\ Cardinality(S) \in Nat
      /\ \A i \in S : \E k \in 1..Cardinality(S) : Picked(list, S)[k] = list[i]
      /\ \A k \in 1..Cardinality(S) : Kth(S, k) \in S /\ Picked(list, S)[k] = list[Kth(S, k)]
  BY <1>1, PickedFacts
<1>6. DOMAIN Picked(list, S) = 1..Cardinality(S)
  BY <1>5
<1>7. Pruned(list, cap) = Picked(list, S)
  BY DEF Pruned, S
<1>. QED
  BY <1>1, <1>3, <1>4, <1>5, <1>6, <1>7

\* One thing that happens to people: who was born was born.
LEMMA PeopleMovesFacts ==
  ASSUME PeopleTypeOK, PeopleMoves
  PROVE  PeopleTypeOK' /\ born \subseteq born'
<1>1. Primary \in Settlement
  BY PeopleAssumption
<1>2. ASSUME NEW p \in Person, Arrives(p)
      PROVE  PeopleTypeOK' /\ born \subseteq born'
  <2>1. Come({p}, Primary)
    BY <1>2 DEF Arrives
  <2>. QED
    BY <1>1, <2>1, ComeKeeps DEF Come
<1>3. ASSUME NEW p \in Person, NEW parent \in living, Born(p, parent)
      PROVE  PeopleTypeOK' /\ born \subseteq born'
  <2>1. Come({p}, home[parent]) /\ home[parent] \in Settlement
    BY <1>3 DEF Born, PeopleTypeOK
  <2>. QED
    BY <2>1, ComeKeeps DEF Come
<1>4. ASSUME NEW p \in living, NEW s \in Settlement, Settle({p}, s)
      PROVE  PeopleTypeOK' /\ born \subseteq born'
  BY <1>4, SettleKeeps DEF Settle
<1>5. ASSUME NEW D, Leave(D)
      PROVE  PeopleTypeOK' /\ born \subseteq born'
  BY <1>5, LeaveKeeps DEF Leave
<1>. QED
  BY <1>2, <1>3, <1>4, <1>5 DEF PeopleMoves

\* A world opens with founders who live in its first settlement.
LEMMA FoundersHold ==
  ASSUME PeopleInit
  PROVE  PeopleTypeOK
<1>1. PICK P \in kSubset(FoundingParty, Person) : home = [p \in P |-> Primary]
  BY DEF PeopleInit
<1>2. P \in SUBSET Person /\ Primary \in Settlement
  BY <1>1, PeopleAssumption DEF kSubset
<1>. QED
  BY <1>1, <1>2 DEF PeopleInit, PeopleTypeOK, living

-----------------------------------------------------------------------------
(* Guilds.                                                                 *)

GuildsInv == GuildsTypeOK /\ IsFiniteSet(requests) /\ TradesDiffer

LEMMA GuildsInitially ==
  ASSUME GuildsAssumption, GuildsInit
  PROVE  GuildsInv
<1>1. PeopleTypeOK
  BY FoundersHold DEF GuildsInit
<1>2. IsFiniteSet(requests) /\ Cardinality(requests) = 0
  BY FS_EmptySet DEF GuildsInit
<1>3. GuildsTypeOK
  BY <1>1, <1>2 DEF GuildsInit, GuildsTypeOK, GuildsAssumption
<1>4. TradesDiffer
  BY DEF GuildsInit, TradesDiffer
<1>. QED
  BY <1>2, <1>3, <1>4 DEF GuildsInv

\* The places of two lists that are joined.
LEMMA JoinFacts ==
  ASSUME NEW A, NEW a \in Seq(A), NEW b \in Seq(A)
  PROVE  /\ a \o b \in Seq(A) /\ DOMAIN (a \o b) = 1..(Len(a) + Len(b))
         /\ \A i \in 1..Len(a) : (a \o b)[i] = a[i]
         /\ \A i \in (Len(a) + 1)..(Len(a) + Len(b)) : (a \o b)[i] = b[i - Len(a)]
  OBVIOUS

\* The guilds that form are of trades that have none, and no two of one trade;
\* those that were there keep their places.
LEMMA FormedFacts ==
  ASSUME GuildsAssumption, GuildsInv, NEW s \in Named
  PROVE  /\ FormedAt(s) \in Seq(Guild)
         /\ \A i, j \in DOMAIN FormedAt(s) :
              FormedAt(s)[i].trade = FormedAt(s)[j].trade => i = j
<1>. DEFINE due == {i \in DOMAIN TradeOrder : Vacant(TradeOrder[i], s) /\ Ripe(TradeOrder[i], s)}
            new == Picked(TradeOrder, due)
            n == Cardinality(due)
            added == [i \in DOMAIN new |-> [trade |-> new[i], members |-> MastersAt(new[i], s)]]
<1>1. /\ new \in Seq(Range(TradeOrder)) /\ Len(new) = n /\ n \in Nat
      /\ \A k \in 1..n : Kth(due, k) \in due /\ new[k] = TradeOrder[Kth(due, k)]
      /\ \A k, l \in 1..n : Kth(due, k) = Kth(due, l) => k = l
  <2>1. due \in SUBSET DOMAIN TradeOrder /\ TradeOrder \in Seq(Range(TradeOrder))
    BY DEF GuildsAssumption
  <2>. HIDE DEF due
  <2>. QED
    BY <2>1, PickedFacts
<1>2. DOMAIN new = 1..n
  BY <1>1
<1>3. \A k, l \in 1..n : new[k] = new[l] => k = l
  <2>1. SUFFICES ASSUME NEW k \in 1..n, NEW l \in 1..n, new[k] = new[l]
                 PROVE  k = l
    OBVIOUS
  <2>2. Kth(due, k) \in DOMAIN TradeOrder /\ Kth(due, l) \in DOMAIN TradeOrder
    BY <1>1
  <2>3. Kth(due, k) = Kth(due, l)
    BY <1>1, <2>1, <2>2 DEF GuildsAssumption, IsInjective
  <2>. QED
    BY <1>1, <2>3
<1>4. \A k \in 1..n : new[k] \notin Trades(guilds[s])
  BY <1>1 DEF Vacant
<1>5. /\ guilds[s] \in Seq(Guild)
      /\ \A i, j \in DOMAIN guilds[s] : guilds[s][i].trade = guilds[s][j].trade => i = j
  BY DEF GuildsInv, GuildsTypeOK, TradesDiffer
<1>6. added \in Seq(Guild) /\ Len(added) = n /\ \A k \in 1..n : added[k].trade = new[k]
  <2>1. \A k \in 1..n : new[k] \in Range(TradeOrder)
    BY <1>1
  <2>2. \A t : MastersAt(t, s) \in SUBSET Person
    BY DEF MastersAt, At, GuildsInv, GuildsTypeOK, PeopleTypeOK
  <2>. HIDE DEF new, n
  <2>3. \A k \in 1..n : [trade |-> new[k], members |-> MastersAt(new[k], s)] \in Guild
    BY <2>1, <2>2 DEF Guild
  <2>. QED
    BY <1>1, <1>2, <2>3
<1>. HIDE DEF added, new, n, due
<1>7. FormedAt(s) = guilds[s] \o added
  BY DEF FormedAt, added, new, due
<1>. DEFINE f == guilds[s] \o added
            m == Len(guilds[s])
<1>8. /\ m \in Nat /\ DOMAIN guilds[s] = 1..m
      /\ f \in Seq(Guild) /\ DOMAIN f = 1..(m + n)
      /\ \A i \in 1..m : f[i] = guilds[s][i]
      /\ \A i \in (m + 1)..(m + n) : f[i] = added[i - m]
  <2>1. m \in Nat /\ DOMAIN guilds[s] = 1..m
    BY <1>5
  <2>2. /\ f \in Seq(Guild) /\ DOMAIN f = 1..(m + Len(added))
        /\ \A i \in 1..m : f[i] = guilds[s][i]
        /\ \A i \in (m + 1)..(m + Len(added)) : f[i] = added[i - m]
    <3>1. guilds[s] \in Seq(Guild) /\ added \in Seq(Guild)
      BY <1>5, <1>6
    <3>. QED
      BY <3>1, JoinFacts
  <2>3. Len(added) = n
    BY <1>6
  <2>. HIDE DEF f, m
  <2>4. m \in Nat
    BY <2>1 DEF m
  <2>. QED
    BY <2>1, <2>2, <2>3, <2>4
<1>9. \A i \in 1..m : guilds[s][i].trade \in Trades(guilds[s])
  BY <1>8 DEF Trades
<1>10. ASSUME NEW i \in 1..(m + n), NEW j \in 1..(m + n), f[i].trade = f[j].trade
       PROVE  i = j
  <2>. HIDE DEF f
  <2>0. m \in Nat /\ n \in Nat
    BY <1>1, <1>8
  <2>1. CASE i <= m /\ j <= m
    BY <2>0, <2>1, <1>5, <1>8, <1>10
  <2>2. CASE i > m /\ j > m
    <3>1. i - m \in 1..n /\ j - m \in 1..n
      BY <2>0, <2>2
    <3>2. new[i - m] = new[j - m]
      BY <1>6, <1>8, <1>10, <2>0, <2>2, <3>1
    <3>3. i - m = j - m
      BY <1>3, <3>1, <3>2
    <3>. QED
      BY <2>0, <3>3
  <2>3. CASE i <= m /\ j > m
    <3>1. j - m \in 1..n /\ i \in 1..m /\ j \in (m + 1)..(m + n)
      BY <2>0, <2>3
    <3>2. f[j].trade = new[j - m]
      BY <1>6, <1>8, <3>1
    <3>3. f[i].trade \in Trades(guilds[s])
      BY <1>8, <1>9, <3>1
    <3>. QED
      BY <1>4, <1>10, <3>1, <3>2, <3>3
  <2>4. CASE i > m /\ j <= m
    <3>1. i - m \in 1..n /\ j \in 1..m /\ i \in (m + 1)..(m + n)
      BY <2>0, <2>4
    <3>2. f[i].trade = new[i - m]
      BY <1>6, <1>8, <3>1
    <3>3. f[j].trade \in Trades(guilds[s])
      BY <1>8, <1>9, <3>1
    <3>. QED
      BY <1>4, <1>10, <3>1, <3>2, <3>3
  <2>. QED
    BY <2>0, <2>1, <2>2, <2>3, <2>4
<1>. QED
  BY <1>7, <1>8, <1>10

\* What keeps the guilds' types when only people have moved.
LEMMA GuildPeopleKeep ==
  ASSUME GuildsInv, PeopleTypeOK', born \subseteq born',
         UNCHANGED <<masters, guilds, requests>>, stage' \in {"people", "jobs", "answers"}
  PROVE  GuildsInv'
<1>1. masters' \in [Range(TradeOrder) -> SUBSET born']
  BY DEF GuildsInv, GuildsTypeOK
<1>. QED
  BY <1>1 DEF GuildsInv, GuildsTypeOK, TradesDiffer

LEMMA GuildCivicKeeps ==
  ASSUME GuildsAssumption, GuildsInv, GuildCivic
  PROVE  GuildsInv'
<1>1. /\ guilds' = [s \in Named |-> Joined(FormedAt(s), s)] /\ stage' = "jobs"
      /\ UNCHANGED <<home, born, masters, requests>>
  BY DEF GuildCivic
<1>2. ASSUME NEW s \in Named
      PROVE  /\ guilds'[s] \in Seq(Guild)
             /\ \A i, j \in DOMAIN guilds'[s] :
                  guilds'[s][i].trade = guilds'[s][j].trade => i = j
  <2>. DEFINE f == FormedAt(s)
              joined(i) == [f[i] EXCEPT !.members = @ \cup MastersAt(f[i].trade, s)]
  <2>1. /\ f \in Seq(Guild)
        /\ \A i, j \in DOMAIN f : f[i].trade = f[j].trade => i = j
    BY FormedFacts
  <2>2. \A t : MastersAt(t, s) \in SUBSET Person
    BY DEF MastersAt, At, GuildsInv, GuildsTypeOK, PeopleTypeOK
  <2>. HIDE DEF f
  <2>3. ASSUME NEW i \in DOMAIN f
        PROVE  joined(i) \in Guild /\ joined(i).trade = f[i].trade
    <3>1. f[i] \in Guild
      BY <2>1
    <3>. QED
      BY <2>2, <3>1 DEF Guild
  <2>4. guilds'[s] = [i \in DOMAIN f |-> joined(i)]
    BY <1>1 DEF Joined, f
  <2>5. guilds'[s] \in Seq(Guild) /\ DOMAIN guilds'[s] = DOMAIN f
    <3>1. DOMAIN f = 1..Len(f) /\ Len(f) \in Nat
      BY <2>1
    <3>. HIDE DEF joined
    <3>. QED
      BY <2>3, <2>4, <3>1
  <2>6. \A i \in DOMAIN f : guilds'[s][i].trade = f[i].trade
    <3>. HIDE DEF joined
    <3>. QED
      BY <2>3, <2>4
  <2>. QED
    BY <2>1, <2>5, <2>6
<1>3. guilds' \in [Named -> Seq(Guild)]
  BY <1>1, <1>2
<1>4. GuildsTypeOK'
  BY <1>1, <1>3 DEF GuildsInv, GuildsTypeOK, PeopleTypeOK, living
<1>. QED
  BY <1>1, <1>2, <1>4 DEF GuildsInv, TradesDiffer

LEMMA ScheduleFoundingKeeps ==
  ASSUME GuildsAssumption, GuildsInv, ScheduleFounding
  PROVE  GuildsInv'
<1>1. /\ IsFiniteSet(requests) /\ Cardinality(requests) \in Nat
      /\ requests \subseteq Request /\ Cardinality(requests) <= MaxRequests /\ MaxRequests \in Nat
  BY FS_CardinalityType DEF GuildsInv, GuildsTypeOK, GuildsAssumption
<1>2. ASSUME NEW s \in Named, NEW t \in Range(TradeOrder), NEW p \in MastersAt(t, s),
             Cardinality(requests) < MaxRequests,
             requests' = requests \cup {[at |-> s, trade |-> t, founder |-> p]}
      PROVE  /\ IsFiniteSet(requests') /\ requests' \subseteq Request
             /\ Cardinality(requests') <= MaxRequests
  <2>1. p \in Person
    BY DEF MastersAt, At, GuildsInv, GuildsTypeOK, PeopleTypeOK
  <2>2. [at |-> s, trade |-> t, founder |-> p] \in Request
    BY <2>1 DEF Request
  <2>3. /\ IsFiniteSet(requests')
        /\ Cardinality(requests') \in {Cardinality(requests), Cardinality(requests) + 1}
    BY <1>1, <1>2, FS_AddElement
  <2>. QED
    BY <1>1, <1>2, <2>2, <2>3
<1>3. /\ IsFiniteSet(requests') /\ requests' \subseteq Request
      /\ Cardinality(requests') <= MaxRequests
  BY <1>1, <1>2 DEF ScheduleFounding
<1>. QED
  BY <1>3 DEF ScheduleFounding, GuildsInv, GuildsTypeOK, PeopleTypeOK, living, TradesDiffer

\* An answered founding: the trade had no guild just now.
LEMMA AnswerFoundingKeeps ==
  ASSUME GuildsAssumption, GuildsInv, NEW d \in requests, AnswerFounding(d)
  PROVE  GuildsInv'
<1>1. /\ requests' = requests \ {d} /\ UNCHANGED <<home, born, masters, stage>>
      /\ IsFiniteSet(requests) /\ Cardinality(requests) <= MaxRequests /\ MaxRequests \in Nat
      /\ requests \subseteq Request
  BY DEF AnswerFounding, GuildsInv, GuildsTypeOK, GuildsAssumption
<1>2. IsFiniteSet(requests') /\ Cardinality(requests') <= MaxRequests
  <2>1. IsFiniteSet(requests') /\ Cardinality(requests') <= Cardinality(requests)
    BY <1>1, FS_Subset
  <2>2. Cardinality(requests') \in Nat /\ Cardinality(requests) \in Nat
    BY <1>1, <2>1, FS_CardinalityType
  <2>. QED
    BY <1>1, <2>1, <2>2
<1>3. CASE UNCHANGED guilds
  BY <1>1, <1>2, <1>3 DEF GuildsInv, GuildsTypeOK, PeopleTypeOK, living, TradesDiffer
<1>4. CASE Valid(d) /\ guilds' = Founded(d)
  <2>. DEFINE g == [trade |-> d.trade, members |-> MastersAt(d.trade, d.at)]
              old == guilds[d.at]
              n == Len(old)
  <2>1. d.at \in Named /\ d.trade \in Range(TradeOrder)
    BY <1>1 DEF Request
  <2>2. g \in Guild
    BY <2>1 DEF Guild, MastersAt, At, GuildsInv, GuildsTypeOK, PeopleTypeOK
  <2>3. /\ old \in Seq(Guild)
        /\ \A i, j \in DOMAIN old : old[i].trade = old[j].trade => i = j
    BY <2>1 DEF GuildsInv, GuildsTypeOK, TradesDiffer
  <2>4. \A i \in DOMAIN old : old[i].trade # d.trade
    BY <1>4 DEF Valid, Vacant, Trades
  <2>5. /\ guilds' \in [Named -> Seq(Guild)]
        /\ guilds'[d.at] = Append(old, g)
        /\ \A s \in Named : s # d.at => guilds'[s] = guilds[s]
    <3>1. guilds' = [guilds EXCEPT ![d.at] = Append(old, g)]
      BY <1>4 DEF Founded
    <3>2. Append(old, g) \in Seq(Guild)
      BY <2>2, <2>3
    <3>. HIDE DEF g, old
    <3>. QED
      BY <2>1, <3>1, <3>2 DEF GuildsInv, GuildsTypeOK
  <2>6. g.trade = d.trade
    OBVIOUS
  <2>. HIDE DEF g, old
  <2>7. /\ n \in Nat /\ DOMAIN old = 1..n /\ DOMAIN Append(old, g) = 1..(n + 1)
        /\ \A i \in 1..n : Append(old, g)[i] = old[i]
        /\ Append(old, g)[n + 1] = g
    BY <2>2, <2>3
  <2>. HIDE DEF n
  <2>8. ASSUME NEW i \in 1..(n + 1), NEW j \in 1..(n + 1),
               Append(old, g)[i].trade = Append(old, g)[j].trade
        PROVE  i = j
    <3>1. \/ i \in 1..n /\ j \in 1..n
          \/ i = n + 1 /\ j \in 1..n
          \/ i \in 1..n /\ j = n + 1
          \/ i = n + 1 /\ j = n + 1
      BY <2>7
    <3>. QED
      BY <2>3, <2>4, <2>6, <2>7, <2>8, <3>1
  <2>9. TradesDiffer'
    <3>1. SUFFICES ASSUME NEW s \in Named, NEW i \in DOMAIN guilds'[s], NEW j \in DOMAIN guilds'[s],
                          guilds'[s][i].trade = guilds'[s][j].trade
                   PROVE  i = j
      BY DEF TradesDiffer
    <3>2. CASE s = d.at
      BY <2>5, <2>7, <2>8, <3>1, <3>2
    <3>3. CASE s # d.at
      BY <2>5, <3>1, <3>3 DEF GuildsInv, TradesDiffer
    <3>. QED
      BY <3>2, <3>3
  <2>. QED
    BY <1>1, <1>2, <2>5, <2>9 DEF GuildsInv, GuildsTypeOK, PeopleTypeOK, living
<1>. QED
  BY <1>3, <1>4 DEF AnswerFounding

LEMMA GuildsStep ==
  ASSUME GuildsAssumption, GuildsInv, [GuildsNext]_guildsVars
  PROVE  GuildsInv'
<1>1. PeopleTypeOK /\ stage \in {"people", "jobs", "answers"}
  BY DEF GuildsInv, GuildsTypeOK
<1>2. CASE GuildPeople
  BY <1>1, <1>2, PeopleMovesFacts, GuildPeopleKeep DEF GuildPeople
<1>3. ASSUME NEW p \in Person, NEW t \in Range(TradeOrder), Master(p, t)
      PROVE  GuildsInv'
  <2>1. masters' \in [Range(TradeOrder) -> SUBSET born]
    BY <1>3 DEF Master, GuildsInv, GuildsTypeOK, PeopleTypeOK
  <2>. QED
    BY <1>3, <2>1 DEF Master, GuildsInv, GuildsTypeOK, PeopleTypeOK, living, TradesDiffer
<1>4. CASE GuildAfter
  <2>1. ASSUME NEW P, NEW s \in Settlement, Settle(P, s)
        PROVE  PeopleTypeOK' /\ born \subseteq born'
    BY <1>1, <2>1, SettleKeeps DEF Settle
  <2>2. UNCHANGED <<home, born>> => PeopleTypeOK' /\ born \subseteq born'
    BY <1>1 DEF PeopleTypeOK, living
  <2>3. PeopleTypeOK' /\ born \subseteq born'
    BY <1>4, <2>1, <2>2 DEF GuildAfter
  <2>. QED
    BY <1>1, <1>4, <2>3, GuildPeopleKeep DEF GuildAfter
<1>5. CASE UNCHANGED guildsVars
  BY <1>5 DEF guildsVars, GuildsInv, GuildsTypeOK, PeopleTypeOK, living, TradesDiffer
<1>. QED
  BY <1>2, <1>3, <1>4, <1>5, GuildCivicKeeps, ScheduleFoundingKeeps, AnswerFoundingKeeps
  DEF GuildsNext

\* The guilds keep to their types and no settlement has two of one trade, for any
\* trades and any number of masters, while a guild can form by itself and any
\* number of foundings be in flight.
THEOREM GuildsAreApart ==
  ASSUME GuildsAssumption
  PROVE  GuildsSpec => []OneGuildPerTrade
<1>1. GuildsInit => GuildsInv
  BY GuildsInitially
<1>2. GuildsInv /\ [GuildsNext]_guildsVars => GuildsInv'
  BY GuildsStep
<1>3. GuildsInv => OneGuildPerTrade
  BY DEF GuildsInv, OneGuildPerTrade
<1>. QED
  BY <1>1, <1>2, <1>3, PTL DEF GuildsSpec

-----------------------------------------------------------------------------
(* Councils.                                                               *)

\* Whatever roll a refresh starts from, its living members at home fill the seats
\* afterwards, or everybody at home is on it: the open seats are taken by those who
\* are not on the roll, and a contest replaces a member at home by another.
LEMMA RefreshFills ==
  ASSUME CouncilAssumption, PeopleTypeOK,
         NEW s \in Settlement, NEW roll \in SUBSET Person, NEW contest \in BOOLEAN,
         NEW then \in Refreshed(roll, s, contest)
  PROVE  /\ then \in SUBSET Person
         /\ Cardinality(then \cap At(s)) >= Min({CouncilSize, Cardinality(At(s))})
<1>. DEFINE in == roll \cap At(s)
            out == At(s) \ roll
            open == OpenSeats(roll, s)
            joining == Min({open, Cardinality(out)})
<1>1. At(s) \in SUBSET Person /\ in \in SUBSET At(s) /\ out = At(s) \ in
      /\ in \in SUBSET Person /\ out \in SUBSET Person /\ in \cap out = {}
  BY DEF At, PeopleTypeOK
<1>2. /\ Cardinality(in) \in Nat /\ Cardinality(out) \in Nat /\ Cardinality(At(s)) \in Nat
      /\ Cardinality(At(s)) = Cardinality(in) + Cardinality(out)
  <2>. HIDE DEF in, out
  <2>1. Cardinality(in) \in Nat /\ Cardinality(out) \in Nat /\ Cardinality(At(s)) \in Nat
    BY <1>1, PeopleFinite
  <2>2. Cardinality(out) = Cardinality(At(s)) - Cardinality(in)
    BY <1>1, PartTaken
  <2>. QED
    BY <2>1, <2>2
<1>3. CouncilSize \in Nat
  BY DEF CouncilAssumption
<1>4. open = IF Cardinality(in) < CouncilSize THEN CouncilSize - Cardinality(in) ELSE 0
  BY DEF OpenSeats
<1>5. open \in Nat
  BY <1>2, <1>3, <1>4
<1>6. joining = IF open <= Cardinality(out) THEN open ELSE Cardinality(out)
  <2>1. open \in Int /\ Cardinality(out) \in Int
    BY <1>2, <1>5
  <2>. HIDE DEF open, out
  <2>. QED
    BY <2>1, MinOfTwo
<1>7. Min({CouncilSize, Cardinality(At(s))}) =
        IF CouncilSize <= Cardinality(At(s)) THEN CouncilSize ELSE Cardinality(At(s))
  <2>1. CouncilSize \in Int /\ Cardinality(At(s)) \in Int
    BY <1>2, <1>3
  <2>. QED
    BY <2>1, MinOfTwo
<1>8. \/ open > 0 /\ \E more \in kSubset(joining, out) : then = roll \cup more
      \/ open = 0 /\ then = roll
      \/ open = 0 /\ \E old \in in, one \in out : then = (roll \ {old}) \cup {one}
  <2>1. CASE open > 0
    <3>1. \E more \in Joiners(roll, s) : then = roll \cup more
      BY <2>1 DEF Refreshed
    <3>2. Joiners(roll, s) = kSubset(joining, out)
      BY DEF Joiners
    <3>. QED
      BY <2>1, <3>1, <3>2
  <2>2. CASE ~(open > 0)
    <3>1. then \in {roll} \cup (IF contest
             THEN {(roll \ {old}) \cup {new} : old \in in, new \in out} ELSE {})
      BY <2>2 DEF Refreshed
    <3>2. open = 0
      BY <1>5, <2>2
    <3>. QED
      BY <3>1, <3>2
  <2>. QED
    BY <2>1, <2>2
<1>. HIDE DEF open, joining
<1>9. CASE open > 0 /\ \E more \in kSubset(joining, out) : then = roll \cup more
  <2>1. PICK more \in kSubset(joining, out) : then = roll \cup more
    BY <1>9
  <2>2. more \in SUBSET out /\ Cardinality(more) = joining
    BY <2>1 DEF kSubset
  <2>3. then \cap At(s) = in \cup more /\ in \cap more = {} /\ then \in SUBSET Person
    BY <1>1, <2>1, <2>2
  <2>4. more \in SUBSET Person
    BY <1>1, <2>2
  <2>. HIDE DEF in, out
  <2>5. Cardinality(then \cap At(s)) = Cardinality(in) + joining
    BY <1>1, <2>2, <2>3, <2>4, PartAdded
  <2>6. Cardinality(then \cap At(s)) >= Min({CouncilSize, Cardinality(At(s))})
    BY <1>2, <1>3, <1>4, <1>6, <1>7, <1>9, <2>5
  <2>. QED
    BY <2>3, <2>6
<1>10. CASE open = 0 /\ then = roll
  <2>1. then \cap At(s) = in
    BY <1>10
  <2>. HIDE DEF in, out
  <2>2. Cardinality(in) >= Min({CouncilSize, Cardinality(At(s))})
    BY <1>2, <1>3, <1>4, <1>7, <1>10
  <2>. QED
    BY <1>10, <2>1, <2>2
<1>11. CASE open = 0 /\ \E old \in in, one \in out : then = (roll \ {old}) \cup {one}
  <2>1. PICK old \in in, one \in out : then = (roll \ {old}) \cup {one}
    BY <1>11
  <2>2. /\ then \cap At(s) = (in \ {old}) \cup {one} /\ one \notin in \ {old}
        /\ then \in SUBSET Person
    BY <1>1, <2>1
  <2>. HIDE DEF in, out
  <2>3. IsFiniteSet(in)
    BY <1>1, PeopleFinite
  <2>4. IsFiniteSet(in \ {old}) /\ Cardinality(in \ {old}) = Cardinality(in) - 1
    BY <2>1, <2>3, FS_RemoveElement
  <2>5. Cardinality((in \ {old}) \cup {one}) = Cardinality(in \ {old}) + 1
    BY <2>2, <2>4, FS_AddElement
  <2>6. Cardinality((in \ {old}) \cup {one}) = Cardinality(in)
    BY <1>2, <2>4, <2>5
  <2>7. Cardinality(in) >= Min({CouncilSize, Cardinality(At(s))})
    BY <1>2, <1>3, <1>4, <1>7, <1>11
  <2>. QED
    BY <2>2, <2>6, <2>7
<1>. QED
  BY <1>8, <1>9, <1>10, <1>11

\* The first council is of people, if there is one.
LEMMA FirstCouncilFacts ==
  ASSUME CouncilTypeOK, NEW s \in Settlement, NEW roll \in FirstCouncil(s)
  PROVE  roll \in SUBSET Person /\ s \in titled
<1>1. CASE s \in seated
  BY <1>1 DEF FirstCouncil, CouncilTypeOK
<1>2. CASE s \notin seated
  <2>1. s \in titled /\ roll \in kSubset(CouncilSize, At(s))
    BY <1>2 DEF FirstCouncil
  <2>. QED
    BY <2>1 DEF kSubset, At, CouncilTypeOK, PeopleTypeOK
<1>. QED
  BY <1>1, <1>2

LEMMA CouncilCivicKeeps ==
  ASSUME CouncilAssumption, CouncilTypeOK, NEW contest \in BOOLEAN, CouncilCivic(contest)
  PROVE  CouncilTypeOK' /\ SeatsAreFilled'
<1>. DEFINE Outcomes(s) == UNION {Refreshed(roll, s, contest) : roll \in FirstCouncil(s)}
            sitting == {s \in Settlement : FirstCouncil(s) # {}}
<1>1. /\ council' \in [sitting -> SUBSET Person]
      /\ \A s \in sitting : council'[s] \in Outcomes(s)
      /\ session' = "civic" /\ UNCHANGED <<home, born, titled>>
  BY DEF CouncilCivic
<1>2. \A s \in sitting : s \in titled
  BY FirstCouncilFacts
<1>3. \A s \in Settlement : At(s)' = At(s)
  BY <1>1 DEF At, living
<1>4. seated' = sitting
  BY <1>1 DEF seated
<1>5. CouncilTypeOK'
  BY <1>1, <1>2, <1>4 DEF CouncilTypeOK, PeopleTypeOK, living
<1>6. ASSUME NEW s \in sitting
      PROVE  Cardinality(council'[s] \cap At(s)) >= Min({CouncilSize, Cardinality(At(s))})
  <2>1. PICK roll \in FirstCouncil(s) : council'[s] \in Refreshed(roll, s, contest)
    BY <1>1
  <2>2. roll \in SUBSET Person /\ s \in Settlement
    BY FirstCouncilFacts
  <2>. QED
    BY <2>1, <2>2, RefreshFills DEF CouncilTypeOK
<1>. QED
  BY <1>3, <1>4, <1>5, <1>6 DEF SeatsAreFilled

\* What happens to people outside the council's hour leaves the rolls alone.
LEMMA CouncilRests ==
  ASSUME CouncilTypeOK, PeopleTypeOK', titled \subseteq titled', titled' \subseteq Settlement,
         UNCHANGED council, session' = "people"
  PROVE  CouncilTypeOK' /\ SeatsAreFilled'
  BY DEF CouncilTypeOK, SeatsAreFilled, seated

LEMMA CouncilStep ==
  ASSUME CouncilAssumption, CouncilHasQuorum, [CouncilNext]_councilVars
  PROVE  CouncilHasQuorum'
<1>. USE DEF CouncilHasQuorum
<1>1. PeopleTypeOK /\ titled \subseteq Settlement
  BY DEF CouncilTypeOK
<1>2. CASE CouncilPeople
  BY <1>1, <1>2, PeopleMovesFacts, CouncilRests DEF CouncilPeople
<1>3. CASE CouncilAfter
  <2>1. ASSUME NEW P, NEW s \in Settlement, Settle(P, s)
        PROVE  PeopleTypeOK'
    BY <1>1, <2>1, SettleKeeps
  <2>2. ASSUME NEW F, Leave(F)
        PROVE  PeopleTypeOK'
    BY <1>1, <2>2, LeaveKeeps
  <2>3. UNCHANGED <<home, born>> => PeopleTypeOK'
    BY <1>1 DEF PeopleTypeOK, living
  <2>4. PeopleTypeOK'
    BY <1>3, <2>1, <2>2, <2>3 DEF CouncilAfter
  <2>. QED
    BY <1>1, <1>3, <2>4, CouncilRests DEF CouncilAfter
<1>4. CASE UNCHANGED councilVars
  BY <1>4 DEF councilVars, CouncilTypeOK, SeatsAreFilled, PeopleTypeOK, living, seated, At
<1>. QED
  BY <1>2, <1>3, <1>4, CouncilCivicKeeps DEF CouncilNext

\* After each tick of the population the councils have their quorum, for councils
\* of any size and any deaths, moves and foldings before.
THEOREM CouncilsSit ==
  ASSUME CouncilAssumption
  PROVE  CouncilSpec => []CouncilHasQuorum
<1>1. CouncilInit => CouncilHasQuorum
  BY FoundersHold DEF CouncilInit, CouncilHasQuorum, CouncilTypeOK, SeatsAreFilled, seated
<1>2. CouncilHasQuorum /\ [CouncilNext]_councilVars => CouncilHasQuorum'
  BY CouncilStep
<1>. QED
  BY <1>1, <1>2, PTL DEF CouncilSpec

-----------------------------------------------------------------------------
(* Estates.                                                                *)

\* Of those who know a craft nobody died where it was invented.
KnowersRemain ==
  \A c \in tracked : \A p \in knowers[c] :
    \/ p \in living \cup folded
    \/ p \in DOMAIN grave /\ grave[p] # Workshop[c]

SomebodyKnows == \A c \in tracked \ dormant : knowers[c] # {}

FamiliesAreBorn ==
  \A s \in Settlement : \A i \in DOMAIN families[s] : families[s][i] \subseteq born

EstatesInv == EstatesTypeOK /\ RidersLiveOn /\ KnowersRemain /\ SomebodyKnows /\ FamiliesAreBorn

LEMMA EstatesInitially ==
  ASSUME EstatesAssumption, EstatesInit
  PROVE  EstatesInv
<1>1. PeopleTypeOK
  BY FoundersHold DEF EstatesInit
<1>2. EstatesTypeOK
  BY <1>1 DEF EstatesInit, EstatesTypeOK, Nothing, tracked
<1>3. RidersLiveOn
  BY DEF EstatesInit, RidersLiveOn
<1>4. KnowersRemain /\ SomebodyKnows
  BY DEF EstatesInit, KnowersRemain, SomebodyKnows, tracked, Nothing
<1>5. FamiliesAreBorn
  BY DEF EstatesInit, FamiliesAreBorn
<1>. QED
  BY <1>2, <1>3, <1>4, <1>5 DEF EstatesInv

\* However people are born, arrive, move and are folded: as long as nobody is
\* buried, whoever was living or folded away still is.
LEMMA RollsOutlive ==
  ASSUME EstatesInv, PeopleTypeOK', born \subseteq born', grave' = grave,
         living' \subseteq living \cup (Person \ born)
  PROVE  /\ living \cup folded \subseteq living' \cup folded'
         /\ DOMAIN grave' \subseteq born' \ living'
         /\ living \subseteq born /\ living \cap DOMAIN grave = {}
<1>1. living \subseteq born /\ DOMAIN grave \subseteq born \ living
  BY DEF EstatesInv, EstatesTypeOK, PeopleTypeOK
<1>2. DOMAIN grave' \subseteq born' \ living'
  BY <1>1
<1>. QED
  BY <1>1, <1>2 DEF folded

\* The part of the invariant that is about riders, huts and crafts stands while
\* these are left alone.
LEMMA EstatesRest ==
  ASSUME EstatesInv, PeopleTypeOK', born \subseteq born', UNCHANGED estate,
         living' \subseteq living \cup (Person \ born)
  PROVE  EstatesInv'
<1>1. /\ families' = families /\ site' = site /\ owner' = owner /\ rider' = rider
      /\ knowers' = knowers /\ dormant' = dormant /\ grave' = grave
  BY DEF estate
<1>2. /\ living \cup folded \subseteq living' \cup folded'
      /\ DOMAIN grave' \subseteq born' \ living'
  BY <1>1, RollsOutlive
<1>3. EstatesTypeOK'
  BY <1>1, <1>2 DEF EstatesInv, EstatesTypeOK, tracked
<1>4. RidersLiveOn'
  BY <1>1, <1>2 DEF EstatesInv, RidersLiveOn
<1>5. KnowersRemain' /\ SomebodyKnows'
  BY <1>1, <1>2 DEF EstatesInv, KnowersRemain, SomebodyKnows, tracked
<1>6. FamiliesAreBorn'
  BY <1>1 DEF EstatesInv, FamiliesAreBorn
<1>. QED
  BY <1>3, <1>4, <1>5, <1>6 DEF EstatesInv

\* What becomes of a list of families: those with somebody alive stay, and whoever
\* joins one is a parent or the child.
Grown(list, then, a, b, child) ==
  /\ then \in Seq(SUBSET Person)
  /\ \A k \in DOMAIN then :
       \/ then[k] \subseteq {a, b, child}
       \/ \E i \in DOMAIN list : then[k] \subseteq list[i] \cup {child}
  /\ \A i \in DOMAIN list : ~Extinct(list[i]) =>
       \E k \in DOMAIN then : list[i] \subseteq then[k]

\* A family grows by the child, or a new one is added and room is made.
LEMMA ExtendedFacts ==
  ASSUME EstatesAssumption, EstatesInv, NEW list \in Seq(SUBSET Person),
         NEW a \in Person, NEW b \in Person, NEW child \in Person
  PROVE  Grown(list, Extended(list, a, b, child), a, b, child)
<1>. DEFINE both == {i \in DOMAIN list : {a, b} \subseteq list[i]}
            longer == Append(list, {a, b, child})
            ext == Extended(list, a, b, child)
<1>1. CASE both # {}
  <2>1. ext = [list EXCEPT ![Min(both)] = @ \cup {child}]
    BY <1>1 DEF Extended
  <2>2. /\ DOMAIN ext = DOMAIN list
        /\ \A i \in DOMAIN list : ext[i] = IF i = Min(both) THEN list[i] \cup {child} ELSE list[i]
    BY <2>1
  <2>3. ext \in Seq(SUBSET Person)
    <3>1. DOMAIN list = 1..Len(list) /\ Len(list) \in Nat /\ \A i \in 1..Len(list) : list[i] \in SUBSET Person
      OBVIOUS
    <3>2. ext \in [1..Len(list) -> SUBSET Person]
      <4>. HIDE DEF both
      <4>. QED
        BY <2>1, <3>1
    <3>. QED
      BY <3>1, <3>2
  <2>. HIDE DEF ext
  <2>. QED
    BY <2>2, <2>3 DEF ext, Grown
<1>2. CASE both = {}
  <2>1. ext = Pruned(longer, FamilyCap)
    BY <1>2 DEF Extended
  <2>2. /\ longer \in Seq(SUBSET Person) /\ DOMAIN longer = 1..(Len(list) + 1)
        /\ DOMAIN list = 1..Len(list) /\ Len(list) \in Nat
        /\ \A i \in 1..Len(list) : longer[i] = list[i]
        /\ longer[Len(list) + 1] = {a, b, child}
    OBVIOUS
  <2>3. FamilyCap \in Nat
    BY DEF EstatesAssumption
  <2>. HIDE DEF longer, ext
  <2>4. /\ ext \in Seq(SUBSET Person)
        /\ \A i \in DOMAIN longer : ~Extinct(longer[i]) => \E k \in DOMAIN ext : ext[k] = longer[i]
        /\ \A k \in DOMAIN ext : \E i \in DOMAIN longer : ext[k] = longer[i]
    <3>. DEFINE q == Pruned(longer, FamilyCap)
    <3>1. /\ q \in Seq(SUBSET Person)
          /\ \A i \in DOMAIN longer : ~Extinct(longer[i]) => \E k \in DOMAIN q : q[k] = longer[i]
          /\ \A k \in DOMAIN q : \E i \in DOMAIN longer : q[k] = longer[i]
      <4>1. longer \in Seq(SUBSET Person)
        BY <2>2
      <4>. QED
        BY <2>3, <4>1, PrunedFacts
    <3>2. ext = q
      BY <2>1
    <3>. HIDE DEF q
    <3>. QED
      BY <3>1, <3>2
  <2>5. \A i \in DOMAIN longer : longer[i] = {a, b, child} \/ (i \in DOMAIN list /\ longer[i] = list[i])
    BY <2>2
  <2>6. \A i \in DOMAIN list : i \in DOMAIN longer /\ longer[i] = list[i]
    BY <2>2
  <2>. QED
    BY <2>4, <2>5, <2>6 DEF ext, Grown
<1>. QED
  BY <1>1, <1>2

LEMMA BearKeeps ==
  ASSUME EstatesAssumption, EstatesInv, NEW a \in Person, NEW b \in Person,
         NEW child \in Person, BearInFamily(a, b, child)
  PROVE  EstatesInv' /\ FamiliesKeepTheLiving
<1>1. /\ a \in living /\ b \in living /\ Come({child}, home[a]) /\ home[a] \in Settlement
      /\ PeopleTypeOK /\ child \notin born /\ born' = born \cup {child} /\ living \subseteq born
  BY DEF BearInFamily, Born, Come, EstatesInv, EstatesTypeOK, PeopleTypeOK
<1>2. PeopleTypeOK' /\ living' = living \cup {child}
  BY <1>1, ComeKeeps
<1>3. /\ families' = [families EXCEPT ![home[a]] = Extended(@, a, b, child)]
      /\ site' = site /\ owner' = owner /\ rider' = rider
      /\ knowers' = knowers /\ dormant' = dormant /\ grave' = grave
  BY DEF BearInFamily
<1>4. /\ families \in [Settlement -> Seq(SUBSET Person)]
      /\ \A s \in Settlement : families'[s] = IF s = home[a] THEN Extended(families[s], a, b, child)
                                              ELSE families[s]
  BY <1>1, <1>3 DEF EstatesInv, EstatesTypeOK
<1>5. \A s \in Settlement : Grown(families[s], families'[s], a, b, child)
  <2>1. ASSUME NEW list \in Seq(SUBSET Person)
        PROVE  Grown(list, list, a, b, child)
    BY DEF Grown
  <2>. QED
    BY <1>4, <2>1, ExtendedFacts
<1>6. families' \in [Settlement -> Seq(SUBSET Person)]
  BY <1>3, <1>4, <1>5 DEF Grown
<1>7. /\ living \cup folded \subseteq living' \cup folded'
      /\ DOMAIN grave' \subseteq born' \ living'
  BY <1>1, <1>2, <1>3, RollsOutlive
<1>8. EstatesTypeOK'
  BY <1>2, <1>3, <1>6, <1>7 DEF EstatesInv, EstatesTypeOK, tracked
<1>9. RidersLiveOn'
  BY <1>3, <1>7 DEF EstatesInv, RidersLiveOn
<1>10. KnowersRemain' /\ SomebodyKnows'
  BY <1>3, <1>7 DEF EstatesInv, KnowersRemain, SomebodyKnows, tracked
<1>11. FamiliesAreBorn'
  BY <1>1, <1>5 DEF EstatesInv, FamiliesAreBorn, Grown
<1>12. FamiliesKeepTheLiving
  <2>1. SUFFICES ASSUME NEW s \in Settlement, NEW p \in living',
                        NEW i \in DOMAIN families[s], p \in families[s][i]
                 PROVE  \E k \in DOMAIN families'[s] : p \in families'[s][k]
    BY DEF FamiliesKeepTheLiving
  <2>2. p \in living
    BY <1>1, <1>2, <2>1 DEF EstatesInv, FamiliesAreBorn
  <2>3. ~Extinct(families[s][i])
    BY <2>1, <2>2 DEF Extinct
  <2>. QED
    BY <1>5, <2>1, <2>3 DEF Grown
<1>. QED
  BY <1>8, <1>9, <1>10, <1>11, <1>12 DEF EstatesInv

\* An heir outlives the tick, and there is one if anybody of the newest family does.
LEMMA WillFacts ==
  ASSUME EstatesAssumption, EstatesInv, NEW D \in SUBSET living, NEW will \in Wills(D)
  PROVE  /\ DOMAIN will = D
         /\ \A p \in D : /\ will[p] \in (living \ D) \cup {NoOne}
                         /\ HeirsOf(p, D) # {} => will[p] \in HeirsOf(p, D)
         /\ \A p \in D : HeirsOf(p, D) \subseteq living \ D
         /\ living \subseteq Person /\ NoOne \notin living
<1>1. living \subseteq Person /\ NoOne \notin living
  BY DEF EstatesInv, EstatesTypeOK, PeopleTypeOK, EstatesAssumption
<1>2. \A p \in D : HeirsOf(p, D) \subseteq living \ D
  BY DEF HeirsOf
<1>3. DOMAIN will = D
  BY DEF Wills
<1>4. \A p \in D : IF HeirsOf(p, D) = {} THEN will[p] = NoOne ELSE will[p] \in HeirsOf(p, D)
  BY DEF Wills
<1>. QED
  BY <1>1, <1>2, <1>3, <1>4

\* Burying D: the graves say where everybody lived.
LEMMA GravesFilled ==
  ASSUME EstatesInv, NEW D \in SUBSET living, Leave(D),
         grave' = [p \in DOMAIN grave \cup D |-> IF p \in D THEN home[p] ELSE grave[p]]
  PROVE  /\ PeopleTypeOK' /\ living' = living \ D /\ born' = born
         /\ DOMAIN grave' = DOMAIN grave \cup D
         /\ DOMAIN grave' \subseteq born' \ living' /\ grave' \in [DOMAIN grave' -> Settlement]
         /\ \A p \in D : grave'[p] = home[p]
         /\ \A p \in DOMAIN grave : p \in DOMAIN grave' /\ grave'[p] = grave[p]
         /\ \A p \in (living \cup folded) \ D : p \in living' \cup folded'
<1>1. PeopleTypeOK /\ living \subseteq born /\ \A p \in D : home[p] \in Settlement
  BY DEF EstatesInv, EstatesTypeOK, PeopleTypeOK
<1>2. DOMAIN grave \subseteq born \ living /\ grave \in [DOMAIN grave -> Settlement]
  BY DEF EstatesInv, EstatesTypeOK
<1>3. PeopleTypeOK' /\ living' = living \ D /\ born' = born
  BY <1>1, LeaveKeeps DEF Leave
<1>4. DOMAIN grave' = DOMAIN grave \cup D
  OBVIOUS
<1>5. \A p \in DOMAIN grave' : grave'[p] = IF p \in D THEN home[p] ELSE grave[p]
  OBVIOUS
<1>6. grave' \in [DOMAIN grave' -> Settlement]
  BY <1>1, <1>2, <1>4
<1>7. \A p \in (living \cup folded) \ D : p \in living' \cup folded'
  BY <1>3, <1>4 DEF folded
<1>. QED
  BY <1>1, <1>2, <1>3, <1>4, <1>5, <1>6, <1>7

LEMMA DieKeeps ==
  ASSUME EstatesAssumption, EstatesInv, NEW D \in SUBSET Person, DieWithEstate(D)
  PROVE  EstatesInv' /\ families' = families /\ living' \subseteq living
<1>1. /\ D \subseteq living /\ D # {} /\ Leave(D) /\ families' = families /\ site' = site
      /\ rider' = Released(D)
      /\ grave' = [p \in DOMAIN grave \cup D |-> IF p \in D THEN home[p] ELSE grave[p]]
  BY DEF DieWithEstate
<1>2. PICK will \in Wills(D), found \in SUBSET Lost(D), last \in [Lost(D) -> D] :
        /\ owner' = Bequeathed(will)
        /\ \A c \in found : will[last[c]] # NoOne
        /\ knowers' = [c \in tracked |-> IF c \in found THEN {will[last[c]]}
                                         ELSE knowers[c] \ LocalKnowers(c, D)]
        /\ dormant' = dormant \cup (Lost(D) \ found)
  BY DEF DieWithEstate
<1>3. /\ DOMAIN will = D /\ living \subseteq Person /\ NoOne \notin living
      /\ \A p \in D : will[p] \in (living \ D) \cup {NoOne}
  BY <1>1, <1>2, WillFacts
<1>4. /\ PeopleTypeOK' /\ living' = living \ D /\ born' = born
      /\ DOMAIN grave' \subseteq born' \ living' /\ grave' \in [DOMAIN grave' -> Settlement]
      /\ DOMAIN grave' = DOMAIN grave \cup D
      /\ \A p \in D : grave'[p] = home[p]
      /\ \A p \in DOMAIN grave : p \in DOMAIN grave' /\ grave'[p] = grave[p]
      /\ \A p \in (living \cup folded) \ D : p \in living' \cup folded'
  BY <1>1, GravesFilled
<1>5. /\ families \in [Settlement -> Seq(SUBSET Person)]
      /\ site \in [DOMAIN site -> Settlement] /\ DOMAIN site \subseteq House
      /\ owner \in [DOMAIN site -> Person]
      /\ rider \in [Vehicle -> Person \cup {NoOne}]
      /\ knowers \in [tracked -> SUBSET Person] /\ tracked \subseteq Craft
      /\ dormant \subseteq tracked
  BY DEF EstatesInv, EstatesTypeOK
<1>6. Lost(D) \subseteq tracked \ dormant
  BY DEF Lost
<1>7. \A c \in found : last[c] \in D /\ will[last[c]] \in living \ D
  BY <1>2, <1>3
<1>8. owner' \in [DOMAIN site' -> Person]
  <2>1. DOMAIN owner = DOMAIN site /\ owner' = Bequeathed(will)
    BY <1>2, <1>5
  <2>2. \A h \in DOMAIN owner : owner[h] \in Person /\
          (owner[h] \in DOMAIN will => will[owner[h]] \in Person \cup {NoOne})
    BY <1>3, <1>5
  <2>. QED
    BY <1>1, <2>1, <2>2 DEF Bequeathed
<1>9. /\ rider' \in [Vehicle -> Person \cup {NoOne}]
      /\ \A v \in Vehicle : rider'[v] = NoOne \/ (rider'[v] = rider[v] /\ rider[v] \notin D)
  BY <1>1, <1>5 DEF Released
<1>10. /\ tracked' = tracked /\ dormant' \subseteq tracked
       /\ knowers' \in [tracked -> SUBSET Person]
       /\ \A c \in tracked : knowers'[c] = IF c \in found THEN {will[last[c]]}
                                           ELSE knowers[c] \ LocalKnowers(c, D)
  <2>1. tracked' = tracked
    BY <1>2 DEF tracked
  <2>2. dormant' \subseteq tracked
    BY <1>2, <1>5, <1>6
  <2>3. \A c \in tracked : knowers'[c] = IF c \in found THEN {will[last[c]]}
                                           ELSE knowers[c] \ LocalKnowers(c, D)
    BY <1>2
  <2>4. \A c \in tracked : knowers'[c] \in SUBSET Person
    <3>1. SUFFICES ASSUME NEW c \in tracked
                   PROVE  knowers'[c] \in SUBSET Person
      OBVIOUS
    <3>2. CASE c \in found
      <4>1. will[last[c]] \in Person
        BY <1>3, <1>7, <3>2
      <4>. QED
        BY <2>3, <3>2, <4>1
    <3>3. CASE c \notin found
      BY <1>5, <2>3, <3>3
    <3>. QED
      BY <3>2, <3>3
  <2>5. knowers' \in [tracked -> SUBSET Person]
    BY <1>2, <2>4
  <2>. QED
    BY <2>1, <2>2, <2>3, <2>5
<1>11. EstatesTypeOK'
  BY <1>1, <1>4, <1>5, <1>8, <1>9, <1>10 DEF EstatesTypeOK
<1>12. RidersLiveOn'
  BY <1>4, <1>9 DEF EstatesInv, RidersLiveOn
<1>13. KnowersRemain'
  <2>1. SUFFICES ASSUME NEW c \in tracked, NEW p \in knowers'[c]
                 PROVE  \/ p \in living' \cup folded'
                        \/ p \in DOMAIN grave' /\ grave'[p] # Workshop[c]
    BY <1>10 DEF KnowersRemain
  <2>2. CASE c \in found
    BY <1>4, <1>7, <1>10, <2>2
  <2>3. CASE c \notin found
    <3>1. p \in knowers[c] /\ p \notin LocalKnowers(c, D)
      BY <1>10, <2>3
    <3>2. \/ p \in living \cup folded
          \/ p \in DOMAIN grave /\ grave[p] # Workshop[c]
      BY <3>1 DEF EstatesInv, KnowersRemain
    <3>3. CASE p \in D
      BY <1>4, <3>1, <3>3 DEF LocalKnowers
    <3>4. CASE p \notin D
      BY <1>4, <3>2, <3>4
    <3>. QED
      BY <3>3, <3>4
  <2>. QED
    BY <2>2, <2>3
<1>14. SomebodyKnows'
  <2>1. SUFFICES ASSUME NEW c \in tracked, c \notin dormant'
                 PROVE  knowers'[c] # {}
    BY <1>10 DEF SomebodyKnows
  <2>2. CASE c \in found
    BY <1>10, <2>2
  <2>3. CASE c \notin found
    <3>1. c \notin Lost(D) /\ c \in tracked \ dormant
      BY <1>2, <2>1, <2>3
    <3>2. knowers[c] # {}
      BY <3>1 DEF EstatesInv, SomebodyKnows
    <3>3. LocalKnowers(c, D) = {} \/ ~(knowers[c] \subseteq LocalKnowers(c, D))
      BY <3>1 DEF Lost
    <3>. QED
      BY <1>10, <2>3, <3>2, <3>3
  <2>. QED
    BY <2>2, <2>3
<1>15. FamiliesAreBorn'
  BY <1>1, <1>4 DEF EstatesInv, FamiliesAreBorn
<1>. QED
  BY <1>1, <1>4, <1>11, <1>12, <1>13, <1>14, <1>15 DEF EstatesInv

\* The steps that begin or end an estate: nobody is born, moves or leaves.
LEMMA HutsAndMounts ==
  ASSUME EstatesInv,
         \/ \E h \in House, s \in Settlement, p \in Person : Build(h, s, p)
         \/ \E h \in House : Reclaim(h)
         \/ \E v \in Vehicle, p \in Person : Claim(v, p)
         \/ \E v \in Vehicle : Break(v)
  PROVE  EstatesInv' /\ families' = families /\ living' = living /\ grave' = grave
<1>1. /\ UNCHANGED <<home, born, families, knowers, dormant, grave>>
      /\ PeopleTypeOK' /\ living' = living /\ folded' = folded /\ tracked' = tracked
  BY DEF Build, Reclaim, Claim, Break, EstatesInv, EstatesTypeOK, PeopleTypeOK, living,
         folded, tracked
<1>2. KnowersRemain' /\ SomebodyKnows' /\ FamiliesAreBorn'
  BY <1>1 DEF EstatesInv, KnowersRemain, SomebodyKnows, FamiliesAreBorn
<1>3. CASE \/ \E h \in House, s \in Settlement, p \in Person : Build(h, s, p)
           \/ \E h \in House : Reclaim(h)
  <2>1. rider' = rider /\ RidersLiveOn'
    BY <1>1, <1>3 DEF Build, Reclaim, EstatesInv, RidersLiveOn
  <2>2. /\ site' \in [DOMAIN site' -> Settlement] /\ DOMAIN site' \subseteq House
        /\ owner' \in [DOMAIN site' -> Person]
    <3>1. CASE \E h \in House, s \in Settlement, p \in Person : Build(h, s, p)
      BY <3>1 DEF Build, EstatesInv, EstatesTypeOK
    <3>2. CASE \E h \in House : Reclaim(h)
      BY <3>2 DEF Reclaim, EstatesInv, EstatesTypeOK
    <3>. QED
      BY <1>3, <3>1, <3>2
  <2>3. EstatesTypeOK'
    BY <1>1, <2>1, <2>2 DEF EstatesInv, EstatesTypeOK
  <2>. QED
    BY <1>1, <1>2, <2>1, <2>3 DEF EstatesInv
<1>4. CASE \/ \E v \in Vehicle, p \in Person : Claim(v, p)
           \/ \E v \in Vehicle : Break(v)
  <2>1. /\ UNCHANGED <<site, owner>>
        /\ \E v \in Vehicle, p \in Person \cup {NoOne} :
             rider' = [rider EXCEPT ![v] = p] /\ (p \in living \/ p = NoOne)
    BY <1>4 DEF Claim, Break
  <2>2. rider' \in [Vehicle -> Person \cup {NoOne}] /\ RidersLiveOn'
    BY <1>1, <2>1 DEF EstatesInv, EstatesTypeOK, RidersLiveOn
  <2>3. EstatesTypeOK'
    BY <1>1, <2>1, <2>2 DEF EstatesInv, EstatesTypeOK
  <2>. QED
    BY <1>1, <1>2, <2>2, <2>3 DEF EstatesInv
<1>. QED
  BY <1>3, <1>4

LEMMA Crafts ==
  ASSUME EstatesInv,
         \/ \E c \in Craft, p \in Person : Invent(c, p)
         \/ \E c \in Craft : Outgrow(c)
         \/ \E c \in Craft, a, b \in Person : Teach(c, a, b)
  PROVE  EstatesInv' /\ families' = families /\ living' = living /\ grave' = grave
<1>1. /\ UNCHANGED <<home, born, families, site, owner, rider, grave>>
      /\ PeopleTypeOK' /\ living' = living /\ folded' = folded
  BY DEF Invent, Outgrow, Teach, EstatesInv, EstatesTypeOK, PeopleTypeOK, living, folded
<1>2. FamiliesAreBorn' /\ RidersLiveOn'
  BY <1>1 DEF EstatesInv, FamiliesAreBorn, RidersLiveOn
<1>3. /\ knowers \in [tracked -> SUBSET Person] /\ tracked \subseteq Craft
      /\ dormant \subseteq tracked /\ KnowersRemain /\ SomebodyKnows
  BY DEF EstatesInv, EstatesTypeOK
<1>4. /\ knowers' \in [tracked' -> SUBSET Person] /\ tracked' \subseteq Craft
      /\ dormant' \subseteq tracked'
      /\ \A x \in tracked' : \A p \in knowers'[x] : (x \in tracked /\ p \in knowers[x]) \/ p \in living
      /\ \A x \in tracked' \ dormant' : \/ \E p \in Person : p \in knowers'[x]
                                        \/ x \in tracked \ dormant /\ knowers[x] \subseteq knowers'[x]
  <2>1. CASE \E c \in Craft, p \in Person : Invent(c, p)
    BY <1>3, <2>1 DEF Invent, tracked, At
  <2>2. CASE \E c \in Craft : Outgrow(c)
    BY <1>3, <2>2 DEF Outgrow, tracked
  <2>3. CASE \E c \in Craft, a, b \in Person : Teach(c, a, b)
    BY <1>3, <2>3 DEF Teach, tracked, At
  <2>. QED
    BY <2>1, <2>2, <2>3
<1>5. KnowersRemain'
  BY <1>1, <1>3, <1>4 DEF KnowersRemain
<1>6. SomebodyKnows'
  BY <1>3, <1>4 DEF SomebodyKnows
<1>7. EstatesTypeOK'
  BY <1>1, <1>4 DEF EstatesInv, EstatesTypeOK
<1>. QED
  BY <1>1, <1>2, <1>5, <1>6, <1>7 DEF EstatesInv

\* What happens to people without a birth in a family and without a death.
LEMMA EstatesPeople ==
  ASSUME EstatesInv,
         \/ \E p \in Person : Arrives(p) /\ UNCHANGED estate
         \/ \E p \in Person, s \in Settlement : Move(p, s)
         \/ \E G \in SUBSET Person : Fold(G)
  PROVE  EstatesInv' /\ families' = families /\ living' \subseteq living \cup (Person \ born)
         /\ grave' = grave
<1>1. PeopleTypeOK /\ Primary \in Settlement
  BY PeopleAssumption DEF EstatesInv, EstatesTypeOK
<1>2. UNCHANGED estate
  BY DEF Move, Fold
<1>3. \/ \E p \in Person : Come({p}, Primary)
      \/ \E p \in Person, s \in Settlement : Settle({p}, s)
      \/ \E G \in SUBSET Person : Leave(G)
  BY DEF Arrives, Move, Fold
<1>4. PeopleTypeOK' /\ born \subseteq born' /\ living' \subseteq living \cup (Person \ born)
  <2>1. ASSUME NEW p \in Person, Come({p}, Primary)
        PROVE  PeopleTypeOK' /\ born \subseteq born' /\ living' \subseteq living \cup (Person \ born)
    <3>1. p \notin born /\ born' = born \cup {p}
      BY <2>1 DEF Come
    <3>2. PeopleTypeOK' /\ living' = living \cup {p}
      BY <1>1, <2>1, ComeKeeps
    <3>. QED
      BY <3>1, <3>2
  <2>2. ASSUME NEW p \in Person, NEW s \in Settlement, Settle({p}, s)
        PROVE  PeopleTypeOK' /\ born \subseteq born' /\ living' \subseteq living \cup (Person \ born)
    BY <1>1, <2>2, SettleKeeps DEF Settle
  <2>3. ASSUME NEW G \in SUBSET Person, Leave(G)
        PROVE  PeopleTypeOK' /\ born \subseteq born' /\ living' \subseteq living \cup (Person \ born)
    BY <1>1, <2>3, LeaveKeeps DEF Leave
  <2>. QED
    BY <1>3, <2>1, <2>2, <2>3
<1>. QED
  BY <1>2, <1>4, EstatesRest DEF estate

LEMMA EstatesStep ==
  ASSUME EstatesAssumption, EstatesInv, [EstatesNext]_estatesVars
  PROVE  EstatesInv' /\ FamiliesKeepTheLiving
<1>1. ASSUME families' = families, living' \subseteq living \cup (Person \ born)
      PROVE  FamiliesKeepTheLiving
  BY <1>1 DEF FamiliesKeepTheLiving
<1>2. ASSUME NEW a \in Person, NEW b \in Person, NEW child \in Person, BearInFamily(a, b, child)
      PROVE  EstatesInv' /\ FamiliesKeepTheLiving
  BY <1>2, BearKeeps
<1>3. CASE \/ \E p \in Person : Arrives(p) /\ UNCHANGED estate
           \/ \E p \in Person, s \in Settlement : Move(p, s)
           \/ \E G \in SUBSET Person : Fold(G)
  BY <1>1, <1>3, EstatesPeople
<1>4. ASSUME NEW D \in SUBSET Person, DieWithEstate(D)
      PROVE  EstatesInv' /\ FamiliesKeepTheLiving
  BY <1>1, <1>4, DieKeeps
<1>5. CASE \/ \E h \in House, s \in Settlement, p \in Person : Build(h, s, p)
           \/ \E h \in House : Reclaim(h)
           \/ \E v \in Vehicle, p \in Person : Claim(v, p)
           \/ \E v \in Vehicle : Break(v)
  <2>1. EstatesInv' /\ families' = families /\ living' = living
    BY <1>5, HutsAndMounts
  <2>. QED
    BY <1>1, <2>1
<1>6. CASE \/ \E c \in Craft, p \in Person : Invent(c, p)
           \/ \E c \in Craft : Outgrow(c)
           \/ \E c \in Craft, a, b \in Person : Teach(c, a, b)
  <2>1. EstatesInv' /\ families' = families /\ living' = living
    BY <1>6, Crafts
  <2>. QED
    BY <1>1, <2>1
<1>7. CASE UNCHANGED estatesVars
  <2>1. UNCHANGED estate /\ home' = home /\ born' = born
    BY <1>7 DEF estate, estatesVars
  <2>2. PeopleTypeOK' /\ living' = living
    BY <2>1 DEF EstatesInv, EstatesTypeOK, PeopleTypeOK, living
  <2>. QED
    BY <1>1, <2>1, <2>2, EstatesRest DEF estate
<1>. QED
  BY <1>2, <1>3, <1>4, <1>5, <1>6, <1>7 DEF EstatesNext

LEMMA InvKeepsEstates == EstatesInv => EstatesAreKept
<1>. SUFFICES ASSUME EstatesInv  PROVE EstatesAreKept
  OBVIOUS
<1>1. CraftHasKeeper
  BY DEF EstatesInv, EstatesTypeOK, KnowersRemain, SomebodyKnows, CraftHasKeeper
<1>. QED
  BY <1>1 DEF EstatesInv, EstatesAreKept

LEMMA EstatesInductive ==
  ASSUME EstatesAssumption
  PROVE  EstatesSpec => []EstatesInv
<1>1. EstatesInit => EstatesInv
  BY EstatesInitially
<1>2. EstatesInv /\ [EstatesNext]_estatesVars => EstatesInv'
  BY EstatesStep
<1>. QED
  BY <1>1, <1>2, PTL DEF EstatesSpec

\* No mount is ever claimed by the dead, and every craft that counts as alive is
\* known to somebody living, folded away, or dead in another settlement: for any
\* people, crafts and mounts, and any number of deaths in one tick.
THEOREM EstatesOutlive ==
  ASSUME EstatesAssumption
  PROVE  EstatesSpec => []EstatesAreKept
<1>1. EstatesInv => EstatesAreKept
  BY InvKeepsEstates
<1>. QED
  BY <1>1, EstatesInductive, PTL

\* A step after which an owner of a hut is buried is a step that buries the owner.
LEMMA OnlyDeathsBury ==
  ASSUME EstatesAssumption, EstatesInv, [EstatesNext]_estatesVars,
         NEW p \in living, p \in DOMAIN grave'
  PROVE  \E D \in SUBSET Person : p \in D /\ DieWithEstate(D)
<1>1. p \notin DOMAIN grave
  BY DEF EstatesInv, EstatesTypeOK
<1>2. ASSUME grave' = grave  PROVE FALSE
  BY <1>1, <1>2
<1>3. ~ \E a, b, child \in Person : BearInFamily(a, b, child)
  BY <1>2 DEF BearInFamily
<1>4. ~ \/ \E q \in Person : Arrives(q) /\ UNCHANGED estate
        \/ \E q \in Person, s \in Settlement : Move(q, s)
        \/ \E G \in SUBSET Person : Fold(G)
  BY <1>2, EstatesPeople
<1>5. ~ \/ \E h \in House, s \in Settlement, q \in Person : Build(h, s, q)
        \/ \E h \in House : Reclaim(h)
        \/ \E v \in Vehicle, q \in Person : Claim(v, q)
        \/ \E v \in Vehicle : Break(v)
  BY <1>2, HutsAndMounts
<1>6. ~ \/ \E c \in Craft, q \in Person : Invent(c, q)
        \/ \E c \in Craft : Outgrow(c)
        \/ \E c \in Craft, a, b \in Person : Teach(c, a, b)
  BY <1>2, Crafts
<1>7. ~ UNCHANGED estatesVars
  BY <1>2 DEF estatesVars
<1>8. PICK D \in SUBSET Person : DieWithEstate(D)
  BY <1>3, <1>4, <1>5, <1>6, <1>7 DEF EstatesNext
<1>9. grave' = [q \in DOMAIN grave \cup D |-> IF q \in D THEN home[q] ELSE grave[q]]
  BY <1>8 DEF DieWithEstate
<1>. QED
  BY <1>1, <1>8, <1>9

\* When an owner dies at home the hut stays in the family, if anybody of the newest
\* one outlives the tick.
THEOREM HutsStayInTheFamily ==
  ASSUME EstatesAssumption
  PROVE  EstatesSpec => HutsFollowTheFamily
<1>. DEFINE List(h) == families[home[owner[h]]]
            Mine(h) == {i \in DOMAIN List(h) : owner[h] \in List(h)[i]}
            Due(h) == /\ h \in DOMAIN owner' /\ owner[h] \in living /\ owner[h] \in DOMAIN grave'
                      /\ site[h] = home[owner[h]] /\ Mine(h) # {}
                      /\ List(h)[Max(Mine(h))] \cap living' # {}
            Passes(h) == owner'[h] \in List(h)[Max(Mine(h))] \cap living'
<1>1. ASSUME EstatesInv, [EstatesNext]_estatesVars, NEW h \in DOMAIN owner, Due(h)
      PROVE  Passes(h)
  <2>1. PICK D \in SUBSET Person : owner[h] \in D /\ DieWithEstate(D)
    BY <1>1, OnlyDeathsBury
  <2>2. PICK will \in Wills(D) : owner' = Bequeathed(will)
    BY <2>1 DEF DieWithEstate
  <2>3. D \in SUBSET living /\ living' = living \ D
    BY <2>1 DEF DieWithEstate, Leave, living
  <2>4. HeirsOf(owner[h], D) = List(h)[Max(Mine(h))] \cap living'
    <3>1. HeirsOf(owner[h], D) = IF Mine(h) = {} THEN {} ELSE (List(h)[Max(Mine(h))] \cap living) \ D
      BY DEF HeirsOf
    <3>. HIDE DEF List, Mine
    <3>. QED
      BY <1>1, <2>3, <3>1
  <2>. HIDE DEF List, Mine
  <2>5. /\ DOMAIN will = D /\ will[owner[h]] \in HeirsOf(owner[h], D)
        /\ HeirsOf(owner[h], D) \subseteq living \ D /\ NoOne \notin living
    BY <1>1, <2>1, <2>2, <2>3, <2>4, WillFacts
  <2>6. owner'[h] = will[owner[h]]
    BY <1>1, <2>1, <2>2, <2>5 DEF Bequeathed
  <2>. QED
    BY <2>4, <2>5, <2>6
<1>2. EstatesInv /\ [EstatesNext]_estatesVars => HeirsTakeTheHuts
  <2>1. SUFFICES ASSUME EstatesInv, [EstatesNext]_estatesVars, NEW h \in DOMAIN owner, Due(h)
                 PROVE  Passes(h)
    BY DEF HeirsTakeTheHuts
  <2>. QED
    BY <1>1, <2>1
<1>. QED
  BY <1>2, EstatesInductive, PTL DEF EstatesSpec, HutsFollowTheFamily

-----------------------------------------------------------------------------
(* Factions.                                                               *)

FactionsInv ==
  /\ FactionsTypeOK /\ IsFiniteSet(naming)
  /\ \A s \in Settlement : Len(factions[s]) <= FactionCap

LEMMA FactionsInitially ==
  ASSUME FactionsAssumption, FactionsInit
  PROVE  FactionsInv
<1>1. PeopleTypeOK
  BY FoundersHold DEF FactionsInit
<1>2. IsFiniteSet(naming) /\ Cardinality(naming) = 0
  BY FS_EmptySet DEF FactionsInit
<1>. QED
  BY <1>1, <1>2 DEF FactionsInit, FactionsInv, FactionsTypeOK, FactionsAssumption

\* Nothing is stored or forgotten while only people change.
LEMMA FactionsRest ==
  ASSUME FactionsInv, factions' = factions
  PROVE  FactionsStayBounded
  BY DEF FactionsInv, FactionsStayBounded, Stored

LEMMA FormKeeps ==
  ASSUME FactionsAssumption, FactionsInv, NEW d \in naming, Form(d)
  PROVE  FactionsInv' /\ FactionsStayBounded
<1>. DEFINE old == factions[d.at]
            list == Pruned(old, FactionCap)
<1>1. /\ d.at \in Settlement /\ d.members \in SUBSET Person
      /\ factions \in [Settlement -> Seq(SUBSET Person)]
      /\ old \in Seq(SUBSET Person) /\ Len(old) <= FactionCap /\ FactionCap \in Nat
  BY DEF FactionsInv, FactionsTypeOK, FactionsAssumption
<1>2. /\ list \in Seq(SUBSET Person) /\ Len(list) = Len(old)
      /\ \A i \in DOMAIN old : ~Extinct(old[i]) => \E k \in DOMAIN list : list[k] = old[i]
  <2>. HIDE DEF old
  <2>. QED
    BY <1>1, PrunedFacts
<1>3. PICK then \in Seq(SUBSET Person) :
        /\ factions' = [factions EXCEPT ![d.at] = then]
        /\ Len(then) <= FactionCap
        /\ \A k \in DOMAIN list : k \in DOMAIN then /\ then[k] = list[k]
  <2>. HIDE DEF list, old
  <2>1. CASE Len(list) >= FactionCap
    BY <1>1, <1>2, <2>1 DEF Form, list, old
  <2>2. CASE ~(Len(list) >= FactionCap)
    <3>1. /\ Append(list, d.members) \in Seq(SUBSET Person)
          /\ Len(Append(list, d.members)) = Len(list) + 1 /\ Len(list) \in Nat
          /\ \A k \in DOMAIN list : k \in DOMAIN Append(list, d.members) /\ Append(list, d.members)[k] = list[k]
      BY <1>1, <1>2
    <3>2. factions' = [factions EXCEPT ![d.at] = Append(list, d.members)]
      BY <2>2 DEF Form, list, old
    <3>3. Len(list) + 1 <= FactionCap
      BY <1>1, <2>2, <3>1
    <3>. QED
      BY <3>1, <3>2, <3>3
  <2>. QED
    BY <2>1, <2>2
<1>. HIDE DEF list
<1>4. \A s \in Settlement : factions'[s] = IF s = d.at THEN then ELSE factions[s]
  BY <1>1, <1>3
<1>5. factions' \in [Settlement -> Seq(SUBSET Person)]
  BY <1>1, <1>3
<1>6. \A s \in Settlement : Len(factions'[s]) <= FactionCap
  BY <1>3, <1>4 DEF FactionsInv
<1>7. PeopleTypeOK' /\ living' = living
  BY DEF Form, FactionsInv, FactionsTypeOK, PeopleTypeOK, living
<1>8. /\ naming' = naming \ {d} /\ naming' \subseteq naming
      /\ IsFiniteSet(naming) /\ Cardinality(naming) <= MaxNaming /\ MaxNaming \in Nat
  BY DEF Form, FactionsInv, FactionsTypeOK, FactionsAssumption
<1>9. IsFiniteSet(naming') /\ Cardinality(naming') <= MaxNaming
  <2>1. /\ IsFiniteSet(naming') /\ Cardinality(naming') <= Cardinality(naming)
        /\ Cardinality(naming') \in Nat /\ Cardinality(naming) \in Nat
    BY <1>8, FS_Subset, FS_CardinalityType
  <2>. QED
    BY <1>8, <2>1
<1>10. refused' \in Settlement \cup {0}
  BY <1>1 DEF Form
<1>11. FactionsInv'
  <2>1. naming' \subseteq [at : Settlement, members : SUBSET Person]
    BY <1>8 DEF FactionsInv, FactionsTypeOK
  <2>. QED
    BY <1>5, <1>6, <1>7, <1>9, <1>10, <2>1 DEF FactionsInv, FactionsTypeOK
<1>12. ASSUME NEW s \in Settlement, NEW members \in Stored(s), members \cap living # {}
       PROVE  members \in Stored(s)'
  <2>1. PICK i \in DOMAIN factions[s] : factions[s][i] = members
    BY <1>12 DEF Stored
  <2>2. CASE s = d.at
    <3>1. ~Extinct(old[i]) /\ i \in DOMAIN old
      BY <1>12, <2>1, <2>2 DEF Extinct
    <3>2. PICK k \in DOMAIN list : list[k] = old[i]
      BY <1>2, <3>1
    <3>. QED
      BY <1>3, <1>4, <2>1, <2>2, <3>2 DEF Stored
  <2>3. CASE s # d.at
    BY <1>4, <2>1, <2>3 DEF Stored
  <2>. QED
    BY <2>2, <2>3
<1>. QED
  BY <1>6, <1>11, <1>12 DEF FactionsStayBounded

LEMMA FactionsStep ==
  ASSUME FactionsAssumption, FactionsInv, [FactionsNext]_factionsVars
  PROVE  FactionsInv' /\ FactionsStayBounded
<1>1. CASE FactionPeople
  <2>1. PeopleTypeOK' /\ UNCHANGED <<factions, naming>> /\ refused' = 0
    BY <1>1, PeopleMovesFacts DEF FactionPeople, FactionsInv, FactionsTypeOK
  <2>. QED
    BY <2>1, FactionsRest DEF FactionsInv, FactionsTypeOK
<1>2. ASSUME NEW s \in Settlement, Detect(s)
      PROVE  FactionsInv' /\ FactionsStayBounded
  <2>1. PICK cluster \in SUBSET Pool(s) : naming' = naming \cup {[at |-> s, members |-> cluster]}
    BY <1>2 DEF Detect
  <2>2. /\ Cardinality(naming) < MaxNaming /\ refused' = 0 /\ factions' = factions
        /\ UNCHANGED <<home, born>> /\ PeopleTypeOK /\ MaxNaming \in Nat
        /\ IsFiniteSet(naming) /\ naming \subseteq [at : Settlement, members : SUBSET Person]
    BY <1>2 DEF Detect, FactionsInv, FactionsTypeOK, FactionsAssumption
  <2>3. cluster \in SUBSET Person
    BY <2>2 DEF Pool, At, PeopleTypeOK
  <2>4. naming' \subseteq [at : Settlement, members : SUBSET Person]
    BY <2>1, <2>2, <2>3
  <2>5. /\ IsFiniteSet(naming') /\ Cardinality(naming) \in Nat
        /\ Cardinality(naming') = Cardinality(naming) \/ Cardinality(naming') = Cardinality(naming) + 1
    BY <2>1, <2>2, FS_AddElement, FS_CardinalityType
  <2>6. Cardinality(naming') <= MaxNaming
    BY <2>2, <2>5
  <2>7. PeopleTypeOK'
    BY <2>2 DEF PeopleTypeOK, living
  <2>. QED
    BY <2>2, <2>4, <2>5, <2>6, <2>7, FactionsRest DEF FactionsInv, FactionsTypeOK
<1>3. CASE UNCHANGED factionsVars
  BY <1>3, FactionsRest DEF factionsVars, FactionsInv, FactionsTypeOK, PeopleTypeOK, living
<1>. QED
  BY <1>1, <1>2, <1>3, FormKeeps DEF FactionsNext

\* No step forgets a family or a faction that somebody alive belongs to, and the
\* factions stay within their cap, for any cap and however many are being named.
THEOREM NoLivingRollIsForgotten ==
  ASSUME EstatesAssumption, FactionsAssumption
  PROVE  EstatesSpec /\ FactionsSpec => KeepsTheLiving
<1>1. EstatesInv /\ [EstatesNext]_estatesVars => [FamiliesKeepTheLiving]_estatesVars
  BY EstatesStep
<1>2. EstatesSpec => [][FamiliesKeepTheLiving]_estatesVars
  BY <1>1, EstatesInductive, PTL DEF EstatesSpec
<1>3. FactionsInit => FactionsInv
  BY FactionsInitially
<1>4. FactionsInv /\ [FactionsNext]_factionsVars => FactionsInv' /\ [FactionsStayBounded]_factionsVars
  BY FactionsStep
<1>5. FactionsSpec => [][FactionsStayBounded]_factionsVars
  BY <1>3, <1>4, PTL DEF FactionsSpec
<1>. QED
  BY <1>2, <1>5 DEF KeepsTheLiving
=============================================================================
