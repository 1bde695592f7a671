------------------------ MODULE SnapshotStoreProofs -------------------------
(***************************************************************************)
(* Proofs about SnapshotStore, for any parts of a world, any policy and    *)
(* retention, and any mix of saves, stops, kills and losses of power:      *)
(* every row gives back the world it was saved from, keyframes stay, what  *)
(* a crash costs is bounded, and so are the chains and the table.  Then    *)
(* about DictDiff, the format of the patches, for dicts of any keys, any   *)
(* depth and any chain of rows: a patch gives back what it was made from.  *)
(***************************************************************************)
EXTENDS SnapshotStore, DictDiff, SequenceTheorems, FiniteSetTheorems,
        WellFoundedInduction, TLAPS

-----------------------------------------------------------------------------
(* Rows that depend on one another soundly.                                *)

\* A row has an id of its own, later rows have later ticks, and a row that is
\* not full is its patch applied to the world of an earlier row on file.
Sound(rows) ==
  /\ \A r \in rows :
       /\ r.id \in 1..MaxSaves /\ r.base \in 0..(r.id - 1)
       /\ r.tick \in 0..MaxTick /\ r.was \in Worlds
       /\ DOMAIN r.payload \subseteq Parts
  /\ \A r, s \in rows : r.id = s.id => r = s
  /\ \A r, s \in rows : r.id < s.id => r.tick <= s.tick
  /\ \A r \in rows : r.base = 0 => r.payload = r.was
  /\ \A r \in rows : r.base # 0 =>
       \E b \in rows : b.id = r.base /\ r.was = Patched(b.was, r.payload)

\* The equations of the two recursive definitions.
Links(rows, f, n) ==
  {n} \cup IF HasRow(rows, n) /\ RowOf(rows, n).base # 0
           THEN f[RowOf(rows, n).base] ELSE {}

Made(rows, f, n) ==
  LET r == RowOf(rows, n)
  IN  IF r.base = 0 THEN r.payload ELSE Patched(f[r.base], r.payload)

Ids(rows) == {r.id : r \in rows}

LEMMA Least ==
  ASSUME NEW S \in SUBSET Nat, S # {}
  PROVE  \E m \in S : \A k \in S : m <= k
<1>. DEFINE R == OpToRel(<, Nat)
<1>1. IsWellFoundedOn(R, Nat)
  BY NatLessThanWellFounded
<1>2. \A x, y \in Nat : x < y => <<x, y>> \in R
  BY DEF OpToRel
<1>. HIDE DEF R
<1>3. PICK m \in S : \A y \in S : ~(<<y, m>> \in R)
  BY <1>1, WFMin
<1>4. ASSUME NEW k \in S  PROVE m <= k
  <2>1. ~(k < m)
    BY <1>2, <1>3, Zenon
  <2>. QED
    BY <2>1
<1>. QED
  BY <1>4

\* The row of an id on file.
LEMMA RowOfFacts ==
  ASSUME NEW rows, Sound(rows), NEW r \in rows
  PROVE  RowOf(rows, r.id) = r /\ HasRow(rows, r.id)
BY DEF Sound, RowOf, HasRow

\* Both recursions are well founded, because a base is older than its row.
LEMMA ChainExists ==
  ASSUME NEW rows, Sound(rows)
  PROVE  \E f : f = [n \in 0..MaxSaves |-> Links(rows, f, n)]
<1>. DEFINE Sol(m, f) == f = [n \in 0..m |-> Links(rows, f, n)]
            Bad == {m \in 0..MaxSaves : ~\E f : Sol(m, f)}
<1>0. MaxSaves \in Nat
  BY StoreAssumption
<1>1. \A n \in 0..MaxSaves :
        HasRow(rows, n) => n # 0 /\ RowOf(rows, n).base \in 0..(n - 1)
  <2>1. \A r \in rows : r.id \in 1..MaxSaves /\ r.base \in 0..(r.id - 1)
    BY DEF Sound
  <2>. QED
    BY <2>1, RowOfFacts DEF HasRow
<1>2. SUFFICES Bad = {}
  <2>1. ASSUME Bad = {}  PROVE \E f : Sol(MaxSaves, f)
    BY <1>0, <2>1
  <2>. QED
    BY <2>1
<1>. SUFFICES ASSUME Bad # {}  PROVE FALSE
  OBVIOUS
<1>. Bad \in SUBSET Nat
  BY <1>0
<1>3. PICK m \in Bad : \A k \in Bad : m <= k
  <2>. HIDE DEF Bad
  <2>. QED
    BY Least
<1>4. m \in 0..MaxSaves /\ ~\E f : Sol(m, f)
  OBVIOUS
<1>5. CASE m = 0
  <2>. DEFINE g == [n \in 0..0 |-> {0}]
  <2>1. \A n \in 0..0 : Links(rows, g, n) = {0}
    BY <1>1, <1>0 DEF Links
  <2>2. Sol(0, g)
    BY <2>1
  <2>. QED
    BY <2>2, <1>4, <1>5
<1>6. CASE m # 0
  <2>1. m - 1 \in 0..MaxSaves /\ m - 1 \notin Bad
    BY <1>0, <1>3, <1>4, <1>6
  <2>2. PICK f : Sol(m - 1, f)
    BY <2>1
  <2>. DEFINE g == [n \in 0..m |-> IF n = m THEN Links(rows, f, m) ELSE f[n]]
  <2>3. ASSUME NEW n \in 0..m  PROVE Links(rows, g, n) = Links(rows, f, n)
    <3>1. HasRow(rows, n) => RowOf(rows, n).base \in 0..(n - 1)
      BY <1>1, <1>4, <1>0
    <3>2. HasRow(rows, n) => g[RowOf(rows, n).base] = f[RowOf(rows, n).base]
      BY <3>1, <1>4
    <3>. QED
      BY <3>2 DEF Links
  <2>4. ASSUME NEW n \in 0..m  PROVE g[n] = Links(rows, g, n)
    <3>1. CASE n = m
      BY <2>3, <3>1
    <3>2. CASE n # m
      <4>1. n \in 0..(m - 1)
        BY <3>2, <1>4, <1>0
      <4>2. f[n] = Links(rows, f, n)
        BY <4>1, <2>2
      <4>. QED
        BY <4>2, <3>2, <2>3
    <3>. QED
      BY <3>1, <3>2
  <2>5. Sol(m, g)
    BY <2>4
  <2>. QED
    BY <2>5, <1>4
<1>. QED
  BY <1>5, <1>6

\* What a chain is: the id itself, and the chain of its base.
LEMMA ChainUnfold ==
  ASSUME NEW rows, Sound(rows)
  PROVE  /\ \A r \in rows : Chain(rows, r.id) =
               {r.id} \cup IF r.base # 0 THEN Chain(rows, r.base) ELSE {}
         /\ \A n \in 0..MaxSaves : n \in Chain(rows, n)
<1>. DEFINE back == CHOOSE f : f = [n \in 0..MaxSaves |-> Links(rows, f, n)]
<1>1. \A n : Chain(rows, n) = back[n]
  BY DEF Chain, Links
<1>2. back = [n \in 0..MaxSaves |-> Links(rows, back, n)]
  BY ChainExists
<1>. HIDE DEF back
<1>3. \A n \in 0..MaxSaves : back[n] = Links(rows, back, n)
  BY <1>2
<1>4. ASSUME NEW r \in rows
      PROVE  Chain(rows, r.id) =
               {r.id} \cup IF r.base # 0 THEN Chain(rows, r.base) ELSE {}
  <2>1. r.id \in 0..MaxSaves
    BY StoreAssumption DEF Sound
  <2>2. back[r.id] = Links(rows, back, r.id)
    BY <1>3, <2>1
  <2>. QED
    BY <2>2, <1>1, RowOfFacts DEF Links
<1>5. \A n \in 0..MaxSaves : n \in Chain(rows, n)
  BY <1>1, <1>3 DEF Links
<1>. QED
  BY <1>4, <1>5

\* A chain leads from row to row.
LEMMA ChainLeads ==
  ASSUME NEW rows, Sound(rows), NEW r \in rows
  PROVE  \A n \in Chain(rows, r.id) :
           \E s \in rows : s.id = n /\ (s.base # 0 => s.base \in Chain(rows, r.id))
<1>. DEFINE Leads(id) ==
       \A n \in Chain(rows, id) :
         \E s \in rows : s.id = n /\ (s.base # 0 => s.base \in Chain(rows, id))
            Bad == {id \in Ids(rows) : ~Leads(id)}
<1>0. MaxSaves \in Nat
  BY StoreAssumption
<1>1. Bad \in SUBSET Nat
  BY <1>0 DEF Sound, Ids
<1>2. SUFFICES ASSUME Bad # {}  PROVE FALSE
  BY DEF Ids
<1>3. PICK m \in Bad : \A k \in Bad : m <= k
  <2>. HIDE DEF Bad
  <2>. QED
    BY <1>1, <1>2, Least
<1>4. PICK t \in rows : t.id = m
  BY DEF Ids
<1>5. /\ t.base \in 0..(t.id - 1) /\ t.id \in 1..MaxSaves
      /\ t.base # 0 => \E b \in rows : b.id = t.base
  BY DEF Sound
<1>6. /\ Chain(rows, t.id) = {t.id} \cup IF t.base # 0 THEN Chain(rows, t.base) ELSE {}
      /\ \A n \in 0..MaxSaves : n \in Chain(rows, n)
  BY ChainUnfold
<1>7. t.base # 0 => Leads(t.base)
  <2>1. t.base # 0 => t.base \in Ids(rows)
    BY <1>5 DEF Ids
  <2>2. t.base \notin Bad
    BY <1>3, <1>4, <1>5, <1>0
  <2>. QED
    BY <2>1, <2>2
<1>8. t.base # 0 => t.base \in Chain(rows, t.id)
  <2>1. t.base \in 0..MaxSaves
    BY <1>5, <1>0
  <2>. QED
    BY <2>1, <1>6
<1>9. Leads(t.id)
  BY <1>6, <1>7, <1>8
<1>. QED
  BY <1>4, <1>9

\* The worlds of the rows solve the second recursion.
LEMMA MadeExists ==
  ASSUME NEW rows, Sound(rows)
  PROVE  \E f : f = [n \in Ids(rows) |-> Made(rows, f, n)]
<1>. DEFINE f == [n \in Ids(rows) |-> RowOf(rows, n).was]
<1>1. ASSUME NEW n \in Ids(rows)  PROVE f[n] = Made(rows, f, n)
  <2>1. PICK r \in rows : r.id = n
    BY DEF Ids
  <2>2. RowOf(rows, n) = r /\ f[n] = r.was
    BY <2>1, RowOfFacts
  <2>3. CASE r.base = 0
    BY <2>2, <2>3 DEF Made, Sound
  <2>4. CASE r.base # 0
    <3>1. PICK b \in rows : b.id = r.base /\ r.was = Patched(b.was, r.payload)
      BY <2>4 DEF Sound
    <3>2. f[r.base] = b.was
      BY <3>1, RowOfFacts DEF Ids
    <3>. QED
      BY <2>2, <2>4, <3>1, <3>2 DEF Made
  <2>. QED
    BY <2>3, <2>4
<1>2. f = [n \in Ids(rows) |-> Made(rows, f, n)]
  BY <1>1
<1>. QED
  BY <1>2

\* Every row gives back the world it was saved from.
LEMMA SoundRowsAreWhole ==
  ASSUME NEW rows, Sound(rows), NEW r \in rows
  PROVE  Intact(rows, r.id) /\ Reconstruct(rows, r.id) = r.was
<1>0. MaxSaves \in Nat
  BY StoreAssumption
<1>1. Intact(rows, r.id)
  BY ChainLeads DEF Intact, HasRow
<1>. DEFINE made == CHOOSE f : f = [n \in Ids(rows) |-> Made(rows, f, n)]
            Bad == {id \in Ids(rows) : made[id] # RowOf(rows, id).was}
<1>2. \A n : Reconstruct(rows, n) = made[n]
  BY DEF Reconstruct, Made, Ids
<1>3. made = [n \in Ids(rows) |-> Made(rows, made, n)]
  BY MadeExists
<1>. HIDE DEF made
<1>4. Bad \in SUBSET Nat
  BY <1>0 DEF Sound, Ids
<1>5. ASSUME Bad # {}  PROVE FALSE
  <2>1. PICK m \in Bad : \A k \in Bad : m <= k
    <3>. HIDE DEF Bad
    <3>. QED
      BY <1>4, <1>5, Least
  <2>2. PICK t \in rows : t.id = m
    BY DEF Ids
  <2>3. RowOf(rows, m) = t
    BY <2>2, RowOfFacts
  <2>4. made[m] = Made(rows, made, m)
    BY <1>3
  <2>5. CASE t.base = 0
    BY <2>3, <2>4, <2>5 DEF Made, Sound
  <2>6. CASE t.base # 0
    <3>1. PICK b \in rows : b.id = t.base /\ t.was = Patched(b.was, t.payload)
      BY <2>6 DEF Sound
    <3>2. b.id \in Nat /\ m \in Nat /\ b.id < m /\ b.id \in Ids(rows)
      BY <1>0, <2>2, <3>1 DEF Sound, Ids
    <3>3. made[t.base] = b.was
      BY <2>1, <3>1, <3>2, RowOfFacts
    <3>. QED
      BY <2>3, <2>4, <2>6, <3>1, <3>3 DEF Made
  <2>. QED
    BY <2>5, <2>6
<1>6. made[r.id] = r.was
  BY <1>5, RowOfFacts DEF Ids
<1>. QED
  BY <1>1, <1>2, <1>6

-----------------------------------------------------------------------------
(* Saving and pruning.                                                     *)

\* The row that is resumed is the one saved last.
LEMMA LastFacts ==
  ASSUME NEW rows, Sound(rows), rows # {}
  PROVE  \E r \in rows :
           /\ Latest(rows) = r /\ LastId(rows) = r.id
           /\ \A s \in rows : s.id <= r.id /\ s.tick <= r.tick
<1>0. MaxSaves \in Nat /\ MaxTick \in Nat
  BY StoreAssumption
<1>. DEFINE S == {MaxSaves - r.id : r \in rows}
<1>1. S \in SUBSET Nat /\ S # {}
  BY <1>0 DEF Sound
<1>2. PICK m \in S : \A k \in S : m <= k
  <2>. HIDE DEF S
  <2>. QED
    BY <1>1, Least
<1>3. PICK r \in rows : m = MaxSaves - r.id
  OBVIOUS
<1>4. \A s \in rows : s.id \in 1..MaxSaves /\ s.tick \in 0..MaxTick
  BY DEF Sound
<1>5. ASSUME NEW s \in rows  PROVE s.id <= r.id /\ s.tick <= r.tick
  <2>1. MaxSaves - r.id <= MaxSaves - s.id
    BY <1>2, <1>3
  <2>2. s.id <= r.id
    BY <2>1, <1>0, <1>4
  <2>3. s.id = r.id \/ s.id < r.id
    BY <2>2, <1>4, <1>0
  <2>. QED
    BY <2>2, <2>3, <1>4, <1>0 DEF Sound
<1>6. LastId(rows) = r.id
  <2>. DEFINE top == CHOOSE x \in rows : \A s \in rows : s.id <= x.id
  <2>1. top \in rows /\ \A s \in rows : s.id <= top.id
    BY <1>5
  <2>2. top.id = r.id
    BY <2>1, <1>5, <1>4, <1>0
  <2>. QED
    BY <2>2 DEF LastId
<1>7. Latest(rows) = r
  <2>1. \A s \in rows \ {r} : Newer(r, s)
    <3>1. ASSUME NEW s \in rows \ {r}  PROVE Newer(r, s)
      <4>1. s.id # r.id
        BY DEF Sound
      <4>. QED
        BY <4>1, <1>0, <1>4, <1>5 DEF Newer
    <3>. QED
      BY <3>1
  <2>2. ASSUME NEW x \in rows, \A s \in rows \ {x} : Newer(x, s)  PROVE x = r
    <3>1. x # r => Newer(x, r)
      BY <2>2
    <3>. QED
      BY <3>1, <1>0, <1>4, <1>5 DEF Newer
  <2>. QED
    BY <2>1, <2>2 DEF Latest
<1>. QED
  BY <1>5, <1>6, <1>7

\* Pruning keeps the bases of what it keeps, the newest row and the keyframes.
LEMMA PrunedFacts ==
  ASSUME NEW rows, Sound(rows)
  PROVE  /\ Pruned(rows) \subseteq rows
         /\ Sound(Pruned(rows))
         /\ Keyframes(rows) \subseteq Pruned(rows)
         /\ \A r \in rows : (\A s \in rows : s.id <= r.id) => r \in Pruned(rows)
<1>0. KeepRecent \in Nat \ {0} /\ MaxSaves \in Nat /\ MaxTick \in Nat
  BY StoreAssumption
<1>. DEFINE kept == Recent(rows) \cup Keyframes(rows)
<1>1. Pruned(rows) = {r \in rows : \E k \in kept : r.id \in Chain(rows, k.id)}
  BY DEF Pruned
<1>2. kept \subseteq rows
  BY DEF Recent, Keyframes
<1>3. \A r \in rows : r.id \in Chain(rows, r.id)
  <2>1. \A r \in rows : r.id \in 0..MaxSaves
    BY <1>0 DEF Sound
  <2>. QED
    BY <2>1, ChainUnfold
<1>. HIDE DEF kept
<1>4. kept \subseteq Pruned(rows)
  BY <1>1, <1>2, <1>3
<1>5. ASSUME NEW r \in Pruned(rows), r.base # 0
      PROVE  \E b \in Pruned(rows) : b.id = r.base /\ r.was = Patched(b.was, r.payload)
  <2>1. PICK k \in kept : r.id \in Chain(rows, k.id)
    BY <1>1
  <2>2. PICK s \in rows : s.id = r.id /\ (s.base # 0 => s.base \in Chain(rows, k.id))
    BY <2>1, <1>2, ChainLeads
  <2>3. r \in rows /\ s = r
    BY <1>1, <2>2 DEF Sound
  <2>4. PICK b \in rows : b.id = r.base /\ r.was = Patched(b.was, r.payload)
    BY <1>5, <2>3 DEF Sound
  <2>5. b \in Pruned(rows)
    BY <1>1, <1>5, <2>1, <2>2, <2>3, <2>4
  <2>. QED
    BY <2>4, <2>5
<1>6. Pruned(rows) \subseteq rows
  BY <1>1
<1>7. Sound(Pruned(rows))
  BY <1>5, <1>6 DEF Sound
<1>8. ASSUME NEW r \in rows, \A s \in rows : s.id <= r.id
      PROVE  r \in Pruned(rows)
  <2>1. {s \in rows : Newer(s, r)} = {}
    <3>1. ASSUME NEW s \in rows  PROVE ~Newer(s, r)
      <4>1. s.id \in Nat /\ r.id \in Nat /\ s.tick \in Nat /\ r.tick \in Nat
        BY <1>0 DEF Sound
      <4>2. s.id <= r.id
        BY <1>8
      <4>3. s.tick <= r.tick
        <5>1. CASE s.id = r.id
          BY <5>1, <4>1 DEF Sound
        <5>2. CASE s.id < r.id
          BY <5>2 DEF Sound
        <5>. QED
          BY <5>1, <5>2, <4>1, <4>2
      <4>. QED
        BY <4>1, <4>2, <4>3 DEF Newer
    <3>. QED
      BY <3>1
  <2>2. Cardinality({s \in rows : Newer(s, r)}) = 0
    BY <2>1, FS_EmptySet
  <2>3. r \in Recent(rows)
    BY <2>2, <1>0 DEF Recent
  <2>. QED
    BY <2>3, <1>4 DEF kept
<1>. QED
  BY <1>4, <1>6, <1>7, <1>8 DEF kept

\* The row of the live world is the last one, and rests on the one before it.
LEMMA NewRowFacts ==
  ASSUME Sound(db.rows), world \in Worlds, tick \in 0..MaxTick,
         \A r \in db.rows : r.tick <= tick,
         LastId(db.rows) < MaxSaves, NEW kind
  PROVE  LET n == NewRow(kind) IN
         /\ Sound(db.rows \cup {n})
         /\ n.id = LastId(db.rows) + 1 /\ n.tick = tick /\ n.was = world
         /\ n.base = IF kind = "full" \/ db.rows = {} THEN 0 ELSE LastId(db.rows)
         /\ \A r \in db.rows : r.id < n.id
<1>. DEFINE n == NewRow(kind)
            more == db.rows \cup {n}
            whole == kind = "full" \/ db.rows = {}
<1>0. MaxSaves \in Nat /\ MaxTick \in Nat /\ KeyframeEvery \in Nat \ {0}
  BY StoreAssumption
<1>1. LastId(db.rows) \in 0..MaxSaves /\ \A r \in db.rows : r.id <= LastId(db.rows)
  <2>1. CASE db.rows = {}
    BY <2>1, <1>0 DEF LastId
  <2>2. CASE db.rows # {}
    <3>1. PICK r \in db.rows : LastId(db.rows) = r.id /\ \A s \in db.rows : s.id <= r.id
      BY <2>2, LastFacts
    <3>2. r.id \in 1..MaxSaves
      BY DEF Sound
    <3>. QED
      BY <3>1, <3>2, <1>0
  <2>. QED
    BY <2>1, <2>2
<1>2. /\ n.id = LastId(db.rows) + 1 /\ n.tick = tick /\ n.was = world
      /\ n.base = (IF whole THEN 0 ELSE LastId(db.rows))
      /\ n.payload = (IF whole THEN world ELSE Patch(db.rows))
  BY DEF NewRow
<1>3. ~whole => \E b \in db.rows :
        b.id = LastId(db.rows) /\ b.id # 0
        /\ world = Patched(b.was, Patch(db.rows)) /\ DOMAIN Patch(db.rows) \subseteq Parts
  <2>. SUFFICES ASSUME ~whole
                PROVE  \E b \in db.rows :
                         b.id = LastId(db.rows) /\ b.id # 0
                         /\ world = Patched(b.was, Patch(db.rows))
                         /\ DOMAIN Patch(db.rows) \subseteq Parts
    OBVIOUS
  <2>1. PICK b \in db.rows : LastId(db.rows) = b.id
    BY LastFacts
  <2>2. b.was \in Worlds /\ b.id \in 1..MaxSaves
    BY DEF Sound
  <2>3. Reconstruct(db.rows, LastId(db.rows)) = b.was
    BY <2>1, SoundRowsAreWhole
  <2>4. Patch(db.rows) = [p \in {q \in Parts : world[q] # b.was[q]} |-> world[p]]
    BY <2>3 DEF Patch
  <2>5. world = Patched(b.was, Patch(db.rows)) /\ DOMAIN Patch(db.rows) \subseteq Parts
    BY <2>2, <2>4 DEF Patched, Worlds
  <2>. QED
    BY <2>1, <2>2, <2>5, <1>0
<1>. HIDE DEF n, whole
<1>4. Sound(more)
  <2>1. ASSUME NEW r \in more
        PROVE  /\ r.id \in 1..MaxSaves /\ r.base \in 0..(r.id - 1)
               /\ r.tick \in 0..MaxTick /\ r.was \in Worlds
               /\ DOMAIN r.payload \subseteq Parts
    <3>1. CASE r \in db.rows
      BY <3>1 DEF Sound
    <3>2. CASE r = n
      <4>1. n.id \in 1..MaxSaves /\ n.base \in 0..(n.id - 1)
        BY <1>0, <1>1, <1>2
      <4>2. DOMAIN world = Parts
        BY DEF Worlds
      <4>. QED
        BY <3>2, <4>1, <4>2, <1>2, <1>3
    <3>. QED
      BY <3>1, <3>2
  <2>2. ASSUME NEW r \in more, NEW s \in more
        PROVE  /\ r.id = s.id => r = s
               /\ r.id < s.id => r.tick <= s.tick
    <3>1. r \in db.rows => r.id < n.id /\ r.tick <= n.tick /\ r.id \in Nat
      BY <1>0, <1>1, <1>2 DEF Sound
    <3>2. s \in db.rows => s.id < n.id /\ s.tick <= n.tick /\ s.id \in Nat
      BY <1>0, <1>1, <1>2 DEF Sound
    <3>3. n.id \in Nat
      BY <1>0, <1>1, <1>2
    <3>. QED
      BY <3>1, <3>2, <3>3 DEF Sound
  <2>3. ASSUME NEW r \in more
        PROVE  /\ r.base = 0 => r.payload = r.was
               /\ r.base # 0 =>
                    \E b \in more : b.id = r.base /\ r.was = Patched(b.was, r.payload)
    <3>1. CASE r \in db.rows
      BY <3>1 DEF Sound
    <3>2. CASE r = n
      BY <3>2, <1>2, <1>3
    <3>. QED
      BY <3>1, <3>2
  <2>. HIDE DEF more
  <2>. QED
    BY <2>1, <2>2, <2>3 DEF Sound
<1>5. \A r \in db.rows : r.id < n.id
  BY <1>0, <1>1, <1>2 DEF Sound
<1>. QED
  BY <1>2, <1>4, <1>5 DEF n, whole

\* A save adds the row of the live world, as the last one, and loses no keyframe.
LEMMA SavedRows ==
  ASSUME Sound(db.rows), world \in Worlds, tick \in 0..MaxTick,
         \A r \in db.rows : r.tick <= tick,
         LastId(db.rows) < MaxSaves, NEW kind
  PROVE  LET rows == Pruned(db.rows \cup {NewRow(kind)}) IN
         /\ Sound(rows)
         /\ Keyframes(db.rows) \subseteq rows
         /\ \E n \in rows :
              /\ n.id = LastId(db.rows) + 1 /\ n.tick = tick /\ n.was = world
              /\ Latest(rows) = n /\ LastId(rows) = n.id
              /\ \A s \in rows \ {n} : s \in db.rows
<1>. DEFINE n == NewRow(kind)
            more == db.rows \cup {n}
<1>0. MaxSaves \in Nat /\ MaxTick \in Nat /\ KeyframeEvery \in Nat \ {0}
  BY StoreAssumption
<1>1. /\ Sound(more) /\ \A r \in db.rows : r.id < n.id
      /\ n.id = LastId(db.rows) + 1 /\ n.tick = tick /\ n.was = world
  BY NewRowFacts
<1>. HIDE DEF n
<1>5. \A s \in more : s.id <= n.id
  <2>1. \A s \in more : s.id \in Nat
    BY <1>0, <1>1 DEF Sound
  <2>. QED
    BY <1>1, <2>1
<1>6. /\ Pruned(more) \subseteq more /\ Sound(Pruned(more))
      /\ Keyframes(more) \subseteq Pruned(more) /\ n \in Pruned(more)
  <2>1. n \in more
    OBVIOUS
  <2>. HIDE DEF more
  <2>. QED
    BY <1>1, <1>5, <2>1, PrunedFacts
<1>7. Keyframes(db.rows) \subseteq Keyframes(more)
  <2>1. \A r \in db.rows : r.id <= n.id
    BY <1>5
  <2>. QED
    BY <2>1 DEF Keyframes
<1>8. Latest(Pruned(more)) = n /\ LastId(Pruned(more)) = n.id
  <2>1. PICK r \in Pruned(more) :
          /\ Latest(Pruned(more)) = r /\ LastId(Pruned(more)) = r.id
          /\ \A s \in Pruned(more) : s.id <= r.id
    <3>. HIDE DEF more
    <3>. QED
      BY <1>6, LastFacts
  <2>2. r.id = n.id
    <3>1. r.id <= n.id /\ n.id <= r.id
      BY <2>1, <1>5, <1>6
    <3>2. r.id \in 1..MaxSaves /\ n.id \in 1..MaxSaves
      BY <1>6 DEF Sound
    <3>. QED
      BY <3>1, <3>2, <1>0
  <2>3. r = n
    BY <2>2, <1>6 DEF Sound
  <2>. QED
    BY <2>1, <2>3
<1>. QED
  BY <1>1, <1>6, <1>7, <1>8 DEF n

-----------------------------------------------------------------------------
(* The length of chains and of the table.                                  *)

\* A row rests on the one saved just before it, the chain of each is short, and
\* the first row, which is full, is never pruned.
Compact(rows) ==
  /\ \A r \in rows : r.base \in {0, r.id - 1}
  /\ \A r \in rows : \A n \in Chain(rows, r.id) : r.id - n < FullEvery
  /\ rows # {} => \E r \in rows : r.id = 1 /\ r.base = 0 /\ r.tick = 0

\* The table as the recent rows, the keyframes and their bases fill it.
Fits(rows) ==
  rows # {} =>
    Cardinality(rows) <=
      KeepRecent + FullEvery + FullEvery * (Latest(rows).tick \div KeyframeEvery)

\* What holds of a row once it holds of its base holds of every row.
LEMMA RowInduction ==
  ASSUME NEW rows, Sound(rows), NEW S,
         \A r \in rows : (r.base # 0 => r.base \in S) => r.id \in S
  PROVE  \A r \in rows : r.id \in S
<1>. DEFINE Bad == Ids(rows) \ S
<1>0. MaxSaves \in Nat
  BY StoreAssumption
<1>1. Bad \in SUBSET Nat
  BY <1>0 DEF Sound, Ids
<1>2. ASSUME Bad # {}  PROVE FALSE
  <2>1. PICK m \in Bad : \A k \in Bad : m <= k
    <3>. HIDE DEF Bad
    <3>. QED
      BY <1>1, <1>2, Least
  <2>2. PICK r \in rows : r.id = m
    BY DEF Ids
  <2>3. ASSUME r.base # 0  PROVE r.base \in S
    <3>1. r.base \in Ids(rows) /\ r.base \in Nat /\ r.id \in Nat /\ r.base < r.id
      BY <1>0, <2>3 DEF Sound, Ids
    <3>. QED
      BY <2>1, <2>2, <3>1
  <2>. QED
    BY <2>2, <2>3
<1>. QED
  BY <1>2 DEF Ids

LEMMA ChainGoesDown ==
  ASSUME NEW rows, Sound(rows)
  PROVE  \A r \in rows : Chain(rows, r.id) \subseteq 1..r.id
<1>. DEFINE S == {id \in Ids(rows) : Chain(rows, id) \subseteq 1..id}
<1>1. ASSUME NEW r \in rows, r.base # 0 => r.base \in S
      PROVE  r.id \in S
  <2>1. /\ Chain(rows, r.id) = {r.id} \cup IF r.base # 0 THEN Chain(rows, r.base) ELSE {}
        /\ r.id \in Ids(rows)
    BY ChainUnfold DEF Ids
  <2>2. r.id \in 1..MaxSaves /\ r.base \in 0..(r.id - 1) /\ MaxSaves \in Nat
    BY StoreAssumption DEF Sound
  <2>3. r.base # 0 => Chain(rows, r.base) \subseteq 1..r.id
    BY <1>1, <2>2
  <2>. QED
    BY <2>1, <2>2, <2>3
<1>2. \A r \in rows : r.id \in S
  <2>. HIDE DEF S
  <2>. QED
    BY <1>1, RowInduction
<1>. QED
  BY <1>2

\* Rows that come or go elsewhere leave a chain alone.
LEMMA ChainStays ==
  ASSUME NEW rows, NEW more, Sound(rows), Sound(more), rows \subseteq more
  PROVE  \A r \in rows : Chain(rows, r.id) = Chain(more, r.id)
<1>. DEFINE S == {id \in Ids(rows) : Chain(rows, id) = Chain(more, id)}
<1>1. ASSUME NEW r \in rows, r.base # 0 => r.base \in S
      PROVE  r.id \in S
  <2>1. Chain(rows, r.id) = {r.id} \cup IF r.base # 0 THEN Chain(rows, r.base) ELSE {}
    BY ChainUnfold
  <2>2. Chain(more, r.id) = {r.id} \cup IF r.base # 0 THEN Chain(more, r.base) ELSE {}
    <3>1. r \in more
      OBVIOUS
    <3>. QED
      BY <3>1, ChainUnfold
  <2>. QED
    BY <1>1, <2>1, <2>2 DEF Ids
<1>2. \A r \in rows : r.id \in S
  <2>. HIDE DEF S
  <2>. QED
    BY <1>1, RowInduction
<1>. QED
  BY <1>2

LEMMA PrunedIsCompact ==
  ASSUME NEW rows, Sound(rows), Compact(rows)
  PROVE  Compact(Pruned(rows))
<1>1. /\ Pruned(rows) \subseteq rows /\ Sound(Pruned(rows))
      /\ Keyframes(rows) \subseteq Pruned(rows)
  BY PrunedFacts
<1>2. \A r \in Pruned(rows) : Chain(Pruned(rows), r.id) = Chain(rows, r.id)
  BY <1>1, ChainStays
<1>3. ASSUME Pruned(rows) # {}
      PROVE  \E r \in Pruned(rows) : r.id = 1 /\ r.base = 0 /\ r.tick = 0
  <2>1. PICK r \in rows : r.id = 1 /\ r.base = 0 /\ r.tick = 0
    BY <1>1, <1>3 DEF Compact
  <2>2. \A s \in rows : r.id <= s.id
    BY <2>1, StoreAssumption DEF Sound
  <2>3. r \in Keyframes(rows)
    BY <2>2 DEF Keyframes
  <2>. QED
    BY <1>1, <2>1, <2>3
<1>. QED
  BY <1>1, <1>2, <1>3 DEF Compact

\* Of two rows the later one is the newer one.
LEMMA NewerIsLater ==
  ASSUME NEW rows, Sound(rows), NEW r \in rows, NEW s \in rows
  PROVE  Newer(s, r) <=> r.id < s.id
<1>1. r.id \in Nat /\ s.id \in Nat /\ r.tick \in Nat /\ s.tick \in Nat
  BY StoreAssumption DEF Sound
<1>2. /\ r.id < s.id => r.tick <= s.tick
      /\ s.id < r.id => s.tick <= r.tick
      /\ r.id = s.id => r = s
  BY DEF Sound
<1>. QED
  BY <1>1, <1>2 DEF Newer

\* Rows are counted by their ids.
LEMMA RowsWithin ==
  ASSUME NEW rows, Sound(rows), NEW S \in SUBSET rows, NEW lo \in Int, NEW hi \in Int,
         \A r \in S : r.id \in lo..hi
  PROVE  /\ IsFiniteSet(S) /\ Cardinality(S) \in Nat
         /\ Cardinality(S) <= IF lo > hi THEN 0 ELSE hi - lo + 1
<1>. DEFINE number == [r \in S |-> r.id]
<1>1. number \in Injection(S, lo..hi)
  <2>1. number \in [S -> lo..hi]
    OBVIOUS
  <2>2. \A r, s \in S : number[r] = number[s] => r = s
    BY DEF Sound
  <2>. QED
    BY <2>1, <2>2 DEF Injection, IsInjective
<1>2. IsFiniteSet(lo..hi) /\ Cardinality(lo..hi) = IF lo > hi THEN 0 ELSE hi - lo + 1
  BY FS_Interval
<1>. HIDE DEF number
<1>3. IsFiniteSet(S) /\ Cardinality(S) <= Cardinality(lo..hi)
  BY <1>1, <1>2, FS_Injection
<1>4. Cardinality(S) \in Nat
  BY <1>3, FS_CardinalityType
<1>. QED
  BY <1>2, <1>3, <1>4

\* The recent rows are those from some row on, and no more than are to be kept.
LEMMA RecentAreFew ==
  ASSUME NEW rows, Sound(rows), rows # {}
  PROVE  \E o \in Recent(rows) :
           LET young == {r \in rows : o.id <= r.id} IN
           /\ Recent(rows) \subseteq young
           /\ IsFiniteSet(young) /\ Cardinality(young) \in Nat
           /\ Cardinality(young) <= KeepRecent
<1>0. KeepRecent \in Nat \ {0} /\ MaxSaves \in Nat
  BY StoreAssumption
<1>1. \A r \in rows : r.id \in 1..MaxSaves /\ r.id \in Nat
  BY <1>0 DEF Sound
<1>2. Recent(rows) # {}
  <2>1. PICK r \in rows : \A s \in rows : s.id <= r.id
    BY LastFacts
  <2>2. {s \in rows : Newer(s, r)} = {}
    BY <1>1, <2>1, NewerIsLater
  <2>3. Cardinality({s \in rows : Newer(s, r)}) = 0
    BY <2>2, FS_EmptySet
  <2>. QED
    BY <1>0, <2>3 DEF Recent
<1>. DEFINE S == {r.id : r \in Recent(rows)}
<1>3. S \in SUBSET Nat /\ S # {}
  BY <1>1, <1>2 DEF Recent
<1>4. PICK m \in S : \A k \in S : m <= k
  <2>. HIDE DEF S
  <2>. QED
    BY <1>3, Least
<1>5. PICK o \in Recent(rows) : o.id = m
  OBVIOUS
<1>. DEFINE young == {r \in rows : o.id <= r.id}
            after == {s \in rows : Newer(s, o)}
<1>6. o \in rows /\ Cardinality(after) < KeepRecent
  BY DEF Recent
<1>7. Recent(rows) \subseteq young
  BY <1>4, <1>5 DEF Recent
<1>8. young = after \cup {o}
  <2>1. \A s \in rows : Newer(s, o) <=> o.id < s.id
    BY <1>6, NewerIsLater
  <2>2. \A s \in rows : o.id <= s.id <=> o.id < s.id \/ s = o
    BY <1>1, <1>6 DEF Sound
  <2>. QED
    BY <1>6, <2>1, <2>2
<1>9. IsFiniteSet(after) /\ Cardinality(after) \in Nat
  <2>1. after \in SUBSET rows /\ (\A r \in after : r.id \in 1..MaxSaves) /\ 1 \in Int /\ MaxSaves \in Int
    BY <1>0, <1>1
  <2>. HIDE DEF after
  <2>. QED
    BY <2>1, RowsWithin
<1>. HIDE DEF after, young
<1>10. IsFiniteSet(young) /\ Cardinality(young) <= Cardinality(after) + 1
  <2>1. /\ IsFiniteSet(after \cup {o})
        /\ Cardinality(after \cup {o}) = IF o \in after THEN Cardinality(after) ELSE Cardinality(after) + 1
    BY <1>9, FS_AddElement
  <2>. QED
    BY <1>8, <1>9, <2>1
<1>11. Cardinality(young) \in Nat
  BY <1>10, FS_CardinalityType
<1>12. Cardinality(young) <= KeepRecent
  BY <1>0, <1>6, <1>9, <1>10, <1>11
<1>. QED
  BY <1>7, <1>10, <1>11, <1>12 DEF young

\* A chain that passes below a row passes through it, and goes on as its chain.
LEMMA ChainsMeet ==
  ASSUME NEW rows, Sound(rows), Compact(rows), NEW o \in rows
  PROVE  \A k \in rows : o.id <= k.id =>
           \A n \in Chain(rows, k.id) : o.id <= n \/ n \in Chain(rows, o.id)
<1>. DEFINE S == {id \in Ids(rows) : o.id <= id =>
                    \A n \in Chain(rows, id) : o.id <= n \/ n \in Chain(rows, o.id)}
<1>0. o.id \in Nat
  BY StoreAssumption DEF Sound
<1>1. ASSUME NEW r \in rows, r.base # 0 => r.base \in S
      PROVE  r.id \in S
  <2>1. /\ Chain(rows, r.id) = {r.id} \cup IF r.base # 0 THEN Chain(rows, r.base) ELSE {}
        /\ r.id \in Ids(rows)
    BY ChainUnfold DEF Ids
  <2>2. r.id \in Nat /\ r.base \in {0, r.id - 1}
    BY StoreAssumption DEF Sound, Compact
  <2>3. CASE r.id = o.id
    BY <2>1, <2>3
  <2>4. CASE o.id < r.id
    <3>1. r.base # 0 => o.id <= r.base
      BY <1>0, <2>2, <2>4
    <3>2. r.base # 0 => \A n \in Chain(rows, r.base) : o.id <= n \/ n \in Chain(rows, o.id)
      BY <1>1, <3>1
    <3>. QED
      BY <1>0, <2>1, <2>2, <2>4, <3>2
  <2>5. CASE r.id < o.id
    BY <1>0, <2>1, <2>2, <2>5
  <2>. QED
    BY <1>0, <2>2, <2>3, <2>4, <2>5
<1>2. \A r \in rows : r.id \in S
  <2>. HIDE DEF S
  <2>. QED
    BY <1>1, RowInduction
<1>. QED
  BY <1>2

\* Between two lengths of time there is no fewer of a unit in the longer one.
LEMMA DivGrows ==
  ASSUME NEW d \in Nat \ {0}, NEW a \in Nat, NEW b \in Nat, a <= b
  PROVE  a \div d <= b \div d /\ a \div d \in Nat /\ b \div d \in Nat
OBVIOUS

\* The chains of the keyframes of later intervals: one for each, none longer than
\* FullEvery, so that a row among them is known by its interval and its depth.
LEMMA KeyframesAreFew ==
  ASSUME NEW rows, Sound(rows), Compact(rows), rows # {}
  PROVE  LET q == Latest(rows).tick \div KeyframeEvery
             old == {r \in rows : \E k \in Keyframes(rows) :
                                    Bucket(k) # 0 /\ r.id \in Chain(rows, k.id)}
         IN  /\ q \in Nat /\ IsFiniteSet(old) /\ Cardinality(old) \in Nat
             /\ Cardinality(old) <= FullEvery * q
<1>0. KeyframeEvery \in Nat \ {0} /\ FullEvery \in Nat \ {0} /\ MaxSaves \in Nat /\ MaxTick \in Nat
  BY StoreAssumption
<1>. DEFINE q == Latest(rows).tick \div KeyframeEvery
            leads(r, k) == Bucket(k) # 0 /\ r.id \in Chain(rows, k.id)
            old == {r \in rows : \E k \in Keyframes(rows) : leads(r, k)}
            key(r) == CHOOSE k \in Keyframes(rows) : leads(r, k)
            place == [r \in old |-> <<Bucket(key(r)), key(r).id - r.id>>]
<1>1. PICK l \in rows : Latest(rows) = l /\ \A s \in rows : s.tick <= l.tick
  BY LastFacts
<1>2. \A r \in rows : r.tick \in Nat /\ r.id \in Nat
  BY <1>0 DEF Sound
<1>3. q \in Nat /\ \A k \in rows : Bucket(k) \in 0..q
  <2>1. ASSUME NEW k \in rows  PROVE Bucket(k) \in 0..q
    <3>1. k.tick \in Nat /\ l.tick \in Nat /\ k.tick <= l.tick
      BY <1>1, <1>2
    <3>2. /\ k.tick \div KeyframeEvery <= l.tick \div KeyframeEvery
          /\ k.tick \div KeyframeEvery \in Nat /\ l.tick \div KeyframeEvery \in Nat
      BY <1>0, <3>1, DivGrows
    <3>. QED
      BY <1>1, <3>2 DEF Bucket
  <2>2. l.tick \div KeyframeEvery \in Nat
    BY <1>0, <1>2, DivGrows
  <2>. QED
    BY <1>1, <2>1, <2>2
<1>4. ASSUME NEW r \in old
      PROVE  /\ key(r) \in Keyframes(rows) /\ key(r) \in rows
             /\ Bucket(key(r)) \in 1..q /\ key(r).id - r.id \in 0..(FullEvery - 1)
  <2>1. key(r) \in Keyframes(rows) /\ leads(r, key(r))
    OBVIOUS
  <2>2. key(r) \in rows /\ r \in rows
    BY <2>1 DEF Keyframes
  <2>. HIDE DEF key, old
  <2>3. Bucket(key(r)) \in 1..q
    BY <1>3, <2>1, <2>2
  <2>4. r.id \in Chain(rows, key(r).id)
    BY <2>1
  <2>5. r.id \in 1..key(r).id /\ key(r).id - r.id < FullEvery
    BY <2>2, <2>4, ChainGoesDown DEF Compact
  <2>6. key(r).id \in Nat
    BY <1>2, <2>2
  <2>. QED
    BY <1>0, <2>1, <2>2, <2>3, <2>5, <2>6
<1>5. place \in Injection(old, (1..q) \X (0..(FullEvery - 1)))
  <2>1. place \in [old -> (1..q) \X (0..(FullEvery - 1))]
    <3>1. \A r \in old : place[r] \in (1..q) \X (0..(FullEvery - 1))
      <4>. HIDE DEF key, old, q
      <4>. QED
        BY <1>4
    <3>. QED
      BY <3>1
  <2>2. ASSUME NEW r \in old, NEW s \in old, place[r] = place[s]  PROVE r = s
    <3>0. Bucket(key(r)) = Bucket(key(s)) /\ key(r).id - r.id = key(s).id - s.id
      <4>. HIDE DEF key
      <4>. QED
        BY <2>2
    <3>1. r \in rows /\ s \in rows
      OBVIOUS
    <3>. HIDE DEF place, key, old
    <3>2. /\ key(r) \in Keyframes(rows) /\ key(s) \in Keyframes(rows)
          /\ key(r) \in rows /\ key(s) \in rows
      BY <1>4
    <3>3. key(r).id <= key(s).id /\ key(s).id <= key(r).id
      BY <3>0, <3>2 DEF Keyframes
    <3>4. key(r).id \in Nat /\ key(s).id \in Nat /\ r.id \in Nat /\ s.id \in Nat
      BY <1>2, <3>1, <3>2
    <3>5. r.id = s.id
      BY <3>0, <3>3, <3>4
    <3>. QED
      BY <3>1, <3>5 DEF Sound
  <2>. HIDE DEF place, old
  <2>. QED
    BY <2>1, <2>2 DEF Injection, IsInjective
<1>. HIDE DEF place, old, q
<1>6. /\ IsFiniteSet((1..q) \X (0..(FullEvery - 1)))
      /\ Cardinality((1..q) \X (0..(FullEvery - 1))) = q * FullEvery
  <2>. DEFINE high == FullEvery - 1
  <2>1. high \in Int /\ 0 \in Int /\ 1 \in Int /\ q \in Int
    BY <1>0, <1>3
  <2>. HIDE DEF high
  <2>2. /\ IsFiniteSet(1..q) /\ Cardinality(1..q) = IF 1 > q THEN 0 ELSE q - 1 + 1
        /\ IsFiniteSet(0..high) /\ Cardinality(0..high) = IF 0 > high THEN 0 ELSE high - 0 + 1
    BY <2>1, FS_Interval
  <2>3. Cardinality(1..q) = q /\ Cardinality(0..high) = FullEvery
    BY <1>0, <1>3, <2>2 DEF high
  <2>4. /\ IsFiniteSet((1..q) \X (0..high))
        /\ Cardinality((1..q) \X (0..high)) = Cardinality(1..q) * Cardinality(0..high)
    BY <2>2, FS_Product
  <2>. QED
    BY <2>3, <2>4 DEF high
<1>7. IsFiniteSet(old) /\ Cardinality(old) <= q * FullEvery
  BY <1>5, <1>6, FS_Injection
<1>8. Cardinality(old) \in Nat
  BY <1>7, FS_CardinalityType
<1>9. Cardinality(old) <= FullEvery * q
  BY <1>0, <1>3, <1>7, <1>8
<1>. QED
  BY <1>3, <1>7, <1>8, <1>9 DEF old, q

LEMMA UnionCount ==
  ASSUME NEW S, IsFiniteSet(S), NEW T, IsFiniteSet(T), NEW a \in Int, NEW b \in Int,
         Cardinality(S) <= a, Cardinality(T) <= b
  PROVE  IsFiniteSet(S \cup T) /\ Cardinality(S \cup T) <= a + b
<1>1. /\ IsFiniteSet(S \cup T)
      /\ Cardinality(S \cup T) = Cardinality(S) + Cardinality(T) - Cardinality(S \cap T)
  BY FS_Union
<1>2. IsFiniteSet(S \cap T)
  BY FS_Subset
<1>3. Cardinality(S) \in Nat /\ Cardinality(T) \in Nat /\ Cardinality(S \cap T) \in Nat
  BY <1>2, FS_CardinalityType
<1>. QED
  BY <1>1, <1>3

\* What pruning leaves: the recent rows, less than FullEvery below the oldest of
\* them, the first row, and the chains of the later keyframes.
LEMMA PrunedFits ==
  ASSUME NEW rows, Sound(rows), Compact(rows), rows # {}
  PROVE  Cardinality(Pruned(rows)) <=
           KeepRecent + FullEvery + FullEvery * (Latest(rows).tick \div KeyframeEvery)
<1>. DEFINE q == Latest(rows).tick \div KeyframeEvery
            leads(r, k) == Bucket(k) # 0 /\ r.id \in Chain(rows, k.id)
            old == {r \in rows : \E k \in Keyframes(rows) : leads(r, k)}
<1>0. /\ KeyframeEvery \in Nat \ {0} /\ FullEvery \in Nat \ {0} /\ KeepRecent \in Nat \ {0}
      /\ MaxSaves \in Nat
  BY StoreAssumption
<1>1. q \in Nat /\ IsFiniteSet(old) /\ Cardinality(old) \in Nat /\ Cardinality(old) <= FullEvery * q
  BY KeyframesAreFew
<1>2. PICK o \in Recent(rows) :
        LET young == {r \in rows : o.id <= r.id} IN
        /\ Recent(rows) \subseteq young
        /\ IsFiniteSet(young) /\ Cardinality(young) \in Nat
        /\ Cardinality(young) <= KeepRecent
  BY RecentAreFew
<1>. DEFINE young == {r \in rows : o.id <= r.id}
            low == o.id - FullEvery + 1
            high == o.id - 1
            below == {r \in rows : r.id \in low..high}
<1>3. o \in rows /\ o.id \in Nat /\ \A r \in rows : r.id \in 1..MaxSaves /\ r.id \in Nat
  BY <1>0 DEF Recent, Sound
<1>4. PICK first \in rows : first.id = 1 /\ first.base = 0 /\ first.tick = 0
  BY DEF Compact
<1>5. Pruned(rows) \subseteq (young \cup (below \cup {first})) \cup old
  <2>. SUFFICES ASSUME NEW r \in Pruned(rows)
                PROVE  r \in young \/ r \in below \/ r = first \/ r \in old
    OBVIOUS
  <2>1. r \in rows /\ r.id \in Nat
    BY <1>3 DEF Pruned
  <2>2. PICK k \in Recent(rows) \cup Keyframes(rows) : r.id \in Chain(rows, k.id)
    BY DEF Pruned
  <2>3. CASE k \in Recent(rows)
    <3>1. k \in rows /\ o.id <= k.id
      BY <1>2, <2>3
    <3>2. o.id <= r.id \/ r.id \in Chain(rows, o.id)
      BY <1>3, <2>2, <3>1, ChainsMeet
    <3>3. r.id \in Chain(rows, o.id) => r.id \in 1..o.id /\ o.id - r.id < FullEvery
      BY <1>3, ChainGoesDown DEF Compact
    <3>. QED
      BY <1>0, <1>3, <2>1, <3>2, <3>3
  <2>4. CASE k \in Keyframes(rows) /\ Bucket(k) # 0
    BY <2>1, <2>2, <2>4
  <2>5. CASE k \in Keyframes(rows) /\ Bucket(k) = 0
    <3>1. k \in rows
      BY <2>5 DEF Keyframes
    <3>2. Bucket(first) = 0
      BY <1>0, <1>4 DEF Bucket
    <3>3. k.id <= 1
      BY <1>4, <2>5, <3>2 DEF Keyframes
    <3>4. k.id \in Nat /\ k.id >= 1
      BY <1>3, <3>1
    <3>5. k = first
      BY <1>4, <3>1, <3>3, <3>4 DEF Sound
    <3>6. Chain(rows, first.id) = {first.id}
      BY <1>4, ChainUnfold
    <3>7. r.id = first.id
      BY <2>2, <3>5, <3>6
    <3>. QED
      BY <2>1, <3>7 DEF Sound
  <2>. QED
    BY <2>2, <2>3, <2>4, <2>5
<1>6. IsFiniteSet(young) /\ Cardinality(young) <= KeepRecent
  BY <1>2
<1>7. IsFiniteSet(below) /\ Cardinality(below) <= FullEvery - 1
  <2>1. below \in SUBSET rows /\ low \in Int /\ high \in Int /\ \A r \in below : r.id \in low..high
    BY <1>0, <1>3
  <2>2. (IF low > high THEN 0 ELSE high - low + 1) = FullEvery - 1
    BY <1>0, <1>3
  <2>. HIDE DEF below, low, high
  <2>3. IsFiniteSet(below) /\ Cardinality(below) <= IF low > high THEN 0 ELSE high - low + 1
    BY <2>1, RowsWithin
  <2>. QED
    BY <2>2, <2>3
<1>8. IsFiniteSet({first}) /\ Cardinality({first}) <= 1
  BY FS_Singleton
<1>. HIDE DEF young, below, old, q
<1>9. IsFiniteSet(below \cup {first}) /\ Cardinality(below \cup {first}) <= FullEvery
  <2>1. FullEvery - 1 \in Int /\ 1 \in Int /\ FullEvery - 1 + 1 = FullEvery
    BY <1>0
  <2>. QED
    BY <1>7, <1>8, <2>1, UnionCount
<1>10. /\ IsFiniteSet(young \cup (below \cup {first}))
       /\ Cardinality(young \cup (below \cup {first})) <= KeepRecent + FullEvery
  <2>1. KeepRecent \in Int /\ FullEvery \in Int
    BY <1>0
  <2>. QED
    BY <1>6, <1>9, <2>1, UnionCount
<1>. DEFINE all == (young \cup (below \cup {first})) \cup old
<1>11. IsFiniteSet(all) /\ Cardinality(all) <= KeepRecent + FullEvery + FullEvery * q
  <2>. DEFINE a == KeepRecent + FullEvery
              b == FullEvery * q
  <2>1. a \in Int /\ b \in Int
    BY <1>0, <1>1
  <2>2. Cardinality(young \cup (below \cup {first})) <= a /\ Cardinality(old) <= b
    BY <1>1, <1>10
  <2>. HIDE DEF a, b
  <2>3. IsFiniteSet(all) /\ Cardinality(all) <= a + b
    BY <1>1, <1>10, <2>1, <2>2, UnionCount
  <2>. QED
    BY <2>3 DEF a, b
<1>12. Cardinality(Pruned(rows)) <= Cardinality(all) /\ IsFiniteSet(Pruned(rows))
  BY <1>5, <1>11, FS_Subset
<1>13. Cardinality(Pruned(rows)) \in Nat /\ Cardinality(all) \in Nat
  BY <1>11, <1>12, FS_CardinalityType
<1>14. KeepRecent + FullEvery + FullEvery * q \in Int
  BY <1>0, <1>1
<1>15. Cardinality(Pruned(rows)) <= KeepRecent + FullEvery + FullEvery * q
  BY <1>11, <1>12, <1>13, <1>14
<1>. QED
  BY <1>15 DEF q

\* The chain of a new row: itself, and the last row's unless it is full.
LEMMA SavedIsCompact ==
  ASSUME Sound(db.rows), Compact(db.rows), world \in Worlds, tick \in 0..MaxTick,
         \A r \in db.rows : r.tick <= tick, db.rows = {} => tick = 0,
         LastId(db.rows) < MaxSaves, NEW kind,
         kind # "full" =>
           \A n \in Chain(db.rows, LastId(db.rows)) : LastId(db.rows) - n < FullEvery - 1
  PROVE  LET rows == Pruned(db.rows \cup {NewRow(kind)})
             last == LastId(db.rows)
         IN  /\ Compact(rows) /\ Fits(rows)
             /\ LastId(rows) = last + 1
             /\ Chain(rows, last + 1) \subseteq
                  {last + 1} \cup IF kind = "full" THEN {} ELSE Chain(db.rows, last)
<1>. DEFINE n == NewRow(kind)
            more == db.rows \cup {n}
            last == LastId(db.rows)
            rows == Pruned(more)
<1>0. MaxSaves \in Nat /\ FullEvery \in Nat \ {0}
  BY StoreAssumption
<1>1. /\ Sound(more) /\ \A r \in db.rows : r.id < n.id
      /\ n.id = last + 1 /\ n.tick = tick
      /\ n.base = IF kind = "full" \/ db.rows = {} THEN 0 ELSE last
  BY NewRowFacts
<1>. HIDE DEF n
<1>2. db.rows # {} => \E l \in db.rows : last = l.id
  BY LastFacts
<1>3. last \in Nat /\ n.id \in Nat
  <2>1. n.id \in 1..MaxSaves
    BY <1>1 DEF Sound
  <2>2. db.rows = {} => last = 0
    BY DEF LastId
  <2>3. db.rows # {} => last \in Nat
    BY <1>0, <1>2 DEF Sound
  <2>. QED
    BY <1>0, <2>1, <2>2, <2>3
<1>4. \A r \in db.rows : Chain(more, r.id) = Chain(db.rows, r.id)
  <2>1. db.rows \subseteq more
    OBVIOUS
  <2>. HIDE DEF more
  <2>. QED
    BY <1>1, <2>1, ChainStays
<1>5. Chain(more, n.id) = {n.id} \cup IF n.base # 0 THEN Chain(db.rows, last) ELSE {}
  <2>1. Chain(more, n.id) = {n.id} \cup IF n.base # 0 THEN Chain(more, n.base) ELSE {}
    <3>1. n \in more
      OBVIOUS
    <3>. HIDE DEF more
    <3>. QED
      BY <1>1, <3>1, ChainUnfold
  <2>2. n.base # 0 => n.base = last /\ Chain(more, last) = Chain(db.rows, last)
    BY <1>1, <1>2, <1>4
  <2>. QED
    BY <2>1, <2>2
<1>6. Compact(more)
  <2>1. n.base \in {0, n.id - 1}
    BY <1>1, <1>3
  <2>2. ASSUME NEW m \in Chain(more, n.id)  PROVE n.id - m < FullEvery
    <3>1. CASE m = n.id
      BY <1>0, <1>3, <3>1
    <3>2. CASE m # n.id
      <4>1. n.base # 0 /\ m \in Chain(db.rows, last)
        BY <1>5, <2>2, <3>2
      <4>2. kind # "full" /\ db.rows # {}
        BY <1>1, <4>1
      <4>3. m \in Nat
        BY <1>2, <4>1, <4>2, ChainGoesDown
      <4>4. last - m < FullEvery - 1
        BY <4>1, <4>2
      <4>. QED
        BY <1>0, <1>1, <1>3, <4>3, <4>4
    <3>. QED
      BY <3>1, <3>2
  <2>3. \E r \in more : r.id = 1 /\ r.base = 0 /\ r.tick = 0
    <3>1. CASE db.rows = {}
      BY <1>1, <3>1 DEF LastId
    <3>2. CASE db.rows # {}
      BY <3>2 DEF Compact
    <3>. QED
      BY <3>1, <3>2
  <2>4. ASSUME NEW r \in more
        PROVE  r.base \in {0, r.id - 1} /\ \A m \in Chain(more, r.id) : r.id - m < FullEvery
    <3>1. CASE r = n
      BY <2>1, <2>2, <3>1
    <3>2. CASE r \in db.rows
      BY <1>4, <3>2 DEF Compact
    <3>. QED
      BY <3>1, <3>2
  <2>. HIDE DEF more
  <2>. QED
    BY <2>3, <2>4 DEF Compact
<1>7. PICK l \in rows :
        /\ Sound(rows) /\ l.id = last + 1 /\ l.tick = tick
        /\ Latest(rows) = l /\ LastId(rows) = l.id
  BY SavedRows DEF n
<1>8. Compact(rows) /\ rows \subseteq more
  <2>. HIDE DEF more
  <2>. QED
    BY <1>1, <1>6, PrunedIsCompact, PrunedFacts
<1>9. Fits(rows)
  <2>1. Latest(more).tick = tick /\ more # {}
    <3>1. PICK t \in more : Latest(more) = t /\ \A s \in more : s.tick <= t.tick
      <4>1. more # {}
        OBVIOUS
      <4>. HIDE DEF more
      <4>. QED
        BY <1>1, <4>1, LastFacts
    <3>2. t.tick <= tick /\ tick <= t.tick
      BY <1>1, <3>1
    <3>3. t.tick \in Nat /\ tick \in Nat
      BY <1>1, <3>1, StoreAssumption DEF Sound
    <3>. QED
      BY <3>1, <3>2, <3>3
  <2>. HIDE DEF more
  <2>2. Cardinality(rows) <=
          KeepRecent + FullEvery + FullEvery * (Latest(more).tick \div KeyframeEvery)
    BY <1>1, <1>6, <2>1, PrunedFits
  <2>. QED
    BY <1>7, <2>1, <2>2 DEF Fits
<1>10. Chain(rows, last + 1) = Chain(more, last + 1)
  <2>. HIDE DEF more, rows
  <2>. QED
    BY <1>1, <1>7, <1>8, ChainStays
<1>11. Chain(rows, last + 1) \subseteq
         {last + 1} \cup IF kind = "full" THEN {} ELSE Chain(db.rows, last)
  BY <1>1, <1>5, <1>10
<1>. HIDE DEF rows, last
<1>12. LastId(rows) = last + 1
  BY <1>7
<1>. QED
  BY <1>8, <1>9, <1>11, <1>12 DEF rows, last, n

-----------------------------------------------------------------------------
(* The log.                                                                *)

\* Events in the order in which they happened, after lo and up to hi.
InOrder(s, lo, hi) ==
  /\ s \in Seq(Nat)
  /\ \A i \in DOMAIN s : lo < s[i] /\ s[i] <= hi
  /\ \A i, j \in DOMAIN s : i < j => s[i] < s[j]

LEMMA AppendInOrder ==
  ASSUME NEW lo \in Nat, NEW hi \in Nat, lo <= hi, NEW s, InOrder(s, lo, hi)
  PROVE  /\ InOrder(Append(s, hi + 1), lo, hi + 1)
         /\ ToSet(Append(s, hi + 1)) = ToSet(s) \cup {hi + 1}
<1>. DEFINE t == Append(s, hi + 1)
<1>1. /\ t \in Seq(Nat) /\ Len(t) = Len(s) + 1
      /\ \A i \in 1..Len(s) : t[i] = s[i]
      /\ t[Len(s) + 1] = hi + 1
  BY AppendProperties DEF InOrder
<1>2. Len(s) \in Nat /\ DOMAIN s = 1..Len(s) /\ DOMAIN t = 1..(Len(s) + 1)
  BY <1>1, LenProperties DEF InOrder
<1>3. \A i \in DOMAIN s : s[i] \in Nat
  BY <1>2, ElementOfSeq DEF InOrder
<1>. HIDE DEF t
<1>4. InOrder(t, lo, hi + 1)
  <2>1. ASSUME NEW i \in DOMAIN t  PROVE lo < t[i] /\ t[i] <= hi + 1
    <3>1. CASE i \in 1..Len(s)
      BY <3>1, <1>1, <1>2, <1>3 DEF InOrder
    <3>2. CASE i = Len(s) + 1
      BY <3>2, <1>1
    <3>. QED
      BY <3>1, <3>2, <1>2
  <2>2. ASSUME NEW i \in DOMAIN t, NEW j \in DOMAIN t, i < j  PROVE t[i] < t[j]
    <3>1. i \in 1..Len(s) /\ t[i] = s[i] /\ t[i] <= hi /\ t[i] \in Nat
      BY <2>2, <1>1, <1>2, <1>3 DEF InOrder
    <3>2. CASE j \in 1..Len(s)
      BY <3>1, <3>2, <2>2, <1>1, <1>2 DEF InOrder
    <3>3. CASE j = Len(s) + 1
      BY <3>1, <3>3, <1>1
    <3>. QED
      BY <3>2, <3>3, <1>2
  <2>. QED
    BY <2>1, <2>2, <1>1 DEF InOrder
<1>5. ToSet(t) = ToSet(s) \cup {hi + 1}
  <2>1. \A i \in DOMAIN s : i \in DOMAIN t /\ t[i] = s[i]
    BY <1>1, <1>2
  <2>2. Len(s) + 1 \in DOMAIN t /\ t[Len(s) + 1] = hi + 1
    BY <1>1, <1>2
  <2>3. \A i \in DOMAIN t : i \in DOMAIN s \/ i = Len(s) + 1
    BY <1>2
  <2>. QED
    BY <2>1, <2>2, <2>3 DEF ToSet
<1>. QED
  BY <1>4, <1>5 DEF t

LEMMA ConcatSet ==
  ASSUME NEW s \in Seq(Nat), NEW t \in Seq(Nat)
  PROVE  s \o t \in Seq(Nat) /\ ToSet(s \o t) = ToSet(s) \cup ToSet(t)
<1>. DEFINE u == s \o t
<1>1. /\ u \in Seq(Nat) /\ Len(u) = Len(s) + Len(t)
      /\ \A i \in 1..(Len(s) + Len(t)) : u[i] = IF i <= Len(s) THEN s[i] ELSE t[i - Len(s)]
  BY ConcatProperties
<1>2. /\ Len(s) \in Nat /\ Len(t) \in Nat
      /\ DOMAIN s = 1..Len(s) /\ DOMAIN t = 1..Len(t)
      /\ DOMAIN u = 1..(Len(s) + Len(t))
  BY <1>1, LenProperties
<1>. HIDE DEF u
<1>3. \A i \in DOMAIN s : i \in DOMAIN u /\ u[i] = s[i]
  BY <1>1, <1>2
<1>4. ASSUME NEW i \in DOMAIN t
      PROVE  i + Len(s) \in DOMAIN u /\ u[i + Len(s)] = t[i]
  <2>1. i \in 1..Len(t)
    BY <1>2
  <2>2. i + Len(s) \in 1..(Len(s) + Len(t)) /\ ~(i + Len(s) <= Len(s)) /\ i + Len(s) - Len(s) = i
    BY <2>1, <1>2
  <2>. QED
    BY <2>2, <1>1, <1>2
<1>5. ASSUME NEW i \in DOMAIN u
      PROVE  \/ i \in DOMAIN s /\ u[i] = s[i]
             \/ i - Len(s) \in DOMAIN t /\ u[i] = t[i - Len(s)]
  <2>1. i \in 1..(Len(s) + Len(t))
    BY <1>2
  <2>2. CASE i <= Len(s)
    BY <2>1, <2>2, <1>1, <1>2
  <2>3. CASE ~(i <= Len(s))
    <3>1. i - Len(s) \in 1..Len(t)
      BY <2>1, <2>3, <1>2
    <3>. QED
      BY <3>1, <2>1, <2>3, <1>1, <1>2
  <2>. QED
    BY <2>2, <2>3
<1>6. ToSet(u) = ToSet(s) \cup ToSet(t)
  BY <1>3, <1>4, <1>5 DEF ToSet
<1>. QED
  BY <1>1, <1>6 DEF u

\* The retention drops the oldest events, and remembers how far.
LEMMA KeptInOrder ==
  ASSUME NEW lo \in Nat, NEW hi \in Nat, lo <= hi, NEW log, InOrder(log, lo, hi),
         NEW far, far = IF Len(log) > Retention THEN log[Len(log) - Retention] ELSE lo
  PROVE  /\ far \in lo..hi /\ InOrder(KeptLog(log), far, hi)
         /\ \A e \in ToSet(log) : e \in ToSet(KeptLog(log)) \/ e <= far
<1>0. Retention \in Nat \ {0}
  BY StoreAssumption
<1>1. Len(log) \in Nat /\ DOMAIN log = 1..Len(log) /\ \A i \in DOMAIN log : log[i] \in Nat
  BY LenProperties, ElementOfSeq DEF InOrder
<1>2. CASE Len(log) > Retention
  <2>. DEFINE m == Len(log) - Retention + 1
              t == SubSeq(log, m, Len(log))
  <2>1. m \in Int /\ 1 <= m /\ m <= Len(log) /\ m - 1 \in DOMAIN log
    BY <1>0, <1>1, <1>2
  <2>2. KeptLog(log) = t /\ far = log[m - 1]
    <3>1. far = log[Len(log) - Retention] /\ m - 1 = Len(log) - Retention
      BY <1>0, <1>1, <1>2
    <3>. QED
      BY <1>2, <3>1 DEF KeptLog
  <2>. HIDE DEF m
  <2>3. \A i \in m..Len(log) : log[i] \in Nat
    BY <1>1, <2>1
  <2>4. /\ t \in Seq(Nat) /\ Len(t) = Len(log) - m + 1
        /\ \A i \in 1..(Len(log) - m + 1) : t[i] = log[m + i - 1]
    BY <1>1, <2>1, <2>3, SubSeqProperties
  <2>5. DOMAIN t = 1..(Len(log) - m + 1)
    BY <2>4, LenProperties
  <2>. HIDE DEF t
  <2>6. ASSUME NEW i \in DOMAIN t
        PROVE  t[i] = log[m + i - 1] /\ m + i - 1 \in DOMAIN log /\ m - 1 < m + i - 1
    <3>1. i \in 1..(Len(log) - m + 1)
      BY <2>5
    <3>2. m + i - 1 \in 1..Len(log) /\ m - 1 < m + i - 1
      BY <3>1, <2>1, <1>1
    <3>. QED
      BY <3>1, <3>2, <2>4, <1>1
  <2>7. \A i \in DOMAIN t : far < t[i] /\ t[i] <= hi
    BY <2>1, <2>2, <2>6 DEF InOrder
  <2>8. ASSUME NEW i \in DOMAIN t, NEW j \in DOMAIN t, i < j  PROVE t[i] < t[j]
    <3>1. m + i - 1 < m + j - 1
      BY <2>1, <2>5, <2>8, <1>1
    <3>. QED
      BY <2>6, <3>1 DEF InOrder
  <2>9. InOrder(t, far, hi)
    BY <2>4, <2>7, <2>8 DEF InOrder
  <2>10. far \in lo..hi
    BY <2>1, <2>2, <1>1 DEF InOrder
  <2>11. ASSUME NEW i \in DOMAIN log  PROVE log[i] \in ToSet(t) \/ log[i] <= far
    <3>1. CASE i < m
      <4>1. i = m - 1 \/ i < m - 1
        BY <3>1, <2>1, <1>1
      <4>2. log[i] \in Nat /\ far \in Nat
        BY <1>1, <2>10
      <4>. QED
        BY <4>1, <4>2, <2>1, <2>2 DEF InOrder
    <3>2. CASE ~(i < m)
      <4>1. i - m + 1 \in DOMAIN t /\ m + (i - m + 1) - 1 = i
        BY <3>2, <1>1, <2>1, <2>5
      <4>2. t[i - m + 1] = log[i]
        BY <4>1, <2>6
      <4>. QED
        BY <4>1, <4>2 DEF ToSet
    <3>. QED
      BY <3>1, <3>2
  <2>. QED
    BY <2>2, <2>9, <2>10, <2>11 DEF ToSet
<1>3. CASE ~(Len(log) > Retention)
  <2>1. KeptLog(log) = log
    <3>1. KeptLog(log) = SubSeq(log, 1, Len(log))
      BY <1>3 DEF KeptLog
    <3>. QED
      BY <3>1, SubSeqFull DEF InOrder
  <2>2. far = lo
    BY <1>3
  <2>. QED
    BY <2>1, <2>2
<1>. QED
  BY <1>2, <1>3

-----------------------------------------------------------------------------
(* The invariant.                                                          *)

\* Every event a saved world remembers is in the log, or was dropped from it.
Recorded(w, log, pruned) ==
  \A p \in Parts : w[p] > 0 => w[p] \in ToSet(log) \/ w[p] <= pruned

\* A copy of the database, live or on the disk, after h events.
DbInv(d, h) ==
  /\ d = [rows |-> d.rows, log |-> d.log, pruned |-> d.pruned]
  /\ Sound(d.rows)
  /\ d.pruned \in 0..h /\ InOrder(d.log, d.pruned, h)
  /\ \A r \in d.rows : Recorded(r.was, d.log, d.pruned)

\* The log as it will be once what is inserted and buffered is committed.
Written == LogWith(tx \o buffer)

MemInv ==
  /\ phase \in {"down", "idle", "jobs", "saving", "stopping"}
  /\ world \in Worlds /\ tick \in 0..MaxTick /\ happened \in 0..MaxEvents
  /\ lastRun \in {Never} \cup 0..tick /\ granted \in 0..LastId(db.rows)
  /\ tx \in Seq(Nat) /\ buffer \in Seq(Nat) /\ InOrder(Written, db.pruned, happened)

\* What the phases of a process have done.
PhaseInv ==
  /\ phase \in {"down", "saving"} => tx = <<>> /\ buffer = <<>>
  /\ phase = "down" => world = Blank /\ tick = 0 /\ lastRun = Never /\ granted = 0
  /\ phase # "down" =>
       /\ db.rows # {} /\ \A r \in db.rows : r.tick <= tick
       /\ Recorded(world, Written, db.pruned)

\* The clock when the scheduler last looked.
Seen == IF phase = "idle" THEN tick ELSE tick - 1

\* The scheduler's mark is at most one tick ahead of the last row (it marks its
\* baseline on the first check), and is never MaxInterval behind the clock.
ScheduleInv ==
  phase \in {"idle", "jobs", "saving"} =>
    IF lastRun = Never THEN Seen = LastTick
    ELSE lastRun <= LastTick + 1 /\ lastRun <= Seen /\ Seen - lastRun < MaxInterval

StoreInv ==
  /\ DbInv(db, happened) /\ DbInv(synced, happened)
  /\ MemInv /\ PhaseInv /\ ScheduleInv

LEMMA DbGrows ==
  ASSUME NEW d, NEW h \in Nat, NEW g \in Nat, h <= g, DbInv(d, h)
  PROVE  DbInv(d, g)
<1>1. d.pruned \in 0..g
  BY DEF DbInv
<1>2. \A i \in DOMAIN d.log : d.log[i] \in Nat
  BY ElementOfSeq, LenProperties DEF DbInv, InOrder
<1>3. InOrder(d.log, d.pruned, g)
  BY <1>2 DEF DbInv, InOrder
<1>. QED
  BY <1>1, <1>3 DEF DbInv

\* A save, with whatever it inserts.
LEMMA SaveFacts ==
  ASSUME NEW kind, NEW inserted,
         DbInv(db, happened), happened \in Nat,
         world \in Worlds, tick \in 0..MaxTick, \A r \in db.rows : r.tick <= tick,
         InOrder(LogWith(inserted), db.pruned, happened),
         ToSet(db.log) \subseteq ToSet(LogWith(inserted)),
         Recorded(world, LogWith(inserted), db.pruned),
         Save(kind, inserted)
  PROVE  /\ DbInv(db', happened) /\ tx' = <<>>
         /\ InOrder(db'.log, db'.pruned, happened)
         /\ Recorded(world, db'.log, db'.pruned)
         /\ db'.rows # {} /\ \A r \in db'.rows : r.tick <= tick
         /\ Latest(db'.rows).tick = tick
         /\ LastId(db'.rows) = LastId(db.rows) + 1
         /\ Keyframes(db.rows) \subseteq db'.rows
<1>. DEFINE log == LogWith(inserted)
            rows == Pruned(db.rows \cup {NewRow(kind)})
            far == IF Len(log) > Retention THEN log[Len(log) - Retention] ELSE db.pruned
<1>1. /\ db' = [rows |-> rows, log |-> KeptLog(log), pruned |-> far]
      /\ tx' = <<>> /\ LastId(db.rows) < MaxSaves
  BY DEF Save
<1>2. db.pruned \in Nat /\ db.pruned <= happened /\ Sound(db.rows)
  BY DEF DbInv
<1>3. /\ far \in db.pruned..happened /\ InOrder(KeptLog(log), far, happened)
      /\ \A e \in ToSet(log) : e \in ToSet(KeptLog(log)) \/ e <= far
  <2>. HIDE DEF log
  <2>1. db.pruned \in Nat /\ happened \in Nat /\ db.pruned <= happened
        /\ InOrder(log, db.pruned, happened)
    BY <1>2 DEF log
  <2>. QED
    BY <2>1, KeptInOrder
<1>4. PICK n \in rows :
        /\ Sound(rows) /\ Keyframes(db.rows) \subseteq rows
        /\ n.id = LastId(db.rows) + 1 /\ n.tick = tick /\ n.was = world
        /\ Latest(rows) = n /\ LastId(rows) = n.id
        /\ \A s \in rows \ {n} : s \in db.rows
  BY <1>1, <1>2, SavedRows
<1>. HIDE DEF log, rows, far
<1>5. ASSUME NEW w \in Worlds, Recorded(w, log, db.pruned)
      PROVE  Recorded(w, KeptLog(log), far)
  <2>1. ASSUME NEW p \in Parts, w[p] > 0
        PROVE  w[p] \in ToSet(KeptLog(log)) \/ w[p] <= far
    <3>1. w[p] \in Int /\ far \in Int /\ db.pruned \in Int /\ db.pruned <= far
      BY <1>2, <1>3, StoreAssumption DEF Worlds, Untold
    <3>. QED
      BY <1>3, <1>5, <2>1, <3>1 DEF Recorded
  <2>. QED
    BY <2>1 DEF Recorded
<1>6. ASSUME NEW r \in rows  PROVE Recorded(r.was, KeptLog(log), far)
  <2>1. r.was \in Worlds
    BY <1>4 DEF Sound
  <2>2. Recorded(r.was, log, db.pruned)
    <3>1. CASE r = n
      BY <3>1, <1>4 DEF log
    <3>2. CASE r \in db.rows
      <4>1. Recorded(r.was, db.log, db.pruned)
        BY <3>2 DEF DbInv
      <4>. QED
        BY <4>1 DEF Recorded, log
    <3>. QED
      BY <3>1, <3>2, <1>4
  <2>. QED
    BY <2>1, <2>2, <1>5
<1>7. db'.rows = rows /\ db'.log = KeptLog(log) /\ db'.pruned = far
  BY <1>1
<1>8. DbInv(db', happened)
  <2>1. far \in 0..happened
    BY <1>2, <1>3
  <2>. QED
    BY <1>1, <1>3, <1>4, <1>6, <1>7, <2>1 DEF DbInv
<1>9. Recorded(world, db'.log, db'.pruned)
  BY <1>5, <1>7 DEF log
<1>10. \A r \in rows : r.tick <= tick
  BY <1>4
<1>. QED
  BY <1>1, <1>3, <1>4, <1>7, <1>8, <1>9, <1>10

\* Without anything inserted or buffered the log is what it will be.
LEMMA NothingWaits ==
  ASSUME NEW d, d.log \in Seq(Nat)
  PROVE  /\ d.log \o <<>> = d.log /\ d.log \o (<<>> \o <<>>) = d.log
         /\ <<>> \in Seq(Nat)
<1>1. <<>> \in Seq(Nat)
  BY EmptySeq
<1>2. <<>> \o <<>> = <<>> /\ d.log \o <<>> = d.log
  BY <1>1, ConcatEmptySeq
<1>. QED
  BY <1>1, <1>2

\* Nothing waits in a process that begins or ends.
LEMMA NothingWritten ==
  ASSUME StoreInv, tx' = <<>>, buffer' = <<>>, db'.log \in Seq(Nat)
  PROVE  Written' = db'.log /\ tx' \in Seq(Nat) /\ buffer' \in Seq(Nat)
BY NothingWaits, EmptySeq DEF Written, LogWith

\* Logging an event extends what will be written by it.
LEMMA LogFacts ==
  ASSUME StoreInv, NEW p \in Parts, NEW full, Log(p, full), db' = db,
         Recorded(world, Written, db.pruned)
  PROVE  /\ tx' \in Seq(Nat) /\ buffer' \in Seq(Nat)
         /\ world' \in Worlds /\ happened' \in 0..MaxEvents /\ happened' = happened + 1
         /\ InOrder(Written', db.pruned, happened')
         /\ Recorded(world', Written', db.pruned)
<1>. DEFINE e == happened + 1
<1>1. /\ happened \in Nat /\ e \in Nat /\ e \in 1..MaxEvents /\ happened' = e
      /\ world' = [world EXCEPT ![p] = e] /\ world \in Worlds
  BY StoreAssumption DEF StoreInv, MemInv, Log
<1>2. /\ tx \in Seq(Nat) /\ buffer \in Seq(Nat) /\ db.log \in Seq(Nat)
      /\ db.pruned \in Nat /\ db.pruned <= happened
      /\ InOrder(Written, db.pruned, happened)
  BY <1>1 DEF StoreInv, MemInv, DbInv, InOrder
<1>. HIDE DEF e
<1>3. /\ \A a, b \in Seq(Nat) : a \o b \in Seq(Nat)
      /\ \A a \in Seq(Nat) : Append(a, e) = a \o <<e>> /\ Append(a, e) \in Seq(Nat)
      /\ \A a, b, c \in Seq(Nat) : (a \o b) \o c = a \o (b \o c)
      /\ \A a \in Seq(Nat) : a \o <<>> = a
      /\ <<e>> \in Seq(Nat) /\ <<>> \in Seq(Nat)
  <2>1. <<>> \in Seq(Nat)
    BY EmptySeq
  <2>2. \A a \in Seq(Nat) : Append(a, e) = a \o <<e>> /\ Append(a, e) \in Seq(Nat)
    BY <1>1, AppendIsConcat, AppendProperties
  <2>3. \A a, b \in Seq(Nat) : a \o b \in Seq(Nat)
    BY ConcatProperties
  <2>4. \A a, b, c \in Seq(Nat) : (a \o b) \o c = a \o (b \o c)
    BY ConcatAssociative
  <2>5. \A a \in Seq(Nat) : a \o <<>> = a
    BY ConcatEmptySeq
  <2>6. <<e>> \in Seq(Nat)
    BY <1>1
  <2>. QED
    BY <2>1, <2>2, <2>3, <2>4, <2>5, <2>6
<1>4. /\ tx' \in Seq(Nat) /\ buffer' \in Seq(Nat)
      /\ tx' \o buffer' = (tx \o buffer) \o <<e>>
  <2>1. /\ Append(buffer, e) \in Seq(Nat) /\ Append(buffer, e) = buffer \o <<e>>
        /\ (tx \o buffer) \o <<e>> = tx \o (buffer \o <<e>>)
    BY <1>2, <1>3
  <2>2. CASE full
    <3>1. tx' = tx \o Append(buffer, e) /\ buffer' = <<>>
      BY <2>2 DEF Log, e
    <3>2. tx' \in Seq(Nat) /\ tx' \o <<>> = tx'
      <4>1. tx \o Append(buffer, e) \in Seq(Nat)
        BY <1>2, <1>3, <2>1, Zenon
      <4>. QED
        BY <1>3, <3>1, <4>1, Zenon
    <3>3. buffer' \in Seq(Nat)
      BY <1>3, <3>1, Zenon
    <3>. QED
      BY <2>1, <3>1, <3>2, <3>3, Zenon
  <2>3. CASE ~full
    <3>1. tx' = tx /\ buffer' = Append(buffer, e)
      BY <2>3 DEF Log, e
    <3>. QED
      BY <1>2, <2>1, <3>1, Zenon
  <2>. QED
    BY <2>2, <2>3
<1>5. Written' = Append(Written, e)
  <2>1. Written' = db.log \o ((tx \o buffer) \o <<e>>)
    BY <1>4 DEF Written, LogWith
  <2>2. db.log \o ((tx \o buffer) \o <<e>>) = (db.log \o (tx \o buffer)) \o <<e>>
    <3>1. tx \o buffer \in Seq(Nat) /\ db.log \in Seq(Nat) /\ <<e>> \in Seq(Nat)
      BY <1>2, <1>3
    <3>2. \A u, v, w \in Seq(Nat) : (u \o v) \o w = u \o (v \o w)
      BY <1>3
    <3>. QED
      BY <3>1, <3>2, Zenon
  <2>3. Append(Written, e) = Written \o <<e>>
    BY <1>2, <1>3 DEF InOrder
  <2>. QED
    BY <2>1, <2>2, <2>3 DEF Written, LogWith
<1>6. InOrder(Written', db.pruned, e) /\ ToSet(Written') = ToSet(Written) \cup {e}
  BY <1>1, <1>2, <1>5, AppendInOrder DEF e
<1>7. world' \in Worlds
  BY <1>1 DEF Worlds
<1>8. ASSUME NEW q \in Parts, world'[q] > 0
      PROVE  world'[q] \in ToSet(Written') \/ world'[q] <= db.pruned
  <2>1. CASE q = p
    <3>1. world'[q] = e
      BY <2>1, <1>1 DEF Worlds
    <3>. QED
      BY <3>1, <1>6
  <2>2. CASE q # p
    <3>1. world'[q] = world[q]
      BY <2>2, <1>1 DEF Worlds
    <3>. QED
      BY <3>1, <1>6, <1>8 DEF Recorded
  <2>. QED
    BY <2>1, <2>2
<1>9. happened' \in 0..MaxEvents
  BY <1>1, StoreAssumption
<1>. QED
  BY <1>1, <1>4, <1>6, <1>7, <1>8, <1>9 DEF Recorded, e

\* The last row is one of the rows.
LEMMA LastTickFacts ==
  ASSUME StoreInv, db.rows # {}
  PROVE  LastTick \in Nat /\ LastTick <= MaxTick /\ \E r \in db.rows : LastTick = r.tick
<1>1. Sound(db.rows)
  BY DEF StoreInv, DbInv
<1>2. PICK r \in db.rows : Latest(db.rows) = r
  BY <1>1, LastFacts
<1>3. r.tick \in 0..MaxTick
  BY <1>1 DEF Sound
<1>. QED
  BY <1>2, <1>3, StoreAssumption DEF LastTick

LEMMA InitInv == Init => StoreInv
<1>. SUFFICES ASSUME Init  PROVE StoreInv
  OBVIOUS
<1>1. /\ <<>> \in Seq(Nat) /\ <<>> \o <<>> = <<>> /\ <<>> \o (<<>> \o <<>>) = <<>>
      /\ DOMAIN <<>> = {}
  BY EmptySeq, ConcatEmptySeq
<1>2. NoDb.rows = {} /\ NoDb.log = <<>> /\ NoDb.pruned = 0
  BY DEF NoDb
<1>3. InOrder(<<>>, 0, 0)
  BY <1>1 DEF InOrder
<1>4. Sound({})
  BY DEF Sound
<1>5. DbInv(NoDb, 0)
  BY <1>2, <1>3, <1>4 DEF DbInv, NoDb
<1>6. Blank \in Worlds
  BY StoreAssumption DEF Blank, Worlds
<1>7. Written = <<>>
  BY <1>1, <1>2 DEF Init, Written, LogWith
<1>8. MemInv
  BY <1>1, <1>2, <1>3, <1>6, <1>7, StoreAssumption DEF Init, MemInv, LastId, Never
<1>9. PhaseInv /\ ScheduleInv
  BY DEF Init, PhaseInv, ScheduleInv
<1>. QED
  BY <1>5, <1>8, <1>9 DEF Init, StoreInv

\* A process that is gone leaves a sound database.
LEMMA GoneKeeps ==
  ASSUME StoreInv, Forgotten, phase' = "down", happened' = happened, synced' = synced,
         db' \in {db, synced}
  PROVE  StoreInv'
<1>1. DbInv(db', happened) /\ DbInv(synced', happened') /\ happened \in 0..MaxEvents
  BY DEF StoreInv, MemInv
<1>2. /\ tx' = <<>> /\ buffer' = <<>> /\ world' = Blank /\ tick' = 0
      /\ lastRun' = Never /\ granted' = 0
  BY DEF Forgotten
<1>3. Written' = db'.log /\ tx' \in Seq(Nat) /\ buffer' \in Seq(Nat)
  BY <1>1, <1>2, NothingWritten DEF DbInv, InOrder
<1>4. InOrder(Written', db'.pruned, happened')
  BY <1>1, <1>3 DEF DbInv
<1>5. Blank \in Worlds /\ 0 \in 0..MaxTick
  BY StoreAssumption DEF Blank, Worlds
<1>6. 0 \in 0..LastId(db'.rows)
  <2>1. CASE db'.rows = {}
    BY <2>1 DEF LastId
  <2>2. CASE db'.rows # {}
    <3>1. Sound(db'.rows)
      BY <1>1 DEF DbInv
    <3>2. PICK r \in db'.rows : LastId(db'.rows) = r.id
      BY <2>2, <3>1, LastFacts
    <3>. QED
      BY <3>1, <3>2, StoreAssumption DEF Sound
  <2>. QED
    BY <2>1, <2>2
<1>7. MemInv'
  BY <1>1, <1>2, <1>3, <1>4, <1>5, <1>6 DEF MemInv
<1>8. PhaseInv' /\ ScheduleInv'
  BY <1>2 DEF PhaseInv, ScheduleInv
<1>. QED
  BY <1>1, <1>7, <1>8 DEF StoreInv

\* What is in the log already stays in what will be written.
LEMMA WrittenHolds ==
  ASSUME StoreInv
  PROVE  /\ ToSet(db.log) \subseteq ToSet(Written)
         /\ db.log \in Seq(Nat) /\ LastId(db.rows) \in Nat
<1>1. tx \o buffer \in Seq(Nat) /\ db.log \in Seq(Nat)
  BY ConcatProperties DEF StoreInv, MemInv, DbInv, InOrder
<1>2. ToSet(db.log) \subseteq ToSet(Written)
  BY <1>1, ConcatSet DEF Written, LogWith
<1>3. LastId(db.rows) \in Nat
  <2>1. CASE db.rows = {}
    BY <2>1 DEF LastId
  <2>2. CASE db.rows # {}
    <3>1. Sound(db.rows)
      BY DEF StoreInv, DbInv
    <3>2. PICK r \in db.rows : LastId(db.rows) = r.id
      BY <2>2, <3>1, LastFacts
    <3>. QED
      BY <3>1, <3>2, StoreAssumption DEF Sound
  <2>. QED
    BY <2>1, <2>2
<1>. QED
  BY <1>1, <1>2, <1>3

\* The first start saves, the others resume.
LEMMA StartKeeps == StoreInv /\ Start => StoreInv'
<1>. SUFFICES ASSUME StoreInv, Start  PROVE StoreInv'
  OBVIOUS
<1>1. /\ phase = "down" /\ phase' = "idle" /\ tx = <<>> /\ buffer = <<>> /\ world = Blank
      /\ tick = 0 /\ lastRun = Never /\ granted = 0
      /\ synced' = synced /\ buffer' = <<>> /\ lastRun' = Never /\ granted' = 0
      /\ happened' = happened /\ happened \in 0..MaxEvents
  BY DEF StoreInv, PhaseInv, MemInv, Start
<1>2. /\ DbInv(db, happened) /\ DbInv(synced', happened') /\ happened \in Nat
      /\ world \in Worlds /\ tick \in 0..MaxTick /\ db.log \in Seq(Nat)
      /\ Sound(db.rows) /\ LastId(db.rows) \in Nat
  BY <1>1, WrittenHolds, StoreAssumption DEF StoreInv, MemInv, DbInv
<1>3. \A log, pruned : Recorded(world, log, pruned)
  BY <1>1 DEF Recorded, Blank
<1>4. CASE db.rows = {} /\ Save("full", <<>>) /\ UNCHANGED <<world, tick>>
  <2>1. LogWith(<<>>) = db.log
    BY <1>2, NothingWaits DEF LogWith
  <2>2. /\ DbInv(db', happened) /\ tx' = <<>>
        /\ InOrder(db'.log, db'.pruned, happened)
        /\ Recorded(world, db'.log, db'.pruned)
        /\ db'.rows # {} /\ \A r \in db'.rows : r.tick <= tick
        /\ Latest(db'.rows).tick = tick
        /\ LastId(db'.rows) = LastId(db.rows) + 1
    <3>1. \A r \in db.rows : r.tick <= tick
      BY <1>4
    <3>2. InOrder(LogWith(<<>>), db.pruned, happened)
      BY <1>2, <2>1 DEF DbInv
    <3>. QED
      BY <1>2, <1>3, <1>4, <2>1, <3>1, <3>2, SaveFacts
  <2>3. Written' = db'.log /\ tx' \in Seq(Nat) /\ buffer' \in Seq(Nat)
    BY <1>1, <2>2, NothingWritten DEF InOrder
  <2>4. MemInv'
    BY <1>1, <1>2, <1>4, <2>2, <2>3 DEF MemInv
  <2>5. PhaseInv' /\ ScheduleInv'
    BY <1>1, <1>4, <2>2, <2>3 DEF PhaseInv, ScheduleInv, Seen, LastTick
  <2>. QED
    BY <1>1, <1>2, <2>2, <2>4, <2>5 DEF StoreInv
<1>5. CASE /\ db.rows # {}
           /\ world' = Reconstruct(db.rows, Latest(db.rows).id)
           /\ tick' = Latest(db.rows).tick
           /\ UNCHANGED <<db, tx>>
  <2>1. PICK r \in db.rows :
          Latest(db.rows) = r /\ \A s \in db.rows : s.tick <= r.tick
    BY <1>2, <1>5, LastFacts
  <2>2. world' = r.was /\ tick' = r.tick /\ r.was \in Worlds /\ r.tick \in 0..MaxTick
    <3>1. Reconstruct(db.rows, r.id) = r.was
      BY <1>2, SoundRowsAreWhole
    <3>. QED
      BY <1>2, <1>5, <2>1, <3>1 DEF Sound
  <2>3. db' = db /\ tx' = <<>>
    BY <1>1, <1>5
  <2>4. Written' = db.log /\ tx' \in Seq(Nat) /\ buffer' \in Seq(Nat)
    BY <1>1, <1>2, <2>3, NothingWritten
  <2>5. InOrder(db.log, db.pruned, happened) /\ Recorded(r.was, db.log, db.pruned)
    BY <1>2 DEF DbInv
  <2>6. MemInv'
    BY <1>1, <1>2, <2>2, <2>3, <2>4, <2>5 DEF MemInv
  <2>7. PhaseInv' /\ ScheduleInv'
    BY <1>1, <1>5, <2>1, <2>2, <2>3, <2>4, <2>5 DEF PhaseInv, ScheduleInv, Seen, LastTick
  <2>. QED
    BY <1>1, <1>2, <2>3, <2>6, <2>7 DEF StoreInv
<1>. QED
  BY <1>4, <1>5 DEF Start

\* An event is logged, in a tick or between two.
LEMMA LogKeeps ==
  ASSUME StoreInv, NEW p \in Parts, NEW full, Background(p, full) \/ InTick(p, full)
  PROVE  StoreInv'
<1>1. /\ Log(p, full) /\ db' = db /\ synced' = synced /\ phase' = phase
      /\ phase \in {"idle", "jobs"} /\ tick' = tick /\ lastRun' = lastRun /\ granted' = granted
  BY DEF Background, InTick
<1>2. db.rows # {} /\ Recorded(world, Written, db.pruned) /\ \A r \in db.rows : r.tick <= tick
  BY <1>1 DEF StoreInv, PhaseInv
<1>3. /\ tx' \in Seq(Nat) /\ buffer' \in Seq(Nat)
      /\ world' \in Worlds /\ happened' \in 0..MaxEvents /\ happened' = happened + 1
      /\ InOrder(Written', db.pruned, happened')
      /\ Recorded(world', Written', db.pruned)
  BY <1>1, <1>2, LogFacts
<1>4. DbInv(db', happened') /\ DbInv(synced', happened')
  <2>1. happened \in Nat /\ happened' \in Nat /\ happened <= happened'
    BY <1>3, StoreAssumption DEF StoreInv, MemInv
  <2>. QED
    BY <1>1, <2>1, DbGrows DEF StoreInv
<1>5. MemInv'
  BY <1>1, <1>3 DEF StoreInv, MemInv
<1>6. PhaseInv' /\ ScheduleInv'
  BY <1>1, <1>2, <1>3 DEF StoreInv, PhaseInv, ScheduleInv, Seen, LastTick
<1>. QED
  BY <1>4, <1>5, <1>6 DEF StoreInv

\* The tick's commit.
LEMMA CommitKeeps == StoreInv /\ CommitTick => StoreInv'
<1>. SUFFICES ASSUME StoreInv, CommitTick  PROVE StoreInv'
  OBVIOUS
<1>1. /\ phase = "jobs" /\ phase' = "saving" /\ tx' = <<>> /\ buffer' = <<>>
      /\ db' = [db EXCEPT !.log = Written]
      /\ synced' = synced /\ world' = world /\ tick' = tick /\ lastRun' = lastRun
      /\ granted' = granted /\ happened' = happened
  BY DEF CommitTick, Written
<1>2. db = [rows |-> db.rows, log |-> db.log, pruned |-> db.pruned]
  BY DEF StoreInv, DbInv
<1>3. db' = [rows |-> db.rows, log |-> Written, pruned |-> db.pruned]
  <2>. DEFINE rows == db.rows
              log == db.log
              pruned == db.pruned
  <2>1. db = [rows |-> rows, log |-> log, pruned |-> pruned]
    BY <1>2
  <2>. HIDE DEF rows, log, pruned
  <2>2. [db EXCEPT !.log = Written] = [rows |-> rows, log |-> Written, pruned |-> pruned]
    BY <2>1
  <2>. QED
    BY <1>1, <2>2 DEF rows, pruned
<1>4. db'.rows = db.rows /\ db'.log = Written /\ db'.pruned = db.pruned
  BY <1>3
<1>5. /\ InOrder(Written, db.pruned, happened) /\ Recorded(world, Written, db.pruned)
      /\ ToSet(db.log) \subseteq ToSet(Written)
      /\ db.rows # {} /\ \A r \in db.rows : r.tick <= tick
  BY <1>1, WrittenHolds DEF StoreInv, MemInv, PhaseInv
<1>6. DbInv(db', happened')
  <2>1. \A r \in db.rows : Recorded(r.was, Written, db.pruned)
    BY <1>5 DEF StoreInv, DbInv, Recorded
  <2>2. Sound(db.rows) /\ db.pruned \in 0..happened
    BY DEF StoreInv, DbInv
  <2>3. db' = [rows |-> db'.rows, log |-> db'.log, pruned |-> db'.pruned]
    BY <1>3, <1>4
  <2>. QED
    BY <1>1, <1>4, <1>5, <2>1, <2>2, <2>3 DEF DbInv
<1>7. Written' = db'.log /\ tx' \in Seq(Nat) /\ buffer' \in Seq(Nat)
  BY <1>1, <1>4, <1>5, NothingWritten DEF InOrder
<1>8. MemInv'
  BY <1>1, <1>4, <1>5, <1>7 DEF StoreInv, MemInv
<1>9. PhaseInv' /\ ScheduleInv'
  BY <1>1, <1>4, <1>5, <1>7 DEF StoreInv, PhaseInv, ScheduleInv, Seen, LastTick
<1>. QED
  BY <1>1, <1>6, <1>8, <1>9 DEF StoreInv

\* The scheduler's check at the end of a tick.
LEMMA SaveIfDueKeeps ==
  ASSUME StoreInv, NEW quiet, SaveIfDue(quiet)
  PROVE  StoreInv'
<1>1. /\ phase = "saving" /\ phase' = "idle" /\ tx = <<>> /\ buffer = <<>> /\ buffer' = <<>>
      /\ synced' = synced /\ world' = world /\ tick' = tick /\ happened' = happened
      /\ lastRun' = IF lastRun = Never \/ IsDue(quiet) THEN tick ELSE lastRun
  BY DEF StoreInv, PhaseInv, SaveIfDue
<1>2. /\ DbInv(db, happened) /\ DbInv(synced', happened') /\ happened \in 0..MaxEvents
      /\ happened \in Nat /\ world \in Worlds /\ tick \in 0..MaxTick /\ tick \in Nat
      /\ lastRun \in {Never} \cup 0..tick /\ granted \in 0..LastId(db.rows)
      /\ MinInterval \in Nat \ {0} /\ MaxInterval \in Nat /\ MinInterval <= MaxInterval
  BY <1>1, StoreAssumption DEF StoreInv, MemInv
<1>3. Written = db.log /\ db.log \in Seq(Nat) /\ LastId(db.rows) \in Nat
  BY <1>1, WrittenHolds, NothingWaits DEF Written, LogWith
<1>4. /\ InOrder(db.log, db.pruned, happened) /\ Recorded(world, db.log, db.pruned)
      /\ db.rows # {} /\ \A r \in db.rows : r.tick <= tick
  BY <1>1, <1>3 DEF StoreInv, MemInv, PhaseInv
<1>5. CASE IsDue(quiet)
  <2>1. PICK kind : Save(kind, <<>>) /\ granted' = granted + 1
    BY <1>5 DEF SaveIfDue
  <2>2. LogWith(<<>>) = db.log
    BY <1>3, NothingWaits DEF LogWith
  <2>3. /\ DbInv(db', happened) /\ tx' = <<>>
        /\ InOrder(db'.log, db'.pruned, happened)
        /\ Recorded(world, db'.log, db'.pruned)
        /\ db'.rows # {} /\ \A r \in db'.rows : r.tick <= tick
        /\ Latest(db'.rows).tick = tick
        /\ LastId(db'.rows) = LastId(db.rows) + 1
    BY <1>2, <1>4, <2>1, <2>2, SaveFacts
  <2>4. Written' = db'.log /\ tx' \in Seq(Nat) /\ buffer' \in Seq(Nat)
    BY <1>1, <2>3, NothingWritten DEF InOrder
  <2>5. lastRun' = tick /\ granted' \in 0..LastId(db'.rows)
    BY <1>1, <1>2, <1>3, <1>5, <2>1, <2>3
  <2>6. MemInv'
    BY <1>1, <1>2, <2>3, <2>4, <2>5 DEF MemInv
  <2>7. PhaseInv'
    BY <1>1, <2>3, <2>4 DEF PhaseInv
  <2>8. ScheduleInv'
    <3>1. Seen' = tick /\ LastTick' = tick
      BY <1>1, <2>3 DEF Seen, LastTick
    <3>2. tick <= tick + 1 /\ tick <= tick /\ tick - tick < MaxInterval /\ tick # Never
      BY <1>2 DEF Never
    <3>. QED
      BY <2>5, <3>1, <3>2 DEF ScheduleInv
  <2>. QED
    BY <1>1, <1>2, <2>3, <2>6, <2>7, <2>8 DEF StoreInv
<1>6. CASE ~IsDue(quiet)
  <2>1. db' = db /\ tx' = <<>> /\ granted' = granted
    BY <1>1, <1>6 DEF SaveIfDue
  <2>2. Written' = db.log /\ tx' \in Seq(Nat) /\ buffer' \in Seq(Nat)
    BY <1>1, <1>3, <2>1, NothingWritten
  <2>3. lastRun' \in 0..tick
    BY <1>1, <1>2, <1>6
  <2>4. MemInv'
    BY <1>1, <1>2, <1>4, <2>1, <2>2, <2>3 DEF MemInv
  <2>5. PhaseInv'
    BY <1>1, <1>4, <2>1, <2>2 DEF PhaseInv
  <2>6. LastTick \in Nat /\ LastTick <= tick
    BY <1>4, LastTickFacts
  <2>7. IF lastRun = Never THEN tick - 1 = LastTick
        ELSE lastRun <= LastTick + 1 /\ lastRun <= tick - 1 /\ tick - 1 - lastRun < MaxInterval
    BY <1>1 DEF StoreInv, ScheduleInv, Seen
  <2>8. CASE lastRun = Never
    <3>1. lastRun' = tick /\ lastRun' # Never /\ Seen' = tick /\ LastTick' = LastTick
      BY <1>1, <1>2, <2>1, <2>8 DEF Seen, LastTick, Never
    <3>2. tick <= LastTick + 1 /\ tick - tick < MaxInterval
      BY <1>2, <2>6, <2>7, <2>8
    <3>. QED
      BY <1>1, <1>2, <2>1, <2>4, <2>5, <3>1, <3>2 DEF StoreInv, ScheduleInv
  <2>9. CASE lastRun # Never
    <3>1. lastRun' = lastRun /\ Seen' = tick /\ LastTick' = LastTick
      BY <1>1, <1>6, <2>1, <2>9 DEF Seen, LastTick
    <3>2. tick - lastRun < MaxInterval
      BY <1>2, <1>6, <2>9 DEF IsDue, Elapsed
    <3>3. lastRun <= tick
      BY <1>2, <2>9
    <3>. QED
      BY <1>1, <1>2, <2>1, <2>4, <2>5, <2>7, <2>9, <3>1, <3>2, <3>3 DEF StoreInv, ScheduleInv
  <2>. QED
    BY <2>8, <2>9
<1>. QED
  BY <1>5, <1>6

\* The final save.
LEMMA StopKeeps == StoreInv /\ Stop => StoreInv'
<1>. SUFFICES ASSUME StoreInv, Stop  PROVE StoreInv'
  OBVIOUS
<1>1. /\ phase = "stopping" /\ phase' = "down" /\ Save("full", tx \o buffer)
      /\ world' = Blank /\ tick' = 0 /\ buffer' = <<>> /\ lastRun' = Never /\ granted' = 0
      /\ synced' = synced /\ happened' = happened
  BY DEF Stop
<1>2. /\ DbInv(db, happened) /\ DbInv(synced', happened') /\ happened \in 0..MaxEvents
      /\ happened \in Nat /\ world \in Worlds /\ tick \in 0..MaxTick
      /\ InOrder(Written, db.pruned, happened) /\ Recorded(world, Written, db.pruned)
      /\ \A r \in db.rows : r.tick <= tick
  BY <1>1, StoreAssumption DEF StoreInv, MemInv, PhaseInv
<1>3. ToSet(db.log) \subseteq ToSet(Written) /\ LastId(db.rows) \in Nat
  BY WrittenHolds
<1>4. /\ DbInv(db', happened) /\ tx' = <<>> /\ InOrder(db'.log, db'.pruned, happened)
      /\ LastId(db'.rows) = LastId(db.rows) + 1
  BY <1>1, <1>2, <1>3, SaveFacts DEF Written
<1>5. Written' = db'.log /\ tx' \in Seq(Nat) /\ buffer' \in Seq(Nat)
  BY <1>1, <1>4, NothingWritten DEF InOrder
<1>6. Blank \in Worlds /\ 0 \in 0..MaxTick
  BY StoreAssumption DEF Blank, Worlds
<1>7. MemInv'
  BY <1>1, <1>2, <1>3, <1>4, <1>5, <1>6 DEF MemInv
<1>8. PhaseInv' /\ ScheduleInv'
  BY <1>1, <1>4 DEF PhaseInv, ScheduleInv
<1>. QED
  BY <1>1, <1>2, <1>4, <1>7, <1>8 DEF StoreInv

\* Every step keeps the invariant.
LEMMA StepInv == StoreInv /\ [Next]_vars => StoreInv'
<1>. SUFFICES ASSUME StoreInv, [Next]_vars  PROVE StoreInv'
  OBVIOUS
<1>. USE DEF mem
<1>1. CASE Start
  BY <1>1, StartKeeps
<1>2. CASE Tick
  <2>1. /\ phase = "idle" /\ phase' = "jobs" /\ tick < MaxTick /\ tick' = tick + 1
        /\ UNCHANGED <<db, synced, tx, world, buffer, lastRun, granted, happened>>
    BY <1>2 DEF Tick
  <2>2. tick \in 0..MaxTick /\ tick' \in 0..MaxTick /\ MaxTick \in Nat
    BY <2>1, StoreAssumption DEF StoreInv, MemInv
  <2>3. Written' = Written
    BY <2>1 DEF Written, LogWith
  <2>4. lastRun' \in {Never} \cup 0..tick'
    BY <2>1, <2>2 DEF StoreInv, MemInv
  <2>5. MemInv'
    BY <2>1, <2>2, <2>3, <2>4 DEF StoreInv, MemInv
  <2>6. \A r \in db.rows : r.tick <= tick'
    <3>1. \A r \in db.rows : r.tick \in Nat /\ r.tick <= tick
      BY <2>1, StoreAssumption DEF StoreInv, DbInv, Sound, PhaseInv
    <3>. QED
      BY <2>1, <2>2, <3>1
  <2>7. PhaseInv'
    BY <2>1, <2>3, <2>6 DEF StoreInv, PhaseInv
  <2>8. Seen' = Seen /\ LastTick' = LastTick
    BY <2>1, <2>2 DEF Seen, LastTick
  <2>9. ScheduleInv'
    BY <2>1, <2>8 DEF StoreInv, ScheduleInv
  <2>. QED
    BY <2>1, <2>5, <2>7, <2>9 DEF StoreInv
<1>3. CASE CommitTick
  BY <1>3, CommitKeeps
<1>4. CASE EndLoop
  <2>1. /\ phase \in {"idle", "jobs", "saving"} /\ phase' = "stopping"
        /\ UNCHANGED <<db, synced, tx, world, tick, buffer, lastRun, granted, happened>>
    BY <1>4 DEF EndLoop
  <2>2. Written' = Written
    BY <2>1 DEF Written, LogWith
  <2>. QED
    BY <2>1, <2>2 DEF StoreInv, MemInv, PhaseInv, ScheduleInv
<1>5. CASE Stop
  BY <1>5, StopKeeps
<1>6. CASE Crash
  BY <1>6, GoneKeeps DEF Crash
<1>7. CASE Sync
  <2>1. synced' = db /\ UNCHANGED <<db, phase, tx, world, tick, buffer, lastRun, granted, happened>>
    BY <1>7 DEF Sync
  <2>2. Written' = Written /\ Seen' = Seen /\ LastTick' = LastTick
    BY <2>1 DEF Written, LogWith, Seen, LastTick
  <2>. QED
    BY <2>1, <2>2 DEF StoreInv, MemInv, PhaseInv, ScheduleInv
<1>8. CASE PowerLoss
  BY <1>8, GoneKeeps DEF PowerLoss
<1>9. ASSUME NEW p \in Parts, NEW full \in BOOLEAN, Background(p, full) \/ InTick(p, full)
      PROVE  StoreInv'
  BY <1>9, LogKeeps
<1>10. ASSUME NEW p \in Parts, WorldRaises(p)
       PROVE  StoreInv'
  <2>1. /\ phase = "idle" /\ phase' = "stopping" /\ tick < MaxTick /\ tick' = tick + 1
        /\ world' = [world EXCEPT ![p] = Untold]
        /\ UNCHANGED <<db, synced, tx, buffer, lastRun, granted, happened>>
    BY <1>10 DEF WorldRaises
  <2>2. tick \in 0..MaxTick /\ tick' \in 0..MaxTick /\ MaxTick \in Nat
    BY <2>1, StoreAssumption DEF StoreInv, MemInv
  <2>3. Written' = Written
    BY <2>1 DEF Written, LogWith
  <2>4. lastRun' \in {Never} \cup 0..tick'
    BY <2>1, <2>2 DEF StoreInv, MemInv
  <2>5. world' \in Worlds /\ \A q \in Parts : world'[q] = world[q] \/ world'[q] = -1
    BY <2>1 DEF StoreInv, MemInv, Worlds, Untold
  <2>6. MemInv'
    BY <2>1, <2>2, <2>3, <2>4, <2>5 DEF StoreInv, MemInv
  <2>7. Recorded(world', Written', db.pruned)
    <3>1. ASSUME NEW q \in Parts, world'[q] > 0
          PROVE  world'[q] \in ToSet(Written) \/ world'[q] <= db.pruned
      <4>1. world'[q] = world[q]
        BY <2>5, <3>1
      <4>. QED
        BY <2>1, <3>1, <4>1 DEF StoreInv, PhaseInv, Recorded
    <3>. QED
      BY <2>3, <3>1 DEF Recorded
  <2>8. \A r \in db.rows : r.tick <= tick'
    <3>1. \A r \in db.rows : r.tick \in Nat /\ r.tick <= tick
      BY <2>1, StoreAssumption DEF StoreInv, DbInv, Sound, PhaseInv
    <3>. QED
      BY <2>1, <2>2, <3>1
  <2>9. PhaseInv' /\ ScheduleInv'
    BY <2>1, <2>7, <2>8 DEF StoreInv, PhaseInv, ScheduleInv
  <2>. QED
    BY <2>1, <2>6, <2>9 DEF StoreInv
<1>11. ASSUME NEW quiet \in BOOLEAN, SaveIfDue(quiet)
       PROVE  StoreInv'
  BY <1>11, SaveIfDueKeeps
<1>12. CASE UNCHANGED vars
  <2>1. UNCHANGED <<db, synced, phase, tx, world, tick, buffer, lastRun, granted, happened>>
    BY <1>12 DEF vars
  <2>2. Written' = Written /\ Seen' = Seen /\ LastTick' = LastTick
    BY <2>1 DEF Written, LogWith, Seen, LastTick
  <2>. QED
    BY <2>1, <2>2 DEF StoreInv, MemInv, PhaseInv, ScheduleInv
<1>. QED
  BY <1>1, <1>2, <1>3, <1>4, <1>5, <1>6, <1>7, <1>8, <1>9, <1>10, <1>11, <1>12 DEF Next

\* The last row is as deep as the scheduler has counted since the last full one.
Regular ==
  phase # "down" /\ granted > 0 =>
    \A n \in Chain(db.rows, LastId(db.rows)) :
      LastId(db.rows) - n <= (granted - 1) % FullEvery

TableInv ==
  /\ Compact(db.rows) /\ Compact(synced.rows)
  /\ Fits(db.rows) /\ Fits(synced.rows)
  /\ Regular

\* How the scheduler counts: an incremental save is never due at a full turn.
LEMMA TurnOfSaves ==
  ASSUME FullEvery > 1, NEW g \in Nat
  PROVE  /\ g % FullEvery \in Nat
         /\ (g + 1) % FullEvery # 1 =>
              /\ g > 0 /\ (g - 1) % FullEvery \in Nat
              /\ g % FullEvery = ((g - 1) % FullEvery) + 1
              /\ (g - 1) % FullEvery < FullEvery - 1
<1>0. FullEvery \in Nat /\ g % FullEvery \in Nat
  BY StoreAssumption
<1>. SUFFICES ASSUME (g + 1) % FullEvery # 1
              PROVE  /\ g > 0 /\ (g - 1) % FullEvery \in Nat
                     /\ g % FullEvery = ((g - 1) % FullEvery) + 1
                     /\ (g - 1) % FullEvery < FullEvery - 1
  BY <1>0
<1>1. ASSUME NEW a \in Nat, NEW b \in Nat, b < FullEvery
      PROVE  (FullEvery * a + b) % FullEvery = b
  BY <1>0, <1>1
<1>2. g > 0
  <2>1. (FullEvery * 0 + 1) % FullEvery = 1
    BY <1>0, <1>1
  <2>. QED
    BY <1>0, <2>1
<1>. DEFINE a == (g - 1) \div FullEvery
            b == (g - 1) % FullEvery
<1>3. a \in Nat /\ b \in Nat /\ b < FullEvery /\ g - 1 = FullEvery * a + b
  BY <1>0, <1>2
<1>. HIDE DEF a, b
<1>4. b < FullEvery - 1
  <2>1. ASSUME b = FullEvery - 1  PROVE FALSE
    <3>1. g + 1 = FullEvery * (a + 1) + 1
      BY <1>0, <1>3, <2>1
    <3>2. (FullEvery * (a + 1) + 1) % FullEvery = 1
      BY <1>0, <1>1, <1>3
    <3>. QED
      BY <3>1, <3>2
  <2>. QED
    BY <1>0, <1>3, <2>1
<1>5. g % FullEvery = b + 1
  <2>1. g = FullEvery * a + (b + 1)
    BY <1>0, <1>3
  <2>2. (FullEvery * a + (b + 1)) % FullEvery = b + 1
    BY <1>0, <1>1, <1>3, <1>4
  <2>. QED
    BY <2>1, <2>2
<1>. QED
  BY <1>2, <1>3, <1>4, <1>5 DEF b

\* A save keeps the table within its bounds.
LEMMA SaveKeepsTable ==
  ASSUME StoreInv, TableInv, NEW kind, NEW inserted, Save(kind, inserted),
         \A r \in db.rows : r.tick <= tick, db.rows = {} => tick = 0,
         kind # "full" =>
           \A n \in Chain(db.rows, LastId(db.rows)) : LastId(db.rows) - n < FullEvery - 1
  PROVE  /\ Compact(db'.rows) /\ Fits(db'.rows)
         /\ LastId(db'.rows) = LastId(db.rows) + 1
         /\ Chain(db'.rows, LastId(db.rows) + 1) \subseteq
              {LastId(db.rows) + 1} \cup IF kind = "full" THEN {} ELSE Chain(db.rows, LastId(db.rows))
<1>1. /\ Sound(db.rows) /\ Compact(db.rows) /\ world \in Worlds /\ tick \in 0..MaxTick
      /\ LastId(db.rows) < MaxSaves
  BY DEF StoreInv, DbInv, MemInv, TableInv, Save
<1>2. db'.rows = Pruned(db.rows \cup {NewRow(kind)})
  BY DEF Save
<1>. QED
  BY <1>1, <1>2, SavedIsCompact

LEMMA TableStep ==
  ASSUME FullEvery > 1, StoreInv, TableInv, [Next]_vars
  PROVE  TableInv'
<1>. USE DEF mem
<1>0. FullEvery \in Nat /\ Compact(db.rows) /\ Fits(db.rows) /\ Compact(synced.rows) /\ Fits(synced.rows)
  BY StoreAssumption DEF TableInv
<1>1. CASE Start
  <2>1. phase = "down" /\ granted' = 0 /\ synced' = synced /\ granted = 0 /\ tick = 0
    BY <1>1 DEF Start, StoreInv, PhaseInv
  <2>2. CASE db.rows = {} /\ Save("full", <<>>)
    <3>1. Compact(db'.rows) /\ Fits(db'.rows)
      BY <2>1, <2>2, SaveKeepsTable
    <3>. QED
      BY <1>0, <2>1, <3>1 DEF TableInv, Regular
  <2>3. CASE db' = db
    BY <1>0, <2>1, <2>3 DEF TableInv, Regular
  <2>. QED
    BY <1>1, <2>2, <2>3 DEF Start
<1>2. CASE Stop
  <2>1. /\ Save("full", tx \o buffer) /\ phase' = "down" /\ synced' = synced
        /\ db.rows # {} /\ \A r \in db.rows : r.tick <= tick
    BY <1>2 DEF Stop, StoreInv, PhaseInv
  <2>2. Compact(db'.rows) /\ Fits(db'.rows)
    BY <2>1, SaveKeepsTable
  <2>. QED
    BY <1>0, <2>1, <2>2 DEF TableInv, Regular
<1>3. ASSUME NEW quiet \in BOOLEAN, SaveIfDue(quiet)
      PROVE  TableInv'
  <2>. DEFINE kind == IF (granted + 1) % FullEvery = 1 THEN "full" ELSE "incremental"
              last == LastId(db.rows)
  <2>1. /\ phase = "saving" /\ phase' = "idle" /\ synced' = synced
        /\ db.rows # {} /\ \A r \in db.rows : r.tick <= tick
    BY <1>3 DEF SaveIfDue, StoreInv, PhaseInv
  <2>2. CASE ~IsDue(quiet)
    <3>1. db' = db /\ granted' = granted
      BY <1>3, <2>2 DEF SaveIfDue
    <3>. QED
      BY <1>0, <2>1, <3>1 DEF TableInv, Regular
  <2>3. CASE IsDue(quiet)
    <3>1. granted' = granted + 1 /\ Save(kind, <<>>)
      BY <1>3, <2>3 DEF SaveIfDue
    <3>2. granted \in Nat /\ last \in Nat
      BY WrittenHolds DEF StoreInv, MemInv
    <3>3. /\ granted % FullEvery \in Nat
          /\ (granted + 1) % FullEvery # 1 =>
               /\ granted > 0 /\ (granted - 1) % FullEvery \in Nat
               /\ granted % FullEvery = ((granted - 1) % FullEvery) + 1
               /\ (granted - 1) % FullEvery < FullEvery - 1
      BY <3>2, TurnOfSaves
    <3>4. \A n \in Chain(db.rows, last) : n \in Nat
      <4>1. Sound(db.rows)
        BY DEF StoreInv, DbInv
      <4>2. \E l \in db.rows : last = l.id
        BY <2>1, <4>1, LastFacts
      <4>. QED
        BY <4>1, <4>2, ChainGoesDown
    <3>5. kind # "full" =>
            /\ (granted + 1) % FullEvery # 1
            /\ \A n \in Chain(db.rows, last) : last - n <= (granted - 1) % FullEvery
      BY <2>1, <3>3 DEF TableInv, Regular
    <3>. HIDE DEF last
    <3>6. kind # "full" => \A n \in Chain(db.rows, last) : last - n < FullEvery - 1
      BY <1>0, <3>2, <3>3, <3>4, <3>5
    <3>. HIDE DEF kind
    <3>7. /\ Compact(db'.rows) /\ Fits(db'.rows)
          /\ LastId(db'.rows) = last + 1
          /\ Chain(db'.rows, last + 1) \subseteq
               {last + 1} \cup IF kind = "full" THEN {} ELSE Chain(db.rows, last)
      BY <2>1, <3>1, <3>6, SaveKeepsTable DEF last
    <3>8. \A n \in Chain(db'.rows, last + 1) : last + 1 - n <= granted % FullEvery
      <4>. SUFFICES ASSUME NEW n \in Chain(db'.rows, last + 1)
                    PROVE  last + 1 - n <= granted % FullEvery
        OBVIOUS
      <4>1. CASE n = last + 1
        BY <3>2, <3>3, <4>1
      <4>2. CASE kind # "full" /\ n \in Chain(db.rows, last)
        BY <3>2, <3>3, <3>4, <3>5, <4>2
      <4>. QED
        BY <3>7, <4>1, <4>2
    <3>9. granted' - 1 = granted
      BY <3>1, <3>2
    <3>10. Regular'
      <4>. DEFINE depth == granted % FullEvery
      <4>1. \A n \in Chain(db'.rows, last + 1) : last + 1 - n <= depth
        BY <3>8
      <4>2. (granted' - 1) % FullEvery = depth
        BY <3>9
      <4>. HIDE DEF depth
      <4>3. LastId(db'.rows) = last + 1
        BY <3>7
      <4>4. \A n \in Chain(db'.rows, LastId(db'.rows)) : LastId(db'.rows) - n <= depth
        <5>1. Chain(db'.rows, last + 1) \in SUBSET Nat
          BY <3>2, <3>4, <3>7
        <5>2. depth \in Int
          BY <3>3 DEF depth
        <5>. QED
          BY <3>2, <4>1, <4>3, <5>1, <5>2
      <4>. QED
        BY <4>2, <4>4 DEF Regular
    <3>. QED
      BY <1>0, <2>1, <3>7, <3>10 DEF TableInv
  <2>. QED
    BY <2>2, <2>3
<1>4. CASE CommitTick
  <2>1. db = [rows |-> db.rows, log |-> db.log, pruned |-> db.pruned]
    BY DEF StoreInv, DbInv
  <2>2. /\ db'.rows = db.rows /\ synced' = synced /\ granted' = granted
        /\ phase # "down"
    BY <1>4, <2>1 DEF CommitTick
  <2>. QED
    BY <1>0, <2>2 DEF TableInv, Regular
<1>5. CASE Crash
  BY <1>0, <1>5 DEF Crash, TableInv, Regular
<1>6. CASE PowerLoss
  BY <1>0, <1>6 DEF PowerLoss, TableInv, Regular
<1>7. CASE Sync
  BY <1>0, <1>7 DEF Sync, TableInv, Regular
<1>8. CASE Tick \/ EndLoop
  BY <1>0, <1>8 DEF Tick, EndLoop, TableInv, Regular
<1>9. ASSUME NEW p \in Parts, NEW full \in BOOLEAN,
             Background(p, full) \/ InTick(p, full) \/ WorldRaises(p)
      PROVE  TableInv'
  BY <1>0, <1>9 DEF Background, InTick, WorldRaises, TableInv, Regular
<1>10. CASE UNCHANGED vars
  BY <1>0, <1>10 DEF vars, TableInv, Regular
<1>. QED
  BY <1>1, <1>2, <1>3, <1>4, <1>5, <1>6, <1>7, <1>8, <1>9, <1>10 DEF Next

LEMMA TableBegins == Init => TableInv
BY DEF Init, NoDb, TableInv, Compact, Fits, Regular

\* No chain is longer than FullEvery: its ids lie within that distance.
LEMMA TableIsBounded ==
  ASSUME StoreInv, TableInv
  PROVE  ChainIsBounded
<1>0. FullEvery \in Nat \ {0} /\ MaxSaves \in Nat
  BY StoreAssumption
<1>1. Sound(db.rows) /\ Compact(db.rows) /\ Fits(db.rows)
  BY DEF StoreInv, DbInv, TableInv
<1>2. ASSUME NEW r \in db.rows  PROVE Cardinality(Chain(db.rows, r.id)) <= FullEvery
  <2>. DEFINE low == r.id - FullEvery + 1
              high == r.id
  <2>0. r.id \in Nat
    BY <1>0, <1>1 DEF Sound
  <2>1. Chain(db.rows, r.id) \subseteq 1..r.id
    BY <1>1, ChainGoesDown
  <2>2. low \in Int /\ high \in Int /\ Chain(db.rows, r.id) \subseteq low..high
    <3>1. ASSUME NEW n \in Chain(db.rows, r.id)  PROVE n \in low..high
      <4>1. r.id - n < FullEvery /\ n \in 1..r.id
        BY <1>1, <2>1 DEF Compact
      <4>. QED
        BY <1>0, <2>0, <4>1
    <3>. QED
      BY <1>0, <2>0, <3>1
  <2>3. (IF low > high THEN 0 ELSE high - low + 1) = FullEvery
    BY <1>0, <2>0
  <2>. HIDE DEF low, high
  <2>4. IsFiniteSet(low..high) /\ Cardinality(low..high) = FullEvery
    BY <2>2, <2>3, FS_Interval
  <2>. QED
    BY <2>2, <2>4, FS_Subset
<1>. QED
  BY <1>1, <1>2 DEF Fits, ChainIsBounded

-----------------------------------------------------------------------------
(* The theorems.                                                           *)

\* The rows, the log, the live world and the scheduler's marks keep to their types.
THEOREM TypeCorrect == Spec => []TypeOK
<1>1. StoreInv => TypeOK
  <2>. SUFFICES ASSUME StoreInv  PROVE TypeOK
    OBVIOUS
  <2>1. happened \in Nat /\ MaxEvents \in Nat /\ happened <= MaxEvents
    BY StoreAssumption DEF StoreInv, MemInv
  <2>2. ASSUME NEW d \in {db, synced}
        PROVE  /\ \A r \in d.rows :
                    /\ r.id \in 1..MaxSaves /\ r.base \in 0..(r.id - 1)
                    /\ r.tick \in 0..MaxTick /\ r.was \in Worlds
                    /\ DOMAIN r.payload \subseteq Parts
               /\ ToSet(d.log) \subseteq 1..MaxEvents /\ d.pruned \in 0..MaxEvents
    <3>1. DbInv(d, happened)
      BY DEF StoreInv
    <3>2. d.log \in Seq(Nat) /\ d.pruned \in 0..happened
      BY <3>1 DEF DbInv, InOrder
    <3>3. ASSUME NEW i \in DOMAIN d.log  PROVE d.log[i] \in 1..MaxEvents
      <4>1. d.log[i] \in Nat /\ d.pruned < d.log[i] /\ d.log[i] <= happened
        BY <3>1, <3>2, ElementOfSeq, LenProperties DEF DbInv, InOrder
      <4>. QED
        BY <2>1, <3>2, <4>1
    <3>4. d.pruned \in 0..MaxEvents
      BY <2>1, <3>2
    <3>. QED
      BY <3>1, <3>3, <3>4 DEF DbInv, Sound, ToSet
  <2>3. ToSet(tx) \cup ToSet(buffer) \subseteq 1..happened
    <3>1. /\ tx \in Seq(Nat) /\ buffer \in Seq(Nat) /\ db.log \in Seq(Nat)
          /\ InOrder(Written, db.pruned, happened) /\ db.pruned \in Nat
      BY <2>1, WrittenHolds DEF StoreInv, MemInv, DbInv
    <3>2. /\ tx \o buffer \in Seq(Nat)
          /\ ToSet(tx) \cup ToSet(buffer) \subseteq ToSet(Written)
      <4>1. tx \o buffer \in Seq(Nat) /\ ToSet(tx \o buffer) = ToSet(tx) \cup ToSet(buffer)
        BY <3>1, ConcatSet
      <4>2. Written = db.log \o (tx \o buffer)
        BY <3>1 DEF Written, LogWith
      <4>3. ToSet(Written) = ToSet(db.log) \cup ToSet(tx \o buffer)
        BY <3>1, <4>1, <4>2, ConcatSet
      <4>. QED
        BY <4>1, <4>3
    <3>3. ASSUME NEW i \in DOMAIN Written  PROVE Written[i] \in 1..happened
      <4>1. Written \in Seq(Nat) /\ db.pruned < Written[i] /\ Written[i] <= happened
        BY <3>1 DEF InOrder
      <4>2. Written[i] \in Nat
        BY <4>1, ElementOfSeq, LenProperties
      <4>. QED
        BY <2>1, <3>1, <4>1, <4>2
    <3>4. ToSet(Written) \subseteq 1..happened
      BY <3>3 DEF ToSet
    <3>. QED
      BY <3>2, <3>4
  <2>. QED
    BY <2>2, <2>3 DEF StoreInv, MemInv, TypeOK
<1>. QED
  BY <1>1, InitInv, StepInv, PTL DEF Spec

\* Whatever was pruned and wherever the process or the machine died, each row
\* gives back the world it was saved from, and the row resumed is the last saved.
THEOREM RowsStayWhole == Spec => [](RowsAreWhole /\ LastSaveIsResumed)
<1>1. StoreInv => RowsAreWhole /\ LastSaveIsResumed
  <2>. SUFFICES ASSUME StoreInv  PROVE RowsAreWhole /\ LastSaveIsResumed
    OBVIOUS
  <2>1. Sound(db.rows) /\ Sound(synced.rows)
    BY DEF StoreInv, DbInv
  <2>2. RowsAreWhole
    BY <2>1, SoundRowsAreWhole DEF RowsAreWhole
  <2>3. LastSaveIsResumed
    BY <2>1, LastFacts DEF LastSaveIsResumed
  <2>. QED
    BY <2>2, <2>3
<1>. QED
  BY <1>1, InitInv, StepInv, PTL DEF Spec

\* Between two ticks a crash costs at most MaxInterval of them, and what is
\* resumed never remembers an event that the log has lost.
THEOREM LossStaysBounded == Spec => []LossIsBounded
<1>1. StoreInv => LossIsBounded
  <2>. SUFFICES ASSUME StoreInv  PROVE LossIsBounded
    OBVIOUS
  <2>1. NoSnapshotAheadOfLog
    BY DEF StoreInv, DbInv, Recorded, NoSnapshotAheadOfLog
  <2>2. ASSUME phase = "idle"  PROVE tick - LastTick <= MaxInterval
    <3>1. db.rows # {}
      BY <2>2 DEF StoreInv, PhaseInv
    <3>2. LastTick \in Nat
      BY <3>1, LastTickFacts
    <3>3. tick \in Nat /\ MaxInterval \in Nat /\ lastRun \in {Never} \cup 0..tick
      BY StoreAssumption DEF StoreInv, MemInv
    <3>4. IF lastRun = Never THEN tick = LastTick
          ELSE lastRun <= LastTick + 1 /\ tick - lastRun < MaxInterval
      BY <2>2 DEF StoreInv, ScheduleInv, Seen
    <3>. QED
      BY <3>2, <3>3, <3>4
  <2>. QED
    BY <2>1, <2>2 DEF LossIsBounded
<1>. QED
  BY <1>1, InitInv, StepInv, PTL DEF Spec

\* No step but a loss of power takes a keyframe away.
THEOREM KeyframesStay == Spec => KeyframesArePermanent
<1>1. StoreInv /\ [Next]_vars => [db' # synced => Keyframes(db.rows) \subseteq db'.rows]_vars
  <2>. SUFFICES ASSUME StoreInv, Next, db' # synced
                PROVE  Keyframes(db.rows) \subseteq db'.rows
    OBVIOUS
  <2>1. Keyframes(db.rows) \subseteq db.rows
    BY DEF Keyframes
  <2>2. Sound(db.rows) /\ world \in Worlds /\ tick \in 0..MaxTick
    BY DEF StoreInv, DbInv, MemInv
  <2>3. ASSUME NEW kind, NEW inserted, Save(kind, inserted), \A r \in db.rows : r.tick <= tick
        PROVE  Keyframes(db.rows) \subseteq db'.rows
    <3>1. db'.rows = Pruned(db.rows \cup {NewRow(kind)}) /\ LastId(db.rows) < MaxSaves
      BY <2>3 DEF Save
    <3>. QED
      BY <2>2, <2>3, <3>1, SavedRows
  <2>4. CASE Start
    BY <2>1, <2>3, <2>4 DEF Start
  <2>5. CASE Stop
    <3>1. Save("full", tx \o buffer) /\ \A r \in db.rows : r.tick <= tick
      BY <2>5 DEF Stop, StoreInv, PhaseInv
    <3>. QED
      BY <2>3, <3>1
  <2>6. ASSUME NEW quiet \in BOOLEAN, SaveIfDue(quiet)
        PROVE  Keyframes(db.rows) \subseteq db'.rows
    <3>1. \A r \in db.rows : r.tick <= tick
      BY <2>6 DEF SaveIfDue, StoreInv, PhaseInv
    <3>2. CASE IsDue(quiet)
      <4>1. PICK kind : Save(kind, <<>>)
        BY <2>6, <3>2 DEF SaveIfDue
      <4>. QED
        BY <2>3, <3>1, <4>1
    <3>3. CASE ~IsDue(quiet)
      BY <2>1, <2>6, <3>3 DEF SaveIfDue
    <3>. QED
      BY <3>2, <3>3
  <2>7. CASE CommitTick
    <3>1. db = [rows |-> db.rows, log |-> db.log, pruned |-> db.pruned]
      BY DEF StoreInv, DbInv
    <3>2. db'.rows = db.rows
      BY <2>7, <3>1 DEF CommitTick
    <3>. QED
      BY <2>1, <3>2
  <2>8. CASE PowerLoss
    BY <2>8 DEF PowerLoss
  <2>9. CASE Tick \/ EndLoop \/ Crash \/ Sync
    BY <2>1, <2>9 DEF Tick, EndLoop, Crash, Sync
  <2>10. ASSUME NEW p \in Parts, NEW full \in BOOLEAN,
                Background(p, full) \/ InTick(p, full) \/ WorldRaises(p)
         PROVE  Keyframes(db.rows) \subseteq db'.rows
    BY <2>1, <2>10 DEF Background, InTick, WorldRaises
  <2>. QED
    BY <2>4, <2>5, <2>6, <2>7, <2>8, <2>9, <2>10 DEF Next
<1>. QED
  BY <1>1, InitInv, StepInv, PTL DEF Spec, KeyframesArePermanent
\* Where a full snapshot is ever followed by an incremental one, every chain is
\* bounded by the policy, and the table by what is to be kept: rows are never lost
\* and never pile up, over any mix of saves, prunings, stops, kills and losses of
\* power.
THEOREM RowsAlwaysReconstruct ==
  ASSUME FullEvery > 1
  PROVE  Spec => []RowsReconstruct
<1>1. Init => StoreInv /\ TableInv
  BY InitInv, TableBegins
<1>2. StoreInv /\ TableInv /\ [Next]_vars => StoreInv' /\ TableInv'
  BY StepInv, TableStep
<1>3. StoreInv /\ TableInv => ChainIsBounded
  BY TableIsBounded
<1>4. Spec => [](StoreInv /\ TableInv)
  BY <1>1, <1>2, PTL DEF Spec
<1>5. (TypeOK /\ RowsAreWhole /\ LastSaveIsResumed /\ ChainIsBounded) => RowsReconstruct
  BY DEF RowsReconstruct
<1>. QED
  BY <1>3, <1>4, <1>5, TypeCorrect, RowsStayWhole, PTL

-----------------------------------------------------------------------------
(* Values by how deep they nest.                                           *)

\* Induction on the depth.
LEMMA Climb ==
  ASSUME NEW S, 0 \in S,
         \A n \in 1..Depth : n - 1 \in S => n \in S
  PROVE  0..Depth \subseteq S
<1>0. Depth \in Nat
  BY DictAssumption
<1>. DEFINE Bad == (0..Depth) \ S
<1>1. ASSUME Bad # {}  PROVE FALSE
  <2>1. Bad \in SUBSET Nat
    BY <1>0
  <2>2. PICK n \in Bad : \A k \in Bad : n <= k
    <3>. HIDE DEF Bad
    <3>. QED
      BY <1>1, <2>1, Least
  <2>3. n \in 1..Depth /\ n - 1 \in 0..Depth /\ ~(n <= n - 1)
    BY <1>0
  <2>. QED
    BY <2>2, <2>3
<1>. QED
  BY <1>1

\* The equation that defines Values.
Nesting(f, n) == IF n = 0 THEN Leaves ELSE f[n - 1] \cup DictsOver(Names[n], f[n - 1])

LEMMA ValuesExist == \E f : f = [n \in 0..Depth |-> Nesting(f, n)]
<1>. DEFINE Sol(n, f) == f = [m \in 0..n |-> Nesting(f, m)]
            S == {n \in 0..Depth : \E f : Sol(n, f)}
<1>0. Depth \in Nat
  BY DictAssumption
<1>1. 0 \in S
  <2>. DEFINE g == [m \in 0..0 |-> Leaves]
  <2>1. \A m \in 0..0 : Nesting(g, m) = Leaves
    BY DEF Nesting
  <2>2. 0 \in 0..Depth /\ Sol(0, g)
    BY <1>0, <2>1
  <2>. QED
    BY <2>2
<1>2. ASSUME NEW n \in 1..Depth, n - 1 \in S  PROVE n \in S
  <2>1. PICK f : Sol(n - 1, f)
    BY <1>2
  <2>. DEFINE g == [m \in 0..n |-> Nesting(f, m)]
  <2>2. \A m \in 0..(n - 1) : m \in 0..n /\ f[m] = Nesting(f, m)
    BY <1>0, <2>1
  <2>3. \A m \in 0..(n - 1) : g[m] = f[m]
    BY <2>2
  <2>4. ASSUME NEW m \in 0..n  PROVE Nesting(g, m) = Nesting(f, m)
    <3>. HIDE DEF g
    <3>1. CASE m = 0
      BY <3>1 DEF Nesting
    <3>2. CASE m # 0
      <4>1. m - 1 \in 0..(n - 1)
        BY <1>0, <3>2
      <4>2. g[m - 1] = f[m - 1]
        BY <2>3, <4>1
      <4>. QED
        BY <3>2, <4>2 DEF Nesting
    <3>. QED
      BY <3>1, <3>2
  <2>5. n \in 0..Depth /\ Sol(n, g)
    BY <1>0, <2>4
  <2>. QED
    BY <2>5
<1>3. Depth \in S
  <2>. HIDE DEF S
  <2>. QED
    BY <1>0, <1>1, <1>2, Climb
<1>. QED
  BY <1>3

LEMMA ValuesUnfold ==
  /\ Values[0] = Leaves
  /\ \A n \in 1..Depth : Values[n] = Values[n - 1] \cup DictsOver(Names[n], Values[n - 1])
<1>1. \E f : f = [n \in 0..Depth |-> Nesting(f, n)]
  BY ValuesExist
<1>2. Values = CHOOSE f : f = [n \in 0..Depth |-> Nesting(f, n)]
  BY DEF Values, Nesting
<1>3. Values = [n \in 0..Depth |-> Nesting(Values, n)]
  BY <1>1, <1>2
<1>4. Depth \in Nat
  BY DictAssumption
<1>5. \A n \in 0..Depth : Values[n] = Nesting(Values, n)
  BY <1>3
<1>6. 0 \in 0..Depth /\ \A n \in 1..Depth : n \in 0..Depth /\ n # 0
  BY <1>4
<1>. QED
  BY <1>5, <1>6 DEF Nesting

LEMMA ValuesAt ==
  ASSUME NEW m \in 1..Depth
  PROVE  /\ m \in 0..Depth /\ m - 1 \in 0..Depth
         /\ Values[m] = Values[m - 1] \cup DictsOver(Names[m], Values[m - 1])
         /\ Values[m - 1] \subseteq Values[m]
<1>1. m \in 0..Depth /\ m - 1 \in 0..Depth
  BY DictAssumption
<1>2. Values[m] = Values[m - 1] \cup DictsOver(Names[m], Values[m - 1])
  BY ValuesUnfold
<1>. QED
  BY <1>1, <1>2

\* What nests less nests at most as deep.
LEMMA ValuesGrow ==
  ASSUME NEW m \in 0..Depth, NEW n \in m..Depth
  PROVE  Values[m] \subseteq Values[n]
<1>. DEFINE S == {k \in 0..Depth : k < m \/ Values[m] \subseteq Values[k]}
<1>0. Depth \in Nat
  BY DictAssumption
<1>1. 0 \in S
  BY <1>0
<1>2. ASSUME NEW k \in 1..Depth, k - 1 \in S  PROVE k \in S
  BY <1>0, <1>2, ValuesAt
<1>3. 0..Depth \subseteq S
  <2>. HIDE DEF S
  <2>. QED
    BY <1>1, <1>2, Climb
<1>. QED
  BY <1>0, <1>3

\* A dict holds one key of a name, and what it holds nests less.
LEMMA DictFacts ==
  ASSUME NEW d, NEW names, NEW values
  PROVE  d \in DictsOver(names, values) <=>
           /\ d = [k \in DOMAIN d |-> d[k]]
           /\ DOMAIN d \subseteq Keys(names)
           /\ \A j, k \in DOMAIN d : Name(j) = Name(k) => j = k
           /\ \A k \in DOMAIN d : d[k] \in values
<1>1. ASSUME d \in DictsOver(names, values)
      PROVE  /\ d = [k \in DOMAIN d |-> d[k]]
             /\ DOMAIN d \subseteq Keys(names)
             /\ \A j, k \in DOMAIN d : Name(j) = Name(k) => j = k
             /\ \A k \in DOMAIN d : d[k] \in values
  <2>1. PICK K \in {S \in SUBSET Keys(names) : \A j, k \in S : Name(j) = Name(k) => j = k} :
          d \in [K -> values]
    BY <1>1 DEF DictsOver
  <2>. QED
    BY <2>1
<1>2. ASSUME /\ d = [k \in DOMAIN d |-> d[k]]
             /\ DOMAIN d \subseteq Keys(names)
             /\ \A j, k \in DOMAIN d : Name(j) = Name(k) => j = k
             /\ \A k \in DOMAIN d : d[k] \in values
      PROVE  d \in DictsOver(names, values)
  <2>1. d \in [DOMAIN d -> values]
    BY <1>2
  <2>2. DOMAIN d \in {S \in SUBSET Keys(names) : \A j, k \in S : Name(j) = Name(k) => j = k}
    BY <1>2
  <2>. QED
    BY <2>1, <2>2 DEF DictsOver
<1>. QED
  BY <1>1, <1>2

\* Where a value that is a dict comes from.
LEMMA DictLevel ==
  ASSUME NEW n \in 0..Depth, NEW v \in Values[n], IsDict(v)
  PROVE  \E m \in 1..n : v \in DictsOver(Names[m], Values[m - 1])
<1>. DEFINE S == {k \in 0..Depth : v \in Values[k] =>
                    \E m \in 1..k : v \in DictsOver(Names[m], Values[m - 1])}
<1>0. Depth \in Nat
  BY DictAssumption
<1>1. 0 \in S
  BY <1>0, ValuesUnfold DEF IsDict
<1>2. ASSUME NEW k \in 1..Depth, k - 1 \in S  PROVE k \in S
  BY <1>0, <1>2, ValuesAt
<1>3. 0..Depth \subseteq S
  <2>. HIDE DEF S
  <2>. QED
    BY <1>1, <1>2, Climb
<1>. QED
  BY <1>3

LEMMA LevelDict ==
  ASSUME NEW m \in 1..Depth, NEW v \in DictsOver(Names[m], Values[m - 1])
  PROVE  v \in Values[m] /\ v \in Dict
<1>0. Depth \in Nat
  BY DictAssumption
<1>1. v \in Values[m]
  BY ValuesUnfold
<1>2. v \in Value
  BY <1>0, <1>1, ValuesGrow DEF Value
<1>3. v \notin Leaves
  BY DictAssumption
<1>. QED
  BY <1>1, <1>2, <1>3 DEF Dict, IsDict

\* What a dict holds.
LEMMA InDict ==
  ASSUME NEW n \in 0..Depth, NEW v \in Values[n], IsDict(v)
  PROVE  /\ n \in 1..Depth
         /\ v \in Dict
         /\ v = [k \in DOMAIN v |-> v[k]]
         /\ DOMAIN v \subseteq AllKeys
         /\ \A j, k \in DOMAIN v : Name(j) = Name(k) => j = k
         /\ \A k \in DOMAIN v : v[k] \in Values[n - 1] /\ v[k] \in Value
<1>0. Depth \in Nat
  BY DictAssumption
<1>1. PICK m \in 1..n : v \in DictsOver(Names[m], Values[m - 1])
  BY DictLevel
<1>2. m \in 1..Depth /\ n \in 1..Depth /\ m - 1 \in 0..Depth /\ n - 1 \in (m - 1)..Depth
      /\ Depth \in (n - 1)..Depth /\ n - 1 \in 0..Depth
  BY <1>0
<1>3. Values[m - 1] \subseteq Values[n - 1] /\ Values[n - 1] \subseteq Value
  BY <1>2, ValuesGrow DEF Value
<1>4. /\ v = [k \in DOMAIN v |-> v[k]]
      /\ DOMAIN v \subseteq Keys(Names[m])
      /\ \A j, k \in DOMAIN v : Name(j) = Name(k) => j = k
      /\ \A k \in DOMAIN v : v[k] \in Values[m - 1]
  BY <1>1, DictFacts
<1>5. Keys(Names[m]) \subseteq AllKeys
  BY <1>2 DEF AllKeys, Keys
<1>. QED
  BY <1>1, <1>2, <1>3, <1>4, <1>5, LevelDict

-----------------------------------------------------------------------------
(* The equations of the recursive functions.  What each refers to nests    *)
(* less than its argument, so it has a solution up to any depth.           *)

\* The members of D that nest at most n deep.
Upto(D, n) == D \cap Values[n]

StoredBy(f, v) ==
  IF IsDict(v)
  THEN [k \in {Str(j) : j \in DOMAIN v} |->
          f[v[CHOOSE j \in DOMAIN v : Name(j) = Name(k)]]]
  ELSE IF v = Tuple THEN List ELSE v

LEMMA StoredUnfold == \A v \in Value : Stored[v] = StoredBy(Stored, v)
<1>. DEFINE Sol(n, f) == f = [v \in Values[n] |-> StoredBy(f, v)]
            S == {n \in 0..Depth : \E f : Sol(n, f)}
<1>0. Depth \in Nat
  BY DictAssumption
<1>1. ASSUME NEW n \in 0..Depth, NEW v \in Values[n], NEW f, NEW g,
             \A u : n # 0 /\ u \in Values[n - 1] => g[u] = f[u]
      PROVE  StoredBy(g, v) = StoredBy(f, v)
  <2>1. CASE IsDict(v)
    <3>1. n # 0 /\ \A j \in DOMAIN v : v[j] \in Values[n - 1]
      BY <2>1, InDict
    <3>2. ASSUME NEW k \in {Str(j) : j \in DOMAIN v}
          PROVE  v[CHOOSE j \in DOMAIN v : Name(j) = Name(k)] \in Values[n - 1]
      <4>1. \E j \in DOMAIN v : Name(j) = Name(k)
        BY DEF Str, Name
      <4>. QED
        BY <3>1, <4>1
    <3>. QED
      BY <1>1, <2>1, <3>1, <3>2 DEF StoredBy
  <2>2. CASE ~IsDict(v)
    BY <2>2 DEF StoredBy
  <2>. QED
    BY <2>1, <2>2
<1>2. 0 \in S
  <2>. DEFINE g == [v \in Values[0] |-> StoredBy(0, v)]
  <2>1. \A v \in Values[0] : StoredBy(g, v) = StoredBy(0, v)
    BY <1>0, <1>1
  <2>2. 0 \in 0..Depth /\ Sol(0, g)
    BY <1>0, <2>1
  <2>. QED
    BY <2>2
<1>3. ASSUME NEW n \in 1..Depth, n - 1 \in S  PROVE n \in S
  <2>1. PICK f : Sol(n - 1, f)
    BY <1>3
  <2>. DEFINE g == [v \in Values[n] |-> StoredBy(f, v)]
  <2>2. Values[n - 1] \subseteq Values[n]
    BY ValuesUnfold
  <2>3. \A v \in Values[n - 1] : g[v] = f[v]
    BY <2>1, <2>2
  <2>4. n \in 0..Depth
    BY <1>0
  <2>5. \A v \in Values[n] : StoredBy(g, v) = StoredBy(f, v)
    <3>. HIDE DEF g
    <3>. QED
      BY <1>1, <2>3, <2>4
  <2>6. Sol(n, g)
    BY <2>5
  <2>. QED
    BY <2>4, <2>6
<1>4. Depth \in S
  <2>. HIDE DEF S
  <2>. QED
    BY <1>0, <1>2, <1>3, Climb
<1>5. \E f : f = [v \in Value |-> StoredBy(f, v)]
  BY <1>4 DEF Value
<1>6. Stored = CHOOSE f : f = [v \in Value |-> StoredBy(f, v)]
  BY DEF Stored, StoredBy
<1>7. Stored = [v \in Value |-> StoredBy(Stored, v)]
  BY <1>5, <1>6
<1>. QED
  BY <1>7

EqBy(f, u) == [v \in Value |->
  IF IsDict(u) /\ IsDict(v)
  THEN DOMAIN u = DOMAIN v /\ \A k \in DOMAIN u : f[u[k]][v[k]]
  ELSE u = v \/ {u, v} = {One, True}]

LEMMA PyEqUnfold == \A u \in Value : PyEq[u] = EqBy(PyEq, u)
<1>. DEFINE Sol(n, f) == f = [u \in Values[n] |-> EqBy(f, u)]
            S == {n \in 0..Depth : \E f : Sol(n, f)}
<1>0. Depth \in Nat
  BY DictAssumption
<1>1. ASSUME NEW n \in 0..Depth, NEW u \in Values[n], NEW f, NEW g,
             \A v : n # 0 /\ v \in Values[n - 1] => g[v] = f[v]
      PROVE  EqBy(g, u) = EqBy(f, u)
  <2>1. CASE IsDict(u)
    <3>1. n # 0 /\ \A j \in DOMAIN u : u[j] \in Values[n - 1]
      BY <2>1, InDict
    <3>2. \A k \in DOMAIN u : g[u[k]] = f[u[k]]
      BY <1>1, <3>1
    <3>. QED
      BY <3>2 DEF EqBy
  <2>2. CASE ~IsDict(u)
    BY <2>2 DEF EqBy
  <2>. QED
    BY <2>1, <2>2
<1>2. 0 \in S
  <2>. DEFINE g == [v \in Values[0] |-> EqBy(0, v)]
  <2>1. \A v \in Values[0] : EqBy(g, v) = EqBy(0, v)
    BY <1>0, <1>1
  <2>2. 0 \in 0..Depth /\ Sol(0, g)
    BY <1>0, <2>1
  <2>. QED
    BY <2>2
<1>3. ASSUME NEW n \in 1..Depth, n - 1 \in S  PROVE n \in S
  <2>1. PICK f : Sol(n - 1, f)
    BY <1>3
  <2>. DEFINE g == [v \in Values[n] |-> EqBy(f, v)]
  <2>2. Values[n - 1] \subseteq Values[n]
    BY ValuesUnfold
  <2>3. \A v \in Values[n - 1] : g[v] = f[v]
    BY <2>1, <2>2
  <2>4. n \in 0..Depth
    BY <1>0
  <2>5. \A v \in Values[n] : EqBy(g, v) = EqBy(f, v)
    <3>. HIDE DEF g
    <3>. QED
      BY <1>1, <2>3, <2>4
  <2>6. Sol(n, g)
    BY <2>5
  <2>. QED
    BY <2>4, <2>6
<1>4. Depth \in S
  <2>. HIDE DEF S
  <2>. QED
    BY <1>0, <1>2, <1>3, Climb
<1>5. \E f : f = [v \in Value |-> EqBy(f, v)]
  BY <1>4 DEF Value
<1>6. PyEq = CHOOSE f : f = [v \in Value |-> EqBy(f, v)]
  BY DEF PyEq, EqBy
<1>7. PyEq = [v \in Value |-> EqBy(PyEq, v)]
  BY <1>5, <1>6
<1>. QED
  BY <1>7

DiffBy(f, old) == [new \in Dict |->
  {Edit("set", k, new[k]) : k \in Changed(old, new) \ Nested(old, new)}
  \cup {Edit("recurse", k, f[old[k]][new[k]]) : k \in Nested(old, new)}
  \cup {Edit("del", k, {}) : k \in DOMAIN old \ DOMAIN new}]

LEMMA DiffUnfold == \A d \in Dict : Diff[d] = DiffBy(Diff, d)
<1>. DEFINE Sol(n, f) == f = [d \in Upto(Dict, n) |-> DiffBy(f, d)]
            S == {n \in 0..Depth : \E f : Sol(n, f)}
<1>0. Depth \in Nat
  BY DictAssumption
<1>1. ASSUME NEW n \in 0..Depth, NEW d \in Upto(Dict, n), NEW f, NEW g,
             \A u : n # 0 /\ u \in Upto(Dict, n - 1) => g[u] = f[u]
      PROVE  DiffBy(g, d) = DiffBy(f, d)
  <2>1. n # 0 /\ \A j \in DOMAIN d : d[j] \in Values[n - 1] /\ d[j] \in Value
    BY InDict DEF Upto, Dict
  <2>2. ASSUME NEW new, NEW k \in Nested(d, new)
        PROVE  g[d[k]][new[k]] = f[d[k]][new[k]]
    <3>1. d[k] \in Upto(Dict, n - 1)
      BY <2>1 DEF Upto, Dict, Nested
    <3>. QED
      BY <1>1, <2>1, <3>1
  <2>. QED
    BY <2>2 DEF DiffBy
<1>2. 0 \in S
  <2>. DEFINE g == [d \in Upto(Dict, 0) |-> DiffBy(0, d)]
  <2>1. \A d \in Upto(Dict, 0) : DiffBy(g, d) = DiffBy(0, d)
    BY <1>0, <1>1
  <2>2. 0 \in 0..Depth /\ Sol(0, g)
    BY <1>0, <2>1
  <2>. QED
    BY <2>2
<1>3. ASSUME NEW n \in 1..Depth, n - 1 \in S  PROVE n \in S
  <2>1. PICK f : Sol(n - 1, f)
    BY <1>3
  <2>. DEFINE g == [d \in Upto(Dict, n) |-> DiffBy(f, d)]
  <2>2. Upto(Dict, n - 1) \subseteq Upto(Dict, n)
    BY ValuesUnfold DEF Upto
  <2>3. \A d \in Upto(Dict, n - 1) : g[d] = f[d]
    BY <2>1, <2>2
  <2>4. n \in 0..Depth
    BY <1>0
  <2>5. \A d \in Upto(Dict, n) : DiffBy(g, d) = DiffBy(f, d)
    <3>. HIDE DEF g
    <3>. QED
      BY <1>1, <2>3, <2>4
  <2>6. Sol(n, g)
    BY <2>5
  <2>. QED
    BY <2>4, <2>6
<1>4. Depth \in S
  <2>. HIDE DEF S
  <2>. QED
    BY <1>0, <1>2, <1>3, Climb
<1>5. Upto(Dict, Depth) = Dict
  BY DEF Upto, Dict, Value
<1>6. \E f : f = [d \in Dict |-> DiffBy(f, d)]
  BY <1>4, <1>5
<1>7. Diff = CHOOSE f : f = [d \in Dict |-> DiffBy(f, d)]
  BY DEF Diff, DiffBy
<1>8. Diff = [d \in Dict |-> DiffBy(Diff, d)]
  BY <1>6, <1>7
<1>. QED
  BY <1>8

-----------------------------------------------------------------------------
(* Patches by how deep they nest.                                          *)

EditsOver(patches) ==
  [op : {"set"}, key : AllKeys, to : Value]
  \cup [op : {"recurse"}, key : AllKeys, to : patches]
  \cup [op : {"del"}, key : AllKeys, to : {{}}]

\* The equation that defines PatchesTo.
Patching(f, n) == SUBSET EditsOver(IF n = 0 THEN {} ELSE f[n - 1])

LEMMA PatchesExist == \E f : f = [n \in 0..Depth |-> Patching(f, n)]
<1>. DEFINE Sol(n, f) == f = [m \in 0..n |-> Patching(f, m)]
            S == {n \in 0..Depth : \E f : Sol(n, f)}
<1>0. Depth \in Nat
  BY DictAssumption
<1>1. 0 \in S
  <2>. DEFINE none == SUBSET EditsOver({})
              g == [m \in 0..0 |-> none]
  <2>1. \A m \in 0..0 : Patching(g, m) = none
    BY DEF Patching
  <2>. HIDE DEF none
  <2>2. 0 \in 0..Depth /\ Sol(0, g)
    BY <1>0, <2>1
  <2>. QED
    BY <2>2
<1>2. ASSUME NEW n \in 1..Depth, n - 1 \in S  PROVE n \in S
  <2>1. PICK f : Sol(n - 1, f)
    BY <1>2
  <2>. DEFINE g == [m \in 0..n |-> Patching(f, m)]
  <2>2. \A m \in 0..(n - 1) : m \in 0..n /\ f[m] = Patching(f, m)
    BY <1>0, <2>1
  <2>3. \A m \in 0..(n - 1) : g[m] = f[m]
    BY <2>2
  <2>4. ASSUME NEW m \in 0..n  PROVE Patching(g, m) = Patching(f, m)
    <3>. HIDE DEF g
    <3>1. CASE m = 0
      BY <3>1 DEF Patching
    <3>2. CASE m # 0
      <4>1. m - 1 \in 0..(n - 1)
        BY <1>0, <3>2
      <4>2. g[m - 1] = f[m - 1]
        BY <2>3, <4>1
      <4>. QED
        BY <3>2, <4>2 DEF Patching
    <3>. QED
      BY <3>1, <3>2
  <2>5. n \in 0..Depth /\ Sol(n, g)
    BY <1>0, <2>4
  <2>. QED
    BY <2>5
<1>3. Depth \in S
  <2>. HIDE DEF S
  <2>. QED
    BY <1>0, <1>1, <1>2, Climb
<1>. QED
  BY <1>3

LEMMA PatchesUnfold ==
  /\ PatchesTo[0] = SUBSET EditsOver({})
  /\ \A n \in 1..Depth : PatchesTo[n] = SUBSET EditsOver(PatchesTo[n - 1])
<1>1. \E f : f = [n \in 0..Depth |-> Patching(f, n)]
  BY PatchesExist
<1>2. PatchesTo = CHOOSE f : f = [n \in 0..Depth |-> Patching(f, n)]
  <2>1. \A f, n : Patching(f, n) =
          SUBSET ([op : {"set"}, key : AllKeys, to : Value]
                  \cup [op : {"recurse"}, key : AllKeys, to : IF n = 0 THEN {} ELSE f[n - 1]]
                  \cup [op : {"del"}, key : AllKeys, to : {{}}])
    BY DEF Patching, EditsOver
  <2>. QED
    BY <2>1 DEF PatchesTo
<1>3. PatchesTo = [n \in 0..Depth |-> Patching(PatchesTo, n)]
  BY <1>1, <1>2
<1>4. Depth \in Nat
  BY DictAssumption
<1>5. \A n \in 0..Depth : PatchesTo[n] = Patching(PatchesTo, n)
  BY <1>3
<1>6. 0 \in 0..Depth /\ \A n \in 1..Depth : n \in 0..Depth /\ n # 0
  BY <1>4
<1>. QED
  BY <1>5, <1>6 DEF Patching

LEMMA PatchesAt ==
  ASSUME NEW m \in 1..Depth
  PROVE  /\ m \in 0..Depth /\ m - 1 \in 0..Depth
         /\ PatchesTo[m] = SUBSET EditsOver(PatchesTo[m - 1])
<1>1. m \in 0..Depth /\ m - 1 \in 0..Depth
  BY DictAssumption
<1>2. PatchesTo[m] = SUBSET EditsOver(PatchesTo[m - 1])
  BY PatchesUnfold
<1>. QED
  BY <1>1, <1>2

\* The edits of a patch.
LEMMA EditsOf ==
  ASSUME NEW patches, NEW p, p \in SUBSET EditsOver(patches)
  PROVE  /\ \A e \in Edits(p, "set") : e.key \in AllKeys /\ e.to \in Value
         /\ \A e \in Edits(p, "recurse") : e.key \in AllKeys /\ e.to \in patches
         /\ \A e \in Edits(p, "del") :
              e.key \in AllKeys /\ e.to = {} /\ e = Edit("del", e.key, {})
<1>1. ASSUME NEW e \in p
      PROVE  \/ e \in [op : {"set"}, key : AllKeys, to : Value]
             \/ e \in [op : {"recurse"}, key : AllKeys, to : patches]
             \/ e \in [op : {"del"}, key : AllKeys, to : {{}}]
  BY DEF EditsOver
<1>2. "set" # "recurse" /\ "set" # "del" /\ "recurse" # "del"
  OBVIOUS
<1>. QED
  BY <1>1, <1>2 DEF Edits, Edit

LEMMA EditIn ==
  ASSUME NEW patches, NEW k \in AllKeys, NEW v
  PROVE  /\ v \in Value => Edit("set", k, v) \in EditsOver(patches)
         /\ v \in patches => Edit("recurse", k, v) \in EditsOver(patches)
         /\ v = {} => Edit("del", k, v) \in EditsOver(patches)
BY DEF Edit, EditsOver

LEMMA PatchesStep ==
  ASSUME NEW n \in 1..Depth
  PROVE  PatchesTo[n - 1] \subseteq PatchesTo[n]
<1>. DEFINE S == {k \in 0..Depth : k = 0 \/ PatchesTo[k - 1] \subseteq PatchesTo[k]}
<1>0. Depth \in Nat
  BY DictAssumption
<1>1. 0 \in S
  BY <1>0
<1>2. ASSUME NEW k \in 1..Depth, k - 1 \in S  PROVE k \in S
  <2>1. PatchesTo[k] = SUBSET EditsOver(PatchesTo[k - 1]) /\ k \in 0..Depth
    BY PatchesAt
  <2>2. CASE k - 1 = 0
    <3>1. PatchesTo[k - 1] = SUBSET EditsOver({})
      BY <2>2, PatchesUnfold
    <3>2. EditsOver({}) \subseteq EditsOver(PatchesTo[k - 1])
      BY DEF EditsOver
    <3>. QED
      BY <2>1, <3>1, <3>2
  <2>3. CASE k - 1 # 0
    <3>1. k - 1 \in 1..Depth
      BY <1>0, <2>3
    <3>2. PatchesTo[k - 1] = SUBSET EditsOver(PatchesTo[(k - 1) - 1])
      BY <3>1, PatchesUnfold
    <3>3. PatchesTo[(k - 1) - 1] \subseteq PatchesTo[k - 1]
      BY <1>2, <2>3
    <3>4. EditsOver(PatchesTo[(k - 1) - 1]) \subseteq EditsOver(PatchesTo[k - 1])
      BY <3>3 DEF EditsOver
    <3>. QED
      BY <2>1, <3>2, <3>4
  <2>. QED
    BY <2>2, <2>3
<1>3. 0..Depth \subseteq S
  <2>. HIDE DEF S
  <2>. QED
    BY <1>1, <1>2, Climb
<1>. QED
  BY <1>0, <1>3

LEMMA PatchesGrow ==
  ASSUME NEW n \in 0..Depth
  PROVE  PatchesTo[n] \subseteq Patches
<1>. DEFINE S == {k \in 0..Depth : k < n \/ PatchesTo[n] \subseteq PatchesTo[k]}
<1>0. Depth \in Nat
  BY DictAssumption
<1>1. 0 \in S
  BY <1>0
<1>2. ASSUME NEW k \in 1..Depth, k - 1 \in S  PROVE k \in S
  BY <1>0, <1>2, PatchesAt, PatchesStep
<1>3. 0..Depth \subseteq S
  <2>. HIDE DEF S
  <2>. QED
    BY <1>1, <1>2, Climb
<1>. QED
  BY <1>0, <1>3 DEF Patches

\* What a nested edit holds nests less.
LEMMA Inner ==
  ASSUME NEW n \in 0..Depth, NEW p \in PatchesTo[n], NEW e \in Edits(p, "recurse")
  PROVE  n # 0 /\ e.to \in PatchesTo[n - 1]
<1>1. CASE n = 0
  BY <1>1, PatchesUnfold, EditsOf
<1>2. CASE n # 0
  <2>1. n \in 1..Depth
    BY <1>2
  <2>. QED
    BY <1>2, <2>1, PatchesUnfold, EditsOf
<1>. QED
  BY <1>1, <1>2

PatchBy(f, p) ==
  {Edit("set", Str(e.key), Stored[e.to]) : e \in Edits(p, "set")}
  \cup {Edit("recurse", Str(e.key), f[e.to]) : e \in Edits(p, "recurse")}
  \cup Edits(p, "del")

LEMMA StoredPatchUnfold == \A p \in Patches : StoredPatch[p] = PatchBy(StoredPatch, p)
<1>. DEFINE Sol(n, f) == f = [p \in PatchesTo[n] |-> PatchBy(f, p)]
            S == {n \in 0..Depth : \E f : Sol(n, f)}
<1>0. Depth \in Nat
  BY DictAssumption
<1>1. ASSUME NEW n \in 0..Depth, NEW p \in PatchesTo[n], NEW f, NEW g,
             \A q : n # 0 /\ q \in PatchesTo[n - 1] => g[q] = f[q]
      PROVE  PatchBy(g, p) = PatchBy(f, p)
  <2>1. \A e \in Edits(p, "recurse") : g[e.to] = f[e.to]
    BY <1>1, Inner
  <2>. QED
    BY <2>1 DEF PatchBy
<1>2. 0 \in S
  <2>. DEFINE g == [p \in PatchesTo[0] |-> PatchBy(0, p)]
  <2>1. \A p \in PatchesTo[0] : PatchBy(g, p) = PatchBy(0, p)
    BY <1>0, <1>1
  <2>2. 0 \in 0..Depth /\ Sol(0, g)
    BY <1>0, <2>1
  <2>. QED
    BY <2>2
<1>3. ASSUME NEW n \in 1..Depth, n - 1 \in S  PROVE n \in S
  <2>1. PICK f : Sol(n - 1, f)
    BY <1>3
  <2>. DEFINE g == [p \in PatchesTo[n] |-> PatchBy(f, p)]
  <2>2. PatchesTo[n - 1] \subseteq PatchesTo[n]
    BY PatchesStep
  <2>3. \A p \in PatchesTo[n - 1] : g[p] = f[p]
    BY <2>1, <2>2
  <2>4. n \in 0..Depth
    BY <1>0
  <2>5. \A p \in PatchesTo[n] : PatchBy(g, p) = PatchBy(f, p)
    <3>. HIDE DEF g
    <3>. QED
      BY <1>1, <2>3, <2>4
  <2>6. Sol(n, g)
    BY <2>5
  <2>. QED
    BY <2>4, <2>6
<1>4. Depth \in S
  <2>. HIDE DEF S
  <2>. QED
    BY <1>0, <1>2, <1>3, Climb
<1>5. \E f : f = [p \in Patches |-> PatchBy(f, p)]
  BY <1>4 DEF Patches
<1>6. StoredPatch = CHOOSE f : f = [p \in Patches |-> PatchBy(f, p)]
  BY DEF StoredPatch, PatchBy
<1>7. StoredPatch = [p \in Patches |-> PatchBy(StoredPatch, p)]
  BY <1>5, <1>6
<1>. QED
  BY <1>7

ApplyBy(f, p) == [old \in Dict |-> [k \in KeysAfter(old, p) |->
  IF k \in Edited(p, "recurse")
  THEN f[EditOf(p, "recurse", k)][Found(old, p, k)]
  ELSE Found(old, p, k)]]

LEMMA ApplyUnfold == \A p \in Patches : Apply[p] = ApplyBy(Apply, p)
<1>. DEFINE Sol(n, f) == f = [p \in PatchesTo[n] |-> ApplyBy(f, p)]
            S == {n \in 0..Depth : \E f : Sol(n, f)}
<1>0. Depth \in Nat
  BY DictAssumption
<1>1. ASSUME NEW n \in 0..Depth, NEW p \in PatchesTo[n], NEW f, NEW g,
             \A q : n # 0 /\ q \in PatchesTo[n - 1] => g[q] = f[q]
      PROVE  ApplyBy(g, p) = ApplyBy(f, p)
  <2>1. ASSUME NEW k \in Edited(p, "recurse")
        PROVE  g[EditOf(p, "recurse", k)] = f[EditOf(p, "recurse", k)]
    <3>1. \E e \in Edits(p, "recurse") : e.key = k
      BY DEF Edited
    <3>2. PICK e \in Edits(p, "recurse") : EditOf(p, "recurse", k) = e.to
      BY <3>1 DEF EditOf
    <3>. QED
      BY <1>1, <3>2, Inner
  <2>. QED
    BY <2>1 DEF ApplyBy
<1>2. 0 \in S
  <2>. DEFINE g == [p \in PatchesTo[0] |-> ApplyBy(0, p)]
  <2>1. \A p \in PatchesTo[0] : ApplyBy(g, p) = ApplyBy(0, p)
    BY <1>0, <1>1
  <2>2. 0 \in 0..Depth /\ Sol(0, g)
    BY <1>0, <2>1
  <2>. QED
    BY <2>2
<1>3. ASSUME NEW n \in 1..Depth, n - 1 \in S  PROVE n \in S
  <2>1. PICK f : Sol(n - 1, f)
    BY <1>3
  <2>. DEFINE g == [p \in PatchesTo[n] |-> ApplyBy(f, p)]
  <2>2. PatchesTo[n - 1] \subseteq PatchesTo[n]
    BY PatchesStep
  <2>3. \A p \in PatchesTo[n - 1] : g[p] = f[p]
    BY <2>1, <2>2
  <2>4. n \in 0..Depth
    BY <1>0
  <2>5. \A p \in PatchesTo[n] : ApplyBy(g, p) = ApplyBy(f, p)
    <3>. HIDE DEF g
    <3>. QED
      BY <1>1, <2>3, <2>4
  <2>6. Sol(n, g)
    BY <2>5
  <2>. QED
    BY <2>4, <2>6
<1>4. Depth \in S
  <2>. HIDE DEF S
  <2>. QED
    BY <1>0, <1>2, <1>3, Climb
<1>5. \E f : f = [p \in Patches |-> ApplyBy(f, p)]
  BY <1>4 DEF Patches
<1>6. Apply = CHOOSE f : f = [p \in Patches |-> ApplyBy(f, p)]
  BY DEF Apply, ApplyBy
<1>7. Apply = [p \in Patches |-> ApplyBy(Apply, p)]
  BY <1>5, <1>6
<1>. QED
  BY <1>7

-----------------------------------------------------------------------------
(* What JSON makes of a value, and what Python compares.                   *)

LEMMA KeyFacts ==
  /\ \A j : Name(Str(j)) = Name(j) /\ Str(Str(j)) = Str(j)
  /\ \A names : \A j \in Keys(names) : Str(j) \in Keys(names)
  /\ \A j : Str(j) = <<Name(j), "str">>
  /\ \A j \in AllKeys : Str(j) \in AllKeys
<1>1. \A j : Name(Str(j)) = Name(j)
  BY DEF Str, Name
<1>2. \A j : Str(Str(j)) = Str(j)
  BY <1>1 DEF Str
<1>3. ASSUME NEW names, NEW j \in Keys(names)  PROVE Str(j) \in Keys(names)
  BY DEF Keys, Str, Name
<1>. QED
  BY <1>1, <1>2, <1>3 DEF AllKeys, Str

LEMMA LeafFacts ==
  ASSUME NEW v \in Leaves
  PROVE  /\ v \in Value /\ ~IsDict(v) /\ Stored[v] = (IF v = Tuple THEN List ELSE v)
         /\ \A n \in 0..Depth : v \in Values[n]
<1>0. Depth \in Nat
  BY DictAssumption
<1>1. \A n \in 0..Depth : Values[0] \subseteq Values[n]
  BY <1>0, ValuesGrow
<1>2. v \in Value /\ ~IsDict(v)
  BY <1>0, <1>1, ValuesUnfold DEF Value, IsDict
<1>. QED
  BY <1>1, <1>2, ValuesUnfold, StoredUnfold DEF StoredBy

\* A dict in JSON.
LEMMA StoredAt ==
  ASSUME NEW d \in Dict
  PROVE  /\ Stored[d] = [k \in {Str(j) : j \in DOMAIN d} |-> Stored[d][k]]
         /\ \A k \in DOMAIN Stored[d] : \E j \in DOMAIN d : k = Str(j)
         /\ \A j \in DOMAIN d :
              Str(j) \in DOMAIN Stored[d] /\ Stored[d][Str(j)] = Stored[d[j]]
<1>0. Depth \in 0..Depth /\ d \in Values[Depth] /\ IsDict(d) /\ d \in Value
  BY DictAssumption DEF Dict, Value
<1>1. Stored[d] = [k \in {Str(j) : j \in DOMAIN d} |->
                     Stored[d[CHOOSE j \in DOMAIN d : Name(j) = Name(k)]]]
  BY <1>0, StoredUnfold DEF StoredBy
<1>2. ASSUME NEW j \in DOMAIN d  PROVE (CHOOSE i \in DOMAIN d : Name(i) = Name(Str(j))) = j
  <2>1. \A i \in DOMAIN d : Name(i) = Name(Str(j)) <=> i = j
    BY <1>0, InDict, KeyFacts
  <2>. QED
    BY <2>1
<1>. QED
  BY <1>1, <1>2

LEMMA StoredKeys ==
  ASSUME NEW d \in Dict
  PROVE  /\ \A k \in DOMAIN Stored[d] : \E j \in DOMAIN d : k = Str(j)
         /\ \A j \in DOMAIN d :
              Str(j) \in DOMAIN Stored[d] /\ Stored[d][Str(j)] = Stored[d[j]]
BY StoredAt

LEMMA StoredFun ==
  ASSUME NEW d \in Dict
  PROVE  Stored[d] = [k \in DOMAIN Stored[d] |-> Stored[d][k]]
<1>1. Stored[d] = [k \in {Str(j) : j \in DOMAIN d} |-> Stored[d][k]]
  BY StoredAt
<1>. QED
  BY <1>1

LEMMA StoredText ==
  ASSUME NEW d \in Dict, \A k \in DOMAIN d : Str(k) = k
  PROVE  /\ DOMAIN Stored[d] = DOMAIN d
         /\ \A k \in DOMAIN d : Stored[d][k] = Stored[d[k]]
<1>1. \A k \in DOMAIN d : k \in DOMAIN Stored[d] /\ Stored[d][k] = Stored[d[k]]
  BY StoredKeys
<1>2. ASSUME NEW k \in DOMAIN Stored[d]  PROVE k \in DOMAIN d
  <2>1. PICK j \in DOMAIN d : k = Str(j)
    BY StoredKeys
  <2>. QED
    BY <2>1
<1>. QED
  BY <1>1, <1>2

\* A value of a depth is stored as one of that depth, and only once.
LEMMA StoredIn ==
  ASSUME NEW n \in 0..Depth, NEW v \in Values[n]
  PROVE  /\ Stored[v] \in Values[n]
         /\ IsDict(Stored[v]) <=> IsDict(v)
         /\ Stored[Stored[v]] = Stored[v]
<1>. DEFINE Fine(m, w) == /\ Stored[w] \in Values[m]
                          /\ IsDict(Stored[w]) <=> IsDict(w)
                          /\ Stored[Stored[w]] = Stored[w]
            S == {m \in 0..Depth : \A w \in Values[m] : Fine(m, w)}
<1>0. Depth \in Nat
  BY DictAssumption
<1>1. ASSUME NEW m \in 0..Depth, NEW w \in Leaves  PROVE Fine(m, w)
  BY LeafFacts, DictAssumption DEF Leaves
<1>2. 0 \in S
  BY <1>0, <1>1, ValuesUnfold
<1>3. ASSUME NEW m \in 1..Depth, m - 1 \in S  PROVE m \in S
  <2>0. m \in 0..Depth /\ m - 1 \in 0..Depth /\ Values[m - 1] \subseteq Values[m]
    BY ValuesAt
  <2>1. ASSUME NEW w \in Values[m - 1]  PROVE Fine(m, w)
    BY <1>3, <2>0
  <2>2. ASSUME NEW w \in DictsOver(Names[m], Values[m - 1])  PROVE Fine(m, w)
    <3>1. /\ w \in Dict /\ IsDict(w)
          /\ DOMAIN w \subseteq Keys(Names[m])
          /\ \A j, k \in DOMAIN w : Name(j) = Name(k) => j = k
          /\ \A k \in DOMAIN w : w[k] \in Values[m - 1]
      BY DictFacts, LevelDict DEF Dict
    <3>2. \A j \in DOMAIN w : Stored[w[j]] \in Values[m - 1] /\ Stored[Stored[w[j]]] = Stored[w[j]]
      BY <1>3, <3>1
    <3>3. Stored[w] \in DictsOver(Names[m], Values[m - 1])
      <4>1. DOMAIN Stored[w] \subseteq Keys(Names[m])
        BY <3>1, StoredKeys, KeyFacts
      <4>2. \A j, k \in DOMAIN Stored[w] : Name(j) = Name(k) => j = k
        BY <3>1, StoredKeys, KeyFacts
      <4>3. \A k \in DOMAIN Stored[w] : Stored[w][k] \in Values[m - 1]
        BY <3>1, <3>2, StoredKeys
      <4>. QED
        BY <3>1, <4>1, <4>2, <4>3, StoredFun, DictFacts
    <3>4. Stored[w] \in Values[m] /\ Stored[w] \in Dict
      BY <3>3, LevelDict
    <3>5. DOMAIN Stored[Stored[w]] = DOMAIN Stored[w]
      <4>1. \A k \in DOMAIN Stored[w] : Str(k) = k
        BY <3>1, StoredKeys, KeyFacts
      <4>. QED
        BY <3>4, <4>1, StoredText
    <3>6. ASSUME NEW k \in DOMAIN Stored[w]  PROVE Stored[Stored[w]][k] = Stored[w][k]
      <4>1. PICK j \in DOMAIN w : k = Str(j)
        BY <3>1, StoredKeys
      <4>2. Str(k) = k /\ Stored[w][k] = Stored[w[j]]
        BY <4>1, <3>1, StoredKeys, KeyFacts
      <4>3. Stored[Stored[w]][k] = Stored[Stored[w][k]]
        BY <4>2, <3>4, StoredKeys
      <4>. QED
        BY <4>2, <4>3, <3>2
    <3>7. Stored[Stored[w]] = Stored[w]
      <4>1. /\ Stored[w] = [k \in DOMAIN Stored[w] |-> Stored[w][k]]
            /\ Stored[Stored[w]] = [k \in DOMAIN Stored[Stored[w]] |-> Stored[Stored[w]][k]]
        BY <3>1, <3>4, StoredFun
      <4>. QED
        BY <4>1, <3>5, <3>6
    <3>. QED
      BY <3>1, <3>4, <3>7 DEF Dict
  <2>. QED
    BY <2>0, <2>1, <2>2, ValuesAt
<1>4. 0..Depth \subseteq S
  <2>. HIDE DEF S
  <2>. QED
    BY <1>2, <1>3, Climb
<1>. QED
  BY <1>4

\* A dict that came from JSON holds text keys and values that came from JSON.
LEMMA FromJson ==
  ASSUME NEW d \in Dict
  PROVE  Stored[d] = d <=> \A k \in DOMAIN d : Str(k) = k /\ Stored[d[k]] = d[k]
<1>1. ASSUME Stored[d] = d, NEW k \in DOMAIN d
      PROVE  Str(k) = k /\ Stored[d[k]] = d[k]
  <2>1. PICK j \in DOMAIN d : k = Str(j)
    BY <1>1, StoredKeys
  <2>2. Str(k) = k
    BY <2>1, KeyFacts
  <2>. QED
    BY <2>2, <1>1, StoredKeys
<1>2. ASSUME \A k \in DOMAIN d : Str(k) = k /\ Stored[d[k]] = d[k]
      PROVE  Stored[d] = d
  <2>1. DOMAIN Stored[d] = DOMAIN d /\ \A k \in DOMAIN d : Stored[d][k] = d[k]
    BY <1>2, StoredText
  <2>2. d = [k \in DOMAIN d |-> d[k]]
    BY InDict, DictAssumption DEF Dict, Value
  <2>. QED
    BY <2>1, <2>2, StoredFun
<1>. QED
  BY <1>1, <1>2

LEMMA EqLeaf ==
  ASSUME NEW u \in Value, NEW v \in Value, ~IsDict(u) \/ ~IsDict(v)
  PROVE  /\ PyEq[u][v] <=> u = v \/ {u, v} = {One, True}
         /\ PyEq[u][v] => ~IsDict(u) /\ ~IsDict(v)
<1>1. PyEq[u][v] = (u = v \/ {u, v} = {One, True})
  BY PyEqUnfold DEF EqBy
<1>2. ASSUME {u, v} = {One, True}  PROVE ~IsDict(u) /\ ~IsDict(v)
  BY <1>2 DEF IsDict, Leaves
<1>. QED
  BY <1>1, <1>2

LEMMA EqDict ==
  ASSUME NEW u \in Dict, NEW v \in Dict
  PROVE  PyEq[u][v] <=> DOMAIN u = DOMAIN v /\ \A k \in DOMAIN u : PyEq[u[k]][v[k]]
<1>1. PyEq[u][v] = (DOMAIN u = DOMAIN v /\ \A k \in DOMAIN u : PyEq[u[k]][v[k]])
  BY PyEqUnfold DEF EqBy, Dict
<1>. QED
  BY <1>1

\* A value equals itself.
LEMMA EqSame ==
  ASSUME NEW v \in Value
  PROVE  PyEq[v][v]
<1>. DEFINE S == {m \in 0..Depth : \A w \in Values[m] : PyEq[w][w]}
<1>0. Depth \in Nat
  BY DictAssumption
<1>1. 0 \in S
  BY <1>0, ValuesUnfold, LeafFacts, EqLeaf
<1>2. ASSUME NEW m \in 1..Depth, m - 1 \in S  PROVE m \in S
  <2>1. ASSUME NEW w \in DictsOver(Names[m], Values[m - 1])  PROVE PyEq[w][w]
    <3>1. w \in Dict /\ \A k \in DOMAIN w : w[k] \in Values[m - 1]
      BY DictFacts, LevelDict
    <3>. QED
      BY <1>2, <3>1, EqDict
  <2>. QED
    BY <1>2, <2>1, ValuesAt
<1>3. 0..Depth \subseteq S
  <2>. HIDE DEF S
  <2>. QED
    BY <1>1, <1>2, Climb
<1>. QED
  BY <1>0, <1>3 DEF Value

\* Equal values nest equally deep; and what came from JSON equals a value's
\* JSON when it equals the value.
LEMMA EqFacts ==
  ASSUME NEW n \in 0..Depth, NEW u \in Value, NEW v \in Values[n], PyEq[u][v]
  PROVE  /\ u \in Values[n]
         /\ Stored[u] = u => PyEq[u][Stored[v]]
<1>. DEFINE Fine(m, t, w) == t \in Values[m] /\ (Stored[t] = t => PyEq[t][Stored[w]])
            S == {m \in 0..Depth : \A t \in Value : \A w \in Values[m] :
                    PyEq[t][w] => Fine(m, t, w)}
<1>0. Depth \in Nat /\ \A m \in 0..Depth : Values[m] \subseteq Value
  BY DictAssumption, ValuesGrow DEF Value
<1>1. ASSUME NEW m \in 0..Depth, NEW t \in Value, NEW w \in Leaves, PyEq[t][w]
      PROVE  Fine(m, t, w)
  <2>1. w \in Value /\ ~IsDict(w) /\ (t = w \/ {t, w} = {One, True}) /\ t \in Leaves
    BY <1>1, LeafFacts, EqLeaf DEF IsDict
  <2>2. ASSUME Stored[t] = t  PROVE t # Tuple
    BY <2>1, <2>2, LeafFacts, DictAssumption
  <2>3. ASSUME Stored[t] = t  PROVE Stored[w] = w
    BY <2>1, <2>2, <2>3, LeafFacts, DictAssumption
  <2>. QED
    BY <1>1, <2>1, <2>3, LeafFacts
<1>2. 0 \in S
  BY <1>0, <1>1, ValuesUnfold
<1>3. ASSUME NEW m \in 1..Depth, m - 1 \in S  PROVE m \in S
  <2>0. m \in 0..Depth /\ m - 1 \in 0..Depth /\ Values[m - 1] \subseteq Values[m]
    BY ValuesAt
  <2>1. ASSUME NEW t \in Value, NEW w \in Values[m - 1], PyEq[t][w]  PROVE Fine(m, t, w)
    BY <1>3, <2>0, <2>1
  <2>2. ASSUME NEW t \in Value, NEW w \in DictsOver(Names[m], Values[m - 1]), PyEq[t][w]
        PROVE  Fine(m, t, w)
    <3>1. /\ w \in Dict /\ w \in Value /\ w \in Values[m] /\ IsDict(w)
          /\ DOMAIN w \subseteq Keys(Names[m])
          /\ \A j, k \in DOMAIN w : Name(j) = Name(k) => j = k
          /\ \A k \in DOMAIN w : w[k] \in Values[m - 1]
      BY DictFacts, LevelDict DEF Dict
    <3>2. t \in Dict
      BY <2>2, <3>1, EqLeaf DEF Dict
    <3>3. DOMAIN t = DOMAIN w /\ \A k \in DOMAIN w : PyEq[t[k]][w[k]]
      BY <2>2, <3>1, <3>2, EqDict
    <3>4. Depth \in 0..Depth /\ t \in Values[Depth] /\ IsDict(t)
      BY <1>0, <3>2 DEF Dict, Value
    <3>5. t = [k \in DOMAIN t |-> t[k]] /\ \A k \in DOMAIN t : t[k] \in Value
      BY <3>4, InDict
    <3>6. \A k \in DOMAIN w : Fine(m - 1, t[k], w[k])
      BY <1>3, <3>1, <3>3, <3>5
    <3>7. t \in Values[m]
      <4>1. t \in DictsOver(Names[m], Values[m - 1])
        BY <3>1, <3>3, <3>5, <3>6, DictFacts
      <4>. QED
        BY <4>1, LevelDict
    <3>8. ASSUME Stored[t] = t  PROVE PyEq[t][Stored[w]]
      <4>1. \A k \in DOMAIN w : Str(k) = k /\ Stored[t[k]] = t[k]
        BY <3>2, <3>3, <3>8, FromJson
      <4>2. DOMAIN Stored[w] = DOMAIN w /\ \A k \in DOMAIN w : Stored[w][k] = Stored[w[k]]
        BY <3>1, <4>1, StoredText
      <4>3. Stored[w] \in Dict
        BY <1>0, <2>0, <3>1, StoredIn DEF Dict
      <4>. QED
        BY <3>2, <3>3, <3>6, <4>1, <4>2, <4>3, EqDict
    <3>. QED
      BY <3>7, <3>8
  <2>. QED
    BY <2>0, <2>1, <2>2, ValuesAt
<1>4. 0..Depth \subseteq S
  <2>. HIDE DEF S
  <2>. QED
    BY <1>2, <1>3, Climb
<1>. QED
  BY <1>4

-----------------------------------------------------------------------------
(* A patch gives back what it was made from.                               *)

\* The edits of a patch, by kind.
LEMMA DiffEdits ==
  ASSUME NEW old \in Dict, NEW new \in Dict
  PROVE  LET d == Diff[old][new]
         IN  /\ Edits(d, "set") = {Edit("set", k, new[k]) : k \in Changed(old, new) \ Nested(old, new)}
             /\ Edits(d, "recurse") =
                  {Edit("recurse", k, Diff[old[k]][new[k]]) : k \in Nested(old, new)}
             /\ Edits(d, "del") = {Edit("del", k, {}) : k \in DOMAIN old \ DOMAIN new}
<1>1. Diff[old][new] =
        {Edit("set", k, new[k]) : k \in Changed(old, new) \ Nested(old, new)}
        \cup {Edit("recurse", k, Diff[old[k]][new[k]]) : k \in Nested(old, new)}
        \cup {Edit("del", k, {}) : k \in DOMAIN old \ DOMAIN new}
  BY DiffUnfold DEF DiffBy
<1>2. \A op, k, to : Edit(op, k, to).op = op
  BY DEF Edit
<1>3. "set" # "recurse" /\ "set" # "del" /\ "recurse" # "del"
  OBVIOUS
<1>. QED
  BY <1>1, <1>2, <1>3 DEF Edits

LEMMA StoredEdits ==
  ASSUME NEW p \in Patches
  PROVE  /\ Edits(StoredPatch[p], "set") =
              {Edit("set", Str(e.key), Stored[e.to]) : e \in Edits(p, "set")}
         /\ Edits(StoredPatch[p], "recurse") =
              {Edit("recurse", Str(e.key), StoredPatch[e.to]) : e \in Edits(p, "recurse")}
         /\ Edits(StoredPatch[p], "del") = Edits(p, "del")
<1>1. StoredPatch[p] =
        {Edit("set", Str(e.key), Stored[e.to]) : e \in Edits(p, "set")}
        \cup {Edit("recurse", Str(e.key), StoredPatch[e.to]) : e \in Edits(p, "recurse")}
        \cup Edits(p, "del")
  BY StoredPatchUnfold DEF PatchBy
<1>2. \A op, k, to : Edit(op, k, to).op = op
  BY DEF Edit
<1>3. "set" # "recurse" /\ "set" # "del" /\ "recurse" # "del"
  OBVIOUS
<1>. QED
  BY <1>1, <1>2, <1>3 DEF Edits

\* A dict is changed into another by a patch that nests no deeper.
LEMMA DiffIn ==
  ASSUME NEW n \in 0..Depth, NEW old \in Dict, NEW new \in Values[n], IsDict(new)
  PROVE  Diff[old][new] \in PatchesTo[n]
<1>. DEFINE S == {m \in 0..Depth : \A a \in Dict : \A b \in Values[m] :
                    IsDict(b) => Diff[a][b] \in PatchesTo[m]}
<1>0. Depth \in Nat
  BY DictAssumption
<1>1. 0 \in S
  BY <1>0, InDict
<1>2. ASSUME NEW m \in 1..Depth, m - 1 \in S  PROVE m \in S
  <2>0. m \in 0..Depth /\ PatchesTo[m] = SUBSET EditsOver(PatchesTo[m - 1])
    BY PatchesAt
  <2>1. ASSUME NEW a \in Dict, NEW b \in Values[m], IsDict(b)
        PROVE  Diff[a][b] \in PatchesTo[m]
    <3>1. /\ b \in Dict /\ DOMAIN b \subseteq AllKeys
          /\ \A k \in DOMAIN b : b[k] \in Values[m - 1] /\ b[k] \in Value
      BY <2>0, <2>1, InDict
    <3>2. Depth \in 0..Depth /\ a \in Values[Depth] /\ IsDict(a)
      BY <1>0 DEF Dict, Value
    <3>3. DOMAIN a \subseteq AllKeys /\ \A k \in DOMAIN a : a[k] \in Value
      BY <3>2, InDict
    <3>4. ASSUME NEW k \in Changed(a, b)
          PROVE  Edit("set", k, b[k]) \in EditsOver(PatchesTo[m - 1])
      BY <3>1, EditIn DEF Changed
    <3>5. ASSUME NEW k \in Nested(a, b)
          PROVE  Edit("recurse", k, Diff[a[k]][b[k]]) \in EditsOver(PatchesTo[m - 1])
      <4>1. k \in DOMAIN b /\ k \in DOMAIN a /\ IsDict(b[k]) /\ a[k] \in Dict
        BY <3>3 DEF Nested, Changed, Dict
      <4>2. Diff[a[k]][b[k]] \in PatchesTo[m - 1]
        BY <1>2, <3>1, <4>1
      <4>. QED
        BY <3>1, <4>1, <4>2, EditIn
    <3>6. ASSUME NEW k \in DOMAIN a \ DOMAIN b
          PROVE  Edit("del", k, {}) \in EditsOver(PatchesTo[m - 1])
      BY <3>3, EditIn
    <3>7. Diff[a][b] =
            {Edit("set", k, b[k]) : k \in Changed(a, b) \ Nested(a, b)}
            \cup {Edit("recurse", k, Diff[a[k]][b[k]]) : k \in Nested(a, b)}
            \cup {Edit("del", k, {}) : k \in DOMAIN a \ DOMAIN b}
      BY <3>1, DiffUnfold DEF DiffBy
    <3>8. Diff[a][b] \subseteq EditsOver(PatchesTo[m - 1])
      BY <3>4, <3>5, <3>6, <3>7
    <3>. QED
      BY <2>0, <3>8
  <2>. QED
    BY <2>0, <2>1
<1>3. 0..Depth \subseteq S
  <2>. HIDE DEF S
  <2>. QED
    BY <1>1, <1>2, Climb
<1>. QED
  BY <1>3

LEMMA StoredPatchIn ==
  ASSUME NEW n \in 0..Depth, NEW p \in PatchesTo[n]
  PROVE  StoredPatch[p] \in PatchesTo[n]
<1>. DEFINE S == {m \in 0..Depth : \A q \in PatchesTo[m] : StoredPatch[q] \in PatchesTo[m]}
<1>0. Depth \in Nat /\ Depth \in 0..Depth
  BY DictAssumption
<1>1. ASSUME NEW m \in 0..Depth, NEW patches, PatchesTo[m] = SUBSET EditsOver(patches),
             \A q \in patches : StoredPatch[q] \in patches,
             NEW q \in PatchesTo[m]
      PROVE  StoredPatch[q] \in PatchesTo[m]
  <2>1. q \in SUBSET EditsOver(patches) /\ q \in Patches
    BY <1>1, PatchesGrow
  <2>2. ASSUME NEW e \in Edits(q, "set")
        PROVE  Edit("set", Str(e.key), Stored[e.to]) \in EditsOver(patches)
    <3>1. e.key \in AllKeys /\ e.to \in Value
      BY <2>1, EditsOf
    <3>2. Str(e.key) \in AllKeys /\ Stored[e.to] \in Value
      BY <1>0, <3>1, KeyFacts, StoredIn DEF Value
    <3>. QED
      BY <3>2, EditIn
  <2>3. ASSUME NEW e \in Edits(q, "recurse")
        PROVE  Edit("recurse", Str(e.key), StoredPatch[e.to]) \in EditsOver(patches)
    <3>1. e.key \in AllKeys /\ e.to \in patches
      BY <2>1, EditsOf
    <3>2. Str(e.key) \in AllKeys /\ StoredPatch[e.to] \in patches
      BY <1>1, <3>1, KeyFacts
    <3>. QED
      BY <3>2, EditIn
  <2>4. Edits(q, "del") \subseteq EditsOver(patches)
    BY <2>1 DEF Edits
  <2>5. StoredPatch[q] =
          {Edit("set", Str(e.key), Stored[e.to]) : e \in Edits(q, "set")}
          \cup {Edit("recurse", Str(e.key), StoredPatch[e.to]) : e \in Edits(q, "recurse")}
          \cup Edits(q, "del")
    BY <2>1, StoredPatchUnfold DEF PatchBy
  <2>6. StoredPatch[q] \subseteq EditsOver(patches)
    BY <2>2, <2>3, <2>4, <2>5
  <2>. QED
    BY <1>1, <2>6
<1>2. 0 \in S
  BY <1>0, <1>1, PatchesUnfold
<1>3. ASSUME NEW m \in 1..Depth, m - 1 \in S  PROVE m \in S
  <2>1. m \in 0..Depth /\ PatchesTo[m] = SUBSET EditsOver(PatchesTo[m - 1])
    BY PatchesAt
  <2>. QED
    BY <1>1, <1>3, <2>1
<1>4. 0..Depth \subseteq S
  <2>. HIDE DEF S
  <2>. QED
    BY <1>2, <1>3, Climb
<1>. QED
  BY <1>4

\* The patch of `new` on `old` once both have been through JSON.
Sent(old, new) == StoredPatch[Diff[old][new]]

\* What it does to each key of the new dict.
LEMMA SentEdits ==
  ASSUME NEW old \in Dict, NEW new \in Dict
  PROVE  LET p == Sent(old, new)
         IN  /\ p \in Patches
             /\ Edits(p, "set") = {Edit("set", Str(k), Stored[new[k]]) :
                                     k \in Changed(old, new) \ Nested(old, new)}
             /\ Edits(p, "recurse") = {Edit("recurse", Str(k), Sent(old[k], new[k])) :
                                         k \in Nested(old, new)}
             /\ Edits(p, "del") = {Edit("del", k, {}) : k \in DOMAIN old \ DOMAIN new}
<1>. DEFINE d == Diff[old][new]
<1>1. Depth \in 0..Depth /\ new \in Values[Depth] /\ IsDict(new)
  BY DictAssumption DEF Dict, Value
<1>2. d \in PatchesTo[Depth]
  BY <1>1, DiffIn
<1>3. d \in Patches /\ Sent(old, new) \in Patches
  BY <1>1, <1>2, StoredPatchIn DEF Patches, Sent
<1>4. \A op, k, to : Edit(op, k, to).key = k /\ Edit(op, k, to).to = to
  BY DEF Edit
<1>5. Edits(Sent(old, new), "set") =
        {Edit("set", Str(e.key), Stored[e.to]) : e \in Edits(d, "set")}
  BY <1>3, StoredEdits DEF Sent
<1>6. Edits(Sent(old, new), "recurse") =
        {Edit("recurse", Str(e.key), StoredPatch[e.to]) : e \in Edits(d, "recurse")}
  BY <1>3, StoredEdits DEF Sent
<1>7. Edits(Sent(old, new), "del") = Edits(d, "del")
  BY <1>3, StoredEdits DEF Sent
<1>8. Edits(d, "set") = {Edit("set", k, new[k]) : k \in Changed(old, new) \ Nested(old, new)}
  BY DiffEdits
<1>9. Edits(d, "recurse") =
        {Edit("recurse", k, Diff[old[k]][new[k]]) : k \in Nested(old, new)}
  BY DiffEdits
<1>10. Edits(d, "del") = {Edit("del", k, {}) : k \in DOMAIN old \ DOMAIN new}
  BY DiffEdits
<1>. HIDE DEF d
<1>11. Edits(Sent(old, new), "set") =
         {Edit("set", Str(k), Stored[new[k]]) : k \in Changed(old, new) \ Nested(old, new)}
  BY <1>4, <1>5, <1>8
<1>12. Edits(Sent(old, new), "recurse") =
         {Edit("recurse", Str(k), Sent(old[k], new[k])) : k \in Nested(old, new)}
  BY <1>4, <1>6, <1>9 DEF Sent
<1>. QED
  BY <1>3, <1>7, <1>10, <1>11, <1>12

\* The dict as it was, if it came from JSON, has the text key of each nested
\* edit; the edits of a kind have different keys.
LEMMA SentKeys ==
  ASSUME NEW old \in Dict, Stored[old] = old, NEW new \in Dict
  PROVE  LET p == Sent(old, new)
         IN  /\ \A k : k \in Edited(p, "del") <=> k \in DOMAIN old \ DOMAIN new
             /\ \A j \in DOMAIN new :
                  /\ Str(j) \in Edited(p, "recurse") <=> j \in Nested(old, new)
                  /\ Str(j) \in Edited(p, "set") <=> j \in Changed(old, new) \ Nested(old, new)
                  /\ j \in Nested(old, new) =>
                       EditOf(p, "recurse", Str(j)) = Sent(old[j], new[j])
                  /\ j \in Changed(old, new) \ Nested(old, new) =>
                       EditOf(p, "set", Str(j)) = Stored[new[j]]
             /\ \A k \in Edited(p, "recurse") \cup Edited(p, "set") :
                  \E j \in DOMAIN new : k = Str(j)
<1>. DEFINE p == Sent(old, new)
<1>1. Depth \in 0..Depth /\ new \in Values[Depth] /\ IsDict(new)
  BY DictAssumption DEF Dict, Value
<1>2. \A i, j \in DOMAIN new : Str(i) = Str(j) => i = j
  BY <1>1, InDict, KeyFacts
<1>3. \A op, k, to : Edit(op, k, to).key = k /\ Edit(op, k, to).to = to
  BY DEF Edit
<1>4. /\ Edits(p, "set") = {Edit("set", Str(k), Stored[new[k]]) :
                              k \in Changed(old, new) \ Nested(old, new)}
      /\ Edits(p, "recurse") = {Edit("recurse", Str(k), Sent(old[k], new[k])) :
                                  k \in Nested(old, new)}
      /\ Edits(p, "del") = {Edit("del", k, {}) : k \in DOMAIN old \ DOMAIN new}
  BY SentEdits
<1>5. Changed(old, new) \subseteq DOMAIN new /\ Nested(old, new) \subseteq DOMAIN new
  BY DEF Changed, Nested
<1>. HIDE DEF p
<1>6. ASSUME NEW k  PROVE k \in Edited(p, "del") <=> k \in DOMAIN old \ DOMAIN new
  BY <1>3, <1>4 DEF Edited
<1>7. ASSUME NEW j \in Nested(old, new)
      PROVE  Str(j) \in Edited(p, "recurse") /\ EditOf(p, "recurse", Str(j)) = Sent(old[j], new[j])
  <2>. DEFINE e == Edit("recurse", Str(j), Sent(old[j], new[j]))
  <2>1. e \in Edits(p, "recurse") /\ e.key = Str(j) /\ e.to = Sent(old[j], new[j])
    BY <1>3, <1>4
  <2>2. ASSUME NEW f \in Edits(p, "recurse"), f.key = Str(j)  PROVE f = e
    <3>1. PICK i \in Nested(old, new) : f = Edit("recurse", Str(i), Sent(old[i], new[i]))
      BY <1>4
    <3>2. i = j
      BY <1>2, <1>3, <1>5, <2>2, <3>1
    <3>. QED
      BY <3>1, <3>2
  <2>. HIDE DEF e
  <2>3. (CHOOSE f \in Edits(p, "recurse") : f.key = Str(j)) = e
    BY <2>1, <2>2
  <2>. QED
    BY <2>1, <2>3 DEF Edited, EditOf
<1>8. ASSUME NEW j \in Changed(old, new) \ Nested(old, new)
      PROVE  Str(j) \in Edited(p, "set") /\ EditOf(p, "set", Str(j)) = Stored[new[j]]
  <2>. DEFINE e == Edit("set", Str(j), Stored[new[j]])
  <2>1. e \in Edits(p, "set") /\ e.key = Str(j) /\ e.to = Stored[new[j]]
    BY <1>3, <1>4
  <2>2. ASSUME NEW f \in Edits(p, "set"), f.key = Str(j)  PROVE f = e
    <3>1. PICK i \in Changed(old, new) \ Nested(old, new) :
            f = Edit("set", Str(i), Stored[new[i]])
      BY <1>4
    <3>2. i = j
      BY <1>2, <1>3, <1>5, <2>2, <3>1
    <3>. QED
      BY <3>1, <3>2
  <2>. HIDE DEF e
  <2>3. (CHOOSE f \in Edits(p, "set") : f.key = Str(j)) = e
    BY <2>1, <2>2
  <2>. QED
    BY <2>1, <2>3 DEF Edited, EditOf
<1>9. ASSUME NEW k \in Edited(p, "recurse")
      PROVE  \E i \in Nested(old, new) : k = Str(i)
  BY <1>3, <1>4 DEF Edited
<1>10. ASSUME NEW k \in Edited(p, "set")
       PROVE  \E i \in Changed(old, new) \ Nested(old, new) : k = Str(i)
  BY <1>3, <1>4 DEF Edited
<1>11. ASSUME NEW j \in DOMAIN new
       PROVE  /\ Str(j) \in Edited(p, "recurse") => j \in Nested(old, new)
              /\ Str(j) \in Edited(p, "set") => j \in Changed(old, new) \ Nested(old, new)
  BY <1>2, <1>5, <1>9, <1>10
<1>. QED
  BY <1>5, <1>6, <1>7, <1>8, <1>9, <1>10, <1>11 DEF p

\* Each key of the result, in text, and what it holds.
LEMMA ApplySent ==
  ASSUME NEW old \in Dict, Stored[old] = old, NEW new \in Dict
  PROVE  LET c == Apply[Sent(old, new)][old]
         IN  /\ c = [k \in DOMAIN c |-> c[k]]
             /\ \A k : k \in DOMAIN c <=> k \in DOMAIN Stored[new]
             /\ \A j \in Nested(old, new) : c[Str(j)] = Apply[Sent(old[j], new[j])][old[j]]
             /\ \A j \in Changed(old, new) \ Nested(old, new) : c[Str(j)] = Stored[new[j]]
             /\ \A j \in DOMAIN new \ Changed(old, new) :
                  /\ j \in DOMAIN old /\ c[Str(j)] = old[j]
                  /\ Str(j) = j /\ PyEq[old[j]][new[j]]
<1>. DEFINE p == Sent(old, new)
            c == Apply[p][old]
            result == [k \in KeysAfter(old, p) |->
                         IF k \in Edited(p, "recurse")
                         THEN Apply[EditOf(p, "recurse", k)][Found(old, p, k)]
                         ELSE Found(old, p, k)]
<1>1. p \in Patches
  BY SentEdits
<1>2. c = result
  BY <1>1, ApplyUnfold DEF ApplyBy
<1>3. DOMAIN c = KeysAfter(old, p) /\ c = [k \in DOMAIN c |-> c[k]]
  BY <1>2
<1>4. \A k \in KeysAfter(old, p) :
        c[k] = IF k \in Edited(p, "recurse")
               THEN Apply[EditOf(p, "recurse", k)][Found(old, p, k)]
               ELSE Found(old, p, k)
  BY <1>2
<1>5. \A k : k \in Edited(p, "del") <=> k \in DOMAIN old \ DOMAIN new
  BY SentKeys
<1>6. \A j \in DOMAIN new :
        /\ Str(j) \in Edited(p, "recurse") <=> j \in Nested(old, new)
        /\ Str(j) \in Edited(p, "set") <=> j \in Changed(old, new) \ Nested(old, new)
        /\ j \in Nested(old, new) => EditOf(p, "recurse", Str(j)) = Sent(old[j], new[j])
        /\ j \in Changed(old, new) \ Nested(old, new) => EditOf(p, "set", Str(j)) = Stored[new[j]]
  BY SentKeys
<1>7. \A k \in Edited(p, "recurse") \cup Edited(p, "set") : \E j \in DOMAIN new : k = Str(j)
  BY SentKeys
<1>8. \A k \in DOMAIN old : Str(k) = k
  BY FromJson
<1>9. /\ Changed(old, new) \subseteq DOMAIN new /\ Nested(old, new) \subseteq Changed(old, new)
      /\ Nested(old, new) \subseteq DOMAIN old
      /\ \A j \in DOMAIN new \ Changed(old, new) : j \in DOMAIN old /\ PyEq[old[j]][new[j]]
  BY DEF Changed, Nested
<1>. HIDE DEF p, c, result
<1>10. ASSUME NEW j \in DOMAIN new  PROVE Str(j) \in KeysAfter(old, p)
  BY <1>5, <1>6, <1>8, <1>9 DEF KeysAfter
<1>11. ASSUME NEW k \in KeysAfter(old, p)  PROVE \E j \in DOMAIN new : k = Str(j)
  <2>1. CASE k \in Edited(p, "recurse") \cup Edited(p, "set")
    BY <1>7, <2>1
  <2>2. CASE k \in DOMAIN old \ Edited(p, "del")
    BY <1>5, <1>8, <2>2
  <2>. QED
    BY <2>1, <2>2 DEF KeysAfter
<1>12. ASSUME NEW k  PROVE k \in DOMAIN c <=> k \in DOMAIN Stored[new]
  <2>1. /\ \A i \in DOMAIN Stored[new] : \E j \in DOMAIN new : i = Str(j)
        /\ \A j \in DOMAIN new : Str(j) \in DOMAIN Stored[new]
    BY StoredKeys
  <2>. QED
    BY <1>3, <1>10, <1>11, <2>1
<1>13. ASSUME NEW j \in Nested(old, new)
       PROVE  c[Str(j)] = Apply[Sent(old[j], new[j])][old[j]]
  <2>1. /\ j \in DOMAIN new /\ Str(j) = j /\ j \in DOMAIN old
        /\ Str(j) \notin Edited(p, "set") /\ Str(j) \in Edited(p, "recurse")
        /\ Str(j) \notin Edited(p, "del") /\ Str(j) \in KeysAfter(old, p)
    BY <1>5, <1>6, <1>8, <1>9, <1>10
  <2>2. Found(old, p, Str(j)) = old[j]
    BY <2>1 DEF Found
  <2>. QED
    BY <1>4, <1>6, <2>1, <2>2
<1>14. ASSUME NEW j \in Changed(old, new) \ Nested(old, new)
       PROVE  c[Str(j)] = Stored[new[j]]
  <2>1. /\ j \in DOMAIN new /\ Str(j) \in KeysAfter(old, p)
        /\ Str(j) \in Edited(p, "set") /\ Str(j) \notin Edited(p, "recurse")
    BY <1>6, <1>9, <1>10
  <2>2. Found(old, p, Str(j)) = Stored[new[j]]
    BY <1>6, <2>1 DEF Found
  <2>. QED
    BY <1>4, <2>1, <2>2
<1>15. ASSUME NEW j \in DOMAIN new \ Changed(old, new)
       PROVE  /\ j \in DOMAIN old /\ c[Str(j)] = old[j]
              /\ Str(j) = j /\ PyEq[old[j]][new[j]]
  <2>1. /\ j \in DOMAIN old /\ Str(j) = j /\ PyEq[old[j]][new[j]]
        /\ Str(j) \notin Edited(p, "set") /\ Str(j) \notin Edited(p, "recurse")
        /\ Str(j) \notin Edited(p, "del") /\ Str(j) \in KeysAfter(old, p)
    BY <1>5, <1>6, <1>8, <1>9, <1>10
  <2>2. Found(old, p, Str(j)) = old[j]
    BY <2>1 DEF Found
  <2>. QED
    BY <1>4, <2>1, <2>2
<1>. QED
  BY <1>3, <1>12, <1>13, <1>14, <1>15 DEF c, p

\* The result came from JSON and equals the JSON of the new dict.
LEMMA PatchGivesBack ==
  ASSUME NEW n \in 0..Depth, NEW new \in Values[n], IsDict(new),
         NEW old \in Dict, Stored[old] = old
  PROVE  LET c == Apply[Sent(old, new)][old]
         IN  /\ c \in Values[n] /\ IsDict(c)
             /\ Stored[c] = c
             /\ PyEq[c][Stored[new]]
<1>. DEFINE Result(a, b) == Apply[Sent(a, b)][a]
            Fine(m, a, b) == /\ Result(a, b) \in Values[m] /\ IsDict(Result(a, b))
                             /\ Stored[Result(a, b)] = Result(a, b)
                             /\ PyEq[Result(a, b)][Stored[b]]
            S == {m \in 0..Depth : \A b \in Values[m] : \A a \in Dict :
                    IsDict(b) /\ Stored[a] = a => Fine(m, a, b)}
<1>0. Depth \in Nat /\ Depth \in 0..Depth
  BY DictAssumption
<1>1. 0 \in S
  BY <1>0, InDict
<1>2. ASSUME NEW m \in 1..Depth, m - 1 \in S  PROVE m \in S
  <2>0. m \in 0..Depth /\ m - 1 \in 0..Depth /\ Values[m - 1] \subseteq Values[m]
        /\ Values[m] \subseteq Value /\ Values[m - 1] \subseteq Value
    <3>1. m \in 0..Depth /\ m - 1 \in 0..Depth /\ Values[m - 1] \subseteq Values[m]
      BY ValuesAt
    <3>2. Values[m] \subseteq Value
      BY <1>0, <3>1, ValuesGrow DEF Value
    <3>. QED
      BY <3>1, <3>2
  <2>1. ASSUME NEW b \in Values[m - 1], NEW a \in Dict, IsDict(b), Stored[a] = a
        PROVE  Fine(m, a, b)
    <3>1. Fine(m - 1, a, b)
      BY <1>2, <2>1
    <3>. HIDE DEF Result
    <3>. QED
      BY <2>0, <3>1
  <2>2. ASSUME NEW b \in DictsOver(Names[m], Values[m - 1]), NEW a \in Dict, Stored[a] = a
        PROVE  Fine(m, a, b)
    <3>. DEFINE c == Result(a, b)
    <3>1. /\ b \in Dict /\ IsDict(b)
          /\ DOMAIN b \subseteq Keys(Names[m])
          /\ \A j, k \in DOMAIN b : Name(j) = Name(k) => j = k
          /\ \A k \in DOMAIN b : b[k] \in Values[m - 1]
      BY DictFacts, LevelDict DEF Dict
    <3>2. \A k \in DOMAIN a : a[k] \in Value /\ Stored[a[k]] = a[k]
      <4>1. a \in Values[Depth] /\ IsDict(a)
        BY DEF Dict, Value
      <4>. QED
        BY <1>0, <2>2, <4>1, InDict, FromJson
    <3>3. /\ c = [k \in DOMAIN c |-> c[k]]
          /\ \A k : k \in DOMAIN c <=> k \in DOMAIN Stored[b]
          /\ \A j \in Nested(a, b) : c[Str(j)] = Result(a[j], b[j])
          /\ \A j \in Changed(a, b) \ Nested(a, b) : c[Str(j)] = Stored[b[j]]
          /\ \A j \in DOMAIN b \ Changed(a, b) :
               j \in DOMAIN a /\ c[Str(j)] = a[j] /\ Str(j) = j /\ PyEq[a[j]][b[j]]
      BY <2>2, <3>1, ApplySent
    <3>. HIDE DEF c, Result
    <3>4. ASSUME NEW j \in DOMAIN b
          PROVE  /\ c[Str(j)] \in Values[m - 1]
                 /\ Stored[c[Str(j)]] = c[Str(j)]
                 /\ PyEq[c[Str(j)]][Stored[b[j]]]
      <4>1. CASE j \in Nested(a, b)
        <5>1. a[j] \in Dict /\ Stored[a[j]] = a[j] /\ b[j] \in Values[m - 1] /\ IsDict(b[j])
          BY <3>1, <3>2, <4>1 DEF Nested, Dict
        <5>2. Fine(m - 1, a[j], b[j])
          BY <1>2, <5>1
        <5>. QED
          BY <3>3, <4>1, <5>2
      <4>2. CASE j \in Changed(a, b) \ Nested(a, b)
        <5>1. Stored[b[j]] \in Values[m - 1] /\ Stored[Stored[b[j]]] = Stored[b[j]]
          BY <2>0, <3>1, StoredIn
        <5>2. PyEq[Stored[b[j]]][Stored[b[j]]]
          BY <2>0, <5>1, EqSame
        <5>. QED
          BY <3>3, <4>2, <5>1, <5>2
      <4>3. CASE j \in DOMAIN b \ Changed(a, b)
        <5>1. j \in DOMAIN a /\ c[Str(j)] = a[j] /\ PyEq[a[j]][b[j]]
          BY <3>3, <4>3
        <5>2. a[j] \in Value /\ Stored[a[j]] = a[j] /\ b[j] \in Values[m - 1]
          BY <3>1, <3>2, <5>1
        <5>3. a[j] \in Values[m - 1] /\ PyEq[a[j]][Stored[b[j]]]
          BY <2>0, <5>1, <5>2, EqFacts
        <5>. QED
          BY <5>1, <5>2, <5>3
      <4>. QED
        BY <4>1, <4>2, <4>3
    <3>5. ASSUME NEW k \in DOMAIN c
          PROVE  \E j \in DOMAIN b : k = Str(j) /\ Stored[b][k] = Stored[b[j]]
      BY <3>1, <3>3, StoredKeys
    <3>6. c \in DictsOver(Names[m], Values[m - 1])
      <4>1. DOMAIN c \subseteq Keys(Names[m])
        BY <3>1, <3>5, KeyFacts
      <4>2. \A i, k \in DOMAIN c : Name(i) = Name(k) => i = k
        BY <3>1, <3>5, KeyFacts
      <4>3. \A k \in DOMAIN c : c[k] \in Values[m - 1]
        BY <3>4, <3>5
      <4>. QED
        BY <3>3, <4>1, <4>2, <4>3, DictFacts
    <3>7. c \in Values[m] /\ c \in Dict /\ IsDict(c)
      BY <3>6, LevelDict DEF Dict
    <3>8. Stored[c] = c
      <4>1. \A k \in DOMAIN c : Str(k) = k /\ Stored[c[k]] = c[k]
        BY <3>4, <3>5, KeyFacts
      <4>. QED
        BY <3>7, <4>1, FromJson
    <3>9. PyEq[c][Stored[b]]
      <4>1. Stored[b] \in Dict
        BY <1>0, <3>1, StoredIn DEF Dict, Value
      <4>2. \A k \in DOMAIN c : PyEq[c[k]][Stored[b][k]]
        BY <3>4, <3>5
      <4>3. DOMAIN c = DOMAIN Stored[b]
        BY <3>3
      <4>. QED
        BY <3>7, <4>1, <4>2, <4>3, EqDict
    <3>. QED
      BY <3>7, <3>8, <3>9 DEF c
  <2>. QED
    BY <2>0, <2>1, <2>2, ValuesAt
<1>3. 0..Depth \subseteq S
  <2>. HIDE DEF S
  <2>. QED
    BY <1>1, <1>2, Climb
<1>. QED
  BY <1>3

\* What a row reconstructs to came from JSON and equals the JSON of its world.
RowInv ==
  /\ content \in Dict /\ saved \in Dict
  /\ Stored[content] = content
  /\ PyEq[content][saved]

\* Along any chain of incremental rows, whatever worlds were saved, a row
\* reconstructs to a dict that equals the JSON of the world it was saved from,
\* by Python's ==, and that JSON leaves as it is: diff_dict and apply_patch are
\* inverse although the base is JSON and the world is not.
THEOREM PatchesRoundTrip == DiffSpec => []RoundTrip
<1>0. Depth \in 1..Depth /\ Depth \in 0..Depth
  BY DictAssumption
<1>1. ASSUME NEW w \in WorldDicts
      PROVE  w \in Values[Depth] /\ w \in Dict /\ IsDict(w) /\ Stored[w] \in Dict
             /\ Stored[Stored[w]] = Stored[w]
  <2>1. w \in Values[Depth] /\ w \in Dict
    BY <1>0, LevelDict DEF WorldDicts
  <2>. QED
    BY <1>0, <2>1, StoredIn DEF Dict, Value
<1>2. FullRow => RowInv
  <2>. SUFFICES ASSUME FullRow  PROVE RowInv
    OBVIOUS
  <2>1. PICK w \in WorldDicts : saved = Stored[w]
    BY DEF FullRow
  <2>2. saved \in Dict /\ Stored[saved] = saved /\ content = saved
    BY <1>1, <2>1 DEF FullRow
  <2>3. PyEq[saved][saved]
    BY <2>2, EqSame DEF Dict
  <2>. QED
    BY <2>2, <2>3 DEF RowInv
<1>3. RowInv /\ [DiffNext]_diffVars => RowInv'
  <2>. SUFFICES ASSUME RowInv, [DiffNext]_diffVars  PROVE RowInv'
    OBVIOUS
  <2>1. CASE DiffNext
    <3>1. PICK w \in WorldDicts : SaveIncremental(w)
      BY <2>1 DEF DiffNext
    <3>2. content' = Apply[Sent(content, w)][content] /\ saved' = Stored[w]
      BY <3>1 DEF SaveIncremental, Sent
    <3>3. content \in Dict /\ Stored[content] = content
      BY DEF RowInv
    <3>4. /\ content' \in Values[Depth] /\ IsDict(content')
          /\ Stored[content'] = content' /\ PyEq[content'][saved']
      BY <1>0, <1>1, <3>2, <3>3, PatchGivesBack
    <3>. QED
      BY <1>1, <3>2, <3>4 DEF RowInv, Dict, Value
  <2>2. CASE UNCHANGED diffVars
    BY <2>2 DEF RowInv, diffVars
  <2>. QED
    BY <2>1, <2>2
<1>4. RowInv => RoundTrip
  BY EqDict DEF RowInv, RoundTrip
<1>. QED
  BY <1>2, <1>3, <1>4, PTL DEF DiffSpec
=============================================================================
