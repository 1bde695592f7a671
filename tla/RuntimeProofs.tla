---------------------------- MODULE RuntimeProofs ----------------------------
(***************************************************************************)
(* Proofs about the runtime: the order of its tasks and the walk of a tick *)
(* along it.                                                               *)
(*                                                                         *)
(* TaskGraph, for every finite registry and every declaration of reads and *)
(* writes: the order is safe and the least of its kind, and a registry is  *)
(* refused exactly for its cycles.                                         *)
(*                                                                         *)
(* RuntimeScheduler, for every registry whose order is safe, all budgets   *)
(* and all deferral bounds: types, TickIsComplete and BoundedDeferral.     *)
(* Neither property is inductive: both speak of the end of a tick or of a  *)
(* count that only the end of a tick updates.  SchedulerInv says what holds *)
(* in the middle: which tasks the walk has reached, what became of each,   *)
(* and how far the count of a waiting task may lag behind its deferrals.   *)
(***************************************************************************)
EXTENDS TaskGraph, RuntimeScheduler, FiniteSetTheorems, TLAPS

-----------------------------------------------------------------------------
(* The invariant *)

\* No id is ordered twice.
NoRepeats ==
  \A i, j \in 1..Len(ordered) : ordered[i] = ordered[j] => i = j

\* What is left is the graph of the edges between the ids that are left.
GraphOfTheRest ==
  \A b \in DOMAIN remaining :
    remaining[b] = {a \in DOMAIN remaining : DependsOn(b, a)}

\* Each ordered id comes after all it depends on.
OrderRespectsEdges ==
  \A j \in 1..Len(ordered) : \A a \in Ids :
    DependsOn(ordered[j], a) => \E i \in 1..(j - 1) : ordered[i] = a

\* What the two verdicts say of the graph.
Verdict ==
  /\ status = "ordered" => DOMAIN remaining = {}
  /\ status = "cycle" => Ready = {} /\ DOMAIN remaining # {}

Inv ==
  /\ TypeOK
  /\ ordered \in Seq(Ids)
  /\ NoRepeats /\ GraphOfTheRest /\ OrderRespectsEdges /\ Verdict

\* The edges follow from the declarations alone.
LEMMA EdgesStay ==
  ASSUME UNCHANGED <<reads, writes>>, NEW a, NEW b
  PROVE  DependsOn(b, a)' <=> DependsOn(b, a)
  BY DEF DependsOn, Feeds, Conflicts

LEMMA InitInv == Init => Inv
<1>. SUFFICES ASSUME Init
              PROVE  Inv
  OBVIOUS
<1>1. /\ remaining = [b \in Ids |-> {a \in Ids : DependsOn(b, a)}]
      /\ ordered = <<>> /\ Len(ordered) = 0 /\ ordered \in Seq(Ids)
      /\ status = "sorting"
  BY DEF Init, Edges
<1>2. Ids \ DOMAIN remaining = {} /\ DOMAIN remaining = Ids
  BY <1>1
<1>3. Cardinality({}) = 0
  BY FS_EmptySet
<1>4. remaining \in [Ids -> SUBSET Ids]
  BY <1>1
<1>5. reads \in [Ids -> SUBSET Keys] /\ writes \in [Ids -> SUBSET (Keys \cup {Wildcard})]
  BY DEF Init
<1>6. {ordered[i] : i \in 1..Len(ordered)} = {}
  BY <1>1
<1>7. TypeOK
  BY <1>1, <1>2, <1>3, <1>4, <1>5, <1>6 DEF TypeOK
<1>8. GraphOfTheRest
  BY <1>1, <1>2 DEF GraphOfTheRest
<1>. QED
  BY <1>1, <1>7, <1>8 DEF Inv, NoRepeats, OrderRespectsEdges, Verdict

\* A turn of the loop.
LEMMA PickStep == Inv /\ Pick => Inv'
<1>. SUFFICES ASSUME Inv, Pick
              PROVE  Inv'
  OBVIOUS
<1>1. PICK t \in Ready :
        /\ status = "sorting"
        /\ ordered' = Append(ordered, t)
        /\ remaining' = [u \in DOMAIN remaining \ {t} |-> remaining[u] \ {t}]
        /\ UNCHANGED <<reads, writes, status>>
  BY DEF Pick
<1>. DEFINE n == Len(ordered)
<1>2. /\ t \in DOMAIN remaining /\ remaining[t] = {} /\ t \in Ids
      /\ DOMAIN remaining \subseteq Ids
      /\ remaining \in [DOMAIN remaining -> SUBSET Ids]
      /\ ordered \in Seq(Ids) /\ n \in Nat
  BY <1>1 DEF Inv, TypeOK, Ready
<1>3. /\ ordered' \in Seq(Ids) /\ Len(ordered') = n + 1
      /\ ordered'[n + 1] = t
      /\ \A i \in 1..n : ordered'[i] = ordered[i]
  BY <1>1, <1>2
<1>4. DOMAIN remaining' = DOMAIN remaining \ {t}
  BY <1>1
<1>5. {ordered[i] : i \in 1..n} = Ids \ DOMAIN remaining
  BY DEF Inv, TypeOK
<1>. HIDE DEF n
<1>6. {ordered'[i] : i \in 1..(n + 1)} = Ids \ DOMAIN remaining'
  <2>1. {ordered'[i] : i \in 1..(n + 1)} = {ordered[i] : i \in 1..n} \cup {t}
    <3>1. 1..(n + 1) = (1..n) \cup {n + 1}
      BY <1>2
    <3>. QED
      BY <1>3, <3>1
  <2>2. Ids \ (DOMAIN remaining \ {t}) = (Ids \ DOMAIN remaining) \cup {t}
    BY <1>2
  <2>. QED
    BY <1>4, <1>5, <2>1, <2>2
<1>7. n + 1 = Cardinality(Ids \ DOMAIN remaining')
  <2>1. IsFiniteSet(Ids \ DOMAIN remaining)
    BY TaskGraphAssumption, FS_Difference DEF TaskGraphAssumption
  <2>2. Ids \ DOMAIN remaining' = (Ids \ DOMAIN remaining) \cup {t}
    BY <1>2, <1>4
  <2>3. n = Cardinality(Ids \ DOMAIN remaining)
    BY DEF Inv, TypeOK, n
  <2>. QED
    BY <1>2, <2>1, <2>2, <2>3, FS_AddElement
<1>8. remaining' \in [DOMAIN remaining' -> SUBSET Ids]
  BY <1>1, <1>2, <1>4
<1>9. TypeOK'
  BY <1>1, <1>2, <1>3, <1>4, <1>6, <1>7, <1>8 DEF TypeOK, Inv
<1>10. NoRepeats'
  <2>1. \A i \in 1..n : ordered[i] # t
    BY <1>2, <1>5
  <2>2. \A i, j \in 1..n : ordered[i] = ordered[j] => i = j
    BY DEF Inv, NoRepeats, n
  <2>3. \A i \in 1..(n + 1) : i \in 1..n \/ i = n + 1
    BY <1>2
  <2>. QED
    BY <1>3, <2>1, <2>2, <2>3 DEF NoRepeats
<1>11. GraphOfTheRest'
  <2>1. \A b \in DOMAIN remaining : remaining[b] = {a \in DOMAIN remaining : DependsOn(b, a)}
    BY DEF Inv, GraphOfTheRest
  <2>2. \A b \in DOMAIN remaining' :
          remaining'[b] = {a \in DOMAIN remaining' : DependsOn(b, a)}
    BY <1>1, <1>4, <2>1
  <2>3. \A a, b : DependsOn(b, a)' <=> DependsOn(b, a)
    BY <1>1, EdgesStay
  <2>. QED
    BY <2>2, <2>3 DEF GraphOfTheRest
<1>12. OrderRespectsEdges'
  <2>1. ASSUME NEW j \in 1..(n + 1), NEW a \in Ids, DependsOn(ordered'[j], a)
        PROVE  \E i \in 1..(j - 1) : ordered'[i] = a
    <3>1. CASE j \in 1..n
      <4>1. PICK i \in 1..(j - 1) : ordered[i] = a
        BY <1>3, <2>1, <3>1 DEF Inv, OrderRespectsEdges, n
      <4>2. i \in 1..n
        BY <1>2, <3>1
      <4>. QED
        BY <1>3, <4>1, <4>2
    <3>2. CASE j = n + 1
      <4>1. DependsOn(t, a)
        BY <1>3, <2>1, <3>2
      <4>2. a \notin DOMAIN remaining
        BY <1>2, <4>1 DEF Inv, GraphOfTheRest
      <4>3. PICK i \in 1..n : ordered[i] = a
        BY <1>5, <4>2
      <4>4. j - 1 = n
        BY <1>2, <3>2
      <4>. QED
        BY <1>3, <4>3, <4>4
    <3>. QED
      BY <1>2, <3>1, <3>2
  <2>2. \A a, b : DependsOn(b, a)' <=> DependsOn(b, a)
    BY <1>1, EdgesStay
  <2>. QED
    BY <1>3, <2>1, <2>2 DEF OrderRespectsEdges
<1>13. Verdict'
  BY <1>1 DEF Verdict
<1>. QED
  BY <1>3, <1>9, <1>10, <1>11, <1>12, <1>13 DEF Inv

\* The verdict.
LEMMA StopStep == Inv /\ Stop => Inv'
<1>. SUFFICES ASSUME Inv, Stop
              PROVE  Inv'
  OBVIOUS
<1>1. UNCHANGED <<reads, writes, remaining, ordered>>
  BY DEF Stop
<1>2. \A a, b : DependsOn(b, a)' <=> DependsOn(b, a)
  BY <1>1, EdgesStay
<1>3. TypeOK'
  BY <1>1 DEF Inv, TypeOK, Stop
<1>4. NoRepeats' /\ ordered' \in Seq(Ids)
  BY <1>1 DEF Inv, NoRepeats
<1>5. GraphOfTheRest' /\ OrderRespectsEdges'
  BY <1>1, <1>2 DEF Inv, GraphOfTheRest, OrderRespectsEdges
<1>6. Verdict'
  BY <1>1 DEF Stop, Verdict, Ready
<1>. QED
  BY <1>3, <1>4, <1>5, <1>6 DEF Inv

LEMMA NextInv == Inv /\ [Next]_vars => Inv'
<1>1. ASSUME Inv, UNCHANGED vars
      PROVE  Inv'
  <2>1. UNCHANGED <<reads, writes, remaining, ordered, status>>
    BY <1>1 DEF vars
  <2>2. \A a, b : DependsOn(b, a)' <=> DependsOn(b, a)
    BY <2>1, EdgesStay
  <2>3. GraphOfTheRest' /\ OrderRespectsEdges'
    BY <1>1, <2>1, <2>2 DEF Inv, GraphOfTheRest, OrderRespectsEdges
  <2>. QED
    BY <1>1, <2>1, <2>3 DEF Inv, TypeOK, NoRepeats, Verdict, Ready
<1>. QED
  BY <1>1, PickStep, StopStep DEF Next

-----------------------------------------------------------------------------
(* The order *)

\* In a complete order every id has its one position.
LEMMA PositionOf ==
  ASSUME Inv, status = "ordered", NEW t \in Ids
  PROVE  /\ Position(t) \in 1..Len(ordered) /\ ordered[Position(t)] = t
         /\ \A i \in 1..Len(ordered) : ordered[i] = t => i = Position(t)
<1>1. {ordered[i] : i \in 1..Len(ordered)} = Ids
  BY DEF Inv, Verdict, TypeOK
<1>2. \E i \in 1..Len(ordered) : ordered[i] = t
  BY <1>1
<1>3. Position(t) \in 1..Len(ordered) /\ ordered[Position(t)] = t
  BY <1>2 DEF Position
<1>. QED
  BY <1>3 DEF Inv, NoRepeats

\* An edge is an order.
LEMMA EdgeIsOrder ==
  ASSUME Inv, status = "ordered", NEW a \in Ids, NEW b \in Ids, DependsOn(b, a)
  PROVE  Position(a) < Position(b)
<1>. DEFINE p == Position(a)
            q == Position(b)
<1>1. q \in 1..Len(ordered) /\ ordered[q] = b
  BY PositionOf
<1>2. PICK i \in 1..(q - 1) : ordered[i] = a
  BY <1>1 DEF Inv, OrderRespectsEdges
<1>3. Len(ordered) \in Nat
  BY DEF Inv
<1>. HIDE DEF q
<1>4. i \in 1..Len(ordered) /\ i < q
  BY <1>1, <1>2, <1>3
<1>5. i = p
  BY <1>2, <1>4, PositionOf
<1>. QED
  BY <1>4, <1>5 DEF q

LEMMA InvIsSafe == Inv => OrderIsSafe
<1>. SUFFICES ASSUME Inv, status = "ordered", NEW a \in Ids, NEW b \in Ids
              PROVE  /\ a # b /\ Feeds(a, b) => Position(a) < Position(b)
                     /\ a < b /\ Conflicts(a, b) /\ ~Feeds(b, a)
                          => Position(a) < Position(b)
  BY DEF OrderIsSafe
<1>1. ASSUME a # b, Feeds(a, b)
      PROVE  Position(a) < Position(b)
  <2>1. DependsOn(b, a)
    BY <1>1 DEF DependsOn
  <2>. QED
    BY <2>1, EdgeIsOrder
<1>2. ASSUME a < b, Conflicts(a, b), ~Feeds(b, a)
      PROVE  Position(a) < Position(b)
  <2>1. a # b
    BY <1>2, TaskGraphAssumption DEF TaskGraphAssumption
  <2>2. DependsOn(b, a)
    BY <1>2, <2>1 DEF DependsOn
  <2>. QED
    BY <2>2, EdgeIsOrder
<1>. QED
  BY <1>1, <1>2

-----------------------------------------------------------------------------
(* The cycles *)

\* The ids of a knot are never ready: they stay in the graph.
KnotsStay == \A S \in SUBSET Ids : Knot(S, DependsOn) => S \subseteq DOMAIN remaining

LEMMA KnotsStayInit == Init => KnotsStay
  BY DEF Init, Edges, KnotsStay

LEMMA KnotsStayStep == Inv /\ KnotsStay /\ [Next]_vars => KnotsStay'
<1>. SUFFICES ASSUME Inv, KnotsStay, [Next]_vars,
                     NEW S \in SUBSET Ids, Knot(S, DependsOn)'
              PROVE  S \subseteq DOMAIN remaining'
  BY DEF KnotsStay
<1>1. UNCHANGED <<reads, writes>>
  BY DEF Next, Pick, Stop, vars
<1>2. S # {} /\ \A b \in S : \E a \in S : DependsOn(b, a)
  <2>1. \A a, b : DependsOn(b, a)' <=> DependsOn(b, a)
    BY <1>1, EdgesStay
  <2>. QED
    BY <2>1 DEF Knot
<1>3. S \subseteq DOMAIN remaining
  BY <1>2 DEF KnotsStay, Knot
<1>4. CASE Pick
  <2>1. PICK t \in Ready :
          remaining' = [u \in DOMAIN remaining \ {t} |-> remaining[u] \ {t}]
    BY <1>4 DEF Pick
  <2>2. t \in DOMAIN remaining /\ remaining[t] = {}
    BY DEF Ready
  <2>3. \A a \in DOMAIN remaining : ~DependsOn(t, a)
    BY <2>2 DEF Inv, GraphOfTheRest
  <2>4. t \notin S
    BY <1>2, <1>3, <2>3
  <2>. QED
    BY <1>3, <2>1, <2>4
<1>5. CASE Stop \/ UNCHANGED vars
  BY <1>3, <1>5 DEF Stop, vars
<1>. QED
  BY <1>4, <1>5 DEF Next

LEMMA InvRefuses == Inv /\ KnotsStay => RefusesExactlyCycles
<1>. SUFFICES ASSUME Inv, KnotsStay
              PROVE  RefusesExactlyCycles
  OBVIOUS
<1>1. ASSUME status = "cycle"
      PROVE  \E S \in SUBSET Ids : Knot(S, DependsOn)
  <2>. DEFINE S == DOMAIN remaining
  <2>1. S \in SUBSET Ids /\ S # {} /\ Ready = {}
    BY <1>1 DEF Inv, TypeOK, Verdict
  <2>2. \A b \in S : \E a \in S : DependsOn(b, a)
    BY <2>1 DEF Inv, GraphOfTheRest, Ready
  <2>. QED
    BY <2>1, <2>2 DEF Knot
<1>2. ASSUME status = "ordered"
      PROVE  ~ \E S \in SUBSET Ids : Knot(S, DependsOn)
  <2>1. DOMAIN remaining = {}
    BY <1>2 DEF Inv, Verdict
  <2>. QED
    BY <2>1 DEF KnotsStay, Knot
<1>. QED
  BY <1>1, <1>2 DEF RefusesExactlyCycles

-----------------------------------------------------------------------------
(* The least order *)

Total == Cardinality(Ids)

\* An order of all ids has each of them once.
LEMMA OrderIsInjective ==
  ASSUME NEW p \in Orders
  PROVE  /\ p \in [1..Total -> Ids] /\ Total \in Nat
         /\ \A i, j \in 1..Total : p[i] = p[j] => i = j
<1>1. IsFiniteSet(Ids) /\ Total \in Nat
  BY TaskGraphAssumption, FS_CardinalityType DEF TaskGraphAssumption, Total
<1>2. p \in [1..Total -> Ids] /\ Permutation(p)
  BY DEF Orders, Total
<1>3. p \in Surjection(1..Total, Ids)
  BY <1>2 DEF Permutation, Surjection
<1>4. IsFiniteSet(1..Total) /\ Cardinality(1..Total) = Total
  BY <1>1, FS_Interval
<1>. HIDE DEF Total
<1>5. Cardinality(1..Total) = Cardinality(Ids)
  BY <1>4 DEF Total
<1>6. p \in Injection(1..Total, Ids)
  BY <1>1, <1>3, <1>4, <1>5, FS_SurjSameCardinalityImpliesInj
<1>. QED
  BY <1>1, <1>2, <1>6 DEF Injection, IsInjective

\* So far the order agrees with p, or is already smaller.
NotBeaten(p) ==
  \/ \A i \in 1..Len(ordered) : ordered[i] = p[i]
  \/ \E i \in 1..Len(ordered) :
       ordered[i] < p[i] /\ \A k \in 1..(i - 1) : ordered[k] = p[k]

LeastSoFar == \A p \in Orders : Respects(p) => NotBeaten(p)

\* There is room for what is left.
LEMMA LengthBound ==
  ASSUME Inv
  PROVE  /\ Len(ordered) \in Nat /\ Len(ordered) <= Total /\ Total \in Nat
         /\ DOMAIN remaining # {} => Len(ordered) < Total
<1>1. IsFiniteSet(Ids) /\ Ids \ DOMAIN remaining \subseteq Ids
  BY TaskGraphAssumption DEF TaskGraphAssumption
<1>2. Len(ordered) = Cardinality(Ids \ DOMAIN remaining) /\ DOMAIN remaining \subseteq Ids
  BY DEF Inv, TypeOK
<1>3. Cardinality(Ids \ DOMAIN remaining) \in Nat /\ Cardinality(Ids) \in Nat
      /\ Cardinality(Ids \ DOMAIN remaining) <= Cardinality(Ids)
  BY <1>1, FS_Subset, FS_CardinalityType
<1>4. ASSUME DOMAIN remaining # {}
      PROVE  Cardinality(Ids \ DOMAIN remaining) < Cardinality(Ids)
  <2>1. Ids \ DOMAIN remaining # Ids
    BY <1>2, <1>4
  <2>2. Cardinality(Ids \ DOMAIN remaining) # Cardinality(Ids)
    BY <1>1, <2>1, FS_Subset
  <2>. QED
    BY <1>3, <2>2
<1>. QED
  BY <1>2, <1>3, <1>4 DEF Total

\* Where an order that respects the edges agrees so far, its next id is ready.
LEMMA NextIsReady ==
  ASSUME Inv, NEW p \in Orders, Respects(p), Len(ordered) < Total,
         \A i \in 1..Len(ordered) : ordered[i] = p[i]
  PROVE  p[Len(ordered) + 1] \in Ready
<1>. DEFINE n == Len(ordered)
            u == p[n + 1]
<1>1. n \in Nat /\ n + 1 \in 1..Total /\ Total \in Nat
  BY LengthBound
<1>2. /\ p \in [1..Total -> Ids]
      /\ \A i, j \in 1..Total : p[i] = p[j] => i = j
      /\ DOMAIN p = 1..Total
  BY OrderIsInjective
<1>3. {ordered[i] : i \in 1..n} = Ids \ DOMAIN remaining
  BY DEF Inv, TypeOK
<1>. HIDE DEF n
<1>4. \A i \in 1..n : i \in 1..Total /\ i # n + 1
  BY <1>1
<1>5. u \in Ids /\ \A i \in 1..n : ordered[i] # u
  BY <1>1, <1>2, <1>4 DEF n
<1>6. u \in DOMAIN remaining
  BY <1>3, <1>5
<1>7. \A a \in DOMAIN remaining : ~DependsOn(u, a)
  <2>. SUFFICES ASSUME NEW a \in DOMAIN remaining, DependsOn(u, a)
                PROVE  FALSE
    OBVIOUS
  <2>1. a \in Ids /\ \A i \in 1..n : ordered[i] # a
    BY <1>3 DEF Inv, TypeOK
  <2>2. PICK i \in 1..Total : p[i] = a
    BY <1>2, <2>1 DEF Orders, Permutation
  <2>3. i < n + 1
    BY <1>1, <1>2, <2>2 DEF Respects
  <2>4. i \in 1..n
    BY <1>1, <2>2, <2>3
  <2>. QED
    BY <2>1, <2>2, <2>4 DEF n
<1>8. remaining[u] = {}
  BY <1>6, <1>7 DEF Inv, GraphOfTheRest
<1>. QED
  BY <1>6, <1>8 DEF Ready, n

LEMMA LeastInit == Init => LeastSoFar
<1>1. Init => Len(ordered) = 0
  BY DEF Init
<1>. QED
  BY <1>1 DEF LeastSoFar, NotBeaten

LEMMA LeastStep == Inv /\ LeastSoFar /\ [Next]_vars => LeastSoFar'
<1>. SUFFICES ASSUME Inv, LeastSoFar, [Next]_vars,
                     NEW p \in Orders, Respects(p)'
              PROVE  NotBeaten(p)'
  BY DEF LeastSoFar, Orders, Permutation
<1>1. UNCHANGED <<reads, writes>>
  BY DEF Next, Pick, Stop, vars
<1>2. Respects(p)
  <2>1. \A a, b : DependsOn(b, a)' <=> DependsOn(b, a)
    BY <1>1, EdgesStay
  <2>. QED
    BY <2>1 DEF Respects
<1>3. NotBeaten(p)
  BY <1>2 DEF LeastSoFar
<1>4. CASE Pick
  <2>1. PICK t \in Ready :
          (\A u \in Ready : t <= u) /\ ordered' = Append(ordered, t)
    BY <1>4 DEF Pick
  <2>. DEFINE n == Len(ordered)
  <2>2. t \in Ids /\ DOMAIN remaining # {} /\ ordered \in Seq(Ids) /\ Ready \subseteq Ids
    BY DEF Ready, Inv, TypeOK
  <2>3. n \in Nat /\ n < Total
    BY <2>2, LengthBound
  <2>4. /\ Len(ordered') = n + 1 /\ ordered'[n + 1] = t
        /\ \A i \in 1..n : ordered'[i] = ordered[i]
    BY <2>1, <2>2
  <2>5. CASE \A i \in 1..n : ordered[i] = p[i]
    <3>1. p[n + 1] \in Ready
      BY <1>2, <2>3, <2>5, NextIsReady
    <3>2. t <= p[n + 1] /\ t \in Nat /\ p[n + 1] \in Nat
      BY <2>1, <2>2, <3>1, TaskGraphAssumption DEF TaskGraphAssumption
    <3>. HIDE DEF n
    <3>3. \A i \in 1..n : ordered'[i] = p[i]
      BY <2>4, <2>5
    <3>4. CASE t = p[n + 1]
      <4>1. \A i \in 1..(n + 1) : i \in 1..n \/ i = n + 1
        BY <2>3
      <4>. QED
        BY <2>4, <3>3, <3>4, <4>1 DEF NotBeaten
    <3>5. CASE t < p[n + 1]
      <4>1. n + 1 \in 1..(n + 1) /\ (n + 1) - 1 = n
        BY <2>3
      <4>. QED
        BY <2>4, <3>3, <3>5, <4>1 DEF NotBeaten
    <3>. QED
      BY <3>2, <3>4, <3>5
  <2>6. ASSUME NEW i \in 1..n, ordered[i] < p[i],
               \A k \in 1..(i - 1) : ordered[k] = p[k]
        PROVE  NotBeaten(p)'
    <3>1. i \in 1..(n + 1) /\ \A k \in 1..(i - 1) : k \in 1..n
      BY <2>3, <2>6
    <3>. HIDE DEF n
    <3>2. ordered'[i] < p[i] /\ \A k \in 1..(i - 1) : ordered'[k] = p[k]
      BY <2>4, <2>6, <3>1
    <3>. QED
      BY <2>4, <3>1, <3>2 DEF NotBeaten
  <2>. QED
    BY <1>3, <2>5, <2>6 DEF NotBeaten
<1>5. CASE Stop \/ UNCHANGED vars
  <2>1. ordered' = ordered
    BY <1>5 DEF Stop, vars
  <2>. QED
    BY <1>3, <2>1 DEF NotBeaten
<1>. QED
  BY <1>4, <1>5 DEF Next

LEMMA LeastAtTheEnd == Inv /\ LeastSoFar => OrderIsLeast
<1>. SUFFICES ASSUME Inv, LeastSoFar, status = "ordered"
              PROVE  /\ ordered \in Orders
                     /\ \A p \in Orders : Respects(p) => FirstSmaller(ordered, p)
  BY DEF OrderIsLeast
<1>1. /\ ordered \in Seq(Ids)
      /\ {ordered[i] : i \in 1..Len(ordered)} = Ids
      /\ Len(ordered) = Cardinality(Ids)
  BY DEF Inv, TypeOK, Verdict
<1>2. ordered \in [1..Cardinality(Ids) -> Ids] /\ DOMAIN ordered = 1..Len(ordered)
  BY <1>1
<1>3. ordered \in Orders
  BY <1>1, <1>2 DEF Orders, Permutation
<1>4. ASSUME NEW p \in Orders, Respects(p)
      PROVE  FirstSmaller(ordered, p)
  <2>1. NotBeaten(p) /\ p \in [1..Cardinality(Ids) -> Ids]
    BY <1>4 DEF LeastSoFar, Orders
  <2>2. CASE \A i \in 1..Len(ordered) : ordered[i] = p[i]
    <3>1. ordered = p
      BY <1>1, <1>2, <2>1, <2>2
    <3>. QED
      BY <3>1 DEF FirstSmaller
  <2>3. CASE \E i \in 1..Len(ordered) :
               ordered[i] < p[i] /\ \A k \in 1..(i - 1) : ordered[k] = p[k]
    BY <1>1, <1>2, <2>1, <2>3 DEF FirstSmaller
  <2>. QED
    BY <2>1, <2>2, <2>3 DEF NotBeaten
<1>. QED
  BY <1>3, <1>4

-----------------------------------------------------------------------------
(* The theorems *)

\* The ids are at every moment split between the order and the graph.
THEOREM GraphTypes == Spec => []TypeOK
<1>1. Inv => TypeOK
  BY DEF Inv
<1>. QED
  BY <1>1, InitInv, NextInv, PTL DEF Spec

\* Whatever the tasks declare, an accepted order runs writers before their
\* readers and orders other conflicts by id.
THEOREM OrderIsAlwaysSafe == Spec => []OrderIsSafe
<1>. QED
  BY InvIsSafe, InitInv, NextInv, PTL DEF Spec

\* A registry is refused when its edges have a cycle, and only then.
THEOREM CyclesAndOnlyCycles == Spec => []RefusesExactlyCycles
<1>. QED
  BY InvRefuses, InitInv, NextInv, KnotsStayInit, KnotsStayStep, PTL DEF Spec

\* The order is the lexicographically least of all that the edges allow, and so
\* depends on the declarations alone.
THEOREM OrderIsAlwaysLeast == Spec => []OrderIsLeast
<1>. QED
  BY LeastAtTheEnd, InitInv, NextInv, LeastInit, LeastStep, PTL DEF Spec

-----------------------------------------------------------------------------
(* The walk of a tick *)

\* The tasks the walk of this tick is past; none between ticks.
Reached == {t \in Tasks : \E i \in 1..Len(Order) : i < pos /\ t = Order[i]}

\* What SchedTypeOK says of the domains of the functions.
Shapes ==
  /\ deferrals \in [Tasks -> Nat]
  /\ owed \in [Tasks -> Nat]
  /\ ran \in [Tasks -> Nat]
  /\ stale \in [Tasks -> SUBSET Shared]
  /\ candidates \in Seq(Tasks)
  /\ deferred \subseteq Tasks /\ skipped \subseteq Tasks
  /\ promoted \subseteq Tasks /\ spared \subseteq Tasks

\* Every task the walk is past has one outcome, the others none.
Outcomes ==
  pos > 0 =>
    /\ Ran \cup deferred \cup skipped = Reached
    /\ Ran \cap (deferred \cup skipped) = {}
    /\ deferred \cap skipped = {}
    /\ promoted \cup spared \subseteq Ran
    /\ promoted \cap spared = {}
    /\ \A t \in Tasks : ran[t] <= 1

\* The spare pass has only deferred tasks before it, each once.
Waiting ==
  pos > 0 =>
    /\ \A i \in 1..Len(candidates) : candidates[i] \in deferred
    /\ \A i, j \in 1..Len(candidates) : candidates[i] = candidates[j] => i = j

\* ReadersEndTickFresh, for the tasks the walk is past.
Fresh ==
  \A t \in Reached :
    /\ Trigger[t] = "on_dirty"
    /\ stale[t] # {}
    => \/ t \in deferred
       \/ \E u \in spared : Writes[u] \cap Reads[t] # {}

\* The task would be found due.
HasCause(t) == Trigger[t] = "on_dirty" => stale[t] # {}

\* A task that was kept from running has been deferred at least as often, and
\* still has its cause; in the tick that defers it, once more.
Owing(t) ==
  /\ owed[t] <= MaxDeferrals[Class[t]]
  /\ (pos = 0 \/ t \notin Reached) =>
       /\ owed[t] <= deferrals[t]
       /\ owed[t] > 0 => HasCause(t)
  /\ pos > 0 /\ t \in deferred => owed[t] + 1 <= deferrals[t] /\ HasCause(t)
  /\ pos > 0 /\ t \in skipped => owed[t] = 0

Owings == \A t \in Tasks : Trigger[t] # "on_event" => Owing(t)

SchedulerInv == SchedTypeOK /\ Shapes /\ Outcomes /\ Waiting /\ Fresh /\ Owings

-----------------------------------------------------------------------------
(* What a step does to one task. *)

\* The order and the tasks name each other: run_tick's loop meets each task once.
LEMMA OrderFacts ==
  ASSUME SchedulerAssumption
  PROVE  /\ Order \in Seq(Tasks) /\ Len(Order) \in Nat
         /\ \A i \in 1..Len(Order) : Order[i] \in Tasks
         /\ \A t \in Tasks : \E i \in 1..Len(Order) : t = Order[i]
         /\ \A i, j \in 1..Len(Order) : Order[i] = Order[j] => i = j
         /\ \A t \in Tasks : MaxDeferrals[Class[t]] \in Nat
<1>1. Order \in Seq(Tasks)
  BY DEF SchedulerAssumption, Tasks
<1>2. DOMAIN Order = 1..Len(Order) /\ Len(Order) \in Nat
  BY <1>1
<1> QED
  BY <1>1, <1>2 DEF SchedulerAssumption, Tasks, ToSet, IsInjective

\* The task the loop is at is met for the first time, and only it is added.
LEMMA AtReaches ==
  ASSUME SchedulerAssumption, NEW t \in Tasks, At(t), pos \in 0..(Len(Order) + 1)
  PROVE  /\ pos > 0 /\ pos' > 0 /\ pos' \in 0..(Len(Order) + 1)
         /\ t \notin Reached /\ Reached' = Reached \cup {t}
<1>1. /\ pos \in 1..Len(Order) /\ t = Order[pos] /\ pos' = pos + 1
      /\ Len(Order) \in Nat
      /\ \A i, j \in 1..Len(Order) : Order[i] = Order[j] => i = j
  BY OrderFacts DEF At
<1>2. t \notin Reached
  BY <1>1 DEF Reached
<1>3. Reached' = Reached \cup {t}
  BY <1>1 DEF Reached
<1> QED
  BY <1>1, <1>2, <1>3

\* _run_one, task by task: only the task's count, deferrals and reads are reset,
\* and the others fall behind on what it writes.
LEMMA RunOneFacts ==
  ASSUME SchedulerAssumption, SchedTypeOK, Shapes,
         NEW t \in Tasks, NEW cost \in Costs, RunOne(t, cost)
  PROVE  /\ elapsed' \in Nat /\ consumed' \in [Subsystems -> Nat]
         /\ debt' = debt
         /\ deferrals' \in [Tasks -> Nat] /\ deferrals'[t] = 0
         /\ \A u \in Tasks \ {t} : deferrals'[u] = deferrals[u]
         /\ ran' \in [Tasks -> Nat] /\ ran'[t] = ran[t] + 1
         /\ \A u \in Tasks \ {t} : ran'[u] = ran[u]
         /\ stale' \in [Tasks -> SUBSET Shared]
         /\ \A u \in Tasks : stale'[u] \subseteq Reads[u]
         /\ Trigger[t] = "on_dirty" => stale'[t] = {}
         /\ \A u \in Tasks \ {t} : stale'[u] = stale[u] \cup (Writes[t] \cap Reads[u])
<1> DEFINE marked == WriteTo(Writes[t])
<1>1. cost \in Nat /\ Subsystem[t] \in Subsystems
  BY DEF SchedulerAssumption, Subsystems
<1>2. elapsed' \in Nat /\ consumed' \in [Subsystems -> Nat] /\ debt' = debt
  BY <1>1 DEF RunOne, SchedTypeOK
<1>3. /\ deferrals' \in [Tasks -> Nat] /\ deferrals'[t] = 0
      /\ \A u \in Tasks \ {t} : deferrals'[u] = deferrals[u]
  BY DEF RunOne, Shapes
<1>4. /\ ran' \in [Tasks -> Nat] /\ ran'[t] = ran[t] + 1
      /\ \A u \in Tasks \ {t} : ran'[u] = ran[u]
  BY DEF RunOne, Shapes
<1>5. \A u \in Tasks : Reads[u] \subseteq Shared
  BY DEF Shared
<1>6. /\ marked \in [Tasks -> SUBSET Shared]
      /\ \A u \in Tasks : /\ marked[u] = stale[u] \cup (Writes[t] \cap Reads[u])
                          /\ marked[u] \subseteq Reads[u]
  BY <1>5 DEF WriteTo, Shapes, SchedTypeOK
<1>7. stale' = IF Trigger[t] = "on_dirty" THEN [marked EXCEPT ![t] = {}] ELSE marked
  BY DEF RunOne
<1> HIDE DEF marked
<1>8. /\ stale' \in [Tasks -> SUBSET Shared]
      /\ \A u \in Tasks : stale'[u] \subseteq Reads[u]
      /\ Trigger[t] = "on_dirty" => stale'[t] = {}
      /\ \A u \in Tasks \ {t} : stale'[u] = stale[u] \cup (Writes[t] \cap Reads[u])
  BY <1>6, <1>7
<1> QED
  BY <1>2, <1>3, <1>4, <1>8

-----------------------------------------------------------------------------
(* The walk: a task is skipped, run or deferred. *)

\* Nothing to react to.
LEMMA SkipKeeps ==
  ASSUME SchedulerAssumption, SchedulerInv, NEW t \in Tasks, SkipClean(t)
  PROVE  SchedulerInv'
<1> USE DEF SchedulerInv
<1>1. /\ pos > 0 /\ pos' > 0 /\ pos' \in 0..(Len(Order) + 1)
      /\ t \notin Reached /\ Reached' = Reached \cup {t}
  BY AtReaches DEF SkipClean, SchedTypeOK
<1>2. skipped' = skipped \cup {t} /\ ~Due(t)
  BY DEF SkipClean
<1>3. UNCHANGED <<tickBudget, elapsed, consumed, debt, deferrals, stale, bus,
                  ran, deferred, promoted, spared, candidates, owed>>
  BY DEF SkipClean, budgets
<1>4. SchedTypeOK' /\ Shapes'
  BY <1>1, <1>2, <1>3 DEF SchedTypeOK, Shapes
<1>5. Outcomes'
  <2>1. Ran' = Ran
    BY <1>3 DEF Ran
  <2> QED
    BY <1>1, <1>2, <1>3, <2>1 DEF Outcomes
<1>6. Waiting'
  BY <1>1, <1>3 DEF Waiting
<1>7. Trigger[t] = "on_dirty" => stale[t] = {}
  BY <1>2 DEF Due
<1>8. Fresh'
  BY <1>1, <1>3, <1>7 DEF Fresh
<1>9. ASSUME NEW u \in Tasks, Trigger[u] # "on_event"
      PROVE  Owing(u)'
  <2>1. HasCause(u)' = HasCause(u)
    BY <1>3 DEF HasCause
  <2>2. owed[u] \in Nat /\ Owing(u)
    BY <1>9 DEF Shapes, Owings
  <2>3. CASE u = t
    <3>1. Trigger[t] = "on_dirty"
      BY <1>2, <1>9, <2>3 DEF Due
    <3>2. ~HasCause(t)
      BY <1>7, <3>1 DEF HasCause
    <3>3. owed[t] = 0 /\ owed[t] <= MaxDeferrals[Class[t]]
      BY <1>1, <2>2, <2>3, <3>2 DEF Owing
    <3>4. t \notin deferred
      BY <1>1 DEF Outcomes
    <3> QED
      BY <1>1, <1>3, <2>3, <3>3, <3>4 DEF Owing
  <2>4. CASE u # t
    BY <1>1, <1>2, <1>3, <2>1, <2>2, <2>4 DEF Owing
  <2> QED
    BY <2>3, <2>4
<1> QED
  BY <1>4, <1>5, <1>6, <1>8, <1>9 DEF Owings

\* No budget left, and the bound is not reached.
LEMMA DeferKeeps ==
  ASSUME SchedulerAssumption, SchedulerInv, NEW t \in Tasks, Defer(t)
  PROVE  SchedulerInv'
<1> USE DEF SchedulerInv
<1>1. /\ pos > 0 /\ pos' > 0 /\ pos' \in 0..(Len(Order) + 1)
      /\ t \notin Reached /\ Reached' = Reached \cup {t}
  BY AtReaches DEF Defer, SchedTypeOK
<1>2. /\ deferred' = deferred \cup {t} /\ Due(t)
      /\ deferrals[t] < MaxDeferrals[Class[t]]
      /\ deferrals[t] \in Nat /\ MaxDeferrals[Class[t]] \in Nat
  <2>1. deferrals[t] \in Nat /\ MaxDeferrals[Class[t]] \in Nat
    BY OrderFacts DEF Shapes
  <2>2. ~ (deferrals[t] >= MaxDeferrals[Class[t]])
    BY DEF Defer, Forced
  <2>3. deferred' = deferred \cup {t} /\ Due(t)
    BY DEF Defer
  <2> QED
    BY <2>1, <2>2, <2>3
<1>3. UNCHANGED <<tickBudget, elapsed, consumed, debt, stale, bus,
                  ran, skipped, promoted, spared, owed>>
  BY DEF Defer, budgets
<1>4. /\ deferrals' \in [Tasks -> Nat] /\ deferrals'[t] = deferrals[t] + 1
      /\ \A u \in Tasks \ {t} : deferrals'[u] = deferrals[u]
  BY DEF Defer, Shapes
<1>5. candidates' = candidates \/ candidates' = Append(candidates, t)
  BY DEF Defer
<1>6. candidates \in Seq(Tasks) /\ Len(candidates) \in Nat
  BY DEF Shapes
<1>7. candidates' \in Seq(Tasks)
  BY <1>5, <1>6
<1>8. ToSet(candidates') \subseteq Tasks
  BY <1>7 DEF ToSet
<1>9. SchedTypeOK'
  <2>1. ASSUME NEW u \in Tasks
        PROVE  deferrals'[u] \in 0..MaxDeferrals[Class[u]]
    <3>1. CASE u = t
      BY <1>2, <1>4, <3>1
    <3>2. CASE u # t
      BY <1>4, <3>2 DEF SchedTypeOK
    <3> QED
      BY <3>1, <3>2
  <2> QED
    BY <1>1, <1>3, <1>8, <2>1 DEF SchedTypeOK
<1>10. Shapes'
  BY <1>2, <1>3, <1>4, <1>7 DEF Shapes
<1>11. Outcomes'
  <2>1. Ran' = Ran
    BY <1>3 DEF Ran
  <2> QED
    BY <1>1, <1>2, <1>3, <2>1 DEF Outcomes
<1>12. Waiting'
  <2>1. /\ \A i \in 1..Len(candidates) : candidates[i] \in deferred
        /\ \A i, j \in 1..Len(candidates) : candidates[i] = candidates[j] => i = j
        /\ t \notin deferred
    BY <1>1 DEF Waiting, Outcomes
  <2>2. CASE candidates' = candidates
    BY <1>2, <2>1, <2>2 DEF Waiting
  <2>3. CASE candidates' = Append(candidates, t)
    <3>1. Len(candidates') = Len(candidates) + 1
      BY <1>6, <2>3
    <3>2. \A i \in 1..Len(candidates') :
            candidates'[i] = IF i = Len(candidates) + 1 THEN t ELSE candidates[i]
      BY <1>6, <2>3, <3>1
    <3> QED
      BY <1>2, <1>6, <2>1, <3>1, <3>2 DEF Waiting
  <2> QED
    BY <1>5, <2>2, <2>3
<1>13. Fresh'
  BY <1>1, <1>2, <1>3 DEF Fresh
<1>14. ASSUME NEW u \in Tasks, Trigger[u] # "on_event"
       PROVE  Owing(u)'
  <2>1. HasCause(u)' = HasCause(u)
    BY <1>3 DEF HasCause
  <2>2. owed[u] \in Nat /\ Owing(u)
    BY <1>14 DEF Shapes, Owings
  <2>3. CASE u = t
    <3>1. HasCause(t)
      BY <1>2 DEF Due, HasCause
    <3>2. owed[t] <= deferrals[t] /\ t \notin skipped
      BY <1>1, <2>2, <2>3 DEF Owing, Outcomes
    <3> QED
      BY <1>1, <1>2, <1>3, <1>4, <2>1, <2>2, <2>3, <3>1, <3>2 DEF Owing
  <2>4. CASE u # t
    BY <1>1, <1>2, <1>3, <1>4, <2>1, <2>2, <2>4 DEF Owing
  <2> QED
    BY <2>3, <2>4
<1> QED
  BY <1>9, <1>10, <1>11, <1>12, <1>13, <1>14 DEF Owings

\* The task runs in its turn, as a critical one, within budget or forced.
LEMMA RunKeeps ==
  ASSUME SchedulerAssumption, SchedulerInv, NEW t \in Tasks, NEW cost \in Costs,
         At(t), RunOne(t, cost), promoted' \in {promoted, promoted \cup {t}},
         UNCHANGED <<tickBudget, bus, deferred, skipped, spared, candidates, owed>>
  PROVE  SchedulerInv'
<1> USE DEF SchedulerInv
<1>1. /\ pos > 0 /\ pos' > 0 /\ pos' \in 0..(Len(Order) + 1)
      /\ t \notin Reached /\ Reached' = Reached \cup {t}
  BY AtReaches DEF SchedTypeOK
<1>2. /\ elapsed' \in Nat /\ consumed' \in [Subsystems -> Nat]
      /\ debt' = debt
      /\ deferrals' \in [Tasks -> Nat] /\ deferrals'[t] = 0
      /\ \A u \in Tasks \ {t} : deferrals'[u] = deferrals[u]
      /\ ran' \in [Tasks -> Nat] /\ ran'[t] = ran[t] + 1
      /\ \A u \in Tasks \ {t} : ran'[u] = ran[u]
      /\ stale' \in [Tasks -> SUBSET Shared]
      /\ \A u \in Tasks : stale'[u] \subseteq Reads[u]
      /\ Trigger[t] = "on_dirty" => stale'[t] = {}
      /\ \A u \in Tasks \ {t} : stale'[u] = stale[u] \cup (Writes[t] \cap Reads[u])
  BY RunOneFacts
<1>3. UNCHANGED <<tickBudget, bus, deferred, skipped, spared, candidates, owed>>
  OBVIOUS
<1>4. t \notin Ran /\ t \notin deferred /\ t \notin skipped /\ ran[t] = 0
  BY <1>1 DEF Outcomes, Ran, Shapes
<1>5. Ran' = Ran \cup {t}
  BY <1>2, <1>4 DEF Ran
<1>6. SchedTypeOK'
  <2>1. ASSUME NEW u \in Tasks
        PROVE  deferrals'[u] \in 0..MaxDeferrals[Class[u]]
    <3>1. CASE u = t
      <4>1. deferrals'[u] = 0
        BY <1>2, <3>1
      <4>2. MaxDeferrals[Class[u]] \in Nat
        BY OrderFacts
      <4> QED
        BY <4>1, <4>2
    <3>2. CASE u # t
      <4>1. deferrals'[u] = deferrals[u]
        BY <1>2, <3>2
      <4> QED
        BY <4>1 DEF SchedTypeOK
    <3> QED
      BY <3>1, <3>2
  <2> QED
    BY <1>1, <1>2, <1>3, <2>1 DEF SchedTypeOK
<1>7. Shapes'
  BY <1>2, <1>3 DEF Shapes
<1>8. Outcomes'
  <2>1. \A u \in Tasks : ran'[u] <= 1
    BY <1>1, <1>2, <1>4 DEF Outcomes
  <2>2. promoted' \cup spared' \subseteq Ran' /\ promoted' \cap spared' = {}
    BY <1>1, <1>3, <1>4, <1>5 DEF Outcomes
  <2> QED
    BY <1>1, <1>3, <1>4, <1>5, <2>1, <2>2 DEF Outcomes
<1>9. Waiting'
  BY <1>1, <1>3 DEF Waiting
<1>10. \A u \in Reached : Writes[t] \cap Reads[u] = {}
  BY OrderFacts DEF Reached, At, SchedulerAssumption
<1>11. ASSUME NEW u \in Reached
       PROVE  stale'[u] = stale[u]
  <2>1. u \in Tasks \ {t}
    BY <1>1 DEF Reached
  <2>2. stale'[u] = stale[u] \cup (Writes[t] \cap Reads[u])
    BY <1>2, <2>1
  <2>3. Writes[t] \cap Reads[u] = {}
    BY <1>10
  <2> QED
    BY <2>2, <2>3
<1>12. Fresh'
  BY <1>1, <1>2, <1>3, <1>11 DEF Fresh
<1>13. ASSUME NEW u \in Tasks, Trigger[u] # "on_event"
       PROVE  Owing(u)'
  <2>1. owed[u] \in Nat /\ Owing(u)
    BY <1>13 DEF Shapes, Owings
  <2>2. CASE u = t
    BY <1>1, <1>3, <1>4, <2>1, <2>2 DEF Owing
  <2>3. CASE u # t
    <3>1. HasCause(u) => HasCause(u)'
      BY <1>2, <2>3 DEF HasCause
    <3> QED
      BY <1>1, <1>2, <1>3, <2>1, <2>3, <3>1 DEF Owing
  <2> QED
    BY <2>2, <2>3
<1> QED
  BY <1>6, <1>7, <1>8, <1>9, <1>12, <1>13 DEF Owings

-----------------------------------------------------------------------------
(* The spare pass and the ends of a tick. *)

\* B2.5 runs the first of the tasks that wait.
LEMMA SpareKeeps ==
  ASSUME SchedulerAssumption, SchedulerInv, NEW cost \in Costs, SpareRun(cost)
  PROVE  SchedulerInv'
<1> USE DEF SchedulerInv
<1> DEFINE t == Head(candidates)
<1>1. /\ pos = Len(Order) + 1 /\ pos' = pos /\ pos > 0 /\ Len(Order) \in Nat
      /\ Reached' = Reached /\ candidates # <<>>
  BY OrderFacts DEF SpareRun, SpareTime, Reached
<1>2. /\ candidates \in Seq(Tasks) /\ Len(candidates) \in Nat /\ Len(candidates) > 0
      /\ t = candidates[1] /\ t \in Tasks
  BY <1>1 DEF Shapes
<1>3. /\ RunOne(t, cost) /\ deferred' = deferred \ {t} /\ spared' = spared \cup {t}
      /\ candidates' = Tail(candidates)
      /\ UNCHANGED <<pos, tickBudget, bus, skipped, promoted, owed>>
  BY DEF SpareRun
<1>4. t \in deferred
  BY <1>1, <1>2 DEF Waiting
<1> HIDE DEF t
<1>5. /\ elapsed' \in Nat /\ consumed' \in [Subsystems -> Nat]
      /\ debt' = debt
      /\ deferrals' \in [Tasks -> Nat] /\ deferrals'[t] = 0
      /\ \A u \in Tasks \ {t} : deferrals'[u] = deferrals[u]
      /\ ran' \in [Tasks -> Nat] /\ ran'[t] = ran[t] + 1
      /\ \A u \in Tasks \ {t} : ran'[u] = ran[u]
      /\ stale' \in [Tasks -> SUBSET Shared]
      /\ \A u \in Tasks : stale'[u] \subseteq Reads[u]
      /\ Trigger[t] = "on_dirty" => stale'[t] = {}
      /\ \A u \in Tasks \ {t} : stale'[u] = stale[u] \cup (Writes[t] \cap Reads[u])
  BY <1>2, <1>3, RunOneFacts
<1>6. t \notin Ran /\ t \notin skipped /\ ran[t] = 0
  BY <1>1, <1>2, <1>4 DEF Outcomes, Ran, Shapes
<1>7. Ran' = Ran \cup {t}
  BY <1>2, <1>5, <1>6 DEF Ran
<1>8. /\ candidates' \in Seq(Tasks)
      /\ Len(candidates') = Len(candidates) - 1
      /\ \A i \in 1..Len(candidates') : candidates'[i] = candidates[i + 1]
  BY <1>2, <1>3
<1>9. SchedTypeOK'
  <2>1. ASSUME NEW u \in Tasks
        PROVE  deferrals'[u] \in 0..MaxDeferrals[Class[u]]
    <3>1. CASE u = t
      <4>1. deferrals'[u] = 0
        BY <1>5, <3>1
      <4>2. MaxDeferrals[Class[u]] \in Nat
        BY OrderFacts
      <4> QED
        BY <4>1, <4>2
    <3>2. CASE u # t
      <4>1. deferrals'[u] = deferrals[u]
        BY <1>5, <3>2
      <4> QED
        BY <4>1 DEF SchedTypeOK
    <3> QED
      BY <3>1, <3>2
  <2>2. ToSet(candidates') \subseteq Tasks
    BY <1>8 DEF ToSet
  <2> QED
    BY <1>1, <1>3, <1>5, <2>1, <2>2 DEF SchedTypeOK
<1>10. Shapes'
  BY <1>2, <1>3, <1>5, <1>8 DEF Shapes
<1>11. Outcomes'
  <2>1. ASSUME NEW u \in Tasks
        PROVE  ran'[u] <= 1
    BY <1>1, <1>5, <1>6 DEF Outcomes
  <2>2. promoted' \cup spared' \subseteq Ran' /\ promoted' \cap spared' = {}
    BY <1>1, <1>3, <1>6, <1>7 DEF Outcomes
  <2> QED
    BY <1>1, <1>3, <1>4, <1>6, <1>7, <2>1, <2>2 DEF Outcomes
<1>12. Waiting'
  <2>1. ASSUME NEW i \in 1..Len(candidates')
        PROVE  candidates'[i] \in deferred'
    <3>1. i + 1 \in 1..Len(candidates) /\ i + 1 # 1 /\ 1 \in 1..Len(candidates)
      BY <1>2, <1>8
    <3>2. candidates[i + 1] \in deferred /\ candidates[i + 1] # candidates[1]
      BY <1>1, <3>1 DEF Waiting
    <3> QED
      BY <1>2, <1>3, <1>8, <3>2
  <2>2. ASSUME NEW i \in 1..Len(candidates'), NEW j \in 1..Len(candidates'),
               candidates'[i] = candidates'[j]
        PROVE  i = j
    <3>1. i + 1 \in 1..Len(candidates) /\ j + 1 \in 1..Len(candidates)
      BY <1>2, <1>8
    <3>2. candidates[i + 1] = candidates[j + 1]
      BY <1>8, <2>2
    <3>3. i + 1 = j + 1
      BY <1>1, <3>1, <3>2 DEF Waiting
    <3> QED
      BY <3>3
  <2> QED
    BY <2>1, <2>2 DEF Waiting
<1>13. Fresh'
  <2> SUFFICES ASSUME NEW u \in Reached, Trigger[u] = "on_dirty", stale'[u] # {}
               PROVE  \/ u \in deferred'
                      \/ \E w \in spared' : Writes[w] \cap Reads[u] # {}
    BY <1>1 DEF Fresh
  <2>1. u # t /\ u \in Tasks
    BY <1>5 DEF Reached
  <2>2. stale'[u] = stale[u] \cup (Writes[t] \cap Reads[u])
    BY <1>5, <2>1
  <2>3. CASE Writes[t] \cap Reads[u] # {}
    BY <1>3, <2>3
  <2>4. CASE stale[u] # {}
    <3>1. u \in deferred \/ \E w \in spared : Writes[w] \cap Reads[u] # {}
      BY <2>4 DEF Fresh
    <3> QED
      BY <1>3, <2>1, <3>1
  <2> QED
    BY <2>2, <2>3, <2>4
<1>14. ASSUME NEW u \in Tasks, Trigger[u] # "on_event"
       PROVE  Owing(u)'
  <2>1. owed[u] \in Nat /\ Owing(u)
    BY <1>14 DEF Shapes, Owings
  <2>2. CASE u = t
    <3>1. t \in Reached /\ t \notin deferred' /\ t \notin skipped'
      BY <1>1, <1>3, <1>4, <1>6 DEF Outcomes
    <3> QED
      BY <1>1, <1>3, <2>1, <2>2, <3>1 DEF Owing
  <2>3. CASE u # t
    <3>1. HasCause(u) => HasCause(u)'
      BY <1>5, <2>3 DEF HasCause
    <3> QED
      BY <1>1, <1>3, <1>5, <2>1, <2>3, <3>1 DEF Owing
  <2> QED
    BY <2>2, <2>3
<1> QED
  BY <1>9, <1>10, <1>11, <1>12, <1>13, <1>14 DEF Owings

\* run_tick starts: nothing is reached, nothing is reported.
LEMMA BeginKeeps ==
  ASSUME SchedulerAssumption, SchedulerInv, NEW limit \in TickBudgets, BeginTick(limit)
  PROVE  SchedulerInv'
<1> USE DEF SchedulerInv
<1>1. /\ pos = 0 /\ pos' = 1 /\ tickBudget' = limit /\ elapsed' = 0
      /\ ran' = Zero(Tasks) /\ deferred' = {} /\ skipped' = {}
      /\ promoted' = {} /\ spared' = {} /\ candidates' = <<>>
      /\ UNCHANGED <<consumed, debt, deferrals, stale, bus, owed>>
  BY DEF BeginTick, budgets
<1>2. ran' \in [Tasks -> Nat] /\ \A t \in Tasks : ran'[t] = 0
  BY <1>1 DEF Zero
<1>3. Ran' = {} /\ Reached' = {}
  BY <1>1, <1>2 DEF Ran, Reached
<1>4. SchedTypeOK'
  <2>1. ToSet(candidates') = {}
    BY <1>1 DEF ToSet
  <2>2. 1 \in 0..(Len(Order) + 1)
    BY OrderFacts
  <2> QED
    BY <1>1, <1>2, <2>1, <2>2 DEF SchedTypeOK
<1>5. Shapes'
  BY <1>1, <1>2 DEF Shapes
<1>6. Outcomes' /\ Waiting' /\ Fresh'
  BY <1>1, <1>2, <1>3 DEF Outcomes, Waiting, Fresh
<1>7. ASSUME NEW u \in Tasks, Trigger[u] # "on_event"
      PROVE  Owing(u)'
  <2>1. HasCause(u)' = HasCause(u)
    BY <1>1 DEF HasCause
  <2> QED
    BY <1>1, <1>3, <1>7, <2>1 DEF Owing, Owings
<1> QED
  BY <1>4, <1>5, <1>6, <1>7 DEF Owings

\* The end of run_tick, which counts what the tick still owes.
LEMMA EndKeeps ==
  ASSUME SchedulerAssumption, SchedulerInv, EndTick
  PROVE  SchedulerInv'
<1> USE DEF SchedulerInv
<1>1. /\ pos = Len(Order) + 1 /\ pos > 0 /\ pos' = 0 /\ bus' = {}
      /\ Len(Order) \in Nat
      /\ UNCHANGED <<tickBudget, elapsed, deferrals, stale,
                     ran, deferred, skipped, promoted, spared, candidates>>
  BY OrderFacts DEF EndTick, report
<1>2. consumed' \in [Subsystems -> Nat]
  BY DEF EndTick, Zero
<1>3. debt' \in [Subsystems -> 0..MaxDebt]
  <2>1. ASSUME NEW s \in Subsystems
        PROVE  (IF consumed[s] > Budget[s]
                THEN Least(MaxDebt, debt[s] + (consumed[s] - Budget[s]))
                ELSE debt[s]) \in 0..MaxDebt
    <3>1. /\ consumed[s] \in Nat /\ debt[s] \in 0..MaxDebt /\ Budget[s] \in Nat
          /\ MaxDebt \in Nat
      BY DEF SchedTypeOK, SchedulerAssumption, Subsystems
    <3> QED
      BY <3>1 DEF Least
  <2> QED
    BY <2>1 DEF EndTick
<1>4. Reached = Tasks /\ Reached' = {}
  <2>1. ASSUME NEW t \in Tasks
        PROVE  \E i \in 1..Len(Order) : i < pos /\ t = Order[i]
    <3>1. PICK i \in 1..Len(Order) : t = Order[i]
      BY OrderFacts
    <3> QED
      BY <1>1, <3>1
  <2>2. \A i \in 1..Len(Order) : ~(i < pos')
    BY <1>1
  <2> QED
    BY <2>1, <2>2 DEF Reached
<1>5. SchedTypeOK'
  BY <1>1, <1>2, <1>3 DEF SchedTypeOK
<1> DEFINE count(t) == IF ran[t] > 0 THEN 0
                       ELSE IF t \in deferred \/ owed[t] > 0
                            THEN Least(owed[t] + 1, MaxDeferrals[Class[t]] + 1)
                            ELSE 0
<1>6. ASSUME NEW t \in Tasks
      PROVE  count(t) \in Nat
  <2>1. owed[t] \in Nat /\ MaxDeferrals[Class[t]] \in Nat
    BY OrderFacts DEF Shapes
  <2> QED
    BY <2>1 DEF Least
<1>7. owed' = [t \in Tasks |-> count(t)]
  BY DEF EndTick
<1> HIDE DEF count
<1>8. owed' \in [Tasks -> Nat] /\ \A t \in Tasks : owed'[t] = count(t)
  BY <1>6, <1>7
<1>9. Shapes'
  BY <1>1, <1>8 DEF Shapes
<1>10. Outcomes' /\ Waiting' /\ Fresh'
  BY <1>1, <1>4 DEF Outcomes, Waiting, Fresh
<1>11. ASSUME NEW u \in Tasks, Trigger[u] # "on_event"
       PROVE  Owing(u)'
  <2>1. /\ owed[u] \in Nat /\ deferrals[u] \in 0..MaxDeferrals[Class[u]]
        /\ MaxDeferrals[Class[u]] \in Nat /\ ran[u] \in Nat /\ Owing(u)
    BY <1>11, OrderFacts DEF Shapes, SchedTypeOK, Owings
  <2>2. HasCause(u)' = HasCause(u)
    BY <1>1 DEF HasCause
  <2>3. u \in Ran \/ u \in deferred \/ u \in skipped
    BY <1>1, <1>4 DEF Outcomes
  <2>4. owed'[u] <= deferrals[u] /\ (owed'[u] > 0 => HasCause(u))
    <3>1. CASE u \in Ran
      <4>1. owed'[u] = 0
        BY <1>8, <3>1 DEF count, Ran
      <4> QED
        BY <2>1, <4>1
    <3>2. CASE u \in deferred
      <4>1. owed[u] + 1 <= deferrals[u] /\ HasCause(u)
        BY <1>1, <2>1, <3>2 DEF Owing
      <4>2. ran[u] = 0
        BY <1>1, <2>1, <3>2 DEF Outcomes, Ran
      <4>3. owed'[u] = Least(owed[u] + 1, MaxDeferrals[Class[u]] + 1)
        BY <1>8, <3>2, <4>2 DEF count
      <4> QED
        BY <2>1, <4>1, <4>3 DEF Least
    <3>3. CASE u \in skipped
      <4>1. owed[u] = 0
        BY <1>1, <2>1, <3>3 DEF Owing
      <4>2. u \notin deferred
        BY <1>1, <3>3 DEF Outcomes
      <4>3. owed'[u] = 0
        BY <1>8, <4>1, <4>2 DEF count
      <4> QED
        BY <2>1, <4>3
    <3> QED
      BY <2>3, <3>1, <3>2, <3>3
  <2>5. owed'[u] \in Nat /\ owed'[u] <= MaxDeferrals[Class[u]]
    BY <1>8, <2>1, <2>4
  <2> QED
    BY <1>1, <2>2, <2>4, <2>5 DEF Owing
<1> QED
  BY <1>5, <1>9, <1>10, <1>11 DEF Owings

\* Anyone publishes an event, or writes a key between ticks.
LEMMA OutsideKeeps ==
  ASSUME SchedulerAssumption, SchedulerInv,
         \/ \E e \in Events : Publish(e)
         \/ \E k \in Shared : ExternalWrite(k)
         \/ UNCHANGED schedVars
  PROVE  SchedulerInv'
<1> USE DEF SchedulerInv
<1>1. /\ UNCHANGED <<pos, tickBudget, elapsed, consumed, debt, deferrals,
                     ran, deferred, skipped, promoted, spared, candidates, owed>>
      /\ bus' \subseteq Events
  BY DEF Publish, ExternalWrite, schedVars, budgets, report, SchedTypeOK
<1>2. /\ stale' \in [Tasks -> SUBSET Shared]
      /\ \A t \in Tasks : stale[t] \subseteq stale'[t] /\ stale'[t] \subseteq Reads[t]
      /\ pos > 0 => stale' = stale
  <2>1. /\ stale \in [Tasks -> SUBSET Shared]
        /\ \A t \in Tasks : stale[t] \subseteq Reads[t]
    BY DEF Shapes, SchedTypeOK
  <2>2. CASE stale' = stale
    BY <2>1, <2>2
  <2>3. ASSUME NEW k \in Shared, ExternalWrite(k)
        PROVE  /\ stale' \in [Tasks -> SUBSET Shared]
               /\ \A t \in Tasks : /\ stale[t] \subseteq stale'[t]
                                  /\ stale'[t] \subseteq Reads[t]
               /\ pos > 0 => stale' = stale
    <3>1. pos = 0 /\ stale' = [t \in Tasks |-> stale[t] \cup ({k} \cap Reads[t])]
      BY <2>3 DEF ExternalWrite, WriteTo
    <3> QED
      BY <2>1, <3>1
  <2> QED
    BY <2>2, <2>3 DEF Publish, schedVars
<1>3. Ran' = Ran /\ Reached' = Reached
  BY <1>1 DEF Ran, Reached
<1>4. SchedTypeOK' /\ Shapes'
  BY <1>1, <1>2 DEF SchedTypeOK, Shapes
<1>5. Outcomes' /\ Waiting'
  BY <1>1, <1>3 DEF Outcomes, Waiting
<1>6. Fresh'
  <2>1. CASE pos > 0
    BY <1>1, <1>2, <1>3, <2>1 DEF Fresh
  <2>2. CASE pos = 0
    <3>1. Reached = {}
      BY <2>2 DEF Reached
    <3> QED
      BY <1>3, <3>1 DEF Fresh
  <2> QED
    BY <2>1, <2>2 DEF SchedTypeOK
<1>7. ASSUME NEW u \in Tasks, Trigger[u] # "on_event"
      PROVE  Owing(u)'
  <2>1. HasCause(u) => HasCause(u)'
    BY <1>2 DEF HasCause
  <2> QED
    BY <1>1, <1>3, <1>7, <2>1 DEF Owing, Owings
<1> QED
  BY <1>4, <1>5, <1>6, <1>7 DEF Owings

\* A new scheduler.
LEMMA InitHolds ==
  ASSUME SchedulerAssumption, SchedInit
  PROVE  SchedulerInv
<1>1. /\ pos = 0 /\ elapsed = 0 /\ tickBudget = NoSpare /\ bus = {}
      /\ deferred = {} /\ skipped = {} /\ promoted = {} /\ spared = {}
      /\ candidates = <<>>
  BY DEF SchedInit, NoReport
<1>2. /\ \A t \in Tasks : deferrals[t] = 0 /\ owed[t] = 0 /\ ran[t] = 0 /\ stale[t] = {}
      /\ deferrals \in [Tasks -> Nat] /\ owed \in [Tasks -> Nat]
      /\ ran \in [Tasks -> Nat] /\ stale \in [Tasks -> SUBSET Shared]
      /\ consumed \in [Subsystems -> Nat]
  BY DEF SchedInit, NoReport, Zero
<1>3. debt \in [Subsystems -> 0..MaxDebt]
  BY DEF SchedInit, Zero, SchedulerAssumption
<1>4. /\ Len(Order) \in Nat
      /\ \A t \in Tasks : MaxDeferrals[Class[t]] \in Nat
  BY OrderFacts
<1>5. ToSet(candidates) = {}
  BY <1>1 DEF ToSet
<1>6. Reached = {}
  BY <1>1 DEF Reached
<1>7. SchedTypeOK
  BY <1>1, <1>2, <1>3, <1>4, <1>5 DEF SchedTypeOK
<1>8. Shapes
  BY <1>1, <1>2 DEF Shapes
<1>9. Outcomes /\ Waiting /\ Fresh
  BY <1>1, <1>6 DEF Outcomes, Waiting, Fresh
<1>10. Owings
  BY <1>1, <1>2, <1>4 DEF Owings, Owing
<1> QED
  BY <1>7, <1>8, <1>9, <1>10 DEF SchedulerInv

\* Every step of the scheduler keeps the invariant.
LEMMA StepKeeps ==
  ASSUME SchedulerAssumption, SchedulerInv, [SchedNext]_schedVars
  PROVE  SchedulerInv'
<1>1. ASSUME NEW t \in Tasks, NEW cost \in Costs, RunCritical(t, cost)
      PROVE  SchedulerInv'
  <2>1. At(t) /\ RunOne(t, cost) /\ promoted' \in {promoted, promoted \cup {t}}
    BY <1>1 DEF RunCritical
  <2>2. UNCHANGED <<tickBudget, bus, deferred, skipped, spared, candidates, owed>>
    BY <1>1 DEF RunCritical
  <2> QED
    BY <2>1, <2>2, RunKeeps
<1>2. ASSUME NEW t \in Tasks, NEW cost \in Costs, RunDue(t, cost)
      PROVE  SchedulerInv'
  <2>1. At(t) /\ RunOne(t, cost) /\ promoted' \in {promoted, promoted \cup {t}}
    BY <1>2 DEF RunDue
  <2>2. UNCHANGED <<tickBudget, bus, deferred, skipped, spared, candidates, owed>>
    BY <1>2 DEF RunDue
  <2> QED
    BY <2>1, <2>2, RunKeeps
<1>3. ASSUME TickStep
      PROVE  SchedulerInv'
  BY <1>1, <1>2, <1>3, SkipKeeps, DeferKeeps, SpareKeeps, EndKeeps DEF TickStep
<1> QED
  BY <1>3, BeginKeeps, OutsideKeeps DEF SchedNext

\* What the invariant says at the end of a tick.
LEMMA InvImplies ==
  ASSUME SchedulerAssumption, SchedulerInv
  PROVE  TickIsComplete /\ BoundedDeferral
<1> USE DEF SchedulerInv
<1>1. ASSUME Ended
      PROVE  pos > 0 /\ Reached = Tasks
  <2>1. pos = Len(Order) + 1 /\ Len(Order) \in Nat
    BY <1>1, OrderFacts DEF Ended
  <2>2. ASSUME NEW t \in Tasks
        PROVE  \E i \in 1..Len(Order) : i < pos /\ t = Order[i]
    <3>1. PICK i \in 1..Len(Order) : t = Order[i]
      BY OrderFacts
    <3> QED
      BY <2>1, <3>1
  <2> QED
    BY <2>1, <2>2 DEF Reached
<1>2. EveryTaskAccounted
  BY <1>1 DEF EveryTaskAccounted, Outcomes
<1>3. ReadersEndTickFresh
  BY <1>1 DEF ReadersEndTickFresh, Fresh
<1>4. BoundedDeferral
  BY DEF BoundedDeferral, Owings, Owing
<1> QED
  BY <1>2, <1>3, <1>4 DEF TickIsComplete

-----------------------------------------------------------------------------
(* The theorems. *)

\* SchedulerInv is an invariant of run_tick.
THEOREM SchedulerInvariant ==
  ASSUME SchedulerAssumption
  PROVE  SchedSpec => []SchedulerInv
<1>1. SchedInit => SchedulerInv
  BY InitHolds
<1>2. SchedulerInv /\ [SchedNext]_schedVars => SchedulerInv'
  BY StepKeeps
<1> QED
  BY <1>1, <1>2, PTL DEF SchedSpec

\* The types of the scheduler's state: the deferrals of a task never pass the
\* bound of its class.
THEOREM SchedulerTypes ==
  ASSUME SchedulerAssumption
  PROVE  SchedSpec => []SchedTypeOK
<1>1. SchedulerInv => SchedTypeOK
  BY DEF SchedulerInv
<1> QED
  BY <1>1, SchedulerInvariant, PTL

\* run_tick gives every task one outcome over its two passes and leaves no
\* ON_DIRTY reader behind but for a deferral or a spare run.
THEOREM TicksAreComplete ==
  ASSUME SchedulerAssumption
  PROVE  SchedSpec => []TickIsComplete
<1>1. SchedulerInv => TickIsComplete
  BY InvImplies
<1> QED
  BY <1>1, SchedulerInvariant, PTL

\* Nothing starves: a due task is kept from running for at most the bound of
\* its class.
THEOREM DeferralIsBounded ==
  ASSUME SchedulerAssumption
  PROVE  SchedSpec => []BoundedDeferral
<1>1. SchedulerInv => BoundedDeferral
  BY InvImplies
<1> QED
  BY <1>1, SchedulerInvariant, PTL
=============================================================================
