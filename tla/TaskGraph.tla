----------------------------- MODULE TaskGraph -----------------------------
(***************************************************************************)
(* src/hearthmind/simulation/task_graph.py: tasks declare the keys they    *)
(* read and write; TaskRegistry turns overlaps into a dependency graph     *)
(* and sorts it with Kahn's algorithm, smallest ready id first, or refuses *)
(* the declarations with CycleError.  Ids are naturals, so that sorted()   *)
(* is the order of the naturals.                                           *)
(***************************************************************************)
EXTENDS Integers, FiniteSets, Sequences

CONSTANTS
  Ids,       \* the registered task ids
  Keys,      \* the keys tasks declare
  Wildcard   \* LEGACY_WILDCARD

ASSUME TaskGraphAssumption ==
  /\ IsFiniteSet(Ids) /\ Ids \subseteq Nat
  /\ Wildcard \notin Keys

VARIABLES
  reads, writes,  \* the declarations
  remaining,      \* ids not ordered yet, each with its unmet dependencies
  ordered,        \* the order built so far
  status          \* "sorting", then "ordered" or "cycle" (CycleError)

vars == <<reads, writes, remaining, ordered, status>>

\* a writes something that b reads.
Feeds(a, b) == writes[a] \cap reads[b] # {}

\* Task.conflicts_with.
Conflicts(a, b) ==
  \/ Wildcard \in writes[a] \cup writes[b]
  \/ writes[a] \cap writes[b] # {}
  \/ Feeds(a, b)
  \/ Feeds(b, a)

\* Mutant: the tie of a write/write conflict is not broken.
DependsOnUntied(b, a) == a # b /\ Feeds(a, b)

\* _edges: a must run before b.
DependsOn(b, a) ==
  /\ a # b
  /\ \/ Feeds(a, b)
     \/ /\ a < b
        /\ Conflicts(a, b)
        /\ ~Feeds(a, b) /\ ~Feeds(b, a)

\* _edges on the whole registry.
Edges == [b \in Ids |-> {a \in Ids : DependsOn(b, a)}]

Init ==
  /\ reads \in [Ids -> SUBSET Keys]
  /\ writes \in [Ids -> SUBSET (Keys \cup {Wildcard})]
  /\ remaining = Edges
  /\ ordered = <<>>
  /\ status = "sorting"

Ready == {t \in DOMAIN remaining : remaining[t] = {}}

\* Mutant: the last ready id is taken.
PickLargest ==
  /\ status = "sorting"
  /\ \E t \in Ready :
       /\ \A u \in Ready : u <= t
       /\ ordered' = Append(ordered, t)
       /\ remaining' = [u \in DOMAIN remaining \ {t} |-> remaining[u] \ {t}]
  /\ UNCHANGED <<reads, writes, status>>

\* One turn of the loop: the smallest ready id leaves the graph.
Pick ==
  /\ status = "sorting"
  /\ \E t \in Ready :
       /\ \A u \in Ready : t <= u
       /\ ordered' = Append(ordered, t)
       /\ remaining' = [u \in DOMAIN remaining \ {t} |-> remaining[u] \ {t}]
  /\ UNCHANGED <<reads, writes, status>>

\* Mutant: what is left unsorted is not reported.
StopSilently ==
  /\ status = "sorting"
  /\ Ready = {}
  /\ status' = "ordered"
  /\ UNCHANGED <<reads, writes, remaining, ordered>>

\* Nothing is ready: all is ordered, or what remains is a cycle.
Stop ==
  /\ status = "sorting"
  /\ Ready = {}
  /\ status' = IF DOMAIN remaining = {} THEN "ordered" ELSE "cycle"
  /\ UNCHANGED <<reads, writes, remaining, ordered>>

Next == Pick \/ Stop

Spec == Init /\ [][Next]_vars

-----------------------------------------------------------------------------
(* Properties *)

\* The types, and the split of the ids between the order and the graph.
TypeOK ==
  /\ reads \in [Ids -> SUBSET Keys]
  /\ writes \in [Ids -> SUBSET (Keys \cup {Wildcard})]
  /\ status \in {"sorting", "ordered", "cycle"}
  /\ DOMAIN remaining \subseteq Ids
  /\ remaining \in [DOMAIN remaining -> SUBSET Ids]
  /\ {ordered[i] : i \in 1..Len(ordered)} = Ids \ DOMAIN remaining
  /\ Len(ordered) = Cardinality(Ids \ DOMAIN remaining)

Position(t) == CHOOSE i \in 1..Len(ordered) : ordered[i] = t

\* An accepted order runs every writer of a key before its readers, and
\* orders every two tasks that conflict otherwise by their ids, as
\* TaskRegistry._edges documents.
OrderIsSafe ==
  status = "ordered" =>
    \A a, b \in Ids :
      /\ a # b /\ Feeds(a, b) => Position(a) < Position(b)
      /\ a < b /\ Conflicts(a, b) /\ ~Feeds(b, a) => Position(a) < Position(b)

\* A set of ids in which each one waits for another of the set.
Knot(S, Dep(_, _)) == S # {} /\ \A b \in S : \E a \in S : Dep(b, a)

\* CycleError is raised exactly for the declarations whose edges have a cycle.
RefusesExactlyCycles ==
  /\ status = "cycle" => \E S \in SUBSET Ids : Knot(S, DependsOn)
  /\ status = "ordered" => ~ \E S \in SUBSET Ids : Knot(S, DependsOn)

Permutation(p) == \A t \in Ids : \E i \in DOMAIN p : p[i] = t
Orders == {p \in [1..Cardinality(Ids) -> Ids] : Permutation(p)}
Respects(p) ==
  \A i, j \in DOMAIN p : DependsOn(p[j], p[i]) => i < j
FirstSmaller(p, q) ==
  \/ p = q
  \/ \E i \in DOMAIN p : p[i] < q[i] /\ \A k \in 1..(i - 1) : p[k] = q[k]

\* "A stable topological sort with a deterministic tiebreak (task id)": the
\* result is the lexicographically least of all the orders the edges allow.
OrderIsLeast ==
  status = "ordered" =>
    /\ ordered \in Orders
    /\ \A p \in Orders : Respects(p) => FirstSmaller(ordered, p)

=============================================================================

