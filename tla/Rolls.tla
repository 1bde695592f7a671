-------------------------------- MODULE Rolls --------------------------------
(***************************************************************************)
(* The lists of members that a settlement stores of one kind of            *)
(* institution, in the order of founding, and the rule that makes room in  *)
(* one: families and factions share it (_prune_extinct_institutions).      *)
(***************************************************************************)
EXTENDS People, Sequences

\* Nobody alive is on the roll.
Extinct(members) == members \cap living = {}

\* Mutant: the oldest make room, whoever belongs to them.
PrunedOldest(list, cap) ==
  SubSeq(list, IF Len(list) > cap THEN Len(list) - cap + 1 ELSE 1, Len(list))

ExtinctBefore(list, i) == {j \in 1..(i - 1) : Extinct(list[j])}

\* Only when more than the cap are stored, the excess is taken from those
\* without a living member, the oldest first.
Stays(list, cap) ==
  {i \in DOMAIN list :
     Extinct(list[i]) => Cardinality(ExtinctBefore(list, i)) >= Len(list) - cap}

\* The k-th least of a set of numbers.
Kth(S, k) == CHOOSE i \in S : Cardinality({j \in S : j < i}) = k - 1

\* The entries of a list at the places S, in their order.
Picked(list, S) == [k \in 1..Cardinality(S) |-> list[Kth(S, k)]]

Pruned(list, cap) == Picked(list, Stays(list, cap))
=============================================================================
