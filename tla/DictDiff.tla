------------------------------ MODULE DictDiff ------------------------------
(***************************************************************************)
(* The patch format of incremental snapshots, persistence/diff.py, as      *)
(* save_snapshot uses it: the base comes back from JSON, the new world is  *)
(* a live Python dict, and the patch goes through JSON before it is        *)
(* applied.  A dict is a function, a leaf is a model value, a key is its   *)
(* name with its type: JSON turns every key into a string, a tuple into a  *)
(* list, and keeps True and 1 apart although Python's == does not.  A      *)
(* patch is a set of edits, which the code keeps by kind.                  *)
(***************************************************************************)
EXTENDS Integers, FiniteSets, Sequences

CONSTANTS
  Names,                  \* of the keys of a dict, by how deep it nests: a sequence
  One, True, List, Tuple  \* leaves: 1, True, [..] and (..)

Leaves == {One, True, List, Tuple}
Depth == Len(Names)

Name(k) == k[1]
Str(k) == <<Name(k), "str">>
Keys(names) == names \X {"int", "str"}

\* A dict never holds one name as a number and as a string.
DictsOver(names, values) ==
  UNION {[K -> values] : K \in
    {S \in SUBSET Keys(names) : \A j, k \in S : Name(j) = Name(k) => j = k}}

\* What nests at most n deep.
Values[n \in 0..Depth] ==
  IF n = 0 THEN Leaves ELSE Values[n - 1] \cup DictsOver(Names[n], Values[n - 1])

Value == Values[Depth]
IsDict(v) == v \notin Leaves
Dict == {v \in Value : IsDict(v)}
WorldDicts == DictsOver(Names[Depth], Values[Depth - 1])

ASSUME DictAssumption ==
  /\ Depth \in Nat \ {0} /\ Tuple \notin {One, True, List}
  /\ \A n \in 1..Depth : Leaves \cap DictsOver(Names[n], Values[n - 1]) = {}

\* json.dumps and json.loads of a value.
Stored[v \in Value] ==
  IF IsDict(v)
  THEN [k \in {Str(j) : j \in DOMAIN v} |->
          Stored[v[CHOOSE j \in DOMAIN v : Name(j) = Name(k)]]]
  ELSE IF v = Tuple THEN List ELSE v

\* Python's ==.
PyEq[u \in Value] == [v \in Value |->
  IF IsDict(u) /\ IsDict(v)
  THEN DOMAIN u = DOMAIN v /\ \A k \in DOMAIN u : PyEq[u[k]][v[k]]
  ELSE u = v \/ {u, v} = {One, True}]

Changed(old, new) ==
  {k \in DOMAIN new : k \notin DOMAIN old \/ ~PyEq[old[k]][new[k]]}

\* The changed keys that are dicts on both sides.
Nested(old, new) ==
  {k \in Changed(old, new) \cap DOMAIN old : IsDict(old[k]) /\ IsDict(new[k])}

Edit(op, k, to) == [op |-> op, key |-> k, to |-> to]

\* diff_dict.  (The patch of two dicts that differ is never empty.)
Diff[old \in Dict] == [new \in Dict |->
  {Edit("set", k, new[k]) : k \in Changed(old, new) \ Nested(old, new)}
  \cup {Edit("recurse", k, Diff[old[k]][new[k]]) : k \in Nested(old, new)}
  \cup {Edit("del", k, {}) : k \in DOMAIN old \ DOMAIN new}]

AllKeys == Keys(UNION {Names[n] : n \in 1..Depth})

PatchesTo[n \in 0..Depth] ==
  SUBSET ([op : {"set"}, key : AllKeys, to : Value]
          \cup [op : {"recurse"}, key : AllKeys, to : IF n = 0 THEN {} ELSE PatchesTo[n - 1]]
          \cup [op : {"del"}, key : AllKeys, to : {{}}])

Patches == PatchesTo[Depth]
Edits(p, op) == {e \in p : e.op = op}

\* The patch in JSON.  What it deletes were stored keys already.
StoredPatch[p \in Patches] ==
  {Edit("set", Str(e.key), Stored[e.to]) : e \in Edits(p, "set")}
  \cup {Edit("recurse", Str(e.key), StoredPatch[e.to]) : e \in Edits(p, "recurse")}
  \cup Edits(p, "del")

Edited(p, op) == {e.key : e \in Edits(p, op)}
EditOf(p, op, k) == (CHOOSE e \in Edits(p, op) : e.key = k).to

\* Mutant: the deletions come last.
KeysDeletingLast(old, p) ==
  (DOMAIN old \cup Edited(p, "set") \cup Edited(p, "recurse")) \ Edited(p, "del")

\* The keys of the result: deletions, then replacements, then nested patches.
KeysAfter(old, p) ==
  (DOMAIN old \ Edited(p, "del")) \cup Edited(p, "set") \cup Edited(p, "recurse")

\* What a nested patch finds at a key.
Found(old, p, k) ==
  IF k \in Edited(p, "set") THEN EditOf(p, "set", k)
  ELSE IF k \in DOMAIN old \ Edited(p, "del") THEN old[k] ELSE <<>>

\* apply_patch.
Apply[p \in Patches] == [old \in Dict |-> [k \in KeysAfter(old, p) |->
  IF k \in Edited(p, "recurse")
  THEN Apply[EditOf(p, "recurse", k)][Found(old, p, k)]
  ELSE Found(old, p, k)]]

VARIABLES
  content,  \* what the last row reconstructs to
  saved,    \* the JSON of the world it was saved from
  patch     \* the patch of the last row

diffVars == <<content, saved, patch>>

NoPatch == {}

\* A full row.
FullRow ==
  /\ \E world \in WorldDicts : saved = Stored[world]
  /\ content = saved
  /\ patch = NoPatch

\* An incremental row on top of it.
SaveIncremental(world) ==
  /\ patch' = StoredPatch[Diff[content][world]]
  /\ content' = Apply[patch'][content]
  /\ saved' = Stored[world]

DiffNext == \E world \in WorldDicts : SaveIncremental(world)

DiffSpec == FullRow /\ [][DiffNext]_diffVars

-----------------------------------------------------------------------------
(* Properties *)

\* "apply_patch(old, diff_dict(old, new)) == new", with Python's ==, across the
\* round trip through JSON and along any chain of rows; and whatever mix of numeric
\* keys and tuples the worlds had, a row reconstructs to what JSON can hold.
RoundTrip ==
  /\ content = Stored[content]
  /\ DOMAIN content = DOMAIN saved
  /\ \A k \in DOMAIN saved : PyEq[content[k]][saved[k]]
=============================================================================
