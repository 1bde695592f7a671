--------------------------- MODULE MCSnapshotStore ---------------------------
(***************************************************************************)
(* The store and the format of its patches, one at a time: `part` is       *)
(* chosen once and the other part keeps its first state.                   *)
(*                                                                         *)
(* "store": a world of two branches, chains of three rows, and a keyframe  *)
(* every third tick.                                                       *)
(* "patch": dicts of two keys, of both key types, over every kind of leaf  *)
(* and one level of nesting; the store itself diffs whole branches.        *)
(***************************************************************************)
EXTENDS SnapshotStore, DictDiff, TLC

CONSTANTS land, folk

VARIABLE part

\* The names of the keys of a world, and of those of a dict in it.
NamesByDepth == <<{1}, {1, 2}>>

MCInit ==
  /\ Init
  /\ \/ part = "store" /\ content = <<>> /\ saved = <<>> /\ patch = NoPatch
     \/ part = "patch" /\ FullRow

Store == part = "store" /\ UNCHANGED <<part, diffVars>>

MCNext ==
  \/ Store /\ Start
  \/ Store /\ Tick
  \/ Store /\ CommitTick
  \/ Store /\ EndLoop
  \/ Store /\ Stop
  \/ Store /\ Crash
  \/ Store /\ Sync
  \/ Store /\ PowerLoss
  \/ Store /\ \E p \in Parts, full \in BOOLEAN : Background(p, full)
  \/ Store /\ \E p \in Parts, full \in BOOLEAN : InTick(p, full)
  \/ Store /\ \E p \in Parts : WorldRaises(p)
  \/ Store /\ \E quiet \in BOOLEAN : SaveIfDue(quiet)
  \/ /\ part = "patch" /\ UNCHANGED <<part, vars>>
     /\ \E w \in WorldDicts : SaveIncremental(w)

MCSpec == MCInit /\ [][MCNext]_<<part, vars, diffVars>>

\* The branches of a world are interchangeable: nothing names one.
BranchSymmetry == Permutations(Parts)
=============================================================================
