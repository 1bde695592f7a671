----------------------------- MODULE Innovations -----------------------------
(***************************************************************************)
(* The invented concepts of a world (hearthmind/world/ontology.py and the  *)
(* jobs of the engine that feed it): they are proposed, gain adopters, are *)
(* abandoned, retired, reinstated, evolved and merged, and forgotten when  *)
(* there are too many.  Each one that answers a named problem has a belief *)
(* in the Innovation pillar's world model, which its fate revises.         *)
(*                                                                         *)
(* Three hands change the registry: the tick (spreading), the seasonal     *)
(* sweep, and the answers of calls that were asked in an earlier season.   *)
(* How old and how fit a concept is, and whether a proposal is a duplicate *)
(* is left open.                                                           *)
(***************************************************************************)
EXTENDS Integers, FiniteSets, FiniteSetsExt, Functions

CONSTANTS
  Cap,              \* MAX_CONCEPTS_STORED
  SpreadingFloor,   \* CONCEPT_SPREADING_ADOPTERS
  EstablishedFloor, \* CONCEPT_ESTABLISHED_ADOPTERS
  MostAdopters,     \* MAX_ADOPTERS_STORED
  MinReadings,      \* FITNESS_EVALUATION_MIN_READINGS
  CastSizes,        \* how many of the core cast may live where a concept began
  MaxIdeas,         \* bound: concepts ever registered
  MaxAsked          \* bound: evolutions asked for and not answered

InnovationsAssumption ==
  /\ Cap \in Nat /\ SpreadingFloor \in Nat /\ EstablishedFloor \in Nat
  /\ MostAdopters \in Nat \ {0} /\ MinReadings \in Nat \ {0}
  /\ CastSizes \subseteq Nat \ {0} /\ MaxIdeas \in Nat /\ MaxAsked \in Nat

VARIABLES
  concepts,  \* World.invented_concepts, by id
  nextId,    \* World.next_concept_id
  asked,     \* the parents of each evolution or merge in flight
  reviewed   \* the concepts whose retirement a dual fork is checking

ideaVars == <<concepts, nextId, asked, reviewed>>

Idea == 1..MaxIdeas
stored == DOMAIN concepts
Growing == {"proposed", "spreading"}
Gone == {"abandoned", "retired"}

\* What the Innovation pillar believes of the hypothesis; "nothing" for a concept
\* that answers no problem, or has no entry in its world model.
Belief == {"nothing", "open", "confirmed", "refuted"}

Concept ==
  [status : Growing \cup Gone \cup {"established"}, adopters : 0..MostAdopters,
   lineage : SUBSET Idea, readings : 0..MinReadings, belief : Belief]

IdeasTypeOK ==
  /\ stored \subseteq 1..(nextId - 1) /\ nextId \in 1..(MaxIdeas + 1)
  /\ concepts \in [stored -> Concept]
  /\ asked \subseteq SUBSET Idea /\ reviewed \subseteq Idea

IdeasInit == concepts = <<>> /\ nextId = 1 /\ asked = {} /\ reviewed = {}

-----------------------------------------------------------------------------
(* The registry.                                                           *)

\* Ids are given out in the order of invention, so the least are the oldest.
Oldest(n, S) == {c \in S : Cardinality({d \in S : d < c}) < n}

Drop(cs, S) == Restrict(cs, DOMAIN cs \ S)

Excess(cs) == Max({0, Cardinality(DOMAIN cs) - Cap})

\* Mutant: parents are looked up among the concepts that still grow.
ReferencedByGrowing(cs) == UNION {cs[c].lineage : c \in {d \in DOMAIN cs : cs[d].status \in Growing}}

\* _referenced_ids: whatever the lineage of a stored concept names.
Referenced(cs) == UNION {cs[c].lineage : c \in DOMAIN cs}

\* prune_concepts: what is gone first, then what never spread, the oldest first;
\* never what the lineage of a stored concept names.
Prune(cs) ==
  LET Prunable(ss) == {c \in DOMAIN cs : cs[c].status \in ss} \ Referenced(cs)
      kept == Drop(cs, Oldest(Excess(cs), Prunable(Gone)))
  IN Drop(kept, Oldest(Excess(kept), Prunable({"proposed"})))

\* register_concept: a newborn may be the one that is pruned.
Register(inventors, parents, belief) ==
  /\ nextId <= MaxIdeas
  /\ LET newborn == [status |-> "proposed", adopters |-> inventors,
                     lineage |-> parents, readings |-> 0, belief |-> belief]
     IN concepts' = Prune([c \in stored \cup {nextId} |->
                             IF c = nextId THEN newborn ELSE concepts[c]])
  /\ nextId' = nextId + 1

\* _record_hypothesis_outcome, in place.
Outcome(concept, belief) == IF concept.belief = "nothing" THEN "nothing" ELSE belief

\* The concept ends in status s, by which its hypothesis is confirmed or refuted.
Ends(concept, s) ==
  [concept EXCEPT !.status = s,
     !.belief = Outcome(concept, IF s = "established" THEN "confirmed" ELSE "refuted")]

-----------------------------------------------------------------------------
(* The answers of the jobs that invent.                                    *)

\* A proposal has an inventor if anybody lives there, and a mirrored belief if it
\* named a problem; inventions, named places and the land's own ideas have no
\* belief.  (A near duplicate changes nothing.)
Propose(inventors, belief) ==
  /\ inventors \in {0, 1} /\ belief \in {"nothing", "open"}
  /\ Register(inventors, {}, belief)
  /\ UNCHANGED <<asked, reviewed>>

\* At the end of a year one established concept is to be evolved, or two merged.
AskEvolution(parents) ==
  /\ Cardinality(parents) \in {1, 2}
  /\ \A c \in parents : c \in stored /\ concepts[c].status = "established"
  /\ Cardinality(asked \cup {parents}) <= MaxAsked
  /\ asked' = asked \cup {parents}
  /\ UNCHANGED <<concepts, nextId, reviewed>>

\* The answer names the parents it was asked with; nobody looks for them again.
Evolve(parents) ==
  /\ parents \in asked
  /\ asked' = asked \ {parents}
  /\ \/ \E belief \in {"nothing", "open"} : Register(0, parents, belief)
     \/ UNCHANGED <<concepts, nextId>>
  /\ UNCHANGED reviewed

-----------------------------------------------------------------------------
(* Spreading.                                                              *)

CeilDiv(n, d) == (n + d - 1) \div d

\* The floors, or the shares of a core cast of size n.
SpreadingAt(n) == Max({SpreadingFloor, CeilDiv(n, 5)})
EstablishedAt(n) == Max({EstablishedFloor, CeilDiv(n, 2)})

\* maybe_promote_status, both steps at once if need be.
Promote(concept, n) ==
  IF concept.adopters >= EstablishedAt(n) THEN Ends(concept, "established")
  ELSE IF concept.adopters >= SpreadingAt(n) THEN [concept EXCEPT !.status = "spreading"]
  ELSE concept

\* _maybe_spread_concepts and add_adopter: one more of the cast of n takes it up.
Spread(c, n) ==
  /\ c \in stored /\ concepts[c].status \in Growing
  /\ concepts[c].adopters < MostAdopters
  /\ LET joined == [concepts[c] EXCEPT !.adopters = @ + 1]
     IN concepts' = [concepts EXCEPT ![c] = Promote(joined, n)]
  /\ UNCHANGED <<nextId, asked, reviewed>>

-----------------------------------------------------------------------------
(* The seasonal sweep and its second opinion.                              *)

Proposed == {c \in stored : concepts[c].status = "proposed"}

\* abandon_stale, for those of the first `age` that never spread.
AbandonStale(cs, age) ==
  [c \in DOMAIN cs |->
     IF c <= age /\ cs[c].status = "proposed" THEN Ends(cs[c], "abandoned") ELSE cs[c]]

\* With one reading more there are enough for a verdict.
Judged(cs, evaluable) == {c \in evaluable : cs[c].readings + 1 >= MinReadings}

\* run_selection: the evaluable get one reading more, the unfit among the judged are
\* retired.
Select(cs, evaluable, unfit) ==
  [c \in DOMAIN cs |->
     IF c \notin evaluable THEN cs[c]
     ELSE LET read == [cs[c] EXCEPT !.readings = Min({@ + 1, MinReadings})]
          IN IF c \in unfit THEN Ends(read, "retired") ELSE read]

\* Those who have caught on and whose adopters can be compared with their neighbours.
Adopted(cs) == {c \in DOMAIN cs : cs[c].status \in {"spreading", "established"}}

Retired(cs) == {c \in DOMAIN cs : cs[c].status = "retired"}

\* Both passes and the start of a dual fork for each concept newly retired.
Sweep(age) ==
  LET young == AbandonStale(concepts, age)
  IN \E evaluable \in SUBSET Adopted(young) :
       \E unfit \in SUBSET Judged(young, evaluable) :
         /\ concepts' = Select(young, evaluable, unfit)
         /\ reviewed' = reviewed \cup (Retired(concepts') \ Retired(concepts))
         /\ UNCHANGED <<nextId, asked>>

\* Mutant: the concept comes back, the pillar goes on believing it refuted.
ReinstateQuietly(c) ==
  concepts' = [concepts EXCEPT ![c].status = "established", ![c].readings = 0]

\* reinstate_concept: the readings were misleading, the belief is confirmed.
Reinstate(c) ==
  concepts' = [concepts EXCEPT ![c] = [Ends(@, "established") EXCEPT !.readings = 0]]

\* _confirm_concept_retirement returns: the loss of the concept did harm, or not.
ConfirmRetirement(c) ==
  /\ c \in reviewed
  /\ reviewed' = reviewed \ {c}
  /\ \/ c \in stored /\ concepts[c].status = "retired" /\ Reinstate(c)
     \/ UNCHANGED concepts
  /\ UNCHANGED <<nextId, asked>>

\* A restart keeps the registry and loses the tasks.
IdeasRestart ==
  /\ asked' = {} /\ reviewed' = {}
  /\ UNCHANGED <<concepts, nextId>>

IdeasNext ==
  \/ \E inventors \in {0, 1}, belief \in {"nothing", "open"} : Propose(inventors, belief)
  \/ \E P \in SUBSET stored : AskEvolution(P)
  \/ \E P \in asked : Evolve(P)
  \/ \E c \in stored, n \in CastSizes : Spread(c, n)
  \/ \E age \in {0} \cup Proposed : Sweep(age)
  \/ \E c \in reviewed : ConfirmRetirement(c)
  \/ IdeasRestart

IdeasSpec == IdeasInit /\ [][IdeasNext]_ideaVars

-----------------------------------------------------------------------------
BeliefsFollow ==
  \A c \in stored :
    concepts[c].belief \in
      {"nothing",
       CASE concepts[c].status \in Growing -> "open"
         [] concepts[c].status = "established" -> "confirmed"
         [] OTHER -> "refuted"}

OpinionsAwaited == \A c \in reviewed \cap stored : concepts[c].status = "retired"

\* The pillar believes of each stored concept's hypothesis what became of it,
\* through promotion, ageing, retirement and a second opinion that comes later;
\* and while that opinion is awaited nothing else has decided the concept's fate.
FateIsRecorded == IdeasTypeOK /\ BeliefsFollow /\ OpinionsAwaited

DescentIsKept ==
  \A c \in stored \ DOMAIN concepts' :
    /\ \A d \in DOMAIN concepts' : c \notin concepts'[d].lineage
    /\ concepts[c].status \notin {"spreading", "established"}

\* No step forgets a concept that another one which stays descends from: the
\* walk along the lineage is never cut behind a child, nor is a concept forgotten
\* that people have taken up and not been talked out of.
LineageIsKept == [][DescentIsKept]_ideaVars

\* "Parents are never removed": the lineage of a stored concept leads to stored
\* concepts.
LineageIsWalkable == \A c \in stored : concepts[c].lineage \subseteq stored
=============================================================================
