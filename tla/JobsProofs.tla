----------------------------- MODULE JobsProofs -----------------------------
(***************************************************************************)
(* Proofs about the jobs of the calendar: what the dates are, when a job   *)
(* asks and whose turn it is, and what two of them keep, the registry of   *)
(* invented concepts and the book of the sleeping herds.                   *)
(***************************************************************************)
EXTENDS Rotation, Innovations, Dormancy, FiniteSetTheorems, WellFoundedInduction, TLAPS

LEMMA LeastOfTwo ==
  ASSUME NEW a \in Int, NEW b \in Int
  PROVE  Min({a, b}) = IF a <= b THEN a ELSE b
<1>. DEFINE m == IF a <= b THEN a ELSE b
<1>1. m \in {a, b} /\ \A y \in {a, b} : m <= y
  OBVIOUS
<1>2. \A x \in {a, b} : (\A y \in {a, b} : x <= y) => x = m
  OBVIOUS
<1>. HIDE DEF m
<1>3. Min({a, b}) = m
  BY <1>1, <1>2 DEF Min
<1>. QED
  BY <1>3 DEF m

-----------------------------------------------------------------------------
(* The registry of concepts.                                               *)

\* What is dropped is gone or never spread, and no stored concept names it.
LEMMA PruneFacts ==
  ASSUME NEW cs
  PROVE  /\ DOMAIN Prune(cs) \subseteq DOMAIN cs
         /\ Prune(cs) = [c \in DOMAIN Prune(cs) |-> cs[c]]
         /\ \A c \in DOMAIN cs \ DOMAIN Prune(cs) :
              /\ c \notin Referenced(cs)
              /\ cs[c].status \in Gone \cup {"proposed"}
<1>. DEFINE Prunable(ss) == {c \in DOMAIN cs : cs[c].status \in ss} \ Referenced(cs)
            first == Oldest(Excess(cs), Prunable(Gone))
            kept == Drop(cs, first)
            second == Oldest(Excess(kept), Prunable({"proposed"}))
<1>1. first \subseteq Prunable(Gone) /\ second \subseteq Prunable({"proposed"})
  BY DEF Oldest
<1>2. Prune(cs) = Drop(kept, second)
  BY DEF Prune
<1>. HIDE DEF first, second
<1>3. kept = [c \in DOMAIN cs \ first |-> cs[c]]
  BY DEF Drop, Restrict
<1>4. Prune(cs) = [c \in (DOMAIN cs \ first) \ second |-> cs[c]]
  BY <1>2, <1>3 DEF Drop, Restrict
<1>. QED
  BY <1>1, <1>4

IdeasInv ==
  /\ IdeasTypeOK /\ BeliefsFollow /\ OpinionsAwaited
  /\ reviewed \subseteq 1..(nextId - 1)

LEMMA IdeasInitially ==
  ASSUME InnovationsAssumption, IdeasInit
  PROVE  IdeasInv
<1>1. stored = {} /\ concepts \in [stored -> Concept]
  BY DEF IdeasInit, stored
<1>2. nextId \in 1..(MaxIdeas + 1)
  BY DEF IdeasInit, InnovationsAssumption
<1>. QED
  BY <1>1, <1>2 DEF IdeasInit, IdeasInv, IdeasTypeOK, BeliefsFollow, OpinionsAwaited

\* A concept whose hypothesis is believed what became of it.
Followed(concept) ==
  concept.belief \in
    {"nothing",
     CASE concept.status \in Growing -> "open"
       [] concept.status = "established" -> "confirmed"
       [] OTHER -> "refuted"}

LEMMA EndsFacts ==
  ASSUME NEW concept \in Concept, NEW s \in {"established", "abandoned", "retired"}
  PROVE  /\ Ends(concept, s) \in Concept /\ Followed(Ends(concept, s))
         /\ Ends(concept, s).status = s /\ Ends(concept, s).readings = concept.readings
  BY DEF Concept, Ends, Outcome, Followed, Growing, Gone, Belief

\* When no concept is registered: every concept has its fate recorded, and those that
\* were retired still are, unless they are no longer reviewed.
LEMMA FatesHold ==
  ASSUME InnovationsAssumption, IdeasInv, DOMAIN concepts' = stored, nextId' = nextId,
         asked' \subseteq SUBSET Idea, reviewed' \subseteq stored \cup reviewed,
         \A c \in stored : concepts'[c] \in Concept /\ Followed(concepts'[c])
                           /\ (c \in reviewed' => concepts'[c].status = "retired"),
         concepts' = [c \in stored |-> concepts'[c]]
  PROVE  IdeasInv' /\ DescentIsKept
<1>1. stored' = stored /\ stored \subseteq 1..(nextId - 1) /\ nextId \in 1..(MaxIdeas + 1)
  BY DEF stored, IdeasInv, IdeasTypeOK
<1>2. reviewed' \subseteq 1..(nextId - 1)
  BY <1>1 DEF IdeasInv
<1>3. reviewed' \subseteq Idea
  BY <1>1, <1>2 DEF Idea, InnovationsAssumption
<1>4. concepts' \in [stored' -> Concept]
  BY <1>1
<1>5. IdeasTypeOK'
  BY <1>1, <1>3, <1>4 DEF IdeasTypeOK
<1>6. BeliefsFollow' /\ OpinionsAwaited'
  BY <1>1 DEF BeliefsFollow, OpinionsAwaited, Followed
<1>. QED
  BY <1>1, <1>2, <1>5, <1>6 DEF IdeasInv, DescentIsKept

\* A new concept takes the next number, and may push out others or itself.
LEMMA RegisterKeeps ==
  ASSUME InnovationsAssumption, IdeasInv, NEW n \in {0, 1}, NEW P \in SUBSET Idea,
         NEW b \in {"nothing", "open"}, Register(n, P, b),
         asked' \subseteq SUBSET Idea, reviewed' = reviewed
  PROVE  IdeasInv' /\ DescentIsKept
<1>. DEFINE newborn == [status |-> "proposed", adopters |-> n, lineage |-> P,
                        readings |-> 0, belief |-> b]
            cs == [c \in stored \cup {nextId} |-> IF c = nextId THEN newborn ELSE concepts[c]]
<1>1. /\ newborn \in Concept /\ Followed(newborn)
  BY DEF Concept, Followed, Growing, Gone, Belief, InnovationsAssumption
<1>2. /\ nextId \in 1..(MaxIdeas + 1) /\ nextId <= MaxIdeas /\ MaxIdeas \in Nat
      /\ stored \subseteq 1..(nextId - 1) /\ reviewed \subseteq 1..(nextId - 1)
      /\ nextId' = nextId + 1 /\ concepts' = Prune(cs)
  BY DEF Register, IdeasInv, IdeasTypeOK, InnovationsAssumption
<1>3. nextId \notin stored /\ nextId \notin reviewed
  BY <1>2
<1>. HIDE DEF newborn
<1>4. /\ DOMAIN cs = stored \cup {nextId}
      /\ cs[nextId] = newborn /\ \A c \in stored : cs[c] = concepts[c]
  BY <1>3
<1>. HIDE DEF cs
<1>5. /\ stored' \subseteq DOMAIN cs /\ \A c \in stored' : concepts'[c] = cs[c]
      /\ concepts' = [c \in stored' |-> cs[c]]
      /\ \A c \in DOMAIN cs \ stored' : /\ c \notin Referenced(cs)
                                        /\ cs[c].status \in Gone \cup {"proposed"}
  BY <1>2, PruneFacts DEF stored
<1>6. \A c \in DOMAIN cs : cs[c] \in Concept /\ Followed(cs[c])
  BY <1>1, <1>4 DEF IdeasInv, IdeasTypeOK, BeliefsFollow, Followed
<1>7. concepts' \in [stored' -> Concept]
  BY <1>5, <1>6
<1>8. stored' \subseteq 1..(nextId' - 1) /\ nextId' \in 1..(MaxIdeas + 1)
      /\ reviewed' \subseteq 1..(nextId' - 1) /\ reviewed' \subseteq Idea
  <2>1. 1..(nextId - 1) \subseteq 1..(nextId' - 1) /\ nextId \in 1..(nextId' - 1)
        /\ 1..(nextId - 1) \subseteq Idea
    BY <1>2 DEF Idea
  <2>2. nextId' \in 1..(MaxIdeas + 1)
    BY <1>2
  <2>. QED
    BY <1>2, <1>4, <1>5, <2>1, <2>2
<1>9. BeliefsFollow' /\ OpinionsAwaited'
  <2>1. \A c \in stored' : Followed(concepts'[c])
    BY <1>5, <1>6
  <2>2. \A c \in reviewed' \cap stored' : concepts'[c].status = "retired"
    BY <1>3, <1>4, <1>5 DEF IdeasInv, OpinionsAwaited
  <2>. QED
    BY <2>1, <2>2 DEF BeliefsFollow, OpinionsAwaited, Followed
<1>10. DescentIsKept
  <2>1. SUFFICES ASSUME NEW c \in stored \ stored'
                 PROVE  /\ \A d \in stored' : c \notin concepts'[d].lineage
                        /\ concepts[c].status \notin {"spreading", "established"}
    BY DEF DescentIsKept, stored
  <2>2. c \notin Referenced(cs) /\ concepts[c].status \in Gone \cup {"proposed"}
    BY <1>4, <1>5
  <2>3. \A d \in stored' : c \notin concepts'[d].lineage
    BY <1>5, <2>2 DEF Referenced
  <2>. QED
    BY <2>2, <2>3 DEF Gone
<1>. QED
  BY <1>7, <1>8, <1>9, <1>10 DEF IdeasInv, IdeasTypeOK

\* What is known of each stored concept.
LEMMA StoredFacts ==
  ASSUME IdeasInv, NEW c \in stored
  PROVE  /\ concepts[c] \in Concept /\ Followed(concepts[c])
         /\ c \in reviewed => concepts[c].status = "retired"
  BY DEF IdeasInv, IdeasTypeOK, BeliefsFollow, OpinionsAwaited, Followed

\* One more adopter may promote a growing concept.
LEMMA PromoteFacts ==
  ASSUME InnovationsAssumption, NEW concept \in Concept, Followed(concept),
         concept.status \in Growing, concept.adopters < MostAdopters, NEW n
  PROVE  /\ Promote([concept EXCEPT !.adopters = @ + 1], n) \in Concept
         /\ Followed(Promote([concept EXCEPT !.adopters = @ + 1], n))
<1>. DEFINE more == [concept EXCEPT !.adopters = @ + 1]
<1>1. more \in Concept /\ more.status = concept.status /\ more.belief = concept.belief
  BY DEF Concept, InnovationsAssumption
<1>2. Followed(more)
  BY <1>1 DEF Followed
<1>3. concept.belief \in {"nothing", "open"}
  BY DEF Followed, Growing
<1>. HIDE DEF more
<1>4. Ends(more, "established") \in Concept /\ Followed(Ends(more, "established"))
  BY <1>1, EndsFacts
<1>5. [more EXCEPT !.status = "spreading"] \in Concept
      /\ Followed([more EXCEPT !.status = "spreading"])
  BY <1>1, <1>3 DEF Concept, Followed, Growing
<1>. QED
  BY <1>1, <1>2, <1>4, <1>5 DEF Promote, more

\* The young that never spread are abandoned; whatever else was decided stands.
LEMMA AbandonFacts ==
  ASSUME IdeasInv, NEW age
  PROVE  /\ DOMAIN AbandonStale(concepts, age) = stored
         /\ \A c \in stored :
              LET then == AbandonStale(concepts, age)[c]
              IN /\ then \in Concept /\ Followed(then)
                 /\ concepts[c].status = "retired" => then.status = "retired"
                 /\ then.status = "retired" => concepts[c].status = "retired"
<1>1. DOMAIN AbandonStale(concepts, age) = stored
  BY DEF AbandonStale, stored
<1>2. ASSUME NEW c \in stored
      PROVE  LET then == AbandonStale(concepts, age)[c]
             IN /\ then \in Concept /\ Followed(then)
                /\ concepts[c].status = "retired" => then.status = "retired"
                /\ then.status = "retired" => concepts[c].status = "retired"
  <2>1. AbandonStale(concepts, age)[c] =
          IF c <= age /\ concepts[c].status = "proposed"
          THEN Ends(concepts[c], "abandoned") ELSE concepts[c]
    BY DEF AbandonStale, stored
  <2>2. concepts[c] \in Concept /\ Followed(concepts[c])
    BY StoredFacts
  <2>3. LET x == Ends(concepts[c], "abandoned")
        IN x \in Concept /\ Followed(x) /\ x.status = "abandoned"
    BY <2>2, EndsFacts
  <2>. QED
    BY <2>1, <2>2, <2>3
<1>. QED
  BY <1>1, <1>2

\* A verdict ends a concept; a reading more does not change what it is.
LEMMA SelectFacts ==
  ASSUME InnovationsAssumption, NEW cs, NEW evaluable, NEW unfit,
         NEW c \in DOMAIN cs, cs[c] \in Concept, Followed(cs[c])
  PROVE  LET then == Select(cs, evaluable, unfit)[c]
         IN /\ then \in Concept /\ Followed(then)
            /\ then = cs[c] \/ c \in evaluable
<1>. DEFINE read == [cs[c] EXCEPT !.readings = Min({@ + 1, MinReadings})]
<1>1. Select(cs, evaluable, unfit)[c] =
        IF c \notin evaluable THEN cs[c]
        ELSE IF c \in unfit THEN Ends(read, "retired") ELSE read
  BY DEF Select
<1>2. read \in Concept /\ Followed(read)
  <2>1. cs[c].readings \in 0..MinReadings /\ MinReadings \in Nat
    BY DEF Concept, InnovationsAssumption
  <2>2. Min({cs[c].readings + 1, MinReadings}) \in 0..MinReadings
    <3>1. cs[c].readings + 1 \in Int /\ MinReadings \in Int
      BY <2>1
    <3>2. Min({cs[c].readings + 1, MinReadings}) =
            IF cs[c].readings + 1 <= MinReadings THEN cs[c].readings + 1 ELSE MinReadings
      BY <3>1, LeastOfTwo
    <3>. QED
      BY <2>1, <3>2
  <2>3. read = [cs[c] EXCEPT !.readings = Min({cs[c].readings + 1, MinReadings})]
    BY DEF Concept
  <2>. HIDE DEF read
  <2>4. read \in Concept
    BY <2>2, <2>3 DEF Concept
  <2>5. read.status = cs[c].status /\ read.belief = cs[c].belief
    BY <2>3 DEF Concept
  <2>. QED
    BY <2>4, <2>5 DEF Followed
<1>. HIDE DEF read
<1>3. Ends(read, "retired") \in Concept /\ Followed(Ends(read, "retired"))
  BY <1>2, EndsFacts
<1>. QED
  BY <1>1, <1>2, <1>3

\* The seasonal sweep: what is newly retired is reviewed.
LEMMA SweepKeeps ==
  ASSUME InnovationsAssumption, IdeasInv, NEW age, Sweep(age)
  PROVE  IdeasInv' /\ DescentIsKept
<1>. DEFINE young == AbandonStale(concepts, age)
<1>1. PICK evaluable \in SUBSET Adopted(young) : \E unfit \in SUBSET Judged(young, evaluable) :
        /\ concepts' = Select(young, evaluable, unfit)
        /\ reviewed' = reviewed \cup (Retired(concepts') \ Retired(concepts))
        /\ UNCHANGED <<nextId, asked>>
  BY DEF Sweep
<1>. DEFINE Swept(unfit) ==
       /\ concepts' = Select(young, evaluable, unfit)
       /\ reviewed' = reviewed \cup (Retired(concepts') \ Retired(concepts))
       /\ UNCHANGED <<nextId, asked>>
<1>0. PICK unfit \in SUBSET Judged(young, evaluable) : Swept(unfit)
  BY <1>1
<1>2. /\ DOMAIN young = stored
      /\ \A c \in stored : /\ young[c] \in Concept /\ Followed(young[c])
                           /\ concepts[c].status = "retired" => young[c].status = "retired"
  BY AbandonFacts
<1>. HIDE DEF young
<1>3. /\ DOMAIN concepts' = stored
      /\ concepts' = [c \in stored |-> concepts'[c]]
  BY <1>0, <1>2 DEF Select
<1>4. \A c \in stored : /\ concepts'[c] \in Concept /\ Followed(concepts'[c])
                        /\ concepts'[c] = young[c] \/ c \in evaluable
  BY <1>0, <1>2, SelectFacts
<1>5. \A c \in stored : c \in reviewed' => concepts'[c].status = "retired"
  <2>1. SUFFICES ASSUME NEW c \in stored, c \in reviewed'
                 PROVE  concepts'[c].status = "retired"
    OBVIOUS
  <2>2. CASE c \in reviewed
    <3>1. young[c].status = "retired"
      BY <1>2, <2>2, StoredFacts
    <3>2. c \notin evaluable
      BY <1>1, <3>1 DEF Adopted
    <3>. QED
      BY <1>4, <3>1, <3>2
  <2>3. CASE c \notin reviewed
    BY <1>0, <2>1, <2>3 DEF Retired
  <2>. QED
    BY <2>2, <2>3
<1>6. reviewed' \subseteq stored \cup reviewed /\ nextId' = nextId /\ asked' \subseteq SUBSET Idea
  BY <1>0, <1>3 DEF Retired, IdeasInv, IdeasTypeOK
<1>. QED
  BY <1>3, <1>4, <1>5, <1>6, FatesHold

LEMMA IdeasStep ==
  ASSUME InnovationsAssumption, IdeasInv, [IdeasNext]_ideaVars
  PROVE  IdeasInv' /\ DescentIsKept
<1>1. /\ asked \subseteq SUBSET Idea /\ stored \subseteq 1..(nextId - 1)
      /\ nextId \in 1..(MaxIdeas + 1) /\ MaxIdeas \in Nat
      /\ concepts \in [stored -> Concept]
  BY DEF IdeasInv, IdeasTypeOK, InnovationsAssumption
<1>2. stored \subseteq Idea
  BY <1>1 DEF Idea
<1>3. ASSUME concepts' = concepts, nextId' = nextId, asked' \subseteq SUBSET Idea,
             reviewed' \subseteq reviewed
      PROVE  IdeasInv' /\ DescentIsKept
  <2>1. DOMAIN concepts' = stored /\ concepts' = [c \in stored |-> concepts'[c]]
    BY <1>1, <1>3
  <2>2. \A c \in stored : /\ concepts'[c] \in Concept /\ Followed(concepts'[c])
                          /\ c \in reviewed' => concepts'[c].status = "retired"
    BY <1>3, StoredFacts
  <2>. QED
    BY <1>3, <2>1, <2>2, FatesHold
<1>4. ASSUME NEW n \in {0, 1}, NEW b \in {"nothing", "open"}, Propose(n, b)
      PROVE  IdeasInv' /\ DescentIsKept
  <2>1. Register(n, {}, b) /\ asked' = asked /\ reviewed' = reviewed
    BY <1>4 DEF Propose
  <2>. QED
    BY <1>1, <2>1, RegisterKeeps
<1>5. ASSUME NEW P \in SUBSET stored, AskEvolution(P)
      PROVE  IdeasInv' /\ DescentIsKept
  BY <1>1, <1>2, <1>3, <1>5 DEF AskEvolution
<1>6. ASSUME NEW P \in asked, Evolve(P)
      PROVE  IdeasInv' /\ DescentIsKept
  <2>1. P \in SUBSET Idea /\ asked' \subseteq SUBSET Idea /\ reviewed' = reviewed
    BY <1>1, <1>6 DEF Evolve
  <2>2. CASE UNCHANGED <<concepts, nextId>>
    BY <1>3, <2>1, <2>2
  <2>3. ASSUME NEW b \in {"nothing", "open"}, Register(0, P, b)
        PROVE  IdeasInv' /\ DescentIsKept
    BY <2>1, <2>3, RegisterKeeps
  <2>. QED
    BY <1>6, <2>2, <2>3 DEF Evolve
<1>7. ASSUME NEW c \in stored, NEW n \in CastSizes, Spread(c, n)
      PROVE  IdeasInv' /\ DescentIsKept
  <2>1. /\ concepts[c].status \in Growing /\ concepts[c].adopters < MostAdopters
        /\ concepts' = [concepts EXCEPT ![c] = Promote([concepts[c] EXCEPT !.adopters = @ + 1], n)]
        /\ UNCHANGED <<nextId, asked, reviewed>>
    BY <1>7 DEF Spread
  <2>2. LET x == Promote([concepts[c] EXCEPT !.adopters = @ + 1], n)
        IN x \in Concept /\ Followed(x)
    BY <2>1, StoredFacts, PromoteFacts
  <2>3. \A d \in stored :
          concepts'[d] = IF d = c THEN Promote([concepts[c] EXCEPT !.adopters = @ + 1], n)
                         ELSE concepts[d]
    BY <1>1, <2>1
  <2>4. c \notin reviewed
    BY <2>1, StoredFacts DEF Growing
  <2>5. DOMAIN concepts' = stored /\ concepts' = [d \in stored |-> concepts'[d]]
    BY <1>1, <2>1
  <2>6. \A d \in stored : /\ concepts'[d] \in Concept /\ Followed(concepts'[d])
                          /\ d \in reviewed' => concepts'[d].status = "retired"
    BY <2>1, <2>2, <2>3, <2>4, StoredFacts
  <2>. QED
    BY <1>1, <2>1, <2>5, <2>6, FatesHold
<1>8. ASSUME NEW c \in reviewed, ConfirmRetirement(c)
      PROVE  IdeasInv' /\ DescentIsKept
  <2>1. reviewed' = reviewed \ {c} /\ UNCHANGED <<nextId, asked>>
    BY <1>8 DEF ConfirmRetirement
  <2>2. CASE UNCHANGED concepts
    BY <1>1, <1>3, <2>1, <2>2
  <2>3. CASE c \in stored /\ Reinstate(c)
    <3>. DEFINE x == [Ends(concepts[c], "established") EXCEPT !.readings = 0]
    <3>1. concepts' = [concepts EXCEPT ![c] = x]
      BY <2>3 DEF Reinstate
    <3>2. x \in Concept /\ Followed(x)
      <4>. DEFINE y == Ends(concepts[c], "established")
      <4>1. y \in Concept /\ Followed(y)
        BY <2>3, StoredFacts, EndsFacts
      <4>2. x = [y EXCEPT !.readings = 0]
        OBVIOUS
      <4>. HIDE DEF x, y
      <4>3. x \in Concept /\ x.status = y.status /\ x.belief = y.belief
        BY <4>1, <4>2 DEF Concept, InnovationsAssumption
      <4>. QED
        BY <4>1, <4>3 DEF Followed
    <3>. HIDE DEF x
    <3>3. DOMAIN concepts' = stored /\ concepts' = [d \in stored |-> concepts'[d]]
      BY <1>1, <3>1
    <3>4. \A d \in stored : /\ concepts'[d] \in Concept /\ Followed(concepts'[d])
                            /\ d \in reviewed' => concepts'[d].status = "retired"
      BY <1>1, <2>1, <3>1, <3>2, StoredFacts
    <3>. QED
      BY <1>1, <2>1, <3>3, <3>4, FatesHold
  <2>. QED
    BY <1>8, <2>2, <2>3 DEF ConfirmRetirement
<1>9. CASE IdeasRestart
  BY <1>3, <1>9 DEF IdeasRestart
<1>10. CASE UNCHANGED ideaVars
  BY <1>1, <1>3, <1>10 DEF ideaVars
<1>. QED
  BY <1>4, <1>5, <1>6, <1>7, <1>8, <1>9, <1>10, SweepKeeps DEF IdeasNext

LEMMA IdeasInductive ==
  ASSUME InnovationsAssumption
  PROVE  IdeasSpec => []IdeasInv
<1>1. IdeasInit => IdeasInv
  BY IdeasInitially
<1>2. IdeasInv /\ [IdeasNext]_ideaVars => IdeasInv'
  BY IdeasStep
<1>. QED
  BY <1>1, <1>2, PTL DEF IdeasSpec

\* The Innovation pillar believes of each stored concept what became of it, and a
\* second opinion that is awaited still decides: for registries of any size.
THEOREM FatesAreBelieved ==
  ASSUME InnovationsAssumption
  PROVE  IdeasSpec => []FateIsRecorded
<1>1. IdeasInv => FateIsRecorded
  BY DEF IdeasInv, FateIsRecorded
<1>. QED
  BY <1>1, IdeasInductive, PTL

\* No step forgets a concept that one which stays descends from, or that people
\* have taken up, whatever is pruned and in whatever order answers come.
THEOREM DescentIsNeverCut ==
  ASSUME InnovationsAssumption
  PROVE  IdeasSpec => LineageIsKept
<1>1. IdeasInv /\ [IdeasNext]_ideaVars => [DescentIsKept]_ideaVars
  BY IdeasStep
<1>. QED
  BY <1>1, IdeasInductive, PTL DEF IdeasSpec, LineageIsKept

-----------------------------------------------------------------------------
(* The sleeping herds.                                                     *)

Day == tick \div TicksPerDay
Shortest == Min(IdleChecks)
Longest == Max(IdleChecks)

LEMMA Patience ==
  ASSUME DormancyAssumption
  PROVE  /\ Shortest \in Nat \ {0} /\ Longest \in Nat \ {0}
         /\ Shortest \in IdleChecks /\ Longest \in IdleChecks
         /\ \A n \in IdleChecks : n \in Nat /\ Shortest <= n /\ n <= Longest
<1>1. PICK least \in IdleChecks, most \in IdleChecks :
        \A n \in IdleChecks : least <= n /\ n <= most
  BY DEF DormancyAssumption
<1>2. IdleChecks \subseteq Nat \ {0}
  BY DEF DormancyAssumption
<1>3. Shortest \in IdleChecks /\ \A n \in IdleChecks : Shortest <= n
  <2>1. \E x \in IdleChecks : \A y \in IdleChecks : x <= y
    BY <1>1
  <2>. QED
    BY <2>1 DEF Shortest, Min
<1>4. Longest \in IdleChecks /\ \A n \in IdleChecks : n <= Longest
  <2>1. \E x \in IdleChecks : \A y \in IdleChecks : x >= y
    BY <1>1, <1>2
  <2>2. Longest \in IdleChecks /\ \A y \in IdleChecks : Longest >= y
    BY <2>1 DEF Longest, Max
  <2>. QED
    BY <1>2, <2>2
<1>. QED
  BY <1>2, <1>3, <1>4

\* Division tells the day, and a tick either stays in it or opens the next.
LEMMA DayFacts ==
  ASSUME NEW n \in Nat \ {0}, NEW t \in Nat
  PROVE  /\ t \div n \in Nat /\ t % n \in 0..(n - 1)
         /\ t = n * (t \div n) + (t % n)
  OBVIOUS

LEMMA Product ==
  ASSUME NEW n \in Nat \ {0}, NEW a \in Int, NEW b \in Int
  PROVE  /\ n * a \in Int /\ n * b \in Int
         /\ n * (a + 1) = n * a + n
         /\ n * (a - b) = n * a - n * b
         /\ a < b <=> n * a < n * b
         /\ a + 1 <= b => n * a + n <= n * b
  OBVIOUS

LEMMA DayTurns ==
  ASSUME NEW n \in Nat \ {0}, NEW t \in Nat
  PROVE  /\ (t + 1) % n = 0 => (t + 1) \div n = (t \div n) + 1 /\ t + 1 = n * ((t \div n) + 1)
         /\ (t + 1) % n # 0 => (t + 1) \div n = t \div n
<1>. DEFINE a == t \div n
            b == (t + 1) \div n
            r == t % n
            s == (t + 1) % n
<1>1. /\ a \in Nat /\ b \in Nat /\ r \in 0..(n - 1) /\ s \in 0..(n - 1)
      /\ t = n * a + r /\ t + 1 = n * b + s
  <2>1. a \in Nat /\ r \in 0..(n - 1) /\ t = n * a + r
    BY DayFacts
  <2>2. \A u \in Nat : /\ u \div n \in Nat /\ u % n \in 0..(n - 1)
                       /\ u = n * (u \div n) + (u % n)
    BY DayFacts
  <2>3. t + 1 \in Nat
    OBVIOUS
  <2>4. b \in Nat /\ s \in 0..(n - 1) /\ t + 1 = n * b + s
    BY <2>2, <2>3
  <2>. QED
    BY <2>1, <2>4
<1>. HIDE DEF a, b, r, s
<1>2. n * a \in Int /\ n * b \in Int /\ n * (a + 1) = n * a + n
  BY <1>1, Product
<1>3. /\ b < a => n * b + n <= n * a
      /\ a < b => n * a + n <= n * b
      /\ a + 1 < b => n * (a + 1) + n <= n * b
  <2>1. /\ b + 1 <= a => n * b + n <= n * a
        /\ a + 1 <= b => n * a + n <= n * b
        /\ (a + 1) + 1 <= b => n * (a + 1) + n <= n * b
    BY <1>1, Product
  <2>. QED
    BY <1>1, <2>1
<1>4. b = a \/ b = a + 1
  BY <1>1, <1>2, <1>3
<1>5. s = 0 => b = a + 1
  BY <1>1, <1>2, <1>4
<1>6. s # 0 => b = a
  BY <1>1, <1>2, <1>4
<1>7. s = 0 => t + 1 = n * (a + 1)
  BY <1>1, <1>5
<1>. QED
  BY <1>5, <1>6, <1>7 DEF a, b, s

\* How long a herd has been unseen: since the day it was last seen it counts the
\* days, up to the longest patience.
Counted(h) ==
  \E d \in Nat :
    /\ d <= Day /\ seen[h] = TicksPerDay * d
    /\ herdIdle[h] = IF Day - d <= Longest THEN Day - d ELSE Longest

HerdsInv ==
  /\ HerdTypeOK /\ GapsAreRepaid
  /\ since \in [DOMAIN since -> Nat] /\ herdIdle \in [DOMAIN herdIdle -> Nat]
  /\ DOMAIN herdIdle \subseteq DOMAIN since
  /\ \A h \in unborn : h \notin DOMAIN herdIdle /\ missed[h] = 0
  /\ \A h \in living \cap DOMAIN herdIdle :
       /\ h \in dormant => herdIdle[h] >= Shortest
       /\ herdIdle[h] = Longest => h \in dormant
       /\ Counted(h)

LEMMA HerdsInitially ==
  ASSUME DormancyAssumption, DormancyInit
  PROVE  HerdsInv
<1>1. Range(herdIdle) \subseteq 0..Max(IdleChecks)
  BY DEF DormancyInit, Range
<1>2. HerdTypeOK
  BY <1>1 DEF DormancyInit, HerdTypeOK, DormancyAssumption
<1>3. GapsAreRepaid
  BY <1>2 DEF DormancyInit, HerdTypeOK, GapsAreRepaid, Skipped
<1>. QED
  BY <1>2, <1>3 DEF DormancyInit, HerdsInv, DormancyAssumption

\* The count tells when a herd was last seen: who sleeps was unseen for the shortest
\* patience, who was unseen for the longest sleeps.
LEMMA CountTells ==
  ASSUME DormancyAssumption, HerdsInv
  PROVE  RestIsRepaid
<1>1. SUFFICES ASSUME NEW h \in living \cap DOMAIN herdIdle
               PROVE  /\ h \in dormant => tick - seen[h] >= TicksPerDay * Shortest
                      /\ tick - seen[h] >= TicksPerDay * Longest => h \in dormant
  BY DEF RestIsRepaid, SleepsIffUnseen, HerdsInv, Shortest, Longest
<1>2. /\ TicksPerDay \in Nat \ {0} /\ tick \in Nat
      /\ Shortest \in Nat \ {0} /\ Longest \in Nat \ {0}
  BY Patience DEF DormancyAssumption, HerdsInv, HerdTypeOK
<1>3. /\ Day \in Nat /\ tick % TicksPerDay \in 0..(TicksPerDay - 1)
      /\ tick = TicksPerDay * Day + (tick % TicksPerDay)
  BY <1>2, DayFacts DEF Day
<1>4. PICK d \in Nat : /\ d <= Day /\ seen[h] = TicksPerDay * d
                       /\ herdIdle[h] = IF Day - d <= Longest THEN Day - d ELSE Longest
  BY DEF HerdsInv, Counted
<1>. DEFINE k == Day - d
            off == tick % TicksPerDay
<1>5. k \in Nat /\ TicksPerDay * k \in Int /\ TicksPerDay * k = TicksPerDay * Day - TicksPerDay * d
      /\ TicksPerDay * Day \in Int /\ TicksPerDay * d \in Int
  BY <1>2, <1>3, <1>4, Product
<1>. HIDE DEF k, off
<1>6. tick - seen[h] = TicksPerDay * k + off /\ off \in Int /\ 0 <= off /\ off < TicksPerDay
  BY <1>2, <1>3, <1>4, <1>5 DEF off
<1>7. ASSUME h \in dormant
      PROVE  tick - seen[h] >= TicksPerDay * Shortest
  <2>1. Shortest <= k
    BY <1>2, <1>4, <1>5, <1>7 DEF HerdsInv, k
  <2>2. TicksPerDay * Shortest \in Int /\ (k < Shortest <=> TicksPerDay * k < TicksPerDay * Shortest)
    BY <1>2, <1>5, Product
  <2>. QED
    BY <1>2, <1>5, <1>6, <2>1, <2>2
<1>8. ASSUME tick - seen[h] >= TicksPerDay * Longest
      PROVE  h \in dormant
  <2>1. /\ k + 1 <= Longest => TicksPerDay * k + TicksPerDay <= TicksPerDay * Longest
        /\ TicksPerDay * Longest \in Int
    BY <1>2, <1>5, Product
  <2>2. ~(k + 1 <= Longest)
    BY <1>2, <1>5, <1>6, <1>8, <2>1
  <2>3. herdIdle[h] = Longest
    BY <1>2, <1>4, <1>5, <2>2 DEF k
  <2>. QED
    BY <2>3 DEF HerdsInv
<1>. QED
  BY <1>7, <1>8

\* A tick without a review: the sleepers fall behind by one, and no day ends.
LEMMA PlainTick ==
  ASSUME DormancyAssumption, HerdsInv, NEW D \in SUBSET living, NEW B \in SUBSET unborn,
         (tick + 1) % TicksPerDay # 0,
         tick' = tick + 1, unborn' = unborn \ B, living' = (living \ D) \cup B,
         missed' = [h \in Herd |-> missed[h] + (IF h \in living \cap Skipped THEN 1 ELSE 0)],
         UNCHANGED <<herdIdle, dormant, since, seen>>
  PROVE  HerdsInv'
<1>1. /\ tick \in Nat /\ unborn \subseteq Herd /\ living \subseteq Herd \ unborn
      /\ DOMAIN herdIdle \subseteq Herd /\ Range(herdIdle) \subseteq 0..Max(IdleChecks)
      /\ dormant \subseteq DOMAIN since /\ DOMAIN since \subseteq Herd
      /\ missed \in [Herd -> Int] /\ seen \in [Herd -> Nat]
      /\ since \in [DOMAIN since -> Nat] /\ DOMAIN herdIdle \subseteq DOMAIN since
      /\ \A h \in unborn : h \notin DOMAIN herdIdle /\ missed[h] = 0
  BY DEF HerdsInv, HerdTypeOK
<1>2. Day' = Day
  BY <1>1, DayTurns DEF Day, DormancyAssumption
<1>3. missed' \in [Herd -> Int]
  BY <1>1
<1>4. HerdTypeOK'
  BY <1>1, <1>3 DEF HerdTypeOK, Range
<1>5. GapsAreRepaid'
  <2>1. SUFFICES ASSUME NEW h \in living'
                 PROVE  missed'[h] = IF h \in Skipped THEN (tick + 1) - since[h] ELSE 0
    BY DEF GapsAreRepaid, Skipped
  <2>2. h \in Herd /\ missed'[h] = missed[h] + (IF h \in living \cap Skipped THEN 1 ELSE 0)
    BY <1>1
  <2>3. CASE h \in living
    <3>1. missed[h] = IF h \in Skipped THEN tick - since[h] ELSE 0
      BY <2>3 DEF HerdsInv, GapsAreRepaid
    <3>2. h \in Skipped => since[h] \in Nat
      BY <1>1 DEF Skipped
    <3>. QED
      BY <1>1, <2>2, <2>3, <3>1, <3>2
  <2>4. CASE h \notin living
    <3>1. h \in unborn
      BY <2>4
    <3>2. h \notin Skipped /\ missed[h] = 0
      BY <1>1, <3>1 DEF Skipped
    <3>. QED
      BY <2>2, <2>4, <3>2
  <2>. QED
    BY <2>3, <2>4
<1>6. \A h \in unborn' : h \notin DOMAIN herdIdle' /\ missed'[h] = 0
  BY <1>1 DEF Skipped
<1>7. \A h \in living' \cap DOMAIN herdIdle' :
        /\ h \in dormant' => herdIdle'[h] >= Shortest
        /\ herdIdle'[h] = Longest => h \in dormant'
        /\ Counted(h)'
  <2>1. \A h \in living' \cap DOMAIN herdIdle' : h \in living
    BY <1>1
  <2>. QED
    BY <1>2, <2>1 DEF HerdsInv, Counted
<1>. QED
  BY <1>1, <1>4, <1>5, <1>6, <1>7 DEF HerdsInv

\* The review at a day's end: every herd alive is fresh, watched or unseen, and what
\* it is decides its count, its sleep, its clock and its debt.
LEMMA ReviewTick ==
  ASSUME DormancyAssumption, HerdsInv, NEW D \in SUBSET living, NEW B \in SUBSET unborn,
         NEW near, NEW lapsed, NEW limit \in IdleChecks,
         (tick + 1) % TicksPerDay = 0,
         tick' = tick + 1, unborn' = unborn \ B,
         ReviewHerds(tick + 1, (living \ D) \cup B, near, lapsed, limit)
  PROVE  HerdsInv'
<1>. DEFINE now == tick + 1
            alive == (living \ D) \cup B
            fresh == alive \ DOMAIN herdIdle
            watched == (alive \ fresh) \cap near
            unseen == (alive \ fresh) \ near
            Count(h) == IF h \in unseen THEN Min({herdIdle[h] + 1, Longest}) ELSE 0
            checks == [h \in alive |-> Count(h)]
            sleepers == {h \in unseen : checks[h] >= limit /\ h \notin dormant}
            wakers == watched \cap dormant
            Owed(h) == missed[h] + (IF h \in living \cap Skipped THEN 1 ELSE 0)
<1>1. /\ tick \in Nat /\ unborn \subseteq Herd /\ living \subseteq Herd \ unborn
      /\ DOMAIN herdIdle \subseteq Herd /\ herdIdle \in [DOMAIN herdIdle -> Nat]
      /\ dormant \subseteq DOMAIN since /\ DOMAIN since \subseteq Herd
      /\ missed \in [Herd -> Int] /\ seen \in [Herd -> Nat]
      /\ since \in [DOMAIN since -> Nat] /\ DOMAIN herdIdle \subseteq DOMAIN since
      /\ \A h \in unborn : h \notin DOMAIN herdIdle /\ missed[h] = 0
  BY DEF HerdsInv, HerdTypeOK
<1>2. /\ Shortest \in Nat \ {0} /\ Longest \in Nat \ {0} /\ limit \in Nat
      /\ Shortest <= limit /\ limit <= Longest /\ TicksPerDay \in Nat \ {0}
  BY Patience DEF DormancyAssumption
<1>3. Day \in Nat /\ Day' = Day + 1 /\ tick' = TicksPerDay * Day' /\ now \in Nat
  <2>1. Day \in Nat
    BY <1>1, <1>2, DayFacts DEF Day
  <2>2. /\ (tick + 1) \div TicksPerDay = (tick \div TicksPerDay) + 1
        /\ tick + 1 = TicksPerDay * ((tick \div TicksPerDay) + 1)
    BY <1>1, <1>2, DayTurns
  <2>3. Day' = (tick + 1) \div TicksPerDay
    BY DEF Day
  <2>. QED
    BY <1>1, <2>1, <2>2, <2>3 DEF Day
<1>4. /\ living' = alive \ lapsed /\ herdIdle' = checks
      /\ dormant' = (dormant \ (fresh \cup watched)) \cup sleepers
      /\ since' = [h \in DOMAIN since \cup fresh |->
                     IF h \in fresh \cup wakers \cup sleepers THEN now ELSE since[h]]
      /\ missed' = [h \in Herd |-> IF h \in wakers THEN Owed(h) - (now - since[h]) ELSE Owed(h)]
      /\ seen' = [h \in Herd |-> IF h \in fresh \cup watched THEN now ELSE seen[h]]
  BY DEF ReviewHerds, FallsAsleep, Longest
<1>5. /\ alive \subseteq Herd \ unborn' /\ alive = fresh \cup watched \cup unseen
      /\ fresh \cap DOMAIN herdIdle = {} /\ watched \cup unseen \subseteq living \cap DOMAIN herdIdle
      /\ watched \cap unseen = {} /\ sleepers \subseteq unseen /\ wakers \subseteq watched \cap dormant
      /\ sleepers \cap dormant = {} /\ DOMAIN herdIdle' = alive
      /\ \A h \in unseen : h \in sleepers <=> checks[h] >= limit /\ h \notin dormant
  BY <1>1, <1>4
<1>6. /\ \A h \in fresh \cup watched : checks[h] = 0
      /\ \A h \in unseen : /\ herdIdle[h] \in Nat
                           /\ checks[h] = IF herdIdle[h] + 1 <= Longest THEN herdIdle[h] + 1 ELSE Longest
  <2>1. \A h \in alive : checks[h] = Count(h)
    OBVIOUS
  <2>2. \A h \in unseen : herdIdle[h] \in Nat
    BY <1>1, <1>5
  <2>. HIDE DEF unseen, watched, fresh, checks
  <2>3. \A h \in unseen : Min({herdIdle[h] + 1, Longest}) =
                            IF herdIdle[h] + 1 <= Longest THEN herdIdle[h] + 1 ELSE Longest
    <3>1. SUFFICES ASSUME NEW h \in unseen
                   PROVE  Min({herdIdle[h] + 1, Longest}) =
                            IF herdIdle[h] + 1 <= Longest THEN herdIdle[h] + 1 ELSE Longest
      OBVIOUS
    <3>2. herdIdle[h] + 1 \in Int /\ Longest \in Int
      BY <1>2, <2>2
    <3>. QED
      BY <3>2, LeastOfTwo
  <2>. QED
    BY <1>5, <2>1, <2>2, <2>3
<1>. HIDE DEF now, alive, fresh, watched, unseen, checks, sleepers, wakers

<1>7. /\ since' \in [DOMAIN since' -> Nat] /\ herdIdle' \in [DOMAIN herdIdle' -> Nat]
      /\ DOMAIN since' = DOMAIN since \cup fresh
      /\ DOMAIN herdIdle' \subseteq DOMAIN since' /\ Range(herdIdle') \subseteq 0..Longest
  <2>1. \A h \in alive : checks[h] \in 0..Longest
    BY <1>2, <1>5, <1>6
  <2>2. checks = [h \in alive |-> checks[h]]
    BY DEF checks
  <2>3. DOMAIN since' = DOMAIN since \cup fresh
    BY <1>4
  <2>4. since' \in [DOMAIN since' -> Nat]
    BY <1>1, <1>3, <1>4
  <2>5. herdIdle' \in [DOMAIN herdIdle' -> Nat] /\ Range(herdIdle') \subseteq 0..Longest
    <3>1. herdIdle' = [h \in alive |-> checks[h]]
      BY <1>4, <2>2
    <3>2. \A h \in alive : checks[h] \in Nat
      BY <1>2, <2>1
    <3>3. DOMAIN herdIdle' = alive /\ \A h \in alive : herdIdle'[h] = checks[h]
      BY <3>1
    <3>4. herdIdle' \in [DOMAIN herdIdle' -> Nat]
      BY <3>1, <3>2
    <3>. QED
      BY <2>1, <3>3, <3>4 DEF Range
  <2>. QED
    BY <1>1, <1>5, <2>3, <2>4, <2>5
<1>8. /\ missed' \in [Herd -> Int] /\ seen' \in [Herd -> Nat]
      /\ \A h \in Herd : missed'[h] = IF h \in wakers THEN Owed(h) - (now - since[h]) ELSE Owed(h)
  <2>1. \A h \in Herd : Owed(h) \in Int
    BY <1>1
  <2>2. \A h \in wakers : since[h] \in Nat
    BY <1>1, <1>5
  <2>. HIDE DEF Owed
  <2>3. \A h \in Herd : (IF h \in wakers THEN Owed(h) - (now - since[h]) ELSE Owed(h)) \in Int
    BY <1>3, <2>1, <2>2
  <2>4. missed' \in [Herd -> Int]
    BY <1>4, <2>3
  <2>. QED
    BY <1>1, <1>3, <1>4, <2>4
<1>9. HerdTypeOK'
  BY <1>1, <1>3, <1>4, <1>5, <1>7, <1>8 DEF HerdTypeOK, Longest, now
<1>10. GapsAreRepaid'
  <2>1. SUFFICES ASSUME NEW h \in living'
                 PROVE  missed'[h] = IF h \in Skipped' THEN now - since'[h] ELSE 0
    BY DEF GapsAreRepaid, now
  <2>2. h \in alive /\ h \in Herd /\ (h \in Skipped' <=> h \in dormant')
    BY <1>4, <1>5 DEF Skipped
  <2>3. h \in living => missed[h] = IF h \in Skipped THEN tick - since[h] ELSE 0
    BY DEF HerdsInv, GapsAreRepaid
  <2>4. CASE h \in fresh
    <3>1. h \notin Skipped /\ h \notin wakers /\ h \notin dormant'
      BY <1>4, <1>5, <2>4 DEF Skipped
    <3>2. missed[h] = 0
      BY <1>1, <2>3, <2>4, <3>1 DEF fresh, alive
    <3>. QED
      BY <1>8, <2>2, <3>1, <3>2
  <2>5. CASE h \in watched
    <3>1. h \notin dormant' /\ h \in living /\ h \in DOMAIN herdIdle
      BY <1>4, <1>5, <2>5
    <3>2. CASE h \in dormant
      <4>1. h \in wakers /\ h \in Skipped /\ since[h] \in Nat
        BY <1>1, <2>5, <3>1, <3>2 DEF wakers, Skipped
      <4>2. missed'[h] = (missed[h] + 1) - (now - since[h]) /\ missed[h] = tick - since[h]
        BY <1>8, <2>2, <2>3, <3>1, <4>1
      <4>. QED
        BY <1>1, <2>2, <3>1, <4>1, <4>2 DEF now
    <3>3. CASE h \notin dormant
      <4>1. h \notin wakers /\ h \notin Skipped
        BY <1>5, <3>3 DEF Skipped
      <4>. QED
        BY <1>8, <2>2, <2>3, <3>1, <4>1
    <3>. QED
      BY <3>2, <3>3
  <2>6. CASE h \in unseen
    <3>1. /\ h \notin wakers /\ h \in living /\ h \in DOMAIN herdIdle /\ h \in DOMAIN since
          /\ h \notin fresh /\ h \notin watched
      BY <1>1, <1>5, <2>6
    <3>2. since'[h] = IF h \in sleepers THEN now ELSE since[h]
      BY <1>4, <3>1
    <3>3. missed'[h] = missed[h] + (IF h \in dormant THEN 1 ELSE 0)
      BY <1>8, <2>2, <3>1 DEF Skipped
    <3>4. missed[h] = IF h \in dormant THEN tick - since[h] ELSE 0
      BY <2>3, <3>1 DEF Skipped
    <3>5. h \in dormant' <=> h \in dormant \/ h \in sleepers
      BY <1>4, <3>1
    <3>6. since[h] \in Nat
      BY <1>1, <3>1
    <3>7. CASE h \in dormant
      <4>1. h \notin sleepers
        BY <1>5, <3>7
      <4>. QED
        BY <1>1, <2>2, <3>2, <3>3, <3>4, <3>5, <3>6, <3>7, <4>1 DEF now
    <3>8. CASE h \notin dormant
      BY <1>3, <2>2, <3>2, <3>3, <3>4, <3>5, <3>8
    <3>. QED
      BY <3>7, <3>8
  <2>. QED
    BY <1>5, <2>2, <2>4, <2>5, <2>6
<1>11. \A h \in unborn' : h \notin DOMAIN herdIdle' /\ missed'[h] = 0
  <2>1. SUFFICES ASSUME NEW h \in unborn'
                 PROVE  h \notin DOMAIN herdIdle' /\ missed'[h] = 0
    OBVIOUS
  <2>2. h \in unborn /\ h \notin alive /\ h \notin wakers /\ h \notin living /\ h \in Herd
    BY <1>1, <1>5
  <2>. QED
    BY <1>1, <1>5, <1>8, <2>2
<1>12. ASSUME NEW h \in living' \cap DOMAIN herdIdle'
       PROVE  /\ h \in dormant' => herdIdle'[h] >= Shortest
              /\ herdIdle'[h] = Longest => h \in dormant'
              /\ Counted(h)'
  <2>1. h \in alive /\ herdIdle'[h] = checks[h]
    BY <1>4, <1>5
  <2>2. CASE h \in fresh \cup watched
    <3>1. h \notin dormant' /\ checks[h] = 0 /\ h \in Herd
      BY <1>1, <1>4, <1>5, <1>6, <2>2
    <3>2. seen'[h] = tick'
      BY <1>4, <2>2, <3>1 DEF now
    <3>3. Counted(h)'
      BY <1>2, <1>3, <2>1, <3>1, <3>2 DEF Counted
    <3>. QED
      BY <1>2, <2>1, <3>1, <3>3
  <2>3. CASE h \in unseen
    <3>1. /\ h \in living \cap DOMAIN herdIdle /\ h \notin fresh \cup watched /\ h \in Herd
          /\ herdIdle[h] \in Nat
          /\ checks[h] = IF herdIdle[h] + 1 <= Longest THEN herdIdle[h] + 1 ELSE Longest
      BY <1>1, <1>5, <1>6, <2>3
    <3>2. /\ h \in dormant => herdIdle[h] >= Shortest
          /\ herdIdle[h] = Longest => h \in dormant
          /\ Counted(h)
      BY <3>1 DEF HerdsInv
    <3>3. h \in dormant' <=> h \in dormant \/ (checks[h] >= limit /\ h \notin dormant)
      BY <1>4, <1>5, <2>3, <3>1
    <3>4. h \in dormant' => checks[h] >= Shortest
      BY <1>2, <3>1, <3>2, <3>3
    <3>5. checks[h] = Longest => h \in dormant'
      BY <1>2, <3>1, <3>2, <3>3
    <3>6. PICK d \in Nat : /\ d <= Day /\ seen[h] = TicksPerDay * d
                           /\ herdIdle[h] = IF Day - d <= Longest THEN Day - d ELSE Longest
      BY <3>2 DEF Counted
    <3>7. checks[h] = IF Day' - d <= Longest THEN Day' - d ELSE Longest
      BY <1>2, <1>3, <3>1, <3>6
    <3>8. seen'[h] = TicksPerDay * d /\ d <= Day'
      BY <1>3, <1>4, <3>1, <3>6
    <3>. QED
      BY <2>1, <3>4, <3>5, <3>7, <3>8 DEF Counted
  <2>. QED
    BY <1>5, <2>1, <2>2, <2>3
<1>. QED
  BY <1>7, <1>9, <1>10, <1>11, <1>12 DEF HerdsInv

LEMMA HerdsStep ==
  ASSUME DormancyAssumption, HerdsInv, [DormancyNext]_herdVars
  PROVE  HerdsInv'
<1>1. ASSUME NEW D \in SUBSET living, NEW near \in SUBSET living, NEW lapsed \in SUBSET living,
             NEW B \in SUBSET unborn, NEW limit \in IdleChecks, Tick(D, B, near, lapsed, limit)
      PROVE  HerdsInv'
  <2>1. tick' = tick + 1 /\ unborn' = unborn \ B
    BY <1>1 DEF Tick
  <2>2. CASE (tick + 1) % TicksPerDay = 0
    <3>1. ReviewHerds(tick + 1, (living \ D) \cup B, near, lapsed, limit)
      BY <1>1, <2>2 DEF Tick
    <3>. QED
      BY <2>1, <2>2, <3>1, ReviewTick
  <2>3. CASE (tick + 1) % TicksPerDay # 0
    <3>1. /\ living' = (living \ D) \cup B
          /\ missed' = [h \in Herd |-> missed[h] + (IF h \in living \cap Skipped THEN 1 ELSE 0)]
          /\ UNCHANGED <<herdIdle, dormant, since, seen>>
      BY <1>1, <2>3 DEF Tick
    <3>. QED
      BY <2>1, <2>3, <3>1, PlainTick
  <2>. QED
    BY <2>2, <2>3
<1>2. CASE HerdsRestart
  <2>1. /\ tick' = tick /\ unborn' = unborn /\ living' = living /\ DOMAIN herdIdle' = {}
        /\ dormant' = {} /\ DOMAIN since' = {}
        /\ since' \in [DOMAIN since' -> Nat] /\ herdIdle' \in [DOMAIN herdIdle' -> Nat]
        /\ missed' = [h \in Herd |-> 0] /\ seen' = [h \in Herd |-> tick]
    BY <1>2 DEF HerdsRestart
  <2>2. /\ tick \in Nat /\ unborn \subseteq Herd /\ living \subseteq Herd \ unborn
    BY DEF HerdsInv, HerdTypeOK
  <2>3. HerdTypeOK'
    BY <2>1, <2>2 DEF HerdTypeOK, Range
  <2>4. GapsAreRepaid'
    BY <2>1, <2>2 DEF GapsAreRepaid, Skipped
  <2>. QED
    BY <2>1, <2>2, <2>3, <2>4 DEF HerdsInv
<1>3. CASE UNCHANGED herdVars
  BY <1>3 DEF herdVars, HerdsInv, HerdTypeOK, GapsAreRepaid, Skipped, Counted, Day
<1>. QED
  BY <1>1, <1>2, <1>3 DEF DormancyNext

\* What waking makes up for is what the world left out, nobody was near a sleeper for
\* the shortest patience, and who was unseen for the longest sleeps: for days of any
\* length, any patiences and any order of reviews, deaths and restarts.
THEOREM DebtsAreRepaid ==
  ASSUME DormancyAssumption
  PROVE  DormancySpec => []RestIsRepaid
<1>1. DormancyInit => HerdsInv
  BY HerdsInitially
<1>2. HerdsInv /\ [DormancyNext]_herdVars => HerdsInv'
  BY HerdsStep
<1>3. HerdsInv => RestIsRepaid
  BY CountTells
<1>. QED
  BY <1>1, <1>2, <1>3, PTL DEF DormancySpec

-----------------------------------------------------------------------------
(* The calendar: every day has one date, and a new period its own number. *)

LEMMA LeastNumber ==
  ASSUME NEW S \in SUBSET Nat, S # {}
  PROVE  \E m \in S : \A k \in S : m <= k
<1>. DEFINE R == OpToRel(<, Nat)
<1>1. IsWellFoundedOn(R, Nat)
  BY NatLessThanWellFounded
<1>2. \A s, t \in Nat : s < t => <<s, t>> \in R
  BY DEF OpToRel
<1>. HIDE DEF R
<1>3. PICK m \in S : \A t \in S : ~(<<t, m>> \in R)
  BY <1>1, WFMin
<1>4. ASSUME NEW k \in S  PROVE m <= k
  <2>1. ~(k < m)
    BY <1>2, <1>3, Zenon
  <2>. QED
    BY <2>1
<1>. QED
  BY <1>4

\* The equation of the days before each month.
Passing(f, m) == IF m = 0 THEN 0 ELSE f[m - 1] + DaysPerMonth[m]

\* What the configuration of the calendar is taken to be.
LEMMA MonthsFacts ==
  ASSUME ClockAssumption
  PROVE  /\ Months \in Nat \ {0}
         /\ \A m \in 1..Months : /\ DaysPerMonth[m] \in Nat \ {0}
                                 /\ MonthToSeason[m] \in 0..(Seasons - 1)
<1>1. DaysPerMonth \in Seq(Nat \ {0}) /\ DaysPerMonth # <<>>
  BY DEF ClockAssumption
<1>2. Months \in Nat /\ Months # 0 /\ DOMAIN DaysPerMonth = 1..Months
      /\ \A m \in 1..Months : DaysPerMonth[m] \in Nat \ {0}
  BY <1>1 DEF Months
<1>. QED
  BY <1>2 DEF ClockAssumption

\* The sums of the lengths of the months are a function: there is no least month
\* up to which there is none.
LEMMA DaysBeforeExists ==
  ASSUME ClockAssumption
  PROVE  \E f : f = [m \in 0..Months |-> Passing(f, m)]
<1>. DEFINE Sol(n, f) == f = [m \in 0..n |-> Passing(f, m)]
            Bad == {n \in 0..Months : ~\E f : Sol(n, f)}
<1>0. Months \in Nat
  BY MonthsFacts
<1>1. SUFFICES Bad = {}
  <2>1. ASSUME Bad = {}  PROVE \E f : Sol(Months, f)
    BY <1>0, <2>1
  <2>. QED
    BY <2>1
<1>. SUFFICES ASSUME Bad # {}  PROVE FALSE
  OBVIOUS
<1>. Bad \in SUBSET Nat
  BY <1>0
<1>2. PICK n \in Bad : \A k \in Bad : n <= k
  <2>. HIDE DEF Bad
  <2>. QED
    BY LeastNumber
<1>3. n \in 0..Months /\ ~\E f : Sol(n, f)
  OBVIOUS
<1>4. CASE n = 0
  <2>. DEFINE g == [m \in 0..0 |-> 0]
  <2>1. \A m \in 0..0 : Passing(g, m) = 0
    BY DEF Passing
  <2>2. Sol(0, g)
    BY <2>1
  <2>. QED
    BY <2>2, <1>3, <1>4
<1>5. CASE n # 0
  <2>1. n - 1 \in 0..Months /\ n - 1 \notin Bad
    BY <1>0, <1>2, <1>3, <1>5
  <2>2. PICK f : Sol(n - 1, f)
    BY <2>1
  <2>. DEFINE g == [m \in 0..n |-> IF m = n THEN Passing(f, n) ELSE f[m]]
  <2>3. ASSUME NEW m \in 0..n  PROVE Passing(g, m) = Passing(f, m)
    BY <1>3, <1>0 DEF Passing
  <2>4. ASSUME NEW m \in 0..n  PROVE g[m] = Passing(g, m)
    <3>1. CASE m = n
      BY <2>3, <3>1
    <3>2. CASE m # n
      <4>1. m \in 0..(n - 1)
        BY <3>2, <1>3, <1>0
      <4>2. f[m] = Passing(f, m)
        BY <4>1, <2>2
      <4>. QED
        BY <4>2, <3>2, <2>3
    <3>. QED
      BY <3>1, <3>2
  <2>5. Sol(n, g)
    BY <2>4
  <2>. QED
    BY <2>5, <1>3
<1>. QED
  BY <1>4, <1>5

LEMMA DaysBeforeUnfold ==
  ASSUME ClockAssumption
  PROVE  /\ DaysBefore[0] = 0
         /\ \A m \in 1..Months : DaysBefore[m] = DaysBefore[m - 1] + DaysPerMonth[m]
<1>1. \E f : f = [m \in 0..Months |-> Passing(f, m)]
  BY DaysBeforeExists
<1>2. DaysBefore = CHOOSE f : f = [m \in 0..Months |-> Passing(f, m)]
  BY DEF DaysBefore, Passing
<1>3. DaysBefore = [m \in 0..Months |-> Passing(DaysBefore, m)]
  BY <1>1, <1>2
<1>4. Months \in Nat
  BY MonthsFacts
<1>5. \A m \in 0..Months : DaysBefore[m] = Passing(DaysBefore, m)
  BY <1>3
<1>. QED
  BY <1>4, <1>5 DEF Passing

\* Later months begin later.
LEMMA MonthsFollow ==
  ASSUME ClockAssumption
  PROVE  /\ \A m \in 0..Months : DaysBefore[m] \in Nat
         /\ \A m, n \in 0..Months : m < n => DaysBefore[m] < DaysBefore[n]
<1>1. Months \in Nat \ {0} /\ \A m \in 1..Months : DaysPerMonth[m] \in Nat \ {0}
  BY MonthsFacts
<1>2. /\ DaysBefore[0] = 0
      /\ \A m \in 1..Months : DaysBefore[m] = DaysBefore[m - 1] + DaysPerMonth[m]
  BY DaysBeforeUnfold
<1>. DEFINE Good(n) == /\ DaysBefore[n] \in Nat
                       /\ \A m \in 0..Months : m < n => DaysBefore[m] < DaysBefore[n]
            Bad == {n \in 0..Months : ~Good(n)}
<1>3. Bad \in SUBSET Nat
  BY <1>1
<1>4. ASSUME Bad # {}  PROVE FALSE
  <2>1. PICK n \in Bad : \A k \in Bad : n <= k
    <3>. HIDE DEF Bad
    <3>. QED
      BY <1>3, <1>4, LeastNumber
  <2>2. n \in 0..Months /\ ~Good(n)
    OBVIOUS
  <2>3. CASE n = 0
    <3>1. Good(0)
      BY <1>2
    <3>. QED
      BY <2>2, <2>3, <3>1
  <2>4. CASE n # 0
    <3>1. n \in 1..Months /\ n - 1 \in 0..Months /\ n - 1 \notin Bad
      BY <1>1, <2>1, <2>2, <2>4
    <3>2. Good(n - 1)
      BY <3>1
    <3>3. DaysBefore[n] \in Nat /\ DaysBefore[n - 1] < DaysBefore[n]
      BY <1>1, <1>2, <3>1, <3>2
    <3>4. \A m \in 0..Months : m < n => m < n - 1 \/ m = n - 1
      BY <1>1, <3>1
    <3>5. ASSUME NEW m \in 0..Months, m < n  PROVE DaysBefore[m] < DaysBefore[n]
      <4>1. CASE m = n - 1
        BY <3>3, <4>1
      <4>2. CASE m < n - 1
        <5>1. DaysBefore[m] < DaysBefore[n - 1]
          BY <3>2, <4>2
        <5>2. m \in 0..Months /\ m < n /\ m \notin Bad
          BY <1>1, <2>1, <3>1, <3>5
        <5>3. DaysBefore[m] \in Nat
          BY <5>2
        <5>. QED
          BY <3>2, <3>3, <5>1, <5>3
      <4>. QED
        BY <3>4, <3>5, <4>1, <4>2
    <3>. QED
      BY <2>2, <3>3, <3>5
  <2>. QED
    BY <2>3, <2>4
<1>. QED
  BY <1>4
\* Every day of a year is in exactly one month of it.
InMonth(y, m) == DaysBefore[m] <= y /\ y < DaysBefore[m + 1]

LEMMA OneMonth ==
  ASSUME ClockAssumption, NEW y \in 0..(DaysPerYear - 1)
  PROVE  /\ \E m \in 0..(Months - 1) : InMonth(y, m)
         /\ \A m, n \in 0..(Months - 1) : InMonth(y, m) /\ InMonth(y, n) => m = n
<1>1. Months \in Nat \ {0} /\ DaysBefore[0] = 0 /\ DaysPerYear = DaysBefore[Months]
  BY MonthsFacts, DaysBeforeUnfold DEF DaysPerYear
<1>2. /\ \A m \in 0..Months : DaysBefore[m] \in Nat
      /\ \A m, n \in 0..Months : m < n => DaysBefore[m] < DaysBefore[n]
  BY MonthsFollow
<1>3. \E m \in 0..(Months - 1) : InMonth(y, m)
  <2>. DEFINE Later == {n \in 0..Months : y < DaysBefore[n]}
  <2>1. Months \in Later /\ Later \in SUBSET Nat
    BY <1>1, <1>2
  <2>2. PICK n \in Later : \A k \in Later : n <= k
    <3>. HIDE DEF Later
    <3>. QED
      BY <2>1, LeastNumber
  <2>3. n \in 1..Months
    BY <1>1, <2>2
  <2>4. n - 1 \in 0..(Months - 1) /\ n - 1 \notin Later /\ (n - 1) + 1 = n
    BY <1>1, <2>2, <2>3
  <2>5. DaysBefore[n - 1] <= y
    BY <1>1, <1>2, <2>4
  <2>. QED
    BY <2>2, <2>4, <2>5 DEF InMonth
<1>4. ASSUME NEW m \in 0..(Months - 1), NEW n \in 0..(Months - 1),
             InMonth(y, m), InMonth(y, n), m < n
      PROVE  FALSE
  <2>1. m + 1 \in 0..Months /\ n \in 0..Months /\ (m + 1 < n \/ m + 1 = n)
    BY <1>1, <1>4
  <2>2. DaysBefore[m + 1] <= DaysBefore[n] /\ DaysBefore[m + 1] \in Nat /\ DaysBefore[n] \in Nat
    BY <1>2, <2>1
  <2>. QED
    BY <1>4, <2>2 DEF InMonth
<1>. QED
  BY <1>1, <1>3, <1>4

LEMMA YearIsLong ==
  ASSUME ClockAssumption
  PROVE  DaysPerYear \in Nat \ {0}
<1>1. Months \in Nat \ {0} /\ DaysBefore[0] = 0 /\ DaysPerYear = DaysBefore[Months]
  BY MonthsFacts, DaysBeforeUnfold DEF DaysPerYear
<1>2. 0 \in 0..Months /\ Months \in 0..Months /\ 0 < Months
  BY <1>1
<1>3. DaysBefore[0] < DaysBefore[Months] /\ DaysBefore[Months] \in Nat
  BY <1>2, MonthsFollow
<1>. QED
  BY <1>1, <1>3

\* The date of a day.
LEMMA DateFacts ==
  ASSUME ClockAssumption, NEW d \in Nat
  PROVE  /\ year(d) \in Nat /\ dayOfYear(d) \in 0..(DaysPerYear - 1)
         /\ d = DaysPerYear * year(d) + dayOfYear(d)
         /\ monthIndex(d) \in 0..(Months - 1) /\ InMonth(dayOfYear(d), monthIndex(d))
         /\ dayOfMonth(d) \in Nat /\ dayOfYear(d) = DaysBefore[monthIndex(d)] + dayOfMonth(d)
         /\ seasonIndex(d) \in 0..(Seasons - 1)
<1>1. DaysPerYear \in Nat \ {0} /\ Months \in Nat \ {0}
  BY YearIsLong, MonthsFacts
<1>2. /\ year(d) \in Nat /\ dayOfYear(d) \in 0..(DaysPerYear - 1)
      /\ d = DaysPerYear * year(d) + dayOfYear(d)
  <2>1. \A n \in Nat \ {0} : /\ d \div n \in Nat /\ d % n \in 0..(n - 1)
                             /\ d = n * (d \div n) + (d % n)
    BY DayFacts
  <2>. QED
    BY <1>1, <2>1 DEF year, dayOfYear
<1>3. monthIndex(d) \in 0..(Months - 1) /\ InMonth(dayOfYear(d), monthIndex(d))
  <2>1. \E m \in 0..(Months - 1) : InMonth(dayOfYear(d), m)
    BY <1>2, OneMonth
  <2>2. monthIndex(d) = CHOOSE m \in 0..(Months - 1) : InMonth(dayOfYear(d), m)
    BY <1>2 DEF monthIndex, MonthOf, InMonth
  <2>. QED
    BY <2>1, <2>2
<1>4. DaysBefore[monthIndex(d)] \in Nat /\ monthIndex(d) + 1 \in 1..Months
  BY <1>1, <1>3, MonthsFollow
<1>5. dayOfMonth(d) \in Nat /\ dayOfYear(d) = DaysBefore[monthIndex(d)] + dayOfMonth(d)
  BY <1>2, <1>3, <1>4 DEF dayOfMonth, InMonth
<1>6. seasonIndex(d) \in 0..(Seasons - 1)
  BY <1>4, MonthsFacts DEF seasonIndex
<1>. QED
  BY <1>2, <1>3, <1>5, <1>6

\* The day after, when it is in the same year, and when it begins another.
LEMMA TomorrowInYear ==
  ASSUME ClockAssumption, NEW d \in Nat, dayOfYear(d + 1) # 0
  PROVE  /\ year(d + 1) = year(d) /\ dayOfYear(d + 1) = dayOfYear(d) + 1
         /\ \/ monthIndex(d + 1) = monthIndex(d) /\ dayOfMonth(d + 1) = dayOfMonth(d) + 1
            \/ monthIndex(d + 1) = monthIndex(d) + 1 /\ dayOfMonth(d + 1) = 0
<1>. DEFINE m == monthIndex(d)
            n == monthIndex(d + 1)
            y == dayOfYear(d)
            z == dayOfYear(d + 1)
<1>1. DaysPerYear \in Nat \ {0} /\ Months \in Nat \ {0} /\ d + 1 \in Nat
  BY YearIsLong, MonthsFacts
<1>2. /\ year(d) \in Nat /\ y \in 0..(DaysPerYear - 1) /\ d = DaysPerYear * year(d) + y
      /\ m \in 0..(Months - 1) /\ InMonth(y, m) /\ y = DaysBefore[m] + dayOfMonth(d)
      /\ dayOfMonth(d) \in Nat
  BY DateFacts
<1>3. /\ z \in 0..(DaysPerYear - 1) /\ d + 1 = DaysPerYear * year(d + 1) + z
      /\ n \in 0..(Months - 1) /\ InMonth(z, n) /\ z = DaysBefore[n] + dayOfMonth(d + 1)
      /\ dayOfMonth(d + 1) \in Nat
  BY <1>1, DateFacts
<1>4. year(d + 1) = year(d)
  <2>1. \A k \in Nat \ {0} : (d + 1) % k # 0 => (d + 1) \div k = d \div k
    BY DayTurns
  <2>. QED
    BY <1>1, <2>1 DEF year, dayOfYear
<1>5. DaysPerYear * year(d) \in Int
  BY <1>1, <1>2
<1>. HIDE DEF m, n, y, z
<1>6. z = y + 1
  BY <1>2, <1>3, <1>4, <1>5
<1>7. /\ DaysBefore[m] \in Nat /\ DaysBefore[m + 1] \in Nat /\ m + 1 \in 1..Months
      /\ m + 1 < Months => m + 1 \in 0..(Months - 1) /\ DaysBefore[m + 1] < DaysBefore[(m + 1) + 1]
                           /\ DaysBefore[(m + 1) + 1] \in Nat
  BY <1>1, <1>2, MonthsFollow
<1>8. \A k \in 0..(Months - 1) : InMonth(z, k) => k = n
  BY <1>3, OneMonth
<1>9. CASE z < DaysBefore[m + 1]
  <2>1. InMonth(z, m)
    BY <1>2, <1>6, <1>7, <1>9 DEF InMonth
  <2>2. n = m
    BY <1>2, <1>8, <2>1
  <2>. QED
    BY <1>2, <1>3, <1>4, <1>6, <1>7, <2>2 DEF m, n, y, z
<1>10. CASE ~(z < DaysBefore[m + 1])
  <2>1. z = DaysBefore[m + 1]
    BY <1>2, <1>6, <1>7, <1>10 DEF InMonth
  <2>2. m + 1 < Months
    <3>1. m + 1 # Months
      BY <1>3, <2>1 DEF DaysPerYear
    <3>. QED
      BY <1>1, <1>2, <3>1
  <2>3. InMonth(z, m + 1)
    BY <1>7, <2>1, <2>2 DEF InMonth
  <2>4. n = m + 1
    BY <1>7, <1>8, <2>2, <2>3
  <2>. QED
    BY <1>3, <1>4, <1>6, <1>7, <2>1, <2>4 DEF m, n, y, z
<1>. QED
  BY <1>9, <1>10

LEMMA TomorrowNewYear ==
  ASSUME ClockAssumption, NEW d \in Nat, dayOfYear(d + 1) = 0
  PROVE  /\ year(d + 1) = year(d) + 1
         /\ monthIndex(d) = Months - 1 /\ monthIndex(d + 1) = 0 /\ dayOfMonth(d + 1) = 0
<1>. DEFINE m == monthIndex(d)
            y == dayOfYear(d)
<1>1. /\ DaysPerYear \in Nat \ {0} /\ Months \in Nat \ {0} /\ d + 1 \in Nat
      /\ DaysBefore[0] = 0 /\ DaysPerYear = DaysBefore[Months]
  BY YearIsLong, MonthsFacts, DaysBeforeUnfold DEF DaysPerYear
<1>2. /\ year(d) \in Nat /\ y \in 0..(DaysPerYear - 1) /\ d = DaysPerYear * year(d) + y
      /\ m \in 0..(Months - 1) /\ InMonth(y, m)
  BY DateFacts
<1>3. year(d + 1) = year(d) + 1 /\ d + 1 = DaysPerYear * (year(d) + 1)
  <2>1. \A k \in Nat \ {0} : (d + 1) % k = 0 => /\ (d + 1) \div k = (d \div k) + 1
                                                 /\ d + 1 = k * ((d \div k) + 1)
    BY DayTurns
  <2>. QED
    BY <1>1, <2>1 DEF year, dayOfYear
<1>4. DaysPerYear * (year(d) + 1) = DaysPerYear * year(d) + DaysPerYear
      /\ DaysPerYear * year(d) \in Int
  BY <1>1, <1>2, Product
<1>. HIDE DEF m, y
<1>5. y = DaysPerYear - 1
  <2>. DEFINE past == DaysPerYear * year(d)
  <2>1. past \in Int /\ d = past + y /\ d + 1 = past + DaysPerYear
    BY <1>2, <1>3, <1>4
  <2>. HIDE DEF past
  <2>. QED
    BY <1>1, <1>2, <2>1
<1>6. m = Months - 1
  <2>1. Months - 1 \in 0..(Months - 1) /\ (Months - 1) + 1 = Months
        /\ Months - 1 \in 0..Months /\ Months \in 0..Months /\ Months - 1 < Months
    BY <1>1
  <2>2. DaysBefore[Months - 1] \in Nat /\ DaysBefore[Months - 1] < DaysBefore[Months]
    BY <2>1, MonthsFollow
  <2>3. InMonth(y, Months - 1)
    BY <1>1, <1>5, <2>1, <2>2 DEF InMonth
  <2>. QED
    BY <1>2, <2>1, <2>3, OneMonth
<1>7. monthIndex(d + 1) = 0
  <2>1. 0 \in 0..(Months - 1) /\ 0 \in 0..Months /\ 1 \in 0..Months
    BY <1>1
  <2>2. DaysBefore[0] < DaysBefore[0 + 1]
    BY <2>1, MonthsFollow
  <2>3. InMonth(0, 0)
    BY <1>1, <2>2 DEF InMonth
  <2>4. monthIndex(d + 1) \in 0..(Months - 1) /\ InMonth(0, monthIndex(d + 1))
    BY <1>1, DateFacts
  <2>. QED
    BY <1>1, <2>1, <2>3, <2>4, OneMonth
<1>8. dayOfMonth(d + 1) = 0
  BY <1>1, <1>7 DEF dayOfMonth
<1>. QED
  BY <1>3, <1>6, <1>7, <1>8 DEF m
\* What a month or a season adds to the years before it keeps the two apart.
LEMMA OrdinalTells ==
  ASSUME NEW n \in Nat \ {0}, NEW a \in Nat, NEW b \in Nat,
         NEW r \in 0..(n - 1), NEW s \in 0..(n - 1), a * n + r = b * n + s
  PROVE  a = b /\ r = s
<1>. DEFINE p == n * a
            q == n * b
<1>1. /\ p \in Int /\ q \in Int
      /\ a + 1 <= b => p + n <= q
      /\ b + 1 <= a => q + n <= p
  BY Product
<1>2. p + r = q + s /\ (a = b => p = q)
  OBVIOUS
<1>. HIDE DEF p, q
<1>3. ~(a + 1 <= b) /\ ~(b + 1 <= a)
  BY <1>1, <1>2
<1>. QED
  BY <1>1, <1>2, <1>3

\* A month that ends begins the next one; a day that ends no month is the next of it.
LEMMA MonthTurns ==
  ASSUME ClockAssumption, NEW d \in Nat
  PROVE  /\ monthOrdinal(d) \in Nat /\ monthOrdinal(d + 1) \in Nat
         /\ "month_end" \in Crossed(d + 1) =>
              monthOrdinal(d + 1) = monthOrdinal(d) + 1 /\ dayOfMonth(d + 1) = 0
         /\ "month_end" \notin Crossed(d + 1) => monthOrdinal(d + 1) = monthOrdinal(d)
<1>1. /\ Months \in Nat \ {0} /\ d + 1 \in Nat /\ (d + 1) - 1 = d
      /\ year(d) \in Nat /\ monthIndex(d) \in 0..(Months - 1)
  BY MonthsFacts, DateFacts
<1>2. year(d + 1) \in Nat /\ monthIndex(d + 1) \in 0..(Months - 1)
  BY <1>1, DateFacts
<1>3. /\ year(d) * Months \in Nat /\ year(d + 1) * Months \in Nat
      /\ (year(d) + 1) * Months = year(d) * Months + Months
  <2>1. \A a \in Nat, n \in Nat \ {0} : a * n \in Nat /\ (a + 1) * n = a * n + n
    OBVIOUS
  <2>. QED
    BY <1>1, <1>2, <2>1
<1>4. monthOrdinal(d) \in Nat /\ monthOrdinal(d + 1) \in Nat
  BY <1>1, <1>2, <1>3 DEF monthOrdinal
<1>5. "month_end" \in Crossed(d + 1) <=>
        year(d + 1) # year(d) \/ monthIndex(d + 1) # monthIndex(d)
  BY <1>1 DEF Crossed
<1>6. CASE dayOfYear(d + 1) = 0
  <2>1. /\ year(d + 1) = year(d) + 1 /\ monthIndex(d) = Months - 1
        /\ monthIndex(d + 1) = 0 /\ dayOfMonth(d + 1) = 0
    BY <1>6, TomorrowNewYear
  <2>2. monthOrdinal(d + 1) = monthOrdinal(d) + 1
    BY <1>1, <1>3, <2>1 DEF monthOrdinal
  <2>3. "month_end" \in Crossed(d + 1)
    BY <1>1, <1>5, <2>1
  <2>. QED
    BY <1>4, <2>1, <2>2, <2>3
<1>7. CASE dayOfYear(d + 1) # 0
  <2>1. /\ year(d + 1) = year(d)
        /\ \/ monthIndex(d + 1) = monthIndex(d)
           \/ monthIndex(d + 1) = monthIndex(d) + 1 /\ dayOfMonth(d + 1) = 0
    BY <1>7, TomorrowInYear
  <2>2. CASE monthIndex(d + 1) = monthIndex(d)
    BY <1>4, <1>5, <2>1, <2>2 DEF monthOrdinal
  <2>3. CASE monthIndex(d + 1) = monthIndex(d) + 1 /\ dayOfMonth(d + 1) = 0
    <3>1. monthOrdinal(d + 1) = monthOrdinal(d) + 1
      BY <1>1, <1>3, <2>1, <2>3 DEF monthOrdinal
    <3>2. "month_end" \in Crossed(d + 1)
      BY <1>1, <1>5, <2>3
    <3>. QED
      BY <1>4, <2>3, <3>1, <3>2
  <2>. QED
    BY <2>1, <2>2, <2>3
<1>. QED
  BY <1>6, <1>7

\* Where a season begins a month begins, and where a year begins so does its first day.
LEMMA BoundariesBegin ==
  ASSUME ClockAssumption, NEW d \in Nat
  PROVE  /\ "season_end" \in Crossed(d + 1) =>
              dayOfMonth(d + 1) = 0 /\ SeasonBegins(monthIndex(d + 1) + 1)
         /\ "year_end" \in Crossed(d + 1) => dayOfYear(d + 1) = 0
<1>1. /\ Months \in Nat \ {0} /\ d + 1 \in Nat /\ (d + 1) - 1 = d
      /\ monthIndex(d) \in 0..(Months - 1)
  BY MonthsFacts, DateFacts
<1>2. /\ "season_end" \in Crossed(d + 1) <=>
           MonthToSeason[monthIndex(d + 1) + 1] # MonthToSeason[monthIndex(d) + 1]
      /\ "year_end" \in Crossed(d + 1) <=> year(d + 1) # year(d)
  BY <1>1 DEF Crossed
<1>3. CASE dayOfYear(d + 1) = 0
  <2>1. monthIndex(d) = Months - 1 /\ monthIndex(d + 1) = 0 /\ dayOfMonth(d + 1) = 0
    BY <1>3, TomorrowNewYear
  <2>2. monthIndex(d + 1) + 1 = 1 /\ monthIndex(d) + 1 = Months
    BY <1>1, <2>1
  <2>3. "season_end" \in Crossed(d + 1) => SeasonBegins(monthIndex(d + 1) + 1)
    BY <1>2, <2>2 DEF SeasonBegins
  <2>. QED
    BY <1>3, <2>1, <2>3
<1>4. CASE dayOfYear(d + 1) # 0
  <2>1. /\ year(d + 1) = year(d)
        /\ \/ monthIndex(d + 1) = monthIndex(d)
           \/ monthIndex(d + 1) = monthIndex(d) + 1 /\ dayOfMonth(d + 1) = 0
    BY <1>4, TomorrowInYear
  <2>2. CASE monthIndex(d + 1) = monthIndex(d)
    BY <1>2, <2>1, <2>2
  <2>3. CASE monthIndex(d + 1) = monthIndex(d) + 1 /\ dayOfMonth(d + 1) = 0
    <3>1. monthIndex(d + 1) + 1 # 1 /\ (monthIndex(d + 1) + 1) - 1 = monthIndex(d) + 1
      BY <1>1, <2>3
    <3>2. "season_end" \in Crossed(d + 1) => SeasonBegins(monthIndex(d + 1) + 1)
      BY <1>2, <3>1 DEF SeasonBegins
    <3>. QED
      BY <1>2, <2>1, <2>3, <3>2
  <2>. QED
    BY <2>1, <2>2, <2>3
<1>. QED
  BY <1>3, <1>4

\* A date is one day's.
LEMMA SameDay ==
  ASSUME ClockAssumption, NEW b \in Nat, NEW c \in Nat, year(b) = year(c),
         dayOfYear(b) = dayOfYear(c)
                    \/ (monthIndex(b) = monthIndex(c) /\ dayOfMonth(b) = dayOfMonth(c))
  PROVE  b = c
<1>1. /\ b = DaysPerYear * year(b) + dayOfYear(b)
      /\ dayOfYear(b) = DaysBefore[monthIndex(b)] + dayOfMonth(b)
  BY DateFacts
<1>2. /\ c = DaysPerYear * year(c) + dayOfYear(c)
      /\ dayOfYear(c) = DaysBefore[monthIndex(c)] + dayOfMonth(c)
  BY DateFacts
<1>. QED
  BY <1>1, <1>2

\* A season that begins, and a year that begins, have a number of their own.
LEMMA SameSeason ==
  ASSUME ClockAssumption, SeasonsBeginOnce, NEW b \in Nat \ {0}, NEW c \in Nat \ {0},
         "season_end" \in Crossed(b), "season_end" \in Crossed(c),
         seasonOrdinal(b) = seasonOrdinal(c)
  PROVE  b = c
<1>1. /\ dayOfMonth(b) = 0 /\ SeasonBegins(monthIndex(b) + 1)
      /\ dayOfMonth(c) = 0 /\ SeasonBegins(monthIndex(c) + 1)
  <2>1. b - 1 \in Nat /\ (b - 1) + 1 = b /\ c - 1 \in Nat /\ (c - 1) + 1 = c
    OBVIOUS
  <2>2. \A d \in Nat : "season_end" \in Crossed(d + 1) =>
          dayOfMonth(d + 1) = 0 /\ SeasonBegins(monthIndex(d + 1) + 1)
    BY BoundariesBegin
  <2>3. "season_end" \in Crossed((b - 1) + 1) /\ "season_end" \in Crossed((c - 1) + 1)
    BY <2>1
  <2>4. /\ dayOfMonth((b - 1) + 1) = 0 /\ SeasonBegins(monthIndex((b - 1) + 1) + 1)
        /\ dayOfMonth((c - 1) + 1) = 0 /\ SeasonBegins(monthIndex((c - 1) + 1) + 1)
    BY <2>1, <2>2, <2>3
  <2>. QED
    BY <2>1, <2>4
<1>2. /\ year(b) \in Nat /\ seasonIndex(b) \in 0..(Seasons - 1)
      /\ year(c) \in Nat /\ seasonIndex(c) \in 0..(Seasons - 1)
      /\ monthIndex(b) \in 0..(Months - 1) /\ monthIndex(c) \in 0..(Months - 1)
  <2>1. b \in Nat /\ c \in Nat
    OBVIOUS
  <2>. QED
    BY <2>1, DateFacts
<1>3. Seasons \in Nat \ {0} /\ Months \in Nat \ {0} /\ DOMAIN MonthToSeason = 1..Months
  <2>1. Seasons \in Nat /\ 0..(Seasons - 1) # {}
    BY <1>2 DEF ClockAssumption
  <2>2. DOMAIN MonthToSeason = 1..Months
    BY DEF ClockAssumption, Months
  <2>. QED
    BY <2>1, <2>2, MonthsFacts
<1>4. year(b) = year(c) /\ seasonIndex(b) = seasonIndex(c)
  <2>. DEFINE v == year(b)  w == year(c)  r == seasonIndex(b)  s == seasonIndex(c)
  <2>1. v \in Nat /\ w \in Nat /\ r \in 0..(Seasons - 1) /\ s \in 0..(Seasons - 1)
    BY <1>2
  <2>2. v * Seasons + r = w * Seasons + s
    BY DEF seasonOrdinal
  <2>. HIDE DEF v, w, r, s
  <2>3. v = w /\ r = s
    BY <1>3, <2>1, <2>2, OrdinalTells
  <2>. QED
    BY <2>3 DEF v, w, r, s
<1>5. monthIndex(b) = monthIndex(c)
  <2>1. monthIndex(b) + 1 \in DOMAIN MonthToSeason /\ monthIndex(c) + 1 \in DOMAIN MonthToSeason
    BY <1>2, <1>3
  <2>2. monthIndex(b) + 1 = monthIndex(c) + 1
    BY <1>1, <1>4, <2>1 DEF seasonIndex, SeasonsBeginOnce
  <2>. QED
    BY <1>2, <1>3, <2>2
<1>. QED
  BY <1>1, <1>4, <1>5, SameDay

LEMMA SameYear ==
  ASSUME ClockAssumption, NEW b \in Nat \ {0}, NEW c \in Nat \ {0},
         "year_end" \in Crossed(b), "year_end" \in Crossed(c), year(b) = year(c)
  PROVE  b = c
<1>1. b - 1 \in Nat /\ (b - 1) + 1 = b /\ c - 1 \in Nat /\ (c - 1) + 1 = c
  OBVIOUS
<1>2. \A d \in Nat : "year_end" \in Crossed(d + 1) => dayOfYear(d + 1) = 0
  BY BoundariesBegin
<1>3. "year_end" \in Crossed((b - 1) + 1) /\ "year_end" \in Crossed((c - 1) + 1)
  BY <1>1
<1>4. dayOfYear((b - 1) + 1) = 0 /\ dayOfYear((c - 1) + 1) = 0
  BY <1>1, <1>2, <1>3
<1>. QED
  BY <1>1, <1>4, SameDay

\* The days between two of one month are days of it.
LEMMA SameMonth ==
  ASSUME ClockAssumption, NEW b \in Nat, NEW c \in Nat, monthOrdinal(b) = monthOrdinal(c)
  PROVE  dayOfMonth(c) - dayOfMonth(b) = c - b
<1>1. /\ year(b) \in Nat /\ monthIndex(b) \in 0..(Months - 1)
      /\ b = DaysPerYear * year(b) + dayOfYear(b) /\ dayOfMonth(b) \in Nat
      /\ dayOfYear(b) = DaysBefore[monthIndex(b)] + dayOfMonth(b)
  BY DateFacts
<1>2. /\ year(c) \in Nat /\ monthIndex(c) \in 0..(Months - 1)
      /\ c = DaysPerYear * year(c) + dayOfYear(c) /\ dayOfMonth(c) \in Nat
      /\ dayOfYear(c) = DaysBefore[monthIndex(c)] + dayOfMonth(c)
  BY DateFacts
<1>3. Months \in Nat \ {0} /\ DaysPerYear \in Nat
  BY MonthsFacts, YearIsLong
<1>4. year(b) = year(c) /\ monthIndex(b) = monthIndex(c)
  <2>. DEFINE v == year(b)  w == year(c)  r == monthIndex(b)  s == monthIndex(c)
  <2>1. v \in Nat /\ w \in Nat /\ r \in 0..(Months - 1) /\ s \in 0..(Months - 1)
    BY <1>1, <1>2
  <2>2. v * Months + r = w * Months + s
    BY DEF monthOrdinal
  <2>. HIDE DEF v, w, r, s
  <2>3. v = w /\ r = s
    BY <1>3, <2>1, <2>2, OrdinalTells
  <2>. QED
    BY <2>3 DEF v, w, r, s
<1>. DEFINE past == DaysPerYear * year(b)
            before == DaysBefore[monthIndex(b)]
<1>5. past \in Int /\ before \in Int
  <2>0. \A p, q \in Nat : p * q \in Int
    OBVIOUS
  <2>1. Months \in Nat /\ monthIndex(b) \in 0..Months
    BY <1>1, <1>3
  <2>. QED
    BY <1>1, <1>3, <2>0, <2>1, MonthsFollow
<1>6. /\ b = past + (before + dayOfMonth(b)) /\ c = past + (before + dayOfMonth(c))
      /\ dayOfMonth(b) \in Nat /\ dayOfMonth(c) \in Nat
  BY <1>1, <1>2, <1>4
<1>. HIDE DEF past, before
<1>. QED
  BY <1>5, <1>6

-----------------------------------------------------------------------------
(* The gates: each job calls once a period.                                *)

Begins(j, d) == Boundary[j] \in Crossed(d)

\* The days since the world's first, on which a boundary may have been crossed.
Lived == (FirstDay + 1)..day

\* A monthly job's book names no later month than this one, and names this one when
\* and only when the job has called, as far as no restart has emptied it.
MonthBook(j) ==
  /\ resolved[j] <= Ordinal(j, day)
  /\ resolved[j] = Ordinal(j, day) => calls[j] > 0
  /\ calls[j] > 0 /\ ~forgot[j] => resolved[j] = Ordinal(j, day)
  /\ chance[j] => calls[j] > 0

\* The window of a seasonal or yearly job is that of the latest boundary, and its book
\* names the period of some boundary: of the latest when and only when it has called.
SeasonBook(j) ==
  /\ opened[j].ordinal # None =>
       /\ opened[j].day \in Lived /\ Begins(j, opened[j].day)
       /\ \A b \in Lived : Begins(j, b) => b <= opened[j].day
       /\ opened[j].ordinal = Ordinal(j, opened[j].day)
  /\ opened[j].ordinal = None /\ ~forgot[j] => \A b \in Lived : ~Begins(j, b)
  /\ resolved[j] # None => \E b \in Lived : Begins(j, b) /\ resolved[j] = Ordinal(j, b)
  /\ opened[j].ordinal # None /\ resolved[j] = opened[j].ordinal => calls[j] > 0
  /\ calls[j] > 0 /\ ~forgot[j] => opened[j].ordinal # None /\ resolved[j] = opened[j].ordinal
  /\ chance[j] /\ ~forgot[j] => calls[j] > 0

GatesInv ==
  /\ GatesTypeOK /\ day >= FirstDay
  /\ \A j \in Job : /\ calls[j] > 1 => forgot[j]
                    /\ IF Monthly(j) THEN MonthBook(j) ELSE SeasonBook(j)

LEMMA OrdinalFacts ==
  ASSUME GatesAssumption, NEW j \in Job, NEW d \in Nat
  PROVE  Ordinal(j, d) \in Nat \ {0}
<1>1. ClockAssumption
  BY DEF GatesAssumption
<1>2. /\ year(d) \in Nat /\ seasonIndex(d) \in 0..(Seasons - 1) /\ monthOrdinal(d) \in Nat
  BY <1>1, DateFacts, MonthTurns
<1>3. Seasons \in Nat
  BY <1>1 DEF ClockAssumption
<1>4. \A a, b \in Nat : a * b \in Nat
  OBVIOUS
<1>5. year(d) * Seasons \in Nat
  BY <1>2, <1>3, <1>4
<1>6. seasonOrdinal(d) \in Nat
  BY <1>2, <1>3, <1>5 DEF seasonOrdinal
<1>. QED
  BY <1>2, <1>6 DEF Ordinal

\* Two boundaries that begin a season, or a year, never have the same number.
LEMMA PeriodsDiffer ==
  ASSUME GatesAssumption, SeasonsBeginOnce, NEW j \in Job, ~Monthly(j),
         NEW b \in Nat \ {0}, NEW c \in Nat \ {0}, Begins(j, b), Begins(j, c),
         Ordinal(j, b) = Ordinal(j, c)
  PROVE  b = c
<1>1. ClockAssumption /\ Boundary[j] \in {"season_end", "year_end"}
  BY DEF GatesAssumption, Monthly
<1>2. /\ b \in Nat /\ c \in Nat /\ year(b) \in Nat /\ year(c) \in Nat
      /\ seasonIndex(b) \in 0..(Seasons - 1) /\ seasonIndex(c) \in 0..(Seasons - 1)
      /\ Seasons \in Nat
  <2>1. b \in Nat /\ c \in Nat
    OBVIOUS
  <2>. QED
    BY <1>1, <2>1, DateFacts DEF ClockAssumption
<1>3. CASE Boundary[j] = "season_end"
  <2>1. seasonOrdinal(b) \in Int /\ seasonOrdinal(c) \in Int
    <3>1. \A v, w \in Nat : v * w \in Nat
      OBVIOUS
    <3>2. year(b) * Seasons \in Nat /\ year(c) * Seasons \in Nat
      BY <1>2, <3>1
    <3>. QED
      BY <1>2, <3>2 DEF seasonOrdinal
  <2>2. seasonOrdinal(b) = seasonOrdinal(c)
    BY <1>3, <2>1 DEF Ordinal
  <2>3. "season_end" \in Crossed(b) /\ "season_end" \in Crossed(c)
    BY <1>3 DEF Begins
  <2>. QED
    BY <1>1, <2>2, <2>3, SameSeason
<1>4. CASE Boundary[j] = "year_end"
  <2>1. year(b) = year(c)
    BY <1>2, <1>4 DEF Ordinal
  <2>2. "year_end" \in Crossed(b) /\ "year_end" \in Crossed(c)
    BY <1>4 DEF Begins
  <2>. QED
    BY <1>1, <2>1, <2>2, SameYear
<1>. QED
  BY <1>1, <1>3, <1>4

LEMMA GatesInitially ==
  ASSUME GatesAssumption, GatesInit
  PROVE  GatesInv
<1>1. FirstDay \in Nat /\ day = FirstDay /\ Lived = {}
  BY DEF GatesAssumption, GatesInit, Lived
<1>2. \A j \in Job : Ordinal(j, day) \in Nat \ {0}
  BY <1>1, OrdinalFacts
<1>3. GatesTypeOK
  BY <1>1 DEF GatesInit, GatesTypeOK, None
<1>4. ASSUME NEW j \in Job  PROVE MonthBook(j) /\ SeasonBook(j) /\ (calls[j] > 1 => forgot[j])
  <2>1. /\ opened[j] = [day |-> 0, ordinal |-> 0] /\ resolved[j] = 0 /\ calls[j] = 0
        /\ chance[j] = FALSE /\ forgot[j] = FALSE
    BY DEF GatesInit, None
  <2>2. MonthBook(j)
    BY <1>2, <2>1 DEF MonthBook
  <2>3. SeasonBook(j)
    BY <1>1, <2>1 DEF SeasonBook, None
  <2>. QED
    BY <2>1, <2>2, <2>3
<1>. QED
  BY <1>1, <1>3, <1>4 DEF GatesInv

\* What a new day writes into the books of one job.
Turned(j, free) ==
  /\ opened'[j] = Window(j, day + 1)
  /\ resolved'[j] = IF j \in free /\ Open(j, day + 1) THEN Mark(j, day + 1) ELSE resolved[j]
  /\ calls'[j] = (IF Begins(j, day + 1) THEN 0 ELSE calls[j])
                 + (IF j \in free /\ Open(j, day + 1) THEN 1 ELSE 0)
  /\ chance'[j] = ((~Begins(j, day + 1) /\ chance[j]) \/ (j \in free /\ InWindow(j, day + 1)))
  /\ forgot'[j] = (~Begins(j, day + 1) /\ forgot[j])

LEMMA NewDayTurns ==
  ASSUME NEW free \in SUBSET Job, NewDay(free)
  PROVE  day' = day + 1 /\ \A j \in Job : Turned(j, free)
BY DEF NewDay, Turned, Begins

LEMMA DayTypes ==
  ASSUME GatesAssumption, GatesTypeOK, NEW free \in SUBSET Job, NewDay(free)
  PROVE  GatesTypeOK'
<1>1. day \in Nat /\ day + 1 \in Nat /\ \A j \in Job : Ordinal(j, day + 1) \in Nat
  <2>1. day \in Nat /\ day + 1 \in Nat
    BY DEF GatesTypeOK
  <2>. QED
    BY <2>1, OrdinalFacts
<1>2. \A j \in Job : Window(j, day + 1) \in [day : Nat, ordinal : Nat]
  BY <1>1 DEF Window, GatesTypeOK
<1>3. \A j \in Job : Mark(j, day + 1) \in Nat
  BY <1>1, <1>2 DEF Mark
<1>4. resolved' \in [Job -> Nat] /\ opened' \in [Job -> [day : Nat, ordinal : Nat]]
  BY <1>2, <1>3 DEF NewDay, GatesTypeOK
<1>5. calls' \in [Job -> Nat]
  BY DEF NewDay, GatesTypeOK
<1>6. chance' \in [Job -> BOOLEAN] /\ forgot' \in [Job -> BOOLEAN]
  <2>1. \A j \in Job : chance'[j] \in BOOLEAN /\ forgot'[j] \in BOOLEAN
    BY NewDayTurns DEF Turned
  <2>2. chance' = [j \in Job |-> chance'[j]] /\ forgot' = [j \in Job |-> forgot'[j]]
    BY DEF NewDay
  <2>. QED
    BY <2>1, <2>2
<1>. QED
  BY <1>1, <1>4, <1>5, <1>6, NewDayTurns DEF GatesTypeOK
\* A day of the job's window is one on which its gate is open, unless it has called.
LEMMA MonthlyChance ==
  ASSUME GatesAssumption, NEW j \in Job, Monthly(j), NEW d \in Nat, InWindow(j, d),
         resolved[j] # Ordinal(j, d)
  PROVE  Open(j, d)
<1>1. /\ ClockAssumption /\ StartDay[j] \in Nat /\ MonthWindow \in Nat \ {0}
      /\ FirstDay \in Nat
  BY DEF GatesAssumption
<1>2. PICK k \in 0..(MonthWindow - 1) :
        /\ d - k > FirstDay /\ dayOfMonth(d - k) = StartDay[j]
        /\ monthOrdinal(d - k) = monthOrdinal(d)
  BY DEF InWindow
<1>3. d - k \in Nat /\ d - (d - k) = k
  BY <1>1, <1>2
<1>4. dayOfMonth(d) - dayOfMonth(d - k) = d - (d - k) /\ dayOfMonth(d) \in Nat
  BY <1>1, <1>2, <1>3, SameMonth, DateFacts
<1>5. dayOfMonth(d) \in StartDay[j]..(StartDay[j] + MonthWindow - 1)
  BY <1>1, <1>2, <1>3, <1>4
<1>. QED
  BY <1>5 DEF Open, MonthGate

LEMMA MonthStep ==
  ASSUME GatesAssumption, GatesInv, NEW free \in SUBSET Job, NewDay(free),
         NEW j \in Job, Monthly(j)
  PROVE  MonthBook(j)' /\ (calls'[j] > 1 => forgot'[j])
<1>. DEFINE d == day + 1
            runs == j \in free /\ Open(j, d)
            old == Ordinal(j, day)
            new == Ordinal(j, d)
<1>1. /\ ClockAssumption /\ day \in Nat /\ d \in Nat /\ day' = d
      /\ resolved[j] \in Nat /\ calls[j] \in Nat
      /\ chance[j] \in BOOLEAN /\ forgot[j] \in BOOLEAN
  BY NewDayTurns DEF GatesAssumption, GatesInv, GatesTypeOK
<1>2. MonthBook(j) /\ (calls[j] > 1 => forgot[j])
  BY DEF GatesInv
<1>3. old \in Nat \ {0} /\ new \in Nat \ {0}
  BY <1>1, OrdinalFacts
<1>4. IF Begins(j, d) THEN new = old + 1 ELSE new = old
  <2>1. Boundary[j] = "month_end"
    BY DEF Monthly
  <2>2. /\ old = monthOrdinal(day) + 1 /\ new = monthOrdinal(d) + 1
        /\ Begins(j, d) <=> "month_end" \in Crossed(d)
    BY <2>1 DEF Ordinal, Begins
  <2>3. /\ monthOrdinal(day) \in Nat
        /\ "month_end" \in Crossed(d) => monthOrdinal(d) = monthOrdinal(day) + 1
        /\ "month_end" \notin Crossed(d) => monthOrdinal(d) = monthOrdinal(day)
    BY <1>1, MonthTurns
  <2>. QED
    BY <2>2, <2>3
<1>5. runs => resolved[j] # new
  BY DEF Open, MonthGate
<1>6. j \in free /\ InWindow(j, d) /\ resolved[j] # new => runs
  BY <1>1, MonthlyChance
<1>7. /\ resolved'[j] = IF runs THEN new ELSE resolved[j]
      /\ calls'[j] = (IF Begins(j, d) THEN 0 ELSE calls[j]) + (IF runs THEN 1 ELSE 0)
      /\ chance'[j] => (~Begins(j, d) /\ chance[j]) \/ (j \in free /\ InWindow(j, d))
      /\ forgot'[j] <=> ~Begins(j, d) /\ forgot[j]
  BY NewDayTurns DEF Turned, Mark
<1>8. /\ resolved[j] <= old /\ (resolved[j] = old => calls[j] > 0)
      /\ calls[j] > 0 /\ ~forgot[j] => resolved[j] = old
      /\ chance[j] => calls[j] > 0
  BY <1>2 DEF MonthBook
<1>9. Ordinal(j, day)' = new
  BY <1>1 DEF Ordinal
<1>. HIDE DEF runs, old, new, d
<1>10. /\ resolved'[j] <= new /\ (resolved'[j] = new => calls'[j] > 0)
       /\ calls'[j] > 0 /\ ~forgot'[j] => resolved'[j] = new
       /\ calls'[j] > 1 => forgot'[j]
  BY <1>1, <1>2, <1>3, <1>4, <1>5, <1>7, <1>8
<1>11. chance'[j] => calls'[j] > 0
  <2>1. CASE Begins(j, d)
    BY <1>1, <1>3, <1>4, <1>6, <1>7, <1>8, <2>1
  <2>2. CASE ~Begins(j, d)
    BY <1>1, <1>3, <1>4, <1>6, <1>7, <1>8, <2>2
  <2>. QED
    BY <2>1, <2>2
<1>. QED
  BY <1>9, <1>10, <1>11 DEF MonthBook

LEMMA SeasonStep ==
  ASSUME GatesAssumption, SeasonsBeginOnce, GatesInv,
         NEW free \in SUBSET Job, NewDay(free), NEW j \in Job, ~Monthly(j)
  PROVE  SeasonBook(j)' /\ (calls'[j] > 1 => forgot'[j])
<1>. DEFINE d == day + 1
            runs == j \in free /\ Open(j, d)
<1>1. /\ day \in Nat /\ d \in Nat /\ day' = d /\ FirstDay \in Nat /\ day >= FirstDay
      /\ resolved[j] \in Nat /\ calls[j] \in Nat /\ SeasonWindow \in Nat \ {0}
      /\ opened[j] \in [day : Nat, ordinal : Nat]
      /\ chance[j] \in BOOLEAN /\ forgot[j] \in BOOLEAN
  BY NewDayTurns DEF GatesAssumption, GatesInv, GatesTypeOK
<1>2. SeasonBook(j) /\ (calls[j] > 1 => forgot[j])
  BY DEF GatesInv
<1>3. /\ opened'[j] = Window(j, d)
      /\ resolved'[j] = IF runs THEN opened'[j].ordinal ELSE resolved[j]
      /\ calls'[j] = (IF Begins(j, d) THEN 0 ELSE calls[j]) + (IF runs THEN 1 ELSE 0)
      /\ chance'[j] => (~Begins(j, d) /\ chance[j]) \/ (j \in free /\ InWindow(j, d))
      /\ forgot'[j] <=> ~Begins(j, d) /\ forgot[j]
  BY NewDayTurns DEF Turned, Mark
<1>4. runs <=> /\ j \in free /\ opened'[j].ordinal # None
               /\ d - opened'[j].day < SeasonWindow /\ resolved[j] # opened'[j].ordinal
  BY <1>3 DEF Open, SeasonGate
<1>5. \A b \in Nat : Ordinal(j, b) \in Nat \ {0}
  BY OrdinalFacts
<1>6. /\ d \in Lived' /\ \A b \in Lived : b \in Lived' /\ b # d /\ b < d
      /\ \A b \in Lived' : b \in Nat \ {0} /\ (b = d \/ b \in Lived)
  BY <1>1 DEF Lived
<1>7. /\ \A b : Begins(j, b)' <=> Begins(j, b)
      /\ \A b : Ordinal(j, b)' = Ordinal(j, b)
  BY DEF Begins, Ordinal
<1>8. InWindow(j, d) => \E b \in Lived' : Begins(j, b) /\ d - b < SeasonWindow
  <2>1. SUFFICES ASSUME InWindow(j, d)
                 PROVE  \E b \in Lived' : Begins(j, b) /\ d - b < SeasonWindow
    OBVIOUS
  <2>2. PICK k \in 0..(SeasonWindow - 1) : d - k > FirstDay /\ Boundary[j] \in Crossed(d - k)
    BY <2>1 DEF InWindow
  <2>3. d - k \in Lived' /\ d - (d - k) < SeasonWindow
    BY <1>1, <2>2 DEF Lived
  <2>. QED
    BY <2>2, <2>3 DEF Begins
<1>. HIDE DEF d
<1>9. CASE Begins(j, d)
  <2>1. opened'[j] = [day |-> d, ordinal |-> Ordinal(j, d)]
    BY <1>3, <1>9 DEF Window, Begins
  <2>2. resolved[j] # Ordinal(j, d)
    <3>1. SUFFICES ASSUME resolved[j] = Ordinal(j, d)  PROVE FALSE
      OBVIOUS
    <3>2. PICK b \in Lived : Begins(j, b) /\ resolved[j] = Ordinal(j, b)
      BY <1>1, <1>2, <1>5, <3>1 DEF SeasonBook, None
    <3>3. b \in Nat \ {0} /\ d \in Nat \ {0} /\ b # d
      BY <1>6
    <3>4. b = d
      BY <1>9, <3>1, <3>2, <3>3, PeriodsDiffer
    <3>. QED
      BY <3>3, <3>4
  <2>3. Ordinal(j, d) \in Nat \ {0} /\ (runs <=> j \in free)
    BY <1>1, <1>4, <1>5, <2>1, <2>2 DEF None
  <2>4. /\ opened'[j].ordinal = Ordinal(j, d) /\ opened'[j].day = d
        /\ ~forgot'[j] /\ calls'[j] = (IF runs THEN 1 ELSE 0)
        /\ resolved'[j] = IF runs THEN Ordinal(j, d) ELSE resolved[j]
        /\ chance'[j] => runs
    BY <1>3, <1>9, <2>1, <2>3
  <2>5. resolved'[j] # None => \E b \in Lived' : Begins(j, b) /\ resolved'[j] = Ordinal(j, b)
    <3>1. CASE runs
      BY <1>6, <1>9, <2>4, <3>1
    <3>2. CASE ~runs
      BY <1>2, <1>6, <2>4, <3>2 DEF SeasonBook
    <3>. QED
      BY <3>1, <3>2
  <2>6. \A b \in Lived' : b <= d
    BY <1>1, <1>6
  <2>. HIDE DEF runs
  <2>7. /\ opened'[j].ordinal # None /\ resolved'[j] = opened'[j].ordinal => calls'[j] > 0
        /\ calls'[j] > 0 => opened'[j].ordinal # None /\ resolved'[j] = opened'[j].ordinal
        /\ chance'[j] => calls'[j] > 0
        /\ ~(calls'[j] > 1)
    BY <2>2, <2>3, <2>4 DEF None
  <2>. QED
    BY <1>6, <1>7, <1>9, <2>3, <2>4, <2>5, <2>6, <2>7 DEF SeasonBook, None
<1>10. CASE ~Begins(j, d)
  <2>1. opened'[j] = opened[j]
    BY <1>3, <1>10 DEF Window, Begins
  <2>2. /\ forgot'[j] <=> forgot[j]
        /\ calls'[j] = calls[j] + (IF runs THEN 1 ELSE 0)
        /\ chance'[j] => chance[j] \/ (j \in free /\ InWindow(j, d))
        /\ resolved'[j] = IF runs THEN opened[j].ordinal ELSE resolved[j]
    BY <1>3, <1>10, <2>1
  <2>3. /\ opened[j].ordinal # None =>
             /\ opened[j].day \in Lived /\ Begins(j, opened[j].day)
             /\ \A b \in Lived : Begins(j, b) => b <= opened[j].day
             /\ opened[j].ordinal = Ordinal(j, opened[j].day)
        /\ opened[j].ordinal = None /\ ~forgot[j] => \A b \in Lived : ~Begins(j, b)
        /\ resolved[j] # None => \E b \in Lived : Begins(j, b) /\ resolved[j] = Ordinal(j, b)
        /\ opened[j].ordinal # None /\ resolved[j] = opened[j].ordinal => calls[j] > 0
        /\ calls[j] > 0 /\ ~forgot[j] => opened[j].ordinal # None /\ resolved[j] = opened[j].ordinal
        /\ chance[j] /\ ~forgot[j] => calls[j] > 0
    BY <1>2 DEF SeasonBook
  <2>4. /\ opened[j].ordinal # None =>
             /\ opened[j].day \in Lived' /\ Begins(j, opened[j].day)
             /\ \A b \in Lived' : Begins(j, b) => b <= opened[j].day
        /\ opened[j].ordinal = None /\ ~forgot[j] => \A b \in Lived' : ~Begins(j, b)
    BY <1>6, <1>10, <2>3
  <2>5. resolved'[j] # None => \E b \in Lived' : Begins(j, b) /\ resolved'[j] = Ordinal(j, b)
    <3>1. CASE runs
      <4>1. opened[j].ordinal # None
        BY <1>4, <2>1, <3>1
      <4>. QED
        BY <2>2, <2>3, <2>4, <3>1, <4>1
    <3>2. CASE ~runs
      BY <1>6, <2>2, <2>3, <3>2
    <3>. QED
      BY <3>1, <3>2
  <2>6. runs => opened[j].ordinal # None /\ resolved[j] # opened[j].ordinal
    BY <1>4, <2>1
  <2>7. j \in free /\ InWindow(j, d) /\ ~forgot[j] => runs \/ calls[j] > 0
    <3>1. SUFFICES ASSUME j \in free, InWindow(j, d), ~forgot[j]  PROVE runs \/ calls[j] > 0
      OBVIOUS
    <3>2. PICK b \in Lived' : Begins(j, b) /\ d - b < SeasonWindow
      BY <1>8, <3>1
    <3>3. opened[j].ordinal # None /\ b <= opened[j].day
      BY <2>4, <3>1, <3>2
    <3>4. d - opened[j].day < SeasonWindow
      BY <1>1, <1>6, <3>2, <3>3
    <3>. QED
      BY <1>4, <2>1, <2>3, <3>1, <3>3, <3>4
  <2>. HIDE DEF runs
  <2>8. /\ opened[j].ordinal # None /\ resolved'[j] = opened[j].ordinal => calls'[j] > 0
        /\ calls'[j] > 0 /\ ~forgot'[j] => opened[j].ordinal # None /\ resolved'[j] = opened[j].ordinal
        /\ calls'[j] > 1 => forgot'[j]
    BY <1>1, <1>2, <2>2, <2>3, <2>6
  <2>9. chance'[j] /\ ~forgot'[j] => calls'[j] > 0
    BY <1>1, <2>2, <2>3, <2>7
  <2>. QED
    BY <1>7, <2>1, <2>2, <2>3, <2>4, <2>5, <2>8, <2>9 DEF SeasonBook
<1>. QED
  BY <1>9, <1>10
LEMMA GatesRestart ==
  ASSUME GatesAssumption, GatesInv, Restart
  PROVE  GatesInv'
<1>1. /\ opened' = [j \in Job |-> [day |-> 0, ordinal |-> 0]]
      /\ resolved' = [j \in Job |-> 0] /\ forgot' = [j \in Job |-> TRUE]
      /\ day' = day /\ calls' = calls /\ chance' = chance
  BY DEF Restart, None
<1>2. GatesTypeOK'
  BY <1>1 DEF GatesInv, GatesTypeOK
<1>3. day \in Nat /\ \A j \in Job : Ordinal(j, day) \in Nat \ {0}
  BY OrdinalFacts DEF GatesInv, GatesTypeOK
<1>4. ASSUME NEW j \in Job
      PROVE  (calls[j] > 1 => forgot[j])' /\ IF Monthly(j) THEN MonthBook(j)' ELSE SeasonBook(j)'
  <2>1. forgot'[j] /\ opened'[j].ordinal = 0 /\ resolved'[j] = 0
    BY <1>1
  <2>2. CASE Monthly(j)
    <3>1. MonthBook(j) /\ Ordinal(j, day)' = Ordinal(j, day)
      BY <1>1, <2>2 DEF GatesInv, Ordinal
    <3>2. chance'[j] => calls'[j] > 0
      BY <1>1, <3>1 DEF MonthBook
    <3>. QED
      BY <1>3, <2>1, <2>2, <3>1, <3>2 DEF MonthBook
  <2>3. CASE ~Monthly(j)
    BY <2>1, <2>3 DEF SeasonBook, None
  <2>. QED
    BY <2>1, <2>2, <2>3
<1>. QED
  BY <1>1, <1>2, <1>4 DEF GatesInv, Monthly

\* Every step of the gates keeps the books.
LEMMA GatesStep ==
  ASSUME GatesAssumption, SeasonsBeginOnce, GatesInv, [GatesNext]_gateVars
  PROVE  GatesInv'
<1>1. ASSUME NEW free \in SUBSET Job, NewDay(free)  PROVE GatesInv'
  <2>1. GatesTypeOK' /\ day' >= FirstDay
    BY <1>1, DayTypes, NewDayTurns DEF GatesInv, GatesTypeOK, GatesAssumption
  <2>2. ASSUME NEW j \in Job
        PROVE  (calls[j] > 1 => forgot[j])' /\ IF Monthly(j) THEN MonthBook(j)' ELSE SeasonBook(j)'
    BY <1>1, MonthStep, SeasonStep
  <2>. QED
    BY <2>1, <2>2 DEF GatesInv, Monthly
<1>2. CASE Restart
  BY <1>2, GatesRestart
<1>3. CASE UNCHANGED gateVars
  BY <1>3 DEF gateVars, GatesInv, GatesTypeOK, MonthBook, SeasonBook, Lived, Ordinal, Begins, Monthly
<1>. QED
  BY <1>1, <1>2, <1>3 DEF GatesNext

\* A job calls at most once a period, unless a restart emptied its book in it, and a
\* period with a day on which it could have called is not lost (_monthly_gate,
\* _season_year_gate): in every calendar whose seasons are each one run of months, for
\* every window, first day and mixture of jobs, however often the model is busy.
THEOREM JobsCallOnceAPeriod ==
  ASSUME GatesAssumption, SeasonsBeginOnce
  PROVE  GatesSpec => []PeriodsAreKept
<1>1. GatesInit => GatesInv
  BY GatesInitially
<1>2. GatesInv /\ [GatesNext]_gateVars => GatesInv'
  BY GatesStep
<1>3. GatesInv => PeriodsAreKept
  BY DEF GatesInv, PeriodsAreKept, OncePerPeriod, MonthBook, SeasonBook
<1>. QED
  BY <1>1, <1>2, <1>3, PTL DEF GatesSpec

-----------------------------------------------------------------------------
(* The rotation: whose turn it is.                                         *)

\* The month of a job's last turn, or the one before its next.
TurnMonth(j) == IF calls[j] > 0 THEN monthOrdinal(day) ELSE monthOrdinal(day) - 1

\* The last k turns, up to month m, went to others of the pool.
WentToOthers(pool, p, m, k) ==
  /\ k <= m + 1
  /\ \A i \in 0..(k - 1) : (m - i) % Cardinality(pool) # Rank(pool, p)

RotationInv ==
  /\ GatesTypeOK /\ RotationTypeOK
  /\ \A j \in Job, p \in Place :
       Monthly(j) /\ passed[j][p] > 0 =>
         p \in pools[j] /\ WentToOthers(pools[j], p, TurnMonth(j), passed[j][p])

\* A finite set of numbers has a greatest: there is no smallest one without.
LEMMA GreatestNumber ==
  ASSUME NEW S \in SUBSET Nat, S # {}, IsFiniteSet(S)
  PROVE  Max(S) \in S /\ \A x \in S : x <= Max(S)
<1>. DEFINE Tops(T) == {t \in T : \A x \in T : t >= x}
            Topless == {T \in SUBSET S : T # {} /\ Tops(T) = {}}
            Sizes == {Cardinality(T) : T \in Topless}
<1>1. \A T \in SUBSET S : IsFiniteSet(T) /\ Cardinality(T) \in Nat
  BY FS_Subset, FS_CardinalityType
<1>2. Sizes \in SUBSET Nat
  BY <1>1
<1>3. ASSUME Topless # {}  PROVE FALSE
  <2>1. PICK n \in Sizes : \A k \in Sizes : n <= k
    <3>1. Sizes # {}
      BY <1>3
    <3>. HIDE DEF Sizes
    <3>. QED
      BY <1>2, <3>1, LeastNumber
  <2>2. PICK T \in Topless : Cardinality(T) = n
    OBVIOUS
  <2>3. PICK t : t \in T
    OBVIOUS
  <2>. DEFINE U == T \ {t}
  <2>4. T \in SUBSET S /\ U \in SUBSET S /\ T = U \cup {t} /\ t \notin U /\ Tops(T) = {}
    BY <2>3
  <2>5. Cardinality(U) < n
    <3>. HIDE DEF U
    <3>1. IsFiniteSet(U) /\ Cardinality(U) \in Nat
      BY <1>1, <2>4
    <3>2. Cardinality(U \cup {t}) = Cardinality(U) + 1
      BY <2>4, <3>1, FS_AddElement
    <3>. QED
      BY <2>2, <2>4, <3>1, <3>2
  <2>6. U \notin Topless
    <3>1. Cardinality(U) \in Nat /\ n \in Nat
      BY <1>1, <1>2, <2>4
    <3>2. U \in Topless => Cardinality(U) \in Sizes
      OBVIOUS
    <3>. HIDE DEF U, Topless, Sizes
    <3>. QED
      BY <2>1, <2>5, <3>1, <3>2
  <2>7. CASE U = {}
    BY <2>3, <2>4, <2>7
  <2>8. CASE U # {}
    <3>1. PICK u \in U : \A x \in U : u >= x
      BY <2>4, <2>6, <2>8
    <3>2. t \in Nat /\ u \in Nat /\ \A x \in U : x \in Nat
      BY <2>4
    <3>3. \/ \A x \in U \cup {t} : u >= x
          \/ \A x \in U \cup {t} : t >= x
      BY <3>1, <3>2
    <3>. QED
      BY <2>3, <2>4, <3>1, <3>3
  <2>. QED
    BY <2>7, <2>8
<1>4. \E x \in S : \A y \in S : x >= y
  <2>1. S \notin Topless
    BY <1>3
  <2>. QED
    BY <2>1
<1>. QED
  BY <1>4 DEF Max

\* The place of a settlement in a pool, which no other has.
LEMMA PlacesDiffer ==
  ASSUME MaxSettlements \in Nat, NEW pool \in SUBSET Place, NEW p \in pool
  PROVE  /\ Cardinality(pool) \in Nat \ {0}
         /\ Rank(pool, p) \in 0..(Cardinality(pool) - 1)
         /\ \A q \in pool : Rank(pool, q) = Rank(pool, p) => q = p
<1>. DEFINE below(x) == {j \in pool : j < x}
<1>0. IsFiniteSet(pool) /\ pool \in SUBSET Nat /\ Cardinality(pool) \in Nat
  <2>1. IsFiniteSet(Place) /\ Place \in SUBSET Nat
    BY FS_Interval DEF Place
  <2>. QED
    BY <2>1, FS_Subset, FS_CardinalityType
<1>1. \A x \in pool : IsFiniteSet(below(x)) /\ Cardinality(below(x)) \in Nat
  <2>1. \A x \in pool : below(x) \in SUBSET pool
    OBVIOUS
  <2>. HIDE DEF below
  <2>. QED
    BY <1>0, <2>1, FS_Subset, FS_CardinalityType
<1>2. ASSUME NEW i \in pool
      PROVE  /\ Cardinality(below(i) \cup {i}) = Cardinality(below(i)) + 1
             /\ IsFiniteSet(below(i) \cup {i})
  <2>1. i \notin below(i)
    BY <1>0
  <2>. HIDE DEF below
  <2>. QED
    BY <1>1, <2>1, FS_AddElement
<1>3. Cardinality(below(p)) + 1 <= Cardinality(pool)
  <2>1. below(p) \cup {p} \in SUBSET pool
    OBVIOUS
  <2>. HIDE DEF below
  <2>2. Cardinality(below(p) \cup {p}) <= Cardinality(pool)
    BY <1>0, <2>1, FS_Subset
  <2>. QED
    BY <1>2, <2>2
<1>4. ASSUME NEW i \in pool, NEW k \in pool, i < k
      PROVE  Cardinality(below(i)) < Cardinality(below(k))
  <2>1. below(i) \cup {i} \in SUBSET below(k)
    <3>1. \A x \in pool : x < i => x < k
      BY <1>0, <1>4
    <3>. QED
      BY <1>4, <3>1
  <2>. HIDE DEF below
  <2>2. Cardinality(below(i) \cup {i}) <= Cardinality(below(k))
    BY <1>1, <2>1, FS_Subset
  <2>. QED
    BY <1>1, <1>2, <2>2
<1>5. \A x : Rank(pool, x) = Cardinality(below(x))
  BY DEF Rank
<1>. HIDE DEF below
<1>6. ASSUME NEW q \in pool, Rank(pool, q) = Rank(pool, p)  PROVE q = p
  <2>1. Cardinality(below(q)) = Cardinality(below(p))
    BY <1>5, <1>6
  <2>2. ~(q < p) /\ ~(p < q)
    BY <1>1, <1>4, <2>1
  <2>3. q \in Nat /\ p \in Nat
    BY <1>0
  <2>. QED
    BY <2>2, <2>3
<1>7. Cardinality(below(p)) \in Nat
  BY <1>1
<1>8. Rank(pool, p) = Cardinality(below(p))
  BY <1>5
<1>. QED
  BY <1>0, <1>3, <1>6, <1>7, <1>8

\* Whoever is not the target of a month has another place than the month's.
LEMMA OthersPlace ==
  ASSUME MaxSettlements \in Nat, NEW pool \in SUBSET Place, NEW p \in pool, NEW d,
         p # Target(pool, d)
  PROVE  monthOrdinal(d) % Cardinality(pool) # Rank(pool, p)
<1>. DEFINE place == monthOrdinal(d) % Cardinality(pool)
<1>1. SUFFICES ASSUME place = Rank(pool, p)  PROVE FALSE
  OBVIOUS
<1>2. Target(pool, d) = CHOOSE q \in pool : Rank(pool, q) = place
  BY DEF Target
<1>. HIDE DEF place
<1>3. Target(pool, d) \in pool /\ Rank(pool, Target(pool, d)) = place
  BY <1>1, <1>2
<1>. QED
  BY <1>1, <1>3, PlacesDiffer

\* A remainder is the only one.
LEMMA RemainderTells ==
  ASSUME NEW n \in Nat \ {0}, NEW q \in Nat, NEW r \in 0..(n - 1), NEW t \in Nat,
         t = n * q + r
  PROVE  t % n = r
<1>1. /\ t \div n \in Nat /\ t % n \in 0..(n - 1)
      /\ t = n * (t \div n) + (t % n)
  BY DayFacts
<1>. DEFINE v == t \div n  s == t % n
<1>2. v \in Nat /\ s \in 0..(n - 1) /\ t = v * n + s /\ t = q * n + r
  BY <1>1
<1>. HIDE DEF v, s
<1>3. s = r
  BY <1>2, OrdinalTells
<1>. QED
  BY <1>3 DEF s

\* Among as many months in a row as a pool has settlements each has one of its own.
LEMMA FewerThanARound ==
  ASSUME MaxSettlements \in Nat, NEW pool \in SUBSET Place, NEW p \in pool,
         NEW m \in Int, NEW k \in Nat, WentToOthers(pool, p, m, k)
  PROVE  k < Cardinality(pool)
<1>. DEFINE n == Cardinality(pool)
            r == Rank(pool, p)
<1>1. n \in Nat \ {0} /\ r \in 0..(n - 1)
  BY PlacesDiffer
<1>2. k <= m + 1 /\ \A i \in 0..(k - 1) : (m - i) % n # r
  BY DEF WentToOthers
<1>. HIDE DEF n, r
<1>3. SUFFICES ASSUME k >= n  PROVE FALSE
  BY <1>1 DEF n
<1>. DEFINE i == (m - r) % n
            q == (m - r) \div n
<1>4. m - r \in Nat
  BY <1>1, <1>2, <1>3
<1>5. q \in Nat /\ i \in 0..(n - 1) /\ m - r = n * q + i
  BY <1>1, <1>4, DayFacts
<1>. HIDE DEF i, q
<1>6. i \in 0..(k - 1) /\ m - i \in Nat /\ m - i = n * q + r
  <2>. DEFINE past == n * q
  <2>1. past \in Int
    BY <1>1, <1>5
  <2>2. m - r = past + i
    BY <1>5
  <2>. HIDE DEF past
  <2>3. i \in 0..(k - 1) /\ m - i \in Nat /\ m - i = past + r
    BY <1>1, <1>2, <1>3, <1>5, <2>1, <2>2
  <2>. QED
    BY <2>3 DEF past
<1>7. (m - i) % n = r
  BY <1>1, <1>5, <1>6, RemainderTells
<1>. QED
  BY <1>2, <1>6, <1>7

LEMMA RotationInitially ==
  ASSUME RotationAssumption, RotationInit
  PROVE  RotationInv
<1>1. GatesAssumption /\ GatesInit
  BY DEF RotationAssumption, RotationInit
<1>2. GatesTypeOK
  BY <1>1, GatesInitially DEF GatesInv
<1>3. RotationTypeOK
  BY DEF RotationInit, RotationTypeOK, NotPassed, Range
<1>4. \A j \in Job, p \in Place : passed[j][p] = 0
  BY DEF RotationInit, NotPassed
<1>. QED
  BY <1>2, <1>3, <1>4 DEF RotationInv

LEMMA ReviewTypes ==
  ASSUME RotationAssumption, RotationTypeOK, NEW names \in SUBSET Place, named \subseteq names,
         NEW moved, NEW limit, Review(names, moved, limit)
  PROVE  /\ asleep' \subseteq names /\ DOMAIN idle' \subseteq names
         /\ Range(idle') \subseteq 0..Max(IdleLimits)
<1>1. Max(IdleLimits) \in Nat \ {0}
  BY GreatestNumber DEF RotationAssumption
<1>. DEFINE still == (DOMAIN idle \cap names) \ moved
            more(p) == Min({idle[p] + 1, Max(IdleLimits)})
<1>2. \A p \in still : more(p) \in 0..Max(IdleLimits)
  <2>1. SUFFICES ASSUME NEW p \in still  PROVE more(p) \in 0..Max(IdleLimits)
    OBVIOUS
  <2>2. idle[p] \in 0..Max(IdleLimits)
    BY DEF RotationTypeOK, Range
  <2>. DEFINE a == idle[p] + 1
              b == Max(IdleLimits)
  <2>3. a \in Int /\ b \in Int /\ 0 <= a /\ 0 <= b
    BY <1>1, <2>2
  <2>. HIDE DEF a, b
  <2>4. Min({a, b}) \in 0..b
    BY <2>3, LeastOfTwo
  <2>. QED
    BY <2>4 DEF a, b
<1>3. idle' = [p \in names |-> IF p \in still THEN more(p) ELSE 0]
      /\ asleep' \subseteq still
  BY DEF Review
<1>. HIDE DEF more
<1>4. \A p \in names : idle'[p] \in 0..Max(IdleLimits)
  BY <1>1, <1>2, <1>3
<1>. QED
  BY <1>3, <1>4 DEF Range

\* What a day writes into the history of one job's turns.
Turn(j, free, pool, d) ==
  LET ran == j \in free /\ Open(j, d)
      fresh == ran /\ (Begins(j, d) \/ calls[j] = 0)
      before == IF (Begins(j, d) /\ calls[j] = 0) \/ (ran /\ pools[j] # pool)
                THEN NotPassed ELSE passed[j]
  IN /\ pools'[j] = IF ran THEN pool ELSE pools[j]
     /\ passed'[j] = IF fresh
                     THEN [p \in Place |-> IF p \in pool \ {Target(pool, d)} THEN before[p] + 1 ELSE 0]
                     ELSE before

LEMMA DayTakesTurns ==
  ASSUME NEW free \in SUBSET Job, NEW built \in SUBSET (Place \ named), NEW moved, NEW limit,
         RotaDay(free, built, moved, limit)
  PROVE  /\ NewDay(free)
         /\ \A j \in Job : Turn(j, free, Pool(named \cup built), day + 1)
BY DEF RotaDay, Turn, Begins

LEMMA TurnTypes ==
  ASSUME RotationAssumption, RotationTypeOK,
         NEW free \in SUBSET Job, NEW built \in SUBSET (Place \ named), NEW moved, NEW limit,
         RotaDay(free, built, moved, limit)
  PROVE  RotationTypeOK'
<1>. DEFINE names == named \cup built
            pool == Pool(names)
<1>1. names \in SUBSET Place /\ named \subseteq names /\ named' = names
  BY DEF RotaDay, RotationTypeOK
<1>2. pool \in SUBSET Place
  BY <1>1 DEF Pool
<1>3. /\ asleep' \subseteq names /\ DOMAIN idle' \subseteq names
      /\ Range(idle') \subseteq 0..Max(IdleLimits)
  <2>1. CASE "month_end" \in Crossed(day + 1)
    <3>1. Review(names, moved, limit)
      BY <2>1 DEF RotaDay
    <3>. QED
      BY <1>1, <3>1, ReviewTypes
  <2>2. CASE "month_end" \notin Crossed(day + 1)
    <3>1. idle' = idle /\ asleep' = asleep
      BY <2>2 DEF RotaDay
    <3>. QED
      BY <1>1, <3>1 DEF RotationTypeOK, Range
  <2>. QED
    BY <2>1, <2>2
<1>. HIDE DEF pool
<1>4. \A j \in Job : Turn(j, free, pool, day + 1)
  BY DayTakesTurns DEF pool
<1>5. pools' = [j \in Job |-> pools'[j]] /\ passed' = [j \in Job |-> passed'[j]]
  BY DEF RotaDay
<1>6. ASSUME NEW j \in Job
      PROVE  pools'[j] \in SUBSET Place /\ passed'[j] \in [Place -> Nat]
  <2>1. pools[j] \in SUBSET Place /\ passed[j] \in [Place -> Nat]
    BY DEF RotationTypeOK
  <2>2. Turn(j, free, pool, day + 1)
    BY <1>4
  <2>3. NotPassed \in [Place -> Nat]
    BY DEF NotPassed
  <2>4. pools'[j] \in SUBSET Place
    BY <1>2, <2>1, <2>2 DEF Turn
  <2>5. \E before \in [Place -> Nat] :
          passed'[j] \in {before,
            [p \in Place |-> IF p \in pool \ {Target(pool, day + 1)} THEN before[p] + 1 ELSE 0]}
    BY <2>1, <2>2, <2>3 DEF Turn
  <2>. QED
    BY <2>4, <2>5
<1>. QED
  BY <1>1, <1>3, <1>5, <1>6 DEF RotationTypeOK

\* The months of the turns of a monthly job follow one another.
LEMMA TurnMonthMoves ==
  ASSUME RotationAssumption, GatesTypeOK, NEW free \in SUBSET Job, NewDay(free),
         NEW j \in Job, Monthly(j)
  PROVE  LET d == day + 1
             ran == j \in free /\ Open(j, d)
             fresh == ran /\ (Begins(j, d) \/ calls[j] = 0)
         IN /\ TurnMonth(j) \in Int /\ TurnMonth(j)' \in Int
            /\ fresh => TurnMonth(j)' = monthOrdinal(d) /\ TurnMonth(j)' >= 0
            /\ ~(Begins(j, d) /\ calls[j] = 0) =>
                 TurnMonth(j)' = IF fresh THEN TurnMonth(j) + 1 ELSE TurnMonth(j)
<1>. DEFINE d == day + 1
            ran == j \in free /\ Open(j, d)
            fresh == ran /\ (Begins(j, d) \/ calls[j] = 0)
            old == monthOrdinal(day)
            new == monthOrdinal(d)
            begins == Begins(j, d)
<1>1. ClockAssumption /\ day \in Nat /\ d \in Nat /\ day' = d /\ calls[j] \in Nat
  BY NewDayTurns DEF RotationAssumption, GatesAssumption, GatesTypeOK
<1>2. calls'[j] = (IF begins THEN 0 ELSE calls[j]) + (IF ran THEN 1 ELSE 0)
  BY NewDayTurns DEF Turned
<1>3. old \in Nat /\ new \in Nat /\ new = IF begins THEN old + 1 ELSE old
  BY <1>1, MonthTurns DEF Monthly, Begins
<1>4. /\ TurnMonth(j) = IF calls[j] > 0 THEN old ELSE old - 1
      /\ TurnMonth(j)' = IF calls'[j] > 0 THEN new ELSE new - 1
  BY <1>1 DEF TurnMonth
<1>. HIDE DEF old, new, ran, begins
<1>5. calls'[j] > 0 <=> ran \/ (~begins /\ calls[j] > 0)
  BY <1>1, <1>2
<1>. QED
  BY <1>1, <1>3, <1>4, <1>5 DEF old, new, ran, begins

LEMMA TurnStep ==
  ASSUME RotationAssumption, RotationInv, RotationTypeOK',
         NEW free \in SUBSET Job, NEW built \in SUBSET (Place \ named), NEW moved, NEW limit,
         RotaDay(free, built, moved, limit),
         NEW j \in Job, Monthly(j), NEW p \in Place, passed'[j][p] > 0
  PROVE  p \in pools'[j] /\ WentToOthers(pools'[j], p, TurnMonth(j)', passed'[j][p])
<1>. DEFINE d == day + 1
            pool == Pool(named \cup built)
            ran == j \in free /\ Open(j, d)
            fresh == ran /\ (Begins(j, d) \/ calls[j] = 0)
            lost == Begins(j, d) /\ calls[j] = 0
            before == IF lost \/ (ran /\ pools[j] # pool) THEN NotPassed ELSE passed[j]
            m == TurnMonth(j)
            next == TurnMonth(j)'
            k == passed[j][p]
<1>1. pool \in SUBSET Place /\ MaxSettlements \in Nat
  BY DEF RotationInv, RotationTypeOK, Pool, RotationAssumption
<1>2. NewDay(free) /\ Turn(j, free, pool, d)
  BY DayTakesTurns
<1>3. k \in Nat /\ (k > 0 => p \in pools[j] /\ WentToOthers(pools[j], p, m, k))
  BY DEF RotationInv, RotationTypeOK
<1>4. /\ m \in Int /\ next \in Int
      /\ fresh => next = monthOrdinal(d) /\ next >= 0
      /\ ~lost => next = IF fresh THEN m + 1 ELSE m
  BY <1>2, TurnMonthMoves DEF RotationInv
<1>5. /\ pools'[j] = IF ran THEN pool ELSE pools[j]
      /\ passed'[j] = IF fresh
           THEN [q \in Place |-> IF q \in pool \ {Target(pool, d)} THEN before[q] + 1 ELSE 0]
           ELSE before
  BY <1>2 DEF Turn
<1>6. \/ before[p] = 0
      \/ before = passed[j] /\ ~lost /\ (ran => pools[j] = pool)
  BY DEF NotPassed
<1>7. CASE fresh
  <2>1. /\ p \in pool /\ p # Target(pool, d) /\ passed'[j][p] = before[p] + 1
        /\ pools'[j] = pool
    BY <1>5, <1>7
  <2>2. next % Cardinality(pool) # Rank(pool, p)
    BY <1>1, <1>4, <1>7, <2>1, OthersPlace
  <2>3. CASE before[p] = 0
    <3>1. passed'[j][p] = 1
      BY <2>1, <2>3
    <3>2. \A i \in 0..(1 - 1) : (next - i) % Cardinality(pool) # Rank(pool, p)
      <4>1. \A i \in 0..(1 - 1) : next - i = next
        BY <1>4
      <4>. QED
        BY <2>2, <4>1
    <3>3. 1 <= next + 1
      BY <1>4, <1>7
    <3>. QED
      BY <2>1, <3>1, <3>2, <3>3 DEF WentToOthers
  <2>4. CASE before[p] # 0
    <3>1. before = passed[j] /\ ~lost /\ pools[j] = pool
      BY <1>6, <1>7, <2>4
    <3>2. k > 0 /\ passed'[j][p] = k + 1 /\ next = m + 1
      BY <1>3, <1>4, <1>7, <2>1, <2>4, <3>1
    <3>3. k <= m + 1 /\ \A i \in 0..(k - 1) : (m - i) % Cardinality(pool) # Rank(pool, p)
      BY <1>3, <3>1, <3>2 DEF WentToOthers
    <3>. HIDE DEF m, next, k
    <3>4. ASSUME NEW i \in 0..((k + 1) - 1)
          PROVE  (next - i) % Cardinality(pool) # Rank(pool, p)
      <4>1. CASE i = 0
        <5>1. next - i = next
          BY <1>4, <4>1
        <5>. QED
          BY <2>2, <5>1
      <4>2. CASE i # 0
        <5>1. i - 1 \in 0..(k - 1) /\ m - (i - 1) = next - i
          BY <1>3, <1>4, <3>2, <4>2
        <5>2. (m - (i - 1)) % Cardinality(pool) # Rank(pool, p)
          BY <3>3, <5>1
        <5>. QED
          BY <5>1, <5>2
      <4>. QED
        BY <4>1, <4>2
    <3>5. k + 1 <= next + 1
      BY <1>3, <1>4, <3>2, <3>3
    <3>. QED
      BY <2>1, <3>2, <3>4, <3>5 DEF WentToOthers, next
  <2>. QED
    BY <2>3, <2>4
<1>8. CASE ~fresh
  <2>1. passed'[j] = before /\ before[p] # 0
    BY <1>5, <1>8
  <2>2. before = passed[j] /\ ~lost /\ (ran => pools[j] = pool)
    BY <1>6, <2>1
  <2>3. next = m /\ pools'[j] = pools[j] /\ passed'[j][p] = k /\ k > 0
    BY <1>3, <1>4, <1>5, <1>8, <2>1, <2>2
  <2>. HIDE DEF m, next, k
  <2>4. p \in pools'[j] /\ WentToOthers(pools'[j], p, next, passed'[j][p])
    BY <1>3, <2>3
  <2>. QED
    BY <2>4 DEF next
<1>. QED
  BY <1>7, <1>8

LEMMA RotationStep ==
  ASSUME RotationAssumption, RotationInv, [RotationNext]_<<gateVars, rotaVars>>
  PROVE  RotationInv' /\ [GatesNext]_gateVars
<1>0. GatesAssumption
  BY DEF RotationAssumption
<1>1. ASSUME NEW free \in SUBSET Job, NEW built \in SUBSET (Place \ named),
             NEW moved, NEW limit, RotaDay(free, built, moved, limit)
      PROVE  RotationInv' /\ GatesNext
  <2>1. NewDay(free)
    BY <1>1, DayTakesTurns
  <2>2. GatesTypeOK'
    BY <1>0, <2>1, DayTypes DEF RotationInv
  <2>3. RotationTypeOK'
    BY <1>1, TurnTypes DEF RotationInv
  <2>4. ASSUME NEW j \in Job, NEW p \in Place, Monthly(j), passed'[j][p] > 0
        PROVE  p \in pools'[j] /\ WentToOthers(pools'[j], p, TurnMonth(j)', passed'[j][p])
    BY <1>1, <2>3, <2>4, TurnStep
  <2>5. RotationInv'
    BY <2>2, <2>3, <2>4 DEF RotationInv, Monthly, WentToOthers
  <2>. QED
    BY <2>1, <2>5 DEF GatesNext
<1>2. CASE RotaRestart
  <2>1. /\ Restart /\ day' = day /\ calls' = calls
        /\ named' = named /\ pools' = pools /\ passed' = passed
        /\ asleep' = {} /\ idle' = [p \in {} |-> 0]
    BY <1>2 DEF RotaRestart, Restart
  <2>2. GatesTypeOK'
    BY <2>1 DEF Restart, GatesTypeOK, RotationInv, None
  <2>3. RotationTypeOK'
    BY <2>1 DEF RotationInv, RotationTypeOK, Range
  <2>4. \A j \in Job : TurnMonth(j)' = TurnMonth(j)
    BY <2>1 DEF TurnMonth
  <2>5. RotationInv'
    BY <2>1, <2>2, <2>3, <2>4 DEF RotationInv, Monthly, WentToOthers
  <2>. QED
    BY <2>1, <2>5 DEF GatesNext
<1>3. CASE UNCHANGED <<gateVars, rotaVars>>
  BY <1>3 DEF gateVars, rotaVars, RotationInv, GatesTypeOK, RotationTypeOK, TurnMonth, Range
<1>4. \/ \E free \in SUBSET Job, built \in SUBSET (Place \ named),
            moved \in Reviewed(day + 1), limit \in Limits(day + 1) :
           RotaDay(free, built, moved, limit)
      \/ RotaRestart \/ UNCHANGED <<gateVars, rotaVars>>
  BY DEF RotationNext
<1>. QED
  BY <1>1, <1>2, <1>3, <1>4


\* For the monthly jobs the month chooses the settlement (_job_target): while a job has
\* its turn every month and the pool stays as it is, nobody in it waits for a whole
\* round, whatever the calendar, the number of settlements and the reviews that send
\* them to sleep, and over every restart.
THEOREM MonthlyTurnsGoRound ==
  ASSUME RotationAssumption
  PROVE  RotationSpec => []TurnsAreKept
<1>1. RotationInit => RotationInv
  BY RotationInitially
<1>2. RotationInv /\ [RotationNext]_<<gateVars, rotaVars>> => RotationInv'
  BY RotationStep
<1>3. RotationInv => TurnsAreKept
  <2>1. SUFFICES ASSUME RotationInv, NEW j \in Job, Monthly(j), NEW p \in pools[j]
                 PROVE  passed[j][p] < Cardinality(pools[j])
    BY DEF RotationInv, TurnsAreKept, MonthlyTurnsComeRound, TurnsComeRound
  <2>2. pools[j] \in SUBSET Place /\ p \in Place /\ passed[j][p] \in Nat
        /\ MaxSettlements \in Nat
    BY <2>1 DEF RotationInv, RotationTypeOK, RotationAssumption
  <2>3. CASE passed[j][p] = 0
    BY <2>2, <2>3, PlacesDiffer
  <2>4. CASE passed[j][p] # 0
    <3>1. passed[j][p] > 0
      BY <2>2, <2>4
    <3>2. WentToOthers(pools[j], p, TurnMonth(j), passed[j][p])
      BY <2>1, <2>2, <3>1 DEF RotationInv
    <3>3. TurnMonth(j) \in Int
      <4>1. ClockAssumption /\ day \in Nat
        BY <2>1 DEF RotationInv, GatesTypeOK, RotationAssumption, GatesAssumption
      <4>. QED
        BY <4>1, MonthTurns DEF TurnMonth
    <3>. QED
      BY <2>2, <3>2, <3>3, FewerThanARound
  <2>. QED
    BY <2>3, <2>4
<1>. QED
  BY <1>1, <1>2, <1>3, PTL DEF RotationSpec

\* Whose turn it is never changes when a job asks: the rotation is a behaviour of the
\* gates, with the settlements beside them, so that what holds of the gates holds in it.
THEOREM RotationKeepsTheGates ==
  ASSUME RotationAssumption
  PROVE  RotationSpec => GatesSpec
<1>1. RotationInit => RotationInv /\ GatesInit
  BY RotationInitially DEF RotationInit
<1>2. RotationInv /\ [RotationNext]_<<gateVars, rotaVars>> => RotationInv' /\ [GatesNext]_gateVars
  BY RotationStep
<1>. QED
  BY <1>1, <1>2, PTL DEF RotationSpec, GatesSpec
=============================================================================
