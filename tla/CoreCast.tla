------------------------------ MODULE CoreCast ------------------------------
(***************************************************************************)
(* The core cast (the people whose cognition the model writes), the pair   *)
(* that carries the village's voice, and the two decisions about leaving   *)
(* home that are taken while the world goes on: migration of a cast member *)
(* and the founding of a daughter settlement.                              *)
(*                                                                         *)
(* One tick is  people -> cast -> rotation -> fission -> migration -> wait *)
(* The population moves in "people" (World.tick and the daily district     *)
(* pass), the cast and the voice are brought up to date in "cast", the     *)
(* monthly swap and the two schedulers are jobs of the tick in that order, *)
(* and answers are applied in "wait", between two ticks.                   *)
(***************************************************************************)
EXTENDS People

CONSTANTS
  CastSize,       \* Config.llm_core_cast_size
  MaxSettlements, \* MAX_SETTLEMENTS
  PartyMin, PartyMax, MinRemaining,  \* FISSION_PARTY_*, FISSION_MIN_REMAINING
  SplitPopulation, \* FISSION_MIN_POPULATION
  MaxPending      \* bound: decisions in flight at once

ASSUME CastAssumption ==
  /\ CastSize \in Nat
  /\ MaxSettlements \in Nat \ {0} /\ 1..MaxSettlements \subseteq Settlement
  /\ PartyMin \in Nat \ {0} /\ PartyMax \in Nat /\ MinRemaining \in Nat \ {0}
  /\ SplitPopulation \in Nat /\ MaxPending \in Nat

VARIABLES
  core,       \* Population.core_agent_ids
  voice,      \* Population.voice_pair_ids: {} or two people
  founded,    \* World.settlements
  named,      \* those that have a name
  travelling, \* people with a travel_target
  pending,    \* decisions asked for and not answered
  phase

castVars == <<core, voice, founded, named, travelling, pending, phase>>
vars == <<home, born, core, voice, founded, named, travelling,
          pending, phase>>

Decision == [kind : {"migration", "fission"}, who : Person,
             from : Settlement, to : Settlement]

CastTypeOK ==
  /\ PeopleTypeOK
  /\ core \subseteq Person /\ voice \subseteq Person
  /\ Cardinality(voice) \in {0, 2}
  /\ founded \subseteq Settlement /\ named \subseteq founded
  /\ travelling \subseteq living
  /\ pending \subseteq Decision
  /\ phase \in {"people", "cast", "rotation", "fission", "migration", "wait"}

Init ==
  /\ PeopleInit
  /\ core = {} /\ voice = {} /\ travelling = {} /\ pending = {}
  /\ founded = {Primary} /\ named = {}
  /\ phase = "people"

-----------------------------------------------------------------------------
(* The population's part of a tick.                                        *)

Die(D) ==
  /\ phase = "people" /\ D # {} /\ D \subseteq living
  /\ Leave(D)
  /\ travelling' = travelling \ D
  /\ UNCHANGED <<core, voice, founded, named, pending, phase>>

Bear(child) ==
  /\ phase = "people"
  /\ \E parent \in living : Born(child, parent)
  /\ UNCHANGED castVars

Welcome(newcomer) ==
  /\ phase = "people"
  /\ Arrives(newcomer)
  /\ UNCHANGED castVars

\* A journey begins (exploring, or for material that is far away) or ends.
Journey(p) ==
  /\ phase = "people" /\ p \in living
  /\ travelling' = IF p \in travelling THEN travelling \ {p} ELSE travelling \cup {p}
  /\ UNCHANGED <<peopleVars, core, voice, founded, named, pending, phase>>

\* One who is not of the cast needs no model to decide it.  (No journey is begun
\* to a settlement that has lost its centre: here that is one which ends at once.)
Depart(p, s) ==
  /\ Settle({p}, s)
  /\ travelling' = travelling \cup {p}

Migrate(p, s) ==
  /\ phase = "people"
  /\ p \in living \ (core \cup travelling)
  /\ home[p] \in named /\ s \in named \ {home[p]}
  /\ Depart(p, s)
  /\ UNCHANGED <<core, voice, founded, named, pending, phase>>

\* The first building of a settlement stands: it gets a name, for good.
NameSettlement(s) ==
  /\ phase = "people" /\ s \in founded \ named
  /\ named' = named \cup {s}
  /\ UNCHANGED <<peopleVars, core, voice, founded, travelling, pending, phase>>

\* The intervention of an observer, when nobody is left.
FoundSuccessor(party) ==
  /\ phase = "people"
  /\ Cardinality(founded) < MaxSettlements
  /\ LET s == Max(founded) + 1
     IN Succeed(party, s) /\ founded' = founded \cup {s}
  /\ UNCHANGED <<core, voice, named, travelling, pending, phase>>

\* Mutant: the cast is as exposed as anybody.
ExemptMayorOnly(mayor) == mayor

\* The mayor, whoever that is, is exempt from the folding beside the cast.
Exempt(mayor) == core \cup mayor

\* The tick's last word on who lives: at the end of a day the districts take
\* the excess, on other ticks nobody.
ClosePeople ==
  /\ phase = "people"
  /\ \/ \E mayor \in {{}} \cup {{p} : p \in living} :
          \E F \in SUBSET living :
            /\ Folds(F, Exempt(mayor))
            /\ Leave(F) /\ travelling' = travelling \ F
     \/ UNCHANGED <<peopleVars, travelling>>
  /\ phase' = "cast"
  /\ UNCHANGED <<core, voice, founded, named, pending>>

-----------------------------------------------------------------------------
(* The cast and the voice.                                                 *)

\* min(llm_core_cast_size, ceil(population * 0.4)).
CastTarget(n) == Min({CastSize, (2 * n + 4) \div 5})

\* maintain_core_cast: the dead are pruned, open seats are filled; a cast over
\* its size shrinks by attrition only.  Who is the most prominent is left open.
Casts(now, size) ==
  LET kept == core \cap now
      deficit == IF size > Cardinality(kept) THEN size - Cardinality(kept) ELSE 0
      candidates == now \ kept
      seats == Min({deficit, Cardinality(candidates)})
  IN IF size = 0 THEN {{}} ELSE {kept \cup new : new \in kSubset(seats, candidates)}

\* select_voice_pair: two of the cast, or nobody while the cast is too small.
Pairs(cast) ==
  IF Cardinality(cast) < 2 THEN {{}} ELSE kSubset(2, cast)

\* Mutant: the pair is left alone until the week ends.
VoicesUntilWeekEnds(cast, now, weekEnds) ==
  IF voice = {} \/ weekEnds THEN Pairs(cast) ELSE {voice}

\* maintain_voice_pair, given the cast and the living.  A survivor goes on with
\* the strongest bond in the cast, or without one with the first that
\* select_voice_pair names, which wants two candidates beside the survivor.
Voices(cast, now, weekEnds) ==
  LET alive == voice \cap now
      Beside(p) == cast \ {p}
      Bonded(p) == {{p, q} : q \in Beside(p)}
      Fallback(p) == IF Cardinality(Beside(p)) < 2 THEN {{}} ELSE Bonded(p)
  IN CASE voice = {} \/ alive = {} -> Pairs(cast)
       [] Cardinality(alive) = 2 -> IF weekEnds THEN Pairs(cast) ELSE {voice}
       [] OTHER -> UNION {Bonded(p) \cup Fallback(p) : p \in alive}

MaintainCast(weekEnds) ==
  /\ phase = "cast"
  /\ core' \in Casts(living, CastTarget(Cardinality(living)))
  /\ voice' \in Voices(core', living, weekEnds)
  /\ phase' = "rotation"
  /\ UNCHANGED <<peopleVars, founded, named, travelling, pending>>

\* Once a month at most one outsider may take the place of the weakest member.
Rotate ==
  /\ phase = "rotation"
  /\ \/ \E out \in core, in \in living \ core : core' = (core \ {out}) \cup {in}
     \/ core' = core
  /\ phase' = "fission"
  /\ UNCHANGED <<peopleVars, voice, founded, named, travelling, pending>>

-----------------------------------------------------------------------------
(* Decisions about leaving, asked for in a tick and applied after it.      *)

Ask(d) ==
  /\ Cardinality(pending \cup {d}) <= MaxPending
  /\ pending' = pending \cup {d}

\* The apply of a "go": who died, moved or set out meanwhile stays.
ApplyMigration(d) ==
  IF d.who \in living \ travelling /\ home[d.who] = d.from
  THEN Depart(d.who, d.to) /\ UNCHANGED founded
  ELSE UNCHANGED <<peopleVars, travelling, founded>>

\* Mutant: nobody counts those who stay.
PartiesOfAny(leader, s) ==
  {P \in SUBSET At(s) : leader \in P /\ Cardinality(P) \in PartyMin..PartyMax}

\* fission_party at the time of the answer: the leader and followers from home,
\* within the size limits, and enough people stay.
Parties(leader, s) ==
  {P \in SUBSET At(s) :
     /\ leader \in P
     /\ Cardinality(P) \in PartyMin..PartyMax
     /\ Cardinality(At(s)) - Cardinality(P) >= MinRemaining}

\* The limit is asked again: other daughters may have been founded meanwhile.
RoomForDaughter == Cardinality(founded) < MaxSettlements

\* The apply of a "depart"; no site far enough away is the other outcome.
ApplyFission(d) ==
  \/ /\ d.who \in living /\ home[d.who] = d.from
     /\ RoomForDaughter
     /\ LET s == Max(founded) + 1
        IN \E P \in Parties(d.who, d.from) :
             /\ Settle(P, s)
             /\ travelling' = travelling \cup P
             /\ founded' = founded \cup {s}
  \/ UNCHANGED <<peopleVars, travelling, founded>>

\* A named, crowded settlement with an ambitious leader, at most one a month.  With
\* no call to be had the rule decides, and its decision is applied at once.
ScheduleFission ==
  /\ phase = "fission"
  /\ \/ /\ Cardinality(founded) < MaxSettlements
        /\ \E s \in named, leader \in living :
             LET d == [kind |-> "fission", who |-> leader, from |-> s, to |-> s]
             IN /\ home[leader] = s
                /\ Cardinality(At(s)) >= SplitPopulation
                /\ \/ Ask(d) /\ UNCHANGED <<peopleVars, travelling, founded>>
                   \/ ApplyFission(d) /\ UNCHANGED pending
     \/ UNCHANGED <<peopleVars, travelling, founded, pending>>
  /\ phase' = "migration"
  /\ UNCHANGED <<core, voice, named>>

\* core_migration_candidates: the dead, the travelling and those of an unnamed
\* settlement are skipped; one candidate a tick.
ScheduleMigration ==
  /\ phase = "migration"
  /\ \/ \E p \in (core \cap living) \ travelling, s \in named :
          /\ home[p] \in named /\ s # home[p]
          /\ Ask([kind |-> "migration", who |-> p, from |-> home[p], to |-> s])
     \/ UNCHANGED pending
  /\ phase' = "wait"
  /\ UNCHANGED <<peopleVars, core, voice, founded, named, travelling>>

Answer(d) ==
  /\ phase = "wait" /\ d \in pending
  /\ pending' = pending \ {d}
  /\ \/ d.kind = "migration" /\ ApplyMigration(d)
     \/ d.kind = "fission" /\ ApplyFission(d)
     \/ UNCHANGED <<peopleVars, travelling, founded>>   \* they stayed
  /\ UNCHANGED <<core, voice, named, phase>>

\* A restart keeps everything but the tasks.
Restart ==
  /\ phase = "wait" /\ pending # {}
  /\ pending' = {}
  /\ UNCHANGED <<peopleVars, core, voice, founded, named, travelling, phase>>

NextTick ==
  /\ phase = "wait" /\ phase' = "people"
  /\ UNCHANGED <<peopleVars, core, voice, founded, named, travelling, pending>>

Next ==
  \/ \E D \in SUBSET Person : Die(D)
  \/ \E p \in Person : Bear(p) \/ Welcome(p) \/ Journey(p)
  \/ \E p \in Person, s \in Settlement : Migrate(p, s)
  \/ \E P \in SUBSET Person : FoundSuccessor(P)
  \/ ClosePeople
  \/ \E w \in BOOLEAN : MaintainCast(w)
  \/ Rotate \/ ScheduleFission \/ ScheduleMigration
  \/ \E d \in pending : Answer(d)
  \/ \E s \in Settlement : NameSettlement(s)
  \/ Restart \/ NextTick

Spec == Init /\ [][Next]_vars

-----------------------------------------------------------------------------
\* Whatever happened to the people in a tick, the jobs that follow the upkeep
\* see a cast of the size the population supports, all of them living, never
\* more than configured, and a voice of two living people.
CastServes ==
  phase \in {"rotation", "fission", "migration", "wait"} =>
    /\ core \subseteq living
    /\ Cardinality(core) \in CastTarget(Cardinality(living))..CastSize
    /\ voice \subseteq living

\* "Named cast stays named": no district takes a protagonist, and one who loses
\* the place alive has lost it to an outsider in the monthly swap, one for one,
\* never because the population (and with it the size of the cast) has shrunk.
CastIsSticky ==
  [][/\ phase = "people" /\ phase' = "cast" => core \cap living \subseteq living'
     /\ \A p \in core \cap living' :
          p \notin core' => /\ phase = "rotation"
                            /\ Cardinality(core') = Cardinality(core)]_vars

\* People leave a settlement together only if enough stay behind, although the
\* decision was taken on an older population, and the settlements stay within
\* their limit, however many decisions to found one were in flight.
SplitIsSustainable ==
  [][founded' # founded /\ living # {} =>
       /\ Cardinality(founded') <= MaxSettlements
       /\ \E s \in founded :
            /\ \A t \in founded \ {s} : {p \in living' : home'[p] = t} = At(t)
            /\ Cardinality({p \in living' : home'[p] = s}) >= MinRemaining]_vars
=============================================================================
