----------------------------- MODULE MCCommunity -----------------------------
(***************************************************************************)
(* The people of a world and what hangs on them, one aspect at a time:     *)
(* `part` is chosen once, the variables of the other aspects keep their    *)
(* first value, and the aspects share the people.                          *)
(*                                                                         *)
(* Four identities (five where a second family is needed), three of them   *)
(* founders, in at most two settlements: of everything just so much that   *)
(* it can run out - one hut, one mount, one craft, one trade, room for one *)
(* family, one faction and one person a district leaves alone, a council   *)
(* and a cast of two; the talk is that of the founders.                    *)
(***************************************************************************)
EXTENDS Dialogue, Institutions, TLC

CONSTANTS p1, p2, p3, p4, p5

OneTrade == <<"farming">>
Stable1 == [v \in Vehicle |-> Primary]
Workshop1 == [c \in Craft |-> Primary]
Anyone == Permutations({p1, p2, p3, p4})

VARIABLE part

ASSUME
  /\ EstatesAssumption /\ CouncilAssumption
  /\ GuildsAssumption /\ FactionsAssumption
  /\ DialogueAssumption

councilOwn == <<titled, council, session>>
guildsOwn == <<masters, guilds, requests, stage>>
factionsOwn == <<factions, naming, refused>>
allVars == <<part, vars, estate, councilOwn, guildsOwn, factionsOwn, talkVars>>

Parts == {"cast", "families", "belongings", "council", "guilds", "factions", "talk"}

InitOf(parts) ==
  /\ part \in parts
  /\ TalkInit /\ EstatesInit /\ CouncilInit /\ GuildsInit /\ FactionsInit
  /\ p5 \notin born

MCInit == InitOf(Parts)

\* One aspect moves, and the people with it.
Only(parts) ==
  /\ part \in parts /\ UNCHANGED part
  /\ part \notin {"cast", "talk"} => UNCHANGED castVars
  /\ part # "talk" => UNCHANGED talkVars
  /\ part \notin {"families", "belongings"} => UNCHANGED estate
  /\ part # "council" => UNCHANGED councilOwn
  /\ part # "guilds" => UNCHANGED guildsOwn
  /\ part # "factions" => UNCHANGED factionsOwn

\* Bound: four lives and in "families", where a second family at one place needs
\* it, a fifth.  Identities are given out in an order: p5 is the last.
Few == IF part = "families" THEN p5 \in born' => born' = Person ELSE p5 \notin born'

Cast == Only({"cast"})

CastNext ==
  \/ Cast /\ \E D \in SUBSET living : Die(D)
  \/ Cast /\ (\E p \in Person : Bear(p)) /\ Few
  \/ Cast /\ (\E p \in Person : Welcome(p)) /\ Few
  \/ Cast /\ \E p \in Person : Journey(p)
  \/ Cast /\ \E p \in Person, s \in Settlement : Migrate(p, s)
  \/ Cast /\ \E P \in SUBSET Person : FoundSuccessor(P)
  \/ Cast /\ ClosePeople
  \/ Cast /\ \E w \in BOOLEAN : MaintainCast(w)
  \/ Cast /\ Rotate
  \/ Cast /\ ScheduleFission
  \/ Cast /\ ScheduleMigration
  \/ Cast /\ \E d \in pending : Answer(d)
  \/ Cast /\ \E s \in Settlement : NameSettlement(s)
  \/ Cast /\ Restart
  \/ Cast /\ NextTick

Either == Only({"families", "belongings"})
Families == Only({"families"})
Belongings == Only({"belongings"})

MCEstatesNext ==
  \/ Either /\ (\E a, b \in living, child \in Person \ born : BearInFamily(a, b, child)) /\ Few
  \/ Either /\ (\E p \in Person : Arrives(p) /\ UNCHANGED estate) /\ Few
  \/ Either /\ \E p \in Person, s \in Settlement : Move(p, s)
  \/ Either /\ \E F \in SUBSET living : Fold(F)
  \/ Either /\ \E D \in SUBSET living : DieWithEstate(D)
  \/ Families /\ \E h \in House, s \in Settlement, p \in Person : Build(h, s, p)
  \/ Families /\ \E h \in House : Reclaim(h)
  \/ Belongings /\ \E v \in Vehicle, p \in Person : Claim(v, p)
  \/ Belongings /\ \E v \in Vehicle : Break(v)
  \/ Belongings /\ \E c \in Craft, p \in Person : Invent(c, p)
  \/ Belongings /\ \E c \in Craft : Outgrow(c)
  \/ Belongings /\ \E c \in Craft, a, b \in living : Teach(c, a, b)

InCouncil == Only({"council"})
InGuilds == Only({"guilds"})
InFactions == Only({"factions"})

InstitutionsNext ==
  \/ InCouncil /\ CouncilPeople /\ Few
  \/ InCouncil /\ \E contest \in BOOLEAN : CouncilCivic(contest)
  \/ InCouncil /\ CouncilAfter
  \/ InGuilds /\ GuildPeople /\ Few
  \/ InGuilds /\ \E p \in Person, t \in Range(TradeOrder) : Master(p, t)
  \/ InGuilds /\ GuildCivic
  \/ InGuilds /\ ScheduleFounding
  \/ InGuilds /\ \E d \in requests : AnswerFounding(d)
  \/ InGuilds /\ GuildAfter
  \/ InFactions /\ FactionPeople /\ Few
  \/ InFactions /\ \E s \in Settlement : Detect(s)
  \/ InFactions /\ \E d \in naming : Form(d)

InTalk == Only({"talk"})

MCTalkNext ==
  \/ InTalk /\ PeopleMove
  \/ InTalk /\ \E w \in BOOLEAN : MaintainVoice(w)
  \/ InTalk /\ RotateCast
  \/ InTalk /\ Talk
  \/ InTalk /\ \E c \in calls : AnswerCall(c)
  \/ InTalk /\ StopAndStart
  \/ InTalk /\ BeginTick

MCNext == CastNext \/ MCEstatesNext \/ InstitutionsNext \/ MCTalkNext
MCSpec == MCInit /\ [][MCNext]_allVars

\* One part alone.
FactionsAlone == InitOf({"factions"}) /\ [][MCNext]_allVars
TalkAlone == InitOf({"talk"}) /\ [][MCNext]_allVars
=============================================================================
