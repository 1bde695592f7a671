------------------------------- MODULE Guilds -------------------------------
(***************************************************************************)
(* Guilds of masters of a trade.  One forms by itself when a third master  *)
(* lives at the settlement; with two, an ambitious master may ask for one, *)
(* and the answer comes ticks later, when the guild may have formed, the   *)
(* masters died or moved, or a second request have been answered.          *)
(***************************************************************************)
EXTENDS Rolls, Functions

CONSTANTS
  TradeOrder,   \* the trades, in the order they are looked at
  Named,        \* the settlements that have a name: others form no guild
  AutoMasters,  \* GUILD_FORMATION_MASTER_COUNT
  DeliberateMasters,  \* DELIBERATE_GUILD_MIN_MASTERS
  MaxRequests   \* bound: requests in flight

GuildsAssumption ==
  /\ Named \subseteq Settlement
  /\ TradeOrder \in Seq(Range(TradeOrder)) /\ IsInjective(TradeOrder)
  /\ DeliberateMasters \in Nat \ {0} /\ AutoMasters \in Nat /\ MaxRequests \in Nat
  /\ DeliberateMasters < AutoMasters

VARIABLES
  masters,  \* who has ever reached GUILD_SKILL_MASTERY_THRESHOLD, by trade
  guilds,   \* at each settlement the guilds in the order of founding
  requests, \* founding decisions asked for and not answered
  stage

guildsVars == <<home, born, masters, guilds, requests, stage>>

Guild == [trade : Range(TradeOrder), members : SUBSET Person]
Request == [at : Named, trade : Range(TradeOrder), founder : Person]

GuildsTypeOK ==
  /\ PeopleTypeOK
  /\ masters \in [Range(TradeOrder) -> SUBSET born]
  /\ guilds \in [Named -> Seq(Guild)]
  /\ requests \subseteq Request /\ Cardinality(requests) <= MaxRequests
  /\ stage \in {"people", "jobs", "answers"}

GuildsInit ==
  /\ PeopleInit
  /\ masters = [t \in Range(TradeOrder) |-> {}] /\ guilds = [s \in Named |-> <<>>]
  /\ requests = {} /\ stage = "people"

MastersAt(t, s) == masters[t] \cap At(s)
Trades(list) == {list[i].trade : i \in DOMAIN list}

GuildPeople ==
  /\ stage = "people"
  /\ PeopleMoves
  /\ UNCHANGED <<masters, guilds, requests, stage>>

\* Practice, teaching and inheritance only ever raise a skill.
Master(p, t) ==
  /\ stage = "people" /\ p \in living
  /\ masters' = [masters EXCEPT ![t] = @ \cup {p}]
  /\ UNCHANGED <<home, born, guilds, requests, stage>>

\* The trades that have masters enough and no guild form one, in a fixed order;
\* then every guild takes in the masters at home that it lacks.
Ripe(t, s) == Cardinality(MastersAt(t, s)) >= AutoMasters
Vacant(t, s) == t \notin Trades(guilds[s])

FormedAt(s) ==
  LET due == {i \in DOMAIN TradeOrder : Vacant(TradeOrder[i], s) /\ Ripe(TradeOrder[i], s)}
      new == Picked(TradeOrder, due)
  IN guilds[s] \o [i \in DOMAIN new |->
                     [trade |-> new[i], members |-> MastersAt(new[i], s)]]

Joined(list, s) ==
  [i \in DOMAIN list |->
     [list[i] EXCEPT !.members = @ \cup MastersAt(list[i].trade, s)]]

GuildCivic ==
  /\ stage = "people"
  /\ guilds' = [s \in Named |-> Joined(FormedAt(s), s)]
  /\ stage' = "jobs"
  /\ UNCHANGED <<home, born, masters, requests>>

\* Once a month, at the settlement whose turn it is.
ScheduleFounding ==
  /\ stage = "jobs"
  /\ \/ \E s \in Named, t \in Range(TradeOrder) :
          /\ Vacant(t, s)
          /\ Cardinality(MastersAt(t, s)) \in DeliberateMasters..(AutoMasters - 1)
          /\ Cardinality(requests) < MaxRequests
          /\ \E p \in MastersAt(t, s) :
               requests' = requests \cup {[at |-> s, trade |-> t, founder |-> p]}
     \/ UNCHANGED requests
  /\ stage' = "answers"
  /\ UNCHANGED <<home, born, masters, guilds>>

\* Mutant: a guild that formed meanwhile is not looked for.
ValidUnasked(d) ==
  /\ d.founder \in living
  /\ Cardinality(MastersAt(d.trade, d.at)) >= DeliberateMasters

\* found_guild asks again what was asked when the decision was scheduled.  The
\* founder must live, but may have moved.
Valid(d) ==
  /\ Vacant(d.trade, d.at)
  /\ d.founder \in living
  /\ Cardinality(MastersAt(d.trade, d.at)) >= DeliberateMasters

Founded(d) ==
  [guilds EXCEPT ![d.at] =
     Append(@, [trade |-> d.trade, members |-> MastersAt(d.trade, d.at)])]

\* The answer: a refusal and an invalid founding change nothing.
AnswerFounding(d) ==
  /\ stage = "answers" /\ d \in requests
  /\ requests' = requests \ {d}
  /\ \/ Valid(d) /\ guilds' = Founded(d)
     \/ UNCHANGED guilds
  /\ UNCHANGED <<home, born, masters, stage>>

\* Answers that move people, and the next tick.
GuildAfter ==
  /\ stage = "answers"
  /\ \/ /\ \E P \in SUBSET living \ {{}}, s \in Settlement : Settle(P, s)
        /\ UNCHANGED stage
     \/ stage' = "people" /\ UNCHANGED <<home, born>>
  /\ UNCHANGED <<masters, guilds, requests>>

GuildsNext ==
  \/ GuildPeople
  \/ \E p \in Person, t \in Range(TradeOrder) : Master(p, t)
  \/ GuildCivic \/ ScheduleFounding
  \/ \E d \in requests : AnswerFounding(d)
  \/ GuildAfter

GuildsSpec == GuildsInit /\ [][GuildsNext]_guildsVars

-----------------------------------------------------------------------------
TradesDiffer ==
  \A s \in Named :
    \A i, j \in DOMAIN guilds[s] :
      guilds[s][i].trade = guilds[s][j].trade => i = j

\* A settlement never has two guilds of one trade, although one can form by
\* itself, and another founding be answered, while a founding is in flight.
OneGuildPerTrade == GuildsTypeOK /\ TradesDiffer
=============================================================================
