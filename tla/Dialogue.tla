------------------------------- MODULE Dialogue -------------------------------
(***************************************************************************)
(* Who talks to whom, and what of it takes effect.  Any two people awake   *)
(* at one place exchange a line by rule, once in a cooldown; the pair that *)
(* carries the village's voice speaks through the model, more often, and   *)
(* its lines form a thread that the next call continues.                   *)
(*                                                                         *)
(* The exchanges of a tick take effect at the start of the next one, an    *)
(* answer at the start of the tick after it came.  In between people die   *)
(* and the voice passes to others.                                         *)
(*                                                                         *)
(* The cast and the voice are those of CoreCast, in a settlement that has  *)
(* no name yet (so that nobody decides to leave it).  Who is awake and     *)
(* where is left open.  The thread, a ring of 220 lines, is the set of     *)
(* those who have a line in it.                                            *)
(***************************************************************************)
EXTENDS CoreCast, Functions

CONSTANTS
  Cooldown,      \* DIALOGUE_COOLDOWN_TICKS
  Horizon,       \* an entry this old is pruned (older than eight cooldowns)
  MostExchanges, \* MAX_DIALOGUES_PER_TICK
  VoiceCooldown, \* VOICE_DIALOGUE_COOLDOWN_TICKS
  Stale,         \* STALE_DIALOGUE_RESULT_TICKS
  MaxCalls       \* bound: calls of a voice in flight

DialogueAssumption ==
  /\ Cooldown \in Nat \ {0} /\ Horizon \in Nat /\ Horizon >= Cooldown
  /\ MostExchanges \in Nat /\ VoiceCooldown \in Nat \ {0}
  /\ Stale \in Nat /\ MaxCalls \in Nat

VARIABLES
  thread,   \* Population.voice_conversation: whose lines it holds
  books,    \* Population.dialogue_cooldowns: ticks since each pair was chosen
  sinceVoice, \* ticks since Population.voice_dialogue_last_tick
  calls,    \* exchanges the model is asked for: pair and age
  results,  \* SimulationEngine._pending_dialogue_results
  heard     \* history: the pairs whose ordinary exchange took effect less than a
            \* cooldown ago, and how long ago

talkVars == <<thread, books, sinceVoice, calls, results, heard>>

PairOf(P) == kSubset(2, P)
Age == 0..(Stale + 1)

DialogueTypeOK ==
  /\ CastTypeOK
  /\ thread \subseteq Person
  /\ DOMAIN books \subseteq PairOf(Person) /\ \A pair \in DOMAIN books : books[pair] \in 0..Horizon
  /\ sinceVoice \in 0..VoiceCooldown
  /\ calls \subseteq [pair : PairOf(Person), age : Age]
  /\ Cardinality(calls) <= MaxCalls
  /\ results \subseteq [pair : PairOf(Person), age : Age, of : {"voice", "crowd"}]
  /\ DOMAIN heard \subseteq PairOf(Person) /\ \A pair \in DOMAIN heard : heard[pair] < Cooldown

TalkInit ==
  /\ Init
  /\ thread = {} /\ books = <<>> /\ sinceVoice = VoiceCooldown
  /\ calls = {} /\ results = {}
  /\ heard = <<>>

\* The population's part of a tick.
PeopleMove ==
  /\ \/ \E D \in SUBSET living : Die(D)
     \/ ClosePeople
  /\ UNCHANGED talkVars

\* maintain_voice_pair, the thread's side: another pair (or nobody) begins with
\* none.  A week's end that names the same two in another order counts as a change.
MaintainVoice(weekEnds) ==
  /\ MaintainCast(weekEnds)
  /\ thread' \in IF voice' # voice THEN {{}}
                 ELSE IF voice # {} /\ weekEnds THEN {thread, {}} ELSE {thread}
  /\ UNCHANGED <<books, sinceVoice, calls, results, heard>>

RotateCast == Rotate /\ UNCHANGED talkVars

-----------------------------------------------------------------------------
(* due_for_dialogue and due_for_voice_dialogue.                            *)

\* Mutant: an entry goes at half the cooldown.
KeptTooShort ==
  {pair \in DOMAIN books : pair \subseteq living /\ 2 * books[pair] < Cooldown}

\* The books forget the dead and what is too old to matter.
Kept == {pair \in DOMAIN books : pair \subseteq living /\ books[pair] <= Horizon - 1}

\* The pairs that may exchange a line, but for those whose voice is the thread's.
Candidates ==
  {pair \in PairOf(living) \ {voice} : pair \in Kept => books[pair] >= Cooldown}

\* The voice speaks: through the model, or by rule when no call is to be had.
Speak ==
  /\ voice # {} /\ voice \subseteq living
  /\ sinceVoice = VoiceCooldown
  /\ sinceVoice' = 0

\* Both jobs of one tick.
Talk ==
  /\ phase = "fission"
  /\ \E chosen \in SUBSET Candidates :
       /\ Cardinality(chosen) <= MostExchanges
       /\ books' = [pair \in Kept \cup chosen |-> IF pair \in chosen THEN 0 ELSE books[pair]]
       /\ LET crowd == {[pair |-> pair, age |-> 0, of |-> "crowd"] : pair \in chosen}
              byRule == [pair |-> voice, age |-> 0, of |-> "voice"]
          IN \/ /\ Speak /\ Cardinality(calls) < MaxCalls
                /\ calls' = calls \cup {[pair |-> voice, age |-> 0]}
                /\ results' = results \cup crowd
             \/ Speak /\ results' = results \cup crowd \cup {byRule} /\ UNCHANGED calls
             \/ results' = results \cup crowd /\ UNCHANGED <<calls, sinceVoice>>
  /\ phase' = "wait"
  /\ UNCHANGED <<peopleVars, core, voice, founded, named, travelling, pending, thread, heard>>

-----------------------------------------------------------------------------
(* Between two ticks.                                                      *)

\* _run_voice_dialogue returns: both lines go into the thread, whatever became
\* of the pair, and the exchange waits for the next tick.
AnswerCall(c) ==
  /\ phase = "wait" /\ c \in calls
  /\ calls' = calls \ {c}
  /\ thread' = thread \cup c.pair
  /\ results' = results \cup {[pair |-> c.pair, age |-> c.age, of |-> "voice"]}
  /\ UNCHANGED <<peopleVars, castVars, books, sinceVoice, heard>>

\* A stop and a start keep the population's books and lose calls and results.
StopAndStart ==
  /\ phase = "wait" /\ calls \cup results # {}
  /\ calls' = {} /\ results' = {}
  /\ UNCHANGED <<peopleVars, castVars, thread, books, sinceVoice, heard>>

\* What _apply_pending_dialogue_results does not drop: not too old, both alive.
Effective == {r \in results : r.age <= Stale /\ r.pair \subseteq living}

Later(n, bound) == Min({n + 1, bound})

\* The next tick begins: the clock has moved on by one since the last jobs ran.
BeginTick ==
  /\ NextTick
  /\ results' = {}
  /\ LET now == {r.pair : r \in {e \in Effective : e.of = "crowd"}}
         recent == {pair \in DOMAIN heard : heard[pair] + 1 < Cooldown}
     IN heard' = [pair \in now \cup recent |-> IF pair \in now THEN 0 ELSE heard[pair] + 1]
  /\ books' = [pair \in DOMAIN books |-> Later(books[pair], Horizon)]
  /\ sinceVoice' = Later(sinceVoice, VoiceCooldown)
  /\ calls' = {[pair |-> c.pair, age |-> Later(c.age, Stale + 1)] : c \in calls}
  /\ UNCHANGED thread

TalkNext ==
  \/ PeopleMove
  \/ \E w \in BOOLEAN : MaintainVoice(w)
  \/ RotateCast
  \/ Talk
  \/ \E c \in calls : AnswerCall(c)
  \/ StopAndStart
  \/ BeginTick

TalkSpec == TalkInit /\ [][TalkNext]_<<vars, talkVars>>

-----------------------------------------------------------------------------
PaceIsKept ==
  BeginTick => \A r \in Effective : r.of = "crowd" =>
    /\ r.pair \in DOMAIN heard => heard[r.pair] + 1 >= Cooldown
    /\ r.pair # voice

\* What two people say to each other counts once in a cooldown, although the books
\* that keep the pace forget the old and the dead and outlive the results; and
\* the two who carry the voice have no other exchange with each other, although
\* the voice passes on between the choice of a pair and its effect.
TalkKeepsItsPace == []DialogueTypeOK /\ [][PaceIsKept]_<<vars, talkVars>>

\* "Any change clears `voice_conversation` - a new partner has no business
\* continuing the old thread": the thread holds lines of the pair only.
ThreadIsTheirs == phase = "wait" => thread \subseteq voice
=============================================================================
