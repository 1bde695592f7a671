------------------------- MODULE LlmAdmissionProofs -------------------------
(***************************************************************************)
(* Proofs about LlmAdmission, for any agents, jobs, limits and order of    *)
(* turns: who is in flight, whose goal may be replaced by what, what       *)
(* critical work is applied from, the load that admission reads, and the   *)
(* bound on the gated calls that are scheduled or running.                 *)
(***************************************************************************)
EXTENDS LlmAdmission, FiniteSetTheorems, TLAPS

-----------------------------------------------------------------------------
(* The invariant *)

\* The owner's turn of this tick is over.
HadTurn(o) == \E i \in 1..(pos - 1) : Order[i] = o

\* A goal that was decided belongs to an agent that is not being asked, is no
\* older than the goal it will replace unless that was a nudge, and is applied
\* before the clock moves.
PendingIsNewer ==
  \A a \in Agents : pending[a] # "none" =>
    /\ a \notin inflight
    /\ a \in overtaken \/ resultAge[a] <= goalAge[a]
    /\ phase # "clock"
    /\ phase = "jobs" => HadTurn(a)

\* Nor is the view of an agent that is being asked, unless it was nudged since.
CallIsNewer == \A a \in inflight : a \in overtaken \/ callAge[a] <= goalAge[a]

Inv == TypeOK /\ InflightIsExact /\ PendingIsNewer /\ CallIsNewer

-----------------------------------------------------------------------------
(* Turns and tasks *)

LEMMA ConstantFacts ==
  /\ Len(Order) \in Nat /\ \A i \in 1..Len(Order) : Order[i] \in Owners
  /\ \A i, j \in 1..Len(Order) : Order[i] = Order[j] => i = j
  /\ StartSlots \in 1..MaxSlots /\ MaxSlots \in Nat
  /\ Ceiling \in Nat /\ Stale \in Nat /\ PerSlot \in Nat /\ PerSlot > 0
  /\ Agents \cap Jobs = {} /\ Critical \subseteq Jobs
  /\ EraBranch \in Jobs /\ EraBranch \in Ungated /\ EraBranch \in Owners
  /\ EraBranch \notin Agents
  /\ \A j \in Jobs : Picks[j] \in 1..(PerSlot + 1)
<1>1. EraBranch \in Jobs /\ Agents \cap Jobs = {}
  BY AdmissionAssumption DEF AdmissionAssumption
<1>. QED
  BY <1>1, AdmissionAssumption DEF AdmissionAssumption, IsInjective, Owners

\* Each owner has one turn in a tick.
LEMMA OneTurn ==
  ASSUME Inv, NEW o, Turn(o), EndTurn
  PROVE  /\ ~HadTurn(o) /\ HadTurn(o)'
         /\ \A q : HadTurn(q) => HadTurn(q)'
         /\ phase = "jobs" /\ pos' \in 1..(Len(Order) + 1) /\ granted' \in 0..PerSlot
<1>1. /\ pos \in Nat /\ pos >= 1 /\ pos <= Len(Order) /\ Order[pos] = o
      /\ pos' = pos + 1 /\ granted' = 0 /\ phase = "jobs"
  BY ConstantFacts DEF Inv, TypeOK, Turn, EndTurn
<1>2. ~HadTurn(o)
  BY <1>1, ConstantFacts DEF HadTurn
<1>3. HadTurn(o)' /\ \A q : HadTurn(q) => HadTurn(q)'
  BY <1>1 DEF HadTurn
<1>. QED
  BY <1>1, <1>2, <1>3, ConstantFacts

\* One task more.
LEMMA TaskFacts ==
  ASSUME Inv, NEW o \in Owners, CreateTask(o)
  PROVE  /\ reserved' = reserved + 1 /\ reserved' \in Nat
         /\ scheduled' \in [Owners -> Nat] /\ scheduled'[o] = scheduled[o] + 1
         /\ \A q \in Owners \ {o} : scheduled'[q] = scheduled[q]
  BY DEF Inv, TypeOK, CreateTask

\* The apply of a job, or its absence, spends at most one call more and may
\* create the one task of an era branch.
LEMMA ApplyFacts ==
  ASSUME Inv, NEW j \in Jobs, NEW answer \in Answer, NEW spent \in 0..Ceiling,
         Apply(j, answer, spent) \/ ResolveByFallback(j, spent)
  PROVE  /\ calls' \in 0..Ceiling /\ did' \subseteq Jobs \X Answer
         /\ UNCHANGED <<reserved, scheduled>> \/ CreateTask(EraBranch)
<1>1. /\ spent \in Nat /\ Ceiling \in Nat /\ spent <= Ceiling
      /\ {<<EraBranch, "fallback">>} \subseteq Jobs \X Answer
  BY ConstantFacts DEF Answer
<1>2. ASSUME NEW ans \in Answer, Apply(j, ans, spent)
      PROVE  /\ calls' \in 0..Ceiling /\ did' \subseteq Jobs \X Answer
             /\ UNCHANGED <<reserved, scheduled>> \/ CreateTask(EraBranch)
  <2>1. {<<j, ans>>} \subseteq Jobs \X Answer
    OBVIOUS
  <2>2. CASE ScheduleBranch(spent, {<<j, ans>>})
    BY <1>1, <2>1, <2>2 DEF ScheduleBranch, Smaller
  <2>3. CASE ~ScheduleBranch(spent, {<<j, ans>>})
    BY <1>2, <2>1, <2>3 DEF Apply
  <2>. QED
    BY <2>2, <2>3
<1>3. ASSUME ResolveByFallback(j, spent)
      PROVE  Apply(j, "fallback", spent) \/
             (calls' = spent /\ UNCHANGED <<reserved, scheduled>> /\ did' = {})
  BY <1>3 DEF ResolveByFallback
<1>4. "fallback" \in Answer
  BY DEF Answer
<1>. QED
  BY <1>2, <1>3, <1>4

-----------------------------------------------------------------------------
(* The invariant begins and is kept *)

LEMMA InitInv == Init => Inv
<1>. SUFFICES ASSUME Init PROVE Inv
  OBVIOUS
<1>1. /\ callAge \in [Agents -> 0..(Stale + 1)] /\ resultAge \in [Agents -> 0..(Stale + 1)]
      /\ goalAge \in [Agents -> 0..(Stale + 1)]
  BY ConstantFacts DEF Init
<1>2. \A o \in Owners : scheduled[o] = 0 /\ running[o] = 0
  BY DEF Init
<1>3. /\ pos \in 1..(Len(Order) + 1) /\ granted \in 0..PerSlot /\ calls \in 0..Ceiling
      /\ reserved \in Nat /\ branched \in Nat
  BY ConstantFacts DEF Init
<1>4. scheduled \in [Owners -> Nat] /\ running \in [Owners -> Nat]
  BY DEF Init
<1>5. TypeOK
  BY <1>1, <1>3, <1>4, ConstantFacts DEF Init, TypeOK
<1>6. InflightIsExact
  BY <1>2 DEF Init, InflightIsExact, Owners
<1>7. PendingIsNewer /\ CallIsNewer
  BY DEF Init, PendingIsNewer, CallIsNewer
<1>. QED
  BY <1>5, <1>6, <1>7 DEF Inv

\* A turn that schedules nothing.
LEMMA PassStep ==
  ASSUME Inv, NEW o \in Owners, Pass(o)
  PROVE  Inv'
<1>1. Turn(o) /\ EndTurn
  BY DEF Pass
<1>2. UNCHANGED <<phase, limits, calls, load, minds, outside>> /\ did' = {}
  BY DEF Pass
<1>. QED
  BY <1>1, <1>2, OneTurn
  DEF Inv, TypeOK, InflightIsExact, PendingIsNewer, CallIsNewer, load, minds,
      results, limits, outside

LEMMA RuleStep ==
  ASSUME Inv, NEW a \in Agents, GoalByRule(a)
  PROVE  Inv'
<1>1. Turn(a) /\ EndTurn /\ a \notin inflight
  BY DEF GoalByRule
<1>2. TypeOK'
  <2>1. /\ pending' \in [Agents -> {"none", "rule", "llm"}]
        /\ resultAge' \in [Agents -> 0..(Stale + 1)]
    BY ConstantFacts DEF Inv, TypeOK, GoalByRule
  <2>2. /\ UNCHANGED <<phase, limits, calls, load, inflight, callAge, goalAge,
                       overtaken, outside>>
        /\ did' = {}
    BY DEF GoalByRule
  <2>. QED
    BY <1>1, <2>1, <2>2, OneTurn DEF Inv, TypeOK, load, limits, outside
<1>3. PendingIsNewer'
  <2>1. /\ goalAge[a] \in Nat /\ resultAge'[a] = 0 /\ phase' = "jobs" /\ HadTurn(a)'
        /\ \A b \in Agents \ {a} : pending'[b] = pending[b] /\ resultAge'[b] = resultAge[b]
        /\ UNCHANGED <<phase, inflight, goalAge, overtaken>>
    BY <1>1, OneTurn, ConstantFacts DEF Inv, TypeOK, GoalByRule
  <2>2. \A b \in Agents : HadTurn(b) => HadTurn(b)'
    BY <1>1, OneTurn
  <2>. QED
    BY <1>1, <2>1, <2>2 DEF Inv, PendingIsNewer
<1>4. InflightIsExact' /\ CallIsNewer'
  <2>1. UNCHANGED <<phase, scheduled, running, inflight, callAge, goalAge, overtaken>>
    BY DEF GoalByRule, load
  <2>. QED
    BY <2>1 DEF Inv, InflightIsExact, CallIsNewer
<1>. QED
  BY <1>2, <1>3, <1>4 DEF Inv

\* A goal that is written at once, to a surveyor or by a visitor.
LEMMA SurveyStep ==
  ASSUME Inv, NEW a \in Agents, Survey(a)
  PROVE  Inv'
<1>1. Turn(a) /\ EndTurn /\ a \notin inflight
  BY DEF Survey
<1>2. /\ UNCHANGED <<phase, limits, calls, load, inflight, results, callAge,
                     overtaken, outside>>
      /\ did' = {} /\ goalAge' = [goalAge EXCEPT ![a] = 0]
  BY DEF Survey
<1>3. /\ goalAge' \in [Agents -> 0..(Stale + 1)]
      /\ \A b \in Agents \ {a} : goalAge'[b] = goalAge[b]
  BY <1>2, ConstantFacts DEF Inv, TypeOK
<1>4. TypeOK'
  BY <1>1, <1>2, <1>3, OneTurn DEF Inv, TypeOK, load, results, limits, outside
<1>5. pending[a] = "none"
  BY <1>1, OneTurn DEF Inv, TypeOK, PendingIsNewer
<1>6. PendingIsNewer'
  BY <1>1, <1>2, <1>3, <1>5, OneTurn DEF Inv, PendingIsNewer, results
<1>7. CallIsNewer'
  BY <1>1, <1>2, <1>3 DEF Inv, TypeOK, CallIsNewer
<1>. QED
  BY <1>2, <1>4, <1>6, <1>7 DEF Inv, InflightIsExact, load

LEMMA NudgeStep ==
  ASSUME Inv, NEW a \in Agents, Nudge(a)
  PROVE  Inv'
<1>1. /\ phase = "clock"
      /\ UNCHANGED <<phase, turn, limits, calls, load, inflight, results, callAge, outside>>
      /\ did' = {} /\ goalAge' = [goalAge EXCEPT ![a] = 0]
      /\ overtaken' = overtaken \cup ({a} \cap inflight)
  BY DEF Nudge
<1>2. /\ goalAge' \in [Agents -> 0..(Stale + 1)] /\ overtaken' \subseteq Agents
      /\ \A b \in Agents \ {a} : goalAge'[b] = goalAge[b]
  BY <1>1, ConstantFacts DEF Inv, TypeOK
<1>3. TypeOK'
  BY <1>1, <1>2 DEF Inv, TypeOK, turn, load, results, limits, outside
<1>4. PendingIsNewer'
  BY <1>1 DEF Inv, PendingIsNewer, results
<1>5. CallIsNewer'
  BY <1>1, <1>2 DEF Inv, TypeOK, CallIsNewer
<1>. QED
  BY <1>1, <1>3, <1>4, <1>5 DEF Inv, InflightIsExact, load

LEMMA AskStep ==
  ASSUME Inv, NEW a \in Agents, NEW triggered \in BOOLEAN, AskMind(a, triggered)
  PROVE  Inv'
<1>1. Turn(a) /\ EndTurn /\ CreateTask(a) /\ a \in Owners /\ a \notin inflight
  BY DEF AskMind, Owners
<1>2. /\ inflight' = inflight \cup {a} /\ callAge' = [callAge EXCEPT ![a] = 0]
      /\ calls' = calls + 1 /\ calls < Ceiling /\ did' = {}
      /\ UNCHANGED <<phase, limits, running, branched, results, goalAge, overtaken, outside>>
  BY DEF AskMind
<1>3. callAge' \in [Agents -> 0..(Stale + 1)] /\ calls' \in 0..Ceiling
  BY <1>2, ConstantFacts DEF Inv, TypeOK
<1>4. TypeOK'
  BY <1>1, <1>2, <1>3, OneTurn, TaskFacts DEF Inv, TypeOK, limits, results, outside
<1>5. InflightIsExact'
  <2>1. phase # "stopped" /\ \A b \in Agents : b \in Owners
    BY <1>1, OneTurn DEF Owners
  <2>2. \A b \in Agents : /\ scheduled[b] \in Nat /\ running[b] \in Nat
                          /\ scheduled[b] + running[b] = IF b \in inflight THEN 1 ELSE 0
    BY <2>1 DEF Inv, TypeOK, InflightIsExact
  <2>3. \A b \in Agents : scheduled'[b] = IF b = a THEN scheduled[b] + 1 ELSE scheduled[b]
    BY <1>1, <2>1, TaskFacts
  <2>. QED
    BY <1>1, <1>2, <2>2, <2>3 DEF InflightIsExact
<1>6. PendingIsNewer'
  BY <1>1, <1>2, OneTurn DEF Inv, TypeOK, PendingIsNewer, results
<1>7. CallIsNewer'
  <2>1. /\ goalAge[a] \in Nat /\ callAge'[a] = 0 /\ inflight \subseteq Agents
        /\ \A b \in Agents \ {a} : callAge'[b] = callAge[b]
    BY <1>2, ConstantFacts DEF Inv, TypeOK
  <2>. QED
    BY <1>2, <2>1 DEF Inv, CallIsNewer
<1>. QED
  BY <1>4, <1>5, <1>6, <1>7 DEF Inv

\* What a job's scheduling may do to the calls.
LEMMA JobFacts ==
  ASSUME Inv, NEW j \in Jobs, ScheduleSpent(j) \/ SchedulePreflight(j) \/ Schedule(j)
  PROVE  /\ Admitted(j) /\ Rest
         /\ calls' \in 0..Ceiling /\ did' \subseteq Jobs \X Answer
         /\ \/ UNCHANGED <<reserved, scheduled>>
            \/ CreateTask(EraBranch)
            \/ CreateTask(j)
<1>1. calls \in 0..Ceiling /\ Ceiling \in Nat /\ "fallback" \in Answer
  BY ConstantFacts DEF Inv, TypeOK, Answer
<1>2. CASE Schedule(j)
  BY <1>1, <1>2 DEF Schedule
<1>3. CASE ScheduleSpent(j)
  BY <1>1, <1>3, ApplyFacts DEF ScheduleSpent
<1>4. CASE SchedulePreflight(j)
  <2>1. calls + 1 \in 0..Ceiling
    BY <1>1, <1>4 DEF SchedulePreflight
  <2>. QED
    BY <1>1, <1>4, <2>1, ApplyFacts DEF SchedulePreflight
<1>. QED
  BY <1>2, <1>3, <1>4

\* And to the gate's grants.
LEMMA GrantFacts ==
  ASSUME Inv, NEW j \in Jobs, Admitted(j)
  PROVE  /\ granted' \in 0..PerSlot /\ phase \in {"clock", "jobs"}
         /\ \/ j \in Ungated /\ granted' = 0
            \/ Load < Limit
            \/ granted > 0 /\ granted' = granted - 1
<1>1. /\ granted \in 0..PerSlot /\ PerSlot \in Nat
      /\ Picks[j] \in 1..(PerSlot + 1)
  BY ConstantFacts DEF Inv, TypeOK
<1>2. phase \in {"clock", "jobs"}
  BY DEF Admitted, Moment, Turn
<1>. QED
  BY <1>1, <1>2 DEF Admitted

LEMMA JobStep ==
  ASSUME Inv, NEW j \in Jobs, ScheduleSpent(j) \/ SchedulePreflight(j) \/ Schedule(j)
  PROVE  Inv'
<1>1. Admitted(j) /\ j \in Owners
      /\ UNCHANGED <<phase, pos, limits, running, branched, minds, outside>>
  BY JobFacts DEF Rest, Owners
<1>2. /\ reserved' \in Nat /\ scheduled' \in [Owners -> Nat]
      /\ \A a \in Agents : scheduled'[a] = scheduled[a]
  <2>1. \A a \in Agents : a \in Owners /\ a # j /\ a # EraBranch
    BY ConstantFacts DEF Owners
  <2>2. CASE CreateTask(j) \/ CreateTask(EraBranch)
    BY <1>1, <2>1, <2>2, TaskFacts, ConstantFacts
  <2>3. CASE UNCHANGED <<reserved, scheduled>>
    BY <2>3 DEF Inv, TypeOK
  <2>. QED
    BY <2>2, <2>3, JobFacts
<1>3. TypeOK'
  BY <1>1, <1>2, JobFacts, GrantFacts DEF Inv, TypeOK, limits, minds, results, outside
<1>4. InflightIsExact' /\ CallIsNewer' /\ PendingIsNewer'
  BY <1>1, <1>2
  DEF Inv, InflightIsExact, CallIsNewer, PendingIsNewer, HadTurn, minds, results
<1>. QED
  BY <1>3, <1>4 DEF Inv

-----------------------------------------------------------------------------
(* The loop and the clock *)

\* The steps that only move the loop between its phases, or hold it.
LEMMA LoopStep ==
  ASSUME Inv, SkipTick \/ EndTick \/ WaitOver \/ Toggle \/ RequestStop
  PROVE  Inv'
<1>1. /\ UNCHANGED <<turn, limits, calls, scheduled, running, minds>>
      /\ did' = {}
  BY DEF SkipTick, EndTick, WaitOver, Toggle, RequestStop, load
<1>2. /\ phase \in {"top", "jobs", "wait"} /\ phase' \in {"top", "wait"}
      /\ reserved' \in Nat /\ branched' \in Nat
      /\ held' \in BOOLEAN /\ stopping' \in BOOLEAN
  <2>1. reserved \in Nat /\ branched \in Nat /\ held \in BOOLEAN /\ stopping \in BOOLEAN
    BY DEF Inv, TypeOK
  <2>2. held' \in BOOLEAN /\ stopping' \in BOOLEAN
    BY <2>1 DEF SkipTick, EndTick, WaitOver, Toggle, RequestStop, outside
  <2>3. /\ phase \in {"top", "jobs", "wait"} /\ phase' \in {"top", "wait"}
        /\ UNCHANGED <<reserved, branched>> \/ (reserved' = 0 /\ branched' = 0)
    BY DEF SkipTick, EndTick, WaitOver, Toggle, RequestStop, load
  <2>. QED
    BY <2>1, <2>2, <2>3
<1>3. TypeOK'
  <2>1. UNCHANGED <<pos, granted, slots, band, calls, scheduled, running, inflight,
                    overtaken, pending, callAge, resultAge, goalAge>>
    BY <1>1 DEF turn, limits, minds, results
  <2>. QED
    BY <1>1, <1>2, <2>1 DEF Inv, TypeOK
<1>. QED
  BY <1>1, <1>2, <1>3
  DEF Inv, minds, results, turn, InflightIsExact, PendingIsNewer, CallIsNewer

LEMMA BeginStep ==
  ASSUME Inv, BeginTick
  PROVE  Inv'
<1>1. /\ phase = "top" /\ phase' = "clock" /\ reserved' = 0
      /\ UNCHANGED <<turn, limits, calls, scheduled, running, branched, inflight,
                     callAge, outside>>
      /\ did' = {} /\ pending' = [a \in Agents |-> "none"]
      /\ resultAge' = [a \in Agents |-> 0]
      /\ overtaken' = {a \in overtaken : pending[a] = "none"}
  BY DEF BeginTick
<1>2. goalAge' \in [Agents -> 0..(Stale + 1)]
  BY ConstantFacts DEF Inv, TypeOK, BeginTick
<1>3. \A a \in inflight : goalAge'[a] = goalAge[a] /\ pending[a] = "none"
  BY DEF Inv, TypeOK, BeginTick, PendingIsNewer
<1>4. TypeOK'
  BY <1>1, <1>2, ConstantFacts DEF Inv, TypeOK, turn, limits, outside
<1>5. CallIsNewer'
  BY <1>1, <1>3 DEF Inv, CallIsNewer
<1>. QED
  BY <1>1, <1>4, <1>5 DEF Inv, InflightIsExact, PendingIsNewer

\* A tick later the calls and the goals are older alike.
LEMMA AgeStep ==
  ASSUME Inv, AgeByATick, inflight' = inflight, overtaken' = overtaken
  PROVE  /\ callAge' \in [Agents -> 0..(Stale + 1)]
         /\ goalAge' \in [Agents -> 0..(Stale + 1)]
         /\ CallIsNewer'
<1>1. \A n \in 0..(Stale + 1) : Older(n) \in 0..(Stale + 1)
  BY ConstantFacts DEF Older
<1>2. \A m, n \in 0..(Stale + 1) : m <= n => Older(m) <= Older(n)
  BY ConstantFacts DEF Older
<1>3. /\ callAge \in [Agents -> 0..(Stale + 1)] /\ goalAge \in [Agents -> 0..(Stale + 1)]
      /\ 0 \in 0..(Stale + 1) /\ inflight \subseteq Agents
  BY ConstantFacts DEF Inv, TypeOK
<1>. HIDE DEF Older
<1>4. callAge' \in [Agents -> 0..(Stale + 1)] /\ goalAge' \in [Agents -> 0..(Stale + 1)]
  BY <1>1, <1>3 DEF AgeByATick
<1>5. \A a \in inflight : callAge'[a] = Older(callAge[a]) /\ goalAge'[a] = Older(goalAge[a])
  BY <1>3 DEF AgeByATick
<1>6. CallIsNewer'
  BY <1>2, <1>3, <1>5 DEF Inv, CallIsNewer
<1>. QED
  BY <1>4, <1>6

LEMMA ClockStep ==
  ASSUME Inv, Calendar
  PROVE  Inv'
<1>1. /\ phase = "clock" /\ phase' = "jobs" /\ pos' = 1 /\ AgeByATick
      /\ did' = {} /\ slots' \in 1..MaxSlots /\ calls' \in 0..Ceiling
      /\ UNCHANGED <<granted, band, load, inflight, results, overtaken, outside>>
  BY ConstantFacts DEF Calendar, Clock, DayEnd, Inv, TypeOK, limits
<1>2. TypeOK'
  BY <1>1, AgeStep, ConstantFacts DEF Inv, TypeOK, load, results, outside
<1>3. InflightIsExact'
  BY <1>1 DEF Inv, InflightIsExact, load
<1>4. PendingIsNewer'
  BY <1>1 DEF Inv, PendingIsNewer, results
<1>. QED
  BY <1>1, <1>2, <1>3, <1>4, AgeStep DEF Inv

LEMMA CancelStep ==
  ASSUME Inv, Shutdown \/ JobRaises
  PROVE  Inv'
<1>1. Cancelled
  BY DEF Shutdown, JobRaises
<1>2. TypeOK'
  BY <1>1, ConstantFacts DEF Inv, TypeOK, Cancelled, turn, limits, results, outside
<1>. QED
  BY <1>1, <1>2
  DEF Cancelled, Inv, InflightIsExact, PendingIsNewer, CallIsNewer, results

-----------------------------------------------------------------------------
(* Calls *)

LEMMA StartStep ==
  ASSUME Inv, NEW o \in Owners, StartCall(o)
  PROVE  Inv'
<1>1. /\ phase = "wait" /\ phase' = "wait" /\ scheduled[o] > 0 /\ did' = {}
      /\ UNCHANGED <<turn, limits, calls, reserved, branched, minds, outside>>
  BY DEF StartCall
<1>2. scheduled \in [Owners -> Nat] /\ running \in [Owners -> Nat]
  BY DEF Inv, TypeOK
<1>3. /\ scheduled' \in [Owners -> Nat] /\ running' \in [Owners -> Nat]
      /\ \A q \in Owners : scheduled'[q] + running'[q] = scheduled[q] + running[q]
  BY <1>1, <1>2 DEF StartCall
<1>4. TypeOK'
  BY <1>1, <1>3, ConstantFacts DEF Inv, TypeOK, turn, limits, minds, results, outside
<1>5. InflightIsExact'
  BY <1>1, <1>3 DEF Inv, InflightIsExact, minds, Owners
<1>. QED
  BY <1>1, <1>4, <1>5 DEF Inv, minds, results, PendingIsNewer, CallIsNewer

\* What the end of any call leaves alone.
LEMMA EndsFacts ==
  ASSUME Inv, NEW o \in Owners, Ends(o)
  PROVE  /\ phase = "wait" /\ phase' = "wait" /\ running[o] > 0
         /\ running' \in [Owners -> Nat] /\ running'[o] = running[o] - 1
         /\ \A q \in Owners \ {o} : running'[q] = running[q]
         /\ band' \in {"healthy", "elevated", "severe"}
         /\ UNCHANGED <<pos, granted, slots, outside>>
  BY DEF Inv, TypeOK, Ends, turn

LEMMA MindStep ==
  ASSUME Inv, NEW a \in Agents, NEW answer \in Answer, MindAnswered(a, answer)
  PROVE  Inv'
<1>1. /\ Ends(a) /\ ResultArrives(a, answer) /\ inflight' = inflight \ {a}
      /\ did' = {} /\ UNCHANGED <<calls, reserved, scheduled, branched, goalAge>>
      /\ a \in Owners
  BY DEF MindAnswered, Owners
<1>2. /\ scheduled \in [Owners -> Nat] /\ running \in [Owners -> Nat]
      /\ scheduled[a] + running[a] = IF a \in inflight THEN 1 ELSE 0
  BY <1>1, EndsFacts DEF Inv, TypeOK, InflightIsExact
<1>3. a \in inflight /\ scheduled[a] = 0 /\ running[a] = 1
  BY <1>1, <1>2, EndsFacts
<1>4. /\ callAge \in [Agents -> 0..(Stale + 1)] /\ resultAge \in [Agents -> 0..(Stale + 1)]
      /\ goalAge \in [Agents -> 0..(Stale + 1)]
      /\ pending \in [Agents -> {"none", "rule", "llm"}] /\ 0 \in 0..(Stale + 1)
      /\ pending[a] = "none"
  BY <1>3, ConstantFacts DEF Inv, TypeOK, PendingIsNewer
<1>5. /\ callAge' \in [Agents -> 0..(Stale + 1)] /\ resultAge' \in [Agents -> 0..(Stale + 1)]
      /\ pending' \in [Agents -> {"none", "rule", "llm"}]
      /\ \A b \in Agents \ {a} : /\ callAge'[b] = callAge[b] /\ resultAge'[b] = resultAge[b]
                                 /\ pending'[b] = pending[b]
                                 /\ b \in overtaken' <=> b \in overtaken
      /\ pending'[a] # "none" => resultAge'[a] = callAge[a] /\ overtaken' = overtaken
      /\ overtaken' \subseteq overtaken
  BY <1>1, <1>4 DEF ResultArrives
<1>6. TypeOK'
  BY <1>1, <1>5, EndsFacts DEF Inv, TypeOK, outside
<1>7. InflightIsExact'
  <2>1. \A b \in Agents : b \in Owners
    BY DEF Owners
  <2>. QED
    BY <1>1, <1>2, <1>3, <2>1, EndsFacts DEF Inv, InflightIsExact
<1>8. PendingIsNewer'
  <2>. SUFFICES ASSUME NEW b \in Agents, pending'[b] # "none"
                PROVE  b \notin inflight' /\ (b \in overtaken' \/ resultAge'[b] <= goalAge'[b])
    BY <1>1, EndsFacts DEF PendingIsNewer
  <2>1. CASE b = a
    BY <1>1, <1>3, <1>5, <2>1 DEF Inv, CallIsNewer
  <2>2. CASE b # a
    BY <1>1, <1>5, <2>2 DEF Inv, PendingIsNewer
  <2>. QED
    BY <2>1, <2>2
<1>9. CallIsNewer'
  BY <1>1, <1>5 DEF Inv, TypeOK, CallIsNewer
<1>. QED
  BY <1>6, <1>7, <1>8, <1>9 DEF Inv

\* The reservation of a branch is the one more that `branched` counts.
LEMMA JobEndFacts ==
  ASSUME Inv, NEW j \in Jobs, NEW answer \in Answer, JobAnswered(j, answer)
  PROVE  /\ Ends(j) /\ UNCHANGED minds
         /\ calls' \in 0..Ceiling /\ did' \subseteq Jobs \X Answer
         /\ \/ UNCHANGED <<reserved, scheduled, branched>>
            \/ CreateTask(EraBranch) /\ branched' = branched + 1
<1>1. calls \in 0..Ceiling /\ reserved \in Nat /\ branched \in Nat
  BY DEF Inv, TypeOK
<1>2. /\ Ends(j) /\ UNCHANGED minds /\ branched' = branched + (reserved' - reserved)
      /\ Apply(j, answer, calls) \/ ResolveByFallback(j, calls)
  BY DEF JobAnswered
<1>3. /\ calls' \in 0..Ceiling /\ did' \subseteq Jobs \X Answer
      /\ UNCHANGED <<reserved, scheduled>> \/ CreateTask(EraBranch)
  BY <1>1, <1>2, ApplyFacts
<1>4. CASE UNCHANGED <<reserved, scheduled>>
  BY <1>1, <1>2, <1>3, <1>4
<1>5. CASE CreateTask(EraBranch)
  BY <1>1, <1>2, <1>3, <1>5 DEF CreateTask
<1>. QED
  BY <1>3, <1>4, <1>5

LEMMA JobEndStep ==
  ASSUME Inv, NEW j \in Jobs, NEW answer \in Answer, JobAnswered(j, answer)
  PROVE  Inv'
<1>1. /\ Ends(j) /\ UNCHANGED minds /\ j \in Owners
      /\ calls' \in 0..Ceiling /\ did' \subseteq Jobs \X Answer
      /\ \A a \in Agents : a \in Owners \ {j} /\ a # EraBranch
  BY JobEndFacts, ConstantFacts DEF Owners
<1>2. /\ reserved' \in Nat /\ branched' \in Nat /\ scheduled' \in [Owners -> Nat]
      /\ \A a \in Agents : scheduled'[a] = scheduled[a]
  <2>1. CASE CreateTask(EraBranch) /\ branched' = branched + 1
    <3>1. branched' \in Nat
      BY <2>1 DEF Inv, TypeOK
    <3>. QED
      BY <1>1, <2>1, <3>1, TaskFacts, ConstantFacts
  <2>2. CASE UNCHANGED <<reserved, scheduled, branched>>
    BY <2>2 DEF Inv, TypeOK
  <2>. QED
    BY <2>1, <2>2, JobEndFacts
<1>3. TypeOK'
  BY <1>1, <1>2, EndsFacts DEF Inv, TypeOK, minds, results, outside
<1>4. InflightIsExact' /\ PendingIsNewer' /\ CallIsNewer'
  BY <1>1, <1>2, EndsFacts
  DEF Inv, InflightIsExact, PendingIsNewer, CallIsNewer, minds, results
<1>. QED
  BY <1>3, <1>4 DEF Inv

-----------------------------------------------------------------------------
(* The invariant holds *)

LEMMA NextInv == Inv /\ [Next]_vars => Inv'
<1>. SUFFICES ASSUME Inv, [Next]_vars PROVE Inv'
  OBVIOUS
<1>1. CASE Loop
  BY <1>1, LoopStep, BeginStep, CancelStep DEF Loop
<1>2. CASE Turns
  <2>1. CASE Passing
    BY <2>1, PassStep DEF Passing
  <2>2. ASSUME NEW a \in Agents, Nudge(a) \/ GoalByRule(a) \/ Survey(a) PROVE Inv'
    BY <2>2, NudgeStep, RuleStep, SurveyStep
  <2>3. ASSUME NEW a \in Agents, NEW triggered \in BOOLEAN, AskMind(a, triggered)
        PROVE  Inv'
    BY <2>3, AskStep
  <2>4. ASSUME NEW j \in Jobs, ScheduleSpent(j) \/ SchedulePreflight(j) \/ Schedule(j)
        PROVE  Inv'
    BY <2>4, JobStep
  <2>. QED
    BY <1>2, <2>1, <2>2, <2>3, <2>4 DEF Turns
<1>3. CASE Calendar
  BY <1>3, ClockStep
<1>4. ASSUME NEW o \in Owners, StartCall(o) PROVE Inv'
  BY <1>4, StartStep
<1>5. ASSUME NEW o \in Owners, Finish(o) PROVE Inv'
  BY <1>5, MindStep, JobEndStep DEF Finish
<1>6. CASE Toggle \/ RequestStop
  BY <1>6, LoopStep
<1>7. CASE JobRaises
  BY <1>7, CancelStep
<1>8. CASE UNCHANGED vars
  BY <1>8
  DEF vars, turn, limits, load, minds, results, outside, Inv, TypeOK, InflightIsExact,
      PendingIsNewer, CallIsNewer, HadTurn
<1>. QED
  BY <1>1, <1>2, <1>3, <1>4, <1>5, <1>6, <1>7, <1>8 DEF Next

-----------------------------------------------------------------------------
(* The theorems *)

\* The types of the loop's state; the day's calls stay within the ceiling.
THEOREM TypeCorrect == Spec => []TypeOK
<1>1. Inv => TypeOK
  BY DEF Inv
<1>. QED
  BY <1>1, InitInv, NextInv, PTL DEF Spec

\* An agent in flight has exactly one call out, and no other agent has any.
THEOREM InflightAlwaysExact == Spec => []InflightIsExact
<1>1. Inv => InflightIsExact
  BY DEF Inv
<1>. QED
  BY <1>1, InitInv, NextInv, PTL DEF Spec

\* A decision gives way to one from an older view only where a nudge wrote the
\* goal while that call was out.
THEOREM GoalsOnlyMoveForward == Spec => GoalsMoveForward
<1>1. Inv /\ [Next]_vars =>
        [\A a \in Agents :
           goalAge'[a] > goalAge[a] => phase = "clock" \/ a \in overtaken]_vars
  <2>. SUFFICES ASSUME Inv, Next, NEW a \in Agents, phase # "clock", a \notin overtaken
                PROVE  ~(goalAge'[a] > goalAge[a])
    OBVIOUS
  <2>1. goalAge \in [Agents -> Nat] /\ goalAge[a] \in Nat /\ resultAge[a] \in Nat
    BY ConstantFacts DEF Inv, TypeOK
  <2>2. CASE BeginTick
    <3>1. \/ goalAge'[a] = resultAge[a] /\ pending[a] # "none"
          \/ goalAge'[a] = goalAge[a]
      BY <2>2 DEF BeginTick
    <3>. QED
      BY <2>1, <3>1 DEF Inv, PendingIsNewer
  <2>3. ASSUME NEW b \in Agents, Survey(b)
        PROVE  ~(goalAge'[a] > goalAge[a])
    <3>1. goalAge'[a] = goalAge[a] \/ goalAge'[a] = 0
      BY <2>1, <2>3 DEF Survey
    <3>. QED
      BY <2>1, <3>1
  <2>4. CASE goalAge' = goalAge
    BY <2>1, <2>4
  <2>. QED
    BY <2>2, <2>3, <2>4
    DEF Next, Loop, Turns, Passing, Calendar, Finish, SkipTick, EndTick, WaitOver,
        Shutdown, JobRaises, Cancelled, Pass, Nudge, GoalByRule, AskMind, ScheduleSpent,
        SchedulePreflight, Schedule, Rest, Clock, DayEnd, StartCall, MindAnswered,
        JobAnswered, Toggle, RequestStop, minds
<1>. QED
  BY <1>1, InitInv, NextInv, PTL DEF Spec, GoalsMoveForward

\* No path applies critical work from a fallback.
THEOREM CriticalStaysReal == Spec => []CriticalNeverFabricated
<1>1. Init => CriticalNeverFabricated
  BY DEF Init, CriticalNeverFabricated
<1>2. CriticalNeverFabricated /\ [Next]_vars => CriticalNeverFabricated'
  <2>. SUFFICES ASSUME CriticalNeverFabricated, [Next]_vars
                PROVE  CriticalNeverFabricated'
    OBVIOUS
  <2>1. CASE did' = {} \/ did' = did
    BY <2>1 DEF CriticalNeverFabricated
  <2>2. ASSUME NEW j, NEW answer, NEW spent, Apply(j, answer, spent),
               answer = "real" \/ j \notin Critical
        PROVE  CriticalNeverFabricated'
    <3>1. EraBranch \notin Critical
      BY AdmissionAssumption DEF AdmissionAssumption
    <3>2. did' \subseteq {<<j, answer>>, <<EraBranch, "fallback">>}
      BY <2>2 DEF Apply, ScheduleBranch
    <3>. QED
      BY <2>2, <3>1, <3>2 DEF CriticalNeverFabricated
  <2>3. ASSUME NEW j, NEW spent, ResolveByFallback(j, spent)
        PROVE  CriticalNeverFabricated'
    BY <2>1, <2>2, <2>3 DEF ResolveByFallback
  <2>4. ASSUME NEW j, ScheduleSpent(j) \/ SchedulePreflight(j) \/ Schedule(j)
        PROVE  CriticalNeverFabricated'
    BY <2>1, <2>3, <2>4 DEF ScheduleSpent, SchedulePreflight, Schedule
  <2>5. ASSUME NEW j, NEW answer \in Answer, JobAnswered(j, answer)
        PROVE  CriticalNeverFabricated'
    BY <2>2, <2>3, <2>5 DEF JobAnswered
  <2>. QED
    BY <2>1, <2>4, <2>5
    DEF Next, Loop, Turns, Passing, Calendar, Finish, SkipTick, BeginTick, EndTick,
        WaitOver, Shutdown, JobRaises, Cancelled, Pass, Nudge, GoalByRule, Survey,
        AskMind, Clock, DayEnd, StartCall, MindAnswered, Toggle, RequestStop, vars
<1>. QED
  BY <1>1, <1>2, PTL DEF Spec

-----------------------------------------------------------------------------
(* The load and the queue *)

LEMMA OwnersFinite == IsFiniteSet(Owners) /\ Gated \subseteq Owners
  BY AdmissionAssumption DEF AdmissionAssumption, Gated

\* No call at all.
LEMMA NoCalls ==
  ASSUME NEW f, NEW S, \A o \in S : f[o] = 0
  PROVE  IsFiniteSet(CallsOf(f, S)) /\ Sum(f, S) = 0
<1>1. CallsOf(f, S) = {}
  BY DEF CallsOf
<1>. QED
  BY <1>1, FS_EmptySet DEF Sum

\* The calls of fewer owners.
LEMMA FewerOwners ==
  ASSUME NEW f, NEW S, NEW T \in SUBSET S, IsFiniteSet(CallsOf(f, S))
  PROVE  /\ IsFiniteSet(CallsOf(f, T)) /\ Sum(f, T) \in Nat
         /\ Sum(f, S) \in Nat /\ Sum(f, T) <= Sum(f, S)
<1>1. CallsOf(f, T) \subseteq CallsOf(f, S)
  BY DEF CallsOf
<1>. QED
  BY <1>1, FS_Subset, FS_CardinalityType DEF Sum

\* The same calls.
LEMMA SameCalls ==
  ASSUME NEW f, NEW g, NEW S, \A o \in S : f[o] = g[o]
  PROVE  CallsOf(f, S) = CallsOf(g, S) /\ Sum(f, S) = Sum(g, S)
<1>1. CallsOf(f, S) = CallsOf(g, S)
  BY DEF CallsOf
<1>. QED
  BY <1>1 DEF Sum

\* One call more.
LEMMA OneMore ==
  ASSUME NEW f \in [Owners -> Nat], NEW g \in [Owners -> Nat], NEW S \in SUBSET Owners,
         NEW o \in S, g[o] = f[o] + 1, \A q \in S \ {o} : g[q] = f[q],
         IsFiniteSet(CallsOf(f, S))
  PROVE  IsFiniteSet(CallsOf(g, S)) /\ Sum(f, S) \in Nat /\ Sum(g, S) = Sum(f, S) + 1
<1>. DEFINE c == <<o, f[o] + 1>>
<1>1. c \notin CallsOf(f, S)
  BY DEF CallsOf
<1>2. CallsOf(g, S) = CallsOf(f, S) \cup {c}
  <2>1. ASSUME NEW q \in S, NEW k PROVE <<q, k>> \in CallsOf(f, S) <=> k \in 1..f[q]
    BY DEF CallsOf
  <2>2. ASSUME NEW q \in S, NEW k PROVE <<q, k>> \in CallsOf(g, S) <=> k \in 1..g[q]
    BY DEF CallsOf
  <2>3. 1..g[o] = 1..f[o] \cup {f[o] + 1}
    OBVIOUS
  <2>4. ASSUME NEW q \in S, NEW k
        PROVE  <<q, k>> \in CallsOf(g, S) <=> <<q, k>> \in CallsOf(f, S) \cup {c}
    <3>1. CASE q = o
      BY <2>1, <2>2, <2>3, <3>1
    <3>2. CASE q # o
      BY <2>1, <2>2, <3>2
    <3>. QED
      BY <3>1, <3>2
  <2>5. \A x \in CallsOf(f, S) \cup CallsOf(g, S) \cup {c} :
          \E q \in S, k \in Nat : x = <<q, k>>
    BY DEF CallsOf
  <2>. HIDE DEF c
  <2>. QED
    BY <2>4, <2>5
<1>3. Sum(f, S) \in Nat
  BY FS_CardinalityType DEF Sum
<1>. HIDE DEF c
<1>4. /\ IsFiniteSet(CallsOf(f, S) \cup {c})
      /\ Cardinality(CallsOf(f, S) \cup {c}) = Cardinality(CallsOf(f, S)) + 1
  BY <1>1, FS_AddElement
<1>. QED
  BY <1>2, <1>3, <1>4 DEF Sum

\* One call fewer.
LEMMA OneLess ==
  ASSUME NEW f \in [Owners -> Nat], NEW g \in [Owners -> Nat], NEW S \in SUBSET Owners,
         NEW o \in S, f[o] > 0, g[o] = f[o] - 1, \A q \in S \ {o} : g[q] = f[q],
         IsFiniteSet(CallsOf(f, S))
  PROVE  IsFiniteSet(CallsOf(g, S)) /\ Sum(g, S) \in Nat /\ Sum(f, S) = Sum(g, S) + 1
<1>1. CallsOf(g, S) \subseteq CallsOf(f, S)
  BY DEF CallsOf
<1>2. IsFiniteSet(CallsOf(g, S))
  BY <1>1, FS_Subset
<1>3. f[o] = g[o] + 1 /\ \A q \in S \ {o} : f[q] = g[q]
  OBVIOUS
<1>. QED
  BY <1>2, <1>3, OneMore

\* The most that a limit comes to, and the gated calls that are out.
MostLimit == Larger(StartSlots, PerSlot * MaxSlots)
GatedOut == Sum(scheduled, Gated) + Sum(running, Gated)

\* The calls that are out are numbers.
Finitely == IsFiniteSet(CallsOf(scheduled, Owners)) /\ IsFiniteSet(CallsOf(running, Owners))

\* Between two ticks every reservation is a branch's.
ReservedForBranches ==
  /\ phase \in {"top", "wait"} => reserved = branched
  /\ phase = "top" => /\ \A o \in Owners \ {EraBranch} : scheduled[o] = 0
                      /\ Sum(scheduled, Owners) <= branched

\* Within a tick every task of its own has a reservation, and the tasks that
\* have none are branches.
ReservedForTasks ==
  phase \in {"clock", "jobs"} =>
    /\ Sum(scheduled, Gated) <= reserved
    /\ reserved <= Sum(scheduled, Owners)
    /\ Sum(scheduled, Owners) <= reserved + branched

\* No gate lets a call pass that finds the queue full.
GateHolds == GatedOut + granted <= 2 * MostLimit

QueueInv == Finitely /\ ReservedForBranches /\ ReservedForTasks /\ GateHolds

LEMMA Counts ==
  ASSUME Inv, Finitely
  PROVE  /\ Sum(scheduled, Owners) \in Nat /\ Sum(running, Owners) \in Nat
         /\ Sum(scheduled, Gated) \in Nat /\ Sum(running, Gated) \in Nat
         /\ Sum(scheduled, Gated) <= Sum(scheduled, Owners)
         /\ Sum(running, Gated) <= Sum(running, Owners)
         /\ Outstanding = Sum(scheduled, Owners) + Sum(running, Owners)
         /\ Load = Sum(running, Owners) + reserved /\ Load \in Nat
         /\ reserved \in Nat /\ branched \in Nat /\ granted \in Nat
         /\ GatedOut \in Nat /\ GatedOut = Sum(scheduled, Gated) + Sum(running, Gated)
<1>1. reserved \in Nat /\ branched \in Nat /\ granted \in Nat
  BY ConstantFacts DEF Inv, TypeOK
<1>. QED
  BY <1>1, OwnersFinite, FewerOwners DEF Finitely, Outstanding, Backlog, Load, GatedOut

LEMMA LimitFacts ==
  ASSUME Inv
  PROVE  /\ Limit \in Nat /\ MostLimit \in Nat /\ Limit <= MostLimit
         /\ PerSlot <= MostLimit
<1>1. /\ PerSlot \in Nat /\ MaxSlots \in Nat /\ slots \in Nat /\ slots <= MaxSlots
      /\ 1 <= slots /\ StartSlots \in Nat
  BY AdmissionAssumption DEF AdmissionAssumption, Inv, TypeOK
<1>. DEFINE now == PerSlot * slots
            most == PerSlot * MaxSlots
<1>2. now \in Nat /\ most \in Nat /\ now <= most /\ PerSlot <= most
  <2>1. MaxSlots - slots \in Nat /\ PerSlot * (MaxSlots - slots) \in Nat
    BY <1>1
  <2>2. most = now + PerSlot * (MaxSlots - slots)
    BY <1>1
  <2>3. slots - 1 \in Nat /\ PerSlot * (slots - 1) \in Nat
    BY <1>1
  <2>4. now = PerSlot + PerSlot * (slots - 1)
    BY <1>1
  <2>. QED
    BY <1>1, <2>1, <2>2, <2>3, <2>4
<1>. HIDE DEF now, most
<1>3. /\ Limit = now \/ Limit = Larger(StartSlots, now \div 2)
                    \/ Limit = Larger(StartSlots, now \div 4)
      /\ MostLimit = Larger(StartSlots, most)
  BY DEF Limit, LimitAt, MostLimit, now, most
<1>4. now \div 2 \in Nat /\ now \div 2 <= now /\ now \div 4 \in Nat /\ now \div 4 <= now
  BY <1>2
<1>. QED
  BY <1>1, <1>2, <1>3, <1>4 DEF Larger

LEMMA InitQueue == Init => QueueInv
<1>. SUFFICES ASSUME Init PROVE QueueInv
  OBVIOUS
<1>1. /\ IsFiniteSet(CallsOf(scheduled, Owners)) /\ Sum(scheduled, Owners) = 0
      /\ IsFiniteSet(CallsOf(running, Owners)) /\ Sum(running, Owners) = 0
      /\ Sum(scheduled, Gated) = 0 /\ Sum(running, Gated) = 0
      /\ reserved = 0 /\ branched = 0 /\ granted = 0 /\ phase = "top"
      /\ \A o \in Owners : scheduled[o] = 0
  BY NoCalls, OwnersFinite DEF Init
<1>2. MostLimit \in Nat
  BY InitInv, LimitFacts
<1>. QED
  BY <1>1, <1>2
  DEF QueueInv, Finitely, ReservedForBranches, ReservedForTasks, GateHolds, GatedOut

\* One task more, in all and for the gated owners.
LEMMA TaskSums ==
  ASSUME Inv, Finitely, NEW o \in Owners, CreateTask(o)
  PROVE  /\ IsFiniteSet(CallsOf(scheduled', Owners))
         /\ Sum(scheduled', Owners) = Sum(scheduled, Owners) + 1
         /\ o \in Gated => Sum(scheduled', Gated) = Sum(scheduled, Gated) + 1
         /\ o \notin Gated => Sum(scheduled', Gated) = Sum(scheduled, Gated)
<1>1. /\ scheduled \in [Owners -> Nat] /\ scheduled' \in [Owners -> Nat]
      /\ scheduled'[o] = scheduled[o] + 1
      /\ \A q \in Owners \ {o} : scheduled'[q] = scheduled[q]
      /\ Gated \subseteq Owners
  BY TaskFacts, OwnersFinite DEF Inv, TypeOK
<1>2. IsFiniteSet(CallsOf(scheduled, Owners)) /\ IsFiniteSet(CallsOf(scheduled, Gated))
  BY <1>1, FewerOwners DEF Finitely
<1>3. /\ IsFiniteSet(CallsOf(scheduled', Owners))
      /\ Sum(scheduled', Owners) = Sum(scheduled, Owners) + 1
  BY <1>1, <1>2, OneMore
<1>4. ASSUME o \in Gated PROVE Sum(scheduled', Gated) = Sum(scheduled, Gated) + 1
  BY <1>1, <1>2, <1>4, OneMore
<1>5. ASSUME o \notin Gated PROVE Sum(scheduled', Gated) = Sum(scheduled, Gated)
  <2>1. \A q \in Gated : scheduled'[q] = scheduled[q]
    BY <1>1, <1>5
  <2>. QED
    BY <2>1, SameCalls
<1>. QED
  BY <1>3, <1>4, <1>5

\* The end of a call, in all and for the gated owners.
LEMMA EndSums ==
  ASSUME Inv, Finitely, NEW o \in Owners, Ends(o)
  PROVE  /\ IsFiniteSet(CallsOf(running', Owners))
         /\ Sum(running', Gated) \in Nat /\ Sum(running', Gated) <= Sum(running, Gated)
<1>1. /\ running \in [Owners -> Nat] /\ running' \in [Owners -> Nat] /\ running[o] > 0
      /\ running'[o] = running[o] - 1
      /\ \A q \in Owners \ {o} : running'[q] = running[q] /\ Gated \subseteq Owners
  BY EndsFacts, OwnersFinite DEF Inv, TypeOK
<1>2. IsFiniteSet(CallsOf(running, Owners)) /\ IsFiniteSet(CallsOf(running, Gated))
  BY OwnersFinite, FewerOwners DEF Finitely
<1>3. IsFiniteSet(CallsOf(running', Owners))
  BY <1>1, <1>2, OneLess
<1>4. CASE o \in Gated
  <2>1. Sum(running', Gated) \in Nat /\ Sum(running, Gated) = Sum(running', Gated) + 1
    BY <1>1, <1>2, <1>4, OneLess, OwnersFinite
  <2>. QED
    BY <1>3, <2>1
<1>5. CASE o \notin Gated
  <2>1. \A q \in Gated : running'[q] = running[q]
    BY <1>1, <1>5, OwnersFinite
  <2>2. Sum(running', Gated) = Sum(running, Gated)
    BY <2>1, SameCalls
  <2>. QED
    BY <1>3, <2>2, Counts
<1>. QED
  BY <1>4, <1>5

LEMMA MostIsConstant == MostLimit' = MostLimit
  BY DEF MostLimit

\* A task of the tick: what must hold of the grants for the gate to hold.
LEMMA TaskQueue ==
  ASSUME Inv, QueueInv, NEW o \in Owners, CreateTask(o),
         phase \in {"clock", "jobs"}, UNCHANGED <<phase, running, branched>>,
         granted' \in Nat,
         o \in Gated => GatedOut + 1 + granted' <= 2 * MostLimit,
         o \notin Gated => GatedOut + granted' <= 2 * MostLimit
  PROVE  QueueInv'
<1>1. Finitely'
  BY TaskSums DEF QueueInv, Finitely
<1>2. /\ Sum(scheduled', Owners) = Sum(scheduled, Owners) + 1
      /\ \/ o \in Gated /\ Sum(scheduled', Gated) = Sum(scheduled, Gated) + 1
         \/ o \notin Gated /\ Sum(scheduled', Gated) = Sum(scheduled, Gated)
      /\ reserved' = reserved + 1
  BY TaskSums, TaskFacts DEF QueueInv
<1>3. ReservedForBranches'
  BY DEF ReservedForBranches
<1>4. ReservedForTasks'
  <2>1. /\ Sum(scheduled, Gated) <= reserved /\ reserved <= Sum(scheduled, Owners)
        /\ Sum(scheduled, Owners) <= reserved + branched
    BY DEF QueueInv, ReservedForTasks
  <2>. QED
    BY <1>2, <2>1, Counts DEF QueueInv, ReservedForTasks
<1>5. GateHolds'
  <2>1. GatedOut' = Sum(scheduled', Gated) + Sum(running, Gated)
    BY DEF GatedOut
  <2>. QED
    BY <1>2, <2>1, Counts, MostIsConstant, LimitFacts DEF QueueInv, GateHolds
<1>. QED
  BY <1>1, <1>3, <1>4, <1>5 DEF QueueInv

\* A step that creates and ends nothing.
LEMMA SameQueue ==
  ASSUME Inv, QueueInv, UNCHANGED <<phase, reserved, scheduled, running, branched>>,
         granted' \in Nat, GatedOut + granted' <= 2 * MostLimit
  PROVE  QueueInv'
<1>1. Finitely' /\ ReservedForBranches' /\ ReservedForTasks'
  BY DEF QueueInv, Finitely, ReservedForBranches, ReservedForTasks
<1>2. GatedOut' = GatedOut
  BY DEF GatedOut
<1>. QED
  BY <1>1, <1>2, MostIsConstant DEF QueueInv, GateHolds

LEMMA AgentsQueue ==
  ASSUME Inv, QueueInv, NEW a \in Agents,
         \/ Pass(a) \/ Nudge(a) \/ GoalByRule(a) \/ Survey(a)
         \/ \E triggered \in BOOLEAN : AskMind(a, triggered)
  PROVE  QueueInv'
<1>1. GatedOut \in Nat /\ granted \in Nat /\ GatedOut + granted <= 2 * MostLimit
      /\ MostLimit \in Nat
  BY Counts, LimitFacts DEF QueueInv, GateHolds
<1>2. CASE Pass(a) \/ Nudge(a) \/ GoalByRule(a) \/ Survey(a)
  <2>1. /\ UNCHANGED <<phase, reserved, scheduled, running, branched>>
        /\ granted' = 0 \/ granted' = granted
    BY <1>2 DEF Pass, Nudge, GoalByRule, Survey, EndTurn, turn, load
  <2>. QED
    BY <1>1, <2>1, SameQueue
<1>3. ASSUME NEW triggered \in BOOLEAN, AskMind(a, triggered) PROVE QueueInv'
  <2>1. Load < Limit \/ Load < Limit * 2
    BY <1>3, LimitFacts DEF AskMind
  <2>2. /\ CreateTask(a) /\ phase = "jobs" /\ UNCHANGED <<phase, running, branched>>
        /\ granted' = 0 /\ a \in Owners
    BY <1>3 DEF AskMind, Turn, EndTurn, Owners
  <2>3. GatedOut <= Load
    BY <2>2, Counts DEF QueueInv, ReservedForTasks
  <2>4. GatedOut + 1 <= 2 * MostLimit
    BY <1>1, <2>1, <2>3, Counts, LimitFacts DEF QueueInv
  <2>. QED
    BY <1>1, <2>2, <2>4, TaskQueue
<1>. QED
  BY <1>2, <1>3

LEMMA JobsQueue ==
  ASSUME Inv, QueueInv, NEW j \in Jobs, ScheduleSpent(j) \/ SchedulePreflight(j) \/ Schedule(j)
  PROVE  QueueInv'
<1>1. /\ phase \in {"clock", "jobs"} /\ UNCHANGED <<phase, running, branched>>
      /\ j \in Owners /\ granted' \in Nat /\ EraBranch \in Owners /\ EraBranch \notin Gated
      /\ j \in Gated <=> j \notin Ungated
  BY JobFacts, GrantFacts, ConstantFacts DEF Rest, Gated, Owners
<1>2. /\ GatedOut \in Nat /\ granted \in Nat /\ GatedOut + granted <= 2 * MostLimit
      /\ MostLimit \in Nat
  BY Counts, LimitFacts DEF QueueInv, GateHolds
<1>3. /\ j \in Gated => GatedOut + 1 + granted' <= 2 * MostLimit
      /\ GatedOut + granted' <= 2 * MostLimit
  <2>1. CASE j \in Ungated /\ granted' = 0
    BY <1>1, <1>2, <2>1
  <2>2. CASE Load < Limit
    <3>1. GatedOut <= Load
      BY <1>1, Counts DEF QueueInv, ReservedForTasks
    <3>2. granted' <= PerSlot /\ PerSlot \in Nat /\ granted' \in Nat
      BY JobFacts, GrantFacts, ConstantFacts
    <3>. QED
      BY <1>2, <2>2, <3>1, <3>2, Counts, LimitFacts DEF QueueInv
  <2>3. CASE granted > 0 /\ granted' = granted - 1
    BY <1>2, <2>3
  <2>. QED
    BY <2>1, <2>2, <2>3, JobFacts, GrantFacts
<1>4. CASE CreateTask(j)
  BY <1>1, <1>3, <1>4, TaskQueue
<1>5. CASE CreateTask(EraBranch)
  BY <1>1, <1>3, <1>5, TaskQueue
<1>6. CASE UNCHANGED <<reserved, scheduled>>
  BY <1>1, <1>3, <1>6, SameQueue
<1>. QED
  BY <1>4, <1>5, <1>6, JobFacts

LEMMA TurnsQueue ==
  ASSUME Inv, QueueInv, Turns
  PROVE  QueueInv'
<1>1. ASSUME NEW o \in Owners, Pass(o) PROVE QueueInv'
  <2>1. UNCHANGED <<phase, reserved, scheduled, running, branched>> /\ granted' = 0
    BY <1>1 DEF Pass, EndTurn, load
  <2>2. GatedOut <= 2 * MostLimit
    BY Counts, LimitFacts DEF QueueInv, GateHolds
  <2>3. GatedOut + granted' <= 2 * MostLimit
    BY <2>1, <2>2, Counts DEF QueueInv
  <2>. QED
    BY <2>1, <2>3, SameQueue
<1>. QED
  BY <1>1, AgentsQueue, JobsQueue DEF Turns, Passing

\* A call moves from the tasks to the runner.
LEMMA StartQueue ==
  ASSUME Inv, QueueInv, NEW o \in Owners, StartCall(o)
  PROVE  QueueInv'
<1>1. /\ phase = "wait" /\ phase' = "wait" /\ UNCHANGED <<reserved, branched, granted>>
      /\ scheduled \in [Owners -> Nat] /\ running \in [Owners -> Nat]
      /\ scheduled' \in [Owners -> Nat] /\ running' \in [Owners -> Nat]
      /\ scheduled[o] > 0 /\ scheduled'[o] = scheduled[o] - 1
      /\ running'[o] = running[o] + 1
      /\ \A q \in Owners \ {o} : scheduled'[q] = scheduled[q] /\ running'[q] = running[q]
  BY DEF StartCall, turn, Inv, TypeOK
<1>2. /\ IsFiniteSet(CallsOf(scheduled, Owners)) /\ IsFiniteSet(CallsOf(running, Owners))
      /\ IsFiniteSet(CallsOf(scheduled, Gated)) /\ IsFiniteSet(CallsOf(running, Gated))
      /\ Gated \subseteq Owners
  BY OwnersFinite, FewerOwners DEF QueueInv, Finitely
<1>3. IsFiniteSet(CallsOf(scheduled', Owners)) /\ IsFiniteSet(CallsOf(running', Owners))
  BY <1>1, <1>2, OneLess, OneMore
<1>4. Sum(scheduled', Gated) + Sum(running', Gated) = Sum(scheduled, Gated) + Sum(running, Gated)
  <2>1. CASE o \in Gated
    <3>1. /\ Sum(scheduled', Gated) \in Nat
          /\ Sum(scheduled, Gated) = Sum(scheduled', Gated) + 1
      BY <1>1, <1>2, <2>1, OneLess
    <3>2. Sum(running, Gated) \in Nat /\ Sum(running', Gated) = Sum(running, Gated) + 1
      BY <1>1, <1>2, <2>1, OneMore
    <3>. QED
      BY <3>1, <3>2
  <2>2. CASE o \notin Gated
    <3>1. \A q \in Gated : scheduled'[q] = scheduled[q] /\ running'[q] = running[q]
      BY <1>1, <1>2, <2>2
    <3>. QED
      BY <3>1, SameCalls
  <2>. QED
    BY <2>1, <2>2
<1>5. GatedOut' = GatedOut
  BY <1>4 DEF GatedOut
<1>. QED
  BY <1>1, <1>3, <1>5, MostIsConstant
  DEF QueueInv, Finitely, ReservedForBranches, ReservedForTasks, GateHolds

\* A call ends, and an apply may create the task of a branch.
LEMMA EndQueue ==
  ASSUME Inv, QueueInv, NEW o \in Owners, Ends(o),
         \/ UNCHANGED <<reserved, scheduled, branched>>
         \/ CreateTask(EraBranch) /\ branched' = branched + 1
  PROVE  QueueInv'
<1>1. phase = "wait" /\ phase' = "wait" /\ granted' = granted
  BY EndsFacts
<1>2. /\ IsFiniteSet(CallsOf(running', Owners)) /\ Sum(running', Gated) \in Nat
      /\ Sum(running', Gated) <= Sum(running, Gated)
  BY EndSums DEF QueueInv
<1>3. EraBranch \in Owners /\ EraBranch \notin Gated
  BY ConstantFacts DEF Gated
<1>4. /\ IsFiniteSet(CallsOf(scheduled', Owners))
      /\ Sum(scheduled', Gated) = Sum(scheduled, Gated)
      /\ reserved' = branched'
  <2>1. reserved = branched
    BY <1>1 DEF QueueInv, ReservedForBranches
  <2>2. CASE CreateTask(EraBranch) /\ branched' = branched + 1
    BY <1>3, <2>1, <2>2, TaskSums DEF QueueInv, CreateTask
  <2>3. CASE UNCHANGED <<reserved, scheduled, branched>>
    BY <2>1, <2>3 DEF QueueInv, Finitely
  <2>. QED
    BY <2>2, <2>3
<1>5. GatedOut' = Sum(scheduled', Gated) + Sum(running', Gated)
  BY DEF GatedOut
<1>6. GateHolds'
  BY <1>1, <1>2, <1>4, <1>5, MostIsConstant, Counts, LimitFacts DEF QueueInv, GateHolds
<1>. QED
  BY <1>1, <1>2, <1>4, <1>6
  DEF QueueInv, Finitely, ReservedForBranches, ReservedForTasks

LEMMA LoopQueue ==
  ASSUME Inv, QueueInv, Loop \/ Calendar \/ Toggle \/ RequestStop \/ JobRaises
  PROVE  QueueInv'
<1>1. granted' = granted /\ granted \in Nat
  BY Counts
  DEF QueueInv, Loop, SkipTick, BeginTick, EndTick, WaitOver, Shutdown, Calendar, Clock,
      DayEnd, Toggle, RequestStop, JobRaises, Cancelled, turn
<1>2. CASE Shutdown \/ JobRaises
  <2>1. phase' = "stopped" /\ \A o \in Owners : scheduled'[o] = 0 /\ running'[o] = 0
    BY <1>2 DEF Shutdown, JobRaises, Cancelled
  <2>2. /\ Finitely' /\ Sum(scheduled', Gated) = 0 /\ Sum(running', Gated) = 0
    BY <2>1, NoCalls, OwnersFinite DEF Finitely
  <2>3. GatedOut' = 0
    BY <2>2 DEF GatedOut
  <2>. QED
    BY <1>1, <2>1, <2>2, <2>3, MostIsConstant, Counts, LimitFacts
    DEF QueueInv, ReservedForBranches, ReservedForTasks, GateHolds
<1>3. CASE ~(Shutdown \/ JobRaises)
  <2>1. UNCHANGED <<scheduled, running>>
    BY <1>3 DEF Loop, SkipTick, BeginTick, EndTick, WaitOver, Calendar, Clock, DayEnd,
       Toggle, RequestStop, load
  <2>2. Finitely' /\ GatedOut' = GatedOut
    BY <2>1 DEF QueueInv, Finitely, GatedOut
  <2>3. GateHolds'
    BY <1>1, <2>2, MostIsConstant DEF QueueInv, GateHolds
  <2>4. ReservedForBranches' /\ ReservedForTasks'
    <3>1. CASE Calendar
      BY <3>1 DEF Calendar, Clock, DayEnd, load, QueueInv, ReservedForBranches,
         ReservedForTasks
    <3>2. CASE BeginTick
      <4>1. /\ phase = "top" /\ phase' = "clock" /\ reserved' = 0
            /\ UNCHANGED <<scheduled, branched>>
        BY <3>2 DEF BeginTick
      <4>2. /\ \A o \in Gated : scheduled[o] = 0
            /\ Sum(scheduled, Owners) <= branched
        BY <4>1, ConstantFacts DEF QueueInv, ReservedForBranches, Gated
      <4>3. Sum(scheduled, Gated) = 0
        BY <4>2, NoCalls
      <4>. QED
        BY <4>1, <4>2, <4>3, Counts DEF QueueInv, ReservedForBranches, ReservedForTasks
    <3>3. CASE WaitOver
      BY <3>3 DEF WaitOver, load, QueueInv, ReservedForBranches, ReservedForTasks
    <3>4. CASE SkipTick \/ EndTick \/ Toggle \/ RequestStop
      BY <3>4 DEF SkipTick, EndTick, Toggle, RequestStop, load, QueueInv,
         ReservedForBranches, ReservedForTasks
    <3>. QED
      BY <1>3, <3>1, <3>2, <3>3, <3>4 DEF Loop
  <2>. QED
    BY <2>2, <2>3, <2>4 DEF QueueInv
<1>. QED
  BY <1>2, <1>3

LEMMA NextQueue == Inv /\ QueueInv /\ [Next]_vars => QueueInv'
<1>. SUFFICES ASSUME Inv, QueueInv, [Next]_vars PROVE QueueInv'
  OBVIOUS
<1>1. CASE Loop \/ Calendar \/ Toggle \/ RequestStop \/ JobRaises
  BY <1>1, LoopQueue
<1>2. CASE Turns
  BY <1>2, TurnsQueue
<1>3. ASSUME NEW o \in Owners, StartCall(o) PROVE QueueInv'
  BY <1>3, StartQueue
<1>4. ASSUME NEW o \in Owners, Finish(o) PROVE QueueInv'
  <2>1. ASSUME NEW answer \in Answer, o \in Agents, MindAnswered(o, answer) PROVE QueueInv'
    BY <2>1, EndQueue DEF MindAnswered
  <2>2. ASSUME NEW answer \in Answer, o \in Jobs, JobAnswered(o, answer) PROVE QueueInv'
    BY <2>2, EndQueue, JobEndFacts
  <2>. QED
    BY <1>4, <2>1, <2>2 DEF Finish
<1>5. CASE UNCHANGED vars
  <2>1. UNCHANGED <<phase, reserved, scheduled, running, branched, granted>>
    BY <1>5 DEF vars, load, turn
  <2>2. GatedOut + granted' <= 2 * MostLimit /\ granted' \in Nat
    BY <2>1, Counts DEF QueueInv, GateHolds
  <2>. QED
    BY <2>1, <2>2, SameQueue
<1>. QED
  BY <1>1, <1>2, <1>3, <1>4, <1>5 DEF Next

\* What _effective_backlog compares with a limit is the number of calls that
\* are out, but for the era branches that applies scheduled since the last
\* tick: a reservation covers a task until the runner counts its call.
THEOREM LoadAlwaysExact == Spec => []LoadIsExact
<1>1. Inv /\ QueueInv => LoadIsExact
  BY Counts DEF QueueInv, ReservedForBranches, ReservedForTasks, LoadIsExact
<1>. QED
  BY <1>1, InitInv, NextInv, InitQueue, NextQueue, PTL DEF Spec

\* However the tuned slots and the latency band move the limit, and whatever
\* the ungated jobs add to the queue, the gated calls that are out are never
\* more than twice the largest limit.
THEOREM GatedQueueStaysBounded == Spec => []GatedQueueIsBounded
<1>1. Inv /\ QueueInv => GatedQueueIsBounded
  BY Counts, LimitFacts DEF QueueInv, GateHolds, GatedOut, GatedQueueIsBounded, MostLimit
<1>. QED
  BY <1>1, InitInv, NextInv, InitQueue, NextQueue, PTL DEF Spec
=============================================================================
