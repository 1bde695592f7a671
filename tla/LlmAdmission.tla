---------------------------- MODULE LlmAdmission ----------------------------
(***************************************************************************)
(* How the tick loop of src/hearthmind/simulation/engine.py admits LLM     *)
(* work: run_forever pauses under pressure or runs one synchronous tick;   *)
(* the tick applies finished goals and what visitors ask for, moves the    *)
(* clock and offers a turn to each job in the fixed order of _TICK_JOBS; a *)
(* job is refused by backpressure, by the daily ceiling or by the cost     *)
(* preflight, or creates background tasks.  Tasks run only while the loop  *)
(* waits, and there the apply of one job may schedule another.             *)
(*                                                                         *)
(* CognitionRunner is abstracted to what its own module proves: its        *)
(* backlog is the number of calls inside run(), and a call ends with a     *)
(* real answer or a fallback.                                              *)
(***************************************************************************)
EXTENDS Integers, Sequences, FiniteSets, SequencesExt, FiniteSetsExt

CONSTANTS
  Agents,      \* core-cast agents, whose goals are decided by cognition
  Jobs,        \* settlement-level jobs
  Critical,    \* jobs scheduled with critical=True
  Ungated,     \* jobs without a backpressure check: what visitors ask for,
               \* naming, skill mastery, era branches
  Early,       \* jobs scheduled before the day's reset: visitors' among them
  EraBranch,   \* the job that an apply schedules when a new era begins
  Inventive,   \* jobs whose apply may begin a new era: invention
  Picks,       \* calls that one passing of a job's gate covers
  Order,       \* _TICK_JOBS, with the agents in the order of `due`
  StartSlots,  \* Config.llm_max_concurrent
  MaxSlots,    \* the tunable's max_value
  PerSlot,     \* BACKPRESSURE_BACKLOG_PER_SLOT
  PauseRatio,  \* LLM_PRESSURE_PAUSE_RATIO
  Ceiling,     \* Config.llm_max_calls_per_day
  PerTick,     \* cognition_budget: agents that may call in one tick
  Stale        \* STALE_GOAL_RESULT_TICKS

Owners == Agents \cup Jobs

ASSUME AdmissionAssumption ==
  /\ IsFiniteSet(Owners) /\ Agents \cap Jobs = {}
  /\ Critical \subseteq Jobs /\ Ungated \subseteq Jobs \ Critical
  /\ EraBranch \in Ungated /\ Early \subseteq Jobs \ {EraBranch}
  /\ Inventive \subseteq Jobs \ (Critical \cup {EraBranch})
  /\ Picks \in [Jobs -> 1..(PerSlot + 1)] /\ \A j \in Early : Picks[j] = 1
  /\ Order \in Seq(Owners) /\ IsInjective(Order)
  /\ ToSet(Order) = Owners \ (Early \cup {EraBranch})
  /\ MaxSlots \in Nat \ {0} /\ StartSlots \in 1..MaxSlots
  /\ PerSlot \in Nat \ {0} /\ PauseRatio \in Nat \ {0}
  /\ {Ceiling, PerTick, Stale} \subseteq Nat

VARIABLES
  phase,      \* "top", "clock", "jobs", "wait", "stopped"
  pos,        \* the turn of _TICK_JOBS that is on
  granted,    \* calls the job may still make on the gate it has passed
  slots,      \* the live concurrency; _backpressure_limit is PerSlot * slots
  band,       \* latency band of the runner's p95
  calls,      \* _llm_calls_today
  reserved,   \* _reserved_this_tick
  scheduled,  \* tasks created and not started, by owner
  running,    \* calls inside CognitionRunner.run, by owner
  branched,   \* history: reservations made by applies since the last tick
  inflight,   \* _inflight_cognition_agent_ids
  pending,    \* _pending_goal_results: how each was decided, or "none"
  callAge,    \* ticks since the snapshot an agent's call is reasoning from
  resultAge,  \* and since the one its pending result was decided from
  goalAge,    \* ticks since the snapshot the agent's goal was decided from
  overtaken,  \* history: agents nudged while their call was out
  did,        \* the apply calls made by the last step
  held,       \* user pause or llama-server restart
  stopping    \* request_stop

turn == <<pos, granted>>
limits == <<slots, band>>
load == <<reserved, scheduled, running, branched>>
results == <<pending, resultAge>>
minds == <<inflight, results, callAge, goalAge, overtaken>>
outside == <<held, stopping>>
vars == <<phase, turn, limits, calls, load, minds, did, outside>>

\* The calls that f counts for the owners in S, and their number.
CallsOf(f, S) == UNION {{o} \X (1..f[o]) : o \in S}
Sum(f, S) == Cardinality(CallsOf(f, S))
Backlog == Sum(running, Owners)
Outstanding == Sum(scheduled, Owners) + Backlog

\* _effective_backlog.
Load == Backlog + reserved

Larger(a, b) == IF a >= b THEN a ELSE b
Smaller(a, b) == IF a <= b THEN a ELSE b

\* _current_backpressure_limit: the floor is the startup value.
LimitAt(s, b) ==
  CASE b = "severe" -> Larger(StartSlots, (PerSlot * s) \div 4)
    [] b = "elevated" -> Larger(StartSlots, (PerSlot * s) \div 2)
    [] OTHER -> PerSlot * s
Limit == LimitAt(slots, band)

\* llm_pressure_paused.
Pressed == Limit > 0 /\ Load >= PauseRatio * Limit

Init ==
  /\ phase = "top" /\ pos = 1 /\ granted = 0
  /\ slots = StartSlots /\ band = "healthy"
  /\ calls = 0 /\ reserved = 0 /\ branched = 0
  /\ scheduled = [o \in Owners |-> 0] /\ running = [o \in Owners |-> 0]
  /\ inflight = {} /\ overtaken = {}
  /\ pending = [a \in Agents |-> "none"]
  /\ callAge = [a \in Agents |-> 0] /\ resultAge = [a \in Agents |-> 0]
  /\ goalAge = [a \in Agents |-> 0]
  /\ did = {}
  /\ held = FALSE /\ stopping = FALSE

-----------------------------------------------------------------------------
(* run_forever and the tick up to the jobs *)

\* The loop skips the tick and polls again soon.
SkipTick ==
  /\ phase = "top" /\ ~stopping
  /\ held \/ Pressed
  /\ phase' = "wait"
  /\ did' = {}
  /\ UNCHANGED <<turn, limits, calls, load, minds, outside>>

\* The tick begins: reservations start afresh and the goals decided since
\* the last tick are applied, unless their snapshot is too old.
BeginTick ==
  /\ phase = "top" /\ ~stopping
  /\ ~held /\ ~Pressed
  /\ phase' = "clock"
  /\ reserved' = 0
  /\ goalAge' = [a \in Agents |->
       IF pending[a] # "none" /\ resultAge[a] <= Stale
       THEN resultAge[a] ELSE goalAge[a]]
  /\ pending' = [a \in Agents |-> "none"]
  /\ resultAge' = [a \in Agents |-> 0]
  /\ overtaken' = {a \in overtaken : pending[a] = "none"}
  /\ did' = {}
  /\ UNCHANGED <<turn, limits, calls, scheduled, running, branched, inflight,
                 callAge, outside>>

\* The agent_goal intervention: the goal is written at once, and nothing is
\* done about a call that is out.  (The interventions that ask for a text are
\* Early jobs.)
Nudge(a) ==
  /\ phase = "clock"
  /\ goalAge' = [goalAge EXCEPT ![a] = 0]
  /\ overtaken' = overtaken \cup ({a} \cap inflight)
  /\ did' = {}
  /\ UNCHANGED <<phase, turn, limits, calls, load, inflight, results, callAge, outside>>

Older(n) == IF n > Stale THEN n ELSE n + 1
AgeByATick ==
  /\ callAge' = [a \in Agents |-> IF a \in inflight THEN Older(callAge[a]) ELSE 0]
  /\ goalAge' = [a \in Agents |-> Older(goalAge[a])]

\* world.tick without a day_end.
Clock ==
  /\ phase = "clock"
  /\ phase' = "jobs" /\ pos' = 1
  /\ AgeByATick
  /\ did' = {}
  /\ UNCHANGED <<granted, limits, calls, load, inflight, results, overtaken, outside>>

\* world.tick with a day_end: the ceiling starts afresh and the concurrency may
\* be tuned (ConcurrencyTuning).
DayEnd(s) ==
  /\ phase = "clock"
  /\ phase' = "jobs" /\ pos' = 1
  /\ AgeByATick
  /\ calls' = 0
  /\ slots' = s
  /\ did' = {}
  /\ UNCHANGED <<granted, band, load, inflight, results, overtaken, outside>>

-----------------------------------------------------------------------------
(* The turns of the agents *)

Turn(o) ==
  /\ phase = "jobs" /\ pos <= Len(Order)
  /\ Order[pos] = o
EndTurn == pos' = pos + 1 /\ granted' = 0

\* Mutant: the task is created without a reservation.
CreateTaskUnreserved(o) ==
  /\ scheduled' = [scheduled EXCEPT ![o] = @ + 1]
  /\ UNCHANGED reserved

\* A reservation, and create_task.
CreateTask(o) ==
  /\ reserved' = reserved + 1
  /\ scheduled' = [scheduled EXCEPT ![o] = @ + 1]

\* Nothing, or nothing more: chance and cadence decide who is due, a visitor
\* or a settlement may be the last, and what is due but finds the queue full
\* is dropped until its next cadence.
Pass(o) ==
  /\ Turn(o) /\ EndTurn
  /\ did' = {}
  /\ UNCHANGED <<phase, limits, calls, load, minds, outside>>

\* The agents that were given a call in this tick.
CalledThisTick == Cardinality({a \in Agents : scheduled[a] > 0})

\* Mutant: an agent whose call is out decides by rule meanwhile.
GoalByRuleInflight(a) ==
  /\ Turn(a) /\ EndTurn
  /\ pending' = [pending EXCEPT ![a] = "rule"]
  /\ resultAge' = [resultAge EXCEPT ![a] = 0]
  /\ did' = {}
  /\ UNCHANGED <<phase, limits, calls, load, inflight, callAge, goalAge, overtaken,
                 outside>>

\* A due agent whose moment does not call for the model, or that finds the
\* ceiling or the tick's share spent (nothing else follows from which),
\* decides by rule; the result is queued like the model's.
GoalByRule(a) ==
  /\ Turn(a) /\ EndTurn
  /\ a \notin inflight
  /\ pending' = [pending EXCEPT ![a] = "rule"]
  /\ resultAge' = [resultAge EXCEPT ![a] = 0]
  /\ did' = {}
  /\ UNCHANGED <<phase, limits, calls, load, inflight, callAge, goalAge, overtaken,
                 outside>>

\* A due surveyor is sent exploring, without thought and at once.
Survey(a) ==
  /\ Turn(a) /\ EndTurn
  /\ a \notin inflight
  /\ goalAge' = [goalAge EXCEPT ![a] = 0]
  /\ did' = {}
  /\ UNCHANGED <<phase, limits, calls, load, inflight, results, callAge, overtaken,
                 outside>>

\* A due agent at a significant or triggered moment asks the model; a
\* triggered one has twice the headroom.  _schedule_due_cognition tests the
\* ceiling again before it spends from it, which within one synchronous call
\* cannot come out differently.
AskMind(a, triggered) ==
  /\ Turn(a) /\ EndTurn
  /\ a \notin inflight
  /\ calls < Ceiling /\ CalledThisTick < PerTick
  /\ Load < Limit * (IF triggered THEN 2 ELSE 1)
  /\ calls' = calls + 1
  /\ CreateTask(a)
  /\ inflight' = inflight \cup {a}
  /\ callAge' = [callAge EXCEPT ![a] = 0]
  /\ did' = {}
  /\ UNCHANGED <<phase, limits, running, branched, results, goalAge, overtaken, outside>>

-----------------------------------------------------------------------------
(* The jobs: as often in their turn as they have settlements, people or *)
(* visitors to serve *)

Moment(j) == IF j \in Early THEN phase = "clock" ELSE Turn(j)

\* Mutant: the settlement jobs have no backpressure check.
AdmittedUngated(j) ==
  /\ Moment(j)
  /\ granted' = 0

\* The gate of the job, if it has one: _settlement_job_backpressured, or the
\* stricter ones of pillars and rumours.  personal_belief passes it once for
\* its picks of the month.
Admitted(j) ==
  /\ Moment(j)
  /\ \/ j \in Ungated /\ granted' = 0
     \/ Load < Limit /\ granted' = Picks[j] - 1
     \/ granted > 0 /\ granted' = granted - 1

\* _schedule_llm_job for the branch that a settlement takes in a new era, when
\* `spent` of the day's calls are spent and `applied` is what the step applied
\* so far: a task, or the fallback by one of its two reasons.
ScheduleBranch(spent, applied) ==
  \/ /\ spent < Ceiling
     /\ calls' = spent + 1
     /\ CreateTask(EraBranch)
     /\ did' = applied
  \/ /\ calls' = Smaller(spent + 1, Ceiling)
     /\ UNCHANGED <<reserved, scheduled>>
     /\ did' = applied \cup {<<EraBranch, "fallback">>}

\* The job's apply; that of an invention may bring a settlement into a new era.
Apply(j, answer, spent) ==
  \/ /\ calls' = spent
     /\ UNCHANGED <<reserved, scheduled>>
     /\ did' = {<<j, answer>>}
  \/ j \in Inventive /\ ScheduleBranch(spent, {<<j, answer>>})

\* Mutant: critical work takes the fallback too.
ResolveByFallbackAll(j, spent) == Apply(j, "fallback", spent)

\* No real answer: critical work is left for its next cadence.
ResolveByFallback(j, spent) ==
  \/ j \notin Critical /\ Apply(j, "fallback", spent)
  \/ /\ j \in Critical
     /\ calls' = spent
     /\ UNCHANGED <<reserved, scheduled>>
     /\ did' = {}

Rest == UNCHANGED <<phase, pos, limits, running, branched, minds, outside>>

\* The day's ceiling is reached.
ScheduleSpent(j) ==
  /\ Admitted(j)
  /\ calls >= Ceiling
  /\ ResolveByFallback(j, calls)
  /\ Rest

\* The cost regressor predicts a slow call: the budget is spent all the same.
SchedulePreflight(j) ==
  /\ Admitted(j)
  /\ calls < Ceiling
  /\ ResolveByFallback(j, calls + 1)
  /\ Rest

Schedule(j) ==
  /\ Admitted(j)
  /\ calls < Ceiling
  /\ calls' = calls + 1
  /\ CreateTask(j)
  /\ did' = {}
  /\ Rest

\* Mutant: the reservations outlive the tick.
EndTickReserved ==
  /\ phase = "jobs" /\ pos > Len(Order)
  /\ phase' = "wait"
  /\ branched' = 0
  /\ did' = {}
  /\ UNCHANGED <<turn, limits, calls, reserved, scheduled, running, minds, outside>>

\* The jobs are done: their tasks start as soon as the loop yields.
EndTick ==
  /\ phase = "jobs" /\ pos > Len(Order)
  /\ phase' = "wait"
  /\ reserved' = 0 /\ branched' = 0
  /\ did' = {}
  /\ UNCHANGED <<turn, limits, calls, scheduled, running, minds, outside>>

-----------------------------------------------------------------------------
(* While the loop waits *)

\* A task's coroutine runs up to the call.
StartCall(o) ==
  /\ phase = "wait" /\ scheduled[o] > 0
  /\ scheduled' = [scheduled EXCEPT ![o] = @ - 1]
  /\ running' = [running EXCEPT ![o] = @ + 1]
  /\ did' = {}
  /\ UNCHANGED <<phase, turn, limits, calls, reserved, branched, minds, outside>>

Ends(o) ==
  /\ phase = "wait" /\ running[o] > 0
  /\ running' = [running EXCEPT ![o] = @ - 1]
  /\ band' \in {"healthy", "elevated", "severe"}
  /\ UNCHANGED <<phase, turn, slots, outside>>

ResultArrives(a, answer) ==
  /\ pending' = IF answer = "real" THEN [pending EXCEPT ![a] = "llm"] ELSE pending
  /\ resultAge' = IF answer = "real" THEN [resultAge EXCEPT ![a] = callAge[a]]
                  ELSE resultAge
  /\ callAge' = [callAge EXCEPT ![a] = 0]
  /\ overtaken' = IF answer = "real" THEN overtaken ELSE overtaken \ {a}

\* Mutant: the agent stays in flight when its call fails.
MindAnsweredStuck(a, answer) ==
  /\ Ends(a)
  /\ ResultArrives(a, answer)
  /\ inflight' = IF answer = "real" THEN inflight \ {a} ELSE inflight
  /\ did' = {}
  /\ UNCHANGED <<calls, reserved, scheduled, branched, goalAge>>

\* _run_cognition: a real answer is queued, a fallback leaves the goal alone.
MindAnswered(a, answer) ==
  /\ Ends(a)
  /\ ResultArrives(a, answer)
  /\ inflight' = inflight \ {a}
  /\ did' = {}
  /\ UNCHANGED <<calls, reserved, scheduled, branched, goalAge>>

\* _runner: apply is called, except for critical work that got a fallback.
JobAnswered(j, answer) ==
  /\ Ends(j)
  /\ IF answer = "real" THEN Apply(j, answer, calls) ELSE ResolveByFallback(j, calls)
  /\ branched' = branched + (reserved' - reserved)
  /\ UNCHANGED minds

\* The interval is over: every task that was ready has started by then, but
\* for the branches whose settlements entered their era at the last moment.
WaitOver ==
  /\ phase = "wait" /\ ~stopping
  /\ \A o \in Owners \ {EraBranch} : scheduled[o] = 0
  /\ Sum(scheduled, Owners) <= branched
  /\ phase' = "top"
  /\ did' = {}
  /\ UNCHANGED <<turn, limits, calls, load, minds, outside>>

\* The user pauses or resumes, or the server's restart begins or ends.
Toggle ==
  /\ phase = "wait"
  /\ held' = ~held
  /\ did' = {}
  /\ UNCHANGED <<phase, turn, limits, calls, load, minds, stopping>>

RequestStop ==
  /\ phase = "wait"
  /\ stopping' = TRUE
  /\ did' = {}
  /\ UNCHANGED <<phase, turn, limits, calls, load, minds, held>>

\* run_forever's finally: every background task is cancelled; a coroutine
\* that had started leaves the set of agents in flight, one that had not
\* never entered its try.
Cancelled ==
  /\ phase' = "stopped"
  /\ scheduled' = [o \in Owners |-> 0] /\ running' = [o \in Owners |-> 0]
  /\ inflight' = {a \in inflight : running[a] = 0}
  /\ did' = {}
  /\ UNCHANGED <<turn, limits, calls, reserved, branched, results, callAge,
                 goalAge, overtaken, outside>>

Shutdown == phase = "wait" /\ stopping /\ Cancelled

\* A job raises: the tick ends there, and so does the loop.
JobRaises == phase = "jobs" /\ pos <= Len(Order) /\ Cancelled

-----------------------------------------------------------------------------
Answer == {"real", "fallback"}

Loop == SkipTick \/ BeginTick \/ EndTick \/ WaitOver \/ Shutdown

Passing == \E o \in Owners : Pass(o)

Turns ==
  \/ Passing
  \/ \E a \in Agents : Nudge(a) \/ GoalByRule(a) \/ Survey(a)
  \/ \E a \in Agents, triggered \in BOOLEAN : AskMind(a, triggered)
  \/ \E j \in Jobs : ScheduleSpent(j) \/ SchedulePreflight(j) \/ Schedule(j)

Calendar == Clock \/ \E s \in 1..MaxSlots : DayEnd(s)

Finish(o) ==
  \E answer \in Answer :
    \/ o \in Agents /\ MindAnswered(o, answer)
    \/ o \in Jobs /\ JobAnswered(o, answer)

Next ==
  \/ Loop \/ Turns \/ Calendar
  \/ \E o \in Owners : StartCall(o) \/ Finish(o)
  \/ Toggle \/ RequestStop \/ JobRaises

Spec == Init /\ [][Next]_vars

\* The loop is alive, a job's turn and a tick's interventions are finite, and
\* every call that started ends (CognitionRunner's EveryCallEnds); nobody need
\* ever pause, resume or stop.
FairSpec ==
  /\ Spec
  /\ WF_vars(Loop) /\ WF_vars(Passing) /\ WF_vars(Calendar)
  /\ \A o \in Owners : WF_vars(StartCall(o)) /\ SF_vars(Finish(o))

-----------------------------------------------------------------------------
(* Properties *)

\* The types; the ceiling bounds the calls it counts.
TypeOK ==
  /\ phase \in {"top", "clock", "jobs", "wait", "stopped"}
  /\ pos \in 1..(Len(Order) + 1) /\ granted \in 0..PerSlot
  /\ slots \in 1..MaxSlots /\ band \in {"healthy", "elevated", "severe"}
  /\ calls \in 0..Ceiling
  /\ reserved \in Nat /\ branched \in Nat
  /\ scheduled \in [Owners -> Nat] /\ running \in [Owners -> Nat]
  /\ inflight \subseteq Agents /\ overtaken \subseteq Agents
  /\ pending \in [Agents -> {"none", "rule", "llm"}]
  /\ \A f \in {callAge, resultAge, goalAge} : f \in [Agents -> 0..(Stale + 1)]
  /\ did \subseteq Jobs \X Answer
  /\ held \in BOOLEAN /\ stopping \in BOOLEAN

\* Wherever the load is compared with the limit, it counts every call that
\* was scheduled and has not ended, once: a reservation covers a task until
\* its coroutine is in the runner's backlog, and no longer.  The era branches
\* that applies scheduled since the last tick are the one exception: they may
\* count twice for the pause, and in the tick not at all until they start.
LoadIsExact ==
  /\ phase = "top" => Outstanding <= Load /\ Load <= Outstanding + branched
  /\ phase \in {"clock", "jobs"} =>
       Load <= Outstanding /\ Outstanding <= Load + branched

\* The owners whose calls pass a gate.
Gated == Owners \ Ungated

\* However the limit moves and whatever visitors and other ungated jobs add to
\* the queue, the calls that pass a gate are never more than twice the largest
\* limit.
GatedQueueIsBounded ==
  Sum(scheduled, Gated) + Sum(running, Gated)
    <= 2 * Larger(StartSlots, PerSlot * MaxSlots)

\* An agent is in flight exactly while one call of its own is out, so that it
\* is neither asked twice nor forgotten for ever.
InflightIsExact ==
  phase # "stopped" =>
    \A a \in Agents : scheduled[a] + running[a] = IF a \in inflight THEN 1 ELSE 0

\* A goal is never replaced by one that was decided from an older view of the
\* agent, though answers take any number of ticks and rules and surveys decide
\* at once: only a nudge from outside gives way to an older view, that of the
\* call that was out when it came.
GoalsMoveForward ==
  [][\A a \in Agents : goalAge'[a] > goalAge[a] => phase = "clock" \/ a \in overtaken]_vars

\* "Never replace crucial cognition with simplistic deterministic fallbacks":
\* critical work is never applied from a fallback, by any of its paths.
CriticalNeverFabricated == \A j \in Critical : <<j, "fallback">> \notin did

\* While nobody holds the world and no stop comes, ticks go on, unless the
\* reservations of era branches alone reach the pause: nothing frees those
\* but a tick.
WorldTicks ==
  (<>[](~held /\ ~stopping)) =>
    []<>(phase = "jobs") \/ <>(phase = "stopped") \/ <>[](branched >= PauseRatio * Limit)
=============================================================================
