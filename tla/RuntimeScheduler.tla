-------------------------- MODULE RuntimeScheduler --------------------------
(***************************************************************************)
(* src/hearthmind/simulation/scheduler.py with reactivity.py: one tick     *)
(* walks the tasks in the registry's topological order, skips those with   *)
(* nothing to react to, defers those whose subsystem has spent its budget, *)
(* forces those deferred too often, and then spends what is left of the    *)
(* tick on deferred background work.                                       *)
(*                                                                         *)
(* DirtyTracker's version counters are kept as the comparison they serve:  *)
(* a key is stale for a task when its version passed the one the task last *)
(* observed.  Wall-clock costs are small numbers of time units.            *)
(***************************************************************************)
EXTENDS Integers, FiniteSets, Sequences, SequencesExt

CONSTANTS
  Order,      \* TaskRegistry.topological_order(): a sequence of task ids
  Class, Trigger, Subsystem, Reads, Writes, EventTypes,  \* Task's fields
  MaxDeferrals,  \* DEFAULT_MAX_DEFERRALS, by priority class
  Budget,     \* SubsystemBudget.seconds_per_tick, by subsystem
  TickBudgets,   \* the values of tick_time_budget_seconds; None is NoSpare
  NoSpare,
  Costs,      \* what one run of a task may cost
  MaxDebt     \* bound: debt_seconds saturates here

Tasks == ToSet(Order)
Subsystems == {Subsystem[t] : t \in Tasks}
Shared == UNION {Reads[t] \cup Writes[t] : t \in Tasks}
Events == UNION {EventTypes[t] : t \in Tasks}

SchedulerAssumption ==
  /\ Order \in Seq(ToSet(Order)) /\ IsInjective(Order)
  /\ \A t \in Tasks :
       /\ Class[t] \in {"critical", "standard", "deferrable", "background", "idle_only"}
       /\ Trigger[t] \in {"periodic", "on_event", "on_dirty", "predicted"}
       /\ MaxDeferrals[Class[t]] \in Nat
       /\ Budget[Subsystem[t]] \in Nat
  \* TaskGraph!OrderIsSafe: no task writes what an earlier one reads.
  /\ \A i, j \in 1..Len(Order) :
       i < j => Writes[Order[j]] \cap Reads[Order[i]] = {}
  /\ Costs \subseteq Nat /\ MaxDebt \in Nat
  /\ TickBudgets \subseteq Nat \cup {NoSpare}

VARIABLES
  pos,        \* 0 between ticks; then the next task; then "spare", "end"
  tickBudget, \* this tick's tick_time_budget_seconds
  elapsed,    \* time since the tick began
  consumed,   \* SubsystemBudget.consumed_this_tick
  debt,       \* SubsystemBudget.debt_seconds
  deferrals,  \* Scheduler._deferral_counts
  stale,      \* the keys each task has not observed since their last write
  bus,        \* EventBus._pending
  ran, deferred, skipped, promoted, spared,  \* TickReport; task -> run count
  candidates, \* spare_capacity_candidates still to be tried
  owed        \* history: ticks a due task has been kept from running

report == <<ran, deferred, skipped, promoted, spared, candidates>>
budgets == <<consumed, debt>>
schedVars == <<pos, tickBudget, elapsed, budgets, deferrals, stale, bus, report, owed>>

Zero(S) == [t \in S |-> 0]
NoReport ==
  /\ ran = Zero(Tasks) /\ deferred = {} /\ skipped = {}
  /\ promoted = {} /\ spared = {} /\ candidates = <<>>

SchedInit ==
  /\ pos = 0 /\ tickBudget = NoSpare /\ elapsed = 0
  /\ consumed = Zero(Subsystems) /\ debt = Zero(Subsystems)
  /\ deferrals = Zero(Tasks)
  /\ stale = [t \in Tasks |-> {}]
  /\ bus = {}
  /\ NoReport
  /\ owed = Zero(Tasks)

Least(a, b) == IF a <= b THEN a ELSE b
Remaining(s) == Budget[s] - consumed[s]  \* > 0 as SubsystemBudget.remaining

\* Mutant: every key read must have changed, where one is enough.
DueAll(t) ==
  CASE Trigger[t] = "on_dirty" -> stale[t] = Reads[t]
    [] Trigger[t] = "on_event" -> bus \cap EventTypes[t] # {}
    [] OTHER -> TRUE

\* Scheduler._due_and_reason.
Due(t) ==
  CASE Trigger[t] = "on_dirty" -> stale[t] # {}
    [] Trigger[t] = "on_event" -> bus \cap EventTypes[t] # {}
    [] OTHER -> TRUE

\* Anyone publishes an event at any time, a task's function included.
Publish(e) ==
  /\ bus' = bus \cup {e}
  /\ UNCHANGED <<pos, tickBudget, elapsed, budgets, deferrals, stale, report, owed>>

\* DirtyTracker.mark_written, for every task that declares the key.
WriteTo(S) == [t \in Tasks |-> stale[t] \cup (S \cap Reads[t])]

\* Between ticks the rest of the engine writes keys.
ExternalWrite(k) ==
  /\ pos = 0
  /\ stale' = WriteTo({k})
  /\ UNCHANGED <<pos, tickBudget, elapsed, budgets, deferrals, bus, report, owed>>

\* run_tick is called.
BeginTick(limit) ==
  /\ pos = 0
  /\ pos' = 1
  /\ tickBudget' = limit
  /\ elapsed' = 0
  /\ ran' = Zero(Tasks) /\ deferred' = {} /\ skipped' = {}
  /\ promoted' = {} /\ spared' = {} /\ candidates' = <<>>
  /\ UNCHANGED <<budgets, deferrals, stale, bus, owed>>

\* The task the main loop is at.
At(t) == /\ pos \in 1..Len(Order)
         /\ t = Order[pos]
         /\ pos' = pos + 1

\* Scheduler._run_one, whether the task's function raises or not: the cost is
\* charged, the deferrals are forgotten, the writes are marked, and an
\* ON_DIRTY task has then observed its reads (its own writes included).
RunOne(t, cost) ==
  /\ elapsed' = elapsed + cost
  /\ consumed' = [consumed EXCEPT ![Subsystem[t]] = @ + cost]
  /\ deferrals' = [deferrals EXCEPT ![t] = 0]
  /\ ran' = [ran EXCEPT ![t] = @ + 1]
  /\ stale' = LET marked == WriteTo(Writes[t])
              IN  IF Trigger[t] = "on_dirty"
                  THEN [marked EXCEPT ![t] = {}] ELSE marked
  /\ UNCHANGED debt

\* Nothing to react to: the deferrals stay as they are.
SkipClean(t) ==
  /\ At(t)
  /\ ~Due(t)
  /\ skipped' = skipped \cup {t}
  /\ UNCHANGED <<tickBudget, elapsed, budgets, deferrals, stale, bus,
                 ran, deferred, promoted, spared, candidates, owed>>

RunCritical(t, cost) ==
  /\ At(t)
  /\ Due(t)
  /\ Class[t] = "critical"
  /\ RunOne(t, cost)
  /\ UNCHANGED <<tickBudget, bus, deferred, skipped, promoted, spared,
                 candidates, owed>>

\* Mutant: the bound is checked one tick too late.
Overdue(t) == deferrals[t] > MaxDeferrals[Class[t]]

Forced(t) == deferrals[t] >= MaxDeferrals[Class[t]]

\* There is budget, or the deferral bound is reached.
RunDue(t, cost) ==
  /\ At(t)
  /\ Due(t)
  /\ Class[t] # "critical"
  /\ Forced(t) \/ Remaining(Subsystem[t]) > 0
  /\ RunOne(t, cost)
  /\ promoted' = IF Forced(t) /\ deferrals[t] > 0 THEN promoted \cup {t} ELSE promoted
  /\ UNCHANGED <<tickBudget, bus, deferred, skipped, spared, candidates, owed>>

Defer(t) ==
  /\ At(t)
  /\ Due(t)
  /\ Class[t] # "critical"
  /\ ~Forced(t) /\ Remaining(Subsystem[t]) <= 0
  /\ deferred' = deferred \cup {t}
  /\ deferrals' = [deferrals EXCEPT ![t] = @ + 1]
  /\ candidates' = IF Class[t] \in {"background", "idle_only"}
                   THEN Append(candidates, t) ELSE candidates
  /\ UNCHANGED <<tickBudget, elapsed, budgets, stale, bus, ran, skipped,
                 promoted, spared, owed>>

\* There is tick time left, counted over every task, for deferred work.
SpareTime ==
  /\ pos = Len(Order) + 1
  /\ tickBudget # NoSpare
  /\ candidates # <<>>
  /\ elapsed < tickBudget

\* Mutant: the task stays on the list of the deferred.
SpareRunListed(cost) ==
  /\ SpareTime
  /\ LET t == Head(candidates) IN
       /\ RunOne(t, cost)
       /\ spared' = spared \cup {t}
  /\ candidates' = Tail(candidates)
  /\ UNCHANGED <<pos, tickBudget, bus, deferred, skipped, promoted, owed>>

\* B2.5: the next deferred background task runs on spare time.
SpareRun(cost) ==
  /\ SpareTime
  /\ LET t == Head(candidates) IN
       /\ RunOne(t, cost)
       /\ deferred' = deferred \ {t}
       /\ spared' = spared \cup {t}
  /\ candidates' = Tail(candidates)
  /\ UNCHANGED <<pos, tickBudget, bus, skipped, promoted, owed>>

\* The end of run_tick: the bus is cleared and the budgets start afresh.
EndTick ==
  /\ pos = Len(Order) + 1
  /\ ~SpareTime
  /\ pos' = 0
  /\ bus' = {}
  /\ debt' = [s \in Subsystems |->
                IF consumed[s] > Budget[s]
                THEN Least(MaxDebt, debt[s] + (consumed[s] - Budget[s]))
                ELSE debt[s]]
  /\ consumed' = Zero(Subsystems)
  /\ owed' = [t \in Tasks |->
                IF ran[t] > 0 THEN 0
                ELSE IF t \in deferred \/ owed[t] > 0
                     THEN Least(owed[t] + 1, MaxDeferrals[Class[t]] + 1)
                     ELSE 0]
  /\ UNCHANGED <<tickBudget, elapsed, deferrals, stale, report>>

TickStep ==
  \/ \E t \in Tasks :
       \/ SkipClean(t)
       \/ Defer(t)
       \/ \E cost \in Costs : RunCritical(t, cost) \/ RunDue(t, cost)
  \/ \E cost \in Costs : SpareRun(cost)
  \/ EndTick

SchedNext ==
  \/ \E e \in Events : Publish(e)
  \/ \E k \in Shared : ExternalWrite(k)
  \/ \E limit \in TickBudgets : BeginTick(limit)
  \/ TickStep

SchedSpec == SchedInit /\ [][SchedNext]_schedVars

\* The tick loop calls run_tick for ever and every call returns.
SchedFairSpec ==
  /\ SchedSpec
  /\ WF_schedVars(TickStep)
  /\ WF_schedVars(\E limit \in TickBudgets : BeginTick(limit))

-----------------------------------------------------------------------------
(* Properties *)

\* The types of the scheduler's state.
SchedTypeOK ==
  /\ pos \in 0..(Len(Order) + 1)
  /\ tickBudget \in TickBudgets \cup {NoSpare}
  /\ elapsed \in Nat
  /\ consumed \in [Subsystems -> Nat] /\ debt \in [Subsystems -> 0..MaxDebt]
  /\ \A t \in Tasks : deferrals[t] \in 0..MaxDeferrals[Class[t]]
  /\ \A t \in Tasks : stale[t] \subseteq Reads[t]
  /\ bus \subseteq Events
  /\ ran \in [Tasks -> Nat]
  /\ ToSet(candidates) \subseteq Tasks

Ran == {t \in Tasks : ran[t] > 0}
Ended == pos = Len(Order) + 1 /\ ~SpareTime  \* the tick's work is done

\* At the end of a tick every task has exactly one outcome, and nothing ran
\* twice though two passes may run it.
EveryTaskAccounted ==
  Ended =>
    /\ Ran \cup deferred \cup skipped = Tasks
    /\ Ran \cap (deferred \cup skipped) = {} /\ deferred \cap skipped = {}
    /\ promoted \cup spared \subseteq Ran /\ promoted \cap spared = {}
    /\ \A t \in Tasks : ran[t] <= 1

\* A task that a tick owes a run is kept from it for at most the bound of its
\* class: "nothing may starve".  An ON_EVENT task is left out, for its cause
\* does not last: the bus is cleared while it waits.
BoundedDeferral ==
  \A t \in Tasks : Trigger[t] # "on_event" => owed[t] <= MaxDeferrals[Class[t]]

\* Writers run before readers, so that a tick ends with an ON_DIRTY reader
\* behind only when it was deferred or when a spare run wrote after it.
ReadersEndTickFresh ==
  Ended => \A t \in Tasks :
    /\ Trigger[t] = "on_dirty"
    /\ stale[t] # {}
    => \/ t \in deferred
       \/ \E u \in spared : Writes[u] \cap Reads[t] # {}

\* What a tick leaves behind, whichever passes its tasks went through: one outcome
\* each, and no reader that fell behind without a deferral or a spare run.
TickIsComplete == EveryTaskAccounted /\ ReadersEndTickFresh

\* Every write is seen: a stale reader runs, however busy its subsystem is.
WritesAreSeen ==
  \A t \in Tasks : Trigger[t] = "on_dirty" => (stale[t] # {} ~> stale[t] = {})
=============================================================================
