-------------------------- MODULE ConcurrencyTuning --------------------------
(***************************************************************************)
(* Two controllers of one tunable, llm_max_concurrent.  Once a day         *)
(* SimulationEngine._maybe_tune_llm_concurrency steps it by measured       *)
(* latency and carries the change to the runner's gate and to the          *)
(* backpressure limit; a HypothesisLoop run, asked for by a user or by     *)
(* the calendar, probes a proposed value in the background, between ticks, *)
(* and then keeps it or rolls it back.                                     *)
(***************************************************************************)
EXTENDS Integers

CONSTANTS
  MaxSlots,   \* the tunable's max_value; its min_value and its step are 1
  Start,      \* Config.llm_max_concurrent
  PerSlot,    \* BACKPRESSURE_BACKLOG_PER_SLOT
  Hints,      \* values of select_strategy's llm_max_concurrent_hint
  Proposals,  \* values a user may propose
  QuietDays,  \* LLM_CONCURRENCY_AUTO_HYPOTHESIS_QUIET_DAYS
  NoHint      \* no strategy was selected yet

ASSUME TuningAssumption ==
  /\ MaxSlots \in Nat \ {0} /\ Start \in 1..MaxSlots
  /\ PerSlot \in Nat \ {0} /\ QuietDays \in Nat
  /\ Hints \subseteq 1..MaxSlots /\ NoHint \notin Hints
  /\ Proposals \subseteq Int

VARIABLES
  value,     \* the tunable in the registry
  slots,     \* CognitionRunner.max_concurrent
  backlogLimit,  \* _backpressure_limit
  evidence,  \* enough calls were attempted to trust the latency window
  strategy,  \* _last_strategy's hint
  quiet,     \* days since the last entry of _adaptive_tuning_log, saturating
  moment,    \* "wait" between ticks, "monthEnd" in a tick that ends a month
  stage,     \* the hypothesis run: "idle", then its awaits in order
  proposed,  \* its proposed value
  before,    \* the value it read when it began
  kept       \* its measurements so far allow it to keep the value

control == <<value, slots, backlogLimit>>
run == <<stage, proposed, before, kept>>
tuningVars == <<control, evidence, strategy, quiet, moment, run>>

\* Tunable.clamp.
Clamp(v) == IF v < 1 THEN 1 ELSE IF v > MaxSlots THEN MaxSlots ELSE v

\* No run: what its fields hold then matters to nobody.
NoRun == stage' = "idle" /\ proposed' = 1 /\ before' = 1 /\ kept' = FALSE

TuningInit ==
  /\ value = Start /\ slots = Start /\ backlogLimit = PerSlot * Start
  /\ evidence = FALSE /\ strategy = NoHint /\ quiet = QuietDays
  /\ moment = "wait"
  /\ stage = "idle" /\ proposed = 1 /\ before = 1 /\ kept = FALSE

-----------------------------------------------------------------------------
(* The daily controller *)

\* BangBangController.step: latency below the target's dead zone raises the
\* concurrency, latency above it lowers it.
Step(latency) ==
  CASE latency = "low" -> Clamp(value + 1)
    [] latency = "high" -> Clamp(value - 1)
    [] OTHER -> value

\* Mutant: host pressure only cancels a rise that has not been clamped.
VetoedRise(v, backOff) == IF v > value + 1 /\ backOff THEN Clamp(v - 1) ELSE v

\* Host pressure turns anything but a step down into a step down.
Vetoed(v, backOff) == IF v >= value /\ backOff THEN Clamp(v - 1) ELSE v

\* A rise stops at the hint, wherever the value was before.
Capped(v, hint) == IF v > value /\ v > hint THEN Clamp(hint) ELSE v

Tuned(latency, backOff, hint) == Capped(Vetoed(Step(latency), backOff), hint)

\* A change is carried to the gate and the limit, and logged.
Carry(v) ==
  /\ slots' = IF v = value THEN slots ELSE v
  /\ backlogLimit' = IF v = value THEN backlogLimit ELSE PerSlot * v
  /\ quiet' = IF v = value
              THEN IF quiet < QuietDays THEN quiet + 1 ELSE quiet
              ELSE 0

\* A day ends with enough evidence.
DailyTune(latency, backOff, hint) ==
  /\ moment = "wait"
  /\ evidence
  /\ value' = Tuned(latency, backOff, hint)
  /\ Carry(Tuned(latency, backOff, hint))
  /\ strategy' = hint
  /\ moment' \in {"wait", "monthEnd"}
  /\ UNCHANGED <<evidence, run>>

\* A day ends without it.
DayWithoutEvidence ==
  /\ moment = "wait"
  /\ ~evidence
  /\ quiet' = IF quiet < QuietDays THEN quiet + 1 ELSE quiet
  /\ evidence' \in BOOLEAN
  /\ moment' \in {"wait", "monthEnd"}
  /\ UNCHANGED <<control, strategy, run>>

-----------------------------------------------------------------------------
(* The hypothesis runs *)

\* _spawn_llm_concurrency_hypothesis: one run at a time.
Spawn(p) ==
  /\ stage = "idle"
  /\ stage' = "spawned"
  /\ proposed' = p
  /\ UNCHANGED <<before, kept>>

\* A user's request, applied at the top of a tick.
AskedByUser(p) ==
  /\ moment = "wait"
  /\ Spawn(p)
  /\ UNCHANGED <<control, evidence, strategy, quiet, moment>>

\* _maybe_auto_llm_concurrency_hypothesis, late in the tick.
AskedByCalendar ==
  /\ moment = "monthEnd"
  /\ moment' = "wait"
  /\ strategy # NoHint /\ quiet >= QuietDays /\ strategy # value
  /\ Spawn(strategy)
  /\ UNCHANGED <<control, evidence, strategy, quiet>>

\* It has no reason to ask.
CalendarPasses ==
  /\ moment = "monthEnd"
  /\ moment' = "wait"
  /\ \/ stage # "idle"
     \/ strategy = NoHint \/ quiet < QuietDays \/ strategy = value
  /\ UNCHANGED <<control, evidence, strategy, quiet, run>>

Background == moment = "wait" /\ UNCHANGED <<evidence, strategy, quiet, moment>>

\* The coroutine reads the live value and awaits the first probe.
Begin ==
  /\ Background /\ stage = "spawned"
  /\ stage' = "probing"
  /\ before' = value
  /\ UNCHANGED <<control, proposed, kept>>

\* Both probes are done: a worse measurement needs no equivalence check.
Probed(improved) ==
  /\ Background /\ stage = "probing"
  /\ kept' = improved
  /\ stage' = IF improved THEN "checking" ELSE "measured"
  /\ UNCHANGED <<control, proposed, before>>

\* Two forked worlds were compared.
Checked(equivalent) ==
  /\ Background /\ stage = "checking"
  /\ kept' = equivalent
  /\ stage' = "measured"
  /\ UNCHANGED <<control, proposed, before>>

\* HypothesisLoop.apply_and_measure: the registry's value, and nothing else.
Apply ==
  /\ Background /\ stage = "measured"
  /\ value' = IF kept THEN Clamp(proposed) ELSE value
  /\ NoRun
  /\ UNCHANGED <<slots, backlogLimit>>

\* Mutant: the flag that a run is under way survives an exception.
RunRaisesStuck ==
  /\ Background /\ stage \in {"probing", "checking"}
  /\ stage' = "failed"
  /\ UNCHANGED <<control, proposed, before, kept>>

\* A probe or the check raises.
RunRaises ==
  /\ Background /\ stage \in {"probing", "checking"}
  /\ NoRun
  /\ UNCHANGED control

Runner ==
  \/ Begin \/ Apply \/ RunRaises
  \/ \E yes \in BOOLEAN : Probed(yes) \/ Checked(yes)

Latencies == {"low", "ok", "high"}

TuningNext ==
  \/ \E latency \in Latencies, backOff \in BOOLEAN, hint \in Hints :
       DailyTune(latency, backOff, hint)
  \/ DayWithoutEvidence
  \/ \E p \in Proposals : AskedByUser(p)
  \/ AskedByCalendar \/ CalendarPasses
  \/ Runner

TuningSpec == TuningInit /\ [][TuningNext]_tuningVars

\* A background task runs whenever the loop waits, and ticks end.
TuningFairSpec == TuningSpec /\ SF_tuningVars(Runner) /\ WF_tuningVars(AskedByCalendar \/ CalendarPasses)

-----------------------------------------------------------------------------
(* Properties *)

\* The types: whatever is proposed, the tunable keeps to its legal range.
TuningTypeOK ==
  /\ value \in 1..MaxSlots /\ slots \in 1..MaxSlots /\ backlogLimit \in Nat
  /\ evidence \in BOOLEAN /\ strategy \in Hints \cup {NoHint}
  /\ quiet \in 0..QuietDays
  /\ moment \in {"wait", "monthEnd"}
  /\ stage \in {"idle", "spawned", "probing", "checking", "measured"}
  /\ proposed \in Proposals \cup Hints \cup {1}
  /\ before \in 1..MaxSlots /\ kept \in BOOLEAN

\* Admission math "stays consistent with the live value, not the frozen
\* startup one", whichever controller moved what.
LimitFollowsGate == backlogLimit = PerSlot * slots

\* "A struggling host and a struggling LLM are two independent reasons to ease
\* off": a day of host pressure never ends with more concurrency than it began
\* with, and with less unless a fast LLM spoke for more or nothing is left.
PressureEases ==
  [][\A latency \in Latencies, hint \in Hints :
       DailyTune(latency, TRUE, hint) =>
         /\ value' <= value
         /\ latency # "low" /\ value > 1 => value' < value]_tuningVars

\* A run that was spawned ends, so that later requests are heard.
RunsEnd == (stage # "idle") ~> (stage = "idle")
=============================================================================

