---------------------------- MODULE CadenceGates ----------------------------
(***************************************************************************)
(* The gates that let a settlement's monthly, seasonal and yearly jobs ask *)
(* the model once a period (engine.py: _monthly_gate, _season_year_gate).  *)
(* A job that finds the model busy on its day tries again on the next days *)
(* of a window; what has run, and which window is open, is kept in memory  *)
(* only, so a restart forgets it.                                          *)
(***************************************************************************)
EXTENDS SimClock

CONSTANTS
  Job,
  Boundary,     \* of each job: "month_end", "season_end" or "year_end"
  StartDay,     \* MONTHLY_JOB_DAY, for the monthly jobs
  MonthWindow,  \* MONTHLY_JOB_RETRY_WINDOW_DAYS
  SeasonWindow, \* SEASON_YEAR_JOB_RETRY_WINDOW_DAYS
  FirstDay,     \* Config.start_day_of_year
  LastDay       \* bound: where the run stops

GatesAssumption ==
  /\ ClockAssumption
  /\ Boundary \in [Job -> {"month_end", "season_end", "year_end"}]
  /\ StartDay \in [Job -> Nat]
  /\ MonthWindow \in Nat \ {0} /\ SeasonWindow \in Nat \ {0}
  /\ FirstDay \in Nat /\ LastDay \in Nat

None == 0

VARIABLES
  day,       \* SimClock.day_index
  opened,    \* _season_year_job_window: day and ordinal + 1, None when absent
  resolved,  \* _monthly_job_scheduled_month, _season_year_job_scheduled_ordinal: ordinal + 1
  calls,     \* history: calls made in the current period
  chance,    \* history: was there, on a day of the period's window, a chance to call
  forgot     \* history: was there a restart in the current period

gateVars == <<day, opened, resolved, calls, chance, forgot>>

Monthly(j) == Boundary[j] = "month_end"

GatesTypeOK ==
  /\ day \in Nat
  /\ opened \in [Job -> [day : Nat, ordinal : Nat]]
  /\ resolved \in [Job -> Nat] /\ calls \in [Job -> Nat]
  /\ chance \in [Job -> BOOLEAN] /\ forgot \in [Job -> BOOLEAN]

GatesInit ==
  /\ day = FirstDay
  /\ opened = [j \in Job |-> [day |-> 0, ordinal |-> None]]
  /\ resolved = [j \in Job |-> None]
  /\ calls = [j \in Job |-> 0]
  /\ chance = [j \in Job |-> FALSE] /\ forgot = [j \in Job |-> FALSE]

\* Mutant: a season has the same number in every year.
OrdinalInYear(j, d) ==
  CASE Boundary[j] = "month_end" -> monthOrdinal(d) + 1
    [] Boundary[j] = "season_end" -> seasonIndex(d) + 1
    [] OTHER -> year(d) + 1

\* The number of the period that a boundary begins; 1 more, to leave 0 for none.
Ordinal(j, d) ==
  CASE Boundary[j] = "month_end" -> monthOrdinal(d) + 1
    [] Boundary[j] = "season_end" -> seasonOrdinal(d) + 1
    [] OTHER -> year(d) + 1

\* Mutant: the whole window is open.
MonthGateUnresolved(j, d) ==
  dayOfMonth(d) \in StartDay[j]..(StartDay[j] + MonthWindow - 1)

\* _monthly_gate: the job's day of the month and the days after it, until it has
\* got through this month.
MonthGate(j, d) ==
  /\ dayOfMonth(d) \in StartDay[j]..(StartDay[j] + MonthWindow - 1)
  /\ resolved[j] # Ordinal(j, d)

\* _season_year_gate: the boundary opens a window for the period it begins.
Window(j, d) ==
  IF ~Monthly(j) /\ Boundary[j] \in Crossed(d)
  THEN [day |-> d, ordinal |-> Ordinal(j, d)] ELSE opened[j]

SeasonGate(j, d) ==
  LET window == Window(j, d)
  IN /\ window.ordinal # None
     /\ d - window.day < SeasonWindow
     /\ resolved[j] # window.ordinal

Open(j, d) == IF Monthly(j) THEN MonthGate(j, d) ELSE SeasonGate(j, d)

\* What a job that gets through records.
Mark(j, d) == IF Monthly(j) THEN Ordinal(j, d) ELSE Window(j, d).ordinal

\* What the documentation calls the window: some days from a fixed day of each
\* month, or from the boundary.
InWindow(j, d) ==
  \E k \in 0..(IF Monthly(j) THEN MonthWindow - 1 ELSE SeasonWindow - 1) :
    /\ d - k > FirstDay
    /\ IF Monthly(j)
       THEN dayOfMonth(d - k) = StartDay[j] /\ monthOrdinal(d - k) = monthOrdinal(d)
       ELSE Boundary[j] \in Crossed(d - k)

\* A day ends; the jobs in `free` have something to ask and the model has room.
NewDay(free) ==
  LET d == day + 1
      begins(j) == Boundary[j] \in Crossed(d)
      runs == {j \in free : Open(j, d)}
  IN /\ day < LastDay
     /\ day' = d
     /\ opened' = [j \in Job |-> Window(j, d)]
     /\ resolved' = [j \in Job |-> IF j \in runs THEN Mark(j, d) ELSE resolved[j]]
     /\ calls' = [j \in Job |-> (IF begins(j) THEN 0 ELSE calls[j])
                                 + (IF j \in runs THEN 1 ELSE 0)]
     /\ chance' = [j \in Job |-> (~begins(j) /\ chance[j]) \/ (j \in free /\ InWindow(j, d))]
     /\ forgot' = [j \in Job |-> ~begins(j) /\ forgot[j]]

\* A server is stopped, saves, and is started again: the world goes on from the
\* same day, the engine's books are empty.
Restart ==
  /\ opened' = [j \in Job |-> [day |-> 0, ordinal |-> None]]
  /\ resolved' = [j \in Job |-> None]
  /\ forgot' = [j \in Job |-> TRUE]
  /\ UNCHANGED <<day, calls, chance>>

GatesNext == (\E free \in SUBSET Job : NewDay(free)) \/ Restart

GatesSpec == GatesInit /\ [][GatesNext]_gateVars

-----------------------------------------------------------------------------
OncePerPeriod ==
  \A j \in Job :
    /\ calls[j] > 1 => forgot[j]
    /\ chance[j] /\ (Monthly(j) \/ ~forgot[j]) => calls[j] > 0

\* Retrying does not raise the volume: however often the model was busy, a job
\* calls at most once a period, unless the books were lost in it; and a period
\* in which there was a chance to call on one of its days is not lost.
PeriodsAreKept == GatesTypeOK /\ OncePerPeriod
=============================================================================
