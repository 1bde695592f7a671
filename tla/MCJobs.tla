------------------------------- MODULE MCJobs -------------------------------
(***************************************************************************)
(* What runs, in which order and when, one question at a time: `part` is   *)
(* chosen once and the other parts keep their first state.                 *)
(*                                                                         *)
(* "graph": every declaration of three tasks over two keys.                *)
(* "tick": a pipeline of tasks that share one subsystem's budget - a       *)
(* periodic writer, two ON_DIRTY readers in a row, an ON_EVENT listener and *)
(* an idle-only task.  The deferral bounds are smaller than the code's     *)
(* (1, 3, 8, 20) so that every one of them is reached.                     *)
(* "gates": a monthly, a seasonal and a yearly job in a calendar of six    *)
(* short months and two seasons, over two years and more.                  *)
(* "ideas": the registry that the inventing jobs fill and the seasonal one *)
(* sweeps, four concepts where two have room.                              *)
(* "rota": in the same calendar, where the seasons begin three months apart *)
(* as in the real one, the monthly and the seasonal job take turns among   *)
(* the three settlements a world may have.                                 *)
(* "herds": two herds and one that may come, two ticks a day.              *)
(***************************************************************************)
EXTENDS TaskGraph, RuntimeScheduler, Rotation, Innovations, Dormancy, TLC

CONSTANTS
  x, y, z, star,
  weather, crops, ledger, omen, tidy, wx, yield, tax, dusk,
  RotaLastDay

TaskOrder == <<weather, crops, ledger, omen, tidy>>
AllTasks == ToSet(TaskOrder)
TaskClass ==
  weather :> "critical" @@ crops :> "deferrable" @@ ledger :> "background"
  @@ omen :> "standard" @@ tidy :> "idle_only"
TaskTrigger ==
  weather :> "periodic" @@ crops :> "on_dirty" @@ ledger :> "on_dirty"
  @@ omen :> "on_event" @@ tidy :> "periodic"
TaskSubsystem == [t \in AllTasks |-> "land"]
TaskReads == (crops :> {wx} @@ ledger :> {yield, tax}) @@ [t \in AllTasks |-> {}]
TaskWrites == (weather :> {wx} @@ crops :> {yield}) @@ [t \in AllTasks |-> {}]
TaskEvents == (omen :> {dusk}) @@ [t \in AllTasks |-> {}]
DeferralBounds ==
  [critical |-> 0, standard |-> 1, deferrable |-> 1, background |-> 2, idle_only |-> 3]
LandBudget == [s \in {"land"} |-> 1]

Boundaries == Restrict([m |-> "month_end", s |-> "season_end", y |-> "year_end"], Job)
StartDays == [j \in Job |-> 1]
ShortMonths == <<3, 2, 3, 2, 3, 2>>
SeasonOfMonth == <<1, 1, 0, 0, 0, 1>>

VARIABLE part

ASSUME SchedulerAssumption
ASSUME InnovationsAssumption
ASSUME RotationAssumption /\ SeasonsBeginOnce
ASSUME DormancyAssumption

allVars == <<part, vars, schedVars, gateVars, ideaVars, rotaVars, herdVars>>

RotaJobs == Job \ {"y"}

Only(p) ==
  /\ part = p /\ UNCHANGED part
  /\ IF p = "graph" THEN TRUE ELSE UNCHANGED vars
  /\ IF p = "tick" THEN TRUE ELSE UNCHANGED schedVars
  /\ IF p \in {"gates", "rota"} THEN TRUE ELSE UNCHANGED gateVars
  /\ IF p = "ideas" THEN TRUE ELSE UNCHANGED ideaVars
  /\ IF p = "rota" THEN TRUE ELSE UNCHANGED rotaVars
  /\ IF p = "herds" THEN TRUE ELSE UNCHANGED herdVars

InitOf(parts) ==
  /\ part \in parts
  /\ Init
  /\ part # "graph" => reads = [t \in Ids |-> {}] /\ writes = reads
  /\ SchedInit /\ RotationInit /\ IdeasInit /\ DormancyInit

MCInit == InitOf({"graph", "tick", "gates", "ideas", "rota", "herds"})

MCTickStep == Only("tick") /\ TickStep
MCBeginTick == Only("tick") /\ \E limit \in TickBudgets : BeginTick(limit)

MCNext ==
  \/ Only("graph") /\ Pick
  \/ Only("graph") /\ Stop
  \/ status # "sorting" /\ part = "graph" /\ UNCHANGED allVars  \* the sort is done
  \/ Only("tick") /\ (\E e \in Events : Publish(e))
  \/ Only("tick") /\ (\E k \in Shared : ExternalWrite(k))
  \/ MCBeginTick
  \/ Only("tick") /\ (\E t \in Tasks : SkipClean(t))
  \/ Only("tick") /\ (\E t \in Tasks : Defer(t))
  \/ Only("tick") /\ (\E t \in Tasks, cost \in Costs : RunCritical(t, cost))
  \/ Only("tick") /\ (\E t \in Tasks, cost \in Costs : RunDue(t, cost))
  \/ Only("tick") /\ (\E cost \in Costs : SpareRun(cost))
  \/ Only("tick") /\ EndTick
  \/ Only("gates") /\ (\E free \in SUBSET Job : NewDay(free))
  \/ Only("gates") /\ Restart
  \/ Only("ideas") /\ (\E n \in {0, 1}, b \in {"nothing", "open"} : Propose(n, b))
  \/ Only("ideas") /\ (\E parents \in SUBSET stored : AskEvolution(parents))
  \/ Only("ideas") /\ (\E parents \in asked : Evolve(parents))
  \/ Only("ideas") /\ (\E c \in stored, n \in CastSizes : Spread(c, n))
  \/ Only("ideas") /\ (\E age \in {0} \cup Proposed : Sweep(age))
  \/ Only("ideas") /\ (\E c \in reviewed : ConfirmRetirement(c))
  \/ Only("ideas") /\ IdeasRestart
  \/ Only("rota") /\ day < RotaLastDay
     /\ (\E moved \in Reviewed(day + 1), limit \in Limits(day + 1),
            built \in SUBSET (Place \ named),
            free \in SUBSET {j \in RotaJobs : Open(j, day + 1)} :
          RotaDay(free, built, moved, limit))
  \/ Only("rota") /\ RotaRestart
  \/ Only("herds") /\ (\E died, near, lapsed \in SUBSET living, born \in SUBSET unborn, limit \in IdleChecks :
                         Tick(died, born, near, lapsed, limit))
  \/ Only("herds") /\ HerdsRestart

\* The tick loop calls run_tick for ever and every call returns.
MCSpec == MCInit /\ [][MCNext]_allVars /\ WF_allVars(MCTickStep) /\ WF_allVars(MCBeginTick)

\* One part alone.
IdeasAlone == InitOf({"ideas"}) /\ [][MCNext]_allVars
RotaAlone == InitOf({"rota"}) /\ [][MCNext]_allVars
=============================================================================
