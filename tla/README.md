# A TLA+ verification of Hearthmind

Hearthmind is a persistent simulated town: one Python process that ticks a
world for ever, asks a local language model (LLM) to think for it in the
background, and saves everything to SQLite. Most of the content of the
simulation is sequential and numeric. What is hard to get right, and what these
specifications are about, is the machinery around it, and the part of the
content that several hands change at once:

* one asyncio event loop on which synchronous ticks alternate with background
  tasks, a thread pool behind it, and a server that may never answer;
* admission and backpressure that decide from counters which other parts move;
* a concurrency gate that is resized while calls queue on it, by two
  controllers that do not know of each other;
* a scheduler with budgets, bounded deferral and reactive triggers;
* calendar jobs that retry in windows, and forget what they did when the process
  restarts;
* a database that is written in several commits, pruned, and read again after
  a kill or a loss of power;
* browsers that come, go and fail while events are buffered for them;
* people who are born, die several at a time, move and are folded away while
  the cast, the institutions, the inheritances and the decisions of the model
  still name them;
* answers of the model that are applied to a world, a registry or a conversation
  that has moved on since they were asked for.

Contents: [inventory](#inventory), [modules](#modules-and-the-code),
[runs](#runs), [fairness](#fairness), [proofs](#proofs),
[divergences](#divergences-met-while-modelling), [not modelled](#not-modelled),
[plan](#plan).

All paths below are relative to `src/hearthmind/` of the repository's root.

## Inventory

### Components, their state and their operations

| Component | State | Operations |
|---|---|---|
| **CognitionRunner** (`llm/jobs.py`) | the gate (`_ResizableSemaphore`: limit, asyncio's value and waiters, pending shrink), `backlog`, call counters, latency windows, one thread per request | `run`, `resize_concurrency`, timeouts, cancellation |
| **Task registry** (`simulation/task_graph.py`) | declared reads and writes of each task | `register`, `topological_order`, `CycleError` |
| **Scheduler** (`simulation/scheduler.py`, `reactivity.py`) | budgets with debt, deferral counts, version counters of the dirty tracker, the event bus | `run_tick` (two passes), `mark_written`, `publish` |
| **Tick loop and LLM admission** (`simulation/engine.py`: `run_forever`, `_tick_once`, `_schedule_*`) | daily call count, reservations of the tick, agents in flight, pending goals, background tasks, pause flags | start of a tick, nudges and requests of visitors, one turn per job of `_TICK_JOBS`, answers of background tasks, pause, stop |
| **Adaptive concurrency** (`simulation/tuning.py`, `optimization_hypothesis.py`, `engine.py`) | the tunable in its registry, the gate, the backpressure limit, the hypothesis run under way | the daily controller with host veto and strategy cap; the background hypothesis run |
| **Persistence** (`persistence/snapshot.py`, `database.py`, `simulation/persistence_scheduling.py`, `timescales.py`) | snapshot rows (full and incremental), the event log and its write buffer, the marks of the snapshot scheduler | commit of a tick, `save_snapshot`, pruning, `load_latest_snapshot` |
| **Patch format** (`persistence/diff.py`) | none | `diff_dict`, `apply_patch` |
| **Server start** (`server.py`, `engine.load_or_create`) | the `world_meta` row, the first snapshot, the founding events | the steps of `_main_async` before the loop |
| **Broadcaster and interventions** (`interface/api.py`, `app.py`, `engine._maybe_broadcast`) | bounded queue of nudges, clients, pause, the buffer of untold events, the tasks that send | enqueue, drain, buffer, build a payload, send |
| **Clock and cadence gates** (`time_system.py`, `engine.py`) | the day; the window each seasonal or yearly job has open, the period each job last got through | `_monthly_gate`, `_season_year_gate`, restart |
| **Population** (`agents/population.py`) | who lives and in which settlement | births, migrants, deaths, moves, districts, successors |
| **Core cast and leaving home** (`population.py`, `engine.py`) | the cast, the voice pair, the settlements, decisions in flight | upkeep and rotation of the cast; migration, fission and their answers |
| **Estates** (`population.py`, `settlement/buildings.py`) | families, huts, mounts, crafts, graves | inheritance, claims, loss and rediscovery of crafts, pruning |
| **Institutions** (`population.py`, `engine.py`) | councils, guilds, factions of each settlement | form, refresh, ask the model, found, prune |
| **Dialogue** (`population.py`, `engine.py`) | the voice's thread, cooldown books, exchanges asked of the model, results of the tick | choose who talks, speak through the model or by rule, apply, prune |
| **Innovations** (`world/ontology.py`, `engine.py`) | invented concepts with adopters, lineage and status, beliefs about them, evolutions and reviews in flight | propose, spread, abandon, select, retire, reinstate, evolve, prune |
| **Whose turn it is** (`engine.py`: `_job_target`, `_update_settlement_dormancy`) | which settlements have a name, how many reviews each has been quiet for, which sleep | choose this month's settlement; the monthly review |
| **Distant wildlife** (`simulation/dormancy.py`, `engine.py`, `world/wildlife.py`) | state and clock of each herd in the manager, days unseen | register, sleep, wake, catch up; the world's tick without the sleepers |
| **Escalation, attention, locality** (`simulation/`) | rungs with hysteresis | escalate, relax |
| **Other content** (`world/`, `economy/`, `cognition/`, `ml/`, the rest of `agents/` and `settlement/`) | the town | synchronous, numeric, seeded |

### How they interact

`run_forever` alternates one synchronous `tick()` with a timed wait. In the
tick nothing else runs; while it waits, every background task, timer and
network callback may. A tick reads the runner's `backlog`, schedules calls as
tasks that start only after the tick, and applies the results that earlier
tasks left in `_pending_goal_results`. Settlement jobs apply their results
themselves, between ticks. Once a day the tick may resize the gate inside the
runner and with it the backpressure limit. At its end the tick flushes the
event buffer, commits, and asks the snapshot scheduler whether to save. A stop
cancels the background tasks and saves a last, full snapshot.

Within the tick the population moves first (`World.tick`), the institutions of
each settlement follow at its end, then the daily district pass, the upkeep of
the cast and the jobs. The answers to founding, migration and naming requests
are applied between ticks, so whatever they name may have died, moved or been
founded by somebody else since. A payload for the browsers is put together at
the end of a tick from what was buffered, and sent by a task.

### What is hard, and what must be true

| Component | Hard behaviour | Correctness |
|---|---|---|
| CognitionRunner | resize against arrival, grant, return, timeout and cancellation; threads that outlive their call; asyncio's one-at-a-time wake-up | permits conserved, none idle while calls queue; the backlog exact on every path; counters add up; one answer per call, every call ends |
| Task registry | several overlaps between two tasks at once, wildcards, cycles | safe, least order; a refusal exactly for cycles |
| Scheduler | two passes over the same tasks, debts, clean-skips against writes within the tick | one outcome per task and tick; nothing starves; no reader is left stale silently; writes are seen |
| Admission | counters that lag behind what was scheduled; the limit moves; results arrive late; the loop pauses on its own queue | the load is exact where it is read; the calls that pass a gate are bounded; nobody is forgotten; goals go back in time for no one but a visitor; critical work is never faked; the world ticks on |
| Adaptive concurrency | read, await twice, decide; two owners of one value | legal range, the limit follows the gate, pressure never raises it, runs end |
| Persistence | kill and power loss anywhere; chains of patches against pruning; two rows of one tick | every row can be rebuilt; a restart takes the last save; the log is never behind a snapshot; chain, table and loss bounded |
| Patch format | Python's `==`, numeric keys and tuples through JSON | the patched base equals the new world |
| Server start | a kill between any two of its commits | a world is never replaced; what runs is saved and marked |
| Broadcaster | payloads that are skipped while nobody watches, clients that fail, events from three sources | no event is lost between two payloads unless the buffer is full |
| Cadence gates | retries in a window, periods that look alike in another year, restarts | one call a period; no period is lost that had a chance |
| Whose turn it is | the turn is the date's, the pool shrinks and grows, and jobs do not ask every month | while a pool stays as it is, nobody in it is passed by for a whole round |
| Distant wildlife | the sleepers are told to the world before a tick and reviewed after it; herds die or are seen again in between | what waking makes up for is what was missed, to the tick |
| Cast and leaving home | the district pass and the upkeep both act on who just died; decisions applied on a changed population | the cast lives, has its size and keeps its members; a split leaves enough people behind |
| Estates | several deaths in one tick, heirs among them; moves that leave claims behind | huts go to a survivor of the family, mounts and crafts are not the dead's |
| Institutions | rolls that are never cleaned; foundings in flight for what has formed meanwhile; stores at their cap | councils have a quorum, trades one guild, nobody alive loses an institution |
| Dialogue | results that wait for the next tick, or for the model, while people die and the voice passes on; books that forget | one exchange a cooldown between two people, none beside the voice's; the thread is that of its pair |
| Innovations | promotion, ageing, selection and a second opinion that comes later, all on one record; pruning at a cap against lineages still being asked for | the belief about a concept follows its fate; nothing is forgotten that another descends from |

The hazards behind these, each at its line of code and with the properties
that would catch it, are listed in `PROJECT.json`.

## Modules and the code

Every definition that stands for code has its lines in `PROJECT.json` ("map").
Definitions preceded by "Mutant:" are plausible bugs; no specification uses
them, they exist to show that the properties can fail.

**CognitionRunner** models `llm/jobs.py`. A call of `run()` is "new", then
"waiting", "granted" (woken, not yet running) or "calling", then "returned",
"cancelled" or "aborted". An action is what the event loop executes between two
awaits: `RunAtOnce`/`RunWait` enter the gate, `Resume` is a woken waiter,
`Succeed`, `Fail` and `OuterTimeout` are the ends of `_run_gated`, with the
release of the permit and the decrement of the backlog in the same step, as in
the code; the three `Cancel…` actions are `CancelledError` at each of its
awaits. `asyncio.Semaphore` (as of CPython 3.11), `wait_for` and the executor are not part of
the repository; they are modelled from the way `jobs.py` uses them, `WakeUp` and
`ThreadStart`/`ThreadEnd`. Which waiter is woken is left open (asyncio's order
is first come, first served), which only adds behaviours.

**AnsweredCalls** is what the runner promises its callers: a call is answered
once, by the model or by its fallback, or cancelled, and an answer never
changes. `CognitionRunner!ImplementsAnsweredCalls` is the refinement, with the
status of a call computed from its phase and answer.

**TaskGraph** models `TaskRegistry._edges` and Kahn's loop, one ready task per
step, from an arbitrary declaration of reads and writes.

**RuntimeScheduler** models `Scheduler.run_tick` on a given topological order
(assumed to be safe, which is what TaskGraph checks). One step is one task: it
is skipped as clean, deferred, run, or force-run; then come the spare runs and
the end of the tick. The dirty tracker's version counters are kept as the
comparison they serve: the set of keys each task has not observed. Wall-clock
costs are small numbers of units.

**LlmAdmission** models the tick loop's control of LLM work: the loop head
(`SkipTick`, `BeginTick`), what visitors ask for (`Nudge` and the jobs in
`Early`), the clock, a turn for each job in the order of `_TICK_JOBS`, the end of
the tick, and what happens while the loop waits. All prompts and effects are
abstracted to "a call by an owner" and to the answers that were applied (`did`),
with one exception: the apply of an invention may begin an era, and then
schedules the era's branch on the spot, in the tick or between two (`Apply`,
`ScheduleBranch`). A job has as many calls in its turn as it likes; each passes
the gate unless the job is in `Ungated`, or is one of the `Picks` that one passing
covers. Early are the summaries, answers and digests of visitors and skill
mastery, ungated like naming and the branches. Ages count ticks since the
snapshot of the world a goal was decided from; a nudge and a surveyor's goal are
of now. `branched` and `overtaken` are history. The runner is abstracted to its backlog, which
CognitionRunner's `BacklogIsOpen` justifies.

**ConcurrencyTuning** models the two controllers of `llm_max_concurrent`. The
hypothesis run is a coroutine with awaits between `Begin`, `Probed`, `Checked`
and `Apply`; days pass between any two of them. Latencies, hints and the
outcome of a measurement are inputs.

**SnapshotStore** models persistence. A world is a function from its parts to
the last event that changed each, so that a row, the log and the live world can
be compared. `synced` is the copy a loss of power falls back to.

**DictDiff** is the patch format as an algorithm, on nested dicts whose keys carry
their type and whose leaves include the pairs that Python or JSON confuse
(`1 == True`, tuples and lists). `Names` gives the names of keys by depth, and
`Values[n]` is what nests at most n deep. A patch is a set of edits, where the
code has three maps. `Diff`, `StoredPatch` and `Apply` are `diff_dict`, the way of a
patch through `json.dumps` and back, and `apply_patch`; all are recursive
functions, so that they can be proved about. `FullRow` and `SaveIncremental` save a
chain of worlds, in which `content` is what the last row reconstructs to.

**ServerBoot** models the start of the process, one commit per step, and a kill
between any two.

**SimClock** is the calendar: month, season and year as functions of the day.
Where the code subtracts the months from the day of the year, one after the
other, the model sums them (`DaysBefore`) and looks for the month that holds the day
(`MonthOf`).
**CadenceGates** keeps the engine's books on top of it (`opened` is the window of
a seasonal or yearly job, `resolved` the period a job last got through). A step is a
day on which the jobs in `free` have something to ask and the model has room, or
a restart, which empties the books. `calls`, `chance` and `forgot` are history:
they exist for the properties.

**Rotation** extends CadenceGates by whom a call is about. `RotaDay` is a day on
which settlements may be named, some jobs get through to the `Target` of the
day (the settlement whose `Rank` in the pool is the month's number modulo its size), and a month's end reviews which settlements have changed; the limit of a
review is the strategy's of that day. `pools` and `passed` are history.

**Dormancy** is the manager of `dormancy.py` in its one use that leaves work out
of the world's tick. `Tick` is the world's part, which skips the sleepers, and, on
the last tick of a day, the review (`ReviewHerds`), which registers the new herds, wakes the seen ones
and sends the unseen to sleep. What the catch-up does to a herd is numeric; what
counts is for how many ticks. `missed` and `seen` are history. Institutions,
ideas and traditions sleep like the settlements of Rotation.

**WorldFeed** is what the engine tells its browsers. Events are numbered in the
order in which they happen; a payload records between which two moments it
stands. `Tick` drains the nudges, lets the world and its jobs log something and
ends in `MaybeBroadcast`, as the code does; `Answer` and `RestartEdge` log
between ticks; `Send` is the oldest task, which drops the clients it fails to
reach. Payload tasks finish in the order they were created as far as
the model goes: the properties are about what a payload holds.

**People** is who is alive, and where: the operators by which people are born,
arrive, move, die or are folded, for the modules that follow to say what else a
step changes. Identities are never reused. Who is the most prominent, who is
met, how much somebody is liked are left open everywhere, which only adds
behaviours.

**CoreCast** goes through a tick in phases, "people" to "migration", and then
waits. `ClosePeople` is the district pass, `MaintainCast` the upkeep of cast and
voice, `Rotate` the monthly swap, `ScheduleFission` and `ScheduleMigration` ask
or (the first) decide by rule, `Answer` applies what the model said.

**Estates** has the belongings and the families. `DieWithEstate` is one tick's
`_apply_deaths` for everybody who dies in it: wills are read with the dying
already struck from the living, and the crafts, mounts and graves follow.

**Rolls** is the list of a settlement's institutions of one kind and the eviction
rule that families and factions share (`_prune_extinct_institutions`): only above
the cap, only those without a living member, the oldest first.

**Council**, **Guilds** and **Factions** are the three institutions with a life
of their own. Each has the population's steps, the civic step in which the
code forms and refreshes it, and for the last two the requests in flight.

**Institutions** puts Estates, Council, Guilds and Factions side by side over the same
people, for what is promised of families and factions alike.

**Dialogue** extends CoreCast, whose cast and voice it needs. `Talk` is both
dialogue jobs of a tick: it prunes the books, chooses ordinary pairs and lets
the voice speak, by rule or through a call. `AnswerCall` is the end of that
call, which writes to the thread between ticks; `BeginTick` applies what the
last tick and the answers left. `heard` is history.

**Innovations** is the registry of `world/ontology.py` together with the jobs that
write to it. `Register` ends in `Prune`, as in the code; `Sweep` is the seasonal
job (`abandon_stale`, then `run_selection`, then a second opinion on everything
newly retired); `ConfirmRetirement` is that opinion's return. Ages and fitness are numbers
and left open: a sweep may find any oldest few stale and any adopted concepts
unfit.

`MC…` modules give TLC its model values and instances; `…Proofs` modules hold
the theorems. MCJobs, MCServer, MCSnapshotStore and MCCommunity check several
modules in one run: `part` is chosen once, initially, and the variables of the
other parts keep their first value, so each part is explored completely and none
of them multiplies another.

## Runs

| Run | Asks | Bounds |
|---|---|---|
| `jobs` | Is the order of tasks safe, least and refused exactly for cycles? Has each task one outcome a tick, is nothing deferred beyond its bound, are writes seen? Does each calendar job call once a period, and miss none? Does everybody get a turn? Is sleep made up for? Does the belief about an invention follow its fate, and is its lineage kept? | every declaration of three tasks over two keys and the wildcard; five tasks of all classes on one budget, deferral bounds 0 to 3; a monthly, a seasonal and a yearly job, six months, two seasons that begin three months apart, windows of two days, two years and more; three settlements that sleep after one or two quiet reviews; two herds and one to come, two ticks a day, patience of one or two days, eight ticks; four concepts where two have room, floors of one and two adopters, casts of 2 and 10, two readings, one evolution in flight |
| `admission` | Is the load exact, is what passes a gate bounded, does nobody get lost or faked, do goals only move forward, does the world tick on whatever its queue does? | two calls a day, staleness two ticks; one of: a mind, a critical job of two picks and a visitor's one (two of its calls out) under a limit of 1 or 2 that moves; two minds under a fixed limit; inventions and branches (two of each out) under a limit that moves |
| `store` | Can every row be rebuilt, is the last save the one resumed, what is lost? Does a patch give back the world it was made from? | two parts, five ticks, two events, five saves, keyframe every three ticks, at most three rows to a chain; dicts of two names, one of them nested, both key types, four leaves, chains of any length; the two branches are interchangeable, hence a symmetry |
| `server` | Is a world never replaced, however starts are killed? Does a browser get every event? Does the gate survive every interleaving of calls, resizes, timeouts, threads and shutdown, and does each call end with one answer? Is host pressure obeyed by both controllers of the gate, and does a run end? | four starts, three scenarios or none; one browser, a buffer of three, four events, a payload every third tick while nobody watches; three calls (one with reasoning), limits 0 to 3, two changes of the limit, two threads; four slots, proposals inside and outside of the range |
| `community` | Do cast, estates, institutions and conversations stay in order through births, deaths, moves, districts and late answers? | four people (five for the families), two settlements, a cast and a council of two, room for one family, one faction, one hut, mount, craft and trade; cooldowns of two ticks and one, one call of the voice in flight, stale after one tick |
| `runner_shrink_grow` (violation) | Are there never more calls in flight than a limit ever set? | as `server` |
| `season_turns` (violation) | Does everybody get a turn of the seasonal jobs? | as `jobs`, one seasonal job |
| `boot_true` (violation) | Is the founding told that of this world? | as `server` |
| `feed_order` (violation) | Is a payload oldest-first? | as `server` |
| `faction_room` (violation) | Is a group refused only if every stored faction lives? | as `community` |
| `lineage_walkable` (violation) | Does every lineage lead to stored concepts? | as `jobs` |
| `voice_thread` (violation) | Does the thread hold lines of its pair only? | as `community` |

A property that several modules share a run for carries its module's type
invariant as a conjunct, so that the types are checked without a property of
their own (`TickIsComplete`, `PeriodsAreKept`,
`TurnsAreKept`, `RestIsRepaid`, `RowsReconstruct`,
`PayloadIsComplete`, `EstatesAreKept`, `CouncilHasQuorum`, `OneGuildPerTrade`,
`FateIsRecorded`, `TalkKeepsItsPace`); each of them is a theorem.

*Why the bounds are enough.* Three calls are the fewest with a holder, a woken
waiter and a waiter behind it, which is where asyncio's wake-up is delicate;
two resizes are the fewest for shrink-and-grow, and the larger targets let a
resize wake several calls at once. Three tasks are the fewest for a cycle that
is not a pair. The scheduler's instance has a writer, a reader and a reader of
the reader, so that a deferral in the middle is seen downstream; its bounds are
smaller than the code's (1, 3, 8, 20) so that each one is reached. The calendar
begins within the year and has a season that runs across the year's
end, windows that a month is barely longer than, and days enough for the year
to turn twice. Three settlements, the code's maximum, are the fewest whose turn
and the seasons' beginnings have a common divisor; the turns are followed for three
month's ends, after which a settlement has been registered, has fallen asleep and
has been woken, and for the month that follows. Of the herds one
sleeps while another is seen and a third arrives; in four days one can fall asleep,
stay so through a review and be woken. Admission needs a limit that moves between
ticks, more due work than fits in one tick, and an answer that is older than the
goal and not yet stale: two slots, a mind, a job of two picks, an ungated one, two
calls a day and staleness two give all of these, four gated calls at once (the
bound) among them. Two minds are needed for the tick's share of calls only, and
branches for the load and the pause, so they are checked apart; two branches
between two ticks are as many as the pause takes at a limit of 1. In the store, chains of three
rows with a keyframe every third tick make pruning cut below a chain, and five
saves reach a second full row and a restart in the middle of a chain. For the
feed four events are more than the buffer holds, and three ticks enough for a
client to come between two that were skipped. Among four people an owner, an
heir and a child can die in one tick with somebody left; two settlements are the
fewest for a move, a split and a guild member elsewhere; everything else comes
in ones, so that it is at its limit at once. The fifth person allows a second
family at one place, where the cap of one makes the pruning choose. Four
concepts are the fewest for a parent, a child and two that push the registry
over its cap while the child is being asked for. For the talk, entries of the
books live for two cooldowns (eight in the code), which is enough for an entry to
outlive both its exchange and the voice's turn; an answer may come a tick after
the pair has changed, and one more is too late.

*What the passing runs show.* Permits, backlog and counters are exact on every
path; a grant that races a cancellation loses nothing. Kahn's loop yields the
least order that the edges allow. Bounded deferral holds for all triggers but
ON_EVENT (see below). The reservation count closes the gap between a task's
scheduling and its start, and opens none while the loop is paused, but for the
branches of new eras. What passes a gate stays within twice the largest limit,
whatever comes past it. A goal is never replaced by an older one although rules,
surveys and answers race, but for one that a visitor gave. The pruning
never breaks a chain, with crashes and power losses anywhere. A calendar job
calls at most once a period unless a restart empties the books in it, and the
monthly ones go round the settlements however these fall asleep and wake. A herd is made
up to for the ticks it was left out of, no more and no fewer. The
buffer closes every gap between two payloads. The cast has its size and its
living members after every tick; a party that leaves never strands those who
stay; an inheritance never goes to somebody who dies in the same tick; councils
that never strike off a name still have a quorum. Promotion, ageing, selection
and reviews that come seasons later never leave a belief behind the fate of its
concept. Two people's exchanges count once a cooldown although the books forget and
restarts drop results. Each property of a passing
run has a mutant: a one-line change of the modelled code under which TLC finds
it violated.

*What the violations show.*

* `_ResizableSemaphore.resize` grows by releasing fresh permits and leaves a
  pending shrink pending, so 2 → 1 → 2 on an idle gate makes three permits.
* The turn of a settlement is the month's number modulo their count. The
  seasonal jobs ask in months that lie three apart, so with three settlements they
  are about the same one for ever: two never get a tradition, an invention or a
  religion of theirs.
* A kill between the first snapshot and the `world_meta` row makes the next
  start draw a second scenario and tell it as this world's founding.
* A payload is the buffer followed by the life events of the last `World.tick`.
  What the jobs of that tick logged is in the buffer although it came later.
* `form_faction` prunes with a helper that evicts only what exceeds the cap and
  then refuses at the cap. A settlement whose stored factions have all died out
  can therefore never have another.
* An evolution names the parents it was asked with. If a parent is retired and
  pruned before the answer comes, the child's lineage leads nowhere.
* The lines of a call that returns after the voice has passed on go into the new
  pair's thread, and the prompt that shows the thread names two other speakers.

## Fairness

Safety runs use `Spec`. The liveness properties assume only this:

* *CognitionRunner*: the event loop runs ready callbacks and its timers fire
  (weak fairness of `Loop(j)` and `OuterTimeout(j)`). Nothing is assumed of
  the server, the threads, the tuner or the shutdown.
* *RuntimeScheduler*: `run_tick` is called for ever and every call returns.
* *LlmAdmission*: the loop is alive (weak fairness of its steps and
  the clock); a turn has finitely many calls (weak fairness of its end, `Passing`:
  a job goes through its settlements or people once); a scheduled task starts (weak); a call that has started ends
  (strong, because the end of a call is enabled only while the loop waits, again
  and again). The last is what CognitionRunner's `EveryCallEnds` shows.
  `WorldTicks` is conditional on nobody holding or stopping the world: no
  fairness makes a user resume. Its other exception is reservations of branches
  that have reached the pause (see the divergences).
* *ConcurrencyTuning*: ticks end (weak), and the background task runs when the
  loop waits (strong, since month ends interrupt it).

The store, the starts, the feed, the community, the calendar, the herds and the
inventions are checked for safety only and assume no fairness. The engine keeps retrying nothing there that could
be shown to succeed: whether a job gets a call, a client comes or a settlement
is named is up to the model's server and to chance.

## Proofs

All are checked by TLAPS with Z3, Zenon and LS4, for every value of the
constants that satisfies the module's named assumption.

| Theorem | Says |
|---|---|
| `CognitionRunnerProofs!TypeCorrect` | `Spec => []TypeOK`: the limit stays positive, asyncio's counter never negative |
| `CognitionRunnerProofs!PermitsAreConserved` | free + held = limit + pending shrink |
| `CognitionRunnerProofs!BacklogIsExact` | the backlog is the number of calls inside `run()` |
| `CognitionRunnerProofs!GateIsWorkConserving` | no idle permit while calls queue and none is woken |
| `CognitionRunnerProofs!AccountsAreExact` | each attempted call, and each reasoning call, is counted once by its outcome, unless it still runs or was cancelled while it ran |
| `CognitionRunnerProofs!AnswersAreFinal` | the runner implements AnsweredCalls |
| `ServerProofs!TuningTypes` | value, gate and limit stay legal |
| `ServerProofs!LimitTracksGate` | the admission limit is that of the gate |
| `ServerProofs!HostPressureEases` | under pressure the value never rises |
| `RuntimeProofs!SchedulerTypes` | no task is deferred more often than its class allows |
| `RuntimeProofs!TicksAreComplete` | one outcome a task and tick, no reader left behind |
| `RuntimeProofs!DeferralIsBounded` | a due task waits at most its bound |
| `RuntimeProofs!GraphTypes` | the ids are split between order and graph |
| `RuntimeProofs!OrderIsAlwaysSafe` | writers before readers, other conflicts by id |
| `RuntimeProofs!CyclesAndOnlyCycles` | refused exactly when the edges have a cycle |
| `RuntimeProofs!OrderIsAlwaysLeast` | the least order that the edges allow |
| `LlmAdmissionProofs!TypeCorrect` | calls within the ceiling, ages within the bound of staleness |
| `LlmAdmissionProofs!InflightAlwaysExact` | in flight exactly while one own call is out |
| `LlmAdmissionProofs!GoalsOnlyMoveForward` | no goal gives way to one from an older view, but for a visitor's to the call that was out when it came |
| `LlmAdmissionProofs!CriticalStaysReal` | critical work is never applied from a fallback |
| `LlmAdmissionProofs!LoadAlwaysExact` | where the load is compared with the limit it counts each scheduled or running call once, or is off by the branches since the last tick at most |
| `LlmAdmissionProofs!GatedQueueStaysBounded` | the gated calls that are out are never more than twice the largest limit |
| `ServerProofs!TypeCorrect` | the types of the start-up |
| `ServerProofs!RunsSettled` | a running process has the saved world and its row |
| `ServerProofs!WorldStays` | the first saved world is the world for good |
| `ServerProofs!PayloadsAreComplete` | a payload holds every event since the one before, unless the buffer ran full |
| `SnapshotStoreProofs!TypeCorrect` | the types of rows, log, buffer, world and marks |
| `SnapshotStoreProofs!RowsStayWhole` | every row on file gives back the world it was saved from; the last save is the one resumed |
| `SnapshotStoreProofs!LossStaysBounded` | a crash costs at most `MaxInterval` ticks, and no event the resumed world has seen |
| `SnapshotStoreProofs!KeyframesStay` | a keyframe is never pruned |
| `SnapshotStoreProofs!RowsAlwaysReconstruct` | for `FullEvery` above 1: besides, no chain is longer than `FullEvery` and the table stays bounded |
| `CoreCastProofs!TypeCorrect` | the types, the voice nobody or two, no traveller who is gone |
| `CoreCastProofs!CastAlwaysServes` | after the upkeep the cast and the voice live, and the cast has its size |
| `CoreCastProofs!CastStaysSticky` | no district takes a protagonist; a living one leaves only in the swap |
| `CoreCastProofs!SplitsAreSustainable` | a party leaves only where enough stay, within the limit of settlements |
| `CoreCastProofs!TalkAlwaysKeepsPace` | an exchange of two people counts at most once a cooldown, and the crowd never speaks for the voice |
| `InstitutionsProofs!EstatesOutlive` | no mount is the dead's, and a craft that counts as alive has a keeper |
| `InstitutionsProofs!HutsStayInTheFamily` | the hut of who dies at home goes to a survivor of the newest family |
| `InstitutionsProofs!CouncilsSit` | living councillors at home fill the seats, or everybody sits |
| `InstitutionsProofs!GuildsAreApart` | one guild a trade and settlement |
| `InstitutionsProofs!NoLivingRollIsForgotten` | no family or faction with a living member is dropped, and factions stay within their cap |
| `JobsProofs!FatesAreBelieved` | the belief about a concept is that of its fate |
| `JobsProofs!DescentIsNeverCut` | nothing is pruned that another concept descends from or that people took up |
| `JobsProofs!DebtsAreRepaid` | waking makes up for what a herd missed, to the tick |
| `JobsProofs!JobsCallOnceAPeriod` | if each season is one run of months: a calendar job calls once a period, and misses none that gave it a chance, but for what a restart forgets |
| `JobsProofs!MonthlyTurnsGoRound` | a monthly job passes no settlement of a pool that stays the same by for a whole round |
| `JobsProofs!RotationKeepsTheGates` | Rotation implements CadenceGates |
| `SnapshotStoreProofs!PatchesRoundTrip` | along any chain of rows, a patch gives back the JSON of the world it was made from |

*The runner.* The inductive invariant is
`Inv == TypeOK /\ PermitsConserved /\ BacklogIsOpen /\ NoIdlePermit`. No part is
inductive alone: conservation needs `free` to be a natural number, and that in
turn needs to know that a release never wakes more calls than it has permits;
the idle rule needs the types to count waiters. The proof goes through two
lemmas on the operators. `MoveOne` counts a set of phases when one call moves:
the cardinality changes by one or not at all. `WakeUpMovesPermits` says that
waking converts free permits into holders one for one, leaves the set of calls
inside `run()` alone, and leaves no waiter behind an idle permit. Each action
is then one or both: entering or leaving is a `MoveOne`, a release, a grant
that is cancelled or a grown limit is a `MoveOne` followed by a `WakeUp`.
`FinishStep` serves all the ways a call can end.

*The accounts.* `CallsAccounted` is an equation between counters and the
cardinality of `Unsettled`, the calls that run or were aborted while they ran. With the
counters and cardinalities as parameters it is `Balanced`, and the steps are of
three kinds: those that leave both alone, a grant, which adds one attempt and one
member, and an end, which adds one outcome and takes the member away. The second
equation is the same about the members that reason, so that a step of a call
that does not reason must be seen not to move it. Finiteness of the set of calls is
the only fact needed of it.

*The refinement.* Each step changes the status of at most one call
(`OneStatusMoves`); a call that is only woken keeps it (`KeepsStatus`), since
waiting and granted are both "open". The steps fall into those that begin or
skip a call, answer it, cancel it, or are silent.

*Tuning.* `TunedMoves` follows a legal value through step, veto and cap and
shows that each keeps it legal, and that with the veto the result is at most
the old value. `LimitFollowsGate` is inductive together with the types because
gate and limit only ever move in the same assignment. It is proved and no longer run, like the
start's `RunningIsSettled`: no step of several actors is needed to see either. That
`gate = value` does not hold is among the divergences.

*The task order.* Besides the types the invariant says that no id is ordered
twice, that what is left is the graph of the edges between the ids that are
left (`GraphOfTheRest`), and that each ordered id comes after all it depends on
(`OrderRespectsEdges`). When nothing is left the last part is `OrderIsSafe`;
when something is left and nothing is ready, each of these ids waits for
another, which is a cycle. Conversely the ids of a cycle never become ready
(`KnotsStay`), so a registry with one is not accepted. For the leastness,
`LeastSoFar` compares the order so far with any order `p` that respects the
edges: it agrees with `p` or is already smaller. While it agrees, the next id of
`p` is ready (`NextIsReady`), and the loop takes the smallest that is.

*The scheduler.* Both properties speak of the end of a tick, so `SchedulerInv`
says what holds inside one: the tasks the walk is past (`Reached`) have one
outcome each and the others none (`Outcomes`); what waits for spare time was
deferred, each task once (`Waiting`); a reader the walk is past has seen all
writes (`Fresh`). That a later task of the same tick never writes what an earlier
one read is `SchedulerAssumption`, which is what `RuntimeProofs!OrderIsAlwaysSafe`
gives; MCJobs evaluates it on its instance. For the bound, `Owing` follows one task: the count of ticks it
was kept from running never exceeds its deferrals, it is one behind in the tick
that defers it, and its cause (an unseen write) lasts until it runs, so that it
can never be skipped as clean while it is owed a run. The deferrals are bounded
because a task at its bound is forced. ON_EVENT tasks are left out, since
their cause does not last (see the divergences).

*Admission.* `InflightIsExact` is inductive with the types: an agent asks only
when it is not in flight, and each way a call can end takes it out. `GoalsMoveForward`
needs two comparisons of ages, each with the nudged (`overtaken`) left out. A result
that is pending belongs to an agent that is not in flight, is no older than the
goal it will replace, and is applied before the clock moves, since only an agent
that has had its turn has one while the jobs have theirs (`PendingIsNewer`, which
rests on the order having no repeats); the view of an agent in flight is no older
than its goal (`CallIsNewer`), which the clock keeps since it ages both alike.
Both would fail if an agent could decide by rule while its call is out: that is
the mutant of this property.

*The load and the queue.* Calls are counted as the set of pairs of an owner and
a number up to its count (`CallsOf`), so that one more or one less call is one more
or one less element, and no sum over owners has to be unfolded. `QueueInv` says
of the reservations that between two ticks they are exactly the branches that
applies have scheduled since the last one, and that nothing else waits to be
started when the loop is at its head (`ReservedForBranches`); in a tick, that they are
the tasks it has created itself, so that only branches from before it can be missing
(`ReservedForTasks`). From this follow both halves of `LoadIsExact`. `GateHolds` says that the
gated calls that are out, with those still `granted`, are at most twice the largest
limit: all gated calls are in the load, an admission compares the load with at most twice the
limit of the moment, and that limit is at most the largest gate's (`LimitFacts`). So
they stay bounded although the limit falls while calls are out: what counts is the
limit at the last admission. Calls for several picks add `PerSlot` to one limit at
most, by the assumption on `Picks`.

*The start.* From its load on, the world in memory is the saved one
(`LoadedIsSaved`), and `world_meta` is never ahead of the first snapshot, while
a start that will not write it has found it (`MarkedInTime`).

*The feed.* The invariant says that what is buffered `Covers` the events since
the last payload: a list shorter than the buffer holds all of them. The lemmas
say that this survives appending (an answer), concatenation (the three sources
of a tick) and cutting to the last entries, which either changes nothing or
leaves a full buffer (`LastOfFacts`). `BroadcastCovers` is the step itself: with
nobody watching the buffer goes on covering, otherwise the payload takes over
what the buffer promised and the buffer starts again at `told`.

*The store.* `StoreInv` holds of both copies of the database, so that a loss of
power is one of its steps. Rows are `Sound`: an id of their own, ticks in the
order of ids, and a row that is not full is its patch applied to the world of an
earlier row on file. `Chain` and `Reconstruct` are recursive functions along the
bases; since a base is older than its row they are well defined, and a row that
could not be rebuilt would have a least id (`Least`, from the well-foundedness
of the naturals), which its base contradicts (`ChainExists`, `MadeExists`,
`SoundRowsAreWhole`). Pruning keeps a row with its chain, and the chain of a
base is part of the chain of its row (`ChainLeads`), so what is left is sound
again (`PrunedFacts`); the first row of a bucket stays the first, because later
rows have larger ids (`SavedRows`). The log and what is still to be committed
are `InOrder`, so that what the retention drops is exactly what is no newer than
`pruned` (`KeptInOrder`), and a world is `Recorded` when each of its changes is
in the log or dropped. That the live world is recorded in what the buffer will
add, and that nothing waits in the buffer when a periodic save is due, is the
reason why no row gets ahead of the log. `ScheduleInv` bounds the ticks: the
scheduler's mark is at most one tick ahead of the last row and less than
`MaxInterval` behind its clock.

*The table.* Its length is a property of the history of saves, so `TableInv`
says more of the rows than `StoreInv`, and of both copies again. They are
`Compact`: an incremental row's base is the row just before it, so that a chain is a run of
ids (`ChainGoesDown`, `ChainStays`), and row 1 is a full one of tick 0. `Regular` bounds
the chain of the last row by what the scheduler has counted since the last full
save: `(granted - 1) % FullEvery`. That needs `FullEvery` above 1, as the default (5)
is: at 1 the remainder that announces a full save never comes, and the chain
grows without bound; it is the hypothesis of this theorem and of no other. For the table
(`PrunedFits`), what pruning keeps is the recent rows, fewer than `FullEvery` below the
oldest of them, and the chains of the keyframes: each such row is told apart by the
interval of its keyframe and its depth below it (`KeyframesAreFew`), and there are
`FullEvery` depths and one interval for each `KeyframeEvery` ticks.

*The cast.* `CastServes` speaks only of the phases after the upkeep. The
inductive invariant adds that a cast is never larger than configured, that the
settlements are numbered 1 to n (`Numbered`: `max(id) + 1` is then new, which
the proof of the split needs), and that everybody, and both ends of a decision in
flight, belong to a settlement that was founded (`Rooted`). `CastStands` serves
all the steps that leave the cast alone: they either come before the upkeep, where
`CastServes` promises nothing, or change none of the living, which is why a
decision may move people between the upkeep and the next tick but never add or
remove any. `UpkeepFills` counts the seats, with `TargetFacts` (the target never
exceeds the population, and is zero only for an empty one or an empty
configuration, where the code returns early with an empty cast). `VoiceFacts`
goes through the four ways of `maintain_voice_pair`. `FissionKeeps` counts those
who stay.

*The talk.* The books forget entries that are old, of the dead, and all at a
restart; what must not be forgotten is what can still be violated. `BooksKeepPace`
says that a pair of living people whose exchange was heard is in the books with
an entry at most as old, or has rested for its cooldown. `WaitingIsRested` says of the crowd's
results that they are there only between two ticks, that their pair is in the books with an entry of
this tick, has rested, and is not the voice's. The voice passes on in the upkeep,
when the next tick has applied them and none wait, which is why the choice is
still right when it takes effect; and each exchange that does take effect is
entered in `heard` together with a book entry that is as recent.

*The institutions.* Each has an invariant over the types. For the guilds it is
that trades differ in a settlement's list; it is kept because both the civic step and
the answer of a founding look again before they append, whatever was asked
meanwhile. The quorum holds after the civic step and speaks of that phase only; the
step itself counts the open seats and who may take them. `EstatesInv` adds to
what is promised that whoever knows a craft is alive, was folded, or died
elsewhere than where it was invented (`KnowersRemain`), which is all that the code strikes off.
For the huts `OnlyDeathsBury` reduces the property to the one step that buries, where the
will is read with all who die already gone. The roll's pruning picks entries by
rank: a rank tells the entries apart and keeps their order (`RankFacts`), so that
what is left of a list is a list, and all that were dropped were extinct.

*The inventions.* `IdeasInv` adds to the belief that whoever waits for a second
opinion is still retired or gone, and has an id that was given. `PruneFacts` says of the
two passes of pruning that what they drop is gone or was never more than
proposed, and that no stored concept names it as a parent or counterpart.

*The herds.* What waking repays is the clock less the tick of falling asleep;
`HerdsInv` knows that this is what was missed, and that a herd's idle count is the days
since it was last seen, up to the longest patience (`Counted`). From that come both bounds
on the sleep: no herd sleeps before the shortest patience, none is awake that
has reached the longest.

*The calendar.* That a month is found at all, and only one, is an induction over
the months (`MonthsFollow`, `DateFacts`): the least month whose days are not over yet.
From one day to the next the day of the year grows by one, within the month or
into the next (`TomorrowInYear`), or the year turns (`TomorrowNewYear`); so the
number of the month grows by at most one a day, and exactly when a boundary is
crossed (`MonthTurns`). What the gates need is the converse, that two boundaries
of the same kind with the same ordinal are one and the same day: for years
(`SameYear`), for months (`SameMonth`) and, for seasons, only if each season is one run of
months, perhaps across the turn of the year (`SeasonsBeginOnce`, `SameSeason`). The
default `month_to_season` is such, and TLC checks it on the instance; the code does not: with a
season that comes twice a year the second would have the ordinal of the first, and its jobs
would take it for resolved. It is the hypothesis of `JobsCallOnceAPeriod` and of no
other theorem.

*The gates.* `GatesInv` is a book for each job. A monthly one (`MonthBook`)
never names a later month than this one, and names this one just when the job has
called in it, unless a restart emptied it. A seasonal or yearly job (`SeasonBook`) has a
window that opened with the latest boundary the process has lived through, and what it
resolved is the ordinal of some boundary. `PeriodsDiffer` is then the heart of it: a
new boundary's ordinal was never resolved before, so the window that opens is free for
its call.

*The rotation.* A history counts how often in a row a settlement was passed by; `RotationInv`
says of a monthly job that in each of as many months, up to the last, the turn was
another's (`WentToOthers`). That needs the months of the turns to be
consecutive, which the gates give: a month without a call begins the count again. In
as many months in a row as a pool has settlements each has one
(`PlacesDiffer`: ranks are 0 to n - 1; `RemainderTells`), so the count stays below
(`FewerThanARound`). Of the seasonal jobs the same is false, which is what
`season_turns` shows: their turns are not consecutive months.

*The patches.* Values, patches and the functions on them are recursive in how deep
they nest. `Climb` is induction on the depth for a set of depths, which the
prover can use; with it each recursive function has a solution up to any depth, since it refers
only to what nests less (`StoredUnfold`, `PyEqUnfold`, `DiffUnfold`, `ApplyUnfold`, ...), and
each lemma about them is an induction again. Through JSON a value keeps its
depth and a second passage changes nothing (`StoredIn`); a dict came from JSON
exactly if its keys are text and its values came from JSON (`FromJson`); what came from
JSON and equals a value equals the JSON of that value (`EqFacts`), which is why a key that is
left out of the patch may keep its old content. `SentKeys` shows that the three kinds
of edits do not get into each other's way although 1 and "1" become one
key, and `ApplySent` what each key then holds. `PatchGivesBack` goes through
its three cases, nested, replaced and left alone, and needs of the old
dict only that it came from JSON, which the result does again: the invariant
`RowInv` of a chain of rows.

*Only model-checked.* `EveryCallEnds`, `WritesAreSeen`, `WorldTicks` and
`RunsEnd` are liveness under fairness, which is beyond the prover. Every other
property of the passing runs is stated by a theorem.

## Divergences met while modelling

Disagreements between the code and its own texts that no run states as a
property, because the model can only restate them or because they lie in what
it leaves open:

* `simulation/task_graph.py:183`: the tie-break by id can close a cycle that
  the data does not have (three tasks, one of them with the wildcard, a
  reader that sorts before its writer), although line 169 says the direction is
  assigned "so the graph is acyclic" and line 24 that legacy tasks can
  "coexist in one graph".
* `simulation/scheduler.py:322`: the bus is cleared at the end of each tick, so
  an ON_EVENT task that was deferred has nothing to react to in the next;
  line 109 says a task out of budget is "DEFERRED, never skipped".
* `simulation/engine.py:7277`: the tick resets its reservations before the next
  interval is chosen, while its tasks have not started: pacing sees neither,
  although lines 4986 and 6010 say that it follows the current backlog.
* `simulation/engine.py:11462`: the branch of a new era is scheduled by the apply of
  an invention, which as a rule runs between two ticks, after line 7279 has reset
  the reservations. Until the next tick begins it is counted by its reservation
  and, once started, by the backlog: the double count that the comment at 7257 ff. says
  is removed. Twice the limit of them in one wait would hold the pause for ever, for
  only a tick resets them: six at the default limit of 3, two at a limit that
  latency has brought down to 1. Inventions are asked for one a season, so this
  takes answers of several seasons that come together. Scheduled too late to start before
  the tick, it is in neither count for that tick. `LoadIsExact` and `WorldTicks`
  except it (`branched`).
* `simulation/engine.py:8902` ff.: the calls that visitors ask for, naming, skill
  mastery and the branches pass no gate, and may be repeated while earlier ones are
  out; only the day's ceiling limits them. `GatedQueueIsBounded` is therefore about
  gated calls. A monthly personal belief passes its gate once for two calls (line
  14261).
* `simulation/engine.py:8063`: a visitor's nudge writes the goal at once and leaves
  the call alone that may be out for this agent. Its answer, reasoned before the
  nudge, then undoes it. `GoalsMoveForward` excepts it (`overtaken`).
* `simulation/engine.py:5008`: the floor of the adaptive limit is the startup
  value of `llm_max_concurrent`; line 5000 ff. says one job per concurrency
  lane, which is the live value.
* `simulation/engine.py:7631`: at the daily ceiling an agent's goal at a
  significant moment is decided by rule; line 7670 says crucial cognition is
  never faked (the critical settlement jobs, `CriticalNeverFabricated`, are not).
* `simulation/engine.py:5159`: veto and cap may lower the value by several
  notches in a day when a hypothesis left it above the hint; line 5061 says one.
* `simulation/engine.py:8264`: the automatic hypothesis run proposes the
  strategy's hint after a quiet period, and the daily controller may change the value
  between its read and its decision; lines 2853 and 8227 say the two never fight.
* `simulation/optimization_hypothesis.py:161`: a value that the hypothesis loop keeps
  is set in the registry and carried neither to the gate nor to the backpressure
  limit until the daily controller moves again; `tuning.py:22` says a change
  resizes "the actual concurrency gate in-flight LLM calls run through".
* `simulation/engine.py:12508`: the rotation of the institutions has the defect of
  `season_turns` for every count that is a multiple of three.
* `simulation/engine.py:12294`: a settlement's reviews compare it with the one before.
  What changes and changes back in between (a birth and a death) does not wake
  it, though line 2528 says "any real change wakes it immediately"; what does
  wakes it at the month's end.
* `simulation/engine.py:3641`: a restart while a herd sleeps loses its gap, which is
  never made up for; the comment says "never a correctness issue".
  `RestIsRepaid` forgives it.
* `simulation/dormancy.py:8` says that the manager is "Not wired into the live tick
  loop"; the engine has five of them.
* `simulation/persistence_scheduling.py:101`: the first check only marks a
  baseline, so the first snapshot of a process may come `max_interval + 1`
  ticks after its start; `engine.py:2745` calls the interval a guarantee.
  `LossIsBounded` therefore speaks of states between two ticks.
* `simulation/persistence_scheduling.py:118`: with `full_snapshot_every = 1`
  the modulus is never 1 and every periodic snapshot is incremental, against
  `persistence/snapshot.py:48`. The engine uses the default of 5.
* `persistence/diff.py:59`: values that compare equal and are not the same
  (`1`, `True`, `1.0`) are not in the patch; line 77 calls it the exact inverse.
  `RoundTrip` is stated with Python's `==`.
* `llm/jobs.py:378`: a call that times out gives back its permit while its
  thread still holds a request open, so the server may see more requests than
  `max_concurrent` (line 9). `PermitsWithinLimit` counts calls, not requests.
* `agents/population.py:5012`: a councillor who moves away and comes back after
  the seat was filled again makes the council larger than `COUNCIL_SIZE`, since
  nobody is struck off. For the same reason somebody who moved can be in two
  factions, although `population.py:5094` ff. looks among the unaffiliated only.
* `agents/population.py:8421`: one who is folded into a district keeps the mount,
  which no one can ride again until it breaks: deaths release mounts, foldings
  do not. `EstatesAreKept` allows it (`folded`).
* `agents/population.py:7019`: the dying are struck from the crafts of the
  settlement they lived in. A craft whose last knower emigrated and died
  elsewhere never becomes dormant; `CraftHasKeeper` allows it.
* `agents/population.py:7605`: a member of the voice pair who is rotated out of
  the cast stays in the pair until the week ends; the pair is documented as two
  of the cast. `CastServes` asks of the voice only that it lives.
* `simulation/engine.py:3433`: the books of the calendar jobs are not saved. A
  restart within a month's window lets a monthly job call again, and one within a
  season's window loses the season, against the comment at 1888 that a job runs
  once a period. `OncePerPeriod` excepts these (`forgot`).
* `simulation/engine.py:6270` ff.: the docstring of `_season_year_gate` says of
  jobs outside `SEASON_YEAR_JOBS_WITH_RETRY` that there are none; seven of the
  jobs that call it are not in that set, and have a window of one day.
* `simulation/engine.py:6127`: both edges of a restart of the model's server
  broadcast, and with them tell the life events of the last tick a second time.
* `interface/app.py:625`: the first send to a new client stands before the `try`,
  so one that vanishes while connecting stays registered until the next
  broadcast fails to reach it.
* `agents/population.py:7709`: `due_for_voice_dialogue` marks its cooldown so as
  not to choose the pair again "while in flight", but the cooldown is five ticks
  and a call may take longer: several calls of one pair may be out at once, and
  their lines enter the thread in the order of the answers.
* `agents/population.py:1815`: the topics of a pair are pruned with its entry in
  the cooldown books. The voice pair has topics and need not have an entry; its
  topics then stay when one of the two is dead.
* `simulation/engine.py:7859`: only the voice pair is said to have exchanges from
  the model. A late result can be one of the former pair's.
* `world/ontology.py:604`: the docstring of `abandon_stale` says "fewer than
  `CONCEPT_SPREADING_ADOPTERS`"; in a large cast a proposed concept with more
  adopters than that has not reached the share of the cast either, and is abandoned.
* `world/ontology.py:671`: `reinstate_concept` makes a concept established that
  may have been only spreading when it was retired.
* `world/ontology.py:63`: the caps of concepts and of trigger rules give way when
  too few of the stored ones may be pruned. For composite places the concept they
  name is not among what may not be pruned, so their `concept_id` may dangle.
* `settlement/buildings.py:2069`: an invention follows a hypothesis of Innovation's
  with a confidence of at least 0.6. Those that the proposals mirror are written
  with 0.4 and revised to 0.1 while they are hypotheses.
* `simulation/engine.py:3519`: when a composite reaction last fired in a settlement
  is forgotten at a restart, and with it the rest of its cooldown.
* The gate is built with the unclamped `config.llm_max_concurrent`, the tunable
  with the clamped one (1 to 8). `TuningAssumption` takes the start in range.

## Not modelled

* *The rest of the tick's jobs*: their prompts and effects. LlmAdmission lets a
  job be due or not whenever its turn comes, CadenceGates says when a calendar
  job is.
* *What is said and invented*: gossip, the effects of an exchange on relations and
  trust, topics; names, hooks and fitness of concepts; trigger rules and composite
  places, which read the registry and do not change it.
* *People beyond their lives and homes*: needs, relations, health, work, skills
  and memories are numbers; where one decides something, the choice is left
  open. Religions, laws, currencies and buildings' effects likewise.
* *Terrain, weather, wildlife, farms, economy*: seeded numeric content, run
  within one synchronous call and read by nobody meanwhile.
* *Escalation, attention, locality, hierarchical memory*: not yet (see the plan);
  their thresholds are floating-point scores. Of the dormancy manager, the states
  DROWSY and ARCHIVED, which nothing enters, and the numbers of the catch-up.
* *Forecasting, hardware profile, profiling, tunable evolution, ml, cognition
  models*: functions of floating-point samples and seeded random numbers.
* *LLM clients and prompts, the browser interface, hearthbench, native ports,
  scripts*: input and output, benchmarks, copies of numeric kernels.
* *What a payload shows of the world, and speed*: WorldFeed is about events.
* *Numbers*: seconds, milliseconds and costs are small naturals or
  nondeterministic verdicts.
* *SQLite*: a commit is atomic, and in WAL mode with `synchronous = NORMAL` a
  loss of power falls back to an earlier commit.

## Plan

Done, in this order: CognitionRunner with its promise and proofs; TaskGraph and
RuntimeScheduler; LlmAdmission, which abstracts the runner; ConcurrencyTuning
with its proofs; SnapshotStore over DictDiff's format; ServerBoot before it; the
proofs of ServerBoot, TaskGraph and LlmAdmission; CadenceGates over SimClock,
Rotation over both; Dormancy;
WorldFeed with its proof; the proofs of SnapshotStore; People with CoreCast (proved), Estates, Council,
Guilds and Factions on top; Innovations; Dialogue over CoreCast; the proofs of the
institutions, of the inventions and the herds, of the talk, of the accounts, the load
and the queue, and of the length of chains and table; those of the calendar, the
gates and the rotation, and of the patches.

Next modules, most important first:

1. **Escalation** (`simulation/escalation.py`, `attention.py`): the hysteresis of the
   rungs and what each one switches off.
2. A composition of ConcurrencyTuning, LlmAdmission and CognitionRunner on the
   shared gate, in place of LlmAdmission's free choice of the day's slots.
3. CadenceGates as a refinement of the "may be due" of LlmAdmission.
4. ServerBoot's start refined by SnapshotStore's `Start`.

Next theorems:

* The composition of the runner's backlog with LlmAdmission's, as a refinement.
