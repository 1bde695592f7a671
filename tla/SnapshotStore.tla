---------------------------- MODULE SnapshotStore ----------------------------
(***************************************************************************)
(* How a world survives its process: the tick's commit, the snapshot       *)
(* scheduler, full and incremental snapshot rows, their pruning, and the   *)
(* restart from the latest row (persistence/snapshot.py, diff.py,          *)
(* simulation/persistence_scheduling.py and the calls in engine.py).       *)
(*                                                                         *)
(* A world is a function from its parts to the last event that changed     *)
(* each one, so that worlds and the event log can be compared.  SQLite is  *)
(* outside src/: a commit is atomic, and in WAL mode with synchronous =    *)
(* NORMAL the loss of power goes back to some earlier commit.              *)
(***************************************************************************)
EXTENDS Integers, Sequences, FiniteSets, SequencesExt

CONSTANTS
  Parts,          \* branches of World.to_dict()
  KeepRecent,     \* SNAPSHOT_KEEP_RECENT
  KeyframeEvery,  \* SNAPSHOT_KEYFRAME_INTERVAL_TICKS
  FullEvery, MinInterval, MaxInterval,  \* SnapshotPolicy
  Retention,      \* Config.event_log_retention
  MaxTick, MaxEvents, MaxSaves          \* bounds

ASSUME StoreAssumption ==
  /\ IsFiniteSet(Parts)
  /\ {KeepRecent, KeyframeEvery, FullEvery, MinInterval, Retention} \subseteq Nat \ {0}
  /\ MaxInterval \in Nat /\ MinInterval <= MaxInterval
  /\ {MaxTick, MaxEvents, MaxSaves} \subseteq Nat

VARIABLES
  db,        \* the committed rows, the retained log, the last event pruned
  synced,    \* db as the disk would give it back after a loss of power
  tx,        \* events inserted and not committed
  phase,     \* "down", "idle", "jobs", "saving", "stopping"
  world,     \* the live world
  tick,      \* its clock
  buffer,    \* _event_write_buffer
  lastRun,   \* the snapshot task's mark in ElapsedTimeTracker, or Never
  granted,   \* SnapshotScheduler.snapshot_count
  happened   \* events so far

mem == <<tx, world, tick, buffer, lastRun, granted>>
vars == <<db, synced, phase, mem, happened>>

Never == -1
Untold == -1  \* a change whose event was never logged
Blank == [p \in Parts |-> 0]
NoDb == [rows |-> {}, log |-> <<>>, pruned |-> 0]

Forgotten ==
  /\ tx' = <<>> /\ world' = Blank /\ tick' = 0 /\ buffer' = <<>>
  /\ lastRun' = Never /\ granted' = 0

Init ==
  /\ db = NoDb /\ synced = NoDb
  /\ phase = "down"
  /\ tx = <<>> /\ world = Blank /\ tick = 0 /\ buffer = <<>>
  /\ lastRun = Never /\ granted = 0
  /\ happened = 0

-----------------------------------------------------------------------------
(* Rows *)

RowOf(rows, n) == CHOOSE r \in rows : r.id = n
HasRow(rows, n) == \E r \in rows : r.id = n
LastId(rows) == IF rows = {} THEN 0
                ELSE (CHOOSE r \in rows : \A s \in rows : s.id <= r.id).id

\* The ids from a row back to its full root, a missing base included.
Chain(rows, id) ==
  LET back[n \in 0..MaxSaves] ==
        {n} \cup IF HasRow(rows, n) /\ RowOf(rows, n).base # 0
                 THEN back[RowOf(rows, n).base] ELSE {}
  IN  back[id]

Intact(rows, id) == \A n \in Chain(rows, id) : HasRow(rows, n)

\* apply_patch, for worlds of one level (DictDiff has the nested ones).
Patched(old, patch) ==
  [p \in DOMAIN old \cup DOMAIN patch |->
     IF p \in DOMAIN patch THEN patch[p] ELSE old[p]]

\* _reconstruct_snapshot_dict: the patches applied from the root forward.
Reconstruct(rows, id) ==
  LET made[n \in {r.id : r \in rows}] ==
        LET r == RowOf(rows, n)
        IN  IF r.base = 0 THEN r.payload ELSE Patched(made[r.base], r.payload)
  IN  made[id]

\* ORDER BY tick DESC, which SQLite answers by walking idx_snapshots_tick
\* backwards: among rows of one tick, the one saved last comes first.
Newer(r, s) == r.tick > s.tick \/ (r.tick = s.tick /\ r.id > s.id)

\* The row load_latest_snapshot takes.
Latest(rows) == CHOOSE r \in rows : \A s \in rows \ {r} : Newer(r, s)

Recent(rows) == {r \in rows : Cardinality({s \in rows : Newer(s, r)}) < KeepRecent}

Bucket(r) == r.tick \div KeyframeEvery

Keyframes(rows) ==
  {r \in rows : \A s \in rows : Bucket(s) = Bucket(r) => r.id <= s.id}

\* Mutant: the bases of the kept rows are not kept.
PrunedBare(rows) == Recent(rows) \cup Keyframes(rows)

\* Mutant: only the recent rows and their bases are kept.
PrunedRecent(rows) ==
  {r \in rows : \E k \in Recent(rows) : r.id \in Chain(rows, k.id)}

\* _prune_snapshots: what is left.
Pruned(rows) ==
  LET kept == Recent(rows) \cup Keyframes(rows)
  IN  {r \in rows : \E k \in kept : r.id \in Chain(rows, k.id)}

-----------------------------------------------------------------------------
(* save_snapshot and the tick's commit *)

LogWith(events) == db.log \o events

\* diff_dict against the last row, whatever its kind.
Patch(rows) ==
  LET old == Reconstruct(rows, LastId(rows))
  IN  [p \in {q \in Parts : world[q] # old[q]} |-> world[p]]

NewRow(kind) ==
  LET whole == kind = "full" \/ db.rows = {}
  IN  [id |-> LastId(db.rows) + 1, tick |-> tick, was |-> world,
       base |-> IF whole THEN 0 ELSE LastId(db.rows),
       payload |-> IF whole THEN world ELSE Patch(db.rows)]

\* _prune_events.
KeptLog(log) ==
  SubSeq(log, IF Len(log) > Retention THEN Len(log) - Retention + 1 ELSE 1, Len(log))

\* A row is inserted, the tables are pruned, and everything is committed,
\* with the inserted events.
Save(kind, inserted) ==
  LET log == LogWith(inserted) IN
  /\ LastId(db.rows) < MaxSaves
  /\ db' = [rows |-> Pruned(db.rows \cup {NewRow(kind)}),
            log |-> KeptLog(log),
            pruned |-> IF Len(log) > Retention THEN log[Len(log) - Retention]
                       ELSE db.pruned]
  /\ tx' = <<>>

\* load_or_create: a first world is saved at once, a later start resumes
\* from the latest row.
Start ==
  /\ phase = "down"
  /\ phase' = "idle"
  /\ \/ /\ db.rows = {}
        /\ Save("full", <<>>)
        /\ UNCHANGED <<world, tick>>
     \/ /\ db.rows # {}
        /\ world' = Reconstruct(db.rows, Latest(db.rows).id)
        /\ tick' = Latest(db.rows).tick
        /\ UNCHANGED <<db, tx>>
  /\ UNCHANGED <<synced, buffer, lastRun, granted, happened>>

\* A change of part p with its event: _buffer_event holds the row back, until
\* the batch is big enough to be inserted.
Log(p, full) ==
  /\ happened < MaxEvents
  /\ happened' = happened + 1
  /\ world' = [world EXCEPT ![p] = happened + 1]
  /\ IF full
     THEN tx' = tx \o Append(buffer, happened + 1) /\ buffer' = <<>>
     ELSE buffer' = Append(buffer, happened + 1) /\ tx' = tx

\* A background job's answer is applied while the loop waits.
Background(p, full) ==
  /\ phase = "idle"
  /\ Log(p, full)
  /\ UNCHANGED <<db, synced, phase, tick, lastRun, granted>>

\* world.tick moves the clock.
Tick ==
  /\ phase = "idle" /\ tick < MaxTick
  /\ phase' = "jobs"
  /\ tick' = tick + 1
  /\ UNCHANGED <<db, synced, tx, world, buffer, lastRun, granted, happened>>

\* world.tick's life events, or a job's.
InTick(p, full) ==
  /\ phase = "jobs"
  /\ Log(p, full)
  /\ UNCHANGED <<db, synced, phase, tick, lastRun, granted>>

\* The end of the tick: the buffer is flushed and the tick committed.
CommitTick ==
  /\ phase = "jobs"
  /\ phase' = "saving"
  /\ db' = [db EXCEPT !.log = LogWith(tx \o buffer)]
  /\ tx' = <<>> /\ buffer' = <<>>
  /\ UNCHANGED <<synced, world, tick, lastRun, granted, happened>>

Elapsed == tick - lastRun

\* Mutant: a busy world waits for a quiet window however long it takes.
IsDueQuiet(quiet) ==
  /\ lastRun # Never
  /\ Elapsed >= MinInterval /\ quiet

IsDue(quiet) ==
  /\ lastRun # Never
  /\ Elapsed >= MaxInterval \/ (Elapsed >= MinInterval /\ quiet)

\* SnapshotScheduler.due and plan, and the periodic save.
SaveIfDue(quiet) ==
  /\ phase = "saving"
  /\ phase' = "idle"
  /\ lastRun' = IF lastRun = Never \/ IsDue(quiet) THEN tick ELSE lastRun
  /\ \/ /\ IsDue(quiet)
        /\ granted' = granted + 1
        /\ Save(IF (granted + 1) % FullEvery = 1 THEN "full" ELSE "incremental", <<>>)
     \/ /\ ~IsDue(quiet)
        /\ UNCHANGED <<db, tx, granted>>
  /\ UNCHANGED <<synced, world, tick, buffer, happened>>

\* The loop ends between two ticks, or because a job or the broadcast raised.
EndLoop ==
  /\ phase \in {"idle", "jobs", "saving"}
  /\ phase' = "stopping"
  /\ UNCHANGED <<db, synced, mem, happened>>

\* world.tick itself raises: what it changed has no event.
WorldRaises(p) ==
  /\ phase = "idle" /\ tick < MaxTick
  /\ phase' = "stopping"
  /\ tick' = tick + 1
  /\ world' = [world EXCEPT ![p] = Untold]
  /\ UNCHANGED <<db, synced, tx, buffer, lastRun, granted, happened>>

\* Mutant: the events still in the buffer are forgotten.
StopUnflushed ==
  /\ phase = "stopping"
  /\ phase' = "down"
  /\ Save("full", tx)
  /\ world' = Blank /\ tick' = 0 /\ buffer' = <<>> /\ lastRun' = Never /\ granted' = 0
  /\ UNCHANGED <<synced, happened>>

\* Mutant: the final snapshot is one more link of the chain.
StopIncremental ==
  /\ phase = "stopping"
  /\ phase' = "down"
  /\ Save("incremental", tx \o buffer)
  /\ world' = Blank /\ tick' = 0 /\ buffer' = <<>> /\ lastRun' = Never /\ granted' = 0
  /\ UNCHANGED <<synced, happened>>

\* run_forever's finally: flush, and a full snapshot.
Stop ==
  /\ phase = "stopping"
  /\ phase' = "down"
  /\ Save("full", tx \o buffer)
  /\ world' = Blank /\ tick' = 0 /\ buffer' = <<>> /\ lastRun' = Never /\ granted' = 0
  /\ UNCHANGED <<synced, happened>>

\* The process is killed.
Crash ==
  /\ phase # "down"
  /\ phase' = "down"
  /\ Forgotten
  /\ UNCHANGED <<db, synced, happened>>

\* The WAL reaches the disk.
Sync ==
  /\ synced' = db
  /\ UNCHANGED <<db, phase, mem, happened>>

\* The machine loses power.
PowerLoss ==
  /\ db # synced
  /\ db' = synced
  /\ phase' = "down"
  /\ Forgotten
  /\ UNCHANGED <<synced, happened>>

Next ==
  \/ Start \/ Tick \/ CommitTick \/ EndLoop \/ Stop
  \/ Crash \/ Sync \/ PowerLoss
  \/ \E p \in Parts, full \in BOOLEAN : Background(p, full) \/ InTick(p, full)
  \/ \E p \in Parts : WorldRaises(p)
  \/ \E quiet \in BOOLEAN : SaveIfDue(quiet)

Spec == Init /\ [][Next]_vars

-----------------------------------------------------------------------------
(* Properties *)

Worlds == [Parts -> {Untold} \cup 0..MaxEvents]

\* The types, and the shape of the two copies of the database.
TypeOK ==
  /\ \A d \in {db, synced} :
       /\ \A r \in d.rows :
            /\ r.id \in 1..MaxSaves /\ r.base \in 0..(r.id - 1)
            /\ r.tick \in 0..MaxTick /\ r.was \in Worlds
            /\ DOMAIN r.payload \subseteq Parts
       /\ ToSet(d.log) \subseteq 1..MaxEvents /\ d.pruned \in 0..MaxEvents
  /\ phase \in {"down", "idle", "jobs", "saving", "stopping"}
  /\ world \in Worlds /\ tick \in 0..MaxTick
  /\ ToSet(tx) \cup ToSet(buffer) \subseteq 1..happened
  /\ lastRun \in {Never} \cup 0..tick /\ granted \in 0..LastId(db.rows)
  /\ happened \in 0..MaxEvents

\* The chain back to a full row is "bounded by SnapshotPolicy.full_snapshot_every,
\* so this never recurses deep", over any mix of periodic saves, stops and crashes;
\* and the table holds no more than the recent rows, a keyframe for each interval
\* of the world's history, and the bases these need.
ChainIsBounded ==
  /\ \A r \in db.rows : Cardinality(Chain(db.rows, r.id)) <= FullEvery
  /\ db.rows # {} =>
       Cardinality(db.rows) <=
         KeepRecent + FullEvery + FullEvery * (Latest(db.rows).tick \div KeyframeEvery)

\* Every row on file, and every row a loss of power would leave, gives back the
\* very world it was saved from.
RowsAreWhole ==
  \A d \in {db, synced} : \A r \in d.rows :
    Intact(d.rows, r.id) /\ Reconstruct(d.rows, r.id) = r.was

\* A restart resumes from the last save there was, also when a tick was saved
\* twice (a periodic snapshot and the final one).
LastSaveIsResumed == db.rows # {} => Latest(db.rows).id = LastId(db.rows)

\* Pruning, crashes and restarts never cost a row its history, the chain back to a
\* full row is short, and the last save is the one resumed.
RowsReconstruct == TypeOK /\ RowsAreWhole /\ LastSaveIsResumed /\ ChainIsBounded

\* "The first snapshot at or after each multiple of this interval is kept as a
\* permanent keyframe": nothing but a loss of power takes it away.
KeyframesArePermanent ==
  [][db' # synced => Keyframes(db.rows) \subseteq db'.rows]_vars

\* Whatever happens, an event that shaped the world a restart would resume is
\* in the log, unless the retention dropped it: no snapshot gets ahead of the log.
NoSnapshotAheadOfLog ==
  \A d \in {db, synced} : \A r \in d.rows : \A p \in Parts :
    r.was[p] > 0 => r.was[p] \in ToSet(d.log) \/ r.was[p] <= d.pruned

LastTick == Latest(db.rows).tick

\* What a crash costs: between two ticks at most MaxInterval ticks, however busy
\* the world is and wherever it was restarted, and never an event that the world
\* which is resumed has seen.
LossIsBounded ==
  /\ phase = "idle" => tick - LastTick <= MaxInterval
  /\ NoSnapshotAheadOfLog
=============================================================================
