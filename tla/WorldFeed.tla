------------------------------ MODULE WorldFeed ------------------------------
(***************************************************************************)
(* The traffic between the engine and the browsers (interface/api.py and   *)
(* _maybe_broadcast): nudges queue up until the next tick drains them, and *)
(* what the world logs reaches the clients in the next payload that is     *)
(* built - on every tick while somebody watches, else on every IdleEvery-th *)
(* - and at both edges of a restart of the model's server.                 *)
(*                                                                         *)
(* Events are numbered in the order in which they happen.  A tick runs     *)
(* without an await, so it is one step; a payload is sent by a task of its *)
(* own, and the tasks start in the order in which they were created.       *)
(***************************************************************************)
EXTENDS Integers, SequencesExt

CONSTANTS
  Client,     \* browsers
  BufferMax,  \* PENDING_BROADCAST_EVENTS_MAX
  IdleEvery,  \* IDLE_BROADCAST_EVERY_TICKS
  QueueMax,   \* INTERVENTION_QUEUE_MAX
  MaxEvents,  \* bound: events that happen
  MaxTasks    \* bound: payloads built and not yet sent

ASSUME FeedAssumption ==
  /\ {BufferMax, IdleEvery, QueueMax} \subseteq Nat \ {0}
  /\ MaxEvents \in Nat /\ MaxTasks \in Nat

VARIABLES
  queued,     \* len(WorldBroadcaster._interventions)
  paused,     \* WorldBroadcaster._paused
  restarting, \* SimulationEngine._llama_server_restarting
  clients,    \* WorldBroadcaster._clients
  tick,       \* clock.tick_count, modulo IdleEvery
  life,       \* World.last_life_events
  pending,    \* SimulationEngine._pending_broadcast_events
  outgoing,   \* the payloads whose tasks have not started
  happened,   \* the events so far
  told        \* those that had happened when the last payload was built

feedVars ==
  <<queued, paused, restarting, clients, tick, life, pending, outgoing,
    happened, told>>

\* A payload: the events in it, and between which two moments it stands.
Payload == [after : Nat, upto : Nat, events : Seq(Nat)]

FeedTypeOK ==
  /\ queued \in 0..QueueMax
  /\ paused \in BOOLEAN /\ restarting \in BOOLEAN
  /\ clients \subseteq Client
  /\ tick \in 0..(IdleEvery - 1)
  /\ life \in Seq(1..happened) /\ pending \in Seq(1..happened)
  /\ outgoing \in Seq(Payload)
  /\ happened \in 0..MaxEvents /\ told \in 0..happened

FeedInit ==
  /\ queued = 0 /\ paused = FALSE /\ restarting = FALSE
  /\ clients = {} /\ tick = 0
  /\ life = <<>> /\ pending = <<>> /\ outgoing = <<>>
  /\ happened = 0 /\ told = 0

\* The next n events.
Upcoming(from, n) == [i \in 1..n |-> from + i]

\* The last n entries of s.
LastOf(s, n) == SubSeq(s, 1 + Len(s) - (IF n < Len(s) THEN n ELSE Len(s)), Len(s))

-----------------------------------------------------------------------------
(* The requests of the browsers; none of them touches the world.           *)

\* The oldest nudge gives way when the queue is full.
Nudge ==
  /\ queued' = IF queued = QueueMax THEN queued ELSE queued + 1
  /\ UNCHANGED <<paused, restarting, clients, tick, life, pending, outgoing,
                 happened, told>>

\* Applied at once: a paused world drains no queue.
SetPaused(on) ==
  /\ paused' = on
  /\ UNCHANGED <<queued, restarting, clients, tick, life, pending, outgoing,
                 happened, told>>

Connect(c) ==
  /\ clients' = clients \cup {c}
  /\ UNCHANGED <<queued, paused, restarting, tick, life, pending, outgoing,
                 happened, told>>

Disconnect(c) ==
  /\ c \in clients /\ clients' = clients \ {c}
  /\ UNCHANGED <<queued, paused, restarting, tick, life, pending, outgoing,
                 happened, told>>

-----------------------------------------------------------------------------
(* What the engine tells.                                                  *)

Idle(now) == clients = {} /\ now % IdleEvery # 0

\* Mutant: a skipped payload takes its tick's events with it.
MaybeBroadcastDropping(buffered, lately, now) ==
  IF Idle(now)
  THEN /\ pending' = LastOf(buffered, BufferMax)
       /\ UNCHANGED <<outgoing, told>>
  ELSE /\ outgoing' = Append(outgoing, [after |-> told, upto |-> happened',
                                        events |-> buffered \o lately])
       /\ pending' = <<>> /\ told' = happened'

\* _maybe_broadcast at tick count now, with the events buffered so far and
\* those of the last World.tick: nobody watches, so they wait for the next
\* payload, or the payload is built and its task created.
MaybeBroadcast(buffered, lately, now) ==
  IF Idle(now)
  THEN /\ pending' = LastOf(buffered \o lately, BufferMax)
       /\ UNCHANGED <<outgoing, told>>
  ELSE /\ outgoing' = Append(outgoing, [after |-> told, upto |-> happened',
                                        events |-> buffered \o lately])
       /\ pending' = <<>> /\ told' = happened'

\* One tick: the nudges are drained, n of them log something (one that raises
\* or finds nobody logs nothing), the world itself has l events, and its jobs
\* log j more.
Tick(n, l, j) ==
  /\ ~paused /\ ~restarting
  /\ n <= queued /\ happened + n + l + j <= MaxEvents
  /\ Len(outgoing) < MaxTasks
  /\ queued' = 0
  /\ happened' = happened + n + l + j
  /\ tick' = (tick + 1) % IdleEvery
  /\ life' = Upcoming(happened + n, l)
  /\ MaybeBroadcast(pending \o Upcoming(happened, n)
                            \o Upcoming(happened + n + l, j), life', tick')
  /\ UNCHANGED <<paused, restarting, clients>>

\* An answer applied between two ticks is logged into the buffer.
Answer ==
  /\ happened < MaxEvents /\ happened' = happened + 1
  /\ pending' = Append(pending, happened')
  /\ UNCHANGED <<queued, paused, restarting, clients, tick, life, outgoing, told>>

\* llama_server_restarting, polled by the loop also while no tick runs: both
\* edges are logged and told at once, with the last tick's own events again.
RestartEdge ==
  /\ happened < MaxEvents /\ happened' = happened + 1
  /\ Len(outgoing) < MaxTasks
  /\ restarting' = ~restarting
  /\ MaybeBroadcast(Append(pending, happened'), life, tick)
  /\ UNCHANGED <<queued, paused, clients, tick, life>>

\* The oldest task sends its payload to each client; a send that fails costs
\* the client its place.
Send(dead) ==
  /\ outgoing # <<>> /\ outgoing' = Tail(outgoing)
  /\ clients' = clients \ dead
  /\ UNCHANGED <<queued, paused, restarting, tick, life, pending, happened, told>>

FeedNext ==
  \/ Nudge
  \/ \E on \in BOOLEAN : SetPaused(on)
  \/ \E c \in Client : Connect(c) \/ Disconnect(c)
  \/ \E n \in 0..QueueMax, l, j \in 0..1 : Tick(n, l, j)
  \/ Answer
  \/ RestartEdge
  \/ \E dead \in SUBSET clients : Send(dead)

FeedSpec == FeedInit /\ [][FeedNext]_feedVars

-----------------------------------------------------------------------------
\* "none are lost from the next payload": whoever connects and leaves, and
\* however many ticks were skipped, a payload holds every event since the one
\* before it, unless the buffer ran full in between.
PayloadIsComplete ==
  /\ FeedTypeOK
  /\ \A i \in DOMAIN outgoing :
       LET p == outgoing[i]
       IN Len(p.events) < BufferMax => (p.after + 1)..p.upto \subseteq ToSet(p.events)

\* "oldest-first is the order the frontend's prepend loop expects", the comment
\* at the place where a payload's events are put together.
PayloadIsOldestFirst ==
  \A i \in DOMAIN outgoing :
    LET e == outgoing[i].events
    IN \A a, b \in DOMAIN e : a < b => e[a] < e[b]
=============================================================================
