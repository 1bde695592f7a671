------------------------------ MODULE MCServer ------------------------------
(***************************************************************************)
(* The process that serves one world, in four parts: `part` is chosen once *)
(* and the other parts keep their first state.                             *)
(*                                                                         *)
(* "boot": the starts of the process, three scenarios a genesis call may   *)
(* return, and four starts.                                                *)
(* "feed": what its engine tells one browser that comes and goes, with     *)
(* room for three events in the buffer and a payload every third tick      *)
(* while nobody watches.                                                   *)
(* "calls": three calls of its runner, one a reasoning call, and a gate of *)
(* one or two permits that is resized twice, over a server that may never  *)
(* answer.                                                                 *)
(* "tuning": who resizes that gate - four slots, and hints and proposals   *)
(* on both sides of the start value.                                       *)
(***************************************************************************)
EXTENDS ServerBoot, WorldFeed, CognitionRunner, ConcurrencyTuning

CONSTANTS ford, ridge, marsh, unnamed, c1, j1, j2, j3, unknown

VARIABLE part

Parts == {"boot", "feed", "calls", "tuning"}
allVars == <<part, bootVars, feedVars, vars, tuningVars>>

InitOf(parts) ==
  /\ part \in parts
  /\ BootInit /\ FeedInit /\ Init /\ TuningInit
  /\ part # "calls" => enabled /\ \A m \in InitLimits : limit <= AtLeastOne(m)

Only(p) ==
  /\ part = p /\ UNCHANGED part
  /\ p = "boot" \/ UNCHANGED bootVars
  /\ p = "feed" \/ UNCHANGED feedVars
  /\ p = "calls" \/ UNCHANGED vars
  /\ p = "tuning" \/ UNCHANGED tuningVars

ServerNext ==
  \/ Only("boot") /\ Boot
  \/ Only("boot") /\ \E s \in Told : Resolve(s)
  \/ Only("boot") /\ LoadOrCreate
  \/ Only("boot") /\ LogGenesis
  \/ Only("boot") /\ WriteMeta
  \/ Only("boot") /\ LogFounding
  \/ Only("boot") /\ Commit
  \/ Only("boot") /\ Killed

FeedsNext ==
  \/ Only("feed") /\ Nudge
  \/ Only("feed") /\ \E on \in BOOLEAN : SetPaused(on)
  \/ Only("feed") /\ \E c \in Client : Connect(c)
  \/ Only("feed") /\ \E c \in Client : Disconnect(c)
  \/ Only("feed") /\ \E n \in 0..QueueMax, l, j \in 0..1 : Tick(n, l, j)
  \/ Only("feed") /\ Answer
  \/ Only("feed") /\ RestartEdge
  \/ Only("feed") /\ \E dead \in SUBSET clients : Send(dead)

Looped(j) == Only("calls") /\ Loop(j)
TimedOut(j) == Only("calls") /\ OuterTimeout(j)

CallsNext ==
  \/ Only("calls") /\ Shutdown
  \/ Only("calls") /\ \E n \in Targets : Resize(n)
  \/ Only("calls") /\ \E j \in Jobs : RunDisabled(j)
  \/ Only("calls") /\ \E j \in Jobs : RunAtOnce(j)
  \/ Only("calls") /\ \E j \in Jobs : RunWait(j)
  \/ Only("calls") /\ \E j \in Jobs : ThreadStart(j)
  \/ Only("calls") /\ \E j \in Jobs, outcome \in Outcomes : ThreadEnd(j, outcome)
  \/ \E j \in Jobs : Looped(j)
  \/ \E j \in Jobs : TimedOut(j)
  \/ Only("calls") /\ \E j \in Jobs : CancelWaiting(j)
  \/ Only("calls") /\ \E j \in Jobs : CancelGranted(j)
  \/ Only("calls") /\ \E j \in Jobs : CancelCalling(j)

TuningRunner == Only("tuning") /\ Runner
TuningCalendar == Only("tuning") /\ (AskedByCalendar \/ CalendarPasses)

TunesNext ==
  \/ Only("tuning") /\ \E latency \in Latencies, backOff \in BOOLEAN, hint \in Hints :
                          DailyTune(latency, backOff, hint)
  \/ Only("tuning") /\ DayWithoutEvidence
  \/ Only("tuning") /\ \E p \in Proposals : AskedByUser(p)
  \/ TuningCalendar
  \/ TuningRunner

MCNext == ServerNext \/ FeedsNext \/ CallsNext \/ TunesNext

\* The fairness of FairSpec and of TuningFairSpec.
MCFairness ==
  /\ \A j \in Jobs : WF_allVars(Looped(j)) /\ WF_allVars(TimedOut(j))
  /\ SF_allVars(TuningRunner) /\ WF_allVars(TuningCalendar)

MCSpec == InitOf(Parts) /\ [][MCNext]_allVars /\ MCFairness

\* One part alone, for the questions about safety.
BootsSpec == InitOf({"boot"}) /\ [][MCNext]_allVars
CallsSpec == InitOf({"calls"}) /\ [][MCNext]_allVars
FeedsSpec == InitOf({"feed"}) /\ [][MCNext]_allVars
=============================================================================
