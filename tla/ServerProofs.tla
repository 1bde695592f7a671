---------------------------- MODULE ServerProofs ----------------------------
(***************************************************************************)
(* Proofs about the process that serves one world.                         *)
(*                                                                         *)
(* ServerBoot: for any number of starts, each killed anywhere and whatever *)
(* the genesis calls return.  WorldFeed: for any browsers, any buffer and  *)
(* queue size and any number of events, what is buffered covers everything *)
(* that has not been told, and so every payload is complete.               *)
(* ConcurrencyTuning: for every range of the tunable, every strategy hint  *)
(* and every proposed value, the types, the admission limit that follows   *)
(* the gate, and the day of host pressure.                                 *)
(***************************************************************************)
EXTENDS ServerBoot, WorldFeed, ConcurrencyTuning, SequenceTheorems, TLAPS

-----------------------------------------------------------------------------
(* The start: the invariant *)

\* From the moment it is loaded the world in memory is the saved one.
LoadedIsSaved ==
  pc \in {"genesis", "meta", "founding", "run"} =>
    world = snapshot /\ snapshot # NoWorld

\* The row of world_meta is never ahead of the first snapshot; a start that
\* does not write it has found it.
MarkedInTime ==
  /\ meta => snapshot # NoWorld
  /\ pc \in {"founding", "run"} => meta
  /\ pc \in {"resolve", "load", "genesis"} => fresh \/ meta

\* There is a founding to tell.
HasFounding == pc = "founding" => scenario \in Scenarios

Inv == BootTypeOK /\ LoadedIsSaved /\ MarkedInTime /\ HasFounding

LEMMA InitInv == BootInit => Inv
<1>. SUFFICES ASSUME BootInit
              PROVE  Inv
  OBVIOUS
<1>1. NoScenario \in Told /\ 0 \in 0..MaxBoots
  BY BootAssumption DEF BootAssumption, Told
<1>2. BootTypeOK
  BY <1>1 DEF BootInit, BootTypeOK
<1>. QED
  BY <1>2 DEF BootInit, Inv, LoadedIsSaved, MarkedInTime, HasFounding

\* The types, step by step.
LEMMA TypeStep == Inv /\ [BootNext]_bootVars => BootTypeOK'
<1>. SUFFICES ASSUME Inv, [BootNext]_bootVars
              PROVE  BootTypeOK'
  OBVIOUS
<1>. USE DEF Inv, BootTypeOK, Told, durable
<1>0. NoScenario \in Told /\ MaxBoots \in Nat
  BY BootAssumption DEF BootAssumption
<1>1. CASE Boot
  BY <1>0, <1>1 DEF Boot
<1>2. CASE LoadOrCreate
  BY <1>2 DEF LoadOrCreate
<1>3. CASE LogGenesis
  BY <1>3 DEF LogGenesis
<1>4. CASE WriteMeta
  BY <1>4 DEF WriteMeta
<1>5. CASE LogFounding
  <2>1. scenario \in Scenarios
    BY <1>5 DEF LogFounding, HasFounding
  <2>. QED
    BY <1>5, <2>1 DEF LogFounding
<1>6. CASE Commit
  BY <1>6 DEF Commit
<1>7. ASSUME NEW s \in Told, Resolve(s)
      PROVE  BootTypeOK'
  BY <1>7 DEF Resolve
<1>8. CASE Killed
  BY <1>0, <1>8 DEF Killed
<1>9. CASE UNCHANGED bootVars
  BY <1>9 DEF bootVars
<1>. QED
  BY <1>1, <1>2, <1>3, <1>4, <1>5, <1>6, <1>7, <1>8, <1>9 DEF BootNext

\* The other parts, step by step.
LEMMA NextInv == Inv /\ [BootNext]_bootVars => Inv'
<1>. SUFFICES ASSUME Inv, [BootNext]_bootVars
              PROVE  LoadedIsSaved' /\ MarkedInTime' /\ HasFounding'
  BY TypeStep DEF Inv
<1>. USE DEF Inv, LoadedIsSaved, MarkedInTime, HasFounding, durable
<1>1. CASE Boot
  BY <1>1 DEF Boot
<1>2. CASE LoadOrCreate
  <2>1. scenario # NoWorld
    BY BootAssumption DEF BootAssumption, BootTypeOK
  <2>. QED
    BY <1>2, <2>1 DEF LoadOrCreate
<1>3. CASE LogGenesis
  BY <1>3 DEF LogGenesis
<1>4. CASE WriteMeta
  BY <1>4 DEF WriteMeta, BootTypeOK, Told
<1>5. CASE LogFounding
  BY <1>5 DEF LogFounding
<1>6. CASE Commit
  BY <1>6 DEF Commit
<1>7. ASSUME NEW s \in Told, Resolve(s)
      PROVE  LoadedIsSaved' /\ MarkedInTime' /\ HasFounding'
  BY <1>7 DEF Resolve
<1>8. CASE Killed
  BY <1>8 DEF Killed
<1>9. CASE UNCHANGED bootVars
  BY <1>9 DEF bootVars
<1>. QED
  BY <1>1, <1>2, <1>3, <1>4, <1>5, <1>6, <1>7, <1>8, <1>9 DEF BootNext

-----------------------------------------------------------------------------
(* The start: the theorems *)

\* The start-up's state keeps to its types.
THEOREM TypeCorrect == BootSpec => []BootTypeOK
<1>1. Inv => BootTypeOK
  BY DEF Inv
<1>. QED
  BY <1>1, InitInv, NextInv, PTL DEF BootSpec

\* Whatever was interrupted before, a process that runs has the saved world in
\* memory and its row in world_meta.
THEOREM RunsSettled == BootSpec => []RunningIsSettled
<1>1. Inv => RunningIsSettled
  BY DEF Inv, LoadedIsSaved, MarkedInTime, RunningIsSettled
<1>. QED
  BY <1>1, InitInv, NextInv, PTL DEF BootSpec

\* The first world that is saved is the world of all later starts.
THEOREM WorldStays == BootSpec => WorldIsForever
<1>1. [BootNext]_bootVars => [snapshot # NoWorld => snapshot' = snapshot]_bootVars
  BY DEF BootNext, Boot, LoadOrCreate, LogGenesis, WriteMeta, LogFounding, Commit,
         Resolve, Killed, durable
<1>. QED
  BY <1>1, PTL DEF BootSpec, WorldIsForever

-----------------------------------------------------------------------------
(* The feed *)

\* A list that is shorter than the buffer holds all the events in between.
Covers(list, from, upto) ==
  Len(list) < BufferMax => (from + 1)..upto \subseteq ToSet(list)

\* A payload's own promise.
Complete(p) == Covers(p.events, p.after, p.upto)

\* The inductive invariant: the types, the buffer covers what is untold, and
\* the payloads under way are complete.
FeedInv ==
  /\ FeedTypeOK
  /\ Covers(pending, told, happened)
  /\ \A i \in DOMAIN outgoing : Complete(outgoing[i])

-----------------------------------------------------------------------------
(* Lemmas on lists of events.                                              *)

\* The next n events are consecutive numbers.
LEMMA UpcomingFacts ==
  ASSUME NEW from \in Nat, NEW n \in Nat, NEW N \in Nat, from + n <= N
  PROVE  /\ Upcoming(from, n) \in Seq(1..N)
         /\ Len(Upcoming(from, n)) = n
         /\ (from + 1)..(from + n) \subseteq ToSet(Upcoming(from, n))
<1>. DEFINE u == [i \in 1..n |-> from + i]
<1>1. u \in [1..n -> 1..N]
  OBVIOUS
<1>2. u \in Seq(1..N)
  BY <1>1, SeqDef
<1>3. DOMAIN u = 1..n /\ Len(u) = n
  BY <1>2, LenProperties
<1>4. ASSUME NEW e \in (from + 1)..(from + n)  PROVE e \in ToSet(u)
  <2>1. e - from \in 1..n /\ u[e - from] = e
    OBVIOUS
  <2>. QED
    BY <2>1, <1>3 DEF ToSet
<1>. QED
  BY <1>2, <1>3, <1>4 DEF Upcoming

\* A concatenation is as long as its parts together and holds what they hold.
LEMMA ConcatFacts ==
  ASSUME NEW S, NEW s \in Seq(S), NEW t \in Seq(S)
  PROVE  /\ s \o t \in Seq(S)
         /\ Len(s \o t) = Len(s) + Len(t)
         /\ ToSet(s) \subseteq ToSet(s \o t)
         /\ ToSet(t) \subseteq ToSet(s \o t)
<1>1. /\ s \o t \in Seq(S)
      /\ Len(s \o t) = Len(s) + Len(t)
      /\ \A i \in 1..(Len(s) + Len(t)) :
           (s \o t)[i] = IF i <= Len(s) THEN s[i] ELSE t[i - Len(s)]
  BY ConcatProperties
<1>2. /\ Len(s) \in Nat /\ Len(t) \in Nat
      /\ DOMAIN s = 1..Len(s) /\ DOMAIN t = 1..Len(t)
      /\ DOMAIN (s \o t) = 1..(Len(s) + Len(t))
  BY <1>1, LenProperties
<1>3. ASSUME NEW i \in DOMAIN s  PROVE s[i] \in ToSet(s \o t)
  <2>1. i \in DOMAIN (s \o t) /\ (s \o t)[i] = s[i]
    BY <1>1, <1>2
  <2>. QED
    BY <2>1 DEF ToSet
<1>4. ASSUME NEW i \in DOMAIN t  PROVE t[i] \in ToSet(s \o t)
  <2>1. /\ i + Len(s) \in DOMAIN (s \o t)
        /\ (s \o t)[i + Len(s)] = t[i]
    BY <1>1, <1>2
  <2>. QED
    BY <2>1 DEF ToSet
<1>. QED
  BY <1>1, <1>3, <1>4 DEF ToSet

\* Appending one event adds it and keeps the others.
LEMMA AppendFacts ==
  ASSUME NEW S, NEW s \in Seq(S), NEW e \in S
  PROVE  /\ Append(s, e) \in Seq(S)
         /\ Len(Append(s, e)) = Len(s) + 1
         /\ ToSet(s) \cup {e} \subseteq ToSet(Append(s, e))
<1>1. /\ Append(s, e) \in Seq(S)
      /\ Len(Append(s, e)) = Len(s) + 1
      /\ \A i \in 1..Len(s) : Append(s, e)[i] = s[i]
      /\ Append(s, e)[Len(s) + 1] = e
  BY AppendProperties
<1>2. /\ Len(s) \in Nat /\ DOMAIN s = 1..Len(s)
      /\ DOMAIN Append(s, e) = 1..(Len(s) + 1)
  BY <1>1, LenProperties
<1>3. e \in ToSet(Append(s, e))
  <2>1. Len(s) + 1 \in DOMAIN Append(s, e)
    BY <1>2
  <2>. QED
    BY <2>1, <1>1 DEF ToSet
<1>4. ASSUME NEW i \in DOMAIN s  PROVE s[i] \in ToSet(Append(s, e))
  <2>1. i \in DOMAIN Append(s, e) /\ Append(s, e)[i] = s[i]
    BY <1>1, <1>2
  <2>. QED
    BY <2>1 DEF ToSet
<1>. QED
  BY <1>1, <1>3, <1>4 DEF ToSet

\* Cutting to the last n either takes nothing away or leaves exactly n.
LEMMA LastOfFacts ==
  ASSUME NEW S, NEW s \in Seq(S), NEW n \in Nat \ {0}
  PROVE  /\ LastOf(s, n) \in Seq(S)
         /\ Len(LastOf(s, n)) < n => LastOf(s, n) = s
<1>1. Len(s) \in Nat /\ \A i \in 1..Len(s) : s[i] \in S
  BY LenProperties, ElementOfSeq
<1>2. CASE n < Len(s)
  <2>. DEFINE m == 1 + Len(s) - n
  <2>1. LastOf(s, n) = SubSeq(s, m, Len(s))
    BY <1>2 DEF LastOf
  <2>2. m \in Int /\ 1 <= m /\ m <= Len(s)
    BY <1>1, <1>2
  <2>3. \A i \in m..Len(s) : s[i] \in S
    BY <1>1, <2>2
  <2>4. /\ SubSeq(s, m, Len(s)) \in Seq(S)
        /\ Len(SubSeq(s, m, Len(s))) = Len(s) - m + 1
    <3>. HIDE DEF m
    <3>. QED
      BY <1>1, <2>2, <2>3, SubSeqProperties
  <2>5. Len(s) - m + 1 = n
    BY <1>1
  <2>. QED
    BY <2>1, <2>4, <2>5
<1>3. CASE ~(n < Len(s))
  <2>1. LastOf(s, n) = SubSeq(s, 1 + Len(s) - Len(s), Len(s)) \/ n = Len(s)
    BY <1>1, <1>3 DEF LastOf
  <2>2. LastOf(s, n) = SubSeq(s, 1, Len(s))
    <3>1. (IF n < Len(s) THEN n ELSE Len(s)) = Len(s)
      BY <1>3
    <3>2. 1 + Len(s) - Len(s) = 1
      BY <1>1
    <3>. QED
      BY <3>1, <3>2 DEF LastOf
  <2>. QED
    BY <2>2, SubSeqFull
<1>. QED
  BY <1>2, <1>3

-----------------------------------------------------------------------------
(* The end of a tick.                                                      *)

\* Whatever happened up to the end of a tick, if the lists it is told from
\* cover it then what is left buffered and what is sent do too.
LEMMA BroadcastCovers ==
  ASSUME FeedInv,
         happened' \in Nat, happened <= happened',
         NEW buffered \in Seq(1..happened'), NEW lately \in Seq(1..happened'),
         NEW now,
         Covers(buffered \o lately, told, happened'),
         MaybeBroadcast(buffered, lately, now)
  PROVE  /\ pending' \in Seq(1..happened')
         /\ told' \in 0..happened'
         /\ outgoing' \in Seq(Payload)
         /\ Covers(pending', told', happened')
         /\ \A i \in DOMAIN outgoing' : Complete(outgoing'[i])
<1>. DEFINE all == buffered \o lately
<1>1. all \in Seq(1..happened')
  BY ConcatFacts
<1>2. /\ happened \in Nat /\ told \in 0..happened /\ outgoing \in Seq(Payload)
      /\ \A i \in DOMAIN outgoing : Complete(outgoing[i])
  BY FeedAssumption DEF FeedInv, FeedTypeOK
<1>3. BufferMax \in Nat \ {0}
  BY FeedAssumption
<1>4. Covers(all, told, happened')
  OBVIOUS
<1>. HIDE DEF all
<1>5. CASE Idle(now)
  <2>1. /\ pending' = LastOf(all, BufferMax)
        /\ outgoing' = outgoing /\ told' = told
    BY <1>5 DEF MaybeBroadcast, all
  <2>2. /\ LastOf(all, BufferMax) \in Seq(1..happened')
        /\ Len(LastOf(all, BufferMax)) < BufferMax => LastOf(all, BufferMax) = all
    BY <1>1, <1>3, LastOfFacts
  <2>3. Covers(pending', told', happened')
    BY <2>1, <2>2, <1>4 DEF Covers
  <2>. QED
    BY <2>1, <2>2, <2>3, <1>2
<1>6. CASE ~Idle(now)
  <2>. DEFINE p == [after |-> told, upto |-> happened', events |-> all]
  <2>1. /\ pending' = <<>> /\ told' = happened'
        /\ outgoing' = Append(outgoing, p)
    BY <1>6 DEF MaybeBroadcast, all
  <2>2. p \in Payload
    <3>1. all \in Seq(Nat)
      <4>1. 1..happened' \subseteq Nat
        OBVIOUS
      <4>. QED
        BY <1>1, <4>1, SeqMonotonic
    <3>. QED
      BY <3>1, <1>2 DEF Payload
  <2>3. Complete(p)
    BY <1>4 DEF Complete
  <2>. HIDE DEF p
  <2>4. /\ Append(outgoing, p) \in Seq(Payload)
        /\ DOMAIN Append(outgoing, p) = 1..(Len(outgoing) + 1)
        /\ \A i \in 1..Len(outgoing) : Append(outgoing, p)[i] = outgoing[i]
        /\ Append(outgoing, p)[Len(outgoing) + 1] = p
    BY <1>2, <2>2, AppendProperties, LenProperties
  <2>5. Len(outgoing) \in Nat /\ DOMAIN outgoing = 1..Len(outgoing)
    BY <1>2, LenProperties
  <2>6. \A i \in DOMAIN Append(outgoing, p) : Complete(Append(outgoing, p)[i])
    BY <1>2, <2>3, <2>4, <2>5
  <2>7. \A x \in Nat : (x + 1)..x = {}
    OBVIOUS
  <2>8. Covers(<<>>, happened', happened')
    BY <2>7 DEF Covers
  <2>9. <<>> \in Seq(1..happened') /\ told' \in 0..happened'
    BY <2>1, EmptySeq
  <2>. QED
    BY <2>1, <2>4, <2>6, <2>8, <2>9
<1>. QED
  BY <1>5, <1>6

-----------------------------------------------------------------------------
(* The invariant.                                                          *)

\* At the start nothing has happened.
LEMMA FeedInitially == FeedInit => FeedInv
<1>. SUFFICES ASSUME FeedInit PROVE FeedInv
  OBVIOUS
<1>1. /\ life \in Seq(1..happened) /\ pending \in Seq(1..happened)
      /\ outgoing \in Seq(Payload)
  BY EmptySeq DEF FeedInit
<1>2. FeedTypeOK
  <2>1. /\ 0 \in 0..QueueMax /\ 0 \in 0..(IdleEvery - 1) /\ 0 \in 0..MaxEvents
        /\ 0 \in 0..0 /\ {} \subseteq Client /\ FALSE \in BOOLEAN
    BY FeedAssumption
  <2>2. /\ queued = 0 /\ tick = 0 /\ happened = 0 /\ told = 0
        /\ paused = FALSE /\ restarting = FALSE /\ clients = {}
    BY DEF FeedInit
  <2>. QED
    BY <1>1, <2>1, <2>2 DEF FeedTypeOK
<1>3. (told + 1)..happened = {} /\ DOMAIN outgoing = {}
  BY EmptySeq, LenProperties, <1>1 DEF FeedInit
<1>4. Covers(pending, told, happened) /\ \A i \in DOMAIN outgoing : Complete(outgoing[i])
  BY <1>3 DEF Covers
<1>. QED
  BY <1>2, <1>4 DEF FeedInv

\* The world of events is untouched: nothing that FeedInv relates has changed.
LEMMA QuietSteps ==
  ASSUME FeedInv, UNCHANGED <<life, pending, happened, told>>,
         queued' \in 0..QueueMax, paused' \in BOOLEAN, restarting' \in BOOLEAN,
         clients' \subseteq Client, tick' = tick,
         outgoing' \in Seq(Payload), \A i \in DOMAIN outgoing' : Complete(outgoing'[i])
  PROVE  FeedInv'
<1>1. FeedTypeOK'
  BY DEF FeedInv, FeedTypeOK
<1>2. Covers(pending, told, happened)'
  BY DEF FeedInv, Covers
<1>3. (\A i \in DOMAIN outgoing : Complete(outgoing[i]))'
  BY DEF Complete, Covers
<1>. QED
  BY <1>1, <1>2, <1>3 DEF FeedInv

\* Every step keeps it.
LEMMA FeedStep == FeedInv /\ [FeedNext]_feedVars => FeedInv'
<1>. SUFFICES ASSUME FeedInv, [FeedNext]_feedVars PROVE FeedInv'
  OBVIOUS
<1>. USE FeedAssumption
<1>0. /\ queued \in 0..QueueMax /\ paused \in BOOLEAN /\ restarting \in BOOLEAN
      /\ clients \subseteq Client /\ tick \in 0..(IdleEvery - 1)
      /\ life \in Seq(1..happened) /\ pending \in Seq(1..happened)
      /\ outgoing \in Seq(Payload)
      /\ happened \in 0..MaxEvents /\ told \in 0..happened
      /\ Covers(pending, told, happened)
      /\ \A i \in DOMAIN outgoing : Complete(outgoing[i])
  BY DEF FeedInv, FeedTypeOK
<1>1. CASE Nudge
  <2>1. queued' \in 0..QueueMax
    BY <1>0, <1>1 DEF Nudge
  <2>. QED
    BY <1>0, <1>1, <2>1, QuietSteps DEF Nudge
<1>2. ASSUME NEW on \in BOOLEAN, SetPaused(on)  PROVE FeedInv'
  BY <1>0, <1>2, QuietSteps DEF SetPaused
<1>3. ASSUME NEW c \in Client, Connect(c)  PROVE FeedInv'
  BY <1>0, <1>3, QuietSteps DEF Connect
<1>4. ASSUME NEW c \in Client, Disconnect(c)  PROVE FeedInv'
  BY <1>0, <1>4, QuietSteps DEF Disconnect
<1>5. ASSUME NEW n \in 0..QueueMax, NEW l \in 0..1, NEW j \in 0..1, Tick(n, l, j)
      PROVE  FeedInv'
  <2>. DEFINE heard == Upcoming(happened, n)
              lived == Upcoming(happened + n, l)
              worked == Upcoming(happened + n + l, j)
              buffered == pending \o heard \o worked
  <2>1. /\ happened' = happened + n + l + j /\ happened' \in 0..MaxEvents
        /\ happened \in Nat /\ n \in Nat /\ l \in Nat /\ j \in Nat
    <3>1. n \in Nat /\ l \in Nat /\ j \in Nat
      BY <1>0
    <3>2. happened' = happened + n + l + j /\ happened + n + l + j <= MaxEvents
      BY <1>5 DEF Tick
    <3>3. happened \in Nat /\ MaxEvents \in Nat
      BY <1>0
    <3>. QED
      BY <3>1, <3>2, <3>3
  <2>2. /\ heard \in Seq(1..happened') /\ (happened + 1)..(happened + n) \subseteq ToSet(heard)
        /\ lived \in Seq(1..happened')
        /\ (happened + n + 1)..(happened + n + l) \subseteq ToSet(lived)
        /\ worked \in Seq(1..happened')
        /\ (happened + n + l + 1)..(happened + n + l + j) \subseteq ToSet(worked)
    <3>. HIDE DEF heard, lived, worked
    <3>0. /\ happened + n \in Nat /\ happened + n + l \in Nat
          /\ happened + n <= happened' /\ happened + n + l <= happened'
          /\ happened + n + l + j <= happened' /\ happened' \in Nat
      BY <2>1
    <3>1. /\ heard \in Seq(1..happened') /\ (happened + 1)..(happened + n) \subseteq ToSet(heard)
      BY <2>1, <3>0, UpcomingFacts DEF heard
    <3>2. /\ lived \in Seq(1..happened')
          /\ (happened + n + 1)..(happened + n + l) \subseteq ToSet(lived)
      BY <2>1, <3>0, UpcomingFacts DEF lived
    <3>3. /\ worked \in Seq(1..happened')
          /\ (happened + n + l + 1)..(happened + n + l + j) \subseteq ToSet(worked)
      BY <2>1, <3>0, UpcomingFacts DEF worked
    <3>. QED
      BY <3>1, <3>2, <3>3
  <2>3. pending \in Seq(1..happened')
    <3>1. 1..happened \subseteq 1..happened'
      BY <2>1
    <3>. QED
      BY <1>0, <3>1, SeqMonotonic
  <2>. DEFINE all == buffered \o lived
  <2>4. MaybeBroadcast(buffered, lived, tick') /\ life' = lived
    BY <1>5 DEF Tick
  <2>. HIDE DEF heard, lived, worked
  <2>5. /\ pending \o heard \in Seq(1..happened')
        /\ Len(pending \o heard) = Len(pending) + Len(heard)
        /\ ToSet(pending) \subseteq ToSet(pending \o heard)
        /\ ToSet(heard) \subseteq ToSet(pending \o heard)
    BY <2>2, <2>3, ConcatFacts
  <2>6. /\ buffered \in Seq(1..happened')
        /\ Len(buffered) = Len(pending \o heard) + Len(worked)
        /\ ToSet(pending \o heard) \subseteq ToSet(buffered)
        /\ ToSet(worked) \subseteq ToSet(buffered)
    BY <2>2, <2>5, ConcatFacts
  <2>. HIDE DEF buffered
  <2>7. /\ all \in Seq(1..happened')
        /\ Len(all) = Len(buffered) + Len(lived)
        /\ ToSet(buffered) \subseteq ToSet(all)
        /\ ToSet(lived) \subseteq ToSet(all)
    BY <2>2, <2>6, ConcatFacts
  <2>8. Len(pending) <= Len(all)
    <3>1. /\ Len(pending) \in Nat /\ Len(heard) \in Nat
          /\ Len(worked) \in Nat /\ Len(lived) \in Nat
      BY <2>2, <2>3, LenProperties
    <3>. QED
      BY <3>1, <2>5, <2>6, <2>7
  <2>9. Covers(all, told, happened')
    <3>. SUFFICES ASSUME Len(all) < BufferMax,
                         NEW e \in (told + 1)..happened'
                  PROVE  e \in ToSet(all)
      BY DEF Covers
    <3>1. Len(pending) < BufferMax
      <4>1. Len(pending) \in Nat /\ Len(all) \in Nat
        <5>1. all \in Seq(1..happened')
          BY <2>2, <2>6, ConcatFacts
        <5>. QED
          BY <5>1, <2>3, LenProperties
      <4>. QED
        BY <4>1, <2>8
    <3>2. CASE e <= happened
      <4>1. e \in (told + 1)..happened
        BY <3>2, <1>0, <2>1
      <4>2. e \in ToSet(pending)
        BY <4>1, <3>1, <1>0 DEF Covers
      <4>. QED
        BY <4>2, <2>5, <2>6, <2>7
    <3>3. CASE ~(e <= happened)
      <4>1. \/ e \in (happened + 1)..(happened + n)
            \/ e \in (happened + n + 1)..(happened + n + l)
            \/ e \in (happened + n + l + 1)..(happened + n + l + j)
        BY <3>3, <1>0, <2>1
      <4>2. e \in ToSet(heard) \/ e \in ToSet(lived) \/ e \in ToSet(worked)
        BY <4>1, <2>2
      <4>. QED
        BY <4>2, <2>5, <2>6, <2>7
    <3>. QED
      BY <3>2, <3>3
  <2>10. /\ pending' \in Seq(1..happened') /\ told' \in 0..happened'
         /\ outgoing' \in Seq(Payload)
         /\ Covers(pending', told', happened')
         /\ \A i \in DOMAIN outgoing' : Complete(outgoing'[i])
    BY <2>1, <2>2, <2>4, <2>6, <2>9, BroadcastCovers
  <2>11. /\ queued' \in 0..QueueMax /\ UNCHANGED <<paused, restarting, clients>>
         /\ tick' \in 0..(IdleEvery - 1)
    <3>1. tick' = (tick + 1) % IdleEvery
      BY <1>5 DEF Tick
    <3>2. tick + 1 \in Nat /\ IdleEvery \in Nat \ {0}
      BY <1>0
    <3>3. tick' \in 0..(IdleEvery - 1)
      BY <3>1, <3>2
    <3>. QED
      BY <3>3, <1>5 DEF Tick
  <2>12. FeedTypeOK'
    BY <1>0, <2>1, <2>2, <2>4, <2>10, <2>11 DEF FeedTypeOK
  <2>. QED
    BY <2>10, <2>12 DEF FeedInv, Covers, Complete
<1>6. CASE Answer
  <2>1. /\ happened' = happened + 1 /\ happened' \in 0..MaxEvents
        /\ pending' = Append(pending, happened')
        /\ UNCHANGED <<queued, paused, restarting, clients, tick, life, outgoing, told>>
    BY <1>0, <1>6 DEF Answer
  <2>2. 1..happened \subseteq 1..happened' /\ happened' \in 1..happened' /\ told' \in 0..happened'
    BY <1>0, <2>1
  <2>3. pending \in Seq(1..happened') /\ life' \in Seq(1..happened')
    BY <1>0, <2>1, <2>2, SeqMonotonic
  <2>4. /\ pending' \in Seq(1..happened')
        /\ Len(pending') = Len(pending) + 1
        /\ ToSet(pending) \cup {happened'} \subseteq ToSet(pending')
    BY <2>1, <2>2, <2>3, AppendFacts
  <2>5. Covers(pending', told', happened')
    <3>1. Len(pending) \in Nat
      BY <1>0, LenProperties
    <3>2. (told + 1)..happened' \subseteq ((told + 1)..happened) \cup {happened'}
      BY <1>0, <2>1
    <3>. SUFFICES ASSUME Len(pending') < BufferMax
                  PROVE  (told' + 1)..happened' \subseteq ToSet(pending')
      BY DEF Covers
    <3>3. Len(pending) < BufferMax
      BY <2>4, <3>1
    <3>4. (told + 1)..happened \subseteq ToSet(pending)
      BY <1>0, <3>3 DEF Covers
    <3>5. told' = told
      BY <2>1
    <3>. QED
      BY <2>4, <3>2, <3>4, <3>5
  <2>6. FeedTypeOK'
    BY <1>0, <2>1, <2>2, <2>3, <2>4 DEF FeedTypeOK
  <2>. QED
    BY <1>0, <2>1, <2>5, <2>6 DEF FeedInv, Complete, Covers
<1>7. CASE RestartEdge
  <2>. DEFINE buffered == Append(pending, happened')
              all == buffered \o life
  <2>1. /\ happened' = happened + 1 /\ happened' \in 0..MaxEvents
        /\ happened <= happened' /\ happened' \in Nat
        /\ restarting' = ~restarting
        /\ MaybeBroadcast(buffered, life, tick)
        /\ UNCHANGED <<queued, paused, clients, tick, life>>
    BY <1>0, <1>7 DEF RestartEdge
  <2>2. 1..happened \subseteq 1..happened' /\ happened' \in 1..happened'
    BY <1>0, <2>1
  <2>3. pending \in Seq(1..happened') /\ life \in Seq(1..happened')
    BY <1>0, <2>2, SeqMonotonic
  <2>4. /\ buffered \in Seq(1..happened')
        /\ Len(buffered) = Len(pending) + 1
        /\ ToSet(pending) \cup {happened'} \subseteq ToSet(buffered)
    BY <2>2, <2>3, AppendFacts
  <2>. HIDE DEF buffered
  <2>5. /\ Len(all) = Len(buffered) + Len(life)
        /\ ToSet(buffered) \subseteq ToSet(all)
    BY <2>3, <2>4, ConcatFacts
  <2>6. Covers(all, told, happened')
    <3>1. Len(pending) \in Nat /\ Len(life) \in Nat
      BY <2>3, LenProperties
    <3>2. (told + 1)..happened' \subseteq ((told + 1)..happened) \cup {happened'}
      BY <1>0, <2>1
    <3>. HIDE DEF all
    <3>. SUFFICES ASSUME Len(all) < BufferMax PROVE (told + 1)..happened' \subseteq ToSet(all)
      BY DEF Covers
    <3>3. Len(pending) < BufferMax
      BY <2>4, <2>5, <3>1
    <3>4. (told + 1)..happened \subseteq ToSet(pending)
      BY <1>0, <3>3 DEF Covers
    <3>. QED
      BY <2>4, <2>5, <3>2, <3>4
  <2>7. /\ pending' \in Seq(1..happened') /\ told' \in 0..happened'
        /\ outgoing' \in Seq(Payload)
        /\ Covers(pending', told', happened')
        /\ \A i \in DOMAIN outgoing' : Complete(outgoing'[i])
    BY <2>1, <2>3, <2>4, <2>6, BroadcastCovers
  <2>8. FeedTypeOK'
    BY <1>0, <2>1, <2>3, <2>7 DEF FeedTypeOK
  <2>. QED
    BY <2>7, <2>8 DEF FeedInv, Covers, Complete
<1>8. ASSUME NEW dead \in SUBSET clients, Send(dead)  PROVE FeedInv'
  <2>1. /\ outgoing # <<>> /\ outgoing' = Tail(outgoing) /\ clients' \subseteq Client
        /\ UNCHANGED <<queued, paused, restarting, tick, life, pending, happened, told>>
    BY <1>0, <1>8 DEF Send
  <2>2. /\ Tail(outgoing) \in Seq(Payload)
        /\ \A i \in 1..Len(Tail(outgoing)) : Tail(outgoing)[i] = outgoing[i + 1]
        /\ Len(Tail(outgoing)) = Len(outgoing) - 1
        /\ DOMAIN Tail(outgoing) = 1..Len(Tail(outgoing))
        /\ Len(outgoing) \in Nat /\ DOMAIN outgoing = 1..Len(outgoing)
    BY <1>0, <2>1, HeadTailProperties, LenProperties
  <2>3. \A i \in DOMAIN Tail(outgoing) : Complete(Tail(outgoing)[i])
    BY <1>0, <2>2
  <2>. QED
    BY <1>0, <2>1, <2>2, <2>3, QuietSteps
<1>9. CASE UNCHANGED feedVars
  BY <1>0, <1>9, QuietSteps DEF feedVars
<1>. QED
  BY <1>1, <1>2, <1>3, <1>4, <1>5, <1>6, <1>7, <1>8, <1>9 DEF FeedNext

-----------------------------------------------------------------------------
\* Every payload holds all the events since the one before it, unless the
\* buffer ran full in between: the promise of _maybe_broadcast to a browser
\* that was not connected when they happened.
THEOREM PayloadsAreComplete == FeedSpec => []PayloadIsComplete
<1>1. FeedInv => PayloadIsComplete
  BY DEF FeedInv, PayloadIsComplete, Complete, Covers
<1>. QED
  BY <1>1, FeedInitially, FeedStep, PTL DEF FeedSpec

-----------------------------------------------------------------------------
(* The concurrency of calls *)

\* A clamped value is legal, and is the value itself when that was legal.
LEMMA ClampIsLegal ==
  ASSUME NEW v \in Int
  PROVE  /\ Clamp(v) \in 1..MaxSlots
         /\ v \in 1..MaxSlots => Clamp(v) = v
         /\ v >= 1 => Clamp(v) <= v
  BY TuningAssumption DEF TuningAssumption, Clamp

\* What the bang-bang step makes of a legal value.
LEMMA StepMoves ==
  ASSUME value \in 1..MaxSlots, NEW latency \in Latencies
  PROVE  /\ Step(latency) \in 1..MaxSlots
         /\ latency # "low" => Step(latency) <= value
         /\ latency = "high" /\ value > 1 => Step(latency) < value
<1>1. value + 1 \in Int /\ value - 1 \in Int /\ MaxSlots \in Nat
  BY TuningAssumption DEF TuningAssumption
<1>2. CASE latency = "low"
  BY <1>1, <1>2, ClampIsLegal DEF Step
<1>3. CASE latency = "high"
  <2>1. Step(latency) = Clamp(value - 1)
    BY <1>3 DEF Step
  <2>2. Clamp(value - 1) <= value /\ (value > 1 => Clamp(value - 1) < value)
    BY <1>1 DEF Clamp
  <2>. QED
    BY <1>1, <1>3, <2>1, <2>2, ClampIsLegal
<1>4. CASE latency = "ok"
  BY <1>1, <1>4 DEF Step
<1>. QED
  BY <1>2, <1>3, <1>4 DEF Latencies

\* What a day makes of a legal value; under host pressure never more.
LEMMA TunedMoves ==
  ASSUME value \in 1..MaxSlots, NEW latency \in Latencies, NEW hint \in Hints,
         NEW backOff \in BOOLEAN
  PROVE  /\ Tuned(latency, backOff, hint) \in 1..MaxSlots
         /\ backOff =>
              /\ Tuned(latency, backOff, hint) <= value
              /\ latency # "low" /\ value > 1 => Tuned(latency, backOff, hint) < value
<1>. DEFINE s == Step(latency)
            v == Vetoed(s, backOff)
<1>1. /\ s \in 1..MaxSlots
      /\ latency # "low" => s <= value
      /\ s - 1 \in Int /\ MaxSlots \in Nat
      /\ hint \in 1..MaxSlots
  <2>1. s \in 1..MaxSlots /\ (latency # "low" => s <= value)
    BY StepMoves
  <2>. QED
    BY <2>1, TuningAssumption DEF TuningAssumption
<1>2. s <= value + 1
  <2>1. Clamp(value + 1) <= value + 1 /\ Clamp(value - 1) <= value + 1
    BY TuningAssumption DEF TuningAssumption, Clamp
  <2>. QED
    BY <2>1 DEF Step, Latencies
<1>3. v \in 1..MaxSlots
  BY <1>1, ClampIsLegal DEF Vetoed
<1>4. ASSUME backOff
      PROVE  v <= value /\ (latency # "low" /\ value > 1 => v < value)
  <2>1. Clamp(s - 1) <= s /\ (s > 1 => Clamp(s - 1) = s - 1)
    BY <1>1 DEF Clamp
  <2>2. CASE s >= value
    BY <1>1, <1>2, <1>4, <2>1, <2>2 DEF Vetoed, Clamp
  <2>3. CASE ~(s >= value)
    BY <1>1, <1>4, <2>3 DEF Vetoed
  <2>. QED
    BY <2>2, <2>3
<1>5. Capped(v, hint) \in 1..MaxSlots
  BY <1>1, <1>3, ClampIsLegal DEF Capped
<1>6. v <= value => Capped(v, hint) = v
  BY <1>3 DEF Capped
<1>. HIDE DEF s, v
<1>7. Tuned(latency, backOff, hint) = Capped(v, hint)
  BY DEF Tuned, s, v
<1>. QED
  BY <1>4, <1>5, <1>6, <1>7

-----------------------------------------------------------------------------
(* The invariant *)

TuningInv == TuningTypeOK /\ LimitFollowsGate

\* TuningAssumption, each constant by itself.
LEMMA TuningConstants ==
  /\ MaxSlots \in Nat /\ MaxSlots >= 1 /\ PerSlot \in Nat /\ QuietDays \in Nat
  /\ Start \in 1..MaxSlots /\ 1 \in 1..MaxSlots
  BY TuningAssumption DEF TuningAssumption

LEMMA TuningInitially == TuningInit => TuningInv
<1>1. PerSlot * Start \in Nat /\ QuietDays \in 0..QuietDays
  BY TuningConstants
<1>. QED
  BY <1>1, TuningConstants DEF TuningInit, TuningInv, TuningTypeOK, LimitFollowsGate

\* The fields of a run that is not there.
LEMMA IdleTypes ==
  ASSUME NoRun
  PROVE  /\ stage' = "idle" /\ proposed' \in Proposals \cup Hints \cup {1}
         /\ before' \in 1..MaxSlots /\ kept' \in BOOLEAN
<1>1. 1 \in 1..MaxSlots
  BY TuningConstants
<1>2. /\ stage' = "idle" /\ before' = 1 /\ kept' \in BOOLEAN
      /\ proposed' \in Proposals \cup Hints \cup {1}
  BY DEF NoRun
<1>. QED
  BY <1>1, <1>2

\* A day's change keeps the gate legal and the limit on it.
LEMMA CarryStep ==
  ASSUME TuningInv, NEW v \in 1..MaxSlots, Carry(v)
  PROVE  /\ slots' \in 1..MaxSlots /\ backlogLimit' \in Nat
         /\ backlogLimit' = PerSlot * slots'
         /\ quiet' \in 0..QuietDays
<1>1. PerSlot \in Nat /\ QuietDays \in Nat /\ MaxSlots \in Nat
  BY TuningAssumption DEF TuningAssumption
<1>2. slots \in 1..MaxSlots /\ backlogLimit \in Nat /\ backlogLimit = PerSlot * slots /\ quiet \in 0..QuietDays
  BY DEF TuningInv, TuningTypeOK, LimitFollowsGate
<1>3. quiet' \in 0..QuietDays
  BY <1>1, <1>2 DEF Carry
<1>4. CASE v = value
  BY <1>2, <1>3, <1>4 DEF Carry
<1>5. CASE v # value
  <2>1. slots' = v /\ backlogLimit' = PerSlot * v
    BY <1>5 DEF Carry
  <2>2. PerSlot * v \in Nat
    BY <1>1
  <2>. QED
    BY <1>3, <2>1, <2>2
<1>. QED
  BY <1>4, <1>5

\* Between ticks the background run changes the registry's value at most.
LEMMA RunnerStep == TuningInv /\ Runner => TuningInv'
<1>. SUFFICES ASSUME TuningInv, Runner
              PROVE  TuningInv'
  OBVIOUS
<1>. USE DEF TuningInv, TuningTypeOK, LimitFollowsGate, Background, control, run
<1>1. CASE Begin
  BY <1>1 DEF Begin
<1>2. ASSUME NEW yes \in BOOLEAN, Probed(yes)
      PROVE  TuningInv'
  BY <1>2 DEF Probed
<1>3. ASSUME NEW yes \in BOOLEAN, Checked(yes)
      PROVE  TuningInv'
  BY <1>3 DEF Checked
<1>4. CASE Apply
  <2>1. proposed \in Int
    BY TuningAssumption DEF TuningAssumption
  <2>2. value' \in 1..MaxSlots
    BY <1>4, <2>1, ClampIsLegal DEF Apply
  <2>. QED
    BY <1>4, <2>2, IdleTypes DEF Apply
<1>5. CASE RunRaises
  BY <1>5, IdleTypes DEF RunRaises
<1>. QED
  BY <1>1, <1>2, <1>3, <1>4, <1>5 DEF Runner

LEMMA TuningStep == TuningInv /\ [TuningNext]_tuningVars => TuningInv'
<1>. SUFFICES ASSUME TuningInv, [TuningNext]_tuningVars
              PROVE  TuningInv'
  OBVIOUS
<1>. USE DEF TuningInv, TuningTypeOK, LimitFollowsGate
<1>1. ASSUME NEW latency \in Latencies, NEW backOff \in BOOLEAN, NEW hint \in Hints,
             DailyTune(latency, backOff, hint)
      PROVE  TuningInv'
  <2>1. Tuned(latency, backOff, hint) \in 1..MaxSlots
    BY TunedMoves
  <2>2. /\ slots' \in 1..MaxSlots /\ backlogLimit' \in Nat
        /\ backlogLimit' = PerSlot * slots' /\ quiet' \in 0..QuietDays
    BY <1>1, <2>1, CarryStep DEF DailyTune
  <2>. QED
    BY <1>1, <2>1, <2>2 DEF DailyTune, run
<1>2. CASE DayWithoutEvidence
  <2>1. quiet' \in 0..QuietDays
    BY <1>2, TuningAssumption DEF DayWithoutEvidence, TuningAssumption
  <2>. QED
    BY <1>2, <2>1 DEF DayWithoutEvidence, control, run
<1>3. ASSUME NEW p \in Proposals, AskedByUser(p)
      PROVE  TuningInv'
  BY <1>3 DEF AskedByUser, Spawn, control
<1>4. CASE AskedByCalendar
  BY <1>4 DEF AskedByCalendar, Spawn, control
<1>5. CASE CalendarPasses
  BY <1>5 DEF CalendarPasses, control, run
<1>6. CASE Runner
  BY <1>6, RunnerStep
<1>7. CASE UNCHANGED tuningVars
  BY <1>7 DEF tuningVars, control, run
<1>. QED
  BY <1>1, <1>2, <1>3, <1>4, <1>5, <1>6, <1>7 DEF TuningNext

\* The registry, the gate and the admission limit keep to their ranges,
\* whatever users, strategies and measurements propose.
THEOREM TuningTypes == TuningSpec => []TuningTypeOK
<1>1. TuningInv => TuningTypeOK
  BY DEF TuningInv
<1>. QED
  BY <1>1, TuningInitially, TuningStep, PTL DEF TuningSpec

\* Backpressure always reckons with the gate that calls run through, though
\* two controllers move the tunable.
THEOREM LimitTracksGate == TuningSpec => []LimitFollowsGate
<1>1. TuningInv => LimitFollowsGate
  BY DEF TuningInv
<1>. QED
  BY <1>1, TuningInitially, TuningStep, PTL DEF TuningSpec

\* However wide the range and wherever a hypothesis left the value, a day of
\* host pressure never raises it.
THEOREM HostPressureEases == TuningSpec => PressureEases
<1>. DEFINE Eases ==
       \A latency \in Latencies, hint \in Hints :
         DailyTune(latency, TRUE, hint) =>
           /\ value' <= value
           /\ latency # "low" /\ value > 1 => value' < value
<1>1. TuningInv /\ [TuningNext]_tuningVars => [Eases]_tuningVars
  <2>. SUFFICES ASSUME TuningInv, NEW latency \in Latencies, NEW hint \in Hints,
                       DailyTune(latency, TRUE, hint)
                PROVE  /\ value' <= value
                       /\ latency # "low" /\ value > 1 => value' < value
    OBVIOUS
  <2>1. value \in 1..MaxSlots /\ value' = Tuned(latency, TRUE, hint)
    BY DEF TuningInv, TuningTypeOK, DailyTune
  <2>2. TRUE \in BOOLEAN
    OBVIOUS
  <2>. QED
    BY <2>1, <2>2, TunedMoves
<1>. QED
  BY <1>1, TuningInitially, TuningStep, PTL DEF TuningSpec, PressureEases
=============================================================================
