----------------------- MODULE CognitionRunnerProofs -----------------------
(***************************************************************************)
(* Proofs about CognitionRunner, for every set of calls, every limit and   *)
(* every sequence of resizes: the types, the conservation of permits, the  *)
(* backlog, the work-conserving gate, the accounts of the outcomes, and    *)
(* that it implements AnsweredCalls.                                       *)
(***************************************************************************)
EXTENDS CognitionRunner, FiniteSetTheorems, TLAPS

-----------------------------------------------------------------------------
(* Lemmas on the operators *)

\* The calls in given phases are finitely many.
LEMMA InFinite ==
  ASSUME NEW ph, NEW S
  PROVE  /\ IsFiniteSet(In(ph, S))
         /\ Cardinality(In(ph, S)) \in Nat
<1>1. In(ph, S) \in SUBSET Jobs
  BY DEF In
<1>. QED
  BY <1>1, RunnerAssumption, FS_Subset, FS_CardinalityType DEF RunnerAssumption

\* Which phases hold a permit and which are inside run().
LEMMA PhaseFacts ==
  /\ "new" \in Phases /\ "new" \notin HoldingPhases /\ "new" \notin OpenPhases
  /\ "returned" \in Phases /\ "returned" \notin HoldingPhases /\ "returned" \notin OpenPhases
  /\ "cancelled" \in Phases /\ "cancelled" \notin HoldingPhases /\ "cancelled" \notin OpenPhases
  /\ "aborted" \in Phases /\ "aborted" \notin HoldingPhases /\ "aborted" \notin OpenPhases
  /\ "waiting" \in Phases /\ "waiting" \notin HoldingPhases /\ "waiting" \in OpenPhases
  /\ "granted" \in Phases /\ "granted" \in HoldingPhases /\ "granted" \in OpenPhases
  /\ "calling" \in Phases /\ "calling" \in HoldingPhases /\ "calling" \in OpenPhases
  BY DEF Phases, HoldingPhases, OpenPhases

\* The phases once call j has moved to `to`.
Moved(ph, j, to) == [ph EXCEPT ![j] = to]

\* Moving one call between phases changes the count of a set of phases by at
\* most that call.
LEMMA MoveOne ==
  ASSUME NEW ph \in [Jobs -> Phases], NEW j \in Jobs, NEW to \in Phases, NEW S
  PROVE  /\ Moved(ph, j, to) \in [Jobs -> Phases]
         /\ ph[j] \in S /\ to \in S =>
              Cardinality(In(Moved(ph, j, to), S)) = Cardinality(In(ph, S))
         /\ ph[j] \notin S /\ to \notin S =>
              Cardinality(In(Moved(ph, j, to), S)) = Cardinality(In(ph, S))
         /\ ph[j] \notin S /\ to \in S =>
              Cardinality(In(Moved(ph, j, to), S)) = Cardinality(In(ph, S)) + 1
         /\ ph[j] \in S /\ to \notin S =>
              Cardinality(In(Moved(ph, j, to), S)) = Cardinality(In(ph, S)) - 1
<1>. DEFINE moved == [ph EXCEPT ![j] = to]
<1>0. Moved(ph, j, to) = moved
  BY DEF Moved
<1>1. moved \in [Jobs -> Phases]
  OBVIOUS
<1>2. ASSUME (ph[j] \in S) <=> (to \in S)  PROVE In(moved, S) = In(ph, S)
  BY <1>2 DEF In
<1>3. ASSUME ph[j] \notin S, to \in S
      PROVE  Cardinality(In(moved, S)) = Cardinality(In(ph, S)) + 1
  <2>1. In(moved, S) = In(ph, S) \cup {j}
    BY <1>3 DEF In
  <2>2. j \notin In(ph, S)
    BY <1>3 DEF In
  <2>. QED
    BY <2>1, <2>2, InFinite, FS_AddElement
<1>4. ASSUME ph[j] \in S, to \notin S
      PROVE  Cardinality(In(moved, S)) = Cardinality(In(ph, S)) - 1
  <2>1. In(moved, S) = In(ph, S) \ {j}
    BY <1>4 DEF In
  <2>2. j \in In(ph, S)
    BY <1>4 DEF In
  <2>. QED
    BY <2>1, <2>2, InFinite, FS_RemoveElement
<1>. QED
  BY <1>0, <1>1, <1>2, <1>3, <1>4

\* Waking moves permits from the counter to calls, and nothing else.
LEMMA WakeUpMovesPermits ==
  ASSUME NEW ph \in [Jobs -> Phases], NEW total \in Nat, NEW n \in Nat,
         n <= total, WakeUp(ph, total, n)
  PROVE  /\ phase' \in [Jobs -> Phases]
         /\ free' \in Nat
         /\ free' + Cardinality(Holding') =
              total + Cardinality(In(ph, HoldingPhases))
         /\ Open' = In(ph, OpenPhases)
         /\ \A j \in Jobs : \/ phase'[j] = ph[j]
                            \/ ph[j] = "waiting" /\ phase'[j] = "granted"
         /\ n > 0 /\ Waiting' # {} => Granted' # {}
         /\ n = 0 => phase' = ph /\ free' = total
<1>. DEFINE H == In(ph, HoldingPhases)
            Q == In(ph, {"waiting"})
<1>1. PICK W \in SUBSET Q :
        /\ Cardinality(W) = Least(n, Cardinality(Q))
        /\ phase' = [j \in Jobs |-> IF j \in W THEN "granted" ELSE ph[j]]
        /\ free' = total - Cardinality(W)
  BY DEF WakeUp
<1>2. phase' \in [Jobs -> Phases]
  BY <1>1 DEF Phases
<1>3. Cardinality(Q) \in Nat /\ IsFiniteSet(Q) /\ IsFiniteSet(H) /\ Cardinality(H) \in Nat
  BY InFinite
<1>4. IsFiniteSet(W) /\ Cardinality(W) \in Nat /\ Cardinality(W) <= n
  <2>1. IsFiniteSet(W) /\ Cardinality(W) \in Nat
    BY <1>3, FS_Subset, FS_CardinalityType
  <2>. QED
    BY <1>1, <1>3, <2>1 DEF Least
<1>5. Holding' = H \cup W
  BY <1>1 DEF Holding, HoldingPhases, In
<1>6. H \cap W = {}
  BY <1>1 DEF In, HoldingPhases
<1>7. Cardinality(Holding') = Cardinality(H) + Cardinality(W)
  <2>1. Cardinality(H \cap W) = 0
    BY <1>6, FS_EmptySet
  <2>2. Cardinality(H \cup W) = Cardinality(H) + Cardinality(W) - Cardinality(H \cap W)
    BY <1>3, <1>4, FS_Union
  <2>. HIDE DEF H
  <2>. QED
    BY <1>3, <1>4, <1>5, <2>1, <2>2
<1>8. free' \in Nat
  BY <1>1, <1>4
<1>9. Open' = In(ph, OpenPhases)
  BY <1>1 DEF Open, OpenPhases, HoldingPhases, In
<1>10. \A j \in Jobs : \/ phase'[j] = ph[j]
                       \/ ph[j] = "waiting" /\ phase'[j] = "granted"
  BY <1>1 DEF In
<1>11. n > 0 /\ Waiting' # {} => Granted' # {}
  <2>. SUFFICES ASSUME n > 0, Waiting' # {}  PROVE Granted' # {}
    OBVIOUS
  <2>1. Q # {}
    BY <1>1 DEF Waiting, In
  <2>2. Cardinality(Q) # 0
    BY <2>1, <1>3, FS_EmptySet
  <2>3. Cardinality(W) # 0
    BY <2>2, <1>1, <1>3 DEF Least
  <2>4. W # {}
    BY <2>3, FS_EmptySet
  <2>. QED
    BY <2>4, <1>1 DEF Granted, In
<1>12. n = 0 => phase' = ph /\ free' = total
  <2>. SUFFICES ASSUME n = 0  PROVE phase' = ph /\ free' = total
    OBVIOUS
  <2>1. Cardinality(W) = 0
    BY <1>4
  <2>2. W = {}
    BY <2>1, <1>4, FS_EmptySet
  <2>. QED
    BY <1>1, <2>1, <2>2
<1>. QED
  BY <1>1, <1>2, <1>3, <1>4, <1>7, <1>8, <1>9, <1>10, <1>11, <1>12

-----------------------------------------------------------------------------
(* The inductive invariant *)

\* The types, the conservation of permits, the backlog and the gate that never
\* leaves a permit idle are inductive together: a permit is given back only by
\* a call that holds one, and `free` is a natural number because of the count.
Inv ==
  /\ TypeOK
  /\ PermitsConserved
  /\ BacklogIsOpen
  /\ NoIdlePermit

LEMMA InitInv == Init => Inv
<1>. SUFFICES ASSUME Init PROVE Inv
  OBVIOUS
<1>. USE DEF Init
<1>1. limit \in Nat \ {0}
  BY RunnerAssumption DEF RunnerAssumption, AtLeastOne
<1>2. TypeOK
  <2>1. phase \in [Jobs -> Phases] /\ worker \in [Jobs -> Workers]
    BY DEF Phases, Workers
  <2>2. calls \in [Counters -> Nat] /\ reasoningCalls \in [ReasoningCounters -> Nat]
    OBVIOUS
  <2>3. answer \in [Jobs -> {"none", "llm", "fallback"}]
    OBVIOUS
  <2>4. enabled \in BOOLEAN /\ closing \in BOOLEAN
    OBVIOUS
  <2>5. limit \in Nat \ {0} /\ free \in Nat /\ pendingShrink \in Nat
        /\ backlog \in Int /\ resizes \in Nat
    BY <1>1
  <2>. QED
    BY <2>1, <2>2, <2>3, <2>4, <2>5 DEF TypeOK
<1>3. Holding = {} /\ Open = {} /\ Waiting = {}
  BY DEF Holding, Open, Waiting, In, HoldingPhases, OpenPhases
<1>4. PermitsConserved /\ BacklogIsOpen
  BY <1>1, <1>3, FS_EmptySet DEF PermitsConserved, BacklogIsOpen
<1>. QED
  BY <1>2, <1>3, <1>4 DEF Inv, NoIdlePermit

\* What the gate does when a holder leaves: the permit it held is swallowed or
\* passed on, so that the count and the idle rule hold again.
LEMMA ReleaseStep ==
  ASSUME Inv, NEW j \in Jobs, NEW end \in {"returned", "aborted"},
         phase[j] = "calling", Release([phase EXCEPT ![j] = end])
  PROVE  /\ limit' = limit /\ pendingShrink' \in Nat
         /\ phase' \in [Jobs -> Phases] /\ free' \in Nat
         /\ PermitsConserved'
         /\ NoIdlePermit'
         /\ Cardinality(Open') = Cardinality(Open) - 1
<1>. DEFINE ph == [phase EXCEPT ![j] = end]
<1>0. /\ phase \in [Jobs -> Phases] /\ limit \in Nat \ {0}
      /\ free \in Nat /\ pendingShrink \in Nat
      /\ PermitsConserved /\ NoIdlePermit
  BY DEF Inv, TypeOK
<1>1. ph \in [Jobs -> Phases] /\ end \in Phases
  BY <1>0 DEF Phases
<1>a. ph = Moved(phase, j, end)
  BY DEF Moved
<1>. HIDE DEF ph
<1>2. Cardinality(In(ph, HoldingPhases)) = Cardinality(Holding) - 1
  BY <1>0, <1>1, <1>a, PhaseFacts, MoveOne DEF Holding
<1>3. Cardinality(In(ph, OpenPhases)) = Cardinality(Open) - 1
  BY <1>0, <1>1, <1>a, PhaseFacts, MoveOne DEF Open
<1>4. Cardinality(Holding) \in Nat /\ Cardinality(In(ph, HoldingPhases)) \in Nat
  BY InFinite DEF Holding
<1>5. CASE pendingShrink > 0
  <2>1. /\ limit' = limit /\ pendingShrink' = pendingShrink - 1
        /\ phase' = ph /\ free' = free
    BY <1>0, <1>5 DEF Release, PutBack, ph
  <2>2. Holding' = In(ph, HoldingPhases)
    BY <2>1 DEF Holding
  <2>3. Open' = In(ph, OpenPhases)
    BY <2>1 DEF Open
  <2>4. Waiting' = Waiting /\ Granted \subseteq Granted'
    BY <1>0, <2>1 DEF Waiting, Granted, In, ph
  <2>5. PermitsConserved'
    BY <1>0, <1>2, <1>4, <2>1, <2>2 DEF PermitsConserved
  <2>6. NoIdlePermit'
    BY <1>0, <2>1, <2>4 DEF NoIdlePermit
  <2>. QED
    BY <1>0, <1>1, <1>3, <1>5, <2>1, <2>3, <2>5, <2>6
<1>6. CASE pendingShrink = 0
  <2>1. limit' = limit /\ pendingShrink' = pendingShrink /\ WakeUp(ph, free + 1, 1)
    BY <1>0, <1>6 DEF Release, PutBack, ph
  <2>2. /\ phase' \in [Jobs -> Phases] /\ free' \in Nat
        /\ free' + Cardinality(Holding') =
             free + 1 + Cardinality(In(ph, HoldingPhases))
        /\ Open' = In(ph, OpenPhases)
        /\ Waiting' # {} => Granted' # {}
    BY <1>0, <1>1, <2>1, WakeUpMovesPermits
  <2>3. Cardinality(Holding') \in Nat
    BY InFinite DEF Holding
  <2>4. PermitsConserved'
    BY <1>0, <1>2, <1>4, <2>1, <2>2, <2>3 DEF PermitsConserved
  <2>5. NoIdlePermit'
    BY <2>2 DEF NoIdlePermit
  <2>. QED
    BY <1>0, <1>3, <2>1, <2>2, <2>4, <2>5
<1>. QED
  BY <1>0, <1>5, <1>6

\* The flags stay Booleans.
LEMMA FlagsStep ==
  Inv /\ [Next]_vars => (enabled \in BOOLEAN /\ closing \in BOOLEAN)'
  BY DEF Inv, TypeOK, vars, gate, counters, Next, Loop, Shutdown, Resize,
         RunDisabled, RunAtOnce, RunWait, Resume, ThreadStart, ThreadEnd,
         Succeed, Fail, Finish, OuterTimeout, CancelCalling, CancelWaiting,
         CancelGranted

\* Counting keeps the counters natural numbers.
LEMMA CountTypes ==
  ASSUME Inv, NEW j, NEW S, Count(j, S)
  PROVE  (calls \in [Counters -> Nat]
            /\ reasoningCalls \in [ReasoningCounters -> Nat])'
<1>. USE DEF Inv, TypeOK, Count
<1>1. calls' \in [Counters -> Nat]
  OBVIOUS
<1>2. reasoningCalls' \in [ReasoningCounters -> Nat]
  <2>1. CASE j \in ReasoningJobs
    BY <2>1
  <2>2. CASE j \notin ReasoningJobs
    BY <2>2
  <2>. QED
    BY <2>1, <2>2
<1>. QED
  BY <1>1, <1>2

\* The threads, the answers and the counters keep their types.
LEMMA RecordsStep ==
  Inv /\ [Next]_vars =>
    (/\ worker \in [Jobs -> Workers]
     /\ answer \in [Jobs -> {"none", "llm", "fallback"}]
     /\ calls \in [Counters -> Nat]
     /\ reasoningCalls \in [ReasoningCounters -> Nat])'
<1>. SUFFICES ASSUME Inv, [Next]_vars
     PROVE  (/\ worker \in [Jobs -> Workers]
             /\ answer \in [Jobs -> {"none", "llm", "fallback"}]
             /\ calls \in [Counters -> Nat]
             /\ reasoningCalls \in [ReasoningCounters -> Nat])'
  OBVIOUS
<1>. USE DEF Inv, TypeOK, Workers, Outcomes, gate, counters
<1>1. CASE UNCHANGED vars
  BY <1>1 DEF vars
<1>2. CASE Shutdown
  BY <1>2 DEF Shutdown
<1>3. ASSUME NEW n \in Targets, Resize(n)
      PROVE  UNCHANGED <<worker, answer, calls, reasoningCalls>>
  BY <1>3 DEF Resize
<1>4. ASSUME NEW j \in Jobs, RunDisabled(j)
      PROVE  UNCHANGED <<worker, calls, reasoningCalls>>
             /\ answer' \in [Jobs -> {"none", "llm", "fallback"}]
  BY <1>4 DEF RunDisabled
<1>5. ASSUME NEW j \in Jobs, RunWait(j) \/ CancelWaiting(j) \/ CancelGranted(j)
      PROVE  UNCHANGED <<worker, answer, calls, reasoningCalls>>
  BY <1>5 DEF RunWait, CancelWaiting, CancelGranted
<1>6. ASSUME NEW j \in Jobs, RunAtOnce(j) \/ Resume(j)
      PROVE  /\ worker' \in [Jobs -> Workers]
             /\ UNCHANGED answer
             /\ Count(j, {"attempted"})
  BY <1>6 DEF RunAtOnce, Resume, StartCall
<1>7. ASSUME NEW j \in Jobs, NEW outcome \in Outcomes,
             ThreadStart(j) \/ ThreadEnd(j, outcome)
      PROVE  /\ worker' \in [Jobs -> Workers]
             /\ UNCHANGED <<answer, calls, reasoningCalls>>
  BY <1>7 DEF ThreadStart, ThreadEnd
<1>8. ASSUME NEW j \in Jobs, NEW near \in BOOLEAN,
             Succeed(j, near) \/ Fail(j) \/ OuterTimeout(j)
      PROVE  /\ worker' \in [Jobs -> Workers]
             /\ answer' \in [Jobs -> {"none", "llm", "fallback"}]
             /\ \E S : Count(j, S)
  <2>1. worker' \in [Jobs -> Workers]
    BY <1>8 DEF Succeed, Fail, OuterTimeout, Abandon
  <2>2. answer' \in [Jobs -> {"none", "llm", "fallback"}]
    BY <1>8 DEF Succeed, Fail, OuterTimeout
  <2>3. \E S : Count(j, S)
    BY <1>8, Zenon DEF Succeed, Fail, OuterTimeout
  <2>. QED
    BY <2>1, <2>2, <2>3
<1>9. ASSUME NEW j \in Jobs, CancelCalling(j)
      PROVE  /\ worker' \in [Jobs -> Workers]
             /\ UNCHANGED <<answer, calls, reasoningCalls>>
  BY <1>9 DEF CancelCalling, Abandon
<1>10. \A j \in Jobs : \A S : Count(j, S) =>
         (calls \in [Counters -> Nat]
            /\ reasoningCalls \in [ReasoningCounters -> Nat])'
  BY CountTypes
<1>. QED
  BY <1>1, <1>2, <1>3, <1>4, <1>5, <1>6, <1>7, <1>8, <1>9, <1>10
     DEF Next, Loop

\* The part of the invariant that is about the gate and the calls inside it.
GateInv ==
  /\ limit \in Nat \ {0} /\ free \in Nat /\ pendingShrink \in Nat
  /\ phase \in [Jobs -> Phases] /\ backlog \in Int /\ resizes \in Nat
  /\ PermitsConserved
  /\ BacklogIsOpen
  /\ NoIdlePermit

\* Steps that touch neither the gate, nor a phase, nor the backlog.
LEMMA GateUntouched ==
  ASSUME Inv, UNCHANGED <<limit, free, pendingShrink, phase, backlog, resizes>>
  PROVE  GateInv'
<1>1. Holding' = Holding /\ Open' = Open /\ Waiting' = Waiting /\ Granted' = Granted
  BY DEF Holding, Open, Waiting, Granted
<1>. QED
  BY <1>1 DEF GateInv, Inv, TypeOK, PermitsConserved, BacklogIsOpen, NoIdlePermit

\* A step that moves one call and wakes nobody counts that call in and out.
One(b) == IF b THEN 1 ELSE 0

LEMMA MoveInGate ==
  ASSUME phase \in [Jobs -> Phases], NEW j \in Jobs, NEW to \in Phases,
         phase' = Moved(phase, j, to)
  PROVE  /\ phase' \in [Jobs -> Phases]
         /\ Cardinality(Holding') = Cardinality(Holding)
              + One(to \in HoldingPhases) - One(phase[j] \in HoldingPhases)
         /\ Cardinality(Open') = Cardinality(Open)
              + One(to \in OpenPhases) - One(phase[j] \in OpenPhases)
<1>1. \A S : Cardinality(In(phase, S)) \in Nat
  BY InFinite
<1>2. phase' \in [Jobs -> Phases]
  BY MoveOne
<1>3. ASSUME NEW S
      PROVE  Cardinality(In(phase', S)) = Cardinality(In(phase, S))
               + One(to \in S) - One(phase[j] \in S)
  <2>1. CASE to \in S /\ phase[j] \in S
    BY <1>1, <2>1, MoveOne DEF One
  <2>2. CASE to \notin S /\ phase[j] \notin S
    BY <1>1, <2>2, MoveOne DEF One
  <2>3. CASE to \in S /\ phase[j] \notin S
    BY <1>1, <2>3, MoveOne DEF One
  <2>4. CASE to \notin S /\ phase[j] \in S
    BY <1>1, <2>4, MoveOne DEF One
  <2>. QED
    BY <2>1, <2>2, <2>3, <2>4
<1>. QED
  BY <1>2, <1>3 DEF Holding, Open

\* The steps of one call that leave the permits of the others alone.
LEMMA OneCallStep ==
  ASSUME Inv, NEW j \in Jobs,
         RunDisabled(j) \/ RunAtOnce(j) \/ RunWait(j) \/ CancelWaiting(j)
  PROVE  GateInv'
<1>. USE DEF Inv, TypeOK
<1>2. /\ Cardinality(Holding) \in Nat /\ Cardinality(Open) \in Nat
      /\ Cardinality(Holding') \in Nat /\ Cardinality(Open') \in Nat
  BY InFinite DEF Holding, Open
<1>3. CASE RunDisabled(j)
  <2>1. phase' = Moved(phase, j, "returned") /\ phase[j] = "new"
    BY <1>3 DEF RunDisabled, Moved
  <2>2. /\ Cardinality(Holding') = Cardinality(Holding)
        /\ Cardinality(Open') = Cardinality(Open)
        /\ phase' \in [Jobs -> Phases]
    BY <1>2, <2>1, PhaseFacts, MoveInGate DEF One
  <2>3. Waiting' = Waiting /\ Granted' = Granted
    BY <2>1 DEF Moved, Waiting, Granted, In
  <2>4. UNCHANGED <<limit, free, pendingShrink, backlog, resizes>>
    BY <1>3 DEF RunDisabled, gate
  <2>. QED
    BY <2>2, <2>3, <2>4
       DEF GateInv, PermitsConserved, BacklogIsOpen, NoIdlePermit
<1>4. CASE RunAtOnce(j)
  <2>1. phase' = Moved(phase, j, "calling") /\ phase[j] = "new"
    BY <1>4 DEF RunAtOnce, Moved
  <2>2. /\ Cardinality(Holding') = Cardinality(Holding) + 1
        /\ Cardinality(Open') = Cardinality(Open) + 1
        /\ phase' \in [Jobs -> Phases]
    BY <1>2, <2>1, PhaseFacts, MoveInGate DEF One
  <2>3. Waiting' = {}
    BY <1>4, <2>1 DEF RunAtOnce, Locked, Moved, Waiting, In
  <2>4. /\ UNCHANGED <<limit, pendingShrink, resizes>>
        /\ free # 0 /\ free' = free - 1 /\ backlog' = backlog + 1
    BY <1>4 DEF RunAtOnce, Locked
  <2>5. PermitsConserved' /\ BacklogIsOpen'
    BY <1>2, <2>2, <2>4 DEF PermitsConserved, BacklogIsOpen
  <2>. QED
    BY <2>2, <2>3, <2>4, <2>5 DEF GateInv, NoIdlePermit
<1>5. CASE RunWait(j)
  <2>1. phase' = Moved(phase, j, "waiting") /\ phase[j] = "new"
    BY <1>5 DEF RunWait, Moved
  <2>2. /\ Cardinality(Holding') = Cardinality(Holding)
        /\ Cardinality(Open') = Cardinality(Open) + 1
        /\ phase' \in [Jobs -> Phases]
    BY <1>2, <2>1, PhaseFacts, MoveInGate DEF One
  <2>3. Granted' = Granted
    BY <2>1 DEF Moved, Granted, In
  <2>4. /\ UNCHANGED <<limit, free, pendingShrink, resizes>>
        /\ backlog' = backlog + 1 /\ Locked
    BY <1>5 DEF RunWait, gate
  <2>5. PermitsConserved' /\ BacklogIsOpen'
    BY <1>2, <2>2, <2>4 DEF PermitsConserved, BacklogIsOpen
  <2>6. NoIdlePermit'
    BY <2>3, <2>4 DEF NoIdlePermit, Locked
  <2>. QED
    BY <2>2, <2>4, <2>5, <2>6 DEF GateInv
<1>6. CASE CancelWaiting(j)
  <2>1. phase' = Moved(phase, j, "cancelled") /\ phase[j] = "waiting"
    BY <1>6 DEF CancelWaiting, Moved
  <2>2. /\ Cardinality(Holding') = Cardinality(Holding)
        /\ Cardinality(Open') = Cardinality(Open) - 1
        /\ phase' \in [Jobs -> Phases]
    BY <1>2, <2>1, PhaseFacts, MoveInGate DEF One
  <2>3. Granted' = Granted /\ Waiting' \subseteq Waiting
    BY <2>1 DEF Moved, Waiting, Granted, In
  <2>4. /\ UNCHANGED <<limit, free, pendingShrink, resizes>>
        /\ backlog' = backlog - 1
    BY <1>6 DEF CancelWaiting, gate
  <2>5. PermitsConserved' /\ BacklogIsOpen'
    BY <1>2, <2>2, <2>4 DEF PermitsConserved, BacklogIsOpen
  <2>6. NoIdlePermit'
    BY <2>3, <2>4 DEF NoIdlePermit
  <2>. QED
    BY <2>2, <2>4, <2>5, <2>6 DEF GateInv
<1>. QED
  BY <1>3, <1>4, <1>5, <1>6

\* A woken call runs, or is cancelled with its permit: the waiters are woken
\* from the permits left at hand.
LEMMA WakingStep ==
  ASSUME Inv, NEW j \in Jobs, Resume(j) \/ CancelGranted(j)
  PROVE  GateInv'
<1>. USE DEF Inv, TypeOK
<1>1. /\ Cardinality(Holding) \in Nat /\ Cardinality(Open) \in Nat
      /\ Cardinality(Holding') \in Nat /\ Cardinality(Open') \in Nat
  BY InFinite DEF Holding, Open
<1>2. CASE Resume(j)
  <2>. DEFINE ph == Moved(phase, j, "calling")
              n == Least(free, 1)
  <2>1. phase[j] = "granted" /\ WakeUp(ph, free, n)
        /\ UNCHANGED <<limit, pendingShrink, backlog, resizes>>
    BY <1>2 DEF Resume, Moved
  <2>2. n \in Nat /\ n <= free /\ (n = 0 => free = 0)
    BY DEF Least
  <2>3. /\ ph \in [Jobs -> Phases]
        /\ Cardinality(In(ph, HoldingPhases)) = Cardinality(Holding)
        /\ Cardinality(In(ph, OpenPhases)) = Cardinality(Open)
    <3>1. ph \in [Jobs -> Phases]
      BY PhaseFacts, MoveOne
    <3>. DEFINE to == "calling"
    <3>2. /\ to \in Phases
          /\ phase[j] \in HoldingPhases /\ to \in HoldingPhases
          /\ phase[j] \in OpenPhases /\ to \in OpenPhases
      BY <2>1, PhaseFacts
    <3>3. ph = Moved(phase, j, to) /\ phase \in [Jobs -> Phases]
      OBVIOUS
    <3>. HIDE DEF to, ph, TypeOK, Inv
    <3>4. Cardinality(In(ph, HoldingPhases)) = Cardinality(Holding)
      BY <3>2, <3>3, MoveOne DEF Holding
    <3>5. Cardinality(In(ph, OpenPhases)) = Cardinality(Open)
      BY <3>2, <3>3, MoveOne DEF Open
    <3>. QED
      BY <3>1, <3>4, <3>5
  <2>. HIDE DEF ph, n
  <2>4. /\ phase' \in [Jobs -> Phases] /\ free' \in Nat
        /\ free' + Cardinality(Holding') = free + Cardinality(In(ph, HoldingPhases))
        /\ Open' = In(ph, OpenPhases)
        /\ n > 0 /\ Waiting' # {} => Granted' # {}
        /\ n = 0 => free' = free
    BY <2>1, <2>2, <2>3, WakeUpMovesPermits
  <2>5. PermitsConserved' /\ BacklogIsOpen' /\ NoIdlePermit'
    BY <1>1, <2>1, <2>2, <2>3, <2>4 DEF PermitsConserved, BacklogIsOpen, NoIdlePermit
  <2>. QED
    BY <2>1, <2>4, <2>5 DEF GateInv
<1>3. CASE CancelGranted(j)
  <2>. DEFINE ph == Moved(phase, j, "cancelled")
  <2>1. phase[j] = "granted" /\ WakeUp(ph, free + 1, 1) /\ backlog' = backlog - 1
        /\ UNCHANGED <<limit, pendingShrink, resizes>>
    BY <1>3 DEF CancelGranted, PutBack, Moved
  <2>2. /\ ph \in [Jobs -> Phases]
        /\ Cardinality(In(ph, HoldingPhases)) = Cardinality(Holding) - 1
        /\ Cardinality(In(ph, OpenPhases)) = Cardinality(Open) - 1
    <3>1. ph \in [Jobs -> Phases]
      BY PhaseFacts, MoveOne
    <3>2. Cardinality(In(ph, HoldingPhases)) = Cardinality(Holding) - 1
      BY <2>1, PhaseFacts, MoveOne DEF Holding
    <3>3. Cardinality(In(ph, OpenPhases)) = Cardinality(Open) - 1
      BY <2>1, PhaseFacts, MoveOne DEF Open
    <3>. QED
      BY <3>1, <3>2, <3>3
  <2>. HIDE DEF ph
  <2>3. /\ phase' \in [Jobs -> Phases] /\ free' \in Nat
        /\ free' + Cardinality(Holding') =
             free + 1 + Cardinality(In(ph, HoldingPhases))
        /\ Open' = In(ph, OpenPhases)
        /\ Waiting' # {} => Granted' # {}
    BY <2>1, <2>2, WakeUpMovesPermits
  <2>4. PermitsConserved' /\ BacklogIsOpen' /\ NoIdlePermit'
    BY <1>1, <2>1, <2>2, <2>3 DEF PermitsConserved, BacklogIsOpen, NoIdlePermit
  <2>. QED
    BY <2>1, <2>3, <2>4 DEF GateInv
<1>. QED
  BY <1>2, <1>3

\* Growing releases permits to the waiters; shrinking only remembers what the
\* next releases must swallow.
LEMMA ResizeStep ==
  ASSUME Inv, NEW m \in Targets, Resize(m)
  PROVE  GateInv'
<1>. USE DEF Inv, TypeOK
<1>. DEFINE new == AtLeastOne(m)
<1>1. new \in Nat \ {0} /\ limit' = new /\ backlog' = backlog /\ resizes' \in Nat
  BY RunnerAssumption DEF RunnerAssumption, AtLeastOne, Resize
<1>2. /\ Cardinality(Holding) \in Nat /\ Cardinality(Holding') \in Nat
      /\ Cardinality(Open) \in Nat
  BY InFinite DEF Holding, Open
<1>3. \/ /\ new >= limit /\ pendingShrink' = pendingShrink
         /\ WakeUp(phase, free + (new - limit), new - limit)
      \/ /\ new < limit /\ pendingShrink' = pendingShrink + (limit - new)
         /\ UNCHANGED <<phase, free>>
  BY DEF Resize, PutBack
<1>. HIDE DEF new
<1>4. CASE /\ new >= limit /\ pendingShrink' = pendingShrink
           /\ WakeUp(phase, free + (new - limit), new - limit)
  <2>. DEFINE d == new - limit
              total == free + d
  <2>1. d \in Nat /\ total \in Nat /\ d <= total /\ WakeUp(phase, total, d)
    BY <1>1, <1>4
  <2>. HIDE DEF d, total
  <2>2. /\ phase' \in [Jobs -> Phases] /\ free' \in Nat
        /\ free' + Cardinality(Holding') = total + Cardinality(In(phase, HoldingPhases))
        /\ Open' = In(phase, OpenPhases)
        /\ d > 0 /\ Waiting' # {} => Granted' # {}
        /\ d = 0 => phase' = phase /\ free' = total
    BY <2>1, WakeUpMovesPermits
  <2>3. PermitsConserved' /\ BacklogIsOpen'
    BY <1>1, <1>2, <1>4, <2>2 DEF PermitsConserved, BacklogIsOpen, Holding, Open, d, total
  <2>4. NoIdlePermit'
    <3>1. CASE d > 0
      BY <2>2, <3>1 DEF NoIdlePermit
    <3>2. CASE d = 0
      <4>1. free' = free /\ phase' = phase
        BY <2>2, <3>2 DEF total
      <4>. QED
        BY <4>1 DEF NoIdlePermit, Waiting, Granted
    <3>. QED
      BY <2>1, <3>1, <3>2
  <2>. QED
    BY <1>1, <1>4, <2>2, <2>3, <2>4 DEF GateInv
<1>5. CASE /\ new < limit /\ pendingShrink' = pendingShrink + (limit - new)
           /\ UNCHANGED <<phase, free>>
  <2>1. Holding' = Holding /\ Open' = Open /\ Waiting' = Waiting /\ Granted' = Granted
    BY <1>5 DEF Holding, Open, Waiting, Granted
  <2>2. limit' \in Nat \ {0} /\ pendingShrink' \in Nat /\ free' \in Nat
        /\ phase' \in [Jobs -> Phases]
    BY <1>1, <1>5
  <2>3. PermitsConserved'
    BY <1>1, <1>2, <1>5, <2>1 DEF PermitsConserved
  <2>. QED
    BY <1>1, <1>5, <2>1, <2>2, <2>3 DEF GateInv, BacklogIsOpen, NoIdlePermit
<1>. QED
  BY <1>3, <1>4, <1>5

\* Every way a call leaves the gate.
LEMMA FinishStep ==
  ASSUME Inv, NEW j \in Jobs, NEW end \in {"returned", "aborted"},
         phase[j] = "calling", Finish(j, end)
  PROVE  GateInv'
<1>1. /\ Release([phase EXCEPT ![j] = end])
      /\ backlog' = backlog - 1 /\ resizes' = resizes
  BY DEF Finish
<1>2. /\ limit' = limit /\ pendingShrink' \in Nat
      /\ phase' \in [Jobs -> Phases] /\ free' \in Nat
      /\ PermitsConserved' /\ NoIdlePermit'
      /\ Cardinality(Open') = Cardinality(Open) - 1
  BY <1>1, ReleaseStep
<1>3. BacklogIsOpen' /\ backlog' \in Int /\ resizes' \in Nat
  BY <1>1, <1>2 DEF Inv, TypeOK, BacklogIsOpen
<1>. QED
  BY <1>2, <1>3 DEF GateInv, Inv, TypeOK

LEMMA GateStep == Inv /\ [Next]_vars => GateInv'
<1>. SUFFICES ASSUME Inv, [Next]_vars PROVE GateInv'
  OBVIOUS
<1>1. CASE UNCHANGED vars \/ Shutdown
  BY <1>1, GateUntouched, Zenon DEF vars, gate, Shutdown
<1>2. ASSUME NEW m \in Targets, Resize(m)  PROVE GateInv'
  BY <1>2, ResizeStep
<1>3. ASSUME NEW j \in Jobs,
             RunDisabled(j) \/ RunAtOnce(j) \/ RunWait(j) \/ CancelWaiting(j)
      PROVE  GateInv'
  BY <1>3, OneCallStep
<1>4. ASSUME NEW j \in Jobs, Resume(j) \/ CancelGranted(j)  PROVE GateInv'
  BY <1>4, WakingStep
<1>5. ASSUME NEW j \in Jobs, NEW outcome \in Outcomes,
             ThreadStart(j) \/ ThreadEnd(j, outcome)
      PROVE  GateInv'
  BY <1>5, GateUntouched, Zenon DEF gate, ThreadStart, ThreadEnd
<1>6. ASSUME NEW j \in Jobs, NEW near \in BOOLEAN,
             Succeed(j, near) \/ Fail(j) \/ OuterTimeout(j) \/ CancelCalling(j)
      PROVE  GateInv'
  <2>1. phase[j] = "calling" /\ (Finish(j, "returned") \/ Finish(j, "aborted"))
    BY <1>6, Zenon DEF Succeed, Fail, OuterTimeout, CancelCalling
  <2>2. CASE Finish(j, "returned")
    BY <2>1, <2>2, FinishStep
  <2>3. CASE Finish(j, "aborted")
    BY <2>1, <2>3, FinishStep
  <2>. QED
    BY <2>1, <2>2, <2>3
<1>. QED
  BY <1>1, <1>2, <1>3, <1>4, <1>5, <1>6 DEF Next, Loop, Outcomes

-----------------------------------------------------------------------------
(* The theorems *)

LEMMA NextInv == Inv /\ [Next]_vars => Inv'
<1>. SUFFICES ASSUME Inv, [Next]_vars PROVE Inv'
  OBVIOUS
<1>1. TypeOK'
  BY FlagsStep, RecordsStep, GateStep DEF TypeOK, GateInv
<1>2. PermitsConserved' /\ BacklogIsOpen' /\ NoIdlePermit'
  BY GateStep DEF GateInv
<1>. QED
  BY <1>1, <1>2 DEF Inv

\* The invariant holds in every reachable state.
THEOREM Invariance == Spec => []Inv
  BY InitInv, NextInv, PTL DEF Spec

\* The state of the runner is well typed: in particular the limit never falls
\* to zero and the semaphore's value is never negative.
THEOREM TypeCorrect == Spec => []TypeOK
<1>1. Inv => TypeOK
  BY DEF Inv
<1>. QED
  BY <1>1, Invariance, PTL

\* jobs.py's gate neither loses nor makes up a permit, whatever the order of
\* resizes, timeouts, failures and cancellations.
THEOREM PermitsAreConserved == Spec => []PermitsConserved
<1>1. Inv => PermitsConserved
  BY DEF Inv
<1>. QED
  BY <1>1, Invariance, PTL

\* The backlog that the engine's backpressure reads is the number of calls
\* inside run().
THEOREM BacklogIsExact == Spec => []BacklogIsOpen
<1>1. Inv => BacklogIsOpen
  BY DEF Inv
<1>. QED
  BY <1>1, Invariance, PTL

\* No permit lies idle while a call queues and nobody is about to pass it on.
THEOREM GateIsWorkConserving == Spec => []NoIdlePermit
<1>1. Inv => NoIdlePermit
  BY DEF Inv
<1>. QED
  BY <1>1, Invariance, PTL

-----------------------------------------------------------------------------
(* The refinement: CognitionRunner implements the safety part of           *)
(* AnsweredCalls.  Its initial states map to initial states, and each of   *)
(* its steps begins, skips, answers or cancels one call, or leaves all of  *)
(* them as they were.                                                      *)


\* What a call's status says of its phase.
LEMMA StatusByPhase ==
  ASSUME NEW j \in Jobs
  PROVE  /\ phase[j] = "new" => StatusOf(j) = "new"
         /\ phase[j] \in OpenPhases => StatusOf(j) = "open"
         /\ phase[j] = "returned" => StatusOf(j) = answer[j]
         /\ phase[j] \in {"cancelled", "aborted"} => StatusOf(j) = "cancelled"
  BY DEF StatusOf, Open, In, OpenPhases

\* The same of the next state.
LEMMA StatusByNextPhase ==
  ASSUME NEW j \in Jobs
  PROVE  /\ phase'[j] = "new" => StatusOf(j)' = "new"
         /\ phase'[j] \in OpenPhases => StatusOf(j)' = "open"
         /\ phase'[j] = "returned" => StatusOf(j)' = answer'[j]
         /\ phase'[j] \in {"cancelled", "aborted"} => StatusOf(j)' = "cancelled"
  BY DEF StatusOf, Open, In, OpenPhases

\* A call keeps its status where it keeps its phase, or is merely woken.
Keeps(j) ==
  /\ answer'[j] = answer[j]
  /\ phase'[j] = phase[j] \/ (phase[j] = "waiting" /\ phase'[j] = "granted")

LEMMA KeepsStatus ==
  ASSUME NEW j \in Jobs, Keeps(j)
  PROVE  StatusOf(j)' = StatusOf(j)
<1>1. CASE phase'[j] = phase[j]
  BY <1>1 DEF Keeps, StatusOf, Open, In
<1>2. CASE phase[j] = "waiting" /\ phase'[j] = "granted"
  BY <1>2, StatusByPhase, StatusByNextPhase, PhaseFacts
<1>. QED
  BY <1>1, <1>2 DEF Keeps

\* A step after which all calls but one keep their status.
LEMMA OneStatusMoves ==
  ASSUME NEW j \in Jobs, \A i \in Jobs \ {j} : Keeps(i)
  PROVE  Status' = [Status EXCEPT ![j] = StatusOf(j)']
<1>1. \A i \in Jobs \ {j} : StatusOf(i)' = StatusOf(i)
  BY KeepsStatus
<1>. QED
  BY <1>1 DEF Status

LEMMA NoStatusMoves ==
  ASSUME \A i \in Jobs : Keeps(i)
  PROVE  Status' = Status
<1>1. \A i \in Jobs : StatusOf(i)' = StatusOf(i)
  BY KeepsStatus
<1>. QED
  BY <1>1 DEF Status

LEMMA StatusValue ==
  ASSUME NEW j \in Jobs
  PROVE  Status[j] = StatusOf(j)
  BY DEF Status

-----------------------------------------------------------------------------
(* Initial states and steps *)

LEMMA InitRefines == Init => Promise!Init
<1>. SUFFICES ASSUME Init
              PROVE  Promise!Init
  OBVIOUS
<1>1. \A j \in Jobs : StatusOf(j) = "new"
  BY StatusByPhase DEF Init
<1>. QED
  BY <1>1 DEF Init, Status, Promise!Init

\* Waking leaves every call in the phase it was given or moves it up the queue.
LEMMA WakingKeeps ==
  ASSUME NEW ph, NEW total, NEW n, WakeUp(ph, total, n)
  PROVE  \A i \in Jobs : \/ phase'[i] = ph[i]
                         \/ ph[i] = "waiting" /\ phase'[i] = "granted"
<1>1. PICK W \in SUBSET In(ph, {"waiting"}) :
        phase' = [i \in Jobs |-> IF i \in W THEN "granted" ELSE ph[i]]
  BY DEF WakeUp
<1>. QED
  BY <1>1 DEF In

\* Leaving the gate, a call takes its last phase; the others keep their status.
LEMMA FinishKeeps ==
  ASSUME Inv, NEW j \in Jobs, NEW end \in {"returned", "aborted"}, Finish(j, end),
         \A i \in Jobs \ {j} : answer'[i] = answer[i]
  PROVE  /\ phase'[j] = end /\ enabled' = enabled
         /\ \A i \in Jobs \ {j} : Keeps(i)
<1>. DEFINE ph == [phase EXCEPT ![j] = end]
<1>1. /\ ph[j] = end
      /\ \A i \in Jobs \ {j} : ph[i] = phase[i]
  BY DEF Inv, TypeOK
<1>2. \A i \in Jobs : \/ phase'[i] = ph[i]
                      \/ ph[i] = "waiting" /\ phase'[i] = "granted"
  <2>1. CASE pendingShrink > 0
    BY <2>1 DEF Finish, Release, ph, Inv, TypeOK
  <2>2. CASE pendingShrink = 0
    <3>1. WakeUp(ph, free + 1, 1)
      BY <2>2 DEF Finish, Release, PutBack, ph
    <3>. HIDE DEF ph
    <3>. QED
      BY <3>1, WakingKeeps
  <2>. QED
    BY <2>1, <2>2 DEF Inv, TypeOK
<1>3. enabled' = enabled
  BY DEF Finish
<1>. QED
  BY <1>1, <1>2, <1>3 DEF Keeps

\* A step that begins or skips a call.
LEMMA FirstStepRefines ==
  ASSUME Inv, NEW j \in Jobs, RunDisabled(j) \/ RunAtOnce(j) \/ RunWait(j)
  PROVE  Promise!Next
<1>. USE DEF Inv, TypeOK
<1>1. /\ phase[j] = "new" /\ enabled' = enabled
      /\ \A i \in Jobs \ {j} : Keeps(i)
  BY DEF RunDisabled, RunAtOnce, RunWait, Keeps
<1>2. Status' = [Status EXCEPT ![j] = StatusOf(j)'] /\ Status[j] = "new"
  BY <1>1, OneStatusMoves, StatusByPhase, StatusValue
<1>3. CASE RunDisabled(j)
  <2>1. phase'[j] = "returned" /\ answer'[j] = "fallback" /\ ~enabled
    BY <1>3 DEF RunDisabled
  <2>2. StatusOf(j)' = "fallback"
    BY <2>1, StatusByNextPhase
  <2>3. Promise!Skip(j)
    BY <1>1, <1>2, <2>1, <2>2 DEF Promise!Skip, Promise!Become
  <2>. QED
    BY <2>3 DEF Promise!Next
<1>4. CASE RunAtOnce(j) \/ RunWait(j)
  <2>1. phase'[j] \in OpenPhases /\ enabled
    BY <1>4 DEF RunAtOnce, RunWait, OpenPhases
  <2>2. StatusOf(j)' = "open"
    BY <2>1, StatusByNextPhase
  <2>3. Promise!Begin(j)
    BY <1>1, <1>2, <2>1, <2>2 DEF Promise!Begin, Promise!Become
  <2>. QED
    BY <2>3 DEF Promise!Next
<1>. QED
  BY <1>3, <1>4

\* A step that answers a call.
LEMMA AnswerStepRefines ==
  ASSUME Inv, NEW j \in Jobs, NEW near \in BOOLEAN,
         Succeed(j, near) \/ Fail(j) \/ OuterTimeout(j)
  PROVE  Promise!Next
<1>1. /\ phase[j] = "calling" /\ Finish(j, "returned")
      /\ answer'[j] \in {"llm", "fallback"}
      /\ \A i \in Jobs \ {j} : answer'[i] = answer[i]
  BY DEF Inv, TypeOK, Succeed, Fail, OuterTimeout
<1>2. /\ phase'[j] = "returned" /\ enabled' = enabled
      /\ \A i \in Jobs \ {j} : Keeps(i)
  BY <1>1, FinishKeeps
<1>3. Status' = [Status EXCEPT ![j] = answer'[j]] /\ Status[j] = "open"
  BY <1>1, <1>2, OneStatusMoves, StatusByPhase, StatusByNextPhase, StatusValue, PhaseFacts
<1>4. Promise!Answer(j)
  BY <1>1, <1>2, <1>3 DEF Promise!Answer, Promise!Become
<1>. QED
  BY <1>4 DEF Promise!Next

\* A step that cancels a call.
LEMMA CancelStepRefines ==
  ASSUME Inv, NEW j \in Jobs,
         CancelWaiting(j) \/ CancelGranted(j) \/ CancelCalling(j)
  PROVE  Promise!Next
<1>1. /\ phase[j] \in OpenPhases /\ phase'[j] \in {"cancelled", "aborted"}
      /\ enabled' = enabled
      /\ \A i \in Jobs \ {j} : Keeps(i)
  <2>1. CASE CancelWaiting(j)
    BY <2>1 DEF CancelWaiting, Keeps, OpenPhases, Inv, TypeOK
  <2>2. CASE CancelGranted(j)
    <3>. DEFINE ph == [phase EXCEPT ![j] = "cancelled"]
    <3>1. /\ ph[j] = "cancelled" /\ \A i \in Jobs \ {j} : ph[i] = phase[i]
      BY DEF Inv, TypeOK
    <3>2. /\ phase[j] = "granted" /\ WakeUp(ph, free + 1, 1)
          /\ enabled' = enabled /\ answer' = answer
      BY <2>2 DEF CancelGranted, PutBack
    <3>. HIDE DEF ph
    <3>. QED
      BY <3>1, <3>2, WakingKeeps, PhaseFacts DEF Keeps
  <2>3. CASE CancelCalling(j)
    <3>1. phase[j] = "calling" /\ Finish(j, "aborted") /\ answer' = answer
      BY <2>3 DEF CancelCalling
    <3>. QED
      BY <3>1, FinishKeeps, PhaseFacts
  <2>. QED
    BY <2>1, <2>2, <2>3
<1>2. Status' = [Status EXCEPT ![j] = "cancelled"] /\ Status[j] = "open"
  BY <1>1, OneStatusMoves, StatusByPhase, StatusByNextPhase, StatusValue
<1>3. Promise!Cancel(j)
  BY <1>1, <1>2 DEF Promise!Cancel, Promise!Become
<1>. QED
  BY <1>3 DEF Promise!Next

\* The other steps change no call's status.
LEMMA SilentStepRefines ==
  ASSUME Inv,
         \/ UNCHANGED vars \/ Shutdown
         \/ \E m \in Targets : Resize(m)
         \/ \E j \in Jobs : ThreadStart(j)
         \/ \E j \in Jobs, outcome \in Outcomes : ThreadEnd(j, outcome)
         \/ \E j \in Jobs : Resume(j)
  PROVE  UNCHANGED Promise!vars
<1>1. ASSUME UNCHANGED <<enabled, phase, answer>>
      PROVE  UNCHANGED Promise!vars
  BY <1>1, NoStatusMoves DEF Keeps, Promise!vars
<1>2. CASE UNCHANGED vars \/ Shutdown
  BY <1>1, <1>2, Zenon DEF vars, Shutdown
<1>3. ASSUME NEW m \in Targets, Resize(m)
      PROVE  UNCHANGED Promise!vars
  <2>1. enabled' = enabled /\ answer' = answer
    BY <1>3 DEF Resize
  <2>2. phase' = phase \/ \E total, n : WakeUp(phase, total, n)
    BY <1>3 DEF Resize, PutBack
  <2>3. \A i \in Jobs : Keeps(i)
    BY <2>1, <2>2, WakingKeeps DEF Keeps
  <2>. QED
    BY <2>1, <2>3, NoStatusMoves DEF Promise!vars
<1>4. ASSUME NEW j \in Jobs, ThreadStart(j)
      PROVE  UNCHANGED Promise!vars
  BY <1>1, <1>4 DEF ThreadStart
<1>5. ASSUME NEW j \in Jobs, NEW outcome \in Outcomes, ThreadEnd(j, outcome)
      PROVE  UNCHANGED Promise!vars
  BY <1>1, <1>5 DEF ThreadEnd
<1>6. ASSUME NEW j \in Jobs, Resume(j)
      PROVE  UNCHANGED Promise!vars
  <2>. DEFINE ph == [phase EXCEPT ![j] = "calling"]
  <2>1. /\ ph[j] = "calling" /\ \A i \in Jobs \ {j} : ph[i] = phase[i]
    BY DEF Inv, TypeOK
  <2>2. /\ phase[j] = "granted" /\ \E n : WakeUp(ph, free, n)
        /\ enabled' = enabled /\ answer' = answer
    BY <1>6 DEF Resume
  <2>. HIDE DEF ph
  <2>3. phase'[j] = "calling" /\ \A i \in Jobs \ {j} : Keeps(i)
    BY <2>1, <2>2, WakingKeeps DEF Keeps
  <2>4. Status' = [Status EXCEPT ![j] = "open"] /\ StatusOf(j) = "open"
    BY <2>2, <2>3, OneStatusMoves, StatusByPhase, StatusByNextPhase, PhaseFacts
  <2>5. Status' = Status
    BY <2>4 DEF Status
  <2>. QED
    BY <2>2, <2>5 DEF Promise!vars
<1>. QED
  BY <1>2, <1>3, <1>4, <1>5, <1>6

LEMMA NextRefines == Inv /\ [Next]_vars => [Promise!Next]_(Promise!vars)
<1>. SUFFICES ASSUME Inv, [Next]_vars
              PROVE  Promise!Next \/ UNCHANGED Promise!vars
  OBVIOUS
<1>1. CASE UNCHANGED vars \/ Shutdown \/ \E m \in Targets : Resize(m)
  BY <1>1, SilentStepRefines
<1>2. ASSUME NEW j \in Jobs,
             ThreadStart(j) \/ Resume(j) \/ \E outcome \in Outcomes : ThreadEnd(j, outcome)
      PROVE  UNCHANGED Promise!vars
  BY <1>2, SilentStepRefines
<1>3. ASSUME NEW j \in Jobs, RunDisabled(j) \/ RunAtOnce(j) \/ RunWait(j)
      PROVE  Promise!Next
  BY <1>3, FirstStepRefines
<1>4. ASSUME NEW j \in Jobs,
             Fail(j) \/ OuterTimeout(j) \/ \E near \in BOOLEAN : Succeed(j, near)
      PROVE  Promise!Next
  BY <1>4, AnswerStepRefines
<1>5. ASSUME NEW j \in Jobs, CancelWaiting(j) \/ CancelGranted(j) \/ CancelCalling(j)
      PROVE  Promise!Next
  BY <1>5, CancelStepRefines
<1>. QED
  BY <1>1, <1>2, <1>3, <1>4, <1>5 DEF Next, Loop

\* Every behaviour of the runner is one of AnsweredCalls: a call is answered
\* once, by the model or the fallback, or is cancelled, and no answer changes.
THEOREM AnswersAreFinal == Spec => ImplementsAnsweredCalls
<1>. QED
  BY InitRefines, InitInv, NextInv, NextRefines, PTL
     DEF Spec, ImplementsAnsweredCalls, Promise!Spec

-----------------------------------------------------------------------------
(* The accounts *)

\* The calls that were attempted and have not been counted by an outcome.
Unsettled == In(phase, {"calling", "aborted"})

LEMMA UnsettledFinite ==
  /\ IsFiniteSet(Unsettled) /\ Cardinality(Unsettled) \in Nat
  /\ IsFiniteSet(Unsettled \cap ReasoningJobs)
  /\ Cardinality(Unsettled \cap ReasoningJobs) \in Nat
<1>1. IsFiniteSet(Unsettled) /\ Cardinality(Unsettled) \in Nat
  BY InFinite DEF Unsettled
<1>2. Unsettled \cap ReasoningJobs \subseteq Unsettled
  OBVIOUS
<1>. QED
  BY <1>1, <1>2, FS_Subset, FS_CardinalityType

\* A call that joins or leaves the unsettled ones is counted in both accounts
\* or, when it does not reason, in the first alone.
LEMMA UnsettledJoined ==
  ASSUME NEW j \in Jobs, j \notin Unsettled, Unsettled' = Unsettled \cup {j}
  PROVE  /\ Cardinality(Unsettled') = Cardinality(Unsettled) + 1
         /\ Cardinality(Unsettled' \cap ReasoningJobs)
              = Cardinality(Unsettled \cap ReasoningJobs) + One(j \in ReasoningJobs)
<1>1. Cardinality(Unsettled') = Cardinality(Unsettled) + 1
  BY UnsettledFinite, FS_AddElement
<1>2. CASE j \in ReasoningJobs
  <2>1. /\ Unsettled' \cap ReasoningJobs = (Unsettled \cap ReasoningJobs) \cup {j}
        /\ j \notin Unsettled \cap ReasoningJobs
    BY <1>2
  <2>. QED
    BY <1>1, <1>2, <2>1, UnsettledFinite, FS_AddElement DEF One
<1>3. CASE j \notin ReasoningJobs
  <2>1. Unsettled' \cap ReasoningJobs = Unsettled \cap ReasoningJobs
    BY <1>3
  <2>. QED
    BY <1>1, <1>3, <2>1, UnsettledFinite DEF One
<1>. QED
  BY <1>2, <1>3

LEMMA UnsettledLeft ==
  ASSUME NEW j \in Jobs, j \in Unsettled, Unsettled' = Unsettled \ {j}
  PROVE  /\ Cardinality(Unsettled') = Cardinality(Unsettled) - 1
         /\ Cardinality(Unsettled' \cap ReasoningJobs)
              = Cardinality(Unsettled \cap ReasoningJobs) - One(j \in ReasoningJobs)
<1>1. Cardinality(Unsettled') = Cardinality(Unsettled) - 1
  BY UnsettledFinite, FS_RemoveElement
<1>2. CASE j \in ReasoningJobs
  <2>1. /\ Unsettled' \cap ReasoningJobs = (Unsettled \cap ReasoningJobs) \ {j}
        /\ j \in Unsettled \cap ReasoningJobs
    BY <1>2
  <2>2. Cardinality((Unsettled \cap ReasoningJobs) \ {j})
          = Cardinality(Unsettled \cap ReasoningJobs) - 1
    BY <2>1, UnsettledFinite, FS_RemoveElement
  <2>3. One(j \in ReasoningJobs) = 1
    BY <1>2 DEF One
  <2>. QED
    BY <1>1, <2>1, <2>2, <2>3
<1>3. CASE j \notin ReasoningJobs
  <2>1. Unsettled' \cap ReasoningJobs = Unsettled \cap ReasoningJobs
    BY <1>3
  <2>2. One(j \in ReasoningJobs) = 0
    BY <1>3 DEF One
  <2>. QED
    BY <1>1, <2>1, <2>2, UnsettledFinite
<1>. QED
  BY <1>2, <1>3

\* What Count adds, counter by counter.
LEMMA CountAdds ==
  ASSUME Inv, NEW j, NEW S, Count(j, S)
  PROVE  /\ \A k \in Counters : calls'[k] = calls[k] + One(k \in S)
         /\ \A k \in ReasoningCounters :
              reasoningCalls'[k] = reasoningCalls[k] + One(j \in ReasoningJobs /\ k \in S)
<1>1. calls \in [Counters -> Nat] /\ reasoningCalls \in [ReasoningCounters -> Nat]
  BY DEF Inv, TypeOK
<1>2. \A k \in Counters : calls'[k] = calls[k] + One(k \in S)
  BY <1>1 DEF Count, One
<1>3. CASE j \in ReasoningJobs
  BY <1>1, <1>2, <1>3 DEF Count, One
<1>4. CASE j \notin ReasoningJobs
  BY <1>1, <1>2, <1>4 DEF Count, One
<1>. QED
  BY <1>3, <1>4

\* The counters as numbers.
LEMMA CounterTypes ==
  ASSUME Inv
  PROVE  /\ \A k \in Counters : calls[k] \in Nat
         /\ \A k \in ReasoningCounters : reasoningCalls[k] \in Nat
         /\ Counters \subseteq ReasoningCounters
         /\ {"attempted", "succeeded", "timed_out", "errored"} \subseteq Counters
         /\ "near_timeout" \in ReasoningCounters
  BY DEF Inv, TypeOK, Counters, ReasoningCounters

\* The accounts of given counters and of given sets of unsettled calls.
Balanced(c, r, u, v) ==
  /\ c["attempted"] = c["succeeded"] + c["timed_out"] + c["errored"] + u
  /\ r["attempted"] = r["succeeded"] + r["timed_out"] + r["errored"] + v
  /\ r["near_timeout"] <= r["succeeded"]

LEMMA AccountsBalance ==
  CallsAccounted <=> Balanced(calls, reasoningCalls, Cardinality(Unsettled),
                              Cardinality(Unsettled \cap ReasoningJobs))
  BY DEF CallsAccounted, Balanced, Unsettled

LEMMA NextAccountsBalance ==
  CallsAccounted' <=> Balanced(calls', reasoningCalls', Cardinality(Unsettled'),
                               Cardinality(Unsettled' \cap ReasoningJobs))
  BY DEF CallsAccounted, Balanced, Unsettled

\* A call that starts is attempted and unsettled.
LEMMA StartAccounts ==
  ASSUME Inv, CallsAccounted, NEW j \in Jobs, j \notin Unsettled,
         Unsettled' = Unsettled \cup {j}, Count(j, {"attempted"})
  PROVE  CallsAccounted'
<1>. DEFINE n == One(j \in ReasoningJobs)
            u == Cardinality(Unsettled)
            v == Cardinality(Unsettled \cap ReasoningJobs)
            s == Cardinality(Unsettled')
            t == Cardinality(Unsettled' \cap ReasoningJobs)
<1>1. /\ calls'["attempted"] = calls["attempted"] + 1
      /\ \A k \in {"succeeded", "timed_out", "errored"} : calls'[k] = calls[k]
      /\ reasoningCalls'["attempted"] = reasoningCalls["attempted"] + n
      /\ \A k \in {"succeeded", "timed_out", "errored", "near_timeout"} :
           reasoningCalls'[k] = reasoningCalls[k]
  BY CountAdds, CounterTypes DEF One
<1>2. s = u + 1 /\ t = v + n /\ u \in Nat /\ v \in Nat /\ n \in {0, 1}
  <2>1. s = u + 1 /\ t = v + n
    BY UnsettledJoined
  <2>2. n \in {0, 1}
    BY DEF One
  <2>. QED
    BY <2>1, <2>2, UnsettledFinite
<1>3. Balanced(calls, reasoningCalls, u, v)
  BY AccountsBalance
<1>. HIDE DEF n, u, v, s, t
<1>4. Balanced(calls', reasoningCalls', s, t)
  BY <1>1, <1>2, <1>3, CounterTypes DEF Balanced
<1>. QED
  BY <1>4, NextAccountsBalance DEF s, t

\* A call that ends is counted by one outcome and settled.
LEMMA EndAccounts ==
  ASSUME Inv, CallsAccounted, NEW j \in Jobs, j \in Unsettled,
         Unsettled' = Unsettled \ {j}, NEW S, Count(j, S),
         \/ S = {"timed_out"} \/ S = {"errored"}
         \/ S = {"succeeded"} \/ S = {"succeeded", "near_timeout"}
  PROVE  CallsAccounted'
<1>. DEFINE n == One(j \in ReasoningJobs)
            u == Cardinality(Unsettled)
            v == Cardinality(Unsettled \cap ReasoningJobs)
            s == Cardinality(Unsettled')
            t == Cardinality(Unsettled' \cap ReasoningJobs)
            adds(k) == IF k \in S THEN 1 ELSE 0
            addsHere(k) == IF k \in S THEN n ELSE 0
<1>1. \A k \in Counters : calls'[k] = calls[k] + adds(k)
  BY CountAdds DEF One
<1>2. \A k \in ReasoningCounters : reasoningCalls'[k] = reasoningCalls[k] + addsHere(k)
  BY CountAdds DEF One
<1>3. s = u - 1 /\ t = v - n /\ u \in Nat /\ v \in Nat /\ n \in {0, 1}
  <2>1. s = u - 1 /\ t = v - n
    BY UnsettledLeft
  <2>2. n \in {0, 1}
    BY DEF One
  <2>. QED
    BY <2>1, <2>2, UnsettledFinite
<1>4. Balanced(calls, reasoningCalls, u, v)
  BY AccountsBalance
<1>5. "attempted" \notin S /\ ("near_timeout" \in S => "succeeded" \in S)
  OBVIOUS
<1>6. \/ "succeeded" \in S /\ "timed_out" \notin S /\ "errored" \notin S
      \/ "succeeded" \notin S /\ "timed_out" \in S /\ "errored" \notin S
      \/ "succeeded" \notin S /\ "timed_out" \notin S /\ "errored" \in S
  OBVIOUS
<1>. HIDE DEF n, u, v, s, t
<1>7. Balanced(calls', reasoningCalls', s, t)
  <2>1. /\ calls'["attempted"] = calls["attempted"]
        /\ reasoningCalls'["attempted"] = reasoningCalls["attempted"]
    BY <1>1, <1>2, <1>5, CounterTypes
  <2>2. calls'["succeeded"] + calls'["timed_out"] + calls'["errored"]
          = calls["succeeded"] + calls["timed_out"] + calls["errored"] + 1
    BY <1>1, <1>6, CounterTypes
  <2>3. reasoningCalls'["succeeded"] + reasoningCalls'["timed_out"]
          + reasoningCalls'["errored"]
          = reasoningCalls["succeeded"] + reasoningCalls["timed_out"]
              + reasoningCalls["errored"] + n
    BY <1>2, <1>3, <1>6, CounterTypes
  <2>4. reasoningCalls'["near_timeout"] <= reasoningCalls'["succeeded"]
    BY <1>2, <1>3, <1>4, <1>5, CounterTypes DEF Balanced
  <2>5. /\ \A k \in Counters : calls'[k] \in Nat
        /\ \A k \in ReasoningCounters : reasoningCalls'[k] \in Nat
    BY <1>1, <1>2, <1>3, CounterTypes
  <2>. HIDE DEF adds, addsHere
  <2>. QED
    BY <1>3, <1>4, <2>1, <2>2, <2>3, <2>4, <2>5, CounterTypes DEF Balanced
<1>. QED
  BY <1>7, NextAccountsBalance DEF s, t

\* The steps that settle nothing and start nothing.
LEMMA SameAccounts ==
  ASSUME CallsAccounted, Unsettled' = Unsettled, UNCHANGED <<calls, reasoningCalls>>
  PROVE  CallsAccounted'
  BY DEF CallsAccounted, Unsettled

\* One call goes to an end; the others keep their place or are woken.
LEMMA EndSettles ==
  ASSUME Inv, NEW j \in Jobs, NEW end \in {"returned", "aborted"},
         phase[j] = "calling", Release([phase EXCEPT ![j] = end])
  PROVE  /\ j \in Unsettled
         /\ Unsettled' = IF end = "aborted" THEN Unsettled ELSE Unsettled \ {j}
<1>. DEFINE ph == [phase EXCEPT ![j] = end]
<1>1. ph[j] = end /\ \A i \in Jobs \ {j} : ph[i] = phase[i]
  BY DEF Inv, TypeOK
<1>2. \A i \in Jobs : \/ phase'[i] = ph[i]
                      \/ ph[i] = "waiting" /\ phase'[i] = "granted"
  <2>1. CASE pendingShrink > 0
    BY <2>1 DEF Release, Inv, TypeOK
  <2>2. CASE pendingShrink = 0
    <3>1. WakeUp(ph, free + 1, 1)
      BY <2>2 DEF Release, PutBack
    <3>. HIDE DEF ph
    <3>. QED
      BY <3>1, WakingKeeps
  <2>. QED
    BY <2>1, <2>2 DEF Inv, TypeOK
<1>. HIDE DEF ph
<1>3. phase'[j] = end /\ \A i \in Jobs \ {j} : i \in Unsettled' <=> i \in Unsettled
  BY <1>1, <1>2 DEF Unsettled, In
<1>4. Unsettled \subseteq Jobs /\ Unsettled' \subseteq Jobs
  BY DEF Unsettled, In
<1>5. j \in Unsettled /\ (j \in Unsettled' <=> end = "aborted")
  BY <1>3 DEF Unsettled, In
<1>. QED
  BY <1>3, <1>4, <1>5

LEMMA NextAccounts == Inv /\ CallsAccounted /\ [Next]_vars => CallsAccounted'
<1>. SUFFICES ASSUME Inv, CallsAccounted, [Next]_vars PROVE CallsAccounted'
  OBVIOUS
<1>p. phase \in [Jobs -> Phases]
  BY DEF Inv, TypeOK
<1>1. CASE UNCHANGED vars \/ Shutdown
  <2>1. UNCHANGED <<phase, calls, reasoningCalls>>
    BY <1>1 DEF vars, Shutdown, counters
  <2>. QED
    BY <2>1, SameAccounts DEF Unsettled
<1>2. ASSUME NEW m \in Targets, Resize(m)
      PROVE  CallsAccounted'
  <2>1. UNCHANGED <<calls, reasoningCalls>>
    BY <1>2 DEF Resize, counters
  <2>2. phase' = phase \/ \E total, n : WakeUp(phase, total, n)
    BY <1>2 DEF Resize, PutBack
  <2>3. Unsettled' = Unsettled
    BY <2>2, WakingKeeps DEF Unsettled, In
  <2>. QED
    BY <2>1, <2>3, SameAccounts
<1>3. ASSUME NEW j \in Jobs,
             \/ RunDisabled(j) \/ RunWait(j) \/ CancelWaiting(j) \/ ThreadStart(j)
             \/ \E outcome \in Outcomes : ThreadEnd(j, outcome)
      PROVE  CallsAccounted'
  <2>1. UNCHANGED <<calls, reasoningCalls>>
    BY <1>3 DEF RunDisabled, RunWait, CancelWaiting, ThreadStart, ThreadEnd, counters
  <2>2. Unsettled' = Unsettled
    BY <1>p, <1>3
    DEF RunDisabled, RunWait, CancelWaiting, ThreadStart, ThreadEnd, Unsettled, In
  <2>. QED
    BY <2>1, <2>2, SameAccounts
<1>4. ASSUME NEW j \in Jobs, RunAtOnce(j) \/ Resume(j)
      PROVE  CallsAccounted'
  <2>. DEFINE ph == [phase EXCEPT ![j] = "calling"]
  <2>1. /\ ph[j] = "calling" /\ (\A i \in Jobs \ {j} : ph[i] = phase[i])
        /\ phase[j] \in {"new", "granted"} /\ Count(j, {"attempted"})
    BY <1>p, <1>4 DEF RunAtOnce, Resume, StartCall
  <2>2. phase' = ph \/ \E total, n : WakeUp(ph, total, n)
    BY <1>4 DEF RunAtOnce, Resume
  <2>. HIDE DEF ph
  <2>3. j \notin Unsettled /\ Unsettled' = Unsettled \cup {j}
    BY <2>1, <2>2, WakingKeeps DEF Unsettled, In
  <2>. QED
    BY <2>1, <2>3, StartAccounts
<1>5. ASSUME NEW j \in Jobs, NEW near \in BOOLEAN,
             Succeed(j, near) \/ Fail(j) \/ OuterTimeout(j)
      PROVE  CallsAccounted'
  <2>1. phase[j] = "calling" /\ Release([phase EXCEPT ![j] = "returned"])
    BY <1>5 DEF Succeed, Fail, OuterTimeout, Finish
  <2>2. j \in Unsettled /\ Unsettled' = Unsettled \ {j}
    BY <2>1, EndSettles
  <2>3. PICK S : /\ Count(j, S)
                 /\ \/ S = {"timed_out"} \/ S = {"errored"}
                    \/ S = {"succeeded"} \/ S = {"succeeded", "near_timeout"}
    <3>1. CASE Succeed(j, near)
      <4>1. Count(j, {"succeeded"} \cup IF near THEN {"near_timeout"} ELSE {})
        BY <3>1 DEF Succeed
      <4>2. \/ {"succeeded"} \cup (IF near THEN {"near_timeout"} ELSE {}) = {"succeeded"}
            \/ {"succeeded"} \cup (IF near THEN {"near_timeout"} ELSE {})
                 = {"succeeded", "near_timeout"}
        OBVIOUS
      <4>. QED
        BY <4>1, <4>2, Zenon
    <3>2. CASE Fail(j)
      <4>1. Count(j, {IF worker[j] = "timeout" THEN "timed_out" ELSE "errored"})
        BY <3>2 DEF Fail
      <4>. QED
        BY <4>1, Zenon
    <3>3. CASE OuterTimeout(j)
      BY <3>3, Zenon DEF OuterTimeout
    <3>. QED
      BY <1>5, <3>1, <3>2, <3>3
  <2>. QED
    BY <2>2, <2>3, EndAccounts
<1>6. ASSUME NEW j \in Jobs, CancelCalling(j)
      PROVE  CallsAccounted'
  <2>1. /\ phase[j] = "calling" /\ Release([phase EXCEPT ![j] = "aborted"])
        /\ UNCHANGED <<calls, reasoningCalls>>
    BY <1>6 DEF CancelCalling, Finish, counters
  <2>2. Unsettled' = Unsettled
    BY <2>1, EndSettles
  <2>. QED
    BY <2>1, <2>2, SameAccounts
<1>7. ASSUME NEW j \in Jobs, CancelGranted(j)
      PROVE  CallsAccounted'
  <2>. DEFINE ph == [phase EXCEPT ![j] = "cancelled"]
  <2>1. /\ ph[j] = "cancelled" /\ (\A i \in Jobs \ {j} : ph[i] = phase[i])
        /\ phase[j] = "granted" /\ UNCHANGED <<calls, reasoningCalls>>
        /\ WakeUp(ph, free + 1, 1)
    BY <1>p, <1>7 DEF CancelGranted, PutBack, counters
  <2>. HIDE DEF ph
  <2>2. Unsettled' = Unsettled
    BY <2>1, WakingKeeps DEF Unsettled, In
  <2>. QED
    BY <2>1, <2>2, SameAccounts
<1>. QED
  BY <1>1, <1>2, <1>3, <1>4, <1>5, <1>6, <1>7 DEF Next, Loop

\* Every attempted call is counted once, by the outcome it had, unless it is
\* running or was cancelled while it ran; and the same of the reasoning calls.
THEOREM AccountsAreExact == Spec => []CallsAccounted
<1>1. Init => CallsAccounted
  <2>. SUFFICES ASSUME Init PROVE CallsAccounted
    OBVIOUS
  <2>1. Unsettled = {}
    BY DEF Init, Unsettled, In
  <2>2. Cardinality(Unsettled) = 0 /\ Cardinality(Unsettled \cap ReasoningJobs) = 0
    BY <2>1, FS_EmptySet
  <2>3. /\ \A k \in Counters : calls[k] = 0
        /\ \A k \in ReasoningCounters : reasoningCalls[k] = 0
    BY DEF Init
  <2>. QED
    BY <2>2, <2>3, AccountsBalance DEF Balanced, Counters, ReasoningCounters
<1>. QED
  BY <1>1, InitInv, NextInv, NextAccounts, PTL DEF Spec
=============================================================================
