-------------------------- MODULE CognitionRunner --------------------------
(***************************************************************************)
(* The LLM job runner of src/hearthmind/llm/jobs.py: a concurrency gate    *)
(* whose limit may change at run time (_ResizableSemaphore) around calls   *)
(* that run in a worker thread, bounded by an outer timeout, and always    *)
(* answered: by the model or by the caller's deterministic fallback.       *)
(*                                                                         *)
(* asyncio.Semaphore (CPython 3.11), asyncio.wait_for and the thread pool  *)
(* behind asyncio.to_thread are outside src/: they are modelled from the   *)
(* way jobs.py uses them.  A step is what runs on the event loop between   *)
(* two awaits; the threads and the timers interleave with it.              *)
(***************************************************************************)
EXTENDS Integers, FiniteSets

CONSTANTS
  Jobs,           \* one call of run() each
  ReasoningJobs,  \* the calls made with reasoning=True
  InitLimits,     \* arguments of the constructor
  Targets,        \* arguments of resize_concurrency
  MaxResizes,     \* bound: resizes that change the limit
  PoolSize        \* worker threads of the event loop's default executor

ASSUME RunnerAssumption ==
  /\ IsFiniteSet(Jobs)
  /\ ReasoningJobs \subseteq Jobs
  /\ InitLimits \subseteq Nat
  /\ Targets \subseteq Nat
  /\ MaxResizes \in Nat
  /\ PoolSize \in Nat \ {0}

VARIABLES
  enabled,        \* self.client is not None
  limit,          \* _ResizableSemaphore.limit = CognitionRunner.max_concurrent
  free,           \* asyncio.Semaphore._value
  pendingShrink,  \* _ResizableSemaphore._pending_shrink
  phase,          \* where each call of run() is
  worker,         \* its thread: the blocking request and how it ended
  answer,         \* what run() returned
  backlog,        \* self.backlog
  calls,          \* self.calls_attempted, _succeeded, _timed_out, _errored
  reasoningCalls, \* self.reasoning_calls_attempted, ..., _near_timeout
  closing,        \* the engine is shutting down: run_forever's finally block
  resizes         \* resizes so far, for the bound only

gate == <<limit, free, pendingShrink>>
counters == <<calls, reasoningCalls>>
vars == <<enabled, closing, gate, phase, worker, answer, backlog, counters, resizes>>

\* "waiting" is queued on the semaphore, "granted" holds a permit that a
\* release() handed over but has not run again, "calling" awaits its thread.
\* A call cancelled before it starts ends "cancelled", during it "aborted".
Phases == {"new", "waiting", "granted", "calling",
           "returned", "cancelled", "aborted"}
Outcomes == {"ok", "timeout", "error"}
Workers == {"none", "queued", "running"} \cup Outcomes

Counters == {"attempted", "succeeded", "timed_out", "errored"}
ReasoningCounters == Counters \cup {"near_timeout"}

HoldingPhases == {"granted", "calling"}
OpenPhases == {"waiting", "granted", "calling"}

In(ph, S) == {j \in Jobs : ph[j] \in S}
Waiting == In(phase, {"waiting"})
Granted == In(phase, {"granted"})
Calling == In(phase, {"calling"})
Holding == In(phase, HoldingPhases)  \* calls that own a permit
Open    == In(phase, OpenPhases)     \* calls inside run()
Requests == {j \in Jobs : worker[j] = "running"}  \* requests at the server

Least(a, b) == IF a <= b THEN a ELSE b
AtLeastOneUnclamped(n) == n                    \* mutant: the clamp is missing
AtLeastOne(n) == IF n >= 1 THEN n ELSE 1       \* max(1, n)

Init ==
  /\ enabled \in BOOLEAN
  /\ closing = FALSE
  /\ limit \in {AtLeastOne(n) : n \in InitLimits}
  /\ free = limit
  /\ pendingShrink = 0
  /\ phase = [j \in Jobs |-> "new"]
  /\ worker = [j \in Jobs |-> "none"]
  /\ answer = [j \in Jobs |-> "none"]
  /\ backlog = 0
  /\ calls = [k \in Counters |-> 0]
  /\ reasoningCalls = [k \in ReasoningCounters |-> 0]
  /\ resizes = 0

-----------------------------------------------------------------------------
(* The semaphore *)

\* Up to n waiters are woken, each with one of the `total` permits at hand;
\* `ph` is the phase of every call once the step's own change is made.
WakeUp(ph, total, n) ==
  \E W \in SUBSET In(ph, {"waiting"}) :
    /\ Cardinality(W) = Least(n, Cardinality(In(ph, {"waiting"})))
    /\ phase' = [j \in Jobs |-> IF j \in W THEN "granted" ELSE ph[j]]
    /\ free' = total - Cardinality(W)

\* asyncio's release(), n times in a row.
PutBack(ph, n) == WakeUp(ph, free + n, n)

\* Mutant: the swallowed permit stays on the list of the pending.
ReleaseUncounted(ph) ==
  /\ limit' = limit
  /\ pendingShrink' = pendingShrink
  /\ \/ /\ pendingShrink > 0
        /\ phase' = ph
        /\ free' = free
     \/ /\ pendingShrink = 0
        /\ PutBack(ph, 1)

\* _ResizableSemaphore.release: a pending shrink swallows the permit.
Release(ph) ==
  /\ limit' = limit
  /\ \/ /\ pendingShrink > 0
        /\ pendingShrink' = pendingShrink - 1
        /\ phase' = ph
        /\ free' = free
     \/ /\ pendingShrink = 0
        /\ pendingShrink' = pendingShrink
        /\ PutBack(ph, 1)

\* Mutant: growing adds to the counter and wakes nobody.
ResizeSilently(n) ==
  LET new == AtLeastOne(n) IN
  /\ ~closing
  /\ new # limit => resizes < MaxResizes
  /\ resizes' = IF new # limit THEN resizes + 1 ELSE resizes
  /\ limit' = new
  /\ free' = IF new >= limit THEN free + (new - limit) ELSE free
  /\ pendingShrink' = pendingShrink + IF new < limit THEN limit - new ELSE 0
  /\ UNCHANGED <<enabled, closing, phase, worker, answer, backlog, counters>>

\* resize_concurrency and _ResizableSemaphore.resize.
Resize(n) ==
  LET new == AtLeastOne(n) IN
  /\ ~closing
  /\ new # limit => resizes < MaxResizes
  /\ resizes' = IF new # limit THEN resizes + 1 ELSE resizes
  /\ limit' = new
  /\ \/ /\ new >= limit
        /\ pendingShrink' = pendingShrink
        /\ PutBack(phase, new - limit)
     \/ /\ new < limit
        /\ pendingShrink' = pendingShrink + (limit - new)
        /\ UNCHANGED <<phase, free>>
  /\ UNCHANGED <<enabled, closing, worker, answer, backlog, counters>>

-----------------------------------------------------------------------------
(* One call of run() *)

\* Adds one to the counters in S, and in the reasoning counters when j is a
\* reasoning call.
Count(j, S) ==
  /\ calls' = [k \in DOMAIN calls |->
                 IF k \in S THEN calls[k] + 1 ELSE calls[k]]
  /\ reasoningCalls' =
       IF j \in ReasoningJobs
       THEN [k \in DOMAIN reasoningCalls |->
               IF k \in S THEN reasoningCalls[k] + 1 ELSE reasoningCalls[k]]
       ELSE reasoningCalls

\* The part of _run_gated that runs once the permit is held.
StartCall(j) ==
  /\ worker' = [worker EXCEPT ![j] = "queued"]
  /\ Count(j, {"attempted"})

\* No client: the fallback answers at once and nothing is counted.
RunDisabled(j) ==
  /\ ~closing
  /\ ~enabled
  /\ phase[j] = "new"
  /\ phase' = [phase EXCEPT ![j] = "returned"]
  /\ answer' = [answer EXCEPT ![j] = "fallback"]
  /\ UNCHANGED <<enabled, closing, gate, worker, backlog, counters, resizes>>

\* locked(): no permit, or somebody is still in the queue.
Locked == free = 0 \/ Waiting \cup Granted # {}

\* run() enters the gate and gets a permit without waiting.
RunAtOnce(j) ==
  /\ ~closing
  /\ enabled
  /\ phase[j] = "new"
  /\ ~Locked
  /\ backlog' = backlog + 1
  /\ free' = free - 1
  /\ phase' = [phase EXCEPT ![j] = "calling"]
  /\ StartCall(j)
  /\ UNCHANGED <<enabled, closing, limit, pendingShrink, answer, resizes>>

\* run() enters the gate and queues.
RunWait(j) ==
  /\ ~closing
  /\ enabled
  /\ phase[j] = "new"
  /\ Locked
  /\ backlog' = backlog + 1
  /\ phase' = [phase EXCEPT ![j] = "waiting"]
  /\ UNCHANGED <<enabled, closing, gate, worker, answer, counters, resizes>>

\* A woken waiter runs again: it wakes the next one if a permit is left.
Resume(j) ==
  /\ phase[j] = "granted"
  /\ WakeUp([phase EXCEPT ![j] = "calling"], free, Least(free, 1))
  /\ StartCall(j)
  /\ UNCHANGED <<enabled, closing, limit, pendingShrink, answer, backlog, resizes>>

\* The executor gives a queued request a thread.
ThreadStart(j) ==
  /\ worker[j] = "queued"
  /\ Cardinality(Requests) < PoolSize
  /\ worker' = [worker EXCEPT ![j] = "running"]
  /\ UNCHANGED <<enabled, closing, gate, phase, answer, backlog, counters, resizes>>

\* Mutant: the result of an abandoned request still reaches the caller.
ThreadEndLate(j, outcome) ==
  /\ worker[j] = "running"
  /\ worker' = [worker EXCEPT
       ![j] = IF phase[j] = "calling" THEN outcome ELSE "none"]
  /\ answer' = [answer EXCEPT
       ![j] = IF phase[j] = "returned" /\ outcome = "ok" THEN "llm" ELSE @]
  /\ UNCHANGED <<enabled, closing, gate, phase, backlog, counters, resizes>>

\* The blocking request ends.  Nobody listens once the call has ended.
ThreadEnd(j, outcome) ==
  /\ worker[j] = "running"
  /\ worker' = [worker EXCEPT
       ![j] = IF phase[j] = "calling" THEN outcome ELSE "none"]
  /\ UNCHANGED <<enabled, closing, gate, phase, answer, backlog, counters, resizes>>

\* The end of _run_gated and run: leave the gate, answer, leave the backlog.
Finish(j, end) ==
  /\ Release([phase EXCEPT ![j] = end])
  /\ backlog' = backlog - 1
  /\ UNCHANGED <<enabled, closing, resizes>>

\* wait_for returns the parsed result.
Succeed(j, near) ==
  /\ phase[j] = "calling"
  /\ worker[j] = "ok"
  /\ Count(j, {"succeeded"} \cup IF near THEN {"near_timeout"} ELSE {})
  /\ worker' = [worker EXCEPT ![j] = "none"]
  /\ answer' = [answer EXCEPT ![j] = "llm"]
  /\ Finish(j, "returned")

\* wait_for raises what the client raised: LLMTimeout, or LLMUnavailable and
\* every other exception.
Fail(j) ==
  /\ phase[j] = "calling"
  /\ worker[j] \in {"timeout", "error"}
  /\ Count(j, {IF worker[j] = "timeout" THEN "timed_out" ELSE "errored"})
  /\ worker' = [worker EXCEPT ![j] = "none"]
  /\ answer' = [answer EXCEPT ![j] = "fallback"]
  /\ Finish(j, "returned")

\* A queued request can still be taken back, a running one cannot.
Abandon(j) ==
  worker' = [worker EXCEPT ![j] = IF @ = "running" THEN "running" ELSE "none"]

\* Mutant: the timeout is not counted.
OuterTimeoutUncounted(j) ==
  /\ phase[j] = "calling"
  /\ worker[j] \in {"queued", "running"}
  /\ Count(j, {})
  /\ Abandon(j)
  /\ answer' = [answer EXCEPT ![j] = "fallback"]
  /\ Finish(j, "returned")

\* wait_for's own timeout: the thread, if it runs, is left behind.
OuterTimeout(j) ==
  /\ phase[j] = "calling"
  /\ worker[j] \in {"queued", "running"}
  /\ Count(j, {"timed_out"})
  /\ Abandon(j)
  /\ answer' = [answer EXCEPT ![j] = "fallback"]
  /\ Finish(j, "returned")

\* run_forever's finally block begins: it cancels every background task and
\* gathers them.  No tick runs any more, so nothing is started or resized.
Shutdown ==
  /\ ~closing
  /\ closing' = TRUE
  /\ UNCHANGED <<enabled, gate, phase, worker, answer, backlog, counters, resizes>>

\* The shutdown cancels a task that awaits its thread; when
\* the thread has already ended wait_for returns its result all the same.
CancelCalling(j) ==
  /\ closing
  /\ phase[j] = "calling"
  /\ worker[j] \in {"queued", "running"}
  /\ Abandon(j)
  /\ Finish(j, "aborted")
  /\ UNCHANGED <<answer, counters>>

\* Mutant: the backlog is left only on the paths that return.
CancelWaitingStays(j) ==
  /\ closing
  /\ phase[j] = "waiting"
  /\ phase' = [phase EXCEPT ![j] = "cancelled"]
  /\ UNCHANGED <<enabled, closing, gate, worker, answer, backlog, counters, resizes>>

\* The task is cancelled in the queue.
CancelWaiting(j) ==
  /\ closing
  /\ phase[j] = "waiting"
  /\ phase' = [phase EXCEPT ![j] = "cancelled"]
  /\ backlog' = backlog - 1
  /\ UNCHANGED <<enabled, closing, gate, worker, answer, counters, resizes>>

\* The task is cancelled with a permit just handed to it: asyncio's acquire()
\* gives the permit back itself, past _ResizableSemaphore.release.
CancelGranted(j) ==
  /\ closing
  /\ phase[j] = "granted"
  /\ PutBack([phase EXCEPT ![j] = "cancelled"], 1)
  /\ backlog' = backlog - 1
  /\ UNCHANGED <<enabled, closing, limit, pendingShrink, worker, answer, counters, resizes>>

-----------------------------------------------------------------------------
Loop(j) == \/ Resume(j)
           \/ \E near \in BOOLEAN : Succeed(j, near)
           \/ Fail(j)

Next ==
  \/ Shutdown
  \/ \E n \in Targets : Resize(n)
  \/ \E j \in Jobs :
       \/ RunDisabled(j) \/ RunAtOnce(j) \/ RunWait(j)
       \/ ThreadStart(j)
       \/ \E outcome \in Outcomes : ThreadEnd(j, outcome)
       \/ Loop(j) \/ OuterTimeout(j)
       \/ CancelWaiting(j) \/ CancelGranted(j) \/ CancelCalling(j)

Spec == Init /\ [][Next]_vars

\* The event loop runs what is ready and its timers fire; nothing is assumed
\* of the server, of the threads or of the tuner.
FairSpec ==
  Spec /\ \A j \in Jobs : WF_vars(Loop(j)) /\ WF_vars(OuterTimeout(j))

-----------------------------------------------------------------------------
(* Properties *)

\* The types of the runner's state.
TypeOK ==
  /\ enabled \in BOOLEAN
  /\ closing \in BOOLEAN
  /\ limit \in Nat \ {0}
  /\ free \in Nat
  /\ pendingShrink \in Nat
  /\ phase \in [Jobs -> Phases]
  /\ worker \in [Jobs -> Workers]
  /\ answer \in [Jobs -> {"none", "llm", "fallback"}]
  /\ backlog \in Int
  /\ calls \in [Counters -> Nat]
  /\ reasoningCalls \in [ReasoningCounters -> Nat]
  /\ resizes \in Nat

\* No permit is lost or made up: the free permits and the held ones are the
\* limit plus the releases a shrink has still to swallow, over every order of
\* resizes, timeouts and cancellations.
PermitsConserved ==
  free + Cardinality(Holding) = limit + pendingShrink

\* A permit never lies idle while a call queues for it, unless a woken call is
\* about to run and pass it on (asyncio.Semaphore wakes one waiter at a time).
NoIdlePermit ==
  free > 0 /\ Waiting # {} => Granted # {}

\* `backlog`, which the engine's backpressure reads, is the number of calls
\* inside run(): no exit path forgets to leave it or leaves it twice.
BacklogIsOpen == backlog = Cardinality(Open)

\* Every attempted call is counted once: as succeeded, timed out or errored,
\* unless it is still running or was cancelled while it ran; the reasoning
\* counters say the same of the reasoning calls alone.
CallsAccounted ==
  LET Running == In(phase, {"calling", "aborted"}) IN
  /\ calls.attempted = calls.succeeded + calls.timed_out + calls.errored
                         + Cardinality(Running)
  /\ reasoningCalls.attempted =
       reasoningCalls.succeeded + reasoningCalls.timed_out
         + reasoningCalls.errored + Cardinality(Running \cap ReasoningJobs)
  /\ reasoningCalls.near_timeout <= reasoningCalls.succeeded

\* Every call inside run() ends, though the server may never answer and the
\* limit may shrink while calls queue.
EveryCallEnds == \A j \in Jobs : j \in Open ~> j \notin Open

\* How its caller sees a call.
StatusOf(j) ==
  CASE j \in Open -> "open"
    [] phase[j] = "new" -> "new"
    [] phase[j] = "returned" -> answer[j]
    [] OTHER -> "cancelled"

Status == [j \in Jobs |-> StatusOf(j)]

Promise == INSTANCE AnsweredCalls WITH status <- Status

\* The runner keeps the promise of AnsweredCalls: one answer to a call, which
\* no late result and no cancellation changes.
ImplementsAnsweredCalls == Promise!Spec

\* "Bound how many requests are in flight at once (`max_concurrent`)", says
\* jobs.py: no more calls hold a permit than the largest limit ever set.
PermitsWithinLimit ==
  \E m \in InitLimits \cup Targets \cup {1} : Cardinality(Calling) <= m
=============================================================================

