--------------------------- MODULE AnsweredCalls ---------------------------
(***************************************************************************)
(* What CognitionRunner promises the engine (the docstrings of             *)
(* src/hearthmind/llm/jobs.py and of CognitionRunner.run): a call is       *)
(* answered exactly once, by the model or by the fallback, or is cancelled *)
(* by its caller, and an answer never changes.  That every open call ends, *)
(* whatever the server does, is CognitionRunner's EveryCallEnds.           *)
(***************************************************************************)
CONSTANT Jobs
VARIABLES enabled, status

vars == <<enabled, status>>

Statuses == {"new", "open", "llm", "fallback", "cancelled"}

Init ==
  /\ enabled \in BOOLEAN
  /\ status = [j \in Jobs |-> "new"]

Become(j, from, to) ==
  /\ status[j] = from
  /\ status' = [status EXCEPT ![j] = to]
  /\ UNCHANGED enabled

Begin(j)  == enabled /\ Become(j, "new", "open")
Skip(j)   == ~enabled /\ Become(j, "new", "fallback")
Answer(j) == Become(j, "open", "llm") \/ Become(j, "open", "fallback")
Cancel(j) == Become(j, "open", "cancelled")

Next == \E j \in Jobs : Begin(j) \/ Skip(j) \/ Answer(j) \/ Cancel(j)

Spec == Init /\ [][Next]_vars
=============================================================================
