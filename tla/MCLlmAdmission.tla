--------------------------- MODULE MCLlmAdmission ---------------------------
(***************************************************************************)
(* Two minds and four jobs: a critical one with two picks, what a visitor  *)
(* asks for, the inventions and the era branches.  A behaviour is of one   *)
(* of three kinds: one mind, the critical job and the visitor under a      *)
(* limit that moves; two minds that share the tick's calls under a fixed   *)
(* one; inventions that bring on eras.  The others are `quiet`, never due, *)
(* and nobody holds the world of the first kind.                           *)
(***************************************************************************)
EXTENDS LlmAdmission

CONSTANTS
  ana, bo, belief, visit, invention, branch,
  MaxVisits,    \* bound: the visitor's calls that are out
  MaxInventions,\* bound: the inventions that are out
  MaxBranches   \* bound: the era branches that are out

TickJobs == <<belief, invention, ana, bo>>
TwoPicks == [j \in Jobs |-> IF j = belief THEN 2 ELSE 1]

VARIABLE quiet

Thought == {bo, invention, branch}
Company == Jobs
Progress == {ana, bo, belief, visit}

MCInit == Init /\ quiet \in {Thought, Company, Progress}

Mind == Agents \ quiet
Job == Jobs \ quiet
Slots == IF quiet = Company THEN {StartSlots} ELSE 1..MaxSlots

Out(o) == scheduled'[o] + running'[o]
Same ==
  /\ UNCHANGED quiet
  /\ Out(visit) <= MaxVisits /\ Out(invention) <= MaxInventions
  /\ Out(branch) <= MaxBranches /\ branched' <= MaxBranches

MCNext ==
  \/ SkipTick /\ Same
  \/ BeginTick /\ Same
  \/ EndTick /\ Same
  \/ WaitOver /\ Same
  \/ Shutdown /\ Same
  \/ \E o \in Owners : Pass(o) /\ Same
  \/ \E a \in Mind : Nudge(a) /\ Same
  \/ \E a \in Mind : GoalByRule(a) /\ Same
  \/ \E a \in Mind : Survey(a) /\ Same
  \/ \E a \in Mind, triggered \in BOOLEAN : AskMind(a, triggered) /\ Same
  \/ \E j \in Job : ScheduleSpent(j) /\ Same
  \/ \E j \in Job : SchedulePreflight(j) /\ Same
  \/ \E j \in Job : Schedule(j) /\ Same
  \/ Clock /\ Same
  \/ \E s \in Slots : DayEnd(s) /\ Same
  \/ \E o \in Owners : StartCall(o) /\ Same
  \/ \E a \in Mind, answer \in Answer : MindAnswered(a, answer) /\ Same
  \/ \E j \in Job, answer \in Answer : JobAnswered(j, answer) /\ Same
  \/ quiet # Thought /\ Toggle /\ Same
  \/ RequestStop /\ Same
  \/ JobRaises /\ Same

\* The fairness of FairSpec; the bounds refuse no step of it.
MCSpec ==
  /\ MCInit /\ [][MCNext]_<<vars, quiet>>
  /\ WF_vars(Loop) /\ WF_vars(Passing) /\ WF_vars(Calendar)
  /\ \A o \in Owners : WF_vars(StartCall(o)) /\ SF_vars(Finish(o))
=============================================================================
