---------------------------- MODULE PlanExecution -----------------------------
(***************************************************************************)
(* What one swarm run promises about the project it edits, whatever        *)
(* happens to the process on the way: at most one plan is approved; its    *)
(* tasks are applied in order; fix work starts only once the whole plan is *)
(* applied, round after round; and the final answer is given only for a    *)
(* plan applied in full.  There is no crash, no checkpoint and no resume   *)
(* here: an implementation has to hide them.                               *)
(***************************************************************************)
EXTENDS Naturals

CONSTANTS MaxTasks, MAX_FIX_ROUNDS

VARIABLES
  approved,   \* number of tasks of the approved plan; 0: none yet
  applied,    \* the work applied so far: <<round, task>>, round 0 is the plan
  answered    \* the plan the final answer was given for; 0: none yet

vars == <<approved, applied, answered>>

Task == 1..MaxTasks
PlanDone == approved # 0 /\ {0} \X (1..approved) \subseteq applied

Init == approved = 0 /\ applied = {} /\ answered = 0

\* One plan is approved, before any work.
Approve(n) ==
  /\ approved = 0 /\ applied = {}
  /\ approved' = n
  /\ UNCHANGED <<applied, answered>>

\* The next task of the plan.
ApplyPlanTask(t) ==
  /\ t \in 1..approved
  /\ \A u \in 1..(t - 1) : <<0, u>> \in applied
  /\ applied' = applied \cup {<<0, t>>}
  /\ UNCHANGED <<approved, answered>>

\* A fix: only on top of the whole plan, tasks in order within their round.
ApplyFix(r, t) ==
  /\ PlanDone
  /\ \A u \in 1..(t - 1) : <<r, u>> \in applied
  /\ applied' = applied \cup {<<r, t>>}
  /\ UNCHANGED <<approved, answered>>

\* The final answer for the whole plan.
Answer ==
  /\ PlanDone
  /\ answered' = approved
  /\ UNCHANGED <<approved, applied>>

Next ==
  \/ \E n \in Task : Approve(n)
  \/ \E t \in Task : ApplyPlanTask(t)
  \/ \E r \in 1..MAX_FIX_ROUNDS, t \in Task : ApplyFix(r, t)
  \/ Answer

Spec == Init /\ [][Next]_vars

=============================================================================
