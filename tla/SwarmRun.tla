------------------------------- MODULE SwarmRun -------------------------------
(***************************************************************************)
(* One swarm run, identified by its run id: the phase machine of           *)
(* SwarmOrchestrator::run_swarm, the checkpoint file it leaves behind at   *)
(* every phase boundary, and the two commands around it, agent_swarm_chat  *)
(* (a fresh run) and agent_resume_run (a run continued from the file).     *)
(*                                                                         *)
(* A run is a chain of "role loops", LLM conversations that may fail, may  *)
(* be stopped by the user and may die with the process, separated by       *)
(* synchronous code that moves to the next phase.  `pc` names the phase,   *)
(* `inflight` tells whether its role loop has begun.  What the role loops  *)
(* say is abstracted to what the phase machine looks at: an audit is       *)
(* complete or not, a plan is its number of tasks, a verdict ends the run  *)
(* or has some number of issues to fix.                                    *)
(***************************************************************************)
EXTENDS Naturals

CONSTANTS
  MAX_RLM_ROUNDS,                 \* research rounds of phase 0
  MAX_THINKER_RESEARCH_REQUESTS,  \* supplements the Thinker may ask for
  MAX_DIRECTION_REVISIONS,        \* "ubah" decisions at the direction gate
  MAX_PLAN_GATE_ROUNDS,           \* presentations that still offer changes
  MAX_FIX_ROUNDS,                 \* fix rounds after a failed verification
  GateSettings,   \* values agent.plan_gate_enabled may have when a run starts
  WritesMayFail,  \* TRUE if file writes may fail (their errors are ignored)
  MaxTasks,       \* bound: tasks in a plan, issues in a verdict
  MaxNotes,       \* bound: direction notes over the life of the run id
  MaxCrashes,     \* bound: crashes of the process
  MaxLedgers      \* bound: ledgers of one turn that are told apart

ASSUME CapsAssumption ==
  /\ MAX_RLM_ROUNDS \in Nat \ {0}
  /\ MAX_THINKER_RESEARCH_REQUESTS \in Nat
  /\ MAX_DIRECTION_REVISIONS \in Nat
  /\ MAX_PLAN_GATE_ROUNDS \in Nat
  /\ MAX_FIX_ROUNDS \in Nat

ASSUME BoundsAssumption ==
  /\ GateSettings \subseteq BOOLEAN
  /\ WritesMayFail \in BOOLEAN
  /\ MaxTasks \in Nat \ {0}
  /\ MaxNotes \in Nat
  /\ MaxCrashes \in Nat
  /\ MaxLedgers \in Nat \ {0}

VARIABLES
  \* the task that runs the command (all lost in a crash)
  pc, inflight, cancel, gate_enabled,
  rlm_round, research_requests, direction_revisions, gate_rounds,
  shared,       \* what the shared context holds: brief, direction notes
  plan,         \* tasks of the draft / final / approved plan; 0: no plan yet
  pending,      \* tasks of this round that are not recorded as completed
  logs,         \* tasks whose transcripts the Executor Reviewer will be given
  exec_notes,   \* [EXEC] one-liners for the ledger
  fix_round, outcome,
  \* the disk
  disk,         \* the checkpoint file of this run id
  ledgers,      \* ledger messages of this turn in the chat session file
  \* history: seen by no code, used by the properties
  launched,     \* the fresh run was started
  authority,    \* what let the run leave its last gate or phase: the user, the
                \* settings, a bare NO_FILE_CHANGES marker, nothing (yet)
  began, finished,  \* executor role loops that started / ran to their end
  recorded,     \* tasks whose completion the run has recorded
  notesTaken,   \* direction notes the gate accepted
  answered,     \* plan whose final answer is in the chat; 0: none
  crashes

controlVars == <<cancel, gate_enabled>>
counterVars == <<rlm_round, research_requests, direction_revisions, gate_rounds>>
execVars == <<pending, logs, exec_notes, fix_round>>
diskVars == <<disk, ledgers>>
workVars == <<began, finished, recorded>>
ghostVars == <<launched, authority, workVars, notesTaken, answered, crashes>>
vars == <<pc, inflight, controlVars, counterVars, shared, plan, execVars,
          outcome, diskVars, ghostVars>>

Task == 1..MaxTasks
Work == (0..MAX_FIX_ROUNDS) \X Task
Briefs == {"none", "validated", "unverified"}
Shared == [brief : Briefs, notes : 0..MaxNotes]

\* enum ResumePhase and struct RunCheckpoint.
Checkpoint == [phase : {"Direction", "Planning", "Executing"},
               shared : Shared, plan : 0..MaxTasks,
               pending : SUBSET Task, logs : SUBSET Task,
               exec_notes : SUBSET Work, fix_round : 0..MAX_FIX_ROUNDS]
NoCheckpoint == [phase |-> "none"]

\* Phases whose work is a role loop, gates where the run waits for the user,
\* and what the command does after run_swarm has returned.
RolePhase == {"research", "direction", "planning", "gate_rewrite",
              "execute", "verify", "final"}
Gate == {"direction_gate", "plan_gate"}
InRunSwarm == RolePhase \cup Gate \cup {"record"}
AfterRun == {"returned", "clear", "transcript", "failed"}

Outcomes == {"none", "no_changes", "direction_cancelled",
             "direction_exhausted", "gate_cancelled", "done"}

-----------------------------------------------------------------------------
(* The checkpoint file                                                     *)

\* write_checkpoint: replaces the file atomically; a failed write is ignored
\* and leaves the previous checkpoint in place.
WriteCheckpoint(cp) ==
  \/ disk' = cp
  \/ WritesMayFail /\ UNCHANGED disk

\* clear_checkpoint: a failed remove is ignored as well.
ClearCheckpoint ==
  \/ disk' = NoCheckpoint
  \/ WritesMayFail /\ UNCHANGED disk

EarlyCheckpoint(phase, sh) ==
  [phase |-> phase, shared |-> sh, plan |-> 0, pending |-> {}, logs |-> {},
   exec_notes |-> {}, fix_round |-> 0]

ExecutingCheckpoint(n, todo, lg, notes, round) ==
  [phase |-> "Executing", shared |-> shared, plan |-> n, pending |-> todo,
   logs |-> lg, exec_notes |-> notes, fix_round |-> round]

-----------------------------------------------------------------------------
(* Starting, resuming, stopping, crashing                                  *)

\* What the process holds when no command of this run is running.
Init ==
  /\ pc = "idle" /\ inflight = FALSE /\ cancel = FALSE /\ gate_enabled = FALSE
  /\ rlm_round = 0 /\ research_requests = 0
  /\ direction_revisions = 0 /\ gate_rounds = 0
  /\ shared = [brief |-> "none", notes |-> 0]
  /\ plan = 0 /\ pending = {} /\ logs = {} /\ exec_notes = {}
  /\ fix_round = 0 /\ outcome = "none"
  /\ disk = NoCheckpoint /\ ledgers = 0
  /\ launched = FALSE /\ authority = "none"
  /\ began = {} /\ finished = {} /\ recorded = {}
  /\ notesTaken = 0 /\ answered = 0 /\ crashes = 0

\* The command is over, or the process is gone: its memory with it.
Forget ==
  /\ pc' = "idle" /\ inflight' = FALSE /\ cancel' = FALSE
  /\ gate_enabled' = FALSE
  /\ rlm_round' = 0 /\ research_requests' = 0
  /\ direction_revisions' = 0 /\ gate_rounds' = 0
  /\ shared' = [brief |-> "none", notes |-> 0]
  /\ plan' = 0 /\ pending' = {} /\ logs' = {} /\ exec_notes' = {}
  /\ fix_round' = 0 /\ outcome' = "none"

\* What every invocation of run_swarm sets up, fresh or resumed: a new cancel
\* flag, the gate setting read from the config file, local counters at zero.
EnterRunSwarm ==
  /\ inflight' = FALSE /\ cancel' = FALSE
  /\ gate_enabled' \in GateSettings
  /\ rlm_round' = 0 /\ research_requests' = 0
  /\ direction_revisions' = 0 /\ gate_rounds' = 0
  /\ outcome' = "none"

\* agent_swarm_chat.  The frontend makes a new run id for every prompt, so a
\* run id is launched once.
Launch ==
  /\ pc = "idle" /\ ~launched
  /\ pc' = "research" /\ launched' = TRUE
  /\ EnterRunSwarm
  /\ UNCHANGED <<shared, plan, execVars, diskVars, authority, workVars,
                 notesTaken, answered, crashes>>

\* Executor transcripts and [EXEC] notes of the tasks completed so far.
NoSeed == {}
SeedLogs == disk.logs
SeedNotes == disk.exec_notes

\* agent_resume_run: continue at the boundary the checkpoint names, with the
\* context and the executor state it holds.
Resume ==
  /\ pc = "idle" /\ disk # NoCheckpoint
  /\ \/ disk.phase = "Direction" /\ pc' = "direction"
     \/ disk.phase = "Planning"  /\ pc' = "planning"
     \/ disk.phase = "Executing" /\ pc' = "execute"
  /\ EnterRunSwarm
  /\ shared' = disk.shared /\ plan' = disk.plan /\ pending' = disk.pending
  /\ logs' = SeedLogs /\ exec_notes' = SeedNotes
  /\ fix_round' = disk.fix_round
  /\ UNCHANGED <<diskVars, ghostVars>>

\* agent_cancel_run, or an event channel that was closed.
Stop ==
  /\ pc \in InRunSwarm /\ ~cancel
  /\ cancel' = TRUE
  /\ UNCHANGED <<pc, inflight, gate_enabled, counterVars, shared, plan,
                 execVars, outcome, diskVars, ghostVars>>

\* The process dies: nothing survives but the files.
Crash ==
  /\ pc # "idle" /\ crashes < MaxCrashes
  /\ crashes' = crashes + 1
  /\ Forget
  /\ UNCHANGED <<diskVars, launched, authority, workVars, notesTaken, answered>>

-----------------------------------------------------------------------------
(* Role loops                                                              *)

\* Mutant: tasks are taken from the end.
CurrentFromEnd(t) == t \in pending /\ \A u \in pending : u <= t

\* The task the executor loop is at: the lowest id not recorded yet.
Current(t) == t \in pending /\ \A u \in pending : t <= u

\* run_role_loop begins.  It looks at the cancel flag before its first turn.
\* In the execute phase there must be a task to run.
BeginRole ==
  /\ pc \in RolePhase /\ ~inflight /\ ~cancel
  /\ inflight' = TRUE
  /\ \/ /\ pc = "execute"
        /\ \E t \in Task : Current(t) /\ began' = began \cup {<<fix_round, t>>}
     \/ pc # "execute" /\ UNCHANGED began
  /\ UNCHANGED <<pc, controlVars, counterVars, shared, plan, execVars, outcome,
                 diskVars, launched, authority, finished, recorded, notesTaken,
                 answered, crashes>>

\* run_swarm returns an error: no provider for the role, an LLM failure that
\* survived its retries, or a role that produced nothing usable.
RoleFails ==
  /\ pc \in RolePhase
  /\ pc = "execute" => pending # {}
  /\ pc' = "failed" /\ inflight' = FALSE
  /\ UNCHANGED <<controlVars, counterVars, shared, plan, execVars, outcome,
                 diskVars, ghostVars>>

\* Mutant: the flag is only looked at before the role loop.
RoleStopsLate == cancel /\ ~inflight /\ RoleFails

\* The role loop sees the cancel flag: at its start, between turns, chunks and
\* tool calls, or in a select! on it.
RoleStops == cancel /\ RoleFails

\* A role loop that ends with a result.
EndRole(phase) == pc = phase /\ inflight /\ inflight' = FALSE

-----------------------------------------------------------------------------
(* Phase 0: research                                                       *)

\* Mutant: the checkpoint is built from the context before the last message.
SaveDirectionStale == WriteCheckpoint(EarlyCheckpoint("Direction", shared))

\* The Direction checkpoint, built from the context as it is now.
SaveDirection == WriteCheckpoint(EarlyCheckpoint("Direction", shared'))

\* The RLM Verifier's audit is complete, or it is the last round: the brief
\* enters the shared context, marked if the audit never passed, and the first
\* checkpoint is written.
AcceptBrief(complete) ==
  /\ EndRole("research")
  /\ complete \/ rlm_round + 1 >= MAX_RLM_ROUNDS
  /\ shared' = [shared EXCEPT
                  !.brief = IF complete THEN "validated" ELSE "unverified"]
  /\ SaveDirection
  /\ pc' = "direction"
  /\ UNCHANGED <<controlVars, counterVars, plan, execVars, outcome, ledgers,
                 ghostVars>>

\* Mutant: the round is not counted.
UncountedResearchRound ==
  /\ EndRole("research")
  /\ rlm_round + 1 < MAX_RLM_ROUNDS
  /\ UNCHANGED <<pc, controlVars, counterVars, shared, plan, execVars, outcome,
                 diskVars, ghostVars>>

\* Gaps were found and a round is left: the RLM Model is asked to fill them.
NextResearchRound ==
  /\ EndRole("research")
  /\ rlm_round + 1 < MAX_RLM_ROUNDS
  /\ rlm_round' = rlm_round + 1
  /\ UNCHANGED <<pc, controlVars, research_requests, direction_revisions,
                 gate_rounds, shared, plan, execVars, outcome, diskVars,
                 ghostVars>>

-----------------------------------------------------------------------------
(* Phase 0.5: direction                                                    *)

\* The Thinker asks the RLM for a supplement instead of concluding.  When the
\* budget is spent it is made to conclude, which is Conclude below.
AskSupplement ==
  /\ EndRole("direction")
  /\ research_requests < MAX_THINKER_RESEARCH_REQUESTS
  /\ research_requests' = research_requests + 1
  /\ UNCHANGED <<pc, controlVars, rlm_round, direction_revisions, gate_rounds,
                 shared, plan, execVars, outcome, diskVars, ghostVars>>

\* The direction phase is over: the full plan comes next.
EnterPlanning(by) ==
  /\ pc' = "planning"
  /\ authority' = by
  /\ WriteCheckpoint(EarlyCheckpoint("Planning", shared'))

\* A note of the user's enters the shared context.
TakeNote ==
  /\ shared.notes < MaxNotes
  /\ shared' = [shared EXCEPT !.notes = @ + 1]
  /\ notesTaken' = shared.notes + 1

\* A conclusion that asks for file changes: the gate, if it is on, reviews it.
Conclude ==
  /\ EndRole("direction")
  /\ research_requests' = 0
  /\ UNCHANGED <<controlVars, rlm_round, direction_revisions, gate_rounds,
                 shared, plan, execVars, outcome, ledgers, launched, workVars,
                 notesTaken, answered, crashes>>
  /\ \/ gate_enabled /\ pc' = "direction_gate" /\ UNCHANGED <<disk, authority>>
     \/ ~gate_enabled /\ EnterPlanning("settings")

\* NO_FILE_CHANGES followed by an answer: the run is over.
ConcludeNoChanges ==
  /\ EndRole("direction")
  /\ pc' = "returned" /\ outcome' = "no_changes"
  /\ UNCHANGED <<controlVars, counterVars, shared, plan, execVars, diskVars,
                 ghostVars>>

\* NO_FILE_CHANGES and nothing after it: no answer to return, and the gate
\* only reviews conclusions without the marker, so planning goes ahead.
ConcludeBareMarker ==
  /\ EndRole("direction")
  /\ research_requests' = 0
  /\ UNCHANGED <<controlVars, rlm_round, direction_revisions, gate_rounds,
                 shared, plan, execVars, outcome, ledgers, launched, workVars,
                 notesTaken, answered, crashes>>
  /\ EnterPlanning("marker")

\* "lanjut", with or without a note
DirectionApproved ==
  /\ pc = "direction_gate"
  /\ TakeNote \/ UNCHANGED <<shared, notesTaken>>
  /\ EnterPlanning("user")
  /\ UNCHANGED <<inflight, controlVars, counterVars, plan, execVars, outcome,
                 ledgers, launched, workVars, answered, crashes>>

\* "ubah" within the budget: the note goes into the shared context, the
\* Direction checkpoint is refreshed with it, the Thinker concludes again.
DirectionRevised ==
  /\ pc = "direction_gate"
  /\ direction_revisions + 1 < MAX_DIRECTION_REVISIONS
  /\ direction_revisions' = direction_revisions + 1
  /\ TakeNote
  /\ SaveDirection
  /\ pc' = "direction"
  /\ UNCHANGED <<inflight, controlVars, rlm_round, research_requests,
                 gate_rounds, plan, execVars, outcome, ledgers, launched,
                 authority, workVars, answered, crashes>>

\* "ubah" beyond the budget: fail closed.
DirectionExhausted ==
  /\ pc = "direction_gate"
  /\ direction_revisions + 1 >= MAX_DIRECTION_REVISIONS
  /\ direction_revisions' = direction_revisions + 1
  /\ pc' = "returned" /\ outcome' = "direction_exhausted"
  /\ UNCHANGED <<inflight, controlVars, rlm_round, research_requests,
                 gate_rounds, shared, plan, execVars, diskVars, ghostVars>>

\* "cancelled", a dropped sender, or the cancel flag: the run ends in order.
DirectionCancelled ==
  /\ pc = "direction_gate"
  /\ pc' = "returned" /\ outcome' = "direction_cancelled"
  /\ UNCHANGED <<inflight, controlVars, counterVars, shared, plan, execVars,
                 diskVars, ghostVars>>

\* Any other decision string is an error: it never counts as an approval.
DirectionUnknown ==
  /\ pc = "direction_gate"
  /\ pc' = "failed"
  /\ UNCHANGED <<inflight, controlVars, counterVars, shared, plan, execVars,
                 outcome, diskVars, ghostVars>>

-----------------------------------------------------------------------------
(* Phases 1 and 2: plan and plan gate                                      *)

\* The approved plan's tasks, normalised to the ids 1..n.
StartTasks(n, by) ==
  /\ pc' = "execute"
  /\ authority' = by
  /\ plan' = n /\ pending' = 1..n /\ logs' = {} /\ fix_round' = 0
  /\ UNCHANGED exec_notes

\* Execution starts, and the Executing checkpoint is written.
EnterExecution(n, by) ==
  /\ StartTasks(n, by)
  /\ WriteCheckpoint(ExecutingCheckpoint(n, 1..n, {}, exec_notes, 0))

\* A draft of n tasks is shown, and nobody has approved it yet.
PresentPlan(n) ==
  /\ pc' = "plan_gate"
  /\ authority' = "none"
  /\ plan' = n
  /\ UNCHANGED <<execVars, disk>>

\* The writer/reviewer loop ends with a draft of n tasks.  With the gate off
\* the draft executes at once.
DraftPlan(n) ==
  /\ EndRole("planning")
  /\ \/ gate_enabled /\ PresentPlan(n)
     \/ ~gate_enabled /\ EnterExecution(n, "settings")
  /\ gate_rounds' = 0
  /\ UNCHANGED <<controlVars, rlm_round, research_requests,
                 direction_revisions, shared, outcome, ledgers, launched,
                 workVars, notesTaken, answered, crashes>>

\* The gate counts its presentations; only "below the cap or not" matters, so
\* the count stays at the cap.
NextGateRound ==
  gate_rounds' = IF gate_rounds < MAX_PLAN_GATE_ROUNDS
                 THEN gate_rounds + 1 ELSE gate_rounds

\* "execute"
GateExecute ==
  /\ pc = "plan_gate"
  /\ NextGateRound
  /\ EnterExecution(plan, "user")
  /\ UNCHANGED <<inflight, controlVars, rlm_round, research_requests,
                 direction_revisions, shared, outcome, ledgers, launched,
                 workVars, notesTaken, answered, crashes>>

\* "revise" or "review" while changes are offered: a writer, or the reviewers'
\* improvement loop, goes over the plan.
GateChange ==
  /\ pc = "plan_gate"
  /\ gate_rounds < MAX_PLAN_GATE_ROUNDS
  /\ NextGateRound
  /\ pc' = "gate_rewrite"
  /\ UNCHANGED <<inflight, controlVars, rlm_round, research_requests,
                 direction_revisions, shared, plan, execVars, outcome,
                 diskVars, ghostVars>>

\* ... and returns to the gate with a plan of n tasks (the old plan if the
\* rewrite could not be parsed).
RewrittenPlan(n) ==
  /\ EndRole("gate_rewrite")
  /\ PresentPlan(n)
  /\ UNCHANGED <<controlVars, counterVars, shared, outcome, ledgers, launched,
                 workVars, notesTaken, answered, crashes>>

\* Mutant: past the cap, any decision but a cancel executes.
IgnoredMeansExecute ==
  /\ pc = "plan_gate"
  /\ NextGateRound
  /\ pc' = "execute" /\ pending' = 1..plan
  /\ UNCHANGED <<inflight, controlVars, rlm_round, research_requests,
                 direction_revisions, shared, plan, logs, exec_notes, fix_round,
                 outcome, diskVars, ghostVars>>

\* An unknown decision, or a change after the cap: the plan is shown again.
GateIgnored ==
  /\ pc = "plan_gate"
  /\ NextGateRound
  /\ UNCHANGED <<pc, inflight, controlVars, rlm_round, research_requests,
                 direction_revisions, shared, plan, execVars, outcome,
                 diskVars, ghostVars>>

\* "cancelled", a dropped sender, or the cancel flag.
GateCancelled ==
  /\ pc = "plan_gate"
  /\ pc' = "returned" /\ outcome' = "gate_cancelled"
  /\ UNCHANGED <<inflight, controlVars, counterVars, shared, plan, execVars,
                 diskVars, ghostVars>>

-----------------------------------------------------------------------------
(* Phases 3 and 4: execute and verify                                      *)

\* The executor's role loop ends; its edits are in the project tree.
ExecutorEnds ==
  /\ EndRole("execute")
  /\ \E t \in Task : Current(t) /\ finished' = finished \cup {<<fix_round, t>>}
  /\ pc' = "record"
  /\ UNCHANGED <<controlVars, counterVars, shared, plan, execVars, outcome,
                 diskVars, launched, authority, began, recorded, notesTaken,
                 answered, crashes>>

\* Mutants: one task too many, or one too few, is drained.
RemainingSkipsNext(t) == pending \ {t, t + 1}
RemainingKeepsLast(t) == pending \ {t - 1}

\* What is left of the round after task t.
Remaining(t) == pending \ {t}

\* The transcript and the [EXEC] note are kept, the tree is diffed, and the
\* checkpoint is refreshed with the tasks that remain.
RecordTask ==
  /\ pc = "record"
  /\ \E t \in Task :
       /\ Current(t)
       /\ pending' = Remaining(t)
       /\ logs' = logs \cup {t}
       /\ exec_notes' = exec_notes \cup {<<fix_round, t>>}
       /\ recorded' = recorded \cup {<<fix_round, t>>}
  /\ WriteCheckpoint(
       ExecutingCheckpoint(plan, pending', logs', exec_notes', fix_round))
  /\ pc' = "execute"
  /\ UNCHANGED <<inflight, controlVars, counterVars, shared, plan, fix_round,
                 outcome, ledgers, launched, authority, began, finished,
                 notesTaken, answered, crashes>>

\* No task is left in this round: the Executor Reviewer is next.
TasksDone ==
  /\ pc = "execute" /\ ~inflight /\ pending = {}
  /\ pc' = "verify"
  /\ UNCHANGED <<inflight, controlVars, counterVars, shared, plan, execVars,
                 outcome, diskVars, ghostVars>>

\* The verdict ends the loop: it is missing or cannot be parsed, it passed, it
\* failed without issues, or no fix round is left.
VerdictIsFinal ==
  /\ EndRole("verify")
  /\ pc' = "final"
  /\ UNCHANGED <<controlVars, counterVars, shared, plan, execVars, outcome,
                 diskVars, ghostVars>>

FixRoundLeft == fix_round < MAX_FIX_ROUNDS

\* A parsed failure with k issues: each becomes a task of a fix round, which
\* collects transcripts of its own.  Nothing is written to disk.
StartFixRound(k) ==
  /\ EndRole("verify")
  /\ FixRoundLeft
  /\ fix_round' = fix_round + 1
  /\ pending' = 1..k /\ logs' = {}
  /\ pc' = "execute"
  /\ UNCHANGED <<controlVars, counterVars, shared, plan, exec_notes, outcome,
                 diskVars, ghostVars>>

\* Phase 5: the Thinker writes the final answer.
FinalAnswer ==
  /\ EndRole("final")
  /\ pc' = "returned" /\ outcome' = "done"
  /\ UNCHANGED <<controlVars, counterVars, shared, plan, execVars, diskVars,
                 ghostVars>>

-----------------------------------------------------------------------------
(* The command after run_swarm                                             *)

\* Ok: the turn's ledger goes into the chat session ...
AppendLedger ==
  /\ pc = "returned"
  /\ ledgers' = IF ledgers < MaxLedgers THEN ledgers + 1 ELSE ledgers
  /\ answered' = IF outcome = "done" THEN plan ELSE answered
  /\ pc' = "clear"
  /\ UNCHANGED <<inflight, controlVars, counterVars, shared, plan, execVars,
                 outcome, disk, launched, authority, workVars, notesTaken,
                 crashes>>

\* ... or cannot be written, and the command ends with the checkpoint kept ...
AppendFails ==
  /\ pc = "returned" /\ WritesMayFail
  /\ Forget
  /\ UNCHANGED <<diskVars, ghostVars>>

\* ... then the checkpoint is dropped ...
DropCheckpoint ==
  /\ pc = "clear"
  /\ ClearCheckpoint
  /\ pc' = "transcript"
  /\ UNCHANGED <<inflight, controlVars, counterVars, shared, plan, execVars,
                 outcome, ledgers, ghostVars>>

\* Mutant: a failed run drops its checkpoint too.
EndCommandClears ==
  /\ pc \in {"transcript", "failed"}
  /\ Forget
  /\ disk' = NoCheckpoint
  /\ UNCHANGED <<ledgers, ghostVars>>

\* ... and the display transcript is stored.  After an error the partial
\* transcript and a "Run failed" message are stored, the checkpoint is kept.
EndCommand ==
  /\ pc \in {"transcript", "failed"}
  /\ Forget
  /\ UNCHANGED <<diskVars, ghostVars>>

-----------------------------------------------------------------------------
(* The specification                                                       *)

\* Role loops that deliver a result.
Deliver ==
  \/ \E complete \in BOOLEAN : AcceptBrief(complete)
  \/ NextResearchRound
  \/ AskSupplement \/ Conclude \/ ConcludeNoChanges \/ ConcludeBareMarker
  \/ \E n \in Task : DraftPlan(n)
  \/ \E n \in Task : RewrittenPlan(n)
  \/ ExecutorEnds
  \/ VerdictIsFinal
  \/ \E k \in Task : StartFixRound(k)
  \/ FinalAnswer

\* The user's decisions at the two gates.
Decide ==
  \/ DirectionApproved \/ DirectionRevised \/ DirectionExhausted
  \/ DirectionUnknown \/ DirectionCancelled
  \/ GateExecute \/ GateChange \/ GateIgnored \/ GateCancelled

\* Synchronous code, and everything that reacts to the cancel flag.
Sync ==
  \/ BeginRole
  \/ RecordTask \/ TasksDone
  \/ RoleStops
  \/ cancel /\ (DirectionCancelled \/ GateCancelled)
  \/ AppendLedger \/ DropCheckpoint \/ EndCommand

Next ==
  \/ Launch \/ Resume
  \/ Stop \/ Crash
  \/ Sync \/ Deliver \/ Decide
  \/ RoleFails \/ AppendFails

Spec == Init /\ [][Next]_vars

\* Fairness: the async runtime keeps polling the task of a running command, so
\* its synchronous code runs and a select! that is ready returns.  Nothing is
\* assumed of the user.
FairSpec == Spec /\ WF_vars(Sync)

\* A role loop ends, with a result or an error: every provider call has a
\* timeout and every loop a turn limit.  Only what needs it assumes it.
RoleLoopsEnd == WF_vars(Deliver \/ RoleFails)

-----------------------------------------------------------------------------
(* Properties                                                              *)

\* The Boolean variables have their type (a part of TypeOK).
FlagsTypeOK ==
  /\ inflight \in BOOLEAN /\ cancel \in BOOLEAN /\ gate_enabled \in BOOLEAN
  /\ launched \in BOOLEAN

\* So have the others (the other part).  The counters of the phases stay within
\* their caps: the run asks the models and the user no more often than that.
DataTypeOK ==
  /\ pc \in InRunSwarm \cup AfterRun \cup {"idle"}
  /\ rlm_round \in 0..(MAX_RLM_ROUNDS - 1)
  /\ research_requests \in 0..MAX_THINKER_RESEARCH_REQUESTS
  /\ direction_revisions \in Nat /\ gate_rounds \in 0..MAX_PLAN_GATE_ROUNDS
  /\ shared \in Shared
  /\ plan \in 0..MaxTasks
  /\ pending \in SUBSET Task /\ logs \in SUBSET Task
  /\ exec_notes \in SUBSET Work
  /\ fix_round \in 0..MAX_FIX_ROUNDS
  /\ outcome \in Outcomes
  /\ disk \in Checkpoint \cup {NoCheckpoint}
  /\ ledgers \in 0..MaxLedgers
  /\ authority \in {"none", "user", "settings", "marker"}
  /\ began \in SUBSET Work /\ finished \in SUBSET Work
  /\ recorded \in SUBSET Work
  /\ notesTaken \in 0..MaxNotes
  /\ answered \in 0..MaxTasks
  /\ crashes \in 0..MaxCrashes

\* Every variable of the run, of its files and of its history has its type.
TypeOK == FlagsTypeOK /\ DataTypeOK

\* Nothing executes, now or after a resume, unless the user pressed Execute on
\* the plan last shown or the settings had the gate off when it was drafted.
ExecutionApproved ==
  \/ pc \in {"execute", "record", "verify", "final"}
  \/ disk.phase = "Executing"
  => authority \in {"user", "settings"}

\* When the run is verified, summed up and answered, every task of the plan has
\* been applied and has its [EXEC] line in the ledger, however often the run
\* was stopped, crashed and resumed.
PlanCompleteBeforeAnswer ==
  \/ pc \in {"verify", "final"}
  \/ pc = "returned" /\ outcome = "done"
  => {0} \X (1..plan) \subseteq finished \cap exec_notes

\* The Executor Reviewer is given the transcript of every task of the round it
\* verifies, those applied before a crash or a failure included.
ReviewerSeesEveryTask ==
  pc = "verify" =>
    /\ fix_round = 0 => 1..plan \subseteq logs
    /\ \A t \in Task : <<fix_round, t>> \in exec_notes => t \in logs

\* A run that reports "no changes", "cancelled at the gate" or a rejected
\* direction never touched the project, in this invocation or an earlier one.
UntouchedWhenNothingExecuted ==
  pc = "returned" /\ outcome # "done" => began = {}

\* A direction note the gate accepted is still in the context the planner and
\* the executors see, after any number of failures and resumes.
RevisionNotesKept ==
  \/ pc \in InRunSwarm \ {"research"}
  \/ pc = "returned"
  => shared.notes = notesTaken

\* Work that has begun is never orphaned: there is a checkpoint to resume from
\* or a ledger that reports it.
WorkIsAccounted == began # {} => disk # NoCheckpoint \/ ledgers > 0

\* The new checkpoint is at least as far on as the old one: no earlier phase, no
\* [EXEC] line lost, no earlier fix round.
FurtherOn ==
  /\ disk'.phase = "Direction" => disk.phase \in {"none", "Direction"}
  /\ disk'.phase = "Planning" => disk.phase # "Executing"
  /\ disk.phase = "Executing" =>
       /\ disk.exec_notes \subseteq disk'.exec_notes
       /\ disk.fix_round <= disk'.fix_round

\* The checkpoint is only ever replaced by one that is at least as far on, and
\* disappears only when the turn has a ledger.
CheckpointAdvances ==
  [][disk' # disk =>
       IF disk' = NoCheckpoint THEN ledgers > 0 ELSE FurtherOn]_vars

\* "Completed edits are never re-applied": a task whose completion was recorded
\* is not begun again, whatever fails, crashes and resumes in between.
CompletedNeverReapplied ==
  [][pc = "execute" /\ ~inflight /\ inflight' =>
       \A t \in Task : Current(t) => <<fix_round, t>> \notin recorded]_vars

\* The run keeps the promise of PlanExecution.
PE == INSTANCE PlanExecution
        WITH approved <- IF disk.phase = "Executing" THEN disk.plan ELSE answered,
             applied <- finished
ImplementsPlanExecution == PE!Spec

\* A stop ends the run, also while a role loop is in the middle of a call.
StopEndsRun == cancel ~> pc = "idle"

\* If role loops end, a run that is not waiting for the user at a gate gets to a
\* gate or ends: no loop of research, review or fixing goes round for ever.
RunReachesGateOrEnds ==
  RoleLoopsEnd =>
    (pc \in RolePhase \cup {"record"} ~> pc \in Gate \cup {"idle"})

=============================================================================
