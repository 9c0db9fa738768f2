------------------------------ MODULE Coordinator -------------------------------
(***************************************************************************)
(* The chat coordinator: one conversational role that delegates to the     *)
(* phases of the swarm as if they were tools.  Each turn of its loop runs  *)
(* the role; a delegation runs a whole phase (research, direction,         *)
(* planning, execution), puts the phase's output in place of the           *)
(* placeholder that answers the call, and goes on; anything else is the    *)
(* final answer.  The phases share the ledger, the notes of the executors  *)
(* and the run's checkpoint, and may be called in any order, repeatedly.   *)
(*                                                                         *)
(* A role loop is one step that ends or fails (RoleLoop has its inside);   *)
(* documents are abstracted to what the code parses out of them.  Lengths  *)
(* count in one place: the ledger has room for the first LEDGER_EXEC_CHARS *)
(* of the executors' notes followed by the verdict.                        *)
(***************************************************************************)
EXTENDS Naturals

CONSTANTS
  MAX_COORDINATOR_TURNS, MAX_RLM_ROUNDS, MAX_PLAN_GATE_ROUNDS, MAX_FIX_ROUNDS,
  LEDGER_EXEC_CHARS,
  VerdictChars, \* what a verdict line needs to be read as one
  MaxNote,      \* bound: length of a note, of any executor
  MaxTasks      \* bound: tasks of a plan, issues of a verdict

ASSUME CoordinatorAssumption ==
  /\ MAX_COORDINATOR_TURNS \in Nat /\ MAX_RLM_ROUNDS \in Nat \ {0}
  /\ MAX_PLAN_GATE_ROUNDS \in Nat /\ MAX_FIX_ROUNDS \in Nat /\ MaxTasks \in Nat \ {0}
  /\ LEDGER_EXEC_CHARS \in Nat /\ VerdictChars \in Nat /\ MaxNote \in Nat \ {0}

None == "none"

VARIABLES
  pc, turn,
  round,        \* of the phase: research, drafting or fix rounds
  cancelled,
  answer,       \* what answers the last delegation in the conversation
  cache,        \* the project's research cache
  brief, audit, \* brief_text, final_audit of the research phase
  draft, plan,  \* draft_plan, produced_plan
  todo,         \* tasks of the execution that are left
  executed,     \* history: tasks executed by this run
  exec_notes,   \* [chars, kept]: their length, and how many fit the ledger's room
  said,         \* history: the verdict of the last reviewer, None if unusable
  ledger,       \* its brief_digest and execution_review
  checkpoint

phaseVars == <<round, brief, audit, draft, todo>>
recordVars == <<cache, plan, executed, exec_notes, said, ledger, checkpoint>>
cvars == <<pc, turn, cancelled, answer, phaseVars, recordVars>>

Phases == {"research", "direction", "planning", "execution"}
NoBrief == "no_brief"  \* "(No RLM brief produced — proceed with caution.)"
Digests == {"brief", NoBrief}
Audits == {"complete", "gaps", "unparseable"}
Verdicts == {"passed", "issues", None}
CutOff == "cut off"    \* no verdict: the room ended before it
NoCache == [audit |-> None, digest |-> None]
NoReview == [verdict |-> None, notes |-> 0]
NoPlan == [from |-> None, tasks |-> 0]

Init ==
  /\ pc = "turn" /\ turn = 0 /\ cancelled = FALSE /\ answer = None
  /\ round = 0 /\ brief = None /\ audit = None /\ draft = NoPlan /\ todo = 0
  /\ cache \in {NoCache, [audit |-> "complete", digest |-> "brief"]}
  /\ plan = NoPlan /\ executed = 0 /\ exec_notes = [chars |-> 0, kept |-> 0] /\ said = None
  /\ ledger = [digest |-> None, review |-> NoReview]
  /\ checkpoint = None

Working == pc \notin {"done", "failed"}

\* A role loop returns an outcome only if there was no Stop at its last look.
Concludes(at) == pc = at /\ ~cancelled

-----------------------------------------------------------------------------
(* run_coordinator_chat                                                    *)

MayTurn == pc = "turn" /\ turn < MAX_COORDINATOR_TURNS

Delegate(phase) ==
  /\ MayTurn /\ ~cancelled
  /\ pc' = phase /\ answer' = "placeholder"
  /\ round' = 0 /\ brief' = None /\ audit' = None /\ draft' = NoPlan /\ todo' = 0
  /\ UNCHANGED <<turn, cancelled, recordVars>>

\* Mutant: a delegation does not use up a turn.
ReturnsUncounted(output) == pc' = "turn" /\ UNCHANGED turn /\ answer' = output

\* The phase's output replaces the placeholder; the loop goes on.
Returns(output) == pc' = "turn" /\ turn' = turn + 1 /\ answer' = output

Finish ==
  /\ \/ MayTurn /\ ~cancelled
     \/ pc = "turn" /\ turn = MAX_COORDINATOR_TURNS
  /\ pc' = "done"
  /\ UNCHANGED <<turn, cancelled, answer, phaseVars, recordVars>>

\* Any role loop and any handoff may fail; `?` ends the run with it.
Fails ==
  /\ Working /\ pc' = "failed"
  /\ UNCHANGED <<turn, cancelled, answer, phaseVars, recordVars>>

Stop ==
  /\ Working /\ ~cancelled /\ cancelled' = TRUE
  /\ UNCHANGED <<pc, turn, answer, phaseVars, recordVars>>

-----------------------------------------------------------------------------
(* run_rlm_phase                                                           *)

\* An audit that cannot be parsed is not complete.
Complete(a) == a = "complete"

ResearchDigest(b) == IF b = None THEN NoBrief ELSE b

\* The digest goes to the ledger, into the shared context and back to the
\* coordinator; complete research is saved; the checkpoint says Direction.
EndResearch(b, a) ==
  LET digest == ResearchDigest(b) IN
  /\ ledger' = [ledger EXCEPT !.digest = digest]
  /\ cache' = IF Complete(a) THEN [audit |-> a, digest |-> digest] ELSE cache
  /\ checkpoint' = "Direction"
  /\ Returns(digest)

ReuseResearch ==
  /\ pc = "research" /\ round = 0 /\ cache # NoCache
  /\ EndResearch(brief, cache.audit)
  /\ UNCHANGED <<cancelled, phaseVars, plan, executed, exec_notes, said>>

Research(a) ==
  /\ Concludes("research")
  /\ brief' = "brief" /\ audit' = a /\ round' = round + 1
  /\ IF Complete(a) \/ round' = MAX_RLM_ROUNDS
     THEN EndResearch("brief", a)
     ELSE UNCHANGED <<pc, turn, answer, ledger, cache, checkpoint>>
  /\ UNCHANGED <<cancelled, draft, todo, plan, executed, exec_notes, said>>

-----------------------------------------------------------------------------
(* run_thinker_direction_phase, run_planning_phase                         *)

Direct ==
  /\ Concludes("direction")
  /\ checkpoint' = "Planning" /\ Returns("direction")
  /\ UNCHANGED <<cancelled, phaseVars, cache, plan, executed, exec_notes, said, ledger>>

DirectNoChanges ==
  /\ Concludes("direction") /\ Returns("NO_FILE_CHANGES")
  /\ UNCHANGED <<cancelled, phaseVars, recordVars>>

\* After the last round there must be a draft; the improvement loop may
\* rewrite it (PlanLoop has its inside).
EndPlanning(d) ==
  IF d = NoPlan
  THEN pc' = "failed" /\ UNCHANGED <<turn, answer, plan>>
  ELSE /\ \E n \in 1..MaxTasks : plan' = [d EXCEPT !.tasks = n]
       /\ Returns("plan")

\* An unparseable plan only costs a round: any earlier draft is kept.
DraftUnparseable ==
  /\ Concludes("planning") /\ round < MAX_PLAN_GATE_ROUNDS /\ round' = round + 1
  /\ IF round' = MAX_PLAN_GATE_ROUNDS
     THEN EndPlanning(draft)
     ELSE UNCHANGED <<pc, turn, answer, plan>>
  /\ UNCHANGED <<cancelled, brief, audit, draft, todo, cache, executed, exec_notes, said,
                 ledger, checkpoint>>

DraftPlan(approved) ==
  /\ Concludes("planning") /\ round < MAX_PLAN_GATE_ROUNDS /\ round' = round + 1
  /\ draft' = [from |-> "draft", tasks |-> 1]
  /\ IF approved \/ round' = MAX_PLAN_GATE_ROUNDS
     THEN EndPlanning(draft')
     ELSE UNCHANGED <<pc, turn, answer, plan>>
  /\ UNCHANGED <<cancelled, brief, audit, todo, cache, executed, exec_notes, said,
                 ledger, checkpoint>>

-----------------------------------------------------------------------------
(* run_executor_phase                                                      *)

\* The produced plan, or a plan of one task made of the call's arguments.
PlanToRun == IF plan # NoPlan THEN plan ELSE [from |-> "call", tasks |-> 1]

Execute ==
  /\ pc = "execution" /\ pc' = "tasks" /\ todo' = PlanToRun.tasks
  /\ UNCHANGED <<turn, cancelled, answer, round, brief, audit, draft, recordVars>>

\* The note of a task, the whole last text of its executor, is put behind the
\* others; lengths past the room are not told apart.
Fits(chars) == chars <= LEDGER_EXEC_CHARS
Noted(n) ==
  LET chars == exec_notes.chars + n IN
  IF Fits(chars) THEN [chars |-> chars, kept |-> exec_notes.kept + 1]
  ELSE [exec_notes EXCEPT !.chars = LEDGER_EXEC_CHARS + 1]

\* Between two tasks, and in each, a Stop ends the run.
RunTask(n) ==
  /\ Concludes("tasks") /\ todo > 0
  /\ todo' = todo - 1 /\ executed' = executed + 1 /\ exec_notes' = Noted(n)
  /\ UNCHANGED <<pc, turn, cancelled, answer, round, brief, audit, draft, cache, plan, said,
                 ledger, checkpoint>>

\* Mutant: without a usable verdict the one before it stands.
VerdictKept(v) == IF v = None THEN ledger.review.verdict ELSE v

\* verdict_opt of this execution
VerdictOf(v) == v

\* truncate_chars: the notes come first, the verdict has what room they leave.
VerdictFits == Fits(exec_notes.chars + VerdictChars)

EndExecution(v) ==
  /\ ledger' = [ledger EXCEPT !.review =
       [verdict |-> IF VerdictFits THEN VerdictOf(v) ELSE CutOff, notes |-> exec_notes.kept]]
  /\ Returns(IF v = None THEN "UNVERIFIED" ELSE v)

\* A verdict with issues starts a fix round of one task per issue, and one
\* that only has a summary a fix round of none.
Review(v, issues) ==
  /\ Concludes("tasks") /\ todo = 0 /\ said' = v
  /\ IF v = "issues" /\ round < MAX_FIX_ROUNDS
     THEN /\ round' = round + 1 /\ todo' = issues
          /\ UNCHANGED <<pc, turn, answer, ledger>>
     ELSE /\ EndExecution(v)
          /\ UNCHANGED <<round, todo>>
  /\ UNCHANGED <<cancelled, brief, audit, draft, cache, plan, executed, exec_notes,
                 checkpoint>>

-----------------------------------------------------------------------------

Step ==
  \/ \E p \in Phases : Delegate(p)
  \/ Finish \/ Fails
  \/ ReuseResearch \/ \E a \in Audits : Research(a)
  \/ Direct \/ DirectNoChanges
  \/ DraftUnparseable \/ \E ok \in BOOLEAN : DraftPlan(ok)
  \/ Execute \/ \E n \in 1..MaxNote : RunTask(n)
  \/ \E v \in Verdicts, n \in 0..MaxTasks : Review(v, n)

Next == Step \/ Stop
Spec == Init /\ [][Next]_cvars
\* Every role loop ends (LoopEnds of RoleLoop), so the coordinator moves on.
FairSpec == Spec /\ WF_cvars(Step)

-----------------------------------------------------------------------------
(* Properties                                                              *)

\* Types, and the caps of the loops.
CoTypeOK ==
  /\ pc \in Phases \cup {"turn", "tasks", "done", "failed"} /\ cancelled \in BOOLEAN
  /\ turn \in 0..MAX_COORDINATOR_TURNS
  /\ pc \in Phases \cup {"tasks"} => turn < MAX_COORDINATOR_TURNS
  /\ round \in Nat
  /\ pc = "research" => round < MAX_RLM_ROUNDS
  /\ pc \in {"execution", "tasks"} => round <= MAX_FIX_ROUNDS
  /\ brief \in {None, "brief"} /\ audit \in Audits \cup {None}
  /\ draft \in [from : {None, "draft"}, tasks : 0..MaxTasks]
  /\ plan \in [from : {None, "draft"}, tasks : 0..MaxTasks]
  /\ cache \in [audit : Audits \cup {None}, digest : Digests \cup {None}]
  /\ ledger \in [digest : Digests \cup {None}, review : [verdict : Verdicts \cup {CutOff}, notes : Nat]]
  /\ todo \in 0..MaxTasks /\ executed \in Nat /\ said \in Verdicts
  /\ exec_notes \in [chars : Nat, kept : Nat]
  /\ checkpoint \in {None, "Direction", "Planning"}

\* The coordinator is never asked to go on with a delegation that looks
\* unanswered: whatever a phase ended with, its output has replaced the
\* placeholder (chat_orchestrator.rs:305).
DelegationsAnswered == pc \in {"turn", "done"} => answer # "placeholder"

\* With the answer, the ledger has the verdict of the last review and the notes
\* of every task this run executed, over all its executions and fix rounds:
\* neither an earlier PASSED nor an unusable verdict can vouch for edits made
\* after it (swarm.rs:3636, 3720).  Notes that fill the room cost the ledger the
\* verdict, and then notes from the end; an earlier verdict never takes its place.
LedgerTellsExecution ==
  pc = "done" /\ executed > 0 =>
    \/ VerdictFits /\ ledger.review = [verdict |-> said, notes |-> executed]
    \/ ~VerdictFits /\ ledger.review = [verdict |-> CutOff, notes |-> exec_notes.kept]

\* Research enters the persistent cache only with an audit that parsed and
\* found it complete (swarm.rs:3030, "let it poison the persistent cache").
OnlyAuditedResearchCached == cache # NoCache => cache.audit = "complete"

\* What the coordinator gets, and later chats reuse, as a validated research
\* brief is one (swarm.rs:3072, rlm_cache.rs: "the last validated RLM
\* research").
ResearchBriefIsABrief == cache.digest # NoBrief /\ ledger.digest # NoBrief

\* Whatever the roles submit, the command returns: every loop is bounded.
CoordinatorEnds == <>(pc \in {"done", "failed"})
=============================================================================
