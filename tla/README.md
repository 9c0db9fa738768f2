# A TLA+ model of KudaIDE's agent

KudaIDE is a desktop IDE (Tauri, Rust and React) whose core is an *agent swarm*:
a chain of LLM roles that researches a project, agrees a direction with the
user, drafts and reviews a plan, lets the user approve it, edits the project
task by task, verifies the result and answers.  This directory holds TLA+
modules of that core, the TLC configurations that check them and TLAPS proofs
about them.

All paths below are relative to `src/src-tauri/src/` unless they begin with
`src/`; `swarm.rs` is `agent/swarm.rs`, and "commands" is `commands/agent.rs`.

## 1. The system

### 1.1 Components

| component | state it keeps | operations | what makes it correct |
|---|---|---|---|
| Swarm run (`swarm.rs` `run_swarm`; commands `agent_swarm_chat`, `agent_resume_run`) | the run's phase and counters, `shared`, the approved plan, pending tasks, executor logs; on disk `resume_runs/<run_id>.json` and the turn's ledger in the chat session | start, resume, stop; every role's end; two gates; task loop; fix round | only approved plans execute; no task is skipped or repeated over failures and resumes; nothing is lost silently; runs end |
| Plan drafting and gate (`swarm.rs` 1488–1990, `run_reviewer_improvement_loop`) | draft, final plan, `.kuda/plan/plan.md`, round counters | draft, review, revise, improve, decide | the plan shown, the plan reviewed and the plan executed are one; loops end |
| Cancel flag (`agent/tool_registry.rs` 18–82) | an atomic and a `Notify` | `cancel`, `cancelled` | no lost wakeup |
| Registries (`agent/tool_registry.rs` 88–293, commands 1019–1121) | `active_runs`, pending oneshots, event channels | register, resolve, remove; cancel a run id | one answer per request, used by the run that asked; runs do not disturb each other |
| Role loop (`agent/orchestrator.rs`) | history, turn counter, stream buffers | turns, tools, stream restarts, retries with backoff | bounded turns and retries; cancel at every await; no tool runs on half an argument |
| RLM cache (`agent/rlm_cache.rs`) | manifest, brief, audit, index | load, classify, save | a brief is reused only while it is true |
| RLM kernel (`agent/rlm_kernel.rs`) | a Python child with the memo of its helpers, an allowlist | run a snippet, restart, time out | answers belong to their calls; the allowlist only grows by approval |
| Chat sessions (`agent/chat_history.rs`) | one JSON file per session | create, append, transcript, compaction, delete | no update is lost; every turn is in the window or in a block |
| Coordinator (`agent/chat_orchestrator.rs`, `swarm.rs` 2832–3735) | the coordinator's own conversation | the swarm's phases as tools | every delegation is answered; the ledger tells what was executed, with its verdict |
| Hub session (`agent/hub_session.rs`, `gateway/auth_loopback.rs`) | credentials, session key and its expiry, a sign-in slot | sign in, rotate, sign out | a sign-out is final; one sign-in at a time |
| Edit history (`diff_engine/`, `file_system/io.rs`) | checkpoints of files | checked write, restore | a restore gives back what was there |
| Terminal, indexer, watcher, gateway helpers | PTYs, indexes, token buckets | | mostly I/O |
| Frontend stores (`src/src/store/`) | `busy`, `currentRunId`, `resumeTarget`, pending cards | send, resume, decide, stop | one run at a time; only runs that can be resumed are offered |

`PROJECT.json` lists every component with its sources and its status.

### 1.2 Interaction

A command (`agent_swarm_chat`, or `agent_resume_run` after a failure) appends
the user's message to the chat session, registers a fresh cancel flag under the
run id, and awaits `run_swarm`.  That function is one async task: it alternates
role loops, which talk to providers and run tools, with synchronous code that
updates `shared`, writes the checkpoint and picks the next phase.  At the two
gates it registers a oneshot in a registry, sends a card to the UI and awaits
the answer in a `select!` with the cancel flag.  Commands of the UI run on other
threads and touch the run only through the registries and the flag.  When
`run_swarm` returns, the command unregisters the flag, appends the ledger,
removes the checkpoint, appends the transcript and compacts the session.

Direct chats (`agent_chat`) go through `run_loop`, the twin of the role loop, and
the same session file.  In coordinator mode (`agent_coordinator_chat`) one
conversational role calls the swarm's phases as tools.  Every role's tools share
one RLM kernel (a Python process behind an async mutex), the research cache on
disk, the project's files and the edit history, which the editor and the history
view use at the same time.  Requests to the hub carry a session key that several
callers may rotate at once.

### 1.3 What is hard

* crashes and failures between any two steps, with a checkpoint that may be old;
* file writes whose errors are ignored;
* the same plan in a struct and in a file that models, gate and user edit;
* nested loops with separate counters and early exits;
* threads: cancel against wait, answer against timeout, run against run;
* settings read anew by every invocation of one run;
* load-modify-save of files by commands that overlap, and saves of several files
  one after the other;
* answers of processes and servers that arrive after the wait for them is over;
* streams that break in the middle of a text or of a tool call.

`PROJECT.json` lists the hazards with their lines and the properties that
watch them.

## 2. Modules

| module | models | lines of the code |
|---|---|---|
| `SwarmRun` | one run id over any number of invocations: phases, gates, checkpoint, ledger, crash, stop, resume | `swarm.rs` 481–2412 without 1530–1741; commands 576–735, 880–1006 |
| `PlanExecution` | the abstract promise of a run: one approved plan, its tasks in order, fixes on top, an answer for the whole plan; no crashes | (abstract) |
| `PlanLoop` | how a plan gets from the writer to the executors, struct and file | `swarm.rs` 1488–1949, 2554–2829, 3781–3929 |
| `CancelFlag` | `cancel()` and `cancelled()` step by step, over tokio's `Notify` | `tool_registry.rs` 14–79 |
| `RunRegistry` | runs and their requests in the shared registries | `tool_registry.rs` 88–293, 1740–1850; commands 646–674, 1019–1121 |
| `RunDialogue` | the abstract promise of the registries: one question at a time, one answer to it, a Stop for the runs of one id; no registries, channels or flags | (abstract) |
| `RoleLoop` | one agentic loop: turns, retries, stream restarts, tool calls | `orchestrator.rs` 28–1360 |
| `SessionLog` | the abstract promise of a session file: appends take effect one after the other, nothing else changes; no lock, no folding, no crashes | (abstract) |
| `ChatSession` | a session file under the commands that share it; compaction; the two windows | `chat_history.rs` 10–559; `orchestrator.rs` 535–573; commands 381–1142 |
| `EditHistory` | checked writes, checkpoints, revert, restore, pruning | `diff_engine/history.rs`, `file_system/io.rs`, `commands/fs.rs`, `commands/history.rs` |
| `HubSession` | the hub's credentials under rotations, logins, sign-outs | `hub_session.rs` 52–362; commands 135–323 |
| `AuthLoopback` | the loopback server of the login and the slot that holds it | `gateway/auth_loopback.rs` 20–169; commands 328–356 |
| `RlmKernel` | the Python process, its callers, the allowlist and the requests that feed it | `rlm_kernel.rs` 1107–2059; `tool_registry.rs` 1741–1862 |
| `KernelService` | the abstract promise of the kernel: one call after another, each in a session of its project; no process, pipe, lock or copied list | (abstract) |
| `RlmCache` | the research cache: decision, reuse, save | `rlm_cache.rs` 33–545; `swarm.rs` (research phase and its first prompt) |
| `Coordinator` | the coordinator's loop and the phases it calls | `chat_orchestrator.rs` 17–365; `swarm.rs` 2851–3735 |
| `MCSharedState`, `MCRoleLoop`, `MCRlm` | instances for TLC | |

`PROJECT.json` has the lines of every definition.  The proofs about a module are
kept apart from it: `SwarmRunProofs`, `PlanLoopProofs`, `RunControlProofs`
(`CancelFlag` and `RunRegistry`), `RoleLoopProofs`, `SessionProofs`
(`ChatSession`, `HubSession`, `AuthLoopback`), `EditHistoryProofs`, `RlmProofs`
(`RlmKernel`, `RlmCache`), `CoordinatorProofs`.

Most modules stand for one component and meet in what they abstract: a role loop
is one step of `SwarmRun`, `PlanLoop` and `Coordinator` and has its inside in
`RoleLoop`; the registries and the kernel rely on the flag only as `CancelFlag`
shows it to work; `DraftPlan` of `SwarmRun` is all of `PlanLoop`.  Where two
components share state, they are in one module (the kernel with the request tool
that writes its allowlist; agent, editor and history view on the same files).
`MCSharedState` (`RunRegistry`, `CancelFlag`, `HubSession`, `AuthLoopback`) and `MCRlm`
merely check independent modules side by side: they have no variable in common and
a behaviour moves one of them, so one run asks of each what a run of its own would.
The initial states and next steps of the modules that meet in one instance have
names of their own (`FlagInit`, `HubInit`, `LInit`, `KInit`, `CInit`).

### 2.1 SwarmRun

`pc` is the place in `run_swarm` (or in the command around it); `inflight` says
that the phase's role loop has begun.  The other variables carry the names of
the locals they stand for.  Abstractions:

* a plan is its number of tasks: `normalize_tasks` numbers tasks 1..n and the
  task loop takes them in order, so a set of pending numbers is the task list;
* `shared` is reduced to the brief and the number of direction notes, the two
  things that later phases or resumes could lose;
* a role loop is `BeginRole` followed by a result (`Deliver`), an error
  (`RoleFails`) or the sight of the cancel flag (`RoleStops`).  What it returns
  is any value the phase machine tells apart.  An executor that runs into its
  turn limit counts as finished, as in the code;
* `DraftPlan` and `RewrittenPlan` stand for the loops of `PlanLoop`;
* a failed write (`WritesMayFail`) leaves the old checkpoint, because the file is
  replaced by a rename.

The commands' error path is `failed` -> `EndCommand`; the Ok path is `returned`
-> `clear` -> `transcript`, with a crash possible between any two.

History variables (`launched`, `authority`, `began`, `finished`, `recorded`,
`notesTaken`, `answered`, `crashes`) are read by the properties, by the bounds
and by nothing else.  `authority` records who let the run leave its last gate.

One run per run id: `Resume` needs `pc = "idle"`.  The frontend guarantees that
(its `busy` flag); the backend does not check it.  This is a limit of the
model, listed as a hazard.

### 2.2 PlanLoop

`file` is the plan file; `Handoff(doc, f)` says which document `handoff_doc`
returns and what it leaves in the file.  `Faults` names the ways a model may
deviate from its instructions: write something that does not parse (`junk`),
end without `submit_plan` (`no_submit`), put the document in its response
(`text_doc`), name another file (`elsewhere`).  The history variable `deviated`
remembers which of them have happened, as far as a property depends on it:
`ShownIsFinal` needs a file that only ever changed together with the struct,
`DraftWasReviewed` and `AuditedUnlessCapped` need documents that pass through
the plan file, the other properties need nothing.  None of these conditions can
be dropped (section 4).
`InitialFiles` is what an earlier run left behind; `UserMayEdit` lets the user
save the file while the gate waits.

### 2.3 CancelFlag

One action per atomic operation.  The `Notify` is external and modelled from its
documented contract: a `Notified` future remembers the count of
`notify_waiters` calls at its creation, is ready if that count moved or a permit
is stored, and registers otherwise; `notify_one` wakes one registered waiter or
stores the single permit.  `Drop` is another branch of the caller's `select!`
winning.  A future dropped with a `notify_one` it was given would pass it on;
that cannot happen here, because nobody is registered any more when
`notify_one` is called.
Atomics are `SeqCst`, so interleaving semantics is adequate.

### 2.4 RunRegistry

Runs may share a run id, which is why `active_runs` holds buckets.  A request is
a gate decision or an external access request; only the latter times out.
`Resolve` of a request whose receiver is gone reports success and has no effect,
as in the code.

`RunRegistry` implements `RunDialogue`: `accepted` (what `resolve` reported as
delivered) is the answer, `outcome` (what the `select!` returned) the result, and
`cancelled` (whose flag is set) the runs that were stopped.  Everything in
`active_runs`, `pending` and `channel` is hidden.

### 2.5 RoleLoop

`loop` says which of the two functions runs.  Text, reasoning and output are
abstracted to what the loop tells apart: `TextKinds` (a plain text, one with a
whole, a cut or a handoff tool tag), `CallKinds` (a tool and the state of its
arguments: whole, cut off, empty, two objects run together), sizes of outputs.
Chunks of a stream, errors and the user's Stop come in any order.  `dropped`
remembers what the dead streams of a turn had delivered, `ran` what was executed.
A tool is one step; a Stop inside a tool is a Stop after it.

### 2.6 ChatSession

A message is its kind, its turn and, for a block, the turns it covers; a size
stands for the text.  `todo[t]` is the list of appends a command still owes the
file.  An append is two steps, `BeginStore` (lock, load) and `EndStore` (change,
rename), because other commands load without the lock in between, and deletion
takes no lock either.  What was loaded for the window is kept in `window[t]`.
`overlapped` and `deleted` are history variables that name the cases a property
leaves out.  `LedgerContext` is what the code's filter over the messages keeps: the
k-th message of a window is the one at the k-th position shown (`Rank`, `Nth`).
The log of `SessionLog` is what comes after the blocks.

### 2.7 EditHistory

An operation is a sequence of steps: look at the file, copy it, write the copy's
metadata, look again, replace.  Between any two of them the agent, the editor, the
history view or an outside program may act, the program may crash, or the
history may be pruned.  A content is the number of the write it came from.
`Watch` keeps the history variables: `window` has the contents a file had during the
session's first operation on it, `raced` the files whose first checkpoint says "new"
although somebody else had created them by the time the agent looked again (`io.rs`
236–251).

### 2.8 HubSession and AuthLoopback

Each operation looks at the store, waits for the hub, and writes file and
keychain; these are separate steps.  The hub is external: it answers, refuses, or
never answers.  `AuthLoopback` has the accept loop with its time-out and shutdown
flag, and the commands that take the slot, shut the old server down and fill it.

### 2.9 RlmKernel and RlmCache

`RlmKernel` follows `get_or_spawn` from await to await: project check, copy of the
allowlist, lock, respawn or sync, execution, time-out, Stop.  Of a snippet it
matters whose output the caller reads.  It implements `KernelService`: a living
process is a session, a dead one is none, the holder of the lock is the call that
is served.  A model's snippet runs in a namespace that is thrown away after it
(`execute_user_code`, 1273–1342); what a process keeps for later calls is not its
variables but the memo of the helpers (`_rlm_index`, `_rlm_bank`).  The history field
`memo` names the calls whose loads that memo has; the session must have exactly
those, so a respawn cannot be passed off as the old session, nor a session carry a
call that failed in it.  A reset without code ends after the respawn (1969), one with
code goes on to `get_or_spawn`.  A failing reader ends an execution without killing
the process (1427, 1486): `rlm_python` kills it then (2048), and the trusted snippets
print ASCII, at which no reader fails.  `RlmCache` has the content of a file as
the stamp of its last write, a manifest as a function of the tracked files, and
`save()` file by file; the clock only moves to age a brief.

### 2.10 Coordinator

A delegation runs a phase; each role loop of the phase is a step that ends or
fails.  Documents are what the code parses out of them: a verdict with or without
issues, a plan with a number of tasks, an audit that is complete, incomplete or
unusable.  Lengths count in one place.  `exec_notes` holds the whole last text of
every executor (`swarm.rs` 3580), and the ledger keeps the first `LEDGER_EXEC_CHARS`
of them followed by the verdict (3729–3732, 5290–5326): `kept` counts the notes that
are in that room whole, and the verdict is `CutOff` when it is not.

## 3. What is checked

| run | shows | distinct states |
|---|---|---|
| `swarm_safety` | all safety properties of a run and the refinement of `PlanExecution`, disk reliable, 2 crashes | 208 542 |
| `swarm_faults` | any write may fail silently, 1 crash: the checkpoint never goes back; a Stop ends the run; with fair role loops every run reaches a gate or ends | 859 633 |
| `plan_loop` | one plan is shown, reviewed, audited and executed; both plan loops end; all faults and user edits | 370 108 |
| `shared_state` | registries of two runs that may share an id implement `RunDialogue`; no lost wakeup, everybody who waits gets out; two rotations, a login, a sign-out, crashes; two commands against the loopback server | 378 823 |
| `role_loop` | both loops: well-formed histories, nothing replayed or run by halves, bounded output, end | 614 820 |
| `chat_session` | overlapping turns, a crash, failures, a deletion: refinement of `SessionLog`, blocks and windows in order | 866 147 |
| `edit_history` | three operations of three actors on two files with a fault: nothing destroyed, reverts are reverts | 1 021 059 |
| `rlm` | two callers of the kernel in two projects implement `KernelService`; three runs against a research cache, edits and a crash | 1 628 930, up to symmetry |
| `coordinator` | five turns with every order of delegations: the ledger tells what was executed as far as its room goes, end | 644 981 |
| `role_stopped_trace`, `coordinator_no_brief`, `edit_lost_race` | the disagreements of section 4 | |

Deadlock checking is off everywhere because all of these systems stop in order:
a finished run, an answered request, a spent budget of crashes or operations.

Every property has a mutant in `PROJECT.json`: a definition of the model changed
the way a slip in the code would (a lock not taken, a session not passed on, a
counter not moved, a tail cut without regard to calls), with which TLC finds the
property violated.  Type invariants are not among the runs' properties, because
all of them are proved.

**Bounds.**  `MaxTasks` 3 (2 in the larger runs) gives a first, a middle and a
last task, which is what the drain of the task list can get wrong.  One fix round
is the code's own `MAX_FIX_ROUNDS`; two research rounds and two direction
revisions are the code's values; the gate's cap (8) and the two safety caps (10)
are scaled to 1–3, since only "below the cap" and "at the cap" are told apart.
Two crashes let a resumed run crash again, with a checkpoint of its own; one note
more than the granted revision is enough to lose one.  `MaxLedgers` 2 tells one
from two.  In `PlanLoop` two plans and two notes tell "same" from "different",
which is all its guards compare.  Two runs with two requests and two run ids
cover the shared and the separate bucket (`MCSharedState` fixes the id of one
run, as ids are interchangeable); two callers and two waiters of the
flag exceed the single permit.

`role_loop`: two turns, so that a request is sent with what the first one left;
two calls in an answer, of which one may be split in two; outputs of 3 against a
total of 4 and a floor of 1 reach the full, the partly used and the used-up
budget.  `chat_session`: three turns with `RECENT_KEEP` and `COMPRESS_BATCH` 1
(5 and 5 in the code; a folding begins at one batch more than kept) fold twice;
one may overlap the others.  `edit_history`: three operations are an edit, a second
edit and a revert, or an edit between the steps of another; two files tell
"this file's checkpoints" from others.  Hub part of `shared_state`: two accounts, two rotations and
a login; `Legacy` begins with credentials in the keychain alone.  `rlm`: three calls of two
callers, so that one can run while another leaves output behind; one batch of two
paths, one of them too broad; for the cache, four writes against three runs that
follow each other (`MaxLive` 1; the theorem has any number that overlap).  Callers
and projects are interchangeable there and declared symmetric, which is sound
because the run checks no liveness.
`coordinator`: five turns allow research, plan, execution, another execution and
the answer; a room of 6 for notes of 1 to 3 and a verdict line of 1 (2000 in the
code) holds two tasks and their verdict, the notes without the verdict, or some of
the notes.  The theorems of section 5 hold for all values.

**Fairness.**  `Sync` (synchronous code and reactions to the cancel flag) is
weakly fair because the async runtime polls a ready task.  A role loop delivers
or fails (`RoleLoopsEnd`) because provider calls time out and turns are limited;
this is not part of the specification of `SwarmRun` but a premise of
`RunReachesGateOrEnds`, so `StopEndsRun` does without it.  Nothing is assumed of
the user: no run depends on a decision, a Stop or a resume.  `PlanLoop` and
`Coordinator` assume that role loops end, which `LoopEnds` of `RoleLoop` shows
from two assumptions: the task is polled, and a provider's answer comes, fails or
times out (the HTTP client has time-outs).  `CancelFlag` assumes that a thread
inside `cancel()` finishes and runnable tasks are polled; `RunRegistry` promises
safety only and assumes nothing.  In `AuthLoopback` a command gets the slot's mutex
eventually (strong fairness: tokio's mutex queues its waiters) and an accepted
connection does not stay silent for ever; the code has no time limit there, and
without this assumption `CommandsReturn` fails.

## 4. Disagreements

Three runs (`expect: violation`) each exhibit a behaviour that a comment or
document of the repository excludes; `PROJECT.json` quotes it.

* `role_stopped_trace`: a direct chat stopped between two tools leaves an
  assistant message with unanswered calls in the session.
* `coordinator_no_brief`: research answered from the cache gives the coordinator
  the placeholder for a missing brief and writes it over the cached digest.
* `edit_lost_race`: an agent's write that finds the file created since it looked
  records the other writer's bytes, so that no revert will delete their file
  (`io.rs` 236–239).  Its first checkpoint, "new file", stays listed before them;
  `revert_session` takes the earliest and deletes the file.  `RevertReturnsToStart`
  leaves such files (`raced`) out.

The following were seen while modelling.  The model has these behaviours, and
where a property would contradict one, the property names the condition that
excludes it.

*Swarm and plan.*  The second "ubah" at the direction gate is refused, the comment
grants two (`swarm.rs` 1337, 1114).  A conclusion that is only `NO_FILE_CHANGES`
neither ends the run nor passes the direction gate (1264, 1108–1110).  A lost
checkpoint write lets a resume repeat a completed task (298, 2167–2170).  A crash
between ledger and checkpoint removal yields a second ledger for the turn
(commands 710).  The gate can show a half-edited file and execute the earlier draft
(1591, 1793–1794).  A rewrite submitted from another file leaves "review" without
an audit (2595, 75–77).

*Role loop.*  Reasoning deltas of a restarted stream are sent again.  A handoff
written as a text tag is run as a tool without effect (`tool_registry.rs` 1323).

*Sessions.*  `delete_session` takes no lock, so a command under way brings the
file back (`chat_history.rs` 269).  Prompts of failed turns vanish when they are
folded; overlapping commands pair prompts and ledgers wrongly.

*Edits.*  Between the last look at a file and the rename nothing protects it.
`fs_rename` replaces its destination without a checkpoint.  Pruning removes the first checkpoint of a session and
keeps later ones, so a revert may go to a state between two edits.

*Hub.*  A rotation that awaits the hub at a sign-out stores credentials again.  With
credentials in the keychain only, the first rotation replaces the master token.
Concurrent saves share one temporary file.  A silent client blocks the shutdown of
the loopback server, and the slot with it; two overlapping starts leave a server
nobody can stop.

*RLM.*  An approval given between the copy of the allowlist and the kernel's lock
can be missing in a respawned process.  Approvals are dropped at a switch of
projects only if the kernel is alive.  A crash in `save()` leaves the parts of two
runs, although `rlm_cache.rs` 234 speaks of never a "half-written cache"; a reused
brief is saved again with a new date.  The tool description promises that
"variables, imports, and functions persist across calls" (`rlm_kernel.rs` 1923);
`execute_user_code` (1249–1342) runs every snippet of a model in a fresh namespace,
and only the memo of the helpers persists.

*Coordinator.*  A failed verdict without issues can be confirmed and starts a fix
round of no tasks.  `produced_verdict` keeps the verdict of an earlier execution.  A
second execution without a new plan runs the whole plan again.  Checkpoints of
later phases carry no execution notes although tasks were executed.  The ledger's
execution part is described as "just file oneliners plus the verdict" (`swarm.rs`
5287–5289), but the coordinator's notes are whole texts: if they are long, the cut
takes later tasks and the verdict from what the next turn is told.  Without a drafted
plan, `call_executor` runs one task made of its arguments (`chat_orchestrator.rs`
253–269).

## 5. What is proved

All theorems hold for every value of the constants that satisfies the named
assumption of the module (caps are naturals, special values are distinct); TLC
evaluates those assumptions in the runs.

`SwarmRunProofs` (no assumption on the disk):

* `TypeCorrect`: `Spec => []TypeOK`.  Data and flags are proved separately
  (`DataTypeCorrect`, `FlagsTypeCorrect`), because arithmetic and Boolean
  variables want different provers.
* `OnlyApprovedPlansExecute`.  `ExecutionApproved` talks about what executes and
  about the Executing checkpoint; the inductive `ApprovalInv` adds that the
  authority seen at a resume is the one under which that checkpoint was written.
* `PlansAreCompleted`, `ReviewerGetsEveryTranscript`, `CheckpointsAdvance` share
  `BooksInv`: the *books* (pending tasks, logs, notes, fix round) of memory and
  of the checkpoint are each consistent with the tasks finished and recorded.
  It is needed twice because a resume replaces the one by the other, and because
  with failing writes the two drift apart.

`SwarmRunProofs`, second part (hypothesis `~WritesMayFail`):

* `NothingTouchedUnlessExecuted`, `NotesAreKept`, `WorkIsAlwaysAccounted`,
  `RecordedWorkIsNotRepeated`, from `NotesInv` and `DurableInv`: while a run
  executes, memory and checkpoint have the same books, up to the task in flight.
* `RunImplementsPlanExecution`: `Spec => PE!Spec`.  The plan is approved when the
  Executing checkpoint is written; crashes, resumes and everything before that
  are stutters; the end of an executor is a plan or fix step.  `StepRefinement`
  is the step simulation, `DurableInv` its invariant.

`PlanLoopProofs`:

* `PlanTypeCorrect`, `ExecutorsHaveTheirPlan`, `GateStaysInBudget` from
  `PlanInv`: each loop is left before its counter passes the cap, a draft or a
  final plan exists where it is used, and every change was counted as a
  presentation.
* `ShownPlanIsFinal`, `DraftsAreReviewed`, `RewritesAreAudited` from `TextInv`,
  which follows the text: how the file, the draft, what the reviewer read and
  what was audited agree at each place, under the deviations that have happened.
  `HandoffThroughFile` and `HandoffAsInstructed` say what a hand-over guarantees.

`RunControlProofs`, flag: `CancelTypeCorrect` and `NoWakeupIsLost`.
`NoLostWakeup` alone is not inductive: a waiter between its second look at the
flag and its first poll may still go to sleep.  `FuturesNotice` excludes it: once
somebody was woken, such a waiter holds a future older than that call.

`RunControlProofs`, registries: `RegistryTypeCorrect`, `LiveRunsStayCancellable`,
`NoRequestIsStale`, `CancelsAreOwn`, `AnswersAreActedOn`.  The key is
`WaitingOpenOrAnswered`: while a run waits, its sender is in the registry,
unused, or its decision is in the channel.  So the branch "sender dropped" of
the `select!` never fires by itself.

* `RegistriesImplementDialogue`: `Spec => ImplementsDialogue`.  An answer can only
  be accepted for the newest question of its run (`ResolveStep`, from
  `NoStaleRequest` and `PendingIsUnused`), what a run receives is the answer that
  was accepted (`ReceivedStep`, from `WaitingOpenOrAnswered`), and a Stop reaches the
  live runs of its id and no other (`CancelRunStep`, from `LiveRunsCancellable` and
  `BucketsAreOwn`, which says that a bucket has only flags of its own id).
  Registering, removing and polling are hidden.

`RoleLoopProofs`: `LoopTypeCorrect`, `HistoriesAreWellFormed`,
`OutputIsNotReplayed`, `MutationsAreApprovedAndWhole`,
`RetainedOutputStaysBounded`.  `HistoryInv` says what the history looks like while
tools run: well-formed up to the last assistant message, whose first calls are
answered and whose others are `pending`, in order.  `AnswerFits` and
`AnsweredCloses` carry it through an answer, `HandoffCloses` through a handoff
that refuses its siblings.  The budget's bound is preserved only because
`Truncated` never returns more than what is left, the floor and the marker
(`TruncatedBound`).

`SessionProofs`, chat: `ChatTypeCorrect`, `NothingIsLost`, `BlocksAreInOrder`.
`NothingLost` (what an append reported as stored is in the file) needs `LockInv`:
the one command that has loaded the file under the lock holds what the file still
has, unless the session was deleted.
`BlocksCoverOldTurns` speaks of the messages one by one; inductive is `Sound`: the
blocks are the first n messages, block i covers turns (i-1)·batch to i·batch, and
as many ledgers as they cover and `RECENT_KEEP` more are in the file.
`CoveredIs`, `FoldIs` and `CompactFolded` show that compaction keeps it;
`AppendFolded` that an append does.

* `SessionImplementsLog`: `ChatSpec => SL!Spec`.  An append of one message is a step
  `Record` (`RestAppended`), because what its command has loaded is still what is
  there; a folding (`RestCompacted`) and a transcript are stutters, and so are
  crashes and failures.  This is stronger than `NothingLost`: it also fixes order
  and number, and that nothing is made up.
* `PrefixIsKept`: between two foldings the context of a swarm turn grows at its end.
  `NthIs` and `ContextIs` say which message is the k-th of a context, `NthKept` and
  `ContextGrows` that an append moves none of them.
* `ExchangesAreKept`, from `ExchangeInv`.  The windows are built in a step, so the
  work is in the file: `Paired` (every ledger has its prompt before it, every answer
  of a tool follows its call) holds while commands do not overlap, because of
  `OrderInv`, which says for each command what it has stored and what it still
  owes.  `CompactPaired` carries it over foldings, `SwarmWindow` and
  `DirectWindowIsBounded` from the file to the two windows; the latter also bounds
  the window of a direct chat by its limit and one, for every session.

`SessionProofs`, hub: `HubTypeCorrect`, `SignOutsAreFinal` (`OutInv`: after a
complete sign-out every operation is idle, the file is gone and the keychain has
no master token) and
`RotationsKeepMaster` (`RotatorInv`: an undisturbed rotation still sees the master
token it began with).  `LoopbackTypeCorrect` and `NoServerIsStray` (`HoldInv`: at
which steps a command has a server in its hands; `SlotInv`: unless starts overlap,
the slot stays empty from taking the old server out until the new one is in).
`LoopbackCannotStall` is about everyone waiting for everyone: `StallInv` says that
the lock is held by the one command that waits for a server, and that such a server
was started and told to stop.

`EditHistoryProofs`: `EditTypeCorrect`, `ContentsSurvive`,
`AgentEditsAreRevertible`, `RevertsReturnToStart`.  `EInv` says what an operation
already has to show at each of its steps: after "meta" a readable checkpoint with
the content it found; `PruneInv` what the pruning has decided on; `WindowInv` that
the earliest checkpoint of the session, of a file that was not pruned, holds a content of
`window`, which for a file in `raced` is the one that was missing.  Lists of
checkpoints only grow at the end, or lose old entries to the pruning (`AppendGrows`,
`PruningGrows`), so positions keep their meaning (`FirstStays`, `RevertStays`).

`RlmProofs`, kernel: `KernelTypeCorrect`, `OutputIsOwn`, `PathsAreGranted`,
`RequestsEndWithTheirCall`.  `KernelInv`: a process with output nobody has
read is not alive; `CallInv`: copies of the allowlist, however old, hold only
paths that were allowed; so do the process and the list itself.

* `KernelImplementsService`: `KSpec => ImplementsService`, from the same invariant.  A
  call at the lock has its turn, and the service needs a new session exactly when
  `get_or_spawn` respawns (`TurnOf`); `LockServes` maps the respawn to a new session
  or a reset, the sync to a session that goes on or ends; `ExecServes` the end of an
  execution, on every path, to an answer with the session kept or a failure with the
  session gone.  `CallHidden` shows that project check, drop of approvals and copy are
  stutters: only the kind and the project of a call are visible.  It contains
  `OutputIsOwn` and, of a living process, `PathsAreGranted`, and adds that the memo
  persists: only a failure, a Stop, a death, a reset or a call of another project
  loses what was loaded.  It says nothing of a snippet's variables, which do not.

`RlmProofs`, cache: `CacheTypeCorrect`,
`ReusedBriefsAreCurrent`.  `SeenInv` relates what a run has read to the manifest it
will save, `DiskInv` and `CachedInv` the parts on disk to the runs they are from,
also when the parts are of different runs.

`CoordinatorProofs`: `CoordinatorTypeCorrect`, `LedgerIsComplete`,
`DelegationsAreAnswered`, `CacheIsAudited` from `CoInv`.  `NotesInv`: as long as the
notes fit the room, each executed task has one there.  `ReviewInv`: except inside an
execution or after a failure in it, the ledger agrees with the notes and, if there is
room for it, with the last verdict.

**Why the loops end.**  Liveness is beyond the prover, the argument for it is not.
Four theorems give each loop a *rank*, a tuple of naturals in lexicographic order,
that every step lowers, for every value of the caps and whatever roles, providers
and disk do:

| theorem | rank | steps that do not lower it |
|---|---|---|
| `LoopAdvances` (`RoleLoopProofs`) | turns, stage of the turn, restarts or calls left, retries, place, chunks, Stop | none |
| `CoordinatorAdvances` | turns, stage, rounds, tasks, Stop | none |
| `PlansAdvance` (`PlanLoopProofs`) | gate changes, stage, rounds of the loop, place | a save by the user; a request the gate refuses |
| `RunAdvances` (`SwarmRunProofs`) | part of the command, rounds, place in the round, tasks, place in the step, Stop | a launch or resume; a request the exhausted gate refuses |

So no order of retries, rounds and failures comes back to where it was, except
where the user asks for it.  `CancelCannotStall` and `LoopbackCannotStall` do the same
for waiting: each step of a waiter brings it nearer its exit, and while it cannot move
somebody else can.  What fairness adds, that the steps are taken, is checked by TLC.

The inductive invariants and the ranks were first checked with TLC over the state
spaces of the passing runs.

Only model-checked: the seven liveness properties (`StopEndsRun`,
`RunReachesGateOrEnds`, `PlanLoopsEnd`, `CancelReachesAll`, `LoopEnds`,
`CommandsReturn`, `CoordinatorEnds`): fairness and `ENABLED` are beyond the prover.
Every other property of the passing runs is a theorem.  Induction over data is
avoided by stating operators by sets and positions instead of recursion
(`LedgerContext`); where it cannot be, a least counterexample does (`LeastNat`).
What the sizes in `KeepCount` add up to is not used: the proofs hold for any number
of turns it keeps beyond `RECENT_KEEP`.

## 6. Plan

What could follow, in order of importance:

1. The frontend's `agent.ts` (`busy`, `resumeTarget`, the gate cards) composed
   with `RunRegistry` and two live `SwarmRun`s under one run id.
2. The resume of a failed coordinator run as a swarm run: `Coordinator` and
   `SwarmRun` composed over the checkpoint.
3. `multi_replace_file`'s matching against a reference definition over bounded
   texts; the process handling of `run_command`.
4. `RoleLoop` shown to implement the begin/deliver/fail step of `SwarmRun`.
5. Terminal sessions and the token ledger.
6. Proofs: `EditHistory` shown to implement a store of versions; what `KeepCount`
   keeps, in characters.

## 7. Not modelled, and why

Providers, prompts and parsers are text processing behind the nondeterminism of
the role loops.  React components keep no protocol state.  The frontend's stores
decide what is offered to the user; the models take every such decision as
arbitrary.  Indexer, search, watcher, terminal and key storage are I/O.  The
gateway's helpers (ephemeral tokens, rate limiter, audit log, vault) are small and
sequential.  The Python code that runs inside the RLM kernel (guard, memo,
helpers) is a program of its own.

Within the modelled parts: token counts, transcripts and their wording, and
research supplements (which enter `shared` but never decide a branch) are left
out of `SwarmRun`; the event channels of the external requests are not modelled except that a
closed one is a Stop; the cache's index of projects and `last_used` only serve
the user interface; files the cache's walk skips are in the model but outside
`ReusedBriefIsCurrent`, which cannot hold for them.
