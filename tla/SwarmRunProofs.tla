---------------------------- MODULE SwarmRunProofs ----------------------------
(* Theorems about SwarmRun for every value of its constants, with proofs.    *)
EXTENDS SwarmRun, FiniteSetTheorems, TLAPS

\* DataTypeOK holds in every state of a run: one step per action of Next.
LEMMA DataTypeCorrect == Spec => []DataTypeOK
<1> USE CapsAssumption, BoundsAssumption
<1>1. Init => DataTypeOK
  BY DEF Init, DataTypeOK, Shared, Briefs, Outcomes, InRunSwarm, AfterRun,
     NoCheckpoint
<1>2. DataTypeOK /\ [Next]_vars => DataTypeOK'
  <2> SUFFICES ASSUME DataTypeOK, [Next]_vars PROVE DataTypeOK'
    OBVIOUS
  <2> USE DEF DataTypeOK, ghostVars, workVars, diskVars, counterVars,
              controlVars,
              execVars, InRunSwarm, RolePhase, Gate, AfterRun, Outcomes
  <2>1. CASE Launch
    BY <2>1 DEF Launch, EnterRunSwarm
  <2>2. CASE Resume
    BY <2>2 DEF Resume, EnterRunSwarm, Checkpoint, SeedLogs, SeedNotes
  <2>3. CASE Stop
    BY <2>3 DEF Stop
  <2>4. CASE Crash
    BY <2>4 DEF Crash, Forget, Shared, Briefs
  <2>5. CASE BeginRole
    BY <2>5 DEF BeginRole, Work
  <2>6. CASE RecordTask
    BY <2>6 DEF RecordTask, Remaining, WriteCheckpoint, ExecutingCheckpoint,
                Checkpoint, Work
  <2>7. CASE TasksDone
    BY <2>7 DEF TasksDone
  <2>8. CASE RoleFails
    BY <2>8 DEF RoleFails
  <2>9. CASE \E complete \in BOOLEAN : AcceptBrief(complete)
    BY <2>9 DEF AcceptBrief, EndRole, SaveDirection, WriteCheckpoint,
                EarlyCheckpoint, Checkpoint, Shared, Briefs
  <2>10. CASE NextResearchRound
    BY <2>10 DEF NextResearchRound, EndRole
  <2>11. CASE AskSupplement
    BY <2>11 DEF AskSupplement, EndRole
  <2>12. CASE Conclude
    <3>1. \/ pc' = "direction_gate" /\ disk' = disk /\ authority' = authority
          \/ EnterPlanning("settings")
      BY <2>12 DEF Conclude
    <3>. QED
      BY <2>12, <3>1 DEF Conclude, EndRole, EnterPlanning, WriteCheckpoint,
                 EarlyCheckpoint, Checkpoint
  <2>13. CASE ConcludeNoChanges
    BY <2>13 DEF ConcludeNoChanges, EndRole
  <2>14. CASE ConcludeBareMarker
    BY <2>14 DEF ConcludeBareMarker, EndRole, EnterPlanning, WriteCheckpoint,
                 EarlyCheckpoint, Checkpoint
  <2>15. CASE \E n \in Task : DraftPlan(n)
    <3>1. PICK n \in Task : DraftPlan(n)
      BY <2>15
    <3>2. PresentPlan(n) \/ EnterExecution(n, "settings")
      BY <3>1 DEF DraftPlan
    <3>3. /\ gate_rounds' = 0
          /\ UNCHANGED <<rlm_round, research_requests, direction_revisions,
                         shared, outcome, ledgers, workVars, notesTaken,
                         answered, crashes>>
      BY <3>1 DEF DraftPlan
    <3>4. CASE PresentPlan(n)
      BY <3>1, <3>3, <3>4 DEF PresentPlan, Task
    <3>5. CASE EnterExecution(n, "settings")
      BY <3>1, <3>3, <3>5 DEF EnterExecution, StartTasks, WriteCheckpoint,
            ExecutingCheckpoint, Checkpoint, Task
    <3>. QED
      BY <3>2, <3>4, <3>5
  <2>16. CASE \E n \in Task : RewrittenPlan(n)
    BY <2>16 DEF RewrittenPlan, EndRole, PresentPlan, Task
  <2>17. CASE ExecutorEnds
    BY <2>17 DEF ExecutorEnds, EndRole, Work
  <2>18. CASE VerdictIsFinal
    BY <2>18 DEF VerdictIsFinal, EndRole
  <2>19. CASE \E k \in Task : StartFixRound(k)
    BY <2>19 DEF StartFixRound, EndRole, FixRoundLeft, Task
  <2>20. CASE FinalAnswer
    BY <2>20 DEF FinalAnswer, EndRole
  <2>21. CASE DirectionApproved
    BY <2>21 DEF DirectionApproved, EnterPlanning, TakeNote, WriteCheckpoint,
                 EarlyCheckpoint, Checkpoint, Shared
  <2>22. CASE DirectionRevised
    BY <2>22 DEF DirectionRevised, TakeNote, SaveDirection, WriteCheckpoint,
                 EarlyCheckpoint, Checkpoint, Shared
  <2>23. CASE DirectionExhausted
    BY <2>23 DEF DirectionExhausted
  <2>24. CASE DirectionUnknown
    BY <2>24 DEF DirectionUnknown
  <2>25. CASE DirectionCancelled
    BY <2>25 DEF DirectionCancelled
  <2>26. CASE GateExecute
    BY <2>26 DEF GateExecute, NextGateRound, EnterExecution, StartTasks,
                 WriteCheckpoint, ExecutingCheckpoint, Checkpoint, Task
  <2>27. CASE GateChange
    BY <2>27 DEF GateChange, NextGateRound
  <2>28. CASE GateIgnored
    BY <2>28 DEF GateIgnored, NextGateRound
  <2>29. CASE GateCancelled
    BY <2>29 DEF GateCancelled
  <2>30. CASE AppendLedger
    BY <2>30 DEF AppendLedger
  <2>31. CASE DropCheckpoint
    BY <2>31 DEF DropCheckpoint, ClearCheckpoint
  <2>32. CASE EndCommand \/ AppendFails
    BY <2>32 DEF EndCommand, AppendFails, Forget, Shared, Briefs
  <2>33. CASE UNCHANGED vars
    BY <2>33 DEF vars
  <2>. QED
    BY <2>1, <2>2, <2>3, <2>4, <2>5, <2>6, <2>7, <2>8, <2>9, <2>10, <2>11,
       <2>12, <2>13, <2>14, <2>15, <2>16, <2>17, <2>18, <2>19, <2>20, <2>21,
       <2>22, <2>23, <2>24, <2>25, <2>26, <2>27, <2>28, <2>29, <2>30, <2>31,
       <2>32, <2>33 DEF Next, Sync, Deliver, Decide, RoleStops
<1>. QED
  BY <1>1, <1>2, PTL DEF Spec

\* FlagsTypeOK holds in every state of a run.
LEMMA FlagsTypeCorrect == Spec => []FlagsTypeOK
<1> USE CapsAssumption, BoundsAssumption
<1>1. Init => FlagsTypeOK
  BY Zenon DEF Init, FlagsTypeOK
<1>2. FlagsTypeOK /\ [Next]_vars => FlagsTypeOK'
  <2> SUFFICES ASSUME FlagsTypeOK, [Next]_vars PROVE FlagsTypeOK'
    OBVIOUS
  <2> USE DEF FlagsTypeOK, ghostVars, controlVars
  <2>1. CASE Launch
    BY <2>1, Zenon DEF Launch, EnterRunSwarm
  <2>2. CASE Resume
    BY <2>2, Zenon DEF Resume, EnterRunSwarm
  <2>3. CASE Stop
    BY <2>3, Zenon DEF Stop
  <2>4. CASE Crash
    BY <2>4, Zenon DEF Crash, Forget
  <2>5. CASE Sync
    BY <2>5, Zenon DEF Sync, BeginRole, RecordTask, TasksDone, RoleStops,
                       RoleFails, DirectionCancelled, GateCancelled,
                       AppendLedger, DropCheckpoint, EndCommand, Forget
  <2>6. CASE Deliver
    BY <2>6, Zenon DEF Deliver, AcceptBrief, NextResearchRound, AskSupplement,
                       Conclude, ConcludeNoChanges, ConcludeBareMarker,
                       DraftPlan, RewrittenPlan, ExecutorEnds, VerdictIsFinal,
                       StartFixRound, FinalAnswer, EndRole
  <2>7. CASE Decide
    BY <2>7, Zenon DEF Decide, DirectionApproved, DirectionRevised,
                       DirectionExhausted, DirectionUnknown,
                       DirectionCancelled, GateExecute, GateChange,
                       GateIgnored, GateCancelled
  <2>8. CASE RoleFails \/ AppendFails \/ UNCHANGED vars
    BY <2>8, Zenon DEF RoleFails, AppendFails, Forget, vars
  <2>. QED
    BY <2>1, <2>2, <2>3, <2>4, <2>5, <2>6, <2>7, <2>8 DEF Next
<1>. QED
  BY <1>1, <1>2, PTL DEF Spec

\* The phases in which the project is being changed, and those before them.
Executing == {"execute", "record", "verify", "final"}
BeforeExecution == {"research", "direction", "direction_gate", "planning",
                    "plan_gate", "gate_rewrite"}

\* Where the phase and the checkpoint may be, one given the other: what was
\* approved is executed, and what is executed was approved.
ApprovalInv ==
  /\ ~launched => pc = "idle" /\ disk = NoCheckpoint
  /\ pc = "research" => disk = NoCheckpoint
  /\ pc \in {"direction", "direction_gate"} =>
       disk.phase \in {"none", "Direction"}
  /\ pc \in BeforeExecution => disk.phase # "Executing"
  /\ pc = "clear" => ledgers > 0
  /\ pc \in Executing \/ disk.phase = "Executing" =>
       authority \in {"user", "settings"}

\* ApprovalInv is inductive (given the types).
LEMMA ApprovalCorrect == Spec => []ApprovalInv
<1> USE CapsAssumption, BoundsAssumption
<1>1. Init => ApprovalInv
  BY DEF Init, ApprovalInv, NoCheckpoint, BeforeExecution, Executing
<1>2. DataTypeOK /\ ApprovalInv /\ [Next]_vars => ApprovalInv'
  <2> SUFFICES ASSUME DataTypeOK, ApprovalInv, [Next]_vars
               PROVE  ApprovalInv'
    OBVIOUS
  <2> USE DEF ApprovalInv, BeforeExecution, Executing, NoCheckpoint, ghostVars,
              workVars, diskVars, RolePhase
  <2>1. CASE Launch
    BY <2>1 DEF Launch, EnterRunSwarm
  <2>2. CASE Resume
    BY <2>2 DEF Resume, EnterRunSwarm, SeedLogs, SeedNotes
  <2>3. CASE Stop
    BY <2>3 DEF Stop
  <2>4. CASE Crash
    BY <2>4 DEF Crash, Forget
  <2>5. CASE BeginRole
    BY <2>5 DEF BeginRole
  <2>6. CASE RecordTask
    BY <2>6 DEF RecordTask, Remaining, WriteCheckpoint, ExecutingCheckpoint
  <2>7. CASE TasksDone
    BY <2>7 DEF TasksDone
  <2>8. CASE RoleFails
    BY <2>8 DEF RoleFails
  <2>9. CASE \E complete \in BOOLEAN : AcceptBrief(complete)
    BY <2>9
      DEF AcceptBrief, EndRole, SaveDirection, WriteCheckpoint,
          EarlyCheckpoint
  <2>10. CASE NextResearchRound
    BY <2>10 DEF NextResearchRound, EndRole
  <2>11. CASE AskSupplement
    BY <2>11 DEF AskSupplement, EndRole
  <2>12. CASE Conclude
    BY <2>12
      DEF Conclude, EndRole, EnterPlanning, WriteCheckpoint, EarlyCheckpoint
  <2>13. CASE ConcludeNoChanges
    BY <2>13 DEF ConcludeNoChanges, EndRole
  <2>14. CASE ConcludeBareMarker
    BY <2>14
      DEF ConcludeBareMarker, EndRole, EnterPlanning, WriteCheckpoint,
          EarlyCheckpoint
  <2>15. CASE \E n \in Task : DraftPlan(n)
    BY <2>15
      DEF DraftPlan, EndRole, PresentPlan, EnterExecution, StartTasks,
          WriteCheckpoint, ExecutingCheckpoint
  <2>16. CASE \E n \in Task : RewrittenPlan(n)
    BY <2>16 DEF RewrittenPlan, EndRole, PresentPlan
  <2>17. CASE ExecutorEnds
    BY <2>17 DEF ExecutorEnds, EndRole
  <2>18. CASE VerdictIsFinal
    BY <2>18 DEF VerdictIsFinal, EndRole
  <2>19. CASE \E k \in Task : StartFixRound(k)
    BY <2>19 DEF StartFixRound, EndRole, FixRoundLeft
  <2>20. CASE FinalAnswer
    BY <2>20 DEF FinalAnswer, EndRole
  <2>21. CASE DirectionApproved
    BY <2>21
      DEF DirectionApproved, EnterPlanning, TakeNote, WriteCheckpoint,
          EarlyCheckpoint
  <2>22. CASE DirectionRevised
    BY <2>22
      DEF DirectionRevised, TakeNote, SaveDirection, WriteCheckpoint,
          EarlyCheckpoint
  <2>23. CASE DirectionExhausted
    BY <2>23 DEF DirectionExhausted
  <2>24. CASE DirectionUnknown
    BY <2>24 DEF DirectionUnknown
  <2>25. CASE DirectionCancelled
    BY <2>25 DEF DirectionCancelled
  <2>26. CASE GateExecute
    BY <2>26
      DEF GateExecute, NextGateRound, EnterExecution, StartTasks,
          WriteCheckpoint, ExecutingCheckpoint
  <2>27. CASE GateChange
    BY <2>27 DEF GateChange, NextGateRound
  <2>28. CASE GateIgnored
    BY <2>28 DEF GateIgnored, NextGateRound
  <2>29. CASE GateCancelled
    BY <2>29 DEF GateCancelled
  <2>30. CASE AppendLedger
    BY <2>30 DEF AppendLedger, DataTypeOK
  <2>31. CASE DropCheckpoint
    BY <2>31 DEF DropCheckpoint, ClearCheckpoint
  <2>32. CASE EndCommand \/ AppendFails
    BY <2>32 DEF EndCommand, AppendFails, Forget
  <2>33. CASE UNCHANGED vars
    BY <2>33 DEF vars
  <2>. QED
    BY <2>1, <2>2, <2>3, <2>4, <2>5, <2>6, <2>7, <2>8, <2>9, <2>10, <2>11,
        <2>12, <2>13, <2>14, <2>15, <2>16, <2>17, <2>18, <2>19, <2>20, <2>21,
        <2>22, <2>23, <2>24, <2>25, <2>26, <2>27, <2>28, <2>29, <2>30, <2>31,
        <2>32, <2>33
       DEF Next, Sync, Deliver, Decide, RoleStops
<1>. QED
  BY <1>1, <1>2, DataTypeCorrect, PTL DEF Spec

\* The executor's books, in memory or in a checkpoint: `notes` of work that was
\* applied, transcripts for the notes of the current round, and no task of the
\* plan that is neither noted nor waiting to be applied.
Books(n, todo, lg, notes, rnd, fin) ==
  /\ notes \subseteq fin
  /\ \A w \in notes : w[1] <= rnd
  /\ \A t \in Task : <<rnd, t>> \in notes => t \in lg
  /\ \A t \in 1..n : <<0, t>> \in notes \/ (rnd = 0 /\ t \in todo)
  /\ \A t \in todo : \A u \in 1..t : u \in todo \/ <<rnd, u>> \in notes
  /\ rnd = 0 => todo \subseteq 1..n

\* The books are right in memory and in the checkpoint, and the checkpoint is
\* never ahead of the memory.
BooksInv ==
  /\ pc \in Executing =>
       Books(plan, pending, logs, exec_notes, fix_round, finished)
  /\ disk.phase = "Executing" =>
       Books(disk.plan, disk.pending, disk.logs, disk.exec_notes,
             disk.fix_round, finished)
  /\ pc \in BeforeExecution \cup {"idle"} => exec_notes = {}
  /\ disk.phase \in {"Direction", "Planning"} => disk.exec_notes = {}
  /\ pc \in {"plan_gate", "gate_rewrite"} \cup Executing => plan \in Task
  /\ disk.phase = "Executing" => disk.plan \in Task
  /\ pc \in {"verify", "final"} => pending = {}
  /\ pc = "record" =>
       \A t \in pending : Current(t) => <<fix_round, t>> \in finished
  /\ pc = "returned" /\ outcome = "done" =>
       {0} \X (1..plan) \subseteq finished \cap exec_notes
  /\ pc \in Executing /\ disk.phase = "Executing" =>
       disk.exec_notes \subseteq exec_notes /\ disk.fix_round <= fix_round

\* Books that are opened at the start of execution.
LEMMA FreshBooks ==
  ASSUME NEW n \in Task, NEW fin
  PROVE  Books(n, 1..n, {}, {}, 0, fin)
BY BoundsAssumption DEF Books, Task

\* Books after the lowest task that is left was noted.
LEMMA NotedBooks ==
  ASSUME NEW n, NEW todo \in SUBSET Task, NEW lg, NEW notes,
         NEW rnd \in Nat, NEW fin,
         Books(n, todo, lg, notes, rnd, fin),
         NEW t \in todo, \A u \in todo : t <= u, <<rnd, t>> \in fin
  PROVE  Books(n, todo \ {t}, lg \cup {t}, notes \cup {<<rnd, t>>}, rnd, fin)
BY BoundsAssumption DEF Books, Task

\* Books after a fix round was opened.
LEMMA FixBooks ==
  ASSUME NEW n, NEW lg, NEW notes \in SUBSET Work, NEW rnd \in Nat, NEW fin,
         Books(n, {}, lg, notes, rnd, fin), NEW k \in Task
  PROVE  Books(n, 1..k, {}, notes, rnd + 1, fin)
BY CapsAssumption, BoundsAssumption DEF Books, Task, Work

\* Entering execution opens the books.
LEMMA EnterExecutionBooks ==
  ASSUME BooksInv, ApprovalInv, pc \in BeforeExecution, UNCHANGED finished,
         NEW n \in Task, NEW by, EnterExecution(n, by)
  PROVE  BooksInv'
<1>1. Books(n, 1..n, {}, {}, 0, finished)
  BY FreshBooks
<1>2. exec_notes = {} /\ disk.phase # "Executing"
  BY DEF BooksInv, ApprovalInv
<1>3. /\ pc' = "execute" /\ plan' = n /\ pending' = 1..n /\ logs' = {}
      /\ fix_round' = 0 /\ exec_notes' = {} /\ finished' = finished
      /\ disk' = disk \/ disk' = ExecutingCheckpoint(n, 1..n, {}, {}, 0)
  BY <1>2 DEF EnterExecution, StartTasks, WriteCheckpoint
<1>4. CASE disk' = disk
  BY <1>1, <1>2, <1>3, <1>4 DEF BooksInv, Executing, BeforeExecution
<1>5. CASE disk' = ExecutingCheckpoint(n, 1..n, {}, {}, 0)
  BY <1>1, <1>3, <1>5 DEF BooksInv, Executing, BeforeExecution,
        ExecutingCheckpoint
<1>. QED
  BY <1>3, <1>4, <1>5

\* BooksInv is inductive (given the types and ApprovalInv), also when writes of
\* the checkpoint fail.
LEMMA BooksCorrect == Spec => []BooksInv
<1> USE CapsAssumption, BoundsAssumption
<1>1. Init => BooksInv
  BY DEF Init, BooksInv, NoCheckpoint, BeforeExecution, Executing
<1>2. DataTypeOK /\ DataTypeOK' /\ ApprovalInv /\ BooksInv /\ [Next]_vars
        => BooksInv'
  <2> SUFFICES ASSUME DataTypeOK, DataTypeOK', ApprovalInv, BooksInv,
                      [Next]_vars
               PROVE  BooksInv'
    OBVIOUS
  <2> USE DEF BooksInv, BeforeExecution, Executing, NoCheckpoint, ghostVars,
              workVars, diskVars, execVars, RolePhase
  <2>1. CASE Launch
    BY <2>1 DEF Launch, EnterRunSwarm, ApprovalInv
  <2>2. CASE Resume
    BY <2>2
      DEF Resume, EnterRunSwarm, SeedLogs, SeedNotes, DataTypeOK, Checkpoint
  <2>3. CASE Stop
    BY <2>3 DEF Stop, Current
  <2>4. CASE Crash
    BY <2>4 DEF Crash, Forget
  <2>5. CASE BeginRole
    BY <2>5 DEF BeginRole
  <2>6. CASE RecordTask
    <3>1. PICK t \in Task : /\ Current(t)
                         /\ pending' = pending \ {t}
                         /\ logs' = logs \cup {t}
                         /\ exec_notes' = exec_notes \cup {<<fix_round, t>>}
      BY <2>6 DEF RecordTask, Remaining
    <3>2. /\ pc = "record" /\ pc' = "execute"
          /\ UNCHANGED <<plan, fix_round, finished>>
          /\ \/ disk' = ExecutingCheckpoint(plan, pending', logs', exec_notes',
                                           fix_round)
             \/ disk' = disk
      BY <2>6 DEF RecordTask, WriteCheckpoint
    <3>3. t \in pending /\ \A u \in pending : t <= u
      BY <3>1 DEF Current
    <3>4. <<fix_round, t>> \in finished
      BY <3>1, <3>2, <3>3
    <3>5. pending \in SUBSET Task /\ fix_round \in Nat
      BY DEF DataTypeOK
    <3>6. /\ Books(plan, pending, logs, exec_notes, fix_round, finished)
          /\ plan \in Task
      BY <3>2
    <3>7. Books(plan, pending', logs', exec_notes', fix_round, finished)
      BY <3>1, <3>3, <3>4, <3>5, <3>6, NotedBooks
    <3>8. disk.phase = "Executing" =>
            /\ disk.exec_notes \subseteq exec_notes
            /\ disk.fix_round <= fix_round
      BY <3>2
    <3>9. CASE disk' = disk
      BY <3>1, <3>2, <3>6, <3>7, <3>8, <3>9
    <3>10. CASE disk' = ExecutingCheckpoint(plan, pending', logs', exec_notes',
                                            fix_round)
      BY <3>2, <3>5, <3>6, <3>7, <3>10 DEF ExecutingCheckpoint
    <3>. QED
      BY <3>2, <3>9, <3>10
  <2>7. CASE TasksDone
    BY <2>7 DEF TasksDone
  <2>8. CASE RoleFails
    BY <2>8 DEF RoleFails
  <2>9. CASE \E complete \in BOOLEAN : AcceptBrief(complete)
    BY <2>9
      DEF AcceptBrief, EndRole, SaveDirection, WriteCheckpoint,
          EarlyCheckpoint
  <2>10. CASE NextResearchRound
    BY <2>10 DEF NextResearchRound, EndRole
  <2>11. CASE AskSupplement
    BY <2>11 DEF AskSupplement, EndRole
  <2>12. CASE Conclude
    BY <2>12
      DEF Conclude, EndRole, EnterPlanning, WriteCheckpoint, EarlyCheckpoint
  <2>13. CASE ConcludeNoChanges
    BY <2>13 DEF ConcludeNoChanges, EndRole
  <2>14. CASE ConcludeBareMarker
    BY <2>14
      DEF ConcludeBareMarker, EndRole, EnterPlanning, WriteCheckpoint,
          EarlyCheckpoint
  <2>15. CASE \E n \in Task : DraftPlan(n)
    <3>1. PICK n \in Task : DraftPlan(n)
      BY <2>15
    <3>3. PresentPlan(n) \/ EnterExecution(n, "settings")
      BY <3>1 DEF DraftPlan
    <3>4. pc = "planning" /\ UNCHANGED finished
      BY <3>1 DEF DraftPlan, EndRole
    <3>5. CASE PresentPlan(n)
      BY <3>4, <3>5 DEF PresentPlan
    <3>6. CASE EnterExecution(n, "settings")
      BY <3>4, <3>6, EnterExecutionBooks
    <3>. QED
      BY <3>3, <3>5, <3>6
  <2>16. CASE \E n \in Task : RewrittenPlan(n)
    BY <2>16 DEF RewrittenPlan, EndRole, PresentPlan
  <2>17. CASE ExecutorEnds
    BY <2>17
      DEF ExecutorEnds, EndRole, DataTypeOK, Books, Current, Task, Work
  <2>18. CASE VerdictIsFinal
    BY <2>18 DEF VerdictIsFinal, EndRole
  <2>19. CASE \E k \in Task : StartFixRound(k)
    <3>1. PICK k \in Task : StartFixRound(k)
      BY <2>19
    <3>2. /\ pc = "verify" /\ pc' = "execute"
          /\ pending' = 1..k /\ logs' = {} /\ fix_round' = fix_round + 1
          /\ UNCHANGED <<plan, exec_notes, finished, disk, outcome>>
      BY <3>1 DEF StartFixRound, EndRole
    <3>3. /\ Books(plan, {}, logs, exec_notes, fix_round, finished)
          /\ plan \in Task
      BY <3>2
    <3>4. exec_notes \in SUBSET Work /\ fix_round \in Nat
      BY DEF DataTypeOK
    <3>5. Books(plan, 1..k, {}, exec_notes, fix_round + 1, finished)
      BY <3>3, <3>4, FixBooks
    <3>6. disk.phase = "Executing" => disk.fix_round \in Nat
      BY DEF DataTypeOK, Checkpoint
    <3>. QED
      BY <3>2, <3>3, <3>4, <3>5, <3>6
  <2>20. CASE FinalAnswer
    BY <2>20
      DEF FinalAnswer, EndRole, DataTypeOK, Books, Task, Work
  <2>21. CASE DirectionApproved
    BY <2>21
      DEF DirectionApproved, EnterPlanning, TakeNote, WriteCheckpoint,
          EarlyCheckpoint
  <2>22. CASE DirectionRevised
    BY <2>22
      DEF DirectionRevised, TakeNote, SaveDirection, WriteCheckpoint,
          EarlyCheckpoint
  <2>23. CASE DirectionExhausted
    BY <2>23 DEF DirectionExhausted
  <2>24. CASE DirectionUnknown
    BY <2>24 DEF DirectionUnknown
  <2>25. CASE DirectionCancelled
    BY <2>25 DEF DirectionCancelled
  <2>26. CASE GateExecute
    <3>1. plan \in Task /\ pc \in BeforeExecution
      BY <2>26 DEF GateExecute
    <3>2. EnterExecution(plan, "user") /\ UNCHANGED finished
      BY <2>26 DEF GateExecute
    <3>. QED
      BY <3>1, <3>2, EnterExecutionBooks
  <2>27. CASE GateChange
    BY <2>27 DEF GateChange, NextGateRound
  <2>28. CASE GateIgnored
    BY <2>28 DEF GateIgnored, NextGateRound
  <2>29. CASE GateCancelled
    BY <2>29 DEF GateCancelled
  <2>30. CASE AppendLedger
    BY <2>30 DEF AppendLedger
  <2>31. CASE DropCheckpoint
    BY <2>31 DEF DropCheckpoint, ClearCheckpoint
  <2>32. CASE EndCommand \/ AppendFails
    BY <2>32 DEF EndCommand, AppendFails, Forget
  <2>33. CASE UNCHANGED vars
    BY <2>33 DEF vars, Current
  <2>. QED
    BY <2>1, <2>2, <2>3, <2>4, <2>5, <2>6, <2>7, <2>8, <2>9, <2>10, <2>11,
        <2>12, <2>13, <2>14, <2>15, <2>16, <2>17, <2>18, <2>19, <2>20, <2>21,
        <2>22, <2>23, <2>24, <2>25, <2>26, <2>27, <2>28, <2>29, <2>30, <2>31,
        <2>32, <2>33
       DEF Next, Sync, Deliver, Decide, RoleStops
<1>. QED
  BY <1>1, <1>2, DataTypeCorrect, ApprovalCorrect, PTL DEF Spec

\* Every variable keeps its type; the phase counters keep to their caps.
THEOREM TypeCorrect == Spec => []TypeOK
BY DataTypeCorrect, FlagsTypeCorrect, PTL DEF TypeOK

\* ExecutionApproved: nothing executes, now or after a resume, without the
\* user's Execute or a gate that is off; for all caps, plans and crashes.
THEOREM OnlyApprovedPlansExecute == Spec => []ExecutionApproved
<1>1. ApprovalInv => ExecutionApproved
  BY DEF ApprovalInv, ExecutionApproved, Executing
<1>. QED
  BY <1>1, ApprovalCorrect, PTL

\* PlanCompleteBeforeAnswer: a run verifies, sums up and answers only with every
\* task of its plan applied and noted.
THEOREM PlansAreCompleted == Spec => []PlanCompleteBeforeAnswer
<1>1. DataTypeOK /\ BooksInv => PlanCompleteBeforeAnswer
  BY BoundsAssumption
  DEF DataTypeOK, BooksInv, Books, PlanCompleteBeforeAnswer, Executing, Task
<1>. QED
  BY <1>1, DataTypeCorrect, BooksCorrect, PTL

\* ReviewerSeesEveryTask: the Executor Reviewer gets all the transcripts of the
\* round, those of tasks applied before a crash included.
THEOREM ReviewerGetsEveryTranscript == Spec => []ReviewerSeesEveryTask
<1>1. DataTypeOK /\ BooksInv => ReviewerSeesEveryTask
  <2> SUFFICES ASSUME DataTypeOK, BooksInv, pc = "verify"
               PROVE  /\ fix_round = 0 => 1..plan \subseteq logs
                      /\ \A t \in Task :
                           <<fix_round, t>> \in exec_notes => t \in logs
    BY DEF ReviewerSeesEveryTask
  <2>1. Books(plan, {}, logs, exec_notes, fix_round, finished)
    BY DEF BooksInv, Executing
  <2>2. plan \in 0..MaxTasks
    BY DEF DataTypeOK
  <2>3. ASSUME fix_round = 0, NEW t \in 1..plan PROVE t \in logs
    <3>1. t \in Task
      BY <2>2, BoundsAssumption DEF Task
    <3>2. <<0, t>> \in exec_notes
      BY <2>1 DEF Books
    <3>. QED
      BY <2>1, <2>3, <3>1, <3>2 DEF Books
  <2>4. \A t \in Task : <<fix_round, t>> \in exec_notes => t \in logs
    BY <2>1 DEF Books
  <2>. QED
    BY <2>3, <2>4
<1>. QED
  BY <1>1, DataTypeCorrect, BooksCorrect, PTL

\* CheckpointAdvances: no write of the checkpoint file goes back.
THEOREM CheckpointsAdvance == Spec => CheckpointAdvances
<1>1. DataTypeOK /\ ApprovalInv /\ BooksInv /\ [Next]_vars
        => [disk' # disk =>
              IF disk' = NoCheckpoint THEN ledgers > 0 ELSE FurtherOn]_vars
  <2> SUFFICES ASSUME DataTypeOK, ApprovalInv, BooksInv, Next, disk' # disk
               PROVE  IF disk' = NoCheckpoint THEN ledgers > 0 ELSE FurtherOn
    BY DEF vars, diskVars
  <2> USE DEF ApprovalInv, BeforeExecution, Executing, FurtherOn
  <2>1. CASE \E complete \in BOOLEAN : AcceptBrief(complete)
    BY <2>1 DEF AcceptBrief, EndRole, SaveDirection, WriteCheckpoint,
                EarlyCheckpoint, NoCheckpoint
  <2>2. CASE DirectionRevised
    BY <2>2 DEF DirectionRevised, SaveDirection, WriteCheckpoint,
                EarlyCheckpoint, NoCheckpoint
  <2>3. CASE Conclude \/ ConcludeBareMarker \/ DirectionApproved
    <3>1. pc \in {"direction", "direction_gate"}
      BY <2>3 DEF Conclude, ConcludeBareMarker, DirectionApproved, EndRole
    <3>2. disk'.phase = "Planning"
      BY <2>3 DEF Conclude, ConcludeBareMarker, DirectionApproved,
                  EnterPlanning,
                  WriteCheckpoint, EarlyCheckpoint
    <3>. QED
      BY <3>1, <3>2 DEF NoCheckpoint
  <2>4. CASE GateExecute \/ \E n \in Task : DraftPlan(n)
    <3>1. pc \in BeforeExecution
      BY <2>4 DEF GateExecute, DraftPlan, EndRole
    <3>2. disk'.phase = "Executing"
      BY <2>4 DEF GateExecute, DraftPlan, PresentPlan, EnterExecution,
                  WriteCheckpoint, ExecutingCheckpoint
    <3>. QED
      BY <3>1, <3>2 DEF NoCheckpoint
  <2>5. CASE RecordTask
    <3>1. /\ pc = "record"
          /\ disk' = ExecutingCheckpoint(plan, pending', logs', exec_notes',
                                         fix_round)
          /\ exec_notes \subseteq exec_notes'
      BY <2>5 DEF RecordTask, WriteCheckpoint
    <3>. QED
      BY <3>1 DEF ExecutingCheckpoint, BooksInv, NoCheckpoint
  <2>6. CASE DropCheckpoint
    BY <2>6 DEF DropCheckpoint, ClearCheckpoint
  <2>7. ~\/ Launch \/ Resume \/ Stop \/ Crash
         \/ BeginRole \/ TasksDone \/ RoleFails
         \/ NextResearchRound \/ AskSupplement \/ ConcludeNoChanges
         \/ \E n \in Task : RewrittenPlan(n)
         \/ ExecutorEnds \/ VerdictIsFinal
         \/ \E k \in Task : StartFixRound(k)
         \/ FinalAnswer \/ DirectionExhausted \/ DirectionUnknown
         \/ DirectionCancelled \/ GateChange \/ GateIgnored \/ GateCancelled
         \/ AppendLedger \/ AppendFails \/ EndCommand
    BY DEF Launch, Resume, Stop, Crash, BeginRole, TasksDone, RoleFails,
           NextResearchRound, AskSupplement, ConcludeNoChanges, RewrittenPlan,
           PresentPlan, ExecutorEnds, VerdictIsFinal, StartFixRound,
           FinalAnswer, DirectionExhausted, DirectionUnknown,
           DirectionCancelled, GateChange, GateIgnored, GateCancelled,
           AppendLedger, AppendFails, EndCommand, diskVars
  <2>. QED
    BY <2>1, <2>2, <2>3, <2>4, <2>5, <2>6, <2>7
    DEF Next, Sync, Deliver, Decide, RoleStops
<1>. QED
  BY <1>1, DataTypeCorrect, ApprovalCorrect, BooksCorrect, PTL
  DEF Spec, CheckpointAdvances


-----------------------------------------------------------------------------
(* A disk that never fails a write: what the checkpoint guarantees to a     *)
(* run that is stopped, crashed and resumed.                               *)

\* The direction notes are where they have to be.
NotesInv ==
  /\ ~launched => notesTaken = 0
  /\ pc = "idle" => shared.notes = 0
  /\ pc \in InRunSwarm \cup {"returned"} => shared.notes = notesTaken
  /\ disk # NoCheckpoint => disk.shared.notes = notesTaken

\* NotesInv is inductive.
LEMMA NotesCorrect == ~WritesMayFail => (Spec => []NotesInv)
<1> SUFFICES ASSUME ~WritesMayFail PROVE Spec => []NotesInv
  OBVIOUS
<1> USE CapsAssumption, BoundsAssumption
<1>1. Init => NotesInv
  BY DEF Init, NotesInv
<1>2. DataTypeOK /\ ApprovalInv /\ NotesInv /\ [Next]_vars => NotesInv'
  <2> SUFFICES ASSUME DataTypeOK, ApprovalInv, NotesInv, [Next]_vars
               PROVE  NotesInv'
    OBVIOUS
  <2> USE DEF NotesInv, InRunSwarm, RolePhase, Gate, NoCheckpoint, ghostVars,
              diskVars
  <2>1. CASE Launch
    BY <2>1 DEF Launch, EnterRunSwarm, ApprovalInv
  <2>2. CASE Resume
    BY <2>2 DEF Resume, EnterRunSwarm, SeedLogs, SeedNotes
  <2>3. CASE Stop
    BY <2>3 DEF Stop
  <2>4. CASE Crash
    BY <2>4 DEF Crash, Forget
  <2>5. CASE BeginRole
    BY <2>5 DEF BeginRole
  <2>6. CASE RecordTask
    BY <2>6 DEF RecordTask, Remaining, WriteCheckpoint, ExecutingCheckpoint
  <2>7. CASE TasksDone
    BY <2>7 DEF TasksDone
  <2>8. CASE RoleFails
    BY <2>8 DEF RoleFails
  <2>9. CASE \E complete \in BOOLEAN : AcceptBrief(complete)
    BY <2>9
      DEF AcceptBrief, EndRole, SaveDirection, WriteCheckpoint,
          EarlyCheckpoint, DataTypeOK, Shared
  <2>10. CASE NextResearchRound
    BY <2>10 DEF NextResearchRound, EndRole
  <2>11. CASE AskSupplement
    BY <2>11 DEF AskSupplement, EndRole
  <2>12. CASE Conclude
    BY <2>12
      DEF Conclude, EndRole, EnterPlanning, WriteCheckpoint, EarlyCheckpoint
  <2>13. CASE ConcludeNoChanges
    BY <2>13 DEF ConcludeNoChanges, EndRole
  <2>14. CASE ConcludeBareMarker
    BY <2>14
      DEF ConcludeBareMarker, EndRole, EnterPlanning, WriteCheckpoint,
          EarlyCheckpoint
  <2>15. CASE \E n \in Task : DraftPlan(n)
    BY <2>15
      DEF DraftPlan, EndRole, PresentPlan, EnterExecution, StartTasks,
          WriteCheckpoint, ExecutingCheckpoint
  <2>16. CASE \E n \in Task : RewrittenPlan(n)
    BY <2>16 DEF RewrittenPlan, EndRole, PresentPlan
  <2>17. CASE ExecutorEnds
    BY <2>17 DEF ExecutorEnds, EndRole
  <2>18. CASE VerdictIsFinal
    BY <2>18 DEF VerdictIsFinal, EndRole
  <2>19. CASE \E k \in Task : StartFixRound(k)
    BY <2>19 DEF StartFixRound, EndRole, FixRoundLeft
  <2>20. CASE FinalAnswer
    BY <2>20 DEF FinalAnswer, EndRole
  <2>21. CASE DirectionApproved
    <3>1. CASE TakeNote
      <4>1. shared'.notes = notesTaken'
        BY <3>1 DEF TakeNote, DataTypeOK, Shared
      <4>. QED
        BY <2>21, <4>1 DEF DirectionApproved, EnterPlanning, WriteCheckpoint,
              EarlyCheckpoint, ApprovalInv
    <3>2. CASE UNCHANGED <<shared, notesTaken>>
      BY <2>21, <3>2 DEF DirectionApproved, EnterPlanning, WriteCheckpoint,
              EarlyCheckpoint
    <3>. QED
      BY <2>21, <3>1, <3>2 DEF DirectionApproved
  <2>22. CASE DirectionRevised
    <3>1. shared'.notes = notesTaken'
      BY <2>22 DEF DirectionRevised, TakeNote, DataTypeOK, Shared
    <3>. QED
      BY <2>22, <3>1 DEF DirectionRevised, SaveDirection, WriteCheckpoint,
            EarlyCheckpoint, ApprovalInv
  <2>23. CASE DirectionExhausted
    BY <2>23 DEF DirectionExhausted
  <2>24. CASE DirectionUnknown
    BY <2>24 DEF DirectionUnknown
  <2>25. CASE DirectionCancelled
    BY <2>25 DEF DirectionCancelled
  <2>26. CASE GateExecute
    BY <2>26
      DEF GateExecute, NextGateRound, EnterExecution, StartTasks,
          WriteCheckpoint, ExecutingCheckpoint
  <2>27. CASE GateChange
    BY <2>27 DEF GateChange, NextGateRound
  <2>28. CASE GateIgnored
    BY <2>28 DEF GateIgnored, NextGateRound
  <2>29. CASE GateCancelled
    BY <2>29 DEF GateCancelled
  <2>30. CASE AppendLedger
    BY <2>30 DEF AppendLedger
  <2>31. CASE DropCheckpoint
    BY <2>31 DEF DropCheckpoint, ClearCheckpoint
  <2>32. CASE EndCommand \/ AppendFails
    BY <2>32 DEF EndCommand, AppendFails, Forget
  <2>33. CASE UNCHANGED vars
    BY <2>33 DEF vars
  <2>. QED
    BY <2>1, <2>2, <2>3, <2>4, <2>5, <2>6, <2>7, <2>8, <2>9, <2>10, <2>11,
        <2>12, <2>13, <2>14, <2>15, <2>16, <2>17, <2>18, <2>19, <2>20, <2>21,
        <2>22, <2>23, <2>24, <2>25, <2>26, <2>27, <2>28, <2>29, <2>30, <2>31,
        <2>32, <2>33
       DEF Next, Sync, Deliver, Decide, RoleStops
<1>. QED
  BY <1>1, <1>2, DataTypeCorrect, ApprovalCorrect, PTL DEF Spec

\* The checkpoint is up to date: it is that of the plan being executed as soon
\* as anything is, it never asks for work that was recorded, and there is none
\* before.
DurableInv ==
  /\ pc \in Executing => disk.phase = "Executing" /\ disk.plan = plan
  /\ (~launched \/ pc \in BeforeExecution
        \/ disk.phase \in {"Direction", "Planning"}) =>
       began = {} /\ finished = {} /\ recorded = {} /\ answered = 0
  /\ pc = "returned" => IF outcome = "done"
                         THEN disk.phase = "Executing" /\ disk.plan = plan
                         ELSE disk.phase # "Executing" /\ began = {}
  /\ pc = "clear" /\ disk.phase = "Executing" => answered = disk.plan
  /\ began # {} => disk # NoCheckpoint \/ ledgers > 0
  /\ pc \in Executing => \A t \in pending : <<fix_round, t>> \notin recorded
  /\ disk.phase = "Executing" =>
       /\ \A t \in disk.pending : <<disk.fix_round, t>> \notin recorded
       /\ \A w \in recorded : w[1] <= disk.fix_round

\* DurableInv is inductive (given the invariants of SwarmRunProofs).
LEMMA DurableCorrect == ~WritesMayFail => (Spec => []DurableInv)
<1> SUFFICES ASSUME ~WritesMayFail PROVE Spec => []DurableInv
  OBVIOUS
<1> USE CapsAssumption, BoundsAssumption
<1>1. Init => DurableInv
  BY DEF Init, DurableInv, NoCheckpoint, Executing, BeforeExecution
<1>2. DataTypeOK /\ ApprovalInv /\ BooksInv /\ DurableInv /\ [Next]_vars
        => DurableInv'
  <2> SUFFICES ASSUME DataTypeOK, ApprovalInv, BooksInv, DurableInv,
                      [Next]_vars
               PROVE  DurableInv'
    OBVIOUS
  <2> USE DEF DurableInv, Executing, BeforeExecution, RolePhase, NoCheckpoint,
              ghostVars, workVars, diskVars, execVars
  <2>1. CASE Launch
    BY <2>1 DEF Launch, EnterRunSwarm, ApprovalInv
  <2>2. CASE Resume
    BY <2>2
      DEF Resume, EnterRunSwarm, SeedLogs, SeedNotes, ApprovalInv
  <2>3. CASE Stop
    BY <2>3 DEF Stop
  <2>4. CASE Crash
    BY <2>4 DEF Crash, Forget
  <2>5. CASE BeginRole
    BY <2>5 DEF BeginRole, ApprovalInv
  <2>6. CASE RecordTask
    <3>1. PICK t \in Task : /\ Current(t)
                         /\ pending' = pending \ {t}
                         /\ recorded' = recorded \cup {<<fix_round, t>>}
      BY <2>6 DEF RecordTask, Remaining
    <3>2. /\ pc = "record" /\ pc' = "execute"
          /\ UNCHANGED <<plan, fix_round, began, launched>>
          /\ disk' = ExecutingCheckpoint(plan, pending', logs', exec_notes',
                                         fix_round)
      BY <2>6 DEF RecordTask, WriteCheckpoint
    <3>3. launched
      BY <3>2 DEF ApprovalInv
    <3>4. \A w \in recorded : w[1] <= fix_round
      BY <3>2 DEF BooksInv, DataTypeOK, Checkpoint, Work
    <3>5. \A u \in pending' : <<fix_round, u>> \notin recorded'
      BY <3>1, <3>2
    <3>6. \A w \in recorded' : w[1] <= fix_round
      BY <3>1, <3>4 DEF DataTypeOK
    <3>7. /\ disk'.phase = "Executing" /\ disk'.plan = plan
          /\ disk'.pending = pending' /\ disk'.fix_round = fix_round
      BY <3>2 DEF ExecutingCheckpoint
    <3>. QED
      BY <3>2, <3>3, <3>5, <3>6, <3>7
  <2>7. CASE TasksDone
    BY <2>7 DEF TasksDone
  <2>8. CASE RoleFails
    BY <2>8 DEF RoleFails
  <2>9. CASE \E complete \in BOOLEAN : AcceptBrief(complete)
    BY <2>9
      DEF AcceptBrief, EndRole, SaveDirection, WriteCheckpoint,
          EarlyCheckpoint
  <2>10. CASE NextResearchRound
    BY <2>10 DEF NextResearchRound, EndRole
  <2>11. CASE AskSupplement
    BY <2>11 DEF AskSupplement, EndRole
  <2>12. CASE Conclude
    BY <2>12
      DEF Conclude, EndRole, EnterPlanning, WriteCheckpoint, EarlyCheckpoint
  <2>13. CASE ConcludeNoChanges
    BY <2>13 DEF ConcludeNoChanges, EndRole, ApprovalInv
  <2>14. CASE ConcludeBareMarker
    BY <2>14
      DEF ConcludeBareMarker, EndRole, EnterPlanning, WriteCheckpoint,
          EarlyCheckpoint
  <2>15. CASE \E n \in Task : DraftPlan(n)
    BY <2>15
      DEF DraftPlan, EndRole, PresentPlan, EnterExecution, StartTasks,
          WriteCheckpoint, ExecutingCheckpoint
  <2>16. CASE \E n \in Task : RewrittenPlan(n)
    BY <2>16 DEF RewrittenPlan, EndRole, PresentPlan
  <2>17. CASE ExecutorEnds
    BY <2>17 DEF ExecutorEnds, EndRole, ApprovalInv
  <2>18. CASE VerdictIsFinal
    BY <2>18 DEF VerdictIsFinal, EndRole
  <2>19. CASE \E k \in Task : StartFixRound(k)
    <3>1. PICK k \in Task : StartFixRound(k)
      BY <2>19
    <3>2. /\ pc = "verify" /\ pc' = "execute" /\ fix_round' = fix_round + 1
          /\ UNCHANGED <<plan, disk, began, finished, recorded, launched,
                         answered, ledgers>>
      BY <3>1 DEF StartFixRound, EndRole
    <3>3. \A w \in recorded : w[1] <= fix_round
      BY <3>2 DEF BooksInv, DataTypeOK, Checkpoint, Work
    <3>4. \A t \in pending' : <<fix_round + 1, t>> \notin recorded
      BY <3>3 DEF DataTypeOK
    <3>. QED
      BY <3>2, <3>4
  <2>20. CASE FinalAnswer
    BY <2>20 DEF FinalAnswer, EndRole
  <2>21. CASE DirectionApproved
    BY <2>21
      DEF DirectionApproved, EnterPlanning, TakeNote, WriteCheckpoint,
          EarlyCheckpoint
  <2>22. CASE DirectionRevised
    BY <2>22
      DEF DirectionRevised, TakeNote, SaveDirection, WriteCheckpoint,
          EarlyCheckpoint
  <2>23. CASE DirectionExhausted
    BY <2>23 DEF DirectionExhausted, ApprovalInv
  <2>24. CASE DirectionUnknown
    BY <2>24 DEF DirectionUnknown
  <2>25. CASE DirectionCancelled
    BY <2>25 DEF DirectionCancelled, ApprovalInv
  <2>26. CASE GateExecute
    BY <2>26
      DEF GateExecute, NextGateRound, EnterExecution, StartTasks,
          WriteCheckpoint, ExecutingCheckpoint
  <2>27. CASE GateChange
    BY <2>27 DEF GateChange, NextGateRound
  <2>28. CASE GateIgnored
    BY <2>28 DEF GateIgnored, NextGateRound
  <2>29. CASE GateCancelled
    BY <2>29 DEF GateCancelled, ApprovalInv
  <2>30. CASE AppendLedger
    BY <2>30 DEF AppendLedger, DataTypeOK, ApprovalInv
  <2>31. CASE DropCheckpoint
    BY <2>31 DEF DropCheckpoint, ClearCheckpoint, ApprovalInv
  <2>32. CASE EndCommand \/ AppendFails
    BY <2>32 DEF EndCommand, AppendFails, Forget
  <2>33. CASE UNCHANGED vars
    BY <2>33 DEF vars
  <2>. QED
    BY <2>1, <2>2, <2>3, <2>4, <2>5, <2>6, <2>7, <2>8, <2>9, <2>10, <2>11,
        <2>12, <2>13, <2>14, <2>15, <2>16, <2>17, <2>18, <2>19, <2>20, <2>21,
        <2>22, <2>23, <2>24, <2>25, <2>26, <2>27, <2>28, <2>29, <2>30, <2>31,
        <2>32, <2>33
       DEF Next, Sync, Deliver, Decide, RoleStops
<1>. QED
  BY <1>1, <1>2, DataTypeCorrect, ApprovalCorrect, BooksCorrect, PTL DEF Spec

\* UntouchedWhenNothingExecuted: a run that ends without executing has not
\* touched the project, in any of its invocations.
THEOREM NothingTouchedUnlessExecuted ==
  ~WritesMayFail => (Spec => []UntouchedWhenNothingExecuted)
<1>1. DurableInv => UntouchedWhenNothingExecuted
  BY DEF DurableInv, UntouchedWhenNothingExecuted
<1>. QED
  BY <1>1, DurableCorrect, PTL

\* RevisionNotesKept: the notes accepted at the direction gate stay in the
\* context, over any number of failures and resumes.
THEOREM NotesAreKept == ~WritesMayFail => (Spec => []RevisionNotesKept)
<1>1. NotesInv => RevisionNotesKept
  BY DEF NotesInv, RevisionNotesKept
<1>. QED
  BY <1>1, NotesCorrect, PTL

\* WorkIsAccounted: work that has begun has a checkpoint or a ledger.
THEOREM WorkIsAlwaysAccounted == ~WritesMayFail => (Spec => []WorkIsAccounted)
<1>1. DurableInv => WorkIsAccounted
  BY DEF DurableInv, WorkIsAccounted
<1>. QED
  BY <1>1, DurableCorrect, PTL

\* CompletedNeverReapplied: recorded work is not begun again by any resume.
THEOREM RecordedWorkIsNotRepeated ==
  ~WritesMayFail => (Spec => CompletedNeverReapplied)
<1>1. DurableInv => [pc = "execute" /\ ~inflight /\ inflight' =>
        \A t \in Task : Current(t) => <<fix_round, t>> \notin recorded]_vars
  BY DEF DurableInv, Current, Executing
<1>. QED
  BY <1>1, DurableCorrect, PTL DEF CompletedNeverReapplied

\* A step of the run is a step of PlanExecution or leaves its state alone.
LEMMA StepRefinement ==
  ASSUME ~WritesMayFail, DataTypeOK, ApprovalInv, BooksInv, DurableInv,
         [Next]_vars
  PROVE  [PE!Next]_(PE!vars)
<1> USE CapsAssumption, BoundsAssumption
<1> USE DEF PE!vars
<1>1. ASSUME NEW n \in Task, NEW by, EnterExecution(n, by),
             pc \in BeforeExecution, UNCHANGED <<finished, answered>>
      PROVE  PE!Next
  <2>1. disk.phase # "Executing" /\ finished = {} /\ answered = 0
    BY <1>1 DEF ApprovalInv, DurableInv
  <2>2. disk'.phase = "Executing" /\ disk'.plan = n
    BY <1>1 DEF EnterExecution, WriteCheckpoint, ExecutingCheckpoint
  <2>3. PE!Approve(n)
    BY <1>1, <2>1, <2>2 DEF PE!Approve
  <2>. QED
    BY <2>3 DEF PE!Next, PE!Task, Task
<1>2. CASE GateExecute
  <2>1. /\ EnterExecution(plan, "user") /\ pc = "plan_gate"
        /\ UNCHANGED <<finished, answered>>
    BY <1>2 DEF GateExecute, workVars
  <2>2. plan \in Task
    BY <2>1 DEF BooksInv
  <2>. QED
    BY <1>1, <2>1, <2>2 DEF BeforeExecution
<1>3. CASE \E n \in Task : DraftPlan(n)
  <2>1. PICK n \in Task : DraftPlan(n)
    BY <1>3
  <2>2. PresentPlan(n) \/ EnterExecution(n, "settings")
    BY <2>1 DEF DraftPlan
  <2>3. pc = "planning" /\ UNCHANGED <<finished, answered>>
    BY <2>1 DEF DraftPlan, EndRole, workVars
  <2>4. CASE PresentPlan(n)
    BY <2>3, <2>4 DEF PresentPlan
  <2>5. CASE EnterExecution(n, "settings")
    BY <1>1, <2>3, <2>5 DEF BeforeExecution
  <2>. QED
    BY <2>2, <2>4, <2>5
<1>4. CASE ExecutorEnds
  <2>1. PICK t \in Task : /\ Current(t)
                          /\ finished' = finished \cup {<<fix_round, t>>}
    BY <1>4 DEF ExecutorEnds
  <2>2. pc = "execute" /\ UNCHANGED <<disk, answered>>
    BY <1>4 DEF ExecutorEnds, EndRole, diskVars
  <2>3. disk.phase = "Executing" /\ disk.plan = plan
    BY <2>2 DEF DurableInv, Executing
  <2>4. /\ Books(plan, pending, logs, exec_notes, fix_round, finished)
        /\ plan \in Task
    BY <2>2 DEF BooksInv, Executing
  <2>5. t \in pending /\ \A u \in pending : t <= u
    BY <2>1 DEF Current
  <2>6. \A u \in 1..(t - 1) : <<fix_round, u>> \in finished
    <3> SUFFICES ASSUME NEW u \in 1..(t - 1) PROVE <<fix_round, u>> \in finished
      OBVIOUS
    <3>1. u \in 1..t /\ ~(t <= u)
      BY DEF Task
    <3>. QED
      BY <2>4, <2>5, <3>1 DEF Books
  <2>7. fix_round \in 0..MAX_FIX_ROUNDS
    BY DEF DataTypeOK
  <2>8. CASE fix_round = 0
    <3>1. t \in 1..plan
      BY <2>4, <2>5, <2>8 DEF Books
    <3>2. PE!ApplyPlanTask(t)
      BY <2>1, <2>2, <2>3, <2>6, <2>8, <3>1 DEF PE!ApplyPlanTask
    <3>. QED
      BY <3>2 DEF PE!Next, PE!Task, Task
  <2>9. CASE fix_round # 0
    <3>1. \A u \in 1..plan : <<0, u>> \in finished
      BY <2>4, <2>9 DEF Books
    <3>2. PE!PlanDone
      BY <2>3, <2>4, <3>1 DEF PE!PlanDone, Task
    <3>3. PE!ApplyFix(fix_round, t)
      BY <2>1, <2>2, <2>6, <3>2 DEF PE!ApplyFix
    <3>4. fix_round \in 1..MAX_FIX_ROUNDS
      BY <2>7, <2>9
    <3>. QED
      BY <3>3, <3>4 DEF PE!Next, PE!Task, Task
  <2>. QED
    BY <2>8, <2>9
<1>5. CASE AppendLedger
  <2>1. pc = "returned" /\ UNCHANGED <<disk, finished>>
    BY <1>5 DEF AppendLedger, workVars
  <2>2. CASE outcome = "done"
    <3>1. disk.phase = "Executing" /\ disk.plan = plan /\ answered' = plan
      BY <1>5, <2>1, <2>2 DEF AppendLedger, DurableInv
    <3>2. /\ Books(disk.plan, disk.pending, disk.logs, disk.exec_notes,
                   disk.fix_round, finished)
          /\ plan \in Task
      BY <3>1 DEF BooksInv
    <3>3. PE!PlanDone
      BY <2>1, <2>2, <3>1, <3>2 DEF BooksInv, PE!PlanDone, Task
    <3>4. PE!Answer
      BY <2>1, <3>1, <3>3 DEF PE!Answer
    <3>. QED
      BY <3>4 DEF PE!Next
  <2>3. CASE outcome # "done"
    BY <1>5, <2>1, <2>3 DEF AppendLedger
  <2>. QED
    BY <2>2, <2>3
<1>6. CASE DropCheckpoint
  <2>1. /\ pc = "clear" /\ disk' = NoCheckpoint
        /\ UNCHANGED <<finished, answered>>
    BY <1>6 DEF DropCheckpoint, ClearCheckpoint, ghostVars, workVars
  <2>. QED
    BY <2>1 DEF DurableInv, NoCheckpoint
<1>7. CASE RecordTask
  <2>1. /\ pc = "record" /\ UNCHANGED <<finished, answered>>
        /\ disk' = ExecutingCheckpoint(plan, pending', logs', exec_notes',
                                       fix_round)
    BY <1>7 DEF RecordTask, WriteCheckpoint
  <2>. QED
    BY <2>1 DEF DurableInv, Executing, ExecutingCheckpoint
<1>8. CASE \/ \E complete \in BOOLEAN : AcceptBrief(complete)
           \/ Conclude \/ ConcludeBareMarker
           \/ DirectionApproved \/ DirectionRevised
  <2>1. pc \in BeforeExecution
    BY <1>8 DEF AcceptBrief, Conclude, ConcludeBareMarker, DirectionApproved,
                DirectionRevised, EndRole, BeforeExecution
  <2>2. disk' = disk \/ disk'.phase # "Executing"
    BY <1>8 DEF AcceptBrief, Conclude, ConcludeBareMarker, DirectionApproved,
                DirectionRevised, EnterPlanning, SaveDirection, WriteCheckpoint,
                EarlyCheckpoint
  <2>3. UNCHANGED <<finished, answered>>
    BY <1>8 DEF AcceptBrief, Conclude, ConcludeBareMarker, DirectionApproved,
                DirectionRevised, ghostVars, workVars
  <2>. QED
    BY <2>1, <2>2, <2>3 DEF ApprovalInv
<1>9. CASE \/ Launch \/ Resume \/ Stop \/ Crash \/ BeginRole \/ TasksDone
           \/ RoleFails \/ NextResearchRound \/ AskSupplement
           \/ ConcludeNoChanges \/ \E n \in Task : RewrittenPlan(n)
           \/ VerdictIsFinal \/ \E k \in Task : StartFixRound(k)
           \/ FinalAnswer \/ DirectionExhausted \/ DirectionUnknown
           \/ DirectionCancelled \/ GateChange \/ GateIgnored
           \/ GateCancelled \/ AppendFails \/ EndCommand \/ UNCHANGED vars
  <2>1. UNCHANGED <<disk, finished, answered>>
    BY <1>9 DEF Launch, Resume, Stop, Crash, BeginRole, TasksDone, RoleFails,
           NextResearchRound, AskSupplement, ConcludeNoChanges, RewrittenPlan,
           PresentPlan, VerdictIsFinal, StartFixRound, FinalAnswer,
           DirectionExhausted, DirectionUnknown, DirectionCancelled,
           GateChange, GateIgnored, GateCancelled, AppendFails, EndCommand,
           vars, diskVars, ghostVars, workVars
  <2>. QED
    BY <2>1
<1>. QED
  BY <1>2, <1>3, <1>4, <1>5, <1>6, <1>7, <1>8, <1>9
  DEF Next, Sync, Deliver, Decide, RoleStops

\* The run implements PlanExecution: its crashes, failures and resumes make up
\* one uninterrupted, ordered execution of one approved plan.
THEOREM RunImplementsPlanExecution ==
  ~WritesMayFail => (Spec => ImplementsPlanExecution)
<1> SUFFICES ASSUME ~WritesMayFail PROVE Spec => ImplementsPlanExecution
  OBVIOUS
<1>1. Init => PE!Init
  BY DEF Init, PE!Init, NoCheckpoint
<1>2. DataTypeOK /\ ApprovalInv /\ BooksInv /\ DurableInv /\ [Next]_vars
        => [PE!Next]_(PE!vars)
  BY StepRefinement
<1>. QED
  BY <1>1, <1>2, DataTypeCorrect, ApprovalCorrect, BooksCorrect,
     DurableCorrect,
     PTL DEF Spec, ImplementsPlanExecution, PE!Spec

-----------------------------------------------------------------------------
(* An invocation cannot go round for ever.                                 *)

\* Six numbers, the first that changes counts: how far the run is; rounds of
\* its part left; how far the round is; supplements or tasks of the round left;
\* how far the role loop of the step is; Stops left.
Part ==
  CASE pc = "research" -> 9 [] pc \in {"direction", "direction_gate"} -> 8
    [] pc = "planning" -> 7 [] pc \in {"plan_gate", "gate_rewrite"} -> 6
    [] pc \in {"execute", "record", "verify"} -> 5 [] pc = "final" -> 4
    [] pc = "returned" -> 3 [] pc = "clear" -> 2
    [] pc \in {"transcript", "failed"} -> 1 [] pc = "idle" -> 0
RoundsToGo ==
  CASE pc = "research" -> MAX_RLM_ROUNDS - rlm_round
    [] pc \in {"direction", "direction_gate"} ->
         IF direction_revisions < MAX_DIRECTION_REVISIONS
         THEN MAX_DIRECTION_REVISIONS - direction_revisions ELSE 0
    [] pc \in {"plan_gate", "gate_rewrite"} -> MAX_PLAN_GATE_ROUNDS - gate_rounds
    [] pc \in {"execute", "record", "verify"} -> MAX_FIX_ROUNDS - fix_round
    [] OTHER -> 0
PlaceInRound == IF pc \in {"direction", "gate_rewrite", "execute", "record"} THEN 1 ELSE 0
WorkToGo ==
  CASE pc = "direction" -> MAX_THINKER_RESEARCH_REQUESTS - research_requests
    [] pc \in {"execute", "record"} -> Cardinality(pending)
    [] OTHER -> 0
PlaceInStep == IF pc = "record" THEN 0 ELSE IF inflight THEN 1 ELSE 2
StopsToGo == IF cancel THEN 0 ELSE 1
Rank == <<Part, RoundsToGo, PlaceInRound, WorkToGo, PlaceInStep, StopsToGo>>

Below(a, b) == \E k \in 1..6 : a[k] < b[k] /\ \A j \in 1..(k - 1) : a[j] = b[j]
RankIsNat == \A k \in 1..6 : Rank[k] \in Nat

\* A new invocation; and the decision that a user may repeat for ever.
Invoked == Launch \/ Resume
Idle == GateIgnored /\ gate_rounds = MAX_PLAN_GATE_ROUNDS

\* What the order means for the rank.
LEMMA BelowIs ==
  ASSUME \/ Part' < Part
         \/ Part' = Part /\ RoundsToGo' < RoundsToGo
         \/ Part' = Part /\ RoundsToGo' = RoundsToGo /\ PlaceInRound' < PlaceInRound
         \/ /\ Part' = Part /\ RoundsToGo' = RoundsToGo /\ PlaceInRound' = PlaceInRound
            /\ WorkToGo' < WorkToGo
         \/ /\ Part' = Part /\ RoundsToGo' = RoundsToGo /\ PlaceInRound' = PlaceInRound
            /\ WorkToGo' = WorkToGo /\ PlaceInStep' < PlaceInStep
         \/ /\ Part' = Part /\ RoundsToGo' = RoundsToGo /\ PlaceInRound' = PlaceInRound
            /\ WorkToGo' = WorkToGo /\ PlaceInStep' = PlaceInStep /\ StopsToGo' < StopsToGo
  PROVE  Below(Rank', Rank)
<1> DEFINE a == Rank'
           b == Rank
<1>1. /\ a[1] = Part' /\ a[2] = RoundsToGo' /\ a[3] = PlaceInRound' /\ a[4] = WorkToGo'
      /\ a[5] = PlaceInStep' /\ a[6] = StopsToGo'
      /\ b[1] = Part /\ b[2] = RoundsToGo /\ b[3] = PlaceInRound /\ b[4] = WorkToGo
      /\ b[5] = PlaceInStep /\ b[6] = StopsToGo
  BY DEF Rank
<1> HIDE DEF a, b
<1>2. \E k \in 1..6 : a[k] < b[k] /\ \A j \in 1..(k - 1) : a[j] = b[j]
  <2>1. CASE Part' < Part
    <3>1. a[1] < b[1] /\ \A j \in 1..(1 - 1) : a[j] = b[j]
      BY <1>1, <2>1
    <3>. QED
      BY <3>1
  <2>2. CASE Part' = Part /\ RoundsToGo' < RoundsToGo
    <3>1. a[2] < b[2] /\ \A j \in 1..(2 - 1) : a[j] = b[j]
      BY <1>1, <2>2
    <3>. QED
      BY <3>1
  <2>3. CASE Part' = Part /\ RoundsToGo' = RoundsToGo /\ PlaceInRound' < PlaceInRound
    <3>1. a[3] < b[3] /\ \A j \in 1..(3 - 1) : a[j] = b[j]
      BY <1>1, <2>3
    <3>. QED
      BY <3>1
  <2>4. CASE /\ Part' = Part /\ RoundsToGo' = RoundsToGo /\ PlaceInRound' = PlaceInRound
             /\ WorkToGo' < WorkToGo
    <3>1. a[4] < b[4] /\ \A j \in 1..(4 - 1) : a[j] = b[j]
      BY <1>1, <2>4
    <3>. QED
      BY <3>1
  <2>5. CASE /\ Part' = Part /\ RoundsToGo' = RoundsToGo /\ PlaceInRound' = PlaceInRound
             /\ WorkToGo' = WorkToGo /\ PlaceInStep' < PlaceInStep
    <3>1. a[5] < b[5] /\ \A j \in 1..(5 - 1) : a[j] = b[j]
      BY <1>1, <2>5
    <3>. QED
      BY <3>1
  <2>6. CASE /\ Part' = Part /\ RoundsToGo' = RoundsToGo /\ PlaceInRound' = PlaceInRound
             /\ WorkToGo' = WorkToGo /\ PlaceInStep' = PlaceInStep /\ StopsToGo' < StopsToGo
    <3>1. a[6] < b[6] /\ \A j \in 1..(6 - 1) : a[j] = b[j]
      BY <1>1, <2>6
    <3>. QED
      BY <3>1
  <2>. QED
    BY <2>1, <2>2, <2>3, <2>4, <2>5, <2>6
<1>. QED
  BY <1>2 DEF Below, a, b

\* Where the run is, by place, here and after a step.
LEMMA PartIs ==
  /\ pc = "research" => Part = 9
  /\ pc \in {"direction", "direction_gate"} => Part = 8
  /\ pc = "planning" => Part = 7
  /\ pc \in {"plan_gate", "gate_rewrite"} => Part = 6
  /\ pc \in {"execute", "record", "verify"} => Part = 5
  /\ pc = "final" => Part = 4
  /\ pc = "returned" => Part = 3
  /\ pc = "clear" => Part = 2
  /\ pc \in {"transcript", "failed"} => Part = 1
  /\ pc = "idle" => Part = 0
  /\ pc' = "research" => Part' = 9
  /\ pc' \in {"direction", "direction_gate"} => Part' = 8
  /\ pc' = "planning" => Part' = 7
  /\ pc' \in {"plan_gate", "gate_rewrite"} => Part' = 6
  /\ pc' \in {"execute", "record", "verify"} => Part' = 5
  /\ pc' = "final" => Part' = 4
  /\ pc' = "returned" => Part' = 3
  /\ pc' = "clear" => Part' = 2
  /\ pc' \in {"transcript", "failed"} => Part' = 1
  /\ pc' = "idle" => Part' = 0
BY DEF Part

\* The rounds that are left, by place.
LEMMA RoundsToGoIs ==
  /\ pc = "research" => RoundsToGo = MAX_RLM_ROUNDS - rlm_round
  /\ pc \in {"direction", "direction_gate"} =>
       RoundsToGo = IF direction_revisions < MAX_DIRECTION_REVISIONS
                    THEN MAX_DIRECTION_REVISIONS - direction_revisions ELSE 0
  /\ pc \in {"plan_gate", "gate_rewrite"} => RoundsToGo = MAX_PLAN_GATE_ROUNDS - gate_rounds
  /\ pc \in {"execute", "record", "verify"} => RoundsToGo = MAX_FIX_ROUNDS - fix_round
  /\ pc \in AfterRun \cup {"idle", "planning", "final"} => RoundsToGo = 0
  /\ pc' = "research" => RoundsToGo' = MAX_RLM_ROUNDS - rlm_round'
  /\ pc' \in {"direction", "direction_gate"} =>
       RoundsToGo' = IF direction_revisions' < MAX_DIRECTION_REVISIONS
                     THEN MAX_DIRECTION_REVISIONS - direction_revisions' ELSE 0
  /\ pc' \in {"plan_gate", "gate_rewrite"} => RoundsToGo' = MAX_PLAN_GATE_ROUNDS - gate_rounds'
  /\ pc' \in {"execute", "record", "verify"} => RoundsToGo' = MAX_FIX_ROUNDS - fix_round'
BY DEF RoundsToGo, AfterRun

\* Tasks can be counted.
LEMMA TasksAreFinite ==
  ASSUME NEW S \in SUBSET Task
  PROVE  /\ Cardinality(S) \in Nat
         /\ \A t \in S : Cardinality(S \ {t}) < Cardinality(S)
<1>1. IsFiniteSet(Task)
  BY BoundsAssumption, FS_Interval DEF Task
<1>2. IsFiniteSet(S)
  BY <1>1, FS_Subset
<1>3. Cardinality(S) \in Nat
  BY <1>2, FS_CardinalityType
<1>4. \A t \in S : Cardinality(S \ {t}) = Cardinality(S) - 1
  BY <1>2, FS_RemoveElement
<1>. QED
  BY <1>3, <1>4

\* Each step takes something from the first number it changes.
LEMMA StepFalls ==
  ASSUME DataTypeOK, FlagsTypeOK, Next, ~Invoked, ~Idle
  PROVE  Below(Rank', Rank)
<1>0. /\ rlm_round \in Nat /\ MAX_RLM_ROUNDS \in Nat
      /\ research_requests \in Nat /\ MAX_THINKER_RESEARCH_REQUESTS \in Nat
      /\ direction_revisions \in Nat /\ MAX_DIRECTION_REVISIONS \in Nat
      /\ gate_rounds \in 0..MAX_PLAN_GATE_ROUNDS /\ MAX_PLAN_GATE_ROUNDS \in Nat
      /\ fix_round \in Nat /\ MAX_FIX_ROUNDS \in Nat
      /\ pending \in SUBSET Task
      /\ pc \in {"research", "direction", "planning", "gate_rewrite", "execute", "verify",
                 "final", "direction_gate", "plan_gate", "record", "returned", "clear",
                 "transcript", "failed", "idle"}
      /\ inflight \in BOOLEAN
  BY CapsAssumption DEF DataTypeOK, FlagsTypeOK, InRunSwarm, RolePhase, Gate, AfterRun
<1> USE DEF counterVars, controlVars, execVars
<1>1. ASSUME Part' < Part PROVE Below(Rank', Rank)
  BY <1>1, BelowIs
<1>2. ASSUME UNCHANGED <<pc, rlm_round, direction_revisions, gate_rounds, fix_round>>
      PROVE  Part' = Part /\ RoundsToGo' = RoundsToGo /\ PlaceInRound' = PlaceInRound
  BY <1>2 DEF Part, RoundsToGo, PlaceInRound
<1>3. ASSUME UNCHANGED <<pc, research_requests, pending>> PROVE WorkToGo' = WorkToGo
  BY <1>3 DEF WorkToGo
<1>4. ASSUME Part' = Part, RoundsToGo' < RoundsToGo PROVE Below(Rank', Rank)
  BY <1>4, BelowIs
<1>5. ASSUME Forget, pc # "idle" PROVE Below(Rank', Rank)
  BY <1>0, <1>1, <1>5, PartIs DEF Forget
<1>6. ASSUME pc \in RolePhase \cup Gate, pc' \in {"returned", "failed"} PROVE Below(Rank', Rank)
  BY <1>1, <1>6, PartIs DEF RolePhase, Gate
<1>7. CASE Stop
  <2>1. StopsToGo' < StopsToGo
    BY <1>7 DEF Stop, StopsToGo
  <2>2. PlaceInStep' = PlaceInStep
    BY <1>7 DEF Stop, PlaceInStep
  <2>3. UNCHANGED <<pc, rlm_round, direction_revisions, gate_rounds, fix_round,
                    research_requests, pending>>
    BY <1>7 DEF Stop
  <2>. QED
    BY <1>2, <1>3, <2>1, <2>2, <2>3, BelowIs
<1>8. CASE Crash
  BY <1>5, <1>8 DEF Crash
<1>9. CASE BeginRole
  <2>1. pc \in RolePhase /\ pc' = pc /\ ~inflight /\ inflight'
    BY <1>9 DEF BeginRole
  <2>2. PlaceInStep' < PlaceInStep
    BY <2>1 DEF PlaceInStep, RolePhase
  <2>3. UNCHANGED <<pc, rlm_round, direction_revisions, gate_rounds, fix_round,
                    research_requests, pending>>
    BY <1>9 DEF BeginRole
  <2>. QED
    BY <1>2, <1>3, <2>2, <2>3, BelowIs
<1>10. CASE RecordTask
  <2>1. PICK t \in Task : t \in pending /\ pending' = pending \ {t}
    BY <1>10 DEF RecordTask, Remaining, Current
  <2>2. Cardinality(pending') < Cardinality(pending)
    BY <1>0, <2>1, TasksAreFinite
  <2>3. pc = "record" /\ pc' = "execute" /\ fix_round' = fix_round
    BY <1>10 DEF RecordTask
  <2>4. Part' = Part /\ RoundsToGo' = RoundsToGo
    BY <2>3, PartIs, RoundsToGoIs
  <2>5. PlaceInRound' = PlaceInRound /\ WorkToGo' < WorkToGo
    BY <2>2, <2>3 DEF PlaceInRound, WorkToGo
  <2>. QED
    BY <2>4, <2>5, BelowIs
<1>11. CASE TasksDone
  <2>1. pc = "execute" /\ pc' = "verify" /\ fix_round' = fix_round
    BY <1>11 DEF TasksDone
  <2>2. Part' = Part /\ RoundsToGo' = RoundsToGo
    BY <2>1, PartIs, RoundsToGoIs
  <2>3. PlaceInRound' < PlaceInRound
    BY <2>1 DEF PlaceInRound
  <2>. QED
    BY <2>2, <2>3, BelowIs
<1>12. CASE RoleFails
  BY <1>6, <1>12 DEF RoleFails
<1>13. ASSUME NEW complete \in BOOLEAN, AcceptBrief(complete) PROVE Below(Rank', Rank)
  BY <1>1, <1>13, PartIs DEF AcceptBrief, EndRole
<1>14. CASE NextResearchRound
  <2>1. pc = "research" /\ pc' = pc /\ rlm_round' = rlm_round + 1
    BY <1>14 DEF NextResearchRound, EndRole
  <2>2. Part' = Part /\ RoundsToGo' < RoundsToGo
    BY <1>0, <2>1, PartIs, RoundsToGoIs
  <2>. QED
    BY <1>4, <2>2
<1>15. CASE AskSupplement
  <2>1. /\ pc = "direction" /\ research_requests' = research_requests + 1
        /\ UNCHANGED <<pc, rlm_round, direction_revisions, gate_rounds, fix_round>>
    BY <1>15 DEF AskSupplement, EndRole
  <2>2. WorkToGo' < WorkToGo
    BY <1>0, <2>1 DEF WorkToGo
  <2>. QED
    BY <1>2, <2>1, <2>2, BelowIs
<1>16. CASE Conclude \/ ConcludeBareMarker
  <2>1. /\ pc = "direction" /\ direction_revisions' = direction_revisions
        /\ pc' \in {"direction_gate", "planning"}
    BY <1>16 DEF Conclude, ConcludeBareMarker, EndRole, EnterPlanning
  <2>2. CASE pc' = "direction_gate"
    <3>1. Part' = Part /\ RoundsToGo' = RoundsToGo
      BY <2>1, <2>2, PartIs, RoundsToGoIs
    <3>2. PlaceInRound' < PlaceInRound
      BY <2>1, <2>2 DEF PlaceInRound
    <3>. QED
      BY <3>1, <3>2, BelowIs
  <2>3. CASE pc' = "planning"
    BY <1>1, <2>1, <2>3, PartIs
  <2>. QED
    BY <2>1, <2>2, <2>3
<1>17. CASE ConcludeNoChanges
  BY <1>6, <1>17 DEF ConcludeNoChanges, EndRole, RolePhase
<1>18. ASSUME NEW n \in Task, DraftPlan(n) PROVE Below(Rank', Rank)
  <2>1. pc = "planning" /\ pc' \in {"plan_gate", "execute"}
    BY <1>18 DEF DraftPlan, EndRole, PresentPlan, EnterExecution, StartTasks
  <2>. QED
    BY <1>1, <2>1, PartIs
<1>19. ASSUME NEW n \in Task, RewrittenPlan(n) PROVE Below(Rank', Rank)
  <2>1. pc = "gate_rewrite" /\ pc' = "plan_gate" /\ gate_rounds' = gate_rounds
    BY <1>19 DEF RewrittenPlan, EndRole, PresentPlan
  <2>2. Part' = Part /\ RoundsToGo' = RoundsToGo
    BY <2>1, PartIs, RoundsToGoIs
  <2>3. PlaceInRound' < PlaceInRound
    BY <2>1 DEF PlaceInRound
  <2>. QED
    BY <2>2, <2>3, BelowIs
<1>20. CASE ExecutorEnds
  <2>1. /\ pc = "execute" /\ pc' = "record" /\ inflight
        /\ UNCHANGED <<fix_round, pending>>
    BY <1>20 DEF ExecutorEnds, EndRole
  <2>2. Part' = Part /\ RoundsToGo' = RoundsToGo
    BY <2>1, PartIs, RoundsToGoIs
  <2>3. PlaceInRound' = PlaceInRound /\ WorkToGo' = WorkToGo /\ PlaceInStep' < PlaceInStep
    BY <2>1 DEF PlaceInRound, WorkToGo, PlaceInStep
  <2>. QED
    BY <2>2, <2>3, BelowIs
<1>21. CASE VerdictIsFinal
  BY <1>1, <1>21, PartIs DEF VerdictIsFinal, EndRole
<1>22. ASSUME NEW k \in Task, StartFixRound(k) PROVE Below(Rank', Rank)
  <2>1. pc = "verify" /\ pc' = "execute" /\ fix_round' = fix_round + 1
    BY <1>22 DEF StartFixRound, EndRole
  <2>2. Part' = Part /\ RoundsToGo' < RoundsToGo
    BY <1>0, <2>1, PartIs, RoundsToGoIs
  <2>. QED
    BY <1>4, <2>2
<1>23. CASE FinalAnswer
  BY <1>6, <1>23 DEF FinalAnswer, EndRole, RolePhase
<1>24. CASE DirectionApproved
  BY <1>1, <1>24, PartIs DEF DirectionApproved, EnterPlanning
<1>25. CASE DirectionRevised
  <2>1. /\ pc = "direction_gate" /\ pc' = "direction"
        /\ direction_revisions' = direction_revisions + 1
        /\ direction_revisions + 1 < MAX_DIRECTION_REVISIONS
    BY <1>25 DEF DirectionRevised
  <2>2. Part' = Part /\ RoundsToGo' < RoundsToGo
    BY <1>0, <2>1, PartIs, RoundsToGoIs
  <2>. QED
    BY <1>4, <2>2
<1>26. CASE DirectionExhausted \/ DirectionUnknown \/ DirectionCancelled \/ GateCancelled
  BY <1>6, <1>26 DEF DirectionExhausted, DirectionUnknown, DirectionCancelled, GateCancelled, Gate
<1>27. CASE GateExecute
  BY <1>1, <1>27, PartIs DEF GateExecute, EnterExecution, StartTasks
<1>28. CASE GateChange \/ GateIgnored
  <2>1. gate_rounds < MAX_PLAN_GATE_ROUNDS
    BY <1>0, <1>28 DEF GateChange, Idle
  <2>2. pc = "plan_gate" /\ pc' \in {"plan_gate", "gate_rewrite"} /\ gate_rounds' = gate_rounds + 1
    BY <1>28, <2>1 DEF GateChange, GateIgnored, NextGateRound
  <2>3. Part' = Part /\ RoundsToGo' < RoundsToGo
    BY <1>0, <2>2, PartIs, RoundsToGoIs
  <2>. QED
    BY <1>4, <2>3
<1>29. CASE AppendLedger
  BY <1>1, <1>29, PartIs DEF AppendLedger
<1>30. CASE DropCheckpoint
  BY <1>1, <1>30, PartIs DEF DropCheckpoint
<1>31. CASE EndCommand \/ AppendFails
  BY <1>5, <1>31 DEF EndCommand, AppendFails
<1>. QED
  BY <1>7, <1>8, <1>9, <1>10, <1>11, <1>12, <1>13, <1>14, <1>15, <1>16, <1>17, <1>18, <1>19,
     <1>20, <1>21, <1>22, <1>23, <1>24, <1>25, <1>26, <1>27, <1>28, <1>29, <1>30, <1>31
     DEF Next, Sync, Deliver, Decide, RoleStops, Invoked

\* The numbers are natural, so that they cannot fall for ever.
LEMMA RankNat == DataTypeOK /\ FlagsTypeOK => RankIsNat
<1> SUFFICES ASSUME DataTypeOK, FlagsTypeOK, NEW k \in 1..6 PROVE Rank[k] \in Nat
  BY DEF RankIsNat
<1>1. /\ rlm_round \in 0..(MAX_RLM_ROUNDS - 1) /\ MAX_RLM_ROUNDS \in Nat
      /\ research_requests \in 0..MAX_THINKER_RESEARCH_REQUESTS
      /\ MAX_THINKER_RESEARCH_REQUESTS \in Nat
      /\ direction_revisions \in Nat /\ MAX_DIRECTION_REVISIONS \in Nat
      /\ gate_rounds \in 0..MAX_PLAN_GATE_ROUNDS /\ MAX_PLAN_GATE_ROUNDS \in Nat
      /\ fix_round \in 0..MAX_FIX_ROUNDS /\ MAX_FIX_ROUNDS \in Nat
      /\ pending \in SUBSET Task
      /\ pc \in {"research", "direction", "planning", "gate_rewrite", "execute", "verify",
                 "final", "direction_gate", "plan_gate", "record", "returned", "clear",
                 "transcript", "failed", "idle"}
  BY CapsAssumption DEF DataTypeOK, InRunSwarm, RolePhase, Gate, AfterRun
<1>2. Part \in Nat
  BY <1>1, PartIs
<1>3. RoundsToGo \in Nat
  BY <1>1, RoundsToGoIs DEF AfterRun
<1>4. WorkToGo \in Nat
  BY <1>1, TasksAreFinite DEF WorkToGo
<1>5. PlaceInRound \in Nat /\ PlaceInStep \in Nat /\ StopsToGo \in Nat
  BY DEF PlaceInRound, PlaceInStep, StopsToGo
<1>6. \A x1, x2, x3, x4, x5, x6 \in Nat : <<x1, x2, x3, x4, x5, x6>>[k] \in Nat
  OBVIOUS
<1>. QED
  BY <1>2, <1>3, <1>4, <1>5, <1>6 DEF Rank

\* Whatever the roles deliver, the reviewers find and the user decides, every
\* step of an invocation of run_swarm and of the command around it brings it
\* nearer its end, a crash included: no order of research rounds, supplements,
\* revisions, gate changes, tasks and fix rounds comes back to where it was,
\* whatever the caps.  Only a user who keeps asking the gate for what it no
\* longer offers goes round.
THEOREM RunAdvances == Spec => []RankIsNat /\ [][Below(Rank', Rank) \/ Invoked \/ Idle]_vars
<1>1. DataTypeOK /\ FlagsTypeOK /\ [Next]_vars => [Below(Rank', Rank) \/ Invoked \/ Idle]_vars
  BY StepFalls
<1>. QED
  BY <1>1, RankNat, DataTypeCorrect, FlagsTypeCorrect, PTL DEF Spec

=============================================================================
