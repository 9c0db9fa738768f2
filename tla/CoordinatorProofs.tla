--------------------------- MODULE CoordinatorProofs ---------------------------
(***************************************************************************)
(* Proofs about Coordinator, for every cap of its loops: types and caps,   *)
(* and what the ledger, the cache and the conversation may hold after      *)
(* delegations in any order.                                               *)
(***************************************************************************)
EXTENDS Coordinator, TLAPS

\* The review of the ledger is the one of the executions so far.
ReviewIsCurrent ==
  \/ VerdictFits /\ ledger.review = [verdict |-> said, notes |-> executed]
  \/ ~VerdictFits /\ ledger.review = [verdict |-> CutOff, notes |-> exec_notes.kept]

\* As long as the notes fit the ledger's room, there is one of every executed task.
NotesInv == Fits(exec_notes.chars) => exec_notes.kept = executed
\* The ledger is behind the executor only inside an execution, or when the run
\* failed there.
ReviewInv == pc \notin {"tasks", "failed"} /\ executed > 0 => ReviewIsCurrent
\* What a phase may have left behind at any time.
Core == CoTypeOK /\ DelegationsAnswered /\ OnlyAuditedResearchCached
CoInv == Core /\ NotesInv /\ ReviewInv

\* A coordinator starts with nothing, or with a cache that was audited.
LEMMA CoInvInit == Init => CoInv
<1> SUFFICES ASSUME Init PROVE CoInv
  OBVIOUS
<1> USE DEF Init, NoCache, NoReview, NoPlan, Audits, Digests, Verdicts, None, NoBrief
<1>1. CoTypeOK
  <2>1. 0 \in 0..MAX_COORDINATOR_TURNS /\ 0 \in 0..MaxTasks
    BY CoordinatorAssumption
  <2>2. draft \in [from : {None, "draft"}, tasks : 0..MaxTasks] /\ plan = draft
    BY <2>1
  <2>3. cache \in [audit : Audits \cup {None}, digest : Digests \cup {None}]
    OBVIOUS
  <2>4. ledger \in [digest : Digests \cup {None},
                    review : [verdict : Verdicts \cup {CutOff}, notes : Nat]]
    OBVIOUS
  <2>5. QED
    BY <2>1, <2>2, <2>3, <2>4 DEF CoTypeOK, Phases
<1>2. QED
  BY <1>1 DEF CoInv, Core, NotesInv, ReviewInv, DelegationsAnswered, OnlyAuditedResearchCached

\* One more note: if all fit, it is among those kept.
LEMMA NotedIs ==
  ASSUME exec_notes \in [chars : Nat, kept : Nat], NEW n \in 1..MaxNote
  PROVE  /\ Noted(n) \in [chars : Nat, kept : Nat]
         /\ Fits(Noted(n).chars) =>
              Fits(exec_notes.chars) /\ Noted(n).kept = exec_notes.kept + 1
<1>1. PICK c \in Nat, k \in Nat : exec_notes = [chars |-> c, kept |-> k]
  OBVIOUS
<1>2. \/ Fits(c + n) /\ Noted(n) = [chars |-> c + n, kept |-> k + 1]
      \/ ~Fits(c + n) /\ Noted(n) = [chars |-> LEDGER_EXEC_CHARS + 1, kept |-> k]
  BY <1>1 DEF Noted
<1>3. QED
  BY <1>1, <1>2, CoordinatorAssumption DEF Fits

\* Types, answers and cache: one step per handler.
LEMMA CoreStep == Core /\ [Next]_cvars => Core'
<1> SUFFICES ASSUME Core, [Next]_cvars PROVE Core'
  OBVIOUS
<1> USE CoordinatorAssumption
    DEF Core, CoTypeOK, DelegationsAnswered, OnlyAuditedResearchCached,
        recordVars, phaseVars, Concludes, Working, None
<1>1. ASSUME NEW p \in Phases, Delegate(p) PROVE Core'
  BY <1>1 DEF Delegate, MayTurn, Phases, Audits, Digests, Verdicts, NoBrief, NoPlan,
     NoCache
<1>2. ASSUME Finish PROVE Core'
  BY <1>2 DEF Finish, MayTurn, Phases, Audits, Digests, Verdicts, NoBrief, NoPlan,
     NoCache
<1>3. ASSUME Fails PROVE Core'
  BY <1>3 DEF Fails, Phases, Audits, Digests, Verdicts, NoBrief, NoPlan, NoCache
<1>4. ASSUME ReuseResearch PROVE Core'
  BY <1>4 DEF ReuseResearch, EndResearch, ResearchDigest, Returns, Complete,
     NoCache, Phases, Audits, Digests, Verdicts, NoBrief, NoPlan
<1>5. ASSUME NEW a \in Audits, Research(a) PROVE Core'
  BY <1>5 DEF Research, EndResearch, ResearchDigest, Returns, Complete, Phases,
     Audits, Digests, Verdicts, NoBrief, NoPlan, NoCache
<1>6. ASSUME Direct PROVE Core'
  BY <1>6 DEF Direct, Returns, Phases, Audits, Digests, Verdicts, NoBrief, NoPlan,
     NoCache
<1>7. ASSUME DirectNoChanges PROVE Core'
  BY <1>7 DEF DirectNoChanges, Returns, Phases, Audits, Digests, Verdicts, NoBrief,
     NoPlan, NoCache
<1>8. ASSUME DraftUnparseable PROVE Core'
  BY <1>8 DEF DraftUnparseable, EndPlanning, Returns, NoPlan, Phases, Audits,
     Digests, Verdicts, NoBrief, NoCache
<1>9. ASSUME NEW ok \in BOOLEAN, DraftPlan(ok) PROVE Core'
  BY <1>9 DEF DraftPlan, EndPlanning, Returns, NoPlan, Phases, Audits, Digests,
     Verdicts, NoBrief, NoCache
<1>10. ASSUME Execute PROVE Core'
  BY <1>10 DEF Execute, PlanToRun, NoPlan, Phases, Audits, Digests, Verdicts,
     NoBrief, NoCache
<1>11. ASSUME NEW n \in 1..MaxNote, RunTask(n) PROVE Core'
  <2>1. exec_notes' \in [chars : Nat, kept : Nat]
    BY <1>11, NotedIs DEF RunTask
  <2>2. QED
    BY <1>11, <2>1 DEF RunTask, Phases, Audits, Digests, Verdicts, NoBrief, NoPlan, NoCache
<1>12. ASSUME NEW v \in Verdicts, NEW n \in 0..MaxTasks, Review(v, n) PROVE Core'
  BY <1>12 DEF Review, EndExecution, VerdictOf, Returns, Phases, Audits, Digests,
     Verdicts, NoBrief, NoPlan, NoCache
<1>13. ASSUME Stop PROVE Core'
  BY <1>13 DEF Stop, Phases, Audits, Digests, Verdicts, NoBrief, NoPlan, NoCache
<1>14. CASE UNCHANGED cvars
  BY <1>14 DEF cvars, NoPlan, NoCache
<1>15. QED
  BY <1>1, <1>2, <1>3, <1>4, <1>5, <1>6, <1>7, <1>8, <1>9, <1>10, <1>11, <1>12,
     <1>13, <1>14 DEF Next, Step

\* A step other than of the executor or of its reviewer leaves all that a review
\* is about, and does not leave the executor alive.
LEMMA OtherStepsKeepReview ==
  ASSUME Core, [Next]_cvars, \A n \in 1..MaxNote : ~RunTask(n),
         \A v \in Verdicts, n \in 0..MaxTasks : ~Review(v, n)
  PROVE  /\ UNCHANGED <<executed, exec_notes, said>> /\ ledger'.review = ledger.review
         /\ pc' \notin {"tasks", "failed"} => pc \notin {"tasks", "failed"}
<1> USE DEF Core, CoTypeOK, recordVars, phaseVars, Concludes, Working
<1>1. ASSUME ReuseResearch \/ \E a \in Audits : Research(a)
      PROVE  /\ UNCHANGED <<executed, exec_notes, said>> /\ ledger'.review = ledger.review
             /\ pc = "research"
  <2>1. \/ ledger' = [ledger EXCEPT !.digest = ResearchDigest(brief)]
        \/ ledger' = [ledger EXCEPT !.digest = ResearchDigest("brief")]
        \/ ledger' = ledger
    BY <1>1 DEF ReuseResearch, Research, EndResearch
  <2>2. ledger'.review = ledger.review
    BY <2>1
  <2>3. QED
    BY <1>1, <2>2 DEF ReuseResearch, Research
<1>2. ASSUME \E p \in Phases : Delegate(p) PROVE UNCHANGED recordVars /\ pc = "turn"
  BY <1>2 DEF Delegate, MayTurn
<1>3. ASSUME Finish PROVE UNCHANGED recordVars /\ pc = "turn"
  BY <1>3 DEF Finish, MayTurn
<1>4. ASSUME Fails PROVE UNCHANGED recordVars /\ pc' = "failed"
  BY <1>4 DEF Fails
<1>5. ASSUME Direct \/ DirectNoChanges
      PROVE  UNCHANGED <<executed, exec_notes, said, ledger>> /\ pc = "direction"
  BY <1>5 DEF Direct, DirectNoChanges
<1>6. ASSUME DraftUnparseable \/ \E ok \in BOOLEAN : DraftPlan(ok)
      PROVE  UNCHANGED <<executed, exec_notes, said, ledger>> /\ pc = "planning"
  BY <1>6 DEF DraftUnparseable, DraftPlan
<1>7. ASSUME Execute PROVE UNCHANGED recordVars /\ pc' = "tasks"
  BY <1>7 DEF Execute
<1>8. ASSUME Stop PROVE UNCHANGED recordVars /\ pc' = pc
  BY <1>8 DEF Stop
<1>9. CASE UNCHANGED cvars
  BY <1>9 DEF cvars
<1>10. QED
  BY <1>1, <1>2, <1>3, <1>4, <1>5, <1>6, <1>7, <1>8, <1>9 DEF Next, Step

\* The verdict and the notes of the ledger, after a step.
LEMMA CoInvStep == CoInv /\ [Next]_cvars => CoInv'
<1> SUFFICES ASSUME CoInv, [Next]_cvars PROVE CoInv'
  OBVIOUS
<1>1. Core /\ Core' /\ NotesInv /\ ReviewInv
  BY CoreStep DEF CoInv
<1>2. executed \in Nat /\ exec_notes \in [chars : Nat, kept : Nat]
  BY <1>1 DEF Core, CoTypeOK
<1>3. ASSUME NEW n \in 1..MaxNote, RunTask(n) PROVE NotesInv' /\ ReviewInv'
  <2>1. exec_notes' = Noted(n) /\ executed' = executed + 1 /\ pc' = "tasks"
    BY <1>3 DEF RunTask, Concludes
  <2>2. QED
    BY <1>1, <1>2, <2>1, NotedIs DEF NotesInv, ReviewInv, Fits
<1>4. ASSUME NEW v \in Verdicts, NEW n \in 0..MaxTasks, Review(v, n) PROVE NotesInv' /\ ReviewInv'
  <2>1. UNCHANGED <<exec_notes, executed>> /\ said' = v /\ pc = "tasks" /\ VerdictFits' = VerdictFits
    BY <1>4 DEF Review, Concludes, VerdictFits
  <2>2. NotesInv'
    BY <1>1, <2>1 DEF NotesInv
  <2>3. CASE pc' = pc
    BY <2>1, <2>2, <2>3 DEF ReviewInv
  <2>4. CASE pc' # pc
    <3>1. EndExecution(v)
      BY <1>4, <2>4 DEF Review
    <3>2. ledger'.review =
            [verdict |-> IF VerdictFits THEN v ELSE CutOff, notes |-> exec_notes.kept]
      BY <1>1, <3>1 DEF EndExecution, VerdictOf, Core, CoTypeOK
    <3>3. VerdictFits => exec_notes.kept = executed
      BY <1>1, <1>2, CoordinatorAssumption DEF NotesInv, VerdictFits, Fits
    <3>4. ReviewIsCurrent'
      BY <2>1, <3>2, <3>3 DEF ReviewIsCurrent
    <3>5. QED
      BY <2>2, <3>4 DEF ReviewInv
  <2>5. QED
    BY <2>3, <2>4
<1>5. CASE /\ \A n \in 1..MaxNote : ~RunTask(n)
           /\ \A v \in Verdicts, n \in 0..MaxTasks : ~Review(v, n)
  <2>1. /\ UNCHANGED <<executed, exec_notes, said>> /\ ledger'.review = ledger.review
        /\ pc' \notin {"tasks", "failed"} => pc \notin {"tasks", "failed"}
    BY <1>1, <1>5, OtherStepsKeepReview
  <2>2. ReviewIsCurrent => ReviewIsCurrent'
    BY <2>1 DEF ReviewIsCurrent, VerdictFits, Fits
  <2>3. ASSUME pc' \notin {"tasks", "failed"}, executed' > 0 PROVE ReviewIsCurrent'
    <3>1. pc \notin {"tasks", "failed"} /\ executed > 0
      BY <2>1, <2>3
    <3>2. QED
      BY <1>1, <2>2, <3>1 DEF ReviewInv
  <2>4. ReviewInv'
    BY <2>3 DEF ReviewInv
  <2>5. NotesInv'
    BY <1>1, <2>1 DEF NotesInv, Fits
  <2>6. QED
    BY <1>1, <2>4, <2>5 DEF CoInv
<1>6. QED
  BY <1>1, <1>3, <1>4, <1>5 DEF CoInv

\* The invariant that carries the theorems.
LEMMA CoInvHolds == Spec => []CoInv
<1>1. Init => CoInv
  BY CoInvInit
<1>2. CoInv /\ [Next]_cvars => CoInv'
  BY CoInvStep
<1>3. QED
  BY <1>1, <1>2, PTL DEF Spec

\* Every variable keeps its type, and no loop passes its cap, for all caps.
THEOREM CoordinatorTypeCorrect == Spec => []CoTypeOK
<1>1. CoInv => CoTypeOK
  BY DEF CoInv, Core
<1>2. QED
  BY <1>1, CoInvHolds, PTL

\* A final answer's ledger tells of every executed task with the last verdict
\* wherever the notes leave it room, and has no verdict where they do not, for
\* any caps, any room, any plans and notes and any order of delegations.
THEOREM LedgerIsComplete == Spec => []LedgerTellsExecution
<1>1. CoInv => LedgerTellsExecution
  BY DEF CoInv, ReviewInv, ReviewIsCurrent, LedgerTellsExecution
<1>2. QED
  BY <1>1, CoInvHolds, PTL

\* The role never continues from a placeholder, whatever a phase ended with.
THEOREM DelegationsAreAnswered == Spec => []DelegationsAnswered
<1>1. CoInv => DelegationsAnswered
  BY DEF CoInv, Core
<1>2. QED
  BY <1>1, CoInvHolds, PTL

\* Research that no parsed audit found complete never enters the cache, for
\* any number of research phases and rounds.
THEOREM CacheIsAudited == Spec => []OnlyAuditedResearchCached
<1>1. CoInv => OnlyAuditedResearchCached
  BY DEF CoInv, Core
<1>2. QED
  BY <1>1, CoInvHolds, PTL

-----------------------------------------------------------------------------
(* The coordinator cannot go round for ever.                               *)

\* Five numbers, the first that changes counts: turns left; how far the turn
\* is; rounds of the phase left; tasks of the round left; Stops left.
TurnsLeft == MAX_COORDINATOR_TURNS - turn
Stage ==
  CASE pc = "turn" -> 3 [] pc = "execution" -> 2
    [] pc \in {"research", "direction", "planning", "tasks"} -> 1
    [] pc \in {"done", "failed"} -> 0
RoundCap ==
  CASE pc = "research" -> MAX_RLM_ROUNDS [] pc = "planning" -> MAX_PLAN_GATE_ROUNDS
    [] OTHER -> MAX_FIX_ROUNDS
RoundsLeft == IF round < RoundCap THEN RoundCap - round ELSE 0
StopsLeft == IF cancelled THEN 0 ELSE 1
Rank == <<TurnsLeft, Stage, RoundsLeft, todo, StopsLeft>>

Below(a, b) == \E k \in 1..5 : a[k] < b[k] /\ \A j \in 1..(k - 1) : a[j] = b[j]
RankIsNat == \A k \in 1..5 : Rank[k] \in Nat

\* What the order means for the rank.
LEMMA BelowIs ==
  ASSUME \/ TurnsLeft' < TurnsLeft
         \/ TurnsLeft' = TurnsLeft /\ Stage' < Stage
         \/ TurnsLeft' = TurnsLeft /\ Stage' = Stage /\ RoundsLeft' < RoundsLeft
         \/ /\ TurnsLeft' = TurnsLeft /\ Stage' = Stage /\ RoundsLeft' = RoundsLeft
            /\ todo' < todo
         \/ /\ TurnsLeft' = TurnsLeft /\ Stage' = Stage /\ RoundsLeft' = RoundsLeft
            /\ todo' = todo /\ StopsLeft' < StopsLeft
  PROVE  Below(Rank', Rank)
<1> DEFINE a == Rank'
           b == Rank
<1>1. /\ a[1] = TurnsLeft' /\ a[2] = Stage' /\ a[3] = RoundsLeft' /\ a[4] = todo' /\ a[5] = StopsLeft'
      /\ b[1] = TurnsLeft /\ b[2] = Stage /\ b[3] = RoundsLeft /\ b[4] = todo /\ b[5] = StopsLeft
  BY DEF Rank
<1> HIDE DEF a, b
<1>2. \E k \in 1..5 : a[k] < b[k] /\ \A j \in 1..(k - 1) : a[j] = b[j]
  <2>1. CASE TurnsLeft' < TurnsLeft
    <3>1. a[1] < b[1] /\ \A j \in 1..(1 - 1) : a[j] = b[j]
      BY <1>1, <2>1
    <3>2. QED
      BY <3>1
  <2>2. CASE TurnsLeft' = TurnsLeft /\ Stage' < Stage
    <3>1. a[2] < b[2] /\ \A j \in 1..(2 - 1) : a[j] = b[j]
      BY <1>1, <2>2
    <3>2. QED
      BY <3>1
  <2>3. CASE TurnsLeft' = TurnsLeft /\ Stage' = Stage /\ RoundsLeft' < RoundsLeft
    <3>1. a[3] < b[3] /\ \A j \in 1..(3 - 1) : a[j] = b[j]
      BY <1>1, <2>3
    <3>2. QED
      BY <3>1
  <2>4. CASE /\ TurnsLeft' = TurnsLeft /\ Stage' = Stage /\ RoundsLeft' = RoundsLeft
             /\ todo' < todo
    <3>1. a[4] < b[4] /\ \A j \in 1..(4 - 1) : a[j] = b[j]
      BY <1>1, <2>4
    <3>2. QED
      BY <3>1
  <2>5. CASE /\ TurnsLeft' = TurnsLeft /\ Stage' = Stage /\ RoundsLeft' = RoundsLeft
             /\ todo' = todo /\ StopsLeft' < StopsLeft
    <3>1. a[5] < b[5] /\ \A j \in 1..(5 - 1) : a[j] = b[j]
      BY <1>1, <2>5
    <3>2. QED
      BY <3>1
  <2>6. QED
    BY <2>1, <2>2, <2>3, <2>4, <2>5
<1>3. QED
  BY <1>2 DEF Below, a, b

\* The stages, by place, here and after a step.
LEMMA StageIs ==
  /\ pc = "turn" => Stage = 3
  /\ pc = "execution" => Stage = 2
  /\ pc \in {"research", "direction", "planning", "tasks"} => Stage = 1
  /\ pc \in {"done", "failed"} => Stage = 0
  /\ pc' = "turn" => Stage' = 3
  /\ pc' = "execution" => Stage' = 2
  /\ pc' \in {"research", "direction", "planning", "tasks"} => Stage' = 1
  /\ pc' \in {"done", "failed"} => Stage' = 0
BY DEF Stage

\* Each step takes something from the first number it changes.
LEMMA StepFalls ==
  ASSUME CoInv, Next
  PROVE  Below(Rank', Rank)
<1>0. /\ turn \in Nat /\ MAX_COORDINATOR_TURNS \in Nat /\ round \in Nat /\ todo \in Nat
      /\ MAX_RLM_ROUNDS \in Nat /\ MAX_PLAN_GATE_ROUNDS \in Nat /\ MAX_FIX_ROUNDS \in Nat
      /\ pc \in {"turn", "research", "direction", "planning", "execution", "tasks", "done",
                 "failed"}
      /\ pc = "research" => round < MAX_RLM_ROUNDS
  BY CoordinatorAssumption DEF CoInv, Core, CoTypeOK, Phases
<1>1. ASSUME turn' = turn + 1 PROVE Below(Rank', Rank)
  <2>1. TurnsLeft' < TurnsLeft
    BY <1>0, <1>1 DEF TurnsLeft
  <2>2. QED
    BY <2>1, BelowIs
<1>2. ASSUME turn' = turn, Stage' < Stage PROVE Below(Rank', Rank)
  BY <1>2, BelowIs DEF TurnsLeft
<1>3. ASSUME turn' = turn, pc' = pc, round' = round + 1, round < RoundCap
      PROVE  Below(Rank', Rank)
  <2>1. TurnsLeft' = TurnsLeft /\ Stage' = Stage
    BY <1>3 DEF TurnsLeft, Stage
  <2>2. RoundCap' = RoundCap /\ RoundCap \in Nat
    BY <1>0, <1>3 DEF RoundCap
  <2>3. RoundsLeft' < RoundsLeft
    BY <1>0, <1>3, <2>2 DEF RoundsLeft
  <2>4. QED
    BY <2>1, <2>3, BelowIs
<1>4. ASSUME UNCHANGED <<turn, pc, round>>
      PROVE  TurnsLeft' = TurnsLeft /\ Stage' = Stage /\ RoundsLeft' = RoundsLeft
  BY <1>4 DEF TurnsLeft, Stage, RoundsLeft, RoundCap
<1>5. CASE Stop
  <2>1. StopsLeft' < StopsLeft
    BY <1>5 DEF Stop, StopsLeft
  <2>2. UNCHANGED <<turn, pc, round, todo>>
    BY <1>5 DEF Stop, phaseVars
  <2>3. QED
    BY <1>4, <2>1, <2>2, BelowIs
<1>6. ASSUME NEW p \in Phases, Delegate(p) PROVE Below(Rank', Rank)
  <2>1. pc = "turn" /\ pc' \in {"research", "direction", "planning", "execution"} /\ turn' = turn
    BY <1>6 DEF Delegate, MayTurn, Phases
  <2>2. QED
    BY <1>2, <2>1, StageIs
<1>7. CASE Finish
  <2>1. pc = "turn" /\ pc' = "done" /\ turn' = turn
    BY <1>7 DEF Finish, MayTurn
  <2>2. QED
    BY <1>2, <2>1, StageIs
<1>8. ASSUME pc \notin {"done", "failed"}, pc' = "failed", turn' = turn PROVE Below(Rank', Rank)
  BY <1>0, <1>2, <1>8, StageIs
<1>9. CASE Fails
  BY <1>8, <1>9 DEF Fails, Working
<1>10. CASE ReuseResearch
  BY <1>1, <1>10 DEF ReuseResearch, EndResearch, Returns
<1>11. ASSUME NEW a \in Audits, Research(a) PROVE Below(Rank', Rank)
  <2>1. CASE Complete(a) \/ round' = MAX_RLM_ROUNDS
    BY <1>1, <1>11, <2>1 DEF Research, EndResearch, Returns
  <2>2. CASE ~(Complete(a) \/ round' = MAX_RLM_ROUNDS)
    <3>1. turn' = turn /\ pc' = pc /\ round' = round + 1 /\ pc = "research"
      BY <1>11, <2>2 DEF Research, Concludes
    <3>2. round < RoundCap
      BY <1>0, <3>1 DEF RoundCap
    <3>3. QED
      BY <1>3, <3>1, <3>2
  <2>3. QED
    BY <2>1, <2>2
<1>12. CASE Direct \/ DirectNoChanges
  BY <1>1, <1>12 DEF Direct, DirectNoChanges, Returns
<1>13. ASSUME NEW d, EndPlanning(d), pc = "planning" PROVE Below(Rank', Rank)
  BY <1>1, <1>8, <1>13 DEF EndPlanning, Returns
<1>14. ASSUME pc = "planning", round < MAX_PLAN_GATE_ROUNDS, round' = round + 1, UNCHANGED <<pc, turn>>
       PROVE  Below(Rank', Rank)
  <2>1. round < RoundCap
    BY <1>14 DEF RoundCap
  <2>2. QED
    BY <1>3, <1>14, <2>1
<1>15. CASE DraftUnparseable
  BY <1>13, <1>14, <1>15 DEF DraftUnparseable, Concludes
<1>16. ASSUME NEW ok \in BOOLEAN, DraftPlan(ok) PROVE Below(Rank', Rank)
  BY <1>13, <1>14, <1>16 DEF DraftPlan, Concludes
<1>17. CASE Execute
  <2>1. pc = "execution" /\ pc' = "tasks" /\ turn' = turn
    BY <1>17 DEF Execute
  <2>2. QED
    BY <1>2, <2>1, StageIs
<1>18. ASSUME NEW n \in 1..MaxNote, RunTask(n) PROVE Below(Rank', Rank)
  <2>1. UNCHANGED <<turn, pc, round>> /\ todo' < todo
    BY <1>0, <1>18 DEF RunTask
  <2>2. QED
    BY <1>4, <2>1, BelowIs
<1>19. ASSUME NEW v \in Verdicts, NEW n \in 0..MaxTasks, Review(v, n) PROVE Below(Rank', Rank)
  <2>1. CASE v = "issues" /\ round < MAX_FIX_ROUNDS
    <3>1. turn' = turn /\ pc' = pc /\ round' = round + 1 /\ pc = "tasks"
      BY <1>19, <2>1 DEF Review, Concludes
    <3>2. round < RoundCap
      BY <2>1, <3>1 DEF RoundCap
    <3>3. QED
      BY <1>3, <3>1, <3>2
  <2>2. CASE ~(v = "issues" /\ round < MAX_FIX_ROUNDS)
    BY <1>1, <1>19, <2>2 DEF Review, EndExecution, Returns
  <2>3. QED
    BY <2>1, <2>2
<1>20. QED
  BY <1>5, <1>6, <1>7, <1>9, <1>10, <1>11, <1>12, <1>15, <1>16, <1>17, <1>18, <1>19 DEF Next, Step

\* The numbers are natural, so that they cannot fall for ever.
LEMMA RankNat == CoInv => RankIsNat
<1> SUFFICES ASSUME CoInv, NEW k \in 1..5 PROVE Rank[k] \in Nat
  BY DEF RankIsNat
<1>1. /\ turn \in 0..MAX_COORDINATOR_TURNS /\ MAX_COORDINATOR_TURNS \in Nat
      /\ round \in Nat /\ todo \in Nat
      /\ MAX_RLM_ROUNDS \in Nat /\ MAX_PLAN_GATE_ROUNDS \in Nat /\ MAX_FIX_ROUNDS \in Nat
      /\ pc \in {"turn", "research", "direction", "planning", "execution", "tasks", "done",
                 "failed"}
  BY CoordinatorAssumption DEF CoInv, Core, CoTypeOK, Phases
<1>2. TurnsLeft \in Nat /\ StopsLeft \in Nat
  BY <1>1 DEF TurnsLeft, StopsLeft
<1>3. RoundCap \in Nat
  BY <1>1 DEF RoundCap
<1>4. RoundsLeft \in Nat
  BY <1>1, <1>3 DEF RoundsLeft
<1>5. Stage \in Nat
  BY <1>1, StageIs
<1>6. \A x1, x2, x3, x4, x5 \in Nat : <<x1, x2, x3, x4, x5>>[k] \in Nat
  OBVIOUS
<1>7. QED
  BY <1>1, <1>2, <1>4, <1>5, <1>6 DEF Rank

\* Whatever the role delegates, the auditors and reviewers answer and the user
\* stops, every step brings the run nearer its end: no order of delegations,
\* rounds, fix rounds and failures comes back to where it was, whatever the
\* caps of the loops.
THEOREM CoordinatorAdvances == Spec => []RankIsNat /\ [][Below(Rank', Rank)]_cvars
<1>1. CoInv /\ [Next]_cvars => [Below(Rank', Rank)]_cvars
  BY StepFalls
<1>2. QED
  BY <1>1, RankNat, CoInvHolds, PTL DEF Spec

================================================================================
