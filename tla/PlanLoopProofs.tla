---------------------------- MODULE PlanLoopProofs ----------------------------
(***************************************************************************)
(* Proofs about PlanLoop, for any plans, notes, caps and faults, any file  *)
(* left behind by an earlier run and a user who may edit it.               *)
(***************************************************************************)
EXTENDS PlanLoop, TLAPS

Improving == {"audit", "evaluate", "edit"}

\* Each loop is left before its counter passes the cap.
RoundsLeft ==
  /\ pc \in {"write", "review"} => review_rounds < PLAN_WRITER_SAFETY_CAP
  /\ pc \in {"evaluate", "edit"} => round < PLAN_IMPROVE_SAFETY_CAP

\* A reviewed draft exists, and from the end of phase 1 on a final plan does;
\* outside "review" the shared context holds it.
PlansAgree ==
  /\ pc = "review" => draft \in Plans /\ last_draft_md \in Docs
  /\ pc \in {"present", "gate", "revise", "execute"} \cup Improving =>
       final_plan \in Plans
  /\ pc \in {"present", "gate", "revise", "execute"} => shared_plan = final_plan

\* Every granted change was counted as a presentation.
ChangesCounted == revisions + reviews <= gate_rounds

PlanInv == TypeOK /\ RoundsLeft /\ PlansAgree /\ ChangesCounted

\* Before the first draft there is no plan at all.
LEMMA PlanInvInit == Init => PlanInv
<1> SUFFICES ASSUME Init PROVE PlanInv
  OBVIOUS
<1>1. file \in Docs \cup {Absent}
  BY PlanLoopAssumption DEF Init, Docs
<1>2. /\ draft = None /\ last_draft_md = None /\ last_revision_notes = None
      /\ draft_read = None /\ final_plan = None /\ shared_plan = None
      /\ shown = None /\ last_plan_md = None /\ last_directions = None
  BY DEF Init
<1>3. /\ review_rounds = 0 /\ gate_rounds = 0 /\ revisions = 0 /\ reviews = 0
      /\ round = 0 /\ pc = "write" /\ deviated = {}
  BY DEF Init
<1>4. gate_enabled \in BOOLEAN /\ rewritten \in BOOLEAN
  BY DEF Init
<1>5. RoundsLeft /\ PlansAgree /\ ChangesCounted
  BY <1>3, PlanLoopAssumption
     DEF RoundsLeft, PlansAgree, ChangesCounted, Improving
<1>6. TypeOK
  BY <1>1, <1>2, <1>3, <1>4, PlanLoopAssumption DEF TypeOK
<1>7. QED
  BY <1>5, <1>6 DEF PlanInv

\* Whatever a writer does, its document and its file are typed.
LEMMA HandoffType ==
  ASSUME PlanInv, NEW doc, NEW f, Handoff(doc, f)
  PROVE  /\ doc \in Docs \cup {None} /\ f \in Docs \cup {Absent}
         /\ deviated' \in SUBSET Deviations
<1>1. Edits \subseteq Docs \cup {Absent}
  BY DEF Edits, PlanInv, TypeOK, Docs
<1>2. PICK way \in {"submit"} \cup (Faults \ {"junk"}) :
        /\ HandoffBy(way, doc, f)
        /\ deviated' =
             deviated \cup {d \in Deviations :
               IF d = "elsewhere" THEN way = d
               ELSE way = "no_submit" \/ Junk \in {doc, f}}
  BY DEF Handoff
<1>3. doc \in Docs \cup {None} /\ f \in Docs \cup {Absent}
  BY <1>1, <1>2 DEF HandoffBy
<1>4. deviated' \in SUBSET Deviations
  BY <1>2 DEF PlanInv, TypeOK
<1>5. QED
  BY <1>3, <1>4

\* Every step of the roles and of the user keeps the invariant.
LEMMA PlanInvStep == PlanInv /\ [Next]_vars => PlanInv'
<1> SUFFICES ASSUME PlanInv, [Next]_vars PROVE PlanInv'
  OBVIOUS
<1> USE PlanLoopAssumption
    DEF PlanInv, TypeOK, RoundsLeft, PlansAgree, ChangesCounted, Improving,
        Docs, None, OnDiskOr, gateVars, writerVars, improveVars, FinishDraft
<1>1. CASE WriterDrafts
  <2>1. PICK doc \in Docs \cup {None}, f \in Docs \cup {Absent} :
          LET md == IF f # Absent THEN f ELSE doc
          IN /\ Handoff(doc, f)
             /\ file' = f
             /\ \/ doc \in Plans /\ md # last_draft_md /\ NewDraft(doc, md)
                \/ /\ doc \notin Plans \/ md = last_draft_md
                   /\ draft # None /\ FinishDraft(draft)
                   /\ UNCHANGED <<draft, last_draft_md>>
                \/ /\ doc \notin Plans /\ draft = None
                   /\ pc' = "failed"
                   /\ UNCHANGED <<draft, last_draft_md, final_plan, shared_plan>>
    BY <1>1 DEF WriterDrafts
  <2>2. deviated' \in SUBSET Deviations
    BY <2>1, HandoffType
  <2>3. QED
    BY <1>1, <2>1, <2>2 DEF WriterDrafts, NewDraft
<1>2. CASE DraftApproved
  BY <1>2 DEF DraftApproved
<1>3. ASSUME NEW n \in Notes, DraftRejected(n) PROVE PlanInv'
  BY <1>3 DEF DraftRejected, CountRound, WriterCapHit
<1>4. CASE PresentAtGate
  <2>1. shown' \in Docs /\ file' = shown'
    BY <1>4 DEF PresentAtGate
  <2>2. rewritten' \in BOOLEAN /\ gate_enabled' \in BOOLEAN
    BY <1>4 DEF PresentAtGate, ResetImprove
  <2>3. QED
    BY <1>4, <2>1, <2>2 DEF PresentAtGate, ResetImprove
<1>5. CASE UserSavesFile
  BY <1>5 DEF UserSavesFile, Deviations
<1>6. CASE DecideExecute
  BY <1>6 DEF DecideExecute, CountPresentation, CanModify
<1>7. CASE DecideRevise
  BY <1>7 DEF DecideRevise, CountPresentation, CanModify
<1>8. CASE DecideReview
  BY <1>8 DEF DecideReview, CountPresentation, CanModify
<1>9. CASE DecideCancel
  BY <1>9 DEF DecideCancel, CountPresentation, CanModify
<1>10. CASE DecideOther
  BY <1>10 DEF DecideOther, CountPresentation, CanModify
<1>11. CASE WriterRevises
  <2>1. PICK doc \in Docs \cup {None}, f \in Docs \cup {Absent} :
          /\ Handoff(doc, f)
          /\ file' = f
          /\ final_plan' = TakePlan(IF doc = None THEN f ELSE doc)
    BY <1>11 DEF WriterRevises
  <2>2. deviated' \in SUBSET Deviations
    BY <2>1, HandoffType
  <2>3. final_plan' \in Plans
    BY <1>11, <2>1 DEF WriterRevises, TakePlan
  <2>4. QED
    BY <1>11, <2>1, <2>2, <2>3 DEF WriterRevises, RefreshSharedPlan
<1>12. CASE AuditSkipped
  BY <1>12 DEF AuditSkipped, EndImprove, RefreshSharedPlan
<1>13. CASE AuditEnds
  BY <1>13 DEF AuditEnds, AuditStarts, EndImprove, RefreshSharedPlan
<1>14. ASSUME NEW d \in Notes, AuditDirects(d) PROVE PlanInv'
  BY <1>14 DEF AuditDirects, AuditStarts
<1>15. CASE Evaluate
  BY <1>15 DEF Evaluate, EndImprove, RefreshSharedPlan
<1>16. CASE EditorRewrites
  <2>1. PICK doc \in Docs \cup {None}, f \in Docs \cup {Absent} :
          /\ Handoff(doc, f)
          /\ file' = f
          /\ \/ /\ doc \in Plans
                /\ final_plan' = doc /\ rewritten' = TRUE
                /\ CountImprove
                /\ AfterRewrite
             \/ /\ doc \notin Plans
                /\ EndImprove(final_plan)
                /\ UNCHANGED <<round, rewritten>>
    BY <1>16 DEF EditorRewrites
  <2>2. deviated' \in SUBSET Deviations
    BY <2>1, HandoffType
  <2>3. CASE doc \in Plans
    <3>1. /\ final_plan' = doc /\ rewritten' = TRUE /\ round' = round + 1
          /\ UNCHANGED shared_plan /\ pc' = "audit"
      BY <2>1, <2>3 DEF CountImprove, AfterRewrite
    <3>2. round + 1 \in 0..PLAN_IMPROVE_SAFETY_CAP /\ rewritten' \in BOOLEAN
      BY <1>16, <3>1 DEF EditorRewrites
    <3>3. QED
      BY <1>16, <2>1, <2>2, <2>3, <3>1, <3>2 DEF EditorRewrites
  <2>4. CASE doc \notin Plans
    <3>1. /\ final_plan' = final_plan /\ shared_plan' = final_plan
          /\ pc' = "present" /\ UNCHANGED <<round, rewritten>>
      BY <2>1, <2>4 DEF EndImprove, RefreshSharedPlan
    <3>2. QED
      BY <1>16, <2>1, <2>2, <3>1 DEF EditorRewrites
  <2>5. QED
    BY <2>3, <2>4
<1>17. CASE PhaseFails
  BY <1>17 DEF PhaseFails
<1>18. CASE UNCHANGED vars
  BY <1>18 DEF vars
<1>19. QED
  BY <1>1, <1>2, <1>3, <1>4, <1>5, <1>6, <1>7, <1>8, <1>9, <1>10, <1>11,
     <1>12, <1>13, <1>14, <1>15, <1>16, <1>17, <1>18 DEF Next, Roles, User

\* The invariant the theorems follow from.
LEMMA PlanInvHolds == Spec => []PlanInv
<1>1. Init => PlanInv
  BY PlanInvInit
<1>2. PlanInv /\ [Next]_vars => PlanInv'
  BY PlanInvStep
<1>3. QED
  BY <1>1, <1>2, PTL DEF Spec

\* The plan, its file and its counters keep their types and caps.
THEOREM PlanTypeCorrect == Spec => []TypeOK
<1>1. PlanInv => TypeOK
  BY DEF PlanInv
<1>2. QED
  BY <1>1, PlanInvHolds, PTL

\* The executors read the plan they run, whatever the writers, the reviewers
\* and the user did to it before.
THEOREM ExecutorsHaveTheirPlan == Spec => []ExecutorsSeeTheirPlan
<1>1. PlanInv => ExecutorsSeeTheirPlan
  BY DEF PlanInv, PlansAgree, ExecutorsSeeTheirPlan
<1>2. QED
  BY <1>1, PlanInvHolds, PTL

\* The gate grants no more changes than its cap, for every cap.
THEOREM GateStaysInBudget == Spec => []GateBudget
<1>1. PlanInv => GateBudget
  BY PlanLoopAssumption DEF PlanInv, ChangesCounted, TypeOK, GateBudget
<1>2. QED
  BY <1>1, PlanInvHolds, PTL

-----------------------------------------------------------------------------
(* The plan shown, read by the Plan Reviewer and audited                   *)

\* While nobody deviated, the file changes only together with the plan.
FileFollowsPlan ==
  deviated = {} =>
    /\ pc \in {"write", "review"} /\ draft # None =>
         file = draft /\ last_draft_md = draft
    /\ pc \in {"present", "gate", "revise"} \cup Improving => file = final_plan
    /\ pc = "gate" => shown = final_plan

\* What the Plan Reviewer reads is the draft, and what it read stays the draft
\* until the next one goes to it.
DraftIsRead ==
  /\ pc \in {"revise"} \cup Improving => revisions + reviews > 0
  /\ "elsewhere" \notin deviated =>
       /\ pc = "review" => file = draft
       /\ pc = "write" /\ draft # None => draft_read = draft
       /\ pc \in {"present", "gate", "execute"} /\ revisions + reviews = 0 =>
            draft_read = final_plan

\* After a rewrite the audit reads the rewritten plan; the evaluation and the
\* next rewrite start from the plan that was audited.
RewriteIsAudited ==
  /\ pc \in {"write", "review", "gate", "revise"} => ~rewritten
  /\ rewritten /\ "elsewhere" \notin deviated =>
       /\ pc = "audit" => file = final_plan
       /\ pc \in {"evaluate", "edit"} => last_plan_md = final_plan
       /\ pc = "present" =>
            round = PLAN_IMPROVE_SAFETY_CAP \/ last_plan_md = final_plan

TextInv == FileFollowsPlan /\ DraftIsRead /\ RewriteIsAudited

\* A document that was not submitted from another file is in the plan file.
LEMMA HandoffThroughFile ==
  ASSUME NEW doc, NEW f, Handoff(doc, f), "elsewhere" \notin deviated'
  PROVE  "elsewhere" \notin deviated /\ (doc \in Docs => f = doc \/ doc = None)
<1>1. PICK way \in {"submit"} \cup (Faults \ {"junk"}) :
        /\ HandoffBy(way, doc, f)
        /\ deviated' =
             deviated \cup {d \in Deviations :
               IF d = "elsewhere" THEN way = d
               ELSE way = "no_submit" \/ Junk \in {doc, f}}
  BY DEF Handoff
<1>2. way # "elsewhere" /\ "elsewhere" \notin deviated
  BY <1>1 DEF Deviations
<1>3. QED
  BY <1>1, <1>2 DEF HandoffBy

\* Without a deviation every role hands over the plan that is in the file.
LEMMA HandoffAsInstructed ==
  ASSUME PlanInv, NEW doc, NEW f, Handoff(doc, f), deviated' = {}
  PROVE  deviated = {} /\ doc \in Plans /\ f = doc
<1>1. PICK way \in {"submit"} \cup (Faults \ {"junk"}) :
        /\ HandoffBy(way, doc, f)
        /\ deviated' =
             deviated \cup {d \in Deviations :
               IF d = "elsewhere" THEN way = d
               ELSE way = "no_submit" \/ Junk \in {doc, f}}
  BY DEF Handoff
<1>2. /\ way # "elsewhere" /\ way # "no_submit" /\ deviated = {}
      /\ doc # Junk /\ f # Junk
  BY <1>1 DEF Deviations
<1>3. Edits \subseteq Docs \cup {Absent}
  BY DEF Edits, PlanInv, TypeOK, Docs
<1>4. QED
  BY <1>1, <1>2, <1>3 DEF HandoffBy, Docs

\* Nothing is drafted, shown or rewritten at first.
LEMMA TextInvInit == Init => TextInv
BY DEF Init, TextInv, FileFollowsPlan, DraftIsRead, RewriteIsAudited, Improving

\* Every step keeps the three of them.
LEMMA TextInvStep == PlanInv /\ TextInv /\ [Next]_vars => TextInv'
<1> SUFFICES ASSUME PlanInv, TextInv, [Next]_vars PROVE TextInv'
  OBVIOUS
<1>t. /\ draft \in Plans \cup {None} /\ file \in Docs \cup {Absent}
      /\ revisions \in Nat /\ reviews \in Nat
      /\ pc = "review" => draft \in Plans /\ last_draft_md \in Docs
      /\ pc \in {"present", "gate", "revise", "execute"} \cup Improving =>
           final_plan \in Plans
      /\ round \in 0..PLAN_IMPROVE_SAFETY_CAP
  BY DEF PlanInv, TypeOK, PlansAgree
<1>a. /\ Junk \notin Plans /\ Absent \notin Plans /\ Junk # Absent
      /\ None \notin Plans /\ PLAN_IMPROVE_SAFETY_CAP \in Nat
  BY PlanLoopAssumption DEF None
<1> USE <1>t, <1>a
    DEF TextInv, FileFollowsPlan, DraftIsRead, RewriteIsAudited, Improving,
        OnDiskOr, Docs, gateVars, writerVars, improveVars, FinishDraft
<1>1. CASE WriterDrafts
  <2>1. PICK doc \in Docs \cup {None}, f \in Docs \cup {Absent} :
          LET md == IF f # Absent THEN f ELSE doc
          IN /\ Handoff(doc, f)
             /\ file' = f
             /\ \/ doc \in Plans /\ md # last_draft_md /\ NewDraft(doc, md)
                \/ /\ doc \notin Plans \/ md = last_draft_md
                   /\ draft # None /\ FinishDraft(draft)
                   /\ UNCHANGED <<draft, last_draft_md>>
                \/ /\ doc \notin Plans /\ draft = None
                   /\ pc' = "failed"
                   /\ UNCHANGED <<draft, last_draft_md, final_plan, shared_plan>>
    BY <1>1 DEF WriterDrafts
  <2>2. /\ pc = "write"
        /\ UNCHANGED <<draft_read, rewritten, revisions, reviews, shown>>
    BY <1>1 DEF WriterDrafts
  <2>3. "elsewhere" \notin deviated' =>
          "elsewhere" \notin deviated /\ (doc \in Plans => f = doc)
    BY <2>1, HandoffThroughFile
  <2>4. deviated' = {} => deviated = {} /\ doc \in Plans /\ f = doc
    BY <2>1, HandoffAsInstructed
  <2>5. pc' \in {"review", "present", "execute", "failed"}
    BY <2>1 DEF NewDraft
  <2>6. FileFollowsPlan'
    BY <2>1, <2>2, <2>4, <2>5 DEF NewDraft
  <2>7. DraftIsRead'
    BY <2>1, <2>2, <2>3, <2>5 DEF NewDraft
  <2>8. RewriteIsAudited'
    BY <2>2, <2>5
  <2>9. QED
    BY <2>6, <2>7, <2>8
<1>2. CASE DraftApproved
  BY <1>2 DEF DraftApproved
<1>3. ASSUME NEW n \in Notes, DraftRejected(n) PROVE TextInv'
  BY <1>3 DEF DraftRejected
<1>4. CASE PresentAtGate
  BY <1>4 DEF PresentAtGate, ResetImprove
<1>5. CASE UserSavesFile
  <2>1. deviated' # {} /\ ("elsewhere" \in deviated' <=> "elsewhere" \in deviated)
    BY <1>5 DEF UserSavesFile
  <2>2. QED
    BY <1>5, <2>1 DEF UserSavesFile
<1>6. CASE DecideExecute
  BY <1>6 DEF DecideExecute
<1>7. CASE DecideRevise
  BY <1>7 DEF DecideRevise
<1>8. CASE DecideReview
  BY <1>8 DEF DecideReview
<1>9. CASE DecideCancel
  BY <1>9 DEF DecideCancel
<1>10. CASE DecideOther
  BY <1>10 DEF DecideOther
<1>11. CASE WriterRevises
  <2>1. PICK doc \in Docs \cup {None}, f \in Docs \cup {Absent} :
          /\ Handoff(doc, f)
          /\ file' = f
          /\ final_plan' = TakePlan(IF doc = None THEN f ELSE doc)
    BY <1>11 DEF WriterRevises
  <2>2. deviated' = {} => deviated = {} /\ doc \in Plans /\ f = doc
    BY <2>1, HandoffAsInstructed
  <2>3. /\ pc = "revise" /\ pc' = "present"
        /\ UNCHANGED <<rewritten, revisions, reviews>>
    BY <1>11 DEF WriterRevises
  <2>4. QED
    BY <2>1, <2>2, <2>3 DEF TakePlan
<1>12. CASE AuditSkipped
  BY <1>12 DEF AuditSkipped, EndImprove, RefreshSharedPlan
<1>13. CASE AuditEnds
  BY <1>13 DEF AuditEnds, AuditStarts, EndImprove, RefreshSharedPlan
<1>14. ASSUME NEW d \in Notes, AuditDirects(d) PROVE TextInv'
  BY <1>14 DEF AuditDirects, AuditStarts
<1>15. CASE Evaluate
  BY <1>15 DEF Evaluate, EndImprove, RefreshSharedPlan
<1>16. CASE EditorRewrites
  <2>1. PICK doc \in Docs \cup {None}, f \in Docs \cup {Absent} :
          /\ Handoff(doc, f)
          /\ file' = f
          /\ \/ /\ doc \in Plans
                /\ final_plan' = doc /\ rewritten' = TRUE
                /\ CountImprove
                /\ AfterRewrite
             \/ /\ doc \notin Plans
                /\ EndImprove(final_plan)
                /\ UNCHANGED <<round, rewritten>>
    BY <1>16 DEF EditorRewrites
  <2>2. /\ pc = "edit"
        /\ UNCHANGED <<last_plan_md, revisions, reviews>>
    BY <1>16 DEF EditorRewrites
  <2>3. "elsewhere" \notin deviated' =>
          "elsewhere" \notin deviated /\ (doc \in Plans => f = doc)
    BY <2>1, HandoffThroughFile
  <2>4. deviated' = {} => deviated = {} /\ doc \in Plans /\ f = doc
    BY <2>1, HandoffAsInstructed
  <2>5. CASE doc \in Plans
    BY <2>1, <2>2, <2>3, <2>4, <2>5 DEF AfterRewrite
  <2>6. CASE doc \notin Plans
    BY <2>1, <2>2, <2>3, <2>4, <2>6 DEF EndImprove
  <2>7. QED
    BY <2>5, <2>6
<1>17. CASE PhaseFails
  BY <1>17 DEF PhaseFails
<1>18. CASE UNCHANGED vars
  BY <1>18 DEF vars
<1>19. QED
  BY <1>1, <1>2, <1>3, <1>4, <1>5, <1>6, <1>7, <1>8, <1>9, <1>10, <1>11,
     <1>12, <1>13, <1>14, <1>15, <1>16, <1>17, <1>18 DEF Next, Roles, User

\* Both invariants together.
LEMMA TextInvHolds == Spec => [](PlanInv /\ TextInv)
<1>1. Init => TextInv
  BY TextInvInit
<1>2. PlanInv /\ TextInv /\ [Next]_vars => TextInv'
  BY TextInvStep
<1>3. QED
  BY <1>1, <1>2, PlanInvHolds, PTL DEF Spec

\* As long as the writers follow their instructions and the user leaves the
\* file, the gate shows the plan that Execute runs.
THEOREM ShownPlanIsFinal == Spec => []ShownIsFinal
<1>1. TextInv => ShownIsFinal
  BY DEF TextInv, FileFollowsPlan, ShownIsFinal
<1>2. QED
  BY <1>1, TextInvHolds, PTL

\* A plan that leaves phase 1 was read by the Plan Reviewer, unless a document
\* was submitted from another file.
THEOREM DraftsAreReviewed == Spec => []DraftWasReviewed
<1>1. PlanInv /\ TextInv => DraftWasReviewed
  BY DEF TextInv, DraftIsRead, DraftWasReviewed
<1>2. QED
  BY <1>1, TextInvHolds, PTL

\* A plan that leaves "review" rewritten was audited, unless the cap cut the
\* loop off or a document was submitted from another file.
THEOREM RewritesAreAudited == Spec => []AuditedUnlessCapped
<1>1. TextInv => AuditedUnlessCapped
  BY DEF TextInv, RewriteIsAudited, AuditedUnlessCapped
<1>2. QED
  BY <1>1, TextInvHolds, PTL

-----------------------------------------------------------------------------
(* The roles cannot keep the plan from the user for ever.                  *)

\* Four numbers, the first that changes counts: changes the gate still grants;
\* how far the plan is from the next decision; rounds of the loop left; how far
\* the round is.
ChangesLeft == MAX_PLAN_GATE_ROUNDS - gate_rounds
Stage ==
  CASE pc \in {"write", "review"} -> 4 [] pc \in Improving \cup {"revise"} -> 3
    [] pc = "present" -> 2 [] pc = "gate" -> 1
    [] pc \in {"execute", "cancelled", "failed"} -> 0
LoopRoundsLeft ==
  CASE pc \in {"write", "review"} -> PLAN_WRITER_SAFETY_CAP - review_rounds
    [] pc \in Improving -> PLAN_IMPROVE_SAFETY_CAP - round
    [] OTHER -> 0
Position == CASE pc = "audit" -> 2 [] pc \in {"write", "evaluate"} -> 1 [] OTHER -> 0
Rank == <<ChangesLeft, Stage, LoopRoundsLeft, Position>>

Below(a, b) == \E k \in 1..4 : a[k] < b[k] /\ \A j \in 1..(k - 1) : a[j] = b[j]
RankIsNat == \A k \in 1..4 : Rank[k] \in Nat

\* The user's steps that may be repeated for ever: saving the file, and asking
\* for what the gate no longer offers.
Idle == UserSavesFile \/ (DecideOther /\ ~CanModify)

\* What the order means for the rank.
LEMMA BelowIs ==
  ASSUME \/ ChangesLeft' < ChangesLeft
         \/ ChangesLeft' = ChangesLeft /\ Stage' < Stage
         \/ ChangesLeft' = ChangesLeft /\ Stage' = Stage /\ LoopRoundsLeft' < LoopRoundsLeft
         \/ /\ ChangesLeft' = ChangesLeft /\ Stage' = Stage /\ LoopRoundsLeft' = LoopRoundsLeft
            /\ Position' < Position
  PROVE  Below(Rank', Rank)
<1> DEFINE a == Rank'
           b == Rank
<1>1. /\ a[1] = ChangesLeft' /\ a[2] = Stage' /\ a[3] = LoopRoundsLeft' /\ a[4] = Position'
      /\ b[1] = ChangesLeft /\ b[2] = Stage /\ b[3] = LoopRoundsLeft /\ b[4] = Position
  BY DEF Rank
<1> HIDE DEF a, b
<1>2. \E k \in 1..4 : a[k] < b[k] /\ \A j \in 1..(k - 1) : a[j] = b[j]
  <2>1. CASE ChangesLeft' < ChangesLeft
    <3>1. a[1] < b[1] /\ \A j \in 1..(1 - 1) : a[j] = b[j]
      BY <1>1, <2>1
    <3>2. QED
      BY <3>1
  <2>2. CASE ChangesLeft' = ChangesLeft /\ Stage' < Stage
    <3>1. a[2] < b[2] /\ \A j \in 1..(2 - 1) : a[j] = b[j]
      BY <1>1, <2>2
    <3>2. QED
      BY <3>1
  <2>3. CASE ChangesLeft' = ChangesLeft /\ Stage' = Stage /\ LoopRoundsLeft' < LoopRoundsLeft
    <3>1. a[3] < b[3] /\ \A j \in 1..(3 - 1) : a[j] = b[j]
      BY <1>1, <2>3
    <3>2. QED
      BY <3>1
  <2>4. CASE /\ ChangesLeft' = ChangesLeft /\ Stage' = Stage /\ LoopRoundsLeft' = LoopRoundsLeft
             /\ Position' < Position
    <3>1. a[4] < b[4] /\ \A j \in 1..(4 - 1) : a[j] = b[j]
      BY <1>1, <2>4
    <3>2. QED
      BY <3>1
  <2>5. QED
    BY <2>1, <2>2, <2>3, <2>4
<1>3. QED
  BY <1>2 DEF Below, a, b

\* The stages and positions, by place, here and after a step.
LEMMA StageIs ==
  /\ pc \in {"write", "review"} => Stage = 4
  /\ pc \in {"audit", "evaluate", "edit", "revise"} => Stage = 3
  /\ pc = "present" => Stage = 2
  /\ pc = "gate" => Stage = 1
  /\ pc \in {"execute", "cancelled", "failed"} => Stage = 0
  /\ pc' \in {"write", "review"} => Stage' = 4
  /\ pc' \in {"audit", "evaluate", "edit", "revise"} => Stage' = 3
  /\ pc' = "present" => Stage' = 2
  /\ pc' = "gate" => Stage' = 1
  /\ pc' \in {"execute", "cancelled", "failed"} => Stage' = 0
BY DEF Stage, Improving

LEMMA RoundsAre ==
  /\ pc \in {"write", "review"} => LoopRoundsLeft = PLAN_WRITER_SAFETY_CAP - review_rounds
  /\ pc \in {"audit", "evaluate", "edit"} => LoopRoundsLeft = PLAN_IMPROVE_SAFETY_CAP - round
  /\ pc \in {"present", "gate", "revise", "execute", "cancelled", "failed"} => LoopRoundsLeft = 0
  /\ pc' \in {"write", "review"} => LoopRoundsLeft' = PLAN_WRITER_SAFETY_CAP - review_rounds'
  /\ pc' \in {"audit", "evaluate", "edit"} => LoopRoundsLeft' = PLAN_IMPROVE_SAFETY_CAP - round'
BY DEF LoopRoundsLeft, Improving

\* Each step of a role, and each decision that the gate offers, takes something
\* from the first number it changes.
LEMMA StepFalls ==
  ASSUME PlanInv, Next, ~Idle
  PROVE  Below(Rank', Rank)
<1>0. /\ gate_rounds \in Nat /\ MAX_PLAN_GATE_ROUNDS \in Nat
      /\ review_rounds \in Nat /\ PLAN_WRITER_SAFETY_CAP \in Nat
      /\ round \in Nat /\ PLAN_IMPROVE_SAFETY_CAP \in Nat
      /\ pc \in {"write", "review", "present", "gate", "revise", "audit",
                 "evaluate", "edit", "execute", "cancelled", "failed"}
  BY PlanLoopAssumption DEF PlanInv, TypeOK
<1>1. ASSUME gate_rounds' = gate_rounds, Stage' < Stage PROVE Below(Rank', Rank)
  BY <1>1, BelowIs DEF ChangesLeft
<1>2. ASSUME gate_rounds' = gate_rounds + 1 PROVE Below(Rank', Rank)
  <2>1. ChangesLeft' < ChangesLeft
    BY <1>0, <1>2 DEF ChangesLeft
  <2>2. QED
    BY <2>1, BelowIs
<1>3. ASSUME gate_rounds' = gate_rounds, Stage' = Stage, LoopRoundsLeft' < LoopRoundsLeft
      PROVE  Below(Rank', Rank)
  BY <1>3, BelowIs DEF ChangesLeft
<1>4. ASSUME gate_rounds' = gate_rounds, Stage' = Stage, LoopRoundsLeft' = LoopRoundsLeft,
             Position' < Position
      PROVE  Below(Rank', Rank)
  BY <1>4, BelowIs DEF ChangesLeft
<1>5. ASSUME NEW plan, FinishDraft(plan), pc \in {"write", "review"}, gate_rounds' = gate_rounds
      PROVE  Below(Rank', Rank)
  BY <1>1, <1>5, StageIs DEF FinishDraft
<1>6. ASSUME NEW plan, EndImprove(plan), pc \in {"audit", "evaluate", "edit"}, gate_rounds' = gate_rounds
      PROVE  Below(Rank', Rank)
  BY <1>1, <1>6, StageIs DEF EndImprove
<1>7. CASE WriterDrafts
  <2>1. /\ pc = "write" /\ gate_rounds' = gate_rounds /\ review_rounds' = review_rounds
        /\ \/ pc' \in {"review", "failed"}
           \/ FinishDraft(draft)
    BY <1>7 DEF WriterDrafts, NewDraft, gateVars
  <2>2. CASE pc' = "review"
    <3>1. Stage' = Stage /\ LoopRoundsLeft' = LoopRoundsLeft
      BY <2>1, <2>2, StageIs, RoundsAre
    <3>2. Position' < Position
      BY <2>1, <2>2 DEF Position
    <3>3. QED
      BY <1>4, <2>1, <3>1, <3>2
  <2>3. CASE pc' = "failed"
    BY <1>1, <2>1, <2>3, StageIs
  <2>4. QED
    BY <1>5, <2>1, <2>2, <2>3
<1>8. CASE DraftApproved
  BY <1>5, <1>8 DEF DraftApproved, gateVars
<1>9. ASSUME NEW n \in Notes, DraftRejected(n) PROVE Below(Rank', Rank)
  <2>1. /\ pc = "review" /\ gate_rounds' = gate_rounds
        /\ \/ FinishDraft(draft)
           \/ pc' = "write" /\ review_rounds' = review_rounds + 1
    BY <1>9 DEF DraftRejected, CountRound, gateVars
  <2>2. CASE pc' = "write" /\ review_rounds' = review_rounds + 1
    <3>1. Stage' = Stage
      BY <2>1, <2>2, StageIs
    <3>2. LoopRoundsLeft' < LoopRoundsLeft
      BY <1>0, <2>1, <2>2, RoundsAre
    <3>3. QED
      BY <1>3, <2>1, <3>1, <3>2
  <2>3. QED
    BY <1>5, <2>1, <2>2
<1>10. CASE PresentAtGate
  <2>1. pc = "present" /\ pc' = "gate" /\ gate_rounds' = gate_rounds
    BY <1>10 DEF PresentAtGate, gateVars
  <2>2. QED
    BY <1>1, <2>1, StageIs
<1>11. CASE WriterRevises
  <2>1. pc = "revise" /\ pc' = "present" /\ gate_rounds' = gate_rounds
    BY <1>11 DEF WriterRevises, gateVars
  <2>2. QED
    BY <1>1, <2>1, StageIs
<1>12. CASE AuditSkipped \/ AuditEnds
  BY <1>6, <1>12 DEF AuditSkipped, AuditEnds, AuditStarts, gateVars
<1>13. CASE Evaluate
  <2>1. /\ pc = "evaluate" /\ gate_rounds' = gate_rounds /\ round' = round
        /\ pc' = "edit" \/ EndImprove(final_plan)
    BY <1>13 DEF Evaluate, gateVars, improveVars
  <2>2. CASE pc' = "edit"
    <3>1. Stage' = Stage /\ LoopRoundsLeft' = LoopRoundsLeft
      BY <2>1, <2>2, StageIs, RoundsAre
    <3>2. Position' < Position
      BY <2>1, <2>2 DEF Position
    <3>3. QED
      BY <1>4, <2>1, <3>1, <3>2
  <2>3. QED
    BY <1>6, <2>1, <2>2
<1>14. CASE EditorRewrites
  <2>1. /\ pc = "edit" /\ gate_rounds' = gate_rounds
        /\ \/ pc' = "audit" /\ round' = round + 1
           \/ EndImprove(final_plan)
    BY <1>14 DEF EditorRewrites, CountImprove, AfterRewrite, gateVars
  <2>2. CASE pc' = "audit" /\ round' = round + 1
    <3>1. Stage' = Stage
      BY <2>1, <2>2, StageIs
    <3>2. LoopRoundsLeft' < LoopRoundsLeft
      BY <1>0, <2>1, <2>2, RoundsAre
    <3>3. QED
      BY <1>3, <2>1, <3>1, <3>2
  <2>3. QED
    BY <1>6, <2>1, <2>2
<1>15. ASSUME NEW d \in Notes, AuditDirects(d) PROVE Below(Rank', Rank)
  <2>1. pc = "audit" /\ pc' = "evaluate" /\ gate_rounds' = gate_rounds /\ round' = round
    BY <1>15 DEF AuditDirects, AuditStarts, gateVars
  <2>2. Stage' = Stage /\ LoopRoundsLeft' = LoopRoundsLeft
    BY <2>1, StageIs, RoundsAre
  <2>3. Position' < Position
    BY <2>1 DEF Position
  <2>4. QED
    BY <1>4, <2>1, <2>2, <2>3
<1>16. CASE PhaseFails
  <2>1. /\ pc \in {"write", "review", "revise", "audit", "evaluate", "edit"} /\ pc' = "failed"
        /\ gate_rounds' = gate_rounds
    BY <1>16 DEF PhaseFails, gateVars
  <2>2. QED
    BY <1>1, <2>1, StageIs
<1>17. ASSUME CountPresentation PROVE gate_rounds' = gate_rounds \/ gate_rounds' = gate_rounds + 1
  BY <1>17 DEF CountPresentation
<1>18. CASE DecideExecute \/ DecideCancel
  <2>1. pc = "gate" /\ pc' \in {"execute", "cancelled"} /\ CountPresentation
    BY <1>18 DEF DecideExecute, DecideCancel
  <2>2. QED
    BY <1>1, <1>2, <1>17, <2>1, StageIs
<1>19. CASE DecideRevise \/ DecideReview \/ DecideOther
  <2>1. CanModify /\ CountPresentation
    BY <1>19 DEF DecideRevise, DecideReview, Idle, DecideOther
  <2>2. QED
    BY <1>2, <2>1 DEF CountPresentation
<1>20. ~UserSavesFile
  BY DEF Idle
<1>21. CASE Roles
  BY <1>7, <1>8, <1>9, <1>10, <1>11, <1>12, <1>13, <1>14, <1>15, <1>16, <1>21 DEF Roles
<1>22. CASE User
  BY <1>18, <1>19, <1>20, <1>22 DEF User
<1>23. QED
  BY <1>21, <1>22 DEF Next

\* The numbers are natural, so that they cannot fall for ever.
LEMMA RankNat == PlanInv => RankIsNat
<1> SUFFICES ASSUME PlanInv, NEW k \in 1..4 PROVE Rank[k] \in Nat
  BY DEF RankIsNat
<1>1. /\ gate_rounds \in 0..MAX_PLAN_GATE_ROUNDS /\ MAX_PLAN_GATE_ROUNDS \in Nat
      /\ review_rounds \in 0..PLAN_WRITER_SAFETY_CAP /\ PLAN_WRITER_SAFETY_CAP \in Nat
      /\ round \in 0..PLAN_IMPROVE_SAFETY_CAP /\ PLAN_IMPROVE_SAFETY_CAP \in Nat
      /\ pc \in {"write", "review", "present", "gate", "revise", "audit",
                 "evaluate", "edit", "execute", "cancelled", "failed"}
  BY PlanLoopAssumption DEF PlanInv, TypeOK
<1>2. ChangesLeft \in Nat
  BY <1>1 DEF ChangesLeft
<1>3. Stage \in Nat
  BY <1>1, StageIs
<1>4. LoopRoundsLeft \in Nat
  BY <1>1, RoundsAre
<1>5. Position \in Nat
  BY <1>1 DEF Position
<1>6. \A x1, x2, x3, x4 \in Nat : <<x1, x2, x3, x4>>[k] \in Nat
  OBVIOUS
<1>7. QED
  BY <1>2, <1>3, <1>4, <1>5, <1>6 DEF Rank

\* Whatever the writers submit and the reviewers note, every step of a role
\* brings the run nearer the user's next decision, and so does every change the
\* gate grants; only the user, by asking again for what the gate no longer
\* offers or by saving the file, can go round for ever.
THEOREM PlansAdvance == Spec => []RankIsNat /\ [][Below(Rank', Rank) \/ Idle]_vars
<1>1. PlanInv /\ [Next]_vars => [Below(Rank', Rank) \/ Idle]_vars
  BY StepFalls
<1>2. QED
  BY <1>1, RankNat, PlanInvHolds, PTL DEF Spec

=============================================================================
