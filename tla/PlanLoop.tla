------------------------------- MODULE PlanLoop -------------------------------
(***************************************************************************)
(* How a plan gets from the Planning Writer to the executors: the          *)
(* writer/reviewer loop of phase 1, the plan gate of phase 2 with its      *)
(* "revise" and "review" decisions, and run_reviewer_improvement_loop.     *)
(*                                                                         *)
(* The plan lives twice: as the parsed struct the run executes             *)
(* (`draft`, `final_plan`) and as the file .kuda/plan/plan.md, which the   *)
(* writers edit, the reviewers read, the gate shows and the user can open. *)
(* The two are connected only by handoff_doc, so the module is about when  *)
(* they agree.  A document is a plan, or Junk that does not parse.         *)
(***************************************************************************)
EXTENDS Naturals

CONSTANTS
  Plans,          \* the plans that may be written
  Junk, Absent,   \* a document that is no plan; no file, or a blank one
  Notes,          \* revision notes, and lists of directions
  PLAN_WRITER_SAFETY_CAP, PLAN_IMPROVE_SAFETY_CAP, MAX_PLAN_GATE_ROUNDS,
  Faults,         \* how a writer may deviate from its instructions
  InitialFiles,   \* what an earlier run may have left in plan.md
  UserMayEdit     \* TRUE if the user saves plan.md while the gate waits

ASSUME PlanLoopAssumption ==
  /\ Junk \notin Plans /\ Absent \notin Plans /\ Junk # Absent
  /\ "none" \notin Plans \cup Notes
  /\ PLAN_WRITER_SAFETY_CAP \in Nat \ {0}
  /\ PLAN_IMPROVE_SAFETY_CAP \in Nat \ {0}
  /\ MAX_PLAN_GATE_ROUNDS \in Nat
  /\ Faults \subseteq {"junk", "no_submit", "text_doc", "elsewhere"}
  /\ InitialFiles \subseteq Plans \cup {Junk, Absent}
  /\ UserMayEdit \in BOOLEAN

VARIABLES
  pc, gate_enabled,
  file,                     \* .kuda/plan/plan.md
  draft, last_draft_md, last_revision_notes, review_rounds,   \* phase 1
  final_plan, shared_plan,  \* the plan to execute; the last [PLAN] message
  shown,                    \* plan_markdown of the last PlanDecisionRequest
  gate_rounds, revisions, reviews,                            \* phase 2
  last_plan_md, last_directions, round, rewritten,            \* "review"
  draft_read,               \* history: the document last read by Plan Reviewer
  deviated                  \* history: the Deviations that have happened

gateVars == <<gate_rounds, revisions, reviews>>
writerVars == <<draft, last_draft_md, last_revision_notes, review_rounds,
                draft_read>>
improveVars == <<last_plan_md, last_directions, round, rewritten>>
vars == <<pc, gate_enabled, file, writerVars, final_plan, shared_plan, shown,
          gateVars, improveVars, deviated>>

None == "none"
Docs == Plans \cup {Junk}

\* What some properties hold only without: documents submitted from another
\* file, and edits that end in junk, without submit_plan, or are the user's.
Deviations == {"elsewhere", "edits"}

\* disk_raw.unwrap_or_else(|| render_plan_markdown(..)): readers prefer the file.
OnDiskOr(doc) == IF file # Absent THEN file ELSE doc

Init ==
  /\ pc = "write" /\ gate_enabled \in BOOLEAN
  /\ file \in InitialFiles
  /\ draft = None /\ last_draft_md = None /\ last_revision_notes = None
  /\ review_rounds = 0 /\ draft_read = None
  /\ final_plan = None /\ shared_plan = None /\ shown = None
  /\ gate_rounds = 0 /\ revisions = 0 /\ reviews = 0
  /\ last_plan_md = None /\ last_directions = None /\ round = 0
  /\ rewritten = FALSE
  /\ deviated = {}

-----------------------------------------------------------------------------
(* A role loop that edits the plan file and hands a document over          *)

\* What the file may hold after the role's own edits.
Edits == Plans \cup {file} \cup (IF "junk" \in Faults THEN {Junk} ELSE {})

\* The loop leaves `f` in the file and handoff_doc returns `doc`; None if no
\* document was submitted, or an empty one.
\*   - as instructed: submit_plan names the plan file and the file is read;
\*   - the response text is itself a document: it wins, and overwrites the file;
\*   - submit_plan names another file, or none: the plan file is not looked at;
\*   - the role stops without submit_plan, having edited the file or not.
HandoffBy(way, doc, f) ==
  \/ way = "submit" /\ f \in Edits \ {Absent} /\ doc = f
  \/ way = "text_doc" /\ doc \in Docs /\ f = doc
  \/ way = "elsewhere" /\ f \in Edits /\ doc \in Docs
  \/ way = "no_submit" /\ f \in Edits /\ doc = None

Handoff(doc, f) ==
  \E way \in {"submit"} \cup (Faults \ {"junk"}) :
    /\ HandoffBy(way, doc, f)
    /\ deviated' =
         deviated \cup {d \in Deviations :
           IF d = "elsewhere" THEN way = d
           ELSE way = "no_submit" \/ Junk \in {doc, f}}

-----------------------------------------------------------------------------
(* Phase 1: Planning Writer and Plan Reviewer                              *)

\* The loop is left with the draft: it becomes the final plan and enters the
\* shared context; the gate, if enabled, is next.
FinishDraft(plan) ==
  /\ final_plan' = plan /\ shared_plan' = plan
  /\ pc' = IF gate_enabled THEN "present" ELSE "execute"

\* Mutant: the reviewer is asked about the first draft only.
NewDraftUnreviewed(doc, md) ==
  /\ draft' = doc /\ last_draft_md' = md
  /\ IF review_rounds > 0 THEN FinishDraft(doc)
     ELSE pc' = "review" /\ UNCHANGED <<final_plan, shared_plan>>

\* A draft that differs from the last one goes to the Plan Reviewer.
NewDraft(doc, md) ==
  /\ draft' = doc /\ last_draft_md' = md
  /\ pc' = "review"
  /\ UNCHANGED <<final_plan, shared_plan>>

\* One Planning Writer loop.  Without a plan the run fails, or keeps the draft
\* of an earlier round; a rewrite that changed nothing ends the loop too.
WriterDrafts ==
  /\ pc = "write"
  /\ \E doc \in Docs \cup {None}, f \in Docs \cup {Absent} :
       LET md == IF f # Absent THEN f ELSE doc
       IN /\ Handoff(doc, f)
          /\ file' = f
          /\ \/ doc \in Plans /\ md # last_draft_md /\ NewDraft(doc, md)
             \/ /\ doc \notin Plans \/ md = last_draft_md
                /\ draft # None /\ FinishDraft(draft)
                /\ UNCHANGED <<draft, last_draft_md>>
             \/ /\ doc \notin Plans /\ draft = None
                /\ pc' = "failed"
                /\ UNCHANGED <<draft, last_draft_md, final_plan, shared_plan>>
  /\ UNCHANGED <<gate_enabled, last_revision_notes, review_rounds, draft_read,
                 shown, gateVars, improveVars>>

CountRound == review_rounds' = review_rounds + 1
WriterCapHit == review_rounds + 1 >= PLAN_WRITER_SAFETY_CAP

\* The Plan Reviewer approves what it read (or says nothing usable).
DraftApproved ==
  /\ pc = "review"
  /\ draft_read' = OnDiskOr(last_draft_md)
  /\ FinishDraft(draft)
  /\ UNCHANGED <<gate_enabled, file, draft, last_draft_md, last_revision_notes,
                 review_rounds, shown, gateVars, improveVars, deviated>>

\* It asks for changes.  The same notes twice, or the last round of the safety
\* cap, end the loop with the draft as it is.
DraftRejected(notes) ==
  /\ pc = "review"
  /\ draft_read' = OnDiskOr(last_draft_md)
  /\ \/ /\ notes = last_revision_notes
        /\ FinishDraft(draft)
        /\ UNCHANGED <<last_revision_notes, review_rounds>>
     \/ /\ notes # last_revision_notes
        /\ last_revision_notes' = notes
        /\ CountRound
        /\ IF WriterCapHit THEN FinishDraft(draft)
           ELSE pc' = "write" /\ UNCHANGED <<final_plan, shared_plan>>
  /\ UNCHANGED <<gate_enabled, file, draft, last_draft_md, shown, gateVars,
                 improveVars, deviated>>

-----------------------------------------------------------------------------
(* Phase 2: the plan gate                                                  *)

\* The locals of run_reviewer_improvement_loop when it is not running.
ResetImprove ==
  /\ last_plan_md' = None /\ last_directions' = None
  /\ round' = 0 /\ rewritten' = FALSE

\* The gate shows the plan file, or the final plan if there is none, and writes
\* what it shows back to the file.
PresentAtGate ==
  /\ pc = "present"
  /\ shown' = OnDiskOr(final_plan) /\ file' = shown'
  /\ pc' = "gate"
  /\ ResetImprove
  /\ UNCHANGED <<gate_enabled, writerVars, final_plan, shared_plan, gateVars,
                 deviated>>

\* While it waits the user may edit the plan file in the IDE.
UserSavesFile ==
  /\ UserMayEdit /\ pc = "gate"
  /\ file' \in Docs \ {file}
  /\ deviated' = deviated \cup {"edits"}
  /\ UNCHANGED <<pc, gate_enabled, writerVars, final_plan, shared_plan, shown,
                 gateVars, improveVars>>

CanModify == gate_rounds < MAX_PLAN_GATE_ROUNDS

\* Presentations are counted; the count stays once changes are no more offered.
CountPresentation ==
  gate_rounds' = IF CanModify THEN gate_rounds + 1 ELSE gate_rounds

DecideExecute ==
  /\ pc = "gate" /\ pc' = "execute"
  /\ CountPresentation
  /\ UNCHANGED <<gate_enabled, file, writerVars, final_plan, shared_plan, shown,
                 revisions, reviews, improveVars, deviated>>

DecideRevise ==
  /\ pc = "gate" /\ CanModify
  /\ pc' = "revise"
  /\ CountPresentation /\ revisions' = revisions + 1
  /\ UNCHANGED <<gate_enabled, file, writerVars, final_plan, shared_plan, shown,
                 reviews, improveVars, deviated>>

DecideReview ==
  /\ pc = "gate" /\ CanModify
  /\ pc' = "audit"
  /\ CountPresentation /\ reviews' = reviews + 1
  /\ UNCHANGED <<gate_enabled, file, writerVars, final_plan, shared_plan, shown,
                 revisions, improveVars, deviated>>

DecideCancel ==
  /\ pc = "gate" /\ pc' = "cancelled"
  /\ CountPresentation
  /\ UNCHANGED <<gate_enabled, file, writerVars, final_plan, shared_plan, shown,
                 revisions, reviews, improveVars, deviated>>

\* Anything else, or a change that is no more offered: back to the gate.
DecideOther ==
  /\ pc = "gate" /\ pc' = "present"
  /\ CountPresentation
  /\ UNCHANGED <<gate_enabled, file, writerVars, final_plan, shared_plan, shown,
                 revisions, reviews, improveVars, deviated>>

\* Mutant: the [PLAN] message keeps the plan of before.
SharedPlanKept == UNCHANGED shared_plan

\* shared.push("[PLAN] ..."): executors read the plan they will run.
RefreshSharedPlan == shared_plan' = final_plan'

\* Mutant: what the writer hands over is not taken.
RevisionDropped(doc) == final_plan

\* A document replaces the final plan if it parses.
TakePlan(doc) == IF doc \in Plans THEN doc ELSE final_plan

\* The Planning Writer applies the user's note.  Without submit_plan the plan
\* file itself is read.
WriterRevises ==
  /\ pc = "revise"
  /\ \E doc \in Docs \cup {None}, f \in Docs \cup {Absent} :
       /\ Handoff(doc, f)
       /\ file' = f
       /\ final_plan' = TakePlan(IF doc = None THEN f ELSE doc)
  /\ RefreshSharedPlan
  /\ pc' = "present"
  /\ UNCHANGED <<gate_enabled, writerVars, shown, gateVars, improveVars>>

-----------------------------------------------------------------------------
(* "review": audit by the Reviewer, evaluation, rewrite by the Plan Editor *)

\* The loop returns `plan`, and the gate is next.
EndImprove(plan) ==
  /\ final_plan' = plan
  /\ RefreshSharedPlan
  /\ pc' = "present"

\* The loop stops before an audit: the safety cap, or a plan file that is what
\* the Reviewer saw last.
AuditSkipped ==
  /\ pc = "audit"
  /\ round >= PLAN_IMPROVE_SAFETY_CAP \/ last_plan_md = OnDiskOr(final_plan)
  /\ EndImprove(final_plan)
  /\ UNCHANGED <<gate_enabled, file, writerVars, shown, gateVars, improveVars,
                 deviated>>

\* The Reviewer reads the plan file.
AuditStarts ==
  /\ pc = "audit"
  /\ round < PLAN_IMPROVE_SAFETY_CAP
  /\ last_plan_md # OnDiskOr(final_plan)
  /\ last_plan_md' = OnDiskOr(final_plan)

\* The Reviewer approves, or repeats the directions of the round before.
AuditEnds ==
  /\ AuditStarts
  /\ EndImprove(final_plan)
  /\ UNCHANGED <<gate_enabled, file, writerVars, shown, gateVars,
                 last_directions, round, rewritten, deviated>>

\* The Reviewer gives new directions.
AuditDirects(directions) ==
  /\ AuditStarts
  /\ directions # last_directions
  /\ last_directions' = directions
  /\ pc' = "evaluate"
  /\ UNCHANGED <<gate_enabled, file, writerVars, final_plan, shared_plan, shown,
                 gateVars, round, rewritten, deviated>>

\* The Plan Reviewer turns the directions into notes, or waves them away.
Evaluate ==
  /\ pc = "evaluate"
  /\ \/ pc' = "edit" /\ UNCHANGED <<final_plan, shared_plan>>
     \/ EndImprove(final_plan)
  /\ UNCHANGED <<gate_enabled, file, writerVars, shown, gateVars, improveVars,
                 deviated>>

\* Mutant: the improvement round is not counted.
ImproveNotCounted == round' = round

CountImprove == round' = round + 1

\* Mutant: the rewritten plan is shipped.
AfterRewriteShip == RefreshSharedPlan /\ pc' = "present"

\* The rewritten plan is audited again.
AfterRewrite == UNCHANGED shared_plan /\ pc' = "audit"

\* The Plan Editor rewrites the plan; a failed rewrite ends the loop.
EditorRewrites ==
  /\ pc = "edit"
  /\ \E doc \in Docs \cup {None}, f \in Docs \cup {Absent} :
       /\ Handoff(doc, f)
       /\ file' = f
       /\ \/ /\ doc \in Plans
             /\ final_plan' = doc /\ rewritten' = TRUE
             /\ CountImprove
             /\ AfterRewrite
          \/ /\ doc \notin Plans
             /\ EndImprove(final_plan)
             /\ UNCHANGED <<round, rewritten>>
  /\ UNCHANGED <<gate_enabled, writerVars, shown, gateVars, last_plan_md,
                 last_directions>>

\* A role loop of any phase fails or is stopped.
PhaseFails ==
  /\ pc \in {"write", "review", "revise", "audit", "evaluate", "edit"}
  /\ pc' = "failed"
  /\ UNCHANGED <<gate_enabled, file, writerVars, final_plan, shared_plan, shown,
                 gateVars, improveVars, deviated>>

-----------------------------------------------------------------------------
Roles ==
  \/ WriterDrafts \/ DraftApproved
  \/ \E n \in Notes : DraftRejected(n)
  \/ PresentAtGate
  \/ WriterRevises
  \/ AuditSkipped \/ AuditEnds \/ Evaluate \/ EditorRewrites
  \/ \E d \in Notes : AuditDirects(d)
  \/ PhaseFails

User ==
  \/ DecideExecute \/ DecideRevise \/ DecideReview \/ DecideCancel \/ DecideOther
  \/ UserSavesFile

Next == Roles \/ User

Spec == Init /\ [][Next]_vars

\* Every role loop ends: it has a turn limit and its calls have timeouts.
FairSpec == Spec /\ WF_vars(Roles)

-----------------------------------------------------------------------------
(* Properties                                                              *)

\* Types; the rounds of both loops and of the gate stay within their caps.
TypeOK ==
  /\ pc \in {"write", "review", "present", "gate", "revise", "audit",
             "evaluate", "edit", "execute", "cancelled", "failed"}
  /\ gate_enabled \in BOOLEAN
  /\ file \in Docs \cup {Absent}
  /\ draft \in Plans \cup {None} /\ last_draft_md \in Docs \cup {None}
  /\ last_revision_notes \in Notes \cup {None}
  /\ review_rounds \in 0..PLAN_WRITER_SAFETY_CAP
  /\ draft_read \in Docs \cup {None}
  /\ final_plan \in Plans \cup {None} /\ shared_plan \in Plans \cup {None}
  /\ shown \in Docs \cup {None}
  /\ gate_rounds \in 0..MAX_PLAN_GATE_ROUNDS
  /\ revisions \in Nat /\ reviews \in Nat
  /\ last_plan_md \in Docs \cup {None} /\ last_directions \in Notes \cup {None}
  /\ round \in 0..PLAN_IMPROVE_SAFETY_CAP
  /\ rewritten \in BOOLEAN
  /\ deviated \in SUBSET Deviations

\* What the executors read as [PLAN] in the shared context is the plan whose
\* tasks they run, whatever the gate did to it and whatever is in the file.
ExecutorsSeeTheirPlan ==
  pc \in {"gate", "execute"} => final_plan \in Plans /\ shared_plan = final_plan

\* The user gets at most MAX_PLAN_GATE_ROUNDS changes of either kind in a turn.
GateBudget == revisions + reviews <= MAX_PLAN_GATE_ROUNDS

\* "Plan drafted by Planning Writer and verified by Plan Reviewer": the plan
\* that leaves phase 1 is the document the Plan Reviewer read last, also when a
\* later rewrite failed, hit the cap or left half-edited text in the file; only
\* a document submitted from another file escapes the Reviewer.
DraftWasReviewed ==
  /\ pc \in {"present", "execute"} /\ revisions + reviews = 0
  /\ "elsewhere" \notin deviated
  => draft_read = final_plan

\* The plan on the screen when the user decides is the plan Execute runs, as
\* long as the writers follow their instructions and the user leaves the file.
ShownIsFinal == pc = "gate" /\ deviated = {} => shown = final_plan

\* The plan that comes out of "review" after a rewrite is the one the Reviewer
\* audited last, unless the safety cap cut the loop off or the rewrite was
\* submitted from another file.
AuditedUnlessCapped ==
  pc = "present" /\ rewritten /\ "elsewhere" \notin deviated =>
    round = PLAN_IMPROVE_SAFETY_CAP \/ last_plan_md = final_plan

\* Both loops end: the writer and the reviewers cannot keep the run from the
\* user with an endless exchange of notes.
PlanLoopsEnd ==
  /\ pc \in {"write", "review"} ~> pc \in {"gate", "execute", "failed"}
  /\ pc = "audit" ~> pc \in {"gate", "failed"}

=============================================================================
