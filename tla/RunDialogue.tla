----------------------------- MODULE RunDialogue ------------------------------
(***************************************************************************)
(* What concurrent runs and the user may rely on when runs ask questions   *)
(* and the user answers or stops them, whatever threads do in between: a   *)
(* run asks one question at a time; at most one answer to it is accepted,  *)
(* and only while it is the run's newest; the run acts on that answer,     *)
(* unless the user has stopped this run or, for external access, time is   *)
(* over; Stop reaches the live runs of its run id, each of them and no     *)
(* other.  There are no registries, channels or flags here, and nothing to *)
(* clean up: an implementation has to hide them.                           *)
(***************************************************************************)
EXTENDS Naturals

CONSTANTS Runs, RunIds, Decisions, MaxRequests

Questions == Runs \X (1..MaxRequests)

VARIABLES
  pc, rid, asked, kind,   \* of each run: its place, id, questions, what it waits for
  answer,                 \* the decisions accepted for each question
  result,                 \* what the run was told
  stopped                 \* the runs the user has stopped

dialogueVars == <<pc, rid, asked, kind, answer, result, stopped>>

Newest(r) == <<r, asked[r]>>
Live(i) == {r \in Runs : rid[r] = i /\ pc[r] \in {"running", "waiting", "decided"}}

Init ==
  /\ pc = [r \in Runs |-> "off"] /\ rid \in [Runs -> RunIds]
  /\ asked = [r \in Runs |-> 0] /\ kind = [r \in Runs |-> "none"]
  /\ answer = [q \in Questions |-> {}] /\ result = [q \in Questions |-> "none"]
  /\ stopped = {}

Moves(r, from, to) == pc[r] = from /\ pc' = [pc EXCEPT ![r] = to]

\* A run begins, goes on after a question, or ends.
Walks(r) ==
  /\ \/ Moves(r, "off", "running") \/ Moves(r, "decided", "running")
     \/ Moves(r, "running", "over")
  /\ UNCHANGED <<rid, asked, kind, answer, result, stopped>>

Asks(r, k) ==
  /\ Moves(r, "running", "waiting") /\ asked[r] < MaxRequests
  /\ asked' = [asked EXCEPT ![r] = @ + 1] /\ kind' = [kind EXCEPT ![r] = k]
  /\ UNCHANGED <<rid, answer, result, stopped>>

\* An answer may still be accepted just after the wait is over; it is not used.
Answers(r, d) ==
  /\ pc[r] \in {"waiting", "decided"} /\ answer[Newest(r)] = {}
  /\ answer' = [answer EXCEPT ![Newest(r)] = {d}]
  /\ UNCHANGED <<pc, rid, asked, kind, result, stopped>>

Outcomes(r) ==
  answer[Newest(r)] \cup {v \in {"cancelled"} : r \in stopped}
                    \cup {v \in {"timeout"} : kind[r] = "external"}

IsTold(r, v) ==
  /\ Moves(r, "waiting", "decided") /\ v \in Outcomes(r)
  /\ result' = [result EXCEPT ![Newest(r)] = v] /\ kind' = [kind EXCEPT ![r] = "none"]
  /\ UNCHANGED <<rid, asked, answer, stopped>>

Stops(i) ==
  /\ stopped' = stopped \cup Live(i)
  /\ UNCHANGED <<pc, rid, asked, kind, answer, result>>

Next ==
  \/ \E r \in Runs :
       \/ Walks(r)
       \/ \E k \in {"gate", "external"} : Asks(r, k)
       \/ \E d \in Decisions : Answers(r, d)
       \/ \E v \in Decisions \cup {"cancelled", "timeout"} : IsTold(r, v)
  \/ \E i \in RunIds : Stops(i)

Spec == Init /\ [][Next]_dialogueVars

=============================================================================
