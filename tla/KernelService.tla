---------------------------- MODULE KernelService -----------------------------
(***************************************************************************)
(* What the RLM kernel promises to the calls that share it: it serves one  *)
(* call after another, each in a session of the call's own project; the    *)
(* session goes on from call to call, with the memo of what they loaded    *)
(* (variables of a model's snippet do not stay), until one fails or is     *)
(* stopped, somebody resets it or needs another project, or the process    *)
(* dies; nothing of an earlier snippet is left in its output (clean); and  *)
(* it reads outside the project only what the user allowed.                *)
(* There is no process, no pipe, no copied list and no lock here: an       *)
(* implementation has to hide them.  A reset replaces the session before   *)
(* the rest of its call is served, and others may be served in between.    *)
(***************************************************************************)
CONSTANTS Tools, Projects, Paths

Nobody == "none"
Nothing == [kind |-> Nobody]
NoSession == [root |-> Nobody]
Kinds == {"python", "reset", "trusted"}

VARIABLES
  wants,      \* of each tool: the call it has made, or Nothing
  serving,    \* whose call is being served, or Nobody
  session,    \* the session, with the tools whose loads its memo has, or NoSession
  allowed     \* paths the user has allowed

serviceVars == <<wants, serving, session, allowed>>

Init ==
  /\ wants = [t \in Tools |-> Nothing] /\ serving = Nobody
  /\ session = NoSession /\ allowed = {}

\* A new session: nothing has run in it.
New(p) == [root : {p}, clean : {TRUE}, reads : SUBSET allowed, memo : {{}}]

Calls(t, k, p) ==
  /\ wants[t] = Nothing /\ wants' = [wants EXCEPT ![t] = [kind |-> k, proj |-> p]]
  /\ UNCHANGED <<serving, session, allowed>>

\* The next call to be served; it is not a reset.
Turn(t, k) == serving = Nobody /\ wants[t] # Nothing /\ wants[t].kind \in k
NeedsSession(t) == session = NoSession \/ session.root # wants[t].proj

\* The call goes on in the session that is there, if it is of its project; what
\* was allowed since may be made known to it, and that may end it.
GoesOn ==
  \/ session' = session
  \/ \E paths \in SUBSET allowed : session' = [session EXCEPT !.reads = paths]
  \/ session' = NoSession

Serves(t) ==
  /\ Turn(t, {"python", "trusted"}) /\ serving' = t
  /\ IF NeedsSession(t) THEN session' \in New(wants[t].proj) ELSE GoesOn
  /\ UNCHANGED <<wants, allowed>>

\* What is left of the call is its snippet, if it has one.
Resets(t) ==
  /\ Turn(t, {"reset"}) /\ session' \in New(wants[t].proj)
  /\ \E rest \in {Nothing, [wants[t] EXCEPT !.kind = "python"]} :
       wants' = [wants EXCEPT ![t] = rest]
  /\ UNCHANGED <<serving, allowed>>

\* No session could be made.
Refuses(t) ==
  /\ Turn(t, Kinds)
  /\ wants[t].kind = "reset" \/ NeedsSession(t)
  /\ session' = NoSession /\ wants' = [wants EXCEPT ![t] = Nothing]
  /\ UNCHANGED <<serving, allowed>>

\* The call has its answer, and what it loaded stays; or it fails, with the session.
Finishes(t) ==
  /\ serving = t /\ serving' = Nobody /\ wants' = [wants EXCEPT ![t] = Nothing]
  /\ \/ session # NoSession /\ session' = [session EXCEPT !.memo = @ \cup {t}]
     \/ session' = NoSession
  /\ UNCHANGED allowed

Dies == session' = NoSession /\ UNCHANGED <<wants, serving, allowed>>
Allows(p) == allowed' = allowed \cup {p} /\ UNCHANGED <<wants, serving, session>>

Next ==
  \/ \E t \in Tools :
       \/ \E k \in Kinds, p \in Projects : Calls(t, k, p)
       \/ Serves(t) \/ Resets(t) \/ Refuses(t) \/ Finishes(t)
  \/ Dies
  \/ \E p \in Paths : Allows(p)

Spec == Init /\ [][Next]_serviceVars

=============================================================================
