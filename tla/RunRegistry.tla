----------------------------- MODULE RunRegistry ------------------------------
(***************************************************************************)
(* The state that concurrent runs share in AppState: `active_runs`, the    *)
(* buckets of cancel flags by run id, and the registries of requests that  *)
(* wait for the user (plan and direction decisions, external access).  A   *)
(* run registers its flag, asks for decisions one at a time, and cleans up *)
(* after itself; commands of the UI resolve a request by its id or cancel  *)
(* whatever runs under a run id.                                           *)
(*                                                                         *)
(* A request is a oneshot channel whose sender is in the registry and      *)
(* whose receiver is awaited in a select! with the cancel flag (CancelFlag *)
(* shows that this branch is ready as soon as the flag is set) and, for    *)
(* external access, with a timeout.  The await, the removal from the       *)
(* registry and the commands run on different threads.                     *)
(***************************************************************************)
EXTENDS Naturals, FiniteSets

CONSTANTS
  Runs,         \* invocations of run_swarm, fresh or resumed
  RunIds,       \* run ids; two invocations may have the same one
  Decisions,    \* what the user may answer
  MaxRequests   \* bound: requests of one run

ASSUME RegistryAssumption ==
  /\ MaxRequests \in Nat
  /\ Decisions \cap {"none", "open", "closed", "cancelled", "timeout"} = {}

Requests == Runs \X (1..MaxRequests)

VARIABLES
  pc,           \* of each run
  rid,          \* the run id it was started under
  asked,        \* requests it has made so far; the last one is the current one
  kind,         \* what it awaits: a gate's decision, external access, or none
  active_runs,  \* run id -> cancel flags, named by their run
  cancelled,    \* runs whose cancel flag is set
  pending,      \* requests whose sender is in a registry
  channel,      \* the oneshot of each request
  outcome,      \* what each request's select! returned
  accepted      \* history: the decisions resolve() reported as delivered

runVars == <<pc, rid, asked, kind>>
requestVars == <<pending, channel, outcome, accepted>>
vars == <<runVars, active_runs, cancelled, requestVars>>

Current(r) == <<r, asked[r]>>
Live == {"running", "waiting", "decided"}
Closed == "closed"

Init ==
  /\ pc = [r \in Runs |-> "off"]
  /\ rid \in [Runs -> RunIds]
  /\ asked = [r \in Runs |-> 0]
  /\ kind = [r \in Runs |-> "none"]
  /\ active_runs = [i \in RunIds |-> {}]
  /\ cancelled = {} /\ pending = {}
  /\ channel = [q \in Requests |-> "none"]
  /\ outcome = [q \in Requests |-> "none"]
  /\ accepted = [q \in Requests |-> {}]

RunTo(r, s) == pc' = [pc EXCEPT ![r] = s]

-----------------------------------------------------------------------------
(* A run                                                                   *)

\* active_runs.entry(run_id).or_default().push(cancel)
Register(r) == active_runs' = [active_runs EXCEPT ![rid[r]] = @ \cup {r}]

Start(r) ==
  /\ pc[r] = "off" /\ RunTo(r, "running")
  /\ Register(r)
  /\ UNCHANGED <<rid, asked, kind, cancelled, requestVars>>

\* A gate or tool registers a request under a new id and awaits it.
Ask(r) ==
  /\ pc[r] = "running" /\ asked[r] < MaxRequests
  /\ RunTo(r, "waiting")
  /\ asked' = [asked EXCEPT ![r] = @ + 1]
  /\ \E k \in {"gate", "external"} : kind' = [kind EXCEPT ![r] = k]
  /\ pending' = pending \cup {<<r, asked[r] + 1>>}
  /\ channel' = [channel EXCEPT ![<<r, asked[r] + 1>>] = "open"]
  /\ UNCHANGED <<rid, active_runs, cancelled, outcome, accepted>>

\* The select! returns `result`; the receiver is gone.
Return(r, result) ==
  /\ RunTo(r, "decided")
  /\ outcome' = [outcome EXCEPT ![Current(r)] = result]
  /\ channel' = [channel EXCEPT ![Current(r)] = Closed]
  /\ kind' = [kind EXCEPT ![r] = "none"]
  /\ UNCHANGED <<rid, asked, active_runs, cancelled, pending, accepted>>

\* The receiver is ready: a decision arrived, or the sender was dropped, which
\* counts as a cancel ...
Received(r) ==
  /\ pc[r] = "waiting"
  /\ channel[Current(r)] # "open" \/ Current(r) \notin pending
  /\ Return(r, IF channel[Current(r)] \in Decisions
               THEN channel[Current(r)] ELSE "cancelled")

\* ... or the run is cancelled ...
SelectCancelled(r) ==
  /\ pc[r] = "waiting" /\ r \in cancelled
  /\ Return(r, "cancelled")

\* ... or the 300 s of an external access request are over.
TimesOut(r) ==
  /\ pc[r] = "waiting" /\ kind[r] = "external"
  /\ Return(r, "timeout")

\* registry.remove(&request_id), on every path
Remove(r) == pending' = pending \ {Current(r)}

\* The run goes on after its request.
Proceed(r) ==
  /\ pc[r] = "decided" /\ RunTo(r, "running")
  /\ Remove(r)
  /\ UNCHANGED <<rid, asked, kind, active_runs, cancelled, channel, outcome, accepted>>

\* Mutant: the bucket of the run id goes, with the flags of other runs.
UnregisterBucket(r) == active_runs' = [active_runs EXCEPT ![rid[r]] = {}]

\* remove_active_run: exactly this run's flag.
Unregister(r) == active_runs' = [active_runs EXCEPT ![rid[r]] = @ \ {r}]

\* The registries are shared: a run that ends clears none of them.
LeavesRegistries == pending' = pending

\* run_swarm returned; agent_swarm_chat or agent_resume_run cleans up.
Finish(r) ==
  /\ pc[r] = "running" /\ RunTo(r, "over")
  /\ Unregister(r)
  /\ LeavesRegistries
  /\ UNCHANGED <<rid, asked, kind, cancelled, channel, outcome, accepted>>

-----------------------------------------------------------------------------
(* Commands of the UI                                                      *)

\* Mutant: the sender stays in the registry after it was used.
TakeSenderKeeps(q) == pending' = pending

\* pending.lock().remove(request_id)
TakeSender(q) == pending' = pending \ {q}

\* agent_resolve_*_decision, agent_approve_/deny_external_access: Ok if the
\* request was pending.  Nothing is heard of a send to a dropped receiver.
Resolve(q, d) ==
  /\ q \in pending
  /\ TakeSender(q)
  /\ channel' = IF channel[q] = "open" THEN [channel EXCEPT ![q] = d] ELSE channel
  /\ accepted' = [accepted EXCEPT ![q] = @ \cup {d}]
  /\ UNCHANGED <<runVars, active_runs, cancelled, outcome>>

\* agent_cancel_run
CancelRun(i) ==
  /\ ~(active_runs[i] \subseteq cancelled)
  /\ cancelled' = cancelled \cup active_runs[i]
  /\ UNCHANGED <<runVars, active_runs, requestVars>>

-----------------------------------------------------------------------------
RunStep(r) ==
  \/ Ask(r)
  \/ Received(r) \/ SelectCancelled(r)
  \/ Proceed(r) \/ Finish(r)

Next ==
  \/ \E r \in Runs : Start(r) \/ RunStep(r) \/ TimesOut(r)
  \/ \E q \in Requests, d \in Decisions : Resolve(q, d)
  \/ \E i \in RunIds : CancelRun(i)

Spec == Init /\ [][Next]_vars

-----------------------------------------------------------------------------
(* Properties                                                              *)

\* Types, and what the registries hold: senders that were not used yet.
TypeOK ==
  /\ pc \in [Runs -> Live \cup {"off", "over"}]
  /\ rid \in [Runs -> RunIds]
  /\ asked \in [Runs -> 0..MaxRequests]
  /\ active_runs \in [RunIds -> SUBSET Runs]
  /\ cancelled \in SUBSET Runs
  /\ kind \in [Runs -> {"none", "gate", "external"}]
  /\ pending \in SUBSET {q \in Requests : channel[q] \in {"open", Closed}}
  /\ channel \in [Requests -> Decisions \cup {"none", "open", Closed}]
  /\ outcome \in [Requests -> Decisions \cup {"none", "cancelled", "timeout"}]
  /\ accepted \in [Requests -> SUBSET Decisions]

\* Stop reaches every run for as long as it runs: its flag is in the bucket of
\* its run id, whatever other runs under the same id do, and only then.
LiveRunsCancellable ==
  \A r \in Runs : pc[r] \in Live <=> r \in active_runs[rid[r]]

\* No request outlives the wait for it: a registry entry belongs to a run that
\* awaits it, or is just about to remove it.
NoStaleRequest ==
  \A q \in pending : pc[q[1]] \in {"waiting", "decided"} /\ q = Current(q[1])

\* A run is never told "cancelled" because of what another run did.
OnlyOwnCancel ==
  \A q \in Requests : outcome[q] = "cancelled" => q[1] \in cancelled

\* One answer per request, and the run acts on the answer that was accepted,
\* unless it was cancelled or timed out in the meantime.
AcceptedIsActedOn ==
  \A q \in Requests :
    /\ Cardinality(accepted[q]) <= 1
    /\ outcome[q] \in Decisions => accepted[q] = {outcome[q]}
    /\ outcome[q] # "none" /\ accepted[q] # {} =>
         outcome[q] \in accepted[q] \cup {"cancelled", "timeout"}

\* The abstract specification: RunDialogue, with what resolve() has reported,
\* what the select! returned and whose flag is set.
Dialogue == INSTANCE RunDialogue WITH
  answer <- accepted, result <- outcome, stopped <- cancelled

\* The registries, channels and flags keep the promise of RunDialogue: a step of
\* a run or a command is a step of the dialogue or hidden from it.
ImplementsDialogue == Dialogue!Spec

=============================================================================
