------------------------------ MODULE RlmKernel -------------------------------
(***************************************************************************)
(* The RLM kernel: one Python process per IDE, shared by every run, behind *)
(* RlmKernelManager.kernel, a fair async mutex.  A call of rlm_python, and *)
(* each trusted snippet of the swarm (prewarm, inventory, snippet bank),   *)
(* goes through get_or_spawn, which compares the project, copies the list  *)
(* of approved external roots, locks the kernel, respawns a dead one or    *)
(* syncs a stale one, and returns with the lock held.  Awaits separate     *)
(* these steps, and other calls and approvals come in between.             *)
(*                                                                         *)
(* request_external_access registers one request per path and awaits them  *)
(* in order under one deadline; a path the user allows joins the list.     *)
(*                                                                         *)
(* What a snippet computes is not modelled, only whether its output is     *)
(* read, how it ends, and which roots the process it runs in may read.     *)
(* A model's snippet runs in a namespace that is thrown away after it;     *)
(* what outlives it is the memo of the helpers (_rlm_index, _rlm_bank).    *)
(***************************************************************************)
EXTENDS Naturals, FiniteSets

CONSTANTS
  Tools,        \* concurrent tool calls and trusted snippets
  Projects,     \* project roots
  Paths,        \* external paths, canonical
  Broad,        \* those is_broad_root refuses
  MaxCalls,     \* bound: calls begun
  MaxBatches    \* bound: calls of request_external_access

None == "none"

ASSUME KernelAssumption ==
  /\ Broad \subseteq Paths /\ None \notin Tools \cup Projects
  /\ MaxCalls \in Nat /\ MaxBatches \in Nat

VARIABLES
  call,         \* of each tool: pc, kind, proj, and its copy of the allowlist
  calls,        \* calls begun
  kernel,       \* the process, with (history) whose loads its memo has; or NoKernel
  holder,       \* whose guard is alive, or None
  allowlist, dirty,
  batch,        \* the call of request_external_access
  batches,      \* such calls begun
  pending,      \* its requests that are in the registry
  granted       \* history: paths the user allowed

callVars == <<call, calls>>
kernelVars == <<kernel, holder>>
accessVars == <<batch, batches, pending, granted>>
kvars == <<callVars, kernelVars, allowlist, dirty, accessVars>>

Idle == [pc |-> "idle"]
Kinds == {"python", "reset", "trusted"}
NoKernel == [root |-> None, alive |-> FALSE, unread |-> FALSE, allow |-> {}, memo |-> {}]
Process(p, allow) == [root |-> p, alive |-> TRUE, unread |-> FALSE, allow |-> allow, memo |-> {}]
NoBatch == [pc |-> "idle"]

KInit ==
  /\ call = [t \in Tools |-> Idle] /\ calls = 0
  /\ kernel = NoKernel /\ holder = None
  /\ allowlist = {} /\ dirty = FALSE
  /\ batch = NoBatch /\ batches = 0 /\ pending = {} /\ granted = {}

At(t, pc) == call[t].pc = pc
Goto(t, pc) == call' = [call EXCEPT ![t].pc = pc]
Holds(t) == holder = t
LockFree == holder = None

-----------------------------------------------------------------------------
(* get_or_spawn and reset                                                  *)

Begin(t, k, p) ==
  /\ At(t, "idle") /\ calls < MaxCalls /\ calls' = calls + 1
  /\ call' = [call EXCEPT ![t] =
       [pc |-> IF k = "reset" THEN "copy" ELSE "compare", kind |-> k, proj |-> p, copy |-> {}]]
  /\ UNCHANGED <<kernelVars, allowlist, dirty, accessVars>>

\* A kernel of another project: its approvals are to be dropped.
Compare(t) ==
  /\ At(t, "compare") /\ LockFree
  /\ Goto(t, IF kernel # NoKernel /\ kernel.root # call[t].proj THEN "drop" ELSE "copy")
  /\ UNCHANGED <<calls, kernelVars, allowlist, dirty, accessVars>>

DropApprovals(t) ==
  /\ At(t, "drop") /\ Goto(t, "copy")
  /\ allowlist' = {} /\ dirty' = TRUE
  /\ UNCHANGED <<calls, kernelVars, accessVars>>

Copy(t) ==
  /\ At(t, "copy")
  /\ call' = [call EXCEPT ![t].pc = "lock", ![t].copy = allowlist]
  /\ UNCHANGED <<calls, kernelVars, allowlist, dirty, accessVars>>

NeedsRespawn(t) ==
  \/ call[t].kind = "reset"
  \/ kernel = NoKernel
  \/ kernel.root # call[t].proj
  \/ ~kernel.alive

\* kill the old process, spawn one with the copy of the allowlist; the first
\* half of a call with reset: TRUE releases the lock, and the call starts over,
\* or is done if it has no code.
Respawn(t) ==
  /\ At(t, "lock") /\ LockFree /\ NeedsRespawn(t)
  /\ kernel' = Process(call[t].proj, call[t].copy)
  /\ IF call[t].kind = "reset"
     THEN \/ call' = [call EXCEPT ![t] = [@ EXCEPT !.pc = "compare", !.kind = "python", !.copy = {}]]
          \/ call' = [call EXCEPT ![t] = Idle]
     ELSE call' = [call EXCEPT ![t] = [@ EXCEPT !.pc = "exec", !.copy = {}]]
  /\ holder' = IF call[t].kind = "reset" THEN None ELSE t
  /\ UNCHANGED <<calls, allowlist, dirty, accessVars>>

\* python3 does not start, or the bootstrap fails
SpawnFails(t) ==
  /\ At(t, "lock") /\ LockFree /\ NeedsRespawn(t)
  /\ kernel' = NoKernel
  /\ call' = [call EXCEPT ![t] = Idle]
  /\ UNCHANGED <<calls, holder, allowlist, dirty, accessVars>>

\* The kernel is the right one: sync it if an approval came since.  The sync is
\* itself a snippet, and its failure is only logged.
Lock(t) ==
  /\ At(t, "lock") /\ LockFree /\ ~NeedsRespawn(t)
  /\ holder' = t
  /\ call' = [call EXCEPT ![t] = [@ EXCEPT !.pc = "exec", !.copy = {}]]
  /\ IF dirty
     THEN \/ kernel' = [kernel EXCEPT !.allow = allowlist]
          \/ kernel' = [kernel EXCEPT !.alive = FALSE]
     ELSE kernel' = kernel
  /\ dirty' = FALSE
  /\ UNCHANGED <<calls, allowlist, accessVars>>

-----------------------------------------------------------------------------
(* exec_staged, with the lock held                                         *)

\* The guard is dropped, however the call ends.
Returns(t) ==
  /\ call' = [call EXCEPT ![t] = Idle] /\ holder' = None
  /\ UNCHANGED <<calls, allowlist, dirty, accessVars>>

\* Both sentinels arrived: everything the snippet wrote has been read, and what
\* it loaded is in the memo, which the helpers of every namespace share.
Done(t) ==
  /\ At(t, "exec") /\ kernel.alive
  /\ kernel' = [kernel EXCEPT !.unread = FALSE, !.memo = @ \cup {t}]
  /\ Returns(t)

\* Mutant: the wait is given up, the process goes on writing.
AbandonedRuns == [kernel EXCEPT !.unread = TRUE]

\* Output that nobody will read is still coming: the process is killed.
Abandoned == [kernel EXCEPT !.unread = TRUE, !.alive = FALSE]

\* The timeout, or the end of the process; rlm_python then forgets the kernel,
\* the trusted snippets leave a dead one.  Output that is no text ends the reading
\* too: rlm_python kills the process, and the trusted snippets print ASCII.
Fails(t) ==
  /\ At(t, "exec")
  /\ kernel' = IF call[t].kind = "trusted" \/ Abandoned.alive THEN Abandoned ELSE NoKernel
  /\ Returns(t)

\* Stop, while rlm_python executes: kill, and *guard = None
Cancelled(t) ==
  /\ At(t, "exec") /\ call[t].kind = "python"
  /\ kernel' = IF Abandoned.alive THEN Abandoned ELSE NoKernel
  /\ Returns(t)

\* A resource limit, or the user, kills the process.
KernelDies ==
  /\ kernel # NoKernel /\ kernel.alive
  /\ kernel' = [kernel EXCEPT !.alive = FALSE]
  /\ UNCHANGED <<callVars, holder, allowlist, dirty, accessVars>>

-----------------------------------------------------------------------------
(* request_external_access                                                 *)

\* `paths`, in order, each under a fresh id
Ask(paths) ==
  /\ batch.pc = "idle" /\ batches < MaxBatches /\ batches' = batches + 1
  /\ batch' = [pc |-> "await", paths |-> paths, i |-> 1,
               answer |-> [j \in DOMAIN paths |-> "open"], late |-> FALSE, stop |-> FALSE]
  /\ pending' = DOMAIN paths
  /\ UNCHANGED <<callVars, kernelVars, allowlist, dirty, granted>>

\* agent_approve_external_access, agent_deny_external_access
Answer(j, yes) ==
  /\ j \in pending /\ pending' = pending \ {j}
  /\ batch' = [batch EXCEPT !.answer[j] = IF yes THEN "yes" ELSE "no"]
  /\ granted' = IF yes THEN granted \cup {batch.paths[j]} ELSE granted
  /\ UNCHANGED <<callVars, kernelVars, allowlist, dirty, batches>>

\* The five minutes are over; the run is stopped.
DeadlinePasses ==
  /\ batch.pc = "await" /\ ~batch.late /\ batch' = [batch EXCEPT !.late = TRUE]
  /\ UNCHANGED <<callVars, kernelVars, allowlist, dirty, batches, pending, granted>>

StopPressed ==
  /\ batch.pc = "await" /\ ~batch.stop /\ batch' = [batch EXCEPT !.stop = TRUE]
  /\ UNCHANGED <<callVars, kernelVars, allowlist, dirty, batches, pending, granted>>

\* Mutant: an unanswered request counts as allowed when the time is over.
VerdictsByDefault(j) == {batch.answer[j] # "no"}

\* What the select! over the receiver, the flag and the timer may return: any
\* branch that is ready, so a late answer competes with the timer.
Verdicts(j) ==
  {v \in BOOLEAN :
     \/ batch.answer[j] = "yes" /\ v
     \/ batch.answer[j] = "no" /\ ~v
     \/ (batch.stop \/ batch.late) /\ ~v}

\* The closing loop removes every id of the batch.
EndBatch(left) == batch' = NoBatch /\ pending' = {}

\* One path is settled.  A stop ends the batch, whatever was answered; an
\* allowed path joins the list unless it is broad or already there.
Settle(v) ==
  LET j == batch.i
      rest == pending \ {j}
      root == batch.paths[j]
      joins == v /\ ~batch.stop /\ root \notin Broad \cup allowlist
  IN
  /\ batch.pc = "await" /\ v \in Verdicts(j)
  /\ IF batch.stop \/ j + 1 \notin DOMAIN batch.paths
     THEN EndBatch(rest)
     ELSE batch' = [batch EXCEPT !.i = j + 1] /\ pending' = rest
  /\ allowlist' = IF joins THEN allowlist \cup {root} ELSE allowlist
  /\ dirty' = (dirty \/ joins)
  /\ UNCHANGED <<callVars, kernelVars, batches, granted>>

-----------------------------------------------------------------------------
CallStep(t) ==
  \/ Compare(t) \/ DropApprovals(t) \/ Copy(t)
  \/ Respawn(t) \/ SpawnFails(t) \/ Lock(t)
  \/ Done(t) \/ Fails(t)

KNext ==
  \/ \E t \in Tools :
       \/ \E k \in Kinds, p \in Projects : Begin(t, k, p)
       \/ CallStep(t) \/ Cancelled(t)
  \/ KernelDies
  \/ \E p, q \in Paths : p # q /\ Ask(<<p, q>>)
  \/ \E j \in 1..2, yes \in BOOLEAN : Answer(j, yes)
  \/ DeadlinePasses \/ StopPressed
  \/ \E v \in BOOLEAN : Settle(v)

KSpec == KInit /\ [][KNext]_kvars

-----------------------------------------------------------------------------
(* Properties                                                              *)

\* Types; the guard is held by the call that executes, and by no other.
Call == [pc : {"compare", "drop", "copy", "lock", "exec"}, kind : Kinds, proj : Projects,
         copy : SUBSET Paths]
Batch == [pc : {"await"}, paths : [1..2 -> Paths], i : 1..2,
          answer : [1..2 -> {"open", "yes", "no"}], late : BOOLEAN, stop : BOOLEAN]
Kernel == [root : Projects, alive : BOOLEAN, unread : BOOLEAN, allow : SUBSET Paths,
           memo : SUBSET Tools]
KTypeOK ==
  /\ call \in [Tools -> {Idle} \cup Call] /\ calls \in Nat
  /\ kernel \in {NoKernel} \cup Kernel
  /\ holder \in Tools \cup {None} /\ \A t \in Tools : Holds(t) <=> At(t, "exec")
  /\ allowlist \subseteq Paths /\ dirty \in BOOLEAN /\ granted \subseteq Paths
  /\ batch \in {NoBatch} \cup Batch /\ batches \in Nat /\ pending \subseteq 1..2

\* A snippet never reads what an earlier one wrote: after a timeout or a stop the
\* pipe is not used again (exec_staged and rlm_python, on every path).
OwnOutput ==
  \A t \in Tools : At(t, "exec") /\ kernel.alive => ~kernel.unread

\* What may become readable.
Allowed == granted \ Broad

\* What a process may read outside its project was allowed by the user and is not
\* broad, through every copy, sync, respawn and switch of projects.
OnlyGrantedPaths ==
  kernel # NoKernel => kernel.allow \subseteq Allowed

\* A request cannot be answered once its call has returned: "resolved later" would
\* report success to the user for an approval nobody acts on.
NoRequestOutlivesCall ==
  /\ batch.pc = "idle" => pending = {}
  /\ batch.pc = "await" => \A j \in pending : j >= batch.i

\* The abstract specification: KernelService.  A process is a session as long as
\* it lives.
Wanted(c) == IF c = Idle THEN [kind |-> None] ELSE [kind |-> c.kind, proj |-> c.proj]
SessionOf(k) ==
  IF k.alive THEN [root |-> k.root, clean |-> ~k.unread, reads |-> k.allow, memo |-> k.memo]
  ELSE [root |-> None]
Wants == [t \in Tools |-> Wanted(call[t])]
Session == SessionOf(kernel)
Service == INSTANCE KernelService WITH
  wants <- Wants, serving <- holder, session <- Session, allowed <- Allowed

\* The process, its pipe, the copies of the allowlist and the steps of a call keep
\* the promise of KernelService (get_or_spawn, exec_staged and reset on every
\* path): each call is served alone, in a session of its project that has the
\* memo of the calls before it and none of their output.  The description of
\* rlm_python promises more, variables that persist; execute_user_code drops them.
ImplementsService == Service!Spec

=============================================================================
