------------------------------- MODULE RlmProofs -------------------------------
(***************************************************************************)
(* Proofs about the two halves of the RLM's persistence, each of them a    *)
(* specification of its own.                                               *)
(*                                                                         *)
(* RlmKernel, for any number of calls, projects, paths and batches of      *)
(* requests: the invariant has one part for each of the three that share   *)
(* the allowlist, which are the calls with their copies of it, the         *)
(* process, and the requests that feed it.                                 *)
(*                                                                         *)
(* RlmCache, for any files, number of runs at one time and number of       *)
(* edits: the argument rests on the order of the three looks at a file.  A *)
(* run's manifest is older than what its research reads, and that is older *)
(* than the manifest of any run that can find the brief.  Stamps only      *)
(* grow, so a file that changed after the first look cannot show the first *)
(* look's stamp at the third.                                              *)
(***************************************************************************)
EXTENDS RlmKernel, RlmCache, TLAPS

-----------------------------------------------------------------------------
(* The kernel.                                                             *)

\* The guard belongs to the call that executes, and a copy of the allowlist,
\* however old, holds only paths that the user allowed.
CallInv ==
  /\ call \in [Tools -> {Idle} \cup Call] /\ calls \in Nat
  /\ holder \in Tools \cup {None} /\ \A t \in Tools : Holds(t) <=> At(t, "exec")
  /\ \A t \in Tools : call[t] # Idle => call[t].copy \subseteq Allowed

\* A process with output nobody has read is dead; nothing executes without one.
KernelInv ==
  /\ kernel \in {NoKernel} \cup Kernel
  /\ holder # None => kernel \in Kernel
  /\ kernel.alive => ~kernel.unread
  /\ kernel.allow \subseteq Allowed

\* A "yes" that is not yet settled is in the history of what was granted.
AccessInv ==
  /\ allowlist \subseteq Allowed /\ dirty \in BOOLEAN /\ granted \subseteq Paths
  /\ batch \in {NoBatch} \cup Batch /\ batches \in Nat /\ pending \subseteq 1..2
  /\ batch # NoBatch =>
       \A j \in 1..2 : batch.answer[j] = "yes" => batch.paths[j] \in granted
  /\ NoRequestOutlivesCall

KInv == CallInv /\ KernelInv /\ AccessInv

\* The invariant is as strong as the types and what is to be proved.
LEMMA KInvImplies == KInv => KTypeOK /\ OwnOutput /\ OnlyGrantedPaths /\ NoRequestOutlivesCall
<1> SUFFICES ASSUME KInv
             PROVE  KTypeOK /\ OwnOutput /\ OnlyGrantedPaths /\ NoRequestOutlivesCall
  OBVIOUS
<1>1. KTypeOK
  BY DEF KInv, CallInv, KernelInv, AccessInv, Allowed, KTypeOK
<1>2. OwnOutput /\ OnlyGrantedPaths
  BY DEF KInv, KernelInv, Allowed, OwnOutput, OnlyGrantedPaths
<1>3. NoRequestOutlivesCall
  BY DEF KInv, AccessInv
<1>4. QED
  BY <1>1, <1>2, <1>3

\* Nothing runs and nothing is allowed at the start.
LEMMA KInvInit == KInit => KInv
<1> SUFFICES ASSUME KInit PROVE KInv
  OBVIOUS
<1>1. CallInv
  BY KernelAssumption DEF KInit, CallInv, Idle, Holds, At
<1>2. KernelInv
  BY DEF KInit, KernelInv, NoKernel
<1>3. AccessInv
  BY DEF KInit, AccessInv, NoBatch, NoRequestOutlivesCall
<1>4. QED
  BY <1>1, <1>2, <1>3 DEF KInv

-----------------------------------------------------------------------------
(* The calls                                                               *)

\* A call that is somewhere has begun.
LEMMA CallBegun ==
  ASSUME CallInv, NEW t \in Tools, call[t].pc # "idle"
  PROVE  /\ call[t] \in Call /\ call[t].proj \in Projects
         /\ call[t].copy \subseteq Allowed /\ call[t].copy \subseteq Paths
  BY DEF CallInv, Idle, Call

\* A call goes on: it takes the guard as it starts to execute, or leaves it alone.
LEMMA CallGoesOn ==
  ASSUME CallInv, NEW t \in Tools, NEW c \in Call,
         call' = [call EXCEPT ![t] = c], c.copy \subseteq Allowed,
         UNCHANGED granted, calls' \in Nat,
         \/ c.pc = "exec" /\ holder = None /\ holder' = t
         \/ c.pc # "exec" /\ ~Holds(t) /\ UNCHANGED holder
  PROVE  CallInv'
  BY KernelAssumption DEF CallInv, Holds, At, Allowed

\* A call returns, and drops the guard if it has it.
LEMMA CallReturns ==
  ASSUME CallInv, NEW t \in Tools, call' = [call EXCEPT ![t] = Idle],
         UNCHANGED <<granted, calls>>,
         \/ Holds(t) /\ holder' = None
         \/ ~Holds(t) /\ UNCHANGED holder
  PROVE  CallInv'
  BY KernelAssumption DEF CallInv, Holds, At, Allowed, Idle

-----------------------------------------------------------------------------
(* The process                                                             *)

\* A process is not NoKernel.
LEMMA KernelIsNot == NoKernel \notin Kernel
  BY KernelAssumption DEF Kernel, NoKernel

\* No process: nothing to read, and no output.
LEMMA NoKernelRecord == ~NoKernel.alive /\ NoKernel.allow = {}
  BY DEF NoKernel

-----------------------------------------------------------------------------
(* The steps                                                               *)

\* get_or_spawn up to the lock: the guard, the process and the requests are
\* left alone, except that a switch of projects empties the list.
LEMMA CallStepsKeepInv ==
  ASSUME KInv, NEW t \in Tools,
         \/ \E k \in Kinds, p \in Projects : Begin(t, k, p)
         \/ Compare(t) \/ DropApprovals(t) \/ Copy(t)
  PROVE  KInv'
<1> USE DEF KInv, At, Goto, kernelVars, accessVars
<1>1. ASSUME NEW k \in Kinds, NEW p \in Projects, Begin(t, k, p) PROVE CallInv'
  <2> DEFINE c == [pc |-> IF k = "reset" THEN "copy" ELSE "compare", kind |-> k,
                   proj |-> p, copy |-> {}]
  <2>1. c \in Call /\ c.copy = {} /\ c.pc # "exec"
    BY DEF Call
  <2>2. call' = [call EXCEPT ![t] = c] /\ calls' \in Nat /\ UNCHANGED <<granted, holder>>
    BY <1>1 DEF Begin, CallInv
  <2>3. ~Holds(t)
    BY <1>1 DEF Begin, CallInv
  <2> HIDE DEF c
  <2>4. QED
    BY <2>1, <2>2, <2>3, CallGoesOn
<1>2. ASSUME Compare(t) PROVE CallInv'
  <2>1. PICK at \in {"drop", "copy"} : call' = [call EXCEPT ![t] = [call[t] EXCEPT !.pc = at]]
    BY <1>2 DEF Compare
  <2>2. call[t] \in Call /\ call[t].copy \subseteq Allowed
    BY <1>2, CallBegun DEF Compare
  <2> DEFINE c == [call[t] EXCEPT !.pc = at]
  <2>3. c \in Call /\ c.copy \subseteq Allowed /\ c.pc # "exec"
    BY <2>2 DEF Call, Kinds
  <2>4. ~Holds(t) /\ calls' \in Nat /\ UNCHANGED <<granted, holder>>
    BY <1>2 DEF Compare, CallInv
  <2> HIDE DEF c
  <2>5. call' = [call EXCEPT ![t] = c]
    BY <2>1 DEF c
  <2>6. QED
    BY <2>3, <2>4, <2>5, CallGoesOn
<1>3. ASSUME DropApprovals(t) PROVE CallInv'
  <2>1. call[t] \in Call /\ call[t].copy \subseteq Allowed
    BY <1>3, CallBegun DEF DropApprovals
  <2> DEFINE c == [call[t] EXCEPT !.pc = "copy"]
  <2>2. c \in Call /\ c.copy \subseteq Allowed /\ c.pc # "exec"
    BY <2>1 DEF Call, Kinds
  <2>3. ~Holds(t) /\ calls' \in Nat /\ UNCHANGED <<granted, holder>>
    BY <1>3 DEF DropApprovals, CallInv
  <2> HIDE DEF c
  <2>4. call' = [call EXCEPT ![t] = c]
    BY <1>3 DEF DropApprovals, c
  <2>5. QED
    BY <2>2, <2>3, <2>4, CallGoesOn
<1>4. ASSUME Copy(t) PROVE CallInv'
  <2>1. call[t] \in Call /\ allowlist \subseteq Paths /\ allowlist \subseteq Allowed
    BY <1>4, CallBegun DEF Copy, AccessInv, Allowed
  <2> DEFINE c == [call[t] EXCEPT !.pc = "lock", !.copy = allowlist]
  <2>2. c \in Call /\ c.copy \subseteq Allowed /\ c.pc # "exec"
    BY <2>1 DEF Call, Kinds
  <2>3. ~Holds(t) /\ calls' \in Nat /\ UNCHANGED <<granted, holder>>
    BY <1>4 DEF Copy, CallInv
  <2> HIDE DEF c
  <2>4. call' = [call EXCEPT ![t] = c]
    BY <1>4 DEF Copy, c
  <2>5. QED
    BY <2>2, <2>3, <2>4, CallGoesOn
<1>5. KernelInv'
  BY DEF KernelInv, Allowed, Begin, Compare, DropApprovals, Copy
<1>6. AccessInv'
  BY DEF AccessInv, Allowed, NoRequestOutlivesCall, Begin, Compare, DropApprovals, Copy
<1>7. QED
  BY <1>1, <1>2, <1>3, <1>4, <1>5, <1>6

\* The guard is taken: a new process gets the copy, an old one the list itself.
LEMMA LockStepsKeepInv ==
  ASSUME KInv, NEW t \in Tools, Respawn(t) \/ SpawnFails(t) \/ Lock(t)
  PROVE  KInv'
<1> USE DEF KInv, At, LockFree, accessVars
<1>1. /\ call[t] \in Call /\ call[t].proj \in Projects
      /\ call[t].copy \subseteq Allowed /\ call[t].copy \subseteq Paths
  BY CallBegun DEF Respawn, SpawnFails, Lock
<1>2. holder = None /\ ~Holds(t) /\ UNCHANGED granted /\ calls' \in Nat
  BY KernelAssumption DEF Respawn, SpawnFails, Lock, CallInv, Holds
<1>3. AccessInv'
  <2>1. allowlist' = allowlist /\ dirty' \in BOOLEAN
    BY DEF Respawn, SpawnFails, Lock, AccessInv
  <2>2. QED
    BY <2>1 DEF Respawn, SpawnFails, Lock, AccessInv, Allowed, NoRequestOutlivesCall
<1>4. ASSUME Respawn(t) PROVE CallInv' /\ KernelInv'
  <2>1. KernelInv'
    <3>1. kernel' = Process(call[t].proj, call[t].copy)
      BY <1>4 DEF Respawn
    <3>2. kernel' \in Kernel /\ ~kernel'.unread /\ kernel'.allow = call[t].copy
      BY <1>1, <3>1 DEF Process, Kernel
    <3>3. QED
      BY <1>1, <1>2, <3>2 DEF KernelInv, Allowed
  <2>2. CASE call[t].kind = "reset"
    <3> DEFINE c == [call[t] EXCEPT !.pc = "compare", !.kind = "python", !.copy = {}]
    <3>1. c \in Call /\ c.pc = "compare" /\ c.copy = {}
      BY <1>1 DEF Call, Kinds
    <3>2. UNCHANGED <<holder, calls>>
      BY <1>2, <1>4, <2>2 DEF Respawn
    <3> HIDE DEF c
    <3>3. CASE call' = [call EXCEPT ![t] = c]
      BY <1>2, <2>1, <3>1, <3>2, <3>3, CallGoesOn
    <3>4. CASE call' = [call EXCEPT ![t] = Idle]
      BY <1>2, <2>1, <3>2, <3>4, CallReturns
    <3>5. QED
      BY <1>4, <2>2, <3>3, <3>4 DEF Respawn, c
  <2>3. CASE call[t].kind # "reset"
    <3> DEFINE c == [call[t] EXCEPT !.pc = "exec", !.copy = {}]
    <3>1. c \in Call /\ c.pc = "exec" /\ c.copy = {}
      BY <1>1 DEF Call, Kinds
    <3>2. call' = [call EXCEPT ![t] = c] /\ holder' = t
      BY <1>4, <2>3 DEF Respawn
    <3> HIDE DEF c
    <3>3. QED
      BY <1>2, <2>1, <3>1, <3>2, CallGoesOn
  <2>4. QED
    BY <2>2, <2>3
<1>5. ASSUME SpawnFails(t) PROVE CallInv' /\ KernelInv'
  <2>1. CallInv'
    BY <1>2, <1>5, CallReturns DEF SpawnFails
  <2>2. KernelInv'
    BY <1>2, <1>5, NoKernelRecord DEF SpawnFails, KernelInv
  <2>3. QED
    BY <2>1, <2>2
<1>6. ASSUME Lock(t) PROVE CallInv' /\ KernelInv'
  <2>1. kernel \in Kernel
    <3>1. ~NeedsRespawn(t)
      BY <1>6 DEF Lock
    <3>2. kernel # NoKernel
      BY <3>1 DEF NeedsRespawn
    <3>3. QED
      BY <3>2 DEF KernelInv
  <2>2. allowlist \subseteq Paths /\ allowlist \subseteq Allowed
    BY DEF AccessInv, Allowed
  <2>3. kernel' \in {kernel, [kernel EXCEPT !.allow = allowlist], [kernel EXCEPT !.alive = FALSE]}
    BY <1>6 DEF Lock
  <2>4. KernelInv'
    <3>1. kernel.alive => ~kernel.unread
      BY DEF KernelInv
    <3>2. kernel.allow \subseteq Allowed
      BY DEF KernelInv
    <3>3. kernel' \in Kernel /\ kernel'.allow \in {kernel.allow, allowlist}
          /\ (kernel'.alive => ~kernel'.unread)
      BY <2>1, <2>2, <2>3, <3>1 DEF Kernel
    <3>4. QED
      BY <1>2, <2>2, <3>2, <3>3 DEF KernelInv, Allowed
  <2> DEFINE c == [call[t] EXCEPT !.pc = "exec", !.copy = {}]
  <2>5. c \in Call /\ c.pc = "exec" /\ c.copy = {}
    BY <1>1 DEF Call, Kinds
  <2>6. call' = [call EXCEPT ![t] = c] /\ holder' = t
    BY <1>6 DEF Lock
  <2> HIDE DEF c
  <2>7. QED
    BY <1>2, <2>4, <2>5, <2>6, CallGoesOn
<1>7. QED
  BY <1>3, <1>4, <1>5, <1>6

\* However an execution ends, its output is read or its process is dead.
LEMMA ExecStepsKeepInv ==
  ASSUME KInv, NEW t \in Tools, Done(t) \/ Fails(t) \/ Cancelled(t)
  PROVE  KInv'
<1> USE DEF KInv, At, Returns, accessVars
<1>1. Holds(t) /\ kernel \in Kernel /\ holder' = None
  <2>1. call[t].pc = "exec" /\ holder' = None
    BY DEF Done, Fails, Cancelled
  <2>2. Holds(t) /\ holder # None
    BY <2>1, KernelAssumption DEF CallInv, Holds
  <2>3. QED
    BY <2>1, <2>2 DEF KernelInv
<1>2. CallInv'
  BY <1>1, CallReturns DEF Done, Fails, Cancelled
<1>3. kernel' \in {NoKernel, [kernel EXCEPT !.unread = FALSE, !.memo = @ \cup {t}],
                 [kernel EXCEPT !.unread = TRUE, !.alive = FALSE]}
  BY DEF Done, Fails, Cancelled, Abandoned
<1>4. kernel.allow \subseteq Allowed /\ UNCHANGED granted
  BY DEF KernelInv, Done, Fails, Cancelled
<1>5. KernelInv'
  <2>1. CASE kernel' = NoKernel
    BY <1>1, <2>1, NoKernelRecord DEF KernelInv
  <2>2. CASE kernel' # NoKernel
    <3>1. /\ kernel' \in Kernel /\ kernel'.allow = kernel.allow
          /\ kernel'.alive => ~kernel'.unread
      <4>1. CASE kernel' = [kernel EXCEPT !.unread = FALSE, !.memo = @ \cup {t}]
        BY <1>1, <4>1 DEF Kernel
      <4>2. CASE kernel' = [kernel EXCEPT !.unread = TRUE, !.alive = FALSE]
        BY <1>1, <4>2 DEF Kernel
      <4>3. QED
        BY <1>3, <2>2, <4>1, <4>2
    <3>2. QED
      BY <1>1, <1>4, <3>1 DEF KernelInv, Allowed
  <2>3. QED
    BY <2>1, <2>2
<1>6. AccessInv'
  BY DEF AccessInv, Allowed, NoRequestOutlivesCall, Done, Fails, Cancelled
<1>7. QED
  BY <1>2, <1>5, <1>6

\* A process that dies keeps its roots.
LEMMA DeathKeepsInv == ASSUME KInv, KernelDies PROVE KInv'
<1> USE DEF KInv, accessVars, callVars
<1>1. kernel \in Kernel /\ kernel' = [kernel EXCEPT !.alive = FALSE]
  BY DEF KernelDies, KernelInv
<1>2. KernelInv'
  <2>1. kernel' \in Kernel /\ ~kernel'.alive /\ kernel'.allow = kernel.allow
    BY <1>1 DEF Kernel
  <2>2. QED
    BY <2>1 DEF KernelDies, KernelInv, Allowed
<1>3. CallInv' /\ AccessInv'
  BY DEF KernelDies, CallInv, AccessInv, Allowed, Holds, At, NoRequestOutlivesCall
<1>4. QED
  BY <1>2, <1>3

\* What a batch is after the deadline or Stop has been noted.
LEMMA Noted ==
  ASSUME NEW b \in Batch, NEW n \in {[b EXCEPT !.late = TRUE], [b EXCEPT !.stop = TRUE]}
  PROVE  n \in Batch /\ n.pc = "await" /\ n.paths = b.paths /\ n.answer = b.answer /\ n.i = b.i
<1>1. CASE n = [b EXCEPT !.late = TRUE]
  BY <1>1 DEF Batch
<1>2. CASE n = [b EXCEPT !.stop = TRUE]
  BY <1>2 DEF Batch
<1>3. QED
  BY <1>1, <1>2

LEMMA OnlyNotedKeepsInv ==
  ASSUME KInv, batch.pc = "await", UNCHANGED <<allowlist, dirty, batches, pending, granted>>,
         batch' \in {[batch EXCEPT !.late = TRUE], [batch EXCEPT !.stop = TRUE]}
  PROVE  AccessInv'
<1>1. AccessInv /\ batch \in Batch
  BY DEF KInv, AccessInv, NoBatch
<1>2. /\ batch' \in Batch /\ batch'.pc = "await" /\ batch'.paths = batch.paths
      /\ batch'.answer = batch.answer /\ batch'.i = batch.i
  BY <1>1, Noted
<1>3. batch # NoBatch /\ batch' # NoBatch
  BY <1>2 DEF NoBatch
<1>4. NoRequestOutlivesCall'
  BY <1>1, <1>2 DEF AccessInv, NoRequestOutlivesCall
<1>5. QED
  BY <1>1, <1>2, <1>3, <1>4 DEF AccessInv, Allowed

\* The history of what was granted only grows, so the lists stay within it.
LEMMA AccessStepsKeepInv ==
  ASSUME KInv,
         \/ \E p, q \in Paths : Ask(<<p, q>>)
         \/ \E j \in 1..2, yes \in BOOLEAN : Answer(j, yes)
         \/ DeadlinePasses \/ StopPressed
         \/ \E v \in BOOLEAN : Settle(v)
  PROVE  KInv'
<1> USE DEF KInv, callVars, kernelVars
<1>1. /\ UNCHANGED <<call, calls, kernel, holder>> /\ Allowed \subseteq Allowed'
  BY DEF Ask, Answer, DeadlinePasses, StopPressed, Settle, Allowed
<1>2. CallInv' /\ KernelInv'
  BY <1>1 DEF CallInv, KernelInv, Holds, At
<1> USE DEF AccessInv, Allowed, NoRequestOutlivesCall, NoBatch, Batch
<1>3. ASSUME NEW p \in Paths, NEW q \in Paths, Ask(<<p, q>>) PROVE AccessInv'
  BY <1>3 DEF Ask
<1>4. ASSUME NEW j \in 1..2, NEW yes \in BOOLEAN, Answer(j, yes) PROVE AccessInv'
  BY <1>4 DEF Answer
<1>5. ASSUME DeadlinePasses \/ StopPressed PROVE AccessInv'
  BY <1>1, <1>5, OnlyNotedKeepsInv DEF DeadlinePasses, StopPressed, callVars, kernelVars
<1>6. ASSUME NEW v \in BOOLEAN, Settle(v) PROVE AccessInv'
  BY <1>6 DEF Settle, Verdicts, EndBatch
<1>7. QED
  BY <1>2, <1>3, <1>4, <1>5, <1>6

\* Every step keeps KInv.
LEMMA KInvStep == KInv /\ [KNext]_kvars => KInv'
<1> SUFFICES ASSUME KInv, [KNext]_kvars PROVE KInv'
  OBVIOUS
<1>1. CASE UNCHANGED kvars
  BY <1>1 DEF kvars, callVars, kernelVars, accessVars, KInv, CallInv, KernelInv, AccessInv,
              Allowed, Holds, At, NoRequestOutlivesCall
<1>2. QED
  BY <1>1, CallStepsKeepInv, LockStepsKeepInv, ExecStepsKeepInv, DeathKeepsInv,
     AccessStepsKeepInv DEF KNext, CallStep

\* The invariant that carries the theorems.
LEMMA KInvHolds == KSpec => []KInv
<1>1. KInit => KInv
  BY KInvInit
<1>2. KInv /\ [KNext]_kvars => KInv'
  BY KInvStep
<1>3. QED
  BY <1>1, <1>2, PTL DEF KSpec

\* Types, for any number of concurrent calls; one call at a time executes, and
\* it is the one that holds the kernel's guard.
THEOREM KernelTypeCorrect == KSpec => []KTypeOK
<1>1. KInv => KTypeOK
  BY KInvImplies
<1>2. QED
  BY <1>1, KInvHolds, PTL

\* No snippet reads what another one wrote, for any number of calls, timeouts,
\* stops and processes that die.
THEOREM OutputIsOwn == KSpec => []OwnOutput
<1>1. KInv => OwnOutput
  BY KInvImplies
<1>2. QED
  BY <1>1, KInvHolds, PTL

\* The process reads only what the user allowed, and nothing broad, for any
\* number of projects, paths, approvals and respawns.
THEOREM PathsAreGranted == KSpec => []OnlyGrantedPaths
<1>1. KInv => OnlyGrantedPaths
  BY KInvImplies
<1>2. QED
  BY <1>1, KInvHolds, PTL

\* A request is in the registry only while its call awaits it or a later one.
THEOREM RequestsEndWithTheirCall == KSpec => []NoRequestOutlivesCall
<1>1. KInv => NoRequestOutlivesCall
  BY KInvImplies
<1>2. QED
  BY <1>1, KInvHolds, PTL

-----------------------------------------------------------------------------
(* The service.  What a call wants changes when it begins, when the reset  *)
(* in it is done and when it returns; everything else a call does with its *)
(* lock and its copy is hidden.  The session changes with the process.     *)

\* The service shows only the kind and the project of a call.
LEMMA CallShows ==
  ASSUME CallInv, NEW t \in Tools, NEW c, call' = [call EXCEPT ![t] = c]
  PROVE  /\ Wants[t] = Wanted(call[t])
         /\ Wants' = [Wants EXCEPT ![t] = Wanted(c)]
         /\ Wanted(c) = Wants[t] => UNCHANGED Wants
<1>1. Wants' = [s \in Tools |-> IF s = t THEN Wanted(c) ELSE Wanted(call[s])]
  BY DEF CallInv, Wants
<1>2. QED
  BY <1>1 DEF Wants

\* What is wanted of a call that goes on, and of one that has returned.
LEMMA WantedOf ==
  /\ \A c \in Call : Wanted(c) = [kind |-> c.kind, proj |-> c.proj]
  /\ Wanted(Idle) = Service!Nothing
  /\ \A c \in Call : Wanted(c) # Service!Nothing
<1>1. \A c \in Call : c # Idle
  BY DEF Call, Idle
<1>2. \A c \in Call : c.kind \in Kinds /\ c.kind # None
  BY DEF Call, Kinds, None
<1>3. \A c \in Call : Wanted(c) = [kind |-> c.kind, proj |-> c.proj]
  BY <1>1 DEF Wanted
<1>4. \A c \in Call : Wanted(c) # Service!Nothing
  <2> SUFFICES ASSUME NEW c \in Call PROVE Wanted(c).kind # Service!Nothing.kind
    OBVIOUS
  <2>1. Wanted(c).kind = c.kind
    BY <1>3
  <2>2. QED
    BY <1>2, <2>1 DEF Service!Nothing, Service!Nobody, None
<1>5. QED
  BY <1>3, <1>4 DEF Wanted, Service!Nothing, Service!Nobody, None

\* A call that goes on with the same kind and project shows nothing.
LEMMA CallHidden ==
  ASSUME CallInv, NEW t \in Tools, NEW c \in Call, call[t].pc # "idle",
         call' = [call EXCEPT ![t] = c], c.kind = call[t].kind, c.proj = call[t].proj
  PROVE  UNCHANGED Wants
<1>1. call[t] \in Call
  BY CallBegun
<1>2. Wanted(c) = Wanted(call[t])
  BY <1>1, WantedOf
<1>3. Wanted(c) = Wants[t]
  BY <1>2, CallShows
<1>4. QED
  BY <1>3, CallShows

\* A process that lives is a session; one that is dead, or none, is not.
LEMMA SessionIs ==
  /\ \A k : ~k.alive => SessionOf(k) = Service!NoSession
  /\ \A k : k.alive => SessionOf(k) =
       [root |-> k.root, clean |-> ~k.unread, reads |-> k.allow, memo |-> k.memo]
  /\ SessionOf(NoKernel) = Service!NoSession
  BY NoKernelRecord DEF SessionOf, Service!NoSession, Service!Nobody, None

\* The session of a living process is one, of the project of the process.
LEMMA Serving ==
  ASSUME KernelInv, kernel.alive
  PROVE  kernel \in Kernel /\ Session # Service!NoSession /\ Session.root = kernel.root
<1>1. kernel \in Kernel
  BY NoKernelRecord DEF KernelInv
<1>2. Session.root = kernel.root /\ kernel.root \in Projects
  BY <1>1, SessionIs DEF Session, Kernel
<1>3. Service!NoSession.root \notin Projects
  BY KernelAssumption DEF Service!NoSession, Service!Nobody, None
<1>4. QED
  BY <1>1, <1>2, <1>3

\* A call at the lock has its turn, and the service agrees with get_or_spawn on
\* whether it needs a new session.
LEMMA TurnOf ==
  ASSUME KInv, NEW t \in Tools, At(t, "lock"), LockFree
  PROVE  /\ call[t] \in Call /\ Wants[t] = [kind |-> call[t].kind, proj |-> call[t].proj]
         /\ Service!Turn(t, {call[t].kind})
         /\ NeedsRespawn(t) <=> call[t].kind = "reset" \/ Service!NeedsSession(t)
<1> USE DEF KInv
<1>1. call[t] \in Call /\ call[t].kind \in Kinds
  BY CallBegun DEF At, Call
<1>2. Wants[t] = [kind |-> call[t].kind, proj |-> call[t].proj] /\ Wants[t] # Service!Nothing
  BY <1>1, WantedOf DEF Wants
<1>3. Service!Turn(t, {call[t].kind})
  BY <1>2 DEF Service!Turn, LockFree, Service!Nobody, None
<1>4. ASSUME kernel.alive
      PROVE  NeedsRespawn(t) <=> call[t].kind = "reset" \/ Service!NeedsSession(t)
  <2>1. Session # Service!NoSession /\ Session.root = kernel.root
    BY <1>4, Serving
  <2>2. Service!NeedsSession(t) <=> kernel.root # call[t].proj
    BY <1>2, <2>1 DEF Service!NeedsSession
  <2>3. NeedsRespawn(t) <=> call[t].kind = "reset" \/ kernel.root # call[t].proj
    BY <1>4, NoKernelRecord DEF NeedsRespawn
  <2>4. QED
    BY <2>2, <2>3
<1>5. ASSUME ~kernel.alive
      PROVE  NeedsRespawn(t) <=> call[t].kind = "reset" \/ Service!NeedsSession(t)
  <2>1. Session = Service!NoSession
    BY <1>5, SessionIs DEF Session
  <2>2. Service!NeedsSession(t)
    BY <2>1 DEF Service!NeedsSession
  <2>3. NeedsRespawn(t)
    BY <1>5 DEF NeedsRespawn
  <2>4. QED
    BY <2>2, <2>3
<1>6. QED
  BY <1>1, <1>2, <1>3, <1>4, <1>5

\* A new process is a new session: it has read nothing but its copy of the list.
LEMMA NewSession ==
  ASSUME NEW p \in Projects, NEW copy \in SUBSET Allowed
  PROVE  SessionOf(Process(p, copy)) \in Service!New(p)
<1>1. /\ Process(p, copy).alive /\ ~Process(p, copy).unread /\ Process(p, copy).root = p
      /\ Process(p, copy).allow = copy /\ Process(p, copy).memo = {}
  BY DEF Process
<1>2. SessionOf(Process(p, copy)) = [root |-> p, clean |-> TRUE, reads |-> copy, memo |-> {}]
  BY <1>1, SessionIs
<1>3. QED
  BY <1>2 DEF Service!New

\* get_or_spawn with the guard: a new session, or none, or the one that is there.
LEMMA LockServes ==
  ASSUME KInv, NEW t \in Tools, Respawn(t) \/ SpawnFails(t) \/ Lock(t)
  PROVE  Service!Next
<1> USE DEF KInv
<1>1. /\ At(t, "lock") /\ LockFree /\ call[t].copy \subseteq Allowed
      /\ call[t] \in Call /\ Wants[t] = [kind |-> call[t].kind, proj |-> call[t].proj]
      /\ Service!Turn(t, {call[t].kind})
      /\ NeedsRespawn(t) <=> call[t].kind = "reset" \/ Service!NeedsSession(t)
  <2>1. At(t, "lock") /\ LockFree
    BY DEF Respawn, SpawnFails, Lock
  <2>2. QED
    BY <2>1, TurnOf, CallBegun DEF At
<1>2. call[t].kind \in Kinds /\ call[t].proj \in Projects /\ UNCHANGED Allowed
  BY <1>1 DEF Call, Respawn, SpawnFails, Lock, accessVars, Allowed
<1>3. ASSUME Respawn(t) PROVE Service!Next
  <2>1. Session' \in Service!New(Wants[t].proj) /\ NeedsRespawn(t)
    <3>1. kernel' = Process(call[t].proj, call[t].copy)
      BY <1>3 DEF Respawn
    <3>2. QED
      BY <1>1, <1>2, <1>3, <3>1, NewSession DEF Session, Respawn
  <2>2. CASE call[t].kind = "reset"
    <3> DEFINE c == [call[t] EXCEPT !.pc = "compare", !.kind = "python", !.copy = {}]
    <3>1. c \in Call /\ c.kind = "python" /\ c.proj = call[t].proj
      BY <1>1 DEF Call, Kinds
    <3>2. UNCHANGED holder
      BY <1>1, <1>3, <2>2 DEF Respawn, LockFree
    <3> HIDE DEF c
    <3>3. \E rest \in {Service!Nothing, [Wants[t] EXCEPT !.kind = "python"]} :
            Wants' = [Wants EXCEPT ![t] = rest]
      <4>1. CASE call' = [call EXCEPT ![t] = c]
        <5>1. Wanted(c) = [Wants[t] EXCEPT !.kind = "python"]
          BY <1>1, <3>1, WantedOf
        <5>2. Wants' = [Wants EXCEPT ![t] = Wanted(c)]
          BY <4>1, CallShows
        <5>3. QED
          BY <5>1, <5>2
      <4>2. CASE call' = [call EXCEPT ![t] = Idle]
        <5>1. Wants' = [Wants EXCEPT ![t] = Service!Nothing]
          BY <4>2, CallShows, WantedOf
        <5>2. QED
          BY <5>1
      <4>3. QED
        BY <1>3, <2>2, <4>1, <4>2 DEF Respawn, c
    <3>4. Service!Resets(t)
      BY <1>1, <1>2, <2>1, <2>2, <3>2, <3>3 DEF Service!Resets
    <3>5. QED
      BY <3>4 DEF Service!Next
  <2>3. CASE call[t].kind # "reset"
    <3> DEFINE c == [call[t] EXCEPT !.pc = "exec", !.copy = {}]
    <3>1. c \in Call /\ c.kind = call[t].kind /\ c.proj = call[t].proj
      BY <1>1 DEF Call
    <3>2. call' = [call EXCEPT ![t] = c] /\ holder' = t
      BY <1>3, <2>3 DEF Respawn
    <3> HIDE DEF c
    <3>3. UNCHANGED Wants
      BY <1>1, <3>1, <3>2, CallHidden DEF At
    <3>4. Service!Turn(t, {"python", "trusted"}) /\ Service!NeedsSession(t)
      BY <1>1, <1>2, <2>1, <2>3 DEF Service!Turn, Kinds
    <3>5. Service!Serves(t)
      BY <1>2, <2>1, <3>2, <3>3, <3>4 DEF Service!Serves
    <3>6. QED
      BY <3>5 DEF Service!Next
  <2>4. QED
    BY <2>2, <2>3
<1>4. ASSUME SpawnFails(t) PROVE Service!Next
  <2>1. Session' = Service!NoSession
    BY <1>4, SessionIs DEF SpawnFails, Session
  <2>2. Wants' = [Wants EXCEPT ![t] = Service!Nothing]
    BY <1>4, CallShows, WantedOf DEF SpawnFails
  <2>3. Service!Turn(t, Service!Kinds) /\ (Wants[t].kind = "reset" \/ Service!NeedsSession(t))
    BY <1>1, <1>2, <1>4 DEF SpawnFails, Service!Turn, Service!Kinds, Kinds
  <2>4. Service!Refuses(t)
    BY <1>2, <1>4, <2>1, <2>2, <2>3 DEF SpawnFails, Service!Refuses
  <2>5. QED
    BY <2>4 DEF Service!Next
<1>5. ASSUME Lock(t) PROVE Service!Next
  <2> DEFINE c == [call[t] EXCEPT !.pc = "exec", !.copy = {}]
  <2>1. c \in Call /\ c.kind = call[t].kind /\ c.proj = call[t].proj
    BY <1>1 DEF Call
  <2>2. call' = [call EXCEPT ![t] = c] /\ holder' = t
    BY <1>5 DEF Lock
  <2> HIDE DEF c
  <2>3. UNCHANGED Wants
    BY <1>1, <2>1, <2>2, CallHidden DEF At
  <2>4. Service!Turn(t, {"python", "trusted"}) /\ ~Service!NeedsSession(t) /\ kernel.alive
    BY <1>1, <1>2, <1>5 DEF Lock, NeedsRespawn, Service!Turn, Kinds
  <2>5. Service!GoesOn
    <3>1. CASE kernel' = kernel
      BY <3>1 DEF Session, Service!GoesOn
    <3>2. CASE kernel' = [kernel EXCEPT !.alive = FALSE]
      <4>1. ~kernel'.alive
        BY <2>4, <3>2, Serving DEF Kernel
      <4>2. QED
        BY <4>1, SessionIs DEF Session, Service!GoesOn
    <3>3. CASE kernel' = [kernel EXCEPT !.allow = allowlist]
      <4>1. kernel'.alive /\ kernel'.root = kernel.root /\ kernel'.unread = kernel.unread
            /\ kernel'.allow = allowlist /\ kernel'.memo = kernel.memo
        BY <2>4, <3>3, Serving DEF Kernel
      <4>2. Session' = [Session EXCEPT !.reads = allowlist]
        BY <2>4, <4>1, SessionIs DEF Session
      <4>3. allowlist \in SUBSET Allowed
        BY DEF AccessInv
      <4>4. QED
        BY <4>2, <4>3 DEF Service!GoesOn
    <3>4. QED
      BY <1>5, <3>1, <3>2, <3>3 DEF Lock
  <2>6. Service!Serves(t)
    BY <1>2, <2>2, <2>3, <2>4, <2>5 DEF Service!Serves
  <2>7. QED
    BY <2>6 DEF Service!Next
<1>6. QED
  BY <1>3, <1>4, <1>5

\* A call that executes is the one that is served; its session goes on with what
\* it loaded, or is over.
LEMMA ExecServes ==
  ASSUME KInv, NEW t \in Tools, Done(t) \/ Fails(t) \/ Cancelled(t)
  PROVE  Service!Next
<1> USE DEF KInv
<1>1. holder = t /\ holder' = None /\ UNCHANGED Allowed
  BY DEF Done, Fails, Cancelled, Returns, CallInv, Holds, accessVars, Allowed
<1>2. Wants' = [Wants EXCEPT ![t] = Service!Nothing]
  <2>1. call' = [call EXCEPT ![t] = Idle]
    BY DEF Done, Fails, Cancelled, Returns
  <2>2. QED
    BY <2>1, CallShows, WantedOf
<1>3. \/ Session # Service!NoSession /\ Session' = [Session EXCEPT !.memo = @ \cup {t}]
      \/ Session' = Service!NoSession
  <2>1. CASE Done(t)
    <3>1. kernel.alive /\ kernel \in Kernel /\ ~kernel.unread /\ Session # Service!NoSession
      BY <2>1, Serving DEF Done, KernelInv
    <3>2. kernel' = [kernel EXCEPT !.unread = FALSE, !.memo = @ \cup {t}]
      BY <2>1 DEF Done
    <3>3. kernel'.alive /\ kernel'.root = kernel.root /\ ~kernel'.unread
          /\ kernel'.allow = kernel.allow /\ kernel'.memo = kernel.memo \cup {t}
      BY <3>1, <3>2 DEF Kernel
    <3>4. Session' = [Session EXCEPT !.memo = @ \cup {t}]
      BY <3>1, <3>3, SessionIs DEF Session
    <3>5. QED
      BY <3>1, <3>4
  <2>2. CASE Fails(t) \/ Cancelled(t)
    <3>1. kernel \in Kernel
      BY <1>1, KernelAssumption DEF KernelInv
    <3>2. kernel' = NoKernel \/ kernel' = [kernel EXCEPT !.unread = TRUE, !.alive = FALSE]
      BY <2>2 DEF Fails, Cancelled, Abandoned
    <3>3. ~kernel'.alive
      BY <3>1, <3>2, NoKernelRecord DEF Kernel
    <3>4. QED
      BY <3>3, SessionIs DEF Session
  <2>3. QED
    BY <2>1, <2>2
<1>4. Service!Finishes(t)
  BY <1>1, <1>2, <1>3 DEF Service!Finishes, Service!Nobody, None
<1>5. QED
  BY <1>4 DEF Service!Next

\* A call begins; what it does before it has the guard is hidden.
LEMMA CallStepsServe ==
  ASSUME KInv, NEW t \in Tools,
         \/ \E k \in Kinds, p \in Projects : Begin(t, k, p)
         \/ Compare(t) \/ DropApprovals(t) \/ Copy(t)
  PROVE  [Service!Next]_(Service!serviceVars)
<1> USE DEF KInv, At, Goto
<1>1. UNCHANGED <<holder, Session, Allowed>>
  BY DEF Begin, Compare, DropApprovals, Copy, kernelVars, accessVars, Session, Allowed
<1>2. ASSUME NEW k \in Kinds, NEW p \in Projects, Begin(t, k, p) PROVE Service!Next
  <2> DEFINE c == [pc |-> IF k = "reset" THEN "copy" ELSE "compare", kind |-> k,
                   proj |-> p, copy |-> {}]
  <2>1. c \in Call /\ c.kind = k /\ c.proj = p
    BY DEF Call
  <2>2. call' = [call EXCEPT ![t] = c]
    BY <1>2 DEF Begin
  <2> HIDE DEF c
  <2>3. call[t] = Idle
    BY <1>2 DEF Begin, CallInv, Call
  <2>4. Wants[t] = Service!Nothing /\ Wants' = [Wants EXCEPT ![t] = [kind |-> k, proj |-> p]]
    <3>1. Wants[t] = Wanted(call[t]) /\ Wants' = [Wants EXCEPT ![t] = Wanted(c)]
      BY <2>2, CallShows
    <3>2. Wanted(c) = [kind |-> k, proj |-> p] /\ Wanted(call[t]) = Service!Nothing
      BY <2>1, <2>3, WantedOf
    <3>3. QED
      BY <3>1, <3>2
  <2>5. Service!Calls(t, k, p)
    BY <1>1, <2>4 DEF Service!Calls
  <2>6. QED
    BY <2>5 DEF Service!Next, Service!Kinds, Kinds
<1>3. ASSUME Compare(t) \/ DropApprovals(t) \/ Copy(t) PROVE UNCHANGED Wants
  <2>1. PICK c : /\ call' = [call EXCEPT ![t] = c]
                 /\ \/ \E at \in {"drop", "copy"} : c = [call[t] EXCEPT !.pc = at]
                    \/ c = [call[t] EXCEPT !.pc = "lock", !.copy = allowlist]
    <3>1. CASE Compare(t)
      BY <3>1 DEF Compare
    <3>2. CASE DropApprovals(t)
      BY <3>2 DEF DropApprovals
    <3>3. CASE Copy(t)
      BY <3>3 DEF Copy
    <3>4. QED
      BY <1>3, <3>1, <3>2, <3>3
  <2>2. call[t] \in Call /\ call[t].pc # "idle" /\ allowlist \in SUBSET Paths
    BY <1>3, CallBegun DEF Compare, DropApprovals, Copy, AccessInv, Allowed
  <2>3. c \in Call /\ c.kind = call[t].kind /\ c.proj = call[t].proj
    BY <2>1, <2>2 DEF Call
  <2>4. QED
    BY <2>1, <2>2, <2>3, CallHidden
<1>4. QED
  BY <1>1, <1>2, <1>3 DEF Service!serviceVars

\* The user allows a path as the answer arrives, not when the call settles it.
LEMMA AccessServes ==
  ASSUME KInv,
         \/ \E p, q \in Paths : Ask(<<p, q>>)
         \/ \E j \in 1..2, yes \in BOOLEAN : Answer(j, yes)
         \/ DeadlinePasses \/ StopPressed
         \/ \E v \in BOOLEAN : Settle(v)
  PROVE  [Service!Next]_(Service!serviceVars)
<1>1. UNCHANGED <<Wants, holder, Session>>
  BY DEF Ask, Answer, DeadlinePasses, StopPressed, Settle, callVars, kernelVars, Wants, Session
<1>2. ASSUME NEW j \in 1..2, NEW yes \in BOOLEAN, Answer(j, yes)
      PROVE  UNCHANGED Allowed \/ \E p \in Paths : Service!Allows(p)
  <2> DEFINE p == batch.paths[j]
  <2>1. p \in Paths
    <3>1. j \in pending
      BY <1>2 DEF Answer
    <3>2. batch.pc # "idle"
      BY <3>1 DEF KInv, AccessInv, NoRequestOutlivesCall
    <3>3. QED
      BY <3>2 DEF KInv, AccessInv, NoBatch, Batch
  <2>2. granted' = granted \/ granted' = granted \cup {p}
    BY <1>2 DEF Answer
  <2> HIDE DEF p
  <2>3. Allowed' = Allowed \/ Allowed' = Allowed \cup {p}
    BY <2>2 DEF Allowed
  <2>4. QED
    BY <1>1, <2>1, <2>3 DEF Service!Allows
<1>3. ASSUME \/ \E p, q \in Paths : Ask(<<p, q>>)
             \/ DeadlinePasses \/ StopPressed \/ \E v \in BOOLEAN : Settle(v)
      PROVE  UNCHANGED Allowed
  BY <1>3 DEF Ask, DeadlinePasses, StopPressed, Settle, Allowed
<1>4. QED
  BY <1>1, <1>2, <1>3 DEF Service!Next, Service!serviceVars

\* Every step of the kernel is a step of the service, or hidden from it.
LEMMA ServiceStep == KInv /\ [KNext]_kvars => [Service!Next]_(Service!serviceVars)
<1> SUFFICES ASSUME KInv, [KNext]_kvars PROVE [Service!Next]_(Service!serviceVars)
  OBVIOUS
<1>1. ASSUME KernelDies PROVE Service!Next
  <2>1. kernel' = [kernel EXCEPT !.alive = FALSE] /\ kernel \in Kernel
    BY <1>1, Serving DEF KernelDies, KInv
  <2>2. ~kernel'.alive
    BY <2>1 DEF Kernel
  <2>3. Session' = Service!NoSession
    BY <2>2, SessionIs DEF Session
  <2>4. UNCHANGED <<Wants, holder, Allowed>>
    BY <1>1 DEF KernelDies, callVars, accessVars, Wants, Allowed
  <2>5. QED
    BY <2>3, <2>4 DEF Service!Next, Service!Dies
<1>2. CASE UNCHANGED kvars
  BY <1>2 DEF kvars, callVars, kernelVars, accessVars, Wants, Session, Allowed, Service!serviceVars
<1>3. QED
  BY <1>1, <1>2, CallStepsServe, LockServes, ExecServes, AccessServes DEF KNext, CallStep

\* The kernel, its lock, the copies of the list and the requests for access keep
\* the promise of KernelService, for any number of calls, projects and paths:
\* every call is served in a session of its own project, which it inherits with
\* its memo or gets new, and which reads only what the user allowed.
THEOREM KernelImplementsService == KSpec => ImplementsService
<1>1. KInit => Service!Init
  <2> SUFFICES ASSUME KInit PROVE Service!Init
    OBVIOUS
  <2>1. Wants = [t \in Tools |-> Service!Nothing]
    BY WantedOf DEF KInit, Wants
  <2>2. Session = Service!NoSession
    BY SessionIs DEF KInit, Session
  <2>3. QED
    BY <2>1, <2>2 DEF KInit, Allowed, Service!Init, Service!Nobody, None
<1>2. KInv /\ [KNext]_kvars => [Service!Next]_(Service!serviceVars)
  BY ServiceStep
<1>3. QED
  BY <1>1, <1>2, KInvHolds, PTL DEF KSpec, ImplementsService, Service!Spec

-----------------------------------------------------------------------------
(* The cache.                                                              *)

\* No stamp is from the future, and a file that still exists is not older than
\* any manifest of it.
StampInv ==
  /\ \A f \in Files : tree[f] <= writes
  /\ \A n \in 1..begun, f \in Tracked :
       /\ run[n].manifest[f] <= writes
       /\ tree[f] = 0 \/ run[n].manifest[f] <= tree[f]

\* What the research saw of a file is what its manifest says, or newer.
SeenInv ==
  \A n \in 1..begun : run[n].matched =>
    \A f \in DOMAIN run[n].seen \cap Tracked :
      LET v == run[n].manifest[f]
          w == run[n].seen[f]
      IN  w = v \/ (v < w /\ w <= writes /\ (tree[f] = 0 \/ w <= tree[f]))

\* Only a run whose research is over reaches the disk.
DiskInv ==
  \A i \in 1..Len(Parts) :
    disk[i] # 0 => disk[i] \in 1..begun /\ run[disk[i]].pc # "research"

\* The brief that a run reuses.
CachedInv ==
  \A n \in 1..begun : run[n].decision # "fresh" =>
    LET m == run[n].cached[3] IN
    /\ m \in 1..begun /\ run[m].pc # "research"
    /\ run[n].matched => run[n].cached[2] = m /\ run[m].matched

CInv == CTypeOK /\ StampInv /\ SeenInv /\ DiskInv /\ CachedInv /\ ReusedBriefIsCurrent

-----------------------------------------------------------------------------
(* Lemmas about the definitions                                            *)

\* save() writes six parts that a later run can tell apart.
LEMMA SixParts == Len(Parts) = 6
  BY DEF Parts

\* A file is in the list of changes if its stamps differ.
LEMMA ChangedIs ==
  ASSUME NEW old, NEW new, NEW f \in Tracked
  PROVE  f \in Changed(old, new) <=> old[f] # new[f]
  BY DEF Changed, Modified, Removed, Present

\* One more file seen.
LEMMA WithIs ==
  ASSUME NEW s \in Seen, NEW f \in Files, NEW v \in 0..MaxWrites
  PROVE  /\ With(s, f, v) \in Seen /\ DOMAIN With(s, f, v) = DOMAIN s \cup {f}
         /\ With(s, f, v)[f] = v
         /\ \A g \in DOMAIN s \ {f} : With(s, f, v)[g] = s[g]
<1>1. PICK S \in SUBSET Files : s \in [S -> 0..MaxWrites]
  BY DEF Seen
<1>2. With(s, f, v) \in [S \cup {f} -> 0..MaxWrites]
  BY <1>1 DEF With
<1>3. S \cup {f} \in SUBSET Files /\ DOMAIN s = S
  BY <1>1
<1>4. With(s, f, v) \in Seen
  BY <1>2, <1>3 DEF Seen
<1>5. QED
  BY <1>1, <1>4 DEF With

\* A run that is begun is a record, and its research is about files.
LEMMA RunIs ==
  ASSUME CTypeOK, NEW n \in 1..begun
  PROVE  /\ n \in 1..Runs /\ run[n] \in Run /\ run[n].seen \in Seen
         /\ DOMAIN run[n].seen \subseteq Files
         /\ \A f \in DOMAIN run[n].seen : run[n].seen[f] \in 0..MaxWrites
<1>1. n \in 1..Runs /\ run[n] \in Run
  BY CacheAssumption DEF CTypeOK
<1>2. run[n].seen \in Seen
  BY <1>1 DEF Run
<1>3. QED
  BY <1>1, <1>2 DEF Seen

\* The cache is reused only if its manifest and its brief are there.
LEMMA ReuseNeedsParts ==
  ASSUME NEW c, NEW m, Classify(c, m) # "fresh"
  PROVE  c[2] # 0 /\ c[3] # 0
  BY DEF Classify

\* A run has a pc only once it is begun.
LEMMA BegunIs ==
  ASSUME CTypeOK, NEW n \in 1..Runs, run[n].pc # "off"
  PROVE  n \in 1..begun
  BY CacheAssumption DEF CTypeOK, Off

-----------------------------------------------------------------------------
(* The steps                                                               *)

\* No run, no cache.
LEMMA CInvInit == CInit => CInv
<1> SUFFICES ASSUME CInit PROVE CInv
  OBVIOUS
<1>1. CTypeOK
  <2>1. \A n \in 1..Runs : run[n] = Off /\ Off \notin Run
    BY DEF CInit, Off, Run
  <2>2. disk \in [1..Len(Parts) -> 0..Runs]
    BY CacheAssumption, SixParts DEF CInit, NoCache
  <2>3. QED
    BY <2>1, <2>2, CacheAssumption DEF CInit, CTypeOK
<1>2. DiskInv
  BY DEF CInit, NoCache, DiskInv
<1>3. StampInv /\ SeenInv /\ CachedInv /\ ReusedBriefIsCurrent
  BY DEF CInit, StampInv, SeenInv, CachedInv, ReusedBriefIsCurrent
<1>4. QED
  BY <1>1, <1>2, <1>3 DEF CInv

\* Steps that change neither the tree nor what any run has looked at: the end of
\* the research, the parts of save(), a crash.
LEMMA NothingSeenKeepsInv ==
  ASSUME CInv, CTypeOK', UNCHANGED <<tree, writes, begun>>,
         \A n \in 1..begun :
           /\ run'[n].manifest = run[n].manifest /\ run'[n].seen = run[n].seen
           /\ run'[n].matched = run[n].matched
           /\ run[n].pc # "research" => run'[n].pc # "research"
           /\ \/ run'[n].decision = "fresh"
              \/ run'[n].decision = run[n].decision /\ run'[n].cached = run[n].cached,
         \A i \in 1..Len(Parts) :
           disk'[i] # disk[i] => disk'[i] \in 1..begun /\ run'[disk'[i]].pc # "research"
  PROVE  CInv'
<1> USE DEF CInv
<1>1. StampInv'
  BY DEF StampInv
<1>2. SeenInv'
  BY DEF SeenInv
<1>3. DiskInv'
  BY DEF DiskInv
<1>4. CachedInv'
  BY DEF CachedInv
<1>5. ReusedBriefIsCurrent'
  <2> SUFFICES ASSUME NEW n \in 1..begun, run'[n].decision # "fresh", run'[n].matched,
                      NEW f \in DOMAIN run'[run'[n].cached[3]].seen \cap Tracked
               PROVE  LET m == run'[n].cached[3] IN
                      \/ run'[n].manifest[f] \in {0, run'[m].seen[f]}
                      \/ f \in Changed(run'[m].manifest, run'[n].manifest)
    BY DEF ReusedBriefIsCurrent
  <2> DEFINE m == run[n].cached[3]
  <2>1. run[n].decision # "fresh" /\ run[n].matched /\ run'[n].cached[3] = m
    OBVIOUS
  <2>2. m \in 1..begun
    BY <2>1 DEF CachedInv
  <2>3. /\ run'[n].manifest = run[n].manifest /\ run'[m].seen = run[m].seen
        /\ run'[m].manifest = run[m].manifest
    BY <2>2
  <2>4. f \in DOMAIN run[m].seen \cap Tracked
    BY <2>1, <2>3
  <2>5. \/ run[n].manifest[f] \in {0, run[m].seen[f]}
        \/ f \in Changed(run[m].manifest, run[n].manifest)
    BY <2>1, <2>4 DEF ReusedBriefIsCurrent
  <2>6. QED
    BY <2>1, <2>3, <2>5
<1>6. QED
  BY <1>1, <1>2, <1>3, <1>4, <1>5

\* One run changes, the others do not.
LEMMA OneRun ==
  ASSUME CTypeOK, NEW n \in 1..begun, NEW r \in Run, run' = [run EXCEPT ![n] = r],
         UNCHANGED begun
  PROVE  /\ run' \in [1..Runs -> {Off} \cup Run]
         /\ \A k \in 1..Runs : run'[k] \in Run <=> k <= begun'
         /\ run'[n] = r /\ \A k \in 1..begun \ {n} : run'[k] = run[k]
  BY CacheAssumption DEF CTypeOK

\* A run that is over is still a record, with its research.
LEMMA OverIs ==
  ASSUME NEW r \in Run
  PROVE  /\ Over(r) \in Run /\ Over(r).pc = "over" /\ Over(r).decision = "fresh"
         /\ Over(r).manifest = r.manifest /\ Over(r).seen = r.seen
         /\ Over(r).matched = r.matched
<1>1. NoCache \in [1..Len(Parts) -> Nat] /\ 1 \in 1..Len(Parts)
  BY SixParts DEF NoCache
<1>2. QED
  BY <1>1 DEF Over, Run

\* Audit, save() and its failure, and a crash leave every look as it was.
LEMMA EndOfResearchKeepsInv ==
  ASSUME CInv, NEW n \in 1..Runs,
         (\E complete \in BOOLEAN : Audit(n, complete)) \/ SavesPart(n) \/ SaveFails(n)
  PROVE  CInv'
<1> USE DEF CInv
<1>1. n \in 1..begun /\ run[n] \in Run
  BY BegunIs, RunIs DEF Audit, SavesPart, SaveFails
<1>2. PICK r \in Run : /\ run' = [run EXCEPT ![n] = r] /\ r.pc # "research"
                       /\ r.manifest = run[n].manifest /\ r.seen = run[n].seen
                       /\ r.matched = run[n].matched
                       /\ \/ r.decision = "fresh"
                          \/ r.decision = run[n].decision /\ r.cached = run[n].cached
  <2>1. CASE \E complete \in BOOLEAN : Audit(n, complete)
    <3> DEFINE r == [run[n] EXCEPT !.pc = "save", !.manifest = run[n].manifest]
    <3>1. /\ r \in Run /\ r.pc = "save" /\ r.manifest = run[n].manifest
          /\ r.seen = run[n].seen /\ r.matched = run[n].matched
          /\ r.decision = run[n].decision /\ r.cached = run[n].cached
      BY <1>1 DEF Run
    <3>2. run' = [run EXCEPT ![n] = r] \/ run' = [run EXCEPT ![n] = Over(run[n])]
      BY <2>1 DEF Audit, ManifestToSave
    <3> HIDE DEF r
    <3>3. QED
      BY <1>1, <3>1, <3>2, OverIs
  <2>2. CASE SavesPart(n)
    <3> DEFINE r == [run[n] EXCEPT !.next = run[n].next + 1]
    <3>1. run' = [run EXCEPT ![n] = Over(run[n])] \/
          (run' = [run EXCEPT ![n] = r] /\ run[n].next # Len(Parts))
      BY <2>2 DEF SavesPart
    <3>2. ASSUME run[n].next # Len(Parts)
          PROVE  /\ r \in Run /\ r.pc = run[n].pc /\ r.manifest = run[n].manifest
                 /\ r.seen = run[n].seen /\ r.matched = run[n].matched
                 /\ r.decision = run[n].decision /\ r.cached = run[n].cached
      BY <1>1, <3>2, SixParts DEF Run
    <3>3. run[n].pc = "save"
      BY <2>2 DEF SavesPart
    <3> HIDE DEF r
    <3>4. QED
      BY <1>1, <3>1, <3>2, <3>3, OverIs
  <2>3. CASE SaveFails(n)
    BY <1>1, <2>3, OverIs DEF SaveFails
  <2>4. QED
    BY <2>1, <2>2, <2>3
<1>3. UNCHANGED <<tree, writes, now, begun>>
  BY DEF Audit, SavesPart, SaveFails
<1>4. \A i \in 1..Len(Parts) : disk'[i] # disk[i] => disk'[i] = n
  BY DEF Audit, SavesPart, SaveFails, CTypeOK
<1>5. disk' \in [1..Len(Parts) -> 0..Runs]
  <2>1. disk' = disk \/ \E i \in 1..Len(Parts) : disk' = [disk EXCEPT ![i] = n]
    BY <1>1 DEF Audit, SavesPart, SaveFails, Run
  <2>2. n \in 0..Runs
    BY CacheAssumption
  <2>3. QED
    BY <2>1, <2>2 DEF CTypeOK
<1>6. CTypeOK'
  BY <1>1, <1>2, <1>3, <1>5, OneRun DEF CTypeOK
<1>7. run'[n].pc # "research" /\ \A k \in 1..begun \ {n} : run'[k] = run[k]
  BY <1>1, <1>2, <1>3, OneRun
<1>8. QED
  BY <1>1, <1>2, <1>3, <1>4, <1>6, <1>7, OneRun, NothingSeenKeepsInv

\* A crash.
LEMMA CrashKeepsInv == ASSUME CInv, CrashRuns PROVE CInv'
<1> USE DEF CInv
<1>1. \A n \in 1..begun : run'[n] = run[n] \/ run'[n] = Over(run[n])
  BY CacheAssumption DEF CrashRuns, CTypeOK
<1>2. \A n \in 1..begun : run[n] \in Run
  BY RunIs
<1>3. CTypeOK'
  <2>1. \A n \in 1..Runs : n \notin 1..begun => run'[n] = run[n]
    BY DEF CrashRuns, Live
  <2>2. \A n \in 1..Runs : n <= begun => n \in 1..begun
    BY CacheAssumption DEF CTypeOK
  <2>3. \A n \in 1..Runs : run'[n] \in {Off} \cup Run /\ (run'[n] \in Run <=> n <= begun)
    BY <1>1, <1>2, <2>1, <2>2, OverIs DEF CTypeOK
  <2>4. QED
    BY <2>3 DEF CrashRuns, CTypeOK
<1>4. UNCHANGED <<tree, writes, begun, disk>>
  BY DEF CrashRuns
<1>5. QED
  BY <1>1, <1>2, <1>3, <1>4, OverIs, NothingSeenKeepsInv

\* The user, and the clock: a new stamp is above all others.
LEMMA UserKeepsInv ==
  ASSUME CInv, (\E f \in Files : Edits(f) \/ Deletes(f)) \/ Tick
  PROVE  CInv'
<1> USE DEF CInv
<1>1. UNCHANGED <<run, begun, disk>>
  BY DEF Edits, Deletes, Tick
<1>2. writes' \in Nat /\ writes <= writes' /\ writes \in Nat
      /\ \A f \in Files : /\ tree[f] \in Nat /\ tree'[f] \in Nat /\ tree'[f] <= writes'
                          /\ tree'[f] = 0 \/ tree'[f] = tree[f] \/ tree'[f] > writes
  <2>1. writes \in Nat /\ tree \in [Files -> Nat] /\ \A f \in Files : tree[f] <= writes
    BY CacheAssumption DEF CTypeOK, StampInv
  <2>2. CASE Tick
    BY <2>1, <2>2 DEF Tick
  <2>3. ASSUME NEW f \in Files, NEW v \in {0, writes + 1},
               writes' = writes + 1, tree' = [tree EXCEPT ![f] = v]
        PROVE  /\ writes' \in Nat /\ writes <= writes'
               /\ \A g \in Files : /\ tree'[g] \in Nat /\ tree'[g] <= writes'
                                   /\ tree'[g] = 0 \/ tree'[g] = tree[g] \/ tree'[g] > writes
    <3>1. tree'[f] = v /\ \A g \in Files \ {f} : tree'[g] = tree[g]
      BY <2>1, <2>3
    <3>2. QED
      BY <2>1, <2>3, <3>1
  <2>4. \/ Tick
        \/ \E f \in Files, v \in {0, writes + 1} :
             writes' = writes + 1 /\ tree' = [tree EXCEPT ![f] = v]
    BY DEF Edits, Deletes
  <2>5. QED
    BY <2>1, <2>2, <2>3, <2>4
<1>3. CTypeOK'
  <2>1. tree' \in [Files -> 0..MaxWrites] /\ writes' \in 1..MaxWrites /\ now' \in Nat
    <3>1. ASSUME NEW f \in Files, Edits(f) PROVE tree' \in [Files -> 0..MaxWrites]
      BY <3>1, CacheAssumption DEF Edits, CTypeOK
    <3>2. ASSUME NEW f \in Files, Deletes(f) PROVE tree' \in [Files -> 0..MaxWrites]
      BY <3>2, CacheAssumption DEF Deletes, CTypeOK
    <3>3. writes' \in 1..MaxWrites /\ now' \in Nat
      <4>1. writes \in Nat /\ 1 <= writes /\ writes <= MaxWrites /\ now \in Nat /\ MaxWrites \in Nat
        BY CacheAssumption DEF CTypeOK
      <4>2. \/ writes < MaxWrites /\ writes' = writes + 1 /\ now' = now
            \/ writes' = writes /\ now' = now + 1
        BY DEF Edits, Deletes, Tick
      <4>3. QED
        BY <4>1, <4>2
    <3>4. QED
      BY <3>1, <3>2, <3>3 DEF Tick, CTypeOK
  <2>2. QED
    BY <1>1, <2>1 DEF CTypeOK
<1>4. \A n \in 1..begun : \A f \in Tracked : run[n].manifest[f] \in Nat
  BY RunIs DEF Run
<1>5. StampInv'
  BY <1>1, <1>2, <1>4, CacheAssumption DEF StampInv
<1>6. \A n \in 1..begun : \A f \in DOMAIN run[n].seen : run[n].seen[f] \in Nat
  BY RunIs
<1>7. SeenInv'
  BY <1>1, <1>2, <1>4, <1>6, CacheAssumption DEF SeenInv
<1>8. DiskInv' /\ CachedInv' /\ ReusedBriefIsCurrent'
  BY <1>1 DEF DiskInv, CachedInv, ReusedBriefIsCurrent
<1>9. QED
  BY <1>3, <1>5, <1>7, <1>8

\* A new run: its manifest is the tree of now.
LEMMA DecideKeepsInv == ASSUME CInv, NEW n \in 1..Runs, Decide(n) PROVE CInv'
<1> USE DEF CInv
<1>1. PICK walked \in BOOLEAN :
        LET d == IF walked THEN Classify(disk, Manifest) ELSE "fresh" IN
        run' = [run EXCEPT ![n] =
          [pc |-> "research", manifest |-> Manifest, walked |-> walked, at |-> now,
           decision |-> d, cached |-> disk, matched |-> d = "fresh" \/ Matched(disk),
           seen |-> NothingSeen, next |-> 1]]
  BY DEF Decide
<1>2. n = begun + 1 /\ begun' = n /\ UNCHANGED <<tree, writes, now, disk>>
  BY DEF Decide
<1> DEFINE d == IF walked THEN Classify(disk, Manifest) ELSE "fresh"
<1>3. d \in {"fresh", "incremental", "sufficiency"} /\ (d # "fresh" => disk[2] # 0 /\ disk[3] # 0)
  BY ReuseNeedsParts DEF Classify
<1> DEFINE r == [pc |-> "research", manifest |-> Manifest, walked |-> walked, at |-> now,
                 decision |-> d, cached |-> disk, matched |-> d = "fresh" \/ Matched(disk),
                 seen |-> NothingSeen, next |-> 1]
<1>4. Manifest \in [Tracked -> Nat] /\ NothingSeen \in Seen /\ DOMAIN NothingSeen = {}
      /\ disk \in [1..Len(Parts) -> Nat] /\ 1 \in 1..Len(Parts) /\ Matched(disk) \in BOOLEAN
  <2>1. NothingSeen \in [{} -> 0..MaxWrites] /\ {} \in SUBSET Files
    BY DEF NothingSeen
  <2>2. NothingSeen \in Seen /\ DOMAIN NothingSeen = {}
    BY <2>1 DEF Seen
  <2>3. Manifest \in [Tracked -> Nat]
    BY CacheAssumption DEF Manifest, CTypeOK
  <2>4. Matched(disk) \in BOOLEAN
    BY DEF Matched
  <2>5. QED
    BY <2>2, <2>3, <2>4, SixParts, CacheAssumption DEF CTypeOK
<1>5. r \in Run
  <2> HIDE DEF d
  <2>1. QED
    BY <1>3, <1>4 DEF Run, CTypeOK
<1>6. /\ r.manifest = Manifest /\ r.seen = NothingSeen /\ r.decision = d /\ r.cached = disk
      /\ r.matched = (d = "fresh" \/ Matched(disk))
  OBVIOUS
<1>7. run' = [run EXCEPT ![n] = r]
  BY <1>1
<1> HIDE DEF r, d
<1>8. /\ run'[n] = r /\ \A k \in 1..begun : run'[k] = run[k]
      /\ begun \in Nat /\ 1..begun' = 1..begun \cup {n} /\ n \notin 1..begun
  <2>1. begun \in Nat
    BY DEF CTypeOK
  <2>2. 1..begun' = 1..begun \cup {n} /\ n \notin 1..begun
    BY <1>2, <2>1
  <2>3. run'[n] = r /\ \A k \in 1..begun : run'[k] = run[k]
    BY <1>2, <1>7, <2>2, CacheAssumption DEF CTypeOK
  <2>4. QED
    BY <2>1, <2>2, <2>3
<1>9. CTypeOK'
  BY <1>2, <1>5, <1>7, <1>8, CacheAssumption DEF CTypeOK
<1>10. \A f \in Tracked : r.manifest[f] = tree[f] /\ tree[f] \in Nat
  BY <1>6, CacheAssumption DEF Manifest, CTypeOK
<1>11. StampInv'
  BY <1>2, <1>8, <1>10, CacheAssumption DEF StampInv
<1>12. SeenInv'
  BY <1>2, <1>4, <1>6, <1>8 DEF SeenInv
<1>13. DiskInv'
  BY <1>2, <1>8 DEF DiskInv
<1>14. d # "fresh" => disk[2] \in 1..begun /\ disk[3] \in 1..begun /\ run[disk[3]].pc # "research"
  BY <1>3, SixParts DEF DiskInv
<1>15. CachedInv'
  <2>1. d # "fresh" /\ r.matched => disk[2] = disk[3] /\ run[disk[3]].matched
    BY <1>6 DEF Matched
  <2>2. QED
    BY <1>6, <1>8, <1>14, <2>1 DEF CachedInv
<1>16. ReusedBriefIsCurrent'
  <2>1. ASSUME d # "fresh", r.matched, NEW f \in DOMAIN run[disk[3]].seen \cap Tracked
        PROVE  \/ r.manifest[f] \in {0, run[disk[3]].seen[f]}
               \/ f \in Changed(run[disk[3]].manifest, r.manifest)
    <3> DEFINE m == disk[3]
    <3>1. m \in 1..begun /\ run[m].matched
      BY <1>6, <1>14, <2>1 DEF Matched
    <3>2. \/ run[m].seen[f] = run[m].manifest[f]
          \/ /\ run[m].manifest[f] < run[m].seen[f]
             /\ tree[f] = 0 \/ run[m].seen[f] <= tree[f]
      BY <2>1, <3>1 DEF SeenInv
    <3>3. run[m].manifest[f] \in Nat /\ run[m].seen[f] \in Nat
      BY <2>1, <3>1, RunIs DEF Run
    <3>4. f \in Changed(run[m].manifest, r.manifest) <=> run[m].manifest[f] # r.manifest[f]
      BY ChangedIs
    <3>5. QED
      BY <1>10, <3>2, <3>3, <3>4
  <2>2. \A k \in 1..begun : run[k].decision # "fresh" => run[k].cached[3] \in 1..begun
    BY DEF CachedInv
  <2>3. ASSUME NEW k \in 1..begun', NEW m, m = run'[k].cached[3],
               run'[k].decision # "fresh", run'[k].matched,
               NEW g \in DOMAIN run'[m].seen \cap Tracked
        PROVE  \/ run'[k].manifest[g] \in {0, run'[m].seen[g]}
               \/ g \in Changed(run'[m].manifest, run'[k].manifest)
    <3>1. CASE k = n
      <4>1. run'[k] = r /\ d # "fresh" /\ m = disk[3]
        BY <1>6, <1>8, <2>3, <3>1
      <4>2. run'[m] = run[m]
        BY <1>8, <1>14, <4>1
      <4>3. QED
        BY <2>1, <2>3, <4>1, <4>2
    <3>2. CASE k # n
      <4>1. k \in 1..begun /\ run'[k] = run[k]
        BY <1>8, <3>2
      <4>2. run'[m] = run[m]
        BY <1>8, <2>2, <2>3, <4>1
      <4>3. QED
        BY <2>3, <4>1, <4>2 DEF ReusedBriefIsCurrent
    <3>3. QED
      BY <3>1, <3>2
  <2>4. QED
    BY <2>3 DEF ReusedBriefIsCurrent
<1>17. QED
  BY <1>9, <1>11, <1>12, <1>13, <1>15, <1>16

\* One more file in what a run has seen.
LEMMA LooksKeepInv ==
  ASSUME CInv, NEW n \in 1..begun, run[n].pc = "research",
         NEW f \in Files, NEW w \in 0..MaxWrites, f \notin DOMAIN run[n].seen,
         run' = [run EXCEPT ![n].seen = With(run[n].seen, f, w)],
         UNCHANGED <<tree, writes, now, begun, disk>>,
         run[n].matched /\ f \in Tracked =>
           LET v == run[n].manifest[f]
           IN  w = v \/ (v < w /\ w <= writes /\ (tree[f] = 0 \/ w <= tree[f]))
  PROVE  CInv'
<1> USE DEF CInv
<1>1. run[n] \in Run /\ run[n].seen \in Seen
  BY RunIs
<1> DEFINE s == With(run[n].seen, f, w)
           r == [run[n] EXCEPT !.seen = s]
<1>2. s \in Seen /\ DOMAIN s = DOMAIN run[n].seen \cup {f} /\ s[f] = w
      /\ \A g \in DOMAIN run[n].seen : s[g] = run[n].seen[g]
  <2> DEFINE q == run[n].seen
  <2>1. q \in Seen /\ f \notin DOMAIN q
    BY <1>1
  <2> HIDE DEF q
  <2>2. /\ With(q, f, w) \in Seen /\ DOMAIN With(q, f, w) = DOMAIN q \cup {f}
        /\ With(q, f, w)[f] = w
        /\ \A g \in DOMAIN q \ {f} : With(q, f, w)[g] = q[g]
    BY <2>1, WithIs
  <2>3. s = With(q, f, w)
    BY DEF q
  <2> HIDE DEF s
  <2>4. QED
    BY <2>1, <2>2, <2>3 DEF q
<1> HIDE DEF s
<1>3. /\ r \in Run /\ r.seen = s /\ r.pc = "research" /\ r.manifest = run[n].manifest
      /\ r.matched = run[n].matched /\ r.decision = run[n].decision
      /\ r.cached = run[n].cached
  BY <1>1, <1>2 DEF Run
<1>4. run' = [run EXCEPT ![n] = r]
  BY DEF s
<1> HIDE DEF r
<1>5. /\ run' \in [1..Runs -> {Off} \cup Run] /\ \A k \in 1..Runs : run'[k] \in Run <=> k <= begun'
      /\ run'[n] = r /\ \A k \in 1..begun \ {n} : run'[k] = run[k]
  BY <1>3, <1>4, OneRun
<1>6. CTypeOK'
  BY <1>5 DEF CTypeOK
<1>7. StampInv'
  BY <1>3, <1>5 DEF StampInv
<1>8. SeenInv'
  <2>1. ASSUME NEW k \in 1..begun, run'[k].matched,
               NEW g \in DOMAIN run'[k].seen \cap Tracked
        PROVE  LET v == run'[k].manifest[g]
                   u == run'[k].seen[g]
               IN  u = v \/ (v < u /\ u <= writes /\ (tree[g] = 0 \/ u <= tree[g]))
    <3>1. CASE k # n
      <4>1. run'[k] = run[k]
        BY <1>5, <3>1
      <4>2. QED
        BY <2>1, <4>1 DEF SeenInv
    <3>2. CASE k = n /\ g = f
      <4>1. run'[k].manifest = run[n].manifest /\ run'[k].seen[g] = w /\ run[n].matched
        BY <1>2, <1>3, <1>5, <2>1, <3>2
      <4>2. QED
        BY <2>1, <3>2, <4>1
    <3>3. CASE k = n /\ g # f
      <4>1. run'[k] = r
        BY <1>5, <3>3
      <4>2. run'[k].manifest = run[n].manifest /\ run'[k].seen = s /\ run[n].matched
        BY <1>3, <2>1, <4>1
      <4>3. g \in DOMAIN run[n].seen
        BY <1>2, <2>1, <3>3, <4>2
      <4>4. run'[k].seen[g] = run[n].seen[g]
        BY <1>2, <4>2, <4>3
      <4>5. QED
        BY <2>1, <4>2, <4>3, <4>4 DEF SeenInv
    <3>4. QED
      BY <3>1, <3>2, <3>3
  <2>2. QED
    BY <2>1 DEF SeenInv
<1>9. \A k \in 1..begun : /\ run'[k].pc = run[k].pc /\ run'[k].manifest = run[k].manifest
                             /\ run'[k].matched = run[k].matched /\ run'[k].decision = run[k].decision
                             /\ run'[k].cached = run[k].cached
                             /\ k # n => run'[k].seen = run[k].seen
  BY <1>3, <1>5
<1>10. DiskInv'
  <2>1. ASSUME NEW i \in 1..Len(Parts), disk'[i] # 0
        PROVE  disk'[i] \in 1..begun' /\ run'[disk'[i]].pc # "research"
    <3>1. disk'[i] = disk[i] /\ begun' = begun /\ disk[i] \in 1..begun /\ run[disk[i]].pc # "research"
      BY <2>1 DEF DiskInv
    <3>2. QED
      BY <1>9, <3>1
  <2>2. QED
    BY <2>1 DEF DiskInv
<1>11. ASSUME NEW k \in 1..begun, run[k].decision # "fresh", NEW m, m = run[k].cached[3]
       PROVE  m \in 1..begun /\ run[m].pc # "research" /\ m # n
  BY <1>11 DEF CachedInv
<1>12. CachedInv'
  <2>1. ASSUME NEW k \in 1..begun, run'[k].decision # "fresh", NEW m, m = run'[k].cached[3]
        PROVE  /\ m \in 1..begun /\ run'[m].pc # "research"
               /\ run'[k].matched => run'[k].cached[2] = m /\ run'[m].matched
    <3>1. run[k].decision # "fresh" /\ m = run[k].cached[3] /\ run'[k].matched = run[k].matched
          /\ run'[k].cached = run[k].cached
      BY <1>9, <2>1
    <3>2. m \in 1..begun /\ run[m].pc # "research"
      BY <1>11, <3>1
    <3>3. run[k].matched => run[k].cached[2] = m /\ run[m].matched
      BY <3>1 DEF CachedInv
    <3>4. QED
      BY <1>9, <3>1, <3>2, <3>3
  <2>2. QED
    BY <2>1 DEF CachedInv
<1>13. ReusedBriefIsCurrent'
  <2>1. ASSUME NEW k \in 1..begun, NEW m, m = run'[k].cached[3],
               run'[k].decision # "fresh", run'[k].matched,
               NEW g \in DOMAIN run'[m].seen \cap Tracked
        PROVE  \/ run'[k].manifest[g] \in {0, run'[m].seen[g]}
               \/ g \in Changed(run'[m].manifest, run'[k].manifest)
    <3>1. run[k].decision # "fresh" /\ run[k].matched /\ m = run[k].cached[3]
          /\ run'[k].manifest = run[k].manifest
      BY <1>9, <2>1
    <3>2. m \in 1..begun /\ m # n
      BY <1>11, <3>1
    <3>3. run'[m].seen = run[m].seen /\ run'[m].manifest = run[m].manifest
      BY <1>9, <3>2
    <3>4. \/ run[k].manifest[g] \in {0, run[m].seen[g]}
          \/ g \in Changed(run[m].manifest, run[k].manifest)
      BY <2>1, <3>1, <3>3 DEF ReusedBriefIsCurrent
    <3>5. QED
      BY <3>1, <3>3, <3>4
  <2>2. QED
    BY <2>1 DEF ReusedBriefIsCurrent
<1>14. QED
  BY <1>6, <1>7, <1>8, <1>10, <1>12, <1>13

\* A read sees the tree of now, which is not older than the manifest.
LEMMA ReadsKeepsInv ==
  ASSUME CInv, NEW n \in 1..Runs, NEW f \in Files, Reads(n, f) PROVE CInv'
<1> USE DEF CInv
<1>1. n \in 1..begun /\ run[n].pc = "research" /\ f \notin DOMAIN run[n].seen
  BY BegunIs DEF Reads
<1>2. tree[f] \in 0..MaxWrites /\ tree[f] # 0
  BY DEF Reads, CTypeOK
<1>3. run' = [run EXCEPT ![n].seen = With(run[n].seen, f, tree[f])]
      /\ UNCHANGED <<tree, writes, now, begun, disk>>
  BY DEF Reads
<1>4. f \in Tracked => /\ run[n].manifest[f] \in Nat
                       /\ run[n].manifest[f] <= tree[f] /\ tree[f] <= writes
  BY <1>1, <1>2, RunIs DEF StampInv, Run
<1> DEFINE w == tree[f]
<1>5. f \in Tracked => LET v == run[n].manifest[f]
                      IN  w = v \/ (v < w /\ w <= writes /\ (tree[f] = 0 \/ w <= tree[f]))
  BY <1>2, <1>4
<1>6. w \in 0..MaxWrites /\ run' = [run EXCEPT ![n].seen = With(run[n].seen, f, w)]
  BY <1>2, <1>3
<1> HIDE DEF w
<1>7. QED
  BY <1>1, <1>3, <1>5, <1>6, LooksKeepInv

\* An anchor that is taken over: the older run saw it as the tree still was when
\* this run looked, or it was gone then.
LEMMA TakesOverKeepsInv ==
  ASSUME CInv, NEW n \in 1..Runs, NEW f \in Files, TakesOver(n, f) PROVE CInv'
<1> USE DEF CInv
<1> DEFINE m == run[n].cached[3]
<1>1. n \in 1..begun /\ run[n].pc = "research" /\ f \notin DOMAIN run[n].seen
      /\ run[n].decision # "fresh"
  BY BegunIs DEF TakesOver
<1>2. f \in DOMAIN run[m].seen
      /\ f \notin Changed(run[run[n].cached[2]].manifest, run[n].manifest)
  BY DEF TakesOver, Vouched
<1>3. m \in 1..begun /\ (run[n].matched => run[n].cached[2] = m /\ run[m].matched)
  BY <1>1 DEF CachedInv
<1>4. run' = [run EXCEPT ![n].seen = With(run[n].seen, f, run[m].seen[f])]
      /\ UNCHANGED <<tree, writes, now, begun, disk>>
  BY DEF TakesOver
<1>5. run[m].seen[f] \in 0..MaxWrites
  BY <1>2, <1>3, RunIs
<1>6. ASSUME run[n].matched, f \in Tracked
      PROVE  LET v == run[n].manifest[f]
                 w == run[m].seen[f]
             IN  w = v \/ (v < w /\ w <= writes /\ (tree[f] = 0 \/ w <= tree[f]))
  <2>1. run[m].manifest[f] = run[n].manifest[f]
    BY <1>2, <1>3, <1>6, ChangedIs
  <2>2. LET v == run[m].manifest[f]
            w == run[m].seen[f]
        IN  w = v \/ (v < w /\ w <= writes /\ (tree[f] = 0 \/ w <= tree[f]))
    BY <1>2, <1>3, <1>6 DEF SeenInv
  <2>3. QED
    BY <2>1, <2>2
<1> HIDE DEF m
<1>7. QED
  BY <1>1, <1>4, <1>5, <1>6, LooksKeepInv

\* Every step keeps CInv.
LEMMA CInvStep == CInv /\ [CNext]_cvars => CInv'
<1> SUFFICES ASSUME CInv, [CNext]_cvars PROVE CInv'
  OBVIOUS
<1>1. CASE UNCHANGED cvars
  BY <1>1 DEF cvars, CInv, CTypeOK, StampInv, SeenInv, DiskInv, CachedInv, ReusedBriefIsCurrent
<1>2. QED
  BY <1>1, DecideKeepsInv, EndOfResearchKeepsInv, ReadsKeepsInv, TakesOverKeepsInv,
     CrashKeepsInv, UserKeepsInv DEF CNext

\* The invariant that carries the theorems.
LEMMA CInvHolds == CSpec => []CInv
<1>1. CInit => CInv
  BY CInvInit
<1>2. CInv /\ [CNext]_cvars => CInv'
  BY CInvStep
<1>3. QED
  BY <1>1, <1>2, PTL DEF CSpec

\* Types, for any number of runs and edits.
THEOREM CacheTypeCorrect == CSpec => []CTypeOK
<1>1. CInv => CTypeOK
  BY DEF CInv
<1>2. QED
  BY <1>1, CInvHolds, PTL

\* A reused brief that has its own manifest misleads nobody about a file that
\* exists, for any number of files, runs at one time, edits and crashes.
THEOREM ReusedBriefsAreCurrent == CSpec => []ReusedBriefIsCurrent
<1>1. CInv => ReusedBriefIsCurrent
  BY DEF CInv
<1>2. QED
  BY <1>1, CInvHolds, PTL
=============================================================================
