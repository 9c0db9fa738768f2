------------------------------ MODULE CancelFlag ------------------------------
(***************************************************************************)
(* CancelFlag of tool_registry.rs: an atomic boolean and a tokio Notify.   *)
(* Callers of cancel() (agent_cancel_run, or emit on a closed channel) set *)
(* the flag, wake the waiters registered so far, and leave one permit; the *)
(* tasks of a run wait in cancelled(), usually as one branch of a select!  *)
(* whose other branch may win.  Every step below is one atomic operation,  *)
(* and callers and waiters run on different threads.                       *)
(*                                                                         *)
(* The Notify itself is tokio's: notified() remembers how often            *)
(* notify_waiters() had been called, a poll is ready if that count moved   *)
(* or a permit is there, and registers the waiter otherwise.               *)
(***************************************************************************)
EXTENDS Naturals

CONSTANTS Callers, Waiters

VARIABLES
  flag,     \* the AtomicBool
  caller,   \* where each caller of cancel() is
  waiter,   \* where each waiter is
  seen,     \* the count its Notified future has remembered
  calls,    \* calls of notify_waiters()
  permit,   \* the permit notify_one() may have stored
  queue     \* waiters registered with the Notify

notifyVars == <<calls, permit, queue>>
flagVars == <<flag, caller, waiter, seen, notifyVars>>

FlagInit ==
  /\ flag = FALSE
  /\ caller = [c \in Callers |-> "idle"]
  /\ waiter = [w \in Waiters |-> "idle"]
  /\ seen = [w \in Waiters |-> 0]
  /\ calls = 0 /\ permit = FALSE /\ queue = {}

CallerTo(c, s) == caller' = [caller EXCEPT ![c] = s]
WaiterTo(w, s) == waiter' = [waiter EXCEPT ![w] = s]

-----------------------------------------------------------------------------
(* cancel()                                                                *)

\* self.inner.0.store(true)
Store(c) ==
  /\ caller[c] = "idle" /\ CallerTo(c, "stored")
  /\ flag' = TRUE
  /\ UNCHANGED <<waiter, seen, notifyVars>>

\* Mutant: cancel() without notify_waiters().
WakeNobody(c) ==
  /\ caller[c] = "stored" /\ CallerTo(c, "woken")
  /\ UNCHANGED <<flag, waiter, seen, notifyVars>>

\* notify_waiters()
WakeAll(c) ==
  /\ caller[c] = "stored" /\ CallerTo(c, "woken")
  /\ calls' = calls + 1
  /\ waiter' = [w \in Waiters |-> IF w \in queue THEN "ready" ELSE waiter[w]]
  /\ queue' = {}
  /\ UNCHANGED <<flag, seen, permit>>

\* What notify_one() does: wake a registered waiter, or store the permit.
\* Here it always stores it: by NoLostWakeup nobody is registered by then, and
\* so no waiter can be dropped with a notification it would have to pass on.
NotifyOne ==
  \/ \E w \in queue :
       /\ WaiterTo(w, "ready") /\ queue' = queue \ {w}
       /\ UNCHANGED permit
  \/ /\ queue = {} /\ permit' = TRUE
     /\ UNCHANGED <<waiter, queue>>

\* notify_one(), the last step of cancel()
StorePermit(c) ==
  /\ caller[c] = "woken" /\ CallerTo(c, "done")
  /\ NotifyOne
  /\ UNCHANGED <<flag, seen, calls>>

-----------------------------------------------------------------------------
(* cancelled()                                                             *)

\* The future is polled for the first time.
Enter(w) ==
  /\ waiter[w] = "idle" /\ WaiterTo(w, "check")
  /\ UNCHANGED <<flag, caller, seen, notifyVars>>

\* The first is_cancelled() of the loop.
FirstCheck(w) ==
  /\ waiter[w] = "check"
  /\ WaiterTo(w, IF flag THEN "returned" ELSE "arm")
  /\ UNCHANGED <<flag, caller, seen, notifyVars>>

\* let notified = self.inner.1.notified()
Arm(w) ==
  /\ waiter[w] = "arm" /\ WaiterTo(w, "recheck")
  /\ seen' = [seen EXCEPT ![w] = calls]
  /\ UNCHANGED <<flag, caller, notifyVars>>

\* Mutant: no check between notified() and its await.
NoSecondCheck(w) ==
  /\ waiter[w] = "recheck" /\ WaiterTo(w, "poll")
  /\ UNCHANGED <<flag, caller, seen, notifyVars>>

\* The second is_cancelled(), after the future was created.
SecondCheck(w) ==
  /\ waiter[w] = "recheck"
  /\ WaiterTo(w, IF flag THEN "returned" ELSE "poll")
  /\ UNCHANGED <<flag, caller, seen, notifyVars>>

\* The first poll of notified.await: ready at once, or registered.
Poll(w) ==
  /\ waiter[w] = "poll"
  /\ \/ /\ calls # seen[w]
        /\ WaiterTo(w, "ready")
        /\ UNCHANGED notifyVars
     \/ /\ calls = seen[w] /\ permit
        /\ WaiterTo(w, "ready") /\ permit' = FALSE
        /\ UNCHANGED <<calls, queue>>
     \/ /\ calls = seen[w] /\ ~permit
        /\ WaiterTo(w, "asleep") /\ queue' = queue \cup {w}
        /\ UNCHANGED <<calls, permit>>
  /\ UNCHANGED <<flag, caller, seen>>

\* notified.await returns: the third is_cancelled(), or another iteration.
Awake(w) ==
  /\ waiter[w] = "ready"
  /\ WaiterTo(w, IF flag THEN "returned" ELSE "check")
  /\ UNCHANGED <<flag, caller, seen, notifyVars>>

Waiting == {"check", "arm", "recheck", "poll", "asleep", "ready"}

\* Another branch of the select! wins and the future is dropped: it leaves the
\* queue.
Drop(w) ==
  /\ waiter[w] \in Waiting
  /\ WaiterTo(w, "idle") /\ queue' = queue \ {w}
  /\ UNCHANGED <<flag, caller, seen, calls, permit>>

-----------------------------------------------------------------------------
CancelStep(c) == Store(c) \/ WakeAll(c) \/ StorePermit(c)
CancelRest(c) == WakeAll(c) \/ StorePermit(c)
WaitStep(w) ==
  \/ FirstCheck(w) \/ Arm(w) \/ SecondCheck(w) \/ Poll(w) \/ Awake(w)

FlagNext ==
  \/ \E c \in Callers : CancelStep(c)
  \/ \E w \in Waiters : Enter(w) \/ WaitStep(w) \/ Drop(w)

FlagSpec == FlagInit /\ [][FlagNext]_flagVars

\* A thread inside cancel() finishes it, and a task that can run is polled.
\* Nobody has to call cancel(), and no select! has to be won by its other branch.
FlagFairness ==
  /\ \A c \in Callers : WF_flagVars(CancelRest(c))
  /\ \A w \in Waiters : WF_flagVars(WaitStep(w))

-----------------------------------------------------------------------------
(* Properties                                                              *)

\* Types, and what the Notify's bookkeeping means: the queue holds the sleepers,
\* a permit comes from a cancel().
FlagTypeOK ==
  /\ flag \in BOOLEAN
  /\ caller \in [Callers -> {"idle", "stored", "woken", "done"}]
  /\ waiter \in [Waiters -> Waiting \cup {"idle", "returned"}]
  /\ seen \in [Waiters -> Nat] /\ calls \in Nat
  /\ permit \in BOOLEAN
  /\ queue = {w \in Waiters : waiter[w] = "asleep"}
  /\ permit => flag

\* Once some cancel() has passed notify_waiters(), no task sleeps in
\* cancelled(), nor is it about to: whatever it had checked before.
NoLostWakeup ==
  (\E c \in Callers : caller[c] \in {"woken", "done"}) =>
    \A w \in Waiters : waiter[w] # "asleep"

\* Every task waiting in cancelled() when Stop is pressed, or later, gets out.
CancelReachesAll ==
  \A w \in Waiters : flag /\ waiter[w] \in Waiting
                       ~> waiter[w] \in {"returned", "idle"}

=============================================================================
