---------------------------- MODULE RunControlProofs ---------------------------
(***************************************************************************)
(* Proofs about what a live run is controlled by, each a specification of  *)
(* its own: RunRegistry, for any number of runs, run ids and requests, and *)
(* CancelFlag, for any number of callers and waiters.                      *)
(***************************************************************************)
EXTENDS RunRegistry, CancelFlag, FiniteSetTheorems, TLAPS

-----------------------------------------------------------------------------
(* The registries.                                                         *)

Awaiting == {"waiting", "decided"}

\* A request that was not made yet has left no trace.
UnaskedIsFresh ==
  \A q \in Requests : q[2] > asked[q[1]] =>
    q \notin pending /\ channel[q] = "none"
    /\ outcome[q] = "none" /\ accepted[q] = {}

\* A sender in the registry was not used, and its request not answered by it.
PendingIsUnused ==
  \A q \in pending : accepted[q] = {} /\ outcome[q] \notin Decisions

\* A run awaits a request it made; as long as it waits, the sender is either in
\* the registry, unused, or its decision is in the channel.
WaitingOpenOrAnswered ==
  \A r \in Runs :
    /\ pc[r] \in Awaiting => asked[r] > 0
    /\ pc[r] = "waiting" =>
         \/ channel[Current(r)] = "open" /\ Current(r) \in pending
         \/ /\ channel[Current(r)] \in Decisions
            /\ accepted[Current(r)] = {channel[Current(r)]}

\* One decision at most was accepted for each request, and it was acted on.
OneAnswer ==
  \A q \in Requests :
    /\ accepted[q] = {} \/ \E d \in Decisions : accepted[q] = {d}
    /\ outcome[q] \in Decisions => accepted[q] = {outcome[q]}
    /\ outcome[q] # "none" /\ accepted[q] # {} =>
         outcome[q] \in accepted[q] \cup {"cancelled", "timeout"}

RequestInv ==
  /\ UnaskedIsFresh /\ PendingIsUnused /\ WaitingOpenOrAnswered /\ OneAnswer
  /\ NoStaleRequest /\ OnlyOwnCancel

RegistryInv == TypeOK /\ LiveRunsCancellable /\ RequestInv

-----------------------------------------------------------------------------
(* Requests are pairs                                                      *)

\* The current request of a run that asked is a request; two runs never share
\* one.
LEMMA CurrentRequest ==
  ASSUME TypeOK, NEW r \in Runs, asked[r] > 0
  PROVE  /\ Current(r) \in Requests
         /\ Current(r)[1] = r /\ Current(r)[2] = asked[r]
BY DEF TypeOK, Current, Requests

\* The request a run is about to make.
LEMMA NextRequest ==
  ASSUME TypeOK, NEW r \in Runs, asked[r] < MaxRequests
  PROVE  /\ <<r, asked[r] + 1>> \in Requests
         /\ asked[r] + 1 \in 1..MaxRequests
BY RegistryAssumption DEF TypeOK, Requests

-----------------------------------------------------------------------------
(* The invariant                                                           *)

\* The registries start empty.
LEMMA RegistryInvInit == Init => RegistryInv
<1> SUFFICES ASSUME Init PROVE RegistryInv
  OBVIOUS
<1>1. TypeOK
  BY RegistryAssumption DEF Init, TypeOK, Live
<1>2. LiveRunsCancellable
  BY DEF Init, LiveRunsCancellable, Live
<1>3. UnaskedIsFresh /\ PendingIsUnused /\ NoStaleRequest /\ OnlyOwnCancel
  BY DEF Init, UnaskedIsFresh, PendingIsUnused, NoStaleRequest, OnlyOwnCancel
<1>4. WaitingOpenOrAnswered
  BY DEF Init, WaitingOpenOrAnswered, Awaiting
<1>5. OneAnswer
  BY RegistryAssumption DEF Init, OneAnswer
<1>6. QED
  BY <1>1, <1>2, <1>3, <1>4, <1>5 DEF RegistryInv, RequestInv

\* A run begins, or ends: its flag comes and goes, its requests stay.
LEMMA StartKeeps ==
  ASSUME RegistryInv, NEW r \in Runs, Start(r)
  PROVE  RegistryInv'
<1> USE DEF RegistryInv, Start, RunTo, Register, requestVars
<1>1. TypeOK'
  BY DEF TypeOK, Live
<1>2. LiveRunsCancellable'
  BY DEF TypeOK, LiveRunsCancellable, Live
<1>3. WaitingOpenOrAnswered'
  BY DEF RequestInv, TypeOK, WaitingOpenOrAnswered, Awaiting, Current
<1>4. NoStaleRequest'
  BY DEF RequestInv, TypeOK, NoStaleRequest, Current, Requests
<1>5. UnaskedIsFresh' /\ PendingIsUnused' /\ OneAnswer' /\ OnlyOwnCancel'
  BY DEF RequestInv, UnaskedIsFresh, PendingIsUnused, OneAnswer, OnlyOwnCancel
<1>6. QED
  BY <1>1, <1>2, <1>3, <1>4, <1>5 DEF RequestInv

\* The end of a run takes its own flag only.
LEMMA FinishKeeps ==
  ASSUME RegistryInv, NEW r \in Runs, Finish(r)
  PROVE  RegistryInv'
<1> USE DEF RegistryInv, Finish, RunTo, Unregister, LeavesRegistries
<1>1. TypeOK'
  BY DEF TypeOK, Live
<1>2. LiveRunsCancellable'
  BY DEF TypeOK, LiveRunsCancellable, Live
<1>3. WaitingOpenOrAnswered'
  BY DEF RequestInv, TypeOK, WaitingOpenOrAnswered, Awaiting, Current
<1>4. NoStaleRequest'
  BY DEF RequestInv, TypeOK, NoStaleRequest, Current, Requests
<1>5. UnaskedIsFresh' /\ PendingIsUnused' /\ OneAnswer' /\ OnlyOwnCancel'
  BY DEF RequestInv, UnaskedIsFresh, PendingIsUnused, OneAnswer, OnlyOwnCancel
<1>6. QED
  BY <1>1, <1>2, <1>3, <1>4, <1>5 DEF RequestInv

\* A run asks: the request was fresh, and is now open and pending.
LEMMA AskKeeps ==
  ASSUME RegistryInv, NEW r \in Runs, Ask(r)
  PROVE  RegistryInv'
<1> DEFINE q0 == <<r, asked[r] + 1>>
<1>1. /\ TypeOK /\ LiveRunsCancellable /\ RequestInv
      /\ pc[r] = "running" /\ pc' = [pc EXCEPT ![r] = "waiting"]
      /\ asked' = [asked EXCEPT ![r] = @ + 1]
      /\ kind' \in [Runs -> {"none", "gate", "external"}]
      /\ pending' = pending \cup {q0}
      /\ channel' = [channel EXCEPT ![q0] = "open"]
      /\ UNCHANGED <<rid, active_runs, cancelled, outcome, accepted>>
  BY DEF RegistryInv, Ask, RunTo, TypeOK
<1>2. q0 \in Requests /\ asked[r] + 1 \in 1..MaxRequests /\ asked[r] \in Nat
  BY NextRequest, RegistryAssumption DEF RegistryInv, Ask, TypeOK
<1>3. q0[1] = r /\ q0[2] = asked[r] + 1
  OBVIOUS
<1>4. /\ q0 \notin pending /\ channel[q0] = "none"
      /\ outcome[q0] = "none" /\ accepted[q0] = {}
  BY <1>1, <1>2, <1>3 DEF RequestInv, UnaskedIsFresh
<1>5. \A q \in Requests : q[1] = r => q \notin pending
  BY <1>1 DEF RequestInv, NoStaleRequest
<1>6. \A q \in Requests : q[1] \in Runs /\ q[2] \in Nat
  BY DEF Requests
<1> HIDE DEF q0
<1>7. TypeOK'
  BY <1>1, <1>2, RegistryAssumption DEF TypeOK, Live
<1>8. LiveRunsCancellable'
  BY <1>1 DEF TypeOK, LiveRunsCancellable, Live
<1>9. UnaskedIsFresh'
  BY <1>1, <1>2, <1>3, <1>6 DEF TypeOK, RequestInv, UnaskedIsFresh
<1>10. PendingIsUnused'
  BY <1>1, <1>4, RegistryAssumption DEF RequestInv, PendingIsUnused
<1>11. WaitingOpenOrAnswered'
  <2>1. Current(r)' = q0
    BY <1>1, <1>2 DEF Current, q0, TypeOK
  <2>2. \A s \in Runs : s # r => Current(s)' = Current(s) /\ Current(s) # q0
    BY <1>1 DEF Current, q0, TypeOK
  <2>3. QED
    BY <1>1, <1>2, <2>1, <2>2
       DEF TypeOK, RequestInv, WaitingOpenOrAnswered, Awaiting
<1>12. NoStaleRequest'
  <2>1. Current(r)' = q0
    BY <1>1, <1>2 DEF Current, q0, TypeOK
  <2>2. \A s \in Runs : s # r => Current(s)' = Current(s)
    BY <1>1 DEF Current, TypeOK
  <2>3. QED
    BY <1>1, <1>2, <1>3, <1>5, <1>6, <2>1, <2>2
       DEF TypeOK, RequestInv, NoStaleRequest
<1>13. OneAnswer' /\ OnlyOwnCancel'
  BY <1>1 DEF RequestInv, OneAnswer, OnlyOwnCancel
<1>14. QED
  BY <1>7, <1>8, <1>9, <1>10, <1>11, <1>12, <1>13 DEF RegistryInv, RequestInv

\* The select! of a waiting run returns: the receiver is closed.
LEMMA ReturnKeeps ==
  ASSUME RegistryInv, NEW r \in Runs, NEW result,
         pc[r] = "waiting", Return(r, result),
         \/ result = "cancelled" /\ r \in cancelled
         \/ result = "timeout"
         \/ result \in Decisions /\ result = channel[Current(r)]
  PROVE  RegistryInv'
<1> DEFINE q0 == Current(r)
<1>1. /\ TypeOK /\ LiveRunsCancellable /\ RequestInv
      /\ pc' = [pc EXCEPT ![r] = "decided"]
      /\ outcome' = [outcome EXCEPT ![q0] = result]
      /\ channel' = [channel EXCEPT ![q0] = Closed]
      /\ kind' = [kind EXCEPT ![r] = "none"]
      /\ UNCHANGED <<rid, asked, active_runs, cancelled, pending, accepted>>
  BY DEF RegistryInv, Return, RunTo
<1>2. /\ asked[r] > 0 /\ q0 \in Requests
      /\ q0[1] = r /\ q0[2] = asked[r]
  BY <1>1, CurrentRequest DEF RequestInv, WaitingOpenOrAnswered, Awaiting
<1>3. \A s \in Runs : Current(s)' = Current(s) /\ (s # r => Current(s) # q0)
  BY <1>1 DEF Current
<1>4. \/ channel[q0] = "open" /\ q0 \in pending
      \/ channel[q0] \in Decisions /\ accepted[q0] = {channel[q0]}
  BY <1>1 DEF RequestInv, WaitingOpenOrAnswered
<1>5. channel[q0] \in Decisions => q0 \notin pending
  BY <1>1, <1>2, RegistryAssumption DEF TypeOK, Closed
<1>6. asked[r] \in Nat
  BY <1>1 DEF TypeOK
<1> HIDE DEF q0
<1>7. TypeOK'
  BY <1>1, <1>2 DEF TypeOK, Live
<1>8. LiveRunsCancellable'
  BY <1>1 DEF TypeOK, LiveRunsCancellable, Live
<1>9. UnaskedIsFresh'
  BY <1>1, <1>2, <1>6 DEF TypeOK, RequestInv, UnaskedIsFresh
<1>10. PendingIsUnused'
  <2>1. q0 \in pending => result \notin Decisions
    BY <1>5, RegistryAssumption DEF q0
  <2>2. QED
    BY <1>1, <1>2, <2>1 DEF TypeOK, RequestInv, PendingIsUnused
<1>11. WaitingOpenOrAnswered'
  BY <1>1, <1>2, <1>3 DEF TypeOK, RequestInv, WaitingOpenOrAnswered, Awaiting
<1>12. NoStaleRequest'
  BY <1>1, <1>3 DEF TypeOK, RequestInv, NoStaleRequest, Requests
<1>13. OneAnswer'
  <2>1. result \in Decisions => accepted[q0] = {result}
    BY <1>4, RegistryAssumption DEF q0
  <2>2. result \in accepted[q0] \cup {"cancelled", "timeout"} \/ accepted[q0] = {}
    BY <2>1
  <2>3. QED
    BY <1>1, <1>2, <2>1, <2>2 DEF TypeOK, RequestInv, OneAnswer
<1>14. OnlyOwnCancel'
  <2>1. result = "cancelled" => r \in cancelled
    BY RegistryAssumption
  <2>2. QED
    BY <1>1, <1>2, <2>1 DEF TypeOK, RequestInv, OnlyOwnCancel
<1>15. QED
  BY <1>7, <1>8, <1>9, <1>10, <1>11, <1>12, <1>13, <1>14
     DEF RegistryInv, RequestInv

\* A receiver that is ready holds a decision: nobody else drops the sender.
LEMMA ReceivedKeeps ==
  ASSUME RegistryInv, NEW r \in Runs, Received(r)
  PROVE  RegistryInv'
<1>1. channel[Current(r)] \in Decisions
  BY DEF RegistryInv, RequestInv, WaitingOpenOrAnswered, Received
<1>2. QED
  BY <1>1, ReturnKeeps DEF Received

\* The run removes its request and goes on.
LEMMA ProceedKeeps ==
  ASSUME RegistryInv, NEW r \in Runs, Proceed(r)
  PROVE  RegistryInv'
<1>1. /\ TypeOK /\ LiveRunsCancellable /\ RequestInv
      /\ pc[r] = "decided" /\ pc' = [pc EXCEPT ![r] = "running"]
      /\ pending' = pending \ {Current(r)}
      /\ UNCHANGED <<rid, asked, kind, active_runs, cancelled, channel,
                     outcome, accepted>>
  BY DEF RegistryInv, Proceed, RunTo, Remove
<1>2. \A s \in Runs : Current(s)' = Current(s) /\ (s # r => Current(s) # Current(r))
  BY <1>1 DEF Current
<1>3. TypeOK'
  BY <1>1 DEF TypeOK, Live
<1>4. LiveRunsCancellable'
  BY <1>1 DEF TypeOK, LiveRunsCancellable, Live
<1>5. WaitingOpenOrAnswered'
  BY <1>1, <1>2 DEF TypeOK, RequestInv, WaitingOpenOrAnswered, Awaiting
<1>6. NoStaleRequest'
  BY <1>1, <1>2 DEF TypeOK, RequestInv, NoStaleRequest, Requests
<1>7. UnaskedIsFresh' /\ PendingIsUnused' /\ OneAnswer' /\ OnlyOwnCancel'
  BY <1>1 DEF RequestInv, UnaskedIsFresh, PendingIsUnused, OneAnswer, OnlyOwnCancel
<1>8. QED
  BY <1>3, <1>4, <1>5, <1>6, <1>7 DEF RegistryInv, RequestInv

\* A command takes the sender of a request: only once, and only its own.
LEMMA ResolveKeeps ==
  ASSUME RegistryInv, NEW q \in Requests, NEW d \in Decisions, Resolve(q, d)
  PROVE  RegistryInv'
<1>1. /\ TypeOK /\ LiveRunsCancellable /\ RequestInv
      /\ q \in pending /\ pending' = pending \ {q}
      /\ channel' = IF channel[q] = "open" THEN [channel EXCEPT ![q] = d] ELSE channel
      /\ accepted' = [accepted EXCEPT ![q] = @ \cup {d}]
      /\ UNCHANGED <<pc, rid, asked, kind, active_runs, cancelled, outcome>>
  BY DEF RegistryInv, Resolve, TakeSender, runVars
<1>2. /\ accepted[q] = {} /\ outcome[q] \notin Decisions
      /\ q = Current(q[1]) /\ q[1] \in Runs /\ q[2] = asked[q[1]]
  BY <1>1 DEF RequestInv, PendingIsUnused, NoStaleRequest, Requests, Current
<1>3. accepted'[q] = {d} /\ \A p \in Requests : p # q => accepted'[p] = accepted[p]
  BY <1>1, <1>2 DEF TypeOK
<1>4. \A s \in Runs : Current(s)' = Current(s)
  BY <1>1 DEF Current
<1>5. asked[q[1]] \in Nat
  BY <1>1, <1>2 DEF TypeOK
<1>6. TypeOK'
  <2>1. channel' \in [Requests -> Decisions \cup {"none", "open", Closed}]
    BY <1>1 DEF TypeOK
  <2>2. accepted' \in [Requests -> SUBSET Decisions]
    BY <1>1 DEF TypeOK
  <2>3. pending' \in SUBSET {p \in Requests : channel'[p] \in {"open", Closed}}
    BY <1>1 DEF TypeOK
  <2>4. QED
    BY <1>1, <2>1, <2>2, <2>3 DEF TypeOK
<1>7. LiveRunsCancellable'
  BY <1>1 DEF LiveRunsCancellable
<1>8. UnaskedIsFresh'
  <2>1. \A p \in Requests : p[2] > asked[p[1]] => p # q
    BY <1>2, <1>5
  <2>2. QED
    BY <1>1, <1>3, <2>1 DEF TypeOK, RequestInv, UnaskedIsFresh
<1>9. PendingIsUnused'
  BY <1>1, <1>3 DEF TypeOK, RequestInv, PendingIsUnused
<1>10. WaitingOpenOrAnswered'
  <2> SUFFICES ASSUME NEW s \in Runs
               PROVE  /\ pc[s] \in Awaiting => asked[s] > 0
                      /\ pc[s] = "waiting" =>
                           \/ channel'[Current(s)] = "open" /\ Current(s) \in pending'
                           \/ /\ channel'[Current(s)] \in Decisions
                              /\ accepted'[Current(s)] = {channel'[Current(s)]}
    BY <1>1, <1>4 DEF WaitingOpenOrAnswered
  <2>1. pc[s] \in Awaiting => asked[s] > 0 /\ Current(s) \in Requests
    BY <1>1, CurrentRequest DEF RequestInv, WaitingOpenOrAnswered
  <2>2. CASE pc[s] = "waiting" /\ Current(s) = q
    <3>1. channel[q] = "open"
      BY <1>1, <1>2, <2>2 DEF RequestInv, WaitingOpenOrAnswered
    <3>2. QED
      BY <1>1, <1>3, <2>1, <2>2, <3>1 DEF TypeOK
  <2>3. CASE pc[s] = "waiting" /\ Current(s) # q
    BY <1>1, <1>3, <2>1, <2>3
       DEF TypeOK, RequestInv, WaitingOpenOrAnswered, Awaiting
  <2>4. QED
    BY <2>1, <2>2, <2>3
<1>11. NoStaleRequest'
  BY <1>1, <1>4 DEF TypeOK, RequestInv, NoStaleRequest, Requests
<1>12. OneAnswer'
  <2>1. outcome[q] \in {"none", "cancelled", "timeout"}
    BY <1>1, <1>2 DEF TypeOK
  <2>2. QED
    BY <1>1, <1>2, <1>3, <2>1 DEF RequestInv, OneAnswer
<1>13. OnlyOwnCancel'
  BY <1>1 DEF RequestInv, OnlyOwnCancel
<1>14. QED
  BY <1>6, <1>7, <1>8, <1>9, <1>10, <1>11, <1>12, <1>13
     DEF RegistryInv, RequestInv

\* agent_cancel_run only adds to the cancelled runs.
LEMMA CancelRunKeeps ==
  ASSUME RegistryInv, NEW i \in RunIds, CancelRun(i)
  PROVE  RegistryInv'
<1> USE DEF RegistryInv, CancelRun, runVars, requestVars
<1>1. TypeOK' /\ LiveRunsCancellable'
  BY DEF TypeOK, LiveRunsCancellable
<1>2. WaitingOpenOrAnswered' /\ NoStaleRequest'
  BY DEF RequestInv, WaitingOpenOrAnswered, NoStaleRequest, Current
<1>3. UnaskedIsFresh' /\ PendingIsUnused' /\ OneAnswer' /\ OnlyOwnCancel'
  BY DEF RequestInv, UnaskedIsFresh, PendingIsUnused, OneAnswer, OnlyOwnCancel
<1>4. QED
  BY <1>1, <1>2, <1>3 DEF RequestInv

\* Every step of a run or a command keeps the invariant.
LEMMA RegistryInvStep == RegistryInv /\ [Next]_vars => RegistryInv'
<1> SUFFICES ASSUME RegistryInv, [Next]_vars PROVE RegistryInv'
  OBVIOUS
<1>1. ASSUME NEW r \in Runs, SelectCancelled(r) PROVE RegistryInv'
  BY <1>1, ReturnKeeps DEF SelectCancelled
<1>2. ASSUME NEW r \in Runs, TimesOut(r) PROVE RegistryInv'
  BY <1>2, ReturnKeeps DEF TimesOut
<1>3. CASE UNCHANGED vars
  BY <1>3 DEF vars, runVars, requestVars, RegistryInv, TypeOK, RequestInv,
     LiveRunsCancellable, UnaskedIsFresh, PendingIsUnused, NoStaleRequest,
     WaitingOpenOrAnswered, OneAnswer, OnlyOwnCancel, Current
<1>4. QED
  BY <1>1, <1>2, <1>3, StartKeeps, AskKeeps, ReceivedKeeps, ProceedKeeps,
     FinishKeeps, ResolveKeeps, CancelRunKeeps DEF Next, RunStep

\* The invariant all theorems follow from.
LEMMA RegistryInvHolds == Spec => []RegistryInv
<1>1. Init => RegistryInv
  BY RegistryInvInit
<1>2. RegistryInv /\ [Next]_vars => RegistryInv'
  BY RegistryInvStep
<1>3. QED
  BY <1>1, <1>2, PTL DEF Spec

-----------------------------------------------------------------------------
(* The theorems                                                            *)

\* The registries keep their types; a sender in a registry was not used yet.
THEOREM RegistryTypeCorrect == Spec => []TypeOK
<1>1. RegistryInv => TypeOK
  BY DEF RegistryInv
<1>2. QED
  BY <1>1, RegistryInvHolds, PTL

\* A live run can be cancelled under its run id, whatever other runs with the
\* same id do, and a run that ended leaves no flag behind.
THEOREM LiveRunsStayCancellable == Spec => []LiveRunsCancellable
<1>1. RegistryInv => LiveRunsCancellable
  BY DEF RegistryInv
<1>2. QED
  BY <1>1, RegistryInvHolds, PTL

\* No entry outlives the wait for it, for any order of answers, timeouts,
\* cancels and removals.
THEOREM NoRequestIsStale == Spec => []NoStaleRequest
<1>1. RegistryInv => NoStaleRequest
  BY DEF RegistryInv, RequestInv
<1>2. QED
  BY <1>1, RegistryInvHolds, PTL

\* "cancelled" is only told to runs that were cancelled.
THEOREM CancelsAreOwn == Spec => []OnlyOwnCancel
<1>1. RegistryInv => OnlyOwnCancel
  BY DEF RegistryInv, RequestInv
<1>2. QED
  BY <1>1, RegistryInvHolds, PTL

\* At most one answer per request is accepted, and an accepted answer is what
\* the run acts on unless it was cancelled or timed out.
THEOREM AnswersAreActedOn == Spec => []AcceptedIsActedOn
<1>1. RegistryInv => AcceptedIsActedOn
  <2>1. OneAnswer => \A q \in Requests : Cardinality(accepted[q]) <= 1
    <3> SUFFICES ASSUME OneAnswer, NEW q \in Requests
                 PROVE  Cardinality(accepted[q]) <= 1
      OBVIOUS
    <3>1. CASE accepted[q] = {}
      BY <3>1, FS_EmptySet
    <3>2. CASE \E d \in Decisions : accepted[q] = {d}
      BY <3>2, FS_Singleton
    <3>3. QED
      BY <3>1, <3>2 DEF OneAnswer
  <2>2. QED
    BY <2>1 DEF RegistryInv, RequestInv, OneAnswer, AcceptedIsActedOn
<1>2. QED
  BY <1>1, RegistryInvHolds, PTL

-----------------------------------------------------------------------------
(* The registries implement the dialogue.                                  *)

\* The flags in the bucket of a run id are of runs under that id.
BucketsAreOwn == \A i \in RunIds : \A r \in active_runs[i] : rid[r] = i

LEMMA BucketsStep ==
  ASSUME TypeOK, BucketsAreOwn, [Next]_vars
  PROVE  BucketsAreOwn'
<1>1. ASSUME NEW r \in Runs, Start(r) PROVE BucketsAreOwn'
  BY <1>1 DEF Start, Register, BucketsAreOwn, TypeOK
<1>2. ASSUME NEW r \in Runs, Finish(r) PROVE BucketsAreOwn'
  BY <1>2 DEF Finish, Unregister, BucketsAreOwn, TypeOK
<1>3. ASSUME UNCHANGED <<rid, active_runs>> PROVE BucketsAreOwn'
  BY <1>3 DEF BucketsAreOwn
<1>4. QED
  BY <1>1, <1>2, <1>3 DEF Next, RunStep, Ask, Received, SelectCancelled, TimesOut, Return, Proceed,
    Resolve, CancelRun, vars, runVars, requestVars

LEMMA BucketsHold == Spec => []BucketsAreOwn
<1>1. Init => BucketsAreOwn
  BY DEF Init, BucketsAreOwn
<1>2. RegistryInv => TypeOK
  BY DEF RegistryInv
<1>3. QED
  BY <1>1, <1>2, BucketsStep, RegistryInvHolds, PTL DEF Spec

\* What a waiting run is told is a possible outcome of its question.
LEMMA ToldStep ==
  ASSUME NEW r \in Runs, NEW v, pc[r] = "waiting", Return(r, v), v \in Dialogue!Outcomes(r),
         v \in Decisions \cup {"cancelled", "timeout"}
  PROVE  Dialogue!Next
<1>1. Dialogue!IsTold(r, v)
  BY DEF Return, RunTo, Current, Dialogue!IsTold, Dialogue!Moves, Dialogue!Newest
<1>2. QED
  BY <1>1 DEF Dialogue!Next

\* The receiver is ready because the answer that was accepted is in the channel:
\* nobody else drops the sender.
LEMMA ReceivedStep ==
  ASSUME RegistryInv, NEW r \in Runs, Received(r)
  PROVE  Dialogue!Next
<1> DEFINE v == channel[Current(r)]
<1>1. v \in Decisions /\ accepted[Current(r)] = {v}
  BY DEF RegistryInv, RequestInv, WaitingOpenOrAnswered, Received
<1>2. pc[r] = "waiting" /\ Return(r, v)
  BY <1>1 DEF Received
<1>3. v \in Dialogue!Outcomes(r)
  BY <1>1 DEF Dialogue!Outcomes, Dialogue!Newest, Current
<1> HIDE DEF v
<1>4. QED
  BY <1>1, <1>2, <1>3, ToldStep

\* A request that can still be resolved is the newest of its run, which waits for
\* it or has just stopped waiting; nothing was accepted for it before.
LEMMA ResolveStep ==
  ASSUME RegistryInv, NEW q \in Requests, NEW d \in Decisions, Resolve(q, d)
  PROVE  Dialogue!Next
<1> DEFINE r == q[1]
<1>1. /\ r \in Runs /\ q = Current(r) /\ pc[r] \in {"waiting", "decided"} /\ accepted[q] = {}
      /\ accepted \in [Requests -> SUBSET Decisions]
  BY DEF RegistryInv, RequestInv, NoStaleRequest, PendingIsUnused, Resolve, Requests, TypeOK
<1> HIDE DEF r
<1>2. accepted' = [accepted EXCEPT ![q] = {d}]
  BY <1>1 DEF Resolve
<1>3. Dialogue!Answers(r, d)
  BY <1>1, <1>2 DEF Resolve, runVars, Current, Dialogue!Answers, Dialogue!Newest
<1>4. QED
  BY <1>1, <1>3 DEF Dialogue!Next

\* agent_cancel_run reaches the live runs of its run id.
LEMMA CancelRunStep ==
  ASSUME RegistryInv, BucketsAreOwn, NEW i \in RunIds, CancelRun(i)
  PROVE  Dialogue!Next
<1>1. active_runs[i] = Dialogue!Live(i)
  BY DEF RegistryInv, TypeOK, LiveRunsCancellable, BucketsAreOwn, Live, Dialogue!Live
<1>2. Dialogue!Stops(i)
  BY <1>1 DEF CancelRun, runVars, requestVars, Dialogue!Stops
<1>3. QED
  BY <1>2 DEF Dialogue!Next

LEMMA DialogueStep ==
  ASSUME RegistryInv, BucketsAreOwn, [Next]_vars
  PROVE  [Dialogue!Next]_(Dialogue!dialogueVars)
<1>1. ASSUME NEW r \in Runs, Start(r) \/ Proceed(r) \/ Finish(r) PROVE Dialogue!Next
  <2>1. Dialogue!Walks(r)
    BY <1>1 DEF Start, Proceed, Finish, RunTo, requestVars, Dialogue!Walks, Dialogue!Moves
  <2>2. QED
    BY <2>1 DEF Dialogue!Next
<1>2. ASSUME NEW r \in Runs, Ask(r) PROVE Dialogue!Next
  <2>1. PICK k \in {"gate", "external"} : kind' = [kind EXCEPT ![r] = k]
    BY <1>2 DEF Ask
  <2>2. Dialogue!Asks(r, k)
    BY <1>2, <2>1 DEF Ask, RunTo, Dialogue!Asks, Dialogue!Moves
  <2>3. QED
    BY <2>2 DEF Dialogue!Next
<1>3. ASSUME NEW r \in Runs, SelectCancelled(r) PROVE Dialogue!Next
  <2>1. "cancelled" \in Dialogue!Outcomes(r)
    BY <1>3 DEF SelectCancelled, Dialogue!Outcomes
  <2>2. QED
    BY <1>3, <2>1, ToldStep DEF SelectCancelled
<1>4. ASSUME NEW r \in Runs, TimesOut(r) PROVE Dialogue!Next
  <2>1. "timeout" \in Dialogue!Outcomes(r)
    BY <1>4 DEF TimesOut, Dialogue!Outcomes
  <2>2. QED
    BY <1>4, <2>1, ToldStep DEF TimesOut
<1>5. CASE UNCHANGED vars
  BY <1>5 DEF vars, runVars, requestVars, Dialogue!dialogueVars
<1>6. QED
  BY <1>1, <1>2, <1>3, <1>4, <1>5, ReceivedStep, ResolveStep, CancelRunStep DEF Next, RunStep

\* For any number of runs, run ids, requests and answers, in any order of threads,
\* the registries, channels and flags keep the promise of RunDialogue.
THEOREM RegistriesImplementDialogue == Spec => ImplementsDialogue
<1>1. Init => Dialogue!Init
  BY DEF Init, Requests, Dialogue!Init, Dialogue!Questions
<1>2. RegistryInv /\ BucketsAreOwn /\ [Next]_vars => [Dialogue!Next]_(Dialogue!dialogueVars)
  BY DialogueStep
<1>3. QED
  BY <1>1, <1>2, RegistryInvHolds, BucketsHold, PTL DEF Spec, ImplementsDialogue, Dialogue!Spec

-----------------------------------------------------------------------------
(* The cancel flag.                                                        *)

\* Some cancel() has passed notify_waiters().
SomeWoken == \E c \in Callers : caller[c] \in {"woken", "done"}

\* The flag comes first: whoever is past the first step of cancel() has set it.
FlagComesFirst == (\E c \in Callers : caller[c] # "idle") => flag

\* A future is never ahead of the Notify; once somebody was woken, one that is
\* not yet registered was created before that, and its first poll will notice.
FuturesNotice ==
  /\ \A w \in Waiters : seen[w] <= calls
  /\ SomeWoken => \A w \in Waiters : waiter[w] = "poll" => seen[w] # calls

\* NoLostWakeup is not inductive: a waiter between its second check and its
\* first poll has to be told from one that may go to sleep.
WakeInv == FlagTypeOK /\ FlagComesFirst /\ FuturesNotice /\ NoLostWakeup

\* Every variable of the flag starts in its type, and nobody waits.
LEMMA WakeInvInit == FlagInit => WakeInv
<1> SUFFICES ASSUME FlagInit PROVE WakeInv
  OBVIOUS
<1>1. FlagTypeOK
  BY DEF FlagInit, FlagTypeOK, Waiting
<1>2. FlagComesFirst /\ FuturesNotice /\ NoLostWakeup
  BY DEF FlagInit, FlagComesFirst, FuturesNotice, NoLostWakeup, SomeWoken
<1>3. QED
  BY <1>1, <1>2 DEF WakeInv

\* Every step of a caller or a waiter keeps WakeInv.
LEMMA WakeInvStep == WakeInv /\ [FlagNext]_flagVars => WakeInv'
<1> SUFFICES ASSUME WakeInv, [FlagNext]_flagVars PROVE WakeInv'
  OBVIOUS
<1> USE DEF WakeInv, FlagTypeOK, FlagComesFirst, FuturesNotice, NoLostWakeup,
            SomeWoken, CallerTo, WaiterTo, notifyVars, Waiting
<1>1. ASSUME NEW c \in Callers, Store(c) PROVE WakeInv'
  <2>1. FlagTypeOK'
    BY <1>1 DEF Store
  <2>2. QED
    BY <1>1, <2>1 DEF Store
<1>2. ASSUME NEW c \in Callers, WakeAll(c) PROVE WakeInv'
  <2>1. FlagTypeOK'
    BY <1>2 DEF WakeAll
  <2>2. \A w \in Waiters : waiter'[w] # "asleep" /\ seen'[w] < calls'
    BY <1>2 DEF WakeAll
  <2>3. FlagComesFirst'
    BY <1>2 DEF WakeAll
  <2>4. QED
    BY <2>1, <2>2, <2>3
<1>3. ASSUME NEW c \in Callers, StorePermit(c) PROVE WakeInv'
  <2>1. queue = {} /\ flag
    BY <1>3 DEF StorePermit
  <2>2. /\ permit' = TRUE
        /\ UNCHANGED <<waiter, queue, flag, seen, calls>>
        /\ caller' = [caller EXCEPT ![c] = "done"] /\ caller[c] = "woken"
    BY <1>3, <2>1 DEF StorePermit, NotifyOne
  <2>3. FlagTypeOK'
    BY <2>1, <2>2
  <2>4. QED
    BY <2>1, <2>2, <2>3
<1>4. ASSUME NEW w \in Waiters, Enter(w) PROVE WakeInv'
  BY <1>4 DEF Enter
<1>5. ASSUME NEW w \in Waiters, FirstCheck(w) PROVE WakeInv'
  BY <1>5 DEF FirstCheck
<1>6. ASSUME NEW w \in Waiters, Arm(w) PROVE WakeInv'
  BY <1>6 DEF Arm
<1>7. ASSUME NEW w \in Waiters, SecondCheck(w) PROVE WakeInv'
  BY <1>7 DEF SecondCheck
<1>8. ASSUME NEW w \in Waiters, Poll(w) PROVE WakeInv'
  <2>1. CASE calls # seen[w]
    BY <1>8, <2>1 DEF Poll
  <2>2. CASE calls = seen[w] /\ permit
    <3>1. /\ waiter[w] = "poll" /\ waiter' = [waiter EXCEPT ![w] = "ready"]
          /\ permit' = FALSE /\ UNCHANGED <<flag, caller, seen, calls, queue>>
      BY <1>8, <2>2 DEF Poll
    <3>2. FlagTypeOK'
      BY <3>1
    <3>3. QED
      BY <3>1, <3>2
  <2>3. CASE calls = seen[w] /\ ~permit
    <3>1. ~SomeWoken
      BY <1>8, <2>3 DEF Poll
    <3>2. QED
      BY <1>8, <2>3, <3>1 DEF Poll
  <2>4. QED
    BY <2>1, <2>2, <2>3
<1>9. ASSUME NEW w \in Waiters, Awake(w) PROVE WakeInv'
  BY <1>9 DEF Awake
<1>10. ASSUME NEW w \in Waiters, Drop(w) PROVE WakeInv'
  BY <1>10 DEF Drop
<1>11. CASE UNCHANGED flagVars
  BY <1>11 DEF flagVars
<1>12. QED
  BY <1>1, <1>2, <1>3, <1>4, <1>5, <1>6, <1>7, <1>8, <1>9, <1>10, <1>11
     DEF FlagNext, CancelStep, WaitStep

\* The invariant that carries both theorems.
LEMMA WakeInvHolds == FlagSpec => []WakeInv
<1>1. FlagInit => WakeInv
  BY WakeInvInit
<1>2. WakeInv /\ [FlagNext]_flagVars => WakeInv'
  BY WakeInvStep
<1>3. QED
  BY <1>1, <1>2, PTL DEF FlagSpec

\* The flag, the Notify and its waiters keep their types, for any number of
\* threads; a stored permit means that somebody called cancel().
THEOREM CancelTypeCorrect == FlagSpec => []FlagTypeOK
<1>1. WakeInv => FlagTypeOK
  BY DEF WakeInv
<1>2. QED
  BY <1>1, WakeInvHolds, PTL

\* Once a cancel() has passed notify_waiters(), no task sleeps in cancelled(),
\* for any number of callers and waiters and any order of their steps.
THEOREM NoWakeupIsLost == FlagSpec => []NoLostWakeup
<1>1. WakeInv => NoLostWakeup
  BY DEF WakeInv
<1>2. QED
  BY <1>1, WakeInvHolds, PTL

\* What keeps CancelReachesAll from failing.  How many steps a waiter is from
\* leaving cancelled() once the flag is set.
StepsLeft(place) ==
  CASE place = "check" -> 6 [] place = "arm" -> 5 [] place = "recheck" -> 4
    [] place = "poll" -> 3 [] place = "asleep" -> 2 [] place = "ready" -> 1
    [] OTHER -> 0

\* A waiter can move on, or a caller of cancel() is about to wake it.
MovesOrIsWoken(w) == waiter[w] # "asleep" \/ \E c \in Callers : caller[c] = "stored"

\* A set flag was set by a caller that has not gone back to where it was.
SetBySomeone == flag => \E c \in Callers : caller[c] # "idle"

LEMMA SetBySomeoneHolds == FlagSpec => []SetBySomeone
<1>1. FlagInit => SetBySomeone
  BY DEF FlagInit, SetBySomeone
<1>2. WakeInv /\ SetBySomeone /\ [FlagNext]_flagVars => SetBySomeone'
  <2> SUFFICES ASSUME WakeInv, SetBySomeone, [FlagNext]_flagVars PROVE SetBySomeone'
    OBVIOUS
  <2> USE DEF SetBySomeone, CallerTo
  <2>1. caller \in [Callers -> {"idle", "stored", "woken", "done"}]
    BY DEF WakeInv, FlagTypeOK
  <2>2. ASSUME NEW c \in Callers, CancelStep(c) PROVE SetBySomeone'
    <3>1. caller'[c] # "idle"
      BY <2>1, <2>2 DEF CancelStep, Store, WakeAll, StorePermit
    <3>2. QED
      BY <3>1
  <2>3. ASSUME NEW w \in Waiters, Enter(w) \/ WaitStep(w) \/ Drop(w) PROVE SetBySomeone'
    <3>1. flag' = flag /\ caller' = caller
      BY <2>3 DEF Enter, WaitStep, FirstCheck, Arm, SecondCheck, Poll, Awake, Drop
    <3>2. QED
      BY <3>1
  <2>4. CASE UNCHANGED flagVars
    BY <2>4 DEF flagVars
  <2>5. QED
    BY <2>2, <2>3, <2>4 DEF FlagNext
<1>3. QED
  BY <1>1, <1>2, WakeInvHolds, PTL DEF FlagSpec

\* Once Stop is pressed, no order of the steps of callers and waiters keeps a task
\* in cancelled(): each of its steps brings it nearer the end, nothing takes it
\* back, and it sleeps only while a caller has yet to wake it.
THEOREM CancelCannotStall ==
  FlagSpec =>
    /\ [](\A w \in Waiters : flag /\ waiter[w] \in Waiting => MovesOrIsWoken(w))
    /\ [][\A w \in Waiters : flag /\ waiter[w] \in Waiting =>
            waiter'[w] = waiter[w] \/ StepsLeft(waiter'[w]) < StepsLeft(waiter[w])]_flagVars
<1>1. ASSUME WakeInv, SetBySomeone, NEW w \in Waiters, flag, waiter[w] \in Waiting
      PROVE  MovesOrIsWoken(w)
  <2>1. PICK c \in Callers : caller[c] # "idle"
    BY <1>1 DEF SetBySomeone
  <2>2. caller[c] \in {"stored", "woken", "done"}
    BY <1>1, <2>1 DEF WakeInv, FlagTypeOK
  <2>3. QED
    BY <1>1, <2>1, <2>2 DEF WakeInv, NoLostWakeup, MovesOrIsWoken
<1>2. ASSUME WakeInv, [FlagNext]_flagVars, NEW w \in Waiters, flag, waiter[w] \in Waiting
      PROVE  waiter'[w] = waiter[w] \/ StepsLeft(waiter'[w]) < StepsLeft(waiter[w])
  <2> USE DEF WaiterTo, StepsLeft
  <2>1. /\ waiter \in [Waiters -> Waiting \cup {"idle", "returned"}]
        /\ queue = {v \in Waiters : waiter[v] = "asleep"}
        /\ waiter[w] \in {"check", "arm", "recheck", "poll", "asleep", "ready"}
    BY <1>2 DEF WakeInv, FlagTypeOK, Waiting
  <2>2. ASSUME NEW c \in Callers, Store(c) PROVE waiter'[w] = waiter[w]
    BY <2>2 DEF Store
  <2>3. ASSUME NEW c \in Callers, WakeAll(c)
        PROVE  waiter'[w] = waiter[w] \/ StepsLeft(waiter'[w]) < StepsLeft(waiter[w])
    BY <2>1, <2>3 DEF WakeAll
  <2>4. ASSUME NEW c \in Callers, StorePermit(c)
        PROVE  waiter'[w] = waiter[w] \/ StepsLeft(waiter'[w]) < StepsLeft(waiter[w])
    BY <2>1, <2>4 DEF StorePermit, NotifyOne
  <2>5. ASSUME NEW v \in Waiters, v # w, Enter(v) \/ WaitStep(v) \/ Drop(v) PROVE waiter'[w] = waiter[w]
    BY <2>1, <2>5 DEF Enter, WaitStep, FirstCheck, Arm, SecondCheck, Poll, Awake, Drop
  <2>6. ASSUME Enter(w) PROVE FALSE
    BY <2>1, <2>6 DEF Enter
  <2>7. ASSUME FirstCheck(w) \/ SecondCheck(w) \/ Awake(w) \/ Arm(w)
        PROVE  StepsLeft(waiter'[w]) < StepsLeft(waiter[w])
    <3>1. CASE FirstCheck(w)
      BY <1>2, <2>1, <3>1 DEF FirstCheck
    <3>2. CASE SecondCheck(w)
      BY <1>2, <2>1, <3>2 DEF SecondCheck
    <3>3. CASE Awake(w)
      BY <1>2, <2>1, <3>3 DEF Awake
    <3>4. CASE Arm(w)
      BY <2>1, <3>4 DEF Arm
    <3>5. QED
      BY <2>7, <3>1, <3>2, <3>3, <3>4
  <2>8. ASSUME Poll(w) PROVE StepsLeft(waiter'[w]) < StepsLeft(waiter[w])
    BY <2>1, <2>8 DEF Poll
  <2>9. ASSUME Drop(w) PROVE StepsLeft(waiter'[w]) < StepsLeft(waiter[w])
    BY <2>1, <2>9 DEF Drop
  <2>10. CASE UNCHANGED flagVars
    BY <2>10 DEF flagVars
  <2>11. QED
    BY <1>2, <2>2, <2>3, <2>4, <2>5, <2>6, <2>7, <2>8, <2>9, <2>10 DEF FlagNext, CancelStep, WaitStep
<1>3. WakeInv /\ SetBySomeone => \A w \in Waiters : flag /\ waiter[w] \in Waiting => MovesOrIsWoken(w)
  BY <1>1
<1>4. WakeInv /\ [FlagNext]_flagVars =>
        [\A w \in Waiters : flag /\ waiter[w] \in Waiting =>
           waiter'[w] = waiter[w] \/ StepsLeft(waiter'[w]) < StepsLeft(waiter[w])]_flagVars
  BY <1>2
<1>5. QED
  BY <1>3, <1>4, WakeInvHolds, SetBySomeoneHolds, PTL DEF FlagSpec

================================================================================
