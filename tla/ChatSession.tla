----------------------------- MODULE ChatSession ------------------------------
(***************************************************************************)
(* One chat session on disk and the commands that read and write it:       *)
(* agent_chat (a direct chat), agent_swarm_chat and agent_coordinator_chat *)
(* (a swarm turn), chat_delete_session and the process dying.  A command   *)
(* loads the session, appends the user's prompt, builds the window the LLM *)
(* sees from what it loaded, runs, and appends what came out of it; a      *)
(* swarm turn also folds old turns into blocks of "previous chat history". *)
(*                                                                         *)
(* Every append is load, change, save under one mutex and writes the whole *)
(* file (temporary file, fsync, rename), so a crash leaves the old file or *)
(* the new one.  Loading for the window and deleting take no lock.         *)
(*                                                                         *)
(* A message is its kind, the turn (command) it belongs to and, for a      *)
(* block, the range of turns it covers; its text is abstracted to a size.  *)
(***************************************************************************)
EXTENDS Integers, Sequences, FiniteSets, SequencesExt

CONSTANTS
  MaxTurns,        \* bound: commands issued in the session
  MayOverlap,      \* bound: commands that may start while others run
  MaxCrashes,      \* bound
  Sizes,           \* bound: characters of a prompt and its ledger
  RECENT_KEEP, COMPRESS_BATCH,
  BUDGET,          \* budget_chars of the turns kept verbatim
  MAX_DIRECT_CHAT_MESSAGES

ASSUME ChatAssumption ==
  /\ MaxTurns \in Nat /\ MayOverlap \subseteq 1..MaxTurns /\ MaxCrashes \in Nat
  /\ Sizes \subseteq Nat /\ Sizes # {}
  /\ RECENT_KEEP \in Nat \ {0} /\ COMPRESS_BATCH \in Nat \ {0} /\ BUDGET \in Nat
  /\ MAX_DIRECT_CHAT_MESSAGES \in Nat \ {0}

Turns == 1..MaxTurns

VARIABLES
  messages,    \* of the session file
  transcript,  \* of the session file: the turns that have records in it
  exists,      \* whether the file is there
  io_lock,     \* the commands that hold SESSION_IO_LOCK: at most one
  buffer,      \* of each command: the session it has loaded to change it
  mode,        \* of each command: swarm or direct
  pc, todo,    \* of each command: where it is, what it still has to store
  window,      \* of each command: the messages the LLM was given
  crashes, resumed,  \* bounds: how often the process died, turns resumed
  stored,      \* history: messages whose append has returned
  deleted,     \* history: delete_session has removed the file
  overlapped   \* history: commands have been running at the same time, or a turn
               \* was resumed after a later one or after its ledger

sessionFile == <<messages, transcript, exists>>
commands == <<mode, pc, todo, window>>
bounds == <<crashes, resumed>>
history == <<stored, deleted, overlapped>>
chatVars == <<sessionFile, io_lock, buffer, commands, bounds, history>>

-----------------------------------------------------------------------------
(* Messages.                                                               *)

Message(kind, t) == [kind |-> kind, turn |-> t, size |-> 0, from |-> 0, upto |-> 0]
Ledger(t, n) == [Message("ledger", t) EXCEPT !.size = n]

\* A block that covers the turns with index from .. upto - 1 ([COVERS] a-b).
Epoch(a, b) == [Message("epoch", 0) EXCEPT !.from = a, !.upto = b]

\* What a direct chat leaves in its trace: each call is answered, unless a
\* Stop comes in between (RoleLoop).  The final answer is left out.
DirectTrace(t) == <<Message("call", t), Message("tool", t)>>
FailedTrace(t) == <<Message("call", t)>>

OfKind(kind, ms) == SelectSeq(ms, LAMBDA m : m.kind = kind)
IsUser(m) == m.kind \in {"prompt", "epoch"}

\* epoch_block_covers, summed over the blocks: a turn counts once for every
\* block that covers it; only blocks have a range that is not empty.
Covered(ms) ==
  Cardinality(UNION {{i} \X (ms[i].from .. ms[i].upto - 1) : i \in DOMAIN ms})

-----------------------------------------------------------------------------
(* compact_epoch.                                                          *)

\* The turns that have their ledger before position i, and all of them.
LedgersBefore(ms, i) == Cardinality({j \in 1..(i - 1) : ms[j].kind = "ledger"})
Ledgers(ms) == LedgersBefore(ms, Len(ms) + 1)

\* How many of the newest turns fit the budget; at least RECENT_KEEP.
KeepCount(ms) ==
  LET ledgers == OfKind("ledger", ms)
      SizeOfNewest(k) == FoldLeft(LAMBDA n, m : n + m.size, 0,
                                  SubSeq(ledgers, Len(ledgers) - k + 1, Len(ledgers)))
      fits == {k \in 1..Ledgers(ms) : k <= RECENT_KEEP \/ SizeOfNewest(k) <= BUDGET}
      keep_count == Cardinality(fits)
  IN  IF keep_count < RECENT_KEEP THEN RECENT_KEEP ELSE keep_count

\* How many turns to fold now: whole batches, beyond what is kept.
ToFold(ms) ==
  LET open == Ledgers(ms) - Covered(ms)
      beyond == open - KeepCount(ms)
  IN  IF open <= RECENT_KEEP \/ beyond <= 0
      THEN 0 ELSE (beyond \div COMPRESS_BATCH) * COMPRESS_BATCH

\* Mutant: the turns that are covered already are not counted.
NewBlocksFromZero(ms) ==
  [i \in 1..(ToFold(ms) \div COMPRESS_BATCH) |->
     Epoch((i - 1) * COMPRESS_BATCH, i * COMPRESS_BATCH)]

NewBlocks(ms) ==
  [i \in 1..(ToFold(ms) \div COMPRESS_BATCH) |->
     Epoch(Covered(ms) + (i - 1) * COMPRESS_BATCH, Covered(ms) + i * COMPRESS_BATCH)]

\* The blocks at the front of the file.
EpochPrefix(ms) ==
  SubSeq(ms, 1, Cardinality({k \in DOMAIN ms : \A i \in 1..k : ms[i].kind = "epoch"}))

Compacted(ms) ==
  LET old == EpochPrefix(ms)
  IN  old \o NewBlocks(ms) \o SubSeq(ms, Len(old) + 1, Len(ms))

-----------------------------------------------------------------------------
(* The windows.                                                            *)

\* The k-th smallest of a set of positions.
Rank(S, i) == Cardinality({j \in S : j <= i})
Nth(S, k) == CHOOSE i \in S : Rank(S, i) = k

\* Mutant: the newest turns only, a window that slides.
ShownRecent(ms, i) ==
  CASE ms[i].kind \in {"ledger", "prompt"} ->
         LedgersBefore(ms, i) + RECENT_KEEP >= Ledgers(ms)
    [] ms[i].kind = "error" -> FALSE
    [] OTHER -> TRUE

\* build_ledger_context: a turn that a block covers is left out, with the
\* prompt before its ledger; errors are left out always.
Shown(ms, i) ==
  CASE ms[i].kind \in {"ledger", "prompt"} -> LedgersBefore(ms, i) >= Covered(ms)
    [] ms[i].kind = "error" -> FALSE
    [] OTHER -> TRUE

LedgerContext(ms) ==
  LET shown == {i \in DOMAIN ms : Shown(ms, i)}
  IN  [k \in 1..Cardinality(shown) |-> ms[Nth(shown, k)]]

\* Mutant: the tail starts wherever the count says.
DirectWindowTail(ms) ==
  IF Len(ms) <= MAX_DIRECT_CHAT_MESSAGES THEN ms
  ELSE <<Head(ms)>> \o SubSeq(ms, Len(ms) - MAX_DIRECT_CHAT_MESSAGES + 1, Len(ms))

\* bound_direct_chat_window: the first message and a tail that starts at a
\* message of the user.
DirectWindow(ms) ==
  IF Len(ms) <= MAX_DIRECT_CHAT_MESSAGES THEN ms
  ELSE LET keep_from == Len(ms) - MAX_DIRECT_CHAT_MESSAGES + 1
           starts == {i \in keep_from..Len(ms) : IsUser(ms[i])}
           start == IF starts = {} THEN keep_from
                    ELSE CHOOSE i \in starts : \A j \in starts : i <= j
       IN  <<Head(ms)>> \o SubSeq(ms, start, Len(ms))

-----------------------------------------------------------------------------
(* What a command has to store.  An operation that need not succeed is     *)
(* only logged when it fails.                                              *)

Store(m) == [op |-> "message", msg |-> m, must |-> TRUE]
StoreAll(ms) == [i \in DOMAIN ms |-> Store(ms[i])]
StoreTranscript(t, must) ==
  [op |-> "transcript", msg |-> Message("transcript", t), must |-> must]
Compact == [op |-> "compact", msg |-> Message("compact", 0), must |-> FALSE]

SwarmStores(t) ==
  {<<Store(Ledger(t, n)), StoreTranscript(t, TRUE), Compact>> : n \in Sizes}
FailedSwarmStores(t) ==
  {<<StoreTranscript(t, FALSE), Store(Message("error", t))>>}
DirectStores(t) == {StoreAll(DirectTrace(t))}
FailedDirectStores(t) ==
  {StoreAll(Append(FailedTrace(t), Message("error", t)))}

HasLedger(t) == \E m \in stored : m.kind = "ledger" /\ m.turn = t

NoSession == [messages |-> <<>>, transcript |-> {}]

NotRunning == {"new", "over", "failed"}
Live == {t \in Turns : pc[t] \notin NotRunning}
Issued == {t \in Turns : pc[t] # "new"}

ChatInit ==
  /\ messages = <<>> /\ transcript = {} /\ exists = TRUE
  /\ io_lock = {} /\ buffer = [t \in Turns |-> NoSession]
  /\ mode \in [Turns -> {"swarm", "direct"}]
  /\ pc = [t \in Turns |-> "new"]
  /\ todo = [t \in Turns |-> <<>>]
  /\ window = [t \in Turns |-> <<>>]
  /\ crashes = 0 /\ resumed = {}
  /\ stored = {} /\ deleted = FALSE /\ overlapped = FALSE

\* load_session for the window, then the append of the prompt is due.  The
\* window is a function of what is loaded here.
Issue(t) ==
  /\ pc[t] = "new" /\ \A u \in 1..(t - 1) : pc[u] # "new"
  /\ Live # {} => t \in MayOverlap
  /\ exists /\ ~deleted
  /\ LET prompt == Message("prompt", t)
     IN  /\ todo' = [todo EXCEPT ![t] = <<Store(prompt)>>]
         /\ window' = [window EXCEPT ![t] =
              IF mode[t] = "swarm" THEN Append(LedgerContext(messages), prompt)
              ELSE DirectWindow(Append(messages, prompt))]
  /\ pc' = [pc EXCEPT ![t] = "running"]
  /\ overlapped' = (overlapped \/ Live # {})
  /\ UNCHANGED <<sessionFile, io_lock, buffer, mode, bounds, stored, deleted>>

\* agent_resume_run: a swarm turn that failed continues without a new prompt
\* from the context its checkpoint holds.
Resume(t) ==
  /\ pc[t] = "failed" /\ mode[t] = "swarm" /\ resumed = {}
  /\ resumed' = resumed \cup {t}
  /\ Live # {} => t \in MayOverlap
  /\ exists /\ ~deleted
  /\ pc' = [pc EXCEPT ![t] = "running"]
  /\ overlapped' = (overlapped \/ Issued # 1..t \/ HasLedger(t))
  /\ UNCHANGED <<sessionFile, io_lock, buffer, mode, todo, window, crashes, stored, deleted>>

Storing == {"running", "storing"}  \* a command that runs has stored its prompt
\* Mutant: the mutex does not exclude anyone.
LockIgnored == TRUE

LockFree == io_lock = {}

\* session_io_lock and load_session of the next thing to store.
BeginStore(t) ==
  /\ pc[t] \in Storing /\ todo[t] # <<>> /\ t \notin io_lock
  /\ LockFree
  /\ exists
  /\ io_lock' = io_lock \cup {t}
  /\ buffer' = [buffer EXCEPT ![t] = [messages |-> messages, transcript |-> transcript]]
  /\ UNCHANGED <<sessionFile, commands, bounds, history>>

\* load_session fails: the file was deleted.
StoreFails(t) ==
  /\ pc[t] \in Storing /\ todo[t] # <<>> /\ t \notin io_lock
  /\ LockFree
  /\ ~exists
  /\ IF Head(todo[t]).must
     THEN /\ pc' = [pc EXCEPT ![t] = "over"]
          /\ todo' = [todo EXCEPT ![t] = <<>>]
          /\ window' = [window EXCEPT ![t] = <<>>]
     ELSE /\ todo' = [todo EXCEPT ![t] = Tail(@)]
          /\ UNCHANGED <<pc, window>>
  /\ UNCHANGED <<sessionFile, io_lock, buffer, mode, bounds, history>>

\* What an operation makes of the session b.
Changed(op, b) ==
  CASE op.op = "message" -> [b EXCEPT !.messages = Append(@, op.msg)]
    [] op.op = "transcript" -> [b EXCEPT !.transcript = @ \cup {op.msg.turn}]
    [] op.op = "compact" -> [b EXCEPT !.messages = Compacted(@)]

Release(t) == io_lock \ {t}

\* The changed session replaces the file, deleted or not; the lock is free.
EndStore(t) ==
  /\ pc[t] \in Storing /\ todo[t] # <<>>
  /\ t \in io_lock
  /\ LET op == Head(todo[t])
         session == Changed(op, buffer[t])
     IN  /\ messages' = session.messages /\ transcript' = session.transcript
         /\ exists' = TRUE
         /\ stored' = IF op.op = "message" THEN stored \cup {op.msg} ELSE stored
  /\ todo' = [todo EXCEPT ![t] = Tail(@)]
  /\ io_lock' = Release(t) /\ buffer' = [buffer EXCEPT ![t] = NoSession]
  /\ UNCHANGED <<mode, pc, window, bounds, deleted, overlapped>>

\* The run is over; what it leaves is stored one append after the other.
RunEnds(t) ==
  /\ pc[t] = "running" /\ todo[t] = <<>>
  /\ \E stores \in IF mode[t] = "swarm" THEN SwarmStores(t) ELSE DirectStores(t) :
       todo' = [todo EXCEPT ![t] = stores]
  /\ pc' = [pc EXCEPT ![t] = "storing"]
  /\ UNCHANGED <<sessionFile, io_lock, buffer, mode, window, bounds, history>>

RunFails(t) ==
  /\ pc[t] = "running" /\ todo[t] = <<>>
  /\ \E stores \in IF mode[t] = "swarm" THEN FailedSwarmStores(t)
                   ELSE FailedDirectStores(t) :
       todo' = [todo EXCEPT ![t] = stores]
  /\ pc' = [pc EXCEPT ![t] = "storing"]
  /\ UNCHANGED <<sessionFile, io_lock, buffer, mode, window, bounds, history>>

\* The command returns; a swarm turn without a ledger can be resumed.
Finish(t) ==
  /\ pc[t] = "storing" /\ todo[t] = <<>>
  /\ pc' = [pc EXCEPT ![t] = IF HasLedger(t) \/ mode[t] = "direct" THEN "over" ELSE "failed"]
  /\ window' = [window EXCEPT ![t] = <<>>]
  /\ UNCHANGED <<sessionFile, io_lock, buffer, mode, todo, bounds, history>>

\* chat_delete_session.
Delete ==
  /\ exists
  /\ exists' = FALSE /\ messages' = <<>> /\ transcript' = {}
  /\ deleted' = TRUE
  /\ UNCHANGED <<io_lock, buffer, commands, bounds, stored, overlapped>>

\* The process dies and is started again.  A swarm turn may have left a
\* checkpoint, which is dropped after its ledger is stored (SwarmRun).
HasCheckpoint(t) == mode[t] = "swarm" /\ todo[t] \notin {<<Compact>>, <<Store(Message("prompt", t))>>}

ProcessDies ==
  /\ crashes < MaxCrashes /\ Live # {}
  /\ crashes' = crashes + 1
  /\ pc' = [t \in Turns |-> IF t \notin Live THEN pc[t]
                           ELSE IF HasCheckpoint(t) THEN "failed" ELSE "over"]
  /\ todo' = [t \in Turns |-> <<>>] /\ window' = [t \in Turns |-> <<>>]
  /\ io_lock' = {} /\ buffer' = [t \in Turns |-> NoSession]
  /\ UNCHANGED <<sessionFile, mode, resumed, history>>

TurnStep(t) ==
  \/ BeginStore(t) \/ StoreFails(t) \/ EndStore(t)
  \/ RunEnds(t) \/ RunFails(t) \/ Finish(t)

ChatNext ==
  \/ \E t \in Turns : Issue(t) \/ Resume(t) \/ TurnStep(t)
  \/ Delete \/ ProcessDies

ChatSpec == ChatInit /\ [][ChatNext]_chatVars

-----------------------------------------------------------------------------
(* Properties.                                                             *)

\* What an append reported as stored is in the file, although other commands
\* of the session append, fold old turns or die in between.
NothingLost == ~deleted => stored \subseteq ToSet(messages)

\* The session file keeps the promise of SessionLog: whatever commands overlap,
\* fold old turns or die in between, each append takes effect at once at the end
\* of the messages, and no message is lost, reordered or made up.
Records ==
  {Message(kind, t) : kind \in {"prompt", "call", "tool", "error"}, t \in Turns}
    \cup {Ledger(t, n) : t \in Turns, n \in Sizes}
SL == INSTANCE SessionLog
        WITH Entries <- Records, gone <- deleted,
             log <- IF deleted THEN <<>>
                    ELSE SubSeq(messages, Len(EpochPrefix(messages)) + 1, Len(messages)),
             returned <- IF deleted THEN {} ELSE stored
ImplementsSessionLog == SL!Spec

\* The blocks are at the front of the file and cover the oldest turns, batch
\* by batch without a gap or an overlap, and never one of the newest turns.
BlocksCoverOldTurns ==
  \A i \in DOMAIN messages :
    messages[i].kind = "epoch" =>
      /\ IF i = 1 THEN messages[i].from = 0
         ELSE messages[i - 1].kind = "epoch" /\ messages[i].from = messages[i - 1].upto
      /\ messages[i].upto = messages[i].from + COMPRESS_BATCH
      /\ Covered(messages) + RECENT_KEEP <= Ledgers(messages)

\* Between two foldings the window only grows at its end, so that the
\* provider's prefix cache stays valid.
PrefixStaysCached ==
  [][exists /\ exists' /\ Covered(messages) = Covered(messages') =>
       IsPrefix(LedgerContext(messages), LedgerContext(messages'))]_chatVars

\* A window ends with the prompt, shows no answer of a tool without the call
\* before it, and in a swarm turn no ledger without the prompt it answers,
\* unless commands overlapped: then messages are not in turn order.
ExchangesKept ==
  \A t \in Turns : window[t] # <<>> =>
    LET w == window[t]
    IN  /\ Last(w) = Message("prompt", t)
        /\ ~overlapped =>
             \A i \in DOMAIN w :
               /\ w[i].kind = "tool" => i > 1 /\ w[i - 1] = Message("call", w[i].turn)
               /\ mode[t] = "swarm" /\ w[i].kind = "ledger" =>
                    Message("prompt", w[i].turn) \in ToSet(w)

=============================================================================
