------------------------------- MODULE RoleLoop -------------------------------
(***************************************************************************)
(* One agentic loop against an LLM provider: `run_role_loop`, which every  *)
(* phase of a swarm run goes through, and its twin `run_loop` of the       *)
(* direct chat.  A loop takes turns.  A turn sends the history, retries    *)
(* the request on transient errors, reads the answer as a stream, restarts *)
(* the stream if it died empty, and then either ends or runs the tools the *)
(* model called and answers each call in the history.                      *)
(*                                                                         *)
(* The model's text, its reasoning and the tools' output are abstracted to *)
(* what the loop tells apart: whether a text is there and whether it holds *)
(* a tool tag, how many characters an output has, whether the arguments of *)
(* a call are whole.  Chunks of the stream, errors of the provider and the *)
(* Stop of the user come in every order.                                   *)
(***************************************************************************)
EXTENDS Integers, Sequences, FiniteSets, Functions

CONSTANTS
  Loops,                    \* the loops to start: "role", "direct"
  MAX_TURNS,                \* max_turns, MAX_AGENT_TURNS
  MAX_LLM_STREAM_RETRIES,
  STREAM_RESTARTS,          \* initial value of stream_restarts
  CallKinds,                \* bound: the <<tool, arguments>> the model may call
  TextKinds,                \* bound: the texts it may write
  MaxCalls,                 \* bound: tool calls of one answer
  OutputSizes,              \* bound: characters a tool may return
  OUTPUT_TOTAL,             \* MAX_TOOL_OUTPUT_TOTAL_CHARS
  OUTPUT_CAP,               \* the 24000 of bounded_truncate_middle
  OUTPUT_FLOOR,             \* its 64
  MARK                      \* length of the note truncate_middle leaves

ASSUME LoopAssumption ==
  /\ Loops \subseteq {"role", "direct"}
  /\ MAX_TURNS \in Nat /\ STREAM_RESTARTS \in Nat /\ MaxCalls \in Nat
  /\ MAX_LLM_STREAM_RETRIES \in Nat \ {0}
  /\ TextKinds \subseteq {"plain", "cut_tag", "tag_read", "tag_write", "tag_handoff"}
  /\ OutputSizes \subseteq Nat /\ OutputSizes # {}
  /\ OUTPUT_TOTAL \in Nat /\ OUTPUT_CAP \in Nat
  /\ OUTPUT_FLOOR \in Nat /\ MARK \in Nat
  /\ OUTPUT_FLOOR <= OUTPUT_CAP

VARIABLES
  loop,        \* which of the two functions runs
  auto_approve,
  pc, turn, attempt,
  stream_restarts,
  cancelled,   \* the run's cancel flag
  buf,         \* the buffers of the stream being read
  dropped,     \* kinds of chunks this turn's dead streams had delivered
  history,     \* the conversation
  pending,     \* tool_calls of this turn that are not answered yet
  parts,       \* executions of the current call that are left
  size,        \* length of the current call's output so far
  retained,    \* tool_output_chars
  ran,         \* history variable: executions, in order
  result

turnVars == <<turn, attempt, stream_restarts, dropped>>
toolVars == <<pending, parts, size, retained, ran>>
fixed == <<loop, auto_approve>>
vars == <<fixed, pc, turnVars, cancelled, buf, history, toolVars, result>>

-----------------------------------------------------------------------------
(* Data.                                                                   *)

\* "write" stands for MUTATING_TOOLS, which are also the tools that require
\* approval; "read" for the others; "handoff" for the tool in stop_on_tool;
\* "foreign" for one outside allowed_tools.
Tools == {"read", "write", "handoff", "foreign"}

\* arguments_json: valid, cut off in the middle, several objects in a row.
Args == {"json", "cut", "concat"}
Call(i, tool, args) == [id |-> <<turn, i>>, tool |-> tool, args |-> args]

\* What a text may hold besides prose: an unclosed tool tag, a closed one.
\* A closed tag is read only for its attributes: the expressions for child
\* tags use a back-reference, which the regex crate refuses to compile, so
\* a call whose arguments are all in child tags counts as prose.
TagOf == [tag_read |-> "read", tag_write |-> "write", tag_handoff |-> "handoff"]
EmptyBuf == [text |-> "", think |-> FALSE, calls |-> <<>>]

User == [role |-> "user", calls |-> <<>>]
Assistant(calls) == [role |-> "assistant", calls |-> calls]
Answer(call) == [role |-> "tool", calls |-> <<call>>]

\* Mutant: tool calls that have started do not count as output.
EmittedText == buf.text # ""

\* emitted_any
Emitted == buf.text # "" \/ buf.calls # <<>>

\* The kinds of chunks the current stream has delivered to the UI or the loop.
Delivered == {k \in {"text", "think", "calls"} :
                CASE k = "text" -> buf.text # ""
                  [] k = "think" -> buf.think
                  [] k = "calls" -> buf.calls # <<>>}

\* The calls extract_text_tool_calls finds.
TextCalls == IF buf.text \in DOMAIN TagOf
             THEN <<Call(0, TagOf[buf.text], "json")>> ELSE <<>>

\* Mutant: the repair of truncated JSON is tried for every tool.
RepairAll(call) == IF call.args = "concat" THEN 2 ELSE 1

\* How often a call with these arguments is executed: parse_tool_args
\* repairs truncated arguments of a tool that does not mutate, and
\* split_concatenated_json turns several objects into several executions.
Executions(call) ==
  CASE call.args = "json" -> 1
    [] call.args = "concat" -> 2
    [] call.args = "cut" -> IF call.tool = "write" THEN 0 ELSE 1

\* The role gate and the approval gate.
Refused(call) == \/ loop = "role" /\ call.tool = "foreign"
                 \/ call.tool = "write" /\ ~auto_approve

\* bounded_truncate_middle of an output of n characters.
Smaller(a, b) == IF a < b THEN a ELSE b
Larger(a, b) == IF a > b THEN a ELSE b
OutputLimit == Smaller(OUTPUT_CAP, Larger(OUTPUT_TOTAL - retained, OUTPUT_FLOOR))
\* Mutant: the budget that is left is not looked at.
CappedOnly(n) == IF n <= OUTPUT_CAP THEN n ELSE 2 * (OUTPUT_CAP \div 2) + MARK

Truncated(n) == IF n <= OutputLimit THEN n ELSE 2 * (OutputLimit \div 2) + MARK

-----------------------------------------------------------------------------
Init ==
  /\ loop \in Loops
  /\ auto_approve \in BOOLEAN
  /\ pc = "turn" /\ turn = 0 /\ attempt = 0
  /\ stream_restarts = STREAM_RESTARTS /\ dropped = {}
  /\ cancelled = FALSE
  /\ buf = EmptyBuf
  /\ history = <<User>>
  /\ pending = <<>> /\ parts = 0 /\ size = 0 /\ retained = 0
  /\ ran = <<>>
  /\ result = "none"

\* agent_cancel_run, at any time.
Stop ==
  /\ pc # "done" /\ ~cancelled
  /\ cancelled' = TRUE
  /\ UNCHANGED <<fixed, pc, turnVars, buf, history, toolVars, result>>

\* The function returns and its locals are gone.
Return(r) ==
  /\ pc' = "done" /\ result' = r
  /\ attempt' = 0 /\ stream_restarts' = STREAM_RESTARTS
  /\ buf' = EmptyBuf /\ pending' = <<>> /\ parts' = 0 /\ size' = 0
  /\ UNCHANGED <<fixed, turn, dropped, cancelled, retained, ran>>

\* The checks of the flag between two awaits, and the branches of the
\* select!s that wait for it.  A stream that delivers another chunk between
\* Stop and the check only fills a buffer that is then thrown away.  The
\* refresh of the Hub session and a running tool are not cut short.
ReturnCancelled ==
  /\ cancelled
  /\ \/ pc \in {"connecting", "backoff", "stream", "restart", "answered"}
     \/ pc = "turn" /\ turn < MAX_TURNS
     \/ pc = "tools" /\ pending # <<>>
  /\ Return("cancelled") /\ UNCHANGED history

\* The top of the for loop.
BeginTurn ==
  /\ pc = "turn" /\ turn < MAX_TURNS /\ ~cancelled
  /\ pc' = "connecting"
  /\ attempt' = 0 /\ stream_restarts' = STREAM_RESTARTS /\ dropped' = {}
  /\ UNCHANGED <<fixed, turn, cancelled, buf, history, toolVars, result>>

\* No turns are left, which is seen before the flag is looked at.
RunOutOfTurns == pc = "turn" /\ turn = MAX_TURNS
                 /\ Return("exhausted") /\ UNCHANGED history

-----------------------------------------------------------------------------
(* stream_with_retry: the request, which a Stop interrupts.                *)

\* The provider accepts the request.
StreamOpens ==
  /\ pc = "connecting" /\ ~cancelled
  /\ pc' = "stream" /\ buf' = EmptyBuf
  /\ UNCHANGED <<fixed, turnVars, cancelled, history, toolVars, result>>

LastAttempt == attempt + 1 = MAX_LLM_STREAM_RETRIES

\* 429, 5xx, timeouts, resets: wait and try again.
RequestFailsTransient ==
  /\ pc = "connecting" /\ ~cancelled
  /\ IF LastAttempt
     THEN Return("failed") /\ UNCHANGED history
     ELSE /\ pc' = "backoff"
          /\ UNCHANGED <<fixed, turnVars, cancelled, buf, history, toolVars, result>>

RequestFailsPermanent ==
  /\ pc = "connecting" /\ ~cancelled
  /\ Return("failed") /\ UNCHANGED history

\* 401: the session key is refreshed first, whatever that leads to.
RequestUnauthorized ==
  /\ pc = "connecting" /\ ~cancelled
  /\ pc' = "refresh"
  /\ UNCHANGED <<fixed, turnVars, cancelled, buf, history, toolVars, result>>

Refreshed ==
  /\ pc = "refresh"
  /\ IF LastAttempt
     THEN Return("failed") /\ UNCHANGED history
     ELSE /\ pc' = "backoff"
          /\ UNCHANGED <<fixed, turnVars, cancelled, buf, history, toolVars, result>>

BackoffOver ==
  /\ pc = "backoff" /\ ~cancelled
  /\ pc' = "connecting" /\ attempt' = attempt + 1
  /\ UNCHANGED <<fixed, turn, stream_restarts, dropped, cancelled, buf, history,
                 toolVars, result>>

-----------------------------------------------------------------------------
(* Reading the stream.                                                     *)

Chunk(b) ==
  /\ pc = "stream" /\ ~cancelled
  /\ buf' = b
  /\ UNCHANGED <<fixed, pc, turnVars, cancelled, history, toolVars, result>>

\* run_loop does not look for tags in the text.
TextDelta ==
  /\ buf.text = ""
  /\ \E t \in IF loop = "role" THEN TextKinds ELSE {"plain"} :
       Chunk([buf EXCEPT !.text = t])

ReasoningDelta == ~buf.think /\ Chunk([buf EXCEPT !.think = TRUE])

ToolCallStart ==
  /\ Len(buf.calls) < MaxCalls
  /\ \E tool \in Tools, args \in Args :
       /\ <<tool, args>> \in CallKinds
       /\ tool = "foreign" => loop = "role"  \* run_loop lets the model call any tool
       /\ Chunk([buf EXCEPT !.calls = Append(@, Call(Len(@) + 1, tool, args))])

StreamEnds ==
  /\ pc = "stream" /\ ~cancelled
  /\ pc' = "answered"
  /\ UNCHANGED <<fixed, turnVars, cancelled, buf, history, toolVars, result>>

\* Mutant: restarts are not counted.
RestartsUncounted == stream_restarts

RestartsLeft == stream_restarts - 1

\* retry_after_empty_transient_stream says whether the turn may be restarted.
MayRestart == stream_restarts > 0 /\ ~Emitted

StreamFails(transient) ==
  /\ pc = "stream" /\ ~cancelled
  /\ IF transient /\ MayRestart
     THEN /\ pc' = "restart"
          /\ stream_restarts' = RestartsLeft
          /\ UNCHANGED <<fixed, turn, attempt, dropped, cancelled, buf, history,
                         toolVars, result>>
     ELSE Return("failed") /\ UNCHANGED history

\* The wait before the restart is over; the buffers start empty again.
RestartStream ==
  /\ pc = "restart" /\ ~cancelled
  /\ pc' = "connecting" /\ attempt' = 0
  /\ dropped' = dropped \cup Delivered
  /\ buf' = EmptyBuf
  /\ UNCHANGED <<fixed, turn, stream_restarts, cancelled, history, toolVars, result>>

-----------------------------------------------------------------------------
(* What a complete answer leads to.                                        *)

\* The calls of a tool in stop_on_tool, by position; run_loop has none.
HandoffCalls == {k \in DOMAIN buf.calls : loop = "role" /\ buf.calls[k].tool = "handoff"}

\* The first of them is answered at once and is the only call that is recorded.
HandOff ==
  /\ pc = "answered" /\ ~cancelled
  /\ \E k \in HandoffCalls :
       /\ \A j \in HandoffCalls : k <= j
       /\ history' = history \o <<Assistant(<<buf.calls[k]>>), Answer(buf.calls[k])>>
  /\ Return("handoff")

\* A tool tag that was cut off: ask for it again.
AskAgain ==
  /\ pc = "answered" /\ ~cancelled
  /\ loop = "role" /\ buf.calls = <<>> /\ buf.text = "cut_tag"
  /\ history' = history \o <<Assistant(<<>>), User>>
  /\ pc' = "turn" /\ turn' = turn + 1 /\ buf' = EmptyBuf
  /\ UNCHANGED <<fixed, attempt, stream_restarts, dropped, cancelled, toolVars, result>>

\* The calls to run: those of the stream, or else those in the text.
CallsToRun == IF buf.calls = <<>> /\ loop = "role" THEN TextCalls ELSE buf.calls

FinalAnswer ==
  /\ pc = "answered" /\ ~cancelled
  /\ CallsToRun = <<>>
  /\ ~(loop = "role" /\ buf.text = "cut_tag")
  /\ history' = Append(history, Assistant(<<>>))
  /\ Return("answer")

BeginTools ==
  /\ pc = "answered" /\ ~cancelled
  /\ HandoffCalls = {} /\ CallsToRun # <<>>
  /\ history' = Append(history, Assistant(CallsToRun))
  /\ pending' = CallsToRun
  /\ pc' = "tools" /\ buf' = EmptyBuf
  /\ UNCHANGED <<fixed, turnVars, cancelled, parts, size, retained, ran, result>>

-----------------------------------------------------------------------------
(* run_tool_call and the answer it leaves in the history.                  *)

AnswerCall(n) ==
  /\ history' = Append(history, Answer(Head(pending)))
  /\ retained' = retained + Truncated(n)
  /\ pending' = Tail(pending)
  /\ pc' = "tools"

\* Mutant: a refused call is skipped and not answered.
RefuseCallSilently ==
  /\ pc = "tools" /\ pending # <<>> /\ ~cancelled
  /\ Refused(Head(pending)) \/ Executions(Head(pending)) = 0
  /\ pending' = Tail(pending)
  /\ UNCHANGED <<fixed, pc, turnVars, cancelled, buf, history, parts, size, retained, ran,
                 result>>

\* Refused by a gate, or arguments that cannot be used.
RefuseCall ==
  /\ pc = "tools" /\ pending # <<>> /\ ~cancelled
  /\ Refused(Head(pending)) \/ Executions(Head(pending)) = 0
  /\ \E n \in OutputSizes : AnswerCall(n)
  /\ UNCHANGED <<fixed, turnVars, cancelled, buf, parts, size, ran, result>>

BeginCall ==
  /\ pc = "tools" /\ pending # <<>> /\ ~cancelled
  /\ ~Refused(Head(pending)) /\ Executions(Head(pending)) > 0
  /\ parts' = Executions(Head(pending)) /\ size' = 0
  /\ pc' = "execute"
  /\ UNCHANGED <<fixed, turnVars, cancelled, buf, history, pending, retained, ran, result>>

\* One execution of the tool; the flag is looked at before it and not during
\* it, so that a Stop in the middle is seen by the next step.
Execute ==
  /\ pc = "execute" /\ parts > 0 /\ ~cancelled
  /\ ran' = Append(ran, Head(pending))
  /\ parts' = parts - 1
  /\ \E n \in OutputSizes : size' = size + n
  /\ UNCHANGED <<fixed, pc, turnVars, cancelled, buf, history, pending, retained, result>>

\* All executions are over, or the rest is skipped after a Stop.
EndCall ==
  /\ pc = "execute" /\ (parts = 0 \/ cancelled)
  /\ AnswerCall(size)
  /\ parts' = 0 /\ size' = 0
  /\ UNCHANGED <<fixed, turnVars, cancelled, buf, ran, result>>

\* Every call is answered.  The flag is next looked at by the next turn.
EndTools ==
  /\ pc = "tools" /\ pending = <<>>
  /\ pc' = "turn" /\ turn' = turn + 1
  /\ UNCHANGED <<fixed, attempt, stream_restarts, dropped, cancelled, buf, history,
                 toolVars, result>>

-----------------------------------------------------------------------------
ProviderStep ==
  \/ StreamOpens \/ RequestFailsTransient \/ RequestFailsPermanent
  \/ RequestUnauthorized \/ Refreshed
  \/ TextDelta \/ ReasoningDelta \/ ToolCallStart
  \/ StreamEnds \/ \E transient \in BOOLEAN : StreamFails(transient)

LoopStep ==
  \/ ReturnCancelled \/ BeginTurn \/ RunOutOfTurns
  \/ BackoffOver \/ RestartStream
  \/ HandOff \/ AskAgain \/ FinalAnswer \/ BeginTools
  \/ RefuseCall \/ BeginCall \/ Execute \/ EndCall \/ EndTools

Next == Stop \/ ProviderStep \/ LoopStep

Spec == Init /\ [][Next]_vars

\* The loop is a task that runs until it returns, its sleeps end, and tools
\* return (commands have a timeout).  The HTTP clients have connect and read
\* timeouts, so a provider that says nothing is a failed request or stream.
FairSpec == Spec /\ WF_vars(LoopStep) /\ WF_vars(ProviderStep)

-----------------------------------------------------------------------------
(* Properties.                                                             *)

\* Types.
CallType == [id : Nat \X Nat, tool : Tools, args : Args]
MessageType == [role : {"user", "assistant", "tool"}, calls : Seq(CallType)]
LoopTypeOK ==
  /\ loop \in {"role", "direct"} /\ auto_approve \in BOOLEAN /\ cancelled \in BOOLEAN
  /\ pc \in {"turn", "connecting", "refresh", "backoff", "stream", "restart", "answered",
            "tools", "execute", "done"}
  /\ turn \in 0..MAX_TURNS /\ (turn = MAX_TURNS => pc \in {"turn", "done"})
  /\ attempt \in 0..(MAX_LLM_STREAM_RETRIES - 1) /\ stream_restarts \in 0..STREAM_RESTARTS
  /\ buf \in [text : TextKinds \cup {"", "plain"}, think : BOOLEAN, calls : Seq(CallType)]
  /\ history \in Seq(MessageType) /\ pending \in Seq(CallType) /\ ran \in Seq(CallType)
  /\ parts \in 0..2 /\ size \in Nat /\ retained \in Nat
  /\ result \in {"none", "cancelled", "exhausted", "failed", "handoff", "answer"}

\* Position i of h is followed by the answers to its calls, in their order.
Answered(h, i) ==
  \A k \in DOMAIN h[i].calls :
    i + k <= Len(h) /\ h[i + k] = Answer(h[i].calls[k])

\* Position j is the answer to a call of the last assistant message before it.
Announced(h, j) ==
  \E i \in 1..(j - 1) :
    /\ h[i].role = "assistant"
    /\ j - i \in DOMAIN h[i].calls /\ h[j] = Answer(h[i].calls[j - i])

WellFormed(h) ==
  \A i \in DOMAIN h : /\ h[i].role = "assistant" => Answered(h, i)
                      /\ h[i].role = "tool" => Announced(h, i)

\* Whatever the model answered before (several calls, calls in the text, a
\* handoff among other calls, truncated output), neither a request the provider
\* gets nor the conversation a loop hands back to the swarm or the chat session
\* has an assistant message whose calls lack their answers, unless the user
\* stopped it: strict providers reject it, and with it the rest of the run.
HistoryWellFormed ==
  pc \in {"connecting", "stream"} \/ result \notin {"none", "cancelled"} =>
    WellFormed(history)

\* A restarted turn never delivers text or tool calls a second time: the UI
\* would show them twice and the tools would be run twice.
NoOutputReplayed == dropped \subseteq {"think"}

\* A tool that changes files or runs commands is never executed with
\* arguments that were cut off, and never when the user has to approve.
MutationsAreWhole ==
  \A i \in DOMAIN ran : ran[i].tool = "write" => ran[i].args # "cut" /\ auto_approve

\* The tool output kept in the history stays under the budget, up to the
\* floor that every answer is granted, however many calls there are.
Answers == Cardinality({i \in DOMAIN history : history[i].role = "tool"})
RetainedOutputBounded ==
  retained <= OUTPUT_TOTAL + Answers * (OUTPUT_FLOOR + MARK)

\* The loop ends by itself within its turns, retries and restarts.
LoopEnds == <>(pc = "done")

-----------------------------------------------------------------------------
(* Expected to be violated; see the README.                                *)

\* The trace of a stopped direct chat, which agent_chat stores and later
\* prompts of the session send again, has its calls answered as well.
StoppedTraceWellFormed == loop = "direct" /\ result = "cancelled" => WellFormed(history)
=============================================================================
