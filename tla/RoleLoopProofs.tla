---------------------------- MODULE RoleLoopProofs ----------------------------
(***************************************************************************)
(* Proofs about RoleLoop, for any number of turns, retries, restarts,      *)
(* calls and characters.  The conversation is well-formed except for one   *)
(* assistant message whose calls are being answered; the calls that are    *)
(* left of it are exactly those the loop still has to run.                 *)
(***************************************************************************)
EXTENDS RoleLoop, FiniteSetTheorems, TLAPS

-----------------------------------------------------------------------------
(* Conversations.                                                          *)

\* The calls of message i are answered up to those in p, and every other
\* message of h is as it has to be.
OpenAt(h, i, p) ==
  /\ h[i].role = "assistant"
  /\ Len(h[i].calls) = (Len(h) - i) + Len(p)
  /\ \A k \in 1..(Len(h) - i) : h[i + k] = Answer(h[i].calls[k])
  /\ \A k \in 1..Len(p) : p[k] = h[i].calls[(Len(h) - i) + k]
  /\ \A j \in DOMAIN h : /\ h[j].role = "assistant" /\ j # i => Answered(h, j)
                         /\ h[j].role = "tool" => Announced(h, j)

Open(h, p) == \E i \in DOMAIN h : OpenAt(h, i, p)

\* A longer conversation is the old one at the old positions.
LEMMA Longer ==
  ASSUME NEW h \in Seq(MessageType), NEW m \in MessageType
  PROVE  /\ Append(h, m) \in Seq(MessageType) /\ Len(Append(h, m)) = Len(h) + 1
         /\ DOMAIN h = 1..Len(h) /\ DOMAIN Append(h, m) = 1..(Len(h) + 1)
         /\ \A i \in DOMAIN h : Append(h, m)[i] = h[i]
         /\ Append(h, m)[Len(h) + 1] = m
         /\ Len(h) \in Nat
BY DEF MessageType

\* Messages are of their type.
LEMMA MessagesAreTyped ==
  /\ User \in MessageType
  /\ \A p \in Seq(CallType) : Assistant(p) \in MessageType
  /\ \A c \in CallType : Answer(c) \in MessageType
BY DEF User, Assistant, Answer, MessageType

\* The calls of a message have positions.
LEMMA CallsAreTyped ==
  ASSUME NEW h \in Seq(MessageType), NEW i \in DOMAIN h
  PROVE  /\ h[i].calls \in Seq(CallType) /\ Len(h[i].calls) \in Nat
         /\ DOMAIN h[i].calls = 1..Len(h[i].calls)
         /\ h[i] \in MessageType
<1>1. h[i] \in MessageType
  OBVIOUS
<1>2. h[i].calls \in Seq(CallType)
  BY <1>1 DEF MessageType
<1>3. QED
  BY <1>1, <1>2

\* What was answered or announced stays so when the conversation goes on.
LEMMA AnswersStay ==
  ASSUME NEW h \in Seq(MessageType), NEW m \in MessageType, NEW j \in DOMAIN h
  PROVE  /\ Answered(h, j) => Answered(Append(h, m), j)
         /\ Announced(h, j) => Announced(Append(h, m), j)
<1> DEFINE g == Append(h, m)
<1>1. /\ DOMAIN h = 1..Len(h) /\ Len(g) = Len(h) + 1 /\ Len(h) \in Nat
      /\ \A i \in DOMAIN h : g[i] = h[i]
  BY Longer
<1>2. DOMAIN h[j].calls = 1..Len(h[j].calls) /\ Len(h[j].calls) \in Nat
  BY CallsAreTyped
<1> HIDE DEF g
<1>3. ASSUME Answered(h, j) PROVE Answered(g, j)
  <2>1. ASSUME NEW k \in DOMAIN g[j].calls
        PROVE  j + k <= Len(g) /\ g[j + k] = Answer(g[j].calls[k])
    <3>1. g[j] = h[j]
      BY <1>1
    <3>2. j + k <= Len(h) /\ h[j + k] = Answer(h[j].calls[k])
      BY <1>3, <2>1, <3>1 DEF Answered
    <3>3. j + k \in DOMAIN h
      BY <1>1, <1>2, <2>1, <3>1, <3>2
    <3>4. QED
      BY <1>1, <3>1, <3>2, <3>3
  <2>2. QED
    BY <2>1 DEF Answered
<1>4. ASSUME Announced(h, j) PROVE Announced(g, j)
  <2>1. PICK i \in 1..(j - 1) :
          /\ h[i].role = "assistant"
          /\ j - i \in DOMAIN h[i].calls /\ h[j] = Answer(h[i].calls[j - i])
    BY <1>4 DEF Announced
  <2>2. i \in DOMAIN h
    BY <1>1, <2>1
  <2>3. g[i] = h[i] /\ g[j] = h[j]
    BY <1>1, <2>2
  <2>4. QED
    BY <2>1, <2>3 DEF Announced
<1>5. QED
  BY <1>3, <1>4 DEF g

\* A conversation may always go on with a message that calls nothing.
LEMMA SpeakKeeps ==
  ASSUME NEW h \in Seq(MessageType), WellFormed(h), NEW m \in {User, Assistant(<<>>)}
  PROVE  Append(h, m) \in Seq(MessageType) /\ WellFormed(Append(h, m))
<1> DEFINE g == Append(h, m)
<1>0. m \in MessageType
  <2>1. <<>> \in Seq(CallType)
    OBVIOUS
  <2>2. QED
    BY <2>1, MessagesAreTyped
<1>1. /\ g \in Seq(MessageType) /\ DOMAIN h = 1..Len(h) /\ DOMAIN g = 1..(Len(h) + 1)
      /\ Len(h) \in Nat /\ \A i \in DOMAIN h : g[i] = h[i]
      /\ g[Len(h) + 1] = m
  BY <1>0, Longer
<1>2. \A j \in DOMAIN h : /\ Answered(h, j) => Answered(g, j)
                          /\ Announced(h, j) => Announced(g, j)
  BY <1>0, AnswersStay
<1> HIDE DEF g
<1>3. ASSUME NEW j \in DOMAIN g
      PROVE  /\ g[j].role = "assistant" => Answered(g, j)
             /\ g[j].role = "tool" => Announced(g, j)
  <2>1. CASE j \in DOMAIN h
    BY <1>1, <1>2, <2>1 DEF WellFormed
  <2>2. CASE j = Len(h) + 1
    <3>1. g[j] = m
      BY <1>1, <2>2
    <3>2. m.role # "tool" /\ m.calls = <<>>
      BY DEF User, Assistant
    <3>3. QED
      BY <3>1, <3>2 DEF Answered
  <2>3. QED
    BY <1>1, <1>3, <2>1, <2>2
<1>4. QED
  BY <1>1, <1>3 DEF WellFormed, g

\* An assistant message with calls opens it.
LEMMA CallsOpen ==
  ASSUME NEW h \in Seq(MessageType), WellFormed(h), NEW p \in Seq(CallType)
  PROVE  Append(h, Assistant(p)) \in Seq(MessageType) /\ Open(Append(h, Assistant(p)), p)
<1> DEFINE g == Append(h, Assistant(p))
           i == Len(h) + 1
<1>0. Assistant(p) \in MessageType
  BY MessagesAreTyped
<1>1. /\ g \in Seq(MessageType) /\ DOMAIN h = 1..Len(h) /\ DOMAIN g = 1..(Len(h) + 1)
      /\ Len(g) = Len(h) + 1 /\ Len(h) \in Nat /\ \A j \in DOMAIN h : g[j] = h[j]
      /\ g[i] = Assistant(p)
  BY <1>0, Longer
<1>2. \A j \in DOMAIN h : /\ Answered(h, j) => Answered(g, j)
                          /\ Announced(h, j) => Announced(g, j)
  BY <1>0, AnswersStay
<1>3. g[i].role = "assistant" /\ g[i].calls = p
  BY <1>1 DEF Assistant
<1>4. i \in DOMAIN g /\ Len(g) - i = 0 /\ Len(p) \in Nat
  BY <1>1
<1> HIDE DEF g
<1>5. ASSUME NEW j \in DOMAIN g
      PROVE  /\ g[j].role = "assistant" /\ j # i => Answered(g, j)
             /\ g[j].role = "tool" => Announced(g, j)
  <2>1. CASE j \in DOMAIN h
    BY <1>1, <1>2, <2>1 DEF WellFormed
  <2>2. CASE j = i
    BY <1>3, <2>2
  <2>3. QED
    BY <1>1, <1>5, <2>1, <2>2
<1>6. OpenAt(g, i, p)
  BY <1>3, <1>4, <1>5 DEF OpenAt
<1>7. QED
  BY <1>1, <1>4, <1>6 DEF Open, g

\* The next answer belongs to the first call that is left.
LEMMA AnswerFits ==
  ASSUME NEW h \in Seq(MessageType), NEW p \in Seq(CallType), p # <<>>, Open(h, p)
  PROVE  /\ Append(h, Answer(Head(p))) \in Seq(MessageType)
         /\ Open(Append(h, Answer(Head(p))), Tail(p))
<1> DEFINE m == Answer(Head(p))
           g == Append(h, m)
           q == Tail(p)
<1>0. m \in MessageType
  BY MessagesAreTyped
<1>1. /\ g \in Seq(MessageType) /\ DOMAIN h = 1..Len(h) /\ DOMAIN g = 1..(Len(h) + 1)
      /\ Len(g) = Len(h) + 1 /\ Len(h) \in Nat /\ \A j \in DOMAIN h : g[j] = h[j]
      /\ g[Len(h) + 1] = m
  BY <1>0, Longer
<1>2. \A j \in DOMAIN h : /\ Answered(h, j) => Answered(g, j)
                          /\ Announced(h, j) => Announced(g, j)
  BY <1>0, AnswersStay
<1>3. PICK i \in DOMAIN h : OpenAt(h, i, p)
  BY DEF Open
<1>4. /\ Len(q) = Len(p) - 1 /\ Len(p) \in Nat /\ Len(p) > 0 /\ Head(p) = p[1]
      /\ \A k \in 1..Len(q) : q[k] = p[k + 1]
  OBVIOUS
<1>5. g[i] = h[i] /\ i \in 1..Len(h) /\ i \in DOMAIN g
  BY <1>1
<1>6. /\ DOMAIN h[i].calls = 1..Len(h[i].calls) /\ Len(h[i].calls) \in Nat
  BY CallsAreTyped
<1>61. m.role = "tool"
  BY DEF Answer
<1> HIDE DEF m, g, q
<1> DEFINE d == Len(h) - i
<1>7. /\ h[i].role = "assistant" /\ Len(h[i].calls) = d + Len(p) /\ d \in Nat
      /\ \A k \in 1..d : h[i + k] = Answer(h[i].calls[k])
      /\ \A k \in 1..Len(p) : p[k] = h[i].calls[d + k]
      /\ \A j \in DOMAIN h : /\ h[j].role = "assistant" /\ j # i => Answered(h, j)
                             /\ h[j].role = "tool" => Announced(h, j)
  BY <1>3, <1>5 DEF OpenAt
<1>8. m = Answer(h[i].calls[d + 1])
  BY <1>4, <1>7 DEF m
<1>9. Len(g) - i = d + 1 /\ i + (d + 1) = Len(h) + 1
  BY <1>1, <1>5
<1> HIDE DEF d
<1>10. Len(g[i].calls) = (Len(g) - i) + Len(q)
  BY <1>4, <1>5, <1>7, <1>9
<1>11. ASSUME NEW k \in 1..(Len(g) - i) PROVE g[i + k] = Answer(g[i].calls[k])
  <2>1. CASE k \in 1..d
    <3>1. i + k \in DOMAIN h
      BY <1>1, <1>5, <1>9, <2>1, <1>7
    <3>2. QED
      BY <1>1, <1>5, <1>7, <2>1, <3>1
  <2>2. CASE k = d + 1
    BY <1>1, <1>5, <1>8, <1>9, <2>2
  <2>3. QED
    BY <1>7, <1>9, <2>1, <2>2
<1>12. ASSUME NEW k \in 1..Len(q) PROVE q[k] = g[i].calls[(Len(g) - i) + k]
  <2>1. k + 1 \in 1..Len(p) /\ d + (k + 1) = (Len(g) - i) + k
    BY <1>4, <1>7, <1>9
  <2>2. p[k + 1] = h[i].calls[d + (k + 1)]
    BY <1>7, <2>1
  <2>3. QED
    BY <1>4, <1>5, <2>1, <2>2
<1>13. ASSUME NEW j \in DOMAIN g
       PROVE  /\ g[j].role = "assistant" /\ j # i => Answered(g, j)
              /\ g[j].role = "tool" => Announced(g, j)
  <2>1. CASE j \in DOMAIN h
    BY <1>1, <1>2, <1>7, <2>1
  <2>2. CASE j = Len(h) + 1
    <3>1. g[j] = m /\ g[j].role # "assistant"
      BY <1>1, <1>61, <2>2
    <3>2. j - i = d + 1 /\ i \in 1..(j - 1) /\ d + 1 \in DOMAIN h[i].calls
      BY <1>1, <1>4, <1>5, <1>6, <1>7, <1>9, <2>2
    <3>3. Announced(g, j)
      BY <1>5, <1>7, <1>8, <3>1, <3>2 DEF Announced
    <3>4. QED
      BY <3>1, <3>3
  <2>3. QED
    BY <1>1, <1>13, <2>1, <2>2
<1>14. OpenAt(g, i, q)
  BY <1>5, <1>7, <1>10, <1>11, <1>12, <1>13 DEF OpenAt
<1>15. QED
  BY <1>1, <1>5, <1>14 DEF Open, g, q, m

\* With no call left the conversation is well-formed again.
LEMMA AnsweredCloses ==
  ASSUME NEW h \in Seq(MessageType), Open(h, <<>>)
  PROVE  WellFormed(h)
<1>1. PICK i \in DOMAIN h : OpenAt(h, i, <<>>)
  BY DEF Open
<1>2. DOMAIN h = 1..Len(h) /\ Len(h) \in Nat
  OBVIOUS
<1>3. DOMAIN h[i].calls = 1..Len(h[i].calls) /\ Len(h[i].calls) = Len(h) - i
  BY <1>1, <1>2, CallsAreTyped DEF OpenAt
<1>4. Answered(h, i)
  <2>1. ASSUME NEW k \in DOMAIN h[i].calls
        PROVE  i + k <= Len(h) /\ h[i + k] = Answer(h[i].calls[k])
    <3>1. k \in 1..(Len(h) - i)
      BY <1>3
    <3>2. QED
      BY <1>1, <1>2, <3>1 DEF OpenAt
  <2>2. QED
    BY <2>1 DEF Answered
<1>5. QED
  BY <1>1, <1>4 DEF OpenAt, WellFormed

\* The whole of what a handoff records.
LEMMA HandoffCloses ==
  ASSUME NEW h \in Seq(MessageType), WellFormed(h), NEW c \in CallType
  PROVE  /\ h \o <<Assistant(<<c>>), Answer(c)>> \in Seq(MessageType)
         /\ WellFormed(h \o <<Assistant(<<c>>), Answer(c)>>)
<1> DEFINE p == <<c>>
           a == Assistant(p)
           b == Answer(c)
<1>1. p \in Seq(CallType) /\ p # <<>> /\ Head(p) = c /\ Tail(p) = <<>>
  OBVIOUS
<1>2. Append(h, a) \in Seq(MessageType) /\ Open(Append(h, a), p)
  BY <1>1, CallsOpen
<1>3. /\ Append(Append(h, a), b) \in Seq(MessageType)
      /\ Open(Append(Append(h, a), b), <<>>)
  BY <1>1, <1>2, AnswerFits
<1>4. a \in MessageType /\ b \in MessageType
  BY <1>1, MessagesAreTyped
<1> HIDE DEF a, b
<1>5. h \o <<a, b>> = Append(Append(h, a), b)
  BY <1>4
<1>6. QED
  BY <1>3, <1>5, AnsweredCloses DEF a, b

-----------------------------------------------------------------------------
(* Types.                                                                  *)

\* A loop has a result when it is over; it waits for another attempt only if
\* one is left.
ControlInv ==
  /\ pc = "done" <=> result # "none"
  /\ pc \in {"backoff"} => attempt + 1 < MAX_LLM_STREAM_RETRIES
  /\ pc = "execute" => pending # <<>>

TypeInv == LoopTypeOK /\ ControlInv

Buf == [text : TextKinds \cup {"", "plain"}, think : BOOLEAN, calls : Seq(CallType)]

\* The calls of a buffer.
LEMMA BufCalls ==
  ASSUME buf \in Buf
  PROVE  buf.calls \in Seq(CallType) /\ buf.text \in TextKinds \cup {"", "plain"}
BY DEF Buf

\* What the loop runs are calls.
LEMMA CallsToRunTyped ==
  ASSUME buf \in Buf, turn \in Nat
  PROVE  CallsToRun \in Seq(CallType)
<1>1. CASE CallsToRun = buf.calls
  BY <1>1, BufCalls
<1>2. CASE CallsToRun = TextCalls
  <2>1. ASSUME buf.text \in DOMAIN TagOf PROVE TagOf[buf.text] \in Tools
    BY <2>1 DEF TagOf, Tools
  <2>2. ASSUME NEW t \in Tools PROVE Call(0, t, "json") \in CallType
    BY DEF Call, CallType, Args
  <2>3. QED
    BY <1>2, <2>1, <2>2 DEF TextCalls
<1>3. QED
  BY <1>1, <1>2 DEF CallsToRun

\* A loop starts in its types.
LEMMA TypeInvInit == Init => TypeInv
<1> SUFFICES ASSUME Init PROVE TypeInv
  OBVIOUS
<1> USE LoopAssumption
<1>1. buf \in Buf
  <2>1. <<>> \in Seq(CallType)
    OBVIOUS
  <2>2. QED
    BY <2>1 DEF Init, Buf, EmptyBuf
<1>2. history \in Seq(MessageType)
  BY MessagesAreTyped DEF Init
<1>3. pending \in Seq(CallType) /\ ran \in Seq(CallType)
  BY DEF Init
<1>4. ControlInv
  BY DEF Init, ControlInv
<1>5. /\ loop \in {"role", "direct"} /\ turn = 0 /\ turn \in 0..MAX_TURNS
      /\ attempt \in 0..(MAX_LLM_STREAM_RETRIES - 1) /\ stream_restarts \in 0..STREAM_RESTARTS
  BY DEF Init
<1>6. auto_approve \in BOOLEAN /\ cancelled \in BOOLEAN
  BY DEF Init
<1>7. pc = "turn" /\ result = "none" /\ parts \in 0..2 /\ size \in Nat /\ retained \in Nat
  BY DEF Init
<1> HIDE LoopAssumption
<1>8. LoopTypeOK
  BY <1>1, <1>2, <1>3, <1>5, <1>6, <1>7 DEF LoopTypeOK, Buf
<1>9. QED
  BY <1>4, <1>8 DEF TypeInv

\* Each step keeps the types.
LEMMA TypeInvStep == TypeInv /\ [Next]_vars => TypeInv'
<1> SUFFICES ASSUME TypeInv, [Next]_vars PROVE TypeInv'
  OBVIOUS
<1> USE LoopAssumption DEF turnVars, toolVars, fixed
<1> DEFINE Rest ==
      /\ loop \in {"role", "direct"} /\ auto_approve \in BOOLEAN /\ cancelled \in BOOLEAN
      /\ pc \in {"turn", "connecting", "refresh", "backoff", "stream", "restart",
                "answered", "tools", "execute", "done"}
      /\ turn \in 0..MAX_TURNS /\ (turn = MAX_TURNS => pc \in {"turn", "done"})
      /\ attempt \in 0..(MAX_LLM_STREAM_RETRIES - 1)
      /\ stream_restarts \in 0..STREAM_RESTARTS
      /\ parts \in 0..2 /\ size \in Nat /\ retained \in Nat
      /\ result \in {"none", "cancelled", "exhausted", "failed", "handoff", "answer"}
      /\ ControlInv
    Data == /\ buf \in Buf /\ history \in Seq(MessageType)
            /\ pending \in Seq(CallType) /\ ran \in Seq(CallType)
<1>1. Rest /\ Data
  BY DEF TypeInv, LoopTypeOK, Buf
<1>2. EmptyBuf \in Buf /\ <<>> \in Seq(CallType)
  BY DEF Buf, EmptyBuf
<1>3. ASSUME NEW n \in Nat PROVE Truncated(n) \in Nat
  BY <1>1, <1>3 DEF Truncated, OutputLimit, Smaller, Larger
<1>4. ASSUME NEW r \in {"cancelled", "exhausted", "failed", "handoff", "answer"}, Return(r),
             history' \in Seq(MessageType)
      PROVE  TypeInv'
  <2>1. Rest'
    BY <1>1, <1>4 DEF Return, ControlInv
  <2>2. Data'
    BY <1>1, <1>2, <1>4 DEF Return
  <2>3. QED
    BY <2>1, <2>2 DEF TypeInv, LoopTypeOK, Buf
<1>5. ASSUME Rest', Data' PROVE TypeInv'
  BY <1>5 DEF TypeInv, LoopTypeOK, Buf
<1> HIDE DEF Data
<1>6. ASSUME UNCHANGED <<buf, history, pending, ran>> PROVE Data'
  BY <1>1, <1>6 DEF Data
<1>7. ASSUME UNCHANGED history PROVE history' \in Seq(MessageType)
  BY <1>1, <1>7 DEF Data
<1>8. CASE UNCHANGED vars
  <2>1. Rest'
    BY <1>1, <1>8 DEF vars, ControlInv
  <2>2. QED
    BY <1>5, <1>6, <1>8, <2>1 DEF vars
<1>9. CASE Stop
  <2>1. Rest'
    BY <1>1, <1>9 DEF Stop, ControlInv
  <2>2. QED
    BY <1>5, <1>6, <1>9, <2>1 DEF Stop
<1>10. CASE ReturnCancelled
  BY <1>4, <1>7, <1>10 DEF ReturnCancelled
<1>11. CASE BeginTurn
  <2>1. Rest'
    BY <1>1, <1>11 DEF BeginTurn, ControlInv
  <2>2. QED
    BY <1>5, <1>6, <1>11, <2>1 DEF BeginTurn
<1>12. CASE RunOutOfTurns
  BY <1>4, <1>7, <1>12 DEF RunOutOfTurns
<1>13. CASE StreamOpens
  <2>1. Rest'
    BY <1>1, <1>13 DEF StreamOpens, ControlInv
  <2>2. Data'
    BY <1>1, <1>2, <1>13 DEF StreamOpens, Data
  <2>3. QED
    BY <1>5, <2>1, <2>2
<1>14. ASSUME RequestFailsTransient \/ Refreshed PROVE TypeInv'
  <2>1. CASE LastAttempt
    BY <1>4, <1>7, <1>14, <2>1 DEF RequestFailsTransient, Refreshed
  <2>2. CASE ~LastAttempt
    <3>1. Rest'
      BY <1>1, <1>14, <2>2 DEF RequestFailsTransient, Refreshed, LastAttempt, ControlInv
    <3>2. QED
      BY <1>5, <1>6, <1>14, <2>2, <3>1 DEF RequestFailsTransient, Refreshed
  <2>3. QED
    BY <2>1, <2>2
<1>15. CASE RequestFailsPermanent
  BY <1>4, <1>7, <1>15 DEF RequestFailsPermanent
<1>16. CASE RequestUnauthorized
  <2>1. Rest'
    BY <1>1, <1>16 DEF RequestUnauthorized, ControlInv
  <2>2. QED
    BY <1>5, <1>6, <1>16, <2>1 DEF RequestUnauthorized
<1>17. CASE BackoffOver
  <2>1. Rest'
    BY <1>1, <1>17 DEF BackoffOver, ControlInv
  <2>2. QED
    BY <1>5, <1>6, <1>17, <2>1 DEF BackoffOver
<1>18. ASSUME NEW b \in Buf, Chunk(b) PROVE TypeInv'
  <2>1. Rest'
    BY <1>1, <1>18 DEF Chunk, ControlInv
  <2>2. Data'
    BY <1>1, <1>18 DEF Chunk, Data
  <2>3. QED
    BY <1>5, <2>1, <2>2
<1>19. ASSUME TextDelta PROVE TypeInv'
  <2>1. PICK t \in TextKinds \cup {"plain"} : Chunk([buf EXCEPT !.text = t])
    BY <1>19 DEF TextDelta
  <2>2. [buf EXCEPT !.text = t] \in Buf
    BY <1>1 DEF Buf, Data
  <2>3. QED
    BY <1>18, <2>1, <2>2
<1>20. ASSUME ReasoningDelta PROVE TypeInv'
  <2>1. [buf EXCEPT !.think = TRUE] \in Buf
    BY <1>1 DEF Buf, Data
  <2>2. QED
    BY <1>18, <1>20, <2>1 DEF ReasoningDelta
<1>21. ASSUME ToolCallStart PROVE TypeInv'
  <2>1. PICK tool \in Tools, args \in Args :
          Chunk([buf EXCEPT !.calls = Append(@, Call(Len(@) + 1, tool, args))])
    BY <1>21 DEF ToolCallStart
  <2>2. buf.calls \in Seq(CallType)
    BY <1>1, BufCalls DEF Data
  <2>3. Call(Len(buf.calls) + 1, tool, args) \in CallType
    BY <1>1, <2>2 DEF Call, CallType
  <2>4. Append(buf.calls, Call(Len(buf.calls) + 1, tool, args)) \in Seq(CallType)
    BY <2>2, <2>3
  <2>5. [buf EXCEPT !.calls = Append(buf.calls, Call(Len(buf.calls) + 1, tool, args))] \in Buf
    BY <1>1, <2>4 DEF Buf, Data
  <2>6. QED
    BY <1>18, <2>1, <2>5
<1>22. CASE StreamEnds
  <2>1. Rest'
    BY <1>1, <1>22 DEF StreamEnds, ControlInv
  <2>2. QED
    BY <1>5, <1>6, <1>22, <2>1 DEF StreamEnds
<1>23. ASSUME NEW transient \in BOOLEAN, StreamFails(transient) PROVE TypeInv'
  <2>1. CASE transient /\ MayRestart
    <3>1. Rest'
      BY <1>1, <1>23, <2>1 DEF StreamFails, MayRestart, RestartsLeft, ControlInv
    <3>2. QED
      BY <1>5, <1>6, <1>23, <2>1, <3>1 DEF StreamFails
  <2>2. CASE ~(transient /\ MayRestart)
    BY <1>4, <1>7, <1>23, <2>2 DEF StreamFails
  <2>3. QED
    BY <2>1, <2>2
<1>24. CASE RestartStream
  <2>1. Rest'
    BY <1>1, <1>24 DEF RestartStream, ControlInv
  <2>2. Data'
    BY <1>1, <1>2, <1>24 DEF RestartStream, Data
  <2>3. QED
    BY <1>5, <2>1, <2>2
<1>25. ASSUME HandOff PROVE TypeInv'
  <2>1. PICK k \in DOMAIN buf.calls :
          history' = history \o <<Assistant(<<buf.calls[k]>>), Answer(buf.calls[k])>>
    BY <1>25 DEF HandOff, HandoffCalls
  <2>2. buf.calls[k] \in CallType
    <3>1. buf.calls \in Seq(CallType)
      BY <1>1, BufCalls DEF Data
    <3>2. QED
      BY <2>1, <3>1
  <2>3. <<buf.calls[k]>> \in Seq(CallType)
    BY <2>2
  <2>4. Assistant(<<buf.calls[k]>>) \in MessageType /\ Answer(buf.calls[k]) \in MessageType
    BY <2>2, <2>3, MessagesAreTyped
  <2>5. history' \in Seq(MessageType)
    BY <1>1, <2>1, <2>4 DEF Data
  <2>6. QED
    BY <1>4, <1>25, <2>5 DEF HandOff
<1>26. CASE AskAgain
  <2>1. Rest'
    BY <1>1, <1>26 DEF AskAgain, ControlInv
  <2>2. Assistant(<<>>) \in MessageType /\ User \in MessageType
    BY <1>2, MessagesAreTyped
  <2>3. Data'
    BY <1>1, <1>2, <1>26, <2>2 DEF AskAgain, Data
  <2>4. QED
    BY <1>5, <2>1, <2>3
<1>27. CASE FinalAnswer
  <2>1. history' \in Seq(MessageType)
    <3>1. Assistant(<<>>) \in MessageType
      BY <1>2, MessagesAreTyped
    <3>2. QED
      BY <1>1, <1>27, <3>1 DEF FinalAnswer, Data
  <2>2. QED
    BY <1>4, <1>27, <2>1 DEF FinalAnswer
<1>28. CASE BeginTools
  <2>1. Rest'
    BY <1>1, <1>28 DEF BeginTools, ControlInv
  <2>2. CallsToRun \in Seq(CallType)
    BY <1>1, CallsToRunTyped DEF Data
  <2>3. Assistant(CallsToRun) \in MessageType
    BY <2>2, MessagesAreTyped
  <2>4. Data'
    BY <1>1, <1>2, <1>28, <2>2, <2>3 DEF BeginTools, Data
  <2>5. QED
    BY <1>5, <2>1, <2>4
<1>29. ASSUME NEW n \in Nat, AnswerCall(n), pending # <<>>
       PROVE  /\ retained' \in Nat /\ pc' = "tools"
              /\ history' \in Seq(MessageType) /\ pending' \in Seq(CallType)
  <2>1. Head(pending) \in CallType /\ Tail(pending) \in Seq(CallType)
    BY <1>1, <1>29 DEF Data
  <2>2. Answer(Head(pending)) \in MessageType
    BY <2>1, MessagesAreTyped
  <2>3. Truncated(n) \in Nat
    BY <1>3
  <2>4. QED
    BY <1>1, <1>29, <2>1, <2>2, <2>3 DEF AnswerCall, Data
<1>30. CASE RefuseCall
  <2>1. PICK n \in OutputSizes : AnswerCall(n)
    BY <1>30 DEF RefuseCall
  <2>2. /\ retained' \in Nat /\ pc' = "tools"
        /\ history' \in Seq(MessageType) /\ pending' \in Seq(CallType)
    BY <1>29, <1>30, <2>1 DEF RefuseCall
  <2>3. Rest'
    BY <1>1, <1>30, <2>2 DEF RefuseCall, ControlInv
  <2>4. Data'
    BY <1>1, <1>30, <2>2 DEF RefuseCall, Data
  <2>5. QED
    BY <1>5, <2>3, <2>4
<1>31. CASE BeginCall
  <2>1. Executions(Head(pending)) \in 0..2
    <3>1. Head(pending).args \in Args
      <4>1. Head(pending) \in CallType
        BY <1>1, <1>31 DEF BeginCall, Data
      <4>2. QED
        BY <4>1 DEF CallType
    <3>2. QED
      BY <3>1 DEF Executions, Args
  <2>2. Rest'
    BY <1>1, <1>31, <2>1 DEF BeginCall, ControlInv
  <2>3. QED
    BY <1>5, <1>6, <1>31, <2>2 DEF BeginCall
<1>32. CASE Execute
  <2>1. PICK n \in OutputSizes : size' = size + n
    BY <1>32 DEF Execute
  <2>2. Rest'
    BY <1>1, <1>32, <2>1 DEF Execute, ControlInv
  <2>3. Head(pending) \in CallType
    BY <1>1, <1>32 DEF Execute, ControlInv, Data
  <2>4. Data'
    BY <1>1, <1>32, <2>3 DEF Execute, Data
  <2>5. QED
    BY <1>5, <2>2, <2>4
<1>33. CASE EndCall
  <2>1. pending # <<>> /\ size \in Nat
    BY <1>1, <1>33 DEF EndCall, ControlInv
  <2>2. /\ retained' \in Nat /\ pc' = "tools"
        /\ history' \in Seq(MessageType) /\ pending' \in Seq(CallType)
    BY <1>29, <1>33, <2>1 DEF EndCall
  <2>3. Rest'
    BY <1>1, <1>33, <2>2 DEF EndCall, ControlInv
  <2>4. Data'
    BY <1>1, <1>33, <2>2 DEF EndCall, Data
  <2>5. QED
    BY <1>5, <2>3, <2>4
<1>34. CASE EndTools
  <2>1. Rest'
    BY <1>1, <1>34 DEF EndTools, ControlInv
  <2>2. QED
    BY <1>5, <1>6, <1>34, <2>1 DEF EndTools
<1>35. QED
  BY <1>8, <1>9, <1>10, <1>11, <1>12, <1>13, <1>14, <1>15, <1>16, <1>17, <1>19, <1>20,
     <1>21, <1>22, <1>23, <1>24, <1>25, <1>26, <1>27, <1>28, <1>30, <1>31, <1>32, <1>33,
     <1>34
  DEF Next, ProviderStep, LoopStep

-----------------------------------------------------------------------------
(* What the steps have in common.                                          *)

Tooling == {"tools", "execute"}

\* A step that leaves the conversation and the calls alone.
Quiet ==
  /\ UNCHANGED <<loop, auto_approve, history, retained, ran>>
  /\ \/ /\ UNCHANGED <<pending, parts>>
        /\ pc' = pc \/ (pc \notin Tooling /\ pc' \notin Tooling)
        /\ result' = result
     \/ pc # "done" /\ pc' = "done" /\ (result' = "cancelled" \/ pc \notin Tooling)

\* Every step but those that follow a complete answer.
LEMMA QuietSteps ==
  ASSUME [Next]_vars
  PROVE  \/ Quiet
         \/ HandOff \/ AskAgain \/ FinalAnswer \/ BeginTools
         \/ RefuseCall \/ BeginCall \/ Execute \/ EndCall \/ EndTools
<1> USE DEF Quiet, Tooling, turnVars, toolVars, fixed
<1>1. CASE UNCHANGED vars
  BY <1>1 DEF vars
<1>2. CASE Stop
  BY <1>2 DEF Stop
<1>3. CASE ReturnCancelled
  BY <1>3 DEF ReturnCancelled, Return
<1>4. CASE BeginTurn \/ StreamOpens \/ RequestUnauthorized \/ BackoffOver \/ RestartStream
           \/ StreamEnds
  BY <1>4
  DEF BeginTurn, StreamOpens, RequestUnauthorized, BackoffOver, RestartStream, StreamEnds
<1>5. CASE RunOutOfTurns \/ RequestFailsPermanent
  BY <1>5 DEF RunOutOfTurns, RequestFailsPermanent, Return
<1>6. CASE RequestFailsTransient \/ Refreshed
  BY <1>6 DEF RequestFailsTransient, Refreshed, Return
<1>7. CASE TextDelta \/ ReasoningDelta \/ ToolCallStart
  BY <1>7 DEF TextDelta, ReasoningDelta, ToolCallStart, Chunk
<1>8. ASSUME NEW transient \in BOOLEAN, StreamFails(transient) PROVE Quiet
  BY <1>8 DEF StreamFails, Return
<1>9. QED
  BY <1>1, <1>2, <1>3, <1>4, <1>5, <1>6, <1>7, <1>8 DEF Next, ProviderStep, LoopStep

-----------------------------------------------------------------------------
(* The conversation.                                                       *)

\* While tools run, the conversation is open for the calls that are left;
\* otherwise it is well-formed, unless the user stopped the loop.
HistoryInv ==
  /\ pc \in Tooling => Open(history, pending)
  /\ pc \notin Tooling /\ result # "cancelled" => WellFormed(history)

\* Each step keeps HistoryInv.
LEMMA HistoryInvStep == TypeInv /\ HistoryInv /\ [Next]_vars => HistoryInv'
<1> SUFFICES ASSUME TypeInv, HistoryInv, [Next]_vars PROVE HistoryInv'
  OBVIOUS
<1> USE DEF Tooling
<1>1. /\ history \in Seq(MessageType) /\ pending \in Seq(CallType)
      /\ buf.calls \in Seq(CallType) /\ buf \in Buf /\ turn \in Nat
  <2>1. /\ history \in Seq(MessageType) /\ pending \in Seq(CallType) /\ buf \in Buf
        /\ turn \in 0..MAX_TURNS
    BY DEF TypeInv, LoopTypeOK, Buf
  <2>2. buf.calls \in Seq(CallType)
    BY <2>1, BufCalls
  <2>3. turn \in Nat
    BY <2>1, LoopAssumption
  <2>4. QED
    BY <2>1, <2>2, <2>3
<1>2. pc # "done" => result = "none"
  BY DEF TypeInv, ControlInv
<1>3. ASSUME pc = "answered" PROVE WellFormed(history)
  BY <1>2, <1>3 DEF HistoryInv
<1>4. CASE Quiet
  <2>1. history' = history
    BY <1>4 DEF Quiet
  <2>2. CASE pc # "done" /\ pc' = "done" /\ (result' = "cancelled" \/ pc \notin Tooling)
    BY <1>2, <2>1, <2>2 DEF HistoryInv
  <2>3. CASE /\ UNCHANGED <<pending, parts, result>>
             /\ pc' = pc \/ (pc \notin Tooling /\ pc' \notin Tooling)
    BY <2>1, <2>3 DEF HistoryInv
  <2>4. QED
    BY <1>4, <2>2, <2>3 DEF Quiet
<1>5. CASE HandOff
  <2>1. PICK k \in DOMAIN buf.calls :
          history' = history \o <<Assistant(<<buf.calls[k]>>), Answer(buf.calls[k])>>
    BY <1>5 DEF HandOff, HandoffCalls
  <2>2. buf.calls[k] \in CallType
    BY <1>1, <2>1
  <2>3. WellFormed(history')
    BY <1>1, <1>3, <1>5, <2>1, <2>2, HandoffCloses DEF HandOff
  <2>4. pc' = "done"
    BY <1>5 DEF HandOff, Return
  <2>5. QED
    BY <2>3, <2>4 DEF HistoryInv
<1>6. CASE AskAgain
  <2> DEFINE h == Append(history, Assistant(<<>>))
  <2>1. h \in Seq(MessageType) /\ WellFormed(h)
    BY <1>1, <1>3, <1>6, SpeakKeeps DEF AskAgain
  <2>2. WellFormed(Append(h, User))
    BY <2>1, SpeakKeeps
  <2>3. history' = Append(h, User)
    <3>1. <<>> \in Seq(CallType)
      OBVIOUS
    <3>2. Assistant(<<>>) \in MessageType /\ User \in MessageType
      BY <3>1, MessagesAreTyped
    <3>3. ASSUME NEW m \in MessageType, NEW n \in MessageType
          PROVE  history \o <<m, n>> = Append(Append(history, m), n)
      BY <1>1
    <3>4. QED
      BY <1>6, <3>2, <3>3 DEF AskAgain
  <2>4. pc' = "turn"
    BY <1>6 DEF AskAgain
  <2>5. QED
    BY <2>2, <2>3, <2>4 DEF HistoryInv
<1>7. CASE FinalAnswer
  <2>1. WellFormed(history')
    BY <1>1, <1>3, <1>7, SpeakKeeps DEF FinalAnswer
  <2>2. pc' = "done"
    BY <1>7 DEF FinalAnswer, Return
  <2>3. QED
    BY <2>1, <2>2 DEF HistoryInv
<1>8. CASE BeginTools
  <2>1. CallsToRun \in Seq(CallType)
    BY <1>1, CallsToRunTyped
  <2>2. Open(history', pending')
    BY <1>1, <1>3, <1>8, <2>1, CallsOpen DEF BeginTools
  <2>3. pc' = "tools"
    BY <1>8 DEF BeginTools
  <2>4. QED
    BY <2>2, <2>3 DEF HistoryInv
<1>9. ASSUME NEW n, AnswerCall(n), pc \in Tooling, pending # <<>> PROVE HistoryInv'
  <2>1. Open(Append(history, Answer(Head(pending))), Tail(pending))
    BY <1>1, <1>9, AnswerFits DEF HistoryInv
  <2>2. QED
    BY <1>9, <2>1 DEF AnswerCall, HistoryInv
<1>10. CASE RefuseCall
  BY <1>9, <1>10 DEF RefuseCall
<1>11. CASE BeginCall \/ Execute
  BY <1>11 DEF BeginCall, Execute, HistoryInv
<1>12. CASE EndCall
  <2>1. pending # <<>>
    BY <1>12 DEF EndCall, TypeInv, ControlInv
  <2>2. QED
    BY <1>9, <1>12, <2>1 DEF EndCall
<1>13. CASE EndTools
  <2>1. Open(history, <<>>)
    BY <1>13 DEF EndTools, HistoryInv
  <2>2. WellFormed(history)
    BY <1>1, <2>1, AnsweredCloses
  <2>3. history' = history /\ pc' = "turn"
    BY <1>13 DEF EndTools
  <2>4. QED
    BY <2>2, <2>3 DEF HistoryInv
<1>14. QED
  BY <1>4, <1>5, <1>6, <1>7, <1>8, <1>10, <1>11, <1>12, <1>13, QuietSteps

-----------------------------------------------------------------------------
(* The stream.                                                             *)

\* A stream is restarted only if it delivered neither text nor calls.
RestartInv == NoOutputReplayed /\ (pc = "restart" => ~Emitted)

\* Each step keeps RestartInv.
LEMMA RestartInvStep == RestartInv /\ [Next]_vars => RestartInv'
<1> SUFFICES ASSUME RestartInv, [Next]_vars PROVE RestartInv'
  OBVIOUS
<1> USE DEF RestartInv, NoOutputReplayed, turnVars, toolVars, fixed
<1>1. CASE UNCHANGED vars
  BY <1>1 DEF vars, Emitted
<1>2. CASE Stop
  BY <1>2 DEF Stop, Emitted
<1>3. CASE ReturnCancelled
  BY <1>3 DEF ReturnCancelled, Return
<1>4. CASE BeginTurn \/ StreamOpens \/ RequestUnauthorized \/ BackoffOver
           \/ StreamEnds
  BY <1>4
  DEF BeginTurn, StreamOpens, RequestUnauthorized, BackoffOver, StreamEnds
<1>5. CASE RunOutOfTurns \/ RequestFailsPermanent
  BY <1>5 DEF RunOutOfTurns, RequestFailsPermanent, Return
<1>6. CASE RequestFailsTransient \/ Refreshed
  BY <1>6 DEF RequestFailsTransient, Refreshed, Return
<1>7. CASE TextDelta \/ ReasoningDelta \/ ToolCallStart
  BY <1>7 DEF TextDelta, ReasoningDelta, ToolCallStart, Chunk
<1>8. ASSUME NEW transient \in BOOLEAN, StreamFails(transient) PROVE RestartInv'
  <2>1. CASE transient /\ MayRestart
    <3>1. ~Emitted /\ buf' = buf /\ dropped' = dropped
      BY <1>8, <2>1 DEF StreamFails, MayRestart
    <3>2. QED
      BY <3>1 DEF Emitted
  <2>2. CASE ~(transient /\ MayRestart)
    BY <1>8, <2>2 DEF StreamFails, Return
  <2>3. QED
    BY <2>1, <2>2
<1>9. CASE RestartStream
  <2>1. Delivered \subseteq {"think"}
    BY <1>9 DEF RestartStream, Delivered, Emitted
  <2>2. dropped' = dropped \cup Delivered /\ pc' = "connecting"
    BY <1>9 DEF RestartStream
  <2>3. QED
    BY <2>1, <2>2
<1>10. CASE HandOff \/ FinalAnswer
  BY <1>10 DEF HandOff, FinalAnswer, Return
<1>11. CASE AskAgain \/ BeginTools
  BY <1>11 DEF AskAgain, BeginTools
<1>12. CASE RefuseCall \/ EndCall
  BY <1>12 DEF RefuseCall, EndCall, AnswerCall
<1>13. CASE BeginCall \/ Execute \/ EndTools
  BY <1>13 DEF BeginCall, Execute, EndTools
<1>14. QED
  BY <1>1, <1>2, <1>3, <1>4, <1>5, <1>6, <1>7, <1>8, <1>9, <1>10, <1>11, <1>12, <1>13
  DEF Next, ProviderStep, LoopStep

-----------------------------------------------------------------------------
(* The tools.                                                              *)

\* What is being executed has passed the gates and has usable arguments.
ExecuteInv ==
  /\ MutationsAreWhole
  /\ pc = "execute" /\ parts > 0 =>
       ~Refused(Head(pending)) /\ Executions(Head(pending)) > 0

\* Each step keeps ExecuteInv.
LEMMA ExecuteInvStep == TypeInv /\ ExecuteInv /\ [Next]_vars => ExecuteInv'
<1> SUFFICES ASSUME TypeInv, ExecuteInv, [Next]_vars PROVE ExecuteInv'
  OBVIOUS
<1> USE DEF turnVars, toolVars, fixed
<1>1. /\ pending \in Seq(CallType) /\ ran \in Seq(CallType) /\ parts \in 0..2
      /\ loop \in {"role", "direct"}
  BY DEF TypeInv, LoopTypeOK
<1>2. ASSUME UNCHANGED <<ran, auto_approve>> PROVE MutationsAreWhole'
  BY <1>2 DEF ExecuteInv, MutationsAreWhole
<1>3. ASSUME pc' # "execute", UNCHANGED <<ran, auto_approve>> PROVE ExecuteInv'
  BY <1>2, <1>3 DEF ExecuteInv
<1>4. CASE Quiet
  <2>1. UNCHANGED <<loop, auto_approve, ran>>
    BY <1>4 DEF Quiet
  <2>2. CASE pc' = "execute"
    <3>1. pc = "execute" /\ UNCHANGED <<pending, parts>>
      BY <1>4, <2>2 DEF Quiet, Tooling
    <3>2. QED
      BY <1>2, <2>1, <3>1 DEF ExecuteInv, Refused, Executions
  <2>3. QED
    BY <1>3, <2>1, <2>2
<1>5. CASE HandOff \/ FinalAnswer
  BY <1>3, <1>5 DEF HandOff, FinalAnswer, Return
<1>6. CASE AskAgain \/ BeginTools \/ EndTools
  BY <1>3, <1>6 DEF AskAgain, BeginTools, EndTools
<1>7. CASE RefuseCall \/ EndCall
  BY <1>3, <1>7 DEF RefuseCall, EndCall, AnswerCall
<1>8. CASE BeginCall
  <2>1. /\ ~Refused(Head(pending)) /\ Executions(Head(pending)) > 0
        /\ UNCHANGED <<pending, loop, auto_approve, ran>>
    BY <1>8 DEF BeginCall
  <2>2. QED
    BY <1>2, <2>1 DEF ExecuteInv, Refused, Executions
<1>9. CASE Execute
  <2> DEFINE c == Head(pending)
  <2>1. c \in CallType
    BY <1>1, <1>9 DEF Execute, TypeInv, ControlInv
  <2>2. ~Refused(c) /\ Executions(c) > 0
    BY <1>9 DEF Execute, ExecuteInv
  <2>3. c.tool = "write" => c.args # "cut" /\ auto_approve
    BY <2>2 DEF Refused, Executions
  <2>4. ran' = Append(ran, c) /\ UNCHANGED <<loop, auto_approve, pending>>
    BY <1>9 DEF Execute
  <2>5. (~Refused(c) /\ Executions(c) > 0)'
    BY <2>2, <2>4 DEF Refused, Executions
  <2> HIDE DEF c
  <2>6. ASSUME NEW i \in DOMAIN ran', ran'[i].tool = "write"
        PROVE  ran'[i].args # "cut" /\ auto_approve
    <3>1. CASE i \in DOMAIN ran
      <4>1. ran'[i] = ran[i]
        BY <1>1, <2>1, <2>4, <3>1
      <4>2. QED
        BY <2>6, <3>1, <4>1 DEF ExecuteInv, MutationsAreWhole
    <3>2. CASE i \notin DOMAIN ran
      <4>1. ran'[i] = c
        BY <1>1, <2>1, <2>4, <2>6, <3>2
      <4>2. QED
        BY <2>3, <2>6, <4>1
    <3>3. QED
      BY <3>1, <3>2
  <2>7. MutationsAreWhole'
    BY <2>4, <2>6 DEF MutationsAreWhole
  <2>8. QED
    BY <2>5, <2>7 DEF ExecuteInv, c
<1>10. QED
  BY <1>4, <1>5, <1>6, <1>7, <1>8, <1>9, QuietSteps

-----------------------------------------------------------------------------
(* The budget.                                                             *)

AnswersIn(h) == {i \in DOMAIN h : h[i].role = "tool"}

\* A conversation has finitely many answers, one more after an answer.
LEMMA OneMoreAnswer ==
  ASSUME NEW h \in Seq(MessageType), NEW m \in MessageType
  PROVE  /\ Cardinality(AnswersIn(h)) \in Nat
         /\ Cardinality(AnswersIn(Append(h, m))) =
              Cardinality(AnswersIn(h)) + (IF m.role = "tool" THEN 1 ELSE 0)
<1> DEFINE g == Append(h, m)
           n == Len(h) + 1
<1>1. /\ DOMAIN h = 1..Len(h) /\ DOMAIN g = 1..(Len(h) + 1) /\ Len(h) \in Nat
      /\ \A i \in DOMAIN h : g[i] = h[i]
      /\ g[Len(h) + 1] = m
  BY Longer
<1>2. IsFiniteSet(AnswersIn(h))
  <2>1. IsFiniteSet(1..Len(h))
    BY <1>1, FS_Interval
  <2>2. AnswersIn(h) \subseteq 1..Len(h)
    BY <1>1 DEF AnswersIn
  <2>3. QED
    BY <2>1, <2>2, FS_Subset
<1>3. Cardinality(AnswersIn(h)) \in Nat
  BY <1>2, FS_CardinalityType
<1> HIDE DEF g
<1>4. n \notin AnswersIn(h)
  BY <1>1 DEF AnswersIn
<1>5. CASE m.role = "tool"
  <2>1. AnswersIn(g) = AnswersIn(h) \cup {n}
    BY <1>1, <1>5 DEF AnswersIn
  <2>2. Cardinality(AnswersIn(h) \cup {n}) = Cardinality(AnswersIn(h)) + 1
    BY <1>2, <1>4, FS_AddElement
  <2>3. QED
    BY <1>3, <1>5, <2>1, <2>2 DEF g
<1>6. CASE m.role # "tool"
  <2>1. AnswersIn(g) = AnswersIn(h)
    BY <1>1, <1>6 DEF AnswersIn
  <2>2. QED
    BY <1>3, <1>6, <2>1 DEF g
<1>7. QED
  BY <1>5, <1>6

\* An answer takes what is left of the budget, or the floor.
LEMMA TruncatedBound ==
  ASSUME NEW n \in Nat, retained \in Nat
  PROVE  /\ Truncated(n) \in Nat
         /\ \/ Truncated(n) <= OUTPUT_FLOOR + MARK
            \/ retained + Truncated(n) <= OUTPUT_TOTAL + MARK
<1> USE LoopAssumption
<1>1. OutputLimit \in Nat
  BY DEF OutputLimit, Smaller, Larger
<1>2. OutputLimit <= OUTPUT_FLOOR \/ retained + OutputLimit <= OUTPUT_TOTAL
  BY DEF OutputLimit, Smaller, Larger
<1> DEFINE L == OutputLimit
<1> HIDE DEF L
<1>3. L \in Nat /\ (L <= OUTPUT_FLOOR \/ retained + L <= OUTPUT_TOTAL)
  BY <1>1, <1>2 DEF L
<1>4. Truncated(n) = IF n <= L THEN n ELSE 2 * (L \div 2) + MARK
  BY DEF Truncated, L
<1>5. 2 * (L \div 2) <= L /\ 2 * (L \div 2) \in Nat
  BY <1>3
<1>6. Truncated(n) \in Nat /\ Truncated(n) <= L + MARK
  BY <1>3, <1>4, <1>5
<1>7. QED
  BY <1>3, <1>6

\* Each step keeps RetainedOutputBounded.
LEMMA BudgetStep == TypeInv /\ RetainedOutputBounded /\ [Next]_vars => RetainedOutputBounded'
<1> SUFFICES ASSUME TypeInv, RetainedOutputBounded, [Next]_vars PROVE RetainedOutputBounded'
  OBVIOUS
<1> DEFINE a == Cardinality(AnswersIn(history))
           b == Cardinality(AnswersIn(history'))
           k == OUTPUT_FLOOR + MARK
<1>1. /\ history \in Seq(MessageType) /\ pending \in Seq(CallType) /\ buf \in Buf
      /\ retained \in Nat /\ size \in Nat
  BY DEF TypeInv, LoopTypeOK, Buf
<1>2. history' \in Seq(MessageType)
  <2>1. TypeInv'
    BY TypeInvStep
  <2>2. QED
    BY <2>1 DEF TypeInv, LoopTypeOK
<1>3. a \in Nat /\ b \in Nat
  BY <1>1, <1>2, OneMoreAnswer, MessagesAreTyped
<1>4. retained <= OUTPUT_TOTAL + a * k
  BY DEF RetainedOutputBounded, Answers, AnswersIn
<1>5. Answers' = b
  BY DEF Answers, AnswersIn
<1>6. k \in Nat /\ OUTPUT_TOTAL \in Nat /\ MARK \in Nat /\ MARK <= k
  BY LoopAssumption
<1> HIDE DEF a, b
<1>7. ASSUME retained' \in Nat, retained' <= OUTPUT_TOTAL + b * k PROVE RetainedOutputBounded'
  BY <1>5, <1>7 DEF RetainedOutputBounded
<1> HIDE DEF k
<1>8. ASSUME retained' = retained, b >= a PROVE RetainedOutputBounded'
  <2>1. a * k <= b * k
    BY <1>3, <1>6, <1>8
  <2>2. a * k \in Nat /\ b * k \in Nat
    BY <1>3, <1>6
  <2>3. QED
    BY <1>1, <1>4, <1>6, <1>7, <1>8, <2>1, <2>2
<1>9. CASE Quiet
  <2>1. retained' = retained /\ history' = history
    BY <1>9 DEF Quiet
  <2>2. b = a
    BY <2>1 DEF a, b
  <2>3. QED
    BY <1>3, <1>8, <2>1, <2>2
<1>10. ASSUME NEW h \in Seq(MessageType), NEW m \in MessageType
       PROVE  /\ Cardinality(AnswersIn(h)) \in Nat
              /\ Cardinality(AnswersIn(Append(h, m))) \in Nat
              /\ Cardinality(AnswersIn(Append(h, m))) >= Cardinality(AnswersIn(h))
  BY OneMoreAnswer
<1>11. ASSUME NEW m \in MessageType, history' = Append(history, m) PROVE b >= a
  BY <1>1, <1>10, <1>11 DEF a, b
<1>12. ASSUME NEW m \in MessageType, NEW n \in MessageType, history' = history \o <<m, n>>
       PROVE  b >= a
  <2>1. history' = Append(Append(history, m), n) /\ Append(history, m) \in Seq(MessageType)
    BY <1>1, <1>12
  <2>2. Cardinality(AnswersIn(Append(history, m))) >= a
    BY <1>1, <1>10 DEF a
  <2>3. b >= Cardinality(AnswersIn(Append(history, m)))
    BY <1>10, <2>1 DEF b
  <2>4. Cardinality(AnswersIn(Append(history, m))) \in Nat
    BY <1>1, <1>10
  <2>5. QED
    BY <1>3, <2>2, <2>3, <2>4
<1>13. <<>> \in Seq(CallType)
  OBVIOUS
<1>14. CASE HandOff
  <2>1. PICK i \in DOMAIN buf.calls :
          history' = history \o <<Assistant(<<buf.calls[i]>>), Answer(buf.calls[i])>>
    BY <1>14 DEF HandOff, HandoffCalls
  <2>2. buf.calls[i] \in CallType
    <3>1. buf.calls \in Seq(CallType)
      BY <1>1, BufCalls
    <3>2. QED
      BY <2>1, <3>1
  <2>3. <<buf.calls[i]>> \in Seq(CallType)
    BY <2>2
  <2>4. Assistant(<<buf.calls[i]>>) \in MessageType /\ Answer(buf.calls[i]) \in MessageType
    BY <2>2, <2>3, MessagesAreTyped
  <2>5. retained' = retained
    BY <1>14 DEF HandOff, Return
  <2>6. QED
    BY <1>8, <1>12, <2>1, <2>4, <2>5
<1>15. CASE AskAgain
  <2>1. Assistant(<<>>) \in MessageType /\ User \in MessageType
    BY <1>13, MessagesAreTyped
  <2>2. history' = history \o <<Assistant(<<>>), User>> /\ retained' = retained
    BY <1>15 DEF AskAgain, toolVars
  <2>3. QED
    BY <1>8, <1>12, <2>1, <2>2
<1>16. CASE FinalAnswer
  <2>1. Assistant(<<>>) \in MessageType
    BY <1>13, MessagesAreTyped
  <2>2. history' = Append(history, Assistant(<<>>)) /\ retained' = retained
    BY <1>16 DEF FinalAnswer, Return
  <2>3. QED
    BY <1>8, <1>11, <2>1, <2>2
<1>17. CASE BeginTools
  <2>1. CallsToRun \in Seq(CallType)
    <3>1. turn \in Nat
      <4>1. turn \in 0..MAX_TURNS
        BY DEF TypeInv, LoopTypeOK
      <4>2. QED
        BY <4>1, LoopAssumption
    <3>2. QED
      BY <1>1, <3>1, CallsToRunTyped
  <2>2. Assistant(CallsToRun) \in MessageType
    BY <2>1, MessagesAreTyped
  <2>3. history' = Append(history, Assistant(CallsToRun)) /\ retained' = retained
    BY <1>17 DEF BeginTools
  <2>4. QED
    BY <1>8, <1>11, <2>2, <2>3
<1>18. ASSUME NEW n \in Nat, AnswerCall(n), pending # <<>> PROVE RetainedOutputBounded'
  <2> DEFINE m == Answer(Head(pending))
             t == Truncated(n)
  <2>1. m \in MessageType /\ m.role = "tool"
    <3>1. Head(pending) \in CallType
      BY <1>1, <1>18
    <3>2. QED
      BY <3>1, MessagesAreTyped DEF Answer
  <2>2. history' = Append(history, m) /\ retained' = retained + t
    BY <1>18 DEF AnswerCall
  <2> HIDE DEF m
  <2>3. b = a + 1
    BY <1>1, <2>1, <2>2, OneMoreAnswer DEF a, b
  <2>4. t \in Nat /\ (t <= k \/ retained + t <= OUTPUT_TOTAL + MARK)
    BY <1>1, TruncatedBound DEF k
  <2> HIDE DEF t
  <2>5. a * k \in Nat /\ b * k = a * k + k
    BY <1>3, <1>6, <2>3
  <2>6. retained' \in Nat /\ retained' <= OUTPUT_TOTAL + b * k
    BY <1>1, <1>4, <1>6, <2>2, <2>4, <2>5
  <2>7. QED
    BY <1>7, <2>6
<1>19. CASE RefuseCall
  <2>1. PICK n \in OutputSizes : AnswerCall(n)
    BY <1>19 DEF RefuseCall
  <2>2. n \in Nat /\ pending # <<>>
    BY <1>19, LoopAssumption DEF RefuseCall
  <2>3. QED
    BY <1>18, <2>1, <2>2
<1>20. CASE EndCall
  <2>1. pending # <<>>
    BY <1>20 DEF EndCall, TypeInv, ControlInv
  <2>2. QED
    BY <1>1, <1>18, <1>20, <2>1 DEF EndCall
<1>21. CASE BeginCall \/ Execute \/ EndTools
  <2>1. history' = history /\ retained' = retained
    BY <1>21 DEF BeginCall, Execute, EndTools, toolVars
  <2>2. b = a
    BY <2>1 DEF a, b
  <2>3. QED
    BY <1>3, <1>8, <2>1, <2>2
<1>22. QED
  BY <1>9, <1>14, <1>15, <1>16, <1>17, <1>19, <1>20, <1>21, QuietSteps

-----------------------------------------------------------------------------
(* Theorems.                                                               *)

LoopInv == TypeInv /\ HistoryInv /\ RestartInv /\ ExecuteInv /\ RetainedOutputBounded

\* LoopInv holds in every reachable state.
LEMMA LoopCorrect == Spec => []LoopInv
<1>1. Init => LoopInv
  <2> SUFFICES ASSUME Init PROVE LoopInv
    OBVIOUS
  <2>1. HistoryInv
    <3>1. WellFormed(<<User>>)
      BY DEF WellFormed, User
    <3>2. QED
      BY <3>1 DEF Init, HistoryInv, Tooling
  <2>2. RestartInv
    BY DEF Init, RestartInv, NoOutputReplayed
  <2>3. ExecuteInv
    BY DEF Init, ExecuteInv, MutationsAreWhole
  <2>4. RetainedOutputBounded
    <3>1. AnswersIn(<<User>>) = {}
      BY DEF AnswersIn, User
    <3>2. Answers = 0 /\ retained = 0
      BY <3>1, FS_EmptySet DEF Init, Answers, AnswersIn
    <3>3. QED
      BY <3>2, LoopAssumption DEF RetainedOutputBounded
  <2>5. QED
    BY <2>1, <2>2, <2>3, <2>4, TypeInvInit DEF LoopInv
<1>2. LoopInv /\ [Next]_vars => LoopInv'
  BY TypeInvStep, HistoryInvStep, RestartInvStep, ExecuteInvStep, BudgetStep DEF LoopInv
<1>3. QED
  BY <1>1, <1>2, PTL DEF Spec

\* Types.
THEOREM LoopTypeCorrect == Spec => []LoopTypeOK
<1>1. LoopInv => LoopTypeOK
  BY DEF LoopInv, TypeInv
<1>2. QED
  BY <1>1, LoopCorrect, PTL

\* Neither a request the provider gets nor the conversation a loop hands back
\* has an assistant message whose calls lack their answers, unless the user
\* stopped the loop.
THEOREM HistoriesAreWellFormed == Spec => []HistoryWellFormed
<1>1. LoopInv => HistoryWellFormed
  <2> SUFFICES ASSUME LoopInv, pc \in {"connecting", "stream"} \/ result \notin {"none", "cancelled"}
               PROVE  WellFormed(history)
    BY DEF HistoryWellFormed
  <2>1. pc = "done" <=> result # "none"
    BY DEF LoopInv, TypeInv, ControlInv
  <2>2. QED
    BY <2>1 DEF LoopInv, HistoryInv, Tooling
<1>2. QED
  BY <1>1, LoopCorrect, PTL

\* A restarted turn never delivers text or tool calls a second time.
THEOREM OutputIsNotReplayed == Spec => []NoOutputReplayed
<1>1. LoopInv => NoOutputReplayed
  BY DEF LoopInv, RestartInv
<1>2. QED
  BY <1>1, LoopCorrect, PTL

\* A tool that changes files or runs commands is never executed with arguments
\* that were cut off, and never when the user has to approve.
THEOREM MutationsAreApprovedAndWhole == Spec => []MutationsAreWhole
<1>1. LoopInv => MutationsAreWhole
  BY DEF LoopInv, ExecuteInv
<1>2. QED
  BY <1>1, LoopCorrect, PTL

\* The tool output kept in the history stays under the budget, up to the floor
\* that every answer is granted.
THEOREM RetainedOutputStaysBounded == Spec => []RetainedOutputBounded
<1>1. LoopInv => RetainedOutputBounded
  BY DEF LoopInv
<1>2. QED
  BY <1>1, LoopCorrect, PTL

-----------------------------------------------------------------------------
(* The loop cannot go round for ever.                                      *)

\* Seven numbers, the first that changes counts: turns left; how far the turn
\* is; restarts of its stream left, or calls left to answer; retries of the
\* request left, or whether the next call has begun; how far the attempt is, or
\* executions of the call left; what the stream can still bring; Stops left.
Asking == {"connecting", "refresh", "backoff", "stream", "restart"}
TurnsLeft == MAX_TURNS - turn
Stage ==
  CASE pc = "turn" -> 4 [] pc \in Asking -> 3 [] pc = "answered" -> 2
    [] pc \in Tooling -> 1 [] pc = "done" -> 0
RetriesLeft ==
  IF pc = "restart" THEN MAX_LLM_STREAM_RETRIES + 1 ELSE MAX_LLM_STREAM_RETRIES - attempt
Position == CASE pc = "connecting" -> 3 [] pc = "refresh" -> 2 [] OTHER -> 1
TextLeft == IF buf.text = "" THEN 1 ELSE 0
ThinkLeft == IF buf.think THEN 0 ELSE 1
CallsLeft == IF Len(buf.calls) < MaxCalls THEN MaxCalls - Len(buf.calls) ELSE 0
ChunksLeft == TextLeft + ThinkLeft + CallsLeft
StreamLeft == IF pc = "stream" THEN ChunksLeft ELSE 0
TurnToCall == IF pc = "tools" THEN 1 ELSE 0
StopsLeft == IF cancelled THEN 0 ELSE 1
Rank ==
  CASE pc \in Asking ->
         <<TurnsLeft, Stage, stream_restarts, RetriesLeft, Position,
           StreamLeft, StopsLeft>>
    [] pc \in Tooling ->
         <<TurnsLeft, Stage, Len(pending), TurnToCall, parts, 0, StopsLeft>>
    [] OTHER -> <<TurnsLeft, Stage, 0, 0, 0, 0, StopsLeft>>

Below(a, b) == \E k \in 1..7 : a[k] < b[k] /\ \A j \in 1..(k - 1) : a[j] = b[j]
RankIsNat == \A k \in 1..7 : Rank[k] \in Nat

LEMMA BelowIs ==
  ASSUME NEW a1, NEW a2, NEW a3, NEW a4, NEW a5, NEW a6, NEW a7,
         NEW b1, NEW b2, NEW b3, NEW b4, NEW b5, NEW b6, NEW b7,
         \/ a1 < b1
         \/ a1 = b1 /\ a2 < b2
         \/ a1 = b1 /\ a2 = b2 /\ a3 < b3
         \/ a1 = b1 /\ a2 = b2 /\ a3 = b3 /\ a4 < b4
         \/ a1 = b1 /\ a2 = b2 /\ a3 = b3 /\ a4 = b4 /\ a5 < b5
         \/ a1 = b1 /\ a2 = b2 /\ a3 = b3 /\ a4 = b4 /\ a5 = b5 /\ a6 < b6
         \/ a1 = b1 /\ a2 = b2 /\ a3 = b3 /\ a4 = b4 /\ a5 = b5 /\ a6 = b6 /\ a7 < b7
  PROVE  Below(<<a1, a2, a3, a4, a5, a6, a7>>, <<b1, b2, b3, b4, b5, b6, b7>>)
<1> DEFINE a == <<a1, a2, a3, a4, a5, a6, a7>>
           b == <<b1, b2, b3, b4, b5, b6, b7>>
<1>1. /\ a[1] = a1 /\ a[2] = a2 /\ a[3] = a3 /\ a[4] = a4 /\ a[5] = a5 /\ a[6] = a6 /\ a[7] = a7
      /\ b[1] = b1 /\ b[2] = b2 /\ b[3] = b3 /\ b[4] = b4 /\ b[5] = b5 /\ b[6] = b6 /\ b[7] = b7
  OBVIOUS
<1> HIDE DEF a, b
<1>2. \E k \in 1..7 : a[k] < b[k] /\ \A j \in 1..(k - 1) : a[j] = b[j]
  <2>1. \A k \in 1..7 : \A j \in 1..(k - 1) : j = 1 \/ j = 2 \/ j = 3 \/ j = 4 \/ j = 5 \/ j = 6
    OBVIOUS
  <2>2. CASE a1 < b1
    <3>1. a[1] < b[1] /\ \A j \in 1..(1 - 1) : a[j] = b[j]
      BY <1>1, <2>2
    <3>2. QED
      BY <3>1
  <2>3. CASE a1 = b1 /\ a2 < b2
    <3>1. a[2] < b[2] /\ \A j \in 1..(2 - 1) : a[j] = b[j]
      BY <1>1, <2>3
    <3>2. QED
      BY <3>1
  <2>4. CASE a1 = b1 /\ a2 = b2 /\ a3 < b3
    <3>1. a[3] < b[3] /\ \A j \in 1..(3 - 1) : a[j] = b[j]
      BY <1>1, <2>4
    <3>2. QED
      BY <3>1
  <2>5. CASE a1 = b1 /\ a2 = b2 /\ a3 = b3 /\ a4 < b4
    <3>1. a[4] < b[4] /\ \A j \in 1..(4 - 1) : a[j] = b[j]
      BY <1>1, <2>5
    <3>2. QED
      BY <3>1
  <2>6. CASE a1 = b1 /\ a2 = b2 /\ a3 = b3 /\ a4 = b4 /\ a5 < b5
    <3>1. a[5] < b[5] /\ \A j \in 1..(5 - 1) : a[j] = b[j]
      BY <1>1, <2>6
    <3>2. QED
      BY <3>1
  <2>7. CASE a1 = b1 /\ a2 = b2 /\ a3 = b3 /\ a4 = b4 /\ a5 = b5 /\ a6 < b6
    <3>1. a[6] < b[6] /\ \A j \in 1..(6 - 1) : a[j] = b[j]
      BY <1>1, <2>7
    <3>2. QED
      BY <3>1
  <2>8. CASE a1 = b1 /\ a2 = b2 /\ a3 = b3 /\ a4 = b4 /\ a5 = b5 /\ a6 = b6 /\ a7 < b7
    <3>1. a[7] < b[7] /\ \A j \in 1..(7 - 1) : a[j] = b[j]
      BY <1>1, <2>8
    <3>2. QED
      BY <3>1
  <2>9. QED
    BY <2>2, <2>3, <2>4, <2>5, <2>6, <2>7, <2>8
<1>3. QED
  BY <1>2 DEF Below, a, b

\* The stages, by place, here and after a step.
LEMMA StageIs ==
  /\ pc = "turn" => Stage = 4
  /\ pc \in Asking => Stage = 3
  /\ pc = "answered" => Stage = 2
  /\ pc \in Tooling => Stage = 1
  /\ pc = "done" => Stage = 0
  /\ pc' = "turn" => Stage' = 4
  /\ pc' \in Asking => Stage' = 3
  /\ pc' = "answered" => Stage' = 2
  /\ pc' \in Tooling => Stage' = 1
  /\ pc' = "done" => Stage' = 0
BY DEF Stage, Asking, Tooling

\* The three shapes of the rank.
LEMMA RankIs ==
  /\ pc \in Asking =>
       Rank = <<TurnsLeft, Stage, stream_restarts, RetriesLeft, Position, StreamLeft, StopsLeft>>
  /\ pc \in Tooling => Rank = <<TurnsLeft, Stage, Len(pending), TurnToCall, parts, 0, StopsLeft>>
  /\ pc \notin Asking /\ pc \notin Tooling => Rank = <<TurnsLeft, Stage, 0, 0, 0, 0, StopsLeft>>
  /\ pc' \in Asking =>
       Rank' = <<TurnsLeft', Stage', stream_restarts', RetriesLeft', Position', StreamLeft',
                 StopsLeft'>>
  /\ pc' \in Tooling =>
       Rank' = <<TurnsLeft', Stage', Len(pending'), TurnToCall', parts', 0, StopsLeft'>>
  /\ pc' \notin Asking /\ pc' \notin Tooling =>
       Rank' = <<TurnsLeft', Stage', 0, 0, 0, 0, StopsLeft'>>
<1>1. \A x \in Tooling : x \notin Asking
  BY DEF Tooling, Asking
<1>2. /\ pc \in Asking => pc \notin Tooling
      /\ pc' \in Asking => pc' \notin Tooling
  BY <1>1
<1>3. QED
  BY <1>2 DEF Rank

\* Later in the turn, or a turn later.
LEMMA StageFalls ==
  ASSUME TurnsLeft' < TurnsLeft \/ (TurnsLeft' = TurnsLeft /\ Stage' < Stage)
  PROVE  Below(Rank', Rank)
<1>1. \E x3, x4, x5, x6, x7 : Rank = <<TurnsLeft, Stage, x3, x4, x5, x6, x7>>
  BY DEF Rank
<1>2. \E y3, y4, y5, y6, y7 : Rank' = <<TurnsLeft', Stage', y3, y4, y5, y6, y7>>
  BY DEF Rank
<1>3. PICK x3, x4, x5, x6, x7 : Rank = <<TurnsLeft, Stage, x3, x4, x5, x6, x7>>
  BY <1>1
<1>4. PICK y3, y4, y5, y6, y7 : Rank' = <<TurnsLeft', Stage', y3, y4, y5, y6, y7>>
  BY <1>2
<1>5. QED
  BY <1>3, <1>4, BelowIs

\* Another attempt of the same turn, or more of the same stream.
LEMMA AskingFalls ==
  ASSUME pc \in Asking, pc' \in Asking, UNCHANGED <<turn, cancelled>>,
         \/ stream_restarts' < stream_restarts
         \/ stream_restarts' = stream_restarts /\ RetriesLeft' < RetriesLeft
         \/ stream_restarts' = stream_restarts /\ RetriesLeft' = RetriesLeft /\ Position' < Position
         \/ /\ stream_restarts' = stream_restarts /\ RetriesLeft' = RetriesLeft
            /\ pc = "stream" /\ pc' = "stream" /\ ChunksLeft' < ChunksLeft
  PROVE  Below(Rank', Rank)
<1>1. Rank = <<TurnsLeft, Stage, stream_restarts, RetriesLeft, Position,
               StreamLeft, StopsLeft>>
  BY RankIs
<1>2. Rank' = <<TurnsLeft', Stage', stream_restarts', RetriesLeft', Position',
                StreamLeft', StopsLeft'>>
  BY RankIs
<1>3. TurnsLeft' = TurnsLeft /\ Stage' = Stage
  BY StageIs DEF TurnsLeft
<1>4. /\ pc = "stream" /\ pc' = "stream" => Position' = Position
      /\ pc = "stream" => StreamLeft = ChunksLeft
      /\ pc' = "stream" => StreamLeft' = ChunksLeft'
  BY DEF Position, StreamLeft
<1>5. QED
  BY <1>1, <1>2, <1>3, <1>4, BelowIs

\* One more answer, or one more execution of a call.
LEMMA ToolingFalls ==
  ASSUME pc \in Tooling, pc' \in Tooling, UNCHANGED <<turn, cancelled>>,
         \/ Len(pending') < Len(pending)
         \/ Len(pending') = Len(pending) /\ pc = "tools" /\ pc' = "execute"
         \/ Len(pending') = Len(pending) /\ pc' = pc /\ parts' < parts
  PROVE  Below(Rank', Rank)
<1>1. Rank = <<TurnsLeft, Stage, Len(pending), TurnToCall, parts, 0, StopsLeft>>
  BY RankIs
<1>2. Rank' = <<TurnsLeft', Stage', Len(pending'), TurnToCall', parts', 0, StopsLeft'>>
  BY RankIs
<1>3. TurnsLeft' = TurnsLeft /\ Stage' = Stage
  BY StageIs DEF TurnsLeft
<1>4. /\ pc = "tools" /\ pc' = "execute" => TurnToCall' < TurnToCall
      /\ pc' = pc => TurnToCall' = TurnToCall
  BY DEF TurnToCall
<1>5. QED
  BY <1>1, <1>2, <1>3, <1>4, BelowIs

\* A Stop, which comes once.
LEMMA StopFalls ==
  ASSUME UNCHANGED <<pc, turn, attempt, stream_restarts, buf, pending, parts>>, ~cancelled, cancelled'
  PROVE  Below(Rank', Rank)
<1>1. PICK x1, x2, x3, x4, x5, x6 : /\ Rank = <<x1, x2, x3, x4, x5, x6, StopsLeft>>
                                    /\ Rank' = <<x1, x2, x3, x4, x5, x6, StopsLeft'>>
  <2>0. /\ TurnsLeft' = TurnsLeft /\ Stage' = Stage /\ RetriesLeft' = RetriesLeft
        /\ Position' = Position /\ StreamLeft' = StreamLeft /\ TurnToCall' = TurnToCall
    BY DEF TurnsLeft, Stage, RetriesLeft, Position, StreamLeft, ChunksLeft, TextLeft, ThinkLeft,
           CallsLeft, TurnToCall
  <2>1. CASE pc \in Asking
    <3>1. Rank = <<TurnsLeft, Stage, stream_restarts, RetriesLeft, Position, StreamLeft, StopsLeft>>
      BY <2>1, RankIs
    <3>2. Rank' = <<TurnsLeft', Stage', stream_restarts', RetriesLeft', Position', StreamLeft',
                    StopsLeft'>>
      BY <2>1, RankIs
    <3>3. QED
      BY <2>0, <3>1, <3>2
  <2>2. CASE pc \in Tooling /\ pc \notin Asking
    <3>1. Rank = <<TurnsLeft, Stage, Len(pending), TurnToCall, parts, 0, StopsLeft>>
      BY <2>2, RankIs
    <3>2. Rank' = <<TurnsLeft', Stage', Len(pending'), TurnToCall', parts', 0, StopsLeft'>>
      BY <2>2, RankIs
    <3>3. QED
      BY <2>0, <3>1, <3>2
  <2>3. CASE pc \notin Tooling /\ pc \notin Asking
    <3>1. Rank = <<TurnsLeft, Stage, 0, 0, 0, 0, StopsLeft>>
      BY <2>3, RankIs
    <3>2. Rank' = <<TurnsLeft', Stage', 0, 0, 0, 0, StopsLeft'>>
      BY <2>3, RankIs
    <3>3. QED
      BY <2>0, <3>1, <3>2
  <2>4. QED
    BY <2>1, <2>2, <2>3
<1>2. StopsLeft' < StopsLeft
  BY DEF StopsLeft
<1>3. QED
  BY <1>1, <1>2, BelowIs

LEMMA StepFalls ==
  ASSUME LoopInv, Next
  PROVE  Below(Rank', Rank)
<1>0. /\ turn \in Nat /\ turn <= MAX_TURNS /\ MAX_TURNS \in Nat
      /\ turn = MAX_TURNS => pc \in {"turn", "done"}
      /\ attempt \in Nat /\ attempt < MAX_LLM_STREAM_RETRIES /\ MAX_LLM_STREAM_RETRIES \in Nat
      /\ stream_restarts \in Nat /\ parts \in Nat /\ pending \in Seq(CallType)
      /\ MaxCalls \in Nat
  <2>1. LoopTypeOK
    BY DEF LoopInv, TypeInv
  <2>2. /\ turn \in 0..MAX_TURNS /\ (turn = MAX_TURNS => pc \in {"turn", "done"})
        /\ pc \in {"turn", "connecting", "refresh", "backoff", "stream", "restart", "answered",
                   "tools", "execute", "done"}
        /\ attempt \in 0..(MAX_LLM_STREAM_RETRIES - 1) /\ stream_restarts \in 0..STREAM_RESTARTS
        /\ parts \in 0..2 /\ pending \in Seq(CallType)
    BY <2>1, Zenon DEF LoopTypeOK
  <2>3. /\ MAX_TURNS \in Nat /\ STREAM_RESTARTS \in Nat /\ MaxCalls \in Nat
        /\ MAX_LLM_STREAM_RETRIES \in Nat \ {0}
    BY LoopAssumption
  <2>4. QED
    BY <2>2, <2>3
<1> USE DEF turnVars, toolVars, fixed
<1> DEFINE Moves(S, T) == pc \in S /\ pc' \in T /\ turn' = turn
<1>1. ASSUME \/ Moves({"turn"}, Asking \cup Tooling \cup {"answered", "done"})
             \/ Moves(Asking, {"answered", "done"} \cup Tooling)
             \/ Moves({"answered"}, {"done"} \cup Tooling)
             \/ Moves(Tooling, {"done"})
      PROVE  Below(Rank', Rank)
  <2>1. Stage' < Stage
    BY <1>1 DEF Stage, Asking, Tooling
  <2>2. TurnsLeft' = TurnsLeft
    BY <1>1 DEF TurnsLeft
  <2>3. QED
    BY <2>1, <2>2, StageFalls
<1>2. ASSUME NEW r, Return(r), pc \in {"turn", "answered"} \cup Asking \cup Tooling
      PROVE  Below(Rank', Rank)
  BY <1>1, <1>2 DEF Return
<1>3. ASSUME turn' = turn + 1, pc # "turn", pc # "done" PROVE Below(Rank', Rank)
  <2>1. TurnsLeft' < TurnsLeft
    BY <1>0, <1>3 DEF TurnsLeft
  <2>2. QED
    BY <2>1, StageFalls
<1>4. CASE Stop
  BY <1>4, StopFalls DEF Stop
<1>5. CASE ReturnCancelled
  BY <1>2, <1>5 DEF ReturnCancelled, Asking, Tooling
<1>6. CASE BeginTurn
  BY <1>1, <1>6 DEF BeginTurn, Asking
<1>7. CASE RunOutOfTurns
  BY <1>2, <1>7 DEF RunOutOfTurns
<1>8. CASE StreamOpens
  BY <1>8, AskingFalls DEF StreamOpens, Asking, RetriesLeft, Position
<1>9. CASE RequestFailsTransient
  <2>1. CASE LastAttempt
    BY <1>2, <1>9, <2>1 DEF RequestFailsTransient, Asking
  <2>2. CASE ~LastAttempt
    BY <1>9, <2>2, AskingFalls DEF RequestFailsTransient, Asking, RetriesLeft, Position
  <2>3. QED
    BY <2>1, <2>2
<1>10. CASE RequestFailsPermanent
  BY <1>2, <1>10 DEF RequestFailsPermanent, Asking
<1>11. CASE RequestUnauthorized
  BY <1>11, AskingFalls DEF RequestUnauthorized, Asking, RetriesLeft, Position
<1>12. CASE Refreshed
  <2>1. CASE LastAttempt
    BY <1>2, <1>12, <2>1 DEF Refreshed, Asking
  <2>2. CASE ~LastAttempt
    BY <1>12, <2>2, AskingFalls DEF Refreshed, Asking, RetriesLeft, Position
  <2>3. QED
    BY <2>1, <2>2
<1>13. CASE BackoffOver
  <2>1. RetriesLeft' < RetriesLeft
    BY <1>0, <1>13 DEF BackoffOver, RetriesLeft
  <2>2. QED
    BY <1>13, <2>1, AskingFalls DEF BackoffOver, Asking
<1>14. ASSUME NEW b, Chunk(b), ChunksLeft' < ChunksLeft PROVE Below(Rank', Rank)
  BY <1>14, AskingFalls DEF Chunk, Asking, RetriesLeft
<1>15. /\ buf \in Buf /\ buf.think \in BOOLEAN /\ buf.calls \in Seq(CallType)
       /\ Len(buf.calls) \in Nat /\ CallsLeft \in Nat /\ ThinkLeft \in Nat /\ TextLeft \in Nat
  <2>1. buf \in Buf
    BY DEF LoopInv, TypeInv, LoopTypeOK, Buf
  <2>2. buf.think \in BOOLEAN /\ buf.calls \in Seq(CallType)
    BY <2>1 DEF Buf
  <2>3. Len(buf.calls) \in Nat
    BY <2>2
  <2>4. CallsLeft \in Nat
    BY <1>0, <2>3 DEF CallsLeft
  <2>5. ThinkLeft \in Nat /\ TextLeft \in Nat
    BY DEF ThinkLeft, TextLeft
  <2>6. QED
    BY <2>1, <2>2, <2>3, <2>4, <2>5
<1>40. ASSUME /\ TextLeft' \in Nat /\ ThinkLeft' \in Nat /\ CallsLeft' \in Nat
              /\ TextLeft' <= TextLeft /\ ThinkLeft' <= ThinkLeft /\ CallsLeft' <= CallsLeft
              /\ TextLeft' < TextLeft \/ ThinkLeft' < ThinkLeft \/ CallsLeft' < CallsLeft
       PROVE  ChunksLeft' < ChunksLeft
  <2>1. \A a, b, c, x, y, z \in Nat :
          /\ x <= a /\ y <= b /\ z <= c
          /\ x < a \/ y < b \/ z < c
          => x + y + z < a + b + c
    OBVIOUS
  <2>2. ChunksLeft = TextLeft + ThinkLeft + CallsLeft /\ ChunksLeft' = TextLeft' + ThinkLeft' + CallsLeft'
    BY DEF ChunksLeft
  <2>3. QED
    BY <1>15, <1>40, <2>1, <2>2
<1>16. CASE TextDelta
  <2>1. PICK t \in TextKinds \cup {"plain"} : Chunk([buf EXCEPT !.text = t]) /\ buf.text = ""
    BY <1>16 DEF TextDelta
  <2>2. t # ""
    BY LoopAssumption
  <2>3. buf'.text = t /\ buf'.think = buf.think /\ buf'.calls = buf.calls
    BY <1>15, <2>1 DEF Chunk, Buf
  <2>8. buf.text = "" /\ buf'.text # ""
    BY <2>1, <2>2, <2>3
  <2>6. TextLeft' = 0 /\ TextLeft = 1
    BY <2>8 DEF TextLeft
  <2>7. ThinkLeft' = ThinkLeft /\ CallsLeft' = CallsLeft
    BY <2>3 DEF ThinkLeft, CallsLeft
  <2>4. ChunksLeft' < ChunksLeft
    BY <1>15, <1>40, <2>6, <2>7
  <2>5. QED
    BY <1>14, <2>1, <2>4
<1>17. CASE ReasoningDelta
  <2>1. /\ buf'.text = buf.text /\ buf'.think = TRUE /\ buf'.calls = buf.calls /\ ~buf.think
        /\ Chunk([buf EXCEPT !.think = TRUE])
    BY <1>15, <1>17 DEF ReasoningDelta, Chunk, Buf
  <2>4. ThinkLeft' = 0 /\ ThinkLeft = 1
    BY <2>1 DEF ThinkLeft
  <2>5. TextLeft' = TextLeft /\ CallsLeft' = CallsLeft
    BY <2>1 DEF TextLeft, CallsLeft
  <2>2. ChunksLeft' < ChunksLeft
    BY <1>15, <1>40, <2>4, <2>5
  <2>3. QED
    BY <1>14, <2>1, <2>2
<1>18. CASE ToolCallStart
  <2>1. PICK tool \in Tools, args \in Args :
          Chunk([buf EXCEPT !.calls = Append(@, Call(Len(@) + 1, tool, args))])
    BY <1>18 DEF ToolCallStart
  <2>2. Call(Len(buf.calls) + 1, tool, args) \in CallType
    BY <1>0, <1>15 DEF Call, CallType
  <2>3. /\ buf'.text = buf.text /\ buf'.think = buf.think
        /\ buf'.calls = Append(buf.calls, Call(Len(buf.calls) + 1, tool, args))
    BY <1>15, <2>1 DEF Chunk, Buf
  <2>4. Len(buf'.calls) = Len(buf.calls) + 1
    BY <1>15, <2>2, <2>3
  <2>5. Len(buf.calls) < MaxCalls
    BY <1>18 DEF ToolCallStart
  <2>8. CallsLeft' < CallsLeft /\ CallsLeft' \in Nat
    BY <1>0, <1>15, <2>4, <2>5 DEF CallsLeft
  <2>9. TextLeft' = TextLeft /\ ThinkLeft' = ThinkLeft
    BY <2>3 DEF TextLeft, ThinkLeft
  <2>6. ChunksLeft' < ChunksLeft
    BY <1>15, <1>40, <2>8, <2>9
  <2>7. QED
    BY <1>14, <2>1, <2>6
<1>19. CASE StreamEnds
  BY <1>1, <1>19 DEF StreamEnds, Asking
<1>20. ASSUME NEW transient \in BOOLEAN, StreamFails(transient) PROVE Below(Rank', Rank)
  <2>1. CASE transient /\ MayRestart
    <3>1. stream_restarts' < stream_restarts
      BY <1>0, <1>20, <2>1 DEF StreamFails, RestartsLeft
    <3>2. QED
      BY <1>20, <2>1, <3>1, AskingFalls DEF StreamFails, Asking
  <2>2. CASE ~(transient /\ MayRestart)
    BY <1>2, <1>20, <2>2 DEF StreamFails, Asking
  <2>3. QED
    BY <2>1, <2>2
<1>21. CASE RestartStream
  <2>1. RetriesLeft' < RetriesLeft
    BY <1>0, <1>21 DEF RestartStream, RetriesLeft
  <2>2. QED
    BY <1>21, <2>1, AskingFalls DEF RestartStream, Asking
<1>22. CASE HandOff
  BY <1>2, <1>22 DEF HandOff
<1>23. CASE AskAgain
  BY <1>3, <1>23 DEF AskAgain
<1>24. CASE FinalAnswer
  BY <1>2, <1>24 DEF FinalAnswer
<1>25. CASE BeginTools
  BY <1>1, <1>25 DEF BeginTools, Tooling
<1>26. pending # <<>> => Len(Tail(pending)) < Len(pending)
  BY <1>0
<1>27. CASE RefuseCall
  BY <1>26, <1>27, ToolingFalls DEF RefuseCall, AnswerCall, Tooling
<1>28. CASE BeginCall
  BY <1>28, ToolingFalls DEF BeginCall, Tooling
<1>29. CASE Execute
  <2>1. parts' < parts
    BY <1>0, <1>29 DEF Execute
  <2>2. QED
    BY <1>29, <2>1, ToolingFalls DEF Execute, Tooling
<1>30. CASE EndCall
  <2>1. pending # <<>>
    BY <1>30 DEF EndCall, LoopInv, TypeInv, ControlInv
  <2>2. QED
    BY <1>26, <1>30, <2>1, ToolingFalls DEF EndCall, AnswerCall, Tooling
<1>31. CASE EndTools
  BY <1>3, <1>31 DEF EndTools
<1>32. QED
  BY <1>4, <1>5, <1>6, <1>7, <1>8, <1>9, <1>10, <1>11, <1>12, <1>13, <1>16, <1>17, <1>18,
     <1>19, <1>20, <1>21, <1>22, <1>23, <1>24, <1>25, <1>27, <1>28, <1>29, <1>30, <1>31
     DEF Next, ProviderStep, LoopStep

\* The numbers are natural, so that they cannot fall for ever.
LEMMA RankNat == LoopInv => RankIsNat
<1> SUFFICES ASSUME LoopInv, NEW k \in 1..7 PROVE Rank[k] \in Nat
  BY DEF RankIsNat
<1>1. /\ turn \in 0..MAX_TURNS /\ MAX_TURNS \in Nat /\ attempt \in Nat
      /\ attempt < MAX_LLM_STREAM_RETRIES /\ MAX_LLM_STREAM_RETRIES \in Nat
      /\ stream_restarts \in Nat /\ parts \in Nat /\ pending \in Seq(CallType)
      /\ MaxCalls \in Nat
      /\ pc \in {"turn", "connecting", "refresh", "backoff", "stream", "restart", "answered",
                 "tools", "execute", "done"}
  <2>1. LoopTypeOK
    BY DEF LoopInv, TypeInv
  <2>2. /\ turn \in 0..MAX_TURNS /\ (turn = MAX_TURNS => pc \in {"turn", "done"})
        /\ pc \in {"turn", "connecting", "refresh", "backoff", "stream", "restart", "answered",
                   "tools", "execute", "done"}
        /\ attempt \in 0..(MAX_LLM_STREAM_RETRIES - 1) /\ stream_restarts \in 0..STREAM_RESTARTS
        /\ parts \in 0..2 /\ pending \in Seq(CallType)
    BY <2>1, Zenon DEF LoopTypeOK
  <2>3. /\ MAX_TURNS \in Nat /\ STREAM_RESTARTS \in Nat /\ MaxCalls \in Nat
        /\ MAX_LLM_STREAM_RETRIES \in Nat \ {0}
    BY LoopAssumption
  <2>4. QED
    BY <2>2, <2>3
<1>11. Len(buf.calls) \in Nat
  <2>1. buf \in Buf
    BY DEF LoopInv, TypeInv, LoopTypeOK, Buf
  <2>2. buf.calls \in Seq(CallType)
    BY <2>1 DEF Buf
  <2>3. QED
    BY <2>2
<1>12. TextLeft \in Nat /\ ThinkLeft \in Nat /\ CallsLeft \in Nat
  BY <1>1, <1>11 DEF TextLeft, ThinkLeft, CallsLeft
<1>13. StreamLeft \in Nat /\ TurnToCall \in Nat
  BY <1>12 DEF StreamLeft, ChunksLeft, TurnToCall
<1>2. /\ TurnsLeft \in Nat /\ StopsLeft \in Nat /\ RetriesLeft \in Nat /\ Position \in Nat
      /\ Len(pending) \in Nat
  BY <1>1 DEF TurnsLeft, StopsLeft, RetriesLeft, Position
<1>3. Stage \in Nat
  BY <1>1, StageIs DEF Asking, Tooling
<1>4. \A x1, x2, x3, x4, x5, x6, x7 \in Nat : <<x1, x2, x3, x4, x5, x6, x7>>[k] \in Nat
  OBVIOUS
<1>5. \E x1, x2, x3, x4, x5, x6, x7 \in Nat : Rank = <<x1, x2, x3, x4, x5, x6, x7>>
  <2>1. CASE pc \in Asking
    <3>1. Rank = <<TurnsLeft, Stage, stream_restarts, RetriesLeft, Position, StreamLeft, StopsLeft>>
      BY <2>1, RankIs
    <3>2. QED
      BY <1>1, <1>2, <1>3, <1>13, <3>1
  <2>2. CASE pc \in Tooling /\ pc \notin Asking
    <3>1. Rank = <<TurnsLeft, Stage, Len(pending), TurnToCall, parts, 0, StopsLeft>>
      BY <2>2, RankIs
    <3>2. QED
      BY <1>1, <1>2, <1>3, <1>13, <3>1
  <2>3. CASE pc \notin Tooling /\ pc \notin Asking
    <3>1. Rank = <<TurnsLeft, Stage, 0, 0, 0, 0, StopsLeft>>
      BY <2>3, RankIs
    <3>2. QED
      BY <1>2, <1>3, <3>1
  <2>4. QED
    BY <2>1, <2>2, <2>3
<1>6. QED
  BY <1>4, <1>5

\* Whatever the model, the provider and the user do, every step of a loop brings
\* it nearer its end: no sequence of retries, restarts, cut-off tags, refused
\* calls and chunks comes back to where it was.
THEOREM LoopAdvances == Spec => []RankIsNat /\ [][Below(Rank', Rank)]_vars
<1>1. LoopInv /\ [Next]_vars => [Below(Rank', Rank)]_vars
  BY StepFalls
<1>2. QED
  BY <1>1, RankNat, LoopCorrect, PTL DEF Spec

=============================================================================
