--------------------------- MODULE EditHistoryProofs ---------------------------
(***************************************************************************)
(* Proofs about EditHistory, for any files and any number of operations,   *)
(* crashes and prunings.  Three observations carry them: the history only  *)
(* grows above what is being pruned, the checkpoint of an operation under  *)
(* way lies above it, and the first checkpoint of a session stays the      *)
(* first until its file is pruned.                                         *)
(***************************************************************************)
EXTENDS EditHistory, TLAPS

-----------------------------------------------------------------------------
(* Types.                                                                  *)

Chk == [file : Files, session : {"run", "none"}, existed : BOOLEAN, content : Nat,
        listed : BOOLEAN]
Op == [pc : {"idle", "pick", "check", "snapshot", "meta", "recheck", "apply"},
       kind : {"none", "write", "delete", "revert", "restore"},
       file : Files \cup {"none"}, new : Nat, expected : Nat, found : Nat,
       chk : Nat, since : Nat, todo : SUBSET Nat, done : SUBSET Files]

ETypeOK ==
  /\ disk \in [Files -> Nat] /\ ops \in Nat
  /\ chks \in Seq(Chk) /\ op \in [Actors -> Op]
  /\ pruning \in [upto : Nat, at : Nat] /\ faults \in Nat
  /\ window \in [Files -> SUBSET Nat] /\ pruned \subseteq Files
  /\ raced \subseteq Files

-----------------------------------------------------------------------------
(* The invariant.                                                          *)

\* The checkpoint of operation o of actor a is the copy of what o found.
Own(a, o, c) ==
  /\ o.chk \in (o.since + 1) .. Len(c)
  /\ c[o.chk].file = o.file /\ c[o.chk].session = Session(a)
  /\ c[o.chk].content = o.found

\* What holds of operation o of actor a, with history c of which the first u
\* checkpoints are being pruned.
OpOK(a, o, c, u) ==
  /\ o.pc \notin {"idle", "pick"} => o.file \in Files
  /\ o.pc # "idle" => o.since <= Len(c) /\ u <= o.since
  /\ a = "agent" /\ o.pc # "idle" => o.kind = "write" /\ o.pc # "pick"
  /\ o.pc = "meta" => Own(a, o, c) /\ (c[o.chk].existed <=> o.found # Absent)
  /\ o.pc = "recheck" => /\ Own(a, o, c) /\ c[o.chk].listed
                         /\ o.kind = "write" /\ o.found = Absent
  /\ o.pc = "apply" /\ (o.kind = "write" \/ o.found # Absent) =>
       Own(a, o, c) /\ c[o.chk].listed

\* History d has all of c, and above u it is as good as c.
Grown(c, d, u) ==
  /\ Len(c) <= Len(d)
  /\ \A i \in 1..Len(c) :
       /\ d[i].file = c[i].file /\ d[i].session = c[i].session /\ d[i].existed = c[i].existed
       /\ i > u => d[i].content = c[i].content /\ (c[i].listed => d[i].listed)

\* The listed checkpoints of the session, and the first of them for its file.
Sess(c) == {i \in 1..Len(c) : c[i].listed /\ c[i].session = "run"}
First(c, i) == i \in Sess(c) /\ \A j \in Sess(c) : c[j].file = c[i].file => i <= j

\* What is pruned is old, and its file is known.
PruneInv ==
  /\ pruning.at <= pruning.upto /\ pruning.upto <= Len(chks)
  /\ pruning.at # 0 /\ chks[pruning.at].session = "run" => chks[pruning.at].file \in pruned

\* The first checkpoint of the session for f is from the window of its first
\* operation on f; so is the one that may become it.
WindowInv ==
  /\ \A f \in Files \ pruned :
       /\ Touched(f) => \E i \in Sess(chks) :
            First(chks, i) /\ chks[i].file = f /\ chks[i].content \in window[f]
       /\ At("agent", "meta") /\ op["agent"].file = f /\ ~Touched(f) =>
            op["agent"].found \in window[f]
  /\ At("agent", "meta") => \A j \in Sess(chks) : j < op["agent"].chk

\* What operation o of the history commands still has to put back.
ToPutBack(o) == IF o.pc = "pick" THEN o.todo ELSE o.todo \cup {o.expected}
RevertOK(o, c, p) ==
  o.pc # "idle" =>
    /\ ToPutBack(o) \subseteq 1..Len(c)
    /\ o.pc # "pick" => o.file = c[o.expected].file
    /\ o.kind = "revert" => \A i \in ToPutBack(o) : c[i].file \in p \/ First(c, i)

EInv ==
  /\ ETypeOK /\ PruneInv /\ WindowInv
  /\ \A a \in Actors : OpOK(a, op[a], chks, pruning.upto)
  /\ RevertOK(op["history"], chks, pruned)

-----------------------------------------------------------------------------
(* The history grows.                                                      *)

\* A checkpoint.
LEMMA ChkIs ==
  ASSUME NEW c \in Seq(Chk), NEW i \in 1..Len(c)
  PROVE  /\ c[i] \in Chk /\ c[i].file \in Files /\ c[i].session \in {"run", "none"}
         /\ c[i].existed \in BOOLEAN /\ c[i].content \in Nat /\ c[i].listed \in BOOLEAN
<1>1. c[i] \in Chk
  OBVIOUS
<1>2. QED
  BY <1>1 DEF Chk

\* The fields of an operation.
LEMMA OpIs ==
  ASSUME NEW o \in Op
  PROVE  /\ o.pc \in {"idle", "pick", "check", "snapshot", "meta", "recheck", "apply"}
         /\ o.kind \in {"none", "write", "delete", "revert", "restore"}
         /\ o.file \in Files \cup {"none"} /\ o.new \in Nat /\ o.expected \in Nat
         /\ o.found \in Nat /\ o.chk \in Nat /\ o.since \in Nat
         /\ o.todo \subseteq Nat /\ o.done \subseteq Files
BY DEF Op

\* An operation under way does not mind that the history grows.
LEMMA GrowthKeepsOp ==
  ASSUME NEW c \in Seq(Chk), NEW d \in Seq(Chk), NEW u \in Nat, Grown(c, d, u),
         NEW a \in Actors, NEW o \in Op, OpOK(a, o, c, u)
  PROVE  OpOK(a, o, d, u)
<1>1. o.since \in Nat /\ o.chk \in Nat /\ Len(c) \in Nat /\ Len(d) \in Nat /\ Len(c) <= Len(d)
  BY OpIs DEF Grown
<1>2. ASSUME Own(a, o, c), u <= o.since
      PROVE  /\ Own(a, o, d) /\ d[o.chk].existed = c[o.chk].existed
             /\ c[o.chk].listed => d[o.chk].listed
  <2>1. o.chk \in 1..Len(c) /\ o.chk > u /\ o.chk \in (o.since + 1) .. Len(d)
    BY <1>1, <1>2 DEF Own
  <2>2. QED
    BY <1>2, <2>1 DEF Own, Grown
<1>3. o.pc # "idle" => u <= o.since
  BY DEF OpOK
<1>4. o.pc = "meta" => Own(a, o, d) /\ (d[o.chk].existed <=> o.found # Absent)
  BY <1>2, <1>3 DEF OpOK
<1>5. o.pc = "recheck" => Own(a, o, d) /\ d[o.chk].listed
  BY <1>2, <1>3 DEF OpOK
<1>6. o.pc = "apply" /\ (o.kind = "write" \/ o.found # Absent) =>
        Own(a, o, d) /\ d[o.chk].listed
  BY <1>2, <1>3 DEF OpOK
<1>7. o.pc # "idle" => o.since <= Len(d)
  BY <1>1 DEF OpOK
<1>8. QED
  BY <1>3, <1>4, <1>5, <1>6, <1>7 DEF OpOK

\* The four ways the history changes.
LEMMA AppendGrows ==
  ASSUME NEW c \in Seq(Chk), NEW x \in Chk, NEW u
  PROVE  /\ Append(c, x) \in Seq(Chk) /\ Len(Append(c, x)) = Len(c) + 1
         /\ Append(c, x)[Len(c) + 1] = x /\ \A i \in 1..Len(c) : Append(c, x)[i] = c[i]
         /\ Grown(c, Append(c, x), u)
BY DEF Grown

LEMMA ListingGrows ==
  ASSUME NEW c \in Seq(Chk), NEW k \in 1..Len(c), NEW u
  PROVE  LET d == [c EXCEPT ![k].listed = TRUE]
         IN  /\ d \in Seq(Chk) /\ Len(d) = Len(c) /\ \A i \in 1..Len(c) \ {k} : d[i] = c[i]
             /\ d[k].listed /\ d[k].content = c[k].content
             /\ Grown(c, d, u)
<1> DEFINE x == [c[k] EXCEPT !.listed = TRUE]
           d == [c EXCEPT ![k] = x]
<1>1. /\ x \in Chk /\ x.listed /\ x.file = c[k].file /\ x.session = c[k].session
      /\ x.existed = c[k].existed /\ x.content = c[k].content
  BY ChkIs DEF Chk
<1> HIDE DEF x
<1>2. d \in Seq(Chk) /\ Len(d) = Len(c) /\ d[k] = x /\ \A i \in 1..Len(c) \ {k} : d[i] = c[i]
  BY <1>1
<1>3. Grown(c, d, u)
  BY <1>1, <1>2 DEF Grown
<1>4. QED
  BY <1>1, <1>2, <1>3 DEF x

LEMMA PruningGrows ==
  ASSUME NEW c \in Seq(Chk), NEW k \in 1..Len(c), NEW u \in Nat, k <= u,
         NEW d, \/ d = [c EXCEPT ![k].content = Absent]
                \/ d = [c EXCEPT ![k].listed = FALSE]
  PROVE  /\ d \in Seq(Chk) /\ Len(d) = Len(c) /\ \A i \in 1..Len(c) \ {k} : d[i] = c[i]
         /\ d[k].listed => c[k].listed
         /\ Grown(c, d, u)
<1>1. PICK x \in {[c[k] EXCEPT !.content = Absent], [c[k] EXCEPT !.listed = FALSE]} :
        d = [c EXCEPT ![k] = x]
  OBVIOUS
<1>2. /\ x \in Chk /\ x.file = c[k].file /\ x.session = c[k].session
      /\ x.existed = c[k].existed /\ (x.listed => c[k].listed)
  <2>1. c[k] \in Chk
    BY ChkIs
  <2>2. CASE x = [c[k] EXCEPT !.content = Absent]
    BY <2>1, <2>2 DEF Chk, Absent
  <2>3. CASE x = [c[k] EXCEPT !.listed = FALSE]
    BY <2>1, <2>3 DEF Chk
  <2>4. QED
    BY <1>1, <2>2, <2>3
<1>3. d \in Seq(Chk) /\ Len(d) = Len(c) /\ d[k] = x /\ \A i \in 1..Len(c) \ {k} : d[i] = c[i]
  BY <1>1, <1>2
<1>4. Grown(c, d, u)
  BY <1>2, <1>3 DEF Grown
<1>5. QED
  BY <1>2, <1>3, <1>4

-----------------------------------------------------------------------------
(* What a step leaves of the session's checkpoints.                        *)

\* Above what is pruned they stay, and new ones are the latest.
SessKept(c, d, p) ==
  /\ Len(c) <= Len(d) /\ \A i \in 1..Len(c) : d[i].file = c[i].file
  /\ \A i \in Sess(c) : c[i].file \in p \/ (i \in Sess(d) /\ d[i].content = c[i].content)
  /\ \A k \in Sess(d) \ Sess(c), j \in Sess(c) : j < k

\* Only the agent lists one, and only the one it has taken.
AgentLists ==
  /\ At("agent", "meta") /\ Sess(chks') = Sess(chks) \cup {op["agent"].chk}
  /\ ~At("agent", "meta")'
NothingListed ==
  /\ Sess(chks') \subseteq Sess(chks)
  /\ At("agent", "meta")' =>
       \/ op'["agent"] = op["agent"]
       \/ /\ op'["agent"].chk = Len(chks) + 1 /\ op'["agent"].file \in Files
          /\ op'["agent"].found = disk'[op'["agent"].file]

Facts == /\ Grown(chks, chks', pruning.upto) /\ SessKept(chks, chks', pruned')
         /\ AgentLists \/ NothingListed

\* EInv without the window.
Core ==
  /\ chks \in Seq(Chk) /\ op \in [Actors -> Op] /\ pruning \in [upto : Nat, at : Nat]
  /\ pruned \subseteq Files /\ PruneInv
  /\ \A a \in Actors : OpOK(a, op[a], chks, pruning.upto)
  /\ RevertOK(op["history"], chks, pruned)

LEMMA CoreHolds == EInv => Core
BY DEF EInv, ETypeOK, Core

\* A history that did not change.
LEMMA SameHistory ==
  ASSUME NEW c \in Seq(Chk), NEW u, NEW p
  PROVE  Grown(c, c, u) /\ SessKept(c, c, p)
BY DEF Grown, SessKept, Sess

\* The first checkpoint of a file stays the first, until the file is pruned.
LEMMA FirstStays ==
  ASSUME NEW c \in Seq(Chk), NEW d \in Seq(Chk), NEW p, SessKept(c, d, p),
         NEW i \in 1..Len(c), First(c, i), c[i].file \notin p
  PROVE  First(d, i) /\ d[i].file = c[i].file /\ d[i].content = c[i].content
<1>1. i \in Sess(c) /\ i \in Sess(d) /\ d[i].file = c[i].file /\ d[i].content = c[i].content
  BY DEF SessKept, First
<1>2. ASSUME NEW j \in Sess(d), d[j].file = d[i].file PROVE i <= j
  <2>1. CASE j \in Sess(c)
    <3>1. j \in 1..Len(c) /\ c[j].file = c[i].file
      BY <1>1, <1>2, <2>1 DEF SessKept, Sess
    <3>2. QED
      BY <2>1, <3>1 DEF First
  <2>2. CASE j \notin Sess(c)
    <3>1. i < j /\ j \in Nat
      BY <1>1, <1>2, <2>2 DEF SessKept, Sess
    <3>2. QED
      BY <3>1
  <2>3. QED
    BY <2>1, <2>2
<1>3. QED
  BY <1>1, <1>2 DEF First

\* A revert under way does not mind what happens to the history.
LEMMA RevertStays ==
  ASSUME NEW c \in Seq(Chk), NEW d \in Seq(Chk), NEW p, NEW q, p \subseteq q,
         SessKept(c, d, q), NEW o, RevertOK(o, c, p)
  PROVE  RevertOK(o, d, q)
<1> SUFFICES ASSUME o.pc # "idle" PROVE RevertOK(o, d, q)
  BY DEF RevertOK
<1>1. /\ ToPutBack(o) \subseteq 1..Len(c) /\ Len(c) <= Len(d) /\ Len(c) \in Nat /\ Len(d) \in Nat
      /\ \A i \in 1..Len(c) : d[i].file = c[i].file
  BY DEF RevertOK, SessKept
<1>2. ToPutBack(o) \subseteq 1..Len(d)
  BY <1>1
<1>3. ASSUME o.pc # "pick" PROVE o.file = d[o.expected].file
  <2>1. o.expected \in 1..Len(c)
    BY <1>1, <1>3 DEF ToPutBack
  <2>2. QED
    BY <1>1, <1>3, <2>1 DEF RevertOK
<1>4. ASSUME o.kind = "revert", NEW i \in ToPutBack(o) PROVE d[i].file \in q \/ First(d, i)
  <2>1. i \in 1..Len(c) /\ (c[i].file \in p \/ First(c, i))
    BY <1>1, <1>4 DEF RevertOK
  <2>2. QED
    BY <1>1, <2>1, FirstStays
<1>5. QED
  BY <1>2, <1>3, <1>4 DEF RevertOK

-----------------------------------------------------------------------------
(* The steps, but for the window.                                          *)

\* One actor goes on, and the history stays as it is or gets its checkpoint.
LEMMA OneMoves ==
  ASSUME Core, NEW a \in Actors, NEW o \in Op, op' = [op EXCEPT ![a] = o],
         UNCHANGED <<pruning, pruned>>, chks' \in Seq(Chk),
         Grown(chks, chks', pruning.upto), SessKept(chks, chks', pruned'),
         OpOK(a, o, chks', pruning.upto), a = "history" => RevertOK(o, chks', pruned)
  PROVE  Core'
<1>1. op' \in [Actors -> Op] /\ op'[a] = o /\ \A b \in Actors \ {a} : op'[b] = op[b]
  BY DEF Core
<1>2. /\ chks \in Seq(Chk) /\ pruning \in [upto : Nat, at : Nat] /\ pruning.upto \in Nat
      /\ pruning.at \in Nat /\ Len(chks) \in Nat /\ Len(chks') \in Nat
  BY DEF Core
<1>3. ASSUME NEW b \in Actors PROVE OpOK(b, op'[b], chks', pruning.upto)
  <2>1. CASE b = a
    BY <1>1, <2>1
  <2>2. CASE b # a
    <3>1. op[b] \in Op /\ OpOK(b, op[b], chks, pruning.upto) /\ op'[b] = op[b]
      BY <1>1, <2>2 DEF Core
    <3>2. QED
      BY <1>2, <3>1, GrowthKeepsOp
  <2>3. QED
    BY <2>1, <2>2
<1>4. RevertOK(op'["history"], chks', pruned)
  <2>1. CASE a = "history"
    BY <1>1, <2>1
  <2>2. CASE a # "history"
    <3>1. op'["history"] = op["history"] /\ RevertOK(op["history"], chks, pruned)
      BY <1>1, <2>2 DEF Core, Actors
    <3>2. QED
      BY <1>2, <3>1, RevertStays
  <2>3. QED
    BY <2>1, <2>2
<1>5. PruneInv'
  <2>1. pruning.at <= pruning.upto /\ pruning.upto <= Len(chks) /\ Len(chks) <= Len(chks')
    BY DEF Core, PruneInv, Grown
  <2>2. ASSUME pruning.at # 0
        PROVE  chks'[pruning.at].session = chks[pruning.at].session
               /\ chks'[pruning.at].file = chks[pruning.at].file
    <3>1. pruning.at \in 1..Len(chks)
      BY <1>2, <2>1, <2>2
    <3>2. QED
      BY <3>1 DEF Grown
  <2>3. QED
    BY <1>2, <2>1, <2>2 DEF Core, PruneInv
<1>6. QED
  BY <1>1, <1>3, <1>4, <1>5 DEF Core

\* One actor goes on and the history does not change.
LEMMA OneMovesQuietly ==
  ASSUME Core, NEW a \in Actors, NEW o \in Op, op' = [op EXCEPT ![a] = o],
         UNCHANGED <<chks, pruning, pruned>>, o.pc # "meta",
         OpOK(a, o, chks, pruning.upto), a = "history" => RevertOK(o, chks, pruned)
  PROVE  Core' /\ Facts
<1>1. chks \in Seq(Chk) /\ op \in [Actors -> Op]
  BY DEF Core
<1>2. Grown(chks, chks', pruning.upto) /\ SessKept(chks, chks', pruned')
  BY <1>1, SameHistory
<1>3. Core'
  BY <1>1, <1>2, OneMoves
<1>4. NothingListed
  <2>1. At("agent", "meta")' => op'["agent"] = op["agent"]
    BY <1>1 DEF At, Actors
  <2>2. QED
    BY <2>1 DEF NothingListed
<1>5. QED
  BY <1>2, <1>3, <1>4 DEF Facts

\* An operation that ends leaves nothing behind, and a revert goes on.
LEMMA EndedOK ==
  ASSUME Core, NEW a \in Actors, op[a].pc \notin {"idle", "pick"}
  PROVE  /\ Ended(a) \in Op /\ Ended(a).pc # "meta" /\ OpOK(a, Ended(a), chks, pruning.upto)
         /\ a = "history" => RevertOK(Ended(a), chks, pruned)
<1> DEFINE o == op[a]
<1>1. o \in Op /\ OpOK(a, o, chks, pruning.upto)
  BY DEF Core
<1>2. CASE a # "history"
  <2>1. Ended(a) = Idle
    BY <1>2 DEF Ended
  <2>2. Idle \in Op /\ Idle.pc = "idle"
    BY DEF Idle, Op, Absent
  <2>3. QED
    BY <1>2, <2>1, <2>2 DEF OpOK
<1>3. CASE a = "history"
  <2> DEFINE n == [o EXCEPT !.pc = "pick", !.chk = 0]
  <2>1. Ended(a) = n
    BY <1>3 DEF Ended
  <2>2. /\ n \in Op /\ n.pc = "pick" /\ n.since = o.since /\ n.todo = o.todo
        /\ n.kind = o.kind
    BY <1>1 DEF Op
  <2> HIDE DEF n
  <2>3. OpOK(a, n, chks, pruning.upto)
    BY <1>1, <1>3, <2>2 DEF OpOK
  <2>4. RevertOK(o, chks, pruned)
    BY <1>3 DEF Core
  <2>5. ToPutBack(n) \subseteq ToPutBack(o)
    BY <2>2 DEF ToPutBack
  <2>6. RevertOK(n, chks, pruned)
    BY <2>2, <2>4, <2>5 DEF RevertOK
  <2>7. QED
    BY <2>1, <2>2, <2>3, <2>6
<1>4. QED
  BY <1>2, <1>3

\* An operation that begins.
LEMMA BeginOK ==
  ASSUME Core, NEW a \in Actors, NEW o \in Op, o.since = Len(chks),
         o.pc \in {"snapshot", "check", "pick"}, o.pc # "pick" => o.file \in Files,
         a = "agent" => o.kind = "write" /\ o.pc # "pick"
  PROVE  OpOK(a, o, chks, pruning.upto)
BY DEF Core, OpOK, PruneInv

LEMMA IdleIsOp == Idle \in Op
<1>1. 0 \in Nat /\ Absent \in Nat /\ {} \in SUBSET Nat /\ {} \in SUBSET Files
  BY DEF Absent
<1>2. QED
  BY <1>1 DEF Idle, Op

\* An operation that has taken its checkpoint.
ToMeta(o, m, x) == [o EXCEPT !.pc = "meta", !.chk = m, !.found = x]
InMeta(n, o, m, x) ==
  /\ n \in Op /\ n.pc = "meta" /\ n.chk = m /\ n.found = x /\ n.file = o.file
  /\ n.since = o.since /\ n.kind = o.kind /\ n.todo = o.todo /\ n.expected = o.expected

LEMMA MetaOf ==
  ASSUME NEW o \in Op, NEW m \in Nat, NEW x \in Nat
  PROVE  InMeta(ToMeta(o, m, x), o, m, x)
<1> DEFINE n == ToMeta(o, m, x)
<1>1. n \in Op
  BY DEF Op, ToMeta
<1>2. n.pc = "meta" /\ n.chk = m /\ n.found = x
  BY DEF Op, ToMeta
<1>3. n.file = o.file /\ n.since = o.since /\ n.kind = o.kind /\ n.todo = o.todo
      /\ n.expected = o.expected
  BY DEF Op, ToMeta
<1> HIDE DEF n
<1>4. InMeta(n, o, m, x)
  BY <1>1, <1>2, <1>3 DEF InMeta
<1>5. QED
  BY <1>4 DEF n

\* A checkpoint is taken.
LEMMA TakeSteps ==
  ASSUME Core, NEW a \in Actors, NEW x \in Nat, Take(a, x),
         UNCHANGED <<pruning, pruned, disk>>, x = disk[op[a].file],
         op[a].pc \in {"snapshot", "recheck"}
  PROVE  Core' /\ Facts
<1> DEFINE o == op[a]
           k == Checkpoint(o.file, Session(a), x)
           n == [o EXCEPT !.pc = "meta", !.chk = Len(chks) + 1, !.found = x]
<1>1. /\ o \in Op /\ OpOK(a, o, chks, pruning.upto) /\ chks \in Seq(Chk) /\ Len(chks) \in Nat
      /\ op \in [Actors -> Op]
  BY DEF Core
<1>2. o.file \in Files /\ o.since <= Len(chks) /\ pruning.upto <= o.since /\ o.since \in Nat
  BY <1>1 DEF OpOK, Op
<1>3. /\ k \in Chk /\ k.file = o.file /\ k.session = Session(a) /\ k.content = x
      /\ k.existed = (x # Absent) /\ ~k.listed
  BY <1>2 DEF Checkpoint, Chk, Session
<1>4. /\ n \in Op /\ n.pc = "meta" /\ n.chk = Len(chks) + 1 /\ n.found = x /\ n.file = o.file
      /\ n.since = o.since /\ n.kind = o.kind /\ n.todo = o.todo /\ n.expected = o.expected
  <2> DEFINE m == Len(chks) + 1
  <2>1. m \in Nat
    BY <1>1
  <2>2. o \in Op
    BY <1>1
  <2> HIDE DEF m, o
  <2>3. InMeta(ToMeta(o, m, x), o, m, x)
    BY <2>1, <2>2, MetaOf
  <2>4. n = ToMeta(o, m, x)
    BY DEF ToMeta, m, o
  <2> HIDE DEF n
  <2>5. QED
    BY <2>3, <2>4 DEF InMeta, m
<1>5. chks' = Append(chks, k) /\ op' = [op EXCEPT ![a] = n]
  BY DEF Take, Set
<1> HIDE DEF k, n
<1>6. /\ chks' \in Seq(Chk) /\ Len(chks') = Len(chks) + 1 /\ chks'[Len(chks) + 1] = k
      /\ \A i \in 1..Len(chks) : chks'[i] = chks[i]
      /\ Grown(chks, chks', pruning.upto)
  BY <1>1, <1>3, <1>5, AppendGrows
<1>7. Sess(chks') = Sess(chks)
  <2>1. ASSUME NEW i PROVE i \in Sess(chks') <=> i \in Sess(chks)
    <3>1. CASE i \in 1..Len(chks)
      BY <1>1, <1>6, <3>1 DEF Sess
    <3>2. CASE i = Len(chks) + 1
      BY <1>1, <1>3, <1>6, <3>2 DEF Sess
    <3>3. CASE i \notin 1..(Len(chks) + 1)
      BY <1>1, <1>6, <3>3 DEF Sess
    <3>4. QED
      BY <1>1, <3>1, <3>2, <3>3
  <2>2. QED
    BY <2>1
<1>8. SessKept(chks, chks', pruned')
  BY <1>1, <1>6, <1>7 DEF SessKept, Sess
<1>9. OpOK(a, n, chks', pruning.upto)
  <2>1. Own(a, n, chks')
    BY <1>1, <1>2, <1>3, <1>4, <1>6 DEF Own
  <2>2. chks'[n.chk].existed <=> n.found # Absent
    <3>1. chks'[n.chk] = k /\ n.found = x
      BY <1>4, <1>6
    <3>2. QED
      BY <1>3, <3>1
  <2>3. QED
    BY <1>1, <1>2, <1>4, <1>6, <2>1, <2>2 DEF OpOK
<1>10. ASSUME a = "history" PROVE RevertOK(n, chks', pruned)
  <2>1. RevertOK(o, chks, pruned)
    BY <1>10 DEF Core
  <2>2. RevertOK(o, chks', pruned)
    BY <1>1, <1>6, <1>8, <2>1, RevertStays
  <2>3. ToPutBack(n) = ToPutBack(o)
    BY <1>4 DEF ToPutBack
  <2>4. QED
    BY <1>4, <2>2, <2>3 DEF RevertOK
<1>11. Core'
  BY <1>1, <1>4, <1>5, <1>6, <1>8, <1>9, <1>10, OneMoves
<1>12. NothingListed
  <2>1. CASE a = "agent"
    BY <1>1, <1>2, <1>4, <1>5, <1>7, <2>1 DEF NothingListed
  <2>2. CASE a # "agent"
    <3>1. op'["agent"] = op["agent"]
      BY <1>1, <1>5, <2>2 DEF Actors
    <3>2. QED
      BY <1>7, <3>1 DEF NothingListed
  <2>3. QED
    BY <2>1, <2>2
<1>13. QED
  BY <1>6, <1>8, <1>11, <1>12 DEF Facts

\* A checkpoint is listed.
LEMMA MetadataSteps ==
  ASSUME EInv, NEW a \in Actors, Metadata(a)
  PROVE  Core' /\ Facts
<1> DEFINE o == op[a]
           k == o.chk
           u == pruning.upto
<1>0. Core /\ UNCHANGED <<pruning, pruned, disk>>
  BY CoreHolds DEF Metadata
<1>1. /\ o \in Op /\ OpOK(a, o, chks, u) /\ chks \in Seq(Chk) /\ Len(chks) \in Nat
      /\ op \in [Actors -> Op] /\ o.pc = "meta"
  BY <1>0 DEF Core, Metadata, At
<1>2. CASE Fail(a) /\ UNCHANGED chks
  BY <1>0, <1>1, <1>2, EndedOK, OneMovesQuietly DEF Fail, Set
<1>3. CASE /\ chks' = [chks EXCEPT ![k].listed = TRUE]
           /\ Goto(a, Prepared(a, chks[k]))
  <2> DEFINE s == Prepared(a, chks[k])
             n == [o EXCEPT !.pc = s]
  <2>1. Own(a, o, chks) /\ (chks[k].existed <=> o.found # Absent)
    BY <1>1 DEF OpOK
  <2>2. k \in 1..Len(chks) /\ k \in Nat /\ o.since \in Nat
    <3>1. o.since \in Nat /\ k \in (o.since + 1) .. Len(chks)
      BY <1>1, <2>1, OpIs DEF Own
    <3>2. QED
      BY <1>1, <3>1
  <2>3. s \in {"recheck", "apply"} /\ (s = "recheck" => o.kind = "write" /\ o.found = Absent)
    BY <2>1 DEF Prepared
  <2>4. /\ n \in Op /\ n.pc = s /\ n.chk = o.chk /\ n.file = o.file /\ n.found = o.found
        /\ n.since = o.since /\ n.kind = o.kind /\ n.todo = o.todo /\ n.expected = o.expected
    <3> HIDE DEF s
    <3>1. QED
      BY <1>1, <2>3 DEF Op
  <2>5. op' = [op EXCEPT ![a] = n]
    BY <1>3 DEF Goto, Set
  <2> HIDE DEF n
  <2>6. /\ chks' \in Seq(Chk) /\ Len(chks') = Len(chks) /\ chks'[k].listed
        /\ \A i \in 1..Len(chks) \ {k} : chks'[i] = chks[i]
        /\ chks'[k].content = chks[k].content
        /\ Grown(chks, chks', u)
    <3> DEFINE d == [chks EXCEPT ![k].listed = TRUE]
    <3>1. /\ d \in Seq(Chk) /\ Len(d) = Len(chks) /\ \A i \in 1..Len(chks) \ {k} : d[i] = chks[i]
          /\ d[k].listed /\ d[k].content = chks[k].content
          /\ Grown(chks, d, u)
      BY <1>1, <2>2, ListingGrows
    <3>2. chks' = d
      BY <1>3
    <3> HIDE DEF d
    <3>3. QED
      BY <3>1, <3>2
  <2>7. /\ chks'[k].session = chks[k].session
        /\ \A i \in 1..Len(chks) : chks'[i].file = chks[i].file
                                   /\ chks'[i].content = chks[i].content
    BY <2>2, <2>6 DEF Grown
  <2>8. Sess(chks') = IF a = "agent" THEN Sess(chks) \cup {k} ELSE Sess(chks)
    <3>1. chks[k].session = IF a = "agent" THEN "run" ELSE "none"
      BY <2>1 DEF Own, Session
    <3>2. ASSUME NEW i
          PROVE  i \in Sess(chks') <=> i \in Sess(chks) \/ (a = "agent" /\ i = k)
      <4>1. CASE i = k
        BY <2>2, <2>6, <2>7, <3>1, <4>1 DEF Sess
      <4>2. CASE i # k
        BY <1>1, <2>6, <4>2 DEF Sess
      <4>3. QED
        BY <4>1, <4>2
    <3>3. QED
      BY <3>2
  <2>9. SessKept(chks, chks', pruned')
    <3>1. \A i \in Sess(chks) : i \in Sess(chks') /\ i \in 1..Len(chks)
      BY <2>8 DEF Sess
    <3>2. ASSUME NEW i \in Sess(chks') \ Sess(chks), NEW j \in Sess(chks) PROVE j < i
      <4>1. a = "agent" /\ i = k
        BY <2>8, <3>2
      <4>2. QED
        BY <1>1, <3>2, <4>1 DEF EInv, WindowInv, At
    <3>3. QED
      BY <1>1, <2>6, <2>7, <3>1, <3>2 DEF SessKept
  <2>10. OpOK(a, n, chks', u)
    <3>1. OpOK(a, o, chks', u)
      BY <1>0, <1>1, <2>6, GrowthKeepsOp DEF Core
    <3>2. Own(a, o, chks')
      BY <1>1, <3>1 DEF OpOK
    <3>3. Own(a, n, chks') /\ chks'[n.chk].listed
      BY <2>4, <2>6, <3>2 DEF Own
    <3>4. QED
      BY <1>1, <2>3, <2>4, <3>1, <3>3 DEF OpOK
  <2>11. ASSUME a = "history" PROVE RevertOK(n, chks', pruned)
    <3>1. RevertOK(o, chks, pruned)
      BY <1>0, <2>11 DEF Core
    <3>2. RevertOK(o, chks', pruned)
      BY <1>0, <1>1, <2>6, <2>9, <3>1, RevertStays
    <3>3. ToPutBack(n) = ToPutBack(o)
      BY <1>1, <2>3, <2>4 DEF ToPutBack
    <3>4. QED
      BY <1>1, <2>3, <2>4, <3>2, <3>3 DEF RevertOK
  <2>12. Core'
    BY <1>0, <2>4, <2>5, <2>6, <2>9, <2>10, <2>11, OneMoves
  <2>13. AgentLists \/ NothingListed
    <3>1. CASE a = "agent"
      <4>1. op'["agent"].pc # "meta"
        BY <1>1, <2>3, <2>4, <2>5, <3>1
      <4>2. QED
        BY <1>1, <2>8, <3>1, <4>1 DEF AgentLists, At
    <3>2. CASE a # "agent"
      <4>1. op'["agent"] = op["agent"]
        BY <1>1, <2>5, <3>2 DEF Actors
      <4>2. QED
        BY <2>8, <3>2, <4>1 DEF NothingListed
    <3>3. QED
      BY <3>1, <3>2
  <2>14. QED
    BY <2>6, <2>9, <2>12, <2>13 DEF Facts
<1>4. QED
  BY <1>2, <1>3 DEF Metadata

\* The file is looked at, for the first time or again.
LEMMA LookSteps ==
  ASSUME EInv, NEW a \in Actors, Snapshot(a) \/ Recheck(a)
  PROVE  Core' /\ Facts
<1> DEFINE o == op[a]
<1>0. Core /\ UNCHANGED <<pruning, pruned, disk>>
  BY CoreHolds DEF Snapshot, Recheck
<1>1. /\ o \in Op /\ OpOK(a, o, chks, pruning.upto) /\ o.pc \in {"snapshot", "recheck"}
  BY <1>0 DEF Core, Snapshot, Recheck, At
<1>2. o.file \in Files /\ disk[o.file] \in Nat
  BY <1>1 DEF OpOK, EInv, ETypeOK
<1>3. CASE Take(a, disk[o.file])
  BY <1>0, <1>1, <1>2, <1>3, TakeSteps
<1>4. CASE Fail(a) /\ UNCHANGED chks
  BY <1>0, <1>1, <1>4, EndedOK, OneMovesQuietly DEF Fail, Set
<1>5. ASSUME NEW x \in Nat, UNCHANGED chks, op' = [op EXCEPT ![a] = [o EXCEPT !.pc = "apply", !.found = x]],
             OpOK(a, [o EXCEPT !.pc = "apply", !.found = x], chks, pruning.upto)
      PROVE  Core' /\ Facts
  <2> DEFINE n == [o EXCEPT !.pc = "apply", !.found = x]
  <2>1. /\ n \in Op /\ n.pc = "apply" /\ n.file = o.file /\ n.todo = o.todo
        /\ n.expected = o.expected /\ n.kind = o.kind
    BY <1>1, <1>5 DEF Op
  <2>2. op' = [op EXCEPT ![a] = n] /\ OpOK(a, n, chks, pruning.upto)
    BY <1>5
  <2> HIDE DEF n
  <2>3. ASSUME a = "history" PROVE RevertOK(n, chks, pruned)
    <3>1. RevertOK(o, chks, pruned)
      BY <1>0, <2>3 DEF Core
    <3>2. ToPutBack(n) = ToPutBack(o)
      BY <1>1, <2>1 DEF ToPutBack
    <3>3. QED
      BY <1>1, <2>1, <3>1, <3>2 DEF RevertOK
  <2>4. QED
    BY <1>0, <1>5, <2>1, <2>2, <2>3, OneMovesQuietly
<1>6. ASSUME NEW x \in Nat
      PROVE  LET n == [o EXCEPT !.pc = "apply", !.found = x]
             IN  /\ n.pc = "apply" /\ n.found = x /\ n.file = o.file /\ n.kind = o.kind
                 /\ n.chk = o.chk /\ n.since = o.since
  BY <1>1 DEF Op
<1>7. CASE /\ o.pc = "snapshot" /\ o.kind # "write" /\ UNCHANGED chks
           /\ Set(a, [o EXCEPT !.pc = "apply", !.found = Absent])
  <2> DEFINE n == [o EXCEPT !.pc = "apply", !.found = Absent]
  <2>1. /\ n.pc = "apply" /\ n.found = Absent /\ n.file = o.file /\ n.kind = o.kind
        /\ n.chk = o.chk /\ n.since = o.since
    BY <1>6 DEF Absent
  <2>2. op' = [op EXCEPT ![a] = n]
    BY <1>7 DEF Set
  <2> HIDE DEF n
  <2>3. OpOK(a, n, chks, pruning.upto)
    BY <1>1, <1>2, <1>7, <2>1 DEF OpOK
  <2>4. Absent \in Nat
    BY DEF Absent
  <2>5. QED
    BY <1>5, <1>7, <2>2, <2>3, <2>4 DEF n
<1>8. CASE o.pc = "recheck" /\ UNCHANGED chks /\ Goto(a, "apply")
  <2> DEFINE n == [o EXCEPT !.pc = "apply", !.found = Absent]
  <2>1. /\ n.pc = "apply" /\ n.found = Absent /\ n.file = o.file /\ n.kind = o.kind
        /\ n.chk = o.chk /\ n.since = o.since
    BY <1>6 DEF Absent
  <2>2. o.found = Absent /\ Own(a, o, chks) /\ chks[o.chk].listed
    BY <1>1, <1>8 DEF OpOK
  <2>3. [o EXCEPT !.pc = "apply"] = n
    BY <1>1, <2>2 DEF Op
  <2>4. op' = [op EXCEPT ![a] = n]
    BY <1>8, <2>3 DEF Goto, Set
  <2> HIDE DEF n
  <2>5. OpOK(a, n, chks, pruning.upto)
    <3>1. Own(a, n, chks)
      BY <2>1, <2>2 DEF Own
    <3>2. QED
      BY <1>1, <1>2, <1>8, <2>1, <2>2, <3>1 DEF OpOK
  <2>6. Absent \in Nat
    BY DEF Absent
  <2>7. QED
    BY <1>5, <1>8, <2>4, <2>5, <2>6 DEF n
<1>9. QED
  BY <1>3, <1>4, <1>7, <1>8 DEF Snapshot, Recheck, At

\* The file is replaced or removed, or left alone.
LEMMA ApplySteps ==
  ASSUME EInv, NEW a \in Actors, Replace(a) \/ Trash(a)
  PROVE  Core' /\ Facts
<1>0. Core /\ UNCHANGED <<chks, pruning, pruned>> /\ op' = [op EXCEPT ![a] = Ended(a)]
  BY CoreHolds DEF Replace, Trash, Set
<1>1. op[a].pc \notin {"idle", "pick"}
  BY DEF Replace, Trash, At
<1>2. QED
  BY <1>0, <1>1, EndedOK, OneMovesQuietly

\* An operation of the agent or the editor begins.
LEMMA WritersBegin ==
  ASSUME EInv, NEW f \in Files,
         \/ AgentWrites(f) \/ EditorDeletes(f)
         \/ \E e \in {Absent, disk[f]} : EditorSaves(f, e)
  PROVE  Core' /\ Facts
<1>0. Core /\ UNCHANGED <<chks, pruning, pruned>> /\ disk[f] \in Nat /\ Len(chks) \in Nat
      /\ Fresh \in Nat /\ Idle \in Op /\ Absent \in Nat
  <2>1. Core /\ UNCHANGED <<chks, pruning, pruned>>
    BY CoreHolds DEF AgentWrites, EditorDeletes, EditorSaves
  <2>2. disk[f] \in Nat /\ Len(chks) \in Nat /\ Fresh \in Nat /\ Absent \in Nat
    BY DEF EInv, ETypeOK, Fresh, Absent
  <2>3. Idle \in Op
    BY IdleIsOp
  <2>4. QED
    BY <2>1, <2>2, <2>3
<1>1. ASSUME NEW a \in {"agent", "editor"}, NEW n \in Op, op' = [op EXCEPT ![a] = n],
             n.pc \in {"snapshot", "check"}, a = "agent" => n.kind = "write",
             n.file = f, n.since = Len(chks)
      PROVE  Core' /\ Facts
  <2>1. OpOK(a, n, chks, pruning.upto)
    BY <1>0, <1>1, BeginOK DEF Actors
  <2>2. QED
    BY <1>0, <1>1, <2>1, OneMovesQuietly DEF Actors
<1>2. CASE AgentWrites(f)
  <2> DEFINE d == disk[f]
             l == Len(chks)
             x == Fresh
             n == [Idle EXCEPT !.pc = "snapshot", !.kind = "write", !.file = f,
                               !.new = x, !.found = d, !.since = l]
  <2>1. op' = [op EXCEPT !["agent"] = n]
    BY <1>2 DEF AgentWrites, Set
  <2>2. d \in Nat /\ l \in Nat /\ x \in Nat
    BY <1>0
  <2> HIDE DEF d, l, x
  <2>3. n \in Op /\ n.pc = "snapshot" /\ n.kind = "write" /\ n.file = f /\ n.since = l
    BY <1>0, <2>2 DEF Op, Idle
  <2> HIDE DEF n
  <2>4. QED
    BY <1>1, <2>1, <2>3 DEF l
<1>3. CASE EditorDeletes(f)
  <2> DEFINE d == disk[f]
             l == Len(chks)
             n == [Idle EXCEPT !.pc = "snapshot", !.kind = "delete", !.file = f,
                               !.found = d, !.since = l]
  <2>1. op' = [op EXCEPT !["editor"] = n]
    BY <1>3 DEF EditorDeletes, Set
  <2>2. d \in Nat /\ l \in Nat
    BY <1>0
  <2> HIDE DEF d, l
  <2>3. n \in Op /\ n.pc = "snapshot" /\ n.file = f /\ n.since = l
    BY <1>0, <2>2 DEF Op, Idle
  <2> HIDE DEF n
  <2>4. QED
    BY <1>1, <2>1, <2>3 DEF l
<1>4. ASSUME NEW e \in {Absent, disk[f]}, EditorSaves(f, e) PROVE Core' /\ Facts
  <2> DEFINE d == disk[f]
             l == Len(chks)
             x == Fresh
             n == [Idle EXCEPT !.pc = "check", !.kind = "write", !.file = f, !.new = x,
                               !.expected = e, !.found = d, !.since = l]
  <2>1. op' = [op EXCEPT !["editor"] = n]
    BY <1>4 DEF EditorSaves, Set
  <2>2. d \in Nat /\ l \in Nat /\ x \in Nat /\ e \in Nat
    BY <1>0
  <2> HIDE DEF d, l, x
  <2>3. n \in Op /\ n.pc = "check" /\ n.file = f /\ n.since = l
    BY <1>0, <2>2 DEF Op, Idle
  <2> HIDE DEF n
  <2>4. QED
    BY <1>1, <2>1, <2>3 DEF l
<1>5. QED
  BY <1>2, <1>3, <1>4

\* The precondition of a save.
LEMMA CheckSteps ==
  ASSUME EInv, CheckLoaded
  PROVE  Core' /\ Facts
<1> DEFINE o == op["editor"]
<1>0. Core /\ UNCHANGED <<chks, pruning, pruned>> /\ o.pc = "check" /\ "editor" \in Actors
  BY CoreHolds DEF CheckLoaded, At, Actors
<1>1. o \in Op /\ OpOK("editor", o, chks, pruning.upto)
  BY <1>0 DEF Core
<1>2. CASE Fail("editor")
  BY <1>0, <1>2, EndedOK, OneMovesQuietly DEF Fail, Set
<1>3. CASE Goto("editor", "snapshot")
  <2> DEFINE n == [o EXCEPT !.pc = "snapshot"]
  <2>1. n \in Op /\ n.pc = "snapshot" /\ n.file = o.file /\ n.since = o.since
    BY <1>1 DEF Op
  <2>2. op' = [op EXCEPT !["editor"] = n]
    BY <1>3 DEF Goto, Set
  <2> HIDE DEF n
  <2>3. OpOK("editor", n, chks, pruning.upto)
    BY <1>0, <1>1, <2>1 DEF OpOK
  <2>4. QED
    BY <1>0, <2>1, <2>2, <2>3, OneMovesQuietly
<1>4. QED
  BY <1>2, <1>3 DEF CheckLoaded

\* The history commands, up to the file they put back.
LEMMA HistorySteps ==
  ASSUME EInv,
         \/ Revert \/ RevertEnds \/ PutBack
         \/ \E i \in 1..Len(chks) : Restore(i) \/ NextFile(i)
  PROVE  Core' /\ Facts
<1> DEFINE h == "history"
           o == op[h]
<1>0. Core /\ UNCHANGED <<chks, pruning, pruned>> /\ h \in Actors
  BY CoreHolds DEF Revert, RevertEnds, PutBack, Restore, NextFile, Actors
<1>1. /\ o \in Op /\ OpOK(h, o, chks, pruning.upto) /\ RevertOK(o, chks, pruned)
      /\ chks \in Seq(Chk) /\ Len(chks) \in Nat /\ Idle \in Op /\ pruning.upto \in Nat
  BY <1>0 DEF Core, Idle, Op, Absent
<1>2. ASSUME NEW n \in Op, op' = [op EXCEPT ![h] = n], n.pc # "meta",
             OpOK(h, n, chks, pruning.upto), RevertOK(n, chks, pruned)
      PROVE  Core' /\ Facts
  BY <1>0, <1>2, OneMovesQuietly
<1>3. ASSUME NEW kind \in {"revert", "restore"}, NEW todo \in SUBSET (1..Len(chks)),
             kind = "revert" => \A i \in todo : First(chks, i),
             NEW len \in Nat, len = Len(chks),
             op' = [op EXCEPT ![h] = [Idle EXCEPT !.pc = "pick", !.kind = kind, !.since = len,
                                                  !.todo = todo]]
      PROVE  Core' /\ Facts
  <2> DEFINE n == [Idle EXCEPT !.pc = "pick", !.kind = kind, !.since = len, !.todo = todo]
  <2>1. n \in Op /\ n.pc = "pick" /\ n.kind = kind /\ n.since = len /\ n.todo = todo
    <3>1. todo \in SUBSET Nat
      BY <1>1, <1>3
    <3>2. Absent \in Nat
      BY DEF Absent
    <3>3. QED
      BY <3>1, <3>2 DEF Op, Idle
  <2>2. op' = [op EXCEPT ![h] = n]
    BY <1>3
  <2> HIDE DEF n
  <2>3. OpOK(h, n, chks, pruning.upto)
    BY <1>0, <1>3, <2>1, BeginOK
  <2>4. RevertOK(n, chks, pruned)
    BY <1>3, <2>1 DEF RevertOK, ToPutBack
  <2>5. QED
    BY <1>2, <2>1, <2>2, <2>3, <2>4
<1>4. CASE Revert
  <2>1. OfSession("run") = Sess(chks)
    BY DEF OfSession, Listed, Sess
  <2>2. \A i \in Earliest(OfSession("run")) : First(chks, i)
    BY <2>1 DEF Earliest, First
  <2>3. Earliest(OfSession("run")) \in SUBSET (1..Len(chks))
    BY <2>1 DEF Earliest, Sess
  <2>4. QED
    BY <1>1, <1>3, <1>4, <2>2, <2>3 DEF Revert, Set
<1>5. ASSUME NEW i \in 1..Len(chks), Restore(i) PROVE Core' /\ Facts
  BY <1>1, <1>3, <1>5 DEF Restore, Set
<1>6. CASE RevertEnds
  <2>1. Idle.pc = "idle"
    BY DEF Idle
  <2>2. OpOK(h, Idle, chks, pruning.upto) /\ RevertOK(Idle, chks, pruned)
    BY <2>1 DEF OpOK, RevertOK
  <2>3. QED
    BY <1>1, <1>2, <1>6, <2>1, <2>2 DEF RevertEnds, Set
<1>7. ASSUME NEW i \in 1..Len(chks), NextFile(i) PROVE Core' /\ Facts
  <2> DEFINE f == chks[i].file
             d == disk[f]
             n == [o EXCEPT !.pc = "snapshot", !.file = f, !.found = d,
                            !.expected = i, !.todo = o.todo \ {i}]
  <2>1. f \in Files /\ d \in Nat /\ i \in Nat
    BY <1>1, ChkIs DEF EInv, ETypeOK
  <2>2. o.pc = "pick" /\ i \in o.todo /\ op' = [op EXCEPT ![h] = n]
    BY <1>7 DEF NextFile, At, Set
  <2>3. /\ n \in Op /\ n.pc = "snapshot" /\ n.file = f /\ n.expected = i
        /\ n.todo = o.todo \ {i} /\ n.since = o.since /\ n.kind = o.kind
    <3> HIDE DEF f, d
    <3>1. QED
      BY <1>1, <2>1 DEF Op
  <2> HIDE DEF n
  <2>4. OpOK(h, n, chks, pruning.upto)
    BY <1>1, <2>1, <2>2, <2>3 DEF OpOK
  <2>5. ToPutBack(n) = ToPutBack(o)
    BY <2>2, <2>3 DEF ToPutBack
  <2>6. RevertOK(n, chks, pruned)
    BY <1>1, <2>2, <2>3, <2>5 DEF RevertOK
  <2>7. QED
    BY <1>2, <2>2, <2>3, <2>4, <2>6
<1>8. CASE PutBack
  <2>0. o.pc = "apply"
    BY <1>8 DEF PutBack, At
  <2>1. /\ Ended(h) \in Op /\ Ended(h).pc # "meta" /\ OpOK(h, Ended(h), chks, pruning.upto)
        /\ RevertOK(Ended(h), chks, pruned)
    BY <1>0, <2>0, EndedOK
  <2>2. CASE Fail(h)
    BY <1>2, <2>1, <2>2 DEF Fail, Set
  <2>3. CASE Set(h, [Ended(h) EXCEPT !.done = @ \cup {o.file}])
    <3> DEFINE e == Ended(h)
               n == [e EXCEPT !.done = e.done \cup {o.file}]
    <3>1. o.file \in Files
      BY <1>1, <2>0 DEF OpOK
    <3>2. op' = [op EXCEPT ![h] = n]
      BY <2>3 DEF Set
    <3> HIDE DEF e
    <3>3. /\ n \in Op /\ n.pc = e.pc /\ n.file = e.file /\ n.todo = e.todo /\ n.kind = e.kind
          /\ n.expected = e.expected /\ n.since = e.since /\ n.chk = e.chk /\ n.found = e.found
      BY <2>1, <3>1 DEF Op, e
    <3> HIDE DEF n
    <3>4. OpOK(h, n, chks, pruning.upto)
      BY <2>1, <3>3 DEF OpOK, Own, e
    <3>5. RevertOK(n, chks, pruned)
      BY <2>1, <3>3 DEF RevertOK, ToPutBack, e
    <3>6. QED
      BY <1>2, <2>1, <3>2, <3>3, <3>4, <3>5 DEF e
  <2>4. QED
    BY <1>8, <2>2, <2>3 DEF PutBack
<1>9. QED
  BY <1>4, <1>5, <1>6, <1>7, <1>8

\* The steps of a pruning.
LEMMA PruneSteps ==
  ASSUME EInv,
         \/ PruneMetadata \/ PruneEnds
         \/ \E k \in 1..Len(chks) : PrunePayload(k) \/ OpenProject(k)
  PROVE  Core' /\ Facts
<1> DEFINE u == pruning.upto
<1>0. /\ Core /\ op' = op /\ pruned \subseteq pruned' /\ pruning \in [upto : Nat, at : Nat]
      /\ pruning.upto \in Nat /\ pruning.at \in Nat /\ chks \in Seq(Chk) /\ Len(chks) \in Nat
      /\ op \in [Actors -> Op] /\ pruned \subseteq Files
  BY CoreHolds
  DEF PruneMetadata, PruneEnds, PrunePayload, OpenProject, Core
<1>1. ASSUME chks' \in Seq(Chk), Grown(chks, chks', u), SessKept(chks, chks', pruned'),
             Sess(chks') \subseteq Sess(chks), pruned' \subseteq Files,
             pruning' \in [upto : Nat, at : Nat], PruneInv',
             \A a \in Actors : op[a].pc # "idle" => pruning'.upto <= op[a].since
      PROVE  Core' /\ Facts
  <2>1. ASSUME NEW a \in Actors PROVE OpOK(a, op[a], chks', pruning'.upto)
    <3>1. op[a] \in Op /\ OpOK(a, op[a], chks, u)
      BY <1>0 DEF Core
    <3>2. OpOK(a, op[a], chks', u)
      BY <1>0, <1>1, <3>1, GrowthKeepsOp
    <3>3. QED
      BY <1>1, <3>2 DEF OpOK
  <2>2. RevertOK(op["history"], chks', pruned')
    BY <1>0, <1>1, RevertStays DEF Core
  <2>3. Core'
    BY <1>0, <1>1, <2>1, <2>2 DEF Core
  <2>4. NothingListed
    BY <1>0, <1>1 DEF NothingListed
  <2>5. QED
    BY <1>1, <2>3, <2>4 DEF Facts
<1>2. ASSUME NEW a \in Actors, op[a].pc # "idle" PROVE u <= op[a].since
  BY <1>0, <1>2 DEF Core, OpOK
<1>3. ASSUME NEW k \in 1..Len(chks), k <= u, pruned' \subseteq Files,
             chks[k].session = "run" => chks[k].file \in pruned',
             \/ chks' = [chks EXCEPT ![k].content = Absent]
             \/ chks' = [chks EXCEPT ![k].listed = FALSE]
      PROVE  /\ chks' \in Seq(Chk) /\ Grown(chks, chks', u) /\ SessKept(chks, chks', pruned')
             /\ Sess(chks') \subseteq Sess(chks) /\ Len(chks') = Len(chks)
             /\ chks'[k].session = chks[k].session /\ chks'[k].file = chks[k].file
  <2>1. /\ chks' \in Seq(Chk) /\ Len(chks') = Len(chks)
        /\ \A i \in 1..Len(chks) \ {k} : chks'[i] = chks[i]
        /\ (chks'[k].listed => chks[k].listed)
        /\ Grown(chks, chks', u)
    BY <1>0, <1>3, PruningGrows
  <2>2. \A i \in 1..Len(chks) : chks'[i].session = chks[i].session /\ chks'[i].file = chks[i].file
    BY <2>1 DEF Grown
  <2>3. ASSUME NEW i \in Sess(chks')
        PROVE  i \in Sess(chks)
    <3>1. i \in 1..Len(chks) /\ chks'[i].listed /\ chks'[i].session = "run"
      BY <2>1, <2>3 DEF Sess
    <3>2. chks[i].listed
      BY <2>1, <3>1
    <3>3. QED
      BY <2>2, <3>1, <3>2 DEF Sess
  <2>4. ASSUME NEW i \in Sess(chks)
        PROVE  chks[i].file \in pruned' \/ (i \in Sess(chks') /\ chks'[i].content = chks[i].content)
    <3>1. i \in 1..Len(chks) /\ chks[i].listed /\ chks[i].session = "run"
      BY <2>4 DEF Sess
    <3>2. CASE i = k
      BY <1>3, <3>1, <3>2
    <3>3. CASE i # k
      BY <2>1, <3>1, <3>3 DEF Sess
    <3>4. QED
      BY <3>2, <3>3
  <2>5. QED
    BY <1>0, <2>1, <2>2, <2>3, <2>4 DEF SessKept
<1>4. ASSUME UNCHANGED chks
      PROVE  /\ chks' \in Seq(Chk) /\ Grown(chks, chks', u) /\ SessKept(chks, chks', pruned')
             /\ Sess(chks') \subseteq Sess(chks)
  BY <1>0, <1>4, SameHistory
<1>5. ASSUME NEW k \in 1..Len(chks), PrunePayload(k) PROVE Core' /\ Facts
  <2>1. /\ k <= u /\ chks' = [chks EXCEPT ![k].content = Absent] /\ pruned' = pruned \cup Forgotten(k)
        /\ pruning' = [pruning EXCEPT !.at = k]
    BY <1>5 DEF PrunePayload
  <2>2. chks[k].file \in Files
    BY <1>0, ChkIs
  <2>3. pruned' \subseteq Files /\ (chks[k].session = "run" => chks[k].file \in pruned')
    BY <1>0, <2>1, <2>2 DEF Forgotten
  <2>4. pruning' \in [upto : Nat, at : Nat] /\ pruning'.upto = u /\ pruning'.at = k
    BY <1>0, <2>1
  <2>5. /\ chks' \in Seq(Chk) /\ Grown(chks, chks', u) /\ SessKept(chks, chks', pruned')
        /\ Sess(chks') \subseteq Sess(chks) /\ Len(chks') = Len(chks)
        /\ chks'[k].session = chks[k].session /\ chks'[k].file = chks[k].file
    BY <1>3, <2>1, <2>3
  <2>6. PruneInv'
    BY <1>0, <2>1, <2>3, <2>4, <2>5 DEF Core, PruneInv
  <2>7. QED
    BY <1>1, <1>2, <2>3, <2>4, <2>5, <2>6
<1>6. CASE PruneMetadata
  <2> DEFINE k == pruning.at
  <2>1. /\ k # 0 /\ k <= u /\ u <= Len(chks) /\ pruned' = pruned
        /\ chks' = [chks EXCEPT ![k].listed = FALSE] /\ pruning' = [pruning EXCEPT !.at = 0]
        /\ (chks[k].session = "run" => chks[k].file \in pruned)
    BY <1>0, <1>6 DEF PruneMetadata, Core, PruneInv
  <2>2. k \in 1..Len(chks)
    BY <1>0, <2>1
  <2>3. pruning' \in [upto : Nat, at : Nat] /\ pruning'.upto = u /\ pruning'.at = 0
    BY <1>0, <2>1
  <2> HIDE DEF k
  <2>4. /\ chks' \in Seq(Chk) /\ Grown(chks, chks', u) /\ SessKept(chks, chks', pruned')
        /\ Sess(chks') \subseteq Sess(chks) /\ Len(chks') = Len(chks)
    BY <1>0, <1>3, <2>1, <2>2
  <2>5. PruneInv'
    BY <1>0, <2>1, <2>3, <2>4 DEF PruneInv
  <2>6. QED
    BY <1>0, <1>1, <1>2, <2>1, <2>3, <2>4, <2>5
<1>7. CASE PruneEnds
  <2>1. pruning' = [upto |-> 0, at |-> 0] /\ pruned' = pruned /\ chks' = chks
    BY <1>7 DEF PruneEnds
  <2>2. PruneInv' /\ pruning' \in [upto : Nat, at : Nat] /\ pruning'.upto = 0
    BY <1>0, <2>1 DEF PruneInv
  <2>3. \A a \in Actors : op[a].since \in Nat
    BY <1>0, OpIs
  <2>4. QED
    BY <1>0, <1>1, <1>4, <2>1, <2>2, <2>3
<1>8. ASSUME NEW k \in 1..Len(chks), OpenProject(k) PROVE Core' /\ Facts
  <2>1. pruning' = [upto |-> k, at |-> 0] /\ pruned' = pruned /\ chks' = chks
    BY <1>8 DEF OpenProject
  <2>2. PruneInv' /\ pruning' \in [upto : Nat, at : Nat] /\ pruning'.upto = k
    BY <1>0, <2>1 DEF PruneInv
  <2>3. \A a \in Actors : op[a].pc # "idle" => k <= op[a].since
    BY <1>8 DEF OpenProject, At
  <2>4. QED
    BY <1>0, <1>1, <1>4, <2>1, <2>2, <2>3
<1>9. QED
  BY <1>5, <1>6, <1>7, <1>8

\* A crash, and what happens outside the history.
LEMMA OtherSteps ==
  ASSUME EInv,
         \/ Crash
         \/ \E f \in Files : Outside(f) \/ \E g \in Files : EditorRenames(f, g)
         \/ UNCHANGED vars
  PROVE  Core' /\ Facts
<1>0. /\ Core /\ UNCHANGED <<chks, pruned>> /\ chks \in Seq(Chk) /\ Len(chks) \in Nat
  BY CoreHolds DEF Crash, Outside, EditorRenames, vars, Core
<1>1. Grown(chks, chks', pruning.upto) /\ SessKept(chks, chks', pruned')
  BY <1>0, SameHistory
<1>2. CASE Crash
  <2>1. op' = [a \in Actors |-> Idle] /\ pruning' = [upto |-> 0, at |-> 0]
    BY <1>2 DEF Crash
  <2>2. Idle \in Op /\ Idle.pc = "idle"
    BY DEF Idle, Op, Absent
  <2>3. \A a \in Actors : op'[a] = Idle
    BY <2>1
  <2>4. \A a \in Actors : OpOK(a, op'[a], chks', pruning'.upto)
    BY <2>2, <2>3 DEF OpOK
  <2>5. RevertOK(op'["history"], chks', pruned')
    BY <2>2, <2>3 DEF RevertOK, Actors
  <2>6. PruneInv' /\ pruning' \in [upto : Nat, at : Nat]
    BY <1>0, <2>1 DEF PruneInv
  <2>7. op' \in [Actors -> Op]
    BY <2>1, <2>2
  <2>8. Core'
    BY <1>0, <2>4, <2>5, <2>6, <2>7 DEF Core
  <2>9. NothingListed
    BY <1>0, <2>2, <2>3 DEF NothingListed, At, Actors
  <2>10. QED
    BY <1>1, <2>8, <2>9 DEF Facts
<1>3. CASE UNCHANGED <<op, pruning>>
  <2>1. Core'
    BY <1>0, <1>3 DEF Core, PruneInv
  <2>2. NothingListed
    BY <1>0, <1>3 DEF NothingListed
  <2>3. QED
    BY <1>1, <2>1, <2>2 DEF Facts
<1>4. QED
  BY <1>2, <1>3 DEF Outside, EditorRenames, vars

\* All of them.
LEMMA CoreSteps ==
  ASSUME EInv, Step \/ UNCHANGED vars
  PROVE  Core' /\ Facts
BY WritersBegin, LookSteps, MetadataSteps, ApplySteps, CheckSteps, HistorySteps, PruneSteps,
   OtherSteps
DEF Step

-----------------------------------------------------------------------------
(* Files, and the window.                                                  *)

\* What a history command puts back is in the history.
LEMMA PutsBackFromHistory ==
  ASSUME EInv, At("history", "apply")
  PROVE  LET o == op["history"]
         IN  /\ o \in Op /\ o.expected \in 1..Len(chks) /\ o.file = chks[o.expected].file
             /\ o.file \in Files /\ chks[o.expected].content \in Nat
             /\ o.kind = "revert" /\ o.file \notin pruned => First(chks, o.expected)
<1> DEFINE o == op["history"]
<1>1. /\ o \in Op /\ o.pc = "apply" /\ chks \in Seq(Chk) /\ RevertOK(o, chks, pruned)
  BY DEF EInv, ETypeOK, At, Actors
<1>2. o.expected \in ToPutBack(o)
  BY <1>1 DEF ToPutBack
<1>3. o.expected \in 1..Len(chks) /\ o.file = chks[o.expected].file
  BY <1>1, <1>2 DEF RevertOK
<1>4. o.kind = "revert" /\ o.file \notin pruned => First(chks, o.expected)
  BY <1>1, <1>2, <1>3 DEF RevertOK
<1>5. QED
  BY <1>1, <1>3, <1>4, ChkIs

\* The files keep their type.
LEMMA DataSteps ==
  ASSUME EInv, Step \/ UNCHANGED vars
  PROVE  disk' \in [Files -> Nat] /\ ops' \in Nat /\ faults' \in Nat
<1>1. disk \in [Files -> Nat] /\ ops \in Nat /\ faults \in Nat /\ Absent \in Nat
      /\ op \in [Actors -> Op]
  BY DEF EInv, ETypeOK, Absent
<1>2. ASSUME UNCHANGED <<ops, disk, faults>> PROVE disk' \in [Files -> Nat] /\ ops' \in Nat /\ faults' \in Nat
  BY <1>1, <1>2
<1>3. CASE UNCHANGED vars
  BY <1>2, <1>3 DEF vars
<1>4. ASSUME NEW f \in Files,
             \/ AgentWrites(f) \/ EditorDeletes(f)
             \/ \E e \in {Absent, disk[f]} : EditorSaves(f, e)
      PROVE  disk' \in [Files -> Nat] /\ ops' \in Nat /\ faults' \in Nat
  BY <1>1, <1>4 DEF AgentWrites, EditorDeletes, EditorSaves, Begin
<1>5. ASSUME NEW f \in Files, NEW g \in Files, EditorRenames(f, g)
      PROVE  disk' \in [Files -> Nat] /\ ops' \in Nat /\ faults' \in Nat
  BY <1>1, <1>5 DEF EditorRenames, Begin
<1>6. ASSUME NEW f \in Files, Outside(f)
      PROVE  disk' \in [Files -> Nat] /\ ops' \in Nat /\ faults' \in Nat
  BY <1>1, <1>6 DEF Outside, Begin, Fresh
<1>7. ASSUME NEW a \in Actors, Snapshot(a) \/ Metadata(a) \/ Recheck(a)
      PROVE  disk' \in [Files -> Nat] /\ ops' \in Nat /\ faults' \in Nat
  BY <1>2, <1>7 DEF Snapshot, Metadata, Recheck
<1>8. ASSUME NEW a \in Actors, Replace(a) \/ Trash(a)
      PROVE  disk' \in [Files -> Nat] /\ ops' \in Nat /\ faults' \in Nat
  <2>1. op[a].new \in Nat
    BY <1>1, OpIs
  <2>2. QED
    BY <1>1, <1>8, <2>1 DEF Replace, Trash
<1>9. CASE CheckLoaded \/ RevertEnds
  BY <1>2, <1>9 DEF CheckLoaded, RevertEnds
<1>10. ASSUME Revert \/ \E i \in 1..Len(chks) : Restore(i)
       PROVE  disk' \in [Files -> Nat] /\ ops' \in Nat /\ faults' \in Nat
  <2>1. Begin /\ UNCHANGED <<disk, faults>>
    BY <1>10 DEF Revert, Restore
  <2>2. QED
    BY <1>1, <2>1 DEF Begin
<1>11. ASSUME NEW i \in 1..Len(chks), NextFile(i) \/ PrunePayload(i) \/ OpenProject(i)
       PROVE  disk' \in [Files -> Nat] /\ ops' \in Nat /\ faults' \in Nat
  BY <1>1, <1>11 DEF NextFile, PrunePayload, OpenProject
<1>12. CASE PutBack
  <2>1. chks[op["history"].expected].content \in Nat
    BY <1>12, PutsBackFromHistory DEF PutBack
  <2>2. QED
    BY <1>1, <1>12, <2>1 DEF PutBack
<1>13. CASE PruneMetadata \/ PruneEnds \/ Crash
  BY <1>1, <1>13 DEF PruneMetadata, PruneEnds, Crash
<1>14. QED
  BY <1>3, <1>4, <1>5, <1>6, <1>7, <1>8, <1>9, <1>10, <1>11, <1>12, <1>13 DEF Step

\* The session's files are those of its listed checkpoints.
LEMMA TouchedIs ==
  ASSUME NEW f
  PROVE  Touched(f) <=> \E i \in Sess(chks) : chks[i].file = f
BY DEF Touched, OfSession, Listed, Sess

LEMMA TouchedWillBe ==
  ASSUME NEW f
  PROVE  Touched(f)' <=> \E i \in Sess(chks') : chks'[i].file = f
BY DEF Touched, OfSession, Listed, Sess

\* Each step keeps WindowInv.
LEMMA WindowSteps ==
  ASSUME EInv, Core', Facts, Watch, pruned \subseteq pruned', disk' \in [Files -> Nat]
  PROVE  WindowInv' /\ window' \in [Files -> SUBSET Nat]
<1>1. /\ chks \in Seq(Chk) /\ chks' \in Seq(Chk) /\ Len(chks) \in Nat /\ Len(chks') \in Nat
      /\ window \in [Files -> SUBSET Nat] /\ WindowInv
      /\ SessKept(chks, chks', pruned')
      /\ \A i \in 1..Len(chks) : chks'[i].file = chks[i].file
  BY DEF EInv, ETypeOK, Core, Facts, SessKept
<1>2. window' \in [Files -> SUBSET Nat]
  BY <1>1 DEF Watch
<1>3. ASSUME NEW f \in Files
      PROVE  window'[f] = IF Touched(f) \/ f \in pruned THEN window[f]
                          ELSE IF Underway(f)' THEN window[f] \cup {disk'[f]}
                          ELSE IF Touched(f)' THEN window[f] ELSE {}
  BY <1>1, <1>3 DEF Watch
<1>4. ASSUME NEW f \in Files, f \notin pruned', Touched(f)
      PROVE  \E i \in Sess(chks') :
               First(chks', i) /\ chks'[i].file = f /\ chks'[i].content \in window'[f]
  <2>1. PICK i \in Sess(chks) : First(chks, i) /\ chks[i].file = f /\ chks[i].content \in window[f]
    BY <1>1, <1>4 DEF WindowInv
  <2>2. i \in 1..Len(chks)
    BY <2>1 DEF Sess
  <2>3. First(chks', i) /\ chks'[i].file = f /\ chks'[i].content = chks[i].content
    BY <1>1, <1>4, <2>1, <2>2, FirstStays
  <2>4. window'[f] = window[f]
    BY <1>3, <1>4
  <2>5. QED
    BY <2>1, <2>3, <2>4 DEF First
<1>5. ASSUME NEW f \in Files, f \notin pruned', ~Touched(f), Touched(f)'
      PROVE  \E i \in Sess(chks') :
               First(chks', i) /\ chks'[i].file = f /\ chks'[i].content \in window'[f]
  <2> DEFINE k == op["agent"].chk
  <2>1. PICK i \in Sess(chks') : chks'[i].file = f
    BY <1>5, TouchedWillBe
  <2>2. ASSUME NEW j \in Sess(chks'), chks'[j].file = f PROVE j \notin Sess(chks)
    <3>1. ASSUME j \in Sess(chks) PROVE FALSE
      <4>1. chks[j].file = f
        BY <1>1, <2>2, <3>1 DEF Sess
      <4>2. QED
        BY <1>5, <3>1, <4>1, TouchedIs
    <3>2. QED
      BY <3>1
  <2>3. AgentLists
    BY <2>1, <2>2 DEF Facts, NothingListed
  <2>4. i = k /\ At("agent", "meta") /\ \A j \in Sess(chks') : chks'[j].file = f => j = k
    BY <2>1, <2>2, <2>3 DEF AgentLists
  <2>5. OpOK("agent", op["agent"], chks, pruning.upto) /\ op["agent"].pc = "meta"
        /\ op["agent"] \in Op
    BY <2>4 DEF EInv, ETypeOK, Actors, At
  <2>6. Own("agent", op["agent"], chks) /\ pruning.upto <= op["agent"].since
        /\ op["agent"].since \in Nat /\ pruning.upto \in Nat
    BY <2>5, OpIs DEF OpOK, EInv, ETypeOK
  <2>7. k \in 1..Len(chks) /\ k > pruning.upto
    BY <1>1, <2>6 DEF Own
  <2>8. chks'[k].content = chks[k].content /\ chks[k].content = op["agent"].found
        /\ chks[k].file = op["agent"].file /\ chks'[k].file = chks[k].file
    BY <2>6, <2>7 DEF Facts, Grown, Own
  <2>9. op["agent"].found \in window[f]
    BY <1>1, <1>5, <2>1, <2>4, <2>8 DEF WindowInv
  <2>10. window[f] \subseteq window'[f]
    BY <1>3, <1>5
  <2>11. First(chks', k)
    <3>1. k \in Nat
      BY <2>7
    <3>2. QED
      BY <2>1, <2>4, <3>1 DEF First
  <2>12. QED
    BY <2>1, <2>4, <2>8, <2>9, <2>10, <2>11
<1>6. ASSUME NEW f \in Files, f \notin pruned', At("agent", "meta")', op'["agent"].file = f,
             ~Touched(f)'
      PROVE  op'["agent"].found \in window'[f]
  <2>1. NothingListed
    BY <1>6 DEF Facts, AgentLists
  <2>2. ~Touched(f)
    <3>1. ASSUME NEW i \in Sess(chks), chks[i].file = f PROVE FALSE
      <4>1. i \in Sess(chks')
        BY <1>1, <1>6, <3>1 DEF SessKept
      <4>2. i \in 1..Len(chks) /\ chks'[i].file = f
        BY <1>1, <3>1 DEF Sess
      <4>3. QED
        BY <1>6, <4>1, <4>2, TouchedWillBe
    <3>2. QED
      BY <3>1, TouchedIs
  <2>3. Underway(f)'
    BY <1>6 DEF Underway, At
  <2>4. window'[f] = window[f] \cup {disk'[f]}
    BY <1>3, <1>6, <2>2, <2>3
  <2>5. CASE op'["agent"] = op["agent"]
    <3>1. At("agent", "meta") /\ op["agent"].file = f /\ f \notin pruned
      BY <1>6, <2>5 DEF At
    <3>2. op["agent"].found \in window[f]
      BY <1>1, <2>2, <3>1 DEF WindowInv
    <3>3. QED
      BY <2>4, <2>5, <3>2
  <2>6. CASE op'["agent"].found = disk'[op'["agent"].file]
    BY <1>6, <2>4, <2>6
  <2>7. QED
    BY <1>6, <2>1, <2>5, <2>6 DEF NothingListed
<1>7. ASSUME At("agent", "meta")', NEW j \in Sess(chks') PROVE j < op'["agent"].chk
  <2>1. NothingListed
    BY <1>7 DEF Facts, AgentLists
  <2>2. j \in Sess(chks) /\ j \in 1..Len(chks)
    BY <1>7, <2>1 DEF NothingListed, Sess
  <2>3. CASE op'["agent"] = op["agent"]
    BY <1>1, <1>7, <2>2, <2>3 DEF At, WindowInv
  <2>4. CASE op'["agent"].chk = Len(chks) + 1
    BY <1>1, <2>2, <2>4
  <2>5. QED
    BY <1>7, <2>1, <2>3, <2>4 DEF NothingListed
<1>8. QED
  BY <1>2, <1>4, <1>5, <1>6, <1>7 DEF WindowInv

-----------------------------------------------------------------------------
(* Theorems.                                                               *)

LEMMA EInvInit == Init => EInv
<1> SUFFICES ASSUME Init PROVE EInv
  OBVIOUS
<1>1. ETypeOK
  <2>1. Idle \in Op /\ <<>> \in Seq(Chk)
    BY DEF Idle, Op, Absent
  <2>2. disk \in [Files -> Nat]
    BY DEF Init, Absent
  <2>3. QED
    BY <2>1, <2>2 DEF Init, ETypeOK
<1>2. op = [a \in Actors |-> Idle] /\ Idle.pc = "idle" /\ chks = <<>>
  BY DEF Init, Idle
<1>3. PruneInv
  BY DEF Init, PruneInv
<1>4. Sess(chks) = {}
  BY <1>2 DEF Sess
<1>5. WindowInv
  <2>1. ~At("agent", "meta")
    BY <1>2 DEF At, Actors
  <2>2. \A f : ~Touched(f)
    BY <1>4, TouchedIs
  <2>3. QED
    BY <2>1, <2>2 DEF WindowInv
<1>6. \A a \in Actors : OpOK(a, op[a], chks, pruning.upto)
  BY <1>2 DEF OpOK
<1>7. RevertOK(op["history"], chks, pruned)
  BY <1>2 DEF RevertOK, Actors
<1>8. QED
  BY <1>1, <1>3, <1>5, <1>6, <1>7 DEF EInv

LEMMA EInvStep == EInv /\ [Next]_vars => EInv'
<1> SUFFICES ASSUME EInv, [Next]_vars PROVE EInv'
  OBVIOUS
<1>1. Step \/ UNCHANGED vars
  BY DEF Next
<1>2. /\ Core' /\ Facts /\ disk' \in [Files -> Nat] /\ ops' \in Nat /\ faults' \in Nat
  BY <1>1, CoreSteps, DataSteps
<1>3. pruned \subseteq pruned'
  <2>1. CASE UNCHANGED vars
    BY <2>1 DEF vars
  <2>2. CASE Step
    <3>1. \/ UNCHANGED pruned
          \/ \E k \in 1..Len(chks) : PrunePayload(k)
      BY <2>2 DEF Step, AgentWrites, EditorSaves, EditorDeletes, EditorRenames, Outside,
        Snapshot, Metadata, Recheck, Replace, Trash, CheckLoaded, Revert, RevertEnds, PutBack,
        Restore, NextFile, OpenProject, PruneMetadata, PruneEnds, Crash
    <3>2. QED
      BY <3>1 DEF PrunePayload
  <2>3. QED
    BY <1>1, <2>1, <2>2
<1>4. WindowInv' /\ window' \in [Files -> SUBSET Nat]
  <2>1. CASE UNCHANGED vars
    BY <2>1
    DEF vars, EInv, ETypeOK, WindowInv, Touched, OfSession, Listed, Sess, First, At
  <2>2. CASE Watch
    BY <1>2, <1>3, <2>2, WindowSteps
  <2>3. QED
    BY <2>1, <2>2 DEF Next
<1>5. raced' \subseteq Files
  BY DEF Next, Watch, vars, EInv, ETypeOK
<1>6. QED
  BY <1>2, <1>4, <1>5 DEF EInv, ETypeOK, Core

\* EInv holds in every reachable state.
LEMMA EInvCorrect == Spec => []EInv
BY EInvInit, EInvStep, PTL DEF Spec

\* Types.
THEOREM EditTypeCorrect == Spec => []ETypeOK
<1>1. EInv => ETypeOK
  BY DEF EInv
<1>2. QED
  BY <1>1, EInvCorrect, PTL

\* Whoever is about to replace a content it has seen holds a copy of it that
\* the step leaves in the history.
LEMMA CopyStays ==
  ASSUME EInv, Facts, Core', NEW a \in Actors, At(a, "apply"),
         op[a].kind = "write" \/ op[a].found # Absent
  PROVE  LET k == op[a].chk
         IN  /\ k \in 1..Len(chks') /\ chks'[k].listed /\ chks'[k].content = op[a].found
             /\ chks'[k].session = Session(a) /\ chks'[k].file = op[a].file
<1> DEFINE o == op[a]
           k == o.chk
<1>1. /\ o \in Op /\ OpOK(a, o, chks, pruning.upto) /\ o.pc = "apply" /\ chks \in Seq(Chk)
      /\ pruning.upto \in Nat /\ Len(chks) \in Nat /\ chks' \in Seq(Chk) /\ Len(chks') \in Nat
  BY DEF EInv, ETypeOK, At, Core
<1>2. Own(a, o, chks) /\ chks[k].listed /\ pruning.upto <= o.since /\ o.since \in Nat
  BY <1>1, OpIs DEF OpOK
<1>3. k \in 1..Len(chks) /\ k > pruning.upto
  BY <1>1, <1>2 DEF Own
<1>4. QED
  BY <1>1, <1>2, <1>3 DEF Facts, Grown, Own

\* A content that an operation has seen is not destroyed by it, whatever the
\* other operations, crashes and prunings do meanwhile.
THEOREM ContentsSurvive == Spec => NothingDestroyed
<1>1. ASSUME EInv, [Next]_vars, NEW a \in Actors, NEW f \in Files, Replaces(a, f), Exists(f),
             disk[f] = op[a].found
      PROVE  disk[f] \in Recoverable'
  <2>1. Core' /\ Facts
    BY <1>1, CoreSteps DEF Next
  <2>2. At(a, "apply") /\ op[a].found # Absent
    BY <1>1 DEF Replaces, Exists
  <2>3. /\ op[a].chk \in 1..Len(chks') /\ chks'[op[a].chk].listed
        /\ chks'[op[a].chk].content = disk[f]
    BY <1>1, <2>1, <2>2, CopyStays
  <2>4. QED
    BY <2>3 DEF Recoverable, Listed
<1>2. ASSUME EInv, [Next]_vars
      PROVE  \A a \in Actors, f \in Files :
               Replaces(a, f) /\ Exists(f) /\ disk[f] = op[a].found => disk[f] \in Recoverable'
  BY <1>1, <1>2
<1>3. QED
  BY <1>2, EInvCorrect, PTL DEF Spec, NothingDestroyed

\* What the agent changes has a readable checkpoint of its session.
THEOREM AgentEditsAreRevertible == Spec => EditsAreRevertible
<1>1. ASSUME EInv, [Next]_vars, NEW f \in Files, Replaces("agent", f)
      PROVE  Touched(f)'
  <2>1. Core' /\ Facts
    BY <1>1, CoreSteps DEF Next
  <2>2. At("agent", "apply") /\ op["agent"].file = f /\ "agent" \in Actors
    BY <1>1 DEF Replaces, Actors
  <2>3. op["agent"].kind = "write"
    BY <1>1, <2>2 DEF EInv, OpOK, At
  <2>4. LET k == op["agent"].chk
        IN  /\ k \in 1..Len(chks') /\ chks'[k].listed /\ chks'[k].session = Session("agent")
            /\ chks'[k].file = f
    BY <1>1, <2>1, <2>2, <2>3, CopyStays
  <2>5. QED
    BY <2>4, TouchedWillBe DEF Sess, Session
<1>2. ASSUME EInv, [Next]_vars
      PROVE  \A f \in Files : Replaces("agent", f) => Touched(f)' \/ f \in pruned'
  BY <1>1, <1>2
<1>3. QED
  BY <1>2, EInvCorrect, PTL DEF Spec, EditsAreRevertible

\* Only the step that puts a file back counts it as done.
LEMMA OnlyPutBackIsDone ==
  ASSUME EInv, Step \/ UNCHANGED vars
  PROVE  PutBack \/ op'["history"].done \subseteq op["history"].done
<1> DEFINE h == "history"
           Less == op'[h].done \subseteq op[h].done
<1>1. op \in [Actors -> Op] /\ op[h] \in Op /\ h \in Actors /\ Idle.done = {}
  BY DEF EInv, ETypeOK, Actors, Idle
<1>2. ASSUME op'[h] = op[h] PROVE Less
  BY <1>2
<1>3. ASSUME NEW a \in Actors, NEW n, op' = [op EXCEPT ![a] = n], n.done \subseteq op[a].done
      PROVE  Less
  BY <1>1, <1>3
<1>4. ASSUME NEW a \in Actors PROVE op[a] \in Op /\ Ended(a).done \subseteq op[a].done
  <2>1. op[a] \in Op
    BY <1>1
  <2>2. QED
    BY <1>1, <2>1 DEF Ended, Op
<1>5. ASSUME NEW a \in Actors, Fail(a) PROVE Less
  BY <1>3, <1>4, <1>5 DEF Fail, Set
<1>6. ASSUME NEW a \in Actors, NEW pc, Goto(a, pc) PROVE Less
  <2>1. [op[a] EXCEPT !.pc = pc].done = op[a].done
    BY <1>4 DEF Op
  <2>2. QED
    BY <1>3, <1>6, <2>1 DEF Goto, Set
<1>7. ASSUME NEW a \in Actors, NEW x, Take(a, x) PROVE Less
  <2>1. [op[a] EXCEPT !.pc = "meta", !.chk = Len(chks) + 1, !.found = x].done = op[a].done
    BY <1>4 DEF Op
  <2>2. QED
    BY <1>3, <1>7, <2>1 DEF Take, Set
<1>8. ASSUME NEW a \in Actors, Snapshot(a) PROVE Less
  <2>1. [op[a] EXCEPT !.pc = "apply", !.found = Absent].done = op[a].done
    BY <1>4 DEF Op
  <2>2. ASSUME Set(a, [op[a] EXCEPT !.pc = "apply", !.found = Absent]) PROVE Less
    BY <1>3, <2>1, <2>2 DEF Set
  <2>3. QED
    BY <1>5, <1>7, <1>8, <2>2 DEF Snapshot
<1>9. ASSUME NEW a \in Actors, Metadata(a) \/ Recheck(a) PROVE Less
  BY <1>5, <1>6, <1>7, <1>9 DEF Metadata, Recheck
<1>10. ASSUME NEW a \in Actors, Replace(a) \/ Trash(a) PROVE Less
  BY <1>3, <1>4, <1>10 DEF Replace, Trash, Set
<1>11. ASSUME NEW f \in Files, AgentWrites(f) PROVE Less
  BY <1>1, <1>2, <1>11 DEF AgentWrites, Set
<1>12. ASSUME NEW f \in Files, EditorDeletes(f) \/ \E e \in {Absent, disk[f]} : EditorSaves(f, e)
       PROVE  Less
  BY <1>1, <1>2, <1>12 DEF EditorDeletes, EditorSaves, Set
<1>13. CASE CheckLoaded
  BY <1>5, <1>6, <1>13 DEF CheckLoaded, Actors
<1>14. ASSUME NEW n, op' = [op EXCEPT ![h] = n], n.done = {} PROVE Less
  BY <1>1, <1>14
<1>15. CASE Revert
  <2> DEFINE e == Earliest(OfSession("run"))
             l == Len(chks)
  <2> HIDE DEF e, l
  <2>1. [Idle EXCEPT !.pc = "pick", !.kind = "revert", !.since = l, !.todo = e].done = {}
    BY DEF Idle
  <2>2. QED
    BY <1>14, <1>15, <2>1 DEF Revert, Set, e, l
<1>16. ASSUME NEW i \in 1..Len(chks), Restore(i) PROVE Less
  <2> DEFINE l == Len(chks)
  <2> HIDE DEF l
  <2>1. [Idle EXCEPT !.pc = "pick", !.kind = "restore", !.since = l, !.todo = {i}].done = {}
    BY DEF Idle
  <2>2. QED
    BY <1>14, <1>16, <2>1 DEF Restore, Set, l
<1>17. CASE RevertEnds
  BY <1>1, <1>14, <1>17 DEF RevertEnds, Set
<1>18. ASSUME NEW i \in 1..Len(chks), NextFile(i) PROVE Less
  <2> DEFINE f == chks[i].file
             d == disk[f]
             n == [op[h] EXCEPT !.pc = "snapshot", !.file = f, !.found = d,
                                !.expected = i, !.todo = op[h].todo \ {i}]
  <2>1. op' = [op EXCEPT ![h] = n]
    BY <1>18 DEF NextFile, Set
  <2> HIDE DEF f, d
  <2>2. n.done = op[h].done
    BY <1>1 DEF Op
  <2>3. QED
    BY <1>1, <1>3, <2>1, <2>2
<1>19. CASE Crash
  BY <1>1, <1>19 DEF Crash
<1>20. ASSUME op' = op PROVE Less
  BY <1>20
<1>21. ASSUME \/ UNCHANGED vars \/ PruneMetadata \/ PruneEnds
              \/ \E f \in Files : Outside(f) \/ \E g \in Files : EditorRenames(f, g)
              \/ \E i \in 1..Len(chks) : PrunePayload(i) \/ OpenProject(i)
       PROVE  Less
  BY <1>20, <1>21 DEF vars, PruneMetadata, PruneEnds, Outside, EditorRenames, PrunePayload,
    OpenProject
<1>22. QED
  BY <1>8, <1>9, <1>10, <1>11, <1>12, <1>13, <1>15, <1>16, <1>17, <1>18, <1>19, <1>21 DEF Step

LEMMA EndedKeepsDone ==
  ASSUME NEW o \in Op
  PROVE  [o EXCEPT !.pc = "pick", !.chk = 0] \in Op
         /\ [o EXCEPT !.pc = "pick", !.chk = 0].done = o.done
<1>1. [o EXCEPT !.pc = "pick", !.chk = 0] \in Op
  BY DEF Op
<1>2. QED
  BY <1>1 DEF Op

\* A revert gives a file back a content it had during the session's first
\* operation on it.
THEOREM RevertsReturnToStart == Spec => RevertReturnsToStart
<1>1. ASSUME EInv, [Next]_vars, NEW f \in Files, Reverts(f), f \notin pruned
      PROVE  disk'[f] \in window[f]
  <2>0. op["history"].kind = "revert" /\ f \in op'["history"].done \ op["history"].done
    BY <1>1 DEF Reverts
  <2> DEFINE o == op["history"]
             i == o.expected
  <2>1. PutBack
    BY <1>1, <2>0, OnlyPutBackIsDone DEF Next
  <2>2. /\ o \in Op /\ i \in 1..Len(chks) /\ o.file = chks[i].file /\ o.file \in Files
        /\ o.file \notin pruned => First(chks, i)
    BY <1>1, <2>0, <2>1, PutsBackFromHistory DEF PutBack
  <2>3. op \in [Actors -> Op] /\ disk \in [Files -> Nat] /\ "history" \in Actors
    BY <1>1 DEF EInv, ETypeOK, Actors
  <2>4. Ended("history") = [o EXCEPT !.pc = "pick", !.chk = 0]
    BY DEF Ended
  <2> DEFINE e == Ended("history")
  <2>5. e \in Op /\ e.done = o.done
    BY <2>2, <2>4, EndedKeepsDone
  <2> HIDE DEF e
  <2>6. CASE op' = [op EXCEPT !["history"] = e]
    BY <2>0, <2>3, <2>5, <2>6
  <2>7. CASE /\ disk' = [disk EXCEPT ![o.file] = chks[i].content]
             /\ op' = [op EXCEPT !["history"] = [e EXCEPT !.done = @ \cup {o.file}]]
    <3>1. op'["history"].done = o.done \cup {o.file}
      <4>1. [e EXCEPT !.done = e.done \cup {o.file}].done = e.done \cup {o.file}
        BY <2>5 DEF Op
      <4>2. QED
        BY <2>3, <2>5, <2>7, <4>1
    <3>2. f = o.file
      BY <2>0, <3>1
    <3>3. disk'[f] = chks[i].content /\ First(chks, i) /\ chks[i].file = f
      BY <1>1, <2>2, <2>3, <2>7, <3>2
    <3>4. Touched(f)
      BY <3>3, TouchedIs DEF First
    <3>5. PICK j \in Sess(chks) : First(chks, j) /\ chks[j].file = f /\ chks[j].content \in window[f]
      BY <1>1, <3>4 DEF EInv, WindowInv
    <3>6. i <= j /\ j <= i /\ i \in Nat /\ j \in Nat
      BY <2>2, <3>3, <3>5 DEF First, Sess
    <3>7. QED
      BY <3>3, <3>5, <3>6
  <2>8. QED
    BY <2>1, <2>6, <2>7 DEF PutBack, Fail, Set, e
<1>2. ASSUME EInv, [Next]_vars
      PROVE  \A f \in Files :
               Reverts(f) /\ f \notin pruned \cup raced => disk'[f] \in window[f]
  BY <1>1, <1>2
<1>3. QED
  BY <1>2, EInvCorrect, PTL DEF Spec, RevertReturnsToStart
================================================================================
