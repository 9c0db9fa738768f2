---------------------------- MODULE SessionProofs ----------------------------
(***************************************************************************)
(* Proofs about the sessions the program keeps: the hub login              *)
(* (HubSession), the loopback server of that login (AuthLoopback) and the  *)
(* chat session (ChatSession), for any number of processes, servers,       *)
(* commands and turns.                                                     *)
(***************************************************************************)
EXTENDS HubSession, AuthLoopback, ChatSession, FiniteSetTheorems, SequenceTheorems,
        WellFoundedInduction, TLAPS

-----------------------------------------------------------------------------
(* The hub login.                                                          *)

Master == [acc : Accounts \cup {"none", "ticket"}, gen : Nat]
Credentials == [master : Master, key : Accounts \cup {NoKey, "torn"}]
Operation ==
  [pc : {"idle", "asking", "answered", "saving", "mirror", "revoking", "clearing", "forgetting"},
   master : Master, creds : Credentials, fromFile : BOOLEAN, passed : BOOLEAN, clash : BOOLEAN]

HubTypeOK ==
  /\ file \in Credentials /\ keychain \in Credentials
  /\ gen \in [Accounts -> Nat] /\ starts \in Nat /\ logouts \in Nat
  /\ proc \in [Procs -> Operation] /\ out \in BOOLEAN

\* While the sign-out is in force nobody works on the store but another
\* sign-out: a rotation finds no master token to start from.
OutInv ==
  out => /\ file = Gone /\ keychain.master = None
         /\ \A p \in Rotators \cup Logins : proc[p].pc = "idle"

\* Nobody writes credentials without a master token.
MasterInv ==
  /\ Parses(file) => file.master # None
  /\ \A l \in Logins : proc[l].pc \in {"answered", "saving"} =>
       proc[l].creds.master # None /\ proc[l].master # None

\* A rotation during which the store did not change hands works for the account
\* in the file: if it began with the file, with the master token that is there,
\* and what it is about to store has the master token that is there, or the
\* placeholder if there is none.
RotatorInv(r) ==
  LET o == proc[r] IN
  /\ o.pc \in {"answered", "saving"} => o.creds.key = o.master.acc
  /\ o.pc = "saving" => o.creds.master # None
  /\ ~o.passed /\ o.pc \in {"asking", "answered", "saving"} /\ o.fromFile
       => Parses(file) /\ file.master = o.master
  /\ ~o.passed /\ o.pc = "saving" => o.creds.master = MasterToKeep(Ticket)

HubInv == HubTypeOK /\ OutInv /\ MasterInv /\ \A r \in Rotators : RotatorInv(r)

\* What an operation is after one of its fields has changed.
LEMMA PassingOf ==
  ASSUME NEW o \in Operation
  PROVE  LET n == [o EXCEPT !.passed = TRUE] IN
         /\ n.pc = o.pc /\ n.master = o.master /\ n.creds = o.creds /\ n.fromFile = o.fromFile
         /\ n.passed = TRUE
  BY DEF Operation

LEMMA ClashOf ==
  ASSUME NEW o \in Operation
  PROVE  LET n == [o EXCEPT !.clash = TRUE] IN
         /\ n.pc = o.pc /\ n.master = o.master /\ n.creds = o.creds
         /\ n.passed = o.passed /\ n.fromFile = o.fromFile
  BY DEF Operation

LEMMA SavingOf ==
  ASSUME NEW o \in Operation, NEW c \in Credentials, NEW b \in BOOLEAN
  PROVE  [o EXCEPT !.pc = "saving", !.creds = c, !.clash = b] \in Operation
  BY DEF Operation

\* An operation begins, moves on or ends without touching what is stored.
LEMMA HubProcs ==
  /\ SignOut \in Procs /\ Rotators \subseteq Procs /\ Logins \subseteq Procs
  /\ SignOut \notin Rotators \cup Logins /\ \A r \in Rotators : r \notin Logins
  /\ Procs = Rotators \cup Logins \cup {SignOut}
  BY HubAssumption DEF Procs, SignOut

LEMMA HubNone ==
  /\ None \in Master /\ Ticket \in Master /\ None # Ticket /\ ~Parses(Gone) /\ ~Parses(Torn)
  /\ Gone.master = None /\ Torn.master = None /\ Gone \in Credentials /\ Torn \in Credentials
  /\ \A m \in Master, k \in Accounts \cup {NoKey, "torn"} :
       /\ Creds(m, k) \in Credentials /\ Creds(m, k).master = m /\ Creds(m, k).key = k
  /\ \A c \in Credentials : c.master # None => Parses(c)
  BY DEF None, Ticket, Master, Gone, Torn, Creds, Parses, Credentials, NoKey

LEMMA HubIdle == Idle \in Operation /\ Idle.pc = "idle" /\ ~Idle.passed
  BY HubNone DEF Idle, Operation

LEMMA MasterKept ==
  ASSUME HubTypeOK
  PROVE  /\ MasterToKeep(Ticket) \in Master /\ MasterToKeep(Ticket) # None
         /\ StoredMaster \in Master
  BY HubNone DEF HubTypeOK, MasterToKeep, StoredMaster, Credentials

\* Types, one step per action.
LEMMA HubTypeStep == HubTypeOK /\ [HubNext]_hubVars => HubTypeOK'
<1> SUFFICES ASSUME HubTypeOK, [HubNext]_hubVars PROVE HubTypeOK'
  OBVIOUS
<1>0. /\ file \in Credentials /\ keychain \in Credentials
      /\ gen \in [Accounts -> Nat] /\ starts \in Nat /\ logouts \in Nat
      /\ proc \in [Procs -> Operation] /\ out \in BOOLEAN
  BY DEF HubTypeOK
<1>1. ASSUME NEW p \in Procs, NEW o \in Operation, Upd(p, o)
      PROVE  proc' \in [Procs -> Operation]
  BY <1>0, <1>1 DEF Upd
<1>2. ASSUME NEW r \in Rotators, RotationStarts(r) PROVE HubTypeOK'
  <2>1. [Idle EXCEPT !.pc = "asking", !.master = StoredMaster, !.fromFile = Parses(file)]
          \in Operation
    BY HubIdle, MasterKept DEF Operation, Parses
  <2>2. QED
    BY <1>0, <1>1, <1>2, <2>1, HubProcs DEF RotationStarts, Begin, HubTypeOK
<1>3. ASSUME NEW r \in Rotators, HubRotates(r) PROVE HubTypeOK'
  <2>1. Creds(None, proc[r].master.acc) \in Credentials /\ proc[r] \in Operation
    BY <1>0, <1>3, HubProcs, HubNone DEF HubRotates, Valid
  <2>2. [proc[r] EXCEPT !.pc = "answered", !.creds = Creds(None, proc[r].master.acc)] \in Operation
    BY <2>1 DEF Operation
  <2>3. QED
    BY <1>0, <1>1, <1>3, <2>2, HubProcs DEF HubRotates, HubTypeOK
<1>4. ASSUME NEW p \in Rotators \cup Logins, RequestFails(p) PROVE HubTypeOK'
  BY <1>0, <1>1, <1>4, HubProcs, HubIdle DEF RequestFails, HubTypeOK
<1>5. ASSUME NEW l \in Logins, LoginStarts(l) PROVE HubTypeOK'
  <2>1. [Idle EXCEPT !.pc = "asking"] \in Operation
    BY HubIdle DEF Operation
  <2>2. proc' \in [Procs -> Operation] /\ starts' \in Nat
    BY <1>0, <1>1, <1>5, <2>1, HubProcs DEF LoginStarts, Begin
  <2>3. out' \in BOOLEAN
    BY <1>5 DEF LoginStarts
  <2>4. QED
    BY <1>0, <1>5, <2>2, <2>3 DEF LoginStarts, HubTypeOK
<1>6. ASSUME NEW l \in Logins, NEW a \in Accounts, HubGrants(l, a) PROVE HubTypeOK'
  <2> DEFINE m == [acc |-> a, gen |-> gen[a]]
  <2>1. m \in Master /\ Creds(m, a) \in Credentials /\ proc[l] \in Operation
    BY <1>0, HubProcs, HubNone DEF Master
  <2>2. [proc[l] EXCEPT !.pc = "answered", !.master = m, !.creds = Creds(m, a)] \in Operation
    BY <2>1 DEF Operation
  <2>3. QED
    BY <1>0, <1>1, <1>6, <2>2, HubProcs DEF HubGrants, HubTypeOK
<1>7. ASSUME NEW p \in Rotators \cup Logins, StoreStarts(p) PROVE HubTypeOK'
  <2> DEFINE c == Creds(IF p \in Rotators THEN MasterToKeep(Ticket) ELSE proc[p].master,
                        proc[p].creds.key)
  <2>1. c \in Credentials
    BY <1>0, HubProcs, HubNone, MasterKept DEF Operation, Credentials
  <2> HIDE DEF c
  <2>2. \A b \in BOOLEAN : [proc[p] EXCEPT !.pc = "saving", !.creds = c, !.clash = b] \in Operation
    <3>1. proc[p] \in Operation
      BY <1>0, HubProcs
    <3>2. QED
      BY <2>1, <3>1, SavingOf
  <2>3. \A q \in Procs : [proc[q] EXCEPT !.clash = TRUE] \in Operation
    BY <1>0 DEF Operation
  <2>4. OpensTmp(p, c)
    BY <1>7 DEF StoreStarts, c
  <2>5. proc' \in [Procs -> Operation]
    BY <1>0, <2>2, <2>3, <2>4 DEF OpensTmp
  <2>6. QED
    BY <1>0, <1>7, <2>5 DEF StoreStarts, HubTypeOK
<1>8. ASSUME NEW change \in BOOLEAN PROVE Passed(change) \in [Procs -> Operation]
  <2>1. \A q \in Procs : [proc[q] EXCEPT !.passed = TRUE] \in Operation
    BY <1>0 DEF Operation
  <2>2. QED
    BY <1>0, <2>1 DEF Passed
<1>9. ASSUME NEW p \in Rotators \cup Logins, StoreEnds(p) PROVE HubTypeOK'
  <2>1. CASE Upd(p, Idle) /\ UNCHANGED file
    BY <1>0, <1>1, <1>9, <2>1, HubProcs, HubIdle DEF StoreEnds, HubTypeOK
  <2>2. CASE /\ file' \in {proc[p].creds} \cup (IF proc[p].clash THEN {Torn} ELSE {})
             /\ proc' = [Passed(file' = Torn \/ p \in Logins \/ proc[p].passed) EXCEPT ![p].pc = "mirror"]
    <3>1. file' \in Credentials
      BY <1>0, <2>2, HubProcs, HubNone DEF Operation
    <3>2. PICK ps \in [Procs -> Operation] : proc' = [ps EXCEPT ![p].pc = "mirror"]
      BY <1>0, <1>8, <2>2, HubProcs DEF Operation
    <3>3. [ps[p] EXCEPT !.pc = "mirror"] \in Operation
      BY <3>2, HubProcs DEF Operation
    <3>4. proc' \in [Procs -> Operation]
      BY <3>2, <3>3, HubProcs
    <3>5. QED
      BY <1>0, <1>9, <3>1, <3>4 DEF StoreEnds, HubTypeOK
  <2>3. QED
    BY <1>9, <2>1, <2>2 DEF StoreEnds
<1>10. ASSUME NEW p \in Rotators \cup Logins, Mirrors(p) PROVE HubTypeOK'
  <2>1. keychain' \in Credentials
    BY <1>0, <1>10, HubProcs, HubNone DEF Mirrors, Operation, Credentials
  <2>2. QED
    BY <1>0, <1>1, <1>10, <2>1, HubProcs, HubIdle DEF Mirrors, HubTypeOK
<1>11. CASE SignOutStarts
  <2> DEFINE m == IF file.master = None THEN keychain.master ELSE file.master
             b == IF Parses(file) /\ m # None THEN "revoking" ELSE "clearing"
  <2>1. m \in Master /\ b \in {"revoking", "clearing"}
    BY <1>0 DEF Credentials
  <2>2. logouts' \in Nat /\ Upd(SignOut, [Idle EXCEPT !.pc = b, !.master = m])
    BY <1>0, <1>11 DEF SignOutStarts
  <2> HIDE DEF m, b
  <2>3. [Idle EXCEPT !.pc = b, !.master = m] \in Operation
    BY <2>1, HubIdle DEF Operation
  <2>4. QED
    BY <1>0, <1>1, <1>11, <2>2, <2>3, HubProcs DEF SignOutStarts, HubTypeOK
<1>12. CASE Revoke
  <2>1. [proc[SignOut] EXCEPT !.pc = "clearing"] \in Operation
    BY <1>0, HubProcs DEF Operation
  <2>2. gen' \in [Accounts -> Nat]
    BY <1>0, <1>12 DEF Revoke
  <2>3. QED
    BY <1>0, <1>1, <1>12, <2>1, <2>2, HubProcs DEF Revoke, HubTypeOK
<1>13. CASE ClearFile
  <2>1. CASE file' = Gone /\ proc' = [Passed(TRUE) EXCEPT ![SignOut].pc = "forgetting"]
    <3>1. PICK ps \in [Procs -> Operation] : proc' = [ps EXCEPT ![SignOut].pc = "forgetting"]
      BY <1>8, <2>1
    <3>2. [ps[SignOut] EXCEPT !.pc = "forgetting"] \in Operation
      BY <3>1, HubProcs DEF Operation
    <3>3. proc' \in [Procs -> Operation]
      BY <3>1, <3>2, HubProcs
    <3>4. QED
      BY <1>0, <1>13, <2>1, <3>3, HubNone DEF ClearFile, HubTypeOK
  <2>2. CASE Upd(SignOut, Idle) /\ UNCHANGED file
    BY <1>0, <1>1, <1>13, <2>2, HubProcs, HubIdle DEF ClearFile, HubTypeOK
  <2>3. QED
    BY <1>13, <2>1, <2>2 DEF ClearFile
<1>14. CASE ForgetKeychain
  <2>1. keychain' \in Credentials
    BY <1>0, <1>14, HubNone DEF ForgetKeychain, Forgotten, Credentials
  <2>2. out' \in BOOLEAN
    BY <1>0, <1>14 DEF ForgetKeychain, Undisturbed
  <2>3. QED
    BY <1>0, <1>1, <1>14, <2>1, <2>2, HubProcs, HubIdle DEF ForgetKeychain, HubTypeOK
<1>15. CASE Crash
  BY <1>0, <1>15, HubIdle DEF Crash, HubTypeOK
<1>16. CASE UNCHANGED hubVars
  BY <1>0, <1>16 DEF hubVars, HubTypeOK
<1>17. QED
  BY <1>2, <1>3, <1>4, <1>5, <1>6, <1>7, <1>9, <1>10, <1>11, <1>12, <1>13, <1>14, <1>15, <1>16
    DEF HubNext

\* The sign-out stays in force.
LEMMA OutStep == HubInv /\ [HubNext]_hubVars => OutInv'
<1> SUFFICES ASSUME HubInv, [HubNext]_hubVars, out' PROVE OutInv'
  BY DEF OutInv
<1>0. HubTypeOK /\ OutInv /\ proc \in [Procs -> Operation]
  BY DEF HubInv, HubTypeOK
<1>1. ASSUME out, ~ForgetKeychain, ~ClearFile PROVE OutInv'
  <2>1. /\ file = Gone /\ keychain.master = None /\ StoredMaster = None
        /\ \A p \in Rotators \cup Logins : proc[p].pc = "idle"
    BY <1>0, <1>1, HubNone DEF OutInv, StoredMaster
  <2>2. \/ SignOutStarts \/ Revoke \/ Crash \/ UNCHANGED hubVars
    BY <1>1, <2>1, HubProcs DEF HubNext, RotationStarts, HubRotates, LoginStarts, HubGrants, RequestFails,
      StoreStarts, StoreEnds, Saving, Mirrors, At
  <2>3. /\ UNCHANGED <<file, keychain>>
        /\ \A p \in Rotators \cup Logins : proc'[p].pc = "idle"
    BY <1>0, <2>1, <2>2, HubProcs, HubIdle DEF SignOutStarts, Revoke, Crash, hubVars, Upd
  <2>4. QED
    BY <2>1, <2>3 DEF OutInv
<1>2. ASSUME out, ClearFile PROVE OutInv'
  <2>1. /\ file = Gone /\ keychain.master = None
        /\ \A p \in Rotators \cup Logins : proc[p].pc = "idle"
    BY <1>0, <1>2 DEF OutInv
  <2>2. file' = Gone /\ UNCHANGED keychain
    BY <1>2, <2>1 DEF ClearFile
  <2>3. \A p \in Rotators \cup Logins : proc'[p].pc = "idle"
    <3>1. CASE Upd(SignOut, Idle)
      BY <1>0, <2>1, <3>1, HubProcs DEF Upd
    <3>2. CASE proc' = [Passed(TRUE) EXCEPT ![SignOut].pc = "forgetting"]
      BY <1>0, <2>1, <3>2, HubProcs DEF Passed, At
    <3>3. QED
      BY <1>2, <3>1, <3>2 DEF ClearFile
  <2>4. QED
    BY <2>1, <2>2, <2>3 DEF OutInv
<1>3. CASE ForgetKeychain
  <2>1. proc' = [proc EXCEPT ![SignOut] = Idle] /\ UNCHANGED file
    BY <1>3 DEF ForgetKeychain, Upd
  <2>2. CASE keychain' = Forgotten /\ out' = (Undisturbed /\ file = Gone)
    BY <1>0, <2>1, <2>2, HubProcs, HubNone DEF Undisturbed, Forgotten, At, OutInv
  <2>3. CASE keychain' \in {Creds(keychain.master, NoKey), Creds(None, keychain.key), keychain}
             /\ UNCHANGED out
    <3>1. keychain.master \in Master /\ keychain.key \in Accounts \cup {NoKey, "torn"}
      BY <1>0 DEF HubTypeOK, Credentials
    <3>2. file = Gone /\ keychain.master = None
          /\ \A p \in Rotators \cup Logins : proc[p].pc = "idle"
      BY <1>0, <2>3 DEF OutInv
    <3>3. keychain'.master = None
      BY <2>3, <3>1, <3>2, HubNone
    <3>4. QED
      BY <1>0, <2>1, <3>2, <3>3, HubProcs DEF OutInv
  <2>4. QED
    BY <1>3, <2>2, <2>3 DEF ForgetKeychain
<1>4. ASSUME ~out, ~ForgetKeychain PROVE FALSE
  BY <1>4 DEF HubNext, RotationStarts, HubRotates, LoginStarts, HubGrants, RequestFails,
    StoreStarts, StoreEnds, Mirrors, SignOutStarts, Revoke, ClearFile, Crash, hubVars
<1>5. QED
  BY <1>1, <1>2, <1>3, <1>4

\* What the two invariants say of the operation p after a step.
LoginFine(p) ==
  p \in Logins /\ proc[p].pc \in {"answered", "saving"} =>
    proc[p].creds.master # None /\ proc[p].master # None
ProcFine(p) == LoginFine(p) /\ (p \in Rotators => RotatorInv(p))

\* If the file stays, only the operation that moves can break them.
LEMMA HubQuiet ==
  ASSUME HubInv, UNCHANGED file, NEW p \in Procs, ProcFine(p)',
         \A q \in Procs \ {p} : proc'[q] = proc[q] \/ proc'[q] = [proc[q] EXCEPT !.clash = TRUE]
  PROVE  MasterInv' /\ \A r \in Rotators : RotatorInv(r)'
<1>0. /\ HubTypeOK /\ MasterInv /\ \A r \in Rotators : RotatorInv(r)
      /\ proc \in [Procs -> Operation]
  BY DEF HubInv, HubTypeOK
<1>1. MasterToKeep(Ticket)' = MasterToKeep(Ticket) /\ Parses(file)' = Parses(file)
  BY DEF MasterToKeep
<1>2. ASSUME NEW q \in Procs \ {p}
      PROVE  /\ proc'[q].pc = proc[q].pc /\ proc'[q].creds = proc[q].creds
             /\ proc'[q].master = proc[q].master /\ proc'[q].passed = proc[q].passed
             /\ proc'[q].fromFile = proc[q].fromFile
  <2>1. proc[q] \in Operation
    BY <1>0
  <2>2. CASE proc'[q] = proc[q]
    BY <2>2
  <2>3. CASE proc'[q] = [proc[q] EXCEPT !.clash = TRUE]
    BY <2>1, <2>3, ClashOf
  <2>4. QED
    BY <2>2, <2>3
<1>3. ASSUME NEW r \in Rotators \ {p} PROVE RotatorInv(r)'
  <2>1. RotatorInv(r) /\ r \in Procs \ {p}
    BY <1>0, HubProcs
  <2>2. QED
    BY <1>1, <1>2, <2>1 DEF RotatorInv
<1>4. MasterInv'
  BY <1>0, <1>1, <1>2, HubProcs DEF MasterInv, ProcFine, LoginFine
<1>5. QED
  BY <1>3, <1>4 DEF ProcFine

LEMMA IdleFine == ASSUME NEW p \in Procs, proc'[p] = Idle PROVE ProcFine(p)'
  BY HubIdle DEF ProcFine, LoginFine, RotatorInv

\* The file changes hands: every rotation knows.
LEMMA HubPassed ==
  ASSUME HubInv, NEW p \in Procs, NEW place \in {"mirror", "forgetting"},
         proc' = [Passed(TRUE) EXCEPT ![p].pc = place], Parses(file') => file'.master # None
  PROVE  MasterInv' /\ \A r \in Rotators : RotatorInv(r)'
<1>0. /\ MasterInv /\ \A r \in Rotators : RotatorInv(r)
      /\ proc \in [Procs -> Operation]
  BY DEF HubInv, HubTypeOK
<1>1. proc'[p].pc = place
  <2>1. Passed(TRUE)[p] \in Operation
    BY <1>0 DEF Passed, Operation
  <2>2. QED
    BY <2>1 DEF Passed, Operation
<1>2. ASSUME NEW q \in Procs \ {p}
      PROVE  /\ proc'[q].pc = proc[q].pc /\ proc'[q].creds = proc[q].creds
             /\ proc'[q].master = proc[q].master
             /\ proc[q].pc # "idle" => proc'[q].passed
  <2>1. proc[q] \in Operation
    BY <1>0
  <2>2. proc'[q] = IF ~At(q, "idle") THEN [proc[q] EXCEPT !.passed = TRUE] ELSE proc[q]
    BY DEF Passed
  <2>3. CASE proc[q].pc = "idle"
    BY <2>2, <2>3 DEF At
  <2>4. CASE proc[q].pc # "idle"
    <3>1. proc'[q] = [proc[q] EXCEPT !.passed = TRUE]
      BY <2>2, <2>4 DEF At
    <3>2. QED
      BY <2>1, <3>1, PassingOf
  <2>5. QED
    BY <2>3, <2>4
<1>3. ASSUME NEW r \in Rotators PROVE RotatorInv(r)'
  <2>1. RotatorInv(r) /\ r \in Procs
    BY <1>0, HubProcs
  <2>2. CASE r = p
    BY <1>1, <2>2 DEF RotatorInv
  <2>3. CASE r # p
    BY <1>2, <2>1, <2>3 DEF RotatorInv
  <2>4. QED
    BY <2>2, <2>3
<1>4. MasterInv'
  <2>1. Parses(file)' => file'.master # None
    BY DEF Parses
  <2>2. ASSUME NEW l \in Logins, proc'[l].pc \in {"answered", "saving"}
        PROVE  proc'[l].creds.master # None /\ proc'[l].master # None
    <3>1. l \in Procs
      BY HubProcs
    <3>2. l # p
      BY <1>1, <2>2
    <3>3. proc'[l].pc = proc[l].pc /\ proc'[l].creds = proc[l].creds /\ proc'[l].master = proc[l].master
      BY <1>2, <3>1, <3>2
    <3>4. QED
      BY <1>0, <2>2, <3>3 DEF MasterInv
  <2>3. QED
    BY <2>1, <2>2 DEF MasterInv
<1>5. QED
  BY <1>3, <1>4

\* A rotation that no change of hands has reached replaces the file: its master
\* token is the one that was there, or there was none.
LEMMA HubRotated ==
  ASSUME HubInv, NEW p \in Rotators, proc[p].pc = "saving", ~proc[p].passed,
         file' = proc[p].creds, proc' = [Passed(FALSE) EXCEPT ![p].pc = "mirror"]
  PROVE  MasterInv' /\ \A r \in Rotators : RotatorInv(r)'
<1>0. /\ HubTypeOK /\ MasterInv /\ \A r \in Rotators : RotatorInv(r)
      /\ proc \in [Procs -> Operation] /\ p \in Procs
  BY HubProcs DEF HubInv, HubTypeOK
<1>1. /\ proc[p].creds \in Credentials /\ file'.master # None /\ Parses(file')
      /\ file'.master = MasterToKeep(Ticket) /\ MasterToKeep(Ticket)' = MasterToKeep(Ticket)
  <2>1. proc[p].creds \in Credentials /\ RotatorInv(p)
    BY <1>0 DEF Operation
  <2>2. file'.master # None /\ Parses(file') /\ file'.master = MasterToKeep(Ticket)
    BY <2>1, HubNone DEF RotatorInv
  <2>3. QED
    BY <2>1, <2>2 DEF MasterToKeep
<1>2. Passed(FALSE) = proc
  BY <1>0 DEF Passed
<1>3. proc'[p].pc = "mirror" /\ \A q \in Procs \ {p} : proc'[q] = proc[q]
  BY <1>0, <1>2 DEF Operation
<1>4. ASSUME NEW r \in Rotators PROVE RotatorInv(r)'
  <2>1. RotatorInv(r) /\ r \in Procs
    BY <1>0, HubProcs
  <2>2. CASE r = p
    BY <1>3, <2>2 DEF RotatorInv
  <2>3. CASE r # p
    <3>1. proc'[r] = proc[r]
      BY <1>3, <2>1, <2>3
    <3>2. Parses(file) => file'.master = file.master
      BY <1>0, <1>1 DEF MasterInv, MasterToKeep
    <3>3. QED
      BY <1>1, <2>1, <3>1, <3>2 DEF RotatorInv
  <2>4. QED
    BY <2>2, <2>3
<1>5. MasterInv'
  BY <1>0, <1>1, <1>3, HubProcs DEF MasterInv
<1>6. QED
  BY <1>4, <1>5

\* A login or a rotation moves on.
LEMMA HubOperationStep ==
  ASSUME HubInv, NEW p \in Rotators \cup Logins,
         \/ p \in Rotators /\ (RotationStarts(p) \/ HubRotates(p))
         \/ p \in Logins /\ (LoginStarts(p) \/ \E a \in Accounts : HubGrants(p, a))
         \/ RequestFails(p) \/ StoreStarts(p) \/ StoreEnds(p) \/ Mirrors(p)
  PROVE  MasterInv' /\ \A r \in Rotators : RotatorInv(r)'
<1>0. /\ HubTypeOK /\ MasterInv /\ p \in Procs /\ (p \in Rotators => RotatorInv(p))
      /\ proc \in [Procs -> Operation] /\ (p \in Rotators => p \notin Logins)
      /\ proc[p] \in Operation
  BY HubProcs DEF HubInv, HubTypeOK
<1>1. ASSUME NEW o, Upd(p, o), UNCHANGED file, ProcFine(p)'
      PROVE  MasterInv' /\ \A r \in Rotators : RotatorInv(r)'
  BY <1>0, <1>1, HubQuiet DEF Upd
<1>2. CASE p \in Rotators /\ RotationStarts(p)
  <2> DEFINE m == StoredMaster
             b == Parses(file)
             o == [Idle EXCEPT !.pc = "asking", !.master = m, !.fromFile = b]
  <2>1. Upd(p, o) /\ UNCHANGED file /\ (b => m = file.master) /\ b \in BOOLEAN
    BY <1>2 DEF RotationStarts, StoredMaster, Parses
  <2> HIDE DEF m
  <2>2. o.pc = "asking" /\ o.master = m /\ o.fromFile = b
    BY HubIdle DEF Operation
  <2>3. proc'[p] = o
    BY <1>0, <2>1 DEF Upd
  <2>4. ProcFine(p)'
    BY <1>0, <1>2, <2>1, <2>2, <2>3 DEF ProcFine, LoginFine, RotatorInv
  <2>5. QED
    BY <1>1, <2>1, <2>4
<1>3. CASE p \in Rotators /\ HubRotates(p)
  <2> DEFINE c == Creds(None, proc[p].master.acc)
             o == [proc[p] EXCEPT !.pc = "answered", !.creds = c]
  <2>1. Upd(p, o) /\ UNCHANGED file /\ proc[p].pc = "asking" /\ c.key = proc[p].master.acc
    BY <1>3 DEF HubRotates, At, Creds
  <2> HIDE DEF c
  <2>2. o.pc = "answered" /\ o.creds = c /\ o.master = proc[p].master
        /\ o.fromFile = proc[p].fromFile /\ o.passed = proc[p].passed
    BY <1>0 DEF Operation
  <2>3. proc'[p] = o
    BY <1>0, <2>1 DEF Upd
  <2>4. ProcFine(p)'
    BY <1>0, <1>3, <2>1, <2>2, <2>3 DEF ProcFine, LoginFine, RotatorInv
  <2>5. QED
    BY <1>1, <2>1, <2>4
<1>4. CASE p \in Logins /\ LoginStarts(p)
  <2> DEFINE o == [Idle EXCEPT !.pc = "asking"]
  <2>1. Upd(p, o) /\ UNCHANGED file /\ o.pc = "asking"
    BY <1>4, HubIdle DEF LoginStarts, Operation
  <2>2. proc'[p] = o
    BY <1>0, <2>1 DEF Upd
  <2>3. ProcFine(p)'
    BY <1>0, <1>4, <2>1, <2>2 DEF ProcFine, LoginFine
  <2>4. QED
    BY <1>1, <2>1, <2>3
<1>5. ASSUME p \in Logins, NEW a \in Accounts, HubGrants(p, a)
      PROVE  MasterInv' /\ \A r \in Rotators : RotatorInv(r)'
  <2> DEFINE m == [acc |-> a, gen |-> gen[a]]
             c == Creds(m, a)
             o == [proc[p] EXCEPT !.pc = "answered", !.master = m, !.creds = c]
  <2>1. Upd(p, o) /\ UNCHANGED file
    BY <1>5 DEF HubGrants
  <2>2. c.master # None /\ m # None
    <3>1. c.master = m /\ m.acc = a
      BY DEF Creds
    <3>2. QED
      BY <1>5, <3>1, HubAssumption DEF None
  <2> HIDE DEF c, m
  <2>3. o.creds = c /\ o.master = m
    BY <1>0 DEF Operation
  <2>4. proc'[p] = o
    BY <1>0, <2>1 DEF Upd
  <2>5. ProcFine(p)'
    BY <1>0, <1>5, <2>2, <2>3, <2>4 DEF ProcFine, LoginFine
  <2>6. QED
    BY <1>1, <2>1, <2>5
<1>6. CASE RequestFails(p)
  <2>1. Upd(p, Idle) /\ UNCHANGED file /\ proc'[p] = Idle
    BY <1>0, <1>6 DEF RequestFails, Upd
  <2>2. QED
    BY <1>0, <1>1, <2>1, IdleFine
<1>7. CASE Mirrors(p)
  <2>1. Upd(p, Idle) /\ UNCHANGED file /\ proc'[p] = Idle
    BY <1>0, <1>7 DEF Mirrors, Upd
  <2>2. QED
    BY <1>0, <1>1, <2>1, IdleFine
<1>8. CASE StoreStarts(p)
  <2> DEFINE m == IF p \in Rotators THEN MasterToKeep(Ticket) ELSE proc[p].master
             c == Creds(m, proc[p].creds.key)
             b == \E o \in Procs : Saving(o)
  <2>1. OpensTmp(p, c) /\ UNCHANGED file /\ proc[p].pc = "answered"
    BY <1>8 DEF StoreStarts, At
  <2>2. c.master = m /\ c.key = proc[p].creds.key
    BY DEF Creds
  <2>3. /\ proc'[p] = [proc[p] EXCEPT !.pc = "saving", !.creds = c, !.clash = b]
        /\ \A q \in Procs \ {p} : proc'[q] = proc[q] \/ proc'[q] = [proc[q] EXCEPT !.clash = TRUE]
    BY <1>0, <2>1 DEF OpensTmp
  <2> HIDE DEF c, b
  <2>4. /\ proc'[p].pc = "saving" /\ proc'[p].creds = c /\ proc'[p].master = proc[p].master
        /\ proc'[p].fromFile = proc[p].fromFile /\ proc'[p].passed = proc[p].passed
    BY <1>0, <2>3 DEF Operation
  <2>5. MasterToKeep(Ticket)' = MasterToKeep(Ticket) /\ MasterToKeep(Ticket) # None
        /\ Parses(file)' = Parses(file) /\ file' = file
    BY <1>0, <2>1, MasterKept DEF MasterToKeep
  <2>6. ASSUME p \in Rotators PROVE RotatorInv(p)'
    BY <1>0, <2>1, <2>2, <2>4, <2>5, <2>6 DEF RotatorInv
  <2>7. LoginFine(p)'
    BY <1>0, <2>1, <2>2, <2>4 DEF LoginFine, MasterInv
  <2>8. QED
    BY <1>0, <2>1, <2>3, <2>6, <2>7, HubQuiet DEF ProcFine
<1>9. CASE StoreEnds(p)
  <2> DEFINE passed == file' = Torn \/ p \in Logins \/ proc[p].passed
  <2>1. CASE Upd(p, Idle) /\ UNCHANGED file
    <3>1. proc'[p] = Idle
      BY <1>0, <2>1 DEF Upd
    <3>2. QED
      BY <1>0, <1>1, <2>1, <3>1, IdleFine
  <2>2. CASE /\ file' \in {proc[p].creds} \cup (IF proc[p].clash THEN {Torn} ELSE {})
             /\ proc' = [Passed(passed) EXCEPT ![p].pc = "mirror"]
    <3>1. proc[p].pc = "saving" /\ (Parses(file') => file'.master # None)
      BY <1>0, <1>9, <2>2, HubNone DEF StoreEnds, Saving, At, MasterInv, RotatorInv
    <3>2. CASE passed
      <4>1. proc' = [Passed(TRUE) EXCEPT ![p].pc = "mirror"]
        BY <2>2, <3>2 DEF Passed
      <4>2. QED
        BY <1>0, <3>1, <4>1, HubPassed
    <3>3. CASE ~passed
      <4>1. file' = proc[p].creds /\ p \in Rotators /\ ~proc[p].passed
        BY <2>2, <3>3
      <4>2. proc' = [Passed(FALSE) EXCEPT ![p].pc = "mirror"]
        BY <2>2, <3>3 DEF Passed
      <4>3. QED
        BY <3>1, <4>1, <4>2, HubRotated
    <3>4. QED
      BY <3>2, <3>3
  <2>3. QED
    BY <1>9, <2>1, <2>2 DEF StoreEnds
<1>10. QED
  BY <1>2, <1>3, <1>4, <1>5, <1>6, <1>7, <1>8, <1>9

\* The sign-out and the end of the program.
LEMMA HubSignOutStep ==
  ASSUME HubInv, SignOutStarts \/ Revoke \/ ClearFile \/ ForgetKeychain \/ Crash \/ UNCHANGED hubVars
  PROVE  MasterInv' /\ \A r \in Rotators : RotatorInv(r)'
<1>0. /\ MasterInv /\ (\A r \in Rotators : RotatorInv(r)) /\ SignOut \in Procs
      /\ proc \in [Procs -> Operation] /\ SignOut \notin Rotators \cup Logins
  BY HubProcs DEF HubInv, HubTypeOK
<1>1. ASSUME NEW o, Upd(SignOut, o), UNCHANGED file
      PROVE  MasterInv' /\ \A r \in Rotators : RotatorInv(r)'
  <2>1. ProcFine(SignOut)'
    BY <1>0 DEF ProcFine, LoginFine
  <2>2. QED
    BY <1>0, <1>1, <2>1, HubQuiet DEF Upd
<1>2. CASE SignOutStarts \/ Revoke \/ ForgetKeychain
  BY <1>1, <1>2 DEF SignOutStarts, Revoke, ForgetKeychain
<1>3. CASE ClearFile
  <2>1. CASE Upd(SignOut, Idle) /\ UNCHANGED file
    BY <1>1, <2>1
  <2>2. CASE file' = Gone /\ proc' = [Passed(TRUE) EXCEPT ![SignOut].pc = "forgetting"]
    BY <1>0, <2>2, HubPassed, HubNone
  <2>3. QED
    BY <1>3, <2>1, <2>2 DEF ClearFile
<1>4. CASE Crash
  <2>1. \A p \in Procs : proc'[p].pc = "idle"
    BY <1>4, HubIdle DEF Crash
  <2>2. QED
    BY <1>0, <1>4, <2>1, HubProcs DEF Crash, MasterInv, RotatorInv
<1>5. CASE UNCHANGED hubVars
  <2>1. file' = file /\ proc' = proc
    BY <1>5 DEF hubVars
  <2>2. MasterToKeep(Ticket)' = MasterToKeep(Ticket) /\ Parses(file)' = Parses(file)
    BY <2>1 DEF MasterToKeep
  <2>3. QED
    BY <1>0, <2>1, <2>2 DEF MasterInv, RotatorInv
<1>6. QED
  BY <1>2, <1>3, <1>4, <1>5

LEMMA HubInvInit == HubInit => HubInv
<1> SUFFICES ASSUME HubInit PROVE HubInv
  OBVIOUS
<1>1. PICK a \in Accounts : LET c == Creds([acc |-> a, gen |-> 0], a) IN
        (file = c \/ file = Gone) /\ (keychain = c \/ keychain = Gone)
  BY DEF HubInit
<1> DEFINE m == [acc |-> a, gen |-> 0]
<1>2. m \in Master /\ m # None
  BY HubAssumption DEF Master, None
<1> HIDE DEF m
<1>3. /\ Creds(m, a) \in Credentials /\ Creds(m, a).master # None /\ Gone \in Credentials
  BY <1>2, HubNone
<1>4. file \in Credentials /\ keychain \in Credentials /\ (Parses(file) => file.master # None)
  BY <1>1, <1>3, HubNone DEF m
<1>5. proc \in [Procs -> Operation] /\ (\A p \in Procs : proc[p].pc = "idle") /\ out = FALSE
  BY HubIdle DEF HubInit
<1>6. HubTypeOK
  <2>1. gen \in [Accounts -> Nat] /\ starts \in Nat /\ logouts \in Nat
    BY DEF HubInit
  <2>2. out \in BOOLEAN
    BY <1>5
  <2>3. QED
    BY <1>4, <1>5, <2>1, <2>2 DEF HubTypeOK
<1>7. \A r \in Rotators : RotatorInv(r)
  BY <1>5, HubProcs DEF RotatorInv
<1>8. OutInv /\ MasterInv
  BY <1>4, <1>5, HubProcs DEF OutInv, MasterInv
<1>9. QED
  BY <1>6, <1>7, <1>8 DEF HubInv

LEMMA HubInvStep == HubInv /\ [HubNext]_hubVars => HubInv'
<1> SUFFICES ASSUME HubInv, [HubNext]_hubVars PROVE HubInv'
  OBVIOUS
<1>1. HubTypeOK'
  BY HubTypeStep DEF HubInv
<1>2. OutInv'
  BY OutStep
<1>3. MasterInv' /\ \A r \in Rotators : RotatorInv(r)'
  BY HubOperationStep, HubSignOutStep DEF HubNext
<1>4. QED
  BY <1>1, <1>2, <1>3 DEF HubInv

LEMMA HubInvCorrect == HubSpec => []HubInv
  BY HubInvInit, HubInvStep, PTL DEF HubSpec

\* The credentials, the keychain and the operations keep their types.
THEOREM HubTypeCorrect == HubSpec => []HubTypeOK
  BY HubInvCorrect, PTL DEF HubInv

\* After a complete and undisturbed sign-out no credentials come back before
\* somebody logs in.
THEOREM SignOutsAreFinal == HubSpec => []SignOutIsFinal
<1>1. HubInv => SignOutIsFinal
  BY DEF HubInv, OutInv, SignOutIsFinal
<1>2. QED
  BY <1>1, HubInvCorrect, PTL

\* A rotation that found the file and was not overtaken keeps the master token
\* it used and stores a key of the same account.
THEOREM RotationsKeepMaster == HubSpec => RotationKeepsMaster
<1>1. ASSUME HubInv, [HubNext]_hubVars, NEW r \in Rotators, Rotates(r), ~proc[r].passed,
             proc[r].fromFile, ~proc[r].clash
      PROVE  file'.master = proc[r].master /\ file'.key = proc[r].master.acc
  <2>0. /\ HubTypeOK /\ RotatorInv(r) /\ r \in Procs /\ proc \in [Procs -> Operation]
        /\ proc[r] \in Operation /\ proc[r].pc = "saving" /\ proc'[r].pc = "mirror"
    BY <1>1, HubProcs DEF HubInv, HubTypeOK, Rotates, Saving, At
  <2>1. /\ proc[r].creds.key = proc[r].master.acc /\ proc[r].creds.master = proc[r].master
    BY <1>1, <2>0 DEF RotatorInv, MasterToKeep, HubInv, MasterInv
  <2>2. ASSUME NEW p \in Procs, p # r, NEW o, Upd(p, o) PROVE FALSE
    BY <2>0, <2>2 DEF Upd
  <2>3. ASSUME NEW p \in Procs, p # r, NEW change, NEW place,
               proc' = [Passed(change) EXCEPT ![p].pc = place]
        PROVE  FALSE
    <3>1. proc'[r] = Passed(change)[r]
      BY <2>0, <2>3 DEF Passed
    <3>2. Passed(change)[r] = proc[r] \/ Passed(change)[r] = [proc[r] EXCEPT !.passed = TRUE]
      BY <2>0 DEF Passed
    <3>3. QED
      BY <2>0, <3>1, <3>2 DEF Operation
  <2>4. ASSUME NEW p \in Rotators \cup Logins, StoreStarts(p) PROVE FALSE
    <3>1. \/ proc'[r] = proc[r] \/ proc'[r] = [proc[r] EXCEPT !.clash = TRUE]
          \/ proc[r].pc = "answered"
      BY <2>0, <2>4 DEF StoreStarts, OpensTmp, At
    <3>2. QED
      BY <2>0, <3>1 DEF Operation
  <2>5. CASE StoreEnds(r)
    <3>1. proc'[r] # Idle
      BY <2>0, HubIdle
    <3>2. file' = proc[r].creds
      BY <1>1, <2>0, <2>5, <3>1 DEF StoreEnds, Upd
    <3>3. QED
      BY <2>1, <3>2
  <2>6. ASSUME NEW p \in Rotators \cup Logins, p # r, StoreEnds(p) PROVE FALSE
    BY <2>2, <2>3, <2>6, HubProcs DEF StoreEnds
  <2>7. ASSUME NEW p \in Rotators \cup Logins, RequestFails(p) \/ Mirrors(p) PROVE FALSE
    <3>1. p \in Procs /\ Upd(p, Idle)
      BY <2>7, HubProcs DEF RequestFails, Mirrors
    <3>2. proc'[r] = proc[r] \/ proc'[r] = Idle
      BY <2>0, <3>1 DEF Upd
    <3>3. QED
      BY <2>0, <3>2, HubIdle
  <2>8. ASSUME NEW q \in Rotators, RotationStarts(q) \/ HubRotates(q) PROVE FALSE
    <3>1. q # r
      BY <2>0, <2>8 DEF RotationStarts, HubRotates, At
    <3>2. QED
      BY <2>2, <2>8, <3>1, HubProcs DEF RotationStarts, HubRotates
  <2>9. ASSUME NEW l \in Logins, LoginStarts(l) \/ \E a \in Accounts : HubGrants(l, a) PROVE FALSE
    <3>1. l # r /\ l \in Procs
      BY HubProcs
    <3>2. QED
      BY <2>2, <2>9, <3>1 DEF LoginStarts, HubGrants
  <2>10. ASSUME SignOutStarts \/ Revoke \/ ForgetKeychain \/ ClearFile PROVE FALSE
    <3>1. SignOut # r /\ SignOut \in Procs
      BY HubProcs
    <3>2. QED
      BY <2>2, <2>3, <2>10, <3>1 DEF SignOutStarts, Revoke, ForgetKeychain, ClearFile
  <2>11. ASSUME Crash \/ UNCHANGED hubVars PROVE FALSE
    BY <2>0, <2>11, HubIdle DEF Crash, hubVars
  <2>12. QED
    BY <1>1, <2>4, <2>5, <2>6, <2>7, <2>8, <2>9, <2>10, <2>11 DEF HubNext
<1>2. ASSUME HubInv, [HubNext]_hubVars
      PROVE  \A r \in Rotators :
       /\ Rotates(r) /\ ~proc[r].passed /\ proc[r].fromFile /\ ~proc[r].clash
       => file'.master = proc[r].master /\ file'.key = proc[r].master.acc
  BY <1>1, <1>2
<1>3. QED
  BY <1>2, HubInvCorrect, PTL DEF HubSpec, RotationKeepsMaster

-----------------------------------------------------------------------------
(* The loopback server.                                                    *)

CommandState ==
  [pc : {"idle", "take", "join", "spawn", "put", "stop", "joinstop"},
   hold : Servers \cup {NoServer}]

LTypeOK ==
  /\ task \in [Servers -> {"none", "checking", "accepting", "reading", "ended"}]
  /\ stopping \subseteq Servers /\ pickup \in [Servers -> Codes \cup {NoCode}]
  /\ clients \in Nat /\ slot \in Servers \cup {NoServer} /\ overlap \in BOOLEAN
  /\ cmd \in [Commands -> CommandState]

\* A command has a server in its hands from taking it out until it has ended, or
\* from starting it until it is in the slot; the one it waits for was told.
HoldInv ==
  \A c \in Commands :
    /\ cmd[c].pc \in {"idle", "take", "spawn", "stop"} => cmd[c].hold = NoServer
    /\ cmd[c].pc \in {"join", "joinstop"} => cmd[c].hold \in stopping \cup {NoServer}

\* Without overlapping starts the slot stays empty from taking the old server
\* out until the new one is put in.
Starting(c) == cmd[c].pc \in {"take", "join", "spawn", "put"}
SlotInv ==
  ~overlap =>
    /\ \A c, d \in Commands : Starting(c) /\ Starting(d) => c = d
    /\ \A c \in Commands : cmd[c].pc \in {"join", "spawn", "put"} => slot = NoServer

LoopbackInv == LTypeOK /\ HoldInv /\ SlotInv /\ NoStrayServer

LEMMA NoServerIs == NoServer \notin Servers /\ NoServer \in Nat
  BY DEF Servers, NoServer

LEMMA LoopbackInit == LInit => LoopbackInv
<1> SUFFICES ASSUME LInit PROVE LoopbackInv
  OBVIOUS
<1>1. /\ \A c \in Commands : cmd[c].pc = "idle" /\ cmd[c].hold = NoServer
      /\ \A s \in Servers : task[s] = "none"
  BY DEF LInit, Resting
<1>2. overlap \in BOOLEAN
  BY DEF LInit
<1>3. LTypeOK
  <2>1. Resting \in CommandState
    BY DEF Resting, CommandState
  <2>2. QED
    BY <1>2, <2>1 DEF LInit, LTypeOK
<1>4. HoldInv /\ SlotInv /\ NoStrayServer
  BY <1>1 DEF HoldInv, SlotInv, Starting, NoStrayServer, Alive
<1>5. QED
  BY <1>3, <1>4 DEF LoopbackInv

\* The server's task goes its way.
LEMMA ServerKeeps ==
  ASSUME LoopbackInv, NEW s \in Servers, ServerStep(s)
  PROVE  LoopbackInv'
<1>1. /\ LTypeOK /\ HoldInv /\ SlotInv /\ NoStrayServer
      /\ UNCHANGED <<stopping, slot, cmd, overlap>>
  BY DEF LoopbackInv, ServerStep, Check, AcceptTimesOut, Accept, Request
<1>2. /\ task[s] \notin {"none", "ended"}
      /\ \E st \in {"checking", "accepting", "reading", "ended"} : task' = [task EXCEPT ![s] = st]
  BY DEF ServerStep, Check, AcceptTimesOut, Accept, Request, Become
<1>3. clients' \in Nat
  BY <1>1 DEF LTypeOK, ServerStep, Check, AcceptTimesOut, Accept, Request
<1>4. pickup' \in [Servers -> Codes \cup {NoCode}]
  BY <1>1 DEF LTypeOK, ServerStep, Check, AcceptTimesOut, Accept, Request
<1>5. LTypeOK'
  BY <1>1, <1>2, <1>3, <1>4 DEF LTypeOK
<1>6. \A t \in Servers : Alive(t)' => Alive(t)
  BY <1>1, <1>2 DEF LTypeOK, Alive
<1>7. HoldInv' /\ SlotInv' /\ NoStrayServer'
  BY <1>1, <1>6 DEF HoldInv, SlotInv, Starting, NoStrayServer
<1>8. QED
  BY <1>5, <1>7 DEF LoopbackInv

\* A command that changes only its place.
LEMMA MoveIs ==
  ASSUME LTypeOK, NEW c \in Commands,
         NEW place \in {"idle", "take", "join", "spawn", "put", "stop", "joinstop"}, Move(c, place)
  PROVE  /\ cmd' \in [Commands -> CommandState]
         /\ cmd'[c].pc = place /\ cmd'[c].hold = cmd[c].hold
         /\ \A d \in Commands \ {c} : cmd'[d] = cmd[d]
  BY DEF LTypeOK, Move, CommandState

LEMMA CommandKeeps ==
  ASSUME LoopbackInv, NEW c \in Commands, StartCalled(c) \/ StopCalled(c) \/ CommandStep(c)
  PROVE  LoopbackInv'
<1>1. /\ LTypeOK /\ HoldInv /\ SlotInv /\ NoStrayServer
  BY DEF LoopbackInv
<1>2. CASE StartCalled(c)
  <2>1. /\ Move(c, "take") /\ cmd[c].pc = "idle" /\ overlap' = (overlap \/ StartUnderway)
        /\ UNCHANGED <<task, stopping, pickup, clients, slot>>
    BY <1>2 DEF StartCalled
  <2>2. overlap' \in BOOLEAN
    BY <2>1
  <2>3. /\ cmd' \in [Commands -> CommandState]
        /\ cmd'[c].pc = "take" /\ cmd'[c].hold = cmd[c].hold
        /\ \A d \in Commands \ {c} : cmd'[d] = cmd[d]
    BY <1>1, <2>1, MoveIs
  <2>4. LTypeOK'
    BY <1>1, <2>1, <2>2, <2>3 DEF LTypeOK
  <2>5. HoldInv'
    BY <1>1, <2>1, <2>3 DEF HoldInv
  <2>6. ~overlap' => ~overlap /\ \A d \in Commands : ~Starting(d)
    BY <2>1 DEF StartUnderway, Starting
  <2>7. SlotInv'
    BY <2>3, <2>6 DEF SlotInv, Starting
  <2>8. NoStrayServer'
    BY <1>1, <2>1, <2>3, <2>6 DEF NoStrayServer, Alive
  <2>9. QED
    BY <2>4, <2>5, <2>7, <2>8 DEF LoopbackInv
<1>3. CASE StopCalled(c) \/ BindFails(c)
  <2>1. PICK place \in {"stop", "idle"} : Move(c, place)
    BY <1>3 DEF StopCalled, BindFails
  <2>2. /\ cmd[c].pc \in {"idle", "spawn"}
        /\ UNCHANGED <<task, stopping, pickup, clients, slot, overlap>>
    BY <1>3 DEF StopCalled, BindFails
  <2>3. /\ cmd' \in [Commands -> CommandState]
        /\ cmd'[c].pc = place /\ cmd'[c].hold = cmd[c].hold
        /\ \A d \in Commands \ {c} : cmd'[d] = cmd[d]
    BY <1>1, <2>1, MoveIs
  <2>4. LTypeOK'
    BY <1>1, <2>2, <2>3 DEF LTypeOK
  <2>5. HoldInv'
    BY <1>1, <2>2, <2>3 DEF HoldInv
  <2>6. SlotInv'
    BY <1>1, <2>2, <2>3 DEF SlotInv, Starting
  <2>7. NoStrayServer'
    BY <1>1, <2>2, <2>3 DEF NoStrayServer, Alive
  <2>8. QED
    BY <2>4, <2>5, <2>6, <2>7 DEF LoopbackInv
<1>4. CASE TakeOld(c)
  <2> DEFINE n == [pc |-> IF cmd[c].pc = "take" THEN "join" ELSE "joinstop", hold |-> slot]
  <2>1. /\ cmd' = [cmd EXCEPT ![c] = n] /\ n \in CommandState /\ n.hold = slot
        /\ cmd[c].pc \in {"take", "stop"} /\ slot' = NoServer /\ stopping' = Tell(slot)
        /\ n.pc = (IF cmd[c].pc = "take" THEN "join" ELSE "joinstop")
        /\ UNCHANGED <<task, pickup, clients, overlap>>
    BY <1>1, <1>4 DEF TakeOld, CommandState, LTypeOK
  <2> HIDE DEF n
  <2>2. /\ cmd' \in [Commands -> CommandState] /\ cmd'[c] = n
        /\ \A d \in Commands \ {c} : cmd'[d] = cmd[d]
    BY <1>1, <2>1 DEF LTypeOK
  <2>3. /\ stopping \subseteq stopping' /\ stopping' \subseteq Servers
        /\ slot \in stopping' \cup {NoServer}
    BY <1>1, <2>1 DEF Tell, LTypeOK
  <2>4. LTypeOK'
    BY <1>1, <2>1, <2>2, <2>3 DEF LTypeOK
  <2>5. HoldInv'
    BY <1>1, <2>1, <2>2, <2>3 DEF HoldInv
  <2>6. SlotInv'
    BY <1>1, <2>1, <2>2 DEF SlotInv, Starting
  <2>7. NoStrayServer'
    <3>1. cmd[c].hold = NoServer
      BY <1>1, <2>1 DEF HoldInv
    <3>2. QED
      BY <1>1, <2>1, <2>2, <2>3, <3>1, NoServerIs DEF NoStrayServer, Alive
  <2>8. QED
    BY <2>4, <2>5, <2>6, <2>7 DEF LoopbackInv
<1>5. CASE Joined(c)
  <2> DEFINE n == [pc |-> IF cmd[c].pc = "join" THEN "spawn" ELSE "idle", hold |-> NoServer]
  <2>1. /\ cmd' = [cmd EXCEPT ![c] = n] /\ n \in CommandState /\ n.hold = NoServer
        /\ cmd[c].pc \in {"join", "joinstop"}
        /\ cmd[c].hold # NoServer => task[cmd[c].hold] = "ended"
        /\ n.pc = (IF cmd[c].pc = "join" THEN "spawn" ELSE "idle")
        /\ UNCHANGED <<task, stopping, pickup, clients, slot, overlap>>
    BY <1>5 DEF Joined, CommandState
  <2> HIDE DEF n
  <2>2. /\ cmd' \in [Commands -> CommandState] /\ cmd'[c] = n
        /\ \A d \in Commands \ {c} : cmd'[d] = cmd[d]
    BY <1>1, <2>1 DEF LTypeOK
  <2>3. LTypeOK'
    BY <1>1, <2>1, <2>2 DEF LTypeOK
  <2>4. HoldInv'
    BY <1>1, <2>1, <2>2 DEF HoldInv
  <2>5. SlotInv'
    BY <1>1, <2>1, <2>2 DEF SlotInv, Starting
  <2>6. NoStrayServer'
    BY <1>1, <2>1, <2>2, NoServerIs DEF NoStrayServer, Alive
  <2>7. QED
    BY <2>3, <2>4, <2>5, <2>6 DEF LoopbackInv
<1>6. ASSUME NEW s \in Servers, Spawn(c, s) PROVE LoopbackInv'
  <2> DEFINE n == [pc |-> "put", hold |-> s]
  <2>1. /\ cmd' = [cmd EXCEPT ![c] = n] /\ n \in CommandState /\ n.hold = s /\ n.pc = "put"
        /\ cmd[c].pc = "spawn" /\ task' = [task EXCEPT ![s] = "checking"]
        /\ UNCHANGED <<stopping, pickup, clients, slot, overlap>>
    BY <1>6 DEF Spawn, Become, CommandState
  <2> HIDE DEF n
  <2>2. /\ cmd' \in [Commands -> CommandState] /\ cmd'[c] = n
        /\ \A d \in Commands \ {c} : cmd'[d] = cmd[d]
    BY <1>1, <2>1 DEF LTypeOK
  <2>3. LTypeOK'
    BY <1>1, <2>1, <2>2 DEF LTypeOK
  <2>4. HoldInv'
    BY <1>1, <2>1, <2>2 DEF HoldInv
  <2>5. SlotInv'
    BY <1>1, <2>1, <2>2 DEF SlotInv, Starting
  <2>6. NoStrayServer'
    <3>1. cmd[c].hold = NoServer /\ \A t \in Servers \ {s} : task'[t] = task[t]
      BY <1>1, <2>1 DEF HoldInv, LTypeOK
    <3>2. QED
      BY <1>1, <2>1, <2>2, <3>1, NoServerIs DEF NoStrayServer, Alive
  <2>7. QED
    BY <2>3, <2>4, <2>5, <2>6 DEF LoopbackInv
<1>7. CASE Put(c)
  <2>1. /\ cmd' = [cmd EXCEPT ![c] = Resting] /\ Resting \in CommandState
        /\ Resting.hold = NoServer /\ Resting.pc = "idle"
        /\ cmd[c].pc = "put" /\ slot' = cmd[c].hold
        /\ UNCHANGED <<task, stopping, pickup, clients, overlap>>
    BY <1>7 DEF Put, Resting, CommandState
  <2>2. /\ cmd' \in [Commands -> CommandState] /\ cmd'[c] = Resting
        /\ \A d \in Commands \ {c} : cmd'[d] = cmd[d]
    BY <1>1, <2>1 DEF LTypeOK
  <2>3. LTypeOK'
    BY <1>1, <2>1, <2>2 DEF LTypeOK, CommandState
  <2>4. HoldInv'
    BY <1>1, <2>1, <2>2 DEF HoldInv
  <2>5. SlotInv'
    BY <1>1, <2>1, <2>2 DEF SlotInv, Starting
  <2>6. NoStrayServer'
    <3>1. ~overlap => slot = NoServer
      BY <1>1, <2>1 DEF SlotInv
    <3>2. QED
      BY <1>1, <2>1, <2>2, <3>1, NoServerIs DEF NoStrayServer, Alive
  <2>7. QED
    BY <2>3, <2>4, <2>5, <2>6 DEF LoopbackInv
<1>8. QED
  BY <1>2, <1>3, <1>4, <1>5, <1>6, <1>7 DEF CommandStep

LEMMA LoopbackInvCorrect == LSpec => []LoopbackInv
<1>1. LoopbackInv /\ [LNext]_lvars => LoopbackInv'
  <2> SUFFICES ASSUME LoopbackInv, [LNext]_lvars PROVE LoopbackInv'
    OBVIOUS
  <2>1. CASE LNext
    BY <2>1, ServerKeeps, CommandKeeps DEF LNext
  <2>2. CASE UNCHANGED lvars
    BY <2>2 DEF lvars, LoopbackInv, LTypeOK, HoldInv, SlotInv, Starting, NoStrayServer, Alive
  <2>3. QED
    BY <2>1, <2>2
<1>2. QED
  BY <1>1, LoopbackInit, PTL DEF LSpec

\* The servers, the slot and the commands keep their types.
THEOREM LoopbackTypeCorrect == LSpec => []LTypeOK
<1>1. LoopbackInv => LTypeOK
  BY DEF LoopbackInv
<1>2. QED
  BY <1>1, LoopbackInvCorrect, PTL

\* A server that runs can be stopped, unless two starts overlapped.
THEOREM NoServerIsStray == LSpec => []NoStrayServer
<1>1. LoopbackInv => NoStrayServer
  BY DEF LoopbackInv
<1>2. QED
  BY <1>1, LoopbackInvCorrect, PTL

\* What keeps CommandsReturn from failing.  The lock is held by the one command
\* that waits for a server to end; whatever is in the slot or in the hands of a
\* command, or was told to stop, was started.
LockedByJoin ==
  /\ lock # "free" => lock \in Commands /\ cmd[lock].pc \in {"join", "joinstop"}
  /\ \A c \in Commands : cmd[c].pc \in {"join", "joinstop"} => lock = c
StartedBefore ==
  /\ slot # NoServer => task[slot] # "none"
  /\ \A c \in Commands : cmd[c].hold # NoServer => task[cmd[c].hold] # "none"
  /\ \A s \in stopping : task[s] # "none"
StallInv == LoopbackInv /\ LockedByJoin /\ StartedBefore

\* A command can take its next step, or waits for a server that runs and was
\* told to stop.
CanGoOn(c) ==
  \/ cmd[c].pc = "spawn"
  \/ cmd[c].pc \in {"take", "stop", "put"} /\ lock = "free"
  \/ cmd[c].pc \in {"join", "joinstop"} /\ (cmd[c].hold # NoServer => task[cmd[c].hold] = "ended")
WaitsForTold(c) ==
  cmd[c].pc \in {"join", "joinstop"} /\ cmd[c].hold \in stopping /\ Alive(cmd[c].hold)

\* How far a server that was told to stop is from its end, and a command from
\* its return.
ServerLeft(place) ==
  CASE place = "accepting" -> 3 [] place = "reading" -> 2 [] place = "checking" -> 1 [] OTHER -> 0
CommandLeft(place) ==
  CASE place = "take" -> 4 [] place = "join" -> 3 [] place \in {"spawn", "stop"} -> 2
    [] place \in {"put", "joinstop"} -> 1 [] OTHER -> 0

LEMMA StallInvStep == StallInv /\ [LNext]_lvars => StallInv'
<1> SUFFICES ASSUME StallInv, [LNext]_lvars PROVE LoopbackInv' /\ LockedByJoin' /\ StartedBefore'
  BY DEF StallInv
<1>1. /\ LoopbackInv /\ LTypeOK /\ LockedByJoin /\ StartedBefore
      /\ \A c \in Commands : cmd[c] \in CommandState /\ cmd[c].hold \in Servers \cup {NoServer}
      /\ \A c \in Commands : cmd[c].pc \in {"idle", "take", "spawn", "stop"} => cmd[c].hold = NoServer
      /\ task \in [Servers -> {"none", "checking", "accepting", "reading", "ended"}]
      /\ stopping \subseteq Servers /\ slot \in Servers \cup {NoServer}
  BY DEF StallInv, LoopbackInv, LTypeOK, HoldInv, CommandState
<1>2. LoopbackInv'
  BY <1>1, ServerKeeps, CommandKeeps
    DEF LNext, lvars, LoopbackInv, LTypeOK, HoldInv, SlotInv, Starting, NoStrayServer, Alive
<1>3. ASSUME NEW s \in Servers, ServerStep(s) PROVE LockedByJoin' /\ StartedBefore'
  <2>1. /\ \E st \in {"checking", "accepting", "reading", "ended"} : task' = [task EXCEPT ![s] = st]
        /\ UNCHANGED <<stopping, slot, lock, cmd>>
    BY <1>3 DEF ServerStep, Check, AcceptTimesOut, Accept, Request, Become
  <2>2. \A t \in Servers : task[t] # "none" => task'[t] # "none"
    BY <1>1, <2>1
  <2>3. QED
    BY <1>1, <2>1, <2>2 DEF LockedByJoin, StartedBefore
<1>4. ASSUME NEW c \in Commands, StartCalled(c) \/ StopCalled(c) \/ BindFails(c)
      PROVE  LockedByJoin' /\ StartedBefore'
  <2>1. PICK place \in {"take", "stop", "idle"} : Move(c, place)
    BY <1>4 DEF StartCalled, StopCalled, BindFails
  <2>2. cmd[c].pc \in {"idle", "spawn"} /\ UNCHANGED <<task, stopping, slot, lock>>
    BY <1>4 DEF StartCalled, StopCalled, BindFails
  <2>3. /\ cmd'[c].pc = place /\ cmd'[c].hold = cmd[c].hold
        /\ \A d \in Commands \ {c} : cmd'[d] = cmd[d]
    BY <1>1, <2>1, MoveIs
  <2>4. QED
    BY <1>1, <2>2, <2>3 DEF LockedByJoin, StartedBefore
<1>5. ASSUME NEW c \in Commands, TakeOld(c) PROVE LockedByJoin' /\ StartedBefore'
  <2>1. /\ cmd[c].pc \in {"take", "stop"} /\ lock = "free" /\ lock' = c /\ slot' = NoServer
        /\ stopping' = Tell(slot) /\ task' = task
        /\ cmd'[c].pc \in {"join", "joinstop"} /\ cmd'[c].hold = slot
        /\ \A d \in Commands \ {c} : cmd'[d] = cmd[d]
    BY <1>1, <1>5 DEF TakeOld, LTypeOK
  <2>2. \A d \in Commands : cmd[d].pc \notin {"join", "joinstop"}
    BY <1>1, <2>1, LoopbackAssumption DEF LockedByJoin
  <2>3. LockedByJoin'
    BY <2>1, <2>2 DEF LockedByJoin
  <2>4. StartedBefore'
    BY <1>1, <2>1 DEF StartedBefore, Tell
  <2>5. QED
    BY <2>3, <2>4
<1>6. ASSUME NEW c \in Commands, Joined(c) PROVE LockedByJoin' /\ StartedBefore'
  <2>1. /\ cmd[c].pc \in {"join", "joinstop"} /\ lock' = "free"
        /\ cmd'[c].pc \in {"spawn", "idle"} /\ cmd'[c].hold = NoServer
        /\ \A d \in Commands \ {c} : cmd'[d] = cmd[d]
        /\ UNCHANGED <<task, stopping, slot>>
    BY <1>1, <1>6 DEF Joined, LTypeOK
  <2>2. \A d \in Commands : cmd'[d].pc \notin {"join", "joinstop"}
    BY <1>1, <2>1 DEF LockedByJoin
  <2>3. QED
    BY <1>1, <2>1, <2>2 DEF LockedByJoin, StartedBefore
<1>7. ASSUME NEW c \in Commands, NEW s \in Servers, Spawn(c, s) PROVE LockedByJoin' /\ StartedBefore'
  <2>1. /\ cmd[c].pc = "spawn" /\ cmd'[c].pc = "put" /\ cmd'[c].hold = s
        /\ \A d \in Commands \ {c} : cmd'[d] = cmd[d]
        /\ task' = [task EXCEPT ![s] = "checking"]
        /\ UNCHANGED <<stopping, slot, lock>>
    BY <1>1, <1>7 DEF Spawn, Become, LTypeOK
  <2>2. \A t \in Servers : task[t] # "none" => task'[t] # "none"
    BY <1>1, <2>1
  <2>3. task'[s] # "none"
    BY <1>1, <2>1
  <2>4. QED
    BY <1>1, <2>1, <2>2, <2>3 DEF LockedByJoin, StartedBefore
<1>8. ASSUME NEW c \in Commands, Put(c) PROVE LockedByJoin' /\ StartedBefore'
  <2>1. /\ cmd[c].pc = "put" /\ cmd'[c].pc = "idle" /\ cmd'[c].hold = NoServer /\ slot' = cmd[c].hold
        /\ \A d \in Commands \ {c} : cmd'[d] = cmd[d]
        /\ UNCHANGED <<task, stopping, lock>>
    BY <1>1, <1>8 DEF Put, Resting, LTypeOK
  <2>2. QED
    BY <1>1, <2>1 DEF LockedByJoin, StartedBefore
<1>9. CASE UNCHANGED lvars
  <2>1. UNCHANGED <<task, stopping, slot, lock, cmd>>
    BY <1>9 DEF lvars
  <2>2. LockedByJoin' /\ StartedBefore'
    BY <1>1, <2>1 DEF LockedByJoin, StartedBefore
  <2>3. QED
    BY <1>2, <2>2
<1>10. QED
  BY <1>2, <1>3, <1>4, <1>5, <1>6, <1>7, <1>8, <1>9 DEF LNext, CommandStep

LEMMA StallInvCorrect == LSpec => []StallInv
<1>1. LInit => StallInv
  BY LoopbackInit DEF LInit, Resting, StallInv, LockedByJoin, StartedBefore
<1>2. QED
  BY <1>1, StallInvStep, PTL DEF LSpec

\* Commands and servers do not wait for each other for ever: a command can go on,
\* or whoever holds the lock can, or the one it waits for is a server that runs
\* and was told to stop; and every step of such a server, and of a command,
\* brings it nearer its end, whatever the browser and other commands do.
THEOREM LoopbackCannotStall ==
  LSpec =>
    /\ [](\A c \in Commands : cmd[c].pc # "idle" =>
            \E d \in Commands : (d = c \/ lock = d) /\ (CanGoOn(d) \/ WaitsForTold(d)))
    /\ [][/\ \A s \in stopping :
               task'[s] = task[s] \/ ServerLeft(task'[s]) < ServerLeft(task[s])
          /\ \A c \in Commands : cmd[c].pc # "idle" =>
               cmd'[c].pc = cmd[c].pc \/ CommandLeft(cmd'[c].pc) < CommandLeft(cmd[c].pc)]_lvars
<1>1. ASSUME StallInv, NEW c \in Commands, cmd[c].pc # "idle"
      PROVE  \E d \in Commands : (d = c \/ lock = d) /\ (CanGoOn(d) \/ WaitsForTold(d))
  <2>1. /\ \A d \in Commands : cmd[d] \in CommandState
        /\ task \in [Servers -> {"none", "checking", "accepting", "reading", "ended"}]
        /\ stopping \subseteq Servers
        /\ \A d \in Commands : cmd[d].pc \in {"join", "joinstop"} => cmd[d].hold \in stopping \cup {NoServer}
    BY <1>1 DEF StallInv, LoopbackInv, LTypeOK, HoldInv
  <2>2. ASSUME NEW d \in Commands, cmd[d].pc \in {"join", "joinstop"} PROVE CanGoOn(d) \/ WaitsForTold(d)
    BY <1>1, <2>1, <2>2 DEF StallInv, StartedBefore, CanGoOn, WaitsForTold, Alive
  <2>3. CASE lock # "free"
    BY <1>1, <2>2, <2>3 DEF StallInv, LockedByJoin
  <2>4. CASE lock = "free"
    <3>1. cmd[c].pc \in {"take", "join", "spawn", "put", "stop", "joinstop"}
      BY <1>1, <2>1 DEF CommandState
    <3>2. CanGoOn(c) \/ WaitsForTold(c)
      BY <2>2, <2>4, <3>1 DEF CanGoOn
    <3>3. QED
      BY <3>2
  <2>5. QED
    BY <2>3, <2>4
<1>2. ASSUME StallInv, [LNext]_lvars, NEW s \in stopping
      PROVE  task'[s] = task[s] \/ ServerLeft(task'[s]) < ServerLeft(task[s])
  <2>1. /\ task \in [Servers -> {"none", "checking", "accepting", "reading", "ended"}]
        /\ s \in Servers /\ task[s] # "none"
    BY <1>2 DEF StallInv, LoopbackInv, LTypeOK, StartedBefore
  <2>2. ASSUME NEW t \in Servers, ServerStep(t)
        PROVE  task'[s] = task[s] \/ ServerLeft(task'[s]) < ServerLeft(task[s])
    BY <1>2, <2>1, <2>2
      DEF ServerStep, Check, AcceptTimesOut, Accept, Request, Become, ServerLeft
  <2>3. ASSUME NEW c \in Commands, NEW t \in Servers, Spawn(c, t) PROVE task'[s] = task[s]
    BY <2>1, <2>3 DEF Spawn, Become
  <2>4. ASSUME NEW c \in Commands,
               StartCalled(c) \/ StopCalled(c) \/ TakeOld(c) \/ Joined(c) \/ BindFails(c) \/ Put(c)
        PROVE  task'[s] = task[s]
    BY <2>4 DEF StartCalled, StopCalled, TakeOld, Joined, BindFails, Put
  <2>5. CASE UNCHANGED lvars
    BY <2>5 DEF lvars
  <2>6. QED
    BY <1>2, <2>2, <2>3, <2>4, <2>5 DEF LNext, CommandStep
<1>3. ASSUME StallInv, [LNext]_lvars, NEW c \in Commands, cmd[c].pc # "idle"
      PROVE  cmd'[c].pc = cmd[c].pc \/ CommandLeft(cmd'[c].pc) < CommandLeft(cmd[c].pc)
  <2>1. cmd \in [Commands -> CommandState]
    BY <1>3 DEF StallInv, LoopbackInv, LTypeOK
  <2>2. ASSUME NEW s \in Servers, ServerStep(s) PROVE cmd' = cmd
    BY <2>2 DEF ServerStep, Check, AcceptTimesOut, Accept, Request
  <2>3. ASSUME NEW d \in Commands, d # c, StartCalled(d) \/ StopCalled(d) \/ CommandStep(d)
        PROVE  cmd'[c] = cmd[c]
    BY <2>1, <2>3 DEF StartCalled, StopCalled, CommandStep, TakeOld, Joined, Spawn, BindFails, Put, Move
  <2>4. ~(StartCalled(c) \/ StopCalled(c))
    BY <1>3 DEF StartCalled, StopCalled
  <2>5. ASSUME TakeOld(c) \/ Joined(c) PROVE CommandLeft(cmd'[c].pc) < CommandLeft(cmd[c].pc)
    <3>1. \/ cmd[c].pc = "take" /\ cmd'[c].pc = "join"
          \/ cmd[c].pc = "stop" /\ cmd'[c].pc = "joinstop"
          \/ cmd[c].pc = "join" /\ cmd'[c].pc = "spawn"
          \/ cmd[c].pc = "joinstop" /\ cmd'[c].pc = "idle"
      BY <2>1, <2>5 DEF TakeOld, Joined
    <3>2. QED
      BY <3>1 DEF CommandLeft
  <2>6. ASSUME (\E s \in Servers : Spawn(c, s)) \/ BindFails(c) \/ Put(c)
        PROVE  CommandLeft(cmd'[c].pc) < CommandLeft(cmd[c].pc)
    <3>1. \/ cmd[c].pc = "spawn" /\ cmd'[c].pc = "put"
          \/ cmd[c].pc = "spawn" /\ cmd'[c].pc = "idle"
          \/ cmd[c].pc = "put" /\ cmd'[c].pc = "idle"
      BY <2>1, <2>6 DEF Spawn, BindFails, Put, Move, Resting, CommandState
    <3>2. QED
      BY <3>1 DEF CommandLeft
  <2>7. CASE UNCHANGED lvars
    BY <2>7 DEF lvars
  <2>8. QED
    BY <1>3, <2>2, <2>3, <2>4, <2>5, <2>6, <2>7 DEF LNext, CommandStep
<1>4. StallInv => \A c \in Commands : cmd[c].pc # "idle" =>
        \E d \in Commands : (d = c \/ lock = d) /\ (CanGoOn(d) \/ WaitsForTold(d))
  BY <1>1
<1>5. StallInv /\ [LNext]_lvars =>
        [/\ \A s \in stopping :
              task'[s] = task[s] \/ ServerLeft(task'[s]) < ServerLeft(task[s])
         /\ \A c \in Commands : cmd[c].pc # "idle" =>
              cmd'[c].pc = cmd[c].pc \/ CommandLeft(cmd'[c].pc) < CommandLeft(cmd[c].pc)]_lvars
  BY <1>2, <1>3
<1>6. QED
  BY <1>4, <1>5, StallInvCorrect, PTL DEF LSpec

-----------------------------------------------------------------------------
(* The chat session.                                                       *)

Kinds == {"prompt", "ledger", "epoch", "call", "tool", "error", "transcript", "compact"}
Msg == [kind : Kinds, turn : Nat, size : Nat, from : Nat, upto : Nat]
NonBlock == {m \in Msg : m.kind # "epoch" /\ m.from = 0 /\ m.upto = 0}
StoreOp == [op : {"message", "transcript", "compact"}, msg : NonBlock, must : BOOLEAN]
Session == [messages : Seq(Msg), transcript : SUBSET Nat]
Places == {"new", "running", "storing", "over", "failed"}

ChatTypeOK ==
  /\ messages \in Seq(Msg) /\ transcript \subseteq Nat /\ exists \in BOOLEAN
  /\ io_lock \subseteq Turns /\ buffer \in [Turns -> Session]
  /\ mode \in [Turns -> {"swarm", "direct"}] /\ pc \in [Turns -> Places]
  /\ todo \in [Turns -> Seq(StoreOp)]
  /\ crashes \in Nat /\ resumed \subseteq Turns
  /\ stored \subseteq NonBlock /\ deleted \in BOOLEAN /\ overlapped \in BOOLEAN

\* The file begins with n blocks of one batch each, end to end, and has none
\* after them.
Folded(ms, n) ==
  /\ \A i \in 1..n :
       ms[i].kind = "epoch" /\ ms[i].from = (i - 1) * COMPRESS_BATCH /\ ms[i].upto = i * COMPRESS_BATCH
  /\ \A i \in n + 1 .. Len(ms) : ms[i] \in NonBlock
  /\ n # 0 => n * COMPRESS_BATCH + RECENT_KEEP <= Ledgers(ms)
Sound(ms) == \E n \in 0..Len(ms) : Folded(ms, n)

\* One command holds the lock, and what it has loaded is still what is there,
\* unless the file was deleted.
LockInv ==
  /\ \A t, u \in io_lock : t = u
  /\ \A t \in io_lock : Sound(buffer[t].messages) /\ (exists => buffer[t].messages = messages)
  /\ ~deleted => exists

ChatInv == ChatTypeOK /\ LockInv /\ Sound(messages) /\ NothingLost

\* Arithmetic of batches.
LEMMA BatchTimes ==
  ASSUME NEW b \in Nat, NEW i \in Nat, NEW j \in Nat
  PROVE  /\ i * b \in Nat /\ (i + 1) * b = i * b + b /\ (i - 1) * b = i * b - b
         /\ (i + j) * b = i * b + j * b /\ (i <= j => i * b <= j * b)
  OBVIOUS

LEMMA BatchDiv ==
  ASSUME NEW b \in Nat \ {0}, NEW x \in Nat
  PROVE  /\ x \div b \in Nat /\ (x \div b) * b <= x /\ x < (x \div b) * b + b
         /\ ((x \div b) * b) \div b = x \div b
  OBVIOUS

LEMMA BatchOne ==
  ASSUME NEW b \in Nat \ {0}, NEW i \in Nat, NEW j \in Nat, NEW x \in Nat,
         i * b <= x, x < i * b + b, j * b <= x, x < j * b + b
  PROVE  i = j
<1>1. ASSUME NEW k \in Nat, NEW l \in Nat, k + 1 <= l, x < k * b + b, l * b <= x PROVE FALSE
  <2>1. (k + 1) * b <= l * b
    BY <1>1, BatchTimes
  <2>2. QED
    BY <1>1, <2>1, BatchTimes
<1>2. QED
  BY <1>1

\* The number of ledgers is one, and every append leaves at least as many.
LEMMA LedgersCount ==
  ASSUME NEW ms \in Seq(Msg), NEW i \in Nat \ {0}
  PROVE  LedgersBefore(ms, i) \in Nat /\ IsFiniteSet({j \in 1..(i - 1) : ms[j].kind = "ledger"})
<1>1. IsFiniteSet(1..(i - 1))
  BY FS_Interval
<1>2. {j \in 1..(i - 1) : ms[j].kind = "ledger"} \in SUBSET (1..(i - 1))
  OBVIOUS
<1>3. QED
  BY <1>1, <1>2, FS_Subset, FS_CardinalityType DEF LedgersBefore

LEMMA LedgersGrow ==
  ASSUME NEW ms \in Seq(Msg), NEW m \in Msg
  PROVE  Ledgers(ms) \in Nat /\ Ledgers(Append(ms, m)) \in Nat /\ Ledgers(ms) <= Ledgers(Append(ms, m))
<1> DEFINE ns == Append(ms, m)
           L(s) == {j \in 1..(Len(s) + 1 - 1) : s[j].kind = "ledger"}
<1>1. ns \in Seq(Msg) /\ Len(ns) = Len(ms) + 1 /\ Len(ms) \in Nat /\ \A j \in 1..Len(ms) : ns[j] = ms[j]
  OBVIOUS
<1> HIDE DEF ns
<1>2. L(ms) \in SUBSET L(ns)
  BY <1>1
<1>3. ASSUME NEW s \in Seq(Msg)
      PROVE  IsFiniteSet(L(s)) /\ Ledgers(s) \in Nat /\ Ledgers(s) = Cardinality(L(s))
  <2> DEFINE k == Len(s) + 1
  <2>1. k \in Nat \ {0}
    OBVIOUS
  <2> HIDE DEF k, L
  <2>2. LedgersBefore(s, k) \in Nat /\ IsFiniteSet({j \in 1..(k - 1) : s[j].kind = "ledger"})
    BY <2>1, LedgersCount
  <2>3. LedgersBefore(s, k) = Cardinality({j \in 1..(k - 1) : s[j].kind = "ledger"})
    BY DEF LedgersBefore
  <2>4. L(s) = {j \in 1..(k - 1) : s[j].kind = "ledger"} /\ Ledgers(s) = LedgersBefore(s, k)
    BY DEF L, k, Ledgers
  <2>5. QED
    BY <2>2, <2>3, <2>4
<1> HIDE DEF L
<1>4. Cardinality(L(ms)) <= Cardinality(L(ns))
  BY <1>1, <1>2, <1>3, FS_Subset
<1>5. QED
  BY <1>1, <1>3, <1>4 DEF ns

LEMMA IntervalCount ==
  ASSUME NEW m \in Nat
  PROVE  IsFiniteSet(0 .. m - 1) /\ Cardinality(0 .. m - 1) = m
<1>1. m - 1 \in Int /\ 0 \in Int
  OBVIOUS
<1>2. IsFiniteSet(0 .. m - 1) /\ Cardinality(0 .. m - 1) = IF 0 > m - 1 THEN 0 ELSE m - 1 - 0 + 1
  BY <1>1, FS_Interval
<1>3. QED
  BY <1>2

\* The blocks cover each turn of the first n batches once.
LEMMA CoveredIs ==
  ASSUME NEW ms \in Seq(Msg), NEW n \in 0..Len(ms), Folded(ms, n)
  PROVE  Covered(ms) = n * COMPRESS_BATCH
<1> DEFINE b == COMPRESS_BATCH
           S == UNION {{i} \X (ms[i].from .. ms[i].upto - 1) : i \in DOMAIN ms}
           R == 0 .. n * b - 1
           f == [x \in R |-> <<x \div b + 1, x>>]
<1>1. b \in Nat \ {0} /\ n \in Nat /\ Len(ms) \in Nat /\ DOMAIN ms = 1..Len(ms) /\ n <= Len(ms)
  BY ChatAssumption
<1>2. \A i, x : <<i, x>> \in S <=> i \in 1..n /\ x \in (i - 1) * b .. i * b - 1
  <2>1. \A i, x : <<i, x>> \in S <=> i \in DOMAIN ms /\ x \in ms[i].from .. ms[i].upto - 1
    OBVIOUS
  <2>2. ASSUME NEW i \in n + 1 .. Len(ms) PROVE ms[i].from = 0 /\ ms[i].upto = 0
    BY DEF Folded, NonBlock
  <2>3. ASSUME NEW i \in 1..n PROVE ms[i].from = (i - 1) * b /\ ms[i].upto = i * b
    BY DEF Folded
  <2>4. \A x : ~(x \in 0 .. 0 - 1)
    OBVIOUS
  <2>5. DOMAIN ms = (1..n) \cup (n + 1 .. Len(ms))
    BY <1>1
  <2> HIDE DEF S
  <2>6. QED
    BY <1>1, <2>1, <2>2, <2>3, <2>4, <2>5
<1>3. \A p \in S : \E i, x : p = <<i, x>>
  OBVIOUS
<1> HIDE DEF b, S
<1>4. ASSUME NEW i \in 1..n, NEW x \in (i - 1) * b .. i * b - 1
      PROVE  x \in R /\ f[x] = <<i, x>>
  <2>1. i - 1 \in Nat /\ (i - 1) * b \in Nat /\ i * b = (i - 1) * b + b /\ i * b <= n * b
        /\ n * b \in Nat /\ i * b \in Nat
    BY <1>1, BatchTimes
  <2>2. x \in Nat /\ x \in R
    BY <2>1
  <2>3. x \div b \in Nat /\ (x \div b) * b <= x /\ x < (x \div b) * b + b
    BY <1>1, <2>2, BatchDiv
  <2>4. x \div b = i - 1
    BY <1>1, <2>1, <2>2, <2>3, BatchOne
  <2>5. QED
    BY <2>1, <2>2, <2>4
<1>5. ASSUME NEW x \in R PROVE f[x] \in S
  <2>1. n * b \in Nat /\ x \in Nat /\ x < n * b
    BY <1>1, BatchTimes
  <2> DEFINE q == x \div b
  <2>2. q \in Nat /\ q * b <= x /\ x < q * b + b
    BY <1>1, <2>1, BatchDiv
  <2> HIDE DEF q
  <2>3. q < n
    <3>1. n <= q => n * b <= q * b
      BY <1>1, <2>2, BatchTimes
    <3>2. QED
      BY <1>1, <2>1, <2>2, <3>1, BatchTimes
  <2>4. (q + 1) * b = q * b + b /\ (q + 1) - 1 = q
    BY <1>1, <2>2, BatchTimes
  <2>5. q + 1 \in 1..n /\ x \in ((q + 1) - 1) * b .. (q + 1) * b - 1
    BY <1>1, <2>1, <2>2, <2>3, <2>4, BatchTimes
  <2>6. f[x] = <<q + 1, x>>
    BY DEF q
  <2>7. QED
    BY <1>2, <2>5, <2>6
<1>6. f \in Bijection(R, S)
  <2>1. f \in [R -> S]
    BY <1>5
  <2>2. \A x, y \in R : f[x] = f[y] => x = y
    OBVIOUS
  <2>3. \A p \in S : \E x \in R : f[x] = p
    <3>1. ASSUME NEW p \in S PROVE \E x \in R : f[x] = p
      <4>1. PICK i, x : p = <<i, x>>
        BY <1>3
      <4>2. i \in 1..n /\ x \in (i - 1) * b .. i * b - 1
        BY <1>2, <4>1
      <4>3. x \in R /\ f[x] = <<i, x>>
        BY <1>4, <4>2
      <4>4. QED
        BY <4>1, <4>3
    <3>2. QED
      BY <3>1
  <2> HIDE DEF f, R
  <2>4. QED
    BY <2>1, <2>2, <2>3 DEF Bijection, Injection, Surjection, IsInjective
<1>7. IsFiniteSet(R) /\ Cardinality(R) = n * b
  <2>1. n * b \in Nat
    BY <1>1, BatchTimes
  <2>2. QED
    BY <2>1, IntervalCount
<1> HIDE DEF f, R
<1>8. Cardinality(S) = n * b
  BY <1>6, <1>7, FS_Bijection DEF ExistsBijection
<1>9. QED
  BY <1>8 DEF Covered, S, b

\* An append leaves a sound file sound and loses nothing.
LEMMA AppendFolded ==
  ASSUME NEW ms \in Seq(Msg), NEW n \in 0..Len(ms), Folded(ms, n), NEW m \in NonBlock
  PROVE  /\ Append(ms, m) \in Seq(Msg) /\ n \in 0..Len(Append(ms, m)) /\ Folded(Append(ms, m), n)
         /\ ToSet(Append(ms, m)) = ToSet(ms) \cup {m}
<1> DEFINE ns == Append(ms, m)
<1>1. Folded(ms, n)
  OBVIOUS
<1>2. m \in Msg /\ Len(ms) \in Nat /\ n \in Nat /\ n <= Len(ms)
  BY DEF NonBlock
<1>3. /\ ns \in Seq(Msg) /\ Len(ns) = Len(ms) + 1 /\ ns[Len(ms) + 1] = m
      /\ \A i \in 1..Len(ms) : ns[i] = ms[i]
      /\ DOMAIN ns = 1..(Len(ms) + 1) /\ DOMAIN ms = 1..Len(ms)
  BY <1>2
<1>4. Ledgers(ms) \in Nat /\ Ledgers(ns) \in Nat /\ Ledgers(ms) <= Ledgers(ns)
  BY <1>2, LedgersGrow
<1> HIDE DEF ns
<1>5. \A i \in 1..n :
        ns[i].kind = "epoch" /\ ns[i].from = (i - 1) * COMPRESS_BATCH /\ ns[i].upto = i * COMPRESS_BATCH
  BY <1>1, <1>2, <1>3 DEF Folded
<1>6. \A i \in n + 1 .. Len(ns) : ns[i] \in NonBlock
  <2>1. \A i \in n + 1 .. Len(ms) : ms[i] \in NonBlock
    BY <1>1 DEF Folded
  <2>2. \A i \in n + 1 .. Len(ns) : i = Len(ms) + 1 \/ (i \in n + 1 .. Len(ms) /\ i \in 1..Len(ms))
    BY <1>2, <1>3
  <2>3. QED
    BY <1>3, <2>1, <2>2
<1>7. n # 0 => n * COMPRESS_BATCH + RECENT_KEEP <= Ledgers(ns)
  <2>1. n * COMPRESS_BATCH \in Nat /\ RECENT_KEEP \in Nat
    BY <1>2, ChatAssumption, BatchTimes
  <2>2. QED
    BY <1>1, <1>4, <2>1 DEF Folded
<1>8. n \in 0..Len(ns) /\ Folded(ns, n)
  BY <1>2, <1>3, <1>5, <1>6, <1>7 DEF Folded
<1>9. ToSet(ns) = ToSet(ms) \cup {m}
  BY <1>2, <1>3 DEF ToSet
<1>10. QED
  BY <1>3, <1>8, <1>9 DEF ns

LEMMA AppendSound ==
  ASSUME NEW ms \in Seq(Msg), Sound(ms), NEW m \in NonBlock
  PROVE  /\ Append(ms, m) \in Seq(Msg) /\ Sound(Append(ms, m))
         /\ ToSet(Append(ms, m)) = ToSet(ms) \cup {m}
<1>1. PICK n \in 0..Len(ms) : Folded(ms, n)
  BY DEF Sound
<1>2. QED
  BY <1>1, AppendFolded DEF Sound

\* The prefix of the file is its blocks.
LEMMA PrefixIs ==
  ASSUME NEW ms \in Seq(Msg), NEW n \in 0..Len(ms), Folded(ms, n)
  PROVE  EpochPrefix(ms) = SubSeq(ms, 1, n)
<1> DEFINE P == {k \in DOMAIN ms : \A i \in 1..k : ms[i].kind = "epoch"}
<1>1. Len(ms) \in Nat /\ n \in Nat /\ n <= Len(ms) /\ DOMAIN ms = 1..Len(ms)
  OBVIOUS
<1>2. P = 1..n
  <2>1. ASSUME NEW k \in 1..n PROVE k \in P
    BY <1>1 DEF Folded
  <2>2. ASSUME NEW k \in P, k > n PROVE FALSE
    <3>1. n + 1 \in 1..k /\ n + 1 \in n + 1 .. Len(ms)
      BY <1>1, <2>2
    <3>2. ms[n + 1].kind = "epoch" /\ ms[n + 1].kind # "epoch"
      BY <2>2, <3>1 DEF Folded, NonBlock
    <3>3. QED
      BY <3>2
  <2>3. QED
    BY <1>1, <2>1, <2>2
<1>3. Cardinality(1..n) = n
  <2>1. Cardinality(1..n) = IF 1 > n THEN 0 ELSE n - 1 + 1
    BY <1>1, FS_Interval
  <2>2. QED
    BY <1>1, <2>1
<1>4. QED
  BY <1>2, <1>3 DEF EpochPrefix

\* What is folded is whole batches, beyond the turns that are kept.
LEMMA FoldIs ==
  ASSUME NEW ms \in Seq(Msg), NEW n \in 0..Len(ms), Folded(ms, n)
  PROVE  /\ ToFold(ms) \div COMPRESS_BATCH \in Nat
         /\ ToFold(ms) \div COMPRESS_BATCH # 0 =>
              (n + ToFold(ms) \div COMPRESS_BATCH) * COMPRESS_BATCH + RECENT_KEEP <= Ledgers(ms)
<1> DEFINE b == COMPRESS_BATCH
           L == Ledgers(ms)
           keep == KeepCount(ms)
           open == L - Covered(ms)
           beyond == open - keep
<1>1. b \in Nat \ {0} /\ RECENT_KEEP \in Nat /\ n \in Nat
  BY ChatAssumption
<1>2. L \in Nat
  <2>1. Len(ms) + 1 \in Nat \ {0}
    OBVIOUS
  <2>2. QED
    BY <2>1, LedgersCount DEF Ledgers
<1>3. Covered(ms) = n * b /\ n * b \in Nat
  BY <1>1, CoveredIs, BatchTimes
<1>4. keep \in Nat /\ RECENT_KEEP <= keep
  <2> DEFINE Size(k) == FoldLeft(LAMBDA x, m : x + m.size, 0,
                                 SubSeq(OfKind("ledger", ms), Len(OfKind("ledger", ms)) - k + 1,
                                        Len(OfKind("ledger", ms))))
             fits == {k \in 1..L : k <= RECENT_KEEP \/ Size(k) <= BUDGET}
  <2>1. keep = IF Cardinality(fits) < RECENT_KEEP THEN RECENT_KEEP ELSE Cardinality(fits)
    BY DEF KeepCount
  <2> HIDE DEF Size
  <2>2. fits \in SUBSET (1..L) /\ IsFiniteSet(1..L)
    BY <1>2, FS_Interval
  <2> HIDE DEF fits, keep, L
  <2>3. Cardinality(fits) \in Nat
    BY <2>2, FS_Subset, FS_CardinalityType
  <2>4. QED
    BY <1>1, <2>1, <2>3
<1>5. ToFold(ms) = IF open <= RECENT_KEEP \/ beyond <= 0 THEN 0 ELSE (beyond \div b) * b
  BY DEF ToFold
<1> HIDE DEF b, L, keep
<1>6. CASE open <= RECENT_KEEP \/ beyond <= 0
  <2>1. ToFold(ms) = 0 * b /\ 0 \div b = 0
    BY <1>1, <1>5, <1>6, BatchDiv
  <2>2. QED
    BY <1>1, <1>5, <1>6, <2>1 DEF b
<1>7. CASE ~(open <= RECENT_KEEP \/ beyond <= 0)
  <2>1. beyond \in Nat /\ beyond = L - n * b - keep
    BY <1>2, <1>3, <1>4, <1>7
  <2> DEFINE k == beyond \div b
  <2>2. k \in Nat /\ k * b <= beyond /\ (k * b) \div b = k /\ k * b \in Nat
    BY <1>1, <2>1, BatchDiv, BatchTimes
  <2>3. ToFold(ms) = k * b
    BY <1>5, <1>7
  <2> HIDE DEF k, beyond
  <2>4. (n + k) * b = n * b + k * b
    BY <1>1, <2>2, BatchTimes
  <2>5. (n + k) * b + RECENT_KEEP <= L
    BY <1>1, <1>2, <1>3, <1>4, <2>1, <2>2, <2>4
  <2>6. QED
    BY <2>2, <2>3, <2>5 DEF b, L
<1>8. QED
  BY <1>6, <1>7

LEMMA ConcatIs ==
  ASSUME NEW p \in Seq(Msg), NEW q \in Seq(Msg)
  PROVE  /\ p \o q \in Seq(Msg) /\ Len(p \o q) = Len(p) + Len(q)
         /\ \A i \in 1..Len(p) : (p \o q)[i] = p[i]
         /\ \A i \in 1..Len(q) : (p \o q)[Len(p) + i] = q[i]
  OBVIOUS

\* Where the messages are after k messages were put in after position n.
LEMMA Inserted ==
  ASSUME NEW ms \in Seq(Msg), NEW n \in 0..Len(ms), NEW new \in Seq(Msg)
  PROVE  LET cs == SubSeq(ms, 1, n) \o new \o SubSeq(ms, n + 1, Len(ms))
         IN  /\ cs \in Seq(Msg) /\ Len(cs) = Len(ms) + Len(new)
             /\ \A i \in 1..n : cs[i] = ms[i]
             /\ \A i \in 1..Len(new) : cs[n + i] = new[i]
             /\ \A i \in n + 1 .. Len(ms) : cs[i + Len(new)] = ms[i]
<1> DEFINE a == SubSeq(ms, 1, n)
           z == SubSeq(ms, n + 1, Len(ms))
<1>1. Len(ms) \in Nat /\ n \in Nat /\ n <= Len(ms) /\ Len(new) \in Nat
  OBVIOUS
<1>2. a \in Seq(Msg) /\ Len(a) = n /\ \A i \in 1..n : a[i] = ms[i]
  BY <1>1
<1>3. z \in Seq(Msg) /\ Len(z) = Len(ms) - n /\ \A i \in 1..(Len(ms) - n) : z[i] = ms[n + i]
  BY <1>1
<1> HIDE DEF a, z
<1>4. /\ a \o new \in Seq(Msg) /\ Len(a \o new) = n + Len(new)
      /\ \A i \in 1..n : (a \o new)[i] = a[i]
      /\ \A i \in 1..Len(new) : (a \o new)[n + i] = new[i]
  BY <1>1, <1>2, ConcatIs
<1> DEFINE h == a \o new
           cs == h \o z
<1> HIDE DEF h
<1>5. /\ cs \in Seq(Msg) /\ Len(cs) = n + Len(new) + (Len(ms) - n)
      /\ \A i \in 1..(n + Len(new)) : cs[i] = h[i]
      /\ \A i \in 1..(Len(ms) - n) : cs[n + Len(new) + i] = z[i]
  <2>1. h \in Seq(Msg) /\ Len(h) = n + Len(new) /\ Len(z) = Len(ms) - n /\ z \in Seq(Msg)
    BY <1>3, <1>4 DEF h
  <2>2. /\ h \o z \in Seq(Msg) /\ Len(h \o z) = Len(h) + Len(z)
        /\ \A i \in 1..Len(h) : (h \o z)[i] = h[i]
        /\ \A i \in 1..Len(z) : (h \o z)[Len(h) + i] = z[i]
    BY <2>1, ConcatIs
  <2>3. QED
    BY <2>1, <2>2
<1> HIDE DEF cs
<1>6. \A i \in 1..n : cs[i] = ms[i]
  <2>1. \A i \in 1..n : i \in 1..(n + Len(new))
    BY <1>1
  <2>2. QED
    BY <1>2, <1>4, <1>5, <2>1 DEF h
<1>7. \A i \in 1..Len(new) : cs[n + i] = new[i]
  <2>1. \A i \in 1..Len(new) : n + i \in 1..(n + Len(new))
    BY <1>1
  <2>2. QED
    BY <1>4, <1>5, <2>1 DEF h
<1>8. \A i \in n + 1 .. Len(ms) : cs[i + Len(new)] = ms[i]
  <2> SUFFICES ASSUME NEW i \in n + 1 .. Len(ms) PROVE cs[i + Len(new)] = ms[i]
    OBVIOUS
  <2>1. i - n \in 1..(Len(ms) - n) /\ n + (i - n) = i /\ n + Len(new) + (i - n) = i + Len(new)
    BY <1>1
  <2>2. QED
    BY <1>3, <1>5, <2>1
<1>9. Len(cs) = Len(ms) + Len(new)
  BY <1>1, <1>5
<1>10. cs = SubSeq(ms, 1, n) \o new \o SubSeq(ms, n + 1, Len(ms))
  BY DEF cs, h, a, z
<1>11. QED
  BY <1>5, <1>6, <1>7, <1>8, <1>9, <1>10

\* What stands behind the n + k blocks of a folded log stood k places before.
LEMMA Shift ==
  ASSUME NEW len \in Nat, NEW n \in Nat, NEW k \in Nat, NEW i \in Nat,
         i <= len + k, n + k < i
  PROVE  i - k \in n + 1 .. len /\ (i - k) + k = i
  OBVIOUS

\* A folding puts k more blocks after the n that are there.
LEMMA CompactFolded ==
  ASSUME NEW ms \in Seq(Msg), NEW n \in 0..Len(ms), Folded(ms, n)
  PROVE  LET k == ToFold(ms) \div COMPRESS_BATCH
             cs == Compacted(ms)
         IN  /\ k \in Nat /\ cs \in Seq(Msg) /\ Len(cs) = Len(ms) + k
             /\ n + k \in 0..Len(cs) /\ Folded(cs, n + k)
             /\ \A i \in 1..n : cs[i] = ms[i]
             /\ \A i \in n + 1 .. Len(ms) : cs[i + k] = ms[i]
<1> DEFINE b == COMPRESS_BATCH
           k == ToFold(ms) \div b
           new == NewBlocks(ms)
           cs == Compacted(ms)
<1>2. b \in Nat \ {0} /\ RECENT_KEEP \in Nat /\ n \in Nat /\ Len(ms) \in Nat /\ n <= Len(ms)
  BY ChatAssumption
<1>3. k \in Nat /\ (k # 0 => (n + k) * b + RECENT_KEEP <= Ledgers(ms))
  BY FoldIs
<1>4. Covered(ms) = n * b
  BY CoveredIs
<1>5. /\ new \in Seq(Msg) /\ Len(new) = k
      /\ \A i \in 1..k : new[i].kind = "epoch" /\ new[i].from = ((n + i) - 1) * b /\ new[i].upto = (n + i) * b
  <2>1. new = [i \in 1..k |-> Epoch(n * b + (i - 1) * b, n * b + i * b)]
    BY <1>4 DEF NewBlocks
  <2> HIDE DEF k
  <2>2. ASSUME NEW i \in 1..k
        PROVE  /\ n * b + (i - 1) * b = ((n + i) - 1) * b /\ n * b + i * b = (n + i) * b
               /\ n * b + (i - 1) * b \in Nat /\ n * b + i * b \in Nat
    <3>1. i - 1 \in Nat /\ i \in Nat /\ n + (i - 1) = (n + i) - 1
      BY <1>2, <1>3
    <3>2. (n + (i - 1)) * b = n * b + (i - 1) * b
      BY <1>2, <3>1, BatchTimes
    <3>3. (n + i) * b = n * b + i * b
      BY <1>2, <3>1, BatchTimes
    <3>4. n * b \in Nat /\ i * b \in Nat /\ (i - 1) * b \in Nat
      BY <1>2, <3>1, BatchTimes
    <3>5. QED
      BY <3>1, <3>2, <3>3, <3>4
  <2>3. \A x, y \in Nat : /\ Epoch(x, y) \in Msg /\ Epoch(x, y).kind = "epoch"
                         /\ Epoch(x, y).from = x /\ Epoch(x, y).upto = y
    BY DEF Epoch, Message, Msg, Kinds
  <2> HIDE DEF new, b
  <2>4. \A i \in 1..k : /\ new[i] \in Msg /\ new[i].kind = "epoch"
                        /\ new[i].from = ((n + i) - 1) * b /\ new[i].upto = (n + i) * b
    BY <2>1, <2>2, <2>3
  <2>5. new \in Seq(Msg) /\ Len(new) = k
    BY <1>3, <2>1, <2>4
  <2>6. QED
    BY <2>4, <2>5
<1>6. cs = SubSeq(ms, 1, n) \o new \o SubSeq(ms, n + 1, Len(ms))
  <2>1. EpochPrefix(ms) = SubSeq(ms, 1, n) /\ Len(SubSeq(ms, 1, n)) = n
    BY <1>2, PrefixIs
  <2>2. QED
    BY <2>1 DEF Compacted
<1> HIDE DEF new, k, b, cs
<1>7. /\ cs \in Seq(Msg) /\ Len(cs) = Len(ms) + k
      /\ \A i \in 1..n : cs[i] = ms[i]
      /\ \A i \in 1..k : cs[n + i] = new[i]
      /\ \A i \in n + 1 .. Len(ms) : cs[i + k] = ms[i]
  BY <1>5, <1>6, Inserted
<1>8. \A i \in 1..(n + k) : cs[i].kind = "epoch" /\ cs[i].from = (i - 1) * b /\ cs[i].upto = i * b
  <2>1. ASSUME NEW i \in 1..n PROVE cs[i].kind = "epoch" /\ cs[i].from = (i - 1) * b /\ cs[i].upto = i * b
    BY <1>7 DEF Folded, b
  <2>2. ASSUME NEW i \in n + 1 .. n + k
        PROVE  cs[i].kind = "epoch" /\ cs[i].from = (i - 1) * b /\ cs[i].upto = i * b
    <3>1. i - n \in 1..k /\ n + (i - n) = i
      BY <1>2, <1>3
    <3>2. QED
      BY <1>5, <1>7, <3>1
  <2>3. \A i \in 1..(n + k) : i \in 1..n \/ i \in n + 1 .. n + k
    BY <1>2, <1>3
  <2>4. QED
    BY <2>1, <2>2, <2>3
<1>9. \A i \in n + k + 1 .. Len(cs) : cs[i] \in NonBlock
  <2> SUFFICES ASSUME NEW i \in n + k + 1 .. Len(cs) PROVE cs[i] \in NonBlock
    OBVIOUS
  <2>1. i - k \in n + 1 .. Len(ms) /\ (i - k) + k = i
    BY <1>2, <1>3, <1>7
  <2>2. ms[i - k] \in NonBlock
    BY <2>1 DEF Folded
  <2>3. QED
    BY <1>7, <2>1, <2>2
<1>10. Ledgers(cs) = Ledgers(ms)
  <2> DEFINE A == {j \in 1..((Len(ms) + 1) - 1) : ms[j].kind = "ledger"}
             B == {j \in 1..((Len(cs) + 1) - 1) : cs[j].kind = "ledger"}
             f == [j \in A |-> j + k]
  <2>1. IsFiniteSet(A)
    <3>1. Len(ms) + 1 \in Nat \ {0}
      BY <1>2
    <3>2. QED
      BY <3>1, LedgersCount
  <2>2. \A j \in A : j \in n + 1 .. Len(ms)
    BY <1>2 DEF Folded
  <2>3. \A j \in B : j - k \in A /\ (j - k) + k = j
    <3> SUFFICES ASSUME NEW j \in B PROVE j - k \in A /\ (j - k) + k = j
      OBVIOUS
    <3>1. j \in 1..Len(cs) /\ cs[j].kind = "ledger" /\ j \in Nat
      BY <1>2, <1>3, <1>7
    <3>2. ~(j \in 1..(n + k))
      BY <1>8, <3>1
    <3>3. j - k \in n + 1 .. Len(ms) /\ (j - k) + k = j
      <4>1. n \in Nat /\ k \in Nat /\ Len(ms) \in Nat /\ j <= Len(ms) + k
        BY <1>2, <1>3, <1>7, <3>1
      <4>2. n + k < j
        BY <3>1, <3>2, <4>1
      <4>3. QED
        BY <3>1, <4>1, <4>2, Shift
    <3>4. ms[j - k].kind = "ledger"
      BY <1>7, <3>1, <3>3
    <3>5. QED
      BY <1>2, <3>3, <3>4
  <2>4. \A j \in A : j + k \in B
    BY <1>2, <1>3, <1>7, <2>2
  <2>5. f \in [A -> B]
    BY <2>4
  <2>6. \A i, j \in A : f[i] = f[j] => i = j
    BY <1>2, <1>3, <2>2
  <2>7. \A j \in B : \E i \in A : f[i] = j
    BY <2>3
  <2> HIDE DEF f, A, B
  <2>8. f \in Bijection(A, B)
    BY <2>5, <2>6, <2>7 DEF Bijection, Injection, Surjection, IsInjective
  <2>9. Cardinality(A) = Cardinality(B)
    BY <2>1, <2>8, FS_Bijection DEF ExistsBijection
  <2>10. QED
    BY <2>9 DEF A, B, Ledgers, LedgersBefore
<1>11. n + k # 0 => (n + k) * b + RECENT_KEEP <= Ledgers(cs)
  BY <1>2, <1>3, <1>10 DEF Folded, b
<1>12. n + k \in 0..Len(cs) /\ Folded(cs, n + k)
  BY <1>2, <1>3, <1>7, <1>8, <1>9, <1>11 DEF Folded, b
<1>13. QED
  BY <1>3, <1>7, <1>12 DEF cs, k, b

\* A folding leaves a sound file sound and loses nothing.
LEMMA CompactSound ==
  ASSUME NEW ms \in Seq(Msg), Sound(ms)
  PROVE  Compacted(ms) \in Seq(Msg) /\ Sound(Compacted(ms)) /\ ToSet(ms) \subseteq ToSet(Compacted(ms))
<1> DEFINE k == ToFold(ms) \div COMPRESS_BATCH
           cs == Compacted(ms)
<1>1. PICK n \in 0..Len(ms) : Folded(ms, n)
  BY DEF Sound
<1>2. /\ k \in Nat /\ cs \in Seq(Msg) /\ Len(cs) = Len(ms) + k
      /\ n + k \in 0..Len(cs) /\ Folded(cs, n + k)
      /\ \A i \in 1..n : cs[i] = ms[i]
      /\ \A i \in n + 1 .. Len(ms) : cs[i + k] = ms[i]
  BY <1>1, CompactFolded
<1> HIDE DEF k, cs
<1>3. ToSet(ms) \subseteq ToSet(cs)
  <2>0. Len(ms) \in Nat /\ DOMAIN ms = 1..Len(ms) /\ DOMAIN cs = 1..Len(cs) /\ n \in Nat
    BY <1>2
  <2> SUFFICES ASSUME NEW j \in 1..Len(ms) PROVE \E i \in 1..Len(cs) : cs[i] = ms[j]
    BY <2>0 DEF ToSet
  <2>1. CASE j <= n
    BY <1>2, <2>0, <2>1
  <2>2. CASE j > n
    <3>1. j \in n + 1 .. Len(ms) /\ j + k \in 1..Len(cs)
      BY <1>2, <2>0, <2>2
    <3>2. QED
      BY <1>2, <3>1
  <2>3. QED
    BY <2>0, <2>1, <2>2
<1>4. QED
  BY <1>2, <1>3 DEF cs, Sound

LEMMA ShortSeqs ==
  ASSUME NEW S
  PROVE  /\ \A x, y \in S : <<x, y>> \in Seq(S)
         /\ \A x, y, z \in S : <<x, y, z>> \in Seq(S)
  OBVIOUS

LEMMA AppendPair ==
  ASSUME NEW S, NEW a \in S, NEW b \in S
  PROVE  Append(<<a>>, b) = <<a, b>>
<1>1. <<a>> \in Seq(S) /\ <<a, b>> \in Seq(S) /\ Append(<<a>>, b) \in Seq(S)
  OBVIOUS
<1>2. Len(Append(<<a>>, b)) = 2 /\ Append(<<a>>, b)[1] = a /\ Append(<<a>>, b)[2] = b
  BY <1>1
<1>3. Len(<<a, b>>) = 2 /\ <<a, b>>[1] = a /\ <<a, b>>[2] = b
  OBVIOUS
<1> DEFINE p == Append(<<a>>, b)
           q == <<a, b>>
<1> HIDE DEF p, q
<1>4. p \in Seq(S) /\ q \in Seq(S) /\ Len(p) = Len(q) /\ \A i \in 1..Len(p) : p[i] = q[i]
  BY <1>1, <1>2, <1>3 DEF p, q
<1>5. p = q
  BY <1>4, SeqEqual
<1>6. QED
  BY <1>5 DEF p, q

\* What the commands have to store.
LEMMA StoresAre ==
  ASSUME NEW t \in Turns
  PROVE  /\ <<Store(Message("prompt", t))>> \in Seq(StoreOp)
         /\ SwarmStores(t) \cup FailedSwarmStores(t) \cup DirectStores(t) \cup FailedDirectStores(t)
              \subseteq Seq(StoreOp)
<1>1. t \in Nat
  BY ChatAssumption DEF Turns
<1>2. \A kind \in Kinds \ {"epoch"} : Message(kind, t) \in NonBlock /\ Message(kind, 0) \in NonBlock
  BY <1>1 DEF Message, NonBlock, Msg
<1>3. \A n \in Sizes : Ledger(t, n) \in NonBlock
  <2> SUFFICES ASSUME NEW n \in Sizes PROVE Ledger(t, n) \in NonBlock
    OBVIOUS
  <2>1. n \in Nat /\ Message("ledger", t) \in NonBlock
    BY <1>2, ChatAssumption DEF Kinds
  <2>2. QED
    BY <2>1 DEF Ledger, NonBlock, Msg
<1>4. \A m \in NonBlock : Store(m) \in StoreOp
  BY DEF Store, StoreOp
<1>5. (\A b \in BOOLEAN : StoreTranscript(t, b) \in StoreOp) /\ Compact \in StoreOp
  BY <1>2 DEF StoreTranscript, Compact, StoreOp, Kinds
<1>6. SwarmStores(t) \subseteq Seq(StoreOp)
  <2>1. \A n \in Sizes : Store(Ledger(t, n)) \in StoreOp /\ StoreTranscript(t, TRUE) \in StoreOp
    BY <1>3, <1>4, <1>5
  <2>2. QED
    BY <1>5, <2>1, ShortSeqs DEF SwarmStores
<1>7. FailedSwarmStores(t) \subseteq Seq(StoreOp)
  <2>1. Store(Message("error", t)) \in StoreOp /\ StoreTranscript(t, FALSE) \in StoreOp
    BY <1>2, <1>4, <1>5 DEF Kinds
  <2>2. QED
    BY <2>1, ShortSeqs DEF FailedSwarmStores
<1>8. \A a, b \in NonBlock : StoreAll(<<a, b>>) \in Seq(StoreOp)
  <2> SUFFICES ASSUME NEW a \in NonBlock, NEW b \in NonBlock PROVE StoreAll(<<a, b>>) \in Seq(StoreOp)
    OBVIOUS
  <2>1. StoreAll(<<a, b>>) = [i \in 1..2 |-> Store(<<a, b>>[i])]
    BY DEF StoreAll
  <2>2. \A i \in 1..2 : Store(<<a, b>>[i]) \in StoreOp
    BY <1>4
  <2>3. [i \in 1..2 |-> Store(<<a, b>>[i])] \in Seq(StoreOp)
    BY <2>2
  <2>4. QED
    BY <2>1, <2>3
<1>9. DirectStores(t) \cup FailedDirectStores(t) \subseteq Seq(StoreOp)
  <2>1. /\ Message("call", t) \in NonBlock /\ Message("tool", t) \in NonBlock
        /\ Message("error", t) \in NonBlock
    BY <1>2 DEF Kinds
  <2>2. \A a, b \in NonBlock : Append(<<a>>, b) = <<a, b>>
    BY AppendPair
  <2>3. QED
    BY <1>8, <2>1, <2>2 DEF DirectStores, FailedDirectStores, DirectTrace, FailedTrace
<1>10. <<Store(Message("prompt", t))>> \in Seq(StoreOp)
  <2>1. Store(Message("prompt", t)) \in StoreOp
    BY <1>2, <1>4 DEF Kinds
  <2>2. QED
    BY <2>1
<1>11. QED
  BY <1>6, <1>7, <1>9, <1>10

\* A stored operation turns a sound session into a sound one with all of its
\* messages, and with the message it is about.
LEMMA ChangedIs ==
  ASSUME NEW o \in StoreOp, NEW s \in Session, Sound(s.messages)
  PROVE  /\ Changed(o, s) \in Session /\ Sound(Changed(o, s).messages)
         /\ ToSet(s.messages) \subseteq ToSet(Changed(o, s).messages)
         /\ o.op = "message" => o.msg \in ToSet(Changed(o, s).messages)
<1>1. s.messages \in Seq(Msg) /\ s.transcript \subseteq Nat /\ o.msg \in NonBlock /\ o.msg.turn \in Nat
  BY DEF Session, StoreOp, NonBlock, Msg
<1>2. ASSUME NEW ms \in Seq(Msg)
      PROVE  [s EXCEPT !.messages = ms] \in Session /\ [s EXCEPT !.messages = ms].messages = ms
  BY DEF Session
<1>3. CASE o.op = "message"
  <2>1. Changed(o, s) = [s EXCEPT !.messages = Append(s.messages, o.msg)]
    BY <1>3 DEF Changed
  <2>2. /\ Append(s.messages, o.msg) \in Seq(Msg) /\ Sound(Append(s.messages, o.msg))
        /\ ToSet(Append(s.messages, o.msg)) = ToSet(s.messages) \cup {o.msg}
    BY <1>1, AppendSound
  <2>3. QED
    BY <1>2, <2>1, <2>2
<1>4. CASE o.op = "transcript"
  <2>1. Changed(o, s) = [s EXCEPT !.transcript = s.transcript \cup {o.msg.turn}]
    BY <1>4 DEF Changed
  <2>2. QED
    BY <1>1, <1>4, <2>1 DEF Session
<1>5. CASE o.op = "compact"
  <2>1. Changed(o, s) = [s EXCEPT !.messages = Compacted(s.messages)]
    BY <1>5 DEF Changed
  <2>2. /\ Compacted(s.messages) \in Seq(Msg) /\ Sound(Compacted(s.messages))
        /\ ToSet(s.messages) \subseteq ToSet(Compacted(s.messages))
    BY <1>1, CompactSound
  <2>3. QED
    BY <1>2, <1>5, <2>1, <2>2
<1>6. QED
  BY <1>3, <1>4, <1>5 DEF StoreOp

LEMMA ChatInvInit == ChatInit => ChatInv
<1> SUFFICES ASSUME ChatInit PROVE ChatInv
  OBVIOUS
<1>1. messages = <<>> /\ messages \in Seq(Msg) /\ Len(messages) = 0
  BY DEF ChatInit
<1>2. Sound(messages)
  <2>1. Folded(messages, 0)
    BY <1>1 DEF Folded
  <2>2. QED
    BY <1>1, <2>1 DEF Sound
<1>3. NoSession \in Session
  BY DEF NoSession, Session
<1>4. exists \in BOOLEAN /\ deleted \in BOOLEAN /\ overlapped \in BOOLEAN
  BY DEF ChatInit
<1>5. ChatTypeOK
  <2>1. <<>> \in Seq(StoreOp)
    OBVIOUS
  <2>2. QED
    BY <1>1, <1>3, <1>4, <2>1 DEF ChatInit, ChatTypeOK, Places
<1>6. LockInv /\ NothingLost
  BY DEF ChatInit, LockInv, NothingLost
<1>7. QED
  BY <1>2, <1>5, <1>6 DEF ChatInv

\* A command that neither takes nor gives up the lock, and no deletion.
LEMMA ChatElsewhere ==
  ASSUME ChatInv, ChatTypeOK', UNCHANGED <<messages, exists, io_lock, buffer, stored, deleted>>
  PROVE  ChatInv'
  BY DEF ChatInv, LockInv, NothingLost

LEMMA ChatInvStep == ChatInv /\ [ChatNext]_chatVars => ChatInv'
<1> SUFFICES ASSUME ChatInv, [ChatNext]_chatVars PROVE ChatInv'
  OBVIOUS
<1>0. /\ messages \in Seq(Msg) /\ transcript \subseteq Nat /\ exists \in BOOLEAN
      /\ io_lock \subseteq Turns /\ buffer \in [Turns -> Session]
      /\ mode \in [Turns -> {"swarm", "direct"}] /\ pc \in [Turns -> Places]
      /\ todo \in [Turns -> Seq(StoreOp)]
      /\ crashes \in Nat /\ resumed \subseteq Turns
      /\ stored \subseteq NonBlock /\ deleted \in BOOLEAN /\ overlapped \in BOOLEAN
      /\ LockInv /\ Sound(messages) /\ NothingLost
  BY DEF ChatInv, ChatTypeOK
<1>1. ASSUME NEW t \in Turns, Issue(t) PROVE ChatInv'
  <2>1. todo' \in [Turns -> Seq(StoreOp)] /\ pc' \in [Turns -> Places]
    <3>1. <<Store(Message("prompt", t))>> \in Seq(StoreOp)
      BY StoresAre
    <3>2. QED
      BY <1>0, <1>1, <3>1 DEF Issue, Places
  <2>2. overlapped' \in BOOLEAN
    BY <1>0, <1>1 DEF Issue
  <2>3. ChatTypeOK'
    BY <1>0, <1>1, <2>1, <2>2 DEF Issue, ChatTypeOK, sessionFile, bounds
  <2>4. QED
    BY <1>1, <2>3, ChatElsewhere DEF Issue, sessionFile
<1>2. ASSUME NEW t \in Turns, Resume(t) PROVE ChatInv'
  <2>1. overlapped' \in BOOLEAN
    BY <1>0, <1>2 DEF Resume
  <2>2. ChatTypeOK'
    BY <1>0, <1>2, <2>1 DEF Resume, ChatTypeOK, sessionFile, Places
  <2>3. QED
    BY <1>2, <2>2, ChatElsewhere DEF Resume, sessionFile
<1>3. ASSUME NEW t \in Turns, BeginStore(t) PROVE ChatInv'
  <2> DEFINE b == [messages |-> messages, transcript |-> transcript]
  <2>1. b \in Session /\ b.messages = messages
    BY <1>0 DEF Session
  <2>2. io_lock = {} /\ io_lock' = {t} /\ buffer' = [buffer EXCEPT ![t] = b]
    BY <1>3 DEF BeginStore, LockFree
  <2> HIDE DEF b
  <2>3. buffer' \in [Turns -> Session] /\ buffer'[t].messages = messages
    BY <1>0, <2>1, <2>2
  <2>4. ChatTypeOK'
    BY <1>0, <1>3, <2>2, <2>3 DEF BeginStore, ChatTypeOK, sessionFile, commands, bounds, history
  <2>5. QED
    BY <1>0, <1>3, <2>2, <2>3, <2>4 DEF BeginStore, ChatInv, LockInv, NothingLost, sessionFile, history
<1>4. ASSUME NEW t \in Turns, StoreFails(t) PROVE ChatInv'
  <2>1. todo[t] \in Seq(StoreOp) /\ todo[t] # <<>>
    BY <1>0, <1>4 DEF StoreFails
  <2>2. Tail(todo[t]) \in Seq(StoreOp)
    BY <2>1
  <2>3. todo' \in [Turns -> Seq(StoreOp)] /\ pc' \in [Turns -> Places]
    <3>1. <<>> \in Seq(StoreOp) /\ "over" \in Places
      BY DEF Places
    <3>2. CASE Head(todo[t]).must
      <4>1. todo' = [todo EXCEPT ![t] = <<>>] /\ pc' = [pc EXCEPT ![t] = "over"]
        BY <1>4, <3>2 DEF StoreFails
      <4>2. QED
        BY <1>0, <3>1, <4>1
    <3>3. CASE ~Head(todo[t]).must
      <4>1. todo' = [todo EXCEPT ![t] = Tail(todo[t])] /\ pc' = pc
        BY <1>4, <3>3 DEF StoreFails
      <4>2. QED
        BY <1>0, <2>2, <4>1
    <3>4. QED
      BY <3>2, <3>3
  <2>4. ChatTypeOK'
    BY <1>0, <1>4, <2>3 DEF StoreFails, ChatTypeOK, sessionFile, bounds, history
  <2>5. QED
    BY <1>4, <2>4, ChatElsewhere DEF StoreFails, sessionFile, history
<1>5. ASSUME NEW t \in Turns, EndStore(t) PROVE ChatInv'
  <2> DEFINE o == Head(todo[t])
             s == buffer[t]
             c == Changed(o, s)
  <2>1. todo[t] \in Seq(StoreOp) /\ todo[t] # <<>> /\ t \in io_lock
    BY <1>0, <1>5 DEF EndStore
  <2>2. o \in StoreOp /\ Tail(todo[t]) \in Seq(StoreOp) /\ s \in Session /\ o.msg \in NonBlock
    <3>1. o \in StoreOp
      BY <2>1
    <3>2. Tail(todo[t]) \in Seq(StoreOp)
      BY <2>1
    <3>3. s \in Session
      BY <1>0
    <3>4. QED
      BY <3>1, <3>2, <3>3 DEF StoreOp
  <2>3. Sound(s.messages) /\ (~deleted => exists /\ s.messages = messages) /\ io_lock = {t}
    BY <1>0, <2>1 DEF LockInv
  <2>4. /\ c \in Session /\ Sound(c.messages) /\ ToSet(s.messages) \subseteq ToSet(c.messages)
        /\ o.op = "message" => o.msg \in ToSet(c.messages)
    BY <2>2, <2>3, ChangedIs
  <2>5. /\ messages' = c.messages /\ transcript' = c.transcript /\ exists' = TRUE
        /\ stored' = (IF o.op = "message" THEN stored \cup {o.msg} ELSE stored)
        /\ todo' = [todo EXCEPT ![t] = Tail(todo[t])] /\ buffer' = [buffer EXCEPT ![t] = NoSession]
        /\ io_lock' = io_lock \ {t}
        /\ UNCHANGED <<mode, pc, window, bounds, deleted, overlapped>>
    BY <1>5 DEF EndStore, Release
  <2> HIDE DEF o, s, c
  <2>6. NoSession \in Session
    BY DEF NoSession, Session
  <2>7. todo' \in [Turns -> Seq(StoreOp)] /\ buffer' \in [Turns -> Session]
    BY <1>0, <2>2, <2>5, <2>6
  <2>8. messages' \in Seq(Msg) /\ transcript' \subseteq Nat /\ stored' \subseteq NonBlock
    BY <1>0, <2>2, <2>4, <2>5 DEF Session
  <2>9. ChatTypeOK'
    <3>1. exists' \in BOOLEAN
      BY <2>5
    <3>2. QED
      BY <1>0, <2>5, <2>7, <2>8, <3>1 DEF ChatTypeOK, bounds
  <2>10. io_lock' = {} /\ exists' /\ LockInv'
    BY <2>3, <2>5 DEF LockInv
  <2>11. NothingLost'
    BY <1>0, <2>3, <2>4, <2>5 DEF NothingLost
  <2>12. QED
    BY <2>4, <2>5, <2>9, <2>10, <2>11 DEF ChatInv
<1>6. ASSUME NEW t \in Turns, RunEnds(t) \/ RunFails(t) PROVE ChatInv'
  <2>1. PICK st \in Seq(StoreOp) : todo' = [todo EXCEPT ![t] = st]
    BY <1>6, StoresAre DEF RunEnds, RunFails
  <2>2. todo' \in [Turns -> Seq(StoreOp)]
    BY <1>0, <2>1
  <2>3. pc' \in [Turns -> Places]
    BY <1>0, <1>6 DEF RunEnds, RunFails, Places
  <2>4. ChatTypeOK'
    BY <1>0, <1>6, <2>2, <2>3 DEF RunEnds, RunFails, ChatTypeOK, sessionFile, bounds, history
  <2>5. QED
    BY <1>6, <2>4, ChatElsewhere DEF RunEnds, RunFails, sessionFile, history
<1>7. ASSUME NEW t \in Turns, Finish(t) PROVE ChatInv'
  <2>1. pc' \in [Turns -> Places]
    BY <1>0, <1>7 DEF Finish, Places
  <2>2. ChatTypeOK'
    BY <1>0, <1>7, <2>1 DEF Finish, ChatTypeOK, sessionFile, bounds, history
  <2>3. QED
    BY <1>7, <2>2, ChatElsewhere DEF Finish, sessionFile, history
<1>8. CASE Delete
  <2>1. /\ messages' = <<>> /\ messages' \in Seq(Msg) /\ Len(messages') = 0 /\ transcript' = {}
        /\ exists' = FALSE /\ deleted' = TRUE
    BY <1>8 DEF Delete
  <2>2. Sound(messages)'
    <3>1. Folded(messages', 0)
      BY <2>1 DEF Folded
    <3>2. QED
      BY <2>1, <3>1 DEF Sound
  <2>3. exists' \in BOOLEAN /\ deleted' \in BOOLEAN
    BY <2>1
  <2>4. ChatTypeOK'
    BY <1>0, <1>8, <2>1, <2>3 DEF Delete, ChatTypeOK, commands, bounds
  <2>5. LockInv' /\ NothingLost'
    BY <1>0, <1>8, <2>1 DEF Delete, LockInv, NothingLost
  <2>6. QED
    BY <2>2, <2>4, <2>5 DEF ChatInv
<1>9. CASE ProcessDies
  <2>1. /\ pc' \in [Turns -> Places] /\ todo' \in [Turns -> Seq(StoreOp)]
        /\ buffer' \in [Turns -> Session] /\ crashes' \in Nat /\ io_lock' = {}
    <3>1. <<>> \in Seq(StoreOp) /\ NoSession \in Session
      BY DEF NoSession, Session
    <3>2. QED
      BY <1>0, <1>9, <3>1 DEF ProcessDies, Places
  <2>2. ChatTypeOK'
    BY <1>0, <1>9, <2>1 DEF ProcessDies, ChatTypeOK, sessionFile, history
  <2>3. LockInv' /\ NothingLost' /\ Sound(messages)'
    BY <1>0, <1>9, <2>1 DEF ProcessDies, LockInv, NothingLost, sessionFile, history
  <2>4. QED
    BY <2>2, <2>3 DEF ChatInv
<1>10. CASE UNCHANGED chatVars
  <2>1. ChatTypeOK'
    BY <1>0, <1>10 DEF chatVars, ChatTypeOK, sessionFile, commands, bounds, history
  <2>2. QED
    BY <1>10, <2>1, ChatElsewhere DEF chatVars, sessionFile, history
<1>11. QED
  BY <1>1, <1>2, <1>3, <1>4, <1>5, <1>6, <1>7, <1>8, <1>9, <1>10
    DEF ChatNext, TurnStep

LEMMA ChatInvCorrect == ChatSpec => []ChatInv
  BY ChatInvInit, ChatInvStep, PTL DEF ChatSpec

\* The session file, what the commands hold of it and what they have still to
\* store keep their types.
THEOREM ChatTypeCorrect == ChatSpec => []ChatTypeOK
<1>1. ChatInv => ChatTypeOK
  BY DEF ChatInv
<1>2. QED
  BY <1>1, ChatInvCorrect, PTL

\* What an append reported as stored is in the file.
THEOREM NothingIsLost == ChatSpec => []NothingLost
<1>1. ChatInv => NothingLost
  BY DEF ChatInv
<1>2. QED
  BY <1>1, ChatInvCorrect, PTL

\* The blocks of the file are at its front and cover the oldest turns, batch by
\* batch, and never one of the newest.
THEOREM BlocksAreInOrder == ChatSpec => []BlocksCoverOldTurns
<1>1. ASSUME ChatInv PROVE BlocksCoverOldTurns
  <2>1. messages \in Seq(Msg) /\ DOMAIN messages = 1..Len(messages) /\ Len(messages) \in Nat
    BY <1>1 DEF ChatInv, ChatTypeOK
  <2>2. PICK n \in 0..Len(messages) : Folded(messages, n)
    BY <1>1 DEF ChatInv, Sound
  <2> DEFINE b == COMPRESS_BATCH
  <2>3. Covered(messages) = n * b /\ b \in Nat /\ n \in Nat
    BY <2>1, <2>2, CoveredIs, ChatAssumption
  <2>4. ASSUME NEW i \in DOMAIN messages, messages[i].kind = "epoch" PROVE i \in 1..n
    BY <2>1, <2>2, <2>4 DEF Folded, NonBlock
  <2> HIDE DEF b
  <2>5. ASSUME NEW i \in 1..n
        PROVE  /\ messages[i].kind = "epoch" /\ messages[i].from = i * b - b
               /\ messages[i].upto = i * b /\ i * b \in Nat /\ (i = 1 => i * b - b = 0)
    <3>1. messages[i].from = (i - 1) * b /\ messages[i].upto = i * b /\ messages[i].kind = "epoch"
      BY <2>2 DEF Folded, b
    <3>2. (i - 1) * b = i * b - b /\ i * b \in Nat
      BY <2>3, BatchTimes
    <3>3. i = 1 => i * b - b = 0
      BY <2>3
    <3>4. QED
      BY <3>1, <3>2, <3>3
  <2>6. ASSUME NEW i \in 2..n PROVE messages[i].from = messages[i - 1].upto
    <3>1. i - 1 \in 1..n /\ i \in 1..n
      BY <2>3
    <3>2. (i - 1) * b = i * b - b
      BY <2>3, BatchTimes
    <3>3. QED
      BY <2>5, <3>1, <3>2
  <2>7. n # 0 => Covered(messages) + RECENT_KEEP <= Ledgers(messages)
    BY <2>2, <2>3 DEF Folded, b
  <2> SUFFICES ASSUME NEW i \in DOMAIN messages, messages[i].kind = "epoch"
               PROVE  /\ IF i = 1 THEN messages[i].from = 0
                          ELSE messages[i - 1].kind = "epoch" /\ messages[i].from = messages[i - 1].upto
                      /\ messages[i].upto = messages[i].from + b
                      /\ Covered(messages) + RECENT_KEEP <= Ledgers(messages)
    BY DEF BlocksCoverOldTurns, b
  <2>8. i \in 1..n /\ n # 0
    BY <2>3, <2>4
  <2>9. messages[i].upto = messages[i].from + b
    BY <2>3, <2>5, <2>8
  <2>10. CASE i = 1
    BY <2>5, <2>7, <2>8, <2>9, <2>10
  <2>11. CASE i # 1
    <3>1. i \in 2..n /\ i - 1 \in 1..n
      BY <2>3, <2>8, <2>11
    <3>2. messages[i - 1].kind = "epoch" /\ messages[i].from = messages[i - 1].upto
      BY <2>5, <2>6, <3>1
    <3>3. QED
      BY <2>7, <2>8, <2>9, <2>11, <3>2
  <2>12. QED
    BY <2>10, <2>11
<1>2. QED
  BY <1>1, ChatInvCorrect, PTL

-----------------------------------------------------------------------------
(* What the windows show.                                                  *)

\* The k-th smallest of a finite set of positions is there, and its rank is k.
LEMMA RankIs ==
  ASSUME NEW S \in SUBSET Nat, IsFiniteSet(S)
  PROVE  /\ Cardinality(S) \in Nat
         /\ \A i \in S : Rank(S, i) \in 1..Cardinality(S)
         /\ \A i, j \in S : i < j => Rank(S, i) < Rank(S, j)
         /\ \A i \in S : i - 1 \in S => Rank(S, i) = Rank(S, i - 1) + 1
<1> DEFINE B(i) == {j \in S : j <= i}
<1>1. Cardinality(S) \in Nat
  BY FS_CardinalityType
<1>2. ASSUME NEW i \in S
      PROVE  /\ IsFiniteSet(B(i)) /\ Rank(S, i) = Cardinality(B(i))
             /\ Rank(S, i) \in Nat /\ Rank(S, i) <= Cardinality(S)
  <2>1. B(i) \in SUBSET S
    OBVIOUS
  <2>2. QED
    BY <2>1, FS_Subset, FS_CardinalityType DEF Rank
<1>3. ASSUME NEW i \in S PROVE Rank(S, i) # 0
  <2>1. i \in B(i)
    OBVIOUS
  <2>2. QED
    BY <1>2, <2>1, FS_EmptySet
<1>4. ASSUME NEW i \in S, NEW j \in S, i < j
      PROVE  Rank(S, i) < Rank(S, j) /\ (i = j - 1 => Rank(S, j) = Rank(S, i) + 1)
  <2> DEFINE C == B(i) \cup {j}
  <2>1. C \in SUBSET B(j) /\ j \notin B(i) /\ (i = j - 1 => C = B(j))
    <3>1. i \in Nat /\ j \in Nat /\ \A x \in S : x \in Nat
      OBVIOUS
    <3>2. \A x \in S : x <= i => x <= j
      BY <1>4, <3>1
    <3>3. ASSUME i = j - 1 PROVE \A x \in S : x <= j <=> x <= i \/ x = j
      BY <3>1, <3>3
    <3>4. j <= j /\ ~(j <= i)
      BY <1>4, <3>1
    <3>5. QED
      BY <3>2, <3>3, <3>4
  <2>2. IsFiniteSet(C) /\ Cardinality(C) = Cardinality(B(i)) + 1
    BY <1>2, <2>1, FS_AddElement
  <2>3. Cardinality(C) <= Cardinality(B(j))
    BY <1>2, <2>1, FS_Subset
  <2> HIDE DEF C, B
  <2>4. QED
    BY <1>2, <2>1, <2>2, <2>3
<1> HIDE DEF B
<1>5. ASSUME NEW i \in S, i - 1 \in S PROVE Rank(S, i) = Rank(S, i - 1) + 1
  BY <1>4, <1>5
<1>6. QED
  BY <1>1, <1>2, <1>3, <1>4, <1>5

LEMMA NthIs ==
  ASSUME NEW S \in SUBSET Nat, IsFiniteSet(S)
  PROVE  /\ \A k \in 1..Cardinality(S) : Nth(S, k) \in S /\ Rank(S, Nth(S, k)) = k
         /\ \A i \in S : Nth(S, Rank(S, i)) = i
<1> DEFINE n == Cardinality(S)
           r == [i \in S |-> Rank(S, i)]
<1>1. /\ n \in Nat /\ \A i \in S : Rank(S, i) \in 1..n
      /\ \A i, j \in S : i < j => Rank(S, i) < Rank(S, j)
  BY RankIs
<1>2. \A i, j \in S : Rank(S, i) = Rank(S, j) => i = j
  BY <1>1
<1>3. IsFiniteSet(1..n) /\ Cardinality(1..n) = n
  BY <1>1, FS_Interval
<1>4. r \in Surjection(S, 1..n)
  <2>1. r \in Injection(S, 1..n)
    BY <1>1, <1>2 DEF Injection, IsInjective
  <2> HIDE DEF r, n
  <2>2. Cardinality(S) = Cardinality(1..n)
    BY <1>3 DEF n
  <2>3. QED
    BY <1>3, <2>1, <2>2, FS_Injection
<1>5. \A k \in 1..n : \E i \in S : Rank(S, i) = k
  BY <1>4 DEF Surjection
<1> HIDE DEF n
<1>6. ASSUME NEW k \in 1..n PROVE Nth(S, k) \in S /\ Rank(S, Nth(S, k)) = k
  <2>1. \E i \in S : Rank(S, i) = k
    BY <1>5
  <2>2. QED
    BY <2>1 DEF Nth
<1>7. ASSUME NEW i \in S PROVE Nth(S, Rank(S, i)) = i
  BY <1>1, <1>2, <1>6
<1>8. QED
  BY <1>6, <1>7 DEF n

\* Positions that come after all of S change none of its ranks.
LEMMA NthKept ==
  ASSUME NEW T \in SUBSET Nat, IsFiniteSet(T), NEW S \in SUBSET T,
         \A i \in T, j \in S : i <= j => i \in S
  PROVE  /\ Cardinality(S) <= Cardinality(T)
         /\ \A k \in 1..Cardinality(S) : Nth(T, k) = Nth(S, k)
<1>1. IsFiniteSet(S) /\ Cardinality(S) \in Nat /\ Cardinality(T) \in Nat /\ Cardinality(S) <= Cardinality(T)
  BY FS_Subset, FS_CardinalityType
<1>2. ASSUME NEW j \in S PROVE Rank(T, j) = Rank(S, j)
  <2>1. {i \in T : i <= j} = {i \in S : i <= j}
    OBVIOUS
  <2>2. QED
    BY <2>1 DEF Rank
<1>3. ASSUME NEW k \in 1..Cardinality(S) PROVE Nth(T, k) = Nth(S, k)
  <2>1. Nth(S, k) \in S /\ Rank(S, Nth(S, k)) = k
    BY <1>1, NthIs
  <2>2. Rank(T, Nth(S, k)) = k /\ Nth(S, k) \in T
    BY <1>2, <2>1
  <2>3. QED
    BY <2>2, NthIs
<1>4. QED
  BY <1>1, <1>3

\* The window of a swarm turn, by the positions it shows.
ShownIn(ms) == {i \in DOMAIN ms : Shown(ms, i)}

LEMMA ContextIs ==
  ASSUME NEW ms \in Seq(Msg)
  PROVE  /\ ShownIn(ms) \in SUBSET Nat /\ IsFiniteSet(ShownIn(ms))
         /\ Cardinality(ShownIn(ms)) \in Nat
         /\ LedgerContext(ms) = [k \in 1..Cardinality(ShownIn(ms)) |-> ms[Nth(ShownIn(ms), k)]]
         /\ LedgerContext(ms) \in Seq(Msg) /\ Len(LedgerContext(ms)) = Cardinality(ShownIn(ms))
<1> DEFINE S == ShownIn(ms)
<1>1. Len(ms) \in Nat /\ DOMAIN ms = 1..Len(ms) /\ \A i \in 1..Len(ms) : ms[i] \in Msg
  OBVIOUS
<1>2. IsFiniteSet(1..Len(ms)) /\ S \in SUBSET (1..Len(ms))
  BY <1>1, FS_Interval DEF ShownIn
<1>3. S \in SUBSET Nat /\ IsFiniteSet(S) /\ Cardinality(S) \in Nat
  BY <1>1, <1>2, FS_Subset, FS_CardinalityType
<1>4. LedgerContext(ms) = [k \in 1..Cardinality(S) |-> ms[Nth(S, k)]]
  BY DEF LedgerContext, ShownIn
<1> HIDE DEF S
<1>5. \A k \in 1..Cardinality(S) : ms[Nth(S, k)] \in Msg
  BY <1>1, <1>2, <1>3, NthIs
<1>6. LedgerContext(ms) \in Seq(Msg) /\ Len(LedgerContext(ms)) = Cardinality(S)
  BY <1>3, <1>4, <1>5
<1>7. QED
  BY <1>3, <1>4, <1>6 DEF S

\* A sequence whose elements are the first ones of another is its prefix.
LEMMA PrefixOf ==
  ASSUME NEW s \in Seq(Msg), NEW z \in Seq(Msg), Len(s) <= Len(z),
         \A k \in 1..Len(s) : z[k] = s[k]
  PROVE  IsPrefix(s, z)
<1>1. Len(s) \in Nat /\ Len(z) \in Nat
  OBVIOUS
<1>2. SubSeq(s, 1, Len(s)) = [k \in 1..Len(s) |-> s[k]]
  OBVIOUS
<1>3. SubSeq(z, 1, Len(s)) = [k \in 1..Len(s) |-> z[k]]
  BY <1>1
<1>4. QED
  BY <1>2, <1>3 DEF IsPrefix

\* A message at the end of the file leaves what is shown before it, as long as
\* the blocks cover as many turns.
LEMMA ContextGrows ==
  ASSUME NEW ms \in Seq(Msg), NEW m \in Msg, Covered(Append(ms, m)) = Covered(ms)
  PROVE  IsPrefix(LedgerContext(ms), LedgerContext(Append(ms, m)))
<1> DEFINE ns == Append(ms, m)
           S == ShownIn(ms)
           T == ShownIn(ns)
<1>1. /\ Len(ms) \in Nat /\ DOMAIN ms = 1..Len(ms) /\ ns \in Seq(Msg) /\ DOMAIN ns = 1..(Len(ms) + 1)
      /\ \A i \in 1..Len(ms) : ns[i] = ms[i]
  OBVIOUS
<1>2. Covered(ns) = Covered(ms)
  OBVIOUS
<1> HIDE DEF ns
<1>3. ASSUME NEW i \in 1..Len(ms) PROVE Shown(ns, i) <=> Shown(ms, i)
  <2>1. {j \in 1..(i - 1) : ns[j].kind = "ledger"} = {j \in 1..(i - 1) : ms[j].kind = "ledger"}
    BY <1>1
  <2>2. LedgersBefore(ns, i) = LedgersBefore(ms, i)
    BY <2>1 DEF LedgersBefore
  <2>3. QED
    BY <1>1, <1>2, <2>2 DEF Shown
<1>4. S \in SUBSET T /\ \A i \in T, j \in S : i <= j => i \in S
  BY <1>1, <1>3 DEF ShownIn
<1>5. /\ Cardinality(S) \in Nat /\ LedgerContext(ms) \in Seq(Msg)
      /\ Len(LedgerContext(ms)) = Cardinality(S) /\ IsFiniteSet(S) /\ S \in SUBSET Nat
      /\ LedgerContext(ms) = [k \in 1..Cardinality(S) |-> ms[Nth(S, k)]]
  BY ContextIs
<1>6. /\ Cardinality(T) \in Nat /\ LedgerContext(ns) \in Seq(Msg)
      /\ Len(LedgerContext(ns)) = Cardinality(T) /\ IsFiniteSet(T) /\ T \in SUBSET Nat
      /\ LedgerContext(ns) = [k \in 1..Cardinality(T) |-> ns[Nth(T, k)]]
  BY <1>1, ContextIs
<1>7. S \subseteq 1..Len(ms)
  BY <1>1 DEF ShownIn
<1> HIDE DEF S, T
<1>8. Cardinality(S) <= Cardinality(T) /\ \A k \in 1..Cardinality(S) : Nth(T, k) = Nth(S, k)
  BY <1>4, <1>6, NthKept
<1>9. ASSUME NEW k \in 1..Cardinality(S) PROVE LedgerContext(ns)[k] = LedgerContext(ms)[k]
  <2>1. Nth(S, k) \in S
    BY <1>5, NthIs
  <2>2. ns[Nth(S, k)] = ms[Nth(S, k)]
    BY <1>1, <1>7, <2>1
  <2>3. k \in 1..Cardinality(T)
    BY <1>5, <1>6, <1>8
  <2>4. QED
    BY <1>5, <1>6, <1>8, <2>2, <2>3
<1>10. QED
  BY <1>5, <1>6, <1>8, <1>9, PrefixOf DEF ns

\* A folding that adds no block changes nothing.
LEMMA CompactIdle ==
  ASSUME NEW ms \in Seq(Msg), Sound(ms), Covered(Compacted(ms)) = Covered(ms)
  PROVE  Compacted(ms) = ms
<1> DEFINE k == ToFold(ms) \div COMPRESS_BATCH
           b == COMPRESS_BATCH
           cs == Compacted(ms)
<1>1. PICK n \in 0..Len(ms) : Folded(ms, n)
  BY DEF Sound
<1>2. /\ k \in Nat /\ cs \in Seq(Msg) /\ Len(cs) = Len(ms) + k
      /\ n + k \in 0..Len(cs) /\ Folded(cs, n + k)
      /\ \A i \in 1..n : cs[i] = ms[i]
      /\ \A i \in n + 1 .. Len(ms) : cs[i + k] = ms[i]
  BY <1>1, CompactFolded
<1>3. Covered(ms) = n * b /\ Covered(cs) = (n + k) * b
  BY <1>1, <1>2, CoveredIs
<1> HIDE DEF k
<1>4. k = 0
  <2>1. b \in Nat \ {0} /\ n \in Nat
    BY ChatAssumption
  <2> HIDE DEF b
  <2>2. (n + k) * b = n * b + k * b /\ n * b \in Nat /\ k * b \in Nat
    BY <1>2, <2>1, BatchTimes
  <2>3. k * b = 0
    BY <1>3, <2>2
  <2>4. 1 <= k => 1 * b <= k * b
    BY <1>2, <2>1, BatchTimes
  <2>5. QED
    BY <1>2, <2>1, <2>3, <2>4
<1> HIDE DEF cs
<1>5. \A i \in 1..Len(ms) : cs[i] = ms[i]
  BY <1>2, <1>4
<1>6. Len(cs) = Len(ms)
  BY <1>2, <1>4
<1>7. cs = ms
  BY <1>2, <1>5, <1>6
<1>8. QED
  BY <1>7 DEF cs

\* Between two foldings the window only grows at its end: what is added to the
\* session is shown after everything that was shown before.
THEOREM PrefixIsKept == ChatSpec => PrefixStaysCached
<1> DEFINE Grows ==
      exists /\ exists' /\ Covered(messages) = Covered(messages') =>
        IsPrefix(LedgerContext(messages), LedgerContext(messages'))
<1>1. ASSUME NEW ms \in Seq(Msg) PROVE IsPrefix(LedgerContext(ms), LedgerContext(ms))
  <2>1. LedgerContext(ms) \in Seq(Msg)
    BY ContextIs
  <2>2. QED
    BY <2>1, PrefixOf
<1>2. ASSUME ChatInv, [ChatNext]_chatVars PROVE Grows
  <2>1. messages \in Seq(Msg) /\ Sound(messages) /\ LockInv /\ todo \in [Turns -> Seq(StoreOp)]
    BY <1>2 DEF ChatInv, ChatTypeOK
  <2>2. CASE messages' = messages
    BY <1>1, <2>1, <2>2
  <2>3. CASE Delete
    BY <2>3 DEF Delete
  <2>4. ASSUME NEW t \in Turns, EndStore(t), exists, Covered(messages) = Covered(messages')
        PROVE  IsPrefix(LedgerContext(messages), LedgerContext(messages'))
    <3> DEFINE o == Head(todo[t])
               s == buffer[t]
    <3>1. /\ messages' = Changed(o, s).messages /\ t \in io_lock
          /\ todo[t] # <<>> /\ todo[t] \in Seq(StoreOp)
      BY <2>1, <2>4 DEF EndStore
    <3>2. o \in StoreOp
      BY <3>1
    <3>3. s.messages = messages /\ s \in Session
      BY <1>2, <2>4, <3>1 DEF LockInv, ChatInv, ChatTypeOK
    <3> HIDE DEF o, s
    <3>4. CASE o.op = "message"
      <4>1. o.msg \in Msg /\ messages' = Append(messages, o.msg)
        BY <3>1, <3>2, <3>3, <3>4 DEF Changed, Session, StoreOp, NonBlock
      <4>2. QED
        BY <2>1, <2>4, <4>1, ContextGrows
    <3>5. CASE o.op = "transcript"
      <4>1. messages' = messages
        BY <3>1, <3>2, <3>3, <3>5 DEF Changed, Session
      <4>2. QED
        BY <1>1, <2>1, <4>1
    <3>6. CASE o.op = "compact"
      <4>1. messages' = Compacted(messages)
        BY <3>1, <3>2, <3>3, <3>6 DEF Changed, Session
      <4>2. messages' = messages
        BY <2>1, <2>4, <4>1, CompactIdle
      <4>3. QED
        BY <1>1, <2>1, <4>2
    <3>7. QED
      BY <3>2, <3>4, <3>5, <3>6 DEF StoreOp
  <2>5. (\E t \in Turns : EndStore(t)) \/ Delete \/ messages' = messages
    BY <1>2 DEF ChatNext, TurnStep, Issue, Resume, BeginStore, StoreFails, RunEnds, RunFails,
                Finish, ProcessDies, chatVars, sessionFile
  <2>6. QED
    BY <2>2, <2>3, <2>4, <2>5
<1>3. ChatInv /\ [ChatNext]_chatVars => [Grows]_chatVars
  BY <1>2
<1>4. QED
  BY <1>3, ChatInvCorrect, PTL DEF ChatSpec, PrefixStaysCached

\* The prompt of turn t is in the file with no ledger after it; its last message
\* is a call of turn t.
OpenPrompt(ms, t) ==
  \E j \in DOMAIN ms : ms[j] = Message("prompt", t) /\ \A l \in j..Len(ms) : ms[l].kind # "ledger"
Called(ms, t) == Len(ms) > 0 /\ ms[Len(ms)] = Message("call", t)

\* Each answer of a tool follows its call, each ledger the prompt it answers
\* with no other ledger in between.
Paired(ms) ==
  \A i \in DOMAIN ms :
    /\ ms[i].kind = "tool" => i > 1 /\ ms[i - 1] = Message("call", ms[i].turn)
    /\ ms[i].kind = "ledger" =>
         \E j \in 1..i - 1 : /\ ms[j] = Message("prompt", ms[i].turn)
                             /\ \A l \in j..i - 1 : ms[l].kind # "ledger"

LEMMA MessageIs ==
  ASSUME NEW kind \in Kinds, NEW t \in Nat
  PROVE  Message(kind, t) \in Msg /\ Message(kind, t).kind = kind /\ Message(kind, t).turn = t
  BY DEF Message, Msg

LEMMA AppendPaired ==
  ASSUME NEW ms \in Seq(Msg), NEW m \in Msg, Paired(ms),
         m.kind = "tool" => Called(ms, m.turn),
         m.kind = "ledger" => OpenPrompt(ms, m.turn)
  PROVE  Paired(Append(ms, m))
<1> DEFINE ns == Append(ms, m)
           n == Len(ms)
<1>1. /\ n \in Nat /\ DOMAIN ms = 1..n /\ DOMAIN ns = 1..(n + 1) /\ ns[n + 1] = m
      /\ \A i \in 1..n : ns[i] = ms[i]
  OBVIOUS
<1> HIDE DEF ns
<1> SUFFICES ASSUME NEW i \in 1..(n + 1)
             PROVE  /\ ns[i].kind = "tool" => i > 1 /\ ns[i - 1] = Message("call", ns[i].turn)
                    /\ ns[i].kind = "ledger" =>
                         \E j \in 1..i - 1 : /\ ns[j] = Message("prompt", ns[i].turn)
                                             /\ \A l \in j..i - 1 : ns[l].kind # "ledger"
  BY <1>1 DEF Paired, ns
<1>2. CASE i \in 1..n
  <2>1. \A j \in 1..i - 1 : j \in 1..n /\ \A l \in j..i - 1 : l \in 1..n
    BY <1>1, <1>2
  <2>2. i > 1 => i - 1 \in 1..n
    BY <1>1, <1>2
  <2>3. /\ ms[i].kind = "tool" => i > 1 /\ ms[i - 1] = Message("call", ms[i].turn)
        /\ ms[i].kind = "ledger" =>
             \E j \in 1..i - 1 : /\ ms[j] = Message("prompt", ms[i].turn)
                                 /\ \A l \in j..i - 1 : ms[l].kind # "ledger"
    BY <1>1, <1>2 DEF Paired
  <2> HIDE DEF n
  <2>4. QED
    BY <1>1, <1>2, <2>1, <2>2, <2>3
<1>3. CASE i = n + 1
  <2>1. ns[i] = m /\ i - 1 = n
    BY <1>1, <1>3
  <2>2. ASSUME m.kind = "tool" PROVE i > 1 /\ ns[i - 1] = Message("call", m.turn)
    <3>1. n > 0 /\ ms[n] = Message("call", m.turn)
      BY <2>2 DEF Called
    <3>2. QED
      BY <1>1, <1>3, <3>1
  <2>3. ASSUME m.kind = "ledger"
        PROVE  \E j \in 1..n : ns[j] = Message("prompt", m.turn) /\ \A l \in j..n : ns[l].kind # "ledger"
    <3>1. PICK j \in 1..n : ms[j] = Message("prompt", m.turn) /\ \A l \in j..n : ms[l].kind # "ledger"
      BY <1>1, <2>3 DEF OpenPrompt
    <3>2. \A l \in j..n : l \in 1..n
      BY <1>1
    <3> HIDE DEF n
    <3>3. QED
      BY <1>1, <3>1, <3>2
  <2> HIDE DEF n
  <2>4. QED
    BY <2>1, <2>2, <2>3
<1>4. QED
  BY <1>1, <1>2, <1>3

LEMMA AppendOpen ==
  ASSUME NEW ms \in Seq(Msg), NEW m \in Msg, NEW t \in Nat
  PROVE  /\ m.kind # "ledger" /\ OpenPrompt(ms, t) => OpenPrompt(Append(ms, m), t)
         /\ m = Message("prompt", t) => OpenPrompt(Append(ms, m), t)
         /\ m = Message("call", t) => Called(Append(ms, m), t)
<1> DEFINE ns == Append(ms, m)
           n == Len(ms)
<1>1. /\ n \in Nat /\ DOMAIN ms = 1..n /\ DOMAIN ns = 1..(n + 1) /\ ns[n + 1] = m
      /\ \A i \in 1..n : ns[i] = ms[i]
      /\ Len(ns) = n + 1
  OBVIOUS
<1> HIDE DEF ns
<1>2. ASSUME m.kind # "ledger", OpenPrompt(ms, t) PROVE OpenPrompt(ns, t)
  <2>1. PICK j \in 1..n : ms[j] = Message("prompt", t) /\ \A l \in j..n : ms[l].kind # "ledger"
    BY <1>1, <1>2 DEF OpenPrompt
  <2>2. j \in 1..(n + 1) /\ ns[j] = Message("prompt", t)
    BY <1>1, <2>1
  <2>3. \A l \in j..(n + 1) : ns[l].kind # "ledger"
    <3>1. \A l \in j..(n + 1) : l = n + 1 \/ (l \in j..n /\ l \in 1..n)
      BY <1>1
    <3> HIDE DEF n
    <3>2. QED
      BY <1>1, <1>2, <2>1, <3>1
  <2>4. QED
    BY <1>1, <2>2, <2>3 DEF OpenPrompt
<1>3. ASSUME m = Message("prompt", t) PROVE OpenPrompt(ns, t)
  <2>1. m.kind = "prompt"
    BY <1>3, MessageIs DEF Kinds
  <2>2. \A l \in n + 1 .. n + 1 : l = n + 1
    BY <1>1
  <2>3. n + 1 \in DOMAIN ns
    BY <1>1
  <2>4. QED
    BY <1>1, <1>3, <2>1, <2>2, <2>3 DEF OpenPrompt
<1>4. ASSUME m = Message("call", t) PROVE Called(ns, t)
  BY <1>1, <1>4 DEF Called
<1>5. QED
  BY <1>2, <1>3, <1>4 DEF ns

LEMMA CompactPaired ==
  ASSUME NEW ms \in Seq(Msg), Sound(ms)
  PROVE  /\ Paired(ms) => Paired(Compacted(ms))
         /\ \A t \in Nat : OpenPrompt(ms, t) => OpenPrompt(Compacted(ms), t)
<1> DEFINE k == ToFold(ms) \div COMPRESS_BATCH
           cs == Compacted(ms)
<1>1. PICK n \in 0..Len(ms) : Folded(ms, n)
  BY DEF Sound
<1>2. /\ k \in Nat /\ cs \in Seq(Msg) /\ Len(cs) = Len(ms) + k
      /\ n + k \in 0..Len(cs) /\ Folded(cs, n + k)
      /\ \A i \in n + 1 .. Len(ms) : cs[i + k] = ms[i]
  BY <1>1, CompactFolded
<1> HIDE DEF k, cs
<1>3. /\ n \in Nat /\ Len(ms) \in Nat /\ DOMAIN ms = 1..Len(ms) /\ DOMAIN cs = 1..Len(cs)
      /\ Len(cs) \in Nat
  BY <1>2
<1>4. \A i \in 1..Len(ms) : ms[i].kind # "epoch" => i \in n + 1 .. Len(ms)
  BY <1>1, <1>3 DEF Folded
<1>5. ASSUME NEW i \in 1..Len(cs), cs[i].kind # "epoch"
      PROVE  i - k \in n + 1 .. Len(ms) /\ i - k \in 1..Len(ms) /\ cs[i] = ms[i - k]
  <2>1. ~(i \in 1..(n + k))
    BY <1>2, <1>5 DEF Folded
  <2>2. i - k \in n + 1 .. Len(ms) /\ (i - k) + k = i
    BY <1>2, <1>3, <2>1
  <2>3. cs[(i - k) + k] = ms[i - k]
    BY <1>2, <2>2
  <2>4. QED
    BY <1>3, <2>2, <2>3
<1>6. ASSUME NEW i \in 1..Len(ms), ms[i].kind # "epoch"
      PROVE  i + k \in 1..Len(cs) /\ cs[i + k] = ms[i]
  BY <1>2, <1>3, <1>4, <1>6
<1>7. ASSUME NEW j \in 1..Len(ms), NEW e \in 1..Len(ms), j >= n + 1,
             \A l \in j..e : ms[l].kind # "ledger"
      PROVE  \A l \in j + k .. e + k : cs[l].kind # "ledger"
  <2> SUFFICES ASSUME NEW l \in j + k .. e + k PROVE cs[l].kind # "ledger"
    OBVIOUS
  <2>1. l - k \in j..e /\ l - k \in n + 1 .. Len(ms) /\ (l - k) + k = l
    BY <1>2, <1>3, <1>7
  <2>2. cs[(l - k) + k] = ms[l - k]
    BY <1>2, <2>1
  <2>3. QED
    BY <1>7, <2>1, <2>2
<1>8. \A t \in Nat : /\ Message("prompt", t).kind = "prompt"
                    /\ Message("call", t).kind = "call"
  BY MessageIs DEF Kinds
<1>9. ASSUME Paired(ms), NEW i \in 1..Len(cs), cs[i].kind = "tool"
      PROVE  i > 1 /\ cs[i - 1] = Message("call", cs[i].turn)
  <2>1. i - k \in n + 1 .. Len(ms) /\ i - k \in 1..Len(ms) /\ cs[i] = ms[i - k]
    BY <1>5, <1>9
  <2>2. i - k > 1 /\ ms[i - k - 1] = Message("call", cs[i].turn)
    BY <1>3, <1>9, <2>1 DEF Paired
  <2>3. i - k - 1 \in 1..Len(ms) /\ (i - k - 1) + k = i - 1 /\ i > 1
    <3>1. i \in Nat /\ k \in Nat /\ i - k <= Len(ms)
      BY <1>2, <1>3, <2>1
    <3> HIDE DEF cs
    <3>2. QED
      BY <1>3, <2>2, <3>1
  <2>4. cs[i].turn \in Nat
    <3>1. cs[i] \in Msg
      BY <1>2
    <3>2. QED
      BY <3>1 DEF Msg
  <2>5. ms[i - k - 1].kind # "epoch"
    BY <1>8, <2>2, <2>4
  <2>6. cs[(i - k - 1) + k] = ms[i - k - 1]
    BY <1>6, <2>3, <2>5
  <2>7. QED
    BY <2>2, <2>3, <2>6
<1>10. ASSUME Paired(ms), NEW i \in 1..Len(cs), cs[i].kind = "ledger"
       PROVE  \E j \in 1..i - 1 : /\ cs[j] = Message("prompt", cs[i].turn)
                                  /\ \A l \in j..i - 1 : cs[l].kind # "ledger"
  <2>1. i - k \in n + 1 .. Len(ms) /\ i - k \in 1..Len(ms) /\ cs[i] = ms[i - k]
    BY <1>5, <1>10
  <2>2. PICK j \in 1..(i - k) - 1 : /\ ms[j] = Message("prompt", cs[i].turn)
                                   /\ \A l \in j..(i - k) - 1 : ms[l].kind # "ledger"
    BY <1>3, <1>10, <2>1 DEF Paired
  <2>3. j \in 1..Len(ms) /\ (i - k) - 1 \in 1..Len(ms) /\ ((i - k) - 1) + k = i - 1
    <3> DEFINE x == i - k
    <3>1. x \in 1..Len(ms) /\ j \in 1..x - 1 /\ Len(ms) \in Nat
      BY <1>3, <2>1
    <3>2. i \in Nat /\ k \in Nat /\ (x - 1) + k = i - 1
      BY <1>2
    <3> HIDE DEF x
    <3>3. j \in 1..Len(ms) /\ x - 1 \in 1..Len(ms)
      BY <3>1
    <3>4. QED
      BY <3>2, <3>3 DEF x
  <2>4. cs[i].turn \in Nat
    <3>1. cs[i] \in Msg
      BY <1>2
    <3>2. QED
      BY <3>1 DEF Msg
  <2>5. ms[j].kind # "epoch" /\ j >= n + 1
    BY <1>3, <1>4, <1>8, <2>2, <2>3, <2>4
  <2>6. cs[j + k] = ms[j]
    BY <1>6, <2>3, <2>5
  <2>7. j + k \in 1..i - 1
    BY <1>2, <1>3, <2>2, <2>3
  <2>8. \A l \in j + k .. ((i - k) - 1) + k : cs[l].kind # "ledger"
    BY <1>7, <2>2, <2>3, <2>5
  <2>9. QED
    BY <2>2, <2>3, <2>6, <2>7, <2>8
<1>11. ASSUME NEW t \in Nat, OpenPrompt(ms, t) PROVE OpenPrompt(cs, t)
  <2>1. PICK j \in 1..Len(ms) : /\ ms[j] = Message("prompt", t)
                              /\ \A l \in j..Len(ms) : ms[l].kind # "ledger"
    BY <1>3, <1>11 DEF OpenPrompt
  <2>2. ms[j].kind # "epoch" /\ j >= n + 1 /\ Len(ms) \in 1..Len(ms)
    BY <1>3, <1>4, <1>8, <2>1
  <2>3. \A l \in j + k .. Len(ms) + k : cs[l].kind # "ledger"
    BY <1>7, <2>1, <2>2
  <2>4. j + k \in 1..Len(cs) /\ cs[j + k] = ms[j]
    BY <1>6, <2>2
  <2>5. QED
    BY <1>2, <1>3, <2>1, <2>3, <2>4 DEF OpenPrompt
<1>12. QED
  BY <1>3, <1>9, <1>10, <1>11 DEF Paired, cs

\* Every set of naturals that is not empty has a least element.
LEMMA LeastNat ==
  ASSUME NEW T \in SUBSET Nat, T # {}
  PROVE  \E m \in T : \A k \in T : m <= k
<1> DEFINE F == {0..k : k \in T}
           R == StrictSubsetOrdering(Nat)
           S == FiniteSubsetsOf(Nat)
<1>1. \A k \in T : 0..k \in SUBSET Nat /\ IsFiniteSet(0..k)
  BY FS_Interval
<1>2. F \subseteq S /\ F # {}
  BY <1>1 DEF FiniteSubsetsOf
<1>3. IsWellFoundedOn(R, S)
  BY FS_StrictSubsetOrderingWellFounded
<1>4. \E x \in F : \A y \in F : ~ (<<y, x>> \in R)
  <2> HIDE DEF F, R, S
  <2>1. QED
    BY <1>2, <1>3, WFMin
<1>5. PICK m \in T : \A k \in T : ~ (<<0..k, 0..m>> \in R)
  BY <1>4
<1>6. ASSUME NEW k \in T, k < m PROVE FALSE
  <2>1. 0..k \in SUBSET Nat /\ 0..m \in SUBSET Nat /\ 0..k \subseteq 0..m
    BY <1>6
  <2>2. 0..k # 0..m
    <3>1. m \in 0..m /\ m \notin 0..k
      BY <1>6
    <3>2. QED
      BY <3>1
  <2>3. <<0..k, 0..m>> \in R
    BY <2>1, <2>2 DEF StrictSubsetOrdering
  <2>4. QED
    BY <1>5, <2>3
<1>7. QED
  BY <1>6

\* A window shows no answer of a tool without the call before it, and no ledger
\* without the prompt it answers.
AnswersFollow(w) ==
  \A i \in DOMAIN w : w[i].kind = "tool" => i > 1 /\ w[i - 1] = Message("call", w[i].turn)
LedgersAnswer(w) ==
  \A i \in DOMAIN w : w[i].kind = "ledger" => Message("prompt", w[i].turn) \in ToSet(w)

LEMMA PromptLast ==
  ASSUME NEW c \in Seq(Msg), NEW t \in Nat
  PROVE  LET w == Append(c, Message("prompt", t))
         IN  /\ w \in Seq(Msg) /\ w # <<>> /\ Last(w) = Message("prompt", t)
             /\ Len(w) = Len(c) + 1 /\ w[Len(c) + 1] = Message("prompt", t)
             /\ \A i \in 1..Len(c) : w[i] = c[i]
             /\ Message("prompt", t).kind = "prompt"
<1> DEFINE p == Message("prompt", t)
<1>1. p \in Msg /\ p.kind = "prompt"
  BY MessageIs DEF Kinds
<1> HIDE DEF p
<1>2. /\ Append(c, p) \in Seq(Msg) /\ Append(c, p) # <<>> /\ Len(Append(c, p)) = Len(c) + 1
      /\ Append(c, p)[Len(c) + 1] = p /\ \A i \in 1..Len(c) : Append(c, p)[i] = c[i]
  BY <1>1
<1>3. Last(Append(c, p)) = p
  BY <1>2 DEF Last
<1>4. QED
  BY <1>1, <1>2, <1>3 DEF p

\* The window of a swarm turn shows whole exchanges.
LEMMA SwarmWindow ==
  ASSUME NEW ms \in Seq(Msg), Paired(ms), NEW t \in Nat
  PROVE  LET w == Append(LedgerContext(ms), Message("prompt", t))
         IN  AnswersFollow(w) /\ LedgersAnswer(w)
<1> DEFINE S == ShownIn(ms)
           c == LedgerContext(ms)
           n == Cardinality(S)
           w == Append(c, Message("prompt", t))
<1>1. /\ S \in SUBSET Nat /\ IsFiniteSet(S) /\ n \in Nat
      /\ c = [k \in 1..n |-> ms[Nth(S, k)]] /\ c \in Seq(Msg) /\ Len(c) = n
  BY ContextIs
<1>2. /\ w \in Seq(Msg) /\ DOMAIN w = 1..(n + 1) /\ w[n + 1].kind = "prompt"
      /\ \A k \in 1..n : w[k] = c[k]
  <2>1. /\ w \in Seq(Msg) /\ Len(w) = Len(c) + 1 /\ w[Len(c) + 1].kind = "prompt"
        /\ \A k \in 1..Len(c) : w[k] = c[k]
    BY <1>1, PromptLast
  <2> HIDE DEF w, c, n
  <2>2. QED
    BY <1>1, <2>1
<1>3. /\ Len(ms) \in Nat /\ DOMAIN ms = 1..Len(ms) /\ \A i \in 1..Len(ms) : ms[i] \in Msg
      /\ \A i \in S : i \in 1..Len(ms) /\ Shown(ms, i)
      /\ \A i \in 1..Len(ms) : Shown(ms, i) => i \in S
  BY DEF ShownIn
<1>4. /\ \A k \in 1..n : Nth(S, k) \in S /\ Rank(S, Nth(S, k)) = k
      /\ \A i \in S : Nth(S, Rank(S, i)) = i
      /\ \A i \in S : Rank(S, i) \in 1..n
      /\ \A i \in S : i - 1 \in S => Rank(S, i) = Rank(S, i - 1) + 1
  BY <1>1, NthIs, RankIs
<1> HIDE DEF S, n, c, w
<1>5. ASSUME NEW i \in S PROVE Rank(S, i) \in 1..n /\ w[Rank(S, i)] = ms[i]
  BY <1>1, <1>2, <1>4
<1>6. ASSUME NEW k \in 1..n PROVE Nth(S, k) \in S /\ Nth(S, k) \in 1..Len(ms) /\ w[k] = ms[Nth(S, k)]
  BY <1>1, <1>2, <1>3, <1>4
<1>7. \A x \in Nat : Message("prompt", x).kind = "prompt" /\ Message("call", x).kind = "call"
  BY MessageIs DEF Kinds
<1>8. ASSUME NEW k \in 1..n, w[k].kind = "tool"
      PROVE  k > 1 /\ w[k - 1] = Message("call", w[k].turn)
  <2> DEFINE i == Nth(S, k)
  <2>1. i \in S /\ i \in 1..Len(ms) /\ w[k] = ms[i] /\ Rank(S, i) = k
    BY <1>4, <1>6
  <2> HIDE DEF i
  <2>2. i > 1 /\ ms[i - 1] = Message("call", ms[i].turn) /\ ms[i].turn \in Nat
    BY <1>3, <1>8, <2>1 DEF Paired, Msg
  <2>3. i - 1 \in 1..Len(ms) /\ ms[i - 1].kind = "call"
    BY <1>3, <1>7, <2>1, <2>2
  <2>4. i - 1 \in S
    BY <1>3, <2>3 DEF Shown
  <2>5. Rank(S, i - 1) \in 1..n /\ w[Rank(S, i - 1)] = ms[i - 1] /\ k = Rank(S, i - 1) + 1
    BY <1>4, <1>5, <2>1, <2>4
  <2>6. k > 1 /\ k - 1 = Rank(S, i - 1)
    BY <1>1, <2>5
  <2>7. QED
    BY <2>1, <2>2, <2>5, <2>6
<1>9. ASSUME NEW k \in 1..n, w[k].kind = "ledger"
      PROVE  \E l \in 1..n : w[l] = Message("prompt", w[k].turn)
  <2> DEFINE i == Nth(S, k)
  <2>1. i \in S /\ i \in 1..Len(ms) /\ w[k] = ms[i] /\ Shown(ms, i)
    BY <1>3, <1>6
  <2> HIDE DEF i
  <2>2. PICK j \in 1..i - 1 : /\ ms[j] = Message("prompt", ms[i].turn)
                             /\ \A l \in j..i - 1 : ms[l].kind # "ledger"
    BY <1>3, <1>9, <2>1 DEF Paired
  <2>3. j \in 1..Len(ms) /\ ms[i].turn \in Nat /\ ms[j].kind = "prompt"
    <3>1. j \in 1..Len(ms)
      BY <1>3, <2>1
    <3>2. ms[i].turn \in Nat
      BY <1>3, <2>1 DEF Msg
    <3>3. QED
      BY <1>7, <2>2, <3>1, <3>2
  <2>4. LedgersBefore(ms, j) = LedgersBefore(ms, i)
    <3>1. \A l \in 1..(i - 1) : ms[l].kind = "ledger" => l \in 1..(j - 1)
      BY <1>3, <2>1, <2>2
    <3>2. 1..(j - 1) \subseteq 1..(i - 1)
      BY <1>3, <2>1, <2>3
    <3>3. {l \in 1..(j - 1) : ms[l].kind = "ledger"} = {l \in 1..(i - 1) : ms[l].kind = "ledger"}
      BY <3>1, <3>2
    <3>4. QED
      BY <3>3 DEF LedgersBefore
  <2>5. ms[i].kind = "ledger"
    BY <1>9, <2>1
  <2>6. LedgersBefore(ms, i) >= Covered(ms)
    BY <2>1, <2>5 DEF Shown
  <2>7. j \in S
    BY <1>3, <2>3, <2>4, <2>6 DEF Shown
  <2>8. QED
    BY <1>5, <2>1, <2>2, <2>7
<1>10. \A k \in 1..(n + 1) : k \in 1..n \/ k = n + 1
  BY <1>1
<1>11. AnswersFollow(w)
  BY <1>2, <1>8, <1>10 DEF AnswersFollow
<1>12. LedgersAnswer(w)
  <2>1. \A k \in 1..n : k \in 1..(n + 1)
    BY <1>1
  <2>2. QED
    BY <1>2, <1>9, <1>10, <2>1 DEF LedgersAnswer, ToSet
<1>13. QED
  BY <1>11, <1>12 DEF w, c

\* A direct chat is given the first message of the session and the newest ones,
\* never more than the limit and one, whole exchanges with the prompt at their end.
THEOREM DirectWindowIsBounded ==
  ASSUME NEW ms \in Seq(Msg), ms # <<>>, IsUser(Last(ms))
  PROVE  LET w == DirectWindow(ms)
         IN  /\ w \in Seq(Msg) /\ w # <<>> /\ Len(w) <= MAX_DIRECT_CHAT_MESSAGES + 1
             /\ Head(w) = Head(ms) /\ Last(w) = Last(ms)
             /\ AnswersFollow(ms) => AnswersFollow(w)
<1> DEFINE M == MAX_DIRECT_CHAT_MESSAGES
           n == Len(ms)
           w == DirectWindow(ms)
<1>1. /\ M \in Nat \ {0} /\ n \in Nat /\ n > 0 /\ DOMAIN ms = 1..n /\ Last(ms) = ms[n]
      /\ Head(ms) = ms[1] /\ \A i \in 1..n : ms[i] \in Msg
  BY ChatAssumption DEF Last
<1>2. CASE n <= M
  <2>1. w = ms
    BY <1>2 DEF DirectWindow
  <2>2. QED
    BY <1>1, <1>2, <2>1
<1>3. CASE n > M
  <2> DEFINE from == n - M + 1
             begins == {i \in from..n : IsUser(ms[i])}
             start == IF begins = {} THEN from ELSE CHOOSE i \in begins : \A j \in begins : i <= j
             rest == SubSeq(ms, start, n)
  <2>1. w = <<Head(ms)>> \o rest
    <3>1. ~(Len(ms) <= MAX_DIRECT_CHAT_MESSAGES)
      BY <1>1, <1>3
    <3>2. QED
      BY <3>1, Zenon DEF DirectWindow
  <2>2. from \in Nat /\ from > 1 /\ from <= n
    BY <1>1, <1>3
  <2>3. start \in from..n /\ IsUser(ms[start])
    <3>1. n \in begins /\ begins \in SUBSET Nat
      BY <1>1, <2>2
    <3>2. \E i \in begins : \A j \in begins : i <= j
      <4> HIDE DEF begins
      <4>1. QED
        BY <3>1, LeastNat
    <3>3. start \in begins
      <4> HIDE DEF begins, from
      <4>1. QED
        BY <3>1, <3>2
    <3>4. QED
      BY <3>3
  <2> HIDE DEF start, w, from
  <2>4. start \in Nat /\ start > 1 /\ start <= n
    BY <1>1, <2>2, <2>3
  <2>5. /\ rest \in Seq(Msg) /\ Len(rest) = n - start + 1
        /\ \A i \in 1..(n - start + 1) : rest[i] = ms[start + i - 1]
    BY <1>1, <2>4
  <2> HIDE DEF rest
  <2>6. <<Head(ms)>> \in Seq(Msg) /\ Len(<<Head(ms)>>) = 1 /\ <<Head(ms)>>[1] = ms[1]
    BY <1>1
  <2>7. /\ w \in Seq(Msg) /\ Len(w) = 1 + (n - start + 1) /\ w[1] = ms[1]
        /\ \A i \in 1..(n - start + 1) : w[1 + i] = ms[start + i - 1]
    <3> DEFINE h == <<Head(ms)>>
    <3>1. h \in Seq(Msg) /\ Len(h) = 1 /\ h[1] = ms[1] /\ w = h \o rest
      BY <2>1, <2>6
    <3> HIDE DEF h
    <3>2. /\ h \o rest \in Seq(Msg) /\ Len(h \o rest) = Len(h) + Len(rest)
          /\ \A i \in 1..Len(h) : (h \o rest)[i] = h[i]
          /\ \A i \in 1..Len(rest) : (h \o rest)[Len(h) + i] = rest[i]
      BY <2>5, <3>1, ConcatIs
    <3>3. 1 \in 1..Len(h)
      BY <3>1
    <3> HIDE DEF n
    <3>4. QED
      BY <2>5, <3>1, <3>2, <3>3
  <2>8. /\ w # <<>> /\ Len(w) <= M + 1 /\ Head(w) = ms[1] /\ Len(w) \in Nat
        /\ DOMAIN w = 1..Len(w) /\ Len(w) = n - start + 2
    <3>1. start >= n - M + 1
      BY <1>1, <2>3 DEF from
    <3>2. Len(w) = n - start + 2 /\ Len(w) \in Nat /\ Len(w) > 0 /\ Len(w) <= M + 1
      BY <1>1, <2>4, <2>7, <3>1
    <3>3. QED
      BY <2>7, <3>2
  <2>9. ASSUME NEW i \in 2..Len(w) PROVE w[i] = ms[start + i - 2] /\ start + i - 2 \in start..n
    <3>1. i - 1 \in 1..(n - start + 1) /\ 1 + (i - 1) = i /\ start + (i - 1) - 1 = start + i - 2
      BY <1>1, <2>4, <2>8
    <3>2. start + i - 2 \in start..n
      BY <1>1, <2>4, <2>8
    <3>3. w[1 + (i - 1)] = ms[start + (i - 1) - 1]
      BY <2>7, <3>1
    <3>4. QED
      BY <3>1, <3>2, <3>3
  <2>10. Last(w) = ms[n]
    <3>1. Len(w) \in 2..Len(w) /\ start + Len(w) - 2 = n
      BY <1>1, <2>4, <2>8
    <3>2. w[Len(w)] = ms[start + Len(w) - 2]
      BY <2>9, <3>1
    <3>3. QED
      BY <3>1, <3>2 DEF Last
  <2>11. ASSUME AnswersFollow(ms), NEW i \in 1..Len(w), w[i].kind = "tool"
         PROVE  i > 1 /\ w[i - 1] = Message("call", w[i].turn)
    <3>1. 1 \in DOMAIN ms /\ ms[1].kind # "tool"
      BY <1>1, <2>11 DEF AnswersFollow
    <3>2. i # 1 /\ i \in 2..Len(w)
      BY <2>7, <2>8, <2>11, <3>1
    <3>3. w[i] = ms[start + i - 2] /\ start + i - 2 \in start..n
      BY <2>9, <3>2
    <3>4. i # 2
      <4>1. i = 2 => start + i - 2 = start
        BY <2>4
      <4>2. ms[start].kind # "tool"
        BY <2>3 DEF IsUser
      <4>3. QED
        BY <2>11, <3>3, <4>1, <4>2
    <3>5. i - 1 \in 2..Len(w) /\ start + (i - 1) - 2 = (start + i - 2) - 1 /\ i > 1
      BY <2>4, <2>8, <3>2, <3>4
    <3>6. w[i - 1] = ms[(start + i - 2) - 1]
      BY <2>9, <3>5
    <3>7. start + i - 2 \in DOMAIN ms
      BY <1>1, <2>4, <3>3
    <3>8. ms[(start + i - 2) - 1] = Message("call", ms[start + i - 2].turn)
      BY <2>11, <3>3, <3>7 DEF AnswersFollow
    <3>9. QED
      BY <3>3, <3>5, <3>6, <3>8
  <2>12. QED
    BY <1>1, <2>7, <2>8, <2>10, <2>11 DEF AnswersFollow, w
<1>4. QED
  BY <1>1, <1>2, <1>3

-----------------------------------------------------------------------------
\* The prompt of turn t is what is still to be stored.
Prompting(t) == todo[t] = <<Store(Message("prompt", t))>>

\* What turn t has still to store is its own: an answer of a tool comes right
\* after its call, a ledger first and once, the prompt alone.
Pending(t) ==
  \A k \in DOMAIN todo[t] : todo[t][k].op = "message" =>
    /\ todo[t][k].msg.turn = t
    /\ todo[t][k].msg.kind = "tool" =>
         IF k = 1 THEN Called(messages, t) ELSE todo[t][k - 1] = Store(Message("call", t))
    /\ todo[t][k].msg.kind = "ledger" => k = 1 /\ ~HasLedger(t)
    /\ todo[t][k].msg.kind = "prompt" => Prompting(t)

\* Only the newest turn runs, and as long as its ledger can come its prompt is
\* open, also when it has failed and may be resumed.
TurnInv(t) ==
  /\ Pending(t)
  /\ t \in Live => Issued = 1..t
  /\ t \notin Live => todo[t] = <<>>
  /\ pc[t] = "new" => ~HasLedger(t)
  /\ pc[t] = "running" => ~HasLedger(t) /\ (todo[t] = <<>> \/ Prompting(t))
  /\ pc[t] \in {"running", "storing", "failed"} /\ Issued = 1..t /\ ~HasLedger(t) /\ ~Prompting(t)
       => OpenPrompt(messages, t)

IssueInv == \A t \in Turns : pc[t] # "new" => \A u \in 1..(t - 1) : pc[u] # "new"
OrderInv == ~deleted /\ ~overlapped => Paired(messages) /\ \A t \in Turns : TurnInv(t)

LEMMA TurnSame ==
  ASSUME NEW t \in Turns, TurnInv(t), UNCHANGED <<messages, stored>>, Issued' = Issued,
         pc'[t] = pc[t], todo'[t] = todo[t]
  PROVE  TurnInv(t)'
<1>1. (HasLedger(t)' <=> HasLedger(t)) /\ (Prompting(t)' <=> Prompting(t)) /\ (t \in Live' <=> t \in Live)
  BY DEF HasLedger, Prompting, Live
<1>2. Pending(t)'
  BY <1>1 DEF TurnInv, Pending
<1>3. QED
  BY <1>1, <1>2 DEF TurnInv

LEMMA TurnQuiet ==
  ASSUME NEW t \in Turns, t \notin Live', todo'[t] = <<>>,
         pc'[t] = "new" => ~HasLedger(t)',
         pc'[t] = "failed" /\ Issued' = 1..t /\ ~HasLedger(t)' => OpenPrompt(messages, t)'
  PROVE  TurnInv(t)'
<1>1. Pending(t)'
  <2>1. DOMAIN todo'[t] = {}
    OBVIOUS
  <2>2. QED
    BY <2>1 DEF Pending
<1>2. pc'[t] # "running" /\ pc'[t] # "storing"
  BY DEF Live, NotRunning
<1>3. QED
  BY <1>1, <1>2 DEF TurnInv

\* A number is known by the turns up to it.
LEMMA UpToIs == ASSUME NEW t \in Turns, NEW u \in Turns, 1..t = 1..u PROVE t = u
<1>1. t \in Nat /\ u \in Nat /\ t >= 1 /\ u >= 1
  BY ChatAssumption DEF Turns
<1>2. t \in 1..u /\ u \in 1..t
  BY <1>1
<1>3. QED
  BY <1>1, <1>2

LEMMA StoreIs ==
  ASSUME NEW m
  PROVE  Store(m).op = "message" /\ Store(m).msg = m
  BY DEF Store

LEMMA StoresFine ==
  ASSUME NEW t \in Turns,
         NEW st \in SwarmStores(t) \cup FailedSwarmStores(t) \cup DirectStores(t) \cup FailedDirectStores(t)
  PROVE  \A k \in DOMAIN st : st[k].op = "message" =>
           /\ st[k].msg.turn = t
           /\ st[k].msg.kind = "tool" => k # 1 /\ st[k - 1] = Store(Message("call", t))
           /\ st[k].msg.kind = "ledger" => k = 1
           /\ st[k].msg.kind # "prompt"
<1>1. t \in Nat
  BY ChatAssumption DEF Turns
<1>2. \A kind \in Kinds : Message(kind, t).kind = kind /\ Message(kind, t).turn = t
  BY <1>1, MessageIs
<1>3. ASSUME NEW x \in Nat PROVE Ledger(t, x).kind = "ledger" /\ Ledger(t, x).turn = t
  BY DEF Ledger, Message
<1>4. CASE st \in SwarmStores(t)
  <2>1. PICK x \in Sizes : st = <<Store(Ledger(t, x)), StoreTranscript(t, TRUE), Compact>>
    BY <1>4 DEF SwarmStores
  <2>2. x \in Nat
    BY ChatAssumption
  <2>3. DOMAIN st = 1..3 /\ st[1] = Store(Ledger(t, x)) /\ st[2].op = "transcript" /\ st[3].op = "compact"
    BY <2>1 DEF StoreTranscript, Compact
  <2>4. QED
    BY <1>3, <2>2, <2>3, StoreIs
<1>5. CASE st \in FailedSwarmStores(t)
  <2>1. DOMAIN st = 1..2 /\ st[1].op = "transcript" /\ st[2] = Store(Message("error", t))
    BY <1>5 DEF FailedSwarmStores, StoreTranscript
  <2>2. QED
    BY <1>2, <2>1, StoreIs DEF Kinds
<1>6. ASSUME NEW kind \in {"tool", "error"}, st = StoreAll(<<Message("call", t), Message(kind, t)>>)
      PROVE  \A k \in DOMAIN st : st[k].op = "message" =>
               /\ st[k].msg.turn = t
               /\ st[k].msg.kind = "tool" => k # 1 /\ st[k - 1] = Store(Message("call", t))
               /\ st[k].msg.kind = "ledger" => k = 1
               /\ st[k].msg.kind # "prompt"
  <2>1. DOMAIN st = 1..2 /\ st[1] = Store(Message("call", t)) /\ st[2] = Store(Message(kind, t))
    BY <1>6 DEF StoreAll
  <2>2. QED
    BY <1>2, <2>1, StoreIs DEF Kinds
<1>7. CASE st \in DirectStores(t)
  BY <1>6, <1>7 DEF DirectStores, DirectTrace
<1>8. CASE st \in FailedDirectStores(t)
  <2>1. Message("call", t) \in Msg /\ Message("error", t) \in Msg
    BY <1>1, MessageIs DEF Kinds
  <2>2. Append(<<Message("call", t)>>, Message("error", t)) = <<Message("call", t), Message("error", t)>>
    BY <2>1, AppendPair
  <2>3. QED
    BY <1>6, <1>8, <2>2 DEF FailedDirectStores, FailedTrace
<1>9. QED
  BY <1>4, <1>5, <1>7, <1>8

\* An append that ends while the messages are in turn order keeps them so.
LEMMA OrderEndStore ==
  ASSUME ChatInv, ~deleted, ~overlapped, Paired(messages), \A u \in Turns : TurnInv(u),
         NEW t \in Turns, EndStore(t)
  PROVE  Paired(messages)' /\ \A u \in Turns : TurnInv(u)'
<1> DEFINE o == Head(todo[t])
           q == Tail(todo[t])
           s == buffer[t]
<1>1. /\ messages' = Changed(o, s).messages /\ t \in io_lock /\ pc[t] \in {"running", "storing"}
      /\ stored' = (IF o.op = "message" THEN stored \cup {o.msg} ELSE stored)
      /\ todo' = [todo EXCEPT ![t] = q] /\ pc' = pc /\ todo[t] # <<>>
  BY DEF EndStore, Storing
<1>2. todo \in [Turns -> Seq(StoreOp)] /\ messages \in Seq(Msg) /\ Sound(messages) /\ t \in Nat
  BY ChatAssumption DEF ChatInv, ChatTypeOK, Turns
<1>3. s \in Session /\ s.messages = messages
  BY <1>1 DEF ChatInv, ChatTypeOK, LockInv
<1>4. /\ o \in StoreOp /\ o = todo[t][1] /\ q \in Seq(StoreOp) /\ 1 \in DOMAIN todo[t]
      /\ DOMAIN q = 1..(Len(todo[t]) - 1) /\ Len(todo[t]) \in Nat
      /\ \A k \in DOMAIN q : k + 1 \in DOMAIN todo[t] /\ q[k] = todo[t][k + 1]
  <2> DEFINE d == todo[t]
  <2>1. d \in Seq(StoreOp) /\ d # <<>>
    BY <1>1, <1>2
  <2> HIDE DEF d
  <2>2. /\ Head(d) \in StoreOp /\ Head(d) = d[1] /\ Tail(d) \in Seq(StoreOp) /\ 1 \in DOMAIN d
        /\ DOMAIN Tail(d) = 1..(Len(d) - 1) /\ Len(d) \in Nat
        /\ \A k \in DOMAIN Tail(d) : k + 1 \in DOMAIN d /\ Tail(d)[k] = d[k + 1]
    BY <2>1
  <2>3. QED
    BY <2>2 DEF d
<1>5. /\ todo'[t] = q /\ \A u \in Turns : u # t => todo'[u] = todo[u]
  BY <1>1, <1>2
<1> HIDE DEF o, q, s
<1>6. t \in Live /\ Issued = 1..t /\ Live' = Live /\ Issued' = Issued
  BY <1>1 DEF TurnInv, Live, NotRunning, Issued
<1>7. ASSUME NEW u \in Turns, u # t PROVE TurnInv(u)'
  <2>1. u \notin Live /\ (Issued # 1..u)
    BY <1>6, <1>7, UpToIs DEF TurnInv
  <2>2. todo[u] = <<>> /\ u \notin Live'
    BY <1>6, <2>1 DEF TurnInv
  <2>3. pc'[u] = "new" => ~HasLedger(u)'
    <3>1. o.op = "message" => o.msg.turn = t
      BY <1>4 DEF TurnInv, Pending
    <3>2. QED
      BY <1>1, <1>7, <3>1 DEF TurnInv, HasLedger
  <2>4. Issued' # 1..u
    BY <1>6, <2>1
  <2>5. QED
    BY <1>5, <1>7, <2>2, <2>3, <2>4, TurnQuiet
<1>8. Prompting(t) => o = Store(Message("prompt", t)) /\ q = <<>> /\ DOMAIN q = {}
  <2>1. Prompting(t) => o = Store(Message("prompt", t)) /\ Len(todo[t]) = 1
    BY <1>4 DEF Prompting
  <2>2. QED
    BY <1>4, <2>1
<1>9. Message("prompt", t).kind = "prompt" /\ Message("call", t) \in Msg
  BY <1>2, MessageIs DEF Kinds
<1>10. CASE o.op = "message"
  <2> DEFINE m == o.msg
  <2>1. /\ m.turn = t
        /\ m.kind = "tool" => Called(messages, t)
        /\ m.kind = "ledger" => ~HasLedger(t)
        /\ m.kind = "prompt" => Prompting(t)
    BY <1>4, <1>10 DEF TurnInv, Pending
  <2>2. messages' = Append(messages, m) /\ stored' = stored \cup {m} /\ m \in Msg
    BY <1>1, <1>3, <1>4, <1>10 DEF Changed, Session, StoreOp, NonBlock
  <2>3. Prompting(t) => m = Message("prompt", t)
    BY <1>8, StoreIs
  <2>4. HasLedger(t) => HasLedger(t)'
    BY <2>2 DEF HasLedger
  <2>5. m.kind = "ledger" => HasLedger(t)'
    BY <2>1, <2>2 DEF HasLedger
  <2>6. ~HasLedger(t) /\ ~Prompting(t) => OpenPrompt(messages, t)
    BY <1>1, <1>6 DEF TurnInv
  <2> HIDE DEF m
  <2>7. Paired(messages)'
    <3>1. m.kind = "ledger" => OpenPrompt(messages, t)
      BY <1>9, <2>1, <2>3, <2>6
    <3>2. Paired(Append(messages, m))
      BY <1>2, <2>1, <2>2, <3>1, AppendPaired
    <3>3. QED
      BY <2>2, <3>2
  <2>8. ~HasLedger(t)' => OpenPrompt(messages, t)'
    <3>1. /\ m.kind # "ledger" /\ OpenPrompt(messages, t) => OpenPrompt(Append(messages, m), t)
          /\ m = Message("prompt", t) => OpenPrompt(Append(messages, m), t)
      BY <1>2, <2>2, AppendOpen
    <3>2. QED
      BY <2>2, <2>3, <2>4, <2>5, <2>6, <3>1
  <2>9. m = Message("call", t) => Called(messages, t)'
    <3>1. m = Message("call", t) => Called(Append(messages, m), t)
      BY <1>2, <2>2, AppendOpen
    <3>2. QED
      BY <2>2, <3>1
  <2>10. Pending(t)'
    <3> SUFFICES ASSUME NEW k \in DOMAIN q, q[k].op = "message"
                 PROVE  /\ q[k].msg.turn = t
                        /\ q[k].msg.kind = "tool" =>
                             IF k = 1 THEN Called(messages, t)' ELSE q[k - 1] = Store(Message("call", t))
                        /\ q[k].msg.kind # "ledger" /\ q[k].msg.kind # "prompt"
      BY <1>5 DEF Pending
    <3>1. k + 1 \in DOMAIN todo[t] /\ q[k] = todo[t][k + 1] /\ k \in Nat \ {0}
      BY <1>4
    <3>2. /\ q[k].msg.turn = t
          /\ q[k].msg.kind = "tool" => todo[t][k] = Store(Message("call", t))
          /\ q[k].msg.kind # "ledger"
          /\ q[k].msg.kind = "prompt" => Prompting(t)
      <4>1. k + 1 # 1 /\ (k + 1) - 1 = k
        BY <3>1
      <4>2. QED
        BY <3>1, <4>1 DEF TurnInv, Pending
    <3>3. q[k].msg.kind # "prompt"
      BY <1>8, <3>2
    <3>4. k = 1 /\ q[k].msg.kind = "tool" => Called(messages, t)'
      <4>1. k = 1 /\ q[k].msg.kind = "tool" => m = Message("call", t)
        BY <1>4, <3>2, StoreIs DEF m
      <4>2. QED
        BY <2>9, <4>1
    <3>5. k # 1 => q[k - 1] = todo[t][k]
      <4>1. k # 1 => k - 1 \in DOMAIN q /\ (k - 1) + 1 = k
        BY <1>4, <3>1
      <4>2. QED
        BY <1>4, <4>1
    <3>6. QED
      BY <3>2, <3>3, <3>4, <3>5
  <2>11. pc'[t] = "running" => ~HasLedger(t)' /\ todo'[t] = <<>>
    <3>1. pc[t] = "running" => ~HasLedger(t) /\ Prompting(t)
      BY <1>1 DEF TurnInv
    <3>2. Prompting(t) => m.kind # "ledger"
      BY <1>9, <2>3
    <3>3. QED
      BY <1>1, <1>5, <1>8, <2>2, <3>1, <3>2 DEF HasLedger
  <2>12. TurnInv(t)'
    BY <1>1, <1>6, <2>8, <2>10, <2>11 DEF TurnInv
  <2>13. QED
    BY <1>7, <2>7, <2>12
<1>11. CASE o.op # "message"
  <2>1. stored' = stored /\ ~Prompting(t)
    BY <1>1, <1>8, <1>11, StoreIs
  <2>2. /\ messages' \in {messages, Compacted(messages)}
    <3>1. o.op = "transcript" => Changed(o, s).messages = s.messages
      BY <1>3 DEF Changed, Session
    <3>2. o.op = "compact" => Changed(o, s).messages = Compacted(s.messages)
      BY <1>3 DEF Changed, Session
    <3>3. QED
      BY <1>1, <1>3, <1>4, <1>11, <3>1, <3>2 DEF StoreOp
  <2>3. Paired(messages)' /\ (OpenPrompt(messages, t) => OpenPrompt(messages, t)')
    <3>1. Paired(Compacted(messages)) /\ (OpenPrompt(messages, t) => OpenPrompt(Compacted(messages), t))
      BY <1>2, CompactPaired
    <3>2. QED
      BY <2>2, <3>1
  <2>4. HasLedger(t)' <=> HasLedger(t)
    BY <2>1 DEF HasLedger
  <2>5. ~HasLedger(t)' => OpenPrompt(messages, t)'
    BY <1>1, <1>6, <2>1, <2>3, <2>4 DEF TurnInv
  <2>6. pc'[t] # "running"
    BY <1>1, <2>1 DEF TurnInv
  <2>7. Pending(t)'
    <3> SUFFICES ASSUME NEW k \in DOMAIN q, q[k].op = "message"
                 PROVE  /\ q[k].msg.turn = t
                        /\ q[k].msg.kind = "tool" => k # 1 /\ q[k - 1] = Store(Message("call", t))
                        /\ q[k].msg.kind # "ledger" /\ q[k].msg.kind # "prompt"
      BY <1>5 DEF Pending
    <3>1. k + 1 \in DOMAIN todo[t] /\ q[k] = todo[t][k + 1] /\ k \in Nat \ {0}
      BY <1>4
    <3>2. /\ q[k].msg.turn = t
          /\ q[k].msg.kind = "tool" => todo[t][k] = Store(Message("call", t))
          /\ q[k].msg.kind # "ledger"
          /\ q[k].msg.kind = "prompt" => Prompting(t)
      <4>1. k + 1 # 1 /\ (k + 1) - 1 = k
        BY <3>1
      <4>2. QED
        BY <3>1, <4>1 DEF TurnInv, Pending
    <3>3. q[k].msg.kind = "tool" => k # 1
      BY <1>4, <1>11, <3>2, StoreIs
    <3>4. k # 1 => q[k - 1] = todo[t][k]
      <4>1. k # 1 => k - 1 \in DOMAIN q /\ (k - 1) + 1 = k
        BY <1>4, <3>1
      <4>2. QED
        BY <1>4, <4>1
    <3>5. QED
      BY <2>1, <3>2, <3>3, <3>4
  <2>8. TurnInv(t)'
    BY <1>1, <1>6, <2>5, <2>6, <2>7 DEF TurnInv
  <2>9. QED
    BY <1>7, <2>3, <2>8
<1>12. QED
  BY <1>10, <1>11

LEMMA IssueStep ==
  ASSUME ChatInv, IssueInv, [ChatNext]_chatVars
  PROVE  IssueInv'
<1>1. pc \in [Turns -> Places]
  BY DEF ChatInv, ChatTypeOK
<1>2. ASSUME NEW t \in Turns, Issue(t) PROVE IssueInv'
  BY <1>1, <1>2 DEF Issue, IssueInv
<1>3. ASSUME \A u \in Turns : pc'[u] = "new" <=> pc[u] = "new" PROVE IssueInv'
  <2>1. \A t \in Turns : \A u \in 1..(t - 1) : u \in Turns
    BY ChatAssumption DEF Turns
  <2>2. QED
    BY <1>3, <2>1 DEF IssueInv
<1>4. ASSUME NEW t \in Turns, Resume(t) PROVE IssueInv'
  BY <1>1, <1>3, <1>4 DEF Resume
<1>5. ASSUME NEW t \in Turns, TurnStep(t) PROVE IssueInv'
  <2>1. BeginStore(t) \/ EndStore(t) => pc' = pc
    BY DEF BeginStore, EndStore, commands
  <2>2. CASE StoreFails(t)
    BY <1>1, <1>3, <2>2 DEF StoreFails, Storing
  <2>3. CASE RunEnds(t) \/ RunFails(t)
    BY <1>1, <1>3, <2>3 DEF RunEnds, RunFails
  <2>4. CASE Finish(t)
    BY <1>1, <1>3, <2>4 DEF Finish
  <2>5. QED
    BY <1>3, <1>5, <2>1, <2>2, <2>3, <2>4 DEF TurnStep
<1>6. CASE Delete
  BY <1>3, <1>6 DEF Delete, commands
<1>7. CASE ProcessDies
  BY <1>3, <1>7 DEF ProcessDies, Live, NotRunning
<1>8. CASE UNCHANGED chatVars
  BY <1>3, <1>8 DEF chatVars, commands
<1>9. QED
  BY <1>2, <1>4, <1>5, <1>6, <1>7, <1>8 DEF ChatNext

\* The turns issued before and with t.
LEMMA IssuedIs ==
  ASSUME ChatInv, IssueInv, NEW t \in Turns, Issue(t)
  PROVE  Issued' = 1..t
<1>1. pc \in [Turns -> Places] /\ \A u \in Turns : u \in Nat /\ u >= 1
  BY ChatAssumption DEF ChatInv, ChatTypeOK, Turns
<1>2. /\ pc[t] = "new" /\ pc' = [pc EXCEPT ![t] = "running"]
      /\ \A u \in 1..(t - 1) : pc[u] # "new"
  BY DEF Issue
<1>3. ASSUME NEW u \in Turns, u > t PROVE pc[u] = "new"
  <2>1. t \in 1..(u - 1)
    BY <1>1, <1>3
  <2>2. QED
    BY <1>2, <2>1 DEF IssueInv
<1>4. ASSUME NEW u \in 1..t PROVE u \in Issued'
  <2>1. u \in Turns
    BY ChatAssumption DEF Turns
  <2>2. u = t \/ u \in 1..(t - 1)
    BY <1>1
  <2>3. QED
    BY <1>1, <1>2, <2>1, <2>2 DEF Issued
<1>5. ASSUME NEW u \in Issued' PROVE u \in 1..t
  <2>1. u \in Turns /\ pc'[u] # "new"
    BY DEF Issued
  <2>2. ~(u > t)
    BY <1>1, <1>2, <1>3, <2>1
  <2>3. QED
    BY <1>1, <2>1, <2>2
<1>6. QED
  BY <1>4, <1>5

LEMMA OrderStep ==
  ASSUME ChatInv, IssueInv, OrderInv, [ChatNext]_chatVars
  PROVE  OrderInv'
<1> SUFFICES ASSUME ~deleted', ~overlapped'
             PROVE  Paired(messages)' /\ \A u \in Turns : TurnInv(u)'
  BY DEF OrderInv
<1>0. /\ pc \in [Turns -> Places] /\ todo \in [Turns -> Seq(StoreOp)]
      /\ \A u \in Turns : u \in Nat
  BY ChatAssumption DEF ChatInv, ChatTypeOK, Turns
<1>1. ASSUME ~deleted, ~overlapped
      PROVE  exists /\ Paired(messages) /\ \A u \in Turns : TurnInv(u)
  BY <1>1 DEF OrderInv, ChatInv, LockInv
<1>2. ASSUME ~deleted, ~overlapped, UNCHANGED <<messages, pc, todo, stored>>
      PROVE  Paired(messages)' /\ \A u \in Turns : TurnInv(u)'
  <2>1. Issued' = Issued
    BY <1>2 DEF Issued
  <2>2. QED
    BY <1>1, <1>2, <2>1, TurnSame
<1>3. ASSUME NEW t \in Turns, Issue(t) PROVE Paired(messages)' /\ \A u \in Turns : TurnInv(u)'
  <2>1. /\ pc[t] = "new" /\ pc' = [pc EXCEPT ![t] = "running"] /\ ~deleted /\ ~overlapped /\ Live = {}
        /\ todo' = [todo EXCEPT ![t] = <<Store(Message("prompt", t))>>]
        /\ UNCHANGED <<messages, stored>>
    BY <1>3 DEF Issue, sessionFile
  <2>2. Issued' = 1..t
    BY <1>3, IssuedIs
  <2>3. \A u \in Turns : HasLedger(u)' <=> HasLedger(u)
    BY <2>1 DEF HasLedger
  <2>4. ASSUME NEW u \in Turns, u # t PROVE TurnInv(u)'
    <3>1. pc'[u] = pc[u] /\ todo'[u] = todo[u] /\ u \notin Live /\ u \notin Live'
      BY <1>0, <2>1, <2>4 DEF Live
    <3>2. todo[u] = <<>> /\ (pc[u] = "new" => ~HasLedger(u))
      BY <1>1, <2>1, <3>1 DEF TurnInv
    <3>3. Issued' # 1..u
      BY <2>2, <2>4, UpToIs
    <3>4. QED
      BY <2>3, <3>1, <3>2, <3>3, TurnQuiet
  <2>5. TurnInv(t)'
    <3>1. /\ pc'[t] = "running" /\ Prompting(t)' /\ t \in Live'
          /\ todo'[t] = <<Store(Message("prompt", t))>>
      BY <1>0, <2>1 DEF Prompting, Live, NotRunning
    <3>2. ~HasLedger(t)'
      BY <1>1, <2>1, <2>3 DEF TurnInv
    <3>3. Message("prompt", t).kind = "prompt" /\ Message("prompt", t).turn = t
      BY <1>0, MessageIs DEF Kinds
    <3>4. DOMAIN todo'[t] = {1} /\ todo'[t][1].msg = Message("prompt", t)
      BY <3>1, StoreIs
    <3>5. Pending(t)'
      BY <3>1, <3>3, <3>4 DEF Pending
    <3>6. QED
      BY <2>2, <3>1, <3>2, <3>5 DEF TurnInv
  <2>6. QED
    BY <1>1, <2>1, <2>4, <2>5
<1>4. ASSUME NEW t \in Turns, Resume(t) PROVE Paired(messages)' /\ \A u \in Turns : TurnInv(u)'
  <2>1. /\ pc[t] = "failed" /\ pc' = [pc EXCEPT ![t] = "running"] /\ ~deleted /\ ~overlapped
        /\ Issued = 1..t /\ ~HasLedger(t) /\ UNCHANGED <<messages, stored, todo>>
    BY <1>4 DEF Resume, sessionFile
  <2>2. Issued' = Issued
    BY <1>0, <2>1 DEF Issued
  <2>3. ASSUME NEW u \in Turns, u # t PROVE TurnInv(u)'
    <3>1. pc'[u] = pc[u]
      BY <1>0, <2>1, <2>3
    <3>2. QED
      BY <1>1, <2>1, <2>2, <3>1, TurnSame
  <2>4. TurnInv(t)'
    <3>1. t \notin Live /\ pc'[t] = "running" /\ todo[t] = <<>>
      BY <1>0, <1>1, <2>1 DEF Live, NotRunning, TurnInv
    <3>2. ~Prompting(t) /\ OpenPrompt(messages, t)
      <4>1. ~Prompting(t)
        BY <3>1 DEF Prompting
      <4>2. QED
        BY <1>1, <2>1, <4>1 DEF TurnInv
    <3>3. ~HasLedger(t)' /\ OpenPrompt(messages, t)'
      BY <2>1, <3>2 DEF HasLedger
    <3>4. DOMAIN todo'[t] = {}
      BY <2>1, <3>1
    <3>5. Pending(t)'
      BY <3>4 DEF Pending
    <3>6. QED
      BY <2>1, <2>2, <3>1, <3>3, <3>5 DEF TurnInv
  <2>5. QED
    BY <1>1, <2>1, <2>3, <2>4
<1>5. ASSUME NEW t \in Turns, BeginStore(t) PROVE Paired(messages)' /\ \A u \in Turns : TurnInv(u)'
  BY <1>2, <1>5 DEF BeginStore, sessionFile, commands, history
<1>6. ASSUME NEW t \in Turns, StoreFails(t) PROVE Paired(messages)' /\ \A u \in Turns : TurnInv(u)'
  BY <1>1, <1>6 DEF StoreFails, history
<1>7. ASSUME NEW t \in Turns, EndStore(t) PROVE Paired(messages)' /\ \A u \in Turns : TurnInv(u)'
  <2>1. ~deleted /\ ~overlapped
    BY <1>7 DEF EndStore
  <2>2. QED
    BY <1>1, <1>7, <2>1, OrderEndStore
<1>8. ASSUME NEW t \in Turns, RunEnds(t) \/ RunFails(t)
      PROVE  Paired(messages)' /\ \A u \in Turns : TurnInv(u)'
  <2>1. /\ pc[t] = "running" /\ pc' = [pc EXCEPT ![t] = "storing"] /\ ~deleted /\ ~overlapped
        /\ todo[t] = <<>> /\ UNCHANGED <<messages, stored>>
    BY <1>8 DEF RunEnds, RunFails, sessionFile, history
  <2>2. PICK st \in SwarmStores(t) \cup FailedSwarmStores(t) \cup DirectStores(t) \cup FailedDirectStores(t) :
          todo' = [todo EXCEPT ![t] = st]
    BY <1>8 DEF RunEnds, RunFails
  <2>3. Issued' = Issued /\ Live' = Live /\ t \in Live /\ pc'[t] = "storing" /\ todo'[t] = st
    BY <1>0, <2>1, <2>2 DEF Issued, Live, NotRunning
  <2>4. ASSUME NEW u \in Turns, u # t PROVE TurnInv(u)'
    <3>1. pc'[u] = pc[u] /\ todo'[u] = todo[u]
      BY <1>0, <2>1, <2>2, <2>4
    <3>2. QED
      BY <1>1, <2>1, <2>3, <3>1, TurnSame
  <2>5. TurnInv(t)'
    <3>1. ~Prompting(t)
      BY <2>1 DEF Prompting
    <3>2. ~HasLedger(t)' /\ OpenPrompt(messages, t)' /\ Issued = 1..t
      BY <1>1, <2>1, <2>3, <3>1 DEF TurnInv, HasLedger
    <3>3. Pending(t)'
      BY <2>3, <3>2, StoresFine DEF Pending
    <3>4. QED
      BY <2>3, <3>2, <3>3 DEF TurnInv
  <2>6. QED
    BY <1>1, <2>1, <2>4, <2>5
<1>9. ASSUME NEW t \in Turns, Finish(t) PROVE Paired(messages)' /\ \A u \in Turns : TurnInv(u)'
  <2>1. /\ pc[t] = "storing" /\ pc'[t] \in {"over", "failed"} /\ ~deleted /\ ~overlapped
        /\ todo[t] = <<>> /\ UNCHANGED <<messages, stored, todo>>
        /\ \A u \in Turns : u # t => pc'[u] = pc[u]
    BY <1>0, <1>9 DEF Finish, sessionFile, history
  <2>2. Issued' = Issued
    BY <2>1 DEF Issued
  <2>3. ASSUME NEW u \in Turns, u # t PROVE TurnInv(u)'
    BY <1>1, <2>1, <2>2, <2>3, TurnSame
  <2>4. TurnInv(t)'
    <3>1. t \notin Live' /\ pc'[t] # "new" /\ ~Prompting(t)
      BY <2>1 DEF Live, NotRunning, Prompting
    <3>2. Issued = 1..t /\ ~HasLedger(t) => OpenPrompt(messages, t)
      BY <1>1, <2>1, <3>1 DEF TurnInv
    <3>3. Issued' = 1..t /\ ~HasLedger(t)' => OpenPrompt(messages, t)'
      BY <2>1, <2>2, <3>2 DEF HasLedger
    <3>4. QED
      BY <2>1, <3>1, <3>3, TurnQuiet
  <2>5. QED
    BY <1>1, <2>1, <2>3, <2>4
<1>10. CASE Delete
  BY <1>10 DEF Delete
<1>11. CASE ProcessDies
  <2>1. /\ ~deleted /\ ~overlapped /\ UNCHANGED <<messages, stored>>
        /\ \A u \in Turns : /\ todo'[u] = <<>>
                            /\ u \notin Live => pc'[u] = pc[u]
                            /\ u \in Live => pc'[u] = IF HasCheckpoint(u) THEN "failed" ELSE "over"
    BY <1>11 DEF ProcessDies, sessionFile, history
  <2>2. Issued' = Issued
    <3>1. \A u \in Turns : u \in Live => pc[u] # "new" /\ pc'[u] # "new"
      BY <2>1 DEF Live, NotRunning
    <3>2. QED
      BY <2>1, <3>1 DEF Issued
  <2>3. ASSUME NEW u \in Turns PROVE TurnInv(u)'
    <3>1. u \notin Live' /\ todo'[u] = <<>>
      BY <2>1 DEF Live, NotRunning
    <3>2. HasLedger(u)' <=> HasLedger(u)
      BY <2>1 DEF HasLedger
    <3>3. pc'[u] = "new" => ~HasLedger(u)'
      BY <1>1, <2>1, <3>2 DEF TurnInv
    <3>4. ASSUME pc'[u] = "failed", Issued = 1..u, ~HasLedger(u) PROVE OpenPrompt(messages, u)
      <4>1. CASE u \notin Live
        <5>1. pc[u] = "failed" /\ todo[u] = <<>>
          BY <1>1, <2>1, <3>4, <4>1 DEF TurnInv
        <5>2. ~Prompting(u)
          BY <5>1 DEF Prompting
        <5>3. QED
          BY <1>1, <2>1, <3>4, <5>1, <5>2 DEF TurnInv
      <4>2. CASE u \in Live
        <5>1. ~Prompting(u)
          BY <2>1, <3>4, <4>2 DEF HasCheckpoint, Prompting
        <5>2. pc[u] \in {"running", "storing"}
          BY <1>0, <4>2 DEF Live, NotRunning, Places
        <5>3. QED
          BY <1>1, <2>1, <3>4, <5>1, <5>2 DEF TurnInv
      <4>3. QED
        BY <4>1, <4>2
    <3>5. QED
      BY <2>1, <2>2, <3>1, <3>2, <3>3, <3>4, TurnQuiet
  <2>4. QED
    BY <1>1, <2>1, <2>3
<1>12. CASE UNCHANGED chatVars
  BY <1>2, <1>12 DEF chatVars, sessionFile, commands, history
<1>13. QED
  BY <1>3, <1>4, <1>5, <1>6, <1>7, <1>8, <1>9, <1>10, <1>11, <1>12 DEF ChatNext, TurnStep

\* What the LLM is given keeps whole exchanges.
WindowFine(t) ==
  window[t] # <<>> =>
    /\ Last(window[t]) = Message("prompt", t)
    /\ ~overlapped => AnswersFollow(window[t]) /\ (mode[t] = "swarm" => LedgersAnswer(window[t]))
ExchangeInv ==
  /\ ChatInv /\ IssueInv /\ OrderInv
  /\ window \in [Turns -> Seq(Msg)]
  /\ \A t \in Turns : WindowFine(t)

LEMMA WindowBuilt ==
  ASSUME ChatInv, IssueInv, OrderInv, NEW t \in Turns, Issue(t)
  PROVE  \E w \in Seq(Msg) :
           /\ window' = [window EXCEPT ![t] = w]
           /\ Last(w) = Message("prompt", t)
           /\ ~overlapped' => AnswersFollow(w) /\ (mode[t] = "swarm" => LedgersAnswer(w))
<1> DEFINE p == Message("prompt", t)
<1>1. /\ messages \in Seq(Msg) /\ t \in Nat /\ mode[t] \in {"swarm", "direct"}
  BY ChatAssumption DEF ChatInv, ChatTypeOK, Turns
<1>2. /\ ~deleted /\ (~overlapped' => ~overlapped)
      /\ window' = [window EXCEPT ![t] = IF mode[t] = "swarm" THEN Append(LedgerContext(messages), p)
                                         ELSE DirectWindow(Append(messages, p))]
  BY DEF Issue
<1>3. ~overlapped' => Paired(messages)
  BY <1>2 DEF OrderInv
<1>4. CASE mode[t] = "swarm"
  <2> DEFINE w == Append(LedgerContext(messages), p)
  <2>1. w \in Seq(Msg) /\ Last(w) = p
    BY <1>1, ContextIs, PromptLast
  <2>2. Paired(messages) => AnswersFollow(w) /\ LedgersAnswer(w)
    BY <1>1, SwarmWindow
  <2>3. window' = [window EXCEPT ![t] = w]
    BY <1>2, <1>4
  <2> HIDE DEF w, p
  <2>4. QED
    BY <1>3, <2>1, <2>2, <2>3 DEF p
<1>5. CASE mode[t] = "direct"
  <2> DEFINE ms == Append(messages, p)
             w == DirectWindow(ms)
  <2>1. ms \in Seq(Msg) /\ ms # <<>> /\ Last(ms) = p /\ p.kind = "prompt" /\ p \in Msg
    <3>1. ms \in Seq(Msg) /\ ms # <<>> /\ Last(ms) = p /\ p.kind = "prompt"
      BY <1>1, PromptLast
    <3>2. p \in Msg
      BY <1>1, MessageIs DEF Kinds
    <3>3. QED
      BY <3>1, <3>2
  <2> HIDE DEF p
  <2>2. Paired(messages) => AnswersFollow(ms)
    <3>1. p.kind # "tool" /\ p.kind # "ledger"
      BY <2>1
    <3>2. Paired(messages) => Paired(Append(messages, p))
      BY <1>1, <2>1, <3>1, AppendPaired
    <3>3. QED
      BY <3>2 DEF Paired, AnswersFollow
  <2> HIDE DEF ms
  <2>3. IsUser(Last(ms))
    BY <2>1 DEF IsUser
  <2>4. w \in Seq(Msg) /\ Last(w) = Last(ms) /\ (AnswersFollow(ms) => AnswersFollow(w))
    BY <2>1, <2>3, DirectWindowIsBounded
  <2>5. window' = [window EXCEPT ![t] = w]
    BY <1>2, <1>5 DEF ms
  <2> HIDE DEF w
  <2>6. QED
    BY <1>3, <1>5, <2>1, <2>2, <2>4, <2>5 DEF p
<1>6. QED
  BY <1>1, <1>4, <1>5

LEMMA WindowStep ==
  ASSUME ExchangeInv, [ChatNext]_chatVars
  PROVE  window' \in [Turns -> Seq(Msg)] /\ \A t \in Turns : WindowFine(t)'
<1>1. window \in [Turns -> Seq(Msg)] /\ <<>> \in Seq(Msg) /\ \A t \in Turns : WindowFine(t)
  BY DEF ExchangeInv
<1>2. (~overlapped' => ~overlapped) /\ mode' = mode
  <2>1. ASSUME NEW t \in Turns, Issue(t) \/ Resume(t)
        PROVE  (~overlapped' => ~overlapped) /\ mode' = mode
    BY <2>1 DEF Issue, Resume
  <2>2. ASSUME NEW t \in Turns, TurnStep(t) PROVE overlapped' = overlapped /\ mode' = mode
    BY <2>2 DEF TurnStep, BeginStore, StoreFails, EndStore, RunEnds, RunFails, Finish, commands, history
  <2>3. Delete \/ ProcessDies => overlapped' = overlapped /\ mode' = mode
    BY DEF Delete, ProcessDies, commands, history
  <2>4. QED
    BY <2>1, <2>2, <2>3 DEF ChatNext, chatVars, commands, history
<1>3. ASSUME NEW t \in Turns, window'[t] \in {window[t], <<>>} PROVE WindowFine(t)'
  BY <1>1, <1>2, <1>3 DEF WindowFine
<1>4. ASSUME NEW t \in Turns, Issue(t)
      PROVE  window' \in [Turns -> Seq(Msg)] /\ \A u \in Turns : WindowFine(u)'
  <2>1. PICK w \in Seq(Msg) :
          /\ window' = [window EXCEPT ![t] = w]
          /\ Last(w) = Message("prompt", t)
          /\ ~overlapped' => AnswersFollow(w) /\ (mode[t] = "swarm" => LedgersAnswer(w))
    BY <1>4, WindowBuilt DEF ExchangeInv
  <2>2. WindowFine(t)'
    BY <1>1, <1>2, <2>1 DEF WindowFine
  <2>3. \A u \in Turns : u # t => window'[u] = window[u]
    BY <1>1, <2>1
  <2>4. QED
    BY <1>1, <1>3, <2>1, <2>2, <2>3
<1>5. ASSUME window' = window
      PROVE  window' \in [Turns -> Seq(Msg)] /\ \A u \in Turns : WindowFine(u)'
  BY <1>1, <1>3, <1>5
<1>6. ASSUME NEW t \in Turns, window' = [window EXCEPT ![t] = <<>>]
      PROVE  window' \in [Turns -> Seq(Msg)] /\ \A u \in Turns : WindowFine(u)'
  <2>1. \A u \in Turns : window'[u] \in {window[u], <<>>}
    BY <1>1, <1>6
  <2>2. QED
    BY <1>1, <1>3, <1>6, <2>1
<1>7. CASE ProcessDies
  <2>1. window' = [t \in Turns |-> <<>>]
    BY <1>7 DEF ProcessDies
  <2>2. QED
    BY <1>1, <1>3, <2>1
<1>8. ASSUME NEW t \in Turns, StoreFails(t) PROVE window' = window \/ window' = [window EXCEPT ![t] = <<>>]
  BY <1>8 DEF StoreFails
<1>9. QED
  BY <1>4, <1>5, <1>6, <1>7, <1>8
    DEF ChatNext, TurnStep, Resume, BeginStore, EndStore, RunEnds, RunFails, Finish, Delete,
        chatVars, commands

LEMMA ExchangeInvCorrect == ChatSpec => []ExchangeInv
<1>1. ChatInit => ExchangeInv
  <2> SUFFICES ASSUME ChatInit PROVE ExchangeInv
    OBVIOUS
  <2>1. ChatInv
    BY ChatInvInit
  <2>2. IssueInv
    BY DEF ChatInit, IssueInv
  <2>3. Paired(messages)
    BY DEF ChatInit, Paired
  <2>4. ASSUME NEW t \in Turns PROVE TurnInv(t)
    <3>1. pc[t] = "new" /\ todo[t] = <<>> /\ stored = {} /\ DOMAIN todo[t] = {}
      BY DEF ChatInit
    <3>2. QED
      BY <3>1 DEF TurnInv, Pending, Live, NotRunning, HasLedger
  <2>5. window \in [Turns -> Seq(Msg)] /\ \A t \in Turns : WindowFine(t)
    BY DEF ChatInit, WindowFine
  <2>6. QED
    BY <2>1, <2>2, <2>3, <2>4, <2>5 DEF ExchangeInv, OrderInv
<1>2. ExchangeInv /\ [ChatNext]_chatVars => ExchangeInv'
  BY ChatInvStep, IssueStep, OrderStep, WindowStep DEF ExchangeInv
<1>3. QED
  BY <1>1, <1>2, PTL DEF ChatSpec

\* A window ends with the prompt; unless commands overlapped it shows no answer
\* of a tool without its call, and in a swarm turn no ledger without its prompt.
THEOREM ExchangesAreKept == ChatSpec => []ExchangesKept
<1>1. ExchangeInv => ExchangesKept
  BY DEF ExchangeInv, WindowFine, AnswersFollow, LedgersAnswer, ExchangesKept
<1>2. QED
  BY <1>1, ExchangeInvCorrect, PTL

-----------------------------------------------------------------------------
(* The session file keeps the promise of SessionLog.  Its log is what      *)
(* comes after the blocks: an append of one message appends it there, a    *)
(* folding and a transcript leave it alone.                                *)

Rest(ms) == SubSeq(ms, Len(EpochPrefix(ms)) + 1, Len(ms))

LEMMA RestIs ==
  ASSUME NEW ms \in Seq(Msg), NEW n \in 0..Len(ms), Folded(ms, n)
  PROVE  /\ Rest(ms) \in Seq(Msg) /\ Len(Rest(ms)) = Len(ms) - n
         /\ \A i \in 1..(Len(ms) - n) : Rest(ms)[i] = ms[n + i]
<1>1. Len(ms) \in Nat /\ n \in Nat /\ n <= Len(ms)
  OBVIOUS
<1>2. EpochPrefix(ms) = SubSeq(ms, 1, n) /\ Len(SubSeq(ms, 1, n)) = n
  BY <1>1, PrefixIs
<1>3. Rest(ms) = SubSeq(ms, n + 1, Len(ms))
  BY <1>2 DEF Rest
<1>4. QED
  BY <1>1, <1>3

LEMMA RestAppended ==
  ASSUME NEW ms \in Seq(Msg), Sound(ms), NEW m \in NonBlock
  PROVE  Rest(Append(ms, m)) = Append(Rest(ms), m)
<1> DEFINE ns == Append(ms, m)
<1>1. PICK n \in 0..Len(ms) : Folded(ms, n)
  BY DEF Sound
<1>2. m \in Msg /\ Len(ms) \in Nat /\ n \in Nat /\ n <= Len(ms)
  BY DEF NonBlock
<1>3. /\ ns \in Seq(Msg) /\ Len(ns) = Len(ms) + 1 /\ ns[Len(ms) + 1] = m
      /\ \A i \in 1..Len(ms) : ns[i] = ms[i]
  BY <1>2
<1>4. n \in 0..Len(ns) /\ Folded(ns, n)
  BY <1>1, <1>2, AppendFolded DEF ns
<1> HIDE DEF ns
<1> DEFINE a == Rest(ns)
           r == Rest(ms)
           z == Append(r, m)
<1>5. /\ a \in Seq(Msg) /\ Len(a) = Len(ms) + 1 - n
      /\ \A i \in 1..(Len(ms) + 1 - n) : a[i] = ns[n + i]
  <2>1. a \in Seq(Msg) /\ Len(a) = Len(ns) - n /\ \A i \in 1..(Len(ns) - n) : a[i] = ns[n + i]
    BY <1>3, <1>4, RestIs
  <2>2. Len(ns) - n = Len(ms) + 1 - n
    BY <1>3
  <2>3. QED
    BY <2>1, <2>2
<1>6. r \in Seq(Msg) /\ Len(r) = Len(ms) - n /\ \A i \in 1..(Len(ms) - n) : r[i] = ms[n + i]
  BY <1>1, RestIs
<1> HIDE DEF a, r
<1>7. /\ z \in Seq(Msg) /\ Len(z) = Len(ms) - n + 1 /\ z[Len(ms) - n + 1] = m
      /\ \A i \in 1..(Len(ms) - n) : z[i] = r[i]
  BY <1>2, <1>6
<1> HIDE DEF z
<1>8. ASSUME NEW i \in 1..(Len(ms) + 1 - n) PROVE a[i] = z[i]
  <2>1. CASE i = Len(ms) - n + 1
    <3>1. n + i = Len(ms) + 1
      BY <1>2, <2>1
    <3>2. QED
      BY <1>3, <1>5, <1>7, <2>1, <3>1
  <2>2. CASE i # Len(ms) - n + 1
    <3>1. i \in 1..(Len(ms) - n) /\ n + i \in 1..Len(ms)
      BY <1>2, <2>2
    <3>2. QED
      BY <1>3, <1>5, <1>6, <1>7, <3>1
  <2>3. QED
    BY <2>1, <2>2
<1>9. Len(a) = Len(z) /\ Len(a) = Len(ms) + 1 - n
  BY <1>2, <1>5, <1>7
<1>10. a = z
  BY <1>5, <1>7, <1>8, <1>9, SeqEqual
<1>11. QED
  BY <1>10 DEF a, z, r, ns

LEMMA RestCompacted ==
  ASSUME NEW ms \in Seq(Msg), Sound(ms)
  PROVE  Rest(Compacted(ms)) = Rest(ms)
<1> DEFINE k == ToFold(ms) \div COMPRESS_BATCH
           cs == Compacted(ms)
<1>1. PICK n \in 0..Len(ms) : Folded(ms, n)
  BY DEF Sound
<1>2. /\ k \in Nat /\ cs \in Seq(Msg) /\ Len(cs) = Len(ms) + k
      /\ n + k \in 0..Len(cs) /\ Folded(cs, n + k)
      /\ \A i \in n + 1 .. Len(ms) : cs[i + k] = ms[i]
  BY <1>1, CompactFolded
<1> HIDE DEF k, cs
<1> DEFINE a == Rest(cs)
           r == Rest(ms)
<1>3. Len(ms) \in Nat /\ n \in Nat /\ n <= Len(ms) /\ Len(cs) - (n + k) = Len(ms) - n
  BY <1>2
<1>4. /\ a \in Seq(Msg) /\ Len(a) = Len(ms) - n
      /\ \A i \in 1..(Len(ms) - n) : a[i] = cs[n + k + i]
  <2> DEFINE u == n + k
  <2>1. u \in 0..Len(cs) /\ Folded(cs, u) /\ cs \in Seq(Msg)
    BY <1>2
  <2>2. Len(cs) - u = Len(ms) - n
    BY <1>3
  <2> HIDE DEF u
  <2>3. /\ a \in Seq(Msg) /\ Len(a) = Len(cs) - u
        /\ \A i \in 1..(Len(cs) - u) : a[i] = cs[u + i]
    BY <2>1, RestIs
  <2> HIDE DEF a
  <2>4. QED
    BY <2>2, <2>3 DEF u
<1>5. r \in Seq(Msg) /\ Len(r) = Len(ms) - n /\ \A i \in 1..(Len(ms) - n) : r[i] = ms[n + i]
  BY <1>1, RestIs
<1> HIDE DEF a, r
<1>6. ASSUME NEW i \in 1..(Len(ms) - n) PROVE a[i] = r[i]
  <2>1. n + i \in n + 1 .. Len(ms) /\ n + k + i = (n + i) + k
    BY <1>2, <1>3
  <2>2. QED
    BY <1>2, <1>4, <1>5, <2>1
<1>7. a = r
  BY <1>4, <1>5, <1>6, SeqEqual
<1>8. QED
  BY <1>7 DEF a, r, cs

\* Every message that is still to be stored is a record.
Recorded(ops) == \A i \in 1..Len(ops) : ops[i].op = "message" => ops[i].msg \in Records
LogInv == ChatInv /\ \A t \in Turns : Recorded(todo[t])

LEMMA StoresRecorded ==
  ASSUME NEW t \in Turns
  PROVE  /\ Recorded(<<Store(Message("prompt", t))>>)
         /\ \A ops \in SwarmStores(t) \cup FailedSwarmStores(t) \cup DirectStores(t)
                         \cup FailedDirectStores(t) : Recorded(ops)
<1>1. \A kind \in {"prompt", "call", "tool", "error"} :
        Message(kind, t) \in Records /\ Message(kind, t) \in NonBlock
  <2>1. t \in Nat
    BY ChatAssumption DEF Turns
  <2>2. QED
    BY <2>1 DEF Records, Message, NonBlock, Msg, Kinds
<1>2. \A n \in Sizes : Ledger(t, n) \in Records
  BY DEF Records
<1>3. \A m \in Records : Recorded(<<Store(m)>>)
  BY DEF Recorded, Store
<1>4. ASSUME NEW ops \in SwarmStores(t) PROVE Recorded(ops)
  <2>1. PICK n \in Sizes : ops = <<Store(Ledger(t, n)), StoreTranscript(t, TRUE), Compact>>
    BY <1>4 DEF SwarmStores
  <2>2. Len(ops) = 3 /\ ops[1] = Store(Ledger(t, n)) /\ ops[2].op = "transcript" /\ ops[3].op = "compact"
    BY <2>1 DEF StoreTranscript, Compact
  <2>3. Store(Ledger(t, n)).msg \in Records
    BY <1>2 DEF Store
  <2>4. \A i \in 1..3 : i = 1 \/ i = 2 \/ i = 3
    OBVIOUS
  <2> QED
    BY <2>2, <2>3, <2>4 DEF Recorded
<1>5. ASSUME NEW ops \in FailedSwarmStores(t) PROVE Recorded(ops)
  <2>1. ops = <<StoreTranscript(t, FALSE), Store(Message("error", t))>>
    BY <1>5 DEF FailedSwarmStores
  <2>2. Len(ops) = 2 /\ ops[1].op = "transcript" /\ ops[2] = Store(Message("error", t))
    BY <2>1 DEF StoreTranscript
  <2>3. Store(Message("error", t)).msg \in Records
    BY <1>1 DEF Store
  <2>4. \A i \in 1..2 : i = 1 \/ i = 2
    OBVIOUS
  <2> QED
    BY <2>2, <2>3, <2>4 DEF Recorded
<1>6. \A a, b \in Records : Recorded(StoreAll(<<a, b>>))
  <2> SUFFICES ASSUME NEW a \in Records, NEW b \in Records PROVE Recorded(StoreAll(<<a, b>>))
    OBVIOUS
  <2>1. StoreAll(<<a, b>>) = [i \in 1..2 |-> Store(<<a, b>>[i])]
    BY DEF StoreAll
  <2>2. Len(StoreAll(<<a, b>>)) = 2 /\ \A i \in 1..2 : StoreAll(<<a, b>>)[i].msg = <<a, b>>[i]
    BY <2>1 DEF Store
  <2>3. \A i \in 1..2 : <<a, b>>[i] \in Records
    OBVIOUS
  <2>4. QED
    BY <2>2, <2>3 DEF Recorded
<1>7. ASSUME NEW ops \in DirectStores(t) \cup FailedDirectStores(t) PROVE Recorded(ops)
  <2>1. Append(<<Message("call", t)>>, Message("error", t)) = <<Message("call", t), Message("error", t)>>
    BY <1>1, AppendPair
  <2>2. \/ ops = StoreAll(<<Message("call", t), Message("tool", t)>>)
        \/ ops = StoreAll(<<Message("call", t), Message("error", t)>>)
    BY <1>7, <2>1 DEF DirectStores, FailedDirectStores, DirectTrace, FailedTrace
  <2>3. QED
    BY <1>1, <1>6, <2>2
<1>8. Recorded(<<Store(Message("prompt", t))>>)
  BY <1>1, <1>3
<1>9. QED
  BY <1>4, <1>5, <1>7, <1>8

LEMMA TailRecorded ==
  ASSUME NEW ops \in Seq(StoreOp), ops # <<>>, Recorded(ops)
  PROVE  Recorded(Tail(ops)) /\ (Head(ops).op = "message" => Head(ops).msg \in Records)
<1>1. Len(ops) \in Nat \ {0} /\ Len(Tail(ops)) = Len(ops) - 1 /\ Head(ops) = ops[1]
      /\ \A i \in 1..(Len(ops) - 1) : Tail(ops)[i] = ops[i + 1]
  OBVIOUS
<1>2. \A i \in 1..(Len(ops) - 1) : i + 1 \in 1..Len(ops)
  BY <1>1
<1>3. 1 \in 1..Len(ops)
  BY <1>1
<1>4. QED
  BY <1>1, <1>2, <1>3 DEF Recorded

LEMMA LogInvStep == LogInv /\ [ChatNext]_chatVars => LogInv'
<1> SUFFICES ASSUME LogInv, [ChatNext]_chatVars PROVE LogInv'
  OBVIOUS
<1>0. /\ ChatInv' /\ todo \in [Turns -> Seq(StoreOp)] /\ \A t \in Turns : Recorded(todo[t])
  BY ChatInvStep DEF LogInv, ChatInv, ChatTypeOK
<1>1. Recorded(<<>>)
  BY DEF Recorded
<1>2. ASSUME NEW t \in Turns, NEW ops, todo' = [todo EXCEPT ![t] = ops], Recorded(ops) PROVE LogInv'
  <2>1. \A u \in Turns : Recorded(todo'[u])
    BY <1>0, <1>2
  <2>2. QED
    BY <1>0, <2>1 DEF LogInv
<1>3. ASSUME todo' = todo PROVE LogInv'
  BY <1>0, <1>3 DEF LogInv
<1>4. ASSUME NEW t \in Turns, Issue(t) PROVE LogInv'
  BY <1>2, <1>4, StoresRecorded DEF Issue
<1>5. ASSUME NEW t \in Turns, StoreFails(t) \/ EndStore(t) PROVE LogInv'
  <2>1. /\ todo[t] # <<>>
        /\ todo' = [todo EXCEPT ![t] = <<>>] \/ todo' = [todo EXCEPT ![t] = Tail(todo[t])]
    BY <1>5 DEF StoreFails, EndStore
  <2>2. Recorded(Tail(todo[t]))
    BY <1>0, <2>1, TailRecorded
  <2>3. QED
    BY <1>1, <1>2, <2>1, <2>2
<1>6. ASSUME NEW t \in Turns, RunEnds(t) \/ RunFails(t) PROVE LogInv'
  <2>1. PICK ops \in SwarmStores(t) \cup FailedSwarmStores(t) \cup DirectStores(t)
                       \cup FailedDirectStores(t) : todo' = [todo EXCEPT ![t] = ops]
    BY <1>6 DEF RunEnds, RunFails
  <2>2. QED
    BY <1>2, <2>1, StoresRecorded
<1>7. CASE ProcessDies
  <2>1. \A t \in Turns : todo'[t] = <<>>
    BY <1>7 DEF ProcessDies
  <2>2. QED
    BY <1>0, <1>1, <2>1 DEF LogInv
<1>8. CASE Delete \/ UNCHANGED chatVars
  BY <1>3, <1>8 DEF Delete, chatVars, commands
<1>9. ASSUME NEW t \in Turns, Resume(t) \/ BeginStore(t) \/ Finish(t) PROVE LogInv'
  BY <1>3, <1>9 DEF Resume, BeginStore, Finish, commands
<1>10. QED
  BY <1>4, <1>5, <1>6, <1>7, <1>8, <1>9 DEF ChatNext, TurnStep

\* A command that leaves the file and what was stored alone.
LEMMA LogKept ==
  ASSUME UNCHANGED <<messages, stored, deleted>>
  PROVE  UNCHANGED SL!logVars
  BY DEF SL!logVars

\* One append, one folding and one transcript, seen from the log.
LEMMA LogEndStore ==
  ASSUME LogInv, NEW t \in Turns, EndStore(t)
  PROVE  [SL!Next]_(SL!logVars)
<1> DEFINE o == Head(todo[t])
           s == buffer[t]
           c == Changed(o, s)
<1>1. /\ todo[t] \in Seq(StoreOp) /\ todo[t] # <<>> /\ t \in io_lock /\ s \in Session /\ Sound(messages)
      /\ messages \in Seq(Msg) /\ deleted \in BOOLEAN
  BY DEF LogInv, ChatInv, ChatTypeOK, EndStore
<1>2. o \in StoreOp /\ o.msg \in NonBlock /\ (o.op = "message" => o.msg \in Records)
  <2>1. o \in StoreOp
    BY <1>1
  <2>2. QED
    BY <1>1, <2>1, TailRecorded DEF LogInv, StoreOp
<1>3. ~deleted => s.messages = messages
  BY <1>1 DEF LogInv, ChatInv, LockInv
<1>4. /\ messages' = c.messages /\ deleted' = deleted
      /\ stored' = (IF o.op = "message" THEN stored \cup {o.msg} ELSE stored)
  BY DEF EndStore
<1>5. /\ o.op = "message" => c.messages = Append(s.messages, o.msg)
      /\ o.op = "transcript" => c.messages = s.messages
      /\ o.op = "compact" => c.messages = Compacted(s.messages)
      /\ o.op \in {"message", "transcript", "compact"}
  BY <1>1, <1>2 DEF Changed, Session, StoreOp
<1> HIDE DEF o, s, c
<1>6. CASE deleted
  BY <1>4, <1>6 DEF SL!logVars
<1>7. CASE ~deleted /\ o.op = "message"
  <2>1. messages' = Append(messages, o.msg)
    BY <1>3, <1>4, <1>5, <1>7
  <2>2. Rest(messages') = Append(Rest(messages), o.msg)
    BY <1>1, <1>2, <2>1, RestAppended
  <2>3. SL!Record(o.msg)
    BY <1>4, <1>7, <2>2 DEF SL!Record, Rest
  <2>4. QED
    BY <1>2, <1>7, <2>3 DEF SL!Next
<1>8. CASE ~deleted /\ o.op # "message"
  <2>1. messages' = messages \/ messages' = Compacted(messages)
    BY <1>3, <1>4, <1>5, <1>8
  <2>2. Rest(messages') = Rest(messages)
    BY <1>1, <2>1, RestCompacted
  <2>3. QED
    BY <1>4, <1>8, <2>2 DEF SL!logVars, Rest
<1>9. QED
  BY <1>6, <1>7, <1>8

LEMMA LogStep == LogInv /\ [ChatNext]_chatVars => [SL!Next]_(SL!logVars)
<1> SUFFICES ASSUME LogInv, [ChatNext]_chatVars PROVE [SL!Next]_(SL!logVars)
  OBVIOUS
<1>1. ASSUME NEW t \in Turns, EndStore(t) PROVE [SL!Next]_(SL!logVars)
  BY <1>1, LogEndStore
<1>2. CASE Delete
  <2>1. deleted' = TRUE /\ stored' = stored
    BY <1>2 DEF Delete
  <2>2. CASE deleted
    BY <2>1, <2>2 DEF SL!logVars
  <2>3. CASE ~deleted
    BY <2>1, <2>3 DEF SL!Next, SL!Remove
  <2>4. QED
    BY <2>2, <2>3
<1>3. ASSUME NEW t \in Turns,
             Issue(t) \/ Resume(t) \/ BeginStore(t) \/ StoreFails(t) \/ RunEnds(t) \/ RunFails(t) \/ Finish(t)
      PROVE  [SL!Next]_(SL!logVars)
  BY <1>3, LogKept
    DEF Issue, Resume, BeginStore, StoreFails, RunEnds, RunFails, Finish, sessionFile, history
<1>4. CASE ProcessDies \/ UNCHANGED chatVars
  BY <1>4, LogKept DEF ProcessDies, chatVars, sessionFile, history
<1>5. QED
  BY <1>1, <1>2, <1>3, <1>4 DEF ChatNext, TurnStep

\* Whatever commands overlap, fold or die in between, every append of the session
\* takes effect at once at the end of the log, and nothing else changes the log.
THEOREM SessionImplementsLog == ChatSpec => ImplementsSessionLog
<1>1. ChatInit => SL!Init
  <2> SUFFICES ASSUME ChatInit PROVE SL!Init
    OBVIOUS
  <2>1. messages = <<>> /\ stored = {} /\ deleted = FALSE /\ <<>> \in Seq(Msg) /\ Len(<<>>) = 0
    BY DEF ChatInit
  <2>2. Folded(<<>>, 0)
    BY <2>1 DEF Folded
  <2>3. /\ Rest(messages) \in Seq(Msg) /\ Len(Rest(messages)) = Len(messages) - 0
        /\ messages \in Seq(Msg) /\ Len(messages) = 0
    <3>1. messages \in Seq(Msg) /\ 0 \in 0..Len(messages) /\ Folded(messages, 0)
      BY <2>1, <2>2
    <3>2. QED
      BY <2>1, <3>1, RestIs
  <2>4. Rest(messages) = <<>>
    BY <2>3
  <2>5. QED
    BY <2>1, <2>4 DEF SL!Init, Rest
<1>2. ChatInit => LogInv
  BY ChatInvInit DEF ChatInit, LogInv, Recorded
<1>3. QED
  BY <1>1, <1>2, LogInvStep, LogStep, PTL DEF ChatSpec, ImplementsSessionLog, SL!Spec

=============================================================================
