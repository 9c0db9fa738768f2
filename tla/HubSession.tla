----------------------------- MODULE HubSession -----------------------------
(***************************************************************************)
(* The Kuda Hub login (agent/hub_session.rs, commands/agent.rs): a         *)
(* permanent master token and a rotating session key, kept in a file that  *)
(* is mirrored into the system's keychain.                                 *)
(*                                                                         *)
(* Rotations start on a timer, before a run, before a role and after a     *)
(* 401; the login task polls in the background; the user signs out.  None  *)
(* of them holds a lock over its request to the hub: each looks at the     *)
(* store, waits for the network, and writes the store.  The hub itself is  *)
(* external: it rotates keys, and a logout replaces the master token of    *)
(* the account and forgets its session keys.                               *)
(***************************************************************************)
EXTENDS Naturals, FiniteSets

CONSTANTS
  Accounts,    \* hub accounts
  Rotators,    \* callers of refresh_hub_session
  Logins,      \* login tasks
  MaxStarts,   \* bound: rotations and logins begun
  MaxLogouts,  \* bound: sign-outs begun
  Legacy       \* TRUE: credentials may be found in the keychain alone

ASSUME HubAssumption ==
  /\ IsFiniteSet(Accounts) /\ "none" \notin Accounts
  /\ Rotators \cap Logins = {} /\ "signout" \notin Rotators \cup Logins
  /\ MaxStarts \in Nat /\ MaxLogouts \in Nat /\ Legacy \in BOOLEAN

None == [acc |-> "none", gen |-> 0]     \* no token, or an empty one
Ticket == [acc |-> "ticket", gen |-> 0] \* the token_key of a rotation: no master token
\* Of a session key it matters which account it belongs to.
NoKey == "no_key"

\* HubCredentials, as far as they matter here.
Creds(m, k) == [master |-> m, key |-> k]
Gone == Creds(None, NoKey)     \* no file
Torn == Creds(None, "torn")   \* a file nothing can parse

SignOut == "signout"
Procs == Rotators \cup Logins \cup {SignOut}

VARIABLES
  file,      \* hub_credentials.json
  keychain,  \* its mirror: [master, key]
  gen,       \* hub: [Accounts -> generation of the valid master token]
  starts,    \* rotations and logins begun
  logouts,   \* sign-outs begun
  proc,      \* [Procs -> the operation under way]
  out        \* history: the last sign-out was complete and undisturbed

hubVars == <<file, keychain, gen, starts, logouts, proc, out>>

\* pc, the master token in use, the credentials to store; history: whether the
\* file was there at the start, whether the store changed hands since (a
\* login, a sign-out, damage, a rotation from before one of these), whether another save had the same temporary file open.
Idle == [pc |-> "idle", master |-> None, creds |-> Gone, fromFile |-> FALSE,
         passed |-> FALSE, clash |-> FALSE]

Parses(c) == c \notin {Gone, Torn}

HubInit ==
  /\ \E a \in Accounts :
       LET c == Creds([acc |-> a, gen |-> 0], a) IN
       \/ file = c /\ keychain \in {c, Gone}
       \/ file = Gone /\ keychain = Gone
       \/ Legacy /\ file = Gone /\ keychain = c
  /\ gen = [a \in Accounts |-> 0] /\ starts = 0 /\ logouts = 0
  /\ proc = [p \in Procs |-> Idle] /\ out = FALSE

-----------------------------------------------------------------------------
Upd(p, new) == proc' = [proc EXCEPT ![p] = new]
At(p, pc) == proc[p].pc = pc
Begin == starts < MaxStarts /\ starts' = starts + 1
Valid(m) == m.acc \in Accounts /\ gen[m.acc] = m.gen

\* Master token of refresh_hub_session and has_master_token: the file if it can
\* be read, and the keychain only if it cannot.
StoredMaster == IF Parses(file) THEN file.master ELSE keychain.master

\* Mutant: the answer's token replaces the master token.
MasterToKeepReplaced(ticket) == ticket
\* After a rotation the master token of the file stays; without one, the answer's
\* token takes its place.
MasterToKeep(ticket) == IF Parses(file) /\ file.master # None THEN file.master ELSE ticket

\* refresh_hub_session, up to its request.
RotationStarts(r) ==
  /\ At(r, "idle") /\ StoredMaster # None /\ Begin
  /\ Upd(r, [Idle EXCEPT !.pc = "asking", !.master = StoredMaster,
                         !.fromFile = Parses(file)])
  /\ UNCHANGED <<file, keychain, gen, logouts, out>>

\* The hub hands out a session key to whoever has the valid master token.
HubRotates(r) ==
  /\ At(r, "asking") /\ Valid(proc[r].master)
  /\ Upd(r, [proc[r] EXCEPT !.pc = "answered", !.creds = Creds(None, proc[r].master.acc)])
  /\ UNCHANGED <<file, keychain, gen, starts, logouts, out>>

\* No answer, a refusal, an answer that cannot be read, the five minutes of a login.
RequestFails(p) ==
  /\ proc[p].pc \in {"asking", "answered"}
  /\ Upd(p, Idle)
  /\ UNCHANGED <<file, keychain, gen, starts, logouts, out>>

\* auth_start_github_pkce, agent_poll_hub_login: the user logs in to an account
\* in the browser; the hub answers the poll with its master token.
LoginStarts(l) ==
  /\ At(l, "idle") /\ Begin
  /\ Upd(l, [Idle EXCEPT !.pc = "asking"])
  /\ out' = FALSE
  /\ UNCHANGED <<file, keychain, gen, logouts>>
HubGrants(l, a) ==
  /\ At(l, "asking")
  /\ LET m == [acc |-> a, gen |-> gen[a]] IN
     Upd(l, [proc[l] EXCEPT !.pc = "answered", !.master = m, !.creds = Creds(m, a)])
  /\ UNCHANGED <<file, keychain, gen, starts, logouts, out>>

\* HubCredentialStore::save opens its temporary file, whose name is the same for
\* all saves of the process.
Saving(p) == At(p, "saving")
Passed(change) == [q \in Procs |->
  IF change /\ ~At(q, "idle") THEN [proc[q] EXCEPT !.passed = TRUE] ELSE proc[q]]
OpensTmp(p, creds) ==
  proc' = [q \in Procs |->
    IF q = p THEN [proc[p] EXCEPT !.pc = "saving", !.creds = creds,
                                  !.clash = \E o \in Procs : Saving(o)]
    ELSE IF Saving(q) THEN [proc[q] EXCEPT !.clash = TRUE] ELSE proc[q]]
StoreStarts(p) ==
  /\ At(p, "answered")
  /\ OpensTmp(p, Creds(IF p \in Rotators THEN MasterToKeep(Ticket) ELSE proc[p].master,
                       proc[p].creds.key))
  /\ UNCHANGED <<file, keychain, gen, starts, logouts, out>>

\* The rename.  Two saves that had the temporary file open write over each
\* other: either content, a mixture, or an error and the old file.
StoreEnds(p) ==
  /\ Saving(p)
  /\ \/ /\ file' \in {proc[p].creds} \cup (IF proc[p].clash THEN {Torn} ELSE {})
        /\ proc' = [Passed(file' = Torn \/ p \in Logins \/ proc[p].passed) EXCEPT ![p].pc = "mirror"]
     \/ Upd(p, Idle) /\ UNCHANGED file
  /\ UNCHANGED <<keychain, gen, starts, logouts, out>>

\* mirror_to_keychain: every entry is written at best effort.
Mirrors(p) ==
  /\ At(p, "mirror")
  /\ \E m \in {keychain.master, proc[p].creds.master}, k \in {keychain.key, proc[p].creds.key} :
       keychain' = Creds(m, k)
  /\ Upd(p, Idle)
  /\ UNCHANGED <<file, gen, starts, logouts, out>>

-----------------------------------------------------------------------------
(* agent_hub_sign_out.                                                     *)

SignOutStarts ==
  /\ At(SignOut, "idle") /\ logouts < MaxLogouts
  /\ logouts' = logouts + 1
  /\ LET m == IF file.master = None THEN keychain.master ELSE file.master IN
     Upd(SignOut, [Idle EXCEPT !.pc = IF Parses(file) /\ m # None THEN "revoking" ELSE "clearing",
                               !.master = m])
  /\ UNCHANGED <<file, keychain, gen, starts, out>>

\* The hub is told, if it can be reached and knows the token.
Revoke ==
  /\ At(SignOut, "revoking")
  /\ \/ /\ Valid(proc[SignOut].master)
        /\ gen' = [gen EXCEPT ![proc[SignOut].master.acc] = @ + 1]
     \/ UNCHANGED gen
  /\ Upd(SignOut, [proc[SignOut] EXCEPT !.pc = "clearing"])
  /\ UNCHANGED <<file, keychain, starts, logouts, out>>

\* clear_hub_credentials removes the file; if it cannot, the rest is not done.
ClearFile ==
  /\ At(SignOut, "clearing")
  /\ \/ /\ file' = Gone
        /\ proc' = [Passed(TRUE) EXCEPT ![SignOut].pc = "forgetting"]
     \/ file # Gone /\ Upd(SignOut, Idle) /\ UNCHANGED file
  /\ UNCHANGED <<keychain, gen, starts, logouts, out>>

\* Mutant: the master token stays in the keychain.
ForgottenKeyOnly == Creds(keychain.master, NoKey)
\* What deleting every entry leaves of the keychain; each may also fail.
Forgotten == Gone
Undisturbed == \A p \in Procs \ {SignOut} : At(p, "idle")
ForgetKeychain ==
  /\ At(SignOut, "forgetting")
  /\ \/ keychain' = Forgotten /\ out' = (Undisturbed /\ file = Gone)
     \/ /\ keychain' \in {Creds(keychain.master, NoKey), Creds(None, keychain.key), keychain}
        /\ UNCHANGED out
  /\ Upd(SignOut, Idle)
  /\ UNCHANGED <<file, gen, starts, logouts>>

\* The program dies, between any two steps.
Crash ==
  /\ proc' = [p \in Procs |-> Idle]
  /\ UNCHANGED <<file, keychain, gen, starts, logouts, out>>

HubNext ==
  \/ \E r \in Rotators : RotationStarts(r) \/ HubRotates(r)
  \/ \E l \in Logins : LoginStarts(l) \/ \E a \in Accounts : HubGrants(l, a)
  \/ \E p \in Rotators \cup Logins : RequestFails(p) \/ StoreStarts(p) \/ StoreEnds(p) \/ Mirrors(p)
  \/ SignOutStarts \/ Revoke \/ ClearFile \/ ForgetKeychain \/ Crash

HubSpec == HubInit /\ [][HubNext]_hubVars

-----------------------------------------------------------------------------
(* Properties.                                                             *)

Rotates(r) == Saving(r) /\ proc'[r].pc = "mirror"

\* hub_session.rs 272-276: a rotation stores "the fresh rotating session key but
\* KEEP[s] the existing master token".  Whatever other rotations do meanwhile,
\* one that found the file stores the master token it used and a key of the same
\* account, unless the store changed hands while it waited for the hub or
\* another save shared its temporary file.
RotationKeepsMaster ==
  [][\A r \in Rotators :
       /\ Rotates(r) /\ ~proc[r].passed /\ proc[r].fromFile /\ ~proc[r].clash
       => file'.master = proc[r].master /\ file'.key = proc[r].master.acc]_hubVars

\* A sign-out that nothing else was under way with, and that the keychain did
\* not refuse, is final: no credentials come back before the user logs in again.
SignOutIsFinal == out => file = Gone /\ keychain.master = None

=============================================================================
