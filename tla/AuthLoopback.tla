---------------------------- MODULE AuthLoopback ----------------------------
(***************************************************************************)
(* The loopback server of the browser login (gateway/auth_loopback.rs) and *)
(* the commands that start, stop and ask it (commands/agent.rs).  The      *)
(* state's slot holds at most one server; its mutex is held over a         *)
(* shutdown, which waits for the server's task to end.                     *)
(***************************************************************************)
EXTENDS Integers, FiniteSets

CONSTANTS
  Commands,    \* callers of auth_start_loopback and auth_stop_loopback
  MaxServers,  \* bound: servers ever started
  MaxClients,  \* bound: connections the browser opens
  Codes        \* pickup codes the hub hands to the browser

ASSUME LoopbackAssumption ==
  /\ MaxServers \in Nat /\ MaxClients \in Nat /\ IsFiniteSet(Codes) /\ IsFiniteSet(Commands)
  /\ "free" \notin Commands

Servers == 1 .. MaxServers
NoServer == 0
NoCode == "no_code"

VARIABLES
  task,      \* [Servers -> "none", "checking", "accepting", "reading" or "ended"]
  stopping,  \* servers whose shutdown flag is set
  pickup,    \* [Servers -> the code received last]
  clients,   \* connections opened so far
  slot,      \* state.auth_loopback
  lock,      \* who holds the slot's mutex
  cmd,       \* [Commands -> [pc, hold]]: hold is the server in the caller's hands
  overlap    \* history: two starts were under way at once

lvars == <<task, stopping, pickup, clients, slot, lock, cmd, overlap>>

Resting == [pc |-> "idle", hold |-> NoServer]

LInit ==
  /\ task = [s \in Servers |-> "none"] /\ stopping = {}
  /\ pickup = [s \in Servers |-> NoCode] /\ clients = 0
  /\ slot = NoServer /\ lock = "free"
  /\ cmd = [c \in Commands |-> Resting] /\ overlap = FALSE

-----------------------------------------------------------------------------
(* The server's task.                                                      *)

Become(s, st) == task' = [task EXCEPT ![s] = st]

\* The flag is read before every accept.
Check(s) ==
  /\ task[s] = "checking"
  /\ Become(s, IF s \in stopping THEN "ended" ELSE "accepting")
  /\ UNCHANGED <<stopping, pickup, clients, slot, lock, cmd, overlap>>

\* An accept that times out, or fails, reads the flag again.
AcceptTimesOut(s) ==
  /\ task[s] = "accepting"
  /\ Become(s, "checking")
  /\ UNCHANGED <<stopping, pickup, clients, slot, lock, cmd, overlap>>
Accept(s) ==
  /\ task[s] = "accepting" /\ clients < MaxClients
  /\ clients' = clients + 1 /\ Become(s, "reading")
  /\ UNCHANGED <<stopping, pickup, slot, lock, cmd, overlap>>

\* A request with a valid code fills the slot; any other, and a connection that
\* is closed, changes nothing.  The read has no deadline.
Request(s) ==
  /\ task[s] = "reading"
  /\ \E code \in Codes \cup {pickup[s]} : pickup' = [pickup EXCEPT ![s] = code]
  /\ Become(s, "checking")
  /\ UNCHANGED <<stopping, clients, slot, lock, cmd, overlap>>

-----------------------------------------------------------------------------
(* The commands.                                                           *)

Move(c, pc) == cmd' = [cmd EXCEPT ![c].pc = pc]
StartUnderway == \E c \in Commands : cmd[c].pc \in {"take", "join", "spawn", "put"}

\* Mutant: the server of the login before is not looked for.
StartCalledAnew(c) ==
  /\ cmd[c].pc = "idle" /\ \E s \in Servers : task[s] = "none"
  /\ overlap' = (overlap \/ StartUnderway)
  /\ Move(c, "spawn")
  /\ UNCHANGED <<task, stopping, pickup, clients, slot, lock>>
StartCalled(c) ==
  /\ cmd[c].pc = "idle" /\ \E s \in Servers : task[s] = "none"
  /\ overlap' = (overlap \/ StartUnderway)
  /\ Move(c, "take")
  /\ UNCHANGED <<task, stopping, pickup, clients, slot, lock>>
StopCalled(c) ==
  /\ cmd[c].pc = "idle" /\ Move(c, "stop")
  /\ UNCHANGED <<task, stopping, pickup, clients, slot, lock, overlap>>

\* Mutant: the server that is taken out is not told.
TellNobody(s) == stopping
\* shutdown() sets the flag first.
Tell(s) == stopping \cup ({s} \ {NoServer})

\* Under the lock: the server that is there is taken out and told to stop.
TakeOld(c) ==
  /\ cmd[c].pc \in {"take", "stop"} /\ lock = "free"
  /\ lock' = c /\ slot' = NoServer
  /\ stopping' = Tell(slot)
  /\ cmd' = [cmd EXCEPT ![c] = [pc |-> IF @.pc = "take" THEN "join" ELSE "joinstop", hold |-> slot]]
  /\ UNCHANGED <<task, pickup, clients, overlap>>

\* ... and waited for, with the lock held.
Joined(c) ==
  /\ cmd[c].pc \in {"join", "joinstop"}
  /\ cmd[c].hold # NoServer => task[cmd[c].hold] = "ended"
  /\ lock' = "free"
  /\ cmd' = [cmd EXCEPT ![c] = [pc |-> IF @.pc = "join" THEN "spawn" ELSE "idle", hold |-> NoServer]]
  /\ UNCHANGED <<task, stopping, pickup, clients, slot, overlap>>

Spawn(c, s) ==
  /\ cmd[c].pc = "spawn" /\ task[s] = "none" /\ \A t \in Servers : t < s => task[t] # "none"
  /\ Become(s, "checking")
  /\ cmd' = [cmd EXCEPT ![c] = [pc |-> "put", hold |-> s]]
  /\ UNCHANGED <<stopping, pickup, clients, slot, lock, overlap>>
BindFails(c) ==
  /\ cmd[c].pc = "spawn" /\ Move(c, "idle")
  /\ UNCHANGED <<task, stopping, pickup, clients, slot, lock, overlap>>

\* The new server replaces whatever the slot holds; a server that is dropped
\* there is not told to stop.
Put(c) ==
  /\ cmd[c].pc = "put" /\ lock = "free"
  /\ slot' = cmd[c].hold
  /\ cmd' = [cmd EXCEPT ![c] = Resting]
  /\ UNCHANGED <<task, stopping, pickup, clients, lock, overlap>>

ServerStep(s) == Check(s) \/ AcceptTimesOut(s) \/ Accept(s) \/ Request(s)
CommandStep(c) == TakeOld(c) \/ Joined(c) \/ (\E s \in Servers : Spawn(c, s)) \/ BindFails(c) \/ Put(c)

LNext ==
  \/ \E s \in Servers : ServerStep(s)
  \/ \E c \in Commands : StartCalled(c) \/ StopCalled(c) \/ CommandStep(c)

LSpec == LInit /\ [][LNext]_lvars

\* The server's task and the commands are scheduled; a connection that was
\* accepted sends something or is closed.
LFairness ==
  /\ \A s \in Servers : WF_lvars(Check(s)) /\ WF_lvars(AcceptTimesOut(s) \/ Accept(s)) /\ WF_lvars(Request(s))
  /\ \A c \in Commands : SF_lvars(CommandStep(c))

-----------------------------------------------------------------------------
(* Properties.                                                             *)

Alive(s) == task[s] \notin {"none", "ended"}

\* auth_start_loopback shuts down "the old instance, if there is one": a server
\* that runs is in the slot, in the hands of the command that starts it, or on
\* its way out - unless two starts overlapped, when the second one's server may
\* replace the first's and leave it running.
NoStrayServer ==
  ~overlap => \A s \in Servers :
    Alive(s) => s = slot \/ s \in stopping \/ \E c \in Commands : cmd[c].hold = s

\* A command that was called returns: the lock it waits for, and the server it
\* shuts down while holding that lock, are given up, as long as no accepted
\* connection stays silent for ever.
CommandsReturn == \A c \in Commands : cmd[c].pc # "idle" ~> cmd[c].pc = "idle"
=============================================================================
