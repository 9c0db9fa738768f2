----------------------------- MODULE EditHistory -----------------------------
(***************************************************************************)
(* Full-file checkpoints (diff_engine/history.rs) and the writers that     *)
(* take them (file_system/io.rs, commands/fs.rs, the editing tools of      *)
(* agent/tool_registry.rs, commands/history.rs).                           *)
(*                                                                         *)
(* Three parts of the program touch the project's files at the same time:  *)
(* the agent (its tools, tagged with the run's edit session), the editor   *)
(* (saves, deletions and renames of the user) and the history commands     *)
(* (revert a session, restore a checkpoint); so do programs outside it.    *)
(* Nothing serialises them: each looks at the file, stores a copy, writes  *)
(* the copy's metadata, and replaces the file, in separate steps.  A       *)
(* content is a number: Absent, or the version of the write it came from.  *)
(***************************************************************************)
EXTENDS Integers, Sequences, FiniteSets

CONSTANTS
  Files,       \* the paths looked at
  Existing,    \* those that exist at the start
  MaxOps,      \* bound: operations begun, by whomever
  MaxFaults    \* bound: crashes of the program and prunings of the history

ASSUME EditHistoryAssumption ==
  /\ IsFiniteSet(Files) /\ Existing \subseteq Files
  /\ MaxOps \in Nat /\ MaxFaults \in Nat

Absent == 0
Actors == {"agent", "editor", "history"}

\* Mutant: the session is not passed on to the checkpoint.
SessionForgotten(a) == "none"
Session(a) == IF a = "agent" THEN "run" ELSE "none"

VARIABLES
  disk,     \* what each file holds: the number of a content, or Absent
  trash,    \* contents in the operating system's trash
  ops,      \* operations begun: each makes up content ops + 1 at most
  chks,     \* the checkpoints, oldest first: the position is the timestamp
  op,       \* [Actors -> the operation under way]
  pruning,  \* [upto, at]: prune_old_sessions at work
  faults,
  window,   \* [Files -> contents during the session's first operation]
  pruned,   \* files of which a checkpoint of the session was pruned
  raced     \* history: files whose first checkpoint is of a lost creation race

vars == <<disk, trash, ops, chks, op, pruning, faults, window, pruned, raced>>

Checkpoint(f, s, content) ==
  [file |-> f, session |-> s, existed |-> content # Absent, content |-> content,
   listed |-> FALSE]

Idle == [pc |-> "idle", kind |-> "none", file |-> "none", new |-> Absent,
         expected |-> Absent, found |-> Absent, chk |-> 0, since |-> 0, todo |-> {}, done |-> {}]

Init ==
  /\ disk \in {[f \in Files |-> IF f \in Existing THEN 1 ELSE Absent]}
  /\ trash = {} /\ ops = 0 /\ chks = <<>>
  /\ op = [a \in Actors |-> Idle]
  /\ pruning = [upto |-> 0, at |-> 0] /\ faults = 0
  /\ window = [f \in Files |-> {}] /\ pruned = {} /\ raced = {}

-----------------------------------------------------------------------------
(* Reading the history.                                                    *)

\* list_checkpoints: torn or missing metadata is skipped.
Listed == {i \in 1 .. Len(chks) : chks[i].listed}
OfSession(s) == {i \in Listed : chks[i].session = s}

\* revert_session keeps the earliest checkpoint of each file.
\* Mutant: the latest checkpoint of each file wins.
LatestOfEach(is) == {i \in is : \A j \in is : chks[j].file = chks[i].file => j <= i}
Earliest(is) == {i \in is : \A j \in is : chks[j].file = chks[i].file => i <= j}

\* What the user can still get back.
Recoverable ==
  {chks[i].content : i \in Listed} \cup {disk[f] : f \in Files} \cup trash

-----------------------------------------------------------------------------
(* The steps every writer shares.                                          *)

Set(a, new) == op' = [op EXCEPT ![a] = new]
Goto(a, pc) == Set(a, [op[a] EXCEPT !.pc = pc])
At(a, pc) == op[a].pc = pc
Exists(f) == disk[f] # Absent

\* The operation returns; a revert goes on with its next file.
Ended(a) ==
  IF a = "history" THEN [op[a] EXCEPT !.pc = "pick", !.chk = 0] ELSE Idle
Fail(a) == Set(a, Ended(a))

\* create_checkpoint_in_session, create_new_file_checkpoint: the content is
\* copied and the checkpoint gets its timestamp; nothing lists it yet.
Take(a, content) ==
  /\ chks' = Append(chks, Checkpoint(op[a].file, Session(a), content))
  /\ Set(a, [op[a] EXCEPT !.pc = "meta", !.chk = Len(chks) + 1, !.found = content])

\* Which step follows once there is a checkpoint, or none is needed.
Prepared(a, c) ==
  IF op[a].kind = "write" /\ ~c.existed THEN "recheck" ELSE "apply"

\* The file is looked at: what exists is copied, what does not is recorded as
\* new by a write and needs no copy for a deletion or a revert.
Snapshot(a) ==
  /\ At(a, "snapshot")
  /\ \/ /\ Exists(op[a].file) \/ op[a].kind = "write"
        /\ Take(a, disk[op[a].file])
     \/ /\ ~Exists(op[a].file) /\ op[a].kind # "write"
        /\ Set(a, [op[a] EXCEPT !.pc = "apply", !.found = Absent]) /\ UNCHANGED chks
     \/ Fail(a) /\ UNCHANGED chks
  /\ UNCHANGED <<disk, trash, ops, pruning, faults, pruned>>

\* write_metadata: from here on the checkpoint is listed.
Metadata(a) ==
  /\ At(a, "meta")
  /\ \/ /\ chks' = [chks EXCEPT ![op[a].chk].listed = TRUE]
        /\ Goto(a, Prepared(a, chks[op[a].chk]))
     \/ Fail(a) /\ UNCHANGED chks
  /\ UNCHANGED <<disk, trash, ops, pruning, faults, pruned>>

\* The lost creation race: somebody created the file since it was looked at.
\* Their content gets a checkpoint too, the one that says "new" stays before it.
\* Mutant: the file is not looked at again.
RecheckNothing(a) ==
  /\ At(a, "recheck")
  /\ Set(a, [op[a] EXCEPT !.pc = "apply", !.found = disk[op[a].file]]) /\ UNCHANGED chks
  /\ UNCHANGED <<disk, trash, ops, pruning, faults, pruned>>
Recheck(a) ==
  /\ At(a, "recheck")
  /\ \/ Exists(op[a].file) /\ Take(a, disk[op[a].file])
     \/ ~Exists(op[a].file) /\ Goto(a, "apply") /\ UNCHANGED chks
  /\ UNCHANGED <<disk, trash, ops, pruning, faults, pruned>>

-----------------------------------------------------------------------------
(* The writers.                                                            *)

\* Every operation, and every change from outside, has a content of its own to
\* write; their number is the bound.
Begin == ops < MaxOps /\ ops' = ops + 1
Fresh == ops + 2

\* A tool of the agent writes f: write_file whatever is there,
\* multi_replace_file_content only a file it could read.
AgentWrites(f) ==
  /\ At("agent", "idle") /\ Begin
  /\ Set("agent", [Idle EXCEPT !.pc = "snapshot", !.kind = "write", !.file = f,
                               !.new = Fresh, !.found = disk[f], !.since = Len(chks)])
  /\ UNCHANGED <<disk, trash, chks, pruning, faults, pruned>>

\* fs_write_file, with the content the editor loaded as its precondition, or
\* with none.
EditorSaves(f, expected) ==
  /\ At("editor", "idle") /\ Begin
  /\ Set("editor", [Idle EXCEPT !.pc = "check", !.kind = "write", !.file = f, !.new = Fresh,
                                !.expected = expected, !.found = disk[f], !.since = Len(chks)])
  /\ UNCHANGED <<disk, trash, chks, pruning, faults, pruned>>

\* The precondition: a file that changed since it was loaded is a conflict.
Conflict(a) ==
  Exists(op[a].file) /\ op[a].expected # Absent /\ op[a].expected # disk[op[a].file]
CheckLoaded ==
  /\ At("editor", "check")
  /\ IF Conflict("editor") THEN Fail("editor") ELSE Goto("editor", "snapshot")
  /\ UNCHANGED <<disk, trash, ops, chks, pruning, faults, pruned>>

\* fs_delete.
EditorDeletes(f) ==
  /\ Begin /\ At("editor", "idle") /\ Exists(f)
  /\ Set("editor", [Idle EXCEPT !.pc = "snapshot", !.kind = "delete", !.file = f,
                                !.found = disk[f], !.since = Len(chks)])
  /\ UNCHANGED <<disk, trash, chks, pruning, faults, pruned>>

\* fs_rename: one system call, and no checkpoint of what it replaces.
EditorRenames(f, g) ==
  /\ Begin /\ At("editor", "idle") /\ f # g /\ Exists(f)
  /\ disk' = [disk EXCEPT ![g] = disk[f], ![f] = Absent]
  /\ UNCHANGED <<trash, chks, op, pruning, faults, pruned>>

\* A program outside (git, a command the agent runs) changes or removes f.
Outside(f) ==
  /\ Begin
  /\ \/ disk' = [disk EXCEPT ![f] = Fresh]
     \/ Exists(f) /\ disk' = [disk EXCEPT ![f] = Absent]
  /\ UNCHANGED <<trash, chks, op, pruning, faults, pruned>>

\* atomic_write_preserving_permissions: the new content appears whole, or the
\* old one stays and the operation fails.
Replace(a) ==
  /\ At(a, "apply") /\ op[a].kind = "write"
  /\ \/ disk' = [disk EXCEPT ![op[a].file] = op[a].new]
     \/ UNCHANGED disk
  /\ Set(a, Ended(a))
  /\ UNCHANGED <<trash, ops, chks, pruning, faults, pruned>>

\* trash::delete takes what is there now, not what was copied.
Trash(a) ==
  /\ At(a, "apply") /\ op[a].kind = "delete"
  /\ \/ /\ Exists(op[a].file)
        /\ disk' = [disk EXCEPT ![op[a].file] = Absent]
        /\ trash' = trash \cup {disk[op[a].file]}
     \/ UNCHANGED <<disk, trash>>
  /\ Set(a, Ended(a))
  /\ UNCHANGED <<ops, chks, pruning, faults, pruned>>

-----------------------------------------------------------------------------
(* The history commands.                                                   *)

\* history_revert_session lists the checkpoints once; history_restore_checkpoint
\* finds the one it was asked for.
Revert ==
  /\ Begin /\ At("history", "idle") /\ OfSession("run") # {}
  /\ Set("history", [Idle EXCEPT !.pc = "pick", !.kind = "revert", !.since = Len(chks),
                                 !.todo = Earliest(OfSession("run"))])
  /\ UNCHANGED <<disk, trash, chks, pruning, faults, pruned>>

Restore(i) ==
  /\ Begin /\ At("history", "idle") /\ i \in Listed
  /\ Set("history", [Idle EXCEPT !.pc = "pick", !.kind = "restore", !.since = Len(chks), !.todo = {i}])
  /\ UNCHANGED <<disk, trash, chks, pruning, faults, pruned>>

\* The next file of the revert, or the end of it.
NextFile(i) ==
  /\ At("history", "pick") /\ i \in op["history"].todo
  /\ LET f == chks[i].file IN
     Set("history", [op["history"] EXCEPT !.pc = "snapshot", !.file = f, !.found = disk[f],
                                          !.expected = i, !.todo = @ \ {i}])
  /\ UNCHANGED <<disk, trash, ops, chks, pruning, faults, pruned>>
RevertEnds ==
  /\ At("history", "pick") /\ op["history"].todo = {}
  /\ Set("history", Idle)
  /\ UNCHANGED <<disk, trash, ops, chks, pruning, faults, pruned>>

\* A file created by the session is removed, any other gets the payload back;
\* without the payload, and on any error of the disk, the file is left alone.
PutBack ==
  LET i == op["history"].expected
      f == op["history"].file IN
  /\ At("history", "apply")
  /\ \/ /\ ~chks[i].existed \/ chks[i].content # Absent
        /\ disk' = [disk EXCEPT ![f] = chks[i].content]
        /\ Set("history", [Ended("history") EXCEPT !.done = @ \cup {f}])
     \/ UNCHANGED disk /\ Fail("history")
  /\ UNCHANGED <<trash, ops, chks, pruning, faults, pruned>>

-----------------------------------------------------------------------------
(* Opening a project prunes what is days old, so nothing that an operation  *)
(* under way has taken; the payload goes before the metadata.              *)

OpenProject(k) ==
  /\ faults < MaxFaults /\ pruning.upto = 0
  /\ \A a \in Actors : At(a, "idle") \/ k <= op[a].since
  /\ faults' = faults + 1 /\ pruning' = [upto |-> k, at |-> 0]
  /\ UNCHANGED <<disk, trash, ops, chks, op, pruned>>

\* The session's checkpoints leave the history file by file.
Forgotten(i) == IF chks[i].session = "run" THEN {chks[i].file} ELSE {}

PrunePayload(i) ==
  /\ pruning.at = 0 /\ i <= pruning.upto /\ i \in Listed
  /\ chks' = [chks EXCEPT ![i].content = Absent]
  /\ pruning' = [pruning EXCEPT !.at = i]
  /\ pruned' = pruned \cup Forgotten(i)
  /\ UNCHANGED <<disk, trash, ops, op, faults>>
PruneMetadata ==
  /\ pruning.at # 0
  /\ chks' = [chks EXCEPT ![pruning.at].listed = FALSE]
  /\ pruning' = [pruning EXCEPT !.at = 0]
  /\ UNCHANGED <<disk, trash, ops, op, faults, pruned>>
PruneEnds ==
  /\ pruning.upto # 0 /\ pruning.at = 0 /\ \A i \in Listed : i > pruning.upto
  /\ pruning' = [upto |-> 0, at |-> 0]
  /\ UNCHANGED <<disk, trash, ops, chks, op, faults, pruned>>

\* The program dies: what was not listed stays an orphan.
Crash ==
  /\ faults < MaxFaults
  /\ faults' = faults + 1
  /\ op' = [a \in Actors |-> Idle] /\ pruning' = [upto |-> 0, at |-> 0]
  /\ UNCHANGED <<disk, trash, ops, chks, pruned>>

-----------------------------------------------------------------------------
Step ==
  \/ \E f \in Files :
       \/ AgentWrites(f)
       \/ \E e \in {Absent, disk[f]} : EditorSaves(f, e)
       \/ EditorDeletes(f)
       \/ \E g \in Files : EditorRenames(f, g)
       \/ Outside(f)
  \/ \E a \in Actors : Snapshot(a) \/ Metadata(a) \/ Recheck(a) \/ Replace(a) \/ Trash(a)
  \/ CheckLoaded \/ Revert \/ RevertEnds \/ PutBack
  \/ \E i \in 1 .. Len(chks) : Restore(i) \/ NextFile(i) \/ PrunePayload(i) \/ OpenProject(i)
  \/ PruneMetadata \/ PruneEnds \/ Crash

\* History: which contents f had while the session's first operation on it,
\* the one whose checkpoint a revert goes back to, was under way.
Touched(f) == \E i \in OfSession("run") : chks[i].file = f
Underway(f) == op["agent"].pc # "idle" /\ op["agent"].file = f
\* The session's first write to f takes it for new and finds it created since.
LosesRace(f) ==
  /\ At("agent", "recheck") /\ At("agent", "meta")'
  /\ op["agent"].file = f /\ op["agent"].chk \in Earliest(OfSession("run"))
Watch ==
  /\ window' = [f \in Files |->
       IF Touched(f) \/ f \in pruned THEN window[f]
       ELSE IF Underway(f)' THEN window[f] \cup {disk'[f]}
       ELSE IF Touched(f)' THEN window[f] ELSE {}]
  /\ raced' = raced \cup {f \in Files : LosesRace(f)}

Next == Step /\ Watch
Spec == Init /\ [][Next]_vars

-----------------------------------------------------------------------------
(* Properties.                                                             *)

\* a's step replaces or removes what is in f.
Replaces(a, f) == At(a, "apply") /\ op[a].file = f /\ disk'[f] # disk[f]

\* "blind last-writer-wins would silently destroy their work" (io.rs), "the
\* revert itself stays undoable" (history.rs): whoever replaces or removes a
\* content that was at the path when it last looked - a tool, a save, a
\* deletion, a revert, a restore - leaves it in the history, in the trash or in
\* another file, whatever else happens meanwhile and even after crashes.
NothingDestroyed ==
  [][\A a \in Actors, f \in Files :
       Replaces(a, f) /\ Exists(f) /\ disk[f] = op[a].found => disk[f] \in Recoverable']_vars

\* A revert puts f back.
Reverts(f) ==
  op["history"].kind = "revert" /\ f \in op'["history"].done \ op["history"].done

\* The revert of a session takes f back to what it was before the session's
\* first edit of it: to a content it had while that edit was under way, and not
\* to one between two edits.  Two kinds of files are left out.  Pruning the
\* first checkpoint of the session and not the later ones breaks this; and a
\* file whose creation race the session's first write lost goes back to Absent,
\* which is before the other writer's content and not the session's start: see
\* LostRaceSparesFile.
RevertReturnsToStart ==
  [][\A f \in Files :
       Reverts(f) /\ f \notin pruned \cup raced => disk'[f] \in window[f]]_vars

\* io.rs 236-239 says of a lost creation race: "a later revert would DELETE
\* their file - record a real content checkpoint of THEIR bytes instead".  It is
\* recorded as well, not instead, and revert_session takes the earliest: the
\* revert removes the other writer's file, even with their bytes in the history
\* it lists.
TheirBytes(f) == {i \in OfSession("run") : chks[i].file = f /\ chks[i].content # Absent}
LostRaceSparesFile ==
  [][\A f \in Files :
       /\ Reverts(f) /\ f \in raced \ pruned /\ At("agent", "idle")
       /\ \E i \in TheirBytes(f) : i <= op["history"].since
       => disk'[f] # Absent]_vars

\* A file the agent changed is known to its session: it has a readable
\* checkpoint by the time the content changes, so a revert never reports
\* "nothing to revert" for it, not even after a crash.
EditsAreRevertible ==
  [][\A f \in Files : Replaces("agent", f) => Touched(f)' \/ f \in pruned']_vars

=============================================================================
