------------------------------ MODULE RlmCache --------------------------------
(***************************************************************************)
(* The research cache of a project: the last verified brief with the       *)
(* manifest of the tree it was made on.  A run loads it, walks the tree,   *)
(* compares the two manifests and decides: Sufficiency (reuse the brief),  *)
(* Incremental (reuse it and look at what changed) or Fresh.  Its research *)
(* then reads files while the user edits them, and if the verifier accepts *)
(* the brief, seven files are replaced one after the other.                *)
(*                                                                         *)
(* A file's content is the stamp of its last write; 0 means no such file.  *)
(* Size, times and hash change with it.  Files outside Tracked are those   *)
(* the walk skips: ignored ones, heavy directories, large files.  Runs are *)
(* numbered, and a part of the cache is the number of the run it is from.  *)
(***************************************************************************)
EXTENDS Naturals, FiniteSets, Sequences

CONSTANTS
  Files, Tracked,
  Runs,         \* bound: runs 1 .. Runs
  MaxWrites,    \* bound: stamps of the user's edits
  MaxLive,      \* bound: runs of the project at one time
  MaxAge,       \* MAX_BRIEF_AGE_DAYS
  MaxTime,      \* bound: the clock
  RatioNum, RatioDen  \* CHANGED_RATIO_THRESHOLD

ASSUME CacheAssumption ==
  /\ Tracked \subseteq Files /\ MaxWrites \in Nat \ {0} /\ RatioDen \in Nat \ {0}
  /\ Runs \in Nat /\ {MaxLive, MaxAge, MaxTime, RatioNum} \subseteq Nat

VARIABLES
  tree, writes, now,
  run,          \* what each run has read and decided
  begun,        \* runs begun
  disk          \* the parts of the cache in the order save() writes them

cvars == <<tree, writes, now, run, begun, disk>>

Parts == <<"meta", "manifest", "brief", "audit", "digest", "inventory">>
Off == [pc |-> "off"]
NoCache == [i \in 1..Len(Parts) |-> 0]

CInit ==
  /\ tree = [f \in Files |-> 1] /\ writes = 1 /\ now = 0
  /\ run = [n \in 1..Runs |-> Off] /\ begun = 0
  /\ disk = NoCache

-----------------------------------------------------------------------------
(* The decision                                                            *)

\* build_manifest: the tracked files that exist
Manifest == [f \in Tracked |-> tree[f]]
Present(m) == {f \in Tracked : m[f] # 0}

\* diff_manifest
Modified(old, new) == {f \in Present(old) \cap Present(new) : old[f] # new[f]}
Removed(old, new) == Present(old) \ Present(new)
Changed(old, new) ==
  Modified(old, new) \cup Removed(old, new) \cup (Present(new) \ Present(old))
AboveThreshold(old, new) ==
  Cardinality(Changed(old, new)) * RatioDen > RatioNum * Cardinality(Present(new))

\* The key files of the brief are its anchors.
AnchorMoved(anchors, old, new) ==
  anchors \cap (Modified(old, new) \cup Removed(old, new)) # {}

\* classify_cache_state.  A tree with no file left has a ratio of 0.
Classify(cached, m) ==
  LET old == run[cached[2]].manifest
      brief == run[cached[3]].seen
  IN
  IF \E i \in 1..4 : cached[i] = 0 THEN "fresh"
  ELSE IF now - run[cached[2]].at > MaxAge THEN "fresh"
  ELSE IF Present(m) # {} /\ AboveThreshold(old, m) THEN "fresh"
  ELSE IF AnchorMoved(DOMAIN brief, old, m) THEN "fresh"
  ELSE IF Changed(old, m) = {} THEN "sufficiency" ELSE "incremental"

-----------------------------------------------------------------------------
(* A run                                                                   *)

Live == {n \in 1..begun : run[n].pc # "over"}

\* What later runs can find of a run that is over is its research.
Over(r) == [r EXCEPT !.pc = "over", !.cached = NoCache, !.decision = "fresh", !.next = 1]

\* History: the manifest and the brief are of one run, and so were those that
\* run started from.
Matched(cached) == cached[2] = cached[3] /\ run[cached[3]].matched

NothingSeen == [f \in {} |-> 0]

\* load, build_manifest, diff and classify; the walk may fail.
Decide(n) ==
  /\ n = begun + 1 /\ begun' = n /\ Cardinality(Live) < MaxLive
  /\ \E walked \in BOOLEAN :
       LET d == IF walked THEN Classify(disk, Manifest) ELSE "fresh" IN
       run' = [run EXCEPT ![n] =
         [pc |-> "research", manifest |-> Manifest, walked |-> walked, at |-> now,
          decision |-> d, cached |-> disk, matched |-> d = "fresh" \/ Matched(disk),
          seen |-> NothingSeen, next |-> 1]]
  /\ UNCHANGED <<tree, writes, now, disk>>

With(seen, f, v) == [g \in DOMAIN seen \cup {f} |-> IF g = f THEN v ELSE seen[g]]

\* The research opens a file; it becomes an anchor of the brief.
Reads(n, f) ==
  /\ run[n].pc = "research" /\ tree[f] # 0 /\ f \notin DOMAIN run[n].seen
  /\ run' = [run EXCEPT ![n].seen = With(@, f, tree[f])]
  /\ UNCHANGED <<tree, writes, now, begun, disk>>

\* The files that the model was told have not changed.
Vouched(n) ==
  LET old == run[run[n].cached[2]].manifest
  IN  DOMAIN run[run[n].cached[3]].seen \ Changed(old, run[n].manifest)

\* The prior brief is the prompt of a sufficiency or incremental round: the
\* model takes an unchanged anchor over without opening it.
TakesOver(n, f) ==
  /\ run[n].pc = "research" /\ run[n].decision # "fresh"
  /\ f \in Vouched(n) \ DOMAIN run[n].seen
  /\ LET prior == run[run[n].cached[3]] IN
     run' = [run EXCEPT ![n].seen = With(@, f, prior.seen[f])]
  /\ UNCHANGED <<tree, writes, now, begun, disk>>

\* Mutant: the tree is walked when the research is over.
ManifestAfterResearch(n) == Manifest

\* The manifest that is saved is the one taken before the research.
ManifestToSave(n) == run[n].manifest

\* The verifier's last audit: only a complete one is saved, and only when there
\* is a manifest.
Audit(n, complete) ==
  /\ run[n].pc = "research" /\ DOMAIN run[n].seen # {}
  /\ run' = [run EXCEPT ![n] =
       IF complete /\ run[n].walked
       THEN [@ EXCEPT !.pc = "save", !.manifest = ManifestToSave(n)] ELSE Over(@)]
  /\ UNCHANGED <<tree, writes, now, begun, disk>>

\* save: one atomic replacement after the other
SavesPart(n) ==
  LET i == run[n].next IN
  /\ run[n].pc = "save"
  /\ disk' = [disk EXCEPT ![i] = n]
  /\ run' = [run EXCEPT ![n] = IF i = Len(Parts) THEN Over(@) ELSE [@ EXCEPT !.next = i + 1]]
  /\ UNCHANGED <<tree, writes, now, begun>>

\* A write fails: a warning, and the rest is left as it is.
SaveFails(n) ==
  /\ run[n].pc = "save" /\ run' = [run EXCEPT ![n] = Over(@)]
  /\ UNCHANGED <<tree, writes, now, begun, disk>>

\* The process ends; the files that were replaced stay.
CrashRuns ==
  /\ Live # {}
  /\ run' = [n \in 1..Runs |-> IF n \in Live THEN Over(run[n]) ELSE run[n]]
  /\ UNCHANGED <<tree, writes, now, begun, disk>>

-----------------------------------------------------------------------------
(* The user, and the clock                                                 *)

Edits(f) ==
  /\ writes < MaxWrites /\ writes' = writes + 1
  /\ tree' = [tree EXCEPT ![f] = writes + 1]
  /\ UNCHANGED <<now, run, begun, disk>>

Deletes(f) ==
  /\ tree[f] # 0 /\ writes < MaxWrites /\ writes' = writes + 1
  /\ tree' = [tree EXCEPT ![f] = 0]
  /\ UNCHANGED <<now, run, begun, disk>>

Tick ==
  /\ now < MaxTime /\ now' = now + 1
  /\ UNCHANGED <<tree, writes, run, begun, disk>>

CNext ==
  \/ \E n \in 1..Runs :
       \/ Decide(n) \/ SavesPart(n) \/ SaveFails(n)
       \/ \E f \in Files : Reads(n, f) \/ TakesOver(n, f)
       \/ \E complete \in BOOLEAN : Audit(n, complete)
  \/ CrashRuns
  \/ \E f \in Files : Edits(f) \/ Deletes(f)
  \/ Tick

CSpec == CInit /\ [][CNext]_cvars

-----------------------------------------------------------------------------
(* Properties                                                              *)

\* Types.  What a run has seen is a partial function of the files.
Seen == UNION {[S -> 0..MaxWrites] : S \in SUBSET Files}
Run == [pc : {"research", "save", "over"}, manifest : [Tracked -> Nat], walked : BOOLEAN,
        at : Nat, decision : {"fresh", "incremental", "sufficiency"},
        cached : [1..Len(Parts) -> Nat], matched : BOOLEAN, seen : Seen, next : 1..Len(Parts)]
CTypeOK ==
  /\ tree \in [Files -> 0..MaxWrites] /\ writes \in 1..MaxWrites /\ now \in Nat
  /\ begun \in 0..Runs /\ disk \in [1..Len(Parts) -> 0..Runs]
  /\ run \in [1..Runs -> {Off} \cup Run] /\ \A n \in 1..Runs : run[n] \in Run <=> n <= begun

\* A run that reuses a brief, with the manifest saved beside it, is not misled by
\* an anchor that exists: what the earlier research saw of it, or took over from
\* a still earlier one, is what the tree holds now, or it is in the list of changes
\* that the model is given.  This holds whenever the file was edited: before the
\* walk, between the walk and the read, after the read, while the cache was saved
\* (classify_cache_state, swarm.rs Phase 0).
ReusedBriefIsCurrent ==
  \A n \in 1..begun :
    LET m == run[n].cached[3] IN
    run[n].decision # "fresh" /\ run[n].matched =>
      \A f \in DOMAIN run[m].seen \cap Tracked :
        \/ run[n].manifest[f] \in {0, run[m].seen[f]}
        \/ f \in Changed(run[m].manifest, run[n].manifest)

=============================================================================
