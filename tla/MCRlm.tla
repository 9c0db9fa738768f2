------------------------------- MODULE MCRlm -------------------------------
(* The two halves of the RLM's persistence, the live kernel and the cache   *)
(* on disk: every behaviour of this model exercises one of them.            *)
EXTENDS RlmKernel, RlmCache, TLC

VARIABLE part

MCInit == KInit /\ CInit /\ part \in {"kernel", "cache"}
KernelStep == part = "kernel" /\ KNext /\ UNCHANGED cvars
CacheStep == part = "cache" /\ CNext /\ UNCHANGED kvars
MCNext == (KernelStep \/ CacheStep) /\ UNCHANGED part

\* Tools and projects are interchangeable; the properties are safety.
Symmetry == Permutations(Tools) \cup Permutations(Projects)

MCSpec == MCInit /\ [][MCNext]_<<kvars, cvars, part>>
=============================================================================
