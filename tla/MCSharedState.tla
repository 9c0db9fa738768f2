--------------------------- MODULE MCSharedState ---------------------------
(***************************************************************************)
(* What the commands of the program share, for TLC: the registries of runs *)
(* and requests, the cancel flag, the stored hub session and the loopback  *)
(* server.  They have no variable in common, so every behaviour of this    *)
(* model exercises one of them.  The registry uses a flag for what         *)
(* CancelFlag shows: a wait on it returns once it is set.  Run ids are     *)
(* interchangeable, so one of the runs may be given a fixed one; this      *)
(* halves the state space and, unlike a SYMMETRY, is sound for liveness.   *)
(***************************************************************************)
EXTENDS RunRegistry, CancelFlag, HubSession, AuthLoopback

VARIABLE part

all == <<vars, flagVars, hubVars, lvars, part>>

MCInit ==
  /\ Init /\ FlagInit /\ HubInit /\ LInit
  /\ rid[CHOOSE r \in Runs : TRUE] = CHOOSE i \in RunIds : TRUE
  /\ part \in {"registry", "flag", "session", "loopback"}
  /\ part # "session" => file = Gone /\ keychain = Gone
  /\ part # "registry" => \A r, o \in Runs : rid[r] = rid[o]

RegistryStep == part = "registry" /\ Next /\ UNCHANGED <<flagVars, hubVars, lvars>>
FlagStep == part = "flag" /\ FlagNext /\ UNCHANGED <<vars, hubVars, lvars>>
SessionStep == part = "session" /\ HubNext /\ UNCHANGED <<vars, flagVars, lvars>>
LoopbackStep == part = "loopback" /\ LNext /\ UNCHANGED <<vars, flagVars, hubVars>>
MCNext == (RegistryStep \/ FlagStep \/ SessionStep \/ LoopbackStep) /\ UNCHANGED part

\* No part's fair actions are enabled in the others' behaviours.
MCFairSpec == MCInit /\ [][MCNext]_all /\ FlagFairness /\ LFairness

=============================================================================
