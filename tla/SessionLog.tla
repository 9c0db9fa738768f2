------------------------------ MODULE SessionLog ------------------------------
(***************************************************************************)
(* What the file of one chat session promises to the commands that append  *)
(* to it, whatever overlaps, folds old turns or dies on the way: appends   *)
(* take effect one after the other, in the order in which they return, at  *)
(* the end of what is there; nothing else is put in, reordered or taken    *)
(* out; until the session is deleted, after which nothing is promised.     *)
(* There is no lock, no buffer, no folding and no crash here: an           *)
(* implementation has to hide them.                                        *)
(***************************************************************************)
EXTENDS Sequences

CONSTANT Entries   \* what commands may append

VARIABLES
  log,        \* what was appended, in order
  returned,   \* entries whose append has returned
  gone        \* the session was deleted

logVars == <<log, returned, gone>>

Init == log = <<>> /\ returned = {} /\ gone = FALSE

Record(m) ==
  /\ ~gone
  /\ log' = Append(log, m) /\ returned' = returned \cup {m}
  /\ UNCHANGED gone

Remove ==
  /\ ~gone /\ gone' = TRUE
  /\ log' = <<>> /\ returned' = {}

Next == Remove \/ \E m \in Entries : Record(m)

Spec == Init /\ [][Next]_logVars

=============================================================================
