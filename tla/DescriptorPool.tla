---------------------------- MODULE DescriptorPool ----------------------------
(***************************************************************************)
(* What the descriptor store promises to the operations and the drivers:   *)
(* a set of tracked descriptors that grows by descriptors the operations   *)
(* open, that is emptied as a whole by closing all of it, and that leaves  *)
(* every other open descriptor of the process alone.  Nothing is said of   *)
(* limits, cursors, counters or replacement; FdPool shows that the store   *)
(* of fdstore.c keeps this promise with all of those.                      *)
(***************************************************************************)
CONSTANTS
  Own          (* descriptors the process has from the start                *)

VARIABLES
  live,        (* the store is set up                                       *)
  tracked,     (* the descriptors it will close                             *)
  open         (* the open descriptors of the process                       *)

vars == <<live, tracked, open>>

Init ==
  /\ live = FALSE
  /\ tracked = {}
  /\ open = Own

SetUp ==
  /\ ~live
  /\ live' = TRUE
  /\ UNCHANGED <<tracked, open>>

(* An operation may open descriptors, and may close or replace what is     *)
(* tracked, but what is open and untracked stays so.                       *)
Operate ==
  /\ live
  /\ tracked \subseteq tracked'
  /\ open \ tracked \subseteq open' \ tracked'
  /\ UNCHANGED live

(* closeall, and destroy, after which the store is not live any more.      *)
Clear ==
  /\ live
  /\ open' = open \ tracked
  /\ tracked' = {}
  /\ live' \in BOOLEAN

Next == SetUp \/ Operate \/ Clear

Spec == Init /\ [][Next]_vars

=============================================================================
