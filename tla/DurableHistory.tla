--------------------------- MODULE DurableHistory ---------------------------
(***************************************************************************)
(* What a portable relay journal promises its clients                      *)
(* (specs/architecture/portable-relay-boundary.md, "Event journal"): a set *)
(* of events that is recoverable whatever happens, which only grows, and a *)
(* set of acknowledged events that never gets ahead of it.                 *)
(***************************************************************************)
CONSTANT Events

VARIABLES stable,        \* events that every restart recovers
          acknowledged   \* events whose submitter was told "stored"

Init == stable = {} /\ acknowledged = {}

(***************************************************************************)
(* A durability barrier may make more events stable than the one that is   *)
(* acknowledged behind it.                                                 *)
(***************************************************************************)
Commit ==
  /\ stable' \in SUBSET Events /\ stable \subseteq stable'
  /\ acknowledged' \in SUBSET stable' /\ acknowledged \subseteq acknowledged'

Spec == Init /\ [][Commit]_<<stable, acknowledged>>
=============================================================================
