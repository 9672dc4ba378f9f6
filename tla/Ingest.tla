------------------------------- MODULE Ingest -------------------------------
(***************************************************************************)
(* The portable event kernel (crates/buzz-core/src/ingest.rs): how a       *)
(* verified event is classified and decided against the effective state,   *)
(* and how a stored event changes that state.                              *)
(*                                                                         *)
(* An event is a record of the fields the kernel reads.  Its id stands for *)
(* the hexadecimal event ID, which the code only compares: a natural       *)
(* number ordered as the hexadecimal text is.  The effective events, a     *)
(* vector in the code that every query sorts, are a set.                   *)
(***************************************************************************)
EXTENDS Integers

CONSTANTS Authors,  \* public keys
          Tags,     \* values of the d tag, the empty identifier included
          Events    \* the signed events of an instance

(***************************************************************************)
(* An event ID is the hash of the event, so it determines the event.       *)
(***************************************************************************)
ASSUME EventsAssumption ==
  /\ Events \subseteq [id : Nat, author : Authors, kind : Nat,
                       d : Tags, created_at : Nat]
  /\ \A e \in Events : e.kind < 65536
  /\ \A e, f \in Events : e.id = f.id => e = f

is_ephemeral_kind(kind) == kind >= 20000 /\ kind < 30000

IsReplaceableKind(kind) ==
  kind = 0 \/ kind = 3 \/ (kind >= 10000 /\ kind < 20000)

IsParameterizedKind(kind) == kind >= 30000 /\ kind < 40000

(***************************************************************************)
(* replacement_key returns Some key for the two replaceable ranges.  Two   *)
(* events compete when both have a key and the keys are equal: same        *)
(* author, same kind, and for parameterized kinds the same d tag.          *)
(***************************************************************************)
HasReplacementKey(e) == IsReplaceableKind(e.kind) \/ IsParameterizedKind(e.kind)

SameReplacementKey(e, f) ==
  /\ HasReplacementKey(e)
  /\ e.author = f.author
  /\ e.kind = f.kind
  /\ IsParameterizedKind(e.kind) => e.d = f.d

classify_event(e) ==
  CASE is_ephemeral_kind(e.kind) -> "Ephemeral"
    [] ~is_ephemeral_kind(e.kind) /\ HasReplacementKey(e) -> "Replaceable"
    [] OTHER -> "Regular"

replacement_candidate_wins(candidate, current) ==
  \/ candidate.created_at > current.created_at
  \/ /\ candidate.created_at = current.created_at
     /\ candidate.id < current.id

(***************************************************************************)
(* The effective events that hold the candidate's replacement key.  The    *)
(* code takes the first of them; the invariant EffectiveIsWinners of the   *)
(* store says that there is never a second.                                *)
(***************************************************************************)
Holders(effective, candidate) ==
  {f \in effective : SameReplacementKey(candidate, f)}

decide_event(effective, previously_accepted, candidate) ==
  IF previously_accepted \/ candidate \in effective THEN "Duplicate"
  ELSE IF classify_event(candidate) = "Ephemeral" THEN "Ephemeral"
  ELSE IF \A f \in Holders(effective, candidate) :
            replacement_candidate_wins(candidate, f) THEN "Stored"
  ELSE "Superseded"

\* Mutant: the candidate is applied without being decided again.
apply_effective_event_Blind(effective, candidate) ==
  (effective \ Holders(effective, candidate)) \cup {candidate}

apply_effective_event(effective, candidate) ==
  IF decide_event(effective, FALSE, candidate) = "Stored"
  THEN (effective \ Holders(effective, candidate)) \cup {candidate}
  ELSE effective

(***************************************************************************)
(* The reference the kernel is measured against: what NIP-01 says is       *)
(* effective in a set of durable events, whatever the order they arrived   *)
(* in.  Each replacement key shows the one event that no other event of    *)
(* the key beats; every regular event shows.                               *)
(***************************************************************************)
Winners(S) ==
  {e \in S : /\ ~is_ephemeral_kind(e.kind)
             /\ \A f \in Holders(S, e) : f # e => replacement_candidate_wins(e, f)}

(***************************************************************************)
(* An event is covered by an effective set that shows it or shows a winner *)
(* of its replacement key.                                                 *)
(***************************************************************************)
Covered(e, effective) ==
  \/ e \in effective
  \/ \E f \in Holders(effective, e) : replacement_candidate_wins(f, e)
=============================================================================
