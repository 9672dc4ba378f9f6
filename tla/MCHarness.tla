----------------------------- MODULE MCHarness -----------------------------
(***************************************************************************)
(* Instances of Harness: the second event is older than the first, as a    *)
(* relay replays stored events newest first.                               *)
(***************************************************************************)
EXTENDS Harness, TLC

MCCreated == [e \in 1..MaxEvents |-> IF e = 1 THEN 2 ELSE e - 1]
ChannelSymmetry == Permutations(Channels)
=============================================================================
