---------------------------- MODULE MCEventStore ----------------------------
(***************************************************************************)
(* Instances of EventStore.  The events are a regular note, two versions   *)
(* of one parameterized address with the same timestamp (the smaller id    *)
(* wins), an ephemeral event and an event that does not verify.            *)
(***************************************************************************)
EXTENDS EventStore, TLC

CONSTANTS alice, d0, c1, c2

Ev(id, kind, at) ==
  [id |-> id, author |-> alice, kind |-> kind, d |-> d0, created_at |-> at]

Note    == Ev(1, 1, 5)
HeadA   == Ev(2, 30700, 5)
HeadB   == Ev(3, 30700, 5)
Signal  == Ev(4, 20001, 5)
Forged  == Ev(5, 1, 5)

MCEvents  == {Note, HeadA, HeadB, Signal, Forged}
MCValid   == MCEvents \ {Forged}
MCDurable == {Note, HeadA, HeadB}
MCAuthors == {alice}
MCTags    == {d0}
MCClients == {c1, c2}

ClientSymmetry == Permutations(MCClients)
=============================================================================
