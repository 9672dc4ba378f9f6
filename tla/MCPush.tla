------------------------------- MODULE MCPush -------------------------------
(***************************************************************************)
(* Instances of Push: a note and two versions of one head that match the   *)
(* stream's filter, and a note that does not.  Two small records fit into  *)
(* one request; the larger head only goes alone.  Numerals have base 2, so *)
(* that positions of two digits occur.                                     *)
(***************************************************************************)
EXTENDS Push

CONSTANTS alice, d0

Ev(id, kind, at) ==
  [id |-> id, author |-> alice, kind |-> kind, d |-> d0, created_at |-> at]

Note    == Ev(1, 1, 5)
HeadOld == Ev(2, 30700, 5)
HeadNew == Ev(3, 30700, 6)
Private == Ev(4, 1, 5)

MCEvents   == {Note, HeadOld, HeadNew, Private}
MCExported == {Note, HeadOld, HeadNew}
MCAuthors  == {alice}
MCTags     == {d0}
MCOthers   == {HeadNew}
MCPolicies == {{}, {HeadNew}, {Note}}
MCSize     == [e \in MCEvents |-> IF e = HeadNew THEN 9 ELSE 2]
=============================================================================
