----------------------------- MODULE Push_proofs -----------------------------
(***************************************************************************)
(* Proofs about buzz-relay-push, for every set of events, every page and   *)
(* request limit, and any number of crashes, failed requests and changes   *)
(* of the destination's policy.                                            *)
(*                                                                         *)
(* Control is what the process knows about its own page: the cursor in     *)
(* memory is the one in the file, and what it posted, what is safe and     *)
(* what is left of the page lie in that order between the cursor and the   *)
(* page's end.  It holds whatever the source log loses.  Delivery relates  *)
(* this to the destination: each position the process may write to its     *)
(* cursor file passes only records that the destination has.  It needs a   *)
(* source that keeps the lines it has exported.                            *)
(***************************************************************************)
EXTENDS Push, FiniteSetTheorems, NaturalsInduction, WellFoundedInduction, TLAPS

InPage == \/ pc = "sending" \/ pc = "waiting"
          \/ pc = "persisting" /\ after = "sending"

\* A stopped process has no memory.
Reset ==
  pc = "stopped" => /\ view = <<>> /\ todo = {} /\ request = {} /\ safe = {}
                    /\ rejected = FALSE

CursorKept ==
  /\ pc # "stopped" => cursor = file
  /\ pc \in {"sending", "waiting", "persisting"} => cursor # Garbled

\* Only a request in flight has unhandled records, and a rejection ends it.
RequestOK ==
  /\ pc # "waiting" => request = {}
  /\ rejected => /\ request = {}
                 /\ pc = "waiting" \/ (pc = "persisting" /\ after = "stopped")

PageOK ==
  InPage => /\ Position <= end /\ end <= Len(view)
            /\ \A p \in todo \cup request : Position < p /\ p <= end

SendingOK == pc = "sending" => todo # {}

WaitingOK ==
  pc = "waiting" =>
    /\ \A p \in safe : Position < p /\ p <= end
    /\ \A p \in request \cup safe, q \in todo : p < q
    /\ request \cup safe # {} \/ rejected

PersistingOK ==
  pc = "persisting" =>
    /\ file <= target
    /\ after = "sending" => /\ todo # {} /\ target <= end
                            /\ \A q \in todo : target < q

Control ==
  /\ TypeOK /\ Reset /\ CursorKept /\ RequestOK /\ PageOK
  /\ SendingOK /\ WaitingOK /\ PersistingOK
-----------------------------------------------------------------------------
(***************************************************************************)
(* What push needs of the destination's event kernel: what shows there, or *)
(* is beaten there, stays so, and an accepted event is one or the other.   *)
(***************************************************************************)

(***************************************************************************)
(* replacement_candidate_wins orders the events strictly and totally:      *)
(* equal timestamps fall back to the event ID, which is unique.            *)
(***************************************************************************)
LEMMA WinsTotal ==
  ASSUME NEW e \in Events, NEW f \in Events, e # f
  PROVE  replacement_candidate_wins(e, f) <=> ~replacement_candidate_wins(f, e)
<1>1. /\ e.created_at \in Nat /\ f.created_at \in Nat
      /\ e.id \in Nat /\ f.id \in Nat
  BY EventsAssumption
<1>2. e.id # f.id
  BY EventsAssumption
<1> QED
  BY <1>1, <1>2 DEF replacement_candidate_wins

\* The winner order of replacement_candidate_wins is transitive.
LEMMA WinsTransitive ==
  ASSUME NEW e \in Events, NEW f \in Events, NEW g \in Events,
         replacement_candidate_wins(e, f), replacement_candidate_wins(f, g)
  PROVE  replacement_candidate_wins(e, g)
<1>1. /\ e.created_at \in Nat /\ f.created_at \in Nat /\ g.created_at \in Nat
      /\ e.id \in Nat /\ f.id \in Nat /\ g.id \in Nat
  BY EventsAssumption
<1> QED
  BY <1>1 DEF replacement_candidate_wins

(***************************************************************************)
(* Having the same replacement key is symmetric and transitive.            *)
(***************************************************************************)
LEMMA KeySymmetric ==
  ASSUME NEW e, NEW f, SameReplacementKey(e, f)
  PROVE  SameReplacementKey(f, e)
BY DEF SameReplacementKey, HasReplacementKey

\* Having the same replacement key is transitive.
LEMMA KeyTransitive ==
  ASSUME NEW e, NEW f, NEW g, SameReplacementKey(e, f), SameReplacementKey(f, g)
  PROVE  SameReplacementKey(e, g)
BY DEF SameReplacementKey, HasReplacementKey

(***************************************************************************)
(* decide_event without a previously accepted id, as the conditions that   *)
(* the proofs use.                                                         *)
(***************************************************************************)
LEMMA DecideStoredIff ==
  ASSUME NEW S, NEW e
  PROVE  decide_event(S, FALSE, e) = "Stored" <=>
           /\ e \notin S
           /\ ~is_ephemeral_kind(e.kind)
           /\ \A f \in Holders(S, e) : replacement_candidate_wins(e, f)
<1>1. classify_event(e) = "Ephemeral" <=> is_ephemeral_kind(e.kind)
  <2>1. CASE is_ephemeral_kind(e.kind)
    BY <2>1 DEF classify_event
  <2>2. CASE ~is_ephemeral_kind(e.kind) /\ HasReplacementKey(e)
    BY <2>2 DEF classify_event
  <2>3. CASE ~is_ephemeral_kind(e.kind) /\ ~HasReplacementKey(e)
    BY <2>3 DEF classify_event
  <2> QED
    BY <2>1, <2>2, <2>3
<1> QED
  BY <1>1 DEF decide_event

(***************************************************************************)
(* What is covered stays covered: an event only gives way to a winner of   *)
(* its key.                                                                *)
(***************************************************************************)
LEMMA CoveredStays ==
  ASSUME NEW E \in SUBSET Events, NEW e \in Events, NEW x \in Events,
         Covered(x, E)
  PROVE  Covered(x, apply_effective_event(E, e))
<1> DEFINE F == apply_effective_event(E, e)
<1>1. CASE decide_event(E, FALSE, e) # "Stored"
  BY <1>1 DEF apply_effective_event
<1>2. CASE decide_event(E, FALSE, e) = "Stored"
  <2>1. F = (E \ Holders(E, e)) \cup {e}
    BY <1>2 DEF apply_effective_event
  <2>2. \A f \in Holders(E, e) : replacement_candidate_wins(e, f)
    BY <1>2, DecideStoredIff
  <2>3. CASE x \in E
    <3>1. CASE x \in Holders(E, e)
      <4>1. SameReplacementKey(x, e)
        BY <3>1, KeySymmetric DEF Holders
      <4> QED
        BY <4>1, <3>1, <2>1, <2>2 DEF Covered, Holders
    <3> QED
      BY <3>1, <2>1, <2>3 DEF Covered
  <2>4. ASSUME NEW h \in Holders(E, x), replacement_candidate_wins(h, x)
        PROVE  Covered(x, F)
    <3>1. h \in Events /\ SameReplacementKey(x, h)
      BY DEF Holders
    <3>2. CASE h \in Holders(E, e)
      <4>1. replacement_candidate_wins(e, h) /\ SameReplacementKey(h, e)
        BY <3>2, <2>2, KeySymmetric DEF Holders
      <4>2. replacement_candidate_wins(e, x) /\ SameReplacementKey(x, e)
        BY <4>1, <3>1, <2>4, WinsTransitive, KeyTransitive
      <4> QED
        BY <4>2, <2>1 DEF Covered, Holders
    <3>3. CASE h \notin Holders(E, e)
      BY <3>3, <2>1, <2>4 DEF Covered, Holders
    <3> QED
      BY <3>2, <3>3
  <2> QED
    BY <2>3, <2>4 DEF Covered
<1> QED
  BY <1>1, <1>2

(***************************************************************************)
(* Applying a durable event covers it: it becomes effective, it was, or it *)
(* lost against an effective event of its key.                             *)
(***************************************************************************)
LEMMA AppliedIsCovered ==
  ASSUME NEW E \in SUBSET Events, NEW e \in Events, ~is_ephemeral_kind(e.kind)
  PROVE  Covered(e, apply_effective_event(E, e))
<1>1. CASE decide_event(E, FALSE, e) = "Stored"
  BY <1>1 DEF apply_effective_event, Covered
<1>2. CASE decide_event(E, FALSE, e) # "Stored"
  <2>1. apply_effective_event(E, e) = E
    BY <1>2 DEF apply_effective_event
  <2>2. e \in E \/ \E f \in Holders(E, e) : ~replacement_candidate_wins(e, f)
    BY <1>2, DecideStoredIff
  <2>3. ASSUME e \notin E, NEW f \in Holders(E, e),
               ~replacement_candidate_wins(e, f)
        PROVE  Covered(e, E)
    <3>1. f \in Events /\ f # e
      BY <2>3 DEF Holders
    <3> QED
      BY <2>3, <3>1, WinsTotal DEF Covered
  <2> QED
    BY <2>1, <2>2, <2>3 DEF Covered
<1> QED
  BY <1>1, <1>2
-----------------------------------------------------------------------------
(***************************************************************************)
(* A set of positions that is not empty has a first one.                   *)
(***************************************************************************)
LEMMA FirstExists ==
  ASSUME NEW ps \in SUBSET Nat, ps # {}
  PROVE  \E p \in ps : IsFirst(p, ps)
<1>1. IsWellFoundedOn(OpToRel(<, Nat), Nat)
  BY NatLessThanWellFounded
<1>2. PICK p \in ps : \A q \in ps : ~(<<q, p>> \in OpToRel(<, Nat))
  BY <1>1, WFMin, Zenon
<1>3. \A q \in ps : ~(q < p)
  BY <1>2 DEF OpToRel
<1> QED
  BY <1>3 DEF IsFirst

(***************************************************************************)
(* split_serialized_batches takes a beginning of what is left, and never   *)
(* nothing: the first record is posted alone if it is too large.           *)
(***************************************************************************)
LEMMA NextRequestBegins ==
  ASSUME NEW ps \in SUBSET Nat, ps # {}
  PROVE  /\ NextRequest(ps) \subseteq ps
         /\ NextRequest(ps) # {}
         /\ \A p \in NextRequest(ps), q \in ps \ NextRequest(ps) : p < q
<1>1. NextRequest(ps) \subseteq ps
  BY DEF NextRequest
<1>2. NextRequest(ps) # {}
  <2>1. PICK p \in ps : IsFirst(p, ps)
    BY FirstExists
  <2>2. UpTo(ps, p) = {p}
    <3>1. p \in Nat /\ \A q \in ps : q \in Nat /\ p <= q
      BY <2>1 DEF IsFirst
    <3>2. \A q \in ps : q <= p <=> q = p
      BY <3>1
    <3> QED
      BY <3>2, Zenon DEF UpTo
  <2>3. Fits(UpTo(ps, p))
    BY <2>2, FS_Singleton DEF Fits
  <2> QED
    BY <2>2, <2>3 DEF NextRequest
<1>3. ASSUME NEW p \in NextRequest(ps), NEW q \in ps \ NextRequest(ps), ~(p < q)
      PROVE  FALSE
  <2>0. p \in Nat /\ q \in Nat /\ \A r \in ps : r \in Nat
    BY <1>1
  <2>1. q <= p
    BY <1>3, <2>0
  <2>2. UpTo(ps, q) \subseteq UpTo(ps, p)
    <3>1. \A r \in ps : r <= q => r <= p
      BY <2>0, <2>1
    <3> QED
      BY <3>1, Zenon DEF UpTo
  <2> QED
    BY <2>2 DEF NextRequest
<1> QED
  BY <1>1, <1>2, <1>3

\* What a cut-off write of persist_cursor leaves reads as no later position.
LEMMA NumeralPrefixesSmaller ==
  ASSUME NEW n \in Nat, NEW m \in CutShort(n)
  PROVE  m \in {Missing, Garbled} \/ m \in 1 .. n
BY DEF CutShort, NumeralPrefixes

(***************************************************************************)
(* The process ends: Control starts over, whatever the file says.          *)
(***************************************************************************)
LEMMA ExitControl ==
  ASSUME TypeOK, Exit, journal' \in Seq(Durable), barrier' \in 0 .. Len(journal'),
         file' \in Nat \cup {Missing, Garbled}, UNCHANGED destination,
         faults' \in 0 .. MaxFaults
  PROVE  Control'
<1>1. TypeOK'
  <2>1. view' \in Seq(Durable) /\ cursor' \in Nat \cup {Missing, Garbled}
    BY DEF Exit
  <2>2. /\ todo' \subseteq 1 .. Len(view') /\ request' \subseteq 1 .. Len(view')
        /\ safe' \subseteq 1 .. Len(view') /\ end' \in Nat /\ target' \in Nat
    BY DEF Exit
  <2>3. /\ pc' \in Steps /\ rejected' \in BOOLEAN
        /\ after' \in {"stopped", "reading", "sending"}
    BY DEF Exit, Steps
  <2> QED
    BY <2>1, <2>2, <2>3 DEF TypeOK, destination
<1>2. (Reset /\ CursorKept /\ RequestOK)'
  BY DEF Exit, Reset, CursorKept, RequestOK
<1>3. (PageOK /\ SendingOK /\ WaitingOK /\ PersistingOK)'
  BY DEF Exit, PageOK, InPage, SendingOK, WaitingOK, PersistingOK
<1> QED
  BY <1>1, <1>2, <1>3 DEF Control

\* A run that halts in persist_cursor leaves a readable cursor file.
LEMMA HaltFile ==
  ASSUME TypeOK, Halt
  PROVE  Exit /\ file' \in Nat \cup {Missing, Garbled}
BY NumeralPrefixesSmaller DEF TypeOK, Halt

\* The sink's accept keeps the types of what the destination holds.
LEMMA AcceptType ==
  ASSUME TypeOK, NEW e \in Events, AcceptAt(e)
  PROVE  effective' \subseteq Events /\ seen' \subseteq Events
BY DEF TypeOK, AcceptAt, apply_effective_event

\* Control holds before the first run of the pusher.
LEMMA ControlInit == Init => Control
<1> SUFFICES ASSUME Init PROVE Control
  OBVIOUS
<1>1. TypeOK
  <2>1. /\ journal \in Seq(Durable) /\ view \in Seq(Durable)
        /\ barrier \in 0 .. Len(journal) /\ faults \in 0 .. MaxFaults
    BY PushAssumption DEF Init
  <2>2. /\ file \in Nat \cup {Missing, Garbled}
        /\ cursor \in Nat \cup {Missing, Garbled}
    BY DEF Init
  <2>3. /\ todo \subseteq 1 .. Len(view) /\ request \subseteq 1 .. Len(view)
        /\ safe \subseteq 1 .. Len(view) /\ end \in Nat /\ target \in Nat
    BY DEF Init
  <2>4. /\ pc \in Steps /\ rejected \in BOOLEAN
        /\ after \in {"stopped", "reading", "sending"}
        /\ effective \subseteq Events /\ seen \subseteq Events
        /\ refused \subseteq Events
    BY DEF Init, Steps
  <2> QED
    BY <2>1, <2>2, <2>3, <2>4 DEF TypeOK
<1>2. Reset /\ CursorKept /\ RequestOK
  BY DEF Init, Reset, CursorKept, RequestOK
<1>3. PageOK /\ SendingOK /\ WaitingOK /\ PersistingOK
  BY DEF Init, PageOK, InPage, SendingOK, WaitingOK, PersistingOK
<1> QED
  BY <1>1, <1>2, <1>3 DEF Control

\* Every step of the pusher, the relay, the sink and the faults keeps Control.
LEMMA ControlStep == Control /\ [Next]_vars => Control'
<1> SUFFICES ASSUME Control, [Next]_vars PROVE Control'
  OBVIOUS
<1> USE DEF Control, Missing, Garbled
<1>t. TypeOK
  OBVIOUS
<1>1. ASSUME NEW e \in Durable, AppendEvent(e) PROVE Control'
  BY <1>1 DEF AppendEvent, pusher, page, save, destination, TypeOK, Reset,
     CursorKept, RequestOK, PageOK, InPage, SendingOK, WaitingOK, PersistingOK,
     Position
<1>2. CASE SyncLog
  BY <1>2 DEF SyncLog, pusher, page, save, destination, TypeOK, Reset,
     CursorKept, RequestOK, PageOK, InPage, SendingOK, WaitingOK, PersistingOK,
     Position
<1>3. CASE Start
  BY <1>3 DEF Start, source, page, save, destination, TypeOK, Reset, Steps,
     CursorKept, RequestOK, PageOK, InPage, SendingOK, WaitingOK, PersistingOK
<1>4. CASE ReadRefused
  BY <1>4, <1>t, ExitControl DEF ReadRefused, source, TypeOK
<1>5. CASE ReadPage
  <2>1. /\ Position \in Nat /\ PageEnd \in Nat
        /\ Position <= PageEnd /\ PageEnd <= Len(view)
    BY <1>5, PushAssumption DEF ReadPage, TypeOK, Position, PageEnd
  <2>2. \A p \in PageRecords : p \in Nat /\ Position < p /\ p <= PageEnd
    BY <2>1 DEF PageRecords
  <2>3. cursor = file /\ request = {} /\ rejected = FALSE
    BY <1>5 DEF ReadPage, CursorKept, RequestOK, TypeOK
  <2>4. TypeOK'
    BY <1>5, <2>1, <2>2 DEF ReadPage, NextCursor, AfterPage, TypeOK, Steps,
       source, save, destination
  <2>5. file <= PageEnd
    BY <2>1, <2>3 DEF Position, TypeOK
  <2> QED
    BY <1>5, <2>1, <2>2, <2>3, <2>4, <2>5
    DEF ReadPage, NextCursor, AfterPage, source, save, destination, Reset,
        CursorKept, RequestOK, PageOK, InPage, SendingOK, WaitingOK,
        PersistingOK, Position
<1>6. CASE Send
  <2>1. todo \subseteq Nat /\ todo # {}
    BY <1>6 DEF Send, SendingOK, TypeOK
  <2>2. /\ NextRequest(todo) \subseteq todo
        /\ NextRequest(todo) # {}
        /\ \A p \in NextRequest(todo), q \in todo \ NextRequest(todo) : p < q
    BY <2>1, NextRequestBegins
  <2> QED
    BY <1>6, <2>2 DEF Send, source, save, destination, TypeOK, Reset, Steps,
       CursorKept, RequestOK, PageOK, InPage, SendingOK, WaitingOK,
       PersistingOK, Position
<1>7. CASE RequestFails
  BY <1>7, <1>t, ExitControl, PushAssumption
  DEF RequestFails, Fault, source, TypeOK
<1>8. CASE Receive
  <2>1. CASE HaltOnRejection
    <3>1. ASSUME NEW p \in safe, PersistThen(p, "stopped") PROVE Control'
      <4>1. file <= p
        BY <1>8, <3>1 DEF Receive, WaitingOK, CursorKept, Position, TypeOK
      <4> QED
        BY <1>8, <3>1, <4>1
        DEF Receive, PersistThen, page, source, destination, TypeOK, Reset,
            Steps, CursorKept, RequestOK, PageOK, InPage, SendingOK, WaitingOK,
            PersistingOK, Position
    <3>2. CASE cursor # Missing /\ PersistThen(cursor, "stopped")
      BY <1>8, <3>2
      DEF Receive, PersistThen, page, source, destination, TypeOK, Reset,
          Steps, CursorKept, RequestOK, PageOK, InPage, SendingOK, WaitingOK,
          PersistingOK, Position
    <3>3. CASE Exit
      BY <1>8, <3>3, <1>t, ExitControl DEF Receive, source, TypeOK
    <3> QED
      BY <2>1, <3>1, <3>2, <3>3 DEF HaltOnRejection
  <2>2. ASSUME ~rejected, todo # {}, NEW p \in safe, PersistThen(p, "sending")
        PROVE  Control'
    <3>1. file <= p
      BY <1>8, <2>2 DEF Receive, WaitingOK, CursorKept, Position, TypeOK
    <3> QED
      BY <1>8, <2>2, <3>1
      DEF Receive, PersistThen, page, source, destination, TypeOK, Reset,
          Steps, CursorKept, RequestOK, PageOK, InPage, SendingOK, WaitingOK,
          PersistingOK, Position
  <2>3. CASE ~rejected /\ PersistThen(end, AfterPage(end))
    <3>1. file <= end
      BY <1>8 DEF Receive, PageOK, InPage, CursorKept, Position, TypeOK
    <3> QED
      BY <1>8, <2>3, <3>1
      DEF Receive, PersistThen, AfterPage, page, source, destination, TypeOK,
          Reset, Steps, CursorKept, RequestOK, PageOK, InPage, SendingOK,
          WaitingOK, PersistingOK, Position
  <2> QED
    BY <1>8, <2>1, <2>2, <2>3 DEF Receive
<1>9. CASE Persist
  <2>1. CASE Exit
    BY <1>9, <2>1, <1>t, ExitControl DEF Persist, source, TypeOK
  <2>2. CASE /\ after # "stopped" /\ pc' = after /\ cursor' = target
             /\ UNCHANGED <<view, page, save>>
    BY <1>9, <2>2
    DEF Persist, page, save, source, destination, TypeOK, Reset, Steps,
        CursorKept, RequestOK, PageOK, InPage, SendingOK, WaitingOK,
        PersistingOK, Position
  <2> QED
    BY <1>9, <2>1, <2>2 DEF Persist
<1>10. CASE Crash
  BY <1>10, <1>t, HaltFile, ExitControl, PushAssumption
  DEF Crash, Fault, source, TypeOK
<1>11. CASE PowerLoss
  <2>1. PICK n \in barrier .. Len(journal) : journal' = SubSeq(journal, 1, n)
    BY <1>11 DEF PowerLoss
  <2>2. n \in 0 .. Len(journal)
    BY <2>1 DEF TypeOK
  <2>3. journal' \in Seq(Durable) /\ Len(journal') = n
    BY <2>1, <2>2 DEF TypeOK
  <2>4. barrier' \in 0 .. Len(journal')
    BY <1>11, <2>1, <2>3 DEF PowerLoss, TypeOK
  <2>5. faults' \in 0 .. MaxFaults
    BY <1>11, PushAssumption DEF PowerLoss, Fault, TypeOK
  <2> QED
    BY <1>11, <1>t, <2>3, <2>4, <2>5, HaltFile, ExitControl DEF PowerLoss
<1>12. CASE IngestRecord
  <2>1. PICK p \in request :
          /\ IsFirst(p, request)
          /\ \/ /\ view[p] \notin refused
                /\ AcceptAt(view[p])
                /\ safe' = safe \cup {p}
                /\ request' = request \ {p}
                /\ UNCHANGED rejected
             \/ /\ view[p] \in refused
                /\ rejected' = TRUE
                /\ request' = {}
                /\ UNCHANGED <<effective, seen, safe>>
    BY <1>12 DEF IngestRecord
  <2>2. view[p] \in Events
    BY DEF TypeOK, Durable
  <2>3. effective' \subseteq Events /\ seen' \subseteq Events
    BY <2>1, <2>2, <1>t, AcceptType DEF TypeOK
  <2>4. TypeOK'
    BY <1>12, <2>1, <2>3 DEF IngestRecord, source, save, TypeOK
  <2> QED
    BY <1>12, <2>1, <2>4
    DEF IngestRecord, source, save, Reset, CursorKept, RequestOK, PageOK,
        InPage, SendingOK, WaitingOK, PersistingOK, Position
<1>13. ASSUME NEW e \in Others, OtherSubmit(e) PROVE Control'
  <2>1. effective' \subseteq Events /\ seen' \subseteq Events
    BY <1>13, <1>t, AcceptType, PushAssumption DEF OtherSubmit
  <2> QED
    BY <1>13, <2>1
    DEF OtherSubmit, source, pusher, page, save, TypeOK, Reset, CursorKept,
        RequestOK, PageOK, InPage, SendingOK, WaitingOK, PersistingOK, Position
<1>14. CASE PolicyChange
  BY <1>14, PushAssumption
  DEF PolicyChange, Fault, source, pusher, page, save, TypeOK, Reset,
      CursorKept, RequestOK, PageOK, InPage, SendingOK, WaitingOK,
      PersistingOK, Position
<1>15. CASE UNCHANGED vars
  BY <1>15
  DEF vars, source, pusher, page, save, destination, TypeOK, Reset, CursorKept,
      RequestOK, PageOK, InPage, SendingOK, WaitingOK, PersistingOK, Position
<1> QED
  BY <1>1, <1>2, <1>3, <1>4, <1>5, <1>6, <1>7, <1>8, <1>9, <1>10, <1>11, <1>12,
     <1>13, <1>14, <1>15 DEF Next
-----------------------------------------------------------------------------
(***************************************************************************)
(* What the destination owes the source log.  Delivered(n): it has every   *)
(* record of the stream among the first n lines.                           *)
(***************************************************************************)
Delivered(n) ==
  /\ n <= Len(journal)
  /\ \A p \in 1 .. n : journal[p] \in Exported => Covered(journal[p], effective)

\* The process read a beginning of the log.
ViewOK ==
  /\ Len(view) <= Len(journal)
  /\ \A p \in 1 .. Len(view) : view[p] = journal[p]

\* An id that the destination has accepted is not needed again.
SeenOK == \A e \in seen : is_ephemeral_kind(e.kind) \/ Covered(e, effective)

FileOK == file \in Nat => Delivered(file)

TargetOK == pc = "persisting" => Delivered(target)

SafeOK == pc = "waiting" => \A p \in safe : Delivered(p)

\* Up to the page's end a record is delivered, posted or still to be posted.
RecordsOK ==
  InPage => \A p \in 1 .. end : view[p] \in Exported =>
              \/ p \in todo \cup request
              \/ rejected
              \/ Covered(view[p], effective)

Delivery == ViewOK /\ SeenOK /\ FileOK /\ TargetOK /\ SafeOK /\ RecordsOK

\* What is delivered up to a position is delivered up to every earlier one.
LEMMA DeliveredBefore ==
  ASSUME NEW n \in Nat, NEW m \in Nat, m <= n, TypeOK, Delivered(n)
  PROVE  Delivered(m)
BY DEF Delivered, TypeOK

(***************************************************************************)
(* The log only grows and the destination only learns.                     *)
(***************************************************************************)
LEMMA DeliveredStays ==
  ASSUME TypeOK, NEW n \in Nat, Delivered(n), Len(journal) <= Len(journal'),
         Len(journal') \in Nat,
         \A p \in 1 .. Len(journal) : journal'[p] = journal[p],
         \A e \in Events : Covered(e, effective) => Covered(e, effective')
  PROVE  Delivered(n)'
<1>1. n <= Len(journal')
  BY DEF Delivered, TypeOK
<1>2. ASSUME NEW p \in 1 .. n, journal'[p] \in Exported
      PROVE  Covered(journal'[p], effective')
  <2>1. p \in 1 .. Len(journal)
    BY DEF Delivered, TypeOK
  <2>2. journal'[p] = journal[p] /\ journal[p] \in Events
    BY <2>1 DEF TypeOK, Durable
  <2> QED
    BY <1>2, <2>2 DEF Delivered
<1> QED
  BY <1>1, <1>2 DEF Delivered

(***************************************************************************)
(* An accepted record is at the destination afterwards, be it stored, a    *)
(* duplicate or superseded, and nothing that was there is gone.            *)
(***************************************************************************)
LEMMA AcceptDelivers ==
  ASSUME TypeOK, SeenOK, NEW e \in Events, AcceptAt(e)
  PROVE  /\ SeenOK'
         /\ is_ephemeral_kind(e.kind) \/ Covered(e, effective')
         /\ \A x \in Events : Covered(x, effective) => Covered(x, effective')
<1>1. \A x \in Events : Covered(x, effective) => Covered(x, effective')
  <2>1. effective \in SUBSET Events
    BY DEF TypeOK
  <2> QED
    BY <2>1, CoveredStays DEF AcceptAt
<1>2. is_ephemeral_kind(e.kind) \/ Covered(e, effective')
  <2>1. CASE e \in seen
    BY <2>1, <1>1 DEF SeenOK
  <2>2. CASE e \notin seen
    BY <2>2, AppliedIsCovered DEF AcceptAt, TypeOK
  <2> QED
    BY <2>1, <2>2
<1>3. SeenOK'
  <2>1. \A x \in seen : x \in Events
    BY DEF TypeOK
  <2> QED
    BY <1>1, <1>2, <2>1 DEF SeenOK, AcceptAt
<1> QED
  BY <1>1, <1>2, <1>3

\* Nothing is scanned at the start, so nothing is owed to the destination.
LEMMA DeliveryInit == Init => Delivery
<1> SUFFICES ASSUME Init PROVE Delivery
  OBVIOUS
<1>1. ViewOK
  BY DEF Init, ViewOK
<1> QED
  BY <1>1 DEF Init, Delivery, SeenOK, FileOK, TargetOK, SafeOK, RecordsOK,
              InPage, Missing

(***************************************************************************)
(* The process ends: what matters is what it leaves in the file.           *)
(***************************************************************************)
LEMMA ExitDelivery ==
  ASSUME Control, Delivery, Exit, UNCHANGED <<source, destination>>,
         file' \in Nat => Delivered(file')
  PROVE  Delivery'
<1>1. ViewOK'
  BY DEF Exit, ViewOK, source, Control, TypeOK
<1>2. SeenOK' /\ FileOK'
  BY DEF Delivery, SeenOK, FileOK, Delivered, source, destination
<1> QED
  BY <1>1, <1>2 DEF Exit, Delivery, TargetOK, SafeOK, RecordsOK, InPage

\* Unless a power loss takes exported lines, every step keeps Delivery: the
\* cursor file only ever names positions the destination has everything before.
LEMMA DeliveryStep ==
  ASSUME ~PowerLosses, Control, Delivery, [Next]_vars
  PROVE  Delivery'
<1>t. TypeOK
  BY DEF Control
<1>a. \A n \in Nat : Delivered(n) /\ UNCHANGED <<source, destination>> => Delivered(n)'
  BY DEF Delivered, source, destination
<1> DEFINE Same == UNCHANGED <<source, destination>>
<1>1. ASSUME NEW e \in Durable, AppendEvent(e) PROVE Delivery'
  <2>1. /\ Len(journal') \in Nat /\ Len(journal) <= Len(journal')
        /\ \A p \in 1 .. Len(journal) : journal'[p] = journal[p]
    BY <1>1, <1>t DEF AppendEvent, TypeOK
  <2>2. effective' = effective /\ seen' = seen
    BY <1>1 DEF AppendEvent, destination
  <2>3. \A n \in Nat : Delivered(n) => Delivered(n)'
    BY <2>1, <2>2, <1>t, DeliveredStays
  <2>4. ViewOK'
    BY <1>1, <1>t, <2>1 DEF AppendEvent, pusher, Delivery, ViewOK, TypeOK
  <2>5. (FileOK /\ TargetOK /\ SafeOK)'
    BY <1>1, <1>t, <2>3 DEF AppendEvent, pusher, page, save, Delivery, FileOK,
       TargetOK, SafeOK, TypeOK
  <2> QED
    BY <1>1, <2>2, <2>4, <2>5 DEF AppendEvent, pusher, page, save, Delivery,
       SeenOK, RecordsOK, InPage
<1>2. CASE SyncLog
  BY <1>2 DEF SyncLog, pusher, page, save, destination, Delivery, ViewOK,
     SeenOK, FileOK, TargetOK, SafeOK, RecordsOK, InPage, Delivered
<1>3. CASE Start
  BY <1>3, <1>t DEF Start, source, page, save, destination, Delivery, ViewOK,
     SeenOK, FileOK, TargetOK, SafeOK, RecordsOK, InPage, Delivered, TypeOK
<1>4. CASE ReadRefused
  BY <1>4, ExitDelivery DEF ReadRefused, Delivery, FileOK
<1>5. CASE ReadPage
  <2>1. /\ Position \in Nat /\ PageEnd \in Nat
        /\ Position <= PageEnd /\ PageEnd <= Len(view)
    BY <1>5, <1>t, PushAssumption
    DEF ReadPage, TypeOK, Position, PageEnd, Missing, Garbled
  <2>2. \A p \in 1 .. Position : view[p] \in Exported => Covered(view[p], effective)
    <3>1. CASE cursor = Missing
      BY <3>1 DEF Position
    <3>2. CASE cursor # Missing
      <4>1. Position \in Nat /\ Delivered(Position)
        BY <1>5, <3>2, <2>1 DEF ReadPage, Control, CursorKept, Delivery, FileOK,
           Position
      <4> QED
        BY <4>1, <2>1, <1>t DEF Delivered, Delivery, ViewOK, TypeOK
    <3> QED
      BY <3>1, <3>2
  <2>3. \A p \in 1 .. PageEnd : view[p] \in Exported =>
          p \in PageRecords \/ Covered(view[p], effective)
    BY <2>1, <2>2 DEF PageRecords
  <2>4. PageRecords = {} => Delivered(PageEnd)
    <3>1. PageEnd <= Len(journal) /\ PageEnd <= Len(view)
      BY <2>1, <1>t DEF Delivery, ViewOK, TypeOK
    <3>2. \A p \in 1 .. PageEnd : view[p] = journal[p]
      BY <2>1, <1>t DEF Delivery, ViewOK, TypeOK
    <3> QED
      BY <2>3, <3>1, <3>2 DEF Delivered
  <2>5. Same /\ file' = file /\ view' = view
    BY <1>5 DEF ReadPage
  <2>6. (ViewOK /\ SeenOK /\ FileOK)'
    BY <2>5 DEF Delivery, ViewOK, SeenOK, FileOK, Delivered, source, destination
  <2>7. (TargetOK /\ SafeOK)'
    BY <1>5, <2>1, <2>4, <2>5, <1>a DEF ReadPage, NextCursor, TargetOK, SafeOK
  <2>8. RecordsOK'
    BY <1>5, <2>3, <2>5
    DEF ReadPage, NextCursor, AfterPage, RecordsOK, InPage, destination
  <2> QED
    BY <2>6, <2>7, <2>8 DEF Delivery
<1>6. CASE Send
  <2>1. Same /\ file' = file /\ view' = view /\ end' = end
    BY <1>6 DEF Send
  <2>2. rejected = FALSE /\ request = {}
    BY <1>6, <1>t DEF Send, Control, RequestOK, TypeOK
  <2>3. RecordsOK'
    BY <1>6, <2>1, <2>2 DEF Send, Delivery, RecordsOK, InPage, destination
  <2>4. (ViewOK /\ SeenOK /\ FileOK)'
    BY <2>1 DEF Delivery, ViewOK, SeenOK, FileOK, Delivered, source, destination
  <2> QED
    BY <1>6, <2>3, <2>4 DEF Send, Delivery, TargetOK, SafeOK
<1>7. CASE RequestFails
  BY <1>7, ExitDelivery DEF RequestFails, Delivery, FileOK
<1>8. CASE Receive
  <2>1. Same /\ file' = file
    BY <1>8 DEF Receive
  <2>2. CASE Exit
    BY <2>1, <2>2, ExitDelivery DEF Delivery, FileOK
  <2>3. ASSUME NEW n \in Nat, NEW step \in {"stopped", "reading", "sending"},
               PersistThen(n, step), Delivered(n)
        PROVE  Delivery'
    <3>1. (ViewOK /\ SeenOK /\ FileOK)'
      BY <2>1, <2>3 DEF PersistThen, Delivery, ViewOK, SeenOK, FileOK,
         Delivered, source, destination
    <3>2. RecordsOK'
      BY <1>8, <2>1, <2>3 DEF Receive, PersistThen, page, Delivery, RecordsOK,
         InPage, destination
    <3>3. (TargetOK /\ SafeOK)'
      BY <2>1, <2>3, <1>a DEF PersistThen, TargetOK, SafeOK
    <3> QED
      BY <3>1, <3>2, <3>3 DEF Delivery
  <2>4. \A p \in safe : p \in Nat /\ Delivered(p)
    BY <1>8, <1>t DEF Receive, Delivery, SafeOK, TypeOK
  <2>5. CASE HaltOnRejection
    <3>1. CASE cursor # Missing /\ PersistThen(cursor, "stopped")
      <4>1. cursor \in Nat /\ cursor = file
        BY <1>8, <3>1, <1>t DEF Receive, Control, CursorKept, TypeOK
      <4> QED
        BY <3>1, <4>1, <2>3 DEF Delivery, FileOK
    <3> QED
      BY <2>5, <2>2, <2>3, <2>4, <3>1 DEF HaltOnRejection
  <2>6. CASE ~rejected /\ todo = {} /\ PersistThen(end, AfterPage(end))
    <3>1. end \in Nat /\ end <= Len(view) /\ request = {}
      BY <1>8, <1>t DEF Receive, Control, PageOK, InPage, TypeOK
    <3>2. \A p \in 1 .. end : view[p] \in Exported => Covered(view[p], effective)
      BY <1>8, <2>6, <3>1 DEF Receive, Delivery, RecordsOK, InPage
    <3>3. end <= Len(journal) /\ \A p \in 1 .. end : view[p] = journal[p]
      BY <3>1, <1>t DEF Delivery, ViewOK, TypeOK
    <3>4. Delivered(end)
      BY <3>2, <3>3 DEF Delivered
    <3> QED
      BY <2>6, <3>1, <3>4, <2>3 DEF AfterPage
  <2> QED
    BY <1>8, <2>3, <2>4, <2>5, <2>6 DEF Receive
<1>9. CASE Persist
  <2>1. target \in Nat /\ Delivered(target) /\ file' = target /\ Same
    BY <1>9, <1>t DEF Persist, Delivery, TargetOK, TypeOK
  <2>2. CASE Exit
    BY <2>1, <2>2, ExitDelivery
  <2>3. CASE /\ after # "stopped" /\ pc' = after /\ cursor' = target
             /\ UNCHANGED <<view, page, save>>
    <3>1. (ViewOK /\ SeenOK)'
      BY <2>1, <2>3 DEF Delivery, ViewOK, SeenOK, source, destination
    <3>2. (FileOK /\ TargetOK /\ SafeOK)'
      BY <2>1, <2>3, <1>a, <1>t DEF FileOK, TargetOK, SafeOK, TypeOK
    <3>3. RecordsOK'
      BY <1>9, <2>1, <2>3, <1>t DEF Persist, page, save, Delivery, RecordsOK,
         InPage, destination, TypeOK
    <3> QED
      BY <3>1, <3>2, <3>3 DEF Delivery
  <2> QED
    BY <1>9, <2>2, <2>3 DEF Persist
<1>10. CASE Crash
  <2>1. Exit /\ Same
    BY <1>10 DEF Crash, Halt
  <2>2. file' \in Nat => Delivered(file')
    <3>1. CASE file' = file
      BY <3>1 DEF Delivery, FileOK
    <3>2. CASE pc = "persisting" /\ file' \in CutShort(target)
      <4>1. target \in Nat /\ Delivered(target)
        BY <3>2, <1>t DEF Delivery, TargetOK, TypeOK
      <4>2. file' \in Nat => file' <= target
        BY <3>2, <4>1, NumeralPrefixesSmaller DEF Missing, Garbled
      <4> QED
        BY <4>1, <4>2, <1>t, DeliveredBefore
    <3> QED
      BY <1>10, <3>1, <3>2 DEF Crash, Halt
  <2> QED
    BY <2>1, <2>2, ExitDelivery
<1>11. CASE PowerLoss
  <2>1. PICK n \in barrier .. Len(journal) : journal' = SubSeq(journal, 1, n)
    BY <1>11 DEF PowerLoss
  <2>2. Exit /\ barrier' = barrier /\ UNCHANGED destination
    BY <1>11 DEF PowerLoss, Halt
  <2>3. \A m \in Nat : m <= barrier /\ Delivered(m) => Delivered(m)'
    <3>1. /\ n \in Nat /\ n <= Len(journal) /\ barrier <= n /\ Len(journal') = n
          /\ \A p \in 1 .. n : journal'[p] = journal[p]
      BY <2>1, <1>t DEF TypeOK
    <3> QED
      BY <3>1, <2>2, <1>t DEF Delivered, destination, TypeOK
  <2>4. (file \in Nat => Delivered(file))'
    <3>1. file <= barrier /\ target <= barrier
      BY <1>11 DEF PowerLoss
    <3>4. ASSUME file' \in Nat => file' <= barrier /\ Delivered(file')
          PROVE  (file \in Nat => Delivered(file))'
      <4>1. \A m \in Nat : m <= barrier /\ Delivered(m) /\ file' = m => Delivered(file)'
        BY <2>3 DEF Delivered
      <4> QED
        BY <3>4, <4>1
    <3>2. CASE file' = file
      BY <3>1, <3>2, <3>4 DEF Delivery, FileOK
    <3>3. CASE pc = "persisting" /\ file' \in CutShort(target)
      <4>1. target \in Nat /\ Delivered(target)
        BY <3>3, <1>t DEF Delivery, TargetOK, TypeOK
      <4>2. file' \in Nat => file' <= target
        BY <3>3, <4>1, NumeralPrefixesSmaller DEF Missing, Garbled
      <4>3. file' \in Nat => file' <= barrier /\ Delivered(file')
        BY <3>1, <4>1, <4>2, <1>t, DeliveredBefore DEF TypeOK
      <4> QED
        BY <4>3, <3>4
    <3> QED
      BY <1>11, <3>2, <3>3 DEF PowerLoss, Halt
  <2>5. ViewOK'
    <3>1. Len(journal') \in Nat /\ view' = <<>>
      BY <2>1, <2>2, <1>t DEF Exit, TypeOK
    <3> QED
      BY <3>1 DEF ViewOK
  <2>6. SeenOK' /\ FileOK'
    BY <2>2, <2>4 DEF Delivery, SeenOK, FileOK, destination
  <2> QED
    BY <2>2, <2>5, <2>6 DEF Exit, Delivery, TargetOK, SafeOK, RecordsOK, InPage
<1>12. CASE IngestRecord
  <2> DEFINE Accepts(p) == /\ view[p] \notin refused
                           /\ AcceptAt(view[p])
                           /\ safe' = safe \cup {p}
                           /\ request' = request \ {p}
                           /\ UNCHANGED rejected
             Refuses(p) == /\ view[p] \in refused
                           /\ rejected' = TRUE
                           /\ request' = {}
                           /\ UNCHANGED <<effective, seen, safe>>
  <2>1. PICK p \in request : IsFirst(p, request) /\ (Accepts(p) \/ Refuses(p))
    BY <1>12 DEF IngestRecord
  <2>2. /\ pc = "waiting" /\ pc' = pc /\ view' = view /\ end' = end
        /\ todo' = todo /\ file' = file /\ UNCHANGED source
    BY <1>12 DEF IngestRecord
  <2>3. CASE Refuses(p)
    <3>1. Same
      BY <1>12, <2>3 DEF IngestRecord, destination
    <3> QED
      BY <2>2, <2>3, <3>1 DEF Delivery, ViewOK, SeenOK, FileOK, TargetOK,
         SafeOK, RecordsOK, InPage, Delivered, source, destination
  <2>4. CASE Accepts(p)
    <3>1. /\ p \in Nat /\ p <= end /\ end <= Len(view) /\ end \in Nat
          /\ p \in 1 .. Len(view)
      BY <2>2, <1>t DEF Control, PageOK, InPage, TypeOK
    <3>2. view[p] \in Events /\ ~is_ephemeral_kind(view[p].kind)
      BY <3>1, <1>t DEF TypeOK, Durable
    <3>3. /\ SeenOK' /\ Covered(view[p], effective')
          /\ \A x \in Events : Covered(x, effective) => Covered(x, effective')
      BY <2>4, <3>2, <1>t, AcceptDelivers DEF Delivery
    <3>4. \A n \in Nat : Delivered(n) => Delivered(n)'
      BY <2>2, <3>3, <1>t, DeliveredStays DEF source, TypeOK
    <3>5. \A q \in 1 .. end : view[q] \in Exported =>
            q \in todo \/ (q \in request /\ q # p) \/ Covered(view[q], effective')
      <4>1. rejected = FALSE
        BY <1>t DEF Control, RequestOK, TypeOK
      <4>2. \A q \in 1 .. end : view[q] \in Events
        BY <3>1, <1>t DEF TypeOK, Durable
      <4> QED
        BY <2>2, <3>3, <4>1, <4>2 DEF Delivery, RecordsOK, InPage
    <3>6. RecordsOK'
      BY <2>2, <2>4, <3>5 DEF RecordsOK, InPage
    <3>7. Delivered(p)'
      <4>1. \A q \in 1 .. p : q \in 1 .. end /\ (q \in request => q = p)
        BY <2>1, <3>1, <1>t DEF IsFirst, TypeOK
      <4>2. \A q \in 1 .. p : q \notin todo
        BY <2>2, <3>1, <1>t DEF Control, WaitingOK, TypeOK
      <4>3. \A q \in 1 .. p : view[q] \in Exported => Covered(view[q], effective')
        BY <3>5, <4>1, <4>2
      <4>4. p <= Len(journal) /\ \A q \in 1 .. p : view[q] = journal[q]
        BY <3>1, <1>t DEF Delivery, ViewOK, TypeOK
      <4> QED
        BY <2>2, <4>3, <4>4 DEF Delivered, source
    <3>8. (SafeOK /\ FileOK /\ TargetOK)'
      BY <2>2, <2>4, <3>4, <3>7, <1>t DEF Delivery, SafeOK, FileOK, TargetOK, TypeOK
    <3>9. ViewOK'
      BY <2>2 DEF Delivery, ViewOK, source
    <3> QED
      BY <3>3, <3>6, <3>8, <3>9 DEF Delivery
  <2> QED
    BY <2>1, <2>3, <2>4
<1>13. ASSUME NEW e \in Others, OtherSubmit(e) PROVE Delivery'
  <2>1. /\ SeenOK'
        /\ \A x \in Events : Covered(x, effective) => Covered(x, effective')
    BY <1>13, <1>t, AcceptDelivers, PushAssumption DEF OtherSubmit, Delivery
  <2>2. UNCHANGED <<source, file, pusher>>
    BY <1>13 DEF OtherSubmit
  <2>3. \A n \in Nat : Delivered(n) => Delivered(n)'
    BY <2>1, <2>2, <1>t, DeliveredStays DEF source, TypeOK
  <2>4. (FileOK /\ TargetOK /\ SafeOK)'
    BY <2>2, <2>3, <1>t DEF pusher, page, save, Delivery, FileOK, TargetOK,
       SafeOK, TypeOK
  <2>5. RecordsOK'
    <3>1. InPage => \A p \in 1 .. end : view[p] \in Events
      BY <1>t DEF Control, PageOK, TypeOK, Durable
    <3> QED
      BY <2>1, <2>2, <3>1 DEF pusher, page, save, Delivery, RecordsOK, InPage
  <2>6. ViewOK'
    BY <2>2 DEF pusher, source, Delivery, ViewOK
  <2> QED
    BY <2>1, <2>4, <2>5, <2>6 DEF Delivery
<1>14. CASE PolicyChange
  BY <1>14 DEF PolicyChange, source, pusher, page, save, Delivery, ViewOK,
     SeenOK, FileOK, TargetOK, SafeOK, RecordsOK, InPage, Delivered
<1>15. CASE UNCHANGED vars
  BY <1>15 DEF vars, source, pusher, page, save, destination, Delivery, ViewOK,
     SeenOK, FileOK, TargetOK, SafeOK, RecordsOK, InPage, Delivered
<1> QED
  BY <1>1, <1>2, <1>3, <1>4, <1>5, <1>6, <1>7, <1>8, <1>9, <1>10, <1>11, <1>12,
     <1>13, <1>14, <1>15 DEF Next
-----------------------------------------------------------------------------
\* The pusher's control state, its page, its request and its cursor file agree
\* with each other in every reachable state: the invariant the theorems rest on.
THEOREM ControlHolds == Spec => []Control
<1>1. Init => Control
  BY ControlInit
<1>2. Control /\ [Next]_vars => Control'
  BY ControlStep
<1> QED
  BY <1>1, <1>2, PTL DEF Spec

(***************************************************************************)
(* Type correctness of the push process, the source log and the            *)
(* destination.                                                            *)
(***************************************************************************)
THEOREM PushTypeCorrect == Spec => []TypeOK
<1>1. Control => TypeOK
  BY DEF Control
<1> QED
  BY <1>1, ControlHolds, PTL

(***************************************************************************)
(* persist_cursor is never called with a position behind the checkpoint,   *)
(* whatever crashes, failures and losses came before.                      *)
(***************************************************************************)
THEOREM CheckpointNeverBack == Spec => []CheckpointAdvances
<1>1. Control => CheckpointAdvances
  BY DEF Control, TypeOK, PersistingOK, CheckpointAdvances, Missing, Garbled
<1> QED
  BY <1>1, ControlHolds, PTL

(***************************************************************************)
(* split_serialized_batches makes no empty request, however large the      *)
(* records and small the limits.                                           *)
(***************************************************************************)
THEOREM RequestsNotEmpty == Spec => []RequestsProgress
<1>1. Control => RequestsProgress
  BY DEF Control, WaitingOK, RequestsProgress
<1> QED
  BY <1>1, ControlHolds, PTL

(***************************************************************************)
(* The main result: while the source log keeps the lines it has exported,  *)
(* the cursor file is a position of the log and the destination has every  *)
(* record of the stream before it, through all crashes, rejections and     *)
(* failed requests.                                                        *)
(***************************************************************************)
THEOREM NoRecordSkipped ==
  ASSUME ~PowerLosses
  PROVE  Spec => [](NoSilentGap /\ CursorInRange)
<1>1. Init => Control /\ Delivery
  BY ControlInit, DeliveryInit
<1>2. Control /\ Delivery /\ [Next]_vars => (Control /\ Delivery)'
  BY ControlStep, DeliveryStep
<1>3. Control /\ Delivery => NoSilentGap /\ CursorInRange
  <2> SUFFICES ASSUME Control, Delivery PROVE NoSilentGap /\ CursorInRange
    OBVIOUS
  <2>1. CASE file \in Nat
    BY <2>1 DEF Control, TypeOK, Delivery, FileOK, Delivered, NoSilentGap,
       CursorInRange
  <2>2. CASE file \notin Nat
    BY <2>2 DEF Control, TypeOK, Missing, Garbled, NoSilentGap, CursorInRange
  <2> QED
    BY <2>1, <2>2
<1> QED
  BY <1>1, <1>2, <1>3, PTL DEF Spec
=============================================================================
