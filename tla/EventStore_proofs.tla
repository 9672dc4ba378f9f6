-------------------------- MODULE EventStore_proofs --------------------------
(***************************************************************************)
(* Proofs about the event store, for every set of events and clients and   *)
(* every bound: its types, that the memory always shows the winners of its *)
(* journal, and that an event answered "stored" is served ever after.      *)
(* First the event kernel: the order of replacement is total, and applying *)
(* events keeps the effective state the winners of everything applied,     *)
(* whatever the order.                                                     *)
(***************************************************************************)
EXTENDS EventStore, TLAPS

(***************************************************************************)
(* replacement_candidate_wins orders the events strictly and totally:      *)
(* equal timestamps fall back to the event ID, which is unique.            *)
(***************************************************************************)
LEMMA WinsTotal ==
  ASSUME NEW e \in Events, NEW f \in Events, e # f
  PROVE  replacement_candidate_wins(e, f) <=> ~replacement_candidate_wins(f, e)
<1>1. /\ e.created_at \in Nat /\ f.created_at \in Nat
      /\ e.id \in Nat /\ f.id \in Nat
  BY EventsAssumption
<1>2. e.id # f.id
  BY EventsAssumption
<1> QED
  BY <1>1, <1>2 DEF replacement_candidate_wins

\* The winner order of replacement_candidate_wins is transitive.
LEMMA WinsTransitive ==
  ASSUME NEW e \in Events, NEW f \in Events, NEW g \in Events,
         replacement_candidate_wins(e, f), replacement_candidate_wins(f, g)
  PROVE  replacement_candidate_wins(e, g)
<1>1. /\ e.created_at \in Nat /\ f.created_at \in Nat /\ g.created_at \in Nat
      /\ e.id \in Nat /\ f.id \in Nat /\ g.id \in Nat
  BY EventsAssumption
<1> QED
  BY <1>1 DEF replacement_candidate_wins

(***************************************************************************)
(* Having the same replacement key is symmetric and transitive, and only   *)
(* durable kinds have one.                                                 *)
(***************************************************************************)
LEMMA KeySymmetric ==
  ASSUME NEW e, NEW f, SameReplacementKey(e, f)
  PROVE  SameReplacementKey(f, e)
BY DEF SameReplacementKey, HasReplacementKey

\* Having the same replacement key is transitive.
LEMMA KeyTransitive ==
  ASSUME NEW e, NEW f, NEW g, SameReplacementKey(e, f), SameReplacementKey(f, g)
  PROVE  SameReplacementKey(e, g)
BY DEF SameReplacementKey, HasReplacementKey

\* An event with a replacement key is not ephemeral.
LEMMA KeyDurable ==
  ASSUME NEW e \in Events, NEW f \in Events, SameReplacementKey(e, f)
  PROVE  /\ ~is_ephemeral_kind(e.kind)
         /\ ~is_ephemeral_kind(f.kind)
<1>1. e.kind \in Nat
  BY EventsAssumption
<1>2. ~is_ephemeral_kind(e.kind)
  BY <1>1 DEF SameReplacementKey, HasReplacementKey, IsReplaceableKind,
              IsParameterizedKind, is_ephemeral_kind
<1> QED
  BY <1>2 DEF SameReplacementKey

(***************************************************************************)
(* decide_event without a previously accepted id, as the conditions that   *)
(* the proofs use.                                                         *)
(***************************************************************************)
LEMMA DecideStoredIff ==
  ASSUME NEW S, NEW e
  PROVE  decide_event(S, FALSE, e) = "Stored" <=>
           /\ e \notin S
           /\ ~is_ephemeral_kind(e.kind)
           /\ \A f \in Holders(S, e) : replacement_candidate_wins(e, f)
<1>1. classify_event(e) = "Ephemeral" <=> is_ephemeral_kind(e.kind)
  <2>1. CASE is_ephemeral_kind(e.kind)
    BY <2>1 DEF classify_event
  <2>2. CASE ~is_ephemeral_kind(e.kind) /\ HasReplacementKey(e)
    BY <2>2 DEF classify_event
  <2>3. CASE ~is_ephemeral_kind(e.kind) /\ ~HasReplacementKey(e)
    BY <2>3 DEF classify_event
  <2> QED
    BY <2>1, <2>2, <2>3
<1> QED
  BY <1>1 DEF decide_event

(***************************************************************************)
(* A replacement key has one winner at most.                               *)
(***************************************************************************)
LEMMA OneWinner ==
  ASSUME NEW S \in SUBSET Events, NEW e \in Winners(S), NEW f \in Winners(S),
         SameReplacementKey(e, f)
  PROVE  e = f
<1>1. SUFFICES ASSUME e # f PROVE FALSE
  OBVIOUS
<1>2. e \in Events /\ f \in Events
  BY DEF Winners
<1>3. replacement_candidate_wins(e, f)
  BY <1>1 DEF Winners, Holders
<1>4. replacement_candidate_wins(f, e)
  BY <1>1, KeySymmetric DEF Winners, Holders
<1> QED
  BY <1>1, <1>2, <1>3, <1>4, WinsTotal

(***************************************************************************)
(* The heart of the kernel: applying one event to the winners of a set,    *)
(* each member of which is covered by them, gives the winners of the set   *)
(* with the event, and covers it too.  So the order in which events are    *)
(* applied, and how often, does not matter.                                *)
(***************************************************************************)
LEMMA ApplyWinners ==
  ASSUME NEW S \in SUBSET Events, NEW e \in Events,
         \A s \in S : is_ephemeral_kind(s.kind) \/ Covered(s, Winners(S))
  PROVE  LET E == apply_effective_event(Winners(S), e)
         IN  /\ E = Winners(S \cup {e})
             /\ \A s \in S \cup {e} : is_ephemeral_kind(s.kind) \/ Covered(s, E)
<1> DEFINE W == Winners(S)
           E == apply_effective_event(W, e)
<1>w. W \subseteq S /\ \A x \in W : ~is_ephemeral_kind(x.kind)
  BY DEF Winners
<1>1. CASE is_ephemeral_kind(e.kind)
  <2>1. E = W
    BY <1>1, DecideStoredIff DEF apply_effective_event
  <2>2. \A x \in Events : ~SameReplacementKey(x, e)
    BY <1>1, KeyDurable
  <2>3. Winners(S \cup {e}) = W
    BY <1>1, <2>2 DEF Winners, Holders
  <2> QED
    BY <1>1, <2>1, <2>3
<1>2. CASE ~is_ephemeral_kind(e.kind) /\ e \in W
  <2>1. E = W
    BY <1>2, DecideStoredIff DEF apply_effective_event
  <2>2. S \cup {e} = S
    BY <1>2, <1>w
  <2> QED
    BY <2>1, <2>2
<1>3. CASE /\ ~is_ephemeral_kind(e.kind) /\ e \notin W
           /\ \A f \in Holders(W, e) : replacement_candidate_wins(e, f)
  <2>1. E = (W \ Holders(W, e)) \cup {e}
    BY <1>3, DecideStoredIff DEF apply_effective_event
  <2>2. e \notin S
    <3>1. SUFFICES ASSUME e \in S PROVE FALSE
      OBVIOUS
    <3>2. PICK f \in Holders(W, e) : replacement_candidate_wins(f, e)
      BY <3>1, <1>3 DEF Covered
    <3>3. f \in Events /\ f # e
      BY <1>3, <1>w DEF Holders
    <3> QED
      BY <1>3, <3>2, <3>3, WinsTotal
  <2>3. ASSUME NEW g \in S, SameReplacementKey(e, g)
        PROVE  replacement_candidate_wins(e, g)
    <3>1. ~is_ephemeral_kind(g.kind)
      BY <2>3, KeyDurable
    <3>2. CASE g \in W
      BY <3>2, <2>3, <1>3 DEF Holders
    <3>3. CASE \E h \in Holders(W, g) : replacement_candidate_wins(h, g)
      <4>1. PICK h \in Holders(W, g) : replacement_candidate_wins(h, g)
        BY <3>3
      <4>2. h \in W /\ SameReplacementKey(e, h)
        BY <4>1, <2>3, KeyTransitive DEF Holders
      <4>3. replacement_candidate_wins(e, h)
        BY <4>2, <1>3 DEF Holders
      <4> QED
        BY <4>1, <4>2, <4>3, <1>w, WinsTransitive
    <3> QED
      BY <3>1, <3>2, <3>3 DEF Covered
  <2>4. e \in Winners(S \cup {e})
    BY <1>3, <2>3 DEF Winners, Holders
  <2>5. ASSUME NEW x \in W, x \notin Holders(W, e)
        PROVE  x \in Winners(S \cup {e})
    <3>1. ~SameReplacementKey(x, e)
      BY <2>5, KeySymmetric DEF Holders
    <3> QED
      BY <3>1, <1>w DEF Winners, Holders
  <2>6. ASSUME NEW x \in Winners(S \cup {e}), x # e
        PROVE  x \in W /\ x \notin Holders(W, e)
    <3>1. x \in W
      BY <2>6 DEF Winners, Holders
    <3>2. SUFFICES ASSUME x \in Holders(W, e) PROVE FALSE
      BY <3>1
    <3>3. replacement_candidate_wins(x, e)
      BY <3>2, <2>6, KeySymmetric DEF Winners, Holders
    <3>4. replacement_candidate_wins(e, x)
      BY <3>2, <1>3
    <3> QED
      BY <3>1, <3>3, <3>4, <2>6, <1>w, WinsTotal
  <2>7. E = Winners(S \cup {e})
    BY <2>1, <2>4, <2>5, <2>6
  <2>8. ASSUME NEW s \in S, ~is_ephemeral_kind(s.kind)
        PROVE  Covered(s, E)
    <3>1. CASE s \in W
      BY <3>1, <2>1, <2>3, KeySymmetric DEF Covered, Holders
    <3>2. CASE \E h \in Holders(W, s) : replacement_candidate_wins(h, s)
      <4>1. PICK h \in Holders(W, s) : replacement_candidate_wins(h, s)
        BY <3>2
      <4>2. h \in W /\ SameReplacementKey(s, h) /\ h \in Events
        BY <4>1, <1>w DEF Holders
      <4>3. CASE h \notin Holders(W, e)
        BY <4>1, <4>2, <4>3, <2>1 DEF Covered, Holders
      <4>4. CASE h \in Holders(W, e)
        <5>1. replacement_candidate_wins(e, h) /\ SameReplacementKey(h, e)
          BY <4>4, <1>3, KeySymmetric DEF Holders
        <5>2. replacement_candidate_wins(e, s) /\ SameReplacementKey(s, e)
          BY <5>1, <4>1, <4>2, WinsTransitive, KeyTransitive
        <5> QED
          BY <5>2, <2>1 DEF Covered, Holders
      <4> QED
        BY <4>3, <4>4
    <3> QED
      BY <2>8, <3>1, <3>2 DEF Covered
  <2> QED
    BY <2>1, <2>7, <2>8 DEF Covered
<1>4. CASE /\ ~is_ephemeral_kind(e.kind) /\ e \notin W
           /\ \E f \in Holders(W, e) : ~replacement_candidate_wins(e, f)
  <2>1. E = W
    BY <1>4, DecideStoredIff DEF apply_effective_event
  <2>2. PICK f \in Holders(W, e) : ~replacement_candidate_wins(e, f)
    BY <1>4
  <2>3. f \in W /\ f \in S /\ f \in Events /\ f # e /\ SameReplacementKey(e, f)
    BY <2>2, <1>4, <1>w DEF Holders
  <2>4. replacement_candidate_wins(f, e)
    BY <2>2, <2>3, WinsTotal
  <2>5. e \notin Winners(S \cup {e})
    BY <2>2, <2>3 DEF Winners, Holders
  <2>6. ASSUME NEW x \in W PROVE x \in Winners(S \cup {e})
    <3>1. SameReplacementKey(x, e) => x = f
      BY <2>3, KeyTransitive, OneWinner
    <3> QED
      BY <3>1, <2>4, <1>w DEF Winners, Holders
  <2>7. Winners(S \cup {e}) \subseteq W \cup {e}
    BY DEF Winners, Holders
  <2>8. E = Winners(S \cup {e})
    BY <2>1, <2>5, <2>6, <2>7
  <2>9. Covered(e, W)
    BY <2>2, <2>4 DEF Covered
  <2> QED
    BY <2>1, <2>8, <2>9
<1> QED
  BY <1>1, <1>2, <1>3, <1>4

(***************************************************************************)
(* What is covered stays covered: an event only gives way to a winner of   *)
(* its key.                                                                *)
(***************************************************************************)
LEMMA CoveredStays ==
  ASSUME NEW E \in SUBSET Events, NEW e \in Events, NEW x \in Events,
         Covered(x, E)
  PROVE  Covered(x, apply_effective_event(E, e))
<1> DEFINE F == apply_effective_event(E, e)
<1>1. CASE decide_event(E, FALSE, e) # "Stored"
  BY <1>1 DEF apply_effective_event
<1>2. CASE decide_event(E, FALSE, e) = "Stored"
  <2>1. F = (E \ Holders(E, e)) \cup {e}
    BY <1>2 DEF apply_effective_event
  <2>2. \A f \in Holders(E, e) : replacement_candidate_wins(e, f)
    BY <1>2, DecideStoredIff
  <2>3. CASE x \in E
    <3>1. CASE x \in Holders(E, e)
      <4>1. SameReplacementKey(x, e)
        BY <3>1, KeySymmetric DEF Holders
      <4> QED
        BY <4>1, <3>1, <2>1, <2>2 DEF Covered, Holders
    <3> QED
      BY <3>1, <2>1, <2>3 DEF Covered
  <2>4. ASSUME NEW h \in Holders(E, x), replacement_candidate_wins(h, x)
        PROVE  Covered(x, F)
    <3>1. h \in Events /\ SameReplacementKey(x, h)
      BY DEF Holders
    <3>2. CASE h \in Holders(E, e)
      <4>1. replacement_candidate_wins(e, h) /\ SameReplacementKey(h, e)
        BY <3>2, <2>2, KeySymmetric DEF Holders
      <4>2. replacement_candidate_wins(e, x) /\ SameReplacementKey(x, e)
        BY <4>1, <3>1, <2>4, WinsTransitive, KeyTransitive
      <4> QED
        BY <4>2, <2>1 DEF Covered, Holders
    <3>3. CASE h \notin Holders(E, e)
      BY <3>3, <2>1, <2>4 DEF Covered, Holders
    <3> QED
      BY <3>2, <3>3
  <2> QED
    BY <2>3, <2>4 DEF Covered
<1> QED
  BY <1>1, <1>2
-----------------------------------------------------------------------------
\* Most steps are first-order logic; those that need arithmetic, sequences or
\* function updates cite SMT.
USE Zenon

(***************************************************************************)
(* The parts of the inductive invariant that are no properties themselves. *)
(***************************************************************************)
\* A call past its decision holds the mutex and carries a durable event.
CallsOK ==
  \A c \in Clients :
    /\ pc[c] # "idle" => arg[c] \in Valid /\ mode = "up"
    /\ pc[c] \in {"writing", "syncing"} =>
         /\ Holds(c) /\ writer
         /\ ~is_ephemeral_kind(arg[c].kind)
    /\ pc[c] = "syncing" =>
         /\ Len(log) > 0 /\ tail = "clean"
         /\ log[Len(log)] \in {arg[c], Glued}

\* A record without its newline was never behind the barrier.
TailOK == tail = "open" => synced < Len(log)

\* Every durable event of the journal shows, or a winner of its key does.
JournalCovered ==
  \A e \in EventsOf(journal) : is_ephemeral_kind(e.kind) \/ Covered(e, events)

\* What replay_log has read so far is the beginning of the log.
ReplayPrefix ==
  mode = "opening" =>
    /\ writer
    /\ Len(journal) <= Len(log)
    /\ \A i \in 1 .. Len(journal) : journal[i] = log[i]

\* An acknowledged event is behind the barrier, unless a glued line is.
AckStable ==
  writer => \A e \in Acknowledged :
              \E i \in 1 .. synced : log[i] \in {e, Glued}

\* An open store has every acknowledged event in its journal.
AckInJournal == mode = "up" /\ writer => Acknowledged \subseteq EventsOf(journal)

\* Only durable events are acknowledged as stored.
AckDurable == \A e \in Acknowledged : ~is_ephemeral_kind(e.kind)

IInv ==
  /\ TypeOK
  /\ CallsOK
  /\ TailOK
  /\ EffectiveIsWinners
  /\ JournalCovered
  /\ ReplayPrefix
  /\ AckStable
  /\ AckInJournal
  /\ AckDurable
-----------------------------------------------------------------------------
(***************************************************************************)
(* Facts about the sequences of the model.                                 *)
(***************************************************************************)
LEMMA EventsOfAppend ==
  ASSUME NEW T, NEW s \in Seq(T), NEW x
  PROVE  EventsOf(Append(s, x)) = EventsOf(s) \cup {x}
<1>1. DOMAIN Append(s, x) = 1 .. Len(s) + 1 /\ DOMAIN s = 1 .. Len(s)
  BY SMT
<1>2. \A i \in 1 .. Len(s) : Append(s, x)[i] = s[i]
  BY SMT
<1>3. Append(s, x)[Len(s) + 1] = x
  BY SMT
<1>4. \A i \in 1 .. Len(s) + 1 : i \in 1 .. Len(s) \/ i = Len(s) + 1
  BY SMT
<1> QED
  BY <1>1, <1>2, <1>3, <1>4, SMT DEF EventsOf

\* An empty journal holds no events.
LEMMA EventsOfEmpty == EventsOf(<<>>) = {}
BY SMT DEF EventsOf

\* The events of a journal of events are events.
LEMMA EventsOfSeq ==
  ASSUME NEW T, NEW s \in Seq(T)
  PROVE  EventsOf(s) \subseteq T
BY SMT DEF EventsOf

\* A log without its last line is still a log.
LEMMA FrontSeq ==
  ASSUME NEW T, NEW s \in Seq(T), Len(s) > 0
  PROVE  /\ Front(s) \in Seq(T)
         /\ Len(Front(s)) = Len(s) - 1
         /\ \A i \in 1 .. Len(s) - 1 : Front(s)[i] = s[i]
<1>1. Len(s) - 1 \in Nat /\ 1 .. Len(s) - 1 \subseteq DOMAIN s
  BY SMT
<1>2. \A i \in 1 .. Len(s) - 1 : s[i] \in T
  BY <1>1, SMT
<1>3. Len(Front(s)) = Len(s) - 1
  <2>1. ASSUME NEW n \in 0 .. Len(s) PROVE Len(SubSeq(s, 1, n)) = n
    BY SMT
  <2>2. Len(s) - 1 \in 0 .. Len(s)
    BY <1>1, SMT
  <2>3. Len(SubSeq(s, 1, Len(s) - 1)) = Len(s) - 1
    BY <2>1, <2>2
  <2> QED
    BY <2>3 DEF Front
<1>4. \A i \in 1 .. Len(s) - 1 : Front(s)[i] = s[i]
  BY <1>1, SMT DEF Front
<1>5. Front(s) \in Seq(T)
  BY <1>1, <1>2, SMT DEF Front
<1> QED
  BY <1>3, <1>4, <1>5

\* A client that holds the mutex leaves a well-formed queue behind.
LEMMA ReturnType ==
  ASSUME TypeOK, NEW c \in Clients, Holds(c), Return(c)
  PROVE  /\ queue' \in Seq(Clients)
         /\ pc' \in [Clients -> {"idle", "queued", "writing", "syncing"}]
         /\ arg' \in [Clients -> Events \cup {NoEvent}]
BY SMT DEF TypeOK, Holds, Return

\* What a failed or interrupted append leaves in the file.
LEMMA PartialWriteType ==
  ASSUME TypeOK, TailOK, NEW c \in Clients, arg[c] \in Events, PartialWrite(c)
  PROVE  /\ log' \in Seq(Lines)
         /\ tail' \in {"clean", "rest", "open"}
         /\ synced \in 0 .. Len(log')
<1>1. CASE UNCHANGED <<log, tail>>
  BY <1>1 DEF TypeOK
<1>2. CASE log' = log /\ tail' = "rest"
  BY <1>2 DEF TypeOK
<1>3. CASE log' = Append(log, arg[c]) /\ tail' = "open"
  BY <1>3, SMT DEF TypeOK, Lines
<1>4. CASE tail = "open" /\ log' = Front(log) /\ tail' = "rest"
  BY <1>4, FrontSeq, SMT DEF TypeOK, TailOK
<1> QED
  BY <1>1, <1>2, <1>3, <1>4 DEF PartialWrite

(***************************************************************************)
(* The store's variables keep their types.                                 *)
(***************************************************************************)
LEMMA TypeStep ==
  ASSUME TypeOK, CallsOK, TailOK, Next
  PROVE  TypeOK'
<1> USE StoreAssumption
<1>1. CASE Open
  BY <1>1, SMT DEF TypeOK, Open, files, memory, calls
<1>2. CASE ReplayLine
  <2>1. NextLine \in Events
    BY <1>2 DEF ReplayLine
  <2>2. events' \subseteq Events
    BY <1>2, <2>1 DEF ReplayLine, TypeOK, apply_effective_event, Holders
  <2> QED
    BY <1>2, <2>1, <2>2, SMT DEF TypeOK, ReplayLine, files, calls
<1>3. CASE OpenDone
  BY <1>3 DEF TypeOK, OpenDone, files, memory, calls
<1>4. CASE OpenRefused
  BY <1>4 DEF TypeOK, OpenRefused, files, memory, calls
<1>5. ASSUME NEW c \in Clients, NEW e \in Events, Submit(c, e)
      PROVE  TypeOK'
  BY <1>5, SMT DEF TypeOK, Submit, files, memory
<1>a. ASSUME NEW c \in Clients, Holds(c), ApplyStored(c), arg[c] \in Events
      PROVE  /\ events' \subseteq Events /\ journal' \in Seq(Events)
             /\ seen' \subseteq Events /\ answers' \subseteq Events \X Messages
             /\ queue' \in Seq(Clients)
             /\ pc' \in [Clients -> {"idle", "queued", "writing", "syncing"}]
             /\ arg' \in [Clients -> Events \cup {NoEvent}]
  <2>1. events' \subseteq Events
    BY <1>a DEF ApplyStored, TypeOK, apply_effective_event, Holders
  <2>2. Return(c)
    BY <1>a DEF ApplyStored, Answer
  <2> QED
    BY <1>a, <2>1, <2>2, ReturnType, SMT DEF ApplyStored, Answer, TypeOK, Messages
<1>6. ASSUME NEW c \in Clients, DecideDuplicate(c)
      PROVE  TypeOK'
  <2>1. Return(c) /\ Holds(c) /\ arg[c] \in Events
    BY <1>6 DEF DecideDuplicate, Answer, CallsOK
  <2> QED
    BY <1>6, <2>1, ReturnType, SMT
    DEF TypeOK, DecideDuplicate, Answer, Messages, files, memory
<1>7. ASSUME NEW c \in Clients, DecideEphemeral(c)
      PROVE  TypeOK'
  <2>1. Return(c) /\ Holds(c) /\ arg[c] \in Events
    BY <1>7 DEF DecideEphemeral, Answer, CallsOK
  <2> QED
    BY <1>7, <2>1, ReturnType, SMT
    DEF TypeOK, DecideEphemeral, Answer, Messages, files
<1>8. ASSUME NEW c \in Clients, DecideSuperseded(c)
      PROVE  TypeOK'
  <2>1. Return(c) /\ Holds(c) /\ arg[c] \in Events
    BY <1>8 DEF DecideSuperseded, Answer, CallsOK
  <2> QED
    BY <1>8, <2>1, ReturnType, SMT
    DEF TypeOK, DecideSuperseded, Answer, Messages, files
<1>9. ASSUME NEW c \in Clients, DecideStored(c)
      PROVE  TypeOK'
  <2>1. Holds(c) /\ arg[c] \in Events
    BY <1>9 DEF DecideStored, CallsOK
  <2>2. CASE ApplyStored(c)
    BY <1>9, <2>1, <2>2, <1>a DEF TypeOK, DecideStored, files
  <2>3. CASE /\ pc' = [pc EXCEPT ![c] = "writing"]
             /\ UNCHANGED <<memory, queue, arg, answers>>
    BY <1>9, <2>3 DEF TypeOK, DecideStored, files, memory
  <2> QED
    BY <1>9, <2>2, <2>3 DEF DecideStored
<1>10. ASSUME NEW c \in Clients, Write(c)
       PROVE  TypeOK'
  <2>1. arg[c] \in Events
    BY <1>10 DEF Write, CallsOK
  <2>2. log' \in Seq(Lines) /\ synced \in 0 .. Len(log')
    <3>1. CASE tail = "clean"
      BY <1>10, <2>1, <3>1, SMT DEF Write, TypeOK, Lines
    <3>2. CASE tail = "rest"
      BY <1>10, <3>2, SMT DEF Write, TypeOK, Lines
    <3>3. CASE tail = "open"
      <4>1. Front(log) \in Seq(Lines) /\ Len(Front(log)) = Len(log) - 1
        BY <3>3, FrontSeq, SMT DEF TypeOK, TailOK
      <4>2. log' = Append(Front(log), Glued)
        BY <1>10, <3>3 DEF Write
      <4> QED
        BY <4>1, <4>2, SMT DEF TypeOK, Lines
    <3> QED
      BY <3>1, <3>2, <3>3 DEF TypeOK
  <2> QED
    BY <1>10, <2>2 DEF TypeOK, Write, memory
<1>11. ASSUME NEW c \in Clients, Sync(c)
       PROVE  TypeOK'
  <2>1. Holds(c) /\ arg[c] \in Events /\ ApplyStored(c)
    BY <1>11 DEF Sync, CallsOK
  <2> QED
    BY <1>11, <2>1, <1>a, SMT DEF TypeOK, Sync
<1>12. ASSUME NEW c \in Clients, WriteFails(c)
       PROVE  TypeOK'
  <2>1. Holds(c) /\ arg[c] \in Events /\ Return(c) /\ PartialWrite(c)
    BY <1>12 DEF WriteFails, CallsOK
  <2> QED
    BY <1>12, <2>1, ReturnType, PartialWriteType, SMT
    DEF TypeOK, WriteFails, Fault, memory
<1>13. ASSUME NEW c \in Clients, SyncFails(c)
       PROVE  TypeOK'
  <2>1. Holds(c) /\ arg[c] \in Events /\ Return(c)
    BY <1>13 DEF SyncFails, CallsOK
  <2> QED
    BY <1>13, <2>1, ReturnType, SMT DEF TypeOK, SyncFails, Fault, files, memory
<1>14. CASE Shutdown
  BY <1>14, SMT DEF TypeOK, Shutdown, Stop, files
<1>15. CASE Crash
  <2>1. \/ UNCHANGED <<log, tail>>
        \/ \E c \in Clients : arg[c] \in Events /\ PartialWrite(c)
    BY <1>15 DEF Crash, CallsOK
  <2>2. /\ log' \in Seq(Lines) /\ tail' \in {"clean", "rest", "open"}
        /\ synced \in 0 .. Len(log')
    BY <2>1, PartialWriteType DEF TypeOK
  <2> QED
    BY <1>15, <2>2, SMT DEF TypeOK, Crash, Stop, Fault
<1>16. CASE PowerLoss
  <2>1. PICK n \in synced .. Len(log) : log' = SubSeq(log, 1, n)
    BY <1>16 DEF PowerLoss
  <2>2. log' \in Seq(Lines) /\ synced \in 0 .. Len(log')
    BY <2>1, SMT DEF TypeOK
  <2> QED
    BY <1>16, <2>2, SMT DEF TypeOK, PowerLoss, Stop, Fault
<1> QED
  BY <1>1, <1>2, <1>3, <1>4, <1>5, <1>6, <1>7, <1>8, <1>9, <1>10, <1>11,
     <1>12, <1>13, <1>14, <1>15, <1>16 DEF Next, Accept

\* A candidate that is decided "Stored" is durable.
LEMMA StoredDurable ==
  ASSUME NEW c \in Clients, Decision(c) = "Stored"
  PROVE  ~is_ephemeral_kind(arg[c].kind)
<1>1. is_ephemeral_kind(arg[c].kind) => classify_event(arg[c]) = "Ephemeral"
  BY DEF classify_event
<1> QED
  BY <1>1 DEF Decision, decide_event

\* Only the client that holds the mutex is past its decision, so its return
\* leaves none.
LEMMA ReturnCalls ==
  ASSUME TypeOK, CallsOK, NEW c \in Clients, Holds(c), Return(c), mode' = mode
  PROVE  CallsOK'
<1>1. SUFFICES ASSUME NEW d \in Clients
               PROVE  /\ pc'[d] \in {"idle", "queued"}
                      /\ pc'[d] # "idle" => arg'[d] \in Valid /\ mode' = "up"
  BY DEF CallsOK
<1>2. CASE d = c
  BY <1>2 DEF Return, TypeOK
<1>3. CASE d # c
  <2>1. pc'[d] = pc[d] /\ arg'[d] = arg[d]
    BY <1>3 DEF Return, TypeOK
  <2>2. pc[d] \notin {"writing", "syncing"}
    BY <1>3 DEF CallsOK, Holds
  <2> QED
    BY <2>1, <2>2 DEF CallsOK, TypeOK
<1> QED
  BY <1>2, <1>3

(***************************************************************************)
(* A call past its decision holds the mutex, with a durable event, and the *)
(* end of the log is its own record when it waits for the barrier.         *)
(***************************************************************************)
LEMMA CallsStep ==
  ASSUME TypeOK, CallsOK, TailOK, Next
  PROVE  CallsOK'
<1>1. CASE Open \/ ReplayLine \/ OpenDone \/ OpenRefused
  <2>1. \A c \in Clients : pc[c] = "idle"
    BY <1>1 DEF Open, ReplayLine, OpenDone, OpenRefused, CallsOK
  <2>2. pc' = pc
    BY <1>1 DEF Open, ReplayLine, OpenDone, OpenRefused, calls
  <2> QED
    BY <2>1, <2>2 DEF CallsOK
<1>2. ASSUME NEW c \in Clients, NEW e \in Events, Submit(c, e)
      PROVE  CallsOK'
  <2>1. /\ pc' = [pc EXCEPT ![c] = "queued"] /\ arg' = [arg EXCEPT ![c] = e]
        /\ queue' = Append(queue, c) /\ e \in Valid /\ mode = "up"
        /\ UNCHANGED <<log, tail, writer, mode>>
    BY <1>2 DEF Submit, files
  <2>2. ASSUME NEW d \in Clients, Holds(d) PROVE Holds(d)'
    BY <2>1, <2>2, SMT DEF Holds, TypeOK
  <2>3. ASSUME NEW d \in Clients, d # c
        PROVE  pc'[d] = pc[d] /\ arg'[d] = arg[d]
    BY <2>1, <2>3 DEF TypeOK
  <2>4. pc'[c] = "queued" /\ arg'[c] = e
    BY <2>1 DEF TypeOK
  <2> QED
    BY <2>1, <2>2, <2>3, <2>4 DEF CallsOK
<1>3. ASSUME NEW c \in Clients,
             \/ DecideDuplicate(c) \/ DecideEphemeral(c) \/ DecideSuperseded(c)
             \/ SyncFails(c) \/ WriteFails(c) \/ Sync(c)
      PROVE  CallsOK'
  <2>1. Holds(c) /\ Return(c) /\ mode' = mode
    BY <1>3 DEF DecideDuplicate, DecideEphemeral, DecideSuperseded, SyncFails,
                WriteFails, Sync, ApplyStored, Answer, CallsOK
  <2> QED
    BY <2>1, ReturnCalls
<1>4. ASSUME NEW c \in Clients, DecideStored(c)
      PROVE  CallsOK'
  <2>1. CASE ~writer
    <3>1. Holds(c) /\ Return(c) /\ mode' = mode
      BY <1>4, <2>1 DEF DecideStored, ApplyStored, Answer
    <3> QED
      BY <3>1, ReturnCalls
  <2>2. CASE writer
    <3>1. /\ pc' = [pc EXCEPT ![c] = "writing"] /\ pc[c] = "queued" /\ Holds(c)
          /\ UNCHANGED <<log, tail, writer, mode, queue, arg>>
      BY <1>4, <2>2 DEF DecideStored, files
    <3>2. ~is_ephemeral_kind(arg[c].kind)
      BY <1>4, StoredDurable DEF DecideStored
    <3>3. Holds(c)'
      BY <3>1 DEF Holds
    <3>4. ASSUME NEW d \in Clients, d # c
          PROVE  pc'[d] = pc[d] /\ pc[d] \notin {"writing", "syncing"}
      BY <3>1, <3>4 DEF TypeOK, CallsOK, Holds
    <3>5. pc'[c] = "writing"
      BY <3>1 DEF TypeOK
    <3> QED
      BY <2>2, <3>1, <3>2, <3>3, <3>4, <3>5 DEF CallsOK
  <2> QED
    BY <2>1, <2>2
<1>5. ASSUME NEW c \in Clients, Write(c)
      PROVE  CallsOK'
  <2>1. /\ pc' = [pc EXCEPT ![c] = "syncing"] /\ pc[c] = "writing"
        /\ tail' = "clean"
        /\ UNCHANGED <<writer, mode, queue, arg>>
    BY <1>5 DEF Write
  <2>2. Holds(c)' /\ Holds(c)
    BY <2>1 DEF Holds, CallsOK
  <2>3. Len(log') > 0 /\ log'[Len(log')] \in {arg[c], Glued}
    <3>1. CASE tail = "clean"
      BY <1>5, <3>1, SMT DEF Write, TypeOK
    <3>2. CASE tail = "rest"
      BY <1>5, <3>2, SMT DEF Write, TypeOK
    <3>3. CASE tail = "open"
      <4>1. Front(log) \in Seq(Lines)
        BY <3>3, FrontSeq, SMT DEF TypeOK, TailOK
      <4>2. log' = Append(Front(log), Glued)
        BY <1>5, <3>3 DEF Write
      <4> QED
        BY <4>1, <4>2, SMT
    <3> QED
      BY <3>1, <3>2, <3>3 DEF TypeOK
  <2>4. ASSUME NEW d \in Clients, d # c
        PROVE  pc'[d] = pc[d] /\ pc[d] \notin {"writing", "syncing"}
    BY <2>1, <2>2, <2>4 DEF TypeOK, CallsOK, Holds
  <2>5. pc'[c] = "syncing"
    BY <2>1 DEF TypeOK
  <2> QED
    BY <2>1, <2>2, <2>3, <2>4, <2>5 DEF CallsOK
<1>6. CASE Shutdown \/ Crash \/ PowerLoss
  <2>1. pc' = [c \in Clients |-> "idle"]
    BY <1>6 DEF Shutdown, Crash, PowerLoss, Stop
  <2> QED
    BY <2>1 DEF CallsOK
<1> QED
  BY <1>1, <1>2, <1>3, <1>4, <1>5, <1>6 DEF Next, Accept

(***************************************************************************)
(* A record that lacks its newline is never behind the barrier.            *)
(***************************************************************************)
LEMMA TailStep ==
  ASSUME TypeOK, CallsOK, TailOK, Next
  PROVE  TailOK'
<1>1. CASE UNCHANGED files
  BY <1>1 DEF TailOK, files
<1>2. ASSUME NEW c \in Clients, Write(c) \/ Sync(c)
      PROVE  TailOK'
  BY <1>2 DEF TailOK, Write, Sync, CallsOK
<1>3. ASSUME NEW c \in Clients, PartialWrite(c), UNCHANGED synced
      PROVE  TailOK'
  BY <1>3, SMT DEF PartialWrite, TailOK, TypeOK
<1>4. CASE PowerLoss
  <2>1. PICK n \in synced .. Len(log) :
          log' = SubSeq(log, 1, n) /\ (tail' = "open" => n > synced)
    BY <1>4 DEF PowerLoss
  <2>2. Len(log') = n
    BY <2>1, SMT DEF TypeOK
  <2> QED
    BY <1>4, <2>1, <2>2 DEF TailOK, PowerLoss
<1>5. CASE Crash
  <2>1. CASE UNCHANGED <<log, tail>>
    BY <1>5, <2>1 DEF Crash, TailOK
  <2> QED
    BY <1>5, <2>1, <1>3 DEF Crash
<1>6. \/ UNCHANGED files \/ Crash \/ PowerLoss
      \/ \E c \in Clients : \/ Write(c) \/ Sync(c)
                            \/ PartialWrite(c) /\ UNCHANGED synced
  BY DEF Next, Accept, Open, ReplayLine, OpenDone, OpenRefused, Submit,
         DecideDuplicate, DecideEphemeral, DecideSuperseded, DecideStored,
         WriteFails, SyncFails, Shutdown
<1> QED
  BY <1>1, <1>2, <1>3, <1>4, <1>5, <1>6

(***************************************************************************)
(* The memory follows its journal: both start empty, and every event that  *)
(* enters the journal is applied to the effective events in the same step. *)
(***************************************************************************)
LEMMA MemoryStep ==
  ASSUME TypeOK, CallsOK, EffectiveIsWinners, JournalCovered, Next
  PROVE  EffectiveIsWinners' /\ JournalCovered'
<1>1. CASE UNCHANGED <<events, journal>>
  BY <1>1 DEF EffectiveIsWinners, JournalCovered
<1>2. CASE events' = {} /\ journal' = <<>>
  BY <1>2, EventsOfEmpty DEF EffectiveIsWinners, JournalCovered, Winners
<1>3. ASSUME NEW e \in Events,
             events' = apply_effective_event(events, e),
             journal' = Append(journal, e)
      PROVE  EffectiveIsWinners' /\ JournalCovered'
  <2>1. EventsOf(journal') = EventsOf(journal) \cup {e}
    BY <1>3, EventsOfAppend DEF TypeOK
  <2>2. EventsOf(journal) \in SUBSET Events
    BY EventsOfSeq DEF TypeOK
  <2>3. \A s \in EventsOf(journal) :
          is_ephemeral_kind(s.kind) \/ Covered(s, Winners(EventsOf(journal)))
    BY DEF JournalCovered, EffectiveIsWinners
  <2>4. /\ events' = Winners(EventsOf(journal) \cup {e})
        /\ \A s \in EventsOf(journal) \cup {e} :
             is_ephemeral_kind(s.kind) \/ Covered(s, events')
    BY <1>3, <2>2, <2>3, ApplyWinners DEF EffectiveIsWinners
  <2> QED
    BY <2>1, <2>4 DEF EffectiveIsWinners, JournalCovered
<1>4. CASE ReplayLine
  BY <1>4, <1>3, StoreAssumption DEF ReplayLine
<1>5. ASSUME NEW c \in Clients, ApplyStored(c), arg[c] \in Valid
      PROVE  EffectiveIsWinners' /\ JournalCovered'
  BY <1>5, <1>3, StoreAssumption DEF ApplyStored
<1>6. \/ UNCHANGED <<events, journal>> \/ (events' = {} /\ journal' = <<>>)
      \/ ReplayLine
      \/ \E c \in Clients : ApplyStored(c) /\ arg[c] \in Valid
  BY DEF Next, Accept, Open, OpenDone, OpenRefused, Submit,
         DecideDuplicate, DecideEphemeral, DecideSuperseded, DecideStored,
         Write, Sync, WriteFails, SyncFails, Shutdown, Crash, PowerLoss, Stop,
         memory, CallsOK
<1> QED
  BY <1>1, <1>2, <1>4, <1>5, <1>6

(***************************************************************************)
(* While the log is replayed it does not change, so the journal stays its  *)
(* beginning.                                                              *)
(***************************************************************************)
LEMMA ReplayStep ==
  ASSUME TypeOK, CallsOK, ReplayPrefix, Next
  PROVE  ReplayPrefix'
<1>1. CASE mode' # "opening"
  BY <1>1 DEF ReplayPrefix
<1>2. CASE Open
  BY <1>2, SMT DEF Open, ReplayPrefix, TypeOK, files
<1>3. CASE ReplayLine
  <2>1. /\ journal' = Append(journal, NextLine) /\ log' = log /\ writer
        /\ writer' = writer /\ Len(journal) < Len(log)
        /\ \A i \in 1 .. Len(journal) : journal[i] = log[i]
    BY <1>3 DEF ReplayLine, ReplayPrefix, files
  <2>2. Len(journal') = Len(journal) + 1
    BY <2>1, SMT DEF TypeOK
  <2>3. \A i \in 1 .. Len(journal) : journal'[i] = journal[i]
    BY <2>1, SMT DEF TypeOK
  <2>4. journal'[Len(journal) + 1] = log[Len(journal) + 1]
    BY <2>1, SMT DEF TypeOK, NextLine
  <2>5. Len(journal) \in Nat /\ Len(log) \in Nat
    BY SMT DEF TypeOK
  <2>6. \A i \in 1 .. Len(journal) + 1 :
          i \in 1 .. Len(journal) \/ i = Len(journal) + 1
    BY <2>5, SMT
  <2> QED
    BY <2>1, <2>2, <2>3, <2>4, <2>5, <2>6, SMT DEF ReplayPrefix
<1>4. ASSUME NEW c \in Clients, pc[c] # "idle", UNCHANGED mode
      PROVE  mode' # "opening"
  BY <1>4 DEF CallsOK
<1>5. mode' # "opening" \/ Open \/ ReplayLine
  BY <1>4 DEF Next, Accept, OpenDone, OpenRefused, Submit, DecideDuplicate,
       DecideEphemeral, DecideSuperseded, DecideStored, Write, Sync,
       WriteFails, SyncFails, Shutdown, Crash, PowerLoss, Stop
<1> QED
  BY <1>1, <1>2, <1>3, <1>5

(***************************************************************************)
(* What is behind the barrier stays there, unchanged, whatever fails.      *)
(***************************************************************************)
LEMMA StablePrefix ==
  ASSUME TypeOK, CallsOK, TailOK, Next
  PROVE  /\ synced <= synced'
         /\ \A i \in 1 .. synced : log'[i] = log[i]
<1> DEFINE Stable == synced <= synced' /\ \A i \in 1 .. synced : log'[i] = log[i]
<1>t. /\ synced \in Nat /\ Len(log) \in Nat /\ synced <= Len(log)
      /\ log \in Seq(Lines)
  BY SMT DEF TypeOK
<1>1. CASE UNCHANGED <<log, synced>>
  BY <1>1, <1>t, SMT
<1>2. ASSUME NEW x, log' = Append(log, x), UNCHANGED synced
      PROVE  Stable
  BY <1>2, <1>t, SMT
<1>3. ASSUME tail = "open"
      PROVE  /\ Front(log) \in Seq(Lines) /\ Len(Front(log)) = Len(log) - 1
             /\ \A i \in 1 .. synced : Front(log)[i] = log[i]
             /\ synced < Len(log)
  BY <1>3, <1>t, FrontSeq, SMT DEF TailOK
<1>4. ASSUME NEW c \in Clients, Write(c)
      PROVE  Stable
  <2>1. CASE tail = "open"
    <3>1. log' = Append(Front(log), Glued) /\ synced' = synced
      BY <1>4, <2>1 DEF Write
    <3> QED
      BY <3>1, <2>1, <1>3, <1>t, SMT
  <2>2. CASE tail # "open"
    <3>1. \E x : log' = Append(log, x)
      BY <1>4, <2>2 DEF Write, TypeOK
    <3>2. synced' = synced
      BY <1>4 DEF Write
    <3> QED
      BY <3>1, <3>2, <1>2
  <2> QED
    BY <2>1, <2>2
<1>5. ASSUME NEW c \in Clients, Sync(c)
      PROVE  Stable
  BY <1>5, <1>t DEF Sync
<1>6. ASSUME NEW c \in Clients, PartialWrite(c), UNCHANGED synced
      PROVE  Stable
  <2>1. CASE tail = "open" /\ log' = Front(log)
    BY <2>1, <1>6, <1>3, <1>t, SMT
  <2>2. CASE log' = Append(log, arg[c])
    BY <2>2, <1>6, <1>2
  <2> QED
    BY <2>1, <2>2, <1>1, <1>6 DEF PartialWrite
<1>7. CASE PowerLoss
  <2>1. PICK n \in synced .. Len(log) : log' = SubSeq(log, 1, n)
    BY <1>7 DEF PowerLoss
  <2> QED
    BY <1>7, <2>1, <1>t, SMT DEF PowerLoss
<1>8. \/ UNCHANGED <<log, synced>> \/ PowerLoss
      \/ \E c \in Clients : \/ Write(c) \/ Sync(c)
                            \/ PartialWrite(c) /\ UNCHANGED synced
  BY DEF Next, Accept, Open, ReplayLine, OpenDone, OpenRefused, Submit,
         DecideDuplicate, DecideEphemeral, DecideSuperseded, DecideStored,
         WriteFails, SyncFails, Shutdown, Crash, files
<1> QED
  BY <1>1, <1>4, <1>5, <1>6, <1>7, <1>8

(***************************************************************************)
(* An event is acknowledged as stored only where it is applied: behind the *)
(* barrier, or in a store without a file.                                  *)
(***************************************************************************)
LEMMA AckGrows ==
  ASSUME TypeOK, CallsOK, Next
  PROVE  \/ Acknowledged' = Acknowledged
         \/ \E c \in Clients :
              /\ ApplyStored(c)
              /\ Sync(c) \/ (DecideStored(c) /\ ~writer)
              /\ arg[c] \in Events /\ ~is_ephemeral_kind(arg[c].kind)
              /\ Acknowledged' = Acknowledged \cup {arg[c]}
<1>1. CASE UNCHANGED answers
  BY <1>1 DEF Acknowledged
<1>2. ASSUME NEW c \in Clients, NEW m \in Messages \ {"stored"},
             answers' = answers \cup {<<arg[c], m>>}
      PROVE  Acknowledged' = Acknowledged
  BY <1>2 DEF Acknowledged
<1>3. ASSUME NEW c \in Clients, ApplyStored(c), arg[c] \in Events
      PROVE  Acknowledged' = Acknowledged \cup {arg[c]}
  BY <1>3 DEF ApplyStored, Answer, Acknowledged
<1>4. ASSUME NEW c \in Clients,
             DecideDuplicate(c) \/ DecideEphemeral(c) \/ DecideSuperseded(c)
      PROVE  Acknowledged' = Acknowledged
  <2>1. \E m \in Messages \ {"stored"} : answers' = answers \cup {<<arg[c], m>>}
    BY <1>4 DEF DecideDuplicate, DecideEphemeral, DecideSuperseded, Answer,
                Messages
  <2> QED
    BY <2>1, <1>2
<1>5. ASSUME NEW c \in Clients, DecideStored(c), ~writer
      PROVE  /\ ApplyStored(c) /\ arg[c] \in Events
             /\ ~is_ephemeral_kind(arg[c].kind)
  BY <1>5, StoredDurable, StoreAssumption DEF DecideStored, CallsOK
<1>6. ASSUME NEW c \in Clients, Sync(c)
      PROVE  /\ ApplyStored(c) /\ arg[c] \in Events
             /\ ~is_ephemeral_kind(arg[c].kind)
  BY <1>6, StoreAssumption DEF Sync, CallsOK
<1>7. \/ UNCHANGED answers
      \/ \E c \in Clients : \/ DecideDuplicate(c) \/ DecideEphemeral(c)
                            \/ DecideSuperseded(c) \/ Sync(c)
                            \/ DecideStored(c) /\ ~writer
  BY DEF Next, Accept, Open, ReplayLine, OpenDone, OpenRefused, Submit,
         DecideStored, Write, WriteFails, SyncFails, Shutdown, Crash, PowerLoss
<1> QED
  BY <1>1, <1>3, <1>4, <1>5, <1>6, <1>7

(***************************************************************************)
(* Acknowledged events are behind the barrier and, while the store is      *)
(* open, in its journal.                                                   *)
(***************************************************************************)
LEMMA AckStep ==
  ASSUME TypeOK, CallsOK, TailOK, ReplayPrefix, AckStable, AckInJournal,
         AckDurable, Next
  PROVE  AckStable' /\ AckInJournal' /\ AckDurable'
<1>w. writer' = writer
  BY DEF Next, Accept, Open, ReplayLine, OpenDone, OpenRefused, Submit,
         DecideDuplicate, DecideEphemeral, DecideSuperseded, DecideStored,
         Write, Sync, WriteFails, SyncFails, Shutdown, Crash, PowerLoss
<1>t. /\ synced \in Nat /\ Len(log) \in Nat /\ synced <= Len(log)
      /\ synced' \in Nat
  BY TypeStep, SMT DEF TypeOK
<1>d. AckDurable'
  BY AckGrows DEF AckDurable
<1>s. AckStable'
  <2>1. SUFFICES ASSUME writer, NEW e \in Acknowledged'
                 PROVE  \E i \in 1 .. synced' : log'[i] \in {e, Glued}
    BY <1>w DEF AckStable
  <2>2. CASE e \in Acknowledged
    <3>1. PICK i \in 1 .. synced : log[i] \in {e, Glued}
      BY <2>1, <2>2 DEF AckStable
    <3> QED
      BY <3>1, <1>t, StablePrefix, SMT
  <2>3. CASE e \notin Acknowledged
    <3>1. PICK c \in Clients : Sync(c) /\ e = arg[c]
      BY <2>1, <2>3, AckGrows
    <3>2. Len(log) > 0 /\ log[Len(log)] \in {e, Glued}
      BY <3>1 DEF Sync, CallsOK
    <3>3. synced' = Len(log) /\ log' = log
      BY <3>1 DEF Sync
    <3> QED
      BY <3>2, <3>3, <1>t, SMT
  <2> QED
    BY <2>2, <2>3
<1>j. AckInJournal'
  <2>1. SUFFICES ASSUME writer, mode' = "up"
                 PROVE  Acknowledged' \subseteq EventsOf(journal')
    BY <1>w DEF AckInJournal
  <2>2. CASE mode = "up" /\ UNCHANGED journal /\ Acknowledged' = Acknowledged
    BY <2>1, <2>2 DEF AckInJournal
  <2>3. ASSUME mode = "up", NEW c \in Clients, ApplyStored(c),
               Acknowledged' = Acknowledged \cup {arg[c]}
        PROVE  Acknowledged' \subseteq EventsOf(journal')
    <3>1. EventsOf(journal') = EventsOf(journal) \cup {arg[c]}
      BY <2>3, EventsOfAppend DEF ApplyStored, TypeOK
    <3> QED
      BY <2>1, <2>3, <3>1 DEF AckInJournal
  <2>4. CASE OpenDone
    <3>1. /\ journal' = journal /\ Acknowledged' = Acknowledged
          /\ Len(journal) = Len(log)
          /\ \A i \in 1 .. Len(journal) : journal[i] = log[i]
      BY <2>4 DEF OpenDone, memory, Acknowledged, ReplayPrefix
    <3>2. SUFFICES ASSUME NEW e \in Acknowledged PROVE e \in EventsOf(journal)
      BY <3>1
    <3>3. PICK i \in 1 .. synced : log[i] \in {e, Glued}
      BY <2>1 DEF AckStable
    <3>4. i \in 1 .. Len(journal) /\ journal[i] = log[i]
      BY <3>1, <3>3, <1>t, SMT
    <3>5. journal[i] \in Events
      BY <3>4, SMT DEF TypeOK
    <3>6. journal[i] = e
      BY <3>3, <3>4, <3>5, StoreAssumption
    <3> QED
      BY <3>4, <3>6, SMT DEF EventsOf, TypeOK
  <2>5. ASSUME NEW c \in Clients, Sync(c) PROVE mode = "up"
    BY <2>5 DEF Sync, CallsOK
  <2>6. CASE Acknowledged' # Acknowledged
    BY <2>1, <2>3, <2>5, <2>6, AckGrows
  <2>7. CASE Acknowledged' = Acknowledged
    <3>1. \/ mode = "up" /\ UNCHANGED journal
          \/ OpenDone
          \/ \E c \in Clients : Sync(c) \/ (DecideStored(c) /\ ApplyStored(c))
      BY <2>1 DEF Next, Accept, Open, ReplayLine, OpenRefused, Submit,
           DecideDuplicate, DecideEphemeral, DecideSuperseded, DecideStored,
           Write, WriteFails, SyncFails, Shutdown, Crash, PowerLoss, Stop,
           memory, CallsOK
    <3>2. ASSUME NEW c \in Clients, Sync(c) \/ (DecideStored(c) /\ ApplyStored(c))
          PROVE  Acknowledged' \subseteq EventsOf(journal')
      <4>1. ApplyStored(c) /\ mode = "up"
        BY <3>2 DEF Sync, DecideStored, CallsOK
      <4>2. EventsOf(journal') = EventsOf(journal) \cup {arg[c]}
        BY <4>1, EventsOfAppend DEF ApplyStored, TypeOK
      <4> QED
        BY <2>1, <2>7, <4>1, <4>2 DEF AckInJournal
    <3> QED
      BY <2>2, <2>4, <2>7, <3>1, <3>2
  <2> QED
    BY <2>6, <2>7
<1> QED
  BY <1>d, <1>s, <1>j

-----------------------------------------------------------------------------
(***************************************************************************)
(* The invariant holds at the start, and every step of the store keeps it. *)
(***************************************************************************)
LEMMA InvInit == Init => IInv
<1> SUFFICES ASSUME Init PROVE IInv
  OBVIOUS
<1>2. TypeOK
  BY StoreAssumption, SMT DEF Init, TypeOK
<1>3. events = Winners(EventsOf(journal)) /\ EventsOf(journal) = {}
  BY EventsOfEmpty DEF Init, Winners
<1>4. CallsOK
  BY DEF Init, CallsOK
<1>5. Acknowledged = {}
  BY DEF Init, Acknowledged
<1> QED
  BY <1>2, <1>3, <1>4, <1>5 DEF Init, IInv, TailOK, EffectiveIsWinners,
     JournalCovered, ReplayPrefix, AckStable, AckInJournal, AckDurable

\* Every step of a caller, the store or the disk keeps the invariant.
LEMMA InvStep == IInv /\ [Next]_vars => IInv'
<1>1. SUFFICES ASSUME IInv, [Next]_vars PROVE IInv'
  OBVIOUS
<1>2. CASE Next
  BY <1>1, <1>2, TypeStep, CallsStep, TailStep, MemoryStep, ReplayStep, AckStep
  DEF IInv
<1>3. CASE UNCHANGED vars
  BY <1>1, <1>3, SMT DEF IInv, vars, files, memory, calls, TypeOK, CallsOK, Holds,
     TailOK, EffectiveIsWinners, JournalCovered, ReplayPrefix, AckStable,
     AckInJournal, AckDurable, Acknowledged
<1> QED
  BY <1>1, <1>2, <1>3

\* The inductive invariant holds in every reachable state of the store, across
\* failed appends, cancelled calls, stops and power losses.
THEOREM Invariance == Spec => []IInv
BY InvInit, InvStep, PTL DEF Spec

(***************************************************************************)
(* The variables of the store keep their types, through every order of     *)
(* calls, failures and restarts.                                           *)
(***************************************************************************)
THEOREM TypeCorrect == Spec => []TypeOK
<1>1. IInv => TypeOK
  BY DEF IInv
<1> QED
  BY Invariance, <1>1, PTL

(***************************************************************************)
(* accept() and replay_log keep the effective events of memory the winners *)
(* of the journal, for every set of events and every order.                *)
(***************************************************************************)
THEOREM MemoryShowsWinners == Spec => []EffectiveIsWinners
<1>1. IInv => EffectiveIsWinners
  BY DEF IInv
<1> QED
  BY Invariance, <1>1, PTL

(***************************************************************************)
(* An event answered "stored" by a durable store is served, as itself or   *)
(* through a winner of its key, whenever the store is open again.          *)
(***************************************************************************)
THEOREM StoredIsServed == Spec => []StoredSurvives
<1>1. IInv => StoredSurvives
  BY DEF IInv, StoredSurvives, AckInJournal, AckDurable, JournalCovered
<1> QED
  BY Invariance, <1>1, PTL
-----------------------------------------------------------------------------
(***************************************************************************)
(* One line per event.  A second inductive invariant, on top of the first, *)
(* says where an event of the log is known to an open store: in seen_ids,  *)
(* among the failed appends, or with the call that waits for the barrier.  *)
(***************************************************************************)
\* Every event of the journal is in seen_ids.
JournalSeen == EventsOf(journal) \subseteq seen

\* The event that is about to be written is not in seen_ids.
WritingFresh == \A c \in Clients : pc[c] = "writing" => arg[c] \notin seen

\* An open durable store knows every line of its log.
LogKnown ==
  mode = "up" /\ writer =>
    \A i \in DOMAIN log :
      \/ log[i] \in seen \cup aborted \cup {Glued}
      \/ \E c \in Clients : pc[c] = "syncing" /\ arg[c] = log[i]

OnceInv == JournalSeen /\ WritingFresh /\ LogKnown /\ LogOnce

\* What an append leaves of the log, whole, partial or failed: old lines in their
\* places, a glued line, or the record behind all others.
LEMMA AppendShape ==
  ASSUME TypeOK, CallsOK, TailOK, NEW c \in Clients, pc[c] = "writing",
         Write(c) \/ PartialWrite(c)
  PROVE  \A i \in DOMAIN log' :
           \/ i \in DOMAIN log /\ log'[i] = log[i]
           \/ log'[i] = Glued
           \/ i = Len(log) + 1 /\ log'[i] = arg[c]
<1>t. log \in Seq(Lines) /\ Len(log) \in Nat /\ DOMAIN log = 1 .. Len(log)
  BY SMT DEF TypeOK
<1>1. ASSUME NEW x \in {arg[c], Glued}, log' = Append(log, x)
      PROVE  \A i \in DOMAIN log' :
               \/ i \in DOMAIN log /\ log'[i] = log[i]
               \/ i = Len(log) + 1 /\ log'[i] = x
  BY <1>1, <1>t, SMT
<1>2. CASE log' = log
  BY <1>2
<1>3. ASSUME tail = "open"
      PROVE  /\ Front(log) \in Seq(Lines) /\ Len(Front(log)) = Len(log) - 1
             /\ \A i \in 1 .. Len(log) - 1 : Front(log)[i] = log[i]
             /\ Len(log) > 0
  <2>1. Len(log) > 0
    BY <1>3, <1>t, SMT DEF TypeOK, TailOK
  <2> QED
    BY <2>1, <1>t, FrontSeq
<1>4. CASE tail = "open" /\ log' = Front(log)
  <2>1. DOMAIN log' = 1 .. Len(log) - 1 /\ \A i \in 1 .. Len(log) - 1 : log'[i] = log[i]
    BY <1>3, <1>4, SMT
  <2> QED
    BY <2>1, <1>t, SMT
<1>5. CASE tail = "open" /\ log' = Append(Front(log), Glued)
  <2>1. \A i \in DOMAIN log' : (i \in 1 .. Len(log) - 1 /\ log'[i] = Front(log)[i]) \/ log'[i] = Glued
    BY <1>3, <1>5, SMT
  <2> QED
    BY <2>1, <1>3, <1>5, <1>t, SMT
<1>6. \/ log' = log \/ (\E x \in {arg[c], Glued} : log' = Append(log, x))
      \/ (tail = "open" /\ log' = Front(log))
      \/ (tail = "open" /\ log' = Append(Front(log), Glued))
  BY DEF Write, PartialWrite, TypeOK
<1> QED
  BY <1>1, <1>2, <1>4, <1>5, <1>6

\* Lines that stay, glued lines and one new record repeat an event only if an
\* append of it failed.
LEMMA OnceKept ==
  ASSUME LogOnce, aborted \subseteq aborted', NEW c \in Clients,
         \A i \in DOMAIN log' : \/ i \in DOMAIN log /\ log'[i] = log[i]
                                \/ log'[i] = Glued
                                \/ i = Len(log) + 1 /\ log'[i] = arg[c],
         \A i \in DOMAIN log : log[i] = arg[c] => arg[c] \in aborted'
  PROVE  LogOnce'
<1> SUFFICES ASSUME NEW i \in DOMAIN log', NEW j \in DOMAIN log',
                    i # j, log'[i] = log'[j], log'[i] # Glued
             PROVE  log'[i] \in aborted'
  BY DEF LogOnce
<1>1. CASE i \in DOMAIN log /\ log'[i] = log[i] /\ j \in DOMAIN log /\ log'[j] = log[j]
  BY <1>1 DEF LogOnce
<1>2. CASE i = Len(log) + 1 /\ log'[i] = arg[c] /\ j \in DOMAIN log /\ log'[j] = log[j]
  BY <1>2
<1>3. CASE j = Len(log) + 1 /\ log'[j] = arg[c] /\ i \in DOMAIN log /\ log'[i] = log[i]
  BY <1>3
<1> QED
  BY <1>1, <1>2, <1>3

\* While a record is being written no line holds its event, unless an append of
\* it failed before: seen_ids knows the log, and only one call appends.
LEMMA WritingIsNew ==
  ASSUME TypeOK, CallsOK, WritingFresh, LogKnown, NEW c \in Clients, pc[c] = "writing"
  PROVE  \A i \in DOMAIN log : log[i] \in seen \cup aborted \cup {Glued}
<1>1. mode = "up" /\ writer /\ Holds(c)
  BY DEF CallsOK
<1>2. \A d \in Clients : pc[d] # "syncing"
  BY <1>1 DEF CallsOK, Holds
<1> QED
  BY <1>1, <1>2 DEF LogKnown

\* Every step keeps the log to one line per event.
LEMMA OnceStep ==
  ASSUME IInv, OnceInv, Next
  PROVE  OnceInv'
<1> USE DEF OnceInv
<1>i. TypeOK /\ CallsOK /\ TailOK /\ ReplayPrefix
  BY DEF IInv
<1>t. /\ log \in Seq(Lines) /\ Len(log) \in Nat /\ DOMAIN log = 1 .. Len(log)
      /\ journal \in Seq(Events) /\ pc \in [Clients -> {"idle", "queued", "writing", "syncing"}]
      /\ arg \in [Clients -> Events \cup {NoEvent}]
  BY <1>i, SMT DEF TypeOK
<1>o. ASSUME NEW c \in Clients, NEW d \in Clients, Holds(c), pc[d] \in {"writing", "syncing"}
      PROVE  c = d
  BY <1>i, <1>o DEF CallsOK, Holds
<1>h. ASSUME NEW c \in Clients, pc[c] \in {"writing", "syncing"}
      PROVE  Holds(c) /\ arg[c] \in Events /\ writer /\ mode = "up"
  BY <1>i, <1>h, StoreAssumption DEF CallsOK
<1>r. ASSUME NEW c \in Clients, Return(c)
      PROVE  /\ \A d \in Clients : d # c => pc'[d] = pc[d] /\ arg'[d] = arg[d]
             /\ pc'[c] = "idle"
  BY <1>r, <1>t DEF Return
<1>1. CASE Open
  <2>1. /\ journal' = <<>> /\ seen' = {} /\ mode' = (IF writer THEN "opening" ELSE "up")
        /\ UNCHANGED <<log, aborted, pc, writer>> /\ \A c \in Clients : pc[c] = "idle"
    BY <1>1, <1>i DEF Open, files, calls, CallsOK
  <2> QED
    BY <2>1, EventsOfEmpty DEF JournalSeen, WritingFresh, LogKnown, LogOnce
<1>2. CASE ReplayLine
  <2>1. /\ journal' = Append(journal, NextLine) /\ seen' = seen \cup {NextLine}
        /\ mode' = "opening"
        /\ UNCHANGED <<log, aborted, pc, writer>> /\ \A c \in Clients : pc[c] = "idle"
    BY <1>2, <1>i DEF ReplayLine, files, calls, CallsOK
  <2>2. JournalSeen'
    BY <2>1, <1>t, EventsOfAppend DEF JournalSeen
  <2> QED
    BY <2>1, <2>2 DEF WritingFresh, LogKnown, LogOnce
<1>3. CASE OpenDone
  <2>1. /\ UNCHANGED <<log, journal, seen, aborted, pc, arg, writer>>
        /\ Len(journal) = Len(log) /\ mode = "opening"
    BY <1>3 DEF OpenDone, files, memory, calls
  <2>2. \A i \in DOMAIN log : log[i] \in EventsOf(journal)
    BY <2>1, <1>t, <1>i, SMT DEF ReplayPrefix, EventsOf
  <2> QED
    BY <2>1, <2>2 DEF JournalSeen, WritingFresh, LogKnown, LogOnce
<1>4. CASE OpenRefused
  BY <1>4 DEF OpenRefused, files, memory, calls, JournalSeen, WritingFresh, LogKnown, LogOnce
<1>5. ASSUME NEW c \in Clients, NEW e \in Events, Submit(c, e)
      PROVE  OnceInv'
  <2>1. /\ UNCHANGED <<log, journal, seen, aborted, mode, writer>> /\ pc[c] = "idle"
        /\ pc'[c] = "queued"
        /\ \A d \in Clients : d # c => pc'[d] = pc[d] /\ arg'[d] = arg[d]
    BY <1>5, <1>t DEF Submit, files, memory
  <2> QED
    BY <2>1, SMT DEF JournalSeen, WritingFresh, LogKnown, LogOnce
\* A call that decides without writing.
<1>6. ASSUME NEW c \in Clients, Holds(c), Return(c), pc[c] = "queued", seen \subseteq seen',
             UNCHANGED <<log, journal, aborted, mode, writer>>
      PROVE  OnceInv'
  <2>1. \A d \in Clients : pc[d] \notin {"writing", "syncing"}
    BY <1>6, <1>o
  <2>2. \A d \in Clients : pc'[d] \notin {"writing", "syncing"}
    BY <2>1, <1>6, <1>r
  <2> QED
    BY <1>6, <2>1, <2>2 DEF JournalSeen, WritingFresh, LogKnown, LogOnce
<1>7. ASSUME NEW c \in Clients, DecideDuplicate(c) \/ DecideEphemeral(c) \/ DecideSuperseded(c)
      PROVE  OnceInv'
  BY <1>7, <1>6 DEF DecideDuplicate, DecideEphemeral, DecideSuperseded, Answer, files, memory
<1>8. ASSUME NEW c \in Clients, DecideStored(c)
      PROVE  OnceInv'
  <2>1. CASE writer
    <3>1. /\ pc' = [pc EXCEPT ![c] = "writing"] /\ pc[c] = "queued" /\ Holds(c)
          /\ UNCHANGED <<log, journal, seen, aborted, mode, writer, arg>>
      BY <1>8, <2>1 DEF DecideStored, files, memory
    <3>2. arg[c] \notin seen
      BY <1>8 DEF DecideStored, Decision, decide_event
    <3>3. pc'[c] = "writing" /\ \A d \in Clients : d # c => pc'[d] = pc[d]
      BY <3>1, <1>t
    <3> QED
      BY <3>1, <3>2, <3>3, SMT DEF JournalSeen, WritingFresh, LogKnown, LogOnce
  <2>2. CASE ~writer
    <3>1. /\ ApplyStored(c) /\ Return(c) /\ Holds(c) /\ pc[c] = "queued"
          /\ UNCHANGED <<log, aborted, mode, writer>>
      BY <1>8, <2>2 DEF DecideStored, ApplyStored, Answer, files
    <3>2. JournalSeen'
      BY <3>1, <1>t, EventsOfAppend, SMT DEF ApplyStored, JournalSeen
    <3>3. \A d \in Clients : pc'[d] \notin {"writing", "syncing"}
      BY <3>1, <1>o, <1>r
    <3> QED
      BY <2>2, <3>1, <3>2, <3>3 DEF WritingFresh, LogKnown, LogOnce
  <2> QED
    BY <2>1, <2>2
<1>9. ASSUME NEW c \in Clients, Write(c)
      PROVE  OnceInv'
  <2>1. /\ pc' = [pc EXCEPT ![c] = "syncing"] /\ pc[c] = "writing"
        /\ UNCHANGED <<journal, seen, aborted, mode, writer, arg>>
    BY <1>9 DEF Write, memory
  <2>2. pc'[c] = "syncing" /\ \A d \in Clients : d # c => pc'[d] = pc[d]
    BY <2>1, <1>t
  <2>3. \A i \in DOMAIN log : log[i] \in seen \cup aborted \cup {Glued}
    BY <2>1, <1>i, WritingIsNew
  <2>4. \A i \in DOMAIN log' : \/ i \in DOMAIN log /\ log'[i] = log[i]
                               \/ log'[i] = Glued
                               \/ i = Len(log) + 1 /\ log'[i] = arg[c]
    BY <2>1, <1>9, <1>i, AppendShape
  <2>5. arg[c] \notin seen /\ arg[c] # Glued
    BY <2>1, <1>h, StoreAssumption DEF WritingFresh
  <2>6. LogOnce'
    BY <2>1, <2>3, <2>4, <2>5, OnceKept
  <2>7. LogKnown'
    BY <2>1, <2>2, <2>3, <2>4 DEF LogKnown
  <2>8. WritingFresh'
    BY <2>1, <2>2 DEF WritingFresh
  <2> QED
    BY <2>1, <2>6, <2>7, <2>8 DEF JournalSeen
<1>10. ASSUME NEW c \in Clients, Sync(c)
       PROVE  OnceInv'
  <2>1. /\ pc[c] = "syncing" /\ ApplyStored(c) /\ Return(c) /\ Holds(c)
        /\ UNCHANGED <<log, aborted, mode, writer>>
        /\ seen' = seen \cup {arg[c]}
    BY <1>10, <1>h DEF Sync, ApplyStored, Answer
  <2>2. JournalSeen'
    BY <2>1, <1>t, EventsOfAppend, SMT DEF ApplyStored, JournalSeen
  <2>3. \A d \in Clients : pc'[d] \notin {"writing", "syncing"}
    BY <2>1, <1>o, <1>r
  <2>4. \A d \in Clients : pc[d] = "syncing" => d = c
    BY <2>1, <1>o
  <2> QED
    BY <2>1, <2>2, <2>3, <2>4 DEF WritingFresh, LogKnown, LogOnce
<1>11. ASSUME NEW c \in Clients, WriteFails(c)
       PROVE  OnceInv'
  <2>1. /\ pc[c] = "writing" /\ PartialWrite(c) /\ Return(c) /\ Holds(c)
        /\ aborted' = aborted \cup {arg[c]}
        /\ UNCHANGED <<journal, seen, mode, writer>>
    BY <1>11, <1>h DEF WriteFails, memory
  <2>2. \A d \in Clients : pc'[d] \notin {"writing", "syncing"}
    BY <2>1, <1>o, <1>r
  <2>3. \A i \in DOMAIN log : log[i] \in seen \cup aborted \cup {Glued}
    BY <2>1, <1>i, WritingIsNew
  <2>4. \A i \in DOMAIN log' : \/ i \in DOMAIN log /\ log'[i] = log[i]
                               \/ log'[i] = Glued
                               \/ i = Len(log) + 1 /\ log'[i] = arg[c]
    BY <2>1, <1>i, AppendShape
  <2>5. LogOnce'
    <3>1. LogOnce /\ aborted \subseteq aborted' /\ arg[c] \in aborted'
      BY <2>1
    <3> QED
      BY <2>4, <3>1, OnceKept
  <2>6. LogKnown'
    BY <2>1, <2>3, <2>4 DEF LogKnown
  <2> QED
    BY <2>1, <2>2, <2>5, <2>6 DEF JournalSeen, WritingFresh
<1>12. ASSUME NEW c \in Clients, SyncFails(c)
       PROVE  OnceInv'
  <2>1. /\ pc[c] = "syncing" /\ Return(c) /\ Holds(c)
        /\ aborted' = aborted \cup {arg[c]}
        /\ UNCHANGED <<log, journal, seen, mode, writer>>
    BY <1>12, <1>h DEF SyncFails, memory, files
  <2>2. \A d \in Clients : pc'[d] \notin {"writing", "syncing"}
    BY <2>1, <1>o, <1>r
  <2>3. \A d \in Clients : pc[d] = "syncing" => d = c
    BY <2>1, <1>o
  <2> QED
    BY <2>1, <2>2, <2>3 DEF JournalSeen, WritingFresh, LogKnown, LogOnce
\* The process ends; the file keeps what an interrupted append left.
<1>13. ASSUME Stop, LogOnce' PROVE OnceInv'
  <2>1. journal' = <<>> /\ mode' = "down" /\ pc' = [c \in Clients |-> "idle"]
    BY <1>13 DEF Stop
  <2> QED
    BY <1>13, <2>1, EventsOfEmpty DEF JournalSeen, WritingFresh, LogKnown
<1>14. CASE Shutdown
  BY <1>14, <1>13 DEF Shutdown, files, LogOnce
<1>15. CASE Crash
  <2>1. Stop /\ aborted' = aborted
    BY <1>15 DEF Crash
  <2>2. CASE log' = log
    BY <2>1, <2>2, <1>13 DEF LogOnce
  <2>3. ASSUME NEW c \in Clients, pc[c] = "writing", PartialWrite(c)
        PROVE  OnceInv'
    <3>1. \A i \in DOMAIN log' : \/ i \in DOMAIN log /\ log'[i] = log[i]
                                 \/ log'[i] = Glued
                                 \/ i = Len(log) + 1 /\ log'[i] = arg[c]
      BY <2>3, <1>i, AppendShape
    <3>2. \A i \in DOMAIN log : log[i] \in seen \cup aborted \cup {Glued}
      BY <2>3, <1>i, WritingIsNew
    <3>3. arg[c] \notin seen /\ arg[c] # Glued
      BY <2>3, <1>h, StoreAssumption DEF WritingFresh
    <3>4. /\ LogOnce /\ aborted \subseteq aborted'
          /\ \A i \in DOMAIN log : log[i] = arg[c] => arg[c] \in aborted'
      BY <2>1, <3>2, <3>3
    <3>5. LogOnce'
      BY <3>1, <3>4, OnceKept
    <3> QED
      BY <2>1, <3>5, <1>13
  <2> QED
    BY <1>15, <2>2, <2>3 DEF Crash
<1>16. CASE PowerLoss
  <2>1. PICK n \in synced .. Len(log) : log' = SubSeq(log, 1, n)
    BY <1>16 DEF PowerLoss
  <2>2. n \in 0 .. Len(log)
    BY <2>1, <1>i, <1>t, SMT DEF TypeOK
  <2>3. DOMAIN log' = 1 .. n /\ \A i \in 1 .. n : log'[i] = log[i]
    BY <2>1, <2>2, <1>t, SMT
  <2>4. \A i \in DOMAIN log' : i \in DOMAIN log /\ log'[i] = log[i]
    BY <2>2, <2>3, <1>t, SMT
  <2>5. LogOnce'
    BY <2>4, <1>16 DEF PowerLoss, LogOnce
  <2> QED
    BY <2>5, <1>16, <1>13 DEF PowerLoss
<1> QED
  BY <1>1, <1>2, <1>3, <1>4, <1>5, <1>7, <1>8, <1>9, <1>10, <1>11, <1>12,
     <1>14, <1>15, <1>16 DEF Next, Accept

(***************************************************************************)
(* An event is twice in the log only when an append of it ended in an      *)
(* error, whatever calls overlapped: accept() asks seen_ids under the      *)
(* mutex it keeps until the record is synced.                              *)
(***************************************************************************)
THEOREM LogHoldsOnce == Spec => []LogOnce
<1>1. Init => OnceInv
  BY EventsOfEmpty, SMT DEF Init, OnceInv, JournalSeen, WritingFresh, LogKnown, LogOnce
<1>2. IInv /\ OnceInv /\ [Next]_vars => OnceInv'
  <2>1. CASE UNCHANGED vars
    BY <2>1 DEF vars, files, memory, calls, OnceInv, JournalSeen, WritingFresh, LogKnown, LogOnce
  <2> QED
    BY <2>1, OnceStep
<1>3. OnceInv => LogOnce
  BY DEF OnceInv
<1> QED
  BY <1>1, <1>2, <1>3, Invariance, PTL DEF Spec
-----------------------------------------------------------------------------
(***************************************************************************)
(* A file system that keeps records whole (no torn writes): the log holds  *)
(* events only, and covers what the memory has seen.                       *)
(***************************************************************************)
\* No record is cut short or glued to another.
LogWhole == tail = "clean" /\ \A i \in DOMAIN log : log[i] # Glued

\* What a durable store has in memory is in its log; what it has seen, a losing
\* candidate included, is covered by the log.
MemoryInLog ==
  writer /\ mode # "down" =>
    /\ EventsOf(journal) \subseteq EventsOf(log)
    /\ \A e \in seen : is_ephemeral_kind(e.kind) \/ Covered(e, EventsOf(log))

WholeInv == ~TornWrites => LogWhole /\ MemoryInLog

\* More lines cover more events.
LEMMA CoveredMonotone ==
  ASSUME NEW E, NEW F, E \subseteq F, NEW e, Covered(e, E)
  PROVE  Covered(e, F)
BY DEF Covered, Holders

\* A candidate that is decided "Superseded" lost to an effective event.
LEMMA SupersededCovered ==
  ASSUME TypeOK, NEW c \in Clients, arg[c] \in Events, Decision(c) = "Superseded"
  PROVE  Covered(arg[c], events)
<1>1. arg[c] \notin events /\ \E f \in Holders(events, arg[c]) :
                                ~replacement_candidate_wins(arg[c], f)
  BY DEF Decision, decide_event
<1>2. PICK f \in Holders(events, arg[c]) : ~replacement_candidate_wins(arg[c], f)
  BY <1>1
<1>3. f \in events /\ f \in Events /\ f # arg[c]
  BY <1>1, <1>2 DEF Holders, TypeOK
<1>4. replacement_candidate_wins(f, arg[c])
  BY <1>2, <1>3, WinsTotal
<1> QED
  BY <1>2, <1>4 DEF Covered

\* A candidate that is decided "Duplicate" was seen or is effective.
LEMMA DuplicateKnown ==
  ASSUME NEW c \in Clients, Decision(c) = "Duplicate"
  PROVE  arg[c] \in seen \/ arg[c] \in events
<1>1. ASSUME arg[c] \notin seen, arg[c] \notin events PROVE FALSE
  <2>1. Decision(c) \in {"Ephemeral", "Stored", "Superseded"}
    BY <1>1 DEF Decision, decide_event
  <2> QED
    BY <2>1
<1> QED
  BY <1>1

\* Where records are whole, the effective events are lines of the log.
LEMMA EffectiveInLog ==
  ASSUME IInv, MemoryInLog, writer, mode # "down"
  PROVE  events \subseteq EventsOf(log)
<1>1. events \subseteq EventsOf(journal)
  BY DEF IInv, EffectiveIsWinners, Winners
<1> QED
  BY <1>1 DEF MemoryInLog

\* Where records are whole, only a power loss takes lines from the log.
LEMMA LogGrows ==
  ASSUME IInv, LogWhole, ~TornWrites, Next
  PROVE  \/ PowerLoss
         \/ log' = log /\ tail' = tail
         \/ \E c \in Clients :
              /\ Write(c) /\ arg[c] \in Events
              /\ log' = Append(log, arg[c]) /\ tail' = "clean"
              /\ EventsOf(log') = EventsOf(log) \cup {arg[c]}
<1>1. ASSUME NEW c \in Clients, Write(c)
      PROVE  /\ arg[c] \in Events /\ log' = Append(log, arg[c]) /\ tail' = "clean"
             /\ EventsOf(log') = EventsOf(log) \cup {arg[c]}
  <2>1. log' = Append(log, arg[c]) /\ tail' = "clean"
    BY <1>1 DEF Write, LogWhole
  <2>2. arg[c] \in Events
    BY <1>1, StoreAssumption DEF Write, IInv, CallsOK
  <2> QED
    BY <2>1, <2>2, EventsOfAppend DEF IInv, TypeOK
<1>2. ASSUME NEW c \in Clients, PartialWrite(c) PROVE log' = log /\ tail' = tail
  BY <1>2 DEF PartialWrite, LogWhole
<1>3. \/ UNCHANGED <<log, tail>> \/ PowerLoss
      \/ \E c \in Clients : Write(c) \/ PartialWrite(c)
  BY DEF Next, Accept, Open, ReplayLine, OpenDone, OpenRefused, Submit,
         DecideDuplicate, DecideEphemeral, DecideSuperseded, DecideStored,
         Sync, WriteFails, SyncFails, Shutdown, Crash, files
<1> QED
  BY <1>1, <1>2, <1>3

\* Every step keeps the log whole and the memory inside it.
LEMMA WholeStep ==
  ASSUME IInv, LogWhole, MemoryInLog, ~TornWrites, Next
  PROVE  LogWhole' /\ MemoryInLog'
<1>i. TypeOK /\ CallsOK
  BY DEF IInv
<1>t. log \in Seq(Lines) /\ Len(log) \in Nat /\ DOMAIN log = 1 .. Len(log)
  BY <1>i, SMT DEF TypeOK
<1>w. LogWhole'
  <2>1. CASE log' = log /\ tail' = tail
    BY <2>1 DEF LogWhole
  <2>2. ASSUME NEW c \in Clients, arg[c] \in Events, log' = Append(log, arg[c]), tail' = "clean"
        PROVE  LogWhole'
    BY <2>2, <1>t, StoreAssumption, SMT DEF LogWhole
  <2>3. CASE PowerLoss
    <3>1. PICK n \in synced .. Len(log) : log' = SubSeq(log, 1, n) /\ tail' = "clean"
      BY <2>3 DEF PowerLoss
    <3>2. n \in 0 .. Len(log)
      BY <3>1, <1>i, <1>t, SMT DEF TypeOK
    <3>3. DOMAIN log' = 1 .. n /\ \A i \in 1 .. n : log'[i] = log[i]
      BY <3>1, <3>2, <1>t, SMT
    <3> QED
      BY <3>1, <3>2, <3>3, <1>t, SMT DEF LogWhole
  <2> QED
    BY <2>1, <2>2, <2>3, LogGrows
<1>m. MemoryInLog'
  <2> DEFINE L == EventsOf(log)
  <2>1. CASE mode' = "down"
    BY <2>1 DEF MemoryInLog
  <2>2. CASE ~writer'
    BY <2>2 DEF MemoryInLog
  <2>3. CASE journal' = <<>> /\ seen' = {}
    BY <2>3, EventsOfEmpty DEF MemoryInLog
  <2>4. ASSUME L \subseteq EventsOf(log'), mode # "down", writer, NEW x,
               EventsOf(journal') \subseteq EventsOf(journal) \cup {x},
               EventsOf(journal') # EventsOf(journal) => x \in EventsOf(log'),
               seen' \subseteq seen \cup {x},
               is_ephemeral_kind(x.kind) \/ Covered(x, EventsOf(log'))
        PROVE  MemoryInLog'
    <3>1. \A e \in seen : is_ephemeral_kind(e.kind) \/ Covered(e, EventsOf(log'))
      BY <2>4, CoveredMonotone DEF MemoryInLog
    <3>2. EventsOf(journal') \subseteq EventsOf(log')
      BY <2>4 DEF MemoryInLog
    <3> QED
      BY <2>4, <3>1, <3>2 DEF MemoryInLog
  <2>5. ASSUME L \subseteq EventsOf(log'), mode # "down", writer, UNCHANGED <<journal, seen>>
        PROVE  MemoryInLog'
    <3>1. \A e \in seen : is_ephemeral_kind(e.kind) \/ Covered(e, EventsOf(log'))
      BY <2>5, CoveredMonotone DEF MemoryInLog
    <3> QED
      BY <2>5, <3>1 DEF MemoryInLog
  <2>6. CASE ReplayLine /\ writer
    <3>1. /\ journal' = Append(journal, NextLine) /\ seen' = seen \cup {NextLine}
          /\ log' = log /\ mode # "down" /\ Len(journal) < Len(log)
      BY <2>6 DEF ReplayLine, files
    <3>2. NextLine \in EventsOf(log)
      <4>1. Len(journal) + 1 \in DOMAIN log
        BY <3>1, <1>i, <1>t, SMT DEF TypeOK
      <4> QED
        BY <4>1 DEF NextLine, EventsOf
    <3>3. EventsOf(journal') = EventsOf(journal) \cup {NextLine}
      BY <3>1, <1>i, EventsOfAppend DEF TypeOK
    <3> QED
      BY <2>6, <3>1, <3>2, <3>3, <2>4 DEF Covered
  <2>7. ASSUME NEW c \in Clients, writer, DecideEphemeral(c)
        PROVE  MemoryInLog'
    <3>1. /\ seen' = seen \cup {arg[c]} /\ UNCHANGED <<journal, log>>
          /\ mode # "down"
      BY <2>7, <1>i DEF DecideEphemeral, files, CallsOK
    <3>2. is_ephemeral_kind(arg[c].kind)
      <4>1. classify_event(arg[c]) = "Ephemeral"
        BY <2>7 DEF DecideEphemeral, Decision, decide_event
      <4> QED
        BY <4>1 DEF classify_event
    <3> QED
      BY <2>7, <3>1, <3>2, <2>4
  <2>8. ASSUME NEW c \in Clients, writer, DecideSuperseded(c)
        PROVE  MemoryInLog'
    <3>1. /\ seen' = seen \cup {arg[c]} /\ UNCHANGED <<journal, log>>
          /\ mode # "down" /\ arg[c] \in Events
      BY <2>8, <1>i, StoreAssumption DEF DecideSuperseded, files, CallsOK
    <3>2. Covered(arg[c], events)
      BY <2>8, <3>1, <1>i, SupersededCovered DEF DecideSuperseded
    <3>3. Covered(arg[c], EventsOf(log'))
      BY <2>8, <3>1, <3>2, EffectiveInLog, CoveredMonotone
    <3> QED
      BY <2>8, <3>1, <3>3, <2>4
  <2>9. ASSUME NEW c \in Clients, Sync(c)
        PROVE  MemoryInLog'
    <3>1. /\ seen' = seen \cup {arg[c]} /\ journal' = Append(journal, arg[c])
          /\ log' = log /\ mode # "down" /\ writer
      BY <2>9, <1>i DEF Sync, ApplyStored, CallsOK
    <3>2. EventsOf(journal') = EventsOf(journal) \cup {arg[c]}
      BY <3>1, <1>i, EventsOfAppend DEF TypeOK
    <3>3. log[Len(log)] = arg[c] /\ Len(log) \in DOMAIN log
      BY <2>9, <1>i, <1>t, SMT DEF Sync, CallsOK, LogWhole
    <3>4. arg[c] \in EventsOf(log')
      BY <3>1, <3>3 DEF EventsOf
    <3> QED
      BY <3>1, <3>2, <3>4, <2>4 DEF Covered
  <2>10. L \subseteq EventsOf(log') \/ PowerLoss
    BY LogGrows
  <2>11. CASE writer /\ mode # "down" /\ UNCHANGED <<journal, seen>> /\ ~PowerLoss
    BY <2>11, <2>10, <2>5
  <2>12. \/ mode' = "down" \/ ~writer' \/ (journal' = <<>> /\ seen' = {})
         \/ ReplayLine /\ writer
         \/ writer /\ mode # "down" /\ UNCHANGED <<journal, seen>> /\ ~PowerLoss
         \/ \E c \in Clients : \/ writer /\ (DecideEphemeral(c) \/ DecideSuperseded(c))
                               \/ Sync(c)
    <3>1. PowerLoss => mode' = "down"
      BY DEF PowerLoss, Stop
    <3>2. writer' = writer
      BY DEF Next, Accept, Open, ReplayLine, OpenDone, OpenRefused, Submit,
         DecideDuplicate, DecideEphemeral, DecideSuperseded, DecideStored,
         Write, Sync, WriteFails, SyncFails, Shutdown, Crash, PowerLoss
    <3> QED
      BY <3>1, <3>2, <1>i DEF Next, Accept, Open, OpenDone, OpenRefused, Submit,
         DecideDuplicate, DecideStored, Write, WriteFails, SyncFails, Shutdown,
         Crash, Stop, memory, CallsOK
  <2> QED
    BY <2>1, <2>2, <2>3, <2>6, <2>7, <2>8, <2>9, <2>11, <2>12
<1> QED
  BY <1>w, <1>m

\* Where records are whole, the log stays whole and the memory inside it.
LEMMA WholeInvariance == Spec => []WholeInv
<1>1. Init => WholeInv
  BY EventsOfEmpty, SMT DEF Init, WholeInv, LogWhole, MemoryInLog
<1>2. IInv /\ WholeInv /\ [Next]_vars => WholeInv'
  <2>1. CASE UNCHANGED vars
    BY <2>1 DEF vars, files, memory, calls, WholeInv, LogWhole, MemoryInLog
  <2> QED
    BY <2>1, WholeStep DEF WholeInv
<1> QED
  BY <1>1, <1>2, Invariance, PTL DEF Spec
-----------------------------------------------------------------------------
(***************************************************************************)
(* No effective event of an open store goes back to a losing one: accept() *)
(* and replay_log change the effective events only through                 *)
(* apply_effective_event.                                                  *)
(***************************************************************************)
LEMMA RegressStep ==
  ASSUME IInv, [Next]_vars, mode = "up", mode' = "up", NEW e \in events
  PROVE  Covered(e, events')
<1>t. events \in SUBSET Events /\ e \in Events /\ Covered(e, events)
  BY DEF IInv, TypeOK, Covered
<1>1. CASE UNCHANGED events
  BY <1>1, <1>t
<1>2. ASSUME NEW c \in Clients, pc[c] # "idle", ApplyStored(c)
      PROVE  Covered(e, events')
  <2>1. arg[c] \in Events
    BY <1>2, StoreAssumption DEF IInv, CallsOK
  <2> QED
    BY <1>2, <2>1, <1>t, CoveredStays DEF ApplyStored
<1>3. \/ UNCHANGED events
      \/ \E c \in Clients : pc[c] # "idle" /\ ApplyStored(c)
  BY DEF Next, Accept, Open, ReplayLine, OpenDone, OpenRefused, Submit,
         DecideDuplicate, DecideEphemeral, DecideSuperseded, DecideStored,
         Write, Sync, WriteFails, SyncFails, Shutdown, Crash, PowerLoss, Stop,
         memory, vars
<1> QED
  BY <1>1, <1>2, <1>3

\* An answer is given to the client whose call is decided or synced.
LEMMA AcceptedGrows ==
  ASSUME IInv, Next, NEW e \in Accepted', e \notin Accepted
  PROVE  \E c \in Clients :
           /\ e = arg[c]
           /\ DecideDuplicate(c) \/ DecideSuperseded(c) \/ DecideStored(c) \/ Sync(c)
<1>1. PICK m \in {"stored", "duplicate", "superseded"} :
        <<e, m>> \in answers' /\ <<e, m>> \notin answers
  BY DEF Accepted
<1>2. ASSUME NEW c \in Clients, DecideEphemeral(c)
      PROVE  FALSE
  BY <1>1, <1>2 DEF DecideEphemeral, Answer
<1>3. ASSUME NEW c \in Clients, NEW n, answers' = answers \cup {<<arg[c], n>>}
      PROVE  e = arg[c]
  BY <1>1, <1>3
<1>4. \/ UNCHANGED answers
      \/ \E c \in Clients :
           /\ \E n : answers' = answers \cup {<<arg[c], n>>}
           /\ \/ DecideDuplicate(c) \/ DecideSuperseded(c) \/ DecideStored(c)
              \/ Sync(c) \/ DecideEphemeral(c)
  <2>1. ASSUME NEW c \in Clients,
               \/ DecideDuplicate(c) \/ DecideSuperseded(c) \/ DecideStored(c)
               \/ Sync(c) \/ DecideEphemeral(c)
        PROVE  UNCHANGED answers \/ \E n : answers' = answers \cup {<<arg[c], n>>}
    BY <2>1 DEF DecideDuplicate, DecideEphemeral, DecideSuperseded, DecideStored, Sync,
                ApplyStored, Answer
  <2>2. ASSUME \/ Open \/ ReplayLine \/ OpenDone \/ OpenRefused \/ Shutdown \/ Crash \/ PowerLoss
               \/ \E c \in Clients : \/ \E x \in Events : Submit(c, x)
                                    \/ Write(c) \/ WriteFails(c) \/ SyncFails(c)
        PROVE  UNCHANGED answers
    BY <2>2 DEF Open, ReplayLine, OpenDone, OpenRefused, Submit, Write, WriteFails, SyncFails,
                Shutdown, Crash, PowerLoss, Return
  <2> QED
    BY <2>1, <2>2 DEF Next, Accept
<1> QED
  BY <1>1, <1>2, <1>3, <1>4

\* Where records are whole, every accepted event is covered by the log from its
\* answer on.
LEMMA AcceptedStep ==
  ASSUME IInv, LogWhole, MemoryInLog, ~TornWrites, [Next]_vars, writer, ~PowerLoss,
         NEW e \in Accepted', e \in Accepted => Covered(e, EventsOf(log))
  PROVE  Covered(e, EventsOf(log'))
<1>1. CASE UNCHANGED vars
  BY <1>1 DEF vars, files, Accepted
<1>2. CASE Next
  <2>1. EventsOf(log) \subseteq EventsOf(log')
    BY <1>2, LogGrows
  <2>2. CASE Covered(e, EventsOf(log))
    BY <2>1, <2>2, CoveredMonotone
  <2>3. CASE e \notin Accepted
    <3>1. PICK c \in Clients :
            /\ e = arg[c]
            /\ DecideDuplicate(c) \/ DecideSuperseded(c) \/ DecideStored(c) \/ Sync(c)
      BY <1>2, <2>3, AcceptedGrows
    <3>2. pc[c] # "idle" /\ mode # "down" /\ arg[c] \in Events /\ TypeOK
      BY <3>1, StoreAssumption
         DEF DecideDuplicate, DecideSuperseded, DecideStored, Sync, IInv, CallsOK
    <3>3. events \subseteq EventsOf(log)
      BY <3>2, EffectiveInLog
    <3>4. CASE DecideDuplicate(c)
      <4>1. e \in seen \/ e \in events
        BY <3>1, <3>4, DuplicateKnown DEF DecideDuplicate
      <4>2. ~is_ephemeral_kind(e.kind)
        BY DEF Accepted
      <4> QED
        BY <4>1, <4>2, <3>2, <3>3, <2>2 DEF MemoryInLog, Covered
    <3>5. CASE DecideSuperseded(c)
      <4>1. Covered(e, events)
        BY <3>1, <3>2, <3>5, SupersededCovered DEF DecideSuperseded
      <4> QED
        BY <4>1, <3>3, <2>2, CoveredMonotone
    <3>6. CASE DecideStored(c)
      BY <3>6, <2>3 DEF DecideStored, Accepted
    <3>7. CASE Sync(c)
      <4>1. Len(log) \in DOMAIN log /\ log[Len(log)] = e
        BY <3>1, <3>7, SMT DEF Sync, IInv, CallsOK, TypeOK, LogWhole
      <4> QED
        BY <4>1, <2>2 DEF EventsOf, Covered
    <3> QED
      BY <3>1, <3>4, <3>5, <3>6, <3>7
  <2> QED
    BY <2>2, <2>3
<1> QED
  BY <1>1, <1>2

(***************************************************************************)
(* While the relay is up no key goes back to a losing event, whatever the  *)
(* file system does: accept() applies through apply_effective_event only.  *)
(***************************************************************************)
THEOREM HeadsAreMonotone == Spec => HeadsNeverRegress
<1>1. IInv /\ [Next]_vars =>
        [mode = "up" /\ mode' = "up" => \A e \in events : Covered(e, events')]_vars
  BY RegressStep
<1> QED
  BY <1>1, Invariance, PTL DEF Spec, HeadsNeverRegress

(***************************************************************************)
(* On a file system that keeps records whole, the heads an open store      *)
(* serves never regress and every event it accepted, "duplicate" and       *)
(* "superseded" included, stays covered by its log until power fails: the  *)
(* guarantee EventStore::accept gives a peer that moves its cursor.        *)
(***************************************************************************)
THEOREM HeadsAreKept ==
  ASSUME ~TornWrites
  PROVE  Spec => HeadsKept
<1>1. IInv /\ WholeInv /\ [Next]_vars =>
        [writer /\ ~PowerLoss => \A e \in Accepted' :
           (e \in Accepted => Covered(e, EventsOf(log))) =>
             Covered(e, EventsOf(log'))]_vars
  BY AcceptedStep DEF WholeInv
<1>2. Spec => AcceptedSurvives
  BY <1>1, Invariance, WholeInvariance, PTL DEF Spec, AcceptedSurvives
<1> QED
  BY <1>2, HeadsAreMonotone DEF HeadsKept
-----------------------------------------------------------------------------
(***************************************************************************)
(* The store implements the durable history of DurableHistory.             *)
(***************************************************************************)
\* The events behind the barrier, and those acknowledged by a durable store.
StableEvents == {log[i] : i \in 1 .. synced} \ {Glued}
DurablyAcknowledged == IF writer THEN Acknowledged ELSE {}

\* Every step of the store is a commit of the history or leaves it alone.
LEMMA HistoryStep ==
  ASSUME IInv, LogWhole, IInv', LogWhole', [Next]_vars
  PROVE  \/ /\ StableEvents' \in SUBSET Events /\ StableEvents \subseteq StableEvents'
            /\ DurablyAcknowledged' \in SUBSET StableEvents'
            /\ DurablyAcknowledged \subseteq DurablyAcknowledged'
         \/ UNCHANGED <<StableEvents, DurablyAcknowledged>>
<1>1. CASE UNCHANGED vars
  BY <1>1 DEF vars, files, StableEvents, DurablyAcknowledged, Acknowledged
<1>2. CASE Next
  <2>1. DurablyAcknowledged' \subseteq StableEvents' /\ StableEvents' \subseteq Events
    <3>1. log' \in Seq(Lines) /\ synced' \in 0 .. Len(log')
      BY DEF IInv, TypeOK
    <3>2. \A i \in 1 .. synced' : i \in DOMAIN log' /\ log'[i] \in Lines
      BY <3>1, SMT
    <3>3. ASSUME writer', NEW e \in Acknowledged' PROVE e \in StableEvents'
      <4>1. PICK i \in 1 .. synced' : log'[i] \in {e, Glued}
        BY <3>3 DEF IInv, AckStable
      <4> QED
        BY <4>1, <3>2 DEF LogWhole, StableEvents
    <3> QED
      BY <3>2, <3>3 DEF DurablyAcknowledged, StableEvents, Lines
  <2>2. StableEvents \subseteq StableEvents'
    <3>1. synced <= synced' /\ \A i \in 1 .. synced : log'[i] = log[i]
      BY <1>2, StablePrefix DEF IInv
    <3>2. synced \in Nat /\ synced' \in Nat
      BY SMT DEF IInv, TypeOK
    <3> QED
      BY <3>1, <3>2, SMT DEF StableEvents
  <2>3. DurablyAcknowledged \subseteq DurablyAcknowledged'
    <3>1. writer' = writer
      BY <1>2 DEF Next, Accept, Open, ReplayLine, OpenDone, OpenRefused, Submit,
         DecideDuplicate, DecideEphemeral, DecideSuperseded, DecideStored,
         Write, Sync, WriteFails, SyncFails, Shutdown, Crash, PowerLoss
    <3>2. Acknowledged \subseteq Acknowledged'
      BY <1>2, AckGrows DEF IInv
    <3> QED
      BY <3>1, <3>2 DEF DurablyAcknowledged
  <2> QED
    BY <2>1, <2>2, <2>3
<1> QED
  BY <1>1, <1>2

(***************************************************************************)
(* On a file system that keeps records whole the store implements          *)
(* DurableHistory, through crashes, power losses and failed appends: what  *)
(* is behind sync_data only grows, and accept() acknowledges nothing that  *)
(* is not there.  The hypothesis is needed: the run store_torn shows what  *)
(* a torn record does.                                                     *)
(***************************************************************************)
THEOREM StoreImplementsHistory ==
  ASSUME ~TornWrites
  PROVE  Spec => ImplementsHistory
<1>1. Init => History!Init
  BY SMT DEF Init, History!Init, Acknowledged
<1>2. IInv /\ WholeInv /\ IInv' /\ WholeInv' /\ [Next]_vars =>
        [History!Commit]_<<StableEvents, DurablyAcknowledged>>
  <2> SUFFICES ASSUME IInv, WholeInv, IInv', WholeInv', [Next]_vars
               PROVE  \/ History!Commit
                      \/ UNCHANGED <<StableEvents, DurablyAcknowledged>>
    OBVIOUS
  <2>1. LogWhole /\ LogWhole'
    BY DEF WholeInv
  <2> QED
    BY <2>1, HistoryStep DEF History!Commit, StableEvents, DurablyAcknowledged
<1> QED
  BY <1>1, <1>2, Invariance, WholeInvariance, PTL
     DEF Spec, ImplementsHistory, History!Spec, StableEvents, DurablyAcknowledged
=============================================================================
