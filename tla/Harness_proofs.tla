--------------------------- MODULE Harness_proofs ---------------------------
(***************************************************************************)
(* Proofs about the agent harness, for any number of channels, slots and   *)
(* events: a slot has one owner at a time whatever the order of results,   *)
(* panics, respawns and wakes, no idle agent keeps a session of a channel  *)
(* it was removed from, and, while no task outlives its in-flight          *)
(* deadline, a channel has at most one prompt in flight.  The first half   *)
(* is the invariant and what the operators of the actions do to it: the    *)
(* operations of the queue, dispatch_pending, and the ways a slot of the   *)
(* pool changes hands; the second half takes the actions one by one.       *)
(***************************************************************************)
EXTENDS Harness, NaturalsInduction, WellFoundedInduction, TLAPS

\* Almost every step is first-order logic; the few that need arithmetic,
\* sequences or function updates cite SMT.
USE Zenon

-----------------------------------------------------------------------------
\* A set of naturals that is not empty has a least element.
LEMMA LeastExists ==
  ASSUME NEW S \in SUBSET Nat, S # {}
  PROVE  \E m \in S : \A n \in S : m <= n
<1>1. IsWellFoundedOn(OpToRel(<, Nat), Nat)
  BY NatLessThanWellFounded
<1>2. PICK m \in S : \A n \in S : ~(<<n, m>> \in OpToRel(<, Nat))
  BY <1>1, WFMin
<1>3. \A n \in S : ~(n < m)
  BY <1>2 DEF OpToRel
<1>4. m \in Nat /\ \A n \in S : n \in Nat
  OBVIOUS
<1> QED
  BY <1>3, <1>4, SMT

\* try_claim gives an idle slot, or none.
LEMMA ClaimIdle ==
  ASSUME NEW p, NEW ch
  PROVE  try_claim(p, ch) # 0 => try_claim(p, ch) \in Slots
                                 /\ p[try_claim(p, ch)].agent = "idle"
<1>1. ASSUME NEW S \in SUBSET Idle(p), S # {}
      PROVE  First(S) \in S
  <2>1. S \in SUBSET Nat
    BY SMT DEF Idle, Slots
  <2>2. \E m \in S : \A n \in S : m <= n
    BY <1>1, <2>1, LeastExists
  <2> QED
    BY <2>2 DEF First
<1>2. \A i \in Idle(p) : i \in Slots /\ p[i].agent = "idle"
  BY DEF Idle
<1> DEFINE warm == {i \in Idle(p) : ch \in p[i].sess}
<1>3. warm \in SUBSET Idle(p)
  OBVIOUS
<1>4. try_claim(p, ch) = IF warm # {} THEN First(warm)
                         ELSE IF Idle(p) # {} THEN First(Idle(p)) ELSE 0
  BY DEF try_claim
<1> HIDE DEF warm
<1>5. Idle(p) \in SUBSET Idle(p)
  OBVIOUS
<1> QED
  BY <1>1, <1>2, <1>3, <1>4, <1>5

-----------------------------------------------------------------------------
(***************************************************************************)
(* The rounds of dispatch_pending.  f is the record of n rounds from d:    *)
(* there is one for every n, and a predicate that every round keeps holds  *)
(* of whatever dispatch_pending returns.                                   *)
(***************************************************************************)
Rounds(S) == UNION {DispatchStep(d) : d \in S}
IsRun(f, d, n) == f = [k \in 0..n |-> IF k = 0 THEN {d} ELSE Rounds(f[k - 1])]

\* dispatch_pending has a run of any length.
LEMMA RunExists ==
  ASSUME NEW d, NEW n \in Nat
  PROVE  \E f : IsRun(f, d, n)
<1> DEFINE T == {k \in Nat : ~\E f : IsRun(f, d, k)}
<1>1. SUFFICES ASSUME T # {} PROVE FALSE
  OBVIOUS
<1>2. PICK m \in T : \A k \in T : m <= k
  <2>1. T \in SUBSET Nat
    OBVIOUS
  <2> HIDE DEF T
  <2> QED
    BY <1>1, <2>1, LeastExists
<1>3. m \in Nat /\ ~\E f : IsRun(f, d, m)
  OBVIOUS
<1>4. m # 0
  <2>1. IsRun([k \in 0..0 |-> {d}], d, 0)
    BY SMT DEF IsRun
  <2> QED
    BY <1>3, <2>1
<1>5. m - 1 \in Nat /\ m - 1 \notin T
  BY <1>2, <1>3, <1>4, SMT
<1>6. PICK f : IsRun(f, d, m - 1)
  BY <1>5
<1> DEFINE g == [k \in 0..m |-> IF k = m THEN Rounds(f[m - 1]) ELSE f[k]]
<1>7. \A k \in 0..m : g[k] = IF k = 0 THEN {d} ELSE Rounds(g[k - 1])
  <2>1. \A k \in 0..m - 1 : f[k] = IF k = 0 THEN {d} ELSE Rounds(f[k - 1])
    BY <1>6 DEF IsRun
  <2>2. g[m] = Rounds(g[m - 1])
    BY <1>3, <1>4, SMT
  <2>3. ASSUME NEW k \in 0..m - 1 PROVE g[k] = f[k]
    BY <1>3, SMT
  <2>4. ASSUME NEW k \in 0..m - 1
        PROVE  g[k] = IF k = 0 THEN {d} ELSE Rounds(g[k - 1])
    <3>1. k # 0 => k - 1 \in 0..m - 1
      BY <1>3, SMT
    <3> HIDE DEF g
    <3> QED
      BY <2>1, <2>3, <3>1
  <2> HIDE DEF g
  <2> QED
    BY <2>2, <2>4, <1>3, <1>4, SMT
<1>8. IsRun(g, d, m)
  BY <1>7 DEF IsRun
<1> QED
  BY <1>3, <1>8

\* What dispatch_pending returns is the last round of a run.
LEMMA DispatchRuns ==
  ASSUME NEW qs, NEW p, NEW t
  PROVE  \E f, n : /\ n \in Nat
                   /\ IsRun(f, [q |-> qs, pool |-> p, task |-> t, done |-> FALSE], n)
                   /\ dispatch_pending(qs, p, t) = f[n]
<1> DEFINE d == [q |-> qs, pool |-> p, task |-> t, done |-> FALSE]
           n == Agents + 1
           f == CHOOSE f : IsRun(f, d, n)
<1>1. n \in Nat
  BY AgentsAssumption, SMT
<1>2. dispatch_pending(qs, p, t) = f[n]
  BY DEF dispatch_pending, IsRun, Rounds
<1>3. IsRun(f, d, n)
  <2> HIDE DEF d, n
  <2>1. \E g : IsRun(g, d, n)
    BY <1>1, RunExists
  <2> QED
    BY <2>1
<1> HIDE DEF f, d, n
<1> QED
  BY <1>1, <1>2, <1>3 DEF d

\* Induction up to n, as a fact about sets.
LEMMA UpTo ==
  ASSUME NEW n \in Nat, NEW G, 0 \in G, \A k \in Nat : k < n /\ k \in G => k + 1 \in G
  PROVE  n \in G
<1> DEFINE T == {k \in Nat : k <= n /\ k \notin G}
<1>1. SUFFICES ASSUME T # {} PROVE FALSE
  BY SMT
<1>2. PICK m \in T : \A k \in T : m <= k
  <2>1. T \in SUBSET Nat
    OBVIOUS
  <2> HIDE DEF T
  <2> QED
    BY <1>1, <2>1, LeastExists
<1>3. m \in Nat /\ m <= n /\ m \notin G /\ m # 0
  OBVIOUS
<1>4. m - 1 \in Nat /\ m - 1 < n /\ m - 1 \notin T /\ (m - 1) + 1 = m
  BY <1>2, <1>3, SMT
<1> QED
  BY <1>3, <1>4, SMT

DFields == {"q", "pool", "task", "done"}

\* Dispatching leaves a slot alone, or gives an idle one a turn of a channel.
ClaimedAt(i, p, t, u, v) ==
  \/ u[i] = p[i] /\ v[i] = t[i]
  \/ /\ p[i].agent = "idle" /\ u[i] = [p[i] EXCEPT !.agent = "out"]
     /\ DOMAIN v[i] = TFields /\ v[i].ch \in Channels /\ v[i].phase = "setup"

Claims(p, t, u, v) ==
  /\ DOMAIN u = Slots /\ DOMAIN v = Slots
  /\ \A i \in Slots : ClaimedAt(i, p, t, u, v)

\* The three ways a round ends: it is over, no agent is idle, or it claims one.
Idles(d, e) ==
  /\ DOMAIN e = DFields /\ e.pool = d.pool /\ e.task = d.task
  /\ e.q = d.q \/ e.q = ExpireAll(d.q)
PutsBack(d, e, ch) ==
  /\ DOMAIN e = DFields /\ e.pool = d.pool /\ e.task = d.task
  /\ e.q = [ExpireAll(d.q) EXCEPT ![ch] =
              mark_complete(requeue_preserve_timestamps(
                              Flushed(@), FlushedBatch(ExpireAll(d.q)[ch])))]
ClaimsOne(d, e, ch, i) ==
  /\ DOMAIN e = DFields /\ i \in Slots /\ d.pool[i].agent = "idle"
  /\ e.q = [ExpireAll(d.q) EXCEPT ![ch] = Flushed(@)]
  /\ e.pool = [d.pool EXCEPT ![i].agent = "out"]
  /\ e.task = [d.task EXCEPT ![i] = NewTask(ch, FlushedBatch(ExpireAll(d.q)[ch]))]

\* What a round of dispatch_pending does.
LEMMA RoundOutcome ==
  ASSUME NEW d, DOMAIN d = DFields, NEW e \in DispatchStep(d)
  PROVE  \/ Idles(d, e)
         \/ \E ch \in FlushCandidates(ExpireAll(d.q)) :
              PutsBack(d, e, ch) \/ \E i \in Slots : ClaimsOne(d, e, ch, i)
<1> DEFINE x == ExpireAll(d.q)
<1>1. CASE d.done \/ FlushCandidates(x) = {}
  <2>1. e = [d EXCEPT !.q = IF d.done THEN @ ELSE x, !.done = TRUE]
    BY <1>1 DEF DispatchStep
  <2> QED
    BY <2>1 DEF Idles, DFields
<1>2. CASE ~(d.done \/ FlushCandidates(x) = {})
  <2>1. PICK ch \in FlushCandidates(x) :
          e = LET b == FlushedBatch(x[ch])
                  i == try_claim(d.pool, ch)
              IN  IF i = 0
                  THEN [d EXCEPT !.q = [x EXCEPT ![ch] =
                           mark_complete(requeue_preserve_timestamps(Flushed(@), b))],
                                 !.done = TRUE]
                  ELSE [d EXCEPT !.q = [x EXCEPT ![ch] = Flushed(@)],
                                 !.pool[i].agent = "out",
                                 !.task[i] = NewTask(ch, b)]
    BY <1>2 DEF DispatchStep
  <2> DEFINE i == try_claim(d.pool, ch)
             b == FlushedBatch(x[ch])
  <2>2. CASE i = 0
    <3>1. e = [d EXCEPT !.q = [x EXCEPT ![ch] =
                           mark_complete(requeue_preserve_timestamps(Flushed(@), b))],
                        !.done = TRUE]
      BY <2>1, <2>2
    <3> HIDE DEF i
    <3> QED
      BY <3>1 DEF PutsBack, DFields
  <2>3. CASE i # 0
    <3>1. e = [d EXCEPT !.q = [x EXCEPT ![ch] = Flushed(@)],
                        !.pool[i].agent = "out",
                        !.task[i] = NewTask(ch, b)]
      BY <2>1, <2>3
    <3>2. i \in Slots /\ d.pool[i].agent = "idle"
      BY <2>3, ClaimIdle
    <3> HIDE DEF i
    <3> QED
      BY <3>1, <3>2 DEF ClaimsOne, DFields
  <2> QED
    BY <2>2, <2>3
<1> QED
  BY <1>1, <1>2

\* A round claims idle slots only.
LEMMA RoundClaims ==
  ASSUME NEW p, NEW t, DOMAIN p = Slots, \A i \in Slots : DOMAIN p[i] = PFields,
         NEW d, DOMAIN d = DFields, Claims(p, t, d.pool, d.task),
         NEW e \in DispatchStep(d)
  PROVE  DOMAIN e = DFields /\ Claims(p, t, e.pool, e.task)
<1>1. CASE Idles(d, e)
  BY <1>1 DEF Idles
<1>2. CASE \E ch \in FlushCandidates(ExpireAll(d.q)) : PutsBack(d, e, ch)
  BY <1>2 DEF PutsBack
<1>3. ASSUME NEW ch \in FlushCandidates(ExpireAll(d.q)), NEW i \in Slots,
             ClaimsOne(d, e, ch, i)
      PROVE  DOMAIN e = DFields /\ Claims(p, t, e.pool, e.task)
  <2>1. ch \in Channels
    BY DEF FlushCandidates
  <2>2. PICK b : e.task = [d.task EXCEPT ![i] = NewTask(ch, b)]
    BY <1>3 DEF ClaimsOne
  <2>3. /\ DOMAIN e = DFields /\ d.pool[i].agent = "idle"
        /\ e.pool = [d.pool EXCEPT ![i].agent = "out"]
    BY <1>3 DEF ClaimsOne
  <2>4. DOMAIN d.pool = Slots /\ DOMAIN d.task = Slots
    BY DEF Claims
  <2>5. d.pool[i] = p[i]
    <3>1. ClaimedAt(i, p, t, d.pool, d.task)
      BY DEF Claims
    <3> QED
      BY <3>1, <2>3 DEF ClaimedAt, PFields
  <2>6. ClaimedAt(i, p, t, e.pool, e.task)
    <3>1. e.task[i] = NewTask(ch, b)
      BY <2>2, <2>4
    <3>2. DOMAIN e.task[i] = TFields /\ e.task[i].ch = ch /\ e.task[i].phase = "setup"
      BY <3>1, SMT DEF NewTask, TFields
    <3>3. e.pool[i] = [p[i] EXCEPT !.agent = "out"]
      BY <2>3, <2>4, <2>5
    <3> QED
      BY <2>1, <2>3, <2>5, <3>2, <3>3 DEF ClaimedAt
  <2>7. ASSUME NEW j \in Slots, j # i PROVE ClaimedAt(j, p, t, e.pool, e.task)
    <3>1. e.pool[j] = d.pool[j] /\ e.task[j] = d.task[j]
      BY <2>2, <2>3, <2>4, <2>7
    <3>2. ClaimedAt(j, p, t, d.pool, d.task)
      BY DEF Claims
    <3> QED
      BY <3>1, <3>2 DEF ClaimedAt
  <2>8. DOMAIN e.pool = Slots /\ DOMAIN e.task = Slots
    BY <2>2, <2>3, <2>4
  <2> QED
    BY <2>3, <2>6, <2>7, <2>8 DEF Claims
<1> QED
  BY <1>1, <1>2, <1>3, RoundOutcome

\* dispatch_pending claims idle slots only.
LEMMA DispatchClaims ==
  ASSUME NEW qs, NEW p, NEW t, DOMAIN p = Slots, DOMAIN t = Slots,
         \A i \in Slots : DOMAIN p[i] = PFields,
         NEW d \in dispatch_pending(qs, p, t)
  PROVE  DOMAIN d = DFields /\ Claims(p, t, d.pool, d.task)
<1> DEFINE d0 == [q |-> qs, pool |-> p, task |-> t, done |-> FALSE]
<1>1. PICK f, n : n \in Nat /\ IsRun(f, d0, n) /\ dispatch_pending(qs, p, t) = f[n]
  BY DispatchRuns, SMT
<1> DEFINE Good(e) == DOMAIN e = DFields /\ Claims(p, t, e.pool, e.task)
           G == {k \in 0..n : \A e \in f[k] : Good(e)}
<1>2. f[0] = {d0}
  BY <1>1, SMT DEF IsRun
<1>3. Good(d0)
  BY DEF Claims, ClaimedAt, DFields
<1>4. 0 \in G
  <2> HIDE DEF Good, d0
  <2> QED
    BY <1>1, <1>2, <1>3, SMT
<1>5. ASSUME NEW k \in Nat, k < n, k \in G
      PROVE  k + 1 \in G
  <2>1. \A e \in f[k] : Good(e)
    BY <1>5
  <2>2. k + 1 \in 0..n /\ (k + 1) - 1 = k /\ k + 1 # 0
    BY <1>1, <1>5, SMT
  <2>3. f[k + 1] = Rounds(f[k])
    <3> HIDE DEF d0
    <3>1. f[k + 1] = Rounds(f[(k + 1) - 1])
      BY <1>1, <2>2 DEF IsRun
    <3> QED
      BY <2>2, <3>1
  <2>4. ASSUME NEW e \in f[k + 1] PROVE Good(e)
    <3>1. PICK c \in f[k] : e \in DispatchStep(c)
      BY <2>3, <2>4 DEF Rounds
    <3> QED
      BY <2>1, <3>1, RoundClaims
  <2> QED
    BY <2>2, <2>4
<1>6. n \in G
  <2> HIDE DEF G
  <2> QED
    BY <1>1, <1>4, <1>5, UpTo
<1> QED
  BY <1>1, <1>6

-----------------------------------------------------------------------------
\* The queue operations that leave the in-flight entry alone.
Flies(c, d) ==
  DOMAIN d = QFields /\ d.inflight = c.inflight /\ d.overdue = c.overdue

\* Putting events back at the front of a queue leaves its turn in flight.
LEMMA PutBackFlies ==
  ASSUME NEW c, DOMAIN c = QFields, NEW es
  PROVE  Flies(c, PutBack(c, es))
BY DEF Flies, PutBack, QFields

\* So do the operations of the loop's arms.
LEMMA OperationsFly ==
  ASSUME NEW c, DOMAIN c = QFields, NEW b, NEW e
  PROVE  /\ Flies(c, push(c, e))
         /\ Flies(c, requeue(c, b))
         /\ Flies(c, requeue_preserve_timestamps(c, b))
         /\ Flies(c, requeue_as_cancelled(c, b))
         /\ Flies(c, drain_channel(c))
         /\ Flies(c, mark_native_steer_pending(c, e))
         /\ Flies(c, release_native_steer(c, e))
         /\ Flies(c, compact_expired_state(c))
<1>1. Flies(c, push(c, e))
  BY DEF Flies, push, QFields
<1>2. Flies(c, requeue(c, b))
  BY PutBackFlies DEF Flies, requeue, QFields
<1>3. Flies(c, requeue_preserve_timestamps(c, b))
  BY PutBackFlies DEF Flies, requeue_preserve_timestamps, QFields
<1>4. Flies(c, requeue_as_cancelled(c, b))
  BY DEF Flies, requeue_as_cancelled, QFields
<1>5. Flies(c, drain_channel(c))
  BY DEF Flies, drain_channel, EmptyChannel, QFields
<1>6. Flies(c, mark_native_steer_pending(c, e))
  BY DEF Flies, mark_native_steer_pending, QFields
<1>7. Flies(c, release_native_steer(c, e))
  BY PutBackFlies DEF Flies, release_native_steer, QFields
<1>8. Flies(c, compact_expired_state(c))
  BY DEF Flies, compact_expired_state, QFields
<1> QED
  BY <1>1, <1>2, <1>3, <1>4, <1>5, <1>6, <1>7, <1>8

\* A flush marks the channel, its completion unmarks it, a steer that succeeds
\* only moves the deadline, and nothing expires before its deadline.
LEMMA OperationsMark ==
  ASSUME NEW c, DOMAIN c = QFields, NEW e
  PROVE  /\ DOMAIN Flushed(c) = QFields /\ Flushed(c).inflight = TRUE
         /\ Flushed(c).overdue = FALSE
         /\ DOMAIN mark_complete(c) = QFields /\ mark_complete(c).inflight = FALSE
         /\ mark_complete(c).overdue = FALSE
         /\ DOMAIN remove_event(extend_in_flight_deadline(c), e) = QFields
         /\ remove_event(extend_in_flight_deadline(c), e).inflight = c.inflight
         /\ remove_event(extend_in_flight_deadline(c), e).overdue = FALSE
         /\ c.overdue = FALSE => Expire(c) = c
<1>1. /\ DOMAIN Flushed(c) = QFields /\ Flushed(c).inflight = TRUE
      /\ Flushed(c).overdue = FALSE
  BY DEF Flushed, QFields
<1>2. /\ DOMAIN mark_complete(c) = QFields /\ mark_complete(c).inflight = FALSE
      /\ mark_complete(c).overdue = FALSE
  BY DEF mark_complete, QFields
<1>3. /\ DOMAIN remove_event(extend_in_flight_deadline(c), e) = QFields
      /\ remove_event(extend_in_flight_deadline(c), e).inflight = c.inflight
      /\ remove_event(extend_in_flight_deadline(c), e).overdue = FALSE
  BY DEF remove_event, extend_in_flight_deadline, QFields
<1>4. c.overdue = FALSE => Expire(c) = c
  BY DEF Expire
<1> QED
  BY <1>1, <1>2, <1>3, <1>4

-----------------------------------------------------------------------------
\* How the marks of the queue and the tasks change together.

\* The same turns are in flight.
SameTurns(t, u) == \A i \in Slots : u[i].ch = t[i].ch

\* Nothing expires before its deadline.
LEMMA NothingExpires ==
  ASSUME NEW qs, NEW t, TurnsOK(qs, t)
  PROVE  TurnsOK(ExpireAll(qs), t)
<1>1. \A ch \in Channels : DOMAIN qs[ch] = QFields /\ qs[ch].overdue = FALSE
  BY DEF TurnsOK
<1>2. \A ch \in Channels : ExpireAll(qs)[ch] = qs[ch]
  BY <1>1 DEF ExpireAll, Expire
<1>3. DOMAIN ExpireAll(qs) = Channels
  BY DEF ExpireAll
<1> QED
  BY <1>2, <1>3 DEF TurnsOK

\* An operation that leaves the in-flight entries and the tasks alone.
LEMMA TurnsKept ==
  ASSUME NEW qs, NEW t, TurnsOK(qs, t), NEW qv, NEW u, SameTurns(t, u),
         DOMAIN qv = Channels, \A ch \in Channels : Flies(qs[ch], qv[ch])
  PROVE  TurnsOK(qv, u)
BY SMT DEF TurnsOK, Flies, SameTurns

\* The same for an operation on one channel.
LEMMA TurnsKeptAt ==
  ASSUME NEW qs, NEW t, TurnsOK(qs, t), NEW u, SameTurns(t, u),
         NEW ch \in Channels, NEW c, Flies(qs[ch], c)
  PROVE  TurnsOK([qs EXCEPT ![ch] = c], u)
<1>1. DOMAIN qs = Channels /\ \A x \in Channels : DOMAIN qs[x] = QFields
  BY DEF TurnsOK
<1>2. \A x \in Channels : Flies(qs[x], qs[x])
  BY <1>1 DEF Flies
<1> DEFINE qv == [qs EXCEPT ![ch] = c]
<1>3. DOMAIN qv = Channels /\ \A x \in Channels : qv[x] = IF x = ch THEN c ELSE qs[x]
  BY <1>1
<1> HIDE DEF qv
<1>4. \A x \in Channels : Flies(qs[x], qv[x])
  BY <1>2, <1>3
<1> QED
  BY <1>3, <1>4, TurnsKept DEF qv

\* A turn starts in a free slot, for a channel that has none.
LEMMA TurnStarts ==
  ASSUME NEW qs, NEW t, TurnsOK(qs, t), NEW ch \in Channels, ~qs[ch].inflight,
         NEW i \in Slots, DOMAIN t = Slots, t[i] = NoTask,
         NEW c, DOMAIN c = QFields, c.inflight = TRUE, c.overdue = FALSE,
         NEW s, s.ch = ch
  PROVE  TurnsOK([qs EXCEPT ![ch] = c], [t EXCEPT ![i] = s])
<1> DEFINE qv == [qs EXCEPT ![ch] = c]
           u == [t EXCEPT ![i] = s]
<1>1. DOMAIN qv = Channels /\ \A x \in Channels : qv[x] = IF x = ch THEN c ELSE qs[x]
  BY DEF TurnsOK
<1>2. \A j \in Slots : u[j] = IF j = i THEN s ELSE t[j]
  OBVIOUS
<1>3. t[i].ch = "none" /\ "none" \notin Channels
  BY ChannelsAssumption, SMT DEF NoTask
<1>4. \A j \in Slots : t[j].ch # ch
  BY DEF TurnsOK
<1> HIDE DEF qv, u
<1>5. ASSUME NEW x \in Channels
      PROVE  /\ DOMAIN qv[x] = QFields /\ qv[x].inflight \in BOOLEAN /\ qv[x].overdue = FALSE
             /\ qv[x].inflight <=> \E j \in Slots : u[j].ch = x
  <2>1. CASE x = ch
    BY <1>1, <1>2, <2>1
  <2>2. CASE x # ch
    <3>1. \A j \in Slots : u[j].ch = x <=> t[j].ch = x
      BY <1>2, <1>3, <2>2
    <3> QED
      BY <1>1, <2>2, <3>1, SMT DEF TurnsOK
  <2> QED
    BY <2>1, <2>2
<1>6. ASSUME NEW x \in Channels, NEW j \in Slots, NEW k \in Slots, u[j].ch = x, u[k].ch = x
      PROVE  j = k
  BY <1>2, <1>3, <1>4, <1>6, SMT DEF TurnsOK
<1>7. TurnsOK(qv, u)
  <2>1. \A x \in Channels :
          /\ DOMAIN qv[x] = QFields /\ qv[x].inflight \in BOOLEAN /\ qv[x].overdue = FALSE
          /\ qv[x].inflight <=> \E j \in Slots : u[j].ch = x
    BY <1>5
  <2>2. \A x \in Channels, j, k \in Slots : u[j].ch = x /\ u[k].ch = x => j = k
    BY <1>6
  <2>3. DOMAIN qv = Channels
    BY <1>1
  <2> QED
    BY <2>1, <2>2, <2>3 DEF TurnsOK
<1> QED
  BY <1>7 DEF qv, u

\* A turn ends: its slot is free and its channel unmarked.
LEMMA TurnEnds ==
  ASSUME NEW qs, NEW t, TurnsOK(qs, t), NEW i \in Slots, DOMAIN t = Slots,
         NEW ch \in Channels, t[i].ch = ch,
         NEW c, DOMAIN c = QFields, c.inflight = FALSE, c.overdue = FALSE
  PROVE  TurnsOK([qs EXCEPT ![ch] = c], [t EXCEPT ![i] = NoTask])
<1> DEFINE qv == [qs EXCEPT ![ch] = c]
           u == [t EXCEPT ![i] = NoTask]
<1>1. DOMAIN qv = Channels /\ \A x \in Channels : qv[x] = IF x = ch THEN c ELSE qs[x]
  BY DEF TurnsOK
<1>2. \A j \in Slots : u[j] = IF j = i THEN NoTask ELSE t[j]
  OBVIOUS
<1>3. NoTask.ch = "none" /\ "none" \notin Channels
  BY ChannelsAssumption DEF NoTask
<1>4. \A j \in Slots : t[j].ch = ch => j = i
  BY DEF TurnsOK
<1> HIDE DEF qv, u
<1>5. ASSUME NEW x \in Channels
      PROVE  /\ DOMAIN qv[x] = QFields /\ qv[x].inflight \in BOOLEAN /\ qv[x].overdue = FALSE
             /\ qv[x].inflight <=> \E j \in Slots : u[j].ch = x
  <2>1. CASE x = ch
    <3>1. \A j \in Slots : u[j].ch # ch
      BY <1>2, <1>3, <1>4
    <3> QED
      BY <1>1, <2>1, <3>1
  <2>2. CASE x # ch
    <3>1. \A j \in Slots : u[j].ch = x <=> t[j].ch = x
      BY <1>2, <1>3, <2>2
    <3> QED
      BY <1>1, <2>2, <3>1, SMT DEF TurnsOK
  <2> QED
    BY <2>1, <2>2
<1>6. ASSUME NEW x \in Channels, NEW j \in Slots, NEW k \in Slots, u[j].ch = x, u[k].ch = x
      PROVE  j = k
  BY <1>2, <1>3, <1>6, SMT DEF TurnsOK
<1>7. TurnsOK(qv, u)
  BY <1>1, <1>5, <1>6 DEF TurnsOK
<1> QED
  BY <1>7 DEF qv, u

\* The end of a heartbeat, which is no turn of a channel.
LEMMA NoTurnEnds ==
  ASSUME NEW qs, NEW t, TurnsOK(qs, t), NEW i \in Slots, DOMAIN t = Slots,
         t[i].ch \notin Channels, NEW s, s.ch \notin Channels
  PROVE  TurnsOK(qs, [t EXCEPT ![i] = s])
<1> DEFINE u == [t EXCEPT ![i] = s]
<1>1. \A j \in Slots : u[j] = IF j = i THEN s ELSE t[j]
  OBVIOUS
<1> HIDE DEF u
<1>2. \A x \in Channels, j \in Slots : u[j].ch = x <=> t[j].ch = x
  BY <1>1
<1>3. TurnsOK(qs, u)
  BY <1>2, SMT DEF TurnsOK
<1> QED
  BY <1>3 DEF u

\* A candidate of flush_next is a channel without a turn in flight.
LEMMA CandidatesFree ==
  ASSUME NEW qs, NEW ch \in FlushCandidates(qs)
  PROVE  ch \in Channels /\ ~qs[ch].inflight
BY DEF FlushCandidates, Ready, HasCancelled

Free(p, t) == \A i \in Slots : p[i].agent = "idle" => t[i] = NoTask

\* A round keeps the queue and the tasks in agreement.
LEMMA RoundTurns ==
  ASSUME NEW p, NEW t, Free(p, t), \A i \in Slots : DOMAIN p[i] = PFields,
         NEW d, DOMAIN d = DFields, Claims(p, t, d.pool, d.task), TurnsOK(d.q, d.task),
         NEW e \in DispatchStep(d)
  PROVE  TurnsOK(e.q, e.task)
<1>0. TurnsOK(ExpireAll(d.q), d.task)
  BY NothingExpires
<1>1. CASE Idles(d, e)
  BY <1>0, <1>1 DEF Idles
<1> DEFINE x == ExpireAll(d.q)
<1>x. \A ch \in Channels : DOMAIN x[ch] = QFields
  BY <1>0 DEF TurnsOK
<1>2. ASSUME NEW ch \in FlushCandidates(ExpireAll(d.q)), PutsBack(d, e, ch)
      PROVE  TurnsOK(e.q, e.task)
  <2>1. ch \in Channels /\ ~x[ch].inflight
    BY CandidatesFree
  <2>2. PICK b : e.q = [x EXCEPT ![ch] =
                     mark_complete(requeue_preserve_timestamps(Flushed(@), b))]
    BY <1>2 DEF PutsBack
  <2>3. DOMAIN x[ch] = QFields /\ x[ch].inflight \in BOOLEAN /\ x[ch].overdue = FALSE
    BY <1>0, <2>1 DEF TurnsOK
  <2> DEFINE c == mark_complete(requeue_preserve_timestamps(Flushed(x[ch]), b))
  <2>4. DOMAIN c = QFields /\ c.inflight = FALSE /\ c.overdue = FALSE
    <3>1. DOMAIN Flushed(x[ch]) = QFields
      BY <2>3, OperationsMark
    <3>2. DOMAIN requeue_preserve_timestamps(Flushed(x[ch]), b) = QFields
      BY <3>1, OperationsFly DEF Flies
    <3> QED
      BY <3>2, OperationsMark
  <2>5. DOMAIN x = Channels
    BY DEF ExpireAll
  <2>6. e.q = [x EXCEPT ![ch] = c] /\ e.task = d.task
    BY <1>2, <2>1, <2>2, <2>5 DEF PutsBack
  <2> HIDE DEF c, x
  <2>7. Flies(x[ch], c)
    BY <2>1, <2>3, <2>4 DEF Flies
  <2>8. SameTurns(d.task, d.task)
    BY DEF SameTurns
  <2>9. TurnsOK(x, d.task)
    BY <1>0 DEF x
  <2> QED
    BY <2>1, <2>6, <2>7, <2>8, <2>9, TurnsKeptAt, SMT
<1>3. ASSUME NEW ch \in FlushCandidates(ExpireAll(d.q)), NEW i \in Slots,
             ClaimsOne(d, e, ch, i)
      PROVE  TurnsOK(e.q, e.task)
  <2>1. ch \in Channels /\ ~x[ch].inflight
    BY CandidatesFree
  <2>2. PICK b : e.task = [d.task EXCEPT ![i] = NewTask(ch, b)]
    BY <1>3 DEF ClaimsOne
  <2>3. DOMAIN x[ch] = QFields
    BY <1>x, <2>1
  <2>4. DOMAIN x = Channels
    BY DEF ExpireAll
  <2>5. e.q = [x EXCEPT ![ch] = Flushed(x[ch])]
    BY <1>3, <2>1, <2>4 DEF ClaimsOne
  <2>6. d.task[i] = NoTask /\ DOMAIN d.task = Slots
    <3>1. ClaimedAt(i, p, t, d.pool, d.task) /\ DOMAIN d.task = Slots
      BY DEF Claims
    <3>2. d.pool[i].agent = "idle"
      BY <1>3 DEF ClaimsOne
    <3>3. d.pool[i] = p[i] /\ d.task[i] = t[i]
      BY <3>1, <3>2 DEF ClaimedAt, PFields
    <3> QED
      BY <3>1, <3>2, <3>3 DEF Free
  <2>7. NewTask(ch, b).ch = ch
    BY DEF NewTask
  <2>8. /\ DOMAIN Flushed(x[ch]) = QFields /\ Flushed(x[ch]).inflight = TRUE
        /\ Flushed(x[ch]).overdue = FALSE
    BY <2>3, OperationsMark
  <2>9. TurnsOK(x, d.task)
    BY <1>0
  <2> DEFINE c == Flushed(x[ch])
             s == NewTask(ch, b)
  <2> HIDE DEF x, c, s
  <2>10. DOMAIN c = QFields /\ c.inflight = TRUE /\ c.overdue = FALSE /\ s.ch = ch
    BY <2>7, <2>8 DEF c, s
  <2>11. TurnsOK([x EXCEPT ![ch] = c], [d.task EXCEPT ![i] = s])
    BY <2>1, <2>6, <2>9, <2>10, TurnStarts
  <2> QED
    BY <2>2, <2>5, <2>11 DEF c, s
<1> QED
  BY <1>1, <1>2, <1>3, RoundOutcome

\* dispatch_pending keeps the queue and the tasks in agreement.
LEMMA DispatchTurns ==
  ASSUME NEW qs, NEW p, NEW t, DOMAIN p = Slots, DOMAIN t = Slots,
         \A i \in Slots : DOMAIN p[i] = PFields, Free(p, t), TurnsOK(qs, t),
         NEW d \in dispatch_pending(qs, p, t)
  PROVE  TurnsOK(d.q, d.task)
<1> DEFINE d0 == [q |-> qs, pool |-> p, task |-> t, done |-> FALSE]
<1>1. PICK f, n : n \in Nat /\ IsRun(f, d0, n) /\ dispatch_pending(qs, p, t) = f[n]
  BY DispatchRuns, SMT
<1> DEFINE Good(e) == DOMAIN e = DFields /\ Claims(p, t, e.pool, e.task) /\ TurnsOK(e.q, e.task)
           G == {k \in 0..n : \A e \in f[k] : Good(e)}
<1>2. f[0] = {d0}
  BY <1>1, SMT DEF IsRun
<1>3. Good(d0)
  BY DEF Claims, ClaimedAt, DFields
<1>4. 0 \in G
  <2> HIDE DEF Good, d0
  <2> QED
    BY <1>1, <1>2, <1>3, SMT
<1>5. ASSUME NEW k \in Nat, k < n, k \in G
      PROVE  k + 1 \in G
  <2>1. \A e \in f[k] : Good(e)
    BY <1>5
  <2>2. k + 1 \in 0..n /\ (k + 1) - 1 = k /\ k + 1 # 0
    BY <1>1, <1>5, SMT
  <2>3. f[k + 1] = Rounds(f[k])
    <3> HIDE DEF d0
    <3>1. f[k + 1] = Rounds(f[(k + 1) - 1])
      BY <1>1, <2>2 DEF IsRun
    <3> QED
      BY <2>2, <3>1
  <2>4. ASSUME NEW e \in f[k + 1] PROVE Good(e)
    <3>1. PICK c \in f[k] : e \in DispatchStep(c)
      BY <2>3, <2>4 DEF Rounds
    <3>2. Good(c)
      BY <2>1
    <3> QED
      BY <3>1, <3>2, RoundClaims, RoundTurns
  <2> QED
    BY <2>2, <2>4
<1>6. n \in G
  <2> HIDE DEF G
  <2> QED
    BY <1>1, <1>4, <1>5, UpTo
<1> QED
  BY <1>1, <1>6

-----------------------------------------------------------------------------
\* An idle slot has no task.
LEMMA OwnedFree ==
  ASSUME NEW p, NEW t, NEW g, SlotsOK(p, t, g)
  PROVE  Free(p, t)
BY DEF SlotsOK, SlotOK, Free

\* Claiming idle slots keeps one owner per slot.
LEMMA ClaimsOwned ==
  ASSUME NEW p, NEW t, NEW g, NEW rs, NEW pn, NEW rsp, NEW h, NEW ready,
         Owned(p, t, g, rs, pn, rsp, h, ready),
         NEW u, NEW v, Claims(p, t, u, v)
  PROVE  Owned(u, v, g, rs, pn, rsp, h, ready)
<1>0. "none" \notin Channels /\ Heartbeat \notin Channels /\ NoTask.ch = "none"
      /\ Heartbeat # "none"
  BY ChannelsAssumption DEF Heartbeat, NoTask
<1>1. \A i \in Slots : SlotOK(p[i], t[i], g)
  BY DEF Owned, SlotsOK
<1>2. ASSUME NEW i \in Slots
      PROVE  \/ u[i] = p[i] /\ v[i] = t[i]
             \/ /\ p[i].agent = "idle" /\ u[i].agent = "out" /\ t[i] = NoTask
                /\ DOMAIN u[i] = PFields /\ u[i].respawning = p[i].respawning
                /\ p[i].respawning = FALSE
                /\ DOMAIN v[i] = TFields /\ v[i].ch \in Channels /\ v[i].phase = "setup"
  <2>1. ClaimedAt(i, p, t, u, v) /\ SlotOK(p[i], t[i], g)
    BY <1>1 DEF Claims
  <2> QED
    BY <2>1 DEF ClaimedAt, SlotOK, PFields
<1>3. ASSUME NEW i \in Slots, t[i] # NoTask
      PROVE  u[i] = p[i] /\ v[i] = t[i]
  BY <1>2, <1>3
<1>4. SlotsOK(u, v, g)
  <2>1. ASSUME NEW i \in Slots PROVE SlotOK(u[i], v[i], g)
    <3>1. v[i].ch \in Channels => v[i] # NoTask /\ Quiet(v[i])
      BY <1>0 DEF Quiet
    <3> QED
      BY <1>1, <1>2, <3>1 DEF SlotOK, Turns
  <2> QED
    BY <2>1 DEF SlotsOK, Claims
<1>5. ResultsOK(rs, v)
  <2>1. ResultsOK(rs, t)
    BY DEF Owned
  <2> QED
    BY <1>3, <2>1 DEF ResultsOK
<1>6. PanicsOK(pn, v)
  BY <1>3 DEF Owned, PanicsOK
<1>7. RespawnsOK(rsp, u)
  <2>1. RespawnsOK(rsp, p)
    BY DEF Owned
  <2>2. \A i \in Slots : u[i].respawning = p[i].respawning
    BY <1>2
  <2> QED
    BY <2>1, <2>2 DEF RespawnsOK
<1>8. HeartbeatOK(h, v)
  <2>1. \A i \in Slots : v[i].ch = Heartbeat <=> t[i].ch = Heartbeat
    BY <1>0, <1>2
  <2> QED
    BY <2>1 DEF Owned, HeartbeatOK
<1>9. WakeOK(ready, u)
  BY <1>2 DEF Owned, WakeOK
<1> QED
  BY <1>4, <1>5, <1>6, <1>7, <1>8, <1>9 DEF Owned

\* Dispatch keeps one owner per slot.
LEMMA DispatchOwned ==
  ASSUME NEW qs, NEW p, NEW t, NEW g, NEW rs, NEW pn, NEW rsp, NEW h, NEW ready,
         Owned(p, t, g, rs, pn, rsp, h, ready), NEW d \in dispatch_pending(qs, p, t)
  PROVE  Owned(d.pool, d.task, g, rs, pn, rsp, h, ready)
<1>1. DOMAIN p = Slots /\ DOMAIN t = Slots /\ \A i \in Slots : DOMAIN p[i] = PFields
  BY DEF Owned, SlotsOK, SlotOK
<1>2. Claims(p, t, d.pool, d.task)
  BY <1>1, DispatchClaims
<1> QED
  BY <1>2, ClaimsOwned

\* And the queue in agreement with the tasks.
LEMMA DispatchAgrees ==
  ASSUME NEW qs, NEW p, NEW t, NEW g, SlotsOK(p, t, g), TurnsOK(qs, t),
         NEW d \in dispatch_pending(qs, p, t)
  PROVE  TurnsOK(d.q, d.task)
<1>1. DOMAIN p = Slots /\ DOMAIN t = Slots /\ \A i \in Slots : DOMAIN p[i] = PFields
  BY DEF SlotsOK, SlotOK
<1>2. Free(p, t)
  BY OwnedFree
<1> QED
  BY <1>1, <1>2, DispatchTurns

-----------------------------------------------------------------------------
\* Sequences of results.
LEMMA SeqAppend ==
  ASSUME NEW s, IsSeq(s), NEW x
  PROVE  /\ IsSeq(Append(s, x))
         /\ \A k \in DOMAIN Append(s, x) :
              \/ k \in DOMAIN s /\ Append(s, x)[k] = s[k]
              \/ k = Len(s) + 1 /\ Append(s, x)[k] = x
<1> DEFINE U == Items(s) \cup {x}
           a == Append(s, x)
<1>1. s \in Seq(U)
  <2>1. s \in Seq(Items(s)) /\ Items(s) \subseteq U
    BY DEF IsSeq
  <2> HIDE DEF U
  <2> QED
    BY <2>1, SMT
<1>2. a \in Seq(U) /\ Len(a) = Len(s) + 1 /\ Len(s) \in Nat
      /\ DOMAIN a = 1..Len(s) + 1 /\ DOMAIN s = 1..Len(s)
  <2> HIDE DEF U
  <2>1. x \in U
    BY DEF U
  <2> QED
    BY <1>1, <2>1, SMT
<1>3. \A k \in 1..Len(s) : a[k] = s[k]
  <2> HIDE DEF U
  <2> QED
    BY <1>1, SMT
<1>4. a[Len(s) + 1] = x
  <2> HIDE DEF U
  <2> QED
    BY <1>1, SMT
<1> HIDE DEF a, U
<1>5. \A k \in DOMAIN a : \/ k \in DOMAIN s /\ a[k] = s[k]
                          \/ k = Len(s) + 1 /\ a[k] = x
  BY <1>2, <1>3, <1>4, SMT
<1>6. a = [k \in 1..Len(a) |-> a[k]] /\ Len(a) \in Nat
  BY <1>2, SMT
<1>7. \A k \in 1..Len(a) : a[k] \in Items(a)
  BY <1>2 DEF Items
<1>8. a \in Seq(Items(a))
  BY <1>6, <1>7, SMT
<1> QED
  BY <1>5, <1>8 DEF IsSeq, a

\* The rest of a sequence keeps the items after the first, in order.
LEMMA SeqTail ==
  ASSUME NEW s, IsSeq(s), s # <<>>
  PROVE  /\ IsSeq(Tail(s))
         /\ Head(s) = s[1] /\ 1 \in DOMAIN s
         /\ \A k \in DOMAIN Tail(s) :
              k \in Nat /\ k # 0 /\ k + 1 \in DOMAIN s /\ Tail(s)[k] = s[k + 1]
<1> DEFINE U == Items(s)
           a == Tail(s)
<1> HIDE DEF U
<1>1. s \in Seq(U)
  BY DEF IsSeq, U
<1>2. a \in Seq(U) /\ Len(a) = Len(s) - 1 /\ Len(s) \in Nat /\ Len(s) # 0
      /\ DOMAIN a = 1..Len(s) - 1 /\ DOMAIN s = 1..Len(s)
  BY <1>1, SMT
<1>3. \A k \in 1..Len(s) - 1 : a[k] = s[k + 1]
  BY <1>1, SMT
<1>4. Head(s) = s[1]
  BY <1>1, SMT
<1> HIDE DEF a
<1>5. a = [k \in 1..Len(a) |-> a[k]] /\ Len(a) \in Nat
  BY <1>2, SMT
<1>6. \A k \in 1..Len(a) : a[k] \in Items(a)
  BY <1>2 DEF Items
<1>7. a \in Seq(Items(a))
  BY <1>5, <1>6, SMT
<1> QED
  BY <1>2, <1>3, <1>4, <1>7, SMT DEF IsSeq, a

-----------------------------------------------------------------------------
\* How the owners of a slot change.

\* A task goes on: its record changes, but not its channel and batch; it was not done
\* and is not, or it stays in its phase.
Goes(t, s) ==
  /\ DOMAIN s = TFields /\ s.ch = t.ch /\ s.batch = t.batch /\ Quiet(s)
  /\ s.phase = t.phase \/ (s.phase # "sent" /\ t.phase # "sent")

\* A task that goes on keeps its slot.
LEMMA TaskGoesOn ==
  ASSUME NEW p, NEW t, NEW g, NEW rs, NEW pn, NEW rsp, NEW h, NEW ready,
         Owned(p, t, g, rs, pn, rsp, h, ready),
         NEW i \in Slots, t[i] # NoTask, NEW s, Goes(t[i], s)
  PROVE  Owned(p, [t EXCEPT ![i] = s], g, rs, pn, rsp, h, ready)
<1> DEFINE v == [t EXCEPT ![i] = s]
<1>1. DOMAIN t = Slots /\ \A j \in Slots : SlotOK(p[j], t[j], g)
  BY DEF Owned, SlotsOK
<1>2. DOMAIN v = Slots /\ \A j \in Slots : v[j] = IF j = i THEN s ELSE t[j]
  BY <1>1
<1> HIDE DEF v
<1>3. s # NoTask /\ s.ch = t[i].ch /\ s.ch \in Turns
  BY <1>1, ChannelsAssumption, SMT DEF Goes, SlotOK, NoTask, Turns, Heartbeat
<1>4. SlotsOK(p, v, g)
  <2>1. ASSUME NEW j \in Slots PROVE SlotOK(p[j], v[j], g)
    BY <1>1, <1>2, <1>3 DEF SlotOK, Goes
  <2> QED
    BY <1>2, <2>1 DEF SlotsOK, Owned
<1>5. ResultsOK(rs, v)
  <2>1. ResultsOK(rs, t)
    BY DEF Owned
  <2> QED
    BY <1>2, <1>3, <2>1 DEF ResultsOK, Goes
<1>6. PanicsOK(pn, v)
  BY <1>2, <1>3 DEF Owned, PanicsOK, Goes
<1>7. HeartbeatOK(h, v)
  <2>1. \A j \in Slots : v[j].ch = t[j].ch
    BY <1>2, <1>3
  <2> QED
    BY <2>1 DEF Owned, HeartbeatOK
<1>8. Owned(p, v, g, rs, pn, rsp, h, ready)
  BY <1>4, <1>5, <1>6, <1>7 DEF Owned
<1> QED
  BY <1>8 DEF v

\* The sessions, breaker and crash count of a slot are its owner's business;
\* an idle slot may only lose sessions.
SlotKeeps(x, y) ==
  /\ DOMAIN y = PFields /\ y.agent = x.agent /\ y.respawning = x.respawning
  /\ y.agent = "idle" => y.sess \subseteq x.sess

\* Slots that keep their agents keep their owners.
LEMMA SlotsKeep ==
  ASSUME NEW p, NEW t, NEW g, NEW rs, NEW pn, NEW rsp, NEW h, NEW ready,
         Owned(p, t, g, rs, pn, rsp, h, ready),
         NEW u, DOMAIN u = Slots, \A i \in Slots : SlotKeeps(p[i], u[i])
  PROVE  Owned(u, t, g, rs, pn, rsp, h, ready)
<1>1. SlotsOK(u, t, g)
  <2>1. ASSUME NEW j \in Slots PROVE SlotOK(u[j], t[j], g)
    <3>1. SlotOK(p[j], t[j], g) /\ SlotKeeps(p[j], u[j])
      BY DEF Owned, SlotsOK
    <3>2. u[j].agent = "idle" => u[j].sess \cap g = {}
      BY <3>1 DEF SlotOK, SlotKeeps
    <3> QED
      BY <3>1, <3>2 DEF SlotOK, SlotKeeps
  <2> QED
    BY <2>1 DEF SlotsOK, Owned
<1>2. RespawnsOK(rsp, u)
  BY DEF Owned, RespawnsOK, SlotKeeps
<1>3. WakeOK(ready, u)
  BY DEF Owned, WakeOK, SlotKeeps
<1> QED
  BY <1>1, <1>2, <1>3 DEF Owned

\* The same for one slot.
LEMMA SlotKeepsAt ==
  ASSUME NEW p, NEW t, NEW g, NEW rs, NEW pn, NEW rsp, NEW h, NEW ready,
         Owned(p, t, g, rs, pn, rsp, h, ready),
         NEW i \in Slots, NEW x, SlotKeeps(p[i], x)
  PROVE  Owned([p EXCEPT ![i] = x], t, g, rs, pn, rsp, h, ready)
<1> DEFINE u == [p EXCEPT ![i] = x]
<1>1. DOMAIN p = Slots /\ \A j \in Slots : SlotOK(p[j], t[j], g)
  BY DEF Owned, SlotsOK
<1>2. DOMAIN u = Slots /\ \A j \in Slots : u[j] = IF j = i THEN x ELSE p[j]
  BY <1>1
<1> HIDE DEF u
<1>3. \A j \in Slots : SlotKeeps(p[j], u[j])
  BY <1>1, <1>2 DEF SlotKeeps, SlotOK
<1>4. Owned(u, t, g, rs, pn, rsp, h, ready)
  BY <1>2, <1>3, SlotsKeep
<1> QED
  BY <1>4 DEF u

\* A task sends its one result.
LEMMA TaskSends ==
  ASSUME NEW p, NEW t, NEW g, NEW rs, NEW pn, NEW rsp, NEW h, NEW ready,
         Owned(p, t, g, rs, pn, rsp, h, ready),
         NEW i \in Slots, t[i] # NoTask, t[i].phase # "sent", i \notin pn,
         NEW s, DOMAIN s = TFields, s.ch = t[i].ch, s.phase = "sent", Quiet(s),
         NEW r, r.slot = i, r.ch = t[i].ch
  PROVE  Owned(p, [t EXCEPT ![i] = s], g, Append(rs, r), pn, rsp, h, ready)
<1> DEFINE v == [t EXCEPT ![i] = s]
           a == Append(rs, r)
<1>1. DOMAIN t = Slots /\ \A j \in Slots : SlotOK(p[j], t[j], g)
  BY DEF Owned, SlotsOK
<1>2. DOMAIN v = Slots /\ \A j \in Slots : v[j] = IF j = i THEN s ELSE t[j]
  BY <1>1
<1> HIDE DEF v
<1>3. s # NoTask /\ s.ch \in Turns
  BY <1>1, ChannelsAssumption, SMT DEF SlotOK, NoTask, Turns, Heartbeat
<1>4. SlotsOK(p, v, g)
  <2>1. ASSUME NEW j \in Slots PROVE SlotOK(p[j], v[j], g)
    BY <1>1, <1>2, <1>3 DEF SlotOK
  <2> QED
    BY <1>2, <2>1 DEF SlotsOK, Owned
<1>5. ResultsOK(a, v)
  <2>1. ResultsOK(rs, t)
    BY DEF Owned
  <2>2. IsSeq(rs)
    BY <2>1 DEF ResultsOK
  <2>3. IsSeq(a) /\ \A k \in DOMAIN a : \/ k \in DOMAIN rs /\ a[k] = rs[k]
                                        \/ k = Len(rs) + 1 /\ a[k] = r
    BY <2>2, SeqAppend
  <2> HIDE DEF a
  <2>4. \A k \in DOMAIN rs : rs[k].slot \in Slots /\ rs[k].slot # i
    BY <2>1 DEF ResultsOK
  <2>5. ASSUME NEW k \in DOMAIN a
        PROVE  /\ a[k].slot \in Slots /\ v[a[k].slot] # NoTask
               /\ v[a[k].slot].phase = "sent" /\ v[a[k].slot].ch = a[k].ch
    <3>1. CASE k \in DOMAIN rs /\ a[k] = rs[k]
      BY <1>2, <2>1, <2>4, <3>1, SMT DEF ResultsOK
    <3>2. CASE k = Len(rs) + 1 /\ a[k] = r
      BY <1>2, <1>3, <3>2
    <3> QED
      BY <2>3, <3>1, <3>2
  <2>6. ASSUME NEW j \in DOMAIN a, NEW k \in DOMAIN a, a[j].slot = a[k].slot
        PROVE  j = k
    BY <2>1, <2>3, <2>4, <2>6 DEF ResultsOK
  <2> QED
    BY <2>3, <2>5, <2>6 DEF ResultsOK
<1>6. PanicsOK(pn, v)
  BY <1>2 DEF Owned, PanicsOK
<1>7. HeartbeatOK(h, v)
  <2>1. \A j \in Slots : v[j].ch = t[j].ch
    BY <1>2
  <2> QED
    BY <2>1 DEF Owned, HeartbeatOK
<1>8. Owned(p, v, g, a, pn, rsp, h, ready)
  BY <1>4, <1>5, <1>6, <1>7 DEF Owned
<1> QED
  BY <1>8 DEF v

\* What becomes of a slot whose task is over: the agent is idle again, or gone
\* and perhaps being respawned.
Ends(x, y, g) ==
  /\ DOMAIN y = PFields /\ y.agent \in {"idle", "none"} /\ y.respawning \in BOOLEAN
  /\ x.respawning => y.respawning
  /\ y.respawning => y.agent = "none"
  /\ y.agent = "idle" => y.sess \cap g = {}

\* A task whose result was handled, or whose panic, gives up its slot.
LEMMA TaskEnds ==
  ASSUME NEW p, NEW t, NEW g, NEW rs, NEW pn, NEW rsp, NEW h, NEW ready,
         Owned(p, t, g, rs, pn, rsp, h, ready),
         NEW i \in Slots, t[i] # NoTask, i \notin pn, \A k \in DOMAIN rs : rs[k].slot # i,
         NEW x, Ends(p[i], x, g)
  PROVE  Owned([p EXCEPT ![i] = x], [t EXCEPT ![i] = NoTask], g, rs, pn, rsp,
               h /\ t[i].ch # Heartbeat, ready)
<1> DEFINE u == [p EXCEPT ![i] = x]
           v == [t EXCEPT ![i] = NoTask]
           b == h /\ t[i].ch # Heartbeat
<1>1. DOMAIN p = Slots /\ DOMAIN t = Slots /\ \A j \in Slots : SlotOK(p[j], t[j], g)
  BY DEF Owned, SlotsOK
<1>2. DOMAIN v = Slots /\ \A j \in Slots : v[j] = IF j = i THEN NoTask ELSE t[j]
  BY <1>1
<1>3. DOMAIN u = Slots /\ \A j \in Slots : u[j] = IF j = i THEN x ELSE p[j]
  BY <1>1
<1> HIDE DEF u, v
<1>4. SlotsOK(u, v, g)
  <2>1. ASSUME NEW j \in Slots PROVE SlotOK(u[j], v[j], g)
    BY <1>1, <1>2, <1>3 DEF SlotOK, Ends
  <2> QED
    BY <1>2, <1>3, <2>1 DEF SlotsOK
<1>5. ResultsOK(rs, v)
  <2>1. ResultsOK(rs, t)
    BY DEF Owned
  <2> QED
    BY <1>2, <2>1 DEF ResultsOK
<1>6. PanicsOK(pn, v)
  BY <1>2 DEF Owned, PanicsOK
<1>7. RespawnsOK(rsp, u)
  <2>1. \A j \in Slots : p[j].respawning => u[j].respawning
    BY <1>3 DEF Ends
  <2> QED
    BY <2>1 DEF Owned, RespawnsOK
<1>8. HeartbeatOK(b, v)
  <2>1. HeartbeatOK(h, t)
    BY DEF Owned
  <2>2. NoTask.ch # Heartbeat
    BY DEF NoTask, Heartbeat
  <2>3. b \in BOOLEAN
    OBVIOUS
  <2>4. \A j \in Slots : v[j].ch = Heartbeat => t[j].ch = Heartbeat /\ j # i
    BY <1>2, <2>2
  <2>5. \A j, k \in Slots : v[j].ch = Heartbeat /\ v[k].ch = Heartbeat => j = k
    BY <2>1, <2>4 DEF HeartbeatOK
  <2>6. CASE t[i].ch = Heartbeat
    <3>1. \A j \in Slots : v[j].ch # Heartbeat
      BY <2>1, <2>4, <2>6 DEF HeartbeatOK
    <3> QED
      BY <2>5, <2>6, <3>1 DEF HeartbeatOK
  <2>7. CASE t[i].ch # Heartbeat
    <3>1. \A j \in Slots : v[j].ch = Heartbeat <=> t[j].ch = Heartbeat
      BY <1>2, <2>2, <2>7
    <3>2. b <=> h
      BY <2>7
    <3> QED
      BY <2>1, <2>3, <2>5, <3>1, <3>2 DEF HeartbeatOK
  <2> QED
    BY <2>6, <2>7
<1>9. WakeOK(ready, u)
  <2>1. p[i].agent = "out"
    BY <1>1 DEF SlotOK
  <2> QED
    BY <2>1 DEF Owned, WakeOK
<1> HIDE DEF b
<1>10. Owned(u, v, g, rs, pn, rsp, b, ready)
  BY <1>4, <1>5, <1>6, <1>7, <1>8, <1>9 DEF Owned
<1> QED
  BY <1>10 DEF u, v, b

\* The result at the head is the only one of its slot.
LEMMA ResultTaken ==
  ASSUME NEW p, NEW t, NEW g, NEW rs, NEW pn, NEW rsp, NEW h, NEW ready,
         Owned(p, t, g, rs, pn, rsp, h, ready), rs # <<>>
  PROVE  /\ Owned(p, t, g, Tail(rs), pn, rsp, h, ready)
         /\ Head(rs).slot \in Slots /\ t[Head(rs).slot] # NoTask
         /\ t[Head(rs).slot].ch = Head(rs).ch /\ t[Head(rs).slot].phase = "sent"
         /\ Head(rs).slot \notin pn
         /\ \A k \in DOMAIN Tail(rs) : Tail(rs)[k].slot # Head(rs).slot
<1>1. ResultsOK(rs, t)
  BY DEF Owned
<1> DEFINE a == Tail(rs)
           r == Head(rs)
<1>2. /\ IsSeq(a) /\ r = rs[1] /\ 1 \in DOMAIN rs
      /\ \A k \in DOMAIN a : k \in Nat /\ k # 0 /\ k + 1 \in DOMAIN rs /\ a[k] = rs[k + 1]
  BY <1>1, SeqTail DEF ResultsOK
<1> HIDE DEF a, r
<1>3. /\ r.slot \in Slots /\ t[r.slot] # NoTask
      /\ t[r.slot].ch = r.ch /\ t[r.slot].phase = "sent"
  BY <1>1, <1>2 DEF ResultsOK
<1>4. r.slot \notin pn
  BY <1>3 DEF Owned, PanicsOK
<1>5. \A k \in DOMAIN a : a[k].slot # r.slot
  <2>1. ASSUME NEW k \in DOMAIN a, a[k].slot = r.slot PROVE FALSE
    <3>1. k + 1 = 1
      BY <1>1, <1>2, <2>1 DEF ResultsOK
    <3> QED
      BY <1>2, <3>1, SMT
  <2> QED
    BY <2>1
<1>6. ResultsOK(a, t)
  <2>1. ASSUME NEW j \in DOMAIN a, NEW k \in DOMAIN a, a[j].slot = a[k].slot PROVE j = k
    <3>1. j + 1 = k + 1
      BY <1>1, <1>2, <2>1, SMT DEF ResultsOK
    <3> QED
      BY <1>2, <3>1, SMT
  <2>2. \A k \in DOMAIN a : /\ a[k].slot \in Slots /\ t[a[k].slot] # NoTask
                            /\ t[a[k].slot].phase = "sent" /\ t[a[k].slot].ch = a[k].ch
    BY <1>1, <1>2, SMT DEF ResultsOK
  <2> QED
    BY <1>2, <2>1, <2>2 DEF ResultsOK
<1>7. Owned(p, t, g, a, pn, rsp, h, ready)
  BY <1>6 DEF Owned
<1> QED
  BY <1>3, <1>4, <1>5, <1>7 DEF a, r

\* Recovering a panic takes the slot out of the panics.
LEMMA PanicTaken ==
  ASSUME NEW p, NEW t, NEW g, NEW rs, NEW pn, NEW rsp, NEW h, NEW ready,
         Owned(p, t, g, rs, pn, rsp, h, ready), NEW i \in pn
  PROVE  /\ Owned(p, t, g, rs, pn \ {i}, rsp, h, ready)
         /\ i \in Slots /\ t[i] # NoTask
         /\ \A k \in DOMAIN rs : rs[k].slot # i
<1>1. i \in Slots /\ t[i] # NoTask /\ t[i].phase # "sent"
  BY DEF Owned, PanicsOK
<1>2. PanicsOK(pn \ {i}, t)
  BY DEF Owned, PanicsOK
<1>3. \A k \in DOMAIN rs : rs[k].slot # i
  BY <1>1 DEF Owned, ResultsOK
<1> QED
  BY <1>1, <1>2, <1>3 DEF Owned

\* A panic of a running task.
LEMMA PanicAdded ==
  ASSUME NEW p, NEW t, NEW g, NEW rs, NEW pn, NEW rsp, NEW h, NEW ready,
         Owned(p, t, g, rs, pn, rsp, h, ready),
         NEW i \in Slots, t[i] # NoTask, t[i].phase # "sent"
  PROVE  Owned(p, t, g, rs, pn \cup {i}, rsp, h, ready)
BY DEF Owned, PanicsOK

\* Agents that are gone may be respawned, and respawned ones come back idle and
\* without sessions, or stay away.
Refills(x, y) == \/ y = x
                 \/ /\ DOMAIN y = PFields /\ x.agent = "none" /\ y.agent = "none"
                    /\ y.respawning = TRUE
Arrives(x, y) == \/ y = x
                 \/ /\ DOMAIN y = PFields /\ x.respawning /\ y.respawning = FALSE
                    /\ y.agent = "none" \/ (y.agent = "idle" /\ y.sess = {})

\* Refilling empty slots keeps the owners.
LEMMA RefillOwned ==
  ASSUME NEW p, NEW t, NEW g, NEW rs, NEW pn, NEW rsp, NEW h,
         Owned(p, t, g, rs, pn, rsp, h, TRUE),
         NEW u, DOMAIN u = Slots, \A i \in Slots : Refills(p[i], u[i])
  PROVE  Owned(u, t, g, rs, pn, rsp, h, TRUE)
<1>1. SlotsOK(u, t, g)
  <2>1. ASSUME NEW j \in Slots PROVE SlotOK(u[j], t[j], g)
    <3>1. SlotOK(p[j], t[j], g) /\ Refills(p[j], u[j])
      BY DEF Owned, SlotsOK
    <3> QED
      BY <3>1 DEF SlotOK, Refills
  <2> QED
    BY <2>1 DEF SlotsOK, Owned
<1>2. RespawnsOK(rsp, u)
  BY DEF Owned, RespawnsOK, Refills
<1>3. WakeOK(TRUE, u)
  BY DEF WakeOK
<1> QED
  BY <1>1, <1>2, <1>3 DEF Owned

\* Collecting the respawned agents keeps the owners and empties the channel.
LEMMA ArrivalOwned ==
  ASSUME NEW p, NEW t, NEW g, NEW rs, NEW pn, NEW rsp, NEW h,
         Owned(p, t, g, rs, pn, rsp, h, TRUE),
         NEW u, DOMAIN u = Slots, \A i \in Slots : Arrives(p[i], u[i])
  PROVE  Owned(u, t, g, rs, pn, {}, h, TRUE)
<1>1. SlotsOK(u, t, g)
  <2>1. ASSUME NEW j \in Slots PROVE SlotOK(u[j], t[j], g)
    <3>1. SlotOK(p[j], t[j], g) /\ Arrives(p[j], u[j])
      BY DEF Owned, SlotsOK
    <3> QED
      BY <3>1 DEF SlotOK, Arrives
  <2> QED
    BY <2>1 DEF SlotsOK, Owned
<1>2. RespawnsOK({}, u)
  BY DEF RespawnsOK
<1>3. WakeOK(TRUE, u)
  BY DEF WakeOK
<1> QED
  BY <1>1, <1>2, <1>3 DEF Owned

\* A pool that wakes up gets fresh agents in slots that have none.
LEMMA WakeOwned ==
  ASSUME NEW p, NEW t, NEW g, NEW rs, NEW pn, NEW rsp, NEW h,
         Owned(p, t, g, rs, pn, rsp, h, FALSE),
         NEW u, DOMAIN u = Slots, \A i \in Slots : u[i] = p[i] \/ u[i] = FreshSlot
  PROVE  Owned(u, t, g, rs, pn, rsp, h, TRUE)
<1>1. \A i \in Slots : p[i].agent = "none" /\ ~p[i].respawning
  BY DEF Owned, WakeOK
<1>2. SlotsOK(u, t, g)
  <2>1. ASSUME NEW j \in Slots PROVE SlotOK(u[j], t[j], g)
    <3>1. SlotOK(p[j], t[j], g)
      BY DEF Owned, SlotsOK
    <3>2. /\ DOMAIN FreshSlot = PFields /\ FreshSlot.agent = "idle"
          /\ FreshSlot.respawning = FALSE /\ FreshSlot.sess = {}
      BY DEF FreshSlot, PFields
    <3>3. p[j].agent = "none"
      BY <1>1
    <3> QED
      BY <3>1, <3>2, <3>3 DEF SlotOK
  <2> QED
    BY <2>1 DEF SlotsOK, Owned
<1>3. RespawnsOK(rsp, u)
  BY <1>1 DEF Owned, RespawnsOK
<1>4. WakeOK(TRUE, u)
  BY DEF WakeOK
<1> QED
  BY <1>2, <1>3, <1>4 DEF Owned

\* A heartbeat takes an idle slot, when there is no other.
LEMMA HeartbeatOwned ==
  ASSUME NEW p, NEW t, NEW g, NEW rs, NEW pn, NEW rsp, NEW ready,
         Owned(p, t, g, rs, pn, rsp, FALSE, ready),
         NEW i \in Slots, p[i].agent = "idle"
  PROVE  Owned([p EXCEPT ![i].agent = "out"], [t EXCEPT ![i] = NewTask(Heartbeat, NoBatch)],
               g, rs, pn, rsp, TRUE, ready)
<1> DEFINE s == NewTask(Heartbeat, NoBatch)
           x == [p[i] EXCEPT !.agent = "out"]
           u == [p EXCEPT ![i] = x]
           v == [t EXCEPT ![i] = s]
<1>1. DOMAIN p = Slots /\ DOMAIN t = Slots /\ \A j \in Slots : SlotOK(p[j], t[j], g)
  BY DEF Owned, SlotsOK
<1>2. DOMAIN s = TFields /\ s.ch = Heartbeat /\ s # NoTask /\ Quiet(s)
  BY DEF NewTask, TFields, NoTask, Heartbeat, Quiet
<1>3. DOMAIN x = PFields /\ x.agent = "out" /\ x.respawning = p[i].respawning
      /\ p[i].respawning = FALSE /\ t[i] = NoTask
  BY <1>1 DEF SlotOK, PFields
<1> HIDE DEF s, x
<1>4. DOMAIN v = Slots /\ \A j \in Slots : v[j] = IF j = i THEN s ELSE t[j]
  BY <1>1
<1>5. DOMAIN u = Slots /\ \A j \in Slots : u[j] = IF j = i THEN x ELSE p[j]
  BY <1>1
<1> HIDE DEF u, v
<1>6. SlotsOK(u, v, g)
  <2>1. ASSUME NEW j \in Slots PROVE SlotOK(u[j], v[j], g)
    BY <1>1, <1>2, <1>3, <1>4, <1>5 DEF SlotOK, Turns
  <2> QED
    BY <1>4, <1>5, <2>1 DEF SlotsOK
<1>7. ResultsOK(rs, v)
  <2>1. ResultsOK(rs, t)
    BY DEF Owned
  <2> QED
    BY <1>3, <1>4, <2>1 DEF ResultsOK
<1>8. PanicsOK(pn, v)
  BY <1>3, <1>4 DEF Owned, PanicsOK
<1>9. RespawnsOK(rsp, u)
  <2>1. \A j \in Slots : u[j].respawning = p[j].respawning
    BY <1>3, <1>5
  <2> QED
    BY <2>1 DEF Owned, RespawnsOK
<1>10. HeartbeatOK(TRUE, v)
  BY <1>2, <1>4 DEF Owned, HeartbeatOK
<1>11. WakeOK(ready, u)
  BY DEF Owned, WakeOK
<1>12. Owned(u, v, g, rs, pn, rsp, TRUE, ready)
  BY <1>6, <1>7, <1>8, <1>9, <1>10, <1>11 DEF Owned
<1>13. u = [p EXCEPT ![i].agent = "out"] /\ v = [t EXCEPT ![i] = NewTask(Heartbeat, NoBatch)]
  BY <1>1 DEF u, v, x, s
<1> QED
  BY <1>12, <1>13

\* Idle agents without the sessions of a channel that is removed.
LEMMA RemovalOwned ==
  ASSUME NEW p, NEW t, NEW g, NEW rs, NEW pn, NEW rsp, NEW h, NEW ready,
         Owned(p, t, g, rs, pn, rsp, h, ready), NEW ch,
         \A i \in Slots : p[i].agent = "idle" => ch \notin p[i].sess
  PROVE  Owned(p, t, g \cup {ch}, rs, pn, rsp, h, ready)
<1>1. SlotsOK(p, t, g \cup {ch})
  BY DEF Owned, SlotsOK, SlotOK
<1> QED
  BY <1>1 DEF Owned

\* A channel that is added again.
LEMMA AdditionOwned ==
  ASSUME NEW p, NEW t, NEW g, NEW rs, NEW pn, NEW rsp, NEW h, NEW ready,
         Owned(p, t, g, rs, pn, rsp, h, ready), NEW ch
  PROVE  Owned(p, t, g \ {ch}, rs, pn, rsp, h, ready)
<1>1. SlotsOK(p, t, g \ {ch})
  BY DEF Owned, SlotsOK, SlotOK
<1> QED
  BY <1>1 DEF Owned

\* A respawn task reports once.
LEMMA RespawnOwned ==
  ASSUME NEW p, NEW t, NEW g, NEW rs, NEW pn, NEW rsp, NEW h, NEW ready,
         Owned(p, t, g, rs, pn, rsp, h, ready),
         NEW i \in Slots, p[i].respawning, \A r \in rsp : r.slot # i, NEW ok \in BOOLEAN
  PROVE  Owned(p, t, g, rs, pn, rsp \cup {[slot |-> i, ok |-> ok]}, h, ready)
<1> DEFINE x == [slot |-> i, ok |-> ok]
<1>1. x.slot = i /\ x \in [slot : Slots, ok : BOOLEAN]
  OBVIOUS
<1> HIDE DEF x
<1>2. RespawnsOK(rsp \cup {x}, p)
  BY <1>1 DEF Owned, RespawnsOK
<1> QED
  BY <1>2 DEF Owned, x

-----------------------------------------------------------------------------
\* A step that ends with dispatch_pending.
LEMMA DispatchedOwned ==
  ASSUME NEW qs, NEW p, NEW t, NEW g, NEW rs, NEW pn, NEW rsp, NEW h, NEW ready,
         Owned(p, t, g, rs, pn, rsp, h, ready), Dispatch(qs, p, t)
  PROVE  Owned(pool', task', g, rs, pn, rsp, h, ready)
<1>1. PICK d \in dispatch_pending(qs, p, t) : q' = d.q /\ pool' = d.pool /\ task' = d.task
  BY DEF Dispatch
<1> QED
  BY <1>1, DispatchOwned

\* And what it leaves in the queue.
LEMMA DispatchedAgrees ==
  ASSUME NEW qs, NEW p, NEW t, NEW g, SlotsOK(p, t, g), TurnsOK(qs, t), Dispatch(qs, p, t)
  PROVE  TurnsOK(q', task')
<1>1. PICK d \in dispatch_pending(qs, p, t) : q' = d.q /\ pool' = d.pool /\ task' = d.task
  BY DEF Dispatch
<1> QED
  BY <1>1, DispatchAgrees

\* A signal or a steer request reaches a task that goes on.
Nudged(t, u) ==
  \/ u = t
  \/ \E i \in Slots : \E s : t[i] # NoTask /\ Goes(t[i], s) /\ u = [t EXCEPT ![i] = s]

\* A nudged task keeps its slot and its channel.
LEMMA NudgedOwned ==
  ASSUME NEW p, NEW t, NEW g, NEW rs, NEW pn, NEW rsp, NEW h, NEW ready,
         Owned(p, t, g, rs, pn, rsp, h, ready), NEW u, Nudged(t, u)
  PROVE  Owned(p, u, g, rs, pn, rsp, h, ready) /\ SameTurns(t, u)
<1>1. CASE u = t
  BY <1>1 DEF SameTurns
<1>2. CASE u # t
  <2>0. PICK i \in Slots : \E s : t[i] # NoTask /\ Goes(t[i], s) /\ u = [t EXCEPT ![i] = s]
    BY <1>2 DEF Nudged
  <2>1. PICK s : t[i] # NoTask /\ Goes(t[i], s) /\ u = [t EXCEPT ![i] = s]
    BY <2>0
  <2>2. Owned(p, u, g, rs, pn, rsp, h, ready)
    BY <2>1, TaskGoesOn
  <2>3. DOMAIN t = Slots /\ s.ch = t[i].ch
    BY <2>1 DEF Owned, SlotsOK, Goes
  <2>4. SameTurns(t, u)
    BY <2>1, <2>3 DEF SameTurns
  <2> QED
    BY <2>2, <2>4
<1> QED
  BY <1>1, <1>2

\* The tasks of a channel are tasks.
LEMMA TurnIsTask ==
  ASSUME NEW p, NEW t, NEW g, SlotsOK(p, t, g), NEW i \in Slots, NEW ch \in Channels,
         t[i].ch = ch
  PROVE  t[i] # NoTask /\ DOMAIN t[i] = TFields /\ DOMAIN t = Slots /\ ch # Heartbeat
BY ChannelsAssumption, SMT DEF SlotsOK, SlotOK, NoTask, Heartbeat

\* signal_in_flight_task only takes the control sender.
LEMMA SignalNudges ==
  ASSUME NEW p, NEW t, NEW g, SlotsOK(p, t, g), NEW ch \in Channels, NEW sig,
         NEW u \in Signalled(t, ch, sig)
  PROVE  Nudged(t, u)
<1>1. CASE u = t
  BY <1>1 DEF Nudged
<1>2. CASE u # t
  <2>1. PICK i \in Slots : t[i].ch = ch /\ u = [t EXCEPT ![i].ctl = sig]
    BY <1>2 DEF Signalled
  <2> DEFINE s == [t[i] EXCEPT !.ctl = sig]
  <2>2. t[i] # NoTask /\ DOMAIN t[i] = TFields /\ DOMAIN t = Slots /\ ch # Heartbeat
    BY <2>1, TurnIsTask
  <2>3. Goes(t[i], s)
    BY <2>1, <2>2 DEF Goes, TFields, Quiet
  <2>4. u = [t EXCEPT ![i] = s]
    BY <2>1, <2>2
  <2> HIDE DEF s
  <2> QED
    BY <2>2, <2>3, <2>4 DEF Nudged
<1> QED
  BY <1>1, <1>2

\* The queues r are qs, but for an operation on ch that keeps its marks.
Touched(qs, r, ch) ==
  \/ r = qs
  \/ \E c : Flies(qs[ch], c) /\ r = [qs EXCEPT ![ch] = c]

\* The ways of AfterPush: nothing, a signal, or a steer of the turn.
LEMMA AfterPushCases ==
  ASSUME NEW qs, NEW ch, NEW e, NEW s \in AfterPush(qs, ch, e)
  PROVE  \/ s = [q |-> qs, task |-> task]
         \/ \E sig \in {"steer", "interrupt"} : \E u \in Signalled(task, ch, sig) :
              s = [q |-> qs, task |-> u]
         \/ \E i \in Slots :
              /\ task[i].ch = ch
              /\ s = [q |-> [qs EXCEPT ![ch] = mark_native_steer_pending(@, e)],
                      task |-> [task EXCEPT ![i].buf = e]]
<1>1. CASE ~qs[ch].inflight \/ handling = "queue"
  BY <1>1 DEF AfterPush
<1>2. CASE qs[ch].inflight /\ handling # "queue" /\ handling = "steer"
  <2>1. s \in Steered(qs, ch, e)
    BY <1>2 DEF AfterPush
  <2>2. CASE SteerTargets(ch) = {}
    BY <2>1, <2>2 DEF Steered
  <2>3. CASE SteerTargets(ch) # {}
    <3>1. PICK i \in SteerTargets(ch) :
            s \in IF CanSteer(i)
                  THEN {[q |-> [qs EXCEPT ![ch] = mark_native_steer_pending(@, e)],
                         task |-> [task EXCEPT ![i].buf = e]]}
                  ELSE {[q |-> qs, task |-> t] : t \in Signalled(task, ch, "steer")}
      BY <2>1, <2>3 DEF Steered
    <3>2. i \in Slots /\ task[i].ch = ch
      BY DEF SteerTargets
    <3> QED
      BY <3>1, <3>2
  <2> QED
    BY <2>2, <2>3
<1>3. CASE qs[ch].inflight /\ handling # "queue" /\ handling # "steer"
  <2>1. s \in {[q |-> qs, task |-> t] : t \in Signalled(task, ch, "interrupt")}
    BY <1>3 DEF AfterPush
  <2> QED
    BY <2>1
<1> QED
  BY <1>1, <1>2, <1>3

\* After a push the turn of the channel may be signalled or steered: its
\* in-flight mark stays.
LEMMA AfterPushKeeps ==
  ASSUME NEW g, SlotsOK(pool, task, g), NEW qs, NEW ch \in Channels, NEW e,
         NEW s \in AfterPush(qs, ch, e)
  PROVE  /\ Nudged(task, s.task)
         /\ DOMAIN qs = Channels /\ DOMAIN qs[ch] = QFields => Touched(qs, s.q, ch)
<1>1. CASE s = [q |-> qs, task |-> task]
  BY <1>1 DEF Nudged, Touched
<1>2. ASSUME NEW sig, NEW u \in Signalled(task, ch, sig), s = [q |-> qs, task |-> u]
      PROVE  Nudged(task, s.task) /\ Touched(qs, s.q, ch)
  BY <1>2, SignalNudges DEF Touched
<1>3. ASSUME NEW i \in Slots, task[i].ch = ch,
             s = [q |-> [qs EXCEPT ![ch] = mark_native_steer_pending(@, e)],
                  task |-> [task EXCEPT ![i].buf = e]]
      PROVE  /\ Nudged(task, s.task)
             /\ DOMAIN qs = Channels /\ DOMAIN qs[ch] = QFields => Touched(qs, s.q, ch)
  <2> DEFINE x == [task[i] EXCEPT !.buf = e]
             c == mark_native_steer_pending(qs[ch], e)
  <2>1. /\ task[i] # NoTask /\ DOMAIN task[i] = TFields /\ DOMAIN task = Slots
        /\ ch # Heartbeat
    BY <1>3, TurnIsTask
  <2>2. Goes(task[i], x)
    BY <1>3, <2>1 DEF Goes, TFields, Quiet
  <2>3. s.task = [task EXCEPT ![i] = x]
    BY <1>3, <2>1
  <2>4. DOMAIN qs[ch] = QFields => Flies(qs[ch], c)
    BY OperationsFly
  <2>5. DOMAIN qs = Channels => s.q = [qs EXCEPT ![ch] = c]
    BY <1>3
  <2> HIDE DEF x, c
  <2> QED
    BY <2>1, <2>2, <2>3, <2>4, <2>5 DEF Nudged, Touched
<1>4. \/ s = [q |-> qs, task |-> task]
      \/ \E sig \in {"steer", "interrupt"} : \E u \in Signalled(task, ch, sig) :
           s = [q |-> qs, task |-> u]
      \/ \E i \in Slots :
           /\ task[i].ch = ch
           /\ s = [q |-> [qs EXCEPT ![ch] = mark_native_steer_pending(@, e)],
                   task |-> [task EXCEPT ![i].buf = e]]
  BY AfterPushCases, SMT
<1> QED
  BY <1>1, <1>2, <1>3, <1>4
-----------------------------------------------------------------------------
\* The steps of the loop.  Agrees is what a step owes to the queue: it keeps
\* the agreement of the in-flight marks with the tasks.
Agrees == TurnsOK(q, task) => TurnsOK(q', task')

\* The top of the loop before the pool is ready.
LEMMA TopListeningStep ==
  ASSUME SInv, TopListening
  PROVE  SInv' /\ Agrees
<1>1. /\ pool' = pool /\ task' = task /\ removed' = removed /\ results' = results
      /\ panics' = panics /\ respawned' = respawned /\ hb' = hb
      /\ q' = ExpireAll(q) /\ life' = WakeIfDue /\ ~PoolReady /\ AcksOK'
  BY DEF TopListening, SInv, AcksOK
<1>2. ~PoolReady' /\ "st" \in DOMAIN life'
  BY <1>1 DEF PoolReady, WakeIfDue, SInv
<1>3. SInv'
  BY <1>1, <1>2 DEF SInv, Owned, WakeOK
<1>4. Agrees
  BY <1>1, NothingExpires DEF Agrees
<1> QED
  BY <1>3, <1>4

\* ensure_pool_health refills empty slots only.
LEMMA MaintainedRefills ==
  ASSUME SInv
  PROVE  DOMAIN MaintainedPool = Slots
         /\ \A i \in Slots : Refills(pool[i], MaintainedPool[i])
<1>1. ASSUME NEW i \in Slots PROVE Refills(pool[i], MaintainedPool[i])
  <2>1. SlotOK(pool[i], task[i], removed)
    BY DEF SInv, Owned, SlotsOK
  <2>2. CASE slot_alive(pool, task, i) \/ pool[i].respawning \/ ~can_refill(pool[i])
    BY <2>2 DEF MaintainedPool, Refills
  <2>3. CASE ~(slot_alive(pool, task, i) \/ pool[i].respawning \/ ~can_refill(pool[i]))
    <3>1. MaintainedPool[i] = Refill(pool[i])
      BY <2>3 DEF MaintainedPool
    <3>2. pool[i].agent = "none" /\ DOMAIN pool[i] = PFields
      BY <2>1, <2>3 DEF slot_alive, SlotOK
    <3>3. /\ DOMAIN Refill(pool[i]) = PFields /\ Refill(pool[i]).agent = "none"
          /\ Refill(pool[i]).respawning = TRUE
      BY <3>2 DEF Refill, PFields
    <3> QED
      BY <3>1, <3>2, <3>3 DEF Refills
  <2> QED
    BY <2>2, <2>3
<1>2. DOMAIN MaintainedPool = Slots
  BY DEF MaintainedPool
<1> QED
  BY <1>1, <1>2

\* The respawned agents go to slots that wait for them.
LEMMA CollectArrives ==
  ASSUME NEW p, NEW t, NEW g, SlotsOK(p, t, g), RespawnsOK(respawned, p)
  PROVE  DOMAIN Collect(p) = Slots /\ \A i \in Slots : Arrives(p[i], Collect(p)[i])
<1>1. ASSUME NEW i \in Slots PROVE Arrives(p[i], Collect(p)[i])
  <2> DEFINE up == [slot |-> i, ok |-> TRUE]
             down == [slot |-> i, ok |-> FALSE]
  <2>1. SlotOK(p[i], t[i], g)
    BY DEF SlotsOK
  <2>2. CASE up \in respawned
    <3>0. down \notin respawned
      <4>1. up.slot = down.slot /\ up # down
        OBVIOUS
      <4> HIDE DEF up, down
      <4> QED
        BY <2>2, <4>1 DEF RespawnsOK
    <3>1. Collect(p)[i] = [p[i] EXCEPT !.respawning = FALSE, !.agent = "idle", !.sess = {}]
      BY <2>2, <3>0 DEF Collect
    <3>2. p[i].respawning
      BY <2>2 DEF RespawnsOK
    <3> QED
      BY <2>1, <3>1, <3>2 DEF Arrives, SlotOK, PFields
  <2>3. CASE up \notin respawned /\ down \in respawned
    <3>1. Collect(p)[i] = [p[i] EXCEPT !.respawning = FALSE, !.circuit = "open"]
      BY <2>3 DEF Collect
    <3>2. p[i].respawning
      BY <2>3 DEF RespawnsOK
    <3> QED
      BY <2>1, <3>1, <3>2 DEF Arrives, SlotOK, PFields
  <2>4. CASE up \notin respawned /\ down \notin respawned
    <3>1. Collect(p)[i] = p[i]
      BY <2>4 DEF Collect
    <3> QED
      BY <3>1 DEF Arrives
  <2> QED
    BY <2>2, <2>3, <2>4
<1>2. DOMAIN Collect(p) = Slots
  BY DEF Collect
<1> QED
  BY <1>1, <1>2

\* The maintenance of the queue leaves what is in flight.
LEMMA MaintainedAgrees ==
  ASSUME TurnsOK(q, task)
  PROVE  TurnsOK(MaintainedQueue, task)
<1> DEFINE c == [ch \in Channels |-> compact_expired_state(q[ch])]
<1>1. \A ch \in Channels : DOMAIN q[ch] = QFields
  BY DEF TurnsOK
<1>2. ASSUME NEW ch \in Channels PROVE Flies(q[ch], c[ch])
  BY <1>1, OperationsFly
<1>3. DOMAIN c = Channels
  OBVIOUS
<1>4. SameTurns(task, task)
  BY DEF SameTurns
<1>5. MaintainedQueue = ExpireAll(c)
  BY DEF MaintainedQueue
<1> HIDE DEF c
<1>6. TurnsOK(c, task)
  BY <1>2, <1>3, <1>4, TurnsKept
<1> QED
  BY <1>5, <1>6, NothingExpires

\* The top of the loop with a pool that is ready.
LEMMA TopStep ==
  ASSUME SInv, NEW due \in BOOLEAN, Top(due)
  PROVE  SInv' /\ Agrees
<1>1. PICK d \in IF due THEN dispatch_pending(MaintainedQueue, MaintainedPool, task)
                 ELSE {[q |-> q, pool |-> pool, task |-> task, done |-> FALSE]} :
        IF AnyCollected THEN Dispatch(d.q, Collect(d.pool), d.task)
        ELSE q' = d.q /\ pool' = Collect(d.pool) /\ task' = d.task
  BY DEF Top
<1>2. /\ PoolReady /\ respawned' = {} /\ life' = life /\ results' = results
      /\ panics' = panics /\ removed' = removed /\ hb' = hb /\ AcksOK'
  BY DEF Top, SInv, AcksOK
<1>3. Owned(pool, task, removed, results, panics, respawned, hb, TRUE)
  BY <1>2 DEF SInv, Owned, WakeOK
<1>4. /\ Owned(d.pool, d.task, removed, results, panics, respawned, hb, TRUE)
      /\ TurnsOK(q, task) => TurnsOK(d.q, d.task)
  <2>1. CASE due
    <3>1. d \in dispatch_pending(MaintainedQueue, MaintainedPool, task)
      BY <1>1, <2>1
    <3>2. Owned(MaintainedPool, task, removed, results, panics, respawned, hb, TRUE)
      BY <1>3, MaintainedRefills, RefillOwned
    <3>3. SlotsOK(MaintainedPool, task, removed)
      BY <3>2 DEF Owned
    <3> QED
      BY <3>1, <3>2, <3>3, MaintainedAgrees, DispatchOwned, DispatchAgrees
  <2>2. CASE ~due
    <3>1. d.q = q /\ d.pool = pool /\ d.task = task
      BY <1>1, <2>2, SMT
    <3> QED
      BY <1>3, <3>1
  <2> QED
    BY <2>1, <2>2
<1>5. Owned(Collect(d.pool), d.task, removed, results, panics, {}, hb, TRUE)
  <2>1. SlotsOK(d.pool, d.task, removed) /\ RespawnsOK(respawned, d.pool)
    BY <1>4 DEF Owned
  <2>2. DOMAIN Collect(d.pool) = Slots
        /\ \A i \in Slots : Arrives(d.pool[i], Collect(d.pool)[i])
    BY <2>1, CollectArrives
  <2> QED
    BY <1>4, <2>2, ArrivalOwned
<1>6. Owned(pool', task', removed, results, panics, {}, hb, TRUE)
  BY <1>1, <1>5, DispatchedOwned
<1>7. SInv'
  BY <1>2, <1>6 DEF SInv, PoolReady, Owned, WakeOK
<1>8. Agrees
  <2>1. SlotsOK(Collect(d.pool), d.task, removed)
    BY <1>5 DEF Owned
  <2> QED
    BY <1>1, <1>4, <2>1, DispatchedAgrees DEF Agrees
<1> QED
  BY <1>7, <1>8

\* A wake result: the agents it brings go to empty slots.
LEMMA HandleWakeStep ==
  ASSUME SInv, HandleWake
  PROVE  SInv' /\ Agrees
<1>1. PICK w \in woken :
        IF life.st # "waking" \/ w.attempt # life.attempt
        THEN UNCHANGED <<q, pool, task, life>>
        ELSE IF w.up = {}
        THEN /\ life' = [life EXCEPT !.st = "failed", !.due = FALSE]
             /\ UNCHANGED <<q, pool, task>>
        ELSE /\ life' = [life EXCEPT !.st = "ready"]
             /\ Dispatch(q, [i \in Slots |-> IF i \in w.up THEN FreshSlot ELSE pool[i]], task)
  BY DEF HandleWake
<1>2. /\ results' = results /\ panics' = panics /\ respawned' = respawned
      /\ removed' = removed /\ hb' = hb /\ ~PoolReady /\ AcksOK'
  BY DEF HandleWake, SInv, AcksOK
<1>3. Owned(pool, task, removed, results, panics, respawned, hb, FALSE)
  BY <1>2 DEF SInv, Owned, WakeOK
<1>4. CASE /\ UNCHANGED <<q, pool, task>>
           /\ life' = life \/ life' = [life EXCEPT !.st = "failed", !.due = FALSE]
  <2>1. SInv'
    BY <1>2, <1>3, <1>4 DEF SInv, Owned, WakeOK
  <2> QED
    BY <1>4, <2>1 DEF Agrees
<1>5. CASE /\ life' = [life EXCEPT !.st = "ready"]
           /\ Dispatch(q, [i \in Slots |-> IF i \in w.up THEN FreshSlot ELSE pool[i]], task)
  <2> DEFINE u == [i \in Slots |-> IF i \in w.up THEN FreshSlot ELSE pool[i]]
  <2>1. DOMAIN u = Slots /\ \A i \in Slots : u[i] = pool[i] \/ u[i] = FreshSlot
    OBVIOUS
  <2>2. Dispatch(q, u, task)
    BY <1>5
  <2> HIDE DEF u
  <2>3. Owned(u, task, removed, results, panics, respawned, hb, TRUE)
    BY <1>3, <2>1, WakeOwned
  <2>4. Owned(pool', task', removed, results, panics, respawned, hb, TRUE)
    BY <2>2, <2>3, DispatchedOwned
  <2>5. SInv'
    <3>1. PoolReady' /\ "st" \in DOMAIN life'
      BY <1>5 DEF PoolReady, SInv
    <3> QED
      BY <1>2, <2>4, <3>1 DEF SInv, Owned, WakeOK
  <2>6. Agrees
    BY <2>2, <2>3, DispatchedAgrees DEF Owned, Agrees
  <2> QED
    BY <2>5, <2>6
<1> QED
  BY <1>1, <1>4, <1>5

\* Steps that leave the pool's life alone.
LEMMA LifeKept ==
  ASSUME SInv, life' = life, AcksOK',
         Owned(pool', task', removed', results', panics', respawned', hb', PoolReady)
  PROVE  SInv'
<1>1. PoolReady' = PoolReady
  BY DEF PoolReady
<1> QED
  BY <1>1 DEF SInv

\* A crash empties the slot; a respawn may follow.
LEMMA CrashEnds ==
  ASSUME NEW x, NEW t, NEW g, SlotOK(x, t, g), NEW y \in record_crash(x)
  PROVE  Ends(x, y, g)
<1> DEFINE gone == [x EXCEPT !.agent = "none", !.sess = {}]
<1>1. DOMAIN gone = PFields /\ gone.agent = "none" /\ gone.respawning = x.respawning
      /\ x.respawning \in BOOLEAN
  BY DEF SlotOK, PFields
<1>2. \/ y = gone
      \/ y = [gone EXCEPT !.crashes = CrashLimit - 1, !.circuit = "closed", !.respawning = TRUE]
      \/ y = [gone EXCEPT !.crashes = CrashLimit, !.circuit = "open"]
      \/ \E k : y = [gone EXCEPT !.crashes = k + 1, !.respawning = TRUE]
  <2>1. CASE x.circuit = "open"
    BY <2>1 DEF record_crash
  <2>2. CASE x.circuit = "elapsed"
    BY <2>2 DEF record_crash
  <2>3. CASE x.circuit # "open" /\ x.circuit # "elapsed"
    <3>1. y \in {IF k + 1 >= CrashLimit
                 THEN [gone EXCEPT !.crashes = CrashLimit, !.circuit = "open"]
                 ELSE [gone EXCEPT !.crashes = k + 1, !.respawning = TRUE]
                 : k \in 0..x.crashes}
      BY <2>3 DEF record_crash
    <3> HIDE DEF gone
    <3> QED
      BY <3>1
  <2> QED
    BY <2>1, <2>2, <2>3
<1> HIDE DEF gone
<1> QED
  BY <1>1, <1>2 DEF Ends, PFields

\* The agent of a task that is over goes back without sessions of removed channels.
LEMMA ReturnEnds ==
  ASSUME NEW i \in Slots, SlotOK(pool[i], task[i], removed), task[i] # NoTask
  PROVE  Ends(pool[i], Returned(i), removed)
<1>1. /\ DOMAIN pool[i] = PFields /\ pool[i].agent = "out" /\ pool[i].respawning = FALSE
  BY DEF SlotOK
<1> DEFINE y == Returned(i)
<1>2. /\ DOMAIN y = PFields /\ y.agent = "idle" /\ y.respawning = FALSE
      /\ y.sess = pool[i].sess \ removed
  BY <1>1 DEF Returned, PFields
<1> HIDE DEF y
<1>3. y.sess \cap removed = {}
  BY <1>2
<1>4. Ends(pool[i], y, removed)
  BY <1>1, <1>2, <1>3 DEF Ends
<1> QED
  BY <1>4 DEF y

\* handle_prompt_result ends the task of the result.
LEMMA HandleResultStep ==
  ASSUME SInv, HandleResult
  PROVE  SInv' /\ Agrees
<1> DEFINE r == Head(results)
           i == r.slot
           t == [task EXCEPT ![i] = NoTask]
           qs == IF r.ch = Heartbeat THEN q
                 ELSE [q EXCEPT ![r.ch] = ResultQueue(q[r.ch], r)]
<1>1. PICK s \in IF r.outcome \in Fatal THEN record_crash(pool[i]) ELSE {Returned(i)} :
        \/ q' = qs /\ pool' = [pool EXCEPT ![i] = s] /\ task' = t
        \/ Dispatch(qs, [pool EXCEPT ![i] = s], t)
  BY DEF HandleResult
<1>2. /\ results # <<>> /\ results' = Tail(results) /\ hb' = (hb /\ r.ch # Heartbeat)
      /\ life' = life /\ AcksOK' /\ panics' = panics /\ respawned' = respawned /\ removed' = removed
  BY DEF HandleResult, SInv, AcksOK
<1>3. Owned(pool, task, removed, results, panics, respawned, hb, PoolReady)
  BY DEF SInv
<1>4. /\ Owned(pool, task, removed, Tail(results), panics, respawned, hb, PoolReady)
      /\ i \in Slots /\ task[i] # NoTask /\ task[i].ch = r.ch /\ i \notin panics
      /\ \A k \in DOMAIN Tail(results) : Tail(results)[k].slot # i
  BY <1>2, <1>3, ResultTaken, SMT
<1> HIDE DEF r, i
<1>5. SlotOK(pool[i], task[i], removed) /\ DOMAIN task = Slots
  BY <1>3, <1>4 DEF Owned, SlotsOK
<1>6. Ends(pool[i], s, removed)
  BY <1>1, <1>4, <1>5, CrashEnds, ReturnEnds
<1> DEFINE p == [pool EXCEPT ![i] = s]
           h == hb /\ task[i].ch # Heartbeat
           rest == Tail(results)
<1>7. Owned(p, t, removed, rest, panics, respawned, h, PoolReady)
  BY <1>4, <1>6, TaskEnds
<1>8. hb' = h
  BY <1>2, <1>4
<1>9. results' = rest
  BY <1>2
<1>10. TurnsOK(q, task) => TurnsOK(qs, t)
  <2> SUFFICES ASSUME TurnsOK(q, task) PROVE TurnsOK(qs, t)
    OBVIOUS
  <2>1. CASE r.ch = Heartbeat
    <3>1. task[i].ch \notin Channels /\ NoTask.ch \notin Channels
      BY <1>4, <2>1, ChannelsAssumption DEF NoTask, Heartbeat
    <3> QED
      BY <1>4, <1>5, <2>1, <3>1, NoTurnEnds
  <2>2. CASE r.ch # Heartbeat
    <3>1. r.ch \in Channels
      BY <1>4, <1>5, <2>2 DEF SlotOK, Turns
    <3> DEFINE c == ResultQueue(q[r.ch], r)
    <3>2. DOMAIN q[r.ch] = QFields
      BY <3>1 DEF TurnsOK
    <3>3. DOMAIN c = QFields /\ c.inflight = FALSE /\ c.overdue = FALSE
      <4> DEFINE x == IF r.batch = NoBatch \/ r.ch \in removed THEN q[r.ch]
                      ELSE IF Preserved(r.outcome) THEN requeue_as_cancelled(q[r.ch], r.batch)
                      ELSE IF DeadLettered(r.outcome) THEN q[r.ch]
                      ELSE requeue(q[r.ch], r.batch)
      <4>1. \/ x = q[r.ch] \/ x = requeue_as_cancelled(q[r.ch], r.batch)
            \/ x = requeue(q[r.ch], r.batch)
        BY SMT
      <4>2. c = mark_complete(x)
        BY DEF ResultQueue
      <4> HIDE DEF x, c
      <4>3. DOMAIN x = QFields
        BY <3>2, <4>1, OperationsFly, SMT DEF Flies
      <4> QED
        BY <4>2, <4>3, OperationsMark
    <3> HIDE DEF c
    <3>4. TurnsOK([q EXCEPT ![r.ch] = c], t)
      BY <1>4, <1>5, <3>1, <3>3, TurnEnds
    <3> QED
      BY <2>2, <3>4 DEF c
  <2> QED
    BY <2>1, <2>2
<1> HIDE DEF p, h, t, qs, rest
<1>11. CASE q' = qs /\ pool' = p /\ task' = t
  <2>1. SInv'
    BY <1>2, <1>7, <1>8, <1>9, <1>11, LifeKept
  <2> QED
    BY <1>10, <1>11, <2>1 DEF Agrees
<1>12. CASE Dispatch(qs, p, t)
  <2>1. Owned(pool', task', removed, rest, panics, respawned, h, PoolReady)
    BY <1>7, <1>12, DispatchedOwned
  <2>2. SInv'
    BY <1>2, <1>8, <1>9, <2>1, LifeKept
  <2>3. SlotsOK(p, t, removed)
    BY <1>7 DEF Owned
  <2> QED
    BY <1>10, <1>12, <2>2, <2>3, DispatchedAgrees DEF Agrees
<1> QED
  BY <1>1, <1>11, <1>12 DEF p

\* recover_panicked_agent ends the task that panicked.
LEMMA RecoverPanicStep ==
  ASSUME SInv, NEW i \in Slots, RecoverPanic(i)
  PROVE  SInv' /\ Agrees
<1> DEFINE ch == task[i].ch
           b == task[i].batch
           t == [task EXCEPT ![i] = NoTask]
           recoverable == ch # Heartbeat /\ ~DropMode /\ ch \notin removed
           qs == IF ch = Heartbeat THEN q
                 ELSE [q EXCEPT ![ch] = mark_complete(IF recoverable THEN requeue(@, b) ELSE @)]
           pn == panics \ {i}
<1>1. PICK s \in record_crash(pool[i]) :
        \/ q' = qs /\ pool' = [pool EXCEPT ![i] = s] /\ task' = t
        \/ Dispatch(qs, [pool EXCEPT ![i] = s], t)
  BY DEF RecoverPanic
<1>2. /\ i \in panics /\ panics' = pn /\ hb' = (hb /\ ch # Heartbeat)
      /\ life' = life /\ AcksOK' /\ results' = results /\ respawned' = respawned /\ removed' = removed
  BY DEF RecoverPanic, SInv, AcksOK
<1>3. Owned(pool, task, removed, results, panics, respawned, hb, PoolReady)
  BY DEF SInv
<1>4. /\ Owned(pool, task, removed, results, pn, respawned, hb, PoolReady)
      /\ task[i] # NoTask /\ \A k \in DOMAIN results : results[k].slot # i
  BY <1>2, <1>3, PanicTaken
<1>5. SlotOK(pool[i], task[i], removed) /\ DOMAIN task = Slots
  BY <1>3 DEF Owned, SlotsOK
<1>6. Ends(pool[i], s, removed)
  BY <1>1, <1>5, CrashEnds
<1> DEFINE p == [pool EXCEPT ![i] = s]
           h == hb /\ task[i].ch # Heartbeat
<1>7. i \notin pn
  OBVIOUS
<1> HIDE DEF pn
<1>8. Owned(p, t, removed, results, pn, respawned, h, PoolReady)
  BY <1>4, <1>6, <1>7, TaskEnds
<1>9. hb' = h
  BY <1>2
<1>10. TurnsOK(q, task) => TurnsOK(qs, t)
  <2> SUFFICES ASSUME TurnsOK(q, task) PROVE TurnsOK(qs, t)
    OBVIOUS
  <2>1. CASE ch = Heartbeat
    <3>1. task[i].ch \notin Channels /\ NoTask.ch \notin Channels
      BY <2>1, ChannelsAssumption DEF NoTask, Heartbeat
    <3> QED
      BY <1>5, <2>1, <3>1, NoTurnEnds
  <2>2. CASE ch # Heartbeat
    <3>1. ch \in Channels
      BY <1>4, <1>5, <2>2 DEF SlotOK, Turns
    <3> DEFINE x == IF recoverable THEN requeue(q[ch], b) ELSE q[ch]
               c == mark_complete(x)
    <3>2. DOMAIN q[ch] = QFields /\ DOMAIN q = Channels
      BY <3>1 DEF TurnsOK
    <3>3. DOMAIN x = QFields
      BY <3>2, OperationsFly DEF Flies
    <3>4. qs = [q EXCEPT ![ch] = c]
      BY <2>2, <3>1, <3>2
    <3> HIDE DEF x, qs
    <3>5. DOMAIN c = QFields /\ c.inflight = FALSE /\ c.overdue = FALSE
      BY <3>3, OperationsMark
    <3> HIDE DEF c, ch
    <3>6. task[i].ch = ch
      BY DEF ch
    <3>7. TurnsOK([q EXCEPT ![ch] = c], t)
      BY <1>5, <3>1, <3>5, <3>6, TurnEnds
    <3> QED
      BY <3>4, <3>7
  <2> QED
    BY <2>1, <2>2
<1> HIDE DEF p, h, t, qs
<1>11. CASE q' = qs /\ pool' = p /\ task' = t
  <2>1. SInv'
    BY <1>2, <1>8, <1>9, <1>11, LifeKept
  <2> QED
    BY <1>10, <1>11, <2>1 DEF Agrees
<1>12. CASE Dispatch(qs, p, t)
  <2>1. Owned(pool', task', removed, results, pn, respawned, h, PoolReady)
    BY <1>8, <1>12, DispatchedOwned
  <2>2. SInv'
    BY <1>2, <1>9, <2>1, LifeKept
  <2>3. SlotsOK(p, t, removed)
    BY <1>8 DEF Owned
  <2> QED
    BY <1>10, <1>12, <2>2, <2>3, DispatchedAgrees DEF Agrees
<1> QED
  BY <1>1, <1>11, <1>12 DEF p

\* An event from the relay: it is pushed and may signal or steer the turn.
LEMMA RelayEventStep ==
  ASSUME SInv, NEW ch \in Channels, RelayEvent(ch)
  PROVE  SInv' /\ Agrees
<1> DEFINE e == arrived + 1
           qe == [q EXCEPT ![ch] = push(@, e)]
<1>1. PICK s \in IF Refused(q[ch]) THEN {[q |-> q, task |-> task]} ELSE AfterPush(qe, ch, e) :
        IF PoolReady THEN Dispatch(s.q, pool, s.task)
        ELSE q' = s.q /\ task' = s.task /\ UNCHANGED pool
  BY DEF RelayEvent
<1>2. /\ life' = life /\ AcksOK' /\ results' = results /\ panics' = panics
      /\ respawned' = respawned
      /\ removed' = removed /\ hb' = hb
  BY DEF RelayEvent, SInv, AcksOK
<1>3. Owned(pool, task, removed, results, panics, respawned, hb, PoolReady)
      /\ SlotsOK(pool, task, removed)
  BY DEF SInv, Owned
<1>4. /\ Nudged(task, s.task)
      /\ TurnsOK(q, task) => TurnsOK(s.q, s.task)
  <2>1. CASE Refused(q[ch])
    <3>1. s.q = q /\ s.task = task
      BY <1>1, <2>1, SMT
    <3> QED
      BY <3>1 DEF Nudged
  <2>2. CASE ~Refused(q[ch])
    <3>1. s \in AfterPush(qe, ch, e)
      BY <1>1, <2>2
    <3> HIDE DEF qe, e
    <3>2. /\ Nudged(task, s.task)
          /\ DOMAIN qe = Channels /\ DOMAIN qe[ch] = QFields => Touched(qe, s.q, ch)
      BY <1>3, <3>1, AfterPushKeeps
    <3>3. ASSUME TurnsOK(q, task) PROVE TurnsOK(s.q, s.task)
      <4> DEFINE c == push(q[ch], e)
      <4>1. DOMAIN q = Channels /\ DOMAIN q[ch] = QFields
        BY <3>3 DEF TurnsOK
      <4>2. Flies(q[ch], c)
        BY <4>1, OperationsFly
      <4>3. qe = [q EXCEPT ![ch] = c]
        BY <4>1 DEF qe
      <4>4. SameTurns(task, task)
        BY DEF SameTurns
      <4> HIDE DEF c
      <4>5. TurnsOK(qe, task)
        BY <3>3, <4>2, <4>3, <4>4, TurnsKeptAt
      <4>6. DOMAIN qe = Channels /\ DOMAIN qe[ch] = QFields
        BY <4>5 DEF TurnsOK
      <4>7. s.q = qe \/ \E x : Flies(qe[ch], x) /\ s.q = [qe EXCEPT ![ch] = x]
        BY <3>2, <4>6 DEF Touched
      <4>8. SameTurns(task, s.task)
        BY <1>3, <3>2, NudgedOwned
      <4>9. CASE s.q = qe
        BY <4>5, <4>8, <4>9, SMT DEF TurnsOK, SameTurns
      <4>10. CASE s.q # qe
        <5>1. PICK x : Flies(qe[ch], x) /\ s.q = [qe EXCEPT ![ch] = x]
          BY <4>7, <4>10
        <5> QED
          BY <4>5, <4>8, <5>1, TurnsKeptAt, SMT
      <4> QED
        BY <4>9, <4>10
    <3> QED
      BY <3>2, <3>3
  <2> QED
    BY <2>1, <2>2
<1>5. Owned(pool, s.task, removed, results, panics, respawned, hb, PoolReady)
      /\ SlotsOK(pool, s.task, removed)
  BY <1>3, <1>4, NudgedOwned DEF Owned
<1>6. Owned(pool', task', removed, results, panics, respawned, hb, PoolReady)
  BY <1>1, <1>5, DispatchedOwned
<1>7. SInv'
  BY <1>2, <1>6, LifeKept
<1>8. Agrees
  BY <1>1, <1>4, <1>5, DispatchedAgrees DEF Agrees
<1> QED
  BY <1>7, <1>8

\* A steer ack: the withheld event is released or removed.
LEMMA HandleAckStep ==
  ASSUME SInv, HandleAck
  PROVE  SInv' /\ Agrees
<1>1. PICK a \in acks :
        \E t \in IF a.kind = "fallback" THEN Signalled(task, a.ch, "steer") ELSE {task} :
          Dispatch(IF a.kind = "success"
                   THEN [q EXCEPT ![a.ch] = remove_event(extend_in_flight_deadline(@), a.e)]
                   ELSE [q EXCEPT ![a.ch] = release_native_steer(@, a.e)], pool, t)
  BY DEF HandleAck
<1> DEFINE qs == IF a.kind = "success"
                 THEN [q EXCEPT ![a.ch] = remove_event(extend_in_flight_deadline(@), a.e)]
                 ELSE [q EXCEPT ![a.ch] = release_native_steer(@, a.e)]
<1>2. PICK t \in IF a.kind = "fallback" THEN Signalled(task, a.ch, "steer") ELSE {task} :
        Dispatch(qs, pool, t)
  BY <1>1
<1>3. /\ life' = life /\ AcksOK' /\ results' = results /\ panics' = panics
      /\ respawned' = respawned
      /\ removed' = removed /\ hb' = hb
  BY DEF HandleAck, SInv, AcksOK
<1>4. Owned(pool, task, removed, results, panics, respawned, hb, PoolReady)
      /\ SlotsOK(pool, task, removed)
  BY DEF SInv, Owned
<1>a. a.ch \in Channels
  BY <1>1 DEF SInv, AcksOK
<1>5. Nudged(task, t)
  BY <1>2, <1>4, <1>a, SignalNudges, SMT DEF Nudged
<1>6. /\ Owned(pool, t, removed, results, panics, respawned, hb, PoolReady)
      /\ SlotsOK(pool, t, removed) /\ SameTurns(task, t)
  BY <1>4, <1>5, NudgedOwned DEF Owned
<1>7. SInv'
  BY <1>2, <1>3, <1>6, DispatchedOwned, LifeKept
<1>8. ASSUME TurnsOK(q, task) PROVE TurnsOK(qs, t)
  <2> DEFINE c == IF a.kind = "success"
                  THEN remove_event(extend_in_flight_deadline(q[a.ch]), a.e)
                  ELSE release_native_steer(q[a.ch], a.e)
  <2>1. DOMAIN q = Channels /\ DOMAIN q[a.ch] = QFields /\ q[a.ch].overdue = FALSE
    BY <1>8, <1>a DEF TurnsOK
  <2>2. Flies(q[a.ch], c)
    <3>1. CASE a.kind = "success"
      <4> DEFINE y == remove_event(extend_in_flight_deadline(q[a.ch]), a.e)
      <4>1. DOMAIN y = QFields /\ y.inflight = q[a.ch].inflight /\ y.overdue = FALSE
        BY <2>1 DEF remove_event, extend_in_flight_deadline, QFields
      <4>2. c = y
        BY <3>1
      <4> HIDE DEF y, c
      <4> QED
        BY <2>1, <4>1, <4>2 DEF Flies
    <3>2. CASE a.kind # "success"
      BY <2>1, <3>2, OperationsFly
    <3> QED
      BY <3>1, <3>2
  <2>3. qs = [q EXCEPT ![a.ch] = c]
    BY <2>1
  <2> HIDE DEF c, qs
  <2> QED
    BY <1>6, <1>8, <1>a, <2>2, <2>3, TurnsKeptAt
<1>9. Agrees
  BY <1>2, <1>6, <1>8, DispatchedAgrees DEF Agrees
<1> QED
  BY <1>7, <1>9

\* Dropping sessions of idle agents.
LEMMA IdleSessionsDropped ==
  ASSUME SInv, NEW ch
  PROVE  /\ DOMAIN DropIdleSessions(ch) = Slots
         /\ \A i \in Slots : SlotKeeps(pool[i], DropIdleSessions(ch)[i])
         /\ \A i \in Slots : DropIdleSessions(ch)[i].agent = "idle"
                             => ch \notin DropIdleSessions(ch)[i].sess
<1>1. ASSUME NEW i \in Slots
      PROVE  /\ SlotKeeps(pool[i], DropIdleSessions(ch)[i])
             /\ DropIdleSessions(ch)[i].agent = "idle" => ch \notin DropIdleSessions(ch)[i].sess
  <2>1. SlotOK(pool[i], task[i], removed)
    BY DEF SInv, Owned, SlotsOK
  <2>2. CASE pool[i].agent = "idle"
    <3>1. DropIdleSessions(ch)[i] = [pool[i] EXCEPT !.sess = @ \ {ch}]
      BY <2>2 DEF DropIdleSessions
    <3> DEFINE y == [pool[i] EXCEPT !.sess = @ \ {ch}]
    <3>2. /\ DOMAIN y = PFields /\ y.agent = pool[i].agent /\ y.respawning = pool[i].respawning
          /\ y.sess = pool[i].sess \ {ch}
      BY <2>1 DEF SlotOK, PFields
    <3> HIDE DEF y
    <3>3. SlotKeeps(pool[i], y) /\ ch \notin y.sess
      BY <3>2 DEF SlotKeeps
    <3> QED
      BY <3>1, <3>3 DEF y
  <2>3. CASE pool[i].agent # "idle"
    <3>1. DropIdleSessions(ch)[i] = pool[i]
      BY <2>3 DEF DropIdleSessions
    <3> QED
      BY <2>1, <2>3, <3>1 DEF SlotKeeps, SlotOK
  <2> QED
    BY <2>2, <2>3
<1>2. DOMAIN DropIdleSessions(ch) = Slots
  BY DEF DropIdleSessions
<1> QED
  BY <1>1, <1>2

\* Dropping one session of an idle agent.
LEMMA OneSessionDropped ==
  ASSUME SInv, NEW ch, NEW k \in Slots, pool[k].agent = "idle"
  PROVE  /\ DOMAIN DropSession(k, ch) = Slots
         /\ \A i \in Slots : SlotKeeps(pool[i], DropSession(k, ch)[i])
<1>1. ASSUME NEW i \in Slots
      PROVE  SlotKeeps(pool[i], DropSession(k, ch)[i])
  <2>1. SlotOK(pool[i], task[i], removed)
    BY DEF SInv, Owned, SlotsOK
  <2>2. CASE i = k
    <3>1. DropSession(k, ch)[i] = [pool[i] EXCEPT !.sess = @ \ {ch}]
      BY <2>2 DEF DropSession
    <3> DEFINE y == [pool[i] EXCEPT !.sess = @ \ {ch}]
    <3>2. /\ DOMAIN y = PFields /\ y.agent = pool[i].agent /\ y.respawning = pool[i].respawning
          /\ y.sess = pool[i].sess \ {ch}
      BY <2>1 DEF SlotOK, PFields
    <3> HIDE DEF y
    <3>3. SlotKeeps(pool[i], y)
      BY <3>2 DEF SlotKeeps
    <3> QED
      BY <3>1, <3>3 DEF y
  <2>3. CASE i # k
    <3>1. DropSession(k, ch)[i] = pool[i]
      BY <2>3 DEF DropSession
    <3> QED
      BY <2>1, <3>1 DEF SlotKeeps, SlotOK
  <2> QED
    BY <2>2, <2>3
<1>2. DOMAIN DropSession(k, ch) = Slots
  BY DEF DropSession
<1> QED
  BY <1>1, <1>2

\* An owner command signals the turn, or drops idle sessions.
LEMMA CommandStep ==
  ASSUME SInv, NEW ch \in Channels, NEW sig, Command(ch, sig)
  PROVE  SInv' /\ Agrees
<1>1. PICK t \in Signalled(task, ch, sig) :
        /\ task' = t
        /\ \/ pool' = DropIdleSessions(ch) \/ pool' = pool
           \/ \E k \in Slots : pool[k].agent = "idle" /\ pool' = DropSession(k, ch)
  BY DEF Command, switch_idle_agent_model, SessionOf
<1>2. /\ life' = life /\ AcksOK' /\ results' = results /\ panics' = panics
      /\ respawned' = respawned
      /\ removed' = removed /\ hb' = hb /\ q' = q
  BY DEF Command, SInv, AcksOK
<1>3. Owned(pool, task, removed, results, panics, respawned, hb, PoolReady)
      /\ SlotsOK(pool, task, removed)
  BY DEF SInv, Owned
<1>4. Nudged(task, t)
  BY <1>3, SignalNudges
<1>5. /\ Owned(pool, t, removed, results, panics, respawned, hb, PoolReady)
      /\ SameTurns(task, t)
  BY <1>3, <1>4, NudgedOwned
<1>6. Owned(pool', t, removed, results, panics, respawned, hb, PoolReady)
  <2>1. DOMAIN DropIdleSessions(ch) = Slots
        /\ \A i \in Slots : SlotKeeps(pool[i], DropIdleSessions(ch)[i])
    BY IdleSessionsDropped
  <2>2. Owned(DropIdleSessions(ch), t, removed, results, panics, respawned, hb, PoolReady)
    BY <1>5, <2>1, SlotsKeep
  <2>3. ASSUME NEW k \in Slots, pool[k].agent = "idle", pool' = DropSession(k, ch)
        PROVE  Owned(pool', t, removed, results, panics, respawned, hb, PoolReady)
    <3>1. DOMAIN DropSession(k, ch) = Slots
          /\ \A i \in Slots : SlotKeeps(pool[i], DropSession(k, ch)[i])
      BY <2>3, OneSessionDropped
    <3>2. Owned(DropSession(k, ch), t, removed, results, panics, respawned, hb, PoolReady)
      BY <1>5, <3>1, SlotsKeep
    <3> QED
      BY <2>3, <3>2
  <2> QED
    BY <1>1, <1>5, <2>2, <2>3
<1>7. SInv'
  BY <1>1, <1>2, <1>6, LifeKept
<1>8. Agrees
  BY <1>1, <1>2, <1>5, SMT DEF Agrees, TurnsOK, SameTurns
<1> QED
  BY <1>7, <1>8

\* A removal drains the channel's queue and drops its idle sessions.
LEMMA MemberRemovedStep ==
  ASSUME SInv, NEW ch \in Channels, MemberRemoved(ch)
  PROVE  SInv' /\ Agrees
<1>1. /\ life' = life /\ AcksOK' /\ results' = results /\ panics' = panics
      /\ respawned' = respawned
      /\ removed' = removed \cup {ch} /\ hb' = hb /\ task' = task
      /\ pool' = DropIdleSessions(ch) /\ q' = [q EXCEPT ![ch] = drain_channel(@)]
  BY DEF MemberRemoved, SInv, AcksOK
<1>2. Owned(pool, task, removed, results, panics, respawned, hb, PoolReady)
  BY DEF SInv
<1> DEFINE u == DropIdleSessions(ch)
<1>3. /\ DOMAIN u = Slots /\ \A i \in Slots : SlotKeeps(pool[i], u[i])
      /\ \A i \in Slots : u[i].agent = "idle" => ch \notin u[i].sess
  BY IdleSessionsDropped
<1> HIDE DEF u
<1>4. Owned(u, task, removed, results, panics, respawned, hb, PoolReady)
  BY <1>2, <1>3, SlotsKeep
<1>5. Owned(u, task, removed \cup {ch}, results, panics, respawned, hb, PoolReady)
  BY <1>3, <1>4, RemovalOwned
<1>6. SInv'
  BY <1>1, <1>5, LifeKept DEF u
<1>7. ASSUME TurnsOK(q, task) PROVE TurnsOK(q', task')
  <2> DEFINE c == drain_channel(q[ch])
  <2>1. DOMAIN q = Channels /\ DOMAIN q[ch] = QFields
    BY <1>7 DEF TurnsOK
  <2>2. Flies(q[ch], c)
    BY <2>1, OperationsFly
  <2>3. q' = [q EXCEPT ![ch] = c] /\ task' = task
    BY <1>1, <2>1
  <2>4. SameTurns(task, task)
    BY DEF SameTurns
  <2> HIDE DEF c
  <2>5. TurnsOK([q EXCEPT ![ch] = c], task)
    BY <1>7, <2>2, <2>4, TurnsKeptAt
  <2> QED
    BY <2>3, <2>5
<1> QED
  BY <1>6, <1>7 DEF Agrees

\* The heartbeat tick dispatches, or starts a heartbeat.
LEMMA HeartbeatTickStep ==
  ASSUME SInv, HeartbeatTick
  PROVE  SInv' /\ Agrees
<1> DEFINE x == ExpireAll(q)
           i == try_claim(pool, Heartbeat)
<1>1. \/ Dispatch(x, pool, task) /\ hb' = hb
      \/ q' = x /\ pool' = pool /\ task' = task /\ hb' = hb
      \/ /\ q' = x /\ ~hb /\ i # 0 /\ hb' = TRUE
         /\ pool' = [pool EXCEPT ![i].agent = "out"]
         /\ task' = [task EXCEPT ![i] = NewTask(Heartbeat, NoBatch)]
  BY DEF HeartbeatTick
<1>2. /\ life' = life /\ AcksOK' /\ results' = results /\ panics' = panics
      /\ respawned' = respawned
      /\ removed' = removed
  BY DEF HeartbeatTick, SInv, AcksOK
<1>3. Owned(pool, task, removed, results, panics, respawned, hb, PoolReady)
      /\ SlotsOK(pool, task, removed)
  BY DEF SInv, Owned
<1>4. TurnsOK(q, task) => TurnsOK(x, task)
  BY NothingExpires
<1> HIDE DEF x
<1>5. CASE Dispatch(x, pool, task) /\ hb' = hb
  <2>1. SInv'
    BY <1>2, <1>3, <1>5, DispatchedOwned, LifeKept
  <2> QED
    BY <1>3, <1>4, <1>5, <2>1, DispatchedAgrees DEF Agrees
<1>6. CASE q' = x /\ pool' = pool /\ task' = task /\ hb' = hb
  <2>1. SInv'
    BY <1>2, <1>3, <1>6, LifeKept
  <2> QED
    BY <1>4, <1>6, <2>1 DEF Agrees
<1>7. CASE /\ q' = x /\ ~hb /\ i # 0 /\ hb' = TRUE
           /\ pool' = [pool EXCEPT ![i].agent = "out"]
           /\ task' = [task EXCEPT ![i] = NewTask(Heartbeat, NoBatch)]
  <2>1. i \in Slots /\ pool[i].agent = "idle"
    BY <1>7, ClaimIdle
  <2> HIDE DEF i
  <2>2. Owned(pool, task, removed, results, panics, respawned, FALSE, PoolReady)
    BY <1>3, <1>7 DEF Owned, HeartbeatOK
  <2>3. Owned(pool', task', removed, results, panics, respawned, TRUE, PoolReady)
    BY <1>7, <2>1, <2>2, HeartbeatOwned
  <2>4. SInv'
    BY <1>2, <1>7, <2>3, LifeKept
  <2>5. task[i].ch \notin Channels /\ DOMAIN task = Slots
    BY <1>3, <2>1, ChannelsAssumption, SMT DEF SlotsOK, SlotOK, NoTask
  <2> DEFINE s == NewTask(Heartbeat, NoBatch)
  <2>6. s.ch \notin Channels
    BY ChannelsAssumption DEF NewTask, Heartbeat
  <2> HIDE DEF s
  <2>7. TurnsOK(q, task) => TurnsOK(x, [task EXCEPT ![i] = s])
    BY <1>4, <2>1, <2>5, <2>6, NoTurnEnds
  <2> QED
    BY <1>7, <2>4, <2>7 DEF Agrees, s
<1> QED
  BY <1>1, <1>5, <1>6, <1>7

-----------------------------------------------------------------------------
\* The steps of the prompt tasks.

\* What a running task is.
LEMMA RunningTask ==
  ASSUME SInv, NEW i \in Slots, Running(i)
  PROVE  /\ Owned(pool, task, removed, results, panics, respawned, hb, PoolReady)
         /\ task[i] # NoTask /\ task[i].phase # "sent" /\ i \notin panics
         /\ DOMAIN task = Slots /\ DOMAIN task[i] = TFields /\ task[i].ch \in Turns
         /\ Quiet(task[i]) /\ DOMAIN pool = Slots /\ DOMAIN pool[i] = PFields
         /\ pool[i].agent = "out"
<1>1. task[i] # NoTask /\ task[i].phase # "sent" /\ i \notin panics
  BY DEF Running, InTaskMap
<1>2. Owned(pool, task, removed, results, panics, respawned, hb, PoolReady)
  BY DEF SInv
<1>3. DOMAIN task = Slots /\ DOMAIN pool = Slots /\ SlotOK(pool[i], task[i], removed)
  BY <1>2 DEF Owned, SlotsOK
<1> QED
  BY <1>1, <1>2, <1>3 DEF SlotOK

\* Whatever a task leaves behind is about its channel.
LEMMA AcksAdded ==
  ASSUME SInv, NEW i \in Slots, Running(i), NEW a, a \subseteq acks',
         acks' \subseteq acks \cup a, \A x \in a : x.ch = task[i].ch,
         a # {} => task[i].buf # 0 \/ task[i].pend # 0
  PROVE  AcksOK'
<1>1. task[i].ch \in Turns /\ Quiet(task[i])
  BY RunningTask
<1>2. a # {} => task[i].ch \in Channels
  BY <1>1 DEF Turns, Quiet
<1> QED
  BY <1>2 DEF AcksOK, SInv

\* LeftBehind is empty for a task that was not steered.
LEMMA LeftBehindOK ==
  ASSUME NEW i \in Slots
  PROVE  /\ \A x \in LeftBehind(i) : x.ch = task[i].ch
         /\ LeftBehind(i) # {} => task[i].buf # 0 \/ task[i].pend # 0
BY SMT DEF LeftBehind

\* send_prompt_result: the one result of the task.
LEMMA SendStep ==
  ASSUME SInv, NEW i \in Slots, Running(i), NEW outcome, NEW batch, NEW sess,
         Send(i, outcome, batch, sess)
  PROVE  SInv' /\ Agrees
<1> DEFINE r == [slot |-> i, ch |-> task[i].ch, outcome |-> outcome, batch |-> batch]
           s == [task[i] EXCEPT !.phase = "sent", !.open = FALSE, !.buf = 0, !.pend = 0]
           x == [pool[i] EXCEPT !.sess = sess]
           rs == Append(results, r)
           t == [task EXCEPT ![i] = s]
           u == [pool EXCEPT ![i] = x]
<1>1. /\ Owned(pool, task, removed, results, panics, respawned, hb, PoolReady)
      /\ task[i] # NoTask /\ task[i].phase # "sent" /\ i \notin panics
      /\ DOMAIN task = Slots /\ DOMAIN task[i] = TFields
      /\ DOMAIN pool = Slots /\ DOMAIN pool[i] = PFields /\ pool[i].agent = "out"
  BY RunningTask
<1>2. /\ life' = life /\ panics' = panics /\ respawned' = respawned /\ removed' = removed
      /\ hb' = hb /\ q' = q /\ results' = rs /\ acks' = acks \cup LeftBehind(i)
  BY DEF Send
<1>3. task' = t
  BY <1>1 DEF Send
<1>4. pool' = u
  BY <1>1 DEF Send
<1>5. /\ DOMAIN s = TFields /\ s.ch = task[i].ch /\ s.phase = "sent" /\ Quiet(s)
  BY <1>1 DEF TFields, Quiet
<1>6. r.slot = i /\ r.ch = task[i].ch
  OBVIOUS
<1>7. SlotKeeps(pool[i], x)
  BY <1>1 DEF SlotKeeps, PFields
<1>8. AcksOK'
  BY <1>2, LeftBehindOK, AcksAdded
<1> HIDE DEF s, r, x
<1>9. Owned(pool, t, removed, rs, panics, respawned, hb, PoolReady)
  BY <1>1, <1>5, <1>6, TaskSends
<1> HIDE DEF t, rs
<1>10. Owned(u, t, removed, rs, panics, respawned, hb, PoolReady)
  BY <1>7, <1>9, SlotKeepsAt
<1>11. SInv'
  BY <1>2, <1>3, <1>4, <1>8, <1>10, LifeKept
<1>12. SameTurns(task, t)
  BY <1>1, <1>5 DEF SameTurns, t
<1>13. Agrees
  BY <1>2, <1>3, <1>12, SMT DEF Agrees, TurnsOK, SameTurns
<1> QED
  BY <1>11, <1>13

\* A task that goes on, perhaps with an ack for its channel.
LEMMA GoStep ==
  ASSUME SInv, NEW i \in Slots, Running(i), NEW s, Goes(task[i], s),
         task' = [task EXCEPT ![i] = s], AcksOK', q' = q, life' = life,
         DOMAIN pool' = Slots, \A j \in Slots : SlotKeeps(pool[j], pool'[j]),
         panics' \in {panics, panics \cup {i}}, s.phase # "sent",
         UNCHANGED <<removed, results, respawned, hb>>
  PROVE  SInv' /\ Agrees
<1>1. /\ Owned(pool, task, removed, results, panics, respawned, hb, PoolReady)
      /\ task[i] # NoTask /\ task[i].phase # "sent" /\ DOMAIN task = Slots
  BY RunningTask
<1> DEFINE t == [task EXCEPT ![i] = s]
<1>2. Owned(pool, t, removed, results, panics, respawned, hb, PoolReady)
  BY <1>1, TaskGoesOn
<1>3. t[i] = s /\ s # NoTask
  <2>1. t[i] = s
    BY <1>1
  <2>2. t[i] # NoTask
    <3>1. SlotOK(pool[i], t[i], removed) /\ SlotOK(pool[i], task[i], removed)
      BY <1>1, <1>2 DEF Owned, SlotsOK
    <3> QED
      BY <1>1, <3>1 DEF SlotOK
  <2> QED
    BY <2>1, <2>2
<1>4. SameTurns(task, t)
  BY <1>1 DEF SameTurns, Goes
<1> HIDE DEF t
<1>5. Owned(pool', t, removed, results, panics, respawned, hb, PoolReady)
  BY <1>2, SlotsKeep
<1>6. Owned(pool', t, removed, results, panics', respawned, hb, PoolReady)
  BY <1>3, <1>5, PanicAdded, SMT
<1>7. SInv'
  BY <1>6, LifeKept DEF t
<1>8. Agrees
  BY <1>4, SMT DEF Agrees, TurnsOK, SameTurns, t
<1> QED
  BY <1>7, <1>8

\* A slot that is left alone keeps its agent.
LEMMA PoolKept ==
  ASSUME SInv, pool' = pool
  PROVE  DOMAIN pool' = Slots /\ \A j \in Slots : SlotKeeps(pool[j], pool'[j])
BY DEF SInv, Owned, SlotsOK, SlotOK, SlotKeeps

\* The session is found or made and the prompt begins.
LEMMA PromptStep ==
  ASSUME SInv, NEW i \in Slots, Prompt(i)
  PROVE  SInv' /\ Agrees
<1>1. Running(i)
  BY DEF Prompt
<1>2. /\ task[i].phase # "sent" /\ Quiet(task[i])
      /\ DOMAIN task = Slots /\ DOMAIN task[i] = TFields
      /\ DOMAIN pool = Slots /\ DOMAIN pool[i] = PFields /\ pool[i].agent = "out"
  BY <1>1, RunningTask
<1>3. PICK ph \in {"initial", "prompt"} : task' = [task EXCEPT ![i].phase = ph]
  BY DEF Prompt
<1> DEFINE s == [task[i] EXCEPT !.phase = ph]
<1>4. Goes(task[i], s) /\ s.phase # "sent"
  BY <1>2, <1>3 DEF Goes, TFields, Quiet
<1>5. task' = [task EXCEPT ![i] = s]
  BY <1>2, <1>3
<1>6. /\ UNCHANGED <<removed, results, respawned, hb>> /\ panics' = panics
      /\ q' = q /\ life' = life /\ AcksOK'
  BY DEF Prompt, SInv, AcksOK
<1>7. DOMAIN pool' = Slots /\ \A j \in Slots : SlotKeeps(pool[j], pool'[j])
  <2>1. pool' = [pool EXCEPT ![i].sess = @ \cup ({task[i].ch} \cap Channels)]
    BY DEF Prompt
  <2>2. \A j \in Slots : DOMAIN pool[j] = PFields
    BY DEF SInv, Owned, SlotsOK, SlotOK
  <2>3. DOMAIN pool' = Slots /\ \A j \in Slots \ {i} : pool'[j] = pool[j]
    BY <1>2, <2>1
  <2>4. pool'[i] = [pool[i] EXCEPT !.sess = @ \cup ({task[i].ch} \cap Channels)]
    BY <1>2, <2>1
  <2>5. SlotKeeps(pool[i], pool'[i])
    BY <1>2, <2>4 DEF SlotKeeps, PFields
  <2>6. \A j \in Slots \ {i} : SlotKeeps(pool[j], pool'[j])
    BY <2>2, <2>3 DEF SlotKeeps
  <2> QED
    BY <2>3, <2>5, <2>6
<1> HIDE DEF s
<1> QED
  BY <1>1, <1>4, <1>5, <1>6, <1>7, GoStep

\* The initial message is over, and its read loop with it.
LEMMA InitialDoneStep ==
  ASSUME SInv, NEW i \in Slots, InitialDone(i)
  PROVE  SInv' /\ Agrees
<1>1. Running(i)
  BY DEF InitialDone
<1>2. task[i].phase # "sent" /\ DOMAIN task = Slots /\ DOMAIN task[i] = TFields
  BY <1>1, RunningTask
<1> DEFINE s == [task[i] EXCEPT !.phase = "prompt", !.open = FALSE, !.buf = 0, !.pend = 0]
<1>3. Goes(task[i], s) /\ s.phase # "sent"
  BY <1>2 DEF Goes, TFields, Quiet
<1>4. task' = [task EXCEPT ![i] = s]
  BY <1>2 DEF InitialDone
<1>5. /\ UNCHANGED <<removed, results, respawned, hb>> /\ panics' = panics /\ pool' = pool
      /\ q' = q /\ life' = life /\ acks' = acks \cup LeftBehind(i)
  BY DEF InitialDone
<1>6. AcksOK'
  BY <1>1, <1>5, LeftBehindOK, AcksAdded
<1>7. DOMAIN pool' = Slots /\ \A j \in Slots : SlotKeeps(pool[j], pool'[j])
  BY <1>5, PoolKept
<1> HIDE DEF s
<1> QED
  BY <1>1, <1>3, <1>4, <1>5, <1>6, <1>7, GoStep

\* A task panics.
LEMMA PanicStep ==
  ASSUME SInv, NEW i \in Slots, Panic(i)
  PROVE  SInv' /\ Agrees
<1>1. Running(i)
  BY DEF Panic
<1>2. task[i].phase # "sent" /\ DOMAIN task = Slots /\ DOMAIN task[i] = TFields
  BY <1>1, RunningTask
<1> DEFINE s == [task[i] EXCEPT !.open = FALSE, !.buf = 0, !.pend = 0]
<1>3. Goes(task[i], s) /\ s.phase # "sent"
  BY <1>2 DEF Goes, TFields, Quiet
<1>4. task' = [task EXCEPT ![i] = s]
  BY <1>2 DEF Panic
<1>5. /\ UNCHANGED <<removed, results, respawned, hb>> /\ panics' = panics \cup {i}
      /\ pool' = pool /\ q' = q /\ life' = life /\ acks' = acks \cup LeftBehind(i)
  BY DEF Panic
<1>6. AcksOK'
  BY <1>1, <1>5, LeftBehindOK, AcksAdded
<1>7. DOMAIN pool' = Slots /\ \A j \in Slots : SlotKeeps(pool[j], pool'[j])
  BY <1>5, PoolKept
<1> HIDE DEF s
<1> QED
  BY <1>1, <1>3, <1>4, <1>5, <1>6, <1>7, GoStep

\* The read loop takes a steer request.
LEMMA TakeSteerStep ==
  ASSUME SInv, NEW i \in Slots, TakeSteer(i)
  PROVE  SInv' /\ Agrees
<1>1. Running(i) /\ task[i].buf # 0
  BY DEF TakeSteer
<1>2. /\ task[i].phase # "sent" /\ DOMAIN task = Slots /\ DOMAIN task[i] = TFields
      /\ Quiet(task[i])
  BY <1>1, RunningTask
<1> DEFINE ack == [ch |-> task[i].ch, e |-> task[i].buf, kind |-> "fallback"]
<1>3. PICK n : task' = [task EXCEPT ![i].pend = n, ![i].buf = 0]
               \/ task' = [task EXCEPT ![i].buf = 0]
  BY DEF TakeSteer
<1>4. acks' = acks \/ acks' = acks \cup {ack}
  BY DEF TakeSteer
<1>5. /\ UNCHANGED <<removed, results, respawned, hb>> /\ panics' = panics /\ pool' = pool
      /\ q' = q /\ life' = life
  BY DEF TakeSteer
<1>6. AcksOK'
  <2>1. ack.ch = task[i].ch
    OBVIOUS
  <2> HIDE DEF ack
  <2>2. CASE acks' = acks
    BY <2>2 DEF SInv, AcksOK
  <2>3. CASE acks' = acks \cup {ack}
    <3> DEFINE new == {ack}
    <3>1. /\ new \subseteq acks' /\ acks' \subseteq acks \cup new
          /\ \A x \in new : x.ch = task[i].ch
      BY <2>1, <2>3
    <3> HIDE DEF new
    <3> QED
      BY <1>1, <3>1, AcksAdded
  <2> QED
    BY <1>4, <2>2, <2>3
<1>7. DOMAIN pool' = Slots /\ \A j \in Slots : SlotKeeps(pool[j], pool'[j])
  BY <1>5, PoolKept
<1>8. task[i].ch # Heartbeat
  BY <1>1, <1>2 DEF Quiet
<1>9. PICK s : Goes(task[i], s) /\ s.phase # "sent" /\ task' = [task EXCEPT ![i] = s]
  <2> DEFINE s1 == [task[i] EXCEPT !.pend = n, !.buf = 0]
             s2 == [task[i] EXCEPT !.buf = 0]
  <2>1. Goes(task[i], s1) /\ s1.phase # "sent"
    BY <1>2, <1>8 DEF Goes, TFields, Quiet
  <2>2. Goes(task[i], s2) /\ s2.phase # "sent"
    BY <1>2, <1>8 DEF Goes, TFields, Quiet
  <2>3. task' = [task EXCEPT ![i] = s1] \/ task' = [task EXCEPT ![i] = s2]
    BY <1>2, <1>3
  <2> HIDE DEF s1, s2
  <2> QED
    BY <2>1, <2>2, <2>3
<1> QED
  BY <1>1, <1>5, <1>6, <1>7, <1>9, GoStep

\* The agent answers a steer request.
LEMMA SteerAnswerStep ==
  ASSUME SInv, NEW i \in Slots, SteerAnswer(i)
  PROVE  SInv' /\ Agrees
<1>1. Running(i) /\ task[i].pend # 0
  BY DEF SteerAnswer
<1>2. /\ task[i].phase # "sent" /\ DOMAIN task = Slots /\ DOMAIN task[i] = TFields
      /\ Quiet(task[i])
  BY <1>1, RunningTask
<1> DEFINE s == [task[i] EXCEPT !.pend = 0]
<1>3. Goes(task[i], s) /\ s.phase # "sent"
  BY <1>2 DEF Goes, TFields, Quiet
<1>4. task' = [task EXCEPT ![i] = s]
  BY <1>2 DEF SteerAnswer
<1>5. /\ UNCHANGED <<removed, results, respawned, hb>> /\ panics' = panics /\ pool' = pool
      /\ q' = q /\ life' = life
  BY DEF SteerAnswer
<1>6. AcksOK'
  <2>1. PICK kind : acks' = acks \cup {[ch |-> task[i].ch, e |-> task[i].pend, kind |-> kind]}
    BY DEF SteerAnswer
  <2> DEFINE ack == [ch |-> task[i].ch, e |-> task[i].pend, kind |-> kind]
  <2>2. ack.ch = task[i].ch /\ acks' = acks \cup {ack}
    BY <2>1
  <2> HIDE DEF ack
  <2> DEFINE new == {ack}
  <2>3. /\ new \subseteq acks' /\ acks' \subseteq acks \cup new
        /\ \A x \in new : x.ch = task[i].ch
    BY <2>2
  <2> HIDE DEF new
  <2> QED
    BY <1>1, <2>3, AcksAdded
<1>7. DOMAIN pool' = Slots /\ \A j \in Slots : SlotKeeps(pool[j], pool'[j])
  BY <1>5, PoolKept
<1> HIDE DEF s
<1> QED
  BY <1>1, <1>3, <1>4, <1>5, <1>6, <1>7, GoStep

\* A turn ends, fails or obeys a signal: each way it sends its result.
LEMMA TaskStepStep ==
  ASSUME SInv, NEW i \in Slots, TaskStep(i)
  PROVE  SInv' /\ Agrees
<1>1. CASE Prompt(i)
  BY <1>1, PromptStep
<1>2. CASE InitialDone(i)
  BY <1>2, InitialDoneStep
<1>3. CASE TurnOk(i)
  <2>1. PICK sess : Running(i) /\ Send(i, "ok", NoBatch, sess)
    BY <1>3 DEF TurnOk
  <2> QED
    BY <2>1, SendStep
<1>4. CASE TurnFails(i)
  <2>1. PICK o, b, sess : Running(i) /\ Send(i, o, b, sess)
    BY <1>4 DEF TurnFails
  <2> QED
    BY <2>1, SendStep
<1>5. CASE Obey(i)
  <2>1. PICK o, b, sess : Running(i) /\ Send(i, o, b, sess)
    <3>1. Running(i)
      BY <1>5 DEF Obey
    <3>2. \/ Send(i, "cancelled", CancelBatch(i), pool[i].sess \ {task[i].ch})
          \/ Send(i, "exited", CancelBatch(i), {})
          \/ \E o \in {"drain_timeout", "transport"} :
               Send(i, o, CancelBatch(i), pool[i].sess \ {task[i].ch})
          \/ Send(i, "ok", NoBatch, IF task[i].ctl \in {"rotate", "switch"}
                                    THEN pool[i].sess \ {task[i].ch} ELSE pool[i].sess)
      BY <1>5 DEF Obey
    <3> QED
      BY <3>1, <3>2
  <2> QED
    BY <2>1, SendStep
<1> QED
  BY <1>1, <1>2, <1>3, <1>4, <1>5 DEF TaskStep

\* A respawn task reports, or a cooldown ends.
LEMMA RespawnStep ==
  ASSUME SInv, NEW i \in Slots, Respawn(i) \/ CooldownPasses(i)
  PROVE  SInv' /\ Agrees
<1>0. Owned(pool, task, removed, results, panics, respawned, hb, PoolReady) /\ AcksOK
  BY DEF SInv
<1>1. CASE Respawn(i)
  <2>1. PICK ok \in BOOLEAN : respawned' = respawned \cup {[slot |-> i, ok |-> ok]}
    BY <1>1 DEF Respawn
  <2>2. /\ pool[i].respawning /\ \A r \in respawned : r.slot # i
        /\ q' = q /\ pool' = pool /\ task' = task /\ removed' = removed /\ acks' = acks
        /\ results' = results /\ panics' = panics /\ hb' = hb /\ life' = life
    BY <1>1 DEF Respawn
  <2>3. Owned(pool, task, removed, results, panics, respawned', hb, PoolReady)
    BY <1>0, <2>1, <2>2, RespawnOwned
  <2>4. AcksOK'
    BY <1>0, <2>2 DEF AcksOK
  <2>5. SInv'
    BY <2>2, <2>3, <2>4, LifeKept
  <2> QED
    BY <2>2, <2>5 DEF Agrees
<1>2. CASE CooldownPasses(i)
  <2> DEFINE x == [pool[i] EXCEPT !.circuit = "elapsed"]
  <2>1. DOMAIN pool = Slots /\ SlotOK(pool[i], task[i], removed)
    BY <1>0 DEF Owned, SlotsOK
  <2>2. SlotKeeps(pool[i], x)
    BY <2>1 DEF SlotKeeps, SlotOK, PFields
  <2>3. pool' = [pool EXCEPT ![i] = x]
    BY <1>2, <2>1 DEF CooldownPasses
  <2>4. /\ q' = q /\ task' = task /\ removed' = removed /\ acks' = acks
        /\ results' = results /\ panics' = panics /\ hb' = hb /\ life' = life
        /\ respawned' = respawned
    BY <1>2 DEF CooldownPasses
  <2>5. AcksOK'
    BY <1>0, <2>4 DEF AcksOK
  <2> HIDE DEF x
  <2>6. Owned(pool', task, removed, results, panics, respawned, hb, PoolReady)
    BY <1>0, <2>2, <2>3, SlotKeepsAt
  <2>7. SInv'
    BY <2>4, <2>5, <2>6, LifeKept
  <2> QED
    BY <2>4, <2>7 DEF Agrees
<1> QED
  BY <1>1, <1>2

\* Steps that change neither the slots nor the tasks.
LEMMA OtherStep ==
  ASSUME SInv, UNCHANGED <<pool, task, results, panics, respawned, hb, acks>>,
         removed' \subseteq removed,
         life' = life \/ (life' = [life EXCEPT !.due = TRUE] /\ life.st = "failed")
  PROVE  SInv'
<1>1. PoolReady' = PoolReady /\ "st" \in DOMAIN life'
  BY DEF PoolReady, SInv
<1>2. AcksOK'
  BY DEF SInv, AcksOK
<1>3. SlotsOK(pool, task, removed')
  <2>1. SlotsOK(pool, task, removed)
    BY DEF SInv, Owned
  <2>2. ASSUME NEW i \in Slots PROVE SlotOK(pool[i], task[i], removed')
    <3>1. SlotOK(pool[i], task[i], removed)
      BY <2>1 DEF SlotsOK
    <3>2. pool[i].agent = "idle" => pool[i].sess \cap removed' = {}
      BY <3>1 DEF SlotOK
    <3> QED
      BY <3>1, <3>2 DEF SlotOK
  <2> QED
    BY <2>1, <2>2 DEF SlotsOK
<1>4. Owned(pool, task, removed', results, panics, respawned, hb, PoolReady)
  BY <1>3 DEF SInv, Owned
<1> QED
  BY <1>1, <1>2, <1>4 DEF SInv

\* Every step keeps one owner per slot, and the agreement of the queue with
\* the tasks unless a deadline passes.
LEMMA HarnessStep ==
  ASSUME SInv, [Next]_vars
  PROVE  SInv' /\ (~LateTasks => Agrees)
<1>1. CASE TopListening
  BY <1>1, TopListeningStep
<1>2. CASE HandleWake
  BY <1>2, HandleWakeStep
<1>3. CASE RetryWake
  <2>1. /\ UNCHANGED <<pool, task, results, panics, respawned, hb, acks>>
        /\ removed' = removed /\ q' = q
        /\ life' = [life EXCEPT !.due = TRUE] /\ life.st = "failed"
    BY <1>3 DEF RetryWake
  <2>2. SInv'
    BY <2>1, OtherStep
  <2> QED
    BY <2>1, <2>2 DEF Agrees
<1>4. CASE \E due \in BOOLEAN : Top(due)
  BY <1>4, TopStep
<1>5. CASE HandleResult
  BY <1>5, HandleResultStep
<1>6. CASE \E i \in Slots : RecoverPanic(i)
  BY <1>6, RecoverPanicStep
<1>7. CASE HandleAck
  BY <1>7, HandleAckStep
<1>8. CASE HeartbeatTick
  BY <1>8, HeartbeatTickStep
<1>9. CASE Tick \/ WakeTask \/ Stopped \/ vars' = vars
  <2>1. /\ UNCHANGED <<pool, task, results, panics, respawned, hb, acks>>
        /\ removed' = removed /\ q' = q /\ life' = life
    BY <1>9 DEF Tick, WakeTask, Stopped, vars
  <2>2. SInv'
    BY <2>1, OtherStep
  <2> QED
    BY <2>1, <2>2 DEF Agrees
<1>10. ASSUME NEW ch \in Channels, RelayEvent(ch) PROVE SInv' /\ Agrees
  BY <1>10, RelayEventStep
<1>11. ASSUME NEW ch \in Channels, NEW sig, Command(ch, sig) PROVE SInv' /\ Agrees
  BY <1>11, CommandStep
<1>12. ASSUME NEW ch \in Channels, MemberRemoved(ch) PROVE SInv' /\ Agrees
  BY <1>12, MemberRemovedStep
<1>13. ASSUME NEW ch \in Channels, MemberAdded(ch) PROVE SInv' /\ Agrees
  <2>1. /\ UNCHANGED <<pool, task, results, panics, respawned, hb, acks>>
        /\ removed' \subseteq removed /\ q' = q /\ life' = life
    BY <1>13 DEF MemberAdded
  <2>2. SInv'
    BY <2>1, OtherStep
  <2> QED
    BY <2>1, <2>2 DEF Agrees
<1>14. ASSUME NEW ch \in Channels, ThrottlePasses(ch) PROVE SInv' /\ Agrees
  <2>1. /\ UNCHANGED <<pool, task, results, panics, respawned, hb, acks>>
        /\ removed' = removed /\ life' = life /\ q' = [q EXCEPT ![ch].throttle = "past"]
    BY <1>14 DEF ThrottlePasses
  <2>2. SInv'
    BY <2>1, OtherStep
  <2>3. ASSUME TurnsOK(q, task) PROVE TurnsOK(q', task')
    <3> DEFINE c == [q[ch] EXCEPT !.throttle = "past"]
    <3>1. DOMAIN q = Channels /\ DOMAIN q[ch] = QFields
      BY <2>3 DEF TurnsOK
    <3>2. Flies(q[ch], c)
      BY <3>1 DEF Flies, QFields
    <3>3. q' = [q EXCEPT ![ch] = c] /\ task' = task
      BY <2>1, <3>1
    <3>4. SameTurns(task, task)
      BY DEF SameTurns
    <3> HIDE DEF c
    <3>5. TurnsOK([q EXCEPT ![ch] = c], task)
      BY <2>3, <3>2, <3>4, TurnsKeptAt
    <3> QED
      BY <3>3, <3>5
  <2> QED
    BY <2>2, <2>3 DEF Agrees
<1>15. ASSUME NEW ch \in Channels, DeadlinePasses(ch) PROVE SInv' /\ LateTasks
  <2>1. /\ UNCHANGED <<pool, task, results, panics, respawned, hb, acks>>
        /\ removed' = removed /\ life' = life /\ LateTasks
    BY <1>15 DEF DeadlinePasses
  <2> QED
    BY <2>1, OtherStep
<1>16. ASSUME NEW i \in Slots, TaskStep(i) PROVE SInv' /\ Agrees
  BY <1>16, TaskStepStep
<1>17. ASSUME NEW i \in Slots, Panic(i) PROVE SInv' /\ Agrees
  BY <1>17, PanicStep
<1>18. ASSUME NEW i \in Slots, TakeSteer(i) PROVE SInv' /\ Agrees
  BY <1>18, TakeSteerStep
<1>19. ASSUME NEW i \in Slots, SteerAnswer(i) PROVE SInv' /\ Agrees
  BY <1>19, SteerAnswerStep
<1>20. ASSUME NEW i \in Slots, Respawn(i) \/ CooldownPasses(i) PROVE SInv' /\ Agrees
  BY <1>20, RespawnStep
<1>21. LoopStep => SInv' /\ (~LateTasks => Agrees)
  BY <1>1, <1>2, <1>3, <1>4, <1>5, <1>6, <1>7, <1>8, <1>9 DEF LoopStep
<1>22. CASE \E ch \in Channels :
              \/ RelayEvent(ch)
              \/ \E sig \in {"cancel", "rotate", "switch"} : Command(ch, sig)
              \/ MemberRemoved(ch) \/ MemberAdded(ch)
              \/ ThrottlePasses(ch) \/ DeadlinePasses(ch)
  <2>1. PICK ch \in Channels :
          \/ RelayEvent(ch)
          \/ \E sig \in {"cancel", "rotate", "switch"} : Command(ch, sig)
          \/ MemberRemoved(ch) \/ MemberAdded(ch)
          \/ ThrottlePasses(ch) \/ DeadlinePasses(ch)
    BY <1>22
  <2>2. CASE DeadlinePasses(ch)
    BY <1>15, <2>2
  <2>3. CASE \E sig \in {"cancel", "rotate", "switch"} : Command(ch, sig)
    BY <1>11, <2>3
  <2> QED
    BY <1>10, <1>12, <1>13, <1>14, <2>1, <2>2, <2>3
<1>23. CASE \E i \in Slots : \/ TaskStep(i) \/ Panic(i) \/ TakeSteer(i) \/ SteerAnswer(i)
                             \/ Respawn(i) \/ CooldownPasses(i)
  BY <1>16, <1>17, <1>18, <1>19, <1>20, <1>23
<1>24. CASE Next
  BY <1>9, <1>21, <1>22, <1>23, <1>24 DEF Next
<1> QED
  BY <1>9, <1>24

\* The initial state.
LEMMA HarnessInit ==
  ASSUME Init
  PROVE  SInv /\ TurnsOK(q, task)
<1>1. /\ q = [ch \in Channels |-> EmptyChannel] /\ task = [i \in Slots |-> NoTask]
      /\ results = <<>> /\ panics = {} /\ acks = {} /\ respawned = {} /\ removed = {}
      /\ hb = FALSE
      /\ life = [st |-> IF LazyPool THEN "listening" ELSE "ready", attempt |-> 0, due |-> FALSE]
      /\ pool = [i \in Slots |-> IF LazyPool THEN [FreshSlot EXCEPT !.agent = "none"]
                                 ELSE FreshSlot]
  BY DEF Init
<1>2. \A i \in Slots : task[i] = NoTask /\ task[i].ch = "none"
  BY <1>1 DEF NoTask
<1>3. \A i \in Slots : /\ DOMAIN pool[i] = PFields /\ pool[i].respawning = FALSE
                       /\ pool[i].agent = (IF LazyPool THEN "none" ELSE "idle")
                       /\ pool[i].sess = {}
  BY <1>1 DEF FreshSlot, PFields
<1>4. SlotsOK(pool, task, removed)
  <2>1. DOMAIN pool = Slots /\ DOMAIN task = Slots
    BY <1>1
  <2> QED
    BY <1>1, <1>2, <1>3, <2>1 DEF SlotsOK, SlotOK
<1>5. ResultsOK(results, task)
  <2>1. DOMAIN results = {} /\ results \in Seq({})
    BY <1>1, SMT
  <2>2. Items(results) = {}
    BY <2>1 DEF Items
  <2> QED
    BY <2>1, <2>2 DEF ResultsOK, IsSeq
<1>6. PanicsOK(panics, task) /\ RespawnsOK(respawned, pool) /\ AcksOK
  BY <1>1 DEF PanicsOK, RespawnsOK, AcksOK
<1>7. HeartbeatOK(hb, task)
  BY <1>1, <1>2 DEF HeartbeatOK, Heartbeat
<1>8. WakeOK(PoolReady, pool) /\ "st" \in DOMAIN life
  BY <1>1, <1>3 DEF WakeOK, PoolReady
<1>9. TurnsOK(q, task)
  <2>1. DOMAIN q = Channels
    BY <1>1
  <2>2. ASSUME NEW ch \in Channels
        PROVE  DOMAIN q[ch] = QFields /\ q[ch].inflight = FALSE /\ q[ch].overdue = FALSE
    BY <1>1 DEF EmptyChannel, QFields
  <2> QED
    BY <1>2, <2>1, <2>2, ChannelsAssumption DEF TurnsOK
<1> QED
  BY <1>4, <1>5, <1>6, <1>7, <1>8, <1>9 DEF SInv, Owned

\* The invariant says what the properties say.
LEMMA OwnedSays ==
  ASSUME SInv
  PROVE  SlotsExclusive /\ NoStaleSessions
<1>1. /\ SlotsOK(pool, task, removed) /\ ResultsOK(results, task)
      /\ RespawnsOK(respawned, pool) /\ HeartbeatOK(hb, task)
  BY DEF SInv, Owned
<1>2. \A i \in Slots : SlotOK(pool[i], task[i], removed)
  BY <1>1 DEF SlotsOK
<1>3. NoStaleSessions
  BY <1>2 DEF NoStaleSessions, SlotOK
<1>4. ASSUME NEW i \in Slots
      PROVE  /\ pool[i].agent = "out" <=> InTaskMap(i)
             /\ pool[i].respawning => pool[i].agent = "none"
             /\ [slot |-> i, ok |-> TRUE] \in respawned => pool[i].respawning
             /\ \A r, s \in respawned : r.slot = i /\ s.slot = i => r = s
             /\ \A j, k \in DOMAIN results : results[j].slot = i /\ results[k].slot = i => j = k
             /\ (\E k \in DOMAIN results : results[k].slot = i) =>
                   InTaskMap(i) /\ task[i].phase = "sent"
  <2>1. (pool[i].agent = "out" <=> InTaskMap(i)) /\ (pool[i].respawning => pool[i].agent = "none")
    BY <1>2 DEF SlotOK, InTaskMap
  <2>2. /\ [slot |-> i, ok |-> TRUE] \in respawned => pool[i].respawning
        /\ \A r, s \in respawned : r.slot = i /\ s.slot = i => r = s
    BY <1>1 DEF RespawnsOK
  <2>3. /\ \A j, k \in DOMAIN results : results[j].slot = i /\ results[k].slot = i => j = k
        /\ (\E k \in DOMAIN results : results[k].slot = i) =>
              InTaskMap(i) /\ task[i].phase = "sent"
    BY <1>1 DEF ResultsOK, InTaskMap
  <2> QED
    BY <2>1, <2>2, <2>3
<1>5. /\ hb <=> \E i \in Slots : task[i].ch = Heartbeat
      /\ \A i, j \in Slots : task[i].ch = Heartbeat /\ task[j].ch = Heartbeat => i = j
  BY <1>1 DEF HeartbeatOK
<1>6. SlotsExclusive
  BY <1>4, <1>5 DEF SlotsExclusive
<1> QED
  BY <1>3, <1>6

\* And so for the turns.
LEMMA TurnsSay ==
  ASSUME TurnsOK(q, task)
  PROVE  OneTurnPerChannel
BY DEF TurnsOK, OneTurnPerChannel

(***************************************************************************)
(* A slot of the pool has one owner, also when a task outlives its         *)
(* deadline: its agent is idle, out for one task of task_map, or gone and  *)
(* perhaps being respawned; return_agent never meets an occupied slot, a   *)
(* task sends one result, a slot has one respawn, and the heartbeat flag   *)
(* is set exactly while there is a heartbeat task.  No idle agent keeps a  *)
(* session of a removed channel.                                           *)
(***************************************************************************)
THEOREM SlotsHaveOneOwner == Spec => [](SlotsExclusive /\ NoStaleSessions)
<1>1. Init => SInv
  BY HarnessInit
<1>2. SInv /\ [Next]_vars => SInv'
  BY HarnessStep
<1>3. SInv => SlotsExclusive /\ NoStaleSessions
  BY OwnedSays
<1> QED
  BY <1>1, <1>2, <1>3, PTL DEF Spec

(***************************************************************************)
(* While no task outlives its in-flight deadline, the turns exclude each   *)
(* other: a channel has at most one prompt in flight, and the in-flight    *)
(* entry of the queue is there exactly while task_map has its task,        *)
(* whatever the order of results, panics, steers, respawns, wakes and      *)
(* membership changes.  The deadline is max_turn and a buffer, and a task  *)
(* ends its turn at max_turn.                                              *)
(***************************************************************************)
THEOREM TurnsAreExclusive ==
  ASSUME ~LateTasks
  PROVE  Spec => []TurnsExclusive
<1>1. Init => TInv
  BY HarnessInit DEF TInv
<1>2. TInv /\ [Next]_vars => TInv'
  BY HarnessStep DEF TInv, Agrees
<1>3. TInv => TurnsExclusive
  BY OwnedSays, TurnsSay DEF TInv, TurnsExclusive
<1> QED
  BY <1>1, <1>2, <1>3, PTL DEF Spec
=============================================================================
