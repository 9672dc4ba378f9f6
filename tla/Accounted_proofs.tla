------------------------- MODULE Accounted_proofs -------------------------
(***************************************************************************)
(* The harness loses no event and doubles none: proof of Accounted, for    *)
(* any number of channels, slots and events and whatever tasks do.  Every  *)
(* arm of the main loop is one of the moves of Ledger_proofs: it hands     *)
(* events from one owner to another, adds a new event, or settles some and *)
(* takes them off the account.                                             *)
(***************************************************************************)
EXTENDS Harness_proofs, Ledger_proofs

\* Almost every step is first-order logic; the few that need arithmetic,
\* sequences or function updates cite SMT.
USE Zenon

\* A round of dispatch_pending.
LEMMA RoundAccount ==
  ASSUME NEW p, NEW t, Free(p, t), \A i \in Slots : DOMAIN p[i] = PFields, NEW rs, NEW P,
         NEW d, DOMAIN d = DFields, Claims(p, t, d.pool, d.task), Account(d.q, d.task, rs, P),
         NEW e \in DispatchStep(d)
  PROVE  Account(e.q, e.task, rs, P)
<1> DEFINE x == ExpireAll(d.q)
<1>0. Account(x, d.task, rs, P)
  BY AccountExpires
<1>1. CASE Idles(d, e)
  BY <1>0, <1>1 DEF Idles
<1>2. DOMAIN x = Channels
  BY DEF ExpireAll
<1>3. ASSUME NEW ch \in FlushCandidates(ExpireAll(d.q)), PutsBack(d, e, ch)
      PROVE  Account(e.q, e.task, rs, P)
  <2>1. ch \in Channels
    BY CandidatesFree
  <2> DEFINE c == mark_complete(requeue_preserve_timestamps(Flushed(x[ch]), FlushedBatch(x[ch])))
  <2>2. e.q = [x EXCEPT ![ch] = c] /\ e.task = d.task
    BY <1>2, <1>3, <2>1 DEF PutsBack
  <2>3. Tidy(x[ch])
    BY <1>0, <2>1 DEF Account, AllTidy
  <2> HIDE DEF x
  <2>4. Tidy(c) /\ Owns(c) = Owns(x[ch])
    BY <2>3, UnflushTidy
  <2> HIDE DEF c
  <2> QED
    BY <1>0, <2>1, <2>2, <2>4, AccountTidiedAt, SMT
<1>4. ASSUME NEW ch \in FlushCandidates(ExpireAll(d.q)), NEW i \in Slots,
             ClaimsOne(d, e, ch, i)
      PROVE  Account(e.q, e.task, rs, P)
  <2>1. ch \in Channels
    BY CandidatesFree
  <2>2. e.q = [x EXCEPT ![ch] = Flushed(x[ch])]
    BY <1>2, <1>4, <2>1 DEF ClaimsOne
  <2>3. e.task = [d.task EXCEPT ![i] = NewTask(ch, FlushedBatch(x[ch]))]
    BY <1>4 DEF ClaimsOne
  <2>4. d.task[i] = NoTask /\ DOMAIN d.task = Slots
    <3>1. ClaimedAt(i, p, t, d.pool, d.task) /\ DOMAIN d.task = Slots
      BY DEF Claims
    <3>2. d.pool[i].agent = "idle"
      BY <1>4 DEF ClaimsOne
    <3>3. d.pool[i] = p[i] /\ d.task[i] = t[i]
      BY <3>1, <3>2 DEF ClaimedAt, PFields
    <3> QED
      BY <3>1, <3>2, <3>3 DEF Free
  <2> HIDE DEF x
  <2>5. Account([x EXCEPT ![ch] = Flushed(x[ch])],
                [d.task EXCEPT ![i] = NewTask(ch, FlushedBatch(x[ch]))], rs, P)
    BY <1>0, <2>1, <2>4, AccountClaims
  <2> QED
    BY <2>2, <2>3, <2>5
<1> QED
  BY <1>1, <1>3, <1>4, RoundOutcome

\* dispatch_pending neither loses nor doubles an event.
LEMMA DispatchAccount ==
  ASSUME NEW qs, NEW p, NEW t, NEW g, SlotsOK(p, t, g), NEW rs, NEW P, Account(qs, t, rs, P),
         NEW d \in dispatch_pending(qs, p, t)
  PROVE  Account(d.q, d.task, rs, P)
<1> DEFINE d0 == [q |-> qs, pool |-> p, task |-> t, done |-> FALSE]
<1>0. /\ DOMAIN p = Slots /\ DOMAIN t = Slots /\ \A i \in Slots : DOMAIN p[i] = PFields
      /\ Free(p, t)
  BY OwnedFree, SMT DEF SlotsOK, SlotOK
<1>1. PICK f, n : n \in Nat /\ IsRun(f, d0, n) /\ dispatch_pending(qs, p, t) = f[n]
  BY DispatchRuns, SMT
<1> DEFINE Good(e) == /\ DOMAIN e = DFields /\ Claims(p, t, e.pool, e.task)
                      /\ Account(e.q, e.task, rs, P)
           G == {k \in 0..n : \A e \in f[k] : Good(e)}
<1>2. f[0] = {d0}
  BY <1>1, SMT DEF IsRun
<1>3. Good(d0)
  BY <1>0 DEF Claims, ClaimedAt, DFields
<1>4. 0 \in G
  <2> HIDE DEF Good, d0
  <2> QED
    BY <1>1, <1>2, <1>3, SMT
<1>5. ASSUME NEW k \in Nat, k < n, k \in G
      PROVE  k + 1 \in G
  <2>1. \A e \in f[k] : Good(e)
    BY <1>5
  <2>2. k + 1 \in 0..n /\ (k + 1) - 1 = k /\ k + 1 # 0
    BY <1>1, <1>5, SMT
  <2>3. f[k + 1] = Rounds(f[k])
    <3> HIDE DEF d0
    <3>1. f[k + 1] = Rounds(f[(k + 1) - 1])
      BY <1>1, <2>2 DEF IsRun
    <3> QED
      BY <2>2, <3>1
  <2>4. ASSUME NEW e \in f[k + 1] PROVE Good(e)
    <3>1. PICK c \in f[k] : e \in DispatchStep(c)
      BY <2>3, <2>4 DEF Rounds
    <3>2. Good(c)
      BY <2>1
    <3> QED
      BY <1>0, <3>1, <3>2, RoundClaims, RoundAccount
  <2> QED
    BY <2>2, <2>4
<1>6. n \in G
  <2> HIDE DEF G
  <2> QED
    BY <1>1, <1>4, <1>5, UpTo
<1> QED
  BY <1>1, <1>6

LEMMA DispatchedAccount ==
  ASSUME NEW qs, NEW p, NEW t, NEW g, SlotsOK(p, t, g), NEW rs, NEW P, Account(qs, t, rs, P),
         Dispatch(qs, p, t)
  PROVE  Account(q', task', rs, P)
<1>1. PICK d \in dispatch_pending(qs, p, t) : q' = d.q /\ pool' = d.pool /\ task' = d.task
  BY DEF Dispatch
<1> QED
  BY <1>1, DispatchAccount

\* The task of the result at the head.
LEMMA HeadTask ==
  ASSUME SInv, results # <<>>
  PROVE  /\ Owned(pool, task, removed, Tail(results), panics, respawned, hb, PoolReady)
         /\ Head(results).slot \in Slots /\ task[Head(results).slot] # NoTask
         /\ task[Head(results).slot].ch = Head(results).ch /\ Head(results).slot \notin panics
         /\ \A k \in DOMAIN Tail(results) : Tail(results)[k].slot # Head(results).slot
<1>1. Owned(pool, task, removed, results, panics, respawned, hb, PoolReady)
  BY DEF SInv
<1>2. Owned(pool, task, removed, Tail(results), panics, respawned, hb, PoolReady)
  BY <1>1, ResultTaken
<1>3. Head(results).slot \in Slots /\ Head(results).slot \notin panics
  BY <1>1, ResultTaken
<1>a. IsSeq(results) /\ ResultsOK(results, task)
  BY <1>1 DEF Owned, ResultsOK
<1>b. /\ Head(results) = results[1] /\ 1 \in DOMAIN results
      /\ \A k \in DOMAIN Tail(results) :
           k \in Nat /\ k # 0 /\ k + 1 \in DOMAIN results /\ Tail(results)[k] = results[k + 1]
  BY <1>a, SeqTail
<1>4. task[Head(results).slot] # NoTask /\ task[Head(results).slot].ch = Head(results).ch
  BY <1>a, <1>b DEF ResultsOK
<1>5. ASSUME NEW k \in DOMAIN Tail(results), Tail(results)[k].slot = Head(results).slot
      PROVE  FALSE
  <2>1. k + 1 = 1
    BY <1>a, <1>b, <1>5 DEF ResultsOK
  <2> QED
    BY <1>b, <2>1, SMT
<1> QED
  BY <1>2, <1>3, <1>4, <1>5

\* handle_prompt_result keeps the account.
LEMMA HandleResultAccount ==
  ASSUME SInv, AInv, HandleResult
  PROVE  AInv'
<1> DEFINE r == Head(results)
           i == r.slot
           t == [task EXCEPT ![i] = NoTask]
           qs == IF r.ch = Heartbeat THEN q
                 ELSE [q EXCEPT ![r.ch] = ResultQueue(q[r.ch], r)]
           ps == Tail(results)
           f == IF r.ch = Heartbeat THEN fate ELSE ResultFate(q[r.ch], r)
<1>1. PICK s \in IF r.outcome \in Fatal THEN record_crash(pool[i]) ELSE {Returned(i)} :
        \/ q' = qs /\ pool' = [pool EXCEPT ![i] = s] /\ task' = t
        \/ Dispatch(qs, [pool EXCEPT ![i] = s], t)
  BY DEF HandleResult
<1>2. results' = ps /\ fate' = f /\ arrived' = arrived
  BY DEF HandleResult
<1>b. results # <<>>
  BY DEF HandleResult
<1>3. Owned(pool, task, removed, results, panics, respawned, hb, PoolReady)
  BY DEF SInv
<1>4. /\ Owned(pool, task, removed, Tail(results), panics, respawned, hb, PoolReady)
      /\ i \in Slots /\ task[i] # NoTask /\ task[i].ch = r.ch /\ i \notin panics
      /\ \A k \in DOMAIN Tail(results) : Tail(results)[k].slot # i
  BY <1>b, HeadTask
<1>5. SlotOK(pool[i], task[i], removed) /\ DOMAIN task = Slots /\ ResultsOK(results, task)
  BY <1>3, <1>4 DEF Owned, SlotsOK
<1>6. AllCarry(task, results) /\ AllTidy(q) /\ Account(q, task, results, Pending(fate))
  BY DEF AInv, Account
<1>7. /\ Sets(Hands(t, ps), Hands(task, results), i, {}, Slots) /\ AllCarry(t, ps)
      /\ Held(task, results, i) = EventsOf(r.batch) /\ Carries(r)
  BY <1>b, <1>5, <1>6, ResultTakenHands
<1> HIDE DEF r, i
<1>8. Ends(pool[i], s, removed)
  BY <1>1, <1>4, <1>5, CrashEnds, ReturnEnds
<1> DEFINE p == [pool EXCEPT ![i] = s]
           h == hb /\ task[i].ch # Heartbeat
<1>9. SlotsOK(p, t, removed)
  <2>1. Owned(p, t, removed, Tail(results), panics, respawned, h, PoolReady)
    BY <1>4, <1>8, TaskEnds
  <2> QED
    BY <2>1 DEF Owned
<1> HIDE DEF ps, p, t
<1>10. Account(qs, t, ps, Pending(f)) /\ Fates(f, arrived)
  <2>1. CASE r.ch = Heartbeat
    <3>1. Held(task, results, i) = {}
      BY <1>7, <2>1 DEF Carries
    <3>2. Account(q, t, ps, Pending(fate)) /\ Fates(fate, arrived)
      BY <1>4, <1>7, <3>1, AccountNothing
    <3> QED
      BY <2>1, <3>2
  <2>2. CASE r.ch # Heartbeat
    <3>1. r.ch \in Channels
      BY <1>4, <1>5, <2>2 DEF SlotOK, Turns
    <3> DEFINE d == ResultQueue(q[r.ch], r)
               g == ResultFate(q[r.ch], r)
    <3>2. Tidy(q[r.ch]) /\ Held(task, results, i) \cap Owns(q[r.ch]) = {}
      BY <1>4, <1>6, <3>1, OnTheBooks DEF AllTidy
    <3>3. Closes(q[r.ch], d, Held(task, results, i), g)
      BY <1>7, <3>2, ResultCloses DEF Carries
    <3>4. qs = [q EXCEPT ![r.ch] = d] /\ f = g
      BY <2>2
    <3> HIDE DEF d, g, qs, f
    <3>5. Account([q EXCEPT ![r.ch] = d], t, ps, Pending(g)) /\ Fates(g, arrived)
      BY <1>4, <1>7, <3>1, <3>3, AccountCloses
    <3> QED
      BY <3>4, <3>5
  <2> QED
    BY <2>1, <2>2
<1> HIDE DEF qs, f
<1>11. Account(q', task', ps, Pending(f))
  <2>1. CASE q' = qs /\ task' = t
    BY <1>10, <2>1
  <2>2. CASE Dispatch(qs, p, t)
    BY <1>9, <1>10, <2>2, DispatchedAccount
  <2> QED
    BY <1>1, <2>1, <2>2 DEF p
<1> QED
  BY <1>2, <1>10, <1>11 DEF AInv

\* recover_panicked_agent keeps the account.
LEMMA RecoverPanicAccount ==
  ASSUME SInv, AInv, NEW i \in Slots, RecoverPanic(i)
  PROVE  AInv'
<1> DEFINE ch == task[i].ch
           b == task[i].batch
           t == [task EXCEPT ![i] = NoTask]
           recoverable == ch # Heartbeat /\ ~DropMode /\ ch \notin removed
           qs == IF ch = Heartbeat THEN q
                 ELSE [q EXCEPT ![ch] = mark_complete(IF recoverable THEN requeue(@, b) ELSE @)]
           f == IF ch = Heartbeat THEN fate
                ELSE IF ~recoverable THEN Settle(fate, EventsOf(b), "dropped")
                ELSE IF Exhausted(q[ch]) THEN Settle(fate, EventsOf(b), "dead_silent")
                ELSE fate
           pn == panics \ {i}
<1>1. PICK s \in record_crash(pool[i]) :
        \/ q' = qs /\ pool' = [pool EXCEPT ![i] = s] /\ task' = t
        \/ Dispatch(qs, [pool EXCEPT ![i] = s], t)
  BY DEF RecoverPanic
<1>2. /\ i \in panics /\ results' = results /\ arrived' = arrived /\ fate' = f
  BY DEF RecoverPanic
<1>3. Owned(pool, task, removed, results, panics, respawned, hb, PoolReady)
  BY DEF SInv
<1>4. /\ Owned(pool, task, removed, results, pn, respawned, hb, PoolReady)
      /\ task[i] # NoTask /\ \A k \in DOMAIN results : results[k].slot # i
  BY <1>2, <1>3, PanicTaken
<1>5. /\ SlotOK(pool[i], task[i], removed) /\ DOMAIN task = Slots
      /\ task[i].phase # "sent"
  BY <1>2, <1>3 DEF Owned, SlotsOK, PanicsOK
<1>6. AllCarry(task, results) /\ AllTidy(q) /\ Account(q, task, results, Pending(fate))
  BY DEF AInv, Account
<1>7. /\ Sets(Hands(t, results), Hands(task, results), i, {}, Slots) /\ AllCarry(t, results)
      /\ Held(task, results, i) = EventsOf(b) /\ Carries(task[i])
  BY <1>4, <1>5, <1>6, TaskOverHands
<1>8. Ends(pool[i], s, removed)
  BY <1>1, <1>5, CrashEnds
<1> DEFINE p == [pool EXCEPT ![i] = s]
           h == hb /\ task[i].ch # Heartbeat
<1>a. i \notin pn
  OBVIOUS
<1> HIDE DEF pn
<1>9. SlotsOK(p, t, removed)
  <2>1. Owned(p, t, removed, results, pn, respawned, h, PoolReady)
    BY <1>4, <1>8, <1>a, TaskEnds
  <2> QED
    BY <2>1 DEF Owned
<1> HIDE DEF p, t
<1>10. Account(qs, t, results, Pending(f)) /\ Fates(f, arrived)
  <2>1. CASE ch = Heartbeat
    <3>1. Held(task, results, i) = {}
      BY <1>7, <2>1 DEF Carries
    <3>2. Account(q, t, results, Pending(fate)) /\ Fates(fate, arrived)
      BY <1>7, <3>1, AccountNothing
    <3>3. qs = q /\ f = fate
      BY <2>1, SMT
    <3> HIDE DEF qs, f
    <3> QED
      BY <3>2, <3>3
  <2>2. CASE ch # Heartbeat
    <3>1. ch \in Channels
      BY <1>4, <1>5, <2>2 DEF SlotOK, Turns
    <3> DEFINE es == EventsOf(b)
               x == IF recoverable THEN requeue(q[ch], b) ELSE q[ch]
               d == mark_complete(x)
    <3>2. Tidy(q[ch]) /\ es \cap Owns(q[ch]) = {} /\ BatchOK(b) /\ DOMAIN q = Channels
      BY <1>6, <1>7, <3>1, OnTheBooks DEF AllTidy, Carries
    <3>3. Closes(q[ch], x, es, f)
      <4>1. CASE ~recoverable
        <5>1. x = q[ch] /\ f = Settle(fate, es, "dropped")
          BY <2>2, <4>1, SMT
        <5> HIDE DEF x, f, es, ch
        <5> QED
          BY <3>2, <5>1 DEF Closes
      <4>2. CASE recoverable
        <5>1. x = requeue(q[ch], b)
              /\ f = IF Exhausted(q[ch]) THEN Settle(fate, es, "dead_silent") ELSE fate
          BY <2>2, <4>2, SMT
        <5>2. Tidy(x) /\ Owns(x) = Owns(q[ch]) \cup (IF Exhausted(q[ch]) THEN {} ELSE es)
          BY <3>2, <5>1, RequeueTidy
        <5> HIDE DEF x, f, es, ch
        <5>3. CASE Exhausted(q[ch])
          BY <5>1, <5>2, <5>3 DEF Closes
        <5>4. CASE ~Exhausted(q[ch])
          BY <5>1, <5>2, <5>4 DEF Closes
        <5> QED
          BY <5>3, <5>4
      <4> QED
        BY <4>1, <4>2
    <3>4. qs = [q EXCEPT ![ch] = d]
      BY <2>2, <3>1, <3>2
    <3> HIDE DEF x, f, qs
    <3>5. Tidy(d) /\ Owns(d) = Owns(x)
      BY <3>3, MarksAlike, AlikeTidy DEF Closes
    <3>6. Closes(q[ch], d, es, f)
      BY <3>3, <3>5 DEF Closes
    <3> HIDE DEF d
    <3>7. Account([q EXCEPT ![ch] = d], t, results, Pending(f)) /\ Fates(f, arrived)
      BY <1>7, <3>1, <3>6, AccountCloses
    <3> QED
      BY <3>4, <3>7
  <2> QED
    BY <2>1, <2>2
<1> HIDE DEF qs, f
<1>11. Account(q', task', results, Pending(f))
  <2>1. CASE q' = qs /\ task' = t
    BY <1>10, <2>1
  <2>2. CASE Dispatch(qs, p, t)
    BY <1>9, <1>10, <2>2, DispatchedAccount
  <2> QED
    BY <1>1, <2>1, <2>2 DEF p
<1> QED
  BY <1>2, <1>10, <1>11 DEF AInv

-----------------------------------------------------------------------------
\* A task that is nudged keeps what it holds.
LEMMA NudgedAccount ==
  ASSUME NEW p, NEW t, NEW g, SlotsOK(p, t, g), NEW qs, NEW rs, NEW P, Account(qs, t, rs, P),
         NEW u, Nudged(t, u)
  PROVE  Account(qs, u, rs, P)
<1>1. CASE u = t
  BY <1>1
<1>2. CASE u # t
  <2>0. PICK i \in Slots : \E s : t[i] # NoTask /\ Goes(t[i], s) /\ u = [t EXCEPT ![i] = s]
    BY <1>2 DEF Nudged
  <2>1. PICK s : t[i] # NoTask /\ Goes(t[i], s) /\ u = [t EXCEPT ![i] = s]
    BY <2>0
  <2>2. DOMAIN t = Slots /\ SlotOK(p[i], t[i], g)
    BY DEF SlotsOK
  <2>3. s # NoTask
    BY <2>1, <2>2, ChannelsAssumption, SMT DEF Goes, SlotOK, NoTask, Turns, Heartbeat
  <2> QED
    BY <2>1, <2>2, <2>3, AccountGoesOn DEF Goes
<1> QED
  BY <1>1, <1>2

\* The steps of a task before its result.
LEMMA TaskNudges ==
  ASSUME SInv, NEW i \in Slots,
         Prompt(i) \/ InitialDone(i) \/ Panic(i) \/ TakeSteer(i) \/ SteerAnswer(i)
  PROVE  /\ Nudged(task, task')
         /\ q' = q /\ results' = results /\ fate' = fate /\ arrived' = arrived
<1>1. Running(i)
  BY DEF Prompt, InitialDone, Panic, TakeSteer, SteerAnswer
<1>2. /\ task[i] # NoTask /\ task[i].phase # "sent" /\ Quiet(task[i])
      /\ DOMAIN task = Slots /\ DOMAIN task[i] = TFields
  BY <1>1, RunningTask
<1>3. q' = q /\ results' = results /\ fate' = fate /\ arrived' = arrived
  BY DEF Prompt, InitialDone, Panic, TakeSteer, SteerAnswer
<1>4. ASSUME NEW s, Goes(task[i], s), task' = [task EXCEPT ![i] = s]
      PROVE  Nudged(task, task')
  BY <1>2, <1>4 DEF Nudged
<1>5. CASE Prompt(i)
  <2>1. PICK ph \in {"initial", "prompt"} : task' = [task EXCEPT ![i].phase = ph]
    BY <1>5 DEF Prompt
  <2> DEFINE s == [task[i] EXCEPT !.phase = ph]
  <2>2. Goes(task[i], s)
    BY <1>2, <2>1 DEF Goes, TFields, Quiet
  <2>3. task' = [task EXCEPT ![i] = s]
    BY <1>2, <2>1
  <2> HIDE DEF s
  <2> QED
    BY <1>3, <1>4, <2>2, <2>3
<1>6. CASE InitialDone(i)
  <2> DEFINE s == [task[i] EXCEPT !.phase = "prompt", !.open = FALSE, !.buf = 0, !.pend = 0]
  <2>2. Goes(task[i], s)
    BY <1>2 DEF Goes, TFields, Quiet
  <2>3. task' = [task EXCEPT ![i] = s]
    BY <1>2, <1>6 DEF InitialDone
  <2> HIDE DEF s
  <2> QED
    BY <1>3, <1>4, <2>2, <2>3
<1>7. CASE Panic(i)
  <2> DEFINE s == [task[i] EXCEPT !.open = FALSE, !.buf = 0, !.pend = 0]
  <2>2. Goes(task[i], s)
    BY <1>2 DEF Goes, TFields, Quiet
  <2>3. task' = [task EXCEPT ![i] = s]
    BY <1>2, <1>7 DEF Panic
  <2> HIDE DEF s
  <2> QED
    BY <1>3, <1>4, <2>2, <2>3
<1>8. CASE TakeSteer(i)
  <2>1. PICK n : task' = [task EXCEPT ![i].pend = n, ![i].buf = 0]
                 \/ task' = [task EXCEPT ![i].buf = 0]
    BY <1>8 DEF TakeSteer
  <2>2. task[i].ch # Heartbeat
    BY <1>2, <1>8 DEF Quiet, TakeSteer
  <2> DEFINE s1 == [task[i] EXCEPT !.pend = n, !.buf = 0]
             s2 == [task[i] EXCEPT !.buf = 0]
  <2>3. Goes(task[i], s1)
    BY <1>2, <2>2 DEF Goes, TFields, Quiet
  <2>4. Goes(task[i], s2)
    BY <1>2, <2>2 DEF Goes, TFields, Quiet
  <2>5. task' = [task EXCEPT ![i] = s1] \/ task' = [task EXCEPT ![i] = s2]
    BY <1>2, <2>1
  <2> HIDE DEF s1, s2
  <2> QED
    BY <1>3, <1>4, <2>3, <2>4, <2>5
<1>9. CASE SteerAnswer(i)
  <2> DEFINE s == [task[i] EXCEPT !.pend = 0]
  <2>2. Goes(task[i], s)
    BY <1>2 DEF Goes, TFields, Quiet
  <2>3. task' = [task EXCEPT ![i] = s]
    BY <1>2, <1>9 DEF SteerAnswer
  <2> HIDE DEF s
  <2> QED
    BY <1>3, <1>4, <2>2, <2>3
<1> QED
  BY <1>5, <1>6, <1>7, <1>8, <1>9

\* send_prompt_result: the batch goes into the result, or was settled.
LEMMA SendAccount ==
  ASSUME SInv, AInv, NEW i \in Slots, Running(i), NEW outcome, NEW batch, NEW sess,
         Send(i, outcome, batch, sess), BatchOK(batch),
         \/ EventsOf(batch) = EventsOf(task[i].batch) /\ fate' = fate
         \/ /\ EventsOf(batch) = {}
            /\ \E how \in {"delivered", "dropped"} :
                 fate' = Settle(fate, EventsOf(task[i].batch), how)
  PROVE  AInv'
<1> DEFINE r == [slot |-> i, ch |-> task[i].ch, outcome |-> outcome, batch |-> batch]
           s == [task[i] EXCEPT !.phase = "sent", !.open = FALSE, !.buf = 0, !.pend = 0]
           rs == Append(results, r)
           t == [task EXCEPT ![i] = s]
           es == EventsOf(task[i].batch)
<1>1. /\ Owned(pool, task, removed, results, panics, respawned, hb, PoolReady)
      /\ task[i] # NoTask /\ task[i].phase # "sent"
      /\ DOMAIN task = Slots /\ DOMAIN task[i] = TFields /\ task[i].ch \in Turns
  BY RunningTask
<1>2. q' = q /\ results' = rs /\ arrived' = arrived
  BY DEF Send
<1>3. task' = t
  BY <1>1 DEF Send
<1>4. s.ch = task[i].ch /\ s.phase = "sent" /\ s.batch = task[i].batch
  BY <1>1 DEF TFields
<1>5. s # NoTask
  <2>1. s.ch # "none"
    BY <1>1, <1>4, ChannelsAssumption DEF Turns, Heartbeat
  <2>2. NoTask.ch = "none"
    BY DEF NoTask
  <2> HIDE DEF s
  <2> QED
    BY <2>1, <2>2
<1>6. /\ Account(q, task, results, Pending(fate)) /\ Fates(fate, arrived)
      /\ AllCarry(task, results) /\ AllTidy(q) /\ ResultsOK(results, task)
      /\ Ledger(Books(q), Hands(task, results), Pending(fate))
  BY <1>1 DEF AInv, Account, Owned
<1>7. Carries(task[i])
  BY <1>1, <1>6 DEF AllCarry
<1>8. r.slot = i /\ r.ch = task[i].ch /\ r.batch = batch
  OBVIOUS
<1>9. Carries(r)
  <2> HIDE DEF r
  <2> QED
    BY <1>7, <1>8 DEF Carries
<1> HIDE DEF r, s
<1>10. /\ Sets(Hands(t, rs), Hands(task, results), i, EventsOf(batch), Slots)
       /\ AllCarry(t, rs) /\ Held(task, results, i) = es
  BY <1>1, <1>4, <1>5, <1>6, <1>8, <1>9, TaskSendsHands
<1> HIDE DEF t, rs
<1>11. CASE EventsOf(batch) = es /\ fate' = fate
  <2>1. Hands(t, rs) = Hands(task, results)
    <3>1. \A j \in Slots : Hands(t, rs)[j] = Hands(task, results)[j]
      BY <1>10, <1>11 DEF Sets, Hands
    <3> QED
      BY <3>1 DEF Hands
  <2>2. Account(q, t, rs, Pending(fate))
    BY <1>6, <1>10, <2>1 DEF Account
  <2> QED
    BY <1>2, <1>3, <1>6, <1>11, <2>2 DEF AInv
<1>12. ASSUME EventsOf(batch) = {}, NEW how \in {"delivered", "dropped"},
              fate' = Settle(fate, es, how)
       PROVE  AInv'
  <2>0. how # "pending"
    OBVIOUS
  <2>1. es \subseteq Pending(fate)
    BY <1>6, <1>10, OnTheBooks, SMT
  <2> HIDE DEF es
  <2>2. Pending(fate') = Pending(fate) \ es /\ Fates(fate', arrived)
    BY <1>6, <1>12, <2>0, <2>1, PendingSettled
  <2>3. Account(q, t, rs, Pending(fate) \ es)
    BY <1>6, <1>10, <1>12, AccountSettles
  <2>4. Account(q, t, rs, Pending(fate'))
    BY <2>2, <2>3
  <2> QED
    BY <1>2, <1>3, <2>2, <2>4 DEF AInv
<1> QED
  BY <1>11, <1>12

\* A turn ends, fails or obeys a signal.
LEMMA TaskStepAccount ==
  ASSUME SInv, AInv, NEW i \in Slots, TaskStep(i)
  PROVE  AInv'
<1> DEFINE es == EventsOf(task[i].batch)
<1>1. CASE Prompt(i) \/ InitialDone(i)
  <2>1. /\ Nudged(task, task')
        /\ q' = q /\ results' = results /\ fate' = fate /\ arrived' = arrived
    BY <1>1, TaskNudges
  <2>2. SlotsOK(pool, task, removed)
    BY DEF SInv, Owned
  <2> QED
    BY <2>1, <2>2, NudgedAccount DEF AInv
<1>2. CASE TurnOk(i)
  <2>1. PICK sess : /\ Running(i) /\ Send(i, "ok", NoBatch, sess)
                    /\ fate' = Settle(fate, es, "delivered")
    BY <1>2 DEF TurnOk
  <2> QED
    BY <2>1, NoBatchOK, SendAccount
<1>3. CASE TurnFails(i)
  <2>1. PICK o, sess : /\ Running(i) /\ Send(i, o, Retry(task[i].batch), sess)
                       /\ fate' = LostByMode(i)
    BY <1>3 DEF TurnFails
  <2>2. task[i] # NoTask
    BY <2>1 DEF Running, InTaskMap
  <2>3. BatchOK(task[i].batch)
    BY <2>2, RetryCarries
  <2>4. CASE DropMode
    <3>1. Retry(task[i].batch) = NoBatch /\ fate' = Settle(fate, es, "dropped")
      BY <2>1, <2>4 DEF Retry, LostByMode
    <3> QED
      BY <2>1, <3>1, NoBatchOK, SendAccount
  <2>5. CASE ~DropMode
    <3>1. Retry(task[i].batch) = task[i].batch /\ fate' = fate
      BY <2>1, <2>5 DEF Retry, LostByMode
    <3> QED
      BY <2>1, <2>3, <3>1, SendAccount
  <2> QED
    BY <2>4, <2>5
<1>4. CASE Obey(i)
  <2> DEFINE cb == CancelBatch(i)
  <2>1. Running(i)
    BY <1>4 DEF Obey
  <2>2. \/ \E o, sess : /\ Send(i, o, cb, sess)
                        /\ fate' = IF cb = NoBatch THEN Settle(fate, es, "dropped") ELSE fate
        \/ \E sess : Send(i, "ok", NoBatch, sess) /\ fate' = Settle(fate, es, "delivered")
    BY <1>4 DEF Obey
  <2>3. task[i] # NoTask
    BY <2>1 DEF Running, InTaskMap
  <2>4. cb = NoBatch \/ (BatchOK(cb) /\ EventsOf(cb) = es)
    BY <2>3, RetryCarries DEF CancelBatch, Retry
  <2> HIDE DEF cb, es
  <2>5. ASSUME NEW o, NEW sess, Send(i, o, cb, sess),
               fate' = IF cb = NoBatch THEN Settle(fate, es, "dropped") ELSE fate
        PROVE  AInv'
    <3>1. CASE cb = NoBatch
      <4>1. fate' = Settle(fate, es, "dropped") /\ Send(i, o, NoBatch, sess)
        BY <2>5, <3>1
      <4> QED
        BY <2>1, <4>1, NoBatchOK, SendAccount DEF es
    <3>2. CASE cb # NoBatch
      <4>1. fate' = fate /\ BatchOK(cb) /\ EventsOf(cb) = es
        BY <2>4, <2>5, <3>2
      <4> QED
        BY <2>1, <2>5, <4>1, SendAccount DEF es
    <3> QED
      BY <3>1, <3>2
  <2>6. ASSUME NEW sess, Send(i, "ok", NoBatch, sess), fate' = Settle(fate, es, "delivered")
        PROVE  AInv'
    BY <2>1, <2>6, NoBatchOK, SendAccount DEF es
  <2> QED
    BY <2>2, <2>5, <2>6
<1> QED
  BY <1>1, <1>2, <1>3, <1>4 DEF TaskStep

\* After a push, the event is queued or withheld for a steer.
LEMMA AfterPushAccount ==
  ASSUME NEW g, SlotsOK(pool, task, g), NEW qs, NEW ch \in Channels, NEW e, NEW rs, NEW P,
         Account(qs, task, rs, P), NEW s \in AfterPush(qs, ch, e)
  PROVE  Account(s.q, s.task, rs, P)
<1>1. Nudged(task, s.task)
  BY AfterPushKeeps
<1>2. Account(qs, s.task, rs, P)
  BY <1>1, NudgedAccount
<1>3. CASE s.q = qs
  BY <1>2, <1>3
<1>4. CASE s.q = [qs EXCEPT ![ch] = mark_native_steer_pending(@, e)]
  <2> DEFINE c == mark_native_steer_pending(qs[ch], e)
  <2>1. DOMAIN qs = Channels /\ Tidy(qs[ch])
    BY DEF Account, AllTidy
  <2>2. Tidy(c) /\ Owns(c) = Owns(qs[ch])
    BY <2>1, WithholdTidy
  <2>3. s.q = [qs EXCEPT ![ch] = c]
    BY <1>4, <2>1
  <2> HIDE DEF c
  <2>4. Account([qs EXCEPT ![ch] = c], s.task, rs, P)
    BY <1>2, <2>2, AccountTidiedAt
  <2> QED
    BY <2>3, <2>4
<1>5. \/ s = [q |-> qs, task |-> task]
      \/ \E sig \in {"steer", "interrupt"} : \E u \in Signalled(task, ch, sig) :
           s = [q |-> qs, task |-> u]
      \/ \E i \in Slots :
           /\ task[i].ch = ch
           /\ s = [q |-> [qs EXCEPT ![ch] = mark_native_steer_pending(@, e)],
                   task |-> [task EXCEPT ![i].buf = e]]
  BY AfterPushCases, SMT
<1>6. s.q = qs \/ s.q = [qs EXCEPT ![ch] = mark_native_steer_pending(@, e)]
  BY <1>5, SMT
<1> QED
  BY <1>3, <1>4, <1>6

\* An event from the relay.
LEMMA RelayEventAccount ==
  ASSUME SInv, AInv, NEW ch \in Channels, RelayEvent(ch)
  PROVE  AInv'
<1> DEFINE e == arrived + 1
           qe == [q EXCEPT ![ch] = push(@, e)]
           how == IF Refused(q[ch]) THEN "refused" ELSE "pending"
           f == [fate EXCEPT ![e] = how]
<1>1. PICK s \in IF Refused(q[ch]) THEN {[q |-> q, task |-> task]} ELSE AfterPush(qe, ch, e) :
        IF PoolReady THEN Dispatch(s.q, pool, s.task)
        ELSE q' = s.q /\ task' = s.task /\ UNCHANGED pool
  BY DEF RelayEvent
<1>2. /\ arrived < MaxEvents /\ arrived' = e /\ results' = results /\ fate' = f
  BY DEF RelayEvent
<1>3. Account(q, task, results, Pending(fate)) /\ Fates(fate, arrived) /\ AllTidy(q)
  BY DEF AInv, Account
<1>4. /\ e \in Events /\ e \notin Pending(fate) /\ Fates(f, e)
      /\ Pending(f) = IF how = "pending" THEN Pending(fate) \cup {e} ELSE Pending(fate)
  BY <1>2, <1>3, NextEvent
<1>5. SlotsOK(pool, task, removed)
  BY DEF SInv, Owned
<1>a. how = "pending" <=> ~Refused(q[ch])
  OBVIOUS
<1> HIDE DEF e, f, how
<1>6. Account(s.q, s.task, results, Pending(f)) /\ Nudged(task, s.task)
  <2>1. CASE Refused(q[ch])
    <3>1. s.q = q /\ s.task = task
      BY <1>1, <2>1, SMT
    <3>2. Pending(f) = Pending(fate)
      BY <1>4, <1>a, <2>1
    <3> QED
      BY <1>3, <3>1, <3>2 DEF Nudged
  <2>2. CASE ~Refused(q[ch])
    <3> DEFINE c == push(q[ch], e)
    <3>1. DOMAIN q = Channels /\ Tidy(q[ch])
      BY <1>3 DEF AllTidy
    <3>2. e \notin Owns(q[ch])
      BY <1>3, <1>4, OnTheBooks
    <3>3. Tidy(c) /\ Owns(c) = Owns(q[ch]) \cup {e}
      BY <1>4, <2>2, <3>1, <3>2, PushTidy
    <3>4. qe = [q EXCEPT ![ch] = c]
      BY <3>1
    <3>5. s \in AfterPush(qe, ch, e)
      BY <1>1, <2>2
    <3> HIDE DEF c, qe
    <3>6. Account([q EXCEPT ![ch] = c], task, results, Pending(fate) \cup {e})
      BY <1>3, <1>4, <3>3, AccountGrows
    <3>7. Account(qe, task, results, Pending(f))
      BY <1>4, <1>a, <2>2, <3>4, <3>6
    <3> QED
      BY <1>5, <3>5, <3>7, AfterPushAccount, AfterPushKeeps
  <2> QED
    BY <2>1, <2>2
<1>7. SlotsOK(pool, s.task, removed)
  BY <1>6, NudgedOwned DEF SInv, Owned
<1>8. Account(q', task', results, Pending(f))
  BY <1>1, <1>6, <1>7, DispatchedAccount
<1> QED
  BY <1>2, <1>4, <1>8 DEF AInv

\* A steer ack: the event is steered into the turn, or released.
LEMMA HandleAckAccount ==
  ASSUME SInv, AInv, HandleAck
  PROVE  AInv'
<1>1. PICK a \in acks :
        LET released == [q EXCEPT ![a.ch] = release_native_steer(@, a.e)]
            removedE == [q EXCEPT ![a.ch] = remove_event(extend_in_flight_deadline(@), a.e)]
            held     == a.e \in Elements(q[a.ch].queue) \cup Elements(q[a.ch].withheld)
        IN  /\ fate' = IF a.kind = "success" /\ held THEN [fate EXCEPT ![a.e] = "steered"]
                       ELSE fate
            /\ \E t \in IF a.kind = "fallback" THEN Signalled(task, a.ch, "steer") ELSE {task} :
                 Dispatch(IF a.kind = "success" THEN removedE ELSE released, pool, t)
  BY DEF HandleAck
<1> DEFINE released == [q EXCEPT ![a.ch] = release_native_steer(@, a.e)]
           removedE == [q EXCEPT ![a.ch] = remove_event(extend_in_flight_deadline(@), a.e)]
           held     == a.e \in Elements(q[a.ch].queue) \cup Elements(q[a.ch].withheld)
           qs == IF a.kind = "success" THEN removedE ELSE released
<1>2. fate' = IF a.kind = "success" /\ held THEN [fate EXCEPT ![a.e] = "steered"] ELSE fate
  BY <1>1
<1>3. PICK t \in IF a.kind = "fallback" THEN Signalled(task, a.ch, "steer") ELSE {task} :
        Dispatch(qs, pool, t)
  BY <1>1
<1>4. results' = results /\ arrived' = arrived
  BY DEF HandleAck
<1>5. Owned(pool, task, removed, results, panics, respawned, hb, PoolReady)
      /\ SlotsOK(pool, task, removed)
  BY DEF SInv, Owned
<1>6. a.ch \in Channels
  BY <1>1 DEF SInv, AcksOK
<1>7. Nudged(task, t)
  BY <1>3, <1>5, <1>6, SignalNudges, SMT DEF Nudged
<1>8. SlotsOK(pool, t, removed)
  BY <1>5, <1>7, NudgedOwned DEF Owned
<1>9. /\ Account(q, task, results, Pending(fate)) /\ Fates(fate, arrived)
      /\ DOMAIN q = Channels /\ Tidy(q[a.ch])
  BY <1>6 DEF AInv, Account, AllTidy
<1>10. Account(qs, task, results, Pending(fate')) /\ Fates(fate', arrived)
  <2>1. CASE a.kind # "success"
    <3> DEFINE c == release_native_steer(q[a.ch], a.e)
    <3>1. Tidy(c) /\ Owns(c) = Owns(q[a.ch])
      BY <1>9, ReleaseTidy
    <3>2. qs = [q EXCEPT ![a.ch] = c] /\ fate' = fate
      BY <1>2, <1>9, <2>1
    <3> HIDE DEF c, qs
    <3>3. Account([q EXCEPT ![a.ch] = c], task, results, Pending(fate))
      BY <1>6, <1>9, <3>1, AccountTidiedAt
    <3> QED
      BY <1>9, <3>2, <3>3
  <2>2. CASE a.kind = "success"
    <3> DEFINE x == extend_in_flight_deadline(q[a.ch])
               c == remove_event(x, a.e)
    <3>1. Alike(q[a.ch], x)
      BY <1>9, MarksAlike
    <3>2. Tidy(x) /\ Owns(x) = Owns(q[a.ch])
      BY <1>9, <3>1, AlikeTidy
    <3>3. held <=> a.e \in Elements(x.queue) \cup Elements(x.withheld)
      BY <3>1 DEF Alike
    <3>4. qs = [q EXCEPT ![a.ch] = c]
      BY <1>9, <2>2
    <3> HIDE DEF x
    <3>5. Tidy(c) /\ Owns(c) = IF held THEN Owns(q[a.ch]) \ {a.e} ELSE Owns(q[a.ch])
      BY <3>2, <3>3, RemoveTidy
    <3>6. held => a.e \in Owns(q[a.ch])
      BY DEF Owns, Drained
    <3> HIDE DEF c, qs, held
    <3>7. CASE ~held
      <4>1. Account([q EXCEPT ![a.ch] = c], task, results, Pending(fate))
        BY <1>6, <1>9, <3>5, <3>7, AccountTidiedAt
      <4>2. fate' = fate
        BY <1>2, <3>7
      <4> QED
        BY <1>9, <3>4, <4>1, <4>2
    <3>8. CASE held
      <4> DEFINE B == {a.e}
                 g == [fate EXCEPT ![a.e] = "steered"]
      <4>1. B \subseteq Owns(q[a.ch]) /\ Owns(c) = Owns(q[a.ch]) \ B
        BY <3>5, <3>6, <3>8
      <4>2. a.e \in Pending(fate)
        BY <1>6, <1>9, <3>6, <3>8, OnTheBooks
      <4>3. fate' = g
        BY <1>2, <2>2, <3>8
      <4>4. DOMAIN g = Events
            /\ \A y \in Events : g[y] = IF y = a.e THEN "steered" ELSE fate[y]
        BY <1>9 DEF Fates
      <4> HIDE DEF g
      <4>5. Pending(g) = Pending(fate) \ B
        BY <4>2, <4>4 DEF Pending
      <4>6. Fates(g, arrived)
        BY <1>9, <4>2, <4>4 DEF Fates, Pending
      <4> HIDE DEF B
      <4>7. Account([q EXCEPT ![a.ch] = c], task, results, Pending(fate) \ B)
        BY <1>6, <1>9, <3>5, <4>1, AccountLoses
      <4> QED
        BY <3>4, <4>3, <4>5, <4>6, <4>7
    <3> QED
      BY <3>7, <3>8
  <2> QED
    BY <2>1, <2>2
<1> HIDE DEF qs
<1>11. Account(qs, t, results, Pending(fate'))
  BY <1>5, <1>7, <1>10, NudgedAccount
<1>12. Account(q', task', results, Pending(fate'))
  BY <1>3, <1>8, <1>11, DispatchedAccount
<1> QED
  BY <1>4, <1>10, <1>12 DEF AInv

\* The heartbeat tick dispatches, or starts a task without a batch.
LEMMA HeartbeatTickAccount ==
  ASSUME SInv, AInv, HeartbeatTick
  PROVE  AInv'
<1> DEFINE x == ExpireAll(q)
           i == try_claim(pool, Heartbeat)
           s == NewTask(Heartbeat, NoBatch)
<1>1. \/ Dispatch(x, pool, task)
      \/ q' = x /\ task' = task
      \/ q' = x /\ i # 0 /\ task' = [task EXCEPT ![i] = s]
  BY DEF HeartbeatTick
<1>2. results' = results /\ arrived' = arrived /\ fate' = fate
  BY DEF HeartbeatTick
<1>3. SlotsOK(pool, task, removed) /\ Fates(fate, arrived)
  BY DEF SInv, Owned, AInv
<1>4. Account(x, task, results, Pending(fate))
  BY AccountExpires DEF AInv
<1>5. s.ch = Heartbeat /\ s.batch = NoBatch /\ s.phase = "setup"
  BY DEF NewTask
<1> HIDE DEF x, s
<1>6. Account(q', task', results, Pending(fate))
  <2>1. CASE Dispatch(x, pool, task)
    BY <1>3, <1>4, <2>1, DispatchedAccount
  <2>2. CASE q' = x /\ task' = task
    BY <1>4, <2>2
  <2>3. CASE q' = x /\ i # 0 /\ task' = [task EXCEPT ![i] = s]
    <3>1. i \in Slots /\ pool[i].agent = "idle"
      BY <2>3, ClaimIdle
    <3> HIDE DEF i
    <3>2. DOMAIN task = Slots /\ task[i] = NoTask
      BY <1>3, <3>1 DEF SlotsOK, SlotOK
    <3>3. \A j \in Slots : task'[j] = IF j = i THEN s ELSE task[j]
      BY <2>3, <3>2
    <3>4. EventsOf(s.batch) = {} /\ Carries(s)
      BY <1>5, NoBatchOK DEF Carries
    <3>5. Held(task, results, i) = {} /\ Held(task', results, i) = {}
      BY <1>5, <3>1, <3>2, <3>3, <3>4 DEF Held
    <3>6. \A j \in Slots : Held(task', results, j) = Held(task, results, j)
      BY <3>3, <3>5 DEF Held
    <3>7. Hands(task', results) = Hands(task, results)
      BY <3>6 DEF Hands
    <3>8. AllCarry(task', results)
      BY <1>4, <3>3, <3>4 DEF Account, AllCarry
    <3> QED
      BY <1>4, <2>3, <3>7, <3>8 DEF Account
  <2> QED
    BY <1>1, <2>1, <2>2, <2>3
<1> QED
  BY <1>2, <1>3, <1>6 DEF AInv

\* The top of the loop.
LEMMA TopAccount ==
  ASSUME SInv, AInv, NEW due \in BOOLEAN, Top(due)
  PROVE  AInv'
<1>1. PICK d \in IF due THEN dispatch_pending(MaintainedQueue, MaintainedPool, task)
                 ELSE {[q |-> q, pool |-> pool, task |-> task, done |-> FALSE]} :
        IF AnyCollected THEN Dispatch(d.q, Collect(d.pool), d.task)
        ELSE q' = d.q /\ pool' = Collect(d.pool) /\ task' = d.task
  BY DEF Top
<1>2. PoolReady /\ results' = results /\ arrived' = arrived /\ fate' = fate
  BY DEF Top
<1>3. Owned(pool, task, removed, results, panics, respawned, hb, TRUE)
  BY <1>2 DEF SInv, Owned, WakeOK
<1>4. /\ Owned(d.pool, d.task, removed, results, panics, respawned, hb, TRUE)
      /\ Account(d.q, d.task, results, Pending(fate))
  <2>1. CASE due
    <3>1. d \in dispatch_pending(MaintainedQueue, MaintainedPool, task)
      BY <1>1, <2>1
    <3>2. Owned(MaintainedPool, task, removed, results, panics, respawned, hb, TRUE)
      BY <1>3, MaintainedRefills, RefillOwned
    <3>3. SlotsOK(MaintainedPool, task, removed)
      BY <3>2 DEF Owned
    <3> QED
      BY <3>1, <3>2, <3>3, MaintainedAccount, DispatchOwned, DispatchAccount
  <2>2. CASE ~due
    <3>1. d.q = q /\ d.pool = pool /\ d.task = task
      BY <1>1, <2>2, SMT
    <3> QED
      BY <1>3, <3>1 DEF AInv
  <2> QED
    BY <2>1, <2>2
<1>5. SlotsOK(Collect(d.pool), d.task, removed)
  <2>1. SlotsOK(d.pool, d.task, removed) /\ RespawnsOK(respawned, d.pool)
    BY <1>4 DEF Owned
  <2>2. DOMAIN Collect(d.pool) = Slots
        /\ \A i \in Slots : Arrives(d.pool[i], Collect(d.pool)[i])
    BY <2>1, CollectArrives
  <2>3. Owned(Collect(d.pool), d.task, removed, results, panics, {}, hb, TRUE)
    BY <1>4, <2>2, ArrivalOwned
  <2> QED
    BY <2>3 DEF Owned
<1>6. Account(q', task', results, Pending(fate))
  BY <1>1, <1>4, <1>5, DispatchedAccount
<1> QED
  BY <1>2, <1>6 DEF AInv

\* A wake result.
LEMMA HandleWakeAccount ==
  ASSUME SInv, AInv, HandleWake
  PROVE  AInv'
<1>1. PICK w \in woken :
        \/ UNCHANGED <<q, task>>
        \/ Dispatch(q, [i \in Slots |-> IF i \in w.up THEN FreshSlot ELSE pool[i]], task)
  BY DEF HandleWake
<1>2. results' = results /\ arrived' = arrived /\ fate' = fate /\ ~PoolReady
  BY DEF HandleWake
<1>3. Owned(pool, task, removed, results, panics, respawned, hb, FALSE)
  BY <1>2 DEF SInv, Owned, WakeOK
<1>4. CASE UNCHANGED <<q, task>>
  BY <1>2, <1>4 DEF AInv
<1>5. CASE Dispatch(q, [i \in Slots |-> IF i \in w.up THEN FreshSlot ELSE pool[i]], task)
  <2> DEFINE u == [i \in Slots |-> IF i \in w.up THEN FreshSlot ELSE pool[i]]
  <2>1. DOMAIN u = Slots /\ \A i \in Slots : u[i] = pool[i] \/ u[i] = FreshSlot
    OBVIOUS
  <2>2. Dispatch(q, u, task)
    BY <1>5
  <2> HIDE DEF u
  <2>3. Owned(u, task, removed, results, panics, respawned, hb, TRUE)
    BY <1>3, <2>1, WakeOwned
  <2>4. SlotsOK(u, task, removed)
    BY <2>3 DEF Owned
  <2>5. Account(q, task, results, Pending(fate)) /\ Fates(fate, arrived)
    BY DEF AInv
  <2>6. Account(q', task', results, Pending(fate))
    BY <2>2, <2>4, <2>5, DispatchedAccount
  <2> QED
    BY <1>2, <2>5, <2>6 DEF AInv
<1> QED
  BY <1>1, <1>4, <1>5

\* A step that nudges a task at most.
LEMMA NudgeAccount ==
  ASSUME SInv, AInv, Nudged(task, task'), UNCHANGED <<q, results, fate, arrived>>
  PROVE  AInv'
<1>1. SlotsOK(pool, task, removed)
  BY DEF SInv, Owned
<1> QED
  BY <1>1, NudgedAccount DEF AInv

\* Every step keeps the account.
LEMMA AccountStep ==
  ASSUME SInv, AInv, [Next]_vars
  PROVE  AInv'
<1>1. CASE TopListening
  <2>1. q' = ExpireAll(q) /\ UNCHANGED <<task, results, fate, arrived>>
    BY <1>1 DEF TopListening
  <2> QED
    BY <2>1, AccountExpires DEF AInv
<1>2. CASE HandleWake
  BY <1>2, HandleWakeAccount
<1>3. CASE \E due \in BOOLEAN : Top(due)
  BY <1>3, TopAccount
<1>4. CASE HandleResult
  BY <1>4, HandleResultAccount
<1>5. CASE \E i \in Slots : RecoverPanic(i)
  BY <1>5, RecoverPanicAccount
<1>6. CASE HandleAck
  BY <1>6, HandleAckAccount
<1>7. CASE HeartbeatTick
  BY <1>7, HeartbeatTickAccount
<1>8. CASE RetryWake \/ Tick \/ WakeTask \/ Stopped \/ vars' = vars
  <2>1. UNCHANGED <<q, task, results, fate, arrived>>
    BY <1>8 DEF RetryWake, Tick, WakeTask, Stopped, vars
  <2> QED
    BY <2>1 DEF AInv
<1>9. ASSUME NEW ch \in Channels, RelayEvent(ch) PROVE AInv'
  BY <1>9, RelayEventAccount
<1>10. ASSUME NEW ch \in Channels, NEW sig, Command(ch, sig) PROVE AInv'
  <2>1. task' \in Signalled(task, ch, sig) /\ UNCHANGED <<q, results, fate, arrived>>
    BY <1>10 DEF Command
  <2>2. SlotsOK(pool, task, removed)
    BY DEF SInv, Owned
  <2>3. Nudged(task, task')
    BY <2>1, <2>2, SignalNudges
  <2> QED
    BY <2>1, <2>3, NudgeAccount
<1>11. ASSUME NEW ch \in Channels, MemberRemoved(ch) PROVE AInv'
  BY <1>11, MemberRemovedAccount
<1>12. ASSUME NEW ch \in Channels, MemberAdded(ch) PROVE AInv'
  <2>1. UNCHANGED <<q, task, results, fate, arrived>>
    BY <1>12 DEF MemberAdded
  <2> QED
    BY <2>1 DEF AInv
<1>13. ASSUME NEW ch \in Channels, ThrottlePasses(ch) \/ DeadlinePasses(ch) PROVE AInv'
  <2>1. /\ UNCHANGED <<task, results, fate, arrived>>
        /\ \/ q' = [q EXCEPT ![ch].throttle = "past"]
           \/ q' = [q EXCEPT ![ch].overdue = TRUE]
    BY <1>13 DEF ThrottlePasses, DeadlinePasses
  <2> DEFINE c1 == [q[ch] EXCEPT !.throttle = "past"]
             c2 == [q[ch] EXCEPT !.overdue = TRUE]
  <2>2. DOMAIN q = Channels /\ Tidy(q[ch])
    BY DEF AInv, Account, AllTidy
  <2>3. Alike(q[ch], c1) /\ Alike(q[ch], c2)
    BY <2>2, MarksAlike
  <2>4. q' = [q EXCEPT ![ch] = c1] \/ q' = [q EXCEPT ![ch] = c2]
    BY <2>1, <2>2
  <2> HIDE DEF c1, c2
  <2> QED
    BY <2>1, <2>3, <2>4, MarkAccount
<1>14. ASSUME NEW i \in Slots, TaskStep(i) PROVE AInv'
  BY <1>14, TaskStepAccount
<1>15. ASSUME NEW i \in Slots, Panic(i) \/ TakeSteer(i) \/ SteerAnswer(i) PROVE AInv'
  BY <1>15, TaskNudges, NudgeAccount
<1>16. ASSUME NEW i \in Slots, Respawn(i) \/ CooldownPasses(i) PROVE AInv'
  <2>1. UNCHANGED <<q, task, results, fate, arrived>>
    BY <1>16 DEF Respawn, CooldownPasses
  <2> QED
    BY <2>1 DEF AInv
<1>17. LoopStep => AInv'
  BY <1>1, <1>2, <1>3, <1>4, <1>5, <1>6, <1>7, <1>8 DEF LoopStep
<1>18. CASE \E ch \in Channels :
              \/ RelayEvent(ch)
              \/ \E sig \in {"cancel", "rotate", "switch"} : Command(ch, sig)
              \/ MemberRemoved(ch) \/ MemberAdded(ch)
              \/ ThrottlePasses(ch) \/ DeadlinePasses(ch)
  <2>1. PICK ch \in Channels :
          \/ RelayEvent(ch)
          \/ \E sig \in {"cancel", "rotate", "switch"} : Command(ch, sig)
          \/ MemberRemoved(ch) \/ MemberAdded(ch)
          \/ ThrottlePasses(ch) \/ DeadlinePasses(ch)
    BY <1>18
  <2>2. CASE \E sig \in {"cancel", "rotate", "switch"} : Command(ch, sig)
    BY <1>10, <2>2
  <2> QED
    BY <1>9, <1>11, <1>12, <1>13, <2>1, <2>2
<1>19. CASE \E i \in Slots : \/ TaskStep(i) \/ Panic(i) \/ TakeSteer(i) \/ SteerAnswer(i)
                             \/ Respawn(i) \/ CooldownPasses(i)
  BY <1>14, <1>15, <1>16, <1>19
<1>20. CASE Next
  BY <1>8, <1>17, <1>18, <1>19, <1>20 DEF Next
<1> QED
  BY <1>8, <1>20

(***************************************************************************)
(* No event gets lost or doubled, also when a task outlives its deadline:  *)
(* every event that push accepted and that has not come to an end is in    *)
(* exactly one place, the queue of its channel, the batch of one running   *)
(* task or one result on its way to the loop, whatever the order of        *)
(* results, panics, steer acks, throttles, respawns, wakes and membership  *)
(* changes; an event that a size cap evicted or that a requeue left out is *)
(* nowhere.                                                                *)
(***************************************************************************)
THEOREM EventsAreAccounted == Spec => []Accounted
<1>1. Init => SInv /\ AInv
  BY HarnessInit, AccountInit
<1>2. SInv /\ AInv /\ [Next]_vars => SInv' /\ AInv'
  BY HarnessStep, AccountStep
<1>3. SInv /\ AInv => Accounted
  BY AccountSays
<1> QED
  BY <1>1, <1>2, <1>3, PTL DEF Spec
=============================================================================
