------------------------------ MODULE Observer ------------------------------
(***************************************************************************)
(* The feed with which a harness shows its owner what its agents do.       *)
(* Every turn emits onto an in-process bus (buzz-acp/src/observer.rs): a   *)
(* sequence number, a bounded replay buffer, a bounded broadcast channel,  *)
(* three steps that no lock joins.  A liveness task emits beside the turn  *)
(* until the turn's guards drop (pool.rs).  One publisher                  *)
(* (lib.rs, run_relay_observer_publisher) subscribes, replays the buffer,  *)
(* joins consecutive chunks of text, waits for a slot and publishes.       *)
(***************************************************************************)
EXTENDS Naturals, Sequences, FiniteSets, SequencesExt

CONSTANTS Plans,        \* records [script, ends, pings, drops, clock, early]
          Turns,
          BufferCap,    \* OBSERVER_BUFFER_CAP
          MaxText,      \* OBSERVER_CHUNK_MAX_TEXT_BYTES, in chunks
          Interval,     \* OBSERVER_PUBLISH_INTERVAL
          Limit,        \* OBSERVER_PUBLISH_LIMIT_PER_MINUTE
          Window,       \* the minute
          MaxTime

VARIABLES plan,
          bus,          \* ObserverInner: seq, buffer, the publisher's receiver
          turn,         \* per turn: run_prompt_task and its guards
          live,         \* per turn: run_turn_liveness
          pub,          \* the publisher task
          pace,         \* ObserverPublishPacer
          frames,       \* what reached the owner, in order
          now, dropped

vars == <<plan, bus, turn, live, pub, pace, frames, now, dropped>>

Chunks == {"message", "thought"}
Nothing == [seq |-> 0]
\* The n-th thing its turn emits.
Event(t, kind, n) == [seq |-> 0, turn |-> t, kind |-> kind, text |-> <<n>>]

Init ==
  /\ plan \in Plans
  \* The publisher starts before the turns or beside them.
  /\ bus = [seq |-> 1, buffer |-> <<>>, open |-> plan.early, queue |-> <<>>, lagged |-> FALSE]
  /\ turn = [t \in Turns |-> [pc |-> IF Len(plan.script[t]) = 0 THEN "done" ELSE "run", n |-> 1, emit |-> "no", ev |-> Nothing]]
  /\ live = [t \in Turns |-> [closed |-> FALSE, aborted |-> FALSE, locked |-> FALSE, emit |-> "no",
                              ev |-> Nothing, pings |-> 0]]
  /\ pub = [pc |-> IF plan.early THEN "live" ELSE "start", todo |-> <<>>, max |-> 0, pending |-> <<>>, out |-> <<>>, racing |-> {}]
  /\ pace = [next |-> Interval, sent |-> <<>>]
  /\ frames = <<>> /\ now = 0 /\ dropped = {}
-----------------------------------------------------------------------------
(***************************************************************************)
(* ObserverHandle::emit, one step at a time; e is the emitting task's      *)
(* record with its progress.                                               *)
(***************************************************************************)
TakeSeq(e, ev) == [e EXCEPT !.emit = "push", !.ev = [ev EXCEPT !.seq = bus.seq]]
Buffered(b, ev) ==
  [b EXCEPT !.buffer = Append(IF Len(@) >= BufferCap THEN Tail(@) ELSE @, ev)]
\* broadcast::Sender::send: a receiver that is BufferCap events behind loses the oldest.
Sent(b, ev) ==
  IF ~b.open THEN b
  ELSE [b EXCEPT !.queue = Append(IF Len(@) >= BufferCap THEN Tail(@) ELSE @, ev),
                 !.lagged = @ \/ Len(b.queue) >= BufferCap]
\* What the overwritten slot of the broadcast channel held.
Overwritten == IF bus.open /\ Len(bus.queue) >= BufferCap THEN {Head(bus.queue).seq} ELSE {}

Progressed(b, e) == IF e.emit = "push" THEN Buffered(b, e.ev) ELSE Sent(b, e.ev)
Advanced(e) == [e EXCEPT !.emit = IF @ = "push" THEN "send" ELSE "no"]
Lost(e) == IF e.emit = "send" THEN Overwritten ELSE {}
-----------------------------------------------------------------------------
(***************************************************************************)
(* A turn: what run_prompt_task emits, then its guards in drop order.      *)
(***************************************************************************)
Script(t) == plan.script[t]
run_prompt_task(t) ==
  /\ turn[t].pc = "run" /\ turn[t].emit = "no" /\ turn[t].n <= Len(Script(t))
  /\ turn' = [turn EXCEPT ![t] = [TakeSeq(@, Event(t, Script(t)[@.n], @.n)) EXCEPT !.n = @ + 1]]
  /\ bus' = [bus EXCEPT !.seq = @ + 1]
  /\ UNCHANGED <<plan, live, pub, pace, frames, now, dropped>>

\* Drop for LivenessGuard: closed under the lock the liveness task emits under.
\* Mutant: the task is only aborted, and an emit under way goes on.
LivenessMayClose_AbortOnly(t) == TRUE
LivenessMayClose(t) == ~live[t].locked
drop_liveness_guard(t) ==
  /\ turn[t].pc = "run" /\ turn[t].emit = "no" /\ turn[t].n > Len(Script(t))
  /\ plan.ends /\ LivenessMayClose(t)
  /\ live' = [live EXCEPT ![t].closed = TRUE, ![t].aborted = TRUE]
  /\ turn' = [turn EXCEPT ![t].pc = "closing"]
  /\ UNCHANGED <<plan, bus, pub, pace, frames, now, dropped>>
\* Drop for TurnCompletionGuard.
drop_completion_guard(t) ==
  /\ turn[t].pc = "closing" /\ turn[t].emit = "no"
  /\ turn' = [turn EXCEPT ![t] = [TakeSeq(@, Event(t, "turn_completed", @.n)) EXCEPT !.pc = "done"]]
  /\ bus' = [bus EXCEPT !.seq = @ + 1]
  /\ UNCHANGED <<plan, live, pub, pace, frames, now, dropped>>

\* A tick of run_turn_liveness: nothing is emitted once closed; the lock is held
\* until the emit is over.
run_turn_liveness(t) ==
  /\ turn[t].n > 1 /\ ~live[t].aborted /\ live[t].emit = "no" /\ live[t].pings < plan.pings
  /\ ~live[t].closed
  /\ live' = [live EXCEPT ![t] = [TakeSeq(@, Event(t, "turn_liveness", 0)) EXCEPT
                !.locked = TRUE, !.pings = @ + 1]]
  /\ bus' = [bus EXCEPT !.seq = @ + 1]
  /\ UNCHANGED <<plan, turn, pub, pace, frames, now, dropped>>

emit(t) ==
  /\ turn[t].emit # "no"
  /\ bus' = Progressed(bus, turn[t]) /\ turn' = [turn EXCEPT ![t] = Advanced(@)]
  /\ dropped' = dropped \cup Lost(turn[t])
  /\ UNCHANGED <<plan, live, pub, pace, frames, now>>
emit_liveness(t) ==
  /\ live[t].emit # "no"
  /\ bus' = Progressed(bus, live[t])
  /\ live' = [live EXCEPT ![t] = [Advanced(@) EXCEPT !.locked = live[t].emit = "push"]]
  /\ dropped' = dropped \cup Lost(live[t])
  /\ UNCHANGED <<plan, turn, pub, pace, frames, now>>
-----------------------------------------------------------------------------
(***************************************************************************)
(* ObserverChunkCoalescer: p is the pending list.                          *)
(***************************************************************************)
SameKey(a, b) == a.turn = b.turn /\ a.kind = b.kind
\* ingest: what is left pending and what is to be published.
\* Mutant: an event that is no chunk does not push out the chunks before it.
Ingested_NoFlush(p, ev) ==
  LET i == SelectInSeq(p, LAMBDA e : SameKey(e, ev))
  IN  CASE ev.kind \notin Chunks -> [pending |-> p, out |-> <<ev>>]
        [] i = 0 -> [pending |-> Append(p, ev), out |-> <<>>]
        [] Len(p[i].text) + Len(ev.text) >= MaxText -> [pending |-> <<ev>>, out |-> p]
        [] OTHER -> [pending |-> [p EXCEPT ![i].text = @ \o ev.text, ![i].seq = ev.seq], out |-> <<>>]
\* Mutant: a text that would grow too long is not pushed out first.
Ingested_Replaces(p, ev) ==
  LET i == SelectInSeq(p, LAMBDA e : SameKey(e, ev))
  IN  CASE ev.kind \notin Chunks -> [pending |-> <<>>, out |-> Append(p, ev)]
        [] i = 0 -> [pending |-> Append(p, ev), out |-> <<>>]
        [] Len(p[i].text) + Len(ev.text) >= MaxText -> [pending |-> [p EXCEPT ![i] = ev], out |-> <<>>]
        [] OTHER -> [pending |-> [p EXCEPT ![i].text = @ \o ev.text, ![i].seq = ev.seq], out |-> <<>>]
Ingested(p, ev) ==
  LET i == SelectInSeq(p, LAMBDA e : SameKey(e, ev))
  IN  CASE ev.kind \notin Chunks -> [pending |-> <<>>, out |-> Append(p, ev)]
        [] i = 0 -> [pending |-> Append(p, ev), out |-> <<>>]
        [] Len(p[i].text) + Len(ev.text) >= MaxText -> [pending |-> <<ev>>, out |-> p]
        [] OTHER -> [pending |-> [p EXCEPT ![i].text = @ \o ev.text, ![i].seq = ev.seq], out |-> <<>>]
-----------------------------------------------------------------------------
(***************************************************************************)
(* The publisher task.                                                     *)
(***************************************************************************)
Publisher(p) == pub' = p /\ UNCHANGED <<plan, turn, live, pace, frames, now, dropped>>
Seqs(q) == {e.seq : e \in ToSet(q)}
\* The events that have their number and have not reached the buffer yet.
InFlight == {e.ev : e \in {x \in {turn[t] : t \in Turns} \cup {live[t] : t \in Turns} : x.emit = "push"}}

subscribe ==
  /\ pub.pc = "start"
  /\ bus' = [bus EXCEPT !.open = TRUE]
  /\ Publisher([pub EXCEPT !.pc = "subscribed"])
\* What fell out of the buffer before is gone.
snapshot ==
  /\ pub.pc = "subscribed"
  /\ pub' = [pub EXCEPT !.pc = "replay", !.todo = bus.buffer, !.racing = InFlight,
               !.max = IF bus.buffer = <<>> THEN 0
                       ELSE CHOOSE m \in Seqs(bus.buffer) : \A s \in Seqs(bus.buffer) : s <= m]
  /\ UNCHANGED <<plan, bus, turn, live, pace, frames, now, dropped>>
Free == pub.out = <<>>
replay ==
  /\ pub.pc = "replay" /\ Free
  /\ IF pub.todo = <<>> THEN Publisher([pub EXCEPT !.pc = "live"])
     ELSE LET r == Ingested(pub.pending, Head(pub.todo))
          IN  Publisher([pub EXCEPT !.todo = Tail(@), !.pending = r.pending, !.out = r.out])
  /\ UNCHANGED bus
\* rx.recv(): an event that came with the snapshot is passed over.
\* Mutant: it is not.
Replayed_Never(ev) == FALSE
Replayed(ev) == ev.seq <= pub.max
recv ==
  /\ pub.pc = "live" /\ Free /\ ~bus.lagged /\ bus.queue # <<>>
  /\ LET ev == Head(bus.queue)
         r == IF Replayed(ev) THEN [pending |-> pub.pending, out |-> <<>>] ELSE Ingested(pub.pending, ev)
     IN  Publisher([pub EXCEPT !.pending = r.pending, !.out = r.out])
  /\ bus' = [bus EXCEPT !.queue = Tail(@)]
recv_lagged ==
  /\ pub.pc = "live" /\ Free /\ bus.lagged
  /\ bus' = [bus EXCEPT !.lagged = FALSE]
  /\ Publisher([pub EXCEPT !.pending = <<>>, !.out = pub.pending])
flush_tick ==
  /\ pub.pc = "live" /\ Free /\ pub.pending # <<>>
  /\ Publisher([pub EXCEPT !.pending = <<>>, !.out = pub.pending])
  /\ UNCHANGED bus

\* ObserverPublishPacer::wait: the slots still inside the window, and whether the
\* next one is free.  In plans without a clock a slot may come free at any time.
Recent == SelectSeq(pace.sent, LAMBDA at : now - at < Window)
\* Mutant: the window admits one more.
SlotFree_OneMore == plan.clock => now >= pace.next /\ Len(Recent) <= Limit
SlotFree == plan.clock => now >= pace.next /\ Len(Recent) < Limit
publish_relay_observer_event ==
  /\ pub.out # <<>> /\ SlotFree
  /\ pace' = IF plan.clock THEN [next |-> now + Interval, sent |-> Append(Recent, now)] ELSE pace
  /\ \/ frames' = Append(frames, [ev |-> Head(pub.out), at |-> now]) /\ UNCHANGED dropped
     \/ /\ Cardinality(dropped) < plan.drops
        /\ dropped' = dropped \cup {Head(pub.out).seq} /\ UNCHANGED frames
  /\ pub' = [pub EXCEPT !.out = Tail(@)]
  /\ UNCHANGED <<plan, bus, turn, live, now>>
tick ==
  /\ plan.clock /\ now < MaxTime
  /\ now' = now + 1
  /\ UNCHANGED <<plan, bus, turn, live, pub, pace, frames, dropped>>

Next ==
  \/ \E t \in Turns : \/ run_prompt_task(t) \/ drop_liveness_guard(t) \/ drop_completion_guard(t)
                      \/ run_turn_liveness(t) \/ emit(t) \/ emit_liveness(t)
  \/ subscribe \/ snapshot \/ replay \/ recv \/ recv_lagged \/ flush_tick
  \/ publish_relay_observer_event \/ tick
-----------------------------------------------------------------------------
\* What the owner was shown of a turn: the positions in its script, frame by frame.
Shown(t, kinds) ==
  FlattenSeq([i \in DOMAIN frames |->
                IF frames[i].ev.turn = t /\ frames[i].ev.kind \in kinds THEN frames[i].ev.text ELSE <<>>])
Increasing(s) == \A i, j \in DOMAIN s : i < j => s[i] < s[j]

\* The owner reads every turn in the order it happened: the text of a stream in the
\* order it was written and no piece twice, whatever was joined, replayed from the
\* buffer and received live again; and no tool call or end of turn before or after
\* text it came after or before.
InOrder ==
  \A t \in Turns, k \in Chunks :
    Increasing(Shown(t, {k} \cup {"turn_started", "tool", "turn_completed"}))

\* No sign of life of a turn reaches the owner after the frame that says the turn
\* is over.
NoLifeAfterEnd ==
  \A i, j \in DOMAIN frames :
    i < j /\ frames[i].ev.turn = frames[j].ev.turn /\ frames[i].ev.kind = "turn_completed"
      => frames[j].ev.kind # "turn_liveness"

\* The event was between its number and the buffer when the publisher took its
\* snapshot, and the snapshot held a later one: it is in neither the snapshot nor
\* above max_snapshot_seq when it comes.
Overtaken(t, n) == \E e \in pub.racing : e.turn = t /\ Contains(e.text, n) /\ e.seq < pub.max

\* Whenever the publisher has nothing left to do, and neither the buffer nor the
\* channel ran over nor a publish failed, every event a turn emitted has been shown:
\* those before the snapshot, those received since, and those that raced with it,
\* except the ones a later event overtook into the snapshot (lib.rs, the check
\* against max_snapshot_seq, passes over them).
NothingForgotten ==
  /\ pub.pc = "live" /\ Free /\ pub.pending = <<>> /\ bus.queue = <<>> /\ ~bus.lagged
  /\ dropped = {} /\ bus.seq <= BufferCap + 1
  => \A t \in Turns :
       turn[t].emit = "no" =>
         \A n \in 1..(turn[t].n - 1) : ~Overtaken(t, n) => \E i \in DOMAIN frames : frames[i].ev.turn = t /\ Contains(frames[i].ev.text, n)

\* Never more than Limit frames in any window, never two closer than the interval.
PaceKept ==
  plan.clock =>
  /\ \A i \in DOMAIN frames : i > 1 => frames[i].at - frames[i - 1].at >= Interval
  /\ \A i \in DOMAIN frames : i > Limit => frames[i].at - frames[i - Limit].at >= Window
=============================================================================
