----------------------------- MODULE EventQueue -----------------------------
(***************************************************************************)
(* The per-channel event queue of the agent harness (buzz-acp queue.rs),   *)
(* as operators: one record holds what the maps of EventQueue say about a  *)
(* channel, and every method is an operator from a record to a record.     *)
(* Events are numbered by arrival, so that the number stands for           *)
(* received_at.  Times are abstract: an in-flight deadline has passed or   *)
(* not (overdue), a retry throttle is absent, active or past.              *)
(*                                                                         *)
(* The fields evicted and forgotten belong to no map of the code: they     *)
(* record the events that a size cap removed, and the events of a batch's  *)
(* cancelled part that a requeue does not put back.                        *)
(***************************************************************************)
EXTENDS Naturals, Sequences, FiniteSets

CONSTANTS Channels,     \* channel ids
          MaxEvents,    \* events are the numbers 1..MaxEvents
          Created,      \* created_at of each event
          MaxPending,   \* MAX_PENDING_PER_CHANNEL
          MaxBatch,     \* MAX_BATCH_EVENTS
          MaxRetries,   \* MAX_RETRIES
          DropMode      \* DedupMode::Drop

Events == 1..MaxEvents

ASSUME QueueAssumption ==
  /\ MaxEvents \in Nat /\ MaxPending \in Nat \ {0} /\ MaxBatch \in Nat
  /\ Created \in [Events -> Nat]

Elements(s) == {s[i] : i \in DOMAIN s}

\* EventQueue::new: what the maps say about a channel without entries.
EmptyChannel ==
  [queue |-> <<>>, inflight |-> FALSE, overdue |-> FALSE, throttle |-> "none",
   retries |-> 0, cancelled |-> <<>>, reason |-> "none", withheld |-> <<>>,
   evicted |-> {}, forgotten |-> {}]

NewBatch(events, cancelled, reason) ==
  [events |-> events, cancelled |-> cancelled, reason |-> reason]

\* Stable sort: events of the same second keep their delivery order.  The place
\* of an event in the result is the number of events before it.
SortByCreated(s) ==
  LET Before(i) == {j \in DOMAIN s : \/ Created[s[j]] < Created[s[i]]
                                     \/ Created[s[j]] = Created[s[i]] /\ j < i}
  IN  [k \in DOMAIN s |-> s[CHOOSE i \in DOMAIN s : Cardinality(Before(i)) = k - 1]]

Refused(c) == DropMode /\ c.inflight

\* push: a full queue loses its oldest event.
push(c, e) ==
  IF Refused(c) THEN c
  ELSE IF Len(c.queue) >= MaxPending
       THEN [c EXCEPT !.queue = Append(Tail(@), e), !.evicted = @ \cup {Head(c.queue)}]
       ELSE [c EXCEPT !.queue = Append(@, e)]

\* Every operation that puts events back at the front trims the back.
PutBack(c, events) ==
  LET all == events \o c.queue
      n   == IF Len(all) > MaxPending THEN MaxPending ELSE Len(all)
  IN  [c EXCEPT !.queue = SubSeq(all, 1, n),
                !.evicted = @ \cup Elements(SubSeq(all, n + 1, Len(all)))]

recover_withheld(c) == [PutBack(c, c.withheld) EXCEPT !.withheld = <<>>]

\* The expiry block shared by flush_next and has_flushable_work.
Expire(c) ==
  IF c.inflight /\ c.overdue
  THEN [recover_withheld(c) EXCEPT !.inflight = FALSE, !.overdue = FALSE]
  ELSE c

Ready_AnyChannel(c) == c.queue # <<>> /\ c.throttle # "active"
Ready(c) == c.queue # <<>> /\ ~c.inflight /\ c.throttle # "active"

HasCancelled(c) == c.cancelled # <<>> /\ ~c.inflight

\* flush_next picks the channel whose head was received first; without one,
\* any channel with a cancelled batch (the order of a HashMap).
FlushCandidates(q) ==
  LET ready == {ch \in Channels : Ready(q[ch])}
  IN  IF ready # {}
      THEN {ch \in ready : \A o \in ready : Head(q[ch].queue) <= Head(q[o].queue)}
      ELSE {ch \in Channels : HasCancelled(q[ch])}

FlushedBatch(c) ==
  IF Ready(c)
  THEN LET n == IF Len(c.queue) < MaxBatch THEN Len(c.queue) ELSE MaxBatch
       IN  NewBatch(SortByCreated(SubSeq(c.queue, 1, n)), c.cancelled,
                    IF c.cancelled = <<>> THEN "none" ELSE c.reason)
  ELSE NewBatch(c.cancelled, <<>>, c.reason)

Flushed(c) ==
  [c EXCEPT !.queue = IF Ready(c)
                      THEN SubSeq(@, Len(FlushedBatch(c).events) + 1, Len(@)) ELSE @,
            !.inflight = TRUE, !.overdue = FALSE, !.cancelled = <<>>, !.reason = "none"]

\* mark_complete: an active throttle means that the batch was requeued.
mark_complete(c) ==
  LET done == [c EXCEPT !.inflight = FALSE, !.overdue = FALSE]
  IN  IF c.throttle = "active" THEN done
      ELSE [done EXCEPT !.throttle = "none", !.retries = 0]

Exhausted(c) == c.retries + 1 > MaxRetries

\* requeue: only batch.events go back to the queue.
requeue(c, batch) ==
  IF Exhausted(c)
  THEN [c EXCEPT !.retries = 0, !.throttle = "none"]
  ELSE [PutBack(c, batch.events) EXCEPT
          !.retries = @ + 1, !.throttle = "active",
          !.forgotten = @ \cup Elements(batch.cancelled)]

requeue_preserve_timestamps(c, batch) ==
  [PutBack(c, batch.events) EXCEPT !.forgotten = @ \cup Elements(batch.cancelled)]

requeue_as_cancelled(c, batch) ==
  [c EXCEPT !.cancelled = @ \o batch.cancelled \o batch.events,
            !.reason = batch.reason]

HasFlushableWork(q) == \E ch \in Channels : Ready(q[ch]) \/ HasCancelled(q[ch])

\* drain_channel: everything but the in-flight entry and its deadline.
drain_channel(c) ==
  [EmptyChannel EXCEPT !.inflight = c.inflight, !.overdue = c.overdue,
                       !.evicted = c.evicted, !.forgotten = c.forgotten]

Drained(c) == Elements(c.queue) \cup Elements(c.cancelled) \cup Elements(c.withheld)

\* An event is at most once in a queue: remove at its position, and retain
\* of the others, are the same.
Without(s, e) ==
  LET i == CHOOSE i \in DOMAIN s : s[i] = e
  IN  IF e \in Elements(s) THEN SubSeq(s, 1, i - 1) \o SubSeq(s, i + 1, Len(s)) ELSE s

mark_native_steer_pending(c, e) ==
  IF e \in Elements(c.queue)
  THEN [c EXCEPT !.queue = Without(@, e), !.withheld = Append(@, e)]
  ELSE c

release_native_steer_Drops(c, e) == [c EXCEPT !.withheld = Without(@, e)]
release_native_steer(c, e) ==
  IF e \in Elements(c.withheld)
  THEN [PutBack(c, <<e>>) EXCEPT !.withheld = Without(@, e)]
  ELSE c

remove_event(c, e) ==
  [c EXCEPT !.queue = Without(@, e), !.withheld = Without(@, e)]

\* extend_in_flight_deadline: no deadline, nothing to extend.
extend_in_flight_deadline(c) == [c EXCEPT !.overdue = FALSE]

compact_expired_state(c) ==
  LET kept == [c EXCEPT !.throttle = IF @ = "past" THEN "none" ELSE @]
  IN  IF kept.throttle = "none" /\ c.queue = <<>> /\ ~c.inflight
      THEN [kept EXCEPT !.retries = 0] ELSE kept
=============================================================================
