----------------------------- MODULE PairRelay -----------------------------
(***************************************************************************)
(* The pairing sidecar (crates/buzz-pair-relay/src/lib.rs): connections in *)
(* a bounded number of slots, at most one live subscriber per #p, events   *)
(* checked, reserved by id and handed to the subscriber's channel.  A      *)
(* connection is a task and a writer; what they share is under three locks *)
(* and an atomic counter, so an event takes three steps.                   *)
(***************************************************************************)
EXTENDS Integers, Sequences, FiniteSets

CONSTANTS Scenarios,   \* records [frames: what each connection may send, max, time]
          MaxConns, ChannelCap, MaxEvents, MaxPerP, DedupCap, MapCap,
          Ttl, Freshness, RateWindow, RateMsgMax, RateEventMax

VARIABLES plan, now,
          count,       \* conn_count
          conns,       \* each connection's task, writer channel and counters
          subs,        \* the live subscriptions
          seen,        \* seen_ids
          delivered,   \* per #p: how many, and when the last
          handed       \* how often each event was handed to a subscriber

vars == <<plan, now, count, conns, subs, seen, delivered, handed>>

\* Frames are records [op, id, p, at, ok]: ok says whether the checks of its
\* shape (and, for an event, of its signature) succeed.
Conns == DOMAIN plan.frames
Ids == {f.id : f \in UNION {plan.frames[c] : c \in Conns}}
Nobody == "none"
Rate == [n |-> 0, since |-> now]
Fresh == [pc |-> "none", sub |-> Nobody, tries |-> 0, frames |-> 0, msgs |-> Rate, events |-> Rate,
          out |-> <<>>, event |-> "none", p |-> "none"]
Empty == [x \in {} |-> 0]

Init ==
  /\ plan \in Scenarios /\ now = 1 /\ count = 0
  /\ conns = [c \in Conns |-> Fresh]
  /\ subs = {} /\ seen = Empty /\ delivered = Empty
  /\ handed = [i \in Ids |-> 0]

Tick ==
  /\ now < plan.time /\ now' = now + 1
  /\ UNCHANGED <<plan, count, conns, subs, seen, delivered, handed>>

Conn(c, conn) == conns' = [conns EXCEPT ![c] = conn]
\* try_send: a full channel drops the message.
Send(conn, item) == IF Len(conn.out) < ChannelCap THEN [conn EXCEPT !.out = Append(@, item)] ELSE conn
-----------------------------------------------------------------------------
(***************************************************************************)
(* http_service: a slot is taken before the upgrade and given back when it *)
(* is refused, when the upgrade fails, or by the connection's guard.       *)
(***************************************************************************)
connect(c) ==
  /\ conns[c].pc = "none"
  /\ count' = count + 1
  /\ Conn(c, [conns[c] EXCEPT !.pc = IF count >= MaxConns THEN "refused" ELSE "upgrading"])
  /\ UNCHANGED <<plan, now, subs, seen, delivered, handed>>
refuse(c) ==
  /\ conns[c].pc = "refused"
  /\ count' = count - 1
  /\ Conn(c, [conns[c] EXCEPT !.pc = "gone"])
  /\ UNCHANGED <<plan, now, subs, seen, delivered, handed>>
\* Mutant: a failed upgrade keeps its slot.
upgrade_fails_Leaks(c) ==
  /\ conns[c].pc = "upgrading"
  /\ count' = count
  /\ Conn(c, [conns[c] EXCEPT !.pc = "gone"])
  /\ UNCHANGED <<plan, now, subs, seen, delivered, handed>>
upgrade_fails(c) ==
  /\ conns[c].pc = "upgrading"
  /\ count' = count - 1
  /\ Conn(c, [conns[c] EXCEPT !.pc = "gone"])
  /\ UNCHANGED <<plan, now, subs, seen, delivered, handed>>
upgrade(c) ==
  /\ conns[c].pc = "upgrading"
  /\ Conn(c, [Fresh EXCEPT !.pc = "open"])
  /\ UNCHANGED <<plan, now, count, subs, seen, delivered, handed>>

\* The loop ends (its deadline, the client, a dead writer, a refused frame): the
\* subscription goes, then the guard gives the slot back.
break_conn(c) ==
  /\ conns[c].pc = "open" /\ conns[c].event = "none"
  /\ subs' = {s \in subs : s.conn # c}
  /\ Conn(c, [conns[c] EXCEPT !.pc = "closing", !.out = <<>>])
  /\ UNCHANGED <<plan, now, count, seen, delivered, handed>>
ConnGuard_drop(c) ==
  /\ conns[c].pc = "closing"
  /\ subs' = {s \in subs : s.conn # c}
  /\ count' = count - 1
  /\ Conn(c, [conns[c] EXCEPT !.pc = "gone"])
  /\ UNCHANGED <<plan, now, seen, delivered, handed>>

\* writer_task takes a message off the channel.
writer_task(c) ==
  /\ conns[c].pc = "open" /\ conns[c].out # <<>>
  /\ Conn(c, [conns[c] EXCEPT !.out = Tail(@)])
  /\ UNCHANGED <<plan, now, count, subs, seen, delivered, handed>>
-----------------------------------------------------------------------------
(***************************************************************************)
(* handle_conn: one frame at a time.                                       *)
(***************************************************************************)
tick(rate) ==
  IF now - rate.since >= RateWindow THEN [n |-> 1, since |-> now] ELSE [rate EXCEPT !.n = @ + 1]

\* The connection as the frame finds it, counted; too many close it.
Received(c) == [conns[c] EXCEPT !.frames = @ + 1, !.msgs = tick(@)]
Takes(c, f) ==
  /\ conns[c].pc = "open" /\ conns[c].event = "none"
  /\ conns[c].frames < plan.max
Closes(conn) == [conn EXCEPT !.pc = "closing", !.out = <<>>]
Limited(conn) == conn.msgs.n > RateMsgMax

\* A reply that may be dropped, and nothing else.
Reply(c, conn, item) ==
  /\ Conn(c, Send(conn, item))
  /\ UNCHANGED <<plan, now, count, subs, seen, delivered, handed>>
Close(c, conn) ==
  /\ Conn(c, Closes(conn))
  /\ subs' = {s \in subs : s.conn # c}
  /\ UNCHANGED <<plan, now, count, seen, delivered, handed>>

\* REQ: the #p has no live subscriber and EOSE fits, both under the lock that
\* registers the subscription.
\* Mutant: the #p's other subscribers are not looked at.
Subscribed_Any(p) == FALSE
Subscribed(p) == \E s \in subs : s.p = p
frame_req(c, f) ==
  /\ Takes(c, f) /\ f.op = "REQ"
  /\ LET conn == Received(c)
     IN  IF Limited(conn) THEN Close(c, conn)
         ELSE IF ~f.ok \/ conn.sub # Nobody \/ Subscribed(f.p) THEN Reply(c, conn, "CLOSED")
         ELSE IF Len(conn.out) = ChannelCap THEN Close(c, conn)
         ELSE /\ Conn(c, [Send(conn, "EOSE") EXCEPT !.sub = f.p])
              /\ subs' = subs \cup {[conn |-> c, p |-> f.p]}
              /\ UNCHANGED <<plan, now, count, seen, delivered, handed>>

frame_close(c, f) ==
  /\ Takes(c, f) /\ f.op = "CLOSE"
  /\ LET conn == Received(c)
     IN  IF Limited(conn) THEN Close(c, conn)
         ELSE IF ~f.ok THEN Reply(c, conn, "NOTICE")
         ELSE /\ Conn(c, [conn EXCEPT !.sub = Nobody])
              /\ subs' = {s \in subs : s.conn # c}
              /\ UNCHANGED <<plan, now, count, seen, delivered, handed>>

\* Anything else: a ping is answered or ends the connection, text that is not a
\* known message is answered with a notice, binary data ends the connection.
frame_other(c, f) ==
  /\ Takes(c, f) /\ f.op \in {"PING", "TEXT", "BINARY"}
  /\ LET conn == Received(c)
     IN  IF Limited(conn) \/ f.op = "BINARY" \/ (f.op = "PING" /\ Len(conn.out) = ChannelCap)
         THEN Close(c, conn) ELSE Reply(c, conn, "NOTICE")

\* validate_event and verify_event_sig.
validate_event(f) == f.ok /\ f.at - now <= Freshness /\ now - f.at <= Freshness

\* reserve_id, under its lock: expired ids go first.
\* Mutant: an id is kept only as long as an event made now would stay fresh.
Unexpired_OneWindow == {i \in DOMAIN seen : now - seen[i] <= Freshness}
Unexpired == {i \in DOMAIN seen : now - seen[i] < Ttl}

frame_event(c, f) ==
  /\ Takes(c, f) /\ f.op = "EVENT"
  /\ LET conn == [Received(c) EXCEPT !.events = tick(@)]
         tried == [conn EXCEPT !.tries = @ + 1]
     IN  IF Limited(conn) THEN Close(c, conn)
         ELSE IF conn.events.n > RateEventMax \/ conn.tries >= MaxEvents \/ ~validate_event(f)
              THEN Reply(c, conn, "FALSE")
         ELSE /\ IF f.id \in Unexpired \/ Cardinality(Unexpired) >= DedupCap
                 THEN /\ Conn(c, Send(tried, "FALSE"))
                      /\ seen' = [i \in Unexpired |-> seen[i]]
                 ELSE /\ Conn(c, [tried EXCEPT !.event = f.id, !.p = f.p])
                      /\ seen' = [i \in Unexpired \cup {f.id} |-> IF i = f.id THEN now ELSE seen[i]]
              /\ UNCHANGED <<plan, now, count, subs, delivered, handed>>

\* deliver_single, under the locks of the subscriptions and of the budgets.
Live == {p \in DOMAIN delivered : now - delivered[p].at < Ttl}
Budget(p) == IF p \in Live THEN delivered[p].n ELSE 0
Takers(p) == {s \in subs : s.p = p}
Deliverable(p) ==
  /\ Cardinality(Takers(p)) = 1 /\ Budget(p) < MaxPerP
  /\ p \in Live \/ Cardinality(Live) < MapCap
  /\ \A s \in Takers(p) : Len(conns[s.conn].out) < ChannelCap
deliver_single(c) ==
  /\ conns[c].pc = "open" /\ conns[c].event \notin {"none", "undo"}
  /\ LET e == conns[c].event
         p == conns[c].p
     IN  IF Deliverable(p)
         THEN /\ \E s \in Takers(p) :
                   LET got == [conns EXCEPT ![s.conn] = Send(@, "EVENT")]
                   IN  conns' = [got EXCEPT ![c] = Send([@ EXCEPT !.event = "none"], "TRUE")]
              /\ delivered' = [q \in Live \cup {p} |->
                                 IF q = p THEN [n |-> Budget(p) + 1, at |-> now] ELSE delivered[q]]
              /\ handed' = [handed EXCEPT ![e] = @ + 1]
              /\ UNCHANGED seen
         ELSE /\ Conn(c, [conns[c] EXCEPT !.event = "undo", !.p = e])
              /\ delivered' = IF Cardinality(Takers(p)) = 1 THEN [q \in Live |-> delivered[q]] ELSE delivered
              /\ UNCHANGED <<seen, handed>>
  /\ UNCHANGED <<plan, now, count, subs>>
unreserve_id(c) ==
  /\ conns[c].event = "undo"
  /\ seen' = [i \in DOMAIN seen \ {conns[c].p} |-> seen[i]]
  /\ Conn(c, Send([conns[c] EXCEPT !.event = "none"], "FALSE"))
  /\ UNCHANGED <<plan, now, count, subs, delivered, handed>>

Frame(c) ==
  \E f \in plan.frames[c] : frame_req(c, f) \/ frame_close(c, f) \/ frame_other(c, f) \/ frame_event(c, f)
Connection(c) ==
  \/ connect(c) \/ refuse(c) \/ upgrade(c) \/ upgrade_fails(c)
  \/ Frame(c) \/ deliver_single(c) \/ unreserve_id(c)
  \/ writer_task(c) \/ break_conn(c) \/ ConnGuard_drop(c)
Next == Tick \/ \E c \in Conns : Connection(c)

Spec == Init /\ [][Next]_vars
-----------------------------------------------------------------------------
\* No event is handed over twice, however often and through however many
\* connections it is published: an id outlives the freshness of its event, also
\* of one dated in the future ("duplicate event IDs are rejected").
PairOnce == \A i \in Ids : handed[i] <= 1

\* deliver_single's answer "ambiguous recipient" is never given, and only open
\* connections that have not closed their subscription receive.
OneSubscriber ==
  /\ \A s, t \in subs : s.p = t.p => s = t
  /\ \A s \in subs : conns[s.conn].pc = "open" /\ conns[s.conn].sub = s.p

\* Every slot is given back exactly once, and no more connections are open than
\* there are slots.
SlotsReturned ==
  /\ count = Cardinality({c \in Conns : conns[c].pc \in {"refused", "upgrading", "open", "closing"}})
  /\ Cardinality({c \in Conns : conns[c].pc \in {"upgrading", "open", "closing"}}) <= MaxConns

\* The three together: no event twice, one subscriber for a #p, every slot given
\* back (handle_conn, deliver_single and ConnGuard of crates/buzz-pair-relay).
PairRelayExact == PairOnce /\ OneSubscriber /\ SlotsReturned
-----------------------------------------------------------------------------
(***************************************************************************)
(* What the relay's constants and its clients' frames are: an id is kept   *)
(* for longer than an event can stay fresh from its earliest acceptance    *)
(* (ENTRY_TTL is 300 seconds, FRESHNESS_SECS 120), an id is the hash of    *)
(* its event, and a #p is never the absence of one.                        *)
(***************************************************************************)
FramesFit(s) ==
  /\ IsFiniteSet(DOMAIN s.frames)
  /\ \A c, d \in DOMAIN s.frames : \A f \in s.frames[c], g \in s.frames[d] :
       f.op = "EVENT" /\ g.op = "EVENT" /\ f.id = g.id => f.at = g.at
  /\ \A c \in DOMAIN s.frames : \A f \in s.frames[c] :
       f.at \in Int /\ f.id \notin {"none", "undo"} /\ (f.op = "REQ" /\ f.ok => f.p # Nobody)
ConstantsFit ==
  /\ MaxConns \in Nat /\ Ttl \in Nat /\ Freshness \in Nat /\ 2 * Freshness < Ttl
  /\ \A s \in Scenarios : FramesFit(s)
=============================================================================
