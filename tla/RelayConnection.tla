-------------------------- MODULE RelayConnection --------------------------
(***************************************************************************)
(* The relay connection of the ACP harness (crates/buzz-acp/src/relay.rs): *)
(* the background task with its command and event channels, the socket,    *)
(* the relay at its other end, and the harness that consumes the events.   *)
(* The relay is known from how the code uses it: it registers, rejects or  *)
(* closes subscriptions, replays stored events in any order, and loses     *)
(* what is on the wire when the socket dies.  A send that fails means a    *)
(* dead socket; a send on a dead socket may also succeed without effect.   *)
(* bg is BgState, what the task remembers across connections: a channel    *)
(* has a filter exactly while it is in active_subscriptions, so the filter *)
(* table is left out.  Timestamps are positive; NoTime is no timestamp.    *)
(***************************************************************************)
EXTENDS Naturals, Sequences, SequencesExt, FiniteSets, FiniteSetsExt

CONSTANTS Channels,    \* channel subscriptions
          Watermark,   \* startup_watermark
          Skew,        \* SINCE_SKEW_SECS
          SeenLimit,   \* SEEN_ID_LIMIT
          ObserverCap, \* GATED_OBSERVER_QUEUE_CAP
          EventCap,    \* capacity of the event channel
          FlipsToPrivate,\* access may be revoked without a notification
          MaxEvents, MaxTime, \* bounds on the relay's events and their created_at
          Workloads    \* bounds: [events, talk, frames, faults]; talk: messages among the events

VARIABLES bg,       \* BgState
          pc,       \* "start", "loop", "resub", "drain", "down", "exit"
          attempt,  \* failed initial connects
          fresh,    \* resubscribe on a new socket; afterwards: the second drain
          todo,     \* subscriptions the resubscribe pass still has to send
          cmds,     \* the command channel
          chan,     \* the event channel: events, or Lost
          sock,     \* "up", "dead": dead is found out by a read, a ping or a send
          live,     \* subscriptions registered at the relay for this socket
          wire,     \* what the relay sent and the task has not read
          stored,   \* the relay's events: messages and membership notifications
          member,   \* channels whose subscription the relay grants
          subscribed, newest, \* the harness's membership bookkeeping
          sent,     \* how often each event was put on the event channel
          frames,   \* observer frames: "new", "handed", "answered", "stranded"
          left      \* what remains of the workload's bounds

vars == <<bg, pc, attempt, fresh, todo, cmds, chan, sock, live, wire, stored, member,
          subscribed, newest, sent, frames, left>>

None == "none"
NoTime == 0
Membership == "membership-notif"
ObserverControl == "agent-observer-control"
Controls == {Membership, ObserverControl}
Subs == Channels \cup Controls

ASSUME RelayAssumption ==
  SeenLimit \in Nat /\ MaxEvents \in Nat /\ Channels \cap Controls = {}

EmptyState ==
  [active |-> {}, controls |-> {}, needs |-> {},
   last |-> [s \in Subs |-> IF s = Membership THEN Watermark ELSE NoTime],
   dropped |-> [s \in Subs |-> NoTime],
   floor |-> [s \in Subs |-> NoTime],
   current |-> {}, previous |-> {},
   gate |-> FALSE, pending |-> {}, retry |-> {}, proactive |-> FALSE,
   parked |-> <<>>, inflight |-> <<>>, evicted |-> {}]

-----------------------------------------------------------------------------
\* TwoGenDedup.

Seen(b, id) == id \in b.current \cup b.previous

\* insert of a new id: a full current generation becomes the previous one.
insert_ClearsBoth(b, id) ==
  IF Cardinality(b.current) + 1 >= SeenLimit \div 2
  THEN [b EXCEPT !.previous = {}, !.current = {}]
  ELSE [b EXCEPT !.current = @ \cup {id}]
insert(b, id) ==
  IF Cardinality(b.current \cup {id}) >= SeenLimit \div 2
  THEN [b EXCEPT !.previous = b.current \cup {id}, !.current = {}]
  ELSE [b EXCEPT !.current = @ \cup {id}]

remove(b, id) == [b EXCEPT !.current = @ \ {id}, !.previous = @ \ {id}]

-----------------------------------------------------------------------------
\* Replay watermarks.

Earliest(x, y) ==
  IF x = NoTime THEN y ELSE IF y = NoTime THEN x ELSE IF x < y THEN x ELSE y
Latest(x, y) == IF x = NoTime \/ (y # NoTime /\ x < y) THEN y ELSE x
Or(x, y) == IF x = NoTime THEN y ELSE x

record_event(b, s, ts) == [b EXCEPT !.last[s] = Latest(@, ts)]

\* channel_since, and the same choice for the membership subscription.
channel_since(b, s) ==
  Or(Earliest(b.last[s], b.dropped[s]), Or(b.floor[s], Watermark))

\* An event that the full event channel refused: forgotten by the dedup set
\* and remembered by its timestamp.
backpressure(b, s, id, ts) ==
  [remove(b, id) EXCEPT !.dropped[s] = Earliest(@, ts), !.proactive = TRUE]

clear_channel_state(b, ch) ==
  [b EXCEPT !.last[ch] = NoTime, !.floor[ch] = NoTime, !.dropped[ch] = NoTime,
            !.pending = @ \ {ch}, !.retry = @ \ {ch}]

\* Unsubscribe, and a CLOSED that denies access to one channel.
Forget(b, ch) == [clear_channel_state(b, ch) EXCEPT !.active = @ \ {ch}]

Seeded(b, ch, since) == [b EXCEPT !.floor[ch] = Or(@, Or(since, Watermark))]

-----------------------------------------------------------------------------
\* Observer telemetry: bounded drop-oldest queues that count what they evict.

Trim(s) == IF Len(s) > ObserverCap THEN SubSeq(s, Len(s) - ObserverCap + 1, Len(s)) ELSE s

park_gated_observer_frame(b, f) ==
  LET s == Append(b.parked, f)
  IN  [b EXCEPT !.parked = Trim(s), !.evicted = @ \cup (ToSet(s) \ ToSet(Trim(s)))]

requeue_observer_in_flight_Forgets(b) == [b EXCEPT !.inflight = <<>>]
requeue_observer_in_flight(b) ==
  LET s == b.inflight \o b.parked
  IN  [b EXCEPT !.inflight = <<>>, !.parked = Trim(s),
                !.evicted = @ \cup (ToSet(s) \ ToSet(Trim(s)))]

track_observer_in_flight(b, f) ==
  LET s == Append(b.inflight, f)
  IN  [b EXCEPT !.inflight = Trim(s), !.evicted = @ \cup (ToSet(s) \ ToSet(Trim(s)))]

acknowledge_observer_frame(b, f) == [b EXCEPT !.inflight = SelectSeq(@, LAMBDA x : x # f)]

-----------------------------------------------------------------------------
\* Commands while there is no socket: the intent is recorded.

apply_command_to_state(b, cmd) ==
  CASE cmd.op = "subscribe" ->
         [Seeded(b, cmd.arg, cmd.since) EXCEPT !.active = @ \cup {cmd.arg}]
    [] cmd.op = "unsubscribe" -> Forget(b, cmd.arg)
    [] cmd.op = "control"     -> [b EXCEPT !.controls = @ \cup {cmd.arg}]
    [] cmd.op = "publish"     -> park_gated_observer_frame(b, cmd.arg)
    [] OTHER -> b

\* The first n queued commands, in their order.
ApplyFirst(b, queued, n) ==
  LET after[k \in 0..n] ==
        IF k = 0 THEN b ELSE apply_command_to_state(after[k - 1], queued[k])
  IN  after[n]
ApplyAll(b, queued) == ApplyFirst(b, queued, Len(queued))

-----------------------------------------------------------------------------
\* The task, its channels and its socket.

Events == 1..MaxEvents
NoEvent == [what |-> "none", sub |-> None, ch |-> None, ts |-> NoTime]
Frames == 1..Max({w.frames : w \in Workloads})

\* The sentinel for a lost socket on the event channel.
Lost == 0

Cmd(op, arg) == [op |-> op, arg |-> arg, since |-> NoTime]
Msg(kind, sub, id) == [kind |-> kind, sub |-> sub, id |-> id, why |-> None]
Closed(sub, why) == [kind |-> "closed", sub |-> sub, id |-> 0, why |-> why]

Init ==
  /\ bg = EmptyState /\ pc = "start" /\ attempt = 0 /\ fresh = FALSE /\ todo = {}
  /\ \E order \in SetToSeqs({Cmd("subscribe", ch) : ch \in Channels}) :
       cmds = <<Cmd("control", Membership), Cmd("control", ObserverControl)>> \o order
  /\ chan = <<>> /\ sock = "dead" /\ live = {} /\ wire = <<>>
  /\ stored = [e \in Events |-> NoEvent] /\ member = Channels
  /\ subscribed = Channels /\ newest = [ch \in Channels |-> NoTime]
  /\ sent = [e \in Events |-> 0]
  /\ frames = [f \in Frames |-> "new"]
  /\ left \in Workloads

Fault == left.faults > 0 /\ left' = [left EXCEPT !.faults = @ - 1]

-----------------------------------------------------------------------------
\* Sending.

Stored == {e \in Events : stored[e] # NoEvent}

\* The stored events a REQ asks for; the relay replays them in any order.
Matching(s, since) ==
  {e \in Stored : stored[e].sub = s /\ stored[e].ts + Skew >= since}

Replays(s, since) ==
  {[i \in DOMAIN o |-> Msg("event", s, o[i])] : o \in SetToSeqs(Matching(s, since))}

\* A REQ that was written: registered with a replay, refused for a channel the
\* agent has no access to, or rejected.  On a dead socket nothing happens.
Granted(s) == s \in member \cup Controls

Requested(s, since, w) ==
  \/ /\ sock = "dead" /\ wire' = w /\ UNCHANGED <<live, left>>
  \/ /\ sock = "up" /\ ~Granted(s) /\ UNCHANGED left
     /\ live' = live \ {s} /\ wire' = Append(w, Closed(s, "denied"))
  \/ /\ sock = "up" /\ Granted(s) /\ UNCHANGED left
     /\ live' = live \cup {s}
     /\ \E r \in Replays(s, since) : wire' = w \o r
  \/ /\ sock = "up" /\ Granted(s) /\ Fault
     /\ \E why \in {"rate-limited", "error", "auth"} :
          /\ wire' = Append(w, Closed(s, why))
          /\ live' = IF why = "rate-limited" THEN live ELSE live \ {s}

SendFails == Fault /\ sock' = "dead" /\ live' = {} /\ wire' = <<>>

\* The sentinel for the caller: try_send, dropped when the channel is full.
Sentinel(c) == IF Len(c) < EventCap THEN Append(c, Lost) ELSE c

\* The socket is lost: try_autonomous_reconnect starts.
GoDown(b) ==
  /\ pc' = "down" /\ bg' = requeue_observer_in_flight(b)
  /\ chan' = Sentinel(chan)

-----------------------------------------------------------------------------
\* What a piece of code does on the socket, and the state it leaves: a set of
\* records, one per outcome.  ok says whether the send succeeded.

Io(do, sub, arg) == [do |-> do, sub |-> sub, arg |-> arg]
NoIo == Io("none", None, NoTime)
Fails == Io("fail", None, NoTime)
Done(b, io) == [b |-> b, io |-> io, ok |-> TRUE]
Failed(b) == [b |-> b, io |-> Fails, ok |-> FALSE]

\* The relay answers an EVENT frame with OK (accepted or not: the task does not
\* look), with one that rejects the authentication, or with a rate-limit NOTICE.
FrameWritten(f, w) ==
  \/ sock = "dead" /\ wire' = w /\ UNCHANGED left
  \/ sock = "up" /\ wire' = Append(w, Msg("ok", None, f)) /\ UNCHANGED left
  \/ /\ sock = "up" /\ Fault
     /\ \E kind \in {"noauth", "notice"} : wire' = Append(w, Msg(kind, None, f))

Answer(io, w) ==
  CASE io.do = "none"  -> wire' = w /\ UNCHANGED <<sock, live, left>>
    [] io.do = "req"   -> Requested(io.sub, io.arg, w) /\ UNCHANGED sock
    [] io.do = "frame" -> FrameWritten(io.arg, w) /\ UNCHANGED <<sock, live>>
    [] io.do = "close" -> live' = live \ {io.sub} /\ wire' = w /\ UNCHANGED <<sock, left>>
    [] OTHER           -> SendFails

Perform(io) == Answer(io, wire)

\* execute_connected_command.
SubscribeOutcomes(b, cmd) ==
  LET ch == cmd.arg
      b1 == Seeded(b, ch, cmd.since)
  IN  IF b.gate
      THEN {Done([apply_command_to_state(b, cmd) EXCEPT !.pending = @ \cup {ch}], NoIo)}
      ELSE {Done([b1 EXCEPT !.active = @ \cup {ch}, !.pending = @ \ {ch}, !.retry = @ \ {ch}],
                 Io("req", ch, Or(b1.last[ch], b1.floor[ch]))),
            Failed(apply_command_to_state(b1, cmd))}

ControlOutcomes(b, s) ==
  LET b1 == [b EXCEPT !.controls = @ \cup {s}]
  IN  IF b.gate THEN {Done([b1 EXCEPT !.needs = @ \cup {s}], NoIo)}
      ELSE {Done([b1 EXCEPT !.needs = @ \ {s}], Io("req", s, Or(b.last[s], Watermark))),
            Failed([b1 EXCEPT !.needs = @ \cup {s}])}

\* Publishing is best effort: a failed send is no reason to reconnect.
PublishOutcomes(b, f) ==
  IF b.gate \/ b.parked # <<>> THEN {Done(park_gated_observer_frame(b, f), NoIo)}
  ELSE {Done(track_observer_in_flight(b, f), Io("frame", None, f)),
        Done(park_gated_observer_frame(b, f), Fails)}

execute_connected_command(b, cmd) ==
  CASE cmd.op = "subscribe"   -> SubscribeOutcomes(b, cmd)
    [] cmd.op = "control"     -> ControlOutcomes(b, cmd.arg)
    [] cmd.op = "publish"     -> PublishOutcomes(b, cmd.arg)
    [] cmd.op = "unsubscribe" ->
         {Done(Forget(b, cmd.arg),
               IF cmd.arg \in b.active THEN Io("close", cmd.arg, NoTime) ELSE NoIo)}
    [] OTHER -> {Done(b, NoIo)}

-----------------------------------------------------------------------------
\* Connecting.

\* retry_initial_connect: one attempt and five retries; a terminal error ends
\* the harness at once.
Connect ==
  /\ pc = "start"
  /\ \/ /\ sock' = "up" /\ pc' = "loop" /\ UNCHANGED <<attempt, left>>
     \/ /\ Fault /\ UNCHANGED sock
        /\ \/ pc' = "exit" /\ UNCHANGED attempt
           \/ /\ attempt' = attempt + 1
              /\ pc' = IF attempt = 5 THEN "exit" ELSE "start"
  /\ UNCHANGED <<bg, fresh, todo, cmds, chan, live, wire, stored, member, subscribed, newest, sent, frames>>

\* try_autonomous_reconnect and wait_for_reconnect: do_connect succeeds, and
\* the resubscribe pass starts from the recorded intent.
Reconnected ==
  /\ pc = "down"
  /\ sock' = "up" /\ live' = {} /\ wire' = <<>>
  /\ bg' = [bg EXCEPT !.pending = {}, !.retry = {}]
  /\ pc' = "resub" /\ fresh' = TRUE /\ todo' = bg.active \cup bg.controls
  /\ UNCHANGED <<attempt, cmds, chan, stored, member, subscribed, newest, sent, frames, left>>

\* The back-off sleeps take commands as intent; a shutdown is not modelled.
CommandWhileDown ==
  /\ pc = "down" /\ cmds # <<>>
  /\ bg' = apply_command_to_state(bg, Head(cmds)) /\ cmds' = Tail(cmds)
  /\ UNCHANGED <<pc, attempt, fresh, todo, chan, sock, live, wire, stored, member, subscribed, newest, sent, frames, left>>

-----------------------------------------------------------------------------
\* resubscribe_after_reconnect: channels, then membership, then observer
\* control.  Commands that arrive during the pass wait for its end.

NextSubs ==
  IF todo \cap Channels # {} THEN todo \cap Channels
  ELSE IF Membership \in todo THEN {Membership} ELSE todo

\* The drop tracker is cleared when the REQ has been written.
Replayed(b, s) == [b EXCEPT !.dropped[s] = NoTime, !.needs = @ \ {s}]

ResubOutcomes(b, s) ==
  IF b.gate
  THEN {Done(IF s \in Channels THEN [b EXCEPT !.pending = @ \cup {s}]
             ELSE [b EXCEPT !.needs = @ \cup {s}], NoIo)}
  ELSE {Done(Replayed(b, s), Io("req", s, channel_since(b, s))),
        IF s \in Channels THEN Done([b EXCEPT !.retry = @ \cup {s}], Fails) ELSE Failed(b)}

\* A failed control REQ gives the connection up; the commands received during
\* the pass so far become intent.
Resubscribe ==
  /\ pc = "resub" /\ todo # {}
  /\ \E s \in NextSubs : \E o \in ResubOutcomes(bg, s) :
       /\ Perform(o.io)
       /\ IF o.ok
          THEN /\ bg' = o.b /\ todo' = todo \ {s} /\ UNCHANGED <<pc, cmds, chan>>
          ELSE \E n \in 0..Len(cmds) :
                 /\ cmds' = SubSeq(cmds, n + 1, Len(cmds)) /\ todo' = {} /\ pc' = "down"
                 /\ bg' = IF fresh THEN ApplyFirst(o.b, cmds, n)
                          ELSE requeue_observer_in_flight(ApplyFirst(o.b, cmds, n))
                 /\ chan' = IF fresh THEN chan ELSE Sentinel(chan)
  /\ UNCHANGED <<attempt, fresh, stored, member, subscribed, newest, sent, frames>>

ResubscribeDone ==
  /\ pc = "resub" /\ todo = {} /\ pc' = "drain"
  /\ UNCHANGED <<bg, attempt, fresh, todo, cmds, chan, sock, live, wire, stored, member, subscribed, newest, sent,
                 frames, left>>

\* The retry of a fresh connection does not requeue what its drain had written:
\* these frames wait for an answer on a socket that is gone.
Strand(b) == [f \in Frames |-> IF f \in ToSet(b.inflight) THEN "stranded" ELSE frames[f]]

\* drain_commands.  A failed send turns the rest of the commands into intent;
\* the pass then asks for another connection, unless it is the second drain
\* of a reconnect, whose failure the callers ignore.
Drain ==
  /\ pc = "drain" /\ cmds # <<>>
  /\ \E o \in execute_connected_command(bg, Head(cmds)) :
       /\ Perform(o.io)
       /\ IF o.ok
          THEN bg' = o.b /\ cmds' = Tail(cmds) /\ UNCHANGED <<pc, fresh, chan>>
          ELSE /\ cmds' = <<>>
               /\ \/ /\ pc' = "down" /\ UNCHANGED fresh
                     /\ bg' = IF fresh THEN ApplyAll(o.b, Tail(cmds))
                              ELSE requeue_observer_in_flight(ApplyAll(o.b, Tail(cmds)))
                     /\ chan' = IF fresh THEN chan ELSE Sentinel(chan)
                  \/ /\ fresh /\ pc' = "loop" /\ fresh' = FALSE /\ UNCHANGED chan
                     /\ bg' = ApplyAll(o.b, Tail(cmds))
       /\ frames' = IF ~o.ok /\ fresh /\ pc' = "down" THEN Strand(o.b) ELSE frames
  /\ UNCHANGED <<attempt, todo, stored, member, subscribed, newest, sent>>

DrainDone ==
  /\ pc = "drain" /\ cmds = <<>> /\ pc' = "loop" /\ fresh' = FALSE
  /\ UNCHANGED <<bg, attempt, todo, cmds, chan, sock, live, wire, stored, member, subscribed, newest, sent, frames, left>>

-----------------------------------------------------------------------------
\* run_background_task: the loop of a connected task.

InLoop == pc = "loop" /\ ~bg.proactive

\* Events were dropped: all subscriptions are renewed on the live socket.
ProactiveResubscribe ==
  /\ pc = "loop" /\ bg.proactive
  /\ bg' = [bg EXCEPT !.proactive = FALSE]
  /\ pc' = "resub" /\ fresh' = FALSE /\ todo' = bg.active \cup bg.controls
  /\ UNCHANGED <<attempt, cmds, chan, sock, live, wire, stored, member, subscribed, newest, sent, frames, left>>

\* One pacing tick with an open gate: a control subscription, else a parked
\* channel, else one of the failed resubscribes, else a parked frame.
PendingChannel(b, ch) ==
  IF ch \notin b.active
  THEN {Done([b EXCEPT !.pending = @ \ {ch}, !.retry = @ \ {ch}], NoIo)}
  ELSE {Done([b EXCEPT !.pending = @ \ {ch}, !.retry = @ \ {ch}, !.dropped[ch] = NoTime],
             Io("req", ch, channel_since(b, ch))),
        Done(b, Fails)}

DrainOutcomes(b) ==
  IF b.needs # {}
  THEN LET s == IF Membership \in b.needs THEN Membership ELSE ObserverControl
       IN  {Done(Replayed(b, s), Io("req", s, channel_since(b, s))), Done(b, Fails)}
  ELSE IF b.pending \cup b.retry # {}
  THEN UNION {PendingChannel(b, ch) :
                ch \in IF b.pending # {} THEN b.pending ELSE b.retry}
  ELSE IF b.parked # <<>>
  THEN {Done(track_observer_in_flight([b EXCEPT !.parked = Tail(@)], Head(b.parked)),
             Io("frame", None, Head(b.parked))),
        Done(b, Fails)}
  ELSE {}

PacingTick ==
  /\ InLoop /\ ~bg.gate
  /\ \E o \in DrainOutcomes(bg) : Perform(o.io) /\ bg' = o.b
  /\ UNCHANGED <<pc, attempt, fresh, todo, cmds, chan, stored, member, subscribed, newest, sent, frames>>

LoopCommand ==
  /\ InLoop /\ cmds # <<>> /\ cmds' = Tail(cmds)
  /\ IF Head(cmds).op = "reconnect"
     THEN /\ pc' = "down" /\ bg' = requeue_observer_in_flight(bg)
          /\ sock' = "dead" /\ live' = {} /\ wire' = <<>> /\ UNCHANGED <<chan, left>>
     ELSE \E o \in execute_connected_command(bg, Head(cmds)) :
            /\ Perform(o.io)
            /\ IF o.ok THEN bg' = o.b /\ UNCHANGED <<pc, chan>> ELSE GoDown(o.b)
  /\ UNCHANGED <<attempt, fresh, todo, stored, member, subscribed, newest, sent, frames>>

\* A read error, a missing pong or a failed ping.
LossDetected ==
  /\ InLoop /\ sock = "dead" /\ GoDown(bg)
  /\ UNCHANGED <<attempt, fresh, todo, cmds, sock, live, wire, stored, member, subscribed, newest, sent, frames, left>>

GateExpires ==
  /\ bg.gate /\ bg' = [bg EXCEPT !.gate = FALSE]
  /\ UNCHANGED <<pc, attempt, fresh, todo, cmds, chan, sock, live, wire, stored, member, subscribed, newest, sent,
                 frames, left>>

-----------------------------------------------------------------------------
\* handle_ws_message.

\* An event is forwarded once; a full channel un-sees it and asks for a replay.
\* A harness too slow for the channel counts as a fault: it bounds the replays.
HandleEvent(m) ==
  LET e == m.id
      b1 == insert(IF m.sub \in Channels THEN record_event(bg, m.sub, stored[e].ts) ELSE bg, e)
  IN  IF Seen(bg, e) THEN UNCHANGED <<bg, chan, sent, left>>
      ELSE IF Len(chan) < EventCap
      THEN /\ chan' = Append(chan, e) /\ sent' = [sent EXCEPT ![e] = @ + 1]
           /\ UNCHANGED left
           /\ bg' = IF m.sub = Membership THEN record_event(b1, m.sub, stored[e].ts) ELSE b1
      ELSE Fault /\ bg' = backpressure(b1, m.sub, e, stored[e].ts) /\ UNCHANGED <<chan, sent>>

\* What a CLOSED does to the state, and the REQ that answers it.
ClosedOutcomes_Renews(b, s, why) ==
  IF why = "error" THEN {Done(b, Io("req", s, channel_since(b, s)))}
  ELSE {[b |-> b, io |-> NoIo, ok |-> FALSE]}
ClosedOutcomes_Unparked(b, s, why) ==
  IF why = "denied" THEN {Done(Forget(b, s), NoIo)} ELSE {Done(b, NoIo)}
ClosedOutcomes(b, s, why) ==
  IF why = "denied" /\ s \in Channels THEN {Done(Forget(b, s), NoIo)}
  ELSE IF why = "rate-limited"
  THEN {Done(IF s \in Channels THEN [b EXCEPT !.gate = TRUE, !.pending = @ \cup {s}]
             ELSE [b EXCEPT !.gate = TRUE, !.needs = @ \cup {s}], NoIo)}
  ELSE IF why # "error" THEN {[b |-> b, io |-> NoIo, ok |-> FALSE]}
  ELSE IF s \in Channels \ b.active THEN {Done(b, NoIo)}
  ELSE {Done(IF s = ObserverControl THEN b ELSE [b EXCEPT !.dropped[s] = NoTime],
             Io("req", s, channel_since(b, s))),
        Failed(b)}

Receive ==
  /\ InLoop /\ wire # <<>>
  /\ LET m == Head(wire) IN
     CASE m.kind = "event" ->
            /\ HandleEvent(m) /\ wire' = Tail(wire)
            /\ UNCHANGED <<pc, sock, live, frames>>
       [] m.kind = "ok" ->
            /\ bg' = acknowledge_observer_frame(bg, m.id)
            /\ frames' = [frames EXCEPT ![m.id] = "answered"] /\ wire' = Tail(wire)
            /\ UNCHANGED <<pc, chan, sock, live, sent, left>>
       [] m.kind = "noauth" ->
            /\ GoDown(bg) /\ wire' = Tail(wire)
            /\ UNCHANGED <<sock, live, sent, frames, left>>
       [] m.kind = "notice" ->
            /\ bg' = requeue_observer_in_flight([bg EXCEPT !.gate = TRUE]) /\ wire' = Tail(wire)
            /\ UNCHANGED <<pc, chan, sock, live, sent, frames, left>>
       [] m.kind = "closed" ->
            /\ \E o \in ClosedOutcomes(bg, m.sub, m.why) :
                 /\ Answer(o.io, Tail(wire))
                 /\ IF o.ok THEN bg' = o.b /\ UNCHANGED <<pc, chan>> ELSE GoDown(o.b)
            /\ UNCHANGED <<sent, frames>>
  /\ UNCHANGED <<attempt, fresh, todo, cmds, stored, member, subscribed, newest>>

-----------------------------------------------------------------------------
\* The caller, the relay and the network.

\* next_event: the harness takes an event.  After a lost socket it asks for a
\* reconnect, which may find the task connected again.  A membership
\* notification older than the newest one of its channel is skipped.
Notified(e) ==
  LET n == stored[e]
      fresh_note == n.ts >= newest[n.ch]
  IN  /\ newest' = IF fresh_note THEN [newest EXCEPT ![n.ch] = n.ts] ELSE newest
      /\ CASE fresh_note /\ n.what = "added" /\ n.ch \notin subscribed ->
                /\ subscribed' = subscribed \cup {n.ch}
                /\ cmds' = Append(cmds, [op |-> "subscribe", arg |-> n.ch, since |-> n.ts])
           [] fresh_note /\ n.what = "removed" ->
                /\ subscribed' = subscribed \ {n.ch}
                /\ cmds' = Append(cmds, Cmd("unsubscribe", n.ch))
           [] OTHER -> UNCHANGED <<subscribed, cmds>>

Consume ==
  /\ chan # <<>> /\ chan' = Tail(chan)
  /\ IF Head(chan) = Lost
     THEN cmds' = Append(cmds, Cmd("reconnect", None)) /\ UNCHANGED <<subscribed, newest>>
     ELSE IF stored[Head(chan)].what = "message" THEN UNCHANGED <<cmds, subscribed, newest>>
     ELSE Notified(Head(chan))
  /\ UNCHANGED <<bg, pc, attempt, fresh, todo, sock, live, wire, stored, member, sent, frames, left>>

Telemetry ==
  /\ left.frames > 0 /\ left' = [left EXCEPT !.frames = @ - 1]
  /\ LET f == Min({g \in Frames : frames[g] = "new"}) IN
     /\ frames' = [frames EXCEPT ![f] = "handed"]
     /\ cmds' = Append(cmds, Cmd("publish", f))
  /\ UNCHANGED <<bg, pc, attempt, fresh, todo, chan, sock, live, wire, stored, member, subscribed, newest, sent>>

\* The relay stores an event and sends it to the open subscription.
Record(what, ch, ts, w) ==
  LET s == IF what = "message" THEN ch ELSE Membership
  IN  /\ left.events > 0 /\ left' = [left EXCEPT !.events = @ - 1]
      /\ \E e \in Events \ Stored :
           /\ e - 1 \in Stored \cup {0}
           /\ stored' = [stored EXCEPT ![e] = [what |-> what, sub |-> s, ch |-> ch, ts |-> ts]]
           /\ wire' = IF s \in live THEN Append(w, Msg("event", s, e)) ELSE w

Now == Max({Watermark} \cup {stored[e].ts : e \in Events})

Message(ch) ==
  /\ left.talk
  /\ \E ts \in Watermark..MaxTime : Record("message", ch, ts, wire)
  /\ UNCHANGED <<bg, pc, attempt, fresh, todo, cmds, chan, sock, live, member, subscribed,
                 newest, sent, frames>>

\* Access to a channel is granted or revoked; its subscription is closed, and
\* the agent is notified unless the channel became private around it.
Grant(ch) ==
  /\ ch \notin member /\ member' = member \cup {ch}
  /\ Record("added", ch, Now, wire)
  /\ UNCHANGED <<bg, pc, attempt, fresh, todo, cmds, chan, sock, live, subscribed, newest,
                 sent, frames>>

Revoke(ch) ==
  LET w == IF ch \in live THEN Append(wire, Closed(ch, "denied")) ELSE wire IN
  /\ ch \in member /\ member' = member \ {ch} /\ live' = live \ {ch}
  /\ \/ Record("removed", ch, Now, w)
     \/ FlipsToPrivate /\ wire' = w /\ UNCHANGED <<stored, left>>
  /\ UNCHANGED <<bg, pc, attempt, fresh, todo, cmds, chan, sock, subscribed, newest, sent,
                 frames>>

RelayCloses ==
  /\ Fault
  /\ \E s \in live : live' = live \ {s} /\ wire' = Append(wire, Closed(s, "error"))
  /\ UNCHANGED <<bg, pc, attempt, fresh, todo, cmds, chan, sock, stored, member, subscribed, newest, sent, frames>>

Disconnect ==
  /\ sock = "up" /\ SendFails
  /\ UNCHANGED <<bg, pc, attempt, fresh, todo, cmds, chan, stored, member, subscribed, newest, sent, frames>>

TaskStep ==
  \/ Connect \/ Reconnected \/ CommandWhileDown \/ Resubscribe \/ ResubscribeDone
  \/ Drain \/ DrainDone \/ ProactiveResubscribe \/ LoopCommand \/ LossDetected \/ Receive

Idle == pc = "exit" \/ (left.events = 0 /\ left.frames = 0)

Next ==
  \/ TaskStep \/ PacingTick \/ GateExpires
  \/ Consume \/ Telemetry \/ RelayCloses \/ Disconnect
  \/ \E ch \in Channels : Message(ch) \/ Grant(ch) \/ Revoke(ch)
  \/ Idle /\ UNCHANGED vars

Spec == Init /\ [][Next]_vars

\* The task runs and its pacing timer fires; a gate has a deadline; the harness
\* keeps reading; a relay that is up accepts a connection.
FairSpec == Spec /\ WF_vars(TaskStep) /\ SF_vars(PacingTick) /\ WF_vars(GateExpires)
                 /\ WF_vars(Consume)

-----------------------------------------------------------------------------
\* No event is put on the event channel twice: not by a replay after a
\* reconnect, a renewed subscription or a live copy that overlaps one.
DeliveredOnce == \A e \in Events : sent[e] <= 1

\* No step resurrects an unsubscribed channel: a REQ the relay accepts is for a
\* channel the task still wants, and once the commands are drained the task
\* wants nothing the harness has left.  A parked REQ, a retry, a proactive
\* resubscribe and a resubscribe pass all run long after the command they serve.
NoResurrection ==
  [][/\ (live' \ live) \cap Channels \subseteq bg'.active
     /\ cmds' = <<>> => bg'.active \subseteq subscribed']_vars

\* Across replays, renewed subscriptions and reconnects no event is delivered
\* twice (DeliveredOnce) and no unsubscribed channel comes back (NoResurrection):
\* relay.rs handle_ws_message, resubscribe_after_reconnect, drain_commands.
NothingTwice == []DeliveredOnce /\ NoResurrection

\* When the faults are over, every wanted channel and control subscription is
\* registered at the relay for good, whatever was rejected, parked, rate
\* limited or lost before.
EventuallyLive == <>[](pc = "exit" \/ bg.active \cup bg.controls \subseteq live)

\* Every observer frame that was handed over is answered by the relay or evicted
\* by a full queue and counted, across gates, lost sockets and frames written to a
\* socket that was dead already.  One way of losing it is left: a frame that the
\* drain of a new connection wrote just before that connection failed in the same
\* drain (drain_commands, retried by try_autonomous_reconnect without
\* requeue_observer_in_flight) is sent again only after a later loss, if ever.
FramesSettle ==
  \A f \in Frames :
    frames[f] = "handed" ~>
      (frames[f] \in {"answered", "stranded"} \/ f \in bg.evicted \/ pc = "exit")

\* When nothing changes any more, every channel the agent is a member of is
\* subscribed: the notifications lead the harness to the relay's membership.
MembersHeard == <>[](pc = "exit" \/ member \subseteq live)
=============================================================================
