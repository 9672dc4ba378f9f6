-------------------------- MODULE PairRelay_proofs --------------------------
(***************************************************************************)
(* Proofs about the pairing sidecar, for any number of connections, slots, *)
(* events and any caps: no event is handed over twice, a #p has one        *)
(* subscriber, and every slot is given back.  They need of the constants   *)
(* what ConstantsFit says.                                                 *)
(***************************************************************************)
EXTENDS PairRelay, FiniteSetTheorems, TLAPS

\* Almost every step is first-order logic; the few that need arithmetic,
\* sequences or function updates cite SMT.
USE Zenon

Fields == {"pc", "sub", "tries", "frames", "msgs", "events", "out", "event", "p"}
States == {"none", "refused", "upgrading", "open", "closing", "gone"}

\* What the proofs need of the types.
Typed ==
  /\ plan \in Scenarios
  /\ now \in Int
  /\ conns = [c \in Conns |-> conns[c]]
  /\ \A c \in Conns : DOMAIN conns[c] = Fields /\ conns[c].pc \in States
  /\ handed \in [Ids -> {0, 1}]
  /\ \A s \in subs : s.conn \in Conns
  /\ \A i \in DOMAIN seen : seen[i] \in Int

\* c has reserved the event i, and not yet delivered or released it.
Reserves(c, i) ==
  \/ conns[c].event = i /\ i \notin {"none", "undo"}
  \/ conns[c].event = "undo" /\ conns[c].p = i

\* i is no longer fresh, whoever publishes it.
Stale(i) ==
  \A c \in Conns : \A f \in plan.frames[c] :
    f.op = "EVENT" /\ f.id = i => now - f.at > Freshness

\* i cannot be reserved: its id is kept, or it is stale.
Barred(i) == i \in DOMAIN seen \/ Stale(i)

\* A kept id was fresh when it was reserved.
SeenFresh ==
  \A i \in DOMAIN seen : \A c \in Conns : \A f \in plan.frames[c] :
    f.op = "EVENT" /\ f.id = i => f.at - seen[i] <= Freshness

\* A reserved event has not been handed over, is reserved by one connection only
\* and cannot be reserved again.
ReservedOnce ==
  /\ \A c \in Conns : conns[c].event # "none" => \E i \in Ids : Reserves(c, i)
  /\ \A i \in Ids, c \in Conns : Reserves(c, i) =>
       /\ handed[i] = 0 /\ Barred(i)
       /\ \A d \in Conns : Reserves(d, i) => d = c

\* An event that was handed over cannot be reserved again.
HandedBarred == \A i \in Ids : handed[i] = 1 => Barred(i)

SubsOK == OneSubscriber /\ \A s \in subs : s.p # Nobody

IInv == Typed /\ SeenFresh /\ ReservedOnce /\ HandedBarred /\ SubsOK /\ SlotsReturned
-----------------------------------------------------------------------------
(***************************************************************************)
(* What a step does to the part of the state that the properties are       *)
(* about.  Turns: the connection c is in x, with subscription s and the    *)
(* event e for p; the others are as they were.                             *)
(***************************************************************************)
Turns(c, x, s, e, p) ==
  /\ plan' = plan /\ now' = now
  /\ conns' = [d \in Conns |-> conns'[d]]
  /\ \A d \in Conns : DOMAIN conns'[d] = Fields
  /\ conns'[c].pc = x /\ conns'[c].sub = s /\ conns'[c].event = e /\ conns'[c].p = p
  /\ \A d \in Conns \ {c} :
       /\ conns'[d].pc = conns[d].pc /\ conns'[d].sub = conns[d].sub
       /\ conns'[d].event = conns[d].event /\ conns'[d].p = conns[d].p

Dropped(c) == {s \in subs : s.conn # c}
Kept(S) == [i \in S |-> seen[i]]

Connected(c) ==
  /\ conns[c].pc = "none" /\ count' = count + 1
  /\ \E x \in {"refused", "upgrading"} :
       /\ x = "upgrading" => ~(count >= MaxConns)
       /\ Turns(c, x, conns[c].sub, conns[c].event, conns[c].p)
  /\ UNCHANGED <<subs, seen, handed>>
Left(c) ==
  /\ conns[c].pc \in {"refused", "upgrading", "closing"} /\ count' = count - 1
  /\ Turns(c, "gone", conns[c].sub, conns[c].event, conns[c].p)
  /\ subs' \in {subs, Dropped(c)}
  /\ UNCHANGED <<seen, handed>>
Upgraded(c) ==
  /\ conns[c].pc = "upgrading"
  /\ Turns(c, "open", Nobody, "none", "none")
  /\ UNCHANGED <<count, subs, seen, handed>>
Closed(c) ==
  /\ conns[c].pc = "open"
  /\ Turns(c, "closing", conns[c].sub, conns[c].event, conns[c].p)
  /\ subs' = Dropped(c)
  /\ UNCHANGED <<count, seen, handed>>
\* Nothing but an answer, and perhaps ids that expired.
Answered(c) ==
  /\ Turns(c, conns[c].pc, conns[c].sub, conns[c].event, conns[c].p)
  /\ seen' \in {seen, Kept(Unexpired)}
  /\ UNCHANGED <<count, subs, handed>>
Registered(c, p) ==
  /\ conns[c].pc = "open" /\ conns[c].sub = Nobody /\ ~Subscribed(p)
  /\ Turns(c, "open", p, conns[c].event, conns[c].p)
  /\ subs' = subs \cup {[conn |-> c, p |-> p]}
  /\ UNCHANGED <<count, seen, handed>>
Unregistered(c) ==
  /\ Turns(c, conns[c].pc, Nobody, conns[c].event, conns[c].p)
  /\ subs' = Dropped(c)
  /\ UNCHANGED <<count, seen, handed>>
Reserved(c, f) ==
  /\ validate_event(f) /\ f.id \notin Unexpired
  /\ Turns(c, conns[c].pc, conns[c].sub, f.id, f.p)
  /\ seen' = [i \in Unexpired \cup {f.id} |-> IF i = f.id THEN now ELSE seen[i]]
  /\ UNCHANGED <<count, subs, handed>>
HandedOver(c) ==
  /\ conns[c].event \notin {"none", "undo"}
  /\ Turns(c, conns[c].pc, conns[c].sub, "none", conns[c].p)
  /\ handed' = [handed EXCEPT ![conns[c].event] = @ + 1]
  /\ UNCHANGED <<count, subs, seen>>
Undelivered(c) ==
  /\ conns[c].event \notin {"none", "undo"}
  /\ Turns(c, conns[c].pc, conns[c].sub, "undo", conns[c].event)
  /\ UNCHANGED <<count, subs, seen, handed>>
Released(c) ==
  /\ conns[c].event = "undo"
  /\ Turns(c, conns[c].pc, conns[c].sub, "none", conns[c].p)
  /\ seen' = Kept(DOMAIN seen \ {conns[c].p})
  /\ UNCHANGED <<count, subs, handed>>

Outcome(c) ==
  \/ Connected(c) \/ Left(c) \/ Upgraded(c) \/ Closed(c) \/ Answered(c) \/ Unregistered(c)
  \/ \E f \in plan.frames[c] :
       \/ f.op = "REQ" /\ f.ok /\ Registered(c, f.p)
       \/ f.op = "EVENT" /\ Reserved(c, f)
  \/ HandedOver(c) \/ Undelivered(c) \/ Released(c)

\* An answer that may be dropped changes only the channel.
LEMMA SendKeeps ==
  ASSUME NEW r, DOMAIN r = Fields, NEW x
  PROVE  /\ DOMAIN Send(r, x) = Fields
         /\ Send(r, x).pc = r.pc /\ Send(r, x).sub = r.sub
         /\ Send(r, x).event = r.event /\ Send(r, x).p = r.p
BY DEF Send, Fields

\* A step that sets one connection.
LEMMA ConnTurns ==
  ASSUME Typed, NEW c \in Conns, NEW r, DOMAIN r = Fields, Conn(c, r),
         UNCHANGED <<plan, now>>
  PROVE  Turns(c, r.pc, r.sub, r.event, r.p)
<1>1. conns' = [conns EXCEPT ![c] = r] /\ DOMAIN conns = Conns
  BY DEF Conn, Typed
<1>2. conns' = [d \in Conns |-> IF d = c THEN r ELSE conns[d]]
  BY <1>1
<1>3. \A d \in Conns : DOMAIN conns[d] = Fields
  BY DEF Typed
<1> QED
  BY <1>2, <1>3 DEF Turns

\* The connection as a frame finds it shows what it showed.
LEMMA ReceivedKeeps ==
  ASSUME Typed, NEW c \in Conns
  PROVE  /\ DOMAIN Received(c) = Fields
         /\ Received(c).pc = conns[c].pc /\ Received(c).sub = conns[c].sub
         /\ Received(c).event = conns[c].event /\ Received(c).p = conns[c].p
<1>1. DOMAIN conns[c] = Fields
  BY DEF Typed
<1> QED
  BY <1>1 DEF Received, Fields

\* A reply, and a closed connection.
LEMMA ReplyAnswers ==
  ASSUME Typed, NEW c \in Conns, NEW r, NEW x, DOMAIN r = Fields, Reply(c, r, x),
         r.pc = conns[c].pc, r.sub = conns[c].sub, r.event = conns[c].event, r.p = conns[c].p
  PROVE  Answered(c)
<1>1. DOMAIN Send(r, x) = Fields /\ Conn(c, Send(r, x)) /\ UNCHANGED <<plan, now>>
  BY SendKeeps DEF Reply
<1>2. Turns(c, Send(r, x).pc, Send(r, x).sub, Send(r, x).event, Send(r, x).p)
  BY <1>1, ConnTurns
<1> QED
  BY <1>2, SendKeeps DEF Answered, Reply
LEMMA CloseCloses ==
  ASSUME Typed, NEW c \in Conns, NEW r, DOMAIN r = Fields, Close(c, r), conns[c].pc = "open",
         r.sub = conns[c].sub, r.event = conns[c].event, r.p = conns[c].p
  PROVE  Closed(c)
<1>1. /\ DOMAIN Closes(r) = Fields /\ Closes(r).pc = "closing" /\ Closes(r).sub = r.sub
      /\ Closes(r).event = r.event /\ Closes(r).p = r.p
  BY DEF Closes, Fields
<1>2. Conn(c, Closes(r)) /\ UNCHANGED <<plan, now>>
  BY DEF Close
<1>3. Turns(c, Closes(r).pc, Closes(r).sub, Closes(r).event, Closes(r).p)
  BY <1>1, <1>2, ConnTurns
<1> QED
  BY <1>1, <1>3 DEF Closed, Close, Dropped

\* Slots, upgrades, the writer and the end of a connection.
LEMMA TaskOutcome ==
  ASSUME Typed, NEW c \in Conns,
         \/ connect(c) \/ refuse(c) \/ upgrade(c) \/ upgrade_fails(c)
         \/ writer_task(c) \/ break_conn(c) \/ ConnGuard_drop(c)
  PROVE  Outcome(c)
<1>t. DOMAIN conns[c] = Fields
  BY DEF Typed
<1> DEFINE In(x) == [conns[c] EXCEPT !.pc = x]
<1>g. \A x : /\ DOMAIN In(x) = Fields /\ In(x).pc = x /\ In(x).sub = conns[c].sub
             /\ In(x).event = conns[c].event /\ In(x).p = conns[c].p
  BY <1>t DEF Fields
<1>1. CASE connect(c)
  <2> DEFINE x == IF count >= MaxConns THEN "refused" ELSE "upgrading"
  <2>1. Conn(c, In(x)) /\ UNCHANGED <<plan, now>>
    BY <1>1 DEF connect
  <2>2. Turns(c, In(x).pc, In(x).sub, In(x).event, In(x).p)
    BY <2>1, <1>g, ConnTurns
  <2>3. Turns(c, x, conns[c].sub, conns[c].event, conns[c].p)
    BY <2>2, <1>g
  <2>4. x \in {"refused", "upgrading"} /\ (x = "upgrading" => ~(count >= MaxConns))
    OBVIOUS
  <2> HIDE DEF x
  <2> QED
    BY <1>1, <2>3, <2>4 DEF connect, Connected, Outcome
<1>2. CASE refuse(c) \/ upgrade_fails(c) \/ ConnGuard_drop(c)
  <2>1. Conn(c, In("gone")) /\ UNCHANGED <<plan, now>>
    BY <1>2 DEF refuse, upgrade_fails, ConnGuard_drop
  <2>2. Turns(c, In("gone").pc, In("gone").sub, In("gone").event, In("gone").p)
    BY <2>1, <1>g, ConnTurns
  <2>3. Turns(c, "gone", conns[c].sub, conns[c].event, conns[c].p)
    BY <2>2, <1>g
  <2> QED
    BY <1>2, <2>3 DEF refuse, upgrade_fails, ConnGuard_drop, Left, Dropped, Outcome
<1>3. CASE upgrade(c)
  <2> DEFINE r == [Fresh EXCEPT !.pc = "open"]
  <2>1. DOMAIN r = Fields /\ r.pc = "open" /\ r.sub = Nobody /\ r.event = "none" /\ r.p = "none"
    BY DEF Fresh, Fields
  <2>2. Turns(c, r.pc, r.sub, r.event, r.p)
    <3>1. Conn(c, r) /\ UNCHANGED <<plan, now>>
      BY <1>3 DEF upgrade
    <3> HIDE DEF r
    <3> QED
      BY <3>1, <2>1, ConnTurns
  <2> HIDE DEF r
  <2> QED
    BY <1>3, <2>1, <2>2 DEF upgrade, Upgraded, Outcome
<1>4. CASE writer_task(c)
  <2> DEFINE r == [conns[c] EXCEPT !.out = Tail(@)]
  <2>1. /\ DOMAIN r = Fields /\ r.pc = conns[c].pc /\ r.sub = conns[c].sub
        /\ r.event = conns[c].event /\ r.p = conns[c].p
    BY <1>t DEF Fields
  <2>2. Conn(c, r) /\ UNCHANGED <<plan, now>>
    BY <1>4 DEF writer_task
  <2> HIDE DEF r
  <2>3. Turns(c, r.pc, r.sub, r.event, r.p)
    BY <2>1, <2>2, ConnTurns
  <2> QED
    BY <1>4, <2>1, <2>3 DEF writer_task, Answered, Outcome
<1>5. CASE break_conn(c)
  <2> DEFINE r == [conns[c] EXCEPT !.pc = "closing", !.out = <<>>]
  <2>1. /\ DOMAIN r = Fields /\ r.pc = "closing" /\ r.sub = conns[c].sub
        /\ r.event = conns[c].event /\ r.p = conns[c].p
    BY <1>t DEF Fields
  <2>2. Conn(c, r) /\ UNCHANGED <<plan, now>>
    BY <1>5 DEF break_conn
  <2> HIDE DEF r
  <2>3. Turns(c, r.pc, r.sub, r.event, r.p)
    BY <2>1, <2>2, ConnTurns
  <2> QED
    BY <1>5, <2>1, <2>3 DEF break_conn, Closed, Dropped, Outcome
<1> QED
  BY <1>1, <1>2, <1>3, <1>4, <1>5

\* Frames other than events.
LEMMA FrameOutcome ==
  ASSUME Typed, NEW c \in Conns, NEW f \in plan.frames[c],
         frame_req(c, f) \/ frame_close(c, f) \/ frame_other(c, f)
  PROVE  Outcome(c)
<1> DEFINE conn == Received(c)
<1>t. /\ DOMAIN conn = Fields
      /\ conn.pc = conns[c].pc /\ conn.sub = conns[c].sub
      /\ conn.event = conns[c].event /\ conn.p = conns[c].p
  BY ReceivedKeeps
<1>o. conns[c].pc = "open"
  BY DEF frame_req, frame_close, frame_other, Takes
<1>1. ASSUME NEW x, Reply(c, conn, x) PROVE Outcome(c)
  BY <1>1, <1>t, ReplyAnswers DEF Outcome
<1>2. ASSUME Close(c, conn) PROVE Outcome(c)
  BY <1>2, <1>t, <1>o, CloseCloses DEF Outcome
<1>3. CASE frame_req(c, f)
  <2>1. CASE \/ Limited(conn) \/ ~f.ok \/ conn.sub # Nobody \/ Subscribed(f.p)
             \/ Len(conn.out) = ChannelCap
    BY <1>3, <2>1, <1>1, <1>2 DEF frame_req
  <2>2. CASE ~(\/ Limited(conn) \/ ~f.ok \/ conn.sub # Nobody \/ Subscribed(f.p)
               \/ Len(conn.out) = ChannelCap)
    <3> DEFINE s == Send(conn, "EOSE")
               r == [s EXCEPT !.sub = f.p]
    <3>1. /\ DOMAIN s = Fields /\ s.pc = conns[c].pc
          /\ s.event = conns[c].event /\ s.p = conns[c].p
      BY <1>t, SendKeeps
    <3>2. /\ Conn(c, r) /\ subs' = subs \cup {[conn |-> c, p |-> f.p]}
          /\ f.ok /\ f.op = "REQ" /\ ~Subscribed(f.p) /\ conns[c].sub = Nobody
          /\ UNCHANGED <<plan, now, count, seen, handed>>
      BY <1>3, <1>t, <2>2 DEF frame_req
    <3>3. /\ DOMAIN r = Fields /\ r.pc = "open" /\ r.sub = f.p
          /\ r.event = conns[c].event /\ r.p = conns[c].p
      <4> HIDE DEF s
      <4> QED
        BY <3>1, <1>o DEF Fields
    <3> HIDE DEF r
    <3>4. Turns(c, r.pc, r.sub, r.event, r.p)
      BY <3>2, <3>3, ConnTurns
    <3>5. Registered(c, f.p)
      BY <3>2, <3>3, <3>4, <1>o DEF Registered
    <3> QED
      BY <3>2, <3>5 DEF Outcome
  <2> QED
    BY <2>1, <2>2
<1>4. CASE frame_close(c, f)
  <2>1. CASE Limited(conn) \/ ~f.ok
    BY <1>4, <2>1, <1>1, <1>2 DEF frame_close
  <2>2. CASE ~(Limited(conn) \/ ~f.ok)
    <3> DEFINE r == [conn EXCEPT !.sub = Nobody]
    <3>1. /\ Conn(c, r) /\ subs' = {s \in subs : s.conn # c}
          /\ UNCHANGED <<plan, now, count, seen, handed>>
      BY <1>4, <2>2 DEF frame_close
    <3>2. /\ DOMAIN r = Fields /\ r.pc = conns[c].pc /\ r.sub = Nobody
          /\ r.event = conns[c].event /\ r.p = conns[c].p
      <4> HIDE DEF conn
      <4> QED
        BY <1>t DEF Fields
    <3> HIDE DEF r
    <3>3. Turns(c, r.pc, r.sub, r.event, r.p)
      BY <3>1, <3>2, ConnTurns
    <3> QED
      BY <3>1, <3>2, <3>3 DEF Unregistered, Dropped, Outcome
  <2> QED
    BY <2>1, <2>2
<1>5. CASE frame_other(c, f)
  BY <1>5, <1>1, <1>2 DEF frame_other
<1> QED
  BY <1>3, <1>4, <1>5

\* An event: refused, or its id is reserved.
LEMMA EventOutcome ==
  ASSUME Typed, NEW c \in Conns, NEW f \in plan.frames[c], frame_event(c, f)
  PROVE  Outcome(c)
<1> DEFINE got == Received(c)
           conn == [got EXCEPT !.events = tick(@)]
           tried == [conn EXCEPT !.tries = @ + 1]
<1>t. /\ DOMAIN got = Fields
      /\ got.pc = conns[c].pc /\ got.sub = conns[c].sub
      /\ got.event = conns[c].event /\ got.p = conns[c].p
  BY ReceivedKeeps
<1>c. /\ DOMAIN conn = Fields
      /\ conn.pc = conns[c].pc /\ conn.sub = conns[c].sub
      /\ conn.event = conns[c].event /\ conn.p = conns[c].p
  <2> HIDE DEF got
  <2> QED
    BY <1>t DEF Fields
<1>r. /\ DOMAIN tried = Fields
      /\ tried.pc = conns[c].pc /\ tried.sub = conns[c].sub
      /\ tried.event = conns[c].event /\ tried.p = conns[c].p
  <2> HIDE DEF conn
  <2> QED
    BY <1>c DEF Fields
<1>o. conns[c].pc = "open" /\ f.op = "EVENT"
  BY DEF frame_event, Takes
<1>1. \/ Close(c, conn) \/ Reply(c, conn, "FALSE")
      \/ /\ Conn(c, Send(tried, "FALSE")) /\ seen' = Kept(Unexpired)
         /\ UNCHANGED <<plan, now, count, subs, delivered, handed>>
      \/ /\ validate_event(f) /\ f.id \notin Unexpired
         /\ Conn(c, [tried EXCEPT !.event = f.id, !.p = f.p])
         /\ seen' = [i \in Unexpired \cup {f.id} |-> IF i = f.id THEN now ELSE seen[i]]
         /\ UNCHANGED <<plan, now, count, subs, delivered, handed>>
  BY DEF frame_event, Kept
<1> HIDE DEF conn
<1>2. CASE Close(c, conn)
  BY <1>2, <1>c, <1>o, CloseCloses DEF Outcome
<1>3. CASE Reply(c, conn, "FALSE")
  BY <1>3, <1>c, ReplyAnswers DEF Outcome
<1>4. CASE /\ Conn(c, Send(tried, "FALSE")) /\ seen' = Kept(Unexpired)
           /\ UNCHANGED <<plan, now, count, subs, delivered, handed>>
  <2> DEFINE r == Send(tried, "FALSE")
  <2> HIDE DEF tried
  <2>1. /\ DOMAIN r = Fields /\ r.pc = conns[c].pc /\ r.sub = conns[c].sub
        /\ r.event = conns[c].event /\ r.p = conns[c].p
    BY <1>r, SendKeeps
  <2>2. Turns(c, r.pc, r.sub, r.event, r.p)
    <3>1. Conn(c, r) /\ UNCHANGED <<plan, now>>
      BY <1>4
    <3> HIDE DEF r
    <3> QED
      BY <2>1, <3>1, ConnTurns
  <2> HIDE DEF r
  <2> QED
    BY <1>4, <2>1, <2>2 DEF Answered, Outcome
<1>5. CASE /\ validate_event(f) /\ f.id \notin Unexpired
           /\ Conn(c, [tried EXCEPT !.event = f.id, !.p = f.p])
           /\ seen' = [i \in Unexpired \cup {f.id} |-> IF i = f.id THEN now ELSE seen[i]]
           /\ UNCHANGED <<plan, now, count, subs, delivered, handed>>
  <2> DEFINE r == [tried EXCEPT !.event = f.id, !.p = f.p]
  <2> HIDE DEF tried
  <2>1. /\ DOMAIN r = Fields /\ r.pc = conns[c].pc /\ r.sub = conns[c].sub
        /\ r.event = f.id /\ r.p = f.p
    BY <1>r DEF Fields
  <2>2. Conn(c, r) /\ UNCHANGED <<plan, now>>
    BY <1>5
  <2> HIDE DEF r
  <2>3. Turns(c, r.pc, r.sub, r.event, r.p)
    BY <2>1, <2>2, ConnTurns
  <2>4. Reserved(c, f)
    BY <1>5, <2>1, <2>3 DEF Reserved
  <2> QED
    BY <1>o, <2>4 DEF Outcome
<1> QED
  BY <1>1, <1>2, <1>3, <1>4, <1>5

\* An event is handed to the subscriber, or its reservation is taken back.
LEMMA DeliverOutcome ==
  ASSUME Typed, NEW c \in Conns, deliver_single(c) \/ unreserve_id(c)
  PROVE  Outcome(c)
<1>t. DOMAIN conns = Conns /\ \A d \in Conns : DOMAIN conns[d] = Fields
  BY DEF Typed
<1> DEFINE e == conns[c].event
           free == [conns[c] EXCEPT !.event = "none"]
<1>f. /\ DOMAIN free = Fields /\ free.pc = conns[c].pc /\ free.sub = conns[c].sub
      /\ free.event = "none" /\ free.p = conns[c].p
  BY <1>t DEF Fields
<1>1. CASE deliver_single(c) /\ Deliverable(conns[c].p)
  <2>1. PICK s \in Takers(conns[c].p) :
          LET got == [conns EXCEPT ![s.conn] = Send(@, "EVENT")]
          IN  conns' = [got EXCEPT ![c] = Send([@ EXCEPT !.event = "none"], "TRUE")]
    BY <1>1 DEF deliver_single
  <2>2. /\ handed' = [handed EXCEPT ![e] = @ + 1] /\ e \notin {"none", "undo"}
        /\ UNCHANGED <<plan, now, count, subs, seen>>
    BY <1>1 DEF deliver_single
  <2>3. s.conn \in Conns
    BY <2>1 DEF Takers, Typed
  <2> DEFINE got == [d \in Conns |-> IF d = s.conn THEN Send(conns[d], "EVENT") ELSE conns[d]]
             mine == [got[c] EXCEPT !.event = "none"]
  <2>4. got = [conns EXCEPT ![s.conn] = Send(@, "EVENT")]
    BY <2>3, <1>t
  <2>5. \A d \in Conns : /\ DOMAIN got[d] = Fields
                         /\ got[d].pc = conns[d].pc /\ got[d].sub = conns[d].sub
                         /\ got[d].event = conns[d].event /\ got[d].p = conns[d].p
    BY <1>t, SendKeeps, SMT
  <2>6. conns' = [got EXCEPT ![c] = Send([@ EXCEPT !.event = "none"], "TRUE")]
    BY <2>1, <2>4
  <2>7. conns' = [d \in Conns |-> IF d = c THEN Send(mine, "TRUE") ELSE got[d]]
    <3>1. DOMAIN got = Conns
      OBVIOUS
    <3> HIDE DEF got
    <3> QED
      BY <2>6, <3>1
  <2> HIDE DEF got
  <2>8. /\ DOMAIN mine = Fields /\ mine.pc = conns[c].pc /\ mine.sub = conns[c].sub
        /\ mine.event = "none" /\ mine.p = conns[c].p
    BY <2>5 DEF Fields
  <2> HIDE DEF mine
  <2>9. Turns(c, conns[c].pc, conns[c].sub, "none", conns[c].p)
    BY <2>2, <2>5, <2>7, <2>8, SendKeeps, SMT DEF Turns
  <2> QED
    BY <2>2, <2>9 DEF HandedOver, Outcome
<1>2. CASE deliver_single(c) /\ ~Deliverable(conns[c].p)
  <2> DEFINE r == [conns[c] EXCEPT !.event = "undo", !.p = e]
  <2>1. /\ DOMAIN r = Fields /\ r.pc = conns[c].pc /\ r.sub = conns[c].sub
        /\ r.event = "undo" /\ r.p = e
    BY <1>t DEF Fields
  <2>2. /\ Conn(c, r) /\ e \notin {"none", "undo"}
        /\ UNCHANGED <<plan, now, count, subs, seen, handed>>
    BY <1>2 DEF deliver_single
  <2> HIDE DEF r
  <2>3. Turns(c, r.pc, r.sub, r.event, r.p)
    BY <2>1, <2>2, ConnTurns
  <2> QED
    BY <2>1, <2>2, <2>3 DEF Undelivered, Outcome
<1>3. CASE unreserve_id(c)
  <2> DEFINE r == Send(free, "FALSE")
  <2>1. /\ Conn(c, r) /\ e = "undo" /\ seen' = Kept(DOMAIN seen \ {conns[c].p})
        /\ UNCHANGED <<plan, now, count, subs, handed>>
    BY <1>3 DEF unreserve_id, Kept
  <2>2. /\ DOMAIN r = Fields /\ r.pc = conns[c].pc /\ r.sub = conns[c].sub
        /\ r.event = "none" /\ r.p = conns[c].p
    <3> HIDE DEF free
    <3> QED
      BY <1>f, SendKeeps
  <2> HIDE DEF r
  <2>3. Turns(c, r.pc, r.sub, r.event, r.p)
    BY <2>1, <2>2, ConnTurns
  <2> QED
    BY <2>1, <2>2, <2>3 DEF Released, Outcome
<1> QED
  BY <1>1, <1>2, <1>3

\* Every step of a connection has one of the outcomes.
LEMMA ConnectionOutcome ==
  ASSUME Typed, NEW c \in Conns, Connection(c)
  PROVE  Outcome(c)
<1>1. CASE Frame(c)
  <2>1. PICK f \in plan.frames[c] :
          frame_req(c, f) \/ frame_close(c, f) \/ frame_other(c, f) \/ frame_event(c, f)
    BY <1>1 DEF Frame
  <2> QED
    BY <2>1, FrameOutcome, EventOutcome
<1> QED
  BY <1>1, TaskOutcome, DeliverOutcome DEF Connection
-----------------------------------------------------------------------------
(***************************************************************************)
(* Every step keeps the invariant: the types, the reservations, the        *)
(* subscriptions, the slots.                                               *)
(***************************************************************************)
\* No step of a connection changes the scenario or the time.
LEMMA OutcomeKeeps ==
  ASSUME NEW c, Outcome(c)
  PROVE  plan' = plan /\ now' = now /\ Conns' = Conns /\ Ids' = Ids
<1>1. plan' = plan /\ now' = now
  BY DEF Outcome, Turns, Connected, Left, Upgraded, Closed, Answered,
         Unregistered, Registered, Reserved, HandedOver, Undelivered, Released
<1>2. Conns' = Conns
  BY <1>1 DEF Conns
<1> QED
  BY <1>1, <1>2 DEF Ids

\* The kept ids after a step.
LEMMA SeenStep ==
  ASSUME ConstantsFit, Typed, SeenFresh, NEW c \in Conns, Outcome(c)
  PROVE  /\ \A i \in DOMAIN seen' : seen'[i] \in Int
         /\ SeenFresh'
<1>p. plan' = plan /\ now' = now /\ now \in Int /\ Conns' = Conns
  BY OutcomeKeeps DEF Typed
<1>k. ASSUME NEW S \in SUBSET DOMAIN seen, seen' = Kept(S)
      PROVE  (\A i \in DOMAIN seen' : seen'[i] \in Int) /\ SeenFresh'
  BY <1>k, <1>p DEF Kept, SeenFresh, Typed
<1>u. Unexpired \in SUBSET DOMAIN seen
  BY DEF Unexpired
<1>1. CASE UNCHANGED seen
  BY <1>1, <1>p DEF SeenFresh, Typed
<1>2. ASSUME NEW f \in plan.frames[c], f.op = "EVENT", Reserved(c, f)
      PROVE  (\A i \in DOMAIN seen' : seen'[i] \in Int) /\ SeenFresh'
  <2>1. /\ seen' = [i \in Unexpired \cup {f.id} |-> IF i = f.id THEN now ELSE seen[i]]
        /\ f.at - now <= Freshness
    BY <1>2 DEF Reserved, validate_event
  <2>2. ASSUME NEW d \in Conns, NEW g \in plan.frames[d], g.op = "EVENT", g.id = f.id
        PROVE  g.at = f.at
    BY <1>2, <2>2, SMT DEF ConstantsFit, FramesFit, Typed, Conns
  <2>3. \A i \in DOMAIN seen' : seen'[i] \in Int
    BY <2>1, <1>p, <1>u DEF Typed
  <2>4. ASSUME NEW i \in DOMAIN seen', NEW d \in Conns, NEW g \in plan.frames[d],
               g.op = "EVENT", g.id = i
        PROVE  g.at - seen'[i] <= Freshness
    <3>1. CASE i = f.id
      BY <3>1, <2>1, <2>2, <2>4
    <3>2. CASE i # f.id
      BY <3>2, <2>1, <2>4, <1>u DEF SeenFresh
    <3> QED
      BY <3>1, <3>2
  <2> QED
    BY <2>3, <2>4, <1>p DEF SeenFresh
<1>3. \/ UNCHANGED seen
      \/ seen' = Kept(Unexpired) \/ seen' = Kept(DOMAIN seen \ {conns[c].p})
      \/ \E f \in plan.frames[c] : f.op = "EVENT" /\ Reserved(c, f)
  BY DEF Outcome, Connected, Left, Upgraded, Closed, Answered,
         Unregistered, Registered, HandedOver, Undelivered, Released
<1> QED
  BY <1>k, <1>u, <1>1, <1>2, <1>3

\* An id that expires has outlived the freshness of its event.
LEMMA ExpiredIsStale ==
  ASSUME ConstantsFit, Typed, SeenFresh, NEW i \in DOMAIN seen \ Unexpired
  PROVE  Stale(i)
<1> SUFFICES ASSUME NEW c \in Conns, NEW f \in plan.frames[c], f.op = "EVENT", f.id = i
             PROVE  now - f.at > Freshness
  BY DEF Stale
<1>1. f.at \in Int /\ now \in Int /\ seen[i] \in Int /\ Ttl \in Nat /\ Freshness \in Nat
  BY DEF ConstantsFit, FramesFit, Typed, Conns
<1>2. f.at - seen[i] <= Freshness /\ ~(now - seen[i] < Ttl) /\ 2 * Freshness < Ttl
  BY DEF SeenFresh, Unexpired, ConstantsFit
<1> QED
  BY <1>1, <1>2, SMT

\* What is barred stays barred, unless a connection releases its reservation.
LEMMA BarredStays ==
  ASSUME ConstantsFit, Typed, SeenFresh, NEW c \in Conns, Outcome(c), NEW i, Barred(i),
         ~(Released(c) /\ i = conns[c].p)
  PROVE  Barred(i)'
<1>p. plan' = plan /\ now' = now /\ Conns' = Conns
  BY OutcomeKeeps
<1>1. CASE Stale(i)
  BY <1>1, <1>p DEF Stale, Barred
<1>2. CASE i \in DOMAIN seen /\ i \in Unexpired
  <2>1. i \in DOMAIN seen'
    BY <1>2 DEF Outcome, Connected, Left, Upgraded, Closed, Answered, Kept,
         Unregistered, Registered, Reserved, HandedOver, Undelivered, Released
  <2> QED
    BY <2>1 DEF Barred
<1> QED
  BY <1>1, <1>2, ExpiredIsStale DEF Barred

\* An event that is fresh and not kept is neither reserved nor handed over.
LEMMA FreshIsFree ==
  ASSUME ConstantsFit, Typed, SeenFresh, NEW c \in Conns, NEW f \in plan.frames[c],
         f.op = "EVENT", Reserved(c, f)
  PROVE  ~Barred(f.id)
<1>1. ~Stale(f.id)
  <2>1. now - f.at <= Freshness /\ now \in Int /\ f.at \in Int /\ Freshness \in Nat
    BY DEF Reserved, validate_event, ConstantsFit, FramesFit, Typed, Conns
  <2> QED
    BY <2>1, SMT DEF Stale
<1>2. f.id \notin DOMAIN seen \ Unexpired
  BY <1>1, ExpiredIsStale
<1> QED
  BY <1>1, <1>2 DEF Barred, Reserved

\* Reservations after a step.
LEMMA ReserveStep ==
  ASSUME ConstantsFit, Typed, SeenFresh, ReservedOnce, HandedBarred,
         NEW c \in Conns, Outcome(c)
  PROVE  handed' \in [Ids -> {0, 1}] /\ ReservedOnce' /\ HandedBarred'
<1>p. plan' = plan /\ Conns' = Conns /\ Ids' = Ids
  BY OutcomeKeeps
<1>t. handed \in [Ids -> {0, 1}]
  BY DEF Typed
<1>i. \A i \in Ids : i \notin {"none", "undo"}
  BY SMT DEF Ids, ConstantsFit, FramesFit, Typed, Conns
<1>o. \A d \in Conns \ {c} : conns'[d].event = conns[d].event /\ conns'[d].p = conns[d].p
  BY DEF Outcome, Turns, Connected, Left, Upgraded, Closed, Answered,
         Unregistered, Registered, Reserved, HandedOver, Undelivered, Released
<1>d. \A d \in Conns \ {c}, i \in Ids : Reserves(d, i)' <=> Reserves(d, i)
  BY <1>o DEF Reserves
<1>n. \A d \in Conns \ {c} : conns'[d].event # "none" => \E i \in Ids : Reserves(d, i)'
  BY <1>o, <1>d DEF ReservedOnce
\* A step that leaves c's reservation alone, or ends it without a release.
<1>1. ASSUME UNCHANGED handed, ~Released(c),
             \A i \in Ids : Reserves(c, i)' => Reserves(c, i),
             conns'[c].event # "none" => \E i \in Ids : Reserves(c, i)'
      PROVE  handed' \in [Ids -> {0, 1}] /\ ReservedOnce' /\ HandedBarred'
  <2>1. ASSUME NEW i \in Ids, handed'[i] = 1 PROVE Barred(i)'
    BY <1>1, <2>1, BarredStays DEF HandedBarred
  <2>2. ASSUME NEW i \in Ids, NEW d \in Conns, Reserves(d, i)'
        PROVE  /\ handed'[i] = 0 /\ Barred(i)'
               /\ \A b \in Conns : Reserves(b, i)' => b = d
    <3>1. Reserves(d, i)
      BY <2>2, <1>d, <1>1
    <3>2. handed[i] = 0 /\ Barred(i)
      BY <3>1 DEF ReservedOnce
    <3>3. \A b \in Conns : Reserves(b, i)' => Reserves(b, i)
      BY <1>d, <1>1
    <3>4. \A b \in Conns : Reserves(b, i) => b = d
      BY <3>1 DEF ReservedOnce
    <3> QED
      BY <1>1, <3>2, <3>3, <3>4, BarredStays
  <2>3. \A d \in Conns : conns'[d].event # "none" => \E i \in Ids : Reserves(d, i)'
    BY <1>1, <1>n
  <2> QED
    BY <1>1, <1>t, <1>p, <2>1, <2>2, <2>3 DEF ReservedOnce, HandedBarred
<1>2. CASE Connected(c) \/ Left(c) \/ Closed(c) \/ Answered(c) \/ Unregistered(c)
           \/ \E f \in plan.frames[c] : Registered(c, f.p)
  <2>1. UNCHANGED handed /\ conns'[c].event = conns[c].event /\ conns'[c].p = conns[c].p
    BY <1>2 DEF Turns, Connected, Left, Closed, Answered, Unregistered, Registered
  <2>2. \A i \in Ids : Reserves(c, i)' <=> Reserves(c, i)
    BY <2>1 DEF Reserves
  <2>3. conns'[c].event # "none" => \E i \in Ids : Reserves(c, i)'
    BY <2>1, <2>2 DEF ReservedOnce
  <2>4. ~Released(c)
    <3>1. CASE Released(c)
      BY <2>1, <3>1 DEF Released, Turns
    <3> QED
      BY <3>1
  <2> QED
    BY <2>1, <2>2, <2>3, <2>4, <1>1
<1>3. CASE Upgraded(c)
  <2>1. UNCHANGED handed /\ conns'[c].event = "none" /\ conns'[c].pc = "open" /\ conns[c].pc # "open"
    BY <1>3 DEF Turns, Upgraded
  <2>2. \A i \in Ids : ~Reserves(c, i)'
    BY <2>1 DEF Reserves
  <2>3. ~Released(c)
    BY <2>1 DEF Released, Turns
  <2> QED
    BY <2>1, <2>2, <2>3, <1>1
<1>4. CASE Undelivered(c)
  <2>1. /\ UNCHANGED handed /\ conns'[c].event = "undo" /\ conns'[c].p = conns[c].event
        /\ conns[c].event \notin {"none", "undo"}
    BY <1>4 DEF Turns, Undelivered
  <2>2. \A i \in Ids : Reserves(c, i)' <=> Reserves(c, i)
    BY <2>1, <1>i DEF Reserves
  <2>3. \E i \in Ids : Reserves(c, i)'
    BY <2>1, <2>2 DEF ReservedOnce
  <2>4. ~Released(c)
    BY <2>1 DEF Released
  <2> QED
    BY <2>1, <2>2, <2>3, <2>4, <1>1
<1>5. CASE HandedOver(c)
  <2> DEFINE e == conns[c].event
  <2>1. /\ handed' = [handed EXCEPT ![e] = @ + 1] /\ conns'[c].event = "none"
        /\ e \notin {"none", "undo"} /\ ~Released(c)
    BY <1>5 DEF Turns, HandedOver, Released
  <2>2. e \in Ids /\ Reserves(c, e)
    BY <2>1 DEF ReservedOnce, Reserves
  <2>3. handed[e] = 0 /\ Barred(e) /\ \A d \in Conns : Reserves(d, e) => d = c
    BY <2>2 DEF ReservedOnce
  <2>4. \A i \in Ids : ~Reserves(c, i)'
    BY <2>1 DEF Reserves
  <2>5. handed' \in [Ids -> {0, 1}] /\ \A i \in Ids : handed'[i] = IF i = e THEN 1 ELSE handed[i]
    BY <2>1, <2>2, <2>3, <1>t, SMT
  <2>6. ASSUME NEW i \in Ids, handed'[i] = 1 PROVE Barred(i)'
    <3>1. Barred(i)
      BY <2>3, <2>5, <2>6 DEF HandedBarred
    <3> QED
      BY <2>1, <3>1, BarredStays
  <2>7. ASSUME NEW i \in Ids, NEW d \in Conns, Reserves(d, i)'
        PROVE  /\ handed'[i] = 0 /\ Barred(i)'
               /\ \A b \in Conns : Reserves(b, i)' => b = d
    <3>1. d # c /\ Reserves(d, i)
      BY <2>4, <2>7, <1>d
    <3>2. handed[i] = 0 /\ Barred(i) /\ \A b \in Conns : Reserves(b, i) => b = d
      BY <3>1 DEF ReservedOnce
    <3>3. i # e
      BY <3>1, <3>2, <2>2
    <3>4. \A b \in Conns : Reserves(b, i)' => Reserves(b, i)
      BY <2>4, <1>d
    <3> QED
      BY <2>1, <2>5, <3>2, <3>3, <3>4, BarredStays
  <2>8. \A d \in Conns : conns'[d].event # "none" => \E i \in Ids : Reserves(d, i)'
    BY <2>1, <1>n
  <2> QED
    BY <1>p, <2>5, <2>6, <2>7, <2>8 DEF ReservedOnce, HandedBarred
<1>6. CASE Released(c)
  <2> DEFINE e == conns[c].p
  <2>1. /\ conns[c].event = "undo" /\ conns'[c].event = "none" /\ UNCHANGED handed
    BY <1>6 DEF Turns, Released
  <2>2. e \in Ids /\ Reserves(c, e)
    BY <2>1, <1>i, SMT DEF ReservedOnce, Reserves
  <2>3. handed[e] = 0 /\ \A d \in Conns : Reserves(d, e) => d = c
    BY <2>2 DEF ReservedOnce
  <2>4. \A i \in Ids : ~Reserves(c, i)'
    BY <2>1 DEF Reserves
  <2>5. ASSUME NEW i \in Ids, handed'[i] = 1 PROVE Barred(i)'
    <3>1. Barred(i) /\ i # e
      BY <2>1, <2>3, <2>5, SMT DEF HandedBarred
    <3> QED
      BY <3>1, BarredStays
  <2>6. ASSUME NEW i \in Ids, NEW d \in Conns, Reserves(d, i)'
        PROVE  /\ handed'[i] = 0 /\ Barred(i)'
               /\ \A b \in Conns : Reserves(b, i)' => b = d
    <3>1. d # c /\ Reserves(d, i)
      BY <2>4, <2>6, <1>d
    <3>2. handed[i] = 0 /\ Barred(i) /\ \A b \in Conns : Reserves(b, i) => b = d
      BY <3>1 DEF ReservedOnce
    <3>3. i # e
      BY <3>1, <3>2, <2>2
    <3>4. \A b \in Conns : Reserves(b, i)' => Reserves(b, i)
      BY <2>4, <1>d
    <3> QED
      BY <2>1, <3>2, <3>3, <3>4, BarredStays
  <2>7. \A d \in Conns : conns'[d].event # "none" => \E i \in Ids : Reserves(d, i)'
    BY <2>1, <1>n
  <2> QED
    BY <1>p, <1>t, <2>1, <2>5, <2>6, <2>7 DEF ReservedOnce, HandedBarred
<1>7. ASSUME NEW f \in plan.frames[c], f.op = "EVENT", Reserved(c, f), ~Released(c)
      PROVE  handed' \in [Ids -> {0, 1}] /\ ReservedOnce' /\ HandedBarred'
  <2>1. /\ conns'[c].event = f.id /\ UNCHANGED handed /\ f.id \in DOMAIN seen'
    BY <1>7 DEF Turns, Reserved
  <2>2. f.id \in Ids
    BY <1>7 DEF Ids
  <2>3. ~Barred(f.id)
    BY <1>7, FreshIsFree
  <2>4. handed[f.id] = 0 /\ \A d \in Conns : ~Reserves(d, f.id)
    BY <2>2, <2>3, <1>t DEF ReservedOnce, HandedBarred
  <2>5. \A i \in Ids : Reserves(c, i)' <=> i = f.id
    BY <2>1, <2>2, <1>i DEF Reserves
  <2>6. ASSUME NEW i \in Ids, handed'[i] = 1 PROVE Barred(i)'
    BY <1>7, <2>1, <2>6, BarredStays DEF HandedBarred
  <2>7. ASSUME NEW i \in Ids, NEW d \in Conns, Reserves(d, i)'
        PROVE  /\ handed'[i] = 0 /\ Barred(i)'
               /\ \A b \in Conns : Reserves(b, i)' => b = d
    <3>1. CASE d = c
      <4>1. i = f.id
        BY <2>5, <2>7, <3>1
      <4>2. Barred(i)'
        BY <2>1, <4>1 DEF Barred
      <4> QED
        BY <2>1, <2>4, <3>1, <4>1, <4>2, <1>d
    <3>2. CASE d # c
      <4>1. Reserves(d, i)
        BY <2>7, <3>2, <1>d
      <4>2. i # f.id
        BY <2>4, <4>1
      <4>3. handed[i] = 0 /\ Barred(i) /\ \A b \in Conns : Reserves(b, i) => b = d
        BY <4>1 DEF ReservedOnce
      <4>4. \A b \in Conns : Reserves(b, i)' => Reserves(b, i)
        BY <2>5, <4>2, <1>d
      <4> QED
        BY <1>7, <2>1, <4>3, <4>4, BarredStays
    <3> QED
      BY <3>1, <3>2
  <2>8. \A d \in Conns : conns'[d].event # "none" => \E i \in Ids : Reserves(d, i)'
    BY <2>2, <2>5, <1>n
  <2> QED
    BY <1>p, <1>t, <2>1, <2>6, <2>7, <2>8 DEF ReservedOnce, HandedBarred
<1> QED
  BY <1>2, <1>3, <1>4, <1>5, <1>6, <1>7 DEF Outcome

\* Connections and the owners of subscriptions after a step.
LEMMA ConnsStep ==
  ASSUME ConstantsFit, Typed, NEW c \in Conns, Outcome(c)
  PROVE  /\ conns' = [d \in Conns |-> conns'[d]]
         /\ \A d \in Conns : DOMAIN conns'[d] = Fields /\ conns'[d].pc \in States
         /\ \A s \in subs' : s.conn \in Conns
<1>1. conns' = [d \in Conns |-> conns'[d]] /\ \A d \in Conns : DOMAIN conns'[d] = Fields
  BY DEF Outcome, Turns, Connected, Left, Upgraded, Closed, Answered,
         Unregistered, Registered, Reserved, HandedOver, Undelivered, Released
<1>2. \A d \in Conns \ {c} : conns'[d].pc = conns[d].pc
  BY DEF Outcome, Turns, Connected, Left, Upgraded, Closed, Answered,
         Unregistered, Registered, Reserved, HandedOver, Undelivered, Released
<1>3. conns'[c].pc \in States
  BY DEF Outcome, Turns, Connected, Left, Upgraded, Closed, Answered, Typed, States,
         Unregistered, Registered, Reserved, HandedOver, Undelivered, Released
<1>4. \A s \in subs' : s.conn \in Conns
  <2>1. \/ subs' \subseteq subs
        \/ \E f \in plan.frames[c] : subs' = subs \cup {[conn |-> c, p |-> f.p]}
    BY DEF Outcome, Connected, Left, Upgraded, Closed, Answered, Dropped,
         Unregistered, Registered, Reserved, HandedOver, Undelivered, Released
  <2> QED
    BY <2>1, SMT DEF Typed
<1> QED
  BY <1>1, <1>2, <1>3, <1>4 DEF Typed

\* Subscriptions after a step: a #p gets a second subscriber only after the
\* first has gone, and who is closed has none.
LEMMA SubsStep ==
  ASSUME ConstantsFit, Typed, SubsOK, NEW c \in Conns, Outcome(c)
  PROVE  SubsOK'
<1>o. \A d \in Conns \ {c} : conns'[d].pc = conns[d].pc /\ conns'[d].sub = conns[d].sub
  BY DEF Outcome, Turns, Connected, Left, Upgraded, Closed, Answered,
         Unregistered, Registered, Reserved, HandedOver, Undelivered, Released
<1>t. \A s \in subs : s.conn \in Conns
  BY DEF Typed
<1>1. ASSUME subs' \subseteq subs,
             \A s \in subs' : s.conn = c => conns'[c].pc = "open" /\ conns'[c].sub = s.p
      PROVE  SubsOK'
  BY <1>1, <1>o, <1>t, SMT DEF SubsOK, OneSubscriber
<1>2. CASE subs' = Dropped(c)
  BY <1>2, <1>1 DEF Dropped
<1>3. CASE subs' = subs /\ conns[c].pc # "open"
  <2>1. \A s \in subs : s.conn # c
    BY <1>3 DEF SubsOK, OneSubscriber
  <2> QED
    BY <1>1, <1>3, <2>1
<1>4. CASE subs' = subs /\ conns'[c].pc = conns[c].pc /\ conns'[c].sub = conns[c].sub
  <2>1. \A s \in subs : s.conn = c => conns[c].pc = "open" /\ conns[c].sub = s.p
    BY DEF SubsOK, OneSubscriber
  <2> QED
    BY <1>1, <1>4, <2>1
<1>5. ASSUME NEW f \in plan.frames[c], f.op = "REQ", f.ok, Registered(c, f.p)
      PROVE  SubsOK'
  <2> DEFINE new == [conn |-> c, p |-> f.p]
  <2>1. /\ subs' = subs \cup {new} /\ conns'[c].pc = "open" /\ conns'[c].sub = f.p
        /\ conns[c].sub = Nobody /\ \A s \in subs : s.p # f.p
    BY <1>5 DEF Registered, Turns, Subscribed
  <2>2. f.p # Nobody
    BY <1>5 DEF ConstantsFit, FramesFit, Typed, Conns
  <2>3. \A s \in subs : s.conn # c
    BY <2>1 DEF SubsOK, OneSubscriber
  <2>4. new.conn = c /\ new.p = f.p
    OBVIOUS
  <2> HIDE DEF new
  <2> QED
    BY <2>1, <2>2, <2>3, <2>4, <1>o, <1>t, SMT DEF SubsOK, OneSubscriber
<1>6. \/ subs' = Dropped(c)
      \/ subs' = subs /\ conns[c].pc # "open"
      \/ subs' = subs /\ conns'[c].pc = conns[c].pc /\ conns'[c].sub = conns[c].sub
      \/ \E f \in plan.frames[c] : f.op = "REQ" /\ f.ok /\ Registered(c, f.p)
  BY DEF Outcome, Turns, Connected, Left, Upgraded, Closed, Answered,
         Unregistered, Reserved, HandedOver, Undelivered, Released
<1> QED
  BY <1>2, <1>3, <1>4, <1>5, <1>6

\* Slots after a step: the counter follows the connections that hold one.
LEMMA SlotsStep ==
  ASSUME ConstantsFit, Typed, SlotsReturned, NEW c \in Conns, Outcome(c)
  PROVE  SlotsReturned'
<1> DEFINE Held == {d \in Conns : conns[d].pc \in {"refused", "upgrading", "open", "closing"}}
           Active == {d \in Conns : conns[d].pc \in {"upgrading", "open", "closing"}}
<1>p. Conns' = Conns
  BY OutcomeKeeps
<1>f. /\ IsFiniteSet(Held) /\ IsFiniteSet(Active)
      /\ Cardinality(Held) \in Nat /\ Cardinality(Active) \in Nat
      /\ Cardinality(Active) <= Cardinality(Held)
  <2>1. IsFiniteSet(Conns)
    BY DEF ConstantsFit, FramesFit, Typed, Conns
  <2>2. IsFiniteSet(Held)
    BY <2>1, FS_Subset
  <2>3. Active \in SUBSET Held
    OBVIOUS
  <2> HIDE DEF Held, Active
  <2> QED
    BY <2>2, <2>3, FS_Subset, FS_CardinalityType
<1>s. count = Cardinality(Held) /\ Cardinality(Active) <= MaxConns /\ MaxConns \in Nat
  BY DEF SlotsReturned, ConstantsFit
<1>o. \A d \in Conns \ {c} : conns'[d].pc = conns[d].pc
  BY DEF Outcome, Turns, Connected, Left, Upgraded, Closed, Answered,
         Unregistered, Registered, Reserved, HandedOver, Undelivered, Released
<1>1. CASE Connected(c)
  <2>1. /\ conns[c].pc = "none" /\ count' = count + 1 /\ conns'[c].pc \in {"refused", "upgrading"}
        /\ conns'[c].pc = "upgrading" => ~(count >= MaxConns)
    BY <1>1 DEF Connected, Turns
  <2>2. c \notin Held /\ Held' = Held \cup {c}
    BY <2>1, <1>o, <1>p
  <2>3. c \notin Active /\ Active' = IF conns'[c].pc = "upgrading" THEN Active \cup {c} ELSE Active
    BY <2>1, <1>o, <1>p
  <2>4. Cardinality(Held \cup {c}) = Cardinality(Held) + 1
    BY <2>2, <1>f, FS_AddElement
  <2>5. Cardinality(Active \cup {c}) = Cardinality(Active) + 1
    BY <2>3, <1>f, FS_AddElement
  <2>6. count' = Cardinality(Held')
    BY <2>1, <2>2, <2>4, <1>s
  <2>7. Cardinality(Active') <= MaxConns
    <3> HIDE DEF Held, Active
    <3>1. CASE conns'[c].pc = "upgrading"
      BY <3>1, <2>1, <2>3, <2>5, <1>f, <1>s, SMT
    <3>2. CASE conns'[c].pc # "upgrading"
      BY <3>2, <2>3, <1>s
    <3> QED
      BY <3>1, <3>2
  <2> QED
    BY <2>6, <2>7 DEF SlotsReturned
<1>2. CASE Left(c)
  <2>1. /\ conns[c].pc \in {"refused", "upgrading", "closing"} /\ count' = count - 1
        /\ conns'[c].pc = "gone"
    BY <1>2 DEF Left, Turns
  <2>2. c \in Held /\ Held' = Held \ {c}
    BY <2>1, <1>o, <1>p
  <2>3. Active' \in SUBSET Active
    BY <2>1, <1>o, <1>p
  <2>4. Cardinality(Held \ {c}) = Cardinality(Held) - 1
    BY <2>2, <1>f, FS_RemoveElement
  <2>5. count' = Cardinality(Held')
    BY <2>1, <2>2, <2>4, <1>s
  <2>6. Cardinality(Active') <= MaxConns
    <3> HIDE DEF Active
    <3>1. Cardinality(Active') <= Cardinality(Active) /\ Cardinality(Active') \in Nat
      BY <2>3, <1>f, FS_Subset, FS_CardinalityType
    <3> QED
      BY <3>1, <1>f, <1>s, SMT
  <2> QED
    BY <2>5, <2>6 DEF SlotsReturned
<1>3. CASE ~Connected(c) /\ ~Left(c)
  <2>1. /\ count' = count
        /\ \/ conns'[c].pc = conns[c].pc
           \/ {conns'[c].pc, conns[c].pc} \subseteq {"upgrading", "open", "closing"}
    BY <1>3 DEF Outcome, Turns, Upgraded, Closed, Answered, Unregistered, Registered, Reserved,
         HandedOver, Undelivered, Released
  <2>2. Held' = Held /\ Active' = Active
    BY <2>1, <1>o, <1>p
  <2> QED
    BY <2>1, <2>2, <1>s DEF SlotsReturned
<1> QED
  BY <1>1, <1>2, <1>3
-----------------------------------------------------------------------------
\* Time passes: what was barred stays barred.
LEMMA TickStep ==
  ASSUME ConstantsFit, IInv, Tick
  PROVE  IInv'
<1>1. now' = now + 1 /\ now \in Int /\ UNCHANGED <<plan, count, conns, subs, seen, handed>>
  BY DEF Tick, IInv, Typed
<1>2. Conns' = Conns
  BY <1>1 DEF Conns
<1>3. Ids' = Ids
  BY <1>1, <1>2 DEF Ids
<1>4. Typed' /\ SeenFresh'
  BY <1>1, <1>2, <1>3, SMT DEF IInv, Typed, SeenFresh
<1>5. ASSUME NEW i, Barred(i) PROVE Barred(i)'
  <2>1. ASSUME NEW c \in Conns, NEW f \in plan.frames[c] PROVE f.at \in Int
    BY DEF ConstantsFit, FramesFit, IInv, Typed, Conns
  <2>2. Freshness \in Nat
    BY DEF ConstantsFit
  <2> QED
    BY <1>1, <1>2, <1>5, <2>1, <2>2, SMT DEF Barred, Stale
<1>6. \A i \in Ids, c \in Conns : Reserves(c, i)' <=> Reserves(c, i)
  BY <1>1 DEF Reserves
<1>7. ReservedOnce'
  BY <1>1, <1>2, <1>3, <1>5, <1>6, SMT DEF IInv, ReservedOnce
<1>8. HandedBarred'
  BY <1>1, <1>3, <1>5 DEF IInv, HandedBarred
<1>9. SubsOK' /\ SlotsReturned'
  BY <1>1, <1>2 DEF IInv, SubsOK, OneSubscriber, SlotsReturned
<1> QED
  BY <1>4, <1>7, <1>8, <1>9 DEF IInv

\* The invariant holds at the start, when nobody is connected.
LEMMA InvInit == ConstantsFit /\ Init => IInv
<1> SUFFICES ASSUME ConstantsFit, Init PROVE IInv
  OBVIOUS
<1>1. /\ plan \in Scenarios /\ now = 1 /\ count = 0 /\ conns = [c \in Conns |-> Fresh]
      /\ subs = {} /\ DOMAIN seen = {} /\ handed = [i \in Ids |-> 0]
  BY DEF Init, Empty
<1>2. \A c \in Conns : /\ DOMAIN conns[c] = Fields /\ conns[c].pc = "none"
                       /\ conns[c].event = "none"
  BY <1>1 DEF Fresh, Fields
<1>3. Typed
  BY <1>1, <1>2, SMT DEF Typed, States
<1>4. SeenFresh /\ HandedBarred /\ SubsOK
  BY <1>1, SMT DEF SeenFresh, HandedBarred, SubsOK, OneSubscriber
<1>5. ReservedOnce
  BY <1>2 DEF ReservedOnce, Reserves
<1>6. SlotsReturned
  <2> DEFINE Held == {c \in Conns : conns[c].pc \in {"refused", "upgrading", "open", "closing"}}
             Active == {c \in Conns : conns[c].pc \in {"upgrading", "open", "closing"}}
  <2>1. Held = {} /\ Active = {}
    BY <1>2
  <2>2. Cardinality({}) = 0 /\ MaxConns \in Nat
    BY FS_EmptySet DEF ConstantsFit
  <2>3. count = Cardinality(Held) /\ Cardinality(Active) <= MaxConns
    <3> HIDE DEF Held, Active
    <3> QED
      BY <1>1, <2>1, <2>2, SMT
  <2> QED
    BY <2>3 DEF SlotsReturned
<1> QED
  BY <1>3, <1>4, <1>5, <1>6 DEF IInv

\* Every step keeps it.
LEMMA InvStep == ConstantsFit /\ IInv /\ [Next]_vars => IInv'
<1> SUFFICES ASSUME ConstantsFit, IInv, [Next]_vars PROVE IInv'
  OBVIOUS
<1>1. CASE Tick
  BY <1>1, TickStep
<1>2. ASSUME NEW c \in Conns, Connection(c) PROVE IInv'
  <2>1. /\ Typed /\ SeenFresh /\ ReservedOnce /\ HandedBarred /\ SubsOK /\ SlotsReturned
        /\ Outcome(c)
    BY <1>2, ConnectionOutcome DEF IInv
  <2>2. plan' = plan /\ now' = now /\ Conns' = Conns /\ Ids' = Ids
    BY <2>1, OutcomeKeeps
  <2>3. Typed'
    BY <2>1, <2>2, SeenStep, ReserveStep, ConnsStep DEF Typed
  <2> QED
    BY <2>1, <2>3, SeenStep, ReserveStep, SubsStep, SlotsStep DEF IInv
<1>3. CASE UNCHANGED vars
  <2>1. UNCHANGED <<plan, now, count, conns, subs, seen, handed>>
    BY <1>3 DEF vars
  <2>2. Conns' = Conns /\ Ids' = Ids
    BY <2>1 DEF Conns, Ids
  <2>3. Typed' /\ SeenFresh'
    BY <2>1, <2>2 DEF IInv, Typed, SeenFresh
  <2>4. \A i : Barred(i)' <=> Barred(i)
    BY <2>1, <2>2 DEF Barred, Stale
  <2>5. \A i, c : Reserves(c, i)' <=> Reserves(c, i)
    BY <2>1 DEF Reserves
  <2>6. ReservedOnce' /\ HandedBarred'
    BY <2>1, <2>2, <2>4, <2>5 DEF IInv, ReservedOnce, HandedBarred
  <2> QED
    BY <2>1, <2>2, <2>3, <2>6 DEF IInv, SubsOK, OneSubscriber, SlotsReturned
<1> QED
  BY <1>1, <1>2, <1>3 DEF Next

(***************************************************************************)
(* The pairing sidecar hands no event over twice, never has two            *)
(* subscribers for a #p, and gives every slot back, for any number of      *)
(* connections and any interleaving of handle_conn, deliver_single,        *)
(* unreserve_id and ConnGuard: an id outlives twice the freshness of its   *)
(* event, so what expires from seen_ids is refused as stale.               *)
(***************************************************************************)
THEOREM PairRelayIsExact ==
  ASSUME ConstantsFit
  PROVE  Spec => []PairRelayExact
<1>1. Init => IInv
  BY InvInit
<1>2. IInv /\ [Next]_vars => IInv'
  BY InvStep
<1>3. IInv => PairRelayExact
  <2> SUFFICES ASSUME IInv PROVE PairRelayExact
    OBVIOUS
  <2>1. PairOnce
    <3>1. \A i \in Ids : handed[i] \in {0, 1}
      BY DEF IInv, Typed
    <3> QED
      BY <3>1, SMT DEF PairOnce
  <2> QED
    BY <2>1 DEF IInv, SubsOK, PairRelayExact
<1> QED
  BY <1>1, <1>2, <1>3, PTL DEF Spec
=============================================================================
