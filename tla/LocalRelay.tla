----------------------------- MODULE LocalRelay -----------------------------
(***************************************************************************)
(* The laptop relay around its event store                                 *)
(* (crates/buzz-local-relay/src/lib.rs): submissions that store, publish,  *)
(* project and then witness the journal with a pulse; WebSocket sessions   *)
(* that answer a REQ from the store and go on from a bounded broadcast     *)
(* channel; Beacon rounds and the responses they collect.  Every handler   *)
(* is a task; the store's accept is one step here (EventStore refines it). *)
(***************************************************************************)
EXTENDS Naturals, Sequences, SequencesExt, FiniteSets

CONSTANTS Submits,      \* submissions: notes and group creations
          Creates,      \* those that are group creations
          Ephemerals,   \* those of an ephemeral kind
          Projections,  \* discovery events that a creation projects
          Sockets,      \* WebSocket connections
          Responses,    \* Beacon responses
          Capacity,     \* EVENT_CHANNEL_CAPACITY
          Window,       \* DEFAULT_RECOGNITION_WINDOW_SECS
          Scenarios,    \* bound: the submissions, responses, clock and REQs of a run
          MaxPulses, MaxSilent \* bounds

VARIABLES journal,  \* the store's journal
          tasks,    \* each submission
          live,     \* everything ever sent to live_events
          socks,    \* each session
          rounds,   \* beacon_rounds
          pulses,   \* every pulse signed, by id
          answers,  \* each response
          silent,   \* submissions that failed or were dropped after storing
          now,
          limits    \* the scenario

vars == <<journal, tasks, live, socks, rounds, pulses, answers, silent, now, limits>>


Stored == ToSet(journal)
EventItem(e) == [t |-> "event", id |-> e]
PulseItem(n) == [t |-> "pulse", id |-> n]
NewTask == [pc |-> "new", todo |-> <<>>, pulse |-> 0]
NewSock == [pc |-> "idle", next |-> Len(live) + 1, who |-> "none", sub |-> FALSE,
            hist |-> {}, pulse |-> 0, sent |-> {}, lagged |-> FALSE, reqs |-> 0]
NewAnswer == [pc |-> "none", pulse |-> 0, at |-> 0]

Init ==
  /\ journal = <<>> /\ live = <<>> /\ rounds = <<>> /\ pulses = <<>>
  /\ limits \in Scenarios
  /\ tasks = [s \in Submits |-> [NewTask EXCEPT !.pc = IF s \in limits.submits THEN "new" ELSE "done"]]
  /\ socks = [k \in Sockets |-> NewSock]
  /\ answers = [r \in Responses |-> NewAnswer]
  /\ silent = {} /\ now = 0

Tick ==
  /\ now < limits.time
  /\ now' = now + 1
  /\ UNCHANGED <<journal, tasks, live, socks, rounds, pulses, answers, silent, limits>>

-----------------------------------------------------------------------------
\* Pulses.

\* pulse_recognition: the newest round of this head that is still open and has
\* been answered.
pulse_recognition(head) ==
  LET open == {i \in DOMAIN rounds : rounds[i].head = head /\ now <= rounds[i].at + Window
                                     /\ rounds[i].responses # {}}
  IN  IF open = {} THEN {} ELSE rounds[Max(open)].responses

\* current_pulse reads the journal under the store's lock and signs.
current_pulse ==
  [seq |-> Len(journal), head |-> Last(journal), at |-> now,
   recognition |-> pulse_recognition(Last(journal))]

register_pulse_Early(n) ==
  LET p == pulses[n]
  IN  rounds' = Append(SelectSeq(rounds, LAMBDA r : r.at + Window > p.at),
                       [pulse |-> n, head |-> p.head, at |-> p.at, responses |-> {}])
register_pulse(n) ==
  LET p == pulses[n]
  IN  rounds' = Append(SelectSeq(rounds, LAMBDA r : r.at + Window >= p.at),
                       [pulse |-> n, head |-> p.head, at |-> p.at, responses |-> {}])

-----------------------------------------------------------------------------
\* submit_from.

Task(s, task) == tasks' = [tasks EXCEPT ![s] = task]

\* The store accepts a new event; an ephemeral one is not journaled.
submit_accept(s) ==
  /\ tasks[s].pc = "new"
  /\ journal' = IF s \in Ephemerals THEN journal ELSE Append(journal, s)
  /\ Task(s, [tasks[s] EXCEPT !.pc = "publish",
                              !.todo = IF s \in Creates THEN Projections ELSE <<>>])
  /\ UNCHANGED <<live, socks, rounds, pulses, answers, silent, now, limits>>

submit_publish(s) ==
  /\ tasks[s].pc = "publish"
  /\ live' = Append(live, EventItem(s))
  /\ Task(s, [tasks[s] EXCEPT !.pc = IF s \in Ephemerals THEN "done"
                                     ELSE IF tasks[s].todo = <<>> THEN "pulse" ELSE "project"])
  /\ UNCHANGED <<journal, socks, rounds, pulses, answers, silent, now, limits>>

\* publish_projected_events: each is accepted and sent; a store error ends the
\* submission with an error.
publish_projected_events(s) ==
  /\ tasks[s].pc = "project"
  /\ LET e == Head(tasks[s].todo)
     IN  /\ journal' = IF e \in Stored THEN journal ELSE Append(journal, e)
         /\ Task(s, [tasks[s] EXCEPT !.pc = IF e \in Stored THEN "projected" ELSE "sendproj"])
  /\ UNCHANGED <<live, socks, rounds, pulses, answers, silent, now, limits>>
AfterProjection_Done(rest) == IF rest = <<>> THEN "done" ELSE "project"
AfterProjection(rest) == IF rest = <<>> THEN "pulse" ELSE "project"
projected_sent(s) ==
  /\ tasks[s].pc \in {"sendproj", "projected"}
  /\ live' = IF tasks[s].pc = "sendproj" THEN Append(live, EventItem(Head(tasks[s].todo))) ELSE live
  /\ LET rest == Tail(tasks[s].todo)
     IN  Task(s, [tasks[s] EXCEPT !.todo = rest, !.pc = AfterProjection(rest)])
  /\ UNCHANGED <<journal, socks, rounds, pulses, answers, silent, now, limits>>

submit_witness(s) ==
  /\ tasks[s].pc = "pulse" /\ Len(pulses) < MaxPulses
  /\ pulses' = Append(pulses, current_pulse)
  /\ Task(s, [tasks[s] EXCEPT !.pc = "register", !.pulse = Len(pulses) + 1])
  /\ UNCHANGED <<journal, live, socks, rounds, answers, silent, now, limits>>
submit_register(s) ==
  /\ tasks[s].pc = "register"
  /\ register_pulse(tasks[s].pulse)
  /\ Task(s, [tasks[s] EXCEPT !.pc = "send"])
  /\ UNCHANGED <<journal, live, socks, pulses, answers, silent, now, limits>>
submit_send(s) ==
  /\ tasks[s].pc = "send"
  /\ live' = Append(live, PulseItem(tasks[s].pulse))
  /\ Task(s, [tasks[s] EXCEPT !.pc = "done"])
  /\ UNCHANGED <<journal, socks, rounds, pulses, answers, silent, now, limits>>

\* A store error while projecting, or an HTTP caller that goes away: the event
\* is stored and no pulse follows.
submit_ends_early(s) ==
  /\ tasks[s].pc \in {"project", "pulse"} /\ Cardinality(silent) < MaxSilent
  /\ silent' = silent \cup {s}
  /\ Task(s, [tasks[s] EXCEPT !.pc = "done"])
  /\ UNCHANGED <<journal, live, socks, rounds, pulses, answers, now, limits>>

-----------------------------------------------------------------------------
\* websocket_session: one task per connection, which handles one client message
\* or one live event at a time.

Sock(k, sock) == socks' = [socks EXCEPT ![k] = sock]

\* NIP-42, once per connection; only the owner and admitted peers have standing.
handle_ws_auth(k, who) ==
  /\ socks[k].pc = "idle" /\ socks[k].who = "none"
  /\ Sock(k, [socks[k] EXCEPT !.who = who])
  /\ UNCHANGED <<journal, tasks, live, rounds, pulses, answers, silent, now, limits>>
pulse_visible_to(k) == socks[k].who = "party"

\* REQ: history under the store's lock, a pulse when the filter names its kind,
\* then the subscription, the history and EOSE.
handle_ws_req(k, pulse) ==
  /\ socks[k].pc = "idle" /\ socks[k].reqs < limits.reqs
  /\ Sock(k, [socks[k] EXCEPT !.pc = IF pulse /\ pulse_visible_to(k) THEN "pulse" ELSE "insert",
                              !.hist = Stored, !.reqs = @ + 1])
  /\ UNCHANGED <<journal, tasks, live, rounds, pulses, answers, silent, now, limits>>
query_pulse(k) ==
  /\ socks[k].pc = "pulse" /\ journal # <<>> /\ Len(pulses) < MaxPulses
  /\ pulses' = Append(pulses, current_pulse)
  /\ Sock(k, [socks[k] EXCEPT !.pc = "register", !.pulse = Len(pulses) + 1])
  /\ UNCHANGED <<journal, tasks, live, rounds, answers, silent, now, limits>>
query_register(k) ==
  /\ socks[k].pc = "register"
  /\ register_pulse(socks[k].pulse)
  /\ Sock(k, [socks[k] EXCEPT !.pc = "insert"])
  /\ UNCHANGED <<journal, tasks, live, pulses, answers, silent, now, limits>>

ReqAnswered(k) ==
  [socks[k] EXCEPT !.pc = "idle", !.sub = TRUE, !.lagged = FALSE, !.hist = {}, !.pulse = 0,
     !.sent = {EventItem(e) : e \in socks[k].hist}
                \cup (IF socks[k].pulse = 0 THEN {} ELSE {PulseItem(socks[k].pulse)})]
req_insert_Resubscribes(k) ==
  /\ socks[k].pc = "insert"
  /\ Sock(k, [ReqAnswered(k) EXCEPT !.next = Len(live) + 1])
  /\ UNCHANGED <<journal, tasks, live, rounds, pulses, answers, silent, now, limits>>
req_insert(k) ==
  /\ socks[k].pc = "insert"
  /\ Sock(k, ReqAnswered(k))
  /\ UNCHANGED <<journal, tasks, live, rounds, pulses, answers, silent, now, limits>>

handle_ws_close(k) ==
  /\ socks[k].pc = "idle" /\ socks[k].sub
  /\ Sock(k, [socks[k] EXCEPT !.sub = FALSE, !.sent = {}])
  /\ UNCHANGED <<journal, tasks, live, rounds, pulses, answers, silent, now, limits>>

\* A receiver more than the channel's capacity behind is moved up and told.
live_recv(k) ==
  /\ socks[k].pc = "idle" /\ socks[k].next <= Len(live)
  /\ LET sock == socks[k]
         item == live[sock.next]
         visible == sock.sub /\ (item.t = "pulse" => pulse_visible_to(k))
     IN  Sock(k, IF Len(live) - sock.next >= Capacity
                 THEN [sock EXCEPT !.next = Len(live) - Capacity + 1, !.lagged = TRUE]
                 ELSE [sock EXCEPT !.next = @ + 1,
                                   !.sent = IF visible THEN @ \cup {item} ELSE @])
  /\ UNCHANGED <<journal, tasks, live, rounds, pulses, answers, silent, now, limits>>

disconnect(k) ==
  /\ socks[k].pc = "idle" /\ limits.drops /\ socks[k].reqs = limits.reqs
  /\ Sock(k, [NewSock EXCEPT !.reqs = limits.reqs, !.pc = "closed"])
  /\ UNCHANGED <<journal, tasks, live, rounds, pulses, answers, silent, now, limits>>

-----------------------------------------------------------------------------
\* Beacon responses: a party that was shown a pulse answers it.

Shown == {n \in DOMAIN pulses : \E k \in Sockets : PulseItem(n) \in socks[k].sent}
Respond(r, n) ==
  /\ r \in limits.responses /\ answers[r].pc = "none" /\ n \in Shown
  /\ answers' = [answers EXCEPT ![r] = [pc |-> "sent", pulse |-> n, at |-> now]]
  /\ UNCHANGED <<journal, tasks, live, socks, rounds, pulses, silent, now, limits>>

\* record_beacon_response, after the store has taken the event as ephemeral
\* (and will call a retry a duplicate).
InWindow(r, at) == at <= answers[r].at /\ answers[r].at <= at + Window /\ now <= at + Window
record_beacon_response(r) ==
  /\ answers[r].pc = "sent"
  /\ LET open == {i \in DOMAIN rounds : rounds[i].pulse = answers[r].pulse}
         ok == open # {} /\ InWindow(r, rounds[Min(open)].at)
     IN  /\ rounds' = IF ok THEN [rounds EXCEPT ![Min(open)].responses = @ \cup {r}] ELSE rounds
         /\ answers' = [answers EXCEPT ![r].pc = IF ok THEN "counted" ELSE "rejected"]
  /\ UNCHANGED <<journal, tasks, live, socks, pulses, silent, now, limits>>

Submission(s) ==
  \/ submit_accept(s) \/ submit_publish(s) \/ publish_projected_events(s) \/ projected_sent(s)
  \/ submit_witness(s) \/ submit_register(s) \/ submit_send(s) \/ submit_ends_early(s)
Connection(k) ==
  \/ \E who \in limits.who : handle_ws_auth(k, who)
  \/ \E pulse \in BOOLEAN : handle_ws_req(k, pulse)
  \/ query_pulse(k) \/ query_register(k) \/ req_insert(k)
  \/ handle_ws_close(k) \/ live_recv(k) \/ disconnect(k)
Beacon ==
  \E r \in Responses : record_beacon_response(r) \/ \E n \in Shown : Respond(r, n)

Next ==
  \/ Tick
  \/ \E s \in Submits : Submission(s)
  \/ \E k \in Sockets : Connection(k)
  \/ Beacon
Spec == Init /\ [][Next]_vars

-----------------------------------------------------------------------------

\* A subscriber that has read the channel and was not told that it lagged was
\* sent every published event, from the history or live: nothing falls between
\* the query and the subscription (handle_ws_req, websocket_session).
NothingMissed ==
  \A k \in Sockets :
    socks[k].pc = "idle" /\ socks[k].sub /\ ~socks[k].lagged /\ socks[k].next > Len(live) =>
      \A i \in DOMAIN live : live[i].t = "event" /\ live[i].id \in Stored => live[i] \in socks[k].sent

\* When all submissions have ended, and none was cut off, some published pulse
\* shows the journal's last entry ("Every journal transition is witnessed": at
\* least the last one is, whatever the interleaving of submissions).
HeadWitnessed ==
  (\A s \in Submits : tasks[s].pc \in {"new", "done"}) /\ silent = {} /\ journal # <<>> =>
    \E i \in DOMAIN live : live[i].t = "pulse" /\ pulses[live[i].id].seq = Len(journal)

\* A response to a pulse that its sender was shown, signed and received within
\* the recognition window, is counted: rounds are opened before the pulse is
\* shown and kept as long as the window (register_pulse, record_beacon_response).
ResponsesCounted ==
  [][\A r \in Responses :
       answers[r].pc = "sent" /\ answers'[r].pc = "rejected" =>
         ~InWindow(r, pulses[answers[r].pulse].at)]_vars
=============================================================================
