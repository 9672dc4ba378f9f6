----------------------------- MODULE AcpClient -----------------------------
(***************************************************************************)
(* The harness's side of the Agent Client Protocol                         *)
(* (crates/buzz-acp/src/acp.rs), driven as run_prompt_task drives it       *)
(* (pool.rs): set up a session, prompt, steer, cancel and drain, account   *)
(* for the tokens (usage.rs).  The agent is another process: it answers    *)
(* what it was asked in any order, late or never, and asks on its own,     *)
(* with ids of its own that may equal the harness's.                       *)
(***************************************************************************)
EXTENDS Naturals, Sequences, FiniteSets, SequencesExt

CONSTANTS Plans,     \* records [goose, initial, model, mode, ids, says, sends,
                     \* sessions, steers, faults]
          Steers,    \* messages that may be steered into a running turn
          MaxIds, MaxSessions, MaxTokens

VARIABLES plan,
          c,         \* the client
          out,       \* lines of the agent's stdout not yet read
          agent,     \* what the agent knows and did
          steer,     \* what became of each steer request
          usage,     \* UsageTracker
          book       \* per session: tokens published, the last turn_seq

vars == <<plan, c, out, agent, steer, usage, book>>

None == 0
Sessions == 1..MaxSessions
Idle(s) == [s EXCEPT !.pc = "idle", !.expect = None, !.last = None, !.session = None]

\* The state of the client: the request and the turn in progress, what it knows of the agent.
NewClient ==
  [pc |-> "idle", step |-> "none", back |-> "none", expect |-> None, next |-> 1, last |-> None,
   perm |-> None, responded |-> FALSE, run |-> None, pending |-> None, asked |-> None,
   session |-> None, known |-> {}, goose |-> TRUE, initial |-> FALSE, took |-> {}]

Init ==
  /\ plan \in Plans
  /\ c = NewClient
  /\ out = <<>>
  /\ agent = [open |-> {}, replied |-> {}, sent |-> 0, faults |-> 0, run |-> None,
              asked |-> {}, answers |-> [i \in 1..MaxIds |-> 0], sessions |-> 0,
              cum |-> [s \in Sessions |-> 0], used |-> [s \in Sessions |-> 0]]
  /\ steer = [x \in Steers |-> "new"]
  /\ usage = [base |-> [s \in {} |-> 0], flight |-> None, pending |-> [s |-> None]]
  /\ book = [s \in Sessions |-> [sum |-> 0, seq |-> 0]]

Fault == agent.faults < plan.faults
\* write_ndjson puts a request on the agent's stdin.
Asked(a, id) == [a EXCEPT !.open = @ \cup {id}]
-----------------------------------------------------------------------------
(***************************************************************************)
(* The agent process, as src/ uses it.                                     *)
(***************************************************************************)
Say(m, a) ==
  /\ a.sent <= plan.sends
  /\ out' = Append(out, m) /\ agent' = a
  /\ UNCHANGED <<plan, c, steer, usage, book>>
agent_replies(id) ==
  /\ id \in agent.open
  /\ \E r \in {"ok"} \cup ({"error", "nomethod"} \cap plan.says) :
       Say([kind |-> "reply", id |-> id, r |-> r],
           [agent EXCEPT !.open = @ \ {id}, !.replied = @ \cup {id},
              !.sent = IF r = "ok" THEN @ ELSE @ + 1])
\* session/request_permission (with or without an option the client can select),
\* or a request the client does not know.
agent_asks ==
  \E id \in plan.ids, o \in {"allow", "neither", "unknown"} \cap plan.says :
    /\ id \notin agent.asked /\ agent.open # {}
    /\ Say([kind |-> "request", id |-> id, r |-> o],
           [agent EXCEPT !.asked = @ \cup {id}, !.sent = @ + 1])
agent_runs ==
  \E r \in {None, c.last} :
    /\ "run" \in plan.says /\ c.pc = "prompt" /\ r # agent.run
    /\ Say([kind |-> "run", id |-> r, r |-> "ok"], [agent EXCEPT !.run = r, !.sent = @ + 1])
\* A usage_update with the session's cumulative count; a restarted counter is lower.
agent_reports(s) ==
  /\ "usage" \in plan.says /\ s <= agent.sessions
  /\ \E d \in 1..2, from \in {0, agent.cum[s]} :
       /\ agent.used[s] + d <= MaxTokens
       /\ Say([kind |-> "usage", id |-> s, tokens |-> from + d],
              [agent EXCEPT !.used[s] = @ + d, !.cum[s] = from + d, !.sent = @ + 1])
-----------------------------------------------------------------------------
(***************************************************************************)
(* UsageTracker.                                                           *)
(***************************************************************************)
begin_turn(u, s) == [u EXCEPT !.flight = s, !.pending = [s |-> None]]
record(u, s, n) ==
  LET known == s \in DOMAIN u.base
      base == IF known THEN u.base[s] ELSE [seq |-> 0, n |-> 0]
      reliable == known /\ n >= base.n
  IN  CASE u.flight = s ->
             [u EXCEPT !.pending = [s |-> s, seq |-> base.seq + 1, n |-> n,
                                    delta |-> IF reliable THEN n - base.n ELSE 0]]
        [] u.flight = None ->
             [u EXCEPT !.base = [x \in DOMAIN @ \cup {s} |->
                                   IF x = s THEN [seq |-> base.seq, n |-> n] ELSE @[x]]]
        [] OTHER -> u
\* take: what publish_agent_turn_metric publishes, and the new baseline.
\* Mutant: a session's baseline is set once and never moved.
Taken_First(u) ==
  LET p == u.pending
  IN  [u EXCEPT !.flight = None, !.pending = [s |-> None],
         !.base = IF p.s = None \/ p.s \in DOMAIN @ THEN @
                  ELSE [x \in DOMAIN @ \cup {p.s} |-> IF x = p.s THEN [seq |-> p.seq, n |-> p.n] ELSE @[x]]]
Taken(u) ==
  LET p == u.pending
  IN  [u EXCEPT !.flight = None, !.pending = [s |-> None],
         !.base = IF p.s = None THEN @
                  ELSE [x \in DOMAIN @ \cup {p.s} |-> IF x = p.s THEN [seq |-> p.seq, n |-> p.n] ELSE @[x]]]
take_turn_usage ==
  /\ usage' = Taken(usage)
  /\ LET p == usage.pending
     IN  book' = IF p.s = None THEN book
                 ELSE [book EXCEPT ![p.s] = [sum |-> @.sum + p.delta, seq |-> p.seq]]
-----------------------------------------------------------------------------
(***************************************************************************)
(* Requests and session set-up (send_request,                              *)
(* create_session_and_apply_model).                                        *)
(***************************************************************************)
SetUp == <<"new", "prompt", "model", "mode">>
Needs(goose, step) ==
  CASE step = "new" -> TRUE
    [] step = "prompt" -> plan.goose /\ goose
    [] step = "model" -> plan.model
    [] OTHER -> plan.mode
Following(goose, step) ==
  LET i == CHOOSE k \in 1..4 : SetUp[k] = step
      rest == {k \in (i + 1)..4 : Needs(goose, SetUp[k])}
  IN  IF rest = {} THEN "ready" ELSE SetUp[CHOOSE k \in rest : \A l \in rest : k <= l]

\* The steer receiver is dropped with the read loop that took it: whoever still
\* waits for an answer learns that the turn is over.
\* Mutant: only the request already on the wire is told.
Dropped_SentOnly == [x \in Steers |-> IF steer[x] = "sent" THEN "over" ELSE steer[x]]
Dropped == [x \in Steers |-> IF steer[x] \in {"queued", "sent"} THEN "over" ELSE steer[x]]

\* The agent process is killed and respawned: this client is gone.
Respawn(client, a) ==
  /\ c' = [Idle(client) EXCEPT !.pc = "dead"] /\ agent' = a
  /\ steer' = Dropped
  /\ take_turn_usage
Failed == Respawn(c, [agent EXCEPT !.faults = @ + 1])

session_new ==
  /\ c.pc = "idle" /\ c.next < MaxIds /\ agent.sessions < plan.sessions
  /\ c' = [c EXCEPT !.pc = "setup", !.step = "new", !.expect = c.next, !.next = @ + 1]
  /\ agent' = Asked(agent, c.next)
  /\ UNCHANGED <<plan, out, steer, usage, book>>

\* An answer to a set-up request: an error the agent reports ends the set-up for
\* session/new and for Goose's prompt (except "method not found"), and is passed
\* over for the model and the mode.
SetUpAnswer(m, lines) ==
  LET made == IF c.step = "new" THEN agent.sessions + 1 ELSE c.session
      goose == c.goose /\ ~(c.step = "prompt" /\ m.r = "nomethod")
      next == Following(goose, c.step)
      fails == \/ c.step = "new" /\ m.r # "ok"
               \/ c.step = "prompt" /\ m.r = "error"
      client == [c EXCEPT !.took = @ \cup {m.id}, !.session = made, !.goose = goose, !.step = next]
  IN  /\ IF fails THEN /\ c' = Idle(client) /\ agent' = agent
         ELSE IF next = "ready"
         THEN /\ c' = [client EXCEPT !.pc = "ready", !.expect = None, !.known = @ \cup {made},
                         !.initial = plan.initial]
              /\ agent' = IF c.step = "new" THEN [agent EXCEPT !.sessions = made] ELSE agent
         ELSE /\ c' = [client EXCEPT !.expect = c.next, !.next = @ + 1]
              /\ agent' = Asked(IF c.step = "new" THEN [agent EXCEPT !.sessions = made] ELSE agent, c.next)
      /\ out' = lines
      /\ UNCHANGED <<plan, steer, usage, book>>
\* send_request's timeout, a write that fails, a closed pipe.
SetUpFails ==
  /\ c.pc = "setup" /\ Fault
  /\ Failed /\ UNCHANGED <<plan, out>>
-----------------------------------------------------------------------------
(***************************************************************************)
(* The turn.                                                               *)
(***************************************************************************)
prompt(s) ==
  /\ \/ c.pc = "idle" /\ s \in c.known
     \/ c.pc = "ready" /\ s = c.session
  /\ c.next < MaxIds
  /\ usage' = begin_turn(usage, s)
  /\ c' = [c EXCEPT !.pc = "prompt", !.session = s, !.last = c.next, !.expect = c.next, !.next = @ + 1,
             !.pending = None]
  \* Only part of the line may reach the agent before the turn is interrupted.
  /\ \/ agent' = Asked(agent, c.next)
     \/ Fault /\ agent' = [agent EXCEPT !.faults = @ + 1]
  /\ UNCHANGED <<plan, out, steer, book>>

\* The prompt's answer: an initial message is followed by the real prompt, else
\* the turn is over.  An error the agent reports leaves the session in use.
TurnEnds(client, lines) ==
  /\ steer' = Dropped
  /\ IF client.initial
     THEN /\ c' = [client EXCEPT !.pc = "ready", !.initial = FALSE, !.expect = None, !.last = None]
          /\ UNCHANGED <<usage, book>>
     ELSE c' = Idle(client) /\ take_turn_usage
  /\ out' = lines
  /\ UNCHANGED <<plan, agent>>

\* try_native_steer, and the read loop's steer arm.
send_steer(x) ==
  /\ c.pc = "prompt" /\ steer[x] = "new" /\ x \in plan.steers
  /\ steer' = [steer EXCEPT ![x] = "queued"]
  /\ UNCHANGED <<plan, c, out, agent, usage, book>>
steer_arm(x) ==
  /\ c.pc = "prompt" /\ c.pending = None /\ steer[x] = "queued"
  /\ IF c.run = None
     THEN steer' = [steer EXCEPT ![x] = "missing"] /\ UNCHANGED <<c, agent>>
     ELSE /\ c.next < MaxIds
          /\ steer' = [steer EXCEPT ![x] = "sent"]
          /\ c' = [c EXCEPT !.pending = c.next, !.next = @ + 1]
          /\ agent' = Asked(agent, c.next)
  /\ UNCHANGED <<plan, out, usage, book>>
SteerAnswer(m, lines) ==
  /\ steer' = [x \in Steers |-> IF steer[x] = "sent" THEN (IF m.r = "ok" THEN "success" ELSE "refused")
                                ELSE steer[x]]
  /\ c' = [c EXCEPT !.pending = None, !.took = @ \cup {m.id}]
  /\ out' = lines
  /\ UNCHANGED <<plan, agent, usage, book>>

\* The idle timeout is followed by a drain, the hard one and a closed pipe by a
\* respawn; a drain that times out too ends in a respawn.
idle_timeout ==
  /\ c.pc = "prompt" /\ out = <<>> /\ Fault
  /\ c' = [c EXCEPT !.pc = "cancel", !.back = "idle"]
  /\ steer' = Dropped
  /\ agent' = [agent EXCEPT !.faults = @ + 1]
  /\ UNCHANGED <<plan, out, usage, book>>
turn_fails ==
  /\ c.pc \in {"prompt", "write", "cancel", "drain"} /\ Fault
  /\ Failed /\ UNCHANGED <<plan, out>>
-----------------------------------------------------------------------------
(***************************************************************************)
(* The agent's own requests.  The answer to a permission request is        *)
(* written after it was noted as pending; the turn can be interrupted in   *)
(* between.                                                                *)
(***************************************************************************)
Answered(a, id) == [a EXCEPT !.answers[id] = @ + 1]
\* Mutant: a request counts as answered before the answer is written.
Noted_FlagFirst(client, m) == [client EXCEPT !.perm = m.id, !.responded = TRUE]
Noted(client, m) == [client EXCEPT !.perm = m.id, !.responded = FALSE]
handle_permission_request(m, lines) ==
  /\ out' = lines
  /\ IF m.r = "neither" THEN Respawn(c, agent)
     ELSE /\ c' = [Noted(c, m) EXCEPT !.asked = m.id, !.back = c.pc, !.pc = "write"]
          /\ UNCHANGED <<agent, steer, usage, book>>
  /\ UNCHANGED plan
permission_written ==
  /\ c.pc = "write"
  /\ agent' = Answered(agent, c.asked)
  /\ c' = [c EXCEPT !.pc = c.back, !.perm = None, !.responded = TRUE, !.asked = None]
  /\ UNCHANGED <<plan, out, steer, usage, book>>
method_not_found(m, lines) ==
  /\ agent' = Answered(agent, m.id) /\ out' = lines
  /\ UNCHANGED <<plan, c, steer, usage, book>>
-----------------------------------------------------------------------------
(***************************************************************************)
(* read_until_response, read_until_response_with_idle_timeout: one line.   *)
(***************************************************************************)
handle_session_update(m, lines) ==
  c' = [c EXCEPT !.run = m.id] /\ out' = lines /\ UNCHANGED <<plan, agent, steer, usage, book>>
handle_goose_usage_update(m, lines) ==
  usage' = record(usage, m.id, m.tokens) /\ out' = lines /\ UNCHANGED <<plan, c, agent, steer, book>>

\* Mutant: an agent's request with the expected id is taken for the answer.
IsReply_AnyWithId(m, id) == m.kind \in {"reply", "request"} /\ m.id = id
IsReply(m, id) == m.kind = "reply" /\ m.id = id

read_line ==
  /\ c.pc \in {"setup", "prompt", "drain"} /\ out # <<>>
  /\ LET m == Head(out)
         lines == Tail(out)
     IN  CASE c.pc = "prompt" /\ IsReply(m, c.pending) -> SteerAnswer(m, lines)
           [] c.pc = "setup" /\ IsReply(m, c.expect) -> SetUpAnswer(m, lines)
           [] c.pc = "prompt" /\ IsReply(m, c.expect) /\ ~IsReply(m, c.pending) ->
                TurnEnds([c EXCEPT !.took = @ \cup {m.id}, !.initial = @ /\ m.r = "ok"], lines)
           [] c.pc = "drain" /\ IsReply(m, c.expect) ->
                \* An idle timeout is followed by a respawn, a cancelled turn is not.
                IF c.back = "idle" THEN Respawn([c EXCEPT !.took = @ \cup {m.id}], agent) /\ out' = lines /\ UNCHANGED plan
                ELSE TurnEnds([c EXCEPT !.took = @ \cup {m.id}, !.initial = FALSE,
                                 !.known = @ \ {c.session}], lines)
           [] m.kind = "request" /\ ~IsReply(m, c.expect) /\ ~(c.pc = "prompt" /\ IsReply(m, c.pending)) ->
                IF m.r = "unknown" THEN method_not_found(m, lines) ELSE handle_permission_request(m, lines)
           [] m.kind = "run" -> handle_session_update(m, lines)
           [] m.kind = "usage" -> handle_goose_usage_update(m, lines)
           [] OTHER -> out' = lines /\ UNCHANGED <<plan, c, agent, steer, usage, book>>
-----------------------------------------------------------------------------
(***************************************************************************)
(* A control signal drops the prompt's future wherever it is, then         *)
(* cancel_with_cleanup answers what is pending, sends session/cancel and   *)
(* reads on until the prompt is answered.                                  *)
(***************************************************************************)
control_signal ==
  /\ c.pc \in {"prompt", "write"} /\ c.last # None /\ ~c.initial
  /\ c.pc = "write" => c.back = "prompt"
  /\ c' = [c EXCEPT !.pc = "cancel", !.back = "control", !.asked = None]
  /\ steer' = Dropped
  /\ UNCHANGED <<plan, out, agent, usage, book>>
cancel_with_cleanup ==
  /\ c.pc = "cancel"
  /\ agent' = IF c.perm # None /\ ~c.responded THEN Answered(agent, c.perm) ELSE agent
  /\ c' = [c EXCEPT !.pc = "drain", !.perm = None, !.responded = FALSE, !.expect = c.last, !.last = None,
             !.pending = None]
  /\ UNCHANGED <<plan, out, steer, usage, book>>

Agent == agent_asks \/ agent_runs \/ (\E id \in 1..MaxIds : agent_replies(id)) \/ \E s \in Sessions : agent_reports(s)
Client ==
  \/ session_new \/ SetUpFails \/ read_line \/ idle_timeout \/ turn_fails
  \/ permission_written \/ control_signal \/ cancel_with_cleanup
  \/ (\E s \in Sessions : prompt(s)) \/ (\E x \in Steers : send_steer(x) \/ steer_arm(x))
Next == Agent \/ Client
-----------------------------------------------------------------------------
\* What the client takes for the answer to a request is the agent's answer to that
\* very request: late answers of given-up requests and the agent's own requests,
\* whose ids may coincide, are never taken for it.
AnswersMatch == c.took \subseteq agent.replied

\* A client that goes back to the pool has answered every request of the agent
\* that it read, exactly once; also when the turn was cancelled while the answer
\* was being written (an agent without an answer would wait forever).
RequestsAnswered ==
  /\ \A i \in 1..MaxIds : agent.answers[i] <= 1
  /\ c.pc \in {"idle", "ready"} =>
       \A i \in agent.asked : agent.answers[i] = 1 \/ \E k \in DOMAIN out : out[k].kind = "request" /\ out[k].id = i

\* The token counts published for a session's turns never add up to more than the
\* session used, whatever arrives late, twice, for another session or from a
\* counter that started again.
UsageOnce == \A s \in Sessions : book[s].sum <= agent.used[s]

\* No steered message waits for an answer that cannot come: when the turn is over
\* its sender knows what became of it.
SteersSettled == c.pc \in {"idle", "ready", "dead"} => \A x \in Steers : steer[x] \notin {"queued", "sent"}
=============================================================================
