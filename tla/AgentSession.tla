---------------------------- MODULE AgentSession ----------------------------
(***************************************************************************)
(* A buzz-agent session (crates/buzz-agent/src: lib.rs, agent.rs): prompts *)
(* are tasks of their own, each takes the session's history, runs rounds   *)
(* of model calls and parallel tool calls on it, and puts it back; the     *)
(* read loop meanwhile handles cancel, steer, set_model and further        *)
(* prompts, which meet the session under its lock.  The conversation       *)
(* (types.rs, handoff.rs, llm.rs) comes first: its size, its truncation    *)
(* and hand-off, and the request bodies of the three provider APIs.  An    *)
(* item is a user message, an assistant turn with tool calls, or the       *)
(* result of one call; a call is named by the turn that made it and its    *)
(* position.  Every text has the same length.                              *)
(***************************************************************************)
EXTENDS Naturals, Sequences, SequencesExt, FiniteSets

CONSTANTS Prompts, Steers, News,     \* requests of the client
          Workloads,                 \* bound: which of them it makes, its cancels
                                     \* and model changes,
                                     \* and the agent's max_rounds
          DefaultModel,              \* cfg.model
          MaxSessions, MaxHandoffs, StopMaxRejections,
          MaxToolCalls,              \* MAX_TOOL_CALLS_PER_TURN
          MaxParallel,               \* max_parallel_tools
          Servers,                   \* MCP servers with hooks
          ImageBytes,                \* base64 length of an image
          ImageTokens,               \* IMAGE_CONTEXT_TOKEN_EQUIV
          MaxHistory,                \* max_history_bytes
          MaxContext, MaxOutput,     \* max_context_tokens, max_output_tokens
          HandoffOutput              \* HANDOFF_MAX_OUTPUT_TOKENS

VARIABLES sess,    \* the Session of lib.rs, as the lock shows it
          turn,    \* the RunCtx of the prompt in flight
          prompts, \* how far each session/prompt request is
          steers,  \* what became of each steer
          news,    \* how far each session/new request is
          sessions, \* how many sessions there are
          max_rounds, \* cfg.max_rounds
          client   \* session/cancel and session/set_model messages to come

vars == <<sess, turn, prompts, steers, news, sessions, max_rounds, client>>

-----------------------------------------------------------------------------
\* The history.

TextBytes == 10

User(m) == [t |-> "user", msg |-> m]
Assistant(id, n, text) == [t |-> "assistant", id |-> id, calls |-> n, text |-> text]
Result(id, i, image) == [t |-> "result", id |-> id, call |-> i, image |-> image]

\* size_with: an image counts in full on the wire and as tokens in the context.
Size(item, img) ==
  CASE item.t = "user" -> TextBytes
    [] item.t = "assistant" -> TextBytes * (item.calls + IF item.text THEN 1 ELSE 0)
    [] item.t = "result" -> TextBytes + IF item.image THEN img ELSE 0

Total(h, img) == FoldLeft(LAMBDA n, item : n + Size(item, img), 0, h)
estimated_bytes(h) == Total(h, ImageBytes)
context_pressure_bytes(h) == Total(h, ImageTokens)

\* truncate_history drops whole exchanges from the front, a user message and
\* what followed it, until the rest fits; the last exchange always stays.
Exchanges(h) == {1} \cup {i \in 2..Len(h) : h[i].t = "user"}
truncate_history_Items(h) ==
  LET fits == {i \in 1..Len(h) : estimated_bytes(SubSeq(h, i, Len(h))) <= MaxHistory}
  IN  IF fits = {} THEN h ELSE SubSeq(h, Min(fits), Len(h))
truncate_history(h) ==
  LET fits == {i \in Exchanges(h) : estimated_bytes(SubSeq(h, i, Len(h))) <= MaxHistory}
  IN  SubSeq(h, IF fits # {} THEN Min(fits) ELSE Max(Exchanges(h)), Len(h))

\* Where a hand-off is due: in tokens once the provider has reported usage
\* (what it reported plus what was appended since), in bytes before.
Smaller(a, b) == IF a < b THEN a ELSE b
Monus(a, b) == IF a > b THEN a - b ELSE 0
token_threshold == Smaller((MaxContext \div 10) * 9, Monus(MaxContext, MaxOutput))
byte_fallback_threshold == Smaller(token_threshold, (MaxHistory \div 10) * 9)

NoUsage == [known |-> FALSE, tokens |-> 0, bytes |-> 0]
projected_handoff_input_tokens(h, usage) ==
  IF usage.known THEN usage.tokens + Monus(context_pressure_bytes(h), usage.bytes)
  ELSE context_pressure_bytes(h)
should_handoff(h, usage) ==
  IF usage.known THEN projected_handoff_input_tokens(h, usage) >= token_threshold
  ELSE context_pressure_bytes(h) > byte_fallback_threshold

\* The history the summariser is shown, newest item first: what fits in the
\* window, at least a cut of the newest.
handoff_prompt_budget_bytes == Monus(Monus(MaxContext, HandoffOutput), TextBytes)
Snippet(acc, item) ==
  LET size == Size(item, TextBytes)
  IN  IF acc.bytes + size <= handoff_prompt_budget_bytes
      THEN [kept |-> Append(acc.kept, item), bytes |-> acc.bytes + size]
      ELSE IF acc.kept = <<>>
           THEN [kept |-> <<item>>, bytes |-> handoff_prompt_budget_bytes]
           ELSE acc
build_handoff_prompt(h) == FoldLeft(Snippet, [kept |-> <<>>, bytes |-> 0], Reverse(h))

\* After a hand-off: the summary and the newest user message.
HandedOff(h) ==
  LET users == {i \in DOMAIN h : h[i].t = "user"}
  IN  <<User("handoff")>> \o (IF users = {} THEN <<>> ELSE <<h[Max(users)]>>)

\* A hook's objection is a call and its result, one pair per server.
push_hook_outputs_as_tool_results(h, id, servers) ==
  h \o FlattenSeq([s \in 1..servers |->
                     <<Assistant(<<id, s>>, 1, FALSE), Result(<<id, s>>, 1, FALSE)>>])

-----------------------------------------------------------------------------
\* Request bodies.

\* Anthropic: the results of a run of items are one user message.
Msg(role, id, n) == [role |-> role, id |-> id, n |-> n]
Flush(acc) ==
  IF acc.pending = <<>> THEN acc
  ELSE [msgs |-> Append(acc.msgs, Msg("results", acc.pending[1].id, Len(acc.pending))),
        pending |-> <<>>]
anthropic_item(acc, item) ==
  CASE item.t = "result" -> [acc EXCEPT !.pending = Append(@, item)]
    [] item.t = "user" -> [Flush(acc) EXCEPT !.msgs = Append(@, Msg("user", 0, 0))]
    [] item.t = "assistant" ->  \* an empty turn is left out
         IF item.text \/ item.calls > 0
         THEN [Flush(acc) EXCEPT !.msgs = Append(@, Msg("assistant", item.id, item.calls))]
         ELSE Flush(acc)
anthropic_body(h) == Flush(FoldLeft(anthropic_item, [msgs |-> <<>>, pending |-> <<>>], h)).msgs

\* OpenAI Chat: one tool message per result; the images of a run of results
\* follow it as one user message.
FlushImages(acc) ==
  IF acc.images THEN [msgs |-> Append(acc.msgs, Msg("images", 0, 0)), images |-> FALSE] ELSE acc
openai_item(acc, item) ==
  CASE item.t = "result" ->
         [msgs |-> Append(acc.msgs, Msg("tool", item.id, item.call)),
          images |-> acc.images \/ item.image]
    [] item.t = "user" -> [FlushImages(acc) EXCEPT !.msgs = Append(@, Msg("user", 0, 0))]
    [] item.t = "assistant" ->
         [FlushImages(acc) EXCEPT !.msgs = Append(@, Msg("assistant", item.id, item.calls))]
openai_body(h) ==
  FlushImages(FoldLeft(openai_item, [msgs |-> <<Msg("system", 0, 0)>>, images |-> FALSE], h)).msgs

\* Responses: a call and its output are items of their own.
responses_item(item) ==
  CASE item.t = "user" -> <<Msg("user", 0, 0)>>
    [] item.t = "assistant" ->
         (IF item.text THEN <<Msg("assistant", item.id, 0)>> ELSE <<>>)
           \o [i \in 1..item.calls |-> Msg("call", item.id, i)]
    [] item.t = "result" ->
         <<Msg("output", item.id, item.call)>>
           \o (IF item.image THEN <<Msg("images", 0, 0)>> ELSE <<>>)
responses_body(h) == FlattenSeq([i \in DOMAIN h |-> responses_item(h[i])])

\* What the APIs accept.
AnthropicAccepts(ms) ==
  /\ \A i \in DOMAIN ms : ms[i].role = "assistant" /\ ms[i].n > 0 =>
       i < Len(ms) /\ ms[i + 1] = Msg("results", ms[i].id, ms[i].n)
  /\ \A i \in DOMAIN ms : ms[i].role = "results" =>
       i > 1 /\ ms[i - 1] = Msg("assistant", ms[i].id, ms[i].n)

OpenAiAccepts(ms) ==
  /\ \A i \in DOMAIN ms : ms[i].role = "assistant" =>
       \A k \in 1..ms[i].n : i + k \in DOMAIN ms /\ ms[i + k] = Msg("tool", ms[i].id, k)
  /\ \A i \in DOMAIN ms : ms[i].role = "tool" =>
       i > ms[i].n /\ ms[i - ms[i].n].role = "assistant" /\ ms[i - ms[i].n].id = ms[i].id

ResponsesAccepts(ms) ==
  /\ \A i \in DOMAIN ms : ms[i].role = "output" =>
       \E j \in 1..(i - 1) : ms[j] = Msg("call", ms[i].id, ms[i].n)
  /\ \A i \in DOMAIN ms : ms[i].role = "call" =>
       \E j \in (i + 1)..Len(ms) : ms[j] = Msg("output", ms[i].id, ms[i].n)

Acceptable(h) ==
  /\ AnthropicAccepts(anthropic_body(h))
  /\ OpenAiAccepts(openai_body(h))
  /\ ResponsesAccepts(responses_body(h))

-----------------------------------------------------------------------------
\* The session.

NoRun == "no run"
NoTurn == [pc |-> "none"]
Running == turn.pc # "none"
Answers == {"end_turn", "cancelled", "max_tokens", "max_turn_requests", "refusal", "error"}

\* The state of a session.
NewSession == [busy |-> FALSE, run |-> NoRun, history |-> <<>>, handoffs |-> 0,
               usage |-> NoUsage, model |-> DefaultModel]

Init ==
  /\ sess = NewSession
  /\ turn = NoTurn
  /\ \E w \in Workloads :
       /\ prompts = [p \in Prompts |-> IF p \in w.prompts THEN "unsent" ELSE "never"]
       /\ steers = [s \in Steers |-> IF s \in w.steers THEN "unsent" ELSE "never"]
       /\ news = [n \in News |-> IF n \in w.news THEN "unsent" ELSE "never"]
       /\ client = [cancels |-> w.cancels, models |-> w.models]
       /\ max_rounds = w.rounds
  /\ sessions = 1

-----------------------------------------------------------------------------
\* The read loop.

\* session/new: the cap is checked before the MCP servers are spawned and again
\* under the lock that inserts.
session_new_check(n) ==
  /\ news[n] = "unsent"
  /\ news' = [news EXCEPT ![n] = IF sessions >= MaxSessions THEN "rejected" ELSE "spawning"]
  /\ UNCHANGED <<sess, turn, prompts, steers, sessions, max_rounds, client>>

session_new_insert_Unchecked(n) ==
  /\ news[n] = "spawning"
  /\ sessions' = sessions + 1
  /\ news' = [news EXCEPT ![n] = "open"]
  /\ UNCHANGED <<sess, turn, prompts, steers, max_rounds, client>>
session_new_insert(n) ==
  /\ news[n] = "spawning"
  /\ \E spawned \in BOOLEAN :
       LET open == spawned /\ sessions < MaxSessions
       IN  /\ sessions' = IF open THEN sessions + 1 ELSE sessions
           /\ news' = [news EXCEPT ![n] = IF open THEN "open" ELSE "rejected"]
  /\ UNCHANGED <<sess, turn, prompts, steers, max_rounds, client>>

spawn_prompt(p) ==
  /\ prompts[p] = "unsent"
  /\ prompts' = [prompts EXCEPT ![p] = "spawned"]
  /\ UNCHANGED <<sess, turn, steers, news, sessions, max_rounds, client>>

\* The cancel goes to the channel of the newest run: to nobody, once it ended.
cancel_session ==
  /\ client.cancels > 0
  /\ client' = [client EXCEPT !.cancels = @ - 1]
  /\ turn' = IF Running THEN [turn EXCEPT !.cancel = TRUE] ELSE turn
  /\ UNCHANGED <<sess, prompts, steers, news, sessions, max_rounds>>

\* A steer names the run it is meant for.
steer_session(s, expected) ==
  /\ steers[s] = "unsent"
  /\ IF sess.run # NoRun /\ sess.run = expected
     THEN /\ turn' = [turn EXCEPT !.steers = Append(@, s)]
          /\ steers' = [steers EXCEPT ![s] = "queued"]
     ELSE /\ steers' = [steers EXCEPT ![s] = "rejected"]
          /\ UNCHANGED turn
  /\ UNCHANGED <<sess, prompts, news, sessions, max_rounds, client>>

set_model_session(m) ==
  /\ m \in client.models
  /\ client' = [client EXCEPT !.models = @ \ {m}]
  /\ sess' = [sess EXCEPT !.model = m]
  /\ UNCHANGED <<turn, prompts, steers, news, sessions, max_rounds>>

-----------------------------------------------------------------------------
\* A prompt's task.

\* acquire_session, then run: the prompt is refused while another is in flight,
\* and when it has a block that is not text or is too large.
acquire_session(p) ==
  /\ prompts[p] = "spawned"
  /\ \/ /\ sess.busy
        /\ prompts' = [prompts EXCEPT ![p] = "rejected"]
        /\ UNCHANGED <<sess, turn>>
     \/ /\ ~sess.busy
        /\ prompts' = [prompts EXCEPT ![p] = "running"]
        /\ sess' = [sess EXCEPT !.busy = TRUE, !.run = p, !.history = <<>>]
        /\ \E valid \in BOOLEAN :
             turn' = [pc |-> IF valid THEN "top" ELSE "over",
                      stop |-> IF valid THEN "none" ELSE "error",
                      req |-> p, cancel |-> FALSE, steers |-> <<>>, round |-> 0, stops |-> 0,
                      history |-> IF valid THEN Append(sess.history, User(p)) ELSE sess.history,
                      usage |-> sess.usage, handoffs |-> sess.handoffs,
                      model |-> sess.model, calls |-> <<>>]
  /\ UNCHANGED <<steers, news, sessions, max_rounds, client>>

Over(t, stop) == [t EXCEPT !.pc = "over", !.stop = stop]
Step(t) == turn' = t /\ UNCHANGED <<sess, prompts, steers, news, sessions, max_rounds, client>>

\* The round boundary: limits, queued steers, then a hand-off or truncation.
drain_steers(t) ==
  [t EXCEPT !.history = @ \o [i \in DOMAIN t.steers |-> User(t.steers[i])], !.steers = <<>>]
Ask(t) == [t EXCEPT !.pc = "llm", !.round = @ + 1]
Truncated(t) == [t EXCEPT !.history = truncate_history(@)]
run_top ==
  /\ turn.pc = "top"
  /\ IF max_rounds > 0 /\ turn.round >= max_rounds
     THEN Step(Over(turn, "max_turn_requests"))
     ELSE IF turn.cancel THEN Step(Over(turn, "cancelled"))
     ELSE LET t == drain_steers(turn) IN
          /\ turn' = IF should_handoff(t.history, t.usage) /\ t.handoffs < MaxHandoffs
                     THEN [t EXCEPT !.pc = "handoff"]
                     ELSE Ask(Truncated(t))
          /\ steers' = [s \in Steers |->
                          IF \E i \in DOMAIN turn.steers : turn.steers[i] = s
                          THEN "read" ELSE steers[s]]
          /\ UNCHANGED <<sess, prompts, news, sessions, max_rounds, client>>

\* maybe_handoff: a cancel wins; an empty or failed summary means truncation;
\* otherwise the history starts afresh (the _PostCompact hooks add to the text).
maybe_handoff ==
  /\ turn.pc = "handoff"
  /\ \/ turn.cancel /\ Step(Over(turn, "cancelled"))
     \/ ~turn.cancel /\ Step(Ask(Truncated(turn)))
     \/ ~turn.cancel /\ Step(Ask([turn EXCEPT !.history = HandedOff(@), !.handoffs = @ + 1,
                                              !.usage = NoUsage]))

\* The model answers, or fails, or the turn is cancelled while it is asked.
Call(st, res, wire) == [st |-> st, out |-> "none", res |-> res, wire |-> wire]
NewCall == Call("todo", "none", "none")
Id == <<turn.req, turn.round>>
Reported(t) ==
  [t EXCEPT !.usage = [known |-> TRUE, tokens |-> context_pressure_bytes(t.history) \div 2,
                       bytes |-> context_pressure_bytes(t.history)]]
AnswerFinal(t) ==
  \/ Step(Over(t, "error"))  \* stop = tool_use without a call
  \/ \E text \in BOOLEAN, stop \in {"end_turn", "max_tokens", "refusal"} :
       LET u == [t EXCEPT !.history = Append(@, Assistant(Id, 0, text))]
       IN  Step(IF stop = "end_turn" /\ t.stops < StopMaxRejections
                THEN [u EXCEPT !.pc = "hook"] ELSE Over(u, stop))
AnswerCalls(t) ==
  \E n \in 1..(MaxToolCalls + 1) :
    LET k == IF n > MaxToolCalls THEN MaxToolCalls ELSE n
    IN  Step([t EXCEPT !.pc = "preflight", !.history = Append(@, Assistant(Id, k, FALSE)),
                       !.calls = [i \in 1..k |-> NewCall]])
complete ==
  /\ turn.pc = "llm"
  /\ \/ turn.cancel /\ Step(Over(turn, "cancelled"))
     \/ ~turn.cancel /\ Step(Over(turn, "error"))
     \/ /\ ~turn.cancel
        /\ \E t \in {turn, Reported(turn)} : AnswerFinal(t) \/ AnswerCalls(t)

\* The _Stop hooks: each objection goes back to the model.
stop_hooks ==
  /\ turn.pc = "hook"
  /\ \E objections \in 0..Servers :
       Step(IF objections = 0 THEN Over(turn, "end_turn")
            ELSE [turn EXCEPT !.pc = "top", !.stops = @ + 1,
                    !.history = push_hook_outputs_as_tool_results(@, Id, objections)])

-----------------------------------------------------------------------------
\* Tool calls: announced one by one, run in parallel, appended in call order.

append_results(t) ==
  [t EXCEPT !.history = @ \o [i \in DOMAIN t.calls |-> Result(Id, i, t.calls[i].res = "image")]]

\* A slot without a result is filled as cancelled, and said to have failed.
FillCancelled_Silent(calls, announced) ==
  [i \in DOMAIN calls |-> IF calls[i].res # "none" THEN calls[i]
                         ELSE Call("joined", "text", calls[i].wire)]
FillCancelled(calls, announced) ==
  [i \in DOMAIN calls |->
     IF calls[i].res # "none" THEN calls[i]
     ELSE Call("joined", "text", IF i \in announced THEN "terminal" ELSE calls[i].wire)]

NextCall == Min({i \in DOMAIN turn.calls : turn.calls[i].st = "todo"} \cup {Len(turn.calls) + 1})
execute_calls_preflight ==
  /\ turn.pc = "preflight"
  /\ NextCall <= Len(turn.calls)
  /\ IF turn.cancel
     THEN LET t == [turn EXCEPT !.calls = FillCancelled(@, 1..(NextCall - 1))]
          IN  Step(Over(append_results(t), "cancelled"))
     ELSE \E call \in {Call("joined", "text", "terminal"), \* load_skill, unknown tool, hook
                       Call("queued", "none", "pending")} :
            Step([turn EXCEPT !.calls[NextCall] = call])

execute_parallel_spawn ==
  /\ turn.pc = "preflight"
  /\ NextCall > Len(turn.calls)
  /\ Step([turn EXCEPT !.pc = IF turn.cancel THEN "drain" ELSE "exec"])

\* A task waits for a permit; once the semaphore is closed it fails instead.
Permits_Leaked == {i \in DOMAIN turn.calls : turn.calls[i].st \in {"running", "done", "joined"}}
Permits == {i \in DOMAIN turn.calls : turn.calls[i].st = "running"}
ToolStarts(i) ==
  /\ turn.pc = "exec"
  /\ turn.calls[i].st = "queued"
  /\ Cardinality(Permits) < MaxParallel
  /\ Step([turn EXCEPT !.calls[i].st = "running", !.calls[i].wire = "running"])

\* The call's result, its failure or timeout; a cancelled one fails.
Outcomes == IF turn.cancel THEN {"text"} ELSE {"text", "image"}
ToolEnds(i) ==
  /\ turn.pc \in {"exec", "drain"}
  /\ \/ turn.calls[i].st = "running"
     \/ turn.calls[i].st = "queued" /\ turn.pc = "drain"
  /\ \E res \in (IF turn.calls[i].st = "queued" THEN {"text"} ELSE Outcomes) :
       Step([turn EXCEPT !.calls[i].st = "done", !.calls[i].out = res,
                         !.calls[i].wire = "terminal"])
ToolPanics(i) ==
  /\ turn.pc \in {"exec", "drain"} /\ turn.calls[i].st = "running"
  /\ Step([turn EXCEPT !.calls[i].st = "done"])

\* join_next; a task that panicked leaves its slot empty.
ToolJoined(i) ==
  /\ turn.pc = "drain" \/ (turn.pc = "exec" /\ ~turn.cancel)
  /\ turn.calls[i].st = "done"
  /\ Step([turn EXCEPT !.calls[i].st = "joined", !.calls[i].res = turn.calls[i].out])

execute_parallel_cancelled ==
  /\ turn.pc = "exec" /\ turn.cancel
  /\ Step([turn EXCEPT !.pc = "drain"])

\* All joined, or the drain's deadline passed and the rest is aborted.
execute_calls_done ==
  /\ turn.pc \in {"exec", "drain"}
  /\ \/ \A i \in DOMAIN turn.calls : turn.calls[i].st = "joined"
     \/ turn.pc = "drain"
  /\ LET t == append_results([turn EXCEPT !.calls = FillCancelled(@, DOMAIN @)])
     IN  Step(IF turn.cancel THEN Over(t, "cancelled")
              ELSE [t EXCEPT !.pc = "top", !.calls = <<>>])

-----------------------------------------------------------------------------
\* The end: the session gets its state back under the lock, then the request
\* is answered.  The steers still queued are gone with the channel.

run_prompt_release ==
  /\ turn.pc = "over"
  /\ sess' = [sess EXCEPT !.busy = FALSE, !.run = NoRun, !.history = turn.history,
                          !.handoffs = turn.handoffs, !.usage = turn.usage]
  /\ prompts' = [prompts EXCEPT ![turn.req] = turn.stop]
  /\ turn' = NoTurn
  /\ steers' = [s \in Steers |-> IF \E i \in DOMAIN turn.steers : turn.steers[i] = s
                                 THEN "dropped" ELSE steers[s]]
  /\ UNCHANGED <<news, sessions, max_rounds, client>>

ToolStep ==
  \/ execute_calls_preflight
  \/ execute_parallel_spawn
  \/ execute_parallel_cancelled
  \/ execute_calls_done
  \/ turn.pc \in {"exec", "drain"} /\ \E i \in DOMAIN turn.calls :
       ToolStarts(i) \/ ToolEnds(i) \/ ToolPanics(i) \/ ToolJoined(i)

TurnStep ==
  run_top \/ maybe_handoff \/ complete \/ stop_hooks \/ ToolStep \/ run_prompt_release

Client ==
  \/ \E n \in News : session_new_check(n) \/ session_new_insert(n)
  \/ \E p \in Prompts : spawn_prompt(p)
  \/ cancel_session
  \/ \E s \in Steers, run \in Prompts : steer_session(s, run)
  \/ \E m \in client.models : set_model_session(m)

Next == Client \/ (\E p \in Prompts : acquire_session(p)) \/ TurnStep

Fairness ==
  /\ \A p \in Prompts : WF_vars(acquire_session(p))
  /\ WF_vars(TurnStep)
Spec == Init /\ [][Next]_vars
FairSpec == Spec /\ Fairness

-----------------------------------------------------------------------------

\* Every request body built from the history, for each provider API and at any
\* point where the model is asked or the session is idle, answers each tool call
\* exactly once and where that API wants it (llm.rs *_body after truncation,
\* hand-off, cancelled and aborted calls and hook objections), and the history
\* shown to the summariser fits the window.
RequestsWellFormed ==
  /\ turn.pc = "llm" => Acceptable(turn.history)
  /\ turn.pc = "none" => Acceptable(sess.history)
  /\ turn.pc = "handoff" =>
       build_handoff_prompt(turn.history).bytes <= handoff_prompt_budget_bytes

\* No tool call announced to the client is left pending or in progress when the
\* turn goes on to another round or ends (execute_calls: cancel in preflight, a
\* closed semaphore, a drain that times out).
ToolsSettled ==
  turn.pc \in {"top", "over"} =>
    \A i \in DOMAIN turn.calls : turn.calls[i].wire \in {"none", "terminal"}

\* Concurrent session/new requests never open more than max_sessions (checked,
\* then spawned, then checked again under the lock).
SessionsCapped == sessions <= MaxSessions

\* Every session/prompt is answered: the turn ends whatever the model, tools and
\* hooks do, and a refused prompt is refused at once (run's round limit, the
\* semaphore of execute_parallel, the release in run_prompt).
PromptsAnswered ==
  \A p \in Prompts : prompts[p] = "spawned" ~> prompts[p] \in Answers \cup {"rejected"}
=============================================================================
