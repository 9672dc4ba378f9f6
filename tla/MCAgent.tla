------------------------------- MODULE MCAgent -------------------------------
(***************************************************************************)
(* An agent for TLC: buzz-agent's session, one of its MCP servers and its  *)
(* model client; the developer tools it calls; and buzz-acp around it: the *)
(* client of its stdio protocol, the observer feed, the gate in front of   *)
(* the queue and the persona packs.  They meet through lines and results   *)
(* (a tool call's outcome, a model's answer), which each component's model *)
(* leaves open, so a behaviour follows one of them, chosen at the start.   *)
(***************************************************************************)
EXTENDS Integers, Sequences, FiniteSets

CONSTANTS ImageBytes, ImageTokens, MaxHistory, MaxContext, MaxOutput, HandoffOutput,
          Prompts, Steers, News, Workloads, DefaultModel, MaxSessions, MaxHandoffs,
          StopMaxRejections, MaxToolCalls, MaxParallel, Servers
VARIABLES sess, turn, prompts, steers, news, sessions, max_rounds, client
Session == INSTANCE AgentSession
sessionVars == <<sess, turn, prompts, steers, news, sessions, max_rounds, client>>

CONSTANTS Tools, Hooks, MaxAttempts, MaxProcs, MaxCalls
VARIABLES server, procs, spawned, lock, calls, hook_timeouts, made
Mcp == INSTANCE McpServer
mcpVars == <<server, procs, spawned, lock, calls, hook_timeouts, made>>

CONSTANTS Requests, MaxRetries, EnableAfter, MaxObserved, MaxFaults, MaxExpiries
VARIABLES mesh, upgraded, token, holder, reqs, granted, revoked, confirmed, observed, faults
Llm == INSTANCE LlmClient
llmVars == <<mesh, upgraded, token, holder, reqs, granted, revoked, confirmed, observed, faults>>

CONSTANTS p1, p2, s1, n1, n2
Work(p, s, n, m, c, r) ==
  [prompts |-> p, steers |-> s, news |-> n, models |-> m, cancels |-> c, rounds |-> r]
\* Two prompts of one round; a steered and cancelled one of two; one of three;
\* two session/new requests for the last place; nothing (another component).
NoWork == Work({}, {}, {}, {}, 0, 1)
MCWorkloads ==
  {Work({p1, p2}, {}, {}, {}, 0, 1), Work({p1}, {s1}, {}, {}, 1, 2),
   Work({p1}, {}, {}, {}, 0, 3), Work({p1}, {}, {n1, n2}, {"other"}, 0, 1), NoWork}

\* buzz-acp's client of the agent's stdio protocol.
CONSTANTS MaxIds, MaxTokens
VARIABLES acpPlan, c, out, acpAgent, steer, usage, book
acpVars == <<acpPlan, c, out, acpAgent, steer, usage, book>>
Talk == [goose |-> FALSE, initial |-> FALSE, model |-> FALSE, mode |-> FALSE, ids |-> {}, says |-> {},
         sends |-> 0, sessions |-> 1, steers |-> {}, faults |-> 0]
\* Settings refused at session/new; requests of the agent with ids of ours; usage
\* reports, late ones and of two sessions; a steer into a running turn.
Talks == {
  [Talk EXCEPT !.goose = TRUE, !.model = TRUE, !.mode = TRUE, !.says = {"error", "nomethod"},
               !.sends = 2, !.sessions = 2, !.faults = 1],
  [Talk EXCEPT !.ids = {2, 3}, !.says = {"allow", "unknown", "neither"}, !.sends = 1, !.faults = 1],
  [Talk EXCEPT !.initial = TRUE, !.says = {"usage"}, !.sends = 1, !.sessions = 2],
  [Talk EXCEPT !.says = {"usage"}, !.sends = 3],
  [Talk EXCEPT !.says = {"run"}, !.sends = 2, !.steers = {"x"}, !.faults = 1]}
Acp == INSTANCE AcpClient WITH
  plan <- acpPlan, agent <- acpAgent, Plans <- Talks, Steers <- {"x"}, MaxSessions <- 2

\* The observer feed.
CONSTANTS Turns, BufferCap, MaxText, Interval, Limit, Window, MaxTime
VARIABLES obsPlan, bus, obsTurn, obsLive, pub, pace, frames, now, dropped
obsVars == <<obsPlan, bus, obsTurn, obsLive, pub, pace, frames, now, dropped>>
Feed(one, two) == [script |-> <<one, two>>, ends |-> TRUE, pings |-> 0, drops |-> 0, clock |-> FALSE,
                   early |-> TRUE]
\* Chunks of one kind and of two; two turns at once; a lost connection; text
\* between tools.
Feeds == {
  [Feed(<<"turn_started", "message", "message", "tool">>, <<>>) EXCEPT !.pings = 1],
  Feed(<<"message", "thought", "message", "message">>, <<>>),
  [Feed(<<"turn_started", "message">>, <<"message">>) EXCEPT !.ends = FALSE, !.early = FALSE],
  [Feed(<<"turn_started", "tool", "tool">>, <<>>) EXCEPT !.drops = 1, !.clock = TRUE],
  Feed(<<"message", "tool", "message", "tool", "message">>, <<>>)}
Obs == INSTANCE Observer WITH plan <- obsPlan, turn <- obsTurn, live <- obsLive, Plans <- Feeds

\* The gate: settings, authors, rules, owner's commands.
CONSTANTS MaxEvals, MaxTimeouts, MaxCached, Freshness
VARIABLES gatePlan, gatePc, cur, dm, at, attest, meta, siblings, info, subs, strikes, permits,
          gateLive, last, task, gateAgent, gateAnswer
gateVars == <<gatePlan, gatePc, cur, dm, at, attest, meta, siblings, info, subs, strikes, permits,
              gateLive, last, task, gateAgent, gateAnswer>>
Event(a, chan, k, m, t) == [author |-> a, chan |-> chan, kind |-> k, mention |-> m, text |-> t]
Rule(n, f) == [name |-> n, scope |-> "all", ids |-> {}, loose |-> {}, kinds |-> {}, mention |-> FALSE,
               filter |-> f, yes |-> {"hi"}]
Frame(b, g, t, m) == [by |-> b, age |-> g, type |-> t, model |-> m, sound |-> TRUE]
Settings == [
  heartbeat |-> 0, liveness |-> 0, bigPrompt |-> FALSE, badList |-> FALSE, idle |-> 0, turn |-> 0,
  mode |-> "owner-only", list |-> {}, allowed |-> {}, handling |-> "steer", dedup |-> "queue",
  kinds |-> {}, sub |-> "mentions", nomention |-> FALSE,
  rules |-> <<>>, chans |-> {}, tag |-> "good", flag |-> FALSE, ignoreSelf |-> TRUE, members |-> {"a"},
  later |-> {}, archived |-> {}, dms |-> {"d"}, meta |-> {"a", "d"}, events |-> <<>>, frames |-> <<>>,
  turns |-> 0, catalog |-> {"m1"},
  attest |-> [self |-> "none", owner |-> "none", sib |-> "ours", soon |-> "soon", lst |-> "none",
              str |-> "forged"]]
Heard(es) == [Settings EXCEPT !.events = es, !.members = {"a", "d"}]
Msg(a, chan) == Event(a, chan, "msg", TRUE, "hi")
Says(a, t) == Event(a, "a", "msg", TRUE, t)
Idly(t) == Event("owner", "a", "msg", FALSE, t)
otherKind == Event("owner", "a", "other", FALSE, "hi")
Config(es, rules) == [Heard(es) EXCEPT !.sub = "config", !.members = {"a"}, !.rules = rules]
\* Authors of every standing under each mode; settings that are refused; channels
\* joined later and archived; rules that are slow, broken, overlapping; commands
\* and control frames during turns.
Gates == {
  Heard(<<Msg("sib", "d"), Msg("str", "a"), Msg("owner", "d"), Msg("self", "a")>>),
  [Heard(<<Msg("soon", "a"), Msg("lst", "a"), Msg("soon", "a"), Msg("sib", "a")>>) EXCEPT
     !.tag = "bad", !.flag = TRUE],
  [Heard(<<Msg("lst", "d"), Msg("lst", "a"), Msg("str", "a")>>) EXCEPT
     !.mode = "allowlist", !.list = {"lst"}, !.meta = {"a"}],
  [Heard(<<Msg("str", "d"), Msg("str", "a"), Msg("str", "d")>>) EXCEPT
     !.mode = "anyone", !.members = {"a"}, !.later = {"d"}, !.meta = {}],
  [Heard(<<Msg("owner", "a"), Msg("sib", "d")>>) EXCEPT !.mode = "nobody"],
  [Heard(<<Msg("owner", "a"), Msg("sib", "a")>>) EXCEPT !.tag = "none"],
  [Settings EXCEPT !.mode = "allowlist"], [Settings EXCEPT !.handling = "interrupt", !.dedup = "drop"],
  [Settings EXCEPT !.allowed = {"nobody"}], [Settings EXCEPT !.heartbeat = 5],
  [Settings EXCEPT !.liveness = 4], [Settings EXCEPT !.bigPrompt = TRUE], [Settings EXCEPT !.turn = 91],
  [Settings EXCEPT !.mode = "allowlist", !.list = {"lst"}, !.badList = TRUE],
  Config(<<>>, <<Rule("w", "none"), Rule("x", "none"), Rule("y", "none"), Rule("z", "none")>>),
  Config(<<>>, <<Rule("x", "long")>>), [Settings EXCEPT !.idle = 70], Config(<<>>, <<Rule("x", "unparsable")>>),
  Config(<<>>, <<Rule("x", "none"), Rule("x", "none")>>),
  [Heard(<<Msg("owner", "a"), Msg("owner", "b"), otherKind>>) EXCEPT
     !.sub = "all", !.chans = {"a"}, !.members = {"a", "b", "z"}, !.archived = {"z"}, !.later = {"d"},
     !.meta = {"z"}],
  [Config(<<Idly("no"), otherKind, Msg("owner", "b"), Msg("owner", "a")>>,
          <<[Rule("x", "slow") EXCEPT !.scope = "list", !.ids = {"a"}, !.kinds = {"msg"}],
            [Rule("y", "none") EXCEPT !.mention = TRUE, !.scope = "list", !.loose = {"b"}, !.ids = {"a"}]>>)
     EXCEPT !.later = {"b"}],
  Config(<<Idly("no"), Msg("owner", "a"), Idly("no"), Msg("owner", "a"), Msg("owner", "a"),
           Msg("owner", "a")>>,
         <<Rule("x", "slow"), Rule("y", "plain"), [Rule("z", "none") EXCEPT !.mention = TRUE]>>),
  Config(<<Idly("no"), Msg("owner", "a")>>, <<Rule("x", "broken"), Rule("y", "none")>>),
  [Heard(<<Says("sib", "!shutdown"), Says("owner", "!rotate"), Says("owner", "!cancel"),
           Says("owner", "!shutdown")>>) EXCEPT !.turns = 2],
  [Settings EXCEPT !.turns = 3,
     !.frames = <<Frame("owner", 0, "switch_model", "m1"), Frame("owner", 0, "cancel_turn", "none"),
                  Frame("owner", -2, "switch_model", "m2")>>],
  [Settings EXCEPT !.turns = 3,
     !.frames = <<Frame("owner", 3, "switch_model", "m1"), Frame("str", 0, "cancel_turn", "none"),
                  Frame("owner", 0, "switch_model", "m2"), Frame("owner", 1, "switch_model", "m1"),
                  Frame("owner", 1, "other", "none")>>]}
Gate == INSTANCE OwnerGate WITH
  plan <- gatePlan, pc <- gatePc, live <- gateLive, agent <- gateAgent, answer <- gateAnswer,
  Plans <- Gates, MaxTurnCeiling <- 90, MaxRules <- 3

\* Persona packs.
CONSTANTS MaxName
VARIABLES packPlan, packPc, packCmd, loaded, verdict, valid, resolved
packVars == <<packPlan, packPc, packCmd, loaded, verdict, valid, resolved>>
Trig(m, k, a) == [mentions |-> m, keywords |-> k, all |-> a]
Given(m, t) == [model |-> m, temperature |-> t, context |-> t, thread |-> "absent"]
File == [where |-> "inside", size |-> "small", name |-> "a", set |-> Given("m1", "absent"),
         text |-> <<"D", "N", "Y", "N", "D", "N", "T", "N", "D", "N", "T">>, subscribe |-> <<>>,
         triggers |-> <<>>, skills |-> {}, runtime |-> "none", servers |-> [x \in {"s"} |-> "own"]]
Second == [File EXCEPT !.name = "b"]
Pack == [
  json |-> TRUE, id |-> "i", personas |-> <<File>>, instructions |-> "absent", mcp |-> "absent",
  defaults |-> [set |-> Given("m2", "t"), subscribe |-> <<{"c"}>>,
                triggers |-> <<Trig("no", {"k"}, "yes")>>, triggers_type |-> "right"],
  servers |-> [x \in {"s", "r"} |-> IF x = "s" THEN "shared" ELSE "absent"], mcpParses |-> TRUE,
  badNames |-> {"!"}, unknownKeys |-> FALSE, skillNamesDiffer |-> FALSE, blanks |-> {"blank"},
  length |-> [x \in {"a", "b", "!", "long", ""} |-> IF x = "long" THEN 9 ELSE 1],
  provider |-> [x \in {"m1", "m2", "blank", ":m"} |->
                  IF x = "m1" THEN "p" ELSE IF x = ":m" THEN "" ELSE "absent"]]
Loads(p) == [pack |-> p, edits |-> {}]
Only(f) == Loads([Pack EXCEPT !.personas = <<f>>])
Opt(S) == {<<>>} \cup {<<s>> : s \in S}
Front == {<<"D">> \o t : t \in UNION {[1..n -> {"D", "N", "Y", "T"}] : n \in 3..4}} \cup
         {<<"D", "R", "N", "Y", "R", "N", "D", "R", "N", "T">>, <<"T">>,
          <<"D", "N", "Y", "N", "D", "T", "N", "D", "N", "T">>, <<"D", "N", "D", "T", "N", "D">>}
\* Packs that are refused at each check, an edited one, every combination of own
\* and default settings, and every short persona file.
Packs ==
  {Loads(Pack), [Loads(Pack) EXCEPT !.edits = {[Pack EXCEPT !.id = ""],
                                               [Pack EXCEPT !.personas = <<Second, File>>]}]} \cup
  {Loads(p) : p \in {
     [Pack EXCEPT !.json = FALSE], [Pack EXCEPT !.id = ""], [Pack EXCEPT !.personas = <<>>],
     [Pack EXCEPT !.personas = <<File, File>>], [Pack EXCEPT !.instructions = "missing"],
     [Pack EXCEPT !.mcpParses = FALSE], [Pack EXCEPT !.mcp = "outside"],
     [Pack EXCEPT !.defaults.triggers_type = "null", !.defaults.triggers = <<>>],
     [Pack EXCEPT !.defaults.triggers_type = "wrong"],
     [Pack EXCEPT !.personas = <<[File EXCEPT !.skills = {"x"}, !.set = Given("blank", "t")], Second>>,
                  !.unknownKeys = TRUE],
     [Pack EXCEPT !.personas = <<[File EXCEPT !.set = Given(":m", "absent")],
                                 [Second EXCEPT !.skills = {"x", "y"}, !.runtime = "buzz-agent"]>>,
                  !.skillNamesDiffer = TRUE]}} \cup
  {Only([File EXCEPT !.name = n]) : n \in {"!", "long", ""}} \cup {Only([File EXCEPT !.size = "big"])} \cup
  {Only([File EXCEPT !.where = w]) : w \in {"outside", "missing", "absolute", "dotdot"}} \cup
  {Loads([Pack EXCEPT !.personas = <<[File EXCEPT !.triggers = t, !.subscribe = s, !.set = Given(m, "absent")]>>,
                      !.defaults.triggers = d, !.defaults.subscribe = e]) :
     t, d \in Opt({Trig("absent", {}, "absent"), Trig("no", {"k"}, "yes")}), s, e \in Opt({{}, {"c"}}),
     m \in {"m1", "absent"}} \cup
  {Only([File EXCEPT !.text = t]) : t \in Front}
Personas == INSTANCE Persona WITH plan <- packPlan, pc <- packPc, cmd <- packCmd, Plans <- Packs

\* The developer tools: the shell.
CONSTANTS Calls, CaptureCap, MaxBytes, MaxLines, TailBytes, RingSize
VARIABLES shellPlan, call, proc, pipe, ring, disk, next_call_id, shellAnswer
shellVars == <<shellPlan, call, proc, pipe, ring, disk, next_call_id, shellAnswer>>
Quiet == [writes |-> <<>>, child |-> "none", stubborn |-> FALSE, ends |-> TRUE]
Loud == [Quiet EXCEPT !.writes = <<<<"stdout", <<"x", "n">>>>, <<"stderr", <<"l", "c", "x">>>>,
                                   <<"stdout", <<"l", "c", "x">>>>>>]
Long == [Quiet EXCEPT !.writes = <<<<"stdout", <<"n", "n">>>>, <<"stderr", <<"x", "x", "x", "x">>>>>>]
Endless == [Quiet EXCEPT !.ends = FALSE]
Pipes(a, b) ==
  [commands |-> <<a, b>>, shell |-> "found", cancels |-> 0, drops |-> 0, faults |-> 0]
\* Output cut in the middle of a character or over a cap, children in and out of
\* the group, commands that ignore SIGTERM or never end, no shell.
Shells == {
  [Pipes(Loud, [Quiet EXCEPT !.child = "group", !.stubborn = TRUE]) EXCEPT !.cancels = 1],
  Pipes([Loud EXCEPT !.child = "group"], Endless),
  [Pipes([Loud EXCEPT !.child = "session"], Quiet) EXCEPT !.drops = 1],
  [Pipes(Loud, [Endless EXCEPT !.stubborn = TRUE]) EXCEPT !.faults = 1, !.cancels = 1],
  Pipes(Loud, Long), [Pipes(Quiet, Quiet) EXCEPT !.shell = "missing"]}
Shell == INSTANCE DevShell WITH plan <- shellPlan, answer <- shellAnswer, Plans <- Shells

\* The developer tools: files, tasks and images.
CONSTANTS MaxFile, MaxItems, MaxSource, MaxFinal, MaxPixels, MinDim, MaxDim
VARIABLES filePlan, fileServer, file, whole, edit, page, todo, image
fileVars == <<filePlan, fileServer, file, whole, edit, page, todo, image>>
NoImage == [kind |-> "none", stat |-> 0, sizes |-> <<>>, w |-> 1, h |-> 1, dim |-> 1, each |-> 1,
            blocks |-> <<>>]
Empty == [text |-> <<>>, edits |-> {}, writes |-> {}, limit |-> 0, lists |-> {}, image |-> NoImage,
          faults |-> 0]
Todo(n, p, d) == [text |-> <<n, p>>, done |-> d]
Texts == UNION {[1..n -> {"a", "b", "n"}] : n \in 0..4}
Edit(a, b, all) == [old |-> a, new |-> b, all |-> all]
Edits == {Edit(a, b, all) : a \in {<<>>, <<"a">>, <<"a", "b">>, <<"a", "a">>},
                            b \in {<<>>, <<"b", "a", "b">>}, all \in BOOLEAN}
Images ==
  [kind : {"url", "path"}, stat : {3, 9}, sizes : {<<3>>, <<4, 4>>, <<4, 5>>, <<>>}, w : {1, 5},
   h : {2, 5, 9}, dim : {0, 3, 9}, each : {1, 2}, blocks : {<<"img", "end">>}] \cup
  [kind : {"data"}, stat : {3, 8}, sizes : {<<>>}, w : {2}, h : {2}, dim : {3}, each : {1},
   blocks : {<<"ext", "img", "img">>, <<"ext", "img", "junk", "img">>}]
\* Every short file paged and edited; images of every size against the caps; two
\* edits and another writer; task lists.
FilePlans ==
  {[Empty EXCEPT !.text = t, !.limit = l] : t \in Texts, l \in 1..2} \cup
  {[Empty EXCEPT !.text = t, !.edits = {e}] : t \in Texts, e \in Edits} \cup
  {[Empty EXCEPT !.image = i] : i \in Images} \cup
  {[Empty EXCEPT !.text = <<"a", "n">>, !.writes = {<<"a", "b">>}, !.faults = 1, !.limit = 1,
      !.edits = {Edit(<<"a">>, <<"b">>, FALSE), Edit(<<"b">>, <<"a", "a">>, TRUE)}],
   [Empty EXCEPT !.lists = {
      <<>>, <<Todo("t", FALSE, FALSE)>>, <<Todo("t", TRUE, FALSE), Todo("u", FALSE, FALSE)>>,
      <<Todo("u", FALSE, TRUE)>>, <<Todo("t", TRUE, FALSE), Todo("t", FALSE, TRUE)>>,
      <<Todo("v", FALSE, FALSE), Todo("bad", FALSE, FALSE)>>, <<Todo("v", FALSE, FALSE)>>,
      <<Todo("t", FALSE, FALSE), Todo("u", FALSE, FALSE), Todo("v", FALSE, FALSE)>>}]}
Files == INSTANCE DevFiles WITH plan <- filePlan, server <- fileServer, Plans <- FilePlans

\* The listener of an agent that is not ready.
CONSTANTS Rooms
VARIABLES setPlan, setLog, members, setup, setSubs, link, nudged, nudges, lost, left
setupVars == <<setPlan, setLog, members, setup, setSubs, link, nudged, nudges, lost, left>>
Posted(k, ch, a, m, r) == [kind |-> k, ch |-> ch, author |-> a, mentions |-> m, root |-> r]
Ask(ch, a) == Posted("message", ch, a, TRUE, 0)
Moves(k, ch) == Posted(k, ch, "relay", TRUE, 0)
NotReady == [
  raw |-> "set", needs |-> {"field", "config"}, mode |-> "anyone", scope |-> {},
  kinds |-> {"message", "approval"}, dms |-> {"d"}, members |-> {"a"}, events |-> <<>>, drops |-> 0,
  faults |-> 0, paces |-> FALSE, forgets |-> FALSE]
\* Channels joined and left during the start and a disconnection; a direct message
\* of a stranger; messages of other kinds, in threads, without a mention; rules
\* that cover one channel; no payload, and one that does not parse.
Listeners == {
  [NotReady EXCEPT !.events = <<Ask("a", "owner"), Moves("added", "b"), Ask("b", "other")>>, !.drops = 1,
                   !.forgets = TRUE],
  [NotReady EXCEPT !.events = <<Moves("removed", "a"), Moves("added", "a"), Ask("a", "owner")>>, !.drops = 1,
                   !.needs = {"config"}],
  [NotReady EXCEPT !.events = <<Moves("added", "d"), Ask("d", "other"), Ask("d", "owner")>>, !.faults = 1,
                   !.needs = {"git", "config"}],
  [NotReady EXCEPT !.events = <<Ask("a", "self"), Posted("approval", "a", "owner", TRUE, 1),
                                Posted("reminder", "a", "owner", TRUE, 0),
                                Posted("message", "a", "owner", FALSE, 0)>>, !.paces = TRUE, !.needs = {}],
  [NotReady EXCEPT !.events = <<Ask("a", "owner"), Ask("b", "owner")>>, !.members = {"a", "b"},
                   !.scope = {"b"}, !.mode = "owner-only", !.needs = {"login", "install", "key"}],
  [NotReady EXCEPT !.raw = "absent"], [NotReady EXCEPT !.raw = "malformed"],
  [NotReady EXCEPT !.mode = "nobody", !.events = <<Ask("a", "owner")>>]}
Unready == INSTANCE SetupMode WITH
  plan <- setPlan, log <- setLog, subs <- setSubs, Plans <- Listeners, Channels <- Rooms

VARIABLE focus
vars == <<focus, sessionVars, mcpVars, llmVars, acpVars, obsVars, gateVars, packVars, shellVars, fileVars,
          setupVars>>

HasWork ==
  (\E p \in Prompts : prompts[p] = "unsent") \/ (\E n \in News : news[n] = "unsent")
\* A component that is not followed starts with a plan of its own.
Some(x, plans) == x = CHOOSE p \in plans : TRUE
Init ==
  /\ focus \in {"session", "mcp", "llm", "acp", "obs", "gate", "pack", "shell", "files", "setup"}
  /\ Session!Init /\ (focus = "session" <=> HasWork)
  /\ Mcp!Init /\ Llm!Init
  /\ Acp!Init /\ (focus # "acp" => Some(acpPlan, Talks))
  /\ Obs!Init /\ (focus # "obs" => Some(obsPlan, Feeds))
  /\ Gate!Init /\ (focus # "gate" => Some(gatePlan, Gates))
  /\ Personas!Init /\ (focus # "pack" => Some(packPlan, Packs))
  /\ Shell!Init /\ (focus # "shell" => Some(shellPlan, Shells))
  /\ Files!Init /\ (focus # "files" => Some(filePlan, FilePlans))
  /\ Unready!Init /\ (focus # "setup" => Some(setPlan, Listeners))

Next ==
  \/ focus = "session" /\ Session!Next
     /\ UNCHANGED <<focus, mcpVars, llmVars, acpVars, obsVars, gateVars, packVars, shellVars, fileVars, setupVars>>
  \/ focus = "mcp" /\ Mcp!Next
     /\ UNCHANGED <<focus, sessionVars, llmVars, acpVars, obsVars, gateVars, packVars, shellVars, fileVars, setupVars>>
  \/ focus = "llm" /\ Llm!Next
     /\ UNCHANGED <<focus, sessionVars, mcpVars, acpVars, obsVars, gateVars, packVars, shellVars, fileVars, setupVars>>
  \/ focus = "acp" /\ Acp!Next
     /\ UNCHANGED <<focus, sessionVars, mcpVars, llmVars, obsVars, gateVars, packVars, shellVars, fileVars, setupVars>>
  \/ focus = "obs" /\ Obs!Next
     /\ UNCHANGED <<focus, sessionVars, mcpVars, llmVars, acpVars, gateVars, packVars, shellVars, fileVars, setupVars>>
  \/ focus = "gate" /\ Gate!Next
     /\ UNCHANGED <<focus, sessionVars, mcpVars, llmVars, acpVars, obsVars, packVars, shellVars, fileVars, setupVars>>
  \/ focus = "pack" /\ Personas!Next
     /\ UNCHANGED <<focus, sessionVars, mcpVars, llmVars, acpVars, obsVars, gateVars, shellVars, fileVars, setupVars>>
  \/ focus = "shell" /\ Shell!Next
     /\ UNCHANGED <<focus, sessionVars, mcpVars, llmVars, acpVars, obsVars, gateVars, packVars, fileVars, setupVars>>
  \/ focus = "files" /\ Files!Next
     /\ UNCHANGED <<focus, sessionVars, mcpVars, llmVars, acpVars, obsVars, gateVars, packVars, shellVars, setupVars>>
  \/ focus = "setup" /\ Unready!Next
     /\ UNCHANGED <<focus, sessionVars, mcpVars, llmVars, acpVars, obsVars, gateVars, packVars, shellVars, fileVars>>

Spec == Init /\ [][Next]_vars /\ Session!Fairness

-----------------------------------------------------------------------------

\* Every request to a provider answers each tool call once and in place, and
\* the summariser's prompt fits (AgentSession: truncation, hand-off, cancelled
\* calls and hook objections, rendered by llm.rs for the three APIs).
RequestsWellFormed == Session!RequestsWellFormed

\* Nothing an agent started is left over: no announced tool call is unfinished
\* when a round or a turn ends (ToolsSettled, agent.rs execute_calls and
\* execute_parallel), concurrent session/new requests respect max_sessions
\* (SessionsCapped, lib.rs session_new), and there is one process per MCP server
\* and no orphan (OneProcess, mcp.rs maybe_restart, spawn_one, kill_server).
NothingLeftOver == Session!ToolsSettled /\ Session!SessionsCapped /\ Mcp!OneProcess

\* Every prompt is answered or refused (lib.rs run_prompt, agent.rs run).
PromptsAnswered == Session!PromptsAnswered

\* The collective is used only after enough confirmations (CollectiveConfirmed,
\* llm.rs resolve_openai_model, cool_down_collective), and requests rejected with
\* one token share one grant (GrantsNeeded, auth.rs refresh_now).
ProviderUse == Llm!CollectiveConfirmed /\ Llm!GrantsNeeded

\* On the wire between buzz-acp and its agent a reply is taken for the request it
\* answers (AnswersMatch), every request of the agent is answered
\* (RequestsAnswered), tokens are counted once (UsageOnce), and every steer is
\* acknowledged or given back (SteersSettled): acp.rs, usage.rs.
WireAccounted ==
  Acp!AnswersMatch /\ Acp!RequestsAnswered /\ Acp!UsageOnce /\ Acp!SteersSettled

\* The observer feed of a turn arrives in order (InOrder), a turn that ended is
\* not shown alive (NoLifeAfterEnd), nothing that was merged or that came while the
\* publisher started is lost, but for one race (NothingForgotten), and the pace stays under the relay's (PaceKept):
\* observer.rs and lib.rs of buzz-acp.
ObserverFaithful == Obs!InOrder /\ Obs!NoLifeAfterEnd /\ Obs!NothingForgotten /\ Obs!PaceKept

\* The gate of buzz-acp lets through the authors its mode names
\* (AuthorsAdmitted), by the first rule that matches (RuleDecides), within its
\* evaluation permits (EvalsBounded); the subscriptions cut nothing a rule wants
\* (NothingCut); and the answer to an owner's control frame is true
\* (AnswersTrue): config.rs, filter.rs, lib.rs.  The listener that stands in for
\* an agent that is not ready answers the same authors, each mention once
\* (NudgedOnce), with what helps (NudgesHelp), and every mention in every channel
\* of the agent (MentionsServed): setup_mode.rs.
GateDecides ==
  /\ [](Gate!AuthorsAdmitted /\ Gate!RuleDecides /\ Gate!EvalsBounded /\ Gate!NothingCut)
  /\ [](Unready!NudgedOnce /\ Unready!NudgesHelp /\ Unready!MentionsServed)
  /\ Gate!AnswersTrue

\* A pack that validates can be used (ValidIsUsable), a setting comes from the
\* persona before the pack's defaults (Precedence), a prompt keeps its text
\* (PromptWhole), and the environment of its agent says what inspect shows
\* (EnvironmentTrue): buzz-persona.
PersonasResolved ==
  Personas!ValidIsUsable /\ Personas!Precedence /\ Personas!PromptWhole /\ Personas!EnvironmentTrue

\* The developer tools: no process of a finished command is left in its group
\* (GroupGone), what a command wrote is in the answer, the artifact or counted as
\* cut (OutputAccounted, ArtifactsThere); a file never holds half a write
\* (FileWhole), an edit replaces what it was asked to (EditExact), following the
\* offsets reads every line once (PagesCover), no task disappears silently
\* (TasksAccounted), an image sent is within its caps (ImageBounded): buzz-dev-mcp.
ToolsTruthful ==
  /\ Shell!GroupGone /\ Shell!OutputAccounted /\ Shell!ArtifactsThere
  /\ Files!FileWhole /\ Files!EditExact /\ Files!PagesCover /\ Files!TasksAccounted
  /\ Files!ImageBounded
=============================================================================
