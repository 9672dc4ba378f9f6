# Verification of buzz-solo

TLA+ models of buzz-solo: its relays, the processes that replicate between them,
the agent harness and the agent it runs, and the command line programs. TLC
checks the models on small instances; TLAPS proves the main invariants of the
event store and of the push process for every value of the constants. Paths below
are relative to the repository.

- [The system](#the-system)
- [How the models are built](#how-the-models-are-built)
- [Modules](#modules)
- [Runs](#runs)
- [Bounds](#bounds)
- [Fairness](#fairness)
- [Where code and documents disagree](#where-code-and-documents-disagree)
- [What is known not to hold](#what-is-known-not-to-hold)
- [Proofs](#proofs)
- [What is not modelled](#what-is-not-modelled)

## The system

buzz-solo is a personal relay for signed Nostr events, with tools that replicate
its journal to other relays and agents that live on the events. An event is
immutable: an id, an author, a kind, a timestamp, tags, a content and a
signature. Its kind makes it *ephemeral* (never stored), *replaceable* (one
winner per author and kind, or per author, kind and `d` tag) or *regular*.

- **Nodes.** The laptop relay (`crates/buzz-local-relay`) keeps an NDJSON log,
  serves WebSocket subscribers, and witnesses each change of its journal with a
  pulse. The rendezvous (`cloudflare/portable-relay`) is the same thing as a
  durable object. `buzz-relay-push` and `buzz-relay-pull` move records between
  them, `buzz-pulse-watch` runs them when a pulse arrives, `buzz-artifact-sync`
  fetches blobs. The push tool opens the relay's log file *itself*, beside the
  running relay.
- **Agents.** `crates/buzz-acp` subscribes to the agent's channels, decides which
  events concern it, queues them per channel, and drives a pool of agents over
  stdio. `crates/buzz-agent` is such an agent: sessions, a model client, tool
  servers. `crates/buzz-dev-mcp` is its tool server for shell and files.
- **Programs of one invocation.** `crates/buzz-cli` with its many commands,
  `buzz-pair` with the pair relay between two devices, and the two helpers that
  git runs.

What makes them hard is what happens between two steps: an append as three I/O
operations that can each fail or be cancelled; a reader of a file that does not
take its writer's lock; checkpoint files that are not replaced atomically;
retries of requests that may have had their effect; a turn that ends while a
cancel, a steer and a new event arrive; reconnects that replay; commands that
read, build and write while others do the same. `PROJECT.json` lists forty such
hazards at their lines, with the properties that cover them.

## How the models are built

A module keeps the control of the code it models (each state change, guard, early
return, error path, and their order) and abstracts its data to what the
properties tell apart. An action is a whole handler, or the part of one between
two awaits. Definitions have the names of the functions they stand for where TLA+
allows it; `PROJECT.json` maps each to its lines, and marks as external what
stands for the other side of a connection: a relay, a model provider, an editor
of a file.

A module that models a program with many settings has a constant `Plans` (or
`Workloads`), a set of records: what is configured, which commands run, what
others do, how many faults may happen. A behaviour draws one plan in its initial
state, and everything else in it is interleaving. A plan is a scenario's
ingredients, never its order.

The MC modules give the constants their values. `MCAgent`, `MCNodes` and
`MCClients` each hold several components that meet only through messages whose
other side each model leaves open; a behaviour follows one of them (`focus`,
chosen in the initial state), so that one run explores their union and not their
product. Where components really share state they are composed: the harness is
`EventQueue` (the queue's methods as operators) inside `Harness` (main loop,
pool, tasks), and the store is `Ingest` inside `EventStore`. `EventStore`
implements the abstract `DurableHistory` under a refinement mapping. The theorems
about a module are in a module of its name with the suffix `_proofs`; the account
of the harness's events has two of its own, `Ledger_proofs` and `Accounted_proofs`.

An operator with a suffix after an underscore (`Sync_NoBarrier`) is a mutant: the
definition as a plausible mistake would have written it. No specification uses
one; putting it in the place of its original makes the property that
`PROJECT.json` names fail.

## Modules

### The store and replication

`Ingest` has the decision kernel (`buzz-core/src/ingest.rs`) as operators with the
names of the Rust functions. An id is a number, since the code only compares it.
`Winners(S)` is the reference: what a set of events should show, written without
any order of application. `Covered(e, S)` says that `S` holds `e` or an event that
replaces it.

`EventStore` (`buzz-local-relay/src/lib.rs`):

| Variable | Code |
| --- | --- |
| `log`, `tail`, `synced` | the log file: its lines, how the last one ends, what `sync_data` covered |
| `mode`, `writer` | process down, inside `replay_log`, or serving; `StorageMode` |
| `events`, `journal`, `seen` | the fields of `StoreInner` |
| `queue`, `pc`, `arg` | the tokio mutex (first come, first served) and the callers of `accept` |
| `answers`, `aborted`, `faults` | history, for the properties and the bounds |

Its actions are `open` and `replay_log` line by line, the arms of the match on
`decide_event`, `write_all` with `flush`, `sync_data` and everything behind it,
the error returns of the append and a future dropped there, and the end of the
process. A write may reach the file in part (`TornWrites`): nothing of the
record, a part of it, or all but its newline; the next record is then glued to
the remainder. `DurableHistory` is the promise: a set of recoverable events that
only grows, and a set of acknowledged ones inside it.

`Push` (`bin/buzz-relay-push.rs` with `replication_ingest`): the cursor file (a
position, absent, or garbled), a page of scanned lines, requests cut by count and
bytes, one step per record at the destination, receipts, the halt at a rejection,
`persist_cursor` that may stop half-way. The journal may repeat a line and may
hold an older version of a head behind a newer one: both occur in real logs after
failed syncs. `Base` is the base of the cursor's numerals, small in the instances
so that numerals of two digits occur and can be cut.

### Nodes

| Module | Code | State and actions |
| --- | --- | --- |
| `LocalRelay` | `LocalRelay::submit_from`, `websocket_session`, pulses, Beacon rounds in `lib.rs` | submissions as tasks (store, broadcast, project, pulse), subscribers with a query and a bounded channel, rounds and responses judged by three clocks |
| `NodeAccess` | `identity.rs`, `declarations.rs`, `main.rs`, the artifact routes | start with the key's creation race, trust file and declarations, the proof ledger with its retention, requests to each route, uploads by temporary file and rename |
| `NodeSync` | `buzz-relay-pull.rs`, `buzz-pulse-watch.rs`, `buzz-artifact-sync.rs` | the page loop and its checkpoint, characters of the cursor file, drains with a timeout, remembered pulse, reconnection, the walk over blobs |
| `RelayNode` | `cloudflare/portable-relay/src/` | SQL tables, sockets that outlive an eviction, one operator per handler that returns the new state and its answer; a handler that throws keeps what it committed |

### The harness and the agent

| Module | Code | State and actions |
| --- | --- | --- |
| `EventQueue`, `Harness` | `buzz-acp`: `queue.rs`, `pool.rs`, `pool_lifecycle.rs`, main loop of `lib.rs` | per channel: pending, in flight, cancelled, withheld for a steer, throttled; slots with tasks, crash breaker, respawns; the biased select, one arm per step, dispatch included |
| `RelayConnection` | `relay.rs` | what the background task remembers: subscriptions with watermarks, seen ids, parked and rate-limited requests, the observer queue; commands, frames, loss and reconnection with a relay that rejects, closes and replays |
| `OwnerGate` | `filter.rs`, `config.rs`, gates in `lib.rs` | author modes and sibling cache, rules with evaluation permits and time-outs, merged channel filters, owner commands and control frames |
| `SetupMode` | `setup_mode.rs` | the listener that stands in for an agent that is not ready: start, subscriptions from the startup watermark, membership, the gates, one reply per mention over a connection that drops and replays |
| `AcpClient` | `acp.rs`, `usage.rs`, `run_prompt_task` | requests with ids, the agent's own requests, steers, cancel and drain, idle time-outs, token baselines |
| `Observer` | `observer.rs`, publisher in `lib.rs`, liveness guard in `pool.rs` | the bus as three unjoined steps, replay, coalescing, pacing |
| `AgentSession` | `buzz-agent`: `lib.rs`, `agent.rs`, `handoff.rs`, `types.rs`, `llm.rs` bodies | sessions and their cap, prompt tasks, rounds, parallel tools under permits, hooks, cancel, steer; history, truncation and the request bodies of three APIs |
| `McpServer` | `mcp.rs` | server processes, the state cell read without a lock, lazy restart under its lock, time-outs and kills |
| `LlmClient` | `llm.rs`, `auth.rs` | model resolution, collective and cool-down, retries, token refresh by compare and grant |
| `DevShell`, `DevFiles` | `buzz-dev-mcp` | a command's group, two reader tasks, exit, timeout and cancel; edits by temporary file, paged reads, todo, images |
| `Persona` | `buzz-persona`, `pack.rs` | load, validate, merge, resolve, the environment given to the agent's runtime; edits of the pack between two commands |

### Programs of one invocation

| Module | Code | State and actions |
| --- | --- | --- |
| `Pairing` | `pairing/session.rs`, `buzz-pairing-cli` | a source and several targets, messages lost, repeated and of strangers, users who confirm or deny, expiry |
| `PairRelay` | `buzz-pair-relay` | connection slots, one subscriber per key, ids reserved before delivery, budgets, rates, expiry |
| `Handoff` | `buzz-handoff-state.rs`, `context/handoff.rs`, `artifact_sync.rs` | commands of several hosts that read a state and post the next transition, replication between, the reducer as operators |
| `ContextNode` | `context/profile.rs`, `migrate.rs`, `durable.rs` init, `agreement.rs` | file steps of concurrent commands that may be killed |
| `ContextJournal` | `context/journal.rs`, `durable.rs` explore, `runtime.rs`, `mem.rs` below | save, load, list, log, share and sync between the local relay and the rendezvous; roots, targets and freshness |
| `CliClient` | `client.rs`, `buzz-ws-client` | retried and unretried requests, paging by cursor, the WebSocket exchange, exit codes |
| `CliWrites` | `mem.rs`, `notes.rs`, `emoji.rs`, `users.rs`, `engram.rs`, `engram_fetch.rs` | concurrent read-modify-write on one coordinate with skewed clocks |
| `Channels`, `Messages` | `channels.rs`, `channel_templates.rs`, `agents.rs`, `messages.rs`, `mentions.rs`, builders | templates as a sequence of requests, listings, edits; a send with uploads, parent and members; mentions and diff cuts over token sequences |
| `GitRepos`, `GitSign` | `repos.rs`, `patches.rs`, `pr.rs`, `issues.rs`, `git_perms.rs`; `git-sign-nostr`, `git-credential-nostr`, `shim.rs` | announcements rebuilt by several writers, push policy; signing, verification, status lines, credentials with ideal signatures |

## Runs

Nine runs pass and three find a violation of something the repository says. Each
finishes in under five minutes. The properties of the runs `agent`, `nodes` and
`clients` are conjunctions of the component modules' own properties, which are
named in brackets; the comment above each in its module says what it means for
the code.

| Run | Instance | Distinct states |
| --- | --- | --- |
| `store_faults` | two callers, torn writes, failed barriers, crashes, power losses | 1,509,479 |
| `store_history` | whole records lost, fair scheduling | 39,004 |
| `push_safety` | stops in the middle of a cursor write, failed requests, rejections, changing policy, other writers, records over the body limit; run again after each end | 548,499 |
| `harness_safety` | two slots, two channels, two events in steer mode, two faults, one owner command | 1,852,145 |
| `harness_live` | one lazily started slot, all three modes, an initial message, late tasks | 85,996 |
| `relay_conn` | one channel, two events, lost sockets, refused and rate-limited requests, membership changes | 675,644 |
| `agent` | nine components of the agent and the harness around it | 305,226 |
| `nodes` | the two kinds of node, requests, followers | 232,270 |
| `clients` | the programs of one invocation | 189,626 |
| `store_torn`, `push_power`, `relay_members` | see [below](#where-code-and-documents-disagree) | |

**`store_faults`**: `TypeOK`; `EffectiveIsWinners`, memory shows the winners of
its journal; `StoredSurvives`, what was answered "stored" is served by every later
open store, itself or its replacement; `LogOnce`, a line is repeated only after a
failed append of it. **`store_history`**: `HeadsKept` (HeadsNeverRegress,
AcceptedSurvives), `ImplementsHistory` (the refinement), and under fairness
`CallsReturn` and `Recovers`.

**`push_safety`**: `TypeOK`; `NoSilentGap`, the checkpoint passes no record the
destination lacks; `RequestsProgress`, no request is empty; `CheckpointAdvances`;
and under fairness `Converges`, every record of the stream arrives unless the
destination refuses one or a cursor file was cut short.

**`harness_safety`**: `Accounted`, every pushed event is in one place (queued, in
a turn, withheld, waiting to be merged) or has ended in one way; `TurnsExclusive`
(OneTurnPerChannel, SlotsExclusive, NoStaleSessions). **`harness_live`**:
`Settles`, every pushed event comes to an end.

**`relay_conn`**: `NothingTwice` (DeliveredOnce, NoResurrection) and
`ConnectionRecovers` (EventuallyLive, FramesSettle).

**`agent`**

| Property | Conjuncts |
| --- | --- |
| `RequestsWellFormed` | each request to a model answers every tool call once and in place, and a hand-off's prompt fits |
| `NothingLeftOver` | tools settled, sessions capped, one process per tool server |
| `PromptsAnswered` | liveness: each prompt is answered or refused |
| `ProviderUse` | a collective is used when confirmed, one token grant per rejected token |
| `WireAccounted` | AnswersMatch, RequestsAnswered, UsageOnce, SteersSettled |
| `ObserverFaithful` | InOrder, NoLifeAfterEnd, NothingForgotten, PaceKept |
| `GateDecides` | AuthorsAdmitted, RuleDecides, EvalsBounded, NothingCut, AnswersTrue; setup mode: NudgedOnce, NudgesHelp, MentionsServed |
| `PersonasResolved` | ValidIsUsable, Precedence, PromptWhole, EnvironmentTrue |
| `ToolsTruthful` | GroupGone, OutputAccounted, ArtifactsThere, FileWhole, EditExact, PagesCover, TasksAccounted, ImageBounded |

**`nodes`**

| Property | Conjuncts |
| --- | --- |
| `SubscribersServed` | NothingMissed (laptop), SubscriberComplete (rendezvous, through evictions) |
| `Witnessed` | HeadWitnessed, ResponsesCounted, PulseChain |
| `OnceAndWhole` | ProofUsedOnce, NodeProofOnce, BlobsWhole, KeyStable |
| `SyncCovered` | PulledBehindCursor, AckCovered |
| `Follows` | liveness: every exported record and its blob arrive |

**`clients`**

| Property | Conjuncts |
| --- | --- |
| `PairedAgree`, `PairingCompletes` | who holds the secret was confirmed by both users; a pairing that nothing disturbs completes |
| `PairRelayExact` | PairOnce, OneSubscriber, SlotsReturned |
| `HandoffsEvidenced` | PostedIsHeard, ClosedOnEvidence, NoClaimPassedOver, ManifestsBacked, OnlyEvidenceMoves |
| `ContextKept` | ProfileWhole, NoMixedState, ProfileKept, InitPresent, InitAuthored, DeclaredCounts, MatchedIsPinned; journal: LoadsCurrent, SelectionKept, ExploreTrue |
| `WritesTrue` | ModerationOnce, ReportedIsHeld, PagesExact, MemoryTakes, SuccessIsReal, OthersKept, PatchOnBase, NudgeIsTrue |
| `GitFaithful` | GoodIsSigned, StatusWhole, OneKey, CredentialFits, PushRespectsRules, MetadataKept, NoLeapfrog, SetIsHead, WorkFound |
| `ChannelsTrue` | AmbiguityCreatesNothing, ReportTrue, ArchivedStayOut, ListingExact, EditsNamedOnly, ThreadComplete, TagsMatchText, AuthorUnambiguous, DiffFits |

Deadlock is checked in the runs of the store, of push, of the harness and of the
relay connection. In `agent`, `nodes` and `clients` it is not: a session, a
command or a pairing ends, and then its behaviour stops.

## Bounds

- **Store**: a note, two versions of one parameterized head with *equal*
  timestamps, an ephemeral event and one that does not verify. Two callers are
  enough for one to hold the mutex and one to wait. Three log lines hold a record,
  its repetition after a failed append and a later one; three faults are a failed
  sync, a crash inside the replay that follows, and a power loss. `store_history`
  has two lines and two faults, for its liveness part. Callers are symmetric, used
  for safety only.
- **Push**: three lines, pages of two, requests cut by count and by size (two
  small records fit, the newer head exceeds the limit alone), two faults, numerals
  in base two.
- **Harness**: two events on two channels. The safety run has a queue of one per
  channel, so that it overflows, batches of two, one retry and a crash breaker of
  two, each of them reached. It checks `TurnsExclusive` without tasks that run on
  after the in-flight deadline (`LateTasks`), for which it is false (below).
  Channels are symmetric, for safety only.
- **Relay connection**: one channel beside the membership subscription, two
  events, time up to two, an event channel and an observer queue of one, so that
  both fill. Four workloads divide the commands and the faults, among them a frame
  between a removal from the channel and a re-admission.
- **`agent`, `nodes`, `clients`**: the cfg files hold the caps (sessions, history,
  permits, rings, rates, pages, slots), small enough to be reached and
  exceeded. The plans say what is combined; they were chosen so that every action
  of every module is taken.
- Time is a number that ticks to a small maximum; windows and time-outs are small
  numbers whose order is that of the code's. Sizes are numbers with the code's
  comparisons at their edges. Where clocks of different hosts matter, they may
  disagree.

## Fairness

Only steps that the runtime takes by itself are fair; users, other writers and
faults are never.

| Module | Fair | Because |
| --- | --- | --- |
| `EventStore` | start, replay, each call in `accept` | launchd keeps the relay running (`ops/macos/launchd/com.buzz.local-relay.plist.template`); awaits complete; the tokio mutex is first come, first served |
| `Push` | start, page, send, receive, persist, the destination's step | launchd and the watcher run the tool again after each end; a request in flight is handled |
| `NodeSync` | steps of pull, watch and walk | as above; the watcher reconnects in a loop |
| `Harness` | loop, tasks, wakes, respawns, passing of cool-downs and throttles | tokio runs ready tasks, timers expire. Strong fairness for the top of the loop that reaches dispatch and for the retry of a wake: both recur, but other arms of the biased select may come first |
| `RelayConnection` | the background task, expiring gates, the consumer; the pacing tick strongly | the tick is one arm of a select that is entered again and again |
| `AgentSession` | the session lock, steps of a turn | the tokio mutex is fair; models and tools answer or time out |
| `Pairing` | both programs' steps | each waits under a deadline |

`Recovers` is checked without torn writes, with which it is false (`store_torn`).
`PairingCompletes` has what it needs in its premise: both users confirm and no
message is lost.

## Where code and documents disagree

Each of these is a run in which TLC finds a violation.

1. **A torn append makes the log unreadable** (`store_torn`). Nothing removes the
   remainder of a record whose write stopped half-way, and `replay_log` refuses
   the line. `specs/TELOS.md:32` says "Acknowledged durable events survive
   restart."; they are in the file, but the relay does not open it.
2. **The pusher may run ahead of the durability barrier** (`push_power`). It reads
   lines the relay has not synced. After a power loss at the source its cursor
   points beyond the log, and the line that is written there next is skipped.
   `checkpoint_safe` promises to advance "without silently dropping an event".
3. **A replayed removal wins over a re-admission of the same second**
   (`relay_members`). Notifications are replayed newest first, and a removal whose
   timestamp equals the newest is still obeyed. `buzz-acp/src/lib.rs:1652` says
   "the first event per channel is authoritative".

## What is known not to hold

Met while modelling; the properties above are stated so that they do not claim it.

- **Store and push.** Replay may serve more than the process did: after a failed or
  abandoned `sync_data` the record is in the file and not in memory
  (`specs/models/local-event-log/local-event-log.model.yaml` says "the same
  effective event set as the original process"). A "duplicate" that is answered
  from a line not yet synced can be lost with the power. A stop inside
  `persist_cursor` leaves an empty, cut or garbled file; the first two only
  repeat work, the last ends every later run until the file is removed. A pusher
  that reads the log while a line of it is half written ends with
  `MalformedRecord`; it has changed nothing and is started again, so the model has
  no step for it.
- **Nodes.** A torn append to the proof ledger makes the next start fail, and a
  crash while the relay key is written leaves an empty key file. Trust is
  evaluated at the start only. A drain that times out kills the shell of
  `scripts/buzz-drain` and not the pull behind it, so two pulls may run at once. One
  that writes an older cursor over a newer one only repeats work. But
  `persist_cursor` truncates and writes without a lock, and two writers at once
  can leave characters of both: a position that neither reached, and records
  before it that are never pulled, against the header of `buzz-relay-pull.rs`
  ("interrupted pulls resume without loss"). `SyncCovered` and `Follows` except a
  file that two pulls wrote at the same time (`mixed`). At the rendezvous a declaration that does not
  evaluate stops pulses until it is replaced.
- **Harness.** A batch that is requeued after it was merged with a cancelled one
  loses the cancelled part (`queue.rs` around 429 and 508), against the comment in
  `lib.rs` that it "must survive with no retry/dead-letter accounting". A task
  that outlives the in-flight deadline still runs while its channel starts another turn
  (`crates/buzz-acp/README.md:260`: "at most one prompt in flight"). `queue.rs:482` says
  "trim oldest" where the newest are removed. `acp.rs` returns early in two places
  without giving back a pending steer.
- **Relay connection.** A frame that `drain_commands` writes on a new connection
  stays in `observer_in_flight` when that connection fails in the same drain:
  `try_autonomous_reconnect` and `wait_for_reconnect` requeue before their loop and
  not between two attempts. It is sent again only when a later loss or rate limit
  requeues it, although `relay.rs:1199` says "conservatively retry every frame
  without an OK". `FramesSettle` excepts exactly these frames (`"stranded"`).
- **Observer.** `emit` takes its number before it puts the event into the buffer.
  When another emit overtakes it in between and the publisher takes its snapshot
  then, the event is neither in the snapshot nor above its highest number, and is
  passed over (`lib.rs:475`). `lib.rs:420` says that "an event emitted between the
  two calls is never lost: it lands in the snapshot, the live receiver, or both".
  `NothingForgotten` excepts exactly these events (`Overtaken`).
- **Setup mode.** The reply is a durable message on a path that drops messages
  while the connection is down or rate-limited, although `relay.rs:1488` says
  that this path carries only ephemeral kinds; it is logged as published and not
  repeated. `MentionsServed` ends at the attempt. `handle_setup_membership`
  compares no timestamps, unlike the harness, while a replay brings the newest
  notification first: a removal and a re-admission made during a disconnection
  are applied in the wrong order. A replay that breaks in its middle has moved the
  watermark to the newest event that came, and the older ones are not asked for
  again beyond the slack of five seconds. `MentionsServed` speaks of channels whose
  notifications came in order and of mentions that no broken replay passed over.
- **Agent.** A steer that was accepted during the last round is not read.
  `PromptsAnswered` is checked with one to three rounds; the default of
  `BUZZ_AGENT_MAX_ROUNDS` is 0, no limit (`config.rs:808`), and a model that always
  asks for another tool then keeps its prompt open. A call that
  cannot be sent to its tool server returns an error without marking the server
  dead (`mcp.rs:584`), against "After a timeout or transport break, the offending
  server is marked dead" in `crates/buzz-agent/README.md:223`.
- **Personas.** `resolve_one_persona` drops a blank model, and the empty provider
  of a model that starts with a colon; `runtime_env_vars` passes both on, so that
  the process is given what `inspect` does not show. `EnvironmentTrue` excepts
  these two. `resolve_skills` of `pack.rs` is called by tests only.
- **Developer tools.** A daemon that leaves its process group keeps its output to
  itself. `str_replace` reads, edits and renames: an edit made meanwhile by
  another program is overwritten.
- **Pairing.** The QR text is shown before the source subscribes, so an early
  offer may be lost. A second publisher of an event is told "duplicate" while the
  first delivery may still fail.
- **Command line.** A stored write that ends in a connect failure is reported as safe
  to repeat, though an earlier attempt of it may have been stored (`client.rs`: "the
  relay provably never executed them"). A channel made from a template is made
  again by a rerun. "Superseded" is reported as success. `mem patch` compares the hash
  with what it read: a write after that is replaced (`mem.rs:529`: "makes concurrent
  edits safe"). `repos create` over an announcement drops
  its protection tags. Two rebuilds of one announcement carry the same second, and
  the one with the smaller id erases the other's rule, which the choice of the
  timestamp is to avoid (`repos.rs:129`, "silently erase metadata"); `NoLeapfrog`
  admits that tie. A listing that pages by cursor misses an address whose event is
  replaced before its page is read, since the replacement is newer than the
  cursor; `channels.rs:435` chose the cursor because "offset drift can silently
  skip a live instance". `PagesExact` is about events that are still there at the
  end. `messages thread` lists the newest replies up to its limit.
  `messages.rs:390` says of an author that "a name must match exactly one user":
  the search behind it returns at most 100 profiles, and a namesake beyond them is
  not seen (`AuthorUnambiguous` excepts a search that reached its limit). Both
  relays of this repository refuse `search`, and with it every author given by
  name, and `depth_limit` (`buzz-local-relay/src/lib.rs:2330`,
  `cloudflare/portable-relay/src/protocol.ts:74`).
- **Context.** `install_profile` renames whatever has the temporary name by then.
  Of three migrations that passed the checks together, one may have found the
  finished file of the first there, and then rename the empty one that the second
  has created since. The profile is whole when the second has written it, and
  stays empty when that one is killed (`migrate.rs:140`: "atomically install a
  profile"). `ProfileWhole` admits a torn profile only then. A kill may leave a
  temporary file, and two inits at once make two
  presence records. `load` of a memory that is deleted locally asks the
  rendezvous, which may still hold it; `ls` does not ask it. A default
  `streams.json` that disappears makes `sync` replicate the whole journal.

## Proofs

TLAPS checks every proof to its leaves, for all values of the constants: every set
of events, number of callers, page and request limit, and number of faults.

| Module | Results |
| --- | --- |
| `EventStore_proofs` | `TypeCorrect` (`TypeOK`), `MemoryShowsWinners` (`EffectiveIsWinners`), `StoredIsServed` (`StoredSurvives`), `LogHoldsOnce` (`LogOnce`), `HeadsAreMonotone` (`HeadsNeverRegress`); without torn writes `HeadsAreKept` (`HeadsKept`) and the refinement `StoreImplementsHistory` (`ImplementsHistory`). Lemmas about `Ingest`: the winner order is total and transitive; applying an event to the winners of a set gives the winners of the larger set (`ApplyWinners`); what is covered stays covered (`CoveredStays`) |
| `Push_proofs` | `PushTypeCorrect` (`TypeOK`), `CheckpointNeverBack` (`CheckpointAdvances`), `RequestsNotEmpty` (`RequestsProgress`), and without power losses `NoRecordSkipped` (`NoSilentGap` and `CursorInRange`) |
| `Harness_proofs` | `SlotsHaveOneOwner` (`SlotsExclusive` and `NoStaleSessions`); without late tasks `TurnsAreExclusive` (`TurnsExclusive`) |
| `Ledger_proofs` | what each method of `EventQueue` does to the events of a channel (`FlushTidy`, `RequeueTidy` and the like), and what each transfer does to the account (`AccountClaims`, `AccountReturns`, `AccountSettles`) |
| `Accounted_proofs` | `EventsAreAccounted` (`Accounted`) |
| `PairRelay_proofs` | `PairRelayIsExact` (`PairRelayExact`) |
| `Pairing_proofs` | `PairedDevicesAgree` (`PairedAgree`) |

**Assumptions on the constants.** `EventsAssumption` (events are records of the
right fields and an id identifies an event), `StoreAssumption` and
`PushAssumption` (the parameters have their types, a page has at least one line,
the numeral base is at least two), `AgentsAssumption` (the number of slots is a
natural number, zero included), `ChannelsAssumption` (the two markers of the
task map are no channels) and `QueueAssumption` (every event has a `created_at`,
the limits of the queue are natural numbers, and a channel may hold at least one
event). `ConstantsFit` says of the pairing sidecar that an id
is kept for more than twice the freshness window (`ENTRY_TTL` is 300 seconds,
`FRESHNESS_SECS` 120), that two frames with one event id carry one timestamp,
since the id is the event's hash, and that finitely many connections are made;
`DevicesDistinct` says that the source is none of its targets.

**Hypotheses on what happens.** Four theorems exclude a fault, and each time a
run or a known counterexample shows that it must be excluded. `NoRecordSkipped`
has `~PowerLosses` (`push_power`). `StoreImplementsHistory` and `HeadsAreKept`
have `~TornWrites`: a glued line takes an acknowledged record with it
(`store_torn`). `TurnsAreExclusive` has `~LateTasks`: when the in-flight
deadline of a channel passes while its task still runs, the next turn starts
beside it. The deadline is `max_turn` and a buffer, and a task ends its turn at
`max_turn`, so this takes a task that is held up for the length of the buffer.
`SlotsHaveOneOwner` and `EventsAreAccounted` hold with such tasks too.

**The store's argument.** `StoredSurvives` is not inductive: it speaks of an open
store, and a restart rebuilds everything from the file. The invariant `IInv` adds
where an acknowledged event is while the store is closed (`AckStable`: behind the
barrier), that what replay has read is a beginning of the log (`ReplayPrefix`),
that an open store has every acknowledged event in its journal (`AckInJournal`),
and that the journal is covered by the effective events (`JournalCovered`, with
`EffectiveIsWinners` and `ApplyWinners`). `CallsOK` gives mutual exclusion, so
that the last line of the log is the record that is being synced, and `TailOK`
says that a record without a newline is never behind the barrier. If an
acknowledged record was glued to the remainder of another one, `AckStable` has
the glued line instead, which replay refuses: that store is never up again, and
the theorem says nothing of it. That is disagreement 1.

Two further invariants stand on `IInv`. `OnceInv`, for `LogOnce`, says how an
open store knows each line of its file: the event is in `seen_ids`, an append of
it failed, or the call that holds the mutex is syncing it. `WholeInv`, for the
file system without torn writes, says that no line is glued and that everything
in memory is covered by the log, the losing candidates in `seen_ids` included.
With it every step maps to a step of `DurableHistory` or a stutter: the synced
part of the log only grows (`StablePrefix`), the acknowledgements only grow
(`AckGrows`), and where no line is glued `AckStable` puts each of them among the
recoverable events.

**The pusher's argument** has two layers. `Control` is what the process knows of
itself: the cursor in memory is the one in the file, and behind it follow, in
this order, the safe records, those in the request and those still to be posted.
It holds whatever happens to the source log, and gives the first three theorems.
`Delivery` relates this to the destination: each position that the file holds,
that is being written, or that a receipt names has been delivered up to. The step
that needs care is the last request of a page, where the cursor jumps to the end
of the scan: `RecordsOK` says that every record up to there is delivered, posted
or still to be posted. Cut numerals are harmless because a beginning of a numeral
is a smaller number (`NumeralPrefixesSmaller`) and what is delivered up to a
position is delivered up to each smaller one (`DeliveredBefore`).

**The harness's argument.** `Owned` relates the five places that know something
of a slot: the pool, `task_map`, the results and panics on their way, the
respawns, and the heartbeat flag. It has to be stronger than `SlotsExclusive` in
two places. A result on its way belongs to a task that has nothing else to do
(`ResultsOK`), for otherwise the task could send again or panic after its result;
and a slot that is being respawned has no agent (`SlotOK`), for otherwise
`return_agent` could meet an occupied slot. `TInv` adds `TurnsOK`: a channel is
in flight in the queue exactly when one task of the map is about it. Each
operation of the queue then needs a lemma about the single flag `inflight`, and
each arm of the select one about the slot that changes hands. `dispatch_pending`
is a loop, in the model a recursive function over its rounds: that a whole
dispatch preserves both invariants is an induction over the rounds, done with the
least round that would break them (`LeastExists`).

**The account of the events.** `Accounted` is about the contents of every queue,
batch and buffer at once, and no single operation keeps it: `flush_next` takes
events from a channel, `requeue` gives them back, a result carries them across the
loop. `AInv` has three layers. Every queue, batch and buffer is a `Row`, a
sequence without repetitions, with lemmas for what the stable sort, the cut at
`MaxBatch` and the trimming at `MaxPending` do to one; the sort is defined by
ranks, and that every rank is taken exactly once is a counting argument
(`FiniteSetTheorems`). The record of a channel is `Tidy`: the queue, the events
waiting to be merged, the withheld ones and those given up are apart. `Ledger`
divides the pending events among the channels (`Books`) and the slots (`Hands`: a
slot holds the batch of its task or that of its result on the way). Each arm of
the select then is one of a few moves of the ledger: from a channel to a slot,
back, in, or off. That a slot holds one batch, and not two, is `Owned` of the
argument before.

**The sidecar's argument.** That no event is handed over twice depends on time:
an id is forgotten after `ENTRY_TTL`, and its event could be reserved again if it
were still fresh. `SeenFresh` says that an event was no further in the
future than the freshness window when its id was kept; so when the id is
forgotten, more than two windows later, the event is stale (`Barred`), and stays
so. `ReservedOnce` says that between the reservation and its end no second
connection holds the id, and that the connection that undoes a reservation has
not delivered it.

**The pairing's argument** follows the messages. `MailOK` says what an event on
its way proves of its sender, whatever was lost, repeated or reordered: a payload
was sent by a source whose user has confirmed, to the target that user saw; a
completion by a target that holds the secret. `AskedOK` ties the stage of a
session to its user's answer, and `PeersOK` that a source that asks has a peer
and keeps it.

**Only model-checked.**

- All liveness (`CallsReturn`, `Recovers`, `Converges`, `Settles`,
  `ConnectionRecovers`, `PromptsAnswered`, `Follows`, `PairingCompletes`), since
  fairness is beyond this prover.
- `NothingTwice` of the relay connection, and the properties of the runs `agent`,
  `nodes` and `clients` other than the two above, where a result holds for the
  instances and plans given and no further.

## What is not modelled

- **Stateless predicates**: signature verification, filter evaluation, network
  address checks. A signature that verifies, an event that matches, are inputs.
  Cryptography is ideal in `Pairing` and `GitSign`.
- **Formats**: JSON codecs, wire formats of model providers beyond the shape of a
  request's messages, front matter, QR text, prompt texts, listings on a terminal.
- **Wiring**: argument parsing, environment look-up, start-up of the harness, of
  the pair relay and of the tool server, agent configuration and hint files.
- **Reports**: `context` observation and doctor, search and tree of the developer
  tools; they read and change nothing.
- **Commands of one builder and one submission** (reactions, reports, direct
  messages, workflows and the like): `CliClient` has the submission; the builders only fill in
  fields.
- **Left out of a modelled handler**: the failure paths of the initial message
  (`pool.rs:1628`) in `AcpClient`, which take no usage; the projections that
  `materialize_existing_nip29_state` repeats when the laptop relay starts, without a
  pulse; the comparison of a return's content with its `x` tags (`handoff.rs:473`),
  since the returns this program writes agree with themselves. `evaluate_push` is
  called by tests only, and `GitRepos` calls it as a git server behind the relay
  would.
- **Outside the way the tools are run**: two pushers on one cursor file; a
  destination that answers with fewer receipts than records.
- **Interfaces without an implementation here**: the traits of `buzz-auth`. The
  TLA+ files in `docs/spec` describe services that are not in this repository.

Of parts that are modelled in part, the notes in `PROJECT.json` say what is left
out.
