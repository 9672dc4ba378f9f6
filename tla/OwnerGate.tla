------------------------------ MODULE OwnerGate ------------------------------
(***************************************************************************)
(* What decides whether an event becomes a turn of the agent: the          *)
(* harness's start (arguments, rules, channel discovery, subscriptions),   *)
(* the inbound author gate with its two caches, the subscription rules     *)
(* with their time-limited filter expressions, the owner's commands, and   *)
(* the owner's control frames (buzz-acp/src/{lib,config,filter,pool}.rs).  *)
(* The main loop handles one event at a time; every await in it is a step, *)
(* and profiles, channel metadata, finished evaluations and turns move in  *)
(* between.                                                                *)
(***************************************************************************)
EXTENDS Integers, Sequences, FiniteSets

CONSTANTS
    Plans,         \* the settings, channels, rules, events and frames of a run
    MaxEvals,      \* MAX_CONCURRENT_FILTER_EVALS
    MaxTimeouts,   \* MAX_CONSECUTIVE_TIMEOUTS
    MaxCached,     \* the sibling cache's 256 entries
    Freshness,     \* OBSERVER_CONTROL_FRESHNESS_SECS
    MaxTurnCeiling,  \* MAX_TURN_DURATION_CEILING_SECS
    MaxRules         \* the 100 rules of a configuration file

VARIABLES
    plan,      \* the run's plan
    pc,        \* where the harness is
    cur,       \* the event the loop holds
    dm,        \* what the gate takes its channel for
    at,        \* the rule match_event is at
    attest,    \* author -> what its profile's auth tag is worth
    meta,      \* channels whose metadata the relay holds
    siblings,  \* OwnerCache.siblings
    info,      \* ChannelInfoResolver.cache
    subs,      \* channel -> the filter subscribed with
    strikes,   \* consecutive_timeouts of each rule
    permits,   \* permits of FILTER_EVAL_SEMAPHORE in use
    live,      \* blocking evaluations still running
    last,      \* the event pushed last, with the rule it matched
    task,      \* the in-flight turn's task-map entry
    agent,     \* the pooled agent: session, desired_model, catalogue
    answer     \* the control_result emitted last

vars == <<plan, pc, cur, dm, at, attest, meta, siblings, info, subs, strikes,
          permits, live, last, task, agent, answer>>
gate == <<attest, meta, siblings, info, subs>>
pool == <<task, agent>>
evals == <<permits, live>>

Owner == "owner"
AllKinds == {"msg", "approval", "reminder", "other"}
NoEvent == [author |-> "none"]
NoPush == [ev |-> NoEvent, rule |-> 0]
NoTask == [on |-> FALSE, tx |-> FALSE, got |-> "none", model |-> "none"]
NoAnswer == [status |-> "none", model |-> "none"]

(***************************************************************************)
(* Settings.                                                               *)
(***************************************************************************)
IdleTimeout(a) == IF a.idle = 0 THEN 1 ELSE a.idle
MaxTurn(a) == IF a.turn = 0 THEN 60 ELSE a.turn

from_args(a) ==
    /\ a.heartbeat = 0 \/ a.heartbeat >= 10
    /\ a.liveness = 0 \/ a.liveness >= 5
    /\ ~a.bigPrompt                 \* a base prompt file over 1 MB
    /\ a.turn <= MaxTurnCeiling
    /\ IdleTimeout(a) < MaxTurn(a)
    /\ a.mode = "allowlist" => a.list # {} /\ ~a.badList    \* validate_allowlist
    /\ a.allowed = {} \/ a.mode \in a.allowed
    /\ a.handling # "queue" => a.dedup = "queue"

DefaultKinds == {"msg", "approval", "reminder"}
MentionKinds(p) == IF p.kinds = {} THEN DefaultKinds ELSE p.kinds
Synthetic(kinds, mention) ==
    [name |-> "rule", scope |-> "all", ids |-> {}, loose |-> {},
     kinds |-> kinds, mention |-> mention, filter |-> "none", yes |-> {}]

rules(p) ==
    CASE p.sub = "mentions" -> <<Synthetic(MentionKinds(p), ~p.nomention)>>
      [] p.sub = "all" -> <<Synthetic(p.kinds, FALSE)>>
      [] OTHER -> p.rules

\* A file with too many rules, a nameless or repeated rule, a filter that is too
\* long or does not parse, or a scope word other than "all" stops the start.
load_rules(rs) ==
    /\ Len(rs) <= MaxRules
    /\ \A i \in 1..Len(rs) : /\ rs[i].name # ""
                             /\ rs[i].filter \notin {"unparsable", "long"}
                             /\ rs[i].scope \in {"all", "list"}
    /\ \A i, j \in 1..Len(rs) : rs[i].name = rs[j].name => i = j

\* OwnerCache.get: a verified attestation, else the flag.
HasOwner == plan.tag = "good" \/ plan.flag

(***************************************************************************)
(* Channels and their subscriptions.  A listed channel id is written as    *)
(* the relay writes it (ids) or in another spelling of the same UUID       *)
(* (loose): the subscription parses it, the rule compares text.            *)
(***************************************************************************)
rule_applies_to_channel(r, c) == r.scope = "all" \/ c \in r.ids \cup r.loose

matches(r, c) == r.scope = "all" \/ c \in r.ids

KindsOf(r) == IF r.kinds = {} THEN AllKinds ELSE r.kinds

Merged_Strictest(rs, c) ==
    LET on == {i \in 1..Len(rs) : rule_applies_to_channel(rs[i], c)}
    IN [kinds |-> UNION {KindsOf(rs[i]) : i \in on},
        mention |-> \E i \in on : rs[i].mention]

Merged(rs, c) ==
    LET on == {i \in 1..Len(rs) : rule_applies_to_channel(rs[i], c)}
    IN [kinds |-> UNION {KindsOf(rs[i]) : i \in on},
        mention |-> \A i \in on : rs[i].mention]

FilterFor(p, c) ==
    CASE p.sub = "mentions" -> [kinds |-> MentionKinds(p), mention |-> ~p.nomention]
      [] p.sub = "all" -> [kinds |-> KindsOf([kinds |-> p.kinds]), mention |-> FALSE]
      [] OTHER -> Merged(p.rules, c)

InScope(p, c) ==
    IF p.sub = "config"
    THEN \E i \in 1..Len(p.rules) : rule_applies_to_channel(p.rules[i], c)
    ELSE p.chans = {} \/ c \in p.chans

resolve_channel_filters(p, found) ==
    [c \in {x \in found : InScope(p, x)} |-> FilterFor(p, c)]

resolve_dynamic_channel_filter(p, c) == FilterFor(p, c)

\* What the relay sends on a subscription.
Carried(f, e) == e.kind \in f.kinds /\ (f.mention => e.mention)

(***************************************************************************)
(* Start: arguments, rules, discovery, subscriptions.                      *)
(***************************************************************************)
Start ==
    /\ pc = "start"
    /\ pc' = IF from_args(plan) /\ load_rules(rules(plan))
             THEN "discover" ELSE "refused"
    /\ UNCHANGED <<plan, cur, dm, at, gate, strikes, evals, last, pool, answer>>

\* Archived channels are left out; one without metadata is kept, its type
\* unknown and so not cached.
merge_discovered_channels(joined) ==
    [found |-> joined \ (plan.archived \cap meta), typed |-> joined \cap meta]

discover_channels ==
    /\ pc = "discover"
    /\ \/ pc' = "refused" /\ UNCHANGED <<subs, info>>
       \/ LET d == merge_discovered_channels(plan.members)
          IN /\ subs' = resolve_channel_filters(plan, d.found)
             /\ info' = d.typed \ plan.archived
             /\ pc' = "loop"
    /\ UNCHANGED <<plan, cur, dm, at, attest, meta, siblings, strikes, evals,
                   last, pool, answer>>

\* A membership notification for a channel joined later.
MemberAdded(c) ==
    /\ pc = "loop" /\ c \in plan.later /\ c \notin DOMAIN subs /\ InScope(plan, c)
    /\ subs' = [x \in DOMAIN subs \cup {c} |->
                  IF x = c THEN resolve_dynamic_channel_filter(plan, c) ELSE subs[x]]
    /\ UNCHANGED <<plan, pc, cur, dm, at, attest, meta, siblings, info, strikes,
                   evals, last, pool, answer>>

(***************************************************************************)
(* The world moves on.                                                     *)
(***************************************************************************)
Attests(a) ==
    /\ pc # "start" /\ attest[a] = "soon"
    /\ attest' = [attest EXCEPT ![a] = "ours"]
    /\ UNCHANGED <<plan, pc, cur, dm, at, meta, siblings, info, subs, strikes,
                   evals, last, pool, answer>>

Described(c) ==
    /\ pc # "start" /\ c \in plan.members \cup plan.later /\ c \notin meta
    /\ meta' = meta \cup {c}
    /\ UNCHANGED <<plan, pc, cur, dm, at, attest, siblings, info, subs, strikes,
                   evals, last, pool, answer>>

\* A blocking evaluation returns and drops its permit.
EvalEnds ==
    /\ live > 0
    /\ live' = live - 1 /\ permits' = permits - (IF permits > 0 THEN 1 ELSE 0)
    /\ UNCHANGED <<plan, pc, cur, dm, at, gate, strikes, last, pool, answer>>

(***************************************************************************)
(* An event arrives.  The loop's order: own events, the owner's commands,  *)
(* the author gate, the rules, the queue.                                  *)
(***************************************************************************)
Receive ==
    /\ pc = "loop" /\ plan.events # <<>>
    /\ LET e == Head(plan.events)
       IN /\ plan' = [plan EXCEPT !.events = Tail(@)]
          /\ IF /\ e.chan \in DOMAIN subs /\ Carried(subs[e.chan], e)
                /\ ~(plan.ignoreSelf /\ e.author = "self")
             THEN cur' = e /\ pc' = "command"
             ELSE UNCHANGED <<cur, pc>>
    /\ UNCHANGED <<dm, at, gate, strikes, evals, last, pool, answer>>

is_owner_control_command(e) ==
    e.kind = "msg" /\ e.mention /\ e.text \in {"!shutdown", "!cancel", "!rotate"}

signal_in_flight_task_Again(signal, model) ==
    IF task.on
    THEN task' = [task EXCEPT !.tx = FALSE, !.got = signal, !.model = model]
    ELSE UNCHANGED task

\* The signal's sender is taken with the first signal of a turn.
signal_in_flight_task(signal, model) ==
    IF task.on /\ task.tx
    THEN task' = [task EXCEPT !.tx = FALSE, !.got = signal, !.model = model]
    ELSE UNCHANGED task

Command ==
    /\ pc = "command"
    /\ IF is_owner_control_command(cur) /\ HasOwner /\ cur.author = Owner
       THEN /\ pc' = IF cur.text = "!shutdown" THEN "stopped" ELSE "loop"
            /\ CASE cur.text = "!shutdown" -> UNCHANGED pool
                 [] cur.text = "!cancel" ->
                      signal_in_flight_task("cancel", "none") /\ UNCHANGED agent
                 [] OTHER ->
                      IF task.on
                      THEN signal_in_flight_task("rotate", "none") /\ UNCHANGED agent
                      ELSE agent' = [agent EXCEPT !.session = "none"] /\ UNCHANGED task
       ELSE pc' = "channel" /\ UNCHANGED pool
    /\ UNCHANGED <<plan, cur, dm, at, gate, strikes, evals, last, answer>>

\* fetch_channel_info tries twice; a failure or missing metadata leaves the
\* channel unresolved.
resolve(ok) == IF cur.chan \in info THEN info
               ELSE IF ok /\ cur.chan \in meta THEN info \cup {cur.chan} ELSE info

is_dm_channel_Open(known) == cur.chan \in known /\ cur.chan \in plan.dms

is_dm_channel(known) == cur.chan \in known => cur.chan \in plan.dms

Channel ==
    /\ pc = "channel"
    /\ \E ok \in BOOLEAN :
         /\ info' = resolve(ok)
         /\ dm' = is_dm_channel(resolve(ok))
    /\ pc' = "author"
    /\ UNCHANGED <<plan, cur, at, attest, meta, siblings, subs, strikes, evals,
                   last, pool, answer>>

\* The first profile's auth tags: one naming our owner must verify.  A query
\* that fails or takes two seconds counts as no.
check_sibling_via_profile(a, ok) == ok /\ attest[a] = "ours"

cache_sibling(a, yes) ==
    LET kept == IF Cardinality(DOMAIN siblings) >= MaxCached
                THEN {} ELSE DOMAIN siblings
    IN [x \in kept \cup {a} |-> IF x = a THEN yes ELSE siblings[x]]

\* Who needs no lookup.
Settled(a) == ~HasOwner \/ a = Owner \/ a \in DOMAIN siblings
OwnerOrSibling(a) == HasOwner /\ (a = Owner \/ (a \in DOMAIN siblings /\ siblings[a]))

\* The author policy, given what is_owner_or_sibling says.
author_allowed_ListFirst(mode, list, a, indm, kin) ==
    CASE mode = "nobody" -> FALSE
      [] mode = "allowlist" -> a \in list \/ kin
      [] indm -> kin
      [] mode = "anyone" -> TRUE
      [] OTHER -> kin

author_allowed(mode, list, a, indm, kin) ==
    CASE mode = "nobody" -> FALSE
      [] indm -> kin
      [] mode = "anyone" -> TRUE
      [] mode = "allowlist" -> a \in list \/ kin
      [] OTHER -> kin

\* The lookup is made only where the policy asks for it.
Asks == /\ plan.mode # "nobody"
        /\ dm \/ plan.mode = "owner-only"
              \/ (plan.mode = "allowlist" /\ cur.author \notin plan.list)

Author ==
    /\ pc = "author"
    /\ \E ok \in BOOLEAN :
         LET a == cur.author
             found == check_sibling_via_profile(a, ok)
             kin == IF Settled(a) THEN OwnerOrSibling(a) ELSE found
         IN /\ siblings' = IF Asks /\ ~Settled(a)
                           THEN cache_sibling(a, found) ELSE siblings
            /\ IF author_allowed(plan.mode, plan.list, a, dm, kin)
               THEN pc' = "match" /\ at' = 1 /\ UNCHANGED cur
               ELSE pc' = "loop" /\ cur' = NoEvent /\ UNCHANGED at
    /\ UNCHANGED <<plan, dm, attest, meta, info, subs, strikes, evals, last,
                   pool, answer>>

(***************************************************************************)
(* match_event.                                                            *)
(***************************************************************************)
Conditions(r, e) ==
    matches(r, e.chan) /\ e.kind \in KindsOf(r) /\ (r.mention => e.mention)

Passes(r, e) == r.filter = "none" \/ e.text \in r.yes

Dropped == pc' = "loop" /\ cur' = NoEvent
Onward == pc' = "match" /\ at' = at + 1 /\ UNCHANGED cur

Failed_Onward == Onward

\* An evaluation that fails or times out, and a rule disabled, end the whole
\* match.
Failed == Dropped /\ UNCHANGED at

Strike(n) == strikes' = [strikes EXCEPT ![at] = n]

\* A timed-out evaluation keeps its permit until its thread returns.
KeptPermit_Freed == permits

KeptPermit == permits + 1

evaluate_filter(r) ==
    \/ /\ permits = MaxEvals
       /\ Strike(strikes[at] + 1) /\ Failed /\ UNCHANGED <<evals, last>>
    \/ /\ permits < MaxEvals /\ r.filter = "broken"
       /\ Failed /\ UNCHANGED <<strikes, evals, last>>
    \/ /\ permits < MaxEvals /\ r.filter = "slow"
       /\ permits' = KeptPermit /\ live' = live + 1
       /\ Strike(strikes[at] + 1) /\ Failed /\ UNCHANGED last
    \/ /\ permits < MaxEvals /\ r.filter \in {"plain", "slow"}
       /\ Strike(0) /\ UNCHANGED evals
       /\ IF Passes(r, cur)
          THEN Dropped /\ UNCHANGED at /\ last' = [ev |-> cur, rule |-> at]
          ELSE Onward /\ UNCHANGED last

match_event ==
    /\ pc = "match"
    /\ LET rs == rules(plan)
       IN IF at > Len(rs)
          THEN Dropped /\ UNCHANGED <<at, strikes, evals, last>>
          ELSE LET r == rs[at] IN
            CASE ~Conditions(r, cur) -> Onward /\ UNCHANGED <<strikes, evals, last>>
              [] Conditions(r, cur) /\ r.filter = "none" ->
                   /\ Dropped /\ last' = [ev |-> cur, rule |-> at]
                   /\ UNCHANGED <<at, strikes, evals>>
              [] Conditions(r, cur) /\ r.filter # "none" /\ strikes[at] >= MaxTimeouts ->
                   Failed /\ UNCHANGED <<strikes, evals, last>>
              [] OTHER -> evaluate_filter(r)
    /\ UNCHANGED <<plan, dm, gate, pool, answer>>

(***************************************************************************)
(* Turns, as far as a control frame reaches them.                          *)
(***************************************************************************)
\* create_session_and_apply_model: a model the catalogue lacks leaves the
\* agent's own model.
TurnStarts ==
    /\ pc = "loop" /\ ~task.on /\ plan.turns > 0
    /\ plan' = [plan EXCEPT !.turns = @ - 1]
    /\ task' = [NoTask EXCEPT !.on = TRUE, !.tx = TRUE]
    /\ agent' = [agent EXCEPT
                   !.session = IF @ # "none" THEN @
                               ELSE IF agent.desired \in plan.catalog
                               THEN agent.desired ELSE "own",
                   !.catalog = TRUE]
    /\ UNCHANGED <<pc, cur, dm, at, gate, strikes, evals, last, answer>>

\* The prompt may win the race against a signal already sent: the signal is
\* then dropped with its receiver.
TurnEnds ==
    /\ task.on
    /\ \/ UNCHANGED agent
       \/ /\ task.got # "none"
          /\ agent' = [agent EXCEPT !.session = "none",
                         !.desired = IF task.got = "switch" THEN task.model ELSE @]
    /\ task' = NoTask
    /\ UNCHANGED <<plan, pc, cur, dm, at, gate, strikes, evals, last, answer>>

\* The agent is in the pool only between turns; without a session of the
\* channel it is not found.
switch_idle_agent_model_Eager(m) ==
    CASE agent.session = "none" -> [status |-> "no_active_turn", agent |-> agent]
      [] OTHER ->
           [status |-> IF agent.catalog /\ m \notin plan.catalog
                       THEN "unsupported_model" ELSE "switched",
            agent |-> [agent EXCEPT !.desired = m, !.session = "none"]]

switch_idle_agent_model(m) ==
    CASE agent.session = "none" -> [status |-> "no_active_turn", agent |-> agent]
      [] agent.session # "none" /\ agent.catalog /\ m \notin plan.catalog ->
           [status |-> "unsupported_model", agent |-> agent]
      [] OTHER ->
           [status |-> "switched",
            agent |-> [agent EXCEPT !.desired = m, !.session = "none"]]

handle_cancel_turn_control ==
    /\ answer' = [status |-> IF task.on /\ task.tx THEN "sent" ELSE "no_active_turn",
                  model |-> "none"]
    /\ signal_in_flight_task("cancel", "none")
    /\ UNCHANGED agent

handle_switch_model_control(m) ==
    IF task.on
    THEN /\ answer' = [status |-> IF task.tx THEN "sent" ELSE "turn_ending", model |-> m]
         /\ signal_in_flight_task("switch", m)
         /\ UNCHANGED agent
    ELSE LET r == switch_idle_agent_model(m)
         IN answer' = [status |-> r.status, model |-> m] /\ agent' = r.agent
            /\ UNCHANGED task

\* A frame from the owner, verified, readable and fresh; others are ignored.
Heeded(f) == f.sound /\ f.by = Owner /\ f.age <= Freshness /\ -f.age <= Freshness

handle_relay_observer_control_event ==
    /\ pc = "loop" /\ plan.frames # <<>> /\ HasOwner
    /\ LET f == Head(plan.frames)
       IN /\ plan' = [plan EXCEPT !.frames = Tail(@)]
          /\ IF Heeded(f)
             THEN CASE f.type = "cancel_turn" -> handle_cancel_turn_control
                    [] f.type = "switch_model" -> handle_switch_model_control(f.model)
                    [] OTHER -> UNCHANGED <<pool, answer>>
             ELSE UNCHANGED <<pool, answer>>
    /\ UNCHANGED <<pc, cur, dm, at, gate, strikes, evals, last>>

(***************************************************************************)
(* The specification.                                                      *)
(***************************************************************************)
Init ==
    /\ plan \in Plans
    /\ pc = "start" /\ cur = NoEvent /\ dm = FALSE /\ at = 0
    /\ attest = plan.attest /\ meta = plan.meta
    /\ siblings = [x \in {} |-> FALSE] /\ info = {}
    /\ subs = [x \in {} |-> [kinds |-> {}, mention |-> FALSE]]
    /\ strikes = [i \in 1..Len(rules(plan)) |-> 0] /\ permits = 0 /\ live = 0
    /\ last = NoPush /\ task = NoTask
    /\ agent = [session |-> "none", desired |-> "none", catalog |-> FALSE]
    /\ answer = NoAnswer

Next ==
    \/ Start
    \/ discover_channels
    \/ \E c \in plan.later : MemberAdded(c)
    \/ \E a \in DOMAIN attest : Attests(a)
    \/ \E c \in plan.members \cup plan.later : Described(c)
    \/ EvalEnds
    \/ Receive
    \/ Command
    \/ Channel
    \/ Author
    \/ match_event
    \/ TurnStarts
    \/ TurnEnds
    \/ handle_relay_observer_control_event

Spec == Init /\ [][Next]_vars

(***************************************************************************)
(* Properties.                                                             *)
(***************************************************************************)
\* Whoever starts a turn may: the policy in force names the author, and in a
\* channel that is a direct message, whether or not the harness could find
\* that out, only the owner and agents its key has attested do, whatever the
\* lookups answered and the caches held (author_allowed, is_dm_channel,
\* check_sibling_via_profile).
AuthorsAdmitted ==
    last # NoPush =>
      LET a == last.ev.author
          kin == HasOwner /\ (a = Owner \/ attest[a] = "ours")
      IN /\ plan.mode # "nobody"
         /\ \/ kin
            \/ /\ last.ev.chan \notin plan.dms
               /\ \/ plan.mode = "anyone"
                  \/ plan.mode = "allowlist" /\ a \in plan.list

\* The queued event's rule is the first whose conditions and filter hold for
\* it: no slow, broken or disabled filter of an earlier rule let it through to
\* a later one (match_event's fail-closed contract).
RuleDecides ==
    last # NoPush =>
      LET rs == rules(plan)
          e == last.ev
      IN /\ Conditions(rs[last.rule], e) /\ Passes(rs[last.rule], e)
         /\ \A i \in 1..(last.rule - 1) :
              Conditions(rs[i], e) => rs[i].filter # "none" /\ e.text \notin rs[i].yes

\* However often evaluations time out and are given up, no more of their
\* threads are at work than there are permits (FILTER_EVAL_SEMAPHORE, whose
\* permit moves into the thread).
EvalsBounded == live <= MaxEvals

\* No event a rule would take is kept from the harness by the subscription it
\* made, at the start or when it joined the channel later
\* (resolve_channel_filters, resolve_dynamic_channel_filter against
\* match_event).
NothingCut ==
    \A c \in DOMAIN subs : \A i \in 1..Len(rules(plan)) :
      \A k \in AllKinds, m \in BOOLEAN :
        Conditions(rules(plan)[i], [chan |-> c, kind |-> k, mention |-> m])
          => Carried(subs[c], [kind |-> k, mention |-> m])

\* A control frame's answer is what happened: "sent" took the turn's one
\* signal, "switched" left the model for the next session, every other answer
\* left turn and agent alone; and a turn obeys one signal only
\* (handle_cancel_turn_control, handle_switch_model_control).
AnswersTrue ==
    [][/\ (plan'.frames # plan.frames /\ answer' # answer) =>
            CASE answer'.status = "sent" ->
                   task.got = "none" /\ task'.got # "none" /\ agent' = agent
              [] answer'.status = "switched" ->
                   /\ agent'.session = "none" /\ agent'.desired = answer'.model
                   /\ task' = task
              [] OTHER -> task' = task /\ agent' = agent
       /\ (task.got # "none" /\ task'.on) => task'.got = task.got]_vars
=============================================================================
