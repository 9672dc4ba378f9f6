------------------------------ MODULE Harness ------------------------------
(***************************************************************************)
(* The agent harness (buzz-acp): the main select loop of lib.rs composed   *)
(* with the event queue (EventQueue), the agent pool and the prompt tasks  *)
(* of pool.rs, the background respawn tasks and the steer-ack watchers.    *)
(*                                                                         *)
(* The main loop is one process: at pc = "top" it does the maintenance     *)
(* that is due and collects respawned agents, at pc = "select" it takes    *)
(* the first arm that is ready (the select is biased: results, panics,     *)
(* steer acks, then relay events and timers).  Every arm runs to its end   *)
(* in one step, dispatch_pending included, as no other process touches the *)
(* queue or the pool.  Prompt tasks, respawn tasks, ack watchers, the      *)
(* passage of time and the relay are the other processes.                  *)
(*                                                                         *)
(* The variable fate is a history: what has become of each event.          *)
(***************************************************************************)
EXTENDS EventQueue

CONSTANTS Agents,        \* config.agents
          Handlings,     \* MultipleEventHandling settings: "queue", "steer", "interrupt"
          CrashLimit,    \* CIRCUIT_BREAKER_THRESHOLD
          Timers,        \* a heartbeat, presence or typing interval is configured
          LateTasks,     \* a task may outlive the in-flight deadline
          LazyPool,      \* --lazy-pool: agents start with the first work
          InitialMessage,\* an initial message opens every new session
          MaxFaults,     \* bound: failed turns, panics and failed spawns
          MaxCommands    \* bound: owner commands and membership changes

ASSUME AgentsAssumption == Agents \in Nat
ASSUME ChannelsAssumption == "none" \notin Channels /\ "heartbeat" \notin Channels

VARIABLES q,          \* the event queue, per channel
          pool,       \* the agent slots with their circuit breakers
          task,       \* task_map: the prompt task of each checked-out slot
          results,    \* the result channel
          panics,     \* slots whose task ended in a JoinError
          acks,       \* the steer-ack channel
          respawned,  \* the respawn-result channel
          removed,    \* removed_channels
          hb,         \* heartbeat_in_flight
          handling,   \* config.multiple_event_handling
          life,       \* PoolLifecycle, with the wake attempt
          woken,      \* the wake-result channel
          pc, arrived, fate, faults, commands

vars == <<q, pool, task, results, panics, acks, respawned, removed, hb, handling,
          life, woken, pc, arrived, fate, faults, commands>>

Slots     == 1..Agents
Heartbeat == "heartbeat"
NoTask    == [ch |-> "none"]
NoBatch   == NewBatch(<<>>, <<>>, "none")

FreshSlot == [agent |-> "idle", sess |-> {}, respawning |-> FALSE,
              crashes |-> 0, circuit |-> "closed"]

\* A task: control_tx is armed until a signal is taken; the steer channel
\* has room for one request, and one written request may await its answer.
NewTask(ch, batch) ==
  [ch |-> ch, batch |-> batch, phase |-> "setup",
   ctl |-> IF ch = Heartbeat THEN "none" ELSE "armed",
   open |-> ch # Heartbeat, buf |-> 0, pend |-> 0]

InTaskMap(i) == task[i] # NoTask
Running(i)   == InTaskMap(i) /\ task[i].phase # "sent" /\ i \notin panics
EventsOf(b)  == Elements(b.events) \cup Elements(b.cancelled)

Settle(f, es, how) == [e \in Events |-> IF e \in es THEN how ELSE f[e]]

Init ==
  /\ q = [ch \in Channels |-> EmptyChannel]
  /\ pool = [i \in Slots |-> IF LazyPool THEN [FreshSlot EXCEPT !.agent = "none"]
                             ELSE FreshSlot]
  /\ life = [st |-> IF LazyPool THEN "listening" ELSE "ready", attempt |-> 0, due |-> FALSE]
  /\ woken = {}
  /\ task = [i \in Slots |-> NoTask]
  /\ results = <<>> /\ panics = {} /\ acks = {} /\ respawned = {}
  /\ removed = {} /\ hb = FALSE /\ handling \in Handlings /\ pc = "top"
  /\ arrived = 0 /\ fate = [e \in Events |-> "none"]
  /\ faults = 0 /\ commands = 0

-----------------------------------------------------------------------------
\* AgentPool.

Idle(p)  == {i \in Slots : p[i].agent = "idle"}

First(S) == CHOOSE i \in S : \A j \in S : i <= j

\* try_claim: an idle agent with a session for the channel, else the first.
try_claim(p, ch) ==
  LET warm == {i \in Idle(p) : ch \in p[i].sess}
  IN  IF warm # {} THEN First(warm) ELSE IF Idle(p) # {} THEN First(Idle(p)) ELSE 0

slot_alive_IdleOnly(p, t, i) == p[i].agent = "idle"
slot_alive(p, t, i) == p[i].agent = "idle" \/ t[i] # NoTask

AllDead(p, t) ==
  \A i \in Slots : ~slot_alive(p, t, i) /\ ~p[i].respawning

\* record_crash: the crashes of the last window count; the window may have
\* left any number of earlier ones behind.  The slot is empty afterwards.
record_crash(s) ==
  LET gone == [s EXCEPT !.agent = "none", !.sess = {}]
  IN  CASE s.circuit = "open"    -> {gone}
        [] s.circuit = "elapsed" ->
             {[gone EXCEPT !.crashes = CrashLimit - 1, !.circuit = "closed",
                           !.respawning = TRUE]}
        [] OTHER ->
             {IF k + 1 >= CrashLimit
              THEN [gone EXCEPT !.crashes = CrashLimit, !.circuit = "open"]
              ELSE [gone EXCEPT !.crashes = k + 1, !.respawning = TRUE]
              : k \in 0..s.crashes}

can_refill(s) == s.circuit # "open"

Refill(s) ==
  IF s.circuit = "elapsed"
  THEN [s EXCEPT !.crashes = CrashLimit - 1, !.circuit = "closed", !.respawning = TRUE]
  ELSE [s EXCEPT !.respawning = TRUE]

-----------------------------------------------------------------------------
\* dispatch_pending: flush and claim until the queue or the pool is empty.

ExpireAll(qs) == [ch \in Channels |-> Expire(qs[ch])]

DispatchStep(d) ==
  LET x == ExpireAll(d.q)
  IN  IF d.done \/ FlushCandidates(x) = {}
      THEN {[d EXCEPT !.q = IF d.done THEN @ ELSE x, !.done = TRUE]}
      ELSE {LET b == FlushedBatch(x[ch])
                i == try_claim(d.pool, ch)
            IN  IF i = 0
                THEN [d EXCEPT !.q = [x EXCEPT ![ch] =
                         mark_complete(requeue_preserve_timestamps(Flushed(@), b))],
                               !.done = TRUE]
                ELSE [d EXCEPT !.q = [x EXCEPT ![ch] = Flushed(@)],
                               !.pool[i].agent = "out",
                               !.task[i] = NewTask(ch, b)]
            : ch \in FlushCandidates(x)}

dispatch_pending(qs, p, t) ==
  LET iter[k \in 0..Agents + 1] ==
        IF k = 0 THEN {[q |-> qs, pool |-> p, task |-> t, done |-> FALSE]}
        ELSE UNION {DispatchStep(d) : d \in iter[k - 1]}
  IN  iter[Agents + 1]

Dispatch(qs, p, t) ==
  \E d \in dispatch_pending(qs, p, t) : q' = d.q /\ pool' = d.pool /\ task' = d.task

-----------------------------------------------------------------------------
\* The top of the loop.

MaintainedQueue == ExpireAll([ch \in Channels |-> compact_expired_state(q[ch])])

MaintainedPool_NoRefill == pool
MaintainedPool ==
  [i \in Slots |->
     IF slot_alive(pool, task, i) \/ pool[i].respawning \/ ~can_refill(pool[i])
     THEN pool[i] ELSE Refill(pool[i])]

Collect(p) ==
  [i \in Slots |->
     CASE [slot |-> i, ok |-> TRUE]  \in respawned ->
            [p[i] EXCEPT !.respawning = FALSE, !.agent = "idle", !.sess = {}]
       [] [slot |-> i, ok |-> FALSE] \in respawned ->
            [p[i] EXCEPT !.respawning = FALSE, !.circuit = "open"]
       [] OTHER -> p[i]]

AnyCollected == \E r \in respawned : r.ok

PoolReady == life.st = "ready"

\* PoolLifecycle::start_wake_if_due, with work in the queue.
WakeIfDue ==
  IF /\ HasFlushableWork(ExpireAll(q))
     /\ life.st = "listening" \/ (life.st = "failed" /\ life.due)
  THEN [st |-> "waking", attempt |-> life.attempt + 1, due |-> FALSE]
  ELSE life

TopListening ==
  /\ pc = "top" /\ ~PoolReady
  /\ q' = ExpireAll(q) /\ life' = WakeIfDue /\ pc' = "select"
  /\ UNCHANGED <<pool, task, results, panics, acks, respawned, removed, hb, handling,
                 woken, arrived, fate, faults, commands>>

Top(due) ==
  /\ pc = "top" /\ PoolReady
  /\ \E d1 \in IF due THEN dispatch_pending(MaintainedQueue, MaintainedPool, task)
                ELSE {[q |-> q, pool |-> pool, task |-> task, done |-> FALSE]} :
       IF AnyCollected THEN Dispatch(d1.q, Collect(d1.pool), d1.task)
       ELSE q' = d1.q /\ pool' = Collect(d1.pool) /\ task' = d1.task
  /\ respawned' = {} /\ pc' = "select"
  /\ UNCHANGED <<handling, life, woken, results, panics, acks, removed, hb, arrived, fate,
                 faults, commands>>

\* initialize_agent_pool in its task: some slots get an agent, or none does.
WakeTask ==
  /\ life.st = "waking" /\ woken = {}
  /\ \/ \E up \in SUBSET Slots \ {{}} : woken' = {[attempt |-> life.attempt, up |-> up]}
                                       /\ UNCHANGED faults
     \/ /\ faults < MaxFaults /\ faults' = faults + 1
        /\ woken' = {[attempt |-> life.attempt, up |-> {}]}
  /\ UNCHANGED <<q, pool, task, results, panics, acks, respawned, removed, hb, handling,
                 life, pc, arrived, fate, commands>>

\* PoolEvent::Wake with complete_wake: a result of another attempt is stale.
HandleWake ==
  /\ pc = "select" /\ panics = {} /\ acks = {} /\ ~PoolReady
  /\ \E w \in woken :
       IF life.st # "waking" \/ w.attempt # life.attempt
       THEN UNCHANGED <<q, pool, task, life>>
       ELSE IF w.up = {}
       THEN /\ life' = [life EXCEPT !.st = "failed", !.due = FALSE]
            /\ UNCHANGED <<q, pool, task>>
       ELSE /\ life' = [life EXCEPT !.st = "ready"]
            /\ Dispatch(q, [i \in Slots |-> IF i \in w.up THEN FreshSlot ELSE pool[i]], task)
  /\ woken' = {} /\ pc' = "top"
  /\ UNCHANGED <<results, panics, acks, respawned, removed, hb, handling, arrived, fate,
                 faults, commands>>

\* The sleep until retry_at: armed only while work waits.
RetryWake ==
  /\ pc = "select" /\ panics = {} /\ acks = {} /\ woken = {}
  /\ life.st = "failed" /\ ~life.due /\ HasFlushableWork(q)
  /\ life' = [life EXCEPT !.due = TRUE] /\ pc' = "top"
  /\ UNCHANGED <<q, pool, task, results, panics, acks, respawned, removed, hb, handling,
                 woken, arrived, fate, faults, commands>>

-----------------------------------------------------------------------------
\* handle_prompt_result.

Fatal == {"exited", "idle_timeout", "hard_stale", "hard_recent", "drain_timeout",
          "transport"}
DeadLettered(o) == o \in {"hard_stale", "auth"}
Preserved(o)    == o \in {"cancelled", "drain_timeout"}

\* The batch that comes back with a result, and what becomes of its events.
ResultQueue(c, r) ==
  mark_complete(IF r.batch = NoBatch \/ r.ch \in removed THEN c
                ELSE IF Preserved(r.outcome) THEN requeue_as_cancelled(c, r.batch)
                ELSE IF DeadLettered(r.outcome) THEN c
                ELSE requeue(c, r.batch))

ResultFate(c, r) ==
  LET es == EventsOf(r.batch)
  IN  IF r.batch = NoBatch \/ (Preserved(r.outcome) /\ r.ch \notin removed) THEN fate
      ELSE IF r.ch \in removed THEN Settle(fate, es, "dropped")
      ELSE IF DeadLettered(r.outcome) \/ Exhausted(c) THEN Settle(fate, es, "dead")
      ELSE fate

\* The agent goes back without the sessions of removed channels.
Returned_Unstripped(i) == [pool[i] EXCEPT !.agent = "idle"]
Returned(i) == [pool[i] EXCEPT !.agent = "idle", !.sess = @ \ removed]

HandleResult ==
  /\ pc = "select" /\ results # <<>>
  /\ LET r == Head(results)
         i == r.slot
         t == [task EXCEPT ![i] = NoTask]
         qs == IF r.ch = Heartbeat THEN q
               ELSE [q EXCEPT ![r.ch] = ResultQueue(q[r.ch], r)]
     IN  /\ fate' = IF r.ch = Heartbeat THEN fate ELSE ResultFate(q[r.ch], r)
         /\ hb' = (hb /\ r.ch # Heartbeat)
         /\ \E s \in IF r.outcome \in Fatal THEN record_crash(pool[i])
                      ELSE {Returned(i)} :
              LET p == [pool EXCEPT ![i] = s] IN
              IF r.outcome \in Fatal /\ ~s.respawning /\ AllDead(p, t)
              THEN pc' = "exit" /\ q' = qs /\ pool' = p /\ task' = t
              ELSE IF panics # {}
              THEN pc' = "drain" /\ q' = qs /\ pool' = p /\ task' = t
              ELSE pc' = "top" /\ Dispatch(qs, p, t)
  /\ results' = Tail(results)
  /\ UNCHANGED <<handling, life, woken, panics, acks, respawned, removed, arrived, faults, commands>>

\* recover_panicked_agent: the batch of the task's metadata is requeued, with
\* no notice when its budget is exhausted.
RecoverPanic(i) ==
  /\ \/ pc = "select" /\ results = <<>>
     \/ pc = "drain"
  /\ i \in panics
  /\ LET ch == task[i].ch
         b  == task[i].batch
         t  == [task EXCEPT ![i] = NoTask]
         recoverable == ch # Heartbeat /\ ~DropMode /\ ch \notin removed
         qs == IF ch = Heartbeat THEN q
               ELSE [q EXCEPT ![ch] = mark_complete(IF recoverable THEN requeue(@, b) ELSE @)]
     IN  /\ hb' = (hb /\ ch # Heartbeat)
         /\ fate' = IF ch = Heartbeat THEN fate
                    ELSE IF ~recoverable THEN Settle(fate, EventsOf(b), "dropped")
                    ELSE IF Exhausted(q[ch]) THEN Settle(fate, EventsOf(b), "dead_silent")
                    ELSE fate
         /\ \E s \in record_crash(pool[i]) :
              LET p == [pool EXCEPT ![i] = s] IN
              IF AllDead(p, t)
              THEN pc' = "exit" /\ q' = qs /\ pool' = p /\ task' = t
              ELSE IF pc = "drain" /\ panics # {i}
              THEN pc' = "drain" /\ q' = qs /\ pool' = p /\ task' = t
              ELSE pc' = "top" /\ Dispatch(qs, p, t)
  /\ panics' = panics \ {i}
  /\ UNCHANGED <<handling, life, woken, results, acks, respawned, removed, arrived, faults, commands>>

-----------------------------------------------------------------------------
\* Signals and steering.

\* signal_in_flight_task: control_tx is taken once; the task may no longer
\* read its end.
Signalled(t, ch, sig) ==
  LET ts == {i \in Slots : t[i].ch = ch}
  IN  IF ts = {} THEN {t}
      ELSE {IF t[i].ctl = "armed" THEN [t EXCEPT ![i].ctl = sig] ELSE t : i \in ts}

\* send_steer: the request is accepted when the read loop still has the
\* receiver and the channel has room.
SteerTargets(ch) == {i \in Slots : task[i].ch = ch}
CanSteer(i) == task[i].open /\ task[i].buf = 0

\* try_native_steer, with the cancelling signal when it is not accepted.
Steered(qs, ch, e) ==
  IF SteerTargets(ch) = {} THEN {[q |-> qs, task |-> task]}
  ELSE UNION {IF CanSteer(i)
              THEN {[q |-> [qs EXCEPT ![ch] = mark_native_steer_pending(@, e)],
                     task |-> [task EXCEPT ![i].buf = e]]}
              ELSE {[q |-> qs, task |-> t] : t \in Signalled(task, ch, "steer")}
              : i \in SteerTargets(ch)}

AfterPush(qs, ch, e) ==
  IF ~qs[ch].inflight \/ handling = "queue" THEN {[q |-> qs, task |-> task]}
  ELSE IF handling = "steer" THEN Steered(qs, ch, e)
  ELSE {[q |-> qs, task |-> t] : t \in Signalled(task, ch, "interrupt")}

NothingReady ==
  pc = "select" /\ results = <<>> /\ panics = {} /\ acks = {} /\ woken = {}

\* The relay arm: an event for a channel passes the filters and is pushed.
RelayEvent(ch) ==
  /\ NothingReady /\ arrived < MaxEvents
  /\ LET e == arrived + 1 IN
     /\ arrived' = e
     /\ fate' = [fate EXCEPT ![e] = IF Refused(q[ch]) THEN "refused" ELSE "pending"]
     /\ \E s \in IF Refused(q[ch]) THEN {[q |-> q, task |-> task]}
                  ELSE AfterPush([q EXCEPT ![ch] = push(@, e)], ch, e) :
          IF PoolReady THEN Dispatch(s.q, pool, s.task)
          ELSE q' = s.q /\ task' = s.task /\ UNCHANGED pool
  /\ pc' = "top"
  /\ UNCHANGED <<handling, life, woken, results, panics, acks, respawned, removed, hb, faults, commands>>

\* PoolEvent::SteerAck.
HandleAck ==
  /\ pc = "select" /\ results = <<>> /\ panics = {}
  /\ \E a \in acks :
       LET released == [q EXCEPT ![a.ch] = release_native_steer(@, a.e)]
           removedE == [q EXCEPT ![a.ch] = remove_event(extend_in_flight_deadline(@), a.e)]
           held     == a.e \in Elements(q[a.ch].queue) \cup Elements(q[a.ch].withheld)
       IN  /\ acks' = acks \ {a}
           /\ fate' = IF a.kind = "success" /\ held THEN [fate EXCEPT ![a.e] = "steered"]
                      ELSE fate
           /\ \E t \in IF a.kind = "fallback" THEN Signalled(task, a.ch, "steer") ELSE {task} :
                Dispatch(IF a.kind = "success" THEN removedE ELSE released, pool, t)
  /\ pc' = "top"
  /\ UNCHANGED <<handling, life, woken, results, panics, respawned, removed, hb, arrived, faults, commands>>

\* invalidate_channel_sessions: idle agents only.
DropIdleSessions(ch) ==
  [i \in Slots |-> IF pool[i].agent = "idle" THEN [pool[i] EXCEPT !.sess = @ \ {ch}]
                   ELSE pool[i]]

\* switch_idle_agent_model: the first idle agent with a session of the channel
\* drops it, or no agent does, when its catalog does not have the model.
SessionOf(k, ch) ==
  /\ pool[k].agent = "idle" /\ ch \in pool[k].sess
  /\ \A j \in Slots : j < k => pool[j].agent # "idle" \/ ch \notin pool[j].sess
DropSession(k, ch) ==
  [i \in Slots |-> IF i = k THEN [pool[i] EXCEPT !.sess = @ \ {ch}] ELSE pool[i]]
switch_idle_agent_model(ch) ==
  {pool} \cup {DropSession(k, ch) : k \in {i \in Slots : SessionOf(i, ch)}}

\* Owner commands: !cancel, !rotate and a model switch signal the turn of the
\* channel.  When no signal was sent, rotation drops the idle sessions; a
\* switch drops one when the channel has no turn.
Command(ch, sig) ==
  /\ NothingReady /\ commands < MaxCommands /\ commands' = commands + 1
  /\ \E t \in Signalled(task, ch, sig) :
       /\ task' = t
       /\ pool' \in IF sig = "rotate" /\ t = task THEN {DropIdleSessions(ch)}
                    ELSE IF sig = "switch" /\ \A i \in Slots : task[i].ch # ch
                    THEN switch_idle_agent_model(ch) ELSE {pool}
  /\ pc' = "top"
  /\ UNCHANGED <<handling, life, woken, q, results, panics, acks, respawned, removed, hb, arrived, fate, faults>>

\* A member-removed notification: queued events and idle sessions go.
MemberRemoved(ch) ==
  /\ NothingReady /\ commands < MaxCommands /\ commands' = commands + 1
  /\ q' = [q EXCEPT ![ch] = drain_channel(@)]
  /\ fate' = Settle(fate, Drained(q[ch]), "dropped")
  /\ pool' = DropIdleSessions(ch)
  /\ removed' = removed \cup {ch}
  /\ pc' = "top"
  /\ UNCHANGED <<handling, life, woken, task, results, panics, acks, respawned, hb, arrived, faults>>

MemberAdded(ch) ==
  /\ NothingReady /\ ch \in removed
  /\ removed' = removed \ {ch}
  /\ pc' = "top"
  /\ UNCHANGED <<handling, life, woken, q, pool, task, results, panics, acks, respawned, hb, arrived, fate,
                 faults, commands>>

\* The heartbeat tick: pending work first, else a heartbeat for an idle agent.
HeartbeatTick ==
  /\ NothingReady /\ Timers /\ PoolReady
  /\ LET x == ExpireAll(q) IN
     IF HasFlushableWork(x) THEN Dispatch(x, pool, task) /\ UNCHANGED hb
     ELSE LET i == try_claim(pool, Heartbeat) IN
          /\ q' = x
          /\ IF hb \/ i = 0 THEN UNCHANGED <<pool, task, hb>>
             ELSE /\ pool' = [pool EXCEPT ![i].agent = "out"]
                  /\ task' = [task EXCEPT ![i] = NewTask(Heartbeat, NoBatch)]
                  /\ hb' = TRUE
  /\ pc' = "top"
  /\ UNCHANGED <<handling, life, woken, results, panics, acks, respawned, removed, arrived, fate, faults, commands>>

\* Presence and typing ticks do no work of their own: they turn the loop.
Tick ==
  /\ NothingReady /\ Timers /\ pc' = "top"
  /\ UNCHANGED <<handling, life, woken, q, pool, task, results, panics, acks, respawned, removed, hb, arrived,
                 fate, faults, commands>>

-----------------------------------------------------------------------------
\* Prompt tasks: run_prompt_task and the read loop of the ACP client.

\* Whatever steer requests the read loop leaves behind are answered neutrally.
LeftBehind(i) ==
  {[ch |-> task[i].ch, e |-> e, kind |-> "neutral"] : e \in {task[i].buf, task[i].pend} \ {0}}

\* send_prompt_result.
Send(i, outcome, batch, sess) ==
  /\ results' = Append(results, [slot |-> i, ch |-> task[i].ch, outcome |-> outcome,
                                 batch |-> batch])
  /\ acks' = acks \cup LeftBehind(i)
  /\ task' = [task EXCEPT ![i].phase = "sent", ![i].open = FALSE, ![i].buf = 0, ![i].pend = 0]
  /\ pool' = [pool EXCEPT ![i].sess = sess]
  /\ UNCHANGED <<handling, life, woken, q, panics, respawned, removed, hb, pc, arrived, commands>>

\* requeue_batch_if_queue.
Retry(b) == IF DropMode THEN NoBatch ELSE b
LostByMode(i) == IF DropMode THEN Settle(fate, EventsOf(task[i].batch), "dropped") ELSE fate

\* The session of the channel exists, or is created; a new session first gets
\* the initial message, whose read loop closes the steer channel when it ends.
InPrompt(i) == task[i].phase \in {"initial", "prompt"}

Prompt(i) ==
  /\ Running(i) /\ task[i].phase = "setup"
  /\ task' = [task EXCEPT ![i].phase =
                IF InitialMessage /\ task[i].ch \in Channels \ pool[i].sess
                THEN "initial" ELSE "prompt"]
  /\ pool' = [pool EXCEPT ![i].sess = @ \cup ({task[i].ch} \cap Channels)]
  /\ UNCHANGED <<handling, life, woken, q, results, panics, acks, respawned, removed, hb,
                 pc, arrived, fate, faults, commands>>

InitialDone(i) ==
  /\ Running(i) /\ task[i].phase = "initial"
  /\ task' = [task EXCEPT ![i].phase = "prompt", ![i].open = FALSE,
                          ![i].buf = 0, ![i].pend = 0]
  /\ acks' = acks \cup LeftBehind(i)
  /\ UNCHANGED <<handling, life, woken, q, pool, results, panics, respawned, removed, hb,
                 pc, arrived, fate, faults, commands>>

\* The turn ends; the session is kept or rotated.
TurnOk(i) ==
  /\ Running(i) /\ task[i].phase = "prompt"
  /\ fate' = Settle(fate, EventsOf(task[i].batch), "delivered")
  /\ \E sess \in {pool[i].sess, pool[i].sess \ {task[i].ch}} : Send(i, "ok", NoBatch, sess)
  /\ UNCHANGED faults

\* Session creation, the prompt or its clean-up fails.  Hard and idle
\* timeouts belong to the prompt; a task is also lost by a panic.
TurnFails(i) ==
  /\ Running(i) /\ faults < MaxFaults /\ faults' = faults + 1
  /\ \E o \in {"exited", "transport", "app", "auth"} \cup
              (IF InPrompt(i) THEN {"idle_timeout", "hard_stale", "hard_recent"} ELSE {}) :
       Send(i, o, Retry(task[i].batch),
            IF o = "exited" \/ o = "hard_stale" \/ o = "hard_recent" THEN {}
            ELSE IF o = "transport" \/ task[i].phase = "initial"
            THEN pool[i].sess \ {task[i].ch} ELSE pool[i].sess)
  /\ fate' = LostByMode(i)

Panic(i) ==
  /\ Running(i) /\ faults < MaxFaults /\ faults' = faults + 1
  /\ panics' = panics \cup {i}
  /\ acks' = acks \cup LeftBehind(i)
  /\ task' = [task EXCEPT ![i].open = FALSE, ![i].buf = 0, ![i].pend = 0]
  /\ UNCHANGED <<handling, life, woken, q, pool, results, respawned, removed, hb, pc, arrived, fate, commands>>

\* requeue_cancelled_batch: a cancelled or rotated turn gives up its batch.
CancelBatch(i) ==
  IF task[i].ctl \in {"cancel", "rotate"} THEN NoBatch
  ELSE Retry([task[i].batch EXCEPT !.reason =
                IF task[i].ctl = "steer" THEN "steer" ELSE "interrupt"])

\* The control arm of the select: cancel and drain, or the turn had already
\* completed.
Obey(i) ==
  /\ Running(i) /\ task[i].phase = "prompt" /\ task[i].ctl \notin {"armed", "none"}
  /\ LET es == EventsOf(task[i].batch)
         given_up == IF CancelBatch(i) = NoBatch THEN Settle(fate, es, "dropped") ELSE fate
     IN  \/ /\ fate' = given_up /\ UNCHANGED faults
            /\ Send(i, "cancelled", CancelBatch(i), pool[i].sess \ {task[i].ch})
         \/ /\ faults < MaxFaults /\ faults' = faults + 1 /\ fate' = given_up
            /\ \/ Send(i, "exited", CancelBatch(i), {})
               \/ \E o \in {"drain_timeout", "transport"} :
                    Send(i, o, CancelBatch(i), pool[i].sess \ {task[i].ch})
         \/ /\ fate' = Settle(fate, es, "delivered") /\ UNCHANGED faults
            /\ Send(i, "ok", NoBatch, IF task[i].ctl \in {"rotate", "switch"}
                                      THEN pool[i].sess \ {task[i].ch} ELSE pool[i].sess)

\* The read loop takes a steer request when none is pending: it is written,
\* or refused because the run has no id or the write fails.
TakeSteer(i) ==
  /\ Running(i) /\ InPrompt(i) /\ task[i].buf # 0 /\ task[i].pend = 0
  /\ \/ task' = [task EXCEPT ![i].pend = task[i].buf, ![i].buf = 0] /\ UNCHANGED acks
     \/ /\ task' = [task EXCEPT ![i].buf = 0]
        /\ acks' = acks \cup {[ch |-> task[i].ch, e |-> task[i].buf, kind |-> "fallback"]}
  /\ UNCHANGED <<handling, life, woken, q, pool, results, panics, respawned, removed, hb, pc, arrived, fate,
                 faults, commands>>

\* The agent answers: success, method not found, or another error.
SteerAnswer(i) ==
  /\ Running(i) /\ InPrompt(i) /\ task[i].pend # 0
  /\ \E kind \in {"success", "fallback", "neutral"} :
       acks' = acks \cup {[ch |-> task[i].ch, e |-> task[i].pend, kind |-> kind]}
  /\ task' = [task EXCEPT ![i].pend = 0]
  /\ UNCHANGED <<handling, life, woken, q, pool, results, panics, respawned, removed, hb, pc, arrived, fate,
                 faults, commands>>

-----------------------------------------------------------------------------
\* Respawn tasks and time.

Respawn(i) ==
  /\ pool[i].respawning /\ \A r \in respawned : r.slot # i
  /\ \/ respawned' = respawned \cup {[slot |-> i, ok |-> TRUE]} /\ UNCHANGED faults
     \/ /\ faults < MaxFaults /\ faults' = faults + 1
        /\ respawned' = respawned \cup {[slot |-> i, ok |-> FALSE]}
  /\ UNCHANGED <<handling, life, woken, q, pool, task, results, panics, acks, removed, hb, pc, arrived, fate,
                 commands>>

ThrottlePasses(ch) ==
  /\ q[ch].throttle = "active"
  /\ q' = [q EXCEPT ![ch].throttle = "past"]
  /\ UNCHANGED <<handling, life, woken, pool, task, results, panics, acks, respawned, removed, hb, pc, arrived,
                 fate, faults, commands>>

CooldownPasses(i) ==
  /\ pool[i].circuit = "open"
  /\ pool' = [pool EXCEPT ![i].circuit = "elapsed"]
  /\ UNCHANGED <<handling, life, woken, q, task, results, panics, acks, respawned, removed, hb, pc, arrived,
                 fate, faults, commands>>

\* max_turn plus the buffer is over and the task still runs: the two budgets
\* of an initial message and its prompt, or a slow session set-up.
DeadlinePasses(ch) ==
  /\ LateTasks /\ q[ch].inflight /\ ~q[ch].overdue
  /\ \E i \in Slots : Running(i) /\ task[i].ch = ch
  /\ faults < MaxFaults /\ faults' = faults + 1
  /\ q' = [q EXCEPT ![ch].overdue = TRUE]
  /\ UNCHANGED <<handling, life, woken, pool, task, results, panics, acks, respawned, removed, hb, pc, arrived,
                 fate, commands>>

Stopped == pc = "exit" /\ UNCHANGED vars

LoopStep ==
  \/ TopListening \/ HandleWake \/ RetryWake
  \/ \E due \in BOOLEAN : Top(due)
  \/ HandleResult
  \/ \E i \in Slots : RecoverPanic(i)
  \/ HandleAck
  \/ HeartbeatTick
  \/ Tick

TaskStep(i) == Prompt(i) \/ InitialDone(i) \/ TurnOk(i) \/ TurnFails(i) \/ Obey(i)

Next ==
  \/ LoopStep \/ WakeTask
  \/ \E ch \in Channels : \/ RelayEvent(ch)
                          \/ \E sig \in {"cancel", "rotate", "switch"} : Command(ch, sig)
                          \/ MemberRemoved(ch) \/ MemberAdded(ch)
                          \/ ThrottlePasses(ch) \/ DeadlinePasses(ch)
  \/ \E i \in Slots : \/ TaskStep(i) \/ Panic(i) \/ TakeSteer(i) \/ SteerAnswer(i)
                      \/ Respawn(i) \/ CooldownPasses(i)
  \/ Stopped

Spec == Init /\ [][Next]_vars

\* The loop runs, turns end (the client's timeouts bound them), respawns and
\* throttles finish; maintenance and a failed wake fall due while the loop turns.
Fairness ==
  /\ WF_vars(LoopStep) /\ SF_vars(Top(TRUE)) /\ WF_vars(WakeTask) /\ SF_vars(RetryWake)
  /\ \A i \in Slots : WF_vars(TaskStep(i)) /\ WF_vars(Respawn(i)) /\ WF_vars(CooldownPasses(i))
  /\ \A ch \in Channels : WF_vars(ThrottlePasses(ch))

FairSpec == Spec /\ Fairness

-----------------------------------------------------------------------------
\* Where an event is: in the queue of a channel, in the batch of a running
\* task, or in a result on its way to the loop.
Places(e) ==
  {<<"queue", ch>> : ch \in {c \in Channels : e \in Drained(q[c])}}
  \cup {<<"task", i>> : i \in {j \in Slots : /\ InTaskMap(j) /\ task[j].phase # "sent"
                                            /\ e \in EventsOf(task[j].batch)}}
  \cup {<<"result", k>> : k \in {j \in DOMAIN results : e \in EventsOf(results[j].batch)}}

Evicted   == UNION {q[ch].evicted : ch \in Channels}
Forgotten == UNION {q[ch].forgotten : ch \in Channels}

\* Every event that push accepted and that has not come to an end (delivered,
\* steered into a turn, dead-lettered, or dropped with its channel or by the
\* owner) is in exactly one place: the queue, the batch of one running turn,
\* or one result on its way.  No interleaving of results, panics, steer acks,
\* respawns and membership changes loses or doubles it, unless a size cap
\* evicts it or a requeue leaves it out.
Accounted ==
  \A e \in Events :
    fate[e] = "pending" =>
      IF e \in Evicted \cup Forgotten THEN Places(e) = {}
      ELSE \E x \in Places(e) : Places(e) = {x}

\* A channel has at most one prompt in flight, and in_flight_channels knows
\* it: the channel is marked exactly while a task of it is in task_map.
OneTurnPerChannel ==
  \A ch \in Channels :
    /\ \A i, j \in Slots : task[i].ch = ch /\ task[j].ch = ch => i = j
    /\ q[ch].inflight <=> \E i \in Slots : task[i].ch = ch

\* A slot has one owner: its agent is idle, or checked out for one task, or
\* being respawned, so return_agent never meets an occupied slot and the
\* respawn channel never more results than slots; and the heartbeat flag is
\* set exactly while one heartbeat task exists.
SlotsExclusive ==
  /\ \A i \in Slots :
       /\ pool[i].agent = "out" <=> InTaskMap(i)
       /\ pool[i].respawning => pool[i].agent = "none"
       /\ [slot |-> i, ok |-> TRUE] \in respawned => pool[i].respawning
       /\ \A r, s \in respawned : r.slot = i /\ s.slot = i => r = s
       /\ \A j, k \in DOMAIN results : results[j].slot = i /\ results[k].slot = i => j = k
       /\ (\E k \in DOMAIN results : results[k].slot = i) =>
             InTaskMap(i) /\ task[i].phase = "sent"
  /\ hb <=> \E i \in Slots : task[i].ch = Heartbeat
  /\ \A i, j \in Slots : task[i].ch = Heartbeat /\ task[j].ch = Heartbeat => i = j

\* An idle agent keeps no session of a channel the agent was removed from,
\* also when it was checked out at the removal or got a late event after it.
NoStaleSessions ==
  \A i \in Slots : pool[i].agent = "idle" => pool[i].sess \cap removed = {}

\* Turns exclude each other: a channel has at most one prompt in flight and is
\* marked exactly then (OneTurnPerChannel), a slot has one owner
\* (SlotsExclusive), and an idle agent keeps no session of a channel it was
\* removed from (NoStaleSessions): pool.rs, queue.rs and the main loop of lib.rs.
TurnsExclusive == OneTurnPerChannel /\ SlotsExclusive /\ NoStaleSessions

\* Every event that was pushed comes to an end, unless the loop exits because
\* all agents are dead: requeued and released events are dispatched again,
\* withheld ones are released, throttles end, slots are refilled.
Settles ==
  \A e \in Events :
    fate[e] = "pending" ~> (fate[e] # "pending" \/ e \in Evicted \cup Forgotten \/ pc = "exit")
-----------------------------------------------------------------------------
(***************************************************************************)
(* The inductive invariants: SInv for the ownership of the slots, and TInv *)
(* for the turns of the channels while no turn is overdue.                 *)
(***************************************************************************)
\* The fields of a channel's record, of a slot and of a task.
QFields == {"queue", "inflight", "overdue", "throttle", "retries", "cancelled",
            "reason", "withheld", "evicted", "forgotten"}
PFields == {"agent", "sess", "respawning", "crashes", "circuit"}
TFields == {"ch", "batch", "phase", "ctl", "open", "buf", "pend"}
Turns   == Channels \cup {Heartbeat}

\* A heartbeat is never steered.
Quiet(t) == t.ch = Heartbeat => t.buf = 0 /\ t.pend = 0

\* A slot: what the pool says of it agrees with the task map.
SlotOK(p, t, gone) ==
  /\ DOMAIN p = PFields /\ p.agent \in {"idle", "out", "none"} /\ p.respawning \in BOOLEAN
  /\ t = NoTask \/ (DOMAIN t = TFields /\ t.ch \in Turns /\ Quiet(t))
  /\ p.agent = "out" <=> t # NoTask
  /\ p.respawning => p.agent = "none"
  /\ p.agent = "idle" => p.sess \cap gone = {}

SlotsOK(p, t, gone) ==
  /\ DOMAIN p = Slots /\ DOMAIN t = Slots
  /\ \A i \in Slots : SlotOK(p[i], t[i], gone)

\* A result on its way is the one answer of a task that has nothing to do.
Items(s) == {s[k] : k \in DOMAIN s}
IsSeq(s) == s \in Seq(Items(s))

ResultsOK(rs, t) ==
  /\ IsSeq(rs)
  /\ \A k \in DOMAIN rs : /\ rs[k].slot \in Slots /\ t[rs[k].slot] # NoTask
                          /\ t[rs[k].slot].phase = "sent"
                          /\ t[rs[k].slot].ch = rs[k].ch
  /\ \A j, k \in DOMAIN rs : rs[j].slot = rs[k].slot => j = k

PanicsOK(pn, t) == \A i \in pn : i \in Slots /\ t[i] # NoTask /\ t[i].phase # "sent"

RespawnsOK(rsp, p) ==
  /\ \A r \in rsp : /\ r.slot \in Slots /\ p[r.slot].respawning
                    /\ r \in [slot : Slots, ok : BOOLEAN]
  /\ \A r, s \in rsp : r.slot = s.slot => r = s

HeartbeatOK(h, t) ==
  /\ h \in BOOLEAN
  /\ h <=> \E i \in Slots : t[i].ch = Heartbeat
  /\ \A i, j \in Slots : t[i].ch = Heartbeat /\ t[j].ch = Heartbeat => i = j

\* Before the pool is ready no slot has an agent.
WakeOK(ready, p) ==
  ~ready => \A i \in Slots : p[i].agent = "none" /\ ~p[i].respawning

\* Every slot has one owner: of the pool p, the task map t, the removed
\* channels gone, the results rs, the panics pn, the respawn results rsp and
\* the heartbeat flag h.
Owned(p, t, gone, rs, pn, rsp, h, ready) ==
  /\ SlotsOK(p, t, gone) /\ ResultsOK(rs, t) /\ PanicsOK(pn, t)
  /\ RespawnsOK(rsp, p) /\ HeartbeatOK(h, t) /\ WakeOK(ready, p)

\* A steer ack is about a channel of the queue.
AcksOK == \A a \in acks : a.ch \in Channels

SInv ==
  /\ "st" \in DOMAIN life /\ AcksOK
  /\ Owned(pool, task, removed, results, panics, respawned, hb, PoolReady)

\* The queue and the task map agree about the turns in flight.
TurnsOK(qs, t) ==
  /\ DOMAIN qs = Channels
  /\ \A ch \in Channels :
       /\ DOMAIN qs[ch] = QFields /\ qs[ch].inflight \in BOOLEAN /\ qs[ch].overdue = FALSE
       /\ qs[ch].inflight <=> \E i \in Slots : t[i].ch = ch
  /\ \A ch \in Channels, i, j \in Slots : t[i].ch = ch /\ t[j].ch = ch => i = j

TInv == SInv /\ TurnsOK(q, task)
=============================================================================
