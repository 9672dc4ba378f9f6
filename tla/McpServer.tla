------------------------------ MODULE McpServer ------------------------------
(***************************************************************************)
(* One MCP server of a buzz-agent session (crates/buzz-agent/src/mcp.rs):  *)
(* its process, the state cell that calls load without a lock, the lazy    *)
(* restart under restart_lock, and the calls of tools and hooks that use   *)
(* it, time out, are aborted, or find the transport broken.                *)
(***************************************************************************)
EXTENDS Naturals, FiniteSets

CONSTANTS Tools,        \* concurrent tool calls
          Hooks,        \* concurrent hook calls
          MaxAttempts,  \* mcp_max_restart_attempts
          MaxProcs,     \* bound: processes ever spawned
          MaxCalls      \* bound: calls made

VARIABLES server,    \* Server::client: Healthy or Dead
          procs,     \* live process groups
          spawned,   \* processes spawned so far
          lock,      \* holder of restart_lock
          calls,     \* each caller's place in call / maybe_restart / do_call
          hook_timeouts, \* consecutive hook timeouts
          made       \* calls made

vars == <<server, procs, spawned, lock, calls, hook_timeouts, made>>

Callers == Tools \cup Hooks
Free == "free"
Idle == [pc |-> "idle", proc |-> 0]
Healthy(p, has) == [t |-> "healthy", proc |-> p, tool |-> has, attempts |-> 0, due |-> FALSE]
Dead(n, has) == [t |-> "dead", proc |-> 0, tool |-> has, attempts |-> n, due |-> FALSE]

\* spawn_all started the first process.
Init ==
  /\ server = Healthy(1, TRUE)
  /\ procs = {1} /\ spawned = 1
  /\ lock = Free
  /\ calls = [c \in Callers |-> Idle]
  /\ hook_timeouts = 0
  /\ made = 0

Goto(c, pc) == calls' = [calls EXCEPT ![c].pc = pc]
Return(c) == calls' = [calls EXCEPT ![c] = Idle]

\* check_restart_state: an exhausted or recovering server is an error.
check_restart_state ==
  IF server.t = "healthy" THEN "healthy"
  ELSE IF server.attempts >= MaxAttempts \/ ~server.due THEN "error"
  ELSE "ready"

\* next_retry passes.
BackoffElapses ==
  /\ server.t = "dead" /\ ~server.due
  /\ server' = [server EXCEPT !.due = TRUE]
  /\ UNCHANGED <<procs, spawned, lock, calls, hook_timeouts, made>>

\* A process dies by itself.
ServerExits ==
  /\ procs # {}
  /\ \E p \in procs : procs' = procs \ {p}
  /\ UNCHANGED <<server, spawned, lock, calls, hook_timeouts, made>>

-----------------------------------------------------------------------------
\* call: on the loaded client, or after a restart.

Use(c) ==
  IF server.tool THEN calls' = [calls EXCEPT ![c] = [pc |-> "send", proc |-> server.proc]]
  ELSE Return(c)  \* the restarted server has other tools

call(c) ==
  /\ calls[c].pc = "idle" /\ made < MaxCalls
  /\ made' = made + 1
  /\ CASE check_restart_state = "healthy" -> Use(c)
       [] check_restart_state = "error" -> Return(c)
       [] check_restart_state = "ready" -> Goto(c, "lock")
  /\ UNCHANGED <<server, procs, spawned, lock, hook_timeouts>>

\* With the lock held the state is checked again.
maybe_restart_Once(c) ==
  /\ calls[c].pc = "lock" /\ lock = Free /\ spawned < MaxProcs
  /\ lock' = c
  /\ spawned' = spawned + 1 /\ procs' = procs \cup {spawned + 1}
  /\ calls' = [calls EXCEPT ![c] = [pc |-> "spawn", proc |-> spawned + 1]]
  /\ UNCHANGED <<server, hook_timeouts, made>>
maybe_restart(c) ==
  /\ calls[c].pc = "lock" /\ lock = Free
  /\ CASE check_restart_state = "healthy" ->
            Goto(c, "reload") /\ UNCHANGED <<procs, spawned, lock>>
       [] check_restart_state = "error" -> Return(c) /\ UNCHANGED <<procs, spawned, lock>>
       [] check_restart_state = "ready" ->
            /\ spawned < MaxProcs
            /\ lock' = c
            /\ spawned' = spawned + 1 /\ procs' = procs \cup {spawned + 1}
            /\ calls' = [calls EXCEPT ![c] = [pc |-> "spawn", proc |-> spawned + 1]]
  /\ UNCHANGED <<server, hook_timeouts, made>>

\* spawn_one: initialize and list_tools, each under a timeout; on failure its
\* guard kills the process group.
spawn_one_ok(c) ==
  /\ calls[c].pc = "spawn" /\ calls[c].proc \in procs
  /\ \E has \in BOOLEAN : server' = Healthy(calls[c].proc, has)
  /\ lock' = Free
  /\ Goto(c, "reload")
  /\ UNCHANGED <<procs, spawned, hook_timeouts, made>>

spawn_one_fails_Unguarded(c) ==
  /\ calls[c].pc = "spawn"
  /\ server' = Dead(server.attempts + 1, server.tool)
  /\ lock' = Free
  /\ Return(c)
  /\ UNCHANGED <<procs, spawned, hook_timeouts, made>>
spawn_one_fails(c) ==
  /\ calls[c].pc = "spawn"
  /\ procs' = procs \ {calls[c].proc}
  /\ server' = Dead(server.attempts + 1, server.tool)
  /\ lock' = Free
  /\ Return(c)
  /\ UNCHANGED <<spawned, hook_timeouts, made>>

reload(c) ==
  /\ calls[c].pc = "reload"
  /\ IF server.t = "healthy" THEN Use(c) ELSE Return(c)
  /\ UNCHANGED <<server, procs, spawned, lock, hook_timeouts, made>>

-----------------------------------------------------------------------------
\* do_call.

\* The request is handed to the client's transport, which may be closed.
do_call_send(c) ==
  /\ calls[c].pc = "send"
  /\ IF calls[c].proc \in procs THEN Goto(c, "wait") ELSE Return(c)
  /\ UNCHANGED <<server, procs, spawned, lock, hook_timeouts, made>>

\* A result, or an application error; a hook that answers resets its count.
do_call_answer(c) ==
  /\ calls[c].pc = "wait" /\ calls[c].proc \in procs
  /\ Return(c)
  /\ hook_timeouts' = IF c \in Hooks THEN 0 ELSE hook_timeouts
  /\ UNCHANGED <<server, procs, spawned, lock, made>>

\* kill_and_mark_dead_if_current: only while this client is the current one.
do_call_transport_error(c) ==
  /\ calls[c].pc = "wait" /\ calls[c].proc \notin procs
  /\ server' = IF server.t = "healthy" /\ server.proc = calls[c].proc
               THEN Dead(1, server.tool) ELSE server
  /\ Return(c)
  /\ UNCHANGED <<procs, spawned, lock, hook_timeouts, made>>

-----------------------------------------------------------------------------
\* The callers' timeouts drop the call wherever it is: a spawn in progress is
\* killed by its guard and the lock is released.

Drop(c) ==
  /\ Return(c)
  /\ lock' = IF lock = c THEN Free ELSE lock
KillSpawn(c) == IF calls[c].pc = "spawn" THEN {calls[c].proc} ELSE {}

\* kill_server kills whatever process is current.
kill_server(guarded) ==
  IF server.t = "dead" THEN server' = server /\ procs' = procs \ guarded
  ELSE /\ server' = Dead(1, server.tool)
       /\ procs' = procs \ ({server.proc} \cup guarded)

\* invoke_tool_inner: a tool's timeout kills the server; an aborted task (the
\* session was cancelled) leaves it alone.
invoke_tool_timeout(c) ==
  /\ c \in Tools /\ calls[c].pc # "idle"
  /\ Drop(c)
  /\ kill_server(KillSpawn(c))
  /\ UNCHANGED <<spawned, hook_timeouts, made>>
invoke_tool_dropped(c) ==
  /\ c \in Tools /\ calls[c].pc # "idle"
  /\ Drop(c)
  /\ procs' = procs \ KillSpawn(c)
  /\ UNCHANGED <<server, spawned, hook_timeouts, made>>

\* call_hooks: the second consecutive timeout kills the server.
call_hooks_timeout(c) ==
  /\ c \in Hooks /\ calls[c].pc # "idle"
  /\ Drop(c)
  /\ IF hook_timeouts + 1 >= 2
     THEN kill_server(KillSpawn(c)) /\ hook_timeouts' = 0
     ELSE /\ hook_timeouts' = hook_timeouts + 1
          /\ procs' = procs \ KillSpawn(c)
          /\ UNCHANGED server
  /\ UNCHANGED <<spawned, made>>

CallStep(c) ==
  \/ maybe_restart(c) \/ spawn_one_ok(c) \/ spawn_one_fails(c) \/ reload(c)
  \/ do_call_send(c) \/ do_call_answer(c) \/ do_call_transport_error(c)
Timeouts(c) == invoke_tool_timeout(c) \/ invoke_tool_dropped(c) \/ call_hooks_timeout(c)

Next ==
  \/ BackoffElapses \/ ServerExits
  \/ \E c \in Callers : call(c) \/ CallStep(c) \/ Timeouts(c)
Spec == Init /\ [][Next]_vars

-----------------------------------------------------------------------------

\* At most one process of the server lives at a time, and it is the current
\* one or the one being started: concurrent restarts, failed and dropped spawns
\* and kills leave no orphan (maybe_restart's second check, PgidGuard,
\* kill_server).
OneProcess ==
  /\ Cardinality(procs) <= 1
  /\ procs \subseteq {server.proc} \cup
       {calls[c].proc : c \in {d \in Callers : calls[d].pc = "spawn"}}
=============================================================================
