--------------------------- MODULE ContextJournal ---------------------------
(***************************************************************************)
(* The CLI's context journal: save, load, ls, log, share, sessions and sync *)
(* (buzz-cli/commands/context/journal.rs, with mem.rs under it) and explore *)
(* over the durable context roots (durable.rs).  A node writes to its own  *)
(* relay; it reads there, and at the rendezvous when its relay does not    *)
(* answer.  Commands run one after another; between their requests another *)
(* process writes to either relay, time passes and files change.           *)
(***************************************************************************)
EXTENDS Integers, Sequences, FiniteSets

CONSTANTS
    Plans,       \* the profile, the roots, the commands and what else happens
    FreshAge,    \* 86_400
    AccretingAge,
    StaleAge,
    MaxTime

VARIABLES
    plan,
    store,    \* relay -> its records, numbered in the order they were made
    clock,
    streams,  \* the stream selection file
    cmd,      \* the command being executed
    left      \* commands, other writes, edits of the file and faults still to come

vars == <<plan, store, clock, streams, cmd, left>>

Local == "local"
Cloud == "cloud"
Relays == {Local, Cloud}
None == 0
\* kind: a memory, its tombstone, or a note of a session, a hand-off or anything else.
\* key: the scope of a memory, the topic of a note; ctx: the context of a note.
Record(n, kind, key, ctx, open) ==
    [n |-> n, kind |-> kind, key |-> key, ctx |-> ctx, at |-> clock, open |-> open]
All == store[Local] \cup store[Cloud]
Fresh == Cardinality(All) + 1
Newest(S) == IF S = {} THEN None
             ELSE (CHOOSE r \in S : \A o \in S : o.at < r.at \/ (o.at = r.at /\ o.n <= r.n)).n
Rec(n) == CHOOSE r \in All : r.n = n
Of(S, key) == {r \in S : r.key = key}
Residue(r, i) == {x \in store[r] : x.ctx = plan.roots[i].id}
Memories(S) == {r \in S : r.kind \in {"memory", "tombstone"}}

Idle == [op |-> "none", key |-> "-", pc |-> "idle", at |-> Local, seen |-> None, exit |-> "none",
         said |-> {}, floor |-> [r \in Relays |-> None], todo |-> {}, rows |-> {}, file |-> FALSE, limit |-> 0, now |-> 0]
Init ==
    /\ plan \in Plans
    /\ store = [r \in Relays |-> {}] /\ clock = 1
    /\ streams = plan.streams
    /\ cmd = Idle
    /\ left = [script |-> plan.script, writes |-> plan.writes, edits |-> plan.edits, faults |-> plan.faults]

Exit(c, code) == [c EXCEPT !.pc = "done", !.exit = code]
Answered == UNCHANGED left
Unanswered == left.faults > 0 /\ left' = [left EXCEPT !.faults = @ - 1]
---------------------------------------------------------------------------
(* The profile and the arguments.                                          *)

\* validate_scope, validate_label, validate_slug; the limit of sessions.
Valid(c) == c.key # "bad" /\ (c.op = "sessions" => c.limit \in 1..500)
\* select_session_context: --context, else the profile's default.
session_context(c) == c.op = "log" => c.explicit \/ plan.default

\* resolve_profile: a selection file in the data directory counts when none is named.
StreamsFile == plan.names \/ streams # "absent"

\* replication_invocation: a rendezvous, the runtime and the selection must be there.
\* Mutant: a listed stream needs no selection.
replication_invocation_Listed ==
    plan.rendezvous /\ (plan.names => streams # "absent")
replication_invocation ==
    /\ plan.rendezvous
    /\ IF StreamsFile THEN streams # "absent" ELSE ~plan.lists

\* The step a command begins with, after its checks.
First(c) ==
    CASE c.op = "save" -> "head" [] c.op \in {"log", "share"} -> "post" [] c.op = "sync" -> "spawn"
      [] c.op = "explore" -> "roots" [] OTHER -> "query"

begin ==
    /\ cmd.pc \in {"idle", "done"} /\ left.script # <<>>
    /\ LET c == Head(left.script)
           new == [Idle EXCEPT !.op = c.op, !.key = c.key, !.pc = First(c), !.file = StreamsFile, !.limit = c.limit,
                     !.floor = [r \in Relays |-> Newest(Of(Memories(store[r]), c.key))]]
       IN cmd' = IF Valid(c) /\ session_context(c) /\ (c.op = "sync" => replication_invocation) THEN new
                 ELSE Exit(new, "usage")
    /\ left' = [left EXCEPT !.script = Tail(@)]
    /\ UNCHANGED <<plan, store, clock, streams>>
---------------------------------------------------------------------------
(* Writing.                                                                *)

Puts(r, rec) == store' = [store EXCEPT ![r] = @ \cup {rec}]

\* save: mem set reads the head and writes past it.
save_head ==
    /\ cmd.pc = "head"
    /\ \/ Answered /\ cmd' = [cmd EXCEPT !.pc = "put", !.seen = Newest(Of(Memories(store[Local]), cmd.key))]
       \/ Unanswered /\ cmd' = Exit(cmd, "failed")
    /\ UNCHANGED <<plan, store, clock, streams>>

After(n) == IF n # None /\ Rec(n).at >= clock THEN Rec(n).at + 1 ELSE clock
\* An answer that is lost leaves the record there or not.
Posts(rec) ==
    \/ Answered /\ Puts(Local, rec) /\ cmd' = Exit(cmd, "ok")
    \/ Unanswered /\ (Puts(Local, rec) \/ UNCHANGED store) /\ cmd' = Exit(cmd, "failed")
save_put ==
    /\ cmd.pc = "put"
    /\ Posts([Record(Fresh, "memory", cmd.key, "-", TRUE) EXCEPT !.at = After(cmd.seen)])
    /\ UNCHANGED <<plan, clock, streams>>

\* log and share: one note of the session, or of the tooling, to the local relay.
logged == Record(Fresh, "session", cmd.key, plan.ctx, FALSE)
shared == Record(Fresh, "shared", cmd.key, IF plan.default THEN plan.ctx ELSE "-", FALSE)
post_builder ==
    /\ cmd.pc = "post"
    /\ Posts(IF cmd.op = "log" THEN logged ELSE shared)
    /\ UNCHANGED <<plan, clock, streams>>
---------------------------------------------------------------------------
(* Reading.                                                                *)

\* load: a memory that is missing or removed is an answer of its own kind, and
\* it sends the command to the rendezvous as a relay that does not answer does.
Loaded(r) ==
    LET n == Newest(Of(Memories(store[r]), cmd.key))
    IN IF n # None /\ Rec(n).kind = "memory" THEN {n} ELSE {}
\* sessions: the newest of the project, at most the limit.
Recent(S) == {r \in S : Cardinality({o \in S : o.at > r.at \/ (o.at = r.at /\ o.n > r.n)}) < cmd.limit}
Live(r) == {n \in {Newest(Of(Memories(store[r]), m.key)) : m \in Memories(store[r])} : Rec(n).kind = "memory"}
Listed(r) ==
    CASE cmd.op = "load" -> Loaded(r)
      [] cmd.op = "ls" -> Live(r)
      [] OTHER -> {o.n : o \in Recent({x \in store[r] : x.kind = "session" /\ x.key = cmd.key})}

Fails == IF cmd.at = Local /\ plan.rendezvous THEN [cmd EXCEPT !.at = Cloud] ELSE Exit(cmd, "failed")
\* Mutant: the rendezvous is read in place of the local relay.
query_preferred_Cloud ==
    /\ cmd.pc = "query"
    /\ Answered /\ cmd' = [Exit(cmd, "ok") EXCEPT !.said = Listed(Cloud), !.at = Local]
    /\ UNCHANGED <<plan, store, clock, streams>>
query_preferred ==
    /\ cmd.pc = "query"
    /\ \/ /\ Answered
          /\ cmd' = IF cmd.op = "load" /\ Listed(cmd.at) = {} THEN Fails
                    ELSE [Exit(cmd, "ok") EXCEPT !.said = Listed(cmd.at)]
       \/ Unanswered /\ cmd' = Fails
    /\ UNCHANGED <<plan, store, clock, streams>>
---------------------------------------------------------------------------
(* explore.                                                                *)

\* discover_roots: directories of the home with an opt-in that parses.
Roots == {i \in DOMAIN plan.roots : plan.roots[i].opt = "good"}

\* resolve_root_upward, then resolve_by_linked_target; else slug or id.
Inside(p) == {i \in DOMAIN plan.roots : plan.roots[i].opt # "absent" /\ p \in plan.roots[i].paths}
resolve_by_linked_target(p) == {i \in Roots : p \in plan.roots[i].links}
Named(name) == {i \in Roots : name \in {plan.roots[i].slug, plan.roots[i].id}}
\* Mutant: the first of several claims wins.
Only_First(S) == IF S = {} THEN None ELSE CHOOSE i \in S : \A j \in S : i <= j
Only(S) == IF Cardinality(S) = 1 THEN CHOOSE i \in S : TRUE ELSE None
resolve_target(t) ==
    IF t \in plan.paths
    THEN IF Inside(t) # {} THEN CHOOSE i \in Inside(t) : TRUE ELSE Only(resolve_by_linked_target(t))
    ELSE Only(Named(t))

\* The age of a record when the command began; one from the future is fresh.
Age(at) == IF cmd.now > at THEN cmd.now - at ELSE 0
classify_freshness(at) ==
    CASE at = None -> "untouched"
      [] at # None /\ Age(at) < FreshAge -> "fresh"
      [] at # None /\ Age(at) \in FreshAge..(AccretingAge - 1) -> "accreting"
      [] at # None /\ Age(at) \in AccretingAge..(StaleAge - 1) -> "stale"
      [] OTHER -> "cold"

explore ==
    /\ cmd.pc = "roots"
    /\ LET i == resolve_target(cmd.key)
       IN cmd' = IF cmd.key = "all" THEN [cmd EXCEPT !.pc = "rows", !.todo = Roots, !.now = clock]
                 ELSE IF i = None \/ plan.roots[i].opt # "good" THEN Exit(cmd, "usage")
                 ELSE [cmd EXCEPT !.pc = "expand", !.seen = i]
    /\ UNCHANGED <<plan, store, clock, streams, left>>

\* latest_touch: the newest note of the context, where one answers.
\* Mutant: the oldest note dates the context.
Touch_Oldest(r, i) ==
    IF Residue(r, i) = {} THEN None
    ELSE (CHOOSE x \in Residue(r, i) : \A y \in Residue(r, i) : x.at <= y.at).at
Touch(r, i) == LET n == Newest(Residue(r, i)) IN IF n = None THEN None ELSE Rec(n).at
Row(i, fresh, r) == [root |-> i, fresh |-> fresh, by |-> r]
overview ==
    /\ cmd.pc = "rows" /\ cmd.todo # {}
    /\ LET i == CHOOSE x \in cmd.todo : \A y \in cmd.todo : x <= y
           done(row) == [cmd EXCEPT !.todo = @ \ {i}, !.rows = @ \cup {row}, !.at = Local]
       IN \/ /\ Answered
             /\ cmd' = done(Row(i, classify_freshness(Touch(cmd.at, i)), cmd.at))
          \/ /\ Unanswered
             /\ cmd' = IF cmd.at = Local /\ plan.rendezvous THEN [cmd EXCEPT !.at = Cloud]
                       ELSE done(Row(i, "unknown", "none"))
    /\ UNCHANGED <<plan, store, clock, streams>>
overview_prints ==
    /\ cmd.pc = "rows" /\ cmd.todo = {}
    /\ cmd' = Exit(cmd, "ok")
    /\ UNCHANGED <<plan, store, clock, streams, left>>

\* expanded: what neither relay answers counts as no residue.
expanded ==
    /\ cmd.pc = "expand"
    /\ \/ /\ Answered
          /\ cmd' = [Exit(cmd, "ok") EXCEPT !.said = {o.n : o \in Residue(cmd.at, cmd.seen)}]
       \/ /\ Unanswered
          /\ cmd' = IF cmd.at = Local /\ plan.rendezvous THEN [cmd EXCEPT !.at = Cloud] ELSE Exit(cmd, "ok")
    /\ UNCHANGED <<plan, store, clock, streams>>
---------------------------------------------------------------------------
(* sync: buzz-relay-push with the arguments of the profile.                *)

\* Mutant: the selection is not passed on.
replication_arguments_Whole(named) == FALSE
replication_arguments(named) == named
\* The stream's entry: a filter, the whole journal declared as such, or an error.
Selected(named) ==
    IF ~replication_arguments(named) THEN {store[Local]}
    ELSE CASE streams = "filter" -> {{r \in store[Local] : r.open}}
           [] streams = "mirror" -> {store[Local]}
           [] OTHER -> {}
sync ==
    /\ cmd.pc = "spawn"
    /\ \/ /\ Answered
          /\ IF Selected(cmd.file) = {} THEN cmd' = Exit(cmd, "failed") /\ UNCHANGED store
             ELSE /\ store' = [store EXCEPT ![Cloud] = @ \cup UNION Selected(cmd.file)]
                  /\ cmd' = Exit(cmd, "ok")
       \/ Unanswered /\ cmd' = Exit(cmd, "failed") /\ UNCHANGED store
    /\ UNCHANGED <<plan, clock, streams>>
---------------------------------------------------------------------------
(* What else happens.                                                      *)

other_writes ==
    /\ \E w \in left.writes :
         /\ Puts(w.relay, [Record(Fresh, w.kind, w.key, w.ctx, w.open) EXCEPT
                             !.at = IF w.kind = "session" THEN clock
                                    ELSE After(Newest(Of(Memories(store[w.relay]), w.key)))])
         /\ left' = [left EXCEPT !.writes = @ \ {w}]
    /\ UNCHANGED <<plan, clock, streams, cmd>>
file_edited ==
    /\ \E s \in left.edits : streams' = s /\ left' = [left EXCEPT !.edits = @ \ {s}]
    /\ UNCHANGED <<plan, store, clock, cmd>>
tick ==
    /\ clock < MaxTime /\ plan.ticks /\ clock' = clock + 1
    /\ UNCHANGED <<plan, store, streams, cmd, left>>

Next ==
    \/ begin \/ save_head \/ save_put \/ post_builder \/ query_preferred
    \/ explore \/ overview \/ overview_prints \/ expanded \/ sync
    \/ other_writes \/ file_edited \/ tick

Spec == Init /\ [][Next]_vars
---------------------------------------------------------------------------
(* Properties.                                                             *)

Newer(n, m) == m = None \/ (n # None /\ (Rec(n).at > Rec(m).at \/ (Rec(n).at = Rec(m).at /\ n >= m)))

\* A load prints a memory no older than the newest its relay held when the load
\* began: the local one when it answered with the memory, else the rendezvous'
\* (journal.rs load, mem.rs cmd_get and monotonic_created_at).
LoadsCurrent ==
    cmd.op = "load" /\ cmd.exit = "ok" => \A n \in cmd.said : Newer(n, cmd.floor[cmd.at])

\* A node whose profile names a selection, or lists streams, sends nothing out
\* but what the file selects when it is read, whatever becomes of the file in
\* between (replication_invocation, replication_arguments, relay-push's --streams).
SelectionKept ==
    [][ (/\ cmd.pc = "spawn" /\ cmd'.exit = "ok" /\ (plan.names \/ plan.lists))
        => /\ streams \in {"filter", "mirror"}
           /\ streams = "filter" => \A r \in store'[Cloud] \ store[Cloud] : r.open ]_vars

\* explore calls a context untouched only when the relay that answered held no
\* record of it, and no warmer than its newest record there; it shows every root
\* that parses; and a path or a name that several contexts claim binds to none
\* (overview, classify_freshness, resolve_target).
ExploreTrue ==
    /\ \A row \in cmd.rows :
         row.fresh # "unknown" =>
           LET all == Residue(row.by, row.root)
               was == {r \in all : r.at < cmd.now}
           IN /\ row.fresh = "untouched" => was = {}
              /\ row.fresh = "cold" => \A r \in was : cmd.now - r.at >= StaleAge
              /\ row.fresh = "fresh" => \E r \in all : cmd.now - r.at < FreshAge
    /\ cmd.op = "explore" /\ cmd.key = "all" /\ cmd.exit = "ok" => {row.root : row \in cmd.rows} = Roots
    /\ cmd.op = "explore" /\ cmd.key # "all" /\ cmd.seen # None =>
         \A i \in Roots : (cmd.key \in plan.roots[i].links \/ cmd.key \in {plan.roots[i].slug, plan.roots[i].id})
                          => i = cmd.seen \/ Inside(cmd.key) # {}
===========================================================================
