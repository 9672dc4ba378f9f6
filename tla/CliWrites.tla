----------------------------- MODULE CliWrites -----------------------------
(***************************************************************************)
(* The commands that read a replaceable event, change it and write it      *)
(* back: an agent's memory (crates/buzz-cli/src/commands/mem.rs,           *)
(* buzz-core/src/engram.rs), notes (notes.rs), the custom emoji set        *)
(* (emoji.rs) and the profile (users.rs); and the harness reading an       *)
(* agent's core memory (buzz-acp/src/engram_fetch.rs).  Commands run       *)
(* concurrently, on machines whose clocks differ, against a relay that     *)
(* keeps the newest event of a coordinate.  A plan is about one            *)
(* coordinate.                                                             *)
(***************************************************************************)
EXTENDS Naturals, Sequences, FiniteSets, SequencesExt

CONSTANTS Plans,     \* records [what, relay, init, calls, faults, time]
          Calls      \* 1..n; plan.calls[c] = [cmd, arg, skew, after, piped]

VARIABLES plan,
          log,       \* the events the relay has accepted for the coordinate
          now,
          call,
          faults

vars == <<plan, log, now, call, faults>>

NoEvent == [id |-> 0, at |-> 0, by |-> 0, ok |-> FALSE]
\* Newest second first, then the smallest id (select_head, EventStore's winner).
Newer(e, f) == e.at > f.at \/ (e.at = f.at /\ e.id < f.id)
HeadOf(S) == IF S = {} THEN NoEvent ELSE CHOOSE e \in S : \A f \in S : f = e \/ Newer(e, f)
Stored == HeadOf(log)

\* A command that does not run in this plan.
Absent == [cmd |-> "none"]
Init ==
  /\ plan \in Plans
  /\ log = plan.init
  /\ now = 1
  /\ faults = plan.faults
  /\ call = [c \in Calls |-> [pc |-> IF plan.calls[c] = Absent THEN "done" ELSE "new", seen |-> NoEvent,
                              was |-> {}, base |-> NoEvent, ev |-> NoEvent, body |-> <<>>,
                              result |-> "none", took |-> FALSE, over |-> NoEvent, judged |-> FALSE]]

Arg(c) == plan.calls[c].arg
Cmd(c) == plan.calls[c].cmd
Clock(c) == now + plan.calls[c].skew
Known(e) == e # NoEvent
\* The body of an event: what its author's command built (<<b>>), or what was there at first.
Body(e) == IF e.by = 0 THEN e.body ELSE call[e.by].body[1]
Ends(c, result) == call' = [call EXCEPT ![c].pc = "done", ![c].result = result]
tick ==
  /\ now < plan.time /\ now' = now + 1
  /\ UNCHANGED <<plan, log, call, faults>>
-----------------------------------------------------------------------------
(***************************************************************************)
(* Reading: fetch_head, fetch_own_note, fetch_own_emoji,                   *)
(* fetch_current_profile.  An engram that does not decrypt is passed over. *)
(***************************************************************************)
Memory(c) == Cmd(c) \in {"mem_set", "mem_rm", "mem_patch"}
\* Its signature, tags, key and body check out (a flag of the event).
validate_and_decrypt(e) == e.ok
Readable(S) == {e \in S : validate_and_decrypt(e)}
fetch_head(c) == HeadOf(Readable(log))
fetch_own(c) == HeadOf(log)
Fetched(c) == IF Memory(c) THEN fetch_head(c) ELSE fetch_own(c)

\* cmd_hash: the operator takes the hash a patch is generated against.
cmd_hash(c) ==
  /\ call[c].pc = "new" /\ Cmd(c) = "mem_patch" /\ ~ Known(call[c].base)
  /\ plan.calls[c].after => \A d \in Calls \ {c} : call[d].pc \in {"new", "done"}
  /\ LET h == fetch_head(c) IN
       IF Known(h) /\ ~ Body(h).tomb
       THEN call' = [call EXCEPT ![c].base = h]
       ELSE Ends(c, "notfound")
  /\ UNCHANGED <<plan, log, now, faults>>
-----------------------------------------------------------------------------
(***************************************************************************)
(* What each command builds from what it read.  "stop" ends the command    *)
(* without a write.                                                        *)
(***************************************************************************)
Stop(result) == [stop |-> result, body |-> <<>>]
Write(b) == [stop |-> "no", body |-> <<b>>]

\* verify_hunks_at_declared_position: the lines the hunk replaces, where it says.
Applies(lines, h) ==
  IF h.pre = <<>> THEN h.start = 0
  ELSE /\ h.start >= 1 /\ h.start - 1 + Len(h.pre) <= Len(lines)
       /\ SubSeq(lines, h.start, h.start - 1 + Len(h.pre)) = h.pre
Patched(lines, h) ==
  LET s == IF h.start = 0 THEN 1 ELSE h.start
  IN SubSeq(lines, 1, s - 1) \o h.post \o SubSeq(lines, s + Len(h.pre), Len(lines))
BaseKept_Never(c, h) == TRUE
BaseKept(c, h) == Body(h).lines = Body(call[c].base).lines
cmd_patch(c, h) ==
  IF ~ Known(h) \/ Body(h).tomb THEN Stop("notfound")
  ELSE IF ~ BaseKept(c, h) THEN Stop("conflict")
  ELSE IF ~ Applies(Body(h).lines, Arg(c)) THEN Stop("usage")
  ELSE IF Patched(Body(h).lines, Arg(c)) = <<>> THEN Stop("usage")       \* without --allow-empty
  ELSE Write([tomb |-> FALSE, lines |-> Patched(Body(h).lines, Arg(c))])
\* An empty value is refused from standard input alone.
cmd_set(c) == IF Arg(c) = <<>> /\ plan.calls[c].piped THEN Stop("usage") ELSE Write([tomb |-> FALSE, lines |-> Arg(c)])
cmd_rm(c) == Write([tomb |-> TRUE, lines |-> <<>>])

\* build_set_event of notes.rs: what is not given is carried over.
published_at_Now(c, h) == Clock(c)
published_at(c, h) == IF Known(h) THEN Body(h).pub ELSE Clock(c)
build_set_event(c, h) ==
  IF Arg(c).title = 0 /\ ~ Known(h) THEN Stop("usage")
  ELSE Write([title |-> IF Arg(c).title = 0 THEN Body(h).title ELSE Arg(c).title,
              tags |-> IF Arg(c).keep THEN (IF Known(h) THEN Body(h).tags ELSE {}) ELSE Arg(c).tags,
              pub |-> published_at(c, h)])

\* emoji.rs: a set of <<shortcode, url>>; the url tells who put it there.
Own(h) == IF Known(h) THEN Body(h) ELSE {}
Without(S, codes) == {p \in S : p[1] \notin codes}
emoji_set(c, h) == Write(Without(Own(h), {Arg(c)}) \cup {<<Arg(c), c>>})
emoji_rm(c, h) == IF Without(Own(h), {Arg(c)}) = Own(h) THEN Stop("ok") ELSE Write(Without(Own(h), {Arg(c)}))
cmd_import_Replaces(c, h) == Write({<<k, c>> : k \in Arg(c).codes})
cmd_import(c, h) ==
  Write(IF Arg(c).replace THEN {<<k, c>> : k \in Arg(c).codes}
        ELSE Own(h) \cup {<<k, c>> : k \in Arg(c).codes \ {p[1] : p \in Own(h)}})

\* cmd_set_profile: `name` is read when there is no display_name, never written.
cmd_set_profile(c, h) ==
  Write([display |-> IF "display" \in Arg(c) THEN c
                     ELSE IF ~ Known(h) THEN 0
                     ELSE IF Body(h).display # 0 THEN Body(h).display ELSE Body(h).name,
         about |-> IF "about" \in Arg(c) THEN c ELSE IF Known(h) THEN Body(h).about ELSE 0,
         name |-> 0])

Built(c, h) ==
  CASE Cmd(c) = "mem_set" -> cmd_set(c)
    [] Cmd(c) = "mem_rm" -> IF plan.what = "core" THEN Stop("usage") ELSE cmd_rm(c)
    [] Cmd(c) = "mem_patch" -> cmd_patch(c, h)
    [] Cmd(c) = "note_set" -> build_set_event(c, h)
    [] Cmd(c) = "emoji_set" -> emoji_set(c, h)
    [] Cmd(c) = "emoji_rm" -> emoji_rm(c, h)
    [] Cmd(c) = "emoji_import" -> cmd_import(c, h)
    [] OTHER -> cmd_set_profile(c, h)

\* max(now, prior + 1); the other commands take the clock as it is.
monotonic_created_at_Now(n, h) == n
monotonic_created_at(n, h) == IF Known(h) /\ h.at + 1 > n THEN h.at + 1 ELSE n
created_at(c, h) == IF Memory(c) THEN monotonic_created_at(Clock(c), h) ELSE Clock(c)

\* The ids of two events are in no order their authors choose.
Free == 1..(Cardinality(Calls) + 1) \ ({e.id : e \in log} \cup {call[d].ev.id : d \in Calls})
reads(c) ==
  /\ call[c].pc = "new" /\ Cmd(c) # "core_section"
  /\ Cmd(c) = "mem_patch" => Known(call[c].base)
  /\ plan.calls[c].after => \A d \in Calls \ {c} : call[d].pc \in {"new", "done"}
  /\ LET h == Fetched(c)
         b == Built(c, h)
     IN IF b.stop # "no" THEN Ends(c, b.stop)
        ELSE \E id \in Free :
               call' = [call EXCEPT ![c].pc = "built", ![c].seen = h, ![c].was = log, ![c].body = b.body,
                                    ![c].ev = [id |-> id, at |-> created_at(c, h), by |-> c, ok |-> TRUE]]
  /\ UNCHANGED <<plan, log, now, faults>>
-----------------------------------------------------------------------------
(***************************************************************************)
(* Writing.  The relay keeps a newer event and says what it did: a         *)
(* portable relay "duplicate" or "superseded", a hosted one "duplicate:"   *)
(* for both.  A lost answer makes the client send the same event again.    *)
(***************************************************************************)
Answer(c, e) ==
  IF call[c].judged THEN "duplicate"        \* seen_ids, of a superseded event too
  ELSE IF Known(Stored) /\ Newer(Stored, e) THEN (IF plan.relay = "hosted" THEN "duplicate" ELSE "superseded")
  ELSE "stored"
\* submit_engram and notes' cmd_set turn "duplicate" into a conflict; the others print the answer.
Reported_Accepted(c, answer) == "ok"
Reported(c, answer) ==
  IF (Memory(c) \/ Cmd(c) = "note_set") /\ answer = "duplicate" THEN "conflict" ELSE "ok"
submits(c) ==
  /\ call[c].pc = "built"
  /\ LET e == call[c].ev
         a == Answer(c, e)
         kept == IF a = "stored" THEN log \cup {e} ELSE log
     IN \/ /\ log' = kept
           /\ call' = [call EXCEPT ![c].pc = "done", ![c].result = Reported(c, a),
                                ![c].took = @ \/ a = "stored", ![c].over = IF a = "stored" THEN Stored ELSE @]
           /\ UNCHANGED faults
        \/ /\ faults > 0 /\ faults' = faults - 1        \* the answer is lost
           /\ log' = kept
           /\ call' = [call EXCEPT ![c].took = @ \/ a = "stored", ![c].over = IF a = "stored" THEN Stored ELSE @,
                                ![c].judged = TRUE]
        \/ /\ faults > 0 /\ faults' = faults - 1        \* the relay cannot be reached any more
           /\ Ends(c, "error") /\ UNCHANGED log
  /\ UNCHANGED <<plan, now>>

\* build_core_section: fetch_core_body, decode_core_body.
decode_core_body_Absent(S) ==
  IF Readable(S) = {} THEN "nudge"
  ELSE IF Body(HeadOf(Readable(S))).tomb THEN "nudge" ELSE "profile"
decode_core_body(S) ==
  IF S = {} THEN "nudge"
  ELSE IF Readable(S) = {} THEN "nothing"
  ELSE IF Body(HeadOf(Readable(S))).tomb THEN "nudge" ELSE "profile"
core_section(c) ==
  /\ call[c].pc = "new" /\ Cmd(c) = "core_section"
  /\ \/ call' = [call EXCEPT ![c].pc = "done", ![c].result = decode_core_body(log), ![c].was = log] /\ UNCHANGED faults
     \/ faults > 0 /\ faults' = faults - 1 /\ Ends(c, "nothing")
  /\ UNCHANGED <<plan, log, now>>

Next == tick \/ \E c \in Calls : cmd_hash(c) \/ reads(c) \/ submits(c) \/ core_section(c)

Spec == Init /\ [][Next]_vars
-----------------------------------------------------------------------------
\* A memory command that reports success, over a head it could read and with no
\* other write since it read, has written the head, whatever the clocks of the
\* machines (monotonic_created_at).
MemoryTakes ==
  \A c \in Calls :
    (/\ Memory(c) /\ call[c].result = "ok"
     /\ log \ {call[c].ev} = call[c].was /\ call[c].seen = HeadOf(call[c].was)) => call[c].took

\* On a relay that says when a write lost, no memory or note command reports a
\* write that was never the head (submit_engram, notes cmd_set).
SuccessIsReal ==
  plan.relay = "hosted" =>
    \A c \in Calls : (Memory(c) \/ Cmd(c) = "note_set") /\ call[c].result = "ok" /\ Known(call[c].ev)
                       => call[c].took

\* A command that wrote over exactly what it read keeps what it was not asked to
\* change: a note its publication time, the emoji set its other shortcodes
\* (build_set_event, cmd_import).
OthersKept ==
  \A c \in Calls :
    LET new == call[c].body[1]  old == Body(call[c].seen) IN
      (call[c].took /\ Known(call[c].seen)) =>
        /\ Cmd(c) = "note_set" => new.pub = old.pub
        /\ Cmd(c) = "note_set" /\ Arg(c).keep => new.tags = old.tags
        /\ Cmd(c) \in {"emoji_set", "emoji_rm"} => Without(old, {Arg(c)}) = Without(new, {Arg(c)})
        /\ Cmd(c) = "emoji_import" /\ ~ Arg(c).replace => old \subseteq new

\* A patch goes through only over the value its hash was taken of, as far as the
\* command itself read it (the base-hash gate of cmd_patch).
PatchOnBase ==
  \A c \in Calls :
    (Cmd(c) = "mem_patch" /\ Known(call[c].ev)) => Body(call[c].seen).lines = Body(call[c].base).lines

\* An agent is told it has no core memory only when the relay holds none
\* (decode_core_body).
NudgeIsTrue ==
  \A c \in Calls : call[c].result = "nudge" => \A e \in call[c].was : e.by # 0 /\ Body(e).tomb
=============================================================================
