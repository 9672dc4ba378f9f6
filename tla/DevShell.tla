------------------------------ MODULE DevShell ------------------------------
(***************************************************************************)
(* The shell tool of the developer tool server                             *)
(* (buzz-dev-mcp/src/shell.rs).  One call runs one command in a process    *)
(* group of its own, reads its two streams from two tasks, and settles on  *)
(* the first of: cancellation, exit, timeout.  Several calls run at once   *)
(* on one thread; processes run beside them.  A command is its leader and  *)
(* one child it leaves behind, in its group or in a session of its own.    *)
(***************************************************************************)
EXTENDS Naturals, Sequences, FiniteSets, TLC, SequencesExt

CONSTANTS Plans,       \* records [commands, shell, cancels, drops, faults]
          Calls,       \* 1..n; plan.commands[c] is what call c runs
          CaptureCap,  \* CAPTURE_CAP
          MaxBytes, MaxLines, TailBytes,
          RingSize     \* ARTIFACT_RING_SIZE

VARIABLES plan,
          call,        \* run(): where each call stands, and its KillGroup
          proc,        \* the leader and the child of each command
          pipe,        \* per call and stream: written, and what its reader took
          ring, disk,  \* SharedState.artifacts; the files in the artifact directory
          next_call_id,
          answer       \* per call, what it returned

vars == <<plan, call, proc, pipe, ring, disk, next_call_id, answer>>

Streams == {"stdout", "stderr"}
NoCapture == [bytes |-> <<>>, total_bytes |-> 0, capped |-> FALSE]
Waiting == [kind |-> "none"]

Init ==
  /\ plan \in Plans
  /\ call = [c \in Calls |-> [pc |-> "new", token |-> FALSE, timed_out |-> FALSE, armed |-> FALSE,
                              exit |-> "none", caps |-> [s \in {} |-> NoCapture], notes |-> {}]]
  /\ proc = [c \in Calls |-> [leader |-> "none", child |-> "none", left |-> plan.commands[c].writes]]
  /\ pipe = [c \in Calls |-> [s \in Streams |-> [written |-> <<>>, read |-> 0, cap |-> NoCapture, alive |-> FALSE]]]
  /\ ring = <<>> /\ disk = {} /\ next_call_id = 0
  /\ answer = [c \in Calls |-> Waiting]
-----------------------------------------------------------------------------
(***************************************************************************)
(* The processes.  A command is [writes, child, stubborn, ends]: what it   *)
(* writes, as <<stream, bytes>>; whether it leaves a child in its group,   *)
(* in another session, or none; whether the two survive SIGTERM; whether   *)
(* it exits by itself.                                                     *)
(***************************************************************************)
Command(c) == plan.commands[c]
Escaped(c) == Command(c).child = "session"

\* The processes of the group that a signal leaves running.
AfterTerm(c, p) ==
  IF Command(c).stubborn THEN p
  ELSE [p EXCEPT !.leader = IF @ = "running" THEN "dead" ELSE @,
                 !.child = IF @ = "running" /\ ~Escaped(c) THEN "dead" ELSE @]
AfterKill(c, p) ==
  [p EXCEPT !.leader = IF @ = "running" THEN "dead" ELSE @,
            !.child = IF @ = "running" /\ ~Escaped(c) THEN "dead" ELSE @]

\* What the whole tree holds open: end of file comes when nobody does.
Held(c) == proc[c].leader = "running" \/ proc[c].child = "running"

write(c) ==
  /\ Held(c) /\ proc[c].left # <<>>
  /\ LET w == Head(proc[c].left)
     IN pipe' = [pipe EXCEPT ![c][w[1]].written = @ \o w[2]]
  /\ proc' = [proc EXCEPT ![c].left = Tail(@)]
  /\ UNCHANGED <<plan, call, ring, disk, next_call_id, answer>>

fork(c) ==
  /\ proc[c].leader = "running" /\ proc[c].child = "none" /\ Command(c).child # "none"
  /\ proc' = [proc EXCEPT ![c].child = "running"]
  /\ UNCHANGED <<plan, call, pipe, ring, disk, next_call_id, answer>>

exit(c) ==
  /\ proc[c].leader = "running" /\ Command(c).ends
  /\ Command(c).child # "none" \/ proc[c].left = <<>>
  /\ Command(c).child # "none" => proc[c].child # "none"
  /\ proc' = [proc EXCEPT ![c].leader = "dead"]
  /\ UNCHANGED <<plan, call, pipe, ring, disk, next_call_id, answer>>
-----------------------------------------------------------------------------
(***************************************************************************)
(* read_capped: the reader of one stream takes what is there; after        *)
(* CAPTURE_CAP bytes it only counts.                                       *)
(***************************************************************************)
Captured(cap, new) ==
  LET room == CaptureCap - Len(cap.bytes)
      bytes == IF cap.capped THEN cap.bytes
               ELSE cap.bytes \o SubSeq(new, 1, IF Len(new) < room THEN Len(new) ELSE room)
  IN [bytes |-> bytes, total_bytes |-> cap.total_bytes + Len(new),
      capped |-> cap.capped \/ Len(bytes) >= CaptureCap]

read_capped(c, s) ==
  LET p == pipe[c][s] IN
  /\ p.alive /\ p.read < Len(p.written)
  /\ pipe' = [pipe EXCEPT ![c][s].read = Len(p.written),
                          ![c][s].cap = Captured(@, SubSeq(p.written, p.read + 1, Len(p.written)))]
  /\ UNCHANGED <<plan, call, proc, ring, disk, next_call_id, answer>>

\* A mutant: the capture is taken as soon as the command has been reaped.
AtEof_Reaped(c, s) == proc[c].leader = "reaped"
AtEof(c, s) == pipe[c][s].read = Len(pipe[c][s].written) /\ ~Held(c)
-----------------------------------------------------------------------------
(***************************************************************************)
(* finalize_stream and the ring of artifacts.  Bytes are "x", a newline    *)
(* "n", and the two bytes of a character, "l" then "c".                    *)
(***************************************************************************)
Truncates(cap) ==
  \/ cap.capped
  \/ Len(cap.bytes) > MaxBytes
  \/ Cardinality({i \in DOMAIN cap.bytes : cap.bytes[i] = "n"}) > MaxLines

\* align_to_char_boundary: the first index from start on that begins a character.
Aligned(buf, start) ==
  CHOOSE i \in start..(Len(buf) + 1) :
    /\ i <= Len(buf) => buf[i] # "c"
    /\ \A j \in start..(i - 1) : buf[j] = "c"
TailStart(buf) == Aligned(buf, IF Len(buf) > TailBytes THEN Len(buf) - TailBytes + 1 ELSE 1)

\* Mutants: one slot short; the newest is dropped.
Stored_Short(r) == IF Len(r) >= RingSize THEN SubSeq(r, Len(r) - RingSize + 2, Len(r)) ELSE r
Stored_Newest(r) == IF Len(r) > RingSize THEN SubSeq(r, 1, RingSize) ELSE r
Stored(r) == IF Len(r) > RingSize THEN SubSeq(r, Len(r) - RingSize + 1, Len(r)) ELSE r

\* The files that rotate_artifacts leaves.
Rotated(r, d, name) ==
  LET pushed == Append(r, name) IN [ring |-> Stored(pushed), disk |-> (d \union {name}) \ (Range(pushed) \ Range(Stored(pushed)))]

\* st: the ring, the disk and what the result says so far.
Finalized(st, id, s, cap, fails) ==
  LET name == <<id, s>>
      start == TailStart(cap.bytes)
      text == IF Truncates(cap) THEN SubSeq(cap.bytes, start, Len(cap.bytes)) ELSE cap.bytes
      rot == Rotated(st.ring, st.disk, name)
      told == [text |-> text, truncated |-> Truncates(cap), total |-> cap.total_bytes,
               artifact |-> IF Truncates(cap) /\ ~fails THEN {name} ELSE {},
               torn |-> IF Truncates(cap) /\ fails THEN {name} ELSE {}]
  IN [ring |-> IF Truncates(cap) /\ ~fails THEN rot.ring ELSE st.ring,
      disk |-> IF Truncates(cap) /\ ~fails THEN rot.disk ELSE st.disk \union told.torn,
      told |-> [x \in DOMAIN st.told \union {s} |-> IF x = s THEN told ELSE st.told[x]]]
-----------------------------------------------------------------------------
(***************************************************************************)
(* run, from its checks to its answer.                                     *)
(***************************************************************************)
Refuse(c) ==
  /\ call[c].pc = "new"
  /\ plan.shell # "found" \/ plan.faults > 0
  /\ call' = [call EXCEPT ![c].pc = "returned"]
  /\ answer' = [answer EXCEPT ![c] = [kind |-> "error"]]
  /\ UNCHANGED <<plan, proc, pipe, ring, disk, next_call_id>>

spawn(c) ==
  /\ call[c].pc = "new" /\ plan.shell = "found"
  /\ proc' = [proc EXCEPT ![c].leader = "running"]
  /\ call' = [call EXCEPT ![c].pc = "select", ![c].armed = TRUE]
  /\ pipe' = [pipe EXCEPT ![c] = [s \in Streams |-> [@[s] EXCEPT !.alive = TRUE]]]
  /\ UNCHANGED <<plan, ring, disk, next_call_id, answer>>

\* The client cancels the request.
cancel(c) ==
  /\ call[c].pc \notin {"new", "returned", "dropped"} /\ ~call[c].token
  /\ plan.cancels > Cardinality({x \in Calls : call[x].token})
  /\ call' = [call EXCEPT ![c].token = TRUE]
  /\ UNCHANGED <<plan, proc, pipe, ring, disk, next_call_id, answer>>

\* The select is biased: a cancelled token wins.
cancelled(c) ==
  /\ call[c].pc = "select" /\ call[c].token
  /\ proc' = [proc EXCEPT ![c] = AfterKill(c, @)]
  /\ call' = [call EXCEPT ![c].pc = "reap_cancelled"]
  /\ UNCHANGED <<plan, pipe, ring, disk, next_call_id, answer>>

\* The reap takes at most a second; after it the guard, still armed, kills once more.
Silenced(p) == [s \in Streams |-> [p[s] EXCEPT !.alive = FALSE]]
reap_cancelled(c) ==
  /\ call[c].pc = "reap_cancelled"
  /\ \/ /\ proc[c].leader = "dead"
        /\ proc' = [proc EXCEPT ![c].leader = "reaped"]
     \/ /\ plan.faults > 0
        /\ proc' = [proc EXCEPT ![c] = AfterKill(c, @)]
  /\ call' = [call EXCEPT ![c].pc = "returned", ![c].armed = FALSE]
  /\ pipe' = [pipe EXCEPT ![c] = Silenced(@)]
  /\ answer' = [answer EXCEPT ![c] = [kind |-> "cancelled"]]
  /\ UNCHANGED <<plan, ring, disk, next_call_id>>

\* A mutant: a command that exited by itself needs no kill.
ExitedNext_Drain == "drain_stdout"
\* kill_graceful after a normal exit: its SIGTERM comes before the 200 ms sleep.
ExitedNext == "killing"
exited(c) ==
  /\ call[c].pc = "select" /\ ~call[c].token
  /\ proc[c].leader = "dead"
  /\ proc' = [proc EXCEPT ![c] = AfterTerm(c, [@ EXCEPT !.leader = "reaped"])]
  /\ call' = [call EXCEPT ![c].pc = ExitedNext, ![c].exit = "code"]
  /\ UNCHANGED <<plan, pipe, ring, disk, next_call_id, answer>>

\* The wait itself fails: no status, and the same way on.
wait_failed(c) ==
  /\ call[c].pc = "select" /\ ~call[c].token /\ plan.faults > 0
  /\ proc' = [proc EXCEPT ![c] = AfterTerm(c, @)]
  /\ call' = [call EXCEPT ![c].pc = ExitedNext, ![c].exit = "-1"]
  /\ UNCHANGED <<plan, pipe, ring, disk, next_call_id, answer>>

timed_out(c) ==
  /\ call[c].pc = "select" /\ ~call[c].token /\ proc[c].leader = "running"
  /\ proc' = [proc EXCEPT ![c] = AfterTerm(c, @)]
  /\ call' = [call EXCEPT ![c].pc = "killing", ![c].timed_out = TRUE, ![c].exit = "124"]
  /\ UNCHANGED <<plan, pipe, ring, disk, next_call_id, answer>>

\* SIGKILL after the sleep; a timed-out command is then reaped.
kill_graceful(c) ==
  /\ call[c].pc = "killing"
  /\ proc' = [proc EXCEPT ![c] = AfterKill(c, @)]
  /\ call' = [call EXCEPT ![c].pc = IF call[c].timed_out THEN "reap" ELSE "drain_stdout"]
  /\ UNCHANGED <<plan, pipe, ring, disk, next_call_id, answer>>

reap(c) ==
  /\ call[c].pc = "reap"
  /\ \/ proc[c].leader = "dead" /\ proc' = [proc EXCEPT ![c].leader = "reaped"]
     \/ plan.faults > 0 /\ UNCHANGED proc        \* try_wait failed: a note, and on
  /\ call' = [call EXCEPT ![c].pc = "drain_stdout"]
  /\ UNCHANGED <<plan, pipe, ring, disk, next_call_id, answer>>

\* A reader that has not finished in five seconds is aborted and its capture lost.
Drain(c, s, to) ==
  /\ call[c].pc = (IF s = "stdout" THEN "drain_stdout" ELSE "drain_stderr")
  /\ \/ /\ AtEof(c, s)
        /\ call' = [call EXCEPT ![c].pc = to, ![c].caps = (s :> pipe[c][s].cap) @@ @]
     \/ /\ ~AtEof(c, s) /\ Held(c)
        /\ call' = [call EXCEPT ![c].pc = to, ![c].caps = (s :> NoCapture) @@ @, ![c].notes = @ \union {s}]
  /\ pipe' = [pipe EXCEPT ![c][s].alive = FALSE]
  /\ UNCHANGED <<plan, proc, ring, disk, next_call_id, answer>>
drain_stdout(c) == Drain(c, "stdout", "drain_stderr")
drain_stderr(c) == Drain(c, "stderr", "finish")

\* No await from here to the return: one step.
finish(c) ==
  /\ call[c].pc = "finish"
  /\ \E bad \in {{}} \union (IF plan.faults > 0 THEN {{"stdout"}} ELSE {}) :
       LET id == next_call_id + 1
           one == Finalized([ring |-> ring, disk |-> disk, told |-> <<>>], id, "stdout", call[c].caps["stdout"], "stdout" \in bad)
           two == Finalized(one, id, "stderr", call[c].caps["stderr"], FALSE)
       IN /\ next_call_id' = id
          /\ ring' = two.ring /\ disk' = two.disk
          /\ answer' = [answer EXCEPT ![c] =
                          [kind |-> "ok", exit |-> call[c].exit, notes |-> call[c].notes, told |-> two.told]]
  /\ call' = [call EXCEPT ![c].pc = "returned", ![c].armed = FALSE]
  /\ UNCHANGED <<plan, proc, pipe>>

\* The request's future is dropped at an await: Drop for KillGroup, and kill_on_drop.
drop(c) ==
  /\ plan.drops > 0
  /\ call[c].pc \in {"select", "reap_cancelled", "killing", "reap", "drain_stdout", "drain_stderr"}
  /\ proc' = [proc EXCEPT ![c] = IF call[c].armed THEN AfterKill(c, @) ELSE @]
  /\ call' = [call EXCEPT ![c].pc = "dropped", ![c].armed = FALSE]
  /\ UNCHANGED <<plan, pipe, ring, disk, next_call_id, answer>>

Process(c) == write(c) \/ fork(c) \/ exit(c)
Server(c) ==
  \/ Refuse(c) \/ spawn(c) \/ cancelled(c) \/ reap_cancelled(c) \/ exited(c) \/ kill_graceful(c) \/ reap(c)
  \/ drain_stdout(c) \/ drain_stderr(c) \/ finish(c) \/ \E s \in Streams : read_capped(c, s)
Next == \E c \in Calls : Process(c) \/ Server(c) \/ cancel(c) \/ timed_out(c) \/ wait_failed(c) \/ drop(c)
Spec == Init /\ [][Next]_vars
-----------------------------------------------------------------------------
Over(c) == call[c].pc \in {"returned", "dropped"}

(***************************************************************************)
(* A call that is over, however it ended, has left no process of its group *)
(* running: a child left in the background does not outlive its call.      *)
(***************************************************************************)
GroupGone == \A c \in Calls : Over(c) => proc[c].leader # "running" /\ (proc[c].child = "running" => Escaped(c))

(***************************************************************************)
(* A result without a note about a stream accounts for everything its      *)
(* command wrote to it: the text is all of it or, when the result says it  *)
(* was truncated, the end of the captured prefix, cut between characters.  *)
(***************************************************************************)
OutputAccounted ==
  \A c \in Calls : answer[c].kind = "ok" => \A s \in Streams \ answer[c].notes :
    LET told == answer[c].told[s]
        all == pipe[c][s].written
        kept == SubSeq(all, 1, IF Len(all) < CaptureCap THEN Len(all) ELSE CaptureCap)
    IN /\ told.total = Len(all)
       /\ ~told.truncated => told.text = all
       /\ told.truncated => IsSuffix(told.text, kept) /\ (told.text # <<>> => told.text[1] # "c")

(***************************************************************************)
(* A result never names an artifact that is already gone when it is        *)
(* returned: of the newest call's two files neither has been rotated out,  *)
(* and only the ring's files, and those whose write failed, are on disk.   *)
(***************************************************************************)
ArtifactsThere ==
  /\ Len(ring) <= RingSize /\ Range(ring) \subseteq disk
  /\ \A f \in disk \ Range(ring) : \E c \in Calls : answer[c].kind = "ok" /\ f \in answer[c].told[f[2]].torn
  /\ \A c \in Calls : answer[c].kind = "ok" => \A s \in Streams : \A a \in answer[c].told[s].artifact :
       a[1] = next_call_id => a \in disk
=============================================================================
