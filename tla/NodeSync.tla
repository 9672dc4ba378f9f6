------------------------------ MODULE NodeSync ------------------------------
(***************************************************************************)
(* How a laptop node follows a rendezvous: buzz-pulse-watch wakes on a     *)
(* signed pulse and runs a drain; the drain runs buzz-relay-pull, which    *)
(* reads pages of an exported stream, has the local relay ingest them and  *)
(* then writes its cursor file; buzz-artifact-sync fetches the blobs that  *)
(* the ingested events reference.                                          *)
(*                                                                         *)
(* The cursor file is a sequence of characters: Prefix, then the digits of *)
(* a position in the rendezvous journal.                                   *)
(***************************************************************************)
EXTENDS Integers, Sequences, SequencesExt, FiniteSets

CONSTANTS Journal,    \* the rendezvous journal to be: records [exported, blob]
          Batch,      \* records per page
          Radix,      \* of the cursor's digits: 10 in the code
          Pulls,      \* pull processes
          NoBlob,
          Scenes      \* records [records, pulls, faults]: how many there are at most

VARIABLES scene,
          remote,     \* how many records the rendezvous has
          offered,    \* blobs the rendezvous serves
          local,      \* positions whose record the local relay holds
          blobs,      \* blobs the local relay holds
          file,       \* the cursor file
          mixed,      \* the file has held the characters of two writers
          pulls,      \* the pull processes
          watch,      \* the watcher
          walk,       \* the blob walker
          faults

vars == <<scene, remote, offered, local, blobs, file, mixed, pulls, watch, walk, faults>>

Prefix == -1
NoPull == [pc |-> "none", cursor |-> 0, next |-> 0, recs |-> {}, full |-> FALSE]
Idle == [pc |-> "none", todo |-> {}]

Init ==
  /\ scene \in Scenes
  /\ remote = 0 /\ offered = {} /\ local = {} /\ blobs = {} /\ file = <<>> /\ mixed = FALSE
  /\ pulls = [p \in Pulls |-> NoPull]
  /\ watch = [pc |-> "down", inbox |-> <<>>, live |-> FALSE, pulse |-> 0, last |-> -1, told |-> -1,
              drain |-> CHOOSE p \in Pulls : TRUE]
  /\ walk = Idle /\ faults = 0

Fault == faults < scene.faults /\ faults' = faults + 1
-----------------------------------------------------------------------------
\* The rendezvous stores a record and publishes a pulse behind it.
RemoteStores ==
  /\ remote < scene.records
  /\ remote' = remote + 1
  /\ watch' = [watch EXCEPT !.inbox = IF watch.live THEN Append(@, remote + 1) ELSE @]
  /\ UNCHANGED <<scene, offered, local, blobs, file, mixed, pulls, walk, faults>>

RemoteOffers(i) ==
  /\ i <= scene.records /\ Journal[i].blob \notin offered \cup {NoBlob} /\ offered' = offered \cup {Journal[i].blob}
  /\ UNCHANGED <<scene, remote, local, blobs, file, mixed, pulls, watch, walk, faults>>

\* readReplication scans a page behind the cursor and returns what the stream
\* exports of it; the next cursor is the last position scanned.
Smaller(a, b) == IF a < b THEN a ELSE b
readReplication(after) ==
  LET last == IF after >= remote THEN after ELSE Smaller(after + Batch, remote)
  IN  [next |-> last, recs |-> {i \in (after + 1) .. last : Journal[i].exported},
       caught_up |-> last - after < Batch]
-----------------------------------------------------------------------------
(***************************************************************************)
(* The cursor as text.                                                     *)
(***************************************************************************)
Digits(n) ==
  LET width == CHOOSE k \in 1 .. n + 1 : Radix ^ k > n /\ (k = 1 \/ Radix ^ (k - 1) <= n)
  IN  [i \in 1 .. width |-> (n \div Radix ^ (width - i)) % Radix]
Text(n) == <<Prefix>> \o Digits(n)

\* An empty file is no cursor; the rendezvous refuses a cursor without digits.
NoCursor == 0
Refused == file # <<>> /\ ~(Len(file) >= 2 /\ file[1] = Prefix)
Position ==
  IF Len(file) < 2 THEN NoCursor
  ELSE FoldLeft(LAMBDA n, d : n * Radix + d, 0, Tail(file))

\* A write goes to the start of the file and leaves what another process has
\* written behind it.
Overwrite(text) ==
  /\ file' = text \o SubSeq(file, Len(text) + 1, Len(file))
  /\ mixed' = (mixed \/ (text # <<>> /\ Len(file) > Len(text)))
-----------------------------------------------------------------------------
(***************************************************************************)
(* buzz-relay-pull.                                                        *)
(***************************************************************************)
Pull(p, state) == pulls' = [pulls EXCEPT ![p] = state]
Ends(p, how) == Pull(p, [NoPull EXCEPT !.pc = how])

pull_start(p) ==
  /\ pulls[p].pc = "start"
  /\ IF Refused THEN Ends(p, "failed")
                ELSE Pull(p, [NoPull EXCEPT !.pc = "read", !.cursor = Position])
  /\ UNCHANGED <<scene, remote, offered, local, blobs, file, mixed, watch, walk, faults>>

\* Mutant: the cursor is written while the page is being ingested.
AfterRead_Persists(recs) == "truncate"
AfterRead(recs) == IF recs = {} THEN "truncate" ELSE "ingest"

pull_read(p) ==
  /\ pulls[p].pc = "read"
  /\ LET page == readReplication(pulls[p].cursor)
     IN  Pull(p, [pulls[p] EXCEPT !.pc = AfterRead(page.recs), !.next = page.next,
                                  !.recs = page.recs, !.full = ~page.caught_up])
  /\ UNCHANGED <<scene, remote, offered, local, blobs, file, mixed, watch, walk, faults>>

pull_ingest(p) ==
  /\ pulls[p].pc = "ingest"
  /\ local' = local \cup pulls[p].recs
  /\ Pull(p, [pulls[p] EXCEPT !.pc = "truncate"])
  /\ UNCHANGED <<scene, remote, offered, blobs, file, mixed, watch, walk, faults>>

\* persist_cursor creates the file anew, writes it and syncs it.
persist_cursor_create(p) ==
  /\ pulls[p].pc = "truncate"
  /\ file' = <<>>
  /\ Pull(p, [pulls[p] EXCEPT !.pc = "write"])
  /\ UNCHANGED <<scene, remote, offered, local, blobs, mixed, watch, walk, faults>>
persist_cursor_write(p) ==
  /\ pulls[p].pc = "write"
  /\ Overwrite(Text(pulls[p].next))
  /\ IF pulls[p].full THEN Pull(p, [pulls[p] EXCEPT !.pc = "read", !.cursor = pulls[p].next])
                      ELSE Ends(p, "ok")
  /\ UNCHANGED <<scene, remote, offered, local, blobs, watch, walk, faults>>

\* A request fails or is answered with an error, or the process dies: a part of
\* the page may have been ingested, a part of the cursor may have been written.
pull_fails(p) ==
  /\ pulls[p].pc \in {"read", "ingest", "write"} /\ Fault
  /\ local' \in IF pulls[p].pc = "ingest"
                THEN {local \cup {i \in pulls[p].recs : i <= n} : n \in 0 .. pulls[p].next}
                ELSE {local}
  /\ IF pulls[p].pc = "write"
     THEN \E n \in 0 .. Len(Text(pulls[p].next)) - 1 : Overwrite(SubSeq(Text(pulls[p].next), 1, n))
     ELSE UNCHANGED <<file, mixed>>
  /\ Ends(p, "failed")
  /\ UNCHANGED <<scene, remote, offered, blobs, watch, walk>>
-----------------------------------------------------------------------------
(***************************************************************************)
(* buzz-pulse-watch.                                                       *)
(***************************************************************************)
\* watch_session connects and subscribes: the rendezvous answers with a fresh
\* pulse, and goes on with one per transition.
watch_connects ==
  /\ watch.pc = "down"
  /\ watch' = [watch EXCEPT !.pc = "reading", !.live = TRUE, !.inbox = <<remote>>]
  /\ UNCHANGED <<scene, remote, offered, local, blobs, file, mixed, pulls, walk, faults>>

Free == {p \in Pulls : pulls[p].pc = "none" /\ Cardinality({q \in Pulls : pulls[q].pc # "none"}) < scene.pulls}

\* A pulse that differs from the last one drained starts a drain.
watch_pulse ==
  /\ watch.pc = "reading" /\ watch.inbox # <<>>
  /\ LET pulse == Head(watch.inbox)
     IN  IF watch.last # pulse
         THEN LET p == CHOOSE q \in Free : TRUE
              IN  /\ Free # {}
                  /\ Pull(p, [NoPull EXCEPT !.pc = "start"])
                  /\ watch' = [watch EXCEPT !.pc = "draining", !.inbox = Tail(@), !.pulse = pulse,
                                            !.drain = p]
         ELSE /\ watch' = [watch EXCEPT !.pc = "respond", !.inbox = Tail(@), !.pulse = pulse]
              /\ UNCHANGED pulls
  /\ UNCHANGED <<scene, remote, offered, local, blobs, file, mixed, walk, faults>>

\* run_drain: only a drain that succeeded is remembered.
\* Mutant: it is remembered as soon as it has ended.
Remembered_Always(how) == watch.pulse
Remembered(how) == IF how = "ok" THEN watch.pulse ELSE watch.last

watch_drained ==
  /\ watch.pc = "draining" /\ pulls[watch.drain].pc \in {"ok", "failed"}
  /\ LET how == pulls[watch.drain].pc
     IN  watch' = [watch EXCEPT !.last = Remembered(how),
                                !.pc = IF how = "ok" THEN "respond" ELSE "down",
                                !.inbox = IF how = "ok" THEN @ ELSE <<>>,
                                !.live = @ /\ how = "ok"]
  /\ Ends(watch.drain, "none")
  /\ UNCHANGED <<scene, remote, offered, local, blobs, file, mixed, walk, faults>>

\* The drain takes longer than its timeout: its shell is killed, and the pull the
\* shell waits for goes on, unless the shell was between two of its commands.
Killed == pulls' \in {pulls, [pulls EXCEPT ![watch.drain] = NoPull]}
watch_times_out ==
  /\ watch.pc = "draining" /\ pulls[watch.drain].pc \notin {"ok", "failed"} /\ Fault
  /\ watch' = [watch EXCEPT !.pc = "down", !.inbox = <<>>, !.live = FALSE]
  /\ Killed
  /\ UNCHANGED <<scene, remote, offered, local, blobs, file, mixed, walk>>

orphan_exits(p) ==
  /\ pulls[p].pc \in {"ok", "failed"} /\ ~(watch.pc = "draining" /\ watch.drain = p)
  /\ Ends(p, "none")
  /\ UNCHANGED <<scene, remote, offered, local, blobs, file, mixed, watch, walk, faults>>

\* One response per pulse; one that fails is not sent again until the pulse is
\* seen again.
watch_responds ==
  /\ watch.pc = "respond"
  /\ \E sent \in BOOLEAN :
       watch' = [watch EXCEPT !.pc = "reading",
                              !.told = IF sent \/ watch.pulse = 0 THEN watch.pulse ELSE @]
  /\ UNCHANGED <<scene, remote, offered, local, blobs, file, mixed, pulls, walk, faults>>

\* The connection breaks, seen at once or not at all: then the idle timer ends
\* the session.
connection_breaks ==
  /\ watch.live /\ Fault
  /\ watch' = [watch EXCEPT !.live = FALSE, !.inbox = <<>>]
  /\ UNCHANGED <<scene, remote, offered, local, blobs, file, mixed, pulls, walk>>
watch_idle ==
  /\ watch.pc = "reading" /\ watch.inbox = <<>>
  /\ watch' = [watch EXCEPT !.pc = "down", !.live = FALSE]
  /\ UNCHANGED <<scene, remote, offered, local, blobs, file, mixed, pulls, walk, faults>>

\* The watcher dies and is started again.
watch_restarts ==
  /\ Fault
  /\ watch' = [watch EXCEPT !.pc = "down", !.inbox = <<>>, !.live = FALSE, !.last = -1, !.told = -1]
  /\ IF watch.pc = "draining" THEN Killed ELSE UNCHANGED pulls
  /\ UNCHANGED <<scene, remote, offered, local, blobs, file, mixed, walk>>
-----------------------------------------------------------------------------
(***************************************************************************)
(* buzz-artifact-sync: a run takes the references of the local journal,    *)
(* and fetches those that are missing and that the peer serves.            *)
(***************************************************************************)
referenced_hashes == {Journal[i].blob : i \in local} \ {NoBlob}

walk_starts ==
  /\ walk.pc = "none" /\ referenced_hashes # {}
  /\ walk' = [pc |-> "walking", todo |-> referenced_hashes]
  /\ UNCHANGED <<scene, remote, offered, local, blobs, file, mixed, pulls, watch, faults>>
walk_fetches(b) ==
  /\ b \in walk.todo
  /\ blobs' = IF b \notin blobs /\ b \in offered THEN blobs \cup {b} ELSE blobs
  /\ walk' = IF walk.todo = {b} THEN Idle ELSE [walk EXCEPT !.todo = @ \ {b}]
  /\ UNCHANGED <<scene, remote, offered, local, file, mixed, pulls, watch, faults>>
walk_fails ==
  /\ walk.pc = "walking" /\ Fault
  /\ walk' = Idle
  /\ UNCHANGED <<scene, remote, offered, local, blobs, file, mixed, pulls, watch>>
-----------------------------------------------------------------------------
PullStep(p) ==
  pull_start(p) \/ pull_read(p) \/ pull_ingest(p) \/ persist_cursor_create(p)
  \/ persist_cursor_write(p) \/ orphan_exits(p)
WatchStep == watch_connects \/ watch_pulse \/ watch_drained \/ watch_responds \/ watch_idle
WalkStep == walk_starts \/ \E b \in walk.todo : walk_fetches(b)

Next ==
  \/ RemoteStores \/ \E i \in DOMAIN Journal : RemoteOffers(i)
  \/ \E p \in Pulls : PullStep(p) \/ pull_fails(p)
  \/ WatchStep \/ watch_times_out \/ connection_breaks \/ watch_restarts
  \/ WalkStep \/ walk_fails

(***************************************************************************)
(* The watcher and the pulls run until they end; the walker is scheduled   *)
(* again and again.                                                        *)
(***************************************************************************)
Fairness ==
  /\ \A p \in Pulls : WF_vars(PullStep(p))
  /\ WF_vars(WatchStep) /\ WF_vars(WalkStep)
-----------------------------------------------------------------------------
\* buzz-relay-pull's header: "The remote's cursor is persisted only after the
\* local relay returns checkpoint-safe receipts, so interrupted pulls resume
\* without loss": the file names no position behind which the local relay lacks
\* a record of the stream, through pulls that fail in the middle of a write and
\* pulls that outlive their drain and write an older cursor over a newer one; but
\* not once two of them have written the file at the same time (persist_cursor
\* truncates and writes, and takes no lock).
PulledBehindCursor ==
  ~Refused /\ ~mixed => \A i \in DOMAIN Journal : i <= Position /\ Journal[i].exported => i \in local

\* Every exported record arrives, and then its blob when the rendezvous serves
\* it, through failed and timed out drains, broken and silent connections and
\* restarts, unless the cursor file was cut short inside its prefix or written by
\* two pulls at the same time.
Follows ==
  \A i \in DOMAIN Journal :
    Journal[i].exported =>
      /\ (i <= remote) ~> (i \in local \/ Refused \/ mixed)
      /\ (i \in local /\ Journal[i].blob \in offered) ~> Journal[i].blob \in blobs
=============================================================================
