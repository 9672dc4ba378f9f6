----------------------------- MODULE EventStore -----------------------------
(***************************************************************************)
(* EventStore of crates/buzz-local-relay/src/lib.rs: the append-only       *)
(* NDJSON log, the memory rebuilt from it, and the concurrent accept()     *)
(* calls that append to both under one fair mutex.                         *)
(*                                                                         *)
(* The log file is the sequence of its lines.  A line is an event, or      *)
(* Glued: a record that was cut short with the next record written behind  *)
(* it on the same line.  tail says how the file ends: "clean" after a      *)
(* newline, "rest" in a record that was cut short, "open" in a whole       *)
(* record that lacks its newline.  The first synced lines are behind a     *)
(* sync_data barrier and survive a power loss; the others only survive a   *)
(* crash of the process.                                                   *)
(***************************************************************************)
EXTENDS Ingest, Sequences

CONSTANTS Clients,      \* callers of accept(): HTTP requests, sockets, peers
          Valid,        \* the events whose ID and signature verify
          NoEvent,      \* the argument of a client that is not calling
          Glued,        \* a line that holds two records, the first cut short
          TornWrites,   \* whether a record may reach the file only in part
          PowerLosses,  \* whether unsynced lines may be lost
          MaxLog,       \* bound on the lines of the log
          MaxFaults     \* bound on crashes, losses and failed appends

ASSUME StoreAssumption ==
  /\ Valid \subseteq Events
  /\ NoEvent \notin Events
  /\ Glued \notin Events
  /\ TornWrites \in BOOLEAN
  /\ PowerLosses \in BOOLEAN
  /\ MaxLog \in Nat
  /\ MaxFaults \in Nat

VARIABLES log,      \* lines of the file
          tail,     \* how the file ends
          synced,   \* number of lines behind the durability barrier
          writer,   \* StorageMode::Durable (TRUE) or StorageMode::Ephemeral
          mode,     \* the process: "down", "opening" (replay_log), "up"
          events,   \* StoreInner.events, the effective events
          journal,  \* StoreInner.journal
          seen,     \* StoreInner.seen_ids
          queue,    \* clients at the mutex; the head holds or takes it
          pc,       \* what each client's accept() is doing
          arg,      \* the event each client submitted
          answers,  \* history: the accepted replies, <<event, message>>
          aborted,  \* history: events whose append ended in an error
          faults    \* number of faults so far

files  == <<log, tail, synced>>
memory == <<events, journal, seen>>
calls  == <<queue, pc, arg>>
vars   == <<files, writer, mode, memory, calls, answers, aborted, faults>>

Lines == Events \cup {Glued}

Messages == {"stored", "duplicate", "superseded", "ephemeral"}

TypeOK ==
  /\ log \in Seq(Lines)
  /\ tail \in {"clean", "rest", "open"}
  /\ synced \in 0 .. Len(log)
  /\ writer \in BOOLEAN
  /\ mode \in {"down", "opening", "up"}
  /\ events \subseteq Events
  /\ journal \in Seq(Events)
  /\ seen \subseteq Events
  /\ queue \in Seq(Clients)
  /\ pc \in [Clients -> {"idle", "queued", "writing", "syncing"}]
  /\ arg \in [Clients -> Events \cup {NoEvent}]
  /\ answers \subseteq Events \X Messages
  /\ aborted \subseteq Events
  /\ faults \in 0 .. MaxFaults

Init ==
  /\ log = <<>>
  /\ tail = "clean"
  /\ synced = 0
  /\ writer \in BOOLEAN
  /\ mode = "down"
  /\ events = {}
  /\ journal = <<>>
  /\ seen = {}
  /\ queue = <<>>
  /\ pc = [c \in Clients |-> "idle"]
  /\ arg = [c \in Clients |-> NoEvent]
  /\ answers = {}
  /\ aborted = {}
  /\ faults = 0
-----------------------------------------------------------------------------
(***************************************************************************)
(* open: replay_log reads the file line by line into an empty memory.  A   *)
(* line that does not parse or does not verify ends the start with an      *)
(* error.  StorageMode::Ephemeral starts empty.                            *)
(***************************************************************************)
Open ==
  /\ mode = "down"
  /\ mode' = IF writer THEN "opening" ELSE "up"
  /\ events' = {} /\ journal' = <<>> /\ seen' = {}
  /\ UNCHANGED <<files, writer, calls, answers, aborted, faults>>

NextLine == log[Len(journal) + 1]

\* Mutant: a line that does not parse keeps a place in the journal.
ReplayLine_Placeholder ==
  /\ mode = "opening"
  /\ Len(journal) < Len(log)
  /\ seen' = seen \cup {NextLine}
  /\ journal' = Append(journal, NextLine)
  /\ events' = IF NextLine = Glued THEN events
               ELSE apply_effective_event(events, NextLine)
  /\ UNCHANGED <<files, writer, mode, calls, answers, aborted, faults>>

\* Mutant: a repeated line ends the start with an error.
ReplayLine_NoRepeats ==
  /\ mode = "opening"
  /\ Len(journal) < Len(log)
  /\ NextLine \in Valid
  /\ mode' = IF NextLine \in seen THEN "down" ELSE mode
  /\ seen' = seen \cup {NextLine}
  /\ journal' = Append(journal, NextLine)
  /\ events' = apply_effective_event(events, NextLine)
  /\ UNCHANGED <<files, writer, calls, answers, aborted, faults>>

ReplayLine ==
  /\ mode = "opening"
  /\ Len(journal) < Len(log)
  /\ NextLine \in Valid
  /\ seen' = seen \cup {NextLine}
  /\ journal' = Append(journal, NextLine)
  /\ events' = apply_effective_event(events, NextLine)
  /\ UNCHANGED <<files, writer, mode, calls, answers, aborted, faults>>

OpenDone ==
  /\ mode = "opening"
  /\ Len(journal) = Len(log)
  /\ tail # "rest"
  /\ mode' = "up"
  /\ UNCHANGED <<files, writer, memory, calls, answers, aborted, faults>>

OpenRefused ==
  /\ mode = "opening"
  /\ IF Len(journal) = Len(log) THEN tail = "rest" ELSE NextLine \notin Valid
  /\ mode' = "down"
  /\ UNCHANGED <<files, writer, memory, calls, answers, aborted, faults>>
-----------------------------------------------------------------------------
(***************************************************************************)
(* accept: verify outside the lock, queue for the mutex, decide, and for a *)
(* stored event write, sync and apply while the mutex is held.  An event   *)
(* that does not verify is answered "invalid" and changes nothing.         *)
(***************************************************************************)
Submit(c, e) ==
  /\ mode = "up"
  /\ pc[c] = "idle"
  /\ e \in Valid
  /\ Len(log) + Len(queue) < MaxLog
  /\ pc' = [pc EXCEPT ![c] = "queued"]
  /\ arg' = [arg EXCEPT ![c] = e]
  /\ queue' = Append(queue, c)
  /\ UNCHANGED <<files, writer, mode, memory, answers, aborted, faults>>

\* The call of c returns: it leaves the mutex to the next client.
Return(c) ==
  /\ pc' = [pc EXCEPT ![c] = "idle"]
  /\ arg' = [arg EXCEPT ![c] = NoEvent]
  /\ queue' = Tail(queue)

Answer(c, message) ==
  /\ Return(c)
  /\ answers' = answers \cup {<<arg[c], message>>}

\* Mutant: the decision is taken before the mutex.
Holds_Unlocked(c) == pc[c] # "idle"

Holds(c) == queue # <<>> /\ c = Head(queue)

Decision(c) == decide_event(events, arg[c] \in seen, arg[c])

\* Mutant: the early return keeps the mutex.
DecideDuplicate_KeepsLock(c) ==
  /\ Holds(c) /\ pc[c] = "queued"
  /\ Decision(c) = "Duplicate"
  /\ answers' = answers \cup {<<arg[c], "duplicate">>}
  /\ UNCHANGED <<files, writer, mode, memory, calls, aborted, faults>>

DecideDuplicate(c) ==
  /\ Holds(c) /\ pc[c] = "queued"
  /\ Decision(c) = "Duplicate"
  /\ Answer(c, "duplicate")
  /\ UNCHANGED <<files, writer, mode, memory, aborted, faults>>

DecideEphemeral(c) ==
  /\ Holds(c) /\ pc[c] = "queued"
  /\ Decision(c) = "Ephemeral"
  /\ seen' = seen \cup {arg[c]}
  /\ Answer(c, "ephemeral")
  /\ UNCHANGED <<files, writer, mode, events, journal, aborted, faults>>

\* Mutant: a losing candidate becomes effective.
DecideSuperseded_Applies(c) ==
  /\ Holds(c) /\ pc[c] = "queued"
  /\ Decision(c) = "Superseded"
  /\ seen' = seen \cup {arg[c]}
  /\ events' = (events \ Holders(events, arg[c])) \cup {arg[c]}
  /\ Answer(c, "superseded")
  /\ UNCHANGED <<files, writer, mode, journal, aborted, faults>>

DecideSuperseded(c) ==
  /\ Holds(c) /\ pc[c] = "queued"
  /\ Decision(c) = "Superseded"
  /\ seen' = seen \cup {arg[c]}
  /\ Answer(c, "superseded")
  /\ UNCHANGED <<files, writer, mode, events, journal, aborted, faults>>

\* The tail of accept(), after the durability barrier.
ApplyStored(c) ==
  /\ events' = apply_effective_event(events, arg[c])
  /\ journal' = Append(journal, arg[c])
  /\ seen' = seen \cup {arg[c]}
  /\ Answer(c, "stored")

\* Mutant: the id is marked seen before the durability barrier.
DecideStored_SeenEarly(c) ==
  /\ Holds(c) /\ pc[c] = "queued"
  /\ Decision(c) = "Stored"
  /\ \/ /\ writer
        /\ pc' = [pc EXCEPT ![c] = "writing"]
        /\ seen' = seen \cup {arg[c]}
        /\ UNCHANGED <<events, journal, queue, arg, answers>>
     \/ /\ ~writer
        /\ ApplyStored(c)
  /\ UNCHANGED <<files, writer, mode, aborted, faults>>

DecideStored(c) ==
  /\ Holds(c) /\ pc[c] = "queued"
  /\ Decision(c) = "Stored"
  /\ \/ /\ writer
        /\ pc' = [pc EXCEPT ![c] = "writing"]
        /\ UNCHANGED <<memory, queue, arg, answers>>
     \/ /\ ~writer
        /\ ApplyStored(c)
  /\ UNCHANGED <<files, writer, mode, aborted, faults>>

Front(s) == SubSeq(s, 1, Len(s) - 1)

\* write_all and flush: the whole record reaches the file.
Write(c) ==
  /\ pc[c] = "writing"
  /\ log' = CASE tail = "clean" -> Append(log, arg[c])
              [] tail = "rest"  -> Append(log, Glued)
              [] tail = "open"  -> Append(Front(log), Glued)
  /\ tail' = "clean"
  /\ pc' = [pc EXCEPT ![c] = "syncing"]
  /\ UNCHANGED <<synced, writer, mode, memory, queue, arg, answers, aborted, faults>>

\* Mutant: the record is flushed but not synced.
Sync_NoBarrier(c) ==
  /\ pc[c] = "syncing"
  /\ ApplyStored(c)
  /\ UNCHANGED <<files, writer, mode, aborted, faults>>

Sync(c) ==
  /\ pc[c] = "syncing"
  /\ synced' = Len(log)
  /\ ApplyStored(c)
  /\ UNCHANGED <<log, tail, writer, mode, aborted, faults>>
-----------------------------------------------------------------------------
(***************************************************************************)
(* Faults.  Every `?` of the append returns an error with the memory       *)
(* untouched, and so does a request whose future is dropped when its       *)
(* caller disconnects; what reached the file stays there.                  *)
(***************************************************************************)
Fault == faults < MaxFaults /\ faults' = faults + 1

(***************************************************************************)
(* The append of a record stops after some of its bytes: none, all but the *)
(* newline, or fewer.  Bytes behind a cut record do not mend it.           *)
(***************************************************************************)
PartialWrite(c) ==
  \/ UNCHANGED <<log, tail>>
  \/ /\ TornWrites /\ tail = "clean"
     /\ \/ log' = log /\ tail' = "rest"
        \/ log' = Append(log, arg[c]) /\ tail' = "open"
  \/ TornWrites /\ tail = "open" /\ log' = Front(log) /\ tail' = "rest"

WriteFails(c) ==
  /\ Fault
  /\ pc[c] = "writing"
  /\ PartialWrite(c)
  /\ Return(c)
  /\ aborted' = aborted \cup {arg[c]}
  /\ UNCHANGED <<synced, writer, mode, memory, answers>>

SyncFails(c) ==
  /\ Fault
  /\ pc[c] = "syncing"
  /\ Return(c)
  /\ aborted' = aborted \cup {arg[c]}
  /\ UNCHANGED <<files, writer, mode, memory, answers>>

Stop ==
  /\ mode' = "down"
  /\ events' = {} /\ journal' = <<>> /\ seen' = {}
  /\ queue' = <<>>
  /\ pc' = [c \in Clients |-> "idle"]
  /\ arg' = [c \in Clients |-> NoEvent]

\* The operator stops an idle relay.
Shutdown ==
  /\ mode = "up" /\ queue = <<>>
  /\ Stop
  /\ UNCHANGED <<files, writer, answers, aborted, faults>>

Crash ==
  /\ Fault
  /\ mode # "down"
  /\ \/ UNCHANGED <<log, tail>>
     \/ \E c \in Clients : pc[c] = "writing" /\ PartialWrite(c)
  /\ Stop
  /\ UNCHANGED <<synced, writer, answers, aborted>>

PowerLoss ==
  /\ PowerLosses
  /\ Fault
  /\ Stop
  /\ \E n \in synced .. Len(log) :
       /\ log' = SubSeq(log, 1, n)
       /\ \/ tail' = "clean" /\ (n = Len(log) => tail # "open")
          \/ TornWrites /\ tail' = "rest" /\ (n = Len(log) => tail = "rest")
          \/ TornWrites /\ tail' = "open" /\ n > synced
  /\ UNCHANGED <<synced, writer, answers, aborted>>
-----------------------------------------------------------------------------
Accept(c) ==
  \/ DecideDuplicate(c) \/ DecideEphemeral(c) \/ DecideSuperseded(c)
  \/ DecideStored(c) \/ Write(c) \/ Sync(c)

Next ==
  \/ Open \/ ReplayLine \/ OpenDone \/ OpenRefused
  \/ \E c \in Clients :
       \/ \E e \in Events : Submit(c, e)
       \/ Accept(c) \/ WriteFails(c) \/ SyncFails(c)
  \/ Shutdown \/ Crash \/ PowerLoss

Spec == Init /\ [][Next]_vars

(***************************************************************************)
(* The process is supervised and every await of accept() completes; the    *)
(* tokio mutex serves its waiters in order.                                *)
(***************************************************************************)
Fairness ==
  /\ WF_vars(Open) /\ WF_vars(ReplayLine) /\ WF_vars(OpenDone)
  /\ \A c \in Clients : WF_vars(Accept(c))

FairSpec == Spec /\ Fairness
-----------------------------------------------------------------------------
EventsOf(s) == {s[i] : i \in DOMAIN s}

Acknowledged == {e \in Events : <<e, "stored">> \in answers}

(***************************************************************************)
(* The memory shows what NIP-01 says its journal should show: every        *)
(* regular event, and per replacement key exactly the winner, whatever     *)
(* order accept() and replay_log applied the events in and however often   *)
(* an event repeats in the log.                                            *)
(***************************************************************************)
EffectiveIsWinners == events = Winners(EventsOf(journal))

(***************************************************************************)
(* An event that was answered "stored" is served whenever the relay is up, *)
(* as itself or through a newer event of its replacement key, through      *)
(* crashes, power losses and failed appends of other events: accept()      *)
(* answers only behind sync_data.                                          *)
(***************************************************************************)
StoredSurvives ==
  mode = "up" /\ writer => \A e \in Acknowledged : Covered(e, events)

(***************************************************************************)
(* Every accepted durable event, those answered "duplicate" or             *)
(* "superseded" included, is covered by the log, and only a power loss can *)
(* take that away.  This is what a replication peer relies on when it      *)
(* advances its cursor past such an event.                                 *)
(***************************************************************************)
Accepted ==
  {e \in Events : ~is_ephemeral_kind(e.kind) /\
     \E m \in {"stored", "duplicate", "superseded"} : <<e, m>> \in answers}
AcceptedSurvives ==
  [][writer /\ ~PowerLoss => \A e \in Accepted' :
       (e \in Accepted => Covered(e, EventsOf(log))) => Covered(e, EventsOf(log'))]_vars

(***************************************************************************)
(* An event is twice in the log only when an append of it ended in an      *)
(* error: seen_ids and the mutex keep concurrent and repeated submissions  *)
(* of one event to one line.                                               *)
(***************************************************************************)
LogOnce ==
  \A i, j \in DOMAIN log :
    i # j /\ log[i] = log[j] /\ log[i] # Glued => log[i] \in aborted

(***************************************************************************)
(* While the relay is up a replacement key never goes back to a losing     *)
(* event, and no regular event disappears.                                 *)
(***************************************************************************)
HeadsNeverRegress ==
  [][mode = "up" /\ mode' = "up" => \A e \in events : Covered(e, events')]_vars

\* While the relay is up no replacement key goes back to a losing event
\* (HeadsNeverRegress), and no accepted event that the log covered is lost by a
\* stop or a restart (AcceptedSurvives): EventStore::accept, open and apply_event.
HeadsKept == HeadsNeverRegress /\ AcceptedSurvives

(***************************************************************************)
(* Every call of accept() ends: no path of it keeps the mutex.             *)
(***************************************************************************)
CallsReturn == \A c \in Clients : pc[c] = "queued" ~> pc[c] = "idle"

(***************************************************************************)
(* A relay that was stopped or crashed comes up again from its log.        *)
(***************************************************************************)
Recovers == mode = "down" ~> mode = "up"

(***************************************************************************)
(* What specs/TELOS.md says of restarts: "Acknowledged durable events      *)
(* survive restart."  A stopped relay that acknowledged something can be   *)
(* opened again.                                                           *)
(***************************************************************************)
AcknowledgedRecoverable ==
  mode = "down" /\ writer /\ Acknowledged # {} =>
    tail # "rest" /\ \A i \in DOMAIN log : log[i] \in Valid

(***************************************************************************)
(* The store implements a durable history: what is behind the barrier only *)
(* grows, and nothing is acknowledged that is not behind it.               *)
(***************************************************************************)
History == INSTANCE DurableHistory
             WITH stable <- {log[i] : i \in 1 .. synced} \ {Glued},
                  acknowledged <- IF writer THEN Acknowledged ELSE {}

ImplementsHistory == History!Spec
=============================================================================
