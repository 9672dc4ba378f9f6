-------------------------------- MODULE Push --------------------------------
(***************************************************************************)
(* buzz-relay-push: the process that reads the local log page by page      *)
(* (LocalReplicationSource::read_batch), posts the records of its stream   *)
(* to a destination relay (replication_ingest, ingest_replication), and    *)
(* keeps in a cursor file the position up to which the destination has     *)
(* everything.                                                             *)
(*                                                                         *)
(* A cursor "local-ndjson-v1:<n>" is the number n of log lines it has      *)
(* passed.  An absent or blank cursor file is Missing, one whose text does *)
(* not parse is Garbled.                                                   *)
(***************************************************************************)
EXTENDS Ingest, Sequences, FiniteSetsExt

CONSTANTS Exported,     \* the events that match the stream's filter
          Size,         \* length of each event as a serialized record
          Others,       \* events that reach the destination by other ways
          Policies,     \* sets of events that a destination's policy refuses
          BatchSize,    \* --batch: lines per page and records per request
          BatchBytes,   \* --batch-bytes: length of a request body
          Base,         \* the numeral base of a cursor's text
          TornCursor,   \* whether a crash may leave part of a cursor's text
          PowerLosses,  \* whether the source may lose lines it has exported
          MaxJournal,   \* bound on the source log
          MaxFaults     \* bound on crashes, failed requests, policy changes

ASSUME PushAssumption ==
  /\ Exported \subseteq Events
  /\ Size \in [Events -> Nat]
  /\ Others \subseteq Events
  /\ Policies \subseteq SUBSET Events /\ {} \in Policies
  /\ BatchSize \in Nat \ {0}
  /\ BatchBytes \in Nat
  /\ Base \in Nat \ {0, 1}
  /\ TornCursor \in BOOLEAN
  /\ PowerLosses \in BOOLEAN
  /\ MaxJournal \in Nat
  /\ MaxFaults \in Nat

VARIABLES journal,    \* lines of the source log
          barrier,    \* how many of them are synced
          file,       \* the cursor file
          pc,         \* what the push process is doing
          view,       \* the log as the process read it at its start
          cursor,     \* its cursor in memory
          end,        \* the end of its page, batch.next_cursor
          todo,       \* positions of the page that are not posted yet
          request,    \* posted positions that the destination has not handled
          safe,       \* positions with a checkpoint-safe receipt
          rejected,   \* whether the last receipt is a rejection
          target,     \* the cursor that is being persisted
          after,      \* what the process does when it is
          effective,  \* effective events of the destination
          seen,       \* ids the destination has accepted
          refused,    \* events its policy refuses at the moment
          faults      \* number of faults so far

source      == <<journal, barrier>>
page        == <<end, todo, request, safe, rejected>>
save        == <<target, after>>
pusher      == <<pc, view, cursor, page, save>>
destination == <<effective, seen, refused>>
vars        == <<source, file, pusher, destination, faults>>

Missing == -1
Garbled == -2

Durable == {e \in Events : ~is_ephemeral_kind(e.kind)}

Steps == {"stopped", "reading", "sending", "waiting", "persisting"}

TypeOK ==
  /\ journal \in Seq(Durable)
  /\ barrier \in 0 .. Len(journal)
  /\ file \in Nat \cup {Missing, Garbled}
  /\ pc \in Steps
  /\ view \in Seq(Durable)
  /\ cursor \in Nat \cup {Missing, Garbled}
  /\ end \in Nat
  /\ todo \subseteq 1 .. Len(view)
  /\ request \subseteq 1 .. Len(view)
  /\ safe \subseteq 1 .. Len(view)
  /\ rejected \in BOOLEAN
  /\ target \in Nat
  /\ after \in {"stopped", "reading", "sending"}
  /\ effective \subseteq Events
  /\ seen \subseteq Events
  /\ refused \subseteq Events
  /\ faults \in 0 .. MaxFaults

Init ==
  /\ journal = <<>> /\ barrier = 0
  /\ file = Missing
  /\ pc = "stopped" /\ view = <<>> /\ cursor = Missing
  /\ end = 0 /\ todo = {} /\ request = {} /\ safe = {} /\ rejected = FALSE
  /\ target = 0 /\ after = "stopped"
  /\ effective = {} /\ seen = {} /\ refused = {}
  /\ faults = 0

Fault == faults < MaxFaults /\ faults' = faults + 1

\* The process ends, and its memory with it.
Exit ==
  /\ pc' = "stopped" /\ view' = <<>> /\ cursor' = Missing
  /\ end' = 0 /\ todo' = {} /\ request' = {} /\ safe' = {} /\ rejected' = FALSE
  /\ target' = 0 /\ after' = "stopped"
-----------------------------------------------------------------------------
(***************************************************************************)
(* The local relay appends a record, then syncs it.  The push process      *)
(* reads the file without the relay's mutex, so it may see the record      *)
(* before the barrier.                                                     *)
(***************************************************************************)
AppendEvent(e) ==
  /\ Len(journal) < MaxJournal
  /\ journal' = Append(journal, e)
  /\ UNCHANGED <<barrier, file, pusher, destination, faults>>

SyncLog ==
  /\ barrier < Len(journal)
  /\ barrier' = Len(journal)
  /\ UNCHANGED <<journal, file, pusher, destination, faults>>
-----------------------------------------------------------------------------
\* Mutant: the run ignores the cursor file.
Start_FromScratch ==
  /\ pc = "stopped"
  /\ pc' = "reading"
  /\ view' = journal
  /\ cursor' = Missing
  /\ UNCHANGED <<source, file, page, save, destination, faults>>

\* main: open the log, load the cursor file.  A start that reads a line the relay
\* is still writing ends with MalformedRecord and leaves everything as it was: it
\* is a stuttering step here.
Start ==
  /\ pc = "stopped"
  /\ pc' = "reading"
  /\ view' = journal
  /\ cursor' = file
  /\ UNCHANGED <<source, file, page, save, destination, faults>>

Position == IF cursor = Missing THEN 0 ELSE cursor

PageEnd ==
  IF Position + BatchSize < Len(view) THEN Position + BatchSize ELSE Len(view)

PageRecords == {p \in Position + 1 .. PageEnd : view[p] \in Exported}

\* Mutant: a page without records of the stream does not advance.
NextCursor_EmptyStays == IF PageRecords = {} THEN Position ELSE PageEnd

\* batch.next_cursor: the scanned position, past the last matching record.
NextCursor == PageEnd

\* InvalidCursor or CursorOutOfRange: main returns the error.
ReadRefused ==
  /\ pc = "reading"
  /\ cursor = Garbled \/ Position > Len(view)
  /\ Exit
  /\ UNCHANGED <<source, file, destination, faults>>

\* What follows a page: the next one, or the end of the run (caught_up).
AfterPage(e) == IF e = Len(view) THEN "stopped" ELSE "reading"

ReadPage ==
  /\ pc = "reading"
  /\ cursor # Garbled /\ Position <= Len(view)
  /\ end' = NextCursor
  /\ todo' = PageRecords
  /\ \/ /\ PageRecords = {}
        /\ pc' = "persisting"
        /\ target' = NextCursor
        /\ after' = AfterPage(NextCursor)
     \/ /\ PageRecords # {}
        /\ pc' = "sending"
        /\ UNCHANGED save
  /\ UNCHANGED <<source, file, view, cursor, request, safe, rejected,
                 destination, faults>>

(***************************************************************************)
(* split_serialized_batches: the longest beginning of the page that keeps  *)
(* both limits, and at least one record.  A body is the records, a comma   *)
(* between each two, and the brackets.                                     *)
(***************************************************************************)
BodySize(ps) == 1 + MapThenSumSet(LAMBDA p : Size[view[p]] + 1, ps)

UpTo(ps, m) == {p \in ps : p <= m}

IsFirst(p, ps) == p \in ps /\ \A q \in ps : p <= q

IsLast(p, ps) == p \in ps /\ \A q \in ps : q <= p

\* Mutant: a record that is too large for a request is never sent.
Fits_Strict(ps) == Cardinality(ps) <= BatchSize /\ BodySize(ps) <= BatchBytes

Fits(ps) ==
  \/ Cardinality(ps) = 1
  \/ Cardinality(ps) <= BatchSize /\ BodySize(ps) <= BatchBytes

NextRequest(ps) == {p \in ps : \A q \in UpTo(ps, p) : Fits(UpTo(ps, q))}

Send ==
  /\ pc = "sending"
  /\ request' = NextRequest(todo)
  /\ todo' = todo \ NextRequest(todo)
  /\ safe' = {} /\ rejected' = FALSE
  /\ pc' = "waiting"
  /\ UNCHANGED <<source, file, view, cursor, end, save, destination, faults>>

\* Replication errors of every kind end the run with the file as it is.
RequestFails ==
  /\ Fault
  /\ pc = "waiting"
  /\ Exit
  /\ UNCHANGED <<source, file, destination>>

PersistThen(position, step) ==
  /\ pc' = "persisting"
  /\ target' = position
  /\ after' = step
  /\ UNCHANGED <<view, cursor, page>>

\* Mutant: a rejected record is skipped.
HaltOnRejection_Skips ==
  rejected /\ PersistThen(end, AfterPage(end))

\* Mutant: a run without a cursor persists it all the same.
HaltOnRejection_NoneSaved ==
  /\ rejected
  /\ \/ \E p \in safe : IsLast(p, safe) /\ PersistThen(p, "stopped")
     \/ safe = {} /\ PersistThen(cursor, "stopped")

(***************************************************************************)
(* A rejection persists the cursor of the last safe receipt, or the one in *)
(* memory if the run began with one, and ends the run.                     *)
(***************************************************************************)
HaltOnRejection ==
  /\ rejected
  /\ \/ \E p \in safe : IsLast(p, safe) /\ PersistThen(p, "stopped")
     \/ safe = {} /\ cursor # Missing /\ PersistThen(cursor, "stopped")
     \/ safe = {} /\ cursor = Missing /\ Exit

\* The receipts arrive: between requests of a page the cursor is persisted
\* record by record, behind the last one it moves to the page's end.
Receive ==
  /\ pc = "waiting" /\ request = {}
  /\ \/ HaltOnRejection
     \/ /\ ~rejected /\ todo # {}
        /\ \E p \in safe : IsLast(p, safe) /\ PersistThen(p, "sending")
     \/ ~rejected /\ todo = {} /\ PersistThen(end, AfterPage(end))
  /\ UNCHANGED <<source, file, destination, faults>>

\* persist_cursor, completed.
Persist ==
  /\ pc = "persisting"
  /\ file' = target
  /\ \/ after = "stopped" /\ Exit
     \/ /\ after # "stopped"
        /\ pc' = after
        /\ cursor' = target
        /\ UNCHANGED <<view, page, save>>
  /\ UNCHANGED <<source, destination, faults>>

(***************************************************************************)
(* persist_cursor truncates the file, writes the text and syncs.  Stopped  *)
(* in between, or failing there, it leaves a blank file or the beginning   *)
(* of the text: of the fixed prefix, or of the numeral.                    *)
(***************************************************************************)
NumeralPrefixes(n) == {m \in 1 .. n : \E k \in 0 .. n : m = n \div (Base ^ k)}

CutShort(n) ==
  {Missing} \cup IF TornCursor THEN {Garbled} \cup NumeralPrefixes(n) ELSE {}

Halt ==
  /\ Exit
  /\ \/ file' = file
     \/ pc = "persisting" /\ file' \in CutShort(target)

Crash ==
  /\ Fault
  /\ pc # "stopped"
  /\ Halt
  /\ UNCHANGED <<source, destination>>

(***************************************************************************)
(* The source host loses the lines it did not sync, and the process with   *)
(* it.  PowerLosses says whether this may happen while the cursor file is  *)
(* past the barrier, or being moved past it.                               *)
(***************************************************************************)
PowerLoss ==
  /\ PowerLosses \/ (file <= barrier /\ target <= barrier)
  /\ Fault
  /\ Halt
  /\ \E n \in barrier .. Len(journal) : journal' = SubSeq(journal, 1, n)
  /\ UNCHANGED <<barrier, destination>>
-----------------------------------------------------------------------------
(***************************************************************************)
(* The destination.  replication_ingest handles the records of a request   *)
(* in order and stops behind the first rejection.                          *)
(***************************************************************************)
AcceptAt(e) ==
  /\ seen' = seen \cup {e}
  /\ effective' = IF e \in seen THEN effective
                  ELSE apply_effective_event(effective, e)

IngestRecord ==
  /\ pc = "waiting"
  /\ \E p \in request :
       /\ IsFirst(p, request)
       /\ \/ /\ view[p] \notin refused
             /\ AcceptAt(view[p])
             /\ safe' = safe \cup {p}
             /\ request' = request \ {p}
             /\ UNCHANGED rejected
          \/ /\ view[p] \in refused
             /\ rejected' = TRUE
             /\ request' = {}
             /\ UNCHANGED <<effective, seen, safe>>
  /\ UNCHANGED <<source, file, pc, view, cursor, end, todo, save, refused, faults>>

(***************************************************************************)
(* Everything else that reaches the destination: its own clients, other    *)
(* peers, and the rest of a request whose sender gave up on it.            *)
(***************************************************************************)
OtherSubmit(e) ==
  /\ e \notin seen
  /\ AcceptAt(e)
  /\ UNCHANGED <<source, file, pusher, refused, faults>>

PolicyChange ==
  /\ Fault
  /\ refused' \in Policies
  /\ UNCHANGED <<source, file, pusher, effective, seen>>
-----------------------------------------------------------------------------
Next ==
  \/ \E e \in Durable : AppendEvent(e)
  \/ SyncLog
  \/ Start \/ ReadRefused \/ ReadPage \/ Send \/ RequestFails \/ Receive
  \/ Persist \/ Crash \/ PowerLoss
  \/ IngestRecord \/ PolicyChange
  \/ \E e \in Others : OtherSubmit(e)

Spec == Init /\ [][Next]_vars

(***************************************************************************)
(* A scheduler runs the program again and again, and a request ends.       *)
(***************************************************************************)
Fairness ==
  /\ WF_vars(Start) /\ WF_vars(ReadPage) /\ WF_vars(Send) /\ WF_vars(Receive)
  /\ WF_vars(Persist) /\ WF_vars(IngestRecord)

FairSpec == Spec /\ Fairness
-----------------------------------------------------------------------------
(***************************************************************************)
(* The promise of checkpoint_safe: a cursor in the file passes no record   *)
(* of the stream that the destination does not have.  The records of a     *)
(* failed, rejected or interrupted request are read again.                 *)
(***************************************************************************)
NoSilentGap ==
  \A p \in DOMAIN journal :
    p <= file /\ journal[p] \in Exported => Covered(journal[p], effective)

(***************************************************************************)
(* A cursor in the file is a position of the log, so read_batch never      *)
(* answers CursorOutOfRange.                                               *)
(***************************************************************************)
CursorInRange == file <= Len(journal)

(***************************************************************************)
(* persist_cursor never moves the checkpoint back, not even on the path    *)
(* that persists the last safe receipt before a rejection.                 *)
(***************************************************************************)
CheckpointAdvances == pc = "persisting" => target >= file

(***************************************************************************)
(* Every request has a record, however large the records are, so its       *)
(* receipts advance the cursor.                                            *)
(***************************************************************************)
RequestsProgress == pc = "waiting" => request \cup safe # {} \/ rejected

(***************************************************************************)
(* Every record of the stream gets to the destination, unless the power    *)
(* loss of the source took it, the destination refuses one (the run halts  *)
(* there and tries again), or a stop inside persist_cursor left a cursor   *)
(* that read_batch refuses, which stops every later run until an operator  *)
(* removes the file.                                                       *)
(***************************************************************************)
Logged(e) == \E p \in DOMAIN journal : journal[p] = e

Blocked == \E p \in DOMAIN journal : journal[p] \in Exported \cap refused

Converges ==
  \A e \in Exported :
    Logged(e) ~> Covered(e, effective) \/ ~Logged(e) \/ Blocked \/ file = Garbled
=============================================================================
