----------------------------- MODULE CliClient -----------------------------
(***************************************************************************)
(* How the buzz command line talks to a relay                              *)
(* (crates/buzz-cli/src/client.rs, crates/buzz-ws-client): requests over   *)
(* HTTP that are retried, moderation commands that must not be, the media  *)
(* upload with its legacy endpoint, the paged query over the relay's       *)
(* (until, before_id) cursor, and the one-shot WebSocket publication of an *)
(* ephemeral event.  One user's intent is modelled: the command may be run *)
(* again, with a newly signed event, when it answered retryable.           *)
(***************************************************************************)
EXTENDS Naturals, Sequences, FiniteSets, SequencesExt

CONSTANTS Plans,          \* records [op, faults, reruns, modern, events, arrivals, limit, sends]
          MaxAttempts,    \* RETRY_MAX_ATTEMPTS
          PageSize        \* QUERY_PAGE_SIZE

VARIABLES plan,
          cmd,            \* the running command
          relay,          \* what the relay holds and did
          faults,         \* network failures left
          page,           \* query_pages: the events read, the cursor
          ws              \* the WebSocket connection

vars == <<plan, cmd, relay, faults, page, ws>>

NoCursor == [at |-> 0, id |-> 0]

\* A connection that is not open yet.
NewConnection == [pc |-> "off", wire |-> <<>>, sent |-> 0, authed |-> FALSE, has |-> FALSE]

Init ==
  /\ plan \in Plans
  /\ cmd = [pc |-> "start", run |-> 1, attempt |-> 0, url |-> "modern", result |-> "none", err |-> "none"]
  /\ relay = [stored |-> {}, execs |-> 0, late |-> {}, blobs |-> 0, events |-> plan.events,
              arrivals |-> plan.arrivals]
  /\ faults = plan.faults
  /\ page = [got |-> <<>>, cursor |-> NoCursor, first |-> {}]
  /\ ws = NewConnection

\* The event an invocation signs: a re-run signs another one.
Signed == cmd.run
Moderation == plan.op = "moderation"      \* is_moderation_kind
-----------------------------------------------------------------------------
(***************************************************************************)
(* One HTTP attempt: what the relay did with the request, and what came    *)
(* back.  A request whose answer was lost may have been executed, may      *)
(* never be, or may still be in flight when the client has given up.       *)
(***************************************************************************)
Answers == {"ok", "refused", "missing", "connect", "lost", "bodyless", "limited", "proxy429", "gateway"}
Failures == Answers \ {"ok", "refused", "missing"}
Fates(a) == CASE a \in {"ok", "bodyless"} -> {"done"}
              [] a \in {"lost", "gateway"} -> {"done", "never", "late"}
              [] OTHER -> {"never"}
Executed(r, id) ==
  CASE plan.op = "stored" -> [r EXCEPT !.stored = @ \cup {id}]
    [] plan.op = "moderation" -> [r EXCEPT !.execs = @ + 1]
    [] plan.op = "upload" -> [r EXCEPT !.blobs = 1]
    [] OTHER -> r
Served(a, fate) ==
  CASE fate = "done" -> Executed(relay, Signed)
    [] fate = "late" -> [relay EXCEPT !.late = @ \cup {<<Signed, cmd.attempt>>}]
    [] OTHER -> relay
late_arrival ==
  \E l \in relay.late :
    /\ relay' = Executed([relay EXCEPT !.late = @ \ {l}], l[1])
    /\ UNCHANGED <<plan, cmd, faults, page, ws>>
-----------------------------------------------------------------------------
(***************************************************************************)
(* The retry policies.                                                     *)
(***************************************************************************)
\* with_retry_body: any network failure, 429 and 502-504.
Transient(a) == a \in Failures
\* submit_moderation_event: only what provably never executed.
ModerationRetries_Network(a) == a \in {"connect", "limited", "lost"}
ModerationRetries(a) == a \in {"connect", "limited"}
Retries(a) == IF Moderation THEN ModerationRetries(a) ELSE Transient(a)

\* is_stored_event_exhaustion_ambiguous: judged on the last error alone.
Ambiguous(a) == a \in {"lost", "bodyless", "gateway"}
ModerationUnknown_Gateway(a) == a \in {"lost", "bodyless", "proxy429"}
ModerationUnknown(a) == a \in {"lost", "bodyless", "gateway", "proxy429"}
\* What the command answers when the attempts are over: is_retryable_error.
Verdict(a) ==
  CASE a = "ok" -> "ok"
    [] a \in {"refused", "missing"} -> "error"
    [] Moderation /\ ModerationUnknown(a) -> "unknown"
    [] plan.op = "stored" /\ Ambiguous(a) -> "unknown"
    [] OTHER -> "retryable"

\* should_retry_legacy_upload: 404 and 405 of /upload alone.
Legacy(a) == plan.op = "upload" /\ cmd.url = "modern" /\ a = "missing"

Exists(url) == plan.op # "upload" \/ (url = "modern") = plan.modern
Possible(a) ==
  /\ a \in Failures => faults > 0
  /\ a = "missing" <=> (~ Exists(cmd.url) /\ a \notin Failures)

Answered(a) ==
  IF Legacy(a) THEN [cmd EXCEPT !.url = "legacy", !.attempt = 0]
  ELSE IF Retries(a) /\ cmd.attempt + 1 < MaxAttempts THEN [cmd EXCEPT !.attempt = @ + 1]
  ELSE [cmd EXCEPT !.pc = "done", !.result = Verdict(a), !.err = a]

\* submit_event, upload_file: the attempts of one command.
attempt ==
  /\ plan.op \in {"stored", "moderation", "upload"} /\ cmd.pc = "start"
  /\ \E a \in Answers : \E fate \in Fates(a) :
       /\ Possible(a)
       /\ relay' = IF Exists(cmd.url) THEN Served(a, fate) ELSE relay
       /\ cmd' = Answered(a)
       /\ faults' = IF a \in Failures THEN faults - 1 ELSE faults
  /\ UNCHANGED <<plan, page, ws>>

\* An outer agent runs the command again when told it may (print_error's retryable).
rerun ==
  /\ plan.op \in {"stored", "moderation", "upload"}
  /\ cmd.pc = "done" /\ cmd.result = "retryable" /\ cmd.run <= plan.reruns
  /\ cmd' = [cmd EXCEPT !.pc = "start", !.run = @ + 1, !.attempt = 0, !.url = "modern",
                        !.result = "none", !.err = "none"]
  /\ UNCHANGED <<plan, relay, faults, page, ws>>
-----------------------------------------------------------------------------
(***************************************************************************)
(* query_pages against EventStore::query_with_cursors (and relay-node.ts   *)
(* #queryEvents): newest first, the smaller id first within a second.      *)
(***************************************************************************)
Precedes(e, f) == e.at > f.at \/ (e.at = f.at /\ e.id < f.id)
Ordered(S) == [i \in 1..Cardinality(S) |-> CHOOSE e \in S : Cardinality({f \in S : Precedes(f, e)}) = i - 1]
\* The cursor selects what is strictly after it in that order.
AfterCursor_Until(e, c) == c = NoCursor \/ e.at <= c.at
AfterCursor(e, c) == c = NoCursor \/ e.at < c.at \/ (e.at = c.at /\ e.id > c.id)
query_with_cursors(S, c, limit) ==
  LET all == Ordered({e \in S : AfterCursor(e, c)})
  IN SubSeq(all, 1, IF Len(all) < limit THEN Len(all) ELSE limit)

Smaller(m, n) == IF m < n THEN m ELSE n
page_limit == IF plan.limit = 0 THEN PageSize ELSE Smaller(plan.limit - Len(page.got), PageSize)
\* advance_query_cursor
advance_query_cursor_Second(p) == [at |-> Last(p).at - 1, id |-> 0]
advance_query_cursor(p) == [at |-> Last(p).at, id |-> Last(p).id]

query_page ==
  /\ plan.op = "pages" /\ cmd.pc = "start"
  /\ \/ \E a \in {"lost", "bodyless", "gateway", "limited", "connect"} :  \* query_multi retries the same filter
          /\ faults > 0 /\ faults' = faults - 1
          /\ cmd' = Answered(a)
          /\ UNCHANGED page
     \/ LET p == query_with_cursors(relay.events, page.cursor, page_limit)
            over == Len(p) < page_limit
            got == page.got \o p
        IN /\ page' = [got |-> got,
                       cursor |-> IF over THEN page.cursor ELSE advance_query_cursor(p),
                       first |-> IF page.got = <<>> /\ page.cursor = NoCursor THEN relay.events ELSE page.first]
           /\ cmd' = [cmd EXCEPT !.attempt = 0,
                        !.pc = IF over \/ (plan.limit > 0 /\ Len(got) >= plan.limit) THEN "done" ELSE @,
                        !.result = IF over \/ (plan.limit > 0 /\ Len(got) >= plan.limit) THEN "ok" ELSE @]
           /\ UNCHANGED faults
  /\ UNCHANGED <<plan, relay, ws>>

\* Another client's events arrive while the pages are read, of any age; one with
\* an address (a replaceable kind) takes the place of the older one that has it.
Displaced(e) == {f \in relay.events : f.address # 0 /\ f.address = e.address}
relay_stores ==
  \E e \in relay.arrivals :
    /\ plan.op = "pages" /\ cmd.pc = "start"
    /\ \A f \in Displaced(e) : Precedes(e, f)
    /\ relay' = [relay EXCEPT !.events = (@ \ Displaced(e)) \cup {e}, !.arrivals = @ \ {e}]
    /\ UNCHANGED <<plan, cmd, faults, page, ws>>
-----------------------------------------------------------------------------
(***************************************************************************)
(* publish_event: connect, NIP-42, EVENT, OK (crates/buzz-ws-client).      *)
(* Messages the current wait does not take are set aside.                  *)
(***************************************************************************)
AuthId == 1
EventId == 2
Say(m) == /\ ws.sent < plan.sends
          /\ ws' = [ws EXCEPT !.wire = Append(@, m), !.sent = @ + 1]
          /\ UNCHANGED <<plan, cmd, relay, faults, page>>
Open == plan.op = "ephemeral" /\ ws.pc \in {"challenge", "authok", "eventok"}
relay_challenges == Open /\ Say([kind |-> "AUTH", id |-> 0, ok |-> TRUE])
relay_chats == Open /\ \E k \in {"EVENT", "garbage"} : Say([kind |-> k, id |-> 0, ok |-> TRUE])
relay_acks ==
  /\ Open
  /\ \/ ws.authed /\ \E ok \in BOOLEAN : Say([kind |-> "OK", id |-> AuthId, ok |-> ok])
     \/ /\ ws.has /\ ws.sent < plan.sends
        /\ \E ok \in BOOLEAN :     \* the relay judges the event it was sent
             /\ ws' = [ws EXCEPT !.wire = Append(@, [kind |-> "OK", id |-> EventId, ok |-> ok]), !.sent = @ + 1]
             /\ relay' = IF ok THEN [relay EXCEPT !.stored = @ \cup {EventId}] ELSE relay
             /\ UNCHANGED <<plan, cmd, faults, page>>

ws_connect ==
  /\ plan.op = "ephemeral" /\ ws.pc = "off" /\ cmd.pc = "start"
  /\ ws' = [ws EXCEPT !.pc = "challenge"]
  /\ UNCHANGED <<plan, cmd, relay, faults, page>>

Finish(result) ==
  /\ cmd' = [cmd EXCEPT !.pc = "done", !.result = result]
  /\ ws' = [ws EXCEPT !.pc = "closed"]
  /\ UNCHANGED <<plan, relay, faults, page>>
\* The message the current wait takes.
Wanted_AnyOk(m) ==
  CASE ws.pc = "challenge" -> m.kind = "AUTH"
    [] OTHER -> m.kind = "OK"
Wanted(m) ==
  CASE ws.pc = "challenge" -> m.kind = "AUTH"
    [] ws.pc = "authok" -> m.kind = "OK" /\ m.id = AuthId
    [] OTHER -> m.kind = "OK" /\ m.id = EventId
Took(w, m) ==
  CASE w.pc = "challenge" -> [w EXCEPT !.pc = "authok", !.authed = TRUE]
    [] OTHER -> [w EXCEPT !.pc = "eventok", !.has = TRUE]
\* wait_for_auth_challenge, wait_for_ok.  What they look for in the buffer is never
\* there in this exchange: nothing is acknowledged before it was sent.
ws_receives ==
  /\ Open /\ ws.wire # <<>>
  /\ LET m == Head(ws.wire) IN
       CASE m.kind = "garbage" -> Finish("error")
         [] ~ Wanted(m) ->     \* into the buffer, which this exchange never reads
              /\ ws' = [ws EXCEPT !.wire = Tail(@)]
              /\ UNCHANGED <<plan, cmd, relay, faults, page>>
         [] ws.pc = "eventok" \/ (m.kind = "OK" /\ ~ m.ok) ->
              Finish(IF ws.pc = "eventok" /\ m.ok THEN "ok" ELSE "error")
         [] OTHER -> /\ ws' = [Took(ws, m) EXCEPT !.wire = Tail(@)]
                     /\ UNCHANGED <<plan, cmd, relay, faults, page>>
\* A timeout of a wait or of the whole operation, or the relay closing.
ws_fails == Open /\ faults > 0 /\ Finish("error")
-----------------------------------------------------------------------------
Next ==
  \/ late_arrival \/ attempt \/ rerun
  \/ query_page \/ relay_stores
  \/ relay_challenges \/ relay_chats \/ relay_acks
  \/ ws_connect \/ ws_receives \/ ws_fails

Spec == Init /\ [][Next]_vars
-----------------------------------------------------------------------------
\* A moderation command is executed at most once, however often its request was
\* retried, answered late, or its command run again on a retryable answer
\* (submit_moderation_event).
ModerationOnce == relay.execs <= 1

\* What the command reports as done was done: the event is stored, the blob is
\* held, the ephemeral event was accepted under its own id (submit_event,
\* upload_file, wait_for_ok).
ReportedIsHeld ==
  cmd.result = "ok" =>
    CASE plan.op = "stored" -> Signed \in relay.stored
      [] plan.op = "moderation" -> relay.execs = 1
      [] plan.op = "upload" -> relay.blobs = 1
      [] plan.op = "ephemeral" -> EventId \in relay.stored
      [] OTHER -> TRUE

\* query_all returns every event that was there when it began and still is when it
\* ends, each once and no two of one address, whatever is stored while it reads and
\* however many events share a second (query_pages, advance_query_cursor).  An
\* address whose event is replaced before its page is read may be missing: the
\* replacement is newer than the cursor.
PagesExact ==
  plan.op = "pages" =>
    /\ \A i, j \in 1..Len(page.got) : i # j =>
         /\ page.got[i] # page.got[j]
         /\ page.got[i].address # 0 => page.got[i].address # page.got[j].address
    /\ (cmd.result = "ok" /\ plan.limit = 0) => (page.first \cap relay.events) \subseteq ToSet(page.got)
    /\ plan.limit > 0 => Len(page.got) <= plan.limit
=============================================================================
