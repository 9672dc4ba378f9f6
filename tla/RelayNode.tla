----------------------------- MODULE RelayNode -----------------------------
(***************************************************************************)
(* The rendezvous: the Cloudflare worker and its durable object            *)
(* (cloudflare/portable-relay/src).  The object runs one handler at a time *)
(* and no handler of it awaits, so each is one step; everything it keeps   *)
(* is in its SQL tables, which outlive evictions.  A handler that throws   *)
(* keeps what it has committed.                                            *)
(*                                                                         *)
(* A handler is an operator on the state of the node that returns the new  *)
(* state and its answer.                                                   *)
(***************************************************************************)
EXTENDS Integers, Sequences, SequencesExt, FiniteSets

CONSTANTS Scenarios,   \* records [requests, frames, conns, time, auth]
          Owner, Label,\* BUZZ_OWNER_PUBKEY, BUZZ_NODE_LABEL
          Bootstrap,   \* the environment's trust: domain -> stream -> entry
          Conns,       \* WebSocket connections
          Tolerance, Retention, Window, MaxSubs,
          MaxDrops, MaxPulses

VARIABLES plan,     \* the scenario
          sql,      \* the tables
          socks,    \* the sockets, and what was sent to them
          issued,   \* every pulse signed
          answers,  \* every answer given: <<request, outcome>>
          honoured, \* how often each proof was honoured
          r2, puts, \* the bucket of blobs, and the uploads on their way to it
          drops, now

vars == <<plan, sql, socks, issued, answers, honoured, r2, puts, drops, now>>
bucket == <<r2, puts>>

\* Events are records [id, kind, author, key, at, genuine, to, refs, decl].
NoKey == "none"
isEphemeralKind(e) == e.kind \in {"ephemeral", "response"}
replacementKey(e) == e.key
replacementCandidateWins(e, f) == e.at > f.at \/ (e.at = f.at /\ e.id < f.id)

Row(e, source) == [ev |-> e, effective |-> TRUE, source |-> source]
Effective(db) == {row.ev : row \in {r \in ToSet(db.journal) : r.effective}}
HeadOf(db) == IF db.journal = <<>> THEN 0 ELSE Last(db.journal).ev.id
NodeState == [sql |-> sql, socks |-> socks, issued |-> issued]
Outcome(s, o) == [st |-> s, out |-> o]

\* The tables of a new object; the constructor of a later one leaves them.
NoRows ==
  [journal |-> <<>>, accepted |-> {}, proofs |-> [p \in {} |-> 0], conns |-> [c \in {} |-> "none"],
   subs |-> [s \in {} |-> {}], rounds |-> <<>>, witnessed |-> [head |-> 0, prev |-> 0],
   points |-> [s \in {} |-> 0]]
NewSock == [state |-> "none", want |-> {}, got |-> {}]

Init ==
  /\ plan \in Scenarios
  /\ sql = NoRows /\ socks = [c \in Conns |-> NewSock]
  /\ issued = <<>> /\ answers = {} /\ drops = 0 /\ now = 1 /\ r2 = {} /\ puts = {}
  /\ honoured = [p \in {r.proof : r \in plan.requests \cup plan.frames} |-> 0]
-----------------------------------------------------------------------------
(***************************************************************************)
(* Owner-signed declarations, evaluated from the journal at every use.     *)
(***************************************************************************)
DeclarationHeads(db) ==
  {e \in Effective(db) : e.kind = "declaration" /\ e.author = Owner /\ e.decl.n = Label}
Throws(db) == \E e \in DeclarationHeads(db) : e.decl.status = "malformed"
evaluateDeclarations(db, domain) == {e \in DeclarationHeads(db) : e.decl.domain = domain}
resolved(db, domain) ==
  LET heads == evaluateDeclarations(db, domain)
      active == {e \in heads : e.decl.status = "active"}
  IN  IF heads = {} THEN Bootstrap[domain]
      ELSE [s \in {e.decl.stream : e \in active} |->
              (CHOOSE e \in active : e.decl.stream = s).decl.entry]
Trusted(db, domain, who) ==
  \E s \in DOMAIN resolved(db, domain) : who \in resolved(db, domain)[s]

pulseVisibleTo(db, who) ==
  \/ ~plan.auth
  \/ who # "none" /\ (who = Owner \/ Trusted(db, "peers", who) \/ Trusted(db, "readers", who))
eventVisibleToReader(who, e) == e.to = {} \/ who \in e.to \/ ~plan.auth
-----------------------------------------------------------------------------
(***************************************************************************)
(* Live delivery: a socket that fails loses its subscriptions and blocks   *)
(* nobody else.                                                            *)
(***************************************************************************)
Item(type, id) == [t |-> type, id |-> id]
Principal(db, c) == IF c \in DOMAIN db.conns THEN db.conns[c] ELSE "none"
Wants(db, c, type) == \E s \in DOMAIN db.subs : s[1] = c /\ type \in db.subs[s]

\* The readers that may see a pulse, and an event.
PulseReaders(db) == {c \in Conns : pulseVisibleTo(db, Principal(db, c))}
EventReaders(db, e) == {c \in Conns : eventVisibleToReader(Principal(db, c), e)}
publishLive(st, type, id, readers) ==
  LET db == st.sql
      due == {c \in readers : st.socks[c].state \in {"open", "dead"} /\ Wants(db, c, type)}
      lost == {c \in due : st.socks[c].state = "dead"}
  IN  [st EXCEPT
         !.sql.subs = [s \in {k \in DOMAIN db.subs : k[1] \notin lost} |-> db.subs[s]],
         !.socks = [c \in Conns |-> IF c \in due \ lost
                                    THEN [@[c] EXCEPT !.got = @ \cup {Item(type, id)}] ELSE @[c]]]
-----------------------------------------------------------------------------
(***************************************************************************)
(* Pulses.                                                                 *)
(***************************************************************************)
Open(round) == now <= round.at + Window

\* Mutant: a read reports the head itself as the one before it.
previous_SelfLoop(db) == db.witnessed.head
previous(db) ==
  IF HeadOf(db) = db.witnessed.head THEN db.witnessed.prev ELSE db.witnessed.head

pulseRecognition(db) ==
  LET open == {i \in DOMAIN db.rounds : /\ db.rounds[i].head = HeadOf(db) /\ Open(db.rounds[i])
                                        /\ db.rounds[i].responses # {}}
  IN  IF HeadOf(db) = 0 \/ open = {} THEN {} ELSE db.rounds[Max(open)].responses
currentPulse(db) ==
  [seq |-> Len(db.journal), head |-> HeadOf(db), previous |-> previous(db), at |-> now,
   recognition |-> pulseRecognition(db)]

registerPulse(st, pulse) ==
  LET kept == SelectSeq(st.sql.rounds, LAMBDA r : r.at >= now - Window)
      round == [pulse |-> Len(st.issued) + 1, head |-> pulse.head, at |-> pulse.at, responses |-> {}]
  IN  [st EXCEPT !.issued = Append(@, pulse),
                 !.sql.rounds = IF pulse.head = 0 THEN kept ELSE Append(kept, round)]

\* Emission is the only place where the witnessed chain moves.
Advanced(witnessed, head) ==
  IF head = witnessed.head THEN witnessed ELSE [head |-> head, prev |-> witnessed.head]
emitPulse(st) ==
  LET registered == registerPulse(st, currentPulse(st.sql))
      sent == publishLive(registered, "pulse", Len(registered.issued), PulseReaders(st.sql))
  IN  [sent EXCEPT !.sql.witnessed = Advanced(@, HeadOf(st.sql))]

\* #recordBeaconResponse and parseBeaconResponse.
recordBeaconResponse(st, e) ==
  LET round == {i \in DOMAIN st.sql.rounds : st.sql.rounds[i].pulse = e.decl.pulse}
      fits == {i \in round : /\ e.at >= st.sql.rounds[i].at
                             /\ e.at <= st.sql.rounds[i].at + Window /\ Open(st.sql.rounds[i])}
  IN  IF fits = {} THEN Outcome(st, "invalid")
      ELSE Outcome([st EXCEPT !.sql.rounds[Min(fits)].responses = @ \cup {e.author}], "ephemeral")
-----------------------------------------------------------------------------
(***************************************************************************)
(* #applyEvent.                                                            *)
(***************************************************************************)
Holder(db, e) == {f \in Effective(db) : replacementKey(e) # NoKey /\ replacementKey(f) = replacementKey(e)}

\* The head of its key beats the event.
\* Mutant: the last event to come wins.
Superseded_Never(db, e) == FALSE
Superseded(db, e) == \E f \in Holder(db, e) : ~replacementCandidateWins(e, f)

\* The transaction that stores an event.
Inserted(db, e, source) ==
  [db EXCEPT !.accepted = @ \cup {e.id},
             !.journal = Append([i \in DOMAIN @ |->
                                   [@[i] EXCEPT !.effective = @ /\ db.journal[i].ev \notin Holder(db, e)]],
                                Row(e, source))]

\* Live readers see the event before its pulse.
Stored(st, e, source) ==
  LET shown == publishLive([st EXCEPT !.sql = Inserted(@, e, source)], e.kind, e.id,
                           EventReaders(st.sql, e))
  IN  IF Throws(shown.sql) THEN Outcome(shown, "throws") ELSE Outcome(emitPulse(shown), "stored")

applyEvent(st, e, source, who) ==
  CASE ~e.genuine -> Outcome(st, "invalid")
    [] e.genuine /\ e.id \in st.sql.accepted -> Outcome(st, "duplicate")
    [] e.genuine /\ e.id \notin st.sql.accepted /\ e.kind = "response" ->
         IF plan.auth /\ who # Owner /\ Throws(st.sql) THEN Outcome(st, "throws")
         ELSE IF plan.auth /\ ~pulseVisibleTo(st.sql, who) THEN Outcome(st, "invalid")
         ELSE LET r == recordBeaconResponse(st, e)
              IN  IF r.out = "invalid" THEN r
                  ELSE Outcome(publishLive(r.st, "response", e.id, PulseReaders(st.sql)), "ephemeral")
    [] e.genuine /\ e.id \notin st.sql.accepted /\ e.kind = "ephemeral" ->
         Outcome(publishLive(st, "ephemeral", e.id, EventReaders(st.sql, e)), "ephemeral")
    [] OTHER ->
         IF Superseded(st.sql, e)
         THEN Outcome([st EXCEPT !.sql.accepted = @ \cup {e.id}], "superseded")
         ELSE Stored(st, e, source)
-----------------------------------------------------------------------------
(***************************************************************************)
(* HTTP requests: [proof, at, who, op, arg, source].  The worker's body    *)
(* limits and parsers refuse before the object is asked.                   *)
(***************************************************************************)
withinTolerance(at) == now - at <= Tolerance /\ at - now <= Tolerance

\* Mutant: ids are dropped when the proof could still be fresh.
Retained_OneWindow(db) == {p \in DOMAIN db.proofs : db.proofs[p] >= now - 1}
Retained(db) == {p \in DOMAIN db.proofs : db.proofs[p] >= now - Retention}
Consumed(db, proof) ==
  LET all == [p \in DOMAIN db.proofs \cup {proof} |-> IF p = proof THEN now ELSE db.proofs[p]]
  IN  [db EXCEPT !.proofs = [p \in Retained(db) \cup {proof} |-> all[p]]]
consumeProof(db, r) == withinTolerance(r.at) /\ r.proof \notin DOMAIN db.proofs

\* The records of a batch are applied in order until one is refused or throws.
ApplyRecord(run, e, source) ==
  IF run.out \in {"rejected", "throws"} THEN run
  ELSE IF isEphemeralKind(e) THEN [run EXCEPT !.out = "rejected"]
  ELSE LET r == applyEvent(run.st, e, source, "none")
       IN  [st |-> r.st, acked |-> IF r.out \in {"stored", "duplicate", "superseded"}
                                   THEN run.acked \o <<e>> ELSE run.acked,
            out |-> CASE r.out = "invalid" -> "rejected" [] r.out = "throws" -> "throws"
                      [] OTHER -> "applied"]
ingestReplication(st, r) ==
  IF Throws(st.sql) THEN [st |-> st, out |-> "throws", acked |-> <<>>]
  ELSE IF r.source \notin DOMAIN resolved(st.sql, "peers")
          \/ r.who \notin resolved(st.sql, "peers")[r.source]
       THEN [st |-> st, out |-> "denied", acked |-> <<>>]
  ELSE LET run == FoldLeft(LAMBDA acc, e : ApplyRecord(acc, e, r.source),
                           [st |-> st, out |-> "applied", acked |-> <<>>], r.arg)
       IN  IF run.out = "throws" \/ run.acked = <<>> THEN run
           ELSE [run EXCEPT !.st.sql.points =
                   [s \in DOMAIN @ \cup {r.source} |->
                      IF s = r.source THEN Len(run.acked) ELSE @[s]]]

authorizeDirect(who, e) == e.author = who
submitEvent(st, r) ==
  LET e == r.arg[1]
      o == IF plan.auth /\ ~authorizeDirect(r.who, e) THEN Outcome(st, "denied")
           ELSE applyEvent(st, e, "none", IF plan.auth THEN r.who ELSE "none")
  IN  [st |-> o.st, out |-> o.out,
       acked |-> IF o.out \in {"stored", "duplicate", "superseded"} THEN r.arg ELSE <<>>]

\* A query that names the pulse kind is answered with a fresh one.
Queried(st, who) ==
  IF ~pulseVisibleTo(st.sql, who) THEN st ELSE registerPulse(st, currentPulse(st.sql))
queryEvents(st, r) ==
  IF Throws(st.sql) THEN [st |-> st, out |-> "throws", acked |-> <<>>]
  ELSE [st |-> Queried(st, r.who), out |-> "ok", acked |-> <<>>]

\* Uploads are for the owner and admitted peers; a blob is fetched by the owner
\* and by the readers of a stream that exports an event that references it.
authorizeArtifactUpload(db, who) == who = Owner \/ Trusted(db, "peers", who)
Selects(entry, row) == "mirror" \in entry \/ row.ev.kind \in entry \/ row.source \in entry
authorizeArtifactFetch(db, who, blob) ==
  \/ who = Owner
  \/ LET readers == resolved(db, "readers") streams == resolved(db, "streams")
     IN  \E s \in DOMAIN readers \cap DOMAIN streams, i \in DOMAIN db.journal :
           /\ who \in readers[s] /\ blob \in db.journal[i].ev.refs
           /\ Selects(streams[s], db.journal[i])
readReplication(db, who, stream) ==
  /\ stream \in DOMAIN resolved(db, "streams") \cap DOMAIN resolved(db, "readers")
  /\ who \in resolved(db, "readers")[stream]
\* The owner's own requests for blobs do not look at the declarations.
Judged(st, r, allowed) ==
  [st |-> st, acked |-> <<>>,
   out |-> IF Throws(st.sql) /\ (r.op = "read" \/ r.who # Owner) THEN "throws"
           ELSE IF allowed THEN "ok" ELSE "denied"]

Handled(st, r) ==
  CASE r.op = "submit" -> submitEvent(st, r)
    [] r.op = "ingest" -> ingestReplication(st, r)
    [] r.op = "query"  -> queryEvents(st, r)
    [] r.op = "read"   -> Judged(st, r, readReplication(st.sql, r.who, r.source))
    [] r.op = "upload" -> Judged(st, r, authorizeArtifactUpload(st.sql, r.who))
    [] r.op = "fetch"  -> Judged(st, r, authorizeArtifactFetch(st.sql, r.who, r.source))

Becomes(st) == sql' = st.sql /\ socks' = st.socks /\ issued' = st.issued

fetchRequest(r) ==
  /\ Len(issued) < MaxPulses
  /\ LET needs == plan.auth \/ r.op \notin {"submit", "query"}
         ok == ~needs \/ consumeProof(sql, r)
         st == IF needs THEN [NodeState EXCEPT !.sql = Consumed(sql, r.proof)] ELSE NodeState
         h == Handled(st, r)
     IN  /\ ok
         /\ Becomes(h.st)
         /\ answers' = answers \cup {<<e, h.out>> : e \in ToSet(h.acked)}
         /\ honoured' = IF needs THEN [honoured EXCEPT ![r.proof] = @ + 1] ELSE honoured
         /\ puts' = IF r.op = "upload" /\ h.out = "ok" THEN puts \cup {r.source} ELSE puts
  /\ UNCHANGED <<plan, r2, drops, now>>

\* The worker puts the blob once the object has allowed it, or fails to.
handleArtifacts_put(b) ==
  /\ b \in puts /\ puts' = puts \ {b}
  /\ r2' \in {r2, r2 \cup {b}}
  /\ UNCHANGED <<plan, sql, socks, issued, answers, honoured, drops, now>>
-----------------------------------------------------------------------------
(***************************************************************************)
(* WebSockets: [op, proof, at, who, sub, arg].                             *)
(***************************************************************************)
fetchSocket(c) ==
  /\ c \in plan.conns /\ socks[c].state = "none"
  /\ socks' = [socks EXCEPT ![c].state = "open"]
  /\ sql' = [sql EXCEPT !.conns = [k \in DOMAIN @ \cup (IF plan.auth THEN {c} ELSE {}) |->
                                     IF k = c THEN "none" ELSE @[k]]]
  /\ UNCHANGED <<plan, bucket, issued, answers, honoured, drops, now>>

handleWebSocketAuth(c, f) ==
  /\ f.op = "AUTH" /\ plan.auth /\ c \in DOMAIN sql.conns /\ sql.conns[c] = "none"
  /\ consumeProof(sql, f)
  /\ sql' = [Consumed(sql, f.proof) EXCEPT !.conns[c] = f.who]
  /\ honoured' = [honoured EXCEPT ![f.proof] = @ + 1]
  /\ UNCHANGED <<plan, bucket, socks, issued, answers, drops, now>>

Ready(c) == plan.auth => c \in DOMAIN sql.conns /\ sql.conns[c] # "none"

handleWebSocketEvent(c, f) ==
  /\ f.op = "EVENT" /\ Ready(c) /\ Len(issued) < MaxPulses
  /\ plan.auth => authorizeDirect(sql.conns[c], f.arg[1])
  /\ LET o == applyEvent(NodeState, f.arg[1], "none", Principal(sql, c))
     IN  /\ Becomes(o.st)
         /\ answers' = IF o.out \in {"stored", "duplicate", "superseded"}
                       THEN answers \cup {<<f.arg[1], o.out>>} ELSE answers
  /\ UNCHANGED <<plan, bucket, honoured, drops, now>>

\* REQ stores the subscription and answers from the tables in the same turn; a
\* pulse that cannot be evaluated ends it without an answer.
SubCount(c) == Cardinality({s \in DOMAIN sql.subs : s[1] = c})
handleWebSocketReq(c, f) ==
  /\ f.op = "REQ" /\ Ready(c) /\ Len(issued) < MaxPulses
  /\ <<c, f.sub>> \in DOMAIN sql.subs \/ SubCount(c) < MaxSubs
  /\ LET kept == [NodeState EXCEPT
                    !.sql.subs = [s \in DOMAIN @ \cup {<<c, f.sub>>} |->
                                    IF s = <<c, f.sub>> THEN f.kinds ELSE @[s]]]
         fails == "pulse" \in f.kinds /\ Throws(sql)
         asked == IF "pulse" \in f.kinds THEN Queried(kept, Principal(sql, c)) ELSE kept
         found == {Item(e.kind, e.id) : e \in {x \in Effective(sql) :
                      x.kind \in f.kinds /\ eventVisibleToReader(Principal(sql, c), x)}}
     IN  Becomes(IF fails THEN kept
                 ELSE [asked EXCEPT
                         !.socks[c].got = @ \cup found,
                         !.socks[c].want = {w \in @ : w[1] # f.sub} \cup {<<f.sub, f.kinds>>}])
  /\ UNCHANGED <<plan, bucket, answers, honoured, drops, now>>

handleWebSocketClose(c, f) ==
  /\ f.op = "CLOSE"
  /\ sql' = [sql EXCEPT !.subs = [s \in DOMAIN @ \ {<<c, f.sub>>} |-> @[s]]]
  /\ socks' = [socks EXCEPT ![c].want = {w \in @ : w[1] # f.sub}]
  /\ UNCHANGED <<plan, bucket, issued, answers, honoured, drops, now>>

webSocketMessage(c, f) ==
  /\ socks[c].state = "open"
  /\ \/ handleWebSocketAuth(c, f) \/ handleWebSocketEvent(c, f)
     \/ handleWebSocketReq(c, f) \/ handleWebSocketClose(c, f)

\* The client is gone; the object learns of it later, or when it sends.
ClientGone(c) ==
  /\ socks[c].state = "open" /\ drops < MaxDrops
  /\ socks' = [socks EXCEPT ![c] = [NewSock EXCEPT !.state = "dead"]]
  /\ drops' = drops + 1
  /\ UNCHANGED <<plan, bucket, sql, issued, answers, honoured, now>>
webSocketClose(c) ==
  /\ socks[c].state = "dead"
  /\ socks' = [socks EXCEPT ![c].state = "closed"]
  /\ sql' = [sql EXCEPT !.subs = [s \in {k \in DOMAIN @ : k[1] # c} |-> @[s]],
                        !.conns = [k \in DOMAIN @ \ {c} |-> @[k]]]
  /\ UNCHANGED <<plan, bucket, issued, answers, honoured, drops, now>>

\* The object is evicted or hibernates, and is built again for the next event:
\* CREATE IF NOT EXISTS leaves the tables as they are.
\* Mutant: subscriptions live in the object.
Constructed_Empty(db) == [db EXCEPT !.subs = [s \in {} |-> {}]]
Constructed(db) == db
Wakes ==
  /\ drops < MaxDrops /\ drops' = drops + 1
  /\ sql' = Constructed(sql)
  /\ UNCHANGED <<plan, bucket, socks, issued, answers, honoured, now>>

Tick ==
  /\ now < plan.time /\ now' = now + 1
  /\ UNCHANGED <<plan, bucket, sql, socks, issued, answers, honoured, drops>>

Next ==
  \/ \E r \in plan.requests : fetchRequest(r)
  \/ \E c \in Conns : \/ fetchSocket(c) \/ ClientGone(c) \/ webSocketClose(c)
                      \/ \E f \in plan.frames : webSocketMessage(c, f)
  \/ (\E b \in puts : handleArtifacts_put(b)) \/ Wakes \/ Tick
-----------------------------------------------------------------------------
\* What was acknowledged as stored, duplicate or superseded is in the effective
\* set or beaten there by a newer event of its key, and each key shows one event.
AckCovered ==
  /\ \A a \in answers : \/ a[1] \in Effective(sql)
                        \/ \E f \in Holder(sql, a[1]) : replacementCandidateWins(f, a[1])
  /\ \A e, f \in Effective(sql) : e # f => replacementKey(e) = NoKey \/ replacementKey(e) # replacementKey(f)

\* "The witnessed chain: previous is the head recognized before the current
\* one": following previous from any pulse leads back through the journal, never
\* to the pulse's own head or to a later one, also when a declaration that does
\* not evaluate kept some transitions from being witnessed.
Position(id) == CHOOSE i \in DOMAIN sql.journal : sql.journal[i].ev.id = id
PulseChain ==
  \A i \in DOMAIN issued :
    LET p == issued[i] IN p.previous # 0 => Position(p.previous) < Position(p.head)

\* A client that has an answered REQ and an open socket has been sent every
\* effective event of its filters, through wake-ups of the object, other
\* clients' dead sockets and failing pulses.
SubscriberComplete ==
  \A c \in Conns : socks[c].state = "open" =>
    \A w \in socks[c].want : \A e \in Effective(sql) :
      e.kind \in w[2] /\ eventVisibleToReader(Principal(sql, c), e) => Item(e.kind, e.id) \in socks[c].got

\* consumed_proofs refuses every further use of a proof, also after an eviction.
NodeProofOnce == \A p \in DOMAIN honoured : honoured[p] <= 1
=============================================================================
