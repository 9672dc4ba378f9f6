------------------------------ MODULE MCNodes ------------------------------
(***************************************************************************)
(* The nodes for TLC: the laptop relay around its store, what a request to *)
(* it passes, the processes that follow a rendezvous, and the rendezvous   *)
(* itself.  They meet over HTTP, where each one's model leaves the other   *)
(* side open, so a behaviour follows one of them, chosen at the start.     *)
(***************************************************************************)
EXTENDS Integers, Sequences, FiniteSets

CONSTANTS k1, r1, Window, Tolerance, Retention, MaxFaults, Owner

\* The laptop relay.
CONSTANTS Submits, Creates, Ephemerals, Sockets, Responses, Capacity, MaxSilent
VARIABLES journal, tasks, live, relaySocks, rounds, pulses, relayAnswers, silent, relayNow, limits
relayVars ==
  <<journal, tasks, live, relaySocks, rounds, pulses, relayAnswers, silent, relayNow, limits>>
Load(s, r, t, q, w, d) ==
  [submits |-> s, responses |-> r, time |-> t, reqs |-> q, who |-> w, drops |-> d]
\* A note and a group creation; an ephemeral event and two REQs; a pulse and its
\* response.
Loads == {Load({"a", "b"}, {}, 0, 1, {}, FALSE),
          Load({"a", "e"}, {}, 0, 2, {"party", "stranger"}, TRUE),
          Load({"a"}, {r1}, 2, 1, {"party"}, FALSE)}
Relay == INSTANCE LocalRelay WITH
  socks <- relaySocks, answers <- relayAnswers, now <- relayNow,
  Projections <- <<"pr">>, Scenarios <- Loads, MaxPulses <- 2

\* Requests to it.
VARIABLES accessPlan, accessNow, pc, faults, keyfile, key, made, twin, twinkey, heads, trust,
          lines, consumed, uploads, files, accepted
accessVars == <<accessPlan, accessNow, pc, faults, keyfile, key, made, twin, twinkey, heads, trust,
                lines, consumed, uploads, files, accepted>>
Request(p, at, who, op, arg) == [proof |-> p, at |-> at, who |-> who, op |-> op, arg |-> arg]
Declared(a, b, act, k) ==
  [d |-> <<a, b>>, n |-> "me", active |-> act, keys |-> {k}, sel |-> "mirror"]
Access(r, h, t, n) == [requests |-> r, declared |-> h, twin |-> t, time |-> n]
\* Proofs from the future and their replays; uploads while trust is declared and
\* revoked; a reader; two starts.
Accesses == {
  Access({Request("p1", 2, "peer", "replication", "s"), Request("p2", 3, Owner, "fetch", "b")},
         {}, FALSE, 4),
  Access({Request("p1", 1, Owner, "upload", "b"), Request("p2", 1, "peer", "upload", "b")},
         {Declared("admit", "s", TRUE, "peer"), Declared("admit", "s", FALSE, "peer")}, FALSE, 1),
  Access({Request("p1", 1, "reader", "fetch", "b")},
         {Declared("read", "s", TRUE, "reader"), Declared("export", "s", TRUE, "reader")}, FALSE, 1),
  Access({}, {}, TRUE, 1)}
Door == INSTANCE NodeAccess WITH
  plan <- accessPlan, now <- accessNow, blobs <- files, Scenarios <- Accesses, Node <- "me",
  FileTrust <- [s \in {"s"} |-> {"peer"}], Referencing <- [b \in {"b"} |-> {"mirror"}]

\* Following the rendezvous.
CONSTANTS Batch, Radix, Pulls, NoBlob
VARIABLES scene, remote, offered, local, blobs, file, mixed, pulls, watch, walk, breaks
syncVars == <<scene, remote, offered, local, blobs, file, mixed, pulls, watch, walk, breaks>>
Line(e, b) == [exported |-> e, blob |-> b]
Scene(r, p, f) == [records |-> r, pulls |-> p, faults |-> f]
\* One pull at a time through two faults, and two through one.
Scenes == {Scene(4, 1, 2), Scene(3, 2, 1)}
Sync == INSTANCE NodeSync WITH
  faults <- breaks,
  Journal <- <<Line(TRUE, NoBlob), Line(FALSE, NoBlob), Line(TRUE, NoBlob), Line(TRUE, "b")>>

\* The rendezvous.
CONSTANTS Conns, MaxSubs, MaxDrops
VARIABLES nodePlan, sql, nodeSocks, issued, nodeAnswers, honoured, r2, puts, drops, nodeNow
nodeVars ==
  <<nodePlan, sql, nodeSocks, issued, nodeAnswers, honoured, r2, puts, drops, nodeNow>>
NoDecl == [domain |-> "none", stream |-> "none", n |-> "none", status |-> "none", entry |-> {},
           pulse |-> 0]
Event(id, kind, author, k, at) ==
  [id |-> id, kind |-> kind, author |-> author, key |-> k, at |-> at, genuine |-> TRUE,
   to |-> {}, refs |-> {}, decl |-> NoDecl]
Declaration(id, at, status, dom) ==
  [Event(id, "declaration", Owner, dom, at) EXCEPT
     !.decl = [NoDecl EXCEPT !.domain = dom, !.stream = "s", !.n = "me", !.status = status,
                             !.entry = {"peer"}]]
Response(id, author, at, pulse) ==
  [Event(id, "response", author, "none", at) EXCEPT !.decl = [NoDecl EXCEPT !.pulse = pulse]]
Http(p, at, who, op, arg) ==
  [proof |-> p, at |-> at, who |-> who, op |-> op, arg |-> arg, source |-> "s"]
Blob(p, op) == [Http(p, 1, "peer", op, <<>>) EXCEPT !.source = "b"]
Frame(op, p, who, sub, kinds, arg) ==
  [op |-> op, proof |-> p, at |-> 1, who |-> who, sub |-> sub, kinds |-> kinds, arg |-> arg]
Visit(r, f, c, t, a) == [requests |-> r, frames |-> f, conns |-> c, time |-> t, auth |-> a]
note == Event(1, "note", "peer", "none", 5)
head2 == Event(2, "head", Owner, "k", 5)
head3 == Event(3, "head", Owner, "k", 5)
head4 == Event(4, "head", Owner, "k", 6)
\* Competing heads, replicated after a direct copy; a declaration that does not
\* evaluate and its repair; blobs; subscribers; an open node with responses.
Visits == {
  Visit({Http("p1", 1, "peer", "ingest", <<note, head3, head2>>),
         Http("p2", 2, "peer", "ingest", <<head4, note>>),
         Http("p3", 3, Owner, "submit", <<head2>>)}, {}, {}, 4, TRUE),
  Visit({Http("p1", 1, Owner, "submit", <<Declaration(5, 6, "malformed", "readers")>>),
         Http("p2", 1, Owner, "submit", <<Declaration(6, 7, "active", "readers")>>),
         Http("p3", 1, "peer", "submit", <<note>>), Http("p4", 1, Owner, "query", <<>>)},
        {}, {}, 1, TRUE),
  Visit({Http("p1", 1, Owner, "submit", <<[Event(9, "note", Owner, "none", 5) EXCEPT !.refs = {"b"}]>>),
         Blob("p2", "upload"), Blob("p3", "fetch"), Http("p4", 1, "peer", "read", <<>>)},
        {}, {}, 1, FALSE),
  Visit({Http("p3", 1, Owner, "submit", <<head2>>)},
        {Frame("AUTH", "p1", "peer", "", {}, <<>>), Frame("AUTH", "p2", Owner, "", {}, <<>>),
         Frame("REQ", "p1", "", "s1", {"note", "pulse"}, <<>>),
         Frame("REQ", "p1", "", "s2", {"head"}, <<>>),
         Frame("EVENT", "p1", "", "", {}, <<note>>), Frame("CLOSE", "p1", "", "s1", {}, <<>>)},
        {"c1", "c2"}, 1, TRUE),
  Visit({Http("p1", 1, Owner, "submit", <<head2>>), Http("p2", 1, Owner, "query", <<>>)},
        {Frame("REQ", "p1", "", "s1", {"response", "pulse"}, <<>>),
         Frame("EVENT", "p1", "", "", {}, <<Response(7, "peer", 2, 1)>>),
         Frame("EVENT", "p1", "", "", {}, <<Event(8, "ephemeral", "peer", "none", 1)>>)},
        {"c1"}, 3, FALSE)}
Worker == INSTANCE RelayNode WITH
  plan <- nodePlan, socks <- nodeSocks, answers <- nodeAnswers, now <- nodeNow,
  Scenarios <- Visits, Label <- "me", MaxPulses <- 4,
  Bootstrap <- [d \in {"peers", "readers", "streams"} |->
                  [s \in {"s"} |-> IF d = "streams" THEN {"note"} ELSE {"peer"}]]

VARIABLE focus
vars == <<focus, relayVars, accessVars, syncVars, nodeVars>>

\* A component that is not followed starts with a scenario of its own.
Some(x, scenarios) == x = CHOOSE s \in scenarios : TRUE
Init ==
  /\ focus \in {"relay", "access", "sync", "node"}
  /\ Relay!Init /\ (focus # "relay" => Some(limits, Loads))
  /\ Door!Init /\ (focus # "access" => Some(accessPlan, Accesses))
  /\ Sync!Init /\ (focus # "sync" => Some(scene, Scenes))
  /\ Worker!Init /\ (focus # "node" => Some(nodePlan, Visits))

Next ==
  \/ focus = "relay" /\ Relay!Next /\ UNCHANGED <<focus, accessVars, syncVars, nodeVars>>
  \/ focus = "access" /\ Door!Next /\ UNCHANGED <<focus, relayVars, syncVars, nodeVars>>
  \/ focus = "sync" /\ Sync!Next /\ UNCHANGED <<focus, relayVars, accessVars, nodeVars>>
  \/ focus = "node" /\ Worker!Next /\ UNCHANGED <<focus, relayVars, accessVars, syncVars>>

Spec == Init /\ [][Next]_vars /\ Sync!Fairness

-----------------------------------------------------------------------------

\* A subscriber of the laptop relay that read its channel and was not told that
\* it lagged was sent every published event: nothing falls between the query
\* and the subscription (NothingMissed: handle_ws_req, websocket_session).  The
\* rendezvous sends a subscriber what it stores, also when the object was evicted
\* in between (SubscriberComplete: #publishLive, the constructor's cleanup).
SubscribersServed == Relay!NothingMissed /\ Worker!SubscriberComplete

\* When the laptop relay's submissions have ended and none was cut off, some
\* published pulse shows the journal's last entry (HeadWitnessed: submit_from).  A
\* response to a pulse that its sender was shown, sent and received within the
\* recognition window, is counted (ResponsesCounted: register_pulse,
\* record_beacon_response).  The previous head of a pulse of the rendezvous lies
\* before its head, also when transitions were not witnessed (PulseChain:
\* #currentPulse, #emitPulse).
Witnessed == [](Relay!HeadWitnessed /\ Worker!PulseChain) /\ Relay!ResponsesCounted

\* A NIP-98 proof is honoured once, by the laptop relay (also one that stopped and
\* started: ProofLedger) and by the rendezvous (#consumeProof).  No partial file
\* stands under a blob's name (BlobsWhole: artifact_upload).  A node serves with
\* the key in its file, and that key stays, also when two starts race to create
\* it (KeyStable: load_or_create_relay_keys).
OnceAndWhole ==
  [](Door!ProofUsedOnce /\ Worker!NodeProofOnce /\ Door!BlobsWhole) /\ Door!KeyStable

\* The pull's cursor names no position behind which the local relay lacks a
\* record of the stream, unless two pulls wrote it at once (PulledBehindCursor:
\* buzz-relay-pull).  What the
\* rendezvous acknowledged is effective there or beaten by a newer event of its
\* key, and each key shows one event (AckCovered: #applyEvent).
SyncCovered == Sync!PulledBehindCursor /\ Worker!AckCovered

\* Every exported record arrives, and then its blob, through failed and timed
\* out drains, broken connections and restarts (buzz-pulse-watch,
\* buzz-artifact-sync).
Follows == Sync!Follows
=============================================================================
