----------------------------- MODULE NodeAccess -----------------------------
(***************************************************************************)
(* What a request to the local relay passes before it has an effect: the   *)
(* start of the node (its key, the trust its owner declared, the ledger of *)
(* consumed proofs), the NIP-98 proof of a request, and the authorization  *)
(* of its route.  Blobs are stored by the requests themselves, so their    *)
(* files are modelled here as well; what the store does with an event is   *)
(* EventStore's, what subscribers see of it LocalRelay's.                  *)
(***************************************************************************)
EXTENDS Integers, Sequences, FiniteSets

CONSTANTS Scenarios,   \* records [requests, declared, twin, time]: requests are
                       \* [proof, at, who, op, arg], the heads the owner may publish
                       \* [d, n, active, keys, sel]; whether a second start occurs
          Owner, Node, \* the two governance anchors
          FileTrust,   \* the peer-trust file: source -> keys
          Referencing, \* blob -> the classes of journal events that reference it
          Tolerance, Retention, MaxFaults

VARIABLES plan, now, pc, faults,
          keyfile, key, made,        \* the relay key: file, in memory, keys generated
          twin, twinkey,             \* another start, and its key
          heads, trust,              \* the owner's heads in the journal; trust as of the start
          lines, consumed,           \* the proof ledger: file and memory
          uploads, blobs,            \* uploads in progress; files under their final names
          accepted                   \* how often each proof was honoured

vars == <<plan, now, pc, faults, keyfile, key, made, twin, twinkey, heads, trust, lines, consumed,
          uploads, blobs, accepted>>
keys   == <<keyfile, key, made, twin, twinkey>>
ledger == <<lines, consumed>>

Blobs == DOMAIN Referencing
Requests == plan.requests
Proofs == {r.proof : r \in Requests}
Nothing == [x \in {} |-> 0]
Fault == faults < MaxFaults /\ faults' = faults + 1

Init ==
  /\ plan \in Scenarios
  /\ now = 1 /\ pc = "down" /\ faults = 0
  /\ keyfile = [key |-> 0, whole |-> FALSE] /\ key = 0 /\ made = 0
  /\ twin = (IF plan.twin THEN "read" ELSE "down") /\ twinkey = 0
  /\ heads = [d \in {} |-> 0] /\ trust = [s \in {} |-> {}]
  /\ lines = <<>> /\ consumed = Nothing
  /\ uploads = [r \in {} |-> "check"] /\ blobs = [b \in Blobs |-> "absent"]
  /\ accepted = [p \in Proofs |-> 0]

Tick == /\ now < plan.time /\ now' = now + 1
        /\ UNCHANGED <<plan, pc, faults, keys, heads, trust, ledger, uploads, blobs, accepted>>

\* The owner publishes a head; it replaces the one with the same d tag,
\* whatever node that one was for.
Declare(h) ==
  /\ pc = "serving"
  /\ heads' = [d \in DOMAIN heads \cup {h.d} |-> IF d = h.d THEN h ELSE heads[d]]
  /\ UNCHANGED <<plan, now, pc, faults, keys, trust, ledger, uploads, blobs, accepted>>
-----------------------------------------------------------------------------
(***************************************************************************)
(* main: the store is open (EventStore); then the key, the trust, the      *)
(* ledger, the listener.                                                   *)
(***************************************************************************)
\* Mutant: the file is opened for writing whether or not it exists.
CanCreate_Truncates == TRUE
CanCreate == keyfile.key = 0

\* load_or_create_relay_keys: what a process at `step` with the key `own` does
\* next.  It reads the file, or creates it, or writes and syncs it.
KeyStep(step, own, file, n) == [step |-> step, own |-> own, file |-> file, made |-> n]
load_or_create_relay_keys(step, own) ==
  CASE step = "read" /\ keyfile.key = 0 -> KeyStep("create", own, keyfile, made)
    [] step = "read" /\ keyfile.whole   -> KeyStep("keyed", keyfile.key, keyfile, made)
    [] step = "create" /\ CanCreate     ->
         KeyStep("write", made + 1, [key |-> made + 1, whole |-> FALSE], made + 1)
    [] step = "create" /\ ~CanCreate    -> KeyStep("read", own, keyfile, made)
    [] step = "write" -> KeyStep("keyed", own, [key |-> own, whole |-> TRUE], made)
    [] OTHER          -> KeyStep("down", own, keyfile, made)

main_starts ==
  /\ pc = "down" /\ pc' = "read"
  /\ UNCHANGED <<plan, now, faults, keys, heads, trust, ledger, uploads, blobs, accepted>>

main_key ==
  /\ pc \in {"read", "create", "write"}
  /\ LET o == load_or_create_relay_keys(pc, key)
     IN pc' = o.step /\ key' = o.own /\ keyfile' = o.file /\ made' = o.made
  /\ UNCHANGED <<plan, now, faults, twin, twinkey, heads, trust, ledger, uploads, blobs, accepted>>

\* A second start on the same data, which ends when it does not get the listener.
twin_key ==
  /\ twin \in {"read", "create", "write"}
  /\ LET o == load_or_create_relay_keys(twin, twinkey)
     IN twin' = o.step /\ twinkey' = o.own /\ keyfile' = o.file /\ made' = o.made
  /\ UNCHANGED <<plan, now, pc, key, faults, heads, trust, ledger, uploads, blobs, accepted>>

\* Only owner-signed heads with this node's label govern, and all of them do:
\* the file counts when there is none, whatever their status is.
Governing == {h \in {heads[d] : d \in DOMAIN heads} : h.n = Node}
Admits == {h \in Governing : h.d[1] = "admit"}

admit_domain_from_journal ==
  [s \in {h.d[2] : h \in {g \in Admits : g.active}} |->
     (CHOOSE h \in Admits : h.active /\ h.d[2] = s).keys]

main_trust ==
  /\ pc = "keyed" /\ pc' = "ledger"
  /\ trust' = IF Admits # {} THEN admit_domain_from_journal ELSE FileTrust
  /\ UNCHANGED <<plan, now, faults, keys, heads, ledger, uploads, blobs, accepted>>

(***************************************************************************)
(* The ledger file.  An append is a line "<id> <time>" that may be cut     *)
(* inside the id, inside the time or before its end; the next append       *)
(* continues a cut line.  A line parses when it has one append that got at *)
(* least to a digit of its time, and a cut time is an earlier one.         *)
(***************************************************************************)
Cuts == {"id", "time", "end"}
Parses(i) ==
  /\ lines[i].cut # "id"
  /\ i > 1 => lines[i - 1].cut = "whole"
load ==
  [p \in {lines[i].id : i \in DOMAIN lines} |->
     LET last == CHOOSE i \in DOMAIN lines :
                   lines[i].id = p /\ \A j \in DOMAIN lines : lines[j].id = p => j <= i
     IN IF lines[last].cut = "time" THEN 0 ELSE lines[last].at]

main_serves ==
  /\ pc = "ledger"
  /\ IF \A i \in DOMAIN lines : Parses(i)
     THEN pc' = "serving" /\ consumed' = load
     ELSE pc' = "down" /\ UNCHANGED consumed
  /\ UNCHANGED <<plan, now, faults, keys, heads, trust, lines, uploads, blobs, accepted>>
-----------------------------------------------------------------------------
(***************************************************************************)
(* authenticate_http_method and authenticate_at: the proof is for this     *)
(* route and body (so it belongs to its request), fresh, and not consumed. *)
(***************************************************************************)
verify_nip98_event_at(r) ==
  IF r.at > now THEN r.at - now <= Tolerance ELSE now - r.at <= Tolerance

\* Mutant: an id is kept for the freshness tolerance, not for twice as long.
Kept_OneWindow == {p \in DOMAIN consumed : consumed[p] + Tolerance >= now}
Kept == {p \in DOMAIN consumed : consumed[p] + Retention >= now}
Retained == [p \in Kept |-> consumed[p]]

Append1(r, cut) == Append(lines, [id |-> r.proof, at |-> now, cut |-> cut])

\* The durable record exists before the proof is honoured.
\* Mutant: the id is recorded in memory only.
consume_InMemory(r) ==
  /\ r.proof \notin Kept
  /\ lines' = lines
  /\ consumed' = [p \in Kept \cup {r.proof} |-> IF p = r.proof THEN now ELSE consumed[p]]
  /\ accepted' = [accepted EXCEPT ![r.proof] = @ + 1]
consume(r) ==
  /\ r.proof \notin Kept
  /\ lines' = Append1(r, "whole")
  /\ consumed' = [p \in Kept \cup {r.proof} |-> IF p = r.proof THEN now ELSE consumed[p]]
  /\ accepted' = [accepted EXCEPT ![r.proof] = @ + 1]

consume_refused(r) ==
  /\ pc = "serving" /\ verify_nip98_event_at(r) /\ r.proof \in Kept
  /\ consumed' = Retained
  /\ UNCHANGED <<plan, now, pc, faults, keys, heads, trust, lines, uploads, blobs, accepted>>

\* The append fails part of the way: the request is refused, the proof is not
\* consumed, and what was written stays.
consume_fails(r) ==
  /\ pc = "serving" /\ verify_nip98_event_at(r) /\ r.proof \notin Kept /\ Fault
  /\ consumed' = Retained
  /\ lines' \in {lines} \cup {Append1(r, c) : c \in Cuts}
  /\ UNCHANGED <<plan, now, pc, keys, heads, trust, uploads, blobs, accepted>>
-----------------------------------------------------------------------------
\* bind_peer_key, is_admitted_verification_key: from the trust of the start.
bind_peer_key(source, who) == source \in DOMAIN trust /\ who \in trust[source]
is_admitted_verification_key(who) == \E s \in DOMAIN trust : who \in trust[s]

authorize_artifact_upload(who) == who = Owner \/ is_admitted_verification_key(who)

\* From the journal at the time of the request.
artifact_fetch_allowed(who, blob) ==
  \E g \in Governing, x \in Governing :
    /\ g.d[1] = "read" /\ g.active /\ who \in g.keys
    /\ x.d[1] = "export" /\ x.d[2] = g.d[2] /\ x.active
    /\ Referencing[blob] # {}
    /\ x.sel = "mirror" \/ x.sel \in Referencing[blob]

authorize_artifact_fetch(who, blob) == who = Owner \/ artifact_fetch_allowed(who, blob)

\* An upload starts when its route admits it; every other route is done with
\* its effect elsewhere (EventStore, LocalRelay) or has none.
Admitted(r) ==
  CASE r.op = "upload"      -> authorize_artifact_upload(r.who)
    [] r.op = "replication" -> bind_peer_key(r.arg, r.who)
    [] r.op = "fetch"       -> authorize_artifact_fetch(r.who, r.arg)

Handle(r) ==
  /\ pc = "serving" /\ verify_nip98_event_at(r)
  /\ consume(r)
  /\ uploads' = IF r.op = "upload" /\ Admitted(r)
                THEN [u \in DOMAIN uploads \cup {r} |-> IF u = r THEN "check" ELSE uploads[u]]
                ELSE uploads
  /\ UNCHANGED <<plan, now, pc, faults, keys, heads, trust, blobs>>

(***************************************************************************)
(* artifact_upload: a name that exists is left alone; otherwise the body   *)
(* is written to a file of its own, synced, and renamed.  A blob under its *)
(* name is "cached" until its data is on the disk.                         *)
(***************************************************************************)
Ends(r) == [u \in DOMAIN uploads \ {r} |-> uploads[u]]
Goes(r, step) == [uploads EXCEPT ![r] = step]

\* Mutant: the file is renamed when it is written, and synced afterwards.
upload_step_Unsynced(r) ==
  \/ /\ uploads[r] = "check" /\ blobs' = blobs
     /\ uploads' = IF blobs[r.arg] = "absent" THEN Goes(r, "rename") ELSE Ends(r)
  \/ /\ uploads[r] = "rename"
     /\ blobs' = [blobs EXCEPT ![r.arg] = "cached"] /\ uploads' = Goes(r, "sync")
  \/ /\ uploads[r] = "sync"
     /\ blobs' = [blobs EXCEPT ![r.arg] = "whole"] /\ uploads' = Ends(r)
upload_step(r) ==
  \/ /\ uploads[r] = "check" /\ blobs' = blobs
     /\ uploads' = IF blobs[r.arg] = "absent" THEN Goes(r, "sync") ELSE Ends(r)
  \/ /\ uploads[r] = "sync" /\ blobs' = blobs
     /\ uploads' = Goes(r, "rename")
  \/ /\ uploads[r] = "rename"
     /\ blobs' = [blobs EXCEPT ![r.arg] = "whole"] /\ uploads' = Ends(r)

artifact_upload(r) ==
  /\ upload_step(r)
  /\ UNCHANGED <<plan, now, pc, faults, keys, heads, trust, ledger, accepted>>

\* Creating, writing, syncing or renaming fails: the upload is refused.
artifact_upload_fails(r) ==
  /\ Fault /\ uploads' = Ends(r)
  /\ UNCHANGED <<plan, now, pc, keys, heads, trust, ledger, blobs, accepted>>
-----------------------------------------------------------------------------
\* The process stops, also inside an append to the ledger.
Stops ==
  /\ pc' = "down" /\ key' = 0 /\ consumed' = Nothing /\ trust' = [s \in {} |-> {}]
  /\ uploads' = [r \in {} |-> "check"]
  /\ UNCHANGED <<plan, now, keyfile, made, twin, twinkey, heads, accepted>>

Crash ==
  /\ pc # "down" /\ Fault /\ Stops
  /\ \/ lines' = lines
     \/ pc = "serving" /\ \E r \in Requests, c \in Cuts \cup {"whole"} :
          verify_nip98_event_at(r) /\ r.proof \notin Kept /\ lines' = Append1(r, c)
  /\ UNCHANGED blobs

\* A rename that the directory has not on disk is undone; data that was not
\* synced is gone, the name may stay.
PowerLoss ==
  /\ pc = "serving" /\ Fault /\ Stops
  /\ blobs' \in [Blobs -> {"absent", "part", "whole"}]
  /\ \A b \in Blobs : /\ blobs'[b] = "part" => blobs[b] \in {"cached", "part"}
                      /\ blobs'[b] = "whole" => blobs[b] \in {"whole", "cached"}
                      /\ blobs[b] = "part" => blobs'[b] = "part"
  /\ UNCHANGED lines

Next ==
  \/ Tick \/ main_starts \/ main_key \/ twin_key \/ main_trust \/ main_serves
  \/ \E h \in plan.declared : Declare(h)
  \/ \E r \in Requests : Handle(r) \/ consume_refused(r) \/ consume_fails(r)
  \/ \E r \in DOMAIN uploads : artifact_upload(r) \/ artifact_upload_fails(r)
  \/ Crash \/ PowerLoss
-----------------------------------------------------------------------------
\* A proof is honoured once: replays inside the freshness window are refused,
\* also by a node that stopped and started in it.
ProofUsedOnce == \A p \in Proofs : accepted[p] <= 1

\* artifact_fetch refuses a file whose content does not hash to its name, and
\* artifact_upload leaves an existing name alone: a partial file under a name
\* would be a blob that can neither be read nor be stored again.
BlobsWhole == \A b \in Blobs : blobs[b] # "part"

\* The relay key witnesses pulses and signs projected state: a node serves with
\* the key in its file, and a key in the file stays there, also when two starts
\* race to create it.
KeyStable == [][/\ keyfile.whole => keyfile' = keyfile
                /\ pc' = "serving" => key' = keyfile'.key]_vars
=============================================================================
