------------------------------- MODULE Handoff -------------------------------
(***************************************************************************)
(* Journal handoffs: the reducer (buzz-local-relay/src/bin/                *)
(* buzz-handoff-state.rs) that computes a handoff's state from a set of    *)
(* signed events, and the commands that read that state and then post the  *)
(* next transition (buzz-cli/src/commands/context/handoff.rs), with the    *)
(* artifact commands they rely on (artifact_sync.rs) and the queries and   *)
(* posts of runtime.rs.  Each node has its own journal and clock; all of   *)
(* them replicate to one rendezvous relay, and a command reads the union   *)
(* of its own journal and the rendezvous.  Nothing makes reading and       *)
(* posting one step.                                                       *)
(***************************************************************************)
EXTENDS Integers, Sequences, FiniteSets, SequencesExt

CONSTANTS Plans,       \* records [start, calls, now, ticks, owner, limit, up, faults]
          Nodes,
          MaxEvents,   \* how many events all journals together may hold
          MaxTargets   \* MAX_INVALID_ACK_TARGETS

VARIABLES plan,
          journal,     \* each node's journal, in the order it accepted the events
          pushed,      \* how much of it the rendezvous has
          cloud,       \* the events at the rendezvous
          blobs,       \* the artifacts each store holds
          now,         \* each node's clock
          call,        \* the commands being run
          faults

vars == <<plan, journal, pushed, cloud, blobs, now, call, faults>>

Stores == Nodes \cup {"cloud"}
Calls == DOMAIN plan.calls
Posted == cloud \cup UNION {ToSet(journal[n]) : n \in Nodes}
NotStarted == [pc |-> "start", view |-> {}, pred |-> 0, link |-> 0, event |-> 0]

Init ==
  /\ plan \in Plans
  /\ journal = [n \in Nodes |-> <<>>] /\ pushed = [n \in Nodes |-> 0]
  /\ cloud = plan.start /\ blobs = [s \in Stores |-> {}]
  /\ now = plan.now /\ faults = plan.faults
  /\ call = [c \in DOMAIN plan.calls |-> NotStarted]
-----------------------------------------------------------------------------
(***************************************************************************)
(* The reducer.  An event is [id, kind, key, at, ctx, root, link, targets, *)
(* hashes, ok]: its e tags with their markers, its x tags, and whether the *)
(* content its kind needs is there.                                        *)
(***************************************************************************)
NoOwner == "nobody"

\* The author, or the owner whose attestation the event carries and is covered by.
event_owner(e) ==
  IF plan.limit[e.key] = 0 THEN e.key
  ELSE IF e.at < plan.limit[e.key] THEN plan.owner[e.key] ELSE NoOwner

event_order(e, f) == e.at < f.at \/ (e.at = f.at /\ e.id < f.id)
Earliest(es) == CHOOSE e \in es : \A f \in es : f = e \/ event_order(e, f)
Newest(es) == CHOOSE e \in es : \A f \in es : f = e \/ event_order(f, e)

validate_open(e) == e.ok /\ event_owner(e) # NoOwner

validate_claim(e, open) ==
  /\ e.kind = "claim" /\ e.root = open.id /\ e.ctx = open.ctx
  /\ e.at > open.at /\ e.key \in open.claimants /\ event_owner(e) # NoOwner

validate_return(e, open, claim) ==
  /\ e.kind = "return" /\ e.root = open.id /\ e.ctx = open.ctx
  /\ e.at > claim.at /\ e.key = claim.key /\ e.link = claim.id /\ e.ok
  /\ event_owner(e) # NoOwner

\* A mutant: a close of any return of the handoff counts.
validate_close_Any(e, open, returned) ==
  /\ e.kind = "close" /\ e.root = open.id /\ e.ctx = open.ctx
  /\ event_owner(e) = event_owner(open)
validate_close(e, open, returned) ==
  /\ e.kind = "close" /\ e.root = open.id /\ e.ctx = open.ctx
  /\ e.at > returned.at /\ e.link = returned.id
  /\ event_owner(e) = event_owner(open)

validate_invalid_ack(e, events) ==
  /\ e.kind = "ack" /\ event_owner(e) # NoOwner
  /\ e.targets # {} /\ Cardinality(e.targets) <= MaxTargets
  /\ \A t \in e.targets : \E o \in events :
       /\ o.kind = "open" /\ o.id = t /\ ~validate_open(o) /\ event_owner(o) # NoOwner
       /\ o.ctx = e.ctx /\ e.at > o.at /\ event_owner(e) = event_owner(o)

State(name, claim, returned, by) == [state |-> name, claim |-> claim, returned |-> returned, by |-> by]

\* A mutant: the newest of a claimant's claims is the accepted one.
Accepted_Newest(claims) == Newest(claims)
\* Of one signer's claims the earliest counts.
Accepted(claims) == Earliest(claims)

\* A mutant: the first signer to claim wins.
Conflicting_Never(claims) == FALSE
Conflicting(claims) == Cardinality({e.key : e \in claims}) > 1

reduce_handoff(open, events) ==
  LET acks == {e \in events : validate_invalid_ack(e, events) /\ open.id \in e.targets}
      claims == {e \in events : validate_claim(e, open)}
      claim == Accepted(claims)
      returns == {e \in events : validate_return(e, open, claim)}
      closes == {e \in events : validate_close(e, open, Newest(returns))}
  IN IF ~validate_open(open)
       THEN IF acks = {} THEN State("INVALID", 0, 0, 0)
            ELSE State("ACKNOWLEDGED_INVALID", 0, 0, Earliest(acks).id)
     ELSE IF claims = {} THEN State("OPEN", 0, 0, 0)
     ELSE IF Conflicting(claims) THEN State("CONFLICT", 0, 0, 0)
     ELSE IF returns = {} THEN State("CLAIMED", claim.id, 0, 0)
     ELSE IF closes = {} THEN State("RETURNED", claim.id, Newest(returns).id, 0)
     ELSE State("CLOSED", claim.id, Newest(returns).id, Earliest(closes).id)

ById(events, i) == CHOOSE e \in events : e.id = i
Opens(events) == {e \in events : e.kind = "open"}
-----------------------------------------------------------------------------
(***************************************************************************)
(* Reading and posting.  A command reads its own journal, then the         *)
(* rendezvous, and works on what it read.  A query that fails ends the     *)
(* command; a post whose answer is lost ends it too, with the event kept.  *)
(***************************************************************************)
Node(c) == plan.calls[c].node
Signer(c) == plan.calls[c].key
To(c, pc) == call' = [call EXCEPT ![c].pc = pc]
Fail(c) == faults > 0 /\ faults' = faults - 1 /\ To(c, "failed") /\ UNCHANGED <<plan, journal, pushed, cloud, blobs, now>>

NextId == LET n == Cardinality(Posted) + 1 IN IF plan.up THEN n ELSE 2 * MaxEvents - n

\* A mutant: the node's clock alone.
causal_timestamp_Now(c, pred) == now[Node(c)]
causal_timestamp(c, pred) == IF now[Node(c)] > pred THEN now[Node(c)] ELSE pred + 1

Event(c, kind, at, ctx) ==
  [id |-> NextId, kind |-> kind, key |-> Signer(c), at |-> at, ctx |-> ctx, root |-> 0, link |-> 0,
   targets |-> {}, claimants |-> {}, hashes |-> {}, ok |-> TRUE]

Append1(c, e) == journal' = [journal EXCEPT ![Node(c)] = Append(@, e)]

\* submit_checked: the journal takes the event; the answer may not arrive.
submit_checked(c, e, next) ==
  /\ Cardinality(Posted) < MaxEvents
  /\ Append1(c, e)
  /\ \/ call' = [call EXCEPT ![c].pc = next, ![c].event = e.id] /\ UNCHANGED faults
     \/ faults > 0 /\ faults' = faults - 1 /\ To(c, "failed")
  /\ UNCHANGED <<plan, pushed, cloud, blobs, now>>

\* The return a close is told to close: any the user may have been shown.
Named(c) == IF plan.calls[c].kind = "close" THEN {e.id : e \in {r \in Posted : r.kind = "return"}} ELSE {0}

read_local(c) ==
  /\ call[c].pc \in {"start", "reread"}
  /\ plan.calls[c].kind \in {"claim", "return", "close", "ack"}
  /\ \/ \E link \in Named(c) :
             call' = [call EXCEPT ![c].view = ToSet(journal[Node(c)]), ![c].link = link,
                                  ![c].pc = IF @ = "start" THEN "cloud" ELSE "recloud"]
        /\ UNCHANGED <<plan, journal, pushed, cloud, blobs, now, faults>>
     \/ Fail(c)

\* A mutant: the bytes alone.
Verified_BytesOnly(h, ctx) == h \in blobs["cloud"]
\* verify_rendezvous_manifest: a signed manifest in this context, and its bytes.
Verified(h, ctx) ==
  /\ \E m \in cloud : m.kind = "manifest" /\ h \in m.hashes /\ m.ctx = ctx
  /\ h \in blobs["cloud"]

\* What a command finds in the state it read: what to do next, and the
\* predecessor's time the new event must come after.
Go(pc, pred) == [pc |-> pc, pred |-> pred]
Refused == Go("refused", 0)

claim(k, opened, s, view) ==
  IF s.state = "OPEN" /\ k.key \in opened.claimants THEN Go("post", opened.at)
  ELSE IF s.state = "CLAIMED" /\ ById(view, s.claim).key = k.key THEN Go("done", 0) ELSE Refused

return_handoff(k, s, view) ==
  IF s.state = "CLAIMED" /\ ById(view, s.claim).key = k.key THEN Go("verify", ById(view, s.claim).at) ELSE Refused

\* Here the signer's owner is the one its attestation names, lapsed or not.
OwnerHex(k) == IF plan.limit[k] = 0 THEN k ELSE plan.owner[k]
close(k, named, opened, s, view) ==
  IF s.state = "RETURNED" /\ s.returned = named /\ OwnerHex(k.key) = event_owner(opened)
    THEN Go("verify", ById(view, s.returned).at) ELSE Refused

Found(c, view) ==
  LET k == plan.calls[c]
      opens == {o \in Opens(view) : o.id = k.open}
      opened == CHOOSE o \in opens : TRUE
      s == reduce_handoff(opened, view)
  IN CASE opens = {} -> Refused
       [] opens # {} /\ k.kind = "claim" -> claim(k, opened, s, view)
       [] opens # {} /\ k.kind = "return" -> return_handoff(k, s, view)
       [] opens # {} /\ k.kind = "close" -> close(k, call[c].link, opened, s, view)

\* A mutant: neither the trial reduction nor the one after the post is made.
Acknowledges_Unchecked(c, view, e) == TRUE
\* require_acknowledged_states: the reduction archives every target, by this event.
Acknowledges(c, view, e) ==
  \A t \in plan.calls[c].targets :
    \E o \in Opens(view) : o.id = t /\ reduce_handoff(o, view \cup {e}) = State("ACKNOWLEDGED_INVALID", 0, 0, e.id)
AckEvent(c, view) ==
  LET targets == {o \in Opens(view) : o.id \in plan.calls[c].targets}
      pred == Newest(targets).at
  IN [Event(c, "ack", causal_timestamp(c, pred), Earliest(targets).ctx) EXCEPT !.targets = plan.calls[c].targets]
FoundInvalid(c, view) ==
  LET targets == {o \in Opens(view) : o.id \in plan.calls[c].targets} IN
  /\ {o.id : o \in targets} = plan.calls[c].targets /\ targets # {}
  /\ Cardinality(plan.calls[c].targets) <= MaxTargets
  /\ \A o \in targets : reduce_handoff(o, view).state = "INVALID" /\ event_owner(o) # NoOwner
  /\ Cardinality({o.ctx : o \in targets}) = 1 /\ Cardinality({event_owner(o) : o \in targets}) = 1
  /\ OwnerHex(Signer(c)) = event_owner(Earliest(targets))

read_cloud(c) ==
  /\ call[c].pc \in {"cloud", "recloud"}
  /\ \/ LET view == call[c].view \cup cloud
            found == Found(c, view)
        IN /\ call' = [call EXCEPT ![c] =
                IF call[c].pc = "recloud"
                  THEN [@ EXCEPT !.view = view,
                                 !.pc = IF Acknowledges(c, view, ById(Posted, call[c].event)) THEN "done" ELSE "failed"]
                ELSE IF plan.calls[c].kind = "ack"
                  THEN [@ EXCEPT !.view = view, !.pc = IF FoundInvalid(c, view) THEN "post" ELSE "refused"]
                ELSE [@ EXCEPT !.view = view, !.pc = found.pc, !.pred = found.pred]]
           /\ UNCHANGED <<plan, journal, pushed, cloud, blobs, now, faults>>
     \/ Fail(c)

\* A mutant: what the command read from both relays is believed.
AtRendezvous_Union(c) == TRUE
\* verify_artifacts asks the rendezvous alone whether the return stands.
AtRendezvous(c) ==
  \E o \in Opens(cloud) : LET s == reduce_handoff(o, cloud) IN
    s.state \in {"RETURNED", "CLOSED"} /\ s.returned = call[c].link

Advertised(c) == IF plan.calls[c].kind = "close" THEN ById(call[c].view, call[c].link).hashes ELSE plan.calls[c].hashes

verify(c) ==
  /\ call[c].pc = "verify"
  /\ \/ LET ctx == ById(call[c].view, plan.calls[c].open).ctx
            good == /\ plan.calls[c].kind = "close" => AtRendezvous(c)
                    /\ \A h \in Advertised(c) : Verified(h, ctx)
        IN To(c, IF good THEN "post" ELSE "refused") /\ UNCHANGED <<plan, journal, pushed, cloud, blobs, now, faults>>
     \/ Fail(c)

post(c) ==
  LET k == plan.calls[c]
      at == causal_timestamp(c, call[c].pred)
      ctx == ById(call[c].view, k.open).ctx
  IN /\ call[c].pc = "post" /\ k.kind # "ack"
     /\ submit_checked(c, [Event(c, k.kind, at, ctx) EXCEPT !.root = k.open, !.hashes = k.hashes,
          !.link = IF k.kind = "return" THEN reduce_handoff(ById(call[c].view, k.open), call[c].view).claim ELSE call[c].link],
          "done")

post_ack(c) ==
  /\ call[c].pc = "post" /\ plan.calls[c].kind = "ack"
  /\ LET e == AckEvent(c, call[c].view) IN
       IF Acknowledges(c, call[c].view, e) THEN submit_checked(c, e, "reread")
       ELSE To(c, "refused") /\ UNCHANGED <<plan, journal, pushed, cloud, blobs, now, faults>>

\* open: what the command checks of the specification is not all the reducer wants.
open(c) ==
  /\ call[c].pc = "start" /\ plan.calls[c].kind = "open"
  /\ submit_checked(c, [Event(c, "open", now[Node(c)], plan.calls[c].ctx) EXCEPT
       !.claimants = plan.calls[c].claimants, !.hashes = plan.calls[c].hashes, !.ok = plan.calls[c].ok], "done")
-----------------------------------------------------------------------------
(***************************************************************************)
(* announce: the bytes to both stores, then the manifest, then a push of   *)
(* the journal, then the check of the result.  And artifact sync.          *)
(***************************************************************************)
\* A mutant: the manifest is posted before the rendezvous has the bytes.
AnnounceOrder_ManifestFirst == <<"start", "manifest", "upload", "push">>
AnnounceOrder == <<"start", "upload", "manifest", "push">>
AfterStep(pc) ==
  LET i == CHOOSE i \in 1..4 : AnnounceOrder[i] = pc IN IF i = 4 THEN "check" ELSE AnnounceOrder[i + 1]

announce(c) ==
  /\ plan.calls[c].kind = "announce"
  /\ \/ /\ call[c].pc \in {"start", "upload"}
        /\ LET s == IF call[c].pc = "start" THEN Node(c) ELSE "cloud" IN
             blobs' = [blobs EXCEPT ![s] = @ \cup plan.calls[c].hashes]
        /\ To(c, AfterStep(call[c].pc)) /\ UNCHANGED <<plan, journal, pushed, cloud, now, faults>>
     \/ /\ call[c].pc = "manifest"
        /\ submit_checked(c, [Event(c, "manifest", now[Node(c)], plan.calls[c].ctx) EXCEPT !.hashes = plan.calls[c].hashes],
                          AfterStep("manifest"))
     \/ /\ call[c].pc = "push" /\ To(c, AfterStep("push"))
        /\ cloud' = cloud \cup ToSet(journal[Node(c)]) /\ pushed' = [pushed EXCEPT ![Node(c)] = Len(journal[Node(c)])]
        /\ UNCHANGED <<plan, journal, blobs, now, faults>>
     \/ /\ call[c].pc = "check"
        /\ To(c, IF \A h \in plan.calls[c].hashes : Verified(h, plan.calls[c].ctx) THEN "done" ELSE "failed")
        /\ UNCHANGED <<plan, journal, pushed, cloud, blobs, now, faults>>
     \/ call[c].pc \in {"start", "upload", "manifest", "push", "check"} /\ Fail(c)

\* sync_clients: every artifact the journal names and the local store lacks is
\* fetched; the first that cannot be had ends the command.
Referenced(n) == UNION {e.hashes : e \in ToSet(journal[n])}
Wanted(c) == Referenced(Node(c)) \ blobs[Node(c)]
artifact_sync(c) ==
  /\ plan.calls[c].kind = "artifact_sync" /\ call[c].pc = "start"
  /\ \/ /\ Wanted(c) = {} /\ To(c, "done") /\ UNCHANGED blobs
     \/ \E h \in Wanted(c) :
          IF h \in blobs["cloud"] THEN blobs' = [blobs EXCEPT ![Node(c)] = @ \cup {h}] /\ UNCHANGED call
          ELSE To(c, "failed") /\ UNCHANGED blobs
  /\ UNCHANGED <<plan, journal, pushed, cloud, now, faults>>

\* The journal push running beside the commands takes the next event along.
replicate(n) ==
  /\ pushed[n] < Len(journal[n])
  /\ pushed' = [pushed EXCEPT ![n] = @ + 1] /\ cloud' = cloud \cup {journal[n][pushed[n] + 1]}
  /\ UNCHANGED <<plan, journal, blobs, now, call, faults>>

tick(n) ==
  /\ now[n] < plan.now[n] + plan.ticks
  /\ now' = [now EXCEPT ![n] = @ + 1] /\ UNCHANGED <<plan, journal, pushed, cloud, blobs, call, faults>>

Next ==
  \/ \E c \in Calls : \/ read_local(c) \/ read_cloud(c) \/ verify(c) \/ post(c) \/ post_ack(c)
                      \/ open(c) \/ announce(c) \/ artifact_sync(c)
  \/ \E n \in Nodes : replicate(n) \/ tick(n)

Spec == Init /\ [][Next]_vars
-----------------------------------------------------------------------------
(***************************************************************************)
(* Properties.                                                             *)
(***************************************************************************)
Now(o) == reduce_handoff(o, Posted).state

\* A transition the command line reports as posted is one the reducer accepts:
\* with the event added to what the command had read, the handoff is in the
\* state the command announces, carried by that event (claim, return_handoff,
\* close and the reducer's validations), unless the signer's attestation does
\* not cover the event.  An acknowledgment reported as published archives every
\* target it names and no other.
PostedIsHeard ==
  \A c \in Calls : call[c].pc = "done" /\ call[c].event # 0 =>
    LET e == ById(Posted, call[c].event)
        k == plan.calls[c]
        s == reduce_handoff(ById(call[c].view, k.open), call[c].view \cup {e})
    IN CASE k.kind = "claim" -> event_owner(e) # NoOwner => s = State("CLAIMED", e.id, 0, 0)
         [] k.kind = "return" -> event_owner(e) # NoOwner => s.state = "RETURNED" /\ s.returned = e.id
         [] k.kind = "close" -> event_owner(e) # NoOwner => s.state = "CLOSED" /\ s.by = e.id
         [] k.kind = "ack" -> \A o \in Opens(Posted) :
              (o.id \in k.targets => Now(o) = "ACKNOWLEDGED_INVALID")
              /\ (Now(o) = "ACKNOWLEDGED_INVALID" => o.id \in UNION {plan.calls[d].targets : d \in Calls})
         [] OTHER -> TRUE

\* A handoff is only closed on evidence anyone can fetch: the return that the
\* close verified stands at the rendezvous with its claim, and each artifact it
\* advertises is there with a signed manifest (close, verify_artifacts,
\* verify_rendezvous_manifest; announce uploads before it posts the manifest).
ClosedOnEvidence ==
  \A o \in Opens(Posted) : LET s == reduce_handoff(o, Posted) IN s.state = "CLOSED" =>
    /\ {s.claim, s.returned} \subseteq {e.id : e \in cloud}
    /\ \A h \in ById(Posted, s.returned).hashes :
         h \in blobs["cloud"] /\ \E m \in cloud : m.kind = "manifest" /\ h \in m.hashes /\ m.ctx = o.ctx

\* Two signers who were both told that they hold a handoff are both in conflict
\* for everyone who sees both claims: neither is passed over (claim reads and
\* then posts; reduce_handoff).
NoClaimPassedOver ==
  \A c, d \in Calls :
    /\ plan.calls[c].kind = "claim" /\ plan.calls[d].kind = "claim" /\ plan.calls[c].open = plan.calls[d].open
    /\ call[c].pc = "done" /\ call[d].pc = "done" /\ call[c].event # 0 /\ call[d].event # 0
    /\ Signer(c) # Signer(d) /\ \A x \in {c, d} : event_owner(ById(Posted, call[x].event)) # NoOwner
    => Now(ById(Posted, plan.calls[c].open)) = "CONFLICT"

\* A manifest at the rendezvous names bytes the rendezvous has (announce).
ManifestsBacked == \A m \in cloud : m.kind = "manifest" => m.hashes \subseteq blobs["cloud"]

\* What an added event may do to a handoff (reduce_handoff): a conflict and an
\* acknowledgment stay; a closed handoff is reopened only by a claim of another
\* allowed signer (CONFLICT), by an earlier claim of the same signer (CLAIMED)
\* or by a newer return (RETURNED); and no handoff goes back to OPEN.
OnlyEvidenceMoves ==
  [][\A o \in Opens(Posted) :
       LET s == reduce_handoff(o, Posted)
           t == reduce_handoff(o, Posted')
           new == Posted' \ Posted
       IN /\ s.state \in {"CONFLICT", "ACKNOWLEDGED_INVALID"} => t.state = s.state
          /\ s.state # "OPEN" => t.state # "OPEN"
          /\ s.state = "CLOSED" /\ t.state # "CLOSED" => \E e \in new :
               \/ t.state = "CONFLICT" /\ e.kind = "claim" /\ e.key # ById(Posted, s.claim).key
               \/ t.state = "CLAIMED" /\ e.kind = "claim" /\ e.key = ById(Posted, s.claim).key
                  /\ event_order(e, ById(Posted, s.claim))
               \/ t.state = "RETURNED" /\ e.kind = "return" /\ event_order(ById(Posted, s.returned), e)]_vars
=============================================================================
