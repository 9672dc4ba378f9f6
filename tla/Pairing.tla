------------------------------ MODULE Pairing ------------------------------
(***************************************************************************)
(* NIP-AB device pairing: the session state machine                        *)
(* (buzz-core/src/pairing/session.rs) driven by buzz-pair                  *)
(* (buzz-pairing-cli/src/main.rs) on one source and several targets that   *)
(* scanned its QR code, over a relay that keeps no history, may lose an    *)
(* event or deliver it twice, and carries events of strangers.  Nobody     *)
(* waits for the relay's OK.                                               *)
(***************************************************************************)
EXTENDS Naturals, Sequences, FiniteSets

CONSTANTS Source, Targets, Nobody,
          MaxFaults, MaxStray   \* bounds: faults; repeated and stray deliveries

VARIABLES dev,     \* each process: its step, its session, the events for it
          shown,   \* the QR code is on the screen
          yes,     \* users who confirmed the SAS codes
          last,    \* the number of the last event
          faults, strays

vars == <<dev, shown, yes, last, faults, strays>>

Devices == {Source} \cup Targets
\* The source is none of its targets, and nobody is none of the devices.
DevicesDistinct == Source \notin Targets /\ Nobody \notin Devices
\* new_source, new_target: the target knows its peer from the QR code.
NewSession(d) ==
  [pc |-> "start", state |-> "Waiting", peer |-> IF d = Source THEN Nobody ELSE Source,
   expired |-> FALSE, processed |-> {}, inbox |-> <<>>, sub |-> FALSE, got |-> FALSE]
Init ==
  /\ dev = [d \in Devices |-> NewSession(d)]
  /\ shown = FALSE /\ yes = {} /\ last = 0 /\ faults = 0 /\ strays = 0

Ended(d) == dev[d].pc \in {"done", "failed"}
Fault == faults < MaxFaults /\ faults' = faults + 1
Set(d, s) == dev' = [dev EXCEPT ![d] = s]
-----------------------------------------------------------------------------
(***************************************************************************)
(* The session: each handler says whether it accepts the event, and what   *)
(* the session is then.                                                    *)
(***************************************************************************)
Terminal(s) == s.state \in {"Completed", "Aborted"}
Accept(s, state, m) == [s EXCEPT !.state = state, !.processed = @ \cup {m.n}]

validate_event_basics(s, m) == m.type # "junk" /\ m.n \notin s.processed
validate_event_from_peer(s, m) == validate_event_basics(s, m) /\ (s.peer # Nobody => m.from = s.peer)
Expects(s, state) == ~s.expired /\ s.state = state

handles_offer(s, m) ==
  Expects(s, "Waiting") /\ validate_event_basics(s, m) /\ m.type = "offer"
handles_sas_confirm(s, m) ==
  Expects(s, "Confirming") /\ validate_event_from_peer(s, m) /\ m.type = "sas_confirm"
handles_payload(s, m) ==
  Expects(s, "Transferring") /\ validate_event_from_peer(s, m) /\ m.type = "payload"
handles_complete(s, m) ==
  Expects(s, "PayloadExchanged") /\ validate_event_from_peer(s, m) /\ m.type = "complete"
\* A transcript that differs and complete(success = false), which other
\* implementations send, end the session; the event is not recorded.
refuses(s, m) ==
  /\ ~s.expired /\ validate_event_from_peer(s, m)
  /\ <<s.state, m.type>> \in {<<"Confirming", "other-transcript">>, <<"PayloadExchanged", "failure">>}
handles_abort(s, m) ==
  ~Terminal(s) /\ s.peer # Nobody /\ validate_event_from_peer(s, m) /\ m.type = "abort"
-----------------------------------------------------------------------------
(***************************************************************************)
(* publish_event: the relay hands the event to its addressee's live        *)
(* subscription, or nobody gets it.                                        *)
(***************************************************************************)
Carries(devs, m) ==
  IF devs[m.to].sub /\ devs[m.to].pc \notin {"done", "failed"}
  THEN [devs EXCEPT ![m.to].inbox = Append(@, m)] ELSE devs
Foreign == [sas_confirm |-> "other-transcript", complete |-> "failure"]
Publish(d, s, type) ==
  LET m == [n |-> last + 1, from |-> d, to |-> s.peer, type |-> type]
      mine == [dev EXCEPT ![d] = s]
  IN  /\ last' = last + 1
      /\ \/ dev' = Carries(mine, m) /\ UNCHANGED faults
         \/ Fault /\ dev' = mine
         \/ Fault /\ type \in DOMAIN Foreign /\ dev' = Carries(mine, [m EXCEPT !.type = Foreign[type]])

\* The relay repeats an event, or carries one that is none of this session's.
Stray(d, m) ==
  /\ dev[d].sub /\ ~Ended(d) /\ strays < MaxStray
  /\ strays' = strays + 1
  /\ Set(d, [dev[d] EXCEPT !.inbox = Append(@, m)])
  /\ UNCHANGED <<shown, yes, last, faults>>
StrayTo(d) ==
  \/ Stray(d, [n |-> 0, from |-> Nobody, to |-> d, type |-> "junk"])
  \/ dev[d].inbox # <<>> /\ Stray(d, Head(dev[d].inbox))
-----------------------------------------------------------------------------
(***************************************************************************)
(* cmd_source.                                                             *)
(***************************************************************************)
source_shows ==
  /\ dev[Source].pc = "start" /\ ~shown /\ shown' = TRUE
  /\ UNCHANGED <<dev, yes, last, faults, strays>>
source_subscribes ==
  /\ dev[Source].pc = "start" /\ shown
  /\ Set(Source, [dev[Source] EXCEPT !.pc = "offer", !.sub = TRUE])
  /\ UNCHANGED <<shown, yes, last, faults, strays>>

Arrived(d) == Head(dev[d].inbox)
\* check_for_abort, then the handler; what neither takes is discarded.
Wait(d, handled, state, next) ==
  /\ dev[d].inbox # <<>>
  /\ LET m == Arrived(d)
         s == [dev[d] EXCEPT !.inbox = Tail(@)]
     IN  Set(d, IF handles_abort(s, m) THEN [Accept(s, "Aborted", m) EXCEPT !.pc = "failed"]
                ELSE IF handled
                THEN [Accept(s, state, m) EXCEPT !.pc = next,
                        !.peer = IF s.peer = Nobody THEN m.from ELSE @,
                        !.got = @ \/ m.type = "payload"]
                ELSE IF refuses(s, m) THEN [s EXCEPT !.state = "Aborted", !.pc = "failed"]
                ELSE s)
  /\ UNCHANGED <<shown, yes, last, faults, strays>>
source_waits_offer ==
  /\ dev[Source].pc = "offer"
  /\ Wait(Source, handles_offer(dev[Source], Arrived(Source)), "Confirming", "ask")
source_waits_complete ==
  /\ dev[Source].pc = "complete"
  /\ Wait(Source, handles_complete(dev[Source], Arrived(Source)), "Completed", "done")

\* The user compares the codes: both sides derive the same one.
source_confirms ==
  /\ dev[Source].pc = "ask"
  /\ yes' = yes \cup {Source}
  /\ IF dev[Source].expired
     THEN Set(Source, [dev[Source] EXCEPT !.pc = "failed"]) /\ UNCHANGED <<last, faults>>
     ELSE Publish(Source, [dev[Source] EXCEPT !.pc = "payload", !.state = "Transferring"], "sas_confirm")
  /\ UNCHANGED <<shown, strays>>
source_sends_payload ==
  /\ dev[Source].pc = "payload"
  /\ IF dev[Source].expired
     THEN Set(Source, [dev[Source] EXCEPT !.pc = "failed"]) /\ UNCHANGED <<last, faults>>
     ELSE Publish(Source, [dev[Source] EXCEPT !.pc = "complete", !.state = "PayloadExchanged"], "payload")
  /\ UNCHANGED <<shown, yes, strays>>
-----------------------------------------------------------------------------
(***************************************************************************)
(* cmd_target.                                                             *)
(***************************************************************************)
target_scans(t) ==
  /\ dev[t].pc = "start" /\ shown
  /\ Set(t, [dev[t] EXCEPT !.pc = "subscribe"])
  /\ UNCHANGED <<shown, yes, last, faults, strays>>
target_subscribes(t) ==
  /\ dev[t].pc \in {"subscribe", "confirm"} /\ ~dev[t].sub
  /\ Set(t, [dev[t] EXCEPT !.sub = TRUE])
  /\ UNCHANGED <<shown, yes, last, faults, strays>>
\* Mutant: the offer is published before the subscription exists.
CanOffer_Early(t) == dev[t].pc = "subscribe"
CanOffer(t) == dev[t].pc = "subscribe" /\ dev[t].sub
target_offers(t) ==
  /\ CanOffer(t)
  /\ Publish(t, [dev[t] EXCEPT !.pc = "confirm", !.state = "Confirming"], "offer")
  /\ UNCHANGED <<shown, yes, strays>>
target_waits_confirm(t) ==
  dev[t].pc = "confirm" /\ Wait(t, handles_sas_confirm(dev[t], Arrived(t)), "AwaitingConfirmation", "ask")
target_confirms(t) ==
  /\ dev[t].pc = "ask"
  /\ yes' = yes \cup {t}
  /\ Set(t, IF dev[t].expired THEN [dev[t] EXCEPT !.pc = "failed"]
            ELSE [dev[t] EXCEPT !.pc = "payload", !.state = "Transferring"])
  /\ UNCHANGED <<shown, last, faults, strays>>
target_waits_payload(t) ==
  dev[t].pc = "payload" /\ Wait(t, handles_payload(dev[t], Arrived(t)), "PayloadExchanged", "send")
target_completes(t) ==
  /\ dev[t].pc = "send"
  /\ IF dev[t].expired
     THEN Set(t, [dev[t] EXCEPT !.pc = "failed"]) /\ UNCHANGED <<last, faults>>
     ELSE Publish(t, [dev[t] EXCEPT !.pc = "done", !.state = "Completed"], "complete")
  /\ UNCHANGED <<shown, yes, strays>>
-----------------------------------------------------------------------------
\* The user sees different codes: abort, and the process ends.
\* Mutant: the process goes on after the abort was sent.
Denied_Continues(s) == [s EXCEPT !.pc = "payload", !.state = "Transferring"]
Denied(s) == [s EXCEPT !.pc = "failed", !.state = "Aborted"]
denies(d) ==
  /\ dev[d].pc = "ask" /\ faults < MaxFaults
  /\ faults' = faults + 1 /\ last' = last + 1
  /\ LET s == Denied(dev[d])
     IN  dev' = Carries([dev EXCEPT ![d] = s],
                        [n |-> last + 1, from |-> d, to |-> s.peer, type |-> "abort"])
  /\ UNCHANGED <<shown, yes, strays>>

\* A wait ends with its timeout or with the connection; the session's 120
\* seconds pass.
gives_up(d) ==
  /\ ~Ended(d) /\ dev[d].pc \notin {"start", "ask"} /\ dev[d].inbox = <<>> /\ Fault
  /\ Set(d, [dev[d] EXCEPT !.pc = "failed"])
  /\ UNCHANGED <<shown, yes, last, strays>>
expires(d) ==
  /\ ~Ended(d) /\ ~dev[d].expired /\ Fault
  /\ Set(d, [dev[d] EXCEPT !.expired = TRUE])
  /\ UNCHANGED <<shown, yes, last, strays>>

SourceStep ==
  source_shows \/ source_subscribes \/ source_waits_offer \/ source_confirms
  \/ source_sends_payload \/ source_waits_complete
TargetStep(t) ==
  target_scans(t) \/ target_subscribes(t) \/ target_offers(t) \/ target_waits_confirm(t)
  \/ target_confirms(t) \/ target_waits_payload(t) \/ target_completes(t)
Next ==
  \/ SourceStep \/ \E t \in Targets : TargetStep(t)
  \/ \E d \in Devices : denies(d) \/ gives_up(d) \/ expires(d) \/ StrayTo(d)

Spec == Init /\ [][Next]_vars

\* The processes run, and their users answer.
Fairness == WF_vars(SourceStep) /\ \A t \in Targets : WF_vars(TargetStep(t))
-----------------------------------------------------------------------------
\* A device that holds the secret is the one whose code the source's user saw
\* and confirmed, its own user confirmed too, and a source that reports success
\* is right about it.
PairedAgree ==
  /\ \A t \in Targets : dev[t].got => t = dev[Source].peer /\ {Source, t} \subseteq yes
  /\ dev[Source].pc = "done" => dev[dev[Source].peer].got

\* Once the source shows a code, both users confirm and nothing fails, the secret
\* arrives and both sides end well: no event of the exchange is sent before its
\* addressee listens, and repeated or foreign events do no harm.
PairingCompletes ==
  (dev[Source].pc = "ask") ~>
     (faults > 0 \/ (dev[Source].pc = "done" /\ dev[dev[Source].peer].pc = "done"))
=============================================================================
