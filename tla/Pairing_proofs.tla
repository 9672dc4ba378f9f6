--------------------------- MODULE Pairing_proofs ---------------------------
(***************************************************************************)
(* Proofs about device pairing, for any number of targets that scanned the *)
(* code, any faults and any stray events: who holds the secret is the      *)
(* device both users confirmed, and a source that reports success is       *)
(* right.                                                                  *)
(***************************************************************************)
EXTENDS Pairing, TLAPS

Fields == {"pc", "state", "peer", "expired", "processed", "inbox", "sub", "got"}
Types == {"offer", "sas_confirm", "other-transcript", "payload", "complete", "failure",
          "abort", "junk"}
Events == [n : Nat, from : Devices \cup {Nobody}, to : Devices, type : Types]

\* What the proofs need of the types.
Shape ==
  /\ dev = [d \in Devices |-> dev[d]]
  /\ \A d \in Devices : /\ DOMAIN dev[d] = Fields
                        /\ dev[d].inbox \in Seq(Events)
                        /\ dev[d].got \in BOOLEAN
  /\ last \in Nat

\* The events that wait for d.
Items(s) == {s[i] : i \in DOMAIN s}
Mail(d) == Items(dev[d].inbox)

\* A target's peer is the source; the source's is a target once it asks its user.
PeersOK ==
  /\ \A t \in Targets : dev[t].peer = Source
  /\ dev[Source].peer \in Targets \cup {Nobody}
  /\ dev[Source].pc \in {"ask", "payload", "complete", "done"} => dev[Source].peer \in Targets

\* Nobody gets past the question without an answer, nor to completion without
\* the secret.
AskedOK ==
  /\ dev[Source].pc \in {"payload", "complete", "done"} => Source \in yes
  /\ \A t \in Targets : /\ dev[t].pc \in {"payload", "send"} => t \in yes
                        /\ dev[t].pc = "send" => dev[t].got

\* What an event on its way says of its sender.
MailOK ==
  \A d \in Devices : \A m \in Mail(d) :
    /\ m.type = "offer" => m.from \in Targets
    /\ m.type = "payload" => d = dev[Source].peer /\ Source \in yes
    /\ m.type = "complete" => m.from \in Targets /\ dev[m.from].got

IInv == Shape /\ PeersOK /\ AskedOK /\ MailOK /\ PairedAgree
-----------------------------------------------------------------------------
(***************************************************************************)
(* What a step does to the part of the state that the proofs are about.    *)
(***************************************************************************)
SessionOK(r) == DOMAIN r = Fields /\ r.inbox \in Seq(Events) /\ r.got \in BOOLEAN
EventsIn(r) == Items(r.inbox)
Sessions(f) == f = [b \in Devices |-> f[b]] /\ \A b \in Devices : SessionOK(f[b])

\* d is at x, with the peer q, and holds the secret if g; the others are as they
\* were.
Moves(d, x, q, g) ==
  /\ dev' = [b \in Devices |-> dev'[b]]
  /\ \A b \in Devices : SessionOK(dev'[b])
  /\ dev'[d].pc = x /\ dev'[d].peer = q /\ dev'[d].got = g
  /\ \A b \in Devices \ {d} :
       dev'[b].pc = dev[b].pc /\ dev'[b].peer = dev[b].peer /\ dev'[b].got = dev[b].got

\* At most an event of d, of one of the types, is on its way to q that was not.
Posts(d, q, types) ==
  \A b \in Devices : \A m \in EventsIn(dev'[b]) :
    m \in EventsIn(dev[b]) \/ (b = q /\ m.from = d /\ m.type \in types)
MailKept == \A b \in Devices : EventsIn(dev'[b]) \subseteq EventsIn(dev[b])

\* An inbox that an event is appended to, and one that its first is taken from.
LEMMA InboxAppend ==
  ASSUME NEW s \in Seq(Events), NEW m \in Events
  PROVE  /\ Append(s, m) \in Seq(Events)
         /\ Items(Append(s, m)) \subseteq Items(s) \cup {m}
<1>1. /\ Append(s, m) \in Seq(Events) /\ DOMAIN Append(s, m) = 1 .. Len(s) + 1
      /\ DOMAIN s = 1 .. Len(s) /\ Len(s) \in Nat
  OBVIOUS
<1>2. \A i \in 1 .. Len(s) + 1 : Append(s, m)[i] = m \/ (i \in 1 .. Len(s) /\ Append(s, m)[i] = s[i])
  BY <1>1
<1> QED
  BY <1>1, <1>2 DEF Items
LEMMA InboxTail ==
  ASSUME NEW s \in Seq(Events), s # <<>>
  PROVE  /\ Tail(s) \in Seq(Events)
         /\ Items(Tail(s)) \subseteq Items(s)
         /\ Head(s) \in Items(s)
         /\ Head(s) \in Events
<1>1. Len(s) \in Nat /\ Len(s) > 0 /\ DOMAIN s = 1 .. Len(s)
  OBVIOUS
<1>2. /\ Tail(s) \in Seq(Events) /\ DOMAIN Tail(s) = 1 .. Len(s) - 1
      /\ \A i \in 1 .. Len(s) - 1 : Tail(s)[i] = s[i + 1]
  BY <1>1
<1>3. \A i \in 1 .. Len(s) - 1 : i + 1 \in 1 .. Len(s)
  BY <1>1
<1>4. Head(s) = s[1] /\ 1 \in DOMAIN s
  BY <1>1
<1> QED
  BY <1>1, <1>2, <1>3, <1>4 DEF Items

\* A step that sets one session.
LEMMA SetMoves ==
  ASSUME Shape, NEW d \in Devices, NEW r, SessionOK(r), Set(d, r)
  PROVE  /\ Moves(d, r.pc, r.peer, r.got)
         /\ EventsIn(r) \subseteq EventsIn(dev[d]) => MailKept
<1>1. dev' = [b \in Devices |-> IF b = d THEN r ELSE dev[b]]
  BY DEF Set, Shape
<1>2. \A b \in Devices : SessionOK(dev[b])
  BY DEF Shape, SessionOK
<1> QED
  BY <1>1, <1>2 DEF Moves, MailKept

\* What the relay does with an event: at most its addressee gets it.
Delivers(f, g, m) ==
  /\ Sessions(g)
  /\ \A b \in Devices :
       /\ g[b].pc = f[b].pc /\ g[b].peer = f[b].peer /\ g[b].got = f[b].got
       /\ \A e \in EventsIn(g[b]) : e \in EventsIn(f[b]) \/ (b = m.to /\ e = m)
LEMMA CarriesAdds ==
  ASSUME NEW devs, Sessions(devs), NEW m \in Events
  PROVE  Delivers(devs, Carries(devs, m), m)
<1>1. m.to \in Devices
  BY DEF Events
<1> DEFINE r == [devs[m.to] EXCEPT !.inbox = Append(@, m)]
<1>2. CASE Carries(devs, m) = devs
  BY <1>2 DEF Delivers
<1>3. CASE Carries(devs, m) # devs
  <2>1. Carries(devs, m) = [devs EXCEPT ![m.to] = r]
    BY <1>3 DEF Carries
  <2>2. Carries(devs, m) = [b \in Devices |-> IF b = m.to THEN r ELSE devs[b]]
    <3> HIDE DEF r
    <3> QED
      BY <2>1 DEF Sessions
  <2>3. \A b \in Devices : SessionOK(devs[b])
    BY DEF Sessions
  <2>4. /\ DOMAIN r = Fields /\ r.inbox = Append(devs[m.to].inbox, m)
        /\ r.pc = devs[m.to].pc /\ r.peer = devs[m.to].peer /\ r.got = devs[m.to].got
    BY <1>1, <2>3 DEF SessionOK, Fields
  <2> HIDE DEF r
  <2>5. SessionOK(r) /\ EventsIn(r) \subseteq EventsIn(devs[m.to]) \cup {m}
    BY <1>1, <2>3, <2>4, InboxAppend DEF SessionOK, EventsIn
  <2> QED
    BY <1>1, <2>2, <2>3, <2>4, <2>5 DEF Sessions, Delivers
<1> QED
  BY <1>2, <1>3

\* publish_event: the sender moves on, and its peer may get the event.
LEMMA PublishMoves ==
  ASSUME Shape, NEW d \in Devices, NEW s, SessionOK(s), s.inbox = dev[d].inbox,
         s.peer \in Devices, NEW type \in Types, Publish(d, s, type)
  PROVE  /\ Moves(d, s.pc, s.peer, s.got)
         /\ Posts(d, s.peer, {type, "other-transcript", "failure"})
         /\ last' \in Nat
<1> DEFINE m == [n |-> last + 1, from |-> d, to |-> s.peer, type |-> type]
           other == [m EXCEPT !.type = Foreign[type]]
           mine == [dev EXCEPT ![d] = s]
<1>1. m \in Events /\ m.from = d /\ m.to = s.peer /\ m.type = type
  BY DEF Events, Shape
<1>2. /\ mine = [b \in Devices |-> IF b = d THEN s ELSE dev[b]]
      /\ \A b \in Devices : SessionOK(mine[b])
  BY DEF Shape, SessionOK
<1>3. /\ mine = [b \in Devices |-> mine[b]] /\ \A b \in Devices : SessionOK(mine[b])
      /\ \A b \in Devices : EventsIn(mine[b]) = EventsIn(dev[b])
      /\ mine[d] = s /\ \A b \in Devices \ {d} : mine[b] = dev[b]
  <2> HIDE DEF mine
  <2> QED
    BY <1>2 DEF EventsIn
<1>4. type \in DOMAIN Foreign => /\ other \in Events /\ other.from = d /\ other.to = s.peer
                                 /\ other.type \in {"other-transcript", "failure"}
  BY <1>1 DEF Events, Types, Foreign
<1>5. \/ dev' = Carries(mine, m) \/ dev' = mine
      \/ type \in DOMAIN Foreign /\ dev' = Carries(mine, other)
  BY DEF Publish
<1>6. last' \in Nat
  BY DEF Publish, Shape
<1> HIDE DEF m, other, mine
<1>7. ASSUME NEW e \in Events, e.from = d, e.to = s.peer,
             e.type \in {type, "other-transcript", "failure"}, dev' = Carries(mine, e)
      PROVE  /\ Moves(d, s.pc, s.peer, s.got)
             /\ Posts(d, s.peer, {type, "other-transcript", "failure"})
  <2>1. /\ dev' = [b \in Devices |-> dev'[b]]
        /\ \A b \in Devices :
             /\ SessionOK(dev'[b]) /\ dev'[b].pc = mine[b].pc
             /\ dev'[b].peer = mine[b].peer /\ dev'[b].got = mine[b].got
             /\ \A x \in EventsIn(dev'[b]) : x \in EventsIn(mine[b]) \/ (b = e.to /\ x = e)
    <3>1. Sessions(mine)
      BY <1>3 DEF Sessions
    <3>2. Delivers(mine, Carries(mine, e), e)
      BY <3>1, CarriesAdds
    <3> QED
      BY <1>7, <3>2 DEF Sessions, Delivers
  <2> QED
    BY <1>3, <1>7, <2>1 DEF Moves, Posts
<1>8. CASE dev' = mine
  <2>1. Moves(d, s.pc, s.peer, s.got)
    BY <1>3, <1>8 DEF Moves
  <2>2. Posts(d, s.peer, {type, "other-transcript", "failure"})
    BY <1>3, <1>8 DEF Posts
  <2> QED
    BY <1>6, <2>1, <2>2
<1> QED
  BY <1>1, <1>4, <1>5, <1>6, <1>7, <1>8

\* Waiting for an event: it is an abort or a refusal, it is handled, or it is
\* discarded.
LEMMA WaitMoves ==
  ASSUME Shape, NEW d \in Devices, NEW h, NEW state, NEW next, Wait(d, h, state, next)
  PROVE  /\ MailKept /\ Arrived(d) \in Mail(d) /\ dev[d].inbox # <<>> /\ UNCHANGED <<yes, last>>
         /\ \/ Moves(d, "failed", dev[d].peer, dev[d].got)
            \/ Moves(d, dev[d].pc, dev[d].peer, dev[d].got)
            \/ h /\ Moves(d, next,
                          IF dev[d].peer = Nobody THEN Arrived(d).from ELSE dev[d].peer,
                          dev[d].got \/ Arrived(d).type = "payload")
<1> DEFINE m == Arrived(d)
           s == [dev[d] EXCEPT !.inbox = Tail(@)]
           a == [Accept(s, "Aborted", m) EXCEPT !.pc = "failed"]
           k == [Accept(s, state, m) EXCEPT !.pc = next,
                   !.peer = IF s.peer = Nobody THEN m.from ELSE @,
                   !.got = @ \/ m.type = "payload"]
           f == [s EXCEPT !.state = "Aborted", !.pc = "failed"]
<1>1. SessionOK(dev[d]) /\ dev[d].inbox # <<>>
  BY DEF Shape, SessionOK, Wait
<1>2. /\ Tail(dev[d].inbox) \in Seq(Events)
      /\ Items(Tail(dev[d].inbox)) \subseteq Mail(d)
      /\ m \in Mail(d) /\ m \in Events
  BY <1>1, InboxTail DEF SessionOK, Arrived, Mail
<1>3. /\ DOMAIN s = Fields /\ s.inbox = Tail(dev[d].inbox) /\ s.pc = dev[d].pc
      /\ s.peer = dev[d].peer /\ s.got = dev[d].got
  BY <1>1 DEF SessionOK, Fields
<1>4. Set(d, a) \/ (h /\ Set(d, k)) \/ Set(d, f) \/ Set(d, s)
  BY DEF Wait
<1>5. UNCHANGED <<yes, last>>
  BY DEF Wait
<1> HIDE DEF m, s
<1>6. ASSUME NEW r, SessionOK(r), r.inbox = s.inbox, Set(d, r)
      PROVE  MailKept /\ Moves(d, r.pc, r.peer, r.got)
  <2>1. EventsIn(r) \subseteq EventsIn(dev[d])
    BY <1>6, <1>2, <1>3 DEF EventsIn, Mail
  <2> QED
    BY <1>6, <2>1, SetMoves
<1>7. CASE Set(d, s)
  <2>1. SessionOK(s)
    BY <1>1, <1>2, <1>3 DEF SessionOK
  <2> QED
    BY <1>1, <1>2, <1>3, <1>5, <1>6, <1>7, <2>1 DEF m
<1>8. CASE Set(d, a)
  <2>1. SessionOK(a) /\ a.inbox = s.inbox /\ a.pc = "failed" /\ a.peer = dev[d].peer /\ a.got = dev[d].got
    BY <1>1, <1>2, <1>3 DEF SessionOK, Accept, Fields
  <2> HIDE DEF a
  <2>2. MailKept /\ Moves(d, a.pc, a.peer, a.got)
    BY <1>6, <1>8, <2>1
  <2> QED
    BY <1>1, <1>2, <1>5, <2>1, <2>2 DEF m
<1>9. CASE Set(d, f)
  <2>1. SessionOK(f) /\ f.inbox = s.inbox /\ f.pc = "failed" /\ f.peer = dev[d].peer /\ f.got = dev[d].got
    BY <1>1, <1>2, <1>3 DEF SessionOK, Fields
  <2> HIDE DEF f
  <2>2. MailKept /\ Moves(d, f.pc, f.peer, f.got)
    BY <1>6, <1>9, <2>1
  <2> QED
    BY <1>1, <1>2, <1>5, <2>1, <2>2 DEF m
<1>10. CASE h /\ Set(d, k)
  <2>1. /\ SessionOK(k) /\ k.inbox = s.inbox /\ k.pc = next
        /\ k.peer = (IF dev[d].peer = Nobody THEN m.from ELSE dev[d].peer)
        /\ k.got = (dev[d].got \/ m.type = "payload")
    BY <1>1, <1>2, <1>3 DEF SessionOK, Accept, Fields
  <2> HIDE DEF k
  <2>2. MailKept /\ Moves(d, k.pc, k.peer, k.got)
    BY <1>6, <1>10, <2>1
  <2>3. Moves(d, next, IF dev[d].peer = Nobody THEN m.from ELSE dev[d].peer,
              dev[d].got \/ m.type = "payload")
    BY <2>1, <2>2
  <2> QED
    BY <1>1, <1>2, <1>5, <1>10, <2>2, <2>3 DEF m
<1> QED
  BY <1>4, <1>7, <1>8, <1>9, <1>10
-----------------------------------------------------------------------------
(***************************************************************************)
(* A step of d keeps the invariant when it keeps d's peer, takes d past a  *)
(* question only with an answer, and to the secret, to completion and to   *)
(* success only with what these say; and when the events it posts are      *)
(* true.                                                                   *)
(***************************************************************************)
PeerKept(d, q) ==
  IF d = Source THEN q = dev[Source].peer \/ (dev[Source].peer = Nobody /\ q \in Targets)
  ELSE q = Source
StepTrue(d, x, q, g) ==
  IF d = Source
  THEN /\ x \in {"ask", "payload", "complete", "done"} => q \in Targets
       /\ x \in {"payload", "complete", "done"} => Source \in yes'
       /\ x = "done" => dev[q].got
  ELSE /\ x \in {"payload", "send"} => d \in yes'
       /\ x = "send" => g
       /\ g => dev[d].got \/ (d = dev[Source].peer /\ {Source, d} \subseteq yes')
MailTrue ==
  \A b \in Devices : \A m \in EventsIn(dev'[b]) :
    \/ m \in EventsIn(dev[b])
    \/ /\ m.type = "offer" => m.from \in Targets
       /\ m.type = "payload" => b = dev'[Source].peer /\ Source \in yes'
       /\ m.type = "complete" => m.from \in Targets /\ dev'[m.from].got

LEMMA InvKept ==
  ASSUME DevicesDistinct, IInv, NEW d \in Devices, NEW x, NEW q, NEW g, Moves(d, x, q, g),
         PeerKept(d, q), StepTrue(d, x, q, g), MailTrue, dev[d].got => g,
         yes \subseteq yes', last' \in Nat
  PROVE  IInv'
<1>d. Source \in Devices /\ Targets \subseteq Devices /\ Source \notin Targets /\ Nobody \notin Devices
  BY DEF Devices, DevicesDistinct
<1>t. \A b \in Devices : b = Source \/ b \in Targets
  BY DEF Devices
<1>1. Shape'
  BY DEF Moves, Shape, SessionOK
<1>m. /\ dev'[d].pc = x /\ dev'[d].peer = q /\ dev'[d].got = g
      /\ \A b \in Devices \ {d} :
           dev'[b].pc = dev[b].pc /\ dev'[b].peer = dev[b].peer /\ dev'[b].got = dev[b].got
  BY DEF Moves
<1>g. \A b \in Devices : dev[b].got => dev'[b].got
  BY <1>m
<1>p. dev'[Source].peer = dev[Source].peer \/ dev[Source].peer = Nobody
  BY <1>m, <1>d DEF PeerKept
<1>2. PeersOK'
  BY <1>m, <1>d, <1>t DEF IInv, PeersOK, PeerKept, StepTrue
<1>3. AskedOK'
  BY <1>m, <1>d, <1>t DEF IInv, AskedOK, StepTrue
<1>4. MailOK'
  <2> SUFFICES ASSUME NEW b \in Devices, NEW m \in EventsIn(dev'[b])
               PROVE  /\ m.type = "offer" => m.from \in Targets
                      /\ m.type = "payload" => b = dev'[Source].peer /\ Source \in yes'
                      /\ m.type = "complete" => m.from \in Targets /\ dev'[m.from].got
    BY DEF MailOK, Mail, EventsIn
  <2>1. CASE m \in EventsIn(dev[b])
    <3>1. /\ m.type = "offer" => m.from \in Targets
          /\ m.type = "payload" => b = dev[Source].peer /\ Source \in yes
          /\ m.type = "complete" => m.from \in Targets /\ dev[m.from].got
      BY <2>1 DEF IInv, MailOK, Mail, EventsIn
    <3> QED
      BY <3>1, <1>p, <1>g, <1>d
  <2> QED
    BY <2>1 DEF MailTrue
<1>5. PairedAgree'
  <2>1. ASSUME NEW t \in Targets, dev'[t].got
        PROVE  t = dev'[Source].peer /\ {Source, t} \subseteq yes'
    <3>1. t = dev[Source].peer /\ {Source, t} \subseteq yes'
      <4>1. CASE dev[t].got
        BY <4>1 DEF IInv, PairedAgree
      <4>2. CASE ~dev[t].got
        BY <4>2, <2>1, <1>m, <1>d DEF StepTrue
      <4> QED
        BY <4>1, <4>2
    <3> QED
      BY <3>1, <1>p, <1>d
  <2>2. ASSUME dev'[Source].pc = "done"
        PROVE  dev'[dev'[Source].peer].got
    <3>1. CASE d = Source
      <4>1. q \in Targets /\ dev[q].got
        BY <2>2, <3>1, <1>m DEF StepTrue
      <4> QED
        BY <4>1, <3>1, <1>m, <1>g, <1>d
    <3>2. CASE d # Source
      <4>1. dev[Source].pc = "done" /\ dev'[Source].peer = dev[Source].peer
        BY <2>2, <3>2, <1>m, <1>d
      <4>2. dev[Source].peer \in Targets /\ dev[dev[Source].peer].got
        BY <4>1 DEF IInv, PairedAgree, PeersOK
      <4> QED
        BY <4>1, <4>2, <1>g, <1>d
    <3> QED
      BY <3>1, <3>2
  <2> QED
    BY <2>1, <2>2 DEF PairedAgree
<1> QED
  BY <1>1, <1>2, <1>3, <1>4, <1>5 DEF IInv

\* The events of a wait, and of a step that posts none, are true.
LEMMA KeptIsTrue ==
  ASSUME MailKept
  PROVE  MailTrue
BY DEF MailKept, MailTrue

\* So are posted events that say nothing, whose type tells of no offer, secret
\* or completion.
LEMMA PostedIsTrue ==
  ASSUME NEW d, NEW q, NEW types, Posts(d, q, types),
         types \cap {"offer", "payload", "complete"} = {}
  PROVE  MailTrue
<1>1. ASSUME NEW b \in Devices, NEW m \in EventsIn(dev'[b]), m \notin EventsIn(dev[b])
      PROVE  m.type \notin {"offer", "payload", "complete"}
  BY <1>1 DEF Posts
<1> QED
  BY <1>1 DEF MailTrue

\* A device whose session changes nothing but its step.
LEMMA OnlyStep ==
  ASSUME DevicesDistinct, IInv, NEW d \in Devices, NEW x,
         Moves(d, x, dev[d].peer, dev[d].got), MailTrue,
         yes \subseteq yes', last' \in Nat,
         IF d = Source THEN /\ x \in {"ask", "payload", "complete", "done"} =>
                                 dev[Source].peer \in Targets
                            /\ x \in {"payload", "complete", "done"} => Source \in yes'
                            /\ x = "done" => dev[dev[Source].peer].got
         ELSE /\ x \in {"payload", "send"} => d \in yes'
              /\ x = "send" => dev[d].got
  PROVE  IInv'
<1>1. PeerKept(d, dev[d].peer)
  BY DEF PeerKept, IInv, PeersOK, Devices
<1>2. StepTrue(d, x, dev[d].peer, dev[d].got)
  BY DEF StepTrue
<1> QED
  BY <1>1, <1>2, InvKept

\* The session of d with other contents, but its peer, its mail and its secret.
Alike(d, r) ==
  /\ DOMAIN r = Fields /\ r.inbox = dev[d].inbox
  /\ r.peer = dev[d].peer /\ r.got = dev[d].got

LEMMA SetAlike ==
  ASSUME Shape, NEW d \in Devices, NEW r, Alike(d, r), Set(d, r)
  PROVE  Moves(d, r.pc, dev[d].peer, dev[d].got) /\ MailTrue
<1>1. SessionOK(r) /\ EventsIn(r) \subseteq EventsIn(dev[d])
  BY DEF Shape, Alike, SessionOK, EventsIn
<1>2. Moves(d, r.pc, r.peer, r.got) /\ MailKept
  BY <1>1, SetMoves
<1> QED
  BY <1>2, KeptIsTrue DEF Alike

LEMMA PublishAlike ==
  ASSUME Shape, NEW d \in Devices, NEW r, Alike(d, r), dev[d].peer \in Devices,
         NEW type \in Types, Publish(d, r, type)
  PROVE  /\ Moves(d, r.pc, dev[d].peer, dev[d].got) /\ last' \in Nat
         /\ Posts(d, dev[d].peer, {type, "other-transcript", "failure"})
<1>1. SessionOK(r) /\ r.inbox = dev[d].inbox /\ r.peer \in Devices
  BY DEF Shape, Alike, SessionOK
<1> QED
  BY <1>1, PublishMoves DEF Alike

\* The source's own steps.
LEMMA SourceKeeps ==
  ASSUME DevicesDistinct, IInv, SourceStep
  PROVE  IInv'
<1>d. Source \in Devices /\ Targets \subseteq Devices /\ Source \notin Targets /\ Nobody \notin Devices
  BY DEF Devices, DevicesDistinct
<1>s. Shape /\ DOMAIN dev[Source] = Fields /\ last \in Nat
  BY <1>d DEF IInv, Shape
<1>1. CASE source_shows
  <2>1. UNCHANGED <<dev, yes, last>>
    BY <1>1 DEF source_shows
  <2> QED
    BY <2>1 DEF IInv, Shape, PeersOK, AskedOK, MailOK, Mail, PairedAgree
<1>2. CASE source_subscribes
  <2> DEFINE r == [dev[Source] EXCEPT !.pc = "offer", !.sub = TRUE]
  <2>1. Alike(Source, r) /\ r.pc = "offer"
    BY <1>s DEF Alike, Fields
  <2>2. Set(Source, r) /\ UNCHANGED <<yes, last>>
    BY <1>2 DEF source_subscribes
  <2> HIDE DEF r
  <2> QED
    BY <1>d, <1>s, <2>1, <2>2, SetAlike, OnlyStep
<1>3. CASE source_waits_offer
  <2> DEFINE m == Arrived(Source)
             h == handles_offer(dev[Source], m)
  <2>1. Wait(Source, h, "Confirming", "ask") /\ dev[Source].pc = "offer"
    BY <1>3 DEF source_waits_offer
  <2>2. h => m.type = "offer"
    BY DEF handles_offer
  <2> HIDE DEF h
  <2>3. /\ MailKept /\ m \in Mail(Source) /\ UNCHANGED <<yes, last>>
        /\ \/ Moves(Source, "failed", dev[Source].peer, dev[Source].got)
           \/ Moves(Source, dev[Source].pc, dev[Source].peer, dev[Source].got)
           \/ h /\ Moves(Source, "ask",
                         IF dev[Source].peer = Nobody THEN m.from ELSE dev[Source].peer,
                         dev[Source].got \/ m.type = "payload")
    BY <1>d, <1>s, <2>1, WaitMoves
  <2>4. MailTrue
    BY <2>3, KeptIsTrue
  <2>5. CASE Moves(Source, "failed", dev[Source].peer, dev[Source].got)
    BY <1>d, <1>s, <2>3, <2>4, <2>5, OnlyStep
  <2>6. CASE Moves(Source, dev[Source].pc, dev[Source].peer, dev[Source].got)
    BY <1>d, <1>s, <2>1, <2>3, <2>4, <2>6, OnlyStep
  <2>7. ASSUME h, Moves(Source, "ask",
                        IF dev[Source].peer = Nobody THEN m.from ELSE dev[Source].peer,
                        dev[Source].got \/ m.type = "payload")
        PROVE  IInv'
    <3> DEFINE q == IF dev[Source].peer = Nobody THEN m.from ELSE dev[Source].peer
               g == dev[Source].got \/ m.type = "payload"
    <3>1. m.from \in Targets
      BY <1>d, <2>2, <2>3, <2>7 DEF IInv, MailOK
    <3>2. q \in Targets /\ PeerKept(Source, q)
      BY <3>1 DEF IInv, PeersOK, PeerKept
    <3>3. StepTrue(Source, "ask", q, g) /\ (dev[Source].got => g) /\ Moves(Source, "ask", q, g)
      BY <2>7, <3>2 DEF StepTrue
    <3> HIDE DEF q, g
    <3> QED
      BY <1>d, <1>s, <2>3, <2>4, <3>2, <3>3, InvKept
  <2> QED
    BY <2>3, <2>5, <2>6, <2>7
<1>4. CASE source_waits_complete
  <2> DEFINE m == Arrived(Source)
             h == handles_complete(dev[Source], m)
  <2>1. Wait(Source, h, "Completed", "done") /\ dev[Source].pc = "complete"
    BY <1>4 DEF source_waits_complete
  <2>2. dev[Source].peer \in Targets /\ Source \in yes
    BY <2>1 DEF IInv, PeersOK, AskedOK
  <2>3. h => m.type = "complete" /\ m.from = dev[Source].peer
    BY <2>2, <1>d DEF handles_complete, validate_event_from_peer
  <2> HIDE DEF h
  <2>4. /\ MailKept /\ m \in Mail(Source) /\ UNCHANGED <<yes, last>>
        /\ \/ Moves(Source, "failed", dev[Source].peer, dev[Source].got)
           \/ Moves(Source, dev[Source].pc, dev[Source].peer, dev[Source].got)
           \/ h /\ Moves(Source, "done",
                         IF dev[Source].peer = Nobody THEN m.from ELSE dev[Source].peer,
                         dev[Source].got \/ m.type = "payload")
    BY <1>d, <1>s, <2>1, WaitMoves
  <2>5. MailTrue
    BY <2>4, KeptIsTrue
  <2>6. CASE Moves(Source, "failed", dev[Source].peer, dev[Source].got)
    BY <1>d, <1>s, <2>4, <2>5, <2>6, OnlyStep
  <2>7. CASE Moves(Source, dev[Source].pc, dev[Source].peer, dev[Source].got)
    BY <1>d, <1>s, <2>1, <2>2, <2>4, <2>5, <2>7, OnlyStep
  <2>8. ASSUME h, Moves(Source, "done",
                        IF dev[Source].peer = Nobody THEN m.from ELSE dev[Source].peer,
                        dev[Source].got \/ m.type = "payload")
        PROVE  IInv'
    <3>1. dev[dev[Source].peer].got
      BY <1>d, <2>2, <2>3, <2>4, <2>8 DEF IInv, MailOK
    <3>2. Moves(Source, "done", dev[Source].peer, dev[Source].got)
      <4>1. (dev[Source].got \/ m.type = "payload") = dev[Source].got
        BY <1>d, <1>s, <2>3, <2>8 DEF Shape
      <4> QED
        BY <4>1, <2>2, <2>8, <1>d
    <3> QED
      BY <1>d, <1>s, <2>2, <2>4, <2>5, <3>1, <3>2, OnlyStep
  <2> QED
    BY <2>4, <2>6, <2>7, <2>8
<1>5. ASSUME NEW x, x \in {"payload", "complete"}, NEW state, NEW type \in {"sas_confirm", "payload"},
             dev[Source].pc \in {"ask", "payload"},
             Publish(Source, [dev[Source] EXCEPT !.pc = x, !.state = state], type),
             Source \in yes', yes \subseteq yes'
      PROVE  IInv'
  <2> DEFINE r == [dev[Source] EXCEPT !.pc = x, !.state = state]
  <2>1. Alike(Source, r) /\ r.pc = x
    BY <1>s DEF Alike, Fields
  <2>2. dev[Source].peer \in Targets
    BY <1>5 DEF IInv, PeersOK
  <2>3. Publish(Source, r, type) /\ type \in Types
    BY <1>5 DEF Types
  <2> HIDE DEF r
  <2>4. /\ Moves(Source, x, dev[Source].peer, dev[Source].got) /\ last' \in Nat
        /\ Posts(Source, dev[Source].peer, {type, "other-transcript", "failure"})
    BY <1>d, <1>s, <2>1, <2>2, <2>3, PublishAlike
  <2>5. dev'[Source].peer = dev[Source].peer
    BY <2>4 DEF Moves
  <2>6. MailTrue
    BY <1>5, <2>4, <2>5 DEF Posts, MailTrue
  <2> QED
    BY <1>5, <1>d, <2>2, <2>4, <2>6, OnlyStep
<1>6. ASSUME Set(Source, [dev[Source] EXCEPT !.pc = "failed"]), yes \subseteq yes', last' = last
      PROVE  IInv'
  <2> DEFINE r == [dev[Source] EXCEPT !.pc = "failed"]
  <2>1. Alike(Source, r) /\ r.pc = "failed"
    BY <1>s DEF Alike, Fields
  <2>2. Set(Source, r)
    BY <1>6
  <2> HIDE DEF r
  <2> QED
    BY <1>6, <1>d, <1>s, <2>1, <2>2, SetAlike, OnlyStep
<1>7. CASE source_confirms
  BY <1>5, <1>6, <1>7 DEF source_confirms
<1>8. CASE source_sends_payload
  <2>1. Source \in yes /\ UNCHANGED yes
    BY <1>8 DEF source_sends_payload, IInv, AskedOK
  <2> QED
    BY <1>5, <1>6, <1>8, <2>1 DEF source_sends_payload
<1> QED
  BY <1>1, <1>2, <1>3, <1>4, <1>7, <1>8 DEF SourceStep

\* A target's own steps.
LEMMA TargetKeeps ==
  ASSUME DevicesDistinct, IInv, NEW t \in Targets, TargetStep(t)
  PROVE  IInv'
<1>d. t \in Devices /\ Source \in Devices /\ t # Source /\ Source # Nobody /\ Source \notin Targets
  BY DEF Devices, DevicesDistinct
<1>s. Shape /\ DOMAIN dev[t] = Fields /\ last \in Nat /\ dev[t].peer = Source
  BY <1>d DEF IInv, Shape, PeersOK
<1>1. ASSUME NEW r, Alike(t, r), Set(t, r), yes \subseteq yes', last' = last,
             r.pc \in {"payload", "send"} => t \in yes', r.pc = "send" => dev[t].got
      PROVE  IInv'
  <2>1. Moves(t, r.pc, dev[t].peer, dev[t].got) /\ MailTrue
    BY <1>1, <1>d, <1>s, SetAlike
  <2> QED
    BY <1>1, <1>d, <1>s, <2>1, OnlyStep
<1>2. CASE target_scans(t)
  <2> DEFINE r == [dev[t] EXCEPT !.pc = "subscribe"]
  <2>1. Alike(t, r) /\ r.pc = "subscribe" /\ Set(t, r) /\ UNCHANGED <<yes, last>>
    BY <1>2, <1>s DEF target_scans, Alike, Fields
  <2> HIDE DEF r
  <2> QED
    BY <1>1, <2>1
<1>3. CASE target_subscribes(t)
  <2> DEFINE r == [dev[t] EXCEPT !.sub = TRUE]
  <2>1. Alike(t, r) /\ r.pc \notin {"payload", "send"} /\ Set(t, r) /\ UNCHANGED <<yes, last>>
    BY <1>3, <1>s DEF target_subscribes, Alike, Fields
  <2> HIDE DEF r
  <2> QED
    BY <1>1, <2>1
<1>4. CASE target_confirms(t)
  <2> DEFINE no == [dev[t] EXCEPT !.pc = "failed"]
             ok == [dev[t] EXCEPT !.pc = "payload", !.state = "Transferring"]
  <2>1. Alike(t, no) /\ no.pc = "failed" /\ Alike(t, ok) /\ ok.pc = "payload"
    BY <1>s DEF Alike, Fields
  <2>2. (Set(t, no) \/ Set(t, ok)) /\ yes' = yes \cup {t} /\ last' = last
    BY <1>4 DEF target_confirms
  <2> HIDE DEF no, ok
  <2> QED
    BY <1>1, <2>1, <2>2
<1>5. ASSUME NEW x, x \notin {"payload", "send"}, NEW state, NEW type \in {"offer", "complete"},
             type = "complete" => dev[t].got,
             Publish(t, [dev[t] EXCEPT !.pc = x, !.state = state], type), UNCHANGED yes
      PROVE  IInv'
  <2> DEFINE r == [dev[t] EXCEPT !.pc = x, !.state = state]
  <2>1. Alike(t, r) /\ r.pc = x /\ Publish(t, r, type) /\ type \in Types
    BY <1>5, <1>s DEF Alike, Fields, Types
  <2> HIDE DEF r
  <2>2. /\ Moves(t, x, dev[t].peer, dev[t].got) /\ last' \in Nat
        /\ Posts(t, dev[t].peer, {type, "other-transcript", "failure"})
    BY <1>d, <1>s, <2>1, PublishAlike
  <2>3. dev'[t].got = dev[t].got
    BY <2>2 DEF Moves
  <2>4. MailTrue
    BY <1>5, <2>2, <2>3 DEF Posts, MailTrue
  <2> QED
    BY <1>5, <1>d, <2>2, <2>4, OnlyStep
<1>6. CASE target_offers(t)
  BY <1>5, <1>6 DEF target_offers
<1>7. CASE target_completes(t)
  <2>1. dev[t].got
    BY <1>7 DEF target_completes, IInv, AskedOK
  <2>2. CASE dev[t].expired
    <3> DEFINE r == [dev[t] EXCEPT !.pc = "failed"]
    <3>1. Alike(t, r) /\ r.pc = "failed" /\ Set(t, r) /\ UNCHANGED <<yes, last>>
      BY <1>7, <2>2, <1>s DEF target_completes, Alike, Fields
    <3> HIDE DEF r
    <3> QED
      BY <1>1, <3>1
  <2>3. CASE ~dev[t].expired
    BY <1>5, <1>7, <2>1, <2>3 DEF target_completes
  <2> QED
    BY <2>2, <2>3
<1>8. ASSUME NEW h, NEW state, NEW next \in {"ask", "send"}, Wait(t, h, state, next),
             dev[t].pc \in {"confirm", "payload"},
             dev[t].pc = "confirm" => next = "ask" /\ (h => Arrived(t).type # "payload"),
             dev[t].pc = "payload" => next = "send" /\ (h => Arrived(t).type = "payload")
      PROVE  IInv'
  <2> DEFINE m == Arrived(t)
             g == dev[t].got \/ m.type = "payload"
  <2>1. /\ MailKept /\ m \in Mail(t) /\ UNCHANGED <<yes, last>>
        /\ \/ Moves(t, "failed", dev[t].peer, dev[t].got)
           \/ Moves(t, dev[t].pc, dev[t].peer, dev[t].got)
           \/ h /\ Moves(t, next, IF dev[t].peer = Nobody THEN m.from ELSE dev[t].peer, g)
    BY <1>d, <1>s, <1>8, WaitMoves
  <2>2. MailTrue
    BY <2>1, KeptIsTrue
  <2>3. CASE Moves(t, "failed", dev[t].peer, dev[t].got)
    BY <1>d, <1>s, <2>1, <2>2, <2>3, OnlyStep
  <2>y. dev[t].pc = "payload" => t \in yes
    BY DEF IInv, AskedOK
  <2>4. CASE Moves(t, dev[t].pc, dev[t].peer, dev[t].got)
    BY <1>d, <1>s, <1>8, <2>y, <2>1, <2>2, <2>4, OnlyStep
  <2>5. ASSUME h, Moves(t, next, IF dev[t].peer = Nobody THEN m.from ELSE dev[t].peer, g)
        PROVE  IInv'
    <3>1. Moves(t, next, Source, g) /\ PeerKept(t, Source)
      BY <2>5, <1>d, <1>s DEF PeerKept
    <3>2. next = "send" => g /\ t \in yes
      BY <1>8, <2>5, <2>y
    <3>3. m.type = "payload" => t = dev[Source].peer /\ Source \in yes /\ t \in yes
      BY <1>8, <2>1, <2>5, <2>y, <1>d DEF IInv, MailOK
    <3>4. StepTrue(t, next, Source, g)
      BY <1>8, <1>d, <2>1, <3>2, <3>3 DEF StepTrue
    <3>5. dev[t].got => g
      OBVIOUS
    <3> HIDE DEF g
    <3> QED
      BY <1>d, <1>s, <2>1, <2>2, <3>1, <3>4, <3>5, InvKept
  <2> QED
    BY <2>1, <2>3, <2>4, <2>5
<1>9. CASE target_waits_confirm(t)
  <2> DEFINE h == handles_sas_confirm(dev[t], Arrived(t))
  <2>1. dev[t].pc = "confirm" /\ Wait(t, h, "AwaitingConfirmation", "ask")
    BY <1>9 DEF target_waits_confirm
  <2>2. h => Arrived(t).type # "payload"
    BY DEF handles_sas_confirm
  <2> HIDE DEF h
  <2> QED
    BY <2>1, <2>2, <1>8
<1>10. CASE target_waits_payload(t)
  <2> DEFINE h == handles_payload(dev[t], Arrived(t))
  <2>1. dev[t].pc = "payload" /\ Wait(t, h, "PayloadExchanged", "send")
    BY <1>10 DEF target_waits_payload
  <2>2. h => Arrived(t).type = "payload"
    BY DEF handles_payload
  <2> HIDE DEF h
  <2> QED
    BY <2>1, <2>2, <1>8
<1> QED
  BY <1>2, <1>3, <1>4, <1>6, <1>7, <1>9, <1>10 DEF TargetStep

\* A user's refusal, timeouts, and what the relay repeats or adds.
LEMMA FaultKeeps ==
  ASSUME DevicesDistinct, IInv, NEW d \in Devices,
         denies(d) \/ gives_up(d) \/ expires(d) \/ StrayTo(d)
  PROVE  IInv'
<1>d. Source \in Devices /\ Targets \subseteq Devices /\ (d = Source \/ d \in Targets)
  BY DEF Devices
<1>s. Shape /\ DOMAIN dev[d] = Fields /\ last \in Nat
  BY DEF IInv, Shape
<1>1. CASE gives_up(d)
  <2> DEFINE r == [dev[d] EXCEPT !.pc = "failed"]
  <2>1. Alike(d, r) /\ r.pc = "failed" /\ Set(d, r) /\ UNCHANGED <<yes, last>>
    BY <1>1, <1>s DEF gives_up, Alike, Fields
  <2> HIDE DEF r
  <2>2. Moves(d, "failed", dev[d].peer, dev[d].got) /\ MailTrue
    BY <1>s, <2>1, SetAlike
  <2> QED
    BY <1>s, <2>1, <2>2, OnlyStep
\* A device that stays where it is keeps what the invariant says of it.
<1>2. ASSUME Moves(d, dev[d].pc, dev[d].peer, dev[d].got), MailTrue, UNCHANGED <<yes, last>>
      PROVE  IInv'
  <2>1. IF d = Source THEN /\ dev[d].pc \in {"ask", "payload", "complete", "done"} =>
                                dev[Source].peer \in Targets
                           /\ dev[d].pc \in {"payload", "complete", "done"} => Source \in yes'
                           /\ dev[d].pc = "done" => dev[dev[Source].peer].got
        ELSE /\ dev[d].pc \in {"payload", "send"} => d \in yes'
             /\ dev[d].pc = "send" => dev[d].got
    BY <1>2, <1>d DEF IInv, PeersOK, AskedOK, PairedAgree
  <2> QED
    BY <1>2, <1>s, <2>1, OnlyStep
<1>3. CASE expires(d)
  <2> DEFINE r == [dev[d] EXCEPT !.expired = TRUE]
  <2>1. Alike(d, r) /\ r.pc = dev[d].pc /\ Set(d, r) /\ UNCHANGED <<yes, last>>
    BY <1>3, <1>s DEF expires, Alike, Fields
  <2> HIDE DEF r
  <2>2. Moves(d, dev[d].pc, dev[d].peer, dev[d].got) /\ MailTrue
    BY <1>s, <2>1, SetAlike
  <2> QED
    BY <1>2, <2>1, <2>2
<1>4. ASSUME NEW m \in Events, m \in Mail(d) \/ m.type = "junk", Stray(d, m)
      PROVE  IInv'
  <2> DEFINE r == [dev[d] EXCEPT !.inbox = Append(@, m)]
  <2>1. /\ DOMAIN r = Fields /\ r.inbox = Append(dev[d].inbox, m) /\ r.pc = dev[d].pc
        /\ r.peer = dev[d].peer /\ r.got = dev[d].got
    BY <1>s DEF Fields
  <2>2. Set(d, r) /\ UNCHANGED <<yes, last>>
    BY <1>4 DEF Stray
  <2> HIDE DEF r
  <2>3. dev[d].inbox \in Seq(Events) /\ dev[d].got \in BOOLEAN
    BY <1>s DEF Shape
  <2>4. SessionOK(r) /\ EventsIn(r) \subseteq Mail(d) \cup {m}
    BY <2>1, <2>3, InboxAppend DEF SessionOK, EventsIn, Mail
  <2>5. Moves(d, dev[d].pc, dev[d].peer, dev[d].got)
    BY <1>s, <2>1, <2>2, <2>4, SetMoves
  <2>6. dev' = [b \in Devices |-> IF b = d THEN r ELSE dev[b]]
    BY <2>2, <1>s DEF Set, Shape
  <2>7. MailTrue
    BY <1>4, <2>4, <2>6 DEF MailTrue, Mail, EventsIn
  <2> QED
    BY <1>2, <2>2, <2>5, <2>7
<1>5. CASE StrayTo(d)
  <2> DEFINE junk == [n |-> 0, from |-> Nobody, to |-> d, type |-> "junk"]
  <2>1. junk \in Events /\ junk.type = "junk"
    BY DEF Events, Types
  <2>2. CASE Stray(d, junk)
    <3> HIDE DEF junk
    <3> QED
      BY <1>4, <2>1, <2>2
  <2>3. CASE dev[d].inbox # <<>> /\ Stray(d, Head(dev[d].inbox))
    <3>1. dev[d].inbox \in Seq(Events)
      BY <1>s DEF Shape
    <3>2. Head(dev[d].inbox) \in Events /\ Head(dev[d].inbox) \in Mail(d)
      BY <2>3, <3>1, InboxTail DEF Mail
    <3> QED
      BY <1>4, <2>3, <3>2
  <2> QED
    BY <1>5, <2>2, <2>3 DEF StrayTo
<1>6. CASE denies(d)
  <2> DEFINE s == Denied(dev[d])
             m == [n |-> last + 1, from |-> d, to |-> s.peer, type |-> "abort"]
             mine == [dev EXCEPT ![d] = s]
  <2>1. Alike(d, s) /\ s.pc = "failed"
    BY <1>s DEF Denied, Alike, Fields
  <2>2. dev[d].peer \in Devices
    BY <1>6, <1>d DEF denies, IInv, PeersOK
  <2>3. dev' = Carries(mine, m) /\ last' = last + 1 /\ UNCHANGED yes
    BY <1>6 DEF denies
  <2> HIDE DEF s
  <2>4. SessionOK(s) /\ s.peer = dev[d].peer /\ s.got = dev[d].got /\ s.inbox = dev[d].inbox
    BY <1>s, <2>1 DEF Alike, SessionOK, Shape
  <2>5. m \in Events /\ m.type = "abort" /\ m.from = d
    BY <1>s, <2>2, <2>4 DEF Events, Types
  <2>6. /\ Sessions(mine) /\ mine[d] = s /\ \A b \in Devices \ {d} : mine[b] = dev[b]
    <3>1. mine = [b \in Devices |-> IF b = d THEN s ELSE dev[b]]
      BY <1>s DEF Shape
    <3>2. \A b \in Devices : SessionOK(dev[b])
      BY <1>s DEF Shape, SessionOK
    <3> HIDE DEF mine
    <3> QED
      BY <3>1, <3>2, <2>4 DEF Sessions
  <2> HIDE DEF m, mine
  <2>7. Delivers(mine, dev', m)
    BY <2>3, <2>5, <2>6, CarriesAdds
  <2>8. Moves(d, "failed", dev[d].peer, dev[d].got)
    BY <2>1, <2>4, <2>6, <2>7 DEF Moves, Delivers, Sessions
  <2>9. MailTrue
    <3>1. ASSUME NEW b \in Devices, NEW e \in EventsIn(dev'[b])
          PROVE  e \in EventsIn(dev[b]) \/ e.type = "abort"
      <4>1. e \in EventsIn(mine[b]) \/ e = m
        BY <2>7, <3>1 DEF Delivers
      <4>2. EventsIn(mine[b]) = EventsIn(dev[b])
        BY <2>4, <2>6 DEF EventsIn
      <4> QED
        BY <4>1, <4>2, <2>5
    <3> QED
      BY <3>1 DEF MailTrue
  <2> QED
    BY <1>s, <2>3, <2>8, <2>9, OnlyStep
<1> QED
  BY <1>1, <1>3, <1>5, <1>6

\* The invariant holds when nobody has started.
LEMMA InvInit == DevicesDistinct /\ Init => IInv
<1> SUFFICES ASSUME DevicesDistinct, Init PROVE IInv
  OBVIOUS
<1>1. dev = [d \in Devices |-> NewSession(d)] /\ yes = {} /\ last = 0
  BY DEF Init
<1>2. \A d \in Devices : /\ DOMAIN dev[d] = Fields /\ dev[d].pc = "start" /\ dev[d].inbox = <<>>
                         /\ dev[d].got = FALSE
                         /\ dev[d].peer = IF d = Source THEN Nobody ELSE Source
  BY <1>1 DEF NewSession, Fields
<1>3. Source \in Devices /\ Targets \subseteq Devices /\ Source \notin Targets
  BY DEF Devices, DevicesDistinct
<1>4. \A d \in Devices : Mail(d) = {}
  BY <1>2 DEF Mail, Items
<1>5. Shape
  <2>1. dev = [d \in Devices |-> dev[d]]
    BY <1>1
  <2>2. <<>> \in Seq(Events)
    OBVIOUS
  <2>3. \A d \in Devices : dev[d].inbox \in Seq(Events) /\ dev[d].got \in BOOLEAN
    BY <1>2, <2>2
  <2> QED
    BY <1>1, <1>2, <2>1, <2>3 DEF Shape
<1> QED
  BY <1>2, <1>3, <1>4, <1>5 DEF IInv, PeersOK, AskedOK, MailOK, PairedAgree

\* Every step keeps it.
LEMMA InvStep == DevicesDistinct /\ IInv /\ [Next]_vars => IInv'
<1> SUFFICES ASSUME DevicesDistinct, IInv, [Next]_vars PROVE IInv'
  OBVIOUS
<1>1. CASE UNCHANGED vars
  <2>1. UNCHANGED <<dev, yes, last>>
    BY <1>1 DEF vars
  <2> QED
    BY <2>1 DEF IInv, Shape, PeersOK, AskedOK, MailOK, Mail, PairedAgree
<1> QED
  BY <1>1, SourceKeeps, TargetKeeps, FaultKeeps DEF Next

(***************************************************************************)
(* Whoever holds the secret is the device whose code both users confirmed, *)
(* and a source that reports success is right about it, for any number of  *)
(* devices that scanned the code and whatever the relay loses, repeats or  *)
(* adds: PairingSession pins its peer with the first offer, and buzz-pair  *)
(* sends the payload only behind the user's answer.                        *)
(***************************************************************************)
THEOREM PairedDevicesAgree ==
  ASSUME DevicesDistinct
  PROVE  Spec => []PairedAgree
<1>1. Init => IInv
  BY InvInit
<1>2. IInv /\ [Next]_vars => IInv'
  BY InvStep
<1>3. IInv => PairedAgree
  BY DEF IInv
<1> QED
  BY <1>1, <1>2, <1>3, PTL DEF Spec
=============================================================================
