------------------------------ MODULE SetupMode ------------------------------
(***************************************************************************)
(* The listener buzz-acp runs in place of the agent when the desktop found *)
(* the agent not ready (buzz-acp/src/setup_mode.rs): it joins the agent's  *)
(* channels and answers each mention of the agent, once, with what is      *)
(* missing.  The log is what the relay stores, in order: messages and      *)
(* membership notifications.  What is stored when a subscription starts    *)
(* comes newest first, what happens later as it happens; a reconnect asks  *)
(* each subscription again, from the newest event that came.               *)
(***************************************************************************)
EXTENDS Integers, Sequences, FiniteSets, SequencesExt

CONSTANTS
    Plans,     \* the payload, the settings, what happens in the channels
    Channels

VARIABLES
    plan,
    log,       \* the relay's events
    members,   \* channels the agent is a member of
    setup,     \* the listener: where it is, what it holds
    subs,      \* channel -> the first event its subscription replays
    link,      \* the connection: up, gone, paced, the log indices on their way (due) and
               \* in the order they came (came), and last_seen of each topic
    nudged,    \* nudged_event_ids
    nudges,    \* the replies the relay got
    lost,      \* triggers whose reply the connection dropped
    left       \* the events and faults still to come

vars == <<plan, log, members, setup, subs, link, nudged, nudges, lost, left>>
world == <<log, members, left>>

Off == 0      \* no subscription
Membership == "membership"
Topics == Channels \cup {Membership}
Topic(e) == IF e.kind \in {"added", "removed"} THEN Membership ELSE e.ch

Init ==
    /\ plan \in Plans
    /\ log = <<>> /\ members = plan.members
    /\ setup = [pc |-> "start", mark |-> 0, since |-> 0, todo |-> {}, known |-> {}, cur |-> 0]
    /\ subs = [t \in Topics |-> Off]
    /\ link = [up |-> TRUE, gone |-> FALSE, paced |-> FALSE, due |-> <<>>, came |-> <<>>,
               last |-> [t \in Topics |-> 0]]
    /\ nudged = {} /\ nudges = <<>> /\ lost = {}
    /\ left = [events |-> plan.events, drops |-> plan.drops, faults |-> plan.faults]

Goes(pc) == setup' = [setup EXCEPT !.pc = pc]
Fault == left.faults > 0 /\ left' = [left EXCEPT !.faults = @ - 1]
Running == setup.pc \notin {"start", "normal", "failed", "ended"}
---------------------------------------------------------------------------
(* The payload.                                                            *)

\* from_raw_env_value: absent or empty is the normal path, malformed an error.
from_raw_env_value(raw) ==
    CASE raw = "absent" -> "normal" [] raw = "malformed" -> "failed" [] OTHER -> "connect"

\* instruction: where each missing requirement is to be met.
instruction(r) ==
    CASE r \in {"field", "key"} -> "edit agent"
      [] r = "login" -> "terminal"
      [] r \in {"install", "git"} -> "runtimes"
      [] OTHER -> "file"

\* Mutant: the footer for external files alone is forgotten.
footer_Mixed(rs) ==
    IF "git" \in rs THEN {"runtimes"}
    ELSE IF "config" \in rs THEN {"edit agent", "file"} ELSE {"edit agent"}
footer(rs) ==
    IF "git" \in rs THEN {"runtimes"}
    ELSE IF rs = {"config"} THEN {"file"}
    ELSE IF "config" \in rs THEN {"edit agent", "file"} ELSE {"edit agent"}

nudge_body(rs) ==
    [steps |-> {<<r, instruction(r)>> : r \in rs},
     footer |-> IF rs = {} THEN {"edit agent"} ELSE footer(rs)]
---------------------------------------------------------------------------
(* The connection.                                                         *)

\* The dedup of event ids: what came, or is on its way, is not handed on again
\* (unless so much came since that its two generations forgot it).
New(j) == ~Contains(link.due, j) /\ (plan.forgets \/ ~Contains(link.came, j))
\* What the relay has stored of a topic from i on, newest first.
Stored(t, i) ==
    Reverse(SelectSeq([j \in 1..Len(log) |-> j], LAMBDA j : j >= i /\ Topic(log[j]) = t /\ New(j)))

\* An unset watermark makes the present the first event to replay.
\* Mutant: a subscription starts at the present.
ReplayFrom_Now == Len(log) + 1
ReplayFrom == IF setup.since = 0 THEN Len(log) + 1 ELSE setup.since

\* channel_since: from the newest event that came, else from where it started.
Since(t, from) == IF link.last[t] = 0 THEN from ELSE link.last[t]

Subscribes(t) ==
    /\ subs' = [subs EXCEPT ![t] = ReplayFrom]
    /\ link' = IF link.up THEN [link EXCEPT !.due = @ \o Stored(t, Since(t, ReplayFrom))] ELSE link

\* The event is handed on: record_event, or its counterpart for notifications.
Came(l, j) == [l EXCEPT !.came = IF Contains(@, j) THEN @ ELSE Append(@, j),
                        !.last[Topic(log[j])] = IF @ > j THEN @ ELSE j]

happens ==
    /\ left.events # <<>>
    /\ LET e == Head(left.events)
       IN /\ log' = Append(log, e)
          /\ members' = CASE e.kind = "added" -> members \cup {e.ch}
                          [] e.kind = "removed" -> members \ {e.ch} [] OTHER -> members
          /\ link' = IF link.up /\ subs[Topic(e)] # Off
                     THEN [link EXCEPT !.due = Append(@, Len(log) + 1)] ELSE link
    /\ left' = [left EXCEPT !.events = Tail(@)]
    /\ UNCHANGED <<plan, setup, subs, nudged, nudges, lost>>

\* What had arrived is still handed on.
connection_lost ==
    /\ Running /\ link.up /\ left.drops > 0
    /\ \E n \in 0..Len(link.due) :
         LET l == FoldLeft(Came, link, SubSeq(link.due, 1, n))
         IN  link' = [l EXCEPT !.up = FALSE, !.due = SubSeq(@, 1, n)]
    /\ left' = [left EXCEPT !.drops = @ - 1]
    /\ UNCHANGED <<plan, log, members, setup, subs, nudged, nudges, lost>>

\* The task behind the connection has ended: every command to it fails.
background_gone ==
    /\ Running /\ ~link.gone /\ Fault
    /\ link' = [link EXCEPT !.gone = TRUE, !.up = FALSE, !.due = <<>>]
    /\ UNCHANGED <<plan, log, members, setup, subs, nudged, nudges, lost>>

\* The relay asks for fewer frames, for a while.
rate_gate ==
    /\ Running /\ plan.paces
    /\ link' = [link EXCEPT !.paced = ~@]
    /\ UNCHANGED <<plan, world, setup, subs, nudged, nudges, lost>>

\* Back: the channels again, then the notifications.  The tolerance for skewed
\* clocks reaches back to k.
Again(t, k) ==
    IF subs[t] = Off THEN <<>>
    ELSE LET i == Since(t, subs[t]) IN Stored(t, IF k < i THEN k ELSE i)
reconnected(k) ==
    /\ ~link.up /\ ~link.gone
    /\ link' = [link EXCEPT !.up = TRUE,
         !.due = @ \o FlattenSeq([i \in 1..Cardinality(Channels) |-> Again(SetToSeq(Channels)[i], k)])
                   \o Again(Membership, k)]
    /\ UNCHANGED <<plan, world, setup, subs, nudged, nudges, lost>>
---------------------------------------------------------------------------
(* run_setup_listener: the start.                                          *)

from_env ==
    /\ setup.pc = "start"
    /\ setup' = [setup EXCEPT !.pc = from_raw_env_value(plan.raw), !.mark = Len(log) + 1]
    /\ UNCHANGED <<plan, world, subs, link, nudged, nudges, lost>>

connect ==
    /\ setup.pc = "connect"
    /\ \/ Goes("watermark") /\ UNCHANGED left
       \/ Fault /\ Goes("failed")
    /\ UNCHANGED <<plan, log, members, subs, link, nudged, nudges, lost>>

\* A watermark that cannot be set is only warned about.
set_startup_watermark ==
    /\ setup.pc = "watermark"
    /\ setup' = [setup EXCEPT !.pc = "membership", !.since = IF link.gone THEN 0 ELSE setup.mark]
    /\ UNCHANGED <<plan, world, subs, link, nudged, nudges, lost>>

subscribe_membership_notifications ==
    /\ setup.pc = "membership"
    /\ IF link.gone THEN Goes("failed") /\ UNCHANGED <<subs, link>>
       ELSE Goes("discover") /\ Subscribes(Membership)
    /\ UNCHANGED <<plan, world, nudged, nudges, lost>>

\* Channels that some rule covers: those of the rules file, when it is used and
\* loads, else those of --channels, else all.
InScope(c) == plan.scope = {} \/ c \in plan.scope

discover_channels ==
    /\ setup.pc = "discover"
    /\ \/ /\ setup' = [setup EXCEPT !.pc = "subscribe", !.todo = {c \in members : InScope(c)},
                                    !.known = members]
          /\ UNCHANGED left
       \/ Fault /\ Goes("failed")
    /\ UNCHANGED <<plan, log, members, subs, link, nudged, nudges, lost>>

subscribe_channels ==
    /\ setup.pc = "subscribe"
    /\ IF setup.todo = {} THEN Goes("loop") /\ UNCHANGED <<subs, link>>
       ELSE \E c \in setup.todo :
              /\ setup' = [setup EXCEPT !.todo = @ \ {c}]
              /\ IF link.gone THEN UNCHANGED <<subs, link>> ELSE Subscribes(c)
    /\ UNCHANGED <<plan, world, nudged, nudges, lost>>
---------------------------------------------------------------------------
(* run_setup_listener: the loop.                                           *)

\* next_event: nothing more comes, and the reconnect it asks for cannot be sent.
stream_ends ==
    /\ setup.pc = "loop" /\ link.gone
    /\ Goes("ended")
    /\ UNCHANGED <<plan, world, subs, link, nudged, nudges, lost>>

Next_event == Head(link.due)
Taken == Came([link EXCEPT !.due = Tail(@)], Next_event)

\* handle_setup_membership: subscribe (again keeps the point replayed from), or
\* unsubscribe and forget how far the channel was seen, by whichever notification
\* comes, older or newer than the one before.
\* A message that has arrived from a channel since left is still handed on.
handle_setup_membership ==
    /\ setup.pc = "loop" /\ link.due # <<>> /\ ~link.gone
    /\ LET e == log[Next_event] from == ReplayFrom
       IN \/ /\ e.kind = "added"
             /\ IF subs[e.ch] # Off \/ ~InScope(e.ch) THEN link' = Taken /\ UNCHANGED subs
                ELSE /\ subs' = [subs EXCEPT ![e.ch] = from]
                     /\ link' = IF link.up THEN [Taken EXCEPT !.due = @ \o Stored(e.ch, Since(e.ch, from))]
                                ELSE Taken
          \/ /\ e.kind = "removed"
             /\ subs' = [subs EXCEPT ![e.ch] = Off]
             /\ link' = [Taken EXCEPT !.last[e.ch] = 0]
    /\ UNCHANGED <<plan, world, setup, nudged, nudges, lost>>

\* Messages and approval requests that mention the agent, by someone else.
\* Mutant: every message is taken for a mention.
Asks_All(e) == e.kind \in {"message", "approval"} /\ e.author # "self"
Asks(e) == e.kind \in {"message", "approval"} /\ e.author # "self" /\ e.mentions
receive ==
    /\ setup.pc = "loop" /\ link.due # <<>> /\ Topic(log[Next_event]) # Membership
    /\ setup' = IF Asks(log[Next_event]) THEN [setup EXCEPT !.pc = "gate", !.cur = Next_event] ELSE setup
    /\ link' = Taken
    /\ UNCHANGED <<plan, world, subs, nudged, nudges, lost>>

\* author_allowed, with a channel whose type is not known taken for a direct message.
allowed(e, dm) ==
    CASE plan.mode = "nobody" -> FALSE
      [] dm -> e.author = "owner"
      [] OTHER -> plan.mode = "anyone" \/ e.author = "owner"
filter_matched(e) == InScope(e.ch) /\ e.kind \in plan.kinds

\* Mutant: what was answered is not looked up.
should_nudge_for_event_Again(id, ok, matched) == ok /\ matched
should_nudge_for_event(id, ok, matched) == ok /\ matched /\ id \notin nudged

gates ==
    /\ setup.pc = "gate"
    /\ LET e == log[setup.cur]
       IN \E resolved \in {TRUE} \cup (IF e.ch \in setup.known THEN {} ELSE {FALSE}) :
            LET ok == allowed(e, ~resolved \/ e.ch \in plan.dms)
            IN IF should_nudge_for_event(setup.cur, ok, filter_matched(e))
               THEN Goes("publish") /\ nudged' = nudged \cup {setup.cur}
               ELSE Goes("loop") /\ UNCHANGED nudged
    /\ UNCHANGED <<plan, world, subs, link, nudges, lost>>

\* publish_setup_nudge: flat to the thread's root, else to the message; its author
\* tagged.  The connection drops a frame while it is down or paced, and the send
\* succeeds all the same.
reply(j) == [of |-> j, ch |-> log[j].ch, to |-> log[j].author, body |-> nudge_body(plan.needs),
             root |-> IF log[j].root = 0 THEN j ELSE log[j].root]
publish_setup_nudge ==
    /\ setup.pc = "publish"
    /\ Goes("loop")
    /\ IF link.up /\ ~link.paced
       THEN nudges' = Append(nudges, reply(setup.cur)) /\ UNCHANGED lost
       ELSE lost' = lost \cup {setup.cur} /\ UNCHANGED nudges
    /\ UNCHANGED <<plan, world, subs, link, nudged>>

Listen ==
    \/ from_env \/ connect \/ set_startup_watermark \/ subscribe_membership_notifications
    \/ discover_channels \/ subscribe_channels \/ stream_ends \/ handle_setup_membership
    \/ receive \/ gates \/ publish_setup_nudge
Next ==
    \/ Listen \/ happens \/ connection_lost \/ background_gone \/ rate_gate
    \/ \E k \in 1..(Len(log) + 1) : reconnected(k)

Spec == Init /\ [][Next]_vars
---------------------------------------------------------------------------
(* Properties.                                                             *)

\* A mention is answered at most once, however often it is delivered again, and
\* only where the agent would have answered: never its own message, never a
\* direct message of someone else, whether or not its channel's type was known
\* (should_nudge_for_event, author_allowed, is_dm_channel).
NudgedOnce ==
    /\ \A i, j \in 1..Len(nudges) : nudges[i].of = nudges[j].of => i = j
    /\ \A i \in 1..Len(nudges) :
         LET n == nudges[i] e == log[n.of]
         IN /\ e.mentions /\ e.author # "self" /\ e.kind \in plan.kinds /\ InScope(e.ch)
            /\ plan.mode # "nobody" /\ (e.author = "owner" \/ (plan.mode = "anyone" /\ e.ch \notin plan.dms))
            /\ n.ch = e.ch /\ n.to = e.author
            /\ n.root = n.of \/ n.root = e.root

\* A reply names every requirement, and sends the user to Edit Agent only when
\* something can be set there (nudge_body's footers).
NudgesHelp ==
    \A i \in 1..Len(nudges) :
      LET b == nudges[i].body
      IN /\ {s[1] : s \in b.steps} = plan.needs
         /\ "edit agent" \in b.footer => plan.needs # {"config"}

\* A stored event that never came, although a newer one of its topic did: the
\* connection broke in the middle of a replay, and the next one starts after it.
PassedOver(j) == ~Contains(link.came, j) /\ j < link.last[Topic(log[j])]
\* The channel's notifications came one after another.
MovesInOrder(c) ==
    LET of == SelectSeq(link.came, LAMBDA j : Topic(log[j]) = Membership /\ log[j].ch = c)
    IN  /\ \A i, j \in DOMAIN of : i < j => of[i] < of[j]
        /\ \A j \in DOMAIN log : Topic(log[j]) = Membership /\ log[j].ch = c => ~PassedOver(j)

\* A listener at rest whose connection never went away is subscribed to a channel
\* exactly when the agent is its member and it is in scope, though that changed
\* while it started and was disconnected, provided the channel's notifications came
\* in their order (handle_setup_membership compares no timestamps, and a replay
\* brings the newest first); and it has answered every mention since its start
\* that it is to answer in such a channel, except what a broken replay passed over
\* and replies the connection dropped (run_setup_listener).
MentionsServed ==
    (setup.pc = "loop" /\ link.up /\ link.due = <<>> /\ ~link.gone) =>
      \A c \in Channels : MovesInOrder(c) =>
        /\ subs[c] # Off <=> (c \in members /\ InScope(c))
        /\ \A j \in setup.mark..Len(log) :
             (/\ Topic(log[j]) = c /\ c \in members /\ ~PassedOver(j)
              /\ Asks(log[j]) /\ filter_matched(log[j])
              /\ plan.mode # "nobody" /\ log[j].author = "owner")
             => \/ j \in lost
                \/ \E i \in 1..Len(nudges) : nudges[i].of = j
===========================================================================
