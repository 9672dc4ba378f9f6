------------------------------ MODULE Channels ------------------------------
(***************************************************************************)
(* The CLI's channel commands (buzz-cli/commands/channels.rs,              *)
(* channel_templates.rs) and the identity archive they consult             *)
(* (agents.rs).  `channels create --template` is a sequence of relay       *)
(* requests: the teams of the roster, the owner's managed agents, the      *)
(* archived-identities snapshot, then the channel, its canvas and its      *)
(* members one by one.  Other clients publish agents and archive           *)
(* identities meanwhile, requests fail, answers get lost, and the process  *)
(* may be killed and run again.  The other commands each validate, build   *)
(* and submit one event.                                                   *)
(***************************************************************************)
EXTENDS Integers, Sequences, FiniteSets

CONSTANTS
    Plans,      \* the template or command, the relay's state, what else happens
    MaxTtl,     \* the largest TTL the relay's column holds
    MaxReruns   \* how often a killed or failed command is run again

VARIABLES
    plan,
    relay,   \* agents, teams, archived identities, channels
    run,     \* the command being executed
    left,    \* faults and outside changes still to come, reruns
    old      \* identities archived before the command started

vars == <<plan, relay, run, left, old>>

None == "none"

Idle == [pc |-> "start", slugs |-> {}, teams |-> <<>>, found |-> {}, archived |-> {},
         warned |-> FALSE, agents |-> {}, skipped |-> {}, excluded |-> {}, todo |-> {},
         channel |-> 0, canvas |-> FALSE, added |-> {}, failed |-> {}, listed |-> {}, exit |-> None]

Exit(code) == run' = [run EXCEPT !.pc = "end", !.exit = code]
Fault == left.faults > 0 /\ left' = [left EXCEPT !.faults = @ - 1]

---------------------------------------------------------------------------
(* Options.                                                                *)

\* validate_ttl_seconds
validate_ttl_seconds(t) == t > 0 /\ t <= MaxTtl

OptionsValid(c) ==
    /\ c.type \in {"stream", "forum"}
    /\ c.visibility \in {"open", "private"}
    /\ c.ttl # <<>> => validate_ttl_seconds(c.ttl[1])

\* find_template: by name, without case; the store must exist and parse.
find_template(c) == c.template \in plan.templates

\* The tag the relay's metadata carries for a visibility.
NipTag(v) == IF v = "open" THEN "public" ELSE v

\* canonical_channel_name: leading '#' are not part of a name.
NameGiven(c) == c.name \notin {"#", ""}

NewChannel(c) == [members |-> {}, canvas |-> None, name |-> c.name, about |-> None,
                  topic |-> None, purpose |-> None, ttl |-> c.ttl, archived |-> FALSE,
                  tag |-> NipTag(c.visibility)]

---------------------------------------------------------------------------
(* Creating a channel from a template.                                     *)

Template == plan.cmd.op = "template"

template_start ==
    /\ Template
    /\ run.pc = "start"
    /\ run' = IF ~find_template(plan.cmd) THEN [run EXCEPT !.pc = "end", !.exit = "not_found"]
              ELSE IF ~OptionsValid(plan.cmd) THEN [run EXCEPT !.pc = "end", !.exit = "usage"]
              ELSE [run EXCEPT !.pc = "teams", !.slugs = plan.personas, !.teams = plan.teams]
    /\ old' = relay.archived
    /\ UNCHANGED <<plan, relay, left>>

\* fetch_team_persona_slugs: no such team is an error, a team without the
\* field is empty.
fetch_team_persona_slugs ==
    /\ run.pc = "teams"
    /\ run.teams # <<>>
    /\ LET t == Head(run.teams)
       IN  \/ /\ t \in DOMAIN relay.teams
              /\ run' = [run EXCEPT !.teams = Tail(@), !.slugs = @ \cup relay.teams[t]]
              /\ UNCHANGED left
           \/ /\ t \notin DOMAIN relay.teams
              /\ Exit("not_found")
              /\ UNCHANGED left
           \/ Fault /\ Exit("error")
    /\ UNCHANGED <<plan, relay, old>>

\* scan_managed_agents_by_owner: every instance the owner published for one of
\* the personas.  A roster without personas asks the relay nothing.
scan_managed_agents_by_owner ==
    /\ run.pc = "teams"
    /\ run.teams = <<>>
    /\ \/ /\ run.slugs = {}
          /\ run' = [run EXCEPT !.pc = "create"]
          /\ UNCHANGED left
       \/ /\ run.slugs # {}
          /\ run' = [run EXCEPT !.pc = "snapshot",
                                !.found = {a \in relay.agents : a.persona \in run.slugs}]
          /\ UNCHANGED left
       \/ run.slugs # {} /\ Fault /\ Exit("error")
    /\ UNCHANGED <<plan, relay, old>>

\* verify_archived_event: kind, the relay's own key, exactly one protected
\* tag, the signature.  No event at all is an empty snapshot.
verify_archived_event(kind) == kind = "good"
Snapshot(kind) == IF kind = "absent" THEN {} ELSE relay.archived

Excluded_None(found, archived) == {}

\* resolve_roster_with_archive_filter: archived instances go first.
Excluded(found, archived) == {a \in found : a.key \in archived}

Ambiguous_Never(live, slugs) == FALSE

\* apply_cardinality_rule: two live instances of a persona are an error.
Ambiguous(live, slugs) ==
    \E s \in slugs : Cardinality({a \in live : a.persona = s}) > 1

WarnedOf_Never(trusted) == FALSE
WarnedOf(trusted) == ~trusted

\* The archive filter fails open, and says so: an untrusted or unreachable
\* snapshot counts as empty, with a warning on stderr and in the report.
Resolved(trusted, archived) ==
    LET out == Excluded(run.found, archived)
        live == run.found \ out
        filled == {s \in run.slugs : \E a \in live : a.persona = s}
        told == [run EXCEPT !.warned = WarnedOf(trusted), !.archived = archived]
    IN  run' = IF Ambiguous(live, run.slugs)
               THEN [told EXCEPT !.pc = "end", !.exit = "usage"]
               ELSE [told EXCEPT !.pc = "create", !.agents = live, !.excluded = out,
                       !.skipped = {[persona |-> s,
                                     all |-> \E a \in out : a.persona = s]
                                    : s \in run.slugs \ filled}]

fetch_archived_snapshot ==
    /\ run.pc = "snapshot"
    /\ \/ /\ relay.snapshot = "absent" \/ verify_archived_event(relay.snapshot)
          /\ Resolved(TRUE, Snapshot(relay.snapshot))
          /\ UNCHANGED left
       \/ /\ relay.snapshot # "absent" /\ ~verify_archived_event(relay.snapshot)
          /\ Resolved(FALSE, {})
          /\ UNCHANGED left
       \/ Fault /\ Resolved(FALSE, {})
    /\ UNCHANGED <<plan, relay, old>>

\* What becomes of a submitted event: carried out and answered, refused, or
\* carried out while every answer was lost.
Outcomes == {"ok", "refused", "lost"}
Spend(o) == IF o = "ok" THEN UNCHANGED left ELSE Fault

submit_create ==
    /\ run.pc = "create"
    /\ NameGiven(plan.cmd)
    /\ \E o \in Outcomes :
         LET id == Len(relay.channels) + 1
         IN  /\ Spend(o)
             /\ relay' = IF o = "refused" THEN relay
                         ELSE [relay EXCEPT !.channels = Append(@, NewChannel(plan.cmd))]
             /\ run' = IF o = "ok" THEN [run EXCEPT !.pc = "canvas", !.channel = id,
                                                    !.todo = run.agents]
                       ELSE [run EXCEPT !.pc = "end", !.exit = "error",
                                        !.channel = IF o = "lost" THEN id ELSE 0]
    /\ UNCHANGED <<plan, old>>

refuse_name ==
    /\ run.pc = "create"
    /\ ~NameGiven(plan.cmd)
    /\ Exit("error")
    /\ UNCHANGED <<plan, relay, left, old>>

\* The canvas is best effort.
submit_canvas ==
    /\ run.pc = "canvas"
    /\ \/ /\ ~plan.canvas
          /\ run' = [run EXCEPT !.pc = "members"]
          /\ UNCHANGED <<relay, left>>
       \/ \E o \in Outcomes :
            /\ plan.canvas
            /\ Spend(o)
            /\ relay' = IF o = "refused" THEN relay
                        ELSE [relay EXCEPT !.channels[run.channel].canvas = "template"]
            /\ run' = [run EXCEPT !.pc = "members", !.canvas = (o = "ok")]
    /\ UNCHANGED <<plan, old>>

AddOutcome_Hopeful(o) == "ok"
AddOutcome(o) == o

\* Members follow one another; a failure is reported and the next one tried.
add_member ==
    /\ run.pc = "members"
    /\ \E a \in run.todo : \E o \in Outcomes :
         /\ Spend(o)
         /\ relay' = IF o = "refused" THEN relay
                     ELSE [relay EXCEPT !.channels[run.channel].members = @ \cup {a.key}]
         /\ run' = IF AddOutcome(o) = "ok"
                   THEN [run EXCEPT !.todo = @ \ {a}, !.added = @ \cup {a}]
                   ELSE [run EXCEPT !.todo = @ \ {a}, !.failed = @ \cup {a}]
    /\ UNCHANGED <<plan, old>>

\* build_template_report
template_report ==
    /\ run.pc = "members"
    /\ run.todo = {}
    /\ Exit(IF run.failed = {} THEN "ok" ELSE "partial")
    /\ UNCHANGED <<plan, relay, left, old>>

---------------------------------------------------------------------------
(* The other commands: one event each, on channel 1.                       *)

\* ttl_change: not given, given, or cleared with --no-ttl.
TtlChange_Clears(c) == IF c.ttl # <<>> THEN <<"set", c.ttl>> ELSE <<"set", <<>>>>
TtlChange(c) ==
    IF c.ttl # <<>> THEN <<"set", c.ttl>>
    ELSE IF c.nottl THEN <<"set", <<>>>> ELSE <<"keep", <<>>>>

\* cmd_update_channel and build_update_channel
UpdateValid(c) ==
    /\ c.ttl # <<>> => validate_ttl_seconds(c.ttl[1])
    /\ c.name # None \/ c.about # None \/ TtlChange(c)[1] = "set"
    /\ c.name # "#"                    \* nothing but '#' is no name

Updated(ch, c) ==
    [ch EXCEPT !.name = IF c.name # None THEN c.name ELSE @,
               !.about = IF c.about # None THEN c.about ELSE @,
               !.ttl = IF TtlChange(c)[1] = "set" THEN TtlChange(c)[2] ELSE @]

Gone == [members |-> {}, canvas |-> None, name |-> None, about |-> None, topic |-> None,
         purpose |-> None, ttl |-> <<>>, archived |-> TRUE, tag |-> None]

\* The relay carrying out one of the channel events.
Applied(ch, c) ==
    CASE c.op = "update"    -> Updated(ch, c)
      [] c.op = "topic"     -> [ch EXCEPT !.topic = c.text]
      [] c.op = "purpose"   -> [ch EXCEPT !.purpose = c.text]
      [] c.op = "canvas"    -> [ch EXCEPT !.canvas = c.text]
      [] c.op = "join"      -> [ch EXCEPT !.members = @ \cup {"me"}]
      [] c.op = "leave"     -> [ch EXCEPT !.members = @ \ {"me"}]
      [] c.op = "add"       -> [ch EXCEPT !.members = @ \cup {c.who}]
      [] c.op = "remove"    -> [ch EXCEPT !.members = @ \ {c.who}]
      [] c.op = "archive"   -> [ch EXCEPT !.archived = TRUE]
      [] c.op = "unarchive" -> [ch EXCEPT !.archived = FALSE]
      [] c.op = "delete"    -> Gone

\* What each command refuses before it builds anything.
CommandValid(c) ==
    /\ c.op = "update" => UpdateValid(c)
    /\ c.op = "add" => c.role \in {None, "owner", "admin", "member", "guest", "bot"}
    /\ c.op = "create" => OptionsValid(c) /\ NameGiven(c)
    /\ c.op = "policy" => /\ c.policy \in {"anyone", "owner_only", "nobody"}
                          /\ plan.allowed = {} \/ c.policy \in plan.allowed

single_command ==
    LET c == plan.cmd
    IN  /\ ~Template
        /\ c.op \notin {"archive_identity", "unarchive_identity", "list", "search",
                        "draft_create", "draft_update"}
        /\ run.pc = "start"
        /\ \/ ~CommandValid(c) /\ Exit("usage") /\ UNCHANGED <<relay, left>>
           \/ \E o \in Outcomes :
                /\ CommandValid(c)
                /\ Spend(o)
                /\ relay' = IF o = "refused" THEN relay
                            ELSE IF c.op = "create"
                            THEN [relay EXCEPT !.channels = Append(@, NewChannel(c))]
                            ELSE IF c.op = "policy" THEN [relay EXCEPT !.policy = c.policy]
                            ELSE [relay EXCEPT !.channels[1] = Applied(@, c)]
                /\ Exit(IF o = "ok" THEN "ok" ELSE "error")
        /\ UNCHANGED <<plan, old>>

---------------------------------------------------------------------------
(* Listing and searching.                                                  *)

\* query_paginated: the newest of them, up to the limit.
Newest(ids, limit) == {i \in ids : Cardinality({j \in ids : j > i}) < limit}

VisTag_Same(v) == v

\* The visibility asked for, as the metadata spells it.
VisTag(v) == IF v = "open" THEN "public" ELSE v

\* cmd_list_channels with --member: first the memberships, then the metadata.
list_memberships ==
    /\ plan.cmd.op = "list" /\ plan.cmd.member
    /\ run.pc = "start"
    /\ \/ Fault /\ Exit("error")
       \/ LET mine == {i \in 1..Len(relay.channels) : "me" \in relay.channels[i].members}
          IN  /\ run' = [run EXCEPT !.pc = "metadata", !.todo = Newest(mine, plan.cmd.limit)]
              /\ UNCHANGED left
    /\ UNCHANGED <<plan, relay, old>>

list_metadata ==
    LET c == plan.cmd
        from == IF c.member THEN run.todo ELSE 1..Len(relay.channels)
    IN  /\ c.op = "list"
        /\ run.pc = IF c.member THEN "metadata" ELSE "start"
        /\ \/ from # {} /\ Fault /\ Exit("error")
           \/ /\ run' = [run EXCEPT !.pc = "end", !.exit = "ok",
                     !.listed = {i \in Newest(from, c.limit) :
                                   c.visibility # None => relay.channels[i].tag = VisTag(c.visibility)}]
              /\ UNCHANGED left
        /\ UNCHANGED <<plan, relay, old>>

\* cmd_search_channels: the limit is spent before names are compared.
search_channels ==
    LET c == plan.cmd
    IN  /\ c.op = "search"
        /\ run.pc = "start"
        /\ \/ c.name = "" /\ Exit("usage") /\ UNCHANGED left
           \/ c.name # "" /\ Fault /\ Exit("error")
           \/ /\ c.name # ""
              /\ run' = [run EXCEPT !.pc = "end", !.exit = "ok",
                    !.listed = {i \in Newest(1..Len(relay.channels), c.limit) :
                                  /\ c.all \/ ~relay.channels[i].archived
                                  /\ relay.channels[i].name = c.name}]
              /\ UNCHANGED left
        /\ UNCHANGED <<plan, relay, old>>

---------------------------------------------------------------------------
(* Agent drafts: sent to the owner for review, saved by nobody here.       *)

\* required: a field given must not be blank or too long.
required(f) == f \notin {"blank", "long"}

DraftValid(c) ==
    /\ \A f \in {c.name, c.prompt, c.model} : required(f)
    /\ c.op = "draft_create" => None \notin {c.name, c.prompt}
    /\ c.op = "draft_update" => {c.name, c.prompt, c.model} # {None}

agent_draft ==
    LET c == plan.cmd
    IN  /\ c.op \in {"draft_create", "draft_update"}
        /\ run.pc = "start"
        /\ \/ ~plan.owner /\ Exit("auth") /\ UNCHANGED left
           \/ plan.owner /\ ~DraftValid(c) /\ Exit("usage") /\ UNCHANGED left
           \/ plan.owner /\ DraftValid(c) /\ Exit("ok") /\ UNCHANGED left
           \/ plan.owner /\ DraftValid(c) /\ Fault /\ Exit("error")
        /\ UNCHANGED <<plan, relay, old>>

---------------------------------------------------------------------------
(* The identity archive: archive and unarchive requests.                   *)

\* extract_owner_auth_tag: exactly one auth tag, well formed, by the signer.
extract_owner_auth_tag(tags, signer) == Len(tags) = 1 /\ tags[1] = signer

\* resolve_auth: the target itself needs none; a failed query is an error,
\* never a bare request.
identity_request ==
    LET c == plan.cmd
    IN  /\ c.op \in {"archive_identity", "unarchive_identity"}
        /\ run.pc = "start"
        /\ \/ /\ c.who # "me" /\ Fault /\ Exit("error") /\ UNCHANGED relay
           \/ /\ IF c.who = "me" \/ extract_owner_auth_tag(plan.profile, "me")
                 THEN relay' = [relay EXCEPT !.archived =
                                  IF c.op = "archive_identity" THEN @ \cup {c.who} ELSE @ \ {c.who}]
                 ELSE UNCHANGED relay       \* the relay refuses a bare request
              /\ Exit(IF c.who = "me" \/ extract_owner_auth_tag(plan.profile, "me")
                      THEN "ok" ELSE "error")
              /\ UNCHANGED left
        /\ UNCHANGED <<plan, old>>

---------------------------------------------------------------------------
(* Everybody else, and the process being killed.                           *)

others_publish ==
    /\ \E a \in left.agents :
         /\ relay' = [relay EXCEPT !.agents = @ \cup {a}]
         /\ left' = [left EXCEPT !.agents = @ \ {a}]
    /\ UNCHANGED <<plan, run, old>>

others_archive ==
    /\ \E k \in left.keys :
         /\ relay' = [relay EXCEPT !.archived = @ \cup {k}]
         /\ left' = [left EXCEPT !.keys = @ \ {k}]
    /\ UNCHANGED <<plan, run, old>>

killed ==
    /\ run.pc \notin {"start", "end"}
    /\ Fault
    /\ Exit("killed")
    /\ UNCHANGED <<plan, relay, old>>

rerun ==
    /\ run.exit \in {"killed", "error"}
    /\ left.reruns > 0
    /\ left' = [left EXCEPT !.reruns = @ - 1]
    /\ run' = Idle
    /\ UNCHANGED <<plan, relay, old>>

---------------------------------------------------------------------------

Init ==
    /\ plan \in Plans
    /\ relay = [agents |-> plan.agents, teams |-> plan.team, archived |-> plan.archived,
                snapshot |-> plan.snapshot, policy |-> None,
                channels |-> plan.before]
    /\ run = Idle
    /\ left = [faults |-> plan.faults, agents |-> plan.later, keys |-> plan.laterkeys,
               reruns |-> MaxReruns]
    /\ old = {}

Next ==
    \/ template_start \/ fetch_team_persona_slugs \/ scan_managed_agents_by_owner
    \/ fetch_archived_snapshot \/ submit_create \/ submit_canvas \/ add_member
    \/ template_report \/ refuse_name \/ list_memberships \/ list_metadata
    \/ search_channels \/ agent_draft \/ single_command \/ identity_request \/ others_publish
    \/ others_archive \/ killed \/ rerun

Spec == Init /\ [][Next]_vars

---------------------------------------------------------------------------
(* Properties.                                                             *)

\* A roster that names two live instances of one persona, as the command read
\* it, creates nothing: resolution ends before the first side effect
\* (build_roster_resolution).
AmbiguityCreatesNothing ==
    (run.channel # 0 \/ run.pc \in {"create", "canvas", "members"}) =>
      \A s \in run.slugs : \A a, b \in run.found :
        (a.persona = s /\ b.persona = s /\ {a.key, b.key} \cap run.archived = {}) => a = b

\* What `create --template` reports is so: every persona of the roster is
\* accounted for exactly once, as added, failed or skipped; whoever is
\* reported added is a member; and the status is ok only when nothing failed.
ReportTrue ==
    (Template /\ run.exit \in {"ok", "partial"}) =>
      /\ \A s \in run.slugs :
           Cardinality({a \in run.added \cup run.failed : a.persona = s})
             + Cardinality({k \in run.skipped : k.persona = s}) = 1
      /\ \A a \in run.added : a.key \in relay.channels[run.channel].members
      /\ run.exit = "ok" <=> run.failed = {}
      /\ run.canvas => relay.channels[run.channel].canvas = "template"

\* An identity archived before the command started is never put into the
\* channel, unless the report says the archive could not be trusted; an empty
\* snapshot is believed only when the relay serves none.
ArchivedStayOut ==
    (run.channel # 0 /\ ~run.warned /\ relay.snapshot # "absent") =>
      \A a \in run.added : a.key \notin old

\* A listing shows the caller's channels of the visibility asked for, all of
\* them when the limit does not cut it, whatever word the relay's metadata
\* uses for that visibility.
ListingExact ==
    (plan.cmd.op = "list" /\ run.exit = "ok" /\ plan.cmd.limit >= Len(relay.channels)) =>
      run.listed = {i \in 1..Len(relay.channels) :
                      LET ch == relay.channels[i]
                      IN  /\ plan.cmd.member => "me" \in ch.members
                          /\ plan.cmd.visibility = "open" => ch.tag = "public"
                          /\ plan.cmd.visibility = "private" => ch.tag = "private"}

\* A channel edit changes what its command names and nothing else; a TTL is
\* removed only by --no-ttl, never by leaving --ttl out.
EditsNamedOnly ==
    [][(plan.cmd.op = "update" /\ relay'.channels # relay.channels) =>
         LET c == plan.cmd b == relay.channels[1] a == relay'.channels[1]
         IN  /\ c.name = None => a.name = b.name
             /\ c.about = None => a.about = b.about
             /\ (c.ttl = <<>> /\ ~c.nottl) => a.ttl = b.ttl
             /\ <<a.members, a.canvas, a.topic, a.purpose, a.archived>>
                  = <<b.members, b.canvas, b.topic, b.purpose, b.archived>>]_vars
=============================================================================
